------------------------- MODULE MC_AgvMaintenance -------------------------
(* Small fleets for TLC: one client signed in as staff and one as a viewer,  *)
(* or two clients signed in as staff.                                        *)
EXTENDS AgvMaintenance, TLC

CONSTANTS c1, c2, admin, tech, viewer, a1, a2

StaffAndViewer == c1 :> admin @@ c2 :> viewer
TwoStaff == c1 :> admin @@ c2 :> tech
=============================================================================
