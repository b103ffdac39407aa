--------------------------- MODULE ExclusiveHolder ---------------------------
(***************************************************************************)
(* What a token promises: for every key at most one holder, and a token is *)
(* never passed on.  The old holder loses it in one step, and a new holder *)
(* takes it in a later one.                                                *)
(***************************************************************************)
CONSTANTS Keys, Holders
VARIABLE holders        \* pairs of a key and who holds its current token

Init == holders = {}

\* Any holders may lose their keys.
Lose == holders' \subseteq holders

\* At most one key, which nobody held, gets a holder; others may be lost as well.
Take(k, h) ==
    /\ \A g \in Holders : <<k, g>> \notin holders
    /\ <<k, h>> \in holders'
    /\ holders' \ {<<k, h>>} \subseteq holders

Next == Lose \/ \E k \in Keys, h \in Holders : Take(k, h)

Spec == Init /\ [][Next]_holders

\* No key is held twice.
AtMostOne == \A p, q \in holders : p[1] = q[1] => p = q
=============================================================================
