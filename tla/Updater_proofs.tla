--------------------------- MODULE Updater_proofs ---------------------------
(***************************************************************************)
(* Proofs about Updater for any number of builds, hours and nested loops:  *)
(* its types, that no cut file is installed unless a download was under    *)
(* way when the program quit, and that no background prompt opens during   *)
(* the user's hour.                                                        *)
(***************************************************************************)
EXTENDS Updater, SequenceTheorems, TLAPS

-----------------------------------------------------------------------------
(* The inductive invariant.                                                *)

\* The files F staged for build b are whole.
Whole(b, F) == \A f \in F : staged[b][f] # Cut

\* What a download has fetched so far is whole.
Fetched(l) == l.kind = "download" => Whole(l.build, l.files \ l.todo)
LoopsWhole == \A i \in 1 .. Len(loops) : Fetched(loops[i])

\* As long as no download was cut by quit, what the downloads have fetched, what the
\* script will copy and what is installed are whole files.
StagedWhole ==
    ~torn =>
        /\ \A f \in Files : installed[f] # Cut
        /\ Whole(script.build, script.files)
        /\ LoopsWhole

\* The snooze in the registry never ends before the user's hour.
Snoozed == quiet <= snooze

-----------------------------------------------------------------------------
(* Sequences of loops.                                                     *)

\* The innermost loop left: the others stay as they are.
LEMMA FrontFacts ==
    ASSUME NEW S, NEW s \in Seq(S), s # <<>>
    PROVE  /\ Front(s) \in Seq(S) /\ Len(Front(s)) = Len(s) - 1 /\ Len(s) \in Nat \ {0}
           /\ s[Len(s)] \in S
           /\ \A i \in 1 .. Len(s) - 1 : Front(s)[i] = s[i]
<1>1. Len(s) \in Nat \ {0}
  OBVIOUS
<1>2. s[Len(s)] \in S
  BY <1>1
<1>3. Front(s) = SubSeq(s, 1, Len(s) - 1)
  BY DEF Front
<1>4. SubSeq(s, 1, Len(s) - 1) \in Seq(S) 
  BY <1>1
<1>5. Len(SubSeq(s, 1, Len(s) - 1)) = Len(s) - 1
  <2>1. CASE Len(s) = 1
    <3>1. SubSeq(s, 1, Len(s) - 1) = <<>>
      BY <2>1, SubSeqEmpty
    <3> QED
      BY <2>1, <3>1
  <2>2. CASE Len(s) > 1
    BY <1>1, <2>2
  <2> QED
    BY <1>1, <2>1, <2>2
<1>6. ASSUME NEW i \in 1 .. Len(s) - 1 PROVE SubSeq(s, 1, Len(s) - 1)[i] = s[i]
  BY <1>1
<1> QED
  BY <1>1, <1>2, <1>3, <1>4, <1>5, <1>6

\* Entering a nested loop.
LEMMA AppendFacts ==
    ASSUME NEW S, NEW s \in Seq(S), NEW e \in S
    PROVE  /\ Append(s, e) \in Seq(S) /\ Len(Append(s, e)) = Len(s) + 1 /\ Len(s) \in Nat
           /\ \A i \in 1 .. Len(s) : Append(s, e)[i] = s[i]
           /\ Append(s, e)[Len(s) + 1] = e
OBVIOUS

\* What the constants and the shapes of the variables give every step.
LEMMA Shapes ==
    ASSUME TypeOK
    PROVE  /\ Builds \subseteq Int /\ 0 \in Builds /\ Cut \notin Builds /\ MaxBuild \in Nat
           /\ MaxDepth \in Nat \ {0} /\ kPeriodic \in Nat \ {0} /\ kSnooze \in Nat \ {0}
           /\ published.json \in Builds /\ published.files \in Builds
           /\ loops \in Seq(Loop) /\ Len(loops) \in Nat
           /\ Ask(TRUE) \in Loop /\ Ask(FALSE) \in Loop
<1>1. /\ Builds \subseteq Int /\ 0 \in Builds /\ Cut \notin Builds /\ MaxBuild \in Nat
      /\ MaxDepth \in Nat \ {0} /\ kPeriodic \in Nat \ {0} /\ kSnooze \in Nat \ {0}
  BY Hours, UpdaterBounds DEF Builds, Cut
<1>2. published.json \in Builds /\ published.files \in Builds
  BY DEF TypeOK, FileTypes
<1>3. loops \in Seq(Loop) /\ Len(loops) \in Nat
  BY DEF TypeOK, LoopTypes
<1>4. Ask(TRUE) \in Loop /\ Ask(FALSE) \in Loop
  BY <1>2 DEF Ask, Loop
<1> QED
  BY <1>1, <1>2, <1>3, <1>4

\* The loop a step is about.
LEMMA TopFacts ==
    ASSUME TypeOK, loops # <<>>
    PROVE  /\ Top \in Loop /\ Top.kind \in {"check", "ask", "download"}
           /\ Top.build \in Builds /\ Top.files \subseteq Files /\ Top.todo \subseteq Files
<1>1. Top \in Loop
  BY FrontFacts DEF TypeOK, LoopTypes, Top
<1> QED
  BY <1>1 DEF Loop

-----------------------------------------------------------------------------
(* Types, one part after the other.                                        *)

\* The initial state has its types.
LEMMA InitType == Init => TypeOK
<1> SUFFICES ASSUME Init PROVE TypeOK
  OBVIOUS
<1>1. 0 \in Builds /\ kPeriodic \in Nat \ {0} /\ kSnooze \in Nat \ {0} /\ MaxDepth \in Nat
  BY Hours, UpdaterBounds DEF Builds
<1>2. FileTypes
  BY <1>1 DEF Init, FileTypes, NoScript
<1>3. TimeTypes
  BY <1>1 DEF Init, TimeTypes, Off
<1>4. FlagTypes
  BY DEF Init, FlagTypes
<1>5. LoopTypes
  <2>1. loops = <<>>
    BY DEF Init
  <2> QED
    BY <1>1, <2>1 DEF LoopTypes
<1> QED
  BY <1>2, <1>3, <1>4, <1>5 DEF TypeOK

\* Every step leaves files of known builds.
LEMMA NextFileTypes == TypeOK /\ [Next]_vars => FileTypes'
<1> SUFFICES ASSUME TypeOK, [Next]_vars PROVE FileTypes'
  OBVIOUS
<1> USE DEF FileTypes
<1>1. FileTypes
  BY DEF TypeOK
<1>2. CASE PublishFiles \/ PublishJson
  <2>1. published.json \in Builds /\ published.files \in Builds
    BY <1>1
  <2>2. PublishFiles => published.files + 1 \in Builds
    BY <2>1, UpdaterBounds DEF PublishFiles, Builds
  <2>3. CASE PublishFiles
    BY <1>1, <2>2, <2>3 DEF PublishFiles
  <2>4. CASE PublishJson
    BY <1>1, <2>1, <2>4 DEF PublishJson
  <2> QED
    BY <1>2, <2>3, <2>4
<1>3. CASE Start \/ Tick \/ PeriodicTimeout \/ SnoozeTimeout \/ FetchFailed \/ FetchFinished
  BY <1>1, <1>3 DEF Start, Tick, PeriodicTimeout, SnoozeTimeout, FetchFailed, FetchFinished
<1>4. CASE CheckManually \/ ManualResult \/ Later \/ Update \/ Quit \/ Exit
  BY <1>1, <1>4 DEF CheckManually, ManualResult, Later, Update, Quit, Exit
<1>5. ASSUME NEW f \in Files, DownloadFile(f) PROVE FileTypes'
  <2>1. Top.build \in Builds /\ published.files \in Builds
    BY <1>5, TopFacts, Shapes DEF DownloadFile, Waiting
  <2> QED
    BY <1>1, <1>5, <2>1 DEF DownloadFile
<1>6. ASSUME NEW f \in Files, DownloadFailed(f) PROVE FileTypes'
  BY <1>1, <1>6 DEF DownloadFailed
<1>7. CASE LaunchUpdate
  <2>1. Top.build \in Builds /\ Top.files \subseteq Files
    BY <1>7, TopFacts DEF LaunchUpdate, Waiting
  <2> QED
    BY <1>1, <1>7, <2>1 DEF LaunchUpdate, Launch
<1>8. CASE Unwind
  <2>1. /\ Top.kind \in {"check", "ask", "download"}
        /\ Top.build \in Builds /\ Top.files \subseteq Files
    BY <1>8, TopFacts DEF Unwind
  <2>2. CASE Top.kind = "check" \/ Top.kind = "ask"
    BY <1>1, <1>8, <2>2 DEF Unwind
  <2>3. CASE Top.kind = "download"
    <3>1. staged' \in [Builds -> [Files -> Builds \cup {Cut}]]
      BY <1>1, <1>8, <2>1, <2>3 DEF Unwind
    <3>2. Launch(Top)
      BY <1>8, <2>3 DEF Unwind
    <3>3. script' \in [build: Builds, files: SUBSET Files]
      BY <1>1, <2>1, <3>2 DEF Launch
    <3> QED
      BY <1>1, <1>8, <3>1, <3>3 DEF Unwind
  <2> QED
    BY <2>1, <2>2, <2>3
<1>9. ASSUME NEW copied \in SUBSET Files, ApplyUpdate(copied) PROVE FileTypes'
  <2>1. NoScript \in [build: Builds, files: SUBSET Files]
    BY Shapes DEF NoScript
  <2>2. installed' \in [Files -> Builds \cup {Cut}]
    BY <1>1, <1>9 DEF ApplyUpdate
  <2> QED
    BY <1>1, <1>9, <2>1, <2>2 DEF ApplyUpdate
<1>10. CASE UNCHANGED vars
  BY <1>1, <1>10 DEF vars
<1> QED
  BY <1>2, <1>3, <1>4, <1>5, <1>6, <1>7, <1>8, <1>9, <1>10 DEF Next

\* Every step keeps the times within their hours.
LEMMA NextTimeTypes == TypeOK /\ [Next]_vars => TimeTypes'
<1> SUFFICES ASSUME TypeOK, [Next]_vars PROVE TimeTypes'
  OBVIOUS
<1> USE DEF TimeTypes, Off, scheduler
<1>1. TimeTypes /\ kPeriodic \in Nat \ {0} /\ kSnooze \in Nat \ {0}
  BY Hours DEF TypeOK
<1>2. CASE PublishFiles \/ PublishJson \/ CheckManually \/ ManualResult \/ Update \/ Quit
  BY <1>1, <1>2 DEF PublishFiles, PublishJson, CheckManually, ManualResult, Update, Quit
<1>3. CASE Start \/ PeriodicTimeout \/ SnoozeTimeout \/ Exit
  BY <1>1, <1>3 DEF Start, PeriodicTimeout, SnoozeTimeout, Exit
<1>4. CASE Tick
  BY <1>1, <1>4 DEF Tick
<1>5. CASE FetchFailed \/ FetchFinished
  <2>1. UNCHANGED <<snooze, quiet, periodic, snoozeTimer>>
    BY <1>5 DEF FetchFailed, FetchFinished
  <2> QED
    BY <1>1, <2>1
<1>11. CASE LaunchUpdate
  BY <1>1, <1>11 DEF LaunchUpdate, Launch
<1>10. CASE Later
  <2>1. CASE Top.background
    BY <1>1, <1>10, <2>1 DEF Later
  <2>2. CASE ~Top.background
    BY <1>1, <1>10, <2>2 DEF Later
  <2> QED
    BY <2>1, <2>2
<1>6. ASSUME NEW f \in Files, DownloadFile(f) \/ DownloadFailed(f) PROVE TimeTypes'
  BY <1>1, <1>6 DEF DownloadFile, DownloadFailed
<1>7. CASE Unwind
  <2>1. Top.kind \in {"check", "ask", "download"}
    BY <1>7, TopFacts DEF Unwind
  <2>2. CASE Top.kind = "check"
    BY <1>1, <1>7, <2>2 DEF Unwind
  <2>3. CASE Top.kind = "ask"
    <3>1. snooze' = kSnooze \/ snooze' = snooze
      BY <1>7, <2>3 DEF Unwind
    <3>2. UNCHANGED <<quiet, periodic, snoozeTimer>>
      BY <1>7, <2>3 DEF Unwind
    <3> QED
      BY <1>1, <3>1, <3>2
  <2>4. CASE Top.kind = "download"
    BY <1>1, <1>7, <2>4 DEF Unwind, Launch
  <2> QED
    BY <2>1, <2>2, <2>3, <2>4
<1>8. ASSUME NEW copied \in SUBSET Files, ApplyUpdate(copied) PROVE TimeTypes'
  BY <1>1, <1>8 DEF ApplyUpdate
<1>9. CASE UNCHANGED vars
  BY <1>1, <1>9 DEF vars
<1> QED
  BY <1>2, <1>3, <1>4, <1>5, <1>6, <1>7, <1>8, <1>9, <1>10, <1>11 DEF Next

\* Every step sets the flags to truth values.
LEMMA NextFlagTypes == TypeOK /\ [Next]_vars => FlagTypes'
<1> SUFFICES ASSUME TypeOK, [Next]_vars PROVE FlagTypes'
  OBVIOUS
<1> USE DEF TypeOK, FlagTypes, scheduler
<1>1. CASE PublishFiles \/ PublishJson \/ Start \/ Tick \/ PeriodicTimeout \/ SnoozeTimeout
  BY <1>1 DEF PublishFiles, PublishJson, Start, Tick, PeriodicTimeout, SnoozeTimeout
<1>2. CASE FetchFailed \/ FetchFinished \/ CheckManually \/ ManualResult \/ Later \/ Update
  BY <1>2 DEF FetchFailed, FetchFinished, CheckManually, ManualResult, Later, Update
<1>3. ASSUME NEW f \in Files, DownloadFile(f) \/ DownloadFailed(f) PROVE FlagTypes'
  BY <1>3 DEF DownloadFile, DownloadFailed
<1>4. CASE LaunchUpdate \/ Quit \/ Exit
  BY <1>4 DEF LaunchUpdate, Launch, Quit, Exit
<1>5. CASE Unwind
  <2>1. Top.kind \in {"check", "ask", "download"}
    BY <1>5, TopFacts DEF Unwind
  <2>2. CASE Top.kind = "check" \/ Top.kind = "ask"
    BY <1>5, <2>2 DEF Unwind
  <2>3. CASE Top.kind = "download"
    BY <1>5, <2>3 DEF Unwind, Launch
  <2> QED
    BY <2>1, <2>2, <2>3
<1>6. ASSUME NEW copied \in SUBSET Files, ApplyUpdate(copied) PROVE FlagTypes'
  BY <1>6 DEF ApplyUpdate
<1>7. CASE UNCHANGED vars
  BY <1>7 DEF vars
<1> QED
  BY <1>1, <1>2, <1>3, <1>4, <1>5, <1>6, <1>7 DEF Next

\* A prompt that turns into a download is a loop.
LEMMA UpdateLoop ==
    ASSUME TypeOK, Update
    PROVE  [Top EXCEPT !.kind = "download", !.todo = FilesToDownload(Top.build),
                       !.files = FilesToDownload(Top.build)] \in Loop
<1>1. Top \in Loop
  BY TopFacts DEF Update, Waiting
<1>2. FilesToDownload(Top.build) \subseteq Files
  BY DEF FilesToDownload, Files
<1> QED
  BY <1>1, <1>2 DEF Loop

\* Every step enters, leaves or continues the innermost loop only.
LEMMA NextLoopTypes == TypeOK /\ [Next]_vars => LoopTypes'
<1> SUFFICES ASSUME TypeOK, [Next]_vars PROVE LoopTypes'
  OBVIOUS
<1> USE DEF LoopTypes
<1>1. LoopTypes /\ MaxDepth \in Nat \ {0} /\ Len(loops) \in Nat
  BY Shapes DEF TypeOK
<1>2. CASE PublishFiles \/ PublishJson \/ Tick \/ PeriodicTimeout \/ SnoozeTimeout \/ FetchFailed \/ Quit
  BY <1>1, <1>2 DEF PublishFiles, PublishJson, Tick, PeriodicTimeout, SnoozeTimeout, FetchFailed, Quit
<1>3. CASE Start \/ Exit
  <2>1. loops' = <<>>
    BY <1>3 DEF Start, Exit
  <2> QED
    BY <1>1, <2>1
<1>4. CASE FetchFinished
  <2>1. loops' = loops \/ (loops' = Append(loops, Ask(TRUE)) /\ Len(loops) < MaxDepth)
    BY <1>4 DEF FetchFinished
  <2>2. Ask(TRUE) \in Loop
    BY Shapes
  <2>3. CASE loops' = Append(loops, Ask(TRUE)) /\ Len(loops) < MaxDepth
    <3>1. loops' \in Seq(Loop) /\ Len(loops') = Len(loops) + 1
      BY <1>1, <2>2, <2>3, AppendFacts
    <3>2. Len(loops) + 1 <= MaxDepth
      BY <1>1, <2>3
    <3> QED
      BY <3>1, <3>2
  <2> QED
    BY <1>1, <2>1, <2>3
<1>5. CASE CheckManually
  <2>1. 0 \in Builds /\ {} \subseteq Files
    BY Shapes
  <2>2. loops' \in Seq(Loop) /\ Len(loops') = 1
    BY <1>5, <2>1 DEF CheckManually, Loop
  <2> QED
    BY <1>1, <2>2
<1>6. CASE loops # <<>> /\ Return
  BY <1>1, <1>6, FrontFacts DEF Return
<1>7. CASE ManualResult
  <2>1. CASE Return
    BY <1>6, <1>7, <2>1 DEF ManualResult, Waiting
  <2>2. CASE loops' = Append(Front(loops), Ask(FALSE))
    <3>1. Front(loops) \in Seq(Loop) /\ Len(Front(loops)) = Len(loops) - 1
      BY <1>1, <1>7, FrontFacts DEF ManualResult, Waiting
    <3>2. Ask(FALSE) \in Loop
      BY Shapes
    <3>3. loops' \in Seq(Loop) /\ Len(loops') = Len(Front(loops)) + 1
      BY <2>2, <3>1, <3>2, AppendFacts
    <3> QED
      BY <1>1, <3>1, <3>3
  <2> QED
    BY <1>7, <2>1, <2>2 DEF ManualResult
<1>8. CASE Update
  <2>1. Front(loops) \in Seq(Loop) /\ Len(Front(loops)) = Len(loops) - 1
    BY <1>1, <1>8, FrontFacts DEF Update, Waiting
  <2> DEFINE next == [Top EXCEPT !.kind = "download", !.todo = FilesToDownload(Top.build),
                                 !.files = FilesToDownload(Top.build)]
  <2>2. next \in Loop /\ loops' = Append(Front(loops), next)
    BY <1>8, UpdateLoop DEF Update
  <2> HIDE DEF next
  <2> QED
    BY <1>1, <2>1, <2>2, AppendFacts
<1>9. CASE Later \/ LaunchUpdate \/ Unwind
  BY <1>6, <1>9 DEF Later, LaunchUpdate, Unwind, Waiting
<1>10. ASSUME NEW f \in Files, DownloadFile(f) PROVE LoopTypes'
  <2>1. loops # <<>> /\ Top \in Loop
    BY <1>10, TopFacts DEF DownloadFile, Waiting
  <2>2. [Top EXCEPT !.todo = @ \ {f}] \in Loop
    BY <2>1 DEF Loop
  <2>3. loops' = [loops EXCEPT ![Len(loops)] = [Top EXCEPT !.todo = @ \ {f}]]
    BY <1>10 DEF DownloadFile, Top
  <2> QED
    BY <1>1, <2>1, <2>2, <2>3
<1>11. ASSUME NEW f \in Files, DownloadFailed(f) PROVE LoopTypes'
  BY <1>6, <1>11 DEF DownloadFailed, Waiting
<1>12. ASSUME NEW copied \in SUBSET Files, ApplyUpdate(copied) PROVE LoopTypes'
  BY <1>1, <1>12 DEF ApplyUpdate
<1>13. CASE UNCHANGED vars
  BY <1>1, <1>13 DEF vars
<1> QED
  BY <1>2, <1>3, <1>4, <1>5, <1>7, <1>8, <1>9, <1>10, <1>11, <1>12, <1>13 DEF Next

\* Every step keeps the types.
LEMMA NextType == TypeOK /\ [Next]_vars => TypeOK'
BY NextFileTypes, NextTimeTypes, NextFlagTypes, NextLoopTypes DEF TypeOK

\* Types hold in every state, however deep prompts are nested.
THEOREM TypeCorrect == Spec => []TypeOK
BY InitType, NextType, PTL DEF Spec

-----------------------------------------------------------------------------
(* Whole files.                                                            *)

\* The downloads that remain have fetched what they had fetched.
LEMMA LoopsKept ==
    ASSUME LoopsWhole, UNCHANGED staged,
           \A i \in 1 .. Len(loops') :
               \/ \E j \in 1 .. Len(loops) : loops'[i] = loops[j]
               \/ loops'[i].kind # "download"
               \/ loops'[i].files \subseteq loops'[i].todo
    PROVE  LoopsWhole'
<1> SUFFICES ASSUME NEW i \in 1 .. Len(loops') PROVE Fetched(loops[i])'
  BY DEF LoopsWhole
<1>1. CASE \E j \in 1 .. Len(loops) : loops'[i] = loops[j]
  BY <1>1 DEF LoopsWhole, Fetched, Whole
<1>2. CASE loops'[i].kind # "download"
  BY <1>2 DEF Fetched
<1>3. CASE loops'[i].files \subseteq loops'[i].todo
  BY <1>3 DEF Fetched, Whole
<1> QED
  BY <1>1, <1>2, <1>3

\* Leaving the innermost loop, whatever takes its place.
LEMMA LoopsLeft ==
    ASSUME TypeOK, LoopsWhole, UNCHANGED staged, loops # <<>>
    PROVE  /\ Return => LoopsWhole'
           /\ \A l \in Loop :
                  /\ l.kind # "download" \/ l.files \subseteq l.todo
                  /\ loops' = Append(Front(loops), l)
                  => LoopsWhole'
<1>1. loops \in Seq(Loop)
  BY Shapes
<1>2. /\ Front(loops) \in Seq(Loop) /\ Len(Front(loops)) = Len(loops) - 1 /\ Len(loops) \in Nat \ {0}
      /\ \A i \in 1 .. Len(loops) - 1 : Front(loops)[i] = loops[i]
  BY <1>1, FrontFacts
<1>3. ASSUME Return PROVE LoopsWhole'
  <2>1. \A i \in 1 .. Len(loops') : i \in 1 .. Len(loops) /\ loops'[i] = loops[i]
    BY <1>2, <1>3 DEF Return
  <2> QED
    BY <2>1, LoopsKept
<1>4. ASSUME NEW l \in Loop, l.kind # "download" \/ l.files \subseteq l.todo,
             loops' = Append(Front(loops), l)
      PROVE  LoopsWhole'
  <2>1. /\ Len(loops') = Len(loops)
        /\ \A i \in 1 .. Len(loops) - 1 : loops'[i] = loops[i]
        /\ loops'[Len(loops)] = l
    BY <1>2, <1>4, AppendFacts
  <2>2. \A i \in 1 .. Len(loops') : i \in 1 .. Len(loops) - 1 \/ i = Len(loops)
    BY <1>2, <2>1
  <2> QED
    BY <1>2, <1>4, <2>1, <2>2, LoopsKept
<1> QED
  BY <1>3, <1>4

\* The file a download fetches is whole, and no other file becomes less so.
LEMMA FileFetched ==
    ASSUME TypeOK, LoopsWhole, NEW f \in Files, DownloadFile(f)
    PROVE  /\ \A b \in Builds, g \in Files : staged[b][g] # Cut => staged'[b][g] # Cut
           /\ LoopsWhole'
<1>1. /\ loops \in Seq(Loop) /\ loops # <<>> /\ Top \in Loop /\ Top.build \in Builds
      /\ published.files # Cut
  BY Shapes, TopFacts DEF DownloadFile, Waiting
<1>2. staged \in [Builds -> [Files -> Builds \cup {Cut}]]
  BY DEF TypeOK, FileTypes
<1>3. staged' = [staged EXCEPT ![Top.build][f] = published.files]
  BY DEF DownloadFile
<1>4. staged'[Top.build][f] # Cut
  BY <1>1, <1>2, <1>3
<1>5. \A b \in Builds, g \in Files : staged[b][g] # Cut => staged'[b][g] # Cut
  BY <1>1, <1>2, <1>3
<1>6. Len(loops) \in Nat \ {0} /\ Top = loops[Len(loops)]
  BY <1>1 DEF Top
<1>7. loops' = [loops EXCEPT ![Len(loops)] = [Top EXCEPT !.todo = Top.todo \ {f}]]
  BY DEF DownloadFile, Top
<1>8. Len(loops') = Len(loops)
  BY <1>1, <1>7
<1>9. ASSUME NEW i \in 1 .. Len(loops) PROVE Fetched(loops[i])'
  <2>1. loops[i] \in Loop /\ Fetched(loops[i])
    BY <1>1 DEF LoopsWhole
  <2>2. loops[i].build \in Builds /\ loops[i].files \subseteq Files
    BY <2>1 DEF Loop
  <2>3. loops[i].kind = "download" => \A g \in loops[i].files \ loops[i].todo : staged'[loops[i].build][g] # Cut
    BY <1>5, <2>1, <2>2 DEF Fetched, Whole
  <2>4. CASE i # Len(loops)
    <3>1. loops'[i] = loops[i]
      BY <1>1, <1>7, <2>4
    <3> QED
      BY <2>3, <3>1 DEF Fetched, Whole
  <2>5. CASE i = Len(loops)
    <3>1. loops'[i] = [Top EXCEPT !.todo = Top.todo \ {f}]
      BY <1>1, <1>7, <2>5
    <3>2. /\ loops'[i].kind = Top.kind /\ loops'[i].build = Top.build
          /\ loops'[i].files = Top.files /\ loops'[i].todo = Top.todo \ {f}
      BY <1>1, <3>1 DEF Loop
    <3>3. \A g \in Top.files \ (Top.todo \ {f}) : g = f \/ g \in Top.files \ Top.todo
      OBVIOUS
    <3> QED
      BY <1>4, <1>6, <2>3, <2>5, <3>2, <3>3 DEF Fetched, Whole
  <2> QED
    BY <2>4, <2>5
<1> QED
  BY <1>5, <1>8, <1>9 DEF LoopsWhole

\* Initially the installed files are those of the first build, and nothing is staged.
LEMMA InitWhole == Init => StagedWhole
<1> SUFFICES ASSUME Init PROVE StagedWhole
  OBVIOUS
<1>1. \A f \in Files : installed[f] # Cut
  BY DEF Init, Cut
<1>2. Whole(script.build, script.files)
  BY DEF Init, NoScript, Whole
<1>3. LoopsWhole
  <2>1. loops = <<>>
    BY DEF Init
  <2> QED
    BY <2>1 DEF LoopsWhole
<1> QED
  BY <1>1, <1>2, <1>3 DEF StagedWhole

\* The script that ends a download copies what it has fetched.
LEMMA LaunchWhole ==
    ASSUME TypeOK, LoopsWhole, Whole(script.build, script.files), LaunchUpdate
    PROVE  Whole(script.build, script.files)'
<1>1. loops # <<>> /\ loops \in Seq(Loop) /\ Top.todo = {} /\ Top.kind = "download"
  BY Shapes DEF LaunchUpdate, Waiting
<1>2. Len(loops) \in 1 .. Len(loops)
  BY <1>1
<1>3. Whole(Top.build, Top.files)
  BY <1>1, <1>2 DEF LoopsWhole, Fetched, Top
<1>4. UNCHANGED staged
  BY DEF LaunchUpdate
<1>5. CASE UNCHANGED script
  BY <1>4, <1>5 DEF Whole
<1>6. CASE script' = [build |-> Top.build, files |-> Top.files]
  BY <1>3, <1>4, <1>6 DEF Whole
<1> QED
  BY <1>5, <1>6 DEF LaunchUpdate, Launch

\* Every step keeps it: a request that fails ends its download, and only quit makes an
\* interrupted one look complete.
LEMMA NextWhole == TypeOK /\ StagedWhole /\ [Next]_vars => StagedWhole'
<1> SUFFICES ASSUME TypeOK, StagedWhole, [Next]_vars, ~torn' PROVE StagedWhole'
  BY DEF StagedWhole
<1> DEFINE Home == \A f \in Files : installed[f] # Cut
           Scripted == Whole(script.build, script.files)
<1>1. CASE Unwind
  <2>1. Top.kind \in {"check", "ask", "download"} /\ loops # <<>>
    BY <1>1, TopFacts DEF Unwind
  <2>2. Top.kind # "download"
    BY <1>1 DEF Unwind
  <2>3. UNCHANGED <<staged, script, torn, installed>> /\ Return
    BY <1>1, <2>1, <2>2 DEF Unwind
  <2>4. Home /\ Scripted /\ LoopsWhole
    BY <2>3 DEF StagedWhole
  <2>5. LoopsWhole'
    BY <2>1, <2>3, <2>4, LoopsLeft
  <2> QED
    BY <2>3, <2>4, <2>5 DEF StagedWhole, Whole
<1>2. CASE ~Unwind
  <2>1. ~torn
    BY <1>2 DEF Next, vars, PublishFiles, PublishJson, Start, Tick, PeriodicTimeout, SnoozeTimeout,
                FetchFailed, FetchFinished, CheckManually, ManualResult, Later, Update, DownloadFile,
                DownloadFailed, LaunchUpdate, Quit, Exit, ApplyUpdate
  <2>2. Home /\ Scripted /\ LoopsWhole
    BY <2>1 DEF StagedWhole
  <2>3. ASSUME UNCHANGED <<staged, script, installed>>, LoopsWhole' PROVE StagedWhole'
    BY <2>2, <2>3 DEF StagedWhole, Whole
  <2>4. CASE PublishFiles \/ PublishJson \/ Tick \/ PeriodicTimeout \/ SnoozeTimeout \/ FetchFailed \/ Quit
    <3>1. UNCHANGED <<staged, script, installed, loops>>
      BY <2>4 DEF PublishFiles, PublishJson, Tick, PeriodicTimeout, SnoozeTimeout, FetchFailed, Quit
    <3>2. LoopsWhole'
      BY <2>2, <3>1 DEF LoopsWhole, Fetched, Whole
    <3> QED
      BY <2>3, <3>1, <3>2
  <2>5. CASE Start \/ Exit
    <3>1. UNCHANGED <<staged, script, installed>> /\ loops' = <<>>
      BY <2>5 DEF Start, Exit
    <3>2. LoopsWhole'
      BY <3>1 DEF LoopsWhole
    <3> QED
      BY <2>3, <3>1, <3>2
  <2>6. CASE FetchFinished
    <3>1. /\ UNCHANGED <<staged, script, installed>>
          /\ loops' = loops \/ loops' = Append(loops, Ask(TRUE))
      BY <2>6 DEF FetchFinished
    <3>2. /\ Len(loops) \in Nat /\ Ask(TRUE) \in Loop /\ Ask(TRUE).kind # "download"
          /\ loops \in Seq(Loop)
      BY Shapes DEF Ask
    <3>3. \A i \in 1 .. Len(loops') :
              (i \in 1 .. Len(loops) /\ loops'[i] = loops[i]) \/ loops'[i] = Ask(TRUE)
      <4>1. CASE loops' = loops
        BY <4>1
      <4>2. CASE loops' = Append(loops, Ask(TRUE))
        <5> DEFINE ask == Ask(TRUE)
                   longer == Append(loops, ask)
        <5>0. ask \in Loop
          BY <3>2
        <5> HIDE DEF ask
        <5>3. /\ Len(longer) = Len(loops) + 1 /\ longer[Len(loops) + 1] = ask
              /\ \A i \in 1 .. Len(loops) : longer[i] = loops[i]
          BY <3>2, <5>0, AppendFacts
        <5> HIDE DEF longer
        <5>1. /\ Len(loops') = Len(loops) + 1 /\ loops'[Len(loops) + 1] = Ask(TRUE)
              /\ \A i \in 1 .. Len(loops) : loops'[i] = loops[i]
          BY <4>2, <5>3 DEF ask, longer
        <5>2. \A i \in 1 .. Len(loops) + 1 : i \in 1 .. Len(loops) \/ i = Len(loops) + 1
          BY <3>2
        <5> QED
          BY <5>1, <5>2
      <4> QED
        BY <3>1, <4>1, <4>2
    <3>4. LoopsWhole'
      BY <2>2, <3>1, <3>2, <3>3, LoopsKept
    <3> QED
      BY <2>3, <3>1, <3>4
  <2>7. CASE CheckManually
    <3>1. UNCHANGED <<staged, script, installed>> /\ Len(loops') = 1 /\ loops'[1].kind # "download"
      BY <2>7 DEF CheckManually
    <3>2. LoopsWhole'
      BY <3>1 DEF LoopsWhole, Fetched
    <3> QED
      BY <2>3, <3>1, <3>2
  <2>8. CASE ManualResult \/ Later
    <3>1. /\ UNCHANGED <<staged, script, installed>> /\ loops # <<>>
          /\ Return \/ loops' = Append(Front(loops), Ask(FALSE))
      BY <2>8 DEF ManualResult, Later, Waiting
    <3>2. Ask(FALSE) \in Loop /\ Ask(FALSE).kind # "download"
      BY Shapes DEF Ask
    <3>3. LoopsWhole'
      BY <2>2, <3>1, <3>2, LoopsLeft
    <3> QED
      BY <2>3, <3>1, <3>3
  <2>9. CASE Update
    <3> DEFINE next == [Top EXCEPT !.kind = "download", !.todo = FilesToDownload(Top.build),
                                   !.files = FilesToDownload(Top.build)]
    <3>1. /\ UNCHANGED <<staged, script, installed>> /\ loops # <<>>
          /\ loops' = Append(Front(loops), next)
      BY <2>9 DEF Update, Waiting
    <3>2. next \in Loop
      BY <2>9, UpdateLoop
    <3>3. next.files \subseteq next.todo
      <4>1. Top \in Loop
        BY <3>1, TopFacts
      <4> QED
        BY <4>1 DEF Loop
    <3> HIDE DEF next
    <3>4. LoopsWhole'
      BY <2>2, <3>1, <3>2, <3>3, LoopsLeft
    <3> QED
      BY <2>3, <3>1, <3>4
  <2>10. ASSUME NEW f \in Files, DownloadFile(f) PROVE StagedWhole'
    <3>1. UNCHANGED <<script, installed>>
      BY <2>10 DEF DownloadFile
    <3>2. LoopsWhole' /\ \A b \in Builds, g \in Files : staged[b][g] # Cut => staged'[b][g] # Cut
      BY <2>2, <2>10, FileFetched
    <3>3. script.build \in Builds /\ script.files \subseteq Files
      BY DEF TypeOK, FileTypes
    <3>4. Scripted'
      BY <2>2, <3>1, <3>2, <3>3 DEF Whole
    <3> QED
      BY <2>2, <3>1, <3>2, <3>4 DEF StagedWhole
  <2>11. ASSUME NEW f \in Files, DownloadFailed(f) PROVE StagedWhole'
    <3>1. UNCHANGED <<staged, script, installed>> /\ loops # <<>> /\ Return
      BY <2>11 DEF DownloadFailed, Waiting
    <3>2. LoopsWhole'
      BY <2>2, <3>1, LoopsLeft
    <3> QED
      BY <2>3, <3>1, <3>2
  <2>12. CASE LaunchUpdate
    <3>1. UNCHANGED <<staged, installed>> /\ loops # <<>> /\ Return
      BY <2>12 DEF LaunchUpdate, Waiting
    <3>2. LoopsWhole' /\ Scripted'
      BY <2>2, <2>12, <3>1, LoopsLeft, LaunchWhole
    <3> QED
      BY <2>2, <3>1, <3>2 DEF StagedWhole
  <2>13. ASSUME NEW copied \in SUBSET Files, ApplyUpdate(copied) PROVE StagedWhole'
    <3>1. UNCHANGED <<staged, loops>> /\ script' = NoScript
      BY <2>13 DEF ApplyUpdate
    <3>2. \A f \in Files : installed'[f] # Cut
      BY <2>2, <2>13 DEF ApplyUpdate, Whole
    <3>3. LoopsWhole'
      BY <2>2, <3>1 DEF LoopsWhole, Fetched, Whole
    <3>4. Scripted'
      BY <3>1 DEF Whole, NoScript
    <3> QED
      BY <3>2, <3>3, <3>4 DEF StagedWhole
  <2>14. CASE UNCHANGED vars
    <3>1. UNCHANGED <<staged, script, installed, loops>>
      BY <2>14 DEF vars
    <3>2. LoopsWhole'
      BY <2>2, <3>1 DEF LoopsWhole, Fetched, Whole
    <3> QED
      BY <2>3, <3>1, <3>2
  <2> QED
    BY <1>2, <2>4, <2>5, <2>6, <2>7, <2>8, <2>9, <2>10, <2>11, <2>12, <2>13, <2>14 DEF Next
<1> QED
  BY <1>1, <1>2

\* Whatever fails and whatever is published meanwhile, a cut file is installed only after
\* the program has quit during a download.
THEOREM InstalledWhole == Spec => []WholeFiles
<1>1. StagedWhole => WholeFiles
  BY DEF StagedWhole, WholeFiles
<1> QED
  BY <1>1, InitType, NextType, InitWhole, NextWhole, PTL DEF Spec

-----------------------------------------------------------------------------
(* The hour after "later".                                                 *)

\* Every step keeps the user's hour within the snooze of the registry.
LEMMA NextSnoozed == TypeOK /\ Snoozed /\ [Next]_vars => Snoozed'
<1> SUFFICES ASSUME TypeOK, Snoozed, [Next]_vars PROVE Snoozed'
  OBVIOUS
<1> USE DEF Snoozed
<1>1. snooze \in 0 .. kSnooze /\ quiet \in 0 .. kSnooze /\ kSnooze \in Nat
  BY Hours DEF TypeOK, TimeTypes
<1>2. CASE Tick
  <2>1. /\ snooze' = (IF snooze > 0 THEN snooze - 1 ELSE snooze)
        /\ quiet' = (IF quiet > 0 THEN quiet - 1 ELSE quiet)
    BY <1>2 DEF Tick
  <2> QED
    BY <1>1, <2>1
<1>3. CASE Later
  <2>1. (snooze' = kSnooze /\ quiet' = kSnooze) \/ UNCHANGED <<snooze, quiet>>
    BY <1>3 DEF Later
  <2> QED
    BY <1>1, <2>1
<1>4. CASE LaunchUpdate
  <2>1. snooze' = 0 /\ quiet' = 0
    BY <1>4 DEF LaunchUpdate, Launch
  <2> QED
    BY <2>1
<1>5. CASE Unwind
  <2>1. Top.kind \in {"check", "ask", "download"}
    BY <1>5, TopFacts DEF Unwind
  <2>2. \/ snooze' = 0 /\ quiet' = 0
        \/ (snooze' = kSnooze \/ snooze' = snooze) /\ quiet' = quiet
    BY <1>5, <2>1 DEF Unwind, Launch
  <2> QED
    BY <1>1, <2>2
<1>6. CASE ~(Tick \/ Later \/ LaunchUpdate \/ Unwind)
  <2>1. UNCHANGED <<snooze, quiet>>
    BY <1>6 DEF Next, vars, PublishFiles, PublishJson, Start, PeriodicTimeout, SnoozeTimeout,
                FetchFailed, FetchFinished, CheckManually, ManualResult, Update, DownloadFile,
                DownloadFailed, Quit, Exit, ApplyUpdate
  <2> QED
    BY <2>1
<1> QED
  BY <1>2, <1>3, <1>4, <1>5, <1>6

\* A background prompt opens only where the snooze has ended; every other step enters no
\* prompt that was not there.
LEMMA PromptOpensOnlyUnsnoozed ==
    ASSUME TypeOK, [Next]_vars, PromptOpens
    PROVE  snooze = 0 /\ UNCHANGED snooze
<1>1. Len(loops) \in Nat /\ loops \in Seq(Loop)
  BY Shapes
<1>2. ~(loops' = loops) /\ ~(loops' = <<>>)
  <2>1. CASE loops' = loops
    BY <1>1, <2>1 DEF PromptOpens
  <2>2. CASE loops' = <<>>
    BY <1>1, <2>2 DEF PromptOpens
  <2> QED
    BY <2>1, <2>2
<1>3. loops # <<>> => ~Return /\ \A l \in Loop : loops' # Append(Front(loops), l)
  <2> SUFFICES ASSUME loops # <<>> PROVE ~Return /\ \A l \in Loop : loops' # Append(Front(loops), l)
    OBVIOUS
  <2>1. Front(loops) \in Seq(Loop) /\ Len(Front(loops)) = Len(loops) - 1
    BY <1>1, FrontFacts
  <2>2. CASE Return
    BY <1>1, <2>1, <2>2 DEF Return, PromptOpens
  <2>3. ASSUME NEW l \in Loop, loops' = Append(Front(loops), l) PROVE FALSE
    <3>1. Len(loops') = Len(Front(loops)) + 1
      BY <2>1, <2>3, AppendFacts
    <3> QED
      BY <1>1, <2>1, <3>1 DEF PromptOpens
  <2> QED
    BY <2>2, <2>3
<1>4. ~CheckManually
  <2> SUFFICES ASSUME CheckManually PROVE FALSE
    OBVIOUS
  <2>1. loops' = <<[kind |-> "check", background |-> FALSE, build |-> 0, todo |-> {}, files |-> {}]>>
    BY DEF CheckManually
  <2>2. Last(loops').kind = "check"
    BY <2>1 DEF Last
  <2> QED
    BY <2>2 DEF PromptOpens
<1>5. \A f \in Files : ~DownloadFile(f)
  <2> SUFFICES ASSUME NEW f \in Files, DownloadFile(f) PROVE FALSE
    OBVIOUS
  <2>1. Len(loops') = Len(loops)
    BY <1>1 DEF DownloadFile
  <2> QED
    BY <1>1, <2>1 DEF PromptOpens
<1>6. ~Update
  <2> SUFFICES ASSUME Update PROVE FALSE
    OBVIOUS
  <2> DEFINE next == [Top EXCEPT !.kind = "download", !.todo = FilesToDownload(Top.build),
                                 !.files = FilesToDownload(Top.build)]
  <2>1. next \in Loop /\ loops # <<>> /\ loops' = Append(Front(loops), next)
    BY UpdateLoop DEF Update, Waiting
  <2> HIDE DEF next
  <2> QED
    BY <1>3, <2>1
<1>7. ~ManualResult /\ ~Later /\ ~LaunchUpdate /\ ~Unwind /\ \A f \in Files : ~DownloadFailed(f)
  <2>1. Ask(FALSE) \in Loop
    BY Shapes
  <2> QED
    BY <1>3, <2>1 DEF ManualResult, Later, LaunchUpdate, Unwind, DownloadFailed, Waiting
<1>8. ~Start /\ ~Exit
  BY <1>2 DEF Start, Exit
<1>9. /\ ~PublishFiles /\ ~PublishJson /\ ~Tick /\ ~PeriodicTimeout /\ ~SnoozeTimeout /\ ~FetchFailed
      /\ ~Quit /\ \A copied \in SUBSET Files : ~ApplyUpdate(copied)
  BY <1>2 DEF PublishFiles, PublishJson, Tick, PeriodicTimeout, SnoozeTimeout, FetchFailed, Quit, ApplyUpdate
<1>10. FetchFinished
  BY <1>2, <1>4, <1>5, <1>6, <1>7, <1>8, <1>9 DEF Next, vars
<1> QED
  BY <1>2, <1>10 DEF FetchFinished

\* No background prompt opens within an hour of "later", not even after a restart.
THEOREM HourKept == Spec => SnoozeKept
<1>1. Init => Snoozed
  BY DEF Init, Snoozed
<1>2. TypeOK /\ Snoozed /\ [Next]_vars => [PromptOpens => quiet = 0]_vars
  <2> SUFFICES ASSUME TypeOK, Snoozed, [Next]_vars, PromptOpens PROVE quiet = 0
    OBVIOUS
  <2>1. snooze = 0
    BY PromptOpensOnlyUnsnoozed
  <2>2. snooze \in 0 .. kSnooze /\ quiet \in 0 .. kSnooze /\ kSnooze \in Nat
    BY Hours DEF TypeOK, TimeTypes
  <2> QED
    BY <2>1, <2>2 DEF Snoozed
<1> QED
  BY <1>1, <1>2, InitType, NextType, NextSnoozed, PTL DEF Spec, SnoozeKept
=============================================================================
