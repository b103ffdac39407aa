------------------------------ MODULE Updater ------------------------------
(***************************************************************************)
(* The program's updates of itself: the server's version.json and files,   *)
(* the installed files, and the update scheduler of one running program    *)
(* with its two timers, its background request, and the nested event loops *)
(* it waits in (a prompt, a download, a manual check), the innermost last. *)
(*                                                                         *)
(* Timers and requests go on inside every nested loop, so prompts pile up. *)
(* QApplication::quit ends all loops at once: a prompt then answers        *)
(* "later", and a request ends with the bytes it has and without an error. *)
(*                                                                         *)
(* A file is the build it comes from, or Cut.  Time is counted in parts of *)
(* an hour.  Left out: the setup program (the publishing scripts leave     *)
(* setupUrl empty), warning boxes, a disk that fills up while a file is    *)
(* written, and a program started by hand in the two seconds before the    *)
(* files are copied.                                                       *)
(***************************************************************************)
EXTENDS Integers, Sequences, SequencesExt

CONSTANTS
    kPeriodic,      \* kPeriodicCheckHours
    kSnooze,        \* kSnoozeHours
    SameSize,       \* files whose size is the same in every build
    MaxBuild,       \* bound: builds ever published
    MaxDepth        \* bound: nested event loops

Files == {"exe", "lib"}

ASSUME Hours == kPeriodic \in Nat \ {0} /\ kSnooze \in Nat \ {0}
ASSUME UpdaterBounds == MaxBuild \in Nat /\ MaxDepth \in Nat \ {0} /\ SameSize \subseteq Files

Builds == 0 .. MaxBuild
Cut == -1

VARIABLES
    published,      \* published.json: build of version.json; published.files: build of files\
    installed,      \* the files beside the program
    staged,         \* staged[b]: the temporary directory build_b
    script,         \* vapmanager_apply_update.cmd, while a cmd.exe waits to run it
    snooze,         \* updates/snooze_until of the registry, as time left
    running,        \* the program runs
    quitting,       \* quit was called, the loops have not all returned
    periodic,       \* periodicTimer_: time left, 0: due
    snoozeTimer,    \* snoozeTimer_: time left, 0: due, Off
    activeReply,    \* activeReply_
    loops,          \* the nested event loops, innermost last
    quiet,          \* time left since the user's last "later" (observer)
    torn            \* a download was under way when quit was called (observer)

scheduler == <<periodic, snoozeTimer, activeReply>>
vars == <<published, installed, staged, script, snooze, running, quitting, scheduler, loops,
          quiet, torn>>

Off == -1
NoScript == [build |-> 0, files |-> {}]

Loop == [kind: {"check", "ask", "download"}, background: BOOLEAN, build: Builds, todo: SUBSET Files,
         files: SUBSET Files]

Init ==
    /\ published = [json |-> 0, files |-> 0]
    /\ installed = [f \in Files |-> 0]
    /\ staged = [b \in Builds |-> [f \in Files |-> Cut]]
    /\ script = NoScript
    /\ snooze = 0 /\ running = FALSE /\ quitting = FALSE
    /\ periodic = kPeriodic /\ snoozeTimer = Off /\ activeReply = FALSE
    /\ loops = <<>>
    /\ quiet = 0 /\ torn = FALSE

-----------------------------------------------------------------------------
\* Publishing copies the files and then writes version.json.
PublishFiles ==
    /\ published.json = published.files /\ published.files < MaxBuild
    /\ published' = [published EXCEPT !.files = @ + 1]
    /\ UNCHANGED <<installed, staged, script, snooze, running, quitting, scheduler, loops, quiet, torn>>

PublishJson ==
    /\ published.json # published.files
    /\ published' = [published EXCEPT !.json = published.files]
    /\ UNCHANGED <<installed, staged, script, snooze, running, quitting, scheduler, loops, quiet, torn>>

-----------------------------------------------------------------------------
Top == loops[Len(loops)]
Live == running /\ ~quitting
Waiting(kind) == Live /\ loops # <<>> /\ Top.kind = kind

\* What the code after a nested loop does not change.
Return == loops' = Front(loops)

Size(f, content) == IF f \in SameSize /\ content # Cut THEN 0 ELSE content

\* Files whose size differs from version.json, and the program itself in any case.
FilesToDownload(b) == {"exe"} \cup {f \in Files : Size(f, installed[f]) # Size(f, b)}

Ask(background) == [kind |-> "ask", background |-> background, build |-> published.json,
                    todo |-> {}, files |-> {}]

\* The program starts, by hand or by the script: start() sets the timers.
Start ==
    /\ ~running /\ (\A f \in Files : installed[f] # Cut) /\ script = NoScript
    /\ running' = TRUE
    /\ periodic' = kPeriodic /\ activeReply' = FALSE /\ loops' = <<>>
    /\ snoozeTimer' = IF snooze > 0 THEN snooze ELSE Off
    /\ UNCHANGED <<published, installed, staged, script, snooze, quitting, quiet, torn>>

\* Time passes; a timer that is due fires first.
Tick ==
    LET less(t) == IF t > 0 THEN t - 1 ELSE t
    IN  /\ ~quitting
        /\ running => periodic > 0 /\ snoozeTimer # 0
        /\ snooze' = less(snooze) /\ quiet' = less(quiet)
        /\ periodic' = IF running THEN less(periodic) ELSE periodic
        /\ snoozeTimer' = IF running THEN less(snoozeTimer) ELSE snoozeTimer
        /\ UNCHANGED <<published, installed, staged, script, running, quitting, activeReply, loops, torn>>

\* onPeriodicCheck: a check under way is not repeated.
PeriodicTimeout ==
    /\ Live /\ periodic = 0
    /\ periodic' = kPeriodic /\ activeReply' = TRUE
    /\ UNCHANGED <<published, installed, staged, script, snooze, running, quitting, snoozeTimer, loops,
                   quiet, torn>>

\* onSnoozeCheck: the timer is single and, being coarse, may be early.
SnoozeTimeout ==
    /\ Live /\ snoozeTimer \in {0, 1}
    /\ snoozeTimer' = Off /\ activeReply' = TRUE
    /\ UNCHANGED <<published, installed, staged, script, snooze, running, quitting, periodic, loops,
                   quiet, torn>>

\* onFetchFinished: no answer, or no version.json.
FetchFailed ==
    /\ Live /\ activeReply
    /\ activeReply' = FALSE
    /\ UNCHANGED <<published, installed, staged, script, snooze, running, quitting, periodic,
                   snoozeTimer, loops, quiet, torn>>

\* Mutant: an offer that was put off is not held back.
FetchFinished_Anytime ==
    LET offer == published.json > installed["exe"]
    IN  /\ Live /\ activeReply
        /\ offer => Len(loops) < MaxDepth
        /\ activeReply' = FALSE
        /\ loops' = IF offer THEN Append(loops, Ask(TRUE)) ELSE loops
        /\ UNCHANGED <<published, installed, staged, script, snooze, running, quitting, periodic,
                       snoozeTimer, quiet, torn>>

\* Mutant: an answer that comes during the snooze prolongs it.
FetchFinished_Prolongs ==
    LET offer == published.json > installed["exe"] /\ snooze = 0
    IN  /\ Live /\ activeReply
        /\ offer => Len(loops) < MaxDepth
        /\ activeReply' = FALSE
        /\ loops' = IF offer THEN Append(loops, Ask(TRUE)) ELSE loops
        /\ snooze' = IF snooze > 0 THEN kSnooze ELSE snooze
        /\ snoozeTimer' = IF snooze > 0 THEN kSnooze ELSE snoozeTimer
        /\ UNCHANGED <<published, installed, staged, script, running, quitting, periodic, quiet, torn>>

\* onFetchFinished: version.json is compared with the running program, then the prompt is shown.
FetchFinished ==
    LET offer == published.json > installed["exe"] /\ snooze = 0
    IN  /\ Live /\ activeReply
        /\ offer => Len(loops) < MaxDepth
        /\ activeReply' = FALSE
        /\ loops' = IF offer THEN Append(loops, Ask(TRUE)) ELSE loops
        /\ UNCHANGED <<published, installed, staged, script, snooze, running, quitting, periodic,
                       snoozeTimer, quiet, torn>>

\* checkManually from the settings page, which every dialog blocks.
CheckManually ==
    /\ Live /\ loops = <<>> /\ ~activeReply
    /\ loops' = <<[kind |-> "check", background |-> FALSE, build |-> 0, todo |-> {}, files |-> {}]>>
    /\ UNCHANGED <<published, installed, staged, script, snooze, running, quitting, scheduler, quiet, torn>>

\* handleManualResult: a failure, nothing newer, or the prompt.
ManualResult ==
    /\ Waiting("check")
    /\ \/ Return
       \/ /\ published.json > installed["exe"]
          /\ loops' = Append(Front(loops), Ask(FALSE))
    /\ UNCHANGED <<published, installed, staged, script, snooze, running, quitting, scheduler, quiet, torn>>

-----------------------------------------------------------------------------
\* Mutant: the hour is added to what is left of the last one.
Later_Adds ==
    /\ Waiting("ask")
    /\ Return
    /\ IF Top.background
       THEN snooze' = snooze + kSnooze /\ snoozeTimer' = kSnooze /\ quiet' = kSnooze
       ELSE UNCHANGED <<snooze, snoozeTimer, quiet>>
    /\ UNCHANGED <<published, installed, staged, script, running, quitting, periodic, activeReply, torn>>

\* "Later": a background prompt is put off for an hour.
Later ==
    /\ Waiting("ask")
    /\ Return
    /\ IF Top.background
       THEN snooze' = kSnooze /\ snoozeTimer' = kSnooze /\ quiet' = kSnooze
       ELSE UNCHANGED <<snooze, snoozeTimer, quiet>>
    /\ UNCHANGED <<published, installed, staged, script, running, quitting, periodic, activeReply, torn>>

\* "Update": performUpdateFlow lists the files of the release it was asked about.
Update ==
    LET todo == FilesToDownload(Top.build)
    IN  /\ Waiting("ask")
        /\ loops' = Append(Front(loops), [Top EXCEPT !.kind = "download", !.todo = todo, !.files = todo])
        /\ UNCHANGED <<published, installed, staged, script, snooze, running, quitting, scheduler, quiet, torn>>

\* One file is fetched, as the server has it now, and written.
DownloadFile(f) ==
    /\ Waiting("download") /\ f \in Top.todo
    /\ staged' = [staged EXCEPT ![Top.build][f] = published.files]
    /\ loops' = [loops EXCEPT ![Len(loops)].todo = @ \ {f}]
    /\ UNCHANGED <<published, installed, script, snooze, running, quitting, scheduler, quiet, torn>>

\* Mutant: an interrupted file is kept and the next one fetched.
DownloadFailed_Ignored(f) ==
    /\ Waiting("download") /\ f \in Top.todo
    /\ staged' = [staged EXCEPT ![Top.build][f] = Cut]
    /\ loops' = [loops EXCEPT ![Len(loops)].todo = @ \ {f}]
    /\ UNCHANGED <<published, installed, script, snooze, running, quitting, scheduler, quiet, torn>>

\* A request fails or a file cannot be opened: the flow ends, what was staged stays.
DownloadFailed(f) ==
    /\ Waiting("download") /\ f \in Top.todo
    /\ Return
    /\ UNCHANGED <<published, installed, staged, script, snooze, running, quitting, scheduler, quiet, torn>>

\* The end of performUpdateFlow: the snooze is cleared before the script is started.
\* It may not be; then it was perhaps not even written.
Launch(loop) ==
    /\ snooze' = 0 /\ quiet' = 0
    /\ \/ script' = [build |-> loop.build, files |-> loop.files] /\ quitting' = TRUE
       \/ UNCHANGED <<script, quitting>>

LaunchUpdate ==
    /\ Waiting("download") /\ Top.todo = {}
    /\ Launch(Top)
    /\ Return
    /\ UNCHANGED <<published, installed, staged, running, scheduler, torn>>

\* The user exits from the menu, or closes the login dialog that replaced a lost session.
Quit ==
    /\ Live
    /\ quitting' = TRUE
    /\ UNCHANGED <<published, installed, staged, script, snooze, running, scheduler, loops, quiet, torn>>

\* A loop that returns because of quit: requests end without an error.
Unwind ==
    /\ running /\ quitting /\ loops # <<>>
    /\ Return
    /\ CASE Top.kind = "check" ->
                UNCHANGED <<staged, script, snooze, quitting, quiet, torn>>
         [] Top.kind = "ask" ->
                /\ snooze' = IF Top.background THEN kSnooze ELSE snooze
                /\ UNCHANGED <<staged, script, quitting, quiet, torn>>
         [] Top.kind = "download" ->
                /\ staged' = [staged EXCEPT ![Top.build] =
                       [f \in Files |-> IF f \in Top.todo THEN Cut ELSE @[f]]]
                /\ Launch(Top)
                /\ torn' = TRUE
    /\ UNCHANGED <<published, installed, running, scheduler>>

\* main returns, or the program is killed.
Exit ==
    /\ running
    /\ running' = FALSE /\ quitting' = FALSE /\ loops' = <<>>
    /\ activeReply' = FALSE /\ snoozeTimer' = Off /\ periodic' = kPeriodic
    /\ UNCHANGED <<published, installed, staged, script, snooze, quiet, torn>>

\* The script copies; a file that is missing or in use stays as it was.
ApplyUpdate(copied) ==
    /\ ~running /\ script # NoScript
    /\ copied \subseteq script.files
    /\ installed' = [f \in Files |-> IF f \in copied THEN staged[script.build][f] ELSE installed[f]]
    /\ script' = NoScript
    /\ UNCHANGED <<published, staged, snooze, running, quitting, scheduler, loops, quiet, torn>>

Next ==
    \/ PublishFiles \/ PublishJson
    \/ Start \/ Tick \/ PeriodicTimeout \/ SnoozeTimeout
    \/ FetchFailed \/ FetchFinished \/ CheckManually \/ ManualResult
    \/ Later \/ Update
    \/ \E f \in Files : DownloadFile(f) \/ DownloadFailed(f)
    \/ LaunchUpdate \/ Quit \/ Unwind \/ Exit
    \/ \E copied \in SUBSET Files : ApplyUpdate(copied)

Spec == Init /\ [][Next]_vars

\* Time passes, timers fire, requests end, and some reach the server.
Fairness ==
    /\ WF_vars(Tick) /\ WF_vars(PeriodicTimeout) /\ WF_vars(SnoozeTimeout)
    /\ WF_vars(FetchFailed) /\ SF_vars(FetchFinished)
    /\ WF_vars(ManualResult) /\ WF_vars(Unwind)
    /\ \A f \in Files : WF_vars(DownloadFile(f))
    /\ WF_vars(LaunchUpdate)

FairSpec == Spec /\ Fairness

-----------------------------------------------------------------------------
\* Types of the variables: files, times, flags and loops.
FileTypes ==
    /\ published \in [json: Builds, files: Builds]
    /\ installed \in [Files -> Builds \cup {Cut}]
    /\ staged \in [Builds -> [Files -> Builds \cup {Cut}]]
    /\ script \in [build: Builds, files: SUBSET Files]
TimeTypes ==
    /\ snooze \in 0 .. kSnooze /\ quiet \in 0 .. kSnooze
    /\ periodic \in 0 .. kPeriodic /\ snoozeTimer \in Off .. kSnooze
FlagTypes ==
    running \in BOOLEAN /\ quitting \in BOOLEAN /\ activeReply \in BOOLEAN /\ torn \in BOOLEAN
LoopTypes == loops \in Seq(Loop) /\ Len(loops) <= MaxDepth
TypeOK == FileTypes /\ TimeTypes /\ FlagTypes /\ LoopTypes

\* fetchBytesSync and downloadReleaseFiles: whatever requests fail, prompts pile up,
\* downloads run inside downloads and files are published meanwhile, no half of a file is
\* installed -- unless the program quits during a download, which then seems complete.
WholeFiles == ~torn => \A f \in Files : installed[f] # Cut

\* isSnoozed: for an hour after "later" no background prompt opens, neither by the
\* periodic timer nor after a restart, unless an update has been launched since.
PromptOpens == Len(loops') > Len(loops) /\ Last(loops').kind = "ask"
SnoozeKept == [][PromptOpens => quiet = 0]_vars

\* A program that stays open while a newer build is published offers it again and again,
\* whatever requests fail or are dropped because another one is under way, and although
\* the snooze timer may fire before the snooze has ended.
Offered == \E i \in DOMAIN loops : loops[i].kind = "ask"
OfferedAgain ==
    <>[](Live /\ published.json > installed["exe"]) => []<>Offered
=============================================================================
