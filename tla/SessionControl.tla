--------------------------- MODULE SessionControl ---------------------------
(***************************************************************************)
(* One session per account.  A login writes a fresh remember token and a   *)
(* fresh session token into the account's row of users, and then into two  *)
(* files of the directory the program is installed in.  The remember file  *)
(* signs the user in again at the next start; every 30 seconds a heartbeat *)
(* compares the session file with the row, and a copy whose session is     *)
(* gone signs itself out.  Copies started from one directory share files.  *)
(* The staff delete accounts, and anybody may register an account again;   *)
(* neither touches the files.                                              *)
(*                                                                         *)
(* The two tokens of a login are two values but one number here: they are  *)
(* written together and never compared with each other.  Tokens are fresh. *)
(* Nothing in the program clears users.is_active, so it is left out; a     *)
(* file can be removed; a password or recovery key is given for one user.  *)
(***************************************************************************)
EXTENDS Integers

CONSTANTS
    Copies,         \* running copies of the program
    Dirs,           \* directories it is installed in
    DirOf,          \* DirOf[k]: where copy k is started from
    Users,          \* accounts
    NoUser,         \* the empty user name
    NoCopy,
    MaxTokens       \* bound: logins that reach the database

ASSUME CopiesInstalled == DirOf \in [Copies -> Dirs]
ASSUME NoneSignedIn == NoUser \notin Users /\ NoCopy \notin Copies /\ MaxTokens \in Nat

VARIABLES
    registered,     \* accounts with a row in users
    remember,       \* users.remember_token, 0 for NULL or without a row
    session,        \* users.active_session_token, likewise
    rememberFile,   \* config/remember_me.txt, 0 when missing or empty
    sessionFile,    \* config/session_token.txt, 0 when missing or empty
    copy,           \* copy[k]: what copy k is doing
    next,           \* the next token randomToken will return
    last            \* last[u]: the copy that last issued tokens for the row of u (observer)

accounts == <<registered, remember, session, next, last>>
files == <<rememberFile, sessionFile>>
vars == <<accounts, files, copy>>

Tokens == 1 .. MaxTokens
MaybeToken == Tokens \cup {0}

\* phase is "start", "kicked" or "switch" while the login dialog that followed the
\* start, the lost session or "switch account" is open; user is the application's
\* current user and login the user of the dialog; step is the statement of
\* enableRememberMe that comes next, and again, that it will be called once more.
Copy == [phase: {"off", "start", "kicked", "switch", "running"},
         user: Users \cup {NoUser}, login: Users \cup {NoUser},
         step: {"none", "issue", "remember", "session"}, token: MaybeToken, again: BOOLEAN]

Off == [phase |-> "off", user |-> NoUser, login |-> NoUser, step |-> "none", token |-> 0, again |-> FALSE]

Init ==
    /\ registered = Users
    /\ remember = [u \in Users |-> 0] /\ session = [u \in Users |-> 0]
    /\ rememberFile = [d \in Dirs |-> 0] /\ sessionFile = [d \in Dirs |-> 0]
    /\ copy = [k \in Copies |-> Off]
    /\ next = 1
    /\ last = [u \in Users |-> NoCopy]

-----------------------------------------------------------------------------
\* tryAutoLogin finds the account of the remember file; refused covers a failed
\* query and an account not seen for ten days.
Start(k, refused) ==
    LET known == {u \in Users : remember[u] # 0 /\ remember[u] = rememberFile[DirOf[k]]}
    IN  /\ copy[k].phase = "off"
        /\ \/ \E u \in known : /\ ~refused
                               /\ copy' = [copy EXCEPT ![k].phase = "running", ![k].user = u]
           \/ /\ known = {} \/ refused
              /\ copy' = [copy EXCEPT ![k].phase = "start"]
        /\ UNCHANGED <<accounts, files>>

\* The dialog is accepted; after a lost session or a switch of accounts the menu
\* calls enableRememberMe a second time.
Login(k, u) ==
    /\ copy[k].phase \in {"start", "kicked", "switch"} /\ copy[k].step = "none"
    /\ u \in registered
    /\ copy' = [copy EXCEPT ![k].login = u, ![k].step = "issue",
                            ![k].again = copy[k].phase # "start"]
    /\ UNCHANGED <<accounts, files>>

\* registerUser, from the same dialog, which stays open; the tokens of the new row
\* are NULL.
Register(k, u) ==
    /\ copy[k].phase \in {"start", "kicked", "switch"} /\ copy[k].step = "none"
    /\ u \notin registered
    /\ registered' = registered \cup {u}
    /\ UNCHANGED <<remember, session, next, last, files, copy>>

\* enableRememberMe has returned, and nobody looks at what it returned.
Returned(c) == [c EXCEPT !.user = c.login, !.token = 0, !.again = FALSE,
                         !.step = IF c.again THEN "issue" ELSE "none",
                         !.phase = IF c.again THEN c.phase ELSE "running",
                         !.login = IF c.again THEN c.login ELSE NoUser]

\* The row of u after an UPDATE of a column, which succeeds also without a row.
Updated(column, u) == [column EXCEPT ![u] = IF u \in registered THEN next ELSE @]

\* Mutant: the UPDATE forgets the remember token.
Issue_SessionOnly(k) ==
    LET u == copy[k].login
    IN  /\ copy[k].step = "issue"
        /\ \/ /\ next <= MaxTokens
              /\ remember' = IF remember[u] = 0 THEN Updated(remember, u) ELSE remember
              /\ session' = Updated(session, u)
              /\ next' = next + 1
              /\ last' = IF u \in registered THEN [last EXCEPT ![u] = k] ELSE last
              /\ copy' = [copy EXCEPT ![k].step = "remember", ![k].token = next]
              /\ UNCHANGED registered
           \/ copy' = [copy EXCEPT ![k] = Returned(@)] /\ UNCHANGED accounts
        /\ UNCHANGED files

\* Mutant: tokens that are already in the row are joined instead of replaced.
Issue_JoinsSession(k) ==
    LET u == copy[k].login
    IN  /\ copy[k].step = "issue"
        /\ \/ /\ next <= MaxTokens
              /\ remember' = IF remember[u] = 0 THEN Updated(remember, u) ELSE remember
              /\ session' = IF session[u] = 0 THEN Updated(session, u) ELSE session
              /\ next' = next + 1
              /\ last' = IF u \in registered THEN [last EXCEPT ![u] = k] ELSE last
              /\ copy' = [copy EXCEPT ![k].step = "remember", ![k].token = session'[u]]
              /\ UNCHANGED registered
           \/ copy' = [copy EXCEPT ![k] = Returned(@)] /\ UNCHANGED accounts
        /\ UNCHANGED files

\* The UPDATE of both columns; when it is refused no file is written.  Without a
\* row, because the account has been deleted meanwhile, the files are written.
Issue(k) ==
    LET u == copy[k].login
    IN  /\ copy[k].step = "issue"
        /\ \/ /\ next <= MaxTokens
              /\ remember' = Updated(remember, u)
              /\ session' = Updated(session, u)
              /\ next' = next + 1
              /\ last' = IF u \in registered THEN [last EXCEPT ![u] = k] ELSE last
              /\ copy' = [copy EXCEPT ![k].step = "remember", ![k].token = next]
              /\ UNCHANGED registered
           \/ copy' = [copy EXCEPT ![k] = Returned(@)] /\ UNCHANGED accounts
        /\ UNCHANGED files

\* Mutant: the path and the value of the call in the wrong order.
Written_Swapped(file, d, t) == {[file EXCEPT ![d] = n] : n \in {d, file[d], 0}}

\* writeTextFile(f, t): written, not opened, or truncated and not written.
Written(file, d, t) == {[file EXCEPT ![d] = n] : n \in {t, file[d], 0}}

SaveRemember(k) ==
    /\ copy[k].step = "remember"
    /\ rememberFile' \in Written(rememberFile, DirOf[k], copy[k].token)
    /\ copy' = [copy EXCEPT ![k].step = "session"]
    /\ UNCHANGED <<accounts, sessionFile>>

SaveSession(k) ==
    /\ copy[k].step = "session"
    /\ sessionFile' \in Written(sessionFile, DirOf[k], copy[k].token)
    /\ copy' = [copy EXCEPT ![k] = Returned(@)]
    /\ UNCHANGED <<accounts, rememberFile>>

\* logoutUser.
RemoveFiles(d) ==
    /\ rememberFile' = [rememberFile EXCEPT ![d] = 0]
    /\ sessionFile' = [sessionFile EXCEPT ![d] = 0]

\* Mutant: an empty session file passes the check.
LoseSession_EmptyPasses(k) ==
    /\ copy[k].phase = "running"
    /\ sessionFile[DirOf[k]] # 0 /\ session[copy[k].user] # sessionFile[DirOf[k]]
    /\ RemoveFiles(DirOf[k])
    /\ copy' = [copy EXCEPT ![k].phase = "kicked"]
    /\ UNCHANGED accounts

\* A heartbeat whose check fails.  A check that passes, and one the database does
\* not answer, changes nothing.
LoseSession(k) ==
    /\ copy[k].phase = "running"
    /\ sessionFile[DirOf[k]] = 0 \/ session[copy[k].user] # sessionFile[DirOf[k]]
    /\ RemoveFiles(DirOf[k])
    /\ copy' = [copy EXCEPT ![k].phase = "kicked"]
    /\ UNCHANGED accounts

SwitchAccount(k) ==
    /\ copy[k].phase = "running"
    /\ RemoveFiles(DirOf[k])
    /\ copy' = [copy EXCEPT ![k].phase = "switch"]
    /\ UNCHANGED accounts

\* Mutant: the row is kept for the history, and so are its tokens.
DeleteAccount_KeepsTokens(k, u) ==
    /\ copy[k].phase = "running" /\ copy[k].user # u /\ u \in registered
    /\ registered' = registered \ {u}
    /\ last' = [last EXCEPT ![u] = NoCopy]
    /\ UNCHANGED <<remember, session, next, files, copy>>

\* A member of the staff deletes the account of another user.
DeleteAccount(k, u) ==
    /\ copy[k].phase = "running" /\ copy[k].user # u /\ u \in registered
    /\ registered' = registered \ {u}
    /\ remember' = [remember EXCEPT ![u] = 0]
    /\ session' = [session EXCEPT ![u] = 0]
    /\ last' = [last EXCEPT ![u] = NoCopy]
    /\ UNCHANGED <<next, files, copy>>

\* The program is left, the dialog is cancelled, or the copy crashes; the files stay.
Stop(k) ==
    /\ copy[k].phase # "off"
    /\ copy' = [copy EXCEPT ![k] = Off]
    /\ UNCHANGED <<accounts, files>>

CopyNext(k) ==
    \/ \E refused \in BOOLEAN : Start(k, refused)
    \/ \E u \in Users : Login(k, u) \/ Register(k, u) \/ DeleteAccount(k, u)
    \/ Issue(k) \/ SaveRemember(k) \/ SaveSession(k)
    \/ LoseSession(k) \/ SwitchAccount(k) \/ Stop(k)

Next == \E k \in Copies : CopyNext(k)

Spec == Init /\ [][Next]_vars

\* The heartbeat repeats as long as the copy runs; sooner or later the database
\* answers one of them.
FairSpec == Spec /\ \A k \in Copies : WF_vars(LoseSession(k))

-----------------------------------------------------------------------------
(* Properties.                                                             *)

\* Every variable keeps the shape declared above.
TypeOK ==
    /\ registered \subseteq Users
    /\ remember \in [Users -> MaybeToken] /\ session \in [Users -> MaybeToken]
    /\ rememberFile \in [Dirs -> MaybeToken] /\ sessionFile \in [Dirs -> MaybeToken]
    /\ copy \in [Copies -> Copy]
    /\ next \in 1 .. MaxTokens + 1
    /\ last \in [Users -> Copies \cup {NoCopy}]

\* The installations whose heartbeat would pass for user u, and those that would
\* sign u in at the next start.
Holding(column, file) ==
    {p \in Users \X Dirs : column[p[1]] # 0 /\ file[p[2]] = column[p[1]]}
Valid == Holding(session, sessionFile)
Resumable == Holding(remember, rememberFile)

ValidSession == INSTANCE ExclusiveHolder WITH Keys <- Users, Holders <- Dirs, holders <- Valid
AutoLogin == INSTANCE ExclusiveHolder WITH Keys <- Users, Holders <- Dirs, holders <- Resumable

\* However logins, failed writes and crashes interleave, an account's session is
\* valid in at most one installation, and the old one is invalid before the new
\* one becomes valid.
SessionIsExclusive == ValidSession!Spec

\* The same holds of signing in without a password at the next start.
AutoLoginIsExclusive == AutoLogin!Spec

\* A copy starts without a password only in the installation of the account's
\* latest login: one that was superseded stays signed out, and so does one whose
\* account was deleted, also when it is registered again under the same name.
SupersededStaysOut ==
    [][\A k \in Copies :
            copy[k].phase = "off" /\ copy'[k].phase = "running"
                => \E j \in Copies : last[copy'[k].user] = j /\ DirOf[j] = DirOf[k]]_vars

\* Two copies of different installations signed in to one account.
Rivals(p) ==
    /\ copy[p[1]].phase = "running" /\ copy[p[2]].phase = "running"
    /\ copy[p[1]].user = copy[p[2]].user

\* Two copies do not stay signed in to one account in two installations: once logins
\* end, a heartbeat ends one of them, even if a third copy revived its session file.
SupersededStops ==
    \A p \in {q \in Copies \X Copies : DirOf[q[1]] # DirOf[q[2]]} : Rivals(p) ~> ~Rivals(p)

\* The message of a lost session says that somebody signed in to this account in
\* another copy of the program or on another computer.
LostOnlyToAnother ==
    [][\A k \in Copies :
            copy[k].phase = "running" /\ copy'[k].phase = "kicked"
                => last[copy[k].user] # k]_vars
=============================================================================
