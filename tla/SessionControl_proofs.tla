------------------------ MODULE SessionControl_proofs ------------------------
(* Proofs about SessionControl for any number of copies, directories,       *)
(* accounts and logins.                                                      *)
EXTENDS SessionControl, TLAPS

-----------------------------------------------------------------------------
(* The inductive invariant.                                                *)

\* A copy that is about to write tokens knows whose; a running copy has a user.
Named ==
    \A k \in Copies :
        /\ copy[k].step # "none" => copy[k].login \in Users
        /\ copy[k].phase = "running" => copy[k].user \in Users /\ copy[k].step = "none"
        /\ copy[k].phase = "off" => copy[k].step = "none"

\* Every token anywhere has been handed out before the next one.
Issued ==
    /\ \A u \in Users : remember[u] < next /\ session[u] < next
    /\ \A d \in Dirs : rememberFile[d] < next /\ sessionFile[d] < next
    /\ \A k \in Copies : copy[k].token < next

\* A token of a column is one account's, and it is in the hands and in the file
\* of the copy that last issued tokens for that account, or nowhere.
Owned(column, file, cs, la) ==
    /\ \A u, v \in Users : column[u] # 0 /\ column[u] = column[v] => u = v
    /\ \A u \in Users : \A d \in Dirs :
          column[u] # 0 /\ file[d] = column[u] => la[u] \in Copies /\ DirOf[la[u]] = d
    /\ \A u \in Users : \A k \in Copies :
          column[u] # 0 /\ cs[k].token = column[u] => la[u] = k

OwnedTokens == Owned(remember, rememberFile, copy, last) /\ Owned(session, sessionFile, copy, last)

Inv == TypeOK /\ Named /\ Issued /\ OwnedTokens

\* A call that returned leaves a well-formed copy without a token.
LEMMA ReturnedType ==
    ASSUME NEW c \in Copy
    PROVE  /\ Returned(c) \in Copy /\ Returned(c).token = 0 /\ Returned(c).user = c.login
           /\ Returned(c).phase \in {c.phase, "running"}
           /\ c.again => Returned(c).step = "issue" /\ Returned(c).login = c.login /\ Returned(c).phase = c.phase
           /\ ~c.again => Returned(c).step = "none" /\ Returned(c).phase = "running"
BY DEF Returned, Copy, MaybeToken

\* What holds of every copy and every number the steps use.
LEMMA Ranges ==
    ASSUME TypeOK, NEW k \in Copies
    PROVE  /\ copy[k] \in Copy /\ DirOf[k] \in Dirs /\ 0 \in MaybeToken
           /\ copy[k].token \in MaybeToken
           /\ MaybeToken \subseteq Int /\ next \in Int
           /\ next <= MaxTokens => next \in MaybeToken /\ next # 0 /\ next + 1 \in 1 .. MaxTokens + 1
BY CopiesInstalled, NoneSignedIn DEF TypeOK, Copy, MaybeToken, Tokens

\* The UPDATE of Issue, executed.
Granted(k) ==
    /\ next <= MaxTokens
    /\ remember' = Updated(remember, copy[k].login)
    /\ session' = Updated(session, copy[k].login)
    /\ next' = next + 1
    /\ last' = IF copy[k].login \in registered THEN [last EXCEPT ![copy[k].login] = k] ELSE last
    /\ copy' = [copy EXCEPT ![k] = [@ EXCEPT !.step = "remember", !.token = next]]
    /\ UNCHANGED registered

\* No token is issued, and accounts keep theirs or lose both.
Forgets ==
    /\ next' = next
    /\ \A u \in Users :
          \/ remember'[u] = remember[u] /\ session'[u] = session[u] /\ last'[u] = last[u]
          \/ remember'[u] = 0 /\ session'[u] = 0

\* The invariant holds initially.
LEMMA InitInv ==
    ASSUME Init
    PROVE  Inv
<1>1. TypeOK
  BY NoneSignedIn DEF Init, TypeOK, Off, Copy, MaybeToken, Tokens
<1>2. Named /\ Issued
  BY DEF Init, Named, Issued, Off
<1>3. OwnedTokens
  BY DEF Init, OwnedTokens, Owned
<1> QED
  BY <1>1, <1>2, <1>3 DEF Inv

\* Every step keeps the shape of every variable.
LEMMA NextType ==
    ASSUME TypeOK, Named, NEW k \in Copies, CopyNext(k)
    PROVE  TypeOK'
<1>1. copy[k] \in Copy
  BY Ranges
<1>2. ASSUME NEW refused, Start(k, refused) PROVE TypeOK'
  <2>1. /\ [copy[k] EXCEPT !.phase = "start"] \in Copy
        /\ \A u \in Users : [copy[k] EXCEPT !.phase = "running", !.user = u] \in Copy
    BY <1>1 DEF Copy
  <2> QED
    BY <1>2, <2>1 DEF Start, TypeOK, accounts, files
<1>3. ASSUME NEW u \in Users, Login(k, u) PROVE TypeOK'
  <2>1. [copy[k] EXCEPT !.login = u, !.step = "issue", !.again = copy[k].phase # "start"] \in Copy
    BY <1>1 DEF Copy
  <2> QED
    BY <1>3, <2>1 DEF Login, TypeOK, accounts, files
<1>4. CASE Issue(k)
  <2>1. CASE copy' = [copy EXCEPT ![k] = Returned(@)] /\ UNCHANGED accounts
    BY <1>1, <1>4, <2>1, ReturnedType DEF Issue, TypeOK, accounts, files
  <2>2. CASE Granted(k)
    <3>1. next <= MaxTokens /\ copy[k].login \in Users
      BY <1>4, <2>2 DEF Issue, Granted, Named
    <3>2. [copy[k] EXCEPT !.step = "remember", !.token = next] \in Copy
      BY <1>1, <3>1, Ranges DEF Copy
    <3>3. copy' \in [Copies -> Copy]
      BY <2>2, <3>2 DEF Granted, TypeOK
    <3>4. remember' \in [Users -> MaybeToken] /\ session' \in [Users -> MaybeToken]
      BY <2>2, <3>1, Ranges DEF Granted, TypeOK, Updated
    <3>5. next' \in 1 .. MaxTokens + 1 /\ last' \in [Users -> Copies \cup {NoCopy}]
      BY <2>2, <3>1, Ranges DEF Granted, TypeOK
    <3>6. UNCHANGED files /\ registered' \subseteq Users
      BY <1>4, <2>2 DEF Issue, Granted, TypeOK
    <3> QED
      BY <3>3, <3>4, <3>5, <3>6 DEF TypeOK, files
  <2> QED
    BY <1>4, <2>1, <2>2 DEF Issue, Granted
<1>5. CASE SaveRemember(k)
  <2>1. [copy[k] EXCEPT !.step = "session"] \in Copy
    BY <1>1 DEF Copy
  <2>2. rememberFile' \in [Dirs -> MaybeToken]
    BY <1>5, Ranges DEF SaveRemember, Written, TypeOK
  <2> QED
    BY <1>5, <2>1, <2>2 DEF SaveRemember, TypeOK, accounts
<1>6. CASE SaveSession(k)
  <2>1. sessionFile' \in [Dirs -> MaybeToken]
    BY <1>6, Ranges DEF SaveSession, Written, TypeOK
  <2> QED
    BY <1>1, <1>6, <2>1, ReturnedType DEF SaveSession, TypeOK, accounts
<1>7. CASE LoseSession(k) \/ SwitchAccount(k)
  <2>1. [copy[k] EXCEPT !.phase = "kicked"] \in Copy /\ [copy[k] EXCEPT !.phase = "switch"] \in Copy
    BY <1>1 DEF Copy
  <2> QED
    BY <1>7, <2>1, Ranges DEF LoseSession, SwitchAccount, RemoveFiles, TypeOK, accounts
<1>8. CASE Stop(k)
  <2>1. Off \in Copy
    BY Ranges DEF Off, Copy
  <2> QED
    BY <1>8, <2>1 DEF Stop, TypeOK, accounts, files
<1>9. ASSUME NEW u \in Users, Register(k, u) \/ DeleteAccount(k, u) PROVE TypeOK'
  <2>1. /\ [remember EXCEPT ![u] = 0] \in [Users -> MaybeToken]
        /\ [session EXCEPT ![u] = 0] \in [Users -> MaybeToken]
        /\ [last EXCEPT ![u] = NoCopy] \in [Users -> Copies \cup {NoCopy}]
    BY Ranges DEF TypeOK
  <2> QED
    BY <1>9, <2>1 DEF Register, DeleteAccount, TypeOK, files
<1> QED
  BY <1>2, <1>3, <1>4, <1>5, <1>6, <1>7, <1>8, <1>9 DEF CopyNext

\* What a step does to the copy that takes it and to the others.
LEMMA CopyStep ==
    ASSUME TypeOK, Named, NEW k \in Copies, CopyNext(k), NEW j \in Copies
    PROVE  /\ j # k => copy'[j] = copy[j]
           /\ copy'[k].token \in {copy[k].token, 0} \/ Granted(k)
           /\ Granted(k) => copy'[k].token = next /\ copy[k].login \in Users
           /\ ~Granted(k) => Forgets
           /\ Named'
<1>1. copy[k] \in Copy
  BY Ranges
<1>2. /\ copy[k].step # "none" => copy[k].login \in Users
      /\ copy[k].phase = "running" => copy[k].user \in Users /\ copy[k].step = "none"
      /\ copy[k].phase = "off" => copy[k].step = "none"
  BY DEF Named
<1> DEFINE Kept == /\ copy'[k].step # "none" => copy'[k].login \in Users
                   /\ copy'[k].phase = "running" => copy'[k].user \in Users /\ copy'[k].step = "none"
                   /\ copy'[k].phase = "off" => copy'[k].step = "none"
           Goal == /\ \A i \in Copies : i # k => copy'[i] = copy[i]
                   /\ copy'[k].token \in {copy[k].token, 0} \/ Granted(k)
                   /\ Granted(k) => copy'[k].token = next /\ copy[k].login \in Users
                   /\ ~Granted(k) => Forgets
                   /\ Kept
<1>a. UNCHANGED accounts => Forgets
  BY DEF accounts, Forgets
<1>3. ASSUME NEW c \in Copy, copy' = [copy EXCEPT ![k] = c], Forgets,
             c.token \in {copy[k].token, 0},
             c.step # "none" => c.login \in Users,
             c.phase = "running" => c.user \in Users /\ c.step = "none",
             c.phase = "off" => c.step = "none"
      PROVE  Goal
  <2>1. copy'[k] = c /\ \A i \in Copies : i # k => copy'[i] = copy[i]
    BY <1>3 DEF TypeOK
  <2>2. ~Granted(k)
    BY <1>3, Ranges DEF Granted, Forgets
  <2> QED
    BY <1>3, <2>1, <2>2
<1>4. ASSUME NEW refused, Start(k, refused) PROVE Goal
  <2>1. copy[k].step = "none"
    BY <1>2, <1>4 DEF Start
  <2>2. ASSUME copy' = [copy EXCEPT ![k].phase = "start"] PROVE Goal
    <3> DEFINE c == [copy[k] EXCEPT !.phase = "start"]
    <3>1. c \in Copy /\ c.token = copy[k].token /\ c.step = "none" /\ c.phase = "start"
      BY <1>1, <2>1 DEF Copy
    <3> HIDE DEF Goal
    <3> QED
      BY <1>3, <1>4, <1>a, <2>2, <3>1 DEF Start
  <2>3. ASSUME NEW u \in Users, copy' = [copy EXCEPT ![k].phase = "running", ![k].user = u] PROVE Goal
    <3> DEFINE c == [copy[k] EXCEPT !.phase = "running", !.user = u]
    <3>1. /\ c \in Copy /\ c.token = copy[k].token /\ c.step = "none" /\ c.phase = "running" /\ c.user = u
          /\ copy' = [copy EXCEPT ![k] = c]
      BY <1>1, <2>1, <2>3 DEF Copy, TypeOK
    <3> HIDE DEF Goal, c
    <3> QED
      BY <1>3, <1>4, <1>a, <3>1 DEF Start
  <2> HIDE DEF Goal
  <2> QED
    BY <1>4, <2>2, <2>3 DEF Start
<1>5. ASSUME NEW u \in Users, Login(k, u) PROVE Goal
  <2> DEFINE c == [copy[k] EXCEPT !.login = u, !.step = "issue", !.again = copy[k].phase # "start"]
  <2>1. /\ c \in Copy /\ c.token = copy[k].token /\ c.login = u /\ c.phase = copy[k].phase
        /\ copy[k].phase \in {"start", "kicked", "switch"}
    BY <1>1, <1>5 DEF Copy, Login
  <2>2. copy' = [copy EXCEPT ![k] = c] /\ UNCHANGED accounts
    BY <1>5 DEF Login, TypeOK
  <2> HIDE DEF Goal, c
  <2> QED
    BY <1>3, <1>a, <2>1, <2>2
<1>6. ASSUME copy[k].step # "none", copy' = [copy EXCEPT ![k] = Returned(@)], UNCHANGED accounts
      PROVE  Goal
  <2>1. copy[k].login \in Users /\ copy[k].phase \notin {"running", "off"}
    BY <1>2, <1>6
  <2>2. Returned(copy[k]) \in Copy /\ Returned(copy[k]).token = 0
    BY <1>1, ReturnedType
  <2>3. /\ Returned(copy[k]).step # "none" => Returned(copy[k]).login \in Users
        /\ Returned(copy[k]).phase = "running" => Returned(copy[k]).user \in Users /\ Returned(copy[k]).step = "none"
        /\ Returned(copy[k]).phase # "off"
    <3>1. copy[k].again \in BOOLEAN
      BY <1>1 DEF Copy
    <3> QED
      BY <1>1, <2>1, <3>1, ReturnedType
  <2> HIDE DEF Goal
  <2> QED
    BY <1>3, <1>6, <1>a, <2>2, <2>3
<1>7. ASSUME Issue(k) PROVE Goal
  <2>1. copy[k].login \in Users
    BY <1>2, <1>7 DEF Issue
  <2>2. ASSUME Granted(k) PROVE Goal
    <3> DEFINE c == [copy[k] EXCEPT !.step = "remember", !.token = next]
    <3>1. copy' = [copy EXCEPT ![k] = c]
      BY <2>2 DEF Granted
    <3>2. c.token = next /\ c.login = copy[k].login /\ c.phase = copy[k].phase /\ c.step = "remember"
      BY <1>1 DEF Copy
    <3>3. copy[k].phase \notin {"running", "off"}
      BY <1>2, <1>7 DEF Issue
    <3>4. copy'[k] = c /\ \A i \in Copies : i # k => copy'[i] = copy[i]
      BY <3>1 DEF TypeOK
    <3> HIDE DEF c
    <3> QED
      BY <2>1, <2>2, <3>2, <3>3, <3>4
  <2>3. ASSUME copy' = [copy EXCEPT ![k] = Returned(@)], UNCHANGED accounts PROVE Goal
    <3> HIDE DEF Goal
    <3> QED
      BY <1>6, <1>7, <2>3 DEF Issue
  <2> HIDE DEF Goal
  <2> QED
    BY <1>7, <2>2, <2>3 DEF Issue, Granted
<1>8. ASSUME SaveRemember(k) PROVE Goal
  <2> DEFINE c == [copy[k] EXCEPT !.step = "session"]
  <2>1. /\ c \in Copy /\ c.token = copy[k].token /\ c.login = copy[k].login /\ c.phase = copy[k].phase
        /\ copy[k].login \in Users /\ copy[k].phase \notin {"running", "off"}
    BY <1>1, <1>2, <1>8 DEF Copy, SaveRemember
  <2>2. copy' = [copy EXCEPT ![k] = c] /\ UNCHANGED accounts
    BY <1>8 DEF SaveRemember
  <2> HIDE DEF Goal, c
  <2> QED
    BY <1>3, <1>a, <2>1, <2>2
<1>9. ASSUME SaveSession(k) PROVE Goal
  <2> HIDE DEF Goal
  <2> QED
    BY <1>6, <1>9 DEF SaveSession
<1>10. ASSUME LoseSession(k) \/ SwitchAccount(k) PROVE Goal
  <2>1. PICK f \in {"kicked", "switch"} : copy' = [copy EXCEPT ![k] = [@ EXCEPT !.phase = f]]
    BY <1>10 DEF LoseSession, SwitchAccount
  <2> DEFINE c == [copy[k] EXCEPT !.phase = f]
  <2>2. c \in Copy /\ c.token = copy[k].token /\ c.step = copy[k].step /\ c.phase = f /\ copy[k].step = "none"
    BY <1>1, <1>2, <1>10 DEF Copy, LoseSession, SwitchAccount
  <2>3. copy' = [copy EXCEPT ![k] = c] /\ UNCHANGED accounts
    BY <1>10, <2>1 DEF LoseSession, SwitchAccount
  <2> HIDE DEF Goal, c
  <2> QED
    BY <1>3, <1>a, <2>2, <2>3
<1>11. ASSUME Stop(k) PROVE Goal
  <2>1. Off \in Copy /\ Off.token = 0 /\ Off.step = "none" /\ Off.phase = "off"
    BY Ranges DEF Off, Copy
  <2> HIDE DEF Goal
  <2> QED
    BY <1>3, <1>11, <1>a, <2>1 DEF Stop
<1>b. ASSUME NEW u \in Users, Register(k, u) \/ DeleteAccount(k, u) PROVE Goal
  <2>1. copy' = [copy EXCEPT ![k] = copy[k]]
    BY <1>b DEF Register, DeleteAccount, TypeOK
  <2>2. Forgets
    BY <1>b DEF Register, DeleteAccount, Forgets, TypeOK
  <2> HIDE DEF Goal
  <2> QED
    BY <1>1, <1>2, <1>3, <2>1, <2>2
<1>12. Goal
  <2> HIDE DEF Goal
  <2> QED
    BY <1>4, <1>5, <1>7, <1>8, <1>9, <1>10, <1>11, <1>b DEF CopyNext
<1> QED
  BY <1>12 DEF Named

\* A step writes at most the file of its own directory, with its token, with what
\* was there, or with nothing; the step that issues tokens writes no file.
LEMMA FileStep ==
    ASSUME TypeOK, NEW k \in Copies, CopyNext(k)
    PROVE  /\ \E n \in {copy[k].token, rememberFile[DirOf[k]], 0} :
                 rememberFile' = [rememberFile EXCEPT ![DirOf[k]] = n]
           /\ \E n \in {copy[k].token, sessionFile[DirOf[k]], 0} :
                 sessionFile' = [sessionFile EXCEPT ![DirOf[k]] = n]
           /\ Granted(k) => UNCHANGED files
<1>1. /\ rememberFile = [rememberFile EXCEPT ![DirOf[k]] = rememberFile[DirOf[k]]]
      /\ sessionFile = [sessionFile EXCEPT ![DirOf[k]] = sessionFile[DirOf[k]]]
  BY DEF TypeOK
<1>2. CASE UNCHANGED files
  BY <1>1, <1>2 DEF files
<1>4. CASE SaveRemember(k)
  BY <1>1, <1>4, Ranges DEF SaveRemember, Written, Granted, accounts
<1>5. CASE SaveSession(k)
  BY <1>1, <1>5, Ranges DEF SaveSession, Written, Granted, accounts
<1>6. CASE LoseSession(k) \/ SwitchAccount(k)
  BY <1>1, <1>6, Ranges DEF LoseSession, SwitchAccount, RemoveFiles, Granted, accounts
<1>7. CASE Issue(k) \/ Stop(k)
  BY <1>2, <1>7 DEF Issue, Stop
<1>8. ASSUME NEW refused, NEW u, \/ Start(k, refused) \/ Login(k, u)
                                \/ Register(k, u) \/ DeleteAccount(k, u)
      PROVE  UNCHANGED files
  BY <1>8 DEF Start, Login, Register, DeleteAccount, files
<1> QED
  BY <1>2, <1>4, <1>5, <1>6, <1>7, <1>8 DEF CopyNext

\* No token is used before it is issued.
LEMMA NextIssued ==
    ASSUME TypeOK, Named, Issued, NEW k \in Copies, CopyNext(k)
    PROVE  Issued'
<1>1. next \in Int /\ 0 < next
  BY DEF TypeOK
<1>2. PICK t \in Int : t = copy[k].token /\ t < next
  BY Ranges DEF Issued
<1>3. next' \in {next, next + 1}
  BY CopyStep DEF Granted, Forgets
<1>4. ASSUME NEW d \in Dirs PROVE rememberFile'[d] < next /\ sessionFile'[d] < next
  <2>1. rememberFile'[d] \in {rememberFile[d], t, 0} /\ sessionFile'[d] \in {sessionFile[d], t, 0}
    BY <1>2, FileStep DEF TypeOK
  <2> QED
    BY <1>1, <1>2, <2>1 DEF Issued
<1>5. ASSUME NEW u \in Users PROVE remember'[u] < next' /\ session'[u] < next'
  <2>1. CASE Forgets
    BY <1>1, <2>1 DEF Forgets, Issued
  <2>2. CASE Granted(k)
    <3>1. next' = next + 1 /\ remember'[u] \in {remember[u], next} /\ session'[u] \in {session[u], next}
      BY <2>2 DEF Granted, Updated, TypeOK
    <3>2. remember[u] < next /\ session[u] < next /\ remember[u] \in Int /\ session[u] \in Int
      BY DEF Issued, TypeOK, MaybeToken, Tokens
    <3> QED
      BY <1>1, <3>1, <3>2
  <2> QED
    BY <2>1, <2>2, CopyStep
<1>6. ASSUME NEW j \in Copies PROVE copy'[j].token < next'
  <2>1. copy'[j].token \in {copy[j].token, 0} \/ (Granted(k) /\ copy'[j].token = next)
    BY CopyStep
  <2>2. copy[j].token < next /\ copy[j].token \in Int
    BY Ranges DEF Issued
  <2>3. Granted(k) => next' = next + 1
    BY DEF Granted
  <2> QED
    BY <1>1, <1>3, <2>1, <2>2, <2>3
<1>7. ASSUME NEW d \in Dirs PROVE rememberFile'[d] \in Int /\ sessionFile'[d] \in Int
  <2>1. TypeOK'
    BY NextType
  <2> QED
    BY <2>1 DEF TypeOK, MaybeToken, Tokens
<1> QED
  BY <1>1, <1>3, <1>4, <1>5, <1>6, <1>7 DEF Issued

-----------------------------------------------------------------------------
(* One column and its file.                                                *)

\* A file is written by the copy that holds the token, or loses what it had.
LEMMA OwnedKept ==
    ASSUME NEW column \in [Users -> MaybeToken], NEW file \in [Dirs -> MaybeToken], NEW file2,
           Owned(column, file, copy, last), NEW k \in Copies,
           file2[DirOf[k]] \in {copy[k].token, file[DirOf[k]], 0},
           \A d \in Dirs : d # DirOf[k] => file2[d] = file[d],
           copy'[k].token \in {copy[k].token, 0},
           \A j \in Copies : j # k => copy'[j] = copy[j]
    PROVE  Owned(column, file2, copy', last)
<1>1. DirOf[k] \in Dirs
  BY CopiesInstalled
<1>2. ASSUME NEW u \in Users, NEW d \in Dirs, column[u] # 0, file2[d] = column[u]
      PROVE  last[u] \in Copies /\ DirOf[last[u]] = d
  <2>1. CASE file2[d] = file[d]
    <3>1. column[u] # 0 /\ file[d] = column[u]
      BY <1>2, <2>1
    <3> QED
      BY <3>1 DEF Owned
  <2>2. CASE file2[d] # file[d]
    BY <1>1, <1>2, <2>2 DEF Owned
  <2> QED
    BY <2>1, <2>2
<1>3. ASSUME NEW u \in Users, NEW j \in Copies, column[u] # 0, copy'[j].token = column[u]
      PROVE  last[u] = j
  BY <1>3 DEF Owned
<1> QED
  BY <1>2, <1>3 DEF Owned

\* A fresh token belongs to the copy that issued it.
LEMMA OwnedIssued ==
    ASSUME NEW column \in [Users -> MaybeToken], NEW file \in [Dirs -> MaybeToken], NEW cs,
           NEW la \in [Users -> Copies \cup {NoCopy}],
           Owned(column, file, cs, la), NEW k \in Copies, NEW cs2, NEW u \in Users, NEW t,
           cs2[k].token = t, \A j \in Copies : j # k => cs2[j] = cs[j],
           \A v \in Users : column[v] # t, \A d \in Dirs : file[d] # t,
           \A j \in Copies : cs[j].token # t
    PROVE  Owned([column EXCEPT ![u] = t], file, cs2, [la EXCEPT ![u] = k])
<1>1. ASSUME NEW v \in Users PROVE /\ v = u => [column EXCEPT ![u] = t][v] = t /\ [la EXCEPT ![u] = k][v] = k
                                   /\ v # u => /\ [column EXCEPT ![u] = t][v] = column[v]
                                               /\ [la EXCEPT ![u] = k][v] = la[v]
  OBVIOUS
<1>2. \A j \in Copies : cs2[j].token = t \/ j # k
  OBVIOUS
<1> QED
  BY <1>1, <1>2 DEF Owned

\* A fresh token that no column has is nobody's.
LEMMA OwnedByNobody ==
    ASSUME NEW column \in [Users -> MaybeToken], NEW file \in [Dirs -> MaybeToken], NEW cs, NEW la,
           Owned(column, file, cs, la), NEW k \in Copies, NEW cs2, NEW t,
           cs2[k].token = t, \A j \in Copies : j # k => cs2[j] = cs[j],
           \A v \in Users : column[v] # t
    PROVE  Owned(column, file, cs2, la)
<1>1. \A j \in Copies : cs2[j].token = t \/ j # k
  OBVIOUS
<1> QED
  BY <1>1 DEF Owned

\* Losing tokens leaves the others with their owners.
LEMMA OwnedForgotten ==
    ASSUME NEW column, NEW file, NEW cs, NEW la, Owned(column, file, cs, la), NEW column2, NEW la2,
           \A u \in Users : (column2[u] = column[u] /\ la2[u] = la[u]) \/ column2[u] = 0
    PROVE  Owned(column2, file, cs, la2)
BY DEF Owned

\* Every step keeps each column of tokens with its owners.
LEMMA NextOwned ==
    ASSUME Inv, NEW k \in Copies, CopyNext(k)
    PROVE  OwnedTokens'
<1>1. TypeOK /\ Named /\ Issued /\ OwnedTokens
  BY DEF Inv
<1>2. \A j \in Copies : j # k => copy'[j] = copy[j]
  BY <1>1, CopyStep
<1>3. CASE Granted(k)
  <2> DEFINE u == copy[k].login
  <2>1. u \in Users /\ copy'[k].token = next /\ UNCHANGED <<rememberFile, sessionFile>>
    BY <1>1, <1>3, CopyStep, FileStep DEF files
  <2>2. /\ \A v \in Users : remember[v] # next /\ session[v] # next
        /\ \A d \in Dirs : rememberFile[d] # next /\ sessionFile[d] # next
        /\ \A j \in Copies : copy[j].token # next
    <3>1. next \in Int /\ \A x \in Int : x < next => x # next
      BY <1>1 DEF TypeOK
    <3> QED
      BY <1>1, <3>1 DEF Issued
  <2>3. CASE u \in registered
    <3>1. /\ remember' = [remember EXCEPT ![u] = next]
          /\ session' = [session EXCEPT ![u] = next]
          /\ last' = [last EXCEPT ![u] = k]
      BY <1>3, <2>3 DEF Granted, Updated
    <3> HIDE DEF u
    <3>2. Owned(remember', rememberFile, copy', last')
      BY <1>1, <1>2, <2>1, <2>2, <3>1, OwnedIssued DEF TypeOK, OwnedTokens
    <3>3. Owned(session', sessionFile, copy', last')
      BY <1>1, <1>2, <2>1, <2>2, <3>1, OwnedIssued DEF TypeOK, OwnedTokens
    <3> QED
      BY <2>1, <3>2, <3>3 DEF OwnedTokens, Owned
  <2>4. CASE u \notin registered
    <3>1. UNCHANGED <<remember, session, last>>
      BY <1>1, <1>3, <2>4 DEF Granted, Updated, TypeOK
    <3> HIDE DEF u
    <3>2. Owned(remember, rememberFile, copy', last)
      BY <1>1, <1>2, <2>1, <2>2, OwnedByNobody DEF TypeOK, OwnedTokens
    <3>3. Owned(session, sessionFile, copy', last)
      BY <1>1, <1>2, <2>1, <2>2, OwnedByNobody DEF TypeOK, OwnedTokens
    <3> QED
      BY <2>1, <3>1, <3>2, <3>3 DEF OwnedTokens, Owned
  <2> QED
    BY <2>3, <2>4
<1>4. CASE ~Granted(k)
  <2>1. Forgets /\ copy'[k].token \in {copy[k].token, 0}
    BY <1>1, <1>4, CopyStep
  <2>2. Owned(remember, rememberFile', copy', last)
    <3>1. PICK n \in {copy[k].token, rememberFile[DirOf[k]], 0} : rememberFile' = [rememberFile EXCEPT ![DirOf[k]] = n]
      BY <1>1, FileStep
    <3>2. /\ rememberFile'[DirOf[k]] \in {copy[k].token, rememberFile[DirOf[k]], 0}
          /\ \A d \in Dirs : d # DirOf[k] => rememberFile'[d] = rememberFile[d]
      BY <1>1, <3>1, CopiesInstalled DEF TypeOK
    <3>3. /\ Owned(remember, rememberFile, copy, last)
          /\ remember \in [Users -> MaybeToken] /\ rememberFile \in [Dirs -> MaybeToken]
      BY <1>1 DEF OwnedTokens, TypeOK
    <3> QED
      BY <1>2, <2>1, <3>2, <3>3, OwnedKept
  <2>3. Owned(session, sessionFile', copy', last)
    <3>1. PICK n \in {copy[k].token, sessionFile[DirOf[k]], 0} : sessionFile' = [sessionFile EXCEPT ![DirOf[k]] = n]
      BY <1>1, FileStep
    <3>2. /\ sessionFile'[DirOf[k]] \in {copy[k].token, sessionFile[DirOf[k]], 0}
          /\ \A d \in Dirs : d # DirOf[k] => sessionFile'[d] = sessionFile[d]
      BY <1>1, <3>1, CopiesInstalled DEF TypeOK
    <3>3. /\ Owned(session, sessionFile, copy, last)
          /\ session \in [Users -> MaybeToken] /\ sessionFile \in [Dirs -> MaybeToken]
      BY <1>1 DEF OwnedTokens, TypeOK
    <3> QED
      BY <1>2, <2>1, <3>2, <3>3, OwnedKept
  <2>4. /\ \A u \in Users : (remember'[u] = remember[u] /\ last'[u] = last[u]) \/ remember'[u] = 0
        /\ \A u \in Users : (session'[u] = session[u] /\ last'[u] = last[u]) \/ session'[u] = 0
    BY <2>1 DEF Forgets
  <2>5. Owned(remember', rememberFile', copy', last')
    BY <2>2, <2>4, OwnedForgotten
  <2>6. Owned(session', sessionFile', copy', last')
    BY <2>3, <2>4, OwnedForgotten
  <2> QED
    BY <2>5, <2>6 DEF OwnedTokens, Owned
<1> QED
  BY <1>3, <1>4

\* The invariant is inductive.
LEMMA Invariance == Spec => []Inv
<1>1. Inv /\ UNCHANGED vars => Inv'
  BY DEF Inv, TypeOK, Named, Issued, OwnedTokens, Owned, vars, accounts, files
<1>2. ASSUME Inv, NEW k \in Copies, CopyNext(k) PROVE Inv'
  <2>1. TypeOK /\ Named /\ Issued
    BY <1>2 DEF Inv
  <2>2. TypeOK' /\ Named' /\ Issued' /\ OwnedTokens'
    BY <1>2, <2>1, NextType, CopyStep, NextIssued, NextOwned
  <2> QED
    BY <2>2 DEF Inv
<1>3. Inv /\ [Next]_vars => Inv'
  BY <1>1, <1>2 DEF Next
<1>4. Init => Inv
  BY InitInv
<1> QED
  BY <1>3, <1>4, PTL DEF Spec

\* Every variable keeps its declared shape.
THEOREM SessionTypes == Spec => []TypeOK
BY Invariance, PTL DEF Inv

\* A copy signs in without a password only where the account was last signed in,
\* whatever writes failed and whichever copies crashed: a superseded installation
\* stays signed out.
THEOREM SupersededCannotResume == Spec => SupersededStaysOut
<1>1. Inv /\ [Next]_vars => [\A k \in Copies :
            copy[k].phase = "off" /\ copy'[k].phase = "running"
                => \E j \in Copies : last[copy'[k].user] = j /\ DirOf[j] = DirOf[k]]_vars
  <2> SUFFICES ASSUME Inv, NEW i \in Copies, CopyNext(i), NEW k \in Copies,
                      copy[k].phase = "off", copy'[k].phase = "running"
               PROVE  \E j \in Copies : last[copy'[k].user] = j /\ DirOf[j] = DirOf[k]
    BY DEF Next
  <2>1. TypeOK /\ Named /\ OwnedTokens /\ DirOf[k] \in Dirs
    BY Ranges DEF Inv
  <2>2. i = k
    BY <2>1, CopyStep
  <2>3. copy[k].step = "none" /\ copy[k] \in Copy
    BY <2>1, Ranges DEF Named
  <2>4. PICK refused \in BOOLEAN : Start(k, refused)
    <3>1. ~(Issue(k) \/ SaveRemember(k) \/ SaveSession(k))
      BY <2>3 DEF Issue, SaveRemember, SaveSession
    <3>2. ~(LoseSession(k) \/ SwitchAccount(k) \/ Stop(k)
            \/ \E u \in Users : Login(k, u) \/ Register(k, u) \/ DeleteAccount(k, u))
      BY DEF LoseSession, SwitchAccount, Stop, Login, Register, DeleteAccount
    <3> QED
      BY <2>2, <3>1, <3>2 DEF CopyNext
  <2>5. PICK u \in Users : /\ remember[u] # 0 /\ remember[u] = rememberFile[DirOf[k]]
                           /\ copy' = [copy EXCEPT ![k].phase = "running", ![k].user = u]
    <3>1. copy' # [copy EXCEPT ![k].phase = "start"]
      BY <2>1, <2>3 DEF TypeOK, Copy
    <3> QED
      BY <2>4, <3>1 DEF Start
  <2>6. copy'[k].user = u
    BY <2>1, <2>3, <2>5 DEF TypeOK, Copy
  <2> QED
    BY <2>1, <2>5, <2>6 DEF OwnedTokens, Owned
<1> QED
  BY <1>1, Invariance, PTL DEF Spec, SupersededStaysOut

-----------------------------------------------------------------------------
(* The refinement of ExclusiveHolder, for either column and its file.      *)

\* A step of ExclusiveHolder from h to g.
Handover(h, g) ==
    \/ g \subseteq h
    \/ \E u \in Users, d \in Dirs :
          /\ \A e \in Dirs : <<u, e>> \notin h
          /\ <<u, d>> \in g
          /\ g \ {<<u, d>>} \subseteq h

\* Writing a token that one copy holds, what was there, or nothing, while accounts
\* keep their tokens or lose them.
LEMMA HandoverByFile ==
    ASSUME NEW column \in [Users -> MaybeToken], NEW file \in [Dirs -> MaybeToken],
           NEW column2, NEW file2, Owned(column, file, copy, last), NEW k \in Copies, DirOf[k] \in Dirs,
           file2[DirOf[k]] \in {copy[k].token, file[DirOf[k]], 0},
           \A d \in Dirs : d # DirOf[k] => file2[d] = file[d],
           \A u \in Users : column2[u] \in {column[u], 0}
    PROVE  Handover(Holding(column, file), Holding(column2, file2))
<1> DEFINE d == DirOf[k]
           h == Holding(column, file)
           g == Holding(column2, file2)
<1>1. ASSUME NEW p \in g, p \notin h
      PROVE  /\ p = <<p[1], d>> /\ p[1] \in Users
             /\ column[p[1]] # 0 /\ column[p[1]] = file2[d]
             /\ copy[k].token = column[p[1]]
  BY <1>1 DEF Holding
<1>2. CASE g \subseteq h
  BY <1>2 DEF Handover
<1>3. ASSUME NEW p \in g, p \notin h PROVE Handover(h, g)
  <2> DEFINE u == p[1]
  <2>1. /\ p = <<u, d>> /\ u \in Users /\ column[u] # 0 /\ column[u] = file2[d]
        /\ copy[k].token = column[u]
    BY <1>1, <1>3
  <2>2. \A e \in Dirs : <<u, e>> \notin h
    <3> SUFFICES ASSUME NEW e \in Dirs, <<u, e>> \in h PROVE FALSE
      OBVIOUS
    <3>1. file[e] = column[u]
      BY DEF Holding
    <3>2. last[u] = k /\ DirOf[last[u]] = e
      BY <2>1, <3>1 DEF Owned
    <3> QED
      BY <1>3, <2>1, <3>2
  <2>3. ASSUME NEW q \in g, q \notin h PROVE q = <<u, d>>
    <3>1. q = <<q[1], d>> /\ q[1] \in Users /\ column[q[1]] # 0 /\ column[q[1]] = column[u]
      BY <1>1, <2>1, <2>3
    <3>2. q[1] = u
      BY <2>1, <3>1 DEF Owned
    <3> QED
      BY <3>1, <3>2
  <2>4. u \in Users /\ d \in Dirs /\ <<u, d>> \in g
    BY <1>3, <2>1
  <2>5. g \ {<<u, d>>} \subseteq h
    BY <2>3
  <2> HIDE DEF h, g, d, u
  <2> QED
    BY <2>2, <2>4, <2>5, Zenon DEF Handover
<1>4. g \subseteq h \/ \E p \in g : p \notin h
  OBVIOUS
<1>5. CASE \E p \in g : p \notin h
  <2>1. PICK p \in g : p \notin h
    BY <1>5
  <2> HIDE DEF h, g
  <2>2. Handover(h, g)
    BY <1>3, <2>1, Zenon
  <2> QED
    BY <2>2 DEF h, g
<1> QED
  BY <1>2, <1>4, <1>5

\* Issuing a fresh token takes the account from whoever held it.
LEMMA HandoverByIssue ==
    ASSUME NEW column, NEW column2, NEW file, NEW t,
           \A u \in Users : column2[u] \in {column[u], t}, \A d \in Dirs : file[d] # t
    PROVE  Handover(Holding(column, file), Holding(column2, file))
<1>1. Holding(column2, file) \subseteq Holding(column, file)
  BY DEF Holding
<1> QED
  BY <1>1 DEF Handover

\* Every step of SessionControl is a handover of either token.
LEMMA HandoverSteps ==
    ASSUME Inv, NEW k \in Copies, CopyNext(k)
    PROVE  Handover(Valid, Valid') /\ Handover(Resumable, Resumable')
<1>1. TypeOK /\ Named /\ Issued /\ OwnedTokens /\ DirOf[k] \in Dirs
  BY Ranges DEF Inv
<1>2. CASE Granted(k)
  <2>1. UNCHANGED <<rememberFile, sessionFile>>
    BY <1>1, <1>2, FileStep DEF files
  <2>2. \A d \in Dirs : rememberFile[d] # next /\ sessionFile[d] # next
    BY <1>1 DEF Issued, TypeOK, MaybeToken, Tokens
  <2>3. \A u \in Users : remember'[u] \in {remember[u], next} /\ session'[u] \in {session[u], next}
    BY <1>1, <1>2 DEF Granted, Updated, TypeOK
  <2>4. Handover(Holding(session, sessionFile), Holding(session', sessionFile))
    BY <2>2, <2>3, HandoverByIssue
  <2>5. Handover(Holding(remember, rememberFile), Holding(remember', rememberFile))
    BY <2>2, <2>3, HandoverByIssue
  <2> QED
    BY <2>1, <2>4, <2>5 DEF Valid, Resumable, Holding
<1>3. CASE ~Granted(k)
  <2>1. \A u \in Users : remember'[u] \in {remember[u], 0} /\ session'[u] \in {session[u], 0}
    BY <1>1, <1>3, CopyStep DEF Forgets
  <2>2. Handover(Holding(session, sessionFile), Holding(session', sessionFile'))
    <3>1. PICK n \in {copy[k].token, sessionFile[DirOf[k]], 0} :
                 sessionFile' = [sessionFile EXCEPT ![DirOf[k]] = n]
      BY <1>1, FileStep
    <3>2. /\ sessionFile'[DirOf[k]] \in {copy[k].token, sessionFile[DirOf[k]], 0}
          /\ \A d \in Dirs : d # DirOf[k] => sessionFile'[d] = sessionFile[d]
      BY <1>1, <3>1 DEF TypeOK
    <3> QED
      BY <1>1, <2>1, <3>2, HandoverByFile DEF TypeOK, OwnedTokens
  <2>3. Handover(Holding(remember, rememberFile), Holding(remember', rememberFile'))
    <3>1. PICK n \in {copy[k].token, rememberFile[DirOf[k]], 0} :
                 rememberFile' = [rememberFile EXCEPT ![DirOf[k]] = n]
      BY <1>1, FileStep
    <3>2. /\ rememberFile'[DirOf[k]] \in {copy[k].token, rememberFile[DirOf[k]], 0}
          /\ \A d \in Dirs : d # DirOf[k] => rememberFile'[d] = rememberFile[d]
      BY <1>1, <3>1 DEF TypeOK
    <3> QED
      BY <1>1, <2>1, <3>2, HandoverByFile DEF TypeOK, OwnedTokens
  <2> QED
    BY <2>2, <2>3 DEF Valid, Resumable, Holding
<1> QED
  BY <1>2, <1>3

\* An account's session is valid in at most one installation, and the old one is
\* invalid before the new one is valid: SessionControl implements ExclusiveHolder.
THEOREM SessionRefines == Spec => SessionIsExclusive
<1>1. Init => ValidSession!Init
  BY DEF Init, ValidSession!Init, Valid, Holding
<1>2. Inv /\ [Next]_vars => [ValidSession!Next]_Valid
  <2>1. ASSUME Inv, NEW k \in Copies, CopyNext(k) PROVE ValidSession!Next
    BY <2>1, HandoverSteps DEF Handover, ValidSession!Next, ValidSession!Lose, ValidSession!Take
  <2>2. UNCHANGED vars => Valid' = Valid
    BY DEF vars, accounts, files, Valid, Holding
  <2> QED
    BY <2>1, <2>2 DEF Next
<1> QED
  BY <1>1, <1>2, Invariance, PTL DEF Spec, SessionIsExclusive, ValidSession!Spec

\* The same for signing in without a password.
THEOREM AutoLoginRefines == Spec => AutoLoginIsExclusive
<1>1. Init => AutoLogin!Init
  BY DEF Init, AutoLogin!Init, Resumable, Holding
<1>2. Inv /\ [Next]_vars => [AutoLogin!Next]_Resumable
  <2>1. ASSUME Inv, NEW k \in Copies, CopyNext(k) PROVE AutoLogin!Next
    BY <2>1, HandoverSteps DEF Handover, AutoLogin!Next, AutoLogin!Lose, AutoLogin!Take
  <2>2. UNCHANGED vars => Resumable' = Resumable
    BY DEF vars, accounts, files, Resumable, Holding
  <2> QED
    BY <2>1, <2>2 DEF Next
<1> QED
  BY <1>1, <1>2, Invariance, PTL DEF Spec, AutoLoginIsExclusive, AutoLogin!Spec
=============================================================================
