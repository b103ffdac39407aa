--------------------------- MODULE TaskChat_proofs ---------------------------
(***************************************************************************)
(* Proofs about TaskChat, for any number of users, programs, threads,      *)
(* messages and clicks, and any length of a page: types, who sees what,    *)
(* one thread for each creator and recipient, and a page without holes.    *)
(***************************************************************************)
EXTENDS TaskChat, FiniteSetTheorems, WellFoundedInduction, TLAPS

-----------------------------------------------------------------------------
(* The inductive invariants.                                               *)

\* What an operation o still needs: a message to insert, one of the two a reply may have,
\* or the thread whose creation goes on.
Prepared(o) ==
    /\ o.at \in {"check", "insert"} => o.left \in 1 .. 2
    /\ o.at \in {"first", "notice"} => o.thread \in Threads

TypeInv == TypeOK /\ \A c \in Clients : Prepared(op[c])

\* The threads that were ever created by u or for u.
Mine(u) == {t \in 1 .. nextThread - 1 : u \in {parties[t].by, parties[t].to}}

\* Rows have the numbers that the serials have given out.
Serials == alive \subseteq 1 .. nextThread - 1 /\ stored \subseteq 1 .. nextMessage - 1

\* What the widget of c shows, decrypts and remembers has such numbers too.
Remembers(c) ==
    /\ view[c].shown \cup view[c].batch \subseteq 1 .. nextMessage - 1
    /\ view[c].last < nextMessage
    /\ view[c].last = 0 => view[c].oldest = 0
    /\ ~view[c].loading => view[c].batch = {}

\* What the widget and the list of c hold is about threads of c.
SeesOwn(c) ==
    /\ view[c].thread \in Mine(c) \cup {0}
    /\ \A m \in view[c].shown \cup view[c].batch : threadOf[m] \in Mine(c)
    /\ list[c] \subseteq Mine(c)

\* So is an operation of c.  Who is to be told of a new thread is its recipient, and a
\* thread is created only when there is none from c to that peer.
ActsOnOwn(c) ==
    /\ op[c].thread \in Mine(c) \cup {0}
    /\ op[c].listed \subseteq Mine(c)
    /\ op[c].at \in {"first", "notice"} =>
           op[c].thread \in Mine(c) /\ parties[op[c].thread].to = op[c].peer
    /\ op[c].at = "create" => \A t \in alive : parties[t] # [by |-> c, to |-> op[c].peer]

Told == \A u \in Users : notices[u] \subseteq Mine(u)

OwnInv ==
    /\ Serials /\ Told /\ OneThreadPerCreator
    /\ \A c \in Clients : Remembers(c) /\ SeesOwn(c) /\ ActsOnOwn(c)

\* The messages that u has not hidden.
Seen(u) == {m \in stored : <<m, u>> \notin hidden}

\* On a screen v, of the messages S with the threads T: between the ids the widget
\* remembers every message of its thread is drawn, or other threads are on the screen.
NoHoleOnScreen(v, S, T) ==
    \/ v.loading /\ v.full
    \/ v.oldest = 0
    \/ \E m \in v.shown \cup v.batch : T[m] # v.thread
    \/ \A m \in S : T[m] = v.thread => m \in v.shown \/ m < v.oldest \/ m > v.last

\* An incremental refresh holds all that follows the last id, up to its own last one.
NoHoleInRefresh(v, S, T) ==
    v.loading /\ ~v.full =>
        \/ v.oldest = 0
        \/ \A m \in S : T[m] = v.thread => m <= v.last \/ m \in v.batch \/ m > Largest(v.batch)

\* A full reload holds everything between its ends of the threads it has rows of.
NoHoleInReload(v, S, T) ==
    v.loading /\ v.full =>
        \A k \in v.batch : \A m \in S :
            T[m] = T[k] => m \in v.batch \/ m < Smallest(v.batch) \/ m > Largest(v.batch)

Whole(v, S, T) == NoHoleOnScreen(v, S, T) /\ NoHoleInRefresh(v, S, T) /\ NoHoleInReload(v, S, T)

GapInv == \A c \in Clients : Whole(view[c], Seen(c), threadOf)

-----------------------------------------------------------------------------
(* The operators on ids.                                                   *)

\* A finite set of integers that is not empty has a smallest and a largest member: of the
\* parts of it that lie below, or above, one of its members, one has no smaller one in it.
LEMMA HasEnds ==
    ASSUME NEW S \in SUBSET Int, S # {}, IsFiniteSet(S)
    PROVE  /\ \E m \in S : \A n \in S : m <= n
           /\ \E m \in S : \A n \in S : n <= m
<1> DEFINE Below(m) == {n \in S : n <= m}
           Above(m) == {n \in S : n >= m}
           R == StrictSubsetOrdering(S)
<1>1. IsWellFoundedOn(R, FiniteSubsetsOf(S))
  BY FS_StrictSubsetOrderingWellFounded
<1>2. \A T : T \subseteq S => T \in FiniteSubsetsOf(S)
  BY FS_Subset DEF FiniteSubsetsOf
<1>3. \A T, U : T \subseteq U /\ U \subseteq S /\ T # U => <<T, U>> \in R
  BY DEF StrictSubsetOrdering
<1> HIDE DEF R
<1>4. \E m \in S : \A n \in S : m <= n
  <2> DEFINE D == {Below(m) : m \in S}
  <2>0. \A m \in S : Below(m) \in FiniteSubsetsOf(S)
    BY <1>2
  <2>1. D \subseteq FiniteSubsetsOf(S) /\ D # {}
    BY <2>0
  <2>2. PICK d \in D : \A e \in D : <<e, d>> \notin R
    BY <1>1, <2>1, WFMin
  <2>3. PICK m \in S : d = Below(m)
    OBVIOUS
  <2>4. ASSUME NEW n \in S, n < m
        PROVE  Below(n) \subseteq Below(m) /\ m \notin Below(n) /\ m \in Below(m)
    <3>1. (\A i \in S : i <= n => i <= m) /\ ~(m <= n) /\ m <= m
      BY <2>4
    <3> HIDE <2>4
    <3> QED
      BY <3>1, Zenon
  <2>5. \A n \in S : n < m => <<Below(n), Below(m)>> \in R
    BY <1>3, <2>4
  <2>6. \A n \in S : <<Below(n), Below(m)>> \notin R
    BY <2>2, <2>3
  <2>7. \A n \in S : ~(n < m)
    BY <2>5, <2>6, Zenon
  <2> QED
    BY <2>7
<1>5. \E m \in S : \A n \in S : n <= m
  <2> DEFINE D == {Above(m) : m \in S}
  <2>0. \A m \in S : Above(m) \in FiniteSubsetsOf(S)
    BY <1>2
  <2>1. D \subseteq FiniteSubsetsOf(S) /\ D # {}
    BY <2>0
  <2>2. PICK d \in D : \A e \in D : <<e, d>> \notin R
    BY <1>1, <2>1, WFMin
  <2>3. PICK m \in S : d = Above(m)
    OBVIOUS
  <2>4. ASSUME NEW n \in S, n > m
        PROVE  Above(n) \subseteq Above(m) /\ m \notin Above(n) /\ m \in Above(m)
    <3>1. (\A i \in S : i >= n => i >= m) /\ ~(m >= n) /\ m >= m
      BY <2>4
    <3> HIDE <2>4
    <3> QED
      BY <3>1, Zenon
  <2>5. \A n \in S : n > m => <<Above(n), Above(m)>> \in R
    BY <1>3, <2>4
  <2>6. \A n \in S : <<Above(n), Above(m)>> \notin R
    BY <2>2, <2>3
  <2>7. \A n \in S : ~(n > m)
    BY <2>5, <2>6, Zenon
  <2> QED
    BY <2>7
<1> QED
  BY <1>4, <1>5

\* Largest and Smallest of ids that were given out: 0 for none, or the id they name.
LEMMA Ends ==
    ASSUME NEW S \in SUBSET Messages
    PROVE  /\ Largest(S) \in Messages \cup {0} /\ Smallest(S) \in Messages \cup {0}
           /\ S = {} <=> Largest(S) = 0
           /\ S = {} <=> Smallest(S) = 0
           /\ S # {} => Largest(S) \in S /\ Smallest(S) \in S
           /\ \A m \in S : Smallest(S) <= m /\ m <= Largest(S)
<1>0. Messages \subseteq Nat /\ \A m \in Messages : m <= MaxMessages /\ m # 0
  BY ChatBounds DEF Messages
<1>1. CASE S = {}
  BY <1>1 DEF Largest, Smallest
<1>2. CASE S # {}
  <2>1. IsFiniteSet(S)
    <3>1. IsFiniteSet(Messages)
      BY FS_Interval, ChatBounds DEF Messages
    <3> QED
      BY <3>1, FS_Subset
  <2>2. /\ \E m \in S : \A n \in S : m <= n
        /\ \E m \in S : \A n \in S : n <= m
    BY <1>0, <1>2, <2>1, HasEnds
  <2>3. Smallest(S) \in S /\ \A n \in S : Smallest(S) <= n
    BY <1>2, <2>2 DEF Smallest
  <2>4. Largest(S) \in S /\ \A n \in S : n <= Largest(S)
    BY <1>2, <2>2 DEF Largest
  <2> QED
    BY <1>0, <1>2, <2>3, <2>4
<1> QED
  BY <1>1, <1>2

\* A page has the newest rows: what is newer than a row of it is in it.
LEMMA PageIsTop ==
    ASSUME NEW S \in SUBSET Messages, NEW k \in Newest(S), NEW m \in S, k < m
    PROVE  m \in Newest(S)
<1> DEFINE Above(n) == {i \in S : i > n}
<1>1. IsFiniteSet(Messages)
  BY FS_Interval, ChatBounds DEF Messages
<1>2. IsFiniteSet(Above(k))
  BY <1>1, FS_Subset
<1>3. Above(m) \in SUBSET Above(k)
  <2>1. S \subseteq Nat /\ k \in S
    BY ChatBounds DEF Newest, Messages
  <2>2. \A i \in S : i > m => i > k
    BY <2>1
  <2> QED
    BY <2>2
<1>4. Cardinality(Above(m)) <= Cardinality(Above(k))
  BY <1>2, <1>3, FS_Subset
<1>5. Cardinality(Above(k)) \in Nat /\ Cardinality(Above(m)) \in Nat
  BY <1>2, <1>3, FS_Subset, FS_CardinalityType
<1>6. Cardinality(Above(k)) < PageSize
  BY DEF Newest
<1>7. Cardinality(Above(m)) < PageSize
  BY <1>4, <1>5, <1>6, ChatBounds
<1> QED
  BY <1>7 DEF Newest

-----------------------------------------------------------------------------
(* Types.                                                                  *)

\* The ids of a widget are natural numbers.
LEMMA ViewFields ==
    ASSUME NEW v \in View
    PROVE  /\ v.last \in Nat /\ v.oldest \in Nat
           /\ v.shown \in SUBSET Messages /\ v.batch \in SUBSET Messages
<1>1. v.last \in Messages \cup {0} /\ v.oldest \in Messages \cup {0}
  BY DEF View
<1>2. Messages \cup {0} \subseteq Nat
  BY ChatBounds DEF Messages
<1>3. v.last \in Nat /\ v.oldest \in Nat
  BY <1>1, <1>2
<1> QED
  BY <1>3 DEF View

\* The operations of the widget yield a widget.
LEMMA ViewTypes ==
    ASSUME NEW v \in View
    PROVE  /\ \A found \in SUBSET Messages : \A full \in BOOLEAN : RefreshMessages(v, found, full) \in View
           /\ \A t \in Threads \cup {0} : SetThreadId(v, t) \in View
           /\ Applied(v) \in View
<1>1. ASSUME NEW found \in SUBSET Messages, NEW full \in BOOLEAN
      PROVE  RefreshMessages(v, found, full) \in View
  <2>1. Newest(found) \in SUBSET Messages /\ {m \in found : m > v.last} \in SUBSET Messages
    BY DEF Newest
  <2> QED
    BY <2>1 DEF RefreshMessages, View
<1>2. ASSUME NEW t \in Threads \cup {0}
      PROVE  SetThreadId(v, t) \in View
  BY DEF SetThreadId, View
<1>3. Applied(v) \in View
  <2>1. v.batch \in SUBSET Messages /\ v.batch \cup ({v.last} \ {0}) \in SUBSET Messages
    BY DEF View
  <2>2. /\ Smallest(v.batch) \in Messages \cup {0} /\ Largest(v.batch) \in Messages \cup {0}
        /\ Largest(v.batch \cup ({v.last} \ {0})) \in Messages \cup {0}
    BY <2>1, Ends
  <2> QED
    BY <2>2 DEF Applied, View
<1> QED
  BY <1>1, <1>2, <1>3

\* Rows of a thread are messages.
LEMMA RowTypes ==
    ASSUME TypeOK
    PROVE  \A u, t : Rows(u, t) \in SUBSET Messages
BY DEF TypeOK, Rows

\* Showing a chat or the list, the badge and a notification keep the types.
LEMMA MenuTypes ==
    ASSUME TypeOK, NEW c \in Clients
    PROVE  /\ \A t \in Threads \cup {0} :
                  ShowChat(c, t) => view' \in [Clients -> View] /\ list' \in [Clients -> SUBSET Threads]
           /\ \A live \in SUBSET Threads : \A gone :
                  ShowList(c, live, gone) => list' \in [Clients -> SUBSET Threads]
           /\ CountUnread(c) => badge' \in [Clients -> BOOLEAN]
           /\ \A u : \A t \in Threads :
                  Notify(u, t) => notices' \in [Users -> SUBSET Threads] /\ unread' \in [Users -> SUBSET Threads]
<1>1. ASSUME NEW t \in Threads \cup {0}, ShowChat(c, t)
      PROVE  view' \in [Clients -> View] /\ list' \in [Clients -> SUBSET Threads]
  <2>1. SetThreadId(view[c], t) \in View
    BY ViewTypes DEF TypeOK
  <2> QED
    BY <1>1, <2>1 DEF ShowChat, TypeOK
<1>2. ASSUME NEW live \in SUBSET Threads, NEW gone, ShowList(c, live, gone)
      PROVE  list' \in [Clients -> SUBSET Threads]
  <2>1. Reloaded(c, live, gone) \in SUBSET Threads
    BY DEF Reloaded, ThreadsOf
  <2> QED
    BY <1>2, <2>1 DEF ShowList, TypeOK
<1>3. CountUnread(c) => badge' \in [Clients -> BOOLEAN]
  <2>1. (unread'[c] # {}) \in BOOLEAN
    OBVIOUS
  <2> QED
    BY <2>1 DEF CountUnread, TypeOK
<1>4. ASSUME NEW u, NEW t \in Threads, Notify(u, t)
      PROVE  notices' \in [Users -> SUBSET Threads] /\ unread' \in [Users -> SUBSET Threads]
  BY <1>4 DEF Notify, TypeOK
<1> QED
  BY <1>1, <1>2, <1>3, <1>4

\* No operation, and its fields.
LEMMA IdleTypes == Idle \in Op /\ Idle.at = "idle" /\ Idle.thread = 0 /\ Idle.listed = {}
<1>1. Idle.peer \in Users \cup {Nobody} /\ Idle.left \in 0 .. 2 /\ Idle.listed \in SUBSET Threads
  BY DEF Idle
<1> QED
  BY <1>1 DEF Idle, Op

\* A new view of c's widget, or a new operation of c, keeps the types of all.
LEMMA OneView ==
    ASSUME TypeOK, NEW c \in Clients, NEW w \in View, view' = [view EXCEPT ![c] = w]
    PROVE  view' \in [Clients -> View]
BY DEF TypeOK

\* Likewise for an operation.
LEMMA OneOp ==
    ASSUME TypeInv, NEW c \in Clients, NEW o \in Op, op' = [op EXCEPT ![c] = o],
           Prepared(o)
    PROVE  op' \in [Clients -> Op] /\ (\A d \in Clients : Prepared(op'[d]))
<1>1. op \in [Clients -> Op]
  BY DEF TypeInv, TypeOK
<1>2. \A d \in Clients : op'[d] = IF d = c THEN o ELSE op[d]
  BY <1>1
<1> QED
  BY <1>1, <1>2 DEF TypeInv

\* A step of an operation that leaves the tables and the widgets as they are.
LEMMA TypesUnlessOp ==
    ASSUME TypeInv, UNCHANGED <<rows, hides, menu, view>>, clicks' \in 0 .. MaxClicks,
           op' \in [Clients -> Op] /\ (\A d \in Clients : Prepared(op'[d]))
    PROVE  TypeInv'
BY DEF TypeInv, TypeOK, rows, hides, menu

\* A step of a widget that leaves the tables and the operations as they are.
LEMMA TypesUnlessView ==
    ASSUME TypeInv, UNCHANGED <<rows, hides, op>>, clicks' \in 0 .. MaxClicks,
           view' \in [Clients -> View], list' \in [Clients -> SUBSET Threads],
           notices' \in [Users -> SUBSET Threads], unread' \in [Users -> SUBSET Threads],
           badge' \in [Clients -> BOOLEAN]
    PROVE  TypeInv'
BY DEF TypeInv, TypeOK, rows, hides

\* A click is counted.
LEMMA ClickTypes ==
    ASSUME TypeOK, NEW c \in Clients, Click(c)
    PROVE  clicks' \in 0 .. MaxClicks
BY ChatBounds DEF TypeOK, Click

\* The steps of the widgets and of the list keep the types.
LEMMA WidgetTypes ==
    ASSUME TypeInv, NEW c \in Clients,
           \/ \E t \in Threads : Open(c, t)
           \/ Opened(c) \/ Poll(c) \/ Apply(c) \/ LoadOlder(c) \/ Back(c) \/ UpdateNotifBadge(c)
    PROVE  TypeInv'
<1>0. TypeOK /\ view[c] \in View
  BY DEF TypeInv, TypeOK
<1>1. ASSUME NEW t \in Threads, Open(c, t)
      PROVE  TypeInv'
  <2>1. view' \in [Clients -> View] /\ list' \in [Clients -> SUBSET Threads]
    BY <1>0, <1>1, MenuTypes DEF Open
  <2>2. clicks' \in 0 .. MaxClicks
    BY <1>0, <1>1, ClickTypes DEF Open
  <2> QED
    BY <1>0, <1>1, <2>1, <2>2, TypesUnlessView DEF Open, TypeOK
<1>2. ASSUME Opened(c)
      PROVE  TypeInv'
  <2> DEFINE v == [view[c] EXCEPT !.opening = "no"]
  <2>1. v \in View /\ (view[c].opening = "other") \in BOOLEAN
    BY <1>0 DEF View
  <2>2. RefreshMessages(v, Rows(c, v.thread), view[c].opening = "other") \in View
    BY <1>0, <2>1, ViewTypes, RowTypes
  <2>3. view' \in [Clients -> View]
    BY <1>0, <1>2, <2>2, OneView DEF Opened
  <2>4. unread' \in [Users -> SUBSET Threads] /\ badge' \in [Clients -> BOOLEAN]
    BY <1>0, <1>2, MenuTypes DEF Opened, TypeOK
  <2> QED
    BY <1>0, <1>2, <2>3, <2>4, TypesUnlessView DEF Opened, TypeOK
<1>3. ASSUME Poll(c)
      PROVE  TypeInv'
  <2>1. RefreshMessages(view[c], Rows(c, view[c].thread), FALSE) \in View
    BY <1>0, ViewTypes, RowTypes
  <2>2. view' \in [Clients -> View]
    BY <1>0, <1>3, <2>1, OneView DEF Poll
  <2> QED
    BY <1>0, <1>3, <2>2, TypesUnlessView DEF Poll, TypeOK, menu
<1>4. ASSUME Apply(c)
      PROVE  TypeInv'
  <2>1. view' \in [Clients -> View]
    BY <1>0, <1>4, ViewTypes, OneView DEF Apply
  <2> QED
    BY <1>0, <1>4, <2>1, TypesUnlessView DEF Apply, TypeOK, menu
<1>5. ASSUME LoadOlder(c)
      PROVE  TypeInv'
  <2> DEFINE page == Newest({m \in Rows(c, view[c].thread) : m < view[c].oldest})
             w == [view[c] EXCEPT !.shown = @ \cup page, !.oldest = Smallest(page)]
  <2>1. page \in SUBSET Messages
    BY <1>0, RowTypes DEF Newest
  <2>2. Smallest(page) \in Messages \cup {0}
    BY <2>1, Ends
  <2>3. view' = [view EXCEPT ![c] = w]
    BY <1>0, <1>5 DEF LoadOlder, TypeOK
  <2> HIDE DEF page
  <2>4. w \in View
    BY <1>0, <2>1, <2>2 DEF View
  <2>5. view' \in [Clients -> View]
    BY <1>0, <2>3, <2>4, OneView
  <2>6. clicks' \in 0 .. MaxClicks
    BY <1>0, <1>5, ClickTypes DEF LoadOlder
  <2> QED
    BY <1>0, <1>5, <2>5, <2>6, TypesUnlessView DEF LoadOlder, TypeOK, menu
<1>6. ASSUME Back(c)
      PROVE  TypeInv'
  <2>1. view' \in [Clients -> View]
    BY <1>0, <1>6 DEF Back, View, TypeOK
  <2>2. list' \in [Clients -> SUBSET Threads]
    BY <1>0, <1>6, MenuTypes DEF Back, TypeOK
  <2>3. clicks' \in 0 .. MaxClicks
    BY <1>0, <1>6, ClickTypes DEF Back
  <2> QED
    BY <1>0, <1>6, <2>1, <2>2, <2>3, TypesUnlessView DEF Back, TypeOK
<1>7. ASSUME UpdateNotifBadge(c)
      PROVE  TypeInv'
  <2>1. list' \in [Clients -> SUBSET Threads] /\ badge' \in [Clients -> BOOLEAN]
    BY <1>0, <1>7, MenuTypes DEF UpdateNotifBadge, TypeOK
  <2> QED
    BY <1>0, <1>7, <2>1, TypesUnlessView DEF UpdateNotifBadge, TypeOK
<1> QED
  BY <1>1, <1>2, <1>3, <1>4, <1>5, <1>6, <1>7

\* What the user deletes and hides, and the steps that begin an operation, keep them.
LEMMA BeginTypes ==
    ASSUME TypeInv, NEW c \in Clients,
           \/ \E S \in SUBSET view[c].shown : HideMessages(c, S)
           \/ \E p \in Users : EnsureThread(c, p)
           \/ \E n \in 1 .. 2 : Send(c, n)
           \/ DeleteThread(c) \/ HideThread(c) \/ OpenPanel(c)
    PROVE  TypeInv'
<1>0. TypeOK /\ view[c] \in View /\ op[c] \in Op /\ c \in Users
  BY ChatUsers DEF TypeInv, TypeOK
<1>1. ASSUME NEW S \in SUBSET view[c].shown, HideMessages(c, S)
      PROVE  TypeInv'
  <2>1. RefreshMessages(view[c], Rows(c, view[c].thread) \ S, TRUE) \in View
    BY <1>0, ViewTypes, RowTypes
  <2>2. view' \in [Clients -> View]
    BY <1>0, <1>1, <2>1, OneView DEF HideMessages
  <2>3. hidden' \subseteq Messages \X Users
    BY <1>0, <1>1 DEF HideMessages, TypeOK, View
  <2>4. clicks' \in 0 .. MaxClicks
    BY <1>0, <1>1, ClickTypes DEF HideMessages
  <2> QED
    BY <1>1, <2>2, <2>3, <2>4 DEF HideMessages, TypeInv, TypeOK, rows, menu
<1>2. ASSUME NEW p \in Users, EnsureThread(c, p)
      PROVE  TypeInv'
  <2>1. clicks' \in 0 .. MaxClicks
    BY <1>0, <1>2, ClickTypes DEF EnsureThread
  <2>2. ASSUME NEW t \in Between(c, p), ShowChat(c, t), UNCHANGED op
        PROVE  TypeInv'
    <3>1. t \in Threads
      BY <1>0 DEF Between, TypeOK
    <3>2. view' \in [Clients -> View] /\ list' \in [Clients -> SUBSET Threads]
      BY <1>0, <2>2, <3>1, MenuTypes
    <3> QED
      BY <1>0, <1>2, <2>1, <2>2, <3>2, TypesUnlessView DEF EnsureThread, TypeOK
  <2>3. ASSUME op' = [op EXCEPT ![c] = [Idle EXCEPT !.at = "create", !.peer = p]], UNCHANGED <<view, list>>
        PROVE  TypeInv'
    <3> DEFINE o == [Idle EXCEPT !.at = "create", !.peer = p]
    <3>1. o \in Op /\ Prepared(o)
      BY IdleTypes DEF Prepared, Op
    <3>3. op' \in [Clients -> Op] /\ (\A d \in Clients : Prepared(op'[d]))
      BY <2>3, <3>1, OneOp
    <3> QED
      BY <1>2, <2>1, <2>3, <3>3, TypesUnlessOp DEF EnsureThread, menu
  <2> QED
    BY <1>2, <2>2, <2>3 DEF EnsureThread
<1>3. ASSUME NEW n \in 1 .. 2, Send(c, n)
      PROVE  TypeInv'
  <2> DEFINE o == [Idle EXCEPT !.at = "check", !.thread = view[c].thread, !.left = n]
  <2>0. view[c].thread \in Threads \cup {0} /\ n \in 0 .. 2
    BY <1>0 DEF View
  <2>1. o \in Op /\ Prepared(o)
    <3>1. o \in Op
      BY <2>0, IdleTypes DEF Op
    <3>2. o.at = "check" /\ o.left = n
      BY IdleTypes DEF Op
    <3> QED
      BY <3>1, <3>2 DEF Prepared
  <2>2. op' \in [Clients -> Op] /\ (\A d \in Clients : Prepared(op'[d]))
    BY <1>3, <2>1, OneOp DEF Send
  <2>3. clicks' \in 0 .. MaxClicks
    BY <1>0, <1>3, ClickTypes DEF Send
  <2> QED
    BY <1>3, <2>2, <2>3, TypesUnlessOp DEF Send
<1>4. ASSUME DeleteThread(c)
      PROVE  TypeInv'
  <2> DEFINE o == [Idle EXCEPT !.at = "wipe", !.thread = view[c].thread]
  <2>1. o \in Op /\ Prepared(o)
    BY <1>0, IdleTypes DEF Prepared, Op, View
  <2>2. op' \in [Clients -> Op] /\ (\A d \in Clients : Prepared(op'[d]))
    BY <1>4, <2>1, OneOp DEF DeleteThread
  <2>3. clicks' \in 0 .. MaxClicks
    BY <1>0, <1>4, ClickTypes DEF DeleteThread
  <2> QED
    BY <1>4, <2>2, <2>3, TypesUnlessOp DEF DeleteThread
<1>5. ASSUME HideThread(c)
      PROVE  TypeInv'
  <2>1. view' \in [Clients -> View]
    BY <1>0, <1>5 DEF HideThread, View, TypeOK
  <2>2. list' \in [Clients -> SUBSET Threads] /\ badge' \in [Clients -> BOOLEAN]
    BY <1>0, <1>5, MenuTypes DEF HideThread, TypeOK
  <2>3. clicks' \in 0 .. MaxClicks
    BY <1>0, <1>5, ClickTypes DEF HideThread
  <2>4. hiddenThreads' \subseteq Threads \X Users
    BY <1>0, <1>5 DEF HideThread, TypeOK, View
  <2> QED
    BY <1>5, <2>1, <2>2, <2>3, <2>4 DEF HideThread, TypeInv, TypeOK, rows
<1>6. ASSUME OpenPanel(c)
      PROVE  TypeInv'
  <2> DEFINE o == [op[c] EXCEPT !.at = "panel", !.listed = notices[c]]
  <2>1. o \in Op /\ Prepared(o)
    BY <1>0 DEF Prepared, Op, TypeOK
  <2>2. op' = [op EXCEPT ![c] = o]
    BY <1>0, <1>6 DEF OpenPanel, TypeOK
  <2>3. op' \in [Clients -> Op] /\ (\A d \in Clients : Prepared(op'[d]))
    BY <2>1, <2>2, OneOp
  <2>4. clicks' \in 0 .. MaxClicks
    BY <1>0, <1>6, ClickTypes DEF OpenPanel
  <2> QED
    BY <1>6, <2>3, <2>4, TypesUnlessOp DEF OpenPanel
<1> QED
  BY <1>1, <1>2, <1>3, <1>4, <1>5, <1>6

\* Storing a message keeps the types of the tables.
LEMMA StoreTypes ==
    ASSUME TypeOK, NEW t \in Threads \cup {0}, StoreMessage(t)
    PROVE  /\ threadOf' \in [Messages -> Threads \cup {0}] /\ stored' \subseteq Messages
           /\ nextMessage' \in 1 .. MaxMessages + 1
           /\ UNCHANGED <<parties, alive, nextThread>>
<1>1. nextMessage \in Messages
  BY DEF StoreMessage
<1>2. threadOf' \in [Messages -> Threads \cup {0}] /\ stored' \subseteq Messages
  BY <1>1 DEF StoreMessage, TypeOK
<1>3. nextMessage' \in 1 .. MaxMessages + 1
  BY <1>1, ChatBounds DEF StoreMessage, Messages
<1> QED
  BY <1>2, <1>3 DEF StoreMessage

\* The end of an operation keeps the types of the operations.
LEMMA EndTypes ==
    ASSUME TypeInv, NEW c \in Clients, op' = [op EXCEPT ![c] = Idle]
    PROVE  op' \in [Clients -> Op] /\ (\A d \in Clients : Prepared(op'[d]))
<1>1. Idle \in Op /\ Prepared(Idle)
  BY IdleTypes DEF Prepared
<1> QED
  BY <1>1, OneOp

\* The statements of createThread keep the types.
LEMMA CreateTypes ==
    ASSUME TypeInv, NEW c \in Clients,
           CreateThread(c) \/ FirstMessage(c) \/ UndoThread(c) \/ Notice(c)
    PROVE  TypeInv'
<1>0. TypeOK /\ op[c] \in Op /\ c \in Users
  BY ChatUsers DEF TypeInv, TypeOK
<1>1. ASSUME CreateThread(c)
      PROVE  TypeInv'
  <2>1. ASSUME nextThread \in Threads,
               parties' = [parties EXCEPT ![nextThread] = [by |-> c, to |-> op[c].peer]],
               alive' = alive \cup {nextThread}, nextThread' = nextThread + 1,
               op' = [op EXCEPT ![c].at = "first", ![c].thread = nextThread]
        PROVE  TypeInv'
    <3> DEFINE o == [op[c] EXCEPT !.at = "first", !.thread = nextThread]
    <3>1. o \in Op /\ Prepared(o)
      BY <1>0, <2>1 DEF Prepared, Op
    <3>2. op' = [op EXCEPT ![c] = o]
      BY <1>0, <2>1 DEF TypeOK
    <3>3. op' \in [Clients -> Op] /\ (\A d \in Clients : Prepared(op'[d]))
      BY <3>1, <3>2, OneOp
    <3>4. [by |-> c, to |-> op[c].peer] \in Party
      BY <1>0 DEF Party, Op
    <3>5. parties' \in [Threads -> Party] /\ alive' \subseteq Threads
      BY <1>0, <2>1, <3>4 DEF TypeOK
    <3>6. nextThread' \in 1 .. MaxThreads + 1
      BY <2>1, ChatBounds DEF Threads
    <3>7. UNCHANGED <<threadOf, stored, nextMessage, hides, menu, view, clicks>>
      BY <1>1 DEF CreateThread
    <3> QED
      BY <1>0, <3>3, <3>5, <3>6, <3>7 DEF TypeInv, TypeOK, hides, menu
  <2>2. ASSUME op' = [op EXCEPT ![c] = Idle], UNCHANGED <<parties, alive, nextThread>>
        PROVE  TypeInv'
    BY <1>0, <1>1, <2>2, EndTypes, TypesUnlessOp DEF CreateThread, rows, TypeOK
  <2> QED
    BY <1>1, <2>1, <2>2 DEF CreateThread
<1>2. ASSUME FirstMessage(c)
      PROVE  TypeInv'
  <2>1. ASSUME StoreMessage(op[c].thread), op' = [op EXCEPT ![c].at = "notice"], ShowChat(c, op[c].thread)
        PROVE  TypeInv'
    <3> DEFINE o == [op[c] EXCEPT !.at = "notice"]
    <3>4. op[c].thread \in Threads /\ op[c].thread \in Threads \cup {0}
      BY <1>2 DEF TypeInv, Prepared, FirstMessage
    <3>1. o \in Op /\ Prepared(o)
      BY <1>0, <3>4 DEF Prepared, Op
    <3>2. op' = [op EXCEPT ![c] = o]
      BY <1>0, <2>1 DEF TypeOK
    <3>3. op' \in [Clients -> Op] /\ (\A d \in Clients : Prepared(op'[d]))
      BY <3>1, <3>2, OneOp
    <3>5. view' \in [Clients -> View] /\ list' \in [Clients -> SUBSET Threads]
      BY <1>0, <2>1, <3>4, MenuTypes
    <3>6. /\ threadOf' \in [Messages -> Threads \cup {0}] /\ stored' \subseteq Messages
          /\ nextMessage' \in 1 .. MaxMessages + 1 /\ UNCHANGED <<parties, alive, nextThread>>
      BY <1>0, <2>1, <3>4, StoreTypes
    <3>7. UNCHANGED <<hides, notices, unread, badge, clicks>>
      BY <1>2 DEF FirstMessage
    <3> QED
      BY <1>0, <3>3, <3>5, <3>6, <3>7 DEF TypeInv, TypeOK, hides
  <2>2. ASSUME op' = [op EXCEPT ![c].at = "undo"], UNCHANGED <<rows, view, list>>
        PROVE  TypeInv'
    <3> DEFINE o == [op[c] EXCEPT !.at = "undo"]
    <3>1. o \in Op /\ Prepared(o)
      BY <1>0 DEF Prepared, Op
    <3>2. op' = [op EXCEPT ![c] = o]
      BY <1>0, <2>2 DEF TypeOK
    <3>3. op' \in [Clients -> Op] /\ (\A d \in Clients : Prepared(op'[d]))
      BY <3>1, <3>2, OneOp
    <3>4. UNCHANGED <<hides, notices, unread, badge, clicks>>
      BY <1>2 DEF FirstMessage
    <3> QED
      BY <1>0, <2>2, <3>3, <3>4, TypesUnlessOp DEF menu, TypeOK
  <2> QED
    BY <1>2, <2>1, <2>2 DEF FirstMessage
<1>3. ASSUME UndoThread(c)
      PROVE  TypeInv'
  <2>1. op' \in [Clients -> Op] /\ (\A d \in Clients : Prepared(op'[d]))
    BY <1>3, EndTypes DEF UndoThread
  <2>2. alive' \subseteq Threads
    BY <1>0, <1>3 DEF UndoThread, TypeOK
  <2> QED
    BY <1>3, <2>1, <2>2 DEF UndoThread, TypeInv, TypeOK, hides, menu
<1>4. ASSUME Notice(c)
      PROVE  TypeInv'
  <2>1. op' \in [Clients -> Op] /\ (\A d \in Clients : Prepared(op'[d])) /\ badge' \in [Clients -> BOOLEAN]
    BY <1>0, <1>4, EndTypes, MenuTypes DEF Notice
  <2>2. notices' \in [Users -> SUBSET Threads] /\ unread' \in [Users -> SUBSET Threads]
    <3>2. op[c].thread \in Threads
      BY <1>4 DEF TypeInv, Prepared, Notice
    <3> QED
      BY <1>0, <1>4, <3>2, MenuTypes DEF Notice
  <2> QED
    BY <1>4, <2>1, <2>2 DEF Notice, TypeInv, TypeOK, rows, hides
<1> QED
  BY <1>1, <1>2, <1>3, <1>4

\* The statements of sendReply and of the deletion of a thread keep the types.
LEMMA SendTypes ==
    ASSUME TypeInv, NEW c \in Clients,
           \/ CheckThread(c) \/ InsertMessage(c) \/ NotifyPeer(c)
           \/ WipeMessages(c) \/ DropThread(c)
    PROVE  TypeInv'
<1>0. TypeOK /\ op[c] \in Op /\ view[c] \in View /\ Prepared(op[c])
  BY DEF TypeInv, TypeOK
<1>1. ASSUME CheckThread(c)
      PROVE  TypeInv'
  <2> DEFINE o == IF op[c].thread \in alive THEN [op[c] EXCEPT !.at = "insert"] ELSE Idle
  <2>1. o \in Op /\ Prepared(o)
    BY <1>0, <1>1, IdleTypes DEF CheckThread, Prepared, Op
  <2>2. op' = [op EXCEPT ![c] = o]
    BY <1>0, <1>1 DEF CheckThread, TypeOK
  <2>3. op' \in [Clients -> Op] /\ (\A d \in Clients : Prepared(op'[d]))
    BY <2>1, <2>2, OneOp
  <2> QED
    BY <1>0, <1>1, <2>3, TypesUnlessOp DEF CheckThread, TypeOK
<1>2. ASSUME InsertMessage(c)
      PROVE  TypeInv'
  <2>1. UNCHANGED <<hides, menu, view, clicks>>
    BY <1>2 DEF InsertMessage
  <2>2. ASSUME StoreMessage(op[c].thread),
               op' = [op EXCEPT ![c].left = @ - 1, ![c].at = IF op[c].left > 1 THEN "check" ELSE "notify"]
        PROVE  TypeInv'
    <3> DEFINE o == [op[c] EXCEPT !.left = @ - 1, !.at = IF op[c].left > 1 THEN "check" ELSE "notify"]
    <3>1. op[c].left \in 1 .. 2 /\ op[c].left - 1 \in 0 .. 2
      BY <1>0, <1>2 DEF InsertMessage, Prepared
    <3>2. o \in Op
      BY <1>0, <3>1 DEF Op
    <3>3. o.left = op[c].left - 1 /\ o.at = IF op[c].left > 1 THEN "check" ELSE "notify"
      BY <1>0 DEF Op
    <3>4. Prepared(o)
      BY <3>1, <3>3 DEF Prepared
    <3>5. op' = [op EXCEPT ![c] = o]
      BY <1>0, <2>2 DEF TypeOK
    <3>6. op' \in [Clients -> Op] /\ (\A d \in Clients : Prepared(op'[d]))
      BY <3>2, <3>4, <3>5, OneOp
    <3>7. op[c].thread \in Threads \cup {0}
      BY <1>0 DEF Op
    <3>8. /\ threadOf' \in [Messages -> Threads \cup {0}] /\ stored' \subseteq Messages
          /\ nextMessage' \in 1 .. MaxMessages + 1 /\ UNCHANGED <<parties, alive, nextThread>>
      BY <1>0, <2>2, <3>7, StoreTypes
    <3> QED
      BY <1>0, <2>1, <3>6, <3>8 DEF TypeInv, TypeOK, hides, menu
  <2>3. ASSUME op' = [op EXCEPT ![c] = Idle], UNCHANGED rows
        PROVE  TypeInv'
    BY <1>0, <2>1, <2>3, EndTypes, TypesUnlessOp DEF TypeOK
  <2> QED
    BY <1>2, <2>2, <2>3 DEF InsertMessage
<1>3. ASSUME NotifyPeer(c)
      PROVE  TypeInv'
  <2>1. op' \in [Clients -> Op] /\ (\A d \in Clients : Prepared(op'[d]))
    BY <1>3, EndTypes DEF NotifyPeer
  <2>2. badge' \in [Clients -> BOOLEAN]
    BY <1>0, <1>3, MenuTypes DEF NotifyPeer
  <2>3. notices' \in [Users -> SUBSET Threads] /\ unread' \in [Users -> SUBSET Threads]
    <3>1. CASE op[c].thread \in alive
      <4>1. op[c].thread \in Threads
        BY <1>0, <3>1 DEF TypeOK
      <4> QED
        BY <1>0, <1>3, <3>1, <4>1, MenuTypes DEF NotifyPeer
    <3>2. CASE op[c].thread \notin alive
      BY <1>0, <1>3, <3>2 DEF NotifyPeer, TypeOK
    <3> QED
      BY <3>1, <3>2
  <2>4. view' \in [Clients -> View]
    <3> DEFINE v == [view[c] EXCEPT !.bottom = TRUE]
    <3>1. v \in View
      BY <1>0 DEF View
    <3>2. v.thread = view[c].thread
      BY <1>0 DEF View
    <3>3. RefreshMessages(v, Rows(c, view[c].thread), FALSE) \in View
      BY <1>0, <3>1, ViewTypes, RowTypes
    <3> QED
      BY <1>0, <1>3, <3>3, OneView DEF NotifyPeer
  <2> QED
    BY <1>3, <2>1, <2>2, <2>3, <2>4 DEF NotifyPeer, TypeInv, TypeOK, rows, hides
<1>4. ASSUME WipeMessages(c)
      PROVE  TypeInv'
  <2>1. UNCHANGED <<parties, alive, nextThread, threadOf, nextMessage, hides, menu, view, clicks>>
    BY <1>4 DEF WipeMessages
  <2>2. op' \in [Clients -> Op] /\ (\A d \in Clients : Prepared(op'[d]))
    <3> DEFINE o == [op[c] EXCEPT !.at = "drop"]
    <3>1. o \in Op /\ Prepared(o)
      BY <1>0 DEF Prepared, Op
    <3>2. CASE op' = [op EXCEPT ![c].at = "drop"]
      <4>1. op' = [op EXCEPT ![c] = o]
        BY <1>0, <3>2 DEF TypeOK
      <4> QED
        BY <3>1, <4>1, OneOp
    <3>3. CASE op' = [op EXCEPT ![c] = Idle]
      BY <3>3, EndTypes
    <3> QED
      BY <1>4, <3>2, <3>3 DEF WipeMessages
  <2>3. stored' \subseteq Messages
    BY <1>0, <1>4 DEF WipeMessages, TypeOK
  <2> QED
    BY <2>1, <2>2, <2>3 DEF TypeInv, TypeOK, hides, menu
<1>5. ASSUME DropThread(c)
      PROVE  TypeInv'
  <2>1. op' \in [Clients -> Op] /\ (\A d \in Clients : Prepared(op'[d]))
    BY <1>5, EndTypes DEF DropThread
  <2>2. alive' \subseteq Threads
    BY <1>0, <1>5 DEF DropThread, TypeOK
  <2>3. view' \in [Clients -> View] /\ badge' \in [Clients -> BOOLEAN] /\ list' \in [Clients -> SUBSET Threads]
    <3>1. CASE UNCHANGED <<alive, view, badge, list>>
      BY <1>0, <3>1 DEF TypeOK
    <3>2. CASE /\ view' = [view EXCEPT ![c].visible = FALSE] /\ CountUnread(c)
               /\ ShowList(c, alive', hiddenThreads)
      <4>1. view' \in [Clients -> View]
        BY <1>0, <3>2 DEF View, TypeOK
      <4> QED
        BY <1>0, <2>2, <3>2, <4>1, MenuTypes
    <3> QED
      BY <1>5, <3>1, <3>2 DEF DropThread
  <2> QED
    BY <1>5, <2>1, <2>2, <2>3 DEF DropThread, TypeInv, TypeOK, hides
<1> QED
  BY <1>1, <1>2, <1>3, <1>4, <1>5

\* What the user does in the panel of notifications keeps the types.
LEMMA PanelTypes ==
    ASSUME TypeInv, NEW c \in Clients,
           \/ \E t \in Threads : OpenNotice(c, t)
           \/ MarkAllRead(c) \/ ClearNotices(c) \/ ClosePanel(c)
    PROVE  TypeInv'
<1>0. TypeOK
  BY DEF TypeInv
<1>1. ASSUME NEW t \in Threads, OpenNotice(c, t)
      PROVE  TypeInv'
  <2>1. op' \in [Clients -> Op] /\ (\A d \in Clients : Prepared(op'[d]))
    BY <1>1, EndTypes DEF OpenNotice
  <2>2. /\ view' \in [Clients -> View] /\ list' \in [Clients -> SUBSET Threads]
        /\ badge' \in [Clients -> BOOLEAN]
    BY <1>0, <1>1, MenuTypes DEF OpenNotice
  <2>3. unread' \in [Users -> SUBSET Threads]
    BY <1>0, <1>1 DEF OpenNotice, TypeOK
  <2> QED
    BY <1>1, <2>1, <2>2, <2>3 DEF OpenNotice, TypeInv, TypeOK, rows, hides
<1>2. ASSUME MarkAllRead(c)
      PROVE  TypeInv'
  <2>1. op' \in [Clients -> Op] /\ (\A d \in Clients : Prepared(op'[d]))
    BY <1>2, EndTypes DEF MarkAllRead
  <2>2. badge' \in [Clients -> BOOLEAN] /\ unread' \in [Users -> SUBSET Threads]
    BY <1>0, <1>2, MenuTypes DEF MarkAllRead, TypeOK
  <2> QED
    BY <1>2, <2>1, <2>2 DEF MarkAllRead, TypeInv, TypeOK, rows, hides
<1>3. ASSUME ClearNotices(c)
      PROVE  TypeInv'
  <2>1. op' \in [Clients -> Op] /\ (\A d \in Clients : Prepared(op'[d]))
    BY <1>3, EndTypes DEF ClearNotices
  <2>2. /\ badge' \in [Clients -> BOOLEAN] /\ unread' \in [Users -> SUBSET Threads]
        /\ notices' \in [Users -> SUBSET Threads]
    BY <1>0, <1>3, MenuTypes DEF ClearNotices, TypeOK
  <2>3. list' \in [Clients -> SUBSET Threads]
    BY <1>0, <1>3, MenuTypes DEF ClearNotices, TypeOK
  <2> QED
    BY <1>3, <2>1, <2>2, <2>3 DEF ClearNotices, TypeInv, TypeOK, rows, hides
<1>4. ASSUME ClosePanel(c)
      PROVE  TypeInv'
  <2>1. op' \in [Clients -> Op] /\ (\A d \in Clients : Prepared(op'[d]))
    BY <1>4, EndTypes DEF ClosePanel
  <2>2. badge' \in [Clients -> BOOLEAN]
    BY <1>0, <1>4, MenuTypes DEF ClosePanel, TypeOK
  <2> QED
    BY <1>4, <2>1, <2>2 DEF ClosePanel, TypeInv, TypeOK, rows, hides
<1> QED
  BY <1>1, <1>2, <1>3, <1>4

\* The initial state is typed.
LEMMA InitTypes ==
    ASSUME Init
    PROVE  TypeInv
<1>1. [by |-> Nobody, to |-> Nobody] \in Party
  BY DEF Party
<1>2. Blank \in View
  <2>1. Blank.shown \in SUBSET Messages /\ Blank.batch \in SUBSET Messages
    BY DEF Blank
  <2> QED
    BY <2>1 DEF Blank, View
<1>3. Idle \in Op /\ Prepared(Idle)
  BY IdleTypes DEF Prepared
<1>4. nextThread \in 1 .. MaxThreads + 1 /\ nextMessage \in 1 .. MaxMessages + 1 /\ clicks \in 0 .. MaxClicks
  BY ChatBounds DEF Init
<1>5. /\ op \in [Clients -> Op] /\ \A d \in Clients : Prepared(op[d])
      /\ view \in [Clients -> View] /\ parties \in [Threads -> Party]
  BY <1>1, <1>2, <1>3 DEF Init
<1> QED
  BY <1>4, <1>5 DEF Init, TypeInv, TypeOK

\* So is every next one.
LEMMA NextTypes ==
    ASSUME TypeInv, [Next]_vars
    PROVE  TypeInv'
<1>1. CASE UNCHANGED vars
  BY <1>1 DEF TypeInv, TypeOK, vars, rows, hides, menu
<1>2. CASE Next
  BY <1>2, WidgetTypes, BeginTypes, CreateTypes, SendTypes, PanelTypes DEF Next, Proceed
<1> QED
  BY <1>1, <1>2

\* Every variable keeps to its type: ids come from the serials and stay within them, however
\* the users of any number of programs read, write and delete.
THEOREM TypesHold == Spec => []TypeOK
<1>1. Init => TypeInv
  BY InitTypes
<1>2. TypeInv /\ [Next]_vars => TypeInv'
  BY NextTypes
<1>3. TypeInv => TypeOK
  BY DEF TypeInv
<1> QED
  BY <1>1, <1>2, <1>3, PTL DEF Spec

-----------------------------------------------------------------------------
(* What a step does to the tables and to a screen.                         *)

\* Serials only grow, what was written under a number stays, and new rows get new numbers.
Grows ==
    /\ nextThread <= nextThread' /\ nextMessage <= nextMessage' /\ hidden \subseteq hidden'
    /\ \A t \in 1 .. nextThread - 1 : parties'[t] = parties[t]
    /\ \A m \in 1 .. nextMessage - 1 : threadOf'[m] = threadOf[m]
    /\ alive' \subseteq alive \cup (nextThread .. nextThread' - 1)
    /\ stored' \subseteq stored \cup (nextMessage .. nextMessage' - 1)

\* A screen w is as v was, but for its visibility, its opening and its scroll bar.
Stays(v, w) ==
    /\ w.thread = v.thread /\ w.shown = v.shown /\ w.oldest = v.oldest /\ w.last = v.last
    /\ w.loading = v.loading /\ w.full = v.full /\ w.batch = v.batch

\* A worker starts on rows of found: a full reload, a first page, or what is newer.
Starts(v, w, found) ==
    /\ v.thread # 0 /\ ~v.loading /\ w.loading
    /\ w.thread = v.thread /\ w.oldest = v.oldest /\ w.last = v.last
    /\ \/ w.full /\ w.shown = {} /\ w.batch = Newest(found)
       \/ ~w.full /\ w.shown = v.shown /\ v.last = 0 /\ w.batch = Newest(found)
       \/ ~w.full /\ w.shown = v.shown /\ v.last > 0 /\ w.batch = {m \in found : m > v.last}

\* Its rows are drawn.
Draws(v, w) ==
    /\ v.loading /\ ~w.loading /\ ~w.full /\ w.batch = {}
    /\ w.thread = v.thread /\ w.shown = v.shown \cup v.batch
    /\ IF v.full THEN w.oldest = Smallest(v.batch) /\ w.last = Largest(v.batch)
       ELSE w.oldest = v.oldest /\ w.last = Largest(v.batch \cup ({v.last} \ {0}))

\* Another thread is opened; the rows and a running worker stay.
Turns(v, w) ==
    /\ w.thread # v.thread /\ w.shown = v.shown /\ w.oldest = 0 /\ w.last = 0
    /\ w.loading = v.loading /\ w.full = v.full /\ w.batch = v.batch

\* Older rows of found are drawn.
Widens(v, w, found) ==
    LET page == Newest({m \in found : m < v.oldest})
    IN  /\ v.thread # 0 /\ v.oldest > 0
        /\ w.shown = v.shown \cup page /\ w.oldest = Smallest(page)
        /\ w.thread = v.thread /\ w.last = v.last
        /\ w.loading = v.loading /\ w.full = v.full /\ w.batch = v.batch

\* What c may read of its thread after the step.
Fresh(c) == {m \in stored' : threadOf'[m] = view[c].thread /\ <<m, c>> \notin hidden'}

\* What can happen to the screen of c in a step.
Moves(c) ==
    \/ Stays(view[c], view'[c])
    \/ Starts(view[c], view'[c], Fresh(c))
    \/ Draws(view[c], view'[c])
    \/ Turns(view[c], view'[c])
    \/ Widens(view[c], view'[c], Fresh(c))

OthersKept(c) ==
    \A d \in Clients \ {c} : view'[d] = view[d] /\ list'[d] = list[d] /\ op'[d] = op[d]

\* refreshMessages leaves the screen or starts a worker.
LEMMA Refreshed ==
    ASSUME NEW v \in View, NEW found, NEW full \in BOOLEAN, NEW w, w = RefreshMessages(v, found, full)
    PROVE  (Stays(v, w) \/ Starts(v, w, found)) /\ w.thread = v.thread
<1>1. CASE v.thread = 0 \/ v.loading
  BY <1>1 DEF RefreshMessages, Stays
<1>2. CASE v.thread # 0 /\ ~v.loading
  <2> DEFINE whole == full \/ v.bottom
             newer == {m \in found : m > v.last}
  <2>0. v.last \in Messages \cup {0} /\ Messages \subseteq Nat /\ v.last \in Nat
    BY ChatBounds DEF View, Messages
  <2>1. CASE ~whole /\ v.last > 0 /\ newer = {}
    <3>1. w = [v EXCEPT !.bottom = FALSE]
      BY <1>2, <2>1 DEF RefreshMessages
    <3> QED
      BY <3>1 DEF Stays, View
  <2>2. CASE ~whole /\ v.last > 0 /\ newer # {}
    <3>1. w = [v EXCEPT !.loading = TRUE, !.full = whole, !.batch = newer, !.shown = v.shown]
      BY <1>2, <2>2 DEF RefreshMessages
    <3> QED
      BY <1>2, <2>2, <3>1 DEF Starts, View
  <2>3. CASE ~whole /\ ~(v.last > 0)
    <3>1. w = [v EXCEPT !.loading = TRUE, !.full = whole, !.batch = Newest(found), !.shown = v.shown]
      BY <1>2, <2>3 DEF RefreshMessages
    <3>2. v.last = 0
      BY <2>0, <2>3
    <3> QED
      BY <1>2, <2>3, <3>1, <3>2 DEF Starts, View
  <2>4. CASE whole
    <3>1. w = [v EXCEPT !.loading = TRUE, !.full = whole, !.batch = Newest(found), !.shown = {}]
      BY <1>2, <2>4 DEF RefreshMessages
    <3> QED
      BY <1>2, <2>4, <3>1 DEF Starts, View
  <2> QED
    BY <2>1, <2>2, <2>3, <2>4
<1> QED
  BY <1>1, <1>2

\* applyRefreshedMessages draws, and setThreadId turns to a thread or stays with it.
LEMMA DrawnOrTurned ==
    ASSUME NEW v \in View
    PROVE  /\ v.loading => Draws(v, Applied(v))
           /\ \A t : SetThreadId(v, t).thread = t
           /\ \A t : Stays(v, SetThreadId(v, t)) \/ Turns(v, SetThreadId(v, t))
<1>1. ASSUME v.loading
      PROVE  Draws(v, Applied(v))
  BY <1>1 DEF Draws, Applied, View
<1>2. ASSUME NEW t
      PROVE  /\ SetThreadId(v, t).thread = t
             /\ Stays(v, SetThreadId(v, t)) \/ Turns(v, SetThreadId(v, t))
  BY DEF Stays, Turns, SetThreadId, View
<1> QED
  BY <1>1, <1>2

\* Tables that stay as they are grow.
LEMMA QuietGrows ==
    ASSUME TypeOK, UNCHANGED rows, hidden \subseteq hidden'
    PROVE  Grows
BY DEF Grows, TypeOK, rows

\* So do the messages by a new one.
LEMMA StoreGrows ==
    ASSUME TypeOK, NEW t, StoreMessage(t), UNCHANGED hidden
    PROVE  Grows
<1>1. nextMessage \in Nat /\ nextMessage' = nextMessage + 1 /\ nextMessage \in Messages
  BY DEF TypeOK, StoreMessage
<1>2. \A m \in 1 .. nextMessage - 1 : m # nextMessage /\ threadOf'[m] = threadOf[m]
  <2>1. \A m : m # nextMessage => threadOf'[m] = threadOf[m]
    BY <1>1 DEF StoreMessage, TypeOK
  <2>2. \A m \in 1 .. nextMessage - 1 : m # nextMessage
    BY <1>1
  <2> QED
    BY <2>1, <2>2
<1>3. stored' \subseteq stored \cup (nextMessage .. nextMessage' - 1)
  BY <1>1 DEF StoreMessage
<1>4. nextMessage <= nextMessage' /\ nextThread <= nextThread'
  BY <1>1 DEF StoreMessage, TypeOK
<1> QED
  BY <1>2, <1>3, <1>4 DEF Grows, StoreMessage

\* A refresh of the screen of c with the rows that c has after the step.
LEMMA RefreshMoves ==
    ASSUME TypeOK, NEW c \in Clients, NEW v \in View, Stays(view[c], v), NEW full \in BOOLEAN,
           view'[c] = RefreshMessages(v, Fresh(c), full)
    PROVE  Moves(c) /\ view'[c].thread = view[c].thread
<1>1. (Stays(v, view'[c]) \/ Starts(v, view'[c], Fresh(c))) /\ view'[c].thread = v.thread
  BY Refreshed
<1>2. Stays(view[c], view'[c]) \/ Starts(view[c], view'[c], Fresh(c))
  BY <1>1 DEF Stays, Starts
<1> QED
  BY <1>1, <1>2 DEF Moves, Stays

\* A chat that comes to the front.
LEMMA ShowMoves ==
    ASSUME TypeOK, NEW c \in Clients, NEW t, ShowChat(c, t)
    PROVE  /\ Moves(c) /\ view'[c].thread = t /\ list'[c] = {}
           /\ \A d \in Clients \ {c} : view'[d] = view[d] /\ list'[d] = list[d]
<1>1. view'[c] = SetThreadId(view[c], t) /\ view[c] \in View /\ list'[c] = {}
  BY DEF ShowChat, TypeOK
<1>2. Moves(c) /\ view'[c].thread = t
  BY <1>1, DrawnOrTurned DEF Moves
<1>3. \A d \in Clients \ {c} : view'[d] = view[d] /\ list'[d] = list[d]
  BY DEF ShowChat, TypeOK
<1> QED
  BY <1>1, <1>2, <1>3

\* A step that leaves the screen of c or only hides the chat.
LEMMA ScreenStays ==
    ASSUME TypeOK, NEW c \in Clients,
           UNCHANGED view \/ view' = [view EXCEPT ![c].visible = FALSE]
    PROVE  Moves(c) /\ view'[c].thread = view[c].thread /\ \A d \in Clients \ {c} : view'[d] = view[d]
<1>0. view \in [Clients -> View] /\ view[c] \in View
  BY DEF TypeOK
<1>1. CASE UNCHANGED view
  BY <1>1 DEF Moves, Stays
<1>2. CASE view' = [view EXCEPT ![c].visible = FALSE]
  <2>1. Stays(view[c], view'[c])
    BY <1>0, <1>2 DEF Stays, View
  <2>2. \A d \in Clients \ {c} : view'[d] = view[d]
    BY <1>0, <1>2
  <2> QED
    BY <2>1, <2>2 DEF Moves, Stays
<1> QED
  BY <1>1, <1>2

\* The list is touched for c alone.
LEMMA ListOf ==
    ASSUME TypeOK, NEW c \in Clients, NEW live, NEW gone, ShowList(c, live, gone)
    PROVE  list'[c] = ThreadsOf(c, live, gone) /\ \A d \in Clients \ {c} : list'[d] = list[d]
BY DEF ShowList, Reloaded, TypeOK

\* A step of c fits: tables grow, the screen of c moves, the others keep what they have.
Fits(c) == Grows /\ Moves(c) /\ OthersKept(c)

\* A step that leaves the tables, and whose new operation is c's.
LEMMA OthersOf ==
    ASSUME TypeOK, NEW c \in Clients, \A d \in Clients \ {c} : view'[d] = view[d] /\ list'[d] = list[d],
           \/ UNCHANGED op
           \/ \E o : op' = [op EXCEPT ![c] = o]
    PROVE  OthersKept(c)
BY DEF OthersKept, TypeOK

\* The steps of the widgets fit.
LEMMA WidgetFits ==
    ASSUME TypeInv, NEW c \in Clients,
           \/ \E t \in Threads : Open(c, t)
           \/ Opened(c) \/ Poll(c) \/ Apply(c) \/ LoadOlder(c) \/ Back(c) \/ UpdateNotifBadge(c)
           \/ \E S \in SUBSET view[c].shown : HideMessages(c, S)
           \/ HideThread(c)
    PROVE  Fits(c)
<1>0. TypeOK /\ view[c] \in View /\ view \in [Clients -> View]
  BY DEF TypeInv, TypeOK
<1>1. ASSUME NEW t \in Threads, Open(c, t)
      PROVE  Fits(c)
  BY <1>0, <1>1, ShowMoves, QuietGrows, OthersOf DEF Open, Fits, hides
<1>2. ASSUME Opened(c)
      PROVE  Fits(c)
  <2> DEFINE v == [view[c] EXCEPT !.opening = "no"]
             full == view[c].opening = "other"
  <2>1. v \in View /\ Stays(view[c], v) /\ v.thread = view[c].thread /\ full \in BOOLEAN
    BY <1>0 DEF View, Stays
  <2>2. Fresh(c) = Rows(c, view[c].thread)
    BY <1>2 DEF Opened, Fresh, Rows, rows, hides
  <2>3. view' = [view EXCEPT ![c] = RefreshMessages(v, Rows(c, v.thread), full)]
    BY <1>2 DEF Opened
  <2> HIDE DEF v, full
  <2>4. view'[c] = RefreshMessages(v, Fresh(c), full)
    BY <1>0, <2>1, <2>2, <2>3
  <2>5. Moves(c)
    BY <1>0, <2>1, <2>4, RefreshMoves
  <2>6. \A d \in Clients \ {c} : view'[d] = view[d] /\ list'[d] = list[d]
    BY <1>0, <1>2, <2>3 DEF Opened, TypeOK
  <2> QED
    BY <1>0, <1>2, <2>5, <2>6, QuietGrows, OthersOf DEF Opened, Fits, hides
<1>3. ASSUME Poll(c)
      PROVE  Fits(c)
  <2>1. Stays(view[c], view[c])
    BY DEF Stays
  <2>2. Fresh(c) = Rows(c, view[c].thread)
    BY <1>3 DEF Poll, Fresh, Rows, rows, hides
  <2>3. view'[c] = RefreshMessages(view[c], Fresh(c), FALSE)
    BY <1>0, <1>3, <2>2 DEF Poll
  <2>4. Moves(c)
    BY <1>0, <2>1, <2>3, RefreshMoves
  <2>5. \A d \in Clients \ {c} : view'[d] = view[d] /\ list'[d] = list[d]
    BY <1>0, <1>3 DEF Poll, menu
  <2> QED
    BY <1>0, <1>3, <2>4, <2>5, QuietGrows, OthersOf DEF Poll, Fits, hides
<1>4. ASSUME Apply(c)
      PROVE  Fits(c)
  <2>1. view'[c] = Applied(view[c]) /\ view[c].loading
    BY <1>0, <1>4 DEF Apply
  <2>2. Moves(c)
    BY <1>0, <2>1, DrawnOrTurned DEF Moves
  <2>3. \A d \in Clients \ {c} : view'[d] = view[d] /\ list'[d] = list[d]
    BY <1>0, <1>4 DEF Apply, menu
  <2> QED
    BY <1>0, <1>4, <2>2, <2>3, QuietGrows, OthersOf DEF Apply, Fits, hides
<1>5. ASSUME LoadOlder(c)
      PROVE  Fits(c)
  <2> DEFINE page == Newest({m \in Rows(c, view[c].thread) : m < view[c].oldest})
             w == [view[c] EXCEPT !.shown = @ \cup page, !.oldest = Smallest(page)]
  <2>1. view' = [view EXCEPT ![c] = w]
    BY <1>0, <1>5 DEF LoadOlder
  <2> HIDE DEF page
  <2>2. /\ w.thread = view[c].thread /\ w.last = view[c].last /\ w.loading = view[c].loading
        /\ w.full = view[c].full /\ w.batch = view[c].batch
        /\ w.shown = view[c].shown \cup page /\ w.oldest = Smallest(page)
    BY <1>0 DEF View
  <2>3. view[c].thread # 0 /\ view[c].oldest > 0
    BY <1>5 DEF LoadOlder
  <2>4. view'[c] = w
    BY <1>0, <2>1
  <2> HIDE DEF w
  <2>7. Fresh(c) = Rows(c, view[c].thread)
    BY <1>5 DEF LoadOlder, Fresh, Rows, rows, hides
  <2>8. page = Newest({m \in Fresh(c) : m < view[c].oldest})
    BY <2>7 DEF page
  <2>5. Moves(c)
    BY <2>2, <2>3, <2>4, <2>8 DEF Moves, Widens
  <2>6. \A d \in Clients \ {c} : view'[d] = view[d] /\ list'[d] = list[d]
    BY <1>0, <1>5, <2>1 DEF LoadOlder, menu
  <2> QED
    BY <1>0, <1>5, <2>5, <2>6, QuietGrows, OthersOf DEF LoadOlder, Fits, hides
<1>6. ASSUME Back(c)
      PROVE  Fits(c)
  BY <1>0, <1>6, ScreenStays, ListOf, QuietGrows, OthersOf DEF Back, Fits, hides
<1>7. ASSUME UpdateNotifBadge(c)
      PROVE  Fits(c)
  <2>1. \A d \in Clients \ {c} : list'[d] = list[d]
    BY <1>0, <1>7, ListOf DEF UpdateNotifBadge
  <2>2. Moves(c) /\ \A d \in Clients \ {c} : view'[d] = view[d]
    BY <1>0, <1>7, ScreenStays DEF UpdateNotifBadge
  <2> QED
    BY <1>0, <1>7, <2>1, <2>2, QuietGrows, OthersOf DEF UpdateNotifBadge, Fits, hides
<1>8. ASSUME NEW S \in SUBSET view[c].shown, HideMessages(c, S)
      PROVE  Fits(c)
  <2>1. Stays(view[c], view[c])
    BY DEF Stays
  <2>2. Fresh(c) = Rows(c, view[c].thread) \ S
    <3>1. stored' = stored /\ threadOf' = threadOf
      BY <1>8 DEF HideMessages, rows
    <3>2. \A m : <<m, c>> \in hidden' <=> <<m, c>> \in hidden \/ m \in S
      BY <1>8 DEF HideMessages
    <3> QED
      BY <3>1, <3>2 DEF Fresh, Rows
  <2>3. view'[c] = RefreshMessages(view[c], Rows(c, view[c].thread) \ S, TRUE)
    BY <1>0, <1>8 DEF HideMessages
  <2>4. Moves(c)
    BY <1>0, <2>1, <2>2, <2>3, RefreshMoves
  <2>5. \A d \in Clients \ {c} : view'[d] = view[d] /\ list'[d] = list[d]
    BY <1>0, <1>8 DEF HideMessages, menu
  <2> QED
    BY <1>0, <1>8, <2>4, <2>5, QuietGrows, OthersOf DEF HideMessages, Fits
<1>9. ASSUME HideThread(c)
      PROVE  Fits(c)
  BY <1>0, <1>9, ScreenStays, ListOf, QuietGrows, OthersOf DEF HideThread, Fits
<1> QED
  BY <1>1, <1>2, <1>3, <1>4, <1>5, <1>6, <1>7, <1>8, <1>9

\* An operation of c is replaced or changed field by field: the others keep theirs.
LEMMA OthersOps ==
    ASSUME TypeOK, NEW c \in Clients, \A d \in Clients \ {c} : view'[d] = view[d] /\ list'[d] = list[d],
           \A d \in Clients \ {c} : op'[d] = op[d]
    PROVE  OthersKept(c)
BY DEF OthersKept

\* A step that leaves the screens and the lists.
LEMMA QuietScreens ==
    ASSUME TypeOK, NEW c \in Clients, UNCHANGED view
    PROVE  Moves(c)
BY ScreenStays

\* The steps that begin an operation or end it in the panel fit.
LEMMA BeginFits ==
    ASSUME TypeInv, NEW c \in Clients,
           \/ \E p \in Users : EnsureThread(c, p)
           \/ \E n \in 1 .. 2 : Send(c, n)
           \/ DeleteThread(c) \/ OpenPanel(c) \/ MarkAllRead(c) \/ ClearNotices(c) \/ ClosePanel(c)
           \/ \E t \in Threads : OpenNotice(c, t)
           \/ CheckThread(c) \/ Notice(c)
    PROVE  Fits(c)
<1>0. TypeOK
  BY DEF TypeInv
<1>1. ASSUME NEW p \in Users, EnsureThread(c, p)
      PROVE  Fits(c)
  <2>1. Grows
    BY <1>0, <1>1, QuietGrows DEF EnsureThread, hides
  <2>2. CASE \E t \in Between(c, p) : ShowChat(c, t) /\ UNCHANGED op
    BY <1>0, <2>1, <2>2, ShowMoves, OthersOps DEF Fits
  <2>3. CASE op' = [op EXCEPT ![c] = [Idle EXCEPT !.at = "create", !.peer = p]] /\ UNCHANGED <<view, list>>
    BY <1>0, <2>1, <2>3, QuietScreens, OthersOf DEF Fits
  <2> QED
    BY <1>1, <2>2, <2>3 DEF EnsureThread
<1>2. ASSUME NEW n \in 1 .. 2, Send(c, n)
      PROVE  Fits(c)
  BY <1>0, <1>2, QuietGrows, QuietScreens, OthersOf DEF Send, Fits, hides, menu
<1>3. ASSUME DeleteThread(c)
      PROVE  Fits(c)
  BY <1>0, <1>3, QuietGrows, QuietScreens, OthersOf DEF DeleteThread, Fits, hides, menu
<1>4. ASSUME OpenPanel(c)
      PROVE  Fits(c)
  <2>1. \A d \in Clients \ {c} : op'[d] = op[d]
    BY <1>0, <1>4 DEF OpenPanel, TypeOK
  <2> QED
    BY <1>0, <1>4, <2>1, QuietGrows, QuietScreens, OthersOps DEF OpenPanel, Fits, hides, menu
<1>5. ASSUME MarkAllRead(c)
      PROVE  Fits(c)
  BY <1>0, <1>5, QuietGrows, QuietScreens, OthersOf DEF MarkAllRead, Fits, hides
<1>6. ASSUME ClearNotices(c)
      PROVE  Fits(c)
  <2>1. \A d \in Clients \ {c} : view'[d] = view[d] /\ list'[d] = list[d]
    BY <1>0, <1>6, ListOf DEF ClearNotices
  <2> QED
    BY <1>0, <1>6, <2>1, QuietGrows, QuietScreens, OthersOf DEF ClearNotices, Fits, hides
<1>7. ASSUME ClosePanel(c)
      PROVE  Fits(c)
  BY <1>0, <1>7, QuietGrows, QuietScreens, OthersOf DEF ClosePanel, Fits, hides
<1>8. ASSUME NEW t \in Threads, OpenNotice(c, t)
      PROVE  Fits(c)
  BY <1>0, <1>8, QuietGrows, ShowMoves, OthersOf DEF OpenNotice, Fits, hides
<1>9. ASSUME CheckThread(c)
      PROVE  Fits(c)
  <2>1. \A d \in Clients \ {c} : op'[d] = op[d]
    BY <1>0, <1>9 DEF CheckThread, TypeOK
  <2> QED
    BY <1>0, <1>9, <2>1, QuietGrows, QuietScreens, OthersOps DEF CheckThread, Fits, hides, menu
<1>10. ASSUME Notice(c)
       PROVE  Fits(c)
  BY <1>0, <1>10, QuietGrows, QuietScreens, OthersOf DEF Notice, Fits, hides
<1> QED
  BY <1>1, <1>2, <1>3, <1>4, <1>5, <1>6, <1>7, <1>8, <1>9, <1>10

\* So do the statements on the tables of threads and messages.
LEMMA TableFits ==
    ASSUME TypeInv, NEW c \in Clients,
           \/ CreateThread(c) \/ FirstMessage(c) \/ UndoThread(c) \/ InsertMessage(c)
           \/ NotifyPeer(c) \/ WipeMessages(c) \/ DropThread(c)
    PROVE  Fits(c)
<1>0. TypeOK /\ view[c] \in View /\ view \in [Clients -> View] /\ op \in [Clients -> Op]
  BY DEF TypeInv, TypeOK
<1>1. ASSUME CreateThread(c)
      PROVE  Fits(c)
  <2>1. UNCHANGED <<threadOf, stored, nextMessage, hidden, view, list>>
    BY <1>1 DEF CreateThread, hides, menu
  <2>2. \A d \in Clients \ {c} : op'[d] = op[d]
    BY <1>0, <1>1 DEF CreateThread
  <2>3. CASE UNCHANGED <<parties, alive, nextThread>>
    BY <1>0, <2>1, <2>2, <2>3, QuietGrows, QuietScreens, OthersOps DEF Fits, rows
  <2>4. CASE /\ nextThread \in Threads /\ alive' = alive \cup {nextThread} /\ nextThread' = nextThread + 1
             /\ parties' = [parties EXCEPT ![nextThread] = [by |-> c, to |-> op[c].peer]]
    <3>1. nextThread \in Nat
      BY <1>0 DEF TypeOK
    <3>2. \A t \in 1 .. nextThread - 1 : t # nextThread
      BY <3>1
    <3>3. \A t : t # nextThread => parties'[t] = parties[t]
      BY <1>0, <2>4 DEF TypeOK
    <3>4. nextThread <= nextThread' /\ nextThread \in nextThread .. nextThread' - 1
      BY <2>4, <3>1
    <3>5. nextMessage <= nextMessage'
      BY <1>0, <2>1 DEF TypeOK
    <3>6. Grows
      BY <2>1, <2>4, <3>2, <3>3, <3>4, <3>5 DEF Grows
    <3> QED
      BY <1>0, <2>1, <2>2, <3>6, QuietScreens, OthersOps DEF Fits
  <2> QED
    BY <1>1, <2>3, <2>4 DEF CreateThread
<1>2. ASSUME FirstMessage(c)
      PROVE  Fits(c)
  <2>1. UNCHANGED hidden
    BY <1>2 DEF FirstMessage, hides
  <2>2. \A d \in Clients \ {c} : op'[d] = op[d]
    BY <1>0, <1>2 DEF FirstMessage
  <2>3. CASE StoreMessage(op[c].thread) /\ ShowChat(c, op[c].thread)
    BY <1>0, <2>1, <2>2, <2>3, StoreGrows, ShowMoves, OthersOps DEF Fits
  <2>4. CASE UNCHANGED <<rows, view, list>>
    BY <1>0, <2>1, <2>2, <2>4, QuietGrows, QuietScreens, OthersOps DEF Fits
  <2> QED
    BY <1>2, <2>3, <2>4 DEF FirstMessage
<1>3. ASSUME UndoThread(c)
      PROVE  Fits(c)
  <2>1. Grows
    BY <1>0, <1>3 DEF UndoThread, Grows, TypeOK, hides
  <2> QED
    BY <1>0, <1>3, <2>1, QuietScreens, OthersOf DEF UndoThread, Fits, menu
<1>4. ASSUME InsertMessage(c)
      PROVE  Fits(c)
  <2>1. \A d \in Clients \ {c} : op'[d] = op[d]
    BY <1>0, <1>4 DEF InsertMessage
  <2>2. Grows
    BY <1>0, <1>4, StoreGrows, QuietGrows DEF InsertMessage, hides
  <2> QED
    BY <1>0, <1>4, <2>1, <2>2, QuietScreens, OthersOps DEF InsertMessage, Fits, menu
<1>5. ASSUME NotifyPeer(c)
      PROVE  Fits(c)
  <2> DEFINE v == [view[c] EXCEPT !.bottom = TRUE]
  <2>1. v \in View /\ Stays(view[c], v) /\ v.thread = view[c].thread
    BY <1>0 DEF View, Stays
  <2>2. Fresh(c) = Rows(c, view[c].thread)
    BY <1>5 DEF NotifyPeer, Fresh, Rows, rows, hides
  <2>3. view' = [view EXCEPT ![c] = RefreshMessages(v, Rows(c, view[c].thread), FALSE)]
    BY <1>5 DEF NotifyPeer
  <2> HIDE DEF v
  <2>4. view'[c] = RefreshMessages(v, Fresh(c), FALSE)
    BY <1>0, <2>2, <2>3
  <2>5. Moves(c)
    BY <1>0, <2>1, <2>4, RefreshMoves
  <2>6. \A d \in Clients \ {c} : view'[d] = view[d] /\ list'[d] = list[d]
    BY <1>0, <1>5, <2>3 DEF NotifyPeer
  <2> QED
    BY <1>0, <1>5, <2>5, <2>6, QuietGrows, OthersOf DEF NotifyPeer, Fits, hides
<1>6. ASSUME WipeMessages(c)
      PROVE  Fits(c)
  <2>1. \A d \in Clients \ {c} : op'[d] = op[d]
    BY <1>0, <1>6 DEF WipeMessages
  <2>2. stored' \subseteq stored
    BY <1>6 DEF WipeMessages
  <2>3. Grows
    BY <1>0, <1>6, <2>2 DEF WipeMessages, Grows, TypeOK, hides
  <2> QED
    BY <1>0, <1>6, <2>1, <2>3, QuietScreens, OthersOps DEF WipeMessages, Fits, menu
<1>7. ASSUME DropThread(c)
      PROVE  Fits(c)
  <2>1. alive' \subseteq alive
    BY <1>7 DEF DropThread
  <2>2. Grows
    BY <1>0, <1>7, <2>1 DEF DropThread, Grows, TypeOK, hides
  <2>3. \A d \in Clients \ {c} : list'[d] = list[d]
    BY <1>0, <1>7, ListOf DEF DropThread
  <2>4. Moves(c) /\ \A d \in Clients \ {c} : view'[d] = view[d]
    BY <1>0, <1>7, ScreenStays DEF DropThread
  <2> QED
    BY <1>0, <1>7, <2>2, <2>3, <2>4, OthersOf DEF DropThread, Fits
<1> QED
  BY <1>1, <1>2, <1>3, <1>4, <1>5, <1>6, <1>7

\* Every step of every program fits.
LEMMA NextFits ==
    ASSUME TypeInv, Next
    PROVE  \E c \in Clients : Fits(c)
BY WidgetFits, BeginFits, TableFits DEF Next, Proceed

-----------------------------------------------------------------------------
(* Who sees what.                                                          *)

\* The numbers below a serial stay below a larger one, as do those given out meanwhile.
LEMMA Ranges ==
    \A a, b \in Nat : a <= b =>
        /\ 1 .. a - 1 \subseteq 1 .. b - 1
        /\ a >= 1 => a .. b - 1 \subseteq 1 .. b - 1
OBVIOUS

\* The serials before and after a step.
LEMMA SerialTypes ==
    ASSUME TypeOK, TypeOK', Grows
    PROVE  /\ nextThread \in Nat /\ nextThread' \in Nat /\ nextThread <= nextThread' /\ nextThread >= 1
           /\ nextMessage \in Nat /\ nextMessage' \in Nat /\ nextMessage <= nextMessage' /\ nextMessage >= 1
<1>1. nextThread \in Nat /\ nextThread >= 1 /\ nextMessage \in Nat /\ nextMessage >= 1
  BY DEF TypeOK
<1>2. nextThread' \in Nat /\ nextMessage' \in Nat
  BY DEF TypeOK
<1> QED
  BY <1>1, <1>2 DEF Grows

\* Nobody loses a thread, and numbers stay below the serials.
LEMMA MineGrows ==
    ASSUME TypeOK, TypeOK', Grows
    PROVE  /\ \A u : Mine(u) \subseteq Mine(u)'
           /\ \A m \in 1 .. nextMessage - 1 : m \in 1 .. nextMessage' - 1 /\ threadOf'[m] = threadOf[m]
<1>1. 1 .. nextThread - 1 \subseteq 1 .. nextThread' - 1 /\ 1 .. nextMessage - 1 \subseteq 1 .. nextMessage' - 1
  BY SerialTypes, Ranges
<1> QED
  BY <1>1 DEF Mine, Grows

\* Likewise for the rows.
LEMMA SerialsGrow ==
    ASSUME TypeOK, TypeOK', Grows, Serials
    PROVE  Serials'
<1>1. /\ 1 .. nextThread - 1 \subseteq 1 .. nextThread' - 1
      /\ nextThread .. nextThread' - 1 \subseteq 1 .. nextThread' - 1
  BY SerialTypes, Ranges
<1>2. /\ 1 .. nextMessage - 1 \subseteq 1 .. nextMessage' - 1
      /\ nextMessage .. nextMessage' - 1 \subseteq 1 .. nextMessage' - 1
  BY SerialTypes, Ranges
<1> QED
  BY <1>1, <1>2 DEF Grows, Serials

\* What was on the screen of d before a step, and what d may read of its thread after it.
LEMMA DrawnIsOwn ==
    ASSUME TypeOK, TypeOK', OwnInv, Grows, NEW d \in Clients
    PROVE  /\ \A m \in view[d].shown \cup view[d].batch :
                  m \in 1 .. nextMessage' - 1 /\ threadOf'[m] = threadOf[m] /\ threadOf'[m] \in Mine(d)'
           /\ \A m \in Fresh(d) :
                  m \in 1 .. nextMessage' - 1 /\ (view[d].thread # 0 => threadOf'[m] \in Mine(d)')
<1>2. \A m \in 1 .. nextMessage - 1 : m \in 1 .. nextMessage' - 1 /\ threadOf'[m] = threadOf[m]
  BY MineGrows
<1>3. Mine(d) \subseteq Mine(d)' /\ Serials'
  BY MineGrows, SerialsGrow DEF OwnInv
<1>4. Remembers(d) /\ SeesOwn(d)
  BY DEF OwnInv
<1>5. ASSUME NEW m \in view[d].shown \cup view[d].batch
      PROVE  m \in 1 .. nextMessage' - 1 /\ threadOf'[m] = threadOf[m] /\ threadOf'[m] \in Mine(d)'
  BY <1>2, <1>3, <1>4 DEF Remembers, SeesOwn
<1>6. ASSUME NEW m \in Fresh(d)
      PROVE  m \in 1 .. nextMessage' - 1 /\ (view[d].thread # 0 => threadOf'[m] \in Mine(d)')
  BY <1>3, <1>4 DEF Fresh, Serials, SeesOwn
<1> QED
  BY <1>5, <1>6

\* What others do leaves a program its own.
LEMMA OthersOwn ==
    ASSUME TypeOK, TypeOK', OwnInv, Grows, NEW d \in Clients,
           view'[d] = view[d], list'[d] = list[d], op'[d] = op[d],
           op[d].at = "create" => \A t \in alive' \ alive : parties'[t] # [by |-> d, to |-> op[d].peer]
    PROVE  Remembers(d)' /\ SeesOwn(d)' /\ ActsOnOwn(d)'
<1>1. Mine(d) \subseteq Mine(d)' /\ Remembers(d) /\ SeesOwn(d) /\ ActsOnOwn(d) /\ Serials
  BY MineGrows DEF OwnInv
<1>2. Remembers(d)'
  <2>1. view[d].last \in Int /\ nextMessage \in Int /\ nextMessage' \in Int
    BY ChatBounds DEF TypeOK, View, Messages
  <2>2. view[d].last < nextMessage'
    BY <1>1, <2>1 DEF Remembers, Grows
  <2>3. view[d].shown \cup view[d].batch \subseteq 1 .. nextMessage' - 1
    BY DrawnIsOwn
  <2> QED
    BY <1>1, <2>2, <2>3 DEF Remembers
<1>3. SeesOwn(d)'
  <2>1. \A m \in view[d].shown \cup view[d].batch : threadOf'[m] \in Mine(d)'
    BY DrawnIsOwn
  <2> QED
    BY <1>1, <2>1 DEF SeesOwn
<1>4. ActsOnOwn(d)'
  <2>1. \A t \in Mine(d) : parties'[t] = parties[t]
    BY DEF Mine, Grows
  <2>2. \A t \in alive : parties'[t] = parties[t]
    BY <1>1 DEF Serials, Grows
  <2> QED
    BY <1>1, <2>1, <2>2 DEF ActsOnOwn
<1> QED
  BY <1>2, <1>3, <1>4

\* A screen that moves shows what its user may see, when its thread is his.
LEMMA ScreenOwn ==
    ASSUME TypeOK, TypeOK', OwnInv, NEW c \in Clients, Fits(c), view'[c].thread \in Mine(c)' \cup {0},
           list'[c] \subseteq Mine(c)'
    PROVE  Remembers(c)' /\ SeesOwn(c)'
<1> DEFINE v == view[c]
           w == view'[c]
<1>0. v \in View /\ w \in View /\ Remembers(c) /\ Moves(c) /\ Grows
  BY DEF TypeOK, OwnInv, Fits
<1>1. Messages \subseteq Nat \ {0}
  BY ChatBounds DEF Messages
<1>2. /\ v.last \in Nat /\ v.oldest \in Nat /\ w.last \in Nat /\ nextMessage' \in Nat
      /\ v.last < nextMessage' /\ nextMessage' >= 1
      /\ v.batch \in SUBSET Messages /\ Fresh(c) \in SUBSET Messages
  <2>1. v.last \in Nat /\ v.oldest \in Nat /\ w.last \in Nat /\ v.batch \in SUBSET Messages
    BY <1>0, ViewFields
  <2>2. nextMessage \in Nat /\ nextMessage' \in Nat /\ nextMessage <= nextMessage' /\ nextMessage >= 1
    BY <1>0, SerialTypes
  <2>3. v.last < nextMessage
    BY <1>0 DEF Remembers
  <2>4. Fresh(c) \in SUBSET Messages
    BY DEF TypeOK, Fresh
  <2> QED
    BY <2>1, <2>2, <2>3, <2>4
<1>3. \A S : Newest(S) \subseteq S
  BY DEF Newest
<1>4. w.shown \cup w.batch \subseteq v.shown \cup v.batch \cup {m \in Fresh(c) : v.thread # 0}
  <2>1. CASE Stays(v, w) \/ Draws(v, w) \/ Turns(v, w)
    BY <2>1 DEF Stays, Draws, Turns
  <2>2. CASE Starts(v, w, Fresh(c))
    BY <1>3, <2>2 DEF Starts
  <2>3. CASE Widens(v, w, Fresh(c))
    <3>1. Newest({m \in Fresh(c) : m < v.oldest}) \subseteq Fresh(c)
      BY <1>3
    <3> QED
      BY <2>3, <3>1 DEF Widens
  <2> QED
    BY <1>0, <2>1, <2>2, <2>3 DEF Moves
<1>5. \A m \in w.shown \cup w.batch : m \in 1 .. nextMessage' - 1 /\ threadOf'[m] \in Mine(c)'
  BY <1>0, <1>4, DrawnIsOwn
<1>6. w.last < nextMessage' /\ (w.last = 0 => w.oldest = 0)
  <2>1. CASE Stays(v, w) \/ Starts(v, w, Fresh(c)) \/ Turns(v, w)
    BY <1>0, <1>2, <2>1 DEF Stays, Starts, Turns, Remembers
  <2>2. CASE Widens(v, w, Fresh(c))
    <3>1. v.last # 0 /\ w.last = v.last
      BY <1>0, <1>2, <2>2 DEF Widens, Remembers
    <3> QED
      BY <1>2, <3>1
  <2>3. CASE Draws(v, w)
    <3>1. v.batch \subseteq 1 .. nextMessage' - 1
      BY <1>0, DrawnIsOwn
    <3>2. CASE v.full
      <4>1. w.oldest = Smallest(v.batch) /\ w.last = Largest(v.batch)
        BY <2>3, <3>2 DEF Draws
      <4>2. v.batch = {} \/ Largest(v.batch) \in 1 .. nextMessage' - 1
        BY <1>2, <3>1, Ends
      <4>3. w.last = 0 => w.oldest = 0
        BY <1>2, <4>1, Ends
      <4>4. w.last < nextMessage'
        <5>1. CASE v.batch = {}
          BY <1>2, <4>1, <5>1, Ends
        <5>2. CASE Largest(v.batch) \in 1 .. nextMessage' - 1
          BY <1>2, <4>1, <5>2
        <5> QED
          BY <4>2, <5>1, <5>2
      <4> QED
        BY <4>3, <4>4
    <3>3. CASE ~v.full
      <4> DEFINE S == v.batch \cup ({v.last} \ {0})
      <4>1. w.oldest = v.oldest /\ w.last = Largest(S)
        BY <2>3, <3>3 DEF Draws
      <4>2. S \in SUBSET Messages
        BY <1>0, <1>2 DEF View
      <4>3. \A m \in S : m < nextMessage'
        BY <1>2, <3>1
      <4>4. S = {} => v.last = 0
        OBVIOUS
      <4> HIDE DEF S
      <4>5. w.last = 0 => S = {}
        BY <4>1, <4>2, Ends
      <4>6. w.last < nextMessage'
        <5>1. CASE S = {}
          BY <1>2, <4>1, <4>2, <5>1, Ends
        <5>2. CASE S # {}
          BY <4>1, <4>2, <4>3, <5>2, Ends
        <5> QED
          BY <5>1, <5>2
      <4> QED
        BY <1>0, <4>1, <4>4, <4>5, <4>6 DEF Remembers
    <3> QED
      BY <3>2, <3>3
  <2> QED
    BY <1>0, <2>1, <2>2, <2>3 DEF Moves
<1>7. ~w.loading => w.batch = {}
  BY <1>0 DEF Moves, Stays, Starts, Draws, Turns, Widens, Remembers
<1> QED
  BY <1>5, <1>6, <1>7 DEF Remembers, SeesOwn

\* A step of c keeps the invariant when c keeps to its own and any new thread is by c.
LEMMA OwnStep ==
    ASSUME TypeInv, TypeInv', OwnInv, NEW c \in Clients, Fits(c),
           view'[c].thread \in Mine(c)' \cup {0}, list'[c] \subseteq Mine(c)', ActsOnOwn(c)',
           Told', OneThreadPerCreator', \A t \in alive' \ alive : parties'[t].by = c
    PROVE  OwnInv'
<1>0. TypeOK /\ TypeOK' /\ Grows /\ OthersKept(c)
  BY DEF TypeInv, Fits
<1>1. Serials'
  BY <1>0, SerialsGrow DEF OwnInv
<1>2. Remembers(c)' /\ SeesOwn(c)' /\ ActsOnOwn(c)'
  BY <1>0, ScreenOwn
<1>3. ASSUME NEW d \in Clients \ {c}
      PROVE  Remembers(d)' /\ SeesOwn(d)' /\ ActsOnOwn(d)'
  <2>1. view'[d] = view[d] /\ list'[d] = list[d] /\ op'[d] = op[d]
    BY <1>0 DEF OthersKept
  <2>2. \A t \in alive' \ alive : parties'[t] # [by |-> d, to |-> op[d].peer]
    OBVIOUS
  <2> QED
    BY <1>0, <2>1, <2>2, OthersOwn
<1> QED
  BY <1>1, <1>2, <1>3 DEF OwnInv

\* Without a new thread there is still one for each creator and recipient.
LEMMA OwnStepSameThreads ==
    ASSUME TypeInv, TypeInv', OwnInv, NEW c \in Clients, Fits(c), alive' \subseteq alive,
           view'[c].thread \in Mine(c)' \cup {0}, list'[c] \subseteq Mine(c)', ActsOnOwn(c)', Told'
    PROVE  OwnInv'
<1>1. \A t \in alive : parties'[t] = parties[t]
  BY DEF OwnInv, Serials, Fits, Grows
<1>2. OneThreadPerCreator'
  BY <1>1 DEF OwnInv, OneThreadPerCreator
<1> QED
  BY <1>2, OwnStep

\* Notifications of one's own threads remain such, and a thread's party may get one more.
LEMMA ToldSteps ==
    ASSUME TypeOK, TypeOK', OwnInv, Grows
    PROVE  /\ (\A u \in Users : notices'[u] \subseteq notices[u]) => Told'
           /\ \A u : \A t : Notify(u, t) /\ (u \in Users => t \in Mine(u)) => Told'
<1>1. \A u \in Users : notices[u] \subseteq Mine(u) /\ Mine(u) \subseteq Mine(u)'
  BY MineGrows DEF OwnInv, Told
<1>2. (\A u \in Users : notices'[u] \subseteq notices[u]) => Told'
  BY <1>1 DEF Told
<1>3. ASSUME NEW u, NEW t, Notify(u, t), u \in Users => t \in Mine(u)
      PROVE  Told'
  <2>1. \A x \in Users : notices'[x] = IF x = u THEN notices[x] \cup {t} ELSE notices[x]
    BY <1>3 DEF Notify, TypeOK
  <2> QED
    BY <1>1, <1>3, <2>1 DEF Told
<1> QED
  BY <1>2, <1>3

\* The list of chats holds threads of the user.
LEMMA ListIsOwn ==
    ASSUME TypeOK, TypeOK', OwnInv, Grows, NEW c \in Clients
    PROVE  /\ Mine(c) \subseteq Mine(c)' /\ list[c] \subseteq Mine(c)' /\ view[c].thread \in Mine(c)' \cup {0}
           /\ \A live : \A gone :
                  ShowList(c, live, gone) /\ live \subseteq alive => list'[c] \subseteq Mine(c)'
<1>1. Mine(c) \subseteq Mine(c)' /\ list[c] \subseteq Mine(c) /\ view[c].thread \in Mine(c) \cup {0}
  BY MineGrows DEF OwnInv, SeesOwn
<1>2. ASSUME NEW live, NEW gone, ShowList(c, live, gone), live \subseteq alive
      PROVE  list'[c] \subseteq Mine(c)'
  <2>1. list'[c] = ThreadsOf(c, live, gone)
    BY <1>2, ListOf
  <2>2. ThreadsOf(c, live, gone) \subseteq Mine(c)
    BY <1>2 DEF ThreadsOf, Mine, OwnInv, Serials
  <2> QED
    BY <1>1, <2>1, <2>2
<1> QED
  BY <1>1, <1>2

\* An operation that ends, or goes on, acts on what it has acted on.
LEMMA ActsSteps ==
    ASSUME TypeOK, TypeOK', OwnInv, Grows, NEW c \in Clients
    PROVE  /\ op'[c] = Idle => ActsOnOwn(c)'
           /\ op'[c].at \notin {"create", "first", "notice"} /\ op'[c].thread = op[c].thread
                  /\ op'[c].listed = op[c].listed => ActsOnOwn(c)'
           /\ op'[c] = op[c] /\ alive' \subseteq alive => ActsOnOwn(c)'
<1>1. Mine(c) \subseteq Mine(c)' /\ ActsOnOwn(c)
  BY MineGrows DEF OwnInv
<1>2. op'[c] = Idle => ActsOnOwn(c)'
  BY IdleTypes DEF ActsOnOwn
<1>3. op'[c].at \notin {"create", "first", "notice"} /\ op'[c].thread = op[c].thread
          /\ op'[c].listed = op[c].listed => ActsOnOwn(c)'
  BY <1>1 DEF ActsOnOwn
<1>4. op'[c] = op[c] /\ alive' \subseteq alive => ActsOnOwn(c)'
  <2>1. (\A t \in alive : parties'[t] = parties[t]) /\ \A t \in Mine(c) : parties'[t] = parties[t]
    BY DEF OwnInv, Serials, Grows, Mine
  <2> QED
    BY <1>1, <2>1 DEF ActsOnOwn
<1> QED
  BY <1>2, <1>3, <1>4

\* The steps of the widgets keep everybody to his own.
LEMMA WidgetOwn ==
    ASSUME TypeInv, TypeInv', OwnInv, NEW c \in Clients, Fits(c),
           \/ \E t \in Threads : Open(c, t)
           \/ Opened(c) \/ Poll(c) \/ Apply(c) \/ LoadOlder(c) \/ Back(c) \/ UpdateNotifBadge(c)
           \/ \E S \in SUBSET view[c].shown : HideMessages(c, S)
           \/ HideThread(c)
    PROVE  OwnInv'
<1>0. TypeOK /\ TypeOK' /\ Grows /\ view[c] \in View /\ view \in [Clients -> View]
  BY DEF TypeInv, TypeOK, Fits
<1>1. UNCHANGED <<op, notices>> /\ alive' = alive
  BY DEF Open, Opened, Poll, Apply, LoadOlder, Back, UpdateNotifBadge, HideMessages, HideThread, menu, rows
<1>2. ActsOnOwn(c)' /\ Told'
  BY <1>0, <1>1, ActsSteps, ToldSteps
<1>3. list'[c] \subseteq Mine(c)'
  <2>1. CASE UNCHANGED list
    BY <1>0, <2>1, ListIsOwn
  <2>2. CASE list' = [list EXCEPT ![c] = {}]
    BY <1>0, <2>2 DEF TypeOK
  <2>3. CASE \E gone : ShowList(c, alive, gone)
    BY <1>0, <2>3, ListIsOwn
  <2> QED
    BY <2>1, <2>2, <2>3 DEF Open, Opened, Poll, Apply, LoadOlder, Back, UpdateNotifBadge, HideMessages,
       HideThread, menu, ShowChat
<1>4. view'[c].thread \in Mine(c)' \cup {0}
  <2>1. CASE \E t \in Threads : Open(c, t)
    <3>1. PICK t \in Threads : Open(c, t)
      BY <2>1
    <3>2. view'[c].thread = t /\ t \in list[c]
      BY <1>0, <3>1, ShowMoves DEF Open
    <3> QED
      BY <1>0, <3>2, ListIsOwn
  <2>2. ASSUME ~\E t \in Threads : Open(c, t)
        PROVE  view'[c].thread = view[c].thread
    <3>1. CASE Opened(c)
      <4> DEFINE v == [view[c] EXCEPT !.opening = "no"]
                 full == view[c].opening = "other"
      <4>1. v \in View /\ v.thread = view[c].thread /\ full \in BOOLEAN
        BY <1>0 DEF View
      <4>2. view'[c] = RefreshMessages(v, Rows(c, v.thread), full)
        BY <1>0, <3>1 DEF Opened
      <4> HIDE DEF v, full
      <4> QED
        BY <4>1, <4>2, Refreshed
    <3>2. CASE Poll(c)
      <4>1. view'[c] = RefreshMessages(view[c], Rows(c, view[c].thread), FALSE)
        BY <1>0, <3>2 DEF Poll
      <4>3. \A full \in BOOLEAN : \A found : RefreshMessages(view[c], found, full).thread = view[c].thread
        BY <1>0, Refreshed
      <4> QED
        BY <4>1, <4>3
    <3>3. CASE Apply(c)
      <4>1. view'[c] = Applied(view[c]) /\ view[c].loading
        BY <1>0, <3>3 DEF Apply
      <4> QED
        BY <1>0, <4>1, DrawnOrTurned DEF Draws
    <3>4. CASE LoadOlder(c)
      BY <1>0, <3>4 DEF LoadOlder, View
    <3>5. CASE Back(c) \/ HideThread(c) \/ UpdateNotifBadge(c)
      BY <1>0, <3>5, ScreenStays DEF Back, HideThread, UpdateNotifBadge
    <3>6. CASE \E S \in SUBSET view[c].shown : HideMessages(c, S)
      <4>1. PICK S : HideMessages(c, S)
        BY <3>6
      <4>2. view'[c] = RefreshMessages(view[c], Rows(c, view[c].thread) \ S, TRUE)
        BY <1>0, <4>1 DEF HideMessages
      <4>3. \A full \in BOOLEAN : \A found : RefreshMessages(view[c], found, full).thread = view[c].thread
        BY <1>0, Refreshed
      <4> QED
        BY <4>2, <4>3
    <3> QED
      BY <2>2, <3>1, <3>2, <3>3, <3>4, <3>5, <3>6
  <2> QED
    BY <1>0, <2>1, <2>2, ListIsOwn
<1> QED
  BY <1>1, <1>2, <1>3, <1>4, OwnStepSameThreads

\* So do the steps that begin an operation or end it in the panel, and two that go on.
LEMMA BeginOwn ==
    ASSUME TypeInv, TypeInv', OwnInv, NEW c \in Clients, Fits(c),
           \/ \E p \in Users : EnsureThread(c, p)
           \/ \E n \in 1 .. 2 : Send(c, n)
           \/ DeleteThread(c) \/ OpenPanel(c) \/ MarkAllRead(c) \/ ClearNotices(c) \/ ClosePanel(c)
           \/ \E t \in Threads : OpenNotice(c, t)
           \/ CheckThread(c) \/ Notice(c)
    PROVE  OwnInv'
<1>0. /\ TypeOK /\ TypeOK' /\ Grows /\ view[c] \in View /\ view \in [Clients -> View]
      /\ op \in [Clients -> Op] /\ op[c] \in Op /\ c \in Users
  BY ChatUsers DEF TypeInv, TypeOK, Fits
<1>1. alive' = alive /\ parties' = parties
  BY DEF EnsureThread, Send, DeleteThread, OpenPanel, MarkAllRead, ClearNotices, ClosePanel,
     OpenNotice, CheckThread, Notice, rows
<1>2. ASSUME NEW p \in Users, EnsureThread(c, p)
      PROVE  OwnInv'
  <2>1. UNCHANGED notices /\ Told'
    BY <1>0, <1>2, ToldSteps DEF EnsureThread
  <2>2. ASSUME NEW t \in Between(c, p), ShowChat(c, t), UNCHANGED op
        PROVE  OwnInv'
    <3>1. view'[c].thread = t /\ list'[c] = {}
      BY <1>0, <2>2, ShowMoves
    <3>2. t \in Mine(c)
      BY DEF Between, Mine, OwnInv, Serials
    <3>3. ActsOnOwn(c)'
      BY <1>0, <1>1, <2>2, ActsSteps
    <3> QED
      BY <1>0, <1>1, <2>1, <3>1, <3>2, <3>3, ListIsOwn, OwnStepSameThreads
  <2>3. ASSUME Between(c, p) = {}, op' = [op EXCEPT ![c] = [Idle EXCEPT !.at = "create", !.peer = p]],
               UNCHANGED <<view, list>>
        PROVE  OwnInv'
    <3>1. op'[c] = [Idle EXCEPT !.at = "create", !.peer = p]
      BY <1>0, <2>3
    <3>2. op'[c].at = "create" /\ op'[c].peer = p /\ op'[c].thread = 0 /\ op'[c].listed = {}
      BY <3>1, IdleTypes DEF Op
    <3>3. \A t \in alive : parties[t] # [by |-> c, to |-> p]
      BY <2>3 DEF Between
    <3>4. ActsOnOwn(c)'
      BY <1>1, <3>2, <3>3 DEF ActsOnOwn
    <3> QED
      BY <1>0, <1>1, <2>1, <2>3, <3>4, ListIsOwn, OwnStepSameThreads
  <2> QED
    BY <1>2, <2>2, <2>3 DEF EnsureThread
<1>3. ASSUME (\E n \in 1 .. 2 : Send(c, n)) \/ DeleteThread(c)
      PROVE  OwnInv'
  <2>1. UNCHANGED <<view, list, notices>>
    BY <1>3 DEF Send, DeleteThread, menu
  <2>2. /\ op'[c].at \in {"check", "wipe"} /\ op'[c].thread = view[c].thread /\ op'[c].listed = {}
    <3>1. CASE \E n \in 1 .. 2 : Send(c, n)
      <4>1. PICK n \in 1 .. 2 : op'[c] = [Idle EXCEPT !.at = "check", !.thread = view[c].thread, !.left = n]
        BY <1>0, <3>1 DEF Send
      <4> QED
        BY <4>1, IdleTypes DEF Op
    <3>2. CASE DeleteThread(c)
      <4>1. op'[c] = [Idle EXCEPT !.at = "wipe", !.thread = view[c].thread]
        BY <1>0, <3>2 DEF DeleteThread
      <4> QED
        BY <4>1, IdleTypes DEF Op
    <3> QED
      BY <1>3, <3>1, <3>2
  <2>3. ActsOnOwn(c)'
    BY <1>0, <2>2, ListIsOwn DEF ActsOnOwn
  <2> QED
    BY <1>0, <1>1, <2>1, <2>3, ListIsOwn, ToldSteps, OwnStepSameThreads
<1>4. ASSUME OpenPanel(c)
      PROVE  OwnInv'
  <2>1. UNCHANGED <<view, list, notices>>
    BY <1>4 DEF OpenPanel, menu
  <2>2. op'[c].at = "panel" /\ op'[c].thread = op[c].thread /\ op'[c].listed = notices[c]
    BY <1>0, <1>4 DEF OpenPanel, Op
  <2>3. notices[c] \subseteq Mine(c)' /\ op[c].thread \in Mine(c)' \cup {0}
    BY <1>0, ListIsOwn DEF OwnInv, Told, ActsOnOwn
  <2>4. ActsOnOwn(c)'
    BY <2>2, <2>3 DEF ActsOnOwn
  <2> QED
    BY <1>0, <1>1, <2>1, <2>4, ListIsOwn, ToldSteps, OwnStepSameThreads
<1>5. ASSUME MarkAllRead(c) \/ ClearNotices(c) \/ ClosePanel(c)
      PROVE  OwnInv'
  <2>1. UNCHANGED view /\ op'[c] = Idle
    BY <1>0, <1>5 DEF MarkAllRead, ClearNotices, ClosePanel
  <2>2. list'[c] \subseteq Mine(c)'
    BY <1>0, <1>5, ListIsOwn DEF MarkAllRead, ClearNotices, ClosePanel
  <2>3. \A u \in Users : notices'[u] \subseteq notices[u]
    BY <1>0, <1>5 DEF MarkAllRead, ClearNotices, ClosePanel, TypeOK
  <2> QED
    BY <1>0, <1>1, <2>1, <2>2, <2>3, ListIsOwn, ToldSteps, ActsSteps, OwnStepSameThreads
<1>6. ASSUME NEW t \in Threads, OpenNotice(c, t)
      PROVE  OwnInv'
  <2>1. view'[c].thread = t /\ list'[c] = {}
    BY <1>0, <1>6, ShowMoves DEF OpenNotice
  <2>2. t \in Mine(c)
    BY <1>6 DEF OpenNotice, OwnInv, ActsOnOwn
  <2>3. op'[c] = Idle /\ UNCHANGED notices
    BY <1>0, <1>6 DEF OpenNotice
  <2> QED
    BY <1>0, <1>1, <2>1, <2>2, <2>3, ListIsOwn, ToldSteps, ActsSteps, OwnStepSameThreads
<1>7. ASSUME CheckThread(c)
      PROVE  OwnInv'
  <2>1. UNCHANGED <<view, list, notices>>
    BY <1>7 DEF CheckThread, menu
  <2>2. ActsOnOwn(c)'
    <3>1. CASE op[c].thread \in alive
      <4>1. op'[c] = [op[c] EXCEPT !.at = "insert"]
        BY <1>0, <1>7, <3>1 DEF CheckThread
      <4>2. op'[c].at = "insert" /\ op'[c].thread = op[c].thread /\ op'[c].listed = op[c].listed
        BY <1>0, <4>1 DEF Op
      <4> QED
        BY <1>0, <4>2, ActsSteps
    <3>2. CASE op[c].thread \notin alive
      BY <1>0, <1>7, <3>2, ActsSteps DEF CheckThread
    <3> QED
      BY <3>1, <3>2
  <2> QED
    BY <1>0, <1>1, <2>1, <2>2, ListIsOwn, ToldSteps, OwnStepSameThreads
<1>8. ASSUME Notice(c)
      PROVE  OwnInv'
  <2>1. UNCHANGED <<view, list>> /\ op'[c] = Idle /\ Notify(op[c].peer, op[c].thread) /\ op[c].at = "notice"
    BY <1>0, <1>8 DEF Notice
  <2>2. op[c].thread \in Mine(op[c].peer)
    BY <2>1 DEF OwnInv, ActsOnOwn, Mine
  <2>3. Told'
    BY <1>0, <2>1, <2>2, ToldSteps
  <2> QED
    BY <1>0, <1>1, <2>1, <2>3, ListIsOwn, ActsSteps, OwnStepSameThreads
<1> QED
  BY <1>2, <1>3, <1>4, <1>5, <1>6, <1>7, <1>8

\* The row of a new thread: nobody else could have created one for that recipient.
LEMMA CreateOwn ==
    ASSUME TypeInv, TypeInv', OwnInv, NEW c \in Clients, Fits(c), CreateThread(c)
    PROVE  OwnInv'
<1>0. /\ TypeOK /\ TypeOK' /\ Grows /\ op \in [Clients -> Op] /\ op[c] \in Op /\ op[c].at = "create"
      /\ UNCHANGED <<view, list, notices>>
  BY DEF TypeInv, TypeOK, Fits, CreateThread, menu
<1>1. /\ view'[c].thread \in Mine(c)' \cup {0} /\ list'[c] \subseteq Mine(c)' /\ Told'
  BY <1>0, ListIsOwn, ToldSteps
<1>2. CASE op' = [op EXCEPT ![c] = Idle] /\ UNCHANGED <<parties, alive, nextThread>>
  <2>1. op'[c] = Idle
    BY <1>0, <1>2
  <2>2. ActsOnOwn(c)'
    BY <1>0, <2>1, ActsSteps
  <2> QED
    BY <1>1, <1>2, <2>2, OwnStepSameThreads
<1>3. ASSUME nextThread \in Threads,
             parties' = [parties EXCEPT ![nextThread] = [by |-> c, to |-> op[c].peer]],
             alive' = alive \cup {nextThread}, nextThread' = nextThread + 1,
             op' = [op EXCEPT ![c].at = "first", ![c].thread = nextThread]
      PROVE  OwnInv'
  <2>1. parties'[nextThread] = [by |-> c, to |-> op[c].peer]
    BY <1>0, <1>3 DEF TypeOK
  <2>2. \A t \in alive : t # nextThread /\ parties'[t] = parties[t]
    <3>1. \A t \in 1 .. nextThread - 1 : t # nextThread
      BY <1>3, ChatBounds DEF Threads
    <3> QED
      BY <3>1 DEF OwnInv, Serials, Fits, Grows
  <2>3. \A t \in alive : parties[t] # [by |-> c, to |-> op[c].peer]
    BY <1>0 DEF OwnInv, ActsOnOwn
  <2>4. OneThreadPerCreator'
    <3>1. SUFFICES ASSUME NEW t \in alive', NEW s \in alive', parties'[t] = parties'[s]
                   PROVE  t = s
      BY DEF OneThreadPerCreator
    <3>2. CASE t \in alive /\ s \in alive
      BY <2>2, <3>1, <3>2 DEF OwnInv, OneThreadPerCreator
    <3>3. CASE t = nextThread \/ s = nextThread
      BY <1>3, <2>1, <2>2, <2>3, <3>1, <3>3
    <3> QED
      BY <1>3, <3>2, <3>3
  <2>5. \A t \in alive' \ alive : parties'[t].by = c
    BY <1>3, <2>1
  <2>6. nextThread \in Mine(c)'
    <3>1. nextThread \in 1 .. nextThread' - 1
      <4>1. \A n \in Nat : n >= 1 => n \in 1 .. (n + 1) - 1
        OBVIOUS
      <4>2. nextThread \in Nat /\ nextThread >= 1
        BY <1>3, ChatBounds DEF Threads
      <4> QED
        BY <1>3, <4>1, <4>2
    <3> QED
      BY <2>1, <3>1 DEF Mine
  <2>7. /\ op'[c].at = "first" /\ op'[c].thread = nextThread /\ op'[c].peer = op[c].peer
        /\ op'[c].listed = op[c].listed
    BY <1>0, <1>3 DEF Op
  <2>8. op[c].listed \subseteq Mine(c)'
    BY <1>0, ListIsOwn DEF OwnInv, ActsOnOwn
  <2>9. ActsOnOwn(c)'
    BY <2>1, <2>6, <2>7, <2>8 DEF ActsOnOwn
  <2> QED
    BY <1>1, <2>4, <2>5, <2>9, OwnStep
<1> QED
  BY <1>2, <1>3 DEF CreateThread

\* The other statements keep everybody to his own.
LEMMA TableOwn ==
    ASSUME TypeInv, TypeInv', OwnInv, NEW c \in Clients, Fits(c),
           \/ FirstMessage(c) \/ UndoThread(c) \/ InsertMessage(c)
           \/ NotifyPeer(c) \/ WipeMessages(c) \/ DropThread(c)
    PROVE  OwnInv'
<1>0. /\ TypeOK /\ TypeOK' /\ Grows /\ view[c] \in View /\ view \in [Clients -> View]
      /\ op \in [Clients -> Op] /\ op[c] \in Op
  BY DEF TypeInv, TypeOK, Fits
<1>1. ASSUME FirstMessage(c)
      PROVE  OwnInv'
  <2>1. Told' /\ alive' \subseteq alive /\ parties' = parties
    BY <1>0, <1>1, ToldSteps DEF FirstMessage, StoreMessage, rows
  <2>2. op[c].thread \in Mine(c) /\ parties[op[c].thread].to = op[c].peer /\ op[c].listed \subseteq Mine(c)
    BY <1>1 DEF FirstMessage, OwnInv, ActsOnOwn
  <2>3. ASSUME op' = [op EXCEPT ![c].at = "notice"], ShowChat(c, op[c].thread)
        PROVE  OwnInv'
    <3>1. view'[c].thread = op[c].thread /\ list'[c] = {}
      BY <1>0, <2>3, ShowMoves
    <3>2. /\ op'[c].at = "notice" /\ op'[c].thread = op[c].thread /\ op'[c].peer = op[c].peer
          /\ op'[c].listed = op[c].listed
      BY <1>0, <2>3 DEF Op
    <3>3. Mine(c) \subseteq Mine(c)'
      BY <1>0, ListIsOwn
    <3>4. ActsOnOwn(c)'
      BY <2>1, <2>2, <3>2, <3>3 DEF ActsOnOwn
    <3> QED
      BY <2>1, <2>2, <3>1, <3>3, <3>4, OwnStepSameThreads
  <2>4. ASSUME op' = [op EXCEPT ![c].at = "undo"], UNCHANGED <<rows, view, list>>
        PROVE  OwnInv'
    <3>1. op'[c].at = "undo" /\ op'[c].thread = op[c].thread /\ op'[c].listed = op[c].listed
      BY <1>0, <2>4 DEF Op
    <3> QED
      BY <1>0, <2>1, <2>4, <3>1, ActsSteps, ListIsOwn, OwnStepSameThreads
  <2> QED
    BY <1>1, <2>3, <2>4 DEF FirstMessage
<1>2. ASSUME UndoThread(c)
      PROVE  OwnInv'
  <2>1. UNCHANGED <<view, list, notices>> /\ alive' \subseteq alive /\ op'[c] = Idle
    BY <1>0, <1>2 DEF UndoThread, menu
  <2> QED
    BY <1>0, <2>1, ActsSteps, ListIsOwn, ToldSteps, OwnStepSameThreads
<1>3. ASSUME InsertMessage(c)
      PROVE  OwnInv'
  <2>1. UNCHANGED <<view, list, notices>> /\ alive' \subseteq alive
    BY <1>0, <1>3 DEF InsertMessage, StoreMessage, menu, rows
  <2>2. ActsOnOwn(c)'
    <3>1. CASE op' = [op EXCEPT ![c].left = @ - 1, ![c].at = IF op[c].left > 1 THEN "check" ELSE "notify"]
      <4>1. /\ op'[c].at \in {"check", "notify"} /\ op'[c].thread = op[c].thread
            /\ op'[c].listed = op[c].listed
        BY <1>0, <3>1 DEF Op
      <4> QED
        BY <1>0, <4>1, ActsSteps
    <3>2. CASE op' = [op EXCEPT ![c] = Idle]
      <4>1. op'[c] = Idle
        BY <1>0, <3>2
      <4> QED
        BY <1>0, <4>1, ActsSteps
    <3> QED
      BY <1>3, <3>1, <3>2 DEF InsertMessage
  <2> QED
    BY <1>0, <2>1, <2>2, ListIsOwn, ToldSteps, OwnStepSameThreads
<1>4. ASSUME NotifyPeer(c)
      PROVE  OwnInv'
  <2>1. UNCHANGED list /\ alive' \subseteq alive /\ op'[c] = Idle
    BY <1>0, <1>4 DEF NotifyPeer, rows
  <2>2. view'[c].thread = view[c].thread
    <3> DEFINE v == [view[c] EXCEPT !.bottom = TRUE]
    <3>1. v \in View /\ v.thread = view[c].thread
      BY <1>0 DEF View
    <3>2. view'[c] = RefreshMessages(v, Rows(c, view[c].thread), FALSE)
      BY <1>0, <1>4 DEF NotifyPeer
    <3> HIDE DEF v
    <3>3. \A full \in BOOLEAN : \A found : RefreshMessages(v, found, full).thread = v.thread
      BY <3>1, Refreshed
    <3> QED
      BY <3>1, <3>2, <3>3
  <2>3. Told'
    <3> DEFINE t == op[c].thread
               other == IF parties[t].by = c THEN parties[t].to ELSE parties[t].by
    <3>1. CASE t \in alive
      <4>1. Notify(other, t)
        BY <1>4, <3>1 DEF NotifyPeer
      <4>2. t \in Mine(other)
        BY <3>1 DEF OwnInv, Serials, Mine
      <4> HIDE DEF t, other
      <4> QED
        BY <1>0, <4>1, <4>2, ToldSteps
    <3>2. CASE t \notin alive
      <4>1. UNCHANGED notices
        BY <1>4, <3>2 DEF NotifyPeer
      <4> QED
        BY <1>0, <4>1, ToldSteps
    <3> QED
      BY <3>1, <3>2
  <2> QED
    BY <1>0, <2>1, <2>2, <2>3, ActsSteps, ListIsOwn, OwnStepSameThreads
<1>5. ASSUME WipeMessages(c)
      PROVE  OwnInv'
  <2>1. UNCHANGED <<view, list, notices>> /\ alive' \subseteq alive
    BY <1>0, <1>5 DEF WipeMessages, menu
  <2>2. ActsOnOwn(c)'
    <3>1. CASE op' = [op EXCEPT ![c].at = "drop"]
      <4>1. op'[c].at = "drop" /\ op'[c].thread = op[c].thread /\ op'[c].listed = op[c].listed
        BY <1>0, <3>1 DEF Op
      <4> QED
        BY <1>0, <4>1, ActsSteps
    <3>2. CASE op' = [op EXCEPT ![c] = Idle]
      <4>1. op'[c] = Idle
        BY <1>0, <3>2
      <4> QED
        BY <1>0, <4>1, ActsSteps
    <3> QED
      BY <1>5, <3>1, <3>2 DEF WipeMessages
  <2> QED
    BY <1>0, <2>1, <2>2, ListIsOwn, ToldSteps, OwnStepSameThreads
<1>6. ASSUME DropThread(c)
      PROVE  OwnInv'
  <2>1. UNCHANGED notices /\ alive' \subseteq alive /\ op'[c] = Idle
    BY <1>0, <1>6 DEF DropThread
  <2>2. view'[c].thread = view[c].thread
    BY <1>0, <1>6, ScreenStays DEF DropThread
  <2>3. list'[c] \subseteq Mine(c)'
    BY <1>0, <1>6, <2>1, ListIsOwn DEF DropThread
  <2> QED
    BY <1>0, <2>1, <2>2, <2>3, ActsSteps, ListIsOwn, ToldSteps, OwnStepSameThreads
<1> QED
  BY <1>1, <1>2, <1>3, <1>4, <1>5, <1>6

\* At the start nobody sees anything.
LEMMA InitOwn ==
    ASSUME Init
    PROVE  OwnInv
<1>1. Serials /\ OneThreadPerCreator /\ Told
  BY DEF Init, Serials, OneThreadPerCreator, Told
<1>2. ASSUME NEW c \in Clients
      PROVE  Remembers(c) /\ SeesOwn(c) /\ ActsOnOwn(c)
  <2>1. view[c] = Blank /\ op[c] = Idle /\ list[c] = {} /\ nextMessage = 1
    BY DEF Init
  <2>2. /\ Blank.shown = {} /\ Blank.batch = {} /\ Blank.last = 0 /\ Blank.oldest = 0
        /\ Blank.thread = 0 /\ ~Blank.loading
    BY DEF Blank
  <2> QED
    BY <2>1, <2>2, IdleTypes DEF Remembers, SeesOwn, ActsOnOwn
<1> QED
  BY <1>1, <1>2 DEF OwnInv

\* Every step keeps everybody to his own.
LEMMA NextOwn ==
    ASSUME TypeInv, TypeInv', OwnInv, [Next]_vars
    PROVE  OwnInv'
<1>1. CASE UNCHANGED vars
  BY <1>1 DEF OwnInv, Serials, Told, OneThreadPerCreator, Remembers, SeesOwn, ActsOnOwn, Mine,
     vars, rows, hides, menu
<1>2. CASE Next
  BY <1>2, WidgetFits, BeginFits, TableFits, WidgetOwn, BeginOwn, CreateOwn, TableOwn DEF Next, Proceed
<1> QED
  BY <1>1, <1>2

\* The invariant holds in every state.
LEMMA OwnHolds == Spec => [](TypeInv /\ OwnInv)
<1>1. Init => TypeInv /\ OwnInv
  BY InitTypes, InitOwn
<1>2. TypeInv /\ OwnInv /\ [Next]_vars => (TypeInv /\ OwnInv)'
  BY NextTypes, NextOwn
<1> QED
  BY <1>1, <1>2, PTL DEF Spec

\* The privacy rule: whatever is opened, sent, hidden, deleted or still being decrypted, rows,
\* chats and notifications reach nobody but the creator and the recipient of their thread.
THEOREM ChatsArePrivate == Spec => []Private
<1>1. OwnInv => Private
  BY DEF OwnInv, SeesOwn, Told, Mine, Private
<1> QED
  BY <1>1, OwnHolds, PTL

\* A user who looks somebody up finds the thread there is, also one that the other created: he
\* never creates a second one, even when the first could not be given its message.
THEOREM ThreadsAreSingle == Spec => []OneThreadPerCreator
<1>1. OwnInv => OneThreadPerCreator
  BY DEF OwnInv
<1> QED
  BY <1>1, OwnHolds, PTL

-----------------------------------------------------------------------------
(* No hole on a screen.                                                    *)

\* What a step does to the tables tears no hole: a message that is new for a user is newer
\* than all his widget remembers.
LEMMA TablesKeepWhole ==
    ASSUME TypeOK, TypeOK', Grows, Serials, NEW u \in Clients, Remembers(u), Whole(view[u], Seen(u), threadOf)
    PROVE  Whole(view[u], Seen(u)', threadOf')
<1> DEFINE v == view[u]
<1>0. /\ v.last \in Nat /\ v.oldest \in Nat /\ v.batch \in SUBSET Messages
      /\ nextMessage \in Nat /\ v.last < nextMessage
      /\ \A m \in v.shown \cup v.batch : m < nextMessage /\ threadOf'[m] = threadOf[m]
  <2>1. v \in View
    BY DEF TypeOK
  <2>2. nextMessage \in Nat
    BY SerialTypes
  <2>3. \A m \in v.shown \cup v.batch : m \in 1 .. nextMessage - 1
    BY DEF Remembers
  <2>4. \A m \in 1 .. nextMessage - 1 : m < nextMessage
    BY <2>2
  <2> QED
    BY <2>1, <2>2, <2>3, <2>4, ViewFields, MineGrows DEF Remembers
<1>1. ASSUME NEW m \in Seen(u)'
      PROVE  \/ m \in Seen(u) /\ threadOf'[m] = threadOf[m]
             \/ m \in Nat /\ m >= nextMessage
  <2>1. m \in stored' /\ <<m, u>> \notin hidden
    BY DEF Seen, Grows
  <2>2. CASE m \in stored
    BY <2>1, <2>2 DEF Seen, Serials, Grows
  <2>3. CASE m \in nextMessage .. nextMessage' - 1
    BY <1>0, <2>3
  <2> QED
    BY <2>1, <2>2, <2>3 DEF Grows
<1>2. Largest(v.batch) \in Nat /\ Largest(v.batch) < nextMessage
  <2>1. v.batch = {} \/ Largest(v.batch) \in v.batch
    BY <1>0, Ends
  <2>2. CASE v.batch = {}
    <3>1. Largest(v.batch) = 0
      BY <1>0, <2>2, Ends
    <3> QED
      BY <3>1, SerialTypes
  <2>3. CASE Largest(v.batch) \in v.batch
    <3>1. Largest(v.batch) \in Messages
      BY <1>0, <2>3
    <3> QED
      BY <1>0, <2>3, <3>1, ChatBounds DEF Messages
  <2> QED
    BY <2>1, <2>2, <2>3
<1>3. NoHoleOnScreen(v, Seen(u)', threadOf')
  <2>1. ASSUME NEW m \in Nat, m >= nextMessage
        PROVE  m > v.last
    BY <1>0, <2>1
  <2> QED
    BY <1>0, <1>1, <2>1 DEF Whole, NoHoleOnScreen
<1>4. NoHoleInRefresh(v, Seen(u)', threadOf')
  <2>1. ASSUME NEW m \in Nat, m >= nextMessage
        PROVE  m > Largest(v.batch)
    BY <1>0, <1>2, <2>1
  <2> QED
    BY <1>0, <1>1, <2>1 DEF Whole, NoHoleInRefresh
<1>5. NoHoleInReload(v, Seen(u)', threadOf')
  <2>1. ASSUME NEW m \in Nat, m >= nextMessage
        PROVE  m > Largest(v.batch)
    BY <1>0, <1>2, <2>1
  <2> QED
    BY <1>0, <1>1, <2>1 DEF Whole, NoHoleInReload
<1> QED
  BY <1>3, <1>4, <1>5 DEF Whole

\* A worker starts: what it holds has no hole.
LEMMA StartsWhole ==
    ASSUME NEW v \in View, NEW w \in View, NEW S \in SUBSET Messages, NEW T,
           Starts(v, w, {m \in S : T[m] = v.thread}), Whole(v, S, T),
           v.last = 0 => v.oldest = 0, v.batch = {}
    PROVE  Whole(w, S, T)
<1> DEFINE found == {m \in S : T[m] = v.thread}
<1>0. /\ v.last \in Nat /\ v.oldest \in Nat /\ found \in SUBSET Messages /\ Messages \subseteq Nat
      /\ w.thread = v.thread /\ w.oldest = v.oldest /\ w.last = v.last /\ w.loading /\ ~v.loading
      /\ w.batch \in SUBSET Messages
  <2>1. Messages \subseteq Nat
    BY ChatBounds DEF Messages
  <2>4. found \in SUBSET Messages
    OBVIOUS
  <2>2. v.last \in Nat /\ v.oldest \in Nat /\ w.batch \in SUBSET Messages
    BY ViewFields
  <2>3. /\ w.thread = v.thread /\ w.oldest = v.oldest /\ w.last = v.last /\ w.loading /\ ~v.loading
    BY DEF Starts
  <2> HIDE DEF found
  <2> QED
    BY <2>1, <2>2, <2>3, <2>4, Zenon
<1>1. CASE w.full /\ w.shown = {} /\ w.batch = Newest(found)
  <2>1. ASSUME NEW k \in w.batch, NEW m \in S, T[m] = T[k], m \notin w.batch
        PROVE  m < Smallest(w.batch)
    <3>1. k \in found /\ m \in found
      BY <1>1, <2>1 DEF Newest
    <3>2. Smallest(w.batch) \in w.batch /\ Smallest(w.batch) \in Newest(found)
      BY <1>0, <1>1, <2>1, Ends
    <3>3. Smallest(w.batch) \in found
      BY <3>2 DEF Newest
    <3>4. ~(Smallest(w.batch) < m)
      BY <1>0, <1>1, <2>1, <3>1, <3>2, PageIsTop
    <3>5. m # Smallest(w.batch) /\ m \in Nat /\ Smallest(w.batch) \in Nat
      BY <1>0, <2>1, <3>1, <3>2, <3>3
    <3> QED
      BY <3>4, <3>5
  <2>2. NoHoleInReload(w, S, T)
    BY <2>1 DEF NoHoleInReload
  <2> QED
    BY <1>0, <1>1, <2>2 DEF Whole, NoHoleOnScreen, NoHoleInRefresh
<1>2. CASE ~w.full /\ v.last = 0
  BY <1>0, <1>2 DEF Whole, NoHoleOnScreen, NoHoleInRefresh, NoHoleInReload
<1>3. CASE ~w.full /\ w.shown = v.shown /\ v.last > 0 /\ w.batch = {m \in found : m > v.last}
  <2>1. NoHoleInRefresh(w, S, T)
    <3>1. ASSUME NEW m \in S, T[m] = w.thread
          PROVE  m <= w.last \/ m \in w.batch
      <4>1. m \in Nat /\ m \in found
        BY <1>0, <3>1
      <4> QED
        BY <1>0, <1>3, <4>1
    <3> QED
      BY <3>1 DEF NoHoleInRefresh
  <2>2. NoHoleOnScreen(w, S, T)
    BY <1>0, <1>3 DEF Whole, NoHoleOnScreen
  <2>3. NoHoleInReload(w, S, T)
    BY <1>3 DEF NoHoleInReload
  <2> QED
    BY <2>1, <2>2, <2>3 DEF Whole
<1> QED
  BY <1>1, <1>2, <1>3 DEF Starts

\* Its rows are drawn: they close up with what was drawn.
LEMMA DrawsWhole ==
    ASSUME NEW v \in View, NEW w \in View, NEW S \in SUBSET Messages, NEW T,
           Draws(v, w), Whole(v, S, T)
    PROVE  Whole(w, S, T)
<1>0. /\ v.last \in Nat /\ v.oldest \in Nat /\ v.batch \in SUBSET Messages /\ S \subseteq Nat
      /\ w.thread = v.thread /\ w.shown = v.shown \cup v.batch /\ w.batch = {} /\ ~w.loading /\ v.loading
  BY ViewFields, ChatBounds DEF Draws, Messages
<1>1. NoHoleInRefresh(w, S, T) /\ NoHoleInReload(w, S, T)
  BY <1>0 DEF NoHoleInRefresh, NoHoleInReload
<1>2. CASE v.full
  <2>1. w.oldest = Smallest(v.batch) /\ w.last = Largest(v.batch)
    BY <1>2 DEF Draws
  <2>2. CASE v.batch = {}
    <3>1. w.oldest = 0
      BY <1>0, <2>1, <2>2, Ends
    <3> QED
      BY <1>1, <3>1 DEF Whole, NoHoleOnScreen
  <2>3. CASE \E k \in v.batch : T[k] # v.thread
    BY <1>0, <1>1, <2>3 DEF Whole, NoHoleOnScreen
  <2>4. CASE v.batch # {} /\ \A k \in v.batch : T[k] = v.thread
    <3>1. ASSUME NEW m \in S, T[m] = w.thread
          PROVE  m \in w.shown \/ m < w.oldest \/ m > w.last
      <4>1. PICK k \in v.batch : T[m] = T[k]
        BY <1>0, <2>4, <3>1
      <4>2. m \in v.batch \/ m < Smallest(v.batch) \/ m > Largest(v.batch)
        BY <1>0, <1>2, <4>1 DEF Whole, NoHoleInReload
      <4> QED
        BY <1>0, <2>1, <4>2
    <3> QED
      BY <1>1, <3>1 DEF Whole, NoHoleOnScreen
  <2> QED
    BY <2>2, <2>3, <2>4
<1>3. CASE ~v.full
  <2> DEFINE R == v.batch \cup ({v.last} \ {0})
  <2>1. w.oldest = v.oldest /\ w.last = Largest(R)
    BY <1>3 DEF Draws
  <2>2. R \in SUBSET Messages /\ v.batch \subseteq R /\ v.last \in R \cup {0}
    BY <1>0 DEF View
  <2> HIDE DEF R
  <2>3. Largest(R) \in Nat /\ v.last <= Largest(R) /\ \A m \in v.batch : m <= Largest(R)
    <3>1. Largest(R) \in Messages \cup {0} /\ \A m \in R : m <= Largest(R)
      BY <2>2, Ends
    <3>2. Largest(R) \in Nat
      BY <3>1, ChatBounds DEF Messages
    <3> QED
      BY <2>2, <3>1, <3>2
  <2>4. CASE v.oldest = 0
    BY <1>1, <2>1, <2>4 DEF Whole, NoHoleOnScreen
  <2>5. CASE \E m \in v.shown \cup v.batch : T[m] # v.thread
    BY <1>0, <1>1, <2>5 DEF Whole, NoHoleOnScreen
  <2>6. CASE v.oldest # 0 /\ ~\E m \in v.shown \cup v.batch : T[m] # v.thread
    <3>1. ASSUME NEW m \in S, T[m] = w.thread
          PROVE  m \in w.shown \/ m < w.oldest \/ m > w.last
      <4>0. m \in Nat /\ T[m] = v.thread
        BY <1>0, <3>1
      <4>1. m \in v.shown \/ m < v.oldest \/ m > v.last
        BY <1>3, <2>6, <4>0 DEF Whole, NoHoleOnScreen
      <4>2. m <= v.last \/ m \in v.batch \/ m > Largest(v.batch)
        BY <1>0, <1>3, <2>6, <4>0 DEF Whole, NoHoleInRefresh
      <4>3. CASE m > v.last /\ m > Largest(v.batch)
        <5>1. R = {} \/ Largest(R) \in R
          BY <2>2, Ends
        <5>2. Largest(R) \in v.batch \/ Largest(R) = v.last \/ Largest(R) = 0
          BY <2>2, <5>1, Ends DEF R
        <5>3. Largest(R) <= v.last \/ Largest(R) <= Largest(v.batch)
          BY <1>0, <2>3, <5>2, Ends
        <5>4. Largest(v.batch) \in Nat
          <6>1. Largest(v.batch) \in Messages \cup {0}
            BY <1>0, Ends
          <6> QED
            BY <6>1, ChatBounds DEF Messages
        <5>5. m > Largest(R)
          BY <1>0, <2>3, <4>0, <4>3, <5>3, <5>4
        <5> QED
          BY <2>1, <5>5
      <4>4. CASE m \in v.shown \/ m \in v.batch \/ m < v.oldest
        BY <1>0, <2>1, <4>4
      <4>5. m > v.last => ~(m <= v.last)
        BY <1>0, <4>0
      <4> QED
        BY <4>1, <4>2, <4>3, <4>4, <4>5
    <3> QED
      BY <1>1, <3>1 DEF Whole, NoHoleOnScreen
  <2> QED
    BY <2>4, <2>5, <2>6
<1> QED
  BY <1>2, <1>3

\* Older rows are drawn: they end where the drawn ones begin.
LEMMA WidensWhole ==
    ASSUME NEW v \in View, NEW w \in View, NEW S \in SUBSET Messages, NEW T,
           Widens(v, w, {m \in S : T[m] = v.thread}), Whole(v, S, T)
    PROVE  Whole(w, S, T)
<1> DEFINE older == {m \in {i \in S : T[i] = v.thread} : m < v.oldest}
           page == Newest(older)
<1>0. /\ v.last \in Nat /\ v.oldest \in Nat /\ v.oldest # 0 /\ S \subseteq Nat
      /\ older \in SUBSET Messages /\ page \in SUBSET Messages /\ page \subseteq older
      /\ w.thread = v.thread /\ w.last = v.last /\ w.loading = v.loading /\ w.full = v.full
      /\ w.batch = v.batch /\ w.shown = v.shown \cup page /\ w.oldest = Smallest(page)
  <2>1. page \subseteq older
    BY DEF Newest
  <2>2. v.last \in Nat /\ v.oldest \in Nat /\ Messages \subseteq Nat
    BY ViewFields, ChatBounds DEF Messages
  <2>3. v.oldest # 0
    BY <2>2 DEF Widens
  <2>4. older \in SUBSET Messages
    OBVIOUS
  <2>5. page \in SUBSET Messages
    BY <2>1, <2>4
  <2>6. /\ w.thread = v.thread /\ w.last = v.last /\ w.loading = v.loading /\ w.full = v.full
        /\ w.batch = v.batch /\ w.shown = v.shown \cup page /\ w.oldest = Smallest(page)
    BY DEF Widens
  <2>7. S \subseteq Nat
    BY <2>2
  <2> HIDE DEF page, older
  <2> QED
    BY <2>1, <2>2, <2>3, <2>4, <2>5, <2>6, <2>7
<1>1. NoHoleInRefresh(w, S, T) /\ NoHoleInReload(w, S, T)
  BY <1>0 DEF Whole, NoHoleInRefresh, NoHoleInReload
<1>2. CASE (v.loading /\ v.full) \/ \E m \in v.shown \cup v.batch : T[m] # v.thread
  BY <1>0, <1>1, <1>2 DEF Whole, NoHoleOnScreen
<1>3. CASE w.oldest = 0
  BY <1>1, <1>3 DEF Whole, NoHoleOnScreen
<1>4. ASSUME \A m \in S : T[m] = v.thread => m \in v.shown \/ m < v.oldest \/ m > v.last, w.oldest # 0
      PROVE  Whole(w, S, T)
  <2>1. ASSUME NEW m \in S, T[m] = w.thread
        PROVE  m \in w.shown \/ m < w.oldest \/ m > w.last
    <3>1. CASE m \in v.shown \/ m > v.last
      BY <1>0, <3>1
    <3>2. CASE m < v.oldest
      <4>1. m \in older
        BY <1>0, <2>1, <3>2
      <4> HIDE DEF older
      <4>2. Smallest(page) \in page
        BY <1>0, <1>4, Ends
      <4>3. m \in page \/ ~(Smallest(page) < m)
        BY <1>0, <4>1, <4>2, PageIsTop
      <4>4. m \in Nat /\ Smallest(page) \in Nat
        BY <1>0, <4>2, ChatBounds DEF Messages
      <4>5. m \in page \/ m < Smallest(page)
        BY <4>2, <4>3, <4>4
      <4> QED
        BY <1>0, <4>5
    <3> QED
      BY <1>0, <1>4, <2>1, <3>1, <3>2
  <2> QED
    BY <1>1, <2>1 DEF Whole, NoHoleOnScreen
<1> QED
  BY <1>0, <1>2, <1>3, <1>4 DEF Whole, NoHoleOnScreen

\* A screen that stays, or turns to a thread of which it remembers nothing.
LEMMA StaysWhole ==
    ASSUME NEW v, NEW w, NEW S, NEW T, Stays(v, w) \/ Turns(v, w), Whole(v, S, T)
    PROVE  Whole(w, S, T)
<1>1. CASE Stays(v, w)
  BY <1>1 DEF Stays, Whole, NoHoleOnScreen, NoHoleInRefresh, NoHoleInReload
<1>2. CASE Turns(v, w)
  BY <1>2 DEF Turns, Whole, NoHoleOnScreen, NoHoleInRefresh, NoHoleInReload
<1> QED
  BY <1>1, <1>2

\* Every step keeps every screen whole.
LEMMA NextWhole ==
    ASSUME TypeInv, TypeInv', OwnInv, GapInv, [Next]_vars
    PROVE  GapInv'
<1>1. CASE UNCHANGED vars
  BY <1>1 DEF GapInv, Seen, vars, rows, hides
<1>2. CASE Next
  <2>0. TypeOK /\ TypeOK' /\ Serials
    BY DEF TypeInv, OwnInv
  <2>1. PICK c \in Clients : Fits(c)
    BY <1>2, NextFits
  <2>2. ASSUME NEW d \in Clients
        PROVE  Whole(view[d], Seen(d)', threadOf')
    BY <2>0, <2>1, <2>2, TablesKeepWhole DEF Fits, GapInv, OwnInv
  <2>3. ASSUME NEW d \in Clients \ {c}
        PROVE  Whole(view[d], Seen(d), threadOf)'
    BY <2>1, <2>2, <2>3 DEF Fits, OthersKept
  <2>4. Whole(view[c], Seen(c), threadOf)'
    <3>1. view[c] \in View /\ view'[c] \in View /\ Seen(c)' \in SUBSET Messages
      BY <2>0 DEF TypeOK, Seen
    <3>2. Fresh(c) = {m \in Seen(c)' : threadOf'[m] = view[c].thread}
      BY DEF Fresh, Seen
    <3>3. Whole(view[c], Seen(c)', threadOf')
      BY <2>2
    <3>4. Remembers(c)
      BY DEF OwnInv
    <3>5. CASE Stays(view[c], view'[c]) \/ Turns(view[c], view'[c])
      BY <3>3, <3>5, StaysWhole
    <3>6. CASE Starts(view[c], view'[c], Fresh(c))
      <4>1. (view[c].last = 0 => view[c].oldest = 0) /\ view[c].batch = {}
        BY <3>4, <3>6 DEF Remembers, Starts
      <4> QED
        BY <3>1, <3>2, <3>3, <3>6, <4>1, StartsWhole
    <3>7. CASE Draws(view[c], view'[c])
      BY <3>1, <3>3, <3>7, DrawsWhole
    <3>8. CASE Widens(view[c], view'[c], Fresh(c))
      BY <3>1, <3>2, <3>3, <3>8, WidensWhole
    <3> QED
      BY <2>1, <3>5, <3>6, <3>7, <3>8 DEF Fits, Moves
  <2> QED
    BY <2>3, <2>4 DEF GapInv
<1> QED
  BY <1>1, <1>2

\* Between the ids a widget remembers every message of its thread that its user has not hidden
\* is drawn: pages, refreshes and older pages close up, whatever arrives, goes or is opened
\* while a worker runs.
THEOREM ScreensAreWhole == Spec => []NoGap
<1>1. Init => GapInv
  <2>1. SUFFICES ASSUME Init, NEW c \in Clients
                 PROVE  Whole(view[c], Seen(c), threadOf)
    BY DEF GapInv
  <2>2. view[c] = Blank /\ Blank.oldest = 0 /\ ~Blank.loading
    BY <2>1 DEF Init, Blank
  <2> QED
    BY <2>2 DEF Whole, NoHoleOnScreen, NoHoleInRefresh, NoHoleInReload
<1>2. TypeInv /\ TypeInv' /\ OwnInv /\ GapInv /\ [Next]_vars => GapInv'
  BY NextWhole
<1>3. GapInv => NoGap
  <2>1. SUFFICES ASSUME GapInv, NEW c \in Clients, NEW m \in Rows(c, view[c].thread)
                 PROVE  \/ m \in view[c].shown
                        \/ view[c].loading \/ Foreign(c)
                        \/ view[c].oldest = 0 \/ m < view[c].oldest \/ m > view[c].last
    BY DEF NoGap
  <2>2. m \in Seen(c) /\ threadOf[m] = view[c].thread
    BY <2>1 DEF Rows, Seen
  <2>3. NoHoleOnScreen(view[c], Seen(c), threadOf)
    BY <2>1 DEF GapInv, Whole
  <2> QED
    BY <2>2, <2>3 DEF NoHoleOnScreen, Foreign
<1> QED
  BY <1>1, <1>2, <1>3, OwnHolds, PTL DEF Spec

=============================================================================
