------------------------------ MODULE TaskChat ------------------------------
(***************************************************************************)
(* The chats of the users: threads and messages in the database, and in    *)
(* each running program one chat widget that shows a page of one thread.   *)
(* The widget reads rows on the GUI thread, hands them to a worker that    *)
(* decrypts them, and draws them when the worker is done; it remembers the *)
(* smallest and the largest id it has drawn and asks only for larger ones  *)
(* every three seconds.  While a worker runs, every other refresh is       *)
(* dropped, also the one that follows a change of thread.  Beside it the   *)
(* menu has the list of chats, read again on the way back and by a timer,  *)
(* and the bell: a badge for unread notifications, and the panel of all.   *)
(*                                                                         *)
(* A message is its id: text, attachments, labels and edits are left out,  *)
(* and a screen is the set of ids drawn on it.  Every statement commits by *)
(* itself.  Statements that write may fail; those that read do not.        *)
(* closed_at is left out because nothing calls closeThread.  A user runs   *)
(* one copy of the program; timers of zero length fire before his next     *)
(* click.                                                                  *)
(***************************************************************************)
EXTENDS Integers, FiniteSets

CONSTANTS
    Users,          \* accounts
    Clients,        \* the users that run the program
    Nobody,
    PageSize,       \* kMessagesPageSize
    MaxThreads,     \* bound: threads ever inserted
    MaxMessages,    \* bound: messages ever inserted
    MaxClicks       \* bound: things the users do, together

ASSUME ChatUsers == Clients \subseteq Users /\ Nobody \notin Users
ASSUME ChatBounds == PageSize \in Nat \ {0} /\ MaxThreads \in Nat /\ MaxMessages \in Nat
                     /\ MaxClicks \in Nat

Threads == 1 .. MaxThreads
Messages == 1 .. MaxMessages

VARIABLES
    parties,        \* parties[t]: created_by and recipient_user, kept after a DELETE (observer)
    alive,          \* rows of task_chat_threads
    nextThread,     \* its serial
    threadOf,       \* threadOf[m]: thread_id, kept after a DELETE (observer)
    stored,         \* rows of task_chat_messages
    nextMessage,    \* its serial
    hidden,         \* rows of task_chat_message_hidden
    hiddenThreads,  \* rows of task_chat_hidden
    notices,        \* notices[u]: threads that u has a notification of
    unread,         \* unread[u]: those with an unread one
    view,           \* view[c]: the embedded chat widget of c's program
    list,           \* list[c]: the chats in the list, while that is in front
    badge,          \* badge[c]: the badge of the bell is shown
    op,             \* op[c]: the operation c's GUI thread is in, and its next statement
    clicks          \* what the users have done so far (bound)

rows == <<parties, alive, nextThread, threadOf, stored, nextMessage>>
hides == <<hidden, hiddenThreads>>
menu == <<notices, unread, badge, list>>
vars == <<rows, hides, menu, view, op, clicks>>

Party == [by: Users \cup {Nobody}, to: Users \cup {Nobody}]

\* opening: the zero-length timer of setThreadId, for another thread or the same;
\* loading: messagesLoading_, with the rows the worker holds and whether they are
\* a full reload; bottom: forceScrollToBottom_; shown: the rows drawn.
View == [thread: Threads \cup {0}, visible: BOOLEAN, opening: {"no", "other", "same"},
         shown: SUBSET Messages, oldest: Messages \cup {0}, last: Messages \cup {0},
         bottom: BOOLEAN, loading: BOOLEAN, full: BOOLEAN, batch: SUBSET Messages]

Blank == [thread |-> 0, visible |-> FALSE, opening |-> "no", shown |-> {}, oldest |-> 0, last |-> 0,
          bottom |-> FALSE, loading |-> FALSE, full |-> FALSE, batch |-> {}]

Op == [at: {"idle", "create", "first", "undo", "notice", "check", "insert", "notify", "wipe", "drop", "panel"},
       peer: Users \cup {Nobody}, thread: Threads \cup {0}, left: 0 .. 2, listed: SUBSET Threads]

Idle == [at |-> "idle", peer |-> Nobody, thread |-> 0, left |-> 0, listed |-> {}]

Init ==
    /\ parties = [t \in Threads |-> [by |-> Nobody, to |-> Nobody]]
    /\ alive = {} /\ nextThread = 1
    /\ threadOf = [m \in Messages |-> 0]
    /\ stored = {} /\ nextMessage = 1
    /\ hidden = {} /\ hiddenThreads = {}
    /\ notices = [u \in Users |-> {}]
    /\ unread = [u \in Users |-> {}]
    /\ badge = [c \in Clients |-> FALSE]
    /\ list = [c \in Clients |-> {}]
    /\ view = [c \in Clients |-> Blank]
    /\ op = [c \in Clients |-> Idle]
    /\ clicks = 0

-----------------------------------------------------------------------------
Largest(S) == IF S = {} THEN 0 ELSE CHOOSE m \in S : \A n \in S : n <= m
Smallest(S) == IF S = {} THEN 0 ELSE CHOOSE m \in S : \A n \in S : m <= n

\* What getMessagesForThread... may return to u: not what u has hidden.
Rows(u, t) == {m \in stored : threadOf[m] = t /\ <<m, u>> \notin hidden}

\* ORDER BY id DESC LIMIT PageSize
Newest(S) == {m \in S : Cardinality({n \in S : n > m}) < PageSize}

\* Mutant: an incremental refresh is limited to a page as well.
RefreshMessages_Paged(v, found, fullReload) ==
    LET full == fullReload \/ v.bottom
        incremental == ~full /\ v.last > 0
        new == IF incremental THEN {m \in found : m > v.last} ELSE found
    IN  CASE v.thread = 0 \/ v.loading -> v
          [] v.thread # 0 /\ ~v.loading /\ incremental /\ new = {} -> [v EXCEPT !.bottom = FALSE]
          [] OTHER -> [v EXCEPT !.loading = TRUE, !.full = full, !.batch = Newest(new),
                                !.shown = IF full THEN {} ELSE @]

\* Mutant: a refresh after the first page draws nothing new.
RefreshMessages_FullOnly(v, found, fullReload) ==
    LET full == fullReload \/ v.bottom
    IN  IF v.thread = 0 \/ v.loading \/ (~full /\ v.last > 0)
        THEN v
        ELSE [v EXCEPT !.loading = TRUE, !.full = full, !.batch = Newest(found),
                       !.shown = IF full THEN {} ELSE @]

\* refreshMessages up to the start of the worker; found is what the database holds.
RefreshMessages(v, found, fullReload) ==
    LET full == fullReload \/ v.bottom
        incremental == ~full /\ v.last > 0
        new == {m \in found : m > v.last}
    IN  CASE v.thread = 0 \/ v.loading -> v
          [] v.thread # 0 /\ ~v.loading /\ incremental /\ new = {} -> [v EXCEPT !.bottom = FALSE]
          [] OTHER -> [v EXCEPT !.loading = TRUE, !.full = full,
                                !.batch = IF incremental THEN new ELSE Newest(found),
                                !.shown = IF full THEN {} ELSE @]

\* The worker's finished signal and applyRefreshedMessages.  Rows are added to
\* what is drawn; a layout was emptied when a full reload started.
Applied(v) ==
    LET drawn == [v EXCEPT !.loading = FALSE, !.bottom = FALSE, !.batch = {}, !.full = FALSE,
                           !.shown = @ \cup v.batch]
    IN  IF v.full
        THEN [drawn EXCEPT !.oldest = Smallest(v.batch), !.last = Largest(v.batch)]
        ELSE [drawn EXCEPT !.last = Largest(v.batch \cup ({v.last} \ {0}))]

\* Mutant: no message read yet is remembered as -1.
SetThreadId_MinusOne(v, t) ==
    IF v.thread = t
    THEN [v EXCEPT !.visible = TRUE, !.bottom = TRUE, !.opening = "same"]
    ELSE [v EXCEPT !.visible = TRUE, !.bottom = TRUE, !.opening = "other",
                   !.thread = t, !.oldest = 0, !.last = -1]

\* setThreadId of the embedded widget, which is brought to the front.
SetThreadId(v, t) ==
    IF v.thread = t
    THEN [v EXCEPT !.visible = TRUE, !.bottom = TRUE, !.opening = "same"]
    ELSE [v EXCEPT !.visible = TRUE, !.bottom = TRUE, !.opening = "other",
                   !.thread = t, !.oldest = 0, !.last = 0]

\* The GUI thread of c is not inside an operation, and no click is being handled.
Free(c) == op[c].at = "idle" /\ view[c].opening = "no"

\* The GUI thread of c waits for events, perhaps in the panel of notifications.
Waiting(c) == op[c].at \in {"idle", "panel"} /\ view[c].opening = "no"

\* The user of c does something.
Click(c) == Free(c) /\ clicks < MaxClicks /\ clicks' = clicks + 1

Between(u, p) == {t \in alive : parties[t] \in {[by |-> u, to |-> p], [by |-> p, to |-> u]}}

-----------------------------------------------------------------------------
\* Mutant: the list of a member of the staff holds every thread.
ThreadsOf_Staff(c, live, gone) == {t \in live : <<t, c>> \notin gone}

\* getThreadsForUser, when live and gone are the rows of the two tables; a member of
\* the staff sees no more.
ThreadsOf(c, live, gone) ==
    {t \in live : c \in {parties[t].by, parties[t].to} /\ <<t, c>> \notin gone}

\* Mutant: the list is drawn again only if the number of chats has changed.
Reloaded_ByCount(c, live, gone) ==
    LET found == ThreadsOf(c, live, gone)
    IN  IF Cardinality(found) = Cardinality(list[c]) THEN list[c] ELSE found

\* reloadChatsPageList; it draws nothing when the signature is the one it drew last.
Reloaded(c, live, gone) == ThreadsOf(c, live, gone)

\* The list comes to the front, and is read again.
ShowList(c, live, gone) == list' = [list EXCEPT ![c] = Reloaded(c, live, gone)]

\* The chat of t comes to the front.
ShowChat(c, t) ==
    /\ view' = [view EXCEPT ![c] = SetThreadId(@, t)]
    /\ list' = [list EXCEPT ![c] = {}]

\* Mutant: the badge is never hidden.
CountUnread_OnlyShows(c) == badge' = [badge EXCEPT ![c] = @ \/ unread'[c] # {}]

\* The badge as updateNotifBadge leaves it.
CountUnread(c) == badge' = [badge EXCEPT ![c] = unread'[c] # {}]

\* notifPollTimer: updateNotifBadge, and the list if it is in front.
UpdateNotifBadge(c) ==
    /\ Waiting(c)
    /\ UNCHANGED <<rows, hides, notices, unread, view, op, clicks>>
    /\ CountUnread(c)
    /\ IF view[c].visible THEN UNCHANGED list ELSE ShowList(c, alive, hiddenThreads)
    /\ <<badge, list>>' # <<badge, list>>

\* A click in the list of chats, which may have been drawn before t was deleted.
Open(c, t) ==
    /\ Click(c)
    /\ t \in list[c]
    /\ ShowChat(c, t)
    /\ UNCHANGED <<rows, hides, notices, unread, badge, op>>

\* The timer of setThreadId; for another thread it marks its notifications as read.
Opened(c) ==
    LET v == [view[c] EXCEPT !.opening = "no"]
    IN  /\ op[c].at = "idle" /\ view[c].opening # "no"
        /\ view' = [view EXCEPT ![c] = RefreshMessages(v, Rows(c, v.thread), view[c].opening = "other")]
        /\ IF view[c].opening = "other"
           THEN unread' = [unread EXCEPT ![c] = @ \ {view[c].thread}] /\ CountUnread(c)
           ELSE UNCHANGED <<unread, badge>>
        /\ UNCHANGED <<rows, hides, notices, list, op, clicks>>

\* liveRefreshTimer_
Poll(c) ==
    /\ Waiting(c) /\ view[c].visible
    /\ view' = [view EXCEPT ![c] = RefreshMessages(@, Rows(c, @.thread), FALSE)]
    /\ view' # view
    /\ UNCHANGED <<rows, hides, menu, op, clicks>>

Apply(c) ==
    /\ op[c].at \in {"idle", "panel", "notice"} /\ view[c].loading
    /\ view' = [view EXCEPT ![c] = Applied(@)]
    /\ UNCHANGED <<rows, hides, menu, op, clicks>>

\* loadOlderMessages; historyExhausted_ says no more than that there is nothing older.
LoadOlder(c) ==
    LET older == {m \in Rows(c, view[c].thread) : m < view[c].oldest}
    IN  /\ Click(c) /\ view[c].visible
        /\ view[c].thread # 0 /\ view[c].oldest > 0 /\ older # {}
        /\ view' = [view EXCEPT ![c].shown = @ \cup Newest(older),
                                ![c].oldest = Smallest(Newest(older))]
        /\ UNCHANGED <<rows, hides, menu, op>>

\* The back button shows the list; the widget keeps its thread.
Back(c) ==
    /\ Click(c) /\ view[c].visible
    /\ view' = [view EXCEPT ![c].visible = FALSE]
    /\ ShowList(c, alive, hiddenThreads)
    /\ UNCHANGED <<rows, hides, notices, unread, badge, op>>

\* "Delete for me" on one row or on the selected ones.
HideMessages(c, S) ==
    /\ Click(c) /\ view[c].visible
    /\ S # {} /\ S \subseteq view[c].shown
    /\ hidden' = hidden \cup (S \X {c})
    /\ view' = [view EXCEPT ![c] =
           RefreshMessages(@, Rows(c, @.thread) \ S, TRUE)]
    /\ UNCHANGED <<rows, hiddenThreads, menu, op>>

-----------------------------------------------------------------------------
\* Mutant: the lookup knows one direction only.
EnsureThread_OneWay(c, p) ==
    /\ Click(c) /\ p # c
    /\ \/ \E t \in {s \in alive : parties[s] = [by |-> p, to |-> c]} :
              /\ ShowChat(c, t) /\ UNCHANGED op
       \/ /\ {s \in alive : parties[s] = [by |-> p, to |-> c]} = {}
          /\ op' = [op EXCEPT ![c] = [Idle EXCEPT !.at = "create", !.peer = p]]
          /\ UNCHANGED <<view, list>>
    /\ UNCHANGED <<rows, hides, notices, unread, badge>>

\* ensureThreadWithUser: of several threads the newest one about the AGV is taken,
\* or the newest one; with none, one is created.
EnsureThread(c, p) ==
    /\ Click(c) /\ p # c
    /\ \/ \E t \in Between(c, p) :
              /\ ShowChat(c, t) /\ UNCHANGED op
       \/ /\ Between(c, p) = {}
          /\ op' = [op EXCEPT ![c] = [Idle EXCEPT !.at = "create", !.peer = p]]
          /\ UNCHANGED <<view, list>>
    /\ UNCHANGED <<rows, hides, notices, unread, badge>>

\* createThread: the thread's row.
CreateThread(c) ==
    /\ op[c].at = "create"
    /\ \/ /\ nextThread \in Threads
          /\ parties' = [parties EXCEPT ![nextThread] = [by |-> c, to |-> op[c].peer]]
          /\ alive' = alive \cup {nextThread}
          /\ nextThread' = nextThread + 1
          /\ op' = [op EXCEPT ![c].at = "first", ![c].thread = nextThread]
       \/ op' = [op EXCEPT ![c] = Idle] /\ UNCHANGED <<parties, alive, nextThread>>
    /\ UNCHANGED <<threadOf, stored, nextMessage, hides, menu, view, clicks>>

StoreMessage(t) ==
    /\ nextMessage \in Messages
    /\ threadOf' = [threadOf EXCEPT ![nextMessage] = t]
    /\ stored' = stored \cup {nextMessage}
    /\ nextMessage' = nextMessage + 1
    /\ UNCHANGED <<parties, alive, nextThread>>

\* createThread: its first message, and setThreadId by the caller.
FirstMessage(c) ==
    /\ op[c].at = "first"
    /\ \/ /\ StoreMessage(op[c].thread)
          /\ op' = [op EXCEPT ![c].at = "notice"]
          /\ ShowChat(c, op[c].thread)
       \/ op' = [op EXCEPT ![c].at = "undo"] /\ UNCHANGED <<rows, view, list>>
    /\ UNCHANGED <<hides, notices, unread, badge, clicks>>

\* createThread: without a first message the thread is deleted, unless that fails.
UndoThread(c) ==
    /\ op[c].at = "undo"
    /\ alive' \in {alive, alive \ {op[c].thread}}
    /\ op' = [op EXCEPT ![c] = Idle]
    /\ UNCHANGED <<parties, nextThread, threadOf, stored, nextMessage, hides, menu, view, clicks>>

\* addNotificationForUser.
Notify(u, t) ==
    /\ notices' = [notices EXCEPT ![u] = @ \cup {t}]
    /\ unread' = [unread EXCEPT ![u] = @ \cup {t}]

\* The timer that announces the new chat.
Notice(c) ==
    /\ op[c].at = "notice"
    /\ Notify(op[c].peer, op[c].thread)
    /\ CountUnread(c)
    /\ op' = [op EXCEPT ![c] = Idle]
    /\ UNCHANGED <<rows, hides, view, list, clicks>>

\* sendReply: the text with its attachment, and perhaps a forwarded message.
Send(c, n) ==
    /\ Click(c) /\ view[c].visible /\ view[c].thread # 0
    /\ op' = [op EXCEPT ![c] = [Idle EXCEPT !.at = "check", !.thread = view[c].thread, !.left = n]]
    /\ UNCHANGED <<rows, hides, menu, view>>

\* addChatMessage: the thread must exist.
CheckThread(c) ==
    /\ op[c].at = "check"
    /\ op' = [op EXCEPT ![c] = IF @.thread \in alive THEN [@ EXCEPT !.at = "insert"] ELSE Idle]
    /\ UNCHANGED <<rows, hides, menu, view, clicks>>

\* addChatMessage: the INSERT; when it fails sendReply gives up, also on the notification.
InsertMessage(c) ==
    /\ op[c].at = "insert"
    /\ \/ /\ StoreMessage(op[c].thread)
          /\ op' = [op EXCEPT ![c].left = @ - 1,
                              ![c].at = IF op[c].left > 1 THEN "check" ELSE "notify"]
       \/ op' = [op EXCEPT ![c] = Idle] /\ UNCHANGED rows
    /\ UNCHANGED <<hides, menu, view, clicks>>

\* The end of sendReply: the other party, read from the thread again, is notified.
NotifyPeer(c) ==
    LET t == op[c].thread
        other == IF parties[t].by = c THEN parties[t].to ELSE parties[t].by
    IN  /\ op[c].at = "notify"
        /\ IF t \in alive THEN Notify(other, t) ELSE UNCHANGED <<notices, unread>>
        /\ CountUnread(c)
        /\ view' = [view EXCEPT ![c] = RefreshMessages([@ EXCEPT !.bottom = TRUE], Rows(c, @.thread), FALSE)]
        /\ op' = [op EXCEPT ![c] = Idle]
        /\ UNCHANGED <<rows, hides, list, clicks>>

\* deleteThreadForAll and deleteThreadByAdmin.
DeleteThread(c) ==
    /\ Click(c) /\ view[c].visible /\ view[c].thread # 0
    /\ op' = [op EXCEPT ![c] = [Idle EXCEPT !.at = "wipe", !.thread = view[c].thread]]
    /\ UNCHANGED <<rows, hides, menu, view>>

\* deleteThread: the messages.
WipeMessages(c) ==
    /\ op[c].at = "wipe"
    /\ \/ /\ stored' = {m \in stored : threadOf[m] # op[c].thread}
          /\ op' = [op EXCEPT ![c].at = "drop"]
       \/ op' = [op EXCEPT ![c] = Idle] /\ UNCHANGED stored
    /\ UNCHANGED <<parties, alive, nextThread, threadOf, nextMessage, hides, menu, view, clicks>>

\* deleteThread: the row; backRequested shows the list.
DropThread(c) ==
    /\ op[c].at = "drop"
    /\ UNCHANGED <<parties, nextThread, threadOf, stored, nextMessage, hides, notices, unread, clicks>>
    /\ \/ /\ alive' = alive \ {op[c].thread}
          /\ view' = [view EXCEPT ![c].visible = FALSE]
          /\ CountUnread(c)
          /\ ShowList(c, alive', hiddenThreads)
       \/ UNCHANGED <<alive, view, badge, list>>
    /\ op' = [op EXCEPT ![c] = Idle]

\* deleteThreadForMe: hideThreadForUser, and the list; nothing ever takes the row back.
HideThread(c) ==
    /\ Click(c) /\ view[c].visible /\ view[c].thread # 0
    /\ hiddenThreads' = hiddenThreads \cup {<<view[c].thread, c>>}
    /\ view' = [view EXCEPT ![c].visible = FALSE]
    /\ UNCHANGED <<rows, hidden, notices, unread, op>>
    /\ CountUnread(c)
    /\ ShowList(c, alive, hiddenThreads')

-----------------------------------------------------------------------------
\* showNotificationsPanel: a dialog that lists the notifications there are now.
OpenPanel(c) ==
    /\ Click(c) /\ notices[c] # {}
    /\ op' = [op EXCEPT ![c].at = "panel", ![c].listed = notices[c]]
    /\ UNCHANGED <<rows, hides, menu, view>>

\* A click on a notification: the chat, and the one notification as read; the thread
\* may have others.
OpenNotice(c, t) ==
    /\ op[c].at = "panel" /\ t \in op[c].listed
    /\ ShowChat(c, t)
    /\ unread' \in {unread, [unread EXCEPT ![c] = @ \ {t}]}
    /\ CountUnread(c)
    /\ op' = [op EXCEPT ![c] = Idle]
    /\ UNCHANGED <<rows, hides, notices, clicks>>

\* markAllReadForUser: also those that came after the panel was opened.
MarkAllRead(c) ==
    /\ op[c].at = "panel"
    /\ unread' = [unread EXCEPT ![c] = {}]
    /\ CountUnread(c)
    /\ op' = [op EXCEPT ![c] = Idle]
    /\ UNCHANGED <<rows, hides, notices, list, view, clicks>>

\* clearAllNotificationsForUser, likewise; notificationsChanged reads the list again.
ClearNotices(c) ==
    /\ op[c].at = "panel"
    /\ notices' = [notices EXCEPT ![c] = {}]
    /\ unread' = [unread EXCEPT ![c] = {}]
    /\ CountUnread(c)
    /\ IF view[c].visible THEN UNCHANGED list ELSE ShowList(c, alive, hiddenThreads)
    /\ op' = [op EXCEPT ![c] = Idle]
    /\ UNCHANGED <<rows, hides, view, clicks>>

ClosePanel(c) ==
    /\ op[c].at = "panel"
    /\ UNCHANGED <<rows, hides, notices, unread, list, view, clicks>>
    /\ CountUnread(c)
    /\ op' = [op EXCEPT ![c] = Idle]

\* Statements follow one another without the user.
Proceed(c) == CreateThread(c) \/ FirstMessage(c) \/ UndoThread(c) \/ Notice(c) \/ CheckThread(c)
              \/ InsertMessage(c) \/ NotifyPeer(c) \/ WipeMessages(c) \/ DropThread(c)

Next ==
    \E c \in Clients :
        \/ \E t \in Threads : Open(c, t)
        \/ Opened(c) \/ Poll(c) \/ Apply(c) \/ LoadOlder(c) \/ Back(c)
        \/ \E S \in SUBSET view[c].shown : HideMessages(c, S)
        \/ \E p \in Users : EnsureThread(c, p)
        \/ \E n \in 1 .. 2 : Send(c, n)
        \/ DeleteThread(c) \/ HideThread(c)
        \/ OpenPanel(c) \/ MarkAllRead(c) \/ ClearNotices(c) \/ ClosePanel(c) \/ UpdateNotifBadge(c)
        \/ \E t \in Threads : OpenNotice(c, t)
        \/ Proceed(c)

Spec == Init /\ [][Next]_vars

\* Timers fire, workers end, an operation runs to its end.
Runs(c) == Opened(c) \/ Poll(c) \/ Apply(c) \/ Proceed(c)

Fairness == \A c \in Clients : WF_vars(Runs(c)) /\ WF_vars(UpdateNotifBadge(c))

FairSpec == Spec /\ Fairness

-----------------------------------------------------------------------------
\* Types of the variables; ids come from the serials.
TypeOK ==
    /\ parties \in [Threads -> Party]
    /\ alive \subseteq Threads /\ nextThread \in 1 .. MaxThreads + 1
    /\ threadOf \in [Messages -> Threads \cup {0}]
    /\ stored \subseteq Messages /\ nextMessage \in 1 .. MaxMessages + 1
    /\ hidden \subseteq Messages \X Users /\ hiddenThreads \subseteq Threads \X Users
    /\ list \in [Clients -> SUBSET Threads] /\ badge \in [Clients -> BOOLEAN]
    /\ notices \in [Users -> SUBSET Threads]
    /\ unread \in [Users -> SUBSET Threads]
    /\ view \in [Clients -> View]
    /\ op \in [Clients -> Op]
    /\ clicks \in 0 .. MaxClicks

\* "Privacy rule" (db_task_chat.cpp): whatever is opened, sent, deleted or still
\* being decrypted, no row and no notification of a thread reaches a user who is
\* neither its creator nor its recipient.
Private ==
    /\ \A c \in Clients : \A m \in view[c].shown \cup view[c].batch :
           c \in {parties[threadOf[m]].by, parties[threadOf[m]].to}
    /\ \A c \in Clients : \A t \in list[c] : c \in {parties[t].by, parties[t].to}
    /\ \A u \in Users : \A t \in notices[u] : u \in {parties[t].by, parties[t].to}

\* Rows of another thread than the open one are drawn or about to be: a worker was
\* running when setThreadId was called, and the reload that follows it was dropped.
Foreign(c) == \E m \in view[c].shown \cup view[c].batch : threadOf[m] # view[c].thread

\* Between the ids the widget remembers there is no hole: a message of the open thread
\* that its user has not hidden is drawn.  (While a full reload is being decrypted the
\* screen is empty; a page read into an empty screen leaves oldest at 0.)
NoGap ==
    \A c \in Clients : \A m \in Rows(c, view[c].thread) :
        \/ m \in view[c].shown
        \/ view[c].loading \/ Foreign(c)
        \/ view[c].oldest = 0 \/ m < view[c].oldest \/ m > view[c].last

\* Two users who look each other up at the same time get two threads, but neither of
\* them creates a second one: the lookup finds threads of both directions.
OneThreadPerCreator ==
    \A t, s \in alive : parties[t] = parties[s] => t = s

\* What is on screen is up to date: a message of the open thread is drawn, unless it is
\* older than the page, where scrolling loads it; or the screen holds another thread's
\* rows, or a page that was read into an empty screen.
CaughtUp(c) ==
    view[c].visible =>
        \/ Foreign(c)
        \/ \A m \in Rows(c, view[c].thread) :
               m \in view[c].shown \/ m < view[c].oldest \/ (view[c].oldest = 0 /\ m < view[c].last)

\* So are the list of chats, when it is in front, and the badge.
MenuUpToDate(c) ==
    /\ view[c].visible \/ list[c] = ThreadsOf(c, alive, hiddenThreads)
    /\ badge[c] <=> unread[c] # {}

\* "New messages are loaded automatically", "only your chats are listed", "the counter of
\* unread is at the bell" (USER_GUIDE_RU.md): whatever two programs send, hide, delete
\* and read, the chat, the list and the badge catch up with the database again.
CatchesUp == \A c \in Clients : []<>(CaughtUp(c) /\ MenuUpToDate(c))
=============================================================================
