---------------------------- MODULE Notifications ----------------------------
(***************************************************************************)
(* Notifications of one user: the rows (services/notifications.py), the    *)
(* broker that hands new ones to open streams of its process, and the      *)
(* page's list and badge (frontend/app/stores/notifications.ts).  All      *)
(* notifications here are of one event, so that makers find each other's.  *)
(***************************************************************************)
EXTENDS Naturals, FiniteSets, Sequences

CONSTANTS
  Ids, Makers,
  MaxQueue,  \* maxsize of a stream's queue
  MaxCount,  \* the badge up to which the user reads (a failure may raise it again and again)
  All        \* the key of markAllRead among the marks

VARIABLES
  row,     \* is_read of each notification, "none" where there is no row
  maker,   \* create_notification and the transaction around it
  signed,  \* whether somebody is signed in
  stream,  \* the EventSource and the server's side of it
  queue,   \* NotificationBroker._subscribers
  items, unreadCount,
  fetch,   \* GET /notifications and /notifications/unread-count
  mark,    \* PATCH .../read of each notification, POST .../read-all
  exact    \* the last answer counted what the list showed, and no failure spoilt it

vars == <<row, maker, signed, stream, queue, items, unreadCount, fetch, mark, exact>>

Unread(f)  == {n \in Ids : f[n] = "unread"}
Rows       == {n \in Ids : row[n] # "none"}
NoItems    == [n \in Ids |-> "none"]
NoFetch    == [at |-> "none", kind |-> "list", only |-> Ids, items |-> NoItems, count |-> 0]
NoMark     == [at |-> "none", objects |-> {}, previous |-> 0, alone |-> TRUE]
Matches    == unreadCount = Cardinality(Unread(items))

-----------------------------------------------------------------------------
(* Mutant: whatever comes through the stream is counted.                     *)
CountsAlways(n) == TRUE

(* !previous || previous.is_read *)
Counts(n) == items[n] # "unread"

Init ==
  /\ row \in [Ids -> {"none", "unread", "read"}]
  /\ maker = [m \in Makers |-> [at |-> "idle", id |-> All, saw |-> "none"]]
  /\ signed = TRUE /\ stream \in {"none", "open"} /\ queue = <<>> /\ items = NoItems /\ unreadCount = 0
  /\ fetch = NoFetch /\ mark = [x \in Ids \cup {All} |-> NoMark] /\ exact = FALSE

-----------------------------------------------------------------------------
page   == <<signed, stream, items, unreadCount, fetch, mark, exact>>

(* create_notification looks for one of the last minutes ... *)
Find(m) ==
  /\ maker[m].at = "idle"
  /\ \E n \in Ids :
       /\ row[n] # "none" \/ \A o \in Makers : maker[o].id # n
       /\ maker' = [maker EXCEPT ![m] = [at |-> "found", id |-> n, saw |-> row[n]]]
  /\ UNCHANGED <<row, queue, page>>

(* ... and adds a row or changes what it saw: is_read is written where it was true. *)
Save(m) ==
  /\ maker[m].at = "found" /\ maker' = [maker EXCEPT ![m].at = "saved"]
  /\ row' = IF maker[m].saw = "unread" THEN row ELSE [row EXCEPT ![maker[m].id] = "unread"]
  /\ UNCHANGED <<queue, page>>

(* publish, after the commit: a full queue loses its oldest.  Another process has no *)
(* subscribers, and a process may die first.                                         *)
Publish(m) ==
  /\ maker[m].at = "saved" /\ maker' = [maker EXCEPT ![m].at = "idle", ![m].id = All]
  /\ \/ /\ stream = "open"
        /\ queue' = Append(IF Len(queue) = MaxQueue THEN Tail(queue) ELSE queue, maker[m].id)
     \/ UNCHANGED queue
  /\ UNCHANGED <<row, page>>

(* Another tab reads a notification; old ones are cleaned up. *)
ReadElsewhere == \E n \in Unread(row) :
  /\ row' = [row EXCEPT ![n] = "read"] /\ UNCHANGED <<maker, queue, page>>
Cleanup == \E n \in Ids :
  /\ row[n] = "read" /\ \A m \in Makers : maker[m].id # n
  /\ row' = [row EXCEPT ![n] = "none"] /\ UNCHANGED <<maker, queue, page>>

-----------------------------------------------------------------------------
server == <<row, maker>>

(* connect; ready is sent before the stream subscribes, so what is published between *)
(* is missed.  After a lost connection, ready fetches the list.                       *)
Connect ==
  /\ signed /\ stream = "none" /\ stream' = "connecting"
  /\ UNCHANGED <<server, queue, signed, items, unreadCount, fetch, mark, exact>>
Ready ==
  /\ stream \in {"connecting", "lost"} /\ stream' = "ready"
  /\ fetch' = IF stream = "lost" /\ fetch.at = "none" THEN [NoFetch EXCEPT !.at = "sent"] ELSE fetch
  /\ UNCHANGED <<server, queue, signed, items, unreadCount, mark, exact>>
Subscribe ==
  /\ stream = "ready" /\ stream' = "open"
  /\ UNCHANGED <<server, queue, signed, items, unreadCount, fetch, mark, exact>>
Disconnect ==
  /\ stream \in {"ready", "open"} /\ stream' = "lost" /\ queue' = <<>>
  /\ UNCHANGED <<server, signed, items, unreadCount, fetch, mark, exact>>

(* What replaces the object of an item keeps a failed mark from being undone in it. *)
Replaced(ns) == mark' = [x \in DOMAIN mark |->
  [mark[x] EXCEPT !.objects = @ \ ns, !.alone = mark[x].at = "none" \/ (@ /\ x \notin ns \cup {All})]]

(* handleRealtimeNotification: published notifications are unread. *)
Realtime ==
  /\ stream = "open" /\ queue # <<>> /\ queue' = Tail(queue)
  /\ LET n == Head(queue)
     IN  /\ items' = [items EXCEPT ![n] = "unread"] /\ Replaced({n})
         /\ unreadCount' = IF Counts(n) THEN unreadCount + 1 ELSE unreadCount
  /\ UNCHANGED <<server, signed, stream, fetch, exact>>

(* fetchNotifications of a page or a category, with what was loaded before when append, *)
(* and refreshUnreadCount                                                               *)
Fetch(kind, only) ==
  /\ signed /\ fetch.at = "none"
  /\ fetch' = [NoFetch EXCEPT !.at = "sent", !.kind = kind, !.only = only]
  /\ UNCHANGED <<server, queue, signed, stream, items, unreadCount, mark, exact>>

(* list_notifications: two statements, each with a snapshot of its own *)
CountRows ==
  /\ fetch.at = "sent"
  /\ fetch' = [fetch EXCEPT !.at = "counted", !.count = Cardinality(Unread(row))]
  /\ UNCHANGED <<server, queue, signed, stream, items, unreadCount, mark, exact>>
ListRows ==
  /\ fetch.at = "counted"
  /\ fetch' = [fetch EXCEPT !.at = "listed",
                            !.items = [n \in Ids |-> IF n \in fetch.only THEN row[n] ELSE "none"]]
  /\ UNCHANGED <<server, queue, signed, stream, items, unreadCount, mark, exact>>
Receive ==
  /\ fetch.at = "listed" /\ fetch' = NoFetch /\ unreadCount' = fetch.count
  /\ LET got == {n \in Ids : fetch.items[n] # "none"}
     IN  /\ items' = IF fetch.kind = "count" THEN items
                     ELSE [n \in Ids |-> IF n \in got \/ fetch.kind = "list" THEN fetch.items[n] ELSE items[n]]
         /\ Replaced(IF fetch.kind = "count" THEN {} ELSE IF fetch.kind = "list" THEN Ids ELSE got)
  /\ exact' = (unreadCount' = Cardinality(Unread(items')))
  /\ UNCHANGED <<server, queue, signed, stream>>
FetchFails ==
  /\ fetch.at # "none" /\ fetch' = NoFetch
  /\ UNCHANGED <<server, queue, signed, stream, items, unreadCount, mark, exact>>

-----------------------------------------------------------------------------
(* markRead and markAllRead change the page first. *)
Marked(x, ns, count) ==
  /\ mark[x].at = "none" /\ unreadCount <= MaxCount /\ unreadCount' = count
  /\ items' = [n \in Ids |-> IF n \in ns THEN "read" ELSE items[n]]
  /\ mark' = [y \in DOMAIN mark |->
       IF y = x THEN [at |-> "sent", objects |-> ns, previous |-> IF x = All THEN unreadCount ELSE 0, alone |-> TRUE]
       ELSE IF y = All /\ mark[y].at # "none" THEN [mark[y] EXCEPT !.alone = FALSE] ELSE mark[y]]
  /\ UNCHANGED <<server, queue, signed, stream, fetch, exact>>
MarkRead(n) == items[n] = "unread" /\ Marked(n, {n}, IF unreadCount > 0 THEN unreadCount - 1 ELSE 0)
MarkAllRead == items # NoItems /\ Marked(All, Unread(items), 0)

(* mark_read looks, then writes where the notification was unread, renewed or not by   *)
(* then: as one step that is the step of the write, or of the look if it writes nothing. *)
WriteRead(x) ==
  /\ mark[x].at = "sent" /\ (x \in Ids => row[x] # "none")
  /\ mark' = [mark EXCEPT ![x].at = "ok"]
  /\ row' = [n \in Ids |-> IF row[n] = "unread" /\ x \in {n, All} THEN "read" ELSE row[n]]
  /\ UNCHANGED <<maker, queue, signed, stream, items, unreadCount, fetch, exact>>
MarkDone(x) ==
  /\ mark[x].at = "ok" /\ mark' = [mark EXCEPT ![x] = NoMark]
  /\ UNCHANGED <<server, queue, signed, stream, items, unreadCount, fetch, exact>>

(* A failure is undone in the objects that were changed, shown or not. *)
MarkFails(x) ==
  /\ mark[x].at # "none"
  /\ mark' = [y \in DOMAIN mark |-> IF y = x THEN NoMark
                ELSE IF y = All /\ mark[y].at # "none" THEN [mark[y] EXCEPT !.alone = FALSE] ELSE mark[y]]
  /\ items' = [n \in Ids |-> IF n \in mark[x].objects THEN "unread" ELSE items[n]]
  /\ unreadCount' = IF x = All THEN mark[x].previous ELSE unreadCount + 1
  /\ exact' = (exact /\ mark[x].alone)
  /\ UNCHANGED <<server, queue, signed, stream, fetch>>

(* notifications.client.ts: signing out resets the store, but not what is under way. *)
SignOut ==
  /\ signed /\ signed' = FALSE /\ stream' = "none" /\ queue' = <<>>
  /\ items' = NoItems /\ unreadCount' = 0 /\ Replaced(Ids)
  /\ UNCHANGED <<server, fetch, exact>>
SignIn ==
  /\ ~signed /\ signed' = TRUE /\ fetch.at = "none" /\ fetch' = [NoFetch EXCEPT !.at = "sent"]
  /\ stream' = "connecting" /\ UNCHANGED <<server, queue, items, unreadCount, mark, exact>>

Serve == CountRows \/ ListRows \/ Receive \/ FetchFails
Marks(x) == WriteRead(x) \/ MarkDone(x) \/ MarkFails(x)

Next ==
  \/ \E m \in Makers : Find(m) \/ Save(m) \/ Publish(m)
  \/ ReadElsewhere \/ Cleanup \/ Connect \/ Ready \/ Subscribe \/ Disconnect \/ Realtime
  \/ \E kind \in {"list", "append", "count"}, only \in {Ids} \cup {{n} : n \in Ids} : Fetch(kind, only)
  \/ Serve \/ (\E n \in Ids : MarkRead(n)) \/ MarkAllRead \/ (\E x \in DOMAIN mark : Marks(x))
  \/ SignOut \/ SignIn

-----------------------------------------------------------------------------
TypeOK ==
  /\ row \in [Ids -> {"none", "unread", "read"}] /\ items \in [Ids -> {"none", "unread", "read"}]
  /\ unreadCount \in Nat /\ Len(queue) <= MaxQueue /\ (queue # <<>> => stream = "open")
  /\ \A x \in DOMAIN mark : mark[x].objects \subseteq Ids

(* The badge counts what the list shows as unread, from an answer that says  *)
(* so until the next one, whatever arrives or is read in between, except     *)
(* after a mark that failed once something else had changed what it marked.  *)
CountedOnce == exact => Matches
=============================================================================
