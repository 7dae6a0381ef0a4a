---------------------------- MODULE EmailOutbox ----------------------------
(***************************************************************************)
(* The transactional e-mail outbox and the bulk mail campaign it feeds:    *)
(* backend/app/services/email_outbox.py and admin_email_campaigns.py.      *)
(*                                                                         *)
(* Workers are processes with one database session each: the periodic      *)
(* command line worker (process_due_email_outbox) and the API requests     *)
(* that try the welcome mail at once (attempt_welcome_delivery).           *)
(* PostgreSQL runs at READ COMMITTED, so every statement sees what is      *)
(* committed when it starts, and an ORM object keeps what it read until    *)
(* the session rolls back (expire_on_commit is off).  An action is one     *)
(* reading statement, one commit, or one answer of the mail server; the    *)
(* row locks follow from where the workers stand.                          *)
(*                                                                         *)
(* A cancellation is two UPDATEs, of the deliveries and then of the events *)
(* (CancelDeliveries, CancelCampaign), and workers may commit in between.  *)
(* Each waits for the rows it changes and for no other.  Claiming is one   *)
(* action: a claim holds its event row until its commit, and needs rows    *)
(* that a cancellation has changed only if that cancellation needs the     *)
(* event row in turn.  Then PostgreSQL aborts one of the two, which is     *)
(* Crash (the worker dies before its commit) or CancelFails.               *)
(*                                                                         *)
(* Times are abstracted: a PENDING event may be due at any moment, and an  *)
(* attempt may be found older than 15 minutes at any moment.               *)
(***************************************************************************)
EXTENDS Naturals, FiniteSets

CONSTANTS
  Users,        \* accounts
  Events,       \* the outbox rows there can be, one per idempotency key
  NoEvent,      \* what a worker without an event has claimed
  Kind,         \* delivery_type of an event
  Owner,        \* user_id of an event
  Workers,      \* processes that deliver mail
  Requests,     \* the workers that are API requests, not the periodic command
  Holders,      \* the requests whose caller still holds the User object (OAuth)
  MaxAttempts,  \* EMAIL_OUTBOX_MAX_ATTEMPTS
  LiveOverrun,  \* may an attempt outlast 15 minutes while its worker lives?
  MaxClaims,    \* bound: claims of one event
  MaxMishaps    \* bound: workers killed, answers lost, cancellations rolled back

Welcomes  == {e \in Events : Kind[e] = "WELCOME"}
Campaigns == {e \in Events : Kind[e] = "CAMPAIGN"}

ASSUME EventAssumption    == NoEvent \notin Events /\ IsFiniteSet(Events)
ASSUME KindAssumption     == Kind \in [Events -> {"WELCOME", "NOTIFICATION", "CAMPAIGN"}]
ASSUME OwnerAssumption    == Owner \in [Events -> Users]
ASSUME WorkerAssumption   == Requests \subseteq Workers /\ Holders \subseteq Requests
ASSUME AttemptsAssumption == MaxAttempts \in Nat \ {0}
ASSUME BoundAssumption    == MaxClaims \in Nat /\ MaxMishaps \in Nat /\ LiveOverrun \in BOOLEAN
(* The unique keys welcome:{user} and campaign:{campaign}:{user}. *)
ASSUME KeyAssumption      ==
  \A e, f \in Events : Kind[e] # "NOTIFICATION" /\ Kind[f] = Kind[e] /\ Owner[f] = Owner[e] => e = f

VARIABLES
  users,      \* accounts that exist
  welcomed,   \* accounts with welcome_email_sent_at set (kept for deleted accounts)
  outbox,     \* status of each event row; NONE before the insert, DELETED once the row is gone
  attempts,   \* attempt_count of each event
  overdue,    \* events whose processing_started_at is more than 15 minutes old
  delivery,   \* status of the EmailCampaignDelivery row of each campaign event
  campaign,   \* the EmailCampaign row: status and the three counters
  cancelling, \* is a cancel_campaign between its two UPDATEs?  It holds the campaign row
  revoked,    \* the deliveries it has set to CANCELLED and not committed: it holds those rows
  pc,         \* where each worker stands
  job,        \* the event each worker has claimed
  seen,       \* the stale events a worker has read and is about to reset
  known,      \* requests whose User object says that the welcome mail was sent
  fate,       \* the outcome a worker has for its event and has not committed
  view,       \* the campaign row as the worker read it
  tally,      \* the delivery counts as the worker read them
  mails,      \* history: messages the mail server accepted, per event
  lost,       \* history: those whose acceptance no commit recorded
  mishaps     \* history: workers killed, answers lost, cancellations rolled back

admin   == <<cancelling, revoked>>
rows    == <<users, welcomed, outbox, attempts, overdue, delivery, campaign, admin>>
locals  == <<pc, job, seen, known, fate, view, tally>>
history == <<mails, lost, mishaps>>
vars    == <<rows, locals, history>>

EventStatus    == {"NONE", "PENDING", "PROCESSING", "SENT", "FAILED", "CANCELLED", "DELETED"}
DeliveryStatus == {"NONE", "PENDING", "PROCESSING", "SENT", "FAILED", "SKIPPED", "CANCELLED"}
CampaignStatus == {"DRAFT", "SCHEDULED", "PROCESSING", "COMPLETED", "CANCELLED"}
Places         == {"idle", "swept", "ready", "again", "claimed", "locked", "sending",
                   "refused", "settling", "counting", "committing"}
Fates          == {"NONE", "TRANSIENT", "PERMANENT", "SENT", "ALREADY", "GONE", "FAILED", "PENDING"}
CampaignRow    == [status : CampaignStatus, sent : Nat, failed : Nat, skipped : Nat]
Tally          == [sent : Nat, failed : Nat, skipped : Nat, open : Nat]

Draft   == [status |-> "DRAFT", sent |-> 0, failed |-> 0, skipped |-> 0]
NoTally == [sent |-> 0, failed |-> 0, skipped |-> 0, open |-> 0]

-----------------------------------------------------------------------------
(* Row locks: SELECT ... FOR UPDATE on the event, then on its user.  After *)
(* an error the transaction is rolled back and only the event is locked.   *)

HoldsEvent(w, e) ==
  pc[w] \in {"locked", "sending", "settling", "counting", "committing"} /\ job[w] = e

HoldsUser(w, u) ==
  /\ pc[w] = "sending" \/ fate[w] \in {"SENT", "ALREADY"}
  /\ Owner[job[w]] = u

(* The flush before the count writes the delivery row. *)
HoldsDelivery(w, e) == pc[w] \in {"counting", "committing"} /\ job[w] = e

EventFree(e)    == \A w \in Workers : ~HoldsEvent(w, e)
UserFree(u)     == \A w \in Workers : ~HoldsUser(w, u)
DeliveryFree(e) == \A w \in Workers : ~HoldsDelivery(w, e)

(* Mutants of OutboxOf and DeliveryOf: success is not written, a missing   *)
(* account counts as delivered, the outcome is written as it is, any error *)
(* fails the delivery.                                                     *)
OutboxForgetsSent(f) == CASE f \in {"SENT", "ALREADY"} -> "PROCESSING" [] f = "GONE" -> "FAILED" [] OTHER -> f
OutboxGoneIsSent(f)  == IF f \in {"SENT", "ALREADY", "GONE"} THEN "SENT" ELSE f
OutboxUnmapped(f)    == f
DeliveryFails(f)     == IF f \in {"SENT", "ALREADY"} THEN "SENT" ELSE "FAILED"

(* What the commit writes into the event row and into the delivery row. *)
OutboxOf(f) ==
  CASE f \in {"SENT", "ALREADY"} -> "SENT"
    [] f = "GONE"                -> "FAILED"
    [] OTHER                     -> f

DeliveryOf(f) == IF f = "GONE" THEN "SKIPPED" ELSE OutboxOf(f)

(* Where a worker goes once its outcome is known: only campaign events refresh counters. *)
Settle(w, f) ==
  /\ fate' = [fate EXCEPT ![w] = f]
  /\ pc' = [pc EXCEPT ![w] = IF job[w] \in Campaigns THEN "settling" ELSE "committing"]

(* The end of _finish_event: the command loops, a request is over. *)
Leave(w) ==
  /\ pc'   = [pc EXCEPT ![w] = IF w \in Requests THEN "idle" ELSE "again"]
  /\ job'  = [job EXCEPT ![w] = NoEvent]
  /\ fate' = [fate EXCEPT ![w] = "NONE"]

-----------------------------------------------------------------------------
(* Producers and administrators. *)

(* enqueue_welcome_email, enqueue_notification_email *)
Enqueue(e) ==
  /\ outbox[e] = "NONE" /\ e \notin Campaigns /\ Owner[e] \in users
  /\ e \in Welcomes => Owner[e] \notin welcomed
  /\ outbox' = [outbox EXCEPT ![e] = "PENDING"]
  /\ UNCHANGED <<users, welcomed, attempts, overdue, delivery, campaign, admin, locals, history>>

(* start_campaign: R are the recipients the filters select. *)
StartCampaign(R, scheduled) ==
  /\ campaign.status = "DRAFT" /\ ~cancelling
  /\ campaign' = [campaign EXCEPT !.status =
       IF R = {} THEN "COMPLETED" ELSE IF scheduled THEN "SCHEDULED" ELSE "PROCESSING"]
  /\ outbox'   = [e \in Events |-> IF e \in R THEN "PENDING" ELSE outbox[e]]
  /\ delivery' = [e \in Campaigns |-> IF e \in R THEN "PENDING" ELSE delivery[e]]
  /\ UNCHANGED <<users, welcomed, attempts, overdue, admin, locals, history>>

(* cancel_campaign locks the campaign row and cancels its PENDING deliveries, *)
(* which nobody else sees before the commit ...                               *)
CancelDeliveries ==
  /\ ~cancelling /\ campaign.status # "COMPLETED"
  /\ \A e \in Campaigns : delivery[e] = "PENDING" => DeliveryFree(e)
  /\ cancelling' = TRUE
  /\ revoked' = {e \in Campaigns : delivery[e] = "PENDING"}
  /\ UNCHANGED <<users, welcomed, outbox, attempts, overdue, delivery, campaign, locals, history>>

(* Mutant: the cancellation takes the events being sent along. *)
CancelsRunning(e) == outbox[e] \in {"PENDING", "PROCESSING"}

Cancellable(e) == outbox[e] = "PENDING"

(* ... and then the events that are PENDING by now, and commits. *)
CancelCampaign ==
  /\ cancelling
  /\ \A e \in Campaigns : outbox[e] = "PENDING" => EventFree(e)
  /\ delivery' = [e \in Campaigns |-> IF e \in revoked THEN "CANCELLED" ELSE delivery[e]]
  /\ outbox'   = [e \in Events |->
       IF e \in Campaigns /\ Cancellable(e) THEN "CANCELLED" ELSE outbox[e]]
  /\ campaign' = [campaign EXCEPT !.status = "CANCELLED"]
  /\ cancelling' = FALSE /\ revoked' = {}
  /\ UNCHANGED <<users, welcomed, attempts, overdue, locals, history>>

(* The request fails between the two, or is the victim of a deadlock. *)
CancelFails ==
  /\ cancelling /\ mishaps < MaxMishaps
  /\ cancelling' = FALSE /\ revoked' = {}
  /\ mishaps' = mishaps + 1
  /\ UNCHANGED <<users, welcomed, outbox, attempts, overdue, delivery, campaign, locals, mails, lost>>

(* Deleting an account cascades to its notifications and their events; other *)
(* events and the deliveries keep a row without user_id.                     *)
DeleteUser(u) ==
  /\ u \in users /\ UserFree(u)
  /\ \A e \in Events : Owner[e] = u => EventFree(e) /\ e \notin revoked
  /\ users' = users \ {u}
  /\ outbox' = [e \in Events |->
       IF Owner[e] = u /\ Kind[e] = "NOTIFICATION" /\ outbox[e] # "NONE" THEN "DELETED" ELSE outbox[e]]
  /\ UNCHANGED <<welcomed, attempts, overdue, delivery, campaign, admin, locals, history>>

(* Deleting a notification cascades to its event. *)
DeleteNotification(e) ==
  /\ Kind[e] = "NOTIFICATION" /\ outbox[e] \notin {"NONE", "DELETED"} /\ EventFree(e)
  /\ outbox' = [outbox EXCEPT ![e] = "DELETED"]
  /\ UNCHANGED <<users, welcomed, attempts, overdue, delivery, campaign, admin, locals, history>>

-----------------------------------------------------------------------------
(* A run of the periodic command starts by resetting stale events: it reads *)
(* them without a lock and writes PENDING by primary key.                   *)

(* Mutant: no attempt counts as stale. *)
NeverStale(e) == FALSE /\ e \in overdue

Stale(e) == outbox[e] = "PROCESSING" /\ e \in overdue

RecoverRead(w) ==
  /\ pc[w] = "idle" /\ w \notin Requests
  /\ LET stale == {e \in Events : Stale(e)} IN
       /\ seen' = [seen EXCEPT ![w] = stale]
       /\ pc' = [pc EXCEPT ![w] = IF stale = {} THEN "ready" ELSE "swept"]
  /\ UNCHANGED <<rows, job, known, fate, view, tally, history>>

RecoverWrite(w) ==
  /\ pc[w] = "swept"
  /\ \A e \in seen[w] : EventFree(e) /\ outbox[e] # "DELETED"
  /\ outbox'  = [e \in Events |-> IF e \in seen[w] THEN "PENDING" ELSE outbox[e]]
  /\ overdue' = overdue \ seen[w]
  /\ seen' = [seen EXCEPT ![w] = {}]
  /\ pc' = [pc EXCEPT ![w] = "ready"]
  /\ UNCHANGED <<users, welcomed, attempts, delivery, campaign, admin, job, known, fate, view, tally, history>>

(* The flush of a row that is gone raises StaleDataError and ends the run. *)
RecoverFails(w) ==
  /\ pc[w] = "swept"
  /\ \E e \in seen[w] : outbox[e] = "DELETED"
  /\ seen' = [seen EXCEPT ![w] = {}]
  /\ pc' = [pc EXCEPT ![w] = "idle"]
  /\ UNCHANGED <<rows, job, known, fate, view, tally, history>>

(* Nothing is due, or the limit of this run is reached. *)
Exit(w) ==
  /\ pc[w] \in {"ready", "again"}
  /\ pc' = [pc EXCEPT ![w] = "idle"]
  /\ UNCHANGED <<rows, job, seen, known, fate, view, tally, history>>

(* _claim_event.  A request claims the welcome mail of its own user.  The  *)
(* delivery row, and the campaign row if it is SCHEDULED, are written too. *)
Claimable(w, e) ==
  /\ outbox[e] = "PENDING" /\ EventFree(e) /\ attempts[e] < MaxClaims
  /\ e \notin revoked
  /\ e \in Campaigns /\ campaign.status = "SCHEDULED" => ~cancelling
  /\ IF w \in Requests THEN pc[w] = "idle" /\ e \in Welcomes ELSE pc[w] \in {"ready", "again"}

Claim(w, e) ==
  /\ Claimable(w, e)
  /\ outbox'   = [outbox EXCEPT ![e] = "PROCESSING"]
  /\ attempts' = [attempts EXCEPT ![e] = @ + 1]
  /\ overdue'  = overdue \ {e}
  /\ delivery' = [d \in Campaigns |-> IF d = e THEN "PROCESSING" ELSE delivery[d]]
  /\ campaign' = IF e \in Campaigns /\ campaign.status = "SCHEDULED"
                 THEN [campaign EXCEPT !.status = "PROCESSING"] ELSE campaign
  /\ pc'  = [pc EXCEPT ![w] = "claimed"]
  /\ job' = [job EXCEPT ![w] = e]
  /\ \/ known' = known \ {w}
     \/ w \in Holders /\ Owner[e] \in welcomed /\ known' = known \cup {w}
  /\ UNCHANGED <<users, welcomed, admin, seen, fate, view, tally, history>>

-----------------------------------------------------------------------------
(* _finish_event *)

(* FOR UPDATE does not refresh the loaded object: its status still reads *)
(* PROCESSING, whatever the row says, and only a missing row stops here. *)
LockEvent(w) ==
  /\ pc[w] = "claimed" /\ EventFree(job[w]) /\ outbox[job[w]] # "DELETED"
  /\ pc' = [pc EXCEPT ![w] = "locked"]
  /\ UNCHANGED <<rows, job, seen, known, fate, view, tally, history>>

EventGone(w) ==
  /\ pc[w] \in {"claimed", "refused"} /\ outbox[job[w]] = "DELETED"
  /\ Leave(w)
  /\ UNCHANGED <<rows, seen, known, view, tally, history>>

(* Mutant: the look at welcome_email_sent_at is left out. *)
NeverSaysWelcomed(w) == FALSE /\ w \in known

(* A request that still holds the User object reads its old attribute. *)
SaysWelcomed(w) == IF w \in Holders THEN w \in known ELSE Owner[job[w]] \in welcomed

UserGone(w) ==
  /\ pc[w] = "locked" /\ Owner[job[w]] \notin users
  /\ Settle(w, "GONE")
  /\ UNCHANGED <<rows, job, seen, known, view, tally, history>>

AlreadyWelcomed(w) ==
  /\ pc[w] = "locked" /\ Owner[job[w]] \in users /\ UserFree(Owner[job[w]])
  /\ job[w] \in Welcomes /\ SaysWelcomed(w)
  /\ Settle(w, "ALREADY")
  /\ UNCHANGED <<rows, job, seen, known, view, tally, history>>

StartSending(w) ==
  /\ pc[w] = "locked" /\ Owner[job[w]] \in users /\ UserFree(Owner[job[w]])
  /\ ~(job[w] \in Welcomes /\ SaysWelcomed(w))
  /\ pc' = [pc EXCEPT ![w] = "sending"]
  /\ UNCHANGED <<rows, job, seen, known, fate, view, tally, history>>

Withdrawn(w) == job[w] \in Campaigns /\ delivery[job[w]] = "CANCELLED"

Accepted(w) ==
  /\ pc[w] = "sending" /\ ~Withdrawn(w)
  /\ mails' = [mails EXCEPT ![job[w]] = @ + 1]
  /\ Settle(w, "SENT")
  /\ UNCHANGED <<rows, job, seen, known, view, tally, lost, mishaps>>

(* An error rolls back and releases both locks. *)
Refuse(w, f) ==
  /\ pc[w] = "sending"
  /\ fate' = [fate EXCEPT ![w] = f]
  /\ pc' = [pc EXCEPT ![w] = "refused"]
  /\ UNCHANGED <<rows, job, seen, known, view, tally>>

Refused(w) ==
  /\ \E f \in {"TRANSIENT", "PERMANENT"} : (Withdrawn(w) => f = "PERMANENT") /\ Refuse(w, f)
  /\ UNCHANGED history

(* The server took the message, but its answer or the QUIT after it failed. *)
AnswerLost(w) ==
  /\ mishaps < MaxMishaps /\ ~Withdrawn(w)
  /\ Refuse(w, "TRANSIENT")
  /\ mails' = [mails EXCEPT ![job[w]] = @ + 1]
  /\ lost'  = [lost EXCEPT ![job[w]] = @ + 1]
  /\ mishaps' = mishaps + 1

Exhausted(e) == attempts[e] >= MaxAttempts

Relock(w) ==
  /\ pc[w] = "refused" /\ EventFree(job[w]) /\ outbox[job[w]] # "DELETED"
  /\ Settle(w, IF fate[w] = "PERMANENT" \/ Exhausted(job[w]) THEN "FAILED" ELSE "PENDING")
  /\ UNCHANGED <<rows, job, seen, known, view, tally, history>>

(* _refresh_campaign_counts: the campaign row, read without a lock, after the *)
(* event and its delivery have been flushed ...                               *)
ReadCampaign(w) ==
  /\ pc[w] = "settling" /\ job[w] \notin revoked
  /\ view' = [view EXCEPT ![w] = campaign]
  /\ pc' = [pc EXCEPT ![w] = "counting"]
  /\ UNCHANGED <<rows, job, seen, known, fate, tally, history>>

(* ... then the deliveries, the worker's own uncommitted one included ... *)
CountWith(d, unfinished) ==
  LET in(S) == Cardinality({e \in Campaigns : d[e] \in S}) IN
  [sent |-> in({"SENT"}), failed |-> in({"FAILED"}), skipped |-> in({"SKIPPED", "CANCELLED"}),
   open |-> in(unfinished)]

(* Mutants: deliveries being sent do not keep the campaign open, failed ones do. *)
CountsPendingOnly(d) == CountWith(d, {"PENDING"})
CountsFailedOpen(d)  == CountWith(d, {"PENDING", "PROCESSING", "FAILED"})

CountOf(d) == CountWith(d, {"PENDING", "PROCESSING"})

CountDeliveries(w) ==
  /\ pc[w] = "counting"
  /\ tally' = [tally EXCEPT ![w] = CountOf([delivery EXCEPT ![job[w]] = DeliveryOf(fate[w])])]
  /\ pc' = [pc EXCEPT ![w] = "committing"]
  /\ UNCHANGED <<rows, job, seen, known, fate, view, history>>

(* ... and the ORM writes the attributes that differ from what it had read. *)
Refreshed(c, v, t) ==
  [status  |-> IF t.open > 0 \/ v.status \in {"CANCELLED", "COMPLETED"} THEN c.status ELSE "COMPLETED",
   sent    |-> IF t.sent = v.sent THEN c.sent ELSE t.sent,
   failed  |-> IF t.failed = v.failed THEN c.failed ELSE t.failed,
   skipped |-> IF t.skipped = v.skipped THEN c.skipped ELSE t.skipped]

(* Without a difference there is no UPDATE, and no wait for the row. *)
Differs(v, t) ==
  \/ t.open = 0 /\ v.status \notin {"CANCELLED", "COMPLETED"}
  \/ t.sent # v.sent \/ t.failed # v.failed \/ t.skipped # v.skipped

Commit(w) ==
  /\ pc[w] = "committing"
  /\ job[w] \in Campaigns /\ Differs(view[w], tally[w]) => ~cancelling
  /\ outbox'   = [outbox EXCEPT ![job[w]] = OutboxOf(fate[w])]
  /\ overdue'  = overdue \ {job[w]}
  /\ delivery' = [d \in Campaigns |-> IF d = job[w] THEN DeliveryOf(fate[w]) ELSE delivery[d]]
  /\ campaign' = IF job[w] \in Campaigns THEN Refreshed(campaign, view[w], tally[w]) ELSE campaign
  /\ welcomed' = IF fate[w] = "SENT" /\ job[w] \in Welcomes
                 THEN welcomed \cup {Owner[job[w]]} ELSE welcomed
  /\ Leave(w)
  /\ view'  = [view EXCEPT ![w] = Draft]
  /\ tally' = [tally EXCEPT ![w] = NoTally]
  /\ UNCHANGED <<users, attempts, admin, seen, known, history>>

-----------------------------------------------------------------------------
(* The environment: time passes, processes die. *)

LeaseExpires(e) ==
  /\ outbox[e] = "PROCESSING" /\ e \notin overdue
  /\ LiveOverrun \/ \A w \in Workers : job[w] # e
  /\ overdue' = overdue \cup {e}
  /\ UNCHANGED <<users, welcomed, outbox, attempts, delivery, campaign, admin, locals, history>>

Crash(w) ==
  /\ pc[w] # "idle" /\ mishaps < MaxMishaps
  /\ mishaps' = mishaps + 1
  /\ lost' = IF fate[w] = "SENT" THEN [lost EXCEPT ![job[w]] = @ + 1] ELSE lost
  /\ pc'    = [pc EXCEPT ![w] = "idle"]
  /\ job'   = [job EXCEPT ![w] = NoEvent]
  /\ fate'  = [fate EXCEPT ![w] = "NONE"]
  /\ seen'  = [seen EXCEPT ![w] = {}]
  /\ view'  = [view EXCEPT ![w] = Draft]
  /\ tally' = [tally EXCEPT ![w] = NoTally]
  /\ UNCHANGED <<rows, known, mails>>

-----------------------------------------------------------------------------
Init ==
  /\ users = Users /\ welcomed = {}
  /\ outbox   = [e \in Events |-> "NONE"]
  /\ attempts = [e \in Events |-> 0]
  /\ overdue  = {}
  /\ delivery = [e \in Campaigns |-> "NONE"]
  /\ campaign = Draft /\ cancelling = FALSE /\ revoked = {}
  /\ pc    = [w \in Workers |-> "idle"]
  /\ job   = [w \in Workers |-> NoEvent]
  /\ seen  = [w \in Workers |-> {}]
  /\ known = {}
  /\ fate  = [w \in Workers |-> "NONE"]
  /\ view  = [w \in Workers |-> Draft]
  /\ tally = [w \in Workers |-> NoTally]
  /\ mails = [e \in Events |-> 0]
  /\ lost  = [e \in Events |-> 0]
  /\ mishaps = 0

Administration ==
  \/ \E e \in Events : Enqueue(e) \/ DeleteNotification(e)
  \/ \E R \in SUBSET {e \in Campaigns : Owner[e] \in users}, scheduled \in BOOLEAN :
       StartCampaign(R, scheduled)
  \/ CancelDeliveries \/ CancelCampaign
  \/ \E u \in Users : DeleteUser(u)

Sweep(w)   == RecoverRead(w) \/ RecoverWrite(w) \/ RecoverFails(w) \/ Exit(w)
Finish(w)  ==
  \/ LockEvent(w) \/ EventGone(w) \/ UserGone(w) \/ AlreadyWelcomed(w) \/ StartSending(w)
  \/ Accepted(w) \/ Refused(w) \/ Relock(w)
  \/ ReadCampaign(w) \/ CountDeliveries(w) \/ Commit(w)

Next ==
  \/ Administration \/ CancelFails
  \/ \E w \in Workers : Sweep(w) \/ Finish(w) \/ AnswerLost(w) \/ Crash(w)
  \/ \E w \in Workers, e \in Events : Claim(w, e)
  \/ \E e \in Events : LeaseExpires(e)

Spec == Init /\ [][Next]_vars

(* The timer starts the command again and again, a live worker goes on, the *)
(* mail server answers, and time passes.  A PENDING event is due sooner or  *)
(* later and then tried by every run, which makes its claim strongly fair.  *)
(* A cancellation that has begun goes on, and a commit that waits for its   *)
(* row is next in PostgreSQL's queue whoever cancels again (strong).        *)
Fairness ==
  /\ WF_vars(CancelCampaign)
  /\ \A w \in Workers : WF_vars(Sweep(w)) /\ WF_vars(Finish(w)) /\ SF_vars(Commit(w))
  /\ \A w \in Workers \ Requests : SF_vars(\E e \in Events : Claim(w, e))
  /\ \A e \in Events : WF_vars(LeaseExpires(e))

FairSpec == Spec /\ Fairness
-----------------------------------------------------------------------------
(* Types of the rows, of the workers' local state and of the history. *)
TypeOK ==
  /\ users \subseteq Users /\ welcomed \subseteq Users /\ overdue \subseteq Events /\ known \subseteq Workers
  /\ outbox \in [Events -> EventStatus]
  /\ attempts \in [Events -> Nat]
  /\ delivery \in [Campaigns -> DeliveryStatus]
  /\ campaign \in CampaignRow
  /\ cancelling \in BOOLEAN /\ revoked \subseteq Campaigns
  /\ pc \in [Workers -> Places]
  /\ job \in [Workers -> Events \cup {NoEvent}]
  /\ seen \in [Workers -> SUBSET Events]
  /\ fate \in [Workers -> Fates]
  /\ view \in [Workers -> CampaignRow]
  /\ tally \in [Workers -> Tally]
  /\ mails \in [Events -> Nat] /\ lost \in [Events -> Nat] /\ mishaps \in Nat

(* The welcome mail goes out once, plus once for every acceptance the        *)
(* database never heard of, however many workers claim its event again and   *)
(* however stale their view of it: the user row is locked and                *)
(* welcome_email_sent_at is read under that lock.  (A request that holds the *)
(* User object reads an old attribute; see Holders.)                         *)
WelcomeOnce ==
  Holders = {} => \A e \in Welcomes : mails[e] <= lost[e] + 1

(* A row that says SENT was accepted by the mail server at least once: no *)
(* path marks an event SENT on the strength of somebody else's delivery.  *)
SentWasAccepted == \A e \in Events : outbox[e] = "SENT" => mails[e] >= 1

(* systemd does not start the command while its last run goes on. *)
OneCommand == \A w, v \in Workers \ Requests : w = v

(* Every event is mailed at most once more than there are acceptances the *)
(* database never heard of: a claim excludes every other worker until its *)
(* outcome is committed.                                                  *)
OneMailPerAcknowledgement == \A e \in Events : mails[e] <= lost[e] + 1

(* The delivery row the administrator sees and the outbox row the worker     *)
(* obeys tell the same story, with two exceptions: recovery resets only the  *)
(* second, and a cancellation reaches only the second if the first is        *)
(* PROCESSING or became PENDING again between its two UPDATEs.  The delivery *)
(* that stays open then belongs to a campaign that stays CANCELLED: no       *)
(* worker's counting ever makes it COMPLETED.                                *)
DeliveryMirrorsOutbox ==
  \A e \in Campaigns :
    /\ CASE outbox[e] = "PENDING"   -> delivery[e] \in {"PENDING", "PROCESSING"}
         [] outbox[e] = "CANCELLED" -> delivery[e] \in {"CANCELLED", "PROCESSING", "PENDING"}
         [] outbox[e] = "FAILED"    -> delivery[e] \in {"FAILED", "SKIPPED"}
         [] OTHER                   -> delivery[e] = outbox[e]
    /\ outbox[e] = "CANCELLED" /\ delivery[e] # "CANCELLED" => campaign.status = "CANCELLED"

(* A campaign shown as COMPLETED has nothing left to deliver and its three *)
(* counters are those of its delivery rows, although each worker computes  *)
(* them from an unlocked read.                                             *)
CompletedIsExact ==
  campaign.status = "COMPLETED" =>
    LET c == CountWith(delivery, {"PENDING", "PROCESSING"}) IN
    /\ c.open = 0
    /\ campaign.sent = c.sent /\ campaign.failed = c.failed /\ campaign.skipped = c.skipped

(* No step revives an event that a cancellation or an outcome has closed, or *)
(* mails it again.                                                           *)
ClosedStaysClosed ==
  [][\A e \in Events :
       outbox[e] \in {"SENT", "FAILED", "CANCELLED", "DELETED"} =>
         outbox'[e] \in {outbox[e], "DELETED"} /\ mails'[e] = mails[e]]_vars

(* Every event that was enqueued gets a final status. *)
EventsSettle ==
  \A e \in Events : outbox[e] = "PENDING" ~> outbox[e] \in {"SENT", "FAILED", "CANCELLED", "DELETED"}

(* A campaign that was started ends. *)
CampaignSettles ==
  campaign.status \in {"SCHEDULED", "PROCESSING"} ~> campaign.status \in {"COMPLETED", "CANCELLED"}

(* The administrator is told that outstanding deliveries were cancelled *)
(* (rundmails/[id].vue:23): a cancelled campaign has none left to send. *)
NothingPendingAfterCancel ==
  campaign.status = "CANCELLED" => \A e \in Campaigns : delivery[e] # "PENDING"

=============================================================================
