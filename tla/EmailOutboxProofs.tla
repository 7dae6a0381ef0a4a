------------------------- MODULE EmailOutboxProofs -------------------------
(***************************************************************************)
(* Theorems about EmailOutbox, for any accounts, events, workers and       *)
(* bounds.  Each invariant is strengthened to an inductive one; the proof  *)
(* that a step preserves it has one step per action.                       *)
(***************************************************************************)
EXTENDS EmailOutbox, FiniteSetTheorems, TLAPS

USE DEF Welcomes, Campaigns, admin

(* The counts of the delivery rows are natural numbers: there are finitely many rows. *)
LEMMA CountOfType ==
  ASSUME NEW d \in [Campaigns -> DeliveryStatus]
  PROVE  CountOf(d) \in Tally
<1>1. ASSUME NEW S PROVE Cardinality({e \in Campaigns : d[e] \in S}) \in Nat
  <2>1. IsFiniteSet({e \in Campaigns : d[e] \in S})
    BY EventAssumption, FS_Subset
  <2> QED  BY <2>1, FS_CardinalityType
<1> QED  BY <1>1 DEF CountOf, CountWith, Tally

(* What a worker knows agrees with where it stands: it has an event from the *)
(* claim to the end, and an outcome once the mail server has answered.       *)
Settled == {"settling", "counting", "committing"}
Outcome == {"SENT", "ALREADY", "GONE", "FAILED", "PENDING"}

Placed ==
  \A w \in Workers :
    /\ pc[w] \in {"claimed", "locked", "sending", "refused"} \cup Settled <=> job[w] # NoEvent
    /\ pc[w] \in Settled <=> fate[w] \in Outcome
    /\ pc[w] = "refused" <=> fate[w] \in {"TRANSIENT", "PERMANENT"}

LEMMA PlacedInit == Init => TypeOK /\ Placed
<1> SUFFICES ASSUME Init PROVE TypeOK /\ Placed
  OBVIOUS
<1>1. campaign \in CampaignRow /\ view \in [Workers -> CampaignRow] /\ tally \in [Workers -> Tally]
  BY DEF Init, CampaignRow, CampaignStatus, Tally, Draft, NoTally
<1> QED
  BY <1>1, EventAssumption DEF Init, TypeOK, Placed, Settled, Outcome, EventStatus, DeliveryStatus,
     Places, Fates

LEMMA PlacedStep == TypeOK /\ Placed /\ [Next]_vars => TypeOK' /\ Placed'
<1> SUFFICES ASSUME TypeOK, Placed, [Next]_vars PROVE TypeOK' /\ Placed'
  OBVIOUS
<1> USE EventAssumption, OwnerAssumption, KindAssumption, WorkerAssumption
    DEF TypeOK, Placed, Settled, Outcome, rows, locals, history, EventStatus, Places, Fates
<1>1. CASE Administration
  <2>1. ASSUME NEW e \in Events, Enqueue(e) PROVE TypeOK' /\ Placed'
    BY <2>1 DEF Enqueue
  <2>2. ASSUME NEW e \in Events, DeleteNotification(e) PROVE TypeOK' /\ Placed'
    BY <2>2 DEF DeleteNotification
  <2>3. ASSUME NEW R \in SUBSET {e \in Campaigns : Owner[e] \in users}, NEW scheduled \in BOOLEAN,
               StartCampaign(R, scheduled)
        PROVE  TypeOK' /\ Placed'
    BY <2>3 DEF StartCampaign, DeliveryStatus, CampaignRow, CampaignStatus
  <2>4. CASE CancelCampaign
    BY <2>4 DEF CancelCampaign, DeliveryStatus, CampaignRow, CampaignStatus
  <2>6. CASE CancelDeliveries
    BY <2>6 DEF CancelDeliveries
  <2>5. ASSUME NEW u \in Users, DeleteUser(u) PROVE TypeOK' /\ Placed'
    BY <2>5 DEF DeleteUser
  <2> QED  BY <1>1, <2>1, <2>2, <2>3, <2>4, <2>5, <2>6 DEF Administration
<1>2. ASSUME NEW w \in Workers, Sweep(w) PROVE TypeOK' /\ Placed'
  <2>1. CASE RecoverRead(w)
    BY <2>1 DEF RecoverRead
  <2>2. CASE RecoverWrite(w)
    BY <2>2 DEF RecoverWrite
  <2>3. CASE RecoverFails(w) \/ Exit(w)
    BY <2>3 DEF RecoverFails, Exit
  <2> QED  BY <1>2, <2>1, <2>2, <2>3 DEF Sweep
<1>3. ASSUME NEW w \in Workers, NEW e \in Events, Claim(w, e) PROVE TypeOK' /\ Placed'
  <2>1. TypeOK'
    <3>1. campaign' \in CampaignRow
      BY <1>3 DEF Claim, CampaignRow, CampaignStatus
    <3>2. delivery' \in [Campaigns -> DeliveryStatus]
      BY <1>3 DEF Claim, DeliveryStatus
    <3>3. outbox' \in [Events -> EventStatus] /\ attempts' \in [Events -> Nat] /\ known' \subseteq Workers
      BY <1>3 DEF Claim
    <3> QED  BY <1>3, <3>1, <3>2, <3>3 DEF Claim
  <2>2. Placed'
    BY <1>3 DEF Claim, Claimable
  <2> QED  BY <2>1, <2>2
<1>4. ASSUME NEW w \in Workers, Finish(w) PROVE TypeOK' /\ Placed'
  <2>1. CASE LockEvent(w) \/ StartSending(w)
    BY <2>1 DEF LockEvent, StartSending
  <2>2. CASE EventGone(w)
    BY <2>2 DEF EventGone, Leave
  <2>3. CASE UserGone(w) \/ AlreadyWelcomed(w)
    BY <2>3 DEF UserGone, AlreadyWelcomed, Settle
  <2>4. CASE Accepted(w)
    BY <2>4 DEF Accepted, Settle
  <2>5. CASE Refused(w)
    BY <2>5 DEF Refused, Refuse
  <2>6. CASE Relock(w)
    BY <2>6 DEF Relock, Settle
  <2>7. CASE ReadCampaign(w)
    BY <2>7 DEF ReadCampaign
  <2>8. CASE CountDeliveries(w)
    <3>1. [delivery EXCEPT ![job[w]] = DeliveryOf(fate[w])] \in [Campaigns -> DeliveryStatus]
      BY <2>8 DEF CountDeliveries, DeliveryOf, OutboxOf, DeliveryStatus
    <3> QED  BY <2>8, <3>1, CountOfType DEF CountDeliveries
  <2>9. CASE Commit(w)
    <3>1. outbox' \in [Events -> EventStatus]
      BY <2>9 DEF Commit, OutboxOf
    <3>2. delivery' \in [Campaigns -> DeliveryStatus]
      BY <2>9 DEF Commit, DeliveryOf, OutboxOf, DeliveryStatus
    <3>3. campaign' \in CampaignRow
      BY <2>9 DEF Commit, Refreshed, CampaignRow, CampaignStatus, Tally
    <3>4. view' \in [Workers -> CampaignRow] /\ tally' \in [Workers -> Tally]
      BY <2>9 DEF Commit, CampaignRow, CampaignStatus, Tally, Draft, NoTally
    <3>5. welcomed' \subseteq Users
      BY <2>9 DEF Commit
    <3>6. /\ users' \subseteq Users /\ overdue' \subseteq Events /\ known' \subseteq Workers
          /\ attempts' \in [Events -> Nat] /\ seen' \in [Workers -> SUBSET Events]
          /\ mails' \in [Events -> Nat] /\ lost' \in [Events -> Nat] /\ mishaps' \in Nat
          /\ cancelling' \in BOOLEAN /\ revoked' \subseteq Campaigns
      BY <2>9 DEF Commit
    <3>7. /\ pc' \in [Workers -> Places] /\ job' \in [Workers -> Events \cup {NoEvent}]
          /\ fate' \in [Workers -> Fates] /\ Placed'
      BY <2>9 DEF Commit, Leave
    <3> QED  BY <3>1, <3>2, <3>3, <3>4, <3>5, <3>6, <3>7
  <2> QED  BY <1>4, <2>1, <2>2, <2>3, <2>4, <2>5, <2>6, <2>7, <2>8, <2>9 DEF Finish
<1>5. ASSUME NEW w \in Workers, AnswerLost(w) PROVE TypeOK' /\ Placed'
  BY <1>5 DEF AnswerLost, Refuse
<1>6. ASSUME NEW w \in Workers, Crash(w) PROVE TypeOK' /\ Placed'
  <2>1. lost' \in [Events -> Nat]
    BY <1>6 DEF Crash
  <2>2. view' \in [Workers -> CampaignRow] /\ tally' \in [Workers -> Tally]
    BY <1>6 DEF Crash, Draft, NoTally, CampaignRow, CampaignStatus, Tally
  <2> QED  BY <1>6, <2>1, <2>2 DEF Crash
<1>7. ASSUME NEW e \in Events, LeaseExpires(e) PROVE TypeOK' /\ Placed'
  BY <1>7 DEF LeaseExpires
<1>8. CASE CancelFails
  <2>1. cancelling' \in BOOLEAN
    BY <1>8, Zenon DEF CancelFails
  <2>2. revoked' \subseteq Campaigns
    BY <1>8, Zenon DEF CancelFails
  <2>3. mishaps' \in Nat
    <3>1. mishaps' = mishaps + 1
      BY <1>8, Zenon DEF CancelFails
    <3> QED  BY <3>1
  <2>4. UNCHANGED <<users, welcomed, outbox, attempts, overdue, delivery, campaign, locals, mails, lost>>
    BY <1>8, Zenon DEF CancelFails
  <2> QED  BY <2>1, <2>2, <2>3, <2>4
<1>9. CASE UNCHANGED vars
  BY <1>9 DEF vars, history
<1> QED  BY <1>1, <1>2, <1>3, <1>4, <1>5, <1>6, <1>7, <1>8, <1>9 DEF Next

(* The columns and the workers' variables keep the types the models declare. *)
THEOREM TypeCorrect == Spec => [](TypeOK /\ Placed)
  BY PlacedInit, PlacedStep, PTL DEF Spec

-----------------------------------------------------------------------------
(* The row lock of a user is held by one worker at a time. *)
UserMutex ==
  \A w, v \in Workers :
    (\E u \in Users : HoldsUser(w, u) /\ HoldsUser(v, u)) => w = v

(* The welcome mail of a worker between its look at welcome_email_sent_at   *)
(* and its commit is the first one; Pending(w, e) is the accepted mail that *)
(* is not yet recorded.                                                     *)
Pending(w, e) == fate[w] = "SENT" /\ job[w] = e

FirstMail ==
  Holders = {} =>
    \A w \in Workers : (pc[w] = "sending" \/ fate[w] = "SENT") /\ job[w] \in Welcomes
                          => Owner[job[w]] \notin welcomed

Counted ==
  Holders = {} =>
    \A e \in Welcomes :
      /\ mails[e] <= lost[e] + 1
      /\ (\A w \in Workers : ~Pending(w, e)) /\ Owner[e] \notin welcomed => mails[e] <= lost[e]

WelcomeInv == TypeOK /\ Placed /\ UserMutex /\ FirstMail /\ Counted

LEMMA WelcomeInit == Init => WelcomeInv
<1> SUFFICES ASSUME Init PROVE UserMutex /\ FirstMail /\ Counted
  BY PlacedInit DEF WelcomeInv
<1> QED  BY DEF Init, UserMutex, HoldsUser, FirstMail, Counted, Pending

(* The lock of the user is taken only when it is free and is otherwise only given up. *)
LEMMA UserMutexStep == TypeOK /\ Placed /\ UserMutex /\ [Next]_vars => UserMutex'
<1> SUFFICES ASSUME TypeOK, Placed, UserMutex, [Next]_vars PROVE UserMutex'
  OBVIOUS
<1> USE DEF TypeOK, Placed, Settled, Outcome, UserMutex, HoldsUser
<1>1. ASSUME NEW w \in Workers, AlreadyWelcomed(w) \/ StartSending(w) PROVE UserMutex'
  BY <1>1 DEF AlreadyWelcomed, StartSending, Settle, UserFree
<1>2. ASSUME NEW w \in Workers, Accepted(w) PROVE UserMutex'
  BY <1>2 DEF Accepted, Settle
<1>3. ASSUME NEW w \in Workers, Refused(w) \/ AnswerLost(w) PROVE UserMutex'
  BY <1>3 DEF Refused, AnswerLost, Refuse
<1>4. ASSUME NEW w \in Workers, NEW e \in Events, Claim(w, e) PROVE UserMutex'
  BY <1>4 DEF Claim, Claimable
<1>5. ASSUME NEW w \in Workers, UserGone(w) \/ Relock(w) PROVE UserMutex'
  BY <1>5 DEF UserGone, Relock, Settle
<1>6. ASSUME NEW w \in Workers, EventGone(w) \/ Commit(w) PROVE UserMutex'
  BY <1>6 DEF EventGone, Commit, Leave
<1>7. ASSUME NEW w \in Workers, LockEvent(w) \/ ReadCampaign(w) \/ CountDeliveries(w) PROVE UserMutex'
  BY <1>7 DEF LockEvent, ReadCampaign, CountDeliveries
<1>8. ASSUME NEW w \in Workers, Sweep(w) PROVE UserMutex'
  BY <1>8 DEF Sweep, RecoverRead, RecoverWrite, RecoverFails, Exit, rows
<1>9. ASSUME NEW w \in Workers, Crash(w) PROVE UserMutex'
  BY <1>9 DEF Crash
<1>10. CASE Administration \/ CancelFails \/ UNCHANGED vars \/ \E e \in Events : LeaseExpires(e)
  <2>1. UNCHANGED <<pc, job, fate>>
    BY <1>10 DEF Administration, Enqueue, DeleteNotification, StartCampaign, CancelDeliveries,
       CancelCampaign, CancelFails, DeleteUser, LeaseExpires, vars, locals
  <2> QED  BY <2>1
<1> QED  BY <1>1, <1>2, <1>3, <1>4, <1>5, <1>6, <1>7, <1>8, <1>9, <1>10 DEF Next, Finish

(* Nothing the administrators, the clock or a sweep do concerns mails under way. *)
LEMMA Bystanders ==
  ASSUME \/ Administration \/ CancelFails \/ UNCHANGED vars \/ \E e \in Events : LeaseExpires(e)
  PROVE  UNCHANGED <<pc, job, fate, welcomed, mails, lost, known>>
BY DEF Administration, Enqueue, DeleteNotification, StartCampaign, CancelDeliveries,
       CancelCampaign, CancelFails, DeleteUser, LeaseExpires, vars, rows, locals, history

LEMMA WelcomeStep == WelcomeInv /\ [Next]_vars => WelcomeInv'
<1> SUFFICES ASSUME WelcomeInv, [Next]_vars PROVE FirstMail' /\ Counted'
  BY PlacedStep, UserMutexStep DEF WelcomeInv
<1> USE OwnerAssumption DEF WelcomeInv, TypeOK, Placed, Settled, Outcome, FirstMail, Counted, Pending
<1>1. ASSUME NEW w \in Workers, Accepted(w) PROVE FirstMail' /\ Counted'
  <2>1. FirstMail'
    BY <1>1 DEF Accepted, Settle, rows
  <2>2. ASSUME Holders = {}, NEW e \in Welcomes, job[w] = e, NEW v \in Workers PROVE ~Pending(v, e)
    BY <1>1, <2>2 DEF UserMutex, HoldsUser, Accepted
  <2>3. Counted'
    BY <1>1, <2>2 DEF Accepted, Settle, rows
  <2> QED  BY <2>1, <2>3
<1>2. ASSUME NEW w \in Workers, Commit(w) PROVE FirstMail' /\ Counted'
  <2>1. FirstMail'
    BY <1>2 DEF Commit, Leave, UserMutex, HoldsUser
  <2>2. Counted'
    BY <1>2 DEF Commit, Leave, history
  <2> QED  BY <2>1, <2>2
<1>3. ASSUME NEW w \in Workers, Crash(w) PROVE FirstMail' /\ Counted'
  <2>1. FirstMail'
    BY <1>3 DEF Crash, rows
  <2>2. Counted'
    BY <1>3 DEF Crash, rows
  <2> QED  BY <2>1, <2>2
<1>4. ASSUME NEW w \in Workers, StartSending(w) PROVE FirstMail' /\ Counted'
  BY <1>4, WorkerAssumption DEF StartSending, SaysWelcomed, rows, history
<1>5. ASSUME NEW w \in Workers, AnswerLost(w) PROVE FirstMail' /\ Counted'
  BY <1>5 DEF AnswerLost, Refuse, rows
<1>6. ASSUME NEW w \in Workers, Refused(w) \/ Relock(w) \/ UserGone(w) \/ AlreadyWelcomed(w)
      PROVE  FirstMail' /\ Counted'
  BY <1>6 DEF Refused, Refuse, Relock, UserGone, AlreadyWelcomed, Settle, rows, history
<1>7. ASSUME NEW w \in Workers, LockEvent(w) \/ ReadCampaign(w) \/ CountDeliveries(w) \/ EventGone(w)
      PROVE  FirstMail' /\ Counted'
  BY <1>7 DEF LockEvent, ReadCampaign, CountDeliveries, EventGone, Leave, rows, history
<1>8. ASSUME NEW w \in Workers, NEW e \in Events, Claim(w, e) PROVE FirstMail' /\ Counted'
  BY <1>8 DEF Claim, Claimable, history
<1>9. ASSUME NEW w \in Workers, Sweep(w) PROVE FirstMail' /\ Counted'
  BY <1>9 DEF Sweep, RecoverRead, RecoverWrite, RecoverFails, Exit, rows, history
<1>10. CASE Administration \/ CancelFails \/ UNCHANGED vars \/ \E e \in Events : LeaseExpires(e)
  BY <1>10, Bystanders
<1> QED  BY <1>1, <1>2, <1>3, <1>4, <1>5, <1>6, <1>7, <1>8, <1>9, <1>10 DEF Next, Finish

(* The welcome mail is accepted once, plus once for every acceptance that no  *)
(* commit recorded: the user row is locked from the look at                   *)
(* welcome_email_sent_at to the commit that sets it.                          *)
THEOREM WelcomeMailedOnce == Spec => []WelcomeOnce
<1>1. WelcomeInv => WelcomeOnce
  BY DEF WelcomeInv, Counted, WelcomeOnce
<1> QED  BY WelcomeInit, WelcomeStep, <1>1, PTL DEF Spec

-----------------------------------------------------------------------------
(* SENT is written by a worker whose own message was accepted, or by one    *)
(* that saw welcome_email_sent_at set, and only the former sets that.       *)
Evidence ==
  /\ \A e \in Events : outbox[e] = "SENT" => mails[e] >= 1
  /\ \A e \in Welcomes : Owner[e] \in welcomed => mails[e] >= 1
  /\ \A w \in Workers : fate[w] = "SENT" => mails[job[w]] >= 1
  /\ \A w \in Workers : fate[w] = "ALREADY" => job[w] \in Welcomes /\ Owner[job[w]] \in welcomed
  /\ \A w \in known : job[w] # NoEvent => Owner[job[w]] \in welcomed

SentInv == TypeOK /\ Placed /\ Evidence

LEMMA SentInit == Init => SentInv
<1> SUFFICES ASSUME Init PROVE Evidence
  BY PlacedInit DEF SentInv
<1> QED  BY DEF Init, Evidence

LEMMA SentStep == SentInv /\ [Next]_vars => SentInv'
<1> SUFFICES ASSUME SentInv, [Next]_vars PROVE Evidence'
  BY PlacedStep DEF SentInv
<1> USE OwnerAssumption DEF SentInv, TypeOK, Placed, Settled, Outcome, Evidence
<1>1. ASSUME NEW w \in Workers, Accepted(w) PROVE Evidence'
  BY <1>1 DEF Accepted, Settle, rows
<1>2. ASSUME NEW w \in Workers, Commit(w) PROVE Evidence'
  BY <1>2, KeyAssumption DEF Commit, Leave, OutboxOf, history
<1>3. ASSUME NEW w \in Workers, Crash(w) PROVE Evidence'
  BY <1>3 DEF Crash, rows
<1>4. ASSUME NEW w \in Workers, AlreadyWelcomed(w) PROVE Evidence'
  BY <1>4 DEF AlreadyWelcomed, SaysWelcomed, Settle, rows, history
<1>5. ASSUME NEW w \in Workers, AnswerLost(w) PROVE Evidence'
  BY <1>5 DEF AnswerLost, Refuse, rows
<1>6. ASSUME NEW w \in Workers, Refused(w) \/ Relock(w) \/ UserGone(w) \/ StartSending(w) PROVE Evidence'
  BY <1>6 DEF Refused, Refuse, Relock, UserGone, StartSending, Settle, rows, history
<1>7. ASSUME NEW w \in Workers, LockEvent(w) \/ ReadCampaign(w) \/ CountDeliveries(w) \/ EventGone(w)
      PROVE  Evidence'
  BY <1>7 DEF LockEvent, ReadCampaign, CountDeliveries, EventGone, Leave, rows, history
<1>8. ASSUME NEW w \in Workers, NEW e \in Events, Claim(w, e) PROVE Evidence'
  <2>1. \A v \in known' : job'[v] # NoEvent => Owner[job'[v]] \in welcomed'
    BY <1>8, EventAssumption DEF Claim, Claimable
  <2>2. \A v \in Workers : fate[v] \in {"SENT", "ALREADY"} => job'[v] = job[v]
    BY <1>8 DEF Claim, Claimable
  <2>3. \A f \in Events : outbox'[f] = "SENT" => outbox[f] = "SENT"
    BY <1>8 DEF Claim
  <2>4. UNCHANGED <<fate, welcomed, mails>>
    BY <1>8 DEF Claim, history
  <2> QED  BY <2>1, <2>2, <2>3, <2>4
<1>9. ASSUME NEW w \in Workers, Sweep(w) PROVE Evidence'
  BY <1>9 DEF Sweep, RecoverRead, RecoverWrite, RecoverFails, Exit, rows, history
<1>10. CASE Administration
  <2>1. UNCHANGED <<job, fate, welcomed, mails, known>>
    BY <1>10, Bystanders
  <2>2. ASSUME NEW f \in Events PROVE outbox'[f] = "SENT" => outbox[f] = "SENT"
    <3>1. ASSUME NEW e \in Events, Enqueue(e) \/ DeleteNotification(e)
          PROVE  outbox'[f] = "SENT" => outbox[f] = "SENT"
      BY <3>1 DEF Enqueue, DeleteNotification
    <3>2. CASE CancelDeliveries \/ CancelCampaign \/ \E u \in Users : DeleteUser(u)
      BY <3>2 DEF CancelDeliveries, CancelCampaign, DeleteUser
    <3>3. ASSUME NEW R \in SUBSET {e \in Campaigns : Owner[e] \in users}, NEW scheduled \in BOOLEAN,
                 StartCampaign(R, scheduled)
          PROVE  outbox'[f] = "SENT" => outbox[f] = "SENT"
      BY <3>3 DEF StartCampaign
    <3> QED  BY <1>10, <3>1, <3>2, <3>3 DEF Administration
  <2> QED  BY <2>1, <2>2
<1>11. CASE CancelFails \/ UNCHANGED vars \/ \E e \in Events : LeaseExpires(e)
  BY <1>11 DEF vars, CancelFails, LeaseExpires, rows, locals, history
<1> QED  BY <1>1, <1>2, <1>3, <1>4, <1>5, <1>6, <1>7, <1>8, <1>9, <1>10, <1>11 DEF Next, Finish

(* An event marked SENT was accepted by the mail server at least once. *)
THEOREM SentIsAccepted == Spec => []SentWasAccepted
<1>1. SentInv => SentWasAccepted
  BY DEF SentInv, Evidence, SentWasAccepted
<1> QED  BY SentInit, SentStep, <1>1, PTL DEF Spec
-----------------------------------------------------------------------------
(* The events whose claim is exclusive when one periodic command runs: an   *)
(* API request delivers welcome mails beside it, and one that outlasts its   *)
(* 15 minutes while it lives can be overtaken.                               *)
Exclusive == {e \in Events : e \in Welcomes /\ LiveOverrun => Requests = {}}

(* A claim is exclusive: nobody else has the event, the sweep does not touch *)
(* it, and while its row is locked it is not deleted either.                 *)
Claims ==
  /\ \A w, v \in Workers : job[w] = job[v] /\ job[w] \in Exclusive => w = v
  /\ \A w \in Workers :
       /\ job[w] \in Exclusive =>
            /\ outbox[job[w]] \in {"PROCESSING", "DELETED"}
            /\ pc[w] \in {"locked", "sending"} \cup Settled => outbox[job[w]] = "PROCESSING"
       /\ job[w] \in overdue => LiveOverrun
       /\ job[w] \in Events \ Welcomes => w \notin Requests
       /\ pc[w] = "swept" \/ seen[w] # {} => w \notin Requests
       /\ \A e \in seen[w] \cap Exclusive :
            /\ outbox[e] \in {"PROCESSING", "DELETED"}
            /\ \A v \in Workers : job[v] # e

(* Before its start a campaign has no event and no delivery to count. *)
Fresh ==
  campaign.status = "DRAFT" =>
    /\ \A e \in Campaigns : outbox[e] = "NONE"
    /\ campaign.sent = 0 /\ campaign.failed = 0 /\ campaign.skipped = 0

ClaimInv == TypeOK /\ Placed /\ Claims /\ Fresh

(* An open event whose acceptance nobody has still to record was mailed only *)
(* as often as acceptances were lost.                                        *)
Once ==
  \A e \in Exclusive :
    /\ mails[e] <= lost[e] + 1
    /\ outbox[e] \in {"NONE", "PENDING", "PROCESSING"} /\ (\A w \in Workers : ~Pending(w, e))
         => mails[e] <= lost[e]

(* The worker that is about to commit knows the counters of the row, and if  *)
(* it found no other delivery open its counts are those its commit leaves.   *)
Outstanding == {"PENDING", "PROCESSING"}
Settling(w) == [delivery EXCEPT ![job[w]] = DeliveryOf(fate[w])]

Counters ==
  \A w \in Workers : job[w] \in Campaigns =>
    /\ pc[w] \in {"counting", "committing"} =>
         /\ view[w].sent = campaign.sent
         /\ view[w].failed = campaign.failed
         /\ view[w].skipped = campaign.skipped
    /\ pc[w] = "committing" /\ tally[w].open = 0 => tally[w] = CountOf(Settling(w))

LEMMA ClaimInit == Init => Claims /\ Fresh
  BY EventAssumption DEF Init, Claims, Fresh, Draft, Exclusive, Settled

(* Steps that keep the rows and only move a worker on inside its claim. *)
LEMMA WalkOn ==
  ASSUME TypeOK, Placed, Claims, Fresh, NEW w \in Workers,
         UNCHANGED <<outbox, overdue, job, seen, campaign>>,
         \A v \in Workers : v # w => pc'[v] = pc[v],
         pc'[w] # "swept",
         pc'[w] \in {"locked", "sending"} \cup Settled /\ job[w] \in Exclusive
           => outbox[job[w]] = "PROCESSING"
  PROVE  Claims' /\ Fresh'
BY DEF Claims, Fresh, Exclusive

(* Steps that take a worker out of its claim, without a look at other workers. *)
LEMMA WalkOut ==
  ASSUME TypeOK, Placed, Claims, Fresh, NEW w \in Workers,
         UNCHANGED <<outbox, overdue, campaign>>,
         job' = [job EXCEPT ![w] = NoEvent],
         seen' \in {seen, [seen EXCEPT ![w] = {}]},
         \A v \in Workers : v # w => pc'[v] = pc[v],
         pc'[w] # "swept"
  PROVE  Claims' /\ Fresh'
BY EventAssumption DEF TypeOK, Claims, Fresh, Exclusive

(* Steps that concern no worker: an event somebody has claimed or is about to *)
(* reset is at most deleted, and not while its row is locked.                 *)
LEMMA Outside ==
  ASSUME TypeOK, Placed, Claims, UNCHANGED <<pc, job, seen, overdue>>,
         \A e \in Events : \/ outbox'[e] = outbox[e]
                           \/ outbox[e] \in {"NONE", "PENDING"}
                           \/ outbox'[e] = "DELETED" /\ EventFree(e)
  PROVE  Claims'
<1> USE DEF TypeOK, Exclusive
<1>1. ASSUME NEW w \in Workers, job[w] \in Exclusive
      PROVE  /\ outbox'[job[w]] \in {"PROCESSING", "DELETED"}
             /\ pc[w] \in {"locked", "sending"} \cup Settled => outbox'[job[w]] = "PROCESSING"
  <2>1. EventFree(job[w]) => pc[w] \notin {"locked", "sending"} \cup Settled
    BY DEF EventFree, HoldsEvent, Settled
  <2> QED  BY <1>1, <2>1 DEF Claims
<1>2. ASSUME NEW w \in Workers, NEW e \in seen[w] \cap Exclusive
      PROVE  outbox'[e] \in {"PROCESSING", "DELETED"}
  BY <1>2 DEF Claims
<1> QED  BY <1>1, <1>2 DEF Claims

(* The sweep finds no event in somebody's hands: the one command cannot sweep  *)
(* while it delivers, and a request is not overdue with an exclusive event.    *)
LEMMA ClaimsStep ==
  ASSUME OneCommand, TypeOK, Placed, Claims, Fresh, [Next]_vars
  PROVE  Claims' /\ Fresh'
<1> USE EventAssumption, WorkerAssumption
<1>1. CASE Administration
  <2> UNCHANGED <<pc, job, seen, overdue>>
    BY <1>1 DEF Administration, Enqueue, DeleteNotification, StartCampaign, CancelDeliveries,
       CancelCampaign, DeleteUser, locals
  <2>1. ASSUME NEW e \in Events, Enqueue(e) \/ DeleteNotification(e) PROVE Claims' /\ Fresh'
    <3>1. Claims'
      BY <2>1, Outside DEF Enqueue, DeleteNotification, TypeOK
    <3>2. Fresh'
      BY <2>1 DEF Enqueue, DeleteNotification, TypeOK, Fresh
    <3> QED  BY <3>1, <3>2
  <2>2. ASSUME NEW R \in SUBSET {e \in Campaigns : Owner[e] \in users}, NEW scheduled \in BOOLEAN,
               StartCampaign(R, scheduled)
        PROVE  Claims' /\ Fresh'
    <3>1. Claims'
      BY <2>2, Outside DEF StartCampaign, TypeOK, Fresh
    <3>2. campaign'.status # "DRAFT"
      BY <2>2 DEF StartCampaign, TypeOK, CampaignRow
    <3> QED  BY <3>1, <3>2 DEF Fresh
  <2>3. CASE CancelCampaign
    <3>1. Claims'
      BY <2>3, Outside DEF CancelCampaign, Cancellable, TypeOK
    <3>2. campaign'.status # "DRAFT"
      BY <2>3 DEF CancelCampaign, TypeOK, CampaignRow
    <3> QED  BY <3>1, <3>2 DEF Fresh
  <2>4. ASSUME NEW u \in Users, DeleteUser(u) PROVE Claims' /\ Fresh'
    <3>1. Claims'
      BY <2>4, Outside DEF DeleteUser, TypeOK
    <3>2. Fresh'
      BY <2>4 DEF DeleteUser, TypeOK, Fresh
    <3> QED  BY <3>1, <3>2
  <2>5. CASE CancelDeliveries
    <3>1. Claims'
      BY <2>5, Outside DEF CancelDeliveries, TypeOK
    <3> QED  BY <2>5, <3>1 DEF CancelDeliveries, Fresh
  <2> QED  BY <1>1, <2>1, <2>2, <2>3, <2>4, <2>5 DEF Administration
<1>2. ASSUME NEW w \in Workers, RecoverRead(w) PROVE Claims' /\ Fresh'
  <2>1. job[w] = NoEvent
    BY <1>2 DEF RecoverRead, Placed, Settled
  <2>2. ASSUME NEW e \in seen'[w] \cap Exclusive
        PROVE  outbox[e] = "PROCESSING" /\ \A v \in Workers : job[v] # e
    <3>1. Stale(e) /\ w \notin Requests /\ e \in Events
      BY <1>2, <2>2 DEF RecoverRead, TypeOK
    <3>2. ASSUME NEW v \in Workers, job[v] = e PROVE FALSE
      <4>1. LiveOverrun /\ v # w
        BY <2>1, <2>2, <3>1, <3>2 DEF Stale, Claims, Exclusive
      <4>2. v \in Requests
        BY <3>1, <4>1 DEF OneCommand
      <4> QED  BY <2>2, <3>1, <3>2, <4>1, <4>2 DEF Claims, Exclusive
    <3> QED  BY <3>1, <3>2 DEF Stale
  <2>3. /\ UNCHANGED <<outbox, overdue, job, campaign>> /\ w \notin Requests
        /\ \A v \in Workers : v # w => pc'[v] = pc[v] /\ seen'[v] = seen[v]
        /\ pc'[w] \in {"ready", "swept"}
    BY <1>2 DEF RecoverRead, rows, TypeOK
  <2>4. Fresh'
    BY <2>3 DEF Fresh
  <2>5. ASSUME NEW v \in Workers PROVE seen'[v] # {} => v \notin Requests
    BY <2>3 DEF Claims
  <2>6. ASSUME NEW v \in Workers, NEW e \in seen'[v] \cap Exclusive
        PROVE  outbox[e] \in {"PROCESSING", "DELETED"} /\ \A x \in Workers : job[x] # e
    BY <2>2, <2>3, <2>6 DEF Claims
  <2>7. ASSUME NEW v \in Workers, job[v] \in Exclusive, pc'[v] \in {"locked", "sending"} \cup Settled
        PROVE  outbox[job[v]] = "PROCESSING"
    BY <2>1, <2>3, <2>7 DEF Claims, Exclusive, Settled
  <2> QED  BY <2>3, <2>4, <2>5, <2>6, <2>7 DEF Claims, Exclusive
<1>3. ASSUME NEW w \in Workers, RecoverWrite(w) PROVE Claims' /\ Fresh'
  <2>1. ASSUME NEW v \in Workers PROVE seen'[v] = {}
    BY <1>3 DEF RecoverWrite, TypeOK, Claims, OneCommand
  <2>2. ASSUME NEW v \in Workers, job[v] \in Exclusive PROVE outbox'[job[v]] = outbox[job[v]]
    BY <1>3, <2>2 DEF RecoverWrite, TypeOK, Claims, Exclusive
  <2>3. /\ UNCHANGED <<job, campaign>> /\ overdue' \subseteq overdue
        /\ \A v \in Workers : v # w => pc'[v] = pc[v]
        /\ pc'[w] = "ready"
    BY <1>3 DEF RecoverWrite, TypeOK
  <2>4. Claims'
    BY <2>1, <2>2, <2>3 DEF Claims, Exclusive, Settled
  <2>5. Fresh'
    BY <1>3, <2>3 DEF Fresh, Claims, RecoverWrite, TypeOK, Exclusive
  <2> QED  BY <2>4, <2>5
<1>4. ASSUME NEW w \in Workers, RecoverFails(w) PROVE Claims' /\ Fresh'
  <2>1. /\ UNCHANGED <<outbox, overdue, job, campaign>>
        /\ \A v \in Workers : v # w => pc'[v] = pc[v]
        /\ pc'[w] = "idle" /\ seen' = [seen EXCEPT ![w] = {}]
    BY <1>4 DEF RecoverFails, rows, TypeOK
  <2> QED  BY <2>1 DEF Claims, Fresh, Exclusive, TypeOK, Settled
<1>5. ASSUME NEW w \in Workers, NEW e \in Events, Claim(w, e) PROVE Claims' /\ Fresh'
  <2>1. /\ job[w] = NoEvent /\ outbox[e] = "PENDING"
        /\ job' = [job EXCEPT ![w] = e] /\ pc' = [pc EXCEPT ![w] = "claimed"]
        /\ outbox' = [outbox EXCEPT ![e] = "PROCESSING"]
        /\ overdue' = overdue \ {e} /\ seen' = seen
        /\ w \in Requests => e \in Welcomes
    BY <1>5 DEF Claim, Claimable, Placed, Settled
  <2>2. ASSUME NEW v \in Workers, job[v] = e PROVE e \notin Exclusive
    BY <2>1, <2>2 DEF Claims
  <2>3. \A v, x \in Workers : job'[v] = job'[x] /\ job'[v] \in Exclusive => v = x
    BY <2>1, <2>2 DEF Claims, TypeOK
  <2>4. ASSUME NEW v \in Workers, job'[v] \in Exclusive
        PROVE  /\ outbox'[job'[v]] \in {"PROCESSING", "DELETED"}
               /\ pc'[v] \in {"locked", "sending"} \cup Settled => outbox'[job'[v]] = "PROCESSING"
    <3>1. CASE v = w
      BY <2>1, <3>1 DEF TypeOK
    <3>2. CASE v # w
      BY <2>1, <2>2, <2>4, <3>2 DEF Claims, TypeOK, Exclusive
    <3> QED  BY <3>1, <3>2
  <2>5. ASSUME NEW v \in Workers
        PROVE  /\ job'[v] \in overdue' => LiveOverrun
               /\ job'[v] \in Events \ Welcomes => v \notin Requests
               /\ pc'[v] = "swept" \/ seen'[v] # {} => v \notin Requests
    BY <2>1 DEF Claims, TypeOK
  <2>6. ASSUME NEW v \in Workers, NEW f \in seen[v] \cap Exclusive
        PROVE  outbox'[f] \in {"PROCESSING", "DELETED"} /\ \A x \in Workers : job'[x] # f
    BY <2>1, <2>6 DEF Claims, TypeOK
  <2>7. Claims'
    BY <2>1, <2>3, <2>4, <2>5, <2>6 DEF Claims, Exclusive
  <2>8. Fresh'
    BY <1>5, <2>1 DEF Claim, Fresh, TypeOK, CampaignRow
  <2> QED  BY <2>7, <2>8
<1>6. ASSUME NEW w \in Workers, Commit(w) PROVE Claims' /\ Fresh'
  <2>1. /\ job' = [job EXCEPT ![w] = NoEvent] /\ overdue' \subseteq overdue /\ seen' = seen
        /\ pc' \in [Workers -> Places] /\ pc'[w] \in {"idle", "again"}
        /\ \A v \in Workers : v # w => pc'[v] = pc[v]
        /\ \A e \in Events : e # job[w] => outbox'[e] = outbox[e]
        /\ job[w] \in Events
    BY <1>6 DEF Commit, Leave, Placed, TypeOK, Settled, Places
  <2>2. \A v, x \in Workers : job'[v] = job'[x] /\ job'[v] \in Exclusive => v = x
    BY <2>1 DEF Claims, TypeOK, Exclusive
  <2>3. ASSUME NEW v \in Workers, job'[v] \in Exclusive
        PROVE  /\ outbox'[job'[v]] \in {"PROCESSING", "DELETED"}
               /\ pc'[v] \in {"locked", "sending"} \cup Settled => outbox'[job'[v]] = "PROCESSING"
    <3>1. v # w /\ job'[v] = job[v] /\ job[v] # job[w] /\ job[v] \in Events
      BY <2>1, <2>3 DEF Claims, TypeOK, Exclusive
    <3> QED  BY <2>1, <2>3, <3>1 DEF Claims
  <2>4. ASSUME NEW v \in Workers, NEW f \in seen[v] \cap Exclusive
        PROVE  outbox'[f] \in {"PROCESSING", "DELETED"} /\ \A x \in Workers : job'[x] # f
    BY <2>1, <2>4 DEF Claims, TypeOK, Exclusive
  <2>5. ASSUME NEW v \in Workers
        PROVE  /\ job'[v] \in overdue' => LiveOverrun
               /\ job'[v] \in Events \ Welcomes => v \notin Requests
               /\ pc'[v] = "swept" \/ seen'[v] # {} => v \notin Requests
    BY <2>1 DEF Claims, TypeOK
  <2>6. Claims'
    BY <2>1, <2>2, <2>3, <2>4, <2>5 DEF Claims, Exclusive
  <2>7. CASE job[w] \in Campaigns
    <3>1. outbox[job[w]] = "PROCESSING"
      BY <1>6, <2>7 DEF Claims, Exclusive, Commit, Settled
    <3>2. campaign'.status # "DRAFT"
      BY <1>6, <2>7, <3>1 DEF Fresh, Commit, Refreshed
    <3> QED  BY <2>6, <3>2 DEF Fresh
  <2>8. CASE job[w] \notin Campaigns
    BY <1>6, <2>1, <2>6, <2>8 DEF Fresh, Commit
  <2> QED  BY <2>7, <2>8
<1>7. ASSUME NEW w \in Workers, Crash(w) PROVE Claims' /\ Fresh'
  <2>1. /\ UNCHANGED <<outbox, overdue, campaign>>
        /\ job' = [job EXCEPT ![w] = NoEvent] /\ seen' = [seen EXCEPT ![w] = {}]
        /\ pc'[w] # "swept" /\ \A v \in Workers : v # w => pc'[v] = pc[v]
    BY <1>7 DEF Crash, rows, TypeOK
  <2> QED  BY <2>1, WalkOut
<1>8. ASSUME NEW w \in Workers, EventGone(w) PROVE Claims' /\ Fresh'
  <2>1. /\ UNCHANGED <<outbox, overdue, campaign, seen>>
        /\ job' = [job EXCEPT ![w] = NoEvent]
        /\ pc'[w] # "swept" /\ \A v \in Workers : v # w => pc'[v] = pc[v]
    BY <1>8 DEF EventGone, Leave, rows, TypeOK
  <2> QED  BY <2>1, WalkOut
<1>9. ASSUME NEW w \in Workers, LockEvent(w) \/ Relock(w) PROVE Claims' /\ Fresh'
  <2>1. /\ UNCHANGED <<outbox, overdue, job, seen, campaign>> /\ pc'[w] # "swept"
        /\ \A v \in Workers : v # w => pc'[v] = pc[v]
        /\ outbox[job[w]] # "DELETED"
    BY <1>9 DEF LockEvent, Relock, Settle, rows, TypeOK
  <2> QED  BY <2>1, WalkOn DEF Claims
<1>10. ASSUME NEW w \in Workers,
              UserGone(w) \/ AlreadyWelcomed(w) \/ StartSending(w) \/ Accepted(w)
       PROVE  Claims' /\ Fresh'
  <2>1. /\ UNCHANGED <<outbox, overdue, job, seen, campaign>> /\ pc'[w] # "swept"
        /\ \A v \in Workers : v # w => pc'[v] = pc[v]
        /\ pc[w] \in {"locked", "sending"}
    BY <1>10 DEF UserGone, AlreadyWelcomed, StartSending, Accepted, Settle, rows, TypeOK
  <2> QED  BY <2>1, WalkOn DEF Claims
<1>11. ASSUME NEW w \in Workers, ReadCampaign(w) \/ CountDeliveries(w) PROVE Claims' /\ Fresh'
  <2>1. /\ UNCHANGED <<outbox, overdue, job, seen, campaign>> /\ pc'[w] # "swept"
        /\ \A v \in Workers : v # w => pc'[v] = pc[v]
        /\ pc[w] \in Settled
    BY <1>11 DEF ReadCampaign, CountDeliveries, Settled, rows, TypeOK
  <2> QED  BY <2>1, WalkOn DEF Claims
<1>12. ASSUME NEW w \in Workers, Refused(w) \/ AnswerLost(w) \/ Exit(w) PROVE Claims' /\ Fresh'
  <2>1. /\ UNCHANGED <<outbox, overdue, job, seen, campaign>>
        /\ \A v \in Workers : v # w => pc'[v] = pc[v]
        /\ pc'[w] \in {"refused", "idle"}
    BY <1>12 DEF Refused, AnswerLost, Refuse, Exit, rows, TypeOK
  <2> QED  BY <2>1, WalkOn DEF Settled
<1>13. ASSUME NEW e \in Events, LeaseExpires(e) PROVE Claims' /\ Fresh'
  BY <1>13 DEF LeaseExpires, locals, Claims, Fresh, Exclusive
<1>14. CASE CancelFails
  BY <1>14 DEF CancelFails, locals, Claims, Fresh, Exclusive
<1>15. CASE UNCHANGED vars
  BY <1>15 DEF vars, rows, locals, Claims, Fresh, Exclusive
<1> QED
  BY <1>1, <1>2, <1>3, <1>4, <1>5, <1>6, <1>7, <1>8, <1>9, <1>10, <1>11, <1>12, <1>13, <1>14,
     <1>15
  DEF Next, Sweep, Finish

LEMMA ClaimInvInit == Init => ClaimInv
  BY PlacedInit, ClaimInit DEF ClaimInv

LEMMA ClaimInvStep ==
  ASSUME OneCommand
  PROVE  ClaimInv /\ [Next]_vars => ClaimInv'
BY PlacedStep, ClaimsStep DEF ClaimInv

(* What a worker holds under the lock of an event row is still being delivered, *)
(* so nobody else changes the row.                                              *)
LEMMA Underway ==
  ASSUME ClaimInv, NEW w \in Workers, job[w] \in Exclusive,
         pc[w] \in {"locked", "sending"} \cup Settled
  PROVE  /\ outbox[job[w]] = "PROCESSING"
         /\ \A v \in Workers : job[v] = job[w] => v = w
BY DEF ClaimInv, Claims

(* What closes an event. *)
Closed == {"SENT", "FAILED", "CANCELLED", "DELETED"}

Reopens(e) == outbox[e] \in Closed /\ outbox'[e] \notin {outbox[e], "DELETED"}

(* StartCampaign writes PENDING only into events that were never there, a      *)
(* sweep only into events nobody has finished.                                 *)
LEMMA NothingReopens ==
  ASSUME ClaimInv, [Next]_vars, NEW e \in Exclusive
  PROVE  ~Reopens(e)
<1> USE DEF ClaimInv, TypeOK, Reopens, Closed, Exclusive
<1>1. CASE Administration
  <2>1. ASSUME NEW f \in Events, Enqueue(f) \/ DeleteNotification(f) PROVE ~Reopens(e)
    BY <2>1 DEF Enqueue, DeleteNotification
  <2>2. ASSUME NEW R \in SUBSET {f \in Campaigns : Owner[f] \in users}, NEW scheduled \in BOOLEAN,
               StartCampaign(R, scheduled)
        PROVE  ~Reopens(e)
    BY <2>2 DEF StartCampaign, Fresh
  <2>3. CASE CancelDeliveries \/ CancelCampaign \/ \E u \in Users : DeleteUser(u)
    BY <2>3 DEF CancelDeliveries, CancelCampaign, Cancellable, DeleteUser
  <2> QED  BY <1>1, <2>1, <2>2, <2>3 DEF Administration
<1>2. ASSUME NEW w \in Workers, Sweep(w) PROVE ~Reopens(e)
  BY <1>2 DEF Sweep, RecoverRead, RecoverWrite, RecoverFails, Exit, rows, Claims
<1>3. ASSUME NEW w \in Workers, Finish(w) PROVE ~Reopens(e)
  <2>1. CASE Commit(w)
    <3>1. job[w] = e => outbox[e] = "PROCESSING"
      BY <2>1, Underway DEF Commit, Settled
    <3> QED  BY <2>1, <3>1 DEF Commit
  <2>2. CASE UNCHANGED outbox
    BY <2>2
  <2> QED
    BY <1>3, <2>1, <2>2 DEF Finish, LockEvent, EventGone, UserGone, AlreadyWelcomed, StartSending,
       Accepted, Refused, Refuse, Relock, ReadCampaign, CountDeliveries, rows
<1>4. ASSUME NEW w \in Workers, AnswerLost(w) \/ Crash(w) PROVE ~Reopens(e)
  BY <1>4 DEF AnswerLost, Refuse, Crash, rows
<1>5. ASSUME NEW w \in Workers, NEW f \in Events, Claim(w, f) PROVE ~Reopens(e)
  BY <1>5 DEF Claim, Claimable
<1>6. CASE CancelFails \/ UNCHANGED vars \/ \E f \in Events : LeaseExpires(f)
  BY <1>6 DEF vars, rows, CancelFails, LeaseExpires
<1> QED  BY <1>1, <1>2, <1>3, <1>4, <1>5, <1>6 DEF Next

(* What was mailed and lost changes only where a mail is accepted or a worker dies. *)
LEMMA Silent ==
  ASSUME [Next]_vars,
         \A w \in Workers : ~Accepted(w) /\ ~AnswerLost(w) /\ ~Crash(w)
  PROVE  UNCHANGED <<mails, lost>>
<1> USE DEF history
<1>1. CASE Administration
  BY <1>1 DEF Administration, Enqueue, DeleteNotification, StartCampaign, CancelDeliveries,
       CancelCampaign, DeleteUser
<1>2. ASSUME NEW w \in Workers, Sweep(w) PROVE UNCHANGED <<mails, lost>>
  BY <1>2 DEF Sweep, RecoverRead, RecoverWrite, RecoverFails, Exit
<1>3. ASSUME NEW w \in Workers, Finish(w) PROVE UNCHANGED <<mails, lost>>
  BY <1>3 DEF Finish, LockEvent, EventGone, UserGone, AlreadyWelcomed, StartSending, Refused, Relock,
     ReadCampaign, CountDeliveries, Commit
<1>4. CASE CancelFails \/ UNCHANGED vars \/ (\E f \in Events : LeaseExpires(f))
           \/ \E w \in Workers, e \in Events : Claim(w, e)
  BY <1>4 DEF vars, CancelFails, LeaseExpires, Claim
<1> QED  BY <1>1, <1>2, <1>3, <1>4 DEF Next

(* A closed event stays closed and is not mailed again, for every event when  *)
(* no request is late with its attempt.                                       *)
THEOREM ClosedForGood ==
  ASSUME OneCommand, LiveOverrun => Requests = {}
  PROVE  Spec => ClosedStaysClosed
<1>1. ClaimInv /\ [Next]_vars =>
        [\A e \in Events : outbox[e] \in {"SENT", "FAILED", "CANCELLED", "DELETED"} =>
           outbox'[e] \in {outbox[e], "DELETED"} /\ mails'[e] = mails[e]]_vars
  <2> SUFFICES ASSUME ClaimInv, [Next]_vars, NEW e \in Events, outbox[e] \in Closed
               PROVE  outbox'[e] \in {outbox[e], "DELETED"} /\ mails'[e] = mails[e]
    BY DEF Closed
  <2> e \in Exclusive
    BY DEF Exclusive
  <2>1. outbox'[e] \in {outbox[e], "DELETED"}
    BY NothingReopens DEF Reopens
  <2>2. ASSUME NEW w \in Workers, Accepted(w) \/ AnswerLost(w) PROVE mails'[e] = mails[e]
    <3>1. pc[w] = "sending" /\ job[w] \in Events
      BY <2>2 DEF Accepted, AnswerLost, Refuse, ClaimInv, Placed, TypeOK
    <3>2. job[w] # e
      BY <3>1, Underway DEF Closed
    <3> QED  BY <2>2, <3>2 DEF Accepted, AnswerLost, ClaimInv, TypeOK
  <2>3. ASSUME NEW w \in Workers, Crash(w) PROVE mails'[e] = mails[e]
    BY <2>3 DEF Crash
  <2> QED  BY <2>1, <2>2, <2>3, Silent DEF history
<1> QED  BY ClaimInvInit, ClaimInvStep, <1>1, PTL DEF Spec, ClosedStaysClosed

(* A mail is accepted under the claim of a single worker, and is either        *)
(* recorded by its commit, which closes the event, or counted as lost.         *)
LEMMA OnceStep == ClaimInv /\ Once /\ [Next]_vars => Once'
<1> SUFFICES ASSUME ClaimInv, Once, [Next]_vars, NEW e \in Exclusive
             PROVE  /\ mails'[e] <= lost'[e] + 1
                    /\ outbox'[e] \in {"NONE", "PENDING", "PROCESSING"}
                         /\ (\A w \in Workers : ~Pending(w, e)')
                       => mails'[e] <= lost'[e]
  BY DEF Once, Exclusive, Pending
<1> e \in Events
  BY DEF Exclusive
<1> USE DEF ClaimInv, TypeOK
<1>1. outbox'[e] \in {"NONE", "PENDING", "PROCESSING"} => outbox[e] \in {"NONE", "PENDING", "PROCESSING"}
  BY NothingReopens DEF Reopens, Closed, EventStatus
<1>2. ASSUME NEW w \in Workers, Accepted(w)
      PROVE  /\ mails'[e] <= lost'[e] + 1
             /\ outbox'[e] \in {"NONE", "PENDING", "PROCESSING"}
                  /\ (\A v \in Workers : ~Pending(v, e)')
                => mails'[e] <= lost'[e]
  <2>1. CASE job[w] = e
    <3>1. outbox[e] = "PROCESSING" /\ \A v \in Workers : job[v] = e => v = w
      BY <1>2, <2>1, Underway DEF Accepted
    <3>2. \A v \in Workers : ~Pending(v, e)
      BY <1>2, <3>1 DEF Accepted, Pending, Placed, Settled, Outcome
    <3>3. Pending(w, e)'
      BY <1>2, <2>1 DEF Accepted, Settle, Pending
    <3>4. mails[e] <= lost[e] /\ mails'[e] = mails[e] + 1 /\ lost' = lost
      BY <1>2, <2>1, <3>1, <3>2 DEF Accepted, Once
    <3> QED  BY <3>3, <3>4
  <2>2. CASE job[w] # e
    <3>1. mails'[e] = mails[e] /\ lost' = lost
      BY <1>2, <2>2 DEF Accepted
    <3>2. \A v \in Workers : Pending(v, e) => Pending(v, e)'
      BY <1>2, <2>2 DEF Accepted, Settle, Pending
    <3> QED  BY <1>1, <3>1, <3>2 DEF Once
  <2> QED  BY <2>1, <2>2
<1>3. ASSUME NEW w \in Workers, AnswerLost(w)
      PROVE  /\ mails'[e] <= lost'[e] + 1
             /\ outbox'[e] \in {"NONE", "PENDING", "PROCESSING"}
                  /\ (\A v \in Workers : ~Pending(v, e)')
                => mails'[e] <= lost'[e]
  <2>1. mails'[e] - lost'[e] = mails[e] - lost[e]
    BY <1>3 DEF AnswerLost
  <2>2. \A v \in Workers : Pending(v, e) => Pending(v, e)'
    BY <1>3 DEF AnswerLost, Refuse, Pending, Placed, Settled, Outcome
  <2>3. mails'[e] \in Nat /\ lost'[e] \in Nat
    BY <1>3 DEF AnswerLost
  <2> QED  BY <1>1, <2>1, <2>2, <2>3 DEF Once
<1>4. ASSUME NEW w \in Workers, Crash(w)
      PROVE  /\ mails'[e] <= lost'[e] + 1
             /\ outbox'[e] \in {"NONE", "PENDING", "PROCESSING"}
                  /\ (\A v \in Workers : ~Pending(v, e)')
                => mails'[e] <= lost'[e]
  <2>1. mails' = mails /\ outbox' = outbox /\ \A v \in Workers : v # w => Pending(v, e)' = Pending(v, e)
    BY <1>4 DEF Crash, rows, Pending
  <2>2. CASE Pending(w, e)
    BY <1>4, <2>1, <2>2 DEF Crash, Pending, Once
  <2>3. CASE ~Pending(w, e)
    <3>1. lost'[e] = lost[e]
      BY <1>4, <2>3 DEF Crash, Pending
    <3> QED  BY <1>1, <2>1, <2>3, <3>1 DEF Once
  <2> QED  BY <2>2, <2>3
<1>5. CASE \A w \in Workers : ~Accepted(w) /\ ~AnswerLost(w) /\ ~Crash(w)
  <2>1. UNCHANGED <<mails, lost>>
    BY <1>5, Silent DEF history
  <2>2. ASSUME NEW w \in Workers, Pending(w, e), ~Pending(w, e)'
        PROVE  outbox'[e] = "SENT"
    <3>1. pc[w] \in Settled /\ fate[w] = "SENT" /\ job[w] = e
      BY <2>2 DEF Pending, Placed, Outcome
    <3>2. CASE Commit(w)
      BY <3>1, <3>2 DEF Commit, OutboxOf
    <3>3. CASE ~Commit(w)
      <4>1. fate'[w] = fate[w] /\ job'[w] = job[w]
        <5>1. CASE Administration \/ CancelFails \/ UNCHANGED vars \/ \E f \in Events : LeaseExpires(f)
          BY <5>1, Bystanders
        <5>2. ASSUME NEW v \in Workers, Sweep(v) PROVE fate'[w] = fate[w] /\ job'[w] = job[w]
          BY <5>2 DEF Sweep, RecoverRead, RecoverWrite, RecoverFails, Exit
        <5>3. ASSUME NEW v \in Workers, Finish(v) PROVE fate'[w] = fate[w] /\ job'[w] = job[w]
          BY <1>5, <3>1, <3>3, <5>3 DEF Finish, LockEvent, EventGone, UserGone, AlreadyWelcomed,
             StartSending, Refused, Refuse, Relock, ReadCampaign, CountDeliveries, Commit, Settle,
             Leave, Settled
        <5>4. ASSUME NEW v \in Workers, NEW f \in Events, Claim(v, f)
              PROVE  fate'[w] = fate[w] /\ job'[w] = job[w]
          BY <3>1, <5>4 DEF Claim, Claimable, Settled
        <5> QED  BY <1>5, <5>1, <5>2, <5>3, <5>4 DEF Next
      <4> QED  BY <2>2, <4>1 DEF Pending
    <3> QED  BY <3>2, <3>3
  <2> QED  BY <1>1, <2>1, <2>2 DEF Once
<1> QED  BY <1>2, <1>3, <1>4, <1>5

(* Every event is mailed at most once more than there are acceptances that no *)
(* commit recorded, when one periodic command runs and no request is late     *)
(* with its attempt.                                                          *)
THEOREM MailedOnce ==
  ASSUME OneCommand, LiveOverrun => Requests = {}
  PROVE  Spec => []OneMailPerAcknowledgement
<1>1. Init => Once
  BY DEF Init, Once, Exclusive
<1>2. Once => OneMailPerAcknowledgement
  BY DEF Once, OneMailPerAcknowledgement, Exclusive
<1> QED  BY ClaimInvInit, ClaimInvStep, OnceStep, <1>1, <1>2, PTL DEF Spec

-----------------------------------------------------------------------------
(* No delivery is counted as open exactly when none is. *)
LEMMA OpenCount ==
  ASSUME NEW d \in [Campaigns -> DeliveryStatus]
  PROVE  CountOf(d).open = 0 <=> \A e \in Campaigns : d[e] \notin Outstanding
<1> DEFINE S == {e \in Campaigns : d[e] \in Outstanding}
<1>1. IsFiniteSet(S)
  BY EventAssumption, FS_Subset
<1>2. Cardinality(S) = 0 <=> S = {}
  BY <1>1, FS_EmptySet
<1>3. CountOf(d).open = Cardinality(S)
  BY DEF CountOf, CountWith, Outstanding
<1> QED  BY <1>2, <1>3

(* Nothing is counted before the start. *)
LEMMA NothingCounted ==
  ASSUME NEW d \in [Campaigns -> DeliveryStatus], \A e \in Campaigns : d[e] = "NONE"
  PROVE  CountOf(d) = NoTally
<1>1. ASSUME NEW S, "NONE" \notin S PROVE Cardinality({e \in Campaigns : d[e] \in S}) = 0
  <2>1. {e \in Campaigns : d[e] \in S} = {}
    BY <1>1
  <2> QED  BY <2>1, FS_EmptySet
<1> QED  BY <1>1 DEF CountOf, CountWith, NoTally

(* What DeliveryMirrorsOutbox says of the two rows of one event. *)
Mirrored(o, d) ==
  CASE o = "PENDING"   -> d \in {"PENDING", "PROCESSING"}
    [] o = "CANCELLED" -> d \in {"CANCELLED", "PROCESSING", "PENDING"}
    [] o = "FAILED"    -> d \in {"FAILED", "SKIPPED"}
    [] OTHER           -> d = o

Mirrors == \A e \in Campaigns : Mirrored(outbox[e], delivery[e])

(* A cancellation keeps the rows it has changed: nobody can claim what it has *)
(* revoked before it commits.  (An event it finds CANCELLED was missed by an  *)
(* earlier cancellation.)                                                     *)
Revoked ==
  /\ \A e \in revoked : outbox[e] \in {"PENDING", "CANCELLED"} /\ delivery[e] = "PENDING"
  /\ ~cancelling => revoked = {}

(* A delivery that a cancellation has missed belongs to a cancelled campaign. *)
LeftOver ==
  \A e \in Campaigns :
    outbox[e] = "CANCELLED" /\ delivery[e] # "CANCELLED" => campaign.status = "CANCELLED"

LEMMA MirrorParts == DeliveryMirrorsOutbox <=> Mirrors /\ LeftOver
  BY DEF DeliveryMirrorsOutbox, Mirrors, Mirrored, LeftOver

CampaignInv == ClaimInv /\ Mirrors /\ Revoked /\ LeftOver /\ Counters /\ CompletedIsExact

(* A claim and a commit write both rows of an event, a cancellation the         *)
(* deliveries it has revoked and the events that are PENDING, theirs among     *)
(* them, and recovery resets only an event in the outbox whose delivery still  *)
(* says PROCESSING.                                                            *)
LEMMA MirrorStep ==
  ASSUME ClaimInv, Mirrors, Revoked, [Next]_vars
  PROVE  Mirrors'
<1> SUFFICES ASSUME NEW e \in Campaigns
             PROVE  Mirrored(outbox'[e], delivery'[e])
  BY DEF Mirrors
<1> e \in Exclusive /\ Kind[e] = "CAMPAIGN" /\ e \in Events
  BY DEF Exclusive
<1> USE DEF ClaimInv, TypeOK, Mirrored
<1> Mirrored(outbox[e], delivery[e])
  BY DEF Mirrors
<1>1. CASE UNCHANGED <<outbox[e], delivery[e]>>
  BY <1>1
<1>2. CASE Administration
  <2>1. ASSUME NEW f \in Events, Enqueue(f) \/ DeleteNotification(f)
        PROVE  UNCHANGED <<outbox[e], delivery[e]>>
    BY <2>1 DEF Enqueue, DeleteNotification
  <2>2. ASSUME NEW R \in SUBSET {f \in Campaigns : Owner[f] \in users}, NEW scheduled \in BOOLEAN,
               StartCampaign(R, scheduled)
        PROVE  \/ outbox'[e] = "PENDING" /\ delivery'[e] = "PENDING"
               \/ UNCHANGED <<outbox[e], delivery[e]>>
    BY <2>2 DEF StartCampaign
  <2>3. ASSUME CancelCampaign
        PROVE  \/ outbox'[e] = "CANCELLED" /\ delivery'[e] \in {"CANCELLED", "PROCESSING", "PENDING"}
               \/ UNCHANGED <<outbox[e], delivery[e]>>
    BY <2>3 DEF CancelCampaign, Cancellable, Revoked
  <2>4. ASSUME NEW u \in Users, DeleteUser(u) PROVE UNCHANGED <<outbox[e], delivery[e]>>
    BY <2>4 DEF DeleteUser
  <2>5. CASE CancelDeliveries
    BY <1>1, <2>5 DEF CancelDeliveries
  <2> QED  BY <1>1, <1>2, <2>1, <2>2, <2>3, <2>4, <2>5 DEF Administration
<1>3. ASSUME NEW w \in Workers, RecoverWrite(w)
      PROVE  \/ outbox'[e] = "PENDING" /\ delivery'[e] = "PROCESSING"
             \/ UNCHANGED <<outbox[e], delivery[e]>>
  BY <1>3 DEF RecoverWrite, Claims
<1>4. ASSUME NEW w \in Workers, NEW f \in Events, Claim(w, f)
      PROVE  \/ outbox'[e] = "PROCESSING" /\ delivery'[e] = "PROCESSING"
             \/ UNCHANGED <<outbox[e], delivery[e]>>
  BY <1>4 DEF Claim
<1>5. ASSUME NEW w \in Workers, Commit(w)
      PROVE  \/ outbox'[e] = OutboxOf(fate[w]) /\ delivery'[e] = DeliveryOf(fate[w])
                /\ fate[w] \in Outcome
             \/ UNCHANGED <<outbox[e], delivery[e]>>
  BY <1>5 DEF Commit, Placed, Settled
<1>6. ASSUME NEW w \in Workers, Finish(w), ~Commit(w) PROVE UNCHANGED <<outbox[e], delivery[e]>>
  BY <1>6 DEF Finish, LockEvent, EventGone, UserGone, AlreadyWelcomed, StartSending,
     Accepted, Refused, Refuse, Relock, ReadCampaign, CountDeliveries, rows
<1>7. CASE \/ CancelFails \/ UNCHANGED vars \/ \E f \in Events : LeaseExpires(f)
           \/ \E w \in Workers : AnswerLost(w) \/ Crash(w)
                                 \/ RecoverRead(w) \/ RecoverFails(w) \/ Exit(w)
  <2>1. UNCHANGED <<outbox[e], delivery[e]>>
    BY <1>7 DEF CancelFails, LeaseExpires, AnswerLost, Refuse, Crash, RecoverRead, RecoverFails, Exit, vars, rows
  <2> QED  BY <1>1, <2>1
<1>8. ASSUME NEW w \in Workers, RecoverWrite(w) \/ Finish(w) PROVE Mirrored(outbox'[e], delivery'[e])
  <2>1. CASE Commit(w)
    BY <1>1, <1>5, <2>1 DEF OutboxOf, DeliveryOf, Outcome
  <2>2. CASE RecoverWrite(w)
    BY <1>1, <1>3, <2>2
  <2>3. CASE Finish(w) /\ ~Commit(w)
    BY <1>1, <1>6, <2>3
  <2> QED  BY <1>8, <2>1, <2>2, <2>3
<1>9. ASSUME NEW w \in Workers, NEW f \in Events, Claim(w, f) PROVE Mirrored(outbox'[e], delivery'[e])
  BY <1>1, <1>4, <1>9
<1> QED  BY <1>2, <1>7, <1>8, <1>9 DEF Next, Sweep

(* The campaign row and its deliveries change only where the administrator    *)
(* starts or cancels, and where the command claims or commits.                *)
LEMMA RowsStay ==
  ASSUME [Next]_vars, TypeOK,
         \A R \in SUBSET {f \in Campaigns : Owner[f] \in users}, s \in BOOLEAN : ~StartCampaign(R, s),
         ~CancelCampaign,
         \A w \in Workers, e \in Campaigns : ~Claim(w, e),
         \A w \in Workers : job[w] \in Campaigns => ~Commit(w)
  PROVE  UNCHANGED <<campaign, delivery>>
<1>1. CASE Administration
  BY <1>1 DEF Administration, Enqueue, DeleteNotification, CancelDeliveries, DeleteUser
<1>2. ASSUME NEW w \in Workers, Sweep(w) PROVE UNCHANGED <<campaign, delivery>>
  BY <1>2 DEF Sweep, RecoverRead, RecoverWrite, RecoverFails, Exit, rows
<1>3. ASSUME NEW w \in Workers, Finish(w) PROVE UNCHANGED <<campaign, delivery>>
  <2>1. CASE Commit(w)
    BY <2>1 DEF Commit, TypeOK
  <2> QED
    BY <1>3, <2>1 DEF Finish, LockEvent, EventGone, UserGone, AlreadyWelcomed, StartSending,
       Accepted, Refused, Refuse, Relock, ReadCampaign, CountDeliveries, rows
<1>4. ASSUME NEW w \in Workers, NEW e \in Events, Claim(w, e) PROVE UNCHANGED <<campaign, delivery>>
  BY <1>4 DEF Claim, TypeOK
<1>5. CASE \/ CancelFails \/ UNCHANGED vars \/ \E f \in Events : LeaseExpires(f)
           \/ \E w \in Workers : AnswerLost(w) \/ Crash(w)
  BY <1>5 DEF CancelFails, LeaseExpires, AnswerLost, Refuse, Crash, vars, rows
<1> QED  BY <1>1, <1>2, <1>3, <1>4, <1>5 DEF Next

(* While the command has a delivery in its hands the campaign is neither a    *)
(* draft nor completed.                                                       *)
LEMMA InHand ==
  ASSUME CampaignInv, NEW w \in Workers, job[w] \in Campaigns
  PROVE  /\ outbox[job[w]] = "PROCESSING" /\ delivery[job[w]] = "PROCESSING"
         /\ campaign.status \notin {"DRAFT", "COMPLETED"}
<1> USE DEF CampaignInv, ClaimInv, TypeOK
<1> job[w] \in Exclusive
  BY DEF Exclusive
<1>1. outbox[job[w]] \in {"PROCESSING", "DELETED"}
  BY DEF Claims
<1>2. outbox[job[w]] = "PROCESSING" /\ delivery[job[w]] = "PROCESSING"
  BY <1>1 DEF Mirrors, Mirrored, DeliveryStatus
<1>3. CountOf(delivery).open # 0
  BY <1>2, OpenCount DEF Outstanding
<1> QED  BY <1>2, <1>3 DEF Fresh, CompletedIsExact, CountOf

(* The rows of a revoked delivery and of its event are nobody else's: the      *)
(* command has neither claimed the event nor listed it for recovery.           *)
LEMMA RevokedStep ==
  ASSUME CampaignInv, [Next]_vars
  PROVE  Revoked'
<1> USE DEF CampaignInv, ClaimInv, TypeOK, Revoked
<1>1. CASE revoked = {} /\ revoked' = {}
  BY <1>1
<1>2. ASSUME NEW e \in Events, Enqueue(e) \/ DeleteNotification(e) PROVE Revoked'
  BY <1>2 DEF Enqueue, DeleteNotification
<1>3. ASSUME NEW R \in SUBSET {f \in Campaigns : Owner[f] \in users}, NEW s \in BOOLEAN,
             StartCampaign(R, s)
      PROVE  Revoked'
  BY <1>3 DEF StartCampaign
<1>4. CASE CancelDeliveries
  BY <1>4 DEF CancelDeliveries, Mirrors, Mirrored, EventStatus
<1>5. CASE CancelCampaign \/ CancelFails
  BY <1>5 DEF CancelCampaign, CancelFails
<1>6. ASSUME NEW u \in Users, DeleteUser(u) PROVE Revoked'
  BY <1>6 DEF DeleteUser
<1>7. ASSUME NEW w \in Workers, RecoverWrite(w) PROVE Revoked'
  <2>1. seen[w] \cap revoked = {}
    BY DEF Claims, Exclusive
  <2> QED  BY <1>7, <2>1 DEF RecoverWrite
<1>8. ASSUME NEW w \in Workers, NEW e \in Events, Claim(w, e) PROVE Revoked'
  BY <1>8 DEF Claim, Claimable
<1>9. ASSUME NEW w \in Workers, Commit(w) PROVE Revoked'
  <2>1. job[w] \notin revoked
    BY InHand
  <2> QED  BY <1>9, <2>1 DEF Commit
<1>10. CASE UNCHANGED <<outbox, delivery, admin>>
  BY <1>10
<1>11. ASSUME NEW w \in Workers, Sweep(w), ~RecoverWrite(w) PROVE UNCHANGED <<outbox, delivery, admin>>
  BY <1>11 DEF Sweep, RecoverRead, RecoverFails, Exit, rows
<1>12. ASSUME NEW w \in Workers, Finish(w), ~Commit(w) PROVE UNCHANGED <<outbox, delivery, admin>>
  BY <1>12 DEF Finish, LockEvent, EventGone, UserGone, AlreadyWelcomed, StartSending,
     Accepted, Refused, Refuse, Relock, ReadCampaign, CountDeliveries, rows
<1>13. CASE \/ UNCHANGED vars \/ \E f \in Events : LeaseExpires(f)
            \/ \E w \in Workers : AnswerLost(w) \/ Crash(w)
  BY <1>10, <1>13 DEF vars, LeaseExpires, AnswerLost, Refuse, Crash, rows
<1> QED
  BY <1>2, <1>3, <1>4, <1>5, <1>6, <1>7, <1>8, <1>9, <1>10, <1>11, <1>12, <1>13
  DEF Next, Administration

(* Only a cancellation writes CANCELLED into an event, and only counting that  *)
(* found no delivery open takes a campaign out of CANCELLED.                   *)
LEMMA LeftOverStep ==
  ASSUME CampaignInv, [Next]_vars, TypeOK', Mirrors', CompletedIsExact'
  PROVE  LeftOver'
<1> SUFFICES ASSUME NEW e \in Campaigns, outbox'[e] = "CANCELLED", delivery'[e] # "CANCELLED"
             PROVE  campaign'.status = "CANCELLED"
  BY DEF LeftOver
<1> USE DEF CampaignInv, ClaimInv, TypeOK
<1>1. campaign'.status # "COMPLETED"
  <2>1. delivery'[e] \in Outstanding
    BY DEF Mirrors, Mirrored, Outstanding
  <2>2. CountOf(delivery').open # 0
    BY <2>1, OpenCount
  <2> QED  BY <2>2 DEF CompletedIsExact, CountOf, CountWith
<1>2. CASE CancelCampaign
  BY <1>2 DEF CancelCampaign, CampaignRow
<1>3. CASE outbox[e] = "CANCELLED" /\ delivery[e] # "CANCELLED" /\ UNCHANGED campaign
  BY <1>3 DEF LeftOver
<1>4. ASSUME NEW R \in SUBSET {f \in Campaigns : Owner[f] \in users}, NEW s \in BOOLEAN,
             StartCampaign(R, s)
      PROVE  FALSE
  BY <1>4 DEF StartCampaign, Fresh
<1>5. ASSUME NEW w \in Workers, NEW f \in Events, Claim(w, f) PROVE campaign'.status = "CANCELLED"
  <2>1. f # e /\ outbox[e] = "CANCELLED" /\ delivery[e] # "CANCELLED"
    BY <1>5 DEF Claim
  <2>2. campaign.status = "CANCELLED"
    BY <2>1 DEF LeftOver
  <2> QED  BY <1>5, <2>2 DEF Claim
<1>6. ASSUME NEW w \in Workers, Commit(w) PROVE campaign'.status = "CANCELLED"
  <2>1. OutboxOf(fate[w]) # "CANCELLED"
    BY <1>6 DEF Commit, Placed, Settled, Outcome, OutboxOf
  <2>2. job[w] # e /\ outbox[e] = "CANCELLED" /\ delivery[e] # "CANCELLED"
    BY <1>6, <2>1 DEF Commit
  <2>3. campaign.status = "CANCELLED"
    BY <2>2 DEF LeftOver
  <2> QED  BY <1>1, <1>6, <2>3 DEF Commit, Refreshed
<1>7. CASE \E f \in Events : Enqueue(f) \/ DeleteNotification(f)
  BY <1>3, <1>7 DEF Enqueue, DeleteNotification
<1>8. CASE CancelDeliveries \/ CancelFails \/ \E u \in Users : DeleteUser(u)
  BY <1>3, <1>8 DEF CancelDeliveries, CancelFails, DeleteUser
<1>9. ASSUME NEW w \in Workers, Sweep(w) PROVE campaign'.status = "CANCELLED"
  BY <1>3, <1>9 DEF Sweep, RecoverRead, RecoverWrite, RecoverFails, Exit, rows
<1>10. ASSUME NEW w \in Workers, Finish(w), ~Commit(w) PROVE UNCHANGED <<outbox, delivery, campaign>>
  BY <1>10 DEF Finish, LockEvent, EventGone, UserGone, AlreadyWelcomed, StartSending,
     Accepted, Refused, Refuse, Relock, ReadCampaign, CountDeliveries, rows
<1>11. CASE \/ UNCHANGED vars \/ \E f \in Events : LeaseExpires(f)
            \/ \E w \in Workers : AnswerLost(w) \/ Crash(w)
  BY <1>3, <1>11 DEF vars, LeaseExpires, AnswerLost, Refuse, Crash, rows
<1> QED
  BY <1>2, <1>3, <1>4, <1>5, <1>6, <1>7, <1>8, <1>9, <1>10, <1>11 DEF Next, Administration

(* Nobody else counts while the command does, and a cancellation does not      *)
(* change the deliveries of a campaign that has none open but the one in hand. *)
LEMMA CountersStep ==
  ASSUME OneCommand, CampaignInv, [Next]_vars, ClaimInv'
  PROVE  Counters'
<1> SUFFICES ASSUME NEW w \in Workers, job'[w] \in Campaigns
             PROVE  /\ pc'[w] \in {"counting", "committing"} =>
                         /\ view'[w].sent = campaign'.sent
                         /\ view'[w].failed = campaign'.failed
                         /\ view'[w].skipped = campaign'.skipped
                    /\ pc'[w] = "committing" /\ tally'[w].open = 0
                         => tally'[w] = CountOf(Settling(w)')
  BY DEF Counters, Settling, CountOf, CountWith
<1> USE DEF CampaignInv, ClaimInv, TypeOK
<1>1. CASE ReadCampaign(w)
  BY <1>1 DEF ReadCampaign, rows
<1>2. CASE CountDeliveries(w)
  <2>1. Settling(w)' = Settling(w) /\ tally'[w] = CountOf(Settling(w))
    BY <1>2 DEF CountDeliveries, Settling, rows
  <2> QED  BY <1>2, <2>1 DEF CountDeliveries, Counters, rows
<1>3. CASE pc'[w] \notin {"counting", "committing"}
  BY <1>3
<1>4. CASE pc'[w] \in {"counting", "committing"} /\ ~ReadCampaign(w) /\ ~CountDeliveries(w)
  <2>1. /\ pc'[w] = pc[w] /\ job'[w] = job[w] /\ fate'[w] = fate[w]
        /\ view'[w] = view[w] /\ tally'[w] = tally[w]
    <3>1. CASE Administration \/ CancelFails \/ UNCHANGED vars \/ \E f \in Events : LeaseExpires(f)
      BY <3>1 DEF Administration, Enqueue, DeleteNotification, StartCampaign, CancelDeliveries,
       CancelCampaign, CancelFails,
         DeleteUser, LeaseExpires, vars, locals
    <3>2. ASSUME NEW v \in Workers, Sweep(v)
          PROVE  /\ pc'[w] = pc[w] /\ job'[w] = job[w] /\ fate'[w] = fate[w]
                 /\ view'[w] = view[w] /\ tally'[w] = tally[w]
      BY <1>4, <3>2 DEF Sweep, RecoverRead, RecoverWrite, RecoverFails, Exit
    <3>3. ASSUME NEW v \in Workers, Commit(v) \/ EventGone(v) \/ Crash(v)
          PROVE  /\ pc'[w] = pc[w] /\ job'[w] = job[w] /\ fate'[w] = fate[w]
                 /\ view'[w] = view[w] /\ tally'[w] = tally[w]
      <4>1. v # w
        BY <3>3, EventAssumption DEF Commit, EventGone, Crash, Leave
      <4> QED  BY <3>3, <4>1 DEF Commit, EventGone, Crash, Leave
    <3>4. ASSUME NEW v \in Workers, Finish(v) \/ AnswerLost(v), ~Commit(v), ~EventGone(v)
          PROVE  /\ pc'[w] = pc[w] /\ job'[w] = job[w] /\ fate'[w] = fate[w]
                 /\ view'[w] = view[w] /\ tally'[w] = tally[w]
      <4>1. v # w
        BY <1>4, <3>4 DEF Finish, AnswerLost, LockEvent, UserGone, AlreadyWelcomed, StartSending,
           Accepted, Refused, Refuse, Relock, Settle
      <4> QED
        BY <3>4, <4>1 DEF Finish, AnswerLost, LockEvent, UserGone, AlreadyWelcomed, StartSending,
           Accepted, Refused, Refuse, Relock, Settle, ReadCampaign, CountDeliveries
    <3>5. ASSUME NEW v \in Workers, NEW f \in Events, Claim(v, f)
          PROVE  /\ pc'[w] = pc[w] /\ job'[w] = job[w] /\ fate'[w] = fate[w]
                 /\ view'[w] = view[w] /\ tally'[w] = tally[w]
      BY <1>4, <3>5 DEF Claim
    <3> QED  BY <3>1, <3>2, <3>3, <3>4, <3>5 DEF Next
  <2>2. \A R \in SUBSET {f \in Campaigns : Owner[f] \in users}, s \in BOOLEAN : ~StartCampaign(R, s)
    BY <2>1, InHand DEF StartCampaign
  <2>3. CASE CancelCampaign
    <3>1. /\ campaign'.sent = campaign.sent /\ campaign'.failed = campaign.failed
          /\ campaign'.skipped = campaign.skipped
      BY <2>3 DEF CancelCampaign, CampaignRow
    <3>2. ASSUME pc[w] = "committing", tally[w].open = 0 PROVE Settling(w)' = Settling(w)
      <4>1. Settling(w) \in [Campaigns -> DeliveryStatus]
        <5>1. DeliveryOf(fate[w]) \in DeliveryStatus
          BY <3>2 DEF Placed, Settled, Outcome, DeliveryOf, OutboxOf, DeliveryStatus
        <5> QED  BY <5>1 DEF Settling
      <4>2. CountOf(Settling(w)).open = 0
        BY <2>1, <3>2 DEF Counters
      <4>3. ASSUME NEW e \in Campaigns, e # job[w] PROVE delivery'[e] = delivery[e]
        BY <2>3, <4>1, <4>2, <4>3, OpenCount DEF CancelCampaign, Revoked, Settling, Outstanding
      <4> QED  BY <2>1, <4>3 DEF Settling
    <3> QED  BY <2>1, <3>1, <3>2 DEF Counters
  <2>4. CASE ~CancelCampaign
    <3>1. w \notin Requests /\ \A v \in Workers : job[v] \in Campaigns => v = w
      BY <2>1 DEF Claims, OneCommand, Exclusive
    <3>2. ASSUME NEW v \in Workers, NEW e \in Campaigns, Claim(v, e) PROVE FALSE
      <4>1. v \notin Requests /\ v # w
        BY <1>4, <3>2 DEF Claim, Claimable
      <4> QED  BY <3>1, <4>1 DEF OneCommand
    <3>3. ASSUME NEW v \in Workers, job[v] \in Campaigns, Commit(v) PROVE FALSE
      BY <3>1, <3>3, EventAssumption DEF Commit, Leave
    <3>4. UNCHANGED <<campaign, delivery>>
      BY <2>2, <2>4, <3>2, <3>3, RowsStay
    <3>5. Settling(w)' = Settling(w)
      BY <2>1, <3>4 DEF Settling
    <3> QED  BY <2>1, <3>4, <3>5 DEF Counters
  <2> QED  BY <2>3, <2>4
<1> QED  BY <1>1, <1>2, <1>3, <1>4

(* COMPLETED is written by a start without recipients or by the command that   *)
(* found no delivery open, with the counts it read; afterwards nothing is      *)
(* claimed any more.                                                           *)
LEMMA CompletedStep ==
  ASSUME OneCommand, CampaignInv, [Next]_vars
  PROVE  CompletedIsExact'
<1> USE DEF CampaignInv, ClaimInv, TypeOK
<1> DEFINE Exact(c, d) ==
      c.status = "COMPLETED" =>
        /\ CountOf(d).open = 0
        /\ c.sent = CountOf(d).sent /\ c.failed = CountOf(d).failed /\ c.skipped = CountOf(d).skipped
<1>1. CompletedIsExact <=> Exact(campaign, delivery)
  BY DEF CompletedIsExact, CountOf
<1>2. CompletedIsExact' <=> Exact(campaign', delivery')
  BY DEF CompletedIsExact, CountOf, CountWith
<1>3. ASSUME NEW R \in SUBSET {f \in Campaigns : Owner[f] \in users}, NEW s \in BOOLEAN,
             StartCampaign(R, s)
      PROVE  Exact(campaign', delivery')
  <2>1. \A e \in Campaigns : delivery[e] = "NONE"
    BY <1>3 DEF StartCampaign, Fresh, Mirrors, Mirrored
  <2>2. campaign.sent = 0 /\ campaign.failed = 0 /\ campaign.skipped = 0
    BY <1>3 DEF StartCampaign, Fresh
  <2>3. CASE R = {}
    <3>1. delivery' = delivery
      BY <1>3, <2>3 DEF StartCampaign
    <3>2. CountOf(delivery') = NoTally
      BY <2>1, <3>1, NothingCounted
    <3>3. campaign'.sent = 0 /\ campaign'.failed = 0 /\ campaign'.skipped = 0
      BY <1>3, <2>2 DEF StartCampaign, CampaignRow
    <3> QED  BY <3>2, <3>3 DEF NoTally
  <2>4. CASE R # {}
    <3>1. campaign'.status # "COMPLETED"
      BY <1>3, <2>4 DEF StartCampaign, CampaignRow
    <3> QED  BY <3>1
  <2> QED  BY <2>3, <2>4
<1>4. CASE CancelCampaign
  <2>1. campaign'.status = "CANCELLED"
    BY <1>4 DEF CancelCampaign, CampaignRow
  <2> QED  BY <2>1 DEF CompletedIsExact
<1>5. ASSUME NEW w \in Workers, NEW e \in Campaigns, Claim(w, e)
      PROVE  Exact(campaign', delivery')
  <2>1. delivery[e] \in Outstanding
    BY <1>5 DEF Claim, Claimable, Mirrors, Mirrored, Outstanding
  <2>2. campaign.status # "COMPLETED"
    BY <1>1, <2>1, OpenCount
  <2>3. campaign'.status # "COMPLETED"
    BY <1>5, <2>2 DEF Claim, CampaignRow
  <2> QED  BY <2>3
<1>6. ASSUME NEW w \in Workers, job[w] \in Campaigns, Commit(w)
      PROVE  Exact(campaign', delivery')
  <2>1. campaign.status # "COMPLETED"
    BY <1>6, InHand
  <2>2. delivery' = Settling(w)
    BY <1>6 DEF Commit, Settling
  <2>3. campaign' = Refreshed(campaign, view[w], tally[w]) /\ tally[w].open \in Nat
    BY <1>6 DEF Commit, Tally
  <2>4. ASSUME campaign'.status = "COMPLETED"
        PROVE  tally[w].open = 0 /\ tally[w] = CountOf(delivery')
    <3>1. tally[w].open = 0
      BY <2>1, <2>3, <2>4 DEF Refreshed
    <3> QED  BY <1>6, <2>2, <3>1 DEF Counters, Commit
  <2>5. /\ campaign'.sent = tally[w].sent /\ campaign'.failed = tally[w].failed
        /\ campaign'.skipped = tally[w].skipped
    BY <1>6, <2>3 DEF Refreshed, Counters, Commit
  <2> QED  BY <2>4, <2>5
<1> HIDE DEF Exact
<1>7. CASE /\ \A R \in SUBSET {f \in Campaigns : Owner[f] \in users}, s \in BOOLEAN : ~StartCampaign(R, s)
           /\ ~CancelCampaign
           /\ \A w \in Workers, e \in Campaigns : ~Claim(w, e)
           /\ \A w \in Workers : job[w] \in Campaigns => ~Commit(w)
  <2>1. campaign' = campaign /\ delivery' = delivery
    BY <1>7, RowsStay
  <2> QED  BY <1>1, <1>2, <2>1
<1> QED  BY <1>2, <1>3, <1>4, <1>5, <1>6, <1>7

LEMMA CampaignInit == Init => CampaignInv
<1> SUFFICES ASSUME Init PROVE Mirrors /\ Revoked /\ LeftOver /\ Counters /\ CompletedIsExact
  BY ClaimInvInit DEF CampaignInv
<1> QED
  BY EventAssumption DEF Init, Mirrors, Mirrored, Revoked, LeftOver, Counters, CompletedIsExact, Draft

LEMMA CampaignStep ==
  ASSUME OneCommand
  PROVE  CampaignInv /\ [Next]_vars => CampaignInv'
<1> SUFFICES ASSUME CampaignInv, [Next]_vars PROVE CampaignInv'
  OBVIOUS
<1>1. ClaimInv'
  BY ClaimInvStep DEF CampaignInv
<1>2. Mirrors' /\ Revoked'
  BY MirrorStep, RevokedStep DEF CampaignInv
<1>3. Counters' /\ CompletedIsExact'
  BY <1>1, CountersStep, CompletedStep
<1>4. LeftOver'
  BY <1>1, <1>2, <1>3, LeftOverStep DEF ClaimInv
<1> QED  BY <1>1, <1>2, <1>3, <1>4 DEF CampaignInv

(* With one periodic command the delivery rows follow the outbox rows, however *)
(* late its attempts are, whatever the administrator cancels and whatever the  *)
(* command commits between the two UPDATEs of a cancellation; a delivery that  *)
(* is left open keeps its campaign CANCELLED.                                  *)
THEOREM DeliveriesFollow ==
  ASSUME OneCommand
  PROVE  Spec => []DeliveryMirrorsOutbox
<1>1. CampaignInv => DeliveryMirrorsOutbox
  BY MirrorParts DEF CampaignInv
<1> QED  BY CampaignInit, CampaignStep, <1>1, PTL DEF Spec

(* With one periodic command a COMPLETED campaign has nothing open and its    *)
(* counters are those of its deliveries: nobody else writes the row while the *)
(* command counts, except a cancellation, which changes no closed delivery.   *)
THEOREM CountersAreExact ==
  ASSUME OneCommand
  PROVE  Spec => []CompletedIsExact
<1>1. CampaignInv => CompletedIsExact
  BY DEF CampaignInv
<1> QED  BY CampaignInit, CampaignStep, <1>1, PTL DEF Spec
=============================================================================
