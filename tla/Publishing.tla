----------------------------- MODULE Publishing -----------------------------
(***************************************************************************)
(* Polygons, their outbox and the posts about them and about areas: the    *)
(* deletion of a polygon commits an event, and the run that handles it     *)
(* ends the polygon's publications, which a publisher may be at work on.   *)
(***************************************************************************)
EXTENDS SocialPublishing

CONSTANTS
  Entries, Runs, NoEntry,
  MaxEventAttempts, MaxRunFaults  \* MaxAttempts and MaxFaults of PolygonOutbox

VARIABLES outbox, eventDue, eventOld, run, runFaults

O == INSTANCE PolygonOutbox WITH MaxAttempts <- MaxEventAttempts, MaxFaults <- MaxRunFaults,
                                 due <- eventDue, old <- eventOld, faults <- runFaults

ASSUME OutboxAssumption == /\ IsFiniteSet(Events) /\ IsFiniteSet(Entries) /\ Polygon \in Resources
                           /\ NoEntry \notin O!Entry

outboxVars == <<outbox, eventDue, eventOld, run, runFaults>>
all        == <<vars, outboxVars>>

(* exists is the components' common variable. *)
Init2 ==
  /\ Init
  /\ outbox = [e \in Entries |-> NoEntry] /\ eventDue = <<>> /\ eventOld = {}
  /\ runFaults \in 0..MaxRunFaults
  /\ run \in [Runs -> {O!Idle, [O!Idle EXCEPT !.at = "off"]}]

(* _process_deleted_event ends the polygon's publications in the event's transaction. *)
Ends(w) == outbox[O!Handled(w)].kind = "DELETED"

OutboxStep(w) ==
  \/ /\ O!Complete(w) /\ Ends(w) /\ CancelPublications
     /\ UNCHANGED <<text, policy, posts, cleared, m, outside, faults>>
  \/ /\ O!Complete(w) /\ ~Ends(w) /\ UNCHANGED vars
  \/ /\ O!Recover(w) \/ O!Select(w) \/ O!Start(w) \/ O!Handle(w) \/ O!Failed(w) \/ O!Die(w)
     /\ UNCHANGED vars

(* Requests that change the polygon; a change of it makes a post about it read otherwise. *)
Mutate ==
  /\ \/ O!Create /\ Of(Polygon) = {} /\ UNCHANGED text
     \/ O!Update /\ \E t \in Texts : text' = [text EXCEPT ![Polygon] = t]
     \/ O!Delete /\ UNCHANGED text
  /\ UNCHANGED <<store, policy, posts, cleared, m, outside, faults>>

Adoption == Adopt /\ outbox = [e \in Entries |-> NoEntry]

Social ==
  /\ \/ \E w \in Publishers : Publish(w) \/ Crash(w)
     \/ \E e \in Events : Administer(e) \/ Aside(e) \/ Forget(e)
     \/ \E r \in Resources : SaveArea(r)
     \/ \E p \in Modes : SetPolicy(p)
     \/ Adoption
  /\ UNCHANGED outboxVars

Outbox ==
  \/ Mutate
  \/ \E w \in Runs : OutboxStep(w) \/ (O!Crash(w) /\ UNCHANGED vars)
  \/ \E e \in Entries : (O!FallsDue(e) \/ O!GrowsOld(e)) /\ UNCHANGED vars

Next == Social \/ Outbox

(* The timers start both programs again and again, and time passes. *)
Fairness ==
  /\ \A w \in Publishers : WF_all(Publish(w) /\ UNCHANGED outboxVars)
  /\ \A e \in Events : WF_all(Aside(e) /\ UNCHANGED outboxVars)
  /\ \A w \in Runs : WF_all(OutboxStep(w))
  /\ \A e \in Entries : WF_all((O!FallsDue(e) \/ O!GrowsOld(e)) /\ UNCHANGED vars)

Spec == Init2 /\ [][Next]_all /\ Fairness

(* Every mutation of a polygon is dealt with in the end, as PolygonOutbox states it. *)
EventsClose == O!EventsClose

(* The values both outboxes may hold, and one waiting publication for each resource *)
(* (uq_social_outbox_pending_resource).                                             *)
BothTypesOK == TypeOK /\ O!TypeOK
=============================================================================
