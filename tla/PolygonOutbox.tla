---------------------------- MODULE PolygonOutbox ----------------------------
(***************************************************************************)
(* What follows the creation, change and deletion of a polygon             *)
(* (backend/app/services/polygon_outbox.py): every mutation commits an     *)
(* event with itself; process_due_polygon_outbox handles a batch of due    *)
(* events, looks the address up, notifies, ends social publications.       *)
(*                                                                         *)
(* The batch is selected FOR UPDATE SKIP LOCKED, but the commit with which *)
(* its first event begins releases the locks of all its rows: from there   *)
(* on every event is written by primary key, from the object read with the *)
(* batch, whatever another run has done with the row.                      *)
(***************************************************************************)
EXTENDS Naturals, Sequences, FiniteSets

CONSTANTS
  Entries,      \* rows there can be in polygon_outbox
  Runs,         \* processes that run process_due_polygon_outbox
  Polygon,
  NoEntry,
  MaxAttempts,  \* 8 in the code
  MaxFaults     \* bound: crashes, and runs that take longer than 10 minutes

VARIABLES
  exists,    \* areas and polygons in the database
  outbox,    \* polygon_outbox: kind, status, attempts
  due,       \* entries whose next_attempt_at has come, in the order of these times
  old,       \* entries whose processing_started_at is more than 10 minutes ago
  run,       \* the variables of each run
  faults

vars == <<exists, outbox, due, old, run, faults>>

Open    == {"PENDING", "PROCESSING"}
Closed  == {"COMPLETED", "DEAD_LETTER"}
Kinds   == {"CREATED", "UPDATED", "DELETED"}
Entry   == [kind : Kinds, status : Open \cup Closed, attempts : Nat]
Written == {e \in Entries : outbox[e] # NoEntry}
Idle    == [at |-> "idle", batch |-> <<>>, locks |-> {}, dirty |-> FALSE, 
            tries |-> [e \in Entries |-> 0]]
Handled(w) == Head(run[w].batch)

(* Nobody's open transaction holds the row. *)
Free(e) == \A w \in Runs : e \notin run[w].locks

(* enqueue_polygon_mutation_event *)
Enqueue(kind) ==
  /\ Written # Entries
  /\ LET e == CHOOSE x \in Entries \ Written : TRUE IN
       /\ outbox' = [outbox EXCEPT ![e] =
            [kind |-> kind, status |-> "PENDING", attempts |-> 0]]
       /\ due' = Append(due, e)

Init ==
  /\ exists = {}
  /\ outbox = [e \in Entries |-> NoEntry] /\ due = <<>> /\ old = {}
  /\ run \in [Runs -> {Idle, [Idle EXCEPT !.at = "off"]}]
  /\ faults = 0

-----------------------------------------------------------------------------
(* backend/app/services/polygons.py; a second request with the idempotency key of the *)
(* first is answered with the polygon there is.                                        *)
Create ==
  /\ Polygon \notin exists /\ Written = {}
  /\ exists' = exists \cup {Polygon}
  /\ Enqueue("CREATED")
  /\ UNCHANGED <<old, run, faults>>

Update ==
  /\ Polygon \in exists
  /\ Enqueue("UPDATED")
  /\ UNCHANGED <<exists, old, run, faults>>

Delete ==
  /\ Polygon \in exists
  /\ exists' = exists \ {Polygon}
  /\ Enqueue("DELETED")
  /\ UNCHANGED <<old, run, faults>>

-----------------------------------------------------------------------------
(* process_due_polygon_outbox *)

(* Mutant of Hanging: only rows that never started are given back. *)
HangingUnstarted == {e \in old : outbox[e].status = "PENDING"}

Hanging == {e \in old : outbox[e].status = "PROCESSING"}

(* One UPDATE gives every event that hangs back. *)
Recover(w) ==
  /\ run[w].at = "idle"
  /\ outbox' = [e \in Entries |->
       IF e \in Hanging THEN [outbox[e] EXCEPT !.status = "PENDING"] ELSE outbox[e]]
  /\ old' = old \ Hanging
  /\ run' = [run EXCEPT ![w].at = "selecting"]
  /\ UNCHANGED <<exists, due, faults>>

(* All due events nobody has locked, in the order of their times *)
IsDue(e) == \E i \in DOMAIN due : due[i] = e
Earlier(e, f) == \E i, j \in DOMAIN due : i < j /\ due[i] = e /\ due[j] = f
InOrder(S) == {q \in [1..Cardinality(S) -> S] : \A i, j \in DOMAIN q : i < j => Earlier(q[i], q[j])}
Selectable == {e \in Entries : IsDue(e) /\ outbox[e].status = "PENDING" /\ Free(e)}

Select(w) ==
  LET chosen == Selectable IN
  /\ run[w].at = "selecting"
  /\ \E batch \in InOrder(chosen) : run' = [run EXCEPT ![w] =
       IF chosen = {} THEN Idle
       ELSE [Idle EXCEPT !.at = "starting", !.batch = batch, !.locks = chosen,
               !.tries = [e \in Entries |-> IF e \in chosen THEN outbox[e].attempts ELSE 0]]]
  /\ UNCHANGED <<exists, outbox, due, old, faults>>

(* The commit that begins an event releases the locks of the whole batch. *)
Unlocked == {}

Start(w) ==
  LET e == Handled(w)
      tries == run[w].tries[e] + 1
  IN
  /\ run[w].at = "starting" /\ (e \in run[w].locks \/ Free(e))
  /\ outbox' = [outbox EXCEPT ![e].status = "PROCESSING", ![e].attempts = tries]
  /\ old' = old \ {e}
  /\ run' = [run EXCEPT ![w].at = "handling", ![w].tries[e] = tries, ![w].locks = Unlocked]
  /\ UNCHANGED <<exists, due, faults>>

(* enrich_polygon_address: the geocoder is asked about a polygon that is there. *)
MayEnrich(e) == Polygon \in exists /\ outbox[e].kind # "DELETED"

(* _process_*_event: a polygon that is gone is passed over; otherwise its address may be *)
(* looked up, and what was found is written to it with the event.                        *)
Handle(w) ==
  /\ run[w].at = "handling"
  /\ \E dirty \in BOOLEAN :
       /\ dirty => MayEnrich(Handled(w))
       /\ run' = [run EXCEPT ![w].at = "finishing", ![w].dirty = dirty]
  /\ UNCHANGED <<exists, outbox, due, old, faults>>

(* The next event of the batch, or the end of the run *)
Next1(w) == IF Len(run[w].batch) = 1 THEN Idle
            ELSE [run[w] EXCEPT !.at = "starting", !.batch = Tail(@), !.dirty = FALSE,
                                !.tries[Handled(w)] = 0]

(* StaleDataError: what was found belongs to a polygon deleted since. *)
Lost(w) == run[w].dirty /\ Polygon \notin exists

Close(w, status) ==
  /\ run[w].at = "finishing" /\ ~Lost(w) /\ Free(Handled(w))
  /\ outbox' = [outbox EXCEPT ![Handled(w)].status = status]
  /\ old' = old \ {Handled(w)}
  /\ run' = [run EXCEPT ![w] = Next1(w)]
  /\ UNCHANGED <<exists, faults>>

Complete(w) == Close(w, "COMPLETED") /\ UNCHANGED due

(* The handler raised an exception. *)
GivesUp(w) == run[w].tries[Handled(w)] >= MaxAttempts

Failed(w) ==
  /\ Close(w, IF GivesUp(w) THEN "DEAD_LETTER" ELSE "PENDING")
  /\ due' \in InOrder({e \in Entries : IsDue(e) /\ e # Handled(w)})

(* The commit fails outside the try, and the run with it. *)
Die(w) ==
  /\ run[w].at = "finishing" /\ Lost(w)
  /\ run' = [run EXCEPT ![w] = Idle]
  /\ UNCHANGED <<exists, outbox, due, old, faults>>

Crash(w) ==
  /\ run[w].at \notin {"idle", "off"} /\ faults < MaxFaults
  /\ run' = [run EXCEPT ![w] = Idle]
  /\ faults' = faults + 1
  /\ UNCHANGED <<exists, outbox, due, old>>

FallsDue(e) ==
  /\ e \in Written /\ ~IsDue(e) /\ outbox[e].status = "PENDING"
  /\ due' = Append(due, e)
  /\ UNCHANGED <<exists, outbox, old, run, faults>>

(* 10 minutes after the start.  That its run is still at it is a fault. *)
GrowsOld(e) ==
  LET slow == \E w \in Runs : run[w].at \in {"handling", "finishing"} /\ Handled(w) = e IN
  /\ e \in Written \ old /\ outbox[e].status = "PROCESSING"
  /\ slow => faults < MaxFaults
  /\ faults' = IF slow THEN faults + 1 ELSE faults
  /\ old' = old \cup {e}
  /\ UNCHANGED <<exists, outbox, due, run>>

-----------------------------------------------------------------------------
Mutate  == Create \/ Update \/ Delete
Work(w) == Recover(w) \/ Select(w) \/ Start(w) \/ Handle(w) \/ Complete(w) \/ Failed(w)
           \/ Die(w)
Next == \/ Mutate
        \/ \E w \in Runs : Work(w) \/ Crash(w)
        \/ \E e \in Entries : FallsDue(e) \/ GrowsOld(e)

Fairness == /\ \A w \in Runs : WF_vars(Work(w))
            /\ \A e \in Entries : WF_vars(FallsDue(e)) /\ WF_vars(GrowsOld(e))
Spec == Init /\ [][Next]_vars /\ Fairness

TypeOK ==
  /\ outbox \in [Entries -> {NoEntry} \cup Entry]
  /\ due \in Seq(Entries) /\ old \subseteq Entries

(* Every mutation is dealt with in the end and stays so, whatever crashes or takes too *)
(* long, though a batch handles events again that another run has closed.              *)
EventsClose == \A e \in Entries :
  <>[](outbox[e] = NoEntry \/ outbox[e].status \in Closed)
=============================================================================
