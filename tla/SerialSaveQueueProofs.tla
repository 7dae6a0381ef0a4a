------------------------ MODULE SerialSaveQueueProofs ------------------------
(***************************************************************************)
(* The save queue forgets nothing and implements LatestSave, for any       *)
(* fields and values, any number of failures and any caller.               *)
(***************************************************************************)
EXTENDS SerialSaveQueue, TLAPS

(* Merging patches and records gives patches and records. *)
LEMMA OverType ==
  /\ \A p, q \in Patch : Over(p, q) \in Patch
  /\ \A p \in Patch, q \in [Keys -> Values] : Over(p, q) \in [Keys -> Values]
  /\ Nothing \in Patch
BY UnsetAssumption DEF Over, Patch, Nothing

(* A request under way says something: drain starts none for an empty patch. *)
RequestNotEmpty == "active" \in flags => snapshot # Nothing

(* What a request under way says is the latest value, unless a newer one waits. *)
RequestCurrent ==
  "active" \in flags =>
    \A k \in Keys : pending[k] = Unset => snapshot[k] \in {wish[k], Unset}

(* What the proof carries along: nothing is forgotten is not inductive by     *)
(* itself, an answer to an outdated request could undo the latest value.      *)
IInv == TypeOK /\ NothingForgotten /\ RequestNotEmpty /\ RequestCurrent

(* The queue starts with everything saved. *)
LEMMA InitIInv == Init => IInv
BY OverType DEF Init, IInv, TypeOK, NothingForgotten, RequestNotEmpty, RequestCurrent, Nothing

(* Every handler keeps the types. *)
LEMMA TypeStep == TypeOK /\ [Next]_vars => TypeOK'
<1> SUFFICES ASSUME TypeOK, [Next]_vars PROVE TypeOK'
  OBVIOUS
<1> USE OverType DEF TypeOK
<1>1. ASSUME NEW k \in Keys, NEW v \in Values, Edit(k, v) PROVE TypeOK'
  <2>1. [Nothing EXCEPT ![k] = v] \in Patch
    BY DEF Patch
  <2> QED
    BY <1>1, <2>1 DEF Edit, Scheduled, Schedules
<1>2. CASE Drain
  BY <1>2 DEF Drain, NotifyIdle
<1>3. CASE Succeed
  BY <1>3 DEF Succeed, NotifyIdle, Scheduled, Schedules, ShownAfter
<1>4. CASE Fail
  BY <1>4 DEF Fail, NotifyIdle, Recalled
<1>5. CASE Retry
  BY <1>5 DEF Retry, Scheduled, Schedules
<1>6. CASE Leave
  BY <1>6 DEF Leave, IdleIn, Scheduled, Schedules
<1>7. CASE UNCHANGED vars
  BY <1>7 DEF vars
<1> QED
  BY <1>1, <1>2, <1>3, <1>4, <1>5, <1>6, <1>7 DEF Next

(* Every handler keeps the unsaved values in the queue. *)
LEMMA ForgottenStep == IInv /\ [Next]_vars => NothingForgotten'
<1> SUFFICES ASSUME IInv, [Next]_vars PROVE NothingForgotten'
  OBVIOUS
<1> USE UnsetAssumption DEF IInv, TypeOK, NothingForgotten, RequestCurrent
<1>1. ASSUME NEW k \in Keys, NEW v \in Values, Edit(k, v) PROVE NothingForgotten'
  BY <1>1 DEF Edit, Over, Nothing, Scheduled, Patch
<1>2. CASE Drain
  BY <1>2 DEF Drain, Nothing, Patch
<1>3. CASE Succeed
  BY <1>3 DEF Succeed, Over, Scheduled, Patch
<1>4. CASE Fail
  BY <1>4 DEF Fail, Over, Recalled, Patch
<1>5. CASE Retry
  <2>1. "active" \in flags => "active" \in flags'
    BY <1>5 DEF Retry, Scheduled
  <2>2. UNCHANGED <<wish, server, pending, snapshot>>
    BY <1>5 DEF Retry
  <2> QED
    BY <2>1, <2>2
<1>6. CASE Leave
  <2>1. "active" \in flags => "active" \in flags'
    BY <1>6 DEF Leave, Scheduled
  <2>2. UNCHANGED <<wish, server, pending, snapshot>>
    BY <1>6 DEF Leave
  <2> QED
    BY <2>1, <2>2
<1>7. CASE UNCHANGED vars
  BY <1>7 DEF vars
<1> QED
  BY <1>1, <1>2, <1>3, <1>4, <1>5, <1>6, <1>7 DEF Next

(* Every handler keeps requests up to date. *)
LEMMA CurrentStep == IInv /\ [Next]_vars => RequestCurrent'
<1> SUFFICES ASSUME IInv, [Next]_vars PROVE RequestCurrent'
  OBVIOUS
<1> USE UnsetAssumption DEF IInv, TypeOK, NothingForgotten, RequestCurrent
<1>1. ASSUME NEW k \in Keys, NEW v \in Values, Edit(k, v) PROVE RequestCurrent'
  BY <1>1 DEF Edit, Over, Nothing, Scheduled, Patch
<1>2. CASE Drain
  BY <1>2 DEF Drain, Nothing, Patch
<1>3. CASE Succeed
  BY <1>3 DEF Succeed, Over, Scheduled, Patch
<1>4. CASE Fail
  BY <1>4 DEF Fail, Over, Recalled, Patch
<1>5. CASE Retry
  <2>1. "active" \in flags' => "active" \in flags
    BY <1>5 DEF Retry, Scheduled
  <2>2. UNCHANGED <<wish, server, pending, snapshot>>
    BY <1>5 DEF Retry
  <2> QED
    BY <2>1, <2>2
<1>6. CASE Leave
  <2>1. "active" \in flags' => "active" \in flags
    BY <1>6 DEF Leave, Scheduled
  <2>2. UNCHANGED <<wish, server, pending, snapshot>>
    BY <1>6 DEF Leave
  <2> QED
    BY <2>1, <2>2
<1>7. CASE UNCHANGED vars
  BY <1>7 DEF vars
<1> QED
  BY <1>1, <1>2, <1>3, <1>4, <1>5, <1>6, <1>7 DEF Next

(* Every handler keeps requests from being empty. *)
LEMMA RequestStep == IInv /\ [Next]_vars => RequestNotEmpty'
<1> SUFFICES ASSUME IInv, [Next]_vars PROVE RequestNotEmpty'
  OBVIOUS
<1> USE DEF IInv, TypeOK, RequestNotEmpty
<1>1. ASSUME NEW k \in Keys, NEW v \in Values, Edit(k, v) PROVE RequestNotEmpty'
  BY <1>1 DEF Edit, Scheduled
<1>2. CASE Drain
  BY <1>2 DEF Drain, Nothing
<1>3. CASE Succeed
  BY <1>3 DEF Succeed, Scheduled
<1>4. CASE Fail
  BY <1>4 DEF Fail
<1>5. CASE Retry
  BY <1>5 DEF Retry, Scheduled, Nothing
<1>6. CASE Leave
  BY <1>6 DEF Leave, Scheduled, Nothing
<1>7. CASE UNCHANGED vars
  BY <1>7 DEF vars, Nothing
<1> QED
  BY <1>1, <1>2, <1>3, <1>4, <1>5, <1>6, <1>7 DEF Next

(* Every handler keeps the invariant. *)
LEMMA IInvStep == IInv /\ [Next]_vars => IInv'
BY TypeStep, ForgottenStep, CurrentStep, RequestStep DEF IInv

(* Types hold in every reachable state of the queue. *)
THEOREM TypeCorrect == Spec => []TypeOK
<1>1. Init => TypeOK
  BY InitIInv DEF IInv
<1> QED
  BY <1>1, TypeStep, PTL DEF Spec

(* Nothing the user entered is forgotten, across any number of failures,    *)
(* retries and edits in between.                                            *)
THEOREM NeverForgets == Spec => []NothingForgotten
<1>1. IInv => NothingForgotten
  BY DEF IInv
<1> QED
  BY InitIInv, IInvStep, <1>1, PTL DEF Spec

(* What the page is told agrees with the queue; the form may lag behind the  *)
(* user only while a save is under way or failed.                            *)
Told ==
  /\ flags = {} => pending = Nothing
  /\ shown = "saved" => flags = {}
  /\ Refreshes \/ form = wish
  /\ shown = "saved" => form = wish
  /\ leaving = "left" => flags \in {{}, {"blocked"}}

(* With nothing waiting or under way the server has everything. *)
LEMMA RestIsSaved == IInv /\ flags = {} /\ pending = Nothing => server = wish
BY DEF IInv, TypeOK, NothingForgotten, Nothing

(* Every handler keeps what the page is told in agreement with the queue. *)
LEMMA ToldStep == IInv /\ IInv' /\ Told /\ [Next]_vars => Told'
<1> SUFFICES ASSUME IInv, IInv', Told, [Next]_vars PROVE Told'
  OBVIOUS
<1> USE DEF Told, IInv, TypeOK, IdleIn, Refreshes
<1>1. ASSUME NEW k \in Keys, NEW v \in Values, Edit(k, v) PROVE Told'
  <2>1. pending'[k] = v /\ pending' # Nothing
    BY <1>1, UnsetAssumption DEF Edit, Over, Nothing
  <2>2. flags' # {} /\ shown' # "saved"
    BY <1>1, <2>1 DEF Edit, Scheduled, Schedules
  <2>3. Refreshes \/ form' = wish'
    BY <1>1 DEF Edit
  <2> QED
    BY <1>1, <2>2, <2>3 DEF Edit
<1>2. CASE Drain
  BY <1>2 DEF Drain, NotifyIdle
<1>3. CASE Succeed
  <2>1. flags' = {} => pending' = Nothing
    BY <1>3 DEF Succeed, Scheduled, Schedules
  <2>2. shown' = "saved" => pending' = Nothing /\ flags' = {}
    BY <1>3 DEF Succeed, Scheduled, Schedules, ShownAfter
  <2>3. flags' = {} /\ pending' = Nothing => server' = wish'
    BY DEF NothingForgotten, Nothing
  <2>4. form' = IF Refreshes THEN server' ELSE form
    BY <1>3 DEF Succeed
  <2>5. leaving' = "left" => flags' \in {{}, {"blocked"}}
    BY <1>3 DEF Succeed, NotifyIdle, Scheduled
  <2> QED
    BY <1>3, <2>1, <2>2, <2>3, <2>4, <2>5 DEF Succeed
<1>4. CASE Fail
  BY <1>4 DEF Fail, NotifyIdle
<1>5. CASE Retry
  BY <1>5 DEF Retry, Scheduled, Schedules
<1>6. CASE Leave
  BY <1>6 DEF Leave, Scheduled, Schedules
<1>7. CASE UNCHANGED vars
  BY <1>7 DEF vars
<1> QED
  BY <1>1, <1>2, <1>3, <1>4, <1>5, <1>6, <1>7 DEF Next

(* The page says "Gespeichert" only when everything is saved and shown.      *)
THEOREM SavedNeverLies == Spec => []SavedIsHonest
<1>1. Init => Told
  BY DEF Init, Told
<1>2. IInv /\ Told => SavedIsHonest
  BY RestIsSaved DEF Told, SavedIsHonest
<1> QED
  BY InitIInv, IInvStep, ToldStep, <1>1, <1>2, PTL DEF Spec

(* The page is left with everything saved, or after a failed last attempt.   *)
THEOREM LeavingNeverLies == Spec => []LeftIsHonest
<1>1. Init => Told
  BY DEF Init, Told
<1>2. IInv /\ Told => LeftIsHonest
  BY RestIsSaved DEF Told, LeftIsHonest
<1> QED
  BY InitIInv, IInvStep, ToldStep, <1>1, <1>2, PTL DEF Spec

(* The queue is an implementation of LatestSave: every request carries the  *)
(* latest value of everything the server may not have, one at a time.       *)
THEOREM QueueImplementsLatestSave == Spec => ImplementsLatestSave
<1> USE UnsetAssumption
<1>1. Abstract!Nothing = Nothing /\ Abstract!Patch = Patch
  BY DEF Abstract!Nothing, Abstract!Patch, Nothing, Patch
<1>2. \A p, q : Abstract!Over(p, q) = Over(p, q)
  BY DEF Abstract!Over, Over
<1>3. Init => Abstract!Init
  BY <1>1 DEF Init, Abstract!Init, Sending
<1>4. ASSUME IInv, IInv', [Next]_vars PROVE [Abstract!Next]_(Abstract!vars)
  <2> USE <1>4 DEF IInv, TypeOK, RequestNotEmpty
  <2> DEFINE Stutter == wish' = wish /\ server' = server /\ Sending' = Sending
  <2>1. Stutter => [Abstract!Next]_(Abstract!vars)
    BY DEF Abstract!vars
  <2>2. ASSUME NEW k \in Keys, NEW v \in Values, Edit(k, v) PROVE Abstract!Edit
    BY <2>2 DEF Edit, Abstract!Edit, Sending, Scheduled
  <2>3. CASE Drain
    <3>1. CASE flags \cap {"active", "blocked"} # {} \/ pending = Nothing
      BY <2>3, <3>1, <2>1 DEF Drain, Sending
    <3>2. CASE ~(flags \cap {"active", "blocked"} # {} \/ pending = Nothing)
      <4>1. snapshot' = pending /\ "active" \in flags' /\ "active" \notin flags
        BY <2>3, <3>2 DEF Drain
      <4>2. Sending = Nothing /\ Sending' = pending /\ pending # Nothing
        BY <4>1, <3>2 DEF Sending
      <4>3. Abstract!Send
        BY <1>1, <2>3, <4>1, <4>2 DEF Drain, Abstract!Send, NothingForgotten
      <4> QED
        BY <4>3 DEF Abstract!Next
    <3> QED
      BY <3>1, <3>2
  <2>4. CASE Succeed
    <3>1. Sending = snapshot /\ Sending' = Nothing
      BY <2>4 DEF Succeed, Sending, Scheduled
    <3> QED
      BY <1>1, <1>2, <2>1, <2>4, <3>1 DEF Succeed, Abstract!Answer, Abstract!Next
  <2>5. CASE Fail
    <3>1. Sending = snapshot /\ Sending' = Nothing
      BY <2>5 DEF Fail, Sending
    <3> QED
      BY <1>1, <1>2, <2>1, <2>5, <3>1 DEF Fail, Abstract!Answer, Abstract!Next
  <2>6. CASE Retry
    BY <2>1, <2>6 DEF Retry, Sending, Scheduled
  <2>7. CASE Leave
    BY <2>1, <2>7 DEF Leave, Sending, Scheduled
  <2>8. CASE UNCHANGED vars
    BY <2>1, <2>8 DEF vars, Sending
  <2> QED
    BY <2>2, <2>3, <2>4, <2>5, <2>6, <2>7, <2>8 DEF Next, Abstract!Next
<1> QED
  BY InitIInv, IInvStep, <1>3, <1>4, PTL DEF Spec, ImplementsLatestSave, Abstract!Spec
=============================================================================
