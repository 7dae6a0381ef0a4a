----------------------------- MODULE LatestSave -----------------------------
(***************************************************************************)
(* What a form that saves itself promises, whatever the mechanism: one     *)
(* request at a time, each of them carrying the latest value of every      *)
(* field the server may not have, and nothing but latest values.           *)
(***************************************************************************)
CONSTANTS Keys, Values, Unset

VARIABLES
  wish,     \* the value the user last gave each field
  server,   \* the value the server has stored
  sending   \* the patch of the request under way, Nothing without one

vars == <<wish, server, sending>>

Patch   == [Keys -> Values \cup {Unset}]
Nothing == [k \in Keys |-> Unset]

(* {...q, ...p}: the patch or record q with the fields of p written over it *)
Over(p, q) == [k \in Keys |-> IF p[k] = Unset THEN q[k] ELSE p[k]]

Init ==
  /\ wish \in [Keys -> Values]
  /\ server = wish
  /\ sending = Nothing

Edit ==
  /\ \E k \in Keys, v \in Values : wish' = [wish EXCEPT ![k] = v]
  /\ UNCHANGED <<server, sending>>

Send ==
  /\ sending = Nothing
  /\ sending' \in Patch /\ sending' # Nothing
  /\ \A k \in Keys : sending'[k] \in {wish[k], Unset}
  /\ \A k \in Keys : wish[k] # server[k] => sending'[k] = wish[k]
  /\ UNCHANGED <<wish, server>>

(* The request ends.  One that fails may have been carried out or not. *)
Answer ==
  /\ sending # Nothing
  /\ server' \in {server, Over(sending, server)}
  /\ sending' = Nothing
  /\ UNCHANGED wish

Next == Edit \/ Send \/ Answer
Spec == Init /\ [][Next]_vars
=============================================================================
