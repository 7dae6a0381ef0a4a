----------------------------- MODULE MCPublishing -----------------------------
(***************************************************************************)
(* Small instances of Publishing for TLC, one scene per run of the system: *)
(* areas    two rows about one area, one publisher;                        *)
(* adopted  one row about the polygon, two publishers;                     *)
(* deleted  the same with one publisher, and the outbox that ends it;      *)
(* outbox   two mutations, two runs of the outbox, nothing to publish.     *)
(***************************************************************************)
EXTENDS Publishing, TLC
CONSTANTS area, e1, e2, e3, p1, p2, r1, r2, x1, x2, ta, tb,
          MaxTries   \* bound: attempts counted of one publication

MCResource == (e1 :> area) @@ (e2 :> area) @@ (e3 :> Polygon)

On(S, T) == /\ \A w \in Publishers : (m[w].at = "idle") = (w \in S)
            /\ \A w \in Runs : (run[w].at = "idle") = (w \in T)

VARIABLE scene

Scenes == {"areas", "adopted", "deleted", "outbox"}

MCInit ==
  /\ Init2 /\ text = [r \in Resources |-> ta] /\ scene \in Scenes
  /\ runFaults = IF scene = "deleted" THEN MaxRunFaults ELSE 0
  /\ CASE scene = "areas"   -> On({p1}, {}) /\ exists = {area} /\ policy # "OFF"
       [] scene = "adopted" -> On({p1, p2}, {}) /\ exists = {} /\ policy \in {"AUTOMATIC", "MANUAL"}
       [] scene = "deleted" -> On({p1}, {r1}) /\ exists = {} /\ policy \in {"AUTOMATIC", "MANUAL"}
       [] scene = "outbox"  -> On({}, {r1, r2}) /\ exists = {} /\ policy = "OFF"

(* Where no text changes, a text that is rendered once more is no change of the row. *)
Same == \A w \in Publishers : m[w].at = "captured" /\ m'[w].locks => m[w].fresh \/ m[w].locks

(* What the scene leaves to the others does not happen in it. *)
Apart ==
  CASE scene = "areas"   -> Polygon \notin exists'
    [] scene = "adopted" -> policy' = policy /\ outbox' = outbox /\ Same
    [] scene = "deleted" -> /\ policy' = policy /\ Same
                             /\ \A e \in Entries : outbox'[e] # NoEntry
                                                   => outbox'[e].kind = "DELETED"
    [] scene = "outbox"  -> UNCHANGED <<policy, cleared>> /\ outside' = outside

(* Recovery compares no attempt with a limit: where an obstacle stays, they are counted for *)
(* ever.  Behaviours are examined up to the attempt after the last regular one.             *)
Counted == \A e \in Events : rows'[e] # NoRow => rows'[e].tries <= MaxTries

MCNext == Next /\ Apart /\ Counted /\ UNCHANGED scene
MCSpec == MCInit /\ [][MCNext]_<<all, scene>> /\ Fairness
=============================================================================
