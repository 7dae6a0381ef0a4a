------------------------- MODULE PolygonEditingProofs -------------------------
(***************************************************************************)
(* For any fields and values, any number of other people, failures and     *)
(* writes of the worker: what waits on the page is the newest, and, on a   *)
(* page that never takes a version without its data, nobody's change is    *)
(* overwritten unseen.                                                     *)
(***************************************************************************)
EXTENDS PolygonEditing, TLAPS

(* The part of the types the proofs need *)
Types ==
  /\ row \in [Fields -> Values] /\ base \in [Fields -> Values] /\ wish \in [Fields -> Values]
  /\ pending \in Patch /\ failed \in Patch /\ job \in Patch /\ answer \in Patch
  /\ known \subseteq Actors /\ reply \subseteq Actors
  /\ phase \in {"loading", "idle", "sent", "committed", "applied", "rejected", "refreshing"}

(* Merging and restricting patches gives patches. *)
LEMMA PatchType ==
  /\ Nothing \in Patch
  /\ \A p, q \in Patch : Over(p, q) \in Patch
  /\ \A p \in Patch, q \in [Fields -> Values] : Over(p, q) \in [Fields -> Values]
  /\ \A p \in Patch : \A S : Only(p, S) \in Patch
  /\ \A p \in [Fields -> Values] : \A S : Only(p, S) \in Patch
BY UnsetAssumption DEF Patch, Nothing, Over, Only

(* A patch is split into the job of flush and what stays, both with its values. *)
LEMMA Split ==
  ASSUME NEW p \in Patch
  PROVE  /\ Taken(p) \in Patch /\ Left(p) \in Patch
         /\ \A f \in Fields : Taken(p)[f] \in {p[f], Unset} /\ Left(p)[f] \in {p[f], Unset}
         /\ \A f \in Fields : p[f] # Unset /\ Taken(p)[f] = Unset => Left(p)[f] = p[f]
BY DEF Taken, Left, Named, Only, Patch, Nothing

(* Every action keeps the types. *)
LEMMA TypesStep == Types /\ [Next]_vars => Types'
<1> SUFFICES ASSUME Types, [Next]_vars PROVE Types'
  OBVIOUS
<1> USE PatchType DEF Types
<1>0. ASSUME NEW p \in Patch, NEW j \in Patch, Loop(p, j)
      PROVE  /\ job' \in Patch /\ pending' \in Patch /\ failed' \in Patch
             /\ phase' \in {"idle", "sent"}
  BY <1>0, Split DEF Loop
<1>1. ASSUME NEW f \in Fields, NEW v \in Values, Edit(f, v) PROVE Types'
  BY <1>1 DEF Edit, server, Patch
<1>2. ASSUME NEW f \in Fields, NEW v \in Values, OtherEdits(f, v) PROVE Types'
  BY <1>2 DEF OtherEdits, Changed, Actors
<1>3. CASE Mount
  BY <1>3 DEF Mount, server
<1>4. CASE Fire
  <2>1. CASE phase = "idle"
    BY <1>4, <2>1, <1>0 DEF Fire, server
  <2>2. CASE phase # "idle"
    BY <1>4, <2>2 DEF Fire, server
  <2> QED
    BY <2>1, <2>2
<1>5. CASE Retry
  BY <1>5, <1>0 DEF Retry, Retried, server
<1>6. CASE Update
  BY <1>6 DEF Update, Actors
<1>13. CASE Reread
  BY <1>13 DEF Reread, server
<1>7. CASE Saved
  <2>1. CASE Named(job) \cap Geometry # {}
    BY <1>7, <2>1 DEF Saved, server
  <2>2. CASE Named(job) \cap Geometry = {}
    BY <1>7, <2>2, <1>0 DEF Saved, server
  <2> QED
    BY <2>1, <2>2
<1>8. CASE Refreshed
  BY <1>8, <1>0 DEF Refreshed, server
<1>9. CASE Rejected \/ Fail
  BY <1>9 DEF Rejected, Fail, Caught, server
<1>10. CASE Reload
  BY <1>10 DEF Reload, server
<1>11. CASE Enrich
  BY <1>11 DEF Enrich, Changed, Actors
<1>12. CASE UNCHANGED vars
  BY <1>12 DEF vars, server, page
<1> QED
  BY <1>1, <1>2, <1>3, <1>4, <1>5, <1>6, <1>7, <1>8, <1>9, <1>10, <1>11, <1>12, <1>13 DEF Next

-----------------------------------------------------------------------------
(* The rest of the types: a request has changes of one kind, and the page    *)
(* has a request exactly while it is not idle.                               *)
OneRequest ==
  /\ Named(job) \subseteq Public \/ Named(job) \cap Public = {}
  /\ phase \in {"loading", "idle"} <=> job = Nothing
  /\ timer \in {"set", "off"} /\ unsaved \subseteq Fields /\ dropped \subseteq Fields
  /\ status \in {"saved", "dirty", "saving", "error", "conflict"}
  /\ touches \in 0 .. Enrichments

(* The loop of flush sends a request of one kind, or none. *)
LEMMA LoopRequest ==
  ASSUME NEW p \in Patch, NEW j \in Patch, Loop(p, j),
         status \in {"saved", "dirty", "saving", "error", "conflict"}
  PROVE  /\ Named(job)' \subseteq Public \/ Named(job)' \cap Public = {}
         /\ phase' \in {"loading", "idle"} <=> job' = Nothing
         /\ status' \in {"saved", "dirty", "saving", "error", "conflict"}
<1>1. CASE Continues(p)
  <2>1. job' = Taken(p) /\ phase' = "sent" /\ status' = "saving" /\ p # Nothing
    BY <1>1 DEF Loop, Continues
  <2>2. Taken(p) # Nothing
    BY <2>1 DEF Taken, Named, Only, Nothing, Patch
  <2>3. Named(Taken(p)) \subseteq Public \/ Named(Taken(p)) \cap Public = {}
    BY DEF Taken, Named, Only
  <2> QED
    BY <2>1, <2>2, <2>3 DEF Named
<1>2. CASE ~Continues(p)
  BY <1>2 DEF Loop, Named, Nothing
<1> QED
  BY <1>1, <1>2

(* Every action keeps OneRequest. *)
LEMMA OneRequestStep == Types /\ OneRequest /\ [Next]_vars => OneRequest'
<1> SUFFICES ASSUME Types, OneRequest, [Next]_vars PROVE OneRequest'
  OBVIOUS
<1> USE PatchType, BoundAssumption DEF Types, OneRequest
<1>1. ASSUME NEW f \in Fields, NEW v \in Values, Edit(f, v) PROVE OneRequest'
  BY <1>1 DEF Edit, server, Named, Nothing
<1>2. ASSUME NEW f \in Fields, NEW v \in Values, OtherEdits(f, v) PROVE OneRequest'
  BY <1>2 DEF OtherEdits, Named, Nothing
<1>3. CASE Mount
  BY <1>3 DEF Mount, server, Named, Nothing
<1>4. CASE Fire
  <2>1. CASE phase = "idle"
    BY <1>4, <2>1, LoopRequest DEF Fire, server
  <2>2. CASE phase # "idle"
    BY <1>4, <2>2 DEF Fire, server, Named, Nothing
  <2> QED
    BY <2>1, <2>2
<1>5. CASE Retry
  BY <1>5, LoopRequest DEF Retry, Retried, server
<1>6. CASE Update
  <2>1. /\ phase = "sent" /\ phase' \in {"committed", "rejected"} /\ unsaved' \subseteq unsaved
        /\ UNCHANGED <<touches, job, timer, status, dropped>>
    BY <1>6 DEF Update
  <2> QED
    BY <2>1 DEF Named, Nothing
<1>7. CASE Reread
  BY <1>7 DEF Reread, server, Named, Nothing
<1>8. CASE Saved
  <2>1. phase = "applied" /\ UNCHANGED <<touches, timer, unsaved>>
    BY <1>8 DEF Saved, server
  <2>2. CASE Named(job) \cap Geometry # {}
    BY <1>8, <2>1, <2>2 DEF Saved, Named, Nothing
  <2>3. CASE Named(job) \cap Geometry = {}
    <3>1. Loop(pending, Nothing) /\ dropped' = dropped \cup Named(failed)
      BY <1>8, <2>3 DEF Saved
    <3>2. dropped' \subseteq Fields
      BY <3>1 DEF Named
    <3> QED
      BY <2>1, <3>1, <3>2, LoopRequest
  <2> QED
    BY <2>2, <2>3
<1>9. CASE Refreshed
  <2>1. /\ Loop(pending, Nothing) /\ dropped' = dropped \cup Named(failed)
        /\ UNCHANGED <<touches, timer, unsaved>>
    BY <1>9 DEF Refreshed, server
  <2>2. dropped' \subseteq Fields
    BY <2>1 DEF Named
  <2> QED
    BY <2>1, <2>2, LoopRequest
<1>10. CASE Rejected \/ Fail
  <2>1. /\ job' = Nothing /\ phase' = "idle" /\ status' \in {"conflict", "error"}
        /\ dropped' = dropped \cup Named(failed) /\ UNCHANGED <<touches, timer, unsaved>>
    BY <1>10 DEF Rejected, Fail, Caught, server
  <2>2. dropped' \subseteq Fields
    BY <2>1 DEF Named
  <2> QED
    BY <2>1, <2>2 DEF Named, Nothing
<1>11. CASE Reload
  BY <1>11 DEF Reload, server, Named, Nothing
<1>12. CASE Enrich
  <2>1. touches' = touches - 1 /\ touches > 0
    BY <1>12 DEF Enrich
  <2>2. UNCHANGED <<job, phase, timer, status, unsaved, dropped>>
    BY <1>12 DEF Enrich
  <2> QED
    BY <2>1, <2>2 DEF Named, Nothing
<1>13. CASE UNCHANGED vars
  BY <1>13 DEF vars, server, page, Named, Nothing
<1> QED
  BY <1>1, <1>2, <1>3, <1>4, <1>5, <1>6, <1>7, <1>8, <1>9, <1>10, <1>11, <1>12, <1>13 DEF Next

(* Types, and requests of one kind, hold in every reachable state. *)
THEOREM TypeCorrect == Spec => []TypeOK
<1>1. Init => Types /\ OneRequest
  BY PatchType, BoundAssumption DEF Init, Types, OneRequest, Named, Nothing
<1>2. Types /\ OneRequest => TypeOK
  BY DEF Types, OneRequest, TypeOK
<1> QED
  BY TypesStep, OneRequestStep, <1>1, <1>2, PTL DEF Spec

-----------------------------------------------------------------------------
(* The strengthening of WaitingIsNewest: the request under way and, on an     *)
(* idle page, the failed changes are the newest too where nothing waits.      *)
Newest ==
  \A f \in Fields :
    /\ pending[f] \in {wish[f], Unset}
    /\ phase \notin {"loading", "idle"} /\ pending[f] = Unset => job[f] \in {wish[f], Unset}
    /\ phase \in {"loading", "idle"} /\ pending[f] = Unset => failed[f] \in {wish[f], Unset}

(* The loop of flush keeps Newest when what it is entered with is the newest. *)
LEMMA NewestLoop ==
  ASSUME NEW p \in Patch, NEW j \in Patch, Loop(p, j), UNCHANGED wish,
         \A f \in Fields : p[f] \in {wish[f], Unset},
         \A f \in Fields : p[f] = Unset => j[f] \in {wish[f], Unset}
  PROVE  Newest'
<1>1. CASE Continues(p)
  <2>1. job' = Taken(p) /\ pending' = Left(p) /\ phase' = "sent"
    BY <1>1 DEF Loop
  <2>2. ASSUME NEW f \in Fields
        PROVE  /\ pending'[f] \in {wish'[f], Unset}
               /\ job'[f] \in {wish'[f], Unset}
    BY <2>1, Split
  <2> QED
    BY <2>1, <2>2 DEF Newest
<1>2. CASE ~Continues(p)
  BY <1>2 DEF Loop, Newest
<1> QED
  BY <1>1, <1>2

(* Every action keeps Newest. *)
LEMMA NewestStep == Types /\ Newest /\ [Next]_vars => Newest'
<1> SUFFICES ASSUME Types, Newest, [Next]_vars PROVE Newest'
  OBVIOUS
<1> USE PatchType DEF Types
<1>0. \A f \in Fields : Nothing[f] = Unset
  BY DEF Nothing
<1>1. ASSUME NEW f \in Fields, NEW v \in Values, Edit(f, v) PROVE Newest'
  <2>1. /\ wish' = [wish EXCEPT ![f] = v] /\ pending' = [pending EXCEPT ![f] = v]
        /\ failed' = Nothing /\ job' = job /\ phase' = phase
    BY <1>1 DEF Edit
  <2> QED
    BY <2>1, <1>0, UnsetAssumption DEF Newest, Patch
<1>2. ASSUME NEW f \in Fields, NEW v \in Values, OtherEdits(f, v) PROVE Newest'
  BY <1>2 DEF OtherEdits, Newest
<1>3. CASE Mount
  BY <1>3 DEF Mount, Newest
<1>4. CASE Fire
  <2>1. CASE phase = "idle"
    <3>1. Loop(pending, failed) /\ UNCHANGED wish
      BY <1>4, <2>1 DEF Fire
    <3> QED
      BY <3>1, <2>1, NewestLoop DEF Newest
  <2>2. CASE phase # "idle"
    BY <1>4, <2>2 DEF Fire, Newest
  <2> QED
    BY <2>1, <2>2
<1>5. CASE Retry
  <2>1. Loop(Over(pending, failed), Nothing) /\ UNCHANGED wish /\ phase = "idle"
    BY <1>5 DEF Retry, Retried
  <2>2. \A f \in Fields : Over(pending, failed)[f] \in {wish[f], Unset}
    BY <2>1 DEF Newest, Over
  <2> QED
    BY <2>1, <2>2, <1>0, NewestLoop
<1>6. CASE Update
  <2>1. /\ UNCHANGED <<pending, wish, job, failed>>
        /\ phase = "sent" /\ phase' \in {"committed", "rejected"}
    BY <1>6 DEF Update
  <2> QED
    BY <2>1 DEF Newest
<1>13. CASE Reread
  BY <1>13 DEF Reread, Newest
<1>7. CASE Saved
  <2>1. CASE Named(job) \cap Geometry # {}
    BY <1>7, <2>1 DEF Saved, Newest
  <2>2. CASE Named(job) \cap Geometry = {}
    <3>1. Loop(pending, Nothing) /\ UNCHANGED wish
      BY <1>7, <2>2 DEF Saved
    <3> QED
      BY <3>1, <1>0, NewestLoop DEF Newest
  <2> QED
    BY <2>1, <2>2
<1>8. CASE Refreshed
  <2>1. Loop(pending, Nothing) /\ UNCHANGED wish
    BY <1>8 DEF Refreshed
  <2> QED
    BY <2>1, <1>0, NewestLoop DEF Newest
<1>9. CASE Rejected \/ Fail
  <2>1. /\ failed' = job /\ phase' = "idle" /\ UNCHANGED <<pending, wish>>
        /\ phase \notin {"loading", "idle"}
    BY <1>9 DEF Rejected, Fail, Caught
  <2> QED
    BY <2>1 DEF Newest
<1>10. CASE Reload
  BY <1>10, <1>0 DEF Reload, Newest
<1>11. CASE Enrich
  BY <1>11 DEF Enrich, Newest
<1>12. CASE UNCHANGED vars
  BY <1>12 DEF vars, page, Newest
<1> QED
  BY <1>1, <1>2, <1>3, <1>4, <1>5, <1>6, <1>7, <1>8, <1>9, <1>10, <1>11, <1>12, <1>13 DEF Next

(* What waits to be sent is the newest value of its field, whatever fails,   *)
(* conflicts or is retried.                                                  *)
THEOREM WaitingStaysNewest == Spec => []WaitingIsNewest
<1>1. Init => Types /\ Newest
  BY PatchType DEF Init, Types, Newest, Nothing
<1>2. Types /\ Newest => WaitingIsNewest
  BY DEF Newest, WaitingIsNewest
<1> QED
  BY TypesStep, NewestStep, <1>1, <1>2, PTL DEF Spec

-----------------------------------------------------------------------------
(* Where the changes are that the server never stored, and when the page may *)
(* say "saved": with nothing waiting, under way or failed.                   *)
Held(f) ==
  \/ f \in dropped
  \/ pending[f] # Unset
  \/ failed[f] # Unset
  \/ phase \in {"sent", "rejected"} /\ job[f] # Unset

Kept ==
  /\ \A f \in unsaved : f \in Fields /\ Held(f)
  /\ status = "saved" => phase \in {"loading", "idle"} /\ pending = Nothing /\ failed = Nothing

(* The loop of flush loses nothing of what it is entered with. *)
LEMMA KeptLoop ==
  ASSUME NEW p \in Patch, NEW j \in Patch, Loop(p, j)
  PROVE  /\ \A f \in Fields : p[f] # Unset =>
               pending'[f] # Unset \/ (phase' = "sent" /\ job'[f] # Unset)
         /\ failed' = j
         /\ status' = "saved" /\ status # "saved" =>
               phase' = "idle" /\ pending' = Nothing /\ failed' = Nothing
         /\ status' = "saved" => phase' = "idle" /\ pending' = Nothing
BY Split DEF Loop, Continues, Nothing

(* Every action keeps Kept. *)
LEMMA KeptStep == Types /\ Newest /\ Kept /\ [Next]_vars => Kept'
<1> SUFFICES ASSUME Types, Newest, Kept, [Next]_vars PROVE Kept'
  OBVIOUS
<1> USE PatchType, UnsetAssumption DEF Types, Kept, Held
<1>0. \A f \in Fields : Nothing[f] = Unset
  BY DEF Nothing
<1>1. ASSUME NEW f \in Fields, NEW v \in Values, Edit(f, v) PROVE Kept'
  <2>1. /\ unsaved' = unsaved \cup {f} /\ pending' = [pending EXCEPT ![f] = v]
        /\ dropped' = (dropped \cup Named(failed)) \ {f}
        /\ status' = "dirty" /\ UNCHANGED <<job, phase>>
    BY <1>1 DEF Edit
  <2>2. ASSUME NEW g \in unsaved' PROVE g \in Fields /\ Held(g)'
    BY <2>1 DEF Named, Patch
  <2> QED
    BY <2>1, <2>2
<1>2. ASSUME NEW f \in Fields, NEW v \in Values, OtherEdits(f, v) PROVE Kept'
  BY <1>2 DEF OtherEdits
<1>3. CASE Mount
  BY <1>3 DEF Mount
<1>4. CASE Fire
  <2>1. CASE phase = "idle"
    <3>1. Loop(pending, failed) /\ UNCHANGED <<unsaved, dropped>>
      BY <1>4, <2>1 DEF Fire
    <3>2. ASSUME NEW f \in unsaved' PROVE f \in Fields /\ Held(f)'
      BY <3>1, <2>1, KeptLoop
    <3> QED
      BY <3>1, <3>2, KeptLoop
  <2>2. CASE phase # "idle"
    BY <1>4, <2>2 DEF Fire
  <2> QED
    BY <2>1, <2>2
<1>5. CASE Retry
  <2>1. /\ Loop(Over(pending, failed), Nothing) /\ UNCHANGED <<unsaved, dropped>>
        /\ phase = "idle" /\ status # "saved"
    BY <1>5 DEF Retry, Retried
  <2>2. \A f \in Fields : pending[f] # Unset \/ failed[f] # Unset => Over(pending, failed)[f] # Unset
    BY DEF Over
  <2>3. ASSUME NEW f \in unsaved' PROVE f \in Fields /\ Held(f)'
    BY <2>1, <2>2, KeptLoop
  <2> QED
    BY <2>1, <2>3, KeptLoop
<1>6. CASE Update
  <2>1. /\ phase = "sent" /\ phase' \in {"committed", "rejected"}
        /\ UNCHANGED <<pending, failed, job, status, dropped>>
        /\ \/ phase' = "rejected" /\ unsaved' = unsaved
           \/ unsaved' = {f \in unsaved : job[f] # wish[f]}
    BY <1>6 DEF Update
  <2>2. ASSUME NEW f \in unsaved' PROVE f \in Fields /\ Held(f)'
    BY <2>1 DEF Newest
  <2> QED
    BY <2>1, <2>2
<1>7. CASE Reread
  BY <1>7 DEF Reread
<1>8. CASE Saved
  <2>1. phase = "applied" /\ UNCHANGED unsaved
    BY <1>8 DEF Saved
  <2>2. CASE Named(job) \cap Geometry # {}
    BY <1>8, <2>1, <2>2 DEF Saved
  <2>3. CASE Named(job) \cap Geometry = {}
    <3>1. Loop(pending, Nothing) /\ dropped' = dropped \cup Named(failed)
      BY <1>8, <2>3 DEF Saved
    <3>2. ASSUME NEW f \in unsaved' PROVE f \in Fields /\ Held(f)'
      BY <3>1, <2>1, KeptLoop DEF Named
    <3> QED
      BY <3>1, <3>2, KeptLoop
  <2> QED
    BY <2>2, <2>3
<1>9. CASE Refreshed
  <2>1. /\ phase = "refreshing" /\ UNCHANGED unsaved
        /\ Loop(pending, Nothing) /\ dropped' = dropped \cup Named(failed)
    BY <1>9 DEF Refreshed
  <2>2. ASSUME NEW f \in unsaved' PROVE f \in Fields /\ Held(f)'
    BY <2>1, KeptLoop DEF Named
  <2> QED
    BY <2>1, <2>2, KeptLoop
<1>10. CASE Rejected \/ Fail
  <2>1. /\ failed' = job /\ dropped' = dropped \cup Named(failed)
        /\ status' \in {"conflict", "error"} /\ UNCHANGED <<pending, unsaved>>
    BY <1>10 DEF Rejected, Fail, Caught
  <2> QED
    BY <2>1 DEF Named
<1>11. CASE Reload
  BY <1>11 DEF Reload
<1>12. CASE Enrich
  BY <1>12 DEF Enrich
<1>13. CASE UNCHANGED vars
  BY <1>13 DEF vars, page
<1> QED
  BY <1>1, <1>2, <1>3, <1>4, <1>5, <1>6, <1>7, <1>8, <1>9, <1>10, <1>11, <1>12, <1>13 DEF Next

(* When the page says "saved", only changes are missing that were in         *)
(* failedJob when it was overwritten, for any failures and conflicts.        *)
THEOREM LossIsDropping == Spec => []OnlyDroppedIsLost
<1>1. Init => Types /\ Newest /\ Kept
  BY PatchType DEF Init, Types, Newest, Nothing, Kept
<1>2. Kept => OnlyDroppedIsLost
  BY DEF Kept, Held, OnlyDroppedIsLost, Nothing
<1> QED
  BY TypesStep, NewestStep, KeptStep, <1>1, <1>2, PTL DEF Spec

-----------------------------------------------------------------------------
(* While nobody else has changed the row since the version the page knows,   *)
(* the page has received every stored value; so it has once an answer that   *)
(* is still current is delivered.  A request that is sent changes something. *)
Received ==
  /\ phase \notin {"loading", "refreshing"}
  /\ known = {} => base = row
  /\ phase = "applied" /\ reply = {} => row = Over(answer, base)
  /\ phase \in {"sent", "committed"} => Named(job) # {}

(* A page of which the person may edit only one kind of fields, none of them *)
(* the geometry, and whose first version belongs to its data                 *)
SimplePage == ~Loads /\ Geometry = {} /\ Public \in {Fields, {}}

(* On it the loop of flush sends requests that change something. *)
LEMMA SimpleLoop ==
  ASSUME SimplePage, NEW p \in Patch, NEW j \in Patch, Loop(p, j)
  PROVE  /\ phase' \in {"idle", "sent"}
         /\ phase' = "sent" => Named(job)' # {}
BY DEF SimplePage, Loop, Continues, Taken, Only, Named, Nothing, Patch

(* Every action keeps Received when the page never fetches its version alone. *)
LEMMA ReceivedStep ==
  ASSUME SimplePage
  PROVE  Types /\ Received /\ [Next]_vars => Received'
<1> SUFFICES ASSUME Types, Received, [Next]_vars PROVE Received'
  OBVIOUS
<1> USE PatchType DEF Types, Received, SimplePage
<1>1. ASSUME NEW f \in Fields, NEW v \in Values, Edit(f, v) PROVE Received'
  BY <1>1 DEF Edit, server, Named
<1>2. ASSUME NEW f \in Fields, NEW v \in Values, OtherEdits(f, v) PROVE Received'
  BY <1>2 DEF OtherEdits, Changed, Named
<1>3. CASE Mount
  BY <1>3 DEF Mount
<1>4. CASE Fire
  <2>1. CASE phase = "idle"
    BY <1>4, <2>1, SimpleLoop DEF Fire, server
  <2>2. CASE phase # "idle"
    BY <1>4, <2>2 DEF Fire, server, Named
  <2> QED
    BY <2>1, <2>2
<1>5. CASE Retry
  BY <1>5, SimpleLoop DEF Retry, Retried, server
<1>6. CASE Update
  <2>1. CASE SameVersion(known)
    BY <1>6, <2>1 DEF Update, Named
  <2>2. CASE ~SameVersion(known)
    BY <1>6, <2>2 DEF Update, Named
  <2> QED
    BY <2>1, <2>2
<1>13. CASE Reread
  <2>1. /\ phase = "committed" /\ phase' = "applied" /\ job' = job
        /\ answer' = Only(row, Kind(job))
        /\ UNCHANGED <<row, base, known>>
    BY <1>13 DEF Reread, server
  <2>2. Kind(job) = Fields
    BY <2>1 DEF Kind, Named
  <2>3. Over(Only(row, Fields), base) = row
    BY UnsetAssumption DEF Over, Only
  <2> QED
    BY <2>1, <2>2, <2>3
<1>7. CASE Saved
  <2>1. Loop(pending, Nothing)
    BY <1>7 DEF Saved
  <2>2. /\ known' = reply /\ base' = Over(answer, base) /\ row' = row /\ phase = "applied"
    BY <1>7 DEF Saved, server
  <2> QED
    BY <2>1, <2>2, SimpleLoop
<1>8. CASE Refreshed
  BY <1>8 DEF Refreshed
<1>9. CASE Rejected \/ Fail
  BY <1>9 DEF Rejected, Fail, Caught, server, Named, Nothing
<1>10. CASE Reload
  BY <1>10 DEF Reload, server, Named
<1>11. CASE Enrich
  BY <1>11 DEF Enrich, Changed, Named
<1>12. CASE UNCHANGED vars
  BY <1>12 DEF vars, server, page, Named
<1> QED
  BY <1>1, <1>2, <1>3, <1>4, <1>5, <1>6, <1>7, <1>8, <1>9, <1>10, <1>11, <1>12, <1>13 DEF Next

(* On a page that takes no version without its data (SimplePage) the version *)
(* check of the update endpoints keeps every save from overwriting a value   *)
(* the person has not been shown, with any number of other editors.          *)
THEOREM NoLostUpdate ==
  ASSUME SimplePage
  PROVE  Spec => NoUnseenOverwrite
<1>1. Init => Types /\ Received
  BY PatchType DEF SimplePage, Init, Types, Received, Named, Nothing, Patch
<1>2. Types /\ Received /\ [Next]_vars =>
        [phase = "sent" /\ phase' = "committed" =>
           \A f \in Fields : row'[f] # row[f] => row[f] = base[f]]_vars
  <2> SUFFICES ASSUME Types, Received, Next, phase = "sent", phase' = "committed"
               PROVE  known = {}
    BY DEF Received, vars
  <2>1. ASSUME NEW f \in Fields, NEW v \in Values, Edit(f, v) \/ OtherEdits(f, v) PROVE FALSE
    BY <2>1 DEF Edit, OtherEdits
  <2>2. CASE Update
    BY <2>2 DEF Update, SameVersion
  <2>3. CASE Mount \/ Fire \/ Retry \/ Reread \/ Saved \/ Refreshed \/ Rejected
               \/ Fail \/ Reload \/ Enrich
    BY <2>3 DEF Mount, Fire, Retry, Loop, Reread, Saved, Refreshed, Rejected, Fail, Caught, Reload, Enrich
  <2> QED
    BY <2>1, <2>2, <2>3 DEF Next
<1> QED
  BY TypesStep, ReceivedStep, <1>1, <1>2, PTL DEF Spec, NoUnseenOverwrite

-----------------------------------------------------------------------------
(* The page takes no edit before it has a version, so that nothing waits when *)
(* Mount makes it idle.                                                       *)
Attended == NeverStranded /\ (phase = "loading" => pending = Nothing)

(* The loop of flush sends what waits, or ends with nothing waiting. *)
LEMMA LoopSends ==
  ASSUME NEW p, NEW j, Loop(p, j)
  PROVE  phase' = "sent" \/ (phase' = "idle" /\ pending' = Nothing)
BY DEF Loop, Continues

(* Every action keeps Attended; the catch branch of flush does because it has *)
(* a request's changes to offer for the retry.                                *)
LEMMA AttendedStep == Types /\ OneRequest /\ Attended /\ [Next]_vars => Attended'
<1> SUFFICES ASSUME Types, OneRequest, Attended, [Next]_vars PROVE Attended'
  OBVIOUS
<1> USE DEF Attended, NeverStranded
<1>1. ASSUME NEW f \in Fields, NEW v \in Values, Edit(f, v) PROVE Attended'
  BY <1>1 DEF Edit
<1>2. ASSUME NEW f \in Fields, NEW v \in Values, OtherEdits(f, v) PROVE Attended'
  BY <1>2 DEF OtherEdits
<1>3. CASE Mount
  BY <1>3 DEF Mount
<1>4. CASE Fire
  <2>1. CASE phase = "idle"
    BY <1>4, <2>1, LoopSends DEF Fire
  <2>2. CASE phase # "idle"
    BY <1>4, <2>2 DEF Fire
  <2> QED
    BY <2>1, <2>2
<1>5. CASE Retry
  BY <1>5, LoopSends DEF Retry
<1>6. CASE Update \/ Reread
  BY <1>6 DEF Update, Reread
<1>7. CASE Saved
  <2>1. CASE Named(job) \cap Geometry # {}
    BY <1>7, <2>1 DEF Saved
  <2>2. CASE Named(job) \cap Geometry = {}
    BY <1>7, <2>2, LoopSends DEF Saved
  <2> QED
    BY <2>1, <2>2
<1>8. CASE Refreshed
  BY <1>8, LoopSends DEF Refreshed
<1>9. CASE Rejected \/ Fail
  <2>1. /\ phase \notin {"loading", "idle"} /\ failed' = job
        /\ phase' = "idle" /\ status' \in {"conflict", "error"}
    BY <1>9 DEF Rejected, Fail, Caught
  <2>2. failed' # Nothing
    BY <2>1 DEF OneRequest
  <2> QED
    BY <2>1, <2>2 DEF Nothing
<1>10. CASE Reload
  BY <1>10 DEF Reload, Nothing
<1>11. CASE Enrich
  BY <1>11 DEF Enrich
<1>12. CASE UNCHANGED vars
  BY <1>12 DEF vars, page
<1> QED
  BY <1>1, <1>2, <1>3, <1>4, <1>5, <1>6, <1>7, <1>8, <1>9, <1>10, <1>11, <1>12 DEF Next

(* The page never stops with changes nobody will send: a failure always       *)
(* leaves a request's changes for the retry button to show.                   *)
THEOREM NobodyIsStranded == Spec => []NeverStranded
<1>1. Init => Types /\ OneRequest /\ Attended
  BY PatchType, BoundAssumption DEF Init, Types, OneRequest, Named, Nothing, Attended, NeverStranded
<1>2. Attended => NeverStranded
  BY DEF Attended
<1> QED
  BY TypesStep, OneRequestStep, AttendedStep, <1>1, <1>2, PTL DEF Spec
=============================================================================
