---------------------------- MODULE ResponseCache ----------------------------
(***************************************************************************)
(* Public answers kept in Redis (backend/app/cache/service.py) under keys  *)
(* that carry a version of the database (services/cache_versions.py).  A   *)
(* mutation raises the version in its own transaction, so no key has to be *)
(* deleted; a process remembers a version for five seconds.  One answer is *)
(* modelled, so a key is a version.  Every call of Redis may fail: a read  *)
(* that fails is a miss, a lock that fails is not acquired.                *)
(***************************************************************************)
EXTENDS Naturals, FiniteSets

CONSTANTS Processes, Requests, Mutations, None

VARIABLES
  payload,  \* "json" (get_or_compute) or "bytes" (get_or_compute_bytes)
  version,  \* cache_versions.version, 1 where there is no row
  rows,     \* the mutations whose rows are committed
  born,     \* the mutations that raised the version to each version
  memo,     \* _local_versions of each process, 0 where it has none
  entry,    \* what the answer kept under each key shows, None where there is none
  lock,     \* the request whose token stands under lock:<key>
  local,    \* _local_locks: the asyncio.Lock of each key, a name that tells it from its predecessors
  mut,      \* where each mutation stands
  get       \* the requests

vars == <<payload, version, rows, born, memo, entry, lock, local, mut, get>>

Versions == 1 .. Cardinality(Mutations) + 1
Idle     == [at |-> "idle", in |-> None, v |-> 1, through |-> None, holds |-> FALSE, answer |-> {}]

(* A request's asyncio.Lock, and whoever is inside it *)
Uses(r, p, v, l) == /\ get[r].in = p /\ get[r].v = v /\ get[r].through = l
Inner == {"inside", "waiting", "computing", "storing", "releasing"}
NewLock(p, v) == CHOOSE l \in Requests : \A q \in Requests : ~Uses(q, p, v, l)

-----------------------------------------------------------------------------
(* Mutants.  Published: the version is raised in a transaction of its own,   *)
(* before the mutation's.  Free: a lock that others want is not given away.  *)
PublishedEarly(at) == at = "writing"
FreeOfAll(r) == \A q \in Requests \ {r} : ~Uses(q, get[r].in, get[r].v, get[r].through)

(* The version is raised when the mutation's transaction ends. *)
Published(at) == at = "bumped"

(* Nobody is inside the request's lock. *)
Free(r) == \A q \in Requests : Uses(q, get[r].in, get[r].v, get[r].through) => get[q].at \notin Inner

(* The compare-and-delete of the release *)
Mine(r, v) == lock[v] = r

Init ==
  /\ payload \in {"json", "bytes"} /\ version = 1 /\ rows = {}
  /\ born = [v \in Versions |-> {}]
  /\ memo = [p \in Processes |-> 0]
  /\ entry = [v \in Versions |-> None] /\ lock = [v \in Versions |-> None]
  /\ local = [p \in Processes |-> [v \in Versions |-> None]]
  /\ mut = [m \in Mutations |-> "idle"]
  /\ get = [r \in Requests |-> Idle]

-----------------------------------------------------------------------------
(* A mutation writes its rows; bump_cache_versions then raises the version,  *)
(* which locks its row for other mutations, and forgets the process's memo.  *)
Write(m) ==
  /\ mut[m] = "idle"
  /\ mut' = [mut EXCEPT ![m] = "writing"]
  /\ UNCHANGED <<payload, version, rows, born, memo, entry, lock, local, get>>

Raise(m) ==
  IF Published(mut[m]) THEN /\ version' = version + 1
                            /\ born' = [born EXCEPT ![version + 1] = born[version] \cup {m}]
                       ELSE UNCHANGED <<version, born>>

Bump(m) ==
  /\ mut[m] = "writing" /\ \A n \in Mutations : mut[n] # "bumped"
  /\ mut' = [mut EXCEPT ![m] = "bumped"] /\ rows' = rows /\ Raise(m)
  /\ \E p \in Processes \cup {None} : memo' = [q \in Processes |-> IF q = p THEN 0 ELSE memo[q]]
  /\ UNCHANGED <<payload, entry, lock, local, get>>

Commit(m) ==
  /\ mut[m] = "bumped"
  /\ mut' = [mut EXCEPT ![m] = "done"] /\ rows' = rows \cup {m} /\ Raise(m)
  /\ UNCHANGED <<payload, memo, entry, lock, local, get>>

(* Five seconds pass, the lifetime of an entry or of a lock ends, or somebody clears *)
(* the cache by pattern; entries are also dropped for want of memory.                *)
Forget == \E p \in Processes :
  /\ memo[p] # 0 /\ memo' = [memo EXCEPT ![p] = 0]
  /\ UNCHANGED <<payload, version, rows, born, entry, lock, local, mut, get>>
Evict == \E v \in Versions :
  /\ entry[v] # None /\ entry' = [entry EXCEPT ![v] = None]
  /\ UNCHANGED <<payload, version, rows, born, memo, lock, local, mut, get>>
Expire == \E v \in Versions :
  /\ lock[v] # None /\ lock' = [lock EXCEPT ![v] = None]
  /\ UNCHANGED <<payload, version, rows, born, memo, entry, local, mut, get>>

-----------------------------------------------------------------------------
Goes(r, place) == get' = [get EXCEPT ![r].at = place]
Answer(r)      == get' = [get EXCEPT ![r] = Idle]

(* _local_locks.pop: the waiters keep the lock they have, those to come make another. *)
Pop(r, when) ==
  local' = IF when THEN [local EXCEPT ![get[r].in][get[r].v] = None] ELSE local

(* cache_version: the memo, or the committed version, which becomes the memo *)
Ask(r, p) ==
  /\ get[r].at = "idle"
  /\ LET v == IF memo[p] # 0 THEN memo[p] ELSE version
     IN  /\ memo' = [memo EXCEPT ![p] = v]
         /\ get' = [get EXCEPT ![r] = [Idle EXCEPT !.at = "first", !.in = p, !.v = v]]
  /\ UNCHANGED <<payload, version, rows, born, entry, lock, local, mut>>

(* The first look, outside the lock; a miss joins the key's lock or makes it. *)
Look(r) ==
  /\ get[r].at = "first"
  /\ \/ /\ entry[get[r].v] # None /\ Answer(r) /\ UNCHANGED local
     \/ LET have == local[get[r].in][get[r].v]
            mine == IF have = None THEN NewLock(get[r].in, get[r].v) ELSE have
        IN  /\ local' = [local EXCEPT ![get[r].in][get[r].v] = mine]
            /\ get' = [get EXCEPT ![r].at = "queued", ![r].through = mine]
  /\ UNCHANGED <<payload, version, rows, born, memo, entry, lock, mut>>

Enter(r) ==
  /\ get[r].at = "queued" /\ Free(r) /\ Goes(r, "inside")
  /\ UNCHANGED <<payload, version, rows, born, memo, entry, lock, local, mut>>

(* The second look, and SET lock NX with its lifetime *)
Inside(r) ==
  /\ get[r].at = "inside"
  /\ \/ /\ entry[get[r].v] # None /\ Answer(r)
        /\ Pop(r, payload = "bytes") /\ UNCHANGED lock
     \/ /\ lock[get[r].v] = None /\ lock' = [lock EXCEPT ![get[r].v] = r]
        /\ get' = [get EXCEPT ![r] = [@ EXCEPT !.at = "computing", !.holds = TRUE]]
        /\ UNCHANGED local
     \/ Goes(r, "waiting") /\ UNCHANGED <<lock, local>>
  /\ UNCHANGED <<payload, version, rows, born, memo, entry, mut>>

(* Somebody else computes: look again now and then until the deadline. *)
Wait(r) ==
  /\ get[r].at = "waiting"
  /\ \/ /\ entry[get[r].v] # None /\ Answer(r) /\ Pop(r, payload = "bytes")
     \/ Goes(r, "computing") /\ UNCHANGED local
  /\ UNCHANGED <<payload, version, rows, born, memo, entry, lock, mut>>

(* compute, of the objects in a viewport: one statement reads the committed rows, filters *)
(* and limits choose among them; or it raises: the lock of Redis stays until its end.     *)
Compute(r) ==
  /\ get[r].at = "computing"
  /\ \/ /\ get' = [get EXCEPT ![r] = [@ EXCEPT !.at = "storing", !.answer = rows]] /\ UNCHANGED local
     \/ Answer(r) /\ Pop(r, payload = "bytes")
  /\ UNCHANGED <<payload, version, rows, born, memo, entry, lock, mut>>

Store(r) ==
  /\ get[r].at = "storing"
  /\ get' = [get EXCEPT ![r] = [@ EXCEPT !.at = "releasing", !.answer = {}]]
  /\ entry' \in {entry, [entry EXCEPT ![get[r].v] = get[r].answer]}
  /\ UNCHANGED <<payload, version, rows, born, memo, lock, local, mut>>

Release(r) ==
  /\ get[r].at = "releasing" /\ Answer(r) /\ Pop(r, TRUE)
  /\ lock' \in {lock, IF get[r].holds /\ Mine(r, get[r].v) THEN [lock EXCEPT ![get[r].v] = None] ELSE lock}
  /\ UNCHANGED <<payload, version, rows, born, memo, entry, mut>>

(* get_or_compute, get_or_compute_bytes *)
GetOrCompute(r) ==
  Look(r) \/ Enter(r) \/ Inside(r) \/ Wait(r) \/ Compute(r) \/ Store(r) \/ Release(r)

Next ==
  \/ \E m \in Mutations : Write(m) \/ Bump(m) \/ Commit(m)
  \/ Forget \/ Evict \/ Expire
  \/ \E r \in Requests : GetOrCompute(r) \/ \E p \in Processes : Ask(r, p)

(* asyncio.Lock is handed to whoever waits longest. *)
Fairness == \A r \in Requests : WF_vars(GetOrCompute(r)) /\ SF_vars(Enter(r))

-----------------------------------------------------------------------------
TypeOK ==
  /\ version \in Versions /\ rows \subseteq Mutations /\ memo \in [Processes -> 0 .. version]
  /\ born \in [Versions -> SUBSET Mutations]
  /\ entry \in [Versions -> (SUBSET rows) \cup {None}] /\ lock \in [Versions -> Requests \cup {None}]
  /\ \A r \in Requests : get[r].v \in 1 .. version /\ get[r].answer \subseteq rows

(* What is kept under a version shows every mutation that version stands     *)
(* for, and so does every answer, whatever was remembered, overtaken or      *)
(* computed twice: only a version remembered too long can hide a mutation.   *)
KeptIsCurrent ==
  /\ \A v \in Versions : entry[v] # None => born[v] \subseteq entry[v]
  /\ \A r \in Requests : get[r].at = "storing" => born[get[r].v] \subseteq get[r].answer

(* Every request is answered or fails, again and again. *)
Answered == \A r \in Requests : []<>(get[r].at = "idle")
=============================================================================
