----------------------------- MODULE PageProofs -----------------------------
(***************************************************************************)
(* What a visitor's page and the answers it gets keep, for any number of   *)
(* processes, requests, calls, sessions, notifications, forms, versions    *)
(* and queries.  The parts of Portal share no state but where a polygon    *)
(* was changed: each has an inductive invariant of its own, shown here for *)
(* its own steps; PortalProofs has those of the data behind the page, and  *)
(* puts them together.                                                     *)
(***************************************************************************)
EXTENDS Portal, FiniteSetTheorems, SequenceTheorems, TLAPS

-----------------------------------------------------------------------------
(* ResponseCache.  A version stands for mutations that have committed, nobody has one *)
(* that is still to come, and an answer shows what its version stands for.            *)
Ended     == {m \in Mutations : mut[m] = "done"}
GetFields == {"at", "in", "v", "through", "holds", "answer"}

(* A version for every mutation that has committed; its number says how many *)
CacheVersions ==
  /\ mut \in [Mutations -> {"idle", "writing", "bumped", "done"}]
  /\ version = Cardinality(Ended) + 1 /\ version \in C!Versions

(* What a version stands for is committed. *)
CacheBorn ==
  /\ rows \subseteq Mutations
  /\ born \in [C!Versions -> SUBSET Mutations] /\ \A v \in C!Versions : born[v] \subseteq rows

(* Nobody has a version that is still to come. *)
CacheMemo == memo \in [Processes -> Nat] /\ \A p \in Processes : memo[p] <= version

CacheEntries ==
  /\ DOMAIN entry = C!Versions /\ entry = [v \in C!Versions |-> entry[v]]
  /\ \A v \in C!Versions : /\ v > version => entry[v] = None
                           /\ entry[v] # None => born[v] \subseteq entry[v] /\ entry[v] \subseteq rows

CacheGets ==
  /\ DOMAIN get = Requests
  /\ \A r \in Requests :
       /\ DOMAIN get[r] = GetFields
       /\ get[r].v \in C!Versions /\ get[r].v <= version /\ get[r].answer \subseteq rows
       /\ get[r].at = "storing" => born[get[r].v] \subseteq get[r].answer

CacheLocks == lock \in [C!Versions -> Requests \cup {None}]

CacheInv == CacheVersions /\ CacheBorn /\ CacheMemo /\ CacheEntries /\ CacheGets /\ CacheLocks

(* Versions are numbers from 1 on. *)
LEMMA CacheNumbers ==
  /\ Cardinality(Mutations) \in Nat /\ C!Versions = 1 .. Cardinality(Mutations) + 1
  /\ C!Versions \subseteq Nat /\ 1 \in C!Versions /\ \A v \in C!Versions : v >= 1
  <1>1. Cardinality(Mutations) \in Nat BY FS_CardinalityType, CountAssumption
  <1>2. C!Cardinality(Mutations) = Cardinality(Mutations) BY Zenon DEF C!Cardinality, Cardinality
  <1>3. C!Versions = 1 .. Cardinality(Mutations) + 1 BY <1>2 DEF C!Versions
  <1> QED BY <1>1, <1>3

(* Steps that leave the versions, their meaning and the memos alone: what they do to *)
(* entries and requests decides.                                                     *)
LEMMA CacheKeeps ==
  ASSUME CacheInv, UNCHANGED <<version, mut, born, rows, memo>>
  PROVE  CacheVersions' /\ CacheBorn' /\ CacheMemo'
  BY DEF CacheInv, CacheVersions, CacheBorn, CacheMemo, Ended

(* A request that moves on without a new answer, or forgets everything *)
LEMMA CacheMoves ==
  ASSUME CacheInv, NEW r \in Requests, UNCHANGED <<version, born, rows>>,
         DOMAIN get' = Requests, \A q \in Requests \ {r} : get'[q] = get[q],
         DOMAIN get'[r] = GetFields, get'[r].v \in {1, get[r].v}, get'[r].at # "storing",
         get'[r].answer \subseteq get[r].answer
  PROVE  CacheGets'
  <1>1. \A q \in Requests : /\ DOMAIN get'[q] = GetFields
                            /\ get'[q].v \in C!Versions /\ get'[q].v <= version /\ get'[q].answer \subseteq rows
                            /\ get'[q].at = "storing" => born[get'[q].v] \subseteq get'[q].answer
    <2> SUFFICES ASSUME NEW q \in Requests
                 PROVE  /\ DOMAIN get'[q] = GetFields
                        /\ get'[q].v \in C!Versions /\ get'[q].v <= version /\ get'[q].answer \subseteq rows
                        /\ get'[q].at = "storing" => born[get'[q].v] \subseteq get'[q].answer
      OBVIOUS
    <2>1. CASE q # r BY <2>1 DEF CacheInv, CacheGets
    <2>2. CASE q = r BY <2>2, CacheNumbers DEF CacheInv, CacheGets, CacheVersions
    <2> QED BY <2>1, <2>2
  <1> QED BY <1>1 DEF CacheGets

(* At the start there is one version, which stands for nothing. *)
LEMMA CacheInit == ASSUME C!Init PROVE CacheInv
  <1>1. Ended = {} BY DEF C!Init, Ended
  <1>2. Cardinality(Ended) = 0 BY <1>1, FS_EmptySet
  <1>3. CacheVersions BY <1>2, CacheNumbers DEF C!Init, CacheVersions
  <1>4. CacheBorn /\ CacheMemo BY DEF C!Init, CacheBorn, CacheMemo
  <1>5. CacheEntries BY DEF C!Init, CacheEntries
  <1>6. CacheGets BY CacheNumbers DEF C!Init, CacheGets, C!Idle, GetFields
  <1>7. CacheLocks BY DEF C!Init, CacheLocks
  <1> QED BY <1>3, <1>4, <1>5, <1>6, <1>7 DEF CacheInv

(* The commit raises the version: nobody has the new one yet. *)
LEMMA CacheCommit ==
  ASSUME CacheInv, NEW m \in Mutations, C!Commit(m)
  PROVE  CacheInv'
  <1> USE CacheNumbers
  <1>1. /\ version' = version + 1 /\ rows' = rows \cup {m}
        /\ born' = [born EXCEPT ![version + 1] = born[version] \cup {m}]
    BY DEF C!Commit, C!Raise, C!Published
  <1>2. Ended' = Ended \cup {m} /\ m \notin Ended /\ Ended \cup {m} \subseteq Mutations
    BY DEF C!Commit, CacheInv, CacheVersions, Ended
  <1>3. IsFiniteSet(Ended) /\ IsFiniteSet(Ended \cup {m})
    BY <1>2, FS_Subset, CountAssumption
  <1>4. Cardinality(Ended') = Cardinality(Ended) + 1 /\ Cardinality(Ended') <= Cardinality(Mutations)
    BY <1>2, <1>3, FS_AddElement, FS_Subset, CountAssumption
  <1>5. version \in Nat /\ version \in C!Versions /\ version' \in C!Versions
    <2>1. version \in C!Versions /\ version = Cardinality(Ended) + 1 BY DEF CacheInv, CacheVersions
    <2>2. Cardinality(Ended) \in Nat BY <1>3, FS_CardinalityType
    <2> QED BY <2>1, <2>2, <1>1, <1>4
  <1>6. CacheVersions'
    <2>1. mut' \in [Mutations -> {"idle", "writing", "bumped", "done"}]
      BY DEF C!Commit, CacheInv, CacheVersions
    <2>2. version' = Cardinality(Ended') + 1
      BY <1>1, <1>4 DEF CacheInv, CacheVersions
    <2> QED BY <2>1, <2>2, <1>5 DEF CacheVersions
  <1>7. CacheBorn'
    BY <1>1, <1>5 DEF CacheInv, CacheBorn
  <1>8. CacheMemo'
    BY <1>1, <1>5 DEF C!Commit, CacheInv, CacheMemo
  <1>9. \A v \in C!Versions : v <= version => born'[v] = born[v]
    BY <1>1, <1>5 DEF CacheInv, CacheBorn
  <1>10. CacheEntries'
    BY <1>1, <1>5, <1>9 DEF C!Commit, CacheInv, CacheEntries
  <1>11. CacheGets'
    BY <1>1, <1>5, <1>9 DEF C!Commit, CacheInv, CacheGets
  <1>12. CacheLocks' BY DEF C!Commit, CacheInv, CacheLocks
  <1> QED BY <1>6, <1>7, <1>8, <1>10, <1>11, <1>12 DEF CacheInv

(* The other steps of a mutation, and what time does to memos, entries and locks *)
LEMMA CacheOthers ==
  ASSUME CacheInv,
         (\E m \in Mutations : C!Write(m) \/ C!Bump(m)) \/ C!Forget \/ C!Evict \/ C!Expire
  PROVE  CacheInv'
  <1> USE CacheNumbers
  <1>1. ASSUME NEW m \in Mutations, C!Write(m) \/ C!Bump(m) PROVE CacheInv'
    <2>1. /\ UNCHANGED <<version, born, rows, entry, get>>
          /\ mut[m] # "done" /\ Ended' = Ended
          /\ mut' \in [Mutations -> {"idle", "writing", "bumped", "done"}]
      BY <1>1 DEF C!Write, C!Bump, C!Raise, C!Published, CacheInv, CacheVersions, Ended
    <2>2. memo' = memo \/ \E p \in Processes \cup {None} : memo' = [q \in Processes |-> IF q = p THEN 0 ELSE memo[q]]
      BY <1>1 DEF C!Write, C!Bump
    <2>3. version \in Nat BY DEF CacheInv, CacheVersions
    <2>4. CacheMemo' BY <2>1, <2>2, <2>3 DEF CacheInv, CacheMemo
    <2>5. CacheLocks' BY <1>1 DEF C!Write, C!Bump, CacheInv, CacheLocks
    <2> QED BY <2>1, <2>4, <2>5 DEF CacheInv, CacheVersions, CacheBorn, CacheEntries, CacheGets
  <1>2. CASE C!Forget
    <2>1. version \in Nat BY DEF CacheInv, CacheVersions
    <2>2. CacheMemo' BY <1>2, <2>1 DEF C!Forget, CacheInv, CacheMemo
    <2> QED BY <1>2, <2>2 DEF C!Forget, CacheInv, CacheVersions, CacheBorn, CacheEntries, CacheGets, CacheLocks, Ended
  <1>3. CASE C!Evict
    <2>1. CacheEntries' BY <1>3 DEF C!Evict, CacheInv, CacheEntries
    <2> QED BY <1>3, <2>1, CacheKeeps DEF C!Evict, CacheInv, CacheGets, CacheLocks
  <1>4. CASE C!Expire
    <2>1. CacheLocks' BY <1>4 DEF C!Expire, CacheInv, CacheLocks
    <2> QED BY <1>4, <2>1, CacheKeeps DEF C!Expire, CacheInv, CacheGets, CacheEntries
  <1> QED BY <1>1, <1>2, <1>3, <1>4

(* A request begins with the committed version, or one that was. *)
LEMMA CacheAsk ==
  ASSUME CacheInv, NEW r \in Requests, NEW p \in Processes, C!Ask(r, p)
  PROVE  CacheInv'
  <1> USE CacheNumbers
  <1> DEFINE w == IF memo[p] # 0 THEN memo[p] ELSE version
  <1>1. w \in C!Versions /\ w <= version /\ version \in Nat
    BY DEF CacheInv, CacheVersions, CacheMemo
  <1>2. /\ memo' = [memo EXCEPT ![p] = w]
        /\ get' = [get EXCEPT ![r] = [C!Idle EXCEPT !.at = "first", !.in = p, !.v = w]]
        /\ UNCHANGED <<version, born, rows, entry, mut>>
    BY DEF C!Ask
  <1> HIDE DEF w
  <1>3. CacheMemo' BY <1>1, <1>2 DEF CacheInv, CacheMemo
  <1>4. CacheGets'
    <2>1. UNCHANGED rows BY DEF C!Ask
    <2> QED BY <1>1, <1>2, <2>1 DEF CacheInv, CacheGets, C!Idle, GetFields
  <1>5. CacheLocks' BY DEF C!Ask, CacheInv, CacheLocks
  <1>6. UNCHANGED rows BY DEF C!Ask
  <1> QED BY <1>2, <1>3, <1>4, <1>5, <1>6 DEF CacheInv, CacheVersions, CacheBorn, CacheEntries, Ended

(* Looking, waiting, entering and releasing change nothing that is kept. *)
LEMMA CacheWaits ==
  ASSUME CacheInv, NEW r \in Requests,
         C!Look(r) \/ C!Enter(r) \/ C!Inside(r) \/ C!Wait(r) \/ C!Release(r)
  PROVE  CacheInv'
  <1>1. UNCHANGED <<version, mut, born, rows, memo, entry>>
    BY DEF C!Look, C!Enter, C!Inside, C!Wait, C!Release
  <1>2. DOMAIN get = Requests /\ DOMAIN get[r] = GetFields BY DEF CacheInv, CacheGets
  <1>3. /\ DOMAIN get' = Requests /\ \A q \in Requests \ {r} : get'[q] = get[q]
        /\ DOMAIN get'[r] = GetFields /\ get'[r].v \in {1, get[r].v} /\ get'[r].at # "storing"
        /\ get'[r].answer \subseteq get[r].answer
    <2>1. CASE C!Answer(r)
      BY <2>1, <1>2 DEF C!Answer, C!Idle, GetFields
    <2>2. CASE \E place \in {"inside", "waiting", "computing"} : C!Goes(r, place)
      BY <2>2, <1>2 DEF C!Goes, GetFields
    <2>3. ASSUME NEW l, get' = [get EXCEPT ![r].at = "queued", ![r].through = l]
          PROVE  /\ DOMAIN get' = Requests /\ \A q \in Requests \ {r} : get'[q] = get[q]
                 /\ DOMAIN get'[r] = GetFields /\ get'[r].v \in {1, get[r].v} /\ get'[r].at # "storing"
                 /\ get'[r].answer \subseteq get[r].answer
      BY <2>3, <1>2 DEF GetFields
    <2>4. CASE get' = [get EXCEPT ![r] = [@ EXCEPT !.at = "computing", !.holds = TRUE]]
      BY <2>4, <1>2 DEF GetFields
    <2>5. CASE C!Look(r) BY <2>5, <2>1, <2>3 DEF C!Look
    <2>6. CASE C!Enter(r) BY <2>6, <2>2 DEF C!Enter
    <2>7. CASE C!Inside(r) BY <2>7, <2>1, <2>2, <2>4 DEF C!Inside
    <2>8. CASE C!Wait(r) BY <2>8, <2>1, <2>2 DEF C!Wait
    <2>9. CASE C!Release(r) BY <2>9, <2>1 DEF C!Release
    <2> QED BY <2>5, <2>6, <2>7, <2>8, <2>9
  <1>4. CacheGets' BY <1>1, <1>3, CacheMoves
  <1>5. CacheLocks'
    <2>1. lock \in [C!Versions -> Requests \cup {None}] BY DEF CacheInv, CacheLocks
    <2>2. CASE UNCHANGED lock BY <2>1, <2>2 DEF CacheLocks
    <2>3. CASE \E v \in C!Versions, o \in Requests \cup {None} : lock' = [lock EXCEPT ![v] = o]
      BY <2>1, <2>3 DEF CacheLocks
    <2>4. get[r].v \in C!Versions BY DEF CacheInv, CacheGets
    <2> QED BY <2>2, <2>3, <2>4 DEF C!Look, C!Enter, C!Inside, C!Wait, C!Release
  <1> QED BY <1>1, <1>4, <1>5, CacheKeeps DEF CacheInv, CacheEntries

(* What is computed shows every committed mutation. *)
LEMMA CacheCompute ==
  ASSUME CacheInv, NEW r \in Requests, C!Compute(r)
  PROVE  CacheInv'
  <1>1. UNCHANGED <<version, mut, born, rows, memo, entry>> BY DEF C!Compute
  <1>2. DOMAIN get = Requests /\ DOMAIN get[r] = GetFields BY DEF CacheInv, CacheGets
  <1>3. CacheGets'
    <2>1. CASE get' = [get EXCEPT ![r] = [@ EXCEPT !.at = "storing", !.answer = rows]]
      <3>1. /\ DOMAIN get' = Requests /\ \A q \in Requests \ {r} : get'[q] = get[q]
            /\ DOMAIN get'[r] = GetFields /\ get'[r].v = get[r].v /\ get'[r].answer = rows
        BY <2>1, <1>2 DEF GetFields
      <3> QED BY <3>1, <1>1 DEF CacheInv, CacheGets, CacheBorn
    <2>2. CASE C!Answer(r)
      <3>1. /\ DOMAIN get' = Requests /\ \A q \in Requests \ {r} : get'[q] = get[q]
            /\ DOMAIN get'[r] = GetFields /\ get'[r].v = 1 /\ get'[r].at # "storing"
            /\ get'[r].answer \subseteq get[r].answer
        BY <2>2, <1>2 DEF C!Answer, C!Idle, GetFields
      <3> QED BY <3>1, <1>1, CacheMoves
    <2> QED BY <2>1, <2>2 DEF C!Compute
  <1>4. CacheLocks' BY DEF C!Compute, CacheInv, CacheLocks
  <1> QED BY <1>1, <1>3, <1>4, CacheKeeps DEF CacheInv, CacheEntries

(* What is stored under a version was computed for it. *)
LEMMA CacheStore ==
  ASSUME CacheInv, NEW r \in Requests, C!Store(r)
  PROVE  CacheInv'
  <1>1. UNCHANGED <<version, mut, born, rows, memo>> BY DEF C!Store
  <1>2. DOMAIN get = Requests /\ DOMAIN get[r] = GetFields BY DEF CacheInv, CacheGets
  <1>3. /\ DOMAIN get' = Requests /\ \A q \in Requests \ {r} : get'[q] = get[q]
        /\ DOMAIN get'[r] = GetFields /\ get'[r].v = get[r].v /\ get'[r].at # "storing"
        /\ get'[r].answer = {}
    BY <1>2 DEF C!Store, GetFields
  <1>4. CacheGets' BY <1>1, <1>3, CacheMoves
  <1>5. /\ get[r].v \in C!Versions /\ get[r].v <= version /\ version \in Nat
        /\ born[get[r].v] \subseteq get[r].answer /\ get[r].answer \subseteq rows
    BY CacheNumbers DEF C!Store, CacheInv, CacheGets, CacheVersions
  <1>6. CacheEntries'
    <2>1. CASE entry' = entry BY <2>1, <1>1 DEF CacheInv, CacheEntries
    <2>2. CASE entry' = [entry EXCEPT ![get[r].v] = get[r].answer]
      <3>1. DOMAIN entry' = C!Versions /\ entry' = [v \in C!Versions |-> entry'[v]]
        BY <2>2 DEF CacheInv, CacheEntries
      <3>2. ASSUME NEW v \in C!Versions
            PROVE  /\ v > version => entry'[v] = None
                   /\ entry'[v] # None => born[v] \subseteq entry'[v] /\ entry'[v] \subseteq rows
        <4>1. CASE v = get[r].v
          <5>1. entry'[v] = get[r].answer BY <2>2, <1>5, <4>1 DEF CacheInv, CacheEntries
          <5>2. ~(v > version) BY <4>1, <1>5, CacheNumbers
          <5> QED BY <5>1, <5>2, <4>1, <1>5
        <4>2. CASE v # get[r].v
          <5>1. entry'[v] = entry[v] BY <2>2, <4>2 DEF CacheInv, CacheEntries
          <5> QED BY <5>1 DEF CacheInv, CacheEntries
        <4> QED BY <4>1, <4>2
      <3>3. \A v \in C!Versions :
               /\ v > version' => entry'[v] = None
               /\ entry'[v] # None => born'[v] \subseteq entry'[v] /\ entry'[v] \subseteq rows'
        BY <3>2, <1>1
      <3> QED BY <3>1, <3>3 DEF CacheEntries
    <2> QED BY <2>1, <2>2 DEF C!Store
  <1>7. CacheLocks' BY DEF C!Store, CacheInv, CacheLocks
  <1> QED BY <1>1, <1>4, <1>6, <1>7, CacheKeeps DEF CacheInv

(* One step of the cache, whoever takes it *)
LEMMA CacheStep == ASSUME CacheInv, C!Next PROVE CacheInv'
  <1>1. ASSUME NEW m \in Mutations, C!Write(m) \/ C!Bump(m) \/ C!Commit(m) PROVE CacheInv'
    BY <1>1, CacheCommit, CacheOthers
  <1>2. CASE C!Forget \/ C!Evict \/ C!Expire BY <1>2, CacheOthers
  <1>3. ASSUME NEW r \in Requests, C!GetOrCompute(r) PROVE CacheInv'
    BY <1>3, CacheWaits, CacheCompute, CacheStore DEF C!GetOrCompute
  <1>4. ASSUME NEW r \in Requests, NEW p \in Processes, C!Ask(r, p) PROVE CacheInv'
    BY <1>4, CacheAsk
  <1> QED BY <1>1, <1>2, <1>3, <1>4 DEF C!Next

LEMMA CacheHolds == ASSUME CacheInv PROVE C!TypeOK /\ C!KeptIsCurrent
  <1> USE CacheNumbers DEF CacheInv
  <1>1. version \in C!Versions /\ version \in Nat BY DEF CacheVersions
  <1>2. memo \in [Processes -> 0 .. version]
    <2>1. \A p \in Processes : memo[p] \in 0 .. version BY <1>1 DEF CacheMemo
    <2> QED BY <2>1 DEF CacheMemo
  <1>3. entry \in [C!Versions -> (SUBSET rows) \cup {None}] BY DEF CacheEntries
  <1>4. \A r \in Requests : get[r].v \in 1 .. version /\ get[r].answer \subseteq rows BY <1>1 DEF CacheGets
  <1>5. C!TypeOK BY <1>1, <1>2, <1>3, <1>4 DEF C!TypeOK, CacheBorn, CacheLocks
  <1>6. C!KeptIsCurrent BY DEF CacheEntries, CacheGets, C!KeptIsCurrent
  <1> QED BY <1>5, <1>6

LEMMA CacheStill == ASSUME CacheInv, UNCHANGED cacheVars PROVE CacheInv'
  <1> USE DEF cacheVars, CacheInv
  <1>1. Ended' = Ended BY DEF Ended
  <1>2. CacheVersions' BY <1>1, CacheNumbers DEF CacheVersions
  <1>3. CacheBorn' /\ CacheMemo' BY CacheNumbers DEF CacheBorn, CacheMemo
  <1>4. CacheEntries' /\ CacheGets' /\ CacheLocks' BY CacheNumbers DEF CacheEntries, CacheGets, CacheLocks
  <1> QED BY <1>2, <1>3, <1>4

-----------------------------------------------------------------------------
(* MapViewport.  Requests under way are the controller's or aborted, and what is kept *)
(* was fetched since the last change, each viewport once.                             *)
ViewFlight == [gen : 1 .. generation, of : Viewports, age : 0 .. age, aborted : BOOLEAN]
Areas      == Viewports \cup {Off}
Current(a) == a \in V!Ages /\ a.age = age
KeptWell(s) ==
  /\ s \in Seq(V!Ages) /\ Len(s) <= CacheSize
  /\ \A i \in 1 .. Len(s) : s[i].age = age
  /\ \A i, j \in 1 .. Len(s) : s[i].of = s[j].of => i = j

ViewTypes ==
  /\ view \in Areas /\ {dataKey, lastKey, loaded} \subseteq Areas \cup {None}
  /\ age \in Nat /\ (data = None \/ Current(data)) /\ drawn \in V!Ages \cup {None}
  /\ generation \in 0 .. MaxLoads /\ controller \in 0 .. generation
  /\ loading \in BOOLEAN /\ error \in BOOLEAN /\ passed \in BOOLEAN
  /\ flights \subseteq ViewFlight /\ KeptWell(cached)

ViewFlights ==
  /\ \A f, g \in flights : f.gen = g.gen => f = g
  /\ \A f \in flights : ~f.aborted => f.gen = controller /\ f.age = age
  /\ \A f \in flights : f.aborted /\ f.gen = generation => ~loading
  /\ \A f \in flights : ~f.aborted /\ f.gen = generation /\ ~passed => f.of = lastKey

ViewInv == ViewTypes /\ ViewFlights /\ V!LastViewportWins

LEMMA ViewNone == None \notin V!Ages /\ (age \in Nat => \A a \in V!Ages : a # None)
  BY NullAssumption DEF V!Ages

LEMMA ViewWithout ==
  ASSUME ViewTypes, NEW v
  PROVE  /\ KeptWell(V!Without(v)) /\ \A i \in 1 .. Len(V!Without(v)) : V!Without(v)[i].of # v
         /\ V!InCache(v) => /\ Current(cached[V!Place(v)]) /\ cached[V!Place(v)].of = v
                            /\ Len(V!Without(v)) < CacheSize
  <1>1. /\ cached \in Seq(V!Ages) /\ Len(cached) \in Nat /\ DOMAIN cached = 1 .. Len(cached) /\ Len(cached) <= CacheSize
        /\ \A i \in 1 .. Len(cached) : cached[i].age = age /\ cached[i] \in V!Ages
        /\ \A i, j \in 1 .. Len(cached) : cached[i].of = cached[j].of => i = j
        /\ CacheSize \in Nat
    <2>1. KeptWell(cached) BY DEF ViewTypes
    <2>2. cached \in Seq(V!Ages) /\ Len(cached) <= CacheSize BY <2>1 DEF KeptWell
    <2>3. Len(cached) \in Nat /\ DOMAIN cached = 1 .. Len(cached) /\ \A i \in 1 .. Len(cached) : cached[i] \in V!Ages
      BY <2>2
    <2>4. /\ \A i \in 1 .. Len(cached) : cached[i].age = age
          /\ \A i, j \in 1 .. Len(cached) : cached[i].of = cached[j].of => i = j
      BY <2>1 DEF KeptWell
    <2> QED BY <2>2, <2>3, <2>4, BoundAssumption
  <1>2. CASE ~V!InCache(v)
    BY <1>1, <1>2 DEF V!Without, V!InCache, ViewTypes
  <1>3. CASE V!InCache(v)
    <2> DEFINE p == V!Place(v)
    <2> DEFINE a == SubSeq(cached, 1, p - 1)
    <2> DEFINE b == SubSeq(cached, p + 1, Len(cached))
    <2>1. p \in 1 .. Len(cached) /\ cached[p].of = v BY <1>1, <1>3 DEF V!InCache, V!Place
    <2>2. V!Without(v) = a \o b BY <1>3 DEF V!Without, V!RemoveAt
    <2> HIDE DEF p
    <2>3. a \in Seq(V!Ages) /\ Len(a) = p - 1 /\ \A i \in 1 .. p - 1 : a[i] = cached[i]
      <3>1. p - 1 \in Int /\ \A i \in 1 .. p - 1 : cached[i] \in V!Ages /\ 1 + i - 1 = i BY <1>1, <2>1
      <3>2. /\ SubSeq(cached, 1, p - 1) \in Seq(V!Ages)
            /\ Len(SubSeq(cached, 1, p - 1)) = IF 1 <= p - 1 THEN p - 1 - 1 + 1 ELSE 0
            /\ \A i \in 1 .. p - 1 - 1 + 1 : SubSeq(cached, 1, p - 1)[i] = cached[1 + i - 1]
        BY <3>1, SubSeqProperties
      <3> QED BY <2>1, <3>1, <3>2
    <2>4. /\ b \in Seq(V!Ages) /\ Len(b) = Len(cached) - p
          /\ \A i \in 1 .. Len(cached) - p : b[i] = cached[p + i]
      <3>1. p + 1 \in Int /\ \A i \in p + 1 .. Len(cached) : cached[i] \in V!Ages BY <1>1, <2>1
      <3>2. (\A i \in Int : p + 1 + i - 1 = p + i) /\ Len(cached) - (p + 1) + 1 = Len(cached) - p
        BY <1>1, <2>1
      <3>3. /\ SubSeq(cached, p + 1, Len(cached)) \in Seq(V!Ages)
            /\ Len(SubSeq(cached, p + 1, Len(cached))) = IF p + 1 <= Len(cached) THEN Len(cached) - (p + 1) + 1 ELSE 0
            /\ \A i \in 1 .. Len(cached) - (p + 1) + 1 : SubSeq(cached, p + 1, Len(cached))[i] = cached[p + 1 + i - 1]
        BY <1>1, <3>1, SubSeqProperties
      <3> DEFINE n == Len(b)
      <3>a. n = IF p + 1 <= Len(cached) THEN Len(cached) - p ELSE 0 BY <3>2, <3>3
      <3> HIDE DEF n
      <3> DEFINE m == Len(cached)
      <3>c. n = (IF p + 1 <= m THEN m - p ELSE 0) /\ m \in Nat /\ p \in 1 .. m BY <1>1, <2>1, <3>a
      <3>d. n = m - p
        <4> HIDE DEF m
        <4> QED BY <3>c
      <3>b. n = Len(cached) - p BY <3>d
      <3>4. Len(b) = Len(cached) - p BY <3>b DEF n
      <3>5. \A i \in 1 .. Len(cached) - p : b[i] = cached[p + i]
        <4> TAKE i \in 1 .. Len(cached) - p
        <4>1. i \in 1 .. Len(cached) - (p + 1) + 1 /\ i \in Int BY <3>2
        <4> QED BY <4>1, <3>2, <3>3
      <3> QED BY <3>3, <3>4, <3>5
    <2> HIDE DEF a, b
    <2> DEFINE s == a \o b
    <2>5. /\ s \in Seq(V!Ages) /\ Len(s) = Len(cached) - 1
          /\ \A i \in 1 .. Len(s) : s[i] = cached[IF i < p THEN i ELSE i + 1]
      <3>1. /\ a \o b \in Seq(V!Ages) /\ Len(a \o b) = Len(a) + Len(b)
            /\ \A i \in 1 .. Len(a) + Len(b) : (a \o b)[i] = IF i <= Len(a) THEN a[i] ELSE b[i - Len(a)]
        BY <2>3, <2>4, ConcatProperties
      <3>2. ASSUME NEW i \in 1 .. Len(cached) - 1 PROVE s[i] = cached[IF i < p THEN i ELSE i + 1]
        <4>1. CASE i < p
          <5>1. i \in 1 .. p - 1 /\ i <= Len(a) /\ i \in 1 .. Len(a) + Len(b) BY <4>1, <1>1, <2>1, <2>3, <2>4
          <5> QED BY <3>1, <4>1, <5>1, <2>3
        <4>2. CASE ~(i < p)
          <5>1. i - (p - 1) \in 1 .. Len(cached) - p /\ p + (i - (p - 1)) = i + 1 BY <4>2, <1>1, <2>1
          <5>2. ~(i <= Len(a)) /\ i - Len(a) = i - (p - 1) /\ i \in 1 .. Len(a) + Len(b)
            BY <4>2, <1>1, <2>1, <2>3, <2>4
          <5>3. s[i] = b[i - (p - 1)] BY <3>1, <5>2
          <5> QED BY <4>2, <5>1, <5>3, <2>4
        <4> QED BY <4>1, <4>2
      <3> QED BY <3>1, <3>2, <1>1, <2>1, <2>3, <2>4
    <2> HIDE DEF s
    <2> DEFINE at(i) == IF i < p THEN i ELSE i + 1
    <2>6. \A i \in 1 .. Len(s) : (IF i < p THEN i ELSE i + 1) \in 1 .. Len(cached) /\ (IF i < p THEN i ELSE i + 1) # p
      BY <1>1, <2>1, <2>5
    <2>7. \A i, j \in 1 .. Len(s) : (IF i < p THEN i ELSE i + 1) = (IF j < p THEN j ELSE j + 1) => i = j
      BY <1>1, <2>1, <2>5
    <2>8. KeptWell(s)
      <3>1. Len(s) <= CacheSize BY <1>1, <2>1, <2>5
      <3>2. \A i \in 1 .. Len(s) : s[i].age = age BY <1>1, <2>5, <2>6
      <3>3. ASSUME NEW i \in 1 .. Len(s), NEW j \in 1 .. Len(s), s[i].of = s[j].of PROVE i = j
        <4>1. at(i) \in 1 .. Len(cached) /\ at(j) \in 1 .. Len(cached) /\ s[i] = cached[at(i)] /\ s[j] = cached[at(j)]
          BY <2>5, <2>6
        <4>2. at(i) = at(j) BY <4>1, <3>3, <1>1
        <4> QED BY <4>2, <2>7
      <3> QED BY <2>5, <3>1, <3>2, <3>3 DEF KeptWell
    <2>9. \A i \in 1 .. Len(s) : s[i].of # v BY <1>1, <2>1, <2>5, <2>6
    <2>10. Len(s) < CacheSize BY <1>1, <2>1, <2>5
    <2>11. V!Without(v) = s BY <2>2 DEF s
    <2>12. Current(cached[p]) /\ cached[p].of = v BY <1>1, <2>1 DEF Current
    <2> QED BY <2>8, <2>9, <2>10, <2>11, <2>12 DEF p
  <1> QED BY <1>2, <1>3

(* A viewport more is kept, and the oldest may go for it. *)
LEMMA ViewAppended ==
  ASSUME NEW s, KeptWell(s), NEW a, Current(a), \A i \in 1 .. Len(s) : s[i].of # a.of
  PROVE  /\ Len(s) < CacheSize => KeptWell(Append(s, a))
         /\ KeptWell(IF Len(Append(s, a)) > CacheSize THEN Tail(Append(s, a)) ELSE Append(s, a))
  <1> DEFINE t == Append(s, a)
  <1>1. s \in Seq(V!Ages) /\ Len(s) \in Nat /\ Len(s) <= CacheSize /\ CacheSize \in Nat /\ a \in V!Ages /\ a.age = age
    BY BoundAssumption DEF KeptWell, Current
  <1>2. /\ t \in Seq(V!Ages) /\ Len(t) = Len(s) + 1 /\ t[Len(t)] = a
        /\ \A i \in 1 .. Len(s) : t[i] = s[i]
    BY <1>1, AppendProperties
  <1> HIDE DEF t
  <1>3. /\ \A i \in 1 .. Len(t) : t[i].age = age
        /\ \A i, j \in 1 .. Len(t) : t[i].of = t[j].of => i = j
    <2>1. \A i \in 1 .. Len(t) : i \in 1 .. Len(s) \/ i = Len(t) BY <1>1, <1>2
    <2> QED BY <1>1, <1>2, <2>1 DEF KeptWell
  <1>4. Len(t) <= CacheSize => KeptWell(t) BY <1>2, <1>3 DEF KeptWell
  <1>5. Len(t) > CacheSize => KeptWell(Tail(t))
    <2>1. t # <<>> BY <1>1, <1>2
    <2>2. Tail(t) \in Seq(V!Ages) /\ Len(Tail(t)) = Len(t) - 1 /\ \A i \in 1 .. Len(Tail(t)) : Tail(t)[i] = t[i + 1]
      BY <1>2, <2>1, HeadTailProperties
    <2>3. \A i \in 1 .. Len(Tail(t)) : i + 1 \in 1 .. Len(t) BY <1>1, <1>2, <2>2
    <2>4. \A i \in 1 .. Len(Tail(t)) : Tail(t)[i].age = age BY <1>3, <2>2, <2>3
    <2>5. \A i, j \in 1 .. Len(Tail(t)) : Tail(t)[i].of = Tail(t)[j].of => i = j
      <3> SUFFICES ASSUME NEW i \in 1 .. Len(Tail(t)), NEW j \in 1 .. Len(Tail(t)),
                          Tail(t)[i].of = Tail(t)[j].of
                   PROVE  i = j
        OBVIOUS
      <3>1. t[i + 1].of = t[j + 1].of BY <2>2
      <3>2. i + 1 = j + 1 BY <1>3, <2>3, <3>1
      <3> QED BY <3>2
    <2>6. Len(Tail(t)) <= CacheSize BY <1>1, <1>2, <2>2
    <2> QED BY <2>2, <2>4, <2>5, <2>6 DEF KeptWell
  <1>6. /\ Len(s) < CacheSize => KeptWell(t)
        /\ KeptWell(IF Len(t) > CacheSize THEN Tail(t) ELSE t)
    BY <1>1, <1>2, <1>4, <1>5
  <1> QED BY <1>6 DEF t

LEMMA ViewInit == ASSUME V!Init PROVE ViewInv
  <1>1. KeptWell(cached)
    <2>1. <<>> \in Seq(V!Ages) /\ Len(<<>>) = 0 OBVIOUS
    <2> QED BY <2>1, BoundAssumption DEF V!Init, KeptWell
  <1>2. MaxLoads \in Nat BY BoundAssumption
  <1>a. generation \in 0 .. MaxLoads /\ controller \in 0 .. generation BY <1>2 DEF V!Init
  <1>b. view \in Areas /\ {dataKey, lastKey, loaded} \subseteq Areas \cup {None} BY DEF V!Init, Areas
  <1>c. age \in Nat /\ data = None /\ drawn = None /\ flights = {} BY DEF V!Init
  <1>d. loading = FALSE /\ error = FALSE /\ passed = FALSE BY DEF V!Init
  <1>3. ViewTypes BY <1>1, <1>a, <1>b, <1>c, <1>d DEF ViewTypes
  <1>4. ViewFlights BY DEF V!Init, ViewFlights
  <1>5. V!LastViewportWins BY DEF V!Init, V!LastViewportWins, V!Shown
  <1> QED BY <1>3, <1>4, <1>5 DEF ViewInv

LEMMA ViewAborted ==
  ASSUME ViewTypes, ViewFlights
  PROVE  /\ V!Aborted \subseteq ViewFlight
         /\ \A f \in V!Aborted : f.aborted
         /\ \A f, g \in V!Aborted : f.gen = g.gen => f = g
  <1>1. ASSUME NEW f \in V!Aborted
        PROVE  \E g \in flights : /\ f = IF g.gen = controller THEN [g EXCEPT !.aborted = TRUE] ELSE g
                                  /\ f \in ViewFlight /\ f.aborted /\ f.gen = g.gen
    <2>1. PICK g \in flights : f = IF g.gen = controller THEN [g EXCEPT !.aborted = TRUE] ELSE g
      BY DEF V!Aborted
    <2>2. g \in ViewFlight /\ (g.gen = controller \/ g.aborted) BY DEF ViewTypes, ViewFlights
    <2>3. f \in ViewFlight /\ f.aborted /\ f.gen = g.gen BY <2>1, <2>2 DEF ViewFlight
    <2> QED BY <2>1, <2>3
  <1>2. ASSUME NEW f \in V!Aborted, NEW g \in V!Aborted, f.gen = g.gen PROVE f = g
    <2>1. PICK h \in flights : /\ f = IF h.gen = controller THEN [h EXCEPT !.aborted = TRUE] ELSE h
                               /\ f.gen = h.gen
      BY <1>1
    <2>2. PICK i \in flights : /\ g = IF i.gen = controller THEN [i EXCEPT !.aborted = TRUE] ELSE i
                               /\ g.gen = i.gen
      BY <1>1
    <2>3. h = i BY <1>2, <2>1, <2>2 DEF ViewFlights
    <2> QED BY <2>1, <2>2, <2>3
  <1> QED BY <1>1, <1>2

(* What was under way no longer counts. *)
LEMMA ViewDropped ==
  ASSUME ViewInv, flights' = V!Aborted, controller' = 0, ~loading', loading' \in BOOLEAN,
         generation' \in generation .. MaxLoads, age' \in {age, age + 1},
         view' = view, error' \in BOOLEAN, passed' = passed, {dataKey', lastKey', loaded'} \subseteq Areas \cup {None},
         data' = None \/ Current(data)', drawn' \in V!Ages' \cup {None}, KeptWell(cached)',
         V!Shown(data)' = dataKey', dataKey' = loaded', data' # None => drawn' \in {data', None},
         dataKey' \in {lastKey', None} \/ lastKey' = None \/ (dataKey' = dataKey /\ lastKey' = lastKey /\ error' = error /\ ~loading)
  PROVE  ViewInv'
  <1> USE DEF ViewInv
  <1>1. /\ V!Aborted \subseteq ViewFlight /\ \A f \in V!Aborted : f.aborted
        /\ \A f, g \in V!Aborted : f.gen = g.gen => f = g
    BY ViewAborted
  <1>2. generation \in Nat /\ age \in Nat /\ MaxLoads \in Nat BY BoundAssumption DEF ViewTypes
  <1>3. flights' \subseteq ViewFlight' BY <1>1, <1>2 DEF ViewFlight
  <1>4. ViewTypes' BY <1>2, <1>3 DEF ViewTypes
  <1>5. ViewFlights' BY <1>1 DEF ViewFlights
  <1>6. V!LastViewportWins' BY DEF V!LastViewportWins
  <1> QED BY <1>4, <1>5, <1>6

LEMMA ViewStill ==
  ASSUME ViewInv, UNCHANGED <<data, dataKey, lastKey, loaded, generation, loading, error, controller,
                              flights, cached, drawn, age>>,
         view' \in Areas, passed' \in BOOLEAN, passed => passed'
  PROVE  ViewInv'
  <1> USE DEF ViewInv
  <1>1. ViewTypes' BY DEF ViewTypes, ViewFlight, KeptWell, Current, V!Ages
  <1>2. ViewFlights' BY DEF ViewFlights
  <1>3. V!LastViewportWins' BY DEF V!LastViewportWins, V!Shown, V!Pending, V!Newest
  <1> QED BY <1>1, <1>2, <1>3

LEMMA ViewEasy == ASSUME ViewInv, (\E v \in Areas : V!Move(v)) \/ V!LoadSame \/ V!Return PROVE ViewInv'
  <1>1. view \in Areas /\ passed \in BOOLEAN BY DEF ViewInv, ViewTypes
  <1>2. ASSUME NEW v \in Areas, V!Move(v) PROVE ViewInv' BY <1>1, <1>2, ViewStill DEF V!Move
  <1>3. CASE V!LoadSame BY <1>1, <1>3, ViewStill DEF V!LoadSame
  <1>4. CASE V!Return BY <1>1, <1>4, ViewStill DEF V!Return
  <1> QED BY <1>2, <1>3, <1>4

LEMMA ViewNothing == ASSUME ViewInv, V!LoadNothing PROVE ViewInv'
  <1> USE DEF ViewInv
  <1> DEFINE new == [of |-> Off, age |-> age]
  <1>1. /\ view = Off /\ flights' = V!Aborted /\ controller' = 0 /\ loading' = FALSE
        /\ lastKey' = Off /\ dataKey' = Off /\ loaded' = Off /\ data' = new
        /\ drawn' = new
        /\ UNCHANGED <<view, generation, error, cached, age, passed>>
    BY DEF V!LoadNothing
  <1>2. age \in Nat /\ generation \in 0 .. MaxLoads /\ MaxLoads \in Nat BY BoundAssumption DEF ViewTypes
  <1>3. new \in V!Ages /\ new # None /\ new.of = Off /\ new.age = age
    BY <1>2, NullAssumption DEF V!Ages
  <1> HIDE DEF new
  <1>4. Current(data)' /\ drawn' = data' /\ V!Ages' = V!Ages
    BY <1>1, <1>3 DEF Current, V!Ages
  <1>5. KeptWell(cached)' BY <1>1 DEF ViewTypes, KeptWell, V!Ages
  <1>6. V!Shown(data)' = dataKey' BY <1>1, <1>3 DEF V!Shown
  <1>7. generation' \in generation .. MaxLoads /\ {dataKey', lastKey', loaded'} \subseteq Areas \cup {None} /\ error' \in BOOLEAN
    BY <1>1, <1>2 DEF Areas, ViewTypes
  <1>8. data' # None => drawn' \in {data', None} BY <1>4
  <1>9. drawn' \in V!Ages' \cup {None} BY <1>1, <1>3, <1>4
  <1> QED BY <1>1, <1>4, <1>5, <1>6, <1>7, <1>8, <1>9, ViewDropped

LEMMA ViewKept == ASSUME ViewInv, V!LoadKept PROVE ViewInv'
  <1> USE DEF ViewInv
  <1> DEFINE new == cached[V!Place(view)]
  <1>1. /\ V!InCache(view) /\ cached' = Append(V!Without(view), new) /\ data' = new
        /\ drawn' = (IF new # data THEN new ELSE drawn)
        /\ dataKey' = view /\ lastKey' = view /\ loaded' = view
        /\ passed' = (passed \/ V!Pending # {})
        /\ UNCHANGED <<view, generation, loading, error, controller, flights, age>>
    BY DEF V!LoadKept, V!Draw
  <1>2. /\ KeptWell(V!Without(view)) /\ \A i \in 1 .. Len(V!Without(view)) : V!Without(view)[i].of # view
        /\ Current(new) /\ new.of = view /\ Len(V!Without(view)) < CacheSize /\ view \in Areas /\ age \in Nat
    BY <1>1, ViewWithout DEF ViewTypes
  <1>3. new \in V!Ages /\ new # None BY <1>2, ViewNone DEF Current
  <1> HIDE DEF new
  <1>4. KeptWell(cached') BY <1>1, <1>2, ViewAppended
  <1>5. V!Ages' = V!Ages /\ (\A s : KeptWell(s)' <=> KeptWell(s)) BY <1>1 DEF KeptWell, V!Ages
  <1>6. Current(data)' /\ drawn' \in {data', None} /\ drawn' \in V!Ages' \cup {None}
    BY <1>1, <1>2, <1>3, <1>5 DEF Current, V!LastViewportWins
  <1>7. KeptWell(cached)' BY <1>1, <1>4 DEF KeptWell, V!Ages
  <1>8. ViewTypes' BY <1>1, <1>2, <1>6, <1>7 DEF ViewTypes, ViewFlight
  <1>9. ViewFlights' BY <1>1 DEF ViewFlights, V!Pending
  <1>10. V!LastViewportWins'
    <2>1. V!Shown(data)' = view BY <1>1, <1>2, <1>3 DEF V!Shown
    <2> QED BY <1>1, <1>6, <2>1 DEF V!LastViewportWins, V!Pending, V!Newest
  <1> QED BY <1>8, <1>9, <1>10

LEMMA ViewAnew == ASSUME ViewInv, NEW force \in BOOLEAN, V!LoadAnew(force) PROVE ViewInv'
  <1> USE DEF ViewInv
  <1> DEFINE new == [gen |-> generation', of |-> view, age |-> age, aborted |-> FALSE]
  <1>1. /\ view # Off /\ generation < MaxLoads /\ generation' = generation + 1 /\ controller' = generation'
        /\ lastKey' = view /\ flights' = V!Aborted \cup {new}
        /\ loading' = TRUE /\ error' = FALSE /\ passed' = FALSE
        /\ UNCHANGED <<view, data, dataKey, loaded, cached, drawn, age>>
    BY DEF V!LoadAnew
  <1>2. /\ age \in Nat /\ generation \in 0 .. MaxLoads /\ MaxLoads \in Nat /\ view \in Viewports /\ view \in Areas
    BY <1>1, BoundAssumption DEF ViewTypes, Areas
  <1>3. new \in ViewFlight' /\ new.gen = generation' /\ new.of = view /\ new.age = age /\ ~new.aborted
    BY <1>1, <1>2 DEF ViewFlight
  <1> HIDE DEF new
  <1>4. /\ V!Aborted \subseteq ViewFlight /\ \A f \in V!Aborted : f.aborted
        /\ \A f, g \in V!Aborted : f.gen = g.gen => f = g
    BY ViewAborted
  <1>5. \A f \in V!Aborted : f \in ViewFlight' /\ f.gen < generation' BY <1>1, <1>2, <1>4 DEF ViewFlight
  <1>6. ViewTypes'
    <2>1. generation' \in 0 .. MaxLoads /\ controller' \in 0 .. generation' BY <1>1, <1>2
    <2>2. flights' \subseteq ViewFlight' BY <1>1, <1>3, <1>5
    <2>3. KeptWell(cached)' BY <1>1 DEF ViewTypes, KeptWell, V!Ages
    <2>4. (data' = None \/ Current(data)') /\ drawn' \in V!Ages' \cup {None} BY <1>1 DEF ViewTypes, Current, V!Ages
    <2>5. age' \in Nat /\ view' \in Areas /\ {dataKey', lastKey', loaded'} \subseteq Areas \cup {None}
      BY <1>1, <1>2 DEF ViewTypes
    <2> QED BY <1>1, <2>1, <2>2, <2>3, <2>4, <2>5 DEF ViewTypes
  <1>7. ViewFlights' BY <1>1, <1>3, <1>4, <1>5 DEF ViewFlights
  <1>8. V!LastViewportWins'
    <2>1. new \in V!Pending' /\ new.gen = generation' BY <1>1, <1>3 DEF V!Pending
    <2> QED BY <1>1, <2>1 DEF V!LastViewportWins, V!Newest, V!Shown
  <1> QED BY <1>6, <1>7, <1>8

LEMMA ViewArrive == ASSUME ViewInv, NEW f \in flights, V!Arrive(f) PROVE ViewInv'
  <1> USE DEF ViewInv
  <1>1. /\ ~f.aborted /\ f \in ViewFlight /\ f.age = age /\ flights' = flights \ {f}
        /\ f.of \in Viewports /\ f.of \in Areas /\ age \in Nat
        /\ UNCHANGED <<view, lastKey, generation, error, controller, age, passed>>
    BY DEF V!Arrive, V!Pending, ViewTypes, ViewFlights, ViewFlight, Areas
  <1>2. CASE ~V!Newest(f)
    <2>1. UNCHANGED <<data, dataKey, loaded, loading, cached, drawn>> BY <1>2 DEF V!Arrive
    <2>2. ViewTypes' BY <1>1, <2>1 DEF ViewTypes, ViewFlight, KeptWell, Current, V!Ages
    <2>3. ViewFlights' BY <1>1, <2>1 DEF ViewFlights
    <2>4. V!LastViewportWins' BY <1>1, <1>2, <2>1 DEF V!LastViewportWins, V!Shown, V!Pending, V!Newest
    <2> QED BY <2>2, <2>3, <2>4
  <1>3. CASE V!Newest(f)
    <2> DEFINE new == [of |-> f.of, age |-> f.age]
    <2> DEFINE s == V!Without(f.of)
    <2>1. /\ data' = new /\ dataKey' = f.of /\ loaded' = f.of /\ loading' = FALSE
          /\ cached' = (IF Len(Append(s, new)) > CacheSize THEN Tail(Append(s, new)) ELSE Append(s, new))
          /\ drawn' = new
      BY <1>3 DEF V!Arrive
    <2>2. Current(new) /\ new.of = f.of /\ new \in V!Ages /\ new # None
      BY <1>1, NullAssumption DEF Current, V!Ages, Areas
    <2>3. KeptWell(s) /\ \A i \in 1 .. Len(s) : s[i].of # f.of BY <1>1, ViewWithout
    <2> HIDE DEF new, s
    <2>4. KeptWell(cached') BY <2>1, <2>2, <2>3, ViewAppended
    <2>5. KeptWell(cached)' BY <1>1, <2>4 DEF KeptWell, V!Ages
    <2>6. Current(data)' /\ drawn' = data' /\ drawn' \in V!Ages'
      BY <1>1, <2>1, <2>2 DEF Current, V!Ages
    <2>7. ViewTypes' BY <1>1, <2>1, <2>5, <2>6 DEF ViewTypes, ViewFlight
    <2>8. ViewFlights' BY <1>1, <2>1 DEF ViewFlights
    <2>9. V!LastViewportWins'
      <3>1. V!Shown(data)' = f.of BY <2>1, <2>2 DEF V!Shown
      <3>2. ~passed => f.of = lastKey BY <1>1, <1>3 DEF ViewFlights, V!Newest
      <3> QED BY <1>1, <2>1, <2>6, <3>1, <3>2 DEF V!LastViewportWins
    <2> QED BY <2>7, <2>8, <2>9
  <1> QED BY <1>2, <1>3

LEMMA ViewFail == ASSUME ViewInv, NEW f \in flights, V!Fail(f) PROVE ViewInv'
  <1> USE DEF ViewInv
  <1>1. /\ flights' = flights \ {f} /\ f \in ViewFlight
        /\ UNCHANGED <<view, data, dataKey, loaded, generation, controller, cached, drawn, age, passed>>
    BY DEF V!Fail, ViewTypes
  <1>2. /\ lastKey' \in {lastKey, None} /\ loading' \in BOOLEAN /\ error' \in BOOLEAN
        /\ (loading' => loading) /\ (lastKey' # lastKey => f.gen = generation /\ ~f.aborted)
    BY DEF V!Fail, ViewTypes
  <1>3. ViewTypes'
    <2>1. KeptWell(cached)' BY <1>1 DEF ViewTypes, KeptWell, V!Ages
    <2>2. (data' = None \/ Current(data)') /\ drawn' \in V!Ages' \cup {None} BY <1>1 DEF ViewTypes, Current, V!Ages
    <2>3. flights' \subseteq ViewFlight' BY <1>1 DEF ViewTypes, ViewFlight
    <2> QED BY <1>1, <1>2, <2>1, <2>2, <2>3 DEF ViewTypes
  <1>4. ViewFlights' BY <1>1, <1>2 DEF ViewFlights
  <1>5. V!LastViewportWins'
    <2>1. CASE f.gen # generation
      <3>1. UNCHANGED <<lastKey, error, loading>> BY <2>1 DEF V!Fail
      <3> QED BY <1>1, <2>1, <3>1 DEF V!LastViewportWins, V!Shown, V!Pending, V!Newest
    <2>2. CASE f.gen = generation /\ f.aborted
      <3>1. UNCHANGED <<lastKey, error>> /\ loading' = FALSE /\ ~loading BY <2>2 DEF V!Fail, ViewFlights
      <3> QED BY <1>1, <3>1 DEF V!LastViewportWins, V!Shown
    <2>3. CASE f.gen = generation /\ ~f.aborted
      <3>1. lastKey' = None /\ error' = TRUE /\ loading' = FALSE BY <2>3 DEF V!Fail
      <3> QED BY <1>1, <3>1 DEF V!LastViewportWins, V!Shown
    <2> QED BY <2>1, <2>2, <2>3
  <1> QED BY <1>3, <1>4, <1>5

LEMMA ViewEnds == ASSUME ViewInv, V!Invalidate \/ V!Dispose PROVE ViewInv'
  <1> USE DEF ViewInv
  <1>1. /\ generation < MaxLoads /\ generation' = generation + 1 /\ flights' = V!Aborted /\ controller' = 0
        /\ loading' = FALSE /\ lastKey' = None /\ view' = view /\ passed' = passed /\ drawn' \in {drawn, None}
    BY DEF V!Invalidate, V!Dispose
  <1>2. generation' \in generation .. MaxLoads BY <1>1, BoundAssumption DEF ViewTypes
  <1>3. age \in Nat /\ drawn \in V!Ages \cup {None} BY DEF ViewTypes
  <1>4. CASE V!Invalidate
    <2>1. /\ data' = None /\ error' = FALSE /\ dataKey' = None /\ loaded' = None /\ cached' = <<>> /\ age' = age + 1
      BY <1>4 DEF V!Invalidate, V!Dropped
    <2>2. <<>> \in Seq(V!Ages') /\ Len(<<>>) = 0 OBVIOUS
    <2>3. KeptWell(cached)' BY <2>1, <2>2, BoundAssumption DEF KeptWell
    <2>4. drawn' \in V!Ages' \cup {None} BY <1>1, <1>3, <2>1 DEF V!Ages
    <2>5. V!Shown(data)' = dataKey' BY <2>1 DEF V!Shown
    <2> QED BY <1>1, <1>2, <2>1, <2>3, <2>4, <2>5, ViewDropped DEF ViewTypes
  <1>5. CASE V!Dispose
    <2>1. drawn' = None /\ UNCHANGED <<view, data, dataKey, loaded, error, cached, age, passed>> BY <1>5 DEF V!Dispose
    <2>2. KeptWell(cached)' BY <2>1 DEF ViewTypes, KeptWell, V!Ages
    <2>3. (data' = None \/ Current(data)') /\ drawn' \in V!Ages' \cup {None} BY <2>1 DEF ViewTypes, Current, V!Ages
    <2>4. V!Shown(data)' = dataKey' BY <2>1 DEF V!Shown, V!LastViewportWins
    <2>5. error' \in BOOLEAN /\ {dataKey', lastKey', loaded'} \subseteq Areas \cup {None} BY <1>1, <2>1 DEF ViewTypes
    <2>6. dataKey' = loaded' /\ (data' # None => drawn' \in {data', None}) BY <2>1 DEF V!LastViewportWins
    <2> QED BY <1>1, <1>2, <2>1, <2>2, <2>3, <2>4, <2>5, <2>6, ViewDropped
  <1> QED BY <1>4, <1>5

LEMMA ViewStep == ASSUME ViewInv, V!Next \/ UNCHANGED viewportVars PROVE ViewInv'
  <1>1. CASE V!Next
    <2>1. CASE \E v \in Viewports \cup {Off} : V!Move(v) BY <2>1, ViewEasy DEF Areas
    <2>2. ASSUME NEW force \in BOOLEAN, V!Refresh(force) PROVE ViewInv'
      BY <2>2, ViewNothing, ViewAnew, ViewEasy, ViewKept DEF V!Refresh
    <2>3. CASE V!Settle BY <2>3, ViewArrive, ViewFail DEF V!Settle
    <2>4. CASE V!Return \/ V!Invalidate \/ V!Dispose BY <2>4, ViewEasy, ViewEnds
    <2> QED BY <1>1, <2>1, <2>2, <2>3, <2>4 DEF V!Next
  <1>2. CASE UNCHANGED viewportVars
    BY <1>2, ViewStill DEF viewportVars, ViewInv, ViewTypes
  <1> QED BY <1>1, <1>2

LEMMA ViewHolds == ASSUME ViewInv PROVE V!TypeOK /\ V!NothingFromBefore /\ V!LastViewportWins
  <1> USE DEF ViewInv
  <1>1. /\ cached \in Seq(V!Ages) /\ Len(cached) <= CacheSize /\ DOMAIN cached = 1 .. Len(cached)
        /\ \A i \in 1 .. Len(cached) : cached[i] \in V!Ages /\ cached[i].age = age
        /\ \A i, j \in 1 .. Len(cached) : cached[i].of = cached[j].of => i = j
    BY DEF ViewTypes, KeptWell
  <1>2. V!ToSet(cached) \subseteq V!Ages BY <1>1 DEF V!ToSet
  <1>3. \A f \in flights : f.of \in Viewports /\ f.gen \in 1 .. generation /\ f.age <= age BY DEF ViewTypes, ViewFlight
  <1>4. V!TypeOK BY <1>1, <1>2, <1>3 DEF ViewTypes, V!TypeOK, Areas, Current
  <1>5. V!NothingFromBefore BY <1>1 DEF ViewTypes, ViewFlights, V!NothingFromBefore, V!Pending, Current
  <1> QED BY <1>4, <1>5

-----------------------------------------------------------------------------
(* PageRequests.  One request at most is not aborted where there is an           *)
(* AbortController, and it is the last; elsewhere the last is known by its id.   *)
Flight == [id : 1 .. current, of : Keys, aborted : BOOLEAN]
Single == slot \in {"polygon", "detail"}

RequestTypes ==
  /\ slot \in Slots /\ current \in 0 .. MaxSends /\ active \in 0 .. current /\ sent \subseteq Flight
  /\ asked \in P!Subjects /\ shown \in P!Subjects /\ kept \subseteq P!Subjects
  /\ selected \in Keys \cup {None}
  /\ waiting \in BOOLEAN /\ failed \in BOOLEAN /\ overtaken \in BOOLEAN

RequestAborts ==
  /\ P!Aborts => \A f, g \in sent : ~f.aborted /\ ~g.aborted => f.id = active /\ f = g
  /\ ~P!Aborts => \A f \in sent : ~f.aborted
  /\ \A f \in sent : P!Last(f) /\ f.aborted => ~waiting /\ slot # "search"

RequestAnswers ==
  /\ \A f \in sent : ~overtaken /\ ~f.aborted /\ P!Last(f) => f.of = asked
  /\ overtaken => slot \in {"polygons", "search"}
  /\ slot = "area" => selected = asked
  /\ Single /\ (waiting \/ failed) => asked \in Keys /\ current >= 1
  /\ slot = "polygons" => \A k \in kept : shown \in {k, None}

RequestInv == RequestTypes /\ RequestAborts /\ RequestAnswers /\ P!LastRequestWins

LEMMA RequestInit == ASSUME P!Init PROVE RequestInv
  <1>1. RequestTypes
    <2>1. MaxSends \in Nat BY BoundAssumption
    <2>2. sent \subseteq Flight /\ kept \subseteq P!Subjects /\ None \in P!Subjects BY DEF P!Init, P!Subjects
    <2>3. current \in 0 .. MaxSends /\ active \in 0 .. current BY <2>1 DEF P!Init
    <2>4. asked = None /\ shown = None /\ selected = None BY DEF P!Init
    <2>5. waiting = FALSE /\ failed = FALSE /\ overtaken = FALSE /\ slot \in Slots BY DEF P!Init
    <2> QED BY <2>2, <2>3, <2>4, <2>5 DEF RequestTypes
  <1>2. RequestAborts /\ RequestAnswers BY DEF P!Init, RequestAborts, RequestAnswers
  <1>3. P!LastRequestWins BY DEF P!Init, P!LastRequestWins
  <1> QED BY <1>1, <1>2, <1>3 DEF RequestInv

LEMMA AbortedAre ==
  ASSUME RequestTypes
  PROVE  /\ P!Aborted \subseteq Flight
         /\ \A f \in P!Aborted : \E g \in sent : f.id = g.id /\ f.of = g.of /\ (g.aborted => f.aborted)
         /\ ~P!Aborts => P!Aborted = sent
         /\ RequestAborts /\ P!Aborts => \A f \in P!Aborted : f.aborted
  <1>1. ASSUME NEW f \in P!Aborted
        PROVE  /\ f \in Flight /\ \E g \in sent : f.id = g.id /\ f.of = g.of /\ (g.aborted => f.aborted)
               /\ RequestAborts /\ P!Aborts => f.aborted
    <2>1. PICK g \in sent : f = IF P!Aborts /\ g.id = active THEN [g EXCEPT !.aborted = TRUE] ELSE g
      BY DEF P!Aborted
    <2>2. g \in Flight BY DEF RequestTypes
    <2> QED BY <2>1, <2>2 DEF Flight, RequestAborts
  <1>2. ~P!Aborts => P!Aborted = sent BY DEF P!Aborted
  <1> QED BY <1>1, <1>2

(* A new request *)
LEMMA RequestAsk ==
  ASSUME RequestInv, NEW k \in Keys, P!Ask(k), slot' = slot, kept' = kept,
         selected' \in Keys \cup {None}, slot = "area" => selected' = k,
         shown' = shown \/ shown' = None, Single => shown' = None
  PROVE  RequestInv'
  <1> USE DEF RequestInv
  <1> DEFINE new == [id |-> current', of |-> k, aborted |-> FALSE]
  <1>1. /\ current \in Nat /\ current' = current + 1 /\ current' \in 1 .. MaxSends /\ MaxSends \in Nat
        /\ sent' = P!Aborted \cup {new} /\ active' = (IF P!Aborts THEN current' ELSE active)
        /\ asked' = k /\ waiting' = TRUE /\ failed' = FALSE /\ overtaken' = FALSE
    BY BoundAssumption DEF P!Ask, RequestTypes
  <1> HIDE DEF new
  <1>2. P!Aborts' = P!Aborts BY DEF P!Aborts
  <1>3. new \in Flight' /\ new.id = current' /\ new.of = k /\ ~new.aborted BY <1>1 DEF new, Flight
  <1>4. \A f \in P!Aborted : f \in Flight /\ f \in Flight' /\ f.id < current' BY <1>1, AbortedAre DEF Flight
  <1>5. RequestTypes'
    <2>1. sent' \subseteq Flight' BY <1>1, <1>3, <1>4
    <2>2. active' \in 0 .. current' /\ current' \in 0 .. MaxSends BY <1>1 DEF RequestTypes
    <2>3. k \in P!Subjects /\ None \in P!Subjects BY DEF P!Subjects
    <2>4. shown' \in P!Subjects /\ kept' \subseteq P!Subjects /\ asked' \in P!Subjects
      BY <1>1, <2>3 DEF RequestTypes, P!Subjects
    <2> QED BY <1>1, <2>1, <2>2, <2>4 DEF RequestTypes
  <1>6. slot = "search" => P!Aborts BY DEF P!Aborts, P!Selections
  <1>7. \A f \in sent' : P!Last(f)' => f = new
    BY <1>1, <1>3, <1>4, <1>6 DEF P!Last, Flight
  <1>8. RequestAborts'
    <2>1. CASE P!Aborts
      <3>1. \A f \in sent' : ~f.aborted => f = new BY <1>1, <2>1, AbortedAre
      <3> QED BY <1>1, <1>2, <1>3, <1>7, <3>1, <2>1 DEF RequestAborts
    <2>2. CASE ~P!Aborts
      <3>1. sent' = sent \cup {new} BY <1>1, <2>2, AbortedAre
      <3> QED BY <1>1, <1>2, <1>3, <1>7, <3>1, <2>2, AbortedAre DEF RequestAborts
    <2> QED BY <2>1, <2>2
  <1>9. RequestAnswers' BY <1>1, <1>3, <1>7 DEF RequestAnswers, Single
  <1>10. \E f \in P!Pending' : P!Last(f)'
    <2>1. new \in P!Pending' BY <1>1, <1>3 DEF P!Pending
    <2>2. new.id = (IF slot' = "search" THEN active' ELSE current') BY <1>1, <1>3, <1>6
    <2> QED BY <2>1, <2>2 DEF P!Last
  <1>11. P!LastRequestWins' BY <1>1, <1>10 DEF P!LastRequestWins, Single
  <1> QED BY <1>5, <1>8, <1>9, <1>11

(* The requests under way no longer count: their id is outdated, or they are aborted. *)
LEMMA RequestDrop ==
  ASSUME RequestInv, sent' = P!Aborted, UNCHANGED <<slot, overtaken>>,
         \/ current < MaxSends /\ current' = P!Outdated /\ active' = active /\ slot # "search"
         \/ slot = "search" /\ current' = current /\ active' = 0
         \/ slot = "compare" /\ UNCHANGED <<current, active>>,
         ~waiting', failed' \in BOOLEAN, waiting' \in BOOLEAN,
         Single => ~failed', shown' \in {asked', None}, Single => shown' = None,
         asked' \in P!Subjects, selected' \in Keys \cup {None}, slot = "area" => selected' = asked',
         kept' \subseteq P!Subjects, slot = "polygons" => \A k \in kept' : shown' \in {k, None}
  PROVE  RequestInv'
  <1> USE DEF RequestInv
  <1>1. P!Aborts' = P!Aborts BY DEF P!Aborts
  <1>2. /\ current \in Nat /\ current' \in Nat /\ current <= current' /\ current' \in 0 .. MaxSends
        /\ active' \in 0 .. current' /\ active' \in {active, 0} /\ MaxSends \in Nat
    BY BoundAssumption DEF RequestTypes, P!Outdated
  <1>3. \A f \in sent' : f \in Flight /\ f \in Flight' BY <1>2, AbortedAre DEF Flight
  <1>4. RequestTypes' BY <1>2, <1>3 DEF RequestTypes, P!Subjects
  <1>5. \A f \in sent' : ~f.aborted => ~P!Last(f)'
    <2>1. CASE P!Aborts BY <2>1, AbortedAre
    <2>2. CASE ~P!Aborts
      <3>1. slot # "search" /\ slot # "compare" BY <2>2 DEF P!Aborts, P!Selections
      <3>2. current' = current + 1 BY <3>1 DEF P!Outdated
      <3> QED BY <3>1, <3>2, <1>2, <1>3 DEF P!Last, Flight
    <2> QED BY <2>1, <2>2
  <1>6. RequestAborts'
    <2>1. ASSUME NEW f \in sent', P!Last(f)' PROVE slot # "search"
      <3> SUFFICES ASSUME slot = "search" PROVE FALSE OBVIOUS
      <3>1. active' = 0 OBVIOUS
      <3> QED BY <1>3, <2>1, <3>1 DEF P!Last, Flight
    <2> QED BY <1>1, <2>1, AbortedAre DEF RequestAborts
  <1>7. RequestAnswers' BY <1>5 DEF RequestAnswers, Single
  <1>8. P!LastRequestWins' BY DEF P!LastRequestWins, Single
  <1> QED BY <1>4, <1>6, <1>7, <1>8

(* Something kept is shown while the requests under way go on. *)
LEMMA RequestPass ==
  ASSUME RequestInv, NEW k \in kept, asked' = k,
         UNCHANGED <<slot, current, active, sent, selected, kept, waiting, failed>>,
         \/ slot = "polygons" /\ shown' = shown
         \/ slot = "search" /\ shown' = k,
         overtaken' = (overtaken \/ P!Pending # {})
  PROVE  RequestInv'
  <1> USE DEF RequestInv
  <1>1. P!Pending' = P!Pending /\ \A f : P!Last(f)' = P!Last(f) BY DEF P!Pending, P!Last
  <1>2. RequestTypes' BY DEF RequestTypes, Flight, P!Subjects
  <1>3. RequestAborts' BY <1>1 DEF RequestAborts, P!Aborts
  <1>4. RequestAnswers' BY <1>1 DEF RequestAnswers, P!Pending, Single
  <1>5. P!LastRequestWins' BY <1>1 DEF P!LastRequestWins, RequestAnswers
  <1> QED BY <1>2, <1>3, <1>4, <1>5

(* The page asks for something, or for nothing. *)
LEMMA RequestWish ==
  ASSUME RequestInv, NEW k \in Keys, NEW force \in BOOLEAN,
         P!Load(k) \/ P!Select(k) \/ P!SelectBySearch(k) \/ P!Reload \/ P!Restore(k)
         \/ P!LoadBySlug(k, force)
  PROVE  RequestInv'
  <1>1. CASE P!Load(k)
    <2>1. P!Ask(k) /\ UNCHANGED <<slot, selected, shown, kept>> /\ ~Single /\ slot # "area"
      BY <1>1 DEF P!Load, Single
    <2> QED BY <2>1, RequestAsk DEF RequestInv, RequestTypes
  <1>2. CASE P!Select(k)
    BY <1>2, RequestAsk DEF P!Select
  <1>3. CASE P!SelectBySearch(k)
    BY <1>3, RequestAsk DEF P!SelectBySearch, Single
  <1>4. CASE P!Reload
    <2>1. selected \in Keys BY <1>4 DEF P!Reload, RequestInv, RequestTypes
    <2> QED BY <1>4, <2>1, RequestAsk DEF P!Reload, Single
  <1>5. CASE P!Restore(k)
    BY <1>5, RequestPass DEF P!Restore
  <1>6. CASE P!LoadBySlug(k, force)
    <2>1. CASE k \in kept /\ ~force
      <3>1. /\ slot = "osmInfo" /\ current < MaxSends /\ current' = current + 1 /\ asked' = k /\ shown' = k
            /\ ~waiting' /\ ~failed' /\ waiting' \in BOOLEAN /\ failed' \in BOOLEAN
            /\ UNCHANGED <<slot, selected, kept, active, sent, overtaken>>
        BY <1>6, <2>1 DEF P!LoadBySlug, P!Ask
      <3>2. sent' = P!Aborted BY <3>1, AbortedAre DEF P!Aborts, RequestInv
      <3>3. k \in P!Subjects BY DEF P!Subjects
      <3> QED BY <3>1, <3>2, <3>3, RequestDrop DEF P!Outdated, RequestInv, RequestTypes, Single
    <2>2. CASE k \notin kept \/ force
      <3>1. P!Ask(k) /\ slot = "osmInfo" /\ UNCHANGED <<slot, selected, kept, shown>>
        BY <1>6, <2>2 DEF P!LoadBySlug
      <3> QED BY <3>1, RequestAsk DEF Single, RequestInv, RequestTypes
    <2> QED BY <2>1, <2>2
  <1> QED BY <1>1, <1>2, <1>3, <1>4, <1>5, <1>6

LEMMA RequestPolygons ==
  ASSUME RequestInv, NEW j \in Keys \cup {Off}, NEW force \in BOOLEAN, P!LoadPolygons(j, force)
  PROVE  RequestInv'
  <1>1. CASE j \in kept /\ ~force
    BY <1>1, RequestPass DEF P!LoadPolygons
  <1>2. CASE j = Off /\ (j \notin kept \/ force)
    <2>1. /\ slot = "polygons" /\ current < MaxSends /\ current' = current + 1 /\ asked' = Off /\ shown' = None
          /\ ~waiting' /\ ~failed' /\ waiting' \in BOOLEAN /\ failed' \in BOOLEAN /\ kept' = {Off}
          /\ UNCHANGED <<slot, selected, active, overtaken>> /\ sent' = P!Aborted
      BY <1>2 DEF P!LoadPolygons
    <2>2. Off \in P!Subjects BY DEF P!Subjects
    <2> QED BY <2>1, <2>2, RequestDrop DEF P!Outdated, RequestInv, RequestTypes, Single
  <1>3. CASE j # Off /\ (j \notin kept \/ force)
    <2>1. j \in Keys /\ P!Ask(j) /\ slot = "polygons" /\ UNCHANGED <<slot, selected, kept, shown>>
      BY <1>3 DEF P!LoadPolygons
    <2> QED BY <2>1, RequestAsk DEF Single, RequestInv, RequestTypes
  <1> QED BY <1>1, <1>2, <1>3

LEMMA RequestEnd ==
  ASSUME RequestInv, P!CompareNothing \/ P!Clear \/ P!Invalidate \/ P!Close
  PROVE  RequestInv'
  <1>1. None \in P!Subjects /\ Off \in P!Subjects BY DEF P!Subjects
  <1>2. CASE P!CompareNothing
    <2>1. /\ slot = "compare" /\ asked' = Off /\ sent' = P!Aborted /\ shown' = None /\ ~waiting' /\ ~failed'
          /\ UNCHANGED <<slot, current, active, selected, kept, overtaken>>
          /\ waiting' \in BOOLEAN /\ failed' \in BOOLEAN
      BY <1>2 DEF P!CompareNothing
    <2> QED BY <1>1, <2>1, RequestDrop DEF RequestInv, RequestTypes, Single
  <1>3. CASE P!Clear
    <2>1. /\ slot \notin {"polygons", "search"} /\ asked' = None /\ sent' = P!Aborted /\ shown' = None
          /\ ~waiting' /\ ~failed' /\ waiting' \in BOOLEAN /\ failed' \in BOOLEAN /\ selected' = None
          /\ current < MaxSends /\ current' = P!Outdated /\ UNCHANGED <<slot, active, kept, overtaken>>
      BY <1>3 DEF P!Clear
    <2> QED BY <1>1, <2>1, RequestDrop DEF RequestInv, RequestTypes, Single
  <1>4. CASE P!Invalidate
    <2>1. /\ slot = "polygons" /\ asked' = shown /\ sent' = P!Aborted /\ shown' = shown
          /\ ~waiting' /\ ~failed' /\ waiting' \in BOOLEAN /\ failed' \in BOOLEAN /\ selected' = selected
          /\ current < MaxSends /\ current' = P!Outdated /\ kept' = {} /\ UNCHANGED <<slot, active, overtaken>>
      BY <1>4 DEF P!Invalidate
    <2> QED BY <2>1, RequestDrop DEF RequestInv, RequestTypes, Single
  <1>5. CASE P!Close
    <2>1. /\ slot = "search" /\ asked' = shown /\ sent' = P!Aborted /\ active' = 0
          /\ ~waiting' /\ waiting' \in BOOLEAN
          /\ UNCHANGED <<slot, current, selected, shown, kept, failed, overtaken>>
      BY <1>5 DEF P!Close
    <2> QED BY <2>1, RequestDrop DEF RequestInv, RequestTypes, Single
  <1> QED BY <1>2, <1>3, <1>4, <1>5

LEMMA RequestRest == ASSUME RequestInv, P!Deselect \/ P!RetryOsm PROVE RequestInv'
  <1> USE DEF RequestInv
  <1>1. CASE P!Deselect
    <2>1. /\ slot \in {"polygon", "detail"} /\ selected' = None
          /\ UNCHANGED <<slot, current, active, sent, asked, shown, kept, waiting, failed, overtaken>>
      BY <1>1 DEF P!Deselect
    <2>2. RequestTypes' BY <2>1 DEF RequestTypes, Flight, P!Subjects
    <2>3. RequestAborts' BY <2>1 DEF RequestAborts, P!Aborts, P!Last
    <2>4. RequestAnswers' BY <2>1 DEF RequestAnswers, Single, P!Last
    <2>5. P!LastRequestWins'
      BY <2>1, NullAssumption DEF P!LastRequestWins, RequestAnswers, Single, P!Pending, P!Last
    <2> QED BY <2>2, <2>3, <2>4, <2>5
  <1>2. CASE P!RetryOsm
    <2> DEFINE new == [id |-> current, of |-> asked, aborted |-> FALSE]
    <2>1. /\ slot = "polygon" /\ failed /\ sent' = sent \cup {new} /\ waiting' = TRUE /\ failed' = FALSE
          /\ UNCHANGED <<slot, current, active, asked, selected, shown, kept, overtaken>>
      BY <1>2 DEF P!RetryOsm
    <2>2. new \in Flight /\ asked \in Keys /\ new.id = current /\ new.of = asked /\ ~new.aborted /\ current >= 1
      BY <2>1 DEF RequestAnswers, Single, Flight, RequestTypes
    <2> HIDE DEF new
    <2>3. RequestTypes' BY <2>1, <2>2 DEF RequestTypes, Flight, P!Subjects
    <2>4. ~P!Aborts /\ ~P!Aborts' BY <2>1 DEF P!Aborts, P!Selections
    <2>5. RequestAborts' BY <2>1, <2>2, <2>4 DEF RequestAborts
    <2>6. RequestAnswers' BY <2>1, <2>2 DEF RequestAnswers, Single, P!Last
    <2>7. P!LastRequestWins' BY <2>1, <2>2 DEF P!LastRequestWins, P!Pending, P!Last
    <2> QED BY <2>3, <2>5, <2>6, <2>7
  <1> QED BY <1>1, <1>2

(* Who waits for f gets the answer, or the failure: mine is their last request, if any. *)
LEMMA RequestDone ==
  ASSUME RequestInv, NEW f \in sent, NEW g \in P!Together(f), P!Done(g),
         sent' = sent \ P!Together(f), UNCHANGED <<slot, current, asked, selected, overtaken>>,
         (\E h \in P!Together(f) : P!Last(h)) => P!Last(g),
         failed' \in BOOLEAN, shown' \in P!Subjects, kept' \subseteq P!Subjects,
         Single /\ failed' => asked \in Keys /\ current >= 1,
         slot = "polygons" => \A k \in kept' : shown' \in {k, None},
         ~waiting' /\ ~failed' /\ ~overtaken => shown' \in {asked, None},
         Single /\ selected # None => shown' \in {selected, None}
  PROVE  RequestInv'
  <1> USE DEF RequestInv
  <1>1. /\ g \in sent /\ sent' \subseteq sent /\ sent \subseteq Flight /\ sent' \subseteq Flight'
        /\ waiting' = (waiting /\ ~IF Single THEN P!Wanted(g) ELSE P!Last(g)) /\ waiting' \in BOOLEAN
        /\ active' = (IF slot = "search" /\ P!Last(g) THEN 0 ELSE active) /\ active \in 0 .. current
    BY DEF P!Together, P!Done, Single, RequestTypes, Flight
  <1>2. RequestTypes' BY <1>1 DEF RequestTypes, P!Subjects
  <1>3. slot = "search" => P!Together(f) = {f} /\ f = g BY DEF P!Together
  <1>4. P!Aborts' = P!Aborts /\ (slot = "search" => P!Aborts) BY DEF P!Aborts, P!Selections
  <1>5. slot # "search" => \A h : P!Last(h)' = P!Last(h) BY <1>1 DEF P!Last
  <1>6. slot = "search" => \A h \in sent' : P!Last(h)' => P!Last(h)
    <2> SUFFICES ASSUME slot = "search", NEW h \in sent', P!Last(h)' PROVE P!Last(h) OBVIOUS
    <2>1. h \in Flight /\ h.id = active' BY <1>1 DEF P!Last
    <2> QED BY <1>1, <2>1 DEF P!Last, Flight
  <1>7. \A h \in sent' : P!Last(h)' => P!Last(h) BY <1>5, <1>6
  <1>8. RequestAborts'
    <2>1. P!Aborts => \A h, i \in sent' : ~h.aborted /\ ~i.aborted => h.id = active' /\ h = i
      <3> SUFFICES ASSUME P!Aborts, NEW h \in sent', ~h.aborted PROVE h.id = active'
        BY <1>1 DEF RequestAborts
      <3>1. h.id = active BY <1>1 DEF RequestAborts
      <3>2. CASE slot = "search" /\ P!Last(g)
        <4>1. g.id = active /\ ~g.aborted BY <3>2, <1>1 DEF P!Last, RequestAborts
        <4> QED BY <4>1, <3>2, <1>1, <1>3 DEF RequestAborts
      <3> QED BY <3>1, <3>2, <1>1
    <2> QED BY <2>1, <1>1, <1>4, <1>7 DEF RequestAborts
  <1>9. RequestAnswers' BY <1>1, <1>7 DEF RequestAnswers, Single
  <1>10. waiting' /\ (Single => selected = asked) => \E h \in P!Pending' : P!Last(h)'
    <2> SUFFICES ASSUME waiting', Single => selected = asked PROVE \E h \in P!Pending' : P!Last(h)'
      OBVIOUS
    <2>1. PICK h \in P!Pending : P!Last(h) BY <1>1 DEF P!LastRequestWins, Single
    <2>2. ~P!Last(g)
      <3>1. CASE Single
        <4>1. ~P!Wanted(g) BY <3>1, <1>1
        <4>2. ~overtaken BY <3>1 DEF RequestAnswers, Single
        <4>3. P!Last(g) => ~g.aborted /\ g.of = asked BY <1>1, <4>2 DEF RequestAborts, RequestAnswers
        <4> QED BY <3>1, <4>1, <4>3 DEF P!Wanted
      <3> QED BY <3>1, <1>1
    <2>3. h \in sent' /\ h \in P!Pending' BY <2>1, <2>2 DEF P!Pending
    <2>4. P!Last(h)' BY <2>1, <2>2, <1>1 DEF P!Last
    <2> QED BY <2>3, <2>4
  <1>11. P!LastRequestWins' BY <1>10 DEF P!LastRequestWins, Single
  <1> QED BY <1>2, <1>8, <1>9, <1>11

LEMMA RequestSettle == ASSUME RequestInv, NEW f \in sent, P!Arrive(f) \/ P!Fail(f) PROVE RequestInv'
  <1> USE DEF RequestInv
  <1>1. f \in P!Together(f) /\ f \in Flight /\ f.of \in P!Subjects /\ None \in P!Subjects
        /\ \A g \in P!Together(f) : g \in sent /\ g.of = f.of
    BY DEF P!Together, RequestTypes, Flight, P!Subjects
  <1>2. \A g \in P!Together(f) : P!Last(g) /\ ~overtaken /\ ~g.aborted => f.of = asked
    BY <1>1 DEF RequestAnswers
  <1>3. slot \notin {"polygon", "detail", "area"} => \A g : P!Wanted(g) <=> P!Last(g)
    BY DEF P!Wanted, P!Selections
  <1>4. slot \in {"polygon", "detail", "area"} => P!Together(f) = {f} /\ ~f.aborted /\ ~overtaken
    BY DEF P!Together, P!Aborts, P!Selections, RequestAborts, RequestAnswers
  <1>5. slot = "area" /\ P!Last(f) => P!Wanted(f)
    BY <1>2, <1>4, <1>1 DEF P!Wanted, RequestAnswers
  <1>6. \A g \in P!Together(f) : P!Wanted(g) => P!Last(g) BY DEF P!Wanted
  <1>7. CASE P!Arrive(f)
    <2> DEFINE mine == {g \in P!Together(f) : P!Wanted(g)}
    <2> DEFINE one  == IF mine = {} THEN f ELSE CHOOSE g \in mine : TRUE
    <2>1. /\ ~f.aborted /\ sent' = sent \ P!Together(f) /\ P!Done(one)
          /\ shown' = (IF mine # {} THEN f.of ELSE shown)
          /\ kept' = (IF slot = "search" /\ mine # {} THEN kept \cup {f.of}
                      ELSE IF slot = "osmInfo" \/ (slot = "polygons" /\ mine # {}) THEN {f.of} ELSE kept)
          /\ UNCHANGED <<slot, current, asked, selected, failed, overtaken>>
      BY <1>7 DEF P!Arrive, P!Pending
    <2>2. one \in P!Together(f) /\ (mine # {} => one \in mine) BY <1>1
    <2>3. (\E h \in P!Together(f) : P!Last(h)) => P!Last(one) BY <1>3, <1>4, <1>6, <2>2
    <2>4. \A g \in P!Together(f) : ~g.aborted
      BY <2>1 DEF P!Together, P!Aborts, RequestAborts
    <2> HIDE DEF one
    <2>5. mine # {} => P!Last(one) /\ (~overtaken => f.of = asked) BY <2>2, <2>4, <1>2, <1>6
    <2>6. shown' \in P!Subjects /\ kept' \subseteq P!Subjects
      BY <1>1, <2>1 DEF RequestTypes
    <2>7. slot = "polygons" => \A k \in kept' : shown' \in {k, None}
      BY <2>1 DEF RequestAnswers
    <2>8. ~waiting' /\ ~failed' /\ ~overtaken => shown' \in {asked, None}
      <3> SUFFICES ASSUME ~waiting', ~failed', ~overtaken, mine = {} PROVE shown \in {asked, None}
        BY <2>1, <2>5
      <3>1. ~waiting
        <4>1. one = f /\ ~P!Wanted(f) BY <1>1, <2>2 DEF one
        <4>2. ~Single => ~P!Last(f) BY <4>1, <1>3, <1>5 DEF Single
        <4> QED BY <2>1, <4>1, <4>2 DEF P!Done, Single, RequestTypes
      <3> QED BY <3>1, <2>1 DEF P!LastRequestWins
    <2>9. Single /\ selected # None => shown' \in {selected, None}
      <3> SUFFICES ASSUME Single, selected # None, mine # {} PROVE f.of = selected
        BY <2>1 DEF P!LastRequestWins, Single
      <3> QED BY <2>2, <1>4 DEF P!Wanted, Single, P!Selections
    <2>10. failed' \in BOOLEAN /\ (Single /\ failed' => asked \in Keys /\ current >= 1)
      BY <2>1 DEF RequestTypes, RequestAnswers
    <2> HIDE DEF mine
    <2> QED BY <2>1, <2>2, <2>3, <2>6, <2>7, <2>8, <2>9, <2>10, RequestDone
  <1>8. CASE P!Fail(f)
    <2> DEFINE mine == {g \in P!Together(f) : IF slot = "area" THEN P!Last(g) ELSE P!Wanted(g)}
    <2> DEFINE told == mine # {} /\ (f.aborted => slot # "search")
    <2> DEFINE one  == IF mine = {} THEN f ELSE CHOOSE g \in mine : TRUE
    <2>1. /\ sent' = sent \ P!Together(f) /\ P!Done(one)
          /\ failed' = (failed \/ told) \/ (f.aborted /\ failed' = failed)
          /\ shown' = (IF slot = "osmInfo" /\ mine # {} THEN None ELSE shown)
          /\ UNCHANGED <<slot, current, asked, selected, kept, overtaken>>
      BY <1>8 DEF P!Fail
    <2>2. one \in P!Together(f) /\ (mine # {} => one \in mine) BY <1>1
    <2>3. (\E h \in P!Together(f) : P!Last(h)) => P!Last(one) BY <1>3, <1>4, <1>6, <2>2
    <2>4. mine # {} => P!Last(one) BY <2>2, <1>6
    <2>5. mine = {} => one = f OBVIOUS
    <2>6. f.aborted => P!Together(f) = {f} BY DEF P!Together, P!Aborts, RequestAborts
    <2> HIDE DEF one
    <2>7. Single /\ mine # {} => asked \in Keys /\ current >= 1
      <3> SUFFICES ASSUME Single, mine # {} PROVE asked \in Keys /\ current >= 1 OBVIOUS
      <3>1. f = one /\ P!Last(f) /\ ~f.aborted /\ ~overtaken BY <2>2, <2>4, <1>4 DEF Single
      <3> QED BY <3>1, <1>1 DEF RequestAnswers, Flight, P!Last, Single, RequestTypes
    <2>8. failed' \in BOOLEAN /\ (Single /\ failed' => asked \in Keys /\ current >= 1)
      <3>1. told \in BOOLEAN /\ failed \in BOOLEAN /\ (told => mine # {}) BY DEF RequestTypes
      <3> HIDE DEF mine, told
      <3>2. failed' \in BOOLEAN /\ (failed' => failed \/ mine # {}) BY <2>1, <3>1
      <3> QED BY <3>2, <2>7 DEF RequestAnswers
    <2>9. ~waiting' /\ ~failed' /\ ~overtaken => shown' \in {asked, None}
      <3> SUFFICES ASSUME ~waiting', ~failed', ~overtaken PROVE (~waiting /\ ~failed) \/ shown' = None
        BY <2>1 DEF P!LastRequestWins
      <3>1. ~failed BY <2>1 DEF RequestTypes
      <3>2. CASE mine = {}
        <4>1. one = f /\ (IF slot = "area" THEN ~P!Last(f) ELSE ~P!Wanted(f)) BY <3>2, <1>1, <2>5
        <4>2. ~Single => ~P!Last(f) BY <4>1, <1>3 DEF Single
        <4>3. Single => ~P!Wanted(f) BY <4>1 DEF Single
        <4> QED BY <3>1, <2>1, <4>1, <4>2, <4>3 DEF P!Done, Single, RequestTypes
      <3>3. CASE mine # {}
        <4>1. f.aborted BY <3>3, <2>1 DEF RequestTypes
        <4>2. one = f BY <2>2, <2>6, <4>1
        <4> QED BY <4>1, <4>2, <3>1, <3>3, <2>4 DEF RequestAborts
      <3> QED BY <3>2, <3>3
    <2>10. shown' \in P!Subjects /\ kept' \subseteq P!Subjects BY <1>1, <2>1 DEF RequestTypes
    <2>11. slot = "polygons" => \A k \in kept' : shown' \in {k, None} BY <2>1 DEF RequestAnswers
    <2>12. Single /\ selected # None => shown' \in {selected, None} BY <2>1 DEF P!LastRequestWins, Single
    <2> HIDE DEF mine, told
    <2> QED BY <2>1, <2>2, <2>3, <2>8, <2>9, <2>10, <2>11, <2>12, RequestDone
  <1> QED BY <1>7, <1>8

LEMMA RequestStep == ASSUME RequestInv, P!Next \/ UNCHANGED requestVars PROVE RequestInv'
  <1>1. CASE P!Next
    <2>1. ASSUME NEW k \in Keys, NEW force \in BOOLEAN,
                 P!Load(k) \/ P!Select(k) \/ P!SelectBySearch(k) \/ P!Restore(k)
                 \/ P!LoadBySlug(k, force)
          PROVE  RequestInv'
      BY <2>1, RequestWish
    <2>2. ASSUME NEW j \in Keys \cup {Off}, NEW force \in BOOLEAN, P!LoadPolygons(j, force) PROVE RequestInv'
      BY <2>2, RequestPolygons
    <2>3. CASE P!Reload
      BY <2>3, RequestWish DEF RequestInv, RequestTypes, P!Reload
    <2>4. CASE P!CompareNothing \/ P!Clear \/ P!Invalidate \/ P!Close BY <2>4, RequestEnd
    <2>5. CASE P!Deselect \/ P!RetryOsm BY <2>5, RequestRest
    <2>6. CASE P!Settle BY <2>6, RequestSettle DEF P!Settle
    <2> QED BY <1>1, <2>1, <2>2, <2>3, <2>4, <2>5, <2>6 DEF P!Next
  <1>2. CASE UNCHANGED requestVars
    <2> USE <1>2 DEF requestVars, RequestInv
    <2>1. RequestTypes' BY DEF RequestTypes, Flight, P!Subjects
    <2>2. RequestAborts' BY DEF RequestAborts, P!Aborts, P!Last
    <2>3. RequestAnswers' BY DEF RequestAnswers, P!Last, Single
    <2>4. P!LastRequestWins' BY DEF P!LastRequestWins, P!Pending, P!Last
    <2> QED BY <2>1, <2>2, <2>3, <2>4
  <1> QED BY <1>1, <1>2

LEMMA RequestTypeOK == ASSUME RequestInv PROVE P!TypeOK
  <1>1. \A f \in sent : f.id \in 1 .. current /\ f.of \in Keys BY DEF RequestInv, RequestTypes, Flight
  <1>2. selected \in P!Subjects BY DEF RequestInv, RequestTypes, P!Subjects
  <1> QED BY <1>1, <1>2 DEF RequestInv, RequestTypes, P!TypeOK

-----------------------------------------------------------------------------
(* BrowserSession.  A refresh under way that was overtaken signs nobody in, and the *)
(* page says that it is refreshing as long as one counts or a sign-out is under way. *)
CookieRow(whose)  == [of : whose \cup {None}, fresh : BOOLEAN]
CallKinds         == {"none", "api", "session", "login", "logout", "leave"}
CallPlaces        == {"idle", "sent", "ok", "401", "lost", "waiting"}
CallRow(whose)    == [kind : CallKinds, at : CallPlaces, jar : CookieRow(whose), again : BOOLEAN]
RefreshRow(whose) == [at : {"none", "sent", "ok", "over", "lost"}, of : whose \cup {None},
                      same : BOOLEAN, since : BOOLEAN]

SessionTypes ==
  /\ over \subseteq begun /\ begun \subseteq Sessions /\ left \subseteq begun
  /\ user \in begun \cup {None} /\ jar \in CookieRow(begun) /\ refreshing \in BOOLEAN
  /\ refresh \in RefreshRow(begun) /\ call \in [Calls -> CallRow(begun)]
  /\ how \in {"none", "login", "session", "refresh"}

SessionCalls ==
  \A c \in Calls : /\ call[c].at = "waiting" => refresh.at # "none"
                   /\ call[c].kind = "logout" => call[c].at \in {"sent", "ok", "lost"}

SigningOut == \E c \in Calls : call[c].kind = "logout"
SessionRefresh ==
  /\ refresh.since => ~refresh.same
  /\ refreshing => (refresh.at # "none" /\ refresh.same) \/ SigningOut

SessionInv == SessionTypes /\ SessionCalls /\ SessionRefresh

LEMMA SessionInit == ASSUME B!Init PROVE SessionInv
  <1>1. jar \in CookieRow(begun) BY DEF B!Init, B!NoCookies, CookieRow
  <1>2. refresh \in RefreshRow(begun) /\ ~refresh.since /\ ~refreshing
    BY DEF B!Init, B!NoRefresh, RefreshRow
  <1>3. B!Quiet \in CallRow(begun) BY DEF B!Quiet, B!NoCookies, CallRow, CookieRow, CallKinds, CallPlaces
  <1>4. call \in [Calls -> CallRow(begun)] /\ \A c \in Calls : call[c].at = "idle" /\ call[c].kind = "none"
    BY <1>3 DEF B!Init, B!Quiet
  <1>5. begun \subseteq Sessions /\ how \in {"none", "login", "session", "refresh"} /\ refreshing = FALSE
        /\ user \in begun \cup {None}
    BY DEF B!Init
  <1>6. SessionTypes BY <1>1, <1>2, <1>4, <1>5 DEF B!Init, SessionTypes
  <1> QED BY <1>2, <1>4, <1>6 DEF SessionInv, SessionCalls, SessionRefresh

LEMMA SessionRows ==
  ASSUME SessionTypes, begun \subseteq begun'
  PROVE  /\ jar \in CookieRow(begun') /\ refresh \in RefreshRow(begun')
         /\ call \in [Calls -> CallRow(begun')]
         /\ B!NoCookies \in CookieRow(begun') /\ B!NoRefresh \in RefreshRow(begun')
         /\ B!Quiet \in CallRow(begun')
         /\ B!Bumped \in RefreshRow(begun') /\ B!Overtaken \in RefreshRow(begun')
         /\ B!Bumped.at = refresh.at /\ B!Overtaken.at = refresh.at
         /\ B!Bumped.since = refresh.since /\ (refresh.at # "none" => ~B!Bumped.same /\ ~B!Overtaken.same)
         /\ refresh.at = "none" => B!Bumped = refresh /\ B!Overtaken = refresh
  <1> USE DEF SessionTypes
  <1>1. jar \in CookieRow(begun') /\ refresh \in RefreshRow(begun') BY DEF CookieRow, RefreshRow
  <1>2. \A c \in Calls : call[c] \in CallRow(begun')
    BY DEF CallRow, CookieRow
  <1>3. /\ B!NoCookies \in CookieRow(begun') /\ B!NoRefresh \in RefreshRow(begun')
        /\ B!Quiet \in CallRow(begun')
    BY DEF CookieRow, RefreshRow, CallRow, B!NoCookies, B!NoRefresh, B!Quiet, CallKinds, CallPlaces
  <1>4. /\ B!Bumped \in RefreshRow(begun') /\ B!Overtaken \in RefreshRow(begun')
        /\ B!Bumped.at = refresh.at /\ B!Overtaken.at = refresh.at
        /\ B!Bumped.since = refresh.since /\ (refresh.at # "none" => ~B!Bumped.same /\ ~B!Overtaken.same)
        /\ refresh.at = "none" => B!Bumped = refresh /\ B!Overtaken = refresh
    BY <1>1 DEF RefreshRow, B!Bumped, B!Overtaken
  <1> QED BY <1>1, <1>2, <1>3, <1>4

(* A call goes on, or ends, and the page's refresh stays or is overtaken. *)
LEMMA SessionCall ==
  ASSUME SessionInv, NEW c \in Calls, begun \subseteq begun', begun' \subseteq Sessions, over' \subseteq begun',
         left' \subseteq begun', user' \in begun' \cup {None}, jar' \in CookieRow(begun'),
         how' \in {"none", "login", "session", "refresh"},
         call' \in [Calls -> CallRow(begun')], \A d \in Calls \ {c} : call'[d] = call[d],
         call'[c].at = "waiting" => refresh'.at # "none",
         call'[c].kind = "logout" => call'[c].at \in {"sent", "ok", "lost"},
         refresh' \in RefreshRow(begun'), refresh'.at = refresh.at \/ (refresh.at = "none"),
         refresh'.since => ~refresh'.same, refreshing' \in BOOLEAN,
         \/ ~refreshing'
         \/ refreshing' = refreshing /\ refresh' = refresh /\ (call[c].kind = "logout" => call'[c].kind = "logout")
         \/ refresh'.at # "none" /\ refresh'.same
         \/ call'[c].kind = "logout"
  PROVE  SessionInv'
  <1> USE DEF SessionInv
  <1>1. SessionTypes' BY DEF SessionTypes
  <1>2. SessionCalls' BY DEF SessionCalls
  <1>3. SigningOut /\ (call[c].kind = "logout" => call'[c].kind = "logout") => SigningOut' BY DEF SigningOut
  <1>4. call'[c].kind = "logout" => SigningOut' BY DEF SigningOut
  <1>5. SessionRefresh' BY <1>3, <1>4 DEF SessionRefresh
  <1> QED BY <1>1, <1>2, <1>5

LEMMA SessionAnswered ==
  ASSUME SessionTypes, NEW c \in Calls, NEW reply \in CallPlaces, B!Answered(c, reply), begun \subseteq begun'
  PROVE  /\ call' \in [Calls -> CallRow(begun')] /\ \A d \in Calls \ {c} : call'[d] = call[d]
         /\ call'[c].at = reply /\ call'[c].kind = call[c].kind
  <1> DEFINE new == [call[c] EXCEPT !.at = reply,
                       !.jar = IF call[c].kind = "session" /\ reply = "ok" THEN B!Good(@.of) ELSE B!NoCookies]
  <1>1. call \in [Calls -> CallRow(begun')] BY SessionRows
  <1>2. new \in CallRow(begun') /\ new.at = reply /\ new.kind = call[c].kind
    BY <1>1 DEF CallRow, CookieRow, B!Good, B!NoCookies
  <1>3. call' = [call EXCEPT ![c] = new] BY DEF B!Answered
  <1> HIDE DEF new
  <1> QED BY <1>1, <1>2, <1>3

LEMMA SessionEnds ==
  ASSUME SessionTypes, NEW c \in Calls, B!Ends(c), begun \subseteq begun'
  PROVE  /\ call' \in [Calls -> CallRow(begun')] /\ \A d \in Calls \ {c} : call'[d] = call[d]
         /\ call'[c].at = "idle" /\ call'[c].kind = "none"
  <1>1. call \in [Calls -> CallRow(begun')] /\ B!Quiet \in CallRow(begun') BY SessionRows
  <1>2. B!Quiet.at = "idle" /\ B!Quiet.kind = "none" BY DEF B!Quiet
  <1>3. call' = [call EXCEPT ![c] = B!Quiet] BY DEF B!Ends
  <1> QED BY <1>1, <1>2, <1>3

LEMMA SessionSend == ASSUME SessionInv, NEW c \in Calls, NEW k \in B!Kinds, B!Send(c, k) PROVE SessionInv'
  <1> DEFINE new == [kind |-> k, at |-> "sent", jar |-> jar, again |-> FALSE]
  <1>1. /\ SessionTypes /\ SessionCalls /\ SessionRefresh /\ call[c].at = "idle"
        /\ call' = [call EXCEPT ![c] = new] /\ refresh' = (IF k = "logout" THEN B!Overtaken ELSE refresh)
        /\ UNCHANGED <<jar, begun, over, user, refreshing, left, how>>
    BY DEF SessionInv, B!Send
  <1>2. /\ jar \in CookieRow(begun') /\ call \in [Calls -> CallRow(begun')]
        /\ refresh \in RefreshRow(begun') /\ B!Overtaken \in RefreshRow(begun') /\ B!Overtaken.at = refresh.at
        /\ refresh.at # "none" => ~B!Overtaken.same
        /\ refresh.at = "none" => B!Overtaken = refresh
    BY <1>1, SessionRows
  <1>3. new \in CallRow(begun') /\ new.at = "sent" /\ new.kind = k
    BY <1>2 DEF CallRow, B!Kinds, CallKinds, CallPlaces
  <1> HIDE DEF new
  <1>4. /\ call' \in [Calls -> CallRow(begun')] /\ \A d \in Calls \ {c} : call'[d] = call[d]
        /\ call'[c].at = "sent" /\ call'[c].kind = k
    BY <1>1, <1>2, <1>3
  <1>5. refresh' \in RefreshRow(begun') /\ refresh'.at = refresh.at /\ (refresh'.since => ~refresh'.same)
        /\ (k # "logout" => refresh' = refresh)
    BY <1>1, <1>2 DEF SessionRefresh
  <1>6. call[c].kind # "logout" BY <1>1 DEF SessionCalls
  <1> QED BY <1>1, <1>2, <1>4, <1>5, <1>6, SessionCall DEF SessionTypes

LEMMA SessionServe == ASSUME SessionInv, NEW c \in Calls, B!Serve(c) \/ B!Lose(c) PROVE SessionInv'
  <1> USE DEF SessionInv
  <1>1. call[c] \in CallRow(begun) /\ call[c].at \in {"sent", "ok", "401"} /\ call[c].at # "waiting"
        /\ UNCHANGED <<jar, user, refreshing, refresh, left, how>>
    BY DEF SessionTypes, B!Serve, B!Lose
  <1>2. /\ jar \in CookieRow(begun) /\ jar \in CookieRow(begun) /\ refresh \in RefreshRow(begun)
        /\ begun \subseteq Sessions /\ over \subseteq begun /\ left \subseteq begun
        /\ user \in begun \cup {None} /\ refreshing \in BOOLEAN /\ how \in {"none", "login", "session", "refresh"}
        /\ refresh.since => ~refresh.same
    BY DEF SessionTypes, SessionRefresh
  <1>3. ASSUME NEW reply \in {"ok", "401", "lost"}, B!Answered(c, reply), begun' = begun, over' \subseteq begun,
               call[c].kind = "logout" => reply \in {"ok", "lost"}
        PROVE  SessionInv'
    <2>1. /\ call' \in [Calls -> CallRow(begun')] /\ \A d \in Calls \ {c} : call'[d] = call[d]
          /\ call'[c].at = reply /\ call'[c].kind = call[c].kind
      BY <1>3, SessionAnswered DEF CallPlaces
    <2> QED BY <1>1, <1>2, <1>3, <2>1, SessionCall
  <1>4. CASE B!Lose(c)
    BY <1>2, <1>3, <1>4 DEF B!Lose
  <1>5. ASSUME NEW s \in Sessions \ begun, call[c].kind = "login", begun' = begun \cup {s}, over' = over,
               call' = [call EXCEPT ![c].at = "ok", ![c].jar = B!Good(s)]
        PROVE  SessionInv'
    <2> DEFINE new == [call[c] EXCEPT !.at = "ok", !.jar = B!Good(s)]
    <2>1. /\ call \in [Calls -> CallRow(begun')] /\ jar \in CookieRow(begun') /\ refresh \in RefreshRow(begun')
      BY <1>5, SessionRows
    <2>2. new \in CallRow(begun') /\ new.at = "ok" /\ new.kind = "login"
      BY <2>1, <1>5 DEF CallRow, CallPlaces, CookieRow, B!Good
    <2>3. call' = [call EXCEPT ![c] = new] BY <1>5
    <2> HIDE DEF new
    <2>4. call' \in [Calls -> CallRow(begun')] /\ call'[c] = new /\ \A d \in Calls \ {c} : call'[d] = call[d]
      BY <2>1, <2>2, <2>3
    <2> QED BY <1>1, <1>2, <1>5, <2>1, <2>2, <2>4, SessionCall
  <1>6. CASE B!Serve(c)
    <2>1. call[c].jar.of \in begun \cup {None} BY <1>1 DEF CallRow, CookieRow
    <2>2. CASE \E s \in Sessions \ begun : /\ call[c].kind = "login" /\ begun' = begun \cup {s} /\ UNCHANGED over
                                           /\ call' = [call EXCEPT ![c].at = "ok", ![c].jar = B!Good(s)]
      BY <2>2, <1>5
    <2>3. CASE \E reply \in {"ok", "401", "lost"} :
                 /\ B!Answered(c, reply) /\ begun' = begun /\ over' \subseteq begun
                 /\ call[c].kind = "logout" => reply \in {"ok", "lost"}
      BY <2>3, <1>3
    <2> QED BY <1>6, <2>1, <2>2, <2>3, <1>2 DEF B!Serve
  <1> QED BY <1>4, <1>6

LEMMA SessionReceive == ASSUME SessionInv, NEW c \in Calls, B!Receive(c) PROVE SessionInv'
  <1> USE DEF SessionInv
  <1>1. call[c] \in CallRow(begun) /\ UNCHANGED <<begun, over>> /\ B!Ends(c)
    BY DEF SessionTypes, B!Receive
  <1>2. /\ call' \in [Calls -> CallRow(begun')] /\ \A d \in Calls \ {c} : call'[d] = call[d]
        /\ call'[c].at = "idle" /\ call'[c].kind = "none"
    BY <1>1, SessionEnds
  <1>3. /\ jar \in CookieRow(begun) /\ B!NoCookies \in CookieRow(begun) /\ refresh \in RefreshRow(begun)
        /\ begun \subseteq Sessions /\ over \subseteq begun /\ left \subseteq begun
        /\ user \in begun \cup {None} /\ refreshing \in BOOLEAN /\ how \in {"none", "login", "session", "refresh"}
        /\ refresh.since => ~refresh.same
        /\ call[c].jar \in CookieRow(begun) /\ call[c].jar.of \in begun \cup {None}
    BY <1>1 DEF SessionTypes, SessionRefresh, CallRow, CookieRow, B!NoCookies
  <1>4. /\ B!Bumped \in RefreshRow(begun) /\ B!Bumped.at = refresh.at
        /\ B!Bumped.since = refresh.since /\ (refresh.at # "none" => ~B!Bumped.same)
        /\ refresh.at = "none" => B!Bumped = refresh
    BY <1>1, SessionRows
  <1>5. /\ jar' \in CookieRow(begun) /\ user' \in begun \cup {None} /\ left' \subseteq begun
        /\ how' \in {"none", "login", "session", "refresh"} /\ refreshing' \in BOOLEAN
    BY <1>1, <1>3 DEF B!Receive, B!SignedIn, B!SignedOut
  <1>6. \/ ~refreshing' /\ (refresh' = refresh \/ refresh' = B!Bumped)
        \/ refreshing' = refreshing /\ refresh' = refresh /\ call[c].kind # "logout"
    BY <1>1 DEF B!Receive
  <1>7. refresh' \in RefreshRow(begun) /\ refresh'.at = refresh.at /\ (refresh'.since => ~refresh'.same)
    BY <1>3, <1>4, <1>6
  <1> QED BY <1>1, <1>2, <1>3, <1>5, <1>6, <1>7, SessionCall

LEMMA SessionRenew == ASSUME SessionInv, NEW c \in Calls, B!NeedsRefresh(c) \/ B!Unauthorized(c) PROVE SessionInv'
  <1> USE DEF SessionInv
  <1>1. /\ call[c] \in CallRow(begun) /\ UNCHANGED <<jar, begun, over>> /\ call[c].at = "401"
        /\ call[c].kind # "logout"
    BY DEF SessionTypes, SessionCalls, B!NeedsRefresh, B!Unauthorized
  <1>2. /\ jar \in CookieRow(begun) /\ jar.of \in begun \cup {None} /\ refresh \in RefreshRow(begun)
        /\ begun \subseteq Sessions /\ over \subseteq begun /\ left \subseteq begun
        /\ user \in begun \cup {None} /\ refreshing \in BOOLEAN /\ how \in {"none", "login", "session", "refresh"}
        /\ refresh.since => ~refresh.same
    BY <1>1 DEF SessionTypes, SessionRefresh, CookieRow
  <1>3. CASE B!NeedsRefresh(c)
    <2>1. /\ call' \in [Calls -> CallRow(begun')] /\ \A d \in Calls \ {c} : call'[d] = call[d]
          /\ call'[c].at = "waiting" /\ call'[c].kind = call[c].kind
      BY <1>1, <1>3, SessionAnswered DEF B!NeedsRefresh, CallPlaces
    <2>2. UNCHANGED <<user, left, how>> BY <1>3 DEF B!NeedsRefresh
    <2>3. CASE refresh.at = "none"
      <3>1. refresh' = [B!NoRefresh EXCEPT !.at = "sent", !.of = jar.of] /\ refreshing' = TRUE
        BY <1>3, <2>3 DEF B!NeedsRefresh
      <3>2. refresh' \in RefreshRow(begun) /\ refresh'.at = "sent" /\ refresh'.same /\ ~refresh'.since
        BY <3>1, <1>2 DEF RefreshRow, B!NoRefresh
      <3> QED BY <1>1, <1>2, <2>1, <2>2, <2>3, <3>1, <3>2, SessionCall
    <2>4. CASE refresh.at # "none"
      <3>1. UNCHANGED <<refresh, refreshing>> BY <1>3, <2>4 DEF B!NeedsRefresh
      <3> QED BY <1>1, <1>2, <2>1, <2>2, <2>4, <3>1, SessionCall
    <2> QED BY <2>3, <2>4
  <1>4. CASE B!Unauthorized(c)
    <2>1. /\ call' \in [Calls -> CallRow(begun')] /\ \A d \in Calls \ {c} : call'[d] = call[d]
          /\ call'[c].at = "idle" /\ call'[c].kind = "none"
      BY <1>1, <1>4, SessionEnds DEF B!Unauthorized
    <2>2. \/ B!SignedOut /\ ~refreshing' /\ refreshing' \in BOOLEAN /\ refresh' = B!Bumped
          \/ UNCHANGED <<user, left, how, refreshing, refresh>>
      BY <1>4 DEF B!Unauthorized
    <2>3. user' \in begun \cup {None} /\ left' \subseteq begun /\ how' \in {"none", "login", "session", "refresh"}
      BY <1>2, <2>2 DEF B!SignedOut
    <2>4. /\ B!Bumped \in RefreshRow(begun) /\ B!Bumped.at = refresh.at
          /\ B!Bumped.since = refresh.since /\ (refresh.at # "none" => ~B!Bumped.same)
          /\ refresh.at = "none" => B!Bumped = refresh
      BY <1>1, SessionRows
    <2>5. refresh' \in RefreshRow(begun) /\ refresh'.at = refresh.at /\ (refresh'.since => ~refresh'.same)
          /\ refreshing' \in BOOLEAN
      BY <1>2, <2>2, <2>4
    <2> QED BY <1>1, <1>2, <2>1, <2>2, <2>3, <2>5, SessionCall
  <1> QED BY <1>3, <1>4

LEMMA SessionWaiters ==
  ASSUME SessionInv, B!GiveUp \/ (B!Resend /\ jar' \in CookieRow(begun))
  PROVE  /\ call' \in [Calls -> CallRow(begun)]
         /\ \A c \in Calls : call'[c].at # "waiting" /\ (call'[c].kind = "logout" => call'[c].at \in {"sent", "ok", "lost"})
         /\ SigningOut => SigningOut'
  <1> USE DEF SessionInv
  <1>1. call \in [Calls -> CallRow(begun)] /\ B!Quiet \in CallRow(begun) /\ B!Quiet.kind = "none" /\ B!Quiet.at = "idle"
    BY DEF SessionTypes, B!Quiet, CallRow, CookieRow, B!NoCookies, CallKinds, CallPlaces
  <1>2. \A c \in Calls : c \in B!Waiting <=> call[c].at = "waiting" BY DEF B!Waiting
  <1>3. \A c \in Calls : call[c].kind = "logout" => call[c].at \in {"sent", "ok", "lost"} /\ c \notin B!Waiting
    BY <1>2 DEF SessionCalls
  <1>4. CASE B!GiveUp
    <2>1. call' = [c \in Calls |-> IF c \in B!Waiting THEN B!Quiet ELSE call[c]] BY <1>4 DEF B!GiveUp
    <2> QED BY <1>1, <1>2, <1>3, <2>1 DEF SigningOut
  <1>5. CASE B!Resend /\ jar' \in CookieRow(begun)
    <2>1. \A c \in Calls : LET new == [call[c] EXCEPT !.at = "sent", !.jar = jar', !.again = TRUE]
                           IN  new \in CallRow(begun) /\ new.at = "sent" /\ new.kind = call[c].kind
      BY <1>1, <1>5 DEF CallRow, CallPlaces
    <2>2. call' = [c \in Calls |-> IF c \in B!Waiting THEN [call[c] EXCEPT !.at = "sent", !.jar = jar', !.again = TRUE]
                                   ELSE call[c]]
      BY <1>5 DEF B!Resend
    <2> QED BY <1>1, <1>2, <1>3, <2>1, <2>2 DEF SigningOut
  <1> QED BY <1>4, <1>5

LEMMA SessionFlight == ASSUME SessionInv, B!Flight PROVE SessionInv'
  <1> USE DEF SessionInv
  <1>1. /\ jar \in CookieRow(begun) /\ refresh \in RefreshRow(begun) /\ refresh.of \in begun \cup {None}
        /\ begun \subseteq Sessions /\ over \subseteq begun /\ left \subseteq begun
        /\ user \in begun \cup {None} /\ refreshing \in BOOLEAN /\ how \in {"none", "login", "session", "refresh"}
        /\ refresh.since => ~refresh.same
        /\ begun' = begun /\ over' = over
    BY DEF SessionTypes, SessionRefresh, RefreshRow, B!Flight, B!ServeRefresh, B!LoseRefresh, B!Refreshed, B!NotRefreshed
  <1>2. B!NoRefresh \in RefreshRow(begun) /\ B!NoRefresh.at = "none" /\ ~B!NoRefresh.since /\ B!NoRefresh.same
        /\ B!NoCookies \in CookieRow(begun)
    BY DEF B!NoRefresh, RefreshRow, B!NoCookies, CookieRow
  <1>3. CASE B!ServeRefresh \/ B!LoseRefresh
    <2>1. PICK at \in {"ok", "over", "lost"} : refresh' = [refresh EXCEPT !.at = at]
      BY <1>3 DEF B!ServeRefresh, B!LoseRefresh
    <2>2. /\ refresh' \in RefreshRow(begun) /\ refresh'.at # "none" /\ refresh'.same = refresh.same
          /\ refresh'.since = refresh.since
      BY <1>1, <2>1 DEF RefreshRow
    <2>3. UNCHANGED <<jar, begun, over, user, refreshing, call, left, how>> /\ refresh.at # "none"
      BY <1>3 DEF B!ServeRefresh, B!LoseRefresh
    <2>4. SessionTypes' BY <2>2, <2>3 DEF SessionTypes
    <2>5. SessionCalls' /\ SessionRefresh' BY <2>2, <2>3 DEF SessionCalls, SessionRefresh, SigningOut
    <2> QED BY <2>4, <2>5
  <1>4. CASE B!Refreshed
    <2>1. /\ refresh.at = "ok" /\ jar' = B!Good(refresh.of) /\ refresh' = B!NoRefresh
          /\ \/ /\ B!Applies /\ B!SignedIn(refresh.of, IF refresh.since THEN "late" ELSE "refresh")
                /\ refreshing' = FALSE /\ B!Resend /\ left' = left
             \/ /\ ~B!Applies /\ B!GiveUp
                /\ \/ B!SignedOut /\ refreshing' = FALSE
                   \/ UNCHANGED <<user, left, how, refreshing>>
      BY <1>4 DEF B!Refreshed
    <2>2. jar' \in CookieRow(begun) BY <1>1, <2>1 DEF CookieRow, B!Good
    <2>3. /\ call' \in [Calls -> CallRow(begun)]
          /\ \A c \in Calls : call'[c].at # "waiting" /\ (call'[c].kind = "logout" => call'[c].at \in {"sent", "ok", "lost"})
          /\ SigningOut => SigningOut'
      BY <2>1, <2>2, SessionWaiters
    <2>4. user' \in begun \cup {None} /\ left' \subseteq begun /\ how' \in {"none", "login", "session", "refresh"}
      BY <1>1, <2>1 DEF B!SignedIn, B!SignedOut, B!Applies
    <2>5. refreshing' \in BOOLEAN /\ (refreshing' => refreshing /\ ~refresh.same)
      <3>1. CASE B!Applies BY <3>1, <2>1
      <3>2. CASE ~B!Applies
        <4>1. ~refresh.same BY <3>2 DEF B!Applies
        <4>2. CASE refreshing' = FALSE BY <4>2
        <4>3. CASE refreshing' = refreshing BY <4>1, <4>3, <1>1
        <4> QED BY <2>1, <3>2, <4>2, <4>3
      <3> QED BY <3>1, <3>2
    <2>6. SessionTypes' BY <1>1, <1>2, <2>1, <2>2, <2>3, <2>4, <2>5 DEF SessionTypes
    <2>7. SessionCalls' BY <2>3 DEF SessionCalls
    <2>8. SessionRefresh' BY <1>2, <2>1, <2>3, <2>5 DEF SessionRefresh
    <2> QED BY <2>6, <2>7, <2>8
  <1>5. CASE B!NotRefreshed
    <2>1. /\ refresh' = B!NoRefresh /\ B!GiveUp
          /\ \/ B!SignedOut /\ jar' = B!NoCookies
             \/ UNCHANGED <<user, left, how, jar>>
          /\ refreshing' = (refreshing /\ refresh.at = "lost" /\ ~refresh.same)
      BY <1>5 DEF B!NotRefreshed
    <2>2. jar' \in CookieRow(begun) BY <1>1, <1>2, <2>1
    <2>3. /\ call' \in [Calls -> CallRow(begun)]
          /\ \A c \in Calls : call'[c].at # "waiting" /\ (call'[c].kind = "logout" => call'[c].at \in {"sent", "ok", "lost"})
          /\ SigningOut => SigningOut'
      BY <2>1, SessionWaiters
    <2>4. user' \in begun \cup {None} /\ left' \subseteq begun /\ how' \in {"none", "login", "session", "refresh"}
      BY <1>1, <2>1 DEF B!SignedOut
    <2>5. refreshing' \in BOOLEAN /\ (refreshing' => refreshing /\ ~refresh.same) BY <1>1, <2>1 DEF RefreshRow
    <2>6. SessionTypes' BY <1>1, <1>2, <2>1, <2>2, <2>3, <2>4, <2>5 DEF SessionTypes
    <2>7. SessionCalls' BY <2>3 DEF SessionCalls
    <2>8. SessionRefresh' BY <1>2, <2>1, <2>3, <2>5 DEF SessionRefresh
    <2> QED BY <2>6, <2>7, <2>8
  <1> QED BY <1>3, <1>4, <1>5 DEF B!Flight

LEMMA SessionOutside == ASSUME SessionInv, B!Expire \/ B!OtherTab \/ B!EndSession PROVE SessionInv'
  <1> USE DEF SessionInv
  <1>1. UNCHANGED <<user, refreshing, refresh, call, left, how>> BY DEF B!Expire, B!OtherTab, B!EndSession
  <1>2. begun \subseteq begun' /\ begun' \subseteq Sessions /\ over' \subseteq begun' /\ jar' \in CookieRow(begun')
    <2>1. CASE B!Expire BY <2>1 DEF B!Expire, SessionTypes, CookieRow
    <2>2. CASE B!OtherTab BY <2>2 DEF B!OtherTab, SessionTypes, CookieRow, B!Good
    <2>3. CASE B!EndSession BY <2>3 DEF B!EndSession, SessionTypes
    <2> QED BY <2>1, <2>2, <2>3
  <1>3. refresh \in RefreshRow(begun') /\ call \in [Calls -> CallRow(begun')] BY <1>2, SessionRows
  <1>4. SessionTypes' BY <1>1, <1>2, <1>3 DEF SessionTypes
  <1> QED BY <1>1, <1>4 DEF SessionCalls, SessionRefresh, SigningOut

LEMMA SessionStep == ASSUME SessionInv, B!Next \/ UNCHANGED sessionVars PROVE SessionInv'
  <1>1. CASE B!Next
    <2>1. ASSUME NEW c \in Calls, B!Step(c) PROVE SessionInv'
      BY <2>1, SessionServe, SessionReceive, SessionRenew DEF B!Step
    <2>2. ASSUME NEW c \in Calls, NEW k \in B!Kinds, B!Send(c, k) PROVE SessionInv' BY <2>2, SessionSend
    <2>3. CASE B!Flight BY <2>3, SessionFlight
    <2>4. CASE B!Expire \/ B!OtherTab \/ B!EndSession BY <2>4, SessionOutside
    <2> QED BY <1>1, <2>1, <2>2, <2>3, <2>4 DEF B!Next
  <1>2. CASE UNCHANGED sessionVars
    BY <1>2 DEF sessionVars, SessionInv, SessionTypes, SessionCalls, SessionRefresh, SigningOut
  <1> QED BY <1>1, <1>2

LEMMA SessionHolds == ASSUME SessionInv PROVE B!TypeOK /\ B!SignedOutStays
  <1>1. \A c \in Calls : call[c].at \in {"idle", "sent", "ok", "401", "lost", "waiting"}
    BY DEF SessionInv, SessionTypes, CallRow, CallPlaces
  <1>2. {user, jar.of, refresh.of} \subseteq begun \cup {None} /\ refresh.at \in {"none", "sent", "ok", "over", "lost"}
    BY DEF SessionInv, SessionTypes, CookieRow, RefreshRow
  <1>3. B!TypeOK BY <1>1, <1>2 DEF SessionInv, SessionTypes, SessionCalls, B!TypeOK
  <1>4. B!SignedOutStays BY DEF SessionInv, SessionTypes, SessionRefresh, SigningOut, B!SignedOutStays
  <1> QED BY <1>3, <1>4

-----------------------------------------------------------------------------
(* Notifications.  A mark under way remembers what it marked and nothing has replaced *)
(* since, and one that nothing has disturbed still knows what the badge was without it. *)
ItemStates == {"none", "unread", "read"}
MakerRow   == [at : {"idle", "found", "saved"}, id : Ids \cup {All}, saw : ItemStates]
FetchRow   == [at : {"none", "sent", "counted", "listed"}, kind : {"list", "append", "count"},
               only : SUBSET Ids, items : [Ids -> ItemStates], count : Nat]
MarkRow    == [at : {"none", "sent", "ok"}, objects : SUBSET Ids, previous : Nat, alone : BOOLEAN]
MarkKeys   == Ids \cup {All}

InboxTypes ==
  /\ row \in [Ids -> ItemStates] /\ items \in [Ids -> ItemStates] /\ unreadCount \in Nat
  /\ maker \in [Makers -> MakerRow] /\ \A m \in Makers : maker[m].at # "idle" => maker[m].id \in Ids
  /\ fetch \in FetchRow /\ mark \in [MarkKeys -> MarkRow] /\ exact \in BOOLEAN
  /\ queue \in Seq(Ids) /\ Len(queue) <= MaxQueue /\ (queue # <<>> => stream = "open")
  /\ ~signed => stream = "none"

InboxMarks ==
  /\ \A x \in MarkKeys : \A n \in mark[x].objects : items[n] # "unread" /\ (x # All => n = x)
  /\ \A n \in Ids : mark[n].objects \cap mark[All].objects = {}
  /\ \A n \in Ids : mark[n].at # "none" /\ mark[n].alone => mark[n].objects = {n}
  /\ exact /\ mark[All].at # "none" /\ mark[All].alone =>
       mark[All].previous = Cardinality(mark[All].objects) /\ N!Unread(items) = {}

InboxInv == InboxTypes /\ InboxMarks /\ (exact => unreadCount = Cardinality(N!Unread(items)))

LEMMA InboxCounts ==
  /\ \A S : N!Cardinality(S) = Cardinality(S)
  /\ \A f : IsFiniteSet(N!Unread(f)) /\ Cardinality(N!Unread(f)) \in Nat
  /\ Cardinality({}) = 0
  <1>1. \A S : N!Cardinality(S) = Cardinality(S) BY Zenon DEF N!Cardinality, Cardinality
  <1>2. \A f : N!Unread(f) \in SUBSET Ids BY DEF N!Unread
  <1>3. \A f : IsFiniteSet(N!Unread(f)) BY <1>2, InboxAssumption, FS_Subset
  <1> QED BY <1>1, <1>3, FS_CardinalityType, FS_EmptySet

LEMMA InboxInit == ASSUME N!Init PROVE InboxInv
  <1>1. row \in [Ids -> ItemStates] /\ items \in [Ids -> ItemStates] /\ unreadCount \in Nat /\ exact = FALSE
    BY DEF N!Init, N!NoItems, ItemStates
  <1>2. maker \in [Makers -> MakerRow] /\ \A m \in Makers : maker[m].at = "idle"
    BY DEF N!Init, MakerRow, ItemStates
  <1>3. fetch \in FetchRow BY <1>1 DEF N!Init, N!NoFetch, FetchRow, N!NoItems, ItemStates
  <1>4. mark \in [MarkKeys -> MarkRow] /\ \A x \in MarkKeys : mark[x].at = "none" /\ mark[x].objects = {}
    BY DEF N!Init, N!NoMark, MarkRow, MarkKeys
  <1>5. queue = <<>> /\ queue \in Seq(Ids) /\ Len(queue) <= MaxQueue BY BoundAssumption DEF N!Init
  <1>a. signed = TRUE BY DEF N!Init
  <1>6. InboxTypes BY <1>1, <1>2, <1>3, <1>4, <1>5, <1>a DEF InboxTypes
  <1>7. InboxMarks BY <1>1, <1>4 DEF InboxMarks, MarkKeys
  <1> QED BY <1>1, <1>6, <1>7 DEF InboxInv

(* What happens elsewhere *)
LEMMA InboxElsewhere ==
  ASSUME InboxInv, InboxTypes', UNCHANGED <<items, unreadCount, mark, exact>>
  PROVE  InboxInv'
  <1>1. InboxMarks' BY DEF InboxInv, InboxMarks, N!Unread
  <1> QED BY <1>1 DEF InboxInv, N!Unread

LEMMA InboxMakers == ASSUME InboxInv, NEW m \in Makers, N!Find(m) \/ N!Save(m) \/ N!Publish(m) PROVE InboxInv'
  <1>1. /\ InboxTypes /\ row \in [Ids -> ItemStates] /\ maker \in [Makers -> MakerRow] /\ UNCHANGED N!page
        /\ UNCHANGED <<items, unreadCount, mark, exact, fetch, stream, signed>>
    BY DEF InboxInv, InboxTypes, N!Find, N!Save, N!Publish, N!page
  <1>2. CASE N!Find(m)
    <2>1. PICK n \in Ids : maker' = [maker EXCEPT ![m] = [at |-> "found", id |-> n, saw |-> row[n]]]
      BY <1>2 DEF N!Find
    <2>2. [at |-> "found", id |-> n, saw |-> row[n]] \in MakerRow BY <1>1 DEF MakerRow
    <2>3. maker' \in [Makers -> MakerRow] /\ maker'[m].id = n /\ \A o \in Makers \ {m} : maker'[o] = maker[o]
      BY <1>1, <2>1, <2>2
    <2>4. UNCHANGED <<row, queue>> BY <1>2 DEF N!Find
    <2>5. InboxTypes' BY <1>1, <2>3, <2>4 DEF InboxTypes
    <2> QED BY <1>1, <2>5, InboxElsewhere
  <1>3. CASE N!Save(m)
    <2>1. /\ maker[m].at = "found" /\ maker' = [maker EXCEPT ![m].at = "saved"] /\ queue' = queue
          /\ row' = (IF maker[m].saw = "unread" THEN row ELSE [row EXCEPT ![maker[m].id] = "unread"])
      BY <1>3 DEF N!Save
    <2>2. [maker[m] EXCEPT !.at = "saved"] \in MakerRow /\ [maker[m] EXCEPT !.at = "saved"].id = maker[m].id
      BY <1>1 DEF MakerRow
    <2>3. maker' \in [Makers -> MakerRow] /\ maker'[m].id = maker[m].id /\ \A o \in Makers \ {m} : maker'[o] = maker[o]
      BY <1>1, <2>1, <2>2
    <2>4. row' \in [Ids -> ItemStates] BY <1>1, <2>1 DEF ItemStates
    <2>5. InboxTypes' BY <1>1, <2>1, <2>3, <2>4 DEF InboxTypes
    <2> QED BY <1>1, <2>5, InboxElsewhere
  <1>4. CASE N!Publish(m)
    <2>1. /\ maker[m].at = "saved" /\ maker' = [maker EXCEPT ![m].at = "idle", ![m].id = All] /\ row' = row
          /\ \/ /\ stream = "open"
                /\ queue' = Append(IF Len(queue) = MaxQueue THEN Tail(queue) ELSE queue, maker[m].id)
             \/ queue' = queue
      BY <1>4 DEF N!Publish
    <2>2. LET new == [maker[m] EXCEPT !.at = "idle", !.id = All] IN new \in MakerRow /\ new.at = "idle"
      BY <1>1 DEF MakerRow
    <2>3. maker' = [maker EXCEPT ![m] = [maker[m] EXCEPT !.at = "idle", !.id = All]] BY <2>1
    <2>4. maker' \in [Makers -> MakerRow] /\ maker'[m].at = "idle" /\ \A o \in Makers \ {m} : maker'[o] = maker[o]
      BY <1>1, <2>2, <2>3
    <2>5. queue' \in Seq(Ids) /\ Len(queue') <= MaxQueue /\ (queue' # <<>> => stream = "open")
      <3>1. queue \in Seq(Ids) /\ Len(queue) <= MaxQueue /\ maker[m].id \in Ids /\ MaxQueue \in Nat /\ MaxQueue > 0
        BY <1>1, <2>1, BoundAssumption DEF InboxTypes
      <3>2. ASSUME Len(queue) = MaxQueue
            PROVE  Tail(queue) \in Seq(Ids) /\ Len(Tail(queue)) = Len(queue) - 1
        <4>1. queue # <<>> BY <3>1, <3>2
        <4> QED BY <3>1, <4>1
      <3> DEFINE room == IF Len(queue) = MaxQueue THEN Tail(queue) ELSE queue
      <3>3. room \in Seq(Ids) /\ Len(room) + 1 <= MaxQueue
        <4>1. Len(queue) \in Nat BY <3>1
        <4> QED BY <3>1, <3>2, <4>1
      <3> HIDE DEF room
      <3>4. Append(room, maker[m].id) \in Seq(Ids) /\ Len(Append(room, maker[m].id)) = Len(room) + 1
        BY <3>1, <3>3
      <3>5. (queue' = Append(room, maker[m].id) /\ stream = "open") \/ queue' = queue BY <2>1 DEF room
      <3> QED BY <1>1, <3>1, <3>3, <3>4, <3>5 DEF InboxTypes
    <2>6. InboxTypes' BY <1>1, <2>1, <2>4, <2>5 DEF InboxTypes
    <2> QED BY <1>1, <2>6, InboxElsewhere
  <1> QED BY <1>2, <1>3, <1>4

LEMMA InboxServer ==
  ASSUME InboxInv, \/ N!ReadElsewhere \/ N!Cleanup \/ N!Connect \/ N!Ready \/ N!Subscribe \/ N!Disconnect
                   \/ N!SignIn \/ N!CountRows \/ N!ListRows \/ N!FetchFails
  PROVE  InboxInv'
  <1>1. InboxTypes /\ UNCHANGED <<items, unreadCount, mark, exact, maker>>
    BY DEF InboxInv, N!ReadElsewhere, N!Cleanup, N!Connect, N!Ready, N!Subscribe, N!Disconnect, N!SignIn,
           N!CountRows, N!ListRows, N!FetchFails, N!page, N!server
  <1>2. row' \in [Ids -> ItemStates]
    <2>1. CASE N!ReadElsewhere \/ N!Cleanup
      BY <1>1, <2>1 DEF N!ReadElsewhere, N!Cleanup, InboxTypes, ItemStates
    <2>2. CASE row' = row BY <1>1, <2>2 DEF InboxTypes
    <2> QED BY <2>1, <2>2 DEF N!Connect, N!Ready, N!Subscribe, N!Disconnect, N!SignIn,
           N!CountRows, N!ListRows, N!FetchFails, N!server
  <1>3. N!NoFetch \in FetchRow BY DEF N!NoFetch, N!NoItems, FetchRow, ItemStates
  <1>4. fetch' \in FetchRow
    <2> USE <1>1, <1>3 DEF InboxTypes
    <2>1. CASE N!CountRows BY <2>1, InboxCounts DEF N!CountRows, FetchRow
    <2>2. CASE N!ListRows BY <2>2 DEF N!ListRows, FetchRow, ItemStates
    <2>3. CASE N!Ready \/ N!SignIn \/ N!FetchFails BY <2>3 DEF N!Ready, N!SignIn, N!FetchFails, FetchRow
    <2> QED BY <2>1, <2>2, <2>3 DEF N!Connect, N!Subscribe, N!Disconnect, N!ReadElsewhere, N!Cleanup, N!page
  <1>5. /\ queue' = queue \/ queue' = <<>>
        /\ queue' # <<>> => stream' = "open"
        /\ ~signed' => stream' = "none"
    <2> USE <1>1 DEF InboxTypes
    <2>1. CASE N!Connect \/ N!Ready \/ N!Subscribe BY <2>1 DEF N!Connect, N!Ready, N!Subscribe
    <2>2. CASE N!Disconnect BY <2>2 DEF N!Disconnect
    <2>3. CASE N!SignIn BY <2>3 DEF N!SignIn
    <2>4. CASE UNCHANGED <<queue, stream, signed>> BY <2>4
    <2> QED BY <2>1, <2>2, <2>3, <2>4 DEF N!ReadElsewhere, N!Cleanup, N!CountRows, N!ListRows, N!FetchFails, N!page
  <1>6. queue' \in Seq(Ids) /\ Len(queue') <= MaxQueue
    <2>1. <<>> \in Seq(Ids) /\ Len(<<>>) <= MaxQueue BY BoundAssumption
    <2> QED BY <1>1, <1>5, <2>1 DEF InboxTypes
  <1>7. InboxTypes' BY <1>1, <1>2, <1>4, <1>5, <1>6 DEF InboxTypes
  <1> QED BY <1>1, <1>7, InboxElsewhere

(* What replaces objects of the list *)
LEMMA InboxReplacing ==
  ASSUME InboxTypes, NEW ns \in SUBSET Ids, N!Replaced(ns)
  PROVE  /\ mark' \in [MarkKeys -> MarkRow]
         /\ \A x \in MarkKeys :
              /\ mark'[x].at = mark[x].at /\ mark'[x].objects = mark[x].objects \ ns
              /\ mark[x].at # "none" /\ mark'[x].alone => mark[x].alone /\ x \notin ns /\ x # All
  <1>1. mark \in [MarkKeys -> MarkRow] BY DEF InboxTypes
  <1>2. mark' = [x \in MarkKeys |-> [mark[x] EXCEPT !.objects = @ \ ns,
                   !.alone = mark[x].at = "none" \/ (@ /\ x \notin ns \cup {All})]]
    BY <1>1 DEF N!Replaced
  <1>3. ASSUME NEW x \in MarkKeys
        PROVE  LET new == [mark[x] EXCEPT !.objects = @ \ ns,
                             !.alone = mark[x].at = "none" \/ (@ /\ x \notin ns \cup {All})]
               IN  /\ new \in MarkRow /\ new.at = mark[x].at /\ new.objects = mark[x].objects \ ns
                   /\ mark[x].at # "none" /\ new.alone => mark[x].alone /\ x \notin ns /\ x # All
    <2>1. mark[x] \in MarkRow BY <1>1
    <2>2. mark[x].objects \ ns \in SUBSET Ids BY <2>1 DEF MarkRow
    <2>3. (mark[x].at = "none" \/ (mark[x].alone /\ x \notin ns \cup {All})) \in BOOLEAN BY <2>1 DEF MarkRow
    <2> QED BY <2>1, <2>2, <2>3 DEF MarkRow
  <1> QED BY <1>2, <1>3

LEMMA InboxChanged ==
  ASSUME InboxInv, NEW ns \in SUBSET Ids, N!Replaced(ns),
         items' \in [Ids -> ItemStates], \A n \in Ids \ ns : items'[n] = items[n], unreadCount' \in Nat,
         exact' \in BOOLEAN, exact' => unreadCount' = Cardinality(N!Unread(items')),
         row' = row, maker' = maker, fetch' \in FetchRow, queue' \in Seq(Ids), Len(queue') <= MaxQueue,
         queue' # <<>> => stream' = "open", ~signed' => stream' = "none"
  PROVE  InboxInv'
  <1> USE DEF InboxInv
  <1>1. /\ mark' \in [MarkKeys -> MarkRow]
        /\ \A x \in MarkKeys :
              /\ mark'[x].at = mark[x].at /\ mark'[x].objects = mark[x].objects \ ns
              /\ mark[x].at # "none" /\ mark'[x].alone => mark[x].alone /\ x \notin ns /\ x # All
    BY InboxReplacing
  <1>2. InboxTypes' BY <1>1 DEF InboxTypes
  <1>3. All \in MarkKeys /\ Ids \subseteq MarkKeys BY DEF MarkKeys
  <1>4. InboxMarks'
    <2>1. \A x \in MarkKeys : \A n \in mark'[x].objects : items'[n] # "unread" /\ (x # All => n = x)
      BY <1>1 DEF InboxMarks, InboxTypes, MarkRow
    <2>2. \A n \in Ids : mark'[n].objects \cap mark'[All].objects = {} BY <1>1, <1>3 DEF InboxMarks
    <2>3. \A n \in Ids : mark'[n].at # "none" /\ mark'[n].alone => mark'[n].objects = {n}
      BY <1>1, <1>3 DEF InboxMarks
    <2> QED BY <1>1, <1>3, <2>1, <2>2, <2>3 DEF InboxMarks
  <1> QED BY <1>2, <1>4 DEF N!Unread

LEMMA InboxRealtime == ASSUME InboxInv, N!Realtime PROVE InboxInv'
  <1> USE DEF InboxInv
  <1> DEFINE n == Head(queue)
  <1>1. /\ stream = "open" /\ queue # <<>> /\ queue' = Tail(queue) /\ items' = [items EXCEPT ![n] = "unread"]
        /\ N!Replaced({n}) /\ unreadCount' = (IF N!Counts(n) THEN unreadCount + 1 ELSE unreadCount)
        /\ UNCHANGED <<row, maker, signed, stream, fetch, exact>>
    BY DEF N!Realtime, N!server
  <1>2. /\ n \in Ids /\ queue' \in Seq(Ids) /\ Len(queue') <= MaxQueue /\ items \in [Ids -> ItemStates]
        /\ unreadCount \in Nat
    <2>1. queue \in Seq(Ids) /\ Len(queue) <= MaxQueue /\ MaxQueue \in Nat BY BoundAssumption DEF InboxTypes
    <2>2. Head(queue) \in Ids /\ Tail(queue) \in Seq(Ids) /\ Len(Tail(queue)) = Len(queue) - 1 BY <1>1, <2>1
    <2> QED BY <1>1, <2>1, <2>2 DEF InboxTypes
  <1> HIDE DEF n
  <1>3. items' \in [Ids -> ItemStates] /\ \A k \in Ids \ {n} : items'[k] = items[k] BY <1>1, <1>2 DEF ItemStates
  <1>4. unreadCount' \in Nat /\ exact' \in BOOLEAN BY <1>1, <1>2 DEF InboxTypes
  <1>5. N!Unread(items') = N!Unread(items) \cup {n} BY <1>1, <1>2 DEF N!Unread
  <1>6. exact' => unreadCount' = Cardinality(N!Unread(items'))
    <2>1. CASE N!Counts(n)
      <3>1. n \notin N!Unread(items) BY <2>1 DEF N!Counts, N!Unread
      <3>2. Cardinality(N!Unread(items) \cup {n}) = Cardinality(N!Unread(items)) + 1
        BY <3>1, InboxCounts, FS_AddElement
      <3> QED BY <1>1, <1>5, <2>1, <3>2
    <2>2. CASE ~N!Counts(n)
      <3>1. n \in N!Unread(items) BY <2>2, <1>2 DEF N!Counts, N!Unread
      <3>2. N!Unread(items') = N!Unread(items) BY <3>1, <1>5
      <3> QED BY <1>1, <2>2, <3>2
    <2> QED BY <2>1, <2>2
  <1>7. fetch' \in FetchRow /\ {n} \in SUBSET Ids BY <1>1, <1>2 DEF InboxTypes
  <1> QED BY <1>1, <1>2, <1>3, <1>4, <1>6, <1>7, InboxChanged DEF InboxTypes

LEMMA InboxReceive == ASSUME InboxInv, N!Receive PROVE InboxInv'
  <1> USE DEF InboxInv
  <1> DEFINE got == {n \in Ids : fetch.items[n] # "none"}
  <1> DEFINE ns  == IF fetch.kind = "count" THEN {} ELSE IF fetch.kind = "list" THEN Ids ELSE got
  <1>1. /\ fetch' = N!NoFetch /\ unreadCount' = fetch.count /\ N!Replaced(ns)
        /\ items' = (IF fetch.kind = "count" THEN items
                     ELSE [n \in Ids |-> IF n \in got \/ fetch.kind = "list" THEN fetch.items[n] ELSE items[n]])
        /\ exact' = (unreadCount' = N!Cardinality(N!Unread(items')))
        /\ UNCHANGED <<row, maker, queue, signed, stream>>
    BY DEF N!Receive, N!server
  <1>2. items \in [Ids -> ItemStates] /\ fetch \in FetchRow BY DEF InboxTypes
  <1>3. fetch.items \in [Ids -> ItemStates] /\ fetch.count \in Nat BY <1>2 DEF FetchRow
  <1>4. ns \in SUBSET Ids OBVIOUS
  <1>5. items' \in [Ids -> ItemStates] /\ \A n \in Ids \ ns : items'[n] = items[n] BY <1>1, <1>2, <1>3
  <1>6. exact' \in BOOLEAN /\ (exact' => unreadCount' = Cardinality(N!Unread(items'))) BY <1>1, InboxCounts
  <1>7. fetch' \in FetchRow BY <1>1 DEF N!NoFetch, N!NoItems, FetchRow, ItemStates
  <1> HIDE DEF ns
  <1> QED BY <1>1, <1>3, <1>4, <1>5, <1>6, <1>7, InboxChanged DEF InboxTypes

LEMMA InboxSignOut == ASSUME InboxInv, N!SignOut PROVE InboxInv'
  <1> USE DEF InboxInv
  <1>1. /\ ~signed' /\ stream' = "none" /\ queue' = <<>> /\ items' = N!NoItems /\ unreadCount' = 0
        /\ N!Replaced(Ids) /\ UNCHANGED <<row, maker, fetch, exact>>
    BY DEF N!SignOut, N!server
  <1>2. items' \in [Ids -> ItemStates] /\ N!Unread(items') = {}
    BY <1>1 DEF N!NoItems, ItemStates, N!Unread
  <1>3. <<>> \in Seq(Ids) /\ Len(<<>>) <= MaxQueue BY BoundAssumption
  <1>4. Ids \in SUBSET Ids /\ 0 \in Nat OBVIOUS
  <1>5. unreadCount' = Cardinality(N!Unread(items')) BY <1>1, <1>2, InboxCounts
  <1> QED BY <1>1, <1>2, <1>3, <1>4, <1>5, InboxChanged DEF InboxTypes

(* The marks but x: that of all others is no longer alone. *)
LEMMA InboxOthers ==
  ASSUME InboxTypes, NEW x \in MarkKeys, NEW new \in MarkRow,
         mark' = [y \in MarkKeys |-> IF y = x THEN new
                    ELSE IF y = All /\ mark[y].at # "none" THEN [mark[y] EXCEPT !.alone = FALSE] ELSE mark[y]]
  PROVE  /\ mark' \in [MarkKeys -> MarkRow] /\ mark'[x] = new
         /\ \A y \in MarkKeys \ {x} : /\ mark'[y].at = mark[y].at /\ mark'[y].objects = mark[y].objects
                                      /\ y # All => mark'[y] = mark[y]
                                      /\ y = All /\ mark[y].at # "none" => ~mark'[y].alone
  <1>1. mark \in [MarkKeys -> MarkRow] BY DEF InboxTypes
  <1>2. \A y \in MarkKeys : LET other == [mark[y] EXCEPT !.alone = FALSE]
                            IN  other \in MarkRow /\ other.at = mark[y].at /\ other.objects = mark[y].objects /\ ~other.alone
    BY <1>1 DEF MarkRow
  <1> QED BY <1>1, <1>2

LEMMA InboxMarked ==
  ASSUME InboxInv, NEW x \in MarkKeys, NEW ns \in SUBSET Ids, NEW count \in Nat, N!Marked(x, ns, count),
         \A n \in ns : items[n] = "unread", x # All => ns = {x}, x = All => ns = N!Unread(items),
         exact => count = Cardinality(N!Unread(items) \ ns)
  PROVE  InboxInv'
  <1> USE DEF InboxInv
  <1> DEFINE new == [at |-> "sent", objects |-> ns, previous |-> IF x = All THEN unreadCount ELSE 0, alone |-> TRUE]
  <1>1. /\ mark \in [MarkKeys -> MarkRow] /\ items \in [Ids -> ItemStates] /\ unreadCount \in Nat
        /\ Ids \subseteq MarkKeys /\ All \in MarkKeys
    BY DEF InboxTypes, MarkKeys
  <1>2. /\ unreadCount' = count /\ items' = [n \in Ids |-> IF n \in ns THEN "read" ELSE items[n]]
        /\ mark' = [y \in MarkKeys |-> IF y = x THEN new
                    ELSE IF y = All /\ mark[y].at # "none" THEN [mark[y] EXCEPT !.alone = FALSE] ELSE mark[y]]
        /\ UNCHANGED <<row, maker, queue, signed, stream, fetch, exact>>
    BY <1>1 DEF N!Marked, N!server
  <1>3. new \in MarkRow BY <1>1 DEF MarkRow
  <1>4. new.at = "sent" /\ new.objects = ns /\ (x = All => new.previous = unreadCount) OBVIOUS
  <1> HIDE DEF new
  <1>5. /\ mark' \in [MarkKeys -> MarkRow] /\ mark'[x] = new
        /\ \A y \in MarkKeys \ {x} : /\ mark'[y].at = mark[y].at /\ mark'[y].objects = mark[y].objects
                                     /\ y # All => mark'[y] = mark[y]
                                     /\ y = All /\ mark[y].at # "none" => ~mark'[y].alone
    BY <1>2, <1>3, InboxOthers
  <1>6. items' \in [Ids -> ItemStates] BY <1>1, <1>2 DEF ItemStates
  <1>7. InboxTypes' BY <1>2, <1>5, <1>6 DEF InboxTypes
  <1>8. N!Unread(items') = N!Unread(items) \ ns BY <1>2 DEF N!Unread
  <1>9. InboxMarks'
    <2>1. \A y \in MarkKeys : \A n \in mark'[y].objects : items'[n] # "unread" /\ (y # All => n = y)
      <3>1. \A y \in MarkKeys : mark[y].objects \subseteq Ids BY <1>1 DEF MarkRow
      <3> QED BY <1>1, <1>2, <1>4, <1>5, <3>1 DEF InboxMarks
    <2>2. \A n \in Ids : mark'[n].objects \cap mark'[All].objects = {}
      <3>1. \A y \in MarkKeys \ {x} : mark'[y].objects \cap ns = {} BY <1>5 DEF InboxMarks
      <3> QED BY <1>1, <1>4, <1>5, <3>1, InboxAssumption DEF InboxMarks
    <2>3. \A n \in Ids : mark'[n].at # "none" /\ mark'[n].alone => mark'[n].objects = {n}
      BY <1>1, <1>4, <1>5, InboxAssumption DEF InboxMarks
    <2>4. exact' /\ mark'[All].at # "none" /\ mark'[All].alone =>
             mark'[All].previous = Cardinality(mark'[All].objects) /\ N!Unread(items') = {}
      <3>1. CASE x = All BY <3>1, <1>2, <1>4, <1>5, <1>8
      <3>2. CASE x # All BY <3>2, <1>1, <1>5
      <3> QED BY <3>1, <3>2
    <2> QED BY <2>1, <2>2, <2>3, <2>4 DEF InboxMarks, N!Unread
  <1> QED BY <1>2, <1>7, <1>8, <1>9 DEF N!Unread

LEMMA InboxMarkRead == ASSUME InboxInv, (\E n \in Ids : N!MarkRead(n)) \/ N!MarkAllRead PROVE InboxInv'
  <1> USE DEF InboxInv
  <1>1. ASSUME NEW n \in Ids, N!MarkRead(n) PROVE InboxInv'
    <2> DEFINE count == IF unreadCount > 0 THEN unreadCount - 1 ELSE 0
    <2>1. items[n] = "unread" /\ N!Marked(n, {n}, count) BY <1>1 DEF N!MarkRead
    <2>2. count \in Nat BY DEF InboxTypes
    <2>3. ASSUME exact PROVE count = Cardinality(N!Unread(items) \ {n})
      <3>1. n \in N!Unread(items) BY <2>1 DEF N!Unread
      <3>2. Cardinality(N!Unread(items) \ {n}) = Cardinality(N!Unread(items)) - 1
        BY <3>1, InboxCounts, FS_RemoveElement
      <3>3. IsFiniteSet(N!Unread(items) \ {n}) BY InboxCounts, FS_RemoveElement, <3>1
      <3>4. Cardinality(N!Unread(items) \ {n}) \in Nat BY <3>3, FS_CardinalityType
      <3> QED BY <2>3, <3>2, <3>4 DEF InboxTypes
    <2> HIDE DEF count
    <2> QED BY <2>1, <2>2, <2>3, InboxMarked, InboxAssumption DEF MarkKeys
  <1>2. CASE N!MarkAllRead
    <2>1. N!Marked(All, N!Unread(items), 0) BY <1>2 DEF N!MarkAllRead
    <2>2. N!Unread(items) \in SUBSET Ids /\ \A n \in N!Unread(items) : items[n] = "unread" BY DEF N!Unread
    <2>3. Cardinality(N!Unread(items) \ N!Unread(items)) = 0
      <3>1. N!Unread(items) \ N!Unread(items) = {} OBVIOUS
      <3> QED BY <3>1, InboxCounts
    <2> QED BY <2>1, <2>2, <2>3, InboxMarked DEF MarkKeys
  <1> QED BY <1>1, <1>2

LEMMA InboxMarkFails == ASSUME InboxInv, NEW x \in MarkKeys, N!MarkFails(x) PROVE InboxInv'
  <1> USE DEF InboxInv
  <1> DEFINE ns == mark[x].objects
  <1>1. /\ mark \in [MarkKeys -> MarkRow] /\ items \in [Ids -> ItemStates] /\ unreadCount \in Nat
        /\ Ids \subseteq MarkKeys /\ All \in MarkKeys /\ exact \in BOOLEAN /\ mark[x].alone \in BOOLEAN
        /\ ns \in SUBSET Ids /\ mark[x].previous \in Nat
    BY DEF InboxTypes, MarkKeys, MarkRow
  <1>2. /\ mark[x].at # "none" /\ items' = [n \in Ids |-> IF n \in ns THEN "unread" ELSE items[n]]
        /\ mark' = [y \in MarkKeys |-> IF y = x THEN N!NoMark
                    ELSE IF y = All /\ mark[y].at # "none" THEN [mark[y] EXCEPT !.alone = FALSE] ELSE mark[y]]
        /\ unreadCount' = (IF x = All THEN mark[x].previous ELSE unreadCount + 1)
        /\ exact' = (exact /\ mark[x].alone)
        /\ UNCHANGED <<row, maker, queue, signed, stream, fetch>>
    BY <1>1 DEF N!MarkFails, N!server
  <1>3. N!NoMark \in MarkRow /\ N!NoMark.at = "none" /\ N!NoMark.objects = {} BY DEF N!NoMark, MarkRow
  <1>4. /\ mark' \in [MarkKeys -> MarkRow] /\ mark'[x] = N!NoMark
        /\ \A y \in MarkKeys \ {x} : /\ mark'[y].at = mark[y].at /\ mark'[y].objects = mark[y].objects
                                     /\ y # All => mark'[y] = mark[y]
                                     /\ y = All /\ mark[y].at # "none" => ~mark'[y].alone
    BY <1>2, <1>3, InboxOthers
  <1>5. items' \in [Ids -> ItemStates] /\ exact' \in BOOLEAN /\ unreadCount' \in Nat BY <1>1, <1>2 DEF ItemStates
  <1>6. InboxTypes' BY <1>2, <1>4, <1>5 DEF InboxTypes
  <1>7. \A y \in MarkKeys \ {x} : mark[y].objects \cap ns = {}
    <2> SUFFICES ASSUME NEW y \in MarkKeys, y # x, NEW n \in ns, n \in mark[y].objects PROVE FALSE OBVIOUS
    <2>1. (x # All => n = x) /\ (y # All => n = y) BY DEF InboxMarks
    <2>2. x = All \/ y = All BY <2>1
    <2>3. n \in mark[n].objects /\ n \in mark[All].objects /\ n \in Ids BY <1>1, <2>1, <2>2
    <2> QED BY <2>3 DEF InboxMarks
  <1>8. InboxMarks'
    <2>1. \A y \in MarkKeys : \A n \in mark'[y].objects : items'[n] # "unread" /\ (y # All => n = y)
      <3>1. \A y \in MarkKeys : mark[y].objects \subseteq Ids BY <1>1 DEF MarkRow
      <3> QED BY <1>2, <1>3, <1>4, <1>7, <3>1 DEF InboxMarks
    <2>2. \A n \in Ids : mark'[n].objects \cap mark'[All].objects = {}
      BY <1>1, <1>3, <1>4 DEF InboxMarks
    <2>3. \A n \in Ids : mark'[n].at # "none" /\ mark'[n].alone => mark'[n].objects = {n}
      BY <1>1, <1>3, <1>4, InboxAssumption DEF InboxMarks
    <2>4. ~(mark'[All].at # "none" /\ mark'[All].alone)
      BY <1>1, <1>3, <1>4
    <2> QED BY <2>1, <2>2, <2>3, <2>4 DEF InboxMarks
  <1>9. ASSUME exact' PROVE unreadCount' = Cardinality(N!Unread(items'))
    <2>1. exact /\ mark[x].alone /\ unreadCount = Cardinality(N!Unread(items)) BY <1>1, <1>2, <1>9
    <2>2. N!Unread(items') = N!Unread(items) \cup ns BY <1>1, <1>2 DEF N!Unread
    <2>3. CASE x = All
      <3>1. mark[x].previous = Cardinality(ns) /\ N!Unread(items) = {} BY <2>1, <2>3, <1>2 DEF InboxMarks
      <3> QED BY <3>1, <2>2, <2>3, <1>2
    <2>4. CASE x # All
      <3>1. x \in Ids BY <2>4 DEF MarkKeys
      <3>2. ns = {x} BY <2>1, <3>1, <1>2 DEF InboxMarks
      <3>3. x \notin N!Unread(items) BY <3>2 DEF InboxMarks, N!Unread
      <3>4. Cardinality(N!Unread(items) \cup {x}) = Cardinality(N!Unread(items)) + 1
        BY <3>3, InboxCounts, FS_AddElement
      <3> QED BY <2>1, <2>2, <2>4, <3>2, <3>4, <1>2
    <2> QED BY <2>3, <2>4
  <1> QED BY <1>6, <1>8, <1>9 DEF N!Unread

LEMMA InboxMarkEnds == ASSUME InboxInv, NEW x \in MarkKeys, N!WriteRead(x) \/ N!MarkDone(x) PROVE InboxInv'
  <1> USE DEF InboxInv
  <1>1. /\ mark \in [MarkKeys -> MarkRow] /\ Ids \subseteq MarkKeys /\ All \in MarkKeys /\ row \in [Ids -> ItemStates]
        /\ UNCHANGED <<maker, queue, signed, stream, items, unreadCount, fetch, exact>>
    BY DEF InboxTypes, MarkKeys, N!WriteRead, N!MarkDone, N!server
  <1>2. row' \in [Ids -> ItemStates]
    <2>1. CASE N!WriteRead(x) BY <2>1, <1>1 DEF N!WriteRead, ItemStates
    <2>2. CASE N!MarkDone(x) BY <2>2, <1>1 DEF N!MarkDone, N!server
    <2> QED BY <2>1, <2>2
  <1>3. /\ mark' \in [MarkKeys -> MarkRow] /\ \A y \in MarkKeys \ {x} : mark'[y] = mark[y]
        /\ \/ /\ mark[x].at # "none" /\ mark'[x].objects = mark[x].objects /\ mark'[x].alone = mark[x].alone
              /\ mark'[x].previous = mark[x].previous
           \/ mark'[x].at = "none" /\ mark'[x].objects = {}
    <2>1. CASE N!WriteRead(x)
      <3>1. mark' = [mark EXCEPT ![x].at = "ok"] /\ mark[x].at = "sent" BY <2>1 DEF N!WriteRead
      <3>2. LET new == [mark[x] EXCEPT !.at = "ok"]
            IN  /\ new \in MarkRow /\ new.objects = mark[x].objects /\ new.alone = mark[x].alone
                /\ new.previous = mark[x].previous
        BY <1>1 DEF MarkRow
      <3> QED BY <1>1, <3>1, <3>2
    <2>2. CASE N!MarkDone(x)
      <3>1. mark' = [mark EXCEPT ![x] = N!NoMark] BY <2>2 DEF N!MarkDone
      <3>2. N!NoMark \in MarkRow /\ N!NoMark.at = "none" /\ N!NoMark.objects = {} BY DEF N!NoMark, MarkRow
      <3> QED BY <1>1, <3>1, <3>2
    <2> QED BY <2>1, <2>2
  <1>4. InboxTypes' BY <1>1, <1>2, <1>3 DEF InboxTypes
  <1>5. InboxMarks'
    <2>1. \A y \in MarkKeys : mark'[y].objects \subseteq mark[y].objects BY <1>3
    <2>2. \A y \in MarkKeys : mark'[y].at # "none" => /\ mark[y].at # "none" /\ mark'[y].objects = mark[y].objects
                                                      /\ mark'[y].alone = mark[y].alone /\ mark'[y].previous = mark[y].previous
      BY <1>3
    <2>3. \A y \in MarkKeys : \A n \in mark'[y].objects : items'[n] # "unread" /\ (y # All => n = y)
      BY <1>1, <2>1 DEF InboxMarks
    <2>4. \A n \in Ids : mark'[n].objects \cap mark'[All].objects = {} BY <1>1, <2>1 DEF InboxMarks
    <2>5. \A n \in Ids : mark'[n].at # "none" /\ mark'[n].alone => mark'[n].objects = {n}
      BY <1>1, <2>2 DEF InboxMarks
    <2>6. exact' /\ mark'[All].at # "none" /\ mark'[All].alone =>
             mark'[All].previous = Cardinality(mark'[All].objects) /\ N!Unread(items') = {}
      BY <1>1, <2>2 DEF InboxMarks
    <2> QED BY <2>3, <2>4, <2>5, <2>6 DEF InboxMarks, N!Unread
  <1> QED BY <1>1, <1>4, <1>5 DEF N!Unread

LEMMA InboxFetch ==
  ASSUME InboxInv, NEW kind \in {"list", "append", "count"}, NEW only \in SUBSET Ids, N!Fetch(kind, only)
  PROVE  InboxInv'
  <1>1. /\ fetch' = [N!NoFetch EXCEPT !.at = "sent", !.kind = kind, !.only = only]
        /\ UNCHANGED <<row, maker, queue, signed, stream, items, unreadCount, mark, exact>>
    BY DEF N!Fetch, N!server
  <1>2. fetch' \in FetchRow BY <1>1 DEF N!NoFetch, N!NoItems, FetchRow, ItemStates
  <1>3. InboxTypes' BY <1>1, <1>2 DEF InboxInv, InboxTypes
  <1> QED BY <1>1, <1>3, InboxElsewhere

LEMMA InboxStep == ASSUME InboxInv, N!Next \/ UNCHANGED inboxVars PROVE InboxInv'
  <1>1. CASE N!Next
    <2>1. ASSUME NEW m \in Makers, N!Find(m) \/ N!Save(m) \/ N!Publish(m) PROVE InboxInv' BY <2>1, InboxMakers
    <2>2. CASE \/ N!ReadElsewhere \/ N!Cleanup \/ N!Connect \/ N!Ready \/ N!Subscribe \/ N!Disconnect
               \/ N!SignIn \/ N!CountRows \/ N!ListRows \/ N!FetchFails
      BY <2>2, InboxServer
    <2>3. CASE N!Realtime \/ N!Receive \/ N!SignOut BY <2>3, InboxRealtime, InboxReceive, InboxSignOut
    <2>4. ASSUME NEW kind \in {"list", "append", "count"}, NEW only \in {Ids} \cup {{n} : n \in Ids}, N!Fetch(kind, only)
          PROVE  InboxInv'
      <3>1. only \in SUBSET Ids OBVIOUS
      <3> QED BY <2>4, <3>1, InboxFetch
    <2>5. CASE (\E n \in Ids : N!MarkRead(n)) \/ N!MarkAllRead BY <2>5, InboxMarkRead
    <2>6. ASSUME NEW x \in DOMAIN mark, N!Marks(x) PROVE InboxInv'
      <3>1. x \in MarkKeys BY DEF InboxInv, InboxTypes
      <3> QED BY <2>6, <3>1, InboxMarkEnds, InboxMarkFails DEF N!Marks
    <2> QED BY <1>1, <2>1, <2>2, <2>3, <2>4, <2>5, <2>6 DEF N!Next, N!Serve
  <1>2. CASE UNCHANGED inboxVars
    <2>1. UNCHANGED <<row, maker, signed, stream, queue, items, unreadCount, fetch, mark, exact>>
      BY <1>2 DEF inboxVars
    <2>2. InboxTypes' BY <2>1 DEF InboxInv, InboxTypes
    <2> QED BY <2>1, <2>2, InboxElsewhere
  <1> QED BY <1>1, <1>2

LEMMA InboxHolds == ASSUME InboxInv PROVE N!TypeOK /\ N!CountedOnce
  <1>1. \A x \in DOMAIN mark : mark[x].objects \subseteq Ids BY DEF InboxInv, InboxTypes, MarkRow
  <1>2. N!TypeOK BY <1>1 DEF InboxInv, InboxTypes, N!TypeOK, ItemStates
  <1>3. N!CountedOnce BY InboxCounts DEF InboxInv, N!CountedOnce, N!Matches
  <1> QED BY <1>2, <1>3

-----------------------------------------------------------------------------
(* ContactForm.  The token of a form a message was sent from is used up:     *)
(* somebody is about to say so, or it is remembered, or it is too old.       *)
PostRow == [at : {"idle", "ip", "email", "checked", "reserved", "finish", "sent", "failed", "done"},
            form : Forms \cup {None}]
Working(p) == post[p].at \in {"reserved", "finish", "sent", "failed"}

FormTypes ==
  /\ clock \in 0 .. MaxClock /\ pending \subseteq Forms /\ mailed \subseteq Forms
  /\ issued \in [Forms -> Nat \cup {None}] /\ used \in [Forms -> Nat \cup {None}]
  /\ \A f \in Forms : /\ issued[f] # None => issued[f] <= clock
                      /\ used[f] # None => issued[f] # None /\ issued[f] <= used[f] /\ used[f] <= clock
  /\ post \in [Posts -> PostRow]
  /\ \A p \in Posts : post[p].at # "idle" => post[p].form \in Forms /\ issued[post[p].form] # None

(* A nonce is reserved for one request at a time. *)
FormTurns ==
  \A p \in Posts : Working(p) =>
    /\ post[p].form \in pending
    /\ \A q \in Posts : Working(q) /\ post[q].form = post[p].form => q = p

Spent(f) == clock >= issued[f] + Lifetime \/ used[f] # None
FormSpent ==
  \A f \in mailed \ excused :
    /\ issued[f] # None
    /\ Spent(f) \/ \E p \in Posts : post[p].at = "sent" /\ post[p].form = f
    /\ \A p \in Posts : Working(p) /\ post[p].form = f => post[p].at = "sent"

FormInv == FormTypes /\ FormTurns /\ FormSpent /\ F!OneMailPerForm

LEMMA FormInit == ASSUME F!Init PROVE FormInv
  <1>1. post \in [Posts -> PostRow] /\ \A p \in Posts : post[p].at = "idle"
    BY DEF F!Init, F!NoPost, PostRow
  <1>2. FormTypes BY <1>1, BoundAssumption, NullAssumption DEF F!Init, FormTypes
  <1>3. FormTurns BY <1>1 DEF FormTurns, Working
  <1> QED BY <1>2, <1>3 DEF F!Init, FormInv, FormSpent, F!OneMailPerForm

(* A request that goes on without a nonce, at the end as at the beginning *)
LEMMA FormMoves ==
  ASSUME FormInv, NEW p \in Posts, UNCHANGED <<clock, issued, pending, used, mailed, twice, excused>>,
         post' \in [Posts -> PostRow], \A q \in Posts \ {p} : post'[q] = post[q],
         post'[p].at \notin {"reserved", "finish", "sent", "failed"}, post[p].at # "sent",
         post'[p].at # "idle" => post'[p].form \in Forms /\ issued[post'[p].form] # None
  PROVE  FormInv'
  <1> USE DEF FormInv
  <1>1. FormTypes' BY DEF FormTypes
  <1>2. \A q \in Posts : Working(q)' => q # p /\ Working(q) /\ post'[q] = post[q] BY DEF Working
  <1>3. FormTurns' BY <1>2 DEF FormTurns
  <1>4. FormSpent' BY <1>2 DEF FormSpent, Spent, Working
  <1> QED BY <1>1, <1>3, <1>4 DEF F!OneMailPerForm

LEMMA FormQuiet ==
  ASSUME FormInv, NEW p \in Posts, NEW f, NEW k \in F!Windows,
         (f \in Forms /\ F!Post(p, f)) \/ F!Limit(p, k) \/ F!Answer(p) \/ F!Cancel(p)
  PROVE  FormInv'
  <1>1. post \in [Posts -> PostRow] /\ UNCHANGED <<clock, issued, pending, used, mailed, twice, excused>>
    BY DEF FormInv, FormTypes, F!Post, F!Limit, F!Answer, F!Cancel
  <1>2. CASE f \in Forms /\ F!Post(p, f)
    <2>1. /\ post' \in [Posts -> PostRow] /\ \A q \in Posts \ {p} : post'[q] = post[q]
          /\ post'[p].at = "ip" /\ post'[p].form = f /\ issued[f] # None /\ post[p].at = "idle"
      BY <1>1, <1>2 DEF F!Post, PostRow
    <2> QED BY <1>1, <1>2, <2>1, FormMoves
  <1>3. CASE F!Limit(p, k)
    <2>1. /\ post' \in [Posts -> PostRow] /\ \A q \in Posts \ {p} : post'[q] = post[q]
          /\ post'[p].at \in {"email", "checked", "done"} /\ post'[p].form = post[p].form
      BY <1>1, <1>3 DEF F!Limit, F!Goes, PostRow
    <2>2. post[p].at \in {"ip", "email"} BY <1>3 DEF F!Limit, F!Windows
    <2> QED BY <1>1, <2>1, <2>2, FormMoves DEF FormInv, FormTypes
  <1>4. CASE F!Answer(p)
    <2>1. /\ post' \in [Posts -> PostRow] /\ \A q \in Posts \ {p} : post'[q] = post[q]
          /\ post'[p].at = "idle" /\ post[p].at = "done"
      BY <1>1, <1>4 DEF F!Answer, F!NoPost, PostRow
    <2> QED BY <1>1, <2>1, FormMoves
  <1>5. CASE F!Cancel(p)
    <2>1. /\ post' \in [Posts -> PostRow] /\ \A q \in Posts \ {p} : post'[q] = post[q]
          /\ post'[p].at = "done" /\ post[p].at \in {"ip", "email", "reserved"} /\ post'[p].form = post[p].form
      BY <1>1, <1>5 DEF F!Cancel, F!Goes, PostRow
    <2> QED BY <1>1, <2>1, FormMoves DEF FormInv, FormTypes
  <1> QED BY <1>2, <1>3, <1>4, <1>5

LEMMA FormReserve == ASSUME FormInv, NEW p \in Posts, F!Reserve(p) PROVE FormInv'
  <1> USE DEF FormInv
  <1> DEFINE f == post[p].form
  <1>1. /\ post \in [Posts -> PostRow] /\ post[p].at = "checked" /\ f \in Forms /\ issued[f] # None
        /\ UNCHANGED <<clock, issued, mailed, twice, excused>>
    BY DEF FormTypes, F!Reserve
  <1>2. CASE ~F!Decodes(f)
    <2>1. /\ UNCHANGED <<pending, used>> /\ F!Goes(p, "done") BY <1>2 DEF F!Reserve
    <2>2. /\ post' \in [Posts -> PostRow] /\ \A q \in Posts \ {p} : post'[q] = post[q]
          /\ post'[p].at = "done" /\ post'[p].form = f
      BY <1>1, <2>1 DEF F!Goes, PostRow
    <2> QED BY <1>1, <2>1, <2>2, FormMoves
  <1>3. CASE F!Decodes(f)
    <2>1. /\ used' = [g \in Forms |-> IF F!Kept(g) THEN used[g] ELSE None]
          /\ IF F!Taken(f) THEN F!Goes(p, "done") /\ pending' = pending
                           ELSE F!Goes(p, "reserved") /\ pending' = pending \cup {f}
      BY <1>3 DEF F!Reserve
    <2>2. /\ post' \in [Posts -> PostRow] /\ \A q \in Posts \ {p} : post'[q] = post[q]
          /\ post'[p].at \in {"done", "reserved"} /\ post'[p].form = f
          /\ post'[p].at = "reserved" => ~F!Taken(f)
      BY <1>1, <2>1 DEF F!Goes, PostRow
    <2>3. FormTypes'
      <3>1. used' \in [Forms -> Nat \cup {None}] /\ \A g \in Forms : used'[g] \in {used[g], None}
        BY <2>1 DEF FormTypes
      <3> QED BY <1>1, <2>1, <2>2, <3>1 DEF FormTypes
    <2>4. FormTurns'
      <3>1. pending \subseteq pending' /\ (post'[p].at = "reserved" => f \in pending' /\ f \notin pending)
        BY <2>1, <2>2 DEF F!Taken
      <3>2. \A q \in Posts : Working(q)' => q = p \/ Working(q) BY <2>2 DEF Working
      <3>3. ~Working(p) BY <1>1 DEF Working
      <3> QED BY <2>2, <3>1, <3>2, <3>3 DEF FormTurns, Working
    <2>5. FormSpent'
      <3> SUFFICES ASSUME NEW g \in mailed \ excused
                   PROVE  /\ issued[g] # None
                          /\ Spent(g)' \/ \E q \in Posts : post'[q].at = "sent" /\ post'[q].form = g
                          /\ \A q \in Posts : Working(q)' /\ post'[q].form = g => post'[q].at = "sent"
        BY <1>1 DEF FormSpent
      <3>1. /\ issued[g] # None /\ g \in Forms
            /\ Spent(g) \/ \E q \in Posts : post[q].at = "sent" /\ post[q].form = g
            /\ \A q \in Posts : Working(q) /\ post[q].form = g => post[q].at = "sent"
        BY DEF FormSpent, FormTypes
      <3>2. Spent(g) => Spent(g)'
        <4> SUFFICES ASSUME used[g] # None, ~(clock >= issued[g] + Lifetime) PROVE F!Kept(g)
          BY <2>1, <1>1, <3>1 DEF Spent, FormTypes
        <4> QED BY <3>1, BoundAssumption DEF FormTypes, F!Kept
      <3>3. \A q \in Posts : post[q].at = "sent" => post'[q] = post[q] BY <1>1, <2>2
      <3>4. g = f => F!Taken(f)
        <4>1. CASE Spent(g)
          <5> SUFFICES ASSUME g = f PROVE F!Kept(f) BY DEF F!Taken
          <5> QED BY <4>1, <1>3, <3>1, BoundAssumption DEF FormTypes, F!Kept, F!Decodes, Spent
        <4>2. CASE \E q \in Posts : post[q].at = "sent" /\ post[q].form = g
          BY <4>2 DEF FormTurns, Working, F!Taken
        <4> QED BY <4>1, <4>2, <3>1
      <3>5. \A q \in Posts : Working(q)' /\ post'[q].form = g => post'[q].at = "sent"
        BY <3>1, <3>4, <2>2 DEF Working
      <3> QED BY <3>1, <3>2, <3>3, <3>5
    <2> QED BY <2>3, <2>4, <2>5, <1>1 DEF F!OneMailPerForm
  <1> QED BY <1>2, <1>3

LEMMA FormHandle == ASSUME FormInv, NEW p \in Posts, F!Handle(p) PROVE FormInv'
  <1> USE DEF FormInv
  <1> DEFINE f == post[p].form
  <1>1. /\ post \in [Posts -> PostRow] /\ post[p].at = "reserved" /\ f \in Forms /\ issued[f] # None
        /\ UNCHANGED <<clock, issued, pending, used>> /\ Working(p)
    BY DEF FormTypes, F!Handle, Working
  <1>2. /\ post' \in [Posts -> PostRow] /\ \A q \in Posts \ {p} : post'[q] = post[q]
        /\ post'[p].at \in {"finish", "sent", "failed"} /\ post'[p].form = f
        /\ \/ UNCHANGED <<mailed, twice, excused>>
           \/ F!Mail(f) /\ excused' = excused \cup {f}
           \/ F!Mail(f) /\ excused' = excused /\ post'[p].at = "sent"
    <2>1. \A place \in {"finish", "sent", "failed"} : F!Goes(p, place) =>
            /\ post' \in [Posts -> PostRow] /\ \A q \in Posts \ {p} : post'[q] = post[q]
            /\ post'[p].at = place /\ post'[p].form = f
      BY <1>1 DEF F!Goes, PostRow
    <2> QED BY <2>1 DEF F!Handle
  <1>3. mailed' \subseteq mailed \cup {f} /\ mailed' \subseteq Forms /\ excused \subseteq excused'
    BY <1>1, <1>2 DEF F!Mail, FormTypes
  <1>4. FormTypes' BY <1>1, <1>2, <1>3 DEF FormTypes
  <1>5. \A q \in Posts : Working(q)' => Working(q) /\ post'[q].form = post[q].form
    BY <1>1, <1>2 DEF Working
  <1>6. FormTurns' BY <1>1, <1>5 DEF FormTurns
  <1>7. f \in mailed => f \in excused BY <1>1 DEF FormSpent
  <1>8. \A q \in Posts \ {p} : Working(q) => post[q].form # f BY <1>1 DEF FormTurns
  <1>9. FormSpent'
    <2> SUFFICES ASSUME NEW g \in mailed' \ excused'
                 PROVE  /\ issued[g] # None
                        /\ Spent(g)' \/ \E q \in Posts : post'[q].at = "sent" /\ post'[q].form = g
                        /\ \A q \in Posts : Working(q)' /\ post'[q].form = g => post'[q].at = "sent"
      BY <1>1 DEF FormSpent
    <2>1. CASE g = f
      <3>1. post'[p].at = "sent" BY <2>1, <1>2, <1>7
      <3> QED BY <2>1, <3>1, <1>1, <1>2, <1>5, <1>8
    <2>2. CASE g # f
      <3>1. g \in mailed \ excused BY <2>2, <1>3
      <3>2. /\ issued[g] # None
            /\ Spent(g) \/ \E q \in Posts : post[q].at = "sent" /\ post[q].form = g
            /\ \A q \in Posts : Working(q) /\ post[q].form = g => post[q].at = "sent"
        BY <3>1 DEF FormSpent
      <3> QED BY <2>2, <3>2, <1>1, <1>2, <1>5 DEF Spent
    <2> QED BY <2>1, <2>2
  <1>10. twice' \subseteq excused' BY <1>2, <1>3, <1>7 DEF F!OneMailPerForm, F!Mail
  <1> QED BY <1>4, <1>6, <1>9, <1>10 DEF F!OneMailPerForm

LEMMA FormFinish == ASSUME FormInv, NEW p \in Posts, F!Finish(p) PROVE FormInv'
  <1> USE DEF FormInv
  <1> DEFINE f == post[p].form
  <1>1. /\ post \in [Posts -> PostRow] /\ post[p].at \in {"finish", "sent", "failed"} /\ f \in Forms /\ issued[f] # None
        /\ UNCHANGED <<clock, issued, mailed, twice, excused>> /\ pending' = pending \ {f} /\ Working(p)
    BY DEF FormTypes, F!Finish, Working
  <1>2. /\ post' \in [Posts -> PostRow] /\ \A q \in Posts \ {p} : post'[q] = post[q]
        /\ post'[p].at = "done" /\ post'[p].form = f
    BY <1>1 DEF F!Finish, F!Goes, PostRow
  <1>3. /\ used' \in [Forms -> Nat \cup {None}] /\ \A g \in Forms \ {f} : used'[g] = used[g]
        /\ used'[f] \in {used[f], clock} /\ clock \in Nat /\ clock # None /\ issued[f] <= clock
        /\ post[p].at = "sent" => used'[f] = clock
    BY <1>1, BoundAssumption, NullAssumption DEF F!Finish, FormTypes
  <1>4. FormTypes'
    <2>1. \A g \in Forms : used'[g] # None => issued[g] # None /\ issued[g] <= used'[g] /\ used'[g] <= clock
      BY <1>1, <1>3 DEF FormTypes
    <2>2. \A q \in Posts : post'[q].at # "idle" => post'[q].form \in Forms /\ issued[post'[q].form] # None
      BY <1>1, <1>2 DEF FormTypes
    <2> QED BY <1>1, <1>2, <1>3, <2>1, <2>2 DEF FormTypes
  <1>5. \A q \in Posts : Working(q)' => Working(q) /\ q # p /\ post'[q] = post[q] /\ post[q].form # f
    BY <1>1, <1>2 DEF Working, FormTurns
  <1>6. FormTurns' BY <1>1, <1>5 DEF FormTurns
  <1>7. FormSpent'
    <2> SUFFICES ASSUME NEW g \in mailed \ excused
                 PROVE  /\ issued[g] # None
                        /\ Spent(g)' \/ \E q \in Posts : post'[q].at = "sent" /\ post'[q].form = g
                        /\ \A q \in Posts : Working(q)' /\ post'[q].form = g => post'[q].at = "sent"
      BY <1>1 DEF FormSpent
    <2>1. /\ issued[g] # None /\ g \in Forms
          /\ Spent(g) \/ \E q \in Posts : post[q].at = "sent" /\ post[q].form = g
          /\ \A q \in Posts : Working(q) /\ post[q].form = g => post[q].at = "sent"
      BY DEF FormSpent, FormTypes
    <2>2. Spent(g) => Spent(g)' BY <1>1, <1>3, <2>1 DEF Spent
    <2>3. post[p].at = "sent" /\ g = f => Spent(g)' BY <1>3 DEF Spent
    <2> QED BY <2>1, <2>2, <2>3, <1>2, <1>5
  <1> QED BY <1>1, <1>4, <1>6, <1>7 DEF F!OneMailPerForm

LEMMA FormOutside ==
  ASSUME FormInv, NEW k, NEW f, F!Restart \/ F!Lapse(k) \/ F!Tick \/ (f \in Forms /\ F!GetToken(f))
  PROVE  FormInv'
  <1> USE DEF FormInv
  <1>1. CASE f \in Forms /\ F!GetToken(f)
    <2>1. /\ issued[f] = None /\ issued' = [issued EXCEPT ![f] = clock] /\ clock \in Nat
          /\ UNCHANGED <<clock, pending, used, post, mailed, twice, excused>>
      BY <1>1 DEF F!GetToken, FormTypes
    <2>2. \A g \in Forms : issued[g] # None => issued'[g] = issued[g] BY <2>1 DEF FormTypes
    <2>a. issued' \in [Forms -> Nat \cup {None}] /\ issued'[f] = clock /\ used[f] = None
      BY <1>1, <2>1 DEF FormTypes
    <2>b. \A g \in Forms : /\ issued'[g] # None => issued'[g] <= clock
                           /\ used[g] # None => issued'[g] # None /\ issued'[g] <= used[g] /\ used[g] <= clock
      BY <1>1, <2>1, <2>a DEF FormTypes
    <2>3. FormTypes' BY <2>1, <2>2, <2>a, <2>b DEF FormTypes
    <2>4. FormTurns' BY <2>1 DEF FormTurns, Working
    <2>5. FormSpent' BY <2>1, <2>2 DEF FormSpent, Spent, FormTypes, Working
    <2> QED BY <2>1, <2>3, <2>4, <2>5 DEF F!OneMailPerForm
  <1>2. CASE F!Restart
    <2>1. /\ pending' = {} /\ used' = [g \in Forms |-> None] /\ post' = [q \in Posts |-> F!NoPost]
          /\ UNCHANGED <<clock, issued, mailed, twice>> /\ mailed \cup excused \subseteq excused' \cup mailed
          /\ \A g \in mailed : g \in Forms => g \in excused'
          /\ excused \subseteq excused'
      BY <1>2 DEF F!Restart
    <2>2. post' \in [Posts -> PostRow] /\ \A q \in Posts : post'[q].at = "idle"
      BY <2>1 DEF F!NoPost, PostRow
    <2>3. FormTypes' BY <2>1, <2>2 DEF FormTypes
    <2>4. FormTurns' BY <2>2 DEF FormTurns, Working
    <2>5. FormSpent' BY <2>1 DEF FormSpent, FormTypes
    <2> QED BY <2>1, <2>3, <2>4, <2>5 DEF F!OneMailPerForm
  <1>3. CASE F!Lapse(k)
    <2>1. UNCHANGED <<clock, issued, pending, used, post, mailed, twice, excused>> BY <1>3 DEF F!Lapse
    <2> QED BY <2>1 DEF FormTypes, FormTurns, FormSpent, Spent, Working, F!OneMailPerForm
  <1>4. CASE F!Tick
    <2>1. /\ clock' = clock + 1 /\ clock' \in 0 .. MaxClock /\ clock \in Nat
          /\ UNCHANGED <<issued, pending, used, post, mailed, twice, excused>>
      BY <1>4, BoundAssumption DEF F!Tick, FormTypes
    <2>2. FormTypes' BY <2>1 DEF FormTypes
    <2>3. FormTurns' BY <2>1 DEF FormTurns, Working
    <2>4. \A g \in Forms : issued[g] # None /\ Spent(g) => Spent(g)'
      BY <2>1, BoundAssumption DEF Spent, FormTypes
    <2>5. FormSpent' BY <2>1, <2>4 DEF FormSpent, FormTypes, Working
    <2> QED BY <2>1, <2>2, <2>3, <2>5 DEF F!OneMailPerForm
  <1> QED BY <1>1, <1>2, <1>3, <1>4

LEMMA FormStep == ASSUME FormInv, F!Next \/ UNCHANGED formVars PROVE FormInv'
  <1>1. CASE F!Next
    <2>1. ASSUME NEW f \in Forms, F!GetToken(f) \/ \E p \in Posts : F!Post(p, f) PROVE FormInv'
      BY <2>1, FormOutside, FormQuiet DEF F!Windows
    <2>3. ASSUME NEW p \in Posts, F!Handler(p) \/ F!Cancel(p) PROVE FormInv'
      <3>1. CASE (\E k \in F!Windows : F!Limit(p, k)) \/ F!Answer(p) \/ F!Cancel(p)
        BY <3>1, FormQuiet DEF F!Windows
      <3>2. CASE F!Reserve(p) \/ F!Handle(p) \/ F!Finish(p)
        BY <3>2, FormReserve, FormHandle, FormFinish
      <3> QED BY <2>3, <3>1, <3>2 DEF F!Handler
    <2>4. CASE F!Restart \/ F!Tick \/ \E k \in F!Windows : F!Lapse(k)
      BY <2>4, FormOutside
    <2> QED BY <1>1, <2>1, <2>3, <2>4 DEF F!Next
  <1>2. CASE UNCHANGED formVars
    BY <1>2 DEF formVars, FormInv, FormTypes, FormTurns, FormSpent, Spent, Working, F!OneMailPerForm
  <1> QED BY <1>1, <1>2

LEMMA FormTypeOK == ASSUME FormInv PROVE F!TypeOK
  BY DEF FormInv, FormTypes, F!TypeOK

-----------------------------------------------------------------------------
(* PolygonLookup.  An answer is about the geometry of its key or a later one, and who *)
(* sleeps in the lock is the first in line and wakes when the interval is over.       *)
TaskRow(n)  == [at : {"none", "begun", "queued", "sleeping", "asking", "done", "failed"},
                of : 0 .. n, local : BOOLEAN, wait : 0 .. Interval]
VisitRow(n) == [at : {"idle", "local", "closed", "waiting", "answered"}, key : 1 .. n, of : 0 .. n, local : BOOLEAN]

LookupTypes ==
  /\ edition \in L!Versions /\ answers \in [L!Versions -> 0 .. edition]
  /\ task \in [L!Versions -> TaskRow(edition)] /\ visit \in [Visits -> VisitRow(edition)]
  /\ line \in Seq(L!Versions) /\ pause \in 0 .. Interval

LookupFresh ==
  /\ \A k \in L!Versions : /\ answers[k] # 0 => k <= answers[k]
                           /\ task[k].at # "none" => k <= task[k].of
  /\ \A v \in Visits :
       /\ visit[v].at = "answered" => visit[v].key <= visit[v].of
       /\ visit[v].at = "closed" /\ visit[v].local => visit[v].key <= visit[v].of

LookupTurns ==
  \A k \in L!Versions :
    /\ task[k].at = "queued" => \E i \in 1 .. Len(line) : line[i] = k
    /\ task[k].at = "sleeping" => line # <<>> /\ k = Head(line) /\ task[k].wait = Interval - pause

LookupInv == LookupTypes /\ LookupFresh /\ LookupTurns /\ L!Spaced

LEMMA LookupBounds == MaxVersion \in Nat /\ MaxVersion > 0 /\ Interval \in Nat /\ L!Versions = 1 .. MaxVersion
  BY BoundAssumption DEF L!Versions

LEMMA LookupIdle ==
  ASSUME NEW n \in Nat, n >= 1
  PROVE  /\ L!Idle \in VisitRow(n) /\ L!Idle.at = "idle"
         /\ L!NoTask \in TaskRow(n) /\ L!NoTask.at = "none"
  <1>1. 1 \in 1 .. n /\ 0 \in 0 .. n /\ 0 \in 0 .. Interval BY LookupBounds
  <1>2. L!Idle \in VisitRow(n) /\ L!Idle.at = "idle" BY <1>1 DEF L!Idle, VisitRow
  <1>3. L!NoTask \in TaskRow(n) /\ L!NoTask.at = "none" BY <1>1 DEF L!NoTask, TaskRow
  <1> QED BY <1>2, <1>3

LEMMA LookupInit == ASSUME L!Init PROVE LookupInv
  <1>1. edition = 1 /\ edition \in L!Versions BY LookupBounds DEF L!Init
  <1>2. L!NoTask \in TaskRow(edition) /\ L!NoTask.at = "none" BY <1>1, LookupBounds DEF L!NoTask, TaskRow
  <1>3. L!Idle \in VisitRow(edition) /\ L!Idle.at = "idle" BY <1>1 DEF L!Idle, VisitRow
  <1>4. task \in [L!Versions -> TaskRow(edition)] /\ visit \in [Visits -> VisitRow(edition)]
    BY <1>2, <1>3 DEF L!Init
  <1>5. answers \in [L!Versions -> 0 .. edition] /\ \A k \in L!Versions : answers[k] = 0 BY <1>1 DEF L!Init
  <1>6. <<>> \in Seq(L!Versions) /\ pause \in 0 .. Interval BY LookupBounds DEF L!Init
  <1>7. LookupTypes BY <1>1, <1>4, <1>5, <1>6 DEF L!Init, LookupTypes
  <1>8. \A k \in L!Versions : task[k].at = "none" BY <1>2 DEF L!Init
  <1>9. \A v \in Visits : visit[v].at = "idle" BY <1>3 DEF L!Init
  <1> QED BY <1>5, <1>7, <1>8, <1>9 DEF LookupInv, LookupFresh, LookupTurns, L!Spaced, L!Init

LEMMA LookupOutside == ASSUME LookupInv, L!Edit \/ L!Lapse \/ L!Tick PROVE LookupInv'
  <1> USE LookupBounds DEF LookupInv
  <1>1. CASE L!Edit
    <2>1. /\ edition' = edition + 1 /\ edition' \in L!Versions /\ edition \in Nat
          /\ UNCHANGED <<answers, task, line, pause, visit, crowded>>
      BY <1>1 DEF L!Edit, LookupTypes
    <2>2. 0 .. edition \subseteq 0 .. edition' /\ 1 .. edition \subseteq 1 .. edition' BY <2>1
    <2>3. TaskRow(edition) \subseteq TaskRow(edition') /\ VisitRow(edition) \subseteq VisitRow(edition')
      BY <2>2 DEF TaskRow, VisitRow
    <2>4. /\ answers' \in [L!Versions -> 0 .. edition'] /\ task' \in [L!Versions -> TaskRow(edition')]
          /\ visit' \in [Visits -> VisitRow(edition')]
      BY <2>1, <2>2, <2>3 DEF LookupTypes
    <2>5. LookupTypes' BY <2>1, <2>4 DEF LookupTypes
    <2> QED BY <2>1, <2>5 DEF LookupFresh, LookupTurns, L!Spaced
  <1>2. CASE L!Lapse
    <2>1. PICK k \in L!Versions : answers' = [answers EXCEPT ![k] = 0] BY <1>2 DEF L!Lapse
    <2>2. UNCHANGED <<edition, task, line, pause, visit, crowded>> BY <1>2 DEF L!Lapse
    <2>3. answers' \in [L!Versions -> 0 .. edition] BY <2>1 DEF LookupTypes
    <2>4. LookupTypes' BY <2>2, <2>3 DEF LookupTypes
    <2> QED BY <2>1, <2>2, <2>4 DEF LookupTypes, LookupFresh, LookupTurns, L!Spaced
  <1>3. CASE L!Tick
    <2>1. /\ pause < Interval /\ pause' = pause + 1 /\ UNCHANGED <<edition, answers, line, visit, crowded>>
          /\ task' = [k \in L!Versions |-> [task[k] EXCEPT !.wait = IF @ = 0 THEN 0 ELSE @ - 1]]
      BY <1>3 DEF L!Tick
    <2>2. pause \in Nat /\ pause' \in 0 .. Interval /\ edition \in Nat BY <2>1 DEF LookupTypes
    <2>3. ASSUME NEW k \in L!Versions
          PROVE  /\ task'[k] \in TaskRow(edition) /\ task'[k].at = task[k].at /\ task'[k].of = task[k].of
                 /\ task'[k].wait = IF task[k].wait = 0 THEN 0 ELSE task[k].wait - 1
      <3>1. task[k] \in TaskRow(edition) BY DEF LookupTypes
      <3> QED BY <2>1, <3>1 DEF TaskRow
    <2>4. LookupTypes' BY <2>1, <2>2, <2>3 DEF LookupTypes
    <2>5. LookupFresh' BY <2>1, <2>3 DEF LookupFresh
    <2>6. LookupTurns'
      <3> SUFFICES ASSUME NEW k \in L!Versions
                   PROVE  /\ task'[k].at = "queued" => \E i \in 1 .. Len(line') : line'[i] = k
                          /\ task'[k].at = "sleeping" => /\ line' # <<>> /\ k = Head(line')
                                                         /\ task'[k].wait = Interval - pause'
        BY DEF LookupTurns
      <3>1. /\ task[k].at = "queued" => \E i \in 1 .. Len(line) : line[i] = k
            /\ task[k].at = "sleeping" => line # <<>> /\ k = Head(line) /\ task[k].wait = Interval - pause
        BY DEF LookupTurns
      <3>2. task'[k].at = task[k].at /\ task'[k].wait = IF task[k].wait = 0 THEN 0 ELSE task[k].wait - 1 BY <2>3
      <3>3. task[k].wait = Interval - pause => task'[k].wait = Interval - pause' BY <2>1, <2>2, <3>2
      <3> QED BY <2>1, <3>1, <3>2, <3>3
    <2> QED BY <2>1, <2>4, <2>5, <2>6 DEF L!Spaced
  <1> QED BY <1>1, <1>2, <1>3

(* A request goes on; the task it shares is there or begins. *)
LEMMA LookupVisit == ASSUME LookupInv, NEW v \in Visits, L!Read(v) \/ L!LocalMatches(v) \/ L!Leave(v) \/ L!Keep(v)
                     PROVE  LookupInv'
  <1> USE LookupBounds DEF LookupInv
  <1>0. /\ edition \in L!Versions /\ edition \in Nat /\ edition >= 1 /\ visit[v] \in VisitRow(edition)
        /\ visit \in [Visits -> VisitRow(edition)]
    BY DEF LookupTypes
  <1>i. L!Idle \in VisitRow(edition) /\ L!Idle.at = "idle" BY <1>0, LookupIdle
  <1>u. UNCHANGED <<edition, task, line, pause, crowded>> BY DEF L!Read, L!LocalMatches, L!Leave, L!Keep
  <1>1. /\ edition \in L!Versions /\ edition \in Nat /\ visit[v] \in VisitRow(edition)
        /\ visit \in [Visits -> VisitRow(edition)] /\ L!Idle \in VisitRow(edition) /\ L!Idle.at = "idle"
        /\ UNCHANGED <<edition, task, line, pause, crowded>>
    BY <1>0, <1>i, <1>u
  <1>2. PICK new : /\ visit' = [visit EXCEPT ![v] = new] /\ new \in VisitRow(edition)
                   /\ new.at # "answered" /\ (new.at = "closed" => new.key <= new.of)
    <2>1. CASE L!Read(v)
      <3> DEFINE new == [L!Idle EXCEPT !.at = "local", !.key = L!KeyOf(edition)]
      <3>1. visit' = [visit EXCEPT ![v] = new] BY <2>1 DEF L!Read
      <3>a. edition \in 1 .. edition /\ 0 \in 0 .. edition BY <1>0
      <3>b. new.at = "local" /\ new.key = edition BY DEF L!KeyOf, L!Idle
      <3>2. new \in [at : {"local"}, key : {edition}, of : {0}, local : {FALSE}] BY DEF L!KeyOf, L!Idle
      <3> HIDE DEF new
      <3>3. new \in VisitRow(edition) /\ new.at = "local" BY <3>2, <3>a, <3>b DEF VisitRow
      <3> USE DEF new
      <3> QED BY <3>1, <3>3
    <2>2. CASE L!LocalMatches(v)
      <3>1. CASE L!End(v) BY <3>1, <1>1 DEF L!End
      <3>2. ASSUME NEW found \in BOOLEAN,
                   visit' = [visit EXCEPT ![v] = [@ EXCEPT !.at = "closed", !.of = edition, !.local = found]]
            PROVE  \E new : /\ visit' = [visit EXCEPT ![v] = new] /\ new \in VisitRow(edition)
                            /\ new.at # "answered" /\ (new.at = "closed" => new.key <= new.of)
        <4> DEFINE new == [visit[v] EXCEPT !.at = "closed", !.of = edition, !.local = found]
        <4>a. visit[v].key \in 1 .. edition /\ edition \in 0 .. edition BY <1>0 DEF VisitRow
        <4>b. new \in VisitRow(edition) BY <1>0, <4>a, <3>2 DEF VisitRow
        <4>c. new.at = "closed" /\ new.key = visit[v].key /\ new.of = edition BY <1>0 DEF VisitRow
        <4>1. new \in VisitRow(edition) /\ new.at = "closed" /\ new.key <= new.of BY <1>0, <4>a, <4>b, <4>c
        <4>2. visit' = [visit EXCEPT ![v] = new] BY <3>2
        <4> HIDE DEF new
        <4> QED BY <4>1, <4>2
      <3> QED BY <2>2, <3>1, <3>2 DEF L!LocalMatches
    <2>3. CASE L!Leave(v) \/ L!Keep(v) BY <2>3, <1>1 DEF L!Leave, L!Keep, L!End
    <2> QED BY <2>1, <2>2, <2>3
  <1>3. visit' \in [Visits -> VisitRow(edition)] /\ visit'[v] = new /\ \A w \in Visits \ {v} : visit'[w] = visit[w]
    BY <1>1, <1>2
  <1>4. answers' \in [L!Versions -> 0 .. edition] /\ \A k \in L!Versions : answers'[k] # 0 => k <= answers'[k]
    <2>1. CASE L!Keep(v)
      <3>1. /\ visit[v].at = "answered"
            /\ answers' = [k \in L!Versions |-> IF k = visit[v].key THEN visit[v].of ELSE 0]
        BY <2>1 DEF L!Keep
      <3>2. visit[v].of \in 0 .. edition /\ visit[v].key <= visit[v].of BY <1>1, <3>1 DEF VisitRow, LookupFresh
      <3> QED BY <1>1, <3>1, <3>2
    <2>2. CASE answers' = answers BY <2>2 DEF LookupTypes, LookupFresh
    <2> QED BY <2>1, <2>2 DEF L!Read, L!LocalMatches, L!Leave
  <1>5. LookupTypes' BY <1>1, <1>3, <1>4 DEF LookupTypes
  <1>6. LookupFresh' BY <1>1, <1>2, <1>3, <1>4 DEF LookupFresh
  <1>7. LookupTurns' BY <1>1 DEF LookupTurns
  <1> QED BY <1>1, <1>5, <1>6, <1>7 DEF L!Spaced

LEMMA LookupShare == ASSUME LookupInv, NEW v \in Visits, L!Share(v) PROVE LookupInv'
  <1> USE LookupBounds DEF LookupInv
  <1> DEFINE k == visit[v].key
  <1> DEFINE about == IF visit[v].local THEN visit[v].of ELSE k
  <1> DEFINE new == [L!NoTask EXCEPT !.at = "begun", !.of = about, !.local = visit[v].local]
  <1>1. /\ visit[v].at = "closed" /\ task' = (IF task[k].at = "none" THEN [task EXCEPT ![k] = new] ELSE task)
        /\ visit' = [visit EXCEPT ![v] =
             CASE task[k].at = "done"   -> [@ EXCEPT !.at = "answered", !.of = task[k].of]
               [] task[k].at = "failed" -> L!Idle
               [] OTHER                 -> [@ EXCEPT !.at = "waiting", !.of = 0]]
        /\ UNCHANGED <<edition, answers, line, pause, crowded>>
    BY DEF L!Share
  <1>2. /\ edition \in L!Versions /\ edition \in Nat /\ visit[v] \in VisitRow(edition) /\ k \in 1 .. edition
        /\ k \in L!Versions /\ visit \in [Visits -> VisitRow(edition)] /\ task \in [L!Versions -> TaskRow(edition)]
        /\ task[k] \in TaskRow(edition) /\ visit[v].of \in 0 .. edition /\ visit[v].local \in BOOLEAN
        /\ task[k].of \in 0 .. edition
    <2>1. edition \in L!Versions /\ visit \in [Visits -> VisitRow(edition)] /\ task \in [L!Versions -> TaskRow(edition)]
      BY DEF LookupTypes
    <2>2. edition \in Nat /\ 1 .. edition \subseteq L!Versions BY <2>1
    <2>3. visit[v] \in VisitRow(edition) BY <2>1
    <2>4. k \in 1 .. edition /\ visit[v].of \in 0 .. edition /\ visit[v].local \in BOOLEAN BY <2>3 DEF VisitRow
    <2>5. k \in L!Versions BY <2>2, <2>4
    <2>6. task[k] \in TaskRow(edition) BY <2>1, <2>5
    <2>7. task[k].of \in 0 .. edition BY <2>6 DEF TaskRow
    <2> QED BY <2>1, <2>2, <2>3, <2>4, <2>5, <2>6, <2>7
  <1>3. about \in 0 .. edition /\ k <= about BY <1>1, <1>2 DEF LookupFresh
  <1> HIDE DEF about
  <1>z. 0 \in 0 .. Interval OBVIOUS
  <1>m. new \in [at : {"begun"}, of : {about}, local : {visit[v].local}, wait : {0}] BY DEF L!NoTask
  <1>n. new.at = "begun" /\ new.of = about BY DEF L!NoTask
  <1> HIDE DEF new
  <1>4. new \in TaskRow(edition) /\ new.at = "begun" /\ new.of = about BY <1>m, <1>n, <1>z, <1>2, <1>3 DEF TaskRow
  <1>5. task' \in [L!Versions -> TaskRow(edition)] /\ \A j \in L!Versions : task'[j] = task[j] \/ (j = k /\ task'[j] = new)
    BY <1>1, <1>2, <1>4
  <1> DEFINE to == CASE task[k].at = "done"   -> [visit[v] EXCEPT !.at = "answered", !.of = task[k].of]
                     [] task[k].at = "failed" -> L!Idle
                     [] OTHER                 -> [visit[v] EXCEPT !.at = "waiting", !.of = 0]
  <1>6. to \in VisitRow(edition) /\ to.at # "closed" /\ (to.at = "answered" => to.key <= to.of)
    <2>1. CASE task[k].at = "done"
      <3>1. to = [visit[v] EXCEPT !.at = "answered", !.of = task[k].of] BY <2>1
      <3>2. k <= task[k].of BY <2>1, <1>2 DEF LookupFresh
      <3> HIDE DEF to
      <3> QED BY <3>1, <3>2, <1>2 DEF VisitRow
    <2>2. CASE task[k].at = "failed"
      <3>1. to = L!Idle BY <2>2
      <3>2. L!Idle \in VisitRow(edition) /\ L!Idle.at = "idle" BY <1>2, LookupIdle
      <3> HIDE DEF to
      <3> QED BY <3>1, <3>2
    <2>3. CASE task[k].at \notin {"done", "failed"}
      <3>1. to = [visit[v] EXCEPT !.at = "waiting", !.of = 0] BY <2>3
      <3> HIDE DEF to
      <3>2. 0 \in 0 .. edition BY <1>2
      <3>3. to \in VisitRow(edition) BY <3>1, <3>2, <1>2 DEF VisitRow
      <3>4. to.at = "waiting" BY <3>1, <1>2 DEF VisitRow
      <3> QED BY <3>3, <3>4
    <2> QED BY <2>1, <2>2, <2>3
  <1>7. visit' = [visit EXCEPT ![v] = to] BY <1>1
  <1> HIDE DEF to, k
  <1>8. visit' \in [Visits -> VisitRow(edition)] /\ visit'[v] = to /\ \A w \in Visits \ {v} : visit'[w] = visit[w]
    BY <1>2, <1>6, <1>7
  <1>9. LookupTypes' BY <1>1, <1>5, <1>8 DEF LookupTypes
  <1>10. LookupFresh' BY <1>1, <1>3, <1>4, <1>5, <1>6, <1>8 DEF LookupFresh
  <1>11. LookupTurns' BY <1>1, <1>4, <1>5 DEF LookupTurns
  <1> QED BY <1>1, <1>9, <1>10, <1>11 DEF L!Spaced

(* A task moves to another place, and what it answers stays its own. *)
LEMMA LookupMoves ==
  ASSUME LookupInv, NEW k \in L!Versions, NEW place \in {"queued", "asking", "done", "failed"},
         L!TaskAt(k, place), task[k].at # "none"
  PROVE  /\ task' \in [L!Versions -> TaskRow(edition)]
         /\ task'[k].at = place /\ task'[k].of = task[k].of
         /\ \A j \in L!Versions : j # k => task'[j] = task[j]
  <1>1. task \in [L!Versions -> TaskRow(edition)] /\ task[k] \in TaskRow(edition) BY DEF LookupInv, LookupTypes
  <1> DEFINE new == [task[k] EXCEPT !.at = place]
  <1>2. new \in TaskRow(edition) BY <1>1 DEF TaskRow
  <1>3. new.at = place /\ new.of = task[k].of BY <1>1 DEF TaskRow
  <1>4. task' = [task EXCEPT ![k] = new] BY DEF L!TaskAt
  <1> HIDE DEF new
  <1> QED BY <1>1, <1>2, <1>3, <1>4

LEMMA LookupFinish ==
  ASSUME LookupInv, NEW k \in L!Versions, task[k].at \in {"begun", "asking"}, L!Finish(k),
         UNCHANGED <<edition, answers, line, pause, crowded>>
  PROVE  LookupInv'
  <1> USE LookupBounds DEF LookupInv
  <1>1. /\ task' \in [L!Versions -> TaskRow(edition)]
        /\ task'[k].at = "done" /\ task'[k].of = task[k].of
        /\ \A j \in L!Versions : j # k => task'[j] = task[j]
    BY LookupMoves DEF L!Finish
  <1>2. /\ edition \in Nat /\ task[k] \in TaskRow(edition) /\ visit \in [Visits -> VisitRow(edition)]
        /\ task[k].of \in 0 .. edition
    <2>1. edition \in L!Versions /\ task[k] \in TaskRow(edition) /\ visit \in [Visits -> VisitRow(edition)]
      BY DEF LookupTypes
    <2>2. edition \in Nat BY <2>1
    <2>3. task[k].of \in 0 .. edition BY <2>1 DEF TaskRow
    <2> QED BY <2>1, <2>2, <2>3
  <1>3. ASSUME NEW v \in Visits
        PROVE  /\ visit'[v] \in VisitRow(edition)
               /\ visit'[v] = visit[v] \/ (visit'[v].at = "answered" /\ visit'[v].key <= visit'[v].of)
    <2> DEFINE new == [visit[v] EXCEPT !.at = "answered", !.of = task[k].of]
    <2>1. visit[v] \in VisitRow(edition) BY <1>2
    <2>2. CASE v \in L!Waiting(k)
      <3>1. visit[v].key = k /\ k <= task[k].of BY <2>2 DEF L!Waiting, LookupFresh
      <3>2. new \in VisitRow(edition) BY <1>2, <2>1 DEF VisitRow
      <3>3. new.at = "answered" /\ new.key = k /\ new.of = task[k].of BY <2>1, <3>1 DEF VisitRow
      <3>4. visit'[v] = new BY <2>2 DEF L!Finish
      <3> HIDE DEF new
      <3> QED BY <3>1, <3>2, <3>3, <3>4
    <2>3. CASE v \notin L!Waiting(k)
      <3>1. visit'[v] = visit[v] BY <2>3 DEF L!Finish
      <3> QED BY <2>1, <3>1
    <2> QED BY <2>2, <2>3
  <1>4. visit' \in [Visits -> VisitRow(edition)]
    <2>1. visit' = [v \in Visits |-> visit'[v]] BY DEF L!Finish
    <2> QED BY <1>3, <2>1
  <1>5. LookupTypes' BY <1>1, <1>4 DEF LookupTypes
  <1>6. LookupFresh' BY <1>1, <1>3 DEF LookupFresh
  <1>7. LookupTurns' BY <1>1 DEF LookupTurns
  <1> QED BY <1>5, <1>6, <1>7 DEF L!Spaced

LEMMA LookupLookup == ASSUME LookupInv, NEW k \in L!Versions, L!Lookup(k) PROVE LookupInv'
  <1>1. CASE L!Finish(k) /\ UNCHANGED line BY <1>1, LookupFinish DEF L!Lookup
  <1>2. CASE L!TaskAt(k, "queued") /\ line' = Append(line, k) /\ UNCHANGED visit
    <2> USE DEF LookupInv
    <2>1. task[k].at = "begun" /\ UNCHANGED <<edition, answers, pause, crowded, visit>> BY <1>2 DEF L!Lookup
    <2>2. /\ task' \in [L!Versions -> TaskRow(edition)]
          /\ task'[k].at = "queued" /\ task'[k].of = task[k].of
          /\ \A j \in L!Versions : j # k => task'[j] = task[j]
      BY <1>2, <2>1, LookupMoves
    <2>3. line \in Seq(L!Versions) BY DEF LookupTypes
    <2>4. /\ line' \in Seq(L!Versions) /\ Len(line') = Len(line) + 1 /\ line'[Len(line) + 1] = k
          /\ \A i \in 1 .. Len(line) : line'[i] = line[i]
      BY <1>2, <2>3, AppendProperties
    <2>5. Len(line) \in Nat BY <2>3
    <2>6. line # <<>> => line' # <<>> /\ Head(line') = Head(line)
      <3>1. line # <<>> => Len(line) >= 1 BY <2>3, EmptySeq
      <3>2. line' # <<>> BY <2>4, <2>5
      <3> QED BY <2>3, <2>4, <2>5, <3>1, <3>2
    <2>7. LookupTypes' BY <2>1, <2>2, <2>4 DEF LookupTypes
    <2>8. LookupFresh' BY <2>1, <2>2 DEF LookupFresh
    <2>9. ASSUME NEW j \in L!Versions
          PROVE  /\ task'[j].at = "queued" => \E i \in 1 .. Len(line') : line'[i] = j
                 /\ task'[j].at = "sleeping" => line' # <<>> /\ j = Head(line') /\ task'[j].wait = Interval - pause'
      <3>1. CASE j = k BY <3>1, <2>2, <2>4, <2>5
      <3>2. CASE j # k
        <4>1. task'[j] = task[j] BY <3>2, <2>2
        <4>2. task[j].at = "queued" => \E i \in 1 .. Len(line') : line'[i] = j BY <2>4, <2>5 DEF LookupTurns
        <4>3. task[j].at = "sleeping" => line' # <<>> /\ j = Head(line') /\ task[j].wait = Interval - pause'
          BY <2>1, <2>6 DEF LookupTurns
        <4> QED BY <4>1, <4>2, <4>3
      <3> QED BY <3>1, <3>2
    <2>10. LookupTurns' BY <2>9 DEF LookupTurns
    <2> QED BY <2>1, <2>7, <2>8, <2>10 DEF L!Spaced
  <1> QED BY <1>1, <1>2 DEF L!Lookup

LEMMA LookupEnter == ASSUME LookupInv, NEW k \in L!Versions, L!Enter(k) PROVE LookupInv'
  <1> USE LookupBounds DEF LookupInv
  <1> DEFINE new == [task[k] EXCEPT !.at = "sleeping", !.wait = Interval - pause]
  <1>1. /\ task[k].at = "queued" /\ k = Head(line) /\ UNCHANGED <<edition, answers, line, pause, visit, crowded>>
        /\ task' = [task EXCEPT ![k] = new]
    BY DEF L!Enter, L!FirstInLine
  <1>2. /\ task \in [L!Versions -> TaskRow(edition)] /\ task[k] \in TaskRow(edition) /\ pause \in 0 .. Interval
        /\ Interval - pause \in 0 .. Interval
    BY DEF LookupTypes
  <1>3. new \in TaskRow(edition) BY <1>2 DEF TaskRow
  <1>4. new.at = "sleeping" /\ new.of = task[k].of /\ new.wait = Interval - pause BY <1>2 DEF TaskRow
  <1>5. line # <<>> BY <1>1 DEF LookupTurns, LookupTypes
  <1> HIDE DEF new
  <1>6. /\ task' \in [L!Versions -> TaskRow(edition)] /\ task'[k] = new
        /\ \A j \in L!Versions : j # k => task'[j] = task[j]
    BY <1>1, <1>2, <1>3
  <1>7. LookupTypes' BY <1>1, <1>6 DEF LookupTypes
  <1>8. LookupFresh' BY <1>1, <1>4, <1>6 DEF LookupFresh
  <1>9. LookupTurns' BY <1>1, <1>4, <1>5, <1>6 DEF LookupTurns
  <1> QED BY <1>1, <1>7, <1>8, <1>9 DEF L!Spaced

(* The lock goes to the next in line; nobody else slept in it. *)
LEMMA LookupAwake == ASSUME LookupInv, NEW k \in L!Versions, L!Awake(k) PROVE LookupInv'
  <1> USE LookupBounds DEF LookupInv
  <1>1. /\ task[k].at = "sleeping" /\ task[k].wait = 0 /\ L!TaskAt(k, "asking") /\ line' = Tail(line)
        /\ crowded' = (crowded \/ pause < Interval) /\ pause' = 0 /\ UNCHANGED <<edition, answers, visit>>
    BY DEF L!Awake
  <1>2. line \in Seq(L!Versions) /\ line # <<>> /\ k = Head(line) /\ pause = Interval /\ pause' \in 0 .. Interval
    <2>1. line \in Seq(L!Versions) /\ pause \in 0 .. Interval BY DEF LookupTypes
    <2>2. line # <<>> /\ k = Head(line) /\ task[k].wait = Interval - pause BY <1>1 DEF LookupTurns
    <2>3. pause = Interval /\ 0 \in 0 .. Interval BY <1>1, <2>1, <2>2
    <2> QED BY <1>1, <2>1, <2>2, <2>3
  <1>3. /\ task' \in [L!Versions -> TaskRow(edition)]
        /\ task'[k].at = "asking" /\ task'[k].of = task[k].of
        /\ \A j \in L!Versions : j # k => task'[j] = task[j]
    BY <1>1, LookupMoves
  <1>4. /\ line' \in Seq(L!Versions) /\ Len(line) \in Nat /\ Len(line) > 0 /\ Len(line') = Len(line) - 1
        /\ \A i \in 1 .. Len(line) - 1 : line'[i] = line[i + 1]
        /\ line[1] = k
    BY <1>1, <1>2, HeadTailProperties
  <1>5. LookupTypes' BY <1>1, <1>2, <1>3, <1>4 DEF LookupTypes
  <1>6. LookupFresh' BY <1>1, <1>3 DEF LookupFresh
  <1>7. ASSUME NEW j \in L!Versions
        PROVE  /\ task'[j].at = "queued" => \E i \in 1 .. Len(line') : line'[i] = j
               /\ task'[j].at # "sleeping"
    <2>1. CASE j = k BY <2>1, <1>3
    <2>2. CASE j # k
      <3>1. task'[j] = task[j] BY <2>2, <1>3
      <3>2. task[j].at # "sleeping" BY <2>2, <1>2 DEF LookupTurns
      <3>3. ASSUME task[j].at = "queued" PROVE \E i \in 1 .. Len(line') : line'[i] = j
        <4>1. PICK i \in 1 .. Len(line) : line[i] = j BY <3>3 DEF LookupTurns
        <4>2. i # 1 BY <4>1, <2>2, <1>4
        <4> DEFINE n == Len(line)
        <4>3. n \in Nat /\ i \in 1 .. n BY <1>4
        <4> HIDE DEF n
        <4>4. i - 1 \in 1 .. n - 1 /\ (i - 1) + 1 = i BY <4>2, <4>3
        <4> USE DEF n
        <4>5. i - 1 \in 1 .. Len(line') /\ line'[i - 1] = j BY <4>1, <4>4, <1>4
        <4> QED BY <4>5
      <3> QED BY <3>1, <3>2, <3>3
    <2> QED BY <2>1, <2>2
  <1>8. LookupTurns' BY <1>7 DEF LookupTurns
  <1>9. ~(pause < Interval) BY <1>2
  <1>10. ~crowded' BY <1>1, <1>9, Zenon DEF L!Spaced
  <1> QED BY <1>5, <1>6, <1>8, <1>10 DEF L!Spaced

LEMMA LookupOverpass == ASSUME LookupInv, NEW k \in L!Versions, L!Overpass(k) PROVE LookupInv'
  <1>1. CASE L!Finish(k) BY <1>1, LookupFinish DEF L!Overpass
  <1>2. CASE L!TaskAt(k, "failed") /\ visit' = [v \in Visits |-> IF v \in L!Waiting(k) THEN L!Idle ELSE visit[v]]
    <2> USE DEF LookupInv
    <2>1. task[k].at = "asking" /\ UNCHANGED <<edition, answers, line, pause, crowded>> BY <1>2 DEF L!Overpass
    <2>2. /\ task' \in [L!Versions -> TaskRow(edition)]
          /\ task'[k].at = "failed" /\ task'[k].of = task[k].of
          /\ \A j \in L!Versions : j # k => task'[j] = task[j]
      BY <1>2, <2>1, LookupMoves
    <2>3. L!Idle \in VisitRow(edition) /\ L!Idle.at = "idle"
      <3>1. edition \in Nat /\ edition >= 1 BY LookupBounds DEF LookupTypes
      <3> QED BY <3>1, LookupIdle
    <2>4. \A v \in Visits : visit'[v] = visit[v] \/ visit'[v] = L!Idle BY <1>2
    <2>5. visit' \in [Visits -> VisitRow(edition)] BY <1>2, <2>3 DEF LookupTypes
    <2>6. LookupTypes' BY <2>1, <2>2, <2>5 DEF LookupTypes
    <2>7. LookupFresh' BY <2>1, <2>2, <2>3, <2>4 DEF LookupFresh
    <2>8. LookupTurns' BY <2>1, <2>2 DEF LookupTurns
    <2> QED BY <2>1, <2>6, <2>7, <2>8 DEF L!Spaced
  <1> QED BY <1>1, <1>2 DEF L!Overpass

LEMMA LookupCleanup == ASSUME LookupInv, NEW k \in L!Versions, L!Cleanup(k) PROVE LookupInv'
  <1> USE DEF LookupInv
  <1>1. task' = [task EXCEPT ![k] = L!NoTask] /\ UNCHANGED <<edition, answers, line, pause, visit, crowded>>
    BY DEF L!Cleanup
  <1>2. L!NoTask \in TaskRow(edition) /\ L!NoTask.at = "none"
    <2>1. edition \in Nat /\ edition >= 1 BY LookupBounds DEF LookupTypes
    <2> QED BY <2>1, LookupIdle
  <1>3. /\ task' \in [L!Versions -> TaskRow(edition)] /\ task'[k] = L!NoTask
        /\ \A j \in L!Versions : j # k => task'[j] = task[j]
    BY <1>1, <1>2 DEF LookupTypes
  <1>4. LookupTypes' BY <1>1, <1>3 DEF LookupTypes
  <1>5. LookupFresh' BY <1>1, <1>2, <1>3 DEF LookupFresh
  <1>6. LookupTurns' BY <1>1, <1>2, <1>3 DEF LookupTurns
  <1> QED BY <1>1, <1>4, <1>5, <1>6 DEF L!Spaced

LEMMA LookupStep == ASSUME LookupInv, L!Next PROVE LookupInv'
  <1>1. CASE L!Edit \/ L!Lapse \/ L!Tick BY <1>1, LookupOutside
  <1>2. CASE \E v \in Visits : L!Read(v) \/ L!Visit(v) \/ L!Leave(v)
    BY <1>2, LookupVisit, LookupShare DEF L!Visit
  <1>3. CASE \E k \in L!Versions : L!Task(k)
    BY <1>3, LookupLookup, LookupEnter, LookupAwake, LookupOverpass, LookupCleanup DEF L!Task
  <1> QED BY <1>1, <1>2, <1>3 DEF L!Next

LEMMA LookupHolds == ASSUME LookupInv PROVE L!TypeOK /\ L!KeptOfItsVersion /\ L!Spaced
  <1> USE LookupBounds DEF LookupInv
  <1>1. L!TypeOK
    <2>1. \A k \in L!Versions : task[k].of \in 0 .. edition /\ task[k].wait \in 0 .. Interval
      BY DEF LookupTypes, TaskRow
    <2>2. edition \in L!Versions /\ edition \in 1 .. MaxVersion BY DEF LookupTypes
    <2>3. ASSUME NEW v \in Visits PROVE visit[v].key \in L!Versions /\ visit[v].of \in 0 .. edition
      <3>1. visit[v] \in VisitRow(edition) BY DEF LookupTypes
      <3>2. visit[v].key \in 1 .. edition /\ visit[v].of \in 0 .. edition BY <3>1 DEF VisitRow
      <3> QED BY <2>2, <3>2
    <2> QED BY <2>1, <2>3 DEF L!TypeOK, LookupTypes
  <1>2. answers[edition] \in {0, edition}
    <2>1. edition \in L!Versions /\ answers[edition] \in 0 .. edition BY DEF LookupTypes
    <2>2. answers[edition] # 0 => edition <= answers[edition] BY <2>1 DEF LookupFresh
    <2> QED BY <2>1, <2>2
  <1>3. \A v \in Visits : visit[v].at = "answered" => visit[v].of >= visit[v].key
    BY DEF LookupFresh, LookupTypes, VisitRow
  <1> QED BY <1>1, <1>2, <1>3 DEF L!KeptOfItsVersion, L!KeyOf

LEMMA LookupStill == ASSUME LookupInv, UNCHANGED lookupVars PROVE LookupInv'
  <1> USE DEF lookupVars, LookupInv
  <1>1. LookupTypes' BY DEF LookupTypes
  <1>2. LookupFresh' /\ LookupTurns' BY DEF LookupFresh, LookupTurns
  <1>3. L!Spaced' BY DEF L!Spaced
  <1> QED BY <1>1, <1>2, <1>3

-----------------------------------------------------------------------------
(* PublicQueries.  Who waits for the language model has given everything back: a request *)
(* is in a lock, or before somebody in it, only while it is queued or computes.          *)
QueryPlaces == {"idle", "guard", "plan", "version", "look", "queued", "compute", "rules", "asking", "tool",
                "statement", "render", "done"}
InLock      == {"queued", "compute"}
QueryRow    == [at : QueryPlaces, kind : Q!Kinds, of : Q!Answers, ahead : SUBSET Queries, conn : BOOLEAN,
                planned : BOOLEAN, left : 0 .. MaxTools]

QueryTypes ==
  /\ known \subseteq Q!Answers /\ through \in [Q!Answers -> SUBSET Queries]
  /\ query \in [Queries -> QueryRow]

QueryPool == Cardinality(Q!Busy) <= PoolSize

QueryLocks ==
  \A q \in Queries :
    /\ query[q].at = "asking" => ~query[q].conn
    /\ \A a \in Q!Answers : q \in through[a] => query[q].at \in InLock /\ query[q].of = a
    /\ \A o \in Queries : q \in query[o].ahead => query[q].at \in InLock

QueryInv == QueryTypes /\ QueryPool /\ QueryLocks

LEMMA QueryBounds == PoolSize \in Nat /\ MaxTools \in Nat /\ MaxTools > 0 /\ IsFiniteSet(Queries)
  BY BoundAssumption, CountAssumption

LEMMA QueryCardinality == ASSUME NEW S PROVE Q!Cardinality(S) = Cardinality(S)
  BY Zenon DEF Q!Cardinality, Cardinality

(* The places a request goes to *)
LEMMA QueryGoals ==
  /\ "idle" \in QueryPlaces /\ "guard" \in QueryPlaces /\ "plan" \in QueryPlaces /\ "version" \in QueryPlaces
  /\ "look" \in QueryPlaces /\ "queued" \in QueryPlaces /\ "compute" \in QueryPlaces /\ "rules" \in QueryPlaces
  /\ "asking" \in QueryPlaces /\ "tool" \in QueryPlaces /\ "statement" \in QueryPlaces
  /\ "render" \in QueryPlaces /\ "done" \in QueryPlaces
  BY DEF QueryPlaces

LEMMA QueryIdle ==
  /\ Q!Idle \in QueryRow /\ Q!Idle.at = "idle" /\ Q!Idle.ahead = {} /\ Q!Idle.conn = FALSE
  <1>1. 0 \in 0 .. MaxTools /\ "areas" \in Q!Kinds /\ "list" \in Q!Answers BY QueryBounds DEF Q!Kinds, Q!Answers
  <1>2. Q!Idle \in QueryRow BY <1>1, QueryGoals DEF Q!Idle, QueryRow
  <1> QED BY <1>2 DEF Q!Idle

(* A request's record with another place, another connection, other tools *)
LEMMA QueryRows ==
  ASSUME NEW old \in QueryRow, NEW place \in QueryPlaces
  PROVE  /\ [old EXCEPT !.at = place] \in QueryRow
         /\ \A c \in BOOLEAN : [old EXCEPT !.at = place, !.conn = c] \in QueryRow
         /\ \A S \in SUBSET Queries : [old EXCEPT !.at = place, !.ahead = S] \in QueryRow
         /\ \A n \in 0 .. MaxTools :
              /\ [old EXCEPT !.at = place, !.left = n] \in QueryRow
              /\ [old EXCEPT !.at = place, !.planned = TRUE, !.left = n] \in QueryRow
              /\ \A a \in Q!Answers : [old EXCEPT !.at = place, !.of = a, !.left = n] \in QueryRow
  <1>1. [old EXCEPT !.at = place] \in QueryRow BY DEF QueryRow
  <1>2. \A c \in BOOLEAN : [old EXCEPT !.at = place, !.conn = c] \in QueryRow BY DEF QueryRow
  <1>3. \A S \in SUBSET Queries : [old EXCEPT !.at = place, !.ahead = S] \in QueryRow BY DEF QueryRow
  <1>4. ASSUME NEW n \in 0 .. MaxTools
        PROVE  /\ [old EXCEPT !.at = place, !.left = n] \in QueryRow
               /\ [old EXCEPT !.at = place, !.planned = TRUE, !.left = n] \in QueryRow
               /\ \A a \in Q!Answers : [old EXCEPT !.at = place, !.of = a, !.left = n] \in QueryRow
    <2>1. [old EXCEPT !.at = place, !.left = n] \in QueryRow BY DEF QueryRow
    <2>2. [old EXCEPT !.at = place, !.planned = TRUE, !.left = n] \in QueryRow BY DEF QueryRow
    <2>3. \A a \in Q!Answers : [old EXCEPT !.at = place, !.of = a, !.left = n] \in QueryRow BY DEF QueryRow
    <2> QED BY <2>1, <2>2, <2>3
  <1> QED BY <1>1, <1>2, <1>3, <1>4

LEMMA QueryConnected == ASSUME NEW old \in QueryRow PROVE [old EXCEPT !.conn = TRUE] \in QueryRow
  BY DEF QueryRow

(* One connection more is taken only where one is left. *)
LEMMA QueryConnections ==
  ASSUME QueryInv, NEW q \in Queries, NEW to \in BOOLEAN, to => Q!HasConn(q),
         \A o \in Queries \ {q} : query'[o].conn = query[o].conn, query'[q].conn = to
  PROVE  QueryPool'
  <1>1. IsFiniteSet(Q!Busy) /\ Cardinality(Q!Busy) \in Nat
    BY QueryBounds, FS_Subset, FS_CardinalityType DEF Q!Busy
  <1>2. IsFiniteSet(Q!Busy') /\ Cardinality(Q!Busy') \in Nat
    BY QueryBounds, FS_Subset, FS_CardinalityType DEF Q!Busy
  <1>3. CASE Q!Busy' \subseteq Q!Busy
    <2>1. Cardinality(Q!Busy') <= Cardinality(Q!Busy) BY <1>1, <1>3, FS_Subset
    <2>2. Cardinality(Q!Busy') <= PoolSize BY <2>1, <1>1, <1>2, QueryBounds DEF QueryInv, QueryPool
    <2> QED BY <2>2 DEF QueryPool
  <1>4. CASE ~(Q!Busy' \subseteq Q!Busy)
    <2>1. to /\ ~query[q].conn BY <1>4 DEF Q!Busy
    <2>2. Cardinality(Q!Busy) < PoolSize BY <2>1, QueryCardinality DEF Q!HasConn
    <2>3. q \notin Q!Busy /\ Q!Busy' = Q!Busy \cup {q} BY <2>1 DEF Q!Busy
    <2>4. Cardinality(Q!Busy') = Cardinality(Q!Busy) + 1 BY <2>3, <1>1, FS_AddElement
    <2>5. Cardinality(Q!Busy') <= PoolSize BY <2>2, <2>4, <1>1, QueryBounds
    <2> QED BY <2>5 DEF QueryPool
  <1> QED BY <1>3, <1>4

(* A request that is in no lock goes on, or one in a lock stays in it. *)
LEMMA QueryMoves ==
  ASSUME QueryInv, NEW q \in Queries, NEW to \in QueryRow, query' = [query EXCEPT ![q] = to],
         UNCHANGED <<known, through>>,
         query[q].at \notin InLock \/ (to.at \in InLock /\ to.of = query[q].of),
         to.ahead \subseteq query[q].ahead, to.conn => Q!HasConn(q), to.at = "asking" => ~to.conn
  PROVE  QueryInv'
  <1>1. query \in [Queries -> QueryRow] BY DEF QueryInv, QueryTypes
  <1>2. /\ query' \in [Queries -> QueryRow] /\ query'[q] = to
        /\ \A o \in Queries \ {q} : query'[o] = query[o]
    BY <1>1
  <1>3. to.conn \in BOOLEAN BY DEF QueryRow
  <1>4. QueryPool' BY <1>2, <1>3, QueryConnections
  <1>5. QueryTypes' BY <1>2 DEF QueryInv, QueryTypes
  <1>6. ASSUME NEW o \in Queries
        PROVE  /\ query'[o].at = "asking" => ~query'[o].conn
               /\ \A a \in Q!Answers : o \in through'[a] => query'[o].at \in InLock /\ query'[o].of = a
               /\ \A w \in Queries : o \in query'[w].ahead => query'[o].at \in InLock
    <2>1. \A w \in Queries : o \in query'[w].ahead => o \in query[w].ahead BY <1>2
    <2>2. /\ \A a \in Q!Answers : o \in through[a] => query[o].at \in InLock /\ query[o].of = a
          /\ \A w \in Queries : o \in query'[w].ahead => query[o].at \in InLock
          /\ query[o].at = "asking" => ~query[o].conn
      BY <2>1 DEF QueryInv, QueryLocks
    <2>3. CASE o = q BY <2>2, <2>3, <1>2
    <2>4. CASE o # q BY <2>2, <2>4, <1>2
    <2> QED BY <2>3, <2>4
  <1>7. QueryLocks' BY <1>6 DEF QueryLocks
  <1> QED BY <1>4, <1>5, <1>7 DEF QueryInv

(* A request leaves its lock: it is in none, and before nobody. *)
LEMMA QueryLeaves ==
  ASSUME QueryInv, NEW q \in Queries, NEW to \in QueryRow, Q!Left(q, to),
         known' \subseteq Q!Answers, through' \in [Q!Answers -> SUBSET Queries],
         \A a \in Q!Answers : through'[a] \subseteq through[a] \ {q},
         to.conn => Q!HasConn(q), to.at # "asking"
  PROVE  QueryInv'
  <1>1. query \in [Queries -> QueryRow] BY DEF QueryInv, QueryTypes
  <1>2. query' = [o \in Queries |-> IF o = q THEN [to EXCEPT !.ahead = {}] ELSE [query[o] EXCEPT !.ahead = @ \ {q}]]
    BY DEF Q!Left
  <1>3. ASSUME NEW o \in Queries \ {q}
        PROVE  /\ query'[o] \in QueryRow /\ query'[o].at = query[o].at /\ query'[o].of = query[o].of
               /\ query'[o].conn = query[o].conn /\ query'[o].ahead = query[o].ahead \ {q}
    <2>1. query[o] \in QueryRow BY <1>1
    <2>2. query'[o] = [query[o] EXCEPT !.ahead = @ \ {q}] BY <1>2
    <2> QED BY <2>1, <2>2 DEF QueryRow
  <1>4. query'[q] \in QueryRow /\ query'[q].at = to.at /\ query'[q].conn = to.conn /\ query'[q].ahead = {}
    <2>1. query'[q] = [to EXCEPT !.ahead = {}] BY <1>2
    <2> QED BY <2>1 DEF QueryRow
  <1>5. query' \in [Queries -> QueryRow]
    <2>1. query' = [o \in Queries |-> query'[o]] BY <1>2
    <2>2. \A o \in Queries : query'[o] \in QueryRow BY <1>3, <1>4
    <2> QED BY <2>1, <2>2
  <1>6. QueryPool'
    <2>1. to.conn \in BOOLEAN BY DEF QueryRow
    <2> QED BY <1>3, <1>4, <2>1, QueryConnections
  <1>7. QueryTypes' BY <1>5 DEF QueryInv, QueryTypes
  <1>8. ASSUME NEW o \in Queries
        PROVE  /\ query'[o].at = "asking" => ~query'[o].conn
               /\ \A a \in Q!Answers : o \in through'[a] => query'[o].at \in InLock /\ query'[o].of = a
               /\ \A w \in Queries : o \in query'[w].ahead => query'[o].at \in InLock
    <2>1. \A w \in Queries : o \in query'[w].ahead => o \in query[w].ahead \ {q} BY <1>3, <1>4
    <2>2. /\ \A a \in Q!Answers : o \in through'[a] => o # q /\ query[o].at \in InLock /\ query[o].of = a
          /\ \A w \in Queries : o \in query'[w].ahead => o # q /\ query[o].at \in InLock
          /\ query[o].at = "asking" => ~query[o].conn
      BY <2>1 DEF QueryInv, QueryLocks
    <2>3. CASE o = q BY <2>2, <2>3, <1>4
    <2>4. CASE o # q BY <2>2, <2>4, <1>3
    <2> QED BY <2>3, <2>4
  <1>9. QueryLocks' BY <1>8 DEF QueryLocks
  <1> QED BY <1>6, <1>7, <1>9 DEF QueryInv

LEMMA QueryGoes ==
  ASSUME QueryInv, NEW q \in Queries, NEW place \in QueryPlaces, place # "asking", Q!Goes(q, place),
         query[q].at \notin InLock \/ place \in InLock, UNCHANGED <<known, through>>
  PROVE  QueryInv'
  <1> DEFINE to == [query[q] EXCEPT !.at = place]
  <1>1. query[q] \in QueryRow BY DEF QueryInv, QueryTypes
  <1>2. to \in QueryRow BY <1>1, QueryRows, QueryBounds
  <1>3. /\ to.at = place /\ to.of = query[q].of /\ to.ahead = query[q].ahead
        /\ to.conn = query[q].conn
    BY <1>1 DEF QueryRow
  <1>4. query' = [query EXCEPT ![q] = to] BY DEF Q!Goes
  <1> HIDE DEF to
  <1>5. to.conn => Q!HasConn(q) BY <1>3 DEF Q!HasConn
  <1> QED BY <1>2, <1>3, <1>4, <1>5, QueryMoves

LEMMA QueryExecutes ==
  ASSUME QueryInv, NEW q \in Queries, NEW place \in QueryPlaces, place # "asking", Q!Execute(q, place),
         query[q].at \notin InLock, UNCHANGED <<known, through>>
  PROVE  QueryInv'
  <1> DEFINE to == [query[q] EXCEPT !.at = place, !.conn = TRUE]
  <1>1. query[q] \in QueryRow BY DEF QueryInv, QueryTypes
  <1>2. to \in QueryRow BY <1>1, QueryRows, QueryBounds
  <1>3. to.at = place /\ to.ahead = query[q].ahead BY <1>1 DEF QueryRow
  <1>4. query' = [query EXCEPT ![q] = to] /\ Q!HasConn(q) BY DEF Q!Execute
  <1> HIDE DEF to
  <1> QED BY <1>2, <1>3, <1>4, QueryMoves

LEMMA QueryEnds ==
  ASSUME QueryInv, NEW q \in Queries, Q!End(q), query[q].at \notin InLock, UNCHANGED <<known, through>>
  PROVE  QueryInv'
  <1>1. query' = [query EXCEPT ![q] = Q!Idle] BY DEF Q!End
  <1>2. Q!Idle \in QueryRow /\ Q!Idle.at # "asking" /\ Q!Idle.ahead \subseteq query[q].ahead /\ ~Q!Idle.conn
    BY QueryIdle
  <1> QED BY <1>1, <1>2, QueryMoves

(* A plan has been made, or one of its tools is taken. *)
LEMMA QueryPlans ==
  ASSUME QueryInv, NEW q \in Queries, NEW place \in {"tool", "statement", "version"}, NEW n \in 0 .. MaxTools,
         query[q].at \notin InLock, UNCHANGED <<known, through>>,
         \/ query' = [query EXCEPT ![q] = [query[q] EXCEPT !.at = place, !.planned = TRUE, !.left = n]]
         \/ query' = [query EXCEPT ![q] = [query[q] EXCEPT !.at = place, !.left = n]]
         \/ \E a \in Q!Answers : query' = [query EXCEPT ![q] = [query[q] EXCEPT !.at = place, !.of = a, !.left = n]]
  PROVE  QueryInv'
  <1>1. query[q] \in QueryRow /\ place \in QueryPlaces /\ place # "asking"
    BY QueryGoals DEF QueryInv, QueryTypes
  <1>2. PICK to \in QueryRow : /\ query' = [query EXCEPT ![q] = to] /\ to.at = place
                               /\ to.ahead = query[q].ahead /\ to.conn = query[q].conn
    <2>1. CASE query' = [query EXCEPT ![q] = [query[q] EXCEPT !.at = place, !.planned = TRUE, !.left = n]]
      <3> DEFINE to == [query[q] EXCEPT !.at = place, !.planned = TRUE, !.left = n]
      <3>1. to \in QueryRow BY <1>1, QueryRows
      <3>2. to.at = place /\ to.ahead = query[q].ahead /\ to.conn = query[q].conn BY <1>1 DEF QueryRow
      <3>3. query' = [query EXCEPT ![q] = to] BY <2>1
      <3> HIDE DEF to
      <3> QED BY <3>1, <3>2, <3>3
    <2>2. CASE query' = [query EXCEPT ![q] = [query[q] EXCEPT !.at = place, !.left = n]]
      <3> DEFINE to == [query[q] EXCEPT !.at = place, !.left = n]
      <3>1. to \in QueryRow BY <1>1, QueryRows
      <3>2. to.at = place /\ to.ahead = query[q].ahead /\ to.conn = query[q].conn BY <1>1 DEF QueryRow
      <3>3. query' = [query EXCEPT ![q] = to] BY <2>2
      <3> HIDE DEF to
      <3> QED BY <3>1, <3>2, <3>3
    <2>3. ASSUME NEW a \in Q!Answers,
                 query' = [query EXCEPT ![q] = [query[q] EXCEPT !.at = place, !.of = a, !.left = n]]
          PROVE  \E to \in QueryRow : /\ query' = [query EXCEPT ![q] = to] /\ to.at = place
                                      /\ to.ahead = query[q].ahead /\ to.conn = query[q].conn
      <3> DEFINE to == [query[q] EXCEPT !.at = place, !.of = a, !.left = n]
      <3>1. to \in QueryRow BY <1>1, QueryRows
      <3>2. to.at = place /\ to.ahead = query[q].ahead /\ to.conn = query[q].conn BY <1>1 DEF QueryRow
      <3>3. query' = [query EXCEPT ![q] = to] BY <2>3
      <3> HIDE DEF to
      <3> QED BY <3>1, <3>2, <3>3
    <2> QED BY <2>1, <2>2, <2>3
  <1>3. to.conn => Q!HasConn(q) BY <1>2 DEF Q!HasConn
  <1> QED BY <1>1, <1>2, <1>3, QueryMoves

LEMMA QueryAsk == ASSUME QueryInv, NEW q \in Queries, NEW kind \in Q!Kinds, Q!Ask(q, kind) PROVE QueryInv'
  <1> DEFINE place == IF kind = "areas" THEN "version" ELSE "guard"
  <1> DEFINE a == IF kind = "preview" THEN "detail" ELSE "list"
  <1> DEFINE to == [Q!Idle EXCEPT !.kind = kind, !.at = place, !.of = a]
  <1>1. /\ query[q].at = "idle" /\ query' = [query EXCEPT ![q] = to] /\ UNCHANGED <<known, through>>
    BY DEF Q!Ask, Q!At
  <1>2. place \in QueryPlaces /\ place # "asking" /\ a \in Q!Answers BY QueryGoals DEF Q!Answers
  <1> HIDE DEF place, a
  <1>3. to \in QueryRow BY <1>2, QueryIdle DEF QueryRow
  <1>4. to.at = place /\ to.ahead = {} /\ ~to.conn BY QueryIdle DEF QueryRow
  <1> HIDE DEF to
  <1>5. query[q].at \notin InLock BY <1>1 DEF InLock
  <1> QED BY <1>1, <1>2, <1>3, <1>4, <1>5, QueryMoves

LEMMA QueryFirst ==
  ASSUME QueryInv, NEW q \in Queries, Q!Guard(q) \/ Q!Version(q) \/ Q!Render(q) \/ Q!Done(q)
  PROVE  QueryInv'
  <1>1. UNCHANGED <<known, through>> /\ query[q].at \notin InLock
    BY DEF Q!Guard, Q!Version, Q!Render, Q!Done, Q!At, InLock
  <1>2. \/ Q!End(q)
        \/ \E place \in {"plan", "version", "look"} : Q!Execute(q, place)
        \/ \E place \in {"look", "done"} : Q!Goes(q, place)
    BY DEF Q!Guard, Q!Version, Q!Render, Q!Done
  <1>3. CASE Q!End(q) BY <1>1, <1>3, QueryEnds
  <1>4. ASSUME NEW place \in {"plan", "version", "look"}, Q!Execute(q, place) PROVE QueryInv'
    BY <1>1, <1>4, QueryExecutes, QueryGoals
  <1>5. ASSUME NEW place \in {"look", "done"}, Q!Goes(q, place) PROVE QueryInv'
    BY <1>1, <1>5, QueryGoes, QueryGoals
  <1> QED BY <1>2, <1>3, <1>4, <1>5

LEMMA QueryThen == ASSUME NEW q \in Queries PROVE Q!Then(q) \in {"done", "render", "tool", "rules"}
  BY DEF Q!Then

LEMMA QueryLook == ASSUME QueryInv, NEW q \in Queries, Q!Look(q) PROVE QueryInv'
  <1>1. query[q].at = "look" /\ query[q].at \notin InLock /\ UNCHANGED known BY DEF Q!Look, Q!At, InLock
  <1>2. CASE Q!Kept(q)
    <2>1. Q!Goes(q, Q!Then(q)) /\ UNCHANGED through BY <1>2 DEF Q!Look
    <2>2. Q!Then(q) \in QueryPlaces /\ Q!Then(q) # "asking" BY QueryThen, QueryGoals
    <2> QED BY <1>1, <2>1, <2>2, QueryGoes
  <1>3. CASE ~Q!Kept(q)
    <2> DEFINE a == query[q].of
    <2> DEFINE to == [query[q] EXCEPT !.at = "queued", !.ahead = through[query[q].of]]
    <2>1. query' = [query EXCEPT ![q] = to] /\ through' = [through EXCEPT ![a] = @ \cup {q}]
      BY <1>3 DEF Q!Look
    <2>2. /\ query \in [Queries -> QueryRow] /\ query[q] \in QueryRow /\ a \in Q!Answers
          /\ through \in [Q!Answers -> SUBSET Queries] /\ through[a] \subseteq Queries
      BY DEF QueryInv, QueryTypes, QueryRow
    <2>3. to \in QueryRow BY <2>2, QueryRows, QueryGoals, QueryBounds
    <2>4. to.at = "queued" /\ to.of = a /\ to.ahead = through[a] /\ to.conn = query[q].conn BY <2>2 DEF QueryRow
    <2> HIDE DEF to, a
    <2>5. /\ query' \in [Queries -> QueryRow] /\ query'[q] = to
          /\ \A o \in Queries \ {q} : query'[o] = query[o]
      BY <2>1, <2>2, <2>3
    <2>6. /\ through' \in [Q!Answers -> SUBSET Queries] /\ through'[a] = through[a] \cup {q}
          /\ \A b \in Q!Answers \ {a} : through'[b] = through[b]
      BY <2>1, <2>2
    <2>7. QueryTypes' BY <1>1, <2>5, <2>6 DEF QueryInv, QueryTypes
    <2>8. QueryPool'
      <3>1. to.conn \in BOOLEAN /\ (to.conn => Q!HasConn(q)) BY <2>3, <2>4 DEF QueryRow, Q!HasConn
      <3> QED BY <2>5, <3>1, QueryConnections
    <2>9. ASSUME NEW o \in Queries
          PROVE  /\ query'[o].at = "asking" => ~query'[o].conn
                 /\ \A b \in Q!Answers : o \in through'[b] => query'[o].at \in InLock /\ query'[o].of = b
                 /\ \A w \in Queries : o \in query'[w].ahead => query'[o].at \in InLock
      <3>1. \A w \in Queries : o \in query'[w].ahead => o \in query[w].ahead \/ o \in through[a] BY <2>4, <2>5
      <3>2. /\ \A b \in Q!Answers : o \in through'[b] => o \in through[b] \/ (o = q /\ b = a)
        BY <2>6
      <3>3. /\ \A b \in Q!Answers : o \in through[b] => query[o].at \in InLock /\ query[o].of = b
            /\ \A w \in Queries : o \in query[w].ahead => query[o].at \in InLock
            /\ query[o].at = "asking" => ~query[o].conn
        BY DEF QueryInv, QueryLocks
      <3>4. CASE o = q
        <4>1. query'[o].at \in InLock /\ query'[o].at # "asking" /\ query'[o].of = a BY <3>4, <2>4, <2>5 DEF InLock
        <4>2. \A b \in Q!Answers : o \in through'[b] => b = a BY <3>2, <3>3, <3>4, <1>1
        <4> QED BY <4>1, <4>2
      <3>5. CASE o # q BY <3>1, <3>2, <3>3, <3>5, <2>2, <2>5
      <3> QED BY <3>4, <3>5
    <2>10. QueryLocks' BY <2>9 DEF QueryLocks
    <2> QED BY <2>7, <2>8, <2>10 DEF QueryInv
  <1> QED BY <1>2, <1>3

(* Leave: the lock is free of the request. *)
LEMMA QueryOut ==
  ASSUME QueryInv, NEW q \in Queries, NEW to \in QueryRow, Q!Leave(q, to), known' \subseteq Q!Answers,
         to.conn => Q!HasConn(q), to.at # "asking"
  PROVE  QueryInv'
  <1>1. Q!Left(q, to) /\ through' = [a \in Q!Answers |-> through[a] \ {q}] BY DEF Q!Leave
  <1>2. through \in [Q!Answers -> SUBSET Queries] BY DEF QueryInv, QueryTypes
  <1>3. /\ through' \in [Q!Answers -> SUBSET Queries]
        /\ \A a \in Q!Answers : through'[a] \subseteq through[a] \ {q}
    BY <1>1, <1>2
  <1> QED BY <1>1, <1>3, QueryLeaves

LEMMA QueryGoal ==
  ASSUME QueryInv, NEW q \in Queries
  PROVE  /\ Q!Goal(q) \in QueryRow /\ Q!Goal(q).at \in {"done", "render", "tool", "rules"}
         /\ Q!Goal(q).conn = query[q].conn
  <1> DEFINE place == Q!Then(q)
  <1>1. place \in {"done", "render", "tool", "rules"} /\ place \in QueryPlaces BY QueryThen, QueryGoals
  <1>2. query[q] \in QueryRow BY DEF QueryInv, QueryTypes
  <1>3. Q!Goal(q) = [query[q] EXCEPT !.at = place] BY DEF Q!Goal
  <1> HIDE DEF place
  <1>4. [query[q] EXCEPT !.at = place] \in QueryRow BY <1>1, <1>2, QueryRows, QueryBounds
  <1>5. [query[q] EXCEPT !.at = place].at = place /\ [query[q] EXCEPT !.at = place].conn = query[q].conn
    BY <1>2 DEF QueryRow
  <1> QED BY <1>1, <1>3, <1>4, <1>5

LEMMA QueryEnter == ASSUME QueryInv, NEW q \in Queries, Q!Enter(q) PROVE QueryInv'
  <1>1. UNCHANGED known BY DEF Q!Enter
  <1>2. CASE Q!Kept(q)
    <2>1. Q!Leave(q, Q!Goal(q)) BY <1>2 DEF Q!Enter
    <2>2. Q!Goal(q).conn => Q!HasConn(q) BY QueryGoal DEF Q!HasConn
    <2>3. known' \subseteq Q!Answers BY <1>1 DEF QueryInv, QueryTypes
    <2> QED BY <2>1, <2>2, <2>3, QueryGoal, QueryOut
  <1>3. CASE ~Q!Kept(q)
    <2>1. Q!Goes(q, "compute") /\ UNCHANGED through BY <1>3 DEF Q!Enter
    <2>2. "compute" \in QueryPlaces /\ "compute" \in InLock BY QueryGoals DEF InLock
    <2> QED BY <1>1, <2>1, <2>2, QueryGoes
  <1> QED BY <1>2, <1>3

LEMMA QueryCompute == ASSUME QueryInv, NEW q \in Queries, Q!Compute(q) PROVE QueryInv'
  <1>1. query[q].at = "compute" /\ Q!HasConn(q) BY DEF Q!Compute, Q!At
  <1>2. CASE Q!Leave(q, Q!Idle) /\ UNCHANGED known
    <2>1. known' \subseteq Q!Answers BY <1>2 DEF QueryInv, QueryTypes
    <2> QED BY <1>2, <2>1, QueryIdle, QueryOut
  <1>3. CASE /\ Q!Left(q, [Q!Goal(q) EXCEPT !.conn = TRUE])
             /\ known' = known \cup {query[q].of} /\ through' = [through EXCEPT ![query[q].of] = {}]
    <2> DEFINE to == [Q!Goal(q) EXCEPT !.conn = TRUE]
    <2>1. to \in QueryRow BY QueryGoal, QueryConnected
    <2>2. to.at # "asking" BY QueryGoal DEF QueryRow
    <2>3. query[q].of \in Q!Answers /\ known \subseteq Q!Answers /\ through \in [Q!Answers -> SUBSET Queries]
      BY DEF QueryInv, QueryTypes, QueryRow
    <2>4. \A a \in Q!Answers : q \in through[a] => query[q].of = a BY DEF QueryInv, QueryLocks
    <2>5. /\ through' \in [Q!Answers -> SUBSET Queries]
          /\ \A a \in Q!Answers : through'[a] \subseteq through[a] \ {q}
      BY <1>3, <2>3, <2>4
    <2>6. known' \subseteq Q!Answers BY <1>3, <2>3
    <2>7. Q!Left(q, to) BY <1>3
    <2> HIDE DEF to
    <2> QED BY <1>1, <2>1, <2>2, <2>5, <2>6, <2>7, QueryLeaves
  <1> QED BY <1>2, <1>3 DEF Q!Compute

LEMMA QueryTimeout == ASSUME QueryInv, NEW q \in Queries, Q!PoolTimeout(q) PROVE QueryInv'
  <1>1. Q!Leave(q, Q!Idle) /\ known' \subseteq Q!Answers BY DEF Q!PoolTimeout, QueryInv, QueryTypes
  <1> QED BY <1>1, QueryIdle, QueryOut

(* The plan of the assistant and its tools *)
LEMMA QueryPlan == ASSUME QueryInv, NEW q \in Queries, Q!Plan(q) \/ Q!Answered(q) PROVE QueryInv'
  <1>1. UNCHANGED <<known, through>> /\ query[q].at \notin InLock BY DEF Q!Plan, Q!Answered, Q!At, InLock
  <1>2. \/ \E place \in {"version", "done"} : Q!Goes(q, place)
        \/ \E n \in 0 .. MaxTools :
             query' = [query EXCEPT ![q] = [query[q] EXCEPT !.at = "tool", !.planned = TRUE, !.left = n]]
    <2>1. 1 \in 0 .. MaxTools /\ \A n \in 1 .. MaxTools : n \in 0 .. MaxTools BY QueryBounds
    <2>2. CASE Q!Plan(q) BY <2>1, <2>2 DEF Q!Plan
    <2>3. CASE Q!Answered(q) BY <2>1, <2>3 DEF Q!Answered
    <2> QED BY <2>2, <2>3
  <1>3. ASSUME NEW place \in {"version", "done"}, Q!Goes(q, place) PROVE QueryInv'
    BY <1>1, <1>3, QueryGoes, QueryGoals
  <1>4. ASSUME NEW n \in 0 .. MaxTools,
               query' = [query EXCEPT ![q] = [query[q] EXCEPT !.at = "tool", !.planned = TRUE, !.left = n]]
        PROVE  QueryInv'
    BY <1>1, <1>4, QueryPlans
  <1> QED BY <1>2, <1>3, <1>4

LEMMA QueryRules == ASSUME QueryInv, NEW q \in Queries, Q!Rules(q) PROVE QueryInv'
  <1>1. UNCHANGED <<known, through>> /\ query[q].at \notin InLock BY DEF Q!Rules, Q!At, InLock
  <1>2. CASE Q!Goes(q, "done") BY <1>1, <1>2, QueryGoes, QueryGoals
  <1>3. CASE \E n \in 1 .. MaxTools :
               query' = [query EXCEPT ![q] = [@ EXCEPT !.at = "tool", !.planned = TRUE, !.left = n]]
    <2>1. PICK n \in 1 .. MaxTools :
                 query' = [query EXCEPT ![q] = [query[q] EXCEPT !.at = "tool", !.planned = TRUE, !.left = n]]
      BY <1>3
    <2>2. n \in 0 .. MaxTools BY QueryBounds
    <2> QED BY <1>1, <2>1, <2>2, QueryPlans
  <1>4. CASE Q!Asking(q)
    <2> DEFINE to == [query[q] EXCEPT !.at = "asking", !.conn = FALSE]
    <2>1. query[q] \in QueryRow BY DEF QueryInv, QueryTypes
    <2>2. to \in QueryRow BY <2>1, QueryRows, QueryGoals, QueryBounds
    <2>3. to.ahead = query[q].ahead /\ ~to.conn BY <2>1 DEF QueryRow
    <2>4. query' = [query EXCEPT ![q] = to] BY <1>4 DEF Q!Asking
    <2> HIDE DEF to
    <2> QED BY <1>1, <2>2, <2>3, <2>4, QueryMoves
  <1> QED BY <1>2, <1>3, <1>4 DEF Q!Rules

LEMMA QueryTool == ASSUME QueryInv, NEW q \in Queries, Q!Tool(q) PROVE QueryInv'
  <1>1. UNCHANGED <<known, through>> /\ query[q].at \notin InLock BY DEF Q!Tool, Q!At, InLock
  <1>2. CASE Q!Goes(q, "done") BY <1>1, <1>2, QueryGoes, QueryGoals
  <1>3. CASE ~Q!Goes(q, "done")
    <2>1. query[q].left # 0 /\ query[q].left \in 0 .. MaxTools
      BY <1>3 DEF Q!Tool, QueryInv, QueryTypes, QueryRow
    <2> DEFINE n == query[q].left - 1
    <2>2. n \in 0 .. MaxTools BY <2>1, QueryBounds
    <2>3. \/ \E place \in {"tool", "statement"} :
               query' = [query EXCEPT ![q] = [query[q] EXCEPT !.at = place, !.left = n]]
          \/ \E a \in Q!Answers :
               query' = [query EXCEPT ![q] = [query[q] EXCEPT !.at = "version", !.of = a, !.left = n]]
      BY <1>3, <2>1, Zenon DEF Q!Tool
    <2> HIDE DEF n
    <2>4. ASSUME NEW place \in {"tool", "statement"},
                 query' = [query EXCEPT ![q] = [query[q] EXCEPT !.at = place, !.left = n]]
          PROVE  QueryInv'
      BY <1>1, <2>2, <2>4, QueryPlans
    <2>5. ASSUME NEW a \in Q!Answers,
                 query' = [query EXCEPT ![q] = [query[q] EXCEPT !.at = "version", !.of = a, !.left = n]]
          PROVE  QueryInv'
      BY <1>1, <2>2, <2>5, QueryPlans
    <2> QED BY <2>3, <2>4, <2>5
  <1> QED BY <1>2, <1>3

LEMMA QueryStatement == ASSUME QueryInv, NEW q \in Queries, Q!Statement(q) PROVE QueryInv'
  <1>1. UNCHANGED <<known, through>> /\ query[q].at \notin InLock /\ (Q!Execute(q, "tool") \/ Q!End(q))
    BY DEF Q!Statement, Q!At, InLock
  <1> QED BY <1>1, QueryExecutes, QueryEnds, QueryGoals

LEMMA QueryExpire == ASSUME QueryInv, Q!Expire PROVE QueryInv'
  <1>1. known' \subseteq known /\ UNCHANGED <<through, query>> BY DEF Q!Expire
  <1> QED BY <1>1 DEF QueryInv, QueryTypes, QueryPool, QueryLocks, Q!Busy

LEMMA QueryInit == ASSUME Q!Init PROVE QueryInv
  <1>1. /\ known \subseteq Q!Answers /\ through = [a \in Q!Answers |-> {}]
        /\ query = [q \in Queries |-> Q!Idle]
    BY DEF Q!Init
  <1>2. QueryTypes BY <1>1, QueryIdle DEF QueryTypes
  <1>3. Q!Busy = {} BY <1>1, QueryIdle DEF Q!Busy
  <1>4. Cardinality(Q!Busy) = 0 BY <1>3, FS_EmptySet
  <1>5. QueryPool BY <1>4, QueryBounds DEF QueryPool
  <1>6. QueryLocks BY <1>1, QueryIdle DEF QueryLocks
  <1> QED BY <1>2, <1>5, <1>6 DEF QueryInv

LEMMA QueryStep == ASSUME QueryInv, Q!Next PROVE QueryInv'
  <1>1. CASE Q!Expire BY <1>1, QueryExpire
  <1>2. ASSUME NEW q \in Queries, NEW kind \in Q!Kinds, Q!Ask(q, kind) PROVE QueryInv' BY <1>2, QueryAsk
  <1>3. ASSUME NEW q \in Queries, Q!Step(q) PROVE QueryInv'
    BY <1>3, QueryFirst, QueryLook, QueryEnter, QueryCompute, QueryTimeout, QueryPlan, QueryRules, QueryTool,
       QueryStatement DEF Q!Step
  <1> QED BY <1>1, <1>2, <1>3 DEF Q!Next

LEMMA QueryHolds == ASSUME QueryInv PROVE Q!TypeOK /\ Q!AskingHoldsNothing
  <1>1. \A q \in Queries : query[q].kind \in Q!Kinds /\ query[q].left \in 0 .. MaxTools
    BY DEF QueryInv, QueryTypes, QueryRow
  <1>2. Q!TypeOK BY <1>1, QueryCardinality DEF Q!TypeOK, QueryInv, QueryTypes, QueryPool
  <1>3. ASSUME NEW q \in Queries, query[q].at = "asking"
        PROVE  ~query[q].conn /\ (\A a \in Q!Answers : q \notin through[a]) /\ (\A o \in Queries : q \notin query[o].ahead)
    <2>1. query[q].at \notin InLock BY <1>3 DEF InLock
    <2> QED BY <1>3, <2>1 DEF QueryInv, QueryLocks
  <1> QED BY <1>2, <1>3 DEF Q!AskingHoldsNothing

LEMMA QueryStill == ASSUME QueryInv, UNCHANGED queryVars PROVE QueryInv'
  <1> USE DEF queryVars, QueryInv
  <1>1. QueryTypes' /\ QueryLocks' BY DEF QueryTypes, QueryLocks
  <1>2. Q!Busy' = Q!Busy BY DEF Q!Busy
  <1>3. QueryPool' BY <1>2 DEF QueryPool
  <1> QED BY <1>1, <1>3
=============================================================================
