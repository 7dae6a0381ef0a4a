---------------------------- MODULE PortalProofs ----------------------------
(***************************************************************************)
(* What the data behind a visitor's page keep, for any number of users,    *)
(* changes, items and figures: each part of Portal has an inductive        *)
(* invariant of its own; with those of the page (PageProofs) they are the  *)
(* invariant of the whole: the copies are current, and what comes late     *)
(* loses.                                                                  *)
(***************************************************************************)
EXTENDS PageProofs

-----------------------------------------------------------------------------
(* OsmData.  One script works at a time; what it publishes is the stage, whole and not    *)
(* behind the replication; who is served while nothing is published writes what is        *)
(* published, and who met a publication is late until one heals what it created.          *)
OsmPlaces == {"idle", "create", "created", "init", "update", "append", "upsert", "areas", "held", "sources",
              "osm", "polygons", "commit", "wikidata"}
OsmPublic == {"areas", "held", "sources", "osm", "polygons", "commit"}
OsmAfter  == {"lookup", "renamed", "assign", "held", "polygons", "analytics", "osm", "commit"}
OsmBefore == {"idle", "read", "checked", "named"}
OsmJobRow(n) == [at : OsmPlaces, upto : 0 .. n, whole : {TRUE}, areas : SUBSET Adopters,
                 sources : SUBSET Adopters, heals : SUBSET Adopters]
OsmShaped(r) == DOMAIN r = {"source", "areas", "slug"}

OsmData ==
  /\ planet \in 0 .. MaxPlanet /\ replica \in 0 .. planet \cup {None}
  /\ stage \in [upto : 0 .. planet, torn : BOOLEAN, gap : {FALSE}]
  /\ site \in [upto : 0 .. planet, whole : {TRUE}]
  /\ job \in [O!Jobs -> OsmJobRow(planet)]

OsmUsers ==
  /\ late \subseteq Adopters /\ DOMAIN adoption = Adopters /\ O!Created \subseteq Adopters
  /\ \A a \in Adopters : DOMAIN adoption[a] = {"at", "seen", "slug"}

OsmLock == \A i, j \in O!Jobs : job[i].at # "idle" /\ job[j].at # "idle" => i = j

OsmJob(j) ==
  /\ job[j].at = "append" => replica # None /\ replica <= job[j].upto
  /\ job[j].at = "init" => behind
  /\ job[j].at \in {"init", "upsert"} => ~stage.torn
  /\ job[j].at \in OsmPublic \cup {"init", "wikidata"} => job[j].upto = stage.upto
  /\ job[j].at = "wikidata" => site.upto = job[j].upto

OsmStage ==
  /\ replica # None => replica <= stage.upto
  /\ replica # None => behind \/ replica <= site.upto
  /\ \A j \in O!Jobs : OsmJob(j)

OsmVisit(a) ==
  /\ a \in O!Created => OsmShaped(polygon[a]) /\ adoption[a].at \notin OsmBefore
  /\ adoption[a].at \in OsmAfter => a \in O!Created
  /\ O!Open(a) /\ a \notin late => adoption[a].seen = site.upto
  /\ adoption[a].at \in OsmAfter /\ a \notin late => polygon[a].source = site.upto
  /\ a \in O!Created /\ ~O!Open(a) /\ a \notin late => polygon[a].source = site.upto /\ polygon[a].areas = site.upto

OsmPublished(j) ==
  /\ \A a \in job[j].heals : a \in O!Created /\ adoption[a].at = "done"
  /\ \A a \in Adopters : \/ a \in job[j].heals \/ a \in late \/ adoption[a].at = "idle"
                         \/ adoption[a].at = "done" /\ a \notin O!Created
  /\ job[j].at \in {"sources", "osm", "polygons", "commit"} => job[j].heals \subseteq job[j].areas
  /\ job[j].at \in {"osm", "polygons", "commit"} => job[j].heals \subseteq job[j].sources

OsmPast(a) == adoption[a].at \in {"checked", "named"}

OsmOnce ==
  together \/ \A a, b \in Adopters :
    a # b => ~(OsmPast(a) /\ OsmPast(b)) /\ ~(OsmPast(a) /\ b \in O!Created) /\ ~(a \in O!Created /\ b \in O!Created)

OsmInv ==
  /\ OsmData /\ OsmUsers /\ OsmLock /\ OsmStage /\ OsmOnce
  /\ \A a \in Adopters : OsmVisit(a)
  /\ \A j \in O!Jobs : O!Publishing(j) => OsmPublished(j)

LEMMA OsmBounds == MaxPlanet \in Nat /\ Chunk \in Nat
  BY BoundAssumption

LEMMA OsmGoals ==
  /\ "idle" \in OsmPlaces /\ "create" \in OsmPlaces /\ "created" \in OsmPlaces /\ "init" \in OsmPlaces
  /\ "update" \in OsmPlaces /\ "append" \in OsmPlaces /\ "upsert" \in OsmPlaces /\ "areas" \in OsmPlaces
  /\ "held" \in OsmPlaces /\ "sources" \in OsmPlaces /\ "osm" \in OsmPlaces /\ "polygons" \in OsmPlaces
  /\ "commit" \in OsmPlaces /\ "wikidata" \in OsmPlaces
  BY DEF OsmPlaces

(* The records of the runs *)
LEMMA OsmNoJob == ASSUME NEW n \in Nat PROVE O!NoJob \in OsmJobRow(n) /\ O!NoJob.at = "idle"
  <1>1. 0 \in 0 .. n OBVIOUS
  <1>2. O!NoJob \in OsmJobRow(n) BY <1>1, OsmGoals DEF O!NoJob, OsmJobRow
  <1> QED BY <1>2 DEF O!NoJob

OsmNewJob(place, upto) == [O!NoJob EXCEPT !.at = place, !.upto = upto]

LEMMA OsmBegun ==
  ASSUME NEW n \in Nat, NEW place \in OsmPlaces, NEW upto \in 0 .. n
  PROVE  /\ OsmNewJob(place, upto) \in OsmJobRow(n)
         /\ OsmNewJob(place, upto).at = place /\ OsmNewJob(place, upto).upto = upto
  <1>1. O!NoJob \in OsmJobRow(n) BY OsmNoJob
  <1>2. OsmNewJob(place, upto) \in OsmJobRow(n) BY <1>1 DEF OsmJobRow, OsmNewJob
  <1> QED BY <1>1, <1>2 DEF OsmJobRow, OsmNewJob

LEMMA OsmTurned ==
  ASSUME NEW n \in Nat, NEW old \in OsmJobRow(n), NEW place \in OsmPlaces
  PROVE  /\ [old EXCEPT !.at = place] \in OsmJobRow(n)
         /\ [old EXCEPT !.at = place].at = place
         /\ [old EXCEPT !.at = place].upto = old.upto
         /\ [old EXCEPT !.at = place].heals = old.heals
         /\ [old EXCEPT !.at = place].areas = old.areas
         /\ [old EXCEPT !.at = place].sources = old.sources
  <1>1. [old EXCEPT !.at = place] \in OsmJobRow(n) BY DEF OsmJobRow
  <1> QED BY <1>1 DEF OsmJobRow

(* A run goes on while users and site stay as they are: one run at a time, and what it  *)
(* publishes is kept together.                                                          *)
LEMMA OsmRuns ==
  ASSUME OsmInv, NEW j \in O!Jobs, NEW to \in OsmJobRow(planet), job' = [job EXCEPT ![j] = to],
         job[j].at # "idle" \/ to.at = "idle" \/ O!Unlocked,
         UNCHANGED <<site, adoption, polygon, late, together>>,
         O!Publishing(j)' => OsmPublished(j)'
  PROVE  /\ OsmUsers' /\ OsmLock' /\ OsmOnce' /\ \A a \in Adopters : OsmVisit(a)'
         /\ \A i \in O!Jobs : O!Publishing(i)' => OsmPublished(i)'
         /\ job' \in [O!Jobs -> OsmJobRow(planet)] /\ job'[j] = to
         /\ \A i \in O!Jobs \ {j} : job'[i] = job[i]
  <1>1. job \in [O!Jobs -> OsmJobRow(planet)] BY DEF OsmInv, OsmData
  <1>2. /\ job' \in [O!Jobs -> OsmJobRow(planet)] /\ job'[j] = to
        /\ \A i \in O!Jobs \ {j} : job'[i] = job[i]
    BY <1>1
  <1>3. OsmUsers' BY DEF OsmInv, OsmUsers, O!Created
  <1>4. OsmLock' BY <1>2 DEF OsmInv, OsmLock, O!Unlocked
  <1>5. OsmOnce' BY DEF OsmInv, OsmOnce, OsmPast, O!Created
  <1>6. \A a \in Adopters : OsmVisit(a)' BY DEF OsmInv, OsmVisit, O!Created, O!Open
  <1>7. ASSUME NEW i \in O!Jobs \ {j}, O!Publishing(i)' PROVE OsmPublished(i)'
    <2>1. O!Publishing(i) /\ job'[i] = job[i] BY <1>2, <1>7 DEF O!Publishing
    <2>2. OsmPublished(i) BY <2>1 DEF OsmInv
    <2> QED BY <2>1, <2>2 DEF OsmPublished, O!Created
  <1> QED BY <1>2, <1>3, <1>4, <1>5, <1>6, <1>7

LEMMA OsmSteps ==
  ASSUME OsmInv, NEW j \in O!Jobs, NEW to \in OsmJobRow(planet), job' = [job EXCEPT ![j] = to],
         job[j].at # "idle" \/ O!Unlocked,
         UNCHANGED <<planet, site, adoption, polygon, late, together>>,
         O!Publishing(j)' => OsmPublished(j)',
         replica' \in 0 .. planet \cup {None}, stage' \in [upto : 0 .. planet, torn : BOOLEAN, gap : {FALSE}],
         replica' # None => replica' <= stage'.upto, replica' # None => behind' \/ replica' <= site.upto,
         OsmJob(j)'
  PROVE  OsmInv'
  <1>1. /\ OsmUsers' /\ OsmLock' /\ OsmOnce' /\ \A a \in Adopters : OsmVisit(a)'
        /\ \A i \in O!Jobs : O!Publishing(i)' => OsmPublished(i)'
        /\ job' \in [O!Jobs -> OsmJobRow(planet)] /\ job'[j] = to
        /\ \A i \in O!Jobs \ {j} : job'[i] = job[i]
    BY OsmRuns
  <1>2. OsmData' BY <1>1 DEF OsmInv, OsmData
  <1>3. \A i \in O!Jobs \ {j} : job'[i].at = "idle" BY <1>1 DEF OsmInv, OsmLock, O!Unlocked
  <1>4. \A i \in O!Jobs \ {j} : OsmJob(i)' BY <1>3 DEF OsmJob, OsmPublic
  <1>5. OsmStage' BY <1>4 DEF OsmStage
  <1> QED BY <1>1, <1>2, <1>5 DEF OsmInv

(* ... where only its place changes, or it ends *)
LEMMA OsmQuiet ==
  ASSUME OsmInv, NEW j \in O!Jobs, NEW to \in OsmJobRow(planet), job' = [job EXCEPT ![j] = to],
         job[j].at # "idle" \/ O!Unlocked, UNCHANGED <<planet, stage, replica, site, adoption, polygon, behind, late, together>>,
         O!Publishing(j)' => OsmPublished(j)', OsmJob(j)'
  PROVE  OsmInv'
  <1>1. /\ replica' \in 0 .. planet \cup {None} /\ stage' \in [upto : 0 .. planet, torn : BOOLEAN, gap : {FALSE}]
        /\ replica' # None => replica' <= stage'.upto
        /\ replica' # None => behind' \/ replica' <= site.upto
    BY DEF OsmInv, OsmData, OsmStage
  <1> QED BY <1>1, OsmSteps

LEMMA OsmSimple ==
  ASSUME OsmInv, NEW j \in O!Jobs, NEW to \in OsmJobRow(planet), job' = [job EXCEPT ![j] = to],
         to.at \in {"idle", "create", "update"},
         job[j].at # "idle" \/ O!Unlocked, UNCHANGED <<planet, stage, replica, site, adoption, polygon, behind, late, together>>
  PROVE  OsmInv'
  <1>1. job \in [O!Jobs -> OsmJobRow(planet)] BY DEF OsmInv, OsmData
  <1>2. job'[j].at \in {"idle", "create", "update"} BY <1>1
  <1>3. ~O!Publishing(j)' BY <1>2 DEF O!Publishing
  <1>4. OsmJob(j)' BY <1>2 DEF OsmJob, OsmPublic
  <1> QED BY <1>3, <1>4, OsmQuiet

LEMMA OsmNumbers ==
  ASSUME OsmInv
  PROVE  /\ planet \in Nat /\ planet <= MaxPlanet /\ stage.upto \in 0 .. planet /\ stage.torn \in BOOLEAN
         /\ stage.gap = FALSE /\ site.upto \in 0 .. planet /\ site.whole = TRUE
         /\ \A j \in O!Jobs : job[j] \in OsmJobRow(planet) /\ job[j].upto \in 0 .. planet
         /\ O!NoJob \in OsmJobRow(planet) /\ O!NoJob.at = "idle"
  <1>1. planet \in 0 .. MaxPlanet BY DEF OsmInv, OsmData
  <1>2. planet \in Nat /\ planet <= MaxPlanet BY <1>1, OsmBounds
  <1>3. stage.upto \in 0 .. planet /\ stage.torn \in BOOLEAN /\ stage.gap = FALSE BY DEF OsmInv, OsmData
  <1>4. site.upto \in 0 .. planet /\ site.whole = TRUE BY DEF OsmInv, OsmData
  <1>5. \A j \in O!Jobs : job[j] \in OsmJobRow(planet) BY DEF OsmInv, OsmData
  <1>6. \A j \in O!Jobs : job[j].upto \in 0 .. planet BY <1>5 DEF OsmJobRow
  <1>7. O!NoJob \in OsmJobRow(planet) /\ O!NoJob.at = "idle" BY <1>2, OsmNoJob
  <1> QED BY <1>2, <1>3, <1>4, <1>5, <1>6, <1>7

LEMMA OsmBegins == ASSUME OsmInv, O!Import \/ O!Update PROVE OsmInv'
  <1>1. "operator" \in O!Jobs /\ "timer" \in O!Jobs BY DEF O!Jobs
  <1>2. CASE O!Import
    <2>1. PICK upto \in 0 .. planet :
               job' = [job EXCEPT !["operator"] = OsmNewJob("create", upto)]
      BY <1>2 DEF O!Import, OsmNewJob
    <2>2. O!Unlocked /\ UNCHANGED <<planet, stage, replica, site, adoption, polygon, behind, late, together>>
      BY <1>2 DEF O!Import
    <2> DEFINE to == OsmNewJob("create", upto)
    <2>3. to \in OsmJobRow(planet) /\ to.at = "create" BY OsmNumbers, OsmGoals, OsmBegun
    <2>4. job' = [job EXCEPT !["operator"] = to] BY <2>1
    <2> HIDE DEF to
    <2> QED BY <1>1, <2>2, <2>3, <2>4, OsmSimple
  <1>3. CASE O!Update
    <2> DEFINE to == [job["timer"] EXCEPT !.at = "update"]
    <2>1. to \in OsmJobRow(planet) /\ to.at = "update" BY <1>1, OsmNumbers, OsmGoals, OsmTurned
    <2>2. job' = [job EXCEPT !["timer"] = to] BY <1>3 DEF O!Update, O!Goes
    <2>3. O!Unlocked /\ UNCHANGED <<planet, stage, replica, site, adoption, polygon, behind, late, together>>
      BY <1>3 DEF O!Update
    <2> HIDE DEF to
    <2> QED BY <1>1, <2>1, <2>2, <2>3, OsmSimple
  <1> QED BY <1>2, <1>3

LEMMA OsmEnds == ASSUME OsmInv, NEW j \in O!Jobs, O!FailJob(j) PROVE OsmInv'
  <1>1. /\ job[j].at # "idle" /\ job' = [job EXCEPT ![j] = O!NoJob]
        /\ UNCHANGED <<planet, stage, replica, site, adoption, polygon, behind, late, together>>
    BY DEF O!FailJob
  <1> QED BY <1>1, OsmNumbers, OsmSimple

LEMMA OsmCreate == ASSUME OsmInv, NEW j \in O!Jobs, O!Create(j) PROVE OsmInv'
  <1> DEFINE to == [job[j] EXCEPT !.at = "created"]
  <1>1. to \in OsmJobRow(planet) /\ to.at = "created" BY OsmNumbers, OsmGoals, OsmTurned
  <1>2. /\ job' = [job EXCEPT ![j] = to] /\ stage' = [upto |-> 0, torn |-> TRUE, gap |-> FALSE] /\ replica' = None
        /\ job[j].at # "idle" /\ UNCHANGED <<planet, site, adoption, polygon, behind, late, together>>
    BY DEF O!Create, O!Goes
  <1>3. stage' \in [upto : 0 .. planet, torn : BOOLEAN, gap : {FALSE}]
    <2>1. 0 \in 0 .. planet BY OsmNumbers
    <2> QED BY <1>2, <2>1
  <1> HIDE DEF to
  <1>4. job'[j].at = "created" BY <1>1, <1>2 DEF OsmInv, OsmData
  <1>5. ~O!Publishing(j)' BY <1>4 DEF O!Publishing
  <1>6. OsmJob(j)' BY <1>4 DEF OsmJob, OsmPublic
  <1> QED BY <1>1, <1>2, <1>3, <1>5, <1>6, OsmSteps

LEMMA OsmFinishCreate == ASSUME OsmInv, NEW j \in O!Jobs, O!FinishCreate(j) PROVE OsmInv'
  <1> DEFINE to == [job[j] EXCEPT !.at = "init"]
  <1>1. to \in OsmJobRow(planet) /\ to.at = "init" /\ to.upto = job[j].upto BY OsmNumbers, OsmGoals, OsmTurned
  <1>2. /\ job' = [job EXCEPT ![j] = to] /\ stage' = [upto |-> job[j].upto, torn |-> FALSE, gap |-> FALSE]
        /\ replica' \in {None, job[j].upto} /\ behind' = TRUE
        /\ job[j].at # "idle" /\ UNCHANGED <<planet, site, adoption, polygon, late, together>>
    BY DEF O!FinishCreate, O!Goes
  <1>u. job[j].upto \in 0 .. planet /\ job[j].upto <= job[j].upto BY OsmNumbers
  <1>3. stage' \in [upto : 0 .. planet, torn : BOOLEAN, gap : {FALSE}] /\ stage'.upto = job[j].upto /\ ~stage'.torn
    BY <1>2, <1>u
  <1> HIDE DEF to
  <1>4. job'[j].at = "init" /\ job'[j].upto = stage'.upto BY <1>1, <1>2, <1>3 DEF OsmInv, OsmData
  <1>5. ~O!Publishing(j)' BY <1>4 DEF O!Publishing
  <1>6. OsmJob(j)' BY <1>2, <1>3, <1>4 DEF OsmJob, OsmPublic
  <1>7. replica' \in 0 .. planet \cup {None} /\ (replica' # None => replica' <= stage'.upto) BY <1>2, <1>3, <1>u
  <1> QED BY <1>1, <1>2, <1>3, <1>5, <1>6, <1>7, OsmSteps

LEMMA OsmBeginReplication == ASSUME OsmInv, NEW j \in O!Jobs, O!BeginReplication(j) PROVE OsmInv'
  <1> DEFINE to == [job[j] EXCEPT !.at = "upsert"]
  <1>1. to \in OsmJobRow(planet) /\ to.at = "upsert" BY OsmNumbers, OsmGoals, OsmTurned
  <1>2. /\ job[j].at = "init" /\ job' = [job EXCEPT ![j] = to] /\ replica' = job[j].upto
        /\ UNCHANGED <<planet, stage, site, adoption, polygon, behind, late, together>>
    BY DEF O!BeginReplication, O!StartAt, O!Goes
  <1>3. behind /\ ~stage.torn /\ job[j].upto = stage.upto BY <1>2 DEF OsmInv, OsmStage, OsmJob
  <1>4. stage \in [upto : 0 .. planet, torn : BOOLEAN, gap : {FALSE}] BY DEF OsmInv, OsmData
  <1>u. job[j].upto \in 0 .. planet /\ job[j].upto <= job[j].upto BY OsmNumbers
  <1> HIDE DEF to
  <1>5. job'[j].at = "upsert" BY <1>1, <1>2 DEF OsmInv, OsmData
  <1>6. ~O!Publishing(j)' BY <1>5 DEF O!Publishing
  <1>7. OsmJob(j)' BY <1>2, <1>3, <1>5 DEF OsmJob, OsmPublic
  <1>8. /\ replica' \in 0 .. planet \cup {None} /\ replica' <= stage'.upto /\ behind'
        /\ stage' \in [upto : 0 .. planet, torn : BOOLEAN, gap : {FALSE}] /\ job[j].at # "idle"
    BY <1>2, <1>3, <1>4, <1>u
  <1> QED BY <1>1, <1>2, <1>6, <1>7, <1>8, OsmSteps

(* A chunk begins where the replication stands, which is not ahead of the stage: no gap. *)
LEMMA OsmAppend == ASSUME OsmInv, NEW j \in O!Jobs, O!Append(j) PROVE OsmInv'
  <1>1. job[j].at = "update" /\ UNCHANGED <<planet, replica, site, adoption, polygon, behind, late, together>>
    BY DEF O!Append
  <1>2. CASE replica = None \/ replica >= planet
    <2>1. job' = [job EXCEPT ![j] = O!NoJob] /\ UNCHANGED stage BY <1>2 DEF O!Append
    <2> QED BY <1>1, <2>1, OsmNumbers, OsmSimple
  <1>3. CASE ~(replica = None \/ replica >= planet)
    <2> DEFINE upto == IF replica + Chunk < planet THEN replica + Chunk ELSE planet
    <2> DEFINE to == OsmNewJob("append", upto)
    <2> DEFINE gap == stage.gap \/ replica > stage.upto
    <2>1. job' = [job EXCEPT ![j] = to] /\ stage' = [stage EXCEPT !.torn = TRUE, !.gap = gap]
      BY <1>3 DEF O!Append, OsmNewJob
    <2>a. replica # None /\ replica \in 0 .. planet /\ planet \in Nat BY <1>3, OsmNumbers DEF OsmInv, OsmData
    <2>b. replica < planet BY <1>3, <2>a
    <2>c. /\ replica <= stage.upto /\ (behind \/ replica <= site.upto)
          /\ stage \in [upto : 0 .. planet, torn : BOOLEAN, gap : {FALSE}]
      BY <2>a DEF OsmInv, OsmData, OsmStage
    <2>2. /\ replica # None /\ replica \in 0 .. planet /\ replica < planet /\ planet \in Nat
          /\ replica <= stage.upto /\ (behind \/ replica <= site.upto)
          /\ stage \in [upto : 0 .. planet, torn : BOOLEAN, gap : {FALSE}] /\ stage.upto \in 0 .. planet
          /\ stage.gap = FALSE
      BY <2>a, <2>b, <2>c, OsmNumbers
    <2>3. upto \in 0 .. planet /\ replica <= upto BY <2>2, OsmBounds
    <2>4. ~(replica > stage.upto) BY <2>2
    <2>5. gap = FALSE BY <2>2, <2>4, Zenon
    <2> HIDE DEF upto, gap
    <2>6. to \in OsmJobRow(planet) /\ to.at = "append" /\ to.upto = upto BY <2>2, <2>3, OsmGoals, OsmBegun
    <2> HIDE DEF to
    <2>7. stage' \in [upto : 0 .. planet, torn : BOOLEAN, gap : {FALSE}] /\ stage'.upto = stage.upto
      BY <2>1, <2>2, <2>5
    <2>8. job'[j].at = "append" /\ job'[j].upto = upto BY <2>1, <2>6 DEF OsmInv, OsmData
    <2>9. ~O!Publishing(j)' BY <2>8 DEF O!Publishing
    <2>10. OsmJob(j)' BY <1>1, <2>2, <2>3, <2>8 DEF OsmJob, OsmPublic
    <2> QED BY <1>1, <2>1, <2>2, <2>6, <2>7, <2>9, <2>10, OsmSteps
  <1> QED BY <1>2, <1>3

LEMMA OsmFinishAppend == ASSUME OsmInv, NEW j \in O!Jobs, O!FinishAppend(j) PROVE OsmInv'
  <1> DEFINE to == [job[j] EXCEPT !.at = "upsert"]
  <1>1. to \in OsmJobRow(planet) /\ to.at = "upsert" BY OsmNumbers, OsmGoals, OsmTurned
  <1>2. /\ job[j].at = "append" /\ job' = [job EXCEPT ![j] = to]
        /\ stage' = [stage EXCEPT !.upto = job[j].upto, !.torn = FALSE]
        /\ UNCHANGED <<planet, replica, site, adoption, polygon, behind, late, together>>
    BY DEF O!FinishAppend, O!Goes
  <1>3. /\ replica # None /\ replica <= job[j].upto /\ job[j].upto \in 0 .. planet
        /\ replica \in 0 .. planet /\ (behind \/ replica <= site.upto)
        /\ stage \in [upto : 0 .. planet, torn : BOOLEAN, gap : {FALSE}]
    BY <1>2, OsmNumbers DEF OsmInv, OsmStage, OsmJob, OsmData
  <1>4. /\ stage' \in [upto : 0 .. planet, torn : BOOLEAN, gap : {FALSE}] /\ stage'.upto = job[j].upto
        /\ ~stage'.torn
    BY <1>2, <1>3
  <1> HIDE DEF to
  <1>5. job'[j].at = "upsert" BY <1>1, <1>2 DEF OsmInv, OsmData
  <1>6. ~O!Publishing(j)' BY <1>5 DEF O!Publishing
  <1>7. OsmJob(j)' BY <1>4, <1>5 DEF OsmJob, OsmPublic
  <1> QED BY <1>1, <1>2, <1>3, <1>4, <1>6, <1>7, OsmSteps

(* What the replication notes is published. *)
LEMMA OsmAdvance == ASSUME OsmInv, NEW j \in O!Jobs, O!Advance(j) PROVE OsmInv'
  <1>1. /\ job[j].at = "wikidata" /\ UNCHANGED <<planet, stage, site, adoption, polygon, behind, late, together>>
    BY DEF O!Advance
  <1>2. CASE j = "operator"
    <2>1. job' = [job EXCEPT ![j] = O!NoJob] /\ UNCHANGED replica BY <1>2 DEF O!Advance
    <2> QED BY <1>1, <2>1, OsmNumbers, OsmSimple
  <1>3. CASE j # "operator"
    <2> DEFINE to == [job[j] EXCEPT !.at = "update"]
    <2>1. to \in OsmJobRow(planet) /\ to.at = "update" BY OsmNumbers, OsmGoals, OsmTurned
    <2>2. job' = [job EXCEPT ![j] = to] /\ replica' = job[j].upto BY <1>3 DEF O!Advance, O!Goes
    <2>3. /\ job[j].upto = stage.upto /\ site.upto = job[j].upto
          /\ stage \in [upto : 0 .. planet, torn : BOOLEAN, gap : {FALSE}]
      BY <1>1 DEF OsmInv, OsmStage, OsmJob, OsmData
    <2>u. job[j].upto \in 0 .. planet /\ job[j].upto <= job[j].upto BY OsmNumbers
    <2> HIDE DEF to
    <2>4. job'[j].at = "update" BY <2>1, <2>2 DEF OsmInv, OsmData
    <2>5. ~O!Publishing(j)' BY <2>4 DEF O!Publishing
    <2>6. OsmJob(j)' BY <2>4 DEF OsmJob, OsmPublic
    <2>7. /\ replica' \in 0 .. planet \cup {None} /\ replica' <= stage'.upto /\ replica' <= site.upto
          /\ stage' \in [upto : 0 .. planet, torn : BOOLEAN, gap : {FALSE}] /\ job[j].at # "idle"
      BY <1>1, <2>2, <2>3, <2>u
    <2> QED BY <1>1, <2>1, <2>2, <2>5, <2>6, <2>7, OsmSteps
  <1> QED BY <1>2, <1>3

LEMMA OsmChange == ASSUME OsmInv, O!Change PROVE OsmInv'
  <1>1. /\ planet < MaxPlanet /\ planet' = planet + 1
        /\ UNCHANGED <<stage, replica, job, site, adoption, polygon, behind, late, together>>
    BY DEF O!Change
  <1>2. planet' \in 0 .. MaxPlanet /\ 0 .. planet \subseteq 0 .. planet' BY <1>1, OsmNumbers, OsmBounds
  <1>3. OsmJobRow(planet) \subseteq OsmJobRow(planet') BY <1>2 DEF OsmJobRow
  <1>4. job' \in [O!Jobs -> OsmJobRow(planet')] BY <1>1, <1>3 DEF OsmInv, OsmData
  <1>5. stage' \in [upto : 0 .. planet', torn : BOOLEAN, gap : {FALSE}] /\ site' \in [upto : 0 .. planet', whole : {TRUE}]
    BY <1>1, <1>2 DEF OsmInv, OsmData
  <1>6. OsmData' BY <1>1, <1>2, <1>4, <1>5 DEF OsmInv, OsmData
  <1>7. OsmUsers' /\ OsmLock' /\ OsmOnce'
    BY <1>1 DEF OsmInv, OsmUsers, OsmLock, OsmOnce, OsmPast, O!Created
  <1>8. OsmStage' BY <1>1 DEF OsmInv, OsmStage, OsmJob
  <1>9. \A a \in Adopters : OsmVisit(a)' BY <1>1 DEF OsmInv, OsmVisit, O!Created, O!Open
  <1>10. \A j \in O!Jobs : O!Publishing(j)' => OsmPublished(j)'
    BY <1>1 DEF OsmInv, OsmPublished, O!Publishing, O!Created
  <1> QED BY <1>6, <1>7, <1>8, <1>9, <1>10 DEF OsmInv

(* postprocess_osm: who is served meanwhile is late, everybody served before is healed. *)
OsmUpserted(j) == [job[j] EXCEPT !.at = "areas", !.upto = stage.upto, !.whole = ~stage.torn /\ ~stage.gap,
                                 !.heals = {a \in O!Created : ~O!Open(a)}]

LEMMA OsmUpsert == ASSUME OsmInv, NEW j \in O!Jobs, O!Upsert(j) PROVE OsmInv'
  <1>1. job[j].at = "upsert" /\ UNCHANGED <<planet, stage, replica, site, adoption, polygon, behind, together>>
    BY DEF O!Upsert
  <1>2. ~stage.torn BY <1>1 DEF OsmInv, OsmStage, OsmJob
  <1>3. /\ job' = [job EXCEPT ![j].at = "areas", ![j].upto = stage.upto,
                              ![j].whole = ~stage.torn /\ ~stage.gap,
                              ![j].heals = {a \in O!Created : ~O!Open(a)}]
        /\ late' = late \cup {a \in Adopters : O!Open(a)}
    BY <1>2 DEF O!Upsert
  <1>4. job[j] \in OsmJobRow(planet) /\ job \in [O!Jobs -> OsmJobRow(planet)] BY DEF OsmInv, OsmData
  <1>5. job' = [job EXCEPT ![j] = OsmUpserted(j)] BY <1>3, <1>4 DEF OsmUpserted
  <1>6. (~stage.torn /\ ~stage.gap) = TRUE BY <1>2, OsmNumbers
  <1> DEFINE heals == {a \in O!Created : ~O!Open(a)}
  <1>7. heals \in SUBSET Adopters BY DEF OsmInv, OsmUsers
  <1>8. OsmUpserted(j) \in OsmJobRow(planet)
    BY <1>4, <1>6, <1>7, OsmGoals, OsmNumbers DEF OsmUpserted, OsmJobRow
  <1>9. OsmUpserted(j).at = "areas" /\ OsmUpserted(j).upto = stage.upto /\ OsmUpserted(j).heals = heals
    BY <1>4 DEF OsmUpserted, OsmJobRow
  <1>10. /\ job' \in [O!Jobs -> OsmJobRow(planet)] /\ job'[j] = OsmUpserted(j)
         /\ \A i \in O!Jobs \ {j} : job'[i] = job[i]
    BY <1>4, <1>5, <1>8
  <1>11. OsmData' BY <1>1, <1>10 DEF OsmInv, OsmData
  <1>12. OsmUsers' BY <1>1, <1>3 DEF OsmInv, OsmUsers, O!Created
  <1>13. OsmLock' BY <1>1, <1>10 DEF OsmInv, OsmLock
  <1>14. OsmOnce' BY <1>1 DEF OsmInv, OsmOnce, OsmPast, O!Created
  <1>15. \A i \in O!Jobs \ {j} : job'[i].at = "idle" BY <1>1, <1>10 DEF OsmInv, OsmLock
  <1>16. OsmStage'
    <2>1. \A i \in O!Jobs \ {j} : OsmJob(i)' BY <1>15 DEF OsmJob, OsmPublic
    <2>2. OsmJob(j)' BY <1>1, <1>9, <1>10 DEF OsmJob
    <2> QED BY <1>1, <2>1, <2>2 DEF OsmInv, OsmStage
  <1>17. \A a \in Adopters : OsmVisit(a)' BY <1>1, <1>3 DEF OsmInv, OsmVisit, O!Created, O!Open
  <1>18. OsmPublished(j)'
    <2>1. job'[j].at = "areas" /\ job'[j].heals = heals /\ O!Created' = O!Created BY <1>1, <1>9, <1>10 DEF O!Created
    <2>2. \A a \in heals : a \in O!Created /\ adoption[a].at = "done"
      <3> SUFFICES ASSUME NEW a \in O!Created, ~O!Open(a) PROVE adoption[a].at = "done" OBVIOUS
      <3>1. a \in Adopters /\ OsmVisit(a) BY DEF OsmInv, OsmUsers
      <3> QED BY <3>1 DEF OsmVisit, OsmBefore, O!Open
    <2>3. \A a \in Adopters : \/ a \in heals \/ a \in late' \/ adoption[a].at = "idle"
                              \/ adoption[a].at = "done" /\ a \notin O!Created
      BY <1>3 DEF O!Open
    <2> HIDE DEF heals
    <2> QED BY <1>1, <2>1, <2>2, <2>3 DEF OsmPublished
  <1>19. \A i \in O!Jobs : O!Publishing(i)' => OsmPublished(i)' BY <1>15, <1>18 DEF O!Publishing
  <1> QED BY <1>11, <1>12, <1>13, <1>14, <1>16, <1>17, <1>19 DEF OsmInv

(* The steps of the transaction before its commit *)
LEMMA OsmWrites ==
  ASSUME OsmInv, NEW j \in O!Jobs, NEW to \in OsmJobRow(planet), job' = [job EXCEPT ![j] = to],
         job[j].at \in OsmPublic, to.at \in OsmPublic, to.upto = job[j].upto, to.heals = job[j].heals,
         to.at \in {"sources", "osm", "polygons", "commit"} => job[j].heals \subseteq to.areas,
         to.at \in {"osm", "polygons", "commit"} => job[j].heals \subseteq to.sources,
         UNCHANGED <<planet, stage, replica, site, adoption, polygon, behind, late, together>>
  PROVE  OsmInv'
  <1>1. job'[j] = to BY DEF OsmInv, OsmData
  <1>2. O!Publishing(j) /\ job[j].at # "idle" BY DEF O!Publishing, OsmPublic
  <1>3. OsmPublished(j)' BY <1>1, <1>2 DEF OsmInv, OsmPublished, O!Created
  <1>4. OsmJob(j)' BY <1>1 DEF OsmInv, OsmStage, OsmJob, OsmPublic
  <1> QED BY <1>2, <1>3, <1>4, OsmQuiet

LEMMA OsmSyncAreas == ASSUME OsmInv, NEW j \in O!Jobs, O!SyncAreas(j) PROVE OsmInv'
  <1>1. /\ job[j].at \in {"areas", "held"} /\ job[j].at \in OsmPublic
        /\ UNCHANGED <<planet, stage, replica, site, adoption, polygon, behind, late, together>>
    BY DEF O!SyncAreas, OsmPublic
  <1>2. job[j] \in OsmJobRow(planet) /\ job \in [O!Jobs -> OsmJobRow(planet)] BY DEF OsmInv, OsmData
  <1>3. CASE O!Goes(j, "held")
    <2> DEFINE to == [job[j] EXCEPT !.at = "held"]
    <2>1. to \in OsmJobRow(planet) /\ to.at = "held" /\ to.upto = job[j].upto /\ to.heals = job[j].heals
      BY OsmNumbers, OsmGoals, OsmTurned
    <2>2. job' = [job EXCEPT ![j] = to] BY <1>3 DEF O!Goes
    <2> HIDE DEF to
    <2>3. to.at \in OsmPublic BY <2>1 DEF OsmPublic
    <2> QED BY <1>1, <2>1, <2>2, <2>3, OsmWrites
  <1>4. CASE job' = [job EXCEPT ![j].at = "sources", ![j].areas = O!Created]
    <2> DEFINE to == [job[j] EXCEPT !.at = "sources", !.areas = O!Created]
    <2>1. job' = [job EXCEPT ![j] = to] BY <1>2, <1>4
    <2>2. O!Created \in SUBSET Adopters BY DEF OsmInv, OsmUsers
    <2>3. to \in OsmJobRow(planet) BY <1>2, <2>2, OsmGoals DEF OsmJobRow
    <2>4. to.at = "sources" /\ to.upto = job[j].upto /\ to.heals = job[j].heals /\ to.areas = O!Created
      BY <1>2 DEF OsmJobRow
    <2> HIDE DEF to
    <2>5. to.at \in OsmPublic /\ O!Publishing(j) BY <1>1, <2>4 DEF OsmPublic, O!Publishing
    <2>6. job[j].heals \subseteq O!Created BY <2>5 DEF OsmInv, OsmPublished
    <2> QED BY <1>1, <2>1, <2>3, <2>4, <2>5, <2>6, OsmWrites
  <1> QED BY <1>3, <1>4 DEF O!SyncAreas

LEMMA OsmRefreshSources == ASSUME OsmInv, NEW j \in O!Jobs, O!RefreshSources(j) PROVE OsmInv'
  <1>1. /\ job[j].at = "sources" /\ job[j].at \in OsmPublic
        /\ job' = [job EXCEPT ![j].at = "osm", ![j].sources = O!Created]
        /\ UNCHANGED <<planet, stage, replica, site, adoption, polygon, behind, late, together>>
    BY DEF O!RefreshSources, O!Refreshed, OsmPublic
  <1>2. job[j] \in OsmJobRow(planet) /\ job \in [O!Jobs -> OsmJobRow(planet)] BY DEF OsmInv, OsmData
  <1> DEFINE to == [job[j] EXCEPT !.at = "osm", !.sources = O!Created]
  <1>3. job' = [job EXCEPT ![j] = to] BY <1>1, <1>2
  <1>4. O!Created \in SUBSET Adopters BY DEF OsmInv, OsmUsers
  <1>5. to \in OsmJobRow(planet) BY <1>2, <1>4, OsmGoals DEF OsmJobRow
  <1>6. /\ to.at = "osm" /\ to.upto = job[j].upto /\ to.heals = job[j].heals /\ to.sources = O!Created
        /\ to.areas = job[j].areas
    BY <1>2 DEF OsmJobRow
  <1> HIDE DEF to
  <1>7. to.at \in OsmPublic /\ O!Publishing(j) BY <1>1, <1>6 DEF OsmPublic, O!Publishing
  <1>8. job[j].heals \subseteq O!Created /\ job[j].heals \subseteq job[j].areas BY <1>1, <1>7 DEF OsmInv, OsmPublished
  <1> QED BY <1>1, <1>3, <1>5, <1>6, <1>7, <1>8, OsmWrites

LEMMA OsmBumpJob == ASSUME OsmInv, NEW j \in O!Jobs, O!BumpJob(j) PROVE OsmInv'
  <1>1. PICK place \in {"polygons", "commit"} : O!Goes(j, place) BY DEF O!BumpJob
  <1>2. /\ job[j].at \in {"osm", "polygons"} /\ job[j].at \in OsmPublic
        /\ UNCHANGED <<planet, stage, replica, site, adoption, polygon, behind, late, together>>
    BY DEF O!BumpJob, OsmPublic
  <1> DEFINE to == [job[j] EXCEPT !.at = place]
  <1>3. /\ to \in OsmJobRow(planet) /\ to.at = place /\ to.upto = job[j].upto /\ to.heals = job[j].heals
        /\ to.areas = job[j].areas /\ to.sources = job[j].sources
    BY OsmNumbers, OsmGoals, OsmTurned
  <1>4. job' = [job EXCEPT ![j] = to] BY <1>1 DEF O!Goes
  <1> HIDE DEF to
  <1>5. to.at \in OsmPublic /\ O!Publishing(j) BY <1>2, <1>3 DEF OsmPublic, O!Publishing
  <1>6. job[j].heals \subseteq job[j].areas /\ job[j].heals \subseteq job[j].sources
    BY <1>2, <1>5 DEF OsmInv, OsmPublished
  <1> QED BY <1>2, <1>3, <1>4, <1>5, <1>6, OsmWrites

(* The commit: whoever is not late was healed, or has nothing yet. *)
LEMMA OsmPublish == ASSUME OsmInv, NEW j \in O!Jobs, O!Publish(j) PROVE OsmInv'
  <1>1. /\ job[j].at = "commit" /\ site' = [upto |-> job[j].upto, whole |-> job[j].whole]
        /\ polygon' = [a \in O!Created |->
                         [polygon[a] EXCEPT !.source = IF a \in job[j].sources THEN job[j].upto ELSE @,
                                            !.areas  = IF a \in job[j].areas THEN job[j].upto ELSE @]]
        /\ late' = late \ job[j].heals /\ behind' = FALSE
        /\ UNCHANGED <<planet, stage, replica, adoption, together>>
    BY DEF O!Publish
  <1> DEFINE to == [job[j] EXCEPT !.at = "wikidata"]
  <1>2. /\ to \in OsmJobRow(planet) /\ to.at = "wikidata" /\ to.upto = job[j].upto
    BY OsmNumbers, OsmGoals, OsmTurned
  <1>3. job' = [job EXCEPT ![j] = to] BY DEF O!Publish, O!Goes
  <1> HIDE DEF to
  <1>4. /\ job' \in [O!Jobs -> OsmJobRow(planet)] /\ job'[j] = to
        /\ \A i \in O!Jobs \ {j} : job'[i] = job[i] /\ job'[i].at = "idle"
    BY <1>1, <1>2, <1>3 DEF OsmInv, OsmData, OsmLock
  <1>5. OsmPublished(j) /\ job[j].heals \subseteq job[j].areas /\ job[j].heals \subseteq job[j].sources
    BY <1>1 DEF OsmInv, OsmPublished, O!Publishing
  <1>6. /\ job[j].upto \in 0 .. planet /\ job[j].upto = stage.upto /\ job[j].whole = TRUE
        /\ job[j].heals \subseteq Adopters
    BY <1>1, OsmNumbers DEF OsmInv, OsmStage, OsmJob, OsmPublic, OsmJobRow
  <1>7. site' \in [upto : 0 .. planet, whole : {TRUE}] /\ site'.upto = job[j].upto BY <1>1, <1>6
  <1>8. OsmData' BY <1>1, <1>4, <1>7 DEF OsmInv, OsmData
  <1>11. O!Created' = O!Created BY <1>1 DEF O!Created
  <1>9. OsmUsers' BY <1>1, <1>11 DEF OsmInv, OsmUsers
  <1>10. OsmLock' BY <1>1, <1>4 DEF OsmInv, OsmLock
  <1>12. OsmOnce' BY <1>1, <1>11 DEF OsmInv, OsmOnce, OsmPast
  <1>13. OsmStage'
    <2>1. \A i \in O!Jobs \ {j} : OsmJob(i)' BY <1>4 DEF OsmJob, OsmPublic
    <2>2. OsmJob(j)' BY <1>1, <1>2, <1>4, <1>6, <1>7 DEF OsmJob
    <2>3. replica # None => replica <= stage.upto BY DEF OsmInv, OsmStage
    <2> QED BY <1>1, <1>6, <1>7, <2>1, <2>2, <2>3 DEF OsmStage
  <1>14. ASSUME NEW a \in Adopters PROVE OsmVisit(a)'
    <2>1. OsmVisit(a) BY DEF OsmInv
    <2>2. a \in O!Created /\ OsmShaped(polygon[a]) => OsmShaped(polygon'[a])
      BY <1>1 DEF OsmShaped
    <2>4. CASE a \in job[j].heals
      <3>1. a \in O!Created /\ adoption[a].at = "done" /\ a \in job[j].areas /\ a \in job[j].sources
        BY <2>4, <1>5 DEF OsmPublished
      <3>2. OsmShaped(polygon[a]) BY <2>1, <3>1 DEF OsmVisit
      <3>3. polygon'[a].source = job[j].upto /\ polygon'[a].areas = job[j].upto
        BY <1>1, <3>1, <3>2 DEF OsmShaped
      <3> QED BY <1>1, <1>7, <1>11, <2>2, <3>1, <3>2, <3>3 DEF OsmVisit, OsmBefore, OsmAfter, O!Open
    <2>5. CASE a \notin job[j].heals /\ a \in late
      <3>1. a \in late' BY <1>1, <2>5
      <3> QED BY <1>1, <1>11, <2>1, <2>2, <3>1 DEF OsmVisit
    <2>6. CASE a \notin job[j].heals /\ a \notin late
      <3>1. a \notin O!Created /\ adoption[a].at \in {"idle", "done"}
        BY <2>1, <2>6, <1>5 DEF OsmPublished, OsmVisit, OsmBefore
      <3> QED BY <1>1, <1>11, <3>1 DEF OsmVisit, OsmAfter, O!Open
    <2> QED BY <2>4, <2>5, <2>6
  <1>15. \A i \in O!Jobs : ~O!Publishing(i)' BY <1>2, <1>4 DEF O!Publishing
  <1> QED BY <1>8, <1>9, <1>10, <1>12, <1>13, <1>14, <1>15 DEF OsmInv

-----------------------------------------------------------------------------
(* A user is served; a publication that waited for the assignments fails. *)
LEMMA OsmServes ==
  ASSUME OsmInv, NEW a \in Adopters, adoption[a].at # "done",
         DOMAIN adoption' = Adopters, DOMAIN adoption'[a] = {"at", "seen", "slug"},
         \A b \in Adopters \ {a} : adoption'[b] = adoption[b],
         O!Created' \in {O!Created, O!Created \cup {a}}, \A b \in O!Created \ {a} : polygon'[b] = polygon[b],
         late' \subseteq Adopters, late \subseteq late', late' \subseteq late \cup {a},
         job' \in [O!Jobs -> OsmJobRow(planet)], \A j \in O!Jobs : job'[j] = job[j] \/ job'[j] = O!NoJob,
         adoption[a].at = "idle" /\ (\E j \in O!Jobs : O!Publishing(j)) => a \in late',
         OsmVisit(a)', OsmOnce', UNCHANGED <<planet, stage, replica, site, behind>>
  PROVE  OsmInv'
  <1>1. OsmData' BY DEF OsmInv, OsmData
  <1>2. OsmUsers' BY DEF OsmInv, OsmUsers
  <1>3. O!NoJob.at = "idle" BY OsmNumbers
  <1>4. OsmLock' BY <1>3 DEF OsmInv, OsmLock
  <1>5. ASSUME NEW j \in O!Jobs PROVE OsmJob(j)'
    <2>1. CASE job'[j] = job[j] BY <2>1 DEF OsmInv, OsmStage, OsmJob
    <2>2. CASE job'[j] = O!NoJob BY <2>2, <1>3 DEF OsmJob, OsmPublic
    <2> QED BY <2>1, <2>2
  <1>6. OsmStage' BY <1>5 DEF OsmInv, OsmStage
  <1>7. ASSUME NEW b \in Adopters \ {a} PROVE OsmVisit(b)'
    <2>1. OsmVisit(b) BY DEF OsmInv
    <2>2. b \in O!Created' <=> b \in O!Created OBVIOUS
    <2>3. O!Open(b)' <=> O!Open(b) BY DEF O!Open
    <2> QED BY <2>1, <2>2, <2>3 DEF OsmVisit
  <1>8. ASSUME NEW j \in O!Jobs, O!Publishing(j)' PROVE OsmPublished(j)'
    <2>1. job'[j] = job[j] BY <1>3, <1>8 DEF O!Publishing
    <2>2. O!Publishing(j) /\ OsmPublished(j) BY <1>8, <2>1 DEF OsmInv, O!Publishing
    <2>3. a \notin job[j].heals BY <2>2 DEF OsmPublished
    <2>4. a \in late'
      <3>1. a \in late \/ adoption[a].at = "idle" BY <2>2, <2>3 DEF OsmPublished
      <3> QED BY <2>2, <3>1
    <2>5. job[j].heals \subseteq Adopters BY OsmNumbers DEF OsmJobRow
    <2>6. \A b \in job[j].heals : b \in O!Created' /\ adoption'[b].at = "done"
      BY <2>2, <2>3, <2>5 DEF OsmPublished
    <2>7. ASSUME NEW b \in Adopters
          PROVE  \/ b \in job[j].heals \/ b \in late' \/ adoption'[b].at = "idle"
                 \/ adoption'[b].at = "done" /\ b \notin O!Created'
      <3>1. CASE b = a BY <3>1, <2>4
      <3>2. CASE b # a
        <4>1. adoption'[b] = adoption[b] /\ (b \in O!Created' <=> b \in O!Created) BY <3>2
        <4> QED BY <4>1, <2>2 DEF OsmPublished
      <3> QED BY <3>1, <3>2
    <2> QED BY <2>1, <2>2, <2>6, <2>7 DEF OsmPublished
  <1> QED BY <1>1, <1>2, <1>4, <1>6, <1>7, <1>8 DEF OsmInv

LEMMA OsmOnceStays ==
  ASSUME OsmInv, NEW a \in Adopters, \A b \in Adopters \ {a} : adoption'[b] = adoption[b],
         adoption'[a].at \in {"checked", "named"} => OsmPast(a),
         O!Created' \subseteq O!Created, together => together'
  PROVE  OsmOnce'
  <1>1. \A b \in Adopters : OsmPast(b)' => OsmPast(b) BY DEF OsmPast
  <1> QED BY <1>1 DEF OsmInv, OsmOnce

(* What a request's step makes of its record *)
OsmTurnedTo(a, place) ==
  /\ DOMAIN adoption' = Adopters /\ DOMAIN adoption'[a] = {"at", "seen", "slug"}
  /\ adoption'[a].at = place /\ \A b \in Adopters \ {a} : adoption'[b] = adoption[b]

LEMMA OsmTurns ==
  ASSUME OsmInv, NEW a \in Adopters, NEW place, O!Turns(a, place)
  PROVE  OsmTurnedTo(a, place) /\ adoption'[a].seen = adoption[a].seen
  <1>1. DOMAIN adoption = Adopters /\ DOMAIN adoption[a] = {"at", "seen", "slug"} BY DEF OsmInv, OsmUsers
  <1>2. adoption' = [adoption EXCEPT ![a].at = place] BY DEF O!Turns
  <1> QED BY <1>1, <1>2 DEF OsmTurnedTo

LEMMA OsmNames ==
  ASSUME OsmInv, NEW a \in Adopters, NEW base, NEW place, O!Names(a, base, place)
  PROVE  OsmTurnedTo(a, place) /\ adoption'[a].seen = adoption[a].seen
  <1>1. DOMAIN adoption = Adopters /\ DOMAIN adoption[a] = {"at", "seen", "slug"} BY DEF OsmInv, OsmUsers
  <1> DEFINE slug == O!FreeSlug(base)
  <1>2. adoption' = [adoption EXCEPT ![a] = [@ EXCEPT !.at = place, !.slug = slug]] BY DEF O!Names
  <1> HIDE DEF slug
  <1> QED BY <1>1, <1>2 DEF OsmTurnedTo

(* A request goes on, and its polygon stays as it is. *)
LEMMA OsmGoesOn ==
  ASSUME OsmInv, NEW a \in Adopters, adoption[a].at \notin {"idle", "done"}, NEW place, OsmTurnedTo(a, place),
         adoption'[a].seen \in {adoption[a].seen, site.upto}, late' \in {late, late \cup {a}},
         place = "done" => a \in late' \/ a \notin O!Created,
         place = "done" \/ (adoption[a].at \in OsmBefore /\ place = "named" /\ OsmPast(a))
                        \/ (adoption[a].at \in OsmAfter /\ place \in OsmAfter),
         UNCHANGED <<planet, stage, replica, job, site, polygon, behind, together>>
  PROVE  OsmInv'
  <1>1. OsmVisit(a) /\ late \subseteq Adopters /\ job \in [O!Jobs -> OsmJobRow(planet)]
    BY DEF OsmInv, OsmUsers, OsmData
  <1>2. O!Created' = O!Created BY DEF O!Created
  <1>3. O!Open(a) /\ (O!Open(a)' <=> place # "done") /\ place # "idle"
    BY DEF O!Open, OsmTurnedTo, OsmAfter
  <1>4. OsmVisit(a)'
    <2>1. CASE place = "done" BY <1>1, <1>2, <1>3, <2>1 DEF OsmVisit, OsmTurnedTo, OsmBefore, OsmAfter
    <2>2. CASE place = "named" /\ adoption[a].at \in OsmBefore
      BY <1>1, <1>2, <1>3, <2>2 DEF OsmVisit, OsmTurnedTo, OsmBefore, OsmAfter
    <2>3. CASE adoption[a].at \in OsmAfter /\ place \in OsmAfter
      BY <1>1, <1>2, <1>3, <2>3 DEF OsmVisit, OsmTurnedTo, OsmBefore, OsmAfter
    <2> QED BY <2>1, <2>2, <2>3
  <1>5. OsmOnce'
    <2>1. adoption'[a].at \in {"checked", "named"} => OsmPast(a) BY DEF OsmTurnedTo, OsmAfter
    <2> QED BY <1>2, <2>1, OsmOnceStays DEF OsmTurnedTo
  <1> QED BY <1>1, <1>2, <1>4, <1>5, OsmServes DEF OsmTurnedTo

LEMMA OsmAbandon ==
  ASSUME OsmInv, NEW a \in Adopters, adoption[a].at \notin {"idle", "done"}, O!Abandon(a),
         UNCHANGED <<planet, stage, replica, job, site, polygon, behind, together>>
  PROVE  OsmInv'
  <1>1. O!Turns(a, "done") /\ late' = late \cup {a} BY DEF O!Abandon
  <1> QED BY <1>1, OsmTurns, OsmGoesOn

LEMMA OsmRead == ASSUME OsmInv, NEW a \in Adopters, O!Read(a) PROVE OsmInv'
  <1>1. /\ adoption[a].at = "idle" /\ adoption' = [adoption EXCEPT ![a] = [O!NoVisit EXCEPT !.at = "read", !.seen = site.upto]]
        /\ late' = (IF \E j \in O!Jobs : O!Publishing(j) THEN late \cup {a} ELSE late)
        /\ UNCHANGED <<planet, stage, replica, job, site, polygon, behind, together>>
    BY DEF O!Read
  <1>2. /\ OsmVisit(a) /\ late \subseteq Adopters /\ DOMAIN adoption = Adopters
        /\ job \in [O!Jobs -> OsmJobRow(planet)]
    BY DEF OsmInv, OsmUsers, OsmData
  <1>3. OsmTurnedTo(a, "read") /\ adoption'[a].seen = site.upto BY <1>1, <1>2 DEF OsmTurnedTo, O!NoVisit
  <1>4. a \notin O!Created /\ O!Created' = O!Created BY <1>1, <1>2 DEF OsmVisit, OsmBefore, O!Created
  <1>5. OsmVisit(a)' BY <1>1, <1>3, <1>4 DEF OsmVisit, OsmTurnedTo, OsmAfter, O!Open
  <1>6. OsmOnce'
    <2> QED BY <1>1, <1>3, <1>4, OsmOnceStays DEF OsmTurnedTo
  <1> QED BY <1>1, <1>2, <1>3, <1>4, <1>5, <1>6, OsmServes DEF OsmTurnedTo

LEMMA OsmCheck == ASSUME OsmInv, NEW a \in Adopters, O!Check(a) PROVE OsmInv'
  <1> DEFINE place == IF O!Taken(a) THEN "done" ELSE "checked"
  <1>1. /\ adoption[a].at = "read" /\ O!Turns(a, place)
        /\ together' = (together \/ \E b \in Adopters \ {a} : adoption[b].at \in {"checked", "named"})
        /\ UNCHANGED <<planet, stage, replica, job, site, polygon, behind, late>>
    BY DEF O!Check
  <1>2. /\ OsmVisit(a) /\ late \subseteq Adopters
        /\ job \in [O!Jobs -> OsmJobRow(planet)]
    BY DEF OsmInv, OsmUsers, OsmData
  <1>3. place \in {"done", "checked"} /\ (place = "checked" => O!Created \ {a} = {}) BY DEF O!Taken
  <1> HIDE DEF place
  <1>4. OsmTurnedTo(a, place) /\ adoption'[a].seen = adoption[a].seen BY <1>1, OsmTurns
  <1>5. a \notin O!Created /\ O!Created' = O!Created BY <1>1, <1>2 DEF OsmVisit, OsmBefore, O!Created
  <1>6. OsmVisit(a)'
    <2>1. O!Open(a) BY <1>1 DEF O!Open
    <2>2. adoption'[a].at \notin OsmAfter BY <1>3, <1>4 DEF OsmTurnedTo, OsmAfter
    <2> QED BY <1>1, <1>2, <1>4, <1>5, <2>1, <2>2 DEF OsmVisit, OsmTurnedTo
  <1>7. OsmOnce'
    <2>1. SUFFICES ASSUME ~together' PROVE OsmOnce' BY DEF OsmOnce
    <2>2. ~together /\ \A b \in Adopters \ {a} : ~OsmPast(b) BY <1>1, <2>1 DEF OsmPast
    <2>3. \A b \in Adopters \ {a} : ~OsmPast(b)' BY <1>4, <2>2 DEF OsmPast, OsmTurnedTo
    <2>4. \A b, c \in Adopters : b # c => ~(b \in O!Created /\ c \in O!Created) BY <2>2 DEF OsmInv, OsmOnce
    <2>5. OsmPast(a)' => O!Created \ {a} = {} BY <1>3, <1>4 DEF OsmPast, OsmTurnedTo
    <2> QED BY <1>5, <2>3, <2>4, <2>5 DEF OsmOnce
  <1> QED BY <1>1, <1>2, <1>4, <1>5, <1>6, <1>7, OsmServes DEF OsmTurnedTo

LEMMA OsmName == ASSUME OsmInv, NEW a \in Adopters, O!Name(a) PROVE OsmInv'
  <1>1. /\ adoption[a].at = "checked" /\ O!Names(a, "title", "named")
        /\ UNCHANGED <<planet, stage, replica, job, site, polygon, behind, late, together>>
    BY DEF O!Name
  <1>2. OsmTurnedTo(a, "named") /\ adoption'[a].seen = adoption[a].seen BY <1>1, OsmNames
  <1>3. adoption[a].at \in OsmBefore /\ OsmPast(a) BY <1>1 DEF OsmBefore, OsmPast
  <1> QED BY <1>1, <1>2, <1>3, OsmGoesOn

(* The polygon is there, of the state the request read. *)
LEMMA OsmInsert == ASSUME OsmInv, NEW a \in Adopters, O!Insert(a) PROVE OsmInv'
  <1>1. adoption[a].at = "named" /\ UNCHANGED <<planet, stage, replica, job, site, behind, late, together>>
    BY DEF O!Insert
  <1>2. /\ OsmVisit(a) /\ late \subseteq Adopters /\ O!Created \subseteq Adopters
        /\ job \in [O!Jobs -> OsmJobRow(planet)]
    BY DEF OsmInv, OsmUsers, OsmData
  <1>3. a \notin O!Created /\ OsmPast(a) BY <1>1, <1>2 DEF OsmVisit, OsmBefore, OsmPast
  <1>4. CASE O!Clashes(a)
    <2>1. O!Turns(a, "done") /\ UNCHANGED polygon BY <1>4 DEF O!Insert
    <2>2. OsmTurnedTo(a, "done") /\ adoption'[a].seen = adoption[a].seen BY <2>1, OsmTurns
    <2> QED BY <1>1, <1>3, <2>1, <2>2, OsmGoesOn
  <1>5. CASE ~O!Clashes(a)
    <2>1. PICK place \in {"assign", "lookup"} : O!Turns(a, place) BY <1>5 DEF O!Insert
    <2> DEFINE taken == [source |-> adoption[a].seen, areas |-> None, slug |-> adoption[a].slug]
    <2>2. polygon' = [b \in O!Created \cup {a} |-> IF b \in O!Created THEN polygon[b] ELSE taken]
      BY <1>5 DEF O!Insert
    <2>3. OsmTurnedTo(a, place) /\ adoption'[a].seen = adoption[a].seen BY <2>1, OsmTurns
    <2>4. OsmShaped(taken) /\ taken.source = adoption[a].seen BY DEF OsmShaped
    <2> HIDE DEF taken
    <2>5. O!Created' = O!Created \cup {a} BY <2>2 DEF O!Created
    <2>6. polygon'[a] = taken /\ \A b \in O!Created : polygon'[b] = polygon[b] BY <1>3, <2>2
    <2>7. adoption'[a].at \in OsmAfter /\ adoption'[a].at \notin OsmBefore /\ O!Open(a) /\ O!Open(a)'
      BY <1>1, <2>3 DEF OsmAfter, OsmBefore, OsmTurnedTo, O!Open
    <2>8. OsmVisit(a)' BY <1>1, <1>2, <2>3, <2>4, <2>5, <2>6, <2>7 DEF OsmVisit
    <2>9. OsmOnce'
      <3>1. SUFFICES ASSUME ~together' PROVE OsmOnce' BY DEF OsmOnce
      <3>2. \A b \in Adopters \ {a} : ~OsmPast(b) /\ b \notin O!Created BY <1>1, <1>3, <3>1 DEF OsmInv, OsmOnce
      <3>3. \A b \in Adopters \ {a} : ~OsmPast(b)' /\ b \notin O!Created'
        BY <2>3, <2>5, <3>2 DEF OsmPast, OsmTurnedTo
      <3> QED BY <3>3 DEF OsmOnce
    <2> QED BY <1>1, <1>2, <2>3, <2>5, <2>6, <2>8, <2>9, OsmServes DEF OsmTurnedTo
  <1> QED BY <1>4, <1>5

LEMMA OsmLookup == ASSUME OsmInv, NEW a \in Adopters, O!Lookup(a) PROVE OsmInv'
  <1>1. /\ adoption[a].at = "lookup" /\ adoption[a].at \in OsmAfter
        /\ UNCHANGED <<planet, stage, replica, job, site, polygon, behind, late, together>>
    BY DEF O!Lookup, OsmAfter
  <1>2. PICK place \in {"assign", "renamed"} : OsmTurnedTo(a, place) /\ adoption'[a].seen = adoption[a].seen
    BY OsmTurns, OsmNames DEF O!Lookup
  <1>3. place \in OsmAfter /\ place # "done" BY DEF OsmAfter
  <1> QED BY <1>1, <1>2, <1>3, OsmGoesOn

LEMMA OsmReleased == ASSUME OsmInv, NEW a \in Adopters, O!Released(a) PROVE OsmInv'
  <1> DEFINE place == IF polygon[a].areas = None THEN "polygons" ELSE "done"
  <1>1. /\ adoption[a].at = "held" /\ adoption[a].at \in OsmAfter /\ O!Turns(a, place) /\ late' = late \cup {a}
        /\ UNCHANGED <<planet, stage, replica, job, site, polygon, behind, together>>
    BY DEF O!Released, OsmAfter
  <1>2. place = "done" \/ place \in OsmAfter BY DEF OsmAfter
  <1> HIDE DEF place
  <1>3. OsmTurnedTo(a, place) /\ adoption'[a].seen = adoption[a].seen BY <1>1, OsmTurns
  <1> QED BY <1>1, <1>2, <1>3, OsmGoesOn

LEMMA OsmBumpVisit == ASSUME OsmInv, NEW a \in Adopters, O!BumpVisit(a) PROVE OsmInv'
  <1>1. PICK key \in {"polygons", "analytics", "osm"} :
             /\ adoption[a].at = key
             /\ O!Turns(a, CASE key = "polygons" -> "analytics" [] key = "analytics" -> "osm" [] OTHER -> "commit")
    BY DEF O!BumpVisit
  <1>2. UNCHANGED <<planet, stage, replica, job, site, polygon, behind, late, together>> BY DEF O!BumpVisit
  <1> DEFINE place == CASE key = "polygons" -> "analytics" [] key = "analytics" -> "osm" [] OTHER -> "commit"
  <1>3. place \in {"analytics", "osm", "commit"} OBVIOUS
  <1>4. O!Turns(a, place) BY <1>1
  <1> HIDE DEF place
  <1>5. OsmTurnedTo(a, place) /\ adoption'[a].seen = adoption[a].seen BY <1>4, OsmTurns
  <1>6. adoption[a].at \in OsmAfter /\ place \in OsmAfter /\ place # "done" BY <1>1, <1>3 DEF OsmAfter
  <1>7. adoption[a].at \notin {"idle", "done"} BY <1>1
  <1> QED BY <1>2, <1>5, <1>6, <1>7, OsmGoesOn

LEMMA OsmAssign == ASSUME OsmInv, NEW a \in Adopters, O!Assign(a) PROVE OsmInv'
  <1> DEFINE place == IF \E j \in O!Writers("areas") : a \in job[j].areas THEN "held" ELSE "polygons"
  <1>1. /\ adoption[a].at = "assign" /\ adoption[a].at \in OsmAfter
        /\ adoption' = [adoption EXCEPT ![a] = [O!NoVisit EXCEPT !.seen = site.upto, !.at = place]]
        /\ UNCHANGED <<planet, stage, replica, job, site, polygon, behind, late, together>>
    BY DEF O!Assign, OsmAfter
  <1>2. place \in OsmAfter /\ place # "done" BY DEF OsmAfter
  <1> HIDE DEF place
  <1>3. DOMAIN adoption = Adopters BY DEF OsmInv, OsmUsers
  <1>4. OsmTurnedTo(a, place) /\ adoption'[a].seen = site.upto BY <1>1, <1>3 DEF OsmTurnedTo, O!NoVisit
  <1> QED BY <1>1, <1>2, <1>4, OsmGoesOn

LEMMA OsmRename == ASSUME OsmInv, NEW a \in Adopters, O!Rename(a) PROVE OsmInv'
  <1>1. adoption[a].at = "renamed" /\ UNCHANGED <<planet, stage, replica, job, site, behind, together>>
    BY DEF O!Rename
  <1>2. CASE O!Clashes(a)
    <2>1. O!Abandon(a) /\ UNCHANGED polygon BY <1>2 DEF O!Rename
    <2> QED BY <1>1, <2>1, OsmAbandon
  <1>3. CASE ~O!Clashes(a)
    <2>1. /\ O!Turns(a, "assign") /\ UNCHANGED late
          /\ polygon' = [polygon EXCEPT ![a].slug = adoption[a].slug]
      BY <1>3 DEF O!Rename
    <2>2. OsmTurnedTo(a, "assign") /\ adoption'[a].seen = adoption[a].seen BY <2>1, OsmTurns
    <2>3. /\ OsmVisit(a) /\ late \subseteq Adopters /\ job \in [O!Jobs -> OsmJobRow(planet)]
      BY DEF OsmInv, OsmUsers, OsmData
    <2>4. a \in O!Created /\ OsmShaped(polygon[a]) BY <1>1, <2>3 DEF OsmVisit, OsmAfter
    <2>5. O!Created' = O!Created BY <2>1 DEF O!Created
    <2>6. OsmShaped(polygon'[a]) /\ polygon'[a].source = polygon[a].source
      BY <2>1, <2>4 DEF OsmShaped, O!Created
    <2>7. \A b \in O!Created \ {a} : polygon'[b] = polygon[b] BY <2>1 DEF O!Created
    <2>8. OsmVisit(a)'
      BY <1>1, <2>1, <2>2, <2>3, <2>4, <2>5, <2>6 DEF OsmVisit, OsmTurnedTo, OsmAfter, OsmBefore, O!Open
    <2>9. OsmOnce' BY <1>1, <2>2, <2>5, OsmOnceStays DEF OsmTurnedTo
    <2> QED BY <1>1, <2>1, <2>2, <2>3, <2>5, <2>7, <2>8, <2>9, OsmServes DEF OsmTurnedTo
  <1> QED BY <1>2, <1>3

(* The areas become those of the site as the request read them; it is not late. *)
LEMMA OsmCommit == ASSUME OsmInv, NEW a \in Adopters, O!Commit(a) PROVE OsmInv'
  <1>1. /\ adoption[a].at = "commit" /\ O!Turns(a, "done")
        /\ polygon' = [polygon EXCEPT ![a].areas = adoption[a].seen]
        /\ job' = [j \in O!Jobs |-> IF job[j].at = "held" THEN O!NoJob ELSE job[j]]
        /\ UNCHANGED <<planet, stage, replica, site, behind, late, together>>
    BY DEF O!Commit
  <1>2. OsmTurnedTo(a, "done") /\ adoption'[a].seen = adoption[a].seen BY <1>1, OsmTurns
  <1>3. /\ OsmVisit(a) /\ late \subseteq Adopters /\ job \in [O!Jobs -> OsmJobRow(planet)]
    BY DEF OsmInv, OsmUsers, OsmData
  <1>4. a \in O!Created /\ OsmShaped(polygon[a]) BY <1>1, <1>3 DEF OsmVisit, OsmAfter
  <1>5. O!Created' = O!Created BY <1>1 DEF O!Created
  <1>6. /\ OsmShaped(polygon'[a]) /\ polygon'[a].source = polygon[a].source
        /\ polygon'[a].areas = adoption[a].seen
    BY <1>1, <1>4 DEF OsmShaped, O!Created
  <1>7. \A b \in O!Created \ {a} : polygon'[b] = polygon[b] BY <1>1 DEF O!Created
  <1>8. OsmVisit(a)'
    BY <1>1, <1>2, <1>3, <1>4, <1>5, <1>6 DEF OsmVisit, OsmTurnedTo, OsmAfter, OsmBefore, O!Open
  <1>9. OsmOnce' BY <1>1, <1>2, <1>5, OsmOnceStays DEF OsmTurnedTo
  <1>10. job' \in [O!Jobs -> OsmJobRow(planet)] /\ \A j \in O!Jobs : job'[j] = job[j] \/ job'[j] = O!NoJob
    <2>1. O!NoJob \in OsmJobRow(planet) BY OsmNumbers
    <2> QED BY <1>1, <1>3, <2>1
  <1> QED BY <1>1, <1>2, <1>3, <1>5, <1>7, <1>8, <1>9, <1>10, OsmServes DEF OsmTurnedTo

LEMMA OsmFailVisit == ASSUME OsmInv, NEW a \in Adopters, O!FailVisit(a) PROVE OsmInv'
  <1>1. /\ adoption[a].at \notin {"idle", "done"} /\ O!Abandon(a)
        /\ UNCHANGED <<planet, stage, replica, job, site, polygon, behind, together>>
    BY DEF O!FailVisit, O!Open
  <1> QED BY <1>1, OsmAbandon

LEMMA OsmResolve == ASSUME OsmInv, NEW j \in O!Jobs, NEW a \in Adopters, O!Deadlock(j, a) PROVE OsmInv'
  <1>1. /\ job[j].at = "polygons" /\ adoption[a].at = "analytics"
        /\ UNCHANGED <<planet, stage, replica, site, polygon, behind, together>>
    BY DEF O!Deadlock
  <1>2. CASE job' = [job EXCEPT ![j] = O!NoJob] /\ UNCHANGED <<adoption, late>>
    BY <1>1, <1>2, OsmNumbers, OsmSimple
  <1>3. CASE O!Abandon(a) /\ UNCHANGED job BY <1>1, <1>3, OsmAbandon
  <1> QED BY <1>2, <1>3 DEF O!Deadlock

-----------------------------------------------------------------------------
LEMMA OsmInit == ASSUME O!Init PROVE OsmInv
  <1>1. /\ planet = 0 /\ stage = [upto |-> 0, torn |-> FALSE, gap |-> FALSE] /\ replica \in {None, 0}
        /\ site = [upto |-> 0, whole |-> TRUE] /\ job = [j \in O!Jobs |-> O!NoJob]
        /\ adoption = [a \in Adopters |-> O!NoVisit] /\ polygon = [a \in {} |-> None]
        /\ behind = FALSE /\ late = {} /\ together = FALSE
    BY DEF O!Init
  <1>2. 0 \in 0 .. MaxPlanet /\ 0 \in 0 .. 0 /\ 0 <= 0 BY OsmBounds
  <1>3. O!NoJob \in OsmJobRow(0) /\ O!NoJob.at = "idle" BY OsmNoJob
  <1>4. O!Created = {} BY <1>1 DEF O!Created
  <1>5. OsmData BY <1>1, <1>2, <1>3 DEF OsmData
  <1>6. OsmUsers BY <1>1, <1>4 DEF OsmUsers, O!NoVisit
  <1>7. \A j \in O!Jobs : job[j].at = "idle" BY <1>1, <1>3
  <1>8. OsmLock BY <1>7 DEF OsmLock
  <1>9. OsmStage BY <1>1, <1>2, <1>7 DEF OsmStage, OsmJob, OsmPublic
  <1>10. \A a \in Adopters : adoption[a].at = "idle" BY <1>1 DEF O!NoVisit
  <1>11. OsmOnce BY <1>4, <1>10 DEF OsmOnce, OsmPast
  <1>12. \A a \in Adopters : OsmVisit(a) BY <1>4, <1>10 DEF OsmVisit, OsmAfter, O!Open
  <1>13. \A j \in O!Jobs : ~O!Publishing(j) BY <1>7 DEF O!Publishing
  <1> QED BY <1>5, <1>6, <1>8, <1>9, <1>11, <1>12, <1>13 DEF OsmInv

LEMMA OsmStill == ASSUME OsmInv, UNCHANGED osmVars PROVE OsmInv'
  <1>1. UNCHANGED <<planet, stage, replica, job, site, adoption, polygon, behind, late, together>> BY DEF osmVars
  <1>2. O!Created' = O!Created BY <1>1 DEF O!Created
  <1>3. OsmData' /\ OsmUsers' /\ OsmLock' /\ OsmStage' /\ OsmOnce'
    BY <1>1, <1>2 DEF OsmInv, OsmData, OsmUsers, OsmLock, OsmStage, OsmJob, OsmOnce, OsmPast
  <1>4. \A a \in Adopters : OsmVisit(a)' BY <1>1, <1>2 DEF OsmInv, OsmVisit, O!Open
  <1>5. \A j \in O!Jobs : O!Publishing(j)' => OsmPublished(j)'
    BY <1>1, <1>2 DEF OsmInv, OsmPublished, O!Publishing
  <1> QED BY <1>3, <1>4, <1>5 DEF OsmInv

LEMMA OsmStep == ASSUME OsmInv, O!Next PROVE OsmInv'
  <1>1. CASE O!Import \/ O!Update BY <1>1, OsmBegins
  <1>2. CASE O!Change BY <1>2, OsmChange
  <1>3. CASE O!Resolve BY <1>3, OsmResolve DEF O!Resolve
  <1>4. ASSUME NEW j \in O!Jobs, O!Script(j) PROVE OsmInv'
    BY <1>4, OsmCreate, OsmFinishCreate, OsmBeginReplication, OsmAppend, OsmFinishAppend, OsmAdvance
    DEF O!Script
  <1>5. ASSUME NEW j \in O!Jobs, O!Process(j) PROVE OsmInv'
    BY <1>5, OsmUpsert, OsmSyncAreas, OsmRefreshSources, OsmBumpJob, OsmPublish DEF O!Process
  <1>6. ASSUME NEW j \in O!Jobs, O!FailJob(j) PROVE OsmInv' BY <1>6, OsmEnds
  <1>7. ASSUME NEW a \in Adopters, O!Visit(a) PROVE OsmInv'
    BY <1>7, OsmCheck, OsmName, OsmInsert, OsmLookup, OsmRename, OsmAssign, OsmReleased, OsmBumpVisit, OsmCommit
    DEF O!Visit
  <1>8. ASSUME NEW a \in Adopters, O!Read(a) \/ O!FailVisit(a) PROVE OsmInv'
    BY <1>8, OsmRead, OsmFailVisit
  <1> QED BY <1>1, <1>2, <1>3, <1>4, <1>5, <1>6, <1>7, <1>8 DEF O!Next

LEMMA OsmHolds == ASSUME OsmInv PROVE O!TypeOK /\ O!SiteIsWhole /\ O!TakenOnce
  <1>1. O!TypeOK
    <2>1. planet \in 0 .. MaxPlanet /\ replica \in 0 .. planet \cup {None} /\ late \subseteq Adopters
      BY DEF OsmInv, OsmData, OsmUsers
    <2>2. stage.upto \in 0 .. planet /\ site.upto \in 0 .. planet BY OsmNumbers
    <2>3. 0 .. planet \subseteq 0 .. MaxPlanet BY <2>1, OsmBounds
    <2> QED BY <2>1, <2>2, <2>3 DEF O!TypeOK
  <1>2. O!SiteIsWhole
    <2>1. site.whole = TRUE BY OsmNumbers
    <2>2. replica # None /\ ~behind => replica <= site.upto BY DEF OsmInv, OsmStage
    <2>3. ASSUME NEW a \in O!Created \ late, ~O!Open(a) PROVE {polygon[a].source, polygon[a].areas} = {site.upto}
      <3>1. a \in Adopters /\ OsmVisit(a) BY DEF OsmInv, OsmUsers
      <3>2. polygon[a].source = site.upto /\ polygon[a].areas = site.upto BY <2>3, <3>1 DEF OsmVisit
      <3> QED BY <3>2
    <2> QED BY <2>1, <2>2, <2>3 DEF O!SiteIsWhole
  <1>3. O!TakenOnce
    <2>1. SUFFICES ASSUME ~together PROVE O!Cardinality(O!Created) <= 1 BY DEF O!TakenOnce
    <2>2. O!Created \subseteq Adopters BY DEF OsmInv, OsmUsers
    <2>3. \A a, b \in O!Created : a = b BY <2>1, <2>2 DEF OsmInv, OsmOnce
    <2> DEFINE S == O!Created
    <2>4. O!Cardinality(S) = Cardinality(S) BY Zenon DEF O!Cardinality, Cardinality
    <2> HIDE DEF S
    <2>5. Cardinality(S) <= 1
      <3>1. CASE S = {}
        <4>1. Cardinality(S) = 0 BY <3>1, FS_EmptySet
        <4> QED BY <4>1
      <3>2. CASE S # {}
        <4>1. PICK a \in S : S = {a} BY <2>3, <3>2 DEF S
        <4>2. Cardinality(S) = 1 BY <4>1, FS_Singleton
        <4> QED BY <4>2
      <3> QED BY <3>1, <3>2
    <2> QED BY <2>4, <2>5 DEF S
  <1> QED BY <1>1, <1>2, <1>3

-----------------------------------------------------------------------------
(* AreaMatching.  Whoever has written the area's row and not committed has   *)
(* written it from the row there is, which nobody else changes meanwhile.    *)
AreaRow == [tags : Items, match : Items \cup {None}, source : {None, "OSM", "MANUAL"},
            status : {None, "CONFLICT", "NOT_FOUND", "AUTO_MATCHED", "VERIFIED"}, checked : BOOLEAN]
AreaRun == [at : {"idle", "upsert", "written", "select", "resolve", "persist", "commit"},
            seen : Items \cup {None}, passed : BOOLEAN, found : Items \cup {None}]

AreaTypes ==
  /\ tags \in Items /\ area \in AreaRow /\ holder \in A!Runs \cup {None}
  /\ run \in [A!Runs -> AreaRun] /\ overtook \in BOOLEAN /\ crossed \in BOOLEAN
  /\ holder = None => draft = None
  /\ \A r \in A!Runs : run[r].at \in {"upsert", "written"} => run[r].seen \in Items

AreaDraft ==
  /\ holder # None => draft \in AreaRow /\ run[holder].at \in {"written", "commit"}
  /\ \A r \in A!Runs :
       /\ run[r].at = "written" => holder = r /\ draft = A!Upserted(area, run[r].seen)
       /\ run[r].at = "commit" /\ holder = r =>
            /\ area.source # "MANUAL" /\ draft.tags = area.tags /\ draft.source = "OSM"
            /\ ~run[r].passed => draft.match \in {None, area.tags}

(* What a run that no other has passed has read is still so. *)
AreaSeen ==
  /\ run["cli"].at \in {"upsert", "written"} /\ ~run["cli"].passed => run["cli"].seen = tags
  /\ \A r \in A!Runs : ~run[r].passed =>
       /\ run[r].at = "resolve" => run[r].seen = area.tags
       /\ run[r].at = "persist" => run[r].found \in {None, area.tags}

AreaInv == AreaTypes /\ AreaDraft /\ AreaSeen /\ A!ConfirmedStays /\ A!MatchIsOfTags

LEMMA AreaInit == ASSUME A!Init PROVE AreaInv
  <1>1. AreaTypes
    <2>1. tags \in Items /\ area \in AreaRow BY DEF A!Init, AreaRow
    <2>2. run \in [A!Runs -> AreaRun] BY DEF A!Init, A!NoRun, AreaRun
    <2>3. \A r \in A!Runs : run[r].at = "idle" BY DEF A!Init, A!NoRun
    <2> QED BY <2>1, <2>2, <2>3 DEF A!Init, AreaTypes
  <1>2. AreaDraft /\ AreaSeen
    BY NullAssumption DEF A!Init, A!NoRun, A!Runs, AreaDraft, AreaSeen
  <1>3. A!ConfirmedStays /\ A!MatchIsOfTags
    BY DEF A!Init, A!ConfirmedStays, A!MatchIsOfTags
  <1> QED BY <1>1, <1>2, <1>3 DEF AreaInv

LEMMA AreaBegin ==
  ASSUME AreaInv, NEW r \in A!Runs, A!Begin(r)
  PROVE  AreaInv'
  <1> USE DEF AreaInv
  <1>1. /\ run' \in [A!Runs -> AreaRun] /\ \A q \in A!Runs \ {r} : run'[q] = run[q]
        /\ run'[r].at \in {"upsert", "select"} /\ ~run'[r].passed
        /\ run'[r].at = "upsert" => run'[r].seen \in Items /\ (r = "cli" => run'[r].seen = tags)
        /\ UNCHANGED <<tags, area, holder, draft, confirmed, crossed, overtook>> /\ run[r].at = "idle"
    <2>1. /\ run \in [A!Runs -> AreaRun] /\ tags \in Items BY DEF AreaTypes
    <2>2. ASSUME NEW t \in IF r = "post" THEN Items ELSE {tags},
                 run' = [run EXCEPT ![r] = [A!NoRun EXCEPT !.at = "upsert", !.seen = t]]
          PROVE  /\ run' \in [A!Runs -> AreaRun] /\ \A q \in A!Runs \ {r} : run'[q] = run[q]
                 /\ run'[r].at = "upsert" /\ ~run'[r].passed /\ run'[r].seen \in Items
                 /\ r = "cli" => run'[r].seen = tags
      BY <2>1, <2>2 DEF A!NoRun, AreaRun
    <2>3. ASSUME run' = [run EXCEPT ![r] = [A!NoRun EXCEPT !.at = "select"]]
          PROVE  /\ run' \in [A!Runs -> AreaRun] /\ \A q \in A!Runs \ {r} : run'[q] = run[q]
                 /\ run'[r].at = "select" /\ ~run'[r].passed
      BY <2>1, <2>3 DEF A!NoRun, AreaRun
    <2> QED BY <2>2, <2>3 DEF A!Begin
  <1>2. holder # r BY <1>1, NullAssumption DEF AreaDraft, A!Runs
  <1>3. AreaTypes' BY <1>1 DEF AreaTypes
  <1>4. AreaDraft' BY <1>1, <1>2 DEF AreaDraft, AreaTypes
  <1>5. AreaSeen' BY <1>1 DEF AreaSeen, A!Runs
  <1> QED BY <1>1, <1>3, <1>4, <1>5 DEF A!ConfirmedStays, A!MatchIsOfTags

(* A run that moves on: nothing but its own place changes. *)
LEMMA AreaMoves ==
  ASSUME AreaInv, NEW r \in A!Runs, NEW place \in {"select", "resolve", "commit"}, A!Goes(r, place),
         UNCHANGED <<tags, area, holder, draft, confirmed, crossed, overtook>>, holder # r,
         place # "resolve"
  PROVE  AreaInv'
  <1> USE DEF AreaInv
  <1>1. /\ run' \in [A!Runs -> AreaRun] /\ \A q \in A!Runs \ {r} : run'[q] = run[q]
        /\ run'[r].at = place
    BY DEF AreaTypes, A!Goes, AreaRun
  <1>3. AreaTypes' BY <1>1 DEF AreaTypes
  <1>4. AreaDraft' BY <1>1 DEF AreaDraft, AreaTypes
  <1>5. AreaSeen' BY <1>1 DEF AreaSeen, A!Runs
  <1> QED BY <1>1, <1>3, <1>4, <1>5 DEF A!ConfirmedStays, A!MatchIsOfTags

LEMMA AreaUpsert ==
  ASSUME AreaInv, NEW r \in A!Runs, A!Upsert(r)
  PROVE  AreaInv'
  <1> USE DEF AreaInv
  <1>1. /\ run' \in [A!Runs -> AreaRun] /\ \A q \in A!Runs \ {r} : run'[q] = run[q]
        /\ run'[r].at = "written" /\ run'[r].seen = run[r].seen /\ run'[r].passed = run[r].passed
        /\ run[r].at = "upsert" /\ run[r].seen \in Items
    BY DEF AreaTypes, A!Upsert, A!Goes, AreaRun
  <1>2. /\ holder = None /\ holder' = r /\ draft' = A!Upserted(area, run[r].seen) /\ r # None
        /\ UNCHANGED <<tags, area, confirmed, crossed, overtook>>
    BY NullAssumption DEF A!Upsert, A!Runs
  <1>3. draft' \in AreaRow
    <2>1. area \in AreaRow /\ run[r].seen \in Items BY <1>1 DEF AreaTypes
    <2> QED BY <1>2, <2>1 DEF A!Upserted, A!StillChecked, AreaRow
  <1>4. AreaTypes' BY <1>1, <1>2 DEF AreaTypes
  <1>5. AreaDraft'
    <2>1. \A q \in A!Runs \ {r} : run[q].at # "written" BY <1>2, NullAssumption DEF AreaDraft, A!Runs
    <2>2. A!Upserted(area, run[r].seen)' = draft' BY <1>1, <1>2 DEF A!Upserted, A!StillChecked
    <2> QED BY <1>1, <1>2, <1>3, <2>1, <2>2 DEF AreaDraft
  <1>6. AreaSeen' BY <1>1, <1>2 DEF AreaSeen, A!Runs
  <1> QED BY <1>1, <1>2, <1>4, <1>5, <1>6 DEF A!ConfirmedStays, A!MatchIsOfTags

(* What an upsert leaves alone, and when the match still counts as checked *)
LEMMA AreaUpserted ==
  ASSUME area \in AreaRow, NEW t \in Items
  PROVE  LET new == A!Upserted(area, t)
         IN  /\ new \in AreaRow /\ new.tags = t /\ new.source = area.source /\ new.match = area.match
             /\ new.checked => area.checked /\ (area.source = "MANUAL" \/ t = area.tags)
  BY DEF A!Upserted, A!StillChecked, AreaRow

LEMMA AreaCommitAreas ==
  ASSUME AreaInv, NEW r \in A!Runs, A!CommitAreas(r)
  PROVE  AreaInv'
  <1> USE DEF AreaInv
  <1> DEFINE t == run[r].seen
  <1>1. /\ run' \in [A!Runs -> AreaRun] /\ run'[r].at = "select" /\ run'[r].seen = t /\ run'[r].passed = run[r].passed
        /\ \A q \in A!Runs \ {r} : /\ run'[q].at = run[q].at /\ run'[q].seen = run[q].seen
                                   /\ run'[q].found = run[q].found /\ run'[q].passed
    BY DEF AreaTypes, A!CommitAreas, AreaRun
  <1>2. /\ run[r].at = "written" /\ holder = r /\ t \in Items /\ area \in AreaRow /\ r # None
        /\ draft = A!Upserted(area, t) /\ area' = draft /\ holder' = None /\ draft' = None
        /\ tags' = (IF r = "post" THEN t ELSE tags) /\ overtook' = (r = "cli" /\ run[r].passed)
        /\ UNCHANGED <<confirmed, crossed>>
    BY NullAssumption DEF A!CommitAreas, A!Committed, AreaTypes, AreaDraft, A!Runs
  <1>3. /\ area' \in AreaRow /\ area'.tags = t /\ area'.source = area.source /\ area'.match = area.match
        /\ area'.checked => area.checked /\ (area.source = "MANUAL" \/ t = area.tags)
    BY <1>2, AreaUpserted
  <1> HIDE DEF t
  <1>4. tags' \in Items BY <1>2 DEF AreaTypes
  <1>5. AreaTypes' BY <1>1, <1>2, <1>3, <1>4 DEF AreaTypes
  <1>6. AreaDraft' BY <1>1, <1>2, NullAssumption DEF AreaDraft, A!Runs
  <1>7. AreaSeen' BY <1>1, <1>2 DEF AreaSeen, A!Runs
  <1>8. A!ConfirmedStays' BY <1>2, <1>3 DEF A!ConfirmedStays
  <1>9. A!MatchIsOfTags'
    <2>1. overtook' \/ area'.tags = tags'
      BY <1>2, <1>3 DEF AreaSeen, t, A!Runs
    <2> QED BY <2>1, <1>2, <1>3 DEF A!MatchIsOfTags
  <1> QED BY <1>5, <1>6, <1>7, <1>8, <1>9

LEMMA AreaSelect ==
  ASSUME AreaInv, NEW r \in A!Runs, A!Select(r)
  PROVE  AreaInv'
  <1> USE DEF AreaInv
  <1>1. run[r].at = "select" /\ UNCHANGED <<tags, area, holder, draft, confirmed, crossed, overtook>>
    BY DEF A!Select
  <1>2. holder # r BY <1>1, NullAssumption DEF AreaDraft, A!Runs
  <1>3. CASE A!Goes(r, "commit") BY <1>1, <1>2, <1>3, AreaMoves
  <1>4. CASE run' = [run EXCEPT ![r] = [A!NoRun EXCEPT !.at = "resolve", !.seen = area.tags]]
    <2>1. area.tags \in Items BY DEF AreaTypes, AreaRow
    <2>2. /\ run' \in [A!Runs -> AreaRun] /\ \A q \in A!Runs \ {r} : run'[q] = run[q]
          /\ run'[r].at = "resolve" /\ run'[r].seen = area.tags
      BY <1>4, <2>1 DEF AreaTypes, AreaRun, A!NoRun
    <2>3. AreaTypes' BY <2>2, <1>1 DEF AreaTypes
    <2>4. AreaDraft' BY <2>2, <1>1, <1>2 DEF AreaDraft, AreaTypes
    <2>5. AreaSeen' BY <2>2, <1>1 DEF AreaSeen, A!Runs
    <2> QED BY <1>1, <2>3, <2>4, <2>5 DEF A!ConfirmedStays, A!MatchIsOfTags
  <1> QED BY <1>3, <1>4 DEF A!Select

LEMMA AreaResolve ==
  ASSUME AreaInv, NEW r \in A!Runs, A!ResolveArea(r)
  PROVE  AreaInv'
  <1> USE DEF AreaInv
  <1>1. run[r].at = "resolve" /\ UNCHANGED <<tags, area, holder, draft, confirmed, crossed, overtook>>
    BY DEF A!ResolveArea
  <1>2. holder # r BY <1>1, NullAssumption DEF AreaDraft, A!Runs
  <1>3. CASE A!Goes(r, "commit") BY <1>1, <1>2, <1>3, AreaMoves
  <1>4. ASSUME NEW item \in {run[r].seen, None}, run' = [run EXCEPT ![r].at = "persist", ![r].found = item]
        PROVE  AreaInv'
    <2>1. item \in Items \cup {None} BY DEF AreaTypes, AreaRun
    <2>2. /\ run' \in [A!Runs -> AreaRun] /\ \A q \in A!Runs \ {r} : run'[q] = run[q]
          /\ run'[r].at = "persist" /\ run'[r].found = item /\ run'[r].passed = run[r].passed
      BY <1>4, <2>1 DEF AreaTypes, AreaRun
    <2>3. AreaTypes' BY <2>2, <1>1 DEF AreaTypes
    <2>4. AreaDraft' BY <2>2, <1>1, <1>2 DEF AreaDraft, AreaTypes
    <2>5. AreaSeen' BY <2>2, <1>1 DEF AreaSeen, A!Runs
    <2> QED BY <1>1, <2>3, <2>4, <2>5 DEF A!ConfirmedStays, A!MatchIsOfTags
  <1> QED BY <1>3, <1>4 DEF A!ResolveArea

LEMMA AreaPersist ==
  ASSUME AreaInv, NEW r \in A!Runs, A!PersistMatch(r)
  PROVE  AreaInv'
  <1> USE DEF AreaInv
  <1>1. /\ run[r].at = "persist" /\ holder = None /\ r # None /\ A!Goes(r, "commit")
        /\ UNCHANGED <<tags, area, confirmed, crossed, overtook>>
    BY NullAssumption DEF A!PersistMatch, A!Runs
  <1>2. CASE UNCHANGED <<holder, draft>> BY <1>1, <1>2, AreaMoves
  <1>3. CASE A!StillAutomatic
    <2> DEFINE item == run[r].found
    <2>1. /\ run' \in [A!Runs -> AreaRun] /\ \A q \in A!Runs \ {r} : run'[q] = run[q]
          /\ run'[r].at = "commit" /\ run'[r].passed = run[r].passed /\ item \in Items \cup {None}
      BY <1>1 DEF AreaTypes, AreaRun, A!Goes
    <2>2. /\ area.source # "MANUAL" /\ holder' = r /\ area \in AreaRow
          /\ draft' = [area EXCEPT !.match = item, !.source = "OSM", !.checked = TRUE,
                                   !.status = IF item = None THEN "NOT_FOUND" ELSE "AUTO_MATCHED"]
      BY <1>3 DEF A!PersistMatch, A!StillAutomatic, AreaTypes
    <2>3. draft' \in AreaRow /\ draft'.tags = area.tags /\ draft'.source = "OSM" /\ draft'.match = item
      BY <2>1, <2>2 DEF AreaRow
    <2>4. AreaTypes' BY <2>1, <2>2, <1>1 DEF AreaTypes
    <2>5. AreaDraft'
      <3>1. \A q \in A!Runs \ {r} : run[q].at # "written" BY <1>1, NullAssumption DEF AreaDraft, A!Runs
      <3>2. ~run[r].passed => item \in {None, area.tags} BY <1>1 DEF AreaSeen
      <3> HIDE DEF item
      <3> QED BY <2>1, <2>2, <2>3, <3>1, <3>2, <1>1 DEF AreaDraft, AreaTypes
    <2>6. AreaSeen' BY <2>1, <1>1 DEF AreaSeen, A!Runs
    <2> QED BY <1>1, <2>4, <2>5, <2>6 DEF A!ConfirmedStays, A!MatchIsOfTags
  <1> QED BY <1>2, <1>3 DEF A!PersistMatch

(* A run that ends, and what it has written is gone or was committed *)
LEMMA AreaCommitMatches ==
  ASSUME AreaInv, NEW r \in A!Runs, A!CommitMatches(r)
  PROVE  AreaInv'
  <1> USE DEF AreaInv
  <1>1. /\ run[r].at = "commit" /\ run' = [run EXCEPT ![r] = A!NoRun] /\ r # None
        /\ UNCHANGED <<tags, confirmed, overtook>>
    BY NullAssumption DEF A!CommitMatches, A!Runs
  <1>2. /\ run' \in [A!Runs -> AreaRun] /\ \A q \in A!Runs \ {r} : run'[q] = run[q]
        /\ run'[r].at = "idle"
    BY <1>1 DEF AreaTypes, AreaRun, A!NoRun
  <1>3. CASE holder # r
    <2>1. UNCHANGED <<area, holder, draft, crossed>> BY <1>3 DEF A!CommitMatches
    <2>2. AreaTypes' BY <1>1, <1>2, <2>1 DEF AreaTypes
    <2>3. AreaDraft' BY <1>1, <1>2, <2>1, <1>3 DEF AreaDraft, AreaTypes
    <2>4. AreaSeen' BY <1>1, <1>2, <2>1 DEF AreaSeen, A!Runs
    <2> QED BY <1>1, <2>1, <2>2, <2>3, <2>4 DEF A!ConfirmedStays, A!MatchIsOfTags
  <1>4. CASE holder = r
    <2>1. /\ area' = draft /\ holder' = None /\ draft' = None /\ crossed' = run[r].passed
          /\ draft \in AreaRow /\ area.source # "MANUAL" /\ draft.tags = area.tags /\ draft.source = "OSM"
          /\ ~run[r].passed => draft.match \in {None, area.tags}
          /\ run[r] \in AreaRun
      BY <1>1, <1>4 DEF A!CommitMatches, A!Committed, AreaDraft, AreaTypes
    <2>2. AreaTypes' BY <1>1, <1>2, <2>1 DEF AreaTypes, AreaRun
    <2>3. AreaDraft' BY <1>1, <1>2, <2>1, <1>4, NullAssumption DEF AreaDraft, A!Runs
    <2>4. AreaSeen' BY <1>1, <1>2, <2>1 DEF AreaSeen, A!Runs
    <2>5. A!ConfirmedStays' BY <1>1, <2>1 DEF A!ConfirmedStays
    <2>6. A!MatchIsOfTags' BY <1>1, <2>1 DEF A!MatchIsOfTags
    <2> QED BY <2>2, <2>3, <2>4, <2>5, <2>6
  <1> QED BY <1>3, <1>4

LEMMA AreaFail ==
  ASSUME AreaInv, NEW r \in A!Runs, A!Fail(r)
  PROVE  AreaInv'
  <1> USE DEF AreaInv
  <1>1. run' = [run EXCEPT ![r] = A!NoRun] /\ r # None /\ UNCHANGED <<tags, area, confirmed, crossed, overtook>>
    BY NullAssumption DEF A!Fail, A!Runs
  <1>2. /\ run' \in [A!Runs -> AreaRun] /\ \A q \in A!Runs \ {r} : run'[q] = run[q]
        /\ run'[r].at = "idle"
    BY <1>1 DEF AreaTypes, AreaRun, A!NoRun
  <1>3. IF holder = r THEN holder' = None /\ draft' = None ELSE UNCHANGED <<holder, draft>> BY DEF A!Fail
  <1>4. AreaTypes' BY <1>1, <1>2, <1>3 DEF AreaTypes
  <1>5. AreaDraft'
    <2>1. CASE holder # r BY <2>1, <1>1, <1>2, <1>3 DEF AreaDraft, AreaTypes
    <2>2. CASE holder = r BY <2>2, <1>1, <1>2, <1>3, NullAssumption DEF AreaDraft, A!Runs
    <2> QED BY <2>1, <2>2
  <1>6. AreaSeen' BY <1>1, <1>2 DEF AreaSeen, A!Runs
  <1> QED BY <1>1, <1>4, <1>5, <1>6 DEF A!ConfirmedStays, A!MatchIsOfTags

LEMMA AreaOutside ==
  ASSUME AreaInv, A!Stale \/ \E item \in Items : A!SetManualMatch(item)
  PROVE  AreaInv'
  <1> USE DEF AreaInv
  <1>1. UNCHANGED <<tags, holder, draft, run, crossed, overtook>> /\ holder = None
    BY DEF A!Stale, A!SetManualMatch
  <1>2. CASE A!Stale
    <2>1. area' \in AreaRow /\ ~area'.checked /\ area'.tags = area.tags /\ area'.source = area.source
          /\ area'.match = area.match /\ confirmed' = confirmed
      BY <1>2 DEF A!Stale, AreaTypes, AreaRow
    <2>2. AreaTypes' BY <1>1, <2>1 DEF AreaTypes
    <2>3. AreaDraft' BY <1>1, NullAssumption DEF AreaDraft, A!Runs
    <2>4. AreaSeen' BY <1>1, <2>1 DEF AreaSeen
    <2> QED BY <1>1, <2>1, <2>2, <2>3, <2>4 DEF A!ConfirmedStays, A!MatchIsOfTags
  <1>3. ASSUME NEW item \in Items, A!SetManualMatch(item) PROVE AreaInv'
    <2>1. area' \in AreaRow /\ area'.tags = area.tags /\ area'.source = "MANUAL"
          /\ area'.match = item /\ confirmed' = item
      BY <1>3 DEF A!SetManualMatch, AreaTypes, AreaRow
    <2>2. AreaTypes' BY <1>1, <2>1 DEF AreaTypes
    <2>3. AreaDraft' BY <1>1, NullAssumption DEF AreaDraft, A!Runs
    <2>4. AreaSeen' BY <1>1, <2>1 DEF AreaSeen
    <2> QED BY <1>1, <2>1, <2>2, <2>3, <2>4 DEF A!ConfirmedStays, A!MatchIsOfTags
  <1> QED BY <1>2, <1>3

LEMMA AreaStep == ASSUME AreaInv, A!Next \/ UNCHANGED areaVars PROVE AreaInv'
  <1>1. CASE A!Next
    BY <1>1, AreaBegin, AreaUpsert, AreaCommitAreas, AreaSelect, AreaResolve, AreaPersist, AreaCommitMatches,
       AreaFail, AreaOutside DEF A!Next, A!Step
  <1>2. CASE UNCHANGED areaVars
    BY <1>2 DEF areaVars, AreaInv, AreaTypes, AreaDraft, AreaSeen, A!ConfirmedStays, A!MatchIsOfTags,
                A!Upserted, A!StillChecked, A!Runs
  <1> QED BY <1>1, <1>2

LEMMA AreaTypeOK == ASSUME AreaInv PROVE A!TypeOK
  BY NullAssumption DEF AreaInv, AreaTypes, AreaDraft, AreaRow, A!TypeOK, A!Runs

-----------------------------------------------------------------------------
(* StatisticsImport.  Who works alone has downloaded what the city publishes, *)
(* and will have written what differs from the rows there are.                *)
Steps      == {"idle", "mappings", "held", "download", "catalog", "read", "upsert"}
ImportRow  == [at : Steps, got : [Figures -> Values \cup {Absent, None}], todo : SUBSET Figures,
               mine : SUBSET (Figures \cup {"mappings", "datasets"}), alone : BOOLEAN]
Downloaded == {"catalog", "read", "upsert"}

FigureTypes ==
  /\ source \in I!Published /\ table \in I!Published
  /\ import \in [I!Importers -> ImportRow]

FigureAlone ==
  \A i \in I!Importers :
    /\ import[i].at \in {"idle", "mappings", "held"} => \A g \in Figures : import[i].got[g] = None
    /\ import[i].at \in Downloaded => \A g \in Figures : import[i].got[g] # None
    /\ import[i].alone =>
         /\ \A j \in I!Others(i) : import[j].at = "idle"
         /\ \A g \in Figures : import[i].got[g] \in {None, source[g]}
         /\ import[i].at = "upsert" =>
              \A g \in Figures : \/ g \in import[i].todo \cup import[i].mine
                                 \/ import[i].got[g] = Absent \/ import[i].got[g] = table[g]

LEMMA StepsAre ==
  "idle" \in Steps /\ "mappings" \in Steps /\ "held" \in Steps /\ "download" \in Steps
  /\ "catalog" \in Steps /\ "read" \in Steps /\ "upsert" \in Steps
  BY DEF Steps

FigureInv == FigureTypes /\ FigureAlone /\ I!FiguresArePublished

LEMMA FigureInit == ASSUME I!Init PROVE FigureInv
  <1>1. import \in [I!Importers -> ImportRow]
    BY StepsAre DEF I!Init, I!NoImport, ImportRow
  <1>2. source \in I!Published /\ table \in I!Published BY DEF I!Init, I!Published
  <1>3. \A i \in I!Importers : ~import[i].alone /\ import[i].at = "idle" /\ import[i].got = [g \in Figures |-> None]
    BY DEF I!Init, I!NoImport
  <1> QED BY <1>1, <1>2, <1>3 DEF I!Init, FigureInv, FigureTypes, FigureAlone, I!FiguresArePublished, Downloaded

(* An importer's own step: the rows, and what is published, stay as they are. *)
LEMMA FigureOwn ==
  ASSUME FigureInv, NEW i \in I!Importers, import' \in [I!Importers -> ImportRow],
         \A j \in I!Importers \ {i} : import'[j] = import[j] \/ (import'[j] = [import[j] EXCEPT !.alone = FALSE]),
         UNCHANGED <<source, table, sure>>,
         import'[i].at \in {"idle", "mappings", "held"} => \A g \in Figures : import'[i].got[g] = None,
         import'[i].at \in Downloaded => \A g \in Figures : import'[i].got[g] # None,
         import'[i].alone =>
           /\ \A j \in I!Others(i) : import[j].at = "idle"
           /\ \A g \in Figures : import'[i].got[g] \in {None, source[g]}
           /\ import'[i].at = "upsert" =>
              \A g \in Figures : \/ g \in import'[i].todo \cup import'[i].mine
                                 \/ import'[i].got[g] = Absent \/ import'[i].got[g] = table[g],
         import[i].at = "idle" /\ import'[i].at # "idle" => \A j \in I!Importers \ {i} : ~import'[j].alone
  PROVE  FigureInv'
  <1> USE DEF FigureInv
  <1>1. FigureTypes' BY DEF FigureTypes
  <1>2. \A j \in I!Importers \ {i} :
          /\ import'[j].at = import[j].at /\ import'[j].got = import[j].got /\ import'[j].todo = import[j].todo
          /\ import'[j].mine = import[j].mine
          /\ import'[j].alone => import[j].alone
    BY DEF FigureTypes, ImportRow
  <1>3. ASSUME NEW j \in I!Importers \ {i}, import'[j].alone
        PROVE  /\ \A k \in I!Others(j) : import'[k].at = "idle"
               /\ \A g \in Figures : import'[j].got[g] \in {None, source[g]}
               /\ import'[j].at = "upsert" =>
                    \A g \in Figures : \/ g \in import'[j].todo \cup import'[j].mine
                                       \/ import'[j].got[g] = Absent \/ import'[j].got[g] = table[g]
    <2>1. import[j].alone BY <1>2, <1>3
    <2>2. \A k \in I!Others(j) : import[k].at = "idle" BY <2>1 DEF FigureAlone
    <2>3. \A k \in I!Others(j) : import'[k].at = "idle" BY <2>2, <1>2, <1>3 DEF I!Others
    <2>4. /\ \A g \in Figures : import[j].got[g] \in {None, source[g]}
          /\ import[j].at = "upsert" =>
               \A g \in Figures : \/ g \in import[j].todo \cup import[j].mine
                                  \/ import[j].got[g] = Absent \/ import[j].got[g] = table[g]
      BY <2>1 DEF FigureAlone
    <2> QED BY <2>3, <2>4, <1>2
  <1>4. \A j \in I!Others(i) : import'[j].at = import[j].at BY <1>2 DEF I!Others
  <1>5. FigureAlone'
    <2> SUFFICES ASSUME NEW j \in I!Importers
        PROVE /\ import'[j].at \in {"idle", "mappings", "held"} => \A g \in Figures : import'[j].got[g] = None
              /\ import'[j].at \in Downloaded => \A g \in Figures : import'[j].got[g] # None
              /\ import'[j].alone =>
                   /\ \A k \in I!Others(j) : import'[k].at = "idle"
                   /\ \A g \in Figures : import'[j].got[g] \in {None, source[g]}
                   /\ import'[j].at = "upsert" =>
                        \A g \in Figures : \/ g \in import'[j].todo \cup import'[j].mine
                                           \/ import'[j].got[g] = Absent \/ import'[j].got[g] = table[g]
      BY DEF FigureAlone, I!Others, Downloaded
    <2>1. CASE j = i BY <2>1, <1>4
    <2>2. CASE j # i BY <2>2, <1>2, <1>3 DEF FigureAlone
    <2> QED BY <2>1, <2>2
  <1> QED BY <1>1, <1>5 DEF I!FiguresArePublished

LEMMA FigureBegin ==
  ASSUME FigureInv, NEW i \in I!Importers, I!Begin(i) PROVE FigureInv'
  <1> USE DEF FigureInv
  <1>1. /\ import \in [I!Importers -> ImportRow] /\ import[i].at = "idle"
        /\ \A g \in Figures : import[i].got[g] = None
    BY DEF FigureTypes, FigureAlone, I!Begin
  <1>2. /\ import' \in [I!Importers -> ImportRow]
        /\ \A j \in I!Importers \ {i} : import'[j] = [import[j] EXCEPT !.alone = FALSE]
        /\ import'[i].at = "mappings" /\ import'[i].got = import[i].got
        /\ import'[i].alone => \A j \in I!Others(i) : import[j].at = "idle"
    <2> DEFINE D == [k \in I!Importers |-> [import[k] EXCEPT !.alone = FALSE]]
                b == \A j \in I!Others(i) : import[j].at = "idle"
    <2>1. D \in [I!Importers -> ImportRow]
      <3>1. \A r \in ImportRow : [r EXCEPT !.alone = FALSE] \in ImportRow BY DEF ImportRow
      <3> QED BY <1>1, <3>1
    <2>2. \A j \in I!Importers : D[j] = [import[j] EXCEPT !.alone = FALSE] /\ D[j].got = import[j].got
      BY <1>1, StepsAre DEF ImportRow
    <2>3. import' = [D EXCEPT ![i].at = "mappings", ![i].alone = b] BY DEF I!Begin, I!Disturbed
    <2>4. b \in BOOLEAN OBVIOUS
    <2>5. import'[i].alone => b
      <3> HIDE DEF D, b
      <3> QED BY <2>1, <2>3, <2>4, StepsAre DEF ImportRow
    <2> HIDE DEF D, b
    <2>6. /\ import' \in [I!Importers -> ImportRow] /\ import'[i].at = "mappings" /\ import'[i].got = D[i].got
          /\ \A j \in I!Importers \ {i} : import'[j] = D[j]
      BY <2>1, <2>3, <2>4, StepsAre DEF ImportRow
    <2> QED BY <2>2, <2>5, <2>6 DEF b
  <1>3. \A j \in I!Importers \ {i} : ~import'[j].alone BY <1>1, <1>2 DEF ImportRow
  <1>4. UNCHANGED <<source, table, sure>> BY DEF I!Begin
  <1> QED BY <1>1, <1>2, <1>3, <1>4, FigureOwn DEF Downloaded

LEMMA FigureEnds ==
  ASSUME FigureInv, NEW i \in I!Importers, I!Ends(i), UNCHANGED <<source, table, sure>>
  PROVE  FigureInv'
  <1>1. /\ import' \in [I!Importers -> ImportRow] /\ \A j \in I!Importers \ {i} : import'[j] = import[j]
        /\ import'[i].at = "idle" /\ ~import'[i].alone /\ \A g \in Figures : import'[i].got[g] = None
    BY StepsAre DEF FigureInv, FigureTypes, I!Ends, I!NoImport, ImportRow
  <1> QED BY <1>1, FigureOwn DEF Downloaded

(* A step between begin and read that keeps what was downloaded *)
LEMMA FigureGoes ==
  ASSUME FigureInv, NEW i \in I!Importers, UNCHANGED <<source, table, sure>>,
         NEW place \in Steps \ {"upsert"}, NEW new \in SUBSET {"mappings", "datasets"},
         import' = [import EXCEPT ![i].at = place, ![i].mine = @ \cup new],
         import[i].at # "idle",
         \/ place \in {"held", "download"} /\ import[i].at \in {"mappings", "held"}
         \/ place = "read" /\ import[i].at = "catalog"
  PROVE  FigureInv'
  <1> USE DEF FigureInv
  <1>1. /\ import' \in [I!Importers -> ImportRow] /\ \A j \in I!Importers \ {i} : import'[j] = import[j]
        /\ import'[i].at = place /\ import'[i].got = import[i].got /\ import'[i].alone = import[i].alone
    <2> DEFINE to == [import[i] EXCEPT !.at = place, !.mine = @ \cup new]
    <2>1. import \in [I!Importers -> ImportRow] /\ import[i] \in ImportRow BY DEF FigureTypes
    <2>2. to \in ImportRow BY <2>1 DEF ImportRow
    <2>3. to.at = place /\ to.got = import[i].got /\ to.alone = import[i].alone BY <2>1 DEF ImportRow
    <2>4. import' = [import EXCEPT ![i] = to] BY <2>1
    <2> HIDE DEF to
    <2> QED BY <2>1, <2>2, <2>3, <2>4
  <1>2. /\ place = "held" => \A g \in Figures : import[i].got[g] = None
        /\ place \in Downloaded => \A g \in Figures : import[i].got[g] # None
        /\ import[i].alone => /\ \A j \in I!Others(i) : import[j].at = "idle"
                              /\ \A g \in Figures : import[i].got[g] \in {None, source[g]}
    BY DEF FigureAlone, Downloaded
  <1> QED BY <1>1, <1>2, FigureOwn DEF Downloaded

LEMMA FigureMappings ==
  ASSUME FigureInv, NEW i \in I!Importers, I!EnsureMappings(i) \/ I!EnsureCatalog(i)
  PROVE  FigureInv'
  <1>1. import \in [I!Importers -> ImportRow] /\ UNCHANGED <<source, table, sure>>
    BY DEF FigureInv, FigureTypes, I!EnsureMappings, I!EnsureCatalog
  <1>2. ASSUME NEW place \in Steps, I!Goes(i, place)
        PROVE  import' = [import EXCEPT ![i].at = place, ![i].mine = @ \cup {}]
    <2>1. import[i].mine \cup {} = import[i].mine OBVIOUS
    <2>2. [[import[i] EXCEPT !.at = place] EXCEPT !.mine = import[i].mine] = [import[i] EXCEPT !.at = place]
      BY <1>1, StepsAre DEF ImportRow
    <2> QED BY <1>1, <1>2, <2>1, <2>2 DEF I!Goes, ImportRow
  <1>3. CASE I!EnsureMappings(i)
    <2>1. import[i].at \in {"mappings", "held"} BY <1>3 DEF I!EnsureMappings
    <2>2. CASE I!Goes(i, "download") \/ I!Goes(i, "held")
      <3>1. {} \in SUBSET {"mappings", "datasets"} OBVIOUS
      <3>2. CASE I!Goes(i, "download") BY <2>1, <3>1, <3>2, <1>1, <1>2, FigureGoes, StepsAre
      <3>3. CASE I!Goes(i, "held") BY <2>1, <3>1, <3>3, <1>1, <1>2, FigureGoes, StepsAre
      <3> QED BY <2>2, <3>2, <3>3
    <2>3. CASE I!Ends(i) BY <2>3, <1>1, FigureEnds
    <2>4. CASE import' = [import EXCEPT ![i].at = "download", ![i].mine = {"mappings"}]
      <3>1. /\ import' \in [I!Importers -> ImportRow] /\ \A j \in I!Importers \ {i} : import'[j] = import[j]
            /\ import'[i].at = "download" /\ import'[i].got = import[i].got /\ import'[i].alone = import[i].alone
        BY <2>4, <1>1, StepsAre DEF ImportRow
      <3>2. import[i].alone => /\ \A j \in I!Others(i) : import[j].at = "idle"
                               /\ \A g \in Figures : import[i].got[g] \in {None, source[g]}
        BY DEF FigureInv, FigureAlone
      <3> QED BY <3>1, <3>2, <1>1, <2>1, FigureOwn DEF Downloaded
    <2> QED BY <1>3, <2>2, <2>3, <2>4 DEF I!EnsureMappings
  <1>4. CASE I!EnsureCatalog(i)
    <2>1. import[i].at = "catalog" BY <1>4 DEF I!EnsureCatalog
    <2>2. CASE I!Goes(i, "read")
      <3>1. {} \in SUBSET {"mappings", "datasets"} OBVIOUS
      <3> QED BY <2>1, <2>2, <3>1, <1>1, <1>2, FigureGoes, StepsAre
    <2>3. CASE import' = [import EXCEPT ![i].at = "read", ![i].mine = @ \cup {"datasets"}]
      BY <2>1, <2>3, <1>1, FigureGoes, StepsAre
    <2> QED BY <1>4, <2>2, <2>3 DEF I!EnsureCatalog
  <1> QED BY <1>3, <1>4

LEMMA FigureDownload ==
  ASSUME FigureInv, NEW i \in I!Importers, NEW g \in Figures, I!Download(i, g)
  PROVE  FigureInv'
  <1> USE DEF FigureInv
  <1>1. /\ import \in [I!Importers -> ImportRow] /\ source \in I!Published /\ UNCHANGED <<source, table, sure>>
        /\ import[i].at = "download"
    BY DEF FigureTypes, I!Download
  <1>2. source[g] \in Values \cup {Absent} /\ source[g] # None BY <1>1, NullAssumption DEF I!Published
  <1>3. /\ import' \in [I!Importers -> ImportRow] /\ \A j \in I!Importers \ {i} : import'[j] = import[j]
        /\ import'[i].got = [import[i].got EXCEPT ![g] = source[g]] /\ import'[i].alone = import[i].alone
        /\ import'[i].at = IF \A h \in Figures \ {g} : import[i].got[h] # None THEN "catalog" ELSE "download"
    <2> DEFINE place == IF \A h \in Figures \ {g} : import[i].got[h] # None THEN "catalog" ELSE "download"
                new == [import[i].got EXCEPT ![g] = source[g]]
    <2>1. import[i].got \in [Figures -> Values \cup {Absent, None}] BY <1>1 DEF ImportRow
    <2>2. new \in [Figures -> Values \cup {Absent, None}] BY <2>1, <1>2
    <2>3. import' = [import EXCEPT ![i].got = new, ![i].at = place] BY <1>1 DEF I!Download
    <2>4. place \in Steps BY StepsAre
    <2> HIDE DEF place, new
    <2>5. [import[i] EXCEPT !.got = new, !.at = place] \in ImportRow
      BY <1>1, <2>2, <2>4 DEF ImportRow
    <2>6. /\ import' \in [I!Importers -> ImportRow] /\ \A j \in I!Importers \ {i} : import'[j] = import[j]
          /\ import'[i] = [import[i] EXCEPT !.got = new, !.at = place]
      BY <1>1, <2>3, <2>5
    <2>7. import'[i].got = new /\ import'[i].alone = import[i].alone /\ import'[i].at = place
      BY <1>1, <2>6 DEF ImportRow
    <2> QED BY <2>6, <2>7 DEF place, new
  <1>4. import[i].got \in [Figures -> Values \cup {Absent, None}] BY <1>1 DEF ImportRow
  <1>5. /\ import'[i].got[g] = source[g] /\ \A h \in Figures \ {g} : import'[i].got[h] = import[i].got[h]
    BY <1>3, <1>4
  <1>6. import[i].alone => /\ \A j \in I!Others(i) : import[j].at = "idle"
                           /\ \A h \in Figures : import[i].got[h] \in {None, source[h]}
    BY DEF FigureAlone
  <1>7. /\ import'[i].at \in {"catalog", "download"}
        /\ import'[i].at \in Downloaded => \A h \in Figures : import'[i].got[h] # None
    BY <1>2, <1>3, <1>5 DEF Downloaded
  <1>8. import'[i].alone => /\ \A j \in I!Others(i) : import[j].at = "idle"
                            /\ \A h \in Figures : import'[i].got[h] \in {None, source[h]}
    BY <1>3, <1>5, <1>6
  <1> QED BY <1>1, <1>3, <1>7, <1>8, FigureOwn DEF Downloaded

LEMMA FigureRead ==
  ASSUME FigureInv, NEW i \in I!Importers, I!Read(i)
  PROVE  FigureInv'
  <1> USE DEF FigureInv
  <1>1. /\ import \in [I!Importers -> ImportRow] /\ UNCHANGED <<source, table, sure>> /\ import[i].at = "read"
    BY DEF FigureTypes, I!Read
  <1> DEFINE todo == {g \in Figures : import[i].got[g] # Absent /\ I!Changed(table[g], import[i].got[g])}
  <1>2. todo \in SUBSET Figures OBVIOUS
  <1>3. import' = [import EXCEPT ![i].at = "upsert", ![i].todo = todo] BY DEF I!Read
  <1>4. \A g \in Figures : g \in todo \/ import[i].got[g] = Absent \/ import[i].got[g] = table[g]
    BY DEF I!Changed
  <1> HIDE DEF todo
  <1>5. /\ import' \in [I!Importers -> ImportRow] /\ \A j \in I!Importers \ {i} : import'[j] = import[j]
        /\ import'[i].at = "upsert" /\ import'[i].got = import[i].got /\ import'[i].alone = import[i].alone
        /\ import'[i].todo = todo
    <2> DEFINE to == [import[i] EXCEPT !.at = "upsert", !.todo = todo]
    <2>1. import[i] \in ImportRow BY <1>1
    <2>2. to \in ImportRow BY <1>2, <2>1, StepsAre DEF ImportRow
    <2>3. /\ to.at = "upsert" /\ to.got = import[i].got /\ to.alone = import[i].alone /\ to.todo = todo
      BY <2>1 DEF ImportRow
    <2>4. import' = [import EXCEPT ![i] = to] BY <1>1, <1>3
    <2> HIDE DEF to
    <2> QED BY <1>1, <2>2, <2>3, <2>4
  <1>6. /\ import[i].alone => /\ \A j \in I!Others(i) : import[j].at = "idle"
                              /\ \A h \in Figures : import[i].got[h] \in {None, source[h]}
        /\ \A g \in Figures : import[i].got[g] # None
    BY <1>1 DEF FigureAlone, Downloaded
  <1> QED BY <1>1, <1>4, <1>5, <1>6, FigureOwn DEF Downloaded

LEMMA FigureUpsert ==
  ASSUME FigureInv, NEW i \in I!Importers, NEW g \in Figures, I!Upsert(i, g)
  PROVE  FigureInv'
  <1> USE DEF FigureInv
  <1>1. /\ import \in [I!Importers -> ImportRow] /\ UNCHANGED <<source, table, sure>> /\ import[i].at = "upsert"
    BY DEF FigureTypes, I!Upsert
  <1>2. /\ import' \in [I!Importers -> ImportRow] /\ \A j \in I!Importers \ {i} : import'[j] = import[j]
        /\ import'[i].at = "upsert" /\ import'[i].got = import[i].got /\ import'[i].alone = import[i].alone
        /\ import'[i].todo = import[i].todo \ {g} /\ import'[i].mine = import[i].mine \cup {g}
    BY <1>1, StepsAre DEF I!Upsert, ImportRow
  <1>3. /\ import[i].alone =>
             /\ \A j \in I!Others(i) : import[j].at = "idle"
             /\ \A h \in Figures : import[i].got[h] \in {None, source[h]}
             /\ \A h \in Figures : \/ h \in import[i].todo \cup import[i].mine
                                   \/ import[i].got[h] = Absent \/ import[i].got[h] = table[h]
        /\ \A h \in Figures : import[i].got[h] # None
    BY <1>1 DEF FigureAlone, Downloaded
  <1> QED BY <1>1, <1>2, <1>3, FigureOwn DEF Downloaded

LEMMA FigureCommit ==
  ASSUME FigureInv, NEW i \in I!Importers, I!Commit(i)
  PROVE  FigureInv'
  <1> USE DEF FigureInv
  <1>1. /\ import \in [I!Importers -> ImportRow] /\ source' = source /\ import[i].at = "upsert"
        /\ import[i].todo = {} /\ table \in I!Published /\ source \in I!Published
        /\ table' = [g \in Figures |-> IF g \in import[i].mine THEN import[i].got[g] ELSE table[g]]
        /\ sure' = (IF import[i].alone THEN source ELSE None)
    BY DEF FigureTypes, I!Commit
  <1>2. /\ import' \in [I!Importers -> ImportRow] /\ \A j \in I!Importers \ {i} : import'[j] = import[j]
        /\ import'[i].at = "idle" /\ ~import'[i].alone /\ \A g \in Figures : import'[i].got[g] = None
    BY <1>1, StepsAre DEF I!Commit, I!Ends, I!NoImport, ImportRow
  <1>3. \A g \in Figures : import[i].got[g] \in Values \cup {Absent}
    BY <1>1, StepsAre DEF FigureAlone, Downloaded, ImportRow
  <1>4. FigureTypes'
    BY <1>1, <1>2, <1>3 DEF FigureTypes, I!Published
  <1>5. FigureAlone'
    <2>1. \A j \in I!Importers \ {i} : ~import[j].alone
      BY <1>1 DEF FigureAlone, I!Others
    <2> QED BY <1>2, <2>1 DEF FigureAlone, Downloaded
  <1>6. I!FiguresArePublished'
    <2> SUFFICES ASSUME sure' # None, NEW g \in Figures, sure'[g] # Absent PROVE table'[g] = sure'[g]
      BY DEF I!FiguresArePublished
    <2>1. import[i].alone /\ sure' = source BY <1>1
    <2>2. import[i].got[g] = source[g] /\ (g \in import[i].mine \/ import[i].got[g] = table[g])
      BY <1>1, <1>3, <2>1 DEF FigureAlone, Downloaded
    <2> QED BY <1>1, <2>1, <2>2
  <1> QED BY <1>4, <1>5, <1>6

LEMMA FigurePublish ==
  ASSUME FigureInv, I!Publish PROVE FigureInv'
  <1> USE DEF FigureInv
  <1>1. /\ source' \in I!Published /\ UNCHANGED <<table, sure>> /\ import \in [I!Importers -> ImportRow]
        /\ import' = [i \in I!Importers |-> [import[i] EXCEPT !.alone = FALSE]]
    BY DEF I!Publish, I!Disturbed, FigureTypes
  <1>2. /\ import' \in [I!Importers -> ImportRow]
        /\ \A i \in I!Importers : /\ import'[i].at = import[i].at /\ import'[i].got = import[i].got
                                  /\ ~import'[i].alone
    BY <1>1, StepsAre DEF ImportRow
  <1> QED BY <1>1, <1>2 DEF FigureTypes, FigureAlone, I!FiguresArePublished

LEMMA FigureStep == ASSUME FigureInv, I!Next \/ UNCHANGED figureVars PROVE FigureInv'
  <1>1. CASE I!Next
    <2>1. CASE I!Deadlock
      <3>1. PICK i \in I!Importers : I!Ends(i) BY <2>1 DEF I!Deadlock
      <3> QED BY <2>1, <3>1, FigureEnds DEF I!Deadlock
    <2>2. ASSUME NEW i \in I!Importers, I!Fail(i) PROVE FigureInv'
      BY <2>2, FigureEnds DEF I!Fail
    <2> QED BY <1>1, <2>1, <2>2, FigurePublish, FigureBegin, FigureMappings, FigureDownload, FigureRead, FigureUpsert, FigureCommit
            DEF I!Next, I!Work
  <1>2. CASE UNCHANGED figureVars
    BY <1>2 DEF figureVars, FigureInv, FigureTypes, FigureAlone, I!FiguresArePublished, I!Others, I!Published
  <1> QED BY <1>1, <1>2

LEMMA FigureTypeOK == ASSUME FigureInv PROVE I!TypeOK
  BY DEF FigureInv, FigureTypes, ImportRow, I!TypeOK

-----------------------------------------------------------------------------
(* The whole.  Every step is one of one part, or the change of a polygon that drops *)
(* what two parts of the page keep, and leaves the others alone.                    *)
PortalInv ==
  /\ CacheInv /\ ViewInv /\ RequestInv /\ SessionInv /\ InboxInv /\ FormInv
  /\ OsmInv /\ AreaInv /\ FigureInv /\ LookupInv /\ QueryInv

LEMMA PortalInit == ASSUME Init PROVE PortalInv
  BY CacheInit, ViewInit, RequestInit, SessionInit, InboxInit, FormInit, OsmInit, AreaInit, FigureInit,
     LookupInit, QueryInit DEF Init, PortalInv

(* What a step is to each part *)
LEMMA Parts ==
  ASSUME [Next]_all
  PROVE  /\ C!Next \/ UNCHANGED cacheVars
         /\ V!Next \/ UNCHANGED viewportVars
         /\ P!Next \/ UNCHANGED requestVars
         /\ B!Next \/ UNCHANGED sessionVars
         /\ N!Next \/ UNCHANGED inboxVars
         /\ F!Next \/ UNCHANGED formVars
         /\ O!Next \/ UNCHANGED osmVars
         /\ A!Next \/ UNCHANGED areaVars
         /\ I!Next \/ UNCHANGED figureVars
         /\ L!Next \/ UNCHANGED lookupVars
         /\ Q!Next \/ UNCHANGED queryVars
  <1> USE DEF pageVars, dataVars, askVars
  <1>1. CASE UNCHANGED all BY <1>1, Zenon DEF all
  <1>2. CASE InCache(C!Next) BY <1>2, Zenon DEF InCache
  <1>3. CASE InViewport(V!Next) BY <1>3, Zenon DEF InViewport
  <1>4. CASE InRequests(P!Next) BY <1>4, Zenon DEF InRequests
  <1>5. CASE InSession(B!Next) BY <1>5, Zenon DEF InSession
  <1>6. CASE InInbox(N!Next) BY <1>6, Zenon DEF InInbox
  <1>7. CASE InForm(F!Next) BY <1>7, Zenon DEF InForm
  <1>8. CASE InOsm(O!Next) BY <1>8, Zenon DEF InOsm
  <1>9. CASE InAreas(A!Next) BY <1>9, Zenon DEF InAreas
  <1>10. CASE InFigures(I!Next) BY <1>10, Zenon DEF InFigures
  <1>11. CASE InLookups(L!Next) BY <1>11, Zenon DEF InLookups, Apart
  <1>12. CASE InQueries(Q!Next) BY <1>12, Zenon DEF InQueries, Apart
  <1>13. CASE InvalidateAfterPolygonMutation
    <2>1. P!Next BY <1>13, Zenon DEF InvalidateAfterPolygonMutation, P!Next
    <2>2. V!Next BY <1>13, Zenon DEF InvalidateAfterPolygonMutation, V!Next
    <2>3. UNCHANGED <<cacheVars, sessionVars, inboxVars, dataVars>>
      BY <1>13, Zenon DEF InvalidateAfterPolygonMutation
    <2> QED BY <2>1, <2>2, <2>3, Zenon
  <1> QED BY <1>1, <1>2, <1>3, <1>4, <1>5, <1>6, <1>7, <1>8, <1>9, <1>10, <1>11, <1>12, <1>13, Zenon DEF Next

LEMMA PortalStep == ASSUME PortalInv, [Next]_all PROVE PortalInv'
  <1> USE Parts DEF PortalInv
  <1>1. CacheInv' BY CacheStep, CacheStill, Zenon
  <1>2. ViewInv' /\ RequestInv' BY ViewStep, RequestStep, Zenon
  <1>3. SessionInv' /\ InboxInv' BY SessionStep, InboxStep, Zenon
  <1>4. FormInv' BY FormStep, Zenon
  <1>5. OsmInv' BY OsmStep, OsmStill, Zenon
  <1>6. AreaInv' /\ FigureInv' BY AreaStep, FigureStep, Zenon
  <1>7. LookupInv' BY LookupStep, LookupStill, Zenon
  <1>8. QueryInv' BY QueryStep, QueryStill, Zenon
  <1> QED BY <1>1, <1>2, <1>3, <1>4, <1>5, <1>6, <1>7, <1>8, Zenon

LEMMA PortalAlways == Spec => []PortalInv
  BY PortalInit, PortalStep, PTL DEF Spec

LEMMA PortalTypes == ASSUME PortalInv PROVE PortalTypeOK
  BY CacheHolds, ViewHolds, RequestTypeOK, SessionHolds, InboxHolds, FormTypeOK, OsmHolds, AreaTypeOK,
     FigureTypeOK, LookupHolds, QueryHolds, Zenon DEF PortalInv, PortalTypeOK

(* What the server keeps under a version, and every answer about to be kept, shows each  *)
(* mutation the version stands for (get_or_compute, bump_cache_versions), whatever was    *)
(* remembered, overtaken or computed twice.                                               *)
THEOREM KeptCurrent == Spec => []C!KeptIsCurrent
  <1>1. ASSUME PortalInv PROVE C!KeptIsCurrent BY <1>1, CacheHolds, Zenon DEF PortalInv
  <1> QED BY <1>1, PortalAlways, PTL

(* What any part keeps is current, for any number of processes, requests, users, runs,   *)
(* figures and versions: the server's answers (get_or_compute), the map's objects        *)
(* (osmViewport store), the site's OpenStreetMap data and what users took over of it    *)
(* (postprocess_osm), the items of its areas (wikidata_enrichment), the city's figures   *)
(* (flensburg_statistics_import) and what is kept about a polygon (osm_lookup).          *)
THEOREM EverythingIsCurrent == Spec => []CopiesAreCurrent
  <1>1. ASSUME PortalInv PROVE CopiesAreCurrent
    <2>1. PortalTypeOK BY <1>1, PortalTypes
    <2>2. C!KeptIsCurrent /\ V!NothingFromBefore /\ O!SiteIsWhole /\ L!KeptOfItsVersion
      BY <1>1, CacheHolds, ViewHolds, OsmHolds, LookupHolds, Zenon DEF PortalInv
    <2>3. A!MatchIsOfTags /\ I!FiguresArePublished
      BY <1>1, Zenon DEF PortalInv, AreaInv, FigureInv
    <2> QED BY <2>1, <2>2, <2>3, Zenon DEF CopiesAreCurrent
  <1> QED BY <1>1, PortalAlways, PTL

(* Whatever comes late loses, in whatever order answers, steps and restarts come: an     *)
(* older answer for the map or a page (AbortController, ids), a refresh after a sign-out *)
(* (auth store), a notification that comes twice (notifications store), a second message *)
(* of one form (contact), a second user who takes an object over (osm_import), a lookup  *)
(* after a confirmation (wikidata_enrichment), lookups waiting for Overpass (osm_lookup) *)
(* and requests waiting for the language model (assistant).                              *)
THEOREM LateLoses == Spec => []LatecomersLose
  <1>1. ASSUME PortalInv PROVE LatecomersLose
    <2>1. V!LastViewportWins /\ B!SignedOutStays /\ N!CountedOnce /\ O!TakenOnce /\ L!Spaced /\ Q!AskingHoldsNothing
      BY <1>1, ViewHolds, SessionHolds, InboxHolds, OsmHolds, LookupHolds, QueryHolds, Zenon DEF PortalInv
    <2>2. P!LastRequestWins /\ F!OneMailPerForm /\ A!ConfirmedStays
      BY <1>1, Zenon DEF PortalInv, RequestInv, FormInv, AreaInv
    <2> QED BY <2>1, <2>2, Zenon DEF LatecomersLose
  <1> QED BY <1>1, PortalAlways, PTL
=============================================================================
