------------------------------- MODULE OsmData -------------------------------
(***************************************************************************)
(* OpenStreetMap in the site: the scripts that import an extract and keep  *)
(* it up to date under one file lock (scripts/osm), the transaction that   *)
(* publishes it (cli/postprocess_osm.py), and users who take an object     *)
(* over as a polygon meanwhile (services/osm_import.py).  The data are a   *)
(* number: how many of the planet's changes they contain.  osm2pgsql and   *)
(* osm2pgsql-replication are external.                                     *)
(***************************************************************************)
EXTENDS Integers, FiniteSets

CONSTANTS
  None,
  Adopters,   \* users taking over the same object on the same floor
  MaxPlanet,  \* changes the planet sees
  Chunk,      \* changes within OSM_MAX_DIFF_MB
  MaxFaults,  \* runs and requests that fail by themselves
  MaxImports  \* imports an operator starts

VARIABLES
  planet, stage,   \* changes there are, and what osm_import contains
  replica,         \* up to where osm2pgsql-replication believes the import to be
  job,             \* the runs: step, the change they go to, what they publish
  site,            \* the public tables
  adoption,        \* the users' requests: step, the state of the data and the name they read
  polygon,         \* what they created: state of its osm source and of its areas, its slug
  budget,          \* faults and imports left
  behind,          \* an import began the replication and has not published
  late, together   \* adoptions that met a publication or failed; two that met each other

vars == <<planet, stage, replica, job, site, adoption, polygon, budget, behind, late, together>>

Jobs == {"timer", "operator"}
NoJob   == [at |-> "idle", upto |-> 0, whole |-> TRUE, areas |-> {}, sources |-> {}, heals |-> {}]
NoVisit == [at |-> "idle", seen |-> 0, slug |-> None]

Goes(j, place)  == job' = [job EXCEPT ![j].at = place]
Turns(a, place) == adoption' = [adoption EXCEPT ![a].at = place]

(* Positions after which a transaction holds a row of cache_versions, or, for "areas", *)
(* the assignments it has written                                                      *)
JobHolds == [areas     |-> {"sources", "osm", "polygons", "commit"},
             analytics |-> {"sources", "osm", "polygons", "commit"},
             osm       |-> {"polygons", "commit"},
             polygons  |-> {"commit"}]
VisitHolds == [areas     |-> {"polygons", "analytics", "osm", "commit"},
               polygons  |-> {"analytics", "osm", "commit"},
               analytics |-> {"osm", "commit"},
               osm       |-> {"commit"}]
Writers(key) == {j \in Jobs : job[j].at \in JobHolds[key]}
Visitors(key) == {a \in Adopters : adoption[a].at \in VisitHolds[key]}
Created == DOMAIN polygon
Open(a) == adoption[a].at \notin {"idle", "done"}
Publishing(j) == job[j].at \in {"areas", "held", "sources", "osm", "polygons", "commit"}

Init ==
  /\ planet = 0 /\ stage = [upto |-> 0, torn |-> FALSE, gap |-> FALSE]
  /\ replica \in {None, 0} /\ site = [upto |-> 0, whole |-> TRUE]
  /\ job = [j \in Jobs |-> NoJob]
  /\ adoption = [a \in Adopters |-> NoVisit] /\ polygon = [a \in {} |-> None]
  /\ budget = [faults |-> MaxFaults, imports |-> MaxImports]
  /\ behind = FALSE /\ late = {} /\ together = FALSE

-----------------------------------------------------------------------------
(* Mutants: no lock; replication that starts at "now"; sources not refreshed; *)
(* an object that was taken over may be taken over again.                     *)
NoLock == TRUE
StartNow(j) == planet
NoSources == {}
NoneTaken(a) == FALSE

(* flock -n *)
Unlocked == \A j \in Jobs : job[j].at = "idle"

(* --start-at "$pbf_timestamp" *)
StartAt(j) == job[j].upto

(* REFRESH_POLYGON_OSM_SOURCES_SQL: the committed sources of objects that changed *)
Refreshed == Created

(* EXISTING_SQL *)
Taken(a) == Created \ {a} # {}

-----------------------------------------------------------------------------
(* initial-import.sh: the lock, the checks, the download with its checksum (an extract *)
(* may be older than the planet).                                                      *)
Import ==
  /\ Unlocked /\ job["operator"].at = "idle" /\ budget.imports > 0
  /\ budget' = [budget EXCEPT !.imports = @ - 1]
  /\ \E upto \in 0 .. planet :
       job' = [job EXCEPT !["operator"] = [NoJob EXCEPT !.at = "create", !.upto = upto]]
  /\ UNCHANGED <<planet, stage, replica, site, adoption, polygon, behind, late, together>>

(* osm2pgsql --create empties its tables, and forgets the state of the replication *)
Create(j) ==
  /\ job[j].at = "create" /\ Goes(j, "created")
  /\ stage' = [upto |-> 0, torn |-> TRUE, gap |-> FALSE] /\ replica' = None
  /\ UNCHANGED <<planet, site, adoption, polygon, budget, behind, late, together>>

(* ... and fills them; it may note the state named in the extract *)
FinishCreate(j) ==
  /\ job[j].at = "created" /\ Goes(j, "init")
  /\ stage' = [upto |-> job[j].upto, torn |-> FALSE, gap |-> FALSE]
  /\ replica' \in {None, job[j].upto} /\ behind' = TRUE
  /\ UNCHANGED <<planet, site, adoption, polygon, budget, late, together>>

(* The grants, osm2pgsql-replication init, the migrations *)
BeginReplication(j) ==
  /\ job[j].at = "init" /\ Goes(j, "upsert") /\ replica' = StartAt(j)
  /\ UNCHANGED <<planet, stage, site, adoption, polygon, budget, behind, late, together>>

(* update.sh, every hour, one instance of the unit: a run that finds the lock taken skips, *)
(* one before the first import fails (osm2pgsql-replication status).                       *)
Update ==
  /\ Unlocked /\ job["timer"].at = "idle" /\ replica # None /\ Goes("timer", "update")
  /\ UNCHANGED <<planet, stage, replica, site, adoption, polygon, budget, behind, late, together>>

(* osm2pgsql-replication update: nothing to fetch, or one chunk is appended *)
Append(j) ==
  /\ job[j].at = "update"
  /\ IF replica = None \/ replica >= planet THEN job' = [job EXCEPT ![j] = NoJob] /\ UNCHANGED stage
     ELSE /\ job' = [job EXCEPT ![j] = [NoJob EXCEPT !.at = "append",
                                        !.upto = IF replica + Chunk < planet THEN replica + Chunk ELSE planet]]
          /\ stage' = [stage EXCEPT !.torn = TRUE, !.gap = @ \/ replica > stage.upto]
  /\ UNCHANGED <<planet, replica, site, adoption, polygon, budget, behind, late, together>>
FinishAppend(j) ==
  /\ job[j].at = "append" /\ Goes(j, "upsert")
  /\ stage' = [stage EXCEPT !.upto = job[j].upto, !.torn = FALSE]
  /\ UNCHANGED <<planet, replica, site, adoption, polygon, budget, behind, late, together>>

-----------------------------------------------------------------------------
(* postprocess_osm.run: the region must be there (it may be missing from a table that *)
(* is being filled), the features are brought in line with the stage.                 *)
Upsert(j) ==
  /\ job[j].at = "upsert"
  /\ \/ /\ job' = [job EXCEPT ![j].at = "areas", ![j].upto = stage.upto,
                              ![j].whole = ~stage.torn /\ ~stage.gap,
                              ![j].heals = {a \in Created : ~Open(a)}]
        /\ late' = late \cup {a \in Adopters : Open(a)}
     \/ /\ stage.torn /\ job' = [job EXCEPT ![j] = NoJob] /\ UNCHANGED late
  /\ UNCHANGED <<planet, stage, replica, site, adoption, polygon, budget, behind, together>>

(* sync_osm_analysis_areas, refresh_polygon_area_assignments for all polygons, the first  *)
(* bump: waits for assignments of a request that is not committed ("held") ...            *)
SyncAreas(j) ==
  /\ job[j].at \in {"areas", "held"}
  /\ IF Visitors("areas") # {} THEN job[j].at = "areas" /\ Goes(j, "held")
     ELSE /\ Writers("analytics") \ {j} = {}
          /\ job' = [job EXCEPT ![j].at = "sources", ![j].areas = Created]
  /\ UNCHANGED <<planet, stage, replica, site, adoption, polygon, budget, behind, late, together>>

(* REFRESH_POLYGON_OSM_SOURCES_SQL *)
RefreshSources(j) ==
  /\ job[j].at = "sources"
  /\ job' = [job EXCEPT ![j].at = "osm", ![j].sources = Refreshed]
  /\ UNCHANGED <<planet, stage, replica, site, adoption, polygon, budget, behind, late, together>>

(* bump_cache_versions of "osm", "analytics" (held already) and "polygons", in this order *)
BumpJob(j) ==
  /\ \E key \in {"osm", "polygons"} :
       /\ job[j].at = key /\ Writers(key) \ {j} = {} /\ Visitors(key) = {}
       /\ Goes(j, IF key = "osm" THEN "polygons" ELSE "commit")
  /\ UNCHANGED <<planet, stage, replica, site, adoption, polygon, budget, behind, late, together>>

(* The commit: everything is public at once. *)
Publish(j) ==
  /\ job[j].at = "commit" /\ Goes(j, "wikidata")
  /\ site' = [upto |-> job[j].upto, whole |-> job[j].whole]
  /\ polygon' = [a \in Created |->
                   [polygon[a] EXCEPT !.source = IF a \in job[j].sources THEN job[j].upto ELSE @,
                                      !.areas  = IF a \in job[j].areas THEN job[j].upto ELSE @]]
  /\ late' = late \ job[j].heals /\ behind' = FALSE
  /\ UNCHANGED <<planet, stage, replica, adoption, budget, together>>

(* After Wikidata (AreaMatching) the post-processing has succeeded: only then does *)
(* osm2pgsql-replication note the chunk, and asks for the next.                    *)
Advance(j) ==
  /\ job[j].at = "wikidata"
  /\ IF j = "operator" THEN job' = [job EXCEPT ![j] = NoJob] /\ UNCHANGED replica
     ELSE Goes(j, "update") /\ replica' = job[j].upto
  /\ UNCHANGED <<planet, stage, site, adoption, polygon, budget, behind, late, together>>

(* Set -e: a step that fails ends the run, its transaction and its lock. *)
FailJob(j) ==
  /\ job[j].at # "idle" /\ budget.faults > 0
  /\ budget' = [budget EXCEPT !.faults = @ - 1] /\ job' = [job EXCEPT ![j] = NoJob]
  /\ UNCHANGED <<planet, stage, replica, site, adoption, polygon, behind, late, together>>

-----------------------------------------------------------------------------
(* create_polygon_from_osm: SOURCE_SQL, CONTAINER_SQL *)
Read(a) ==
  /\ adoption[a].at = "idle"
  /\ adoption' = [adoption EXCEPT ![a] = [NoVisit EXCEPT !.at = "read", !.seen = site.upto]]
  /\ late' = IF \E j \in Jobs : Publishing(j) THEN late \cup {a} ELSE late
  /\ UNCHANGED <<planet, stage, replica, job, site, polygon, budget, behind, together>>
Check(a) ==
  /\ adoption[a].at = "read" /\ Turns(a, IF Taken(a) THEN "done" ELSE "checked")
  /\ together' = (together \/ \E b \in Adopters \ {a} : adoption[b].at \in {"checked", "named"})
  /\ UNCHANGED <<planet, stage, replica, job, site, polygon, budget, behind, late>>

(* generate_unique_polygon_slug: the first free suffix among the committed slugs *)
Named(base, n) == \E a \in Created : polygon[a].slug = <<base, n>>
FreeSlug(base) ==
  <<base, CHOOSE n \in 1 .. Cardinality(Created) + 1 : ~Named(base, n) /\ \A i \in 1 .. n - 1 : Named(base, i)>>
Names(a, base, place) == adoption' = [adoption EXCEPT ![a] = [@ EXCEPT !.at = place, !.slug = FreeSlug(base)]]
Clashes(a) == Named(adoption[a].slug[1], adoption[a].slug[2])

Name(a) ==
  /\ adoption[a].at = "checked" /\ Names(a, "title", "named")
  /\ UNCHANGED <<planet, stage, replica, job, site, polygon, budget, behind, late, together>>

(* The polygon, its sources and its outbox event are committed: nothing in the database  *)
(* forbids a second polygon of one object, only one of the same slug.                    *)
Insert(a) ==
  /\ adoption[a].at = "named"
  /\ IF Clashes(a) THEN Turns(a, "done") /\ UNCHANGED polygon
     ELSE /\ \E place \in {"assign", "lookup"} : Turns(a, place)
          /\ polygon' = [b \in Created \cup {a} |-> IF b \in Created THEN polygon[b] ELSE
                           [source |-> adoption[a].seen, areas |-> None, slug |-> adoption[a].slug]]
  /\ UNCHANGED <<planet, stage, replica, job, site, budget, behind, late, together>>

(* Without an address in its tags: enrich_polygon_address, and a slug of what it found *)
Lookup(a) ==
  /\ adoption[a].at = "lookup" /\ (Turns(a, "assign") \/ Names(a, "address", "renamed"))
  /\ UNCHANGED <<planet, stage, replica, job, site, polygon, budget, behind, late, together>>

(* The request ends early: a polygon it committed stays, with what it has. *)
Abandon(a) == Turns(a, "done") /\ late' = late \cup {a}

Rename(a) ==
  /\ adoption[a].at = "renamed"
  /\ IF Clashes(a) THEN Abandon(a) /\ UNCHANGED polygon
     ELSE /\ Turns(a, "assign") /\ UNCHANGED late
          /\ polygon' = [polygon EXCEPT ![a].slug = adoption[a].slug]
  /\ UNCHANGED <<planet, stage, replica, job, site, budget, behind, together>>

(* refresh_polygon_area_assignments for this polygon: waits for a publication that has *)
(* written them ("held"), and fails where that committed: they are unique.             *)
Assign(a) ==
  /\ adoption[a].at = "assign"
  /\ adoption' = [adoption EXCEPT ![a] = [NoVisit EXCEPT !.seen = site.upto,
                    !.at = IF \E j \in Writers("areas") : a \in job[j].areas THEN "held" ELSE "polygons"]]
  /\ UNCHANGED <<planet, stage, replica, job, site, polygon, budget, behind, late, together>>
Released(a) ==
  /\ adoption[a].at = "held" /\ ~\E j \in Writers("areas") : a \in job[j].areas
  /\ Turns(a, IF polygon[a].areas = None THEN "polygons" ELSE "done")
  /\ late' = late \cup {a}
  /\ UNCHANGED <<planet, stage, replica, job, site, polygon, budget, behind, together>>

(* invalidate_gis_after_mutation: "polygons", "analytics" and "osm", in this order *)
BumpVisit(a) ==
  /\ \E key \in {"polygons", "analytics", "osm"} :
       /\ adoption[a].at = key /\ Writers(key) = {} /\ Visitors(key) \ {a} = {}
       /\ Turns(a, CASE key = "polygons" -> "analytics" [] key = "analytics" -> "osm" [] OTHER -> "commit")
  /\ UNCHANGED <<planet, stage, replica, job, site, polygon, budget, behind, late, together>>

(* notify_users and the second commit; a publication that waited for it now violates *)
(* the uniqueness of the assignments.                                                *)
Commit(a) ==
  /\ adoption[a].at = "commit" /\ Turns(a, "done")
  /\ polygon' = [polygon EXCEPT ![a].areas = adoption[a].seen]
  /\ job' = [j \in Jobs |-> IF job[j].at = "held" THEN NoJob ELSE job[j]]
  /\ UNCHANGED <<planet, stage, replica, site, budget, behind, late, together>>

FailVisit(a) ==
  /\ Open(a) /\ budget.faults > 0 /\ budget' = [budget EXCEPT !.faults = @ - 1]
  /\ Abandon(a)
  /\ UNCHANGED <<planet, stage, replica, job, site, polygon, behind, together>>

(* Each waits for a row the other has: PostgreSQL ends one of them. *)
Deadlock(j, a) ==
  /\ job[j].at = "polygons" /\ adoption[a].at = "analytics"
  /\ \/ job' = [job EXCEPT ![j] = NoJob] /\ UNCHANGED <<adoption, late>>
     \/ Abandon(a) /\ UNCHANGED job
  /\ UNCHANGED <<planet, stage, replica, site, polygon, budget, behind, together>>

Change ==
  /\ planet < MaxPlanet /\ planet' = planet + 1
  /\ UNCHANGED <<stage, replica, job, site, adoption, polygon, budget, behind, late, together>>

-----------------------------------------------------------------------------
Script(j) == Create(j) \/ FinishCreate(j) \/ BeginReplication(j) \/ Append(j) \/ FinishAppend(j) \/ Advance(j)
Process(j) == Upsert(j) \/ SyncAreas(j) \/ RefreshSources(j) \/ BumpJob(j) \/ Publish(j)
Visit(a) == Check(a) \/ Name(a) \/ Insert(a) \/ Lookup(a) \/ Rename(a) \/ Assign(a) \/ Released(a) \/ BumpVisit(a) \/ Commit(a)
Resolve == \E j \in Jobs, a \in Adopters : Deadlock(j, a)
Next ==
  \/ Import \/ Update \/ Change \/ Resolve
  \/ \E j \in Jobs : Script(j) \/ Process(j) \/ FailJob(j)
  \/ \E a \in Adopters : Read(a) \/ Visit(a) \/ FailVisit(a)

(* systemd starts the update again and again, what runs goes on, and PostgreSQL ends a *)
(* deadlock.  One condition is enough for the runs: the lock lets one at a time work.  *)
Working   == Update \/ \E j \in Jobs : Script(j) \/ Process(j)
Answering == Resolve \/ \E a \in Adopters : Visit(a)
Fairness  == WF_vars(Working) /\ WF_vars(Answering)

-----------------------------------------------------------------------------
TypeOK ==
  /\ planet \in 0 .. MaxPlanet /\ replica \in 0 .. MaxPlanet \cup {None}
  /\ stage.upto \in 0 .. MaxPlanet /\ site.upto \in 0 .. MaxPlanet
  /\ late \subseteq Adopters

(* The site shows a state of the planet that was whole: never a table that   *)
(* is being filled, never one that lacks changes in between.  Replication is *)
(* not ahead of it, unless an import has begun it and not published yet, and *)
(* every polygon taken over carries the published state of its object and    *)
(* its areas, unless it met a publication or failed.                         *)
SiteIsWhole ==
  /\ site.whole
  /\ replica # None /\ ~behind => replica <= site.upto
  /\ \A a \in Created \ late : ~Open(a) => {polygon[a].source, polygon[a].areas} = {site.upto}

(* An object is taken over once, unless two requests are past the check *)
(* together.                                                             *)
TakenOnce == together \/ Cardinality(Created) <= 1

(* The site catches up, whatever fails on the way, unless an import ended    *)
(* without beginning the replication, or without publishing and nothing has  *)
(* changed since.                                                            *)
CatchesUp == []<>(site.upto = planet \/ replica = None \/ (behind /\ replica = planet))
=============================================================================
