--------------------------- MODULE PolygonLookup ---------------------------
(***************************************************************************)
(* What OpenStreetMap knows about one polygon (services/osm_lookup.py): a  *)
(* request reads the polygon and the objects inside it, gives its session  *)
(* back and shares one task with all requests for the same version of the  *)
(* polygon; without local objects the task asks Overpass, one request      *)
(* after another with a pause between them.                                *)
(***************************************************************************)
EXTENDS Naturals, Sequences

CONSTANTS
  Visits,      \* requests for the objects of the polygon
  MaxVersion,  \* bound: versions of the polygon
  Interval     \* osm_external_min_interval_seconds

VARIABLES
  version,     \* updated_at, and with it the geometry
  kept,        \* _cache: the version of the geometry each answer is about, 0 where there is none
  task,        \* _inflight and _inflight_local, for each key
  line,        \* the keys whose tasks are in _external_lock or wait for it, in their order
  pause,       \* time since _last_external_request, at most Interval
  visit,
  crowded      \* two requests of Overpass came closer than the interval

vars == <<version, kept, task, line, pause, visit, crowded>>

Versions == 1 .. MaxVersion
NoTask   == [at |-> "none", of |-> 0, local |-> FALSE, wait |-> 0]
Idle     == [at |-> "idle", key |-> 1, of |-> 0, local |-> FALSE]

TaskAt(k, place)  == task' = [task EXCEPT ![k].at = place]
VisitAt(v, place) == visit' = [visit EXCEPT ![v].at = place]
End(v)            == visit' = [visit EXCEPT ![v] = Idle]

-----------------------------------------------------------------------------
(* Mutants: the key is the polygon's id alone; nobody waits for the lock. *)
KeyOfPolygon(n) == 1
NoTurns(k) == TRUE

KeyOf(n) == n
FirstInLine(k) == k = Head(line)

Init ==
  /\ version = 1 /\ kept = [k \in Versions |-> 0]
  /\ task = [k \in Versions |-> NoTask] /\ line = <<>>
  /\ pause \in {0, Interval} /\ crowded = FALSE
  /\ visit = [v \in Visits |-> Idle]

(* Somebody saves the polygon; a kept answer's time is over. *)
Edit ==
  /\ version < MaxVersion /\ version' = version + 1
  /\ UNCHANGED <<kept, task, line, pause, visit, crowded>>
Lapse == \E k \in Versions :
  /\ kept[k] # 0 /\ kept' = [kept EXCEPT ![k] = 0]
  /\ UNCHANGED <<version, task, line, pause, visit, crowded>>

Tick ==
  /\ pause < Interval /\ pause' = pause + 1
  /\ task' = [k \in Versions |-> [task[k] EXCEPT !.wait = IF @ = 0 THEN 0 ELSE @ - 1]]
  /\ UNCHANGED <<version, kept, line, visit, crowded>>

-----------------------------------------------------------------------------
(* find_osm_objects_for_polygon *)
Read(v) ==
  /\ visit[v].at = "idle" /\ kept[KeyOf(version)] = 0
  /\ visit' = [visit EXCEPT ![v] = [Idle EXCEPT !.at = "local", !.key = KeyOf(version)]]
  /\ UNCHANGED <<version, kept, task, line, pause, crowded>>

(* _local_matches reads the geometry once more, as it is by then. *)
LocalMatches(v) ==
  /\ visit[v].at = "local"
  /\ \/ \E found \in BOOLEAN : visit' = [visit EXCEPT ![v] = [@ EXCEPT !.at = "closed", !.of = version, !.local = found]]
     \/ End(v)
  /\ UNCHANGED <<version, kept, task, line, pause, crowded>>

(* Without its session: the task there is for the key, or a new one with these matches; Overpass *)
(* is asked about the geometry that was read with the key.                                        *)
Share(v) ==
  LET k == visit[v].key
      about == IF visit[v].local THEN visit[v].of ELSE k
      new == [NoTask EXCEPT !.at = "begun", !.of = about, !.local = visit[v].local]
  IN  /\ visit[v].at = "closed"
      /\ task' = IF task[k].at = "none" THEN [task EXCEPT ![k] = new] ELSE task
      /\ visit' = [visit EXCEPT ![v] =
            CASE task[k].at = "done"   -> [@ EXCEPT !.at = "answered", !.of = task[k].of]
              [] task[k].at = "failed" -> Idle
              [] OTHER                 -> [@ EXCEPT !.at = "waiting", !.of = 0]]
      /\ UNCHANGED <<version, kept, line, pause, crowded>>

(* The request is cancelled: asyncio.shield keeps its task for the others. *)
Leave(v) ==
  /\ visit[v].at = "waiting" /\ End(v)
  /\ UNCHANGED <<version, kept, task, line, pause, crowded>>

(* The entry of this version is written, those of all other versions are dropped, newer ones too. *)
Keep(v) ==
  /\ visit[v].at = "answered" /\ End(v)
  /\ kept' = [k \in Versions |-> IF k = visit[v].key THEN visit[v].of ELSE 0]
  /\ UNCHANGED <<version, task, line, pause, crowded>>

-----------------------------------------------------------------------------
Waiting(k) == {v \in Visits : visit[v].at = "waiting" /\ visit[v].key = k}

Finish(k) ==
  /\ TaskAt(k, "done")
  /\ visit' = [v \in Visits |-> IF v \in Waiting(k) THEN [visit[v] EXCEPT !.at = "answered", !.of = task[k].of]
                                                   ELSE visit[v]]

(* _lookup: objects found inside, or Overpass switched off, end it. *)
Lookup(k) ==
  /\ task[k].at = "begun"
  /\ \/ Finish(k) /\ UNCHANGED line
     \/ ~task[k].local /\ TaskAt(k, "queued") /\ line' = Append(line, k) /\ UNCHANGED visit
  /\ UNCHANGED <<version, kept, pause, crowded>>

(* _respect_external_rate_limit sleeps inside the lock. *)
Enter(k) ==
  /\ task[k].at = "queued" /\ FirstInLine(k)
  /\ task' = [task EXCEPT ![k].at = "sleeping", ![k].wait = Interval - pause]
  /\ UNCHANGED <<version, kept, line, pause, visit, crowded>>

Awake(k) ==
  /\ task[k].at = "sleeping" /\ task[k].wait = 0
  /\ TaskAt(k, "asking") /\ line' = Tail(line)
  /\ crowded' = (crowded \/ pause < Interval) /\ pause' = 0
  /\ UNCHANGED <<version, kept, visit>>

(* _overpass_matches; a failure is every waiting request's. *)
Overpass(k) ==
  /\ task[k].at = "asking"
  /\ \/ Finish(k)
     \/ /\ TaskAt(k, "failed")
        /\ visit' = [v \in Visits |-> IF v \in Waiting(k) THEN Idle ELSE visit[v]]
  /\ UNCHANGED <<version, kept, line, pause, crowded>>

Cleanup(k) ==
  /\ task[k].at \in {"done", "failed"} /\ task' = [task EXCEPT ![k] = NoTask]
  /\ UNCHANGED <<version, kept, line, pause, visit, crowded>>

Visit(v) == LocalMatches(v) \/ Share(v) \/ Keep(v)
Task(k)  == Lookup(k) \/ Enter(k) \/ Awake(k) \/ Overpass(k) \/ Cleanup(k)

Next ==
  \/ Edit \/ Lapse \/ Tick
  \/ \E v \in Visits : Read(v) \/ Visit(v) \/ Leave(v)
  \/ \E k \in Versions : Task(k)

Spec == Init /\ [][Next]_vars

-----------------------------------------------------------------------------
TypeOK ==
  /\ version \in Versions /\ kept \in [Versions -> 0 .. version]
  /\ line \in Seq(Versions) /\ pause \in 0 .. Interval
  /\ \A k \in Versions : task[k].of \in 0 .. version /\ task[k].wait \in 0 .. Interval
  /\ \A v \in Visits : visit[v].key \in Versions /\ visit[v].of \in 0 .. version

(* What is kept for the polygon as it is now is about its geometry as it is  *)
(* now, and nobody is answered with a geometry older than the one asked for, *)
(* however long a shared task has been under way (find_osm_objects_for_polygon). *)
KeptOfItsVersion ==
  /\ kept[KeyOf(version)] \in {0, version}
  /\ \A v \in Visits : visit[v].at = "answered" => visit[v].of >= visit[v].key

(* Overpass is left alone for the interval, however many tasks wait *)
(* (_respect_external_rate_limit).                                  *)
Spaced == ~crowded
=============================================================================
