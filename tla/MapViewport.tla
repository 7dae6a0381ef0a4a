----------------------------- MODULE MapViewport -----------------------------
(***************************************************************************)
(* The OSM objects of the map's viewport (frontend/app/stores/             *)
(* osmViewport.ts) and the map that asks for them (components/map/         *)
(* MapCanvas.vue).  A viewport stands for bounds, zoom and filters; Off is *)
(* a viewport for which nothing is to be fetched.  A browser runs one      *)
(* handler at a time up to its next await, so an action is such a stretch. *)
(***************************************************************************)
EXTENDS Naturals, Sequences, SequencesExt

CONSTANTS
  Viewports, Off, None,
  CacheSize,  \* VIEWPORT_CACHE_SIZE
  MaxLoads    \* how often the page may begin something new (bounds generation)

VARIABLES
  view,        \* the viewport on the screen
  data,        \* the answer in the store, [of, age], or None
  dataKey, lastKey,
  loaded,      \* loadedBounds, loadedZoomBucket and loadedFilterKey together
  generation, loading, error,
  controller,  \* the generation whose request the AbortController belongs to, 0 for null
  flights,     \* the requests under way
  cached,      \* viewportCache, oldest first
  drawn,       \* what updateOsmSources drew last
  age,         \* polygon mutations that the page has seen
  passed       \* a viewport was served without a request while one was under way

vars == <<view, data, dataKey, lastKey, loaded, generation, loading, error, controller, flights,
          cached, drawn, age, passed>>

Shown(a) == IF a = None THEN None ELSE a.of
Pending  == {f \in flights : ~f.aborted}
Aborted  == {IF f.gen = controller THEN [f EXCEPT !.aborted = TRUE] ELSE f : f \in flights}
InCache(v) == \E i \in DOMAIN cached : cached[i].of = v
Place(v)   == CHOOSE i \in DOMAIN cached : cached[i].of = v
Without(v) == IF InCache(v) THEN RemoveAt(cached, Place(v)) ELSE cached

-----------------------------------------------------------------------------
(* Mutant: a polygon mutation leaves the viewports that were fetched before. *)
DroppedNever == cached

(* generation === this.generation *)
Newest(f) == f.gen = generation

(* viewportCache after invalidateForPolygonMutation *)
Dropped == <<>>

Init ==
  /\ view \in Viewports /\ data = None /\ dataKey = None /\ lastKey = None /\ loaded = None
  /\ generation = 0 /\ loading = FALSE /\ error = FALSE /\ controller = 0 /\ flights = {}
  /\ cached = <<>> /\ drawn = None /\ age = 0 /\ passed = FALSE

(* The map is moved, its zoom or a filter changed. *)
Move(v) ==
  /\ view # v /\ view' = v
  /\ UNCHANGED <<data, dataKey, lastKey, loaded, generation, loading, error, controller, flights,
                 cached, drawn, age, passed>>

(* updateOsmSources after load, where it finds what it had: only something else is drawn. *)
Draw(new) == drawn' = IF new # data THEN new ELSE drawn

(* covers: what is loaded is still what is on the screen. *)
Covered == data # None /\ loaded = view

(* load where there is nothing to fetch *)
LoadNothing ==
  /\ view = Off
  /\ flights' = Aborted /\ controller' = 0 /\ loading' = FALSE
  /\ lastKey' = Off /\ dataKey' = Off /\ loaded' = Off
  /\ data' = [of |-> Off, age |-> age] /\ drawn' = data'
  /\ UNCHANGED <<view, generation, error, cached, age, passed>>

(* load where the same viewport has been asked for already *)
LoadSame ==
  /\ view # Off /\ view = lastKey /\ (loading \/ dataKey = view)
  /\ passed' = (passed \/ \E f \in Pending : f.of # view)
  /\ UNCHANGED <<view, data, dataKey, lastKey, loaded, generation, loading, error, controller,
                 flights, cached, drawn, age>>

(* load of a viewport that is kept: it becomes the most recently used. *)
LoadKept ==
  /\ view # Off /\ ~(view = lastKey /\ (loading \/ dataKey = view)) /\ InCache(view)
  /\ LET kept == cached[Place(view)]
     IN  /\ cached' = Append(Without(view), kept)
         /\ data' = kept /\ Draw(kept)
  /\ dataKey' = view /\ lastKey' = view /\ loaded' = view
  /\ passed' = (passed \/ Pending # {})
  /\ UNCHANGED <<view, generation, loading, error, controller, flights, age>>

(* load with a request: the one before is aborted. *)
LoadAnew(force) ==
  /\ view # Off /\ generation < MaxLoads
  /\ \/ force
     \/ ~(view = lastKey /\ (loading \/ dataKey = view)) /\ ~InCache(view)
  /\ generation' = generation + 1 /\ controller' = generation' /\ lastKey' = view
  /\ flights' = Aborted \cup
       {[gen |-> generation', of |-> view, age |-> age, aborted |-> FALSE]}
  /\ loading' = TRUE /\ error' = FALSE /\ passed' = FALSE
  /\ UNCHANGED <<view, data, dataKey, loaded, cached, drawn, age>>

(* refreshOsmViewportForCurrentMap *)
Refresh(force) ==
  /\ force \/ ~Covered
  /\ LoadNothing \/ LoadAnew(force) \/ (~force /\ (LoadSame \/ LoadKept))

(* The map goes back to what is loaded: nothing is asked, nothing aborted. *)
Return ==
  /\ Covered /\ Pending # {} /\ passed' = TRUE /\ ~passed
  /\ UNCHANGED <<view, data, dataKey, lastKey, loaded, generation, loading, error, controller,
                 flights, cached, drawn, age>>

(* An answer arrives; at most CacheSize viewports are kept. *)
Arrive(f) ==
  /\ f \in Pending /\ flights' = flights \ {f}
  /\ IF Newest(f)
     THEN LET new  == [of |-> f.of, age |-> f.age]
              kept == Append(Without(f.of), new)
          IN  /\ data' = new /\ dataKey' = f.of /\ loaded' = f.of /\ loading' = FALSE
              /\ cached' = IF Len(kept) > CacheSize THEN Tail(kept) ELSE kept
              /\ drawn' = new
     ELSE UNCHANGED <<data, dataKey, loaded, loading, cached, drawn>>
  /\ UNCHANGED <<view, lastKey, generation, error, controller, age, passed>>

(* A request fails or is aborted. *)
Fail(f) ==
  /\ f \in flights /\ flights' = flights \ {f}
  /\ IF f.gen = generation
     THEN /\ loading' = FALSE
          /\ IF f.aborted THEN UNCHANGED <<lastKey, error>> ELSE lastKey' = None /\ error' = TRUE
     ELSE UNCHANGED <<lastKey, error, loading>>
  /\ UNCHANGED <<view, data, dataKey, loaded, generation, controller, cached, drawn, age, passed>>

(* invalidateForPolygonMutation *)
Invalidate ==
  /\ generation < MaxLoads /\ generation' = generation + 1
  /\ flights' = Aborted /\ controller' = 0 /\ data' = None /\ loading' = FALSE /\ error' = FALSE
  /\ lastKey' = None /\ dataKey' = None /\ loaded' = None /\ cached' = Dropped
  /\ age' = age + 1
  /\ UNCHANGED <<view, drawn, passed>>

(* dispose, when the page is left: the store stays as it is, the next map is empty. *)
Dispose ==
  /\ generation < MaxLoads /\ generation' = generation + 1
  /\ flights' = Aborted /\ controller' = 0 /\ loading' = FALSE /\ lastKey' = None /\ drawn' = None
  /\ UNCHANGED <<view, data, dataKey, loaded, error, cached, age, passed>>

Settle == \E f \in flights : Arrive(f) \/ Fail(f)
Next ==
  \/ \E v \in Viewports \cup {Off} : Move(v)
  \/ \E force \in BOOLEAN : Refresh(force)
  \/ Return \/ Settle \/ Invalidate \/ Dispose
Fairness == WF_vars(Settle)

-----------------------------------------------------------------------------
Ages == [of : Viewports \cup {Off}, age : 0 .. age]
TypeOK ==
  /\ view \in Viewports \cup {Off} /\ data \in Ages \cup {None} /\ drawn \in Ages \cup {None}
  /\ {dataKey, lastKey, loaded} \subseteq Viewports \cup {Off, None}
  /\ generation \in 0 .. MaxLoads /\ controller \in 0 .. generation
  /\ \A f \in flights : f.of \in Viewports /\ f.gen \in 1 .. generation /\ f.age <= age
  /\ Len(cached) <= CacheSize /\ ToSet(cached) \subseteq Ages
  /\ \A i, j \in DOMAIN cached : cached[i].of = cached[j].of => i = j

(* Once a polygon was changed on this page, nothing fetched before is in the *)
(* store or its cache, and no request under way can bring it back.           *)
NothingFromBefore ==
  /\ data # None => data.age = age
  /\ \A i \in DOMAIN cached : cached[i].age = age
  /\ \A f \in Pending : f.age = age

(* Of the viewports asked for the last wins: when nothing is loading and     *)
(* nothing failed, the store holds what was asked for last, and it says so   *)
(* of itself and on the map - unless a viewport was served without a request *)
(* while one was under way, which the code neither aborts nor outdates.  A   *)
(* new map may still show nothing, but never anything else.                  *)
LastViewportWins ==
  /\ Shown(data) = dataKey /\ dataKey = loaded
  /\ data # None => drawn \in {data, None}
  /\ ~loading /\ ~error /\ ~passed => dataKey \in {lastKey, None} \/ lastKey = None
  /\ loading => \E f \in Pending : Newest(f)

SpinnerStops == []<>~loading
=============================================================================
