---------------------------- MODULE PageRequests ----------------------------
(***************************************************************************)
(* Requests of which a page wants only the last answer (frontend/app/      *)
(* stores and composables).  slot says whose request it is:                *)
(*   overview   analytics, its benchmarks alike    compare  comparison     *)
(*   polygons   the map's list of polygons         search   the assistant  *)
(*   polygon, detail, area   what the map has selected (useMapSelection)   *)
(*   osmInfo    usePolygonOsmInfo, keys are versions of one polygon        *)
(* A key is what is asked for: a filter, a list, a selection, a question;  *)
(* Off is one for which nothing is to be fetched.  One handler runs at a   *)
(* time up to its next await, so an action is such a stretch.              *)
(***************************************************************************)
EXTENDS Naturals

CONSTANTS
  Slots, Keys, Off, None,
  MaxSends  \* how often the page may ask anew (bounds current)

VARIABLES
  slot,
  current,   \* requestId and its like
  active,    \* the request of the AbortController, 0 where none is set
  flights,   \* the requests under way
  asked,     \* what the page asked for last
  selected,  \* what the map has selected
  shown,     \* the answer in the store, named by its key
  kept,      \* loadedFilterKey, the cache of usePolygonOsmInfo, the search history
  loading, failed,
  passed     \* an answer was shown without a request while one was under way

vars == <<slot, current, active, flights, asked, selected, shown, kept, loading, failed, passed>>

Selections == {"polygon", "detail", "area"}
Pending    == {f \in flights : ~f.aborted}

(* Where there is an AbortController, the request before is aborted. *)
Aborts  == slot \notin Selections \cup {"osmInfo"}
Aborted == {IF Aborts /\ f.id = active THEN [f EXCEPT !.aborted = TRUE] ELSE f : f \in flights}

(* pending of usePolygonOsmInfo: those who want the same share a request. *)
Together(f) == IF slot = "osmInfo" THEN {g \in flights : g.of = f.of} ELSE {f}

-----------------------------------------------------------------------------
(* Mutant: an answer counts whatever was asked since.                        *)
LastOrNot(f) == TRUE

(* requestId === this.requestId, activeRequest === controller *)
Last(f) == f.id = (IF slot = "search" THEN active ELSE current)

(* The request id after clearSelection, clear, reset and the invalidations *)
Outdated == current + 1

(* The second condition of a selection's answer *)
Wanted(f) == Last(f) /\ (slot \in Selections => selected = f.of)

Init ==
  /\ slot \in Slots /\ current = 0 /\ active = 0 /\ flights = {} /\ asked = None /\ selected = None
  /\ shown = None /\ kept = {} /\ loading = FALSE /\ failed = FALSE /\ passed = FALSE

-----------------------------------------------------------------------------
(* A new request: id, abort, loading *)
Ask(k) ==
  /\ current < MaxSends /\ current' = current + 1
  /\ flights' = Aborted \cup {[id |-> current', of |-> k, aborted |-> FALSE]}
  /\ active' = IF Aborts THEN current' ELSE active
  /\ asked' = k /\ loading' = TRUE /\ failed' = FALSE /\ passed' = FALSE

(* load, loadBenchmarks, submit, compare: whatever is shown stays until the answer. *)
Load(k) ==
  /\ slot \in {"overview", "compare", "search"} /\ Ask(k)
  /\ UNCHANGED <<slot, selected, shown, kept>>

(* compare of an empty list: aborted without a new id *)
CompareNothing ==
  /\ slot = "compare" /\ asked # Off /\ asked' = Off
  /\ flights' = Aborted /\ shown' = None /\ loading' = FALSE /\ failed' = FALSE
  /\ UNCHANGED <<slot, current, active, selected, kept, passed>>

(* loadPolygons: the filter loaded already, the source switched off, a request *)
LoadPolygons(k, force) ==
  /\ slot = "polygons" /\ UNCHANGED <<slot, selected>>
  /\ \/ /\ k \in kept /\ ~force /\ asked' = k /\ passed' = (passed \/ Pending # {})
        /\ UNCHANGED <<current, active, flights, shown, kept, loading, failed>>
     \/ /\ k = Off /\ (k \notin kept \/ force) /\ current < MaxSends /\ current' = current + 1
        /\ flights' = Aborted /\ shown' = None /\ kept' = {Off} /\ asked' = Off
        /\ loading' = FALSE /\ failed' = FALSE /\ UNCHANGED <<active, passed>>
     \/ k # Off /\ (k \notin kept \/ force) /\ Ask(k) /\ UNCHANGED <<shown, kept>>

(* loadBySlug: an answer kept is shown at once; the request under way is outdated. *)
LoadBySlug(k, force) ==
  /\ slot = "osmInfo" /\ UNCHANGED <<slot, selected, kept>>
  /\ \/ k \in kept /\ ~force /\ current < MaxSends /\ current' = current + 1 /\ asked' = k /\ shown' = k
        /\ loading' = FALSE /\ failed' = FALSE /\ UNCHANGED <<active, flights, passed>>
     \/ (k \notin kept \/ force) /\ Ask(k) /\ UNCHANGED shown

(* selectPolygon, selectOsm, selectAnalysisArea: what was selected is cleared first. *)
Select(k) ==
  /\ slot \in Selections /\ selected' = k /\ shown' = None /\ Ask(k)
  /\ UNCHANGED <<slot, kept>>

(* Search selects an area without clearing: the area's details are loaded, a polygon *)
(* that was selected no longer is; adopting an object likewise ends its selection.   *)
SelectBySearch(k) ==
  /\ slot = "area" /\ selected # k /\ selected' = k /\ Ask(k)
  /\ UNCHANGED <<slot, shown, kept>>
Deselect ==
  /\ slot \in {"polygon", "detail"} /\ selected # None /\ selected' = None
  /\ UNCHANGED <<slot, current, active, flights, asked, shown, kept, loading, failed, passed>>

(* loadDetails once more, when a filter was changed *)
Reload == slot = "area" /\ selected # None /\ Ask(selected) /\ UNCHANGED <<slot, selected, shown, kept>>

(* retryOsm: the same request id again, offered after a failure *)
RetryOsm ==
  /\ slot = "polygon" /\ failed /\ selected = asked
  /\ flights' = flights \cup {[id |-> current, of |-> asked, aborted |-> FALSE]}
  /\ loading' = TRUE /\ failed' = FALSE
  /\ UNCHANGED <<slot, current, active, asked, selected, shown, kept, passed>>

(* clearSelection, reset, clear, invalidateGisData: nothing is shown or asked for. *)
Clear ==
  /\ slot \notin {"polygons", "search"} /\ asked # None /\ current < MaxSends
  /\ current' = Outdated /\ flights' = Aborted /\ asked' = None /\ selected' = None
  /\ shown' = None /\ loading' = FALSE /\ failed' = FALSE
  /\ UNCHANGED <<slot, active, kept, passed>>

(* invalidateForPolygonMutation: the list stays until the map asks again. *)
Invalidate ==
  /\ slot = "polygons" /\ current < MaxSends /\ current' = Outdated /\ flights' = Aborted
  /\ kept' = {} /\ loading' = FALSE /\ failed' = FALSE /\ asked' = shown
  /\ UNCHANGED <<slot, active, selected, shown, passed>>

(* closeAssistant, dispose; an answer taken from the history *)
Close ==
  /\ slot = "search" /\ active # 0 /\ active' = 0 /\ flights' = Aborted /\ loading' = FALSE
  /\ asked' = shown /\ UNCHANGED <<slot, current, selected, shown, kept, failed, passed>>
Restore(k) ==
  /\ slot = "search" /\ k \in kept /\ asked' = k /\ shown' = k /\ passed' = (passed \/ Pending # {})
  /\ UNCHANGED <<slot, current, active, flights, selected, kept, loading, failed>>

-----------------------------------------------------------------------------
(* Whose finally it is *)
Done(f) ==
  /\ loading' = (loading /\ ~IF slot \in {"polygon", "detail"} THEN Wanted(f) ELSE Last(f))
  /\ active'  = IF slot = "search" /\ Last(f) THEN 0 ELSE active

(* An answer; the waiters of one request get it together. *)
Arrive(f) ==
  /\ f \in Pending /\ flights' = flights \ Together(f)
  /\ LET mine == {g \in Together(f) : Wanted(g)}
     IN  /\ shown' = IF mine # {} THEN f.of ELSE shown
         /\ kept' = IF slot = "search" /\ mine # {} THEN kept \cup {f.of}
                    ELSE IF slot = "osmInfo" \/ (slot = "polygons" /\ mine # {}) THEN {f.of} ELSE kept
         /\ Done(IF mine = {} THEN f ELSE CHOOSE g \in mine : TRUE)
  /\ UNCHANGED <<slot, current, asked, selected, failed, passed>>

(* A failure, the 12 seconds of a search among them.  An aborted request fails with   *)
(* AbortError, which is ignored, or with the failure of the session's refresh.        *)
Fail(f) ==
  /\ f \in flights /\ flights' = flights \ Together(f)
  /\ LET mine == {g \in Together(f) : IF slot = "area" THEN Last(g) ELSE Wanted(g)}
         told == mine # {} /\ (f.aborted => slot # "search")
     IN  /\ \/ failed' = (failed \/ told)
            \/ f.aborted /\ failed' = failed
         /\ shown' = IF slot = "osmInfo" /\ mine # {} THEN None ELSE shown
         /\ Done(IF mine = {} THEN f ELSE CHOOSE g \in mine : TRUE)
  /\ UNCHANGED <<slot, current, asked, selected, kept, passed>>

Settle == \E f \in flights : Arrive(f) \/ Fail(f)

Next ==
  \/ \E k \in Keys : Load(k) \/ Select(k) \/ SelectBySearch(k) \/ Restore(k)
  \/ \E force \in BOOLEAN, k \in Keys \cup {Off} : LoadPolygons(k, force)
  \/ \E force \in BOOLEAN, k \in Keys : LoadBySlug(k, force)
  \/ CompareNothing \/ Deselect \/ Reload \/ RetryOsm \/ Clear \/ Invalidate \/ Close \/ Settle

Fairness == WF_vars(Settle)

-----------------------------------------------------------------------------
Subjects == Keys \cup {Off, None}
TypeOK ==
  /\ slot \in Slots /\ current \in 0 .. MaxSends /\ active \in 0 .. current
  /\ \A f \in flights : f.id \in 1 .. current /\ f.of \in Keys
  /\ {asked, selected, shown} \subseteq Subjects /\ kept \subseteq Subjects

(* The last request wins: when nothing is loading and nothing failed, the    *)
(* page shows what it asked for last or nothing, unless it has been shown    *)
(* something kept while a request was under way; what is shown of a          *)
(* selection is of what is selected; and something loading is on its way.    *)
LastRequestWins ==
  /\ ~loading /\ ~failed /\ ~passed => shown \in {asked, None}
  /\ slot \in {"polygon", "detail"} /\ selected # None => shown \in {selected, None}
  /\ loading /\ (slot \in {"polygon", "detail"} => selected = asked) => \E f \in Pending : Last(f)

SpinnerStops == []<>(~loading \/ selected # asked)
=============================================================================
