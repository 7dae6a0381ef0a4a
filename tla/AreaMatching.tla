---------------------------- MODULE AreaMatching ----------------------------
(***************************************************************************)
(* The Wikidata item of one area (services/wikidata_enrichment.py): the    *)
(* publication of OSM data and a command write the area from its tags      *)
(* (sync_osm_analysis_areas) and look its item up afterwards (sync), an    *)
(* operator confirms one by hand (cli/set_area_wikidata.py).  Each runs in *)
(* transactions of its own; the network lies between what sync reads and   *)
(* what it writes.  A state of the tags stands for the item it leads to.   *)
(***************************************************************************)
EXTENDS Naturals

CONSTANTS
  None,
  Items,      \* Wikidata items, and states of the area's tags
  MaxSyncs    \* runs that are started

VARIABLES
  tags,       \* the area's tags in osm_features
  area,       \* its row in analysis_areas
  holder, draft, \* the run that has written the row and not committed, and what it wrote
  syncs, run, \* runs left; step, what was read, and whether a run has committed since
  confirmed,  \* what the operator has confirmed
  crossed, overtaken \* the match, or the tags, are of a run that another one passed

vars == <<tags, area, holder, draft, syncs, run, confirmed, crossed, overtaken>>

Runs  == {"post", "cli"}
NoRun == [at |-> "idle", seen |-> None, passed |-> FALSE, found |-> None]
Goes(r, place) == run' = [run EXCEPT ![r].at = place]

Init ==
  /\ \E t \in Items :
       tags = t /\ area = [tags |-> t, match |-> None, source |-> None, status |-> None, checked |-> FALSE]
  /\ holder = None /\ draft = None /\ syncs = MaxSyncs
  /\ run = [r \in Runs |-> NoRun]
  /\ confirmed = None /\ crossed = FALSE /\ overtaken = FALSE

-----------------------------------------------------------------------------
(* Mutants: what became manual since it was read is written; new tags do not ask *)
(* for a new match.                                                              *)
AnyRow == TRUE
KeptCheck(row, t) == row.checked

(* persist_match: AND wikidata_match_source IS DISTINCT FROM 'MANUAL' *)
StillAutomatic == area.source # "MANUAL"

(* wikidata_last_checked_at after UPSERT_SQL *)
StillChecked(row, t) == row.checked /\ (row.source = "MANUAL" \/ t = row.tags)

(* UPSERT_SQL on an area that is there *)
Upserted(row, t) ==
  [row EXCEPT !.tags = t, !.checked = StillChecked(row, t),
              !.status = IF row.source = "MANUAL" /\ t # row.match THEN "CONFLICT" ELSE @]

-----------------------------------------------------------------------------
(* postprocess_osm.run has new tags, in its own transaction; sync_analysis_areas reads *)
(* those that are committed; sync_wikidata only looks items up.                        *)
Begin(r) ==
  /\ run[r].at = "idle" /\ syncs > 0 /\ syncs' = syncs - 1
  /\ \/ \E t \in IF r = "post" THEN Items ELSE {tags} :
          run' = [run EXCEPT ![r] = [NoRun EXCEPT !.at = "upsert", !.seen = t]]
     \/ r = "cli" /\ run' = [run EXCEPT ![r] = [NoRun EXCEPT !.at = "select"]]
  /\ UNCHANGED <<tags, area, holder, draft, confirmed, crossed, overtaken>>

(* sync_osm_analysis_areas: waits for whoever has written the row *)
Upsert(r) ==
  /\ run[r].at = "upsert" /\ holder = None /\ Goes(r, "written")
  /\ holder' = r /\ draft' = Upserted(area, run[r].seen)
  /\ UNCHANGED <<tags, area, syncs, confirmed, crossed, overtaken>>

Committed == area' = draft /\ holder' = None /\ draft' = None

CommitAreas(r) ==
  /\ run[r].at = "written" /\ Committed
  /\ run' = [q \in Runs |-> IF q = r THEN [run[q] EXCEPT !.at = "select"] ELSE [run[q] EXCEPT !.passed = TRUE]]
  /\ tags' = (IF r = "post" THEN run[r].seen ELSE tags)
  /\ overtaken' = (r = "cli" /\ run[r].passed)
  /\ UNCHANGED <<syncs, confirmed, crossed>>

(* sync: areas that are not confirmed and have no fresh match; all, with --force *)
Fresh == area.checked /\ area.status = "AUTO_MATCHED"
Select(r) ==
  /\ run[r].at = "select"
  /\ \/ /\ area.source # "MANUAL" /\ (r = "cli" \/ ~Fresh)
        /\ run' = [run EXCEPT ![r] = [NoRun EXCEPT !.at = "resolve", !.seen = area.tags]]
     \/ (area.source = "MANUAL" \/ Fresh) /\ Goes(r, "commit")
  /\ UNCHANGED <<tags, area, holder, draft, syncs, confirmed, crossed, overtaken>>

(* resolve_area: the item, or none that is certain; an error leaves the area as it is. *)
ResolveArea(r) ==
  /\ run[r].at = "resolve"
  /\ \/ \E item \in {run[r].seen, None} : run' = [run EXCEPT ![r].at = "persist", ![r].found = item]
     \/ Goes(r, "commit")
  /\ UNCHANGED <<tags, area, holder, draft, syncs, confirmed, crossed, overtaken>>

(* persist_match: waits for the row, and looks at it again *)
PersistMatch(r) ==
  /\ run[r].at = "persist" /\ holder = None /\ Goes(r, "commit")
  /\ IF StillAutomatic
     THEN /\ holder' = r
          /\ draft' = [area EXCEPT !.match = run[r].found, !.source = "OSM", !.checked = TRUE,
                                   !.status = IF run[r].found = None THEN "NOT_FOUND" ELSE "AUTO_MATCHED"]
     ELSE UNCHANGED <<holder, draft>>
  /\ UNCHANGED <<tags, area, syncs, confirmed, crossed, overtaken>>

(* The end of sync: all areas are committed at once. *)
CommitMatches(r) ==
  /\ run[r].at = "commit" /\ run' = [run EXCEPT ![r] = NoRun]
  /\ IF holder = r THEN Committed /\ crossed' = run[r].passed ELSE UNCHANGED <<area, holder, draft, crossed>>
  /\ UNCHANGED <<tags, syncs, confirmed, overtaken>>

(* A statement fails: what the run wrote since its last commit is gone. *)
Fail(r) ==
  /\ run[r].at # "idle" /\ run' = [run EXCEPT ![r] = NoRun]
  /\ IF holder = r THEN holder' = None /\ draft' = None ELSE UNCHANGED <<holder, draft>>
  /\ UNCHANGED <<tags, area, syncs, confirmed, crossed, overtaken>>

(* set_manual_match *)
SetManualMatch(item) ==
  /\ holder = None /\ confirmed' = item
  /\ area' = [area EXCEPT !.match = item, !.source = "MANUAL", !.status = "VERIFIED", !.checked = TRUE]
  /\ UNCHANGED <<tags, holder, draft, syncs, run, crossed, overtaken>>

(* wikidata_stale_days *)
Stale ==
  /\ holder = None /\ area.checked /\ area' = [area EXCEPT !.checked = FALSE]
  /\ UNCHANGED <<tags, holder, draft, syncs, run, confirmed, crossed, overtaken>>

-----------------------------------------------------------------------------
Step(r) ==
  Upsert(r) \/ CommitAreas(r) \/ Select(r) \/ ResolveArea(r) \/ PersistMatch(r) \/ CommitMatches(r)
Next ==
  \/ \E r \in Runs : Begin(r) \/ Step(r) \/ Fail(r)
  \/ \E item \in Items : SetManualMatch(item)
  \/ Stale

(* A run goes on: requests to Wikidata end after 15 seconds. *)
Fairness == \A r \in Runs : WF_vars(Step(r))

-----------------------------------------------------------------------------
TypeOK ==
  /\ tags \in Items /\ area.match \in Items \cup {None}
  /\ IF holder = None THEN draft = None ELSE draft.match \in Items \cup {None}

(* What the operator confirmed stays, whichever run looked at the area       *)
(* before or comes after.                                                    *)
ConfirmedStays == confirmed # None => area.source = "MANUAL" /\ area.match = confirmed

(* A match that counts as checked is one of the area's tags, unless it was   *)
(* looked up for tags that changed meanwhile; and the area has the tags of   *)
(* its object, unless the command read them before a publication.            *)
MatchIsOfTags ==
  /\ area.checked /\ area.source = "OSM" /\ ~crossed => area.match \in {None, area.tags}
  /\ overtaken \/ area.tags = tags

SyncsEnd == \A r \in Runs : []<>(run[r].at = "idle")
=============================================================================
