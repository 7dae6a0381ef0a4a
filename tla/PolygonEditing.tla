--------------------------- MODULE PolygonEditing ---------------------------
(***************************************************************************)
(* A person edits a polygon on its page, which saves by itself             *)
(* (frontend/app/composables/usePolygonAutosave.ts and the page            *)
(* flaechen/[slug].vue), while other people and the polygon outbox worker  *)
(* change the same row (backend/app/services/polygons.py).                 *)
(*                                                                         *)
(* The update endpoints hold the row's lock (get_polygon with for_update)  *)
(* from the version check to the commit, so an update is one action; the   *)
(* answer is read after the commit, so it is another.  The version is      *)
(* updated_at; the code only ever asks whether the one the page knows is   *)
(* still the row's, so the model keeps, for each version somebody holds,   *)
(* who has changed the row since.                                          *)
(***************************************************************************)
EXTENDS Naturals

CONSTANTS
  Fields,      \* the fields of the page
  Public,      \* those saved through PATCH /polygons/{id}, the others through .../verwaltung
  Geometry,    \* those whose save makes the page fetch the polygon again
  Values, Unset,
  Loads,       \* may the row change between the page's data and its version?
  Failures,    \* may requests fail or their answers get lost?
  Others,      \* do other people change the row?
  Enrichments  \* bound: writes of the outbox worker, two for each lookup of an address

ASSUME FieldAssumption == Public \subseteq Fields /\ Geometry \subseteq Public
ASSUME UnsetAssumption == Unset \notin Values
ASSUME BoundAssumption ==
  Enrichments \in Nat /\ Loads \in BOOLEAN /\ Failures \in BOOLEAN /\ Others \in BOOLEAN

VARIABLES
  row,      \* the stored values
  touches,  \* writes of the worker still to come
  base,     \* the stored value the page last received for each field
  known,    \* updatedAt: who has changed the row since that version
  reply,    \* likewise for the version in the answer under way
  answer,   \* the values in the answer under way
  pending,  \* pending of both kinds; a field belongs to one kind
  failed,   \* the changes of failedJob, Nothing for null
  job,      \* the changes of the request under way
  phase,    \* where flush stands; it is running unless "idle"
  timer,    \* "set" while the debounce timer runs
  status,   \* the status the page shows
  wish,     \* history: the value the person last gave each field
  unsaved,  \* history: the fields whose latest value the server never stored
  dropped   \* history: the fields whose latest value failedJob held when it was overwritten

server == <<row, touches>>
page   == <<base, known, reply, answer, pending, failed, job, phase, timer, status>>
vars   == <<server, page, wish, unsaved, dropped>>

Patch   == [Fields -> Values \cup {Unset}]
Nothing == [f \in Fields |-> Unset]
Actors  == {"me", "other", "worker"}

Over(p, q)   == [f \in Fields |-> IF p[f] = Unset THEN q[f] ELSE p[f]]
Named(p)     == {f \in Fields : p[f] # Unset}
Only(p, S)   == [f \in Fields |-> IF f \in S THEN p[f] ELSE Unset]

-----------------------------------------------------------------------------
(* Mutants.  SameVersion: no check.  Retried: failed changes win over newer    *)
(* ones.  Taken: both kinds go into one request.  Left: the other kind is      *)
(* dropped, or nothing is ever taken out.  Continues: the loop forgets the     *)
(* management changes.                                                         *)
SameVersionUnchecked(since) == TRUE
RetriedOld(j, p)            == Over(j, p)
TakenTogether(p)            == p
LeftNothing(p)              == Nothing
LeftEverything(p)           == p
ContinuesPublic(p)          == Named(p) \cap Public # {}

(* _same_version *)
SameVersion(since) == since = {}

(* retry: the failed changes under what was typed since *)
Retried(j, p) == Over(p, j)

(* The job flush takes: public changes first, one kind at a time; and what stays pending. *)
Taken(p) == IF Named(p) \cap Public # {} THEN Only(p, Public) ELSE p
Left(p)  == IF Named(p) \cap Public # {} THEN Only(p, Fields \ Public) ELSE Nothing

(* The condition of flush's loop *)
Continues(p) == p # Nothing

(* The loop of flush, entered with pending p and failedJob j: the next request or the end. *)
Loop(p, j) ==
  IF Continues(p)
    THEN /\ job' = Taken(p) /\ pending' = Left(p)
         /\ phase' = "sent" /\ status' = "saving" /\ failed' = j
    ELSE /\ job' = Nothing /\ pending' = p
         /\ phase' = "idle" /\ failed' = j
         /\ status' = IF j = Nothing THEN "saved" ELSE status

(* The row changes: every version anybody holds is now an older one. *)
Changed(by) ==
  /\ known' = known \cup {by}
  /\ reply' = IF phase = "applied" THEN reply \cup {by} ELSE reply

-----------------------------------------------------------------------------
Init ==
  /\ row \in [Fields -> Values]
  /\ base = row /\ wish = row /\ unsaved = {} /\ dropped = {}
  /\ touches = Enrichments /\ known = {} /\ reply = {} /\ answer = Nothing
  /\ pending = Nothing /\ failed = Nothing /\ job = Nothing
  /\ phase = IF Loads THEN "loading" ELSE "idle"
  /\ timer = "off" /\ status = "saved"

(* onMounted: the page takes the version, not the data, of a later answer. *)
Mount ==
  /\ phase = "loading"
  /\ known' = {} /\ phase' = "idle"
  /\ UNCHANGED <<server, base, reply, answer, pending, failed, job, timer, status, wish, unsaved, dropped>>

(* schedule *)
Edit(f, v) ==
  /\ phase # "loading" /\ wish[f] # v
  /\ wish' = [wish EXCEPT ![f] = v]
  /\ unsaved' = unsaved \cup {f}
  /\ pending' = [pending EXCEPT ![f] = v]
  /\ status' = "dirty" /\ failed' = Nothing /\ timer' = "set"
  /\ dropped' = (dropped \cup Named(failed)) \ {f}
  /\ UNCHANGED <<server, base, known, reply, answer, job, phase>>

(* The timer calls flush, which returns at once while it is running. *)
Fire ==
  /\ timer = "set" /\ timer' = "off"
  /\ IF phase = "idle" THEN Loop(pending, failed)
                       ELSE UNCHANGED <<job, pending, phase, status, failed>>
  /\ UNCHANGED <<server, base, known, reply, answer, wish, unsaved, dropped>>

(* The retry button: retry calls flush, which clears the timer. *)
Retry ==
  /\ status \in {"error", "conflict"} /\ failed # Nothing /\ phase = "idle"
  /\ Loop(Retried(failed, pending), Nothing)
  /\ timer' = "off"
  /\ UNCHANGED <<server, base, known, reply, answer, wish, unsaved, dropped>>

(* A public answer carries every public field, the other one every management field. *)
Kind(p) == IF Named(p) \cap Public # {} THEN Public ELSE Fields \ Public

(* update_polygon, update_polygon_verwaltung: check and write under the row's lock. *)
Update ==
  /\ phase = "sent"
  /\ IF SameVersion(known)
       THEN /\ row' = Over(job, row)
            /\ unsaved' = {f \in unsaved : job[f] # wish[f]}
            /\ known' = known \cup {"me"}
            /\ phase' = "committed"
       ELSE /\ phase' = "rejected"
            /\ UNCHANGED <<row, unsaved, known>>
  /\ UNCHANGED <<touches, base, answer, reply, pending, failed, job, timer, status, wish, dropped>>

(* After the commit, session.refresh reads the row again for the answer. *)
Reread ==
  /\ phase = "committed" /\ phase' = "applied"
  /\ answer' = Only(row, Kind(job)) /\ reply' = {}
  /\ UNCHANGED <<server, base, known, pending, failed, job, timer, status, wish, unsaved, dropped>>

(* savePublic or saveVerwaltung returns: the page takes values and version,  *)
(* and fetches the polygon again when its geometry was saved.                *)
Saved ==
  /\ phase = "applied"
  /\ known' = reply /\ reply' = {}
  /\ base' = Over(answer, base) /\ answer' = Nothing
  /\ IF Named(job) \cap Geometry # {}
       THEN phase' = "refreshing" /\ UNCHANGED <<job, pending, status, failed, dropped>>
       ELSE Loop(pending, Nothing) /\ dropped' = dropped \cup Named(failed)
  /\ UNCHANGED <<server, timer, wish, unsaved>>

(* onSaved: of the newer polygon only the geometry and its version are taken. *)
Refreshed ==
  /\ phase = "refreshing"
  /\ known' = {}
  /\ base' = [f \in Fields |-> IF f \in Geometry THEN row[f] ELSE base[f]]
  /\ Loop(pending, Nothing) /\ dropped' = dropped \cup Named(failed)
  /\ UNCHANGED <<server, reply, answer, timer, wish, unsaved>>

(* The catch branch of flush *)
Caught(s) ==
  /\ failed' = job /\ job' = Nothing
  /\ phase' = "idle" /\ status' = s
  /\ reply' = {} /\ answer' = Nothing
  /\ dropped' = dropped \cup Named(failed)
  /\ UNCHANGED <<server, base, known, pending, timer, wish, unsaved>>

Rejected == phase = "rejected" /\ Caught("conflict")

(* A request fails on its way or its answer is lost. *)
Fail == Failures /\ phase \in {"sent", "committed", "applied", "rejected", "refreshing"} /\ Caught("error")

(* The person follows the advice of the conflict message. *)
Reload ==
  /\ status = "conflict" /\ phase = "idle"
  /\ base' = row /\ wish' = row /\ unsaved' = {} /\ dropped' = {} /\ known' = {}
  /\ pending' = Nothing /\ failed' = Nothing /\ timer' = "off" /\ status' = "saved"
  /\ UNCHANGED <<server, reply, answer, job, phase>>

(* Somebody else saves a field on a page of their own. *)
OtherEdits(f, v) ==
  /\ Others /\ row[f] # v
  /\ row' = [row EXCEPT ![f] = v]
  /\ Changed("other")
  /\ UNCHANGED <<touches, base, answer, pending, failed, job, phase, timer, status, wish, unsaved, dropped>>

(* enrich_polygon_address and the worker's own commit write address columns *)
(* and, by onupdate, updated_at.                                            *)
Enrich ==
  /\ touches > 0 /\ touches' = touches - 1
  /\ Changed("worker")
  /\ UNCHANGED <<row, base, answer, pending, failed, job, phase, timer, status, wish, unsaved, dropped>>

Next ==
  \/ \E f \in Fields, v \in Values : Edit(f, v) \/ OtherEdits(f, v)
  \/ Mount \/ Fire \/ Retry \/ Update \/ Reread \/ Saved \/ Refreshed
  \/ Rejected \/ Fail \/ Reload \/ Enrich

(* Timers fire and requests end; nobody has to edit, retry or reload. *)
Fairness == WF_vars(Mount) /\ WF_vars(Fire) /\ WF_vars(Update) /\ WF_vars(Reread)
            /\ WF_vars(Saved) /\ WF_vars(Refreshed) /\ WF_vars(Rejected)

Spec == Init /\ [][Next]_vars /\ Fairness

-----------------------------------------------------------------------------
(* Types, and what belongs together: a request has changes of one kind, and  *)
(* only an idle page has a failed job it can still show.                     *)
TypeOK ==
  /\ row \in [Fields -> Values] /\ base \in [Fields -> Values] /\ wish \in [Fields -> Values]
  /\ known \subseteq Actors /\ reply \subseteq Actors /\ answer \in Patch
  /\ pending \in Patch /\ failed \in Patch /\ job \in Patch
  /\ Named(job) \subseteq Public \/ Named(job) \cap Public = {}
  /\ phase \in {"loading", "idle", "sent", "committed", "applied", "rejected", "refreshing"}
  /\ (phase \in {"loading", "idle"}) = (job = Nothing)
  /\ timer \in {"set", "off"} /\ unsaved \subseteq Fields /\ dropped \subseteq Fields
  /\ status \in {"saved", "dirty", "saving", "error", "conflict"}
  /\ touches \in 0 .. Enrichments

(* "Changes typed after the failed request are newer and must win on retry"  *)
(* (usePolygonAutosave.ts:72): whatever waits to be sent is the newest value *)
(* of its field, across failures, retries and answers.                       *)
WaitingIsNewest == \A f \in Fields : pending[f] \in {wish[f], Unset}

(* The page never stops with changes nobody will send: while something waits *)
(* the timer runs, a request is under way or the page shows an error with    *)
(* its retry button and something to retry.                                  *)
NeverStranded ==
  pending # Nothing =>
    timer = "set" \/ phase # "idle" \/ (status \in {"error", "conflict"} /\ failed # Nothing)

(* "Gespeichert" means saved: the server has stored the latest value of      *)
(* every field the person changed.                                           *)
SavedIsHonest == status = "saved" => unsaved = {}

(* It means so except for values that were in failedJob when a newer change, *)
(* or the end of another request, overwrote it: no other path loses one.     *)
OnlyDroppedIsLost == status = "saved" => unsaved \subseteq dropped

(* A save overwrites only values the page has received: changes of other     *)
(* people show up as conflicts.  It holds for a page that never takes a      *)
(* version without its data: whose fields are all of one kind and are saved  *)
(* without fetching the polygon again.                                       *)
NoUnseenOverwrite ==
  [][phase = "sent" /\ phase' = "committed" =>
       \A f \in Fields : row'[f] # row[f] => row[f] = base[f]]_vars

(* The page comes to rest, unless the person keeps editing or retrying forever. *)
ComesToRest ==
  \/ []<>(status \in {"saved", "error", "conflict"})
  \/ []<><<wish' # wish>>_vars
=============================================================================
