--------------------------- MODULE SocialPublishing ---------------------------
(***************************************************************************)
(* Posts on Mastodon (backend/app/services/social_publishing.py, the       *)
(* administration of admin_social.py): changed areas and adopted polygons  *)
(* write rows into an outbox, publishers claim them one by one, take a     *)
(* picture and post, administrators approve, cancel and retry.             *)
(*                                                                         *)
(* A claim commits, which gives its row lock back; from then on the        *)
(* publisher works on the object in its memory and writes to the row by    *)
(* primary key whatever has become of it.  Rows are read without           *)
(* populate_existing: an object the session still refers to keeps its old  *)
(* attributes.  A flush locks the row until the transaction ends.          *)
(***************************************************************************)
EXTENDS Naturals, Sequences, FiniteSets

CONSTANTS
  Events,       \* rows there can be in social_publication_outbox
  Publishers,   \* processes that run publish_due_events
  Polygon,      \* the polygon that may be adopted
  Resource,     \* what each row is about
  Texts,        \* the posts there can be
  NoRow, NoText, Nobody,
  Limit,        \* events one run handles at most, 20 in the code
  MaxAttempts,  \* mastodon_max_attempts
  MaxOutside,   \* bound: saves, edits and decisions of administrators
  MaxFaults     \* bound: crashes, forgotten keys, runs that take longer than 15 minutes

VARIABLES
  rows,       \* social_publication_outbox
  due,        \* rows whose next_attempt_at has come, in the order of these times
  old,        \* PROCESSING rows claimed more than 15 minutes ago
  published,  \* content_hash of the social_publications row of an event
  files,      \* events whose picture is on disk
  text,       \* what a post about a resource would say now
  exists,     \* areas and polygons in the database
  policy,     \* approval_mode, or OFF
  made,       \* texts of the statuses Mastodon has made of an event
  kept,       \* events whose idempotency key Mastodon still remembers
  echoed,     \* events it was asked to post with a text, and answered with one of another
  rehearsed,  \* events whose social_publications row is one of a dry run
  cleared,    \* events that need no approval, or have been approved
  m,          \* the variables of each publisher's run
  outside, faults

store == <<rows, due, old, published, files>>
posts == <<made, kept, echoed, rehearsed>>
world == <<text, exists, policy, posts, cleared>>
vars  == <<store, world, m, outside, faults>>

Waiting   == {"PENDING", "PENDING_APPROVAL"}
Statuses  == Waiting \cup {"PROCESSING", "PUBLISHED", "FAILED", "CANCELLED", "DRY_RUN"}
Object    == [manual : BOOLEAN, tries : Nat, shot : BOOLEAN, media : BOOLEAN]
Row       == [status : Statuses, manual : BOOLEAN, tries : Nat, shot : BOOLEAN, media : BOOLEAN]
Modes     == {"AUTOMATIC", "MANUAL", "DRY_RUN", "OFF"}
Resources == {Resource[e] : e \in Events}
Rows      == {e \in Events : rows[e] # NoRow}
Of(r)     == {e \in Rows : Resource[e] = r}

(* render_area_post and the others: what a post about the resource would say now *)
Says(r) == text[r]

(* A failure of the picture or of Mastodon may pass, or it will not. *)
Failures == {"passes", "lasts"}

Unused(r) == {e \in Events \ Rows : Resource[e] = r}

ASSUME BoundAssumption == Limit \in Nat /\ MaxAttempts \in Nat
ASSUME NullAssumption  == NoRow \notin Object \cup Row

(* uq_social_outbox_pending_resource *)
Unique(R) == \A e, f \in Events :
  (e # f /\ Resource[e] = Resource[f] /\ R[e] # NoRow /\ R[f] # NoRow)
    => ~(R[e].status \in Waiting /\ R[f].status \in Waiting)

-----------------------------------------------------------------------------
(* Mutants.  Copy: the status tells what needs approval.  Hash: of what a post would *)
(* say by now.  Mergeable: rows that wait for approval take nothing in.  Stale: rows *)
(* that hang are left to hang.                                                       *)
CopyByStatus(row) == [manual |-> row.status = "PENDING_APPROVAL", tries |-> row.tries,
                      shot |-> row.shot, media |-> row.media]
HashNow(w) == Says(Resource[m[w].event])
MergeablePending(r) == {e \in Of(r) : rows[e].status = "PENDING"}
StaleUnseen == {}

(* Old rows that still hang *)
Processing(S, R) == {e \in S : R[e].status = "PROCESSING"}

(* Nobody has flushed the row in a transaction that is still open. *)
Free(e) == \A w \in Publishers : ~(m[w].locks /\ m[w].event = e)

Idle == [at |-> "idle", left |-> Limit, event |-> Nobody, text |-> NoText, dry |-> FALSE, fresh |-> FALSE,
         payload |-> FALSE, locks |-> FALSE, result |-> "none", stale |-> {},
         seen |-> [e \in Events |-> NoRow]]

(* What the object in a publisher's memory says *)
Mine(w) == m[w].seen[m[w].event]

(* mastodon_idempotency_key: a hash of the event's id, whatever the attempt *)
Key(w) == m[w].event

(* content_hash of what the run has rendered *)
Hash(w) == m[w].text

(* The publication_outbox row as the publisher's commit leaves it: attributes it *)
(* has not changed are not written.                                              *)
Written(w, status, shot) ==
  LET e == m[w].event IN
  [rows[e] EXCEPT !.status = status,
                  !.manual = IF m[w].payload THEN Mine(w).manual ELSE @,
                  !.shot = shot,
                  !.media = @ \/ Mine(w).media]

(* The row that takes a further change of its resource in *)
Mergeable(r) == {e \in Of(r) : rows[e].status \in Waiting}

(* Only these a deleted polygon's publications can be cancelled in. *)
Cancellable == Waiting \cup {"PROCESSING", "FAILED"}

(* A new outbox row: enqueue_* *)
Enqueue(e) ==
  /\ rows' = [rows EXCEPT ![e] =
       [status |-> IF policy = "MANUAL" THEN "PENDING_APPROVAL" ELSE "PENDING",
        manual |-> policy = "MANUAL", tries |-> 0, shot |-> FALSE, media |-> FALSE]]
  /\ cleared' = IF policy = "MANUAL" THEN cleared ELSE cleared \cup {e}

(* Rows by the order of their times *)
IsDue(e) == \E i \in DOMAIN due : due[i] = e
Earlier(e, f) == \E i, j \in DOMAIN due : i < j /\ due[i] = e /\ due[j] = f
Orders(S)  == {q \in [1..Cardinality(S) -> S] : {q[i] : i \in DOMAIN q} = S}
Without(S) == {q \in Orders({e \in Events \ S : IsDue(e)}) :
                 \A i, j \in DOMAIN q : i < j => Earlier(q[i], q[j])}
Back(S)    == {p \o q : p \in Without(S), q \in Orders(S)}

(* The object a session makes of a row *)
Copy(row) == [manual |-> row.manual, tries |-> row.tries, shot |-> row.shot, media |-> row.media]

(* The session still refers to an object of the row: from the rows that hung, or the *)
(* last one it handled.                                                               *)
Remembers(w, e) == m[w].seen[e] # NoRow

(* The publisher's flush does not wait for another transaction. *)
CanWrite(w) == m[w].locks \/ Free(m[w].event)

(* Where a row goes that is to be tried again *)
Requeued(mine) == IF mine.manual THEN "PENDING_APPROVAL" ELSE "PENDING"

(* screenshot_path is written if this attempt has taken the picture. *)
Shown(w) == m[w].fresh \/ rows[m[w].event].shot

(* The run goes on with the next event and keeps the object of this one. *)
After(w, mine) == [m[w] EXCEPT !.at = "claiming", !.event = Nobody, !.text = NoText,
  !.fresh = FALSE, !.payload = FALSE, !.locks = FALSE, !.result = "none",
  !.seen[m[w].event] = mine]

Outside == outside < MaxOutside /\ outside' = outside + 1

Init ==
  /\ rows = [e \in Events |-> NoRow] /\ due = <<>> /\ old = {}
  /\ published = [e \in Events |-> NoText] /\ files = {}
  /\ text \in [Resources -> Texts] /\ exists \in SUBSET (Resources \ {Polygon})
  /\ policy \in Modes
  /\ made = [e \in Events |-> {}] /\ kept = {} /\ echoed = {} /\ rehearsed = {} /\ cleared = {}
  /\ m \in [Publishers -> {Idle, [Idle EXCEPT !.at = "off"]}]
  /\ outside = 0 /\ faults = 0

-----------------------------------------------------------------------------
(* Areas, the polygon and the settings *)

(* enqueue_area_publication and enqueue_statistics_summary, with the change itself: a *)
(* waiting row takes the change in and starts its debounce time again.                *)
SaveArea(r) ==
  /\ r \in exists \ {Polygon} /\ Outside
  /\ \E t \in Texts : text' = [text EXCEPT ![r] = t]
  /\ IF policy = "OFF" THEN UNCHANGED <<rows, due, cleared>>
     ELSE LET waiting == Mergeable(r) IN
       \/ /\ waiting # {} /\ \A e \in waiting : Free(e)
          /\ due' \in Without(waiting)
          /\ UNCHANGED <<rows, cleared>>
       \/ /\ waiting = {}
          /\ Unused(r) # {} /\ Enqueue(CHOOSE e \in Unused(r) : TRUE)
          /\ UNCHANGED due
  /\ UNCHANGED <<old, published, files, exists, policy, posts, m, faults>>

(* create_polygon_from_osm: the polygon and its one event are written together. *)
Adopt ==
  /\ Polygon \notin exists /\ Of(Polygon) = {} /\ Outside
  /\ exists' = exists \cup {Polygon}
  /\ IF policy = "OFF" THEN UNCHANGED <<rows, cleared>>
     ELSE Enqueue(CHOOSE e \in Unused(Polygon) : TRUE)
  /\ UNCHANGED <<due, old, published, files, text, policy, posts, m, faults>>

(* cancel_pending_polygon_publications, part of the transaction of its caller *)
CancelPublications ==
  LET gone == {e \in Of(Polygon) : rows[e].status \in Cancellable} IN
  /\ \A e \in Of(Polygon) : Free(e)
  /\ rows' = [e \in Events |-> IF e \in gone
                THEN [rows[e] EXCEPT !.status = "CANCELLED", !.shot = FALSE] ELSE rows[e]]
  /\ files' = files \ {e \in gone : rows[e].shot}
  /\ old' = old \ gone
  /\ UNCHANGED <<due, published>>

(* update_social_settings *)
SetPolicy(p) ==
  /\ p # policy /\ Outside
  /\ policy' = p
  /\ UNCHANGED <<store, text, exists, posts, cleared, m, faults>>

-----------------------------------------------------------------------------
(* Administrators *)

(* _publication_actions: why a waiting publication may not be approved now *)
Blocked == policy \in {"OFF", "DRY_RUN"}

Decided(e, status) ==
  /\ e \in Rows /\ Free(e) /\ rows[e].status \in status /\ Outside
  /\ UNCHANGED <<old, published, text, exists, policy, posts, m, faults>>

Approve(e) ==
  /\ Decided(e, {"PENDING_APPROVAL"}) /\ ~Blocked
  /\ rows' = [rows EXCEPT ![e].status = "PENDING", ![e].manual = FALSE]
  /\ due' \in Back({e}) /\ cleared' = cleared \cup {e}
  /\ UNCHANGED files

Retry(e) ==
  /\ Decided(e, {"FAILED"})
  /\ Unique([rows EXCEPT ![e].status = "PENDING"])   \* otherwise the commit fails
  /\ rows' = [rows EXCEPT ![e].status = "PENDING", ![e].tries = 0]
  /\ due' \in Back({e})
  /\ UNCHANGED <<files, cleared>>

Cancel(e) ==
  /\ Decided(e, Waiting \cup {"FAILED"})
  /\ rows' = [rows EXCEPT ![e].status = "CANCELLED", ![e].shot = FALSE]
  /\ files' = IF rows[e].shot THEN files \ {e} ELSE files
  /\ UNCHANGED <<due, cleared>>

Administer(e) == Approve(e) \/ Retry(e) \/ Cancel(e)

-----------------------------------------------------------------------------
(* publish_due_events *)

Away == UNCHANGED <<world, outside, faults>>   \* what most of a run leaves alone

(* The rows whose run is taken for dead *)
Stale == old

(* The run reads its settings and, without a lock, the rows that hang. *)
Begin(w) ==
  /\ m[w].at = "idle" /\ policy # "OFF"
  /\ m' = [m EXCEPT ![w] =
       [Idle EXCEPT !.at = IF Stale = {} THEN "claiming" ELSE "recovering",
                    !.dry = policy = "DRY_RUN", !.stale = Stale,
                    !.seen = [e \in Events |-> IF e \in Stale THEN Copy(rows[e]) ELSE NoRow]]]
  /\ UNCHANGED store /\ Away

(* The commit of a run: the unique index may refuse it, and the run ends there. *)
Commit(w, new, after) ==
  IF Unique(new)
  THEN rows' = new /\ old' = Processing(old, new) /\ m' = [m EXCEPT ![w] = after]
  ELSE UNCHANGED <<rows, old>> /\ m' = [m EXCEPT ![w] = Idle]

Recover(w) ==
  LET stale == m[w].stale
      new == [e \in Events |-> IF e \in stale
                THEN [rows[e] EXCEPT !.status = Requeued(m[w].seen[e])] ELSE rows[e]]
  IN
  /\ m[w].at = "recovering" /\ \A e \in stale : Free(e)
  /\ Commit(w, new, [m[w] EXCEPT !.at = "claiming"])
  /\ IF Unique(new) THEN due' \in Back(stale) ELSE due' = due
  /\ UNCHANGED <<published, files>> /\ Away

Claimable(e) ==
  /\ e \in Rows /\ IsDue(e) /\ Free(e)
  /\ \/ rows[e].status = "PENDING"
     \/ rows[e].status = "PENDING_APPROVAL" /\ ~rows[e].shot

(* ORDER BY next_attempt_at *)
First(e) == Claimable(e) /\ \A i, j \in DOMAIN due :
  (due[i] = e /\ j < i) => ~Claimable(due[j])

(* FOR UPDATE SKIP LOCKED finds the row, the session its own object of it. *)
Claim(w, e) ==
  LET found == IF Remembers(w, e) THEN m[w].seen[e] ELSE Copy(rows[e])
      mine  == [found EXCEPT !.tries = @ + 1]
  IN
  /\ m[w].at = "claiming" /\ m[w].left > 0 /\ First(e)
  /\ rows' = [rows EXCEPT ![e].status = "PROCESSING", ![e].tries = mine.tries]
  /\ old' = old \ {e}
  /\ m' = [m EXCEPT ![w].at = "rendering", ![w].event = e, ![w].left = @ - 1,
             ![w].seen =
             [f \in Events |-> IF f = e THEN mine
                               ELSE IF f \in m[w].stale THEN @[f] ELSE NoRow]]
  /\ UNCHANGED <<due, published, files>> /\ Away

(* Nothing is due, or the limit of the run is reached. *)
Done(w) ==
  /\ m[w].at = "claiming"
  /\ m[w].left = 0 \/ \A e \in Events : ~Claimable(e)
  /\ m' = [m EXCEPT ![w] = Idle]
  /\ UNCHANGED store /\ Away

(* _event_context.  The snapshot of a polygon goes into the payload, and the next query *)
(* flushes it if it differs from the one there, with the rest of the payload.            *)
Render(w) ==
  LET r == Resource[m[w].event] IN
  /\ m[w].at = "rendering" /\ r \in exists
  /\ \E changed \in BOOLEAN :
       /\ changed => r = Polygon /\ CanWrite(w)
       /\ m' = [m EXCEPT ![w].at = IF Mine(w).shot THEN "captured" ELSE "capturing",
                         ![w].text = Says(r), ![w].payload = changed, ![w].locks = changed]
  /\ UNCHANGED store /\ Away

(* PublicationResourceGone *)
Gone(w) ==
  /\ m[w].at = "rendering" /\ Resource[m[w].event] \notin exists /\ CanWrite(w)
  /\ Commit(w, [rows EXCEPT ![m[w].event] =
       Written(w, "CANCELLED", rows[m[w].event].shot /\ ~Mine(w).shot)],
       After(w, [Mine(w) EXCEPT !.shot = FALSE]))
  /\ files' = IF Mine(w).shot THEN files \ {m[w].event} ELSE files
  /\ UNCHANGED <<due, published>> /\ Away

(* ScreenshotService.capture *)
Capture(w) ==
  /\ m[w].at = "capturing"
  /\ files' = files \cup {m[w].event}
  /\ m' = [m EXCEPT ![w].at = "captured", ![w].fresh = TRUE,
                    ![w].seen[m[w].event].shot = TRUE]
  /\ UNCHANGED <<rows, due, old, published>> /\ Away

(* The publication goes to the administrators. *)
Prepared(w) ==
  /\ m[w].at = "captured" /\ Mine(w).manual /\ CanWrite(w)
  /\ Commit(w, [rows EXCEPT ![m[w].event] =
       Written(w, "PENDING_APPROVAL", Shown(w))], After(w, Mine(w)))
  /\ UNCHANGED <<due, published, files>> /\ Away

(* A publication that says the same of the same thing: nothing is posted.  The query *)
(* flushes what has changed, and so locks the row until the next commit; a new       *)
(* picture is a change, a text the row had before is none.                           *)
Compare(w) ==
  LET duplicate == \E f \in Of(Resource[m[w].event]) : published[f] = Hash(w) IN
  /\ m[w].at = "captured" /\ ~Mine(w).manual
  /\ \E changed \in BOOLEAN :
       /\ m[w].fresh => changed
       /\ changed => CanWrite(w)
       /\ m' = [m EXCEPT ![w].locks = @ \/ changed,
            ![w].result = IF duplicate THEN "duplicate" ELSE IF m[w].dry THEN "dry" ELSE "posted",
            ![w].at = IF duplicate \/ m[w].dry THEN "tidying"
                      ELSE IF Mine(w).media THEN "posting" ELSE "uploading"]
  /\ UNCHANGED store /\ Away

Upload(w) ==
  /\ m[w].at = "uploading" /\ m[w].event \in files
  /\ m' = [m EXCEPT ![w].at = "posting", ![w].seen[m[w].event].media = TRUE]
  /\ UNCHANGED store /\ Away

(* FileNotFoundError is not among the errors a run survives. *)
PictureLost(w) ==
  /\ m[w].at = "uploading" /\ m[w].event \notin files
  /\ m' = [m EXCEPT ![w] = Idle]
  /\ UNCHANGED store /\ Away

(* MastodonClient.create_status: Mastodon acts; the answer may still be lost.  To a key *)
(* it remembers it answers with the status there is, whatever the text.                 *)
Post(w) ==
  LET e == Key(w) IN
  /\ m[w].at = "posting"
  /\ IF e \in kept
     THEN /\ echoed' = IF m[w].text \in made[e] THEN echoed ELSE echoed \cup {e}
          /\ UNCHANGED made
     ELSE made' = [made EXCEPT ![e] = @ \cup {m[w].text}] /\ UNCHANGED echoed
  /\ kept' = kept \cup {e}
  /\ m' = [m EXCEPT ![w].at = "posted"]
  /\ UNCHANGED <<store, text, exists, policy, rehearsed, cleared, outside, faults>>

(* Mastodon remembers a key for a while only. *)
Forget(e) ==
  /\ e \in kept /\ faults < MaxFaults
  /\ kept' = kept \ {e}
  /\ faults' = faults + 1
  /\ UNCHANGED <<store, text, exists, policy, made, echoed, rehearsed, cleared, m, outside>>

(* The picture goes before the commit. *)
Tidy(w) ==
  /\ m[w].at \in {"posted", "tidying"}
  /\ files' = files \ {m[w].event}
  /\ m' = [m EXCEPT ![w].at = "committing"]
  /\ UNCHANGED <<rows, due, old, published>> /\ Away

(* uq_social_publication_content and the unique outbox_event_id may refuse the commit. *)
Refused(w) ==
  /\ m[w].result # "duplicate"
  /\ \/ published[m[w].event] # NoText
     \/ \E f \in Of(Resource[m[w].event]) : published[f] = Hash(w)

Finish(w) ==
  LET e == m[w].event IN
  /\ m[w].at = "committing" /\ CanWrite(w)
  /\ IF Refused(w) THEN m' = [m EXCEPT ![w] = Idle] /\ UNCHANGED <<rows, old, published, rehearsed>>
     ELSE /\ Commit(w, [rows EXCEPT ![e] = Written(w,
               IF m[w].result = "dry" THEN "DRY_RUN" ELSE "PUBLISHED", FALSE)],
               After(w, [Mine(w) EXCEPT !.shot = FALSE]))
          /\ published' = IF m[w].result = "duplicate" THEN published
                          ELSE [published EXCEPT ![e] = Hash(w)]
          /\ rehearsed' = IF m[w].result = "dry" THEN rehearsed \cup {e} ELSE rehearsed
  /\ UNCHANGED <<due, files, text, exists, policy, made, kept, echoed, cleared, outside, faults>>

Exhausted(w) == Mine(w).tries >= MaxAttempts

(* MastodonError or ScreenshotError *)
Fail(w, retryable) ==
  LET e == m[w].event
      status == IF retryable /\ ~Exhausted(w) THEN Requeued(Mine(w)) ELSE "FAILED"
  IN
  /\ m[w].at \in {"rendering", "capturing", "uploading", "posting", "posted"} /\ CanWrite(w)
  /\ m[w].at = "posted" => retryable
  /\ Commit(w, [rows EXCEPT ![e] = Written(w, status, Shown(w))], After(w, Mine(w)))
  /\ IF Unique([rows EXCEPT ![e].status = status]) THEN due' \in Without({e}) ELSE due' = due
  /\ UNCHANGED <<published, files>> /\ Away

Crash(w) ==
  /\ m[w].at \notin {"idle", "off"} /\ faults < MaxFaults
  /\ m' = [m EXCEPT ![w] = Idle]
  /\ faults' = faults + 1
  /\ UNCHANGED <<store, world, outside>>

Publish(w) ==
  \/ Begin(w) \/ Recover(w) \/ Done(w) \/ \E e \in Events : Claim(w, e)
  \/ Render(w) \/ Gone(w) \/ Capture(w) \/ Prepared(w) \/ Compare(w)
  \/ Upload(w) \/ PictureLost(w) \/ Post(w) \/ Tidy(w) \/ Finish(w)
  \/ \E failure \in Failures : Fail(w, failure = "passes")

-----------------------------------------------------------------------------
(* Time *)
FallsDue(e) ==
  /\ e \in Rows /\ ~IsDue(e) /\ rows[e].status \in Waiting
  /\ due' = Append(due, e)
  /\ UNCHANGED <<rows, old, published, files, m>> /\ Away

(* 15 minutes after the claim.  That its run is still at it is a fault. *)
GrowsOld(e) ==
  LET slow == \E w \in Publishers : m[w].event = e IN
  /\ e \in Rows \ old /\ rows[e].status = "PROCESSING"
  /\ slow => faults < MaxFaults
  /\ faults' = IF slow THEN faults + 1 ELSE faults
  /\ old' = old \cup {e}
  /\ UNCHANGED <<rows, due, published, files, m, world, outside>>

Aside(e) == FallsDue(e) \/ GrowsOld(e)

(* What waits for nothing but an administrator *)
Settled(e) == e \in Rows =>
  \/ rows[e].status \in {"PUBLISHED", "FAILED", "CANCELLED", "DRY_RUN"}
  \/ rows[e].status = "PENDING_APPROVAL" /\ rows[e].shot

(* What can keep a publication from ever being settled.  Jam: a row that hangs may not *)
(* be given back because its resource has a newer one, and every run dies of it.  Lost: *)
(* the picture was removed by a run whose commit never came.  Taken: the event has its  *)
(* publication already, of another text.                                                *)
Jam     == ~Unique([e \in Events |-> IF e \in old THEN [rows[e] EXCEPT !.status = "PENDING"]
                                                  ELSE rows[e]])
Lost(e) == e \in Rows /\ rows[e].shot /\ ~rows[e].media /\ e \notin files
Taken(e) == published[e] # NoText

TypeOK ==
  /\ \A e \in Rows : /\ rows[e].status \in Statuses /\ rows[e].tries \in Nat
                     /\ {rows[e].manual, rows[e].shot, rows[e].media} \subseteq BOOLEAN
  /\ due \in Seq(Events) /\ old \subseteq Events /\ files \subseteq Events
  /\ cleared \cup kept \cup echoed \cup rehearsed \subseteq Events
  /\ made \in [Events -> SUBSET (Texts \cup {NoText})] /\ exists \subseteq Resources /\ policy \in Modes
  /\ published \in [Events -> Texts \cup {NoText}] /\ text \in [Resources -> Texts]
  /\ Unique(rows)

(* What a publication on record says is what Mastodon carries of its event, however often *)
(* answers and commits are lost, keys forgotten, texts changed meanwhile and runs overlap; *)
(* a false record would swallow the next publication of that text (Compare).  Besides dry  *)
(* runs there is one exception: an attempt whose answer was lost, and a later one whose    *)
(* text Mastodon did not take because it still knew the key (echoed).                       *)
RecordsAreTrue == \A e \in Events :
  published[e] # NoText => published[e] \in made[e] \/ e \in rehearsed \/ e \in echoed

(* Nothing is posted that was enqueued for approval and never approved. *)
NothingUnapproved == \A e \in Events : made[e] # {} => e \in cleared

(* Every publication ends, or waits for an administrator, unless publishing is switched *)
(* off or one of the three known obstacles stands in its way.                            *)
PublicationsSettle == \A e \in Events :
  <>[](Settled(e) \/ policy = "OFF" \/ Jam \/ Lost(e) \/ Taken(e))
=============================================================================
