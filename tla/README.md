# TLA+ verification of the Open City Planner ("Stadtplaner")

This directory holds TLA+ models of the concurrent and failure-prone parts of the
Stadtplaner: a FastAPI/SQLAlchemy backend on PostgreSQL with Redis (`backend/`), a
Nuxt frontend (`frontend/`), and one-shot workers that systemd timers start
(`deploy/systemd/`). Every module is translated from the source; line numbers are
in `PROJECT.json` ("map"), hazards and findings too.

## 1. Inventory of the system

| Part | State it keeps | Operations | What is hard | What makes it correct |
|---|---|---|---|---|
| E-mail outbox and campaigns (`services/email_outbox.py`, `admin_email_campaigns.py`) | `email_outbox`, `email_campaign_deliveries`, `email_campaigns`, `users.welcome_email_sent_at` | enqueue, start/cancel campaign, recover, claim, send, finish, refresh counters | several workers, crash after send, stale recovery, unlocked counters, cancel during send | one mail per event unless an acknowledgement is lost; closed events stay closed; exact counters; everything settles |
| Polygon outbox (`services/polygon_outbox.py`) | `polygon_outbox` rows, effects of their handlers | recover, select batch, handle, complete, retry, dead-letter | first commit of the batch releases all its row locks; failed handlers leave effects behind | every event is handled or dead-lettered; attempts are bounded |
| Polygon service and cache versions (`services/polygons.py`, `gis_mutations.py`, `cache_versions.py`) | polygons, idempotency keys, `updated_at`, cache versions in PostgreSQL and in process memory | create, update, delete, read through cache | a row lock and a version check that the page's `updated_at` must feed honestly, cache version raised before commit, memo of the old version | no lost update; one polygon per key; no stale overview after a successful write |
| Social publishing (`services/social_publishing.py`, `admin_social.py`) | `social_publications` | enqueue, approve, cancel, retry, publish, recover | work without lock, commit overwrites what administrators did meanwhile, crash between Mastodon and commit | one post per event; nothing posted without approval or screenshot |
| Refresh sessions (`services/auth_service.py`) | `user_sessions`: token families | login, refresh, logout, revoke all | rotation racing revocation, replays, multi-tab refresh | one live token per family; a family never forks; a family that has ended stays so; a reset password ends them all |
| Verification and reset tokens (`auth_service.py`) | token tables, `users.is_verified` | request, resend, consume | concurrent consumption, stale reads | a token works once; one live reset token |
| Accounts (`account_service.py`, `admin_users.py`) | `users.is_superuser`, `is_active` | demote, deactivate, delete | two administrators at once | there is always an active superuser |
| MFA, passkeys, OAuth, Mastodon sign-in | challenges, methods, linked accounts, grants | begin/verify, link/unlink | replay, last sign-in method | a challenge works once; a way to sign in remains |
| Notifications (`services/notifications.py`, store `notifications.ts`) | notifications, broker queues | create, publish, subscribe, mark read, clean up | bounded queues that drop, publish before commit | the unread count converges |
| Rate limits, contact form (`rate_limit.py`, `contact_service.py`) | Redis counters, used nonces | check, record | window edges, concurrent use | limit is never exceeded |
| OSM import and replication (`osm_import.py`, `scripts/osm/`) | staging and published tables, replication sequence, lock file | import, apply diff, publish, adopt an object | failure between steps, adoptions meanwhile, deadlocks | the site is OpenStreetMap at one moment; one polygon per object; it catches up |
| Wikidata items of areas (`wikidata_enrichment.py`) | areas' items, their match status, drafts | upsert, look up, confirm by hand | slow answers, two runs, tags that change meanwhile | the item belongs to the tags; a confirmation stays |
| Statistics import (`flensburg_statistics_import.py`) | statistics tables, catalogue of mappings | download, compare, upsert | first import by two runs, unchanged files, deadlocks | figures are those of the city |
| Frontend save queue and autosave (`utils/serialSaveQueue.ts`, `usePolygonAutosave.ts`) | pending, active and blocked job | schedule, flush, retry | edits during a save, failures, conflicts | saves are serial; the last edit is saved |
| Frontend session (`utils/authRetry.ts`, `useApi.ts`, `stores/auth.ts`) | session generation, refresh promise | request, refresh, sign out | concurrent 401, sign out during refresh | one refresh in flight; nobody is signed in again by a late answer |
| Frontend viewport, search, map stores (`stores/osmViewport.ts`, `search.ts`) | request generation, loaded bounds | move, fetch, abort | answers out of order | the newest request wins |
| OSM objects of a polygon (`osm_lookup.py`) | kept answers, shared tasks, the turn at Overpass | look up, share, wait, keep, drop | cancelled requests, a polygon that changes while its task runs, rate limit | what is kept is about the polygon's version; Overpass is asked in turns |
| Assistant and the pool of connections (`services/assistant*.py`, `db/session.py`) | connections and locks that requests hold | guard, plan, ask the model, run tools, render | connections held while waiting for a lock | a slow language model keeps no connection; every query ends |
| Avatars (`avatar_service.py`, `api/users.py`) | files and the row that names one | upload, remove, delete the account | no transaction covers the files | the row names a file that is there |
| Search by words (`search_*.py`) | none across requests | interpret, query | - | not modelled: text and SQL |
| Statistics, analytics and area API, geocoding, previews, templates | imported data | read | no state of their own | not modelled: data transformation |
| Pages, components, deployment, CI | - | - | - | not modelled: rendering and configuration |

The parts interact through the database and through calls after commit: the
polygon service writes polygon outbox events in its own transaction; the polygon
outbox enriches polygons, creates notifications and social publications and cancels
them; notifications enqueue e-mails; e-mail verification enqueues the welcome mail
and tries it at once; the frontend autosave calls the polygon service with the
`updated_at` it last saw, through the API client that refreshes the session.

Common ground of the backend models: PostgreSQL at READ COMMITTED (each statement
sees what is committed when it starts); SQLAlchemy sessions with
`expire_on_commit=False` (`backend/app/db/session.py:27`), where a loaded object keeps
its attributes until a rollback, `SELECT ... FOR UPDATE` without `populate_existing`
takes the lock but does not refresh a loaded object, and a flush writes the changed
attributes by primary key, unconditionally.

## 2. `EmailOutbox` - e-mail outbox and campaigns

*State.* One status per outbox row (`outbox`, with `NONE` before the insert and
`DELETED` after a cascade), `attempts` (attempt_count), `overdue` (processing_started_at
older than 15 minutes), the delivery rows, one campaign row with its three counters,
`welcomed` (users with welcome_email_sent_at), and for each worker its position `pc`, its
event `job`, what it has read and not yet written (`seen`, `known`, `view`, `tally`,
`fate`). `cancelling` and `revoked` are an administrator's open transaction: the campaign row
it holds and the deliveries it has cancelled and not committed. `mails`, `lost` and `mishaps` are history.

*Actions.* `RecoverRead`/`RecoverWrite`/`RecoverFails` are the unlocked read and the
overwriting commit at the start of `process_due_email_outbox`; `Claim` is `_claim_event`;
`LockEvent` ... `Commit` are the statements of `_finish_event`, `_send_event` and
`_refresh_campaign_counts`; `Enqueue`, `StartCampaign`, `DeleteUser`, `DeleteNotification` are the producers and
administrators; `CancelDeliveries` and `CancelCampaign` are the two UPDATEs of
`cancel_campaign`, between which workers read and commit at READ COMMITTED, and `CancelFails`
its rollback; `LeaseExpires` and `Crash` are time and the operating system. Row locks are
derived from the positions of the workers and the cancellation: a worker's commit waits for the
campaign row only if it changes it (`Differs`), which a temporary failure does not. The
status guard of `_finish_event` is absent on purpose: the object it tests was loaded by
the claim and is not refreshed, so it can only notice a missing row.

*Abstractions.* A claim is atomic, and so is each UPDATE (the module's head comment says why), due
times are nondeterministic, the limit of a run may strike at any time, the filters that
select recipients are an arbitrary set. Audit rows, rendering and unsubscribe tokens are
left out. `Holders` are OAuth requests whose caller keeps the User object loaded, for
which the look at welcome_email_sent_at may be old.

*Runs.* `email_campaign`: as deployed, one periodic worker (a oneshot service that the
timer does not start twice), two recipients, one mishap, under fairness: one mail per
lost acknowledgement plus one, delivery rows follow the outbox (with recovery and the gap
between the two UPDATEs of a cancellation as the exceptions `DeliveryMirrorsOutbox` names),
closed events stay closed,
counters of a COMPLETED campaign are exact, events and campaign settle.
`email_welcome`: two periodic workers and a request with attempts that outlast their
15 minutes, and one mishap: the welcome mail is protected by the user row lock all the
same. `email_cancel` shows a disagreement with what the administrator is told: a delivery
being attempted during the cancellation returns to PENDING after a temporary error and is
sent by the next run. If that error is committed between the two UPDATEs, the second still
cancels the event, and its delivery is left PENDING with nothing to send it.
Two more disagreements with documents follow from the same steps and have no run of their
own: a crash between acceptance and commit sends a notification twice
(`docs/email-templates.md:84` says at most once; the invariants count such mails in
`lost`), and recovery does not compare attempt_count with the configured maximum
(`docs/email-templates.md:94`), so each crash adds an attempt.

*Bounds.* Two events of a campaign are enough for "another delivery is still open", three
workers for two that race and one that recovers; `MaxMishaps` bounds crashes, lost
answers and rolled back cancellations, `MaxClaims` claims of an event (never reached in `email_campaign`, where an
attempt cannot outlast its live worker: MaxAttempts + MaxMishaps claims suffice; in
`email_welcome` two claims are what it takes for two workers to hold one event).

*Fairness.* A worker that runs goes on (weak), the timer starts the command again (weak,
part of `Sweep`), the mail server answers (weak: the code sets no SMTP timeout, so this is
an assumption about the network), time passes (weak), and a PENDING event is sooner or
later due when a run looks (strong, because runs look again and again but in between
nothing is claimable). A cancellation that has begun goes on (weak), and a commit that waits for
the campaign row gets it although an administrator may cancel again and again (strong:
PostgreSQL queues those who wait for a row). Crashes, administrators and producers are not fair.

*Proved* (`EmailOutboxProofs`, for any sets of accounts, events, workers and any bounds).
For any number of workers:

- `TypeCorrect`: types, with `Placed` (a worker's position agrees with its event and its
  outcome), which the types of the commit need.
- `WelcomeMailedOnce`: inductive with `UserMutex` (one worker holds a user's row),
  `FirstMail` (between the look and the commit the user is not marked) and `Counted` (mails
  exceed lost acknowledgements by one only if a mail is recorded or about to be).
- `SentIsAccepted`: inductive with `Evidence` (who writes SENT has sent, or has seen the mark
  that only a sender sets; this needs the unique key of the welcome event).

With one periodic command (`OneCommand`: the unit is `Type=oneshot`, so the timer does not
start it twice), beside any number of requests that try a welcome mail:

- `MailedOnce` and `ClosedForGood`: every event is mailed at most once more than there are
  acceptances no commit recorded, and no step reopens a closed one or mails it again. They rest
  on `Claims`: nobody else has the event of a worker, the recovery has not listed it, and
  while its row is locked it is `PROCESSING`. That holds for the events called
  `Exclusive`: all, if no request outlasts its 15 minutes while it lives, or those that are
  no welcome mails. The theorems assume the former (`LiveOverrun => Requests = {}`); it is an
  assumption about SMTP, for which the code sets no timeout, and `email_welcome` runs without it.
- `DeliveriesFollow` and `CountersAreExact`: campaign events are never handled by requests, so
  `Claims` holds for them without that assumption. `Fresh` says that a draft has no events and
  no counts, `Counters` that the worker about to commit knows the row's counters, and that its
  tally, if it found nothing open, is the one its commit leaves: nobody else closes a
  delivery meanwhile, and a cancellation leaves closed ones alone. `Revoked` says that nobody
  has claimed what an open cancellation has changed, `LeftOver` that a delivery it misses belongs
  to a CANCELLED campaign, which only a count without open deliveries could leave. `OpenCount` and
  `CountOfType` are the facts about counting that this needs.

Only liveness is left to TLC.
## 3. `SerialSaveQueue`, `LatestSave` - forms that save themselves

*State.* `pending`, `snapshot` (the patch of the last request) and `flags` (which of
active, blocked and scheduled are true) are the queue's closure variables in
`utils/serialSaveQueue.ts`; `shown` is the state last reported to the page, `leaving` a
navigation that waits in `flush`, `form` and `server` the values on both sides, `wish` the
history of what the user entered. `caller` says which of the two forms the queue serves:
the notification preferences, where an answer replaces the form, or the social settings,
where leaving the page retries once and flushes.

*Actions.* One per JavaScript handler: `Edit` (enqueue and schedule), `Drain` (the
microtask up to the request), `Succeed` and `Fail` (the rest of drain, with notifyIdle and
the next schedule), `Retry`, `Leave`. A request that fails was carried out or not; a
failed request that the server carries out later is not modelled.

*Abstraction.* `LatestSave` is what such a form promises whatever the mechanism: one
request at a time, with the latest value of every field the server may not have. The queue
implements it with `sending` mapped to the snapshot while active.

*Run.* `save_queue`: both forms, three fields of two values. One field cannot show that
merging keeps the others, the third gives a field that no request mentions. Deadlock is
not checked because a page that was left stops. *Fairness:* microtasks run and requests
end (the browser's own time limit ends them); nobody has to edit, retry or leave.

*Proved* (`SerialSaveQueueProofs`, any fields and values): all four invariants and the
refinement. `NothingForgotten` needs `RequestCurrent` (a request under way carries the
latest value unless a newer one waits), the refinement `RequestNotEmpty`; the two honesty
invariants need `Told` (what the page was told agrees with the flags). Liveness is left to
TLC.

## 4. `PolygonEditing` - a page that saves itself against optimistic locking

*State.* The row with the values somebody else may change; on the page `pending`, `failed`
(failedJob), `job` (the changes of the request under way), `phase` (where flush stands),
`timer`, `status`, and `known`: what has happened to the row since the version in
`updatedAt`. The code compares versions only for equality, so a version is represented by
the set of those who changed the row since (`SameVersion(known)` == nobody did); `reply`
is the same for the version in an answer under way. `base` is the stored value the page
last received for each field.

*Actions.* `Mount`, `Edit` (schedule), `Fire` (the timer calls flush), `Retry`, `Saved`,
`Refreshed`, `Rejected`, `Fail`, `Reload` are the page; `Update` is the endpoint from its
version check to its commit, atomic because get_polygon(for_update) holds the row lock all
the while; `Reread` is the refresh after the commit from which the answer is made;
`OtherEdits` is the same endpoint used by others, `Enrich` a write of the polygon outbox
worker, which touches updated_at but no field of the page.

*Abstractions.* A field belongs to the public or to the management endpoint; a public
answer has all public fields, a management answer all the others. The fetch after saving a
geometry is one step with the delivery of its answer. Not modelled: deletion by others,
failed requests the server carries out later, the text in the form while somebody types,
two tabs of one person (they are "others"), leaving the page.

*Runs.* `editing_all`: everything at once on a page with the geometry and a management
field. `editing_together`: no save overwrites what the person was not shown, on a page
whose fields are all of one kind and are not the geometry. `editing_refreshed` shows why
not in general: after saving a geometry the page takes the version of a newer polygon but
not all its fields. (The same comes from Reread: the answer to a management save can carry
the version of a later change of a public field, `polygons.py:513`; and from the version
taken at mount.) `editing_failure` shows that a change typed after a failed save makes the
failed one disappear while the page says "Gespeichert"; `OnlyDroppedIsLost` in
`editing_all` says that this slot, overwritten by an edit or by the end of another
request, is the only leak.
A person whose geometry the worker enriches meanwhile is refused as if another person had
changed the polygon; the model has it (`Enrich`, `Rejected`), without a property.

*Bounds.* Two values, two fields (one of each kind, or two public ones), one enrichment
write, any number of edits, failures and other editors (the state is finite without
bounds). *Fairness:* timers fire, requests end; nobody has to edit, retry or reload.

*Proved* (`PolygonEditingProofs`, any fields, values, editors): `TypeCorrect`;
`WaitingStaysNewest` (with `Newest`: the job under way and the failed job are newest too
where nothing waits); `LossIsDropping` (with `Kept`: every change the server lacks is
pending, under way, failed or dropped; it rests on `Newest`, without which storing an old
job could count as storing the new value); `NoLostUpdate` under `SimplePage` (with
`Received`: while nobody changed the row since the known version, the page has received
every stored value); `NobodyIsStranded` (with `Attended`: nothing waits before the page has a
version): whatever fails, what waits has a timer, a request or a retry. Liveness is left to
TLC. One loss is outside all of this: whoever leaves the page before the timer (700 ms) fires
loses what waits, because unmounting clears the timer (`usePolygonAutosave.ts:86`).

## 5. `RefreshSessions` - the refresh tokens of an account

`RefreshSessions.tla` models the rows of `user_sessions` of one account and the
transactions on them in `services/auth_service.py`, `admin_users.py`,
`account_service.py` and `mfa_service.py`.

| Model | Code |
|---|---|
| `family`, `replaced`, `revoked`, `expired` | `family_id`, `replaced_by_jti` (with `rotated_at`), `revoked_at`, `expires_at` |
| `old` | the rows whose `rotated_at` is longer ago than `refresh_token_reuse_grace_seconds` |
| `active` | `users.is_active` |
| `token[r]` | the row request `r` has locked with `SELECT ... FOR UPDATE` |
| `doomed[r]` | the rows the revoking UPDATE of `r` found when it started |
| `pc[r]` | where `r` stands; it also says which lock on the `users` row `r` holds |

The database matters here, and the model states what it takes from PostgreSQL at
READ COMMITTED, the application's isolation level:

- A refresh holds its token's row from its SELECT to its end (`Free`, `Ends`).
- A bulk UPDATE finds the rows that are live when the statement starts (`Begin`),
  waits for those another transaction holds (`Waits`), and skips those that have
  been revoked when it gets them. It does not see rows inserted after it
  started. That is why signing out while another tab refreshes may leave the
  successor alive. The model takes the rows of one UPDATE together at its end,
  where PostgreSQL takes them one at a time; two such UPDATEs that lock each
  other's rows end with one rolled back, which is `Abort`.
- `reset_password` and `deactivate_own_account` hold the `users` row
  `FOR UPDATE` (`UserLocked`), and an insert into `user_sessions` or
  `admin_audit_logs` has to wait for it, because of the foreign key. An
  UPDATE of `users` (`UserUpdated`) shuts out another UPDATE, not the insert.

`Abort` ends a request at any point and rolls it back. `Stuck` names the two
transactions that wait for each other, the reset that wants a token and the
refresh that holds it and wants the account, and the model's own end, when all
tokens are used; `Fairness` has one of them aborted. Otherwise requests go on,
and a request that waits for a row is served if the row is free again and again
(`SF`): PostgreSQL queues waiters.

The run `refresh_sessions` has two requests at a time, three tokens and two families.
Two requests are enough for every pairwise race; three tokens let a family be
rotated twice, so that a token can be long exchanged while its
successor's successor is live, and let two families exist.

- `OneLivePerFamily` and `NoFork`: concurrent refreshes of a token, in any
  interleaving with revocations, never give a family two tokens that can be
  exchanged or one token two successors.
- `FamilyEndsForGood`: a family with no live token stays that way: not even a
  refresh that read the account as active before its deactivation revives it.
- `ResetEndsAll`: at the commit of a reset or of the closing of the account
  no live token is left. It rests on the lock of the `users` row; the same
  statement about signing out everywhere would be wrong.
- `RequestsEnd`: locks are never waited for in vain.

`RefreshSessionsProofs.tla` proves the safety properties for any number of tokens,
families and requests (see its header for the invariant).

Not modelled: which browser holds which cookie, the frontend's single flight
(`authRetry.ts`), access tokens, deleting the account (its rows go with it).
## 6. `PolygonOutbox`, `SocialPublishing`, `Publishing` - what follows a change

`PolygonOutbox.tla` is `services/polygon_outbox.py` with the three mutations of
`services/polygons.py` that write events. `SocialPublishing.tla` is
`services/social_publishing.py` with `admin_social.py`, the pictures of
`social_screenshots.py` and the Mastodon client. `Publishing.tla` composes them: a
deletion's event, when its run handles it, ends the publications of the polygon in the
event's transaction (`CancelPublications`), while a publisher may be at work on one.

| Model | Code |
|---|---|
| `outbox[e]`, `due`, `old` | `polygon_outbox` rows; those whose `next_attempt_at` has come, in that order; those claimed more than 10 minutes ago |
| `run[w]` | a run's batch, the rows it has locked, `attempt_count` of its objects, whether a polygon it read is changed in memory (`dirty`) |
| `rows[e]` | `social_publication_outbox`: `status`, `approval_required` (`manual`), `attempt_count` (`tries`), a `screenshot_path` (`shot`), a `mastodon_media_id` (`media`) |
| `published[e]` | `content_hash` of the `social_publications` row of an event |
| `files` | events whose picture is on disk |
| `m[w]` | a publisher's run; `seen` are the objects in its session, `locks` that a flush has locked its row, `payload` that it has changed the payload |
| `made[e]`, `kept` | the texts of the statuses Mastodon has made of an event; the events whose idempotency key it still remembers (external) |
| `echoed` | history: events it was asked to post with a text, and answered with an older status of another text, because it knew the key |
| `rehearsed` | history: events whose `social_publications` row was written by a dry run |
| `cleared` | history: events that were enqueued without approval or have been approved |

What is taken from the database and from SQLAlchemy: a commit releases every row lock of
the transaction, so the batch of the polygon outbox is unlocked from its first
commit on and a claimed publication at once; rows are then written by primary key,
unconditionally, with the attributes the object has changed; a query that finds a row
the session still refers to does not refresh the object; a query flushes first, and a
flushed row stays locked until the end of the transaction. `Commit` and `Refused`
are the unique indexes; an `IntegrityError` ends the run.

Mastodon is external: to a key it remembers it answers with the status there is, whatever the
text (`Post`); after a while it forgets the key (`Forget`), and a repeated request makes a second
status. A flush in `Compare` writes, and so locks the row, only where something has changed: a new
picture always is a change, a text may be the one the row had.

Attempts are counted without a limit (`social_publishing.py:536`, `polygon_outbox.py:154`): only a
failure is compared with it, so an attempt that dies is given back by the recovery and counted
again, past the limit. The modules count the same way (`Nat`).

A run that is still at work when its row counts as hanging, a crash, and a key that is forgotten
are faults and bounded (`MaxFaults`, `MaxRunFaults`). Saves, edits and decisions are bounded by
`MaxOutside`. Where a picture stays lost (`Lost` below), every run counts one more attempt for ever;
`Counted` in `MCPublishing` examines behaviours up to the attempt after the last regular one
(`MaxTries` = 3 with two attempts allowed), and those in which a publication would have to go
beyond it are not judged by the liveness properties.

`MCPublishing` splits the instance into four *scenes*, chosen by the initial state, so
that one run stays small: two rows about one area with one publisher; the polygon with
two publishers; the polygon with a publisher and the outbox run that ends its
publications; two mutations with two runs of the outbox. Two attempts and two
rows let every status be reached and one retry follow another; two publishers or runs give
every pairwise race. Where no text changes, rendering one again is no change (`Same`, in the
second and third scene). The run has about 534,000 distinct states.

What the run `publishing` shows:

- `BothTypesOK`: besides the types, one waiting publication for each resource.
- `RecordsAreTrue`: what `social_publications` says was published is what Mastodon carries of
  the event, though texts change, answers and commits are lost, keys are forgotten and runs
  overlap. A false record would do harm later: `Compare` skips a publication whose text is on
  record, so that text would never be posted. Two kinds of records are excepted: those of dry runs,
  and those of an attempt whose text Mastodon did not take (`echoed`): the key is a hash of
  the event's id alone (`mastodon_idempotency_key`), so when an answer is lost, the text changes and the event is tried
  again, Mastodon answers with the first status and the second text is recorded. The run reaches
  both. How many statuses an event has is not claimed: when a commit is lost *and*
  Mastodon has forgotten the key, there are two.
- `NothingUnapproved`: nothing is posted that was enqueued for approval and has not been
  approved, though publishers work with objects from before decisions and recoveries.
- `PublicationsSettle`: every publication ends, or waits for an administrator, unless
  publishing is switched off or one of three obstacles stands in the way, each
  of which the model reaches or names:
  `Jam`: a row that hangs may not be given back, because its resource has a newer waiting
  row; the recovery's commit fails and with it every run from then on.
  `Lost`: the picture was removed for a commit that never came; `FileNotFoundError`
  is not among the errors a run survives. `Taken`: the event has its publication
  already, with another text (not reached in this instance: it takes two overlapping
  publishers and an edit).
- `EventsClose`: every polygon event is completed or dead in the end and stays so. A batch
  that works on unlocked rows may handle an event twice and set a closed one back;
  because its last write closes it, and hanging ones are given back, it still ends.

Fairness: the timers start the programs again and again and a program that runs takes its
next step; time passes (`FallsDue`, `GrowsOld`). Nothing is assumed of administrators,
of answers, or of a step's outcome. systemd starts one publisher at a time (the unit
is oneshot); two publishers at once are an operator starting the program by hand. No unit
starts the polygon outbox; `EventsClose` assumes one.

Met while modelling, and kept in the model: an approved publication may be prepared once
more by a run that remembers the row from before; the text of the statistics summary is constant, so every
later summary counts as published without a post; a dry run's publication counts as a
duplicate of the later real one; a text that Mastodon answered with an older status (`echoed`) is
on record although nobody can read it.

*Proved* (`PublishingProofs`, for any events, resources, texts, publishers, outbox runs and any
bounds that are numbers):

- `PostsAreCleared` states `NothingUnapproved`. The invariant `IInv` says of three places that a
  row which needs no approval belongs to an event that is cleared: of the table
  (`RowsCleared`), of every object a session remembers (`ObjectsCleared`), and of what a
  publisher takes to Mastodon (`PostingCleared`). Objects and rows are copied to each other
  in both directions, at times nobody controls; since `cleared` only grows, each copy keeps all three.
  `Known` (rows are never removed, a publisher's object is a row's) is what makes the copies
  well-typed.
- `PublicationsAreTrue` states `RecordsAreTrue`. The invariant `RecordInv` follows the text from
  Mastodon's answer to the commit, which are three steps of a publisher with everybody else in
  between: `Chosen`, that who goes to Mastodon has decided to post and who did not go records nothing
  or a dry run; `Answered`, that from the answer on the text the publisher holds is one Mastodon carries, or
  it was answered with another. Statuses and exceptions are never taken back, so whatever others do keeps both (`RecordStep`).
- `TypesHold` states `BothTypesOK`. A publisher writes a row from its object, which may be
  older than the row; that both are of their types is part of `IInv`. One waiting publication for each
  resource is kept in three ways: whoever enqueues has looked for a waiting row (`OneWaits`);
  commits and retries ask the unique index (`CommitTypes`, `DecisionTypes`); everything else
  makes no row wait that did not (`NoneWaits`). Of the polygon outbox, `OutboxKnown` says that
  what is due, hangs or is in a batch was written, and that a run with work to do has a batch;
  without it no step would keep `O!TypeOK`. Sequences of due rows are lists of a finite
  set in the order of their times (`Without`, `Back`, `InOrder`), which is all the proof
  needs of them. No bound on the attempts is stated: there is none.

Assumed: limits are numbers (`BoundAssumption`), the absent row and entry are none
(`NullAssumption`, `OutboxAssumption`), and, for `TypesHold`, there are finitely many rows and
entries and a row for the polygon. Only model-checked: liveness.

Not modelled: which event types and fields are enabled, the wording, the notifications
to administrators, the approved alternative text.

## 7. `SignIn`, `AccountTokens`, `OAuthFlow`, `Administration`, `Avatars`, `Accounts` - whose account it is

Five modules, one per group of services, and one that composes them over the rows they
share:

| Module | Code | State of its own |
|---|---|---|
| `SignIn` | `api/auth.py`, `mfa_service.py`, `passkey_service.py`, removal and unlinking | `method`, `codes` (second factor), `keys` (passkeys), `challenge`, `ceremony` |
| `AccountTokens` | sign-up, confirmation and reset in `auth_service.py` | `reset`, `confirmation`, `email`, `verified` |
| `OAuthFlow` | `oauth_*` of `api/auth.py`, `auth/oauth.py`, `mastodon_sso.py`, `oauth_account_service.py` | `cookie`, `grant`, `app` (one instance), `registered` (what the instance has registered, external) |
| `Administration` | `account_service.py`, `admin_users.py`, `require_superuser` | `users`, `manager` |
| `Avatars` | `avatar_service.py`, the picture in `api/users.py`, deletion of the account | `named` (the row's avatar_url), `files` (the directory), `drawn` (names so far), `upload` (requests) |
| `Accounts` | the five together | shared: `active`, `password`, `owner` (linked identities), `users` |

A request is a sequence of statements. `req[r].at` is the place it has reached, `locks`
are the rows it holds `FOR UPDATE`; `Free(x, r)` is the database granting the lock.
What a request has read is in `seen` where it is used after another statement; which open
challenges or reset links a statement locks and then ends is what is in `locks`. A
commit is the last step of a request; the model lets every request end before it
(`Rollback`), which is an error, a process that is killed, and PostgreSQL breaking a
deadlock. Foreign keys are part of it: the audit row of a commit waits for a user's row
that is locked, which is why disabling a second factor and setting one up can wait for each
other.

Codes are pairs (secret, half minute); `Near` is the tolerance of `_matching_counter`,
`last` the `last_used_counter`. Tokens are rows; whoever presents one holds it. What a
signature or a password check finds is a free choice.

`Accounts.FlowSignsIn` is the end of `oauth_callback`: the identity leads to a user, the
grant and the cookie are spent, and the user is asked for the second factor or let in
exactly as after a password. `InTokens` lets a sign-up make the users' row.

`MCAccounts` runs nine scenes (listed in the module), two requests at a time, two
of everything they compete for, three reset tokens: every race is one of two requests, and a
third row lets what is left over from the first two be seen. Two half minutes and a
window of one are the least in which a code of the last half minute is used in this one.
Three names of pictures are one before, one new and one from an overlapping upload. The
scene `flows` also starts without the account. Requests and rows are symmetric; the run has
306,783 distinct states.

What the run `accounts` shows:

- `WorksOnce`, with the types of all the parts (`AccountsTypeOK`): every challenge, ceremony, recovery code, authenticator code, confirmation
  and reset link, and Mastodon grant completes one action, whoever presents it twice and
  when; one challenge and one reset link of an account is good at a time; an enabled
  authenticator is one whose code was shown (the set-up that replaces the secret without
  looking again waits for the user's row, for which a confirmation waits too); the address
  confirmed is the account's; an instance registers the site once.
  Two named exceptions: two completions of one account's address at the same time
  (`raced`: the token does not say which address it went to); an
  application whose credentials were lost with the request (`lost`).
- `WayInRemains`: an account in use keeps a password, a passkey or a linked identity, unless
  two removals overlapped, or the removal of the last passkey counted a second factor,
  which signs nobody in (`passkey_service.py:590-611`). Such an account is not lost if it
  has a confirmed address: the forgotten password gives it a new one.
- `LastAdministratorStays`: two superusers who close their accounts at the same time cannot
  both succeed; an administrator who deactivates another holds no lock while counting
  (`admin_users.py:204`), and where that overlaps another removal the last one may go.
- `PictureIsKept`: the picture the row names is in the directory, and no other file stays behind,
  unless a commit was not confirmed (`unsure`: the model takes the case where the row was
  written although the request sees an error, and deletes the new file the row names), a
  process stopped between file and row, or a request named or removed another picture
  than the one it had read (`stray`): an upload and a removal that overlap leave a file that
  no row names.

*Proved* (`AccountsProofs`, for any number of users, requests, rows, flows and names). The
five services have an inductive invariant each, which is shown to survive the steps of the
others; they meet in the users' rows, in the password and in whose identity is whose.

| Theorem | Invariant | What it says beyond types |
|---|---|---|
| `PictureStays` | `PictureInv` | a name drawn is new to the row and to every other request (`Fresh`), what is to be deleted is not named any more (`Replaced`), who deletes the account has locked the name it read (`Held`), every file is somebody's (`Accounted`) |
| `AdministratorsStay` | `AdminInv` | who closes an account holds its active row (`OwnRow`), no two requests hold one row (`Apart`), and without an overlap one at a time takes a superuser away and leaves another (`OneTakes`) |
| `AWayInRemains` | `WaysInv` with `SignInInv`, `FlowInv`, `AdminInv` | the request that removes a way in leaves another (`Leaves`), and nobody else removes one |
| `AllWorksOnce` | `SignInInv`, `FlowInv`, `LinksInv` | what a request relies on after its statement is true while it holds the locks (`Good`, `LinkFits`), what is used is closed (`SpentOnce`, `LinksSpent`), one challenge and one reset link are open, a Mastodon flow is in one hand (`OneHand`), one application is registered (`OneApp`), confirmations are of the current address unless `raced` (`OfTheAddress`) |

`GoodKept` is the lemma the second column rests on: what a request has read stays true as long
as nobody writes the rows it has locked. Assumed are bounds that are numbers, null values
outside the sets they complete, addresses that are not the place-holder `pending`, and
challenges that are not ceremonies.

Not modelled: rate limits, the age of a sign-in (`require_recent_auth`), the counting of failed
answers to a passkey ceremony (kept but never read), names of passkeys, the e-mail
addresses and names the services report, HTTP and its checks in `mastodon_sso.py`,
the confirmation of an address that a service reports as verified and that is the account's
(`oauth_account_service.py:108-112`): `verified` changes by the site's own links only.

## 8. `Portal` and its eleven parts - a visitor's page, what answers it, and the data behind it

| Module | Code | State | What an action is |
|---|---|---|---|
| `ResponseCache` | `cache/service.py`, `cache_versions.py`, `gis_mutations.py` | `version` and `rows` in PostgreSQL, `memo` and `local` of each process, `entry` and `lock` in Redis, `get` (requests) | a statement or an await |
| `MapViewport` | `stores/osmViewport.ts`, `MapCanvas.vue:322-360` | the fields of the store, `flights` (requests under way), `drawn` (the map) | a stretch between two awaits |
| `PageRequests` | `analytics.ts`, `comparison.ts`, `polygon.ts`, `analysisAreas.ts`, `search.ts`, `usePolygonOsmInfo.ts`, `useMapSelection.ts`, the detail of `osmViewport.ts` | `slot` says which of them; `current`, `active` are its request id and AbortController | the same |
| `BrowserSession` | `useApi.ts`, `authRetry.ts`, `stores/auth.ts`, what the server says to them | `jar` (cookies), `user`, `refreshing`, `refresh` (the single flight), `call`, `begun`, `over` | the same; the server's step |
| `Notifications` | `notifications.py`, `api/notifications.py`, `stores/notifications.ts`, the plugin | `row`, `queue` of the stream, `items`, `unreadCount`, `fetch`, `mark` | a statement; a handler |
| `ContactForm` | `contact_service.py`, `rate_limit.py`, `api/contact.py` | `pending`, `used` nonces, `counted`, `post` | an await |
| `OsmData` | `scripts/osm/`, `postprocess_osm.py`, `reconcile_osm.py`, `services/osm_import.py`, the adoption of an object in `polygons.py` | `planet` (OpenStreetMap), `stage` (the tables osm2pgsql fills), `replica` (its sequence), `job` (the run that has the lock), `site` (the published tables), `adoption` (users' requests), `polygon` | a command of the script; a statement |
| `AreaMatching` | `wikidata_enrichment.py`, its API and command | `tags`, `area` (an area's item and its status), `run` (lookups) | a statement or an answer of Wikidata |
| `StatisticsImport` | `flensburg_statistics_import.py` | `source` (the city's files), `table` (rows), `import` (runs) | a download; a statement |
| `PolygonLookup` | `osm_lookup.py` | `kept` (answers, with the version of the geometry each is about), `task` (one for each key), `line` (the lock at Overpass), `visit` (requests) | a stretch between two awaits |
| `PublicQueries` | `assistant.py`, `assistant_tools.py`, `public_query_security.py`, `db/session.py`, the list, detail and preview of an area | `query` (requests, with their connection), `lock` and `kept` of two answers | the same |
| `Portal` | the eleven, and `useGisInvalidation.ts` | none | a step of one, or the handler that drops what the stores hold |

The parts do not share variables: a page asks them one thing at a time, and what matters
is what happens inside each while others wait. So `MCPortal` runs twenty-two scenes, each
stepping through one part, except `gis`, where a changed polygon clears the map and the
lists together. A stretch of JavaScript up to its next await is one step, because nothing
else runs in the page meanwhile. What a request is about is a key; what an answer
says is what it was asked for, or, for the cache, the set of mutations it shows.

`generation` of the session store is only compared with the value a refresh began under,
so the refresh carries whether it is still that one (`same`) instead of a counter.

A polygon's version stands for its geometry. A visit reads the version, then the geometry once
more, gives its session back and joins the task there is for that version or begins one;
tasks wait for each other at Overpass, in the order they came. A query knows who is ahead of it
in the lock of an answer; a connection is held from a transaction's first statement to its
end. What the rules and the language model decide is a free choice.

History variables say what an exception is about. `passed` and `overtaken` (`overtook` in
`Portal` for the areas): something else was shown or written while a request was under way.
`behind`: an import has begun the replication and not published yet. `crowded`: Overpass was asked twice
within the interval. `late`: an adoption
met a publication, or failed; `together`: two adoptions were past the check for an existing
polygon at once. `crossed`: a lookup found its item for tags that changed meanwhile.
`confirmed`: the item the operator has confirmed. `sure`: what the city published when the
last import committed, if nothing disturbed that import (`alone`).

The imports of OSM hold a file lock for the whole script (`flock`), so one works at a time
and one fairness condition covers them. Their publication is one transaction
(`postprocess_osm.py`). It raises the versions of the analytics before those of
the polygons (`postprocess_osm.py:159`), while a user who takes an object over raises
them the other way round (`gis_mutations.py:5`): the two can wait for each other, PostgreSQL ends
one, and either the hourly update runs again or the user's polygon stays without the areas
it lies in until the next publication. osm2pgsql, Nominatim and Wikidata are external: they
answer anything or fail.

What the run `portal` shows:

- `CopiesAreCurrent`: with the version raised in the mutation's transaction, an answer
  kept under a version shows every mutation that the version stands for, even with
  locks that expire, two computing at once, and a memo that is five seconds
  old. Raised in a transaction of its own, it would not (the mutant). What the memo
  does cost: a request may be answered from the version before for five seconds, in
  the mutating process too, if it reads the old version between `bump_cache_versions`,
  which drops the memo, and the commit. On the page, nothing
  fetched before the last mutation it has seen is in the store, in its cache or on its way.
  The site shows OpenStreetMap as it was at one moment, never half an update, however imports
  and adoptions end, and a polygon taken over carries that state too, unless it met a
  publication; an area's item was found for the tags it has; an
  import of figures that nothing disturbed leaves what the city publishes, whatever
  earlier ones left half-way or mixed from two editions. What is kept for a polygon's version
  is about its geometry at that version, and nobody is answered with an older geometry than the one
  asked for, however long a shared task has been under way (`KeptOfItsVersion`).
- `LatecomersLose`: viewports and every other request of which the page wants the last; the
  session, where a refresh overtaken by a sign-out does not sign in again; the badge, which
  counts what the list shows from one answer to the next; the contact form, which
  sends one message for each token; an OSM object is taken over by one polygon; a
  lookup does not replace what the operator has confirmed; Overpass is left alone for the
  interval between two requests (`Spaced`); who waits for the language model holds no
  connection, and nobody waits for its lock (`AskingHoldsNothing`). The named exceptions are states of the code:
  a viewport or list that is served without a request neither aborts nor
  outdates the request under way (`osmViewport.ts:144-156`, `polygon.ts:59`), so
  its late answer replaces what was shown; a mark that fails after the list was
  replaced spoils the badge; a mail that failed after it was handed over, and a
  restart, which forgets the nonces.
- `EverythingEnds`: every request of the cache is answered or fails although it may wait
  for locks of its process and of Redis, however often it is overtaken; spinners stop; every request
  that waits for the refresh of another ends; lookups end; queries end, although those who wait for an answer's lock may hold all connections
  while the one in the lock waits for one: only the timeout of the pool ends that
  (`QueriesEnd`, whose mutant takes the timeout away); the site catches up
  with OpenStreetMap, whatever fails on the way, if failures stop. Weak fairness of every handler, of the network
  (it answers or fails: `fetch` rejects) and of the timers; strong fairness of `Enter`,
  because `asyncio.Lock` is first in, first out. A selection of the map that ends without
  `clearSelection` keeps its loading flag; it is excluded by `selected # asked`.

Observed, and left as they are in the model: an answer of `/auth/session` that arrives
after a sign-out is applied without a look at the generation (`auth.ts:137-138`), and
so is a refresh that began during the sign-out: `SignedOutStays` is about refreshes
that began before. `/auth/logout-all` begins like `/auth/logout` and is therefore never
repeated after a refresh (`useApi.ts:27,119`). Events published between `ready` and the
subscription of a stream, and those a full queue drops, do not reach the page until it
fetches its list. A contact request that is cancelled leaves its nonce pending: the token
is refused from then on.

Simplified: `leave` stands for the calls that end the session when they succeed. Closing an account
is never repeated after a 401; changing the password and disabling the second factor are
(`stores/auth.ts:451-462`, `479-482`): the model lets a `leave` do either. Which codes of a refusal
no refresh heals (`useApi.ts:34-44`) is a free choice too (`Unauthorized`).

A new map is empty while the store still holds what the last one showed; its first load is forced
(`MapCanvas.vue:144`). Where that fails, an answer the store already has is not drawn
(`data !== previousData`), and the map stays empty until something else is loaded.

OpenStreetMap only gains and changes objects in the model: the source of a polygon whose object was
deleted stays as it was, because the refresh joins the objects that are there
(`postprocess_osm.py:79-88`). An area whose item is in conflict keeps that status when its tags
agree again; areas that have left OpenStreetMap stay; a refresh of one object writes all of its tags into the
polygon's `osm_snapshot`. An adopted object without an address is committed, looked up at
Nominatim and renamed; where the second slug clashes, the request fails and the
polygon stays without its areas. Figures the
city no longer publishes stay. The aggregated figures are written in an order that
depends on the hash seed of the process, so two imports at once can end in a deadlock; one
of them fails and its timer starts it again. That statistics imports end is not
checked: the condition it takes (strong fairness of each of their statements) makes the
liveness graph too large.

Seen in the new parts and kept: the tools that a language model has planned run in a session
of their own, without the statement timeout of the request's transaction (`docs/stadtplaner-assistant.md:137`
lists it among the limits of the assistant); a preview keeps its connection while the renderer works
(`api/polygons.py:212-226`); a lookup of an older version that ends late drops the answer
kept for the newer one; a request that missed the cache before a shared task ended, and arrives
after its cleanup, looks everything up again.

Bounds: two processes, two requests, one mutation (a second one shows nothing more:
versions only grow, and a request compares two of them); three viewports with a cache of two, so that
one is evicted; three requests per page, the least in which an answer
is overtaken twice; two sessions, two calls at once; two notifications, a
queue of one, so that it overflows; two forms, two posts, a clock of three, one more than the
lifetime of a used nonce; two states of OpenStreetMap after the first, one fault, one full import beside
the hourly updates, two adopters; two items, two lookups; two figures with two values,
one edition after the first; two versions of a polygon, two visits and an interval of one, so that
a second task waits for its turn; two queries, one connection and one tool. Three scenes are cut
further: in `changes` only the first process loses its memo, in `lists` the second
notification is there from the start, in `lookups` the second visit finds nothing inside
the polygon. The run has 232,656 distinct states. Where a scene leaves a
part alone, `MCFairness` says so in the condition (`Cached`, `Mapped`, ...), which excludes no
behaviour of the scene: the steps are not enabled in it.

*Proved* (`PageProofs` for the page and what answers it, `PortalProofs` for the data behind it and
for the whole, for any sets and any bounds that are numbers): `EverythingIsCurrent` and
`LateLoses` state `CopiesAreCurrent` and `LatecomersLose` of `Portal!Spec`, where every part may
step at any time; the scenes of the run only cut the instance. `KeptCurrent` states the part about
the server's cache by itself. `PortalInv` is the conjunction of eleven inductive
invariants; a step of one part leaves the others' variables alone, so that each is shown for its
own steps and for `InvalidateAfterPolygonMutation`, the one step of two parts. The
modules are two because of their length.

| Part | Invariant | The argument |
|---|---|---|
| `ResponseCache` | `CacheInv` | a version counts the mutations that have committed, what it stands for is in the rows, nobody has a version still to come, and nothing is kept under one: an answer computed from the rows shows all its version, read earlier, stands for. Memos and expiry need no assumption |
| `MapViewport` | `ViewInv` | a flight that is not aborted is the controller's and as young as the last mutation; the newest one, unless something was shown meanwhile (`passed`), is for the last key |
| `PageRequests` | `RequestInv` | where a store aborts, one flight lives and it is the last; elsewhere the last is known by its id, and it is what was asked |
| `BrowserSession` | `SessionInv` | a refresh that began before a sign-out no longer has the session's generation (`since => ~same`), and applies nothing |
| `Notifications` | `InboxInv` | while the list is `exact`, the badge is the number of unread items; a mark's objects are read, its undo restores what it took, and two marks share none |
| `ContactForm` | `FormInv` | a nonce is reserved for one request at a time; a form that was mailed is spent, or the request that mailed it has not written so yet |
| `OsmData` | `OsmInv` | one script works; what it publishes is the stage, whole and not behind the replication; who is not `late` carries the published state, and the transaction heals the others it sees; at most one adopter is past the check or has created, unless `together` |
| `AreaMatching` | `AreaInv` | whoever has written the area's row and not committed wrote it from the row that is there; what an unpassed run has read is still so |
| `StatisticsImport` | `FigureInv` | who works alone has downloaded what is published, and what differs from the table it has written or will write |
| `PolygonLookup` | `LookupInv` | an answer, a task and a kept entry are about the geometry of their key or a later one, and none is later than the polygon; who sleeps is first in line and wakes when the interval is over |
| `PublicQueries` | `QueryInv` | no more connections than the pool has; who is in an answer's lock, or ahead of somebody, is at its place for that lock |

Assumed (in `Portal`): null values are outside the sets they complete, bounds are natural numbers
and those of queue, versions and tools positive, `All` is no notification, and
notifications, mutations and queries are finitely many (they are counted).
Liveness (`EverythingEnds`) is left to TLC.
## 9. What is proved and what is only checked

| Modules of proofs | Theorems | Assumptions |
|---|---|---|
| `EmailOutboxProofs` | types, `WelcomeOnce`, `SentWasAccepted`; with one periodic command `OneMailPerAcknowledgement`, `ClosedStaysClosed`, `DeliveryMirrorsOutbox`, `CompletedIsExact` (section 2) | kinds, owners and bounds are of their types, the events are finite; `OneCommand`, for the first two of the second group `LiveOverrun => Requests = {}` |
| `SerialSaveQueueProofs` | types, `NothingForgotten`, `SavedIsHonest`, `LeftIsHonest`, the refinement of `LatestSave` (section 3) | the null value is no value of a field |
| `PolygonEditingProofs` | types, `WaitingIsNewest`, `OnlyDroppedIsLost`, `NeverStranded`, `NoUnseenOverwrite` on pages of one kind without geometry (section 4) | public and geometry fields are fields, the null value is no value, bounds are numbers |
| `RefreshSessionsProofs` | types, `OneLivePerFamily`, `NoFork`, `FamilyEndsForGood`, `ResetEndsAll` (section 5) | the two null values are outside their sets |
| `PublishingProofs` | `NothingUnapproved`, `RecordsAreTrue`, `BothTypesOK` (section 6) | limits are numbers, the absent row is no row; for the last, rows are finite and one may be the polygon's |
| `AccountsProofs` | `WorksOnce`, `WayInRemains`, `LastAdministratorStays`, `PictureIsKept` (section 7) | null values, kinds of rows, bounds |
| `PageProofs`, `PortalProofs` | `CopiesAreCurrent`, `LatecomersLose`, and `KeptIsCurrent` by itself (section 8) | null values, bounds, finite sets where something is counted |

No theorem assumes anything about the number of requests, fields, tokens or people; the
bounds of the small instances are parameters here. Of the number of workers only the four
e-mail theorems that need `OneCommand` assume something, as their section explains.

Left to TLC:

- every liveness property, and everything about ENABLED: out of the prover's reach;
- the disagreements of section 2 and 4, which are counterexamples.

The list of theorems in `PROJECT.json` says which property each of them establishes.

## 10. Plan

Done, in this order: `EmailOutbox`; `SerialSaveQueue` with `LatestSave`;
`PolygonEditing`; `RefreshSessions`; `PolygonOutbox` and `SocialPublishing`, composed in
`Publishing`; `SignIn`, `AccountTokens`, `OAuthFlow`, `Administration`, `Avatars`, composed in
`Accounts`; the page and its server (`ResponseCache`, `MapViewport`, `PageRequests`,
`BrowserSession`, `Notifications`, `ContactForm`) and the data behind them (`OsmData`,
`AreaMatching`, `StatisticsImport`) with `PolygonLookup` and `PublicQueries`, composed in
`Portal`; the proofs of section 9, which state every safety invariant and every action
property of the passing runs.

To do, the most important first:

1. The e-mail theorems for more than one periodic command: what is left of them when recovery
   takes an event from a worker that lives (`WelcomeMailedOnce` is one such statement).
2. The end of statistics imports, on an instance of its own (section 8).
3. Change of a known password and the age of a sign-in (`SignIn`).

Not modelled, and why:

- What the assistant is asked and answers: prompts, texts and a language model, which answers
  anything; and the search by words, one query of a request. Who holds which connection
  meanwhile is in `PublicQueries`.
- Reading of OSM features, statistics, analytics and areas: SQL and arithmetic over rows that
  other modules write; there is no order of steps to get wrong. Their single
  flight is `ResponseCache`.
- Geocoding, previews, templates: external services and rendering.
- The request pipeline (CSRF, authentication, encryption, headers, counters), the schema and
  its migrations, pages and components, deployment: one request's checks, formats and
  configuration. What the models need of them is in the models: who holds which token,
  unique indexes and foreign keys, timers.

One thing that `ResetEndsAll` does not say: `authenticate` commits before `issue_session`
inserts the session (`auth_service.py:182`), so a sign-in with the old password that is
between the two survives a reset of the password. The property is about the sessions
there are when the reset commits.

The runs stay few, one for each question: related properties are checked by one run of their
module, with an instance in which all of them can fail.

## 11. How to run

`tlc -config <run>.cfg MC<module>.tla` for the runs, `tlapm <module>Proofs.tla` for the
proofs. `PROJECT.json` lists the runs, mutants (for each property of a passing run
a changed definition that breaks it; the changed form stands beside the
definition in the module), the map to the source, findings, hazards and theorems.
