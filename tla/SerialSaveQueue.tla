--------------------------- MODULE SerialSaveQueue ---------------------------
(***************************************************************************)
(* The queue behind forms that save themselves                             *)
(* (frontend/app/utils/serialSaveQueue.ts) with its two callers, the page  *)
(* of the social settings and the card of the notification preferences.    *)
(*                                                                         *)
(* JavaScript runs each handler to its end, so an action is one handler:   *)
(* an edit, the microtask that starts a request, the answer, the retry     *)
(* button, leaving the page.  A request that fails has been carried out by *)
(* the server or never will be; only the failure's news may be late.       *)
(***************************************************************************)
CONSTANTS
  Keys,       \* the fields of the form
  Values,     \* what a field can hold
  Unset       \* a field a patch does not mention

ASSUME UnsetAssumption == Unset \notin Values

VARIABLES
  caller,    \* the form the queue serves; it never changes
  wish,      \* history: the value the user last gave each field
  form,      \* the values the page shows
  server,    \* the values the server has stored
  pending,   \* the patch that waits
  snapshot,  \* the patch of the last request
  flags,     \* which of active, blocked and scheduled are true
  shown,     \* the state last reported to the page
  leaving    \* the navigation away from the page

vars == <<caller, wish, form, server, pending, snapshot, flags, shown, leaving>>

Patch   == [Keys -> Values \cup {Unset}]
Nothing == [k \in Keys |-> Unset]

(* An answer replaces the form of the preferences; leaving the page of the *)
(* social settings flushes the queue.                                      *)
Refreshes == caller = "preferences"
Leavable  == caller = "social"

-----------------------------------------------------------------------------
(* Mutants.  Recalled: the failed patch is dropped, or wins over newer values. *)
(* IdleIn: idle between two requests, or never after an error.  Schedules: in  *)
(* spite of an error, or not again after an answer.  ShownAfter: saved in any  *)
(* case.                                                                       *)
RecalledNothing(s, p)  == p
RecalledOld(s, p)      == [k \in Keys |-> IF s[k] = Unset THEN p[k] ELSE s[k]]
IdleBetween(f)         == "active" \notin f
IdleUnblocked(f)       == f = {}
SchedulesBlocked(f, p) == f \cap {"active", "scheduled"} = {} /\ p # Nothing
SchedulesOnce(f, p)    == f = {} /\ p # Nothing /\ shown = "saved"
ShownSaved(p)          == "saved"

(* {...q, ...p} *)
Over(p, q) == [k \in Keys |-> IF p[k] = Unset THEN q[k] ELSE p[k]]

(* After an error the snapshot goes back under what was queued meanwhile. *)
Recalled(s, p) == Over(p, s)

(* notifyIdle's condition, and its effect on a navigation that waits for the queue *)
IdleIn(f) == "active" \notin f /\ "scheduled" \notin f
NotifyIdle(f) == leaving' = IF leaving = "waiting" /\ IdleIn(f) THEN "left" ELSE leaving

(* schedule: the flags once it was called with flags f and pending patch p *)
Schedules(f, p) == f \cap {"active", "blocked", "scheduled"} = {} /\ p # Nothing
Scheduled(f, p) == IF Schedules(f, p) THEN f \cup {"scheduled"} ELSE f

(* What drain reports after a request that succeeded *)
ShownAfter(p) == IF p = Nothing THEN "saved" ELSE shown

-----------------------------------------------------------------------------
Init ==
  /\ caller \in {"preferences", "social"}
  /\ wish \in [Keys -> Values]
  /\ form = wish /\ server = wish
  /\ pending = Nothing /\ snapshot = Nothing
  /\ flags = {} /\ shown = "saved" /\ leaving = "no"

(* The user changes a field: toggle, saveSettingsPatch, enqueue. *)
Edit(k, v) ==
  /\ leaving # "left" /\ form[k] # v
  /\ wish' = [wish EXCEPT ![k] = v]
  /\ form' = [form EXCEPT ![k] = v]
  /\ pending' = Over([Nothing EXCEPT ![k] = v], pending)
  /\ shown' = IF "blocked" \in flags THEN shown ELSE "saving"
  /\ flags' = Scheduled(flags, pending')
  /\ UNCHANGED <<caller, server, snapshot, leaving>>

(* The microtask: the first half of drain, up to the request. *)
Drain ==
  /\ "scheduled" \in flags
  /\ IF flags \cap {"active", "blocked"} # {} \/ pending = Nothing
       THEN /\ flags' = flags \ {"scheduled"}
            /\ NotifyIdle(flags')
            /\ UNCHANGED <<pending, snapshot, shown>>
       ELSE /\ snapshot' = pending
            /\ pending' = Nothing
            /\ flags' = (flags \ {"scheduled"}) \cup {"active"}
            /\ shown' = "saving"
            /\ UNCHANGED leaving
  /\ UNCHANGED <<caller, wish, form, server>>

(* The answer arrives: the second half of drain. *)
Succeed ==
  /\ "active" \in flags
  /\ server' = Over(snapshot, server)
  /\ form' = IF Refreshes THEN server' ELSE form
  /\ flags' = Scheduled(flags \ {"active"}, pending)
  /\ shown' = ShownAfter(pending)
  /\ NotifyIdle(flags')
  /\ UNCHANGED <<caller, wish, pending, snapshot>>

(* The request fails, whether or not the server carried it out. *)
Fail ==
  /\ "active" \in flags
  /\ server' \in {server, Over(snapshot, server)}
  /\ pending' = Recalled(snapshot, pending)
  /\ flags' = (flags \ {"active"}) \cup {"blocked"}
  /\ shown' = "error"
  /\ NotifyIdle(flags')
  /\ UNCHANGED <<caller, wish, form, snapshot>>

(* The retry button, which the page offers after an error *)
Retry ==
  /\ leaving # "left" /\ shown = "error" /\ pending # Nothing
  /\ flags' = Scheduled(flags \ {"blocked"}, pending)
  /\ shown' = "saving"
  /\ UNCHANGED <<caller, wish, form, server, pending, snapshot, leaving>>

(* onBeforeRouteLeave of the social page: one more attempt after an error, *)
(* then flush.                                                             *)
Leave ==
  /\ Leavable /\ leaving = "no"
  /\ LET retried == shown = "error" /\ pending # Nothing
     IN /\ flags' = Scheduled(IF retried THEN flags \ {"blocked"} ELSE flags, pending)
        /\ shown' = IF retried THEN "saving" ELSE shown
  /\ leaving' = IF IdleIn(flags') THEN "left" ELSE "waiting"
  /\ UNCHANGED <<caller, wish, form, server, pending, snapshot>>

Next ==
  \/ \E k \in Keys, v \in Values : Edit(k, v)
  \/ Drain \/ Succeed \/ Fail \/ Retry \/ Leave

(* The browser runs its microtasks and every request ends; nobody has to edit, retry or leave. *)
Fairness == WF_vars(Drain) /\ WF_vars(Succeed \/ Fail)

Spec == Init /\ [][Next]_vars /\ Fairness

-----------------------------------------------------------------------------
(* Types, and the one combination of flags that schedule and drain allow at a time. *)
TypeOK ==
  /\ caller \in {"preferences", "social"}
  /\ wish \in [Keys -> Values] /\ form \in [Keys -> Values] /\ server \in [Keys -> Values]
  /\ pending \in Patch /\ snapshot \in Patch
  /\ flags \in {{}, {"scheduled"}, {"active"}, {"blocked"}}
  /\ shown \in {"saved", "saving", "error"}
  /\ leaving \in {"no", "waiting", "left"}

(* A value the server does not have is in the queue: it waits, or it is under  *)
(* way and nothing newer waits ("Values queued while the request was running   *)
(* are newer and must win", serialSaveQueue.ts:57), across failures whose      *)
(* request may or may not have been carried out, edits meanwhile and retries.  *)
NothingForgotten ==
  \A k \in Keys :
    /\ pending[k] \in {wish[k], Unset}
    /\ wish[k] # server[k] /\ pending[k] = Unset => "active" \in flags /\ snapshot[k] = wish[k]

(* The page says "Gespeichert" only when the server has what the user last *)
(* entered and the page shows it, although answers may replace the form    *)
(* while newer values wait.                                                *)
SavedIsHonest == shown = "saved" => server = wish /\ form = wish

(* The page is left only with everything saved or after a failed last      *)
(* attempt: flush does not resolve between one request and the next.       *)
LeftIsHonest == leaving = "left" => server = wish \/ "blocked" \in flags

(* The queue implements LatestSave: its request under way is the snapshot of *)
(* drain, so whatever fails, is retried or edited meanwhile, the requests    *)
(* carry the latest value of every field the server may not have.            *)
Sending  == IF "active" \in flags THEN snapshot ELSE Nothing
Abstract == INSTANCE LatestSave WITH sending <- Sending
ImplementsLatestSave == Abstract!Spec

(* A value the user leaves alone reaches the server, unless a request fails. *)
EditsReachTheServer ==
  \A k \in Keys, v \in Values :
    wish[k] = v ~> server[k] = v \/ wish[k] # v \/ "blocked" \in flags

(* Leaving the page ends, unless the user keeps editing forever. *)
LeavingEnds ==
  []<>(leaving # "waiting") \/ []<><<wish' # wish>>_vars
=============================================================================
