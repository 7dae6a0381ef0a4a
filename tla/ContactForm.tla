----------------------------- MODULE ContactForm -----------------------------
(***************************************************************************)
(* The contact form (backend/app/api/contact.py): a form token is a signed *)
(* nonce with a lifetime; a process remembers in memory which nonces are   *)
(* being used and which were (services/contact_service.py), and how often  *)
(* a sender has tried in the current window (services/rate_limit.py).      *)
(***************************************************************************)
EXTENDS Naturals, FiniteSets

CONSTANTS
  Forms, Posts, None,
  Lifetime,  \* contact_form_token_expire_minutes
  MinAge,    \* contact_form_min_seconds
  Attempts,  \* contact_ip_rate_limit_attempts, contact_email_rate_limit_attempts
  MaxClock   \* how long the model looks (bounds the clock)

VARIABLES
  clock,
  issued,         \* when each form's token was made
  pending, used,  \* _pending_nonces, _used_nonces: when, None where not
  counted,        \* the count of each window
  post,           \* the requests
  mailed, twice,  \* forms a message was sent from, and forms more than one was
  excused         \* forms whose mail failed after it was handed over, or that a restart forgot

vars == <<clock, issued, pending, used, counted, post, mailed, twice, excused>>

Windows   == {"ip", "email"}
NoPost == [at |-> "idle", form |-> None]
Goes(p, place) == post' = [post EXCEPT ![p].at = place]

-----------------------------------------------------------------------------
(* Mutant: only nonces that were used are refused, not those being used.     *)
TakenWhenUsed(f) == used[f] # None /\ used[f] + Lifetime >= clock

(* used_at >= cutoff *)
Kept(f) == used[f] # None /\ used[f] + Lifetime >= clock

(* nonce in _used_nonces or nonce in _pending_nonces *)
Taken(f) == Kept(f) \/ f \in pending

Init ==
  /\ clock = 0 /\ issued = [f \in Forms |-> None] /\ pending = {} /\ used = [f \in Forms |-> None]
  /\ counted = [k \in Windows |-> 0]
  /\ post = [p \in Posts |-> NoPost] /\ mailed = {} /\ twice = {} /\ excused = {}

-----------------------------------------------------------------------------
(* GET /contact/form-token *)
GetToken(f) ==
  /\ issued[f] = None /\ issued' = [issued EXCEPT ![f] = clock]
  /\ UNCHANGED <<clock, pending, used, counted, post, mailed, twice, excused>>

(* decode_form_token: not too old, not too young *)
Decodes(f) == issued[f] # None /\ clock < issued[f] + Lifetime /\ clock >= issued[f] + MinAge

Post(p, f) ==
  /\ post[p].at = "idle" /\ issued[f] # None
  /\ post' = [post EXCEPT ![p] = [at |-> "ip", form |-> f]]
  /\ UNCHANGED <<clock, issued, pending, used, counted, mailed, twice, excused>>

(* check_rate_limit: too many attempts are refused (counted stops at the limit), and *)
(* where Redis fails so is every attempt.                                            *)
Limit(p, k) ==
  /\ post[p].at = k
  /\ \/ /\ counted[k] < Attempts /\ counted' = [counted EXCEPT ![k] = @ + 1]
        /\ Goes(p, IF k = "ip" THEN "email" ELSE "checked")
     \/ Goes(p, "done") /\ UNCHANGED counted
  /\ UNCHANGED <<clock, issued, pending, used, mailed, twice, excused>>

(* decode_form_token and reserve_nonce, which forgets old nonces first *)
Reserve(p) ==
  /\ post[p].at = "checked"
  /\ LET f == post[p].form
     IN  IF ~Decodes(f) THEN Goes(p, "done") /\ UNCHANGED <<pending, used>>
         ELSE /\ used' = [g \in Forms |-> IF Kept(g) THEN used[g] ELSE None]
              /\ IF Taken(f)
                 THEN Goes(p, "done") /\ UNCHANGED pending
                 ELSE Goes(p, "reserved") /\ pending' = pending \cup {f}
  /\ UNCHANGED <<clock, issued, counted, mailed, twice, excused>>

Mail(f) == mailed' = mailed \cup {f} /\ twice' = twice \cup (mailed \cap {f})

(* The honeypot, spam, verify_turnstile, the template, the mail: sent says whether  *)
(* finish_nonce will keep the nonce.  A mail that fails may have been delivered.    *)
Handle(p) ==
  /\ post[p].at = "reserved"
  /\ LET f == post[p].form
     IN  \/ Goes(p, "finish") /\ UNCHANGED <<mailed, twice, excused>>
         \/ Goes(p, "sent") /\ Mail(f) /\ UNCHANGED excused
         \/ Goes(p, "failed") /\ UNCHANGED <<mailed, twice, excused>>
         \/ /\ Goes(p, "failed") /\ Mail(f)
            /\ excused' = excused \cup {f}
  /\ UNCHANGED <<clock, issued, pending, used, counted>>

(* finish_nonce; the copy to the sender follows and may fail. *)
Finish(p) ==
  /\ post[p].at \in {"finish", "sent", "failed"}
  /\ pending' = pending \ {post[p].form}
  /\ used' = IF post[p].at = "failed" THEN used ELSE [used EXCEPT ![post[p].form] = clock]
  /\ Goes(p, "done")
  /\ UNCHANGED <<clock, issued, counted, mailed, twice, excused>>

Answer(p) ==
  /\ post[p].at = "done" /\ post' = [post EXCEPT ![p] = NoPost]
  /\ UNCHANGED <<clock, issued, pending, used, counted, mailed, twice, excused>>

(* The request is cancelled: its nonce stays pending. *)
Cancel(p) ==
  /\ post[p].at \in {"ip", "email", "reserved"} /\ Goes(p, "done")
  /\ UNCHANGED <<clock, issued, pending, used, counted, mailed, twice, excused>>

(* The process is restarted: what it kept in memory is gone. *)
Restart ==
  /\ pending \cup {f \in Forms : used[f] # None} # {}
  /\ excused' = excused \cup {f \in Forms : used[f] # None \/ f \in pending \cup mailed}
  /\ pending' = {} /\ used' = [f \in Forms |-> None] /\ post' = [p \in Posts |-> NoPost]
  /\ counted' = [k \in Windows |-> 0]
  /\ UNCHANGED <<clock, issued, mailed, twice>>

(* A window ends, or its key is the oldest of too many in memory. *)
Lapse(k) ==
  /\ counted[k] > 0 /\ counted' = [counted EXCEPT ![k] = 0]
  /\ UNCHANGED <<clock, issued, pending, used, post, mailed, twice, excused>>
Tick ==
  /\ clock < MaxClock /\ clock' = clock + 1
  /\ UNCHANGED <<issued, pending, used, counted, post, mailed, twice, excused>>

Handler(p) == (\E k \in Windows : Limit(p, k)) \/ Reserve(p) \/ Handle(p) \/ Finish(p) \/ Answer(p)
Next ==
  \/ \E f \in Forms : GetToken(f) \/ \E p \in Posts : Post(p, f)
  \/ \E p \in Posts : Handler(p) \/ Cancel(p)
  \/ Restart \/ Tick \/ \E k \in Windows : Lapse(k)

-----------------------------------------------------------------------------
TypeOK ==
  /\ pending \subseteq Forms /\ clock \in 0 .. MaxClock
  /\ \A f \in Forms : issued[f] = None \/ issued[f] <= clock
  /\ \A f \in Forms : used[f] # None => issued[f] # None /\ used[f] <= clock

(* A form sends one message, however often and however late it is posted,    *)
(* unless the mail failed after it was handed over or the process was        *)
(* restarted.                                                                *)
OneMailPerForm == twice \subseteq excused
=============================================================================
