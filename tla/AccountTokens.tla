---------------------------- MODULE AccountTokens ----------------------------
(***************************************************************************)
(* Links sent by mail (backend/app/services/auth_service.py): the address  *)
(* of an account is confirmed and its password reset with tokens.  A       *)
(* sign-up and the completion of an account that came without an address   *)
(* commit the account first and the token after it.                        *)
(*                                                                         *)
(* forgot_password locks the user, then the open tokens; reset_password    *)
(* its token, then the user: one of two such requests may be aborted.      *)
(***************************************************************************)
EXTENDS Naturals, FiniteSets

CONSTANTS
  Account,
  Addresses,    \* e-mail addresses
  Resets,       \* rows there can be in password_reset_tokens
  Confirmations,\* rows there can be in email_verification_tokens
  Requests, None

(* Rows: a link to reset the password, a link to confirm an address *)
Reset        == [state : {"live", "used", "invalid"}, lapsed : BOOLEAN]
Confirmation == [to : Addresses, state : {"live", "used"}, lapsed : BOOLEAN]

VARIABLES
  active, password,
  email,      \* the account's address, "pending" (email_pending), or None: no account
  verified,
  reset, confirmation,  \* the tokens
  req,
  used, again,  \* tokens that have done what they are for; that have done it twice
  proven,       \* the address a confirmation was sent to
  raced         \* two requests completed the account's address at the same time

account == <<active, password, email, verified>>
vars    == <<account, reset, confirmation, req, used, again, proven, raced>>

Idle == [at |-> "idle", t |-> None, seen |-> None, locks |-> {}]
At(r, place) == req[r].at = place
Go(r, to)    == req' = [req EXCEPT ![r] = to]
End(r)       == Go(r, Idle)

(* Mutants: no row lock; a placeholder is confirmed like an address. *)
FreeAlways(x, r) == TRUE
AnyAddress       == ~verified
Free(x, r) == \A q \in Requests \ {r} : x \notin req[q].locks

Open == {t \in Resets : reset[t] # None /\ reset[t].state = "live"}
Completes(t) == used' = used \cup {t} /\ again' = again \cup (used \cap {t})

(* No account, or one whose address is not confirmed *)
Found ==
  /\ email \in {None, "pending"} \cup Addresses /\ verified = FALSE
  /\ reset = [t \in Resets |-> None] /\ confirmation = [t \in Confirmations |-> None]
  /\ req = [r \in Requests |-> Idle]
  /\ used = {} /\ again = {} /\ proven = None /\ raced = FALSE

Init == Found /\ active = (IF email = None THEN {} ELSE {Account}) /\ password = {}

-----------------------------------------------------------------------------
(* signup commits the user; a second one with the address is refused. *)
Signup(r, a) ==
  /\ At(r, "idle") /\ email = None
  /\ email' = a /\ active' = active \cup {Account} /\ password' = {Account}
  /\ Go(r, [Idle EXCEPT !.at = "mailing", !.seen = a])
  /\ UNCHANGED <<verified, reset, confirmation, used, again, proven, raced>>

(* complete_oauth_email looks at email_pending as it was when the request came in. *)
Complete(r, a) ==
  /\ At(r, "idle") /\ email = "pending" /\ Account \in active
  /\ Go(r, [Idle EXCEPT !.at = "completing", !.seen = a])
  /\ raced' = (raced \/ \E q \in Requests : At(q, "completing"))
  /\ UNCHANGED <<account, reset, confirmation, used, again, proven>>

SetEmail(r) ==
  /\ At(r, "completing") /\ Free("user", r)
  /\ email' = req[r].seen /\ verified' = FALSE
  /\ Go(r, [req[r] EXCEPT !.at = "mailing"])
  /\ UNCHANGED <<active, password, reset, confirmation, used, again, proven, raced>>

(* resend_verification, on the locked user *)
Confirmable == ~verified /\ email # "pending"
Resend(r) ==
  /\ At(r, "idle") /\ Account \in active /\ Confirmable /\ Free("user", r)
  /\ Go(r, [Idle EXCEPT !.at = "mailing", !.seen = email, !.locks = {"user"}])
  /\ UNCHANGED <<account, reset, confirmation, used, again, proven, raced>>

(* create_verification_token, and the mail to the address this request knows *)
SendConfirmation(r) ==
  /\ At(r, "mailing") /\ Free("user", r)
  /\ \E t \in Confirmations :
       /\ confirmation[t] = None
       /\ confirmation' = [confirmation EXCEPT ![t] =
            [to |-> req[r].seen, state |-> "live", lapsed |-> FALSE]]
  /\ End(r)
  /\ UNCHANGED <<account, reset, used, again, proven, raced>>

PostCompleteEmail(r) == (\E a \in Addresses : Complete(r, a)) \/ SetEmail(r)
PostSignup(r)        == (\E a \in Addresses : Signup(r, a)) \/ SendConfirmation(r)

-----------------------------------------------------------------------------
(* verify_email: the token's row, then the user's, read anew *)
TakeConfirmation(r, t) ==
  /\ At(r, "idle") /\ confirmation[t] # None /\ Free(t, r)
  /\ Go(r, [Idle EXCEPT !.at = "confirming", !.t = t, !.seen = confirmation[t], !.locks = {t}])
  /\ UNCHANGED <<account, reset, confirmation, used, again, proven, raced>>

Usable(c) == c.state = "live" /\ ~c.lapsed

(* Whoever is confirmed already is told so, whatever the token. *)
LockUser(r) ==
  /\ At(r, "confirming") /\ Free("user", r)
  /\ IF ~verified /\ Usable(req[r].seen)
     THEN Go(r, [req[r] EXCEPT !.at = "confirmed", !.locks = @ \cup {"user"}])
     ELSE End(r)
  /\ UNCHANGED <<account, reset, confirmation, used, again, proven, raced>>

Confirm(r) ==
  LET t == req[r].t IN
  /\ At(r, "confirmed")
  /\ verified' = TRUE /\ proven' = confirmation[t].to
  /\ confirmation' = [confirmation EXCEPT ![t].state = "used"]
  /\ Completes(t)
  /\ End(r)
  /\ UNCHANGED <<active, password, email, reset, raced>>

PostVerifyEmail(r) == (\E t \in Confirmations : TakeConfirmation(r, t)) \/ LockUser(r) \/ Confirm(r)

-----------------------------------------------------------------------------
(* forgot_password: the user, the open tokens, the new one; what is locked ends with it. *)
Forgot(r) ==
  /\ At(r, "idle") /\ email \in Addresses /\ Account \in active /\ Free("user", r)
  /\ Go(r, [Idle EXCEPT !.at = "forgot", !.locks = {"user"}])
  /\ UNCHANGED <<account, reset, confirmation, used, again, proven, raced>>

InvalidateOpen(r) ==
  /\ At(r, "forgot") /\ \A t \in Open : Free(t, r)
  /\ Go(r, [req[r] EXCEPT !.at = "sending", !.locks = @ \cup Open])
  /\ UNCHANGED <<account, reset, confirmation, used, again, proven, raced>>

SendReset(r) ==
  /\ At(r, "sending")
  /\ \E new \in Resets :
       /\ reset[new] = None
       /\ reset' = [t \in Resets |-> IF t = new THEN [state |-> "live", lapsed |-> FALSE]
                                     ELSE IF t \in req[r].locks THEN [reset[t] EXCEPT !.state = "invalid"]
                                     ELSE reset[t]]
  /\ End(r)
  /\ UNCHANGED <<account, confirmation, used, again, proven, raced>>

PostForgotPassword(r) == Forgot(r) \/ InvalidateOpen(r) \/ SendReset(r)

(* reset_password: the token, read anew under its lock; a token that is not live is refused. *)
TakeReset(r, t) ==
  /\ At(r, "idle") /\ t \in Open /\ ~reset[t].lapsed /\ Free(t, r)
  /\ Go(r, [Idle EXCEPT !.at = "resetting", !.t = t, !.locks = {t}])
  /\ UNCHANGED <<account, reset, confirmation, used, again, proven, raced>>

SetPassword(r) ==
  LET mine == req[r].t IN
  /\ At(r, "resetting") /\ Free("user", r) /\ \A t \in Open : Free(t, r)
  /\ password' = {Account}
  /\ reset' = [t \in Resets |-> IF t = mine THEN [reset[t] EXCEPT !.state = "used"]
                                ELSE IF t \in Open THEN [reset[t] EXCEPT !.state = "invalid"]
                                ELSE reset[t]]
  /\ Completes(mine)
  /\ End(r)
  /\ UNCHANGED <<active, email, verified, confirmation, proven, raced>>

PostResetPassword(r) == (\E t \in Resets : TakeReset(r, t)) \/ SetPassword(r)

-----------------------------------------------------------------------------
(* Tokens expire; a request ends without a commit. *)
Lapse ==
  /\ \/ \E t \in Open : reset' = [reset EXCEPT ![t].lapsed = TRUE] /\ UNCHANGED confirmation
     \/ \E t \in Confirmations :
          /\ confirmation[t] # None /\ confirmation' = [confirmation EXCEPT ![t].lapsed = TRUE]
          /\ UNCHANGED reset
  /\ UNCHANGED <<account, req, used, again, proven, raced>>

Rollback(r) ==
  /\ ~At(r, "idle") /\ End(r)
  /\ UNCHANGED <<account, reset, confirmation, used, again, proven, raced>>

Links(r) == \/ PostSignup(r) \/ PostCompleteEmail(r) \/ Resend(r) \/ PostVerifyEmail(r)
            \/ PostForgotPassword(r) \/ PostResetPassword(r) \/ Rollback(r)

Next == (\E r \in Requests : Links(r)) \/ Lapse
Spec == Init /\ [][Next]_vars

-----------------------------------------------------------------------------
TypeOK ==
  /\ email \in Addresses \cup {"pending", None} /\ verified \in BOOLEAN
  /\ reset \in [Resets -> Reset \cup {None}]
  /\ confirmation \in [Confirmations -> Confirmation \cup {None}]

(* A link does once what it is for, however often and at whatever time it is followed. *)
TokensOnce == again = {}

(* The newest mail only: of all links to reset the password one is good at any time, *)
(* and none of them once one was used.                                               *)
OneOpenReset == Cardinality(Open) <= 1

(* What is confirmed is the address the account has, not one it had: unless two requests *)
(* completed the address at the same time, for a token does not say which it was sent to. *)
VerifiedIsProven == verified => proven = email \/ raced
=============================================================================
