------------------------------- MODULE SignIn -------------------------------
(***************************************************************************)
(* How one account is signed in to and what it can be signed in with       *)
(* (backend/app/api/auth.py, users.py, services/mfa_service.py,            *)
(* passkey_service.py, oauth_account_service.py): a password or a linked   *)
(* identity leads to a session or, with a second factor, to a challenge    *)
(* that a code, a recovery code or a passkey completes; passkeys also sign *)
(* in alone and confirm who is there.  Ways in and second factors are set  *)
(* up and taken away by several requests at once.                          *)
(*                                                                         *)
(* A request is a sequence of statements; "locks" are the rows it holds    *)
(* FOR UPDATE until its transaction ends.  A row is written from what the  *)
(* request read when it was granted the lock.                              *)
(***************************************************************************)
EXTENDS Naturals, FiniteSets

CONSTANTS
  Account,     \* the user whose account this is
  Identities,  \* accounts at other services that may be linked
  Keys,        \* passkeys
  Codes,       \* recovery codes there can be
  BatchSize,   \* 10 in the code
  Challenges,  \* rows there can be in auth_mfa_challenges
  Ceremonies,  \* rows there can be in webauthn_challenges
  Requests,
  None,
  MaxSecrets,  \* bound: set-ups of the authenticator
  MaxStep,     \* bound: half minutes that pass
  Window,      \* mfa_totp_valid_window, 1 in the code
  MaxGuesses   \* mfa_max_attempts, 5 in the code

Otps == (1..MaxSecrets) \X (1..MaxStep)  \* codes of the authenticator: secret, half minute

(* Rows: a sign-in's challenge, a passkey's ceremony, the authenticator *)
Flags         == [state : {"live", "used", "invalid"}, lapsed : BOOLEAN, guesses : 0..MaxGuesses]
Ceremony      == [state : {"live", "used", "invalid"}, lapsed : BOOLEAN,
                  purpose : {"step_up", "authenticate", "register"}, c : Challenges \cup {None}]
Authenticator == [secret : 1..MaxSecrets, enabled : BOOLEAN, lapsed : BOOLEAN, last : 0..MaxStep]

ASSUME BoundAssumption == {BatchSize, MaxSecrets, MaxStep, Window, MaxGuesses} \subseteq Nat /\ MaxStep > 0 /\ MaxSecrets > 0
ASSUME NoneAssumption  == None \notin UNION {Challenges, Ceremonies, Codes, Keys, Flags, Ceremony, Authenticator}
ASSUME KindAssumption  == /\ "user" \notin Challenges /\ Challenges \cap Ceremonies = {}
                          /\ Codes \cap (Challenges \cup Ceremonies) = {}
                          /\ Otps \cap (Challenges \cup Ceremonies \cup Codes) = {}

VARIABLES
  active, password,  \* users that may sign in, users with a password_hash
  owner,             \* user_oauth_accounts: whose identity it is
  keys,              \* user_webauthn_credentials
  method,            \* user_mfa_methods
  codes, issued,     \* unused recovery codes; codes generated so far
  secrets,           \* secrets drawn so far
  challenge, ceremony,
  req,               \* the variables of each request
  clock,             \* the half minute it is
  used, again,       \* what has completed an action once, what has a second time
  confirmed,         \* secrets the account's owner has shown to possess
  excused            \* a removal overlapped another or rested on a second factor

ways    == <<active, password, owner, keys>>
factors == <<method, codes, issued, secrets, confirmed>>
rows    == <<challenge, ceremony>>
history == <<used, again>>
vars    == <<ways, factors, rows, req, clock, history, excused>>

Idle == [at |-> "idle", way |-> "none", c |-> None, y |-> None, f |-> None,
         seen |-> None, locks |-> {}]

At(r, place) == req[r].at = place
Go(r, to)    == req' = [req EXCEPT ![r] = to]
End(r)       == Go(r, Idle)

Links   == {i \in Identities : owner[i] = Account}
Enabled == method # None /\ method.enabled
Open(S) == {c \in DOMAIN S : S[c] # None /\ S[c].state = "live"}
Live    == Open(challenge)

(* available_mfa_methods; recovery codes count while there is an authenticator only. *)
Methods == (IF keys # {} THEN {"passkey"} ELSE {}) \cup (IF Enabled THEN {"totp"} ELSE {})
           \cup (IF Enabled /\ codes # {} THEN {"recovery_code"} ELSE {})

(* Mutants: no row lock; the last code counts again; the passkey itself counts. *)
FreeAlways(x, r)  == TRUE
FitsAgain(f, m)   == \/ f \in Otps /\ f[1] = m.secret
                     \/ f \in codes
BackedBySelf(k)   == Account \in password \/ keys # {} \/ Links # {} \/ Enabled \/ codes # {}

(* FOR UPDATE is granted, an UPDATE or the check of a foreign key does not wait. *)
Free(x, r) == \A q \in Requests \ {r} : x \notin req[q].locks

(* _matching_counter *)
Near == {n \in 1..MaxStep : n <= clock + Window /\ clock <= n + Window}

(* _consume_factor: a code of the authenticator later than the last one used, or an *)
(* unused recovery code                                                             *)
Fits(f, m) == \/ f \in Otps /\ f[1] = m.secret /\ f[2] \in Near /\ f[2] > m.last
              \/ f \in codes
Spend(f, m) ==
  /\ method' = IF f \in Otps THEN [method EXCEPT !.last = f[2]] ELSE method
  /\ codes' = codes \ {f}

Completes(S) == used' = used \cup S /\ again' = again \cup (S \cap used)

(* What signs the account in *)
WayIn == Account \in password \/ keys # {} \/ Links # {}

Batches(S) == {B \in SUBSET S : Cardinality(B) = BatchSize}

-----------------------------------------------------------------------------
(* An account as it may be found, with or without a second factor, and no request under way *)
Found ==
  /\ keys \in SUBSET Keys
  /\ \/ method = None /\ issued = {} /\ secrets = 0
     \/ /\ method = [secret |-> 1, enabled |-> TRUE, lapsed |-> FALSE, last |-> 0]
        /\ issued \in Batches(Codes) /\ secrets = 1
  /\ codes = issued /\ confirmed = 1..secrets
  /\ challenge = [c \in Challenges |-> None] /\ ceremony = [y \in Ceremonies |-> None]
  /\ req = [r \in Requests |-> Idle] /\ clock = 1
  /\ used = {} /\ again = {} /\ excused = FALSE

Init ==
  /\ active = {Account} /\ password \in SUBSET {Account}
  /\ owner \in [Identities -> {Account, None}]
  /\ Found /\ WayIn

-----------------------------------------------------------------------------
(* post_login and the end of oauth_callback *)

(* authenticate, or authenticate_oauth_identity in OAuthFlow *)
Authenticated(way) == Account \in active /\ IF way = "password" THEN Account \in password
                                                                ELSE Links # {}

Begin(r) ==
  /\ At(r, "idle")
  /\ Go(r, [Idle EXCEPT !.at = IF Methods = {} THEN "issuing" ELSE "challenging"])
  /\ UNCHANGED <<ways, factors, rows, clock, history, excused>>

(* create_login_challenge: the user's row first, then the open challenges; what is locked *)
(* ends when the new one begins.                                                            *)
LockUser(r) ==
  /\ At(r, "challenging") /\ Free("user", r)
  /\ Go(r, [Idle EXCEPT !.at = "user", !.locks = {"user"}])
  /\ UNCHANGED <<ways, factors, rows, clock, history, excused>>

Invalidate(r) ==
  /\ At(r, "user") /\ \A c \in Live : Free(c, r)
  /\ Go(r, [req[r] EXCEPT !.at = "invalidated", !.locks = @ \cup Live])
  /\ UNCHANGED <<ways, factors, rows, clock, history, excused>>

New == [state |-> "live", lapsed |-> FALSE, guesses |-> 0]

Invite(r) ==
  /\ At(r, "invalidated")
  /\ \E c \in Challenges :
       /\ challenge[c] = None
       /\ challenge' = [x \in Challenges |->
            IF x \in req[r].locks THEN [challenge[x] EXCEPT !.state = "invalid"]
            ELSE IF x = c THEN New ELSE challenge[x]]
  /\ End(r)
  /\ UNCHANGED <<ways, factors, ceremony, clock, history, excused>>

(* issue_session: the family it begins is the business of RefreshSessions. *)
Issue(r) ==
  /\ At(r, "issuing") /\ End(r)
  /\ UNCHANGED <<ways, factors, rows, clock, history, excused>>

PostLogin(r) == (Authenticated("password") /\ Begin(r)) \/ LockUser(r) \/ Invalidate(r) \/ Invite(r) \/ Issue(r)
OAuthReturn(r) == Authenticated("oauth") /\ Begin(r)

-----------------------------------------------------------------------------
(* post_mfa_verify *)

(* verify_login_challenge: whatever is decided about it rests on this reading. *)
TakeChallenge(r, c, way, f) ==
  /\ At(r, "idle") /\ c \in Live /\ Free(c, r) /\ ~challenge[c].lapsed
  /\ Go(r, [Idle EXCEPT !.at = "challenge", !.way = way, !.c = c, !.f = f, !.locks = {c}])
  /\ UNCHANGED <<ways, factors, rows, clock, history, excused>>

(* MFA_CHALLENGE_EXPIRED, MFA_TOO_MANY_ATTEMPTS *)
Spoiled(c) == challenge[c].lapsed \/ challenge[c].guesses >= MaxGuesses
Spoil(r, c) ==
  /\ At(r, "idle") /\ c \in Live /\ Free(c, r) /\ Spoiled(c)
  /\ challenge' = [challenge EXCEPT ![c].state = "invalid"]
  /\ UNCHANGED <<ways, factors, ceremony, req, clock, history, excused>>

(* enabled_method(lock=True); without one, or without an account, the challenge ends. *)
LockMethod(r) ==
  /\ At(r, "challenge") /\ req[r].way = "code" /\ Free("method", r)
  /\ IF Enabled /\ Account \in active
     THEN /\ Go(r, [req[r] EXCEPT !.at = "factor", !.seen = method, !.locks = @ \cup {"method"}])
          /\ UNCHANGED challenge
     ELSE /\ challenge' = [challenge EXCEPT ![req[r].c].state = "invalid"]
          /\ End(r)
  /\ UNCHANGED <<ways, factors, ceremony, clock, history, excused>>

(* Every commit writes an audit row, whose foreign key waits for the user's row. *)
Accept(r) ==
  LET c == req[r].c  f == req[r].f IN
  /\ At(r, "factor") /\ Free("user", r) /\ Fits(f, req[r].seen)
  /\ Spend(f, req[r].seen)
  /\ challenge' = [challenge EXCEPT ![c].state = "used"]
  /\ Completes({c, f})
  /\ Go(r, [Idle EXCEPT !.at = "issuing"])
  /\ UNCHANGED <<ways, issued, secrets, confirmed, ceremony, clock, excused>>

Blocked(c) == challenge[c].guesses + 1 >= MaxGuesses
Reject(r) ==
  LET c == req[r].c IN
  /\ At(r, "factor") /\ Free("user", r) /\ ~Fits(req[r].f, req[r].seen)
  /\ challenge' = [challenge EXCEPT ![c].guesses = @ + 1,
                                    ![c].state = IF Blocked(c) THEN "invalid" ELSE @]
  /\ End(r)
  /\ UNCHANGED <<ways, factors, ceremony, clock, history, excused>>

(* What may be typed: a code of the time, of this or an earlier secret, a recovery code, *)
(* anything else.                                                                        *)
Typed == {f \in Otps : f[1] <= secrets /\ f[2] \in Near} \cup issued \cup {None}

PostMfaVerify(r) ==
  \/ \E c \in Challenges : \/ challenge[c] # None /\ challenge[c].guesses < MaxGuesses
                              /\ \E f \in Typed : TakeChallenge(r, c, "code", f)
                           \/ Spoil(r, c)
  \/ LockMethod(r) \/ Accept(r) \/ Reject(r)

-----------------------------------------------------------------------------
(* Passkeys.  The number of failed answers to a ceremony is kept but never read, the *)
(* signature counter is compared for the log only; both are left out.                *)

(* _create_ceremony *)
NewCeremony(purpose, c) ==
  \E y \in Ceremonies :
    /\ ceremony[y] = None
    /\ ceremony' = [ceremony EXCEPT ![y] =
         [state |-> "live", lapsed |-> FALSE, purpose |-> purpose, c |-> c]]

(* mfa_options, post_passkey_login_options, post_passkey_reauth_options, registration_options *)
Options(r, purpose, c) ==
  /\ At(r, "idle") /\ Free("user", r)
  /\ c # None => c \in Live /\ Free(c, r) /\ ~challenge[c].lapsed
  /\ purpose = "step_up" => keys # {}
  /\ NewCeremony(purpose, c)
  /\ UNCHANGED <<ways, factors, challenge, req, clock, history, excused>>

(* _locked_ceremony: its purpose, and the sign-in it is for, which is locked already *)
Suits(me, y) == /\ ceremony[y].c = me.c
                /\ ceremony[y].purpose = CASE me.way = "login" -> "authenticate"
                                           [] me.way = "register" -> "register"
                                           [] OTHER -> "step_up"
TakeCeremony(r, me, y, k) ==
  /\ y \in Open(ceremony) /\ Free(y, r) /\ Suits(me, y)
  /\ IF ceremony[y].lapsed
     THEN /\ ceremony' = [ceremony EXCEPT ![y].state = "invalid"]
          /\ End(r)
     ELSE /\ Go(r, [me EXCEPT !.at = "ceremony", !.y = y, !.f = k, !.locks = @ \cup {y}])
          /\ UNCHANGED ceremony
  /\ UNCHANGED <<ways, factors, challenge, clock, history, excused>>

Present(r, way) ==
  /\ At(r, "idle") /\ (way \in {"reauth", "register"} => Account \in active)
  /\ \E y \in Ceremonies, k \in Keys : TakeCeremony(r, [Idle EXCEPT !.way = way], y, k)

PresentMfa(r) ==
  /\ At(r, "challenge") /\ req[r].way = "mfa"
  /\ \E y \in Ceremonies, k \in Keys : TakeCeremony(r, req[r], y, k)

(* _verify_authentication: the credential's row; what is unknown or wrong ends the request *)
(* and leaves the challenge as it was.                                                     *)
TakeKey(r) ==
  /\ At(r, "ceremony") /\ req[r].way # "register" /\ Free(req[r].f, r)
  /\ \/ /\ req[r].f \in keys /\ Account \in active
        /\ Go(r, [req[r] EXCEPT !.at = "key", !.locks = @ \cup {req[r].f}])
     \/ End(r)
  /\ UNCHANGED <<ways, factors, rows, clock, history, excused>>

AcceptKey(r) ==
  LET y == req[r].y  c == req[r].c IN
  /\ At(r, "key") /\ Free("user", r)
  /\ ceremony' = [ceremony EXCEPT ![y].state = "used"]
  /\ challenge' = IF c = None THEN challenge ELSE [challenge EXCEPT ![c].state = "used"]
  /\ Completes({y, c} \ {None})
  /\ Go(r, [Idle EXCEPT !.at = "issuing"])
  /\ UNCHANGED <<ways, factors, clock, excused>>

(* verify_registration: uq on credential_id; a duplicate leaves the ceremony unused. *)
AddKey(r) ==
  LET y == req[r].y  k == req[r].f IN
  /\ At(r, "ceremony") /\ req[r].way = "register" /\ Free("user", r) /\ Free(k, r)
  /\ IF k \in keys
     THEN UNCHANGED <<keys, ceremony, history>>
     ELSE /\ keys' = keys \cup {k}
          /\ ceremony' = [ceremony EXCEPT ![y].state = "used"]
          /\ Completes({y})
  /\ End(r)
  /\ UNCHANGED <<active, password, owner, factors, challenge, clock, excused>>

PostMfaPasskey(r) ==
  \/ \E c \in Challenges : Options(r, "step_up", c) \/ TakeChallenge(r, c, "mfa", None)
  \/ PresentMfa(r) \/ TakeKey(r) \/ AcceptKey(r)
PostPasskeyLogin(r)  == Options(r, "authenticate", None) \/ Present(r, "login")
PostPasskeyReauth(r) == Options(r, "step_up", None) \/ Present(r, "reauth")
PostPasskeyRegistration(r) == Options(r, "register", None) \/ Present(r, "register") \/ AddKey(r)

-----------------------------------------------------------------------------
(* The authenticator *)

(* start_totp_setup looks for an enabled method before it waits for the method's row, *)
(* and does not look at is_enabled again.                                             *)
StartSetup(r) ==
  /\ At(r, "idle") /\ Account \in active /\ Free("user", r) /\ ~Enabled
  /\ Go(r, [Idle EXCEPT !.at = "setup", !.locks = {"user"}])
  /\ UNCHANGED <<ways, factors, rows, clock, history, excused>>

DrawSecret(r) ==
  /\ At(r, "setup") /\ Free("method", r) /\ secrets < MaxSecrets
  /\ secrets' = secrets + 1
  /\ method' = [secret |-> secrets + 1, enabled |-> Enabled, lapsed |-> FALSE, last |-> 0]
  /\ End(r)
  /\ UNCHANGED <<ways, codes, issued, confirmed, rows, clock, history, excused>>

PostTotpSetup(r) == StartSetup(r) \/ DrawSecret(r)

(* _replace_recovery_codes *)
NewCodes ==
  \E B \in Batches(Codes \ issued) : codes' = B /\ issued' = issued \cup B

(* confirm_totp_setup *)
Confirm(r, f) ==
  /\ At(r, "idle") /\ Account \in active /\ Free("method", r)
  /\ method # None /\ ~method.enabled /\ ~method.lapsed
  /\ f \in Otps /\ f[1] = method.secret /\ f[2] \in Near
  /\ Go(r, [Idle EXCEPT !.at = "confirming", !.f = f, !.seen = method, !.locks = {"method"}])
  /\ UNCHANGED <<ways, factors, rows, clock, history, excused>>

Enable(r) ==
  LET f == req[r].f IN
  /\ At(r, "confirming") /\ Free("user", r)
  /\ method' = [method EXCEPT !.enabled = TRUE, !.last = f[2]]
  /\ NewCodes
  /\ confirmed' = confirmed \cup {f[1]} /\ Completes({f})
  /\ End(r)
  /\ UNCHANGED <<ways, secrets, rows, clock, excused>>

PostTotpConfirm(r) == (\E f \in Typed : Confirm(r, f)) \/ Enable(r)

(* verify_sensitive_action; a factor that does not fit rolls back, nothing is counted. *)
Sensitive(r, way, f) ==
  /\ At(r, "idle") /\ Account \in active /\ Enabled /\ Free("method", r)
  /\ Go(r, [Idle EXCEPT !.at = "sensitive", !.way = way, !.f = f, !.seen = method,
                        !.locks = {"method"}])
  /\ UNCHANGED <<ways, factors, rows, clock, history, excused>>

Proven(r, way) == /\ At(r, "sensitive") /\ req[r].way = way
                  /\ Fits(req[r].f, req[r].seen) /\ Free("user", r)

Regenerate(r) ==
  LET f == req[r].f IN
  /\ Proven(r, "regenerate") /\ NewCodes
  /\ method' = IF f \in Otps THEN [method EXCEPT !.last = f[2]] ELSE method
  /\ Completes({f})
  /\ End(r)
  /\ UNCHANGED <<ways, secrets, confirmed, rows, clock, excused>>

(* disable_mfa: codes, method, every challenge not used *)
Unused == {c \in Challenges : challenge[c] # None /\ challenge[c].state # "used"}
Disable(r) ==
  /\ Proven(r, "disable") /\ \A c \in Unused : Free(c, r)
  /\ method' = None /\ codes' = {}
  /\ challenge' = [c \in Challenges |->
       IF c \in Unused THEN [challenge[c] EXCEPT !.state = "invalid"] ELSE challenge[c]]
  /\ Completes({req[r].f})
  /\ End(r)
  /\ UNCHANGED <<ways, issued, secrets, confirmed, ceremony, clock, excused>>

PostRecoveryCodes(r) == (\E f \in Typed : Sensitive(r, "regenerate", f)) \/ Regenerate(r)
DeleteTotp(r)        == (\E f \in Typed : Sensitive(r, "disable", f)) \/ Disable(r)

-----------------------------------------------------------------------------
(* Ways in that are taken away *)

(* What the account is still signed in to with is only looked at, not locked. *)
Removing(r) == \E q \in Requests \ {r} : req[q].at \in {"removing", "unlinking"}

(* remove_passkey counts the second factors, which sign nobody in. *)
Backed(k) == Account \in password \/ keys \ {k} # {} \/ Links # {} \/ Enabled \/ codes # {}
RemoveKey(r, k) ==
  /\ At(r, "idle") /\ Account \in active /\ k \in keys /\ Free(k, r) /\ Backed(k)
  /\ Go(r, [Idle EXCEPT !.at = "removing", !.f = k, !.locks = {k}])
  /\ excused' = (excused \/ Removing(r) \/ Enabled \/ codes # {})
  /\ UNCHANGED <<ways, factors, rows, clock, history>>

DeleteKey(r) ==
  /\ At(r, "removing") /\ Free("user", r)
  /\ keys' = keys \ {req[r].f}
  /\ End(r)
  /\ UNCHANGED <<active, password, owner, factors, rows, clock, history, excused>>

(* unlink_oauth_account locks nothing. *)
LinkBacked(i) == Account \in password \/ Links \ {i} # {}
Unlink(r, i) ==
  /\ At(r, "idle") /\ Account \in active /\ i \in Links /\ LinkBacked(i)
  /\ Go(r, [Idle EXCEPT !.at = "unlinking", !.f = i])
  /\ excused' = (excused \/ Removing(r))
  /\ UNCHANGED <<ways, factors, rows, clock, history>>

DeleteLink(r) ==
  /\ At(r, "unlinking") /\ Free("user", r)
  /\ owner' = IF req[r].f \in Links THEN [owner EXCEPT ![req[r].f] = None] ELSE owner
  /\ End(r)
  /\ UNCHANGED <<active, password, keys, factors, rows, clock, history, excused>>

DeletePasskey(r) == (\E k \in Keys : RemoveKey(r, k)) \/ DeleteKey(r)
DeleteOAuth(r)   == (\E i \in Identities : Unlink(r, i)) \/ DeleteLink(r)

-----------------------------------------------------------------------------
(* Time, and requests that end without a commit: an error, a deadlock the database *)
(* breaks, a process that is killed                                                *)
Rollback(r) ==
  /\ ~At(r, "idle") /\ End(r)
  /\ UNCHANGED <<ways, factors, rows, clock, history, excused>>

Lapse ==
  /\ \/ \E c \in Live : challenge' = [challenge EXCEPT ![c].lapsed = TRUE] /\ UNCHANGED <<ceremony, method>>
     \/ \E y \in Open(ceremony) : ceremony' = [ceremony EXCEPT ![y].lapsed = TRUE] /\ UNCHANGED <<challenge, method>>
     \/ /\ method # None /\ ~method.enabled /\ method' = [method EXCEPT !.lapsed = TRUE]
        /\ UNCHANGED rows
  /\ UNCHANGED <<ways, codes, issued, secrets, confirmed, req, clock, history, excused>>

Tick ==
  /\ clock < MaxStep /\ clock' = clock + 1
  /\ UNCHANGED <<ways, factors, rows, req, history, excused>>

Auth(r) == \/ PostLogin(r) \/ PostMfaVerify(r) \/ PostMfaPasskey(r) \/ PostPasskeyLogin(r)
           \/ PostPasskeyReauth(r) \/ PostPasskeyRegistration(r) \/ PostTotpSetup(r)
           \/ PostTotpConfirm(r) \/ PostRecoveryCodes(r) \/ DeleteTotp(r)
           \/ DeletePasskey(r) \/ DeleteOAuth(r) \/ Rollback(r)

Next == (\E r \in Requests : Auth(r) \/ OAuthReturn(r)) \/ Lapse \/ Tick
Spec == Init /\ [][Next]_vars

-----------------------------------------------------------------------------
(* The values the rows and the requests may hold *)
TypeOK ==
  /\ keys \subseteq Keys /\ codes \subseteq issued /\ issued \subseteq Codes
  /\ secrets \in 0..MaxSecrets /\ confirmed \subseteq 1..secrets /\ clock \in 1..MaxStep
  /\ method # None => method \in Authenticator /\ method.secret <= secrets
  /\ challenge \in [Challenges -> Flags \cup {None}]
  /\ ceremony \in [Ceremonies -> Ceremony \cup {None}]

(* Whatever completes an action does so once: a challenge and a ceremony one sign-in, a *)
(* recovery code and an authenticator's code one proof, whoever tries at the same time.  *)
UsedOnce == again = {}

(* One challenge of an account can be completed at a time; a new sign-in ends the others. *)
OneLiveChallenge == Cardinality(Live) <= 1

(* The authenticator asked for is one whose code its owner has once shown, though a set-up *)
(* begun at the same time replaces the secret without looking at is_enabled again.         *)
EnabledIsConfirmed == Enabled => method.secret \in confirmed

(* An account in use keeps a way in, unless removals overlapped (no row is locked between *)
(* looking and deleting) or the removal of the last passkey counted a second factor as a   *)
(* way in.                                                                                 *)
WayInRemains == Account \in active => WayIn \/ excused
=============================================================================
