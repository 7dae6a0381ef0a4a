--------------------------- MODULE RefreshSessions ---------------------------
(***************************************************************************)
(* The refresh tokens of one account (backend/app/services/auth_service.py *)
(* and its callers): a sign-in begins a family, a refresh exchanges the    *)
(* family's token for the next one, and signing out, a reset password, a   *)
(* change of roles, of a second factor or of the account's state, or the   *)
(* return of a token long exchanged end families.                          *)
(*                                                                         *)
(* A request is one transaction.  A refresh holds its token's row lock     *)
(* from the SELECT ... FOR UPDATE to its end.  The bulk UPDATEs that       *)
(* revoke take no lock beforehand: at READ COMMITTED such a statement      *)
(* finds the rows that are live when it starts, waits for those somebody   *)
(* holds, skips those no longer live, and never sees a row inserted since. *)
(***************************************************************************)
EXTENDS FiniteSets

CONSTANTS
  Tokens,    \* the jti values there can be
  Families,  \* the family_id values there can be
  Requests,  \* transactions under way
  NoToken, NoFamily

ASSUME TokenAssumption  == NoToken \notin Tokens
ASSUME FamilyAssumption == NoFamily \notin Families

VARIABLES
  family,    \* family_id of each row of user_sessions, NoFamily where there is none
  replaced,  \* replaced_by_jti, set together with rotated_at
  revoked,   \* rows with revoked_at
  old,       \* rows whose rotated_at is longer ago than the grace period
  expired,   \* rows whose expires_at has passed
  active,    \* users.is_active
  pc,        \* where each request stands
  token,     \* the row whose lock a request holds
  doomed     \* the rows a request's UPDATE has found

rows   == <<family, replaced, revoked, old, expired, active>>
locals == <<pc, token, doomed>>
vars   == <<rows, locals>>

Issued  == {t \in Tokens : family[t] # NoFamily}
Rotated == {t \in Tokens : replaced[t] # NoToken}
Live    == Issued \ revoked
Of(f)   == {t \in Issued : family[t] = f}
Unused  == {f \in Families : Of(f) = {}}

(* New jti and family_id values are random; one unused value is as good as another. *)
NewToken  == CHOOSE t \in Tokens \ Issued : TRUE
NewFamily == CHOOSE f \in Unused : TRUE

-----------------------------------------------------------------------------
(* Mutants.  Free: no row lock.  Usable: a revoked token is as good as any.  *)
(* Retired: the exchanged token is not revoked.  UserLocked: the account is  *)
(* not locked.  Waits: a request waits for the row it holds itself.          *)
FreeAlways(t)        == TRUE
UsableUntilRotated(t) == t \notin Rotated
RetiredNone(t)       == {}
UserNeverLocked      == FALSE
WaitsForItself(r)    == \E t \in doomed[r], q \in Requests : token[q] = t

(* FOR UPDATE is granted. *)
Free(t) == \A q \in Requests : token[q] # t

(* Neither exchanged nor revoked; the expiry is looked at separately. *)
Usable(t) == t \notin Rotated /\ t \notin revoked

(* The rows a rotation revokes *)
Retired(t) == {t}

(* The UPDATE has found a row that another request holds. *)
Waits(r) == \E t \in doomed[r], q \in Requests \ {r} : token[q] = t

(* reset_password and deactivate_own_account hold the users row FOR UPDATE.  A *)
(* new row of user_sessions or of the audit log takes a key share lock on it   *)
(* for its foreign key; an UPDATE of the account shuts out other UPDATEs only. *)
UserLocked  == \E q \in Requests : pc[q] \in {"resetting", "closing"}
UserUpdated == UserLocked \/ \E q \in Requests : pc[q] \in {"deactivating", "changing"}

(* The end of a request's transaction, by commit or rollback *)
Ends(r) ==
  /\ pc' = [pc EXCEPT ![r] = "idle"]
  /\ token' = [token EXCEPT ![r] = NoToken]
  /\ doomed' = [doomed EXCEPT ![r] = {}]

(* The UPDATE of revoke_token_family and its like starts. *)
Begin(r, S, place) ==
  /\ doomed' = [doomed EXCEPT ![r] = S \cap Live]
  /\ pc' = [pc EXCEPT ![r] = place]
  /\ UNCHANGED <<rows, token>>

-----------------------------------------------------------------------------
Init ==
  /\ family = [t \in Tokens |-> NoFamily] /\ replaced = [t \in Tokens |-> NoToken]
  /\ revoked = {} /\ old = {} /\ expired = {} /\ active = TRUE
  /\ pc = [r \in Requests |-> "idle"]
  /\ token = [r \in Requests |-> NoToken]
  /\ doomed = [r \in Requests |-> {}]

(* authenticate: the account may sign in; issue_session: a new family. *)
SignIn(r) ==
  /\ pc[r] = "idle" /\ active
  /\ pc' = [pc EXCEPT ![r] = "issuing"]
  /\ UNCHANGED <<rows, token, doomed>>

Issue(r) ==
  /\ pc[r] = "issuing" /\ ~UserLocked /\ Issued # Tokens /\ Unused # {}
  /\ family' = [family EXCEPT ![NewToken] = NewFamily]
  /\ Ends(r)
  /\ UNCHANGED <<replaced, revoked, old, expired, active>>

(* refresh_session: the signature and its expiry, then the row and its lock. *)
Refresh(r, t) ==
  /\ pc[r] = "idle" /\ t \in Issued \ expired /\ Free(t)
  /\ pc' = [pc EXCEPT ![r] = "locked"]
  /\ token' = [token EXCEPT ![r] = t]
  /\ UNCHANGED <<rows, doomed>>

(* REFRESH_ALREADY_ROTATED within the grace period, SESSION_REVOKED *)
Refuse(r) ==
  /\ pc[r] = "locked"
  /\ IF token[r] \in Rotated THEN token[r] \notin old ELSE token[r] \in revoked
  /\ Ends(r) /\ UNCHANGED rows

(* REFRESH_TOKEN_REUSE_DETECTED *)
Reused(r) ==
  /\ pc[r] = "locked" /\ token[r] \in Rotated /\ token[r] \in old
  /\ Begin(r, Of(family[token[r]]), "auditing")

(* REFRESH_TOKEN_EXPIRED, when the token expired while the request waited *)
Expired(r) ==
  /\ pc[r] = "locked" /\ Usable(token[r]) /\ token[r] \in expired
  /\ revoked' = revoked \cup {token[r]}
  /\ Ends(r)
  /\ UNCHANGED <<family, replaced, old, expired, active>>

(* The user is read without a lock; USER_INACTIVE revokes the family. *)
CheckUser(r) ==
  /\ pc[r] = "locked" /\ Usable(token[r]) /\ token[r] \notin expired
  /\ IF active THEN /\ pc' = [pc EXCEPT ![r] = "rotating"]
                    /\ UNCHANGED <<rows, token, doomed>>
               ELSE Begin(r, Of(family[token[r]]), "revoking")

(* The successor is inserted and the token retired in one commit. *)
Rotate(r) ==
  /\ pc[r] = "rotating" /\ ~UserLocked /\ Issued # Tokens
  /\ family' = [family EXCEPT ![NewToken] = family[token[r]]]
  /\ replaced' = [replaced EXCEPT ![token[r]] = NewToken]
  /\ revoked' = revoked \cup Retired(token[r])
  /\ Ends(r)
  /\ UNCHANGED <<old, expired, active>>

(* revoke_current_session: the row is read without a lock, whatever its state. *)
SignOut(r, t) ==
  /\ pc[r] = "idle" /\ t \in Issued \ expired
  /\ Begin(r, Of(family[t]), "revoking")

(* revoke_all_sessions (sign out everywhere), disable_mfa *)
RevokeAll(r) == pc[r] = "idle" /\ Begin(r, Issued, "revoking")

(* assign_role and remove_role: the account's roles, then its sessions *)
ChangeRoles(r) == pc[r] = "idle" /\ ~UserUpdated /\ Begin(r, Issued, "changing")

(* revoke_other_sessions (MFA set up): all but the browser's own family *)
RevokeOthers(r, t) ==
  /\ pc[r] = "idle" /\ t \in Issued \ expired
  /\ Begin(r, Issued \ Of(family[t]), "revoking")

(* set_user_active(False): the account and its sessions in one commit *)
Deactivate(r) == pc[r] = "idle" /\ active /\ ~UserUpdated /\ Begin(r, Issued, "deactivating")

(* reset_password *)
Reset(r) == pc[r] = "idle" /\ ~UserUpdated /\ Begin(r, Issued, "resetting")

(* deactivate_own_account *)
Close(r) == pc[r] = "idle" /\ ~UserUpdated /\ active /\ Begin(r, Issued, "closing")

(* The UPDATE has every row it found, and its transaction commits. *)
Revoke(r) ==
  /\ pc[r] \in {"revoking", "auditing", "changing", "deactivating", "resetting", "closing"}
  /\ ~Waits(r) /\ (pc[r] = "auditing" => ~UserLocked)
  /\ revoked' = revoked \cup doomed[r]
  /\ active' = (active /\ pc[r] \notin {"deactivating", "closing"})
  /\ Ends(r)
  /\ UNCHANGED <<family, replaced, old, expired>>

(* set_user_active(True) *)
Reactivate ==
  /\ ~active /\ ~UserUpdated /\ active' = TRUE
  /\ UNCHANGED <<family, replaced, revoked, old, expired, locals>>

(* A request is cut off and its transaction rolled back. *)
Abort(r) == pc[r] # "idle" /\ Ends(r) /\ UNCHANGED rows

GracePasses(t) ==
  /\ t \in Rotated \ old /\ old' = old \cup {t}
  /\ UNCHANGED <<family, replaced, revoked, expired, active, locals>>

Expires(t) ==
  /\ t \in Issued \ expired /\ expired' = expired \cup {t}
  /\ UNCHANGED <<family, replaced, revoked, old, active, locals>>

(* Steps of a request under way *)
Step(r) ==
  \/ Refuse(r) \/ Reused(r) \/ Expired(r) \/ CheckUser(r) \/ Rotate(r) \/ Issue(r) \/ Revoke(r)

Next ==
  \/ \E r \in Requests :
       \/ SignIn(r) \/ RevokeAll(r) \/ ChangeRoles(r) \/ Deactivate(r) \/ Reset(r) \/ Close(r)
       \/ Step(r) \/ Abort(r)
       \/ \E t \in Tokens : Refresh(r, t) \/ SignOut(r, t) \/ RevokeOthers(r, t)
  \/ \E t \in Tokens : GracePasses(t) \/ Expires(t)
  \/ Reactivate

(* A refresh that holds its row waits for the account, whose holder waits for *)
(* that row; or the tokens of this model are used up.                         *)
Stuck(r) ==
  \/ UserLocked /\ pc[r] \in {"rotating", "auditing"} /\ \E q \in Requests : token[r] \in doomed[q]
  \/ pc[r] \in {"rotating", "issuing"} /\ Issued = Tokens
  \/ pc[r] = "issuing" /\ Unused = {}

(* Requests go on; PostgreSQL serves those that wait for a row in turn, and   *)
(* ends one of two that wait for each other.                                  *)
Fairness ==
  \A r \in Requests : SF_vars(Step(r)) /\ WF_vars(Stuck(r) /\ Abort(r))

Spec == Init /\ [][Next]_vars /\ Fairness

-----------------------------------------------------------------------------
(* Types, and what belongs together: an exchanged token is revoked, and a    *)
(* row is locked only by a refresh.                                          *)
TypeOK ==
  /\ family \in [Tokens -> Families \cup {NoFamily}]
  /\ replaced \in [Tokens -> Tokens \cup {NoToken}]
  /\ revoked \subseteq Issued /\ Rotated \subseteq revoked /\ old \subseteq Rotated
  /\ expired \subseteq Issued /\ active \in BOOLEAN
  /\ pc \in [Requests -> {"idle", "issuing", "locked", "rotating", "revoking", "auditing",
                           "changing", "deactivating", "resetting", "closing"}]
  /\ token \in [Requests -> Issued \cup {NoToken}]
  /\ doomed \in [Requests -> SUBSET Issued]

(* A family has at most one token that can still be exchanged, however many  *)
(* tabs refresh at once and whatever revokes it meanwhile.                   *)
OneLivePerFamily == \A t, u \in Live : family[t] = family[u] => t = u

(* A family never forks: every token but its first is the successor          *)
(* recorded in exactly one other token of the same family.                   *)
Successors == {replaced[t] : t \in Rotated}
NoFork ==
  /\ \A t, u \in Rotated : replaced[t] = replaced[u] => t = u
  /\ \A t \in Rotated : replaced[t] \in Issued /\ family[replaced[t]] = family[t]
  /\ \A t, u \in Issued \ Successors : family[t] = family[u] => t = u

(* Nothing revives a family that has ended: not a refresh that was waiting   *)
(* for the row, not one that looked at the account before.                   *)
FamilyEndsForGood ==
  [][\A f \in Families : Of(f) # {} /\ Of(f) \cap Live = {} => (Of(f) \cap Live)' = {}]_vars

(* A new password set by reset, or an account closed by its owner, leaves no *)
(* session: no sign-in or refresh under way can slip past their UPDATE.      *)
ResetEndsAll ==
  [][\A r \in Requests : pc[r] \in {"resetting", "closing"} /\ Revoke(r) => Live' = {}]_vars

(* Every request comes to an end. *)
RequestsEnd == \A r \in Requests : pc[r] # "idle" ~> pc[r] = "idle"
=============================================================================
