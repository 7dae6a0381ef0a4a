--------------------------- MODULE Administration ---------------------------
(***************************************************************************)
(* Who may use the site: accounts that their owners close                  *)
(* (backend/app/services/account_service.py) and that administrators       *)
(* deactivate, reactivate and give roles to (services/admin_users.py).     *)
(*                                                                         *)
(* Closing one's own account locks the account's row and then the rows of  *)
(* all active superusers; an administrator's decision only counts them,    *)
(* and writes its target unconditionally.                                  *)
(***************************************************************************)
EXTENDS Naturals, FiniteSets

CONSTANTS Users, Superusers, Requests, None

VARIABLES
  active,   \* users with is_active
  users,    \* rows of users
  manager,  \* users with the role VERWALTUNG, the only one there is
  req,
  raced     \* a superuser was deactivated while another one's removal was under way

vars == <<active, users, manager, req, raced>>

Idle == [at |-> "idle", u |-> None, locks |-> {}]
At(r, place) == req[r].at = place
Go(r, to)    == req' = [req EXCEPT ![r] = to]
End(r)       == Go(r, Idle)

SuperActive == Superusers \cap active

(* Mutants: no row lock; closing the last account is no special case. *)
FreeAlways(u, r) == TRUE
EnoughForOne     == Cardinality(SuperActive) >= 1

Free(u, r) == \A q \in Requests \ {r} : u \notin req[q].locks

(* LAST_SUPERUSER_REQUIRED otherwise *)
Enough == Cardinality(SuperActive) > 1

(* Requests under way that take a superuser away *)
Others(r) == {q \in Requests \ {r} : req[q].at \in {"closed", "deleted", "deactivating"}
                                      /\ req[q].u \in Superusers}

Found ==
  /\ manager \in SUBSET users
  /\ req = [r \in Requests |-> Idle] /\ raced = FALSE

Init == active = Users /\ users = Users /\ Found

-----------------------------------------------------------------------------
(* post_deactivate_user_me, delete_user_me: _lock_user_and_protect_last_superuser *)
Close(r, u, as) ==
  /\ At(r, "idle") /\ u \in active /\ Free(u, r)
  /\ Go(r, [at |-> IF u \in Superusers THEN "counting" ELSE as, u |-> u, locks |-> {u}])
  /\ UNCHANGED <<active, users, manager, raced>>

(* The rows are locked in the order of their ids; one that is deactivated while the request *)
(* waits is not among them.                                                                  *)
CountLocked(r, as) ==
  /\ At(r, "counting") /\ \A s \in SuperActive : Free(s, r)
  /\ IF Enough THEN Go(r, [req[r] EXCEPT !.at = as, !.locks = @ \cup SuperActive])
               ELSE End(r)
  /\ raced' = (raced \/ (Enough /\ \E q \in Others(r) : At(q, "deactivating")))
  /\ UNCHANGED <<active, users, manager>>

(* deactivate_own_account; delete_own_account also removes the row. *)
Closed(r) ==
  LET u == req[r].u IN
  /\ req[r].at \in {"closed", "deleted"}
  /\ active' = active \ {u}
  /\ users' = IF At(r, "deleted") THEN users \ {u} ELSE users
  /\ manager' = manager \cap users'
  /\ End(r) /\ UNCHANGED raced

SelfService(r) ==
  \/ \E u \in Users, as \in {"closed", "deleted"} : Close(r, u, as)
  \/ \E as \in {"closed", "deleted"} : CountLocked(r, as)
  \/ Closed(r)

-----------------------------------------------------------------------------
(* require_superuser looks at the actor when the request comes in. *)
MayDecide(actor) == actor \in SuperActive

(* set_user_active, assign_role, remove_role: what they refuse *)
Refused(actor, u, what) ==
  CASE what = "deactivating" -> u = actor \/ u \notin active \/ (u \in Superusers /\ ~Enough)
    [] what = "activating"   -> u \in active
    [] what = "assigning"    -> u \in manager
    [] what = "removing"     -> u \notin manager

Decide(r, actor, u, what) ==
  /\ At(r, "idle") /\ MayDecide(actor) /\ u \in users /\ ~Refused(actor, u, what)
  /\ Go(r, [Idle EXCEPT !.at = what, !.u = u])
  /\ raced' = (raced \/ (what = "deactivating" /\ u \in Superusers /\ Others(r) # {}))
  /\ UNCHANGED <<active, users, manager>>

Decisions == {"deactivating", "activating", "assigning", "removing"}

(* An UPDATE by primary key; where the row is gone it fails. *)
Commit(r) ==
  LET u == req[r].u IN
  /\ req[r].at \in Decisions /\ Free(u, r)
  /\ IF u \in users
     THEN /\ active' = CASE At(r, "deactivating") -> active \ {u}
                         [] At(r, "activating")   -> active \cup {u}
                         [] OTHER                 -> active
          /\ manager' = CASE At(r, "assigning") -> manager \cup {u}
                          [] At(r, "removing")  -> manager \ {u}
                          [] OTHER              -> manager
     ELSE UNCHANGED <<active, manager>>
  /\ End(r) /\ UNCHANGED <<users, raced>>

Administer(r) ==
  \/ \E actor, u \in Users, what \in Decisions : Decide(r, actor, u, what)
  \/ Commit(r)

(* An error, or a deadlock between two who close their accounts, which the database breaks *)
Rollback(r) ==
  /\ ~At(r, "idle") /\ End(r)
  /\ UNCHANGED <<active, users, manager, raced>>

Next == \E r \in Requests : SelfService(r) \/ Administer(r) \/ Rollback(r)
Spec == Init /\ [][Next]_vars

-----------------------------------------------------------------------------
TypeOK ==
  /\ active \subseteq users /\ users \subseteq Users /\ manager \subseteq users
  /\ \A r \in Requests : req[r].locks \subseteq Users

(* Somebody can administer the site, whoever closes accounts at the same time: the two last *)
(* superusers cannot both leave.  A deactivation that counted while another superuser's     *)
(* removal was under way is the exception: it holds no lock.                                *)
LastAdministratorStays == SuperActive # {} \/ raced
=============================================================================
