------------------------------ MODULE Accounts ------------------------------
(***************************************************************************)
(* Accounts: how they are signed in to (SignIn), the links mailed to their *)
(* owners (AccountTokens), sign-in with other services (OAuthFlow), who    *)
(* may use the site at all (Administration), and the account's picture     *)
(* (Avatars), which is apart.  The others share the users' rows            *)
(* (active, password, users) and the linked identities (owner): a reset    *)
(* gives the account a password, a deactivation ends a sign-in half way, a *)
(* returning OAuth flow is asked for the second factor.                    *)
(***************************************************************************)
EXTENDS SignIn

CONSTANTS
  Users, Superusers,                   \* Administration
  Addresses, Resets, Confirmations,    \* AccountTokens
  ServiceOf, Claimed, States, MaxApps, \* OAuthFlow
  MaxFiles                             \* Avatars

ASSUME UserAssumption    == Account \in Users /\ Superusers \subseteq Users /\ None \notin Users
ASSUME AddressAssumption == Addresses \cap {None, "pending"} = {} /\ None # "pending"
ASSUME PictureAssumption == None \notin Nat \cup Requests /\ MaxFiles \in Nat \ {0}

VARIABLES
  users, manager, adminReq, adminRaced,
  email, verified, reset, confirmation, linkReq, linkUsed, linkAgain, proven, linkRaced,
  cookie, grant, app, registered, lost, flowReq, flowUsed, flowAgain,
  named, exists, files, drawn, upload, holder, unsure, stray

A == INSTANCE Administration WITH req <- adminReq, raced <- adminRaced
T == INSTANCE AccountTokens WITH req <- linkReq, used <- linkUsed, again <- linkAgain,
                                 raced <- linkRaced
F == INSTANCE OAuthFlow WITH req <- flowReq, used <- flowUsed, again <- flowAgain
P == INSTANCE Avatars WITH Uploads <- Requests

ASSUME TokenAssumption == /\ None \notin UNION {T!Reset, T!Confirmation, Resets, Confirmations}
                          /\ Resets \cap Confirmations = {} /\ "user" \notin Resets \cup Confirmations
ASSUME FlowAssumption == None \notin F!Started \cup F!Grant \cup Identities /\ MaxApps \in Nat

keyring == <<keys, factors, rows, req, clock, history, excused>>
theirs  == <<manager, adminReq, adminRaced>>
tokens  == <<verified, reset, confirmation, linkReq, linkUsed, linkAgain, proven, linkRaced>>
links   == <<email, tokens>>
flows   == <<cookie, grant, app, registered, lost, flowReq, flowUsed, flowAgain>>
face    == <<named, exists, files, drawn, upload, holder, unsure, stray>>
all     == <<ways, users, keyring, theirs, links, flows, face>>

(* An account that another service's identity has brought has no address yet; one that *)
(* was deleted does not come back.                                                      *)
Arrival == IF Account \in users' \ users THEN email = None /\ email' = "pending"
                                         ELSE email' = email

InSignIn(step)         == step /\ UNCHANGED <<users, theirs, links, flows, face>>
InAdministration(step) == step /\ UNCHANGED <<password, owner, keyring, links, flows, face>>
InTokens(step)         == step /\ users' = users \cup active' /\ UNCHANGED <<owner, keyring, theirs, flows, face>>
InFlows(step)          == step /\ Arrival /\ UNCHANGED <<password, keyring, theirs, tokens, face>>
InPictures(step)       == step /\ UNCHANGED <<ways, users, keyring, theirs, links, flows>>

(* The end of oauth_callback: whoever the flow leads to the account of goes on like *)
(* one who has typed the password.                                                   *)
FlowSignsIn ==
  \E q, r \in Requests :
    /\ F!SignedIn(q)
    /\ IF flowReq[q].u = Account THEN Begin(r) ELSE r = q /\ UNCHANGED <<ways, keyring>>
    /\ UNCHANGED <<password, theirs, links, face>>

Flow == \E r \in Requests : F!Start(r) \/ F!Return(r) \/ F!Rollback(r)

(* No request makes a superuser: whoever installs the site makes the first one. *)
Installed == Superusers \cap users # {}

Found2 == Found /\ A!Found /\ T!Found /\ F!Found /\ P!Init

Init2 ==
  /\ users \in SUBSET Users /\ Installed /\ active = users /\ password \in SUBSET {Account}
  /\ owner \in [Identities -> users \cup {None}]
  /\ Found2 /\ IF Account \in users THEN WayIn /\ email # None
                                 ELSE password = {} /\ Links = {} /\ keys = {} /\ email = None

Next2 ==
  \/ InSignIn((\E r \in Requests : Auth(r)) \/ Lapse \/ Tick)
  \/ InAdministration(A!Next)
  \/ InTokens(T!Next)
  \/ InFlows(Flow \/ F!Time)
  \/ InPictures(P!Next)
  \/ FlowSignsIn

Spec2 == Init2 /\ [][Next2]_all

(* The values the components' rows may hold *)
AccountsTypeOK == TypeOK /\ A!TypeOK /\ T!TypeOK /\ F!TypeOK /\ P!TypeOK

(* What may be used once is used once: challenges, ceremonies, codes, links, grants.  Of an *)
(* account's challenges and of its links to reset the password one is good at a time, an     *)
(* authenticator asked for is one that was shown, a confirmed address the account's.         *)
WorksOnce == /\ AccountsTypeOK /\ UsedOnce /\ OneLiveChallenge /\ EnabledIsConfirmed
             /\ T!TokensOnce /\ T!OneOpenReset /\ T!VerifiedIsProven
             /\ F!GrantsOnce /\ F!RegisteredOnce

(* Somebody remains who can administer the site, as Administration states it. *)
LastAdministratorStays == A!LastAdministratorStays

(* The picture the account names is there, and none is kept that it does not name, as *)
(* Avatars states it.                                                                  *)
PictureIsKept == P!PictureIsKept
=============================================================================
