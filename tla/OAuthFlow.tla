------------------------------ MODULE OAuthFlow ------------------------------
(***************************************************************************)
(* Signing in and linking with an account at another service               *)
(* (backend/app/api/auth.py, auth/oauth.py, services/mastodon_sso.py,      *)
(* services/oauth_account_service.py).  A flow starts with a cookie; for   *)
(* Mastodon the site also registers itself with the instance, once, and    *)
(* keeps a grant, which the callback takes away before anything else.      *)
(***************************************************************************)
EXTENDS Naturals, FiniteSets

CONSTANTS
  Users, Identities,
  ServiceOf,  \* [Identities -> {"mastodon", "github", "google"}]
  Claimed,    \* identities whose address is that of an account they are not linked to
  States,     \* values of the state parameter
  Requests, None,
  MaxApps     \* bound: applications the instance registers

Services == {ServiceOf[i] : i \in Identities}

(* Rows: a flow that has begun, a grant *)
Started == [mode : {"login", "link"}, service : Services, u : Users \cup {None}, s : States]
Grant   == [lapsed : BOOLEAN]

VARIABLES
  users, active,
  owner,       \* user_oauth_accounts
  cookie,      \* the browser's flow cookie for each service
  grant,       \* oauth_flow_grants
  app,         \* mastodon_oauth_instances: the row of one instance
  registered,  \* applications the instance has registered for the site
  lost,        \* of these, the ones whose credentials were never committed
  req,
  used, again  \* grants that have led to a sign-in or a link; that have done so twice

apps    == <<app, registered, lost>>
history == <<used, again>>
vars    == <<users, active, owner, cookie, grant, apps, req, history>>

Idle == [at |-> "idle", flow |-> None, i |-> None, u |-> None, locks |-> {}]
At(r, place) == req[r].at = place
Go(r, to)    == req' = [req EXCEPT ![r] = to]
End(r)       == Go(r, Idle)

(* Mutants: no advisory lock; the grant stays until it expires. *)
FreeAlways(x, r) == TRUE
WithoutNothing(s) == grant
Free(x, r) == \A q \in Requests \ {r} : x \notin req[q].locks

LinkedBy(u, service) == {i \in Identities : owner[i] = u /\ ServiceOf[i] = service}
NoCookie(r) == cookie' = [cookie EXCEPT ![req[r].flow.service] = None]

Found ==
  /\ cookie = [s \in Services |-> None] /\ grant = [s \in States |-> None]
  /\ app = [known |-> FALSE, backoff |-> FALSE] /\ registered = 0 /\ lost = 0
  /\ req = [r \in Requests |-> Idle] /\ used = {} /\ again = {}

Init ==
  /\ users \in SUBSET Users /\ active = users
  /\ owner \in [Identities -> users \cup {None}]
  /\ Found

-----------------------------------------------------------------------------
(* The start of a flow: oauth_login, oauth_link and their Mastodon counterparts *)
Flows == [mode : {"login", "link"}, service : Services, u : Users \cup {None}]

MayStart(f) == IF f.mode = "link" THEN f.u \in active /\ LinkedBy(f.u, f.service) = {}
                                  ELSE f.u = None

InHand(s) == \/ \E v \in Services : cookie[v] # None /\ cookie[v].s = s
             \/ \E r \in Requests : req[r].flow # None /\ req[r].flow.s = s
Unstarted == {s \in States : grant[s] = None /\ s \notin used /\ ~InHand(s)}
Given(f, s) == [mode |-> f.mode, service |-> f.service, u |-> f.u, s |-> s]

(* A signed cookie is all there is of a flow of the other services. *)
OAuthStart(r, f) ==
  /\ At(r, "idle") /\ f.service # "mastodon" /\ MayStart(f)
  /\ \E s \in Unstarted : cookie' = [cookie EXCEPT ![f.service] = Given(f, s)]
  /\ UNCHANGED <<users, active, owner, grant, apps, req, history>>

MastodonStart(r, f) ==
  /\ At(r, "idle") /\ f.service = "mastodon" /\ MayStart(f)
  /\ \E s \in Unstarted : Go(r, [Idle EXCEPT !.at = "app", !.flow = Given(f, s)])
  /\ UNCHANGED <<users, active, owner, cookie, grant, apps, history>>

(* get_or_register_mastodon_app: pg_advisory_xact_lock until its commit *)
LockApp(r) ==
  /\ At(r, "app") /\ Free("app", r)
  /\ IF app.known THEN Go(r, [req[r] EXCEPT !.at = "flow"])
     ELSE IF app.backoff THEN End(r)
     ELSE Go(r, [req[r] EXCEPT !.at = "registering", !.locks = {"app"}])
  /\ UNCHANGED <<users, active, owner, cookie, grant, apps, history>>

(* validate_instance and register_application *)
Register(r) ==
  /\ At(r, "registering") /\ registered < MaxApps
  /\ registered' = registered + 1
  /\ Go(r, [req[r] EXCEPT !.at = "registered"])
  /\ UNCHANGED <<users, active, owner, cookie, grant, app, lost, history>>

(* The failure is committed with the time of the next attempt. *)
RegisterFails(r) ==
  /\ At(r, "registering")
  /\ app' = [app EXCEPT !.backoff = TRUE]
  /\ End(r)
  /\ UNCHANGED <<users, active, owner, cookie, grant, registered, lost, history>>

KeepApp(r) ==
  /\ At(r, "registered")
  /\ app' = [known |-> TRUE, backoff |-> FALSE]
  /\ Go(r, [req[r] EXCEPT !.at = "flow", !.locks = {}])
  /\ UNCHANGED <<users, active, owner, cookie, grant, registered, lost, history>>

(* create_mastodon_oauth_flow: expired grants go, the new one comes with the cookie. *)
NewGrant(r) ==
  LET f == req[r].flow IN
  /\ At(r, "flow")
  /\ grant' = [s \in States |-> IF s = f.s THEN [lapsed |-> FALSE]
                                ELSE IF grant[s] # None /\ grant[s].lapsed THEN None ELSE grant[s]]
  /\ cookie' = [cookie EXCEPT !["mastodon"] = f]
  /\ End(r)
  /\ UNCHANGED <<users, active, owner, apps, history>>

Start(r) ==
  \/ \E f \in Flows : OAuthStart(r, f) \/ MastodonStart(r, f)
  \/ LockApp(r) \/ Register(r) \/ RegisterFails(r) \/ KeepApp(r) \/ NewGrant(r)

-----------------------------------------------------------------------------
(* oauth_callback.  The browser may call it twice with the same cookie. *)

(* consume_mastodon_oauth_flow: DELETE ... RETURNING, committed at once *)
Without(s)  == [grant EXCEPT ![s] = None]
Consumed(s) == grant[s] # None /\ ~grant[s].lapsed

Callback(r, service) ==
  LET f == cookie[service] IN
  /\ At(r, "idle") /\ f # None
  /\ IF service = "mastodon" /\ ~Consumed(f.s)
     THEN /\ cookie' = [cookie EXCEPT ![service] = None]
          /\ UNCHANGED <<grant, req>>
     ELSE /\ Go(r, [Idle EXCEPT !.at = "exchanging", !.flow = f])
          /\ grant' = IF service = "mastodon" THEN Without(f.s) ELSE grant
          /\ UNCHANGED cookie
  /\ UNCHANGED <<users, active, owner, apps, history>>

(* The user is asked, the code exchanged: an identity of the service, or a failure. *)
Exchange(r) ==
  /\ At(r, "exchanging")
  /\ \E i \in Identities : ServiceOf[i] = req[r].flow.service
                           /\ Go(r, [req[r] EXCEPT !.at = req[r].flow.mode, !.i = i])
  /\ UNCHANGED <<users, active, owner, cookie, grant, apps, history>>

(* Access denied, no exchange, another user signed in meanwhile, a conflict *)
Fail(r) ==
  /\ req[r].at \in {"exchanging", "link", "login", "linking", "creating"}
  /\ NoCookie(r) /\ End(r)
  /\ UNCHANGED <<users, active, owner, grant, apps, history>>

Completes(r) ==
  LET S == IF req[r].flow.service = "mastodon" THEN {req[r].flow.s} ELSE {} IN
  used' = used \cup S /\ again' = again \cup (used \cap S)

(* link_oauth_account, for the user who is signed in and began the flow *)
MayLink(i, u) == owner[i] \in {None, u} /\ LinkedBy(u, ServiceOf[i]) \subseteq {i}
Link(r) ==
  /\ At(r, "link") /\ req[r].flow.u \in active /\ MayLink(req[r].i, req[r].flow.u)
  /\ Go(r, [req[r] EXCEPT !.at = "linking"])
  /\ UNCHANGED <<users, active, owner, cookie, grant, apps, history>>

(* The commit checks both unique constraints again. *)
Linked(r) ==
  /\ At(r, "linking") /\ MayLink(req[r].i, req[r].flow.u)
  /\ owner' = [owner EXCEPT ![req[r].i] = req[r].flow.u]
  /\ Completes(r) /\ NoCookie(r) /\ End(r)
  /\ UNCHANGED <<users, active, grant, apps>>

(* authenticate_oauth_identity: the account it is linked to, or a new one. *)
Known(r) ==
  /\ At(r, "login") /\ owner[req[r].i] \in active
  /\ Go(r, [req[r] EXCEPT !.at = "in", !.u = owner[req[r].i]])
  /\ UNCHANGED <<users, active, owner, cookie, grant, apps, history>>

NewUser(r) ==
  /\ At(r, "login") /\ owner[req[r].i] = None /\ req[r].i \notin Claimed
  /\ Go(r, [req[r] EXCEPT !.at = "creating"])
  /\ UNCHANGED <<users, active, owner, cookie, grant, apps, history>>

(* Where another request has linked the identity meanwhile, its account is taken. *)
Created(r) ==
  LET i == req[r].i IN
  /\ At(r, "creating")
  /\ IF owner[i] = None
     THEN \E u \in Users \ users :
            /\ users' = users \cup {u} /\ active' = active \cup {u}
            /\ owner' = [owner EXCEPT ![i] = u]
            /\ Go(r, [req[r] EXCEPT !.at = "in", !.u = u])
     ELSE /\ owner[i] \in active
          /\ Go(r, [req[r] EXCEPT !.at = "in", !.u = owner[i]])
          /\ UNCHANGED <<users, active, owner>>
  /\ UNCHANGED <<cookie, grant, apps, history>>

(* A challenge or a session of this user: SignIn *)
SignedIn(r) ==
  /\ At(r, "in")
  /\ Completes(r) /\ NoCookie(r) /\ End(r)
  /\ UNCHANGED <<users, active, owner, grant, apps>>

Return(r) ==
  \/ \E service \in Services : Callback(r, service)
  \/ Exchange(r) \/ Fail(r) \/ Link(r) \/ Linked(r) \/ Known(r) \/ NewUser(r) \/ Created(r)

-----------------------------------------------------------------------------
(* A request that ends in the middle; what the instance registered stays with it. *)
Rollback(r) ==
  /\ ~At(r, "idle") /\ End(r)
  /\ lost' = IF At(r, "registered") THEN lost + 1 ELSE lost
  /\ UNCHANGED <<users, active, owner, cookie, grant, app, registered, history>>

Time ==
  /\ \/ \E s \in States : /\ grant[s] # None
                          /\ grant' = [grant EXCEPT ![s].lapsed = TRUE] /\ UNCHANGED app
     \/ app' = [app EXCEPT !.backoff = FALSE] /\ UNCHANGED grant
  /\ UNCHANGED <<users, active, owner, cookie, registered, lost, req, history>>

Next == (\E r \in Requests : Start(r) \/ Return(r) \/ SignedIn(r) \/ Rollback(r)) \/ Time
Spec == Init /\ [][Next]_vars

-----------------------------------------------------------------------------
TypeOK ==
  /\ active \subseteq users /\ users \subseteq Users
  /\ owner \in [Identities -> Users \cup {None}]
  /\ cookie \in [Services -> Started \cup {None}] /\ grant \in [States -> Grant \cup {None}]
  /\ registered \in 0..MaxApps /\ lost \in 0..MaxApps

(* A grant leads to one sign-in or link, though the callback is called again and again. *)
GrantsOnce == again = {}

(* The instance knows the site by one application, but for those whose credentials were *)
(* lost with the request that registered them.                                          *)
RegisteredOnce == registered <= 1 + lost
=============================================================================
