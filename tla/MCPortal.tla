------------------------------ MODULE MCPortal ------------------------------
(***************************************************************************)
(* Small instances of Portal for TLC, one scene per run of the system:     *)
(* changes   a mutation while a request for each process is answered       *)
(* crowd     requests of one process for one answer, locks expire          *)
(* viewport  two viewports of the map   tour      three, more than kept    *)
(* requests  every kind of request      gis       a change seen by both    *)
(* renewal   requests, sign-ins and sign-outs of one page                  *)
(* shared    two requests that need the same refresh, sign-outs            *)
(* tabs      one request at a time, other tabs, sessions ended elsewhere   *)
(* badge     one notification, created, listed and read with all others    *)
(* toast     the same, read by itself                                      *)
(* stream    connections lost, sign-out and sign-in                        *)
(* lists     pages and counts of two notifications, read here or elsewhere *)
(* posts     one form posted twice      forms     two forms, one by one    *)
(* osm       imports, updates and a user who takes an object over          *)
(* adopt     two users take the same object over                           *)
(* areas     lookups of an area's item                                     *)
(* figures   imports of the city's statistics                              *)
(* lookups   two versions of a polygon, looked up together                 *)
(* alone     every step of one lookup at a time                            *)
(* queries   two queries, one connection                                   *)
(***************************************************************************)
EXTENDS Portal
CONSTANTS p1, p2, r1, r2, k1, v1, v2, c1, c2, n1, f1, o1, u1, q1, x1

VARIABLE scene

Cached  == scene \in {"changes", "crowd"}
Mapped  == scene \in {"viewport", "tour", "gis"}
Asked   == scene \in {"requests", "gis"}
Session == scene \in {"renewal", "shared", "tabs"}
Osm     == scene \in {"osm", "adopt"}
Looked  == scene \in {"lookups", "alone"}

(* What a part begins with varies in its scenes. *)
MCInit ==
  /\ scene \in {"changes", "crowd", "viewport", "tour", "requests", "gis", "renewal", "shared", "tabs",
                "badge", "toast", "stream", "lists", "posts", "forms", "osm", "adopt", "areas", "figures",
                "lookups", "alone", "queries"}
  /\ payload \in CASE scene = "changes" -> {"bytes"} [] scene = "crowd" -> {"json", "bytes"} [] OTHER -> {"json"}
  /\ view = v1
  /\ slot \in CASE scene = "requests" -> Slots [] scene = "gis" -> {"overview", "polygons"} [] OTHER -> {"overview"}
  /\ row \in IF scene \in {"stream", "lists"} THEN [Ids -> {"none", "unread", "read"}] ELSE {N!NoItems}
  /\ \A n \in Ids \ {n1} : (scene = "stream" => row[n] = "none") /\ (scene = "lists" => row[n] # "none")
  /\ stream = IF scene \in {"badge", "toast"} THEN "open" ELSE "none"
  /\ tags \in IF scene = "areas" THEN Items ELSE {q1}
  /\ replica \in IF scene = "osm" THEN {None, 0} ELSE {None}
  /\ seeded \in IF scene = "figures" THEN BOOLEAN ELSE {TRUE}
  /\ pause \in IF Looked THEN {0, Interval} ELSE {0}
  /\ known = {}
  /\ editions = (IF seeded THEN MaxEditions ELSE 0) /\ source = [g \in Figures |-> 1]
  /\ Init
  /\ ~Session => user = None /\ begun = {}
  /\ scene \in {"renewal", "shared"} => (user = None) = (begun = {})

Home(r) == IF r = r1 THEN p1 ELSE p2
Create(m) == (N!Find(m) /\ maker'[m].id = n1) \/ N!Save(m) \/ N!Publish(m)
FetchAll  == N!Fetch("list", Ids) \/ N!Serve

Step ==
  \/ /\ scene = "changes"
     /\ InCache(\/ \E m \in Mutations : C!Write(m) \/ C!Bump(m) \/ C!Commit(m)
                \/ C!Forget /\ memo'[p2] = memo[p2]
                \/ \E r \in Requests : C!Ask(r, Home(r)) \/ C!GetOrCompute(r))
  \/ /\ scene = "crowd"
     /\ InCache(C!Expire \/ C!Evict \/ \E r \in Requests : C!Ask(r, p1) \/ C!GetOrCompute(r))
  \/ /\ scene = "viewport"
     /\ InViewport(\/ \E v \in {v1, v2, Off} : V!Move(v)
                   \/ \E force \in BOOLEAN : V!Refresh(force)
                   \/ V!Return \/ V!Settle \/ V!Invalidate \/ V!Dispose)
  \/ scene = "tour" /\ InViewport(V!Refresh(FALSE) \/ V!Settle \/ \E v \in Viewports : V!Move(v))
  \/ scene = "requests" /\ InRequests(P!Next)
  \/ /\ scene = "gis"
     /\ \/ InRequests(P!Load(k1) \/ P!LoadPolygons(k1, FALSE) \/ P!Settle)
        \/ InViewport(V!Refresh(FALSE) \/ V!Settle)
        \/ InvalidateAfterPolygonMutation
  \/ /\ scene = "renewal"
     /\ InSession(\/ B!Flight \/ B!Expire \/ \E c \in Calls : B!Step(c)
                  \/ B!Send(c1, "api") \/ \E k \in {"login", "logout"} : B!Send(c2, k))
  \/ /\ scene = "shared"
     /\ InSession(\/ B!Flight \/ B!Expire \/ \E c \in Calls : B!Step(c)
                  \/ B!Send(c1, "api") \/ \E k \in {"api", "session", "logout"} : B!Send(c2, k))
  \/ /\ scene = "tabs"
     /\ InSession(\/ B!Flight \/ B!Expire \/ B!OtherTab \/ B!EndSession
                  \/ B!Step(c1) \/ \E k \in B!Kinds : B!Send(c1, k))
  \/ /\ scene = "badge"
     /\ InInbox(N!Realtime \/ FetchAll \/ N!MarkAllRead \/ N!Marks(All) \/ \E m \in Makers : Create(m))
  \/ /\ scene = "toast"
     /\ InInbox(N!Realtime \/ FetchAll \/ N!MarkRead(n1) \/ N!Marks(n1) \/ \E m \in Makers : Create(m))
  \/ /\ scene = "stream"
     /\ InInbox(\/ N!Connect \/ N!Ready \/ N!Subscribe \/ N!Disconnect \/ N!SignOut \/ N!SignIn
                \/ N!Realtime \/ N!ReadElsewhere \/ N!Cleanup
                \/ FetchAll \/ \E m \in Makers : Create(m))
  \/ /\ scene = "lists"
     /\ InInbox(\/ N!ReadElsewhere \/ N!Serve \/ N!MarkRead(n1) \/ N!MarkAllRead \/ N!Marks(n1) \/ N!Marks(All)
                \/ N!Fetch("list", {n1}) \/ N!Fetch("append", Ids) \/ N!Fetch("count", Ids))
  \/ /\ scene = "posts"
     /\ InForm(\/ F!GetToken(f1) \/ F!Restart \/ F!Tick \/ \E k \in F!Windows : F!Lapse(k)
               \/ \E o \in Posts : F!Post(o, f1) \/ F!Handler(o) \/ F!Cancel(o))
  \/ /\ scene = "forms"
     /\ InForm(F!Tick \/ F!Lapse("email") \/ F!Handler(o1) \/ \E f \in Forms : F!GetToken(f) \/ F!Post(o1, f))
  \/ /\ scene = "osm"
     /\ InOsm(\/ O!Import \/ O!Update \/ O!Change \/ O!Resolve
              \/ \E j \in O!Jobs : O!Script(j) \/ O!Process(j) \/ O!FailJob(j)
              \/ O!Read(u1) \/ O!Visit(u1) \/ O!FailVisit(u1))
     /\ adoption'[u1].at # "lookup"
  \/ scene = "adopt" /\ InOsm(\E a \in Adopters : O!Read(a) \/ O!Visit(a) \/ O!FailVisit(a))
  \/ scene = "areas" /\ InAreas(A!Next)
  \/ scene = "figures" /\ InFigures(I!Next)
  \/ /\ scene = "lookups"
     /\ InLookups(\/ L!Edit \/ L!Tick \/ \E k \in L!Versions : L!Task(k)
                  \/ \E x \in Visits : L!Read(x) \/ L!Visit(x))
     /\ \A x \in Visits \ {x1} : ~visit'[x].local
  \/ /\ scene = "alone"
     /\ InLookups(L!Edit \/ L!Lapse \/ L!Tick \/ (\E k \in L!Versions : L!Task(k))
                  \/ L!Read(x1) \/ L!Visit(x1) \/ L!Leave(x1))
  \/ scene = "queries" /\ InQueries(Q!Next)

MCNext == Step /\ UNCHANGED scene

(* Fairness of Portal: where a scene leaves a part alone its steps are not enabled, *)
(* and TLC need not try them.                                                       *)
MCFairness ==
  /\ \A r \in Requests : /\ WF_cacheVars(Cached /\ C!GetOrCompute(r))
                         /\ SF_cacheVars(Cached /\ C!Enter(r))
  /\ WF_viewportVars(Mapped /\ V!Settle) /\ WF_requestVars(Asked /\ P!Settle)
  /\ WF_sessionVars(Session /\ B!Flight) /\ \A c \in Calls : WF_sessionVars(Session /\ B!Step(c))
  /\ WF_osmVars(Osm /\ O!Working) /\ WF_osmVars(Osm /\ O!Answering)
  /\ \A r \in A!Runs : WF_areaVars(scene = "areas" /\ A!Step(r))
  /\ \A q \in Queries : WF_queryVars(scene = "queries" /\ Q!Step(q))

MCSpec == MCInit /\ [][MCNext]_<<all, scene>> /\ MCFairness
=============================================================================
