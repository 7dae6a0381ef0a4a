------------------------------- MODULE Portal -------------------------------
(***************************************************************************)
(* A visitor's page and what answers it: the kept answers of the server    *)
(* (ResponseCache), the map's objects (MapViewport), the other requests of *)
(* the page (PageRequests), who it believes is signed in (BrowserSession), *)
(* the notifications (Notifications), the contact form (ContactForm), and  *)
(* the data behind it: OpenStreetMap (OsmData) with the items of its areas *)
(* (AreaMatching) and the city's statistics (StatisticsImport); what there *)
(* is in OpenStreetMap about one polygon (PolygonLookup), and the pool of  *)
(* connections that queries share (PublicQueries).  The parts of the page  *)
(* meet where a polygon was changed: one handler drops what the stores     *)
(* have fetched (useGisInvalidation).                                      *)
(***************************************************************************)
EXTENDS Naturals, FiniteSets

CONSTANTS
  None,
  Processes, Requests, Mutations,                    \* ResponseCache
  Viewports, Off, CacheSize, MaxLoads,               \* MapViewport
  Slots, Keys, MaxSends,                             \* PageRequests
  Calls, Sessions,                                   \* BrowserSession
  Ids, Makers, MaxQueue, MaxCount, All,              \* Notifications
  Forms, Posts, Lifetime, MinAge, Attempts, MaxClock, \* ContactForm
  Adopters, MaxPlanet, Chunk, MaxFaults, MaxImports, \* OsmData
  Items, MaxSyncs,                                   \* AreaMatching
  Figures, Values, Absent, MaxEditions,              \* StatisticsImport
  Visits, MaxVersion, Interval,                      \* PolygonLookup
  Queries, PoolSize, MaxTools                        \* PublicQueries

ASSUME NullAssumption  == None \notin Nat \cup Keys \cup Values \cup {Absent, "post", "cli", "OSM", "MANUAL"}
                            \cup [of : Viewports \cup {Off}, age : Nat]
ASSUME BoundAssumption ==
  /\ {CacheSize, MaxLoads, MaxSends, MaxQueue, Lifetime, MinAge, MaxClock, MaxVersion, Interval,
      PoolSize, MaxTools, MaxPlanet, Chunk} \subseteq Nat
  /\ MaxQueue > 0 /\ MaxVersion > 0 /\ MaxTools > 0
ASSUME InboxAssumption == IsFiniteSet(Ids) /\ All \notin Ids
ASSUME CountAssumption == IsFiniteSet(Mutations) /\ IsFiniteSet(Queries)

VARIABLES
  payload, version, rows, born, memo, entry, lock, local, mut, get,
  view, data, dataKey, lastKey, loaded, generation, loading, error, controller, flights, cached,
  drawn, age, passed,
  slot, current, active, sent, asked, selected, shown, kept, waiting, failed, overtaken,
  jar, begun, over, user, refreshing, refresh, call, left, how,
  row, maker, signed, stream, queue, items, unreadCount, fetch, mark, exact,
  clock, issued, pending, used, counted, post, mailed, twice, excused,
  planet, stage, replica, job, site, adoption, polygon, budget, behind, late, together,
  tags, area, holder, draft, syncs, run, confirmed, crossed, overtook,
  source, editions, seeded, table, import, sure,
  edition, answers, task, line, pause, visit, crowded,
  known, through, query

C == INSTANCE ResponseCache
V == INSTANCE MapViewport
P == INSTANCE PageRequests WITH flights <- sent, loading <- waiting, passed <- overtaken
B == INSTANCE BrowserSession
N == INSTANCE Notifications
F == INSTANCE ContactForm
O == INSTANCE OsmData
A == INSTANCE AreaMatching WITH overtaken <- overtook
I == INSTANCE StatisticsImport
L == INSTANCE PolygonLookup WITH version <- edition, kept <- answers
Q == INSTANCE PublicQueries WITH kept <- known, lock <- through

cacheVars    == <<payload, version, rows, born, memo, entry, lock, local, mut, get>>
viewportVars == <<view, data, dataKey, lastKey, loaded, generation, loading, error, controller,
                  flights, cached, drawn, age, passed>>
requestVars  == <<slot, current, active, sent, asked, selected, shown, kept, waiting, failed, overtaken>>
sessionVars  == <<jar, begun, over, user, refreshing, refresh, call, left, how>>
inboxVars    == <<row, maker, signed, stream, queue, items, unreadCount, fetch, mark, exact>>
formVars     == <<clock, issued, pending, used, counted, post, mailed, twice, excused>>
osmVars      == <<planet, stage, replica, job, site, adoption, polygon, budget, behind, late, together>>
areaVars     == <<tags, area, holder, draft, syncs, run, confirmed, crossed, overtook>>
figureVars   == <<source, editions, seeded, table, import, sure>>
lookupVars   == <<edition, answers, task, line, pause, visit, crowded>>
queryVars    == <<known, through, query>>

pageVars == <<viewportVars, requestVars, sessionVars, inboxVars>>
askVars  == <<lookupVars, queryVars>>
dataVars == <<formVars, osmVars, areaVars, figureVars, askVars>>
all      == <<cacheVars, pageVars, dataVars>>

Init == C!Init /\ V!Init /\ P!Init /\ B!Init /\ N!Init /\ F!Init /\ O!Init /\ A!Init /\ I!Init
        /\ L!Init /\ Q!Init

InCache(step)    == step /\ UNCHANGED <<pageVars, dataVars>>
InViewport(step) == step /\ UNCHANGED <<cacheVars, requestVars, sessionVars, inboxVars, dataVars>>
InRequests(step) == step /\ UNCHANGED <<cacheVars, viewportVars, sessionVars, inboxVars, dataVars>>
InSession(step)  == step /\ UNCHANGED <<cacheVars, viewportVars, requestVars, inboxVars, dataVars>>
InInbox(step)    == step /\ UNCHANGED <<cacheVars, viewportVars, requestVars, sessionVars, dataVars>>
InForm(step)     == step /\ UNCHANGED <<cacheVars, pageVars, osmVars, areaVars, figureVars, askVars>>
InOsm(step)      == step /\ UNCHANGED <<cacheVars, pageVars, formVars, areaVars, figureVars, askVars>>
InAreas(step)    == step /\ UNCHANGED <<cacheVars, pageVars, formVars, osmVars, figureVars, askVars>>
InFigures(step)  == step /\ UNCHANGED <<cacheVars, pageVars, formVars, osmVars, areaVars, askVars>>

Apart               == UNCHANGED <<cacheVars, pageVars, formVars, osmVars, areaVars, figureVars>>
InLookups(step)     == step /\ Apart /\ UNCHANGED queryVars
InQueries(step)     == step /\ Apart /\ UNCHANGED lookupVars

(* useGisInvalidation: the list of polygons, the analytics, and the viewport with its detail *)
InvalidateAfterPolygonMutation ==
  /\ P!Invalidate \/ (slot \in {"overview", "detail"} /\ P!Clear)
  /\ V!Invalidate
  /\ UNCHANGED <<cacheVars, sessionVars, inboxVars, dataVars>>

Next ==
  \/ InCache(C!Next) \/ InViewport(V!Next) \/ InRequests(P!Next)
  \/ InSession(B!Next) \/ InInbox(N!Next) \/ InForm(F!Next)
  \/ InOsm(O!Next) \/ InAreas(A!Next) \/ InFigures(I!Next)
  \/ InLookups(L!Next) \/ InQueries(Q!Next)
  \/ InvalidateAfterPolygonMutation

(* Every process, request and timer goes on: the network answers or fails, a lock of *)
(* asyncio is handed to whoever waits longest, systemd starts a timer's unit again.  *)
Fairness == C!Fairness /\ V!Fairness /\ P!Fairness /\ B!Fairness /\ O!Fairness /\ A!Fairness /\ Q!Fairness

Spec == Init /\ [][Next]_all /\ Fairness

-----------------------------------------------------------------------------
(* The values the components hold *)
PortalTypeOK == C!TypeOK /\ V!TypeOK /\ P!TypeOK /\ B!TypeOK /\ N!TypeOK /\ F!TypeOK
                /\ O!TypeOK /\ A!TypeOK /\ I!TypeOK /\ L!TypeOK /\ Q!TypeOK

(* What is kept is current: an answer kept by the server shows every change  *)
(* its version stands for (get_or_compute, bump_cache_versions), nothing the *)
(* map keeps was fetched before the last change its page has seen, the site  *)
(* shows OpenStreetMap as it was at one moment (postprocess_osm), the items  *)
(* of its areas belong to their tags (wikidata_enrichment), the figures are  *)
(* the city's (flensburg_statistics_import), and what is kept about a polygon *)
(* is about its geometry (osm_lookup).                                       *)
CopiesAreCurrent ==
  /\ PortalTypeOK /\ C!KeptIsCurrent /\ V!NothingFromBefore
  /\ O!SiteIsWhole /\ A!MatchIsOfTags /\ I!FiguresArePublished
  /\ L!KeptOfItsVersion

(* What comes late loses: the last viewport and the last request win, a      *)
(* refresh overtaken by a sign-out does not sign in, a notification that     *)
(* comes twice is counted once, a form posted twice sends one message, an    *)
(* object is taken over once, a lookup does not replace what was confirmed,  *)
(* lookups that wait for Overpass do not reach it together, and who waits for *)
(* the language model keeps no connection from the others.                   *)
LatecomersLose ==
  /\ V!LastViewportWins /\ P!LastRequestWins /\ B!SignedOutStays
  /\ N!CountedOnce /\ F!OneMailPerForm /\ O!TakenOnce /\ A!ConfirmedStays
  /\ L!Spaced /\ Q!AskingHoldsNothing

(* What is asked for ends: requests of the cache, of the page and of the     *)
(* session, whoever holds the lock or renews the session for them, no        *)
(* spinner turns for ever, queries end, whoever holds the connections that   *)
(* others wait for, and the site catches up with OpenStreetMap whatever      *)
(* fails on the way.                                                         *)
EverythingEnds ==
  /\ C!Answered /\ V!SpinnerStops /\ P!SpinnerStops /\ B!CallsEnd
  /\ O!CatchesUp /\ A!SyncsEnd /\ Q!QueriesEnd
=============================================================================
