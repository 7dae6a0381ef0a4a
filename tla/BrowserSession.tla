--------------------------- MODULE BrowserSession ---------------------------
(***************************************************************************)
(* Who a page believes is signed in (frontend/app/stores/auth.ts), with    *)
(* requests that renew an expired session by themselves                    *)
(* (composables/useApi.ts, utils/authRetry.ts).  The cookies belong to the *)
(* browser: other tabs change them too.  A session is alive or over here;  *)
(* what the server does with its tokens is RefreshSessions.  A generation  *)
(* is only ever compared with the one a refresh began under, so same says  *)
(* whether it is still that one.                                           *)
(***************************************************************************)
EXTENDS Naturals, FiniteSets

CONSTANTS
  Calls,     \* the requests that may be under way at once
  Sessions,  \* the sessions that sign-ins may begin
  None

VARIABLES
  jar,         \* the cookies: a session, and whether the access token is still good
  begun, over, \* sessions begun, and ended on the server
  user,        \* the store's user, named by the session it was told of
  refreshing,
  refresh,     \* activeRefresh and performRefresh
  call,
  left,        \* sessions this page has signed out of or was told are over
  how          \* what signed the user in: "login", "session", "refresh", "late" or "none"

vars == <<jar, begun, over, user, refreshing, refresh, call, left, how>>

NoCookies == [of |-> None, fresh |-> FALSE]
Good(s)   == [of |-> s, fresh |-> TRUE]
NoRefresh == [at |-> "none", of |-> None, same |-> TRUE, since |-> FALSE]
Quiet     == [kind |-> "none", at |-> "idle", jar |-> NoCookies, again |-> FALSE]
Kinds     == {"api", "session", "login", "logout", "leave"}

-----------------------------------------------------------------------------
(* Mutant: performRefresh applies its answer whatever the generation.        *)
AppliesAlways == TRUE

(* generation === authGeneration *)
Applies == refresh.same

Init ==
  /\ begun \in {{}} \cup {{s} : s \in Sessions} /\ over = {}
  /\ jar = IF begun = {} THEN NoCookies ELSE [of |-> CHOOSE s \in begun : TRUE, fresh |-> FALSE]
  /\ user \in begun \cup {None} /\ how = IF user = None THEN "none" ELSE "session"
  /\ refreshing = FALSE /\ refresh = NoRefresh /\ left = {}
  /\ call = [c \in Calls |-> Quiet]

-----------------------------------------------------------------------------
(* authGeneration += 1; Overtaken is that of a sign-out. *)
Bumped    == IF refresh.at = "none" THEN refresh ELSE [refresh EXCEPT !.same = FALSE]
Overtaken == IF refresh.at = "none" THEN refresh ELSE [refresh EXCEPT !.same = FALSE, !.since = TRUE]

SignedIn(s, by) == user' = s /\ how' = by

(* clearAuthSession *)
SignedOut == user' = None /\ left' = left \cup ({user} \ {None}) /\ how' = "none"

(* request: what is sent with the cookies of the moment.  api is any request of a page,   *)
(* session is refreshUser; leave closes the account, changes the password or drops the   *)
(* second factor.                                                                         *)
Send(c, kind) ==
  /\ call[c].at = "idle" /\ (kind \in {"logout", "leave"} => user # None)
  /\ call' = [call EXCEPT ![c] = [kind |-> kind, at |-> "sent", jar |-> jar, again |-> FALSE]]
  /\ refresh' = IF kind = "logout" THEN Overtaken ELSE refresh
  /\ UNCHANGED <<jar, begun, over, user, refreshing, left, how>>

(* The server's side of a request: a session that is over is not noticed, an account *)
(* that was deleted with it is (get_current_user).                                   *)
Answered(c, reply) ==
  call' = [call EXCEPT ![c].at = reply,
                       ![c].jar = IF call[c].kind = "session" /\ reply = "ok" THEN Good(@.of) ELSE NoCookies]
Serve(c) ==
  /\ call[c].at = "sent"
  /\ LET k == call[c].kind  j == call[c].jar
     IN  \/ k \in {"api", "session"} /\ j.fresh /\ Answered(c, "ok") /\ UNCHANGED <<begun, over>>
         \/ k \in {"api", "session"} /\ (j.fresh => j.of \in over) /\ Answered(c, "401") /\ UNCHANGED <<begun, over>>
         \/ k = "leave" /\ j.fresh /\ Answered(c, "ok") /\ over' = over \cup begun /\ UNCHANGED begun
         \/ k = "leave" /\ ~j.fresh /\ Answered(c, "401") /\ UNCHANGED <<begun, over>>
         \/ k = "logout" /\ Answered(c, "ok") /\ over' = over \cup ({j.of} \ {None}) /\ UNCHANGED begun
         \/ \E s \in Sessions \ begun : /\ k = "login" /\ begun' = begun \cup {s} /\ UNCHANGED over
                                        /\ call' = [call EXCEPT ![c].at = "ok", ![c].jar = Good(s)]
         \/ k = "login" /\ Answered(c, "lost") /\ UNCHANGED <<begun, over>>
  /\ UNCHANGED <<jar, user, refreshing, refresh, left, how>>

(* The answer or the request is lost: fetch rejects. *)
Lose(c) ==
  /\ call[c].at \in {"sent", "ok", "401"} /\ Answered(c, "lost")
  /\ UNCHANGED <<jar, begun, over, user, refreshing, refresh, left, how>>

Ends(c) == call' = [call EXCEPT ![c] = Quiet]

(* Answers that need no refresh.  Requests to close an account are not repeated, those *)
(* that change the password or drop the second factor are: a leave may do either.       *)
Receive(c) ==
  /\ UNCHANGED <<begun, over>>
  /\ LET k == call[c].kind  at == call[c].at
     IN  \/ /\ k = "api" /\ at \in {"ok", "lost"} /\ Ends(c)
            /\ UNCHANGED <<jar, user, refreshing, refresh, left, how>>
         \/ /\ k = "session" /\ at = "ok" /\ Ends(c) /\ SignedIn(call[c].jar.of, "session")
            /\ UNCHANGED <<jar, refreshing, refresh, left>>
         \/ /\ (k \in {"session", "login", "leave"} /\ at = "lost") \/ (k = "leave" /\ at = "401")
            /\ Ends(c)
            /\ UNCHANGED <<jar, user, refreshing, refresh, left, how>>
         \/ /\ k = "login" /\ at = "ok" /\ Ends(c) /\ jar' = call[c].jar
            /\ SignedIn(call[c].jar.of, "login") /\ UNCHANGED <<refreshing, refresh, left>>
         \/ /\ k = "leave" /\ at = "ok" /\ Ends(c) /\ SignedOut /\ jar' = NoCookies
            /\ refreshing' = FALSE /\ refresh' = Bumped
         \/ /\ k = "logout" /\ at \in {"ok", "lost"} /\ Ends(c) /\ SignedOut
            /\ jar' = IF at = "ok" THEN NoCookies ELSE jar
            /\ refreshing' = FALSE /\ UNCHANGED refresh

(* A 401 the first time: whoever comes first begins a refresh, the others join it. *)
NeedsRefresh(c) ==
  /\ call[c].at = "401" /\ ~call[c].again /\ Answered(c, "waiting")
  /\ IF refresh.at = "none"
     THEN refresh' = [NoRefresh EXCEPT !.at = "sent", !.of = jar.of] /\ refreshing' = TRUE
     ELSE UNCHANGED <<refresh, refreshing>>
  /\ UNCHANGED <<jar, begun, over, user, left, how>>

(* A 401 again, or one whose code no refresh heals (a free choice), ends what the page *)
(* believed, if it believed anything or asked for that.                                 *)
Unauthorized(c) ==
  /\ call[c].at = "401" /\ Ends(c)
  /\ IF user # None \/ call[c].kind = "session"
     THEN SignedOut /\ refreshing' = FALSE /\ refresh' = Bumped
     ELSE UNCHANGED <<user, left, how, refreshing, refresh>>
  /\ UNCHANGED <<jar, begun, over>>

-----------------------------------------------------------------------------
(* POST /auth/refresh *)
ServeRefresh ==
  /\ refresh.at = "sent"
  /\ refresh' = [refresh EXCEPT !.at = IF refresh.of \in begun \ over THEN "ok" ELSE "over"]
  /\ UNCHANGED <<jar, begun, over, user, refreshing, call, left, how>>
LoseRefresh ==
  /\ refresh.at \in {"sent", "ok", "over"} /\ refresh' = [refresh EXCEPT !.at = "lost"]
  /\ UNCHANGED <<jar, begun, over, user, refreshing, call, left, how>>

(* The end of the flight: those who waited send again, or go on with their first 401, *)
(* which signs the page out when it was refreshUser that asked.                         *)
Waiting == {c \in Calls : call[c].at = "waiting"}
Resend  == call' = [c \in Calls |-> IF c \in Waiting THEN [call[c] EXCEPT !.at = "sent", !.jar = jar', !.again = TRUE]
                                                   ELSE call[c]]
GiveUp  == call' = [c \in Calls |-> IF c \in Waiting THEN Quiet ELSE call[c]]
Asked   == \E c \in Waiting : call[c].kind = "session"

Refreshed ==
  /\ refresh.at = "ok" /\ jar' = Good(refresh.of) /\ refresh' = NoRefresh
  /\ IF Applies
     THEN /\ SignedIn(refresh.of, IF refresh.since THEN "late" ELSE "refresh")
          /\ refreshing' = FALSE /\ Resend /\ UNCHANGED left
     ELSE /\ GiveUp
          /\ IF Asked THEN SignedOut /\ refreshing' = FALSE ELSE UNCHANGED <<user, left, how, refreshing>>
  /\ UNCHANGED <<begun, over>>

NotRefreshed ==
  /\ refresh.at \in {"over", "lost"} /\ refresh' = NoRefresh /\ GiveUp
  /\ IF refresh.at = "over" THEN SignedOut /\ jar' = NoCookies ELSE UNCHANGED <<user, left, how, jar>>
  /\ refreshing' = (refreshing /\ refresh.at = "lost" /\ ~refresh.same)
  /\ UNCHANGED <<begun, over>>

-----------------------------------------------------------------------------
(* The access token expires; another tab signs in; a session is ended elsewhere. *)
Expire ==
  /\ jar.fresh /\ jar' = [jar EXCEPT !.fresh = FALSE]
  /\ UNCHANGED <<begun, over, user, refreshing, refresh, call, left, how>>
OtherTab == \E s \in Sessions \ begun :
  /\ begun' = begun \cup {s} /\ jar' = Good(s)
  /\ UNCHANGED <<over, user, refreshing, refresh, call, left, how>>
EndSession == \E s \in begun \ over :
  /\ over' = over \cup {s}
  /\ UNCHANGED <<jar, begun, user, refreshing, refresh, call, left, how>>

Step(c) == Serve(c) \/ Lose(c) \/ Receive(c) \/ NeedsRefresh(c) \/ Unauthorized(c)
Flight  == ServeRefresh \/ LoseRefresh \/ Refreshed \/ NotRefreshed
Next ==
  \/ \E c \in Calls : Step(c) \/ \E k \in Kinds : Send(c, k)
  \/ Flight \/ Expire \/ OtherTab \/ EndSession

(* The network answers or fails. *)
Fairness == WF_vars(Flight) /\ \A c \in Calls : WF_vars(Step(c))

-----------------------------------------------------------------------------
TypeOK ==
  /\ over \subseteq begun /\ begun \subseteq Sessions /\ left \subseteq begun
  /\ {user, jar.of, refresh.of} \subseteq begun \cup {None}
  /\ how \in {"none", "login", "session", "refresh", "late"}
  /\ refresh.at \in {"none", "sent", "ok", "over", "lost"}
  /\ \A c \in Calls : call[c].at \in {"idle", "sent", "ok", "401", "lost", "waiting"}
  /\ \A c \in Calls : call[c].at = "waiting" => refresh.at # "none"

(* A refresh that was under way when the user signed out never signs in      *)
(* again, whatever overtakes what; and the page only says that it is         *)
(* refreshing while a refresh is under way or a sign-out about to say so.    *)
SignedOutStays ==
  /\ user \in left => how # "late"
  /\ refreshing => refresh.at # "none" \/ \E c \in Calls : call[c].kind = "logout"

(* Every request is answered or fails, whoever renewed the session for it.   *)
CallsEnd == \A c \in Calls : []<>(call[c].at = "idle")
=============================================================================
