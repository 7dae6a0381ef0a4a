--------------------------- MODULE PublicQueries ---------------------------
(***************************************************************************)
(* Requests that share the pool of database connections (db/session.py)    *)
(* and the locks of two kept answers, the list of areas and one area's     *)
(* detail: the list itself, the area's preview, and the assistant          *)
(* (services/assistant.py), which plans by rules or asks a language model  *)
(* and then runs tools.  Some hold a connection while they wait for a      *)
(* lock, whoever is in the lock may wait for a connection: the timeout of  *)
(* the pool ends that.  One process; ResponseCache has the lock of Redis.  *)
(***************************************************************************)
EXTENDS Naturals, FiniteSets

CONSTANTS
  Queries,
  PoolSize,    \* database_pool_size and database_max_overflow
  MaxTools     \* MAX_ASSISTANT_TOOL_CALLS

VARIABLES
  kept,        \* the kept answers that are there
  lock,        \* _local_locks: the requests in each answer's lock or waiting for it
  query        \* the requests, each with those that are ahead of it in its lock

vars == <<kept, lock, query>>

Answers == {"list", "detail"}
Kinds   == {"areas", "preview", "assistant"}
Idle    == [at |-> "idle", kind |-> "areas", of |-> "list", ahead |-> {}, conn |-> FALSE,
            planned |-> FALSE, left |-> 0]

At(q, place)   == query[q].at = place
Goes(q, place) == query' = [query EXCEPT ![q].at = place]
End(q)         == query' = [query EXCEPT ![q] = Idle]

-----------------------------------------------------------------------------
(* Mutants: who waits for a connection waits for ever; the session stays open. *)
NeverGivesUp(q) == FALSE
AskingInSession(q) == Goes(q, "asking")

(* pool_timeout: no connection yet *)
GivesUp(q) == ~query[q].conn

(* close_session before the language model is asked *)
Asking(q) == query' = [query EXCEPT ![q] = [@ EXCEPT !.at = "asking", !.conn = FALSE]]

Busy    == {q \in Queries : query[q].conn}
HasConn(q) == query[q].conn \/ Cardinality(Busy) < PoolSize

(* The statement runs, in the connection there is or in one from the pool. *)
Execute(q, place) ==
  HasConn(q) /\ query' = [query EXCEPT ![q] = [@ EXCEPT !.at = place, !.conn = TRUE]]

(* q goes to its place, out of the lock: nobody waits for it any more. *)
Left(q, to)  == query' = [o \in Queries |-> IF o = q THEN [to EXCEPT !.ahead = {}]
                                                    ELSE [query[o] EXCEPT !.ahead = @ \ {q}]]
Leave(q, to) == Left(q, to) /\ lock' = [a \in Answers |-> lock[a] \ {q}]

Init == kept \in SUBSET Answers /\ lock = [a \in Answers |-> {}] /\ query = [q \in Queries |-> Idle]

-----------------------------------------------------------------------------
Ask(q, kind) ==
  /\ At(q, "idle")
  /\ query' = [query EXCEPT ![q] = [Idle EXCEPT !.kind = kind, !.at = IF kind = "areas" THEN "version" ELSE "guard",
                                                !.of = IF kind = "preview" THEN "detail" ELSE "list"]]
  /\ UNCHANGED <<kept, lock>>

(* guard_public_query: too many requests, or the statement_timeout of the transaction is set; *)
(* the connection stays with the session from here on.                                         *)
Guard(q) ==
  /\ At(q, "guard") /\ (End(q) \/ Execute(q, IF query[q].kind = "assistant" THEN "plan" ELSE "version"))
  /\ UNCHANGED <<kept, lock>>

(* cache_version: remembered, without Redis always 1, or read *)
Version(q) ==
  /\ At(q, "version") /\ (Goes(q, "look") \/ Execute(q, "look"))
  /\ UNCHANGED <<kept, lock>>

(* What follows the answer *)
Then(q) == CASE query[q].kind = "areas"   -> "done"
             [] query[q].kind = "preview" -> "render"
             [] query[q].planned          -> "tool"
             [] OTHER                     -> "rules"

(* get_or_compute: a lock is handed on in the order of its requests. *)
Kept(q) == query[q].of \in kept
Goal(q) == [query[q] EXCEPT !.at = Then(q)]

Look(q) ==
  /\ At(q, "look")
  /\ IF Kept(q) THEN Goes(q, Then(q)) /\ UNCHANGED lock
     ELSE /\ query' = [query EXCEPT ![q] = [@ EXCEPT !.at = "queued", !.ahead = lock[query[q].of]]]
          /\ lock' = [lock EXCEPT ![query[q].of] = @ \cup {q}]
  /\ UNCHANGED kept

Enter(q) ==
  /\ At(q, "queued") /\ query[q].ahead = {}
  /\ IF Kept(q) THEN Leave(q, Goal(q)) ELSE Goes(q, "compute") /\ UNCHANGED lock
  /\ UNCHANGED kept

(* Those who wait keep the lock they have, those to come make another; after a failure they join it. *)
Compute(q) ==
  /\ At(q, "compute") /\ HasConn(q)
  /\ \/ /\ Left(q, [Goal(q) EXCEPT !.conn = TRUE])
        /\ kept' = kept \cup {query[q].of} /\ lock' = [lock EXCEPT ![query[q].of] = {}]
     \/ Leave(q, Idle) /\ UNCHANGED kept

(* The entry's lifetime ends, or its version is raised. *)
Expire == \E a \in kept : kept' = kept \ {a} /\ UNCHANGED <<lock, query>>

(* TimeoutError of the pool: the request fails, and leaves the lock it is in. *)
PoolTimeout(q) ==
  /\ query[q].at \in {"guard", "version", "compute", "statement"} /\ GivesUp(q)
  /\ Cardinality(Busy) = PoolSize /\ Leave(q, Idle) /\ UNCHANGED kept

-----------------------------------------------------------------------------
(* _plan_query: forbidden questions and those about a selected object need no areas. *)
Plan(q) ==
  /\ At(q, "plan")
  /\ \/ Goes(q, "version") \/ Goes(q, "done")
     \/ query' = [query EXCEPT ![q] = [@ EXCEPT !.at = "tool", !.planned = TRUE, !.left = 1]]
  /\ UNCHANGED <<kept, lock>>

(* With the areas: an answer without tools, a plan made by rules, or the language model, *)
(* for which the session is closed.                                                       *)
Rules(q) ==
  /\ At(q, "rules")
  /\ \/ Goes(q, "done")
     \/ \E n \in 1 .. MaxTools :
          query' = [query EXCEPT ![q] = [@ EXCEPT !.at = "tool", !.planned = TRUE, !.left = n]]
     \/ Asking(q)
  /\ UNCHANGED <<kept, lock>>

(* GroqProvider.plan ends after its retries and one repair: unavailable, invalid or too long, or *)
(* a plan, whose tools run in a session of their own.                                             *)
Answered(q) ==
  /\ At(q, "asking")
  /\ \/ Goes(q, "done")
     \/ \E n \in 1 .. MaxTools :
          query' = [query EXCEPT ![q] = [@ EXCEPT !.at = "tool", !.planned = TRUE, !.left = n]]
  /\ UNCHANGED <<kept, lock>>

(* execute_assistant_tool: knowledge that is part of the program, a statement, or a kept answer;  *)
(* arguments that are not valid and objects that are not found end the plan.                      *)
Tool(q) ==
  /\ At(q, "tool")
  /\ IF query[q].left = 0 THEN Goes(q, "done")
     ELSE LET rest == query[q].left - 1
          IN  \/ Goes(q, "done")
              \/ \E place \in {"tool", "statement"} : query' = [query EXCEPT ![q] = [@ EXCEPT !.at = place, !.left = rest]]
              \/ \E a \in Answers : query' = [query EXCEPT ![q] = [@ EXCEPT !.at = "version", !.of = a, !.left = rest]]
  /\ UNCHANGED <<kept, lock>>

Statement(q) ==
  /\ At(q, "statement") /\ (Execute(q, "tool") \/ (HasConn(q) /\ End(q)))
  /\ UNCHANGED <<kept, lock>>

(* map_preview_service.get: the file there is, or the renderer, asked with the session open *)
Render(q) ==
  /\ At(q, "render") /\ Goes(q, "done") /\ UNCHANGED <<kept, lock>>

Done(q) == At(q, "done") /\ End(q) /\ UNCHANGED <<kept, lock>>

Step(q) ==
  \/ Guard(q) \/ Version(q) \/ Look(q) \/ Enter(q) \/ Compute(q) \/ PoolTimeout(q)
  \/ Plan(q) \/ Rules(q) \/ Answered(q) \/ Tool(q) \/ Statement(q) \/ Render(q) \/ Done(q)

Next == Expire \/ \E q \in Queries : Step(q) \/ \E kind \in Kinds : Ask(q, kind)

Spec == Init /\ [][Next]_vars

(* The event loop goes on, and services are asked with a timeout. *)
Fairness == \A q \in Queries : WF_vars(Step(q))

-----------------------------------------------------------------------------
TypeOK ==
  /\ kept \subseteq Answers /\ lock \in [Answers -> SUBSET Queries] /\ Cardinality(Busy) <= PoolSize
  /\ \A q \in Queries : query[q].kind \in Kinds /\ query[q].left \in 0 .. MaxTools

(* Whoever waits for the language model holds no connection, and nobody     *)
(* waits for its lock (_provider_or_unsupported): a slow model stops nobody. *)
AskingHoldsNothing ==
  \A q \in Queries : query[q].at = "asking" =>
    ~query[q].conn /\ (\A a \in Answers : q \notin lock[a]) /\ (\A o \in Queries : q \notin query[o].ahead)

(* Every request ends, although those who wait for a lock may hold all        *)
(* connections while the one in the lock waits for a connection.              *)
QueriesEnd == \A q \in Queries : []<>(query[q].at = "idle")
=============================================================================
