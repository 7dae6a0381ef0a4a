--------------------------- MODULE PublishingProofs ---------------------------
(***************************************************************************)
(* Nothing is posted that nobody has cleared, for any number of events,    *)
(* publishers, administrators' decisions, crashes and runs that overlap.   *)
(* A row that needs no approval is a cleared one (RowsCleared), and so is  *)
(* every object a session made of it, however old (ObjectsCleared): both   *)
(* the copy of a row to an object and the write of an object to a row,     *)
(* which may undo a decision, carry only what is cleared, for what is      *)
(* cleared stays so.  A publisher on its way to Mastodon has looked at     *)
(* such an object (PostingCleared).                                        *)
(***************************************************************************)
EXTENDS Publishing, Integers, TLAPS, FiniteSetTheorems, SequenceTheorems

Working == {"rendering", "capturing", "captured", "uploading", "posting", "posted", "tidying",
            "committing"}

Places == Working \cup {"idle", "off", "recovering", "claiming"}

Run == [at : Places, left : Int, event : Events \cup {Nobody}, text : Texts \cup {NoText},
        dry : BOOLEAN, fresh : BOOLEAN, payload : BOOLEAN, locks : BOOLEAN, result : {"none", "duplicate", "dry", "posted"},
        stale : SUBSET Events, seen : [Events -> Object \cup {NoRow}]]

Typed == /\ rows \in [Events -> Row \cup {NoRow}] /\ old \subseteq Rows
         /\ text \in [Resources -> Texts] /\ m \in [Publishers -> Run]

(* Rows are never removed: what a run has seen or works on is there. *)
Known == \A w \in Publishers :
  /\ m[w].stale \subseteq Rows
  /\ m[w].at \in Working => m[w].event \in Rows /\ Mine(w) # NoRow

RowsCleared    == \A e \in Rows : rows[e].manual \/ e \in cleared
ObjectsCleared == \A w \in Publishers, e \in Events :
                    m[w].seen[e] # NoRow => m[w].seen[e].manual \/ e \in cleared
PostingCleared == \A w \in Publishers : m[w].at \in {"uploading", "posting"} => ~Mine(w).manual
MadeCleared    == /\ made \in [Events -> SUBSET (Texts \cup {NoText})]
                  /\ \A e \in Events : made[e] # {} => e \in cleared

IInv == /\ Typed /\ Known
        /\ RowsCleared /\ ObjectsCleared /\ PostingCleared /\ MadeCleared

-----------------------------------------------------------------------------
(* A step of one publisher: what it must leave of its run, the rows and the statuses *)
LEMMA RunStep ==
  ASSUME IInv, NEW w \in Publishers, text' = text,
         m' \in [Publishers -> Run], \A v \in Publishers \ {w} : m'[v] = m[v],
         rows' \in [Events -> Row \cup {NoRow}], Rows \subseteq Rows', old' \subseteq Rows',
         cleared \subseteq cleared', RowsCleared', MadeCleared',
         m'[w].stale \subseteq Rows',
         m'[w].at \in Working => m'[w].event \in Rows' /\ m'[w].seen[m'[w].event] # NoRow,
         \A e \in Events : m'[w].seen[e] # NoRow => m'[w].seen[e].manual \/ e \in cleared',
         m'[w].at \in {"uploading", "posting"} => ~m'[w].seen[m'[w].event].manual
  PROVE  IInv'
<1>1. Typed' BY DEF IInv, Typed, Resources
<1>2. Known'
  <2> SUFFICES ASSUME NEW v \in Publishers
               PROVE  /\ m'[v].stale \subseteq Rows'
                      /\ m'[v].at \in Working => m'[v].event \in Rows' /\ m'[v].seen[m'[v].event] # NoRow
    BY DEF Known, Mine
  <2>1. CASE v = w BY <2>1
  <2>2. CASE v # w BY <2>2 DEF IInv, Known, Mine
  <2> QED BY <2>1, <2>2
<1>3. ObjectsCleared'
  <2> SUFFICES ASSUME NEW v \in Publishers, NEW e \in Events, m'[v].seen[e] # NoRow
               PROVE  m'[v].seen[e].manual \/ e \in cleared'
    BY DEF ObjectsCleared
  <2>1. CASE v = w BY <2>1
  <2>2. CASE v # w BY <2>2 DEF IInv, ObjectsCleared
  <2> QED BY <2>1, <2>2
<1>4. PostingCleared'
  <2> SUFFICES ASSUME NEW v \in Publishers, m'[v].at \in {"uploading", "posting"}
               PROVE  ~m'[v].seen[m'[v].event].manual
    BY DEF PostingCleared, Mine
  <2>1. CASE v = w BY <2>1
  <2>2. CASE v # w BY <2>2 DEF IInv, PostingCleared, Mine
  <2> QED BY <2>1, <2>2
<1> QED BY <1>1, <1>2, <1>3, <1>4 DEF IInv

(* A step of anyone else, which leaves the runs alone *)
LEMMA WorldStep ==
  ASSUME IInv, m' = m, made' = made, cleared \subseteq cleared',
         text' \in [Resources -> Texts], rows' \in [Events -> Row \cup {NoRow}],
         Rows \subseteq Rows', old' \subseteq Rows', RowsCleared'
  PROVE  IInv'
<1>1. Typed' BY DEF IInv, Typed, Resources
<1>2. Known' BY DEF IInv, Known, Mine
<1>3. ObjectsCleared' BY DEF IInv, ObjectsCleared
<1>4. PostingCleared' BY DEF IInv, PostingCleared, Mine
<1>5. MadeCleared' BY DEF IInv, MadeCleared
<1> QED BY <1>1, <1>2, <1>3, <1>4, <1>5 DEF IInv

(* A step of a publisher that leaves the rows alone *)
LEMMA QuietStep ==
  ASSUME IInv, NEW w \in Publishers, text' = text, rows' = rows, old' = old,
         cleared' = cleared, made' = made,
         m' \in [Publishers -> Run], \A v \in Publishers \ {w} : m'[v] = m[v],
         m'[w].stale \subseteq Rows,
         m'[w].at \in Working => m'[w].event \in Rows /\ m'[w].seen[m'[w].event] # NoRow,
         \A e \in Events : m'[w].seen[e] # NoRow => m'[w].seen[e].manual \/ e \in cleared,
         m'[w].at \in {"uploading", "posting"} => ~m'[w].seen[m'[w].event].manual
  PROVE  IInv'
<1>1. Rows' = Rows BY DEF Rows
<1>2. RowsCleared' BY <1>1 DEF IInv, RowsCleared
<1>3. MadeCleared' BY DEF IInv, MadeCleared
<1>4. rows' \in [Events -> Row \cup {NoRow}] /\ old' \subseteq Rows' BY <1>1 DEF IInv, Typed
<1> QED BY <1>1, <1>2, <1>3, <1>4, RunStep

(* A run that ends, or dies *)
LEMMA Ended ==
  ASSUME IInv, NEW w \in Publishers, text' = text, rows' = rows, old' = old,
         cleared' = cleared, made' = made, m' = [m EXCEPT ![w] = Idle]
  PROVE  IInv'
<1>1. Idle \in Run
  <2>1. [e \in Events |-> NoRow] \in [Events -> Object \cup {NoRow}] OBVIOUS
  <2>2. Limit \in Int BY BoundAssumption
  <2> QED BY <2>1, <2>2 DEF Idle, Run, Places
<1>2. m' \in [Publishers -> Run] /\ m'[w] = Idle BY <1>1 DEF IInv, Typed
<1>3. \A v \in Publishers \ {w} : m'[v] = m[v] BY DEF IInv, Typed
<1>4. /\ Idle.stale = {} /\ Idle.at = "idle"
      /\ \A e \in Events : Idle.seen[e] = NoRow
  BY DEF Idle
<1> QED BY <1>2, <1>3, <1>4, QuietStep DEF Working

-----------------------------------------------------------------------------
(* What the run of a working publisher consists of *)
LEMMA AtWork ==
  ASSUME IInv, NEW w \in Publishers
  PROVE  /\ m[w] \in Run /\ m[w].stale \subseteq Rows
         /\ m[w].at \in Working =>
              /\ m[w].event \in Events /\ rows[m[w].event] \in Row
              /\ Mine(w) \in Object /\ Mine(w).manual \in BOOLEAN
              /\ ~Mine(w).manual => m[w].event \in cleared
<1>1. m[w] \in Run BY DEF IInv, Typed
<1>2. m[w].stale \subseteq Rows BY DEF IInv, Known
<1>3. ASSUME m[w].at \in Working
      PROVE  /\ m[w].event \in Events /\ rows[m[w].event] \in Row
             /\ Mine(w) \in Object /\ Mine(w).manual \in BOOLEAN
             /\ ~Mine(w).manual => m[w].event \in cleared
  <2>1. m[w].event \in Rows /\ Mine(w) # NoRow BY <1>3 DEF IInv, Known
  <2>2. m[w].event \in Events /\ rows[m[w].event] \in Row BY <2>1 DEF IInv, Typed, Rows
  <2>3. m[w].seen \in [Events -> Object \cup {NoRow}] BY <1>1 DEF Run
  <2>4. Mine(w) \in Object BY <2>1, <2>2, <2>3 DEF Mine
  <2>5. Mine(w).manual \in BOOLEAN BY <2>4 DEF Object
  <2>6. ~Mine(w).manual => m[w].event \in cleared
    BY <2>1, <2>2 DEF IInv, ObjectsCleared, Mine
  <2> QED BY <2>2, <2>4, <2>5, <2>6
<1> QED BY <1>1, <1>2, <1>3

LEMMA BeginStep ==
  ASSUME IInv, NEW w \in Publishers, Begin(w)
  PROVE  IInv'
<1> DEFINE at == IF Stale = {} THEN "claiming" ELSE "recovering"
           seen == [e \in Events |-> IF e \in Stale THEN Copy(rows[e]) ELSE NoRow]
<1>1. Stale \subseteq Rows /\ Stale \subseteq Events BY DEF IInv, Typed, Stale, Rows
<1>2. \A e \in Stale : Copy(rows[e]) \in Object /\ Copy(rows[e]).manual = rows[e].manual
  BY <1>1 DEF IInv, Typed, Rows, Row, Copy, Object
<1>3. seen \in [Events -> Object \cup {NoRow}] BY <1>2
<1>4. (policy = "DRY_RUN") \in BOOLEAN /\ Limit \in Int BY BoundAssumption
<1>5. [Idle EXCEPT !.at = at, !.dry = policy = "DRY_RUN", !.stale = Stale, !.seen = seen] \in Run
  BY <1>1, <1>3, <1>4 DEF Idle, Run, Places
<1>6. m'[w] = [Idle EXCEPT !.at = at, !.dry = policy = "DRY_RUN", !.stale = Stale, !.seen = seen]
  BY DEF Begin, IInv, Typed
<1>7. m' \in [Publishers -> Run] /\ \A v \in Publishers \ {w} : m'[v] = m[v]
  BY <1>5 DEF Begin, IInv, Typed
<1>8. m'[w].at = at /\ m'[w].stale = Stale /\ m'[w].seen = seen BY <1>6 DEF Idle
<1>9. \A e \in Events : seen[e] # NoRow => seen[e].manual \/ e \in cleared
  BY <1>1, <1>2 DEF IInv, RowsCleared, Rows
<1>10. UNCHANGED <<text, rows, old, cleared, made>> BY DEF Begin, store, world, posts, Away
<1>11. at \notin Working BY DEF Working
<1> HIDE DEF at, seen
<1> QED BY <1>1, <1>7, <1>8, <1>9, <1>10, <1>11, QuietStep DEF Working

(* What a commit leaves, whether the unique index accepts it or ends the run *)
LEMMA CommitStep ==
  ASSUME IInv, NEW w \in Publishers, NEW STATE new, NEW STATE after, Commit(w, new, after),
         UNCHANGED <<text, cleared, made>>,
         new \in [Events -> Row \cup {NoRow}], \A e \in Rows : new[e] # NoRow,
         \A e \in Events : new[e] # NoRow => new[e].manual \/ e \in cleared,
         after \in Run, after.at = "claiming", after.stale \subseteq Rows,
         \A e \in Events : after.seen[e] # NoRow => after.seen[e].manual \/ e \in cleared
  PROVE  IInv'
<1>1. CASE Unique(new)
  <2>1. rows' = new /\ old' = Processing(old, new) /\ m' = [m EXCEPT ![w] = after]
    BY <1>1 DEF Commit
  <2>2. m' \in [Publishers -> Run] /\ m'[w] = after BY <2>1 DEF IInv, Typed
  <2>3. \A v \in Publishers \ {w} : m'[v] = m[v] BY <2>1 DEF IInv, Typed
  <2>4. Rows \subseteq Rows' /\ old' \subseteq Rows'
    BY <2>1 DEF Rows, Processing, IInv, Typed
  <2>5. RowsCleared' BY <2>1 DEF RowsCleared, Rows
  <2>6. MadeCleared' BY DEF IInv, MadeCleared
  <2>7. after.stale \subseteq Rows' BY <2>4
  <2> QED BY <2>1, <2>2, <2>3, <2>4, <2>5, <2>6, <2>7, RunStep DEF Working
<1>2. CASE ~Unique(new)
  <2>1. UNCHANGED <<rows, old>> /\ m' = [m EXCEPT ![w] = Idle] BY <1>2 DEF Commit
  <2> QED BY <2>1, Ended
<1> QED BY <1>1, <1>2

(* The row a publisher writes back is cleared if it asks for no approval. *)
LEMMA WrittenRow ==
  ASSUME IInv, NEW w \in Publishers, m[w].at \in Working,
         NEW STATE status, status \in Statuses, NEW STATE shot, shot \in BOOLEAN
  PROVE  /\ Written(w, status, shot) \in Row
         /\ Written(w, status, shot).manual \/ m[w].event \in cleared
<1>1. /\ m[w].event \in Rows /\ rows[m[w].event] \in Row /\ Mine(w) \in Object
      /\ ~Mine(w).manual => m[w].event \in cleared
  BY AtWork DEF IInv, Known
<1>2. ~rows[m[w].event].manual => m[w].event \in cleared BY <1>1 DEF IInv, RowsCleared
<1>3. m[w].payload \in BOOLEAN BY DEF IInv, Typed, Run
<1> HIDE DEF Mine
<1>4. Written(w, status, shot) \in Row BY <1>1, <1>3 DEF Written, Row, Object
<1>5. Written(w, status, shot).manual = IF m[w].payload THEN Mine(w).manual ELSE rows[m[w].event].manual
  BY <1>1 DEF Written, Row
<1> QED BY <1>1, <1>2, <1>4, <1>5

(* The rows after such a write *)
LEMMA WrittenRows ==
  ASSUME IInv, NEW w \in Publishers, m[w].at \in Working,
         NEW STATE row, row \in Row, row.manual \/ m[w].event \in cleared
  PROVE  LET new == [rows EXCEPT ![m[w].event] = row] IN
         /\ new \in [Events -> Row \cup {NoRow}] /\ \A e \in Rows : new[e] # NoRow
         /\ \A e \in Events : new[e] # NoRow => new[e].manual \/ e \in cleared
<1>1. m[w].event \in Events BY AtWork
<1>2. rows \in [Events -> Row \cup {NoRow}] BY DEF IInv, Typed
<1>3. \A e \in Events : rows[e] # NoRow => rows[e].manual \/ e \in cleared
  BY DEF IInv, RowsCleared, Rows
<1> QED BY <1>1, <1>2, <1>3, NullAssumption DEF Rows

(* The run that goes on with the next event *)
LEMMA AfterRun ==
  ASSUME IInv, NEW w \in Publishers, m[w].at \in Working,
         NEW STATE mine, mine \in Object, mine.manual \/ m[w].event \in cleared
  PROVE  /\ After(w, mine) \in Run /\ After(w, mine).at = "claiming"
         /\ After(w, mine).stale \subseteq Rows
         /\ \A e \in Events : After(w, mine).seen[e] # NoRow
                                => After(w, mine).seen[e].manual \/ e \in cleared
<1>1. m[w] \in Run /\ m[w].stale \subseteq Rows /\ m[w].event \in Events BY AtWork
<1>2. m[w].seen \in [Events -> Object \cup {NoRow}] BY <1>1 DEF Run
<1>3. [m[w].seen EXCEPT ![m[w].event] = mine] \in [Events -> Object \cup {NoRow}]
  BY <1>1, <1>2
<1>4. After(w, mine) \in Run BY <1>1, <1>3 DEF After, Run, Places
<1>5. /\ After(w, mine).at = "claiming" /\ After(w, mine).stale = m[w].stale
      /\ After(w, mine).seen = [m[w].seen EXCEPT ![m[w].event] = mine]
  BY <1>1 DEF After, Run
<1>6. \A e \in Events : m[w].seen[e] # NoRow => m[w].seen[e].manual \/ e \in cleared
  BY DEF IInv, ObjectsCleared
<1> QED BY <1>1, <1>2, <1>4, <1>5, <1>6

-----------------------------------------------------------------------------
LEMMA RecoverStep ==
  ASSUME IInv, NEW w \in Publishers, Recover(w)
  PROVE  IInv'
<1> DEFINE stale == m[w].stale
           new == [e \in Events |-> IF e \in stale
                     THEN [rows[e] EXCEPT !.status = Requeued(m[w].seen[e])] ELSE rows[e]]
           after == [m[w] EXCEPT !.at = "claiming"]
<1>1. m[w] \in Run /\ stale \subseteq Rows BY AtWork
<1>2. rows \in [Events -> Row \cup {NoRow}] BY DEF IInv, Typed
<1>3. \A e \in Events : Requeued(m[w].seen[e]) \in Statuses BY DEF Requeued, Statuses, Waiting
<1>4. \A e \in stale : /\ rows[e] \in Row
                       /\ [rows[e] EXCEPT !.status = Requeued(m[w].seen[e])] \in Row
                       /\ [rows[e] EXCEPT !.status = Requeued(m[w].seen[e])].manual = rows[e].manual
  BY <1>1, <1>2, <1>3 DEF Rows, Row
<1>5. new \in [Events -> Row \cup {NoRow}] BY <1>2, <1>4
<1>6. \A e \in Rows : new[e] # NoRow BY <1>2, <1>4, NullAssumption DEF Rows
<1>7. \A e \in Events : new[e] # NoRow => new[e].manual \/ e \in cleared
  BY <1>1, <1>2, <1>4 DEF IInv, RowsCleared, Rows
<1>8. after \in Run /\ after.at = "claiming" /\ after.stale = stale /\ after.seen = m[w].seen
  BY <1>1 DEF Run, Places
<1>9. \A e \in Events : after.seen[e] # NoRow => after.seen[e].manual \/ e \in cleared
  BY <1>8 DEF IInv, ObjectsCleared
<1>10. Commit(w, new, after) /\ UNCHANGED <<text, cleared, made>> BY DEF Recover, Away, world, posts
<1> HIDE DEF new, after, stale
<1> QED BY <1>1, <1>5, <1>6, <1>7, <1>8, <1>9, <1>10, CommitStep

LEMMA ClaimStep ==
  ASSUME IInv, NEW w \in Publishers, NEW e \in Events, Claim(w, e)
  PROVE  IInv'
<1> DEFINE found == IF Remembers(w, e) THEN m[w].seen[e] ELSE Copy(rows[e])
           mine  == [found EXCEPT !.tries = @ + 1]
           seen  == [f \in Events |-> IF f = e THEN mine
                                      ELSE IF f \in m[w].stale THEN m[w].seen[f] ELSE NoRow]
           row   == [rows[e] EXCEPT !.status = "PROCESSING", !.tries = mine.tries]
<1>1. m[w] \in Run /\ m[w].stale \subseteq Rows BY AtWork
<1>2. e \in Rows /\ rows[e] \in Row BY DEF Claim, First, Claimable, IInv, Typed, Rows
<1>3. m[w].seen \in [Events -> Object \cup {NoRow}] BY <1>1 DEF Run
<1>4. Copy(rows[e]) \in Object /\ Copy(rows[e]).manual = rows[e].manual
  BY <1>2 DEF Copy, Row, Object
<1>5. found \in Object /\ (found.manual \/ e \in cleared)
  BY <1>2, <1>3, <1>4 DEF Remembers, IInv, ObjectsCleared, RowsCleared
<1> HIDE DEF found
<1>6. mine \in Object /\ mine.manual = found.manual BY <1>5, BoundAssumption DEF Object
<1>7. mine.tries \in Nat BY <1>6 DEF Object
<1> HIDE DEF mine
<1>8. seen \in [Events -> Object \cup {NoRow}] BY <1>3, <1>6
<1>9. \A f \in Events : seen[f] # NoRow => seen[f].manual \/ f \in cleared
  BY <1>5, <1>6 DEF IInv, ObjectsCleared
<1>10. row \in Row /\ row.manual = rows[e].manual
  BY <1>2, <1>7 DEF Row, Statuses
<1>11. rows' = [rows EXCEPT ![e] = row]
  <2>1. rows' = [rows EXCEPT ![e].status = "PROCESSING", ![e].tries = mine.tries]
    BY DEF Claim, mine, found
  <2> QED BY <2>1, <1>2 DEF IInv, Typed
<1>12. m' = [m EXCEPT ![w].at = "rendering", ![w].event = e, ![w].left = @ - 1, ![w].seen = seen]
  BY DEF Claim, mine, found
<1> HIDE DEF seen, row
<1>13. m[w].left - 1 \in Int BY <1>1 DEF Run
<1>14. [m[w] EXCEPT !.at = "rendering", !.event = e, !.left = m[w].left - 1, !.seen = seen] \in Run
  BY <1>1, <1>8, <1>13 DEF Run, Places, Working
<1>15. m'[w] = [m[w] EXCEPT !.at = "rendering", !.event = e, !.left = m[w].left - 1, !.seen = seen]
  BY <1>12 DEF IInv, Typed
<1>16. m' \in [Publishers -> Run] /\ \A v \in Publishers \ {w} : m'[v] = m[v]
  BY <1>12, <1>14, <1>15 DEF IInv, Typed
<1>17. /\ m'[w].at = "rendering" /\ m'[w].event = e /\ m'[w].stale = m[w].stale
       /\ m'[w].seen = seen
  BY <1>1, <1>15 DEF Run
<1>18. seen[e] = mine BY DEF seen
<1>19. rows' \in [Events -> Row \cup {NoRow}] /\ Rows' = Rows /\ e \in Rows'
  BY <1>2, <1>10, <1>11, NullAssumption DEF IInv, Typed, Rows
<1>20. UNCHANGED <<text, cleared, made>> /\ old' \subseteq Rows'
  BY <1>19 DEF Claim, Away, world, posts, IInv, Typed
<1>21. RowsCleared'
  BY <1>2, <1>10, <1>11, <1>19, <1>20 DEF RowsCleared, IInv, Typed, Rows
<1>22. MadeCleared' BY <1>20 DEF IInv, MadeCleared
<1>23. mine # NoRow BY <1>6, NullAssumption
<1> QED BY <1>1, <1>9, <1>16, <1>17, <1>18, <1>19, <1>20, <1>21, <1>22, <1>23, RunStep

LEMMA RenderStep ==
  ASSUME IInv, NEW w \in Publishers, Render(w)
  PROVE  IInv'
<1>1. /\ m[w] \in Run /\ m[w].stale \subseteq Rows /\ m[w].at \in Working
      /\ m[w].event \in Rows /\ m[w].event \in Events /\ Mine(w) # NoRow
  BY AtWork DEF Render, Working, IInv, Known
<1>2. Says(Resource[m[w].event]) \in Texts BY <1>1 DEF Says, IInv, Typed, Resources
<1>3. PICK changed \in BOOLEAN :
        m' = [m EXCEPT ![w].at = IF Mine(w).shot THEN "captured" ELSE "capturing",
                       ![w].text = Says(Resource[m[w].event]),
                       ![w].payload = changed, ![w].locks = changed]
  BY DEF Render
<1> DEFINE to == IF Mine(w).shot THEN "captured" ELSE "capturing"
           new == [m[w] EXCEPT !.at = to, !.text = Says(Resource[m[w].event]),
                               !.payload = changed, !.locks = changed]
<1>4. to \in {"captured", "capturing"} OBVIOUS
<1> HIDE DEF to
<1>5. m'[w] = new BY <1>3 DEF to, IInv, Typed
<1>6. /\ new \in Run /\ new.at = to /\ new.event = m[w].event /\ new.stale = m[w].stale
      /\ new.seen = m[w].seen
  BY <1>1, <1>2, <1>4 DEF Run, Places, Working
<1> HIDE DEF new
<1>7. m' \in [Publishers -> Run] /\ \A v \in Publishers \ {w} : m'[v] = m[v]
  BY <1>3, <1>5, <1>6 DEF IInv, Typed
<1>8. \A e \in Events : m[w].seen[e] # NoRow => m[w].seen[e].manual \/ e \in cleared
  BY DEF IInv, ObjectsCleared
<1>9. UNCHANGED <<text, rows, old, cleared, made>> BY DEF Render, store, world, posts, Away
<1> QED BY <1>1, <1>4, <1>5, <1>6, <1>7, <1>8, <1>9, QuietStep DEF Mine

(* PublicationResourceGone, the picture for the administrators, the end of an attempt *)
LEMMA WritingStep ==
  ASSUME IInv, NEW w \in Publishers, Gone(w) \/ Prepared(w) \/ \E f \in Failures : Fail(w, f = "passes")
  PROVE  IInv'
<1>1. /\ m[w] \in Run /\ m[w].at \in Working /\ Mine(w) \in Object
      /\ rows[m[w].event] \in Row
      /\ Mine(w).manual \/ m[w].event \in cleared
  BY AtWork DEF Gone, Prepared, Fail, Working
<1>2. /\ Mine(w).shot \in BOOLEAN /\ Mine(w).manual \in BOOLEAN /\ rows[m[w].event].shot \in BOOLEAN
      /\ m[w].fresh \in BOOLEAN
  <2>1. Mine(w).shot \in BOOLEAN /\ Mine(w).manual \in BOOLEAN BY <1>1 DEF Object
  <2>2. rows[m[w].event].shot \in BOOLEAN
    <3>1. \A row \in Row : row.shot \in BOOLEAN BY DEF Row
    <3>2. rows[m[w].event] \in Row BY <1>1
    <3> QED BY <3>1, <3>2
  <2>3. m[w].fresh \in BOOLEAN BY <1>1 DEF Run
  <2> QED BY <2>1, <2>2, <2>3
<1>3. UNCHANGED <<text, cleared, made>> BY DEF Gone, Prepared, Fail, Away, world, posts
<1>4. PICK status \in Statuses, shot \in BOOLEAN, mine \in {Mine(w), [Mine(w) EXCEPT !.shot = FALSE]} :
        Commit(w, [rows EXCEPT ![m[w].event] = Written(w, status, shot)], After(w, mine))
  <2>1. CASE Gone(w)
    <3>1. "CANCELLED" \in Statuses /\ (rows[m[w].event].shot /\ ~Mine(w).shot) \in BOOLEAN
      BY <1>2 DEF Statuses
    <3> QED BY <2>1, <3>1 DEF Gone
  <2>2. CASE Prepared(w)
    <3>1. "PENDING_APPROVAL" \in Statuses /\ Shown(w) \in BOOLEAN
      BY <1>2 DEF Statuses, Waiting, Shown
    <3> QED BY <2>2, <3>1 DEF Prepared
  <2>3. ASSUME NEW f \in Failures, Fail(w, f = "passes") PROVE
          \E status \in Statuses, shot \in BOOLEAN, mine \in {Mine(w), [Mine(w) EXCEPT !.shot = FALSE]} :
            Commit(w, [rows EXCEPT ![m[w].event] = Written(w, status, shot)], After(w, mine))
    <3> DEFINE status == IF f = "passes" /\ ~Exhausted(w) THEN Requeued(Mine(w)) ELSE "FAILED"
    <3>1. status \in Statuses BY DEF Statuses, Waiting, Requeued
    <3>2. Shown(w) \in BOOLEAN BY <1>2 DEF Shown
    <3>3. Commit(w, [rows EXCEPT ![m[w].event] = Written(w, status, Shown(w))], After(w, Mine(w)))
      BY <2>3 DEF Fail
    <3> HIDE DEF status
    <3> QED BY <3>1, <3>2, <3>3
  <2> QED BY <2>1, <2>2, <2>3
<1>5. mine \in Object /\ (mine.manual \/ m[w].event \in cleared)
  <2>1. /\ [Mine(w) EXCEPT !.shot = FALSE] \in Object
        /\ [Mine(w) EXCEPT !.shot = FALSE].manual = Mine(w).manual
    BY <1>1 DEF Object
  <2>2. mine \in Object BY <1>1, <1>4, <2>1
  <2>3. mine.manual = Mine(w).manual BY <1>4, <2>1
  <2> QED BY <1>1, <2>2, <2>3
<1>6. /\ Written(w, status, shot) \in Row
      /\ Written(w, status, shot).manual \/ m[w].event \in cleared
  BY <1>1, WrittenRow
<1> DEFINE new == [rows EXCEPT ![m[w].event] = Written(w, status, shot)]
           after == After(w, mine)
<1>7. /\ new \in [Events -> Row \cup {NoRow}] /\ \A e \in Rows : new[e] # NoRow
      /\ \A e \in Events : new[e] # NoRow => new[e].manual \/ e \in cleared
  BY <1>1, <1>6, WrittenRows
<1>8. /\ after \in Run /\ after.at = "claiming" /\ after.stale \subseteq Rows
      /\ \A e \in Events : after.seen[e] # NoRow => after.seen[e].manual \/ e \in cleared
  BY <1>1, <1>5, AfterRun
<1>9. Commit(w, new, after) BY <1>4
<1> HIDE DEF new, after
<1> QED BY <1>3, <1>7, <1>8, <1>9, CommitStep

LEMMA FinishStep ==
  ASSUME IInv, NEW w \in Publishers, Finish(w)
  PROVE  IInv'
<1>1. UNCHANGED <<text, cleared, made>> BY DEF Finish, Away, world, posts
<1>2. CASE Refused(w) BY <1>1, <1>2, Ended DEF Finish
<1>3. CASE ~Refused(w)
  <2> DEFINE status == IF m[w].result = "dry" THEN "DRY_RUN" ELSE "PUBLISHED"
             mine == [Mine(w) EXCEPT !.shot = FALSE]
  <2>1. m[w].at \in Working /\ Mine(w) \in Object /\ (~Mine(w).manual => m[w].event \in cleared)
    BY AtWork DEF Finish, Working
  <2>2. mine \in Object /\ (mine.manual \/ m[w].event \in cleared) BY <2>1 DEF Object
  <2>3. status \in Statuses BY DEF Statuses
  <2>4. Commit(w, [rows EXCEPT ![m[w].event] = Written(w, status, FALSE)], After(w, mine))
    BY <1>3 DEF Finish
  <2> HIDE DEF status, mine
  <2>5. /\ Written(w, status, FALSE) \in Row
        /\ Written(w, status, FALSE).manual \/ m[w].event \in cleared
    BY <2>1, <2>3, WrittenRow
  <2> DEFINE new == [rows EXCEPT ![m[w].event] = Written(w, status, FALSE)]
             after == After(w, mine)
  <2>6. /\ new \in [Events -> Row \cup {NoRow}] /\ \A e \in Rows : new[e] # NoRow
        /\ \A e \in Events : new[e] # NoRow => new[e].manual \/ e \in cleared
    BY <2>1, <2>5, WrittenRows
  <2>7. /\ after \in Run /\ after.at = "claiming" /\ after.stale \subseteq Rows
        /\ \A e \in Events : after.seen[e] # NoRow => after.seen[e].manual \/ e \in cleared
    BY <2>1, <2>2, AfterRun
  <2>8. Commit(w, new, after) BY <2>4
  <2> HIDE DEF new, after
  <2> QED BY <1>1, <2>6, <2>7, <2>8, CommitStep
<1> QED BY <1>2, <1>3

(* The steps of an attempt that write no row *)
LEMMA CaptureStep ==
  ASSUME IInv, NEW w \in Publishers, Capture(w)
  PROVE  IInv'
<1> DEFINE e == m[w].event
           mine == [Mine(w) EXCEPT !.shot = TRUE]
           seen == [m[w].seen EXCEPT ![e] = mine]
           new == [m[w] EXCEPT !.at = "captured", !.fresh = TRUE, !.seen = seen]
<1>1. /\ m[w] \in Run /\ m[w].stale \subseteq Rows /\ m[w].at \in Working /\ e \in Rows
      /\ e \in Events /\ Mine(w) \in Object /\ Mine(w) # NoRow
      /\ Mine(w).manual \/ e \in cleared
  BY AtWork DEF Capture, Working, IInv, Known
<1>2. mine \in Object /\ mine.manual = Mine(w).manual BY <1>1 DEF Object
<1>3. mine # NoRow BY <1>2, NullAssumption
<1>4. m[w].seen \in [Events -> Object \cup {NoRow}] BY <1>1 DEF Run
<1>5. m' = [m EXCEPT ![w] = new] BY <1>1, <1>4 DEF Capture, IInv, Typed, Run, Mine, Object
<1> HIDE DEF mine
<1>6. seen \in [Events -> Object \cup {NoRow}] /\ seen[e] = mine BY <1>1, <1>2, <1>4
<1>7. \A f \in Events : seen[f] # NoRow => seen[f].manual \/ f \in cleared
  BY <1>1, <1>2, <1>4 DEF IInv, ObjectsCleared
<1> HIDE DEF seen
<1>8. /\ new \in Run /\ new.at = "captured" /\ new.event = e /\ new.stale = m[w].stale
      /\ new.seen = seen
  BY <1>1, <1>6 DEF Run, Places, Working
<1> HIDE DEF new
<1>9. m' \in [Publishers -> Run] /\ m'[w] = new /\ \A v \in Publishers \ {w} : m'[v] = m[v]
  BY <1>5, <1>8 DEF IInv, Typed
<1>10. UNCHANGED <<text, rows, old, cleared, made>> BY DEF Capture, world, posts, Away
<1> QED BY <1>1, <1>3, <1>6, <1>7, <1>8, <1>9, <1>10, QuietStep

LEMMA UploadStep ==
  ASSUME IInv, NEW w \in Publishers, Upload(w)
  PROVE  IInv'
<1> DEFINE e == m[w].event
           mine == [Mine(w) EXCEPT !.media = TRUE]
           seen == [m[w].seen EXCEPT ![e] = mine]
           new == [m[w] EXCEPT !.at = "posting", !.seen = seen]
<1>1. /\ m[w] \in Run /\ m[w].stale \subseteq Rows /\ m[w].at \in Working /\ e \in Rows
      /\ e \in Events /\ Mine(w) \in Object /\ Mine(w) # NoRow
      /\ Mine(w).manual \/ e \in cleared
      /\ ~Mine(w).manual
  BY AtWork DEF Upload, Working, IInv, Known, PostingCleared
<1>2. mine \in Object /\ mine.manual = Mine(w).manual BY <1>1 DEF Object
<1>3. mine # NoRow BY <1>2, NullAssumption
<1>4. m[w].seen \in [Events -> Object \cup {NoRow}] BY <1>1 DEF Run
<1>5. m' = [m EXCEPT ![w] = new] BY <1>1, <1>4 DEF Upload, IInv, Typed, Run, Mine, Object
<1> HIDE DEF mine
<1>6. seen \in [Events -> Object \cup {NoRow}] /\ seen[e] = mine BY <1>1, <1>2, <1>4
<1>7. \A f \in Events : seen[f] # NoRow => seen[f].manual \/ f \in cleared
  BY <1>1, <1>2, <1>4 DEF IInv, ObjectsCleared
<1> HIDE DEF seen
<1>8. /\ new \in Run /\ new.at = "posting" /\ new.event = e /\ new.stale = m[w].stale
      /\ new.seen = seen
  BY <1>1, <1>6 DEF Run, Places, Working
<1> HIDE DEF new
<1>9. m' \in [Publishers -> Run] /\ m'[w] = new /\ \A v \in Publishers \ {w} : m'[v] = m[v]
  BY <1>5, <1>8 DEF IInv, Typed
<1>10. UNCHANGED <<text, rows, old, cleared, made>> BY DEF Upload, store, world, posts, Away
<1> QED BY <1>1, <1>2, <1>3, <1>6, <1>7, <1>8, <1>9, <1>10, QuietStep

(* Only an object that needs no approval leads to Mastodon. *)
LEMMA CompareStep ==
  ASSUME IInv, NEW w \in Publishers, Compare(w)
  PROVE  IInv'
<1> DEFINE result == m'[w].result
           to == m'[w].at
           locks == m'[w].locks
           new == [m[w] EXCEPT !.locks = locks, !.result = result, !.at = to]
<1>1. /\ m[w] \in Run /\ m[w].stale \subseteq Rows /\ m[w].at \in Working
      /\ m[w].event \in Rows /\ Mine(w) # NoRow /\ ~Mine(w).manual
  BY AtWork DEF Compare, Working, IInv, Known
<1>2. /\ m' = [m EXCEPT ![w] = new]
      /\ result \in {"duplicate", "dry", "posted"} /\ to \in {"tidying", "posting", "uploading"}
      /\ locks \in BOOLEAN
  <2> DEFINE duplicate == \E f \in Of(Resource[m[w].event]) : published[f] = Hash(w)
             r == IF duplicate THEN "duplicate" ELSE IF m[w].dry THEN "dry" ELSE "posted"
             a == IF duplicate \/ m[w].dry THEN "tidying"
                  ELSE IF Mine(w).media THEN "posting" ELSE "uploading"
  <2>1. PICK changed \in BOOLEAN :
          m' = [m EXCEPT ![w].locks = @ \/ changed, ![w].result = r, ![w].at = a]
    BY DEF Compare
  <2>2. r \in {"duplicate", "dry", "posted"} /\ a \in {"tidying", "posting", "uploading"} OBVIOUS
  <2>3. m[w].locks \in BOOLEAN BY <1>1 DEF Run
  <2> HIDE DEF r, a
  <2> QED BY <1>1, <2>1, <2>2, <2>3 DEF IInv, Typed, Run
<1> HIDE DEF result, to, locks
<1>3. /\ new \in Run /\ new.at = to /\ new.event = m[w].event /\ new.stale = m[w].stale
      /\ new.seen = m[w].seen
  BY <1>1, <1>2 DEF Run, Places, Working
<1> HIDE DEF new
<1>4. m' \in [Publishers -> Run] /\ m'[w] = new /\ \A v \in Publishers \ {w} : m'[v] = m[v]
  BY <1>2, <1>3 DEF IInv, Typed
<1>5. \A f \in Events : m[w].seen[f] # NoRow => m[w].seen[f].manual \/ f \in cleared
  BY DEF IInv, ObjectsCleared
<1>6. UNCHANGED <<text, rows, old, cleared, made>> BY DEF Compare, store, world, posts, Away
<1> QED BY <1>1, <1>2, <1>3, <1>4, <1>5, <1>6, QuietStep DEF Mine

(* Mastodon is given the key of a cleared event. *)
LEMMA PostStep ==
  ASSUME IInv, NEW w \in Publishers, Post(w)
  PROVE  IInv'
<1> DEFINE new == [m[w] EXCEPT !.at = "posted"]
<1>1. /\ m[w] \in Run /\ m[w].stale \subseteq Rows /\ m[w].at \in Working
      /\ m[w].event \in Rows /\ Mine(w) # NoRow /\ m[w].event \in cleared
  BY AtWork DEF Post, Working, IInv, Known, PostingCleared
<1>2. /\ new \in Run /\ new.at = "posted" /\ new.event = m[w].event /\ new.stale = m[w].stale
      /\ new.seen = m[w].seen
  BY <1>1 DEF Run, Places, Working
<1>3. m' = [m EXCEPT ![w] = new] BY DEF Post, IInv, Typed
<1> HIDE DEF new
<1>4. m' \in [Publishers -> Run] /\ m'[w] = new /\ \A v \in Publishers \ {w} : m'[v] = m[v]
  BY <1>2, <1>3 DEF IInv, Typed
<1>5. \A f \in Events : m[w].seen[f] # NoRow => m[w].seen[f].manual \/ f \in cleared
  BY DEF IInv, ObjectsCleared
<1>6. UNCHANGED <<text, rows, old, cleared>> BY DEF Post, store
<1>7. MadeCleared'
  <2>1. m[w].text \in Texts \cup {NoText} /\ m[w].event \in Events BY <1>1 DEF Run, Rows
  <2>2. made' = made \/ made' = [made EXCEPT ![m[w].event] = @ \cup {m[w].text}] BY DEF Post, Key
  <2> QED BY <1>1, <1>6, <2>1, <2>2 DEF IInv, MadeCleared
<1>8. Rows' = Rows BY <1>6 DEF Rows
<1>9. rows' \in [Events -> Row \cup {NoRow}] /\ old' \subseteq Rows' /\ RowsCleared'
  BY <1>6, <1>8 DEF IInv, Typed, RowsCleared
<1> QED BY <1>1, <1>2, <1>4, <1>5, <1>6, <1>7, <1>8, <1>9, RunStep DEF Mine

LEMMA TidyStep ==
  ASSUME IInv, NEW w \in Publishers, Tidy(w)
  PROVE  IInv'
<1> DEFINE new == [m[w] EXCEPT !.at = "committing"]
<1>1. /\ m[w] \in Run /\ m[w].stale \subseteq Rows /\ m[w].at \in Working
      /\ m[w].event \in Rows /\ Mine(w) # NoRow
  BY AtWork DEF Tidy, Working, IInv, Known
<1>2. /\ new \in Run /\ new.at = "committing" /\ new.event = m[w].event /\ new.stale = m[w].stale
      /\ new.seen = m[w].seen
  BY <1>1 DEF Run, Places, Working
<1>3. m' = [m EXCEPT ![w] = new] BY DEF Tidy, IInv, Typed
<1> HIDE DEF new
<1>4. m' \in [Publishers -> Run] /\ m'[w] = new /\ \A v \in Publishers \ {w} : m'[v] = m[v]
  BY <1>2, <1>3 DEF IInv, Typed
<1>5. \A f \in Events : m[w].seen[f] # NoRow => m[w].seen[f].manual \/ f \in cleared
  BY DEF IInv, ObjectsCleared
<1>6. UNCHANGED <<text, rows, old, cleared, made>> BY DEF Tidy, world, posts, Away
<1> QED BY <1>1, <1>2, <1>4, <1>5, <1>6, QuietStep DEF Mine

LEMMA EndingStep ==
  ASSUME IInv, NEW w \in Publishers, Done(w) \/ PictureLost(w) \/ Crash(w)
  PROVE  IInv'
<1>1. m' = [m EXCEPT ![w] = Idle] BY DEF Done, PictureLost, Crash
<1>2. UNCHANGED <<text, rows, old, cleared, made>> BY DEF Done, PictureLost, Crash, store, world, posts, Away
<1> QED BY <1>1, <1>2, Ended

LEMMA PublisherStep ==
  ASSUME IInv, NEW w \in Publishers, Publish(w) \/ Crash(w)
  PROVE  IInv'
BY BeginStep, RecoverStep, ClaimStep, RenderStep, CaptureStep, CompareStep, UploadStep,
   PostStep, TidyStep, FinishStep, WritingStep, EndingStep DEF Publish

-----------------------------------------------------------------------------
(* A new row asks for approval, or is cleared. *)
LEMMA Enqueued ==
  ASSUME IInv, NEW e, Enqueue(e)
  PROVE  /\ rows' \in [Events -> Row \cup {NoRow}] /\ Rows \subseteq Rows' /\ RowsCleared'
         /\ cleared \subseteq cleared'
<1> DEFINE row == [status |-> IF policy = "MANUAL" THEN "PENDING_APPROVAL" ELSE "PENDING",
                   manual |-> policy = "MANUAL", tries |-> 0, shot |-> FALSE, media |-> FALSE]
<1>1. row \in Row /\ (row.manual <=> policy = "MANUAL")
  <2>1. (policy = "MANUAL") \in BOOLEAN OBVIOUS
  <2> QED BY <2>1 DEF Row, Statuses, Waiting
<1>2. rows' = [rows EXCEPT ![e] = row] BY DEF Enqueue
<1>3. cleared' = IF policy = "MANUAL" THEN cleared ELSE cleared \cup {e} BY DEF Enqueue
<1> HIDE DEF row
<1>4. rows \in [Events -> Row \cup {NoRow}] BY DEF IInv, Typed
<1>5. row # NoRow BY <1>1, NullAssumption
<1>6. RowsCleared'
  <2> SUFFICES ASSUME NEW f \in Rows' PROVE rows'[f].manual \/ f \in cleared' BY DEF RowsCleared
  <2>1. f \in Events BY DEF Rows
  <2>2. CASE f = e BY <1>1, <1>2, <1>3, <1>4, <2>1, <2>2
  <2>3. CASE f # e BY <1>2, <1>3, <1>4, <2>1, <2>3 DEF Rows, IInv, RowsCleared
  <2> QED BY <2>2, <2>3
<1> QED BY <1>1, <1>2, <1>3, <1>4, <1>5, <1>6 DEF Rows

(* What areas, the polygon and the settings do to publications *)
LEMMA SaveAreaStep ==
  ASSUME IInv, NEW r \in Resources, SaveArea(r)
  PROVE  IInv'
<1>1. text' \in [Resources -> Texts] BY DEF SaveArea, IInv, Typed
<1>2. UNCHANGED <<old, m, made>> /\ old \subseteq Rows BY DEF SaveArea, posts, IInv, Typed
<1>3. CASE UNCHANGED <<rows, cleared>>
  <2>1. Rows' = Rows BY <1>3 DEF Rows
  <2>2. RowsCleared' /\ rows' \in [Events -> Row \cup {NoRow}]
    BY <1>3, <2>1 DEF IInv, RowsCleared, Typed
  <2> QED BY <1>1, <1>2, <1>3, <2>1, <2>2, WorldStep
<1>4. CASE Enqueue(CHOOSE e \in Unused(r) : TRUE)
  BY <1>1, <1>2, <1>4, Enqueued, WorldStep
<1> QED BY <1>3, <1>4 DEF SaveArea

LEMMA AdoptStep ==
  ASSUME IInv, Adopt
  PROVE  IInv'
<1>1. text' \in [Resources -> Texts] /\ UNCHANGED <<old, m, made>> /\ old \subseteq Rows
  BY DEF Adopt, posts, IInv, Typed
<1>2. CASE UNCHANGED <<rows, cleared>>
  <2>1. Rows' = Rows BY <1>2 DEF Rows
  <2>2. RowsCleared' /\ rows' \in [Events -> Row \cup {NoRow}]
    BY <1>2, <2>1 DEF IInv, RowsCleared, Typed
  <2> QED BY <1>1, <1>2, <2>1, <2>2, WorldStep
<1>3. CASE Enqueue(CHOOSE e \in Unused(Polygon) : TRUE)
  BY <1>1, <1>3, Enqueued, WorldStep
<1> QED BY <1>2, <1>3 DEF Adopt

(* Decisions: an approval clears the row, nothing else does. *)
LEMMA DecisionStep ==
  ASSUME IInv, NEW e \in Events, Administer(e)
  PROVE  IInv'
<1>1. /\ e \in Rows /\ rows[e] \in Row /\ rows \in [Events -> Row \cup {NoRow}] /\ old \subseteq Rows
      /\ UNCHANGED <<text, m, made, old>>
  BY DEF Administer, Approve, Retry, Cancel, Decided, posts, IInv, Typed, Rows
<1>2. PICK row \in Row : /\ rows' = [rows EXCEPT ![e] = row] /\ cleared \subseteq cleared'
                         /\ row.manual = rows[e].manual \/ e \in cleared'
  <2>1. CASE Approve(e)
    <3>1. [rows[e] EXCEPT !.status = "PENDING", !.manual = FALSE] \in Row
      BY <1>1 DEF Row, Statuses, Waiting
    <3>2. rows' = [rows EXCEPT ![e] = [rows[e] EXCEPT !.status = "PENDING", !.manual = FALSE]]
      BY <1>1, <2>1 DEF Approve, Row
    <3> QED BY <2>1, <3>1, <3>2 DEF Approve
  <2>2. CASE Retry(e)
    <3>1. /\ [rows[e] EXCEPT !.status = "PENDING", !.tries = 0] \in Row
          /\ [rows[e] EXCEPT !.status = "PENDING", !.tries = 0].manual = rows[e].manual
      BY <1>1 DEF Row, Statuses, Waiting
    <3>2. rows' = [rows EXCEPT ![e] = [rows[e] EXCEPT !.status = "PENDING", !.tries = 0]]
      BY <1>1, <2>2 DEF Retry, Row
    <3> QED BY <2>2, <3>1, <3>2 DEF Retry
  <2>3. CASE Cancel(e)
    <3>1. /\ [rows[e] EXCEPT !.status = "CANCELLED", !.shot = FALSE] \in Row
          /\ [rows[e] EXCEPT !.status = "CANCELLED", !.shot = FALSE].manual = rows[e].manual
      BY <1>1 DEF Row, Statuses
    <3>2. rows' = [rows EXCEPT ![e] = [rows[e] EXCEPT !.status = "CANCELLED", !.shot = FALSE]]
      BY <1>1, <2>3 DEF Cancel, Row
    <3> QED BY <2>3, <3>1, <3>2 DEF Cancel
  <2> QED BY <2>1, <2>2, <2>3 DEF Administer
<1>3. rows' \in [Events -> Row \cup {NoRow}] /\ Rows' = Rows
  BY <1>1, <1>2, NullAssumption DEF Rows
<1>4. RowsCleared'
  BY <1>1, <1>2, <1>3 DEF IInv, RowsCleared, Rows
<1>5. text' \in [Resources -> Texts] BY <1>1 DEF IInv, Typed
<1> QED BY <1>1, <1>2, <1>3, <1>4, <1>5, WorldStep

(* The end of the polygon's publications clears nothing. *)
LEMMA CancellationStep ==
  ASSUME IInv, CancelPublications, UNCHANGED <<text, cleared, made, m>>
  PROVE  IInv'
<1> DEFINE gone == {e \in Of(Polygon) : rows[e].status \in Cancellable}
           row(e) == [rows[e] EXCEPT !.status = "CANCELLED", !.shot = FALSE]
<1>1. gone \subseteq Rows BY DEF Of
<1>2. rows \in [Events -> Row \cup {NoRow}] /\ old \subseteq Rows BY DEF IInv, Typed
<1>3. \A e \in gone : row(e) \in Row /\ row(e).manual = rows[e].manual
  BY <1>1, <1>2 DEF Rows, Row, Statuses
<1>4. rows' = [e \in Events |-> IF e \in gone THEN row(e) ELSE rows[e]] /\ old' = old \ gone
  BY DEF CancelPublications
<1> HIDE DEF gone, row
<1>5. rows' \in [Events -> Row \cup {NoRow}] /\ Rows' = Rows
  BY <1>1, <1>2, <1>3, <1>4, NullAssumption DEF Rows
<1>6. RowsCleared' BY <1>3, <1>4, <1>5 DEF IInv, RowsCleared, Rows
<1>7. text' \in [Resources -> Texts] /\ old' \subseteq Rows' BY <1>2, <1>4, <1>5 DEF IInv, Typed
<1> QED BY <1>5, <1>6, <1>7, WorldStep

(* Whatever leaves rows, runs and statuses alone *)
LEMMA ElsewhereStep ==
  ASSUME IInv, UNCHANGED <<rows, m, made, cleared>>, old' \subseteq Rows,
         text' \in [Resources -> Texts]
  PROVE  IInv'
<1>1. Rows' = Rows BY DEF Rows
<1>2. RowsCleared' /\ rows' \in [Events -> Row \cup {NoRow}]
  BY <1>1 DEF IInv, RowsCleared, Typed
<1> QED BY <1>1, <1>2, WorldStep

LEMMA SocialStep ==
  ASSUME IInv, Social
  PROVE  IInv'
<1>1. old \subseteq Rows /\ text \in [Resources -> Texts] BY DEF IInv, Typed
<1>2. ASSUME NEW w \in Publishers, Publish(w) \/ Crash(w) PROVE IInv' BY <1>2, PublisherStep
<1>3. ASSUME NEW e \in Events, Administer(e) PROVE IInv' BY <1>3, DecisionStep
<1>4. ASSUME NEW e \in Events, Aside(e) PROVE IInv'
  <2>1. UNCHANGED <<rows, m, made, cleared, text>> /\ old' \subseteq Rows
    BY <1>1, <1>4 DEF Aside, FallsDue, GrowsOld, Away, world, posts, Rows
  <2> QED BY <1>1, <2>1, ElsewhereStep
<1>5. ASSUME NEW r \in Resources, SaveArea(r) PROVE IInv' BY <1>5, SaveAreaStep
<1>6. ASSUME NEW p \in Modes, SetPolicy(p) PROVE IInv'
  <2>1. UNCHANGED <<rows, old, m, made, cleared, text>> BY <1>6 DEF SetPolicy, store, posts
  <2> QED BY <1>1, <2>1, ElsewhereStep
<1>7. ASSUME Adoption PROVE IInv' BY <1>7, AdoptStep DEF Adoption
<1>8. ASSUME NEW e \in Events, Forget(e) PROVE IInv'
  <2>1. UNCHANGED <<rows, old, m, made, cleared, text>> BY <1>8 DEF Forget, store
  <2> QED BY <1>1, <2>1, ElsewhereStep
<1> QED BY <1>2, <1>3, <1>4, <1>5, <1>6, <1>7, <1>8 DEF Social

LEMMA OutboxKeeps ==
  ASSUME IInv, Outbox
  PROVE  IInv'
<1>1. old \subseteq Rows /\ text \in [Resources -> Texts] BY DEF IInv, Typed
<1>2. CASE UNCHANGED vars BY <1>1, <1>2, ElsewhereStep DEF vars, store, world, posts
<1>3. CASE Mutate
  <2>1. UNCHANGED <<rows, old, m, made, cleared>> /\ text' \in [Resources -> Texts]
    BY <1>1, <1>3 DEF Mutate, store, posts
  <2> QED BY <1>1, <2>1, ElsewhereStep
<1>4. ASSUME NEW w \in Runs, CancelPublications, UNCHANGED <<text, policy, posts, cleared, m, outside, faults>>
      PROVE IInv'
  BY <1>4, CancellationStep DEF posts
<1> QED BY <1>2, <1>3, <1>4 DEF Outbox, OutboxStep

(* Nothing that is posted, read or kept escapes the rule: the inductive invariant *)
THEOREM Inductive == Spec => []IInv
<1>1. Init2 => IInv
  <2> SUFFICES ASSUME Init2 PROVE IInv OBVIOUS
  <2>1. Init BY DEF Init2
  <2>2. Rows = {} /\ rows \in [Events -> Row \cup {NoRow}] BY <2>1 DEF Init, Rows
  <2>3. Idle \in Run
    <3>1. [e \in Events |-> NoRow] \in [Events -> Object \cup {NoRow}] OBVIOUS
    <3>2. Limit \in Int BY BoundAssumption
    <3> QED BY <3>1, <3>2 DEF Idle, Run, Places
  <2>4. [Idle EXCEPT !.at = "off"] \in Run BY <2>3 DEF Run, Places
  <2>5. \A w \in Publishers : /\ m[w] \in Run /\ m[w].at \in {"idle", "off"} /\ m[w].stale = {}
                              /\ \A e \in Events : m[w].seen[e] = NoRow
    <3> DEFINE off == [Idle EXCEPT !.at = "off"]
    <3>1. \A w \in Publishers : m[w] = Idle \/ m[w] = off BY <2>1 DEF Init
    <3>2. /\ Idle.at = "idle" /\ Idle.stale = {} /\ off.at = "off" /\ off.stale = {}
          /\ \A e \in Events : Idle.seen[e] = NoRow /\ off.seen[e] = NoRow
      BY DEF Idle
    <3> HIDE DEF off
    <3>3. off \in Run BY <2>4 DEF off
    <3> QED BY <2>3, <3>1, <3>2, <3>3
  <2>6. m \in [Publishers -> Run] BY <2>1, <2>3, <2>4 DEF Init
  <2>7. Typed BY <2>1, <2>2, <2>6 DEF Init, Typed
  <2>8. Known /\ ObjectsCleared /\ PostingCleared
    BY <2>5 DEF Known, ObjectsCleared, PostingCleared, Working
  <2>9. RowsCleared /\ MadeCleared BY <2>1, <2>2 DEF Init, RowsCleared, MadeCleared
  <2> QED BY <2>7, <2>8, <2>9 DEF IInv
<1>2. IInv /\ [Next]_all => IInv'
  <2> SUFFICES ASSUME IInv, [Next]_all PROVE IInv' OBVIOUS
  <2>1. CASE Social BY <2>1, SocialStep
  <2>2. CASE Outbox BY <2>2, OutboxKeeps
  <2>3. CASE UNCHANGED all
    <3>1. UNCHANGED vars BY <2>3 DEF all
    <3>2. old \subseteq Rows /\ text \in [Resources -> Texts] BY DEF IInv, Typed
    <3> QED BY <3>1, <3>2, ElsewhereStep DEF vars, store, world, posts
  <2> QED BY <2>1, <2>2, <2>3 DEF Next
<1> QED BY <1>1, <1>2, PTL DEF Spec

(* Nothing is posted that waits for an approval and never got it, whatever publishers remember *)
(* and write back while administrators decide (publish_due_events, approve_publication).        *)
THEOREM PostsAreCleared == Spec => []NothingUnapproved
<1>1. IInv => NothingUnapproved BY DEF IInv, MadeCleared, NothingUnapproved
<1> QED BY <1>1, Inductive, PTL

-----------------------------------------------------------------------------
(* What the rows of both outboxes may hold.  A waiting row has no waiting twin: it is made only *)
(* where there is none, and whatever else may make one asks the unique index.                   *)
Placed == /\ due \in Seq(Events) /\ files \subseteq Events /\ cleared \subseteq Events
          /\ exists \subseteq Resources /\ policy \in Modes
          /\ published \in [Events -> Texts \cup {NoText}]
          /\ kept \subseteq Events /\ echoed \subseteq Events /\ rehearsed \subseteq Events

SocialInv == Placed /\ Unique(rows)

(* The sequences of due rows *)
LEMMA OrdersAreSequences ==
  ASSUME NEW S, S \subseteq Events
  PROVE  Orders(S) \subseteq Seq(Events)
<1>1. IsFiniteSet(S) BY OutboxAssumption, FS_Subset
<1>2. Cardinality(S) \in Nat BY <1>1, FS_CardinalityType
<1> SUFFICES ASSUME NEW q \in [1..Cardinality(S) -> S] PROVE q \in Seq(Events) BY DEF Orders
<1>3. q \in Seq(S) BY <1>2
<1> QED BY <1>3, SeqMonotonic

LEMMA DueIsASequence ==
  ASSUME NEW S, S \subseteq Events
  PROVE  Without(S) \subseteq Seq(Events) /\ Back(S) \subseteq Seq(Events)
<1>1. Without(S) \subseteq Seq(Events)
  <2>1. {e \in Events \ S : IsDue(e)} \subseteq Events OBVIOUS
  <2> QED BY <2>1, OrdersAreSequences DEF Without
<1>2. Back(S) \subseteq Seq(Events)
  <2> SUFFICES ASSUME NEW s \in Back(S) PROVE s \in Seq(Events) OBVIOUS
  <2>1. PICK p \in Without(S), q \in Orders(S) : s = p \o q BY SMTT(30) DEF Back
  <2>2. p \in Seq(Events) /\ q \in Seq(Events) BY <1>1, OrdersAreSequences
  <2> QED BY <2>1, <2>2, ConcatProperties
<1> QED BY <1>1, <1>2

(* One waiting row for each resource, after a step that makes none *)
LEMMA NoneWaits ==
  ASSUME Unique(rows), NEW R,
         \A e \in Events : R[e] # NoRow /\ R[e].status \in Waiting
                             => rows[e] # NoRow /\ rows[e].status \in Waiting
  PROVE  Unique(R)
BY DEF Unique

(* A new row, where no row of its resource waits *)
LEMMA OneWaits ==
  ASSUME IInv, SocialInv, NEW e \in Events, Enqueue(e),
         \A f \in Events : Resource[f] = Resource[e] /\ rows[f] # NoRow => rows[f].status \notin Waiting
  PROVE  Unique(rows') /\ cleared' \subseteq Events
<1> DEFINE row == [status |-> IF policy = "MANUAL" THEN "PENDING_APPROVAL" ELSE "PENDING",
                   manual |-> policy = "MANUAL", tries |-> 0, shot |-> FALSE, media |-> FALSE]
<1>1. rows' = [rows EXCEPT ![e] = row] BY DEF Enqueue
<1> HIDE DEF row
<1>2. rows \in [Events -> Row \cup {NoRow}] BY DEF IInv, Typed
<1>3. Unique(rows') BY <1>1, <1>2 DEF Unique, SocialInv
<1>4. cleared' \subseteq Events BY DEF Enqueue, SocialInv, Placed
<1> QED BY <1>3, <1>4

(* The commit of a run, whether the unique index accepts it or ends the run *)
LEMMA CommitTypes ==
  ASSUME SocialInv, NEW w \in Publishers, NEW STATE new, NEW STATE after, Commit(w, new, after)
  PROVE  Unique(rows')
BY DEF Commit, SocialInv

-----------------------------------------------------------------------------
(* The publisher's steps that write no row *)
LEMMA QuietTypes ==
  ASSUME IInv, SocialInv, NEW w \in Publishers,
         Begin(w) \/ Render(w) \/ Capture(w) \/ Compare(w) \/ Upload(w) \/ Post(w) \/ Tidy(w)
         \/ Done(w) \/ PictureLost(w) \/ Crash(w)
  PROVE  SocialInv'
<1>1. rows' = rows
  BY DEF Begin, Render, Capture, Compare, Upload, Post, Tidy, Done, PictureLost, Crash, store
<1>2. Unique(rows') BY <1>1 DEF SocialInv
<1>3. m[w] \in Run BY AtWork
<1>4. UNCHANGED <<due, published, cleared, exists, policy, rehearsed>>
  BY DEF Begin, Render, Capture, Compare, Upload, Post, Tidy, Done, PictureLost, Crash, store, world, posts, Away
<1>5. files' \subseteq Events
  <2>1. files \subseteq Events BY DEF SocialInv, Placed
  <2>2. CASE Capture(w)
    <3>1. m[w].event \in Events BY <2>2, AtWork DEF Capture, Working
    <3> QED BY <2>1, <2>2, <3>1 DEF Capture
  <2>3. CASE Tidy(w) BY <2>1, <2>3 DEF Tidy
  <2> QED BY <2>1, <2>2, <2>3 DEF Begin, Render, Compare, Upload, Post, Done, PictureLost, Crash, store
<1>6. kept' \subseteq Events /\ echoed' \subseteq Events
  <2>1. kept \subseteq Events /\ echoed \subseteq Events BY DEF SocialInv, Placed
  <2>2. CASE Post(w)
    <3>1. m[w].event \in Events BY <2>2, AtWork DEF Post, Working
    <3> QED BY <2>1, <2>2, <3>1 DEF Post, Key
  <2> QED BY <2>1, <2>2 DEF Begin, Render, Capture, Compare, Upload, Tidy, Done, PictureLost, Crash, world, posts, Away
<1> QED BY <1>2, <1>4, <1>5, <1>6 DEF SocialInv, Placed

(* A claimed row waits no longer. *)
LEMMA ClaimTypes ==
  ASSUME IInv, SocialInv, NEW w \in Publishers, NEW e \in Events, Claim(w, e)
  PROVE  SocialInv'
<1> DEFINE found == IF Remembers(w, e) THEN m[w].seen[e] ELSE Copy(rows[e])
           mine  == [found EXCEPT !.tries = @ + 1]
           tries == mine.tries
<1>1. rows \in [Events -> Row \cup {NoRow}] /\ rows[e] \in Row
  BY DEF Claim, First, Claimable, IInv, Typed, Rows
<1>2. rows' = [rows EXCEPT ![e].status = "PROCESSING", ![e].tries = tries] BY DEF Claim
<1> HIDE DEF tries
<1>3. rows'[e].status = "PROCESSING" /\ \A f \in Events \ {e} : rows'[f] = rows[f]
  BY <1>1, <1>2 DEF Row
<1>4. \A f \in Events : rows'[f] # NoRow /\ rows'[f].status \in Waiting
                          => rows[f] # NoRow /\ rows[f].status \in Waiting
  BY <1>3 DEF Waiting
<1>5. Unique(rows') BY <1>4, NoneWaits DEF SocialInv
<1>6. Placed' BY DEF Claim, Away, world, posts, SocialInv, Placed
<1> QED BY <1>5, <1>6 DEF SocialInv

(* The commits of a run *)
LEMMA CommitsTypes ==
  ASSUME IInv, SocialInv, NEW w \in Publishers,
         Recover(w) \/ Gone(w) \/ Prepared(w) \/ Finish(w) \/ \E f \in Failures : Fail(w, f = "passes")
  PROVE  SocialInv'
<1>1. m[w] \in Run BY AtWork
<1>2. Unique(rows')
  <2>1. CASE Recover(w) BY <2>1, CommitTypes DEF Recover
  <2>2. CASE Gone(w) BY <2>2, CommitTypes DEF Gone
  <2>3. CASE Prepared(w) BY <2>3, CommitTypes DEF Prepared
  <2>4. ASSUME NEW f \in Failures, Fail(w, f = "passes") PROVE Unique(rows')
    <3> DEFINE status == IF f = "passes" /\ ~Exhausted(w) THEN Requeued(Mine(w)) ELSE "FAILED"
    <3>1. Commit(w, [rows EXCEPT ![m[w].event] = Written(w, status, Shown(w))], After(w, Mine(w)))
      BY <2>4 DEF Fail
    <3> HIDE DEF status
    <3> QED BY <3>1, CommitTypes
  <2>5. CASE Finish(w)
    <3>1. CASE Refused(w) BY <2>5, <3>1 DEF Finish, SocialInv
    <3>2. CASE ~Refused(w) BY <2>5, <3>2, CommitTypes DEF Finish
    <3> QED BY <3>1, <3>2
  <2> QED BY <2>1, <2>2, <2>3, <2>4, <2>5
<1>3. Placed'
  <2>1. UNCHANGED <<cleared, exists, policy, kept, echoed>>
    BY DEF Recover, Gone, Prepared, Finish, Fail, Away, world, posts
  <2>2. files' \subseteq Events
    BY DEF Recover, Gone, Prepared, Finish, Fail, SocialInv, Placed
  <2>3. published' \in [Events -> Texts \cup {NoText}]
    <3>1. m[w].text \in Texts \cup {NoText} BY <1>1 DEF Run
    <3> QED BY <3>1 DEF Recover, Gone, Prepared, Finish, Fail, Hash, SocialInv, Placed
  <2>4. due' \in Seq(Events)
    <3>1. due \in Seq(Events) BY DEF SocialInv, Placed
    <3>2. m[w].stale \subseteq Events BY <1>1 DEF Run
    <3>3. CASE Recover(w)
      <4>1. due' \in Back(m[w].stale) \/ due' = due BY <3>3 DEF Recover
      <4> QED BY <3>1, <3>2, <4>1, DueIsASequence
    <3>4. ASSUME NEW f \in Failures, Fail(w, f = "passes") PROVE due' \in Seq(Events)
      <4>1. m[w].event \in Events BY <3>4, AtWork DEF Fail, Working
      <4>2. due' \in Without({m[w].event}) \/ due' = due BY <3>4 DEF Fail
      <4>3. {m[w].event} \subseteq Events BY <4>1
      <4> QED BY <3>1, <4>2, <4>3, DueIsASequence
    <3> QED BY <3>1, <3>3, <3>4 DEF Gone, Prepared, Finish
  <2>5. rehearsed' \subseteq Events
    <3>1. rehearsed \subseteq Events BY DEF SocialInv, Placed
    <3>2. CASE Finish(w)
      <4>1. m[w].event \in Events BY <3>2, AtWork DEF Finish, Working
      <4> QED BY <3>1, <3>2, <4>1 DEF Finish
    <3> QED BY <3>1, <3>2 DEF Recover, Gone, Prepared, Fail, Away, world, posts
  <2> QED BY <2>1, <2>2, <2>3, <2>4, <2>5 DEF SocialInv, Placed
<1> QED BY <1>2, <1>3 DEF SocialInv

-----------------------------------------------------------------------------
(* Administrators, areas, the polygon, settings and time *)
LEMMA DecisionTypes ==
  ASSUME IInv, SocialInv, NEW e \in Events, Administer(e)
  PROVE  SocialInv'
<1>1. /\ e \in Rows /\ rows[e] \in Row /\ rows \in [Events -> Row \cup {NoRow}]
      /\ UNCHANGED <<published, exists, policy, kept, echoed, rehearsed>>
  BY DEF Administer, Approve, Retry, Cancel, Decided, posts, IInv, Typed, Rows
<1>2. /\ \A f \in Events \ {e} : rows'[f] = rows[f]
      /\ \/ rows'[e].status = "PENDING" /\ rows[e].status \in Waiting
         \/ rows'[e].status = "PENDING" /\ Unique([rows EXCEPT ![e].status = "PENDING"])
         \/ rows'[e].status = "CANCELLED"
  <2>1. CASE Approve(e) BY <1>1, <2>1 DEF Approve, Decided, Row, Waiting
  <2>2. CASE Retry(e) BY <1>1, <2>2 DEF Retry, Row
  <2>3. CASE Cancel(e) BY <1>1, <2>3 DEF Cancel, Row
  <2> QED BY <2>1, <2>2, <2>3 DEF Administer
<1>3. Unique(rows')
  <2>1. CASE \/ rows'[e].status = "PENDING" /\ rows[e].status \in Waiting
             \/ rows'[e].status = "CANCELLED"
    <3>1. \A f \in Events : rows'[f] # NoRow /\ rows'[f].status \in Waiting
                              => rows[f] # NoRow /\ rows[f].status \in Waiting
      BY <1>1, <1>2, <2>1 DEF Waiting, Rows
    <3> QED BY <3>1, NoneWaits DEF SocialInv
  <2>2. CASE rows'[e].status = "PENDING" /\ Unique([rows EXCEPT ![e].status = "PENDING"])
    <3> DEFINE R == [rows EXCEPT ![e].status = "PENDING"]
    <3>1. R[e].status = "PENDING" /\ R[e] # NoRow /\ \A f \in Events \ {e} : R[f] = rows[f]
      <4>1. [rows[e] EXCEPT !.status = "PENDING"] \in Row BY <1>1 DEF Row, Statuses, Waiting
      <4> QED BY <1>1, <4>1, NullAssumption DEF Row
    <3>2. Unique(R) BY <2>2
    <3> HIDE DEF R
    <3>3. \A f \in Events : rows'[f] # NoRow /\ rows'[f].status \in Waiting
                              => R[f] # NoRow /\ R[f].status \in Waiting
      BY <1>2, <2>2, <3>1 DEF Waiting
    <3> QED BY <3>2, <3>3 DEF Unique
  <2> QED BY <1>2, <2>1, <2>2
<1>4. Placed'
  <2>1. due' \in Seq(Events)
    <3>1. {e} \subseteq Events OBVIOUS
    <3>2. due' \in Back({e}) \/ due' = due BY DEF Administer, Approve, Retry, Cancel
    <3> QED BY <3>1, <3>2, DueIsASequence DEF SocialInv, Placed
  <2>2. files' \subseteq Events /\ cleared' \subseteq Events
    BY DEF Administer, Approve, Retry, Cancel, SocialInv, Placed
  <2> QED BY <1>1, <2>1, <2>2 DEF SocialInv, Placed
<1> QED BY <1>3, <1>4 DEF SocialInv

(* Whoever enqueues has looked for a waiting row first. *)
LEMMA EnqueueTypes ==
  ASSUME IInv, SocialInv, NEW r \in Resources, Mergeable(r) = {}, Unused(r) # {},
         Enqueue(CHOOSE e \in Unused(r) : TRUE)
  PROVE  Unique(rows') /\ cleared' \subseteq Events
<1> DEFINE e == CHOOSE e \in Unused(r) : TRUE
<1>1. e \in Unused(r) OBVIOUS
<1>2. e \in Events /\ Resource[e] = r BY <1>1 DEF Unused
<1>3. Enqueue(e) OBVIOUS
<1> HIDE DEF e
<1>4. \A f \in Events : Resource[f] = Resource[e] /\ rows[f] # NoRow => rows[f].status \notin Waiting
  BY <1>2 DEF Mergeable, Of, Rows
<1> QED BY <1>2, <1>3, <1>4, OneWaits

LEMMA WorldTypes ==
  ASSUME IInv, SocialInv,
         \/ \E r \in Resources : SaveArea(r)
         \/ Adopt
         \/ \E p \in Modes : SetPolicy(p)
         \/ \E e \in Events : Aside(e)
  PROVE  SocialInv'
<1>1. ASSUME UNCHANGED <<rows, cleared>> PROVE Unique(rows') /\ cleared' \subseteq Events
  BY <1>1 DEF SocialInv, Placed
<1>2. UNCHANGED <<published, files, kept, echoed, rehearsed>>
  BY DEF SaveArea, Adopt, SetPolicy, Aside, FallsDue, GrowsOld, Away, store, world, posts
<1>3. due \in Seq(Events) /\ exists \subseteq Resources /\ policy \in Modes BY DEF SocialInv, Placed
<1>4. ASSUME NEW r \in Resources, SaveArea(r) PROVE SocialInv'
  <2>1. UNCHANGED <<exists, policy>> BY <1>4 DEF SaveArea
  <2>2. due' \in Seq(Events) /\ Unique(rows') /\ cleared' \subseteq Events
    <3>1. CASE UNCHANGED <<rows, due, cleared>> BY <1>1, <1>3, <3>1
    <3>2. CASE due' \in Without(Mergeable(r)) /\ UNCHANGED <<rows, cleared>>
      <4>1. Mergeable(r) \subseteq Events BY DEF Mergeable, Of, Rows
      <4> QED BY <1>1, <3>2, <4>1, DueIsASequence
    <3>3. CASE /\ Mergeable(r) = {} /\ Unused(r) # {} /\ Enqueue(CHOOSE e \in Unused(r) : TRUE)
               /\ UNCHANGED due
      BY <1>3, <3>3, EnqueueTypes
    <3> QED BY <1>4, <3>1, <3>2, <3>3 DEF SaveArea
  <2> QED BY <1>2, <1>3, <2>1, <2>2 DEF SocialInv, Placed
<1>5. CASE Adopt
  <2>1. UNCHANGED <<due, policy>> BY <1>5 DEF Adopt
  <2>2. exists' \subseteq Resources BY <1>3, <1>5, OutboxAssumption DEF Adopt
  <2>3. Unique(rows') /\ cleared' \subseteq Events
    <3>1. CASE UNCHANGED <<rows, cleared>> BY <1>1, <3>1
    <3>2. CASE Enqueue(CHOOSE e \in Unused(Polygon) : TRUE)
      <4>1. Of(Polygon) = {} BY <1>5 DEF Adopt
      <4>2. PICK e \in Events : Resource[e] = Polygon BY OutboxAssumption DEF Resources
      <4>3. Unused(Polygon) # {} BY <4>1, <4>2 DEF Of, Unused
      <4>4. Mergeable(Polygon) = {} BY <4>1 DEF Mergeable
      <4> QED BY <3>2, <4>3, <4>4, EnqueueTypes, OutboxAssumption
    <3> QED BY <1>5, <3>1, <3>2 DEF Adopt
  <2> QED BY <1>2, <1>3, <2>1, <2>2, <2>3 DEF SocialInv, Placed
<1>6. ASSUME NEW p \in Modes, SetPolicy(p) PROVE SocialInv'
  <2>1. UNCHANGED <<rows, due, exists, cleared>> /\ policy' \in Modes BY <1>6 DEF SetPolicy, store
  <2> QED BY <1>1, <1>2, <1>3, <2>1 DEF SocialInv, Placed
<1>7. ASSUME NEW e \in Events, Aside(e) PROVE SocialInv'
  <2>1. UNCHANGED <<rows, exists, policy, cleared>> BY <1>7 DEF Aside, FallsDue, GrowsOld, Away, world, posts
  <2>2. due' \in Seq(Events) BY <1>3, <1>7 DEF Aside, FallsDue, GrowsOld
  <2> QED BY <1>1, <1>2, <1>3, <2>1, <2>2 DEF SocialInv, Placed
<1> QED BY <1>4, <1>5, <1>6, <1>7

(* The end of the polygon's publications makes no row wait. *)
LEMMA CancellationTypes ==
  ASSUME IInv, SocialInv, CancelPublications, UNCHANGED <<cleared, posts, exists, policy>>
  PROVE  SocialInv'
<1> DEFINE gone == {e \in Of(Polygon) : rows[e].status \in Cancellable}
           row(e) == [rows[e] EXCEPT !.status = "CANCELLED", !.shot = FALSE]
<1>1. gone \subseteq Rows BY DEF Of
<1>2. rows \in [Events -> Row \cup {NoRow}] BY DEF IInv, Typed
<1>3. \A e \in gone : row(e).status = "CANCELLED"
  BY <1>1, <1>2 DEF Rows, Row
<1>4. rows' = [e \in Events |-> IF e \in gone THEN row(e) ELSE rows[e]] BY DEF CancelPublications
<1> HIDE DEF gone, row
<1>5. \A e \in Events : rows'[e] # NoRow /\ rows'[e].status \in Waiting
                          => rows[e] # NoRow /\ rows[e].status \in Waiting
  BY <1>3, <1>4 DEF Waiting
<1>6. Unique(rows') BY <1>5, NoneWaits DEF SocialInv
<1>7. Placed' BY DEF CancelPublications, posts, SocialInv, Placed
<1> QED BY <1>6, <1>7 DEF SocialInv

(* Whatever leaves publications alone *)
LEMMA ElsewhereTypes ==
  ASSUME SocialInv, UNCHANGED <<rows, due, published, files, policy, cleared, echoed, rehearsed>>,
         kept' \subseteq kept, exists' \subseteq Resources
  PROVE  SocialInv'
BY DEF SocialInv, Placed

-----------------------------------------------------------------------------
(* The outbox: whatever is due, hangs or is in a batch has been written, and a run that has *)
(* something to do has it at the head of its batch.                                          *)
Busy == {"starting", "handling", "finishing"}

OutboxRun == [at : Busy \cup {"idle", "off", "selecting"}, batch : Seq(Entries), locks : SUBSET Entries,
              dirty : BOOLEAN, tries : [Entries -> Nat]]

OutboxTyped == outbox \in [Entries -> {NoEntry} \cup O!Entry] /\ run \in [Runs -> OutboxRun]

OutboxKnown ==
  /\ eventDue \in Seq(O!Written) /\ eventOld \subseteq O!Written
  /\ \A w \in Runs : /\ run[w].batch \in Seq(O!Written)
                     /\ run[w].at \in Busy => run[w].batch # <<>>

OutboxInv == OutboxTyped /\ OutboxKnown

(* The entries of a set by the order of their times *)
LEMMA InOrderIsASequence ==
  ASSUME NEW S, S \subseteq Entries, NEW q \in O!InOrder(S)
  PROVE  q \in Seq(S) /\ (S # {} => q # <<>>)
<1>1. IsFiniteSet(S) BY OutboxAssumption, FS_Subset
<1>2. Cardinality(S) \in Nat BY <1>1, FS_CardinalityType
<1>3. q \in [1..Cardinality(S) -> S]
  <2>1. O!Cardinality(S) = Cardinality(S) BY DEF O!Cardinality, Cardinality
  <2>2. q \in [1..O!Cardinality(S) -> S] BY DEF O!InOrder
  <2> QED BY <2>1, <2>2
<1>4. q \in Seq(S) BY <1>2, <1>3
<1>5. S # {} => Cardinality(S) # 0 BY <1>1, FS_EmptySet
<1>6. Len(q) = Cardinality(S) BY <1>2, <1>3, <1>4
<1> QED BY <1>2, <1>4, <1>5, <1>6

(* What a step may do to the outbox: entries stay, and at most one run changes. *)
LEMMA OutboxStepTypes ==
  ASSUME OutboxInv, outbox' \in [Entries -> {NoEntry} \cup O!Entry], O!Written \subseteq O!Written',
         eventDue' \in Seq(O!Written'), eventOld' \subseteq O!Written',
         NEW w \in Runs, NEW STATE new, new \in OutboxRun, run' = [run EXCEPT ![w] = new],
         new.batch \in Seq(O!Written'), new.at \in Busy => new.batch # <<>>
  PROVE  OutboxInv'
<1>1. run \in [Runs -> OutboxRun] BY DEF OutboxInv, OutboxTyped
<1>2. OutboxTyped' BY <1>1 DEF OutboxTyped, OutboxRun
<1>3. ASSUME NEW v \in Runs
      PROVE  run'[v].batch \in Seq(O!Written') /\ (run'[v].at \in Busy => run'[v].batch # <<>>)
  <2>1. CASE v = w BY <1>1, <2>1
  <2>2. CASE v # w
    <3>1. run'[v] = run[v] BY <1>1, <2>2
    <3>2. run[v].batch \in Seq(O!Written) BY DEF OutboxInv, OutboxKnown
    <3>3. run[v].batch \in Seq(O!Written') BY <3>2, SeqMonotonic
    <3> QED BY <3>1, <3>3 DEF OutboxInv, OutboxKnown
  <2> QED BY <2>1, <2>2
<1> QED BY <1>2, <1>3 DEF OutboxInv, OutboxKnown

LEMMA OutboxWorldTypes ==
  ASSUME OutboxInv, outbox' \in [Entries -> {NoEntry} \cup O!Entry], O!Written \subseteq O!Written',
         eventDue' \in Seq(O!Written'), eventOld' \subseteq O!Written', run' = run
  PROVE  OutboxInv'
<1>1. OutboxTyped' BY DEF OutboxInv, OutboxTyped, OutboxRun
<1>2. ASSUME NEW v \in Runs
      PROVE  run'[v].batch \in Seq(O!Written') /\ (run'[v].at \in Busy => run'[v].batch # <<>>)
  <2>1. run[v].batch \in Seq(O!Written) BY DEF OutboxInv, OutboxKnown
  <2>2. run[v].batch \in Seq(O!Written') BY <2>1, SeqMonotonic
  <2> QED BY <2>2 DEF OutboxInv, OutboxKnown
<1> QED BY <1>1, <1>2 DEF OutboxInv, OutboxKnown

LEMMA IdleRun == O!Idle \in OutboxRun /\ O!Idle.batch = <<>> /\ O!Idle.at = "idle"
<1>1. [e \in Entries |-> 0] \in [Entries -> Nat] BY OutboxAssumption
<1>2. <<>> \in Seq(Entries) OBVIOUS
<1> QED BY <1>1, <1>2 DEF O!Idle, OutboxRun

(* A run that ends, or dies, or leaves the outbox as it is *)
LEMMA QuietRunTypes ==
  ASSUME OutboxInv, NEW w \in Runs, UNCHANGED <<outbox, eventDue>>, eventOld' \subseteq eventOld,
         NEW STATE new, new \in OutboxRun, run' = [run EXCEPT ![w] = new],
         new.batch \in Seq(O!Written), new.at \in Busy => new.batch # <<>>
  PROVE  OutboxInv'
<1>1. O!Written' = O!Written BY DEF O!Written
<1>2. outbox' \in [Entries -> {NoEntry} \cup O!Entry] BY DEF OutboxInv, OutboxTyped
<1>3. eventDue' \in Seq(O!Written') /\ eventOld' \subseteq O!Written' BY <1>1 DEF OutboxInv, OutboxKnown
<1> QED BY <1>1, <1>2, <1>3, OutboxStepTypes

LEMMA EndedRunTypes ==
  ASSUME OutboxInv, NEW w \in Runs, O!Crash(w) \/ O!Die(w)
  PROVE  OutboxInv'
<1>1. UNCHANGED <<outbox, eventDue, eventOld>> /\ run' = [run EXCEPT ![w] = O!Idle]
  BY DEF O!Crash, O!Die
<1>2. O!Idle.at \notin Busy /\ O!Idle.batch \in Seq(O!Written) BY IdleRun DEF Busy
<1> QED BY <1>1, <1>2, IdleRun, QuietRunTypes

(* A busy run *)
LEMMA BusyRun ==
  ASSUME OutboxInv, NEW w \in Runs
  PROVE  /\ run[w] \in OutboxRun
         /\ run[w].at \in Busy =>
              /\ O!Handled(w) \in O!Written /\ O!Handled(w) \in Entries
              /\ outbox[O!Handled(w)] \in O!Entry
              /\ Len(run[w].batch) \in Nat \ {0}
              /\ Tail(run[w].batch) \in Seq(O!Written)
              /\ Len(Tail(run[w].batch)) = Len(run[w].batch) - 1
<1>1. run[w] \in OutboxRun BY DEF OutboxInv, OutboxTyped
<1>2. ASSUME run[w].at \in Busy
      PROVE  /\ O!Handled(w) \in O!Written
             /\ Len(run[w].batch) \in Nat \ {0}
             /\ Tail(run[w].batch) \in Seq(O!Written)
             /\ Len(Tail(run[w].batch)) = Len(run[w].batch) - 1
  <2>1. run[w].batch \in Seq(O!Written) /\ run[w].batch # <<>> BY <1>2 DEF OutboxInv, OutboxKnown
  <2> QED BY <2>1, HeadTailProperties, EmptySeq DEF O!Handled
<1> QED BY <1>1, <1>2 DEF O!Written, OutboxInv, OutboxTyped

(* One entry is written over. *)
LEMMA EntryWritten ==
  ASSUME OutboxInv, NEW e \in Entries, NEW new \in O!Entry, outbox' = [outbox EXCEPT ![e] = new]
  PROVE  outbox' \in [Entries -> {NoEntry} \cup O!Entry] /\ O!Written \cup {e} = O!Written'
BY OutboxAssumption DEF OutboxInv, OutboxTyped, O!Written

LEMMA RecoverTypes ==
  ASSUME OutboxInv, NEW w \in Runs, O!Recover(w)
  PROVE  OutboxInv'
<1> DEFINE row(e) == [outbox[e] EXCEPT !.status = "PENDING"]
           new == [run[w] EXCEPT !.at = "selecting"]
<1>1. O!Hanging \subseteq O!Written /\ outbox \in [Entries -> {NoEntry} \cup O!Entry]
  BY DEF O!Hanging, OutboxInv, OutboxTyped, OutboxKnown
<1>2. \A e \in O!Hanging : row(e) \in O!Entry BY <1>1 DEF O!Written, O!Entry, O!Open
<1>3. outbox' = [e \in Entries |-> IF e \in O!Hanging THEN row(e) ELSE outbox[e]] BY DEF O!Recover
<1> HIDE DEF row
<1>4. outbox' \in [Entries -> {NoEntry} \cup O!Entry] /\ O!Written' = O!Written
  BY <1>1, <1>2, <1>3, OutboxAssumption DEF O!Written
<1>5. eventDue' \in Seq(O!Written') /\ eventOld' \subseteq O!Written'
  BY <1>4 DEF O!Recover, OutboxInv, OutboxKnown
<1>6. new \in OutboxRun /\ new.at = "selecting" /\ new.batch = run[w].batch BY BusyRun DEF OutboxRun
<1>7. run' = [run EXCEPT ![w] = new] BY DEF O!Recover, OutboxInv, OutboxTyped
<1>8. new.batch \in Seq(O!Written') BY <1>4, <1>6 DEF OutboxInv, OutboxKnown
<1> HIDE DEF new
<1> QED BY <1>4, <1>5, <1>6, <1>7, <1>8, OutboxStepTypes DEF Busy

LEMMA SelectTypes ==
  ASSUME OutboxInv, NEW w \in Runs, O!Select(w)
  PROVE  OutboxInv'
<1> DEFINE chosen == O!Selectable
           tries == [e \in Entries |-> IF e \in chosen THEN outbox[e].attempts ELSE 0]
<1>1. chosen \subseteq O!Written /\ chosen \subseteq Entries
  <2> SUFFICES ASSUME NEW e \in chosen PROVE e \in O!Written BY DEF O!Selectable
  <2>1. PICK i \in DOMAIN eventDue : eventDue[i] = e BY DEF O!Selectable, O!IsDue
  <2>2. eventDue \in Seq(O!Written) BY DEF OutboxInv, OutboxKnown
  <2> QED BY <2>1, <2>2
<1>2. PICK batch \in O!InOrder(chosen) : run' = [run EXCEPT ![w] =
        IF chosen = {} THEN O!Idle
        ELSE [O!Idle EXCEPT !.at = "starting", !.batch = batch, !.locks = chosen, !.tries = tries]]
  BY DEF O!Select
<1>3. UNCHANGED <<outbox, eventDue, eventOld>> BY DEF O!Select
<1>4. batch \in Seq(chosen) /\ (chosen # {} => batch # <<>>) BY <1>1, InOrderIsASequence
<1>5. batch \in Seq(O!Written) /\ batch \in Seq(Entries) BY <1>1, <1>4, SeqMonotonic
<1>6. tries \in [Entries -> Nat]
  <2>1. \A e \in chosen : outbox[e].attempts \in Nat
    BY <1>1 DEF O!Written, OutboxInv, OutboxTyped, O!Entry
  <2> QED BY <2>1, OutboxAssumption
<1> HIDE DEF chosen, tries
<1>7. CASE chosen = {}
  <2>1. run' = [run EXCEPT ![w] = O!Idle] BY <1>2, <1>7
  <2>2. O!Idle.at \notin Busy /\ O!Idle.batch \in Seq(O!Written) BY IdleRun DEF Busy
  <2> QED BY <1>3, <2>1, <2>2, IdleRun, QuietRunTypes
<1>8. CASE chosen # {}
  <2> DEFINE new == [O!Idle EXCEPT !.at = "starting", !.batch = batch, !.locks = chosen, !.tries = tries]
  <2>1. run' = [run EXCEPT ![w] = new] BY <1>2, <1>8
  <2>2. new \in OutboxRun /\ new.batch = batch BY <1>1, <1>5, <1>6, IdleRun DEF OutboxRun, Busy
  <2> HIDE DEF new
  <2> QED BY <1>3, <1>4, <1>5, <1>8, <2>1, <2>2, QuietRunTypes
<1> QED BY <1>7, <1>8

LEMMA StartTypes ==
  ASSUME OutboxInv, NEW w \in Runs, O!Start(w)
  PROVE  OutboxInv'
<1> DEFINE e == O!Handled(w)
           tries == run[w].tries[e] + 1
           entry == [outbox[e] EXCEPT !.status = "PROCESSING", !.attempts = tries]
           new == [run[w] EXCEPT !.at = "handling", !.tries = [run[w].tries EXCEPT ![e] = tries],
                                 !.locks = O!Unlocked]
<1>1. /\ run[w] \in OutboxRun /\ run[w].at \in Busy /\ e \in O!Written /\ e \in Entries
      /\ outbox[e] \in O!Entry /\ run[w].batch \in Seq(O!Written) /\ run[w].batch # <<>>
  BY BusyRun DEF O!Start, Busy, OutboxInv, OutboxKnown
<1>2. run[w].tries \in [Entries -> Nat] BY <1>1 DEF OutboxRun
<1>3. tries \in Nat BY <1>1, <1>2, OutboxAssumption
<1>4. outbox' = [outbox EXCEPT ![e].status = "PROCESSING", ![e].attempts = tries]
  BY DEF O!Start
<1>5. run' = [run EXCEPT ![w].at = "handling", ![w].tries[e] = tries, ![w].locks = O!Unlocked]
  BY DEF O!Start
<1> HIDE DEF tries, e
<1>6. entry \in O!Entry BY <1>1, <1>3 DEF O!Entry, O!Open
<1>7. outbox' = [outbox EXCEPT ![e] = entry]
  BY <1>1, <1>4 DEF OutboxInv, OutboxTyped, O!Entry
<1>8. run' = [run EXCEPT ![w] = new] BY <1>1, <1>2, <1>5 DEF OutboxInv, OutboxTyped, OutboxRun
<1>9. new \in OutboxRun /\ new.batch = run[w].batch
  BY <1>1, <1>2, <1>3 DEF OutboxRun, Busy, O!Unlocked
<1> HIDE DEF entry, new
<1>10. outbox' \in [Entries -> {NoEntry} \cup O!Entry] /\ O!Written' = O!Written
  <2>1. outbox' \in [Entries -> {NoEntry} \cup O!Entry] /\ O!Written \cup {e} = O!Written'
    BY <1>1, <1>6, <1>7, EntryWritten
  <2> QED BY <1>1, <2>1
<1>11. eventDue' \in Seq(O!Written') /\ eventOld' \subseteq O!Written'
  BY <1>10 DEF O!Start, OutboxInv, OutboxKnown
<1> QED BY <1>1, <1>8, <1>9, <1>10, <1>11, OutboxStepTypes

LEMMA HandleTypes ==
  ASSUME OutboxInv, NEW w \in Runs, O!Handle(w)
  PROVE  OutboxInv'
<1>1. /\ run[w] \in OutboxRun /\ run[w].batch \in Seq(O!Written) /\ run[w].batch # <<>>
      /\ UNCHANGED <<outbox, eventDue, eventOld>>
  BY BusyRun DEF O!Handle, Busy, OutboxInv, OutboxKnown
<1>2. PICK dirty \in BOOLEAN : run' = [run EXCEPT ![w].at = "finishing", ![w].dirty = dirty]
  BY DEF O!Handle
<1> DEFINE new == [run[w] EXCEPT !.at = "finishing", !.dirty = dirty]
<1>3. run' = [run EXCEPT ![w] = new] BY <1>2 DEF OutboxInv, OutboxTyped
<1>4. new \in OutboxRun /\ new.batch = run[w].batch BY <1>1 DEF OutboxRun, Busy
<1> HIDE DEF new
<1> QED BY <1>1, <1>3, <1>4, QuietRunTypes

(* The end of an event: the run goes on with the rest of its batch. *)
LEMMA CloseTypes ==
  ASSUME OutboxInv, NEW w \in Runs, NEW status \in O!Open \cup O!Closed, O!Close(w, status),
         \/ eventDue' = eventDue
         \/ eventDue' \in O!InOrder({e \in Entries : O!IsDue(e) /\ e # O!Handled(w)})
  PROVE  OutboxInv'
<1> DEFINE e == O!Handled(w)
           entry == [outbox[e] EXCEPT !.status = status]
<1>1. /\ run[w] \in OutboxRun /\ run[w].at \in Busy /\ e \in O!Written /\ e \in Entries
      /\ outbox[e] \in O!Entry /\ Len(run[w].batch) \in Nat \ {0}
      /\ Tail(run[w].batch) \in Seq(O!Written) /\ Len(Tail(run[w].batch)) = Len(run[w].batch) - 1
  BY BusyRun DEF O!Close, Busy
<1>2. outbox' = [outbox EXCEPT ![e] = entry] BY DEF O!Close, OutboxInv, OutboxTyped
<1>3. run' = [run EXCEPT ![w] = O!Next1(w)] /\ eventOld' \subseteq eventOld BY DEF O!Close
<1>4. /\ O!Next1(w) \in OutboxRun /\ O!Next1(w).batch \in Seq(O!Written)
      /\ O!Next1(w).at \in Busy => O!Next1(w).batch # <<>>
  <2>1. CASE Len(run[w].batch) = 1
    <3>1. O!Next1(w) = O!Idle BY <2>1 DEF O!Next1
    <3>2. <<>> \in Seq(O!Written) OBVIOUS
    <3> QED BY <3>1, <3>2, IdleRun DEF Busy
  <2>2. CASE Len(run[w].batch) # 1
    <3> DEFINE tries == [run[w].tries EXCEPT ![e] = 0]
               new == [run[w] EXCEPT !.at = "starting", !.batch = Tail(run[w].batch), !.dirty = FALSE,
                                     !.tries = tries]
    <3>1. run[w].tries \in [Entries -> Nat] BY <1>1 DEF OutboxRun
    <3>2. O!Next1(w) = new BY <1>1, <2>2, <3>1 DEF O!Next1, OutboxRun
    <3>3. tries \in [Entries -> Nat] BY <1>1, <3>1, OutboxAssumption
    <3>4. O!Written \subseteq Entries BY DEF O!Written
    <3>5. Tail(run[w].batch) \in Seq(Entries) BY <1>1, <3>4, SeqMonotonic
    <3>6. Tail(run[w].batch) # <<>>
      <4>1. Len(<<>>) = 0 BY EmptySeq
      <4>2. Len(Tail(run[w].batch)) # 0 BY <1>1, <2>2
      <4> QED BY <4>1, <4>2
    <3> HIDE DEF tries
    <3>7. new \in OutboxRun /\ new.batch = Tail(run[w].batch) BY <1>1, <3>3, <3>5 DEF OutboxRun, Busy
    <3> HIDE DEF new
    <3> QED BY <1>1, <3>2, <3>6, <3>7
  <2> QED BY <2>1, <2>2
<1>5. entry \in O!Entry BY <1>1 DEF O!Entry
<1>6. e \in Entries BY <1>1
<1> HIDE DEF entry
<1>7. outbox' \in [Entries -> {NoEntry} \cup O!Entry] /\ O!Written' = O!Written
  <2>1. outbox' \in [Entries -> {NoEntry} \cup O!Entry] /\ O!Written \cup {e} = O!Written'
    BY <1>2, <1>5, <1>6, EntryWritten
  <2> QED BY <1>1, <2>1
<1>8. eventDue' \in Seq(O!Written')
  <2>1. eventDue \in Seq(O!Written) BY DEF OutboxInv, OutboxKnown
  <2> DEFINE S == {f \in Entries : O!IsDue(f) /\ f # O!Handled(w)}
  <2>2. S \subseteq O!Written BY <2>1 DEF O!IsDue
  <2>3. CASE eventDue' \in O!InOrder(S)
    <3>1. S \subseteq Entries OBVIOUS
    <3> HIDE DEF S
    <3>2. eventDue' \in Seq(S) BY <2>3, <3>1, InOrderIsASequence
    <3> QED BY <1>7, <2>2, <3>2, SeqMonotonic
  <2> QED BY <1>7, <2>1, <2>3
<1>9. eventOld' \subseteq O!Written' BY <1>3, <1>7 DEF OutboxInv, OutboxKnown
<1> QED BY <1>3, <1>4, <1>7, <1>8, <1>9, OutboxStepTypes

(* A mutation writes an entry that was not there. *)
LEMMA MutationTypes ==
  ASSUME OutboxInv, NEW kind \in O!Kinds, O!Enqueue(kind), UNCHANGED <<eventOld, run>>
  PROVE  OutboxInv'
<1> DEFINE e == CHOOSE x \in Entries \ O!Written : TRUE
           entry == [kind |-> kind, status |-> "PENDING", attempts |-> 0]
<1>1. e \in Entries BY DEF O!Enqueue, O!Written
<1>2. outbox' = [outbox EXCEPT ![e] = entry] /\ eventDue' = Append(eventDue, e) BY DEF O!Enqueue
<1>3. entry \in O!Entry BY OutboxAssumption DEF O!Entry, O!Open
<1> HIDE DEF e, entry
<1>4. outbox' \in [Entries -> {NoEntry} \cup O!Entry] /\ O!Written \cup {e} = O!Written'
  BY <1>1, <1>2, <1>3, EntryWritten
<1>5. eventDue \in Seq(O!Written) /\ eventOld \subseteq O!Written BY DEF OutboxInv, OutboxKnown
<1>6. eventDue \in Seq(O!Written') BY <1>4, <1>5, SeqMonotonic
<1>7. eventDue' \in Seq(O!Written') BY <1>2, <1>4, <1>6
<1> QED BY <1>4, <1>5, <1>7, OutboxWorldTypes

LEMMA TimeTypes ==
  ASSUME OutboxInv, NEW e \in Entries, O!FallsDue(e) \/ O!GrowsOld(e)
  PROVE  OutboxInv'
<1>1. outbox' = outbox /\ run' = run /\ e \in O!Written BY DEF O!FallsDue, O!GrowsOld
<1>2. O!Written' = O!Written BY <1>1 DEF O!Written
<1>3. eventDue \in Seq(O!Written) /\ eventOld \subseteq O!Written BY DEF OutboxInv, OutboxKnown
<1>4. eventDue' \in Seq(O!Written) /\ eventOld' \subseteq O!Written
  BY <1>1, <1>3 DEF O!FallsDue, O!GrowsOld
<1>5. outbox' \in [Entries -> {NoEntry} \cup O!Entry] BY <1>1 DEF OutboxInv, OutboxTyped
<1> QED BY <1>1, <1>2, <1>4, <1>5, OutboxWorldTypes

-----------------------------------------------------------------------------
LEMMA SocialBothTypes ==
  ASSUME IInv, SocialInv, OutboxInv, Social
  PROVE  SocialInv' /\ OutboxInv'
<1>1. OutboxInv'
  <2>1. UNCHANGED outboxVars BY DEF Social
  <2>2. O!Written' = O!Written BY <2>1 DEF outboxVars, O!Written
  <2>3. /\ outbox' \in [Entries -> {NoEntry} \cup O!Entry] /\ run' = run
        /\ eventDue' \in Seq(O!Written') /\ eventOld' \subseteq O!Written'
    BY <2>1, <2>2 DEF outboxVars, OutboxInv, OutboxTyped, OutboxKnown
  <2> QED BY <2>2, <2>3, OutboxWorldTypes
<1>2. SocialInv'
  <2>1. ASSUME NEW w \in Publishers, Publish(w) \/ Crash(w) PROVE SocialInv'
    BY <2>1, QuietTypes, ClaimTypes, CommitsTypes DEF Publish
  <2>2. ASSUME NEW e \in Events, Administer(e) PROVE SocialInv' BY <2>2, DecisionTypes
  <2>3. ASSUME NEW e \in Events, Forget(e) PROVE SocialInv'
    <3>1. UNCHANGED <<rows, due, published, files, policy, cleared, echoed, rehearsed, exists>>
      BY <2>3 DEF Forget, store
    <3>2. kept' \subseteq kept /\ exists' \subseteq Resources BY <2>3, <3>1 DEF Forget, SocialInv, Placed
    <3> QED BY <3>1, <3>2, ElsewhereTypes
  <2> QED BY <2>1, <2>2, <2>3, WorldTypes DEF Social, Adoption
<1> QED BY <1>1, <1>2

LEMMA OutboxBothTypes ==
  ASSUME IInv, SocialInv, OutboxInv, Outbox
  PROVE  SocialInv' /\ OutboxInv'
<1>1. exists \subseteq Resources BY DEF SocialInv, Placed
<1>2. CASE Mutate
  <2>1. UNCHANGED <<rows, due, published, files, policy, cleared, kept, echoed, rehearsed>>
    BY <1>2 DEF Mutate, store, posts
  <2>2. /\ exists' \subseteq Resources
        /\ \E kind \in O!Kinds : O!Enqueue(kind) /\ UNCHANGED <<eventOld, run>>
    <3>1. {"CREATED", "UPDATED", "DELETED"} = O!Kinds BY DEF O!Kinds
    <3>2. CASE O!Create BY <1>1, <3>1, <3>2, OutboxAssumption DEF O!Create
    <3>3. CASE O!Update
      <4>1. exists' = exists BY <1>2, <3>3 DEF Mutate, O!Update
      <4> QED BY <1>1, <3>1, <3>3, <4>1 DEF O!Update
    <3>4. CASE O!Delete BY <1>1, <3>1, <3>4 DEF O!Delete
    <3> QED BY <1>2, <3>2, <3>3, <3>4 DEF Mutate
  <2> QED BY <2>1, <2>2, ElsewhereTypes, MutationTypes
<1>3. ASSUME UNCHANGED vars PROVE SocialInv'
  BY <1>1, <1>3, ElsewhereTypes DEF vars, store, world, posts
<1>4. ASSUME NEW w \in Runs, O!Complete(w) PROVE OutboxInv'
  <2>1. "COMPLETED" \in O!Open \cup O!Closed BY DEF O!Closed
  <2> QED BY <1>4, <2>1, CloseTypes DEF O!Complete
<1>5. ASSUME NEW w \in Runs, O!Failed(w) PROVE OutboxInv'
  <2> DEFINE status == IF O!GivesUp(w) THEN "DEAD_LETTER" ELSE "PENDING"
  <2>1. status \in O!Open \cup O!Closed BY DEF O!Open, O!Closed
  <2>2. O!Close(w, status) /\ eventDue' \in O!InOrder({e \in Entries : O!IsDue(e) /\ e # O!Handled(w)})
    BY <1>5 DEF O!Failed
  <2> HIDE DEF status
  <2> QED BY <2>1, <2>2, CloseTypes
<1>6. ASSUME NEW w \in Runs, O!Complete(w), CancelPublications,
             UNCHANGED <<text, policy, posts, cleared, m, outside, faults>>
      PROVE  SocialInv'
  <2>1. exists' = exists BY <1>6 DEF O!Complete, O!Close
  <2> QED BY <1>6, <2>1, CancellationTypes
<1>7. ASSUME NEW w \in Runs, OutboxStep(w) \/ (O!Crash(w) /\ UNCHANGED vars) PROVE SocialInv' /\ OutboxInv'
  BY <1>3, <1>4, <1>5, <1>6, <1>7, RecoverTypes, SelectTypes, StartTypes, HandleTypes, EndedRunTypes
     DEF OutboxStep
<1>8. ASSUME NEW e \in Entries, O!FallsDue(e) \/ O!GrowsOld(e), UNCHANGED vars PROVE SocialInv' /\ OutboxInv'
  BY <1>3, <1>8, TimeTypes
<1> QED BY <1>2, <1>7, <1>8 DEF Outbox

(* What both outboxes and the objects in memory hold keeps to its types: the second inductive *)
(* invariant, on top of the first                                                              *)
THEOREM TypesInductive == Spec => [](SocialInv /\ OutboxInv)
<1>1. Init2 => SocialInv /\ OutboxInv
  <2> SUFFICES ASSUME Init2 PROVE SocialInv /\ OutboxInv OBVIOUS
  <2>1. Init BY DEF Init2
  <2>2. SocialInv
    <3>1. Unique(rows) BY <2>1 DEF Init, Unique
    <3>2. Placed BY <2>1 DEF Init, Placed
    <3> QED BY <3>1, <3>2 DEF SocialInv
  <2>3. OutboxInv
    <3>1. O!Written = {} /\ eventDue = <<>> /\ eventOld = {} BY DEF Init2, O!Written
    <3> DEFINE off == [O!Idle EXCEPT !.at = "off"]
    <3>2. off \in OutboxRun /\ off.batch = <<>> /\ off.at = "off" BY IdleRun DEF OutboxRun
    <3>3. \A w \in Runs : run[w] = O!Idle \/ run[w] = off BY DEF Init2
    <3> HIDE DEF off
    <3>4. run \in [Runs -> OutboxRun] BY <3>2, IdleRun DEF Init2, off
    <3>5. OutboxTyped BY <3>4 DEF Init2, OutboxTyped
    <3>6. <<>> \in Seq(O!Written) OBVIOUS
    <3>7. OutboxKnown BY <3>1, <3>2, <3>3, <3>6, IdleRun DEF OutboxKnown, Busy
    <3> QED BY <3>5, <3>7 DEF OutboxInv
  <2> QED BY <2>2, <2>3
<1>2. IInv /\ (SocialInv /\ OutboxInv) /\ [Next]_all => (SocialInv /\ OutboxInv)'
  <2> SUFFICES ASSUME IInv, SocialInv, OutboxInv, [Next]_all PROVE SocialInv' /\ OutboxInv' OBVIOUS
  <2>1. CASE Social BY <2>1, SocialBothTypes
  <2>2. CASE Outbox BY <2>2, OutboxBothTypes
  <2>3. CASE UNCHANGED all
    <3>1. UNCHANGED vars /\ UNCHANGED outboxVars BY <2>3 DEF all
    <3>2. exists' \subseteq Resources BY <3>1 DEF vars, world, SocialInv, Placed
    <3>3. SocialInv' BY <3>1, <3>2, ElsewhereTypes DEF vars, store, world, posts
    <3>4. O!Written' = O!Written BY <3>1 DEF outboxVars, O!Written
    <3>5. /\ outbox' \in [Entries -> {NoEntry} \cup O!Entry] /\ run' = run
          /\ eventDue' \in Seq(O!Written') /\ eventOld' \subseteq O!Written'
      BY <3>1, <3>4 DEF outboxVars, OutboxInv, OutboxTyped, OutboxKnown
    <3> QED BY <3>3, <3>4, <3>5, OutboxWorldTypes
  <2> QED BY <2>1, <2>2, <2>3 DEF Next
<1> QED BY <1>1, <1>2, Inductive, PTL DEF Spec

(* No resource has two waiting publications, although publishers write rows back from objects   *)
(* that may be out of date, and no entry of either outbox leaves its states                      *)
(* (uq_social_outbox_pending_resource, the table constraints).                                   *)
THEOREM TypesHold == Spec => []BothTypesOK
<1>1. IInv /\ SocialInv /\ OutboxInv => BothTypesOK
  <2> SUFFICES ASSUME IInv, SocialInv, OutboxInv PROVE BothTypesOK OBVIOUS
  <2>1. \A row \in Row : /\ row.status \in Statuses /\ row.tries \in Nat
                         /\ {row.manual, row.shot, row.media} \subseteq BOOLEAN
    BY DEF Row
  <2>2. \A e \in Rows : rows[e] \in Row BY DEF IInv, Typed, Rows
  <2>3. \A e \in Rows : /\ rows[e].status \in Statuses /\ rows[e].tries \in Nat
                        /\ {rows[e].manual, rows[e].shot, rows[e].media} \subseteq BOOLEAN
    BY <2>1, <2>2
  <2>4. /\ old \subseteq Events /\ text \in [Resources -> Texts]
        /\ made \in [Events -> SUBSET (Texts \cup {NoText})]
    BY DEF IInv, Typed, MadeCleared, Rows
  <2>5. TypeOK BY <2>3, <2>4 DEF TypeOK, SocialInv, Placed
  <2>6. O!Written \subseteq Entries BY DEF O!Written
  <2>7. eventDue \in Seq(Entries) BY <2>6, SeqMonotonic DEF OutboxInv, OutboxKnown
  <2>8. O!TypeOK BY <2>6, <2>7 DEF O!TypeOK, OutboxInv, OutboxTyped, OutboxKnown
  <2> QED BY <2>5, <2>8 DEF BothTypesOK
<1> QED BY <1>1, Inductive, TypesInductive, PTL
-----------------------------------------------------------------------------
(* What is recorded is what was posted: from Mastodon's answer to the commit a publisher holds *)
(* on to the text it has rendered, whatever becomes of the resource, the row and the key.      *)
Chosen == \A w \in Publishers :
  /\ m[w].at \in {"uploading", "posting", "posted"} => m[w].result = "posted"
  /\ m[w].at = "tidying" => m[w].result \in {"duplicate", "dry"}
  /\ m[w].at = "committing" => m[w].result \in {"posted", "duplicate", "dry"}

Carried(run1) == run1.text \in made[run1.event] \/ run1.event \in echoed

Answered == \A w \in Publishers :
  m[w].at = "posted" \/ (m[w].at = "committing" /\ m[w].result = "posted") => Carried(m[w])

RecordInv == Chosen /\ Answered /\ RecordsAreTrue

(* Where a publisher has nothing of Mastodon's in its hands *)
Before == {"idle", "recovering", "claiming", "rendering", "capturing", "captured"}

(* Statuses stay, and so does what was told of them: a step of one publisher *)
LEMMA RecordStep ==
  ASSUME IInv, RecordInv, NEW w \in Publishers, \A v \in Publishers \ {w} : m'[v] = m[v],
         \A e \in Events : made[e] \subseteq made'[e],
         echoed \subseteq echoed', rehearsed \subseteq rehearsed',
         m'[w].at \in {"uploading", "posting", "posted"} => m'[w].result = "posted",
         m'[w].at = "tidying" => m'[w].result \in {"duplicate", "dry"},
         m'[w].at = "committing" => m'[w].result \in {"posted", "duplicate", "dry"},
         m'[w].at = "posted" \/ (m'[w].at = "committing" /\ m'[w].result = "posted")
           => m'[w].text \in made'[m'[w].event] \/ m'[w].event \in echoed',
         \A e \in Events : published'[e] # NoText
           => \/ published'[e] = published[e]
              \/ published'[e] \in made'[e] \/ e \in rehearsed' \/ e \in echoed'
  PROVE  RecordInv'
<1>1. Chosen'
  <2> SUFFICES ASSUME NEW v \in Publishers
               PROVE  /\ m'[v].at \in {"uploading", "posting", "posted"} => m'[v].result = "posted"
                      /\ m'[v].at = "tidying" => m'[v].result \in {"duplicate", "dry"}
                      /\ m'[v].at = "committing" => m'[v].result \in {"posted", "duplicate", "dry"}
    BY DEF Chosen
  <2>1. CASE v = w BY <2>1
  <2>2. CASE v # w BY <2>2 DEF RecordInv, Chosen
  <2> QED BY <2>1, <2>2
<1>2. Answered'
  <2> SUFFICES ASSUME NEW v \in Publishers,
                      m'[v].at = "posted" \/ (m'[v].at = "committing" /\ m'[v].result = "posted")
               PROVE  m'[v].text \in made'[m'[v].event] \/ m'[v].event \in echoed'
    BY DEF Answered, Carried
  <2>1. CASE v = w BY <2>1
  <2>2. CASE v # w
    <3>1. m'[v] = m[v] BY <2>2
    <3>2. m[v].event \in Events BY <3>1, AtWork DEF Working
    <3>3. m[v].text \in made[m[v].event] \/ m[v].event \in echoed
      BY <3>1 DEF RecordInv, Answered, Carried
    <3> QED BY <3>1, <3>2, <3>3
  <2> QED BY <2>1, <2>2
<1>3. RecordsAreTrue' BY DEF RecordInv, RecordsAreTrue
<1> QED BY <1>1, <1>2, <1>3 DEF RecordInv

(* Whatever leaves the publishers, the records and the statuses alone *)
LEMMA RecordKept ==
  ASSUME RecordInv, UNCHANGED <<m, published, made, echoed, rehearsed>>
  PROVE  RecordInv'
BY DEF RecordInv, Chosen, Answered, Carried, RecordsAreTrue

(* An attempt before it turns to Mastodon, or after its end *)
LEMMA BeforeStep ==
  ASSUME IInv, RecordInv, NEW w \in Publishers,
         Begin(w) \/ Recover(w) \/ Done(w) \/ (\E e \in Events : Claim(w, e)) \/ Render(w) \/ Gone(w)
         \/ Capture(w) \/ Prepared(w) \/ PictureLost(w) \/ Crash(w)
         \/ \E f \in Failures : Fail(w, f = "passes")
  PROVE  RecordInv'
<1>1. m \in [Publishers -> Run] /\ m[w] \in Run BY AtWork DEF IInv, Typed
<1>2. UNCHANGED <<published, made, echoed, rehearsed>>
  BY DEF Begin, Recover, Done, Claim, Render, Gone, Capture, Prepared, PictureLost, Crash, Fail,
         Away, store, world, posts
<1>3. Idle.at = "idle" BY DEF Idle
<1>4. \A mine : After(w, mine).at = "claiming" BY <1>1 DEF After, Run
<1>5. PICK next : m' = [m EXCEPT ![w] = next] /\ next.at \in Before
  <2>1. ASSUME NEW new, NEW after, after.at = "claiming", Commit(w, new, after)
        PROVE  \E next : m' = [m EXCEPT ![w] = next] /\ next.at \in Before
    BY <1>3, <2>1 DEF Commit, Before
  <2>2. CASE Done(w) \/ PictureLost(w) \/ Crash(w)
    BY <1>3, <2>2 DEF Done, PictureLost, Crash, Before
  <2>3. CASE Begin(w)
    <3> DEFINE at == IF Stale = {} THEN "claiming" ELSE "recovering"
               seen == [e \in Events |-> IF e \in Stale THEN Copy(rows[e]) ELSE NoRow]
               next == [Idle EXCEPT !.at = at, !.dry = policy = "DRY_RUN", !.stale = Stale, !.seen = seen]
    <3>1. m' = [m EXCEPT ![w] = next] BY <2>3 DEF Begin
    <3>2. at \in Before BY DEF Before
    <3> HIDE DEF at, seen
    <3>3. next.at = at BY DEF Idle
    <3> QED BY <3>1, <3>2, <3>3
  <2>4. CASE Recover(w)
    <3>1. [m[w] EXCEPT !.at = "claiming"].at = "claiming" BY <1>1 DEF Run
    <3> QED BY <2>1, <2>4, <3>1 DEF Recover
  <2>5. CASE Gone(w) BY <1>4, <2>1, <2>5 DEF Gone
  <2>6. CASE Prepared(w) BY <1>4, <2>1, <2>6 DEF Prepared
  <2>7. ASSUME NEW f \in Failures, Fail(w, f = "passes")
        PROVE  \E next : m' = [m EXCEPT ![w] = next] /\ next.at \in Before
    <3> DEFINE status == IF f = "passes" /\ ~Exhausted(w) THEN Requeued(Mine(w)) ELSE "FAILED"
    <3>1. Commit(w, [rows EXCEPT ![m[w].event] = Written(w, status, Shown(w))], After(w, Mine(w)))
      BY <2>7 DEF Fail
    <3> HIDE DEF status
    <3> QED BY <1>4, <2>1, <3>1
  <2>8. ASSUME NEW e \in Events, Claim(w, e)
        PROVE  \E next : m' = [m EXCEPT ![w] = next] /\ next.at \in Before
    <3>1. m' = [m EXCEPT ![w] = m'[w]] /\ m'[w].at = "rendering"
      BY <1>1, <2>8 DEF Claim, Run
    <3> QED BY <3>1 DEF Before
  <2>9. CASE Render(w)
    <3> DEFINE to == IF Mine(w).shot THEN "captured" ELSE "capturing"
               says == Says(Resource[m[w].event])
    <3>1. PICK changed \in BOOLEAN :
            m' = [m EXCEPT ![w].at = to, ![w].text = says, ![w].payload = changed, ![w].locks = changed]
      BY <2>9 DEF Render
    <3>2. to \in Before BY DEF Before
    <3> HIDE DEF to, says
    <3>3. m' = [m EXCEPT ![w] = m'[w]] /\ m'[w].at = to BY <1>1, <3>1 DEF Run
    <3> QED BY <3>2, <3>3
  <2>10. CASE Capture(w)
    <3>1. m' = [m EXCEPT ![w] = m'[w]] /\ m'[w].at = "captured" BY <1>1, <2>10 DEF Capture, Run
    <3> QED BY <3>1 DEF Before
  <2> QED BY <2>2, <2>3, <2>4, <2>5, <2>6, <2>7, <2>8, <2>9, <2>10
<1>6. m'[w].at \in Before /\ \A v \in Publishers \ {w} : m'[v] = m[v] BY <1>1, <1>5
<1> QED BY <1>2, <1>6, RecordStep DEF Before

(* Mastodon is asked, and answers; the picture goes. *)
LEMMA PostingStep ==
  ASSUME IInv, RecordInv, NEW w \in Publishers, Compare(w) \/ Upload(w) \/ Post(w) \/ Tidy(w)
  PROVE  RecordInv'
<1>1. m \in [Publishers -> Run] /\ m[w] \in Run /\ m[w].event \in Events
  BY AtWork DEF IInv, Typed, Compare, Upload, Post, Tidy, Working
<1>2. published' = published /\ rehearsed' = rehearsed
  BY DEF Compare, Upload, Post, Tidy, Away, store, world, posts
<1>3. \A v \in Publishers \ {w} : m'[v] = m[v] BY <1>1 DEF Compare, Upload, Post, Tidy
<1>4. CASE Compare(w) \/ Upload(w) \/ Tidy(w)
  <2>1. made' = made /\ echoed' = echoed BY <1>4 DEF Compare, Upload, Tidy, Away, world, posts
  <2>2. CASE Compare(w)
    <3> DEFINE duplicate == \E f \in Of(Resource[m[w].event]) : published[f] = Hash(w)
               result == IF duplicate THEN "duplicate" ELSE IF m[w].dry THEN "dry" ELSE "posted"
               to == IF duplicate \/ m[w].dry THEN "tidying"
                     ELSE IF Mine(w).media THEN "posting" ELSE "uploading"
    <3>1. PICK changed \in BOOLEAN :
            m' = [m EXCEPT ![w].locks = @ \/ changed, ![w].result = result, ![w].at = to]
      BY <2>2 DEF Compare
    <3>2. \/ to = "tidying" /\ result \in {"duplicate", "dry"}
          \/ to \in {"posting", "uploading"} /\ result = "posted"
      OBVIOUS
    <3> HIDE DEF result, to
    <3>3. m'[w].result = result /\ m'[w].at = to BY <1>1, <3>1 DEF Run
    <3> QED BY <1>2, <1>3, <2>1, <3>2, <3>3, RecordStep
  <2>3. CASE Upload(w)
    <3>1. m'[w].at = "posting" /\ m'[w].result = m[w].result BY <1>1, <2>3 DEF Upload, Run
    <3>2. m[w].result = "posted" BY <2>3 DEF Upload, RecordInv, Chosen
    <3> QED BY <1>2, <1>3, <2>1, <3>1, <3>2, RecordStep
  <2>4. CASE Tidy(w)
    <3>1. /\ m'[w].at = "committing" /\ m'[w].result = m[w].result /\ m'[w].text = m[w].text
          /\ m'[w].event = m[w].event
      BY <1>1, <2>4 DEF Tidy, Run
    <3>2. \/ m[w].result = "posted" /\ Carried(m[w])
          \/ m[w].result \in {"duplicate", "dry"}
      BY <2>4 DEF Tidy, RecordInv, Chosen, Answered
    <3> QED BY <1>2, <1>3, <2>1, <3>1, <3>2, RecordStep DEF Carried
  <2> QED BY <1>4, <2>2, <2>3, <2>4
<1>5. CASE Post(w)
  <2>1. /\ m'[w].at = "posted" /\ m'[w].result = m[w].result /\ m'[w].text = m[w].text
        /\ m'[w].event = m[w].event
    BY <1>1, <1>5 DEF Post, Run
  <2>2. m[w].result = "posted" BY <1>5 DEF Post, RecordInv, Chosen
  <2>3. made \in [Events -> SUBSET (Texts \cup {NoText})] BY DEF IInv, MadeCleared
  <2>4. /\ \A e \in Events : made[e] \subseteq made'[e]
        /\ echoed \subseteq echoed'
        /\ m[w].text \in made'[m[w].event] \/ m[w].event \in echoed'
    BY <1>1, <1>5, <2>3 DEF Post, Key
  <2> QED BY <1>2, <1>3, <2>1, <2>2, <2>4, RecordStep
<1> QED BY <1>4, <1>5

(* The record is made of the text that was posted. *)
LEMMA RecordingStep ==
  ASSUME IInv, RecordInv, SocialInv, NEW w \in Publishers, Finish(w)
  PROVE  RecordInv'
<1>1. m \in [Publishers -> Run] /\ m[w] \in Run /\ m[w].event \in Events
  BY AtWork DEF IInv, Typed, Finish, Working
<1>2. made' = made /\ echoed' = echoed BY DEF Finish
<1>3. m[w].result \in {"posted", "duplicate", "dry"} BY DEF Finish, RecordInv, Chosen
<1>4. m[w].result = "posted" => m[w].text \in made[m[w].event] \/ m[w].event \in echoed
  BY DEF Finish, RecordInv, Answered, Carried
<1>5. \A v \in Publishers \ {w} : m'[v] = m[v] BY <1>1 DEF Finish, Commit
<1>6. m'[w].at \in {"idle", "claiming"}
  <2>1. Idle.at = "idle" BY DEF Idle
  <2>2. \A mine : After(w, mine).at = "claiming" BY <1>1 DEF After, Run
  <2> QED BY <1>1, <2>1, <2>2 DEF Finish, Commit
<1>7. /\ rehearsed \subseteq rehearsed'
      /\ \A e \in Events : published'[e] # NoText
           => \/ published'[e] = published[e]
              \/ published'[e] \in made'[e] \/ e \in rehearsed' \/ e \in echoed'
  <2>1. CASE Refused(w) BY <2>1 DEF Finish
  <2>2. CASE ~Refused(w)
    <3>1. published \in [Events -> Texts \cup {NoText}] BY DEF SocialInv, Placed
    <3>2. /\ published' = IF m[w].result = "duplicate" THEN published
                          ELSE [published EXCEPT ![m[w].event] = m[w].text]
          /\ rehearsed' = IF m[w].result = "dry" THEN rehearsed \cup {m[w].event} ELSE rehearsed
      BY <2>2 DEF Finish, Hash
    <3> QED BY <1>1, <1>2, <1>3, <1>4, <3>1, <3>2
  <2> QED BY <2>1, <2>2
<1> QED BY <1>2, <1>5, <1>6, <1>7, RecordStep

(* What is on record is on Mastodon, although answers, commits and keys are lost and areas change *)
(* while their posts are on the way (publish_due_events); a repeated attempt with another text is *)
(* the only exception besides dry runs.                                                            *)
THEOREM PublicationsAreTrue == Spec => []RecordsAreTrue
<1>1. Init2 => RecordInv
  <2> SUFFICES ASSUME Init2 PROVE RecordInv OBVIOUS
  <2>1. \A w \in Publishers : m[w].at \in {"idle", "off"}
    <3> DEFINE off == [Idle EXCEPT !.at = "off"]
    <3>1. \A w \in Publishers : m[w] = Idle \/ m[w] = off BY DEF Init2, Init
    <3>2. Idle.at = "idle" /\ off.at = "off" BY DEF Idle
    <3> HIDE DEF off
    <3> QED BY <3>1, <3>2
  <2>2. RecordsAreTrue BY DEF Init2, Init, RecordsAreTrue
  <2> QED BY <2>1, <2>2 DEF RecordInv, Chosen, Answered
<1>2. IInv /\ (SocialInv /\ OutboxInv) /\ RecordInv /\ [Next]_all => RecordInv'
  <2> SUFFICES ASSUME IInv, SocialInv, RecordInv, [Next]_all PROVE RecordInv' OBVIOUS
  <2>1. ASSUME NEW w \in Publishers, Publish(w) \/ Crash(w) PROVE RecordInv'
    BY <2>1, BeforeStep, PostingStep, RecordingStep DEF Publish
  <2>2. ASSUME \/ \E e \in Events : Administer(e) \/ Aside(e) \/ Forget(e)
               \/ \E r \in Resources : SaveArea(r)
               \/ \E p \in Modes : SetPolicy(p)
               \/ Adoption
        PROVE  RecordInv'
    <3>1. UNCHANGED <<m, published, made, echoed, rehearsed>>
      BY <2>2 DEF Administer, Approve, Retry, Cancel, Decided, Aside, FallsDue, GrowsOld, Forget,
                  SaveArea, SetPolicy, Adoption, Adopt, Away, store, world, posts
    <3> QED BY <3>1, RecordKept
  <2>3. CASE Social BY <2>1, <2>2, <2>3 DEF Social
  <2>4. CASE Outbox
    <3>1. UNCHANGED <<m, published, made, echoed, rehearsed>>
      BY <2>4 DEF Outbox, OutboxStep, Mutate, CancelPublications, vars, store, world, posts
    <3> QED BY <3>1, RecordKept
  <2>5. CASE UNCHANGED all
    <3>1. UNCHANGED <<m, published, made, echoed, rehearsed>> BY <2>5 DEF all, vars, store, world, posts
    <3> QED BY <3>1, RecordKept
  <2> QED BY <2>3, <2>4, <2>5 DEF Next
<1>3. RecordInv => RecordsAreTrue BY DEF RecordInv
<1> QED BY <1>1, <1>2, <1>3, Inductive, TypesInductive, PTL DEF Spec
=============================================================================
