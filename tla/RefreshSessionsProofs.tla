------------------------ MODULE RefreshSessionsProofs ------------------------
(***************************************************************************)
(* The refresh sessions are safe for any number of tokens, families and    *)
(* requests.  The row locks are the heart of the argument: a refresh that  *)
(* has found its token usable still holds it, so no revoking UPDATE has    *)
(* reached it (Sound), and two refreshes never hold one token (Exclusive). *)
(* A family therefore grows only from its one live token.  For the reset   *)
(* it is the account's lock: while it is held no token is added, so the    *)
(* UPDATE has found all that live (Covered).                               *)
(***************************************************************************)
EXTENDS RefreshSessions, TLAPS

Holding   == \A r \in Requests : pc[r] \in {"locked", "rotating"} => token[r] # NoToken
Exclusive == \A r, q \in Requests : token[r] # NoToken /\ token[r] = token[q] => r = q
Sound     == \A r \in Requests : pc[r] = "rotating" => token[r] \in Live
Covered   == \A r \in Requests : pc[r] \in {"resetting", "closing"} => Live \subseteq doomed[r]

IInv == TypeOK /\ Holding /\ Exclusive /\ Sound /\ Covered

-----------------------------------------------------------------------------
(* A token not yet issued can be chosen. *)
LEMMA FreshToken ==
  ASSUME Issued # Tokens
  PROVE  NewToken \in Tokens \ Issued
<1>1. \E t \in Tokens \ Issued : TRUE BY DEF Issued
<1> QED BY <1>1 DEF NewToken

(* A family not yet begun can be chosen. *)
LEMMA FreshFamily ==
  ASSUME Unused # {}
  PROVE  NewFamily \in Families /\ Of(NewFamily) = {}
<1>1. \E f \in Unused : TRUE OBVIOUS
<1>2. NewFamily \in Unused BY <1>1 DEF NewFamily
<1> QED BY <1>2 DEF Unused

(* What a sign-in does to the rows *)
LEMMA IssueEffect ==
  ASSUME TypeOK, NEW r \in Requests, Issue(r)
  PROVE  /\ NewToken \in Tokens \ Issued /\ NewFamily \in Families /\ Of(NewFamily) = {}
         /\ Issued' = Issued \cup {NewToken} /\ Live' = Live \cup {NewToken}
         /\ Rotated' = Rotated /\ Successors' = Successors
         /\ \A t \in Issued : family'[t] = family[t]
         /\ family'[NewToken] = NewFamily
<1>1. NewToken \in Tokens \ Issued BY FreshToken DEF Issue
<1>2. NewFamily \in Families /\ Of(NewFamily) = {} BY FreshFamily DEF Issue
<1>3. NewToken \in Tokens /\ family' = [family EXCEPT ![NewToken] = NewFamily]
  BY <1>1 DEF Issue
<1>4. replaced' = replaced /\ revoked' = revoked BY DEF Issue
<1>5. \A t \in Tokens : family'[t] = IF t = NewToken THEN NewFamily ELSE family[t]
  BY <1>3 DEF TypeOK
<1>6. Issued' = Issued \cup {NewToken}
  BY <1>2, <1>3, <1>5, FamilyAssumption DEF Issued
<1>7. Live' = Live \cup {NewToken} BY <1>1, <1>4, <1>6 DEF Live, TypeOK
<1>8. Rotated' = Rotated /\ Successors' = Successors BY <1>4 DEF Rotated, Successors
<1>9. \A t \in Issued : t \in Tokens /\ t # NewToken BY <1>1 DEF Issued
<1> QED BY <1>1, <1>2, <1>3, <1>5, <1>6, <1>7, <1>8, <1>9

(* What a rotation does to the rows *)
LEMMA RotateEffect ==
  ASSUME TypeOK, Sound, NEW r \in Requests, Rotate(r)
  PROVE  /\ NewToken \in Tokens \ Issued /\ token[r] \in Live /\ token[r] \notin Rotated
         /\ Issued' = Issued \cup {NewToken} /\ Rotated' = Rotated \cup {token[r]}
         /\ Live' = (Live \ {token[r]}) \cup {NewToken}
         /\ \A t \in Issued : family'[t] = family[t]
         /\ family'[NewToken] = family[token[r]]
         /\ \A t \in Rotated : replaced'[t] = replaced[t]
         /\ replaced'[token[r]] = NewToken
<1>1. NewToken \in Tokens \ Issued BY FreshToken DEF Rotate
<1>2. token[r] \in Live BY DEF Rotate, Sound
<1>3. token[r] \in Tokens /\ token[r] \in Issued /\ token[r] \notin revoked /\ token[r] \notin Rotated
  BY <1>2 DEF Live, Issued, TypeOK
<1>4. /\ family' = [family EXCEPT ![NewToken] = family[token[r]]]
      /\ replaced' = [replaced EXCEPT ![token[r]] = NewToken]
      /\ revoked' = revoked \cup {token[r]}
  BY DEF Rotate, Retired
<1>5. \A t \in Tokens : family'[t] = IF t = NewToken THEN family[token[r]] ELSE family[t]
  BY <1>4 DEF TypeOK
<1>6. \A t \in Tokens : replaced'[t] = IF t = token[r] THEN NewToken ELSE replaced[t]
  BY <1>4 DEF TypeOK
<1>7. family[token[r]] # NoFamily BY <1>3 DEF Issued
<1>8. Issued' = Issued \cup {NewToken} BY <1>1, <1>5, <1>7 DEF Issued
<1>9. Rotated' = Rotated \cup {token[r]}
  BY <1>1, <1>3, <1>6, TokenAssumption DEF Rotated
<1>10. Live' = (Live \ {token[r]}) \cup {NewToken}
  <2>1. NewToken \notin revoked' BY <1>1, <1>3, <1>4 DEF TypeOK
  <2>2. Live' = (Issued \cup {NewToken}) \ (revoked \cup {token[r]}) BY <1>4, <1>8 DEF Live
  <2> QED BY <2>1, <2>2, <1>4 DEF Live
<1>11. \A t \in Issued : t \in Tokens /\ t # NewToken BY <1>1 DEF Issued
<1>12. \A t \in Rotated : t \in Tokens /\ t # token[r] BY <1>3 DEF Rotated
<1> QED BY <1>1, <1>2, <1>3, <1>5, <1>6, <1>8, <1>9, <1>10, <1>11, <1>12

(* Everything but a sign-in and a rotation only revokes. *)
Revokes == family' = family /\ replaced' = replaced /\ revoked \subseteq revoked'

LEMMA RevokesEffect ==
  ASSUME Revokes
  PROVE  /\ Issued' = Issued /\ Rotated' = Rotated /\ Successors' = Successors
         /\ Live' \subseteq Live
BY DEF Revokes, Issued, Rotated, Successors, Live

LEMMA StepKinds ==
  ASSUME [Next]_vars
  PROVE  (\E r \in Requests : Issue(r) \/ Rotate(r)) \/ Revokes
<1>1. CASE UNCHANGED vars BY <1>1 DEF vars, rows, Revokes
<1>2. CASE Reactivate BY <1>2 DEF Reactivate, Revokes
<1>3. CASE \E t \in Tokens : GracePasses(t) \/ Expires(t)
  BY <1>3 DEF GracePasses, Expires, Revokes
<1>4. ASSUME NEW r \in Requests, Step(r)
      PROVE  Issue(r) \/ Rotate(r) \/ Revokes
  BY <1>4 DEF Step, Refuse, Reused, Expired, CheckUser, Revoke, Begin, rows, Revokes
<1>5. ASSUME NEW r \in Requests,
             \/ SignIn(r) \/ RevokeAll(r) \/ ChangeRoles(r) \/ Deactivate(r) \/ Reset(r)
             \/ Close(r) \/ Abort(r)
             \/ \E t \in Tokens : Refresh(r, t) \/ SignOut(r, t) \/ RevokeOthers(r, t)
      PROVE  Revokes
  BY <1>5 DEF SignIn, RevokeAll, ChangeRoles, Deactivate, Reset, Close, Abort, Refresh, SignOut,
              RevokeOthers, Begin, rows, Revokes
<1> QED BY <1>1, <1>2, <1>3, <1>4, <1>5 DEF Next

-----------------------------------------------------------------------------
(* What the start of a revoking UPDATE keeps, whoever starts it *)
LEMMA BeginStep ==
  ASSUME IInv, NEW r \in Requests, NEW S \in SUBSET Issued,
         NEW place \in {"revoking", "auditing", "changing", "deactivating", "resetting", "closing"},
         Begin(r, S, place), place \in {"resetting", "closing"} => S = Issued
  PROVE  IInv'
<1>1. /\ Issued' = Issued /\ Rotated' = Rotated /\ Live' = Live
      /\ family' = family /\ replaced' = replaced /\ revoked' = revoked /\ old' = old
      /\ expired' = expired /\ active' = active /\ token' = token
  BY DEF Begin, rows, Issued, Rotated, Live
<1>2. pc' = [pc EXCEPT ![r] = place] /\ doomed' = [doomed EXCEPT ![r] = S \cap Live]
  BY DEF Begin
<1>3. TypeOK' BY <1>1, <1>2 DEF IInv, TypeOK
<1>4. Holding' /\ Exclusive' BY <1>1, <1>2 DEF IInv, TypeOK, Holding, Exclusive
<1>5. Sound' BY <1>1, <1>2 DEF IInv, TypeOK, Sound
<1>6. Covered'
  <2> SUFFICES ASSUME NEW q \in Requests, pc'[q] \in {"resetting", "closing"}
               PROVE  Live \subseteq doomed'[q]
    BY <1>1 DEF Covered
  <2>1. CASE q = r BY <2>1, <1>2 DEF IInv, TypeOK, Live
  <2>2. CASE q # r BY <2>2, <1>2 DEF IInv, TypeOK, Covered
  <2> QED BY <2>1, <2>2
<1> QED BY <1>3, <1>4, <1>5, <1>6 DEF IInv

(* What the end of a transaction that at most revokes keeps, if it reaches no *)
(* token somebody else is about to exchange *)
LEMMA EndStep ==
  ASSUME IInv, NEW r \in Requests, NEW S \in SUBSET Issued, Ends(r),
         \A q \in Requests \ {r} : pc[q] = "rotating" => token[q] \notin S,
         revoked' = revoked \cup S, active' \in BOOLEAN,
         UNCHANGED <<family, replaced, old, expired>>
  PROVE  IInv'
<1>1. Issued' = Issued /\ Rotated' = Rotated /\ Live' = Live \ S
  BY DEF Issued, Rotated, Live
<1>2. /\ pc' = [pc EXCEPT ![r] = "idle"] /\ token' = [token EXCEPT ![r] = NoToken]
      /\ doomed' = [doomed EXCEPT ![r] = {}]
  BY DEF Ends
<1>3. TypeOK' BY <1>1, <1>2 DEF IInv, TypeOK
<1>4. Holding' /\ Exclusive' BY <1>2 DEF IInv, TypeOK, Holding, Exclusive
<1>5. Sound' BY <1>1, <1>2 DEF IInv, TypeOK, Sound
<1>6. Covered' BY <1>1, <1>2 DEF IInv, TypeOK, Covered
<1> QED BY <1>3, <1>4, <1>5, <1>6 DEF IInv

(* A sign-in keeps the invariant. *)
LEMMA IssueStep ==
  ASSUME IInv, NEW r \in Requests, Issue(r)
  PROVE  IInv'
<1>1. /\ NewToken \in Tokens \ Issued /\ NewFamily \in Families
      /\ Issued' = Issued \cup {NewToken} /\ Live' = Live \cup {NewToken} /\ Rotated' = Rotated
  BY IssueEffect DEF IInv
<1>2. /\ family' = [family EXCEPT ![NewToken] = NewFamily] /\ replaced' = replaced
      /\ revoked' = revoked /\ old' = old /\ expired' = expired /\ active' = active
      /\ pc' = [pc EXCEPT ![r] = "idle"] /\ token' = [token EXCEPT ![r] = NoToken]
      /\ doomed' = [doomed EXCEPT ![r] = {}]
  BY DEF Issue, Ends
<1>3. TypeOK'
  <2>1. family' \in [Tokens -> Families \cup {NoFamily}] BY <1>1, <1>2 DEF IInv, TypeOK
  <2>2. token' \in [Requests -> Issued' \cup {NoToken}] BY <1>1, <1>2 DEF IInv, TypeOK
  <2>3. doomed' \in [Requests -> SUBSET Issued'] BY <1>1, <1>2 DEF IInv, TypeOK
  <2> QED BY <1>1, <1>2, <2>1, <2>2, <2>3 DEF IInv, TypeOK
<1>4. Holding' /\ Exclusive' BY <1>2 DEF IInv, TypeOK, Holding, Exclusive
<1>5. Sound' BY <1>1, <1>2 DEF IInv, TypeOK, Sound
<1>6. \A q \in Requests : pc[q] \notin {"resetting", "closing"} BY DEF Issue, UserLocked
<1>7. Covered' BY <1>2, <1>6 DEF IInv, TypeOK, Covered
<1> QED BY <1>3, <1>4, <1>5, <1>7 DEF IInv

(* A rotation keeps the invariant: nobody else holds the token it retires. *)
LEMMA RotateStep ==
  ASSUME IInv, NEW r \in Requests, Rotate(r)
  PROVE  IInv'
<1>1. /\ NewToken \in Tokens \ Issued /\ token[r] \in Live
      /\ Issued' = Issued \cup {NewToken} /\ Rotated' = Rotated \cup {token[r]}
      /\ Live' = (Live \ {token[r]}) \cup {NewToken}
  BY RotateEffect DEF IInv
<1>2. token[r] \in Tokens /\ token[r] \in Issued /\ family[token[r]] \in Families
  BY <1>1 DEF Live, Issued, IInv, TypeOK
<1>3. /\ family' = [family EXCEPT ![NewToken] = family[token[r]]]
      /\ replaced' = [replaced EXCEPT ![token[r]] = NewToken]
      /\ revoked' = revoked \cup {token[r]} /\ old' = old /\ expired' = expired
      /\ active' = active
      /\ pc' = [pc EXCEPT ![r] = "idle"] /\ token' = [token EXCEPT ![r] = NoToken]
      /\ doomed' = [doomed EXCEPT ![r] = {}]
  BY DEF Rotate, Ends, Retired
<1>4. TypeOK'
  <2>1. family' \in [Tokens -> Families \cup {NoFamily}] BY <1>2, <1>3 DEF IInv, TypeOK
  <2>2. replaced' \in [Tokens -> Tokens \cup {NoToken}] BY <1>1, <1>3 DEF IInv, TypeOK
  <2>3. token' \in [Requests -> Issued' \cup {NoToken}] BY <1>1, <1>3 DEF IInv, TypeOK
  <2>4. doomed' \in [Requests -> SUBSET Issued'] BY <1>1, <1>3 DEF IInv, TypeOK
  <2> QED BY <1>1, <1>2, <1>3, <2>1, <2>2, <2>3, <2>4 DEF IInv, TypeOK
<1>5. Holding' /\ Exclusive' BY <1>3 DEF IInv, TypeOK, Holding, Exclusive
<1>6. Sound'
  <2> SUFFICES ASSUME NEW q \in Requests, pc'[q] = "rotating"
               PROVE  token'[q] \in Live'
    BY DEF Sound
  <2>1. q # r /\ pc[q] = "rotating" /\ token'[q] = token[q] BY <1>3 DEF IInv, TypeOK
  <2>2. token[q] \in Live /\ token[q] # NoToken BY <2>1 DEF IInv, Sound, Holding
  <2>3. token[q] # token[r] BY <2>1, <2>2 DEF IInv, Exclusive
  <2> QED BY <1>1, <2>1, <2>2, <2>3
<1>7. \A q \in Requests : pc[q] \notin {"resetting", "closing"} BY DEF Rotate, UserLocked
<1>8. Covered' BY <1>3, <1>7 DEF IInv, TypeOK, Covered
<1> QED BY <1>4, <1>5, <1>6, <1>8 DEF IInv

(* Time and the administrator's reactivation disturb nothing. *)
LEMMA OutsideStep ==
  ASSUME IInv, Reactivate \/ \E t \in Tokens : GracePasses(t) \/ Expires(t)
  PROVE  IInv'
<1>1. /\ family' = family /\ replaced' = replaced /\ revoked' = revoked
      /\ pc' = pc /\ token' = token /\ doomed' = doomed
      /\ old' \subseteq Rotated /\ expired' \subseteq Issued /\ active' \in BOOLEAN
  BY DEF Reactivate, GracePasses, Expires, locals, IInv, TypeOK
<1>2. Issued' = Issued /\ Rotated' = Rotated /\ Live' = Live BY <1>1 DEF Issued, Rotated, Live
<1>3. TypeOK' BY <1>1, <1>2 DEF IInv, TypeOK
<1>4. Holding' /\ Exclusive' /\ Sound' /\ Covered'
  BY <1>1, <1>2 DEF IInv, Holding, Exclusive, Sound, Covered
<1> QED BY <1>3, <1>4 DEF IInv

(* Every step keeps the invariant. *)
LEMMA InvariantStep == IInv /\ [Next]_vars => IInv'
<1> SUFFICES ASSUME IInv, [Next]_vars PROVE IInv'
  OBVIOUS
<1>1. CASE UNCHANGED vars
  <2>1. /\ UNCHANGED <<family, replaced, revoked, old, expired, active, pc, token, doomed>>
        /\ Issued' = Issued /\ Rotated' = Rotated /\ Live' = Live
    BY <1>1 DEF vars, rows, locals, Issued, Rotated, Live
  <2> QED BY <2>1 DEF IInv, TypeOK, Holding, Exclusive, Sound, Covered
<1>2. CASE Reactivate \/ \E t \in Tokens : GracePasses(t) \/ Expires(t)
  BY <1>2, OutsideStep
<1>3. ASSUME NEW r \in Requests, pc' = [pc EXCEPT ![r] = pc'[r]],
             UNCHANGED rows, UNCHANGED doomed, pc'[r] \notin {"resetting", "closing"}
      PROVE  /\ Issued' = Issued /\ Rotated' = Rotated /\ Live' = Live
             /\ family' = family /\ replaced' = replaced /\ revoked' = revoked
             /\ old' = old /\ expired' = expired /\ active' = active
             /\ Covered'
  <2>1. /\ Issued' = Issued /\ Rotated' = Rotated /\ Live' = Live
        /\ family' = family /\ replaced' = replaced /\ revoked' = revoked
        /\ old' = old /\ expired' = expired /\ active' = active
    BY <1>3 DEF rows, Issued, Rotated, Live
  <2>2. Covered' BY <1>3, <2>1 DEF IInv, TypeOK, Covered
  <2> QED BY <2>1, <2>2
<1>4. ASSUME NEW r \in Requests, SignIn(r) PROVE IInv'
  <2>1. pc' = [pc EXCEPT ![r] = "issuing"] /\ token' = token /\ doomed' = doomed /\ UNCHANGED rows
    BY <1>4 DEF SignIn
  <2>2. pc'[r] = "issuing" BY <2>1 DEF IInv, TypeOK
  <2>3. Covered' /\ Issued' = Issued /\ Rotated' = Rotated /\ Live' = Live
    BY <1>3, <2>1, <2>2
  <2>4. TypeOK' BY <1>3, <2>1, <2>2 DEF IInv, TypeOK
  <2>5. Holding' /\ Exclusive' /\ Sound'
    BY <2>1, <2>3 DEF IInv, TypeOK, Holding, Exclusive, Sound
  <2> QED BY <2>3, <2>4, <2>5 DEF IInv
<1>5. ASSUME NEW r \in Requests, NEW t \in Tokens, Refresh(r, t) PROVE IInv'
  <2>1. /\ pc' = [pc EXCEPT ![r] = "locked"] /\ token' = [token EXCEPT ![r] = t]
        /\ doomed' = doomed /\ UNCHANGED rows /\ t \in Issued
        /\ \A q \in Requests : token[q] # t
    BY <1>5 DEF Refresh, Free
  <2>2. pc'[r] = "locked" BY <2>1 DEF IInv, TypeOK
  <2>3. Covered' /\ Issued' = Issued /\ Rotated' = Rotated /\ Live' = Live
    BY <1>3, <2>1, <2>2
  <2>4. TypeOK' BY <1>3, <2>1, <2>2 DEF IInv, TypeOK
  <2>5. Holding' BY <2>1, TokenAssumption DEF IInv, TypeOK, Holding, Issued
  <2>6. Exclusive' BY <2>1 DEF IInv, TypeOK, Exclusive
  <2>7. Sound' BY <2>1, <2>3 DEF IInv, TypeOK, Sound
  <2> QED BY <2>3, <2>4, <2>5, <2>6, <2>7 DEF IInv
<1>6. ASSUME NEW r \in Requests, CheckUser(r) PROVE IInv'
  <2>1. token[r] \in Issued /\ token[r] \in Live
    BY <1>6 DEF CheckUser, Usable, Live, IInv, TypeOK, Holding
  <2>2. CASE active
    <3>1. pc' = [pc EXCEPT ![r] = "rotating"] /\ token' = token /\ doomed' = doomed /\ UNCHANGED rows
      BY <1>6, <2>2 DEF CheckUser
    <3>2. pc'[r] = "rotating" BY <3>1 DEF IInv, TypeOK
    <3>3. Covered' /\ Issued' = Issued /\ Rotated' = Rotated /\ Live' = Live
      BY <1>3, <3>1, <3>2
    <3>4. TypeOK' BY <1>3, <3>1, <3>2 DEF IInv, TypeOK
    <3>5. Holding'
      <4>1. token[r] # NoToken BY <2>1, TokenAssumption DEF Issued
      <4> QED BY <4>1, <3>1 DEF IInv, TypeOK, Holding
    <3>6. Exclusive' BY <3>1 DEF IInv, Exclusive
    <3>7. Sound' BY <2>1, <3>1, <3>3 DEF IInv, TypeOK, Sound
    <3> QED BY <3>3, <3>4, <3>5, <3>6, <3>7 DEF IInv
  <2>3. CASE ~active
    BY <1>6, <2>3, BeginStep DEF CheckUser, Of
  <2> QED BY <2>2, <2>3
<1>7. ASSUME NEW r \in Requests, Reused(r) PROVE IInv'
  BY <1>7, BeginStep DEF Reused, Of
<1>8. ASSUME NEW r \in Requests, NEW t \in Tokens, SignOut(r, t) \/ RevokeOthers(r, t) PROVE IInv'
  BY <1>8, BeginStep DEF SignOut, RevokeOthers, Of
<1>9. ASSUME NEW r \in Requests,
             RevokeAll(r) \/ ChangeRoles(r) \/ Deactivate(r) \/ Reset(r) \/ Close(r)
      PROVE  IInv'
  <2>1. Issued \in SUBSET Issued OBVIOUS
  <2> QED BY <1>9, <2>1, BeginStep DEF RevokeAll, ChangeRoles, Deactivate, Reset, Close
<1>10. ASSUME NEW r \in Requests, Refuse(r) \/ Abort(r) PROVE IInv'
  <2>1. Ends(r) /\ UNCHANGED rows BY <1>10 DEF Refuse, Abort
  <2>2. revoked' = revoked \cup {} /\ active' \in BOOLEAN /\ UNCHANGED <<family, replaced, old, expired>>
    BY <2>1 DEF rows, IInv, TypeOK
  <2>3. {} \in SUBSET Issued /\ \A q \in Requests \ {r} : token[q] \notin {} OBVIOUS
  <2> QED BY <2>1, <2>2, <2>3, EndStep
<1>11. ASSUME NEW r \in Requests, Expired(r) PROVE IInv'
  <2>1. /\ token[r] # NoToken /\ {token[r]} \in SUBSET Issued
        /\ \A q \in Requests \ {r} : token[q] \notin {token[r]}
    BY <1>11 DEF Expired, IInv, TypeOK, Holding, Exclusive
  <2>2. /\ Ends(r) /\ revoked' = revoked \cup {token[r]} /\ active' \in BOOLEAN
        /\ UNCHANGED <<family, replaced, old, expired>>
    BY <1>11 DEF Expired, IInv, TypeOK
  <2> QED BY <2>1, <2>2, EndStep
<1>12. ASSUME NEW r \in Requests, Revoke(r) PROVE IInv'
  <2>1. \A q \in Requests \ {r} : token[q] \notin doomed[r]
    BY <1>12 DEF Revoke, Waits
  <2>2. /\ Ends(r) /\ revoked' = revoked \cup doomed[r] /\ doomed[r] \in SUBSET Issued
        /\ UNCHANGED <<family, replaced, old, expired>>
    BY <1>12 DEF Revoke, IInv, TypeOK
  <2>3. active' \in BOOLEAN BY <1>12 DEF Revoke
  <2> QED BY <2>1, <2>2, <2>3, EndStep
<1> QED
  BY <1>1, <1>2, <1>4, <1>5, <1>6, <1>7, <1>8, <1>9, <1>10, <1>11, <1>12, IssueStep, RotateStep
  DEF Next, Step

(* The invariant holds always. *)
LEMMA Invariance == Spec => []IInv
<1>1. Init => IInv
  BY FamilyAssumption, TokenAssumption
  DEF Init, IInv, TypeOK, Holding, Exclusive, Sound, Covered, Issued, Rotated, Live
<1> QED BY <1>1, InvariantStep, PTL DEF Spec

(* Types hold in every reachable state: an exchanged token is revoked, and   *)
(* locks and found rows are of tokens that exist.                            *)
THEOREM TypeCorrect == Spec => []TypeOK
BY Invariance, PTL DEF IInv

-----------------------------------------------------------------------------
(* One live token per family *)
LEMMA OneLiveStep == IInv /\ OneLivePerFamily /\ [Next]_vars => OneLivePerFamily'
<1> SUFFICES ASSUME IInv, OneLivePerFamily, [Next]_vars,
                    NEW t \in Live', NEW u \in Live', family'[t] = family'[u]
             PROVE  t = u
  BY DEF OneLivePerFamily
<1>1. Live \subseteq Issued /\ Issued \subseteq Tokens BY DEF Live, Issued
<1>2. ASSUME NEW r \in Requests, Issue(r) PROVE t = u
  <2>1. /\ NewToken \in Tokens \ Issued /\ Of(NewFamily) = {} /\ Live' = Live \cup {NewToken}
        /\ \A s \in Issued : family'[s] = family[s]
        /\ family'[NewToken] = NewFamily
    BY <1>2, IssueEffect DEF IInv
  <2>2. \A s \in Live : family'[s] = family[s] /\ family[s] # NewFamily
    BY <1>1, <2>1 DEF Of
  <2> QED BY <2>1, <2>2 DEF OneLivePerFamily
<1>3. ASSUME NEW r \in Requests, Rotate(r) PROVE t = u
  <2>1. /\ NewToken \in Tokens \ Issued /\ token[r] \in Live
        /\ Live' = (Live \ {token[r]}) \cup {NewToken}
        /\ \A s \in Issued : family'[s] = family[s]
        /\ family'[NewToken] = family[token[r]]
    BY <1>3, RotateEffect DEF IInv
  <2>2. \A s \in Live \ {token[r]} : family'[s] = family[s] /\ family[s] # family[token[r]]
    BY <1>1, <2>1 DEF OneLivePerFamily
  <2> QED BY <2>1, <2>2 DEF OneLivePerFamily
<1>4. CASE Revokes
  BY <1>4, RevokesEffect DEF Revokes, OneLivePerFamily
<1> QED BY <1>2, <1>3, <1>4, StepKinds

(* A family never has two tokens that can be exchanged, however many requests *)
(* refresh, revoke or sign in at once.                                        *)
THEOREM OneLive == Spec => []OneLivePerFamily
<1>1. Init => OneLivePerFamily BY DEF Init, OneLivePerFamily, Live, Issued
<1> QED BY <1>1, Invariance, OneLiveStep, PTL DEF Spec

-----------------------------------------------------------------------------
(* Families do not fork *)
LEMMA NoForkStep == IInv /\ NoFork /\ [Next]_vars => NoFork'
<1> SUFFICES ASSUME IInv, NoFork, [Next]_vars PROVE NoFork'
  OBVIOUS
<1>1. Successors \subseteq Issued BY DEF Successors, NoFork
<1>2. Rotated \subseteq Issued BY DEF IInv, TypeOK
<1>3. ASSUME NEW r \in Requests, Issue(r) PROVE NoFork'
  <2>1. /\ NewToken \in Tokens \ Issued /\ Of(NewFamily) = {} /\ Issued' = Issued \cup {NewToken}
        /\ Rotated' = Rotated /\ Successors' = Successors
        /\ \A s \in Issued : family'[s] = family[s]
        /\ family'[NewToken] = NewFamily /\ replaced' = replaced
    BY <1>3, IssueEffect DEF IInv, Issue
  <2>2. \A s \in Issued : family'[s] = family[s] /\ family[s] # NewFamily BY <2>1 DEF Of
  <2>3. \A t, u \in Rotated' : replaced'[t] = replaced'[u] => t = u BY <2>1 DEF NoFork
  <2>4. \A t \in Rotated' : replaced'[t] \in Issued' /\ family'[replaced'[t]] = family'[t]
    BY <1>2, <2>1 DEF NoFork
  <2>5. \A t, u \in Issued' \ Successors' : family'[t] = family'[u] => t = u
    BY <2>1, <2>2 DEF NoFork
  <2> QED BY <2>3, <2>4, <2>5 DEF NoFork
<1>4. ASSUME NEW r \in Requests, Rotate(r) PROVE NoFork'
  <2>1. /\ NewToken \in Tokens \ Issued /\ token[r] \in Live /\ token[r] \notin Rotated
        /\ Issued' = Issued \cup {NewToken} /\ Rotated' = Rotated \cup {token[r]}
        /\ \A t \in Issued : family'[t] = family[t]
        /\ family'[NewToken] = family[token[r]]
        /\ \A t \in Rotated : replaced'[t] = replaced[t]
        /\ replaced'[token[r]] = NewToken
    BY <1>4, RotateEffect DEF IInv
  <2>2. token[r] \in Issued BY <2>1 DEF Live
  <2>3. \A t \in Rotated : replaced'[t] \in Issued /\ replaced'[t] # NewToken
    BY <2>1 DEF NoFork
  <2>4. \A t, u \in Rotated' : replaced'[t] = replaced'[u] => t = u
    BY <2>1, <2>3 DEF NoFork
  <2>5. \A t \in Rotated' : replaced'[t] \in Issued' /\ family'[replaced'[t]] = family'[t]
    <3> SUFFICES ASSUME NEW t \in Rotated'
                 PROVE  replaced'[t] \in Issued' /\ family'[replaced'[t]] = family'[t]
      OBVIOUS
    <3>1. CASE t \in Rotated BY <3>1, <1>2, <2>1, <2>3 DEF NoFork
    <3>2. CASE t = token[r] BY <3>2, <2>1, <2>2
    <3> QED BY <3>1, <3>2, <2>1
  <2>6. Successors' = Successors \cup {NewToken}
    BY <2>1 DEF Successors
  <2>7. \A t, u \in Issued' \ Successors' : family'[t] = family'[u] => t = u
    BY <2>1, <2>6 DEF NoFork
  <2> QED BY <2>4, <2>5, <2>7 DEF NoFork
<1>5. CASE Revokes
  BY <1>5, RevokesEffect DEF Revokes, NoFork
<1> QED BY <1>3, <1>4, <1>5, StepKinds

(* Every token but a family's first is the successor of exactly one other    *)
(* token of the family, in every interleaving of refreshes and revocations.  *)
THEOREM FamiliesDoNotFork == Spec => []NoFork
<1>1. Init => NoFork
  BY TokenAssumption DEF Init, NoFork, Successors, Rotated, Issued
<1> QED BY <1>1, Invariance, NoForkStep, PTL DEF Spec

(* A step never revives a family that has ended. *)
LEMMA EndedStep ==
  ASSUME IInv, [Next]_vars, NEW f \in Families, Of(f) # {}, Of(f) \cap Live = {}
  PROVE  (Of(f) \cap Live)' = {}
<1>1. Live \subseteq Issued BY DEF Live
<1>2. \A s \in Live : family[s] # f BY <1>1 DEF Of
<1>3. ASSUME NEW r \in Requests, Issue(r) PROVE \A s \in Live' : family'[s] # f
  <2>1. /\ Of(NewFamily) = {} /\ Live' = Live \cup {NewToken}
        /\ \A s \in Issued : family'[s] = family[s]
        /\ family'[NewToken] = NewFamily
    BY <1>3, IssueEffect DEF IInv
  <2>2. NewFamily # f BY <2>1
  <2> QED BY <1>1, <1>2, <2>1, <2>2
<1>4. ASSUME NEW r \in Requests, Rotate(r) PROVE \A s \in Live' : family'[s] # f
  <2>1. /\ token[r] \in Live /\ Live' = (Live \ {token[r]}) \cup {NewToken}
        /\ \A s \in Issued : family'[s] = family[s]
        /\ family'[NewToken] = family[token[r]]
    BY <1>4, RotateEffect DEF IInv
  <2> QED BY <1>1, <1>2, <2>1
<1>5. \A s \in Live' : family'[s] # f
  <2>1. CASE Revokes BY <1>2, <2>1, RevokesEffect DEF Revokes
  <2> QED BY <1>3, <1>4, <2>1, StepKinds
<1> QED BY <1>5 DEF Of

(* A family whose tokens have all been revoked stays ended: no refresh that   *)
(* waited for the row or read the account earlier adds to it.                 *)
THEOREM EndedForGood == Spec => FamilyEndsForGood
<1>1. IInv /\ [Next]_vars
        => [\A f \in Families : Of(f) # {} /\ Of(f) \cap Live = {} => (Of(f) \cap Live)' = {}]_vars
  BY EndedStep
<1> QED BY <1>1, Invariance, PTL DEF Spec, FamilyEndsForGood

(* The commit of a password reset, or of the closing of the account by its    *)
(* owner, leaves no token that can be exchanged.                              *)
THEOREM ResetLeavesNone == Spec => ResetEndsAll
<1>1. ASSUME IInv, NEW r \in Requests, pc[r] \in {"resetting", "closing"}, Revoke(r)
      PROVE  Live' = {}
  <2>1. Live \subseteq doomed[r] BY <1>1 DEF IInv, Covered
  <2>2. Issued' = Issued /\ revoked' = revoked \cup doomed[r] BY <1>1 DEF Revoke, Issued
  <2> QED BY <2>1, <2>2 DEF Live
<1>2. IInv /\ [Next]_vars
        => [\A r \in Requests : pc[r] \in {"resetting", "closing"} /\ Revoke(r) => Live' = {}]_vars
  BY <1>1
<1> QED BY <1>2, Invariance, PTL DEF Spec, ResetEndsAll
=============================================================================
