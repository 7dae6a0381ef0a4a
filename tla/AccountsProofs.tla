---------------------------- MODULE AccountsProofs ----------------------------
(***************************************************************************)
(* What the composition of the account services keeps, for any number of   *)
(* requests, users, keys, tokens and flows.  Each group of services has an *)
(* inductive invariant of its own, and each is shown to survive the steps  *)
(* of the others, which meet it in the users' rows and in whose identity   *)
(* is whose.                                                               *)
(***************************************************************************)
EXTENDS Accounts, Integers, FiniteSetTheorems, TLAPS

-----------------------------------------------------------------------------
(* The picture.  A name is drawn once, so a file that is new to its request has never *)
(* been named (Fresh), and what is about to be deleted is not named any more (Replaced); *)
(* whoever deletes the account has locked the name it read (Held).  Nothing lies about    *)
(* that neither the row nor a request refers to (Accounted).                              *)
Names  == 1 .. drawn
Upload == [at : {"idle", "save", "clear", "lock", "commit", "undo", "drop", "delete"},
           old : Names \cup {None}, new : Names \cup {None}]

PictureTyped ==
  /\ drawn \in 1 .. MaxFiles /\ files \subseteq Names /\ named \in Names \cup {None}
  /\ exists \in BOOLEAN /\ (~exists => named = None) /\ holder \in Requests \cup {None}
  /\ unsure \in BOOLEAN /\ stray \in BOOLEAN
  /\ upload \in [Requests -> Upload]

Pending(r) == upload[r].at \in {"commit", "undo"}

Fresh == \A r \in Requests : Pending(r) =>
  /\ upload[r].new # None /\ upload[r].new # named
  /\ \A q \in Requests : upload[q].old # upload[r].new
  /\ \A q \in Requests \ {r} : upload[q].new # upload[r].new

Saved    == \A r \in Requests : upload[r].at = "commit" => upload[r].new \in files
Replaced == \A r \in Requests : upload[r].at = "drop" /\ upload[r].old # None => upload[r].old # named
Held     == \A r \in Requests : upload[r].at = "delete" => holder = r /\ upload[r].old = named

Refers(r, f) == \/ Pending(r) /\ upload[r].new = f
                \/ upload[r].at = "drop" /\ upload[r].old = f

Accounted == \A f \in files : f = named \/ \E r \in Requests : Refers(r, f)

PictureInv ==
  /\ PictureTyped /\ Held
  /\ ~unsure => /\ Fresh /\ Saved /\ Replaced
                /\ named # None => named \in files
                /\ ~stray => Accounted

(* What a step of one request makes of the requests *)
LEMMA UploadStep ==
  ASSUME PictureTyped, NEW r \in Requests, NEW STATE mine, mine \in Upload',
         upload' = [upload EXCEPT ![r] = mine], drawn' \in 1 .. MaxFiles, drawn <= drawn'
  PROVE  /\ upload' \in [Requests -> Upload'] /\ upload'[r] = mine
         /\ \A q \in Requests \ {r} : upload'[q] = upload[q]
<1>1. drawn \in Nat /\ drawn' \in Nat /\ Names \subseteq Names'
  BY PictureAssumption DEF PictureTyped, Names
<1>2. Upload \subseteq Upload' BY <1>1 DEF Upload
<1> QED BY <1>2 DEF PictureTyped

(* Steps that name nothing, delete nothing and give up nothing *)
LEMMA PictureQuiet ==
  ASSUME PictureInv, NEW r \in Requests, NEW STATE mine, mine \in Upload,
         upload' = [upload EXCEPT ![r] = mine],
         UNCHANGED <<named, exists, files, drawn, unsure, stray>>,
         holder' \in Requests \cup {None}, holder' # holder => holder \in {r, None},
         mine.at \in {"idle", "save", "clear", "lock", "delete", "drop"},
         mine.at = "delete" => holder' = r /\ mine.old = named,
         mine.at = "drop" => mine.old = None,
         mine.old \in {upload[r].old, named, None}, mine.new \in {upload[r].new, None},
         upload[r].at \in {"idle", "save", "clear", "lock", "delete"}
  PROVE  PictureInv'
<1> USE PictureAssumption
<1>1. PictureTyped BY DEF PictureInv
<1>2. mine \in Upload' /\ drawn' \in 1 .. MaxFiles /\ drawn <= drawn'
  BY <1>1 DEF PictureTyped, Names, Upload
<1>3. /\ upload' \in [Requests -> Upload'] /\ upload'[r] = mine
      /\ \A q \in Requests \ {r} : upload'[q] = upload[q]
  BY <1>1, <1>2, UploadStep
<1>4. PictureTyped' BY <1>1, <1>3 DEF PictureTyped, Names
<1>5. Held' BY <1>1, <1>3 DEF PictureInv, Held, PictureTyped
<1>6. Fresh => Fresh' BY <1>3 DEF Fresh, Pending
<1>7. Saved => Saved' BY <1>3 DEF Saved
<1>8. Replaced => Replaced' BY <1>3 DEF Replaced
<1>9. Accounted => Accounted' BY <1>3 DEF Accounted, Refers, Pending
<1> QED BY <1>4, <1>5, <1>6, <1>7, <1>8, <1>9 DEF PictureInv

LEMMA PictureBegin ==
  ASSUME PictureInv, NEW r \in Requests, P!Begin(r)
  PROVE  PictureInv'
<1>1. PICK place \in {"save", "clear", "lock"} :
        upload' = [upload EXCEPT ![r] = [at |-> place, old |-> named, new |-> None]]
  BY DEF P!Begin, P!Idle
<1> DEFINE mine == [at |-> place, old |-> named, new |-> None]
<1>2. /\ UNCHANGED <<named, exists, files, drawn, holder, unsure, stray>> /\ upload[r].at = "idle"
      /\ holder \in Requests \cup {None}
  BY DEF P!Begin, PictureInv, PictureTyped
<1>3. mine \in Upload BY DEF PictureInv, PictureTyped, Names, Upload
<1>4. mine.at = place /\ mine.old = named /\ mine.new = None OBVIOUS
<1> HIDE DEF mine
<1> QED BY <1>1, <1>2, <1>3, <1>4, PictureQuiet DEF mine

(* A request that ends with nothing to put right *)
LEMMA PictureEnd ==
  ASSUME PictureInv, NEW r \in Requests, P!End(r), upload[r].at \in {"save", "clear", "lock", "delete"},
         UNCHANGED <<named, exists, files, drawn, unsure, stray>>,
         holder' \in Requests \cup {None}, holder' # holder => holder \in {r, None}
  PROVE  PictureInv'
<1> DEFINE mine == P!Idle
<1>1. mine \in Upload /\ mine.at = "idle" /\ mine.old = None /\ mine.new = None
  BY DEF P!Idle, Upload
<1>2. upload' = [upload EXCEPT ![r] = mine] BY DEF P!End
<1> HIDE DEF mine
<1> QED BY <1>1, <1>2, PictureQuiet

(* A new name is nobody's. *)
LEMMA PictureSave ==
  ASSUME PictureInv, NEW r \in Requests, P!SaveAvatar(r)
  PROVE  PictureInv'
<1> USE PictureAssumption
<1>1. PictureTyped BY DEF PictureInv
<1>2. CASE P!End(r) /\ UNCHANGED <<files, drawn>>
  BY <1>1, <1>2, PictureEnd DEF P!SaveAvatar, PictureTyped
<1>3. CASE drawn' = drawn + 1
  <2> DEFINE mine == [upload[r] EXCEPT !.at = "commit", !.new = drawn + 1]
  <2>1. /\ upload' = [upload EXCEPT ![r] = mine] /\ files' = files \cup {drawn + 1}
        /\ drawn < MaxFiles /\ upload[r].at = "save"
        /\ UNCHANGED <<named, exists, holder, unsure, stray>>
    BY <1>3, <1>1 DEF P!SaveAvatar, PictureTyped
  <2>2. drawn \in Nat /\ drawn' \in 1 .. MaxFiles /\ drawn <= drawn' /\ drawn + 1 \in Names'
        /\ drawn + 1 \notin Names \cup {None} /\ Names' = Names \cup {drawn + 1}
    BY <1>1, <1>3, <2>1 DEF PictureTyped, Names
  <2>3. /\ mine \in Upload' /\ mine.at = "commit" /\ mine.old = upload[r].old
        /\ mine.new = drawn + 1
    BY <1>1, <2>2 DEF PictureTyped, Upload
  <2> HIDE DEF mine
  <2>4. /\ upload' \in [Requests -> Upload'] /\ upload'[r] = mine
        /\ \A q \in Requests \ {r} : upload'[q] = upload[q]
    BY <1>1, <2>1, <2>2, <2>3, UploadStep
  <2>5. \A q \in Requests : upload[q].old # drawn + 1 /\ upload[q].new # drawn + 1
    BY <1>1, <2>2 DEF PictureTyped, Upload
  <2>6. named # drawn + 1 /\ drawn + 1 # None BY <1>1, <2>2 DEF PictureTyped
  <2>7. PictureTyped' BY <1>1, <2>1, <2>2, <2>4 DEF PictureTyped
  <2>8. Held' BY <2>1, <2>3, <2>4 DEF PictureInv, Held
  <2>9. Fresh => Fresh' BY <2>1, <2>3, <2>4, <2>5, <2>6 DEF Fresh, Pending
  <2>10. Saved => Saved' BY <2>1, <2>3, <2>4 DEF Saved
  <2>11. Replaced => Replaced' BY <2>1, <2>3, <2>4 DEF Replaced
  <2>12. Accounted => Accounted'
    <3> SUFFICES ASSUME Accounted, NEW f \in files'
                 PROVE  f = named' \/ \E q \in Requests : Refers(q, f)'
      BY DEF Accounted
    <3>1. CASE f = drawn + 1 BY <2>3, <2>4, <3>1 DEF Refers, Pending
    <3>2. CASE f \in files BY <2>1, <2>4, <3>2 DEF Accounted, Refers, Pending
    <3> QED BY <2>1, <3>1, <3>2
  <2> QED BY <2>1, <2>7, <2>8, <2>9, <2>10, <2>11, <2>12 DEF PictureInv
<1> QED BY <1>2, <1>3 DEF P!SaveAvatar

(* A commit names what nobody else refers to; what it replaces, if it is what the request had *)
(* read, is the request's to delete.                                                           *)
LEMMA PictureCommit ==
  ASSUME PictureInv, NEW r \in Requests, P!Commit(r)
  PROVE  PictureInv'
<1> USE PictureAssumption
<1>1. /\ PictureTyped /\ upload[r] \in Upload /\ upload[r].at = "commit" /\ holder = None
      /\ UNCHANGED <<exists, files, drawn, holder>>
      /\ drawn' \in 1 .. MaxFiles /\ drawn <= drawn' /\ Names' = Names
  BY DEF P!Commit, PictureInv, PictureTyped, Names
<1>2. PICK to \in {"drop", "undo"} : upload' = [upload EXCEPT ![r].at = to]
  BY DEF P!Commit, P!Goes
<1> DEFINE mine == [upload[r] EXCEPT !.at = to]
<1>3. /\ mine \in Upload' /\ mine.at = to /\ mine.old = upload[r].old /\ mine.new = upload[r].new
      /\ upload' = [upload EXCEPT ![r] = mine]
  BY <1>1, <1>2 DEF Upload, Names, PictureTyped
<1> HIDE DEF mine
<1>4. /\ upload' \in [Requests -> Upload'] /\ upload'[r] = mine
      /\ \A q \in Requests \ {r} : upload'[q] = upload[q]
  BY <1>1, <1>3, UploadStep
<1>5. \A q \in Requests : upload[q].at # "delete" BY <1>1 DEF PictureInv, Held
<1>6. Held' BY <1>2, <1>3, <1>4, <1>5 DEF Held
<1>7. named' \in {named, upload[r].new} /\ {unsure', stray'} \subseteq BOOLEAN
      /\ (~exists => named' = named)
  BY <1>1 DEF P!Commit, PictureTyped
<1>8. PictureTyped' BY <1>1, <1>4, <1>7 DEF PictureTyped, Upload
<1>9. CASE named' = upload[r].new /\ P!Goes(r, "drop") /\ stray' = (stray \/ named # upload[r].old)
           /\ UNCHANGED unsure
  <2>1. mine.at = "drop" BY <1>1, <1>4, <1>9 DEF P!Goes, PictureTyped, Upload
  <2> SUFFICES ASSUME ~unsure
               PROVE  /\ Fresh' /\ Saved' /\ Replaced' /\ (named # None => named \in files)'
                      /\ (~stray' => Accounted')
    BY <1>6, <1>8, <1>9 DEF PictureInv
  <2>2. Fresh /\ Saved /\ Replaced /\ (~stray => Accounted) BY DEF PictureInv
  <2>3. upload[r].new \in files /\ upload[r].new # None
    BY <1>1, <2>2 DEF Fresh, Saved, Pending
  <2>4. \A q \in Requests : upload[q].old # upload[r].new BY <1>1, <2>2 DEF Fresh, Pending
  <2>5. Fresh' BY <1>1, <1>3, <1>4, <1>9, <2>1, <2>2 DEF Fresh, Pending
  <2>6. Saved' BY <1>1, <1>3, <1>4, <2>1, <2>2 DEF Saved
  <2>7. Replaced' BY <1>3, <1>4, <1>9, <2>1, <2>4 DEF Replaced
  <2>8. ~stray' => Accounted'
    <3> SUFFICES ASSUME ~stray', NEW f \in files'
                 PROVE  f = named' \/ \E q \in Requests : Refers(q, f)'
      BY DEF Accounted
    <3>1. Accounted /\ named = upload[r].old /\ f \in files BY <1>1, <1>9, <2>2
    <3>2. CASE f = named BY <1>3, <1>4, <2>1, <3>1, <3>2 DEF Refers
    <3>3. CASE \E q \in Requests : Refers(q, f)
      <4>1. PICK q \in Requests : Refers(q, f) BY <3>3
      <4>2. CASE q = r BY <1>1, <1>9, <4>1, <4>2 DEF Refers, Pending
      <4>3. CASE q # r BY <1>4, <4>1, <4>3 DEF Refers, Pending
      <4> QED BY <4>2, <4>3
    <3> QED BY <3>1, <3>2, <3>3 DEF Accounted
  <2> QED BY <1>1, <1>9, <2>3, <2>5, <2>6, <2>7, <2>8
<1>10. CASE unsure' = TRUE BY <1>6, <1>8, <1>10 DEF PictureInv
<1>11. CASE P!Goes(r, "undo") /\ UNCHANGED <<named, unsure, stray>>
  <2>1. mine.at = "undo" BY <1>1, <1>4, <1>11 DEF P!Goes, PictureTyped, Upload
  <2>2. Fresh => Fresh' BY <1>1, <1>3, <1>4, <1>11, <2>1 DEF Fresh, Pending
  <2>3. Saved => Saved' BY <1>1, <1>3, <1>4, <1>11, <2>1 DEF Saved
  <2>4. Replaced => Replaced' BY <1>1, <1>3, <1>4, <1>11, <2>1 DEF Replaced
  <2>5. Accounted => Accounted' BY <1>1, <1>3, <1>4, <1>11, <2>1 DEF Accounted, Refers, Pending
  <2> QED BY <1>1, <1>6, <1>8, <1>11, <2>2, <2>3, <2>4, <2>5 DEF PictureInv
<1> QED BY <1>9, <1>10, <1>11 DEF P!Commit

(* The name goes: the request that took it away deletes the file, if it is the one it had read. *)
LEMMA PictureUnname ==
  ASSUME PictureInv, NEW r \in Requests, P!Goes(r, "drop"), named' = None,
         upload[r].at \in {"clear", "delete"}, exists' \in BOOLEAN,
         UNCHANGED <<files, drawn, unsure>>, stray' = (stray \/ named # upload[r].old),
         holder' = None, holder \in {r, None}
  PROVE  PictureInv'
<1> USE PictureAssumption
<1>1. /\ PictureTyped /\ upload[r] \in Upload
      /\ drawn' \in 1 .. MaxFiles /\ drawn <= drawn' /\ Names' = Names
  BY DEF PictureInv, PictureTyped, Names
<1> DEFINE mine == [upload[r] EXCEPT !.at = "drop"]
<1>2. /\ mine \in Upload' /\ mine.at = "drop" /\ mine.old = upload[r].old /\ mine.new = upload[r].new
      /\ upload' = [upload EXCEPT ![r] = mine]
  BY <1>1 DEF Upload, PictureTyped, P!Goes
<1> HIDE DEF mine
<1>3. /\ upload' \in [Requests -> Upload'] /\ upload'[r] = mine
      /\ \A q \in Requests \ {r} : upload'[q] = upload[q]
  BY <1>1, <1>2, UploadStep
<1>4. stray' \in BOOLEAN BY <1>1 DEF PictureTyped
<1>5. PictureTyped' BY <1>1, <1>3, <1>4 DEF PictureTyped, Upload
<1>6. Held' BY <1>2, <1>3 DEF PictureInv, Held
<1>7. Fresh => Fresh' BY <1>2, <1>3 DEF Fresh, Pending
<1>8. Saved => Saved' BY <1>2, <1>3 DEF Saved
<1>9. Replaced => Replaced' BY <1>2, <1>3 DEF Replaced
<1>10. ASSUME Accounted, named = upload[r].old PROVE Accounted'
  <2> SUFFICES ASSUME NEW f \in files PROVE \E q \in Requests : Refers(q, f)'
    BY DEF Accounted
  <2>1. CASE f = named BY <1>2, <1>3, <1>10, <2>1 DEF Refers
  <2>2. CASE \E q \in Requests : Refers(q, f) BY <1>2, <1>3, <2>2 DEF Refers, Pending
  <2> QED BY <1>10, <2>1, <2>2 DEF Accounted
<1> QED BY <1>5, <1>6, <1>7, <1>8, <1>9, <1>10 DEF PictureInv

LEMMA PictureClear ==
  ASSUME PictureInv, NEW r \in Requests, P!Clear(r)
  PROVE  PictureInv'
<1> USE PictureAssumption
<1>1. /\ PictureTyped /\ upload[r] \in Upload /\ upload[r].at = "clear" /\ holder = None
      /\ UNCHANGED <<exists, files, drawn, holder, unsure>>
  BY DEF P!Clear, PictureInv, PictureTyped
<1>2. CASE exists /\ named' = None /\ P!Goes(r, "drop") /\ stray' = (stray \/ named # upload[r].old)
  BY <1>1, <1>2, PictureUnname DEF PictureTyped
<1>3. CASE upload[r].old = None /\ P!Goes(r, "drop") /\ UNCHANGED <<named, stray>>
  <2> DEFINE mine == [upload[r] EXCEPT !.at = "drop"]
  <2>1. /\ mine \in Upload /\ mine.at = "drop" /\ mine.old = None /\ mine.new = upload[r].new
        /\ upload' = [upload EXCEPT ![r] = mine]
    BY <1>1, <1>3 DEF Upload, PictureTyped, P!Goes
  <2> HIDE DEF mine
  <2> QED BY <1>1, <1>3, <2>1, PictureQuiet
<1>4. CASE P!End(r) /\ UNCHANGED <<named, stray>> BY <1>1, <1>4, PictureEnd
<1> QED BY <1>2, <1>3, <1>4 DEF P!Clear

LEMMA PictureLock ==
  ASSUME PictureInv, NEW r \in Requests, P!Lock(r)
  PROVE  PictureInv'
<1>1. /\ PictureTyped /\ upload[r] \in Upload /\ upload[r].at = "lock" /\ holder = None
      /\ UNCHANGED <<named, exists, files, drawn, unsure, stray>>
  BY DEF P!Lock, PictureInv, PictureTyped
<1>2. CASE exists
  <2> DEFINE mine == [upload[r] EXCEPT !.at = "delete", !.old = named]
  <2>1. upload' = [upload EXCEPT ![r] = mine] /\ holder' = r
    BY <1>2, <1>1 DEF P!Lock, P!Current, PictureTyped
  <2>2. mine \in Upload /\ mine.at = "delete" /\ mine.old = named /\ mine.new = upload[r].new
    BY <1>1 DEF Upload, PictureTyped
  <2> HIDE DEF mine
  <2> QED BY <1>1, <2>1, <2>2, PictureQuiet
<1>3. CASE ~exists BY <1>1, <1>3, PictureEnd DEF P!Lock
<1> QED BY <1>2, <1>3

LEMMA PictureDelete ==
  ASSUME PictureInv, NEW r \in Requests, P!Delete(r)
  PROVE  PictureInv'
<1>1. /\ upload[r].at = "delete" /\ holder = r /\ holder' = None /\ upload[r].old = named
      /\ UNCHANGED <<files, drawn, unsure, stray>> /\ stray \in BOOLEAN
  BY DEF P!Delete, PictureInv, PictureTyped, Held
<1>2. CASE exists' = FALSE /\ named' = None /\ P!Goes(r, "drop") BY <1>1, <1>2, PictureUnname
<1>3. CASE P!End(r) /\ UNCHANGED <<exists, named>> BY <1>1, <1>3, PictureEnd
<1> QED BY <1>2, <1>3 DEF P!Delete

(* A file goes that its request referred to and that is nobody else's. *)
LEMMA PictureDrop ==
  ASSUME PictureInv, NEW r \in Requests, P!End(r), NEW STATE f, f \in Names \cup {None}, P!Drop(f),
         UNCHANGED <<named, exists, drawn, holder, unsure, stray>>,
         \/ upload[r].at = "undo" /\ f = upload[r].new
         \/ upload[r].at = "drop" /\ f = upload[r].old
  PROVE  PictureInv'
<1> USE PictureAssumption
<1>1. /\ PictureTyped /\ upload[r] \in Upload /\ files' = files \ {f}
      /\ drawn' \in 1 .. MaxFiles /\ drawn <= drawn' /\ Names' = Names
  BY DEF PictureInv, PictureTyped, Names, P!Drop
<1> DEFINE mine == P!Idle
<1>2. /\ mine \in Upload' /\ mine.at = "idle" /\ mine.old = None /\ mine.new = None
      /\ upload' = [upload EXCEPT ![r] = mine]
  BY <1>1 DEF Upload, P!Idle, P!End
<1> HIDE DEF mine
<1>3. /\ upload' \in [Requests -> Upload'] /\ upload'[r] = mine
      /\ \A q \in Requests \ {r} : upload'[q] = upload[q]
  BY <1>1, <1>2, UploadStep
<1>4. PictureTyped' BY <1>1, <1>3 DEF PictureTyped
<1>5. Held' BY <1>2, <1>3 DEF PictureInv, Held
<1> SUFFICES ASSUME ~unsure
             PROVE  /\ Fresh' /\ Saved' /\ Replaced' /\ (named # None => named \in files)'
                    /\ (~stray' => Accounted')
  BY <1>4, <1>5 DEF PictureInv
<1>6. Fresh /\ Saved /\ Replaced /\ (named # None => named \in files) /\ (~stray => Accounted)
  BY DEF PictureInv
<1>7. Fresh' BY <1>2, <1>3, <1>6 DEF Fresh, Pending
<1>8. Replaced' BY <1>2, <1>3, <1>6 DEF Replaced
<1>9. named # None => f # named BY <1>6 DEF Fresh, Replaced, Pending
<1>10. \A q \in Requests \ {r} : upload[q].at = "commit" => upload[q].new # f
  BY <1>6 DEF Fresh, Pending
<1>11. Saved' BY <1>1, <1>2, <1>3, <1>6, <1>10 DEF Saved
<1>12. Accounted => Accounted'
  <2> SUFFICES ASSUME Accounted, NEW g \in files'
               PROVE  g = named \/ \E q \in Requests : Refers(q, g)'
    BY DEF Accounted
  <2>1. g \in files /\ g # f BY <1>1
  <2>2. CASE \E q \in Requests : Refers(q, g)
    <3>1. PICK q \in Requests : Refers(q, g) BY <2>2
    <3>2. q # r BY <2>1, <3>1 DEF Refers, Pending
    <3> QED BY <1>3, <3>1, <3>2 DEF Refers, Pending
  <2> QED BY <2>1, <2>2 DEF Accounted
<1> QED BY <1>1, <1>6, <1>7, <1>8, <1>9, <1>11, <1>12

LEMMA PictureCrash ==
  ASSUME PictureInv, NEW r \in Requests, P!Crash(r)
  PROVE  PictureInv'
<1> USE PictureAssumption
<1>1. /\ PictureTyped /\ stray' = TRUE /\ UNCHANGED <<named, exists, files, drawn, unsure>>
      /\ holder' = IF holder = r THEN None ELSE holder
      /\ drawn' \in 1 .. MaxFiles /\ drawn <= drawn' /\ Names' = Names
  BY DEF P!Crash, PictureInv, PictureTyped, Names
<1> DEFINE mine == P!Idle
<1>2. /\ mine \in Upload' /\ mine.at = "idle" /\ mine.old = None /\ mine.new = None
      /\ upload' = [upload EXCEPT ![r] = mine]
  BY <1>1 DEF Upload, P!Idle, P!Crash, P!End
<1> HIDE DEF mine
<1>3. /\ upload' \in [Requests -> Upload'] /\ upload'[r] = mine
      /\ \A q \in Requests \ {r} : upload'[q] = upload[q]
  BY <1>1, <1>2, UploadStep
<1>4. PictureTyped' BY <1>1, <1>3 DEF PictureTyped
<1>5. Held' BY <1>1, <1>2, <1>3 DEF PictureInv, Held
<1>6. Fresh => Fresh' BY <1>1, <1>2, <1>3 DEF Fresh, Pending
<1>7. Saved => Saved' BY <1>1, <1>2, <1>3 DEF Saved
<1>8. Replaced => Replaced' BY <1>1, <1>2, <1>3 DEF Replaced
<1> QED BY <1>1, <1>4, <1>5, <1>6, <1>7, <1>8 DEF PictureInv

LEMMA PictureNext ==
  ASSUME PictureInv, P!Next
  PROVE  PictureInv'
<1>1. PICK r \in Requests :
        \/ P!Begin(r) \/ P!Crash(r) \/ P!SaveAvatar(r) \/ P!Commit(r) \/ P!Undo(r) \/ P!Clear(r)
        \/ P!Lock(r) \/ P!Delete(r) \/ P!DropOld(r)
  BY DEF P!Next
<1>2. upload[r].new \in Names \cup {None} /\ upload[r].old \in Names \cup {None}
  BY DEF PictureInv, PictureTyped, Upload
<1>3. CASE P!Undo(r) BY <1>2, <1>3, PictureDrop DEF P!Undo
<1>4. CASE P!DropOld(r) BY <1>2, <1>4, PictureDrop DEF P!DropOld
<1> QED BY <1>1, <1>3, <1>4, PictureBegin, PictureCrash, PictureSave, PictureCommit, PictureClear,
           PictureLock, PictureDelete

LEMMA PictureInit == ASSUME P!Init PROVE PictureInv
<1> USE PictureAssumption
<1>1. upload \in [Requests -> Upload] /\ \A r \in Requests : upload[r].at = "idle"
  BY DEF P!Init, P!Idle, Upload
<1>2. Names = {1} /\ drawn \in 1 .. MaxFiles BY DEF P!Init, Names
<1>3. PictureTyped BY <1>1, <1>2 DEF P!Init, PictureTyped
<1> QED BY <1>1, <1>3 DEF PictureInv, Held, Fresh, Saved, Replaced, Accounted, Pending, P!Init

LEMMA PictureStart == ASSUME Init2 PROVE PictureInv
BY PictureInit DEF Init2, Found2

LEMMA PictureStep ==
  ASSUME PictureInv, [Next2]_all
  PROVE  PictureInv'
<1>1. CASE UNCHANGED face
  BY <1>1 DEF face, PictureInv, PictureTyped, Names, Upload, Held, Fresh, Saved, Replaced,
              Accounted, Refers, Pending
<1>2. CASE P!Next BY <1>2, PictureNext
<1>3. UNCHANGED face \/ P!Next
  BY DEF Next2, all, InSignIn, InAdministration, InTokens, InFlows, InPictures, FlowSignsIn
<1> QED BY <1>1, <1>2, <1>3

(* However uploads, removals and the deletion of the account overlap or are cut off, the *)
(* picture that the row names is there and no other is left behind (PictureIsKept).       *)
THEOREM PictureStays == Spec2 => []PictureIsKept
<1>1. PictureInv => PictureIsKept
  <2> SUFFICES ASSUME PictureInv PROVE P!PictureIsKept BY DEF PictureIsKept
  <2>1. (\A r \in Requests : upload[r].at = "idle") /\ Accounted => files \subseteq {named}
    BY DEF Accounted, Refers, Pending
  <2> QED BY <2>1 DEF PictureInv, P!PictureIsKept
<1> QED BY <1>1, PictureStart, PictureStep, PTL DEF Spec2

-----------------------------------------------------------------------------
(* Who administers the site.  Whoever closes an account holds its row (OwnRow), so of the *)
(* requests that would take a superuser away only a deactivation, which locks nothing, can *)
(* overlap another; without that there is one at a time, and it leaves somebody (OneTakes). *)
Closer == [at : {"idle", "counting", "closed", "deleted", "deactivating", "activating",
                 "assigning", "removing"},
           u : Users \cup {None}, locks : SUBSET Users]

AdminTyped ==
  /\ active \subseteq users /\ users \subseteq Users /\ manager \subseteq users
  /\ adminReq \in [Requests -> Closer] /\ adminRaced \in BOOLEAN

OwnRow == \A r \in Requests : adminReq[r].at \in {"counting", "closed", "deleted"} =>
            adminReq[r].u \in adminReq[r].locks /\ adminReq[r].u \in active

Apart(requests) == \A r \in Requests : \A q \in Requests \ {r} :
                     requests[r].locks \cap requests[q].locks = {}

Takes(r) == adminReq[r].at \in {"closed", "deleted", "deactivating"} /\ adminReq[r].u \in Superusers

OneTakes == \A r \in Requests : Takes(r) =>
  /\ \A q \in Requests \ {r} : ~Takes(q)
  /\ \E s \in A!SuperActive : s # adminReq[r].u

AdminInv == /\ AdminTyped /\ OwnRow /\ Apart(adminReq)
            /\ adminRaced \/ (OneTakes /\ A!SuperActive # {})

(* More than one is one beside any. *)
LEMMA AnotherOne ==
  ASSUME NEW S, Cardinality(S) > 1, NEW u
  PROVE  \E s \in S : s # u
<1> SUFFICES ASSUME \A s \in S : s = u PROVE FALSE OBVIOUS
<1>1. Cardinality({}) = 0 /\ Cardinality({u}) = 1 BY FS_EmptySet, FS_Singleton
<1>2. S = {} \/ S = {u} OBVIOUS
<1>3. ~(0 > 1) /\ ~(1 > 1) OBVIOUS
<1> QED BY <1>1, <1>2, <1>3, Zenon

LEMMA AnotherAdministrator ==
  ASSUME A!Enough, NEW u
  PROVE  \E s \in A!SuperActive : s # u
<1>1. A!Cardinality(A!SuperActive) = Cardinality(A!SuperActive) BY Zenon DEF A!Cardinality, Cardinality
<1>2. Cardinality(A!SuperActive) > 1 BY <1>1 DEF A!Enough
<1> QED BY <1>2, AnotherOne

(* A request that ends, or takes nobody away yet *)
LEMMA AdminQuiet ==
  ASSUME AdminInv, NEW r \in Requests, NEW STATE mine, mine \in Closer,
         adminReq' = [adminReq EXCEPT ![r] = mine],
         ~(mine.at \in {"closed", "deleted", "deactivating"} /\ mine.u \in Superusers),
         mine.at \in {"counting", "closed", "deleted"} => mine.u \in mine.locks /\ mine.u \in active',
         \A q \in Requests \ {r} : adminReq[q].locks \cap mine.locks = {},
         active' \subseteq users', users' \subseteq Users, manager' \subseteq users',
         \A q \in Requests \ {r} : adminReq[q].locks \cap active \subseteq active',
         adminRaced' = adminRaced,
         adminRaced \/ A!SuperActive \subseteq A!SuperActive'
           \/ (Takes(r) /\ A!SuperActive \ {adminReq[r].u} \subseteq A!SuperActive')
  PROVE  AdminInv'
<1>1. /\ adminReq' \in [Requests -> Closer] /\ adminReq'[r] = mine
      /\ \A q \in Requests \ {r} : adminReq'[q] = adminReq[q]
  BY DEF AdminInv, AdminTyped
<1>2. AdminTyped' BY <1>1 DEF AdminInv, AdminTyped
<1>3. OwnRow' BY <1>1 DEF AdminInv, OwnRow
<1>4. Apart(adminReq)' BY <1>1 DEF AdminInv, Apart
<1>5. ASSUME ~adminRaced PROVE OneTakes' /\ A!SuperActive' # {}
  <2>1. OneTakes /\ A!SuperActive # {} BY <1>5 DEF AdminInv
  <2>2. ~Takes(r)' /\ \A q \in Requests \ {r} : Takes(q)' <=> Takes(q) BY <1>1 DEF Takes
  <2>3. CASE A!SuperActive \subseteq A!SuperActive' BY <1>1, <2>1, <2>2, <2>3 DEF OneTakes
  <2>4. CASE Takes(r) /\ A!SuperActive \ {adminReq[r].u} \subseteq A!SuperActive'
    BY <1>1, <2>1, <2>2, <2>4 DEF OneTakes
  <2> QED BY <1>5, <2>3, <2>4
<1> QED BY <1>2, <1>3, <1>4, <1>5 DEF AdminInv

LEMMA AdminEnd ==
  ASSUME AdminInv, NEW r \in Requests, A!End(r), adminRaced' = adminRaced,
         active' \subseteq users', users' \subseteq Users, manager' \subseteq users',
         \A q \in Requests \ {r} : adminReq[q].locks \cap active \subseteq active',
         adminRaced \/ A!SuperActive \subseteq A!SuperActive'
           \/ (Takes(r) /\ A!SuperActive \ {adminReq[r].u} \subseteq A!SuperActive')
  PROVE  AdminInv'
<1> DEFINE mine == A!Idle
<1>1. mine \in Closer /\ mine.at = "idle" /\ mine.locks = {} BY DEF A!Idle, Closer
<1>2. adminReq' = [adminReq EXCEPT ![r] = mine] BY DEF A!End, A!Go
<1> HIDE DEF mine
<1> QED BY <1>1, <1>2, AdminQuiet

LEMMA AdminClose ==
  ASSUME AdminInv, NEW r \in Requests, NEW u \in Users, NEW as \in {"closed", "deleted"},
         A!Close(r, u, as)
  PROVE  AdminInv'
<1> DEFINE mine == [at |-> IF u \in Superusers THEN "counting" ELSE as, u |-> u, locks |-> {u}]
<1>1. /\ mine \in Closer /\ mine.u = u /\ mine.locks = {u}
      /\ mine.at \in {"counting", "closed", "deleted"} /\ (u \in Superusers => mine.at = "counting")
  BY DEF Closer
<1>2. adminReq' = [adminReq EXCEPT ![r] = mine] BY DEF A!Close, A!Go
<1>3. /\ UNCHANGED <<active, users, manager, adminRaced>> /\ u \in active
      /\ \A q \in Requests \ {r} : u \notin adminReq[q].locks
  BY DEF A!Close, A!Free
<1>4. active \subseteq users /\ users \subseteq Users /\ manager \subseteq users BY DEF AdminInv, AdminTyped
<1>5. A!SuperActive' = A!SuperActive BY <1>3 DEF A!SuperActive
<1>6. ~(mine.at \in {"closed", "deleted", "deactivating"} /\ mine.u \in Superusers) BY <1>1
<1>7. /\ mine.u \in mine.locks /\ mine.u \in active'
      /\ \A q \in Requests \ {r} : adminReq[q].locks \cap mine.locks = {}
  BY <1>1, <1>3
<1>8. active' \subseteq users' /\ users' \subseteq Users /\ manager' \subseteq users' BY <1>3, <1>4
<1> HIDE DEF mine
<1> QED BY <1>1, <1>2, <1>3, <1>5, <1>6, <1>7, <1>8, AdminQuiet

(* The request that has locked all superusers is the only one, and leaves one of them. *)
LEMMA AdminCount ==
  ASSUME AdminInv, NEW r \in Requests, NEW as \in {"closed", "deleted"}, A!CountLocked(r, as)
  PROVE  AdminInv'
<1>1. /\ AdminTyped /\ adminReq[r] \in Closer /\ adminReq[r].at = "counting"
      /\ UNCHANGED <<active, users, manager>> /\ A!SuperActive' = A!SuperActive
      /\ \A s \in A!SuperActive : \A q \in Requests \ {r} : s \notin adminReq[q].locks
  BY DEF A!CountLocked, A!At, A!Free, AdminInv, AdminTyped, A!SuperActive
<1>2. CASE A!Enough
  <2> DEFINE mine == [adminReq[r] EXCEPT !.at = as, !.locks = @ \cup A!SuperActive]
  <2>1. adminReq' = [adminReq EXCEPT ![r] = mine] BY <1>2 DEF A!CountLocked, A!Go
  <2>2. A!SuperActive \subseteq Users BY <1>1 DEF A!SuperActive, AdminTyped
  <2>3. /\ mine \in Closer /\ mine.at = as /\ mine.u = adminReq[r].u
        /\ mine.locks = adminReq[r].locks \cup A!SuperActive
    BY <1>1, <2>2 DEF Closer
  <2> HIDE DEF mine
  <2>4. /\ adminReq' \in [Requests -> Closer] /\ adminReq'[r] = mine
        /\ \A q \in Requests \ {r} : adminReq'[q] = adminReq[q]
    BY <1>1, <2>1, <2>3 DEF AdminTyped
  <2>5. adminRaced' = (adminRaced \/ \E q \in A!Others(r) : A!At(q, "deactivating"))
    BY <1>2 DEF A!CountLocked
  <2>6. AdminTyped' BY <1>1, <2>4, <2>5 DEF AdminTyped
  <2>7. OwnRow' BY <1>1, <2>3, <2>4 DEF AdminInv, OwnRow
  <2>8. Apart(adminReq)' BY <1>1, <2>3, <2>4 DEF AdminInv, Apart
  <2>9. ASSUME ~adminRaced' PROVE OneTakes' /\ A!SuperActive' # {}
    <3>1. A!SuperActive # {} BY <1>1, <2>5, <2>9 DEF AdminInv
    <3>2. \A q \in Requests \ {r} : ~Takes(q)
      <4> SUFFICES ASSUME NEW q \in Requests \ {r}, Takes(q) PROVE FALSE OBVIOUS
      <4>1. adminReq[q].at # "deactivating" BY <2>5, <2>9 DEF A!Others, A!At, Takes
      <4>2. adminReq[q].u \in adminReq[q].locks /\ adminReq[q].u \in A!SuperActive
        BY <4>1 DEF AdminInv, OwnRow, Takes, A!SuperActive
      <4> QED BY <1>1, <4>2
    <3>3. \A q \in Requests \ {r} : ~Takes(q)' BY <2>4, <3>2 DEF Takes
    <3>4. \E s \in A!SuperActive : s # adminReq[r].u BY <1>2, AnotherAdministrator
    <3> QED BY <1>1, <2>3, <2>4, <3>1, <3>3, <3>4 DEF OneTakes
  <2> QED BY <2>6, <2>7, <2>8, <2>9 DEF AdminInv
<1>3. CASE ~A!Enough
  <2>1. A!End(r) /\ adminRaced' = adminRaced BY <1>1, <1>3 DEF A!CountLocked, AdminTyped
  <2> QED BY <1>1, <2>1, AdminEnd DEF AdminTyped
<1> QED BY <1>2, <1>3

LEMMA AdminClosed ==
  ASSUME AdminInv, NEW r \in Requests, A!Closed(r)
  PROVE  AdminInv'
<1> DEFINE u == adminReq[r].u
<1>1. /\ AdminTyped /\ adminReq[r].at \in {"closed", "deleted"} /\ A!End(r) /\ adminRaced' = adminRaced
      /\ active' = active \ {u} /\ users' \in {users, users \ {u}} /\ manager' = manager \cap users'
  BY DEF A!Closed, AdminInv
<1>2. u \in adminReq[r].locks BY <1>1 DEF AdminInv, OwnRow
<1>3. \A q \in Requests \ {r} : u \notin adminReq[q].locks BY <1>2 DEF AdminInv, Apart
<1>4. A!SuperActive' = A!SuperActive \ {u} BY <1>1 DEF A!SuperActive
<1>5. u \in Superusers => Takes(r) BY <1>1 DEF Takes
<1>6. u \notin Superusers => A!SuperActive' = A!SuperActive BY <1>4 DEF A!SuperActive
<1>7. active' \subseteq users' /\ users' \subseteq Users /\ manager' \subseteq users'
  BY <1>1 DEF AdminTyped
<1>8. \A q \in Requests \ {r} : adminReq[q].locks \cap active \subseteq active' BY <1>1, <1>3
<1> HIDE DEF u
<1> QED BY <1>1, <1>4, <1>5, <1>6, <1>7, <1>8, AdminEnd DEF u

LEMMA AdminDecide ==
  ASSUME AdminInv, NEW r \in Requests, NEW actor \in Users, NEW u \in Users, NEW what \in A!Decisions,
         A!Decide(r, actor, u, what)
  PROVE  AdminInv'
<1> DEFINE mine == [A!Idle EXCEPT !.at = what, !.u = u]
<1>1. mine \in Closer /\ mine.at = what /\ mine.u = u /\ mine.locks = {}
  BY DEF Closer, A!Idle, A!Decisions
<1>2. adminReq' = [adminReq EXCEPT ![r] = mine] BY DEF A!Decide, A!Go
<1>3. /\ AdminTyped /\ UNCHANGED <<active, users, manager>> /\ A!SuperActive' = A!SuperActive
      /\ adminRaced' = (adminRaced \/ (what = "deactivating" /\ u \in Superusers /\ A!Others(r) # {}))
  BY DEF A!Decide, AdminInv, A!SuperActive
<1> HIDE DEF mine
<1>4. CASE what = "deactivating" /\ u \in Superusers
  <2>1. /\ adminReq' \in [Requests -> Closer] /\ adminReq'[r] = mine
        /\ \A q \in Requests \ {r} : adminReq'[q] = adminReq[q]
    BY <1>1, <1>2, <1>3 DEF AdminTyped
  <2>2. AdminTyped' BY <1>3, <2>1 DEF AdminTyped
  <2>3. OwnRow' BY <1>1, <1>3, <1>4, <2>1 DEF AdminInv, OwnRow
  <2>4. Apart(adminReq)' BY <1>1, <2>1 DEF AdminInv, Apart
  <2>5. ASSUME ~adminRaced' PROVE OneTakes' /\ A!SuperActive' # {}
    <3>1. A!Others(r) = {} /\ A!SuperActive # {} BY <1>3, <1>4, <2>5 DEF AdminInv
    <3>2. \A q \in Requests \ {r} : ~Takes(q)' BY <2>1, <3>1 DEF Takes, A!Others
    <3>3. A!Enough BY <1>4 DEF A!Decide, A!Refused
    <3>4. \E s \in A!SuperActive : s # u BY <3>3, AnotherAdministrator
    <3> QED BY <1>1, <1>3, <2>1, <3>1, <3>2, <3>4 DEF OneTakes
  <2> QED BY <2>2, <2>3, <2>4, <2>5 DEF AdminInv
<1>5. CASE ~(what = "deactivating" /\ u \in Superusers)
  <2>1. what \notin {"counting", "closed", "deleted"} BY DEF A!Decisions
  <2>2. adminRaced' = adminRaced BY <1>3, <1>5 DEF AdminTyped
  <2>3. active' \subseteq users' /\ users' \subseteq Users /\ manager' \subseteq users' BY <1>3 DEF AdminTyped
  <2> QED BY <1>1, <1>2, <1>3, <1>5, <2>1, <2>2, <2>3, AdminQuiet
<1> QED BY <1>4, <1>5

LEMMA AdminCommit ==
  ASSUME AdminInv, NEW r \in Requests, A!Commit(r)
  PROVE  AdminInv'
<1> DEFINE u == adminReq[r].u
<1>1. /\ AdminTyped /\ A!End(r) /\ adminRaced' = adminRaced /\ users' = users
      /\ \A q \in Requests \ {r} : u \notin adminReq[q].locks
  BY DEF A!Commit, A!Free, AdminInv
<1>2. manager' \subseteq users' BY <1>1 DEF A!Commit, AdminTyped
<1>3. CASE adminReq[r].at = "deactivating" /\ u \in users
  <2>1. active' = active \ {u} BY <1>3 DEF A!Commit, A!At
  <2>2. A!SuperActive' = A!SuperActive \ {u} BY <2>1 DEF A!SuperActive
  <2>3. u \in Superusers => Takes(r) BY <1>3 DEF Takes
  <2>4. u \notin Superusers => A!SuperActive' = A!SuperActive BY <2>2 DEF A!SuperActive
  <2>5. active' \subseteq users' /\ users' \subseteq Users BY <1>1, <2>1 DEF AdminTyped
  <2>6. \A q \in Requests \ {r} : adminReq[q].locks \cap active \subseteq active' BY <1>1, <2>1
  <2> HIDE DEF u
  <2> QED BY <1>1, <1>2, <2>2, <2>3, <2>4, <2>5, <2>6, AdminEnd DEF u
<1>4. CASE ~(adminReq[r].at = "deactivating" /\ u \in users)
  <2>1. active' \in {active, active \cup {u}} /\ (u \notin users => active' = active)
    BY <1>4 DEF A!Commit, A!At
  <2>2. active' \subseteq users' /\ users' \subseteq Users BY <1>1, <2>1 DEF AdminTyped
  <2>3. A!SuperActive \subseteq A!SuperActive' BY <2>1 DEF A!SuperActive
  <2>4. \A q \in Requests \ {r} : adminReq[q].locks \cap active \subseteq active' BY <2>1
  <2> QED BY <1>1, <1>2, <2>2, <2>3, <2>4, AdminEnd
<1> QED BY <1>3, <1>4

LEMMA AdminNext ==
  ASSUME AdminInv, A!Next
  PROVE  AdminInv'
<1>1. PICK r \in Requests : A!SelfService(r) \/ A!Administer(r) \/ A!Rollback(r) BY DEF A!Next
<1>2. CASE A!Rollback(r)
  <2>1. /\ A!End(r) /\ UNCHANGED <<active, users, manager, adminRaced>> /\ AdminTyped
        /\ A!SuperActive' = A!SuperActive
    BY <1>2 DEF A!Rollback, AdminInv, A!SuperActive
  <2> QED BY <2>1, AdminEnd DEF AdminTyped
<1>3. CASE A!SelfService(r) BY <1>3, AdminClose, AdminCount, AdminClosed DEF A!SelfService
<1>4. CASE A!Administer(r) BY <1>4, AdminDecide, AdminCommit DEF A!Administer
<1> QED BY <1>1, <1>2, <1>3, <1>4

(* The other services leave the administrators' requests alone, and only add accounts. *)
LEMMA AdminOthers ==
  ASSUME AdminInv, UNCHANGED theirs, active \subseteq active', users \subseteq users',
         active' \subseteq users', users' \subseteq Users
  PROVE  AdminInv'
<1>1. UNCHANGED <<manager, adminReq, adminRaced>> BY DEF theirs
<1>2. A!SuperActive \subseteq A!SuperActive' BY DEF A!SuperActive
<1>3. AdminTyped' BY <1>1 DEF AdminInv, AdminTyped
<1>4. OwnRow' /\ Apart(adminReq)' BY <1>1 DEF AdminInv, OwnRow, Apart
<1>5. OneTakes => OneTakes' BY <1>1, <1>2 DEF OneTakes, Takes
<1> QED BY <1>1, <1>2, <1>3, <1>4, <1>5 DEF AdminInv

LEMMA AdminInit == ASSUME Init2 PROVE AdminInv
<1>1. active = users /\ users \subseteq Users /\ Superusers \cap users # {} /\ A!Found
  BY DEF Init2, Installed, Found2
<1>2. A!Idle \in Closer /\ A!Idle.at = "idle" /\ A!Idle.locks = {} BY DEF A!Idle, Closer
<1>3. adminReq = [r \in Requests |-> A!Idle] /\ manager \subseteq users /\ adminRaced = FALSE
  BY <1>1 DEF A!Found
<1>4. AdminTyped /\ OwnRow /\ Apart(adminReq) BY <1>1, <1>2, <1>3 DEF AdminTyped, OwnRow, Apart
<1>5. OneTakes BY <1>2, <1>3 DEF OneTakes, Takes
<1> QED BY <1>1, <1>4, <1>5 DEF AdminInv, A!SuperActive

(* What the other services do to the users' rows *)
LEMMA RowsInTokens ==
  ASSUME active \subseteq users, users \subseteq Users, InTokens(T!Next)
  PROVE  /\ active \subseteq active' /\ users \subseteq users'
         /\ active' \subseteq users' /\ users' \subseteq Users
<1>1. active' \in {active, active \cup {Account}}
  BY DEF InTokens, T!Next, T!Links, T!PostSignup, T!PostCompleteEmail, T!PostVerifyEmail,
         T!PostForgotPassword, T!PostResetPassword, T!Signup, T!Complete, T!SetEmail, T!Resend,
         T!SendConfirmation, T!TakeConfirmation, T!LockUser, T!Confirm, T!Forgot, T!InvalidateOpen,
         T!SendReset, T!TakeReset, T!SetPassword, T!Lapse, T!Rollback, T!account
<1> QED BY <1>1, UserAssumption DEF InTokens

LEMMA RowsInFlows ==
  ASSUME active \subseteq users, users \subseteq Users, Flow \/ F!Time
  PROVE  /\ active \subseteq active' /\ users \subseteq users'
         /\ active' \subseteq users' /\ users' \subseteq Users
<1>1. UNCHANGED <<users, active>> \/ \E r \in Requests : F!Created(r)
  BY DEF Flow, F!Time, F!Start, F!Return, F!Rollback, F!OAuthStart, F!MastodonStart, F!LockApp, F!Register,
         F!RegisterFails, F!KeepApp, F!NewGrant, F!Callback, F!Exchange, F!Fail, F!Link, F!Linked,
         F!Known, F!NewUser
<1> QED BY <1>1 DEF F!Created

(* A sign-in changes neither who there is nor who is active. *)
LEMMA RowsInSignIn ==
  ASSUME (\E r \in Requests : Auth(r)) \/ Lapse \/ Tick
  PROVE  UNCHANGED active
<1>1. CASE Lapse \/ Tick BY <1>1 DEF Lapse, Tick, ways
<1>2. ASSUME NEW r \in Requests, Auth(r) PROVE UNCHANGED active
  <2>1. CASE PostLogin(r) \/ PostMfaVerify(r) \/ Rollback(r)
    BY <2>1 DEF PostLogin, PostMfaVerify, Rollback, Begin, LockUser, Invalidate, Invite, Issue,
                TakeChallenge, Spoil, LockMethod, Accept, Reject, ways
  <2>2. CASE PostMfaPasskey(r) \/ PostPasskeyLogin(r) \/ PostPasskeyReauth(r) \/ PostPasskeyRegistration(r)
    BY <2>2 DEF PostMfaPasskey, PostPasskeyLogin, PostPasskeyReauth, PostPasskeyRegistration, Options,
                TakeChallenge, Present, PresentMfa, TakeCeremony, TakeKey, AcceptKey, AddKey, ways
  <2>3. CASE PostTotpSetup(r) \/ PostTotpConfirm(r) \/ PostRecoveryCodes(r) \/ DeleteTotp(r)
    BY <2>3 DEF PostTotpSetup, PostTotpConfirm, PostRecoveryCodes, DeleteTotp, StartSetup, DrawSecret,
                Confirm, Enable, Sensitive, Regenerate, Disable, ways
  <2>4. CASE DeletePasskey(r) \/ DeleteOAuth(r)
    BY <2>4 DEF DeletePasskey, DeleteOAuth, RemoveKey, DeleteKey, Unlink, DeleteLink, ways
  <2> QED BY <1>2, <2>1, <2>2, <2>3, <2>4 DEF Auth
<1> QED BY <1>1, <1>2

LEMMA AdminStep ==
  ASSUME AdminInv, [Next2]_all
  PROVE  AdminInv'
<1>1. active \subseteq users /\ users \subseteq Users BY DEF AdminInv, AdminTyped
<1>2. CASE InAdministration(A!Next) BY <1>2, AdminNext DEF InAdministration
<1>3. CASE InTokens(T!Next)
  <2>1. UNCHANGED theirs BY <1>3 DEF InTokens
  <2> QED BY <1>1, <1>3, <2>1, RowsInTokens, AdminOthers
<1>4. CASE InFlows(Flow \/ F!Time)
  <2>1. UNCHANGED theirs BY <1>4 DEF InFlows
  <2> QED BY <1>1, <1>4, <2>1, RowsInFlows, AdminOthers DEF InFlows
<1>5. CASE InSignIn((\E r \in Requests : Auth(r)) \/ Lapse \/ Tick)
  <2>1. UNCHANGED <<active, users>> /\ UNCHANGED theirs BY <1>5, RowsInSignIn DEF InSignIn
  <2> QED BY <1>1, <2>1, AdminOthers
<1>6. CASE InPictures(P!Next) \/ FlowSignsIn \/ UNCHANGED all
  <2>1. UNCHANGED <<active, users>> /\ UNCHANGED theirs
    BY <1>6 DEF InPictures, FlowSignsIn, F!SignedIn, all, ways
  <2> QED BY <1>1, <2>1, AdminOthers
<1> QED BY <1>2, <1>3, <1>4, <1>5, <1>6 DEF Next2

(* Whoever closes or deactivates accounts at the same time, a superuser remains who is active, *)
(* unless a deactivation had counted while another superuser's removal was under way           *)
(* (LastAdministratorStays): for any number of superusers and requests.                        *)
THEOREM AdministratorsStay == Spec2 => []LastAdministratorStays
<1>1. AdminInv => LastAdministratorStays
  BY DEF AdminInv, LastAdministratorStays, A!LastAdministratorStays
<1> QED BY <1>1, AdminInit, AdminStep, PTL DEF Spec2

-----------------------------------------------------------------------------
(* Signing in.  What a request has read about the rows it holds is still true (Good), for *)
(* nobody else may write them (Respects); what completes an action is therefore not yet    *)
(* used (SpentOnce), of an account's challenges one is live (OneLive), and an enabled      *)
(* authenticator is one that was shown (Shown).                                            *)
Asker == [at : {"idle", "issuing", "challenging", "user", "invalidated", "challenge", "factor", "ceremony",
                "key", "setup", "confirming", "sensitive", "removing", "unlinking"},
          way : {"none", "code", "mfa", "login", "reauth", "register", "regenerate", "disable"},
          c : Challenges \cup {None}, y : Ceremonies \cup {None},
          f : Otps \cup Codes \cup Keys \cup Identities \cup {None},
          seen : Authenticator \cup {None},
          locks : SUBSET ({"user", "method"} \cup Challenges \cup Ceremonies \cup Keys)]

Good(me) ==
  /\ me.at \in {"challenge", "factor"} => me.c # None
  /\ me.at \in {"challenge", "factor", "ceremony", "key"} /\ me.c # None => me.c \in me.locks \cap Live
  /\ me.at \in {"ceremony", "key"} => me.f \in Keys /\ me.y \in me.locks \cap Open(ceremony)
  /\ me.at = "factor" \/ (me.at = "challenge" /\ me.way = "code") => challenge[me.c].guesses < MaxGuesses
  /\ me.at \in {"factor", "sensitive"} => "method" \in me.locks /\ Enabled /\ me.seen = method
  /\ me.at = "confirming" => /\ "method" \in me.locks /\ method # None /\ ~method.enabled
                             /\ me.f \in Otps /\ me.f[1] = method.secret
  /\ me.at = "user" => me.locks = {"user"}
  /\ me.at = "invalidated" => me.locks = {"user"} \cup Live
  /\ me.at = "setup" => "user" \in me.locks /\ ~Enabled

Respects(me) ==
  /\ \A c \in me.locks \cap Live : c \in Live' /\ challenge'[c].guesses = challenge[c].guesses
  /\ me.locks \cap Open(ceremony) \subseteq Open(ceremony)'
  /\ "method" \in me.locks /\ method # None =>
       \/ method' = method
       \/ method' # None /\ ~method.enabled /\ ~method'.enabled /\ method'.secret = method.secret
  /\ "user" \in me.locks => Live' \subseteq Live /\ (Enabled' => Enabled)

Askers == req \in [Requests -> Asker] /\ Apart(req) /\ \A r \in Requests : Good(req[r])

SpentOnce ==
  /\ again = {} /\ used \subseteq Challenges \cup Ceremonies \cup Codes \cup Otps
  /\ \A c \in used \cap Challenges : challenge[c] # None /\ challenge[c].state = "used"
  /\ \A y \in used \cap Ceremonies : ceremony[y] # None /\ ceremony[y].state = "used"
  /\ codes \cap used = {} /\ used \cap Codes \subseteq issued
  /\ \A f \in used \cap Otps : /\ f[1] <= secrets
                               /\ method # None /\ f[1] = method.secret => f[2] <= method.last

OneLive == \A c, d \in Live : c = d
Shown   == method # None => IF method.enabled THEN method.secret \in confirmed ELSE method.last = 0

SignInInv == TypeOK /\ Askers /\ SpentOnce /\ OneLive /\ Shown

(* None is no row, and the kinds of rows are apart. *)
LEMMA NoRow ==
  /\ None \notin Challenges /\ None \notin Ceremonies /\ None \notin Codes
  /\ None \notin Flags /\ None \notin Ceremony /\ None \notin Authenticator
  /\ None \notin Keys
BY NoneAssumption

(* What a request has read stays true while nobody writes what it holds. *)
LEMMA GoodKept ==
  ASSUME SignInInv, NEW q \in Requests, req'[q] = req[q], Respects(req[q])
  PROVE  Good(req[q])'
<1>1. req'[q] = req[q] /\ Good(req[q]) /\ Respects(req[q]) /\ req[q] \in Asker
  BY DEF SignInInv, Askers
<1> DEFINE me == req[q]
<1>2. /\ \A c \in me.locks \cap Live : c \in Live' /\ challenge'[c].guesses = challenge[c].guesses
      /\ me.locks \cap Open(ceremony) \subseteq Open(ceremony)'
      /\ "user" \in me.locks => Live' \subseteq Live /\ (Enabled' => Enabled)
  BY <1>1 DEF Respects
<1>3. "method" \in me.locks /\ method # None =>
       \/ method' = method
       \/ method' # None /\ ~method.enabled /\ ~method'.enabled /\ method'.secret = method.secret
  BY <1>1 DEF Respects
<1>4. /\ me.at \in {"challenge", "factor"} => me.c # None
      /\ me.at \in {"challenge", "factor", "ceremony", "key"} /\ me.c # None => me.c \in me.locks \cap Live
      /\ me.at \in {"ceremony", "key"} => me.f \in Keys /\ me.y \in me.locks \cap Open(ceremony)
      /\ me.at = "factor" \/ (me.at = "challenge" /\ me.way = "code") => challenge[me.c].guesses < MaxGuesses
  BY <1>1 DEF Good
<1>5. /\ me.at \in {"factor", "sensitive"} => "method" \in me.locks /\ Enabled /\ me.seen = method
      /\ me.at = "confirming" => /\ "method" \in me.locks /\ method # None /\ ~method.enabled
                                 /\ me.f \in Otps /\ me.f[1] = method.secret
      /\ me.at = "user" => me.locks = {"user"}
      /\ me.at = "invalidated" => me.locks = {"user"} \cup Live
      /\ me.at = "setup" => "user" \in me.locks /\ ~Enabled
  BY <1>1 DEF Good
<1> HIDE DEF me
<1>6. /\ me.at \in {"challenge", "factor", "ceremony", "key"} /\ me.c # None => me.c \in me.locks \cap Live'
      /\ me.at \in {"ceremony", "key"} => me.f \in Keys /\ me.y \in me.locks \cap Open(ceremony)'
      /\ me.at = "factor" \/ (me.at = "challenge" /\ me.way = "code") => challenge'[me.c].guesses < MaxGuesses
  BY <1>2, <1>4
<1>7. /\ me.at \in {"factor", "sensitive"} => "method" \in me.locks /\ Enabled' /\ me.seen = method'
      /\ me.at = "confirming" => /\ "method" \in me.locks /\ method' # None /\ ~method'.enabled
                                 /\ me.f \in Otps /\ me.f[1] = method'.secret
  BY <1>3, <1>5 DEF Enabled
<1>8. /\ me.at = "invalidated" => me.locks = {"user"} \cup Live'
      /\ me.at = "setup" => "user" \in me.locks /\ ~Enabled'
  BY <1>2, <1>5
<1> QED BY <1>1, <1>4, <1>5, <1>6, <1>7, <1>8 DEF Good, me

(* A step of one request that respects what the others hold *)
LEMMA AskStep ==
  ASSUME SignInInv, NEW r \in Requests, NEW STATE mine, mine \in Asker,
         req' = [req EXCEPT ![r] = mine],
         \A q \in Requests \ {r} : req[q].locks \cap mine.locks = {},
         \A q \in Requests \ {r} : Respects(req[q])
  PROVE  /\ req' \in [Requests -> Asker] /\ req'[r] = mine /\ Apart(req)'
         /\ \A q \in Requests \ {r} : req'[q] = req[q]
         /\ Good(req[r])' => Askers'
<1>1. /\ req' \in [Requests -> Asker] /\ req'[r] = mine
      /\ \A q \in Requests \ {r} : req'[q] = req[q]
  BY DEF SignInInv, Askers
<1>2. Apart(req)' BY <1>1 DEF SignInInv, Askers, Apart
<1>3. \A q \in Requests \ {r} : Good(req[q])' BY <1>1, GoodKept
<1> QED BY <1>1, <1>2, <1>3 DEF Askers

(* A step that only moves its request *)
LEMMA AskQuiet ==
  ASSUME SignInInv, NEW r \in Requests, NEW STATE mine, mine \in Asker,
         req' = [req EXCEPT ![r] = mine],
         \A q \in Requests \ {r} : req[q].locks \cap mine.locks = {},
         UNCHANGED <<factors, rows, history>>, keys' \subseteq Keys, clock' \in 1 .. MaxStep,
         Good(mine)
  PROVE  SignInInv'
<1>1. UNCHANGED <<method, codes, issued, secrets, confirmed, challenge, ceremony, used, again>>
  BY DEF factors, rows, history
<1>2. Live' = Live /\ Open(ceremony)' = Open(ceremony) /\ Enabled' = Enabled
  BY <1>1 DEF Live, Open, Enabled
<1>3. \A q \in Requests \ {r} : Respects(req[q]) BY <1>1, <1>2 DEF Respects
<1>4. req'[r] = mine /\ (Good(req[r])' => Askers') BY <1>3, AskStep
<1>5. Good(req[r])' BY <1>1, <1>2, <1>4 DEF Good
<1>6. TypeOK' BY <1>1 DEF SignInInv, TypeOK
<1>7. SpentOnce' /\ OneLive' /\ Shown' BY <1>1, <1>2 DEF SignInInv, SpentOnce, OneLive, Shown
<1> QED BY <1>4, <1>5, <1>6, <1>7 DEF SignInInv

LEMMA AskEnd ==
  ASSUME SignInInv, NEW r \in Requests, End(r),
         UNCHANGED <<factors, rows, history>>, keys' \subseteq Keys, clock' \in 1 .. MaxStep
  PROVE  SignInInv'
<1> DEFINE mine == Idle
<1>1. mine \in Asker /\ mine.at = "idle" /\ mine.locks = {} BY DEF Idle, Asker
<1>2. req' = [req EXCEPT ![r] = mine] BY DEF End, Go
<1> HIDE DEF mine
<1>3. Good(mine) BY <1>1 DEF Good
<1> QED BY <1>1, <1>2, <1>3, AskQuiet

LEMMA KeysAndClock == ASSUME SignInInv PROVE keys \subseteq Keys /\ clock \in 1 .. MaxStep
BY DEF SignInInv, TypeOK

LEMMA AskBegin ==
  ASSUME SignInInv, NEW r \in Requests, Begin(r)
  PROVE  SignInInv'
<1> DEFINE mine == [Idle EXCEPT !.at = IF Methods = {} THEN "issuing" ELSE "challenging"]
<1>1. mine \in Asker /\ mine.at \in {"issuing", "challenging"} /\ mine.locks = {} BY DEF Idle, Asker
<1>2. req' = [req EXCEPT ![r] = mine] /\ UNCHANGED <<factors, rows, history, keys, clock>>
  BY DEF Begin, Go, ways
<1> HIDE DEF mine
<1>3. Good(mine) BY <1>1 DEF Good
<1> QED BY <1>1, <1>2, <1>3, AskQuiet, KeysAndClock

LEMMA AskLockUser ==
  ASSUME SignInInv, NEW r \in Requests, LockUser(r)
  PROVE  SignInInv'
<1> DEFINE mine == [Idle EXCEPT !.at = "user", !.locks = {"user"}]
<1>1. mine \in Asker /\ mine.at = "user" /\ mine.locks = {"user"} BY DEF Idle, Asker
<1>2. /\ req' = [req EXCEPT ![r] = mine] /\ UNCHANGED <<factors, rows, history, keys, clock>>
      /\ \A q \in Requests \ {r} : "user" \notin req[q].locks
  BY DEF LockUser, Go, ways, Free
<1> HIDE DEF mine
<1>3. Good(mine) BY <1>1 DEF Good
<1>4. \A q \in Requests \ {r} : req[q].locks \cap mine.locks = {} BY <1>1, <1>2
<1> QED BY <1>1, <1>2, <1>3, <1>4, AskQuiet, KeysAndClock

LEMMA AskInvalidate ==
  ASSUME SignInInv, NEW r \in Requests, Invalidate(r)
  PROVE  SignInInv'
<1> DEFINE mine == [req[r] EXCEPT !.at = "invalidated", !.locks = @ \cup Live]
<1>1. /\ req[r] \in Asker /\ req[r].at = "user" /\ Good(req[r]) /\ Live \subseteq Challenges
      /\ \A q \in Requests \ {r} : req[q].locks \cap req[r].locks = {}
      /\ \A q \in Requests \ {r} : Live \cap req[q].locks = {}
  BY DEF SignInInv, Askers, Apart, Invalidate, At, Free, TypeOK, Live, Open
<1>2. mine \in Asker /\ mine.at = "invalidated" /\ mine.locks = req[r].locks \cup Live BY <1>1 DEF Asker
<1>3. /\ req' = [req EXCEPT ![r] = mine] /\ UNCHANGED <<factors, rows, history, keys, clock>>
  BY DEF Invalidate, Go, ways
<1> HIDE DEF mine
<1>4. Good(mine) BY <1>1, <1>2 DEF Good
<1>5. \A q \in Requests \ {r} : req[q].locks \cap mine.locks = {} BY <1>1, <1>2
<1> QED BY <1>2, <1>3, <1>4, <1>5, AskQuiet, KeysAndClock

LEMMA AskTakeChallenge ==
  ASSUME SignInInv, NEW r \in Requests, NEW c \in Challenges, NEW way \in {"code", "mfa"},
         NEW f \in Otps \cup Codes \cup {None}, TakeChallenge(r, c, way, f),
         way = "code" => challenge[c].guesses < MaxGuesses
  PROVE  SignInInv'
<1> DEFINE mine == [Idle EXCEPT !.at = "challenge", !.way = way, !.c = c, !.f = f, !.locks = {c}]
<1>1. /\ mine \in Asker /\ mine.at = "challenge" /\ mine.way = way /\ mine.c = c /\ mine.locks = {c}
  BY DEF Idle, Asker
<1>2. /\ req' = [req EXCEPT ![r] = mine] /\ UNCHANGED <<factors, rows, history, keys, clock>>
      /\ c \in Live /\ \A q \in Requests \ {r} : c \notin req[q].locks
  BY DEF TakeChallenge, Go, ways, Free
<1> HIDE DEF mine
<1>3. Good(mine) BY <1>1, <1>2, NoRow DEF Good
<1>4. \A q \in Requests \ {r} : req[q].locks \cap mine.locks = {} BY <1>1, <1>2
<1> QED BY <1>1, <1>2, <1>3, <1>4, AskQuiet, KeysAndClock

LEMMA AskTakeCeremony ==
  ASSUME SignInInv, NEW r \in Requests, NEW STATE me, me \in Asker, NEW y \in Ceremonies, NEW k \in Keys,
         y \in Open(ceremony), Free(y, r), Go(r, [me EXCEPT !.at = "ceremony", !.y = y, !.f = k, !.locks = @ \cup {y}]),
         \A q \in Requests \ {r} : req[q].locks \cap me.locks = {},
         me.c # None => me.c \in me.locks \cap Live,
         UNCHANGED <<factors, rows, history, keys, clock>>
  PROVE  SignInInv'
<1> DEFINE mine == [me EXCEPT !.at = "ceremony", !.y = y, !.f = k, !.locks = @ \cup {y}]
<1>1. /\ mine \in Asker /\ mine.at = "ceremony" /\ mine.c = me.c /\ mine.y = y /\ mine.f = k
      /\ mine.locks = me.locks \cup {y}
  BY DEF Asker
<1>2. /\ req' = [req EXCEPT ![r] = mine] /\ \A q \in Requests \ {r} : y \notin req[q].locks
  BY DEF Go, Free
<1> HIDE DEF mine
<1>3. Good(mine) BY <1>1 DEF Good
<1>4. \A q \in Requests \ {r} : req[q].locks \cap mine.locks = {} BY <1>1, <1>2
<1> QED BY <1>1, <1>2, <1>3, <1>4, AskQuiet, KeysAndClock

LEMMA AskTakeKey ==
  ASSUME SignInInv, NEW r \in Requests, TakeKey(r)
  PROVE  SignInInv'
<1>1. /\ req[r] \in Asker /\ req[r].at = "ceremony" /\ Good(req[r])
      /\ \A q \in Requests \ {r} : req[q].locks \cap req[r].locks = {}
      /\ \A q \in Requests \ {r} : req[r].f \notin req[q].locks
      /\ UNCHANGED <<factors, rows, history, keys, clock>>
  BY DEF SignInInv, Askers, Apart, TakeKey, At, Free, ways
<1>2. CASE End(r) BY <1>1, <1>2, AskEnd, KeysAndClock
<1>3. CASE req[r].f \in keys /\ Go(r, [req[r] EXCEPT !.at = "key", !.locks = @ \cup {req[r].f}])
  <2> DEFINE mine == [req[r] EXCEPT !.at = "key", !.locks = @ \cup {req[r].f}]
  <2>1. req[r].f \in Keys BY <1>3, KeysAndClock
  <2>2. /\ mine \in Asker /\ mine.at = "key" /\ mine.c = req[r].c /\ mine.y = req[r].y /\ mine.f = req[r].f
        /\ mine.locks = req[r].locks \cup {req[r].f}
    BY <1>1, <2>1 DEF Asker
  <2>3. req' = [req EXCEPT ![r] = mine] BY <1>3 DEF Go
  <2> HIDE DEF mine
  <2>4. Good(mine) BY <1>1, <2>2 DEF Good
  <2>5. \A q \in Requests \ {r} : req[q].locks \cap mine.locks = {} BY <1>1, <2>2
  <2> QED BY <1>1, <2>2, <2>3, <2>4, <2>5, AskQuiet, KeysAndClock
<1> QED BY <1>2, <1>3 DEF TakeKey

LEMMA AskStartSetup ==
  ASSUME SignInInv, NEW r \in Requests, StartSetup(r)
  PROVE  SignInInv'
<1> DEFINE mine == [Idle EXCEPT !.at = "setup", !.locks = {"user"}]
<1>1. mine \in Asker /\ mine.at = "setup" /\ mine.locks = {"user"} BY DEF Idle, Asker
<1>2. /\ req' = [req EXCEPT ![r] = mine] /\ UNCHANGED <<factors, rows, history, keys, clock>>
      /\ ~Enabled /\ \A q \in Requests \ {r} : "user" \notin req[q].locks
  BY DEF StartSetup, Go, ways, Free
<1> HIDE DEF mine
<1>3. Good(mine) BY <1>1, <1>2 DEF Good
<1>4. \A q \in Requests \ {r} : req[q].locks \cap mine.locks = {} BY <1>1, <1>2
<1> QED BY <1>1, <1>2, <1>3, <1>4, AskQuiet, KeysAndClock

(* Whoever proves a second factor holds the authenticator's row as it read it. *)
LEMMA AskFactor ==
  ASSUME SignInInv, NEW r \in Requests, NEW STATE mine, mine \in Asker, Go(r, mine),
         mine.at \in {"factor", "sensitive"}, Enabled,
         mine.seen = method,
         mine.at = "factor" => mine.c \in mine.locks \cap Live /\ challenge[mine.c].guesses < MaxGuesses,
         mine.locks \in {{"method"}, req[r].locks \cup {"method"}}, Free("method", r),
         UNCHANGED <<factors, rows, history, keys, clock>>
  PROVE  SignInInv'
<1>1. /\ req' = [req EXCEPT ![r] = mine] /\ "method" \in mine.locks
      /\ \A q \in Requests \ {r} : req[q].locks \cap req[r].locks = {}
      /\ \A q \in Requests \ {r} : "method" \notin req[q].locks
  BY DEF SignInInv, Askers, Apart, Free, Go
<1>2. \A q \in Requests \ {r} : req[q].locks \cap mine.locks = {} BY <1>1
<1>3. mine.at = "factor" => mine.c # None BY NoRow DEF Live, Open, SignInInv, TypeOK
<1>4. Good(mine) BY <1>1, <1>3 DEF Good
<1> QED BY <1>1, <1>2, <1>4, AskQuiet, KeysAndClock

LEMMA AskConfirm ==
  ASSUME SignInInv, NEW r \in Requests, NEW f \in Otps, Confirm(r, f)
  PROVE  SignInInv'
<1> DEFINE mine == [Idle EXCEPT !.at = "confirming", !.f = f, !.seen = method, !.locks = {"method"}]
<1>1. method # None /\ ~method.enabled /\ f[1] = method.secret /\ method \in Authenticator
  BY DEF Confirm, SignInInv, TypeOK
<1>2. /\ mine \in Asker /\ mine.at = "confirming" /\ mine.f = f /\ mine.seen = method
      /\ mine.locks = {"method"}
  BY <1>1 DEF Idle, Asker
<1>3. /\ req' = [req EXCEPT ![r] = mine] /\ UNCHANGED <<factors, rows, history, keys, clock>>
      /\ \A q \in Requests \ {r} : "method" \notin req[q].locks
  BY DEF Confirm, Go, Free, ways
<1> HIDE DEF mine
<1>4. Good(mine) BY <1>1, <1>2 DEF Good
<1>5. \A q \in Requests \ {r} : req[q].locks \cap mine.locks = {} BY <1>2, <1>3
<1> QED BY <1>2, <1>3, <1>4, <1>5, AskQuiet, KeysAndClock

LEMMA AskSensitive ==
  ASSUME SignInInv, NEW r \in Requests, NEW f \in Otps \cup Codes \cup {None},
         NEW way \in {"regenerate", "disable"}, Sensitive(r, way, f)
  PROVE  SignInInv'
<1> DEFINE mine == [Idle EXCEPT !.at = "sensitive", !.way = way, !.f = f, !.seen = method,
                                !.locks = {"method"}]
<1>1. Enabled /\ method \in Authenticator BY DEF Sensitive, SignInInv, TypeOK, Enabled
<1>2. /\ mine \in Asker /\ mine.at = "sensitive" /\ mine.seen = method /\ mine.locks = {"method"}
  BY <1>1 DEF Idle, Asker
<1>3. Go(r, mine) /\ Free("method", r) /\ UNCHANGED <<factors, rows, history, keys, clock>> BY DEF Sensitive, ways
<1> HIDE DEF mine
<1> QED BY <1>1, <1>2, <1>3, AskFactor

LEMMA AskRemoveKey ==
  ASSUME SignInInv, NEW r \in Requests, NEW k \in Keys, RemoveKey(r, k)
  PROVE  SignInInv'
<1> DEFINE mine == [Idle EXCEPT !.at = "removing", !.f = k, !.locks = {k}]
<1>1. mine \in Asker /\ mine.at = "removing" /\ mine.locks = {k} BY DEF Idle, Asker
<1>2. /\ req' = [req EXCEPT ![r] = mine] /\ UNCHANGED <<factors, rows, history, keys, clock>>
      /\ \A q \in Requests \ {r} : k \notin req[q].locks
  BY DEF RemoveKey, Go, ways, Free
<1> HIDE DEF mine
<1>3. Good(mine) BY <1>1 DEF Good
<1>4. \A q \in Requests \ {r} : req[q].locks \cap mine.locks = {} BY <1>1, <1>2
<1> QED BY <1>1, <1>2, <1>3, <1>4, AskQuiet, KeysAndClock

LEMMA AskUnlink ==
  ASSUME SignInInv, NEW r \in Requests, NEW i \in Identities, Unlink(r, i)
  PROVE  SignInInv'
<1> DEFINE mine == [Idle EXCEPT !.at = "unlinking", !.f = i]
<1>1. mine \in Asker /\ mine.at = "unlinking" /\ mine.locks = {} BY DEF Idle, Asker
<1>2. req' = [req EXCEPT ![r] = mine] /\ UNCHANGED <<factors, rows, history, keys, clock>>
  BY DEF Unlink, Go, ways
<1> HIDE DEF mine
<1>3. Good(mine) BY <1>1 DEF Good
<1> QED BY <1>1, <1>2, <1>3, AskQuiet, KeysAndClock

(* A step that writes rows the others do not hold, and ends its transaction *)
LEMMA AskWrite ==
  ASSUME SignInInv, NEW r \in Requests, NEW STATE mine, mine \in Asker, req' = [req EXCEPT ![r] = mine],
         mine.at \in {"idle", "issuing"}, \A q \in Requests \ {r} : req[q].locks \cap mine.locks = {},
         \A q \in Requests \ {r} : Respects(req[q]),
         TypeOK', SpentOnce', OneLive', Shown'
  PROVE  SignInInv'
<1>1. req'[r] = mine /\ (Good(req[r])' => Askers') BY AskStep
<1>2. Good(req[r])' BY <1>1 DEF Good
<1> QED BY <1>1, <1>2 DEF SignInInv

LEMMA AskWriteEnd ==
  ASSUME SignInInv, NEW r \in Requests, End(r) \/ Go(r, [Idle EXCEPT !.at = "issuing"]) \/ (At(r, "idle") /\ UNCHANGED req),
         \A q \in Requests \ {r} : Respects(req[q]),
         TypeOK', SpentOnce', OneLive', Shown'
  PROVE  SignInInv'
<1>1. CASE At(r, "idle") /\ UNCHANGED req
  <2>1. req[r] \in Asker /\ req' = [req EXCEPT ![r] = req[r]] /\ req[r].at = "idle"
    BY <1>1 DEF SignInInv, Askers, At
  <2>2. \A q \in Requests \ {r} : req[q].locks \cap req[r].locks = {} BY DEF SignInInv, Askers, Apart
  <2> QED BY <2>1, <2>2, AskWrite
<1>2. CASE End(r)
  <2> DEFINE mine == Idle
  <2>1. mine \in Asker /\ mine.at = "idle" /\ mine.locks = {} BY DEF Idle, Asker
  <2>2. req' = [req EXCEPT ![r] = mine] BY <1>2 DEF End, Go
  <2> HIDE DEF mine
  <2>3. \A q \in Requests \ {r} : req[q].locks \cap mine.locks = {} BY <2>1
  <2> QED BY <2>1, <2>2, <2>3, AskWrite
<1>3. CASE Go(r, [Idle EXCEPT !.at = "issuing"])
  <2> DEFINE mine == [Idle EXCEPT !.at = "issuing"]
  <2>1. mine \in Asker /\ mine.at = "issuing" /\ mine.locks = {} BY DEF Idle, Asker
  <2>2. req' = [req EXCEPT ![r] = mine] BY <1>3 DEF Go
  <2> HIDE DEF mine
  <2>3. \A q \in Requests \ {r} : req[q].locks \cap mine.locks = {} BY <2>1
  <2> QED BY <2>1, <2>2, <2>3, AskWrite
<1> QED BY <1>1, <1>2, <1>3

(* What respects the rows another request holds: to leave them as they are, and to leave it *)
(* to the user's row to let new challenges and authenticators come.                          *)
LEMMA Untouched ==
  ASSUME SignInInv, NEW q \in Requests,
         \A c \in req[q].locks \cap Challenges : challenge'[c] = challenge[c], DOMAIN challenge' = Challenges,
         \A y \in req[q].locks \cap Ceremonies : ceremony'[y] = ceremony[y], DOMAIN ceremony' = Ceremonies,
         "method" \in req[q].locks => method' = method,
         "user" \in req[q].locks => Live' \subseteq Live /\ (Enabled' => Enabled)
  PROVE  Respects(req[q])
<1>1. Live \subseteq Challenges /\ Open(ceremony) \subseteq Ceremonies BY DEF Live, Open, SignInInv, TypeOK
<1>2. \A c \in req[q].locks \cap Live : c \in Live' /\ challenge'[c].guesses = challenge[c].guesses
  BY <1>1 DEF Live, Open
<1>3. req[q].locks \cap Open(ceremony) \subseteq Open(ceremony)' BY <1>1 DEF Open
<1> QED BY <1>2, <1>3 DEF Respects

(* One challenge is counted or ends. *)
LEMMA OneRow ==
  ASSUME SignInInv, NEW c \in Live, NEW STATE new, new \in Flags, challenge' = [challenge EXCEPT ![c] = new]
  PROVE  /\ challenge' \in [Challenges -> Flags \cup {None}] /\ DOMAIN challenge' = Challenges
         /\ challenge'[c] = new /\ \A d \in Challenges \ {c} : challenge'[d] = challenge[d]
         /\ Live' \subseteq Live /\ OneLive'
<1>1. c \in Challenges /\ challenge \in [Challenges -> Flags \cup {None}]
  BY DEF Live, Open, SignInInv, TypeOK
<1>2. /\ challenge' \in [Challenges -> Flags \cup {None}] /\ DOMAIN challenge' = Challenges
      /\ challenge'[c] = new /\ \A d \in Challenges \ {c} : challenge'[d] = challenge[d]
  BY <1>1
<1>3. Live' \subseteq Live BY <1>1, <1>2 DEF Live, Open
<1> QED BY <1>2, <1>3 DEF SignInInv, OneLive

(* A challenge is counted or ends without having completed anything. *)
LEMMA AskChallenge ==
  ASSUME SignInInv, NEW r \in Requests, NEW c \in Live, NEW STATE new, new \in Flags, new.state # "used",
         challenge' = [challenge EXCEPT ![c] = new], \A q \in Requests \ {r} : c \notin req[q].locks,
         End(r) \/ (At(r, "idle") /\ UNCHANGED req),
         UNCHANGED <<factors, ceremony, history, keys, clock>>
  PROVE  SignInInv'
<1>1. UNCHANGED <<method, codes, issued, secrets, confirmed, ceremony, used, again, keys, clock>>
  BY DEF factors, history
<1>2. /\ challenge' \in [Challenges -> Flags \cup {None}] /\ DOMAIN challenge' = Challenges
      /\ challenge'[c] = new /\ \A d \in Challenges \ {c} : challenge'[d] = challenge[d]
      /\ Live' \subseteq Live /\ OneLive'
  BY OneRow
<1>3. DOMAIN ceremony' = Ceremonies /\ Enabled' = Enabled BY <1>1 DEF SignInInv, TypeOK, Enabled
<1>4. \A q \in Requests \ {r} : Respects(req[q]) BY <1>1, <1>2, <1>3, Untouched
<1>5. TypeOK' BY <1>1, <1>2 DEF SignInInv, TypeOK
<1>6. c \notin used BY DEF SignInInv, SpentOnce, TypeOK, Live, Open
<1>7. SpentOnce' BY <1>1, <1>2, <1>6 DEF SignInInv, SpentOnce
<1>8. Shown' BY <1>1 DEF SignInInv, Shown
<1> QED BY <1>2, <1>4, <1>5, <1>7, <1>8, AskWriteEnd

LEMMA AskSpoil ==
  ASSUME SignInInv, NEW r \in Requests, NEW c \in Challenges, Spoil(r, c)
  PROVE  SignInInv'
<1> DEFINE new == [challenge[c] EXCEPT !.state = "invalid"]
<1>1. /\ c \in Live /\ challenge[c] \in Flags /\ UNCHANGED <<factors, ceremony, history, keys, clock>>
      /\ \A q \in Requests \ {r} : c \notin req[q].locks
      /\ At(r, "idle") /\ UNCHANGED req
  BY DEF Spoil, Free, Live, Open, SignInInv, TypeOK, ways
<1>2. new \in Flags /\ new.state = "invalid" BY <1>1 DEF Flags
<1>3. challenge' = [challenge EXCEPT ![c] = new] BY <1>1 DEF Spoil
<1> HIDE DEF new
<1> QED BY <1>1, <1>2, <1>3, AskChallenge

LEMMA AskLockMethod ==
  ASSUME SignInInv, NEW r \in Requests, LockMethod(r)
  PROVE  SignInInv'
<1> DEFINE c == req[r].c
<1>1. /\ req[r] \in Asker /\ req[r].at = "challenge" /\ Good(req[r]) /\ req[r].way = "code"
      /\ \A q \in Requests \ {r} : req[q].locks \cap req[r].locks = {}
      /\ UNCHANGED <<factors, ceremony, history, keys, clock>>
  BY DEF SignInInv, Askers, Apart, LockMethod, At, ways
<1>2. c \in req[r].locks \cap Live /\ challenge[c].guesses < MaxGuesses BY <1>1 DEF Good
<1>3. CASE Enabled /\ Account \in active
  <2> DEFINE mine == [req[r] EXCEPT !.at = "factor", !.seen = method, !.locks = @ \cup {"method"}]
  <2>1. method \in Authenticator BY <1>3 DEF SignInInv, TypeOK, Enabled
  <2>2. /\ mine \in Asker /\ mine.at = "factor" /\ mine.seen = method /\ mine.c = c
        /\ mine.locks = req[r].locks \cup {"method"}
    BY <1>1, <2>1 DEF Asker
  <2>3. Go(r, mine) /\ Free("method", r) /\ UNCHANGED <<factors, rows, history, keys, clock>>
    BY <1>1, <1>3 DEF LockMethod, rows
  <2> HIDE DEF mine
  <2> QED BY <1>2, <1>3, <2>2, <2>3, AskFactor
<1>4. CASE ~(Enabled /\ Account \in active)
  <2> DEFINE new == [challenge[c] EXCEPT !.state = "invalid"]
  <2>1. challenge[c] \in Flags BY <1>2 DEF Live, Open, SignInInv, TypeOK
  <2>2. new \in Flags /\ new.state = "invalid" BY <2>1 DEF Flags
  <2>3. challenge' = [challenge EXCEPT ![c] = new] /\ End(r) BY <1>4 DEF LockMethod
  <2>4. \A q \in Requests \ {r} : c \notin req[q].locks BY <1>1, <1>2
  <2>5. c \in Live BY <1>2
  <2> HIDE DEF new, c
  <2> QED BY <1>1, <2>2, <2>3, <2>4, <2>5, AskChallenge
<1> QED BY <1>3, <1>4

LEMMA AskReject ==
  ASSUME SignInInv, NEW r \in Requests, Reject(r)
  PROVE  SignInInv'
<1> USE BoundAssumption
<1> DEFINE c   == req[r].c
           new == [challenge[c] EXCEPT !.guesses = @ + 1, !.state = IF Blocked(c) THEN "invalid" ELSE @]
<1>1. /\ Good(req[r]) /\ req[r].at = "factor" /\ End(r)
      /\ \A q \in Requests \ {r} : req[q].locks \cap req[r].locks = {}
      /\ UNCHANGED <<factors, ceremony, history, keys, clock>>
  BY DEF SignInInv, Askers, Apart, Reject, At, ways
<1>2. c \in req[r].locks \cap Live /\ challenge[c].guesses < MaxGuesses BY <1>1, NoRow DEF Good
<1>3. challenge[c] \in Flags /\ c \in Challenges /\ challenge[c].state = "live"
  BY <1>2 DEF Live, Open, SignInInv, TypeOK
<1>4. challenge[c].guesses + 1 \in 0 .. MaxGuesses BY <1>2, <1>3 DEF Flags
<1>5. new \in Flags /\ new.state \in {"invalid", "live"} BY <1>3, <1>4 DEF Flags
<1>6. challenge' = [challenge EXCEPT ![c] = new] BY <1>3 DEF Reject
<1>7. \A q \in Requests \ {r} : c \notin req[q].locks BY <1>1, <1>2
<1>8. c \in Live BY <1>2
<1> HIDE DEF new, c
<1> QED BY <1>1, <1>5, <1>6, <1>7, <1>8, AskChallenge

(* A ceremony is begun or ends without having completed anything. *)
LEMMA AskCeremony ==
  ASSUME SignInInv, NEW r \in Requests, NEW y \in Ceremonies, NEW STATE new, new \in Ceremony, new.state # "used",
         ceremony' = [ceremony EXCEPT ![y] = new],
         ceremony[y] = None \/ (y \in Open(ceremony) /\ \A q \in Requests \ {r} : y \notin req[q].locks),
         End(r) \/ (At(r, "idle") /\ UNCHANGED req),
         UNCHANGED <<factors, challenge, history, keys, clock>>
  PROVE  SignInInv'
<1>1. UNCHANGED <<method, codes, issued, secrets, confirmed, challenge, used, again, keys, clock>>
  BY DEF factors, history
<1>2. /\ ceremony' \in [Ceremonies -> Ceremony \cup {None}] /\ ceremony'[y] = new
      /\ \A z \in Ceremonies \ {y} : ceremony'[z] = ceremony[z]
      /\ Live' = Live /\ Enabled' = Enabled
  BY <1>1 DEF SignInInv, TypeOK, Live, Open, Enabled
<1>3. ASSUME NEW q \in Requests \ {r} PROVE Respects(req[q])
  <2>1. req[q].locks \cap Open(ceremony) \subseteq Open(ceremony)' BY <1>2 DEF Open, SignInInv, TypeOK
  <2> QED BY <1>1, <1>2, <2>1 DEF Respects
<1>4. TypeOK' BY <1>1, <1>2 DEF SignInInv, TypeOK
<1>5. y \notin used BY DEF SignInInv, SpentOnce, Open
<1>6. SpentOnce' BY <1>1, <1>2, <1>5 DEF SignInInv, SpentOnce
<1>7. Shown' /\ OneLive' BY <1>1, <1>2 DEF SignInInv, Shown, OneLive
<1> QED BY <1>3, <1>4, <1>6, <1>7, AskWriteEnd

LEMMA AskOptions ==
  ASSUME SignInInv, NEW r \in Requests, NEW purpose \in {"step_up", "authenticate", "register"},
         NEW c \in Challenges \cup {None}, Options(r, purpose, c)
  PROVE  SignInInv'
<1> DEFINE new == [state |-> "live", lapsed |-> FALSE, purpose |-> purpose, c |-> c]
<1>1. PICK y \in Ceremonies : ceremony[y] = None /\ ceremony' = [ceremony EXCEPT ![y] = new]
  BY DEF Options, NewCeremony
<1>2. new \in Ceremony /\ new.state = "live" BY DEF Ceremony
<1>3. At(r, "idle") /\ UNCHANGED req /\ UNCHANGED <<factors, challenge, history, keys, clock>>
  BY DEF Options, ways
<1> HIDE DEF new
<1> QED BY <1>1, <1>2, <1>3, AskCeremony

LEMMA AskPresent ==
  ASSUME SignInInv, NEW r \in Requests, NEW STATE me, me \in Asker, NEW y \in Ceremonies, NEW k \in Keys,
         TakeCeremony(r, me, y, k), \A q \in Requests \ {r} : req[q].locks \cap me.locks = {},
         me.c # None => me.c \in me.locks \cap Live
  PROVE  SignInInv'
<1>1. /\ y \in Open(ceremony) /\ Free(y, r) /\ UNCHANGED <<factors, challenge, history, keys, clock>>
      /\ \A q \in Requests \ {r} : y \notin req[q].locks
  BY DEF TakeCeremony, ways, Free
<1>2. CASE ceremony[y].lapsed
  <2> DEFINE new == [ceremony[y] EXCEPT !.state = "invalid"]
  <2>1. ceremony[y] \in Ceremony BY <1>1 DEF Open, SignInInv, TypeOK
  <2>2. new \in Ceremony /\ new.state = "invalid" BY <2>1 DEF Ceremony
  <2>3. ceremony' = [ceremony EXCEPT ![y] = new] /\ End(r) BY <1>2 DEF TakeCeremony
  <2> HIDE DEF new
  <2> QED BY <1>1, <2>2, <2>3, AskCeremony
<1>3. CASE ~ceremony[y].lapsed
  <2>1. Go(r, [me EXCEPT !.at = "ceremony", !.y = y, !.f = k, !.locks = @ \cup {y}])
        /\ UNCHANGED <<factors, rows, history, keys, clock>>
    BY <1>1, <1>3 DEF TakeCeremony, rows
  <2> QED BY <1>1, <2>1, AskTakeCeremony
<1> QED BY <1>2, <1>3

(* The new challenge is the only one that is live: all others were locked, and have ended. *)
LEMMA AskInvite ==
  ASSUME SignInInv, NEW r \in Requests, Invite(r)
  PROVE  SignInInv'
<1>1. PICK c \in Challenges : challenge[c] = None /\
        challenge' = [x \in Challenges |-> IF x \in req[r].locks THEN [challenge[x] EXCEPT !.state = "invalid"]
                                            ELSE IF x = c THEN New ELSE challenge[x]]
  BY DEF Invite
<1>2. /\ End(r) /\ req[r].locks = {"user"} \cup Live
      /\ \A q \in Requests \ {r} : req[q].locks \cap req[r].locks = {}
      /\ UNCHANGED <<method, codes, issued, secrets, confirmed, ceremony, used, again, keys, clock>>
  BY DEF Invite, At, SignInInv, Askers, Apart, Good, ways, factors, history
<1>3. /\ \A x \in Challenges : x \in req[r].locks <=> x \in Live
      /\ c \notin Live /\ New \in Flags /\ New.state = "live"
  BY <1>1, <1>2, KindAssumption, BoundAssumption DEF Live, Open, New, Flags
<1>4. /\ \A x \in Live : challenge'[x] = [challenge[x] EXCEPT !.state = "invalid"] /\ challenge[x] \in Flags
      /\ \A x \in Challenges \ (Live \cup {c}) : challenge'[x] = challenge[x]
      /\ challenge'[c] = New /\ DOMAIN challenge' = Challenges
  BY <1>1, <1>3 DEF Live, Open, SignInInv, TypeOK
<1>5. \A x \in Live : challenge'[x] \in Flags /\ challenge'[x].state = "invalid"
  BY <1>4 DEF Flags
<1>6. challenge' \in [Challenges -> Flags \cup {None}]
  <2>1. \A x \in Challenges : challenge'[x] \in Flags \cup {None}
    BY <1>3, <1>4, <1>5 DEF SignInInv, TypeOK
  <2> QED BY <1>1, <2>1
<1>7. Live' = {c}
  <2>1. Live = {x \in Challenges : challenge[x] # None /\ challenge[x].state = "live"}
    BY DEF Live, Open, SignInInv, TypeOK
  <2>2. Live' = {x \in Challenges : challenge'[x] # None /\ challenge'[x].state = "live"}
    BY <1>4 DEF Live, Open
  <2>3. \A x \in Challenges \ {c} : x \notin Live' BY <1>4, <1>5, <2>1, <2>2
  <2>4. c \in Live' BY <1>3, <1>4, <2>2, NoRow
  <2> QED BY <2>2, <2>3, <2>4
<1>8. ASSUME NEW q \in Requests \ {r} PROVE Respects(req[q])
  <2>1. "user" \notin req[q].locks /\ req[q].locks \cap Live = {} BY <1>2
  <2> QED BY <1>2, <2>1 DEF Respects
<1>9. TypeOK' BY <1>2, <1>6 DEF SignInInv, TypeOK
<1>10. c \notin used /\ used \cap Live = {} BY <1>1 DEF SignInInv, SpentOnce, Live, Open, TypeOK
<1>11. SpentOnce' BY <1>2, <1>4, <1>10 DEF SignInInv, SpentOnce
<1>12. OneLive' /\ Shown' BY <1>2, <1>7 DEF SignInInv, OneLive, Shown
<1> QED BY <1>2, <1>8, <1>9, <1>11, <1>12, AskWriteEnd

(* A second factor that fits has not been used, *)
LEMMA Unspent ==
  ASSUME SignInInv, Enabled, NEW f \in Otps \cup Codes \cup Keys \cup Identities \cup {None}, Fits(f, method)
  PROVE  /\ f \in Otps \cup Codes /\ f \notin used
         /\ method # None /\ method.enabled /\ method \in Authenticator
         /\ \A g \in used \cap Otps : g[1] <= secrets /\ (g[1] = method.secret => g[2] <= method.last)
         /\ f \in Otps => f[1] = method.secret /\ f[2] > method.last
         /\ \A g \in (used \cup {f}) \cap Otps : g[1] <= secrets
<1>1. /\ method # None /\ method.enabled /\ method \in Authenticator /\ method.secret <= secrets
      /\ codes \subseteq Codes /\ codes \cap used = {}
  BY DEF SignInInv, TypeOK, SpentOnce, Enabled
<1>2. \A g \in used \cap Otps : g[1] <= secrets /\ (g[1] = method.secret => g[2] <= method.last)
  <2>1. SpentOnce BY DEF SignInInv
  <2> QED BY <1>1, <2>1, Zenon DEF SpentOnce
<1>3. \A g \in Otps : g[1] \in Nat /\ g[2] \in Nat BY BoundAssumption DEF Otps
<1>4. method.last \in Nat BY <1>1, BoundAssumption DEF Authenticator
<1>5. CASE f \in Otps
  <2>1. f \notin codes BY <1>1, <1>5, KindAssumption
  <2>2. f[1] = method.secret /\ f[2] > method.last BY <2>1 DEF Fits
  <2>3. ~(f[2] <= method.last) BY <1>3, <1>4, <1>5, <2>2
  <2>4. f \notin used BY <1>2, <1>5, <2>2, <2>3
  <2> QED BY <1>1, <1>2, <1>5, <2>2, <2>4
<1>6. CASE f \notin Otps
  <2>1. f \in codes BY <1>6 DEF Fits
  <2> QED BY <1>1, <1>2, <1>6, <2>1
<1> QED BY <1>5, <1>6

(* and is used up by what it proves. *)
LEMMA Factor ==
  ASSUME SignInInv, Enabled, NEW f \in Otps \cup Codes \cup Keys \cup Identities \cup {None}, Fits(f, method),
         method' = IF f \in Otps THEN [method EXCEPT !.last = f[2]] ELSE method
  PROVE  /\ f \in Otps \cup Codes /\ f \notin used
         /\ method' \in Authenticator /\ method'.secret = method.secret /\ method'.enabled
         /\ \A g \in (used \cup {f}) \cap Otps : g[1] <= secrets /\ (g[1] = method'.secret => g[2] <= method'.last)
<1>1. /\ f \in Otps \cup Codes /\ f \notin used
      /\ method # None /\ method.enabled /\ method \in Authenticator
      /\ \A g \in used \cap Otps : g[1] <= secrets /\ (g[1] = method.secret => g[2] <= method.last)
      /\ f \in Otps => f[1] = method.secret /\ f[2] > method.last
      /\ \A g \in (used \cup {f}) \cap Otps : g[1] <= secrets
  BY Unspent
<1>2. CASE f \in Otps
  <2>1. \A g \in Otps : g[1] \in Nat /\ g[2] \in 0 .. MaxStep /\ g[2] \in Nat BY BoundAssumption DEF Otps
  <2>2. method.last \in Nat BY <1>1, BoundAssumption DEF Authenticator
  <2>3. /\ method' \in Authenticator /\ method'.secret = method.secret /\ method'.enabled
        /\ method'.last = f[2]
    BY <1>1, <1>2, <2>1 DEF Authenticator
  <2>4. ASSUME NEW g \in (used \cup {f}) \cap Otps, g[1] = method'.secret PROVE g[2] <= method'.last
    <3>1. CASE g = f BY <1>2, <2>1, <2>3, <3>1
    <3>2. CASE g # f
      <4>1. g[2] <= method.last BY <1>1, <2>3, <2>4, <3>2
      <4> QED BY <1>1, <1>2, <2>1, <2>2, <2>3, <4>1
    <3> QED BY <3>1, <3>2
  <2> QED BY <1>1, <2>3, <2>4
<1>3. CASE f \notin Otps BY <1>1, <1>3
<1> QED BY <1>2, <1>3

LEMMA AskAccept ==
  ASSUME SignInInv, NEW r \in Requests, Accept(r)
  PROVE  SignInInv'
<1> DEFINE c   == req[r].c
           f   == req[r].f
           new == [challenge[c] EXCEPT !.state = "used"]
<1>1. /\ req[r] \in Asker /\ Good(req[r]) /\ req[r].at = "factor" /\ Go(r, [Idle EXCEPT !.at = "issuing"])
      /\ \A q \in Requests \ {r} : req[q].locks \cap req[r].locks = {}
      /\ Fits(f, req[r].seen) /\ Completes({c, f}) /\ codes' = codes \ {f}
      /\ UNCHANGED <<keys, issued, secrets, confirmed, ceremony, clock>>
  BY DEF SignInInv, Askers, Apart, Accept, At, ways, Spend
<1>2. /\ c \in req[r].locks \cap Live /\ "method" \in req[r].locks /\ Enabled /\ req[r].seen = method
  BY <1>1, NoRow DEF Good
<1>3. f \in Otps \cup Codes \cup Keys \cup Identities \cup {None} BY <1>1 DEF Asker
<1>4. method' = IF f \in Otps THEN [method EXCEPT !.last = f[2]] ELSE method
  BY <1>2 DEF Accept, Spend
<1>5. challenge[c] \in Flags /\ c \in Challenges /\ c \in Live
  BY <1>2 DEF Live, Open, SignInInv, TypeOK
<1>6. new \in Flags /\ new.state = "used" BY <1>5 DEF Flags
<1>7. challenge' = [challenge EXCEPT ![c] = new] BY DEF Accept
<1> HIDE DEF new, c, f
<1>8. /\ challenge' \in [Challenges -> Flags \cup {None}] /\ DOMAIN challenge' = Challenges
      /\ challenge'[c] = new /\ \A d \in Challenges \ {c} : challenge'[d] = challenge[d]
      /\ Live' \subseteq Live /\ OneLive'
  BY <1>5, <1>6, <1>7, OneRow
<1>9. /\ f \in Otps \cup Codes /\ f \notin used
      /\ method' \in Authenticator
      /\ method'.secret = method.secret /\ method'.enabled
      /\ \A g \in (used \cup {f}) \cap Otps : g[1] <= secrets /\ (g[1] = method'.secret => g[2] <= method'.last)
  BY <1>1, <1>2, <1>3, <1>4, Factor
<1>10. ASSUME NEW q \in Requests \ {r} PROVE Respects(req[q])
  <2>1. c \notin req[q].locks /\ "method" \notin req[q].locks BY <1>1, <1>2
  <2>2. DOMAIN ceremony' = Ceremonies BY <1>1 DEF SignInInv, TypeOK
  <2> QED BY <1>1, <1>2, <1>8, <2>1, <2>2, Untouched
<1>11. /\ codes \cap used = {} /\ codes \subseteq issued /\ issued \subseteq Codes /\ used \cap Codes \subseteq issued
       /\ method # None /\ method.enabled /\ method.secret <= secrets
       /\ again = {} /\ used \subseteq Challenges \cup Ceremonies \cup Codes \cup Otps
  BY <1>2 DEF SignInInv, SpentOnce, TypeOK, Enabled
<1>12. TypeOK' BY <1>1, <1>8, <1>9, <1>11 DEF SignInInv, TypeOK
<1>13. f \in Codes => f \in codes BY <1>1, <1>2, KindAssumption DEF Fits
<1>14. c \notin used BY <1>5 DEF SignInInv, SpentOnce, Live, Open
<1>15. used' = used \cup {c, f} /\ again' = {}
  BY <1>1, <1>9, <1>11, <1>14 DEF Completes
<1>16. SpentOnce'
  <2>1. /\ c \notin Ceremonies \cup Codes \cup Otps /\ f \notin Challenges \cup Ceremonies
    BY <1>5, <1>9, KindAssumption
  <2>2. used' \subseteq Challenges \cup Ceremonies \cup Codes \cup Otps BY <1>5, <1>9, <1>11, <1>15
  <2>3. \A d \in used' \cap Challenges : challenge'[d] # None /\ challenge'[d].state = "used"
    BY <1>6, <1>8, <1>15, <2>1, NoRow DEF SignInInv, SpentOnce
  <2>4. \A y \in used' \cap Ceremonies : ceremony'[y] # None /\ ceremony'[y].state = "used"
    BY <1>1, <1>15, <2>1 DEF SignInInv, SpentOnce
  <2>5. codes' \cap used' = {} /\ used' \cap Codes \subseteq issued'
    BY <1>1, <1>11, <1>13, <1>15, <2>1
  <2>6. \A g \in used' \cap Otps : g[1] <= secrets' /\ (g[1] = method'.secret => g[2] <= method'.last)
    <3>1. used' \cap Otps = (used \cup {f}) \cap Otps BY <1>15, <2>1
    <3> QED BY <1>1, <1>9, <3>1
  <2> QED BY <1>15, <2>2, <2>3, <2>4, <2>5, <2>6 DEF SpentOnce
<1>17. Shown' BY <1>1, <1>9, <1>11 DEF SignInInv, Shown
<1> QED BY <1>1, <1>8, <1>10, <1>12, <1>16, <1>17, AskWriteEnd

(* A ceremony is completed, with the sign-in it belongs to, if any. *)
LEMMA AskComplete ==
  ASSUME SignInInv, NEW r \in Requests, End(r) \/ Go(r, [Idle EXCEPT !.at = "issuing"]),
         NEW STATE y, y \in Open(ceremony), NEW STATE S, S = {} \/ \E c \in Live : S = {c},
         \A q \in Requests \ {r} : y \notin req[q].locks /\ S \cap req[q].locks = {},
         ceremony' = [ceremony EXCEPT ![y].state = "used"],
         \/ S = {} /\ challenge' = challenge
         \/ \E c \in Live : S = {c} /\ challenge' = [challenge EXCEPT ![c].state = "used"],
         Completes({y} \cup S), keys' \subseteq Keys, UNCHANGED <<factors, clock>>
  PROVE  SignInInv'
<1>1. /\ UNCHANGED <<method, codes, issued, secrets, confirmed, clock>> /\ clock \in 1 .. MaxStep
  BY DEF factors, SignInInv, TypeOK
<1>2. /\ y \in Ceremonies /\ ceremony[y] \in Ceremony /\ ceremony[y].state = "live"
      /\ S \subseteq Live /\ Live \subseteq Challenges
  BY DEF Open, Live, SignInInv, TypeOK
<1>3. /\ ceremony' \in [Ceremonies -> Ceremony \cup {None}] /\ DOMAIN ceremony' = Ceremonies
      /\ ceremony'[y] # None /\ ceremony'[y].state = "used"
      /\ \A z \in Ceremonies \ {y} : ceremony'[z] = ceremony[z]
  <2> DEFINE new == [ceremony[y] EXCEPT !.state = "used"]
  <2>1. new \in Ceremony /\ new.state = "used" BY <1>2 DEF Ceremony
  <2>2. ceremony' = [ceremony EXCEPT ![y] = new] OBVIOUS
  <2> HIDE DEF new
  <2> QED BY <1>2, <2>1, <2>2, NoRow DEF SignInInv, TypeOK
<1>4. /\ challenge' \in [Challenges -> Flags \cup {None}] /\ DOMAIN challenge' = Challenges
      /\ \A c \in S : challenge'[c] # None /\ challenge'[c].state = "used"
      /\ \A d \in Challenges \ S : challenge'[d] = challenge[d]
      /\ Live' \subseteq Live /\ OneLive'
  <2>1. CASE S = {} /\ challenge' = challenge
    BY <2>1 DEF SignInInv, TypeOK, Live, Open, OneLive
  <2>2. CASE \E c \in Live : S = {c} /\ challenge' = [challenge EXCEPT ![c].state = "used"]
    <3>1. PICK c \in Live : S = {c} /\ challenge' = [challenge EXCEPT ![c].state = "used"] BY <2>2
    <3> DEFINE new == [challenge[c] EXCEPT !.state = "used"]
    <3>2. challenge[c] \in Flags BY DEF Live, Open, SignInInv, TypeOK
    <3>3. new \in Flags /\ new.state = "used" BY <3>2 DEF Flags
    <3>4. challenge' = [challenge EXCEPT ![c] = new] BY <3>1
    <3> HIDE DEF new
    <3>5. /\ challenge' \in [Challenges -> Flags \cup {None}] /\ DOMAIN challenge' = Challenges
          /\ challenge'[c] = new /\ \A d \in Challenges \ {c} : challenge'[d] = challenge[d]
          /\ Live' \subseteq Live /\ OneLive'
      BY <3>3, <3>4, OneRow
    <3> QED BY <3>1, <3>3, <3>5, NoRow
  <2> QED BY <2>1, <2>2
<1>5. ASSUME NEW q \in Requests \ {r} PROVE Respects(req[q])
  <2>1. /\ y \notin req[q].locks /\ S \cap req[q].locks = {} /\ Enabled' = Enabled
    BY <1>1 DEF Enabled
  <2>2. /\ \A c \in req[q].locks \cap Challenges : challenge'[c] = challenge[c]
        /\ \A z \in req[q].locks \cap Ceremonies : ceremony'[z] = ceremony[z]
    BY <1>3, <1>4, <2>1
  <2> QED BY <1>1, <1>3, <1>4, <2>1, <2>2, Untouched
<1>6. TypeOK' BY <1>1, <1>3, <1>4 DEF SignInInv, TypeOK
<1>7. SpentOnce
  BY DEF SignInInv
<1>8. ({y} \cup S) \cap used = {}
  BY <1>2, <1>7, NoRow DEF SpentOnce, Live, Open
<1>9. used' = used \cup {y} \cup S /\ again' = {}
  BY <1>7, <1>8 DEF Completes, SpentOnce
<1>10. y \notin Challenges \cup Codes \cup Otps /\ S \cap (Ceremonies \cup Codes \cup Otps) = {}
  BY <1>2, KindAssumption
<1>11. SpentOnce'
  <2>1. used' \subseteq Challenges \cup Ceremonies \cup Codes \cup Otps BY <1>2, <1>7, <1>9 DEF SpentOnce
  <2>2. \A d \in used' \cap Challenges : challenge'[d] # None /\ challenge'[d].state = "used"
    BY <1>4, <1>7, <1>9, <1>10 DEF SpentOnce
  <2>3. \A z \in used' \cap Ceremonies : ceremony'[z] # None /\ ceremony'[z].state = "used"
    BY <1>3, <1>7, <1>9, <1>10 DEF SpentOnce
  <2>4. used' \cap Otps = used \cap Otps /\ used' \cap Codes = used \cap Codes BY <1>9, <1>10
  <2>5. codes' \cap used' = {} /\ used' \cap Codes \subseteq issued'
    BY <1>1, <1>6, <1>7, <2>4 DEF SpentOnce, TypeOK
  <2> QED BY <1>1, <1>7, <1>9, <2>1, <2>2, <2>3, <2>4, <2>5 DEF SpentOnce
<1>12. Shown' BY <1>1 DEF SignInInv, Shown
<1> QED BY <1>4, <1>5, <1>6, <1>11, <1>12, AskWriteEnd

LEMMA AskAcceptKey ==
  ASSUME SignInInv, NEW r \in Requests, AcceptKey(r)
  PROVE  SignInInv'
<1> DEFINE y == req[r].y
           c == req[r].c
           S == {c} \ {None}
<1>1. /\ Good(req[r]) /\ req[r].at = "key" /\ Go(r, [Idle EXCEPT !.at = "issuing"])
      /\ \A q \in Requests \ {r} : req[q].locks \cap req[r].locks = {}
      /\ Completes({y, c} \ {None}) /\ ceremony' = [ceremony EXCEPT ![y].state = "used"]
      /\ challenge' = IF c = None THEN challenge ELSE [challenge EXCEPT ![c].state = "used"]
      /\ UNCHANGED <<factors, clock>> /\ keys' \subseteq Keys
  BY DEF SignInInv, Askers, Apart, AcceptKey, At, ways, TypeOK
<1>2. y \in req[r].locks \cap Open(ceremony) /\ (c # None => c \in req[r].locks \cap Live) BY <1>1 DEF Good
<1>3. y # None BY <1>2, NoRow DEF Open, SignInInv, TypeOK
<1>4. {y, c} \ {None} = {y} \cup S BY <1>3
<1>5. \/ S = {} /\ challenge' = challenge
      \/ \E d \in Live : S = {d} /\ challenge' = [challenge EXCEPT ![d].state = "used"]
  BY <1>1, <1>2
<1>6. \A q \in Requests \ {r} : y \notin req[q].locks /\ S \cap req[q].locks = {} BY <1>1, <1>2
<1>7. y \in Open(ceremony) BY <1>2
<1>8. Completes({y} \cup S) BY <1>1, <1>4
<1> HIDE DEF y, c, S
<1> QED BY <1>1, <1>5, <1>6, <1>7, <1>8, AskComplete

LEMMA AskAddKey ==
  ASSUME SignInInv, NEW r \in Requests, AddKey(r)
  PROVE  SignInInv'
<1> DEFINE y == req[r].y
           k == req[r].f
<1>1. /\ Good(req[r]) /\ req[r].at = "ceremony" /\ End(r) /\ req[r] \in Asker
      /\ \A q \in Requests \ {r} : req[q].locks \cap req[r].locks = {}
      /\ UNCHANGED <<factors, clock, challenge>>
  BY DEF SignInInv, Askers, Apart, AddKey, At
<1>2. CASE k \in keys
  BY <1>1, <1>2, AskEnd, KeysAndClock DEF AddKey, rows
<1>3. CASE k \notin keys
  <2>1. /\ ceremony' = [ceremony EXCEPT ![y].state = "used"] /\ Completes({y}) /\ keys' = keys \cup {k}
    BY <1>3 DEF AddKey
  <2>2. y \in req[r].locks \cap Open(ceremony) BY <1>1 DEF Good
  <2>3. k \in Keys BY <1>1 DEF Good
  <2>4. keys' \subseteq Keys BY <2>1, <2>3, KeysAndClock
  <2>5. \A q \in Requests \ {r} : y \notin req[q].locks BY <1>1, <2>2
  <2>6. Completes({y} \cup {}) /\ y \in Open(ceremony) BY <2>1, <2>2
  <2> HIDE DEF y
  <2> QED BY <1>1, <2>1, <2>4, <2>5, <2>6, AskComplete
<1> QED BY <1>2, <1>3

(* A new secret: nobody waits for codes of the authenticator that it replaces. *)
LEMMA AskDrawSecret ==
  ASSUME SignInInv, NEW r \in Requests, DrawSecret(r)
  PROVE  SignInInv'
<1> USE BoundAssumption
<1>1. /\ Good(req[r]) /\ req[r].at = "setup" /\ End(r) /\ secrets < MaxSecrets /\ secrets' = secrets + 1
      /\ \A q \in Requests \ {r} : req[q].locks \cap req[r].locks = {}
      /\ \A q \in Requests \ {r} : "method" \notin req[q].locks
      /\ UNCHANGED <<keys, codes, issued, confirmed, challenge, ceremony, used, again, clock>>
  BY DEF SignInInv, Askers, Apart, DrawSecret, At, Free, ways, rows, history
<1>2. ~Enabled /\ "user" \in req[r].locks BY <1>1 DEF Good
<1>3. method' = [secret |-> secrets + 1, enabled |-> FALSE, lapsed |-> FALSE, last |-> 0]
  <2>1. Enabled = FALSE BY <1>2, Zenon DEF Enabled
  <2>2. method' = [secret |-> secrets + 1, enabled |-> Enabled, lapsed |-> FALSE, last |-> 0]
    BY DEF DrawSecret
  <2> QED BY <2>1, <2>2, Zenon
<1>4. secrets \in 0 .. MaxSecrets /\ secrets + 1 \in 1 .. MaxSecrets
  BY <1>1 DEF SignInInv, TypeOK
<1>5. method' \in Authenticator /\ method'.secret = secrets' /\ ~method'.enabled /\ method'.last = 0
  BY <1>1, <1>3, <1>4 DEF Authenticator
<1>6. Live' = Live /\ Open(ceremony)' = Open(ceremony) /\ ~Enabled'
  BY <1>1, <1>5 DEF Live, Open, Enabled
<1>7. ASSUME NEW q \in Requests \ {r} PROVE Respects(req[q])
  <2>1. "method" \notin req[q].locks BY <1>1
  <2> QED BY <1>1, <1>6, <2>1 DEF Respects
<1>8. TypeOK'
  <2>1. confirmed' \subseteq 1 .. secrets' /\ secrets' \in 0 .. MaxSecrets /\ method'.secret <= secrets'
    BY <1>1, <1>4, <1>5 DEF SignInInv, TypeOK
  <2> QED BY <1>1, <1>5, <2>1 DEF SignInInv, TypeOK
<1>9. SpentOnce BY DEF SignInInv
<1>10. \A g \in used \cap Otps : g[1] <= secrets' /\ g[1] # secrets'
  <2>1. \A g \in used \cap Otps : g[1] <= secrets BY <1>9, Zenon DEF SpentOnce
  <2>2. \A g \in Otps : g[1] \in Nat BY DEF Otps
  <2> QED BY <1>1, <1>4, <2>1, <2>2
<1>11. SpentOnce' BY <1>1, <1>5, <1>9, <1>10 DEF SpentOnce
<1>12. OneLive' /\ Shown' BY <1>5, <1>6 DEF SignInInv, OneLive, Shown
<1> QED BY <1>1, <1>7, <1>8, <1>11, <1>12, AskWriteEnd

(* Whoever writes the authenticator's row with a code that fits spends the code. *)
LEMMA AskSpend ==
  ASSUME SignInInv, NEW r \in Requests, End(r), NEW STATE f, f \in Otps \cup Codes, f \notin used, Completes({f}),
         "method" \in req[r].locks, f \in Codes => f \in codes,
         \A q \in Requests \ {r} : "user" \in req[q].locks => (Enabled' => Enabled),
         DOMAIN challenge' = Challenges, challenge' \in [Challenges -> Flags \cup {None}], Live' \subseteq Live,
         \A c \in Challenges : challenge[c] # None /\ challenge[c].state = "used" => challenge'[c] = challenge[c],
         \A q \in Requests \ {r} : \A c \in req[q].locks \cap Challenges : challenge'[c] = challenge[c],
         method' # None => method' \in Authenticator /\ method'.secret <= secrets,
         confirmed \subseteq confirmed' /\ confirmed' \subseteq 1 .. secrets, Shown',
         issued \subseteq issued' /\ issued' \subseteq Codes, codes' \subseteq issued',
         codes' \cap issued = {},
         \A g \in (used \cup {f}) \cap Otps : g[1] <= secrets /\ (method' # None /\ g[1] = method'.secret => g[2] <= method'.last),
         UNCHANGED <<keys, secrets, ceremony, clock>>
  PROVE  SignInInv'
<1>1. SpentOnce BY DEF SignInInv
<1>2. ASSUME NEW q \in Requests \ {r} PROVE Respects(req[q])
  <2>1. "method" \notin req[q].locks BY DEF SignInInv, Askers, Apart
  <2>2. DOMAIN ceremony' = Ceremonies BY DEF SignInInv, TypeOK
  <2> QED BY <2>1, <2>2, Untouched
<1>3. TypeOK' BY DEF SignInInv, TypeOK
<1>4. f \notin Challenges \cup Ceremonies BY KindAssumption
<1>5. used' = used \cup {f} /\ again' = {} BY <1>1 DEF Completes, SpentOnce
<1>6. SpentOnce'
  <2>1. used' \subseteq Challenges \cup Ceremonies \cup Codes \cup Otps BY <1>1, <1>5 DEF SpentOnce
  <2>2. \A d \in used' \cap Challenges : challenge'[d] # None /\ challenge'[d].state = "used"
    BY <1>1, <1>4, <1>5 DEF SpentOnce
  <2>3. \A z \in used' \cap Ceremonies : ceremony'[z] # None /\ ceremony'[z].state = "used"
    BY <1>1, <1>4, <1>5 DEF SpentOnce
  <2>4. used' \cap Codes \subseteq issued /\ codes \subseteq issued
    BY <1>1, <1>5 DEF SpentOnce, SignInInv, TypeOK
  <2>5. codes' \cap used' = {} /\ used' \cap Codes \subseteq issued'
    BY <1>3, <2>1, <2>4 DEF TypeOK
  <2> QED BY <1>5, <2>1, <2>2, <2>3, <2>5 DEF SpentOnce
<1>7. OneLive' BY DEF SignInInv, OneLive
<1> QED BY <1>2, <1>3, <1>6, <1>7, AskWriteEnd

LEMMA FactorOf ==
  ASSUME SignInInv, NEW r \in Requests, req[r].at = "sensitive", Fits(req[r].f, req[r].seen)
  PROVE  /\ Enabled /\ req[r].seen = method /\ "method" \in req[r].locks
         /\ req[r].f \in Otps \cup Codes \cup Keys \cup Identities \cup {None}
         /\ Fits(req[r].f, method) /\ (req[r].f \in Codes => req[r].f \in codes)
         /\ \A q \in Requests \ {r} : req[q].locks \cap req[r].locks = {}
<1>1. Good(req[r]) /\ req[r] \in Asker /\ \A q \in Requests \ {r} : req[q].locks \cap req[r].locks = {}
  BY DEF SignInInv, Askers, Apart
<1>2. Enabled /\ req[r].seen = method /\ "method" \in req[r].locks BY <1>1 DEF Good
<1>3. req[r].f \in Otps \cup Codes \cup Keys \cup Identities \cup {None} BY <1>1 DEF Asker
<1>4. req[r].f \in Codes => req[r].f \in codes BY KindAssumption DEF Fits
<1> QED BY <1>1, <1>2, <1>3, <1>4

LEMMA AskRegenerate ==
  ASSUME SignInInv, NEW r \in Requests, Regenerate(r)
  PROVE  SignInInv'
<1> DEFINE f == req[r].f
<1>1. /\ req[r].at = "sensitive" /\ Fits(f, req[r].seen) /\ End(r) /\ Completes({f})
      /\ method' = IF f \in Otps THEN [method EXCEPT !.last = f[2]] ELSE method
      /\ UNCHANGED <<keys, secrets, confirmed, challenge, ceremony, clock>>
  BY DEF Regenerate, Proven, At, ways, rows
<1>2. PICK B \in Batches(Codes \ issued) : codes' = B /\ issued' = issued \cup B
  BY DEF Regenerate, NewCodes
<1>3. B \subseteq Codes \ issued BY DEF Batches
<1>4. /\ Enabled /\ "method" \in req[r].locks /\ Fits(f, method) /\ (f \in Codes => f \in codes)
      /\ f \in Otps \cup Codes \cup Keys \cup Identities \cup {None}
      /\ \A q \in Requests \ {r} : req[q].locks \cap req[r].locks = {}
  BY <1>1, FactorOf
<1> HIDE DEF f
<1>5. /\ f \in Otps \cup Codes /\ f \notin used /\ method' \in Authenticator
      /\ method'.secret = method.secret /\ method'.enabled
      /\ \A g \in (used \cup {f}) \cap Otps : g[1] <= secrets /\ (g[1] = method'.secret => g[2] <= method'.last)
  BY <1>1, <1>4, Factor
<1>6. /\ method # None /\ method.secret <= secrets /\ issued \subseteq Codes /\ confirmed \subseteq 1 .. secrets
      /\ challenge \in [Challenges -> Flags \cup {None}] /\ method.secret \in confirmed
  BY <1>4 DEF SignInInv, TypeOK, Enabled, Shown
<1>7. Live' = Live /\ DOMAIN challenge' = Challenges BY <1>1, <1>6 DEF Live, Open
<1>8. Shown' BY <1>1, <1>5, <1>6 DEF Shown
<1>9. issued \subseteq issued' /\ issued' \subseteq Codes /\ codes' \subseteq issued' /\ codes' \cap issued = {}
  BY <1>2, <1>3, <1>6
<1>10. Enabled' => Enabled BY <1>4
<1> QED BY <1>1, <1>4, <1>5, <1>6, <1>7, <1>8, <1>9, <1>10, AskSpend

LEMMA AskDisable ==
  ASSUME SignInInv, NEW r \in Requests, Disable(r)
  PROVE  SignInInv'
<1> DEFINE f == req[r].f
           to == [method EXCEPT !.last = f[2]]
<1>1. /\ req[r].at = "sensitive" /\ Fits(f, req[r].seen) /\ End(r) /\ Completes({f})
      /\ method' = None /\ codes' = {}
      /\ challenge' = [c \in Challenges |-> IF c \in Unused THEN [challenge[c] EXCEPT !.state = "invalid"] ELSE challenge[c]]
      /\ \A c \in Unused : \A q \in Requests \ {r} : c \notin req[q].locks
      /\ UNCHANGED <<keys, issued, secrets, confirmed, ceremony, clock>>
  BY DEF Disable, Proven, At, ways, Free
<1>2. /\ Enabled /\ "method" \in req[r].locks /\ Fits(f, method) /\ (f \in Codes => f \in codes)
      /\ f \in Otps \cup Codes \cup Keys \cup Identities \cup {None}
  BY <1>1, FactorOf
<1> HIDE DEF f
<1>3. /\ f \in Otps \cup Codes /\ f \notin used
      /\ \A g \in (used \cup {f}) \cap Otps : g[1] <= secrets
  BY <1>2, Unspent
<1>4. /\ issued \subseteq Codes /\ confirmed \subseteq 1 .. secrets
      /\ challenge \in [Challenges -> Flags \cup {None}]
  BY DEF SignInInv, TypeOK
<1>5. /\ challenge' \in [Challenges -> Flags \cup {None}] /\ DOMAIN challenge' = Challenges
      /\ \A c \in Challenges \ Unused : challenge'[c] = challenge[c]
      /\ \A c \in Unused : challenge'[c].state = "invalid"
  <2>1. \A c \in Unused : challenge[c] \in Flags BY <1>4 DEF Unused
  <2>2. \A c \in Unused : [challenge[c] EXCEPT !.state = "invalid"] \in Flags
                          /\ [challenge[c] EXCEPT !.state = "invalid"].state = "invalid"
    BY <2>1 DEF Flags
  <2>3. \A c \in Challenges : challenge'[c] \in Flags \cup {None} BY <1>1, <1>4, <2>2
  <2>4. Unused \subseteq Challenges BY DEF Unused
  <2> QED BY <1>1, <2>2, <2>3, <2>4
<1>6. Live' \subseteq Live BY <1>5 DEF Live, Open, Unused
<1>7. ~Enabled' /\ Shown' BY <1>1 DEF Enabled, Shown
<1>8. \A c \in Challenges : challenge[c] # None /\ challenge[c].state = "used" => challenge'[c] = challenge[c]
  BY <1>5 DEF Unused
<1>9. \A q \in Requests \ {r} : \A c \in req[q].locks \cap Challenges : challenge'[c] = challenge[c]
  BY <1>1, <1>5
<1> QED BY <1>1, <1>2, <1>3, <1>4, <1>5, <1>6, <1>7, <1>8, <1>9, AskSpend

LEMMA AskEnable ==
  ASSUME SignInInv, NEW r \in Requests, Enable(r)
  PROVE  SignInInv'
<1> USE BoundAssumption
<1> DEFINE f == req[r].f
<1>1. /\ Good(req[r]) /\ req[r].at = "confirming" /\ End(r) /\ Completes({f})
      /\ method' = [method EXCEPT !.enabled = TRUE, !.last = f[2]] /\ confirmed' = confirmed \cup {f[1]}
      /\ \A q \in Requests \ {r} : "user" \notin req[q].locks
      /\ UNCHANGED <<keys, secrets, challenge, ceremony, clock>>
  BY DEF SignInInv, Askers, Enable, At, ways, rows, Free
<1>2. PICK B \in Batches(Codes \ issued) : codes' = B /\ issued' = issued \cup B
  BY DEF Enable, NewCodes
<1>3. B \subseteq Codes \ issued BY DEF Batches
<1>4. /\ "method" \in req[r].locks /\ method # None /\ ~method.enabled /\ f \in Otps /\ f[1] = method.secret
  BY <1>1 DEF Good
<1> HIDE DEF f
<1>5. /\ method \in Authenticator /\ method.secret <= secrets /\ method.last = 0 /\ issued \subseteq Codes
      /\ confirmed \subseteq 1 .. secrets /\ secrets \in 0 .. MaxSecrets
      /\ challenge \in [Challenges -> Flags \cup {None}]
  BY <1>4 DEF SignInInv, TypeOK, Shown
<1>6. f[1] \in 1 .. MaxSecrets /\ f[2] \in 1 .. MaxStep BY <1>4 DEF Otps
<1>7. /\ method' \in Authenticator /\ method'.secret = f[1] /\ method'.last = f[2] /\ method'.enabled
  <2>1. method' = [method EXCEPT !.enabled = TRUE, !.last = f[2]] /\ f[1] = method.secret BY <1>1, <1>4
  <2>2. method \in Authenticator /\ f[2] \in 0 .. MaxStep BY <1>5, <1>6
  <2> HIDE DEF f
  <2> QED BY <2>1, <2>2 DEF Authenticator
<1>8. SpentOnce BY DEF SignInInv
<1>9. \A g \in used \cap Otps : g[1] <= secrets /\ (g[1] = f[1] => g[2] <= 0)
  <2>1. \A g \in used \cap Otps : g[1] <= secrets /\ (g[1] = method.secret => g[2] <= method.last)
    BY <1>4, <1>8, Zenon DEF SpentOnce
  <2> QED BY <1>4, <1>5, <2>1
<1>10. \A g \in used \cap Otps : g[1] # f[1] BY <1>9 DEF Otps
<1>11. f \notin used BY <1>4, <1>10
<1>12. \A g \in (used \cup {f}) \cap Otps : g[1] <= secrets /\ (method' # None /\ g[1] = method'.secret => g[2] <= method'.last)
  <2>1. f[1] <= secrets /\ f[2] <= f[2] BY <1>4, <1>5, <1>6
  <2> QED BY <1>7, <1>9, <1>10, <2>1
<1>13. confirmed \subseteq confirmed' /\ confirmed' \subseteq 1 .. secrets /\ method'.secret <= secrets
  BY <1>1, <1>4, <1>5, <1>6, <1>7
<1>14. Shown' BY <1>1, <1>7 DEF Shown
<1>15. Live' = Live /\ DOMAIN challenge' = Challenges /\ challenge' \in [Challenges -> Flags \cup {None}]
  BY <1>1, <1>5 DEF Live, Open
<1>16. issued \subseteq issued' /\ issued' \subseteq Codes /\ codes' \subseteq issued' /\ codes' \cap issued = {}
  BY <1>2, <1>3, <1>5
<1>17. f \in Otps \cup Codes /\ f \notin Codes BY <1>4, KindAssumption
<1> QED BY <1>1, <1>4, <1>7, <1>11, <1>12, <1>13, <1>14, <1>15, <1>16, <1>17, AskSpend

(* Time passes: rows lapse, and are what they were otherwise. *)
LEMMA AskStay ==
  ASSUME SignInInv, UNCHANGED req, \A q \in Requests : Respects(req[q]), TypeOK', SpentOnce', OneLive', Shown'
  PROVE  SignInInv'
<1>1. \A q \in Requests : Good(req[q])' BY GoodKept
<1>2. Apart(req)' BY DEF SignInInv, Askers, Apart
<1> QED BY <1>1, <1>2 DEF SignInInv, Askers

LEMMA AskTime ==
  ASSUME SignInInv, Lapse \/ Tick
  PROVE  SignInInv'
<1> USE BoundAssumption
<1>1. CASE Tick
  <2>1. UNCHANGED <<method, codes, issued, secrets, confirmed, challenge, ceremony, req, used, again, keys>>
        /\ clock' \in 1 .. MaxStep
    BY <1>1 DEF Tick, ways, factors, rows, history, SignInInv, TypeOK
  <2>2. Live' = Live /\ Open(ceremony)' = Open(ceremony) /\ Enabled' = Enabled BY <2>1 DEF Live, Open, Enabled
  <2>3. \A q \in Requests : Respects(req[q]) BY <2>1, <2>2 DEF Respects
  <2>4. TypeOK' /\ SpentOnce' /\ OneLive' /\ Shown'
    BY <2>1, <2>2 DEF SignInInv, TypeOK, SpentOnce, OneLive, Shown
  <2> QED BY <2>1, <2>3, <2>4, AskStay
<1>2. ASSUME Lapse PROVE UNCHANGED <<codes, issued, secrets, confirmed, req, used, again, keys, clock>>
  BY <1>2 DEF Lapse, ways, history
<1>3. ASSUME Lapse, NEW c \in Live, challenge' = [challenge EXCEPT ![c].lapsed = TRUE], UNCHANGED <<ceremony, method>>
      PROVE  SignInInv'
  <2> DEFINE new == [challenge[c] EXCEPT !.lapsed = TRUE]
  <2>1. challenge[c] \in Flags /\ challenge[c].state = "live" /\ c \in Challenges
    BY DEF Live, Open, SignInInv, TypeOK
  <2>2. new \in Flags /\ new.state = "live" /\ new.guesses = challenge[c].guesses BY <2>1 DEF Flags
  <2>3. challenge' = [challenge EXCEPT ![c] = new] BY <1>3
  <2> HIDE DEF new
  <2>4. /\ challenge' \in [Challenges -> Flags \cup {None}] /\ DOMAIN challenge' = Challenges
        /\ challenge'[c] = new /\ \A d \in Challenges \ {c} : challenge'[d] = challenge[d]
        /\ Live' \subseteq Live /\ OneLive'
    BY <2>2, <2>3, OneRow
  <2>5. \A d \in Live : d \in Live' /\ challenge'[d].guesses = challenge[d].guesses
    BY <2>2, <2>4, NoRow DEF Live, Open, SignInInv, TypeOK
  <2>6. Open(ceremony)' = Open(ceremony) /\ Enabled' = Enabled BY <1>3 DEF Open, Enabled
  <2>7. \A q \in Requests : Respects(req[q]) BY <1>3, <2>4, <2>5, <2>6 DEF Respects
  <2>8. TypeOK' BY <1>2, <1>3, <2>4 DEF SignInInv, TypeOK
  <2>9. c \notin used BY <2>1 DEF SignInInv, SpentOnce
  <2>10. SpentOnce' BY <1>2, <1>3, <2>4, <2>9 DEF SignInInv, SpentOnce
  <2>11. Shown' BY <1>2, <1>3 DEF SignInInv, Shown
  <2> QED BY <1>2, <1>3, <2>4, <2>7, <2>8, <2>10, <2>11, AskStay
<1>4. ASSUME Lapse, NEW y \in Open(ceremony), ceremony' = [ceremony EXCEPT ![y].lapsed = TRUE],
             UNCHANGED <<challenge, method>>
      PROVE  SignInInv'
  <2> DEFINE new == [ceremony[y] EXCEPT !.lapsed = TRUE]
  <2>1. ceremony[y] \in Ceremony /\ ceremony[y].state = "live" /\ y \in Ceremonies
    BY DEF Open, SignInInv, TypeOK
  <2>2. new \in Ceremony /\ new.state = "live" BY <2>1 DEF Ceremony
  <2>3. ceremony' = [ceremony EXCEPT ![y] = new] BY <1>4
  <2> HIDE DEF new
  <2>4. /\ ceremony' \in [Ceremonies -> Ceremony \cup {None}]
        /\ ceremony'[y] = new /\ \A z \in Ceremonies \ {y} : ceremony'[z] = ceremony[z]
    BY <2>1, <2>2, <2>3 DEF SignInInv, TypeOK
  <2>5. Open(ceremony) \subseteq Open(ceremony)' BY <2>2, <2>4, NoRow DEF Open, SignInInv, TypeOK
  <2>6. Live' = Live /\ Enabled' = Enabled BY <1>4 DEF Live, Open, Enabled
  <2>7. \A q \in Requests : Respects(req[q]) BY <1>4, <2>5, <2>6 DEF Respects
  <2>8. TypeOK' BY <1>2, <1>4, <2>4 DEF SignInInv, TypeOK
  <2>9. y \notin used BY <2>1 DEF SignInInv, SpentOnce
  <2>10. SpentOnce' BY <1>2, <1>4, <2>4, <2>9 DEF SignInInv, SpentOnce
  <2>11. Shown' /\ OneLive' BY <1>2, <1>4, <2>6 DEF SignInInv, Shown, OneLive
  <2> QED BY <1>2, <1>4, <2>7, <2>8, <2>10, <2>11, AskStay
<1>5. ASSUME Lapse, method # None /\ ~method.enabled /\ method' = [method EXCEPT !.lapsed = TRUE], UNCHANGED rows
      PROVE  SignInInv'
  <2>1. method \in Authenticator /\ method.secret <= secrets BY <1>5 DEF SignInInv, TypeOK
  <2>2. /\ method' \in Authenticator /\ method'.secret = method.secret /\ ~method'.enabled
        /\ method'.last = method.last
    BY <1>5, <2>1 DEF Authenticator
  <2>3. UNCHANGED <<challenge, ceremony>> BY <1>5 DEF rows
  <2>4. Live' = Live /\ Open(ceremony)' = Open(ceremony) /\ ~Enabled' BY <2>2, <2>3 DEF Live, Open, Enabled
  <2>5. \A q \in Requests : Respects(req[q]) BY <1>5, <2>2, <2>3, <2>4, NoRow DEF Respects
  <2>6. TypeOK' BY <1>2, <1>5, <2>1, <2>2, <2>3 DEF SignInInv, TypeOK
  <2>7. SpentOnce
    BY DEF SignInInv
  <2>8. SpentOnce' BY <1>2, <1>5, <2>2, <2>3, <2>7 DEF SpentOnce
  <2>9. Shown' /\ OneLive' BY <1>2, <1>5, <2>2, <2>4 DEF SignInInv, Shown, OneLive
  <2> QED BY <1>2, <1>5, <2>5, <2>6, <2>8, <2>9, AskStay
<1>6. CASE Lapse BY <1>3, <1>4, <1>5, <1>6 DEF Lapse
<1> QED BY <1>1, <1>6

LEMMA TypedIn == ASSUME SignInInv PROVE Typed \subseteq Otps \cup Codes \cup {None}
BY DEF Typed, SignInInv, TypeOK

LEMMA AskAuth ==
  ASSUME SignInInv, NEW r \in Requests, Auth(r)
  PROVE  SignInInv'
<1>1. CASE PostLogin(r)
  <2>1. CASE Issue(r) BY <2>1, AskEnd, KeysAndClock DEF Issue, ways
  <2> QED BY <1>1, <2>1, AskBegin, AskLockUser, AskInvalidate, AskInvite DEF PostLogin
<1>2. CASE PostMfaVerify(r)
  <2>1. ASSUME NEW c \in Challenges, NEW f \in Typed, challenge[c].guesses < MaxGuesses, TakeChallenge(r, c, "code", f)
        PROVE  SignInInv'
    BY <2>1, AskTakeChallenge, TypedIn
  <2> QED BY <1>2, <2>1, AskSpoil, AskLockMethod, AskAccept, AskReject DEF PostMfaVerify
<1>3. ASSUME NEW me \in Asker, NEW y \in Ceremonies, NEW k \in Keys, TakeCeremony(r, me, y, k), me.locks = {}, me.c = None
      PROVE  SignInInv'
  BY <1>3, AskPresent
<1>4. ASSUME NEW way \in {"login", "reauth", "register"}, Present(r, way) PROVE SignInInv'
  <2> DEFINE me == [Idle EXCEPT !.way = way]
  <2>1. me \in Asker /\ me.locks = {} /\ me.c = None BY DEF Idle, Asker
  <2>2. PICK y \in Ceremonies, k \in Keys : TakeCeremony(r, me, y, k) BY <1>4 DEF Present
  <2> HIDE DEF me
  <2> QED BY <1>3, <2>1, <2>2
<1>5. CASE PostMfaPasskey(r)
  <2>1. CASE PresentMfa(r)
    <3>1. PICK y \in Ceremonies, k \in Keys : TakeCeremony(r, req[r], y, k) BY <2>1 DEF PresentMfa
    <3>2. /\ req[r] \in Asker /\ Good(req[r]) /\ req[r].at = "challenge"
          /\ \A q \in Requests \ {r} : req[q].locks \cap req[r].locks = {}
      BY <2>1 DEF PresentMfa, At, SignInInv, Askers, Apart
    <3>3. req[r].c # None => req[r].c \in req[r].locks \cap Live BY <3>2 DEF Good
    <3> QED BY <3>1, <3>2, <3>3, AskPresent
  <2>2. ASSUME NEW c \in Challenges, Options(r, "step_up", c) PROVE SignInInv' BY <2>2, AskOptions
  <2>3. ASSUME NEW c \in Challenges, TakeChallenge(r, c, "mfa", None) PROVE SignInInv'
    BY <2>3, AskTakeChallenge
  <2> QED BY <1>5, <2>1, <2>2, <2>3, AskTakeKey, AskAcceptKey DEF PostMfaPasskey
<1>6. CASE PostPasskeyLogin(r) \/ PostPasskeyReauth(r) \/ PostPasskeyRegistration(r)
  BY <1>4, <1>6, AskOptions, AskAddKey DEF PostPasskeyLogin, PostPasskeyReauth, PostPasskeyRegistration
<1>7. CASE PostTotpSetup(r) BY <1>7, AskStartSetup, AskDrawSecret DEF PostTotpSetup
<1>8. CASE PostTotpConfirm(r)
  <2>1. ASSUME NEW f \in Typed, Confirm(r, f) PROVE SignInInv'
    <3>1. f \in Otps BY <2>1 DEF Confirm
    <3> QED BY <2>1, <3>1, AskConfirm
  <2> QED BY <1>8, <2>1, AskEnable DEF PostTotpConfirm
<1>9. CASE PostRecoveryCodes(r) \/ DeleteTotp(r)
  <2>1. ASSUME NEW f \in Typed, NEW way \in {"regenerate", "disable"}, Sensitive(r, way, f) PROVE SignInInv'
    BY <2>1, AskSensitive, TypedIn
  <2> QED BY <1>9, <2>1, AskRegenerate, AskDisable DEF PostRecoveryCodes, DeleteTotp
<1>10. CASE DeletePasskey(r)
  <2>1. CASE DeleteKey(r)
    <3>1. keys' \subseteq Keys BY <2>1, KeysAndClock DEF DeleteKey
    <3> QED BY <2>1, <3>1, AskEnd, KeysAndClock DEF DeleteKey
  <2> QED BY <1>10, <2>1, AskRemoveKey DEF DeletePasskey
<1>11. CASE DeleteOAuth(r)
  <2>1. CASE DeleteLink(r) BY <2>1, AskEnd, KeysAndClock DEF DeleteLink
  <2> QED BY <1>11, <2>1, AskUnlink DEF DeleteOAuth
<1>12. CASE Rollback(r) BY <1>12, AskEnd, KeysAndClock DEF Rollback, ways
<1> QED BY <1>1, <1>2, <1>5, <1>6, <1>7, <1>8, <1>9, <1>10, <1>11, <1>12 DEF Auth

LEMMA SignInInit == ASSUME Init2 PROVE SignInInv
<1> USE BoundAssumption
<1>1. Found BY DEF Init2, Found2
<1>2. Idle \in Asker /\ Idle.at = "idle" /\ Idle.locks = {} BY DEF Idle, Asker
<1>3. req = [r \in Requests |-> Idle] BY <1>1 DEF Found
<1>4. Askers BY <1>2, <1>3 DEF Askers, Apart, Good
<1>5. /\ challenge = [c \in Challenges |-> None] /\ ceremony = [y \in Ceremonies |-> None]
      /\ keys \subseteq Keys /\ codes = issued /\ confirmed = 1 .. secrets /\ clock = 1
      /\ used = {} /\ again = {}
  BY <1>1 DEF Found
<1>6. Live = {} BY <1>5 DEF Live, Open
<1>7. /\ issued \subseteq Codes /\ secrets \in 0 .. MaxSecrets
      /\ method # None => /\ method \in Authenticator /\ method.secret = 1 /\ secrets = 1 /\ method.enabled
  <2>1. CASE method = None /\ issued = {} /\ secrets = 0 BY <2>1
  <2>2. CASE method = [secret |-> 1, enabled |-> TRUE, lapsed |-> FALSE, last |-> 0]
             /\ issued \in Batches(Codes) /\ secrets = 1
    BY <2>2 DEF Batches, Authenticator
  <2> QED BY <1>1, <2>1, <2>2 DEF Found
<1>8. TypeOK /\ Shown BY <1>5, <1>7 DEF TypeOK, Shown
<1>9. SpentOnce /\ OneLive BY <1>5, <1>6 DEF SpentOnce, OneLive
<1> QED BY <1>4, <1>8, <1>9 DEF SignInInv

LEMMA SignInNext ==
  ASSUME SignInInv, [Next2]_all
  PROVE  SignInInv'
<1>1. CASE InSignIn((\E r \in Requests : Auth(r)) \/ Lapse \/ Tick)
  BY <1>1, AskAuth, AskTime DEF InSignIn
<1>2. CASE UNCHANGED keyring
  BY <1>2 DEF keyring, factors, rows, history, SignInInv, TypeOK, Askers, Apart, Good, SpentOnce, OneLive,
              Shown, Live, Open, Enabled
<1>3. ASSUME NEW r \in Requests, Begin(r) PROVE SignInInv' BY <1>3, AskBegin
<1>4. [Next2]_all => \/ UNCHANGED keyring \/ \E r \in Requests : Begin(r)
                     \/ InSignIn((\E r \in Requests : Auth(r)) \/ Lapse \/ Tick)
  BY DEF Next2, all, InAdministration, InTokens, InFlows, InPictures, FlowSignsIn
<1> QED BY <1>1, <1>2, <1>3, <1>4

LEMMA SignInGood ==
  ASSUME SignInInv
  PROVE  UsedOnce /\ OneLiveChallenge /\ EnabledIsConfirmed
<1>1. OneLiveChallenge
  <2>1. CASE Live = {} BY <2>1, FS_EmptySet DEF OneLiveChallenge
  <2>2. CASE \E c : Live = {c} BY <2>2, FS_Singleton DEF OneLiveChallenge
  <2> QED BY <2>1, <2>2 DEF SignInInv, OneLive
<1> QED BY <1>1 DEF SignInInv, SpentOnce, Shown, UsedOnce, EnabledIsConfirmed, Enabled

-----------------------------------------------------------------------------
(* Flows with other services.  A Mastodon flow is in one request's hands at most (OneHand),  *)
(* its grant is gone before and its state not yet used; an application is registered by the  *)
(* request that holds the instance, and either kept or lost with it (OneApp).                 *)
Caller == [at : {"idle", "app", "registering", "registered", "flow", "exchanging", "link", "login",
                 "linking", "creating", "in"},
           flow : F!Started \cup {None}, i : Identities \cup {None}, u : Users \cup {None},
           locks : SUBSET {"app"}]

Registers(me) == me.at \in {"registering", "registered"}

FlowFits(me) ==
  /\ me.at # "idle" => me.flow # None
  /\ me.at \in {"app", "registering", "registered", "flow"} => me.flow.service = "mastodon"
  /\ me.at \in {"link", "login", "linking", "creating", "in"} => me.i \in Identities
  /\ Registers(me) => me.locks = {"app"}

FlowTyped ==
  /\ owner \in [Identities -> Users \cup {None}]
  /\ flowReq \in [Requests -> Caller] /\ \A r \in Requests : FlowFits(flowReq[r])
  /\ cookie \in [F!Services -> F!Started \cup {None}]
  /\ \A v \in F!Services : cookie[v] # None => cookie[v].service = v
  /\ grant \in [States -> F!Grant \cup {None}]
  /\ app \in [known : BOOLEAN, backoff : BOOLEAN]
  /\ registered \in 0 .. MaxApps /\ lost \in 0 .. MaxApps

(* The Mastodon flow that a request has in its hands, by the state *)
InHands(r, s) == /\ flowReq[r].flow # None /\ flowReq[r].flow.service = "mastodon"
                 /\ flowReq[r].flow.s = s

OneHand ==
  /\ \A r \in Requests, s \in States : InHands(r, s) =>
       /\ grant[s] = None /\ s \notin flowUsed
       /\ \A q \in Requests \ {r} : ~InHands(q, s)
  /\ \A s \in States : grant[s] # None => s \notin flowUsed

Kept == app.known \/ \E r \in Requests : flowReq[r].at = "registered"

OneApp ==
  /\ \A r \in Requests : Registers(flowReq[r]) =>
       ~app.known /\ \A q \in Requests \ {r} : ~Registers(flowReq[q])
  /\ registered = lost + (IF Kept THEN 1 ELSE 0)

FlowInv == FlowTyped /\ OneHand /\ OneApp /\ flowAgain = {}

(* A request takes a step with no new flow of Mastodon's and no business with the instance. *)
LEMMA FlowStep ==
  ASSUME FlowInv, NEW r \in Requests, NEW STATE me, me \in Caller, FlowFits(me),
         flowReq' = [flowReq EXCEPT ![r] = me],
         \/ me.flow \in {flowReq[r].flow, None}
         \/ me.flow # None /\ me.flow.service # "mastodon"
         \/ me.flow # None /\ \E s \in States : me.flow.s = s /\ grant'[s] = None /\ s \notin flowUsed
                              /\ \A q \in Requests : ~InHands(q, s),
         ~Registers(me), flowReq[r].at # "registered",
         UNCHANGED <<registered, lost, flowAgain>>,
         app' \in [known : BOOLEAN, backoff : BOOLEAN], app'.known = app.known,
         grant' \in [States -> F!Grant \cup {None}], \A s \in States : grant'[s] # None => grant[s] # None,
         flowUsed' = flowUsed,
         owner' \in [Identities -> Users \cup {None}],
         cookie' \in [F!Services -> F!Started \cup {None}],
         \A v \in F!Services : cookie'[v] # None => cookie'[v].service = v
  PROVE  FlowInv'
<1>1. /\ flowReq' \in [Requests -> Caller] /\ flowReq'[r] = me
      /\ \A q \in Requests \ {r} : flowReq'[q] = flowReq[q]
  BY DEF FlowInv, FlowTyped
<1>2. FlowTyped' BY <1>1 DEF FlowInv, FlowTyped, FlowFits, Registers
<1>3. \A q \in Requests \ {r}, s \in States : InHands(q, s)' <=> InHands(q, s) BY <1>1 DEF InHands
<1>4. \A s \in States : InHands(r, s)' =>
         \/ InHands(r, s)
         \/ grant'[s] = None /\ s \notin flowUsed /\ \A q \in Requests : ~InHands(q, s)
  BY <1>1 DEF InHands
<1>5. OneHand BY DEF FlowInv
<1>6. OneHand'
  <2>1. ASSUME NEW q \in Requests, NEW s \in States, InHands(q, s)'
        PROVE  grant'[s] = None /\ s \notin flowUsed /\ \A p \in Requests \ {q} : ~InHands(p, s)'
    <3>1. CASE InHands(q, s)
      <4>1. grant[s] = None /\ s \notin flowUsed /\ \A p \in Requests \ {q} : ~InHands(p, s)
        BY <1>5, <3>1 DEF OneHand
      <4>2. ~\A p \in Requests : ~InHands(p, s) BY <3>1
      <4> QED BY <1>3, <1>4, <4>1, <4>2
    <3>2. CASE q = r /\ ~InHands(r, s) BY <1>3, <1>4, <2>1, <3>2
    <3> QED BY <1>3, <2>1, <3>1, <3>2
  <2> QED BY <1>5, <2>1 DEF OneHand
<1>7. Kept' <=> Kept BY <1>1 DEF Kept, Registers
<1>8. OneApp' BY <1>1, <1>7 DEF FlowInv, OneApp, Registers
<1> QED BY <1>2, <1>6, <1>8 DEF FlowInv

(* A request that ends, whatever it had in its hands *)
LEMMA FlowEnd ==
  ASSUME FlowInv, NEW r \in Requests, F!End(r), flowReq[r].at # "registered",
         UNCHANGED <<registered, lost, flowAgain, flowUsed, grant>>,
         app' \in [known : BOOLEAN, backoff : BOOLEAN], app'.known = app.known,
         owner' \in [Identities -> Users \cup {None}],
         cookie' = cookie \/ \E v \in F!Services : cookie' = [cookie EXCEPT ![v] = None]
  PROVE  FlowInv'
<1> DEFINE me == F!Idle
<1>1. me \in Caller /\ FlowFits(me) /\ me.flow = None /\ ~Registers(me) /\ flowReq' = [flowReq EXCEPT ![r] = me]
  BY DEF F!Idle, Caller, FlowFits, Registers, F!End, F!Go
<1>2. grant' \in [States -> F!Grant \cup {None}] BY DEF FlowInv, FlowTyped
<1>3. /\ cookie' \in [F!Services -> F!Started \cup {None}]
      /\ \A v \in F!Services : cookie'[v] # None => cookie'[v].service = v
  BY DEF FlowInv, FlowTyped
<1> HIDE DEF me
<1> QED BY <1>1, <1>2, <1>3, FlowStep

LEMMA FlowOAuthStart ==
  ASSUME FlowInv, NEW r \in Requests, NEW f \in F!Flows, F!OAuthStart(r, f)
  PROVE  FlowInv'
<1>1. PICK s \in F!Unstarted : cookie' = [cookie EXCEPT ![f.service] = F!Given(f, s)]
  BY DEF F!OAuthStart
<1>2. UNCHANGED <<owner, grant, app, registered, lost, flowReq, flowUsed, flowAgain>>
  BY DEF F!OAuthStart, F!apps, F!history
<1>3. F!Given(f, s) \in F!Started /\ F!Given(f, s).service = f.service /\ f.service \in F!Services
  BY DEF F!Given, F!Started, F!Flows, F!Unstarted
<1>4. FlowTyped' BY <1>1, <1>2, <1>3 DEF FlowInv, FlowTyped
<1> QED BY <1>2, <1>4 DEF FlowInv, OneHand, InHands, OneApp, Kept

LEMMA FlowMastodonStart ==
  ASSUME FlowInv, NEW r \in Requests, NEW f \in F!Flows, F!MastodonStart(r, f)
  PROVE  FlowInv'
<1> USE FlowAssumption
<1>1. PICK s \in F!Unstarted : flowReq' = [flowReq EXCEPT ![r] = [F!Idle EXCEPT !.at = "app", !.flow = F!Given(f, s)]]
  BY DEF F!MastodonStart, F!Go
<1> DEFINE me == [F!Idle EXCEPT !.at = "app", !.flow = F!Given(f, s)]
<1>2. UNCHANGED <<owner, grant, app, registered, lost, cookie, flowUsed, flowAgain>> /\ flowReq[r].at = "idle"
  BY DEF F!MastodonStart, F!apps, F!history, F!At
<1>3. F!Given(f, s) \in F!Started /\ F!Given(f, s).service = "mastodon" /\ F!Given(f, s).s = s
  BY DEF F!Given, F!Started, F!Flows, F!Unstarted, F!MastodonStart
<1>4. me \in Caller /\ me.at = "app" /\ me.flow = F!Given(f, s) /\ me.flow # None
  BY <1>3 DEF F!Idle, Caller
<1>5. s \in States /\ grant[s] = None /\ s \notin flowUsed /\ \A q \in Requests : ~InHands(q, s)
  BY DEF F!Unstarted, F!InHand, InHands
<1>6. FlowFits(me) /\ ~Registers(me) BY <1>3, <1>4 DEF FlowFits, Registers
<1>7. me.flow.s = s BY <1>3, <1>4
<1>8. /\ app \in [known : BOOLEAN, backoff : BOOLEAN] /\ grant \in [States -> F!Grant \cup {None}]
      /\ owner \in [Identities -> Users \cup {None}]
      /\ cookie \in [F!Services -> F!Started \cup {None}]
      /\ \A v \in F!Services : cookie[v] # None => cookie[v].service = v
  BY DEF FlowInv, FlowTyped
<1> HIDE DEF me
<1>9. flowReq' = [flowReq EXCEPT ![r] = me] BY <1>1 DEF me
<1> QED BY <1>2, <1>4, <1>5, <1>6, <1>7, <1>8, <1>9, FlowStep

LEMMA FlowLockApp ==
  ASSUME FlowInv, NEW r \in Requests, F!LockApp(r)
  PROVE  FlowInv'
<1>1. /\ UNCHANGED <<owner, grant, app, registered, lost, cookie, flowUsed, flowAgain>>
      /\ flowReq[r].at = "app" /\ flowReq[r] \in Caller /\ FlowFits(flowReq[r])
  BY DEF F!LockApp, F!apps, F!history, F!At, FlowInv, FlowTyped
<1>2. /\ app \in [known : BOOLEAN, backoff : BOOLEAN] /\ grant \in [States -> F!Grant \cup {None}]
      /\ owner \in [Identities -> Users \cup {None}]
      /\ cookie \in [F!Services -> F!Started \cup {None}]
      /\ \A v \in F!Services : cookie[v] # None => cookie[v].service = v
  BY DEF FlowInv, FlowTyped
<1>3. CASE app.known
  <2> DEFINE me == [flowReq[r] EXCEPT !.at = "flow"]
  <2>1. me \in Caller /\ FlowFits(me) /\ ~Registers(me) /\ me.flow = flowReq[r].flow
    BY <1>1 DEF Caller, FlowFits, Registers
  <2>2. flowReq' = [flowReq EXCEPT ![r] = me] BY <1>3 DEF F!LockApp, F!Go
  <2> HIDE DEF me
  <2> QED BY <1>1, <1>2, <2>1, <2>2, FlowStep
<1>4. CASE ~app.known /\ app.backoff BY <1>1, <1>2, <1>4, FlowEnd DEF F!LockApp
<1>5. CASE ~app.known /\ ~app.backoff
  <2> DEFINE me == [flowReq[r] EXCEPT !.at = "registering", !.locks = {"app"}]
  <2>1. /\ me \in Caller /\ FlowFits(me) /\ me.flow = flowReq[r].flow /\ me.at = "registering"
    BY <1>1 DEF Caller, FlowFits, Registers
  <2>2. flowReq' = [flowReq EXCEPT ![r] = me] BY <1>5 DEF F!LockApp, F!Go
  <2> HIDE DEF me
  <2>3. /\ flowReq' \in [Requests -> Caller] /\ flowReq'[r] = me
        /\ \A q \in Requests \ {r} : flowReq'[q] = flowReq[q]
    BY <2>1, <2>2 DEF FlowInv, FlowTyped
  <2>4. \A q \in Requests \ {r} : ~Registers(flowReq[q])
    <3>1. \A q \in Requests \ {r} : "app" \notin flowReq[q].locks BY DEF F!LockApp, F!Free
    <3> QED BY <3>1 DEF FlowInv, FlowTyped, FlowFits
  <2>5. FlowTyped' BY <1>1, <2>1, <2>3 DEF FlowInv, FlowTyped, FlowFits, Registers
  <2>6. \A q \in Requests, s \in States : InHands(q, s)' <=> InHands(q, s) BY <2>1, <2>3 DEF InHands
  <2>7. OneHand' BY <1>1, <2>6 DEF FlowInv, OneHand
  <2>8. ~Kept /\ ~Kept' BY <1>1, <1>5, <2>1, <2>3, <2>4 DEF Kept, Registers
  <2>9. OneApp' BY <1>1, <1>5, <2>3, <2>4, <2>8 DEF FlowInv, OneApp, Registers
  <2> QED BY <1>1, <2>5, <2>7, <2>9 DEF FlowInv
<1> QED BY <1>3, <1>4, <1>5

(* Steps of the registration: the instance stays in the hands of this request. *)
LEMMA FlowRegister ==
  ASSUME FlowInv, NEW r \in Requests, F!Register(r) \/ F!KeepApp(r)
  PROVE  FlowInv'
<1>1. /\ UNCHANGED <<owner, grant, lost, cookie, flowUsed, flowAgain>>
      /\ Registers(flowReq[r]) /\ flowReq[r] \in Caller /\ FlowFits(flowReq[r])
  BY DEF F!Register, F!KeepApp, F!history, F!At, FlowInv, FlowTyped, Registers
<1>2. ~app.known /\ \A q \in Requests \ {r} : ~Registers(flowReq[q])
  BY <1>1 DEF FlowInv, OneApp
<1>3. /\ registered \in Nat /\ lost \in Nat /\ registered \in 0 .. MaxApps /\ MaxApps \in Nat
      /\ lost \in 0 .. MaxApps
  BY FlowAssumption DEF FlowInv, FlowTyped
<1>4. CASE F!Register(r)
  <2> DEFINE me == [flowReq[r] EXCEPT !.at = "registered"]
  <2>1. /\ me \in Caller /\ FlowFits(me) /\ me.flow = flowReq[r].flow /\ me.at = "registered"
        /\ flowReq' = [flowReq EXCEPT ![r] = me] /\ flowReq[r].at = "registering"
        /\ registered < MaxApps /\ registered' = registered + 1 /\ app' = app
    BY <1>1, <1>4 DEF Caller, FlowFits, Registers, F!Register, F!Go, F!At
  <2> HIDE DEF me
  <2>2. /\ flowReq' \in [Requests -> Caller] /\ flowReq'[r] = me
        /\ \A q \in Requests \ {r} : flowReq'[q] = flowReq[q]
    BY <2>1 DEF FlowInv, FlowTyped
  <2>3. registered' \in 0 .. MaxApps BY <1>3, <2>1
  <2>4. FlowTyped' BY <1>1, <2>1, <2>2, <2>3 DEF FlowInv, FlowTyped, FlowFits, Registers
  <2>5. \A q \in Requests, s \in States : InHands(q, s)' <=> InHands(q, s) BY <2>1, <2>2 DEF InHands
  <2>6. OneHand' BY <1>1, <2>5 DEF FlowInv, OneHand
  <2>7. ~Kept /\ Kept' BY <1>2, <2>1, <2>2 DEF Kept, Registers
  <2>8. registered = lost + 0 BY <2>7 DEF FlowInv, OneApp
  <2>9. OneApp' BY <1>1, <1>2, <1>3, <2>1, <2>2, <2>7, <2>8 DEF OneApp, Registers
  <2> QED BY <1>1, <2>4, <2>6, <2>9 DEF FlowInv
<1>5. CASE F!KeepApp(r)
  <2> DEFINE me == [flowReq[r] EXCEPT !.at = "flow", !.locks = {}]
  <2>1. /\ me \in Caller /\ FlowFits(me) /\ me.flow = flowReq[r].flow /\ me.at = "flow"
        /\ flowReq' = [flowReq EXCEPT ![r] = me] /\ flowReq[r].at = "registered"
        /\ registered' = registered /\ app' = [known |-> TRUE, backoff |-> FALSE]
    BY <1>1, <1>5 DEF Caller, FlowFits, Registers, F!KeepApp, F!Go, F!At
  <2> HIDE DEF me
  <2>2. /\ flowReq' \in [Requests -> Caller] /\ flowReq'[r] = me
        /\ \A q \in Requests \ {r} : flowReq'[q] = flowReq[q]
    BY <2>1 DEF FlowInv, FlowTyped
  <2>3. app' \in [known : BOOLEAN, backoff : BOOLEAN] /\ app'.known BY <2>1
  <2>4. FlowTyped' BY <1>1, <2>1, <2>2, <2>3 DEF FlowInv, FlowTyped, FlowFits, Registers
  <2>5. \A q \in Requests, s \in States : InHands(q, s)' <=> InHands(q, s) BY <2>1, <2>2 DEF InHands
  <2>6. OneHand' BY <1>1, <2>5 DEF FlowInv, OneHand
  <2>7. Kept /\ Kept' BY <2>1, <2>3 DEF Kept
  <2>8. OneApp' BY <1>1, <1>2, <2>1, <2>2, <2>7 DEF FlowInv, OneApp, Registers
  <2> QED BY <1>1, <2>4, <2>6, <2>8 DEF FlowInv
<1> QED BY <1>4, <1>5

(* What was registered and not kept is lost. *)
LEMMA FlowRollback ==
  ASSUME FlowInv, NEW r \in Requests, F!Rollback(r)
  PROVE  FlowInv'
<1>1. /\ UNCHANGED <<owner, grant, app, registered, cookie, flowUsed, flowAgain>> /\ F!End(r)
      /\ app \in [known : BOOLEAN, backoff : BOOLEAN]
      /\ owner \in [Identities -> Users \cup {None}]
  BY DEF F!Rollback, F!history, FlowInv, FlowTyped
<1>2. CASE flowReq[r].at # "registered"
  BY <1>1, <1>2, FlowEnd DEF F!Rollback, F!At
<1>3. CASE flowReq[r].at = "registered"
  <2> DEFINE me == F!Idle
  <2>1. /\ me \in Caller /\ FlowFits(me) /\ me.flow = None /\ me.at = "idle"
        /\ flowReq' = [flowReq EXCEPT ![r] = me] /\ lost' = lost + 1
    BY <1>1, <1>3 DEF F!Idle, Caller, FlowFits, Registers, F!End, F!Go, F!Rollback, F!At
  <2> HIDE DEF me
  <2>2. /\ flowReq' \in [Requests -> Caller] /\ flowReq'[r] = me
        /\ \A q \in Requests \ {r} : flowReq'[q] = flowReq[q]
    BY <2>1 DEF FlowInv, FlowTyped
  <2>3. ~app.known /\ \A q \in Requests \ {r} : ~Registers(flowReq[q])
    BY <1>3 DEF FlowInv, OneApp, Registers
  <2>4. Kept /\ ~Kept' BY <1>1, <1>3, <2>1, <2>2, <2>3 DEF Kept, Registers
  <2>5. registered = lost + 1 BY <2>4 DEF FlowInv, OneApp
  <2>6. lost' \in 0 .. MaxApps /\ registered' = lost' + 0
    BY <1>1, <2>1, <2>5 DEF FlowInv, FlowTyped
  <2>7. FlowTyped' BY <1>1, <2>1, <2>2, <2>6 DEF FlowInv, FlowTyped, FlowFits, Registers
  <2>8. \A q \in Requests, s \in States : InHands(q, s)' => InHands(q, s)
    BY <2>1, <2>2 DEF InHands
  <2>9. OneHand' BY <1>1, <2>8 DEF FlowInv, OneHand
  <2>10. OneApp' BY <1>1, <2>1, <2>2, <2>3, <2>4, <2>6 DEF OneApp, Registers
  <2> QED BY <1>1, <2>7, <2>9, <2>10 DEF FlowInv
<1> QED BY <1>2, <1>3

(* The grant is there for the flow that comes out of the request's hands. *)
LEMMA FlowNewGrant ==
  ASSUME FlowInv, NEW r \in Requests, F!NewGrant(r)
  PROVE  FlowInv'
<1> USE FlowAssumption
<1>1. /\ UNCHANGED <<owner, app, registered, lost, flowUsed, flowAgain>>
      /\ flowReq[r] \in Caller /\ flowReq[r].at = "flow" /\ FlowFits(flowReq[r])
  BY DEF F!NewGrant, F!apps, F!history, F!At, FlowInv, FlowTyped
<1> DEFINE f == flowReq[r].flow
           me == F!Idle
<1>2. f \in F!Started /\ f # None /\ f.service = "mastodon" /\ f.s \in States
  BY <1>1 DEF Caller, FlowFits, F!Started
<1>3. /\ cookie' = [cookie EXCEPT !["mastodon"] = f]
      /\ grant' = [s \in States |-> IF s = f.s THEN [lapsed |-> FALSE]
                                    ELSE IF grant[s] # None /\ grant[s].lapsed THEN None ELSE grant[s]]
  BY DEF F!NewGrant
<1>4. "mastodon" \in F!Services BY <1>2 DEF F!Started
<1>5. InHands(r, f.s) BY <1>2 DEF InHands
<1>6. /\ me \in Caller /\ FlowFits(me) /\ me.flow = None /\ me.at = "idle"
      /\ flowReq' = [flowReq EXCEPT ![r] = me]
  BY DEF F!Idle, Caller, FlowFits, Registers, F!End, F!Go, F!NewGrant
<1> HIDE DEF f, me
<1>7. /\ flowReq' \in [Requests -> Caller] /\ flowReq'[r] = me
      /\ \A q \in Requests \ {r} : flowReq'[q] = flowReq[q]
  BY <1>6 DEF FlowInv, FlowTyped
<1>8. [lapsed |-> FALSE] \in F!Grant BY DEF F!Grant
<1>9. grant' \in [States -> F!Grant \cup {None}] /\ \A s \in States \ {f.s} : grant'[s] # None => grant[s] # None
  BY <1>3, <1>8 DEF FlowInv, FlowTyped
<1>10. /\ cookie' \in [F!Services -> F!Started \cup {None}]
       /\ \A v \in F!Services : cookie'[v] # None => cookie'[v].service = v
  BY <1>2, <1>3, <1>4 DEF FlowInv, FlowTyped
<1>11. FlowTyped' BY <1>1, <1>6, <1>7, <1>9, <1>10 DEF FlowInv, FlowTyped, FlowFits, Registers
<1>12. \A q \in Requests, s \in States : InHands(q, s)' => InHands(q, s) /\ q # r
  BY <1>6, <1>7 DEF InHands
<1>13. f.s \notin flowUsed /\ \A q \in Requests \ {r} : ~InHands(q, f.s)
  BY <1>2, <1>5 DEF FlowInv, OneHand
<1>14. OneHand' BY <1>1, <1>9, <1>12, <1>13 DEF FlowInv, OneHand
<1>15. Kept' <=> Kept BY <1>1, <1>6, <1>7 DEF Kept
<1>16. OneApp' BY <1>1, <1>6, <1>7, <1>15 DEF FlowInv, OneApp, Registers
<1> QED BY <1>1, <1>11, <1>14, <1>16 DEF FlowInv

(* The flow comes back with the browser: Mastodon's takes its grant away. *)
LEMMA FlowCallback ==
  ASSUME FlowInv, NEW r \in Requests, NEW service \in F!Services, F!Callback(r, service)
  PROVE  FlowInv'
<1> USE FlowAssumption
<1> DEFINE f == cookie[service]
           me == [F!Idle EXCEPT !.at = "exchanging", !.flow = f]
<1>1. /\ UNCHANGED <<owner, app, registered, lost, flowUsed, flowAgain>> /\ flowReq[r].at = "idle"
      /\ f # None /\ f \in F!Started /\ f.service = service /\ f.s \in States
  BY DEF F!Callback, F!apps, F!history, F!At, FlowInv, FlowTyped, F!Started
<1>2. /\ app \in [known : BOOLEAN, backoff : BOOLEAN] /\ grant \in [States -> F!Grant \cup {None}]
      /\ owner \in [Identities -> Users \cup {None}]
      /\ cookie \in [F!Services -> F!Started \cup {None}]
      /\ \A v \in F!Services : cookie[v] # None => cookie[v].service = v
      /\ flowReq \in [Requests -> Caller] /\ FlowFits(flowReq[r])
  BY DEF FlowInv, FlowTyped
<1>3. CASE service = "mastodon" /\ ~F!Consumed(f.s)
  <2> DEFINE stay == flowReq[r]
  <2>1. /\ cookie' = [cookie EXCEPT ![service] = None] /\ grant' = grant
        /\ flowReq' = [flowReq EXCEPT ![r] = stay]
    BY <1>2, <1>3 DEF F!Callback
  <2>2. stay \in Caller /\ FlowFits(stay) /\ ~Registers(stay) /\ stay.flow = flowReq[r].flow
    BY <1>1, <1>2 DEF Registers
  <2>3. /\ cookie' \in [F!Services -> F!Started \cup {None}]
        /\ \A v \in F!Services : cookie'[v] # None => cookie'[v].service = v
    BY <1>2, <2>1
  <2> HIDE DEF stay, f, me
  <2> QED BY <1>1, <1>2, <2>1, <2>2, <2>3, FlowStep
<1>4. CASE ~(service = "mastodon" /\ ~F!Consumed(f.s))
  <2>1. /\ cookie' = cookie /\ flowReq' = [flowReq EXCEPT ![r] = me]
        /\ grant' = IF service = "mastodon" THEN [grant EXCEPT ![f.s] = None] ELSE grant
    BY <1>4 DEF F!Callback, F!Go, F!Without
  <2>2. /\ me \in Caller /\ FlowFits(me) /\ ~Registers(me) /\ me.flow = f
    BY <1>1 DEF Registers, Caller, FlowFits, F!Idle
  <2>3. /\ grant' \in [States -> F!Grant \cup {None}] /\ \A s \in States : grant'[s] # None => grant[s] # None
        /\ service = "mastodon" => grant'[f.s] = None
    BY <1>1, <1>2, <2>1
  <2>4. service = "mastodon" => f.s \notin flowUsed /\ \A q \in Requests : ~InHands(q, f.s)
    <3> SUFFICES ASSUME service = "mastodon"
                 PROVE  f.s \notin flowUsed /\ \A q \in Requests : ~InHands(q, f.s)
      OBVIOUS
    <3>1. grant[f.s] # None BY <1>4 DEF F!Consumed
    <3> HIDE DEF f
    <3> QED BY <1>1, <3>1 DEF FlowInv, OneHand
  <2> HIDE DEF me, f
  <2> QED BY <1>1, <1>2, <2>1, <2>2, <2>3, <2>4, FlowStep
<1> QED BY <1>3, <1>4

(* A request that goes on with the flow in its hands *)
LEMMA FlowGoesOn ==
  ASSUME FlowInv, NEW r \in Requests, NEW STATE me, me \in Caller, flowReq' = [flowReq EXCEPT ![r] = me],
         FlowFits(me), me.flow = flowReq[r].flow, me.at \in {"link", "login", "linking", "creating", "in"},
         ~Registers(flowReq[r]), owner' \in [Identities -> Users \cup {None}],
         UNCHANGED <<cookie, grant, app, registered, lost, flowUsed, flowAgain>>
  PROVE  FlowInv'
<1>1. ~Registers(me) /\ flowReq[r].at # "registered" BY DEF Registers
<1>2. /\ app \in [known : BOOLEAN, backoff : BOOLEAN] /\ grant \in [States -> F!Grant \cup {None}]
      /\ cookie \in [F!Services -> F!Started \cup {None}]
      /\ \A v \in F!Services : cookie[v] # None => cookie[v].service = v
  BY DEF FlowInv, FlowTyped
<1> QED BY <1>1, <1>2, FlowStep

LEMMA FlowExchange ==
  ASSUME FlowInv, NEW r \in Requests, F!Exchange(r)
  PROVE  FlowInv'
<1>1. PICK i \in Identities : flowReq' = [flowReq EXCEPT ![r] = [flowReq[r] EXCEPT !.at = flowReq[r].flow.mode, !.i = i]]
  BY DEF F!Exchange, F!Go
<1>2. /\ UNCHANGED <<owner, cookie, grant, app, registered, lost, flowUsed, flowAgain>>
      /\ flowReq[r].at = "exchanging" /\ flowReq[r] \in Caller /\ FlowFits(flowReq[r])
      /\ owner \in [Identities -> Users \cup {None}]
  BY DEF F!Exchange, F!apps, F!history, F!At, FlowInv, FlowTyped
<1>3. flowReq[r].flow.mode \in {"link", "login"} /\ flowReq[r].flow # None
  BY <1>2 DEF Caller, FlowFits, F!Started
<1> DEFINE me == [flowReq[r] EXCEPT !.at = flowReq[r].flow.mode, !.i = i]
<1>4. /\ me \in Caller /\ FlowFits(me) /\ me.flow = flowReq[r].flow /\ ~Registers(flowReq[r])
      /\ me.at \in {"link", "login"}
  BY <1>2, <1>3 DEF Registers, Caller, FlowFits
<1> HIDE DEF me
<1>5. flowReq' = [flowReq EXCEPT ![r] = me] BY <1>1 DEF me
<1> QED BY <1>2, <1>4, <1>5, FlowGoesOn

LEMMA FlowDecides ==
  ASSUME FlowInv, NEW r \in Requests, F!Link(r) \/ F!Known(r) \/ F!NewUser(r) \/ F!Created(r)
  PROVE  FlowInv'
<1>1. /\ UNCHANGED <<cookie, grant, app, registered, lost, flowUsed, flowAgain>>
      /\ flowReq[r].at \in {"link", "login", "creating"} /\ flowReq[r] \in Caller /\ FlowFits(flowReq[r])
      /\ owner \in [Identities -> Users \cup {None}]
  BY DEF F!Link, F!Known, F!NewUser, F!Created, F!apps, F!history, F!At, FlowInv, FlowTyped
<1>2. flowReq[r].i \in Identities BY <1>1 DEF FlowFits
<1>3. CASE F!Link(r) \/ F!NewUser(r)
  <2>1. PICK place \in {"linking", "creating"} : flowReq' = [flowReq EXCEPT ![r] = [flowReq[r] EXCEPT !.at = place]]
    BY <1>3 DEF F!Link, F!NewUser, F!Go
  <2> DEFINE me == [flowReq[r] EXCEPT !.at = place]
  <2>2. /\ me \in Caller /\ FlowFits(me) /\ me.flow = flowReq[r].flow /\ ~Registers(flowReq[r])
        /\ me.at \in {"linking", "creating"}
    BY <1>1 DEF Registers, Caller, FlowFits
  <2>3. owner' = owner BY <1>3 DEF F!Link, F!NewUser
  <2> HIDE DEF me
  <2>4. flowReq' = [flowReq EXCEPT ![r] = me] BY <2>1 DEF me
  <2> QED BY <1>1, <2>2, <2>3, <2>4, FlowGoesOn
<1>4. CASE F!Known(r) \/ F!Created(r)
  <2>1. PICK u \in Users \cup {None} : flowReq' = [flowReq EXCEPT ![r] = [flowReq[r] EXCEPT !.at = "in", !.u = u]]
    BY <1>1, <1>2, <1>4 DEF F!Known, F!Created, F!Go
  <2> DEFINE me == [flowReq[r] EXCEPT !.at = "in", !.u = u]
  <2>2. /\ me \in Caller /\ FlowFits(me) /\ me.flow = flowReq[r].flow /\ ~Registers(flowReq[r])
        /\ me.at = "in"
    BY <1>1 DEF Registers, Caller, FlowFits
  <2>3. owner' \in [Identities -> Users \cup {None}] BY <1>1, <1>4 DEF F!Known, F!Created
  <2> HIDE DEF me
  <2>4. flowReq' = [flowReq EXCEPT ![r] = me] BY <2>1 DEF me
  <2> QED BY <1>1, <2>2, <2>3, <2>4, FlowGoesOn
<1> QED BY <1>3, <1>4

(* A flow that has led somewhere is used, and was not before. *)
LEMMA FlowDone ==
  ASSUME FlowInv, NEW r \in Requests, flowReq[r].at \in {"linking", "in"},
         F!Completes(r), F!NoCookie(r), F!End(r), UNCHANGED <<grant, app, registered, lost>>,
         owner' \in [Identities -> Users \cup {None}]
  PROVE  FlowInv'
<1> DEFINE f == flowReq[r].flow
           me == F!Idle
<1>1. /\ flowReq[r] \in Caller /\ FlowFits(flowReq[r]) /\ f \in F!Started /\ f # None
      /\ f.service \in F!Services /\ f.s \in States
  BY DEF FlowInv, FlowTyped, FlowFits, Caller, F!Started
<1>2. /\ me \in Caller /\ FlowFits(me) /\ me.flow = None /\ me.at = "idle"
      /\ flowReq' = [flowReq EXCEPT ![r] = me]
  BY DEF F!Idle, Caller, FlowFits, Registers, F!End, F!Go
<1>3. /\ cookie' \in [F!Services -> F!Started \cup {None}]
      /\ \A v \in F!Services : cookie'[v] # None => cookie'[v].service = v
  BY DEF F!NoCookie, FlowInv, FlowTyped
<1> DEFINE S == IF f.service = "mastodon" THEN {f.s} ELSE {}
<1>4. flowUsed' = flowUsed \cup S /\ flowAgain' = flowAgain \cup (flowUsed \cap S)
  BY DEF F!Completes
<1>5. \A s \in S : InHands(r, s) /\ s \in States BY <1>1 DEF InHands
<1> HIDE DEF f, me, S
<1>6. /\ flowReq' \in [Requests -> Caller] /\ flowReq'[r] = me
      /\ \A q \in Requests \ {r} : flowReq'[q] = flowReq[q]
  BY <1>2 DEF FlowInv, FlowTyped
<1>7. flowAgain' = {} BY <1>4, <1>5 DEF FlowInv, OneHand
<1>8. FlowTyped' BY <1>2, <1>3, <1>6 DEF FlowInv, FlowTyped, FlowFits, Registers
<1>9. \A q \in Requests, s \in States : InHands(q, s)' => InHands(q, s) /\ q # r
  BY <1>2, <1>6 DEF InHands
<1>10. \A s \in S : grant[s] = None /\ \A q \in Requests \ {r} : ~InHands(q, s)
  BY <1>5 DEF FlowInv, OneHand
<1>11. OneHand' BY <1>4, <1>9, <1>10 DEF FlowInv, OneHand
<1>12. Kept' <=> Kept BY <1>2, <1>6 DEF Kept
<1>13. OneApp' BY <1>2, <1>6, <1>12 DEF FlowInv, OneApp, Registers
<1> QED BY <1>7, <1>8, <1>11, <1>13 DEF FlowInv

LEMMA FlowSteps ==
  ASSUME FlowInv, Flow \/ F!Time \/ FlowSignsIn
  PROVE  FlowInv'
<1>1. owner \in [Identities -> Users \cup {None}] BY DEF FlowInv, FlowTyped
<1>2. ASSUME NEW r \in Requests, F!Start(r) PROVE FlowInv'
  <2>1. CASE F!RegisterFails(r)
    <3>1. /\ app' = [app EXCEPT !.backoff = TRUE] /\ flowReq[r].at = "registering"
          /\ UNCHANGED <<owner, cookie, grant, registered, lost, flowUsed, flowAgain>> /\ F!End(r)
      BY <2>1 DEF F!RegisterFails, F!At, F!history
    <3>2. app' \in [known : BOOLEAN, backoff : BOOLEAN] /\ app'.known = app.known
      BY <3>1 DEF FlowInv, FlowTyped
    <3> QED BY <1>1, <3>1, <3>2, FlowEnd
  <2> QED BY <1>2, <2>1, FlowOAuthStart, FlowMastodonStart, FlowLockApp, FlowRegister, FlowNewGrant DEF F!Start
<1>3. ASSUME NEW r \in Requests, F!Return(r) PROVE FlowInv'
  <2>1. CASE F!Fail(r)
    <3>1. /\ flowReq[r].at \in {"exchanging", "link", "login", "linking", "creating"}
          /\ UNCHANGED <<owner, grant, app, registered, lost, flowUsed, flowAgain>> /\ F!End(r)
          /\ cookie' = [cookie EXCEPT ![flowReq[r].flow.service] = None]
      BY <2>1 DEF F!Fail, F!NoCookie, F!apps, F!history
    <3>2. flowReq[r].flow.service \in F!Services
      BY <3>1 DEF FlowInv, FlowTyped, FlowFits, Caller, F!Started
    <3>3. app \in [known : BOOLEAN, backoff : BOOLEAN] BY DEF FlowInv, FlowTyped
    <3> QED BY <1>1, <3>1, <3>2, <3>3, FlowEnd
  <2>2. CASE F!Linked(r)
    <3>1. flowReq[r].at = "linking" /\ flowReq[r] \in Caller /\ FlowFits(flowReq[r])
      BY <2>2 DEF F!Linked, F!At, FlowInv, FlowTyped
    <3>2. flowReq[r].flow \in F!Started BY <3>1 DEF Caller, FlowFits
    <3>3. owner' \in [Identities -> Users \cup {None}]
      BY <1>1, <2>2, <3>1, <3>2 DEF F!Linked, F!Started
    <3> QED BY <2>2, <3>1, <3>3, FlowDone DEF F!Linked, F!apps
  <2> QED BY <1>3, <2>1, <2>2, FlowCallback, FlowExchange, FlowDecides DEF F!Return
<1>4. CASE F!Time
  <2>1. /\ UNCHANGED <<owner, cookie, registered, lost, flowReq, flowUsed, flowAgain>>
        /\ app' \in [known : BOOLEAN, backoff : BOOLEAN] /\ app'.known = app.known
        /\ grant' \in [States -> F!Grant \cup {None}] /\ \A s \in States : grant'[s] # None => grant[s] # None
    BY <1>4 DEF F!Time, F!history, F!Grant, FlowInv, FlowTyped
  <2>2. OneHand' BY <2>1 DEF FlowInv, OneHand, InHands
  <2>3. OneApp' BY <2>1 DEF FlowInv, OneApp, Kept
  <2> QED BY <2>1, <2>2, <2>3 DEF FlowInv, FlowTyped
<1>5. ASSUME NEW r \in Requests, F!SignedIn(r) PROVE FlowInv'
  BY <1>1, <1>5, FlowDone DEF F!SignedIn, F!apps, F!At
<1> QED BY <1>2, <1>3, <1>4, <1>5, FlowRollback DEF Flow, FlowSignsIn

(* The removal of a link is all that the others do to the flows. *)
LEMMA OwnerKept ==
  ASSUME owner \in [Identities -> Users \cup {None}], (\E r \in Requests : Auth(r)) \/ Lapse \/ Tick
  PROVE  owner' \in [Identities -> Users \cup {None}]
<1>1. CASE Lapse \/ Tick BY <1>1 DEF Lapse, Tick, ways
<1>2. ASSUME NEW r \in Requests, Auth(r) PROVE owner' \in [Identities -> Users \cup {None}]
  <2>1. CASE PostLogin(r) \/ PostMfaVerify(r) \/ Rollback(r)
    BY <2>1 DEF PostLogin, PostMfaVerify, Rollback, Begin, LockUser, Invalidate, Invite, Issue,
                TakeChallenge, Spoil, LockMethod, Accept, Reject, ways
  <2>2. CASE PostMfaPasskey(r) \/ PostPasskeyLogin(r) \/ PostPasskeyReauth(r) \/ PostPasskeyRegistration(r)
    BY <2>2 DEF PostMfaPasskey, PostPasskeyLogin, PostPasskeyReauth, PostPasskeyRegistration, Options,
                TakeChallenge, Present, PresentMfa, TakeCeremony, TakeKey, AcceptKey, AddKey, ways
  <2>3. CASE PostTotpSetup(r) \/ PostTotpConfirm(r) \/ PostRecoveryCodes(r) \/ DeleteTotp(r)
    BY <2>3 DEF PostTotpSetup, PostTotpConfirm, PostRecoveryCodes, DeleteTotp, StartSetup, DrawSecret,
                Confirm, Enable, Sensitive, Regenerate, Disable, ways
  <2>4. CASE DeletePasskey(r) \/ (\E i \in Identities : Unlink(r, i))
    BY <2>4 DEF DeletePasskey, RemoveKey, DeleteKey, Unlink, ways
  <2>5. CASE DeleteLink(r) BY <2>5 DEF DeleteLink
  <2> QED BY <1>2, <2>1, <2>2, <2>3, <2>4, <2>5 DEF Auth, DeleteOAuth
<1> QED BY <1>1, <1>2

LEMMA FlowNext ==
  ASSUME FlowInv, [Next2]_all
  PROVE  FlowInv'
<1>1. CASE Flow \/ F!Time \/ FlowSignsIn BY <1>1, FlowSteps
<1>2. CASE UNCHANGED flows /\ owner' \in [Identities -> Users \cup {None}]
  BY <1>2 DEF flows, FlowInv, FlowTyped, OneHand, InHands, OneApp, Kept
<1>3. owner \in [Identities -> Users \cup {None}] BY DEF FlowInv, FlowTyped
<1>4. CASE InSignIn((\E r \in Requests : Auth(r)) \/ Lapse \/ Tick)
  BY <1>2, <1>3, <1>4, OwnerKept DEF InSignIn
<1>5. CASE UNCHANGED all \/ InAdministration(A!Next) \/ InTokens(T!Next) \/ InPictures(P!Next)
  BY <1>2, <1>3, <1>5 DEF all, ways, InAdministration, InTokens, InPictures
<1> QED BY <1>1, <1>4, <1>5 DEF Next2, InFlows

LEMMA FlowInit == ASSUME Init2 PROVE FlowInv
<1> USE FlowAssumption
<1>1. F!Found BY DEF Init2, Found2
<1>2. F!Idle \in Caller /\ FlowFits(F!Idle) /\ F!Idle.at = "idle" /\ F!Idle.flow = None
  BY DEF F!Idle, Caller, FlowFits, Registers
<1>3. owner \in [Identities -> Users \cup {None}] BY DEF Init2
<1>4. FlowTyped BY <1>1, <1>2, <1>3 DEF F!Found, FlowTyped
<1>5. OneHand BY <1>1, <1>2 DEF F!Found, OneHand, InHands
<1>6. OneApp BY <1>1, <1>2 DEF F!Found, OneApp, Kept, Registers
<1> QED BY <1>1, <1>4, <1>5, <1>6 DEF FlowInv, F!Found

LEMMA FlowGood == ASSUME FlowInv PROVE F!GrantsOnce /\ F!RegisteredOnce
BY DEF FlowInv, FlowTyped, OneApp, F!GrantsOnce, F!RegisteredOnce

-----------------------------------------------------------------------------
(* The ways in.  While nothing excuses it, one request at most takes a way in away, and it *)
(* leaves another (Leaves), which nobody else takes.                                        *)
Removal(me) == me.at \in {"removing", "unlinking"}

Leaves(me) == /\ me.at = "removing" => Account \in password \/ keys \ {me.f} # {} \/ Links # {}
              /\ me.at = "unlinking" => Account \in password \/ Links \ {me.f} # {}

WaysKept ==
  /\ Account \in users => WayIn
  /\ \A r \in Requests : Leaves(req[r])
  /\ \A r \in Requests : Removal(req[r]) => \A q \in Requests \ {r} : ~Removal(req[q])

WaysInv == password \subseteq {Account} /\ (~excused => WaysKept)

(* Ways in that are only added, by steps that take none away *)
LEMMA WaysGrow ==
  ASSUME WaysInv, excused' = excused, password \subseteq password', password' \subseteq {Account},
         keys \subseteq keys', Links \subseteq Links', Account \in users' => Account \in users \/ WayIn',
         \A r \in Requests : Removal(req'[r]) => req'[r] = req[r]
  PROVE  WaysInv'
<1> SUFFICES ASSUME WaysKept PROVE WaysKept' BY DEF WaysInv
<1>1. Account \in users' => WayIn' BY DEF WaysKept, WayIn
<1>2. ASSUME NEW r \in Requests PROVE Leaves(req[r])'
  <2>1. CASE Removal(req'[r])
    <3>1. Leaves(req[r]) /\ req'[r] = req[r] BY <2>1 DEF WaysKept
    <3> QED BY <3>1 DEF Leaves
  <2>2. CASE ~Removal(req'[r]) BY <2>2 DEF Leaves, Removal
  <2> QED BY <2>1, <2>2
<1>3. ASSUME NEW r \in Requests, Removal(req'[r]), NEW q \in Requests \ {r}, Removal(req'[q]) PROVE FALSE
  <2>1. req'[r] = req[r] /\ req'[q] = req[q] BY <1>3
  <2> QED BY <1>3, <2>1 DEF WaysKept
<1> QED BY <1>1, <1>2, <1>3 DEF WaysKept

(* What a request becomes that is no removal *)
LEMMA NoRemoval ==
  ASSUME NEW r \in Requests, NEW STATE me, ~Removal(me), req' = [req EXCEPT ![r] = me]
  PROVE  \A q \in Requests : Removal(req'[q]) => req'[q] = req[q]
<1> SUFFICES ASSUME NEW q \in Requests, Removal(req'[q]) PROVE req'[q] = req[q] OBVIOUS
<1>1. CASE q # r BY <1>1
<1>2. CASE q = r /\ q \in DOMAIN req BY <1>2
<1>3. CASE q = r /\ q \notin DOMAIN req BY <1>3
<1> QED BY <1>1, <1>2, <1>3

(* All that a sign-in does besides removing *)
LEMMA WaysInSignIn ==
  ASSUME SignInInv, NEW r \in Requests, Auth(r), ~DeletePasskey(r), ~DeleteOAuth(r)
  PROVE  /\ excused' = excused /\ UNCHANGED <<password, owner>> /\ keys \subseteq keys'
         /\ \A q \in Requests : Removal(req'[q]) => req'[q] = req[q]
<1> DEFINE Steady == excused' = excused /\ UNCHANGED <<password, owner>> /\ keys \subseteq keys'
           Alone  == /\ \A q \in Requests \ {r} : req'[q] = req[q]
                     /\ ~Removal(req'[r]) \/ req' = req
<1> SUFFICES Steady /\ Alone OBVIOUS
<1>1. req \in [Requests -> Asker] /\ req[r] \in Asker BY DEF SignInInv, Askers
<1>2. ASSUME NEW STATE me, Go(r, me), ~Removal(me) PROVE Alone
  BY <1>1, <1>2 DEF Go, Removal
<1>3. ~Removal(Idle) /\ Idle \in Asker BY DEF Removal, Idle, Asker
<1>4. End(r) => Alone BY <1>2, <1>3 DEF End
<1>5. ASSUME NEW place \in {"factor", "key"}, req'[r].at = place, \A q \in Requests \ {r} : req'[q] = req[q]
      PROVE  Alone
  BY <1>5 DEF Removal
<1>6. CASE PostLogin(r) \/ Rollback(r)
  <2>1. Steady BY <1>6 DEF PostLogin, Rollback, Begin, LockUser, Invalidate, Invite, Issue, ways
  <2>2. ASSUME Begin(r) PROVE Alone BY <1>1, <2>2 DEF Begin, Go, Idle, Removal
  <2>3. ASSUME LockUser(r) PROVE Alone BY <1>1, <2>3 DEF LockUser, Go, Idle, Removal, Asker
  <2>4. ASSUME Invalidate(r) PROVE Alone BY <1>1, <2>4 DEF Invalidate, Go, Idle, Removal, Asker
  <2>5. Alone BY <1>4, <1>6, <2>2, <2>3, <2>4 DEF PostLogin, Rollback, Invite, Issue
  <2> QED BY <2>1, <2>5
<1>7. ASSUME NEW c \in Challenges, NEW way, NEW f, TakeChallenge(r, c, way, f) PROVE Steady /\ Alone
  BY <1>1, <1>7 DEF TakeChallenge, Go, Idle, Removal, ways
<1>8. CASE PostMfaVerify(r)
  <2>1. ASSUME LockMethod(r) PROVE Alone
    <3>1. CASE End(r) BY <1>4, <3>1
    <3>2. CASE Go(r, [req[r] EXCEPT !.at = "factor", !.seen = method, !.locks = @ \cup {"method"}])
      BY <1>1, <1>5, <3>2 DEF Go, Asker
    <3> QED BY <2>1, <3>1, <3>2 DEF LockMethod
  <2>2. ASSUME Accept(r) PROVE Alone BY <1>1, <2>2 DEF Accept, Go, Idle, Removal
  <2>3. ASSUME Reject(r) \/ \E c \in Challenges : Spoil(r, c) PROVE Alone
    BY <1>4, <2>3 DEF Reject, Spoil
  <2>4. LockMethod(r) \/ Accept(r) \/ Reject(r) \/ (\E c \in Challenges : Spoil(r, c)) => Steady
    BY DEF LockMethod, Accept, Reject, Spoil, ways
  <2> QED BY <1>7, <1>8, <2>1, <2>2, <2>3, <2>4 DEF PostMfaVerify
<1>9. ASSUME NEW STATE me, me \in Asker, NEW y \in Ceremonies, NEW k \in Keys, TakeCeremony(r, me, y, k)
      PROVE  Steady /\ Alone
  <2>1. Steady BY <1>9 DEF TakeCeremony, ways
  <2>2. CASE End(r) BY <1>4, <2>1, <2>2
  <2>3. CASE Go(r, [me EXCEPT !.at = "ceremony", !.y = y, !.f = k, !.locks = @ \cup {y}])
    BY <1>1, <1>9, <2>1, <2>3 DEF Go, Removal, Asker
  <2> QED BY <1>9, <2>2, <2>3 DEF TakeCeremony
<1>10. CASE (\E way \in {"login", "reauth", "register"} : Present(r, way)) \/ PresentMfa(r)
  <2>1. ASSUME NEW way \in {"login", "reauth", "register"}, Present(r, way) PROVE Steady /\ Alone
    <3>1. [Idle EXCEPT !.way = way] \in Asker BY DEF Asker, Idle
    <3> QED BY <1>9, <2>1, <3>1 DEF Present
  <2> QED BY <1>1, <1>9, <1>10, <2>1 DEF PresentMfa
<1>11. CASE TakeKey(r) \/ AcceptKey(r) \/ AddKey(r)
  <2>1. Steady BY <1>11 DEF TakeKey, AcceptKey, AddKey, ways
  <2>2. ASSUME TakeKey(r) PROVE Alone
    <3>1. CASE End(r) BY <1>4, <3>1
    <3>2. CASE Go(r, [req[r] EXCEPT !.at = "key", !.locks = @ \cup {req[r].f}])
      BY <1>1, <1>5, <3>2 DEF Go, Asker
    <3> QED BY <2>2, <3>1, <3>2 DEF TakeKey
  <2>3. ASSUME AcceptKey(r) PROVE Alone BY <1>1, <2>3 DEF AcceptKey, Go, Idle, Removal
  <2> QED BY <1>4, <1>11, <2>1, <2>2, <2>3 DEF AddKey
<1>12. ASSUME NEW purpose, NEW c, Options(r, purpose, c) PROVE Steady /\ Alone
  BY <1>12 DEF Options, ways
<1>13. CASE PostTotpSetup(r) \/ PostTotpConfirm(r)
  <2>1. Steady
    BY <1>13 DEF PostTotpSetup, PostTotpConfirm, StartSetup, DrawSecret, Confirm, Enable, ways
  <2>2. ASSUME StartSetup(r) PROVE Alone BY <1>1, <2>2 DEF StartSetup, Go, Idle, Removal
  <2>3. ASSUME NEW f \in Typed, Confirm(r, f) PROVE Alone BY <1>1, <2>3 DEF Confirm, Go, Idle, Removal
  <2> QED BY <1>4, <1>13, <2>1, <2>2, <2>3 DEF PostTotpSetup, PostTotpConfirm, DrawSecret, Enable
<1>14. CASE PostRecoveryCodes(r) \/ DeleteTotp(r)
  <2>1. Steady BY <1>14 DEF PostRecoveryCodes, DeleteTotp, Sensitive, Regenerate, Disable, ways
  <2>2. ASSUME NEW way \in {"regenerate", "disable"}, NEW f \in Typed, Sensitive(r, way, f) PROVE Alone
    BY <1>1, <2>2 DEF Sensitive, Go, Idle, Removal
  <2> QED BY <1>4, <1>14, <2>1, <2>2 DEF PostRecoveryCodes, DeleteTotp, Regenerate, Disable
<1> HIDE DEF Steady, Alone
<1>15. CASE PostMfaPasskey(r)
  BY <1>7, <1>10, <1>11, <1>12, <1>15 DEF PostMfaPasskey
<1>16. CASE PostPasskeyLogin(r) \/ PostPasskeyReauth(r) \/ PostPasskeyRegistration(r)
  BY <1>10, <1>11, <1>12, <1>16 DEF PostPasskeyLogin, PostPasskeyReauth, PostPasskeyRegistration
<1> QED BY <1>6, <1>8, <1>13, <1>14, <1>15, <1>16 DEF Auth

(* Looking: what is counted on is there, and nobody else is looking, or it is excused. *)
LEMMA WaysLook ==
  ASSUME SignInInv, WaysInv, NEW r \in Requests, NEW STATE me, Removal(me), req' = [req EXCEPT ![r] = me],
         UNCHANGED <<password, owner, keys, users>>, excused' \/ Leaves(me),
         ~excused' => ~excused /\ ~Removing(r)
  PROVE  WaysInv'
<1>1. /\ req'[r] = me /\ \A q \in Requests \ {r} : req'[q] = req[q]
  BY DEF SignInInv, Askers
<1> SUFFICES ASSUME ~excused' PROVE WaysKept' BY DEF WaysInv
<1>2. WaysKept /\ \A q \in Requests \ {r} : ~Removal(req[q])
  BY DEF WaysInv, Removing, Removal
<1>3. Leaves(req[r])' BY <1>1 DEF Leaves, Links
<1>4. \A q \in Requests \ {r} : Leaves(req[q])' BY <1>1, <1>2 DEF WaysKept, Leaves, Links
<1>5. (Account \in users => WayIn)' BY <1>2 DEF WaysKept, WayIn, Links
<1> QED BY <1>1, <1>2, <1>3, <1>4, <1>5 DEF WaysKept

(* Taking away: what was counted on is still there. *)
LEMMA WaysTake ==
  ASSUME SignInInv, WaysInv, NEW r \in Requests, End(r), excused' = excused, UNCHANGED <<password, users>>,
         \/ req[r].at = "removing" /\ keys' = keys \ {req[r].f} /\ owner' = owner
         \/ req[r].at = "unlinking" /\ keys' = keys /\ Links \ {req[r].f} \subseteq Links'
  PROVE  WaysInv'
<1>1. /\ req'[r].at = "idle" /\ \A q \in Requests \ {r} : req'[q] = req[q]
  BY DEF SignInInv, Askers, End, Go, Idle
<1> SUFFICES ASSUME WaysKept PROVE WaysKept' BY DEF WaysInv
<1>2. Removal(req[r]) /\ Leaves(req[r]) BY DEF Removal, WaysKept
<1>3. \A q \in Requests : ~Removal(req'[q]) BY <1>1, <1>2 DEF WaysKept, Removal
<1>4. \A q \in Requests : Leaves(req[q])' BY <1>3 DEF Leaves, Removal
<1>5. WayIn' BY <1>2 DEF Leaves, WayIn, Links
<1> QED BY <1>3, <1>4, <1>5 DEF WaysKept

LEMMA WaysSignIn ==
  ASSUME SignInInv, FlowInv, WaysInv, (\E r \in Requests : Auth(r)) \/ Lapse \/ Tick, users' = users
  PROVE  WaysInv'
<1>1. password \subseteq {Account} BY DEF WaysInv
<1>2. CASE Lapse \/ Tick
  <2>1. UNCHANGED <<ways, req, excused>> BY <1>2 DEF Lapse, Tick
  <2>2. UNCHANGED <<password, keys, Links>> BY <2>1 DEF ways, Links
  <2> QED BY <1>1, <2>1, <2>2, WaysGrow
<1>3. ASSUME NEW r \in Requests, Auth(r) PROVE WaysInv'
  <2>1. CASE ~DeletePasskey(r) /\ ~DeleteOAuth(r)
    <3>1. /\ excused' = excused /\ UNCHANGED <<password, owner>> /\ keys \subseteq keys'
          /\ \A q \in Requests : Removal(req'[q]) => req'[q] = req[q]
      BY <1>3, <2>1, WaysInSignIn
    <3>2. Links' = Links BY <3>1 DEF Links
    <3> QED BY <1>1, <3>1, <3>2, WaysGrow
  <2>2. ASSUME NEW k \in Keys, RemoveKey(r, k) PROVE WaysInv'
    <3> DEFINE me == [Idle EXCEPT !.at = "removing", !.f = k, !.locks = {k}]
    <3>1. /\ req' = [req EXCEPT ![r] = me] /\ UNCHANGED <<password, owner, keys>>
          /\ excused' = (excused \/ Removing(r) \/ Enabled \/ codes # {}) /\ Backed(k)
      BY <2>2 DEF RemoveKey, ways, Go
    <3>2. Removal(me) /\ me.at = "removing" /\ me.f = k BY DEF Removal, Idle
    <3> HIDE DEF me
    <3>3. excused' \/ Leaves(me) BY <3>1, <3>2 DEF Backed, Leaves
    <3> QED BY <3>1, <3>2, <3>3, WaysLook
  <2>3. CASE DeleteKey(r) BY <2>3, WaysTake DEF DeleteKey, At
  <2>4. ASSUME NEW i \in Identities, Unlink(r, i) PROVE WaysInv'
    <3> DEFINE me == [Idle EXCEPT !.at = "unlinking", !.f = i]
    <3>1. /\ req' = [req EXCEPT ![r] = me] /\ UNCHANGED <<password, owner, keys>>
          /\ excused' = (excused \/ Removing(r)) /\ LinkBacked(i)
      BY <2>4 DEF Unlink, ways, Go
    <3>2. Removal(me) /\ me.at = "unlinking" /\ me.f = i BY DEF Removal, Idle
    <3> HIDE DEF me
    <3>3. Leaves(me) BY <3>1, <3>2 DEF LinkBacked, Leaves
    <3> QED BY <3>1, <3>2, <3>3, WaysLook
  <2>5. CASE DeleteLink(r)
    <3>1. Links \ {req[r].f} \subseteq Links'
      BY <2>5 DEF DeleteLink, Links, FlowInv, FlowTyped
    <3> QED BY <2>5, <3>1, WaysTake DEF DeleteLink, At
  <2> QED BY <1>3, <2>1, <2>2, <2>3, <2>4, <2>5 DEF DeletePasskey, DeleteOAuth
<1> QED BY <1>2, <1>3

(* Links that other services add, and the account they may bring *)
LEMMA WaysInFlows ==
  ASSUME FlowInv, AdminInv, Flow \/ F!Time
  PROVE  Links \subseteq Links' /\ (Account \in users' => Account \in users \/ Links' # {})
<1> USE UserAssumption
<1>1. owner \in [Identities -> Users \cup {None}] BY DEF FlowInv, FlowTyped
<1>2. CASE UNCHANGED <<users, owner>> BY <1>2 DEF Links
<1>3. ASSUME NEW r \in Requests, F!Linked(r) PROVE UNCHANGED users /\ Links \subseteq Links'
  BY <1>1, <1>3 DEF F!Linked, F!MayLink, Links
<1>4. ASSUME NEW r \in Requests, F!Created(r), ~UNCHANGED <<users, owner>>
      PROVE  Links \subseteq Links' /\ (Account \in users' => Account \in users \/ Links' # {})
  <2>1. PICK u \in Users \ users : /\ users' = users \cup {u} /\ owner' = [owner EXCEPT ![flowReq[r].i] = u]
                                   /\ owner[flowReq[r].i] = None
    BY <1>4 DEF F!Created
  <2>2. flowReq[r].i \in Identities
    BY <1>4 DEF F!Created, F!At, FlowInv, FlowTyped, FlowFits
  <2> QED BY <1>1, <2>1, <2>2 DEF Links
<1>5. UNCHANGED <<users, owner>> \/ \E r \in Requests : F!Linked(r) \/ F!Created(r)
  BY DEF Flow, F!Time, F!Start, F!Return, F!Rollback, F!OAuthStart, F!MastodonStart, F!LockApp, F!Register,
         F!RegisterFails, F!KeepApp, F!NewGrant, F!Callback, F!Exchange, F!Fail, F!Link, F!Known, F!NewUser
<1> QED BY <1>2, <1>3, <1>4, <1>5

LEMMA WaysInTokens ==
  ASSUME AdminInv, InTokens(T!Next), password \subseteq {Account}
  PROVE  /\ password \subseteq password' /\ password' \subseteq {Account}
         /\ Account \in users' => Account \in users \/ Account \in password'
<1>1. UNCHANGED <<active, password>> \/ password' = {Account}
  BY DEF InTokens, T!Next, T!Links, T!PostSignup, T!PostCompleteEmail, T!PostVerifyEmail,
         T!PostForgotPassword, T!PostResetPassword, T!Signup, T!Complete, T!SetEmail, T!Resend,
         T!SendConfirmation, T!TakeConfirmation, T!LockUser, T!Confirm, T!Forgot, T!InvalidateOpen,
         T!SendReset, T!TakeReset, T!SetPassword, T!Lapse, T!Rollback, T!account
<1> QED BY <1>1 DEF InTokens, AdminInv, AdminTyped

LEMMA UsersInAdministration == ASSUME A!Next PROVE users' \subseteq users
<1> SUFFICES ASSUME NEW r \in Requests, A!SelfService(r) \/ A!Administer(r) \/ A!Rollback(r)
             PROVE  users' \subseteq users
  BY DEF A!Next
<1> QED BY DEF A!SelfService, A!Administer, A!Rollback, A!Close, A!CountLocked, A!Closed, A!Decide, A!Commit

LEMMA WaysNext ==
  ASSUME SignInInv, FlowInv, AdminInv, WaysInv, [Next2]_all
  PROVE  WaysInv'
<1>1. password \subseteq {Account} BY DEF WaysInv
<1>2. CASE InSignIn((\E r \in Requests : Auth(r)) \/ Lapse \/ Tick)
  BY <1>2, WaysSignIn DEF InSignIn
<1>3. CASE InAdministration(A!Next)
  <2>1. users' \subseteq users /\ UNCHANGED <<password, owner, keyring>>
    BY <1>3, UsersInAdministration DEF InAdministration
  <2>2. UNCHANGED <<password, keys, req, excused, Links>> BY <2>1 DEF keyring, Links
  <2> QED BY <1>1, <2>1, <2>2, WaysGrow
<1>4. CASE InTokens(T!Next)
  <2>1. UNCHANGED <<keys, req, excused, Links>> BY <1>4 DEF InTokens, keyring, Links
  <2>2. Account \in password' => WayIn' BY DEF WayIn
  <2> QED BY <1>1, <1>4, <2>1, <2>2, WaysInTokens, WaysGrow
<1>5. CASE InFlows(Flow \/ F!Time)
  <2>1. UNCHANGED <<password, keys, req, excused>> BY <1>5 DEF InFlows, keyring
  <2>2. Links' # {} => WayIn' BY DEF WayIn
  <2> QED BY <1>1, <1>5, <2>1, <2>2, WaysInFlows, WaysGrow DEF InFlows
<1>6. CASE FlowSignsIn
  <2>1. PICK q, r \in Requests : F!SignedIn(q) /\ IF flowReq[q].u = Account THEN Begin(r) ELSE UNCHANGED <<ways, keyring>>
    BY <1>6 DEF FlowSignsIn
  <2>2. UNCHANGED <<users, owner, excused, keys, password>>
    BY <1>6, <2>1 DEF FlowSignsIn, F!SignedIn, Begin, ways, keyring
  <2>3. Links' = Links BY <2>2 DEF Links
  <2>4. CASE Begin(r)
    <3> DEFINE me == [Idle EXCEPT !.at = IF Methods = {} THEN "issuing" ELSE "challenging"]
    <3>1. req' = [req EXCEPT ![r] = me] /\ ~Removal(me) BY <2>4 DEF Begin, Go, Idle, Removal
    <3> HIDE DEF me
    <3> QED BY <1>1, <2>2, <2>3, <3>1, NoRemoval, WaysGrow
  <2>5. CASE req' = req BY <1>1, <2>2, <2>3, <2>5, WaysGrow
  <2> QED BY <2>1, <2>4, <2>5 DEF keyring
<1>7. CASE UNCHANGED all \/ InPictures(P!Next)
  <2>1. UNCHANGED <<users, keys, password, req, excused, Links>> BY <1>7 DEF all, InPictures, ways, keyring, Links
  <2> QED BY <1>1, <2>1, WaysGrow
<1> QED BY <1>2, <1>3, <1>4, <1>5, <1>6, <1>7 DEF Next2

LEMMA WaysInit == ASSUME Init2 PROVE WaysInv
<1>1. /\ password \subseteq {Account} /\ (Account \in users => WayIn) /\ \A r \in Requests : req[r].at = "idle"
  BY DEF Init2, Found2, Found, Idle
<1> QED BY <1>1 DEF WaysInv, WaysKept, Leaves, Removal

(* An active account can be signed in to by a password, a passkey or a linked identity, unless *)
(* two removals had overlapped or one had counted a second factor (WayInRemains): whatever else *)
(* the services do to the account meanwhile.                                                     *)
THEOREM AWayInRemains == Spec2 => []WayInRemains
<1> DEFINE Inv == SignInInv /\ FlowInv /\ AdminInv /\ WaysInv
<1>1. Init2 => Inv BY SignInInit, FlowInit, AdminInit, WaysInit
<1>2. Inv /\ [Next2]_all => Inv' BY SignInNext, FlowNext, AdminStep, WaysNext
<1>3. Inv => WayInRemains
  BY DEF AdminInv, AdminTyped, WaysInv, WaysKept, WayInRemains
<1> QED BY <1>1, <1>2, <1>3, PTL DEF Spec2

-----------------------------------------------------------------------------
(* Links sent by mail.  A token that a request holds is as the request has read it          *)
(* (LinkFits), the tokens used say so (LinksSpent), one link to reset the password is open,  *)
(* and while no two requests completed the address together, every mail and every            *)
(* confirmation that can still be used is for the address the account has (OfTheAddress).    *)
Follower == [at : {"idle", "mailing", "completing", "confirming", "confirmed", "forgot", "sending", "resetting"},
             t : Resets \cup Confirmations \cup {None}, seen : Addresses \cup T!Confirmation \cup {None},
             locks : SUBSET ({"user"} \cup Resets \cup Confirmations)]

LinkFits(me) ==
  /\ me.at \in {"confirming", "confirmed"} =>
       /\ me.t \in Confirmations /\ me.t \in me.locks /\ confirmation[me.t] # None
       /\ me.seen \in T!Confirmation /\ me.seen.state = confirmation[me.t].state
  /\ me.at = "confirmed" => "user" \in me.locks /\ confirmation[me.t].state = "live"
  /\ me.at = "resetting" => me.t \in T!Open /\ me.t \in me.locks
  /\ me.at = "forgot" => me.locks = {"user"}
  /\ me.at = "sending" => me.locks = {"user"} \cup T!Open
  /\ me.at \in {"mailing", "completing"} => me.seen \in Addresses

Followers ==
  /\ linkReq \in [Requests -> Follower] /\ Apart(linkReq)
  /\ \A r \in Requests : LinkFits(linkReq[r])

LinksSpent ==
  /\ linkAgain = {} /\ linkUsed \subseteq Resets \cup Confirmations
  /\ \A t \in linkUsed \cap Resets : reset[t] # None /\ reset[t].state = "used"
  /\ \A t \in linkUsed \cap Confirmations : confirmation[t] # None /\ confirmation[t].state = "used"

OneOpen == \A s, t \in T!Open : s = t

OfTheAddress ==
  /\ \A t \in Confirmations : confirmation[t] # None /\ confirmation[t].state = "live" => confirmation[t].to = email
  /\ \A r \in Requests : linkReq[r].at = "mailing" => linkReq[r].seen = email
  /\ \A r \in Requests : linkReq[r].at = "completing" =>
       email = "pending" /\ \A q \in Requests \ {r} : linkReq[q].at # "completing"
  /\ verified => proven = email /\ email \in Addresses

LinksInv == /\ T!TypeOK /\ Followers /\ LinksSpent /\ OneOpen
            /\ Account \in users => email # None
            /\ linkRaced \/ OfTheAddress

LEMMA NoToken ==
  None \notin T!Reset /\ None \notin T!Confirmation /\ None \notin Resets /\ None \notin Confirmations
BY TokenAssumption

(* What a step leaves of what a request holds *)
Spares(me) ==
  /\ \A t \in me.locks \cap Confirmations : confirmation[t] # None =>
       confirmation'[t] # None /\ confirmation'[t].state = confirmation[t].state
  /\ me.locks \cap T!Open \subseteq T!Open'
  /\ "user" \in me.locks => T!Open' \subseteq T!Open

LEMMA LinkStep ==
  ASSUME LinksInv, NEW r \in Requests, NEW STATE me, me \in Follower, linkReq' = [linkReq EXCEPT ![r] = me],
         \A q \in Requests \ {r} : linkReq[q].locks \cap me.locks = {},
         \A q \in Requests \ {r} : Spares(linkReq[q])
  PROVE  /\ linkReq' \in [Requests -> Follower] /\ linkReq'[r] = me
         /\ \A q \in Requests \ {r} : linkReq'[q] = linkReq[q]
         /\ LinkFits(linkReq[r])' => Followers'
<1>1. /\ linkReq' \in [Requests -> Follower] /\ linkReq'[r] = me
      /\ \A q \in Requests \ {r} : linkReq'[q] = linkReq[q]
  BY DEF LinksInv, Followers
<1>2. Apart(linkReq)' BY <1>1 DEF LinksInv, Followers, Apart
<1>3. ASSUME NEW q \in Requests \ {r} PROVE LinkFits(linkReq[q])'
  <2>1. LinkFits(linkReq[q]) /\ Spares(linkReq[q]) /\ linkReq'[q] = linkReq[q] /\ linkReq[q] \in Follower
    BY <1>1 DEF LinksInv, Followers
  <2>2. CASE linkReq[q].at \in {"confirming", "confirmed"} BY <2>1, <2>2 DEF LinkFits, Spares
  <2>3. CASE linkReq[q].at \in {"resetting", "forgot", "sending"} BY <2>1, <2>3 DEF LinkFits, Spares
  <2>4. CASE linkReq[q].at \in {"idle", "mailing", "completing"} BY <2>1, <2>4 DEF LinkFits
  <2> QED BY <2>1, <2>2, <2>3, <2>4 DEF Follower
<1> QED BY <1>1, <1>2, <1>3 DEF Followers

(* A step that only moves its request *)
LEMMA LinkQuiet ==
  ASSUME LinksInv, NEW r \in Requests, NEW STATE me, me \in Follower, linkReq' = [linkReq EXCEPT ![r] = me],
         \A q \in Requests \ {r} : linkReq[q].locks \cap me.locks = {},
         UNCHANGED <<email, verified, reset, confirmation, linkUsed, linkAgain, proven, linkRaced, users>>,
         LinkFits(me), me.at # "completing", me.at = "mailing" => me.seen = email
  PROVE  LinksInv'
<1>1. T!Open' = T!Open BY DEF T!Open
<1>2. \A q \in Requests \ {r} : Spares(linkReq[q]) BY <1>1 DEF Spares
<1>3. /\ linkReq'[r] = me /\ \A q \in Requests \ {r} : linkReq'[q] = linkReq[q]
      /\ LinkFits(linkReq[r])' => Followers'
  BY <1>2, LinkStep
<1>4. LinkFits(linkReq[r])' BY <1>1, <1>3 DEF LinkFits
<1>5. T!TypeOK' /\ LinksSpent' /\ OneOpen' BY <1>1 DEF LinksInv, T!TypeOK, LinksSpent, OneOpen
<1>6. OfTheAddress => OfTheAddress' BY <1>3 DEF OfTheAddress
<1> QED BY <1>3, <1>4, <1>5, <1>6 DEF LinksInv

LEMMA LinkEnd ==
  ASSUME LinksInv, NEW r \in Requests, T!End(r),
         UNCHANGED <<email, verified, reset, confirmation, linkUsed, linkAgain, proven, linkRaced, users>>
  PROVE  LinksInv'
<1> DEFINE me == T!Idle
<1>1. /\ me \in Follower /\ me.at = "idle" /\ me.locks = {} /\ linkReq' = [linkReq EXCEPT ![r] = me]
  BY DEF T!Idle, Follower, T!End, T!Go
<1> HIDE DEF me
<1>2. LinkFits(me) BY <1>1 DEF LinkFits
<1> QED BY <1>1, <1>2, LinkQuiet

(* Locks that nobody has are taken. *)
LEMMA LinkFree ==
  ASSUME LinksInv, NEW r \in Requests, NEW S, \A x \in S : T!Free(x, r)
  PROVE  /\ \A q \in Requests \ {r} : linkReq[q].locks \cap S = {}
         /\ \A q \in Requests \ {r} : linkReq[q].locks \cap (linkReq[r].locks \cup S) = {}
BY DEF T!Free, LinksInv, Followers, Apart

LEMMA LinkResend ==
  ASSUME LinksInv, NEW r \in Requests, T!Resend(r), users' = users, active \subseteq users
  PROVE  LinksInv'
<1> USE AddressAssumption
<1> DEFINE me == [T!Idle EXCEPT !.at = "mailing", !.seen = email, !.locks = {"user"}]
<1>1. email \in Addresses BY DEF T!Resend, T!Confirmable, LinksInv, T!TypeOK
<1>2. /\ UNCHANGED <<email, verified, reset, confirmation, linkUsed, linkAgain, proven, linkRaced>>
      /\ linkReq' = [linkReq EXCEPT ![r] = me]
  BY DEF T!Resend, T!account, T!Go
<1>3. me \in Follower /\ me.at = "mailing" /\ me.seen = email /\ me.locks = {"user"}
  BY <1>1 DEF T!Idle, Follower
<1> HIDE DEF me
<1>4. LinkFits(me) BY <1>1, <1>3 DEF LinkFits
<1>5. \A q \in Requests \ {r} : linkReq[q].locks \cap me.locks = {}
  BY <1>3, LinkFree DEF T!Resend
<1> QED BY <1>2, <1>3, <1>4, <1>5, LinkQuiet

LEMMA LinkTakeConfirmation ==
  ASSUME LinksInv, NEW r \in Requests, NEW t \in Confirmations, T!TakeConfirmation(r, t), users' = users
  PROVE  LinksInv'
<1> DEFINE me == [T!Idle EXCEPT !.at = "confirming", !.t = t, !.seen = confirmation[t], !.locks = {t}]
<1>1. confirmation[t] # None /\ confirmation[t] \in T!Confirmation
  BY DEF T!TakeConfirmation, LinksInv, T!TypeOK
<1>2. /\ UNCHANGED <<email, verified, reset, confirmation, linkUsed, linkAgain, proven, linkRaced>>
      /\ linkReq' = [linkReq EXCEPT ![r] = me]
  BY DEF T!TakeConfirmation, T!account, T!Go
<1>3. me \in Follower /\ me.at = "confirming" /\ me.t = t /\ me.seen = confirmation[t] /\ me.locks = {t}
  BY <1>1 DEF T!Idle, Follower
<1> HIDE DEF me
<1>4. LinkFits(me) BY <1>1, <1>3 DEF LinkFits
<1>5. \A q \in Requests \ {r} : linkReq[q].locks \cap me.locks = {}
  BY <1>3, LinkFree DEF T!TakeConfirmation
<1> QED BY <1>2, <1>3, <1>4, <1>5, LinkQuiet

LEMMA LinkLockUser ==
  ASSUME LinksInv, NEW r \in Requests, T!LockUser(r), users' = users
  PROVE  LinksInv'
<1>1. /\ UNCHANGED <<email, verified, reset, confirmation, linkUsed, linkAgain, proven, linkRaced>>
      /\ linkReq[r] \in Follower /\ LinkFits(linkReq[r]) /\ linkReq[r].at = "confirming"
  BY DEF T!LockUser, T!account, T!At, LinksInv, Followers
<1>2. CASE T!End(r) BY <1>1, <1>2, LinkEnd
<1>3. CASE ~T!End(r)
  <2> DEFINE me == [linkReq[r] EXCEPT !.at = "confirmed", !.locks = @ \cup {"user"}]
  <2>1. linkReq' = [linkReq EXCEPT ![r] = me] /\ linkReq[r].seen.state = "live"
    BY <1>3 DEF T!LockUser, T!Go, T!Usable
  <2>2. /\ me \in Follower /\ me.at = "confirmed" /\ me.t = linkReq[r].t /\ me.seen = linkReq[r].seen
        /\ me.locks = linkReq[r].locks \cup {"user"}
    BY <1>1 DEF Follower
  <2> HIDE DEF me
  <2>3. LinkFits(me) BY <1>1, <2>1, <2>2 DEF LinkFits
  <2>4. \A x \in {"user"} : T!Free(x, r) BY DEF T!LockUser
  <2>5. \A q \in Requests \ {r} : linkReq[q].locks \cap (linkReq[r].locks \cup {"user"}) = {}
    BY <2>4, LinkFree
  <2>6. \A q \in Requests \ {r} : linkReq[q].locks \cap me.locks = {} BY <2>2, <2>5
  <2> QED BY <1>1, <2>1, <2>2, <2>3, <2>6, LinkQuiet
<1> QED BY <1>2, <1>3

LEMMA LinkForgot ==
  ASSUME LinksInv, NEW r \in Requests, T!Forgot(r) \/ T!InvalidateOpen(r), users' = users
  PROVE  LinksInv'
<1>1. UNCHANGED <<email, verified, reset, confirmation, linkUsed, linkAgain, proven, linkRaced>>
  BY DEF T!Forgot, T!InvalidateOpen, T!account
<1>2. CASE T!Forgot(r)
  <2> DEFINE me == [T!Idle EXCEPT !.at = "forgot", !.locks = {"user"}]
  <2>1. linkReq' = [linkReq EXCEPT ![r] = me] BY <1>2 DEF T!Forgot, T!Go
  <2>2. me \in Follower /\ me.at = "forgot" /\ me.locks = {"user"} BY DEF T!Idle, Follower
  <2> HIDE DEF me
  <2>3. LinkFits(me) BY <2>2 DEF LinkFits
  <2>4. \A q \in Requests \ {r} : linkReq[q].locks \cap me.locks = {}
    BY <1>2, <2>2, LinkFree DEF T!Forgot
  <2> QED BY <1>1, <2>1, <2>2, <2>3, <2>4, LinkQuiet
<1>3. CASE T!InvalidateOpen(r)
  <2> DEFINE me == [linkReq[r] EXCEPT !.at = "sending", !.locks = @ \cup T!Open]
  <2>1. /\ linkReq' = [linkReq EXCEPT ![r] = me] /\ linkReq[r].at = "forgot" /\ linkReq[r] \in Follower
        /\ linkReq[r].locks = {"user"} /\ \A t \in T!Open : T!Free(t, r)
    BY <1>3 DEF T!InvalidateOpen, T!Go, T!At, LinksInv, Followers, LinkFits
  <2>2. me \in Follower /\ me.at = "sending" /\ me.locks = {"user"} \cup T!Open
    BY <2>1 DEF Follower, T!Open, LinksInv, T!TypeOK
  <2> HIDE DEF me
  <2>3. LinkFits(me) BY <2>2 DEF LinkFits
  <2>4. \A q \in Requests \ {r} : linkReq[q].locks \cap (linkReq[r].locks \cup T!Open) = {}
    BY <2>1, LinkFree
  <2>5. \A q \in Requests \ {r} : linkReq[q].locks \cap me.locks = {}
    <3>1. me.locks = linkReq[r].locks \cup T!Open BY <2>1, <2>2
    <3> QED BY <2>4, <3>1, Zenon
  <2> QED BY <1>1, <2>1, <2>2, <2>3, <2>5, LinkQuiet
<1> QED BY <1>2, <1>3

LEMMA LinkTakeReset ==
  ASSUME LinksInv, NEW r \in Requests, NEW t \in Resets, T!TakeReset(r, t), users' = users
  PROVE  LinksInv'
<1> DEFINE me == [T!Idle EXCEPT !.at = "resetting", !.t = t, !.locks = {t}]
<1>1. /\ UNCHANGED <<email, verified, reset, confirmation, linkUsed, linkAgain, proven, linkRaced>>
      /\ linkReq' = [linkReq EXCEPT ![r] = me] /\ t \in T!Open
  BY DEF T!TakeReset, T!account, T!Go
<1>2. me \in Follower /\ me.at = "resetting" /\ me.t = t /\ me.locks = {t} BY DEF T!Idle, Follower
<1> HIDE DEF me
<1>3. LinkFits(me) BY <1>1, <1>2 DEF LinkFits
<1>4. \A q \in Requests \ {r} : linkReq[q].locks \cap me.locks = {}
  BY <1>2 DEF T!TakeReset, T!Free
<1> QED BY <1>1, <1>2, <1>3, <1>4, LinkQuiet

(* While two completions have not overlapped and the account has no address, no mail and no *)
(* confirmation is for one.                                                                   *)
LEMMA NoAddress ==
  ASSUME LinksInv, OfTheAddress, email \notin Addresses
  PROVE  /\ \A t \in Confirmations : confirmation[t] # None => confirmation[t].state # "live"
         /\ \A r \in Requests : linkReq[r].at # "mailing" /\ ~verified
<1>1. \A t \in Confirmations : confirmation[t] # None => confirmation[t].to \in Addresses
  BY DEF LinksInv, T!TypeOK, T!Confirmation
<1>2. \A r \in Requests : linkReq[r].at = "mailing" => linkReq[r].seen \in Addresses
  BY DEF LinksInv, Followers, LinkFits
<1> QED BY <1>1, <1>2 DEF OfTheAddress

LEMMA LinkSignup ==
  ASSUME LinksInv, NEW r \in Requests, NEW a \in Addresses, T!Signup(r, a)
  PROVE  LinksInv'
<1> USE AddressAssumption
<1> DEFINE me == [T!Idle EXCEPT !.at = "mailing", !.seen = a]
<1>1. /\ UNCHANGED <<verified, reset, confirmation, linkUsed, linkAgain, proven, linkRaced>>
      /\ email = None /\ email' = a /\ linkReq' = [linkReq EXCEPT ![r] = me]
  BY DEF T!Signup, T!Go
<1>2. me \in Follower /\ me.at = "mailing" /\ me.seen = a /\ me.locks = {}
  BY DEF T!Idle, Follower
<1> HIDE DEF me
<1>3. T!Open' = T!Open BY <1>1 DEF T!Open
<1>4. \A q \in Requests \ {r} : Spares(linkReq[q]) BY <1>1, <1>3 DEF Spares
<1> \A q \in Requests \ {r} : linkReq[q].locks \cap me.locks = {} BY <1>2
<1>5. /\ linkReq'[r] = me /\ \A q \in Requests \ {r} : linkReq'[q] = linkReq[q]
      /\ LinkFits(linkReq[r])' => Followers'
  BY <1>1, <1>2, <1>4, LinkStep
<1>6. LinkFits(linkReq[r])' BY <1>2, <1>5 DEF LinkFits
<1>7. T!TypeOK' /\ LinksSpent' /\ OneOpen'
  BY <1>1, <1>3 DEF LinksInv, T!TypeOK, LinksSpent, OneOpen
<1>8. OfTheAddress => OfTheAddress'
  <2> SUFFICES ASSUME OfTheAddress PROVE OfTheAddress' OBVIOUS
  <2>1. /\ \A t \in Confirmations : confirmation[t] # None => confirmation[t].state # "live"
        /\ \A q \in Requests : linkReq[q].at # "mailing" /\ ~verified
    BY <1>1, NoAddress
  <2>2. \A q \in Requests : linkReq[q].at # "completing" BY <1>1 DEF OfTheAddress
  <2> QED BY <1>1, <1>2, <1>5, <2>1, <2>2 DEF OfTheAddress
<1> QED BY <1>1, <1>5, <1>6, <1>7, <1>8 DEF LinksInv

LEMMA LinkComplete ==
  ASSUME LinksInv, NEW r \in Requests, NEW a \in Addresses, T!Complete(r, a), users' = users
  PROVE  LinksInv'
<1> DEFINE me == [T!Idle EXCEPT !.at = "completing", !.seen = a]
<1>1. /\ UNCHANGED <<email, verified, reset, confirmation, linkUsed, linkAgain, proven>>
      /\ email = "pending" /\ linkReq' = [linkReq EXCEPT ![r] = me]
      /\ linkRaced' = (linkRaced \/ \E q \in Requests : linkReq[q].at = "completing")
  BY DEF T!Complete, T!Go, T!account, T!At
<1>2. me \in Follower /\ me.at = "completing" /\ me.seen = a /\ me.locks = {}
  BY DEF T!Idle, Follower
<1> HIDE DEF me
<1>3. T!Open' = T!Open BY <1>1 DEF T!Open
<1>4. \A q \in Requests \ {r} : Spares(linkReq[q]) BY <1>1, <1>3 DEF Spares
<1> \A q \in Requests \ {r} : linkReq[q].locks \cap me.locks = {} BY <1>2
<1>5. /\ linkReq'[r] = me /\ \A q \in Requests \ {r} : linkReq'[q] = linkReq[q]
      /\ LinkFits(linkReq[r])' => Followers'
  BY <1>1, <1>2, <1>4, LinkStep
<1>6. LinkFits(linkReq[r])' BY <1>2, <1>5 DEF LinkFits
<1>7. T!TypeOK' /\ LinksSpent' /\ OneOpen'
  BY <1>1, <1>3 DEF LinksInv, T!TypeOK, LinksSpent, OneOpen
<1>8. OfTheAddress /\ ~linkRaced' => OfTheAddress'
  BY <1>1, <1>2, <1>5 DEF OfTheAddress
<1> QED BY <1>1, <1>5, <1>6, <1>7, <1>8 DEF LinksInv

LEMMA LinkSetEmail ==
  ASSUME LinksInv, NEW r \in Requests, T!SetEmail(r), users' = users
  PROVE  LinksInv'
<1> USE AddressAssumption
<1> DEFINE me == [linkReq[r] EXCEPT !.at = "mailing"]
<1>1. /\ UNCHANGED <<reset, confirmation, linkUsed, linkAgain, proven, linkRaced>>
      /\ email' = linkReq[r].seen /\ verified' = FALSE /\ linkReq' = [linkReq EXCEPT ![r] = me]
      /\ linkReq[r].at = "completing" /\ linkReq[r] \in Follower /\ linkReq[r].seen \in Addresses
  BY DEF T!SetEmail, T!Go, T!At, LinksInv, Followers, LinkFits
<1>2. /\ me \in Follower /\ me.at = "mailing" /\ me.seen = linkReq[r].seen
      /\ me.locks = linkReq[r].locks
  BY <1>1 DEF Follower
<1> HIDE DEF me
<1>3. T!Open' = T!Open BY <1>1 DEF T!Open
<1>4. \A q \in Requests \ {r} : Spares(linkReq[q]) BY <1>1, <1>3 DEF Spares
<1>5. \A q \in Requests \ {r} : linkReq[q].locks \cap me.locks = {}
  BY <1>2 DEF LinksInv, Followers, Apart
<1>6. /\ linkReq'[r] = me /\ \A q \in Requests \ {r} : linkReq'[q] = linkReq[q]
      /\ LinkFits(linkReq[r])' => Followers'
  BY <1>1, <1>2, <1>4, <1>5, LinkStep
<1>7. LinkFits(linkReq[r])' BY <1>1, <1>2, <1>6 DEF LinkFits
<1>8. T!TypeOK' /\ LinksSpent' /\ OneOpen'
  BY <1>1, <1>3 DEF LinksInv, T!TypeOK, LinksSpent, OneOpen
<1>9. OfTheAddress => OfTheAddress'
  <2> SUFFICES ASSUME OfTheAddress PROVE OfTheAddress' OBVIOUS
  <2>1. email = "pending" /\ \A q \in Requests \ {r} : linkReq[q].at # "completing"
    BY <1>1 DEF OfTheAddress
  <2>2. /\ \A t \in Confirmations : confirmation[t] # None => confirmation[t].state # "live"
        /\ \A q \in Requests : linkReq[q].at # "mailing"
    BY <2>1, NoAddress
  <2> QED BY <1>1, <1>2, <1>6, <2>1, <2>2 DEF OfTheAddress
<1>10. email' # None BY <1>1
<1> QED BY <1>1, <1>6, <1>7, <1>8, <1>9, <1>10 DEF LinksInv

(* Tokens written at the end of a request, by which the account keeps its address *)
LEMMA LinkWrite ==
  ASSUME LinksInv, NEW r \in Requests, T!End(r), UNCHANGED <<email, linkRaced, users>>,
         T!TypeOK', LinksSpent', OneOpen',
         \A q \in Requests \ {r} : Spares(linkReq[q]),
         OfTheAddress =>
           /\ \A t \in Confirmations : confirmation'[t] # None /\ confirmation'[t].state = "live" =>
                confirmation'[t].to = email
           /\ verified' => proven' = email /\ email \in Addresses
  PROVE  LinksInv'
<1> DEFINE me == T!Idle
<1>1. /\ me \in Follower /\ me.at = "idle" /\ me.locks = {} /\ linkReq' = [linkReq EXCEPT ![r] = me]
  BY DEF T!Idle, Follower, T!End, T!Go
<1> HIDE DEF me
<1> \A q \in Requests \ {r} : linkReq[q].locks \cap me.locks = {} BY <1>1
<1>2. /\ linkReq'[r] = me /\ \A q \in Requests \ {r} : linkReq'[q] = linkReq[q]
      /\ LinkFits(linkReq[r])' => Followers'
  BY <1>1, LinkStep
<1>3. LinkFits(linkReq[r])' BY <1>1, <1>2 DEF LinkFits
<1>4. OfTheAddress => OfTheAddress' BY <1>1, <1>2 DEF OfTheAddress
<1> QED BY <1>2, <1>3, <1>4 DEF LinksInv

LEMMA LinkSendConfirmation ==
  ASSUME LinksInv, NEW r \in Requests, T!SendConfirmation(r), users' = users
  PROVE  LinksInv'
<1> USE TokenAssumption
<1>1. /\ UNCHANGED <<email, verified, reset, linkUsed, linkAgain, proven, linkRaced>> /\ T!End(r)
      /\ linkReq[r].at = "mailing" /\ linkReq[r].seen \in Addresses
  BY DEF T!SendConfirmation, T!account, T!At, LinksInv, Followers, LinkFits
<1> DEFINE new == [to |-> linkReq[r].seen, state |-> "live", lapsed |-> FALSE]
<1>2. PICK t \in Confirmations : confirmation[t] = None /\ confirmation' = [confirmation EXCEPT ![t] = new]
  BY DEF T!SendConfirmation
<1>3. new \in T!Confirmation /\ new.to = linkReq[r].seen BY <1>1 DEF T!Confirmation
<1> new # None BY <1>3, NoToken
<1> HIDE DEF new
<1>4. confirmation \in [Confirmations -> T!Confirmation \cup {None}] BY DEF LinksInv, T!TypeOK
<1>5. T!Open' = T!Open BY <1>1 DEF T!Open
<1>6. T!TypeOK' /\ OneOpen' BY <1>1, <1>2, <1>3, <1>4, <1>5 DEF LinksInv, T!TypeOK, OneOpen
<1>7. LinksSpent' BY <1>1, <1>2, <1>4 DEF LinksInv, LinksSpent
<1>8. \A q \in Requests \ {r} : Spares(linkReq[q]) BY <1>2, <1>4, <1>5 DEF Spares
<1>9. OfTheAddress =>
        /\ \A c \in Confirmations : confirmation'[c] # None /\ confirmation'[c].state = "live" =>
             confirmation'[c].to = email
        /\ verified' => proven' = email /\ email \in Addresses
  BY <1>1, <1>2, <1>3, <1>4 DEF OfTheAddress
<1> QED BY <1>1, <1>6, <1>7, <1>8, <1>9, LinkWrite

LEMMA LinkConfirm ==
  ASSUME LinksInv, NEW r \in Requests, T!Confirm(r), users' = users
  PROVE  LinksInv'
<1> USE TokenAssumption
<1> DEFINE t == linkReq[r].t
<1>1. /\ UNCHANGED <<email, reset, linkRaced>> /\ T!End(r) /\ verified' = TRUE /\ proven' = confirmation[t].to
      /\ confirmation' = [confirmation EXCEPT ![t].state = "used"]
      /\ linkUsed' = linkUsed \cup {t} /\ linkAgain' = linkAgain \cup (linkUsed \cap {t})
  BY DEF T!Confirm, T!Completes
<1>2. /\ t \in Confirmations /\ t \in linkReq[r].locks /\ confirmation[t] # None
      /\ confirmation[t].state = "live"
  BY DEF T!Confirm, T!At, LinksInv, Followers, LinkFits
<1> HIDE DEF t
<1>3. confirmation \in [Confirmations -> T!Confirmation \cup {None}] /\ confirmation[t] \in T!Confirmation
  BY <1>2 DEF LinksInv, T!TypeOK
<1>4. /\ confirmation' \in [Confirmations -> T!Confirmation \cup {None}] /\ confirmation'[t] # None
      /\ confirmation'[t].state = "used" /\ \A c \in Confirmations \ {t} : confirmation'[c] = confirmation[c]
  BY <1>1, <1>2, <1>3 DEF T!Confirmation
<1>5. T!Open' = T!Open BY <1>1 DEF T!Open
<1>6. T!TypeOK' /\ OneOpen' BY <1>1, <1>4, <1>5 DEF LinksInv, T!TypeOK, OneOpen
<1>7. t \notin linkUsed /\ t \notin Resets BY <1>2 DEF LinksInv, LinksSpent
<1>8. LinksSpent' BY <1>1, <1>2, <1>4, <1>7 DEF LinksInv, LinksSpent
<1>9. \A q \in Requests \ {r} : t \notin linkReq[q].locks BY <1>2 DEF LinksInv, Followers, Apart
<1>10. \A q \in Requests \ {r} : Spares(linkReq[q]) BY <1>4, <1>5, <1>9 DEF Spares
<1>11. OfTheAddress =>
         /\ \A c \in Confirmations : confirmation'[c] # None /\ confirmation'[c].state = "live" =>
              confirmation'[c].to = email
         /\ verified' => proven' = email /\ email \in Addresses
  BY <1>1, <1>2, <1>3, <1>4 DEF OfTheAddress, T!Confirmation
<1> QED BY <1>1, <1>6, <1>8, <1>10, <1>11, LinkWrite

(* Links to reset the password are written: nobody else holds the account, and who holds a *)
(* link holds another.                                                                       *)
LEMMA LinkResets ==
  ASSUME LinksInv, NEW r \in Requests, T!End(r),
         UNCHANGED <<email, verified, confirmation, proven, linkRaced, users>>,
         reset' \in [Resets -> T!Reset \cup {None}], LinksSpent', OneOpen',
         \A q \in Requests \ {r} : linkReq[q].locks \cap T!Open \subseteq T!Open',
         \A q \in Requests \ {r} : "user" \in linkReq[q].locks => T!Open' \subseteq T!Open
  PROVE  LinksInv'
<1>1. T!TypeOK' BY DEF LinksInv, T!TypeOK
<1>2. \A q \in Requests \ {r} : Spares(linkReq[q]) BY DEF Spares
<1> QED BY <1>1, <1>2, LinkWrite DEF OfTheAddress

LEMMA LinkSendReset ==
  ASSUME LinksInv, NEW r \in Requests, T!SendReset(r), users' = users
  PROVE  LinksInv'
<1>1. /\ UNCHANGED <<email, verified, confirmation, linkUsed, linkAgain, proven, linkRaced>> /\ T!End(r)
      /\ linkReq[r].at = "sending" /\ linkReq[r].locks = {"user"} \cup T!Open
  BY DEF T!SendReset, T!account, T!At, LinksInv, Followers, LinkFits
<1>2. PICK new \in Resets :
        /\ reset[new] = None
        /\ reset' = [t \in Resets |-> IF t = new THEN [state |-> "live", lapsed |-> FALSE]
                                      ELSE IF t \in linkReq[r].locks THEN [reset[t] EXCEPT !.state = "invalid"]
                                      ELSE reset[t]]
  BY DEF T!SendReset
<1>3. \A t \in Resets : t \in linkReq[r].locks <=> t \in T!Open
  BY <1>1, TokenAssumption
<1>4. /\ \A t \in Resets : reset[t] \in T!Reset \cup {None}
      /\ \A t \in Resets : t \in T!Open <=> reset[t] # None /\ reset[t].state = "live"
  BY DEF LinksInv, T!TypeOK, T!Open
<1>5. reset'[new] \in T!Reset /\ reset'[new] # None /\ reset'[new].state = "live"
  <2>1. reset'[new] = [state |-> "live", lapsed |-> FALSE] BY <1>2
  <2>2. reset'[new] \in T!Reset /\ reset'[new].state = "live" BY <2>1 DEF T!Reset
  <2> QED BY <2>2, NoToken
<1>6. \A t \in Resets \ {new} : IF t \in T!Open THEN /\ reset'[t] \in T!Reset /\ reset'[t] # None
                                                     /\ reset'[t].state = "invalid"
                                                ELSE reset'[t] = reset[t]
  <2> SUFFICES ASSUME NEW t \in Resets \ {new}, t \in T!Open
               PROVE  reset'[t] \in T!Reset /\ reset'[t] # None /\ reset'[t].state = "invalid"
    BY <1>2, <1>3
  <2>1. reset[t] \in T!Reset /\ reset'[t] = [reset[t] EXCEPT !.state = "invalid"]
    BY <1>2, <1>3, <1>4
  <2>2. reset'[t] \in T!Reset /\ reset'[t].state = "invalid" BY <2>1 DEF T!Reset
  <2> QED BY <2>2, NoToken
<1>7. reset' \in [Resets -> T!Reset \cup {None}] BY <1>2, <1>4, <1>5, <1>6
<1>8. T!Open' = {new} BY <1>4, <1>5, <1>6 DEF T!Open
<1>9. OneOpen' BY <1>8 DEF OneOpen
<1>10. \A t \in linkUsed \cap Resets : t # new /\ t \notin T!Open
  BY <1>2, <1>4 DEF LinksInv, LinksSpent
<1>11. LinksSpent' BY <1>1, <1>6, <1>10 DEF LinksInv, LinksSpent
<1>12. \A q \in Requests \ {r} : linkReq[q].locks \cap ({"user"} \cup T!Open) = {}
  <2>1. \A q \in Requests \ {r} : linkReq[q].locks \cap linkReq[r].locks = {} BY DEF LinksInv, Followers, Apart
  <2> QED BY <1>1, <2>1
<1>13. /\ \A q \in Requests \ {r} : linkReq[q].locks \cap T!Open \subseteq T!Open'
       /\ \A q \in Requests \ {r} : "user" \in linkReq[q].locks => T!Open' \subseteq T!Open
  BY <1>12
<1> QED BY <1>1, <1>7, <1>9, <1>11, <1>13, LinkResets

LEMMA LinkSetPassword ==
  ASSUME LinksInv, NEW r \in Requests, T!SetPassword(r), users' = users
  PROVE  LinksInv'
<1> DEFINE t == linkReq[r].t
<1>1. /\ UNCHANGED <<email, verified, confirmation, proven, linkRaced>> /\ T!End(r)
      /\ t \in T!Open /\ t \in linkReq[r].locks /\ \A s \in T!Open : T!Free(s, r)
      /\ linkUsed' = linkUsed \cup {t} /\ linkAgain' = linkAgain \cup (linkUsed \cap {t})
      /\ reset' = [s \in Resets |-> IF s = t THEN [reset[s] EXCEPT !.state = "used"]
                                    ELSE IF s \in T!Open THEN [reset[s] EXCEPT !.state = "invalid"]
                                    ELSE reset[s]]
  BY DEF T!SetPassword, T!At, T!Completes, LinksInv, Followers, LinkFits
<1>2. /\ \A s \in Resets : reset[s] \in T!Reset \cup {None}
      /\ \A s \in Resets : s \in T!Open <=> reset[s] # None /\ reset[s].state = "live"
      /\ t \in Resets
  BY <1>1 DEF LinksInv, T!TypeOK, T!Open
<1> HIDE DEF t
<1>3. ASSUME NEW s \in T!Open
      PROVE  /\ s \in Resets /\ reset'[s] \in T!Reset /\ reset'[s] # None
             /\ reset'[s].state = IF s = t THEN "used" ELSE "invalid"
  <2>1. /\ s \in Resets /\ reset[s] \in T!Reset
        /\ reset'[s] = [reset[s] EXCEPT !.state = IF s = t THEN "used" ELSE "invalid"]
    BY <1>1, <1>2 DEF T!Open
  <2>2. reset'[s] \in T!Reset /\ reset'[s].state = IF s = t THEN "used" ELSE "invalid"
    BY <2>1 DEF T!Reset
  <2> QED BY <2>1, <2>2, NoToken
<1>4. \A s \in Resets \ T!Open : reset'[s] = reset[s] BY <1>1
<1>5. reset' \in [Resets -> T!Reset \cup {None}] BY <1>1, <1>2, <1>3, <1>4
<1>6. T!Open' = {} BY <1>2, <1>3, <1>4 DEF T!Open
<1>7. OneOpen' BY <1>6 DEF OneOpen
<1>8. \A s \in linkUsed \cap Resets : s \notin T!Open BY <1>2 DEF LinksInv, LinksSpent
<1>9. linkAgain' = {} BY <1>1, <1>2, <1>8 DEF LinksInv, LinksSpent
<1>10. t \notin Confirmations BY <1>2, TokenAssumption
<1>11. LinksSpent' BY <1>1, <1>2, <1>3, <1>4, <1>8, <1>9, <1>10 DEF LinksInv, LinksSpent
<1>12. \A q \in Requests \ {r} : linkReq[q].locks \cap T!Open = {} BY <1>1 DEF T!Free
<1>13. /\ \A q \in Requests \ {r} : linkReq[q].locks \cap T!Open \subseteq T!Open'
       /\ \A q \in Requests \ {r} : "user" \in linkReq[q].locks => T!Open' \subseteq T!Open
  BY <1>6, <1>12
<1> QED BY <1>1, <1>5, <1>7, <1>11, <1>13, LinkResets

(* Time passes over the links without ending them. *)
LEMMA LinkLapse ==
  ASSUME LinksInv, T!Lapse, users' = users
  PROVE  LinksInv'
<1>1. UNCHANGED <<email, verified, linkReq, linkUsed, linkAgain, proven, linkRaced>>
  BY DEF T!Lapse, T!account
<1>2. /\ reset \in [Resets -> T!Reset \cup {None}]
      /\ confirmation \in [Confirmations -> T!Confirmation \cup {None}]
  BY DEF LinksInv, T!TypeOK
<1>3. /\ reset' \in [Resets -> T!Reset \cup {None}]
      /\ \A t \in Resets : (reset'[t] # None <=> reset[t] # None) /\ (reset[t] # None => reset'[t].state = reset[t].state)
  <2>1. CASE reset' = reset BY <1>2, <2>1
  <2>2. CASE \E t \in T!Open : reset' = [reset EXCEPT ![t].lapsed = TRUE]
    <3>1. PICK t \in T!Open : reset' = [reset EXCEPT ![t].lapsed = TRUE] BY <2>2
    <3>2. t \in Resets /\ reset[t] # None /\ reset[t] \in T!Reset BY <1>2 DEF T!Open
    <3>3. /\ [reset[t] EXCEPT !.lapsed = TRUE] \in T!Reset
          /\ [reset[t] EXCEPT !.lapsed = TRUE].state = reset[t].state
      BY <3>2 DEF T!Reset
    <3> QED BY <1>2, <3>1, <3>2, <3>3, NoToken
  <2> QED BY <2>1, <2>2 DEF T!Lapse
<1>4. /\ confirmation' \in [Confirmations -> T!Confirmation \cup {None}]
      /\ \A t \in Confirmations : /\ confirmation'[t] # None <=> confirmation[t] # None
                                  /\ confirmation[t] # None => /\ confirmation'[t].state = confirmation[t].state
                                                               /\ confirmation'[t].to = confirmation[t].to
  <2>1. CASE confirmation' = confirmation BY <1>2, <2>1
  <2>2. CASE \E t \in Confirmations : confirmation[t] # None /\ confirmation' = [confirmation EXCEPT ![t].lapsed = TRUE]
    <3>1. PICK t \in Confirmations : confirmation[t] # None /\ confirmation' = [confirmation EXCEPT ![t].lapsed = TRUE]
      BY <2>2
    <3>2. confirmation[t] \in T!Confirmation BY <1>2, <3>1
    <3>3. /\ [confirmation[t] EXCEPT !.lapsed = TRUE] \in T!Confirmation
          /\ [confirmation[t] EXCEPT !.lapsed = TRUE].state = confirmation[t].state
          /\ [confirmation[t] EXCEPT !.lapsed = TRUE].to = confirmation[t].to
      BY <3>2 DEF T!Confirmation
    <3> QED BY <1>2, <3>1, <3>2, <3>3, NoToken
  <2> QED BY <2>1, <2>2 DEF T!Lapse
<1>5. T!Open' = T!Open BY <1>3 DEF T!Open
<1>6. T!TypeOK' /\ OneOpen' BY <1>1, <1>3, <1>4, <1>5 DEF LinksInv, T!TypeOK, OneOpen
<1>7. LinksSpent' BY <1>1, <1>3, <1>4 DEF LinksInv, LinksSpent
<1>8. Followers'
  <2>1. ASSUME NEW q \in Requests PROVE LinkFits(linkReq[q])'
    <3>1. LinkFits(linkReq[q]) BY DEF LinksInv, Followers
    <3> QED BY <1>1, <1>4, <1>5, <3>1 DEF LinkFits
  <2> QED BY <1>1, <2>1 DEF LinksInv, Followers, Apart
<1>9. OfTheAddress => OfTheAddress' BY <1>1, <1>4 DEF OfTheAddress
<1> QED BY <1>1, <1>6, <1>7, <1>8, <1>9 DEF LinksInv

LEMMA LinkSteps ==
  ASSUME LinksInv, AdminInv, InTokens(T!Next)
  PROVE  LinksInv'
<1>1. active \subseteq users /\ users' = users \cup active' BY DEF InTokens, AdminInv, AdminTyped
<1>2. ASSUME active' = active PROVE users' = users BY <1>1, <1>2
<1>3. CASE T!Lapse BY <1>2, <1>3, LinkLapse DEF T!Lapse, T!account
<1>4. ASSUME NEW r \in Requests, T!Links(r) PROVE LinksInv'
  <2>1. CASE T!PostSignup(r)
    <3>1. CASE T!SendConfirmation(r)
      BY <1>2, <3>1, LinkSendConfirmation DEF T!SendConfirmation, T!account
    <3> QED BY <2>1, <3>1, LinkSignup DEF T!PostSignup
  <2>2. CASE T!PostCompleteEmail(r) \/ T!Resend(r)
    <3>1. ASSUME NEW a \in Addresses, T!Complete(r, a) PROVE LinksInv'
      BY <1>2, <3>1, LinkComplete DEF T!Complete, T!account
    <3>2. CASE T!SetEmail(r) BY <1>2, <3>2, LinkSetEmail DEF T!SetEmail
    <3>3. CASE T!Resend(r) BY <1>1, <1>2, <3>3, LinkResend DEF T!Resend, T!account
    <3> QED BY <2>2, <3>1, <3>2, <3>3 DEF T!PostCompleteEmail
  <2>3. CASE T!PostVerifyEmail(r)
    <3>1. ASSUME NEW t \in Confirmations, T!TakeConfirmation(r, t) PROVE LinksInv'
      BY <1>2, <3>1, LinkTakeConfirmation DEF T!TakeConfirmation, T!account
    <3>2. CASE T!LockUser(r) BY <1>2, <3>2, LinkLockUser DEF T!LockUser, T!account
    <3>3. CASE T!Confirm(r) BY <1>2, <3>3, LinkConfirm DEF T!Confirm
    <3> QED BY <2>3, <3>1, <3>2, <3>3 DEF T!PostVerifyEmail
  <2>4. CASE T!PostForgotPassword(r)
    <3>1. CASE T!Forgot(r) \/ T!InvalidateOpen(r)
      BY <1>2, <3>1, LinkForgot DEF T!Forgot, T!InvalidateOpen, T!account
    <3>2. CASE T!SendReset(r) BY <1>2, <3>2, LinkSendReset DEF T!SendReset, T!account
    <3> QED BY <2>4, <3>1, <3>2 DEF T!PostForgotPassword
  <2>5. CASE T!PostResetPassword(r)
    <3>1. ASSUME NEW t \in Resets, T!TakeReset(r, t) PROVE LinksInv'
      BY <1>2, <3>1, LinkTakeReset DEF T!TakeReset, T!account
    <3>2. CASE T!SetPassword(r) BY <1>2, <3>2, LinkSetPassword DEF T!SetPassword
    <3> QED BY <2>5, <3>1, <3>2 DEF T!PostResetPassword
  <2>6. CASE T!Rollback(r) BY <1>2, <2>6, LinkEnd DEF T!Rollback, T!account
  <2> QED BY <1>4, <2>1, <2>2, <2>3, <2>4, <2>5, <2>6 DEF T!Links
<1> QED BY <1>3, <1>4 DEF InTokens, T!Next

(* The account that another service brings has an address to complete. *)
LEMMA LinkArrival ==
  ASSUME LinksInv, UNCHANGED tokens, Account \in users' \ users, email = None, email' = "pending"
  PROVE  LinksInv'
<1> USE AddressAssumption
<1>1. UNCHANGED <<verified, reset, confirmation, linkReq, linkUsed, linkAgain, proven, linkRaced>>
  BY DEF tokens
<1>2. T!Open' = T!Open BY <1>1 DEF T!Open
<1>3. T!TypeOK' /\ LinksSpent' /\ OneOpen'
  BY <1>1, <1>2 DEF LinksInv, T!TypeOK, LinksSpent, OneOpen
<1>4. Followers' BY <1>1, <1>2 DEF LinksInv, Followers, Apart, LinkFits
<1>5. OfTheAddress => OfTheAddress' BY <1>1, NoAddress DEF OfTheAddress
<1> QED BY <1>1, <1>3, <1>4, <1>5 DEF LinksInv

LEMMA LinksNext ==
  ASSUME LinksInv, AdminInv, [Next2]_all
  PROVE  LinksInv'
<1>1. ASSUME UNCHANGED links, Account \in users' => Account \in users \/ email # None
      PROVE LinksInv'
  <2>1. UNCHANGED <<email, verified, reset, confirmation, linkReq, linkUsed, linkAgain, proven, linkRaced>>
    BY <1>1 DEF links, tokens
  <2>2. T!Open' = T!Open BY <2>1 DEF T!Open
  <2>3. T!TypeOK' /\ LinksSpent' /\ OneOpen'
    BY <2>1, <2>2 DEF LinksInv, T!TypeOK, LinksSpent, OneOpen
  <2>4. Followers' BY <2>1, <2>2 DEF LinksInv, Followers, Apart, LinkFits
  <2>5. OfTheAddress => OfTheAddress' BY <2>1 DEF OfTheAddress
  <2> QED BY <1>1, <2>1, <2>3, <2>4, <2>5 DEF LinksInv
<1>2. CASE InSignIn((\E r \in Requests : Auth(r)) \/ Lapse \/ Tick) BY <1>1, <1>2 DEF InSignIn
<1>3. CASE InAdministration(A!Next)
  <2>1. users' \subseteq users BY <1>3, UsersInAdministration DEF InAdministration
  <2> QED BY <1>1, <1>3, <2>1 DEF InAdministration
<1>4. CASE InTokens(T!Next) BY <1>4, LinkSteps
<1>5. CASE InFlows(Flow \/ F!Time) BY <1>1, <1>5, LinkArrival DEF InFlows, Arrival, links
<1>6. CASE InPictures(P!Next) \/ FlowSignsIn \/ UNCHANGED all
  BY <1>1, <1>6 DEF InPictures, FlowSignsIn, F!SignedIn, all
<1> QED BY <1>2, <1>3, <1>4, <1>5, <1>6 DEF Next2

LEMMA LinksInit == ASSUME Init2 PROVE LinksInv
<1>1. T!Found /\ (Account \in users => email # None) BY DEF Init2, Found2
<1>2. T!Idle \in Follower /\ T!Idle.at = "idle" /\ T!Idle.locks = {} BY DEF T!Idle, Follower
<1>3. linkReq = [r \in Requests |-> T!Idle] BY <1>1 DEF T!Found
<1>4. Followers BY <1>2, <1>3 DEF Followers, Apart, LinkFits
<1>5. T!Open = {} BY <1>1 DEF T!Found, T!Open
<1>6. T!TypeOK /\ LinksSpent /\ OneOpen
  BY <1>1, <1>5 DEF T!Found, T!TypeOK, LinksSpent, OneOpen
<1>7. OfTheAddress BY <1>1, <1>2, <1>3 DEF T!Found, OfTheAddress
<1> QED BY <1>1, <1>4, <1>6, <1>7 DEF LinksInv

(* What may be used once is used once, in all of the services together (WorksOnce): a        *)
(* challenge, a ceremony, a code, a link, a grant.  One challenge and one link to reset the   *)
(* password is good at a time, an authenticator asked for was shown, a confirmed address is    *)
(* the account's unless two completions overlapped, an application registered is known or lost. *)
THEOREM AllWorksOnce == Spec2 => []WorksOnce
<1> DEFINE Inv == SignInInv /\ FlowInv /\ AdminInv /\ LinksInv /\ PictureInv
<1>1. Init2 => Inv BY SignInInit, FlowInit, AdminInit, LinksInit, PictureStart
<1>2. Inv /\ [Next2]_all => Inv' BY SignInNext, FlowNext, AdminStep, LinksNext, PictureStep
<1>3. Inv => WorksOnce
  <2> SUFFICES ASSUME Inv PROVE WorksOnce OBVIOUS
  <2>1. UsedOnce /\ OneLiveChallenge /\ EnabledIsConfirmed BY SignInGood
  <2>2. F!GrantsOnce /\ F!RegisteredOnce BY FlowGood
  <2>3. T!OneOpenReset
    <3>1. T!Cardinality(T!Open) = Cardinality(T!Open) BY Zenon DEF T!Cardinality, Cardinality
    <3>2. CASE T!Open = {} BY <3>1, <3>2, FS_EmptySet DEF T!OneOpenReset
    <3>3. CASE \E t : T!Open = {t} BY <3>1, <3>3, FS_Singleton DEF T!OneOpenReset
    <3> QED BY <3>2, <3>3 DEF LinksInv, OneOpen
  <2>4. T!TokensOnce /\ T!VerifiedIsProven
    BY DEF LinksInv, LinksSpent, OfTheAddress, T!TokensOnce, T!VerifiedIsProven
  <2>5. A!TypeOK BY DEF AdminInv, AdminTyped, Closer, A!TypeOK
  <2>6. F!TypeOK BY DEF FlowInv, FlowTyped, AdminInv, AdminTyped, F!TypeOK
  <2>7. P!TypeOK BY DEF PictureInv, PictureTyped, Upload, Names, P!TypeOK
  <2> QED BY <2>1, <2>2, <2>3, <2>4, <2>5, <2>6, <2>7 DEF SignInInv, LinksInv, WorksOnce, AccountsTypeOK
<1> QED BY <1>1, <1>2, <1>3, PTL DEF Spec2

=============================================================================
