------------------------------ MODULE Avatars ------------------------------
(***************************************************************************)
(* The picture of one account: its file (services/avatar_service.py) and   *)
(* the row that names it (api/users.py, services/account_service.py).  A   *)
(* new picture is written, then named, then the old one is deleted; no     *)
(* transaction covers the files, and requests of one account may overlap.  *)
(***************************************************************************)
EXTENDS Naturals

CONSTANTS
  None,
  Uploads,     \* requests that change the picture or delete the account
  MaxFiles     \* bound: pictures that are uploaded

VARIABLES
  named,       \* users.avatar_url, None without a picture
  exists,      \* the account is there
  files,       \* the directory
  drawn,       \* names drawn so far: no name is drawn twice
  upload,
  holder,      \* the request that has locked the account's row
  unsure,      \* a commit was not confirmed
  stray        \* a request was cut off, or named another picture than it had read

vars == <<named, exists, files, drawn, upload, holder, unsure, stray>>

Idle == [at |-> "idle", old |-> None, new |-> None]
Goes(r, place) == upload' = [upload EXCEPT ![r].at = place]
End(r)         == upload' = [upload EXCEPT ![r] = Idle]
Drop(name)     == files' = files \ {name}

-----------------------------------------------------------------------------
(* Mutant: the picture is the one the request began with. *)
ReadBefore(r) == upload[r].old

(* _lock_user_and_protect_last_superuser: populate_existing *)
Current(r) == named

Init ==
  /\ named \in {None, 1} /\ exists = TRUE /\ files = {named} \ {None} /\ drawn = 1
  /\ upload = [r \in Uploads |-> Idle] /\ holder = None
  /\ unsure = FALSE /\ stray = FALSE

(* get_current_user reads the row. *)
Begin(r) ==
  /\ upload[r].at = "idle" /\ exists
  /\ \E place \in {"save", "clear", "lock"} : upload' = [upload EXCEPT ![r] = [Idle EXCEPT !.at = place, !.old = named]]
  /\ UNCHANGED <<named, exists, files, drawn, holder, unsure, stray>>

(* save_avatar: an image that is refused, or a file under a new name *)
SaveAvatar(r) ==
  /\ upload[r].at = "save"
  /\ \/ End(r) /\ UNCHANGED <<files, drawn>>
     \/ /\ drawn < MaxFiles /\ drawn' = drawn + 1
        /\ files' = files \cup {drawn + 1}
        /\ upload' = [upload EXCEPT ![r] = [@ EXCEPT !.at = "commit", !.new = drawn + 1]]
  /\ UNCHANGED <<named, exists, holder, unsure, stray>>

(* post_user_avatar: the row may be gone, the commit fail, and its confirmation or the rows read *)
(* after it be lost: then the new picture is deleted although it is named.                        *)
Commit(r) ==
  /\ upload[r].at = "commit" /\ holder = None
  /\ \/ /\ exists /\ named' = upload[r].new /\ Goes(r, "drop")
        /\ stray' = (stray \/ named # upload[r].old) /\ UNCHANGED unsure
     \/ /\ exists /\ named' = upload[r].new /\ Goes(r, "undo")
        /\ unsure' = TRUE /\ UNCHANGED stray
     \/ Goes(r, "undo") /\ UNCHANGED <<named, unsure, stray>>
  /\ UNCHANGED <<exists, files, drawn, holder>>

Undo(r) ==
  /\ upload[r].at = "undo" /\ Drop(upload[r].new) /\ End(r)
  /\ UNCHANGED <<named, exists, drawn, holder, unsure, stray>>

(* delete_user_avatar: without a picture nothing is written. *)
Clear(r) ==
  /\ upload[r].at = "clear" /\ holder = None
  /\ \/ /\ exists /\ upload[r].old # None /\ named' = None /\ Goes(r, "drop")
        /\ stray' = (stray \/ named # upload[r].old)
     \/ upload[r].old = None /\ Goes(r, "drop") /\ UNCHANGED <<named, stray>>
     \/ End(r) /\ UNCHANGED <<named, stray>>
  /\ UNCHANGED <<exists, files, drawn, holder, unsure>>

(* delete_own_account locks the row, reads it again, and deletes it; or gives up. *)
Lock(r) ==
  /\ upload[r].at = "lock" /\ holder = None
  /\ IF exists THEN /\ holder' = r
                    /\ upload' = [upload EXCEPT ![r] = [@ EXCEPT !.at = "delete", !.old = Current(r)]]
               ELSE End(r) /\ UNCHANGED holder
  /\ UNCHANGED <<named, exists, files, drawn, unsure, stray>>

Delete(r) ==
  /\ upload[r].at = "delete" /\ holder' = None
  /\ \/ exists' = FALSE /\ named' = None /\ Goes(r, "drop")
     \/ End(r) /\ UNCHANGED <<exists, named>>
  /\ UNCHANGED <<files, drawn, unsure, stray>>

(* delete_avatar_file; pictures of other sites are not ours. *)
DropOld(r) ==
  /\ upload[r].at = "drop" /\ Drop(upload[r].old) /\ End(r)
  /\ UNCHANGED <<named, exists, drawn, holder, unsure, stray>>

(* The process stops, or the file cannot be deleted. *)
Crash(r) ==
  /\ upload[r].at # "idle" /\ End(r) /\ stray' = TRUE
  /\ holder' = IF holder = r THEN None ELSE holder
  /\ UNCHANGED <<named, exists, files, drawn, unsure>>

Next == \E r \in Uploads :
  \/ Begin(r) \/ Crash(r) \/ SaveAvatar(r) \/ Commit(r) \/ Undo(r) \/ Clear(r)
  \/ Lock(r) \/ Delete(r) \/ DropOld(r)

Spec == Init /\ [][Next]_vars

-----------------------------------------------------------------------------
TypeOK ==
  /\ drawn \in 1 .. MaxFiles /\ files \subseteq 1 .. drawn /\ named \in (1 .. drawn) \cup {None}
  /\ holder \in Uploads \cup {None} /\ (~exists => named = None)

(* The picture the row names is there, unless a commit was not confirmed, however requests *)
(* overlap or are cut off (post_user_avatar); and no picture outlives its row's name, or    *)
(* its account, unless two requests replaced the same picture or one was cut off.           *)
PictureIsKept ==
  /\ named # None /\ ~unsure => named \in files
  /\ ~stray /\ ~unsure /\ (\A r \in Uploads : upload[r].at = "idle") => files \subseteq {named}
=============================================================================
