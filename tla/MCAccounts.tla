----------------------------- MODULE MCAccounts -----------------------------
(***************************************************************************)
(* Small instances of Accounts for TLC, one scene per run of the system:   *)
(* codes   sign-ins with codes, and the authenticator taken away meanwhile *)
(* setup   the authenticator set up, confirmed, its codes replaced         *)
(* keys    sign-ins with passkeys, and the account deactivated meanwhile   *)
(* ways    passkeys and links added and removed                            *)
(* mails   sign-up, completion and confirmation of the address             *)
(* resets  forgotten passwords                                             *)
(* admins  accounts closed and deactivated                                 *)
(* flows   sign-in and linking with other services                         *)
(* faces   the picture, and the end of the account                         *)
(***************************************************************************)
EXTENDS Accounts, TLC
CONSTANTS i1, i2, boss, home

MCServiceOf == (i1 :> "mastodon") @@ (i2 :> "github")

(* Requests, and the rows they make, are told apart by nothing but their names. *)
Alike == UNION {Permutations(S) : S \in {Requests, States, Challenges, Ceremonies}}

VARIABLE scene

Linked == {i \in Identities : owner[i] # None}

MCInit ==
  /\ scene \in {"codes", "setup", "keys", "ways", "mails", "resets", "admins", "flows", "faces"}
  /\ email \in IF scene = "mails" THEN {"pending", None}
             ELSE IF scene = "ways" THEN {"pending", home}
             ELSE IF scene = "flows" THEN {home, None} ELSE {home}
  /\ users = IF scene = "admins" THEN Users ELSE IF email = None THEN {boss} ELSE {Account, boss}
  /\ active = users
  /\ password = IF email \in Addresses THEN {Account} ELSE {}
  /\ owner \in [Identities -> IF email = "pending" \/ (scene \in {"ways", "flows"} /\ email # None)
                              THEN {Account, None} ELSE {None}]
  /\ Found2 /\ (WayIn \/ email = None)
  /\ (method # None) = (scene = "codes") \/ scene = "ways"
  /\ (keys # {}) = (scene = "keys") \/ scene = "ways"
  /\ (manager # {}) => scene = "admins"
  /\ (named # None) => scene = "faces"

Step ==
  \/ /\ scene = "codes"
     /\ InSignIn(Tick \/ Lapse \/ \E r \in Requests :
          PostLogin(r) \/ PostMfaVerify(r) \/ DeleteTotp(r) \/ Rollback(r))
  \/ /\ scene = "setup"
     /\ InSignIn(Tick \/ Lapse \/ \E r \in Requests :
          PostTotpSetup(r) \/ PostTotpConfirm(r) \/ PostRecoveryCodes(r) \/ DeleteTotp(r) \/ Rollback(r))
  \/ /\ scene = "keys"
     /\ \/ InSignIn(\E r \in Requests : \/ PostLogin(r) \/ PostMfaPasskey(r) \/ PostPasskeyLogin(r)
                                        \/ PostPasskeyReauth(r) \/ Rollback(r))
        \/ InAdministration(\E r \in Requests : A!Decide(r, boss, Account, "deactivating") \/ A!Commit(r))
  \/ /\ scene = "ways"
     /\ InSignIn(Lapse \/ \E r \in Requests :
          PostPasskeyRegistration(r) \/ DeletePasskey(r) \/ DeleteOAuth(r) \/ Rollback(r))
  \/ /\ scene = "mails"
     /\ InTokens(T!Lapse \/ \E r \in Requests : \/ T!PostSignup(r) \/ T!PostCompleteEmail(r)
                                                \/ T!Resend(r) \/ T!PostVerifyEmail(r) \/ T!Rollback(r))
  \/ /\ scene = "resets"
     /\ InTokens(T!Lapse \/ \E r \in Requests : \/ T!PostForgotPassword(r) \/ T!PostResetPassword(r)
                                                \/ T!Rollback(r))
  \/ /\ scene = "admins" /\ InAdministration(A!Next)
  \/ /\ scene = "flows"
     /\ InFlows(Flow \/ F!Time) \/ FlowSignsIn \/ InSignIn(\E r \in Requests : PostLogin(r))
  \/ scene = "faces" /\ InPictures(P!Next)

MCNext == Step /\ UNCHANGED scene
MCSpec == MCInit /\ [][MCNext]_<<all, scene>>
=============================================================================
