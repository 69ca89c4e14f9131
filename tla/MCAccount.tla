------------------------------ MODULE MCAccount ------------------------------
(***************************************************************************)
(* What one account has besides its documents and tasks, and its deletion: *)
(* sign-in codes, OAuth grants, the vault, shared artifacts and the purge. *)
(* They are checked side by side: one of them moves in each behaviour      *)
(* while the others stay in their initial states.                          *)
(***************************************************************************)
EXTENDS MCAccountPurge, OtpSignIn, OAuthGrants, VaultAccess, SharedArtifacts

CONSTANTS o1, o2, z1, z2  \* the requests of Releasers and Guests

VARIABLE focus

AccountInit ==
    /\ focus \in {"purge", "codes", "oauth", "unlock", "reset", "release", "read", "passwords"}
    /\ PurgeInit /\ OtpInit /\ OAuthInit /\ VaultInit /\ ShareInit
    /\ focus # "oauth" => consent.offline

\* The vault without grants and resets, and without wrong passphrases.
Unlocking == UNCHANGED <<valueGrants, resets>> /\ \A c \in VaultCallers : vaultCall'[c].at # "grant"
Resetting == wrongTries' = wrongTries /\ vaultNow' <= 1

\* Two releases and a revocation at once; one reader and the owner; two
\* readers who try passwords for one grant.
Releasing == UNCHANGED <<guest, shareNow>> /\ source'.active /\ releaser'[o2].at # "revoke"
ReadingShared ==
    /\ UNCHANGED <<proposal, shareNow>> /\ source'.head = 1 /\ (\A g \in 1 .. MaxShares : tries'[g].wrong = tries[g].wrong)
    /\ releaser'[o2] = releaser[o2] /\ guest'[z2] = guest[z2]
TryingPasswords ==
    /\ UNCHANGED <<proposal, source, served>> /\ Len(shares') <= 1
    /\ releaser'[o2] = releaser[o2]

AccountNext ==
    /\ UNCHANGED focus
    /\ \/ /\ focus = "purge" /\ PurgeNext
          /\ UNCHANGED <<otpVars, oauthVars, vaultVars, shareVars>>
       \/ /\ focus = "codes" /\ OtpNext
          /\ UNCHANGED <<vars, oauthVars, vaultVars, shareVars>>
       \/ /\ focus = "oauth" /\ OAuthNext
          /\ UNCHANGED <<vars, otpVars, vaultVars, shareVars>>
       \/ /\ focus = "unlock" /\ VaultNext /\ Unlocking
          /\ UNCHANGED <<vars, otpVars, oauthVars, shareVars>>
       \/ /\ focus = "reset" /\ VaultNext /\ Resetting
          /\ UNCHANGED <<vars, otpVars, oauthVars, shareVars>>
       \/ /\ focus = "release" /\ ShareNext /\ Releasing
          /\ UNCHANGED <<vars, otpVars, oauthVars, vaultVars>>
       \/ /\ focus = "read" /\ ShareNext /\ ReadingShared
          /\ UNCHANGED <<vars, otpVars, oauthVars, vaultVars>>
       \/ /\ focus = "passwords" /\ ShareNext /\ TryingPasswords
          /\ UNCHANGED <<vars, otpVars, oauthVars, vaultVars>>

accountVars == <<focus, vars, otpVars, oauthVars, vaultVars, shareVars>>

AccountSpec == AccountInit /\ [][AccountNext]_accountVars

\* What tells two states apart: only one component moves.
AccountMoving ==
    <<focus, CASE focus = "purge" -> vars
               [] focus = "codes" -> otpVars
               [] focus = "oauth" -> oauthVars
               [] focus \in {"unlock", "reset"} -> vaultVars
               [] focus \in {"release", "read", "passwords"} -> shareVars>>

AccountTypeOK == TypeOK /\ OtpTypeOK /\ OAuthTypeOK /\ VaultTypeOK /\ ShareTypeOK
=============================================================================
