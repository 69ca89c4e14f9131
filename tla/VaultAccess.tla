----------------------------- MODULE VaultAccess -----------------------------
(***************************************************************************)
(* The vault of one account: unlocking (a failure is reserved before the   *)
(* slow key derivation and refunded by a success), vault sessions, grants  *)
(* of values to agents, and the reset of the passphrase, which takes a     *)
(* version, an authorization and ends every session and grant.             *)
(*                                                                         *)
(* Batches are transactions and may arrive late; between the steps of one  *)
(* request lies a key derivation that may take any time; a process may     *)
(* stop anywhere.  The owner has access and one sign-in session; items     *)
(* and their values are abstracted.                                        *)
(***************************************************************************)
EXTENDS Integers, Sequences, FiniteSets

CONSTANTS
  VaultCallers,
  MaxFailures, Window,         \* 5 in 15 minutes, which is also the lock-out
  MaxDayFailures, DayWindow,   \* 20 in 24 hours
  IdleTime, SessionLife, AuthorizationLife,
  MaxOpened, MaxVaultTime      \* bounds of the checked instance: sessions, grants and
                               \* authorizations made, the clock

ASSUME VaultAssumption ==
  /\ {MaxFailures, Window, MaxDayFailures, DayWindow} \subseteq Nat \ {0}
  /\ {IdleTime, SessionLife, AuthorizationLife} \subseteq Nat \ {0}
  /\ {MaxOpened, MaxVaultTime} \subseteq Nat

VARIABLES
  vaultNow,       \* the clock
  vaultVersion,   \* vaults.version: each has its own passphrase
  unlockLimit,    \* the vault_unlock_limits row
  vaultSessions,  \* vault_sessions, in the order of their inserts
  valueGrants,    \* vault_grants, in the order of their inserts
  resets,         \* vault_reset_authorizations
  vaultCall,      \* the requests under way
  wrongTries,     \* history: wrong passphrases let in, by window and by day
  lateRefunds     \* history: refunds that reached a later window, and a later day

vaultVars == <<vaultNow, vaultVersion, unlockLimit, vaultSessions, valueGrants, resets,
               vaultCall, wrongTries, lateRefunds>>

NoVaultCall ==
  [at |-> "idle", now |-> 0, version |-> 0, right |-> FALSE, on |-> 0, window |-> 0, day |-> 0]

Times == 0 .. MaxVaultTime
NoneYet == [window |-> [t \in Times |-> 0], day |-> [t \in Times |-> 0]]

VaultInit ==
  /\ vaultNow = 0 /\ vaultVersion = 1
  /\ unlockLimit = [row |-> FALSE, window |-> 0, failures |-> 0, day |-> 0, dayFailures |-> 0,
                    lockedUntil |-> 0]
  /\ vaultSessions = <<>> /\ valueGrants = <<>> /\ resets = <<>>
  /\ vaultCall = [c \in VaultCallers |-> NoVaultCall]
  /\ wrongTries = NoneYet /\ lateRefunds = NoneYet

VaultCallDone(c) == vaultCall' = [vaultCall EXCEPT ![c] = NoVaultCall]

Add(history, window, day) ==
  [history EXCEPT !.window[window] = @ + 1, !.day[day] = @ + 1]

-----------------------------------------------------------------------------
(* Unlocking *)

\* The request reads the vault and its version.
StartUnlock(c, right) ==
  /\ vaultCall[c].at = "idle"
  /\ vaultCall' = [vaultCall EXCEPT ![c] =
       [NoVaultCall EXCEPT !.at = "reserve", !.now = vaultNow, !.version = vaultVersion,
                           !.right = right]]
  /\ UNCHANGED <<vaultNow, vaultVersion, unlockLimit, vaultSessions, valueGrants, resets,
                 wrongTries, lateRefunds>>

\* The first two statements: the row exists, and windows that ended start anew.
LimitAt(now) ==
  IF ~unlockLimit.row
  THEN [unlockLimit EXCEPT !.row = TRUE, !.window = now, !.day = now]
  ELSE IF unlockLimit.lockedUntil > now THEN unlockLimit
  ELSE LET window == unlockLimit.window + Window <= now
           day == unlockLimit.day + DayWindow <= now
       IN [unlockLimit EXCEPT !.window = IF window THEN now ELSE @,
                              !.failures = IF window THEN 0 ELSE @,
                              !.day = IF day THEN now ELSE @,
                              !.dayFailures = IF day THEN 0 ELSE @]

MayTry(l, now) ==
  l.failures < MaxFailures /\ l.dayFailures < MaxDayFailures /\ l.lockedUntil <= now

(***************************************************************************)
(* The reserving batch.  The passphrase of a request that gets through is  *)
(* then tried, which is where a wrong one counts.                          *)
(***************************************************************************)
ReserveUnlock(c) ==
  /\ vaultCall[c].at = "reserve"
  /\ LET now == vaultCall[c].now
         l == LimitAt(now)
     IN IF MayTry(l, now)
        THEN /\ unlockLimit' =
                  [l EXCEPT !.failures = @ + 1, !.dayFailures = @ + 1,
                            !.lockedUntil = IF l.failures + 1 >= MaxFailures
                                            THEN now + Window ELSE @]
             /\ vaultCall' = [vaultCall EXCEPT ![c].at = "derive", ![c].window = l.window,
                                               ![c].day = l.day]
             /\ wrongTries' = IF vaultCall[c].right THEN wrongTries
                              ELSE Add(wrongTries, l.window, l.day)
        ELSE /\ unlockLimit' = l /\ VaultCallDone(c) /\ UNCHANGED wrongTries
  /\ UNCHANGED <<vaultNow, vaultVersion, vaultSessions, valueGrants, resets, lateRefunds>>

Lower(n) == IF n > 0 THEN n - 1 ELSE 0

\* The refund in the committing batch; no more than MaxFailures were ever reserved.
Refunded(l) ==
  [l EXCEPT !.failures = Lower(@), !.dayFailures = Lower(@),
            !.lockedUntil = IF l.failures <= MaxFailures THEN 0 ELSE @]

\* Faulty variant: a wrong passphrase gives its reservation back as well.
WrongPassphrase_Refunds(c) ==
  /\ vaultCall[c].at = "derive" /\ ~vaultCall[c].right
  /\ unlockLimit' = Refunded(unlockLimit)
  /\ VaultCallDone(c)
  /\ UNCHANGED <<vaultNow, vaultVersion, vaultSessions, valueGrants, resets,
                 wrongTries, lateRefunds>>

WrongPassphrase(c) ==
  /\ vaultCall[c].at = "derive" /\ ~vaultCall[c].right
  /\ VaultCallDone(c)
  /\ UNCHANGED <<vaultNow, vaultVersion, unlockLimit, vaultSessions, valueGrants, resets,
                 wrongTries, lateRefunds>>

(***************************************************************************)
(* The committing batch: the session and the refund, while the vault has   *)
(* the version whose passphrase was tried.                                 *)
(***************************************************************************)
CommitUnlock(c) ==
  /\ vaultCall[c].at = "derive" /\ vaultCall[c].right
  /\ LET call == vaultCall[c] IN
     IF call.version = vaultVersion
     THEN /\ Len(vaultSessions) < MaxOpened
          /\ vaultSessions' = Append(vaultSessions,
               [version |-> call.version, lastUsed |-> call.now,
                expires |-> call.now + SessionLife, revoked |-> FALSE])
          /\ unlockLimit' = Refunded(unlockLimit)
          /\ lateRefunds' =
               [lateRefunds EXCEPT
                  !.window[unlockLimit.window] = IF unlockLimit.window # call.window THEN @ + 1 ELSE @,
                  !.day[unlockLimit.day] = IF unlockLimit.day # call.day THEN @ + 1 ELSE @]
     ELSE UNCHANGED <<vaultSessions, unlockLimit, lateRefunds>>
  /\ VaultCallDone(c)
  /\ UNCHANGED <<vaultNow, vaultVersion, valueGrants, resets, wrongTries>>

-----------------------------------------------------------------------------
(* Open sessions and grants *)

\* The condition of open().
SessionOpen(s, now) ==
  /\ ~vaultSessions[s].revoked /\ vaultSessions[s].expires > now
  /\ vaultSessions[s].lastUsed + IdleTime > now
  /\ vaultSessions[s].version = vaultVersion

\* VaultGrants.create: the session is opened and touched; its item is then read.
StartGrant(c, s) ==
  /\ vaultCall[c].at = "idle" /\ SessionOpen(s, vaultNow)
  /\ vaultSessions' = [vaultSessions EXCEPT ![s].lastUsed = vaultNow]
  /\ vaultCall' = [vaultCall EXCEPT ![c] =
       [NoVaultCall EXCEPT !.at = "grant", !.now = vaultNow, !.version = vaultVersion, !.on = s]]
  /\ UNCHANGED <<vaultNow, vaultVersion, unlockLimit, valueGrants, resets, wrongTries, lateRefunds>>

\* Faulty variant: that the session was open when the item was read is enough.
GrantAuthorized_AsRead(s, now) == TRUE

GrantAuthorized(s, now) == SessionOpen(s, now)

CommitGrant(c) ==
  /\ vaultCall[c].at = "grant"
  /\ IF GrantAuthorized(vaultCall[c].on, vaultCall[c].now)
     THEN /\ Len(valueGrants) < MaxOpened
          /\ valueGrants' = Append(valueGrants, [under |-> vaultCall[c].version, active |-> TRUE])
     ELSE UNCHANGED valueGrants
  /\ VaultCallDone(c)
  /\ UNCHANGED <<vaultNow, vaultVersion, unlockLimit, vaultSessions, resets, wrongTries, lateRefunds>>

\* Revoked by an open session, or expired by cleanupVault.
GrantEnds(g) ==
  /\ valueGrants[g].active
  /\ valueGrants' = [valueGrants EXCEPT ![g].active = FALSE]
  /\ UNCHANGED <<vaultNow, vaultVersion, unlockLimit, vaultSessions, resets, vaultCall,
                 wrongTries, lateRefunds>>

LockVault(s) ==
  /\ ~vaultSessions[s].revoked
  /\ vaultSessions' = [vaultSessions EXCEPT ![s].revoked = TRUE]
  /\ UNCHANGED <<vaultNow, vaultVersion, unlockLimit, valueGrants, resets, vaultCall,
                 wrongTries, lateRefunds>>

-----------------------------------------------------------------------------
(* Reset *)

\* verifyCode: the e-mailed code is used up for an authorization of the current version.
AuthorizeReset ==
  /\ Len(resets) < MaxOpened
  /\ resets' = Append(resets, [version |-> vaultVersion, expires |-> vaultNow + AuthorizationLife,
                               consumed |-> FALSE])
  /\ UNCHANGED <<vaultNow, vaultVersion, unlockLimit, vaultSessions, valueGrants, vaultCall,
                 wrongTries, lateRefunds>>

ResetAuthorized(a, version, now) ==
  /\ version = vaultVersion /\ resets[a].version = version
  /\ ~resets[a].consumed /\ resets[a].expires > now

StartReset(c, a) ==
  /\ vaultCall[c].at = "idle" /\ ResetAuthorized(a, vaultVersion, vaultNow)
  /\ vaultCall' = [vaultCall EXCEPT ![c] =
       [NoVaultCall EXCEPT !.at = "reset", !.now = vaultNow, !.version = vaultVersion, !.on = a]]
  /\ UNCHANGED <<vaultNow, vaultVersion, unlockLimit, vaultSessions, valueGrants, resets,
                 wrongTries, lateRefunds>>

(***************************************************************************)
(* The deciding batch repeats the condition with the time it is sent.      *)
(***************************************************************************)
CommitReset(c) ==
  /\ vaultCall[c].at = "reset"
  /\ \E sent \in vaultCall[c].now .. vaultNow :
     IF ResetAuthorized(vaultCall[c].on, vaultCall[c].version, sent)
     THEN /\ vaultVersion' = vaultVersion + 1
          /\ resets' = [resets EXCEPT ![vaultCall[c].on].consumed = TRUE]
          /\ vaultSessions' = [s \in DOMAIN vaultSessions |->
                                 [vaultSessions[s] EXCEPT !.revoked = TRUE]]
          /\ valueGrants' = [g \in DOMAIN valueGrants |->
                               [valueGrants[g] EXCEPT !.active = FALSE]]
     ELSE UNCHANGED <<vaultVersion, resets, vaultSessions, valueGrants>>
  /\ VaultCallDone(c)
  /\ UNCHANGED <<vaultNow, unlockLimit, wrongTries, lateRefunds>>

\* The process stops, or the batch never arrives: a reservation is kept.
VaultCallEnds(c) ==
  /\ vaultCall[c].at # "idle" /\ VaultCallDone(c)
  /\ UNCHANGED <<vaultNow, vaultVersion, unlockLimit, vaultSessions, valueGrants, resets,
                 wrongTries, lateRefunds>>

VaultTick ==
  /\ vaultNow < MaxVaultTime /\ vaultNow' = vaultNow + 1
  /\ UNCHANGED <<vaultVersion, unlockLimit, vaultSessions, valueGrants, resets, vaultCall,
                 wrongTries, lateRefunds>>

-----------------------------------------------------------------------------
VaultNext ==
  \/ \E c \in VaultCallers :
       \/ \E right \in BOOLEAN : StartUnlock(c, right)
       \/ ReserveUnlock(c) \/ WrongPassphrase(c) \/ CommitUnlock(c)
       \/ \E s \in DOMAIN vaultSessions : StartGrant(c, s)
       \/ CommitGrant(c)
       \/ \E a \in DOMAIN resets : StartReset(c, a)
       \/ CommitReset(c) \/ VaultCallEnds(c)
  \/ \E g \in DOMAIN valueGrants : GrantEnds(g)
  \/ \E s \in DOMAIN vaultSessions : LockVault(s)
  \/ AuthorizeReset \/ VaultTick

VaultSpec == VaultInit /\ [][VaultNext]_vaultVars

VaultTypeOK ==
  /\ vaultNow \in Times /\ vaultVersion \in 1 .. MaxOpened + 1
  /\ unlockLimit \in [row : BOOLEAN, window : Times, failures : 0 .. MaxFailures, day : Times,
                      dayFailures : 0 .. MaxDayFailures, lockedUntil : Nat]
  /\ \A s \in DOMAIN vaultSessions :
       vaultSessions[s] \in [version : Nat, lastUsed : Times, expires : Nat, revoked : BOOLEAN]
  /\ \A g \in DOMAIN valueGrants : valueGrants[g] \in [under : Nat, active : BOOLEAN]
  /\ \A a \in DOMAIN resets : resets[a] \in [version : Nat, expires : Nat, consumed : BOOLEAN]
  /\ \A c \in VaultCallers :
       vaultCall[c] \in [at : {"idle", "reserve", "derive", "grant", "reset"}, now : Times,
                         version : Nat, right : BOOLEAN, on : Nat, window : Times, day : Times]

(***************************************************************************)
(* A new passphrase ends what the old one opened: after a reset no session *)
(* and no grant of an earlier version is left, whatever was under way.     *)
(***************************************************************************)
ResetEndsTrust ==
  /\ \A s \in DOMAIN vaultSessions : vaultSessions[s].version < vaultVersion => vaultSessions[s].revoked
  /\ \A g \in DOMAIN valueGrants : valueGrants[g].under < vaultVersion => ~valueGrants[g].active

(***************************************************************************)
(* "concurrent guesses therefore cannot run beyond the durable limit": no  *)
(* window and no day sees more wrong passphrases than the limit, but for   *)
(* refunds of unlocks that began in an earlier one.                        *)
(***************************************************************************)
TriesAreLimited ==
  \A t \in Times :
    /\ wrongTries.window[t] <= MaxFailures + lateRefunds.window[t]
    /\ wrongTries.day[t] <= MaxDayFailures + lateRefunds.day[t]
=============================================================================
