----------------------------- MODULE InviteAccess -----------------------------
(***************************************************************************)
(* Who is let into the beta: invite seats, access grants, and the state of *)
(* an account, as changed by redemptions (two batches: claim a seat, then  *)
(* grant and unlock), the reconciler, administrators, campaign revocation  *)
(* (reads its members, then restricts them batch by batch) and deletion.   *)
(*                                                                         *)
(* Each batch is one transaction; every caller may stop after any batch,   *)
(* and a batch may come arbitrarily late after what its caller read.       *)
(* Beta access is required and accounts are verified.  Nothing in the      *)
(* repository suspends an account.                                         *)
(***************************************************************************)
EXTENDS Integers, FiniteSets

CONSTANTS
  Accounts, Invites,
  Campaigns, CampaignOf,  \* the campaign each invite was generated for
  Redemptions,            \* request ids of redemptions: one user and Idempotency-Key each
  Nobody,
  MaxCap, MaxEpoch        \* bounds of the checked instance: capacities, epochs of an account

ASSUME InviteAssumption ==
  /\ CampaignOf \in [Invites -> Campaigns]
  /\ Nobody \notin Invites \cup Campaigns \cup Redemptions
  /\ MaxCap \in Nat \ {0} /\ MaxEpoch \in Nat
  /\ IsFiniteSet(Accounts)

VARIABLES
  account,   \* users rows: beta_state, access_epoch, deletion_state
  invite,    \* beta_invites rows: max_redemptions, and whether expired or revoked
  seats,     \* beta_redemptions rows
  grant,     \* the current (not revoked) beta_access_grants row of each account
  granted,   \* the seats for which a grant was ever inserted
  redeem,    \* what each redemption request asks for, None before its first attempt
  revocation,\* the campaign revocation that is being confirmed: accounts still to restrict
  admitted   \* history: for each seat how often it unlocked its account

inviteVars == <<account, invite, seats, grant, granted, redeem, revocation, admitted>>

\* A seat is identified by account and epoch: UNIQUE (user_id, access_epoch).
SeatIds == Accounts \X Nat

Seat == [id : SeatIds, invite : Invites, no : Nat \ {0}, req : Redemptions]

NoGrant == [source |-> "none", epoch |-> 0, campaign |-> Nobody]

GrantRow == [source : {"none", "invite", "admin"}, epoch : Nat, campaign : Campaigns \cup {Nobody}]

Account == [beta : {"locked", "unlocked", "relocked"}, epoch : Nat, deleting : BOOLEAN]

Redeem == [account : Accounts, invite : Invites]

InviteInit ==
  /\ account = [u \in Accounts |-> [beta |-> "locked", epoch |-> 0, deleting |-> FALSE]]
  /\ invite = [i \in Invites |-> [max |-> 1, state |-> "open"]]
  /\ seats = {} /\ granted = {}
  /\ grant = [u \in Accounts |-> NoGrant]
  /\ redeem = [r \in Redemptions |-> Nobody]
  /\ revocation = [campaign |-> Nobody, members |-> {}]
  /\ admitted = [s \in {} |-> 0]

SeatsOf(i) == {s \in seats : s.invite = i}
CurrentId(u) == <<u, account[u].epoch>>
HasSeat(u) == \E s \in seats : s.id = CurrentId(u)
CampaignOfSeat(id) == CampaignOf[(CHOOSE s \in seats : s.id = id).invite]

----------------------------------------------------------------------------
\* Faulty variant: the last seat is given away twice.
MayClaim_OneMore(r, ask) ==
  /\ invite[ask.invite].state = "open"
  /\ Cardinality(SeatsOf(ask.invite)) <= invite[ask.invite].max
  /\ account[ask.account].beta = "locked" /\ ~account[ask.account].deleting
  /\ ~HasSeat(ask.account)
  /\ ~\E s \in seats : s.req = r

(***************************************************************************)
(* The WHERE of the seat's INSERT ... SELECT, and the unique keys that     *)
(* make it DO NOTHING.                                                     *)
(***************************************************************************)
MayClaim(r, ask) ==
  /\ invite[ask.invite].state = "open"
  /\ Cardinality(SeatsOf(ask.invite)) < invite[ask.invite].max
  /\ account[ask.account].beta = "locked" /\ ~account[ask.account].deleting
  /\ ~HasSeat(ask.account)
  /\ ~\E s \in seats : s.req = r

NewSeat(r, ask) ==
  [id |-> CurrentId(ask.account), invite |-> ask.invite,
   no |-> Cardinality(SeatsOf(ask.invite)) + 1, req |-> r]

(***************************************************************************)
(* redeem(): the first batch, of a new request or of a retry, which asks   *)
(* for the same.  The call then goes on to FinishSeat, or ends here.       *)
(***************************************************************************)
ClaimSeat(r) ==
  /\ \E ask \in Redeem :
       /\ redeem[r] \in {Nobody, ask}
       /\ redeem' = [redeem EXCEPT ![r] = ask]
       /\ seats' = IF MayClaim(r, ask) THEN seats \cup {NewSeat(r, ask)} ELSE seats
  /\ UNCHANGED <<account, invite, grant, granted, revocation, admitted>>

\* pendingCondition: a seat of the account's epoch for which no grant was inserted.
PendingSeat(id) ==
  /\ \E s \in seats : s.id = id
  /\ account[id[1]].beta = "locked" /\ account[id[1]].epoch = id[2]
  /\ ~account[id[1]].deleting
  /\ id \notin granted

Unlocked(u) == [account EXCEPT ![u].beta = "unlocked"]

Admit(id) == [s \in DOMAIN admitted \cup {id} |->
                IF s \notin DOMAIN admitted THEN 1
                ELSE IF s = id THEN admitted[s] + 1 ELSE admitted[s]]

\* Faulty variant: an admission is granted again whatever became of the first.
Finalize_Again(id) ==
  /\ \E s \in seats : s.id = id
  /\ account[id[1]].beta # "unlocked" /\ ~account[id[1]].deleting
  /\ grant' = [grant EXCEPT ![id[1]] =
                 [source |-> "invite", epoch |-> id[2], campaign |-> CampaignOfSeat(id)]]
  /\ granted' = granted \cup {id}
  /\ account' = Unlocked(id[1])
  /\ admitted' = Admit(id)

(***************************************************************************)
(* The follow-up batch: the grant is inserted while the seat is pending    *)
(* and the account has no current grant; the account is unlocked when the  *)
(* seat's grant exists.                                                    *)
(***************************************************************************)
Finalize(id) ==
  /\ PendingSeat(id) /\ grant[id[1]] = NoGrant
  /\ grant' = [grant EXCEPT ![id[1]] =
                 [source |-> "invite", epoch |-> id[2], campaign |-> CampaignOfSeat(id)]]
  /\ granted' = granted \cup {id}
  /\ account' = Unlocked(id[1])
  /\ admitted' = Admit(id)

(***************************************************************************)
(* Whoever finds a seat pending finalizes it: its own request, a later one *)
(* of the account, GET /v1/me, the reconciler.  What they read may be old: *)
(* the follow-up decides for itself.                                       *)
(***************************************************************************)
FinishSeat ==
  /\ \E s \in seats : Finalize(s.id)
  /\ UNCHANGED <<invite, seats, redeem, revocation>>

----------------------------------------------------------------------------
(***************************************************************************)
(* restrictStatements: the deciding UPDATE and, in the same batch, the     *)
(* revocation of current grants: all of them, or only the campaign's.      *)
(***************************************************************************)
RestrictAccount(u, revoked) ==
  /\ account[u].beta # "relocked" /\ ~account[u].deleting
  /\ account' = [account EXCEPT ![u].beta = "relocked"]
  /\ grant' = [grant EXCEPT ![u] = IF revoked THEN NoGrant ELSE @]

Relock(u) ==
  /\ RestrictAccount(u, TRUE)
  /\ UNCHANGED <<invite, seats, granted, redeem, revocation, admitted>>

AdminGrant == [source |-> "admin", epoch |-> 0, campaign |-> Nobody]

\* Faulty variant: the account is unlocked without a grant.
AdminUnlock_NoGrant(u) ==
  /\ account[u].beta \in {"locked", "relocked"} /\ ~account[u].deleting
  /\ account' = Unlocked(u)
  /\ UNCHANGED <<grant, invite, seats, granted, redeem, revocation, admitted>>

\* changeState "unlock" (locked) and "restore_access" (relocked): always a new grant.
AdminUnlock(u) ==
  /\ account[u].beta \in {"locked", "relocked"} /\ ~account[u].deleting
  /\ account' = Unlocked(u)
  /\ grant' = [grant EXCEPT ![u] = AdminGrant]
  /\ UNCHANGED <<invite, seats, granted, redeem, revocation, admitted>>

\* changeState "restore_eligibility": the account may redeem again, in a new epoch.
RestoreEligibility(u) ==
  /\ account[u].beta = "relocked" /\ ~account[u].deleting
  /\ account[u].epoch < MaxEpoch
  /\ account' = [account EXCEPT ![u].beta = "locked", ![u].epoch = @ + 1]
  /\ UNCHANGED <<invite, seats, grant, granted, redeem, revocation, admitted>>

\* The deletion batch revokes every grant; nothing touches the account afterwards.
DeleteAccount(u) ==
  /\ ~account[u].deleting
  /\ account' = [account EXCEPT ![u].deleting = TRUE]
  /\ grant' = [grant EXCEPT ![u] = NoGrant]
  /\ UNCHANGED <<invite, seats, granted, redeem, revocation, admitted>>

\* confirm(): reads the campaign's members (and compares them with the preview).
ConfirmRevocation(k) ==
  /\ revocation.members = {}
  /\ revocation' = [campaign |-> k,
       members |-> {u \in Accounts : grant[u].campaign = k /\ ~account[u].deleting}]
  /\ revocation'.members # {}
  /\ UNCHANGED <<account, invite, seats, grant, granted, redeem, admitted>>

\* confirm(): restricts one of the members it read (each batch restricts up to five).
RestrictMember(u) ==
  /\ u \in revocation.members
  /\ revocation' = [revocation EXCEPT !.members = @ \ {u}]
  /\ \/ RestrictAccount(u, grant[u].campaign = revocation.campaign)
     \/ /\ account[u].beta = "relocked" \/ account[u].deleting
        /\ UNCHANGED <<account, grant>>
  /\ UNCHANGED <<invite, seats, granted, redeem, admitted>>

\* A batch fails: the members that are left are not restricted.
RevocationFails ==
  /\ revocation.members # {}
  /\ revocation' = [revocation EXCEPT !.members = {}]
  /\ UNCHANGED <<account, invite, seats, grant, granted, redeem, admitted>>

\* edit "capacity": never below the seats already used.
EditCapacity(i) ==
  /\ invite[i].state # "revoked"
  /\ \E max \in 1 .. MaxCap :
       /\ Cardinality(SeatsOf(i)) <= max
       /\ invite' = [invite EXCEPT ![i].max = max]
  /\ UNCHANGED <<account, seats, grant, granted, redeem, revocation, admitted>>

\* edit "revoke" is final; an invite that expired may be extended again.
EndInvite(i) ==
  /\ invite[i].state # "revoked"
  /\ \E state \in {"open", "expired", "revoked"} :
       invite' = [invite EXCEPT ![i].state = state]
  /\ UNCHANGED <<account, seats, grant, granted, redeem, revocation, admitted>>

----------------------------------------------------------------------------
InviteNext ==
  \/ \E r \in Redemptions : ClaimSeat(r)
  \/ FinishSeat
  \/ \E u \in Accounts :
       \/ Relock(u) \/ AdminUnlock(u) \/ RestoreEligibility(u) \/ DeleteAccount(u)
       \/ RestrictMember(u)
  \/ \E k \in Campaigns : ConfirmRevocation(k)
  \/ RevocationFails
  \/ \E i \in Invites : EditCapacity(i) \/ EndInvite(i)

InviteSpec == InviteInit /\ [][InviteNext]_inviteVars

\* The hourly reconciler runs.
ReconciledSpec == InviteSpec /\ WF_inviteVars(FinishSeat)

----------------------------------------------------------------------------
InviteTypeOK ==
  /\ account \in [Accounts -> Account]
  /\ invite \in [Invites -> [max : Nat, state : {"open", "expired", "revoked"}]]
  /\ seats \subseteq Seat
  /\ grant \in [Accounts -> GrantRow]
  /\ granted \subseteq SeatIds
  /\ redeem \in [Redemptions -> Redeem \cup {Nobody}]
  /\ revocation \in [campaign : Campaigns \cup {Nobody}, members : SUBSET Accounts]

(***************************************************************************)
(* An invite never has more seats than its cap, and they are numbered      *)
(* without gaps, through concurrent redemptions and edits of the cap.      *)
(***************************************************************************)
SeatsWithinCapacity ==
  \A i \in Invites :
    /\ Cardinality(SeatsOf(i)) <= invite[i].max
    /\ {s.no : s \in SeatsOf(i)} = 1 .. Cardinality(SeatsOf(i))

(***************************************************************************)
(* An account that is let in has a current grant: an administrator's, or   *)
(* that of a seat claimed in the account's present epoch.                  *)
(***************************************************************************)
UnlockedByGrant ==
  \A u \in Accounts :
    (account[u].beta = "unlocked" /\ ~account[u].deleting) =>
      \/ grant[u].source = "admin"
      \/ grant[u].source = "invite" /\ grant[u].epoch = account[u].epoch

(***************************************************************************)
(* A seat unlocks its account at most once, whoever finalizes it and how   *)
(* often: after a relock it never lets the account in again.               *)
(***************************************************************************)
SeatAdmitsOnce == \A id \in DOMAIN admitted : admitted[id] <= 1

(***************************************************************************)
(* A seat whose follow-up never committed is finalized by the reconciler,  *)
(* "so the person is never left behind the gate" (access/profile.ts:99).   *)
(***************************************************************************)
SeatsAreHonoured == \A id \in Accounts \X (0 .. MaxEpoch) : PendingSeat(id) ~> ~PendingSeat(id)
=============================================================================
