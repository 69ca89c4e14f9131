--------------------------- MODULE SharedArtifacts ---------------------------
(***************************************************************************)
(* Sharing one artifact of a task: an agent's proposal, the owner's        *)
(* releases (of a reviewed head, of a proposal, in place of an earlier     *)
(* grant), revocation and restriction, and readers, who resolve a grant,   *)
(* fetch the object and are authorized again before they get it, where a   *)
(* grant has a password with a session that a password earned.             *)
(*                                                                         *)
(* Batches are transactions and may come late after what their request     *)
(* read; requests may stop anywhere.  A unit of time is one window of the  *)
(* limits.  The times at which grants and sessions expire, the links and   *)
(* cookies themselves, and readers from several addresses are abstracted.  *)
(***************************************************************************)
EXTENDS Integers, Sequences, FiniteSets

CONSTANTS
  Releasers, Guests,           \* requests of the owner, and of readers
  TriesPerWindow, TriesPerDay, \* 5 of one address in 15 minutes, 50 of all in a day
  WindowsPerDay,
  MaxHeads, MaxShares, MaxWindow  \* bounds of the checked instance

ASSUME ShareAssumption ==
  /\ {TriesPerWindow, TriesPerDay, WindowsPerDay, MaxHeads, MaxShares} \subseteq Nat \ {0}
  /\ MaxWindow \in Nat

VARIABLES
  source,        \* the task and its head, and whether the owner is admitted
  proposal,      \* the share_approvals row
  shares,        \* share_grants, in the order of their inserts
  shareSessions, \* share_sessions that are not revoked: grant and generation
  tries,         \* share_limits of each grant, and history: the wrong passwords let in
  shareNow,      \* the clock
  releaser,      \* the owner's requests under way
  guest,         \* the readers' requests under way
  served         \* history: what readers got, with the grant as it was then

shareVars ==
  <<source, proposal, shares, shareSessions, tries, shareNow, releaser, guest, served>>

Resting == [at |-> "idle", head |-> 0, proposed |-> FALSE, on |-> 0, generation |-> 0]
NoGuest == [at |-> "idle", grant |-> 0, generation |-> 0, right |-> FALSE, now |-> 0]

Windows == 0 .. MaxWindow
DayOf(t) == t \div WindowsPerDay
NoTries == [own |-> [t \in Windows |-> 0], all |-> [t \in Windows |-> 0]]

ShareInit ==
  /\ source = [head |-> 1, active |-> TRUE, admitted |-> TRUE]
  /\ proposal = [head |-> 0, status |-> "none"]
  /\ shares = <<>> /\ shareSessions = {}
  /\ tries = [g \in 1 .. MaxShares |-> [counted |-> NoTries, wrong |-> NoTries]]
  /\ shareNow = 0
  /\ releaser = [o \in Releasers |-> Resting]
  /\ guest = [q \in Guests |-> NoGuest]
  /\ served = {}

-----------------------------------------------------------------------------
(* The task and its owner *)

\* A new head, or the task is archived or taken back.
SourceChanges ==
  /\ \/ source.head < MaxHeads /\ source' = [source EXCEPT !.head = @ + 1]
     \/ source' = [source EXCEPT !.active = ~@]
  /\ UNCHANGED <<proposal, shares, shareSessions, tries, shareNow, releaser, guest, served>>

\* sharingRestrictContributor, in the restricting batch.
RestrictSharing ==
  /\ source.admitted /\ source' = [source EXCEPT !.admitted = FALSE]
  /\ shares' = [g \in DOMAIN shares |->
       IF shares[g].status = "active"
       THEN [shares[g] EXCEPT !.status = "disabled", !.generation = @ + 1] ELSE shares[g]]
  /\ shareSessions' = {}
  /\ proposal' = IF proposal.status = "pending" THEN [proposal EXCEPT !.status = "expired"]
                 ELSE proposal
  /\ UNCHANGED <<tries, shareNow, releaser, guest, served>>

AdmitAgain ==
  /\ ~source.admitted /\ source' = [source EXCEPT !.admitted = TRUE]
  /\ UNCHANGED <<proposal, shares, shareSessions, tries, shareNow, releaser, guest, served>>

-----------------------------------------------------------------------------
(* Proposals and releases *)

CanShare == source.admitted /\ source.active

\* propose(), whose batch requires the head it was made for.  One proposal is checked.
Propose ==
  /\ proposal.status = "none" /\ CanShare
  /\ proposal' = [head |-> source.head, status |-> "pending"]
  /\ UNCHANGED <<source, shares, shareSessions, tries, shareNow, releaser, guest, served>>

\* The sweep of cleanup-hourly.
ProposalExpires ==
  /\ proposal.status = "pending" /\ proposal' = [proposal EXCEPT !.status = "expired"]
  /\ UNCHANGED <<source, shares, shareSessions, tries, shareNow, releaser, guest, served>>

\* The owner confirms what a page shows: a head, perhaps the proposal, a grant to replace.
StartRelease(o, proposed, replaced) ==
  /\ releaser[o].at = "idle" /\ source.admitted
  /\ proposed => proposal.status # "none"
  /\ releaser' = [releaser EXCEPT ![o] =
       [Resting EXCEPT !.at = "release", !.head = IF proposed THEN proposal.head ELSE source.head,
                       !.proposed = proposed, !.on = replaced]]
  /\ UNCHANGED <<source, proposal, shares, shareSessions, tries, shareNow, guest, served>>

\* Faulty variant: the proposal is as the page showed it.
Releasable_AsShown(call) == CanShare /\ source.head = call.head

\* The conditions of the releasing batch.
Releasable(call) ==
  /\ CanShare /\ source.head = call.head
  /\ call.proposed => proposal.status = "pending" /\ proposal.head = call.head

Revoked(g) == [shares EXCEPT ![g].status = "revoked", ![g].generation = @ + 1]

\* A replaced grant is revoked whatever its status was; sessions made for it stay.
CommitRelease(o, password) ==
  /\ releaser[o].at = "release"
  /\ LET call == releaser[o] IN
     IF Releasable(call)
     THEN /\ Len(shares) < MaxShares
          /\ shares' = Append(IF call.on = 0 THEN shares ELSE Revoked(call.on),
               [password |-> password, status |-> "active", generation |-> 1,
                proposed |-> call.proposed, head |-> source.head])
          /\ proposal' = IF call.proposed THEN [proposal EXCEPT !.status = "released"]
                         ELSE proposal
     ELSE UNCHANGED <<shares, proposal>>
  /\ releaser' = [releaser EXCEPT ![o] = Resting]
  /\ UNCHANGED <<source, shareSessions, tries, shareNow, guest, served>>

\* revoke() reads the generation that its batch will require.
StartRevoke(o, g) ==
  /\ releaser[o].at = "idle" /\ source.admitted
  /\ releaser' = [releaser EXCEPT ![o] =
       [Resting EXCEPT !.at = "revoke", !.on = g, !.generation = shares[g].generation]]
  /\ UNCHANGED <<source, proposal, shares, shareSessions, tries, shareNow, guest, served>>

CommitRevoke(o) ==
  /\ releaser[o].at = "revoke"
  /\ LET g == releaser[o].on IN
     IF source.admitted /\ shares[g].generation = releaser[o].generation
     THEN /\ shares' = IF shares[g].status = "revoked" THEN shares ELSE Revoked(g)
          /\ shareSessions' = {s \in shareSessions : s.grant # g}
     ELSE UNCHANGED <<shares, shareSessions>>
  /\ releaser' = [releaser EXCEPT ![o] = Resting]
  /\ UNCHANGED <<source, proposal, tries, shareNow, guest, served>>

ReleaserStops(o) ==
  /\ releaser[o].at # "idle" /\ releaser' = [releaser EXCEPT ![o] = Resting]
  /\ UNCHANGED <<source, proposal, shares, shareSessions, tries, shareNow, guest, served>>

-----------------------------------------------------------------------------
(* Readers *)

\* active(): what every statement of a reader requires of its grant.
ShareActive(g) == shares[g].status = "active" /\ source.admitted

SessionFor(g) == [grant |-> g, generation |-> shares[g].generation]

\* resolve(), and the session of the reader's cookie where the grant has a password.
StartRead(q, g) ==
  /\ guest[q].at = "idle" /\ ShareActive(g)
  /\ shares[g].password => SessionFor(g) \in shareSessions
  /\ guest' = [guest EXCEPT ![q] =
       [NoGuest EXCEPT !.at = "fetch", !.grant = g, !.generation = shares[g].generation]]
  /\ UNCHANGED <<source, proposal, shares, shareSessions, tries, shareNow, releaser, served>>

Reauthorized(call) ==
  /\ ShareActive(call.grant) /\ shares[call.grant].generation = call.generation
  /\ shares[call.grant].password => SessionFor(call.grant) \in shareSessions

\* content(): the object has come, and the reader is authorized again.
Deliver(q) ==
  /\ guest[q].at = "fetch"
  /\ LET g == guest[q].grant IN
     served' = IF Reauthorized(guest[q])
               THEN served \cup {[grant |-> g, active |-> ShareActive(g),
                                  proved |-> SessionFor(g) \in shareSessions]}
               ELSE served
  /\ guest' = [guest EXCEPT ![q] = NoGuest]
  /\ UNCHANGED <<source, proposal, shares, shareSessions, tries, shareNow, releaser>>

StartPassword(q, g, right) ==
  /\ guest[q].at = "idle" /\ ShareActive(g) /\ shares[g].password
  /\ guest' = [guest EXCEPT ![q] =
       [at |-> "reserve", grant |-> g, generation |-> shares[g].generation, right |-> right,
        now |-> shareNow]]
  /\ UNCHANGED <<source, proposal, shares, shareSessions, tries, shareNow, releaser, served>>

Count(limits, t, n) ==
  [limits EXCEPT !.own[t] = @ + n, !.all[DayOf(t)] = @ + n]

MayTryPassword(g, t) ==
  tries[g].counted.own[t] < TriesPerWindow /\ tries[g].counted.all[DayOf(t)] < TriesPerDay

\* The reserving batch; what gets through is verified, where a wrong password counts.
ReservePassword(q) ==
  /\ guest[q].at = "reserve"
  /\ LET g == guest[q].grant
         t == guest[q].now
     IN
     IF MayTryPassword(g, t)
     THEN /\ tries' = [tries EXCEPT ![g].counted = Count(@, t, 1),
                       ![g].wrong = Count(@, t, IF guest[q].right THEN 0 ELSE 1)]
          /\ guest' = [guest EXCEPT ![q].at = "verify"]
     ELSE guest' = [guest EXCEPT ![q] = NoGuest] /\ UNCHANGED tries
  /\ UNCHANGED <<source, proposal, shares, shareSessions, shareNow, releaser, served>>

\* The committing batch: the session of the generation that was resolved, and the refund.
CommitPassword(q) ==
  /\ guest[q].at = "verify" /\ guest[q].right
  /\ LET g == guest[q].grant IN
     IF ShareActive(g) /\ shares[g].generation = guest[q].generation
     THEN /\ shareSessions' = shareSessions \cup {SessionFor(g)}
          /\ tries' = [tries EXCEPT ![g].counted = Count(@, guest[q].now, -1)]
     ELSE UNCHANGED <<shareSessions, tries>>
  /\ guest' = [guest EXCEPT ![q] = NoGuest]
  /\ UNCHANGED <<source, proposal, shares, shareNow, releaser, served>>

\* A wrong password, a client that goes away, a batch that never arrives.
GuestStops(q) ==
  /\ guest[q].at # "idle" /\ guest' = [guest EXCEPT ![q] = NoGuest]
  /\ UNCHANGED <<source, proposal, shares, shareSessions, tries, shareNow, releaser, served>>

NextWindow ==
  /\ shareNow < MaxWindow /\ shareNow' = shareNow + 1
  /\ UNCHANGED <<source, proposal, shares, shareSessions, tries, releaser, guest, served>>

-----------------------------------------------------------------------------
ShareNext ==
  \/ SourceChanges \/ RestrictSharing \/ AdmitAgain
  \/ Propose \/ ProposalExpires
  \/ \E o \in Releasers :
       \/ \E proposed \in BOOLEAN, replaced \in {0} \cup DOMAIN shares :
            StartRelease(o, proposed, replaced)
       \/ \E password \in BOOLEAN : CommitRelease(o, password)
       \/ \E g \in DOMAIN shares : StartRevoke(o, g)
       \/ CommitRevoke(o) \/ ReleaserStops(o)
  \/ \E q \in Guests :
       \/ \E g \in DOMAIN shares :
            StartRead(q, g) \/ \E right \in BOOLEAN : StartPassword(q, g, right)
       \/ Deliver(q) \/ ReservePassword(q) \/ CommitPassword(q) \/ GuestStops(q)
  \/ NextWindow

ShareSpec == ShareInit /\ [][ShareNext]_shareVars

ShareTypeOK ==
  /\ source \in [head : 1 .. MaxHeads, active : BOOLEAN, admitted : BOOLEAN]
  /\ proposal \in [head : 0 .. MaxHeads, status : {"none", "pending", "released", "expired"}]
  /\ \A g \in DOMAIN shares :
       shares[g] \in [password : BOOLEAN, status : {"active", "revoked", "disabled"},
                      generation : Nat, proposed : BOOLEAN, head : 1 .. MaxHeads]
  /\ shareSessions \subseteq [grant : DOMAIN shares, generation : Nat]
  /\ \A g \in 1 .. MaxShares : tries[g] \in
               [counted : [own : [Windows -> Nat], all : [Windows -> Nat]],
                wrong : [own : [Windows -> Nat], all : [Windows -> Nat]]]
  /\ shareNow \in Windows
  /\ \A o \in Releasers : releaser[o].at \in {"idle", "release", "revoke"}
  /\ \A q \in Guests : guest[q].at \in {"idle", "fetch", "reserve", "verify"}
  /\ served \subseteq [grant : DOMAIN shares, active : BOOLEAN, proved : BOOLEAN]

(***************************************************************************)
(* Nothing is shared but what the owner released: a proposal becomes one   *)
(* grant at most, at the head it proposed, and is released if and only if  *)
(* it did; no content leaves after its grant has ended or without the      *)
(* session a password earned; and no window and no day of a grant lets in  *)
(* more wrong passwords than its limit, however requests overlap.          *)
(***************************************************************************)
SharedAsReleased ==
  /\ \A g, h \in DOMAIN shares : shares[g].proposed /\ shares[h].proposed => g = h
  /\ \A g \in DOMAIN shares : shares[g].proposed => shares[g].head = proposal.head
  /\ proposal.status = "released" <=> \E g \in DOMAIN shares : shares[g].proposed
  /\ \A r \in served : r.active /\ (shares[r.grant].password => r.proved)
  /\ \A g \in DOMAIN shares, t \in Windows :
       tries[g].wrong.own[t] <= TriesPerWindow /\ tries[g].wrong.all[t] <= TriesPerDay
=============================================================================
