----------------------------- MODULE Idempotency -----------------------------
(***************************************************************************)
(* Idempotency-Key records: how a mutation sent several times under one    *)
(* key takes effect once and is answered alike.  One key of one user and   *)
(* scope is modelled (records do not interact).                            *)
(*                                                                         *)
(* A route is declared in one of two ways.  A "folded" route puts claim,   *)
(* effect and recorded answer into one batch.  A "claimed" route claims    *)
(* the key in a batch of its own, runs the handler, and then records the   *)
(* answer; handlers of claimed routes write an audit event whose unique    *)
(* request id contains the key, so their effect cannot be applied twice.   *)
(*                                                                         *)
(* Any call may fail, before or after it took effect; a batch lands at     *)
(* most MaxExchange after its request began (the transport's time limits). *)
(***************************************************************************)
EXTENDS Integers

CONSTANTS
  Attempts,     \* requests that carry the key: the first one and its retries
  Inputs,       \* validated inputs, told apart by their fingerprints
  NoValue,      \* no input, no answer
  TTL,          \* IDEMPOTENCY_RECORD_TTL_MS
  PendingLease,  \* IDEMPOTENCY_PENDING_LEASE_MS
  MaxExchange,  \* longest time from the start of a folded request to its batch
  MaxIdemTime   \* bound of the checked instance: the clock

ASSUME IdempotencyAssumption ==
  /\ TTL \in Nat \ {0} /\ PendingLease \in Nat /\ MaxExchange \in Nat
  /\ MaxIdemTime \in Nat
  /\ NoValue \notin Inputs \cup Attempts

VARIABLES
  route,       \* how the route is declared; never changes
  record,      \* the idempotency_records row of the key
  attempt,     \* the attempts: the local variables of the interceptor
  applied,     \* history: the attempts whose effect was applied
  admissible,  \* whether the handler's own conditions hold (version, access, ...)
  idemClock

idemVars == <<route, record, attempt, applied, admissible, idemClock>>

NoRecord == [status |-> "none"]

RecordRows == {NoRecord} \cup
  [status : {"pending", "completed"}, owner : Attempts, input : Inputs,
   updated : Nat, expires : Nat]

(***************************************************************************)
(* What the client of an attempt has been told.  A replay also names the   *)
(* attempt whose answer was recorded.                                      *)
(***************************************************************************)
Answers == {"none", "unknown", "applied", "refused", "mismatch", "in_progress", "replay"}

AttemptState == [pc : {"idle", "sent", "claiming", "handling", "completing", "releasing", "done"},
                 input : Inputs \cup {NoValue}, now : Nat,
                 told : Answers, replayed : Attempts \cup {NoValue}]

IdleAttempt == [pc |-> "idle", input |-> NoValue, now |-> 0, told |-> "none", replayed |-> NoValue]

IdemInit ==
  /\ route \in {"folded", "claimed"}
  /\ record = NoRecord
  /\ attempt = [a \in Attempts |-> IdleAttempt]
  /\ applied = {}
  /\ admissible = TRUE
  /\ idemClock = 0

----------------------------------------------------------------------------
(***************************************************************************)
(* The claim statement: insert, or overwrite an expired record, or (never  *)
(* for a folded claim) an abandoned pending one of the same input.         *)
(***************************************************************************)
Abandoned(a) ==
  /\ record.status = "pending"
  /\ record.updated + PendingLease <= attempt[a].now
  /\ record.input = attempt[a].input

\* Faulty variant: a folded claim takes over whatever is pending or completed for long.
RecordClaimable_AnyOld(a, takeOver) ==
  \/ record = NoRecord
  \/ record.updated + PendingLease <= attempt[a].now

RecordClaimable(a, takeOver) ==
  \/ record = NoRecord
  \/ record.expires <= attempt[a].now
  \/ takeOver /\ Abandoned(a)

ClaimedRecord(a, status) ==
  [status |-> status, owner |-> a, input |-> attempt[a].input,
   updated |-> attempt[a].now, expires |-> attempt[a].now + TTL]

\* Faulty variant: the fingerprint of the stored input is not compared.
DecideExisting_AnyInput(a) ==
  IF record.status # "completed" THEN [told |-> "in_progress", replayed |-> NoValue]
  ELSE [told |-> "replay", replayed |-> record.owner]

\* The answer for a record that another attempt holds.
DecideExisting(a) ==
  IF record.input # attempt[a].input THEN [told |-> "mismatch", replayed |-> NoValue]
  ELSE IF record.status # "completed" THEN [told |-> "in_progress", replayed |-> NoValue]
  ELSE [told |-> "replay", replayed |-> record.owner]

\* The attempt ends with an answer, unless its client has gone or the answer is lost.
Tell(a, answer) ==
  \E heard \in BOOLEAN :
    attempt' = [attempt EXCEPT ![a].pc = "done",
       ![a].told = IF heard /\ attempt[a].told = "none" THEN answer.told ELSE "unknown",
       ![a].replayed = IF heard /\ attempt[a].told = "none" THEN answer.replayed ELSE NoValue]

Plain(told) == [told |-> told, replayed |-> NoValue]

Begin(a) ==
  /\ attempt[a].pc = "idle"
  /\ \E input \in Inputs :
       attempt' = [attempt EXCEPT ![a].input = input, ![a].now = idemClock,
                     ![a].pc = IF route = "folded" THEN "sent" ELSE "claiming"]
  /\ UNCHANGED <<route, record, applied, admissible, idemClock>>

(***************************************************************************)
(* A folded batch at the database: claim, effect, recorded answer, and the *)
(* removal of the claim when the effect's own conditions failed.           *)
(***************************************************************************)
CommitFolded(a) ==
  /\ attempt[a].pc = "sent"
  /\ idemClock <= attempt[a].now + MaxExchange
  /\ IF RecordClaimable(a, FALSE)
     THEN /\ record' = IF admissible THEN ClaimedRecord(a, "completed") ELSE NoRecord
          /\ applied' = IF admissible THEN applied \cup {a} ELSE applied
          /\ Tell(a, Plain(IF admissible THEN "applied" ELSE "refused"))
     ELSE /\ UNCHANGED <<record, applied>>
          /\ Tell(a, DecideExisting(a))
  /\ UNCHANGED <<route, admissible, idemClock>>

\* The caller stops waiting; its batch may still arrive.
GiveUp(a) ==
  /\ attempt[a].pc = "sent" /\ attempt[a].told = "none"
  /\ attempt' = [attempt EXCEPT ![a].told = "unknown"]
  /\ UNCHANGED <<route, record, applied, admissible, idemClock>>

----------------------------------------------------------------------------
\* begin(): the claiming batch of a claimed route.
ClaimRecord(a) ==
  /\ attempt[a].pc = "claiming"
  /\ IF RecordClaimable(a, TRUE)
     THEN /\ record' = ClaimedRecord(a, "pending")
          /\ \/ attempt' = [attempt EXCEPT ![a].pc = "handling"]
             \/ attempt' = [attempt EXCEPT ![a].pc = "done", ![a].told = "unknown"]
     ELSE /\ UNCHANGED record
          /\ Tell(a, DecideExisting(a))
  /\ UNCHANGED <<route, applied, admissible, idemClock>>

(***************************************************************************)
(* The handler.  Its deciding statement requires its own conditions and    *)
(* that no event of this request id exists.  A refusal is a client error;  *)
(* a lost answer or an internal error leaves the claim pending.            *)
(***************************************************************************)
Handle(a) ==
  /\ attempt[a].pc = "handling"
  /\ LET applies == admissible /\ applied = {} IN
     /\ applied' = IF applies THEN applied \cup {a} ELSE applied
     /\ \/ attempt' = [attempt EXCEPT ![a].pc = IF applies THEN "completing" ELSE "releasing"]
        \/ attempt' = [attempt EXCEPT ![a].pc = "done", ![a].told = "unknown"]
  /\ UNCHANGED <<route, record, admissible, idemClock>>

HoldsRecord(a) == record.status = "pending" /\ record.owner = a

\* complete(): the answer is recorded in a batch of its own, while the claim still holds.
CompleteRecord(a) ==
  /\ attempt[a].pc = "completing"
  /\ record' = IF HoldsRecord(a)
               THEN [record EXCEPT !.status = "completed", !.updated = idemClock] ELSE record
  /\ Tell(a, Plain("applied"))
  /\ UNCHANGED <<route, applied, admissible, idemClock>>

\* release(): after a client error the claim is removed; a failure to do so is only logged.
ReleaseRecord(a) ==
  /\ attempt[a].pc = "releasing"
  /\ \/ record' = IF HoldsRecord(a) THEN NoRecord ELSE record
     \/ UNCHANGED record
  /\ Tell(a, Plain("refused"))
  /\ UNCHANGED <<route, applied, admissible, idemClock>>

\* The process stops, or a call fails without effect.
Break(a) ==
  /\ attempt[a].pc \in {"claiming", "handling", "completing"}
  /\ attempt' = [attempt EXCEPT ![a].pc = "done", ![a].told = "unknown"]
  /\ UNCHANGED <<route, record, applied, admissible, idemClock>>

----------------------------------------------------------------------------
\* Expired records are deleted (nothing in the repository schedules it yet).
DeleteExpired ==
  /\ record # NoRecord /\ record.expires <= idemClock
  /\ record' = NoRecord
  /\ UNCHANGED <<route, attempt, applied, admissible, idemClock>>

\* Other requests make the handler's conditions true or false.
WorldChanges ==
  /\ admissible' = ~admissible
  /\ UNCHANGED <<route, record, attempt, applied, idemClock>>

IdemTick ==
  /\ idemClock < MaxIdemTime
  /\ idemClock' = idemClock + 1
  /\ UNCHANGED <<route, record, attempt, applied, admissible>>

IdemNext ==
  \/ \E a \in Attempts :
       \/ Begin(a) \/ CommitFolded(a) \/ GiveUp(a)
       \/ ClaimRecord(a) \/ Handle(a) \/ CompleteRecord(a) \/ ReleaseRecord(a) \/ Break(a)
  \/ DeleteExpired \/ WorldChanges \/ IdemTick

IdemSpec == IdemInit /\ [][IdemNext]_idemVars

----------------------------------------------------------------------------
IdemTypeOK ==
  /\ route \in {"folded", "claimed"}
  /\ record \in RecordRows
  /\ attempt \in [Attempts -> AttemptState]
  /\ applied \subseteq Attempts
  /\ admissible \in BOOLEAN
  /\ idemClock \in Nat

(***************************************************************************)
(* Two attempts under one key take effect only when the later one began a  *)
(* record's lifetime after the earlier one, give or take the time a batch  *)
(* may be under way: the 24-hour replay contract of `foldedClaim`.         *)
(***************************************************************************)
AppliedOnce ==
  \A a, b \in applied :
    \/ a = b
    \/ attempt[a].now + TTL <= attempt[b].now + MaxExchange
    \/ attempt[b].now + TTL <= attempt[a].now + MaxExchange

(***************************************************************************)
(* What a client is told is true: an attempt reported as applied was, one  *)
(* reported as refused, in progress or mismatching was not, and a replayed *)
(* answer is that of an attempt with the same input that took effect.      *)
(***************************************************************************)
AnswersAreTrue ==
  \A a \in Attempts :
    /\ attempt[a].told = "applied" => a \in applied
    /\ attempt[a].told \in {"refused", "mismatch", "in_progress"} => a \notin applied
    /\ attempt[a].told = "replay" =>
         /\ attempt[a].replayed \in applied
         /\ attempt[attempt[a].replayed].input = attempt[a].input

(***************************************************************************)
(* On a folded route a retry of what was already applied is answered with  *)
(* the recorded answer: it is never refused or sent away while the record  *)
(* lives.  (A claimed route does not promise this: after a lost answer the *)
(* claim is taken over and the handler finds its own earlier change.)      *)
(***************************************************************************)
RetriesReplay ==
  [][\A a \in Attempts, b \in applied :
       (/\ route = "folded"
        /\ attempt[a].told = "none"
        /\ attempt'[a].told \in {"refused", "in_progress", "applied"}
        /\ attempt[a].input = attempt[b].input)
       => attempt[b].now + TTL <= attempt[a].now + MaxExchange]_idemVars
==============================================================================
