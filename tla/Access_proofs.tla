--------------------------- MODULE Access_proofs ---------------------------
(***************************************************************************)
(* Theorems about Idempotency, InviteAccess, RealtimeAccess and            *)
(* TopicDelivery: for any number of attempts of a request and any of its   *)
(* inputs, any accounts, invites, caps, redemptions, sockets, reads,       *)
(* clients, changes, buffer and queue sizes, and any of the times.         *)
(***************************************************************************)
EXTENDS Idempotency, InviteAccess, RealtimeAccess, TopicDelivery, FiniteSetTheorems,
        SequenceTheorems, TLAPS

-----------------------------------------------------------------------------
(* Requests: the inductive invariant. *)

(***************************************************************************)
(* Where an attempt is tells whether it has taken effect; only a finished  *)
(* one has been told more than that its fate is unknown.                   *)
(***************************************************************************)
AttemptsInv ==
  \A a \in Attempts :
    /\ attempt[a].now <= idemClock
    /\ attempt[a].pc # "idle" => attempt[a].input \in Inputs
    /\ attempt[a].pc \in {"idle", "sent", "claiming", "handling", "releasing"} => a \notin applied
    /\ attempt[a].pc = "completing" => a \in applied
    /\ attempt[a].told \notin {"none", "unknown"} => attempt[a].pc = "done"
    /\ route = "folded" => attempt[a].pc \in {"idle", "sent", "done"}
    /\ route = "claimed" => attempt[a].pc # "sent"

(***************************************************************************)
(* A record carries the input of its owner, a completed one belongs to an  *)
(* attempt that took effect, and a folded route completes at once and for  *)
(* the whole lifetime.                                                     *)
(***************************************************************************)
RecordInv ==
  record # NoRecord =>
    /\ attempt[record.owner].pc # "idle"
    /\ record.input = attempt[record.owner].input
    /\ record.status = "completed" => record.owner \in applied
    /\ route = "folded" =>
         record.status = "completed" /\ record.expires = attempt[record.owner].now + TTL

(***************************************************************************)
(* What took effect on a folded route is recorded, or its record has run   *)
(* out; on a claimed route the audit event lets one attempt through.       *)
(***************************************************************************)
AppliedInv ==
  /\ route = "claimed" => \A a, b \in applied : a = b
  /\ route = "folded" =>
       \A b \in applied : \/ record # NoRecord /\ record.owner = b
                          \/ attempt[b].now + TTL <= idemClock

IdemInv ==
  /\ IdemTypeOK /\ AttemptsInv /\ RecordInv /\ AppliedInv
  /\ AppliedOnce /\ AnswersAreTrue

-----------------------------------------------------------------------------
(* Requests: operators. *)

(***************************************************************************)
(* Telling an attempt its answer ends it and changes nothing else: the     *)
(* client hears the answer, or its fate stays unknown.                     *)
(***************************************************************************)
LEMMA TellRow ==
  ASSUME IdemTypeOK, NEW a \in Attempts, NEW answer,
         answer.told \in Answers, answer.replayed \in Attempts \cup {NoValue},
         Tell(a, answer)
  PROVE  \E row \in AttemptState :
           /\ attempt' = [attempt EXCEPT ![a] = row]
           /\ row.pc = "done" /\ row.input = attempt[a].input /\ row.now = attempt[a].now
           /\ \/ row.told = "unknown" /\ row.replayed = NoValue
              \/ /\ attempt[a].told = "none"
                 /\ row.told = answer.told /\ row.replayed = answer.replayed
<1>1. PICK heard \in BOOLEAN :
        attempt' = [attempt EXCEPT ![a].pc = "done",
           ![a].told = IF heard /\ attempt[a].told = "none" THEN answer.told ELSE "unknown",
           ![a].replayed = IF heard /\ attempt[a].told = "none" THEN answer.replayed ELSE NoValue]
  BY DEF Tell
<1> DEFINE told == IF heard /\ attempt[a].told = "none" THEN answer.told ELSE "unknown"
           replayed == IF heard /\ attempt[a].told = "none" THEN answer.replayed ELSE NoValue
           row == [attempt[a] EXCEPT !.pc = "done", !.told = told, !.replayed = replayed]
<1>2. attempt[a] \in AttemptState /\ attempt \in [Attempts -> AttemptState]
  BY DEF IdemTypeOK
<1>3. told \in Answers /\ replayed \in Attempts \cup {NoValue}
  BY DEF Answers
<1>4. \/ told = "unknown" /\ replayed = NoValue
      \/ attempt[a].told = "none" /\ told = answer.told /\ replayed = answer.replayed
  OBVIOUS
<1>5. attempt' = [attempt EXCEPT ![a] = row]
  BY <1>1, <1>2
<1> HIDE DEF told, replayed
<1>6. /\ row \in AttemptState
      /\ row.pc = "done" /\ row.input = attempt[a].input /\ row.now = attempt[a].now
      /\ row.told = told /\ row.replayed = replayed
  BY <1>2, <1>3 DEF AttemptState
<1> HIDE DEF row
<1> QED
  BY <1>4, <1>5, <1>6

(***************************************************************************)
(* The answers that the routes give have the right type.                   *)
(***************************************************************************)
LEMMA PlainType ==
  ASSUME NEW told \in Answers
  PROVE  /\ Plain(told).told = told /\ Plain(told).replayed = NoValue
         /\ Plain(told).replayed \in Attempts \cup {NoValue}
BY DEF Plain

LEMMA ExistingType ==
  ASSUME IdemTypeOK, record # NoRecord, NEW a
  PROVE  /\ DecideExisting(a).told \in {"mismatch", "in_progress", "replay"}
         /\ DecideExisting(a).told \in Answers
         /\ DecideExisting(a).replayed \in Attempts \cup {NoValue}
         /\ DecideExisting(a).told = "in_progress" => record.status # "completed"
         /\ DecideExisting(a).told = "replay" =>
              /\ record.status = "completed" /\ record.input = attempt[a].input
              /\ DecideExisting(a).replayed = record.owner
<1>1. record.owner \in Attempts
  BY DEF IdemTypeOK, RecordRows
<1> QED
  BY <1>1 DEF DecideExisting, Answers

LEMMA ClaimedRecordType ==
  ASSUME IdemTypeOK, IdempotencyAssumption, NEW a \in Attempts, attempt[a].input \in Inputs,
         NEW status \in {"pending", "completed"}
  PROVE  /\ ClaimedRecord(a, status) \in RecordRows
         /\ ClaimedRecord(a, status) # NoRecord
         /\ ClaimedRecord(a, status).owner = a
         /\ ClaimedRecord(a, status).status = status
         /\ ClaimedRecord(a, status).input = attempt[a].input
         /\ ClaimedRecord(a, status).expires = attempt[a].now + TTL
<1>1. attempt[a].now \in Nat /\ attempt[a].now + TTL \in Nat
  BY DEF IdemTypeOK, AttemptState, IdempotencyAssumption
<1> QED
  BY <1>1 DEF ClaimedRecord, RecordRows, NoRecord

(***************************************************************************)
(* When a folded batch may claim the key, whatever took effect before has  *)
(* run out.                                                                *)
(***************************************************************************)
LEMMA ClaimableRunOut ==
  ASSUME IdempotencyAssumption, IdemInv, route = "folded",
         NEW a \in Attempts, RecordClaimable(a, FALSE)
  PROVE  \A b \in applied : attempt[b].now + TTL <= idemClock
<1> SUFFICES ASSUME NEW b \in applied
             PROVE  attempt[b].now + TTL <= idemClock
  OBVIOUS
<1>1. /\ attempt[a].now \in Nat /\ attempt[b].now \in Nat /\ idemClock \in Nat
      /\ TTL \in Nat /\ b \in Attempts /\ attempt[a].now <= idemClock
  BY DEF IdemInv, IdemTypeOK, AttemptState, IdempotencyAssumption, AttemptsInv
<1>2. ASSUME record # NoRecord, record.owner = b
      PROVE  attempt[b].now + TTL <= idemClock
  <2>1. record.expires = attempt[b].now + TTL
    BY <1>2 DEF IdemInv, RecordInv
  <2>2. record.expires <= attempt[a].now
    BY <1>2 DEF RecordClaimable
  <2> QED
    BY <1>1, <2>1, <2>2
<1> QED
  BY <1>2 DEF IdemInv, AppliedInv

-----------------------------------------------------------------------------
(* Every step preserves the invariant. *)

LEMMA IdemInvInit == IdempotencyAssumption /\ IdemInit => IdemInv
BY DEF IdemInit, IdemInv, IdemTypeOK, AttemptsInv, RecordInv, AppliedInv, AppliedOnce, AnswersAreTrue,
       IdempotencyAssumption, RecordRows, AttemptState, IdleAttempt, Answers

(***************************************************************************)
(* The part of the invariant that speaks of attempts, when one of them     *)
(* moves on to a row that fits what has taken effect.                      *)
(***************************************************************************)
LEMMA AttemptsStep ==
  ASSUME IdemInv, NEW a \in Attempts, NEW row \in AttemptState,
         attempt' = [attempt EXCEPT ![a] = row],
         row.now <= idemClock, row.input \in Inputs, UNCHANGED <<route, idemClock>>,
         applied' = applied \/ applied' = applied \cup {a},
         row.pc \in {"idle", "sent", "claiming", "handling", "releasing"} => a \notin applied',
         row.pc = "completing" => a \in applied',
         row.told \notin {"none", "unknown"} => row.pc = "done",
         route = "folded" => row.pc \in {"idle", "sent", "done"},
         route = "claimed" => row.pc # "sent"
  PROVE  AttemptsInv'
<1>1. /\ attempt \in [Attempts -> AttemptState]
      /\ attempt'[a] = row
      /\ \A b \in Attempts : b # a => attempt'[b] = attempt[b]
  BY DEF IdemInv, IdemTypeOK
<1> SUFFICES ASSUME NEW b \in Attempts
             PROVE  /\ attempt'[b].now <= idemClock'
                    /\ attempt'[b].pc # "idle" => attempt'[b].input \in Inputs
                    /\ attempt'[b].pc \in {"idle", "sent", "claiming", "handling", "releasing"}
                         => b \notin applied'
                    /\ attempt'[b].pc = "completing" => b \in applied'
                    /\ attempt'[b].told \notin {"none", "unknown"} => attempt'[b].pc = "done"
                    /\ route' = "folded" => attempt'[b].pc \in {"idle", "sent", "done"}
                    /\ route' = "claimed" => attempt'[b].pc # "sent"
  BY DEF AttemptsInv
<1>2. CASE b = a
  BY <1>1, <1>2
<1>3. CASE b # a
  BY <1>1, <1>3 DEF IdemInv, AttemptsInv
<1> QED
  BY <1>2, <1>3

(***************************************************************************)
(* The truth of what was told, when one attempt moves on.                  *)
(***************************************************************************)
LEMMA AnswersStep ==
  ASSUME IdemInv, NEW a \in Attempts, NEW row \in AttemptState,
         attempt' = [attempt EXCEPT ![a] = row],
         attempt[a].pc # "idle" => row.input = attempt[a].input,
         attempt[a].pc # "done",
         applied' = applied \/ applied' = applied \cup {a},
         row.told = "applied" => a \in applied',
         row.told \in {"refused", "mismatch", "in_progress"} => a \notin applied',
         row.told = "replay" =>
           row.replayed \in applied' /\ attempt'[row.replayed].input = row.input
  PROVE  AnswersAreTrue'
<1>1. /\ attempt \in [Attempts -> AttemptState]
      /\ attempt'[a] = row
      /\ \A b \in Attempts : b # a => attempt'[b] = attempt[b]
      /\ applied \subseteq Attempts
  BY DEF IdemInv, IdemTypeOK
<1>2. \A b \in applied : attempt[b].pc # "idle" /\ attempt'[b].input = attempt[b].input
  BY <1>1 DEF IdemInv, AttemptsInv
<1> SUFFICES ASSUME NEW b \in Attempts
             PROVE  /\ attempt'[b].told = "applied" => b \in applied'
                    /\ attempt'[b].told \in {"refused", "mismatch", "in_progress"} => b \notin applied'
                    /\ attempt'[b].told = "replay" =>
                         /\ attempt'[b].replayed \in applied'
                         /\ attempt'[attempt'[b].replayed].input = attempt'[b].input
  BY DEF AnswersAreTrue
<1>3. CASE b = a
  BY <1>1, <1>3
<1>4. CASE b # a
  BY <1>1, <1>2, <1>4 DEF IdemInv, AnswersAreTrue
<1> QED
  BY <1>3, <1>4

(***************************************************************************)
(* Attempts that took effect stay apart, when one of them moves on and     *)
(* takes effect only apart from the others.                                *)
(***************************************************************************)
LEMMA OnceStep ==
  ASSUME IdemInv, NEW a \in Attempts, NEW row \in AttemptState,
         attempt' = [attempt EXCEPT ![a] = row],
         attempt[a].pc # "idle" => row.now = attempt[a].now,
         \/ applied' = applied
         \/ /\ applied' = applied \cup {a} /\ attempt[a].pc # "idle"
            /\ \A b \in applied : b = a \/ attempt[b].now + TTL <= attempt[a].now + MaxExchange
  PROVE  AppliedOnce'
<1>1. /\ attempt \in [Attempts -> AttemptState]
      /\ attempt'[a] = row
      /\ \A b \in Attempts : b # a => attempt'[b] = attempt[b]
      /\ applied \subseteq Attempts
  BY DEF IdemInv, IdemTypeOK
<1>2. \A b \in applied' : attempt'[b].now = attempt[b].now
  BY <1>1 DEF IdemInv, AttemptsInv
<1> QED
  BY <1>1, <1>2 DEF IdemInv, AppliedOnce

(***************************************************************************)
(* A record that stays as it is stays in order, when an attempt moves on.  *)
(***************************************************************************)
LEMMA KeptStep ==
  ASSUME IdemInv, NEW a \in Attempts, NEW row \in AttemptState,
         attempt' = [attempt EXCEPT ![a] = row], row.pc # "idle",
         attempt[a].pc # "idle" => row.now = attempt[a].now /\ row.input = attempt[a].input,
         UNCHANGED <<route, record, idemClock>>
  PROVE  /\ applied' = applied \/ applied' = applied \cup {a} => RecordInv'
         /\ applied' = applied => AppliedInv'
<1>1. /\ attempt \in [Attempts -> AttemptState]
      /\ attempt'[a] = row
      /\ \A b \in Attempts : b # a => attempt'[b] = attempt[b]
      /\ applied \subseteq Attempts
  BY DEF IdemInv, IdemTypeOK
<1>2. \A b \in applied : attempt'[b].now = attempt[b].now
  BY <1>1 DEF IdemInv, AttemptsInv
<1>3. ASSUME applied' = applied \/ applied' = applied \cup {a} PROVE RecordInv'
  <2> SUFFICES ASSUME record # NoRecord
               PROVE  /\ attempt'[record.owner].pc # "idle"
                      /\ record.input = attempt'[record.owner].input
                      /\ record.status = "completed" => record.owner \in applied'
                      /\ route = "folded" =>
                           /\ record.status = "completed"
                           /\ record.expires = attempt'[record.owner].now + TTL
    BY DEF RecordInv
  <2>1. record.owner \in Attempts
    BY DEF IdemInv, IdemTypeOK, RecordRows
  <2>2. attempt[record.owner].pc # "idle"
    BY DEF IdemInv, RecordInv
  <2>3. /\ attempt'[record.owner].pc # "idle"
        /\ attempt'[record.owner].now = attempt[record.owner].now
        /\ attempt'[record.owner].input = attempt[record.owner].input
    BY <1>1, <2>1, <2>2
  <2> QED
    BY <1>3, <2>3 DEF IdemInv, RecordInv
<1>4. ASSUME applied' = applied PROVE AppliedInv'
  BY <1>2, <1>4 DEF IdemInv, AppliedInv
<1> QED
  BY <1>3, <1>4

LEMMA TypeStep ==
  ASSUME IdemTypeOK, NEW a \in Attempts, NEW row \in AttemptState,
         attempt' = [attempt EXCEPT ![a] = row],
         applied' = applied \/ applied' = applied \cup {a}, record' \in RecordRows,
         UNCHANGED <<route, admissible, idemClock>>
  PROVE  IdemTypeOK'
BY DEF IdemTypeOK

LEMMA BeginStep ==
  ASSUME IdempotencyAssumption, IdemInv, NEW a \in Attempts, Begin(a)
  PROVE  IdemInv'
<1>1. PICK input \in Inputs :
        attempt' = [attempt EXCEPT ![a].input = input, ![a].now = idemClock,
                      ![a].pc = IF route = "folded" THEN "sent" ELSE "claiming"]
  BY DEF Begin
<1> DEFINE pc == IF route = "folded" THEN "sent" ELSE "claiming"
           row == [attempt[a] EXCEPT !.input = input, !.now = idemClock, !.pc = pc]
<1>2. /\ attempt \in [Attempts -> AttemptState] /\ attempt[a] \in AttemptState
      /\ attempt[a].pc = "idle" /\ idemClock \in Nat /\ record \in RecordRows
      /\ UNCHANGED <<route, record, applied, admissible, idemClock>>
  BY DEF Begin, IdemInv, IdemTypeOK
<1>3. /\ pc \in {"sent", "claiming"} /\ (pc = "sent" <=> route = "folded")
      /\ route \in {"folded", "claimed"}
  BY DEF IdemInv, IdemTypeOK
<1>4. attempt' = [attempt EXCEPT ![a] = row]
  BY <1>1, <1>2
<1> HIDE DEF pc
<1>5. /\ row \in AttemptState /\ row.pc = pc /\ row.now = idemClock
      /\ row.told = attempt[a].told /\ row.input = input
  BY <1>2, <1>3 DEF AttemptState
<1> HIDE DEF row
<1>6. a \notin applied /\ row.told \in {"none", "unknown"}
  BY <1>2, <1>5 DEF IdemInv, AttemptsInv
<1> row.now <= idemClock
  BY <1>2, <1>5
<1>7. IdemTypeOK'
  BY <1>2, <1>4, <1>5, TypeStep DEF IdemInv
<1>8. AttemptsInv'
  BY <1>2, <1>3, <1>4, <1>5, <1>6, AttemptsStep
<1>9. RecordInv' /\ AppliedInv'
  BY <1>2, <1>3, <1>4, <1>5, KeptStep
<1>10. AppliedOnce'
  BY <1>2, <1>4, <1>5, OnceStep
<1>11. AnswersAreTrue'
  BY <1>2, <1>4, <1>5, <1>6, AnswersStep
<1> QED
  BY <1>7, <1>8, <1>9, <1>10, <1>11 DEF IdemInv

(***************************************************************************)
(* A request that finds the key taken is answered from the record.         *)
(***************************************************************************)
LEMMA ExistingStep ==
  ASSUME IdempotencyAssumption, IdemInv, NEW a \in Attempts,
         attempt[a].pc \in {"sent", "claiming"}, record # NoRecord,
         Tell(a, DecideExisting(a)), UNCHANGED <<route, record, applied, admissible, idemClock>>
  PROVE  IdemInv'
<1>1. /\ DecideExisting(a).told \in {"mismatch", "in_progress", "replay"}
      /\ DecideExisting(a).told \in Answers
      /\ DecideExisting(a).replayed \in Attempts \cup {NoValue}
      /\ DecideExisting(a).told = "replay" =>
           /\ record.status = "completed" /\ record.input = attempt[a].input
           /\ DecideExisting(a).replayed = record.owner
  BY ExistingType DEF IdemInv
<1>2. PICK row \in AttemptState :
         /\ attempt' = [attempt EXCEPT ![a] = row]
         /\ row.pc = "done" /\ row.input = attempt[a].input /\ row.now = attempt[a].now
         /\ \/ row.told = "unknown" /\ row.replayed = NoValue
            \/ row.told = DecideExisting(a).told /\ row.replayed = DecideExisting(a).replayed
  BY <1>1, TellRow DEF IdemInv
<1>3. /\ a \notin applied /\ row.now <= idemClock /\ row.input \in Inputs
      /\ record \in RecordRows
  BY <1>2 DEF IdemInv, IdemTypeOK, AttemptsInv
<1>4. ASSUME row.told = "replay"
      PROVE  row.replayed \in applied /\ attempt'[row.replayed].input = row.input
  <2>1. /\ row.replayed = record.owner /\ record.input = attempt[a].input
        /\ record.owner \in applied
    BY <1>1, <1>2, <1>4 DEF IdemInv, RecordInv
  <2>2. attempt'[record.owner] = attempt[record.owner]
    BY <1>2, <1>3, <2>1 DEF IdemInv, IdemTypeOK
  <2> QED
    BY <1>2, <2>1, <2>2 DEF IdemInv, RecordInv
<1>5. row.told \notin {"none", "applied", "refused"}
  BY <1>1, <1>2
<1>6. IdemTypeOK'
  BY <1>2, <1>3, TypeStep DEF IdemInv
<1>7. AttemptsInv'
  BY <1>2, <1>3, AttemptsStep
<1>8. RecordInv' /\ AppliedInv'
  BY <1>2, KeptStep
<1>9. AppliedOnce'
  BY <1>2, OnceStep
<1>10. AnswersAreTrue'
  BY <1>2, <1>3, <1>4, <1>5, AnswersStep
<1> QED
  BY <1>6, <1>7, <1>8, <1>9, <1>10 DEF IdemInv

LEMMA CommitFoldedStep ==
  ASSUME IdempotencyAssumption, IdemInv, NEW a \in Attempts, CommitFolded(a)
  PROVE  IdemInv'
<1>1. /\ attempt[a] \in AttemptState /\ attempt[a].pc = "sent" /\ route = "folded"
      /\ a \notin applied /\ attempt[a].now <= idemClock /\ attempt[a].input \in Inputs
      /\ attempt \in [Attempts -> AttemptState] /\ applied \subseteq Attempts
      /\ idemClock \in Nat /\ attempt[a].now \in Nat /\ idemClock <= attempt[a].now + MaxExchange
      /\ UNCHANGED <<route, admissible, idemClock>>
  BY DEF CommitFolded, IdemInv, IdemTypeOK, AttemptsInv, AttemptState
<1>2. CASE ~RecordClaimable(a, FALSE)
  <2>1. record # NoRecord /\ UNCHANGED <<record, applied>> /\ Tell(a, DecideExisting(a))
    BY <1>2 DEF CommitFolded, RecordClaimable
  <2> QED
    BY <1>1, <2>1, ExistingStep
<1>3. CASE RecordClaimable(a, FALSE) /\ admissible
  <2>1. /\ record' = ClaimedRecord(a, "completed") /\ applied' = applied \cup {a}
        /\ Tell(a, Plain("applied"))
    BY <1>3 DEF CommitFolded
  <2>2. PICK row \in AttemptState :
           /\ attempt' = [attempt EXCEPT ![a] = row]
           /\ row.pc = "done" /\ row.input = attempt[a].input /\ row.now = attempt[a].now
           /\ row.told \in {"unknown", "applied"}
    BY <2>1, PlainType, TellRow DEF IdemInv, Answers
  <2>3. \A b \in applied : attempt[b].now + TTL <= idemClock
    BY <1>1, <1>3, ClaimableRunOut
  <2>4. \A b \in applied : attempt[b].now + TTL <= attempt[a].now + MaxExchange
    <3> SUFFICES ASSUME NEW b \in applied
                 PROVE  attempt[b].now + TTL <= attempt[a].now + MaxExchange
      OBVIOUS
    <3> attempt[b].now \in Nat /\ TTL \in Nat /\ MaxExchange \in Nat
      BY <1>1 DEF AttemptState, IdempotencyAssumption
    <3> QED
      BY <1>1, <2>3
  <2>5. /\ record' \in RecordRows /\ record' # NoRecord /\ record'.owner = a
        /\ record'.status = "completed" /\ record'.input = attempt[a].input
        /\ record'.expires = attempt[a].now + TTL
    BY <1>1, <2>1, ClaimedRecordType DEF IdemInv
  <2>6. attempt'[a] = row /\ \A b \in applied : attempt'[b] = attempt[b]
    BY <1>1, <2>2
  <2>7. IdemTypeOK'
    BY <1>1, <2>1, <2>2, <2>5, TypeStep DEF IdemInv
  <2>8. AttemptsInv'
    BY <1>1, <2>1, <2>2, AttemptsStep
  <2>9. RecordInv'
    BY <1>1, <2>1, <2>2, <2>5, <2>6 DEF RecordInv
  <2>10. AppliedInv'
    BY <1>1, <2>1, <2>3, <2>5, <2>6 DEF AppliedInv
  <2>11. AppliedOnce'
    BY <1>1, <2>1, <2>2, <2>4, OnceStep
  <2>12. AnswersAreTrue'
    BY <1>1, <2>1, <2>2, AnswersStep
  <2> QED
    BY <2>7, <2>8, <2>9, <2>10, <2>11, <2>12 DEF IdemInv
<1>4. CASE RecordClaimable(a, FALSE) /\ ~admissible
  <2>1. record' = NoRecord /\ applied' = applied /\ Tell(a, Plain("refused"))
    BY <1>4 DEF CommitFolded
  <2>2. PICK row \in AttemptState :
           /\ attempt' = [attempt EXCEPT ![a] = row]
           /\ row.pc = "done" /\ row.input = attempt[a].input /\ row.now = attempt[a].now
           /\ row.told \in {"unknown", "refused"}
    BY <2>1, PlainType, TellRow DEF IdemInv, Answers
  <2>3. \A b \in applied : attempt[b].now + TTL <= idemClock
    BY <1>1, <1>4, ClaimableRunOut
  <2>4. \A b \in applied : attempt'[b] = attempt[b]
    BY <1>1, <2>2
  <2>5. IdemTypeOK'
    BY <1>1, <2>1, <2>2, TypeStep DEF IdemInv, RecordRows
  <2>6. AttemptsInv'
    BY <1>1, <2>1, <2>2, AttemptsStep
  <2>7. RecordInv' /\ AppliedInv'
    BY <1>1, <2>1, <2>3, <2>4 DEF RecordInv, AppliedInv
  <2>8. AppliedOnce'
    BY <1>1, <2>1, <2>2, OnceStep
  <2>9. AnswersAreTrue'
    BY <1>1, <2>1, <2>2, AnswersStep
  <2> QED
    BY <2>5, <2>6, <2>7, <2>8, <2>9 DEF IdemInv
<1> QED
  BY <1>2, <1>3, <1>4

(***************************************************************************)
(* An attempt that goes on, or gives up, without touching record or        *)
(* effect.                                                                 *)
(***************************************************************************)
LEMMA QuietAttempt ==
  ASSUME IdemInv, NEW a \in Attempts, NEW row \in AttemptState,
         attempt' = [attempt EXCEPT ![a] = row], attempt[a].pc \notin {"idle", "done"},
         row.input = attempt[a].input, row.now = attempt[a].now,
         row.told \in {"none", "unknown"}, row.pc # "idle",
         row.pc \in {"sent", "claiming", "handling", "releasing"} => a \notin applied,
         row.pc = "completing" => a \in applied,
         route = "folded" => row.pc \in {"sent", "done"},
         route = "claimed" => row.pc # "sent",
         UNCHANGED <<route, record, applied, admissible, idemClock>>
  PROVE  IdemInv'
<1>1. /\ row.now <= idemClock /\ row.input \in Inputs /\ record \in RecordRows
  BY DEF IdemInv, IdemTypeOK, AttemptsInv
<1>2. IdemTypeOK'
  BY <1>1, TypeStep DEF IdemInv
<1>3. AttemptsInv'
  BY <1>1, AttemptsStep
<1>4. RecordInv' /\ AppliedInv'
  BY KeptStep
<1>5. AppliedOnce'
  BY OnceStep
<1>6. AnswersAreTrue'
  BY AnswersStep
<1> QED
  BY <1>2, <1>3, <1>4, <1>5, <1>6 DEF IdemInv

LEMMA GiveUpStep ==
  ASSUME IdemInv, NEW a \in Attempts, GiveUp(a)
  PROVE  IdemInv'
<1> DEFINE row == [attempt[a] EXCEPT !.told = "unknown"]
<1>1. /\ attempt[a] \in AttemptState /\ attempt \in [Attempts -> AttemptState]
      /\ attempt[a].pc = "sent" /\ a \notin applied /\ route = "folded"
      /\ UNCHANGED <<route, record, applied, admissible, idemClock>>
  BY DEF GiveUp, IdemInv, IdemTypeOK, AttemptsInv
<1>2. attempt' = [attempt EXCEPT ![a] = row]
  BY <1>1 DEF GiveUp
<1>3. /\ row \in AttemptState /\ row.pc = "sent" /\ row.told = "unknown"
      /\ row.input = attempt[a].input /\ row.now = attempt[a].now
  BY <1>1 DEF AttemptState, Answers
<1> HIDE DEF row
<1> QED
  BY <1>1, <1>2, <1>3, QuietAttempt

(***************************************************************************)
(* The steps of a claimed route: the attempt moves on to `pc`, or its fate *)
(* becomes unknown.                                                        *)
(***************************************************************************)
LEMMA OnwardRow ==
  ASSUME IdemTypeOK, NEW a \in Attempts,
         NEW pc \in {"handling", "completing", "releasing"},
         \/ attempt' = [attempt EXCEPT ![a].pc = pc]
         \/ attempt' = [attempt EXCEPT ![a].pc = "done", ![a].told = "unknown"]
  PROVE  \E row \in AttemptState :
           /\ attempt' = [attempt EXCEPT ![a] = row]
           /\ row.input = attempt[a].input /\ row.now = attempt[a].now
           /\ \/ row.pc = pc /\ row.told = attempt[a].told
              \/ row.pc = "done" /\ row.told = "unknown"
<1>1. attempt[a] \in AttemptState /\ attempt \in [Attempts -> AttemptState]
  BY DEF IdemTypeOK
<1>2. CASE attempt' = [attempt EXCEPT ![a].pc = pc]
  <2> DEFINE row == [attempt[a] EXCEPT !.pc = pc]
  <2>1. attempt' = [attempt EXCEPT ![a] = row]
    BY <1>1, <1>2
  <2>2. /\ row \in AttemptState /\ row.pc = pc /\ row.told = attempt[a].told
        /\ row.input = attempt[a].input /\ row.now = attempt[a].now
    BY <1>1 DEF AttemptState
  <2> HIDE DEF row
  <2> QED
    BY <2>1, <2>2
<1>3. CASE attempt' = [attempt EXCEPT ![a].pc = "done", ![a].told = "unknown"]
  <2> DEFINE row == [attempt[a] EXCEPT !.pc = "done", !.told = "unknown"]
  <2>1. attempt' = [attempt EXCEPT ![a] = row]
    BY <1>1, <1>3
  <2>2. /\ row \in AttemptState /\ row.pc = "done" /\ row.told = "unknown"
        /\ row.input = attempt[a].input /\ row.now = attempt[a].now
    BY <1>1 DEF AttemptState, Answers
  <2> HIDE DEF row
  <2> QED
    BY <2>1, <2>2
<1> QED
  BY <1>2, <1>3

LEMMA ClaimRecordStep ==
  ASSUME IdempotencyAssumption, IdemInv, NEW a \in Attempts, ClaimRecord(a)
  PROVE  IdemInv'
<1>1. /\ attempt[a] \in AttemptState /\ attempt[a].pc = "claiming" /\ route = "claimed"
      /\ a \notin applied /\ attempt[a].now <= idemClock /\ attempt[a].input \in Inputs
      /\ attempt[a].told \in {"none", "unknown"}
      /\ attempt \in [Attempts -> AttemptState] /\ applied \subseteq Attempts
      /\ UNCHANGED <<route, applied, admissible, idemClock>>
  BY DEF ClaimRecord, IdemInv, IdemTypeOK, AttemptsInv
<1>2. CASE ~RecordClaimable(a, TRUE)
  <2>1. record # NoRecord /\ UNCHANGED record /\ Tell(a, DecideExisting(a))
    BY <1>2 DEF ClaimRecord, RecordClaimable
  <2> QED
    BY <1>1, <2>1, ExistingStep
<1>3. CASE RecordClaimable(a, TRUE)
  <2>1. PICK row \in AttemptState :
           /\ attempt' = [attempt EXCEPT ![a] = row]
           /\ row.input = attempt[a].input /\ row.now = attempt[a].now
           /\ row.pc \in {"handling", "done"} /\ row.told \in {"none", "unknown"}
    BY <1>1, <1>3, OnwardRow DEF ClaimRecord, IdemInv
  <2>2. record' = ClaimedRecord(a, "pending")
    BY <1>3 DEF ClaimRecord
  <2>3. /\ record' \in RecordRows /\ record'.owner = a
        /\ record'.status = "pending" /\ record'.input = attempt[a].input
    BY <1>1, <2>2, ClaimedRecordType DEF IdemInv
  <2>4. attempt'[a] = row /\ \A b \in applied : attempt'[b] = attempt[b]
    BY <1>1, <2>1
  <2>5. IdemTypeOK'
    BY <1>1, <2>1, <2>3, TypeStep DEF IdemInv
  <2>6. AttemptsInv'
    BY <1>1, <2>1, AttemptsStep
  <2>7. RecordInv' /\ AppliedInv'
    BY <1>1, <2>1, <2>3, <2>4 DEF RecordInv, AppliedInv, IdemInv
  <2>8. AppliedOnce'
    BY <1>1, <2>1, OnceStep
  <2>9. AnswersAreTrue'
    BY <1>1, <2>1, AnswersStep
  <2> QED
    BY <2>5, <2>6, <2>7, <2>8, <2>9 DEF IdemInv
<1> QED
  BY <1>2, <1>3

(***************************************************************************)
(* The handler of a claimed route applies its effect only when nobody did. *)
(***************************************************************************)
LEMMA HandleStep ==
  ASSUME IdemInv, NEW a \in Attempts, Handle(a)
  PROVE  IdemInv'
<1>1. /\ attempt[a] \in AttemptState /\ attempt[a].pc = "handling" /\ route = "claimed"
      /\ a \notin applied /\ attempt[a].now <= idemClock /\ attempt[a].input \in Inputs
      /\ attempt[a].told \in {"none", "unknown"}
      /\ attempt \in [Attempts -> AttemptState] /\ record \in RecordRows
      /\ UNCHANGED <<route, record, admissible, idemClock>>
  BY DEF Handle, IdemInv, IdemTypeOK, AttemptsInv
<1>2. CASE admissible /\ applied = {}
  <2>1. applied' = applied \cup {a}
    BY <1>2 DEF Handle
  <2>2. PICK row \in AttemptState :
           /\ attempt' = [attempt EXCEPT ![a] = row]
           /\ row.input = attempt[a].input /\ row.now = attempt[a].now
           /\ row.pc \in {"completing", "done"} /\ row.told \in {"none", "unknown"}
    BY <1>1, <1>2, OnwardRow DEF Handle, IdemInv
  <2>3. IdemTypeOK'
    BY <1>1, <2>1, <2>2, TypeStep DEF IdemInv
  <2>4. AttemptsInv'
    BY <1>1, <2>1, <2>2, AttemptsStep
  <2>5. RecordInv'
    BY <1>1, <2>1, <2>2, KeptStep
  <2>6. AppliedInv'
    BY <1>1, <1>2, <2>1 DEF AppliedInv
  <2>7. AppliedOnce'
    BY <1>1, <1>2, <2>1, <2>2, OnceStep
  <2>8. AnswersAreTrue'
    BY <1>1, <2>1, <2>2, AnswersStep
  <2> QED
    BY <2>3, <2>4, <2>5, <2>6, <2>7, <2>8 DEF IdemInv
<1>3. CASE ~(admissible /\ applied = {})
  <2>1. applied' = applied
    BY <1>3 DEF Handle
  <2>2. PICK row \in AttemptState :
           /\ attempt' = [attempt EXCEPT ![a] = row]
           /\ row.input = attempt[a].input /\ row.now = attempt[a].now
           /\ row.pc \in {"releasing", "done"} /\ row.told \in {"none", "unknown"}
    BY <1>1, <1>3, OnwardRow DEF Handle, IdemInv
  <2> QED
    BY <1>1, <2>1, <2>2, QuietAttempt
<1> QED
  BY <1>2, <1>3

(***************************************************************************)
(* The end of a claimed request: what it did is recorded while it holds    *)
(* the claim, or the claim is removed.                                     *)
(***************************************************************************)
LEMMA EndStep ==
  ASSUME IdempotencyAssumption, IdemInv, NEW a \in Attempts,
         CompleteRecord(a) \/ ReleaseRecord(a)
  PROVE  IdemInv'
<1>1. /\ attempt[a] \in AttemptState /\ route = "claimed"
      /\ attempt[a].pc \in {"completing", "releasing"}
      /\ attempt[a].now <= idemClock /\ attempt[a].input \in Inputs
      /\ attempt \in [Attempts -> AttemptState] /\ record \in RecordRows
      /\ applied \subseteq Attempts /\ idemClock \in Nat
      /\ UNCHANGED <<route, applied, admissible, idemClock>>
  BY DEF CompleteRecord, ReleaseRecord, IdemInv, IdemTypeOK, AttemptsInv
<1>2. PICK told \in {"applied", "refused"} :
        /\ Tell(a, Plain(told))
        /\ told = "applied" => a \in applied
        /\ told = "refused" => a \notin applied
  BY DEF CompleteRecord, ReleaseRecord, IdemInv, AttemptsInv
<1>3. PICK row \in AttemptState :
         /\ attempt' = [attempt EXCEPT ![a] = row]
         /\ row.pc = "done" /\ row.input = attempt[a].input /\ row.now = attempt[a].now
         /\ row.told \in {"unknown", told}
  BY <1>2, PlainType, TellRow DEF IdemInv, Answers
<1>4. \/ record' = record
      \/ record' = NoRecord
      \/ /\ HoldsRecord(a) /\ attempt[a].pc = "completing"
         /\ record' = [record EXCEPT !.status = "completed", !.updated = idemClock]
  BY DEF CompleteRecord, ReleaseRecord
<1>5. record' \in RecordRows /\ RecordInv'
  <2>1. CASE record' = record
    BY <1>1, <1>3, <2>1, KeptStep
  <2>2. CASE record' = NoRecord
    BY <2>2 DEF RecordRows, RecordInv
  <2>3. CASE /\ HoldsRecord(a) /\ attempt[a].pc = "completing"
             /\ record' = [record EXCEPT !.status = "completed", !.updated = idemClock]
    <3>1. record.owner = a /\ record # NoRecord
      BY <2>3 DEF HoldsRecord, NoRecord
    <3>2. /\ record' \in RecordRows /\ record'.owner = a /\ record'.input = record.input
      BY <1>1, <2>3, <3>1 DEF RecordRows, NoRecord
    <3>3. a \in applied
      BY <2>3 DEF IdemInv, AttemptsInv
    <3> QED
      BY <1>1, <1>3, <3>1, <3>2, <3>3 DEF RecordInv, IdemInv
  <2> QED
    BY <1>4, <2>1, <2>2, <2>3
<1>6. IdemTypeOK'
  BY <1>1, <1>3, <1>5, TypeStep DEF IdemInv
<1>7. AttemptsInv'
  BY <1>1, <1>3, AttemptsStep
<1>8. AppliedInv'
  BY <1>1 DEF AppliedInv, IdemInv
<1>9. AppliedOnce'
  BY <1>1, <1>3, OnceStep
<1>10. AnswersAreTrue'
  BY <1>1, <1>2, <1>3, AnswersStep
<1> QED
  BY <1>5, <1>6, <1>7, <1>8, <1>9, <1>10 DEF IdemInv

LEMMA BreakStep ==
  ASSUME IdemInv, NEW a \in Attempts, Break(a)
  PROVE  IdemInv'
<1>1. /\ attempt[a].pc \notin {"idle", "done"}
      /\ UNCHANGED <<route, record, applied, admissible, idemClock>>
  BY DEF Break
<1>2. PICK row \in AttemptState :
         /\ attempt' = [attempt EXCEPT ![a] = row]
         /\ row.input = attempt[a].input /\ row.now = attempt[a].now
         /\ row.pc = "done" /\ row.told = "unknown"
  <2> DEFINE row == [attempt[a] EXCEPT !.pc = "done", !.told = "unknown"]
  <2>1. attempt[a] \in AttemptState /\ attempt \in [Attempts -> AttemptState]
    BY DEF IdemInv, IdemTypeOK
  <2>2. attempt' = [attempt EXCEPT ![a] = row]
    BY <2>1 DEF Break
  <2>3. /\ row \in AttemptState /\ row.pc = "done" /\ row.told = "unknown"
        /\ row.input = attempt[a].input /\ row.now = attempt[a].now
    BY <2>1 DEF AttemptState, Answers
  <2> HIDE DEF row
  <2> QED
    BY <2>2, <2>3
<1> QED
  BY <1>1, <1>2, QuietAttempt

(***************************************************************************)
(* Expiry, the world and the clock.                                        *)
(***************************************************************************)
LEMMA EnvironmentStep ==
  ASSUME IdempotencyAssumption, IdemInv, DeleteExpired \/ WorldChanges \/ IdemTick
  PROVE  IdemInv'
<1>1. /\ UNCHANGED <<route, attempt, applied>>
      /\ idemClock \in Nat /\ idemClock' \in Nat /\ idemClock <= idemClock'
      /\ TTL \in Nat /\ applied \subseteq Attempts
      /\ \A a \in Attempts : attempt[a].now \in Nat /\ attempt[a].now <= idemClock
  BY DEF DeleteExpired, WorldChanges, IdemTick, IdemInv, IdemTypeOK, AttemptsInv, AttemptState,
         IdempotencyAssumption
<1>2. \/ record' = record
      \/ record' = NoRecord /\ record # NoRecord /\ record.expires <= idemClock
  BY DEF DeleteExpired, WorldChanges, IdemTick
<1>3. IdemTypeOK'
  BY <1>1, <1>2 DEF DeleteExpired, WorldChanges, IdemTick, IdemInv, IdemTypeOK, RecordRows
<1>4. AttemptsInv'
  <2>1. \A a \in Attempts : attempt[a].now <= idemClock'
    BY <1>1
  <2> QED
    BY <1>1, <2>1 DEF IdemInv, AttemptsInv
<1>5. RecordInv'
  BY <1>1, <1>2 DEF IdemInv, RecordInv
<1>6. AppliedInv'
  <2>1. ASSUME route = "folded", NEW b \in applied
        PROVE  \/ record' # NoRecord /\ record'.owner = b
               \/ attempt[b].now + TTL <= idemClock'
    <3>1. CASE attempt[b].now + TTL <= idemClock
      BY <1>1, <3>1
    <3>2. CASE record # NoRecord /\ record.owner = b
      <4>1. record.expires = attempt[b].now + TTL
        BY <2>1, <3>2 DEF IdemInv, RecordInv
      <4> QED
        BY <1>1, <1>2, <3>2, <4>1
    <3> QED
      BY <2>1, <3>1, <3>2 DEF IdemInv, AppliedInv
  <2> QED
    BY <1>1, <2>1 DEF IdemInv, AppliedInv
<1>7. AppliedOnce' /\ AnswersAreTrue'
  BY <1>1 DEF IdemInv, AppliedOnce, AnswersAreTrue
<1> QED
  BY <1>3, <1>4, <1>5, <1>6, <1>7 DEF IdemInv

LEMMA IdemInvNext ==
  ASSUME IdempotencyAssumption, IdemInv, [IdemNext]_idemVars
  PROVE  IdemInv'
<1>1. CASE UNCHANGED idemVars
  BY <1>1 DEF idemVars, IdemInv, IdemTypeOK, AttemptsInv, RecordInv, AppliedInv, AppliedOnce,
              AnswersAreTrue
<1>2. CASE IdemNext
  BY <1>2, BeginStep, CommitFoldedStep, GiveUpStep, ClaimRecordStep, HandleStep, EndStep, BreakStep,
     EnvironmentStep DEF IdemNext
<1> QED
  BY <1>1, <1>2

-----------------------------------------------------------------------------
(* The theorems. *)

LEMMA IdemInvAlways == IdemSpec => []IdemInv
<1>1. IdemInit => IdemInv
  BY IdempotencyAssumption, IdemInvInit
<1>2. IdemInv /\ [IdemNext]_idemVars => IdemInv'
  BY IdempotencyAssumption, IdemInvNext
<1> QED
  BY <1>1, <1>2, PTL DEF IdemSpec

(***************************************************************************)
(* A key takes effect once within a record's lifetime, on both kinds of    *)
(* routes, whatever is retried, lost or taken over (store.ts claim,        *)
(* idempotency.interceptor.ts).                                            *)
(***************************************************************************)
THEOREM EffectsApplyOnce == IdemSpec => []AppliedOnce
<1>1. IdemInv => AppliedOnce
  BY DEF IdemInv
<1> QED
  BY <1>1, IdemInvAlways, PTL

(***************************************************************************)
(* Nobody is told that a request took effect, was refused or is replayed   *)
(* when it is not so (decideExisting, runFolded).                          *)
(***************************************************************************)
THEOREM ClientsAreToldTheTruth == IdemSpec => []AnswersAreTrue
<1>1. IdemInv => AnswersAreTrue
  BY DEF IdemInv
<1> QED
  BY <1>1, IdemInvAlways, PTL

(***************************************************************************)
(* A retry on a folded route is answered from the record while it lives    *)
(* (decideExisting): a completed record is all that a claim can meet.      *)
(***************************************************************************)
THEOREM FoldedRetriesReplay == IdemSpec => RetriesReplay
<1>1. ASSUME IdemInv, [IdemNext]_idemVars, NEW a \in Attempts, NEW b \in applied,
             route = "folded", attempt[a].told = "none",
             attempt'[a].told \in {"refused", "in_progress", "applied"},
             attempt[a].input = attempt[b].input
      PROVE  attempt[b].now + TTL <= attempt[a].now + MaxExchange
  <2>1. /\ attempt \in [Attempts -> AttemptState] /\ applied \subseteq Attempts
        /\ \A c \in Attempts : attempt[c].pc \in {"idle", "sent", "done"}
    BY <1>1 DEF IdemInv, IdemTypeOK, AttemptsInv
  <2> attempt[a] \in AttemptState
    BY <2>1
  <2>2. CASE CommitFolded(a)
    <3>1. RecordClaimable(a, FALSE)
      <4> SUFFICES ASSUME ~RecordClaimable(a, FALSE)
                   PROVE  FALSE
        OBVIOUS
      <4>1. record # NoRecord /\ Tell(a, DecideExisting(a))
        BY <2>2 DEF CommitFolded, RecordClaimable
      <4>2. record.status = "completed"
        BY <1>1, <4>1 DEF IdemInv, RecordInv
      <4>3. DecideExisting(a).told \in {"mismatch", "replay"}
        BY <4>2 DEF DecideExisting
      <4>4. attempt'[a].told \in {"unknown", "mismatch", "replay"}
        BY <1>1, <2>1, <4>3, <4>1 DEF Tell
      <4> QED
        BY <1>1, <4>4
    <3>2. attempt[b].now + TTL <= idemClock /\ idemClock <= attempt[a].now + MaxExchange
      BY <1>1, <2>2, <3>1, ClaimableRunOut, IdempotencyAssumption DEF CommitFolded
    <3>3. /\ attempt[a].now \in Nat /\ attempt[b].now \in Nat /\ idemClock \in Nat
          /\ TTL \in Nat /\ MaxExchange \in Nat
      BY <1>1, <2>1, IdempotencyAssumption DEF IdemInv, IdemTypeOK, AttemptState, IdempotencyAssumption
    <3> QED
      BY <3>2, <3>3
  <2>3. CASE \E c \in Attempts : c # a /\ (Begin(c) \/ CommitFolded(c) \/ GiveUp(c))
    <3>1. PICK c \in Attempts : c # a /\ (Begin(c) \/ CommitFolded(c) \/ GiveUp(c))
      BY <2>3
    <3>2. attempt'[a] = attempt[a]
      BY <2>1, <3>1 DEF Begin, CommitFolded, GiveUp, Tell
    <3> QED
      BY <1>1, <3>2
  <2>4. CASE Begin(a) \/ GiveUp(a)
    <3>1. PICK row : attempt' = [attempt EXCEPT ![a] = row] /\ row.told \in {"none", "unknown"}
      <4>1. CASE Begin(a)
        <5>1. PICK input \in Inputs :
                attempt' = [attempt EXCEPT ![a].input = input, ![a].now = idemClock,
                              ![a].pc = IF route = "folded" THEN "sent" ELSE "claiming"]
          BY <4>1 DEF Begin
        <5> DEFINE row == [attempt[a] EXCEPT !.input = input, !.now = idemClock,
                             !.pc = IF route = "folded" THEN "sent" ELSE "claiming"]
        <5>2. attempt' = [attempt EXCEPT ![a] = row] /\ row.told = attempt[a].told
          BY <2>1, <5>1 DEF AttemptState
        <5> HIDE DEF row
        <5> QED
          BY <1>1, <5>2
      <4>2. CASE GiveUp(a)
        <5> DEFINE row == [attempt[a] EXCEPT !.told = "unknown"]
        <5>1. attempt' = [attempt EXCEPT ![a] = row] /\ row.told = "unknown"
          BY <2>1, <4>2 DEF GiveUp, AttemptState
        <5> HIDE DEF row
        <5> QED
          BY <5>1
      <4> QED
        BY <2>4, <4>1, <4>2
    <3> QED
      BY <1>1, <2>1, <3>1
  <2>5. CASE DeleteExpired \/ WorldChanges \/ IdemTick \/ UNCHANGED idemVars
    BY <1>1, <2>5 DEF DeleteExpired, WorldChanges, IdemTick, idemVars
  <2>6. CASE \E c \in Attempts : ClaimRecord(c) \/ Handle(c) \/ CompleteRecord(c)
                                 \/ ReleaseRecord(c) \/ Break(c)
    BY <2>1, <2>6 DEF ClaimRecord, Handle, CompleteRecord, ReleaseRecord, Break
  <2> QED
    BY <1>1, <2>2, <2>3, <2>4, <2>5, <2>6 DEF IdemNext
<1>2. IdemInv /\ [IdemNext]_idemVars =>
        [\A a \in Attempts, b \in applied :
           (/\ route = "folded"
            /\ attempt[a].told = "none"
            /\ attempt'[a].told \in {"refused", "in_progress", "applied"}
            /\ attempt[a].input = attempt[b].input)
           => attempt[b].now + TTL <= attempt[a].now + MaxExchange]_idemVars
  BY <1>1
<1> QED
  BY <1>2, IdemInvAlways, PTL DEF IdemSpec, RetriesReplay

-----------------------------------------------------------------------------
(* Invites: the inductive invariant. *)

\* A seat was granted exactly when it let its account in, and it did so once.
AdmissionsInv ==
  /\ granted = DOMAIN admitted
  /\ \A id \in DOMAIN admitted : admitted[id] = 1

InviteInv ==
  /\ InviteTypeOK /\ IsFiniteSet(seats)
  /\ SeatsWithinCapacity /\ UnlockedByGrant /\ AdmissionsInv

-----------------------------------------------------------------------------
(* Invites: the steps. *)

LEMMA CampaignOfSeatType ==
  ASSUME InviteAssumption, InviteTypeOK, NEW id, \E s \in seats : s.id = id
  PROVE  CampaignOfSeat(id) \in Campaigns
<1>1. PICK s \in seats : s = CHOOSE t \in seats : t.id = id
  OBVIOUS
<1>2. s.invite \in Invites
  BY DEF InviteTypeOK, Seat
<1> QED
  BY <1>1, <1>2 DEF CampaignOfSeat, InviteAssumption

(***************************************************************************)
(* A seat that is claimed is the next of its invite, and the others keep   *)
(* the seats they have.                                                    *)
(***************************************************************************)
LEMMA ClaimedSeat ==
  ASSUME InviteTypeOK, IsFiniteSet(seats), NEW r \in Redemptions, NEW ask \in Redeem,
         MayClaim(r, ask), seats' = seats \cup {NewSeat(r, ask)}
  PROVE  /\ IsFiniteSet(seats') /\ seats' \subseteq Seat
         /\ \A i \in Invites \ {ask.invite} : SeatsOf(i)' = SeatsOf(i)
         /\ SeatsOf(ask.invite)' = SeatsOf(ask.invite) \cup {NewSeat(r, ask)}
         /\ Cardinality(SeatsOf(ask.invite)') = Cardinality(SeatsOf(ask.invite)) + 1
<1> DEFINE i == ask.invite
           seat == NewSeat(r, ask)
           n == Cardinality(SeatsOf(i))
<1>1. ask.account \in Accounts /\ i \in Invites /\ account[ask.account].epoch \in Nat
  BY DEF Redeem, InviteTypeOK, Account
<1>2. IsFiniteSet(SeatsOf(i)) /\ n \in Nat
  <2>1. SeatsOf(i) \in SUBSET seats
    BY DEF SeatsOf
  <2> QED
    BY <2>1, FS_Subset, FS_CardinalityType
<1>3. /\ seat \in Seat /\ seat.invite = i /\ seat.id = CurrentId(ask.account)
      /\ seat.no = n + 1
  BY <1>1, <1>2 DEF NewSeat, Seat, CurrentId, SeatIds
<1>4. seat \notin seats
  BY <1>3 DEF MayClaim, HasSeat
<1> HIDE DEF seat
<1>5. SeatsOf(i)' = SeatsOf(i) \cup {seat} /\ \A j \in Invites \ {i} : SeatsOf(j)' = SeatsOf(j)
  BY <1>3 DEF SeatsOf, seat
<1>6. Cardinality(SeatsOf(i) \cup {seat}) = n + 1
  <2>1. seat \notin SeatsOf(i)
    BY <1>4 DEF SeatsOf
  <2> QED
    BY <1>2, <2>1, FS_AddElement
<1>7. IsFiniteSet(seats')
  BY FS_AddElement
<1>8. seats' \subseteq Seat
  BY <1>3 DEF InviteTypeOK, seat
<1> QED
  BY <1>5, <1>6, <1>7, <1>8 DEF seat

LEMMA ClaimSeatKeeps ==
  ASSUME InviteAssumption, InviteInv, NEW r \in Redemptions, ClaimSeat(r)
  PROVE  InviteInv'
<1> USE DEF InviteInv
<1>1. PICK ask \in Redeem :
        /\ redeem' = [redeem EXCEPT ![r] = ask]
        /\ seats' = IF MayClaim(r, ask) THEN seats \cup {NewSeat(r, ask)} ELSE seats
  BY DEF ClaimSeat
<1>2. UNCHANGED <<account, invite, grant, granted, revocation, admitted>>
  BY DEF ClaimSeat
<1>3. redeem' \in [Redemptions -> Redeem \cup {Nobody}]
  BY <1>1 DEF InviteTypeOK
<1>4. UnlockedByGrant' /\ AdmissionsInv'
  BY <1>2 DEF UnlockedByGrant, AdmissionsInv
<1>5. CASE ~MayClaim(r, ask)
  <2>1. seats' = seats
    BY <1>1, <1>5
  <2>2. \A i \in Invites : SeatsOf(i)' = SeatsOf(i)
    BY <2>1 DEF SeatsOf
  <2>3. InviteTypeOK'
    BY <1>2, <1>3, <2>1 DEF InviteTypeOK
  <2>4. SeatsWithinCapacity'
    BY <1>2, <2>2 DEF SeatsWithinCapacity
  <2> QED
    BY <1>4, <2>1, <2>3, <2>4
<1>6. CASE MayClaim(r, ask)
  <2> DEFINE i == ask.invite
             n == Cardinality(SeatsOf(i))
  <2>1. i \in Invites /\ seats' = seats \cup {NewSeat(r, ask)}
    BY <1>1, <1>6 DEF Redeem
  <2>2. /\ IsFiniteSet(seats') /\ seats' \subseteq Seat
        /\ \A j \in Invites \ {i} : SeatsOf(j)' = SeatsOf(j)
        /\ SeatsOf(i)' = SeatsOf(i) \cup {NewSeat(r, ask)}
        /\ Cardinality(SeatsOf(i)') = n + 1
    BY <1>6, <2>1, ClaimedSeat
  <2>3. n \in Nat
    <3>1. SeatsOf(i) \in SUBSET seats
      BY DEF SeatsOf
    <3> QED
      BY <3>1, FS_Subset, FS_CardinalityType
  <2>4. n < invite[i].max /\ invite[i].max \in Nat
    BY <1>6, <2>1 DEF MayClaim, InviteTypeOK
  <2>5. {s.no : s \in SeatsOf(i)'} = 1 .. n + 1
    <3>1. {s.no : s \in SeatsOf(i)} = 1 .. n
      BY <2>1 DEF SeatsWithinCapacity
    <3>2. NewSeat(r, ask).no = n + 1
      BY DEF NewSeat
    <3> DEFINE S == SeatsOf(i)
               seat == NewSeat(r, ask)
    <3> HIDE DEF S, seat, n
    <3>3. {s.no : s \in S \cup {seat}} = (1 .. n) \cup {n + 1}
      BY <3>1, <3>2 DEF S, seat
    <3> QED
      BY <2>2, <2>3, <3>3 DEF S, seat
  <2>6. SeatsWithinCapacity'
    <3> SUFFICES ASSUME NEW j \in Invites
                 PROVE  /\ Cardinality(SeatsOf(j)') <= invite'[j].max
                        /\ {s.no : s \in SeatsOf(j)'} = 1 .. Cardinality(SeatsOf(j)')
      BY DEF SeatsWithinCapacity
    <3>1. CASE j = i
      <4>1. n + 1 <= invite'[i].max
        BY <1>2, <2>3, <2>4
      <4> HIDE DEF n
      <4> QED
        BY <2>2, <2>5, <3>1, <4>1, Zenon
    <3>2. CASE j # i
      BY <1>2, <2>2, <3>2 DEF SeatsWithinCapacity
    <3> QED
      BY <3>1, <3>2
  <2>7. InviteTypeOK'
    BY <1>2, <1>3, <2>2 DEF InviteTypeOK
  <2> QED
    BY <1>4, <2>2, <2>6, <2>7
<1> QED
  BY <1>5, <1>6

(***************************************************************************)
(* A pending seat that is finalized was never granted before, and unlocks  *)
(* its account in the epoch of the grant.                                  *)
(***************************************************************************)
LEMMA FinishSeatKeeps ==
  ASSUME InviteAssumption, InviteInv, FinishSeat
  PROVE  InviteInv'
<1> USE DEF InviteInv
<1>1. PICK s \in seats : Finalize(s.id)
  BY DEF FinishSeat
<1>2. UNCHANGED <<invite, seats, redeem, revocation>>
  BY DEF FinishSeat
<1> DEFINE id == s.id
           u == s.id[1]
           row == [source |-> "invite", epoch |-> s.id[2], campaign |-> CampaignOfSeat(s.id)]
<1>3. id \in SeatIds /\ u \in Accounts /\ id[2] \in Nat
  BY DEF InviteTypeOK, Seat, SeatIds
<1>4. CampaignOfSeat(id) \in Campaigns
  BY CampaignOfSeatType
<1>5. /\ account[u].epoch = id[2] /\ ~account[u].deleting /\ id \notin granted
      /\ grant' = [grant EXCEPT ![u] = row] /\ granted' = granted \cup {id}
      /\ account' = Unlocked(u) /\ admitted' = Admit(id)
  BY <1>1 DEF Finalize, PendingSeat
<1>6. row \in GrantRow /\ row.source = "invite" /\ row.epoch = id[2]
  BY <1>3, <1>4 DEF GrantRow
<1>7. /\ account' \in [Accounts -> Account]
      /\ \A v \in Accounts : /\ account'[v].epoch = account[v].epoch
                             /\ account'[v].deleting = account[v].deleting
                             /\ v # u => account'[v] = account[v]
  BY <1>3, <1>5 DEF Unlocked, InviteTypeOK, Account
<1> HIDE DEF row, id, u
<1>8. InviteTypeOK'
  BY <1>2, <1>3, <1>5, <1>6, <1>7 DEF InviteTypeOK
<1>9. SeatsWithinCapacity' /\ IsFiniteSet(seats')
  BY <1>2 DEF SeatsWithinCapacity, SeatsOf
<1>10. UnlockedByGrant'
  <2> SUFFICES ASSUME NEW v \in Accounts, account'[v].beta = "unlocked", ~account'[v].deleting
               PROVE  \/ grant'[v].source = "admin"
                      \/ grant'[v].source = "invite" /\ grant'[v].epoch = account'[v].epoch
    BY DEF UnlockedByGrant
  <2>1. CASE v = u
    BY <1>3, <1>5, <1>6, <1>7, <2>1 DEF InviteTypeOK
  <2>2. CASE v # u
    BY <1>5, <1>7, <2>2 DEF UnlockedByGrant, InviteTypeOK
  <2> QED
    BY <2>1, <2>2
<1>11. AdmissionsInv'
  BY <1>5 DEF AdmissionsInv, Admit
<1> QED
  BY <1>2, <1>8, <1>9, <1>10, <1>11

(***************************************************************************)
(* The steps that change accounts, and only they may change grants: what   *)
(* they do to one account keeps it let in by a grant.                      *)
(***************************************************************************)
LEMMA AccountStep ==
  ASSUME InviteInv, NEW u \in Accounts, NEW row \in Account, NEW given \in GrantRow,
         account' = [account EXCEPT ![u] = row], grant' = [grant EXCEPT ![u] = given],
         (row.beta = "unlocked" /\ ~row.deleting) => given.source = "admin",
         revocation' \in [campaign : Campaigns \cup {Nobody}, members : SUBSET Accounts],
         UNCHANGED <<invite, seats, granted, redeem, admitted>>
  PROVE  InviteInv'
<1> USE DEF InviteInv
<1>1. InviteTypeOK'
  BY DEF InviteTypeOK
<1>2. UnlockedByGrant'
  BY DEF InviteTypeOK, UnlockedByGrant
<1>3. SeatsWithinCapacity' /\ AdmissionsInv'
  BY DEF SeatsWithinCapacity, SeatsOf, AdmissionsInv
<1> QED
  BY <1>1, <1>2, <1>3

LEMMA AccountStepsKeep ==
  ASSUME InviteAssumption, InviteInv, NEW u \in Accounts,
         \/ Relock(u) \/ AdminUnlock(u) \/ RestoreEligibility(u) \/ DeleteAccount(u)
         \/ RestrictMember(u)
  PROVE  InviteInv'
<1> USE DEF InviteInv
<1> DEFINE members == [campaign : Campaigns \cup {Nobody}, members : SUBSET Accounts]
<1>1. /\ account[u] \in Account /\ grant[u] \in GrantRow /\ NoGrant \in GrantRow
      /\ AdminGrant \in GrantRow /\ AdminGrant.source = "admin"
      /\ grant = [grant EXCEPT ![u] = grant[u]] /\ account = [account EXCEPT ![u] = account[u]]
      /\ revocation \in members
  BY DEF InviteTypeOK, GrantRow, NoGrant, AdminGrant
<1>2. ASSUME NEW revoked, RestrictAccount(u, revoked), revocation' \in members,
             UNCHANGED <<invite, seats, granted, redeem, admitted>>
      PROVE  InviteInv'
  <2> DEFINE row == [account[u] EXCEPT !.beta = "relocked"]
             given == IF revoked THEN NoGrant ELSE grant[u]
  <2>1. /\ row \in Account /\ row.beta = "relocked" /\ given \in GrantRow
    BY <1>1 DEF Account
  <2>2. account' = [account EXCEPT ![u] = row] /\ grant' = [grant EXCEPT ![u] = given]
    BY <1>2 DEF RestrictAccount
  <2> HIDE DEF row, given
  <2> QED
    BY <1>2, <2>1, <2>2, AccountStep
<1>3. CASE Relock(u)
  BY <1>1, <1>2, <1>3 DEF Relock
<1>4. CASE AdminUnlock(u)
  <2> DEFINE row == [account[u] EXCEPT !.beta = "unlocked"]
  <2>1. row \in Account
    BY <1>1 DEF Account
  <2>2. account' = [account EXCEPT ![u] = row] /\ grant' = [grant EXCEPT ![u] = AdminGrant]
    BY <1>4 DEF AdminUnlock, Unlocked
  <2>3. revocation' = revocation /\ UNCHANGED <<invite, seats, granted, redeem, admitted>>
    BY <1>4 DEF AdminUnlock
  <2> HIDE DEF row
  <2> QED
    BY <1>1, <2>1, <2>2, <2>3, AccountStep
<1>5. CASE RestoreEligibility(u)
  <2> DEFINE next == account[u].epoch + 1
             row == [account[u] EXCEPT !.beta = "locked", !.epoch = next]
  <2>1. row \in Account /\ row.beta = "locked"
    <3>1. next \in Nat
      BY <1>1 DEF Account
    <3> HIDE DEF next
    <3> QED
      BY <1>1, <3>1 DEF Account
  <2>2. account' = [account EXCEPT ![u] = row] /\ grant' = [grant EXCEPT ![u] = grant[u]]
    BY <1>1, <1>5 DEF RestoreEligibility
  <2>3. revocation' = revocation /\ UNCHANGED <<invite, seats, granted, redeem, admitted>>
    BY <1>5 DEF RestoreEligibility
  <2> HIDE DEF row
  <2> QED
    BY <1>1, <2>1, <2>2, <2>3, AccountStep
<1>6. CASE DeleteAccount(u)
  <2> DEFINE row == [account[u] EXCEPT !.deleting = TRUE]
  <2>1. row \in Account /\ row.deleting
    BY <1>1 DEF Account
  <2>2. account' = [account EXCEPT ![u] = row] /\ grant' = [grant EXCEPT ![u] = NoGrant]
    BY <1>6 DEF DeleteAccount
  <2>3. revocation' = revocation /\ UNCHANGED <<invite, seats, granted, redeem, admitted>>
    BY <1>6 DEF DeleteAccount
  <2> HIDE DEF row
  <2> QED
    BY <1>1, <2>1, <2>2, <2>3, AccountStep
<1>7. CASE RestrictMember(u)
  <2>1. revocation' \in members /\ UNCHANGED <<invite, seats, granted, redeem, admitted>>
    BY <1>1, <1>7 DEF RestrictMember
  <2>2. CASE RestrictAccount(u, grant[u].campaign = revocation.campaign)
    BY <1>2, <2>1, <2>2
  <2>3. CASE UNCHANGED <<account, grant>>
    <3>1. InviteTypeOK'
      BY <2>1, <2>3 DEF InviteTypeOK
    <3> QED
      BY <2>1, <2>3, <3>1 DEF UnlockedByGrant, SeatsWithinCapacity, SeatsOf, AdmissionsInv
  <2> QED
    BY <1>7, <2>2, <2>3 DEF RestrictMember
<1> QED
  BY <1>3, <1>4, <1>5, <1>6, <1>7

\* A campaign's revocation reads its members, or gives the rest of them up.
LEMMA RevocationKeeps ==
  ASSUME InviteInv, RevocationFails \/ \E k \in Campaigns : ConfirmRevocation(k)
  PROVE  InviteInv'
<1> USE DEF InviteInv
<1>1. UNCHANGED <<account, invite, seats, grant, granted, redeem, admitted>>
  BY DEF RevocationFails, ConfirmRevocation
<1>2. revocation' \in [campaign : Campaigns \cup {Nobody}, members : SUBSET Accounts]
  BY DEF RevocationFails, ConfirmRevocation, InviteTypeOK
<1>3. InviteTypeOK'
  BY <1>1, <1>2 DEF InviteTypeOK
<1> QED
  BY <1>1, <1>3 DEF UnlockedByGrant, SeatsWithinCapacity, SeatsOf, AdmissionsInv

\* An edit of a cap compares it with the seats that are used.
LEMMA InviteStepsKeep ==
  ASSUME InviteAssumption, InviteInv, NEW i \in Invites, EditCapacity(i) \/ EndInvite(i)
  PROVE  InviteInv'
<1> USE DEF InviteInv
<1>1. UNCHANGED <<account, seats, grant, granted, redeem, revocation, admitted>>
  BY DEF EditCapacity, EndInvite
<1>2. /\ invite' \in [Invites -> [max : Nat, state : {"open", "expired", "revoked"}]]
      /\ \A j \in Invites : Cardinality(SeatsOf(j)) <= invite'[j].max
  <2>1. CASE EditCapacity(i)
    <3>1. PICK max \in 1 .. MaxCap : /\ Cardinality(SeatsOf(i)) <= max
                                     /\ invite' = [invite EXCEPT ![i].max = max]
      BY <2>1 DEF EditCapacity
    <3>2. max \in Nat
      BY <3>1 DEF InviteAssumption
    <3> QED
      BY <3>1, <3>2 DEF InviteTypeOK, SeatsWithinCapacity
  <2>2. CASE EndInvite(i)
    BY <2>2 DEF EndInvite, InviteTypeOK, SeatsWithinCapacity
  <2> QED
    BY <2>1, <2>2
<1>3. InviteTypeOK'
  BY <1>1, <1>2 DEF InviteTypeOK
<1>4. SeatsWithinCapacity'
  BY <1>1, <1>2 DEF SeatsWithinCapacity, SeatsOf
<1> QED
  BY <1>1, <1>3, <1>4 DEF UnlockedByGrant, AdmissionsInv

-----------------------------------------------------------------------------
(* Invites: the theorems. *)

LEMMA InviteInitInv ==
  ASSUME InviteAssumption, InviteInit
  PROVE  InviteInv
<1>1. InviteTypeOK
  BY DEF InviteAssumption, InviteInit, InviteTypeOK, Account, NoGrant, GrantRow
<1>2. IsFiniteSet(seats)
  BY FS_EmptySet DEF InviteInit
<1>3. SeatsWithinCapacity
  <2> SUFFICES ASSUME NEW i \in Invites
               PROVE  /\ Cardinality(SeatsOf(i)) <= invite[i].max
                      /\ {s.no : s \in SeatsOf(i)} = 1 .. Cardinality(SeatsOf(i))
    BY DEF SeatsWithinCapacity
  <2>1. SeatsOf(i) = {} /\ Cardinality({}) = 0 /\ invite[i].max = 1
    BY FS_EmptySet DEF SeatsOf, InviteInit
  <2> HIDE DEF SeatsOf
  <2>2. {s.no : s \in SeatsOf(i)} = {} /\ 1 .. 0 = {}
    BY <2>1
  <2> QED
    BY <2>1, <2>2
<1>4. UnlockedByGrant /\ AdmissionsInv
  BY DEF InviteInit, UnlockedByGrant, AdmissionsInv
<1> QED
  BY <1>1, <1>2, <1>3, <1>4 DEF InviteInv

(***************************************************************************)
(* The invariant holds through every interleaving of redemptions,          *)
(* reconciliations, administrators, revocations and deletions              *)
(* (access/redeem.ts, reconcile.ts, restrict.ts).                          *)
(***************************************************************************)
THEOREM InviteInvAlways == InviteSpec => []InviteInv
<1>1. InviteInit => InviteInv
  BY InviteInitInv, InviteAssumption
<1>2. InviteInv /\ [InviteNext]_inviteVars => InviteInv'
  <2> SUFFICES ASSUME InviteInv, [InviteNext]_inviteVars
               PROVE  InviteInv'
    OBVIOUS
  <2>1. ASSUME NEW r \in Redemptions, ClaimSeat(r)
        PROVE  InviteInv'
    BY <2>1, ClaimSeatKeeps, InviteAssumption
  <2>2. CASE FinishSeat
    BY <2>2, FinishSeatKeeps, InviteAssumption
  <2>3. ASSUME NEW u \in Accounts,
               \/ Relock(u) \/ AdminUnlock(u) \/ RestoreEligibility(u) \/ DeleteAccount(u)
               \/ RestrictMember(u)
        PROVE  InviteInv'
    BY <2>3, AccountStepsKeep, InviteAssumption
  <2>4. CASE RevocationFails \/ \E k \in Campaigns : ConfirmRevocation(k)
    BY <2>4, RevocationKeeps
  <2>5. ASSUME NEW i \in Invites, EditCapacity(i) \/ EndInvite(i)
        PROVE  InviteInv'
    BY <2>5, InviteStepsKeep, InviteAssumption
  <2>6. CASE UNCHANGED inviteVars
    BY <2>6 DEF inviteVars, InviteInv, InviteTypeOK, SeatsWithinCapacity, SeatsOf,
                UnlockedByGrant, AdmissionsInv
  <2> QED
    BY <2>1, <2>2, <2>3, <2>4, <2>5, <2>6 DEF InviteNext
<1> QED
  BY <1>1, <1>2, PTL DEF InviteSpec

(***************************************************************************)
(* However many redemptions race for the last seat of an invite, and       *)
(* however its cap is edited meanwhile, no invite is oversold and its      *)
(* seats are numbered without gaps.                                        *)
(***************************************************************************)
THEOREM InvitesAreNotOversold == InviteSpec => []SeatsWithinCapacity
BY InviteInvAlways, PTL DEF InviteInv

(***************************************************************************)
(* Nobody is let in without a current grant: an administrator's, or that   *)
(* of a seat of the account's present epoch.                               *)
(***************************************************************************)
THEOREM NobodyEntersUngranted == InviteSpec => []UnlockedByGrant
BY InviteInvAlways, PTL DEF InviteInv

(***************************************************************************)
(* A seat lets its account in once, however often its follow-up is sent    *)
(* and whatever an administrator or a revocation does in between.          *)
(***************************************************************************)
THEOREM SeatsAdmitOnce == InviteSpec => []SeatAdmitsOnce
<1>1. InviteInv => SeatAdmitsOnce
  BY DEF InviteInv, AdmissionsInv, SeatAdmitsOnce
<1> QED
  BY <1>1, InviteInvAlways, PTL

-----------------------------------------------------------------------------
(* Sockets: the inductive invariant. *)

\* What AccessTypeOK leaves open: the clocks, and that these are records.
AccessRecords ==
  /\ AccessTypeOK
  /\ hubClock \in 0 .. MaxHubClock /\ tickets \in 0 .. MaxReads
  /\ noticed \in [generation : 0 .. MaxGeneration, ended : BOOLEAN]
  /\ sessionCache \in [entry : {sessionCache.entry}, floor : 0 .. MaxGeneration, ended : BOOLEAN]
  /\ remembered \in [access : (0 .. MaxHubClock) \cup {Never},
                     ended : (0 .. MaxHubClock) \cup {Never}]

(***************************************************************************)
(* An effect speaks of what was committed, and the cache is told before    *)
(* the sockets are.                                                        *)
(***************************************************************************)
EffectsInv ==
  /\ \A e \in effects :
       /\ e.generation <= access.generation
       /\ e.kind = "ended" => ~access.live
       /\ e.step = "notify" => IF e.kind = "ended" THEN sessionCache.ended
                               ELSE e.generation <= sessionCache.floor
  /\ noticed.generation <= access.generation /\ noticed.generation <= sessionCache.floor
  /\ noticed.ended => ~access.live /\ sessionCache.ended

\* The cache holds nothing older than what it was told.
CacheInv ==
  sessionCache.entry # Never =>
    sessionCache.entry.generation >= sessionCache.floor /\ ~sessionCache.ended

(***************************************************************************)
(* An upgrade that found an older state than was notified meanwhile is one *)
(* that staleUpgrade still remembers the change for.                       *)
(***************************************************************************)
UpgradesInv ==
  \A s \in Sockets :
    /\ sockets[s].started <= hubClock
    /\ sockets[s].phase \in {"found", "verified"} =>
         /\ noticed.ended => StaleSince(remembered.ended, s)
         /\ sockets[s].admitted /\ sockets[s].generation < noticed.generation =>
              StaleSince(remembered.access, s)

(***************************************************************************)
(* A result that may still be applied to a socket is not older than what   *)
(* was notified: its ticket is not below the floor of the socket.          *)
(***************************************************************************)
ReadsInv ==
  \A r \in Readers :
    /\ reads[r].ticket <= tickets
    /\ reads[r].phase = "read" =>
         \A s \in reads[r].over : reads[r].ticket >= sockets[s].floor =>
                                    reads[r].generation >= noticed.generation

AccessInv ==
  /\ AccessRecords /\ EffectsInv /\ CacheInv /\ UpgradesInv /\ ReadsInv
  /\ NoSocketOutlivesRestriction

\* The rows that AccessTypeOK allows, of sockets and of reads.
SocketRows ==
  [phase : {"idle", "looking", "found", "verified", "open"}, generation : 0 .. MaxGeneration,
   admitted : BOOLEAN, started : 0 .. MaxHubClock, ticket : 0 .. MaxReads,
   floor : 0 .. (MaxReads + 1)]

-----------------------------------------------------------------------------
(* Sockets: the steps. *)

LEMMA CommitsKeep ==
  ASSUME AccessTimes, AccessInv, ChangeAccess \/ RevokeSession
  PROVE  AccessInv'
<1> USE DEF AccessInv
<1>1. /\ UNCHANGED <<sessionCache, remembered, sockets, reads, hubClock, tickets, noticed>>
      /\ access'.generation >= access.generation /\ access'.generation \in 0 .. MaxGeneration
      /\ access' \in [generation : 0 .. MaxGeneration, admitted : BOOLEAN, live : BOOLEAN]
      /\ access.generation \in Nat
      /\ ~access.live => ~access'.live
      /\ \E e : /\ effects' = effects \cup {e}
                /\ e.generation = access'.generation /\ e.step = "evict"
                /\ e.kind = "ended" => ~access'.live
                /\ e \in [kind : {"restricted", "changed", "ended"},
                          generation : 0 .. MaxGeneration, step : {"evict", "notify"}]
  <2>1. /\ access \in [generation : 0 .. MaxGeneration, admitted : BOOLEAN, live : BOOLEAN]
        /\ MaxGeneration \in Nat /\ access.generation \in Nat
    BY DEF AccessRecords, AccessTypeOK, AccessTimes
  <2>2. CASE ChangeAccess
    <3> DEFINE next == access.generation + 1
               e == Effect(IF access.admitted THEN "restricted" ELSE "changed", next)
    <3>1. /\ access.live /\ next \in 0 .. MaxGeneration /\ next >= access.generation
          /\ access' = [access EXCEPT !.generation = next, !.admitted = ~access.admitted]
          /\ effects' = effects \cup {e}
      BY <2>1, <2>2 DEF ChangeAccess
    <3>2. /\ e.generation = next /\ e.step = "evict" /\ e.kind # "ended"
          /\ e \in [kind : {"restricted", "changed", "ended"},
                     generation : 0 .. MaxGeneration, step : {"evict", "notify"}]
      BY <3>1 DEF Effect
    <3> HIDE DEF next, e
    <3>3. /\ access'.generation = next /\ access'.live = access.live
          /\ access' \in [generation : 0 .. MaxGeneration, admitted : BOOLEAN, live : BOOLEAN]
      BY <2>1, <3>1
    <3> QED
      BY <2>1, <2>2, <3>1, <3>2, <3>3 DEF ChangeAccess
  <2>3. CASE RevokeSession
    <3> DEFINE e == Effect("ended", access.generation)
    <3>1. /\ access' = [access EXCEPT !.live = FALSE] /\ effects' = effects \cup {e}
      BY <2>3 DEF RevokeSession
    <3>2. /\ e.generation = access.generation /\ e.step = "evict"
          /\ e \in [kind : {"restricted", "changed", "ended"},
                     generation : 0 .. MaxGeneration, step : {"evict", "notify"}]
      BY <2>1 DEF Effect
    <3> HIDE DEF e
    <3>3. /\ access'.generation = access.generation /\ ~access'.live
          /\ access' \in [generation : 0 .. MaxGeneration, admitted : BOOLEAN, live : BOOLEAN]
      BY <2>1, <3>1
    <3> QED
      BY <2>1, <2>3, <3>1, <3>2, <3>3 DEF RevokeSession
  <2> QED
    BY <2>2, <2>3
<1>2. Open' = Open
  BY <1>1 DEF Open
<1>3. AccessRecords'
  BY <1>1, <1>2 DEF AccessRecords, AccessTypeOK
<1>4. EffectsInv'
  <2>1. /\ \A e \in effects : e.generation \in Nat
        /\ access'.generation \in Nat /\ noticed.generation \in Nat
    BY <1>1 DEF AccessRecords, AccessTypeOK
  <2> QED
    BY <1>1, <2>1 DEF EffectsInv
<1>5. CacheInv' /\ UpgradesInv' /\ ReadsInv' /\ NoSocketOutlivesRestriction'
  BY <1>1, <1>2 DEF CacheInv, UpgradesInv, StaleSince, ReadsInv, NoSocketOutlivesRestriction
<1> QED
  BY <1>3, <1>4, <1>5

LEMMA EvictionsKeep ==
  ASSUME AccessTimes, AccessInv, NEW e \in effects, LoseEffect(e) \/ Evict(e)
  PROVE  AccessInv'
<1> USE DEF AccessInv
<1>1. UNCHANGED <<access, remembered, sockets, reads, hubClock, tickets, noticed>>
  BY DEF LoseEffect, Evict
<1>2. Open' = Open
  BY <1>1 DEF Open
<1>3. /\ e.generation \in 0 .. MaxGeneration /\ e.kind \in {"restricted", "changed", "ended"}
      /\ sessionCache.floor \in 0 .. MaxGeneration /\ sessionCache.ended \in BOOLEAN
      /\ \A f \in effects : f.generation \in Nat
      /\ noticed.generation \in Nat
      /\ e.generation <= access.generation /\ (e.kind = "ended" => ~access.live)
      /\ [e EXCEPT !.step = "notify"] = [kind |-> e.kind, generation |-> e.generation,
                                         step |-> "notify"]
  BY DEF AccessRecords, AccessTypeOK, EffectsInv
<1>4. UpgradesInv' /\ ReadsInv' /\ NoSocketOutlivesRestriction'
  BY <1>1, <1>2 DEF UpgradesInv, StaleSince, ReadsInv, NoSocketOutlivesRestriction
<1>5. CASE LoseEffect(e)
  <2>1. sessionCache' = sessionCache /\ effects' \subseteq effects
    BY <1>5 DEF LoseEffect
  <2> QED
    BY <1>1, <1>2, <1>4, <2>1 DEF AccessRecords, AccessTypeOK, EffectsInv, CacheInv
<1>6. CASE Evict(e)
  <2> DEFINE told == [kind |-> e.kind, generation |-> e.generation, step |-> "notify"]
             floor == IF e.kind = "ended" THEN sessionCache.floor
                      ELSE Larger(sessionCache.floor, e.generation)
             ended == sessionCache.ended \/ e.kind = "ended"
  <2>1. /\ effects' = (effects \ {e}) \cup {told}
        /\ sessionCache' = [entry |-> Never, floor |-> floor, ended |-> ended]
    BY <1>3, <1>6 DEF Evict
  <2>2. /\ floor \in 0 .. MaxGeneration /\ floor >= sessionCache.floor
        /\ e.kind # "ended" => e.generation <= floor
        /\ ended \in BOOLEAN /\ (sessionCache.ended => ended) /\ (e.kind = "ended" => ended)
    BY <1>3 DEF Larger
  <2> HIDE DEF floor, ended
  <2>3. AccessRecords'
    BY <1>1, <1>2, <1>3, <2>1, <2>2 DEF AccessRecords, AccessTypeOK
  <2>4. CacheInv'
    BY <2>1 DEF CacheInv
  <2>5. EffectsInv'
    BY <1>1, <1>3, <2>1, <2>2 DEF EffectsInv
  <2> QED
    BY <1>4, <2>3, <2>4, <2>5
<1> QED
  BY <1>5, <1>6

\* An upgrade that started at this time and is checked against a change at `at`.
StaleRow(at, row) == at # Never /\ at >= row.started - CacheTtl

\* What an upgrade that has its answer must satisfy.
AnsweredUpgrade(row) ==
  /\ noticed.ended => StaleRow(remembered.ended, row)
  /\ row.admitted /\ row.generation < noticed.generation => StaleRow(remembered.access, row)

(***************************************************************************)
(* A step of an upgrade that is not connected yet concerns no open socket  *)
(* and no read.                                                            *)
(***************************************************************************)
LEMMA UpgradeStep ==
  ASSUME AccessInv, NEW s \in Sockets, NEW row \in SocketRows,
         sockets' = [sockets EXCEPT ![s] = row],
         sockets[s].phase # "open", row.phase # "open", row.started <= hubClock,
         row.phase \in {"found", "verified"} => AnsweredUpgrade(row),
         UNCHANGED <<access, effects, remembered, reads, hubClock, tickets, noticed>>
  PROVE  /\ Open' = Open /\ sockets' \in [Sockets -> SocketRows]
         /\ UpgradesInv' /\ ReadsInv' /\ NoSocketOutlivesRestriction'
<1> USE DEF AccessInv
<1>1. sockets \in [Sockets -> SocketRows]
  BY DEF AccessRecords, AccessTypeOK, SocketRows
<1>2. /\ sockets' \in [Sockets -> SocketRows]
      /\ sockets'[s] = row /\ \A t \in Sockets \ {s} : sockets'[t] = sockets[t]
  BY <1>1
<1>3. Open' = Open /\ s \notin Open
  BY <1>2 DEF Open
<1>4. UpgradesInv'
  <2> SUFFICES ASSUME NEW t \in Sockets
               PROVE  /\ sockets'[t].started <= hubClock
                      /\ sockets'[t].phase \in {"found", "verified"} =>
                           /\ noticed.ended => StaleSince(remembered.ended, t)'
                           /\ sockets'[t].admitted /\ sockets'[t].generation < noticed.generation
                                => StaleSince(remembered.access, t)'
    BY DEF UpgradesInv
  <2>1. CASE t = s
    BY <1>2, <2>1 DEF AnsweredUpgrade, StaleRow, StaleSince
  <2>2. CASE t # s
    BY <1>2, <2>2 DEF UpgradesInv, StaleSince
  <2> QED
    BY <2>1, <2>2
<1>5. ReadsInv'
  <2>1. \A r \in Readers : reads[r].over \subseteq Sockets \ {s}
    BY <1>3 DEF AccessRecords, AccessTypeOK, Open
  <2> QED
    BY <1>2, <2>1 DEF ReadsInv
<1>6. NoSocketOutlivesRestriction'
  BY <1>2, <1>3 DEF NoSocketOutlivesRestriction
<1> QED
  BY <1>2, <1>3, <1>4, <1>5, <1>6

LEMMA UpgradesKeep ==
  ASSUME AccessTimes, AccessInv, NEW s \in Sockets, BeginUpgrade(s) \/ LookUp(s) \/ Verify(s)
  PROVE  AccessInv'
<1> USE DEF AccessInv
<1>1. UNCHANGED <<access, effects, remembered, reads, hubClock, tickets, noticed>>
  BY DEF BeginUpgrade, LookUp, Verify
<1>2. /\ sockets \in [Sockets -> SocketRows] /\ sockets[s] \in SocketRows
      /\ hubClock \in 0 .. MaxHubClock /\ MaxReads \in Nat
      /\ access \in [generation : 0 .. MaxGeneration, admitted : BOOLEAN, live : BOOLEAN]
      /\ Closed \in SocketRows /\ Closed.phase = "idle" /\ Closed.started = 0
      /\ sessionCache.floor \in 0 .. MaxGeneration /\ sessionCache.ended \in BOOLEAN
      /\ noticed.generation \in Nat /\ MaxGeneration \in Nat
  BY DEF AccessRecords, AccessTypeOK, SocketRows, AccessTimes, Closed
<1>3. ASSUME Open' = Open, sockets' \in [Sockets -> SocketRows], sessionCache' = sessionCache,
             UpgradesInv' /\ ReadsInv' /\ NoSocketOutlivesRestriction'
      PROVE  AccessInv'
  <2>1. AccessRecords'
    BY <1>1, <1>3 DEF AccessRecords, AccessTypeOK, SocketRows
  <2> QED
    BY <1>1, <1>3, <2>1 DEF EffectsInv, CacheInv
<1>4. CASE BeginUpgrade(s)
  <2> DEFINE entry == sessionCache.entry
             row == IF entry # Never
                    THEN [Closed EXCEPT !.phase = "verified", !.started = hubClock,
                            !.generation = entry.generation, !.admitted = entry.admitted]
                    ELSE [Closed EXCEPT !.phase = "looking", !.started = hubClock]
  <2>1. sockets' = [sockets EXCEPT ![s] = row] /\ sockets[s].phase = "idle"
        /\ sessionCache' = sessionCache
    BY <1>4 DEF BeginUpgrade
  <2>2. CASE entry # Never
    <3>1. /\ entry.generation \in 0 .. MaxGeneration /\ entry.admitted \in BOOLEAN
          /\ entry.generation >= noticed.generation /\ ~noticed.ended
      BY <1>2, <2>2 DEF AccessRecords, AccessTypeOK, CacheInv, EffectsInv
    <3>2. row \in SocketRows /\ row.phase = "verified" /\ row.started = hubClock
          /\ row.generation = entry.generation
      BY <1>2, <2>2, <3>1 DEF SocketRows, Closed
    <3> HIDE DEF row
    <3>3. AnsweredUpgrade(row)
      BY <1>2, <3>1, <3>2 DEF AnsweredUpgrade
    <3>4. row.started <= hubClock /\ row.phase # "open" /\ sockets[s].phase # "open"
      BY <1>2, <2>1, <3>2
    <3>5. /\ Open' = Open /\ sockets' \in [Sockets -> SocketRows]
          /\ UpgradesInv' /\ ReadsInv' /\ NoSocketOutlivesRestriction'
      BY <1>1, <2>1, <3>2, <3>3, <3>4, UpgradeStep
    <3> QED
      BY <1>3, <2>1, <3>5
  <2>3. CASE entry = Never
    <3>1. row \in SocketRows /\ row.phase = "looking" /\ row.started = hubClock
      BY <1>2, <2>3 DEF SocketRows, Closed
    <3> HIDE DEF row
    <3>4. /\ row.started <= hubClock /\ row.phase \notin {"found", "verified", "open"}
          /\ sockets[s].phase # "open"
      BY <1>2, <2>1, <3>1
    <3>5. /\ Open' = Open /\ sockets' \in [Sockets -> SocketRows]
          /\ UpgradesInv' /\ ReadsInv' /\ NoSocketOutlivesRestriction'
      BY <1>1, <2>1, <3>1, <3>4, UpgradeStep
    <3> QED
      BY <1>3, <2>1, <3>5
  <2> QED
    BY <2>2, <2>3
<1>5. CASE LookUp(s)
  <2> DEFINE found == [sockets[s] EXCEPT !.phase = "found", !.generation = access.generation,
                                         !.admitted = access.admitted]
  <2>1. /\ sockets' = [sockets EXCEPT ![s] = IF access.live THEN found ELSE Closed]
        /\ sockets[s].phase = "looking" /\ sessionCache' = sessionCache
    BY <1>5 DEF LookUp
  <2>2. CASE access.live
    <3>1. /\ found \in SocketRows /\ found.phase = "found"
          /\ found.started = sockets[s].started /\ found.generation = access.generation
      BY <1>2 DEF SocketRows
    <3>2. found.started <= hubClock
      BY <3>1 DEF UpgradesInv
    <3>3. sockets' = [sockets EXCEPT ![s] = found]
      BY <2>1, <2>2
    <3> HIDE DEF found
    <3>4. AnsweredUpgrade(found)
      BY <1>2, <2>2, <3>1 DEF AnsweredUpgrade, EffectsInv
    <3> QED
      BY <1>1, <1>2, <1>3, <2>1, <3>1, <3>2, <3>3, <3>4, UpgradeStep
  <2>3. CASE ~access.live
    <3>1. sockets' = [sockets EXCEPT ![s] = Closed] /\ Closed.started <= hubClock
      BY <1>2, <2>1, <2>3
    <3> QED
      BY <1>1, <1>2, <1>3, <2>1, <3>1, UpgradeStep
  <2> QED
    BY <2>2, <2>3
<1>6. CASE Verify(s)
  <2> DEFINE row == [sockets[s] EXCEPT !.phase = "verified"]
  <2>1. /\ sockets' = [sockets EXCEPT ![s] = row] /\ sockets[s].phase = "found"
        /\ sessionCache' = Cached(sockets[s])
    BY <1>6 DEF Verify
  <2>2. /\ row \in SocketRows /\ row.phase = "verified" /\ row.started = sockets[s].started
        /\ row.generation = sockets[s].generation /\ row.admitted = sockets[s].admitted
    BY <1>2 DEF SocketRows
  <2> HIDE DEF row
  <2>3. AnsweredUpgrade(row) /\ row.started <= hubClock
    BY <2>1, <2>2 DEF AnsweredUpgrade, UpgradesInv, StaleRow, StaleSince
  <2>4. /\ Open' = Open /\ sockets' \in [Sockets -> SocketRows]
        /\ UpgradesInv' /\ ReadsInv' /\ NoSocketOutlivesRestriction'
    BY <1>1, <2>1, <2>2, <2>3, UpgradeStep
  <2> DEFINE entry == [generation |-> sockets[s].generation,
                       admitted |-> sockets[s].admitted, at |-> hubClock]
             kept == ~(sockets[s].generation < sessionCache.floor \/ sessionCache.ended)
  <2>5. /\ sessionCache'.floor = sessionCache.floor /\ sessionCache'.ended = sessionCache.ended
        /\ sessionCache'.entry = IF kept THEN entry ELSE Never
        /\ sessionCache' \in [entry : {sessionCache'.entry}, floor : 0 .. MaxGeneration,
                              ended : BOOLEAN]
    BY <1>2, <2>1 DEF Cached, AccessRecords
  <2>6. entry \in [generation : 0 .. MaxGeneration, admitted : BOOLEAN, at : 0 .. MaxHubClock]
    BY <1>2 DEF SocketRows
  <2>7. AccessRecords'
    BY <1>1, <1>2, <2>4, <2>5, <2>6 DEF AccessRecords, AccessTypeOK, SocketRows
  <2>8. CacheInv'
    BY <1>2, <2>5 DEF CacheInv, SocketRows
  <2>9. EffectsInv'
    BY <1>1, <2>5 DEF EffectsInv
  <2> QED
    BY <2>4, <2>7, <2>8, <2>9
<1> QED
  BY <1>4, <1>5, <1>6

LEMMA ConnectKeeps ==
  ASSUME AccessTimes, AccessInv, NEW s \in Sockets, Connect(s)
  PROVE  AccessInv'
<1> USE DEF AccessInv
<1>1. UNCHANGED <<access, effects, sessionCache, remembered, reads, hubClock, tickets, noticed>>
  BY DEF Connect
<1>2. /\ sockets \in [Sockets -> SocketRows] /\ sockets[s] \in SocketRows
      /\ hubClock \in 0 .. MaxHubClock /\ MaxReads \in Nat /\ MaxGeneration \in Nat
      /\ Closed \in SocketRows /\ Closed.phase = "idle" /\ Closed.started = 0
      /\ noticed.generation \in Nat
  BY DEF AccessRecords, AccessTypeOK, SocketRows, AccessTimes, Closed
<1> DEFINE stale == StaleSince(remembered.access, s) \/ StaleSince(remembered.ended, s)
           open == [sockets[s] EXCEPT !.phase = "open", !.started = 0]
<1>3. /\ sockets[s].phase = "verified"
      /\ sockets' = [sockets EXCEPT ![s] = IF stale THEN Closed ELSE open]
  BY DEF Connect
<1>4. EffectsInv' /\ CacheInv'
  BY <1>1 DEF EffectsInv, CacheInv
<1>5. CASE stale
  <2> HIDE DEF open, stale
  <2>1. sockets' = [sockets EXCEPT ![s] = Closed] /\ Closed.started <= hubClock
    BY <1>2, <1>3, <1>5
  <2>2. /\ Open' = Open /\ sockets' \in [Sockets -> SocketRows]
        /\ UpgradesInv' /\ ReadsInv' /\ NoSocketOutlivesRestriction'
    BY <1>1, <1>2, <1>3, <2>1, UpgradeStep
  <2>3. AccessRecords'
    BY <1>1, <2>2 DEF AccessRecords, AccessTypeOK, SocketRows
  <2> QED
    BY <1>4, <2>2, <2>3
<1>6. CASE ~stale
  <2>1. /\ open \in SocketRows /\ open.phase = "open" /\ open.started = 0
        /\ open.admitted = sockets[s].admitted /\ open.generation = sockets[s].generation
    BY <1>2 DEF SocketRows
  <2>2. ~noticed.ended /\ (open.admitted => open.generation >= noticed.generation)
    BY <1>2, <1>3, <1>6, <2>1 DEF UpgradesInv, SocketRows
  <2>3. sockets' = [sockets EXCEPT ![s] = open]
    BY <1>3, <1>6
  <2> HIDE DEF open
  <2>4. /\ sockets' \in [Sockets -> SocketRows] /\ sockets'[s] = open
        /\ \A t \in Sockets \ {s} : sockets'[t] = sockets[t]
    BY <1>2, <2>1, <2>3
  <2>5. Open' = Open \cup {s} /\ s \notin Open
    BY <1>3, <2>1, <2>4 DEF Open
  <2>6. \A r \in Readers : reads[r].over \subseteq Sockets \ {s}
    BY <2>5 DEF AccessRecords, AccessTypeOK, Open
  <2>7. AccessRecords'
    <3>1. reads \in [Readers -> [phase : {"idle", "sent", "read"}, ticket : 0 .. MaxReads,
                              generation : 0 .. MaxGeneration, admitted : BOOLEAN,
                              live : BOOLEAN, over : SUBSET (Open')]]
      BY <2>5 DEF AccessRecords, AccessTypeOK
    <3> QED
      BY <1>1, <2>4, <3>1 DEF AccessRecords, AccessTypeOK, SocketRows
  <2>8. UpgradesInv'
    BY <1>1, <1>2, <2>1, <2>4 DEF UpgradesInv, StaleSince
  <2>9. ReadsInv'
    BY <1>1, <2>4, <2>6 DEF ReadsInv
  <2>10. NoSocketOutlivesRestriction'
    BY <1>1, <2>2, <2>4, <2>5 DEF NoSocketOutlivesRestriction, Open
  <2> QED
    BY <1>4, <2>7, <2>8, <2>9, <2>10
<1> QED
  BY <1>5, <1>6

\* A read of the access state for some of the open sockets.
ReadsOver(open) ==
  [phase : {"idle", "sent", "read"}, ticket : 0 .. MaxReads, generation : 0 .. MaxGeneration,
   admitted : BOOLEAN, live : BOOLEAN, over : SUBSET open]

\* The facts of AccessRecords that nearly every step needs.
SocketTypes ==
  /\ sockets \in [Sockets -> SocketRows] /\ reads \in [Readers -> ReadsOver(Open)]
  /\ Closed \in SocketRows /\ Closed.phase = "idle" /\ Closed.started = 0
  /\ Closed.floor = 0 /\ ~Closed.admitted
  /\ \A open : NoRead \in ReadsOver(open)
  /\ NoRead.phase = "idle" /\ NoRead.ticket = 0
  /\ hubClock \in 0 .. MaxHubClock /\ tickets \in 0 .. MaxReads
  /\ MaxReads \in Nat /\ MaxGeneration \in Nat /\ MaxHubClock \in Nat
  /\ noticed \in [generation : 0 .. MaxGeneration, ended : BOOLEAN]
  /\ access \in [generation : 0 .. MaxGeneration, admitted : BOOLEAN, live : BOOLEAN]

LEMMA TypesOfSockets ==
  ASSUME AccessTimes, AccessInv
  PROVE  SocketTypes
BY DEF AccessInv, AccessRecords, AccessTypeOK, SocketRows, AccessTimes, Closed, NoRead, ReadsOver,
       SocketTypes

\* The sockets that a step closes are no longer open, the others are as before.
LEMMA OpenAfter ==
  ASSUME NEW gone \in SUBSET Open,
         \A s \in gone : sockets'[s] = Closed,
         \A s \in Sockets \ gone : sockets'[s].phase = sockets[s].phase
  PROVE  Open' = Open \ gone
BY DEF Open, Closed

(***************************************************************************)
(* Reads forget the sockets that a step closes; a read that starts or ends *)
(* has no result; and where more was notified, every socket that is still  *)
(* open takes no result of a read that was under way.                      *)
(***************************************************************************)
LEMMA ReadsAfter ==
  ASSUME AccessTimes, AccessInv, NEW gone \in SUBSET Open, Open' = Open \ gone,
         reads' = [r \in Readers |-> reads'[r]],
         sockets' \in [Sockets -> SocketRows],
         \A s \in Open \ gone : sockets'[s].floor >= sockets[s].floor,
         tickets' \in 0 .. MaxReads, tickets' >= tickets,
         \A r \in Readers :
           \/ reads'[r] = [reads[r] EXCEPT !.over = @ \ gone]
           \/ /\ reads'[r] \in ReadsOver(Open \ gone) /\ reads'[r].phase # "read"
              /\ reads'[r].ticket <= tickets',
         \/ noticed'.generation = noticed.generation
         \/ \A s \in Open \ gone : sockets'[s].floor > tickets
  PROVE  ReadsInv' /\ reads' \in [Readers -> ReadsOver(Open \ gone)]
<1>t. SocketTypes
  BY TypesOfSockets
<1> USE <1>t DEF SocketTypes
<1> DEFINE cut(r) == [reads[r] EXCEPT !.over = @ \ gone]
<1>1. ASSUME NEW r \in Readers
      PROVE  /\ cut(r) \in ReadsOver(Open \ gone)
             /\ cut(r).phase = reads[r].phase /\ cut(r).ticket = reads[r].ticket
             /\ cut(r).generation = reads[r].generation /\ cut(r).over = reads[r].over \ gone
             /\ reads[r].ticket <= tickets /\ reads[r].over \subseteq Open
  BY DEF ReadsOver, AccessInv, ReadsInv
<1>2. ASSUME NEW r \in Readers
      PROVE  reads'[r] \in ReadsOver(Open \ gone)
  BY <1>1
<1>3. reads' \in [Readers -> ReadsOver(Open \ gone)]
  BY <1>2
<1>4. ASSUME NEW r \in Readers
      PROVE  /\ reads'[r].ticket <= tickets'
             /\ reads'[r].phase = "read" =>
                  \A s \in reads'[r].over : reads'[r].ticket >= sockets'[s].floor =>
                                              reads'[r].generation >= noticed'.generation
  <2> SUFFICES ASSUME reads'[r] = cut(r)
               PROVE  /\ reads'[r].ticket <= tickets'
                      /\ reads'[r].phase = "read" =>
                           \A s \in reads'[r].over : reads'[r].ticket >= sockets'[s].floor =>
                                                       reads'[r].generation >= noticed'.generation
    OBVIOUS
  <2> HIDE DEF cut
  <2>1. reads[r].ticket \in Nat
    BY DEF ReadsOver
  <2>2. reads'[r].ticket <= tickets'
    BY <1>1, <2>1
  <2>3. ASSUME reads[r].phase = "read", NEW s \in reads[r].over \ gone,
               reads[r].ticket >= sockets'[s].floor
        PROVE  reads[r].generation >= noticed'.generation
    <3>1. s \in Open \ gone /\ s \in Sockets
      BY <1>1, <2>3 DEF Open
    <3>2. sockets[s].floor \in Nat /\ sockets'[s].floor \in Nat
      BY <3>1 DEF SocketRows
    <3>3. reads[r].ticket >= sockets[s].floor /\ reads[r].ticket <= tickets
      BY <1>1, <2>1, <2>3, <3>1, <3>2
    <3>4. noticed'.generation = noticed.generation
      BY <2>1, <2>3, <3>1, <3>2, <3>3
    <3> QED
      BY <2>3, <3>3, <3>4 DEF AccessInv, ReadsInv
  <2> QED
    BY <1>1, <2>2, <2>3
<1> QED
  BY <1>3, <1>4 DEF ReadsInv

LEMMA LeaveKeeps ==
  ASSUME AccessTimes, AccessInv, NEW s \in Sockets, Leave(s)
  PROVE  AccessInv'
<1> USE DEF AccessInv
<1>t. SocketTypes
  BY TypesOfSockets
<1> USE <1>t DEF SocketTypes
<1>1. UNCHANGED <<access, effects, sessionCache, remembered, hubClock, tickets, noticed>>
  BY DEF Leave
<1>2. /\ sockets[s].phase = "open" /\ sockets' = [sockets EXCEPT ![s] = Closed]
      /\ reads' = [r \in Readers |-> [reads[r] EXCEPT !.over = @ \ {s}]]
  BY DEF Leave, ReadsWithout
<1>3. /\ sockets' \in [Sockets -> SocketRows] /\ {s} \in SUBSET Open
      /\ \A t \in {s} : sockets'[t] = Closed
      /\ \A t \in Sockets \ {s} : sockets'[t] = sockets[t]
  BY <1>2 DEF Open
<1>4. Open' = Open \ {s}
  BY <1>3, OpenAfter
<1>5. ReadsInv' /\ reads' \in [Readers -> ReadsOver(Open \ {s})]
  <2>1. \A t \in Open \ {s} : sockets'[t].floor >= sockets[t].floor
    BY <1>2 DEF SocketRows, Open
  <2>2. \A r \in Readers : reads'[r] = [reads[r] EXCEPT !.over = @ \ {s}]
    BY <1>2
  <2>3. tickets' \in 0 .. MaxReads /\ tickets' >= tickets /\ noticed' = noticed
    BY <1>1
  <2>4. reads' = [r \in Readers |-> reads'[r]]
    BY <1>2
  <2> HIDE <1>t DEF AccessInv
  <2> QED
    BY <1>3, <1>4, <2>1, <2>2, <2>3, <2>4, ReadsAfter
<1>6. AccessRecords'
  BY <1>1, <1>3, <1>4, <1>5 DEF AccessRecords, AccessTypeOK, SocketRows, ReadsOver
<1>7. EffectsInv' /\ CacheInv'
  BY <1>1 DEF EffectsInv, CacheInv
<1>8. UpgradesInv'
  BY <1>1, <1>2 DEF UpgradesInv, StaleSince
<1>9. NoSocketOutlivesRestriction'
  BY <1>1, <1>2, <1>4 DEF NoSocketOutlivesRestriction, Open
<1> QED
  BY <1>5, <1>6, <1>7, <1>8, <1>9

LEMMA SweepsKeep ==
  ASSUME AccessTimes, AccessInv, NEW r \in Readers, Sweep(r) \/ ReadRows(r) \/ FailRead(r)
  PROVE  AccessInv'
<1> USE DEF AccessInv
<1>t. SocketTypes
  BY TypesOfSockets
<1> USE <1>t DEF SocketTypes
<1>1. UNCHANGED <<access, effects, sessionCache, remembered, sockets, hubClock, noticed>>
  BY DEF Sweep, ReadRows, FailRead
<1>2. Open' = Open \ {}
  BY <1>1 DEF Open
<1>3. EffectsInv' /\ CacheInv' /\ UpgradesInv' /\ NoSocketOutlivesRestriction'
  BY <1>1, <1>2 DEF EffectsInv, CacheInv, UpgradesInv, StaleSince, NoSocketOutlivesRestriction
<1>4. ASSUME reads' \in [Readers -> ReadsOver(Open)], tickets' \in 0 .. MaxReads
      PROVE  AccessRecords'
  BY <1>1, <1>2, <1>4 DEF AccessRecords, AccessTypeOK, ReadsOver
<1>5. ASSUME NEW row \in ReadsOver(Open), row.phase # "read", row.ticket <= tickets',
             reads' = [reads EXCEPT ![r] = row], tickets' \in 0 .. MaxReads, tickets' >= tickets
      PROVE  AccessInv'
  <2>1. \A q \in Readers : reads[q] = [reads[q] EXCEPT !.over = @ \ {}]
    BY DEF ReadsOver
  <2>2. \A s \in Open : sockets'[s].floor >= sockets[s].floor
    BY <1>1 DEF SocketRows, Open
  <2>3. ReadsInv' /\ reads' \in [Readers -> ReadsOver(Open \ {})]
    BY <1>1, <1>2, <1>5, <2>1, <2>2, ReadsAfter
  <2> QED
    BY <1>3, <1>4, <1>5, <2>3
<1>6. CASE Sweep(r)
  <2> DEFINE next == tickets + 1
             row == [NoRead EXCEPT !.phase = "sent", !.ticket = next, !.over = Open]
  <2>1. reads' = [reads EXCEPT ![r] = row] /\ tickets' = next /\ tickets < MaxReads
    BY <1>6 DEF Sweep, StartRead
  <2>2. next \in 0 .. MaxReads /\ next >= tickets
    BY <2>1
  <2> HIDE DEF next
  <2>3. row \in ReadsOver(Open) /\ row.phase = "sent" /\ row.ticket = next
    BY <2>2 DEF NoRead, ReadsOver
  <2>4. row.phase # "read" /\ row.ticket <= tickets'
    BY <2>1, <2>2, <2>3
  <2> HIDE <1>t DEF AccessInv, row
  <2> QED
    BY <1>5, <2>1, <2>2, <2>3, <2>4
<1>7. CASE FailRead(r)
  <2>1. reads' = [reads EXCEPT ![r] = NoRead] /\ tickets' = tickets
    BY <1>7 DEF FailRead
  <2>2. /\ NoRead \in ReadsOver(Open) /\ NoRead.phase # "read" /\ NoRead.ticket <= tickets'
        /\ tickets' \in 0 .. MaxReads /\ tickets' >= tickets
    BY <2>1
  <2> HIDE <1>t DEF AccessInv
  <2> QED
    BY <1>5, <2>1, <2>2
<1>8. CASE ReadRows(r)
  <2> DEFINE row == [reads[r] EXCEPT !.phase = "read", !.generation = access.generation,
                                     !.admitted = access.admitted, !.live = access.live]
  <2>1. reads' = [reads EXCEPT ![r] = row] /\ tickets' = tickets
    BY <1>8 DEF ReadRows
  <2>2. /\ row \in ReadsOver(Open) /\ row.ticket = reads[r].ticket
        /\ row.generation = access.generation
    <3>1. reads[r] \in ReadsOver(Open)
      OBVIOUS
    <3> HIDE <1>t
    <3>2. /\ access.generation \in 0 .. MaxGeneration /\ access.admitted \in BOOLEAN
          /\ access.live \in BOOLEAN
      BY <1>t
    <3> QED
      BY <3>1, <3>2 DEF ReadsOver
  <2>3. access.generation >= noticed.generation
    BY DEF EffectsInv
  <2> HIDE DEF row
  <2>4. ReadsInv'
    BY <1>1, <2>1, <2>2, <2>3 DEF ReadsInv
  <2> QED
    BY <1>3, <1>4, <2>1, <2>2, <2>4
<1> QED
  BY <1>6, <1>7, <1>8

(***************************************************************************)
(* What the result of a read leaves of an open socket: nothing, or an open *)
(* socket that is admitted under no older state than was notified, and     *)
(* under the one it was admitted under before.                             *)
(***************************************************************************)
LEMMA AppliedRecord ==
  ASSUME AccessTimes, AccessInv, NEW r \in Readers, reads[r].phase = "read",
         NEW s \in reads[r].over
  PROVE  LET row == ApplyAccess(s, reads[r])
         IN  \/ row = Closed
             \/ /\ row \in SocketRows /\ row.phase = "open"
                /\ row.started = sockets[s].started /\ row.floor = sockets[s].floor
                /\ row.admitted => row.generation >= noticed.generation
                /\ sockets[s].admitted /\ row.admitted =>
                     row.generation = sockets[s].generation
<1>t. SocketTypes
  BY TypesOfSockets
<1> DEFINE socket == sockets[s]
           read == reads[r]
           kept == [socket EXCEPT !.generation = read.generation, !.admitted = read.admitted,
                                  !.ticket = Larger(socket.ticket, read.ticket)]
           outOfDate == \/ read.generation < socket.generation
                        \/ read.generation = socket.generation /\ read.ticket < socket.ticket
           lost == socket.admitted /\ (~read.admitted \/ read.generation > socket.generation)
           row == ApplyAccess(s, reads[r])
<1>1. s \in Open /\ s \in Sockets
  BY <1>t DEF SocketTypes, ReadsOver, Open
<1>2. socket \in SocketRows /\ read \in ReadsOver(Open) /\ socket.phase = "open"
  BY <1>1, <1>t DEF SocketTypes, Open
<1>3. Larger(socket.ticket, read.ticket) \in 0 .. MaxReads
  BY <1>2 DEF SocketRows, ReadsOver, Larger
<1>4. /\ kept \in SocketRows /\ kept.phase = "open" /\ kept.started = socket.started
      /\ kept.floor = socket.floor /\ kept.generation = read.generation
      /\ kept.admitted = read.admitted
  BY <1>2, <1>3 DEF SocketRows, ReadsOver
<1>5. row = IF outOfDate THEN socket ELSE IF lost THEN Closed
            ELSE IF read.ticket < socket.floor THEN socket ELSE kept
  BY DEF ApplyAccess
<1>6. socket.admitted => socket.generation >= noticed.generation
  BY <1>1 DEF AccessInv, NoSocketOutlivesRestriction
<1>7. read.ticket >= socket.floor => read.generation >= noticed.generation
  BY DEF AccessInv, ReadsInv
<1>8. /\ socket.generation \in Nat /\ read.generation \in Nat
      /\ read.ticket \in Nat /\ socket.floor \in Nat
  BY <1>2 DEF SocketRows, ReadsOver
<1> HIDE DEF kept, row
<1>9. CASE outOfDate
  BY <1>2, <1>5, <1>6, <1>9 DEF row
<1>10. CASE ~outOfDate /\ lost
  BY <1>5, <1>10 DEF row
<1>11. CASE ~outOfDate /\ ~lost /\ read.ticket < socket.floor
  BY <1>2, <1>5, <1>6, <1>11 DEF row
<1>12. CASE ~outOfDate /\ ~lost /\ ~(read.ticket < socket.floor)
  <2>1. row = kept
    BY <1>5, <1>12
  <2>2. kept.admitted => kept.generation >= noticed.generation
    BY <1>4, <1>7, <1>8, <1>12
  <2>3. socket.admitted /\ kept.admitted => kept.generation = socket.generation
    BY <1>4, <1>8, <1>12
  <2> QED
    BY <1>4, <2>1, <2>2, <2>3 DEF row
<1> QED
  BY <1>9, <1>10, <1>11, <1>12

LEMMA ApplyReadKeeps ==
  ASSUME AccessTimes, AccessInv, NEW r \in Readers, ApplyRead(r)
  PROVE  AccessInv'
<1>t. SocketTypes
  BY TypesOfSockets
<1> DEFINE over == reads[r].over
           after == [s \in Sockets |-> IF s \notin over THEN sockets[s]
                                       ELSE IF reads[r].live THEN ApplyAccess(s, reads[r])
                                       ELSE Closed]
           gone == {s \in over : after[s] = Closed}
<1>1. /\ UNCHANGED <<access, effects, sessionCache, remembered, hubClock, tickets, noticed>>
      /\ reads[r].phase = "read" /\ sockets' = after
      /\ reads' = [ReadsWithout(gone) EXCEPT ![r] = NoRead]
  BY DEF ApplyRead
<1>2. over \subseteq Open /\ Open \subseteq Sockets
  BY <1>t DEF SocketTypes, ReadsOver, Open
<1>3. ASSUME NEW s \in over \ gone
      PROVE  /\ after[s] \in SocketRows /\ after[s].phase = "open"
             /\ after[s].started = sockets[s].started /\ after[s].floor = sockets[s].floor
             /\ after[s].admitted => after[s].generation >= noticed.generation
  <2>1. after[s] = ApplyAccess(s, reads[r]) /\ after[s] # Closed
    BY <1>2 DEF gone
  <2> QED
    BY <1>1, <2>1, AppliedRecord
<1>4. \A s \in Sockets \ over : after[s] = sockets[s]
  OBVIOUS
<1>5. /\ gone \in SUBSET Open /\ gone \subseteq over
      /\ \A s \in gone : after[s] = Closed
  BY <1>2
<1>6. \A s \in Sockets : after[s] \in SocketRows
  BY <1>3, <1>4, <1>5, <1>t DEF SocketTypes
<1>7. sockets' \in [Sockets -> SocketRows]
  BY <1>1, <1>6
<1> HIDE DEF after, over, gone
<1>8. Open' = Open \ gone
  <2>1. \A s \in Sockets \ gone : sockets'[s].phase = sockets[s].phase
    BY <1>1, <1>2, <1>3, <1>4 DEF Open
  <2> QED
    BY <1>1, <1>5, <2>1, OpenAfter
<1>9. ReadsInv' /\ reads' \in [Readers -> ReadsOver(Open \ gone)]
  <2>1. /\ \A q \in Readers \ {r} : reads'[q] = [reads[q] EXCEPT !.over = @ \ gone]
        /\ reads' = [q \in Readers |-> reads'[q]]
        /\ reads'[r] = NoRead
    BY <1>1 DEF ReadsWithout
  <2>2. /\ NoRead \in ReadsOver(Open \ gone) /\ NoRead.phase # "read" /\ NoRead.ticket <= tickets'
        /\ tickets' \in 0 .. MaxReads /\ tickets' >= tickets
    BY <1>1, <1>t DEF SocketTypes
  <2>3. \A s \in Open \ gone : sockets'[s].floor >= sockets[s].floor
    <3> SUFFICES ASSUME NEW s \in Open \ gone
                 PROVE  sockets'[s].floor >= sockets[s].floor
      OBVIOUS
    <3>1. sockets'[s].floor = sockets[s].floor /\ s \in Sockets
      BY <1>1, <1>2, <1>3, <1>4
    <3>2. sockets[s].floor \in Nat
      BY <1>t, <3>1 DEF SocketTypes, SocketRows
    <3> QED
      BY <3>1, <3>2
  <2>4. \A q \in Readers :
           \/ reads'[q] = [reads[q] EXCEPT !.over = @ \ gone]
           \/ /\ reads'[q] \in ReadsOver(Open \ gone) /\ reads'[q].phase # "read"
              /\ reads'[q].ticket <= tickets'
    BY <2>1, <2>2
  <2>5. noticed' = noticed
    BY <1>1
  <2> QED
    BY <1>5, <1>7, <1>8, <2>1, <2>2, <2>3, <2>4, <2>5, ReadsAfter
<1>10. AccessRecords'
  BY <1>1, <1>7, <1>8, <1>9 DEF AccessInv, AccessRecords, AccessTypeOK, SocketRows, ReadsOver
<1>11. EffectsInv' /\ CacheInv'
  BY <1>1 DEF AccessInv, EffectsInv, CacheInv
<1>12. UpgradesInv'
  <2> SUFFICES ASSUME NEW s \in Sockets
               PROVE  /\ sockets'[s].started <= hubClock
                      /\ sockets'[s].phase \in {"found", "verified"} => sockets'[s] = sockets[s]
    BY <1>1 DEF AccessInv, UpgradesInv, StaleSince
  <2>1. sockets[s].started <= hubClock
    BY DEF AccessInv, UpgradesInv
  <2>2. CASE s \in gone
    BY <1>1, <1>5, <1>t, <2>2 DEF SocketTypes
  <2>3. CASE s \in over \ gone
    BY <1>1, <1>3, <2>1, <2>3
  <2>4. CASE s \notin over
    BY <1>1, <1>4, <2>1, <2>4
  <2> QED
    BY <1>5, <2>2, <2>3, <2>4
<1>13. NoSocketOutlivesRestriction'
  BY <1>1, <1>2, <1>3, <1>4, <1>8 DEF AccessInv, NoSocketOutlivesRestriction
<1> QED
  BY <1>9, <1>10, <1>11, <1>12, <1>13 DEF AccessInv

\* A read that starts, or none: it has no result, and takes the next ticket.
LEMMA StartedRead ==
  ASSUME AccessTimes, AccessInv, NEW gone \in SUBSET Open, NEW over \in SUBSET (Open \ gone),
         \/ reads' = ReadsWithout(gone) /\ UNCHANGED tickets
         \/ \E r \in Readers : /\ tickets < MaxReads
                               /\ reads' = StartRead(ReadsWithout(gone), r, over)
                               /\ tickets' = tickets + 1
  PROVE  /\ tickets' \in 0 .. MaxReads /\ tickets' >= tickets
         /\ reads' = [r \in Readers |-> reads'[r]]
         /\ \A r \in Readers :
              \/ reads'[r] = [reads[r] EXCEPT !.over = @ \ gone]
              \/ /\ reads'[r] \in ReadsOver(Open \ gone) /\ reads'[r].phase # "read"
                 /\ reads'[r].ticket <= tickets'
<1>t. tickets \in 0 .. MaxReads /\ MaxReads \in Nat
      /\ NoRead \in ReadsOver(Open \ gone)
  BY TypesOfSockets DEF SocketTypes
<1>1. CASE reads' = ReadsWithout(gone) /\ UNCHANGED tickets
  BY <1>1, <1>t DEF ReadsWithout
<1>2. ASSUME NEW r \in Readers, tickets < MaxReads, tickets' = tickets + 1,
             reads' = StartRead(ReadsWithout(gone), r, over)
      PROVE  /\ tickets' \in 0 .. MaxReads /\ tickets' >= tickets
             /\ reads' = [q \in Readers |-> reads'[q]]
             /\ \A q \in Readers :
                  \/ reads'[q] = [reads[q] EXCEPT !.over = @ \ gone]
                  \/ /\ reads'[q] \in ReadsOver(Open \ gone) /\ reads'[q].phase # "read"
                     /\ reads'[q].ticket <= tickets'
  <2> DEFINE next == tickets + 1
             row == [NoRead EXCEPT !.phase = "sent", !.ticket = next, !.over = over]
  <2>1. next \in 0 .. MaxReads /\ next >= tickets /\ tickets' = next /\ next <= tickets'
    BY <1>2, <1>t
  <2> HIDE DEF next
  <2>2. row \in ReadsOver(Open \ gone) /\ row.phase = "sent" /\ row.ticket = next
    BY <2>1, <1>t DEF ReadsOver, NoRead
  <2>3. reads' = [ReadsWithout(gone) EXCEPT ![r] = row]
    BY <1>2 DEF StartRead, next
  <2> HIDE DEF row
  <2>4. /\ reads'[r] = row /\ reads' = [q \in Readers |-> reads'[q]]
        /\ \A q \in Readers \ {r} : reads'[q] = [reads[q] EXCEPT !.over = @ \ gone]
    BY <2>3 DEF ReadsWithout
  <2> QED
    BY <2>1, <2>2, <2>4
<1> QED
  BY <1>1, <1>2

(***************************************************************************)
(* A restriction closes the admitted sockets and raises the floor of the   *)
(* others; an upgrade under way finds it remembered.                       *)
(***************************************************************************)
LEMMA NotifyRestrictedKeeps ==
  ASSUME AccessTimes, AccessInv, NEW e \in effects, NotifyRestricted(e)
  PROVE  AccessInv'
<1>t. SocketTypes
  BY TypesOfSockets
<1> DEFINE gone == {s \in Open : sockets[s].admitted}
           kept == Open \ gone
           floored(s) == [sockets[s] EXCEPT !.floor = Larger(@, tickets + 1)]
           level == Larger(noticed.generation, e.generation)
<1>1. /\ e.kind = "restricted" /\ e.step = "notify"
      /\ sockets' = [s \in Sockets |-> IF s \in gone THEN Closed
                                       ELSE IF s \in kept THEN floored(s) ELSE sockets[s]]
      /\ \/ reads' = ReadsWithout(gone) /\ UNCHANGED tickets
         \/ \E r \in Readers : /\ tickets < MaxReads
                               /\ reads' = StartRead(ReadsWithout(gone), r, kept)
                               /\ tickets' = tickets + 1
      /\ remembered' = [remembered EXCEPT !.access = hubClock]
      /\ noticed' = [noticed EXCEPT !.generation = level]
      /\ effects' = effects \ {e}
      /\ UNCHANGED <<access, sessionCache, hubClock>>
  BY DEF NotifyRestricted
<1>2. /\ e.generation \in 0 .. MaxGeneration /\ e.generation <= access.generation
      /\ e.generation <= sessionCache.floor /\ sessionCache.floor \in 0 .. MaxGeneration
  BY <1>1 DEF AccessInv, AccessRecords, AccessTypeOK, EffectsInv
<1>3. /\ level \in 0 .. MaxGeneration /\ level <= access.generation
      /\ level <= sessionCache.floor
  BY <1>2, <1>t DEF SocketTypes, Larger, AccessInv, EffectsInv
<1>4. /\ noticed'.generation = level /\ noticed'.ended = noticed.ended
      /\ noticed' \in [generation : 0 .. MaxGeneration, ended : BOOLEAN]
      /\ remembered'.access = hubClock /\ remembered'.ended = remembered.ended
      /\ remembered' \in [access : (0 .. MaxHubClock) \cup {Never},
                          ended : (0 .. MaxHubClock) \cup {Never}]
  <2> HIDE DEF level
  <2> QED
    BY <1>1, <1>3, <1>t DEF SocketTypes, AccessInv, AccessRecords
<1>5. ASSUME NEW s \in kept
      PROVE  /\ s \in Sockets /\ floored(s) \in SocketRows /\ floored(s).phase = "open"
             /\ floored(s).floor > tickets /\ floored(s).floor >= sockets[s].floor
             /\ ~floored(s).admitted /\ floored(s).started = sockets[s].started
  <2>1. s \in Sockets /\ sockets[s] \in SocketRows /\ sockets[s].phase = "open"
        /\ ~sockets[s].admitted
    BY <1>t DEF SocketTypes, Open
  <2> DEFINE floor == Larger(sockets[s].floor, tickets + 1)
  <2>2. floor \in 0 .. MaxReads + 1 /\ floor > tickets /\ floor >= sockets[s].floor
    BY <2>1, <1>t DEF SocketTypes, SocketRows, Larger
  <2>3. floored(s) = [sockets[s] EXCEPT !.floor = floor]
    OBVIOUS
  <2> HIDE DEF floor, floored
  <2> QED
    BY <2>1, <2>2, <2>3 DEF SocketRows
<1>6. /\ \A s \in gone : sockets'[s] = Closed
      /\ \A s \in kept : sockets'[s] = floored(s)
      /\ \A s \in Sockets \ Open : sockets'[s] = sockets[s]
      /\ gone \in SUBSET Open /\ Open \subseteq Sockets
  BY <1>1 DEF Open
<1> HIDE DEF gone, floored, level
<1>7. sockets' \in [Sockets -> SocketRows]
  BY <1>1, <1>5, <1>t DEF SocketTypes
<1>8. Open' = Open \ gone
  <2>1. \A s \in Sockets \ gone : sockets'[s].phase = sockets[s].phase
    BY <1>5, <1>6 DEF Open
  <2> QED
    BY <1>6, <2>1, OpenAfter
<1>9. ReadsInv' /\ reads' \in [Readers -> ReadsOver(Open \ gone)] /\ tickets' \in 0 .. MaxReads
  <2>1. /\ tickets' \in 0 .. MaxReads /\ tickets' >= tickets
        /\ reads' = [r \in Readers |-> reads'[r]]
        /\ \A r \in Readers :
             \/ reads'[r] = [reads[r] EXCEPT !.over = @ \ gone]
             \/ /\ reads'[r] \in ReadsOver(Open \ gone) /\ reads'[r].phase # "read"
                /\ reads'[r].ticket <= tickets'
    BY <1>1, <1>6, StartedRead
  <2>2. /\ \A s \in Open \ gone : sockets'[s].floor >= sockets[s].floor
        /\ \A s \in Open \ gone : sockets'[s].floor > tickets
    BY <1>5, <1>6
  <2> QED
    BY <1>6, <1>7, <1>8, <2>1, <2>2, ReadsAfter
<1>10. AccessRecords'
  BY <1>1, <1>4, <1>7, <1>8, <1>9 DEF AccessInv, AccessRecords, AccessTypeOK, SocketRows, ReadsOver
<1>11. EffectsInv' /\ CacheInv'
  BY <1>1, <1>3, <1>4 DEF AccessInv, EffectsInv, CacheInv
<1>12. UpgradesInv'
  <2> SUFFICES ASSUME NEW s \in Sockets
               PROVE  /\ sockets'[s].started <= hubClock
                      /\ sockets'[s].phase \in {"found", "verified"} =>
                           /\ noticed.ended => StaleSince(remembered.ended, s)'
                           /\ StaleSince(hubClock, s)'
    BY <1>1, <1>4 DEF UpgradesInv, StaleSince
  <2>1. sockets[s].started <= hubClock
    BY DEF AccessInv, UpgradesInv
  <2>2. CASE s \in gone
    BY <1>6, <1>t, <2>2 DEF SocketTypes
  <2>3. CASE s \in kept
    BY <1>5, <1>6, <2>1, <2>3
  <2>4. CASE s \notin Open
    <3>1. sockets'[s] = sockets[s]
      BY <1>6, <2>4
    <3>2. sockets[s].phase \in {"found", "verified"} /\ noticed.ended =>
            StaleSince(remembered.ended, s)
      BY DEF AccessInv, UpgradesInv
    <3>3. /\ CacheTtl \in Nat /\ hubClock \in Nat /\ sockets[s].started \in Nat
          /\ hubClock # Never /\ hubClock >= sockets[s].started - CacheTtl
      BY <2>1, <1>t DEF SocketTypes, SocketRows, AccessTimes
    <3> QED
      BY <1>1, <1>4, <2>1, <3>1, <3>2, <3>3 DEF StaleSince
  <2> QED
    BY <2>2, <2>3, <2>4
<1>13. NoSocketOutlivesRestriction'
  BY <1>4, <1>5, <1>6, <1>8 DEF AccessInv, NoSocketOutlivesRestriction
<1> QED
  BY <1>9, <1>10, <1>11, <1>12, <1>13 DEF AccessInv

LEMMA NotifyChangedKeeps ==
  ASSUME AccessTimes, AccessInv, NEW e \in effects, NotifyChanged(e)
  PROVE  AccessInv'
<1>t. SocketTypes
  BY TypesOfSockets
<1>1. /\ UNCHANGED <<access, sessionCache, remembered, sockets, hubClock, noticed>>
      /\ effects' = effects \ {e}
      /\ \/ UNCHANGED <<reads, tickets>>
         \/ \E r \in Readers : /\ tickets < MaxReads /\ reads' = StartRead(reads, r, Open)
                               /\ tickets' = tickets + 1
  BY DEF NotifyChanged
<1>2. ReadsWithout({}) = reads
  BY <1>t DEF SocketTypes, ReadsOver, ReadsWithout
<1>3. Open' = Open \ {} /\ {} \in SUBSET Open /\ Open \in SUBSET (Open \ {})
  BY <1>1 DEF Open
<1>4. /\ tickets' \in 0 .. MaxReads /\ tickets' >= tickets
      /\ reads' = [r \in Readers |-> reads'[r]]
      /\ \A r \in Readers :
           \/ reads'[r] = [reads[r] EXCEPT !.over = @ \ {}]
           \/ /\ reads'[r] \in ReadsOver(Open \ {}) /\ reads'[r].phase # "read"
              /\ reads'[r].ticket <= tickets'
  BY <1>1, <1>2, <1>3, StartedRead
<1>5. ReadsInv' /\ reads' \in [Readers -> ReadsOver(Open \ {})]
  <2>1. \A s \in Open \ {} : sockets'[s].floor >= sockets[s].floor
    BY <1>1, <1>t DEF SocketTypes, SocketRows, Open
  <2>2. sockets' \in [Sockets -> SocketRows] /\ noticed' = noticed
    BY <1>1, <1>t DEF SocketTypes
  <2> QED
    BY <1>3, <1>4, <2>1, <2>2, ReadsAfter
<1>6. AccessRecords'
  BY <1>1, <1>3, <1>4, <1>5 DEF AccessInv, AccessRecords, AccessTypeOK, ReadsOver
<1>7. EffectsInv' /\ CacheInv' /\ UpgradesInv' /\ NoSocketOutlivesRestriction'
  BY <1>1, <1>3 DEF AccessInv, EffectsInv, CacheInv, UpgradesInv, StaleSince,
                    NoSocketOutlivesRestriction
<1> QED
  BY <1>5, <1>6, <1>7 DEF AccessInv

LEMMA NotifyEndedKeeps ==
  ASSUME AccessTimes, AccessInv, NEW e \in effects, NotifyEnded(e)
  PROVE  AccessInv'
<1>t. SocketTypes
  BY TypesOfSockets
<1>1. /\ UNCHANGED <<access, sessionCache, hubClock, tickets>>
      /\ effects' = effects \ {e} /\ e.kind = "ended" /\ e.step = "notify"
      /\ remembered' = [remembered EXCEPT !.ended = hubClock]
      /\ noticed' = [noticed EXCEPT !.ended = TRUE]
      /\ sockets' = [s \in Sockets |-> IF s \in Open THEN Closed ELSE sockets[s]]
      /\ reads' = ReadsWithout(Open)
  BY DEF NotifyEnded
<1>2. /\ noticed'.generation = noticed.generation /\ noticed'.ended
      /\ noticed' \in [generation : 0 .. MaxGeneration, ended : BOOLEAN]
      /\ remembered'.access = remembered.access /\ remembered'.ended = hubClock
      /\ remembered' \in [access : (0 .. MaxHubClock) \cup {Never},
                          ended : (0 .. MaxHubClock) \cup {Never}]
  BY <1>1, <1>t DEF SocketTypes, AccessInv, AccessRecords
<1>3. /\ sockets' \in [Sockets -> SocketRows] /\ Open \in SUBSET Open
      /\ \A s \in Open : sockets'[s] = Closed
      /\ \A s \in Sockets \ Open : sockets'[s] = sockets[s]
  BY <1>1, <1>t DEF SocketTypes, Open
<1>4. Open' = Open \ Open
  BY <1>3, OpenAfter
<1>5. /\ tickets' \in 0 .. MaxReads /\ tickets' >= tickets
      /\ reads' = [r \in Readers |-> reads'[r]]
      /\ \A r \in Readers :
           \/ reads'[r] = [reads[r] EXCEPT !.over = @ \ Open]
           \/ /\ reads'[r] \in ReadsOver(Open \ Open) /\ reads'[r].phase # "read"
              /\ reads'[r].ticket <= tickets'
  <2>1. {} \in SUBSET (Open \ Open)
    OBVIOUS
  <2> QED
    BY <1>1, <2>1, StartedRead
<1>6. ReadsInv' /\ reads' \in [Readers -> ReadsOver(Open \ Open)]
  <2>1. \A s \in Open \ Open : sockets'[s].floor >= sockets[s].floor
    OBVIOUS
  <2> QED
    BY <1>2, <1>3, <1>4, <1>5, <2>1, ReadsAfter
<1>7. AccessRecords'
  BY <1>1, <1>2, <1>3, <1>4, <1>5, <1>6
     DEF AccessInv, AccessRecords, AccessTypeOK, SocketRows, ReadsOver
<1>8. EffectsInv' /\ CacheInv'
  BY <1>1, <1>2 DEF AccessInv, EffectsInv, CacheInv
<1>9. UpgradesInv'
  <2> SUFFICES ASSUME NEW s \in Sockets
               PROVE  /\ sockets'[s].started <= hubClock
                      /\ sockets'[s].phase \in {"found", "verified"} =>
                           /\ StaleSince(hubClock, s)'
                           /\ sockets'[s].admitted /\ sockets'[s].generation < noticed.generation
                                => StaleSince(remembered.access, s)'
    BY <1>1, <1>2 DEF UpgradesInv, StaleSince
  <2>1. sockets[s].started <= hubClock
    BY DEF AccessInv, UpgradesInv
  <2>2. CASE s \in Open
    BY <1>3, <1>t, <2>2 DEF SocketTypes
  <2>3. CASE s \notin Open
    <3>1. sockets'[s] = sockets[s]
      BY <1>3, <2>3
    <3>2. /\ CacheTtl \in Nat /\ hubClock \in Nat /\ sockets[s].started \in Nat
          /\ hubClock # Never /\ hubClock >= sockets[s].started - CacheTtl
      BY <2>1, <1>t DEF SocketTypes, SocketRows, AccessTimes
    <3> QED
      BY <1>1, <1>2, <2>1, <3>1, <3>2 DEF AccessInv, UpgradesInv, StaleSince
  <2> QED
    BY <2>2, <2>3
<1>10. NoSocketOutlivesRestriction'
  BY <1>4 DEF NoSocketOutlivesRestriction
<1> QED
  BY <1>6, <1>7, <1>8, <1>9, <1>10 DEF AccessInv

(***************************************************************************)
(* Time drops what is remembered after RememberFor, which no upgrade that  *)
(* it concerns can wait for.                                               *)
(***************************************************************************)
LEMMA TickKeeps ==
  ASSUME AccessTimes, AccessInv, AccessTick
  PROVE  AccessInv'
<1>t. SocketTypes
  BY TypesOfSockets
<1>1. /\ UNCHANGED <<access, effects, sockets, reads, tickets, noticed>>
      /\ hubClock < MaxHubClock /\ hubClock' = hubClock + 1
      /\ remembered' = [access |-> Recent(remembered.access), ended |-> Recent(remembered.ended)]
      /\ \E entry \in {sessionCache.entry, Never} :
           sessionCache' = [sessionCache EXCEPT !.entry = entry]
      /\ \A s \in Sockets : sockets[s].phase \in {"found", "verified"} =>
                              hubClock - sockets[s].started < Patience
  BY DEF AccessTick
<1>2. /\ hubClock' \in 0 .. MaxHubClock /\ hubClock' > hubClock
      /\ Open' = Open
  BY <1>1, <1>t DEF SocketTypes, Open
<1>3. /\ sessionCache'.entry \in {sessionCache.entry, Never}
      /\ sessionCache'.floor = sessionCache.floor /\ sessionCache'.ended = sessionCache.ended
      /\ sessionCache' \in [entry : {sessionCache'.entry}, floor : 0 .. MaxGeneration,
                            ended : BOOLEAN]
  BY <1>1 DEF AccessInv, AccessRecords
<1>4. /\ remembered'.access = Recent(remembered.access)
      /\ remembered'.ended = Recent(remembered.ended)
      /\ remembered' \in [access : (0 .. MaxHubClock) \cup {Never},
                          ended : (0 .. MaxHubClock) \cup {Never}]
  BY <1>1 DEF AccessInv, AccessRecords, Recent
<1>5. AccessRecords'
  BY <1>1, <1>2, <1>3, <1>4 DEF AccessInv, AccessRecords, AccessTypeOK
<1>6. EffectsInv' /\ CacheInv' /\ ReadsInv' /\ NoSocketOutlivesRestriction'
  BY <1>1, <1>2, <1>3
     DEF AccessInv, EffectsInv, CacheInv, ReadsInv, NoSocketOutlivesRestriction
<1>7. UpgradesInv'
  <2>1. ASSUME NEW s \in Sockets, sockets[s].phase \in {"found", "verified"},
               NEW at \in (0 .. MaxHubClock) \cup {Never}, StaleSince(at, s)
        PROVE  Recent(at) # Never /\ Recent(at) >= sockets[s].started - CacheTtl
    <3>1. /\ at \in Nat /\ hubClock \in Nat /\ sockets[s].started \in Nat /\ CacheTtl \in Nat
          /\ Patience \in Nat /\ RememberFor \in Nat /\ at # Never
          /\ at >= sockets[s].started - CacheTtl
          /\ Patience + CacheTtl <= RememberFor
          /\ hubClock - sockets[s].started < Patience
      BY <1>1, <1>t, <2>1 DEF SocketTypes, SocketRows, AccessTimes, StaleSince
    <3>2. hubClock + 1 - at <= RememberFor
      BY <3>1
    <3> QED
      BY <3>1, <3>2 DEF Recent
  <2> SUFFICES ASSUME NEW s \in Sockets
               PROVE  /\ sockets[s].started <= hubClock'
                      /\ sockets[s].phase \in {"found", "verified"} =>
                           /\ noticed.ended =>
                                /\ Recent(remembered.ended) # Never
                                /\ Recent(remembered.ended) >= sockets[s].started - CacheTtl
                           /\ sockets[s].admitted /\ sockets[s].generation < noticed.generation =>
                                /\ Recent(remembered.access) # Never
                                /\ Recent(remembered.access) >= sockets[s].started - CacheTtl
    BY <1>1, <1>4 DEF UpgradesInv, StaleSince
  <2>2. sockets[s].started <= hubClock /\ sockets[s].started \in Nat
    BY <1>t DEF SocketTypes, SocketRows, AccessInv, UpgradesInv
  <2>3. sockets[s].started <= hubClock'
    BY <1>1, <1>t, <2>2 DEF SocketTypes
  <2>4. /\ remembered.access \in (0 .. MaxHubClock) \cup {Never}
        /\ remembered.ended \in (0 .. MaxHubClock) \cup {Never}
    BY DEF AccessInv, AccessRecords
  <2>5. sockets[s].phase \in {"found", "verified"} =>
          /\ noticed.ended => StaleSince(remembered.ended, s)
          /\ sockets[s].admitted /\ sockets[s].generation < noticed.generation =>
               StaleSince(remembered.access, s)
    BY DEF AccessInv, UpgradesInv
  <2> QED
    BY <2>1, <2>3, <2>4, <2>5
<1> QED
  BY <1>5, <1>6, <1>7 DEF AccessInv

LEMMA AccessInitInv ==
  ASSUME AccessTimes, AccessInit
  PROVE  AccessInv
<1>1. PICK may \in BOOLEAN : access = [generation |-> 0, admitted |-> may, live |-> TRUE]
  BY DEF AccessInit
<1>2. /\ {0} \subseteq 0 .. MaxHubClock /\ {0} \subseteq 0 .. MaxReads
      /\ {0} \subseteq 0 .. MaxGeneration /\ 0 \in 0 .. (MaxReads + 1)
  BY DEF AccessTimes
<1>3. Open = {}
  BY DEF AccessInit, Open, Closed
<1>4. AccessRecords
  BY <1>1, <1>2 DEF AccessInit, AccessRecords, AccessTypeOK, Closed, NoRead
<1>5. EffectsInv /\ CacheInv
  BY <1>1 DEF AccessInit, EffectsInv, CacheInv
<1>6. UpgradesInv /\ ReadsInv
  BY DEF AccessInit, UpgradesInv, ReadsInv, Closed, NoRead
<1>7. NoSocketOutlivesRestriction
  BY <1>3 DEF NoSocketOutlivesRestriction
<1> QED
  BY <1>4, <1>5, <1>6, <1>7 DEF AccessInv

LEMMA AccessStepKeeps ==
  ASSUME AccessTimes, AccessInv, [AccessNext]_accessVars
  PROVE  AccessInv'
<1>1. CASE ChangeAccess \/ RevokeSession
  BY <1>1, CommitsKeep
<1>2. CASE AccessTick
  BY <1>2, TickKeeps
<1>3. ASSUME NEW e \in effects, LoseEffect(e) \/ Evict(e)
      PROVE  AccessInv'
  BY <1>3, EvictionsKeep
<1>4. ASSUME NEW e \in effects, NotifyRestricted(e) \/ NotifyChanged(e) \/ NotifyEnded(e)
      PROVE  AccessInv'
  BY <1>4, NotifyRestrictedKeeps, NotifyChangedKeeps, NotifyEndedKeeps
<1>5. ASSUME NEW s \in Sockets, BeginUpgrade(s) \/ LookUp(s) \/ Verify(s)
      PROVE  AccessInv'
  BY <1>5, UpgradesKeep
<1>6. ASSUME NEW s \in Sockets, Connect(s) \/ Leave(s)
      PROVE  AccessInv'
  BY <1>6, ConnectKeeps, LeaveKeeps
<1>7. ASSUME NEW r \in Readers, Sweep(r) \/ ReadRows(r) \/ FailRead(r)
      PROVE  AccessInv'
  BY <1>7, SweepsKeep
<1>8. ASSUME NEW r \in Readers, ApplyRead(r)
      PROVE  AccessInv'
  BY <1>8, ApplyReadKeeps
<1>9. CASE UNCHANGED accessVars
  BY <1>9 DEF accessVars, AccessInv, AccessRecords, AccessTypeOK, Open, EffectsInv, CacheInv,
              UpgradesInv, StaleSince, ReadsInv, NoSocketOutlivesRestriction
<1> QED
  BY <1>1, <1>2, <1>3, <1>4, <1>5, <1>6, <1>7, <1>8, <1>9 DEF AccessNext

-----------------------------------------------------------------------------
(* Sockets: the theorems. *)

(***************************************************************************)
(* The invariant holds through every interleaving of commits, effects that *)
(* run or are lost, upgrades, sweeps and the clock.                        *)
(***************************************************************************)
THEOREM AccessInvAlways == AccessSpec => []AccessInv
<1>1. AccessInit => AccessInv
  BY AccessInitInv, AccessTimes
<1>2. AccessInv /\ [AccessNext]_accessVars => AccessInv'
  BY AccessStepKeeps, AccessTimes
<1> QED
  BY <1>1, <1>2, PTL DEF AccessSpec

(***************************************************************************)
(* Once a process was told of a restriction or of the end of a session, no *)
(* socket survives it: whatever upgrade was being verified, whatever the   *)
(* cache held, whichever reads were under way (topic-hub.ts staleUpgrade,  *)
(* accessReadFloor).                                                       *)
(***************************************************************************)
THEOREM SocketsEndWithAccess == AccessSpec => []NoSocketOutlivesRestriction
<1>1. AccessInv => NoSocketOutlivesRestriction
  BY DEF AccessInv
<1> QED
  BY <1>1, AccessInvAlways, PTL

(***************************************************************************)
(* No step moves an admitted socket from one access generation to another: *)
(* the only one that could, the result of a read, closes it instead.       *)
(***************************************************************************)
LEMMA OneGenerationStep ==
  ASSUME AccessTimes, AccessInv, AccessNext, NEW s \in Sockets,
         s \in Open, sockets[s].admitted, sockets'[s].phase = "open", sockets'[s].admitted
  PROVE  sockets'[s].generation = sockets[s].generation
<1>t. SocketTypes
  BY TypesOfSockets
<1>1. sockets[s].phase = "open" /\ sockets \in [Sockets -> SocketRows]
  BY <1>t DEF SocketTypes, Open
<1>2. CASE ChangeAccess \/ RevokeSession \/ AccessTick
  BY <1>2 DEF ChangeAccess, RevokeSession, AccessTick
<1>3. ASSUME NEW e \in effects, LoseEffect(e) \/ Evict(e) \/ NotifyChanged(e)
      PROVE  sockets' = sockets
  BY <1>3 DEF LoseEffect, Evict, NotifyChanged
<1>4. ASSUME NEW e \in effects, NotifyRestricted(e) \/ NotifyEnded(e)
      PROVE  FALSE
  BY <1>4, <1>t DEF SocketTypes, NotifyRestricted, NotifyEnded
<1>5. ASSUME NEW t \in Sockets, BeginUpgrade(t) \/ LookUp(t) \/ Verify(t) \/ Connect(t) \/ Leave(t)
      PROVE  sockets'[s] = sockets[s]
  <2>1. CASE t = s
    BY <1>1, <1>5, <1>t, <2>1 DEF SocketTypes, BeginUpgrade, LookUp, Verify, Connect, Leave
  <2>2. CASE t # s
    BY <1>1, <1>5, <2>2 DEF BeginUpgrade, LookUp, Verify, Connect, Leave
  <2> QED
    BY <2>1, <2>2
<1>6. ASSUME NEW r \in Readers, Sweep(r) \/ ReadRows(r) \/ FailRead(r)
      PROVE  sockets' = sockets
  BY <1>6 DEF Sweep, ReadRows, FailRead
<1>7. ASSUME NEW r \in Readers, ApplyRead(r)
      PROVE  sockets'[s].generation = sockets[s].generation
  <2>1. /\ reads[r].phase = "read"
        /\ sockets'[s] = IF s \notin reads[r].over THEN sockets[s]
                         ELSE IF reads[r].live THEN ApplyAccess(s, reads[r]) ELSE Closed
    BY <1>7 DEF ApplyRead
  <2>2. sockets'[s] # Closed
    BY <1>t DEF SocketTypes
  <2>3. CASE s \notin reads[r].over
    BY <2>1, <2>3
  <2>4. CASE s \in reads[r].over
    <3>1. sockets'[s] = ApplyAccess(s, reads[r])
      BY <2>1, <2>2, <2>4
    <3> QED
      BY <2>1, <2>2, <2>4, <3>1, AppliedRecord
  <2> QED
    BY <2>3, <2>4
<1> QED
  BY <1>2, <1>3, <1>4, <1>5, <1>6, <1>7 DEF AccessNext

(***************************************************************************)
(* A socket that stays open and admitted stays so under one generation.    *)
(***************************************************************************)
THEOREM AdmittedSocketsKeepGeneration == AccessSpec => AdmittedUnderOneGeneration
<1>1. AccessInv /\ [AccessNext]_accessVars
        => [\A s \in Sockets :
              (/\ s \in Open /\ sockets[s].admitted
               /\ sockets'[s].phase = "open" /\ sockets'[s].admitted)
              => sockets'[s].generation = sockets[s].generation]_accessVars
  BY OneGenerationStep, AccessTimes
<1> QED
  BY <1>1, AccessInvAlways, PTL DEF AccessSpec, AdmittedUnderOneGeneration

-----------------------------------------------------------------------------
(* Delivery: the inductive invariant. *)

FrameRows == [kind : {"event", "snapshot", "resync"}, seq : Nat, data : SUBSET Nat]
EntryRows == [seq : Nat, change : Nat]
SubscriptionRows == [phase : {"none", "attached", "snapshot", "live"}, pending : Seq(FrameRows),
                     overflowed : BOOLEAN, seq : Nat, data : SUBSET Nat]
ClientRows == [cursor : Nat \cup {NoSeq}, settled : BOOLEAN, applied : SUBSET Nat,
               asked : BOOLEAN, drops : Nat]

\* What every client is to know, and where the sequence numbers of the topic start.
Due == 1 .. committed \ unpublished
Start == topicClock * Rate

\* What a client has is a snapshot it got, if it needs none; it precedes the wire.
Snapshot(seq, data) == [kind |-> "snapshot", seq |-> seq, data |-> data]
Held(client) == IF client.settled THEN Snapshot(client.cursor, client.applied) ELSE Resync
At(held, wire, i) == IF i = 0 THEN held ELSE wire[i]

\* The frames after place j, up to place i, are events.
Straight(held, wire, j, i) == \A m \in j + 1 .. i : At(held, wire, m).kind = "event"

\* The event at a position of the topic, whose log gives the change of each.
LogFrame(log, seq) == EventFrame([seq |-> seq, change |-> log[seq]])

(***************************************************************************)
(* A snapshot, if it is of this life of the topic at all, lacks only       *)
(* changes that were published after it.                                   *)
(***************************************************************************)
Covers(frame, log, due, start, top) ==
  \/ frame.seq < start
  \/ \A p \in due : p \in frame.data \/ \E s \in frame.seq + 1 .. top : log[s] = p

FrameOK(frame, log, due, start, top) ==
  /\ frame.seq <= top
  /\ frame.kind = "event" => frame.seq > start /\ frame = LogFrame(log, frame.seq)
  /\ frame.kind = "snapshot" => Covers(frame, log, due, start, top)
  /\ frame.kind = "resync" => frame = Resync

\* Snapshots are newer than what precedes them.
SnapshotsRise(held, wire) ==
  \A i \in 1 .. Len(wire) : wire[i].kind = "snapshot" =>
    \A j \in 0 .. i - 1 : At(held, wire, j).seq <= wire[i].seq

\* The events after a snapshot leave no position out.
NoGaps(held, wire) ==
  \A j \in 0 .. Len(wire) : \A i \in j + 1 .. Len(wire) :
    At(held, wire, j).kind = "snapshot" /\ Straight(held, wire, j, i) =>
      \A s \in At(held, wire, j).seq + 1 .. At(held, wire, i).seq :
        \E m \in j + 1 .. i : At(held, wire, m).seq = s

StreamOK(held, wire, log, due, start, top) ==
  /\ held \in FrameRows /\ held.kind # "event" /\ wire \in Seq(FrameRows)
  /\ \A i \in 0 .. Len(wire) : FrameOK(At(held, wire, i), log, due, start, top)
  /\ SnapshotsRise(held, wire) /\ NoGaps(held, wire)

\* The events after a snapshot go up to position `to`.
Reaches(held, wire, to) ==
  \A j \in 0 .. Len(wire) :
    At(held, wire, j).kind = "snapshot" /\ Straight(held, wire, j, Len(wire)) =>
      \E m \in j .. Len(wire) : At(held, wire, m).seq = to

\* There is a frame that is not an event.
Breaks(wire) == \E i \in 1 .. Len(wire) : wire[i].kind # "event"

\* The frames of `run` are the events after position `from`, up to `top`.
Run(run, log, from, top) ==
  Len(run) = top - from /\ \A i \in 1 .. Len(run) : run[i] = LogFrame(log, from + i)

(***************************************************************************)
(* A subscription that is live is sent everything; one whose snapshot is   *)
(* being read keeps what is published meanwhile.                           *)
(***************************************************************************)
SubscriptionOK(sub, held, wire, asked, log, due, start, top) ==
  /\ sub.phase \in {"none", "live"} => sub.pending = <<>> /\ ~ sub.overflowed
  /\ sub.phase = "none" => wire = <<>>
  /\ sub.phase \in {"attached", "snapshot"} =>
       /\ sub.seq \in start .. top
       /\ \A i \in 0 .. Len(wire) : At(held, wire, i).seq <= sub.seq
       /\ ~ sub.overflowed => Run(sub.pending, log, sub.seq, top)
  /\ sub.phase = "snapshot" => Covers(Snapshot(sub.seq, sub.data), log, due, start, top)
  /\ sub.phase = "live" =>
       /\ Reaches(held, wire, top)
       /\ asked \/ held.kind = "snapshot" \/ Breaks(wire)

-----------------------------------------------------------------------------
(* Delivery: frames on the wire. *)

LEMMA Joined ==
  ASSUME NEW S, NEW first \in Seq(S), NEW second \in Seq(S)
  PROVE  /\ first \o second \in Seq(S) /\ Len(first \o second) = Len(first) + Len(second)
         /\ \A i \in 1 .. Len(first) : (first \o second)[i] = first[i]
         /\ \A i \in 1 .. Len(second) : (first \o second)[Len(first) + i] = second[i]
OBVIOUS

LEMMA FrameTypes ==
  ASSUME NEW held, NEW wire, NEW log, NEW due, NEW start, NEW top,
         StreamOK(held, wire, log, due, start, top)
  PROVE  /\ Len(wire) \in Nat
         /\ \A i \in 0 .. Len(wire) : At(held, wire, i) \in FrameRows
              /\ At(held, wire, i).seq \in Nat
<1>1. \A i \in 0 .. Len(wire) : At(held, wire, i) \in FrameRows
  BY DEF StreamOK, At
<1> QED
  BY <1>1 DEF FrameRows, StreamOK

(***************************************************************************)
(* A snapshot or a demand to resubscribe is put on the wire.               *)
(***************************************************************************)
LEMMA BreakFollows ==
  ASSUME NEW held, NEW wire, NEW log, NEW due, NEW start \in Nat, NEW top \in Nat,
         StreamOK(held, wire, log, due, start, top),
         NEW frame \in FrameRows, frame.kind # "event", FrameOK(frame, log, due, start, top),
         frame.kind = "snapshot" => \A i \in 0 .. Len(wire) : At(held, wire, i).seq <= frame.seq
  PROVE  StreamOK(held, wire \o <<frame>>, log, due, start, top)
<1> DEFINE n == Len(wire)
           after == wire \o <<frame>>
<1>1. n \in Nat /\ \A i \in 0 .. n : At(held, wire, i) \in FrameRows
        /\ At(held, wire, i).seq \in Nat
  BY FrameTypes
<1>2. after \in Seq(FrameRows) /\ Len(after) = n + 1 /\ after[n + 1] = frame
      /\ \A i \in 1 .. n : after[i] = wire[i]
  <2>1. wire \in Seq(FrameRows) /\ <<frame>> \in Seq(FrameRows) /\ Len(<<frame>>) = 1
    BY DEF StreamOK
  <2>2. /\ after \in Seq(FrameRows) /\ Len(after) = n + Len(<<frame>>)
        /\ \A i \in 1 .. n : after[i] = wire[i]
        /\ \A i \in 1 .. Len(<<frame>>) : after[n + i] = <<frame>>[i]
    BY <2>1, Joined
  <2> QED
    BY <2>1, <2>2
<1> HIDE DEF after
<1>3. At(held, after, n + 1) = frame /\ \A i \in 0 .. n : At(held, after, i) = At(held, wire, i)
  BY <1>1, <1>2 DEF At
<1>4. \A i \in 0 .. n + 1 : FrameOK(At(held, after, i), log, due, start, top)
  BY <1>1, <1>3 DEF StreamOK
<1>5. SnapshotsRise(held, after)
  <2> SUFFICES ASSUME NEW i \in 1 .. n + 1, after[i].kind = "snapshot", NEW j \in 0 .. i - 1
               PROVE  At(held, after, j).seq <= after[i].seq
    BY <1>2 DEF SnapshotsRise
  <2>1. j \in 0 .. n
    BY <1>1
  <2>2. CASE i = n + 1
    BY <1>2, <1>3, <2>1, <2>2
  <2>3. CASE i \in 1 .. n
    BY <1>1, <1>2, <1>3, <2>1, <2>3 DEF StreamOK, SnapshotsRise
  <2> QED
    BY <1>1, <2>2, <2>3
<1>6. NoGaps(held, after)
  <2> SUFFICES ASSUME NEW j \in 0 .. n + 1, NEW i \in j + 1 .. n + 1,
                      At(held, after, j).kind = "snapshot", Straight(held, after, j, i),
                      NEW s \in At(held, after, j).seq + 1 .. At(held, after, i).seq
               PROVE  \E m \in j + 1 .. i : At(held, after, m).seq = s
    BY <1>2 DEF NoGaps
  <2>1. i # n + 1
    BY <1>1, <1>3 DEF Straight
  <2>2. j \in 0 .. n /\ i \in j + 1 .. n
    BY SMTT(30), <1>1, <2>1
  <2>3. Straight(held, wire, j, i)
    BY <1>1, <1>3, <2>2 DEF Straight
  <2>4. PICK m \in j + 1 .. i : At(held, wire, m).seq = s
    BY <1>3, <2>2, <2>3 DEF StreamOK, NoGaps
  <2> QED
    BY <1>1, <1>3, <2>2, <2>4
<1>7. \A i \in 0 .. Len(after) : FrameOK(At(held, after, i), log, due, start, top)
  BY <1>2, <1>4
<1>8. held \in FrameRows /\ held.kind # "event"
  BY DEF StreamOK
<1> QED
  BY ONLY <1>2, <1>5, <1>6, <1>7, <1>8 DEF StreamOK, after

(***************************************************************************)
(* Events are put on the wire: those after a position that the last        *)
(* snapshot, or what follows it, has reached.                              *)
(***************************************************************************)
LEMMA RunFollows ==
  ASSUME NEW held, NEW wire, NEW log, NEW due, NEW start \in Nat, NEW top \in Nat,
         StreamOK(held, wire, log, due, start, top), log \in [start + 1 .. top -> Nat],
         NEW from \in start .. top, NEW run \in Seq(FrameRows), Run(run, log, from, top),
         \A j \in 0 .. Len(wire) :
           At(held, wire, j).kind = "snapshot" /\ Straight(held, wire, j, Len(wire)) =>
             \E m \in j .. Len(wire) : At(held, wire, m).seq = from \/ At(held, wire, j).seq >= from
  PROVE  StreamOK(held, wire \o run, log, due, start, top) /\ Reaches(held, wire \o run, top)
<1> DEFINE n == Len(wire)
           k == Len(run)
           after == wire \o run
<1>1. n \in Nat /\ \A i \in 0 .. n : At(held, wire, i) \in FrameRows
        /\ At(held, wire, i).seq \in Nat
  BY FrameTypes
<1>2. /\ after \in Seq(FrameRows) /\ Len(after) = n + k /\ k \in Nat
      /\ \A i \in 1 .. n : after[i] = wire[i]
      /\ \A i \in 1 .. k : after[n + i] = LogFrame(log, from + i)
  <2>1. wire \in Seq(FrameRows)
    BY DEF StreamOK
  <2>2. /\ after \in Seq(FrameRows) /\ Len(after) = n + k
        /\ \A i \in 1 .. n : after[i] = wire[i]
        /\ \A i \in 1 .. k : after[n + i] = run[i]
    BY <2>1, Joined
  <2>3. k \in Nat
    OBVIOUS
  <2> QED
    BY <2>2, <2>3 DEF Run
<1> HIDE DEF after
<1>3. \A i \in 0 .. n : At(held, after, i) = At(held, wire, i)
  BY <1>1, <1>2 DEF At
<1>4. ASSUME NEW i \in n + 1 .. n + k
      PROVE  /\ i - n \in 1 .. k /\ At(held, after, i) = LogFrame(log, from + (i - n))
             /\ At(held, after, i).seq = from + (i - n) /\ At(held, after, i).kind = "event"
             /\ from + (i - n) <= top /\ from + (i - n) > start
  <2>1. i - n \in 1 .. k /\ i = n + (i - n) /\ i # 0
    BY <1>1, <1>2
  <2>2. after[i] = LogFrame(log, from + (i - n))
    BY <1>2, <2>1
  <2>3. k = top - from
    BY DEF Run
  <2> QED
    BY <1>1, <1>2, <2>1, <2>2, <2>3 DEF At, LogFrame, EventFrame
<1>5. \A i \in 0 .. n + k : FrameOK(At(held, after, i), log, due, start, top)
  <2>1. \A i \in 0 .. n : FrameOK(At(held, after, i), log, due, start, top)
    BY <1>3 DEF StreamOK
  <2>2. \A i \in n + 1 .. n + k : FrameOK(At(held, after, i), log, due, start, top)
    BY <1>4 DEF FrameOK
  <2> QED
    BY <1>1, <1>2, <2>1, <2>2
<1>6. SnapshotsRise(held, after)
  <2> SUFFICES ASSUME NEW i \in 1 .. n + k, after[i].kind = "snapshot", NEW j \in 0 .. i - 1
               PROVE  At(held, after, j).seq <= after[i].seq
    BY <1>2 DEF SnapshotsRise
  <2>1. after[i] = At(held, after, i)
    BY <1>1, <1>2 DEF At
  <2>2. i \in 1 .. n
    <3>1. i \notin n + 1 .. n + k
      BY <1>4, <2>1
    <3> QED
      BY <1>1, <1>2, <3>1
  <2>3. j \in 0 .. n
    BY <1>1, <2>2
  <2> QED
    BY <1>2, <1>3, <2>2, <2>3 DEF StreamOK, SnapshotsRise
<1>7. ASSUME NEW j \in 0 .. n, At(held, wire, j).kind = "snapshot", Straight(held, wire, j, n),
             NEW s \in At(held, wire, j).seq + 1 .. from
      PROVE  \E m \in j + 1 .. n : At(held, wire, m).seq = s
  <2>1. PICK m \in j .. n : At(held, wire, m).seq = from \/ At(held, wire, j).seq >= from
    BY <1>7
  <2>2. At(held, wire, j).seq \in Nat
    BY <1>1
  <2>3. At(held, wire, m).seq = from /\ m # j
    BY <2>1, <2>2
  <2>4. m \in j + 1 .. n /\ Straight(held, wire, j, m)
    BY <1>1, <1>7, <2>1, <2>3 DEF Straight
  <2>5. PICK l \in j + 1 .. m : At(held, wire, l).seq = s
    BY ZenonT(60), <1>7, <2>3, <2>4 DEF StreamOK, NoGaps
  <2> QED
    BY <1>1, <2>4, <2>5
<1>8. NoGaps(held, after)
  <2> SUFFICES ASSUME NEW j \in 0 .. n + k, NEW i \in j + 1 .. n + k,
                      At(held, after, j).kind = "snapshot", Straight(held, after, j, i),
                      NEW s \in At(held, after, j).seq + 1 .. At(held, after, i).seq
               PROVE  \E m \in j + 1 .. i : At(held, after, m).seq = s
    BY <1>2 DEF NoGaps
  <2>1. j \in 0 .. n /\ At(held, after, j) = At(held, wire, j) /\ At(held, wire, j).seq \in Nat
    <3>1. j \notin n + 1 .. n + k
      BY <1>4
    <3>2. j \in 0 .. n
      BY <1>1, <1>2, <3>1
    <3> QED
      BY <1>1, <1>3, <3>2
  <2>2. CASE i \in 0 .. n
    <3>1. Straight(held, wire, j, i)
      <4>1. \A m \in j + 1 .. i : m \in 0 .. n
        BY <1>1, <2>1, <2>2
      <4> QED
        BY <1>3, <4>1 DEF Straight
    <3>2. i \in j + 1 .. n /\ At(held, after, i) = At(held, wire, i)
      BY <1>1, <1>3, <2>1, <2>2
    <3>3. PICK m \in j + 1 .. i : At(held, wire, m).seq = s
      BY <2>1, <3>1, <3>2 DEF StreamOK, NoGaps
    <3>4. m \in 0 .. n
      BY <1>1, <2>1, <2>2
    <3> QED
      BY <1>3, <3>3, <3>4
  <2>3. CASE i \in n + 1 .. n + k
    <3>1. At(held, after, i).seq = from + (i - n) /\ s \in Nat
      <4>1. At(held, after, i).seq = from + (i - n)
        BY <1>4, <2>3
      <4> QED
        BY SMTT(30), <2>1, <4>1
    <3>2. CASE s > from
      <4>1. n + (s - from) \in n + 1 .. n + k /\ n + (s - from) <= i
        BY SMTT(30), <1>1, <1>2, <2>3, <3>1, <3>2
      <4>2. PICK m \in n + 1 .. n + k : m = n + (s - from) /\ m <= i
        BY <4>1
      <4>3. At(held, after, m).seq = from + (m - n)
        BY <1>4
      <4>4. At(held, after, m).seq = s
        BY <1>1, <3>1, <4>2, <4>3
      <4> QED
        BY <1>1, <2>1, <4>2, <4>4
    <3>3. CASE s <= from
      <4>1. Straight(held, wire, j, n)
        BY <1>1, <1>3, <2>1, <2>3 DEF Straight
      <4>2. s \in At(held, wire, j).seq + 1 .. from
        BY <2>1, <3>1, <3>3
      <4>3. PICK m \in j + 1 .. n : At(held, wire, m).seq = s
        BY <1>7, <2>1, <4>1, <4>2
      <4> QED
        BY <1>1, <1>3, <2>1, <2>3, <4>3
    <3> QED
      BY <3>1, <3>2, <3>3
  <2> QED
    BY <1>1, <1>2, <2>2, <2>3
<1>9. Reaches(held, after, top)
  <2> SUFFICES ASSUME NEW j \in 0 .. n + k, At(held, after, j).kind = "snapshot",
                      Straight(held, after, j, n + k)
               PROVE  \E m \in j .. n + k : At(held, after, m).seq = top
    BY <1>2 DEF Reaches
  <2>1. j \in 0 .. n /\ At(held, after, j) = At(held, wire, j) /\ At(held, wire, j).seq \in Nat
    BY SMTT(30), <1>1, <1>2, <1>3, <1>4
  <2>2. k = top - from
    BY DEF Run
  <2>3. CASE k # 0
    <3>1. n + k \in n + 1 .. n + k
      BY <1>1, <1>2, <2>3
    <3>2. At(held, after, n + k).seq = from + (n + k - n)
      BY <1>4, <3>1
    <3>3. At(held, after, n + k).seq = top
      BY <1>1, <1>2, <2>2, <3>2
    <3> QED
      BY <3>3
  <2>4. CASE k = 0
    <3>1. from = top
      BY <2>2, <2>4
    <3>2. Straight(held, wire, j, n)
      BY <1>1, <1>3, <2>1, <2>4 DEF Straight
    <3>3. PICK m \in j .. n : At(held, wire, m).seq = top \/ At(held, wire, j).seq >= top
      BY <2>1, <3>1, <3>2
    <3>4. At(held, wire, j).seq <= top
      BY <2>1 DEF StreamOK, FrameOK
    <3>5. At(held, wire, m).seq = top \/ At(held, wire, j).seq = top
      BY <2>1, <3>3, <3>4
    <3> QED
      BY <1>1, <1>3, <2>1, <2>4, <3>3, <3>5
  <2> QED
    BY <2>3, <2>4
<1>10. \A i \in 0 .. Len(after) : FrameOK(At(held, after, i), log, due, start, top)
  BY <1>2, <1>5
<1>11. held \in FrameRows /\ held.kind # "event"
  BY DEF StreamOK
<1> QED
  BY ONLY <1>2, <1>6, <1>8, <1>9, <1>10, <1>11 DEF StreamOK, after

(***************************************************************************)
(* The wire is cut: what the client holds stays.                           *)
(***************************************************************************)
LEMMA NothingFollows ==
  ASSUME NEW held \in FrameRows, held.kind # "event", NEW log, NEW due,
         NEW start \in Nat, NEW top \in Nat, FrameOK(held, log, due, start, top)
  PROVE  StreamOK(held, <<>>, log, due, start, top)
<1>1. <<>> \in Seq(FrameRows) /\ Len(<<>>) = 0
  OBVIOUS
<1>2. \A i \in 0 .. 0 : At(held, <<>>, i) = held
  BY DEF At
<1>3. \A i \in 0 .. Len(<<>>) : FrameOK(At(held, <<>>, i), log, due, start, top)
  BY <1>1, <1>2
<1>4. SnapshotsRise(held, <<>>) /\ NoGaps(held, <<>>)
  BY <1>1 DEF SnapshotsRise, NoGaps
<1> QED
  BY ONLY <1>1, <1>3, <1>4, held \in FrameRows, held.kind # "event" DEF StreamOK

(***************************************************************************)
(* A change is published: it is the next position of the log.              *)
(***************************************************************************)
LogWith(log, start, top, change) ==
  [s \in start + 1 .. top + 1 |-> IF s = top + 1 THEN change ELSE log[s]]

LEMMA StillCovers ==
  ASSUME NEW frame, frame.seq \in Nat, NEW log, NEW due, NEW start \in Nat, NEW top \in Nat,
         NEW change, frame.seq <= top, Covers(frame, log, due, start, top)
  PROVE  Covers(frame, LogWith(log, start, top, change), due \cup {change}, start, top + 1)
<1> DEFINE longer == LogWith(log, start, top, change)
<1> SUFFICES ASSUME frame.seq >= start, NEW p \in due \cup {change}, p \notin frame.data
             PROVE  \E s \in frame.seq + 1 .. top + 1 : longer[s] = p
  BY DEF Covers
<1>1. CASE p = change
  <2>1. top + 1 \in frame.seq + 1 .. top + 1 /\ top + 1 \in start + 1 .. top + 1
    OBVIOUS
  <2> QED
    BY <1>1, <2>1 DEF LogWith
<1>2. CASE p \in due
  <2>1. PICK s \in frame.seq + 1 .. top : log[s] = p
    BY <1>2 DEF Covers
  <2>2. s \in frame.seq + 1 .. top + 1 /\ s \in start + 1 .. top + 1 /\ s # top + 1
    BY <2>1
  <2> QED
    BY <2>1, <2>2 DEF LogWith
<1> QED
  BY <1>1, <1>2

LEMMA PublishedOnWire ==
  ASSUME NEW held, NEW wire, NEW log, NEW due, NEW start \in Nat, NEW top \in Nat,
         StreamOK(held, wire, log, due, start, top), NEW change
  PROVE  StreamOK(held, wire, LogWith(log, start, top, change), due \cup {change}, start, top + 1)
<1> DEFINE longer == LogWith(log, start, top, change)
<1>1. /\ Len(wire) \in Nat
      /\ \A i \in 0 .. Len(wire) : At(held, wire, i) \in FrameRows /\ At(held, wire, i).seq \in Nat
  BY FrameTypes
<1>2. ASSUME NEW i \in 0 .. Len(wire)
      PROVE  FrameOK(At(held, wire, i), longer, due \cup {change}, start, top + 1)
  <2> DEFINE frame == At(held, wire, i)
  <2>1. frame.seq \in Nat /\ FrameOK(frame, log, due, start, top)
    BY <1>1 DEF StreamOK
  <2> HIDE DEF frame
  <2>2. frame.seq <= top + 1
    BY <2>1 DEF FrameOK
  <2>3. ASSUME frame.kind = "event"
        PROVE  frame.seq > start /\ frame = LogFrame(longer, frame.seq)
    <3>1. frame.seq > start /\ frame.seq <= top /\ frame = LogFrame(log, frame.seq)
      BY <2>1, <2>3 DEF FrameOK
    <3>2. longer[frame.seq] = log[frame.seq]
      BY <2>1, <3>1 DEF LogWith
    <3> QED
      BY <3>1, <3>2 DEF LogFrame
  <2>4. ASSUME frame.kind = "snapshot"
        PROVE  Covers(frame, longer, due \cup {change}, start, top + 1)
    BY <2>1, <2>4, StillCovers DEF FrameOK
  <2> HIDE DEF longer
  <2> QED
    BY <2>1, <2>2, <2>3, <2>4 DEF FrameOK, frame
<1> HIDE DEF longer
<1> QED
  BY <1>2 DEF StreamOK, longer

(***************************************************************************)
(* The client takes the first frame: it replaces what the client holds, or *)
(* is an event that a snapshot takes in.                                   *)
(***************************************************************************)
Takes(held, frame, next) ==
  \/ frame.kind # "event" /\ next = frame
  \/ frame.kind = "event" /\ held.kind = "resync" /\ next = held
  \/ /\ frame.kind = "event" /\ held.kind = "snapshot" /\ next.kind = "snapshot"
     /\ \/ frame.seq <= held.seq /\ next = held
        \/ frame.seq > held.seq /\ next = Snapshot(frame.seq, held.data \cup frame.data)

LEMMA Taken ==
  ASSUME NEW held, NEW wire, wire # <<>>, NEW log, NEW due, NEW start \in Nat, NEW top \in Nat,
         StreamOK(held, wire, log, due, start, top),
         NEW next \in FrameRows, Takes(held, Head(wire), next)
  PROVE  /\ StreamOK(next, Tail(wire), log, due, start, top)
         /\ Reaches(held, wire, top) => Reaches(next, Tail(wire), top)
         /\ \A to \in Nat : (\A i \in 0 .. Len(wire) : At(held, wire, i).seq <= to) =>
              \A i \in 0 .. Len(Tail(wire)) : At(next, Tail(wire), i).seq <= to
<1> DEFINE n == Len(wire)
           rest == Tail(wire)
           at(i) == At(held, wire, i)
           then(i) == At(next, rest, i)
<1>1. n \in Nat /\ \A i \in 0 .. n : at(i) \in FrameRows /\ at(i).seq \in Nat
  BY FrameTypes
<1>2. rest \in Seq(FrameRows) /\ Len(rest) = n - 1 /\ n > 0 /\ Head(wire) = at(1)
      /\ \A i \in 1 .. n - 1 : rest[i] = wire[i + 1]
  BY DEF StreamOK, At
<1>3. next.seq \in Nat /\ held.seq \in Nat /\ held = at(0) /\ next = then(0)
  BY <1>1 DEF FrameRows, At
<1> HIDE DEF rest
<1>4. \A i \in 1 .. n - 1 : then(i) = at(i + 1) /\ rest[i] = at(i + 1)
  BY <1>1, <1>2 DEF At
<1>5. \A i \in 0 .. n : FrameOK(at(i), log, due, start, top)
  BY DEF StreamOK
<1>6. at(1) \in FrameRows /\ at(1).seq \in Nat /\ FrameOK(at(1), log, due, start, top)
      /\ FrameOK(held, log, due, start, top) /\ held \in FrameRows /\ held.kind # "event"
  <2>1. 1 \in 0 .. n /\ 0 \in 0 .. n
    BY <1>1, <1>2
  <2> QED
    BY <1>1, <1>3, <1>5, <2>1 DEF StreamOK
<1>7. next.kind # "event" /\ FrameOK(next, log, due, start, top)
      /\ (next.kind = "snapshot" => next.seq >= at(1).seq)
      /\ (next.kind = "snapshot" /\ at(1).kind = "event" =>
            held.kind = "snapshot" /\ next.seq >= held.seq)
      /\ next.seq \in {held.seq, at(1).seq}
  <2>1. CASE at(1).kind # "event" /\ next = at(1)
    BY <1>6, <2>1
  <2>2. CASE at(1).kind = "event" /\ held.kind = "resync" /\ next = held
    BY <1>6, <2>2
  <2>3. CASE at(1).kind = "event" /\ held.kind = "snapshot" /\ at(1).seq <= held.seq /\ next = held
    BY <1>3, <1>6, <2>3
  <2>4. CASE /\ at(1).kind = "event" /\ held.kind = "snapshot" /\ at(1).seq > held.seq
             /\ next = Snapshot(at(1).seq, held.data \cup at(1).data)
    <3>1. at(1).seq = held.seq + 1
      <4>1. held.seq + 1 \in held.seq + 1 .. at(1).seq
        BY <1>3, <1>6, <2>4
      <4>2. 0 \in 0 .. n /\ 1 \in 0 + 1 .. n /\ Straight(held, wire, 0, 1)
        BY <1>1, <1>2, <2>4 DEF Straight
      <4>3. \E m \in 0 + 1 .. 1 : at(m).seq = held.seq + 1
        BY <1>3, <2>4, <4>1, <4>2 DEF StreamOK, NoGaps
      <4> QED
        BY <4>3
    <3>2. at(1).seq > start /\ at(1).seq <= top /\ at(1).data = {log[at(1).seq]}
      BY <1>6, <2>4 DEF FrameOK, LogFrame, EventFrame
    <3>3. held.seq >= start /\ Covers(held, log, due, start, top)
      BY <1>3, <1>6, <2>4, <3>1, <3>2 DEF FrameOK
    <3>4. next.kind = "snapshot" /\ next.seq = at(1).seq
            /\ next.data = held.data \cup {log[at(1).seq]}
      BY <2>4, <3>2 DEF Snapshot
    <3>5. Covers(next, log, due, start, top)
      <4> SUFFICES ASSUME NEW p \in due, p \notin next.data
                   PROVE  \E s \in next.seq + 1 .. top : log[s] = p
        BY DEF Covers
      <4>1. p \notin held.data
        BY <3>4
      <4>2. PICK s \in held.seq + 1 .. top : log[s] = p
        BY <1>3, <3>3, <4>1 DEF Covers
      <4>3. s # held.seq + 1
        BY <3>1, <3>4, <4>2
      <4> QED
        BY <1>3, <3>1, <3>4, <4>2, <4>3
    <3> QED
      BY <1>3, <1>6, <2>4, <3>1, <3>2, <3>4, <3>5 DEF FrameOK
  <2> QED
    BY <1>2, <2>1, <2>2, <2>3, <2>4 DEF Takes
<1> HIDE DEF n, at, then
<1>8. \A i \in 0 .. n - 1 : FrameOK(then(i), log, due, start, top)
  <2> SUFFICES ASSUME NEW i \in 0 .. n - 1
               PROVE  FrameOK(then(i), log, due, start, top)
    OBVIOUS
  <2>1. CASE i = 0
    BY <1>3, <1>7, <2>1
  <2>2. CASE i \in 1 .. n - 1
    <3>1. i + 1 \in 0 .. n
      BY <1>1, <2>2
    <3>2. FrameOK(at(i + 1), log, due, start, top)
      BY <1>5, <3>1
    <3>3. then(i) = at(i + 1)
      BY <1>4, <2>2
    <3> QED
      BY <3>2, <3>3
  <2> QED
    BY <1>1, <2>1, <2>2
<1>9. SnapshotsRise(next, rest)
  <2> SUFFICES ASSUME NEW i \in 1 .. n - 1, rest[i].kind = "snapshot", NEW j \in 0 .. i - 1
               PROVE  then(j).seq <= rest[i].seq
    BY <1>2 DEF SnapshotsRise, then
  <2>1. PICK h \in 2 .. n : h = i + 1
    BY <1>1
  <2>2. rest[i] = at(h) /\ at(h) = wire[h]
    BY <1>4, <2>1 DEF At, at
  <2>3. \A l \in 0 .. h - 1 : at(l).seq <= at(h).seq
    <3>1. SnapshotsRise(held, wire) /\ wire[h].kind = "snapshot" /\ h \in 1 .. n
      BY <1>1, <2>1, <2>2 DEF StreamOK
    <3> QED
      BY <2>2, <3>1 DEF SnapshotsRise, n, at
  <2>4. CASE j = 0
    <3>1. held.seq <= at(h).seq /\ at(1).seq <= at(h).seq
      BY <1>3, <2>1, <2>3
    <3> QED
      BY <1>3, <1>7, <2>2, <2>4, <3>1
  <2>5. CASE j # 0
    <3>1. PICK l \in 1 .. h - 1 : l = j + 1
      <4>1. j + 1 \in 1 .. h - 1
        BY <1>1, <2>1, <2>5
      <4> QED
        BY <4>1
    <3>2. j \in 1 .. n - 1
      BY <1>1, <2>5
    <3>3. then(j) = at(l)
      BY <1>4, <3>1, <3>2
    <3> QED
      BY <2>2, <2>3, <3>1, <3>3
  <2> QED
    BY <2>4, <2>5
\* A straight stretch after the step is one before it.
<1>10. ASSUME NEW j \in 0 .. n - 1, NEW i \in j .. n - 1,
              then(j).kind = "snapshot", Straight(next, rest, j, i)
       PROVE  \E h \in 0 .. n :
                /\ at(h).kind = "snapshot" /\ Straight(held, wire, h, i + 1)
                /\ at(h).seq <= then(j).seq /\ h <= j + 1
                /\ (h # j + 1 => h = 0 /\ j = 0 /\ at(1).seq <= then(j).seq)
                /\ (h = j + 1 => at(h).seq = then(j).seq)
  <2>1. \A m \in j + 2 .. i + 1 : at(m).kind = "event"
    <3> SUFFICES ASSUME NEW m \in j + 2 .. i + 1
                 PROVE  at(m).kind = "event"
      OBVIOUS
    <3>1. PICK l \in j + 1 .. i : m = l + 1
      <4>1. m - 1 \in j + 1 .. i /\ m = (m - 1) + 1
        BY <1>1
      <4> QED
        BY <4>1
    <3>2. then(l).kind = "event"
      BY <1>10 DEF Straight, then
    <3>3. l \in 1 .. n - 1
      BY <1>1, <3>1
    <3>4. then(l) = at(l + 1)
      BY <1>4, <3>3
    <3> QED
      BY <3>1, <3>2, <3>4
  <2>2. CASE j # 0
    <3>1. PICK h \in 2 .. n : h = j + 1
      BY <1>1, <2>2
    <3>2. then(j) = at(h)
      BY <1>4, <2>2, <3>1
    <3>3. Straight(held, wire, h, i + 1)
      BY <2>1, <3>1 DEF Straight, at
    <3> QED
      BY <1>1, <1>10, <3>1, <3>2, <3>3
  <2>3. CASE j = 0 /\ at(1).kind # "event"
    <3>1. then(j) = at(1)
      BY <1>2, <1>3, <2>3 DEF Takes
    <3>2. Straight(held, wire, 1, i + 1)
      BY <2>1, <2>3 DEF Straight, at
    <3> QED
      BY <1>1, <1>2, <1>6, <1>10, <2>3, <3>1, <3>2
  <2>4. CASE j = 0 /\ at(1).kind = "event"
    <3>1. next.kind = "snapshot" /\ then(j) = next
      BY <1>3, <1>10, <2>4
    <3>2. held.kind = "snapshot" /\ held.seq <= next.seq /\ at(1).seq <= next.seq
      BY <1>3, <1>6, <1>7, <2>4, <3>1
    <3>3. Straight(held, wire, 0, i + 1)
      BY <2>1, <2>4 DEF Straight, at
    <3> QED
      BY <1>1, <1>3, <2>4, <3>1, <3>2, <3>3
  <2> QED
    BY <2>2, <2>3, <2>4
<1>11. NoGaps(next, rest)
  <2> SUFFICES ASSUME NEW j \in 0 .. n - 1, NEW i \in j + 1 .. n - 1,
                      then(j).kind = "snapshot", Straight(next, rest, j, i),
                      NEW s \in then(j).seq + 1 .. then(i).seq
               PROVE  \E m \in j + 1 .. i : then(m).seq = s
    BY <1>2 DEF NoGaps, then
  <2>1. i \in j .. n - 1 /\ i \in 1 .. n - 1
    BY <1>1
  <2>2. PICK h \in 0 .. n :
                /\ at(h).kind = "snapshot" /\ Straight(held, wire, h, i + 1)
                /\ at(h).seq <= then(j).seq /\ h <= j + 1
                /\ (h # j + 1 => h = 0 /\ j = 0 /\ at(1).seq <= then(j).seq)
                /\ (h = j + 1 => at(h).seq = then(j).seq)
    BY <1>10, <2>1
  <2>3. then(i) = at(i + 1) /\ i + 1 \in h + 1 .. n
    BY <1>1, <1>4, <2>1, <2>2
  <2>4. at(h).seq \in Nat /\ at(i + 1).seq \in Nat /\ then(j).seq \in Nat
    <3>1. i + 1 \in 0 .. n
      BY <1>1, <2>1
    <3>2. j = 0 \/ (j \in 1 .. n - 1 /\ j + 1 \in 0 .. n)
      BY <1>1
    <3> QED
      BY <1>1, <1>3, <1>4, <3>1, <3>2
  <2>5. s \in at(h).seq + 1 .. at(i + 1).seq
    BY <2>2, <2>3, <2>4
  <2>6. PICK m \in h + 1 .. i + 1 : at(m).seq = s
    BY <2>2, <2>3, <2>5 DEF StreamOK, NoGaps, n, at
  <2>7. m > j + 1
    BY <2>2, <2>4, <2>6
  <2>8. PICK l \in j + 1 .. i : m = l + 1
    <3>1. m - 1 \in j + 1 .. i /\ m = (m - 1) + 1
      BY <1>1, <2>6, <2>7
    <3> QED
      BY <3>1
  <2>9. then(l) = at(m)
    BY <1>1, <1>4, <2>8
  <2> QED
    BY <2>6, <2>9
<1>12. ASSUME Reaches(held, wire, top)
       PROVE  Reaches(next, rest, top)
  <2> SUFFICES ASSUME NEW j \in 0 .. n - 1, then(j).kind = "snapshot",
                      Straight(next, rest, j, n - 1)
               PROVE  \E m \in j .. n - 1 : then(m).seq = top
    BY <1>2 DEF Reaches, then
  <2>1. n - 1 \in j .. n - 1 /\ (n - 1) + 1 = n
    BY <1>1
  <2>2. PICK h \in 0 .. n :
                /\ at(h).kind = "snapshot" /\ Straight(held, wire, h, n)
                /\ at(h).seq <= then(j).seq /\ h <= j + 1
                /\ (h # j + 1 => h = 0 /\ j = 0 /\ at(1).seq <= then(j).seq)
                /\ (h = j + 1 => at(h).seq = then(j).seq)
    BY <1>10, <2>1
  <2>3. PICK m \in h .. n : at(m).seq = top
    BY <1>12, <2>2 DEF Reaches, at, n
  <2>4. CASE m > j + 1
    <3>1. PICK l \in j + 1 .. n - 1 : m = l + 1
      <4>1. m - 1 \in j + 1 .. n - 1 /\ m = (m - 1) + 1
        BY <1>1, <2>3, <2>4
      <4> QED
        BY <4>1
    <3>2. then(l) = at(m)
      BY <1>1, <1>4, <3>1
    <3> QED
      BY <2>3, <3>1, <3>2
  <2>5. CASE m <= j + 1
    <3>1. then(j).seq >= top
      BY <2>2, <2>3, <2>5
    <3>2. then(j).seq <= top /\ then(j).seq \in Nat
      <4>1. j = 0 \/ (j \in 1 .. n - 1 /\ j + 1 \in 0 .. n)
        BY <1>1
      <4> QED
        BY <1>1, <1>3, <1>4, <1>8, <4>1 DEF FrameOK
    <3> QED
      BY <1>1, <3>1, <3>2
  <2> QED
    BY <1>1, <2>4, <2>5
<1>13. ASSUME NEW to \in Nat, \A i \in 0 .. n : at(i).seq <= to
       PROVE  \A i \in 0 .. n - 1 : then(i).seq <= to
  <2> SUFFICES ASSUME NEW i \in 0 .. n - 1
               PROVE  then(i).seq <= to
    OBVIOUS
  <2>1. CASE i = 0
    <3>1. held.seq <= to /\ at(1).seq <= to
      BY <1>1, <1>2, <1>3, <1>13
    <3> QED
      BY <1>3, <1>7, <2>1, <3>1
  <2>2. CASE i \in 1 .. n - 1
    <3>1. i + 1 \in 0 .. n
      BY <1>1, <2>2
    <3> QED
      BY <1>4, <1>13, <2>2, <3>1
  <2> QED
    BY <1>1, <2>1, <2>2
<1>14. \A i \in 0 .. Len(rest) : FrameOK(At(next, rest, i), log, due, start, top)
  BY <1>2, <1>8 DEF then
<1>15. StreamOK(next, rest, log, due, start, top)
  BY ONLY <1>2, <1>7, <1>9, <1>11, <1>14, next \in FrameRows DEF StreamOK
<1>16. \A to \in Nat : (\A i \in 0 .. n : at(i).seq <= to) =>
         \A i \in 0 .. Len(rest) : then(i).seq <= to
  BY <1>2, <1>13
<1> QED
  BY <1>12, <1>15, <1>16 DEF rest, n, at, then

-----------------------------------------------------------------------------
(* Delivery: the invariant. *)

TopicRows == [seq : Nat, buffer : Seq(EntryRows)]

DeliveryTyped ==
  /\ committed \in 0 .. MaxChanges /\ unpublished \subseteq 1 .. committed
  /\ topicClock \in Nat \ {0}
  /\ topic = NoSeq \/ topic \in TopicRows
  /\ topic = NoSeq => highestSeq \in Nat /\ highestSeq < Start
  /\ topic = NoSeq => \A c \in Clients : subscriptions[c].phase = "none"
  /\ topic # NoSeq => highestSeq = topic.seq
  /\ State.seq + Cardinality(unpublished) <= Start + committed
  /\ subscriptions \in [Clients -> SubscriptionRows]
  /\ wires \in [Clients -> Seq(FrameRows)]
  /\ clients \in [Clients -> ClientRows]
  /\ \A c \in Clients : clients[c].settled => clients[c].cursor # NoSeq

\* What is kept for replay are the last positions of the topic.
BufferOK(state, log, start) ==
  LET low == state.seq - Len(state.buffer)
  IN  /\ low >= start
      /\ \A i \in 1 .. Len(state.buffer) :
           state.buffer[i] = [seq |-> low + i, change |-> log[low + i]]

ClientOK(c, log) ==
  /\ StreamOK(Held(clients[c]), wires[c], log, Due, Start, State.seq)
  /\ SubscriptionOK(subscriptions[c], Held(clients[c]), wires[c], clients[c].asked,
                    log, Due, Start, State.seq)

Log == [Start + 1 .. State.seq -> Nat]

DeliveryInv ==
  /\ DeliveryTyped
  /\ \E log \in Log : BufferOK(State, log, Start) /\ \A c \in Clients : ClientOK(c, log)

LEMMA StateFacts ==
  ASSUME DeliveryTyped
  PROVE  /\ Start \in Nat /\ State \in TopicRows /\ State.seq \in Nat
         /\ topic = NoSeq => State.seq = Start /\ State.buffer = <<>>
         /\ topic # NoSeq => State = topic
         /\ Greater(highestSeq, State.seq) = State.seq
<1>1. Start \in Nat
  BY DeliveryBounds DEF DeliveryTyped, Start
<1>2. CASE topic = NoSeq
  <2>1. highestSeq \in Nat /\ highestSeq < Start
    BY <1>2 DEF DeliveryTyped
  <2>2. Base = Start
    BY <1>1, <2>1 DEF Base, Greater, Start
  <2>3. State = [seq |-> Start, buffer |-> <<>>]
    BY <1>2, <2>2 DEF State
  <2>4. <<>> \in Seq(EntryRows)
    OBVIOUS
  <2> QED
    BY <1>1, <1>2, <2>1, <2>3, <2>4 DEF TopicRows, Greater
<1>3. CASE topic # NoSeq
  <2>1. topic \in TopicRows /\ highestSeq = topic.seq /\ State = topic
    BY <1>3 DEF DeliveryTyped, State
  <2> QED
    BY <1>1, <1>3, <2>1 DEF TopicRows, Greater
<1> QED
  BY <1>2, <1>3

LEMMA UnpublishedCount ==
  ASSUME DeliveryTyped
  PROVE  /\ IsFiniteSet(unpublished) /\ Cardinality(unpublished) \in Nat
         /\ Cardinality(unpublished) <= committed
<1>1. IsFiniteSet(1 .. committed) /\ Cardinality(1 .. committed) = committed
  <2>1. committed \in Int /\ committed >= 0 /\ 1 \in Int
    BY DEF DeliveryTyped
  <2> QED
    BY <2>1, FS_Interval
<1>2. IsFiniteSet(unpublished) /\ Cardinality(unpublished) <= Cardinality(1 .. committed)
  BY <1>1, FS_Subset DEF DeliveryTyped
<1> QED
  BY <1>1, <1>2, FS_CardinalityType

LEMMA HeldFacts ==
  ASSUME NEW client \in ClientRows, client.settled => client.cursor # NoSeq
  PROVE  Held(client) \in FrameRows /\ Held(client).kind # "event"
BY DEF Held, Snapshot, Resync, FrameRows, ClientRows

LEMMA ResyncIsOK ==
  ASSUME NEW log, NEW due, NEW start \in Nat, NEW top \in Nat
  PROVE  Resync \in FrameRows /\ Resync.kind = "resync" /\ FrameOK(Resync, log, due, start, top)
BY DEF Resync, FrameRows, FrameOK

(***************************************************************************)
(* A step of one client, at the same position of the topic.                *)
(***************************************************************************)
LEMMA OneClientSteps ==
  ASSUME DeliveryInv, DeliveryTyped', State' = State, Start' = Start, Due' = Due,
         NEW c \in Clients,
         \A d \in Clients \ {c} : /\ subscriptions'[d] = subscriptions[d]
                                  /\ wires'[d] = wires[d] /\ clients'[d] = clients[d],
         \A log \in Log : BufferOK(State, log, Start) /\ ClientOK(c, log) => ClientOK(c, log)'
  PROVE  DeliveryInv'
<1>1. PICK log \in Log : BufferOK(State, log, Start) /\ \A d \in Clients : ClientOK(d, log)
  BY DEF DeliveryInv
<1>2. log \in Log' /\ BufferOK(State, log, Start)'
  BY <1>1 DEF Log, BufferOK
<1>3. ClientOK(c, log)'
  BY <1>1
<1>4. ASSUME NEW d \in Clients \ {c}
      PROVE  ClientOK(d, log)'
  BY <1>1, <1>4 DEF ClientOK
<1> QED
  BY <1>2, <1>3, <1>4 DEF DeliveryInv

LEMMA CommitKeeps ==
  ASSUME DeliveryInv, Commit
  PROVE  DeliveryInv'
<1> USE DEF Commit
<1>1. State' = State /\ Start' = Start
  BY DEF State, Base, Start
<1>2. Due' = Due
  BY DEF Due, DeliveryInv, DeliveryTyped
<1>3. DeliveryTyped'
  <2>1. DeliveryTyped
    BY DEF DeliveryInv
  <2>2. Cardinality(unpublished') = Cardinality(unpublished) + 1
    <3>1. committed + 1 \notin unpublished
      BY <2>1 DEF DeliveryTyped
    <3> QED
      BY <2>1, <3>1, UnpublishedCount, FS_AddElement
  <2>3. committed' \in 0 .. MaxChanges /\ unpublished' \subseteq 1 .. committed'
    BY <2>1, DeliveryBounds DEF DeliveryTyped
  <2>4. State.seq \in Nat /\ Start \in Nat /\ Cardinality(unpublished) \in Nat
    BY <2>1, StateFacts, UnpublishedCount
  <2>5. State'.seq + Cardinality(unpublished') <= Start' + committed'
    BY <1>1, <2>1, <2>2, <2>4 DEF DeliveryTyped
  <2> QED
    BY <1>1, <2>1, <2>3, <2>5 DEF DeliveryTyped
<1>4. PICK log \in Log : BufferOK(State, log, Start) /\ \A c \in Clients : ClientOK(c, log)
  BY DEF DeliveryInv
<1>5. log \in Log' /\ BufferOK(State, log, Start)'
  BY <1>1, <1>4 DEF Log, BufferOK
<1>6. \A c \in Clients : ClientOK(c, log)'
  BY <1>1, <1>2, <1>4 DEF ClientOK
<1> QED
  BY <1>3, <1>5, <1>6 DEF DeliveryInv

LEMMA DropKeeps ==
  ASSUME DeliveryInv, NEW c \in Clients, Drop(c)
  PROVE  DeliveryInv'
<1>0. DeliveryTyped
  BY DEF DeliveryInv
<1>1. /\ clients[c] \in ClientRows /\ subscriptions \in [Clients -> SubscriptionRows]
      /\ wires \in [Clients -> Seq(FrameRows)] /\ clients \in [Clients -> ClientRows]
  BY <1>0 DEF DeliveryTyped
<1>2. /\ clients' \in [Clients -> ClientRows] /\ subscriptions' \in [Clients -> SubscriptionRows]
      /\ wires' \in [Clients -> Seq(FrameRows)]
      /\ clients'[c].asked /\ clients'[c].settled = clients[c].settled
      /\ clients'[c].cursor = clients[c].cursor /\ clients'[c].applied = clients[c].applied
      /\ subscriptions'[c] = Detached /\ wires'[c] = <<>> /\ Detached.phase = "none"
      /\ \A d \in Clients \ {c} : /\ subscriptions'[d] = subscriptions[d]
                                  /\ wires'[d] = wires[d] /\ clients'[d] = clients[d]
  <2>1. <<>> \in Seq(FrameRows)
    OBVIOUS
  <2>2. Detached \in SubscriptionRows /\ Detached.phase = "none"
    BY <2>1 DEF SubscriptionRows, Detached
  <2>3. /\ clients' \in [Clients -> ClientRows]
        /\ clients'[c].asked /\ clients'[c].settled = clients[c].settled
        /\ clients'[c].cursor = clients[c].cursor /\ clients'[c].applied = clients[c].applied
        /\ \A d \in Clients \ {c} : clients'[d] = clients[d]
    <3> DEFINE row == [cursor |-> clients[c].cursor, settled |-> clients[c].settled,
                       applied |-> clients[c].applied, asked |-> TRUE,
                       drops |-> clients[c].drops + 1]
    <3>1. row \in ClientRows
      BY <1>1 DEF ClientRows
    <3>2. clients' = [clients EXCEPT ![c] = row]
      BY <1>1 DEF Drop, ClientRows
    <3> QED
      BY <1>1, <3>1, <3>2
  <2> QED
    BY <1>1, <2>1, <2>2, <2>3 DEF Drop
<1>3. State' = State /\ Start' = Start /\ Due' = Due
  BY DEF Drop, State, Base, Start, Due
<1>4. DeliveryTyped'
  <2>1. \A d \in Clients : clients'[d].settled => clients'[d].cursor # NoSeq
    BY <1>0, <1>2 DEF DeliveryTyped
  <2>2. topic = NoSeq => \A d \in Clients : subscriptions'[d].phase = "none"
    BY <1>0, <1>2 DEF DeliveryTyped
  <2> QED
    BY <1>0, <1>2, <1>3, <2>1, <2>2 DEF DeliveryTyped, Drop
<1>5. ASSUME NEW log \in Log, BufferOK(State, log, Start), ClientOK(c, log)
      PROVE  ClientOK(c, log)'
  <2> DEFINE held == Held(clients[c])
  <2>1. Start \in Nat /\ State.seq \in Nat
    BY <1>0, StateFacts
  <2>2. Held(clients'[c]) = held
    BY <1>2 DEF Held
  <2>3. held \in FrameRows /\ held.kind # "event"
    BY <1>0, <1>1, HeldFacts DEF DeliveryTyped
  <2>4. FrameOK(held, log, Due, Start, State.seq)
    <3>1. StreamOK(held, wires[c], log, Due, Start, State.seq)
      BY <1>5 DEF ClientOK
    <3>2. 0 \in 0 .. Len(wires[c]) /\ At(held, wires[c], 0) = held
      BY <3>1, FrameTypes DEF At
    <3> QED
      BY <3>1, <3>2 DEF StreamOK
  <2>5. StreamOK(held, <<>>, log, Due, Start, State.seq)
    BY <2>1, <2>3, <2>4, NothingFollows
  <2>6. SubscriptionOK(Detached, held, <<>>, TRUE, log, Due, Start, State.seq)
    BY DEF SubscriptionOK, Detached
  <2> QED
    BY <1>2, <1>3, <2>2, <2>5, <2>6 DEF ClientOK
<1> QED
  BY <1>2, <1>3, <1>4, <1>5, OneClientSteps

LEMMA ReadSnapshotKeeps ==
  ASSUME DeliveryInv, NEW c \in Clients, ReadSnapshot(c)
  PROVE  DeliveryInv'
<1>0. DeliveryTyped
  BY DEF DeliveryInv
<1>1. subscriptions[c] \in SubscriptionRows /\ subscriptions \in [Clients -> SubscriptionRows]
  BY <1>0 DEF DeliveryTyped
<1>2. /\ subscriptions' \in [Clients -> SubscriptionRows]
      /\ subscriptions[c].phase = "attached"
      /\ subscriptions'[c].phase = "snapshot" /\ subscriptions'[c].data = 1 .. committed
      /\ subscriptions'[c].seq = subscriptions[c].seq
      /\ subscriptions'[c].pending = subscriptions[c].pending
      /\ subscriptions'[c].overflowed = subscriptions[c].overflowed
      /\ \A d \in Clients \ {c} : subscriptions'[d] = subscriptions[d]
  <2>1. 1 .. committed \in SUBSET Nat
    BY <1>0 DEF DeliveryTyped
  <2> QED
    BY <1>1, <2>1 DEF ReadSnapshot, SubscriptionRows
<1>3. State' = State /\ Start' = Start /\ Due' = Due
  BY DEF ReadSnapshot, State, Base, Start, Due
<1>4. DeliveryTyped'
  BY <1>0, <1>2, <1>3 DEF DeliveryTyped, ReadSnapshot
<1>5. ASSUME NEW log \in Log, BufferOK(State, log, Start), ClientOK(c, log)
      PROVE  ClientOK(c, log)'
  <2>1. Covers(Snapshot(subscriptions[c].seq, 1 .. committed), log, Due, Start, State.seq)
    BY DEF Covers, Snapshot, Due
  <2>2. SubscriptionOK(subscriptions'[c], Held(clients[c]), wires[c], clients[c].asked, log, Due,
                       Start, State.seq)
    BY <1>2, <1>5, <2>1 DEF SubscriptionOK, ClientOK
  <2> QED
    BY <1>3, <1>5, <2>2 DEF ClientOK, ReadSnapshot
<1> QED
  BY <1>2, <1>3, <1>4, <1>5, OneClientSteps DEF ReadSnapshot

LEMMA ReceiveKeeps ==
  ASSUME DeliveryInv, NEW c \in Clients, Receive(c)
  PROVE  DeliveryInv'
<1> DEFINE frame == Head(wires[c])
           next == Received(clients[c], frame)
<1>0. DeliveryTyped
  BY DEF DeliveryInv
<1>1. /\ clients[c] \in ClientRows /\ clients \in [Clients -> ClientRows]
      /\ wires \in [Clients -> Seq(FrameRows)] /\ wires[c] # <<>> /\ frame \in FrameRows
      /\ Tail(wires[c]) \in Seq(FrameRows)
      /\ clients[c].settled => clients[c].cursor # NoSeq
  BY <1>0 DEF DeliveryTyped, Receive
<1> HIDE DEF frame
<1>2. /\ next \in ClientRows /\ (next.settled => next.cursor # NoSeq)
      /\ (clients[c].asked => next.asked)
      /\ (frame.kind = "resync" => next.asked /\ Held(next) = Resync)
      /\ (frame.kind = "snapshot" => Held(next) = frame)
      /\ (frame.kind = "event" => Takes(Held(clients[c]), frame, Held(next)))
  <2>1. NoSeq \notin Nat
    BY DeliveryBounds
  <2>2. CASE frame.kind = "resync"
    BY <1>1, <2>1, <2>2 DEF Received, Held, ClientRows, FrameRows
  <2>3. CASE frame.kind = "snapshot"
    BY <1>1, <2>1, <2>3 DEF Received, Held, Snapshot, ClientRows, FrameRows
  <2>4. CASE frame.kind = "event"
    <3> DEFINE client == clients[c]
    <3>1. frame.seq \in Nat /\ frame.data \in SUBSET Nat
      BY <1>1 DEF FrameRows
    <3>2. CASE client.cursor # NoSeq /\ frame.seq <= client.cursor
      <4>1. next = client
        BY <2>4, <3>2 DEF Received
      <4> QED
        BY <1>1, <2>4, <3>2, <4>1 DEF Held, Snapshot, Resync, Takes
    <3>3. CASE ~ (client.cursor # NoSeq /\ frame.seq <= client.cursor)
      <4>1. /\ next \in ClientRows /\ next.cursor = frame.seq /\ next.settled = client.settled
            /\ next.applied = client.applied \cup frame.data /\ next.asked = client.asked
        BY <1>1, <2>4, <3>1, <3>3 DEF Received, ClientRows
      <4>2. client.settled => client.cursor \in Nat /\ frame.seq > client.cursor
        BY <1>1, <3>1, <3>3 DEF ClientRows
      <4> QED
        BY <2>1, <2>4, <3>1, <4>1, <4>2 DEF Held, Snapshot, Resync, Takes
    <3> QED
      BY <3>2, <3>3
  <2> QED
    BY <1>1, <2>2, <2>3, <2>4 DEF FrameRows
<1> HIDE DEF next
<1>3. /\ clients' \in [Clients -> ClientRows] /\ wires' \in [Clients -> Seq(FrameRows)]
      /\ clients'[c] = next /\ wires'[c] = Tail(wires[c])
      /\ \A d \in Clients \ {c} : wires'[d] = wires[d] /\ clients'[d] = clients[d]
  BY <1>1, <1>2 DEF Receive, frame, next
<1>4. State' = State /\ Start' = Start /\ Due' = Due
  BY DEF Receive, State, Base, Start, Due
<1>5. DeliveryTyped'
  <2>1. \A d \in Clients : clients'[d].settled => clients'[d].cursor # NoSeq
    BY <1>0, <1>2, <1>3 DEF DeliveryTyped
  <2> QED
    BY <1>0, <1>3, <1>4, <2>1 DEF DeliveryTyped, Receive
<1>6. ASSUME NEW log \in Log, BufferOK(State, log, Start), ClientOK(c, log)
      PROVE  ClientOK(c, log)'
  <2> DEFINE held == Held(clients[c])
             wire == wires[c]
             top == State.seq
             sub == subscriptions[c]
  <2>1. Start \in Nat /\ top \in Nat
    BY <1>0, StateFacts
  <2>2. StreamOK(held, wire, log, Due, Start, top)
    BY <1>6 DEF ClientOK
  <2>3. SubscriptionOK(sub, held, wire, clients[c].asked, log, Due, Start, top)
    BY <1>6 DEF ClientOK
  <2>4. Len(wire) \in Nat /\ Len(wire) > 0 /\ At(held, wire, 1) = frame /\ wire[1] = frame
        /\ Len(Tail(wire)) = Len(wire) - 1
        /\ \A i \in 1 .. Len(wire) - 1 : Tail(wire)[i] = wire[i + 1]
    BY <1>1 DEF At, frame
  <2>5. frame.kind = "resync" => frame = Resync
    <3>1. 1 \in 0 .. Len(wire)
      BY <2>4
    <3> QED
      BY <2>2, <2>4, <3>1 DEF StreamOK, FrameOK
  <2>6. Takes(held, frame, Held(next)) /\ Held(next) \in FrameRows
    <3>1. Held(next) \in FrameRows
      BY <1>2, HeldFacts
    <3>2. frame.kind # "event" => Held(next) = frame
      BY <1>1, <1>2, <2>5 DEF FrameRows
    <3> QED
      BY <1>2, <3>1, <3>2 DEF Takes
  <2> HIDE DEF held, wire, top, sub
  <2>7. /\ StreamOK(Held(next), Tail(wire), log, Due, Start, top)
        /\ Reaches(held, wire, top) => Reaches(Held(next), Tail(wire), top)
        /\ \A to \in Nat : (\A i \in 0 .. Len(wire) : At(held, wire, i).seq <= to) =>
             \A i \in 0 .. Len(Tail(wire)) : At(Held(next), Tail(wire), i).seq <= to
    BY <1>1, <2>1, <2>2, <2>6, Taken DEF wire, frame
  <2>8. ASSUME clients[c].asked \/ held.kind = "snapshot" \/ Breaks(wire)
        PROVE  next.asked \/ Held(next).kind = "snapshot" \/ Breaks(Tail(wire))
    <3>1. CASE clients[c].asked
      BY <1>2, <3>1
    <3>2. CASE held.kind = "snapshot"
      BY <1>1, <1>2, <3>2 DEF Takes, FrameRows, held
    <3>3. ASSUME NEW i \in 1 .. Len(wire), wire[i].kind # "event"
          PROVE  next.asked \/ Held(next).kind = "snapshot" \/ Breaks(Tail(wire))
      <4>1. CASE i = 1
        BY <1>1, <1>2, <2>4, <3>3, <4>1 DEF FrameRows
      <4>2. CASE i # 1
        <5>1. PICK h \in 1 .. Len(wire) - 1 : i = h + 1
          <6>1. i - 1 \in 1 .. Len(wire) - 1 /\ i = (i - 1) + 1
            BY <2>4, <4>2
          <6> QED
            BY <6>1
        <5> QED
          BY <2>4, <3>3, <5>1 DEF Breaks
      <4> QED
        BY <4>1, <4>2
    <3> QED
      BY <2>8, <3>1, <3>2, <3>3 DEF Breaks
  <2>9. SubscriptionOK(sub, Held(next), Tail(wire), next.asked, log, Due, Start, top)
    <3>1. sub.phase # "none"
      BY <1>1, <2>3 DEF SubscriptionOK, wire
    <3>2. ASSUME sub.phase \in {"attached", "snapshot"}
          PROVE  /\ sub.seq \in Start .. top
                 /\ \A i \in 0 .. Len(Tail(wire)) : At(Held(next), Tail(wire), i).seq <= sub.seq
                 /\ ~ sub.overflowed => Run(sub.pending, log, sub.seq, top)
      <4>1. sub.seq \in Start .. top /\ \A i \in 0 .. Len(wire) : At(held, wire, i).seq <= sub.seq
        BY <2>3, <3>2 DEF SubscriptionOK
      <4>2. sub.seq \in Nat
        BY <2>1, <4>1
      <4> QED
        BY <2>3, <2>7, <3>2, <4>1, <4>2 DEF SubscriptionOK
    <3>3. sub.phase = "live" =>
            /\ Reaches(Held(next), Tail(wire), top)
            /\ next.asked \/ Held(next).kind = "snapshot" \/ Breaks(Tail(wire))
      BY <2>3, <2>7, <2>8 DEF SubscriptionOK
    <3>4. /\ sub.phase \in {"none", "live"} => sub.pending = <<>> /\ ~ sub.overflowed
          /\ sub.phase = "snapshot" => Covers(Snapshot(sub.seq, sub.data), log, Due, Start, top)
      BY <2>3 DEF SubscriptionOK
    <3> QED
      BY ONLY <3>1, <3>2, <3>3, <3>4 DEF SubscriptionOK
  <2> QED
    BY <1>3, <1>4, <2>7, <2>9 DEF ClientOK, held, wire, top, sub, Receive
<1> QED
  BY <1>3, <1>4, <1>5, <1>6, OneClientSteps DEF Receive

LEMMA ReleasedType ==
  ASSUME NEW sub \in SubscriptionRows
  PROVE  Released(sub) \in Seq(FrameRows) /\ Len(Released(sub)) \in Nat
<1>1. Resync \in FrameRows
  BY DEF Resync, FrameRows
<1>2. <<Resync>> \in Seq(FrameRows) /\ sub.pending \in Seq(FrameRows)
  BY <1>1 DEF SubscriptionRows
<1> QED
  BY <1>2 DEF Released

(***************************************************************************)
(* What was kept while the snapshot was read follows its answer.           *)
(***************************************************************************)
LEMMA ReleasedFollows ==
  ASSUME NEW held, NEW wire, NEW log, NEW due, NEW start \in Nat, NEW top \in Nat,
         StreamOK(held, wire, log, due, start, top), log \in [start + 1 .. top -> Nat],
         NEW sub \in SubscriptionRows, sub.seq \in start .. top,
         ~ sub.overflowed => Run(sub.pending, log, sub.seq, top),
         Len(wire) > 0, wire[Len(wire)].kind # "event",
         wire[Len(wire)].kind = "snapshot" => wire[Len(wire)].seq = sub.seq
  PROVE  /\ StreamOK(held, wire \o Released(sub), log, due, start, top)
         /\ Reaches(held, wire \o Released(sub), top)
         /\ Breaks(wire \o Released(sub))
<1> DEFINE n == Len(wire)
           after == wire \o Released(sub)
<1>1. n \in Nat /\ n \in 1 .. n /\ At(held, wire, n) = wire[n] /\ wire \in Seq(FrameRows)
  <2>1. n \in Nat /\ wire \in Seq(FrameRows)
    BY FrameTypes DEF StreamOK
  <2> QED
    BY <2>1 DEF At
<1>2. Released(sub) \in Seq(FrameRows)
  BY ReleasedType
<1>3. /\ after \in Seq(FrameRows) /\ Len(after) = n + Len(Released(sub))
      /\ \A i \in 1 .. n : after[i] = wire[i]
      /\ \A i \in 1 .. Len(Released(sub)) : after[n + i] = Released(sub)[i]
  BY <1>1, <1>2, Joined
<1>4. Len(Released(sub)) \in Nat
  BY ReleasedType
<1>5. Breaks(after)
  <2>1. n \in 1 .. Len(after)
    BY <1>1, <1>3, <1>4
  <2>2. after[n].kind # "event"
    BY <1>1, <1>3
  <2> QED
    BY ONLY <2>1, <2>2 DEF Breaks
<1>6. CASE ~ sub.overflowed
  <2>1. Released(sub) = sub.pending
    BY <1>6 DEF Released
  <2>2. \A j \in 0 .. n : At(held, wire, j).kind = "snapshot" /\ Straight(held, wire, j, n) =>
          \E m \in j .. n : At(held, wire, m).seq = sub.seq \/ At(held, wire, j).seq >= sub.seq
    <3> SUFFICES ASSUME NEW j \in 0 .. n, At(held, wire, j).kind = "snapshot",
                        Straight(held, wire, j, n)
                 PROVE  \E m \in j .. n : At(held, wire, m).seq = sub.seq
      OBVIOUS
    <3>1. j = n
      <4>1. j # n => n \in j + 1 .. n
        BY <1>1
      <4> QED
        BY <1>1, <4>1 DEF Straight
    <3> QED
      BY <1>1, <3>1
  <2>3. Run(Released(sub), log, sub.seq, top)
    BY <1>6, <2>1
  <2>4. StreamOK(held, after, log, due, start, top) /\ Reaches(held, after, top)
    BY <1>2, <2>2, <2>3, RunFollows
  <2> QED
    BY <1>5, <2>4
<1>7. CASE sub.overflowed
  <2>1. Released(sub) = <<Resync>>
    BY <1>7 DEF Released
  <2>2. StreamOK(held, after, log, due, start, top)
    BY <2>1, ResyncIsOK, BreakFollows
  <2>3. Len(Released(sub)) = 1 /\ Released(sub)[1] = Resync
    BY <2>1
  <2>4. Len(after) = n + 1 /\ after[n + 1] = Resync /\ n + 1 \in Nat /\ n + 1 # 0
    BY <1>1, <1>3, <2>3
  <2>5. At(held, after, n + 1).kind = "resync"
    BY <2>4, ResyncIsOK DEF At
  <2>6. Reaches(held, after, top)
    <3> SUFFICES ASSUME NEW j \in 0 .. n + 1, At(held, after, j).kind = "snapshot",
                        Straight(held, after, j, n + 1)
                 PROVE  FALSE
      BY <2>4 DEF Reaches
    <3>1. j # n + 1
      BY <2>5
    <3>2. n + 1 \in j + 1 .. n + 1
      BY <1>1, <3>1
    <3> QED
      BY <2>5, <3>2 DEF Straight
  <2> QED
    BY <1>5, <2>2, <2>6
<1> QED
  BY <1>6, <1>7

(***************************************************************************)
(* The snapshot, or the demand to resubscribe, and what was kept are sent. *)
(***************************************************************************)
LEMMA GoLive ==
  ASSUME DeliveryInv, NEW c \in Clients, NEW frame \in FrameRows,
         subscriptions[c].phase \in {"attached", "snapshot"},
         \/ frame = Resync
         \/ /\ subscriptions[c].phase = "snapshot"
            /\ frame = Snapshot(subscriptions[c].seq, subscriptions[c].data),
         wires' = [wires EXCEPT ![c] = (@ \o <<frame>>) \o Released(subscriptions[c])],
         subscriptions' = [subscriptions EXCEPT ![c] = Attached],
         UNCHANGED <<committed, unpublished, topic, highestSeq, topicClock, clients>>
  PROVE  DeliveryInv'
<1> DEFINE sub == subscriptions[c]
           held == Held(clients[c])
           wire == wires[c]
           told == wire \o <<frame>>
           top == State.seq
<1>0. DeliveryTyped
  BY DEF DeliveryInv
<1>1. State' = State /\ Start' = Start /\ Due' = Due
  BY DEF State, Base, Start, Due
<1>2. /\ sub \in SubscriptionRows /\ wire \in Seq(FrameRows) /\ clients[c] \in ClientRows
      /\ subscriptions \in [Clients -> SubscriptionRows] /\ wires \in [Clients -> Seq(FrameRows)]
  BY <1>0 DEF DeliveryTyped
<1>3. Attached \in SubscriptionRows /\ Attached.phase = "live"
      /\ Attached.pending = <<>> /\ ~ Attached.overflowed
  <2>1. <<>> \in Seq(FrameRows)
    OBVIOUS
  <2> QED
    BY <2>1 DEF Attached, Detached, SubscriptionRows
<1>4. subscriptions'[c] = Attached /\ wires'[c] = told \o Released(sub)
      /\ \A d \in Clients \ {c} : subscriptions'[d] = subscriptions[d] /\ wires'[d] = wires[d]
  BY <1>2
<1>5. told \in Seq(FrameRows) /\ Len(told) = Len(wire) + 1 /\ told[Len(wire) + 1] = frame
      /\ Len(wire) \in Nat
  <2>1. <<frame>> \in Seq(FrameRows) /\ Len(<<frame>>) = 1 /\ <<frame>>[1] = frame
    OBVIOUS
  <2> QED
    BY <1>2, <2>1, Joined
<1>6. wires'[c] \in Seq(FrameRows)
  <2>1. Released(sub) \in Seq(FrameRows)
    BY <1>2, ReleasedType
  <2> QED
    BY <1>4, <1>5, <2>1, Joined
<1>7. subscriptions' \in [Clients -> SubscriptionRows] /\ wires' \in [Clients -> Seq(FrameRows)]
  BY <1>2, <1>3, <1>4, <1>6
<1>8. topic # NoSeq
  BY <1>0 DEF DeliveryTyped
<1>9. DeliveryTyped'
  BY <1>0, <1>1, <1>7, <1>8 DEF DeliveryTyped
<1> HIDE DEF told
<1>10. ASSUME NEW log \in Log, BufferOK(State, log, Start), ClientOK(c, log)
       PROVE  ClientOK(c, log)'
  <2>1. Start \in Nat /\ top \in Nat
    BY <1>0, StateFacts
  <2>2. StreamOK(held, wire, log, Due, Start, top)
    BY <1>10 DEF ClientOK
  <2>3. /\ sub.seq \in Start .. top /\ \A i \in 0 .. Len(wire) : At(held, wire, i).seq <= sub.seq
        /\ ~ sub.overflowed => Run(sub.pending, log, sub.seq, top)
        /\ sub.phase = "snapshot" => Covers(Snapshot(sub.seq, sub.data), log, Due, Start, top)
    BY <1>10 DEF ClientOK, SubscriptionOK
  <2>4. frame.kind # "event" /\ FrameOK(frame, log, Due, Start, top)
        /\ (frame.kind = "snapshot" => frame.seq = sub.seq)
    <3>1. CASE frame = Resync
      BY <2>1, <3>1, ResyncIsOK
    <3>2. CASE sub.phase = "snapshot" /\ frame = Snapshot(sub.seq, sub.data)
      BY <2>1, <2>3, <3>2 DEF FrameOK, Snapshot
    <3> QED
      BY <3>1, <3>2
  <2>5. StreamOK(held, told, log, Due, Start, top)
    BY <2>1, <2>2, <2>3, <2>4, BreakFollows DEF told
  <2>6. log \in [Start + 1 .. top -> Nat]
    BY DEF Log
  <2>7. /\ Len(told) > 0 /\ told[Len(told)].kind # "event"
        /\ told[Len(told)].kind = "snapshot" => told[Len(told)].seq = sub.seq
    BY <1>5, <2>4
  <2> HIDE DEF held, top, sub
  <2>8. /\ StreamOK(held, told \o Released(sub), log, Due, Start, top)
        /\ Reaches(held, told \o Released(sub), top)
        /\ Breaks(told \o Released(sub))
    BY <1>2, <2>1, <2>3, <2>5, <2>6, <2>7, ReleasedFollows
  <2>9. SubscriptionOK(Attached, held, told \o Released(sub), clients[c].asked, log, Due, Start,
          top)
    BY <1>3, <2>8 DEF SubscriptionOK
  <2> QED
    BY <1>1, <1>4, <2>8, <2>9 DEF ClientOK, held, top, sub
<1> QED
  BY <1>1, <1>4, <1>9, <1>10, OneClientSteps

LEMMA AnswerSnapshotKeeps ==
  ASSUME DeliveryInv, NEW c \in Clients, AnswerSnapshot(c)
  PROVE  DeliveryInv'
<1> DEFINE frame == Snapshot(subscriptions[c].seq, subscriptions[c].data)
<1>1. subscriptions[c] \in SubscriptionRows
  BY DEF DeliveryInv, DeliveryTyped
<1>2. frame \in FrameRows
  BY <1>1 DEF SubscriptionRows, FrameRows, Snapshot
<1>3. wires' = [wires EXCEPT ![c] = (@ \o <<frame>>) \o Released(subscriptions[c])]
  BY DEF AnswerSnapshot, Snapshot
<1> HIDE DEF frame
<1> QED
  BY <1>2, <1>3, GoLive DEF AnswerSnapshot, frame

LEMMA FailSnapshotKeeps ==
  ASSUME DeliveryInv, NEW c \in Clients, FailSnapshot(c)
  PROVE  DeliveryInv'
<1>1. Resync \in FrameRows /\ Resync.kind = "resync"
  BY DEF Resync, FrameRows
<1> QED
  BY <1>1, GoLive DEF FailSnapshot

(***************************************************************************)
(* A later life of the topic, or of the process: every position known from *)
(* before is below where it starts.                                        *)
(***************************************************************************)
LEMMA NewLifeStarts ==
  ASSUME DeliveryInv, topicClock' = topicClock + 1, topic' = NoSeq,
         highestSeq' \in {highestSeq, 0}
  PROVE  /\ Start' \in Nat /\ highestSeq' \in Nat /\ highestSeq' < Start' /\ State'.seq = Start'
         /\ State'.buffer = <<>> /\ State.seq < Start' /\ State.seq \in Nat
<1>0. DeliveryTyped
  BY DEF DeliveryInv
<1>1. Start \in Nat /\ State.seq \in Nat /\ Start' = Start + Rate /\ Rate \in Nat
  <2>1. topicClock \in Nat /\ Rate \in Nat
    BY <1>0, DeliveryBounds DEF DeliveryTyped
  <2>2. (topicClock + 1) * Rate = topicClock * Rate + Rate
    BY <2>1
  <2> QED
    BY <1>0, <2>1, <2>2, StateFacts DEF Start
<1>2. State.seq < Start + Rate
  BY <1>0, <1>1, UnpublishedCount, DeliveryBounds DEF DeliveryTyped
<1>3. highestSeq \in Nat /\ highestSeq <= State.seq
  <2>1. CASE topic = NoSeq
    BY <1>0, <1>1, <2>1, StateFacts DEF DeliveryTyped
  <2>2. CASE topic # NoSeq
    BY <1>0, <1>1, <2>2, StateFacts DEF DeliveryTyped
  <2> QED
    BY <2>1, <2>2
<1>4. highestSeq' \in Nat /\ highestSeq' < Start' /\ Start' \in Nat
  BY SMTT(30), <1>1, <1>2, <1>3, DeliveryBounds
<1>5. State'.seq = Start' /\ State'.buffer = <<>>
  <2>1. Base' = Start'
    BY <1>4 DEF Base, Greater, Start
  <2> QED
    BY <2>1 DEF State
<1> QED
  BY <1>1, <1>2, <1>4, <1>5

LEMMA NewLife ==
  ASSUME DeliveryInv, topicClock' = topicClock + 1, topic' = NoSeq,
         highestSeq' \in {highestSeq, 0}, NEW newDue, NEW c \in Clients, NEW log
  PROVE  StreamOK(Held(clients[c]), <<>>, log, newDue, Start', Start')
<1> DEFINE held == Held(clients[c])
<1>1. Start' \in Nat /\ State.seq < Start' /\ State.seq \in Nat
  BY NewLifeStarts
<1>2. held \in FrameRows /\ held.kind # "event"
  BY HeldFacts DEF DeliveryTyped, DeliveryInv
<1>3. PICK old : StreamOK(held, wires[c], old, Due, Start, State.seq)
  BY DEF DeliveryInv, ClientOK
<1>4. held.seq <= State.seq /\ (held.kind = "resync" => held = Resync) /\ held.seq \in Nat
  <2>1. 0 \in 0 .. Len(wires[c]) /\ At(held, wires[c], 0) = held
    BY <1>3, FrameTypes DEF At
  <2> QED
    BY <1>2, <1>3, <2>1 DEF StreamOK, FrameOK, FrameRows
<1>5. FrameOK(held, log, newDue, Start', Start')
  BY <1>1, <1>2, <1>4 DEF FrameOK, Covers
<1> QED
  BY <1>1, <1>2, <1>5, NothingFollows

LEMMA NoBuffer ==
  ASSUME NEW state, NEW log, NEW start \in Nat, state.seq = start, state.buffer = <<>>
  PROVE  BufferOK(state, log, start)
<1>1. Len(state.buffer) = 0 /\ state.seq - Len(state.buffer) = start
  <2>1. Len(<<>>) = 0
    OBVIOUS
  <2> QED
    BY <2>1
<1> QED
  BY <1>1 DEF BufferOK

LEMMA EvictIdleKeeps ==
  ASSUME DeliveryInv, EvictIdle
  PROVE  DeliveryInv'
<1>log. PICK log : log = [s \in Start' + 1 .. Start' |-> 0]
  OBVIOUS
<1>0. DeliveryTyped
  BY DEF DeliveryInv
<1>1. topicClock' = topicClock + 1 /\ topic' = NoSeq /\ highestSeq' = highestSeq /\ Due' = Due
      /\ UNCHANGED <<committed, unpublished, subscriptions, wires, clients>>
  BY DEF EvictIdle, Due
<1>2. ASSUME NEW c \in Clients
      PROVE  wires[c] = <<>> /\ subscriptions[c].phase = "none"
             /\ subscriptions[c].pending = <<>> /\ ~ subscriptions[c].overflowed
  BY DEF EvictIdle, DeliveryInv, ClientOK, SubscriptionOK
<1>3. ASSUME NEW c \in Clients
      PROVE  StreamOK(Held(clients[c]), <<>>, log, Due, Start', Start')
  BY <1>1, NewLife
<1>4. /\ Start' \in Nat /\ highestSeq' \in Nat /\ highestSeq' < Start' /\ State'.seq = Start'
      /\ State'.buffer = <<>>
  BY <1>1, NewLifeStarts
<1>5. DeliveryTyped'
  <2>1. State'.seq + Cardinality(unpublished') <= Start' + committed'
    <3>1. Cardinality(unpublished) <= committed
      BY <1>0, UnpublishedCount
    <3> QED
      BY <1>0, <1>1, <1>4, <3>1, UnpublishedCount DEF DeliveryTyped
  <2>2. topicClock' \in Nat \ {0}
    BY <1>0, <1>1 DEF DeliveryTyped
  <2> QED
    BY <1>0, <1>1, <1>2, <1>4, <2>1, <2>2 DEF DeliveryTyped
<1>6. log \in Log' /\ BufferOK(State, log, Start)'
  <2>1. log \in Log'
    BY <1>4, <1>log DEF Log
  <2>2. BufferOK(State', log, Start')
    BY <1>4, NoBuffer
  <2> QED
    BY <2>1, <2>2
<1>7. ASSUME NEW c \in Clients
      PROVE  ClientOK(c, log)'
  <2>1. SubscriptionOK(subscriptions[c], Held(clients[c]), <<>>, clients[c].asked, log, Due,
                       Start', Start')
    BY <1>2 DEF SubscriptionOK
  <2> QED
    BY <1>1, <1>2, <1>3, <1>4, <2>1 DEF ClientOK
<1> QED
  BY <1>5, <1>6, <1>7 DEF DeliveryInv

LEMMA RestartProcessKeeps ==
  ASSUME DeliveryInv, RestartProcess
  PROVE  DeliveryInv'
<1>log. PICK log : log = [s \in Start' + 1 .. Start' |-> 0]
  OBVIOUS
<1>0. DeliveryTyped
  BY DEF DeliveryInv
<1>1. topicClock' = topicClock + 1 /\ topic' = NoSeq /\ highestSeq' = 0 /\ unpublished' = {}
      /\ committed' = committed
  BY DEF RestartProcess
<1>2. /\ Detached \in SubscriptionRows /\ Detached.phase = "none" /\ Detached.pending = <<>>
      /\ ~ Detached.overflowed /\ <<>> \in Seq(FrameRows)
  <2>1. <<>> \in Seq(FrameRows)
    OBVIOUS
  <2> QED
    BY <2>1 DEF Detached, SubscriptionRows
<1>3. /\ clients' \in [Clients -> ClientRows] /\ subscriptions' \in [Clients -> SubscriptionRows]
      /\ wires' \in [Clients -> Seq(FrameRows)]
      /\ \A c \in Clients : /\ subscriptions'[c] = Detached /\ wires'[c] = <<>>
                            /\ clients'[c].settled = clients[c].settled
                            /\ clients'[c].cursor = clients[c].cursor
                            /\ clients'[c].applied = clients[c].applied
                            /\ clients'[c].asked
  <2>1. clients \in [Clients -> ClientRows]
    BY <1>0 DEF DeliveryTyped
  <2> QED
    BY <1>2, <2>1 DEF RestartProcess, ClientRows
<1>4. /\ Start' \in Nat /\ highestSeq' \in Nat /\ highestSeq' < Start' /\ State'.seq = Start'
      /\ State'.buffer = <<>>
  BY <1>1, NewLifeStarts
<1>5. DeliveryTyped'
  <2>1. State'.seq + Cardinality(unpublished') <= Start' + committed'
    BY <1>0, <1>1, <1>4, FS_EmptySet DEF DeliveryTyped
  <2>2. topicClock' \in Nat \ {0}
    BY <1>0, <1>1 DEF DeliveryTyped
  <2> QED
    BY <1>0, <1>1, <1>2, <1>3, <1>4, <2>1, <2>2 DEF DeliveryTyped
<1>6. log \in Log' /\ BufferOK(State, log, Start)'
  <2>1. log \in Log'
    BY <1>4, <1>log DEF Log
  <2>2. BufferOK(State', log, Start')
    BY <1>4, NoBuffer
  <2> QED
    BY <2>1, <2>2
<1>7. ASSUME NEW c \in Clients
      PROVE  ClientOK(c, log)'
  <2>1. Held(clients'[c]) = Held(clients[c])
    BY <1>3 DEF Held
  <2>2. StreamOK(Held(clients[c]), <<>>, log, Due', Start', Start')
    BY <1>1, NewLife
  <2>3. SubscriptionOK(Detached, Held(clients[c]), <<>>, clients'[c].asked, log, Due', Start',
          Start')
    BY <1>2 DEF SubscriptionOK
  <2> QED
    BY <1>3, <1>4, <2>1, <2>2, <2>3 DEF ClientOK
<1> QED
  BY <1>5, <1>6, <1>7 DEF DeliveryInv

\* The entries of a buffer are the log's, from the one after low on.
Follows(buffer, log, low) ==
  \A i \in 1 .. Len(buffer) : buffer[i] = [seq |-> low + i, change |-> log[low + i]]

(***************************************************************************)
(* Publication: the buffer, and each subscription.                         *)
(***************************************************************************)
LEMMA PushKeeps ==
  ASSUME NEW state \in TopicRows, NEW start \in Nat, NEW log \in [start + 1 .. state.seq -> Nat],
         BufferOK(state, log, start), NEW change \in Nat
  PROVE  LET entry == [seq |-> state.seq + 1, change |-> change]
             later == [seq |-> entry.seq, buffer |-> Push(state.buffer, entry)]
         IN  later \in TopicRows /\ BufferOK(later, LogWith(log, start, state.seq, change), start)
<1> DEFINE top == state.seq
           entry == [seq |-> top + 1, change |-> change]
           buffer == state.buffer
           pushed == Push(buffer, entry)
           longer == LogWith(log, start, top, change)
           low == top - Len(buffer)
<1>1. top \in Nat /\ buffer \in Seq(EntryRows) /\ entry \in EntryRows /\ Len(buffer) \in Nat
  BY DEF TopicRows, EntryRows
<1>2. low >= start /\ low \in Nat /\ low = top - Len(buffer)
      /\ \A i \in 1 .. Len(buffer) : buffer[i] = [seq |-> low + i, change |-> log[low + i]]
  <2>1. low >= start
        /\ \A i \in 1 .. Len(buffer) : buffer[i] = [seq |-> low + i, change |-> log[low + i]]
    BY DEF BufferOK
  <2>2. low \in Nat
    BY <1>1, <2>1
  <2> QED
    BY <2>1, <2>2
<1>3. longer[top + 1] = change /\ \A s \in start + 1 .. top : longer[s] = log[s]
  BY <1>1, <1>2 DEF LogWith
<1> HIDE DEF longer, entry, low, pushed
<1>4. \A i \in 1 .. Len(buffer) : buffer[i] = [seq |-> low + i, change |-> longer[low + i]]
  <2> SUFFICES ASSUME NEW i \in 1 .. Len(buffer)
               PROVE  buffer[i] = [seq |-> low + i, change |-> longer[low + i]]
    OBVIOUS
  <2>1. low + i \in start + 1 .. top
    BY <1>1, <1>2
  <2>2. longer[low + i] = log[low + i]
    BY <1>3, <2>1
  <2> QED
    BY <1>2, <2>2
<1>5. entry = [seq |-> top + 1, change |-> longer[top + 1]]
  BY <1>3 DEF entry
<1>6. ASSUME Len(buffer) < Capacity
      PROVE  /\ [seq |-> top + 1, buffer |-> pushed] \in TopicRows
             /\ BufferOK([seq |-> top + 1, buffer |-> pushed], longer, start)
  <2>1. pushed = Append(buffer, entry)
    BY <1>6 DEF Push, pushed
  <2>2. /\ pushed \in Seq(EntryRows) /\ Len(pushed) = Len(buffer) + 1
        /\ pushed[Len(buffer) + 1] = entry /\ \A i \in 1 .. Len(buffer) : pushed[i] = buffer[i]
    BY <1>1, <2>1
  <2>3. low = (top + 1) - Len(pushed)
    BY SMTT(30), <1>1, <1>2, <2>2
  <2>4. ASSUME NEW i \in 1 .. Len(pushed)
        PROVE  pushed[i] = [seq |-> low + i, change |-> longer[low + i]]
    <3>1. CASE i = Len(buffer) + 1
      <4>1. low + i = top + 1
        BY <1>1, <1>2, <3>1
      <4> QED
        BY <1>5, <2>2, <3>1, <4>1
    <3>2. CASE i \in 1 .. Len(buffer)
      BY <1>4, <2>2, <3>2
    <3> QED
      BY <1>1, <2>2, <3>1, <3>2
  <2>5. Follows(pushed, longer, low)
    BY <2>4 DEF Follows
  <2>6. top + 1 \in Nat
    BY <1>1
  <2> DEFINE row == [seq |-> top + 1, buffer |-> pushed]
  <2>7. row \in TopicRows /\ row.seq = top + 1 /\ row.buffer = pushed
    BY <2>2, <2>6 DEF TopicRows
  <2> HIDE DEF row
  <2>8. BufferOK(row, longer, start)
    <3>1. row.seq - Len(row.buffer) = low
      BY <2>3, <2>7
    <3>2. Follows(row.buffer, longer, low)
      BY <2>5, <2>7
    <3> QED
      BY ONLY <1>2, <3>1, <3>2 DEF BufferOK, Follows
  <2> QED
    BY <2>7, <2>8 DEF row
<1>7. ASSUME ~ (Len(buffer) < Capacity)
      PROVE  /\ [seq |-> top + 1, buffer |-> pushed] \in TopicRows
             /\ BufferOK([seq |-> top + 1, buffer |-> pushed], longer, start)
  <2>1. pushed = Append(Tail(buffer), entry) /\ Len(buffer) > 0
    <3>1. Len(buffer) > 0
      BY <1>1, <1>7, DeliveryBounds
    <3>2. Push(buffer, entry) = Append(Tail(buffer), entry)
      BY <1>7 DEF Push
    <3> QED
      BY <3>1, <3>2 DEF pushed
  <2>2. /\ Tail(buffer) \in Seq(EntryRows) /\ Len(Tail(buffer)) = Len(buffer) - 1
        /\ \A i \in 1 .. Len(buffer) - 1 : Tail(buffer)[i] = buffer[i + 1]
    BY <1>1, <2>1
  <2>3. /\ pushed \in Seq(EntryRows) /\ Len(pushed) = Len(buffer)
        /\ pushed[Len(buffer)] = entry /\ \A i \in 1 .. Len(buffer) - 1 :
             pushed[i] = Tail(buffer)[i]
    BY <1>1, <2>1, <2>2
  <2>4. low + 1 = (top + 1) - Len(pushed)
    BY <1>1, <1>2, <2>3
  <2>5. ASSUME NEW i \in 1 .. Len(pushed)
        PROVE  pushed[i] = [seq |-> (low + 1) + i, change |-> longer[(low + 1) + i]]
    <3>1. CASE i = Len(buffer)
      <4>1. (low + 1) + i = top + 1
        BY <1>1, <1>2, <3>1
      <4> QED
        BY <1>5, <2>3, <3>1, <4>1
    <3>2. CASE i \in 1 .. Len(buffer) - 1
      <4>1. PICK h \in 1 .. Len(buffer) : h = i + 1
        <5>1. i + 1 \in 1 .. Len(buffer)
          BY <1>1, <3>2
        <5> QED
          BY <5>1
      <4>2. pushed[i] = buffer[h]
        BY <2>2, <2>3, <3>2, <4>1
      <4>3. (low + 1) + i = low + h
        BY <1>1, <1>2, <4>1
      <4> QED
        BY <1>4, <4>2, <4>3
    <3> QED
      BY <1>1, <2>3, <3>1, <3>2
  <2>6. low + 1 >= start /\ low + 1 \in Nat /\ top + 1 \in Nat
    BY <1>1, <1>2
  <2>7. Follows(pushed, longer, low + 1)
    BY <2>5 DEF Follows
  <2> DEFINE row == [seq |-> top + 1, buffer |-> pushed]
             next == low + 1
  <2>8. row \in TopicRows /\ row.seq = top + 1 /\ row.buffer = pushed
    BY <2>3, <2>6 DEF TopicRows
  <2>9. row.seq - Len(row.buffer) = next
    BY <2>4, <2>8
  <2>10. Follows(row.buffer, longer, next)
    BY <2>7, <2>8
  <2>11. next \in Nat /\ next >= start
    BY <2>6
  <2> HIDE DEF row, next
  <2>12. BufferOK(row, longer, start)
    BY ONLY <2>9, <2>10, <2>11 DEF BufferOK, Follows
  <2> QED
    BY <2>8, <2>12 DEF row
<1>8. entry.seq = top + 1
  BY DEF entry
<1> QED
  <2>1. [seq |-> entry.seq, buffer |-> pushed] = [seq |-> top + 1, buffer |-> pushed]
    BY <1>8
  <2> QED
    BY <1>6, <1>7, <2>1 DEF entry, longer, pushed

SubscriptionAfter(sub, frame) ==
  IF sub.phase \in {"attached", "snapshot"} THEN Queued(sub, frame) ELSE sub
WireAfter(sub, wire, frame) ==
  IF sub.phase = "live" THEN Append(wire, frame) ELSE wire

LEMMA PhaseStays ==
  ASSUME NEW sub \in SubscriptionRows, NEW frame \in FrameRows
  PROVE  /\ SubscriptionAfter(sub, frame) \in SubscriptionRows
         /\ SubscriptionAfter(sub, frame).phase = sub.phase
<1>1. sub.pending \in Seq(FrameRows) /\ Append(sub.pending, frame) \in Seq(FrameRows)
      /\ <<>> \in Seq(FrameRows)
  BY DEF SubscriptionRows
<1> QED
  BY <1>1 DEF SubscriptionAfter, Queued, SubscriptionRows

LEMMA PublishedToClient ==
  ASSUME NEW held, NEW wire, NEW log, NEW due, NEW start \in Nat, NEW top \in Nat,
         StreamOK(held, wire, log, due, start, top), log \in [start + 1 .. top -> Nat],
         NEW sub \in SubscriptionRows, NEW asked, top >= start,
         SubscriptionOK(sub, held, wire, asked, log, due, start, top),
         NEW change \in Nat, NEW later, later = top + 1, NEW frame,
         frame = EventFrame([seq |-> later, change |-> change]),
         NEW longer, longer = LogWith(log, start, top, change)
  PROVE  /\ StreamOK(held, WireAfter(sub, wire, frame), longer, due \cup {change}, start, later)
         /\ SubscriptionOK(SubscriptionAfter(sub, frame), held, WireAfter(sub, wire, frame), asked,
                           longer, due \cup {change}, start, later)
<1> DEFINE dues == due \cup {change}
           newSub == SubscriptionAfter(sub, frame)
           newWire == WireAfter(sub, wire, frame)
<1>1. StreamOK(held, wire, longer, dues, start, top + 1)
  BY PublishedOnWire
<1>2. frame \in FrameRows /\ frame = LogFrame(longer, top + 1)
      /\ longer \in [start + 1 .. top + 1 -> Nat]
      /\ \A s \in start + 1 .. top : longer[s] = log[s]
  BY DEF EventFrame, FrameRows, LogFrame, LogWith
<1>3. wire \in Seq(FrameRows) /\ Len(wire) \in Nat
  BY FrameTypes DEF StreamOK
<1> HIDE DEF dues
<1>4. CASE sub.phase = "live"
  <2>1. newSub = sub /\ newWire = wire \o <<frame>>
    <3>1. newSub = sub /\ newWire = Append(wire, frame)
      BY <1>4 DEF SubscriptionAfter, WireAfter
    <3> QED
      BY <1>2, <1>3, <3>1, AppendIsConcat
  <2>2. <<frame>> \in Seq(FrameRows) /\ Run(<<frame>>, longer, top, top + 1)
    <3>1. <<frame>> \in Seq(FrameRows) /\ Len(<<frame>>) = 1 /\ <<frame>>[1] = frame
      BY <1>2
    <3> QED
      BY <1>2, <3>1 DEF Run
  <2>3. Reaches(held, wire, top) /\ (asked \/ held.kind = "snapshot" \/ Breaks(wire))
        /\ sub.pending = <<>> /\ ~ sub.overflowed
    BY <1>4 DEF SubscriptionOK
  <2>4. \A j \in 0 .. Len(wire) :
          At(held, wire, j).kind = "snapshot" /\ Straight(held, wire, j, Len(wire)) =>
            \E m \in j .. Len(wire) : At(held, wire, m).seq = top \/ At(held, wire, j).seq >= top
    BY <2>3 DEF Reaches
  <2>5. top + 1 \in Nat /\ top \in start .. top + 1
    OBVIOUS
  <2>6. StreamOK(held, newWire, longer, dues, start, top + 1) /\ Reaches(held, newWire, top + 1)
    <3>1. later \in Nat /\ later = top + 1
      BY <2>5
    <3>2. /\ StreamOK(held, wire, longer, dues, start, later) /\ top \in start .. later
          /\ longer \in [start + 1 .. later -> Nat] /\ Run(<<frame>>, longer, top, later)
      BY <1>1, <1>2, <2>2, <2>5, <3>1
    <3>3. StreamOK(held, wire \o <<frame>>, longer, dues, start, later)
          /\ Reaches(held, wire \o <<frame>>, later)
      BY ONLY <2>2, <2>4, <3>1, <3>2, later \in Nat, start \in Nat, RunFollows
    <3> QED
      BY <2>1, <3>1, <3>3
  <2>7. Breaks(wire) => Breaks(newWire)
    <3>1. /\ newWire \in Seq(FrameRows) /\ Len(newWire) = Len(wire) + 1
          /\ \A i \in 1 .. Len(wire) : newWire[i] = wire[i]
      BY <1>2, <1>3, <1>4 DEF WireAfter
    <3> HIDE DEF newWire
    <3>2. ASSUME NEW i \in 1 .. Len(wire), wire[i].kind # "event"
          PROVE  i \in 1 .. Len(newWire) /\ newWire[i].kind # "event"
      BY <1>3, <3>1, <3>2
    <3> QED
      BY <3>2 DEF Breaks
  <2>8. SubscriptionOK(newSub, held, newWire, asked, longer, dues, start, top + 1)
    BY <1>4, <2>1, <2>3, <2>6, <2>7 DEF SubscriptionOK
  <2> QED
    BY <2>6, <2>8 DEF dues
<1>5. CASE sub.phase \in {"attached", "snapshot"}
  <2>1. newSub = Queued(sub, frame) /\ newWire = wire
    BY <1>5 DEF SubscriptionAfter, WireAfter
  <2>2. /\ sub.seq \in start .. top /\ \A i \in 0 .. Len(wire) : At(held, wire, i).seq <= sub.seq
        /\ ~ sub.overflowed => Run(sub.pending, log, sub.seq, top)
        /\ sub.phase = "snapshot" => Covers(Snapshot(sub.seq, sub.data), log, due, start, top)
    BY <1>5 DEF SubscriptionOK
  <2>3. sub.pending \in Seq(FrameRows) /\ Append(sub.pending, frame) \in Seq(FrameRows)
        /\ <<>> \in Seq(FrameRows)
    BY <1>2 DEF SubscriptionRows
  <2>4. /\ newSub \in SubscriptionRows /\ newSub.phase = sub.phase /\ newSub.seq = sub.seq
        /\ newSub.data = sub.data
        /\ ~ newSub.overflowed => /\ ~ sub.overflowed
                                  /\ newSub.pending = Append(sub.pending, frame)
    BY <1>2, <2>1, <2>3 DEF Queued, SubscriptionRows
  <2>5. ASSUME ~ sub.overflowed
        PROVE  Run(Append(sub.pending, frame), longer, sub.seq, top + 1)
    <3> DEFINE longerRun == Append(sub.pending, frame)
               k == Len(sub.pending)
    <3>1. k = top - sub.seq /\ \A i \in 1 .. k : sub.pending[i] = LogFrame(log, sub.seq + i)
      BY <2>2, <2>5 DEF Run
    <3>2. k \in Nat /\ sub.seq \in Nat
      BY <2>2, <2>3
    <3>3. Len(longerRun) = k + 1 /\ longerRun[k + 1] = frame
          /\ \A i \in 1 .. k : longerRun[i] = sub.pending[i]
      BY <1>2, <2>3
    <3> HIDE DEF longerRun, k
    <3>4. ASSUME NEW i \in 1 .. k + 1
          PROVE  longerRun[i] = LogFrame(longer, sub.seq + i)
      <4>1. CASE i = k + 1
        <5>1. sub.seq + i = top + 1
          BY SMTT(30), <3>1, <3>2, <4>1
        <5> QED
          BY <1>2, <3>3, <4>1, <5>1
      <4>2. CASE i \in 1 .. k
        <5>1. sub.seq + i \in start + 1 .. top
          BY SMTT(30), <2>2, <3>1, <3>2, <4>2
        <5>2. longer[sub.seq + i] = log[sub.seq + i]
          BY <1>2, <5>1
        <5> QED
          BY <3>1, <3>3, <4>2, <5>2 DEF LogFrame
      <4> QED
        BY <3>2, <4>1, <4>2
    <3>5. Len(longerRun) = (top + 1) - sub.seq
      BY SMTT(30), <3>1, <3>2, <3>3
    <3>6. \A i \in 1 .. Len(longerRun) : longerRun[i] = LogFrame(longer, sub.seq + i)
      BY <3>3, <3>4
    <3>7. Run(longerRun, longer, sub.seq, top + 1)
      BY ONLY <3>5, <3>6 DEF Run
    <3> QED
      BY <3>7 DEF longerRun
  <2>6. sub.phase = "snapshot" =>
          Covers(Snapshot(sub.seq, sub.data), longer, dues, start, top + 1)
    <3>1. Snapshot(sub.seq, sub.data).seq = sub.seq /\ sub.seq \in Nat /\ sub.seq <= top
      BY <2>2 DEF Snapshot
    <3> QED
      BY <2>2, <3>1, StillCovers DEF dues
  <2>7. sub.seq \in start .. top + 1
    BY <2>2
  <2>8. SubscriptionOK(newSub, held, wire, asked, longer, dues, start, top + 1)
    <3>1. newSub.phase \in {"attached", "snapshot"}
      BY <1>5, <2>4
    <3>2. ~ newSub.overflowed => Run(newSub.pending, longer, newSub.seq, top + 1)
      BY <2>4, <2>5
    <3> QED
      BY <2>2, <2>4, <2>6, <2>7, <3>1, <3>2 DEF SubscriptionOK
  <2> QED
    BY <1>1, <2>1, <2>8 DEF dues
<1>6. CASE sub.phase = "none"
  <2>1. newSub = sub /\ newWire = wire
    BY <1>6 DEF SubscriptionAfter, WireAfter
  <2>2. SubscriptionOK(sub, held, wire, asked, longer, dues, start, top + 1)
    BY <1>6 DEF SubscriptionOK
  <2> QED
    BY <1>1, <2>1, <2>2 DEF dues
<1> QED
  BY <1>4, <1>5, <1>6 DEF SubscriptionRows

LEMMA PublishKeeps ==
  ASSUME DeliveryInv, NEW change \in unpublished, Publish(change)
  PROVE  DeliveryInv'
<1> DEFINE top == State.seq
           entry == [seq |-> top + 1, change |-> change]
           frame == EventFrame(entry)
<1>0. DeliveryTyped
  BY DEF DeliveryInv
<1>1. /\ Start \in Nat /\ State \in TopicRows /\ top \in Nat
      /\ Greater(highestSeq, top) = top
  BY <1>0, StateFacts
<1>2. change \in Nat /\ change \in 1 .. committed
  BY <1>0 DEF DeliveryTyped
<1>3. PICK log \in Log : BufferOK(State, log, Start) /\ \A c \in Clients : ClientOK(c, log)
  BY DEF DeliveryInv
<1>longer. PICK longer : longer = LogWith(log, Start, top, change)
  OBVIOUS
<1>4. log \in [Start + 1 .. top -> Nat] /\ top >= Start
  <2>1. Len(State.buffer) \in Nat
    BY <1>1 DEF TopicRows
  <2> QED
    BY <1>1, <1>3, <2>1 DEF Log, BufferOK
<1>5. topic' \in TopicRows /\ topic'.seq = top + 1 /\ BufferOK(topic', longer, Start)
  BY <1>1, <1>2, <1>3, <1>4, <1>longer, PushKeeps DEF Publish
<1>6. State' = topic' /\ topic' # NoSeq /\ highestSeq' = top + 1 /\ Start' = Start
  <2>1. topic' # NoSeq
    BY <1>5, DeliveryBounds DEF TopicRows, EntryRows
  <2>2. highestSeq' = Greater(highestSeq, top + 1)
    BY DEF Publish
  <2>3. Greater(highestSeq, top + 1) = top + 1
    <3>1. highestSeq \in Int
      BY <1>0, <1>1, StateFacts DEF DeliveryTyped
    <3> QED
      BY <1>1, <3>1 DEF Greater
  <2> QED
    BY <2>1, <2>2, <2>3 DEF State, Publish, Start
<1>7. Due' = Due \cup {change}
  BY <1>2 DEF Due, Publish
<1>8. ASSUME NEW c \in Clients
      PROVE  /\ subscriptions'[c] \in SubscriptionRows
             /\ subscriptions'[c].phase = subscriptions[c].phase
             /\ wires'[c] \in Seq(FrameRows)
             /\ StreamOK(Held(clients[c]), wires'[c], longer, Due \cup {change}, Start, top + 1)
             /\ SubscriptionOK(subscriptions'[c], Held(clients[c]), wires'[c], clients[c].asked,
                               longer, Due \cup {change}, Start, top + 1)
  <2>1. /\ StreamOK(Held(clients[c]), wires[c], log, Due, Start, top)
        /\ SubscriptionOK(subscriptions[c], Held(clients[c]), wires[c], clients[c].asked, log, Due,
                          Start, top)
    BY <1>3 DEF ClientOK
  <2>2. subscriptions[c] \in SubscriptionRows
    BY <1>0 DEF DeliveryTyped
  <2>3. /\ subscriptions'[c] = SubscriptionAfter(subscriptions[c], frame)
        /\ wires'[c] = WireAfter(subscriptions[c], wires[c], frame)
    BY DEF Publish, SubscriptionAfter, WireAfter
  <2> HIDE DEF top
  <2>4. frame = EventFrame([seq |-> top + 1, change |-> change])
    OBVIOUS
  <2> HIDE DEF frame
  <2> QED
    <3>1. top \in Nat /\ Start \in Nat /\ top >= Start /\ log \in [Start + 1 .. top -> Nat]
      BY <1>1, <1>4 DEF top
    <3>2. longer = LogWith(log, Start, top, change)
      BY <1>longer DEF top
    <3>3. /\ StreamOK(Held(clients[c]), wires[c], log, Due, Start, top)
          /\ SubscriptionOK(subscriptions[c], Held(clients[c]), wires[c], clients[c].asked, log,
                            Due, Start, top)
      BY <2>1 DEF top
    <3>4. subscriptions'[c] \in SubscriptionRows /\ subscriptions'[c].phase = subscriptions[c].phase
      <4>1. frame \in FrameRows
        BY <1>2, <2>4, <3>1 DEF EventFrame, FrameRows
      <4> QED
        BY <2>2, <2>3, <4>1, PhaseStays
    <3>5. /\ StreamOK(Held(clients[c]), wires'[c], longer, Due \cup {change}, Start, top + 1)
          /\ SubscriptionOK(subscriptions'[c], Held(clients[c]), wires'[c], clients[c].asked,
                            longer, Due \cup {change}, Start, top + 1)
      <4>1. PICK later : later = top + 1
        OBVIOUS
      <4>2. frame = EventFrame([seq |-> later, change |-> change])
        BY <2>4, <4>1
      <4>3. /\ StreamOK(Held(clients[c]), WireAfter(subscriptions[c], wires[c], frame), longer,
                        Due \cup {change}, Start, later)
            /\ SubscriptionOK(SubscriptionAfter(subscriptions[c], frame), Held(clients[c]),
                              WireAfter(subscriptions[c], wires[c], frame), clients[c].asked,
                              longer, Due \cup {change}, Start, later)
        BY ONLY <1>2, <2>2, <3>1, <3>2, <3>3, <4>1, <4>2, PublishedToClient
      <4> QED
        BY <2>3, <4>1, <4>3
    <3> QED
      BY <3>4, <3>5 DEF StreamOK, top
<1>9. DeliveryTyped'
  <2>1. IsFiniteSet(unpublished) /\ Cardinality(unpublished') = Cardinality(unpublished) - 1
    BY <1>0, UnpublishedCount, FS_RemoveElement DEF Publish
  <2>2. State'.seq + Cardinality(unpublished') <= Start' + committed'
    BY <1>0, <1>1, <1>5, <1>6, <2>1, UnpublishedCount DEF DeliveryTyped, Publish
  <2>3. subscriptions' \in [Clients -> SubscriptionRows] /\ wires' \in [Clients -> Seq(FrameRows)]
    <3>1. DOMAIN subscriptions' = Clients /\ DOMAIN wires' = Clients
      BY DEF Publish
    <3>2. /\ subscriptions' = [c \in Clients |-> subscriptions'[c]]
          /\ wires' = [c \in Clients |-> wires'[c]]
      BY DEF Publish
    <3> QED
      BY <1>8, <3>2
  <2> QED
    BY <1>0, <1>5, <1>6, <2>2, <2>3 DEF DeliveryTyped, Publish
<1>10. longer \in Log'
  BY <1>1, <1>2, <1>4, <1>5, <1>6, <1>longer DEF Log, LogWith
<1>11. BufferOK(State, longer, Start)'
  BY <1>5, <1>6
<1>12. \A c \in Clients : ClientOK(c, longer)'
  BY <1>5, <1>6, <1>7, <1>8 DEF ClientOK, Publish
<1> QED
  BY <1>9, <1>10, <1>11, <1>12 DEF DeliveryInv

(***************************************************************************)
(* Replay: what the buffer holds after a cursor are the events that follow *)
(* it.                                                                     *)
(***************************************************************************)
Entries(tail, log, from, top) ==
  /\ Len(tail) = top - from
  /\ \A i \in 1 .. Len(tail) : tail[i] = [seq |-> from + i, change |-> log[from + i]]

LEMMA ReplayFollows ==
  ASSUME NEW state \in TopicRows, NEW start \in Nat, NEW log \in [start + 1 .. state.seq -> Nat],
         BufferOK(state, log, start), NEW cursor \in Nat, CanReplayAfter(cursor, state),
         NEW tail, tail = After(state.buffer, cursor)
  PROVE  cursor \in start .. state.seq /\ Entries(tail, log, cursor, state.seq)
<1> DEFINE top == state.seq
           buffer == state.buffer
           n == Len(buffer)
           low == top - n
           earlier == {i \in 1 .. n : buffer[i].seq <= cursor}
           k == cursor - low
<1>1. top \in Nat /\ buffer \in Seq(EntryRows) /\ n \in Nat
  BY DEF TopicRows
<1>2. low >= start /\ low \in Nat
      /\ \A i \in 1 .. n : buffer[i] = [seq |-> low + i, change |-> log[low + i]]
  BY <1>1 DEF BufferOK
<1>3. cursor <= top /\ cursor >= low
  <2>1. CASE cursor = top
    BY <1>1, <2>1
  <2>2. CASE buffer # <<>> /\ cursor >= Head(buffer).seq - 1
    <3>1. n > 0 /\ Head(buffer) = buffer[1]
      BY <1>1, <2>2
    <3>2. buffer[1] = [seq |-> low + 1, change |-> log[low + 1]]
      <4>1. 1 \in 1 .. n
        BY <1>1, <3>1
      <4> QED
        BY <1>2, <4>1
    <3>3. Head(buffer).seq = low + 1
      BY <3>1, <3>2
    <3> QED
      BY <1>1, <1>2, <2>2, <3>3 DEF CanReplayAfter
  <2> QED
    BY <2>1, <2>2 DEF CanReplayAfter
<1>4. k \in 0 .. n /\ k \in Nat /\ k = cursor - low /\ low = top - n
  BY <1>1, <1>2, <1>3
<1> HIDE DEF low, k
<1>5. earlier = 1 .. k
  <2>1. ASSUME NEW i \in 1 .. n
        PROVE  buffer[i].seq = low + i
    <3>1. buffer[i] = [seq |-> low + i, change |-> log[low + i]]
      BY <1>2
    <3> QED
      BY <3>1
  <2>2. ASSUME NEW i \in 1 .. n
        PROVE  (buffer[i].seq <= cursor) <=> (i <= k)
    <3>0. low \in Nat
      BY <1>2
    <3>1. (low + i <= cursor) <=> (i <= k)
      BY ONLY <1>1, <1>4, <3>0, i \in 1 .. n, cursor \in Nat
    <3> QED
      BY <2>1, <3>1
  <2>3. 1 .. k \subseteq 1 .. n
    BY <1>1, <1>4
  <2> QED
    BY <1>1, <1>4, <2>2, <2>3
<1>6. Cardinality(earlier) = k
  <2>1. Cardinality(1 .. k) = k
    BY <1>4, FS_Interval
  <2> QED
    BY <1>5, <2>1
<1>7. tail = SubSeq(buffer, k + 1, n)
  BY <1>6 DEF After
<1>8. /\ Len(tail) = n - k /\ \A i \in 1 .. n - k : tail[i] = buffer[k + i]
  <2>1. \A i \in k + 1 .. n : buffer[i] \in EntryRows
    BY <1>1, <1>4
  <2>2. /\ Len(tail) = IF k + 1 <= n THEN n - (k + 1) + 1 ELSE 0
        /\ \A i \in 1 .. n - (k + 1) + 1 : tail[i] = buffer[(k + 1) + i - 1]
    <3>1. k + 1 \in Int /\ n \in Int
      BY <1>1, <1>4
    <3> HIDE DEF buffer, n
    <3> QED
      BY <1>7, <2>1, <3>1, SubSeqProperties
  <2>3. n - (k + 1) + 1 = n - k /\ Len(tail) = n - k
    <3>1. CASE k = n
      BY <1>1, <2>2, <3>1
    <3>2. CASE k < n
      <4>1. k + 1 <= n /\ n - (k + 1) + 1 = n - k
        BY <1>1, <1>4, <3>2
      <4> QED
        BY <2>2, <4>1
    <3> QED
      BY <1>1, <1>4, <3>1, <3>2
  <2>4. ASSUME NEW i \in 1 .. n - k
        PROVE  tail[i] = buffer[k + i]
    <3>1. (k + 1) + i - 1 = k + i
      BY <1>1, <1>4
    <3> QED
      BY <2>2, <2>3, <3>1
  <2> QED
    BY <2>3, <2>4
<1> HIDE DEF n, buffer, top
<1>9. Len(tail) = top - cursor
  BY <1>1, <1>2, <1>4, <1>8
<1>10. ASSUME NEW i \in 1 .. Len(tail)
       PROVE  tail[i] = [seq |-> cursor + i, change |-> log[cursor + i]]
  <2>1. i \in 1 .. n - k /\ low + (k + i) = cursor + i /\ k + i \in 1 .. n
    <3>1. i \in 1 .. n - k
      BY <1>8
    <3>2. low \in Nat
      BY <1>2
    <3>3. k + i \in 1 .. n
      BY <1>1, <1>4, <3>1
    <3>4. low + k = cursor
      BY <1>4, <3>2
    <3>5. low + (k + i) = (low + k) + i
      BY <1>4, <3>1, <3>2
    <3> QED
      BY <3>1, <3>3, <3>4, <3>5
  <2>2. tail[i] = buffer[k + i]
    BY <1>8, <2>1
  <2>3. buffer[k + i] = [seq |-> low + (k + i), change |-> log[low + (k + i)]]
    BY <1>2, <2>1
  <2> QED
    BY <2>1, <2>2, <2>3
<1>11. cursor \in start .. top
  BY <1>1, <1>2, <1>3
<1> QED
  BY <1>9, <1>10, <1>11 DEF Entries, top

LEMMA SubscribeKeeps ==
  ASSUME DeliveryInv, NEW c \in Clients, Subscribe(c)
  PROVE  DeliveryInv'
<1> DEFINE top == State.seq
           cursor == Sent(c)
           tail == After(State.buffer, cursor)
           run == [i \in 1 .. Len(tail) |-> EventFrame(tail[i])]
           held == Held(clients[c])
           wire == wires[c]
           waiting == [Detached EXCEPT !.phase = "attached", !.seq = State.seq]
<1>0. DeliveryTyped
  BY DEF DeliveryInv
<1>1. /\ Start \in Nat /\ State \in TopicRows /\ top \in Nat
      /\ Greater(highestSeq, top) = top
  BY <1>0, StateFacts
<1>2. /\ clients \in [Clients -> ClientRows] /\ subscriptions \in [Clients -> SubscriptionRows]
      /\ wires \in [Clients -> Seq(FrameRows)] /\ clients[c] \in ClientRows
      /\ clients[c].settled => clients[c].cursor \in Nat
  BY <1>0 DEF DeliveryTyped, ClientRows
<1>3. topic' = State /\ State \in TopicRows /\ topic' # NoSeq /\ State' = State /\ highestSeq' = top
      /\ Start' = Start /\ Due' = Due
  <2>1. topic' = State /\ topic' # NoSeq
    BY <1>1, DeliveryBounds DEF Subscribe, TopicRows, EntryRows
  <2>2. State' = topic'
    BY <2>1 DEF State
  <2> QED
    BY <1>1, <2>1, <2>2 DEF Subscribe, Start, Due
<1>4. /\ clients' \in [Clients -> ClientRows]
      /\ clients'[c].settled = clients[c].settled /\ clients'[c].cursor = clients[c].cursor
      /\ clients'[c].applied = clients[c].applied /\ clients'[c].asked = FALSE
      /\ \A d \in Clients \ {c} : clients'[d] = clients[d]
  BY <1>2 DEF Subscribe, ClientRows
<1>5. Held(clients'[c]) = held
  BY <1>4 DEF Held
<1>6. PICK log \in Log : BufferOK(State, log, Start) /\ \A d \in Clients : ClientOK(d, log)
  BY DEF DeliveryInv
<1>7. top >= Start /\ \A l \in Log : l \in [Start + 1 .. top -> Nat]
  <2>1. Len(State.buffer) \in Nat
    BY <1>1 DEF TopicRows
  <2> QED
    BY <1>1, <1>6, <2>1 DEF Log, BufferOK
<1>8. \A d \in Clients : clients'[d].settled => clients'[d].cursor # NoSeq
  BY <1>0, <1>4 DEF DeliveryTyped
<1>9. ASSUME CanReplayAfter(cursor, State)
      PROVE  DeliveryInv'
  <2>1. clients[c].settled /\ cursor = clients[c].cursor /\ cursor \in Nat
    BY <1>2, <1>9 DEF Sent, CanReplayAfter
  <2>2. held = Snapshot(cursor, clients[c].applied) /\ held.kind = "snapshot" /\ held.seq = cursor
    BY <2>1 DEF Held, Snapshot
  <2>3. wires' = [wires EXCEPT ![c] = @ \o run]
          /\ subscriptions' = [subscriptions EXCEPT ![c] = Attached]
    BY <1>9 DEF Subscribe
  <2>4. ASSUME NEW l \in Log, BufferOK(State, l, Start)
        PROVE  /\ cursor \in Start .. top /\ run \in Seq(FrameRows) /\ Run(run, l, cursor, top)
    <3>1. /\ cursor \in Start .. top /\ Len(tail) = top - cursor
          /\ \A i \in 1 .. Len(tail) : tail[i] = [seq |-> cursor + i, change |-> l[cursor + i]]
      <4>1. tail = After(State.buffer, cursor)
        OBVIOUS
      <4>2. l \in [Start + 1 .. State.seq -> Nat]
        BY <1>7
      <4> HIDE DEF tail, cursor
      <4>3. /\ State \in TopicRows /\ Start \in Nat /\ cursor \in Nat
            /\ CanReplayAfter(cursor, State) /\ BufferOK(State, l, Start)
        BY <1>1, <1>9, <2>1, <2>4 DEF cursor
      <4>4. cursor \in Start .. State.seq /\ Entries(tail, l, cursor, State.seq)
        BY ONLY <4>1, <4>2, <4>3, ReplayFollows
      <4> QED
        BY <4>4 DEF Entries
    <3> HIDE DEF tail, cursor, top
    <3>2. ASSUME NEW i \in 1 .. Len(tail)
          PROVE  EventFrame(tail[i]) = LogFrame(l, cursor + i) /\ EventFrame(tail[i]) \in FrameRows
      <4>1. cursor + i \in Start + 1 .. top
        BY <1>1, <3>1
      <4>2. l[cursor + i] \in Nat /\ cursor + i \in Nat
        BY <1>1, <1>7, <4>1
      <4>3. tail[i] = [seq |-> cursor + i, change |-> l[cursor + i]]
        BY <3>1
      <4> QED
        BY <4>2, <4>3 DEF LogFrame, EventFrame, FrameRows
    <3>3. Len(tail) \in Nat
      BY <1>1, <3>1
    <3>4. run \in Seq(FrameRows) /\ Len(run) = Len(tail)
          /\ \A i \in 1 .. Len(tail) : run[i] = EventFrame(tail[i])
      BY <3>2, <3>3
    <3> HIDE DEF run
    <3>5. Run(run, l, cursor, top)
      BY <3>1, <3>2, <3>4 DEF Run
    <3> QED
      BY <3>1, <3>4, <3>5
  <2> HIDE DEF run, cursor
  <2>5. Attached \in SubscriptionRows /\ Attached.phase = "live"
        /\ Attached.pending = <<>> /\ ~ Attached.overflowed
    <3>1. <<>> \in Seq(FrameRows)
      OBVIOUS
    <3> QED
      BY <3>1 DEF Attached, Detached, SubscriptionRows
  <2>6. /\ subscriptions' \in [Clients -> SubscriptionRows] /\ subscriptions'[c] = Attached
        /\ wires' \in [Clients -> Seq(FrameRows)] /\ wires'[c] = wire \o run
        /\ \A d \in Clients \ {c} : subscriptions'[d] = subscriptions[d] /\ wires'[d] = wires[d]
    <3>1. run \in Seq(FrameRows)
      BY <1>6, <2>4
    <3>2. wire \o run \in Seq(FrameRows)
      BY <1>2, <3>1
    <3> QED
      BY <1>2, <2>3, <2>5, <3>2
  <2>7. DeliveryTyped'
    BY <1>0, <1>3, <1>4, <1>8, <2>6 DEF DeliveryTyped, Subscribe
  <2>8. ASSUME NEW l \in Log, BufferOK(State, l, Start), ClientOK(c, l)
        PROVE  ClientOK(c, l)'
    <3>1. StreamOK(held, wire, l, Due, Start, top)
          /\ SubscriptionOK(subscriptions[c], held, wire, clients[c].asked, l, Due, Start, top)
      BY <2>8 DEF ClientOK
    <3>2. cursor \in Start .. top /\ run \in Seq(FrameRows) /\ Run(run, l, cursor, top)
          /\ l \in [Start + 1 .. top -> Nat]
      BY <1>7, <2>4, <2>8
    <3>3. /\ Len(wire) \in Nat
          /\ \A i \in 0 .. Len(wire) : At(held, wire, i) \in FrameRows
               /\ At(held, wire, i).seq \in Nat
      BY <3>1, FrameTypes
    <3>4. ASSUME NEW j \in 0 .. Len(wire), At(held, wire, j).kind = "snapshot",
                 Straight(held, wire, j, Len(wire))
          PROVE  \E m \in j .. Len(wire) :
                   At(held, wire, m).seq = cursor \/ At(held, wire, j).seq >= cursor
      <4>1. j \in j .. Len(wire)
        BY <3>3
      <4>2. At(held, wire, j).seq >= cursor
        <5>1. CASE j = 0
          BY <2>1, <2>2, <5>1 DEF At
        <5>2. CASE j # 0
          <6>1. wire[j] = At(held, wire, j) /\ j \in 1 .. Len(wire) /\ 0 \in 0 .. j - 1
            BY <3>3, <5>2 DEF At
          <6>2. At(held, wire, 0).seq <= wire[j].seq
            BY <3>1, <3>4, <6>1 DEF StreamOK, SnapshotsRise
          <6> QED
            BY <2>1, <2>2, <3>3, <6>1, <6>2 DEF At
        <5> QED
          BY <5>1, <5>2
      <4> QED
        BY <4>1, <4>2
    <3> HIDE DEF held, wire, top
    <3>5. StreamOK(held, wire \o run, l, Due, Start, top) /\ Reaches(held, wire \o run, top)
      BY <1>1, <3>1, <3>2, <3>4, RunFollows
    <3>6. SubscriptionOK(Attached, held, wire \o run, FALSE, l, Due, Start, top)
      BY <2>2, <2>5, <3>5 DEF SubscriptionOK, held
    <3> QED
      BY <1>3, <1>4, <1>5, <2>6, <3>5, <3>6 DEF ClientOK, held, wire, top
  <2> QED
    BY <1>3, <1>4, <2>6, <2>7, <2>8, OneClientSteps
<1>10. ASSUME ~ CanReplayAfter(cursor, State)
       PROVE  DeliveryInv'
  <2>1. wires' = wires /\ subscriptions' = [subscriptions EXCEPT ![c] = waiting]
    BY <1>10 DEF Subscribe
  <2>2. /\ waiting \in SubscriptionRows /\ waiting.phase = "attached" /\ waiting.seq = top
        /\ waiting.pending = <<>>
    <3>1. <<>> \in Seq(FrameRows)
      OBVIOUS
    <3> QED
      BY <1>1, <3>1 DEF Detached, SubscriptionRows
  <2> HIDE DEF waiting
  <2>3. /\ subscriptions' \in [Clients -> SubscriptionRows] /\ subscriptions'[c] = waiting
        /\ \A d \in Clients \ {c} : subscriptions'[d] = subscriptions[d]
    BY <1>2, <2>1, <2>2
  <2>4. DeliveryTyped'
    BY <1>0, <1>3, <1>4, <1>8, <2>1, <2>3 DEF DeliveryTyped, Subscribe
  <2>5. ASSUME NEW l \in Log, BufferOK(State, l, Start), ClientOK(c, l)
        PROVE  ClientOK(c, l)'
    <3>1. StreamOK(held, wire, l, Due, Start, top)
      BY <2>5 DEF ClientOK
    <3>2. \A i \in 0 .. Len(wire) : At(held, wire, i).seq <= top
      BY <3>1 DEF StreamOK, FrameOK
    <3>3. Run(waiting.pending, l, top, top)
      <4>1. Len(<<>>) = 0 /\ top - top = 0
        BY <1>1
      <4> QED
        BY <2>2, <4>1 DEF Run
    <3>4. top \in Start .. top
      BY <1>1, <1>7
    <3>5. SubscriptionOK(waiting, held, wire, FALSE, l, Due, Start, top)
      BY <2>2, <3>2, <3>3, <3>4 DEF SubscriptionOK
    <3> QED
      BY <1>3, <1>4, <1>5, <2>1, <2>3, <3>1, <3>5 DEF ClientOK
  <2> QED
    BY <1>3, <1>4, <2>1, <2>3, <2>4, <2>5, OneClientSteps
<1> QED
  BY <1>9, <1>10

LEMMA DeliveryInitially ==
  ASSUME DeliveryInit
  PROVE  DeliveryInv
<1> USE DEF DeliveryInit
<1>1. Start = Rate /\ Rate \in Nat /\ Rate > 0 /\ MaxChanges \in Nat
  BY DeliveryBounds DEF Start
<1>2. State = [seq |-> Start, buffer |-> <<>>]
  BY <1>1 DEF State, Base, Greater, Start
<1>3. /\ Detached \in SubscriptionRows /\ Detached.phase = "none" /\ Detached.pending = <<>>
      /\ ~ Detached.overflowed /\ <<>> \in Seq(FrameRows)
  <2>1. <<>> \in Seq(FrameRows)
    OBVIOUS
  <2> QED
    BY <2>1 DEF Detached, SubscriptionRows
<1>4. DeliveryTyped
  <2>1. clients \in [Clients -> ClientRows] /\ \A c \in Clients : ~ clients[c].settled
    BY DEF ClientRows
  <2>2. State.seq + Cardinality({}) <= Start + 0
    BY <1>1, <1>2, FS_EmptySet
  <2>3. /\ subscriptions \in [Clients -> SubscriptionRows] /\ wires \in [Clients -> Seq(FrameRows)]
        /\ \A c \in Clients : subscriptions[c].phase = "none"
    BY <1>3
  <2>4. /\ committed \in 0 .. MaxChanges /\ unpublished \subseteq 1 .. committed
        /\ topicClock \in Nat \ {0} /\ topic = NoSeq /\ highestSeq \in Nat /\ highestSeq < Start
    BY <1>1
  <2>5. State.seq + Cardinality(unpublished) <= Start + committed
    BY <2>2
  <2> QED
    BY ONLY <2>1, <2>3, <2>4, <2>5 DEF DeliveryTyped
<1>5. PICK log : log = [s \in Start + 1 .. Start |-> 0]
  OBVIOUS
<1>6. log \in Log /\ BufferOK(State, log, Start)
  BY <1>1, <1>2, <1>5, NoBuffer DEF Log
<1>7. ASSUME NEW c \in Clients
      PROVE  ClientOK(c, log)
  <2>1. Held(clients[c]) = Resync
    BY DEF Held
  <2>2. StreamOK(Resync, <<>>, log, Due, Start, Start)
    BY <1>1, ResyncIsOK, NothingFollows
  <2>3. SubscriptionOK(Detached, Resync, <<>>, TRUE, log, Due, Start, Start)
    BY <1>3 DEF SubscriptionOK
  <2> QED
    BY <1>2, <2>1, <2>2, <2>3 DEF ClientOK
<1> QED
  BY <1>4, <1>6, <1>7 DEF DeliveryInv

LEMMA DeliverySteps ==
  ASSUME DeliveryInv, [DeliveryNext]_deliveryVars
  PROVE  DeliveryInv'
<1>1. CASE DeliveryNext
  BY <1>1, CommitKeeps, EvictIdleKeeps, RestartProcessKeeps, PublishKeeps, SubscribeKeeps,
     ReadSnapshotKeeps, AnswerSnapshotKeeps, FailSnapshotKeeps, ReceiveKeeps, DropKeeps
     DEF DeliveryNext
<1>2. CASE UNCHANGED deliveryVars
  <2>1. UNCHANGED <<committed, unpublished, topic, highestSeq, topicClock, subscriptions, wires,
          clients>>
    BY <1>2 DEF deliveryVars
  <2>2. State' = State /\ Start' = Start /\ Due' = Due
    BY <2>1 DEF State, Base, Start, Due
  <2>3. DeliveryTyped'
    BY <2>1, <2>2 DEF DeliveryInv, DeliveryTyped
  <2>4. PICK log \in Log : BufferOK(State, log, Start) /\ \A c \in Clients : ClientOK(c, log)
    BY DEF DeliveryInv
  <2>5. log \in Log' /\ BufferOK(State, log, Start)'
    BY <2>2, <2>4 DEF Log, BufferOK
  <2>6. \A c \in Clients : ClientOK(c, log)'
    BY <2>1, <2>2, <2>4 DEF ClientOK
  <2> QED
    BY <2>3, <2>5, <2>6 DEF DeliveryInv
<1> QED
  BY <1>1, <1>2

LEMMA DeliveryInvMeans ==
  ASSUME DeliveryInv
  PROVE  NothingIsMissed
<1>0. DeliveryTyped
  BY DEF DeliveryInv
<1>1. /\ Start \in Nat /\ State \in TopicRows /\ State.seq \in Nat
  BY <1>0, StateFacts
<1>2. PICK log \in Log : BufferOK(State, log, Start) /\ \A c \in Clients : ClientOK(c, log)
  BY DEF DeliveryInv
<1>3. State.seq >= Start /\ log \in [Start + 1 .. State.seq -> Nat]
  <2>1. Len(State.buffer) \in Nat
    BY <1>1 DEF TopicRows
  <2> QED
    BY <1>1, <1>2, <2>1 DEF Log, BufferOK
<1>4. ASSUME NEW c \in Clients
      PROVE  /\ Held(clients[c]).kind = "snapshot" =>
                  /\ clients[c].settled /\ Held(clients[c]).seq = clients[c].cursor
                  /\ clients[c].cursor \in Nat /\ Held(clients[c]).data = clients[c].applied
                  /\ Covers(Held(clients[c]), log, Due, Start, State.seq)
             /\ clients[c].settled => Held(clients[c]).kind = "snapshot"
  <2>1. clients[c] \in ClientRows /\ (clients[c].settled => clients[c].cursor # NoSeq)
    BY <1>0 DEF DeliveryTyped
  <2>2. StreamOK(Held(clients[c]), wires[c], log, Due, Start, State.seq)
    BY <1>2 DEF ClientOK
  <2>3. 0 \in 0 .. Len(wires[c]) /\ At(Held(clients[c]), wires[c], 0) = Held(clients[c])
    BY <2>2, FrameTypes DEF At
  <2>4. Held(clients[c]).kind = "snapshot" =>
          Covers(Held(clients[c]), log, Due, Start, State.seq)
    BY <2>2, <2>3 DEF StreamOK, FrameOK
  <2> QED
    BY <2>1, <2>4 DEF Held, Snapshot, Resync, ClientRows
<1>5. QuietClientIsCurrent
  <2> SUFFICES ASSUME NEW c \in Clients, subscriptions[c].phase = "live", wires[c] = <<>>,
                      ~ clients[c].asked
               PROVE  Due \subseteq clients[c].applied
    BY DEF QuietClientIsCurrent, Due
  <2> DEFINE held == Held(clients[c])
  <2>1. SubscriptionOK(subscriptions[c], held, <<>>, FALSE, log, Due, Start, State.seq)
    <3>1. clients[c].asked = FALSE
      BY <1>0 DEF DeliveryTyped, ClientRows
    <3> QED
      BY <1>2, <3>1 DEF ClientOK
  <2>2. Len(<<>>) = 0
    OBVIOUS
  <2>3. held.kind = "snapshot" /\ Reaches(held, <<>>, State.seq)
    BY <2>1, <2>2 DEF SubscriptionOK, Breaks
  <2>4. held.seq = State.seq
    BY <2>2, <2>3 DEF Reaches, Straight, At
  <2> QED
    BY <1>1, <1>3, <1>4, <2>3, <2>4 DEF Covers
<1>6. ReplayIsComplete
  <2> SUFFICES ASSUME NEW c \in Clients, CanReplayAfter(Sent(c), State)
               PROVE  LET tail == After(State.buffer, Sent(c))
                      IN  Due \subseteq clients[c].applied \cup {tail[i].change :
                            i \in 1 .. Len(tail)}
    BY DEF ReplayIsComplete, Due
  <2> DEFINE cursor == Sent(c)
             tail == After(State.buffer, cursor)
  <2>1. clients[c].settled /\ cursor = clients[c].cursor
    BY <1>0 DEF Sent, CanReplayAfter
  <2>2. cursor \in Nat /\ Held(clients[c]).seq = cursor
          /\ Held(clients[c]).data = clients[c].applied
        /\ Covers(Held(clients[c]), log, Due, Start, State.seq)
    BY <1>4, <2>1
  <2> HIDE DEF cursor
  <2>3. /\ cursor \in Start .. State.seq /\ Len(tail) = State.seq - cursor
        /\ \A i \in 1 .. Len(tail) : tail[i] = [seq |-> cursor + i, change |-> log[cursor + i]]
    <3>1. cursor \in Start .. State.seq /\ Entries(tail, log, cursor, State.seq)
      BY <1>1, <1>2, <1>3, <2>2, ReplayFollows DEF cursor
    <3> QED
      BY <3>1 DEF Entries
  <2> HIDE DEF tail
  <2>4. ASSUME NEW p \in Due, p \notin clients[c].applied
        PROVE  \E i \in 1 .. Len(tail) : p = tail[i].change
    <3>1. PICK s \in cursor + 1 .. State.seq : log[s] = p
      BY <1>1, <2>2, <2>3, <2>4 DEF Covers
    <3>2. PICK i \in 1 .. Len(tail) : s = cursor + i
      <4>1. s - cursor \in 1 .. Len(tail) /\ s = cursor + (s - cursor)
        BY <1>1, <2>2, <2>3
      <4> QED
        BY <4>1
    <3>3. tail[i] = [seq |-> cursor + i, change |-> log[cursor + i]]
      BY <2>3
    <3> QED
      BY <3>1, <3>2, <3>3
  <2> QED
    BY <2>4 DEF tail, cursor
<1> QED
  BY <1>5, <1>6 DEF NothingIsMissed

(***************************************************************************)
(* No change is missed: a client that is subscribed and has taken every    *)
(* frame sent to it knows every published change, and one that comes back  *)
(* with a cursor is replayed all it lacks (topic-hub.ts, ring-buffer.ts).  *)
(***************************************************************************)
THEOREM NoChangeIsMissed == DeliverySpec => []NothingIsMissed
<1>1. DeliveryInit => DeliveryInv
  BY DeliveryInitially
<1>2. DeliveryInv /\ [DeliveryNext]_deliveryVars => DeliveryInv'
  BY DeliverySteps
<1>3. DeliveryInv => NothingIsMissed
  BY DeliveryInvMeans
<1> QED
  BY <1>1, <1>2, <1>3, PTL DEF DeliverySpec

-----------------------------------------------------------------------------
(* Delivery: its types. *)

\* The changes in the database, and frames that tell of these only.
InDatabase == 1 .. committed
TellsOf(frames, known) == \A i \in 1 .. Len(frames) : frames[i].data \subseteq known

(***************************************************************************)
(* Every change that is kept, on its way or applied is in the database,    *)
(* and what is kept stays within its limits.                               *)
(***************************************************************************)
BufferWithin(state, known) ==
  Len(state.buffer) <= Capacity /\ \A i \in 1 .. Len(state.buffer) : state.buffer[i].change \in known

SubscriptionWithin(sub, known) ==
  Len(sub.pending) <= PendingLimit /\ TellsOf(sub.pending, known) /\ sub.data \subseteq known

ClientWithin(client, known) == client.applied \subseteq known /\ client.drops <= MaxDrops

DeliveryWithin ==
  /\ topicClock <= MaxTopicClock
  /\ topic # NoSeq => BufferWithin(topic, InDatabase)
  /\ \A c \in Clients : /\ SubscriptionWithin(subscriptions[c], InDatabase)
                        /\ TellsOf(wires[c], InDatabase)
                        /\ ClientWithin(clients[c], InDatabase)

\* Frames that are put after others.
LEMMA BothTell ==
  ASSUME NEW known, NEW f \in Seq(FrameRows), NEW g \in Seq(FrameRows),
         TellsOf(f, known), TellsOf(g, known)
  PROVE  f \o g \in Seq(FrameRows) /\ TellsOf(f \o g, known)
<1>1. f \o g \in Seq(FrameRows) /\ Len(f \o g) = Len(f) + Len(g)
  OBVIOUS
<1>2. ASSUME NEW i \in 1 .. Len(f \o g)
      PROVE  (f \o g)[i].data \subseteq known
  <2>1. Len(f) \in Nat /\ Len(g) \in Nat
    OBVIOUS
  <2>2. (f \o g)[i] = IF i <= Len(f) THEN f[i] ELSE g[i - Len(f)]
    BY <1>1, <2>1
  <2>3. i \in 1 .. Len(f) \/ (~ i <= Len(f) /\ i - Len(f) \in 1 .. Len(g))
    BY <1>1, <2>1
  <2> QED
    BY <2>2, <2>3 DEF TellsOf
<1> QED
  BY <1>1, <1>2 DEF TellsOf

\* One frame is put after others.
LEMMA OneMoreTells ==
  ASSUME NEW known, NEW f \in Seq(FrameRows), NEW frame \in FrameRows,
         TellsOf(f, known), frame.data \subseteq known
  PROVE  /\ Append(f, frame) \in Seq(FrameRows) /\ TellsOf(Append(f, frame), known)
         /\ <<frame>> \in Seq(FrameRows) /\ TellsOf(<<frame>>, known)
BY DEF TellsOf

\* The first frame is taken.
LEMMA RestTells ==
  ASSUME NEW known, NEW f \in Seq(FrameRows), f # <<>>, TellsOf(f, known)
  PROVE  /\ Head(f) \in FrameRows /\ Head(f).data \subseteq known
         /\ Tail(f) \in Seq(FrameRows) /\ TellsOf(Tail(f), known)
<1>1. Len(f) \in Nat /\ Len(f) >= 1 /\ Head(f) = f[1] /\ Tail(f) \in Seq(FrameRows)
      /\ Len(Tail(f)) = Len(f) - 1 /\ \A i \in 1 .. Len(f) - 1 : Tail(f)[i] = f[i + 1]
  OBVIOUS
<1> QED
  BY <1>1 DEF TellsOf

\* More is in the database than was.
LEMMA MoreIsKnown ==
  ASSUME NEW more, NEW known \in SUBSET more
  PROVE  /\ \A f : TellsOf(f, known) => TellsOf(f, more)
         /\ \A state : BufferWithin(state, known) => BufferWithin(state, more)
         /\ \A sub : SubscriptionWithin(sub, known) => SubscriptionWithin(sub, more)
         /\ \A client : ClientWithin(client, known) => ClientWithin(client, more)
<1>1. \A f : TellsOf(f, known) => TellsOf(f, more)
  BY DEF TellsOf
<1> QED
  BY <1>1 DEF BufferWithin, SubscriptionWithin, ClientWithin

\* A subscription that is not there holds nothing.
LEMMA DetachedWithin ==
  ASSUME NEW known
  PROVE  /\ SubscriptionWithin(Detached, known) /\ SubscriptionWithin(Attached, known)
         /\ \A n : SubscriptionWithin([Detached EXCEPT !.phase = "attached", !.seq = n], known)
         /\ TellsOf(<<>>, known)
<1>1. PendingLimit \in Nat /\ Len(<<>>) = 0 /\ TellsOf(<<>>, known)
  BY DeliveryBounds DEF TellsOf
<1> QED
  BY <1>1 DEF SubscriptionWithin, Detached, Attached

\* What is published is buffered, and sent or kept.
LEMMA PushedWithin ==
  ASSUME NEW known, NEW state \in TopicRows, BufferWithin(state, known),
         NEW entry \in EntryRows, entry.change \in known
  PROVE  /\ Len(Push(state.buffer, entry)) <= Capacity
         /\ \A i \in 1 .. Len(Push(state.buffer, entry)) : Push(state.buffer, entry)[i].change \in known
<1> DEFINE b == state.buffer
<1>1. b \in Seq(EntryRows) /\ Len(b) \in Nat /\ Capacity \in Nat /\ Capacity >= 1
  BY DeliveryBounds DEF TopicRows
<1>2. Len(b) <= Capacity /\ \A i \in 1 .. Len(b) : b[i].change \in known
  BY DEF BufferWithin
<1> HIDE DEF b
<1>3. CASE Len(b) < Capacity
  <2>1. Push(b, entry) = Append(b, entry)
    BY <1>3 DEF Push
  <2> QED
    BY <1>1, <1>2, <1>3, <2>1 DEF b
<1>4. CASE ~ Len(b) < Capacity
  <2> DEFINE rest == Tail(b)
  <2>1. Push(b, entry) = Append(rest, entry)
    BY <1>4 DEF Push
  <2>2. /\ rest \in Seq(EntryRows) /\ Len(rest) = Len(b) - 1
        /\ \A i \in 1 .. Len(rest) : rest[i] = b[i + 1]
    BY <1>1, <1>4
  <2> HIDE DEF rest
  <2>3. \A i \in 1 .. Len(rest) : rest[i].change \in known
    BY <1>1, <1>2, <2>2
  <2> QED
    BY <1>1, <1>2, <2>1, <2>2, <2>3 DEF b
<1> QED
  BY <1>3, <1>4

LEMMA QueuedWithin ==
  ASSUME NEW known, NEW sub \in SubscriptionRows, SubscriptionWithin(sub, known),
         NEW frame \in FrameRows, frame.data \subseteq known
  PROVE  SubscriptionWithin(Queued(sub, frame), known)
<1>1. sub.pending \in Seq(FrameRows) /\ Len(sub.pending) \in Nat /\ PendingLimit \in Nat
  BY DeliveryBounds DEF SubscriptionRows
<1>2. CASE sub.overflowed
  BY <1>2 DEF Queued
<1>3. CASE ~ sub.overflowed /\ Len(sub.pending) >= PendingLimit
  <2>1. Queued(sub, frame) = [sub EXCEPT !.overflowed = TRUE, !.pending = <<>>]
    BY <1>3 DEF Queued
  <2>2. Queued(sub, frame).pending = <<>> /\ Queued(sub, frame).data = sub.data
    BY <2>1 DEF SubscriptionRows
  <2> QED
    BY <1>1, <2>2, DetachedWithin DEF SubscriptionWithin
<1>4. CASE ~ sub.overflowed /\ ~ Len(sub.pending) >= PendingLimit
  <2>1. Queued(sub, frame) = [sub EXCEPT !.pending = Append(@, frame)]
    BY <1>4 DEF Queued
  <2>2. Queued(sub, frame).pending = Append(sub.pending, frame)
        /\ Queued(sub, frame).data = sub.data
    BY <2>1 DEF SubscriptionRows
  <2>3. Len(Append(sub.pending, frame)) <= PendingLimit
    BY <1>1, <1>4
  <2> QED
    BY <1>1, <2>2, <2>3, OneMoreTells DEF SubscriptionWithin
<1> QED
  BY <1>2, <1>3, <1>4

\* What is replayed was in the buffer.
LEMMA ReplayTells ==
  ASSUME NEW known, NEW state \in TopicRows, BufferWithin(state, known), NEW cursor,
         NEW run, run = [i \in 1 .. Len(After(state.buffer, cursor)) |->
                           EventFrame(After(state.buffer, cursor)[i])]
  PROVE  run \in Seq(FrameRows) /\ TellsOf(run, known)
<1> DEFINE b == state.buffer
           earlier == {i \in 1 .. Len(b) : b[i].seq <= cursor}
           k == Cardinality(earlier)
           tail == After(b, cursor)
<1>1. b \in Seq(EntryRows) /\ Len(b) \in Nat /\ \A i \in 1 .. Len(b) : b[i].change \in known
  BY DEF TopicRows, BufferWithin
<1>2. k \in Nat
  <2>1. IsFiniteSet(1 .. Len(b))
    BY <1>1, FS_Interval
  <2> QED
    BY <2>1, FS_Subset, FS_CardinalityType
<1>3. tail = SubSeq(b, k + 1, Len(b))
  BY DEF After
<1> HIDE DEF k, b
<1>4. /\ Len(tail) \in Nat
      /\ \A i \in 1 .. Len(tail) : i + k \in 1 .. Len(b) /\ tail[i] = b[i + k]
  <2>1. \A i \in k + 1 .. Len(b) : b[i] \in EntryRows
    BY <1>1, <1>2
  <2> QED
    BY <1>1, <1>2, <1>3, <2>1
<1>5. ASSUME NEW i \in 1 .. Len(tail)
      PROVE  tail[i] \in EntryRows /\ tail[i].change \in known
  BY <1>1, <1>4
<1>6. run = [i \in 1 .. Len(tail) |-> EventFrame(tail[i])]
  BY DEF b
<1> HIDE DEF tail
<1>7. \A i \in 1 .. Len(tail) : EventFrame(tail[i]) \in FrameRows /\ EventFrame(tail[i]).data \subseteq known
  BY <1>5 DEF EventFrame, EntryRows, FrameRows
<1>8. run \in Seq(FrameRows) /\ Len(run) = Len(tail)
  BY <1>4, <1>6, <1>7
<1> QED
  BY <1>6, <1>7, <1>8 DEF TellsOf

\* The subscription, the wire and the record of one client are replaced.
LEMMA OneClientWithin ==
  ASSUME DeliveryTyped, DeliveryWithin, committed' = committed, topicClock' = topicClock,
         topic' # NoSeq => BufferWithin(topic', InDatabase),
         NEW c \in Clients, NEW sub, NEW wire, NEW client,
         subscriptions' = [subscriptions EXCEPT ![c] = sub],
         wires' = [wires EXCEPT ![c] = wire], clients' = [clients EXCEPT ![c] = client],
         SubscriptionWithin(sub, InDatabase), TellsOf(wire, InDatabase), ClientWithin(client, InDatabase)
  PROVE  DeliveryWithin'
<1>1. InDatabase' = InDatabase
  BY DEF InDatabase
<1>2. ASSUME NEW d \in Clients
      PROVE  /\ subscriptions'[d] = IF d = c THEN sub ELSE subscriptions[d]
             /\ wires'[d] = IF d = c THEN wire ELSE wires[d]
             /\ clients'[d] = IF d = c THEN client ELSE clients[d]
  BY DEF DeliveryTyped
<1>3. ASSUME NEW d \in Clients
      PROVE  /\ SubscriptionWithin(subscriptions'[d], InDatabase)
             /\ TellsOf(wires'[d], InDatabase) /\ ClientWithin(clients'[d], InDatabase)
  BY <1>2 DEF DeliveryWithin
<1> HIDE DEF InDatabase
<1> QED
  BY <1>1, <1>3 DEF DeliveryWithin

LEMMA PublishWithin ==
  ASSUME DeliveryTyped, DeliveryWithin, NEW change \in unpublished, Publish(change)
  PROVE  DeliveryWithin'
<1> DEFINE entry == [seq |-> State.seq + 1, change |-> change]
           frame == EventFrame(entry)
<1>1. State \in TopicRows /\ State.seq \in Nat
      /\ (topic = NoSeq => State.buffer = <<>>) /\ (topic # NoSeq => State = topic)
  BY StateFacts
<1>2. change \in InDatabase /\ change \in Nat /\ InDatabase' = InDatabase
  <2>1. committed' = committed /\ committed \in Nat /\ unpublished \subseteq 1 .. committed
    BY DEF DeliveryTyped, Publish
  <2> QED
    BY <2>1 DEF InDatabase
<1>3. BufferWithin(State, InDatabase)
  <2>1. CASE topic = NoSeq
    <3>1. Len(State.buffer) = 0 /\ Capacity \in Nat
      BY <1>1, <2>1, DeliveryBounds
    <3> QED
      BY <3>1 DEF BufferWithin
  <2>2. CASE topic # NoSeq
    BY <1>1, <2>2 DEF DeliveryWithin
  <2> QED
    BY <2>1, <2>2
<1>4. entry \in EntryRows /\ entry.change = change /\ frame \in FrameRows /\ frame.data = {change}
  BY <1>1, <1>2 DEF EntryRows, FrameRows, EventFrame
<1>5. /\ topic' = [seq |-> entry.seq, buffer |-> Push(State.buffer, entry)]
      /\ subscriptions' = [d \in Clients |->
           IF subscriptions[d].phase \in {"attached", "snapshot"}
           THEN Queued(subscriptions[d], frame) ELSE subscriptions[d]]
      /\ wires' = [d \in Clients |->
           IF subscriptions[d].phase = "live" THEN Append(wires[d], frame) ELSE wires[d]]
      /\ topicClock' = topicClock /\ clients' = clients
  BY DEF Publish
<1> HIDE DEF entry, frame
<1> HIDE DEF InDatabase
<1>6. BufferWithin(topic', InDatabase)
  <2>1. topic'.buffer = Push(State.buffer, entry)
    BY <1>5
  <2>2. /\ Len(Push(State.buffer, entry)) <= Capacity
        /\ \A i \in 1 .. Len(Push(State.buffer, entry)) :
             Push(State.buffer, entry)[i].change \in InDatabase
    BY <1>1, <1>2, <1>3, <1>4, PushedWithin
  <2> QED
    BY <2>1, <2>2 DEF BufferWithin
<1>7. ASSUME NEW d \in Clients
      PROVE  /\ SubscriptionWithin(subscriptions'[d], InDatabase) /\ TellsOf(wires'[d], InDatabase)
             /\ ClientWithin(clients'[d], InDatabase)
  <2>1. /\ subscriptions[d] \in SubscriptionRows /\ wires[d] \in Seq(FrameRows)
        /\ SubscriptionWithin(subscriptions[d], InDatabase) /\ TellsOf(wires[d], InDatabase)
        /\ ClientWithin(clients[d], InDatabase)
    BY DEF DeliveryTyped, DeliveryWithin
  <2>2. frame.data \subseteq InDatabase
    BY <1>2, <1>4
  <2>3. SubscriptionWithin(Queued(subscriptions[d], frame), InDatabase)
    BY <1>4, <2>1, <2>2, QueuedWithin
  <2>4. TellsOf(Append(wires[d], frame), InDatabase)
    BY <1>4, <2>1, <2>2, OneMoreTells
  <2> QED
    BY <1>5, <2>1, <2>3, <2>4
<1> QED
  BY <1>2, <1>5, <1>6, <1>7 DEF DeliveryWithin

LEMMA SubscribeWithin ==
  ASSUME DeliveryTyped, DeliveryWithin, NEW c \in Clients, Subscribe(c)
  PROVE  DeliveryWithin'
<1> DEFINE cursor == Sent(c)
           run == [i \in 1 .. Len(After(State.buffer, cursor)) |->
                     EventFrame(After(State.buffer, cursor)[i])]
           waiting == [Detached EXCEPT !.phase = "attached", !.seq = State.seq]
           client == [clients[c] EXCEPT !.asked = FALSE]
<1>1. State \in TopicRows /\ (topic = NoSeq => State.buffer = <<>>)
      /\ (topic # NoSeq => State = topic)
  BY StateFacts
<1>2. BufferWithin(State, InDatabase)
  <2>1. CASE topic = NoSeq
    <3>1. Len(State.buffer) = 0 /\ Capacity \in Nat
      BY <1>1, <2>1, DeliveryBounds
    <3> QED
      BY <3>1 DEF BufferWithin
  <2>2. CASE topic # NoSeq
    BY <1>1, <2>2 DEF DeliveryWithin
  <2> QED
    BY <2>1, <2>2
<1>3. /\ wires[c] \in Seq(FrameRows) /\ clients[c] \in ClientRows
      /\ TellsOf(wires[c], InDatabase) /\ ClientWithin(clients[c], InDatabase)
  BY DEF DeliveryTyped, DeliveryWithin
<1>4. ClientWithin(client, InDatabase)
  BY <1>3 DEF ClientWithin, ClientRows
<1>5. run \in Seq(FrameRows) /\ TellsOf(run, InDatabase)
  BY <1>1, <1>2, ReplayTells
<1>6. TellsOf(wires[c] \o run, InDatabase)
  BY <1>3, <1>5, BothTell
<1>7. SubscriptionWithin(Attached, InDatabase) /\ SubscriptionWithin(waiting, InDatabase)
  BY DetachedWithin
<1>8. /\ committed' = committed /\ topicClock' = topicClock /\ topic' = State
      /\ clients' = [clients EXCEPT ![c] = client]
  BY DEF Subscribe, DeliveryTyped
<1>9. CASE CanReplayAfter(cursor, State)
  <2>1. /\ wires' = [wires EXCEPT ![c] = wires[c] \o run]
        /\ subscriptions' = [subscriptions EXCEPT ![c] = Attached]
    BY <1>9 DEF Subscribe
  <2> HIDE DEF run, cursor, waiting, client
  <2> QED
    BY <1>2, <1>4, <1>6, <1>7, <1>8, <2>1, OneClientWithin
<1>10. CASE ~ CanReplayAfter(cursor, State)
  <2>1. /\ wires' = wires /\ subscriptions' = [subscriptions EXCEPT ![c] = waiting]
    BY <1>10 DEF Subscribe
  <2>2. wires' = [wires EXCEPT ![c] = wires[c]]
    BY <2>1 DEF DeliveryTyped
  <2> HIDE DEF run, cursor, waiting, client
  <2> QED
    BY <1>2, <1>3, <1>4, <1>7, <1>8, <2>1, <2>2, OneClientWithin
<1> QED
  BY <1>9, <1>10

LEMMA SnapshotWithin ==
  ASSUME DeliveryTyped, DeliveryWithin, NEW c \in Clients,
         ReadSnapshot(c) \/ AnswerSnapshot(c) \/ FailSnapshot(c)
  PROVE  DeliveryWithin'
<1> DEFINE sub == subscriptions[c]
           wire == wires[c]
<1>1. /\ wire \in Seq(FrameRows) /\ sub \in SubscriptionRows /\ clients[c] \in ClientRows
      /\ TellsOf(wire, InDatabase) /\ SubscriptionWithin(sub, InDatabase)
      /\ ClientWithin(clients[c], InDatabase)
  BY DEF DeliveryTyped, DeliveryWithin
<1>2. /\ committed' = committed /\ topicClock' = topicClock /\ topic' = topic /\ clients' = clients
      /\ topic # NoSeq => BufferWithin(topic, InDatabase)
  BY DEF ReadSnapshot, AnswerSnapshot, FailSnapshot, DeliveryWithin
<1>3. clients' = [clients EXCEPT ![c] = clients[c]]
  BY <1>2 DEF DeliveryTyped
<1>4. CASE ReadSnapshot(c)
  <2> DEFINE told == [sub EXCEPT !.phase = "snapshot", !.data = 1 .. committed]
  <2>1. subscriptions' = [subscriptions EXCEPT ![c] = told]
        /\ wires' = [wires EXCEPT ![c] = wire]
    BY <1>4 DEF ReadSnapshot, DeliveryTyped
  <2>2. SubscriptionWithin(told, InDatabase)
    BY <1>1 DEF SubscriptionWithin, SubscriptionRows, InDatabase
  <2> HIDE DEF told, sub, wire
  <2> QED
    BY <1>1, <1>2, <1>3, <2>1, <2>2, OneClientWithin
<1>5. Released(sub) \in Seq(FrameRows) /\ TellsOf(Released(sub), InDatabase)
  <2>1. /\ Resync \in FrameRows /\ Resync.data \subseteq InDatabase
        /\ <<>> \in Seq(FrameRows) /\ TellsOf(<<>>, InDatabase)
    <3>1. <<>> \in Seq(FrameRows)
      OBVIOUS
    <3> QED
      BY <3>1, DetachedWithin DEF Resync, FrameRows
  <2>2. <<Resync>> \in Seq(FrameRows) /\ TellsOf(<<Resync>>, InDatabase)
    BY <2>1, OneMoreTells
  <2>3. sub.pending \in Seq(FrameRows) /\ TellsOf(sub.pending, InDatabase)
    BY <1>1 DEF SubscriptionRows, SubscriptionWithin
  <2> QED
    BY <2>2, <2>3 DEF Released
<1>6. ASSUME NEW frame \in FrameRows, frame.data \subseteq InDatabase,
             wires' = [wires EXCEPT ![c] = (wire \o <<frame>>) \o Released(sub)],
             subscriptions' = [subscriptions EXCEPT ![c] = Attached]
      PROVE  DeliveryWithin'
  <2>1. <<>> \in Seq(FrameRows) /\ TellsOf(<<>>, InDatabase)
    <3>1. <<>> \in Seq(FrameRows)
      OBVIOUS
    <3> QED
      BY <3>1, DetachedWithin
  <2>2. <<frame>> \in Seq(FrameRows) /\ TellsOf(<<frame>>, InDatabase)
    BY <1>6, <2>1, OneMoreTells
  <2>3. wire \o <<frame>> \in Seq(FrameRows) /\ TellsOf(wire \o <<frame>>, InDatabase)
    BY <1>1, <2>2, BothTell
  <2>4. TellsOf((wire \o <<frame>>) \o Released(sub), InDatabase)
    BY <1>5, <2>3, BothTell
  <2>5. SubscriptionWithin(Attached, InDatabase)
    BY DetachedWithin
  <2> HIDE DEF sub, wire
  <2> QED
    BY <1>1, <1>2, <1>3, <1>6, <2>4, <2>5, OneClientWithin
<1>7. CASE AnswerSnapshot(c)
  <2> DEFINE frame == [kind |-> "snapshot", seq |-> sub.seq, data |-> sub.data]
  <2>1. frame \in FrameRows /\ frame.data \subseteq InDatabase
    BY <1>1 DEF FrameRows, SubscriptionRows, SubscriptionWithin
  <2> QED
    BY <1>6, <1>7, <2>1 DEF AnswerSnapshot
<1>8. CASE FailSnapshot(c)
  <2>1. Resync \in FrameRows /\ Resync.data \subseteq InDatabase
    BY DEF Resync, FrameRows
  <2> QED
    BY <1>6, <1>8, <2>1 DEF FailSnapshot
<1> QED
  BY <1>4, <1>7, <1>8

LEMMA ClientStepWithin ==
  ASSUME DeliveryTyped, DeliveryWithin, NEW c \in Clients, Receive(c) \/ Drop(c)
  PROVE  DeliveryWithin'
<1> DEFINE client == clients[c]
<1>1. /\ wires[c] \in Seq(FrameRows) /\ client \in ClientRows
      /\ TellsOf(wires[c], InDatabase) /\ SubscriptionWithin(subscriptions[c], InDatabase)
      /\ ClientWithin(client, InDatabase)
  BY DEF DeliveryTyped, DeliveryWithin
<1>2. /\ committed' = committed /\ topicClock' = topicClock /\ topic' = topic
      /\ topic # NoSeq => BufferWithin(topic, InDatabase)
  BY DEF Receive, Drop, DeliveryWithin
<1>3. CASE Receive(c)
  <2> DEFINE frame == Head(wires[c])
             later == Received(client, frame)
             rest == Tail(wires[c])
  <2>1. frame \in FrameRows /\ frame.data \subseteq InDatabase /\ TellsOf(rest, InDatabase)
    BY <1>1, <1>3, RestTells DEF Receive
  <2>2. ClientWithin(later, InDatabase)
    <3>1. later.applied \in {client.applied, frame.data, client.applied \cup frame.data}
          /\ later.drops = client.drops
      <4> HIDE DEF frame, client
      <4>1. CASE frame.kind = "resync"
        BY <1>1, <4>1 DEF Received, ClientRows
      <4>2. CASE frame.kind = "snapshot"
        BY <1>1, <4>2 DEF Received, ClientRows
      <4>3. CASE frame.kind = "event"
        BY <1>1, <4>3 DEF Received, ClientRows
      <4> QED
        BY <2>1, <4>1, <4>2, <4>3 DEF FrameRows
    <3> QED
      BY <1>1, <2>1, <3>1 DEF ClientWithin
  <2>3. /\ clients' = [clients EXCEPT ![c] = later] /\ wires' = [wires EXCEPT ![c] = rest]
        /\ subscriptions' = [subscriptions EXCEPT ![c] = subscriptions[c]]
    BY <1>3 DEF Receive, DeliveryTyped
  <2> HIDE DEF frame, later, rest, client
  <2> QED
    BY <1>1, <1>2, <2>1, <2>2, <2>3, OneClientWithin
<1>4. CASE Drop(c)
  <2> DEFINE later == [client EXCEPT !.asked = TRUE, !.drops = @ + 1]
  <2>1. ClientWithin(later, InDatabase)
    <3>1. client.drops < MaxDrops /\ client.drops \in Nat /\ MaxDrops \in Nat
      BY <1>1, <1>4, DeliveryBounds DEF Drop, ClientRows
    <3>2. later.drops = client.drops + 1 /\ later.applied = client.applied
      BY <1>1 DEF ClientRows
    <3> QED
      BY <1>1, <3>1, <3>2 DEF ClientWithin
  <2>2. /\ clients' = [clients EXCEPT ![c] = later] /\ wires' = [wires EXCEPT ![c] = <<>>]
        /\ subscriptions' = [subscriptions EXCEPT ![c] = Detached]
    BY <1>4 DEF Drop
  <2> HIDE DEF later, client
  <2> QED
    BY <1>2, <2>1, <2>2, DetachedWithin, OneClientWithin
<1> QED
  BY <1>3, <1>4

LEMMA DeliveryStaysWithin ==
  ASSUME DeliveryTyped, DeliveryWithin, [DeliveryNext]_deliveryVars
  PROVE  DeliveryWithin'
<1>1. topicClock \in Nat /\ MaxTopicClock \in Nat /\ committed \in Nat
  BY DeliveryBounds DEF DeliveryTyped
<1>2. CASE Commit
  <2>1. InDatabase \subseteq InDatabase'
    BY <1>1, <1>2 DEF Commit, InDatabase
  <2> HIDE DEF InDatabase
  <2> QED
    BY <1>2, <2>1, MoreIsKnown DEF Commit, DeliveryWithin
<1>3. CASE EvictIdle
  <2>1. InDatabase' = InDatabase
    BY <1>3 DEF EvictIdle, InDatabase
  <2> HIDE DEF InDatabase
  <2> QED
    BY <1>1, <1>3, <2>1 DEF EvictIdle, DeliveryWithin
<1>4. CASE RestartProcess
  <2>1. InDatabase' = InDatabase /\ topic' = NoSeq /\ topicClock' = topicClock + 1
        /\ topicClock < MaxTopicClock
    BY <1>4 DEF RestartProcess, InDatabase
  <2>2. ASSUME NEW c \in Clients
        PROVE  /\ subscriptions'[c] = Detached /\ wires'[c] = <<>>
               /\ ClientWithin(clients'[c], InDatabase)
    <3>1. clients[c] \in ClientRows /\ ClientWithin(clients[c], InDatabase)
      BY DEF DeliveryTyped, DeliveryWithin
    <3>2. clients'[c].applied = clients[c].applied /\ clients'[c].drops = clients[c].drops
      BY <1>4, <3>1 DEF RestartProcess, ClientRows
    <3>3. subscriptions'[c] = Detached /\ wires'[c] = <<>>
      BY <1>4 DEF RestartProcess
    <3> QED
      BY <3>1, <3>2, <3>3 DEF ClientWithin
  <2>3. topicClock' <= MaxTopicClock
    BY <1>1, <2>1
  <2> HIDE DEF InDatabase
  <2> QED
    BY <2>1, <2>2, <2>3, DetachedWithin DEF DeliveryWithin
<1>5. CASE UNCHANGED deliveryVars
  BY <1>5 DEF deliveryVars, DeliveryWithin, InDatabase
<1> QED
  BY <1>2, <1>3, <1>4, <1>5, PublishWithin, SubscribeWithin, SnapshotWithin, ClientStepWithin
     DEF DeliveryNext

(***************************************************************************)
(* The topic, its subscriptions and its clients keep their types: a client *)
(* applies only changes that are in the database, and what is kept for a   *)
(* replay or a snapshot stays within its limit.                            *)
(***************************************************************************)
THEOREM DeliveryTypeCorrect == DeliverySpec => []DeliveryTypeOK
<1>1. DeliveryInit => DeliveryWithin
  <2> SUFFICES ASSUME DeliveryInit
               PROVE  DeliveryWithin
    OBVIOUS
  <2>1. topicClock = 1 /\ 1 <= MaxTopicClock /\ topic = NoSeq /\ 0 <= MaxDrops
    BY DeliveryBounds DEF DeliveryInit
  <2>2. \A c \in Clients : /\ subscriptions[c] = Detached /\ wires[c] = <<>>
                           /\ clients[c].applied = {} /\ clients[c].drops = 0
    BY DEF DeliveryInit
  <2> HIDE DEF InDatabase
  <2> QED
    BY <2>1, <2>2, DetachedWithin DEF DeliveryWithin, ClientWithin
<1>2. DeliveryInv /\ DeliveryWithin /\ [DeliveryNext]_deliveryVars => DeliveryWithin'
  BY DeliveryStaysWithin DEF DeliveryInv
<1>3. DeliveryInv /\ DeliveryWithin => DeliveryTypeOK
  <2> SUFFICES ASSUME DeliveryTyped, DeliveryWithin
               PROVE  DeliveryTypeOK
    BY DEF DeliveryInv
  <2>1. committed \in 0 .. MaxChanges /\ unpublished \subseteq 1 .. committed
        /\ topicClock \in 1 .. MaxTopicClock
    BY DeliveryBounds DEF DeliveryTyped, DeliveryWithin
  <2>2. topic = NoSeq \/ /\ topic.seq \in Nat /\ Len(topic.buffer) <= Capacity
                         /\ topic.seq <= highestSeq
    BY DEF DeliveryTyped, DeliveryWithin, BufferWithin, TopicRows
  <2>3. ASSUME NEW c \in Clients
        PROVE  /\ subscriptions[c].phase \in {"none", "attached", "snapshot", "live"}
               /\ Len(subscriptions[c].pending) <= PendingLimit
               /\ clients[c].applied \subseteq 1 .. committed
               /\ clients[c].drops \in 0 .. MaxDrops
    <3>1. subscriptions[c] \in SubscriptionRows /\ clients[c] \in ClientRows
      BY DEF DeliveryTyped
    <3>2. SubscriptionWithin(subscriptions[c], InDatabase) /\ ClientWithin(clients[c], InDatabase)
      BY DEF DeliveryWithin
    <3> QED
      BY <3>1, <3>2, DeliveryBounds
         DEF SubscriptionRows, ClientRows, SubscriptionWithin, ClientWithin, InDatabase
  <2> QED
    BY <2>1, <2>2, <2>3 DEF DeliveryTypeOK
<1>4. DeliveryInit => DeliveryInv
  BY DeliveryInitially
<1>5. DeliveryInv /\ [DeliveryNext]_deliveryVars => DeliveryInv'
  BY DeliverySteps
<1> QED
  BY <1>1, <1>2, <1>3, <1>4, <1>5, PTL DEF DeliverySpec
=============================================================================
