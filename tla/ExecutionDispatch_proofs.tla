---------------------- MODULE ExecutionDispatch_proofs ----------------------
(***************************************************************************)
(* Theorems about ExecutionDispatch: for every set of processes, every     *)
(* number of generations and attempts.                                     *)
(***************************************************************************)
EXTENDS ExecutionDispatch, TLAPS

-----------------------------------------------------------------------------
(* Type correctness *)

(***************************************************************************)
(* What a step may write into the row of a process.                        *)
(***************************************************************************)
LEMMA ToType ==
  ASSUME DispatchTypeOK, NEW p \in Procs, NEW pass \in Passes
  PROVE  To(p, pass) \in [Procs -> Api]
<1> DEFINE g == IF pass = "idle" THEN 0 ELSE api[p].gen
           row == [api[p] EXCEPT !.pass = pass, !.gen = g]
<1>1. api[p] \in Api /\ api \in [Procs -> Api]
  BY DEF DispatchTypeOK
<1>2. g \in Nat
  BY <1>1 DEF Api
<1>3. To(p, pass) = [api EXCEPT ![p] = row]
  BY <1>1 DEF To
<1> HIDE DEF g
<1>4. row \in Api
  BY <1>1, <1>2 DEF Api
<1> QED
  BY <1>1, <1>3, <1>4

LEMMA AnswerType ==
  ASSUME DispatchTypeOK, NEW p \in Procs, NEW pass \in Passes, Answer(p, pass)
  PROVE  api' \in [Procs -> Api]
<1>1. "idle" \in Passes
  BY DEF Passes
<1> QED
  BY <1>1, ToType DEF Answer

LEMMA DispatchTypeInit == DispatchInit => DispatchTypeOK
BY ProcsAssumption DEF DispatchInit, DispatchTypeOK, Down, NoIntent, IntentRow, Api, Passes, Modes

LEMMA DispatchTypeStep == DispatchTypeOK /\ [DispatchNext]_dispatchVars => DispatchTypeOK'
<1> SUFFICES ASSUME DispatchTypeOK, [DispatchNext]_dispatchVars PROVE DispatchTypeOK'
  OBVIOUS
<1> USE ProcsAssumption
<1>0. /\ exec \in [mode : Modes \cup {None}, gen : Nat] /\ intent \in IntentRow
      /\ api \in [Procs -> Api] /\ op \in Nat
      /\ run \in [status : {"none", "active", "completed", "failed"}, attempt : 0 .. MaxAttempts]
      /\ starts \in [local : Nat, trigger : BOOLEAN]
  BY DEF DispatchTypeOK
<1>1. ASSUME NEW p \in Procs, Boot(p) PROVE DispatchTypeOK'
  <2>1. PICK mode \in Modes : api' = [api EXCEPT ![p] = [Down(mode) EXCEPT !.up = TRUE]]
    BY <1>1 DEF Boot
  <2>2. [Down(mode) EXCEPT !.up = TRUE] \in Api
    BY DEF Down, Api, Passes
  <2> QED
    BY <1>0, <1>1, <2>1, <2>2 DEF Boot, DispatchTypeOK
<1>2. ASSUME NEW p \in Procs, Crash(p) PROVE DispatchTypeOK'
  BY <1>0, <1>2 DEF Crash, DispatchTypeOK, Down, Api, Passes, Modes
<1>3. ASSUME NEW p \in Procs, Initialize(p) PROVE DispatchTypeOK'
  BY <1>0, <1>3 DEF Initialize, DispatchTypeOK, Api
<1>4. CASE RecordIntent
  BY <1>0, <1>4 DEF RecordIntent, DispatchTypeOK, NoIntent, IntentRow
<1>5. ASSUME NEW p \in Procs, BeginPass(p) PROVE DispatchTypeOK'
  <2>1. api' = [api EXCEPT ![p] = [api[p] EXCEPT !.pass = "claim", !.gen = exec.gen]]
    BY <1>0, <1>5 DEF BeginPass
  <2>2. api[p] \in Api /\ exec.gen \in Nat
    BY <1>0
  <2>3. [api[p] EXCEPT !.pass = "claim", !.gen = exec.gen] \in Api
    BY <2>2 DEF Api, Passes
  <2> QED
    BY <1>0, <1>5, <2>1, <2>3 DEF BeginPass, DispatchTypeOK
<1>6. ASSUME NEW p \in Procs, EndPass(p) PROVE DispatchTypeOK'
  BY <1>0, <1>6, ToType DEF EndPass, DispatchTypeOK, Passes
<1>7. ASSUME NEW p \in Procs, Claim(p) PROVE DispatchTypeOK'
  <2>1. api' \in [Procs -> Api]
    <3>1. AfterClaim(p) \in Passes
      BY DEF AfterClaim, Passes
    <3> QED
      BY <1>7, <3>1, AnswerType DEF Claim
  <2>2. KindOf(api[p].mode) \in {"local", "trigger"}
    BY DEF KindOf
  <2>3. intent' \in IntentRow
    BY <1>0, <1>7, <2>2 DEF Claim, IntentRow
  <2> QED
    BY <1>0, <1>7, <2>1, <2>3 DEF Claim, DispatchTypeOK
<1>8. ASSUME NEW p \in Procs, MarkLocalStart(p) PROVE DispatchTypeOK'
  <2>1. api' \in [Procs -> Api]
    BY <1>8, AnswerType DEF MarkLocalStart, Passes
  <2>2. intent' \in IntentRow
    BY <1>0, <1>8 DEF MarkLocalStart, IntentRow
  <2> QED
    BY <1>0, <1>8, <2>1, <2>2 DEF MarkLocalStart, DispatchTypeOK
<1>9. ASSUME NEW p \in Procs, StartLocal(p) PROVE DispatchTypeOK'
  <2> DEFINE job == IF api[p].job = 0 THEN api[p].gen ELSE api[p].job
  <2>1. api' = [api EXCEPT ![p] = [api[p] EXCEPT !.pass = "mark", !.job = job]]
    BY <1>0, <1>9 DEF StartLocal
  <2>2. job \in Nat /\ api[p] \in Api
    BY <1>0 DEF Api
  <2> HIDE DEF job
  <2>3. [api[p] EXCEPT !.pass = "mark", !.job = job] \in Api
    BY <2>2 DEF Api, Passes
  <2>4. starts' \in [local : Nat, trigger : BOOLEAN]
    BY <1>0, <1>9 DEF StartLocal
  <2>5. UNCHANGED <<exec, intent, op, run>>
    BY <1>9 DEF StartLocal
  <2> QED
    BY <1>0, <2>1, <2>3, <2>4, <2>5 DEF DispatchTypeOK
<1>10. ASSUME NEW p \in Procs, StartFails(p) PROVE DispatchTypeOK'
  BY <1>0, <1>10, ToType DEF StartFails, DispatchTypeOK, Passes
<1>11. ASSUME NEW p \in Procs, ReleaseLocalStart(p) PROVE DispatchTypeOK'
  <2>1. api' \in [Procs -> Api]
    BY <1>11, ToType DEF ReleaseLocalStart, Passes
  <2>2. intent' \in IntentRow
    BY <1>0, <1>11 DEF ReleaseLocalStart, IntentRow
  <2> QED
    BY <1>0, <1>11, <2>1, <2>2 DEF ReleaseLocalStart, DispatchTypeOK
<1>12. ASSUME NEW p \in Procs, StartTrigger(p) PROVE DispatchTypeOK'
  <2>1. api' \in [Procs -> Api]
    BY <1>12, AnswerType DEF StartTrigger, Passes
  <2>2. /\ run' \in [status : {"none", "active", "completed", "failed"}, attempt : 0 .. MaxAttempts]
        /\ starts' \in [local : Nat, trigger : BOOLEAN]
    <3>1. 1 \in 0 .. MaxAttempts
      OBVIOUS
    <3>2. [status |-> "active", attempt |-> 1] \in
            [status : {"none", "active", "completed", "failed"}, attempt : 0 .. MaxAttempts]
      BY <3>1
    <3>3. [starts EXCEPT !.trigger = TRUE] \in [local : Nat, trigger : BOOLEAN]
      BY <1>0
    <3> QED
      BY <1>0, <1>12, <3>2, <3>3 DEF StartTrigger
  <2> QED
    BY <1>0, <1>12, <2>1, <2>2 DEF StartTrigger, DispatchTypeOK
<1>13. ASSUME NEW p \in Procs, MarkDispatched(p) PROVE DispatchTypeOK'
  <2>1. api' \in [Procs -> Api]
    BY <1>13, ToType DEF MarkDispatched, Passes
  <2>2. KindOf(api[p].mode) \in {"local", "trigger"}
    BY DEF KindOf
  <2>3. intent' \in IntentRow
    BY <1>0, <1>13, <2>2 DEF MarkDispatched, IntentRow
  <2> QED
    BY <1>0, <1>13, <2>1, <2>3 DEF MarkDispatched, DispatchTypeOK
<1>14. CASE LeaseExpires
  BY <1>0, <1>14 DEF LeaseExpires, DispatchTypeOK, IntentRow
<1>15. ASSUME NEW p \in Procs, BeginReconcile(p) PROVE DispatchTypeOK'
  BY <1>0, <1>15 DEF BeginReconcile, DispatchTypeOK, Api
<1>16. ASSUME NEW gen \in Nat PROVE Rebound(gen) \in IntentRow
  BY <1>0 DEF Rebound, IntentRow
<1>17. ASSUME NEW p \in Procs, Rebind(p) PROVE DispatchTypeOK'
  <2>1. api[p].rec \in Nat
    BY <1>0 DEF Api
  <2>2. api' \in [Procs -> Api]
    BY <1>0, <1>17 DEF Rebind, Api
  <2> QED
    BY <1>0, <1>16, <1>17, <2>1, <2>2 DEF Rebind, DispatchTypeOK
<1>18. ASSUME NEW mode \in Modes, Switch(mode) PROVE DispatchTypeOK'
  BY <1>0, <1>18 DEF Switch, DispatchTypeOK
<1>19. CASE RebindSwitched
  BY <1>0, <1>16, <1>19 DEF RebindSwitched, DispatchTypeOK
<1>20. CASE SwitchDies
  BY <1>0, <1>20 DEF SwitchDies, DispatchTypeOK
<1>21. ASSUME NEW p \in Procs, JobEnds(p) PROVE DispatchTypeOK'
  BY <1>0, <1>21 DEF JobEnds, DispatchTypeOK, Api
<1>22. CASE RunRetries
  BY <1>0, <1>22 DEF RunRetries, DispatchTypeOK
<1>23. CASE RunEnds
  BY <1>0, <1>23 DEF RunEnds, DispatchTypeOK
<1>24. CASE UNCHANGED dispatchVars
  BY <1>0, <1>24 DEF dispatchVars, DispatchTypeOK
<1> QED
  BY <1>1, <1>2, <1>3, <1>4, <1>5, <1>6, <1>7, <1>8, <1>9, <1>10, <1>11, <1>12, <1>13, <1>14,
     <1>15, <1>17, <1>18, <1>19, <1>20, <1>21, <1>22, <1>23, <1>24
  DEF DispatchNext, DispatchStep, Pass, LocalStart, Reconcile, Operator

(***************************************************************************)
(* The rows, the processes, the run and the history counters keep their    *)
(* types, for every set of processes and every number of generations.      *)
(***************************************************************************)
THEOREM DispatchTypeCorrect == DispatchSafety => []DispatchTypeOK
BY DispatchTypeInit, DispatchTypeStep, PTL DEF DispatchSafety

-----------------------------------------------------------------------------
(* One start in process *)

(***************************************************************************)
(* A process that has written the start marker and has neither started the *)
(* handler nor given up: only it may start, and only it may clear.         *)
(***************************************************************************)
Starting(p) == api[p].pass \in {"starting", "release"}

StartInv ==
  /\ \A p \in Procs : Starting(p) => intent.started
  /\ \A p, q \in Procs : Starting(p) /\ Starting(q) => p = q
  /\ starts.local > 0 => intent.started /\ \A p \in Procs : ~Starting(p)
  /\ starts.local <= 1
  /\ intent.status = "none" => ~intent.started

(***************************************************************************)
(* A step that leaves the marker and the count alone, lets no process into *)
(* its start and forgets no intent keeps the invariant.                    *)
(***************************************************************************)
LEMMA QuietStep ==
  ASSUME StartInv, DispatchTypeOK,
         \A q \in Procs : Starting(q)' => Starting(q),
         intent'.started = intent.started,
         intent'.status = "none" => intent.status = "none",
         starts'.local = starts.local
  PROVE  StartInv'
BY DEF StartInv

LEMMA ToPass ==
  ASSUME DispatchTypeOK, NEW p \in Procs, NEW pass, api' = To(p, pass)
  PROVE  /\ api'[p].pass = pass
         /\ \A q \in Procs \ {p} : api'[q] = api[q]
<1> DEFINE g == IF pass = "idle" THEN 0 ELSE api[p].gen
           row == [api[p] EXCEPT !.pass = pass, !.gen = g]
<1>1. api[p] \in Api /\ api \in [Procs -> Api]
  BY DEF DispatchTypeOK
<1>2. api' = [api EXCEPT ![p] = row]
  BY <1>1 DEF To
<1>3. row.pass = pass
  BY <1>1 DEF Api
<1> HIDE DEF row
<1> QED
  BY <1>1, <1>2, <1>3

LEMMA AnswerPass ==
  ASSUME DispatchTypeOK, NEW p \in Procs, NEW pass, Answer(p, pass)
  PROVE  /\ api'[p].pass \in {pass, "idle"}
         /\ \A q \in Procs \ {p} : api'[q] = api[q]
BY ToPass DEF Answer

LEMMA StartInvInit == DispatchInit => StartInv
BY DEF DispatchInit, StartInv, Starting, Down, NoIntent

LEMMA StartInvStep == DispatchTypeOK /\ StartInv /\ [DispatchNext]_dispatchVars => StartInv'
<1> SUFFICES ASSUME DispatchTypeOK, StartInv, [DispatchNext]_dispatchVars PROVE StartInv'
  OBVIOUS
<1>0. /\ intent \in IntentRow /\ api \in [Procs -> Api]
      /\ starts \in [local : Nat, trigger : BOOLEAN]
  BY DEF DispatchTypeOK
<1>1. ASSUME NEW p \in Procs, Boot(p) \/ Crash(p) PROVE StartInv'
  <2>1. ASSUME NEW mode
        PROVE  Down(mode).pass = "idle" /\ [Down(mode) EXCEPT !.up = TRUE].pass = "idle"
    BY DEF Down
  <2>2. PICK row : api' = [api EXCEPT ![p] = row] /\ row.pass = "idle"
    BY <1>1, <2>1 DEF Boot, Crash
  <2>3. \A q \in Procs : Starting(q)' => Starting(q)
    BY <1>0, <2>2 DEF Starting
  <2> QED
    BY <1>1, <2>3, QuietStep DEF Boot, Crash
<1>2. ASSUME NEW p \in Procs, Initialize(p) PROVE StartInv'
  BY <1>2, QuietStep DEF Initialize, Starting
<1>3. CASE RecordIntent
  <2>1. ~intent.started /\ ~intent'.started /\ intent'.status = "pending"
    BY <1>3 DEF RecordIntent, StartInv, NoIntent
  <2> QED
    BY <1>0, <1>3, <2>1 DEF RecordIntent, StartInv, Starting
<1>4. ASSUME NEW p \in Procs, BeginPass(p) PROVE StartInv'
  <2>1. api' = [api EXCEPT ![p] = [api[p] EXCEPT !.pass = "claim", !.gen = exec.gen]]
    BY <1>0, <1>4 DEF BeginPass
  <2>2. [api[p] EXCEPT !.pass = "claim", !.gen = exec.gen].pass = "claim"
    BY <1>0 DEF Api
  <2>3. \A q \in Procs : Starting(q)' => Starting(q)
    BY <1>0, <2>1, <2>2 DEF Starting
  <2> QED
    BY <1>4, <2>3, QuietStep DEF BeginPass
<1>5. ASSUME NEW p \in Procs, EndPass(p) PROVE StartInv'
  <2>1. \A q \in Procs : Starting(q)' => Starting(q)
    BY <1>5, ToPass DEF EndPass, Starting
  <2> QED
    BY <1>5, <2>1, QuietStep DEF EndPass
<1>6. ASSUME NEW p \in Procs, Claim(p) PROVE StartInv'
  <2>1. AfterClaim(p) \notin {"starting", "release"}
    BY DEF AfterClaim
  <2>2. \A q \in Procs : Starting(q)' => Starting(q)
    BY <1>6, <2>1, AnswerPass DEF Claim, Starting
  <2>3. intent'.started = intent.started /\ intent'.status = intent.status
    BY <1>0, <1>6 DEF Claim, IntentRow
  <2> QED
    BY <1>6, <2>2, <2>3, QuietStep DEF Claim
<1>7. ASSUME NEW p \in Procs, MarkLocalStart(p) PROVE StartInv'
  <2>1. ~intent.started /\ intent'.started /\ intent'.status = "pending"
    BY <1>0, <1>7 DEF MarkLocalStart, Holds, IntentRow
  <2>2. \A q \in Procs : Starting(q)' => q = p
    BY <1>7, <2>1, AnswerPass DEF MarkLocalStart, StartInv, Starting
  <2>3. starts.local = 0 /\ starts' = starts
    BY <1>0, <1>7, <2>1 DEF MarkLocalStart, StartInv
  <2> QED
    BY <2>1, <2>2, <2>3 DEF StartInv
<1>8. ASSUME NEW p \in Procs, StartLocal(p) PROVE StartInv'
  <2> DEFINE job == IF api[p].job = 0 THEN api[p].gen ELSE api[p].job
             row == [api[p] EXCEPT !.pass = "mark", !.job = job]
  <2>1. api' = [api EXCEPT ![p] = row]
    BY <1>0, <1>8 DEF StartLocal
  <2>2. row.pass = "mark"
    BY <1>0 DEF Api
  <2> HIDE DEF row
  <2>3. Starting(p) /\ intent.started /\ \A q \in Procs : Starting(q) => q = p
    BY <1>8 DEF StartLocal, Starting, StartInv
  <2>4. \A q \in Procs : ~Starting(q)'
    BY <1>0, <2>1, <2>2, <2>3 DEF Starting
  <2>5. starts.local = 0 /\ starts'.local \in {0, 1} /\ intent' = intent
    BY <1>0, <1>8, <2>3 DEF StartLocal, StartInv
  <2> QED
    BY <2>3, <2>4, <2>5 DEF StartInv
<1>9. ASSUME NEW p \in Procs, StartFails(p) PROVE StartInv'
  <2>1. \A q \in Procs : Starting(q)' => Starting(q)
    BY <1>9, ToPass DEF StartFails, Starting
  <2> QED
    BY <1>9, <2>1, QuietStep DEF StartFails
<1>10. ASSUME NEW p \in Procs, ReleaseLocalStart(p) PROVE StartInv'
  <2>1. Starting(p) /\ \A q \in Procs : Starting(q) => q = p
    BY <1>10 DEF ReleaseLocalStart, Starting, StartInv
  <2>2. \A q \in Procs : ~Starting(q)'
    BY <1>10, <2>1, ToPass DEF ReleaseLocalStart, Starting
  <2>3. starts.local = 0 /\ starts' = starts
    BY <1>0, <1>10, <2>1 DEF ReleaseLocalStart, StartInv
  <2>4. ~intent'.started
    BY <1>0, <1>10 DEF ReleaseLocalStart, IntentRow
  <2> QED
    BY <2>2, <2>3, <2>4 DEF StartInv
<1>11. ASSUME NEW p \in Procs, StartTrigger(p) PROVE StartInv'
  <2>1. \A q \in Procs : Starting(q)' => Starting(q)
    BY <1>11, AnswerPass DEF StartTrigger, Starting
  <2>2. starts'.local = starts.local
    BY <1>0, <1>11 DEF StartTrigger
  <2> QED
    BY <1>11, <2>1, <2>2, QuietStep DEF StartTrigger
<1>12. ASSUME NEW p \in Procs, MarkDispatched(p) PROVE StartInv'
  <2>1. \A q \in Procs : Starting(q)' => Starting(q)
    BY <1>12, ToPass DEF MarkDispatched, Starting
  <2>2. intent'.started = intent.started /\ intent'.status = "dispatched"
    BY <1>0, <1>12 DEF MarkDispatched, IntentRow
  <2> QED
    BY <1>12, <2>1, <2>2, QuietStep DEF MarkDispatched
<1>13. CASE LeaseExpires
  <2>1. intent'.started = intent.started /\ intent'.status = intent.status
    BY <1>0, <1>13 DEF LeaseExpires, IntentRow
  <2> QED
    BY <1>13, <2>1, QuietStep DEF LeaseExpires, Starting
<1>14. ASSUME NEW p \in Procs, BeginReconcile(p) \/ JobEnds(p) PROVE StartInv'
  <2>1. \A q \in Procs : api'[q].pass = api[q].pass
    BY <1>0, <1>14 DEF BeginReconcile, JobEnds, Api
  <2> QED
    BY <1>14, <2>1, QuietStep DEF BeginReconcile, JobEnds, Starting
<1>15. ASSUME NEW gen
       PROVE  Rebound(gen).started = intent.started /\ Rebound(gen).status = intent.status
  BY <1>0 DEF Rebound, IntentRow
<1>16. ASSUME NEW p \in Procs, Rebind(p) PROVE StartInv'
  <2>1. \A q \in Procs : api'[q].pass = api[q].pass
    BY <1>0, <1>16 DEF Rebind, Api
  <2> QED
    BY <1>15, <1>16, <2>1, QuietStep DEF Rebind, Starting
<1>17. CASE \E mode \in Modes : Switch(mode)
  BY <1>17, QuietStep DEF Switch, Starting
<1>18. CASE RebindSwitched
  BY <1>15, <1>18, QuietStep DEF RebindSwitched, Starting
<1>19. CASE SwitchDies \/ RunRetries \/ RunEnds
  BY <1>19, QuietStep DEF SwitchDies, RunRetries, RunEnds, Starting
<1>20. CASE UNCHANGED dispatchVars
  BY <1>20, QuietStep DEF dispatchVars, Starting
<1> QED
  BY <1>1, <1>2, <1>3, <1>4, <1>5, <1>6, <1>7, <1>8, <1>9, <1>10, <1>11, <1>12, <1>13, <1>14,
     <1>16, <1>17, <1>18, <1>19, <1>20
  DEF DispatchNext, DispatchStep, Pass, LocalStart, Reconcile, Operator

(***************************************************************************)
(* An intent starts at most one execution in process (dispatcher.ts:44):   *)
(* for every number of processes, claims, lost answers and switches.       *)
(***************************************************************************)
THEOREM IntentsStartOnce == DispatchSafety => []LocalStartsOnce
<1>1. StartInv => LocalStartsOnce
  BY DEF StartInv, LocalStartsOnce
<1> QED
  BY <1>1, DispatchTypeInit, DispatchTypeStep, StartInvInit, StartInvStep, PTL DEF DispatchSafety
=============================================================================
