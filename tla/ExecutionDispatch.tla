------------------------- MODULE ExecutionDispatch -------------------------
(***************************************************************************)
(* How accepted background work reaches its executor: one dispatch intent, *)
(* the api processes that claim and start it, the operator who switches    *)
(* the deployment between in-process ("local") and Trigger ("durable")     *)
(* execution, and Trigger.dev as an external service.                      *)
(*                                                                         *)
(* Every database write of the protocol is one conditional batch; a call   *)
(* may fail without effect, or take effect while its answer is lost.  A    *)
(* write that lands late is a write of a slow process, so any step may be  *)
(* taken arbitrarily long after the one before it.                         *)
(*                                                                         *)
(* Intents do not interact (each pass handles them one by one), so one is  *)
(* modelled.  Its kind has no tracker: none of the registered kinds has.   *)
(***************************************************************************)
EXTENDS Integers

CONSTANTS
  Procs,        \* api processes
  Steady,       \* the process that the liveness properties assume to keep serving
  None,         \* "no mode", "no executor", "no process"
  MaxAttempts,  \* attempts Trigger makes of one run (retry.maxAttempts)
  MaxGen        \* bound of the checked instance: executor generations

ASSUME ProcsAssumption ==
  /\ None \notin Procs /\ Steady \in Procs
  /\ MaxAttempts \in Nat \ {0} /\ MaxGen \in Nat \ {0}

VARIABLES
  exec,    \* the executor_state row
  intent,  \* the dispatch_intents row
  api,     \* the api processes
  op,      \* generation the operator's executor:switch has still to rebind to, 0 when idle
  run,     \* the Trigger run that the intent's idempotency key names
  starts   \* history: how often a handler was started in process, whether a run was created

dispatchVars == <<exec, intent, api, op, run, starts>>

Modes == {"local", "durable"}

\* Faulty variant: the mode is written where the executor belongs.
KindOf_Mode(mode) == mode

KindOf(mode) == IF mode = "local" THEN "local" ELSE "trigger"

(***************************************************************************)
(* `holder` is the process whose claim carries the row's current write id; *)
(* every other writer of the row leaves a write id nobody waits for.       *)
(* `leased` holds until the claim lease has passed since updated_at.       *)
(* trigger_run_id is written only together with "dispatched", so a pending *)
(* intent never has one.                                                   *)
(***************************************************************************)
IntentRow == [status : {"none", "pending", "dispatched"},
              executor : {None, "local", "trigger"},
              gen : Nat, started : BOOLEAN,
              holder : Procs \cup {None}, leased : BOOLEAN]

Passes == {"idle", "claim", "claimed", "starting", "release", "trigger", "mark"}

(***************************************************************************)
(* mode: DURABLE in the environment; pass, gen: the dispatch pass and the  *)
(* generation it read; rec: the generation the reconciler is about to      *)
(* rebind to (0: none); job: the generation of the job in the local        *)
(* executor's running map (0: none).                                       *)
(***************************************************************************)
Api == [up : BOOLEAN, mode : Modes, pass : Passes, gen : Nat, rec : Nat, job : Nat]

DispatchTypeOK ==
  /\ exec \in [mode : Modes \cup {None}, gen : Nat]
  /\ intent \in IntentRow
  /\ api \in [Procs -> Api]
  /\ op \in Nat
  /\ run \in [status : {"none", "active", "completed", "failed"}, attempt : 0 .. MaxAttempts]
  /\ starts \in [local : Nat, trigger : BOOLEAN]

Down(mode) == [up |-> FALSE, mode |-> mode, pass |-> "idle", gen |-> 0, rec |-> 0, job |-> 0]

NoIntent == [status |-> "none", executor |-> None, gen |-> 0, started |-> FALSE,
             holder |-> None, leased |-> FALSE]

DispatchInit ==
  /\ exec = [mode |-> None, gen |-> 1]
  /\ intent = NoIntent
  /\ \E mode \in Modes : api = [p \in Procs |-> Down(mode)]
  /\ op = 0
  /\ run = [status |-> "none", attempt |-> 0]
  /\ starts = [local |-> 0, trigger |-> FALSE]

-----------------------------------------------------------------------------
(* Processes and the recorded mode *)

Boot(p) ==
  /\ ~api[p].up
  /\ \E mode \in Modes : api' = [api EXCEPT ![p] = [Down(mode) EXCEPT !.up = TRUE]]
  /\ UNCHANGED <<exec, intent, op, run, starts>>

Crash(p) ==
  /\ api[p].up
  /\ api' = [api EXCEPT ![p] = Down(api[p].mode)]
  /\ UNCHANGED <<exec, intent, op, run, starts>>

Usable(p) == api[p].up /\ api[p].mode = exec.mode

\* At startup, or by the reconciler when startup could not.
Initialize(p) ==
  /\ api[p].up /\ exec.mode = None
  /\ exec' = [exec EXCEPT !.mode = api[p].mode]
  /\ UNCHANGED <<intent, api, op, run, starts>>

(***************************************************************************)
(* The intent row is folded into the batch that accepts the work.          *)
(***************************************************************************)
RecordIntent ==
  /\ intent.status = "none"
  /\ intent' = [NoIntent EXCEPT !.status = "pending", !.gen = exec.gen, !.leased = TRUE]
  /\ UNCHANGED <<exec, api, op, run, starts>>

-----------------------------------------------------------------------------
(* A dispatch pass *)

To(p, pass) == [api EXCEPT ![p].pass = pass, ![p].gen = IF pass = "idle" THEN 0 ELSE @]

\* The pass goes on, or the answer to its write is lost and it gives the intent up.
Answer(p, pass) == api' = To(p, pass) \/ api' = To(p, "idle")

BeginPass(p) ==
  /\ Usable(p) /\ api[p].pass = "idle"
  /\ api' = [api EXCEPT ![p].pass = "claim", ![p].gen = exec.gen]
  /\ UNCHANGED <<exec, intent, op, run, starts>>

\* Nothing is dispatchable, a condition refused the write, or a call failed without effect.
EndPass(p) ==
  /\ api[p].pass # "idle"
  /\ api' = To(p, "idle")
  /\ UNCHANGED <<exec, intent, op, run, starts>>

Claimable(gen) ==
  /\ intent.status = "pending"
  /\ intent.gen = gen
  /\ intent.executor = None \/ ~intent.leased

(***************************************************************************)
(* A local claim that finds the start marker landed on an execution that   *)
(* an earlier pass started: it only marks the intent dispatched.           *)
(***************************************************************************)
AfterClaim(p) ==
  IF api[p].mode = "durable" THEN "trigger"
  ELSE IF intent.started THEN "mark" ELSE "claimed"

Claim(p) ==
  /\ api[p].pass = "claim" /\ Claimable(api[p].gen)
  /\ intent' = [intent EXCEPT !.executor = KindOf(api[p].mode), !.holder = p, !.leased = TRUE]
  /\ Answer(p, AfterClaim(p))
  /\ UNCHANGED <<exec, op, run, starts>>

Holds(p) == intent.holder = p /\ intent.status = "pending"

\* Faulty variant: the marker is written without comparing the claim's write id.
MarkLocalStart_AnyClaim(p) ==
  /\ api[p].pass = "claimed"
  /\ intent.status = "pending"
  /\ intent' = [intent EXCEPT !.started = TRUE, !.holder = p, !.leased = TRUE]
  /\ Answer(p, "starting")
  /\ UNCHANGED <<exec, op, run, starts>>

MarkLocalStart(p) ==
  /\ api[p].pass = "claimed"
  /\ Holds(p) /\ intent.executor = "local" /\ ~intent.started
  /\ intent' = [intent EXCEPT !.started = TRUE, !.leased = TRUE]
  /\ Answer(p, "starting")
  /\ UNCHANGED <<exec, op, run, starts>>

\* LocalExecutor.start: a job of the same subject that is still running is kept.
StartLocal(p) ==
  /\ api[p].pass = "starting"
  /\ api' = [api EXCEPT ![p].pass = "mark",
                        ![p].job = IF @ = 0 THEN api[p].gen ELSE @]
  /\ starts' = IF api[p].job = 0 THEN [starts EXCEPT !.local = @ + 1] ELSE starts
  /\ UNCHANGED <<exec, intent, op, run>>

\* No handler is registered, or the executor is shutting down.
StartFails(p) ==
  /\ api[p].pass = "starting"
  /\ api' = To(p, "release")
  /\ UNCHANGED <<exec, intent, op, run, starts>>

ReleaseLocalStart(p) ==
  /\ api[p].pass = "release" /\ Holds(p)
  /\ intent' = [intent EXCEPT !.started = FALSE, !.holder = None, !.leased = TRUE]
  /\ api' = To(p, "idle")
  /\ UNCHANGED <<exec, op, run, starts>>

(***************************************************************************)
(* TriggerExecutor.start with the subject id as idempotency key: Trigger   *)
(* returns the run the key names, unless there is none or it failed.       *)
(***************************************************************************)
StartTrigger(p) ==
  /\ api[p].pass = "trigger"
  /\ IF run.status \in {"none", "failed"}
     THEN /\ run' = [status |-> "active", attempt |-> 1]
          /\ starts' = [starts EXCEPT !.trigger = TRUE]
     ELSE UNCHANGED <<run, starts>>
  /\ Answer(p, "mark")
  /\ UNCHANGED <<exec, intent, op>>

MarkDispatched(p) ==
  /\ api[p].pass = "mark" /\ Holds(p)
  /\ intent' = [intent EXCEPT !.status = "dispatched", !.executor = KindOf(api[p].mode),
                              !.holder = None, !.leased = TRUE]
  /\ api' = To(p, "idle")
  /\ UNCHANGED <<exec, op, run, starts>>

LeaseExpires ==
  /\ intent.status = "pending" /\ intent.leased
  /\ intent' = [intent EXCEPT !.leased = FALSE]
  /\ UNCHANGED <<exec, api, op, run, starts>>

-----------------------------------------------------------------------------
(* Rebinding: by the reconciler every minute, and by executor:switch *)

Rebound(gen) ==
  IF intent.status = "pending" /\ intent.gen < gen
  THEN [intent EXCEPT !.gen = gen, !.executor = None, !.holder = None, !.leased = TRUE]
  ELSE intent

BeginReconcile(p) ==
  /\ Usable(p) /\ api[p].rec = 0
  /\ api' = [api EXCEPT ![p].rec = exec.gen]
  /\ UNCHANGED <<exec, intent, op, run, starts>>

\* Faulty variant: the reconciler does not rebind, it only dispatches.
Rebind_Nothing(p) ==
  /\ api[p].rec # 0
  /\ api' = [api EXCEPT ![p].rec = 0]
  /\ UNCHANGED <<exec, intent, op, run, starts>>

Rebind(p) ==
  /\ api[p].rec # 0
  /\ intent' = Rebound(api[p].rec)
  /\ api' = [api EXCEPT ![p].rec = 0]
  /\ UNCHANGED <<exec, op, run, starts>>

(***************************************************************************)
(* executor:switch --to mode.  The advance is conditional on the           *)
(* generation read just before, so reading and advancing are one step; a   *)
(* command for the recorded mode only completes an earlier switch.  No     *)
(* kind has a tracker, so no run of the retired executor is cancelled.     *)
(***************************************************************************)
Switch(mode) ==
  /\ op = 0
  /\ IF exec.mode = mode THEN UNCHANGED exec
     ELSE exec.gen < MaxGen /\ exec' = [mode |-> mode, gen |-> exec.gen + 1]
  /\ op' = exec'.gen
  /\ UNCHANGED <<intent, api, run, starts>>

RebindSwitched ==
  /\ op # 0
  /\ intent' = Rebound(op)
  /\ op' = 0
  /\ UNCHANGED <<exec, api, run, starts>>

SwitchDies ==
  /\ op # 0
  /\ op' = 0
  /\ UNCHANGED <<exec, intent, api, run, starts>>

-----------------------------------------------------------------------------
(* What was started ends: here without saying what it did *)

JobEnds(p) ==
  /\ api[p].job # 0
  /\ api' = [api EXCEPT ![p].job = 0]
  /\ UNCHANGED <<exec, intent, op, run, starts>>

RunRetries ==
  /\ run.status = "active" /\ run.attempt < MaxAttempts
  /\ run' = [run EXCEPT !.attempt = @ + 1]
  /\ UNCHANGED <<exec, intent, api, op, starts>>

RunEnds ==
  /\ run.status = "active"
  /\ \/ run' = [run EXCEPT !.status = "completed"]
     \/ run' = [run EXCEPT !.status = "failed"]
  /\ UNCHANGED <<exec, intent, api, op, starts>>

-----------------------------------------------------------------------------
LocalStart(p) ==
  MarkLocalStart(p) \/ StartLocal(p) \/ StartFails(p) \/ ReleaseLocalStart(p)

Pass(p) ==
  BeginPass(p) \/ EndPass(p) \/ Claim(p) \/ LocalStart(p) \/ StartTrigger(p) \/ MarkDispatched(p)

Reconcile(p) == Initialize(p) \/ BeginReconcile(p) \/ Rebind(p)

Operator == (\E mode \in Modes : Switch(mode)) \/ RebindSwitched \/ SwitchDies

\* The steps that a composition with the handlers takes over unchanged.
DispatchStep ==
  \/ \E p \in Procs : Boot(p) \/ Pass(p) \/ Reconcile(p)
  \/ LeaseExpires
  \/ Operator

DispatchNext ==
  \/ DispatchStep
  \/ RecordIntent
  \/ \E p \in Procs : Crash(p) \/ JobEnds(p)
  \/ RunRetries \/ RunEnds

DispatchSafety == DispatchInit /\ [][DispatchNext]_dispatchVars

(***************************************************************************)
(* One process is scheduled: its reconciler's timer fires and every begun  *)
(* pass goes on (weak fairness); its calls may fail again and again, but   *)
(* one that is repeated for ever succeeds once, within the claim lease     *)
(* (strong fairness).  Nothing makes the operator, a crashed process or    *)
(* any other process act, and leases pass.                                 *)
(***************************************************************************)
DispatchFairness ==
  LET p == Steady
  IN /\ WF_dispatchVars(BeginReconcile(p)) /\ WF_dispatchVars(Rebind(p))
     /\ WF_dispatchVars(BeginPass(p)) /\ WF_dispatchVars(EndPass(p))
     /\ SF_dispatchVars(Claim(p) /\ api'[p].pass # "idle")
     /\ SF_dispatchVars(MarkLocalStart(p) /\ api'[p].pass # "idle")
     /\ SF_dispatchVars(StartLocal(p))
     /\ SF_dispatchVars(StartTrigger(p) /\ api'[p].pass # "idle")
     /\ SF_dispatchVars(MarkDispatched(p))
     /\ WF_dispatchVars(LeaseExpires)

DispatchSpec == DispatchSafety /\ DispatchFairness

-----------------------------------------------------------------------------
(* Properties *)

(***************************************************************************)
(* The work is started in process at most once, whatever claims expire and *)
(* are taken over, whatever writes are lost, through crashes and switches: *)
(* the start marker is written before the start and cleared only by the    *)
(* claim that wrote it, when the start failed.                             *)
(***************************************************************************)
LocalStartsOnce == starts.local <= 1

(***************************************************************************)
(* Once one process is left and keeps serving the recorded mode, no intent *)
(* stays pending: claims that others abandoned expire, and intents of a    *)
(* generation that a broken-off switch left behind are rebound.            *)
(***************************************************************************)
LeftServing == Usable(Steady) /\ \A p \in Procs \ {Steady} : ~api[p].up

EventuallyDispatched ==
  <>[]LeftServing => (intent.status = "pending" ~> intent.status = "dispatched")
=============================================================================
