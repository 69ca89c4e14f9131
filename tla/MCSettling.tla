----------------------------- MODULE MCSettling -----------------------------
(***************************************************************************)
(* What must happen in the end, of two components that share no state,     *)
(* checked side by side: an editing session in which saves settle, and an  *)
(* intent that is dispatched.  One of them moves in each behaviour while   *)
(* the other stays in its initial state, where it owes nothing.            *)
(***************************************************************************)
EXTENDS DocEditing

CONSTANTS Procs, Steady, MaxAttempts, MaxGen
VARIABLES focus, exec, intent, api, op, run, starts

Dispatch == INSTANCE ExecutionDispatch

intentVars == <<exec, intent, api, op, run, starts>>

SettlingInit ==
    /\ focus \in {"editing", "dispatch"}
    /\ EditInit /\ Dispatch!DispatchInit
    \* a component that does not move has one initial state
    /\ focus = "editing" => \A p \in Procs : api[p] = Dispatch!Down("local")

\* Left to MCWorkspace: a head that is read changes no text that has still to be saved.
NoHeadIsRead == \A e \in Editors : editor'[e].reads = {}

SettlingNext ==
    /\ UNCHANGED focus
    /\ \/ focus = "editing" /\ EditNext /\ NoHeadIsRead /\ UNCHANGED intentVars
       \/ focus = "dispatch" /\ Dispatch!DispatchNext /\ UNCHANGED editVars

SettlingSpec ==
    /\ SettlingInit /\ [][SettlingNext]_<<focus, editVars, intentVars>>
    /\ EditFairness /\ Dispatch!DispatchFairness

\* The liveness property of ExecutionDispatch: an intent does not stay pending
\* once one process is left and keeps serving the recorded mode.
EventuallyDispatched == Dispatch!EventuallyDispatched
=============================================================================
