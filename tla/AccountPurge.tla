---------------------------- MODULE AccountPurge ----------------------------
(***************************************************************************)
(* Account deletion and what it starts.  One batch moves the user to       *)
(* "deleting", destroys the account key and records the account_purge      *)
(* intent; the dispatch protocol then starts AccountPurgeRunner in an api  *)
(* process (local mode) or in the account-purge Trigger task (durable      *)
(* mode), and in local mode an hourly job resumes pending purges.  Several *)
(* runners may be at work at once, and each may stop after any call.       *)
(*                                                                         *)
(* Purge writes are idempotent and a runner decides nothing by an answer   *)
(* it did not get, so a lost answer is the write followed by a failure.    *)
(***************************************************************************)
EXTENDS ExecutionDispatch, Sequences, FiniteSets

CONSTANTS
  Task,        \* the account-purge task at Trigger, a worker besides the processes
  Domains,     \* the sequence of "d1:<domain>" markers of the contributors that hold rows
  Batches,     \* batches that the rows of one domain take
  Stored,      \* objects of the account in R2 before the deletion
  Uploading    \* objects whose upload was let in before the deletion and is under way

ASSUME PurgeAssumption == Task \notin Procs /\ Batches \in Nat

\* Each contributor has a domain of its own, and its marker names no other step.
ASSUME DomainsAssumption ==
  /\ Domains \in Seq({Domains[i] : i \in 1 .. Len(Domains)})
  /\ \A i \in 1 .. Len(Domains) :
       Domains[i] \notin {"runs", "composio", "r2", "d1", "users"}
  /\ \A i, j \in 1 .. Len(Domains) : Domains[i] = Domains[j] => i = j

VARIABLES
  account,     \* the users and account_keys rows and the tombstone
  deletion,    \* the account_deletions row
  objects,     \* what the store holds under u/<userId>/
  inflight,    \* uploads that have not landed yet
  rows,        \* batches of rows left in each domain
  work         \* the runner of each process and of the task

purgeVars == <<account, deletion, objects, inflight, rows, work>>
vars == <<dispatchVars, purgeVars>>

Workers == Procs \cup {Task}

\* ACCOUNT_PURGE_STEPS, the markers of the d1 step in their place.
Order == <<"runs", "composio", "r2">> \o Domains \o <<"d1", "users">>

Steps == {Order[i] : i \in 1 .. Len(Order)}

IdleWork == [pc |-> "idle", from |-> "none", gen |-> 0, done |-> {}, page |-> {}]

TypeOK ==
  /\ DispatchTypeOK
  /\ account \in [user : {"active", "deleting", "gone"}, key : BOOLEAN, tombstone : BOOLEAN]
  /\ deletion \in [status : {"none", "pending", "done"}, steps : Seq(Steps)]
  /\ objects \subseteq Stored \cup Uploading /\ inflight \subseteq Uploading
  /\ rows \in [1 .. Len(Domains) -> 0 .. Batches]
  /\ work \in [Workers -> [pc : {"idle", "check", "read", "step", "delete", "mark"},
                           from : {"none", "job", "hourly", "run"}, gen : Nat,
                           done : SUBSET Steps, page : SUBSET (Stored \cup Uploading)]]

PurgeInit ==
  /\ DispatchInit
  /\ account = [user |-> "active", key |-> TRUE, tombstone |-> FALSE]
  /\ deletion = [status |-> "none", steps |-> <<>>]
  /\ objects = Stored
  /\ inflight = Uploading
  /\ rows = [i \in 1 .. Len(Domains) |-> Batches]
  /\ work = [w \in Workers |-> IdleWork]

-----------------------------------------------------------------------------
(* AccountDeletionService.delete *)

DeleteAccount ==
  /\ account.user = "active" /\ \E p \in Procs : api[p].up
  /\ account' = [account EXCEPT !.user = "deleting", !.key = FALSE]
  /\ deletion' = [deletion EXCEPT !.status = "pending"]
  /\ RecordIntent
  /\ UNCHANGED <<objects, inflight, rows, work>>

(***************************************************************************)
(* A publication that was let in before the deletion stores its artifacts  *)
(* without asking again.                                                   *)
(***************************************************************************)
Upload(o) ==
  /\ o \in inflight
  /\ objects' = objects \cup {o}
  /\ inflight' = inflight \ {o}
  /\ UNCHANGED <<dispatchVars, account, deletion, rows, work>>

-----------------------------------------------------------------------------
(* Who runs the purge *)

Begin(w, from, gen) ==
  work' = [work EXCEPT ![w] = [IdleWork EXCEPT !.pc = "check", !.from = from, !.gen = gen]]

StartJob(p) ==
  /\ api[p].job # 0 /\ work[p].pc = "idle"
  /\ Begin(p, "job", api[p].job)
  /\ UNCHANGED <<dispatchVars, account, deletion, objects, inflight, rows>>

\* The purge of the account already runs in this process: the handler returns.
JobFindsBusy(p) ==
  /\ api[p].job # 0 /\ work[p].from = "hourly"
  /\ api' = [api EXCEPT ![p].job = 0]
  /\ UNCHANGED <<exec, intent, op, run, starts, purgeVars>>

\* Faulty variant: the background job is not registered.
ResumePending_Never(p) == FALSE

ResumePending(p) ==
  /\ api[p].up /\ api[p].mode = "local" /\ exec.mode = "local"
  /\ deletion.status = "pending" /\ work[p].pc = "idle"
  /\ Begin(p, "hourly", exec.gen)
  /\ UNCHANGED <<dispatchVars, account, deletion, objects, inflight, rows>>

StartAttempt ==
  /\ run.status = "active" /\ work[Task].pc = "idle"
  /\ Begin(Task, "run", 0)
  /\ UNCHANGED <<dispatchVars, account, deletion, objects, inflight, rows>>

\* The purge call of a process returns or throws; either way its job is over.
Leave(p) ==
  /\ work' = [work EXCEPT ![p] = IdleWork]
  /\ api' = [api EXCEPT ![p].job = IF work[p].from = "job" THEN 0 ELSE @]
  /\ UNCHANGED run

Complete ==
  /\ work' = [work EXCEPT ![Task] = IdleWork]
  /\ run' = [run EXCEPT !.status = "completed"]
  /\ UNCHANGED api

Return(w) ==
  /\ IF w = Task THEN Complete ELSE Leave(w)
  /\ UNCHANGED <<exec, intent, op, starts>>

\* Faulty variant: attempts are not limited.
RetryOrFail_NoLimit ==
  /\ work' = [work EXCEPT ![Task] = IdleWork]
  /\ \/ run' = [run EXCEPT !.attempt = @ + 1]
     \/ run' = [run EXCEPT !.status = "failed"]
  /\ UNCHANGED api

\* Errors that no later attempt can overcome end the run at once.
RetryOrFail ==
  /\ work' = [work EXCEPT ![Task] = IdleWork]
  /\ \/ run.attempt < MaxAttempts /\ run' = [run EXCEPT !.attempt = @ + 1]
     \/ run' = [run EXCEPT !.status = "failed"]
  /\ UNCHANGED api

\* A call failed, the invocations are used up, or the process shuts down.
PurgeFails(w) ==
  /\ work[w].pc # "idle"
  /\ IF w = Task THEN RetryOrFail ELSE Leave(w)
  /\ UNCHANGED <<exec, intent, op, starts, account, deletion, objects, inflight, rows>>

CrashPurging(p) ==
  /\ Crash(p)
  /\ work' = [work EXCEPT ![p] = IdleWork]
  /\ UNCHANGED <<account, deletion, objects, inflight, rows>>

(***************************************************************************)
(* Before each invocation: the recorded mode is the worker's, at the       *)
(* generation of the job, or of the intent for the task.  That the         *)
(* reconciler also aborts the jobs of a retired generation adds nothing:   *)
(* an abort is heeded here too, and here the generation has moved already. *)
(***************************************************************************)
Entitled(w) ==
  IF w = Task THEN exec.mode = "durable" /\ intent.gen = exec.gen
              ELSE exec.mode = "local" /\ work[w].gen = exec.gen

GoTo(w, pc) == work' = [work EXCEPT ![w].pc = pc]

Check(w) ==
  /\ work[w].pc = "check"
  /\ IF Entitled(w) THEN GoTo(w, "read") /\ UNCHANGED dispatchVars ELSE Return(w)
  /\ UNCHANGED <<account, deletion, objects, inflight, rows>>

-----------------------------------------------------------------------------
(* AccountPurgeRunner.run, one invocation *)

Recorded == {deletion.steps[i] : i \in 1 .. Len(deletion.steps)}

\* Faulty variant: a resumed run starts at the row deletions.
ReadRow_SkipsObjects(w) ==
  /\ work[w].pc = "read"
  /\ work' = [work EXCEPT ![w].pc = "step", ![w].done = Recorded \cup {"r2"}, ![w].page = {}]
  /\ UNCHANGED <<dispatchVars, account, deletion, objects, inflight, rows>>

ReadRow(w) ==
  /\ work[w].pc = "read"
  /\ IF deletion.status = "done" THEN Return(w)
     ELSE /\ work' = [work EXCEPT ![w].pc = "step", ![w].done = Recorded, ![w].page = {}]
          /\ UNCHANGED dispatchVars
  /\ UNCHANGED <<account, deletion, objects, inflight, rows>>

AtStep(w, i) ==
  /\ work[w].pc = "step"
  /\ Order[i] \notin work[w].done
  /\ \A j \in 1 .. i - 1 : Order[j] \in work[w].done

\* Steps with nothing of their own to do: no kind has a tracker, no contributor a provider.
PassStep(w) ==
  /\ \E i \in 1 .. Len(Order) : AtStep(w, i) /\ Order[i] \in {"runs", "composio", "d1"}
  /\ GoTo(w, "mark")
  /\ UNCHANGED <<dispatchVars, account, deletion, objects, inflight, rows>>

\* Step 3 lists the account's prefix until a listing is empty.
ListObjects(w) ==
  /\ AtStep(w, 3)
  /\ work' = [work EXCEPT ![w].pc = IF objects = {} THEN "mark" ELSE "delete",
                          ![w].page = objects]
  /\ UNCHANGED <<dispatchVars, account, deletion, objects, inflight, rows>>

\* With more of the page to delete, maxObjectDeletes may be reached: the next invocation goes on.
DeleteObject(w, o) ==
  /\ work[w].pc = "delete" /\ o \in work[w].page
  /\ objects' = objects \ {o}
  /\ \E pc \in IF work[w].page = {o} THEN {"step"} ELSE {"delete", "check"} :
       work' = [work EXCEPT ![w].page = @ \ {o}, ![w].pc = pc]
  /\ UNCHANGED <<dispatchVars, account, deletion, inflight, rows>>

\* One batch of a domain's deletes and its remaining check; maxBatches may be reached.
PurgeRows(w, i) ==
  /\ AtStep(w, 3 + i)
  /\ rows' = [rows EXCEPT ![i] = IF @ > 0 THEN @ - 1 ELSE 0]
  /\ \E pc \in IF rows'[i] = 0 THEN {"mark"} ELSE {"step", "check"} : GoTo(w, pc)
  /\ UNCHANGED <<dispatchVars, account, deletion, objects, inflight>>

Append1(s) == [deletion EXCEPT !.steps = Append(@, s)]

\* maxBatches may be reached between two domains.
MarkStep(w, s) ==
  /\ work[w].pc = "mark"
  /\ s \in Steps \ work[w].done
  /\ \A i, j \in 1 .. Len(Order) : Order[i] = s /\ j < i => Order[j] \in work[w].done
  /\ deletion' = IF s \in Recorded THEN deletion ELSE Append1(s)
  /\ \E pc \in {"step"} \cup {"check" : i \in {j \in 1 .. Len(Domains) - 1 : Domains[j] = s}} :
       work' = [work EXCEPT ![w].pc = pc, ![w].done = @ \cup {s}]
  /\ UNCHANGED <<dispatchVars, account, objects, inflight, rows>>

(***************************************************************************)
(* Tombstone, users row and status in one batch.  A runner that finds the  *)
(* purge already done reports "incomplete" and reads the row again.        *)
(***************************************************************************)
DeleteUser(w) ==
  /\ AtStep(w, Len(Order))
  /\ account' = [account EXCEPT !.tombstone = TRUE,
                                !.user = IF @ = "deleting" THEN "gone" ELSE @]
  /\ IF deletion.status = "pending" /\ account'.user = "gone"
     THEN /\ deletion' = [Append1("users") EXCEPT !.status = "done"]
          /\ Return(w)
     ELSE /\ GoTo(w, "check")
          /\ UNCHANGED <<deletion, dispatchVars>>
  /\ UNCHANGED <<objects, inflight, rows>>

-----------------------------------------------------------------------------
Purge(w) ==
  \/ Check(w) \/ ReadRow(w) \/ PassStep(w) \/ ListObjects(w) \/ DeleteUser(w)
  \/ \E o \in work[w].page : DeleteObject(w, o)
  \/ \E i \in 1 .. Len(Domains) : PurgeRows(w, i)
  \/ \E s \in Steps : MarkStep(w, s)

PurgeNext ==
  \/ DispatchStep /\ UNCHANGED purgeVars
  \/ DeleteAccount
  \/ \E o \in inflight : Upload(o)
  \/ \E p \in Procs : StartJob(p) \/ JobFindsBusy(p) \/ ResumePending(p) \/ CrashPurging(p)
  \/ StartAttempt
  \/ \E w \in Workers : Purge(w) \/ PurgeFails(w)

PurgeSafety == PurgeInit /\ [][PurgeNext]_vars

(***************************************************************************)
(* A begun purge goes on, and only finitely many of its calls fail; the    *)
(* hourly timer of the steady process fires, and Trigger runs what it      *)
(* accepted.                                                               *)
(***************************************************************************)
WorkFairness(w) == WF_vars(Purge(w)) /\ <>[][~PurgeFails(w)]_vars

LocalPurgeSpec == PurgeSafety /\ WorkFairness(Steady) /\ WF_vars(ResumePending(Steady))

-----------------------------------------------------------------------------
(* Properties *)

\* steps_done grows in the order of the steps, each recorded once.
StepsInOrder == deletion.steps = SubSeq(Order, 1, Len(deletion.steps))

\* A recorded step is really done; uploads under way at the deletion are not covered.
RecordedStepsHold ==
  /\ "r2" \in Recorded => objects \subseteq Uploading
  /\ \A i \in 1 .. Len(Domains) : Domains[i] \in Recorded => rows[i] = 0
  /\ account.user = "gone" =>
       /\ account.tombstone /\ ~account.key
       /\ deletion.status = "done" /\ Recorded = Steps

(***************************************************************************)
(* Although several runners work from rows they read at different times,   *)
(* a step is recorded once, in order and for good: everything the account  *)
(* had stored is gone before its rows go, each domain before it is         *)
(* recorded, and the users row goes last, never without its tombstone.     *)
(***************************************************************************)
StepsHold == StepsInOrder /\ RecordedStepsHold

(***************************************************************************)
(* A deletion is completed once a process keeps serving local mode, in     *)
(* whatever state crashes and executor switches left the intent.           *)
(***************************************************************************)
PurgedInLocalMode ==
  <>[](LeftServing /\ exec.mode = "local")
    => (account.user = "deleting" ~> account.user = "gone")

(***************************************************************************)
(* "The stored copies are erased" (delete-account.tsx:275): nothing is     *)
(* left under the account's prefix when the purge is done.                 *)
(***************************************************************************)
NothingIsLeft == deletion.status = "done" => objects = {}
=============================================================================
