-------------------------- MODULE Workspace_proofs --------------------------
(***************************************************************************)
(* Theorems about TaskTree, TaskStore and DocEditing: for any tasks,       *)
(* writers and probes of a process's cached tree, any views and changes a  *)
(* browser shows, and any page sessions, drafts, saves and other writers.  *)
(* The forest of TaskTree needs the assumptions on its bounds, and that    *)
(* the top level is no task.                                               *)
(* DocEditing needs an assumption on its constants, that the bounds are    *)
(* numbers, and the last theorem of TaskStore that a version can be 1.     *)
(***************************************************************************)
EXTENDS TaskTree, TaskStore, DocEditing, FiniteSetTheorems, WellFoundedInduction,
        TLAPS

-----------------------------------------------------------------------------
(* The cached tree: the inductive invariant. *)

\* Records with the fields of a state, of a write and of a read.
IsState(s) ==
  s = [version |-> s.version, rows |-> s.rows, known |-> s.known] /\ s.version \in Nat
IsWrite(w) ==
  w = [pc |-> w.pc, lock |-> w.lock, task |-> w.task, state |-> w.state, after |-> w.after,
       cached |-> w.cached, version |-> w.version]

\* A state of the present version has the rows of the database, as far as it knows them.
Exact(s, now) ==
  /\ IsState(s) /\ s.version <= now.version /\ s.known \subseteq Tasks
  /\ s.version = now.version =>
       /\ Active(s.rows) = Active(now.rows)
       /\ \A t \in Active(now.rows) \cup s.known : s.rows[t] = now.rows[t]

(***************************************************************************)
(* A plan was made from an exact state; a committed one that is cached was *)
(* cached as an exact state would be.                                      *)
(***************************************************************************)
WriteOK(w, now) ==
  /\ IsWrite(w)
  /\ w.pc \in {"batch", "answer"} /\ (w.pc = "answer" => w.cached) => Exact(w.state, now)
  /\ w.pc = "answer" => w.version \in Nat /\ w.version <= now.version
  /\ w.pc = "answer" /\ w.cached /\ w.version = w.state.version + 1 => Exact(CacheAfter(w), now)

CacheInv ==
  /\ tree = [version |-> tree.version, rows |-> tree.rows] /\ tree.version \in Nat
  /\ DOMAIN write = Writes /\ \A r \in Writes : WriteOK(write[r], tree)
  /\ treeCache # Nothing => Exact(treeCache, tree)
  /\ reading # Nothing =>
       /\ reading = [kind |-> reading.kind, state |-> reading.state]
       /\ Exact(reading.state, tree)

-----------------------------------------------------------------------------
(* The cached tree: the steps. *)

LEMMA StateFields ==
  ASSUME NEW v \in Nat, NEW rows, NEW remembered, NEW s,
         s = [version |-> v, rows |-> rows, known |-> remembered]
  PROVE  IsState(s) /\ s.version = v /\ s.rows = rows /\ s.known = remembered
BY DEF IsState

LEMMA WriteFields ==
  ASSUME NEW pc, NEW lock, NEW task, NEW state, NEW after, NEW cached, NEW version, NEW w,
         w = [pc |-> pc, lock |-> lock, task |-> task, state |-> state, after |-> after,
              cached |-> cached, version |-> version]
  PROVE  /\ IsWrite(w) /\ w.pc = pc /\ w.lock = lock /\ w.task = task /\ w.state = state
         /\ w.after = after /\ w.cached = cached /\ w.version = version
BY DEF IsWrite

\* A write as it stands after its batch.
Answered(p, v) == [p EXCEPT !.pc = "answer", !.version = v]

LEMMA AnsweredFields ==
  ASSUME NEW p, IsWrite(p), NEW v, NEW w, w = Answered(p, v)
  PROVE  /\ IsWrite(w) /\ w.pc = "answer" /\ w.version = v /\ w.state = p.state
         /\ w.cached = p.cached /\ w.after = p.after
<1>1. w = [pc |-> "answer", lock |-> p.lock, task |-> p.task, state |-> p.state,
           after |-> p.after, cached |-> p.cached, version |-> v]
  <2> DEFINE q == [pc |-> p.pc, lock |-> p.lock, task |-> p.task, state |-> p.state,
                   after |-> p.after, cached |-> p.cached, version |-> p.version]
  <2>1. p = q
    BY DEF IsWrite
  <2>2. w = [q EXCEPT !.pc = "answer", !.version = v]
    BY <2>1 DEF Answered
  <2> QED
    BY <2>2
<1> QED
  BY <1>1, WriteFields

LEMMA LoadIsExact ==
  ASSUME CacheInv, NEW probes
  PROVE  Exact(Load(probes), tree)
<1>1. tree.version \in Nat
  BY DEF CacheInv
<1>2. Load(probes).known \subseteq Tasks
  BY DEF Load, Group, Archived
<1>3. /\ IsState(Load(probes)) /\ Load(probes).version = tree.version
      /\ Load(probes).rows = tree.rows
  BY <1>1, StateFields DEF Load
<1> QED
  BY <1>1, <1>2, <1>3 DEF Exact

LEMMA PlansAreExact ==
  ASSUME CacheInv, NEW r \in Writes, BeginWrite(r)
  PROVE  \E w : /\ w.pc = "batch" /\ IsWrite(w) /\ Exact(w.state, tree)
                /\ write' = [write EXCEPT ![r] = w]
<1>1. ASSUME NEW probes, NEW state,
             state = Load(probes) \/ (state = treeCache /\ treeCache # Nothing),
             NEW lock, NEW t, NEW after, NEW uses,
             write' = [write EXCEPT ![r] =
                         [pc |-> "batch", lock |-> lock, task |-> t, state |-> state,
                          after |-> after, cached |-> uses, version |-> 0]]
      PROVE  \E w : /\ w.pc = "batch" /\ IsWrite(w) /\ Exact(w.state, tree)
                    /\ write' = [write EXCEPT ![r] = w]
  <2> DEFINE w == [pc |-> "batch", lock |-> lock, task |-> t, state |-> state,
                   after |-> after, cached |-> uses, version |-> 0]
  <2>1. w.pc = "batch" /\ w.state = state /\ IsWrite(w)
    BY DEF IsWrite
  <2>2. Exact(state, tree)
    BY <1>1, LoadIsExact DEF CacheInv
  <2> QED
    BY <1>1, <2>1, <2>2
<1>2. ASSUME NEW t \in Tasks, NEW uses \in BOOLEAN, NEW parent \in Tasks \cup {TopLevel},
             NEW c \in Collections,
             Planned(r, uses, {parent} \ {TopLevel}, "tree", t,
                     LAMBDA s : PlanCreate(s, t, parent, c))
      PROVE  \E w : /\ w.pc = "batch" /\ IsWrite(w) /\ Exact(w.state, tree)
                    /\ write' = [write EXCEPT ![r] = w]
  <2> DEFINE cached == uses /\ Covers({parent} \ {TopLevel})
                       /\ PlanCreate(treeCache, t, parent, c) # Nothing
             state == IF cached THEN treeCache ELSE Load({parent} \ {TopLevel})
  <2>1. cached => treeCache # Nothing
    BY DEF Covers
  <2>2. write' = [write EXCEPT ![r] =
                    [pc |-> "batch", lock |-> "tree", task |-> t, state |-> state,
                     after |-> PlanCreate(state, t, parent, c), cached |-> uses, version |-> 0]]
    BY <1>2 DEF Planned
  <2> HIDE DEF cached
  <2> QED
    BY <1>1, <2>1, <2>2
<1>3. ASSUME NEW t \in Tasks, NEW uses \in BOOLEAN,
             Planned(r, uses, {t}, "row", t,
                     LAMBDA s : PlanRename(s, t))
      PROVE  \E w : /\ w.pc = "batch" /\ IsWrite(w) /\ Exact(w.state, tree)
                    /\ write' = [write EXCEPT ![r] = w]
  <2> DEFINE cached == uses /\ Covers({t})
                       /\ PlanRename(treeCache, t) # Nothing
             state == IF cached THEN treeCache ELSE Load({t})
  <2>1. cached => treeCache # Nothing
    BY DEF Covers
  <2>2. write' = [write EXCEPT ![r] =
                    [pc |-> "batch", lock |-> "row", task |-> t, state |-> state,
                     after |-> PlanRename(state, t), cached |-> uses, version |-> 0]]
    BY <1>3 DEF Planned
  <2> HIDE DEF cached
  <2> QED
    BY <1>1, <2>1, <2>2
<1>4. ASSUME NEW t \in Tasks, NEW uses \in BOOLEAN, NEW parent \in Tasks \cup {TopLevel},
             NEW c \in Collections,
             Planned(r, uses, {t, parent} \ {TopLevel}, "tree", t,
                     LAMBDA s : PlanMove(s, t, parent, c))
      PROVE  \E w : /\ w.pc = "batch" /\ IsWrite(w) /\ Exact(w.state, tree)
                    /\ write' = [write EXCEPT ![r] = w]
  <2> DEFINE cached == uses /\ Covers({t, parent} \ {TopLevel})
                       /\ PlanMove(treeCache, t, parent, c) # Nothing
             state == IF cached THEN treeCache ELSE Load({t, parent} \ {TopLevel})
  <2>1. cached => treeCache # Nothing
    BY DEF Covers
  <2>2. write' = [write EXCEPT ![r] =
                    [pc |-> "batch", lock |-> "tree", task |-> t, state |-> state,
                     after |-> PlanMove(state, t, parent, c), cached |-> uses, version |-> 0]]
    BY <1>4 DEF Planned
  <2> HIDE DEF cached
  <2> QED
    BY <1>1, <2>1, <2>2
<1>5. ASSUME NEW t \in Tasks, NEW uses \in BOOLEAN, NEW mode \in {"all", "parent_only"},
             Planned(r, uses, {t}, "tree", t,
                     LAMBDA s : PlanComplete(s, t, mode))
      PROVE  \E w : /\ w.pc = "batch" /\ IsWrite(w) /\ Exact(w.state, tree)
                    /\ write' = [write EXCEPT ![r] = w]
  <2> DEFINE cached == uses /\ Covers({t})
                       /\ PlanComplete(treeCache, t, mode) # Nothing
             state == IF cached THEN treeCache ELSE Load({t})
  <2>1. cached => treeCache # Nothing
    BY DEF Covers
  <2>2. write' = [write EXCEPT ![r] =
                    [pc |-> "batch", lock |-> "tree", task |-> t, state |-> state,
                     after |-> PlanComplete(state, t, mode), cached |-> uses, version |-> 0]]
    BY <1>5 DEF Planned
  <2> HIDE DEF cached
  <2> QED
    BY <1>1, <2>1, <2>2
<1>6. ASSUME NEW t \in Tasks, NEW uses \in BOOLEAN,
             Planned(r, uses, {t}, "tree", t,
                     LAMBDA s : PlanRestore(s, t))
      PROVE  \E w : /\ w.pc = "batch" /\ IsWrite(w) /\ Exact(w.state, tree)
                    /\ write' = [write EXCEPT ![r] = w]
  <2> DEFINE cached == uses /\ Covers({t})
                       /\ PlanRestore(treeCache, t) # Nothing
             state == IF cached THEN treeCache ELSE Load({t})
  <2>1. cached => treeCache # Nothing
    BY DEF Covers
  <2>2. write' = [write EXCEPT ![r] =
                    [pc |-> "batch", lock |-> "tree", task |-> t, state |-> state,
                     after |-> PlanRestore(state, t), cached |-> uses, version |-> 0]]
    BY <1>6 DEF Planned
  <2> HIDE DEF cached
  <2> QED
    BY <1>1, <2>1, <2>2
<1> QED
  BY <1>2, <1>3, <1>4, <1>5, <1>6 DEF BeginWrite

\* What was exact stays so when the tree moves to a later version.
LEMMA LaterIsExact ==
  ASSUME NEW s, NEW now, NEW later, Exact(s, now), now.version \in Nat, later.version \in Nat,
         later = now \/ now.version < later.version
  PROVE  Exact(s, later)
BY DEF Exact, IsState

LEMMA WritesStay ==
  ASSUME CacheInv, NEW later, later.version \in Nat,
         later = tree \/ tree.version < later.version
  PROVE  \A r \in Writes : WriteOK(write[r], later)
<1> SUFFICES ASSUME NEW r \in Writes
             PROVE  WriteOK(write[r], later)
  OBVIOUS
<1>1. WriteOK(write[r], tree) /\ tree.version \in Nat
  BY DEF CacheInv
<1>2. \A s : Exact(s, tree) => Exact(s, later)
  BY <1>1, LaterIsExact
<1>3. write[r].version \in Nat /\ write[r].version <= tree.version
        => write[r].version <= later.version
  BY <1>1
<1> QED
  BY <1>1, <1>2, <1>3 DEF WriteOK

\* A write changes its record and nothing else.
LEMMA OneWriteMoves ==
  ASSUME CacheInv, NEW r \in Writes, NEW w, WriteOK(w, tree'),
         write' = [write EXCEPT ![r] = w], tree' = [version |-> tree'.version, rows |-> tree'.rows],
         tree'.version \in Nat, tree' = tree \/ tree.version < tree'.version,
         UNCHANGED reading, treeCache' = treeCache \/ treeCache' = Nothing
                            \/ Exact(treeCache', tree')
  PROVE  CacheInv'
<1>1. tree.version \in Nat /\ DOMAIN write = Writes
  BY DEF CacheInv
<1>2. \A s : Exact(s, tree) => Exact(s, tree')
  BY <1>1, LaterIsExact
<1>3. \A q \in Writes : WriteOK(write[q], tree')
  BY WritesStay
<1>4. DOMAIN write' = Writes /\ \A q \in Writes : WriteOK(write'[q], tree')
  BY <1>1, <1>3
<1>5. treeCache' # Nothing => Exact(treeCache', tree')
  BY <1>2 DEF CacheInv
<1>6. reading' # Nothing => /\ reading' = [kind |-> reading'.kind, state |-> reading'.state]
                            /\ Exact(reading'.state, tree')
  BY <1>2 DEF CacheInv
<1> QED
  BY <1>4, <1>5, <1>6 DEF CacheInv

LEMMA IdleWriteOK == ASSUME NEW now PROVE WriteOK(IdleWrite, now) /\ IdleWrite.pc = "idle"
BY DEF WriteOK, IsWrite, IdleWrite

LEMMA BeginKeeps ==
  ASSUME CacheInv, NEW r \in Writes, BeginWrite(r)
  PROVE  CacheInv'
<1>1. PICK w : /\ w.pc = "batch" /\ IsWrite(w) /\ Exact(w.state, tree)
               /\ write' = [write EXCEPT ![r] = w]
  BY PlansAreExact
<1>2. WriteOK(w, tree)
  BY <1>1 DEF WriteOK
<1>3. UNCHANGED <<tree, treeCache, reading>>
  BY DEF BeginWrite
<1> QED
  BY <1>1, <1>2, <1>3, OneWriteMoves DEF CacheInv

(***************************************************************************)
(* A batch that applies a plan to the version it was made for leaves the   *)
(* rows the plan foresaw: those the plan does not change are as it read    *)
(* them.                                                                   *)
(***************************************************************************)
LEMMA AppliedPlan ==
  ASSUME CacheInv, NEW plan, IsWrite(plan), Exact(plan.state, tree),
         NEW rows, NEW later, later = [version |-> tree.version + 1, rows |-> rows],
         rows = [t \in Tasks |-> IF plan.after[t] # plan.state.rows[t] THEN plan.after[t]
                                 ELSE tree.rows[t]],
         NEW done, done = [plan EXCEPT !.pc = "answer", !.version = tree.version + 1]
  PROVE  done.version = done.state.version + 1 => Exact(CacheAfter(done), later)
<1>1. /\ done.state = plan.state /\ done.after = plan.after /\ done.version = tree.version + 1
  BY DEF IsWrite
<1>2. tree.version \in Nat /\ plan.state.version \in Nat
  BY DEF CacheInv, Exact, IsState
<1> SUFFICES ASSUME done.version = done.state.version + 1
             PROVE  Exact(CacheAfter(done), later)
  OBVIOUS
<1>3. plan.state.version = tree.version
  BY <1>1, <1>2
<1>4. /\ Active(plan.state.rows) = Active(tree.rows)
      /\ \A t \in Active(tree.rows) \cup plan.state.known :
           plan.state.rows[t] = tree.rows[t]
  BY <1>3 DEF Exact
<1> DEFINE remembered == {t \in Tasks : /\ plan.after[t].status = "archived"
                                   /\ \/ t \in plan.state.known
                                      \/ plan.state.rows[t].status = "active"}
<1>5. CacheAfter(done) = [version |-> tree.version + 1, rows |-> plan.after, known |-> remembered]
  BY <1>1 DEF CacheAfter
<1>6. \A t \in Tasks : /\ t \in Active(plan.state.rows) <=> plan.state.rows[t].status = "active"
                       /\ t \in Active(tree.rows) <=> tree.rows[t].status = "active"
                       /\ t \in Active(plan.after) <=> plan.after[t].status = "active"
                       /\ t \in Active(rows) <=> rows[t].status = "active"
  BY DEF Active
<1>7. ASSUME NEW t \in Tasks
      PROVE  /\ t \in Active(plan.after) <=> t \in Active(rows)
             /\ t \in Active(rows) \cup remembered => plan.after[t] = rows[t]
  <2>1. CASE plan.after[t] # plan.state.rows[t]
    BY <1>6, <2>1
  <2>2. CASE plan.after[t] = plan.state.rows[t]
    BY <1>4, <1>6, <2>2
  <2> QED
    BY <2>1, <2>2
<1>8. Active(plan.after) = Active(rows)
  <2>1. Active(plan.after) \subseteq Tasks /\ Active(rows) \subseteq Tasks
    BY DEF Active
  <2> QED
    BY <1>7, <2>1
<1>9. /\ IsState(CacheAfter(done)) /\ CacheAfter(done).version = tree.version + 1
      /\ CacheAfter(done).rows = plan.after /\ CacheAfter(done).known = remembered
  <2>1. tree.version + 1 \in Nat
    BY <1>2
  <2> HIDE DEF remembered
  <2> QED
    BY <1>5, <2>1, StateFields
<1>10. Active(rows) \subseteq Tasks /\ remembered \subseteq Tasks
  BY DEF Active
<1> HIDE DEF remembered
<1> QED
  BY <1>10, <1>2, <1>5, <1>7, <1>8, <1>9 DEF Exact

LEMMA CommitKeeps ==
  ASSUME CacheInv, NEW r \in Writes, CommitWrite(r)
  PROVE  CacheInv'
<1> DEFINE plan == write[r]
           rows == [t \in Tasks |-> IF plan.after[t] # plan.state.rows[t] THEN plan.after[t]
                                    ELSE tree.rows[t]]
           later == [version |-> tree.version + 1, rows |-> rows]
<1>1. /\ WriteOK(plan, tree) /\ tree.version \in Nat /\ plan.pc = "batch"
      /\ UNCHANGED reading
  BY DEF CacheInv, CommitWrite
<1>2. IsWrite(plan) /\ Exact(plan.state, tree)
  BY <1>1 DEF WriteOK
<1>3. CASE StillPlanned(plan)
  <2> DEFINE w == [IF plan.cached THEN plan ELSE IdleWrite
                   EXCEPT !.pc = "answer", !.version = tree.version + 1]
  <2>1. /\ tree' = [version |-> tree.version + 1,
                    rows |-> [t \in Tasks |->
                                IF t \in {u \in Tasks : plan.after[u] # plan.state.rows[u]}
                                THEN plan.after[t] ELSE tree.rows[t]]]
        /\ write' = [write EXCEPT ![r] = w] /\ UNCHANGED treeCache
    BY <1>3 DEF CommitWrite
  <2>2. tree' = later
    BY <2>1
  <2> HIDE DEF rows
  <2>3. /\ later.version = tree.version + 1 /\ later.version \in Nat
        /\ tree.version < later.version
        /\ later = [version |-> later.version, rows |-> later.rows]
    BY <1>1
  <2>4. CASE plan.cached
    <3>1. w = [plan EXCEPT !.pc = "answer", !.version = tree.version + 1]
      BY <2>4
    <3>2. /\ IsWrite(w) /\ w.pc = "answer" /\ w.version = tree.version + 1
          /\ w.state = plan.state
      <4>1. w = Answered(plan, tree.version + 1) /\ IsWrite(plan)
        BY <1>2, <3>1 DEF Answered
      <4> HIDE DEF w, plan
      <4> QED
        BY <4>1, AnsweredFields
    <3>3. w.version = w.state.version + 1 => Exact(CacheAfter(w), later)
      BY <1>2, <3>1, AppliedPlan DEF rows
    <3>4. Exact(w.state, later)
      BY <1>1, <1>2, <2>3, <3>2, LaterIsExact
    <3>5. WriteOK(w, later)
      <4> HIDE DEF w, later
      <4> QED
        BY <1>1, <2>3, <3>2, <3>3, <3>4 DEF WriteOK
    <3> HIDE DEF w, later
    <3> QED
      BY <1>1, <2>1, <2>2, <2>3, <3>5, OneWriteMoves
  <2>5. CASE ~plan.cached
    <3>1. w = [IdleWrite EXCEPT !.pc = "answer", !.version = tree.version + 1]
      BY <2>5
    <3>2. /\ IsWrite(w) /\ w.pc = "answer" /\ w.version = tree.version + 1 /\ w.cached = FALSE
      <4>1. IsWrite(IdleWrite) /\ IdleWrite.cached = FALSE
        BY DEF IsWrite, IdleWrite
      <4>2. w = Answered(IdleWrite, tree.version + 1)
        BY <3>1 DEF Answered
      <4> HIDE DEF w
      <4> QED
        BY <4>1, <4>2, AnsweredFields
    <3>3. WriteOK(w, later)
      <4> HIDE DEF w, later
      <4> QED
        BY <1>1, <2>3, <3>2 DEF WriteOK
    <3> HIDE DEF w, later
    <3> QED
      BY <1>1, <2>1, <2>2, <2>3, <3>3, OneWriteMoves
  <2> QED
    BY <2>4, <2>5
<1>4. CASE ~StillPlanned(plan)
  <2>1. /\ write' = [write EXCEPT ![r] = IdleWrite] /\ UNCHANGED tree
        /\ treeCache' = treeCache \/ treeCache' = Nothing
    BY <1>4 DEF CommitWrite
  <2> QED
    BY <1>1, <2>1, IdleWriteOK, OneWriteMoves DEF CacheInv
<1> QED
  BY <1>3, <1>4

LEMMA AnswersKeep ==
  ASSUME CacheInv, NEW r \in Writes, AnswerWrite(r) \/ LoseAnswer(r)
  PROVE  CacheInv'
<1>1. /\ write' = [write EXCEPT ![r] = IdleWrite] /\ UNCHANGED <<tree, reading>>
  BY DEF AnswerWrite, LoseAnswer
<1>2. WriteOK(write[r], tree)
  BY DEF CacheInv
<1>3. \/ treeCache' = treeCache \/ treeCache' = Nothing \/ Exact(treeCache', tree')
  <2>1. CASE LoseAnswer(r)
    BY <2>1 DEF LoseAnswer
  <2>2. CASE AnswerWrite(r) /\ write[r].cached
    <3>1. treeCache' = CacheAfter(write[r]) /\ write[r].pc = "answer"
      BY <2>2 DEF AnswerWrite
    <3>2. CASE write[r].version = write[r].state.version + 1
      BY <1>1, <1>2, <2>2, <3>1, <3>2 DEF WriteOK
    <3>3. CASE write[r].version # write[r].state.version + 1
      BY <3>1, <3>3 DEF CacheAfter
    <3> QED
      BY <3>2, <3>3
  <2>3. CASE AnswerWrite(r) /\ ~write[r].cached
    BY <2>3 DEF AnswerWrite
  <2> QED
    BY <2>1, <2>2, <2>3
<1> QED
  BY <1>1, <1>3, IdleWriteOK, OneWriteMoves DEF CacheInv

LEMMA ReadsKeep ==
  ASSUME CacheInv, ReadTree \/ ReadArchive \/ StoreRead \/ ForgetTree
  PROVE  CacheInv'
<1>1. UNCHANGED <<tree, write>>
  BY DEF ReadTree, ReadArchive, StoreRead, ForgetTree
<1>2. /\ tree.version \in Nat
      /\ treeCache # Nothing => Exact(treeCache, tree)
      /\ reading # Nothing => /\ reading = [kind |-> reading.kind, state |-> reading.state]
                              /\ Exact(reading.state, tree)
  BY DEF CacheInv
<1>3. /\ treeCache' # Nothing => Exact(treeCache', tree)
      /\ reading' # Nothing => /\ reading' = [kind |-> reading'.kind, state |-> reading'.state]
                               /\ Exact(reading'.state, tree)
  <2>1. CASE ReadTree
    <3>1. reading' = [kind |-> "tree", state |-> Load({})] /\ UNCHANGED treeCache
      BY <2>1 DEF ReadTree
    <3> QED
      BY <1>2, <3>1, LoadIsExact
  <2>2. CASE ReadArchive
    <3>1. PICK remembered \in SUBSET Tasks :
            reading' = [kind |-> "archive",
                        state |-> [version |-> tree.version, rows |-> tree.rows,
                                   known |-> remembered]]
      BY <2>2 DEF ReadArchive, Archived
    <3> DEFINE s == [version |-> tree.version, rows |-> tree.rows, known |-> remembered]
    <3>2. IsState(s) /\ s.version = tree.version /\ s.rows = tree.rows /\ s.known = remembered
      BY <1>2, StateFields
    <3>3. reading' = [kind |-> "archive", state |-> s] /\ UNCHANGED treeCache
      BY <2>2, <3>1 DEF ReadArchive
    <3> HIDE DEF s
    <3>4. Exact(s, tree)
      BY <1>2, <3>2 DEF Exact
    <3> QED
      BY <1>2, <3>3, <3>4
  <2>3. CASE ForgetTree
    BY <1>2, <2>3 DEF ForgetTree
  <2>4. CASE StoreRead
    <3> DEFINE read == reading.state
               rows == [t \in Tasks |-> IF t \in read.known THEN read.rows[t]
                                        ELSE treeCache.rows[t]]
               remembered == treeCache.known \cup read.known
    <3>1. reading # Nothing /\ reading' = Nothing /\ Exact(read, tree)
      BY <1>2, <2>4 DEF StoreRead
    <3>2. \/ treeCache' = read \/ treeCache' = Nothing
          \/ /\ treeCache # Nothing /\ treeCache.version = read.version
             /\ treeCache' = [treeCache EXCEPT !.known = remembered, !.rows = rows]
      BY <2>4 DEF StoreRead
    <3>3. ASSUME treeCache # Nothing, treeCache.version = read.version
          PROVE  Exact([treeCache EXCEPT !.known = remembered, !.rows = rows], tree)
      <4>1. /\ IsState(treeCache) /\ Exact(treeCache, tree)
        BY <1>2, <3>3 DEF Exact
      <4> DEFINE s == [treeCache EXCEPT !.known = remembered, !.rows = rows]
      <4>2. IsState(s) /\ s.version = treeCache.version /\ s.rows = rows /\ s.known = remembered
        <5> DEFINE c == [version |-> treeCache.version, rows |-> treeCache.rows,
                         known |-> treeCache.known]
        <5> HIDE DEF rows, remembered
        <5>1. treeCache = c /\ treeCache.version \in Nat
          BY <4>1 DEF IsState
        <5>2. s = [c EXCEPT !.known = remembered, !.rows = rows]
          BY <5>1
        <5> HIDE DEF s
        <5>3. s = [version |-> treeCache.version, rows |-> rows, known |-> remembered]
          BY <5>2
        <5> QED
          BY <5>1, <5>3, StateFields
      <4>3. ASSUME treeCache.version = tree.version
            PROVE  /\ Active(rows) = Active(tree.rows)
                   /\ \A t \in Active(tree.rows) \cup remembered : rows[t] = tree.rows[t]
        <5>1. /\ Active(treeCache.rows) = Active(tree.rows)
              /\ \A t \in Active(tree.rows) \cup treeCache.known :
                   treeCache.rows[t] = tree.rows[t]
              /\ \A t \in Active(tree.rows) \cup read.known :
                   read.rows[t] = tree.rows[t]
          BY <3>1, <3>3, <4>1, <4>3 DEF Exact
        <5>2. \A t \in Active(tree.rows) \cup remembered : rows[t] = tree.rows[t]
          <6>1. remembered \subseteq Tasks /\ Active(tree.rows) \subseteq Tasks
            BY <3>1, <4>1 DEF Exact, Active
          <6> QED
            BY <5>1, <6>1
        <5>3. \A t \in Tasks : rows[t].status = "active" <=> tree.rows[t].status = "active"
          BY <5>1, <5>2 DEF Active
        <5> QED
          BY <5>2, <5>3 DEF Active
      <4>5. remembered \subseteq Tasks
        BY <3>1, <4>1 DEF Exact
      <4> HIDE DEF s, rows, remembered
      <4>4. Exact(s, tree)
        BY <4>1, <4>2, <4>3, <4>5 DEF Exact
      <4> QED
        BY <4>4 DEF s
    <3> QED
      BY <3>1, <3>2, <3>3
  <2> QED
    BY <2>1, <2>2, <2>3, <2>4
<1> QED
  BY <1>1, <1>3 DEF CacheInv

LEMMA CacheStarts == TreeInit => CacheInv
<1> SUFFICES ASSUME TreeInit
             PROVE  CacheInv
  OBVIOUS
<1> QED
  BY IdleWriteOK DEF TreeInit, CacheInv

LEMMA CacheStepsKeep == CacheInv /\ [TreeNext]_treeVars => CacheInv'
<1> SUFFICES ASSUME CacheInv, [TreeNext]_treeVars
             PROVE  CacheInv'
  OBVIOUS
<1>1. CASE TreeNext
  BY <1>1, BeginKeeps, CommitKeeps, AnswersKeep, ReadsKeep DEF TreeNext
<1>2. CASE UNCHANGED treeVars
  BY <1>2 DEF treeVars, CacheInv
<1> QED
  BY <1>1, <1>2

(***************************************************************************)
(* Every state that a process plans from or will cache is exact at its     *)
(* version, whatever other processes commit meanwhile (core tasks/).       *)
(***************************************************************************)
THEOREM CacheInvAlways == TreeSpec => []CacheInv
<1> QED
  BY CacheStarts, CacheStepsKeep, PTL DEF TreeSpec

(***************************************************************************)
(* A cached tree of the present version has the rows of the database, so a *)
(* plan that the version lock accepts overwrites nothing it did not see    *)
(* (core tasks/state.ts).                                                  *)
(***************************************************************************)
THEOREM CachedTreesAreExact == TreeSpec => []CacheIsExact
<1>1. CacheInv => CacheIsExact
  BY DEF CacheInv, Exact, CacheIsExact, Active
<1> QED
  BY <1>1, CacheInvAlways, PTL

-----------------------------------------------------------------------------
(* The forest of tasks: the operators of TaskTree, unfolded. *)

\* Induction, over a set of numbers.
LEMMA NumbersReached ==
  ASSUME NEW S, 0 \in S, \A n \in S \cap Nat : n + 1 \in S
  PROVE  Nat \subseteq S
<1> SUFFICES ASSUME Nat \ S # {}
             PROVE  FALSE
  OBVIOUS
<1>1. PICK n \in Nat \ S : \A m \in Nat \ S : <<m, n>> \notin OpToRel(<, Nat)
  BY NatLessThanWellFounded, WFMin
<1>2. n \in Nat /\ n \notin S
  OBVIOUS
<1>3. n # 0
  BY <1>2
<1>4. n - 1 \in Nat /\ n - 1 < n /\ (n - 1) + 1 = n
  BY <1>2, <1>3
<1> DEFINE m == n - 1
<1> HIDE DEF m
<1>5. m \in S
  <2>1. m \notin S => <<m, n>> \in OpToRel(<, Nat)
    BY <1>2, <1>4 DEF OpToRel, m
  <2> QED
    BY <1>1, <1>4, <2>1 DEF m
<1>6. m + 1 \in S
  BY <1>4, <1>5 DEF m
<1> QED
  BY <1>2, <1>4, <1>6 DEF m

Maps(S) == [S -> S]
Runs(S, g, x, N) == {f \in [0..N -> S] : f[0] = x /\ \A n \in 1..N : f[n] = g[f[n - 1]]}

\* What a recursive function on 0..N computes step by step exists.
LEMMA StepsExist ==
  ASSUME NEW S, NEW g \in Maps(S), NEW x \in S, NEW N \in Nat
  PROVE  Runs(S, g, x, N) # {}
<1> USE DEF Maps
<1> DEFINE Is(f, m) == f = [n \in 0..m |-> IF n = 0 THEN x ELSE g[f[n - 1]]]
           Reached == {m \in Nat : \E f \in [0..m -> S] : Is(f, m)}
<1>1. 0 \in Reached
  <2> DEFINE f == [n \in 0..0 |-> x]
  <2>1. f \in [0..0 -> S] /\ Is(f, 0)
    OBVIOUS
  <2> QED
    BY <2>1
<1>2. ASSUME NEW m \in Reached
      PROVE  m + 1 \in Reached
  <2>1. PICK f \in [0..m -> S] : Is(f, m)
    OBVIOUS
  <2> DEFINE h == [n \in 0..(m + 1) |-> IF n = m + 1 THEN g[f[m]] ELSE f[n]]
  <2>2. h \in [0..(m + 1) -> S]
    OBVIOUS
  <2>3. ASSUME NEW n \in 0..(m + 1)
        PROVE  h[n] = IF n = 0 THEN x ELSE g[h[n - 1]]
    <3>1. CASE n = m + 1
      <4>1. n - 1 = m /\ n # 0 /\ m # m + 1 /\ m \in 0..(m + 1)
        BY <3>1
      <4>2. h[n - 1] = f[m] /\ h[n] = g[f[m]]
        BY <3>1, <4>1
      <4> QED
        BY <4>1, <4>2
    <3>2. CASE n # m + 1
      <4>1. n \in 0..m /\ h[n] = f[n]
        BY <3>2
      <4>2. n # 0 => n - 1 \in 0..(m + 1) /\ n - 1 # m + 1
        BY <4>1
      <4>3. n # 0 => h[n - 1] = f[n - 1]
        BY <4>2
      <4> HIDE DEF h
      <4>4. f[n] = IF n = 0 THEN x ELSE g[f[n - 1]]
        BY <2>1, <4>1
      <4> QED
        BY <4>1, <4>3, <4>4
    <3> QED
      BY <3>1, <3>2
  <2> HIDE DEF h
  <2>4. Is(h, m + 1)
    BY <2>2, <2>3
  <2>5. m + 1 \in Nat
    OBVIOUS
  <2> HIDE DEF Is
  <2> QED
    BY <2>2, <2>4, <2>5
<1> HIDE DEF Reached
<1>3. N \in Reached
  <2>1. \A n \in Reached \cap Nat : n + 1 \in Reached
    BY <1>2
  <2> QED
    BY <1>1, <2>1, NumbersReached
<1>4. PICK f \in [0..N -> S] : Is(f, N)
  BY <1>3 DEF Reached
<1>5. f[0] = x /\ \A n \in 1..N : f[n] = g[f[n - 1]]
  BY <1>4
<1> QED
  BY <1>5 DEF Runs

\* The climb from a task, a step at a time.
Up(rows, t) ==
  CHOOSE up : up = [n \in 0..MaxDepth |->
    IF n = 0 THEN {t} ELSE up[n - 1] \union {ParentOf(rows, u) : u \in up[n - 1] \ {TopLevel}}]

LEMMA UpIsAncestors ==
  ASSUME NEW rows, NEW t
  PROVE  Ancestors(rows, t) = Up(rows, t)[MaxDepth] \ {t, TopLevel}
BY DEF Ancestors, Up

LEMMA UpSteps ==
  ASSUME NEW rows, NEW t \in Tasks
  PROVE  /\ Up(rows, t)[0] = {t}
         /\ \A n \in 1..MaxDepth : Up(rows, t)[n] = Up(rows, t)[n - 1] \union
                {ParentOf(rows, u) : u \in Up(rows, t)[n - 1] \ {TopLevel}}
<1> DEFINE S == SUBSET (Tasks \cup {TopLevel})
           g == [X \in S |-> X \cup {ParentOf(rows, u) : u \in X \ {TopLevel}}]
           Is(up) == up = [n \in 0..MaxDepth |->
             IF n = 0 THEN {t} ELSE up[n - 1] \union {ParentOf(rows, u) : u \in up[n - 1] \ {TopLevel}}]
<1>1. \A u : ParentOf(rows, u) \in Tasks \cup {TopLevel}
  BY DEF ParentOf, Active
<1>2. g \in [S -> S]
  BY <1>1
<1>3. {t} \in S /\ MaxDepth \in Nat
  BY TreeBounds
<1>4. PICK f \in [0..MaxDepth -> S] :
        f[0] = {t} /\ \A n \in 1..MaxDepth : f[n] = g[f[n - 1]]
  <2>1. g \in Maps(S) /\ {t} \in S
    BY <1>2, <1>3 DEF Maps
  <2> HIDE DEF g, S
  <2>2. Runs(S, g, {t}, MaxDepth) # {}
    BY <1>3, <2>1, StepsExist
  <2> QED
    BY <2>2 DEF Runs
<1>5. Is(f)
  <2>1. ASSUME NEW n \in 0..MaxDepth, n # 0
        PROVE  g[f[n - 1]] = f[n - 1] \union {ParentOf(rows, u) : u \in f[n - 1] \ {TopLevel}}
    <3>1. n - 1 \in 0..MaxDepth
      BY <2>1, <1>3
    <3>2. f[n - 1] \in S
      BY <3>1
    <3> QED
      BY <3>2
  <2>2. ASSUME NEW n \in 0..MaxDepth
        PROVE  f[n] = IF n = 0 THEN {t} ELSE g[f[n - 1]]
    <3>1. n = 0 \/ n \in 1..MaxDepth
      BY <1>3
    <3> HIDE DEF g, S
    <3> QED
      BY <1>4, <3>1, <1>3
  <2> HIDE DEF g, S
  <2> QED
    BY <1>4, <2>1, <2>2
<1>6. Is(Up(rows, t))
  <2> HIDE DEF Is
  <2>1. Up(rows, t) = CHOOSE up : Is(up)
    BY DEF Is, Up
  <2> QED
    BY <1>5, <2>1
<1> DEFINE w == Up(rows, t)
<1> HIDE DEF w
<1>7. w = [n \in 0..MaxDepth |->
             IF n = 0 THEN {t} ELSE w[n - 1] \union {ParentOf(rows, u) : u \in w[n - 1] \ {TopLevel}}]
  BY <1>6 DEF w
<1>8. \A n \in 0..MaxDepth : w[n] =
             IF n = 0 THEN {t} ELSE w[n - 1] \union {ParentOf(rows, u) : u \in w[n - 1] \ {TopLevel}}
  BY <1>7, Zenon
<1>9. 0 \in 0..MaxDepth /\ \A n \in 1..MaxDepth : n \in 0..MaxDepth /\ n # 0
  BY <1>3
<1>10. w[0] = {t}
  BY <1>8, <1>9
<1>11. \A n \in 1..MaxDepth : w[n] = w[n - 1] \union
                {ParentOf(rows, u) : u \in w[n - 1] \ {TopLevel}}
  BY <1>8, <1>9
<1> QED
  BY <1>10, <1>11 DEF w

-----------------------------------------------------------------------------
(* The forest: ranks, and what is above and below a task. *)

\* Ranks of the active tasks: a task is one below its parent.
Ranked(rows, d, B) ==
  /\ d \in [Tasks -> 0..B]
  /\ \A t \in Active(rows) :
       \/ rows[t].parent = TopLevel /\ d[t] = 0
       \/ rows[t].parent \in Active(rows) /\ d[t] = d[rows[t].parent] + 1

LEMMA RankedParent ==
  ASSUME NEW rows, NEW d, Ranked(rows, d, MaxDepth), NEW t \in Active(rows)
  PROVE  /\ t \in Tasks /\ t # TopLevel /\ d[t] \in 0..MaxDepth
         /\ \/ ParentOf(rows, t) = TopLevel /\ d[t] = 0 /\ rows[t].parent = TopLevel
            \/ /\ ParentOf(rows, t) = rows[t].parent /\ ParentOf(rows, t) \in Active(rows)
               /\ ParentOf(rows, t) # TopLevel /\ d[t] = d[ParentOf(rows, t)] + 1
<1>1. Active(rows) \subseteq Tasks /\ TopLevel \notin Tasks
  BY TreeBounds DEF Active
<1> QED
  BY <1>1 DEF Ranked, ParentOf

\* What n steps up reach: active tasks of a lower rank, closed under parents
\* but for the topmost.
Climbed(rows, d, t, n) ==
  \A u \in Up(rows, t)[n] \ {TopLevel} :
    /\ u \in Active(rows) /\ (u = t \/ d[u] < d[t])
    /\ ParentOf(rows, u) \in Up(rows, t)[n] \cup {TopLevel} \/ d[u] + n = d[t]

LEMMA ClimbsDown ==
  ASSUME NEW rows, NEW d, Ranked(rows, d, MaxDepth), NEW t \in Active(rows), NEW n \in 0..MaxDepth
  PROVE  Climbed(rows, d, t, n)
<1> DEFINE S == {m \in Nat : m <= MaxDepth => Climbed(rows, d, t, m)}
           U(m) == Up(rows, t)[m]
<1>0. MaxDepth \in Nat /\ t \in Tasks /\ \A u \in Active(rows) : d[u] \in Nat
  BY RankedParent, TreeBounds DEF Ranked, Active
<1>1. /\ U(0) = {t}
      /\ \A m \in 1..MaxDepth : U(m) = U(m - 1) \union {ParentOf(rows, u) : u \in U(m - 1) \ {TopLevel}}
  BY <1>0, UpSteps
<1> HIDE DEF U
<1>2. 0 \in S
  <2>1. Climbed(rows, d, t, 0)
    BY <1>0, <1>1 DEF Climbed, U
  <2> QED
    BY <2>1
<1>3. ASSUME NEW m \in Nat, m \in S
      PROVE  m + 1 \in S
  <2>1. SUFFICES ASSUME m + 1 <= MaxDepth
                 PROVE  Climbed(rows, d, t, m + 1)
    BY <1>3
  <2>2. Climbed(rows, d, t, m)
    BY <1>0, <1>3, <2>1
  <2>3. m + 1 \in 1..MaxDepth /\ (m + 1) - 1 = m
    BY <1>0, <2>1
  <2>4. U(m + 1) = U(m) \union {ParentOf(rows, u) : u \in U(m) \ {TopLevel}}
    BY <1>1, <2>3
  <2>5. SUFFICES ASSUME NEW u \in U(m + 1) \ {TopLevel}
                 PROVE  /\ u \in Active(rows) /\ (u = t \/ d[u] < d[t])
                        /\ \/ ParentOf(rows, u) \in U(m + 1) \cup {TopLevel}
                           \/ d[u] + (m + 1) = d[t]
    BY DEF Climbed, U
  <2>6. CASE u \in U(m)
    BY <2>2, <2>4, <2>6 DEF Climbed, U
  <2>7. CASE u \notin U(m)
    <3>1. PICK w \in U(m) \ {TopLevel} : u = ParentOf(rows, w)
      BY <2>4, <2>7
    <3>2. /\ w \in Active(rows) /\ (w = t \/ d[w] < d[t]) /\ d[w] + m = d[t]
      BY <2>2, <2>5, <2>7, <3>1 DEF Climbed, U
    <3>3. u \in Active(rows) /\ d[w] = d[u] + 1
      BY <2>5, <3>1, <3>2, RankedParent
    <3>4. d[u] \in Nat /\ d[w] \in Nat /\ d[t] \in Nat
      BY <1>0, <3>2, <3>3
    <3> QED
      BY <3>2, <3>3, <3>4
  <2> QED
    BY <2>6, <2>7
<1> HIDE DEF S
<1>4. Nat \subseteq S
  BY <1>2, <1>3, NumbersReached
<1> QED
  BY <1>0, <1>4 DEF S

\* Below a parent, the climb is the parent's with the task itself.
LEMMA ClimbsThroughParent ==
  ASSUME NEW rows, NEW d, Ranked(rows, d, MaxDepth), NEW t \in Active(rows), NEW p \in Active(rows),
         p = ParentOf(rows, t), NEW n \in 0..(MaxDepth - 1)
  PROVE  Up(rows, t)[n + 1] = {t} \cup Up(rows, p)[n] /\ p \in Up(rows, p)[n]
<1> DEFINE U(m) == Up(rows, t)[m]
           V(m) == Up(rows, p)[m]
           S == {m \in Nat : m <= MaxDepth - 1 => U(m + 1) = {t} \cup V(m) /\ p \in V(m)}
<1>0. MaxDepth \in Nat \ {0} /\ t \in Tasks /\ p \in Tasks /\ t # TopLevel
  BY RankedParent, TreeBounds DEF Active
<1>1. /\ U(0) = {t} /\ V(0) = {p}
      /\ \A m \in 1..MaxDepth : U(m) = U(m - 1) \union {ParentOf(rows, u) : u \in U(m - 1) \ {TopLevel}}
      /\ \A m \in 1..MaxDepth : V(m) = V(m - 1) \union {ParentOf(rows, u) : u \in V(m - 1) \ {TopLevel}}
  BY <1>0, UpSteps
<1> HIDE DEF U, V
<1>2. 0 \in S
  <2>1. 1 \in 1..MaxDepth /\ 0 + 1 = 1 /\ 1 - 1 = 0
    BY <1>0
  <2>2. U(1) = U(0) \union {ParentOf(rows, u) : u \in U(0) \ {TopLevel}}
    BY <1>1, <2>1
  <2>3. U(0 + 1) = {t} \cup V(0) /\ p \in V(0)
    BY <1>0, <1>1, <2>1, <2>2
  <2> QED
    BY <2>3
<1>3. ASSUME NEW m \in Nat, m \in S
      PROVE  m + 1 \in S
  <2>1. SUFFICES ASSUME m + 1 <= MaxDepth - 1
                 PROVE  U((m + 1) + 1) = {t} \cup V(m + 1) /\ p \in V(m + 1)
    BY <1>3
  <2>2. U(m + 1) = {t} \cup V(m) /\ p \in V(m)
    BY <1>0, <1>3, <2>1
  <2>3. /\ m + 1 \in 1..MaxDepth /\ (m + 1) - 1 = m
        /\ (m + 1) + 1 \in 1..MaxDepth /\ ((m + 1) + 1) - 1 = m + 1
    BY <1>0, <2>1
  <2>4. U((m + 1) + 1) = U(m + 1) \union {ParentOf(rows, u) : u \in U(m + 1) \ {TopLevel}}
    BY <1>1, <2>3
  <2>5. V(m + 1) = V(m) \union {ParentOf(rows, u) : u \in V(m) \ {TopLevel}}
    BY <1>1, <2>3
  <2> QED
    BY <1>0, <2>2, <2>4, <2>5
<1> HIDE DEF S
<1>4. Nat \subseteq S
  BY <1>2, <1>3, NumbersReached
<1> QED
  BY <1>0, <1>4 DEF S, U, V

\* At the top level there is nowhere to climb; below, to the parent and its ancestors.
LEMMA AncestorsStep ==
  ASSUME NEW rows, NEW d, Ranked(rows, d, MaxDepth), NEW t \in Active(rows)
  PROVE  /\ ParentOf(rows, t) = TopLevel => Ancestors(rows, t) = {}
         /\ ParentOf(rows, t) # TopLevel =>
              /\ Ancestors(rows, t) = {ParentOf(rows, t)} \cup Ancestors(rows, ParentOf(rows, t))
              /\ ParentOf(rows, t) \notin Ancestors(rows, ParentOf(rows, t))
<1> DEFINE p == ParentOf(rows, t)
<1>0. MaxDepth \in Nat \ {0} /\ \A u \in Active(rows) : d[u] \in 0..MaxDepth
  BY RankedParent, TreeBounds
<1>1. ASSUME p = TopLevel
      PROVE  Ancestors(rows, t) = {}
  <2>1. d[t] = 0 /\ MaxDepth \in 0..MaxDepth
    BY <1>0, <1>1, RankedParent
  <2>2. \A u \in Up(rows, t)[MaxDepth] \ {TopLevel} : u \in Active(rows) /\ (u = t \/ d[u] < d[t])
    BY <2>1, ClimbsDown DEF Climbed
  <2>3. Up(rows, t)[MaxDepth] \subseteq {t, TopLevel}
    BY <1>0, <2>1, <2>2
  <2> QED
    BY <2>3, UpIsAncestors
<1>2. ASSUME p # TopLevel
      PROVE  Ancestors(rows, t) = {p} \cup Ancestors(rows, p) /\ p \notin Ancestors(rows, p)
  <2>1. p \in Active(rows) /\ d[t] = d[p] + 1 /\ t # TopLevel
    BY <1>2, RankedParent
  <2> DEFINE n == MaxDepth - 1
             V == Up(rows, p)[n]
             W == Up(rows, p)[MaxDepth]
  <2>2. n \in 0..n /\ n \in 0..MaxDepth /\ n + 1 = MaxDepth /\ MaxDepth \in 1..MaxDepth
        /\ MaxDepth \in 0..MaxDepth
    BY <1>0
  <2>3. Up(rows, t)[MaxDepth] = {t} \cup V /\ p \in V
    <3>1. Up(rows, t)[n + 1] = {t} \cup Up(rows, p)[n] /\ p \in Up(rows, p)[n]
      BY <2>1, <2>2, ClimbsThroughParent
    <3> QED
      BY <2>2, <3>1
  <2>4. W = V \union {ParentOf(rows, u) : u \in V \ {TopLevel}}
    BY <2>1, <2>2, UpSteps DEF Active
  <2>5. ASSUME NEW u \in V \ {TopLevel}
        PROVE  ParentOf(rows, u) \in V \cup {TopLevel}
    <3>1. u \in Active(rows) /\ (ParentOf(rows, u) \in V \cup {TopLevel} \/ d[u] + n = d[p])
      BY <2>1, <2>2, ClimbsDown DEF Climbed
    <3>2. d[p] <= n /\ d[u] \in Nat /\ d[p] \in Nat /\ n \in Nat
      BY <1>0, <2>1, <3>1
    <3>3. d[u] + n = d[p] => d[u] = 0
      BY <3>2
    <3>4. ASSUME d[u] = 0
          PROVE  ParentOf(rows, u) = TopLevel
      <4>1. ParentOf(rows, u) = TopLevel \/ (ParentOf(rows, u) \in Active(rows) /\ d[u] = d[ParentOf(rows, u)] + 1)
        BY <3>1, RankedParent
      <4> QED
        BY <1>0, <3>4, <4>1
    <3> QED
      BY <3>1, <3>3, <3>4
  <2>6. W \ {TopLevel} = V \ {TopLevel}
    BY <2>4, <2>5
  <2>7. t \notin V
    <3>1. SUFFICES ASSUME t \in V
                   PROVE  FALSE
      OBVIOUS
    <3>2. t = p \/ d[t] < d[p]
      BY <2>1, <2>2, <3>1, ClimbsDown DEF Climbed
    <3> QED
      BY <1>0, <2>1, <3>2
  <2>8. Ancestors(rows, t) = V \ {TopLevel}
    BY <2>3, <2>7, UpIsAncestors
  <2>9. Ancestors(rows, p) = (V \ {TopLevel}) \ {p}
    BY <2>6, UpIsAncestors
  <2>10. p # TopLevel
    BY <1>2
  <2> HIDE DEF V
  <2> QED
    BY <2>3, <2>8, <2>9, <2>10
<1> QED
  BY <1>1, <1>2

-----------------------------------------------------------------------------
(* The forest: depth, subtrees and height. *)

\* A task's rank is its depth.
LEMMA RankIsDepth ==
  ASSUME NEW rows, NEW d, Ranked(rows, d, MaxDepth), NEW t \in Active(rows)
  PROVE  /\ Ancestors(rows, t) \subseteq Active(rows) /\ \A a \in Ancestors(rows, t) : d[a] < d[t]
         /\ Depth(rows, t) = d[t] /\ d[t] \in 0..MaxDepth
<1> DEFINE A(u) == Ancestors(rows, u)
           Good(u) == /\ A(u) \subseteq Active(rows) /\ \A a \in A(u) : d[a] < d[u]
                      /\ IsFiniteSet(A(u)) /\ Cardinality(A(u)) = d[u]
           S == {n \in Nat : \A u \in Active(rows) : d[u] = n => Good(u)}
<1>0. /\ \A u \in Active(rows) : d[u] \in 0..MaxDepth /\ d[u] \in Nat /\ u # TopLevel
      /\ MaxDepth \in Nat
  BY RankedParent, TreeBounds
<1>1. ASSUME NEW u \in Active(rows), ParentOf(rows, u) = TopLevel
      PROVE  Good(u)
  <2>1. A(u) = {} /\ d[u] = 0
    BY <1>1, AncestorsStep, RankedParent
  <2> QED
    BY <2>1, FS_EmptySet
<1>2. ASSUME NEW u \in Active(rows), ParentOf(rows, u) # TopLevel, Good(ParentOf(rows, u))
      PROVE  Good(u)
  <2> DEFINE p == ParentOf(rows, u)
  <2>1. p \in Active(rows) /\ d[u] = d[p] + 1
    BY <1>2, RankedParent
  <2>2. A(u) = {p} \cup A(p) /\ p \notin A(p)
    BY <1>2, AncestorsStep
  <2>3. IsFiniteSet(A(p)) /\ Cardinality(A(p)) = d[p]
    BY <1>2
  <2> HIDE DEF A, p
  <2>4. IsFiniteSet(A(p) \cup {p}) /\ Cardinality(A(p) \cup {p}) = d[p] + 1
    BY <2>2, <2>3, FS_AddElement
  <2>5. A(u) = A(p) \cup {p}
    BY <2>2
  <2>6. A(p) \subseteq Active(rows) /\ \A a \in A(p) : d[a] < d[p]
    BY <1>2 DEF p
  <2>7. A(u) \subseteq Active(rows)
    BY <2>1, <2>2, <2>6
  <2>8. \A a \in A(u) : d[a] < d[u]
    BY <1>0, <2>1, <2>2, <2>6, <2>7
  <2> QED
    BY <2>1, <2>4, <2>5, <2>7, <2>8
<1> HIDE DEF Good
<1>3. 0 \in S
  <2>1. ASSUME NEW u \in Active(rows), d[u] = 0
        PROVE  ParentOf(rows, u) = TopLevel
    <3>1. \/ ParentOf(rows, u) = TopLevel
          \/ ParentOf(rows, u) \in Active(rows) /\ d[u] = d[ParentOf(rows, u)] + 1
      BY RankedParent
    <3> QED
      BY <1>0, <2>1, <3>1
  <2> QED
    BY <1>1, <2>1
<1>4. ASSUME NEW n \in Nat, n \in S
      PROVE  n + 1 \in S
  <2>1. ASSUME NEW u \in Active(rows), d[u] = n + 1
        PROVE  Good(u)
    <3>1. \/ ParentOf(rows, u) = TopLevel
          \/ ParentOf(rows, u) \in Active(rows) /\ d[u] = d[ParentOf(rows, u)] + 1
      BY RankedParent
    <3>2. ASSUME ParentOf(rows, u) # TopLevel
          PROVE  Good(ParentOf(rows, u))
      <4>1. ParentOf(rows, u) \in Active(rows) /\ d[ParentOf(rows, u)] = n
        BY <1>0, <2>1, <3>1, <3>2
      <4> QED
        BY <1>4, <4>1
    <3> QED
      BY <1>1, <1>2, <3>2
  <2> QED
    BY <2>1
<1> HIDE DEF S
<1>5. Nat \subseteq S
  BY <1>3, <1>4, NumbersReached
<1>6. Good(t)
  BY <1>0, <1>5 DEF S
<1>7. Depth(rows, t) = Cardinality(A(t))
  BY <1>0 DEF Depth
<1> QED
  BY <1>0, <1>6, <1>7 DEF Good


\* A subtree is a task's children and their subtrees.
LEMMA SubtreeSteps ==
  ASSUME NEW rows, NEW d, Ranked(rows, d, MaxDepth), NEW t \in Active(rows), NEW u \in Active(rows)
  PROVE  /\ u \in Descendants(rows, t) <=> ParentOf(rows, u) \in {t} \cup Descendants(rows, t)
         /\ u \in Descendants(rows, t) => d[t] < d[u]
         /\ t \notin Descendants(rows, t)
<1> DEFINE p == ParentOf(rows, u)
<1>1. \A x \in Active(rows) : x \in Descendants(rows, t) <=> t \in Ancestors(rows, x)
  <2>1. ASSUME NEW x \in Active(rows), t \in Ancestors(rows, x)
        PROVE  x # t
    <3>1. d[t] < d[x] /\ d[t] \in 0..MaxDepth
      BY <2>1, RankIsDepth
    <3> QED
      BY <3>1, TreeBounds
  <2> QED
    BY <2>1 DEF Descendants
<1>2. Descendants(rows, t) \subseteq Active(rows) \ {t} /\ TopLevel \notin Active(rows)
  BY TreeBounds DEF Descendants, Active
<1>3. u \in Descendants(rows, t) => d[t] < d[u]
  BY <1>1, RankIsDepth
<1>4. CASE p = TopLevel
  <2>1. Ancestors(rows, u) = {}
    BY <1>4, AncestorsStep
  <2>2. p # t /\ p \notin Descendants(rows, t)
    BY <1>2, <1>4
  <2> QED
    BY <1>1, <1>2, <2>1, <2>2
<1>5. CASE p # TopLevel
  <2>1. p \in Active(rows)
    BY <1>5, RankedParent
  <2>2. Ancestors(rows, u) = {p} \cup Ancestors(rows, p)
    BY <1>5, AncestorsStep
  <2>3. p \in Descendants(rows, t) <=> t \in Ancestors(rows, p)
    BY <1>1, <2>1
  <2>4. u \in Descendants(rows, t) <=> t \in Ancestors(rows, u)
    BY <1>1
  <2> HIDE DEF p
  <2>5. u \in Descendants(rows, t) <=> p \in {t} \cup Descendants(rows, t)
    BY <2>2, <2>3, <2>4
  <2> QED
    BY <1>2, <1>3, <2>5 DEF p
<1> QED
  BY <1>4, <1>5

LEMMA TallestIs ==
  ASSUME NEW numbers, NEW N \in Nat, numbers \subseteq 0..N, numbers # {}
  PROVE  Tallest(numbers) \in numbers /\ \A n \in numbers : n <= Tallest(numbers)
<1> DEFINE S == {N - x : x \in numbers}
<1>0. S # {}
  <2>1. PICK x \in numbers : TRUE
    OBVIOUS
  <2>2. N - x \in S
    BY <2>1
  <2> QED
    BY <2>2
<1>1. S \subseteq Nat /\ S # {}
  <2>1. ASSUME NEW x \in numbers
        PROVE  N - x \in Nat
    <3>1. x \in 0..N
      BY <2>1
    <3> QED
      BY <3>1
  <2> QED
    BY <1>0, <2>1
<1>2. PICK s \in S : \A m \in S : <<m, s>> \notin OpToRel(<, Nat)
  BY <1>1, NatLessThanWellFounded, WFMin
<1>3. \A m \in S : ~(m < s)
  BY <1>1, <1>2 DEF OpToRel
<1>4. PICK x \in numbers : s = N - x
  BY <1>2
<1>5. ASSUME NEW y \in numbers
      PROVE  y <= x
  <2>1. N - y \in S
    OBVIOUS
  <2>2. ~(N - y < N - x)
    BY <1>3, <1>4, <2>1
  <2>3. x \in Int /\ y \in Int
    OBVIOUS
  <2> QED
    BY <2>2, <2>3
<1> QED
  BY <1>5 DEF Tallest

\* What the height of a subtree bounds.
LEMMA HeightIs ==
  ASSUME NEW rows, NEW d, Ranked(rows, d, MaxDepth), NEW t \in Active(rows)
  PROVE  /\ Height(rows, t) \in 0..MaxDepth
         /\ \A u \in Descendants(rows, t) : d[u] - d[t] <= Height(rows, t)
<1> DEFINE D == Descendants(rows, t)
           heights == {0} \union {Depth(rows, u) - Depth(rows, t) : u \in D}
<1>1. MaxDepth \in Nat /\ D \subseteq Active(rows)
  BY TreeBounds DEF Descendants
<1>2. /\ Depth(rows, t) = d[t] /\ d[t] \in 0..MaxDepth
      /\ \A u \in D : Depth(rows, u) = d[u] /\ d[u] \in 0..MaxDepth /\ d[t] < d[u]
  BY <1>1, RankIsDepth, SubtreeSteps
<1> HIDE DEF D
<1>3. \A u \in D : Depth(rows, u) - Depth(rows, t) \in 0..MaxDepth
  BY <1>1, <1>2
<1>4. heights \subseteq 0..MaxDepth /\ heights # {}
  BY <1>1, <1>3
<1>5. Height(rows, t) = Tallest(heights)
  BY DEF Height, D
<1> HIDE DEF heights
<1>6. Tallest(heights) \in heights /\ \A n \in heights : n <= Tallest(heights)
  BY <1>1, <1>4, TallestIs
<1>7. \A u \in D : d[u] - d[t] \in heights
  BY <1>2 DEF heights
<1> QED
  BY <1>4, <1>5, <1>6, <1>7 DEF D

-----------------------------------------------------------------------------
(* The forest: what a plan must keep, and the plans of create and rename. *)

Row == [parent : Tasks \union {TopLevel}, collection : Collections \union {Nothing},
        status : {"absent", "active", "archived"}, group : Tasks \union {NoGroup}, version : Nat]
RowsOK(rows) ==
  /\ rows \in [Tasks -> Row]
  /\ \A t \in Tasks : rows[t].status = "absent" => rows[t].version = 0

\* The active rows are a forest with room under the depth limit, in which a
\* subtask is where its parent is.
ForestOK(rows) ==
  /\ \E d : Ranked(rows, d, MaxDepth - 1)
  /\ \A t \in Active(rows) : rows[t].parent # TopLevel =>
       rows[t].collection = rows[rows[t].parent].collection

\* Rows one operation later.
Follows(after, rows) ==
  \A u \in Tasks : after[u] = rows[u] \/ after[u].version = rows[u].version + 1

LEMMA RanksFit ==
  ASSUME NEW rows, NEW d, Ranked(rows, d, MaxDepth - 1)
  PROVE  /\ Ranked(rows, d, MaxDepth) /\ d \in [Tasks -> 0..(MaxDepth - 1)]
         /\ \A t \in Active(rows) : Depth(rows, t) = d[t]
<1>1. 0..(MaxDepth - 1) \subseteq 0..MaxDepth
  BY TreeBounds
<1>2. d \in [Tasks -> 0..(MaxDepth - 1)]
  BY DEF Ranked
<1>3. Ranked(rows, d, MaxDepth)
  BY <1>1, <1>2 DEF Ranked
<1> QED
  BY <1>2, <1>3, RankIsDepth

LEMMA BumpFields ==
  ASSUME NEW r \in Row
  PROVE  /\ Bump(r) \in Row /\ Bump(r).parent = r.parent /\ Bump(r).collection = r.collection
         /\ Bump(r).status = r.status /\ Bump(r).group = r.group /\ Bump(r).version = r.version + 1
BY DEF Row, Bump

LEMMA CreateKeepsForest ==
  ASSUME NEW state, RowsOK(state.rows), ForestOK(state.rows), NEW t \in Tasks,
         NEW parent \in Tasks \cup {TopLevel}, NEW c \in Collections,
         NEW after, after = PlanCreate(state, t, parent, c), after # Nothing
  PROVE  RowsOK(after) /\ ForestOK(after) /\ Follows(after, state.rows)
<1> DEFINE rows == state.rows
           new == [parent |-> parent, status |-> "active", group |-> NoGroup, version |-> 1,
                   collection |-> IF parent = TopLevel THEN c ELSE rows[parent].collection]
<1>1. /\ rows[t].status = "absent"
      /\ parent # TopLevel => parent \in Active(rows) /\ ~(Depth(rows, parent) + 1 > MaxDepth - 1)
      /\ after = [rows EXCEPT ![t] = new]
  BY DEF PlanCreate
<1>2. rows \in [Tasks -> Row] /\ rows[t].version = 0
  BY <1>1 DEF RowsOK
<1> HIDE DEF rows
<1>3. new \in Row
  BY <1>1, <1>2 DEF Row, Active
<1> DEFINE newRow == new
<1>4. newRow.parent = parent /\ newRow.status = "active" /\ newRow.version = 1
      /\ newRow.collection = IF parent = TopLevel THEN c ELSE rows[parent].collection
  OBVIOUS
<1> HIDE DEF newRow
<1>5. after \in [Tasks -> Row] /\ after[t] = newRow /\ \A u \in Tasks \ {t} : after[u] = rows[u]
  BY <1>1, <1>2, <1>3 DEF newRow
<1>6. Active(after) = Active(rows) \cup {t} /\ t \notin Active(rows) /\ parent # t
  BY <1>1, <1>4, <1>5, TreeBounds DEF Active
<1>7. RowsOK(after) /\ Follows(after, rows)
  BY <1>2, <1>4, <1>5 DEF RowsOK, Follows, rows
<1>8. PICK d : Ranked(rows, d, MaxDepth - 1)
  BY DEF ForestOK, rows
<1>9. d \in [Tasks -> 0..(MaxDepth - 1)] /\ \A u \in Active(rows) : Depth(rows, u) = d[u]
  BY <1>8, RanksFit
<1> DEFINE below == IF parent = TopLevel THEN 0 ELSE d[parent] + 1
           e == [d EXCEPT ![t] = below]
<1>10. below \in 0..(MaxDepth - 1)
  BY <1>1, <1>6, <1>9, TreeBounds DEF Active
<1>11. e \in [Tasks -> 0..(MaxDepth - 1)] /\ e[t] = below /\ \A u \in Tasks \ {t} : e[u] = d[u]
  BY <1>9, <1>10
<1> HIDE DEF e
<1>12. ASSUME NEW u \in Active(after)
       PROVE  \/ after[u].parent = TopLevel /\ e[u] = 0
              \/ after[u].parent \in Active(after) /\ e[u] = e[after[u].parent] + 1
  <2>1. CASE u = t
    <3>1. parent # TopLevel => parent \in Tasks \ {t}
      BY <1>6
    <3> QED
      BY <1>1, <1>4, <1>5, <1>6, <1>11, <2>1, <3>1
  <2>2. CASE u # t
    <3>1. u \in Active(rows) /\ after[u] = rows[u] /\ e[u] = d[u] /\ Active(rows) \subseteq Tasks \ {t}
      BY <1>5, <1>6, <1>11, <2>2 DEF Active
    <3>2. \/ rows[u].parent = TopLevel /\ d[u] = 0
          \/ rows[u].parent \in Active(rows) /\ d[u] = d[rows[u].parent] + 1
      BY <1>8, <3>1 DEF Ranked
    <3> QED
      BY <1>6, <1>11, <3>1, <3>2
  <2> QED
    BY <2>1, <2>2
<1>13. Ranked(after, e, MaxDepth - 1)
  BY <1>11, <1>12 DEF Ranked
<1>14. ASSUME NEW u \in Active(after), after[u].parent # TopLevel
       PROVE  after[u].collection = after[after[u].parent].collection
  <2>1. CASE u = t
    BY <1>1, <1>4, <1>5, <1>6, <1>14, <2>1
  <2>2. CASE u # t
    <3>1. u \in Active(rows) /\ after[u] = rows[u] /\ Active(rows) \subseteq Tasks \ {t}
      BY <1>5, <1>6, <2>2 DEF Active
    <3>2. rows[u].parent \in Active(rows)
      BY <1>8, <1>14, <3>1 DEF Ranked
    <3> QED
      BY <1>5, <1>14, <3>1, <3>2 DEF ForestOK, rows
  <2> QED
    BY <2>1, <2>2
<1> QED
  BY <1>7, <1>13, <1>14 DEF ForestOK, rows

LEMMA RenameKeepsForest ==
  ASSUME NEW rows, RowsOK(rows), ForestOK(rows), NEW t \in Active(rows),
         NEW after, after = [rows EXCEPT ![t] = Bump(@)]
  PROVE  RowsOK(after) /\ ForestOK(after) /\ Follows(after, rows) /\ after[t] # rows[t]
<1>1. rows \in [Tasks -> Row] /\ t \in Tasks
  BY DEF RowsOK, Active
<1>2. /\ Bump(rows[t]) \in Row /\ Bump(rows[t]).parent = rows[t].parent
      /\ Bump(rows[t]).collection = rows[t].collection /\ Bump(rows[t]).status = rows[t].status
      /\ Bump(rows[t]).version = rows[t].version + 1
  BY <1>1, BumpFields
<1>3. after \in [Tasks -> Row] /\ after[t] = Bump(rows[t]) /\ \A u \in Tasks \ {t} : after[u] = rows[u]
  BY <1>1, <1>2
<1>4. \A u \in Tasks : /\ after[u].parent = rows[u].parent /\ after[u].status = rows[u].status
                       /\ after[u].collection = rows[u].collection
  BY <1>2, <1>3
<1>5. Active(after) = Active(rows)
  BY <1>4 DEF Active
<1>6. rows[t].version \in Nat /\ rows[t].version + 1 # rows[t].version
  BY <1>1 DEF Row
<1>7. rows[t].status = "active"
  BY DEF Active
<1>8. RowsOK(after) /\ Follows(after, rows) /\ after[t] # rows[t]
  BY <1>2, <1>3, <1>6, <1>7 DEF RowsOK, Follows
<1>9. PICK d : Ranked(rows, d, MaxDepth - 1)
  BY DEF ForestOK
<1>10. \A u \in Active(rows) : u \in Tasks
  BY DEF Active
<1>11. Ranked(after, d, MaxDepth - 1)
  BY <1>4, <1>5, <1>9, <1>10 DEF Ranked
<1>12. \A u \in Active(rows) : rows[u].parent # TopLevel => rows[u].parent \in Active(rows)
  BY <1>9 DEF Ranked
<1>13. \A u \in Active(after) : after[u].parent # TopLevel =>
         after[u].collection = after[after[u].parent].collection
  BY <1>4, <1>5, <1>10, <1>12 DEF ForestOK
<1> QED
  BY <1>8, <1>11, <1>13 DEF ForestOK

-----------------------------------------------------------------------------
(* The forest: archiving, completing and uncompleting. *)

\* What a plan writes into a row.
ARow(s, g, p, c, v) == [parent |-> p, collection |-> c, status |-> s, group |-> g, version |-> v]
Changed(r, s, g, p, c) == ARow(s, g, p, c, r.version + 1)

LEMMA StatusSet ==
  ASSUME NEW s, NEW g, NEW p, NEW c, NEW v, NEW x
  PROVE  [ARow(s, g, p, c, v) EXCEPT !.status = x] = ARow(x, g, p, c, v)
BY DEF ARow

LEMMA GroupSet ==
  ASSUME NEW s, NEW g, NEW p, NEW c, NEW v, NEW x
  PROVE  [ARow(s, g, p, c, v) EXCEPT !.group = x] = ARow(s, x, p, c, v)
BY DEF ARow

LEMMA ParentSet ==
  ASSUME NEW s, NEW g, NEW p, NEW c, NEW v, NEW x
  PROVE  [ARow(s, g, p, c, v) EXCEPT !.parent = x] = ARow(s, g, x, c, v)
BY DEF ARow

LEMMA CollectionSet ==
  ASSUME NEW s, NEW g, NEW p, NEW c, NEW v, NEW x
  PROVE  [ARow(s, g, p, c, v) EXCEPT !.collection = x] = ARow(s, g, p, x, v)
BY DEF ARow

LEMMA VersionSet ==
  ASSUME NEW s, NEW g, NEW p, NEW c, NEW v, NEW x
  PROVE  [ARow(s, g, p, c, v) EXCEPT !.version = x] = ARow(s, g, p, c, x)
BY DEF ARow

LEMMA BumpIs ==
  ASSUME NEW r \in Row
  PROVE  Bump(r) = ARow(r.status, r.group, r.parent, r.collection, r.version + 1)
<1>1. r = ARow(r.status, r.group, r.parent, r.collection, r.version)
  BY DEF Row, ARow
<1>2. PICK p, c, s, g, v : r = ARow(s, g, p, c, v)
  BY <1>1
<1>3. r.version = v /\ r.parent = p /\ r.collection = c /\ r.status = s /\ r.group = g
  BY <1>2 DEF ARow
<1> QED
  BY <1>2, <1>3, VersionSet DEF Bump

LEMMA EndedRow ==
  ASSUME NEW r \in Row, NEW s, NEW g
  PROVE  [Bump(r) EXCEPT !.status = s, !.group = g] = Changed(r, s, g, r.parent, r.collection)
<1> DEFINE one == [Bump(r) EXCEPT !.status = s]
<1>1. [Bump(r) EXCEPT !.status = s, !.group = g] = [one EXCEPT !.group = g]
  OBVIOUS
<1>2. one = ARow(s, r.group, r.parent, r.collection, r.version + 1)
  BY BumpIs, StatusSet
<1> HIDE DEF one
<1> QED
  BY <1>1, <1>2, GroupSet DEF Changed

LEMMA PromotedRow ==
  ASSUME NEW r \in Row, NEW p
  PROVE  [Bump(r) EXCEPT !.parent = p] = Changed(r, r.status, r.group, p, r.collection)
BY BumpIs, ParentSet DEF Changed

LEMMA FollowingRow ==
  ASSUME NEW r \in Row, NEW c
  PROVE  [Bump(r) EXCEPT !.collection = c] = Changed(r, r.status, r.group, r.parent, c)
BY BumpIs, CollectionSet DEF Changed

LEMMA MovedRow ==
  ASSUME NEW r \in Row, NEW p, NEW c
  PROVE  [Bump(r) EXCEPT !.parent = p, !.collection = c] = Changed(r, r.status, r.group, p, c)
<1> DEFINE one == [Bump(r) EXCEPT !.parent = p]
<1>1. [Bump(r) EXCEPT !.parent = p, !.collection = c] = [one EXCEPT !.collection = c]
  OBVIOUS
<1>2. one = ARow(r.status, r.group, p, r.collection, r.version + 1)
  BY BumpIs, ParentSet
<1> HIDE DEF one
<1> QED
  BY <1>1, <1>2, CollectionSet DEF Changed

LEMMA ChangedFields ==
  ASSUME NEW r \in Row, NEW s, NEW g, NEW p, NEW c
  PROVE  /\ Changed(r, s, g, p, c).parent = p /\ Changed(r, s, g, p, c).collection = c
         /\ Changed(r, s, g, p, c).status = s /\ Changed(r, s, g, p, c).group = g
         /\ Changed(r, s, g, p, c).version = r.version + 1
         /\ /\ s \in {"active", "archived"} /\ g \in Tasks \cup {NoGroup}
            /\ p \in Tasks \cup {TopLevel} /\ c \in Collections \cup {Nothing}
            => Changed(r, s, g, p, c) \in Row
BY DEF Row, Changed, ARow

LEMMA CompleteKeepsForest ==
  ASSUME NEW state, RowsOK(state.rows), ForestOK(state.rows), NEW t \in Tasks,
         NEW mode \in {"all", "parent_only"},
         NEW after, after = PlanComplete(state, t, mode), after # Nothing
  PROVE  RowsOK(after) /\ ForestOK(after) /\ Follows(after, state.rows)
<1> DEFINE rows == state.rows
           D == Descendants(rows, t)
           gone == IF mode = "all" THEN {t} \union D ELSE {t}
           promoted == {c \in Active(rows) \ gone : ParentOf(rows, c) = t}
<1>1. /\ t \in Active(rows)
      /\ after = [u \in Tasks |->
            IF u \in gone THEN [Bump(rows[u]) EXCEPT !.status = "archived", !.group = t]
            ELSE IF u \in promoted THEN [Bump(rows[u]) EXCEPT !.parent = TopLevel] ELSE rows[u]]
  BY DEF PlanComplete
<1>2. /\ rows \in [Tasks -> Row] /\ Active(rows) \subseteq Tasks /\ D \subseteq Active(rows) /\ t \notin D
      /\ TopLevel \notin Tasks /\ \A u \in Active(rows) : rows[u].status = "active"
  BY TreeBounds DEF RowsOK, Active, Descendants
<1>3. PICK d : Ranked(rows, d, MaxDepth - 1)
  BY DEF ForestOK
<1>4. Ranked(rows, d, MaxDepth) /\ d \in [Tasks -> 0..(MaxDepth - 1)]
  BY <1>3, RanksFit
<1>5. ASSUME NEW u \in Active(rows)
      PROVE  /\ u \in D <=> rows[u].parent \in {t} \cup D
             /\ u \in D => d[t] < d[u]
             /\ \/ rows[u].parent = TopLevel /\ d[u] = 0
                \/ rows[u].parent \in Active(rows) /\ d[u] = d[rows[u].parent] + 1
             /\ ParentOf(rows, u) = rows[u].parent
  <2>1. t \in Active(rows)
    BY <1>1
  <2> HIDE DEF rows
  <2>2. /\ u \in D <=> ParentOf(rows, u) \in {t} \cup D
        /\ u \in D => d[t] < d[u]
    BY <1>4, <2>1, SubtreeSteps
  <2>3. \/ ParentOf(rows, u) = TopLevel /\ d[u] = 0 /\ rows[u].parent = TopLevel
        \/ /\ ParentOf(rows, u) = rows[u].parent /\ ParentOf(rows, u) \in Active(rows)
           /\ d[u] = d[ParentOf(rows, u)] + 1
    BY <1>4, RankedParent
  <2> HIDE DEF D
  <2> QED
    BY <2>2, <2>3
<1>0. t \in Active(rows)
  BY <1>1
<1> HIDE DEF rows, D
<1>6. /\ gone \subseteq Active(rows) /\ t \in gone /\ gone \subseteq {t} \cup D
      /\ promoted = {u \in Active(rows) \ gone : rows[u].parent = t}
      /\ \A u \in Active(rows) \ gone : rows[u].parent \in gone => u \in promoted
  <2>1. gone \subseteq {t} \cup D /\ t \in gone
    OBVIOUS
  <2>2. promoted = {u \in Active(rows) \ gone : rows[u].parent = t}
    BY <1>5
  <2>3. ASSUME NEW u \in Active(rows) \ gone, rows[u].parent \in gone
        PROVE  u \in promoted
    <3>1. rows[u].parent \in {t} \cup D
      BY <2>1, <2>3
    <3>2. u \in D
      BY <1>5, <3>1
    <3>3. mode # "all"
      BY <2>3, <3>2
    <3>4. rows[u].parent = t
      BY <2>3, <3>3
    <3> QED
      BY <2>2, <2>3, <3>4
  <2> QED
    BY <1>0, <1>2, <2>1, <2>2, <2>3
<1> DEFINE goneNow == gone
           promotedNow == promoted
<1>7. /\ \A u \in goneNow : after[u] = Changed(rows[u], "archived", t, rows[u].parent, rows[u].collection)
      /\ \A u \in promotedNow : after[u] = Changed(rows[u], "active", rows[u].group, TopLevel, rows[u].collection)
      /\ \A u \in Tasks \ (goneNow \cup promotedNow) : after[u] = rows[u]
      /\ DOMAIN after = Tasks /\ after = [u \in Tasks |-> after[u]]
  <2>1. \A u \in Tasks : rows[u] \in Row
    BY <1>2
  <2>2. gone \subseteq Tasks /\ promoted \subseteq Tasks /\ promoted \cap gone = {}
        /\ \A u \in promoted : rows[u].status = "active"
    BY <1>2, <1>6
  <2> HIDE DEF gone, promoted
  <2>3. \A u \in gone : after[u] = [Bump(rows[u]) EXCEPT !.status = "archived", !.group = t]
    BY <1>1, <2>2
  <2>4. \A u \in promoted : after[u] = [Bump(rows[u]) EXCEPT !.parent = TopLevel]
    BY <1>1, <2>2
  <2>5. \A u \in Tasks \ (gone \cup promoted) : after[u] = rows[u]
    BY <1>1
  <2>6. \A u \in gone : after[u] = Changed(rows[u], "archived", t, rows[u].parent, rows[u].collection)
    BY <2>1, <2>2, <2>3, EndedRow
  <2>7. \A u \in promoted : after[u] = Changed(rows[u], "active", rows[u].group, TopLevel, rows[u].collection)
    BY <2>1, <2>2, <2>4, PromotedRow
  <2>8. DOMAIN after = Tasks /\ after = [u \in Tasks |-> after[u]]
    BY <1>1
  <2> QED
    BY <2>5, <2>6, <2>7, <2>8
<1>8. /\ gone = goneNow /\ promoted = promotedNow /\ goneNow \cap promotedNow = {}
      /\ promotedNow \subseteq Active(rows)
  OBVIOUS
<1> HIDE DEF goneNow, promotedNow
<1>9. /\ \A u \in goneNow : /\ after[u] \in Row /\ after[u].status = "archived"
                            /\ after[u].version = rows[u].version + 1
      /\ \A u \in promotedNow : /\ after[u] \in Row /\ after[u].status = "active" /\ after[u].parent = TopLevel
                                /\ after[u].version = rows[u].version + 1
                                /\ after[u].collection = rows[u].collection
  <2>1. \A u \in Tasks : /\ rows[u] \in Row /\ rows[u].group \in Tasks \cup {NoGroup}
                         /\ rows[u].parent \in Tasks \cup {TopLevel}
                         /\ rows[u].collection \in Collections \cup {Nothing}
    BY <1>2 DEF Row
  <2> QED
    <3>1. ASSUME NEW u \in goneNow
          PROVE  /\ after[u] \in Row /\ after[u].status = "archived"
                 /\ after[u].version = rows[u].version + 1
      <4>1. u \in Tasks /\ t \in Tasks
        BY <1>2, <1>6, <1>8
      <4>2. after[u] = Changed(rows[u], "archived", t, rows[u].parent, rows[u].collection)
        BY <1>7
      <4> QED
        BY <2>1, <4>1, <4>2, ChangedFields
    <3>2. ASSUME NEW u \in promotedNow
          PROVE  /\ after[u] \in Row /\ after[u].status = "active" /\ after[u].parent = TopLevel
                 /\ after[u].version = rows[u].version + 1
                 /\ after[u].collection = rows[u].collection
      <4>1. u \in Tasks
        BY <1>2, <1>8
      <4>2. after[u] = Changed(rows[u], "active", rows[u].group, TopLevel, rows[u].collection)
        BY <1>7
      <4> QED
        BY <2>1, <4>1, <4>2, ChangedFields
    <3> QED
      BY <3>1, <3>2
<1>10. after \in [Tasks -> Row]
  <2>1. ASSUME NEW u \in Tasks
        PROVE  after[u] \in Row
    <3>1. CASE u \in goneNow
      BY <1>9, <3>1
    <3>2. CASE u \in promotedNow
      BY <1>9, <3>2
    <3>3. CASE u \in Tasks \ (goneNow \cup promotedNow)
      <4>1. after[u] = rows[u] /\ rows[u] \in Row
        BY <1>2, <1>7, <3>3
      <4> QED
        BY <4>1
    <3> QED
      BY <3>1, <3>2, <3>3
  <2> QED
    BY <1>7, <2>1
<1>11. RowsOK(after) /\ Follows(after, rows)
  <2>1. \A u \in Tasks : rows[u].status = "absent" => rows[u].version = 0
    BY DEF RowsOK, rows
  <2>2. \A u \in Tasks : after[u].status = "absent" => after[u].version = 0
    BY <1>7, <1>9, <2>1
  <2>3. \A u \in Tasks : after[u] = rows[u] \/ after[u].version = rows[u].version + 1
    BY <1>7, <1>9
  <2>4. RowsOK(after)
    BY <1>10, <2>2 DEF RowsOK
  <2>5. Follows(after, rows)
    BY <2>3 DEF Follows
  <2> QED
    BY <2>4, <2>5
<1>12. Active(after) = Active(rows) \ goneNow
  <2>1. ASSUME NEW u \in Tasks
        PROVE  after[u].status = "active" <=> rows[u].status = "active" /\ u \notin goneNow
    <3>1. CASE u \in goneNow
      BY <1>9, <3>1
    <3>2. CASE u \in promotedNow
      BY <1>2, <1>8, <1>9, <3>2
    <3>3. CASE u \notin goneNow \cup promotedNow
      BY <1>7, <3>3
    <3> QED
      BY <3>1, <3>2, <3>3
  <2> QED
    BY <2>1 DEF Active
<1> DEFINE e == [u \in Tasks |-> IF u \in D THEN d[u] - d[t] - 1 ELSE d[u]]
<1>13. e \in [Tasks -> 0..(MaxDepth - 1)]
  <2>1. ASSUME NEW u \in D
        PROVE  d[u] - d[t] - 1 \in 0..(MaxDepth - 1)
    <3>1. d[u] \in 0..(MaxDepth - 1) /\ d[t] \in 0..(MaxDepth - 1) /\ d[t] < d[u] /\ MaxDepth \in Nat
      BY <1>2, <1>4, <1>5, TreeBounds
    <3> QED
      BY <3>1
  <2> QED
    BY <1>4, <2>1
<1>14. \A u \in Tasks : e[u] = IF u \in D THEN d[u] - d[t] - 1 ELSE d[u]
  OBVIOUS
<1> HIDE DEF e
<1>15. ASSUME NEW u \in Active(after)
       PROVE  /\ \/ after[u].parent = TopLevel /\ e[u] = 0
                 \/ after[u].parent \in Active(after) /\ e[u] = e[after[u].parent] + 1
              /\ after[u].parent # TopLevel => after[u].collection = after[after[u].parent].collection
  <2>1. u \in Active(rows) /\ u \notin goneNow /\ u \in Tasks
    BY <1>2, <1>12
  <2>2. CASE u \in promotedNow
    <3>1. u \in D /\ d[u] = d[t] + 1
      BY <1>0, <1>2, <1>5, <1>6, <1>8, <2>1, <2>2
    <3>2. d[t] \in Int
      BY <1>0, <1>2, <1>4
    <3>3. e[u] = 0
      BY <1>14, <2>1, <3>1, <3>2
    <3> QED
      BY <1>9, <2>2, <3>3
  <2>3. CASE u \notin promotedNow /\ rows[u].parent # TopLevel
    <3> DEFINE p == rows[u].parent
    <3>1. p \in Active(rows) /\ d[u] = d[p] + 1 /\ p \notin goneNow /\ p \in Tasks
      BY <1>2, <1>5, <1>6, <1>8, <2>1, <2>3
    <3>2. u \in D <=> p \in D
      BY <1>5, <1>6, <1>8, <2>1, <3>1
    <3>3. d[u] \in Int /\ d[p] \in Int /\ d[t] \in Int
      BY <1>0, <1>2, <1>4, <2>1, <3>1
    <3>4. e[u] = e[p] + 1
      BY <1>14, <2>1, <3>1, <3>2, <3>3
    <3>5. after[u] = rows[u] /\ p \in Active(after)
      BY <1>7, <1>12, <2>1, <2>3, <3>1
    <3>6. rows[u].collection = rows[p].collection /\ after[p].collection = rows[p].collection
      BY <1>7, <1>9, <2>1, <2>3, <3>1 DEF ForestOK, rows
    <3> QED
      BY <3>4, <3>5, <3>6
  <2>4. CASE u \notin promotedNow /\ rows[u].parent = TopLevel
    <3>1. d[u] = 0 /\ u \notin D
      BY <1>0, <1>2, <1>5, <2>1, <2>4
    <3> QED
      BY <1>7, <1>14, <2>1, <2>4, <3>1
  <2> QED
    BY <2>2, <2>3, <2>4
<1>16. Ranked(after, e, MaxDepth - 1)
  BY <1>13, <1>15 DEF Ranked
<1> QED
  BY <1>11, <1>15, <1>16 DEF ForestOK, rows

-----------------------------------------------------------------------------
(* The forest: moving. *)

LEMMA MoveKeepsForest ==
  ASSUME NEW state, RowsOK(state.rows), ForestOK(state.rows), NEW t \in Tasks,
         NEW parent \in Tasks \cup {TopLevel}, NEW c \in Collections,
         NEW after, after = PlanMove(state, t, parent, c), after # Nothing
  PROVE  RowsOK(after) /\ ForestOK(after) /\ Follows(after, state.rows)
<1> DEFINE rows == state.rows
           D == Descendants(rows, t)
           target == IF parent = TopLevel THEN c ELSE rows[parent].collection
           base == Depth(rows, parent) + 1
           followers == {u \in D : target # rows[t].collection}
<1>1. /\ t \in Active(rows)
      /\ parent # TopLevel => parent \in Active(rows) \ ({t} \cup D)
      /\ ~(base + Height(rows, t) > MaxDepth - 1)
      /\ after = [u \in Tasks |->
            IF u = t THEN [Bump(rows[u]) EXCEPT !.parent = parent, !.collection = target]
            ELSE IF u \in D /\ target # rows[t].collection
                 THEN [Bump(rows[u]) EXCEPT !.collection = target] ELSE rows[u]]
  BY DEF PlanMove
<1>2. /\ rows \in [Tasks -> Row] /\ Active(rows) \subseteq Tasks /\ D \subseteq Active(rows) /\ t \notin D
      /\ TopLevel \notin Tasks /\ MaxDepth \in Nat \ {0}
      /\ \A u \in Active(rows) : rows[u].status = "active"
  BY TreeBounds DEF RowsOK, Active, Descendants
<1>3. PICK d : Ranked(rows, d, MaxDepth - 1)
  BY DEF ForestOK
<1>4. Ranked(rows, d, MaxDepth) /\ d \in [Tasks -> 0..(MaxDepth - 1)]
      /\ \A u \in Active(rows) : Depth(rows, u) = d[u]
  BY <1>3, RanksFit
<1>0. t \in Active(rows)
  BY <1>1
<1>a. ~(base + Height(rows, t) > MaxDepth - 1)
  BY <1>1
<1> HIDE DEF rows
<1>5. ASSUME NEW u \in Active(rows)
      PROVE  /\ u \in D <=> rows[u].parent \in {t} \cup D
             /\ u \in D => d[t] < d[u]
             /\ \/ rows[u].parent = TopLevel /\ d[u] = 0
                \/ rows[u].parent \in Active(rows) /\ d[u] = d[rows[u].parent] + 1
  <2>1. /\ u \in D <=> ParentOf(rows, u) \in {t} \cup D
        /\ u \in D => d[t] < d[u]
    BY <1>0, <1>4, SubtreeSteps
  <2>2. \/ ParentOf(rows, u) = TopLevel /\ d[u] = 0 /\ rows[u].parent = TopLevel
        \/ /\ ParentOf(rows, u) = rows[u].parent /\ ParentOf(rows, u) \in Active(rows)
           /\ d[u] = d[ParentOf(rows, u)] + 1
    BY <1>4, RankedParent
  <2> HIDE DEF D
  <2> QED
    BY <2>1, <2>2
<1>6. /\ Height(rows, t) \in 0..MaxDepth
      /\ \A u \in D : d[u] - d[t] <= Height(rows, t)
  BY <1>0, <1>4, HeightIs
<1>7. /\ parent = TopLevel => base = 0
      /\ parent # TopLevel => base = d[parent] + 1
      /\ base \in 0..(MaxDepth - 1)
  <2>1. parent = TopLevel => base = 0
    BY DEF Depth
  <2>2. parent # TopLevel => base = d[parent] + 1 /\ d[parent] \in 0..(MaxDepth - 1)
    BY <1>1, <1>2, <1>4
  <2>3. base \in Nat
    BY <2>1, <2>2
  <2> HIDE DEF base
  <2>4. base + Height(rows, t) <= MaxDepth - 1
    BY <1>a, <1>2, <1>6, <2>3
  <2>5. base \in 0..(MaxDepth - 1)
    BY <1>2, <1>6, <2>3, <2>4
  <2> QED
    BY <2>1, <2>2, <2>5
<1>8. base + Height(rows, t) <= MaxDepth - 1
  <2> HIDE DEF base
  <2> QED
    BY <1>a, <1>2, <1>6, <1>7
<1> DEFINE goal == target
<1>9. goal \in Collections \cup {Nothing}
  BY <1>1, <1>2 DEF Row
<1>10. /\ after[t] = Changed(rows[t], "active", rows[t].group, parent, goal)
       /\ \A u \in followers : after[u] = Changed(rows[u], "active", rows[u].group, rows[u].parent, goal)
       /\ \A u \in Tasks \ ({t} \cup followers) : after[u] = rows[u]
       /\ DOMAIN after = Tasks /\ after = [u \in Tasks |-> after[u]]
  <2>1. \A u \in Tasks : rows[u] \in Row
    BY <1>2
  <2>2. t \in Tasks /\ followers \subseteq Active(rows) \ {t} /\ Active(rows) \subseteq Tasks
    BY <1>2
  <2> DEFINE F == followers
  <2>3. \A u \in Tasks : u \in F <=> u \in D /\ goal # rows[t].collection
    BY <1>2
  <2> HIDE DEF F, goal, D
  <2>4. after[t] = [Bump(rows[t]) EXCEPT !.parent = parent, !.collection = goal]
    BY <1>1, <2>2 DEF goal
  <2>5. \A u \in F : after[u] = [Bump(rows[u]) EXCEPT !.collection = goal]
    BY <1>1, <2>2, <2>3 DEF F, goal
  <2>6. \A u \in Tasks \ ({t} \cup F) : after[u] = rows[u]
    BY <1>1, <2>3 DEF goal
  <2>7. after[t] = Changed(rows[t], "active", rows[t].group, parent, goal)
    <3>1. rows[t] \in Row /\ rows[t].status = "active"
      BY <1>0, <1>2, <2>1
    <3>2. [Bump(rows[t]) EXCEPT !.parent = parent, !.collection = goal]
            = Changed(rows[t], rows[t].status, rows[t].group, parent, goal)
      BY <3>1, MovedRow
    <3> QED
      BY <2>4, <3>1, <3>2
  <2>8. \A u \in F : after[u] = Changed(rows[u], "active", rows[u].group, rows[u].parent, goal)
    <3>1. SUFFICES ASSUME NEW u \in F
                   PROVE  after[u] = Changed(rows[u], "active", rows[u].group, rows[u].parent, goal)
      OBVIOUS
    <3>2. rows[u] \in Row /\ rows[u].status = "active"
      BY <1>2, <2>1, <2>2 DEF F
    <3>3. [Bump(rows[u]) EXCEPT !.collection = goal]
            = Changed(rows[u], rows[u].status, rows[u].group, rows[u].parent, goal)
      BY <3>2, FollowingRow
    <3> QED
      BY <2>5, <3>2, <3>3
  <2>9. DOMAIN after = Tasks /\ after = [u \in Tasks |-> after[u]]
    BY <1>1
  <2> QED
    BY <2>6, <2>7, <2>8, <2>9 DEF F
<1> DEFINE F == followers
<1>11. F \subseteq D /\ \A u \in D : u \notin F => goal = rows[t].collection
  OBVIOUS
<1> HIDE DEF goal, followers, D, base
<1>12. /\ after[t] \in Row /\ after[t].parent = parent /\ after[t].status = "active"
       /\ after[t].collection = goal /\ after[t].version = rows[t].version + 1
       /\ \A u \in F : /\ after[u] \in Row /\ after[u].parent = rows[u].parent
                       /\ after[u].status = "active" /\ after[u].collection = goal
                       /\ after[u].version = rows[u].version + 1
  <2>1. \A u \in Tasks : /\ rows[u] \in Row /\ rows[u].group \in Tasks \cup {NoGroup}
                         /\ rows[u].parent \in Tasks \cup {TopLevel}
    BY <1>2 DEF Row
  <2>2. /\ after[t] \in Row /\ after[t].parent = parent /\ after[t].status = "active"
        /\ after[t].collection = goal /\ after[t].version = rows[t].version + 1
    BY <1>9, <1>10, <2>1, ChangedFields
  <2>3. ASSUME NEW u \in F
        PROVE  /\ after[u] \in Row /\ after[u].parent = rows[u].parent
               /\ after[u].status = "active" /\ after[u].collection = goal
               /\ after[u].version = rows[u].version + 1
    <3>1. u \in Tasks
      BY <1>2, <1>11
    <3>2. after[u] = Changed(rows[u], "active", rows[u].group, rows[u].parent, goal)
      BY <1>10
    <3> QED
      BY <1>9, <2>1, <3>1, <3>2, ChangedFields
  <2> QED
    BY <2>2, <2>3
<1>13. \A u \in Tasks \ ({t} \cup F) : after[u] = rows[u]
  BY <1>10
<1>14. RowsOK(after)
  <2>1. \A u \in Tasks : after[u] \in Row
    BY <1>2, <1>12, <1>13
  <2>2. \A u \in Tasks : rows[u].status = "absent" => rows[u].version = 0
    BY DEF RowsOK, rows
  <2>3. \A u \in Tasks : after[u].status = "absent" => after[u].version = 0
    BY <1>12, <1>13, <2>2
  <2>4. after \in [Tasks -> Row]
    BY <1>10, <2>1
  <2> QED
    BY <2>3, <2>4 DEF RowsOK
<1>15. Follows(after, rows)
  BY <1>12, <1>13 DEF Follows
<1>16. Active(after) = Active(rows)
  <2>1. ASSUME NEW u \in Tasks
        PROVE  after[u].status = "active" <=> rows[u].status = "active"
    <3>1. CASE u = t
      BY <1>0, <1>2, <1>12, <3>1
    <3>2. CASE u \in F
      BY <1>2, <1>11, <1>12, <3>2
    <3>3. CASE u \notin {t} \cup F
      BY <1>13, <3>3
    <3> QED
      BY <3>1, <3>2, <3>3
  <2> QED
    BY <2>1 DEF Active
<1> DEFINE e == [u \in Tasks |-> IF u \in {t} \cup D THEN d[u] - d[t] + base ELSE d[u]]
<1>17. e \in [Tasks -> 0..(MaxDepth - 1)]
  <2>1. ASSUME NEW u \in {t} \cup D
        PROVE  d[u] - d[t] + base \in 0..(MaxDepth - 1)
    <3>1. /\ d[u] \in 0..(MaxDepth - 1) /\ d[t] \in 0..(MaxDepth - 1) /\ d[t] <= d[u]
          /\ d[u] - d[t] <= Height(rows, t)
      BY <1>0, <1>2, <1>4, <1>5, <1>6
    <3> QED
      BY <1>2, <1>6, <1>7, <1>8, <3>1
  <2> QED
    BY <1>4, <2>1
<1>18. \A u \in Tasks : e[u] = IF u \in {t} \cup D THEN d[u] - d[t] + base ELSE d[u]
  OBVIOUS
<1> HIDE DEF e
<1>19. ASSUME NEW u \in Active(after)
       PROVE  /\ \/ after[u].parent = TopLevel /\ e[u] = 0
                 \/ after[u].parent \in Active(after) /\ e[u] = e[after[u].parent] + 1
              /\ after[u].parent # TopLevel => after[u].collection = after[after[u].parent].collection
  <2>1. u \in Active(rows) /\ u \in Tasks /\ \A x \in Active(rows) : d[x] \in Int
    BY <1>2, <1>4, <1>16
  <2>2. CASE u = t
    <3>1. e[t] = base
      BY <1>0, <1>2, <1>7, <1>18, <2>1
    <3>2. ASSUME parent # TopLevel
          PROVE  parent \in Active(rows) /\ e[parent] = d[parent] /\ after[parent].collection = goal
      <4>1. parent \in Active(rows) /\ parent \in Tasks /\ parent \notin {t} \cup D
        BY <1>1, <1>2, <3>2 DEF D
      <4>2. after[parent] = rows[parent] /\ goal = rows[parent].collection
        BY <1>11, <1>13, <3>2, <4>1 DEF goal
      <4> QED
        BY <1>18, <4>1, <4>2
    <3> QED
      BY <1>7, <1>12, <1>16, <2>2, <3>1, <3>2
  <2>3. CASE u # t
    <3> DEFINE p == rows[u].parent
    <3>1. after[u].parent = p
      BY <1>12, <1>13, <2>1, <2>3
    <3>2. CASE p = TopLevel
      <4>1. u \notin {t} \cup D /\ d[u] = 0
        BY <1>0, <1>2, <1>5, <2>1, <2>3, <3>2
      <4> QED
        BY <1>18, <2>1, <3>1, <3>2, <4>1
    <3>3. CASE p # TopLevel
      <4>1. p \in Active(rows) /\ p \in Tasks /\ d[u] = d[p] + 1 /\ (u \in D <=> p \in {t} \cup D)
        BY <1>2, <1>5, <2>1, <3>3
      <4> HIDE DEF p
      <4>2. e[u] = e[p] + 1
        BY <1>0, <1>7, <1>18, <2>1, <2>3, <4>1
      <4>3. rows[u].collection = rows[p].collection
        BY <2>1, <3>3 DEF ForestOK, rows, p
      <4>4. CASE u \in D
        <5>1. ASSUME NEW x \in {t} \cup D
              PROVE  after[x].collection = goal \/ (goal = rows[t].collection /\ x # t /\ after[x] = rows[x])
          BY <1>2, <1>11, <1>12, <1>13
        <5>2. CASE D = F
          <6>1. after[u].collection = goal /\ after[p].collection = goal
            BY <1>12, <4>1, <4>4, <5>2
          <6> QED
            BY <1>16, <3>1, <4>1, <4>2, <6>1
        <5>3. CASE D # F
          <6>1. goal = rows[t].collection /\ F = {}
            BY <1>11, <5>3 DEF followers
          <6>2. after[u] = rows[u] /\ after[p].collection = rows[p].collection
            BY <1>12, <1>13, <2>1, <2>3, <4>1, <6>1
          <6> QED
            BY <1>16, <3>1, <4>1, <4>2, <4>3, <6>2
        <5> QED
          BY <5>2, <5>3
      <4>5. CASE u \notin D
        <5>1. after[u] = rows[u] /\ after[p] = rows[p]
          BY <1>11, <1>13, <2>1, <2>3, <4>1, <4>5
        <5> QED
          BY <1>16, <3>1, <4>1, <4>2, <4>3, <5>1
      <4> QED
        BY <4>4, <4>5
    <3> QED
      BY <3>2, <3>3
  <2> QED
    BY <2>2, <2>3
<1>20. Ranked(after, e, MaxDepth - 1)
  BY <1>17, <1>19 DEF Ranked
<1>21. ForestOK(after)
  BY <1>19, <1>20 DEF ForestOK
<1> QED
  BY <1>14, <1>15, <1>21 DEF rows

-----------------------------------------------------------------------------
(* The forest: what a restore returns. *)

Members(state, t) == {m \in state.known : state.rows[m].group = state.rows[t].group}
Reach(state, t) ==
  CHOOSE reach : reach = [n \in 0..MaxDepth |->
    IF n = 0 THEN {t}
    ELSE reach[n - 1] \union {m \in Members(state, t) : state.rows[m].parent \in reach[n - 1]}]

LEMMA RestoredAreReached ==
  ASSUME NEW state, NEW t
  PROVE  RestoredWith(state, t) = Reach(state, t)[MaxDepth]
BY DEF RestoredWith, Reach, Members

LEMMA ReachSteps ==
  ASSUME NEW state, NEW t \in Tasks, state.known \subseteq Tasks
  PROVE  /\ Reach(state, t)[0] = {t}
         /\ \A n \in 1..MaxDepth : Reach(state, t)[n] = Reach(state, t)[n - 1] \union
                {m \in Members(state, t) : state.rows[m].parent \in Reach(state, t)[n - 1]}
<1> DEFINE S == SUBSET Tasks
           g == [X \in S |-> X \union {m \in Members(state, t) : state.rows[m].parent \in X}]
           Is(up) == up = [n \in 0..MaxDepth |->
             IF n = 0 THEN {t}
             ELSE up[n - 1] \union {m \in Members(state, t) : state.rows[m].parent \in up[n - 1]}]
<1>1. Members(state, t) \subseteq Tasks
  BY DEF Members
<1>2. g \in [S -> S]
  BY <1>1
<1>3. {t} \in S /\ MaxDepth \in Nat
  BY TreeBounds
<1>4. PICK f \in [0..MaxDepth -> S] :
        f[0] = {t} /\ \A n \in 1..MaxDepth : f[n] = g[f[n - 1]]
  <2>1. g \in Maps(S) /\ {t} \in S
    BY <1>2, <1>3 DEF Maps
  <2> HIDE DEF g, S
  <2>2. Runs(S, g, {t}, MaxDepth) # {}
    BY <1>3, <2>1, StepsExist
  <2> QED
    BY <2>2 DEF Runs
<1>5. Is(f)
  <2>1. ASSUME NEW n \in 0..MaxDepth, n # 0
        PROVE  g[f[n - 1]] = f[n - 1] \union {m \in Members(state, t) : state.rows[m].parent \in f[n - 1]}
    <3>1. n - 1 \in 0..MaxDepth
      BY <2>1, <1>3
    <3>2. f[n - 1] \in S
      BY <3>1
    <3> QED
      BY <3>2
  <2>2. ASSUME NEW n \in 0..MaxDepth
        PROVE  f[n] = IF n = 0 THEN {t} ELSE g[f[n - 1]]
    <3>1. n = 0 \/ n \in 1..MaxDepth
      BY <1>3
    <3> HIDE DEF g, S
    <3> QED
      BY <1>4, <3>1, <1>3
  <2> HIDE DEF g, S
  <2> QED
    BY <1>4, <2>1, <2>2
<1>6. Is(Reach(state, t))
  <2> HIDE DEF Is
  <2>1. Reach(state, t) = CHOOSE up : Is(up)
    BY DEF Is, Reach
  <2> QED
    BY <1>5, <2>1
<1> DEFINE w == Reach(state, t)
<1> HIDE DEF w
<1>7. w = [n \in 0..MaxDepth |->
             IF n = 0 THEN {t}
             ELSE w[n - 1] \union {m \in Members(state, t) : state.rows[m].parent \in w[n - 1]}]
  BY <1>6 DEF w
<1>8. \A n \in 0..MaxDepth : w[n] =
             IF n = 0 THEN {t}
             ELSE w[n - 1] \union {m \in Members(state, t) : state.rows[m].parent \in w[n - 1]}
  BY <1>7, Zenon
<1>9. 0 \in 0..MaxDepth /\ \A n \in 1..MaxDepth : n \in 0..MaxDepth /\ n # 0
  BY <1>3
<1>10. w[0] = {t}
  BY <1>8, <1>9
<1>11. \A n \in 1..MaxDepth : w[n] = w[n - 1] \union
                {m \in Members(state, t) : state.rows[m].parent \in w[n - 1]}
  BY <1>8, <1>9
<1> QED
  BY <1>10, <1>11 DEF w

\* How many links below the restored task each of its subtasks is.
LEMMA RestoreRanks ==
  ASSUME NEW state, NEW t \in Tasks, state.known \subseteq Tasks
  PROVE  /\ t \in RestoredWith(state, t)
         /\ RestoredWith(state, t) \subseteq {t} \cup Members(state, t)
         /\ \E r \in [Tasks -> 0..MaxDepth] :
              /\ r[t] = 0
              /\ \A m \in RestoredWith(state, t) \ {t} :
                   /\ state.rows[m].parent \in RestoredWith(state, t)
                   /\ r[m] = r[state.rows[m].parent] + 1
<1> DEFINE U(n) == Reach(state, t)[n]
           M == Members(state, t)
           Within == {n \in Nat : n <= MaxDepth => /\ t \in U(n) /\ U(n) \subseteq {t} \cup M
                                                   /\ U(n) \subseteq U(MaxDepth)}
<1>0. MaxDepth \in Nat /\ M \subseteq Tasks
  BY TreeBounds DEF Members
<1>1. /\ U(0) = {t}
      /\ \A n \in 1..MaxDepth : U(n) = U(n - 1) \union {m \in M : state.rows[m].parent \in U(n - 1)}
  BY ReachSteps
<1>2. RestoredWith(state, t) = U(MaxDepth)
  BY RestoredAreReached
<1> HIDE DEF U, M
<1>3. ASSUME NEW n \in Nat, n + 1 <= MaxDepth
      PROVE  U(n + 1) = U(n) \union {m \in M : state.rows[m].parent \in U(n)}
  <2>1. n + 1 \in 1..MaxDepth /\ (n + 1) - 1 = n
    BY <1>0, <1>3
  <2> QED
    BY <1>1, <2>1
<1>4. ASSUME NEW n \in Nat, n <= MaxDepth
      PROVE  t \in U(n) /\ U(n) \subseteq {t} \cup M
  <2> DEFINE S == {k \in Nat : k <= MaxDepth => t \in U(k) /\ U(k) \subseteq {t} \cup M}
  <2>1. 0 \in S
    BY <1>1
  <2>2. ASSUME NEW k \in Nat, k \in S
        PROVE  k + 1 \in S
    <3>1. SUFFICES ASSUME k + 1 <= MaxDepth
                   PROVE  t \in U(k + 1) /\ U(k + 1) \subseteq {t} \cup M
      BY <2>2
    <3>2. t \in U(k) /\ U(k) \subseteq {t} \cup M
      BY <1>0, <2>2, <3>1
    <3> QED
      BY <1>3, <3>1, <3>2
  <2> HIDE DEF S
  <2>3. Nat \subseteq S
    BY <2>1, <2>2, NumbersReached
  <2> QED
    BY <1>4, <2>3 DEF S
<1>5. ASSUME NEW n \in Nat, n <= MaxDepth
      PROVE  U(MaxDepth - n) \subseteq U(MaxDepth)
  <2> DEFINE S == {k \in Nat : k <= MaxDepth => U(MaxDepth - k) \subseteq U(MaxDepth)}
  <2>1. 0 \in S
    BY <1>0
  <2>2. ASSUME NEW k \in Nat, k \in S
        PROVE  k + 1 \in S
    <3>1. SUFFICES ASSUME k + 1 <= MaxDepth
                   PROVE  U(MaxDepth - (k + 1)) \subseteq U(MaxDepth)
      BY <2>2
    <3> DEFINE j == MaxDepth - (k + 1)
    <3>2. j \in Nat /\ j + 1 <= MaxDepth /\ MaxDepth - k = j + 1
      BY <1>0, <3>1
    <3> HIDE DEF j
    <3>3. U(j) \subseteq U(j + 1)
      BY <1>3, <3>2
    <3>4. U(j + 1) \subseteq U(MaxDepth)
      BY <1>0, <2>2, <3>1, <3>2
    <3> QED
      BY <3>3, <3>4 DEF j
  <2> HIDE DEF S
  <2>3. Nat \subseteq S
    BY <2>1, <2>2, NumbersReached
  <2> QED
    BY <1>5, <2>3 DEF S
<1>6. ASSUME NEW n \in 0..MaxDepth
      PROVE  U(n) \subseteq U(MaxDepth)
  <2> DEFINE k == MaxDepth - n
  <2>1. k \in Nat /\ k <= MaxDepth /\ MaxDepth - k = n
    BY <1>0
  <2> HIDE DEF k
  <2> QED
    BY <1>5, <2>1
<1> DEFINE First(m, n) == n \in 0..MaxDepth /\ m \in U(n) /\ \A k \in 0..MaxDepth : m \in U(k) => n <= k
           r == [m \in Tasks |-> IF m \in U(MaxDepth) THEN CHOOSE n : First(m, n) ELSE 0]
<1>7. ASSUME NEW m \in U(MaxDepth)
      PROVE  \E n : First(m, n)
  <2> DEFINE T == {n \in 0..MaxDepth : m \in U(n)}
  <2>1. T \subseteq Nat /\ T # {}
    BY <1>0, <1>7
  <2>2. PICK n \in T : \A k \in T : <<k, n>> \notin OpToRel(<, Nat)
    BY <2>1, NatLessThanWellFounded, WFMin
  <2>3. \A k \in T : ~(k < n)
    BY <2>1, <2>2 DEF OpToRel
  <2>4. First(m, n)
    BY <1>0, <2>1, <2>3
  <2> QED
    BY <2>4
<1>8. \A m \in U(MaxDepth) : m \in Tasks /\ First(m, r[m])
  <2>1. ASSUME NEW m \in U(MaxDepth)
        PROVE  m \in Tasks /\ First(m, r[m])
    <3>1. m \in Tasks
      BY <1>0, <1>4
    <3>2. r[m] = CHOOSE n : First(m, n)
      BY <3>1
    <3> HIDE DEF First, r
    <3> QED
      BY <1>7, <3>1, <3>2
  <2> QED
    BY <2>1
<1>9. r \in [Tasks -> 0..MaxDepth]
  <2>1. \A m \in Tasks : m \notin U(MaxDepth) => r[m] = 0
    OBVIOUS
  <2>2. DOMAIN r = Tasks /\ r = [m \in Tasks |-> r[m]]
    OBVIOUS
  <2> HIDE DEF r
  <2>3. \A m \in Tasks : r[m] \in 0..MaxDepth
    BY <1>0, <1>8, <2>1
  <2> QED
    BY <2>2, <2>3
<1> HIDE DEF r
<1>10. t \in U(MaxDepth) /\ U(MaxDepth) \subseteq {t} \cup M
  BY <1>0, <1>4
<1>11. r[t] = 0
  <2>1. r[t] <= 0 /\ r[t] \in 0..MaxDepth
    BY <1>0, <1>1, <1>8, <1>9, <1>10
  <2> QED
    BY <1>0, <2>1
<1>12. ASSUME NEW m \in U(MaxDepth) \ {t}
       PROVE  state.rows[m].parent \in U(MaxDepth) /\ r[m] = r[state.rows[m].parent] + 1
  <2> DEFINE p == state.rows[m].parent
             n == r[m] - 1
  <2>1. r[m] \in 0..MaxDepth /\ m \in U(r[m]) /\ \A k \in 0..MaxDepth : m \in U(k) => r[m] <= k
    BY <1>8
  <2>2. r[m] # 0
    BY <1>1, <2>1
  <2>3. n \in Nat /\ n + 1 = r[m] /\ n + 1 <= MaxDepth /\ n \in 0..MaxDepth /\ ~(r[m] <= n)
    BY <1>0, <2>1, <2>2
  <2> HIDE DEF n
  <2>4. m \notin U(n) /\ m \in U(n + 1)
    BY <2>1, <2>3
  <2>5. m \in M /\ p \in U(n)
    BY <1>3, <2>3, <2>4
  <2>6. p \in U(MaxDepth)
    BY <1>6, <2>3, <2>5
  <2> DEFINE k == r[p]
  <2>7. k \in 0..MaxDepth /\ p \in U(k) /\ k <= n
    BY <1>8, <2>3, <2>5, <2>6
  <2> HIDE DEF k, p
  <2>8. k + 1 \in 0..MaxDepth /\ k \in Nat /\ k + 1 <= MaxDepth
    BY <1>0, <2>3, <2>7
  <2>9. m \in U(k + 1)
    BY <1>3, <2>5, <2>7, <2>8 DEF p
  <2>10. n + 1 <= k + 1
    BY <2>1, <2>3, <2>8, <2>9
  <2>11. k = n
    BY <2>3, <2>7, <2>8, <2>10
  <2> QED
    BY <2>3, <2>6, <2>11 DEF k, p
<1> QED
  BY <1>2, <1>9, <1>10, <1>11, <1>12 DEF M

-----------------------------------------------------------------------------
(* The forest: restoring. *)

Returned(r, s, g, c, b, x) ==
  [Bump(r) EXCEPT !.status = s, !.group = g, !.collection = c, !.parent = IF b THEN @ ELSE x]

LEMMA ReturnedRow ==
  ASSUME NEW r \in Row, NEW s, NEW g, NEW c, NEW b \in BOOLEAN, NEW x
  PROVE  Returned(r, s, g, c, b, x) = Changed(r, s, g, IF b THEN r.parent ELSE x, c)
<1> DEFINE one == [Bump(r) EXCEPT !.status = s]
           two == [one EXCEPT !.group = g]
           three == [two EXCEPT !.collection = c]
<1>1. Returned(r, s, g, c, b, x) = [three EXCEPT !.parent = IF b THEN @ ELSE x]
  BY DEF Returned
<1>2. one = ARow(s, r.group, r.parent, r.collection, r.version + 1)
  BY BumpIs, StatusSet
<1> HIDE DEF one
<1>3. two = ARow(s, g, r.parent, r.collection, r.version + 1)
  BY <1>2, GroupSet
<1> HIDE DEF two
<1>4. three = ARow(s, g, r.parent, c, r.version + 1)
  BY <1>3, CollectionSet
<1> HIDE DEF three
<1>5. three.parent = r.parent
  BY <1>4 DEF ARow
<1>6. [three EXCEPT !.parent = IF b THEN @ ELSE x] = [three EXCEPT !.parent = IF b THEN r.parent ELSE x]
  BY <1>5
<1>7. [three EXCEPT !.parent = IF b THEN r.parent ELSE x]
        = ARow(s, g, IF b THEN r.parent ELSE x, c, r.version + 1)
  BY <1>4, ParentSet
<1> QED
  BY <1>1, <1>6, <1>7 DEF Changed

LEMMA TriedRow ==
  ASSUME NEW r \in Row, NEW s, NEW b \in BOOLEAN, NEW x
  PROVE  /\ [r EXCEPT !.status = s, !.parent = IF b THEN x ELSE @].status = s
         /\ [r EXCEPT !.status = s, !.parent = IF b THEN x ELSE @].parent = IF b THEN x ELSE r.parent
BY DEF Row

LEMMA RestoreKeepsForest ==
  ASSUME NEW state, RowsOK(state.rows), ForestOK(state.rows), NEW t \in Tasks,
         state.known \subseteq Archived(state.rows),
         NEW after, after = PlanRestore(state, t), after # Nothing
  PROVE  RowsOK(after) /\ ForestOK(after) /\ Follows(after, state.rows)
<1> DEFINE rows == state.rows
           back == RestoredWith(state, t)
           trial == [u \in Tasks |-> IF u \in back THEN [rows[u] EXCEPT !.status = "active",
                                       !.parent = IF u = t THEN TopLevel ELSE @] ELSE rows[u]]
           stays == /\ rows[t].parent \in Active(rows)
                    /\ Depth(rows, rows[t].parent) + 1 + Height(trial, t) <= MaxDepth - 1
           collection == IF stays THEN rows[rows[t].parent].collection ELSE rows[t].collection
           parent == IF stays THEN rows[t].parent ELSE TopLevel
<1>1. /\ t \in state.known /\ ~(Height(trial, t) > MaxDepth - 1)
      /\ after = [u \in Tasks |->
            IF u \notin back THEN rows[u]
            ELSE [Bump(rows[u]) EXCEPT !.status = "active", !.group = NoGroup,
                    !.collection = collection,
                    !.parent = IF u # t \/ stays THEN @ ELSE TopLevel]]
  BY DEF PlanRestore
<1>2. t \in Archived(rows) /\ ~(Height(trial, t) > MaxDepth - 1)
  BY <1>1
<1>3. /\ rows \in [Tasks -> Row] /\ Active(rows) \subseteq Tasks /\ Archived(rows) \subseteq Tasks
      /\ Active(rows) \cap Archived(rows) = {} /\ TopLevel \notin Tasks /\ MaxDepth \in Nat \ {0}
      /\ \A u \in Tasks : rows[u].status = "absent" => rows[u].version = 0
  BY TreeBounds DEF RowsOK, Active, Archived
<1>4. PICK d : Ranked(rows, d, MaxDepth - 1)
  BY DEF ForestOK
<1>5. Ranked(rows, d, MaxDepth) /\ d \in [Tasks -> 0..(MaxDepth - 1)]
      /\ \A u \in Active(rows) : Depth(rows, u) = d[u]
  BY <1>4, RanksFit
<1>6. /\ t \in back /\ back \subseteq Archived(rows)
      /\ \E r \in [Tasks -> 0..MaxDepth] :
              /\ r[t] = 0
              /\ \A m \in back \ {t} : rows[m].parent \in back /\ r[m] = r[rows[m].parent] + 1
  <2>1. Members(state, t) \subseteq Archived(rows) /\ state.known \subseteq Tasks
    BY DEF Members, Archived
  <2> QED
    BY <1>2, <2>1, RestoreRanks
<1>7. PICK r \in [Tasks -> 0..MaxDepth] :
              /\ r[t] = 0
              /\ \A m \in back \ {t} : rows[m].parent \in back /\ r[m] = r[rows[m].parent] + 1
  BY <1>6
<1> HIDE DEF rows, back
<1>8. ASSUME NEW u \in Active(rows)
      PROVE  /\ \/ rows[u].parent = TopLevel /\ d[u] = 0
                \/ rows[u].parent \in Active(rows) /\ d[u] = d[rows[u].parent] + 1
             /\ rows[u].parent # TopLevel => rows[u].collection = rows[rows[u].parent].collection
  BY <1>4 DEF Ranked, ForestOK, rows
<1>9. /\ \A u \in Tasks \ back : trial[u] = rows[u]
      /\ \A u \in back : /\ trial[u].status = "active"
                         /\ trial[u].parent = IF u = t THEN TopLevel ELSE rows[u].parent
  <2>1. \A u \in back : trial[u] = [rows[u] EXCEPT !.status = "active", !.parent = IF u = t THEN TopLevel ELSE @]
    BY <1>3, <1>6
  <2>2. \A u \in Tasks \ back : trial[u] = rows[u]
    OBVIOUS
  <2> HIDE DEF trial
  <2>3. ASSUME NEW u \in back
        PROVE  /\ trial[u].status = "active"
               /\ trial[u].parent = IF u = t THEN TopLevel ELSE rows[u].parent
    <3>1. rows[u] \in Row /\ (u = t) \in BOOLEAN
      BY <1>3, <1>6
    <3> DEFINE b == u = t
    <3>2. trial[u] = [rows[u] EXCEPT !.status = "active", !.parent = IF b THEN TopLevel ELSE @]
      BY <2>1
    <3>3. b \in BOOLEAN
      OBVIOUS
    <3> HIDE DEF b
    <3>4. trial[u].status = "active" /\ trial[u].parent = IF b THEN TopLevel ELSE rows[u].parent
      BY <3>1, <3>2, <3>3, TriedRow
    <3> QED
      BY <3>4 DEF b
  <2> QED
    BY <2>2, <2>3
<1>10. Active(trial) = Active(rows) \cup back
  BY <1>3, <1>6, <1>9 DEF Active
<1> DEFINE q == [u \in Tasks |-> IF u \in back THEN r[u] ELSE d[u]]
<1>11. q \in [Tasks -> 0..MaxDepth] /\ \A u \in Tasks : q[u] = IF u \in back THEN r[u] ELSE d[u]
  <2>1. 0..(MaxDepth - 1) \subseteq 0..MaxDepth
    BY <1>3
  <2> QED
    BY <1>5, <2>1
<1> HIDE DEF q, trial
<1>12. Ranked(trial, q, MaxDepth)
  <2>1. ASSUME NEW u \in Active(trial)
        PROVE  \/ trial[u].parent = TopLevel /\ q[u] = 0
               \/ trial[u].parent \in Active(trial) /\ q[u] = q[trial[u].parent] + 1
    <3>1. CASE u = t
      BY <1>3, <1>6, <1>7, <1>9, <1>11, <3>1
    <3>2. CASE u \in back \ {t}
      <4>1. rows[u].parent \in back /\ r[u] = r[rows[u].parent] + 1 /\ u \in Tasks /\ back \subseteq Tasks
        BY <1>3, <1>6, <1>7, <3>2
      <4>2. trial[u].parent = rows[u].parent
        BY <1>9, <3>2
      <4> QED
        BY <1>10, <1>11, <3>2, <4>1, <4>2
    <3>3. CASE u \notin back
      <4>1. u \in Active(rows) /\ trial[u] = rows[u] /\ q[u] = d[u]
        BY <1>3, <1>9, <1>10, <1>11, <3>3
      <4>2. rows[u].parent \in Active(rows) => q[rows[u].parent] = d[rows[u].parent]
        BY <1>3, <1>6, <1>11
      <4> QED
        BY <1>8, <1>10, <4>1, <4>2
    <3> QED
      BY <3>1, <3>2, <3>3
  <2> QED
    BY <1>11, <2>1 DEF Ranked
<1>13. t \in Active(trial)
  BY <1>6, <1>10
<1>14. Height(trial, t) \in 0..MaxDepth /\ Height(trial, t) <= MaxDepth - 1
  <2>1. Height(trial, t) \in 0..MaxDepth
    BY <1>12, <1>13, HeightIs
  <2> QED
    BY <1>2, <1>3, <2>1
<1>15. ASSUME NEW m \in back
       PROVE  r[m] \in Nat /\ r[m] <= Height(trial, t)
  <2> DEFINE S == {n \in Nat : \A x \in back \ {t} : r[x] = n => x \in Descendants(trial, t)}
  <2>0. \A x \in back : r[x] \in 0..MaxDepth /\ r[x] \in Nat /\ x \in Tasks /\ q[x] = r[x]
    BY <1>3, <1>6, <1>7, <1>11
  <2>a. ASSUME NEW x \in back \ {t}, rows[x].parent \in {t} \cup Descendants(trial, t)
        PROVE  x \in Descendants(trial, t)
    <3>1. x \in Active(trial) /\ trial[x].parent = rows[x].parent /\ rows[x].parent \in Active(trial)
      BY <1>7, <1>9, <1>10
    <3>2. ParentOf(trial, x) = rows[x].parent
      BY <3>1 DEF ParentOf
    <3> QED
      BY <1>12, <1>13, <2>a, <3>1, <3>2, SubtreeSteps
  <2>1. 0 \in S
    <3>1. \A x \in back \ {t} : r[x] # 0
      <4>1. ASSUME NEW x \in back \ {t}
            PROVE  r[x] # 0
        <5>1. r[x] = r[rows[x].parent] + 1 /\ r[rows[x].parent] \in Nat
          BY <1>7, <2>0
        <5> QED
          BY <5>1
      <4> QED
        BY <4>1
    <3> QED
      BY <3>1
  <2>2. ASSUME NEW n \in Nat, n \in S
        PROVE  n + 1 \in S
    <3>1. ASSUME NEW x \in back \ {t}, r[x] = n + 1
          PROVE  x \in Descendants(trial, t)
      <4> DEFINE p == rows[x].parent
      <4>1. p \in back /\ r[x] = r[p] + 1 /\ r[p] \in Nat
        BY <1>7, <2>0
      <4>2. r[p] = n
        BY <3>1, <4>1
      <4>3. p = t \/ p \in Descendants(trial, t)
        BY <2>2, <4>1, <4>2
      <4> QED
        BY <2>a, <4>3
    <3> QED
      BY <3>1
  <2> HIDE DEF S
  <2>3. Nat \subseteq S
    BY <2>1, <2>2, NumbersReached
  <2>4. CASE m = t
    BY <1>7, <1>14, <2>4
  <2>5. CASE m # t
    <3>1. m \in Descendants(trial, t)
      BY <2>0, <2>3, <2>5 DEF S
    <3>2. q[m] - q[t] <= Height(trial, t)
      BY <1>12, <1>13, <3>1, HeightIs
    <3> QED
      BY <1>6, <1>7, <1>14, <2>0, <3>2
  <2> QED
    BY <2>4, <2>5
<1>16. /\ stays => rows[t].parent \in Active(rows)
       /\ stays => d[rows[t].parent] + 1 + Height(trial, t) <= MaxDepth - 1
  BY <1>5
<1>17. collection \in Collections \cup {Nothing}
  BY <1>3, <1>6, <1>16 DEF Row
<1> DEFINE kept == stays
           home == collection
<1>18. /\ \A u \in Tasks \ back : after[u] = rows[u]
       /\ \A u \in back : after[u] = Changed(rows[u], "active", NoGroup,
                                              IF u # t \/ kept THEN rows[u].parent ELSE TopLevel, home)
       /\ DOMAIN after = Tasks /\ after = [u \in Tasks |-> after[u]]
  <2> HIDE DEF home, kept
  <2>1. after = [u \in Tasks |->
            IF u \notin back THEN rows[u]
            ELSE [Bump(rows[u]) EXCEPT !.status = "active", !.group = NoGroup,
                    !.collection = home,
                    !.parent = IF u # t \/ kept THEN @ ELSE TopLevel]]
    BY <1>1 DEF rows, back, trial, home, kept
  <2>2. ASSUME NEW u \in back
        PROVE  after[u] = Changed(rows[u], "active", NoGroup,
                                  IF u # t \/ kept THEN rows[u].parent ELSE TopLevel, home)
    <3>1. u \in Tasks /\ rows[u] \in Row
      BY <1>3, <1>6
    <3> DEFINE b == u # t \/ kept
    <3>2. after[u] = [Bump(rows[u]) EXCEPT !.status = "active", !.group = NoGroup,
                        !.collection = home, !.parent = IF b THEN @ ELSE TopLevel]
      BY <2>1, <3>1
    <3>3. b \in BOOLEAN
      OBVIOUS
    <3> HIDE DEF b
    <3>4. after[u] = Returned(rows[u], "active", NoGroup, home, b, TopLevel)
      BY <3>2 DEF Returned
    <3>5. after[u] = Changed(rows[u], "active", NoGroup, IF b THEN rows[u].parent ELSE TopLevel, home)
      BY <3>1, <3>3, <3>4, ReturnedRow
    <3> QED
      BY <3>5 DEF b
  <2> QED
    BY <2>1, <2>2
<1>19. /\ kept => rows[t].parent \in Active(rows) /\ home = rows[rows[t].parent].collection
       /\ kept => d[rows[t].parent] + 1 + Height(trial, t) <= MaxDepth - 1
       /\ home \in Collections \cup {Nothing}
  BY <1>16, <1>17
<1> HIDE DEF kept, home
<1>20. \A u \in back : /\ after[u] \in Row /\ after[u].status = "active"
                       /\ after[u].collection = home /\ after[u].version = rows[u].version + 1
                       /\ after[u].parent = IF u # t \/ kept THEN rows[u].parent ELSE TopLevel
  <2>1. ASSUME NEW u \in back
        PROVE  /\ after[u] \in Row /\ after[u].status = "active"
               /\ after[u].collection = home /\ after[u].version = rows[u].version + 1
               /\ after[u].parent = IF u # t \/ kept THEN rows[u].parent ELSE TopLevel
    <3>1. rows[u] \in Row /\ rows[u].parent \in Tasks \cup {TopLevel}
      BY <1>3, <1>6 DEF Row
    <3> DEFINE p == IF u # t \/ kept THEN rows[u].parent ELSE TopLevel
    <3>2. p \in Tasks \cup {TopLevel} /\ NoGroup \in Tasks \cup {NoGroup}
      BY <3>1
    <3>3. after[u] = Changed(rows[u], "active", NoGroup, p, home)
      BY <1>18
    <3> HIDE DEF p
    <3>4. /\ after[u] \in Row /\ after[u].status = "active" /\ after[u].collection = home
          /\ after[u].version = rows[u].version + 1 /\ after[u].parent = p
      BY <1>19, <3>1, <3>2, <3>3, ChangedFields
    <3> QED
      BY <3>4 DEF p
  <2> QED
    BY <2>1
<1>21. RowsOK(after)
  <2>1. \A u \in Tasks : after[u] \in Row
    BY <1>3, <1>18, <1>20
  <2>2. \A u \in Tasks : after[u].status = "absent" => after[u].version = 0
    BY <1>3, <1>18, <1>20
  <2>3. after \in [Tasks -> Row]
    BY <1>18, <2>1
  <2> QED
    BY <2>2, <2>3 DEF RowsOK
<1>22. Follows(after, rows)
  BY <1>18, <1>20 DEF Follows
<1>23. Active(after) = Active(rows) \cup back
  <2>1. ASSUME NEW u \in Tasks
        PROVE  after[u].status = "active" <=> rows[u].status = "active" \/ u \in back
    BY <1>18, <1>20
  <2> QED
    BY <1>3, <1>6, <2>1 DEF Active
<1> DEFINE base == IF kept THEN d[rows[t].parent] + 1 ELSE 0
           e == [u \in Tasks |-> IF u \in back THEN base + r[u] ELSE d[u]]
<1>24. base \in Nat /\ base + Height(trial, t) <= MaxDepth - 1
  <2>1. kept => d[rows[t].parent] \in Nat
    BY <1>3, <1>5, <1>19
  <2> QED
    BY <1>3, <1>14, <1>19, <2>1
<1>25. /\ kept => base = d[rows[t].parent] + 1
       /\ ~kept => base = 0
  OBVIOUS
<1> HIDE DEF base
<1>26. e \in [Tasks -> 0..(MaxDepth - 1)] /\ \A u \in Tasks : e[u] = IF u \in back THEN base + r[u] ELSE d[u]
  <2>1. ASSUME NEW u \in back
        PROVE  base + r[u] \in 0..(MaxDepth - 1)
    BY <1>3, <1>14, <1>15, <1>24
  <2> QED
    BY <1>5, <2>1
<1> HIDE DEF e
<1>27. ASSUME NEW u \in Active(after)
       PROVE  /\ \/ after[u].parent = TopLevel /\ e[u] = 0
                 \/ after[u].parent \in Active(after) /\ e[u] = e[after[u].parent] + 1
              /\ after[u].parent # TopLevel => after[u].collection = after[after[u].parent].collection
  <2>0. t \in Tasks /\ back \subseteq Tasks /\ \A x \in Active(rows) : x \notin back
    BY <1>3, <1>6
  <2>1. CASE u = t /\ kept
    <3> DEFINE p == rows[t].parent
    <3>1. p \in Active(rows) /\ p \in Tasks /\ p \notin back
      BY <1>3, <1>19, <2>0, <2>1
    <3>2. after[t].parent = p /\ after[t].collection = home
      BY <1>6, <1>20, <2>1
    <3>3. after[p].collection = home /\ e[p] = d[p]
      BY <1>18, <1>19, <1>26, <2>1, <3>1
    <3>4. e[t] = d[p] + 1
      BY <1>6, <1>7, <1>24, <1>25, <1>26, <2>0, <2>1
    <3> HIDE DEF p
    <3> QED
      BY <1>23, <2>1, <3>1, <3>2, <3>3, <3>4
  <2>2. CASE u = t /\ ~kept
    <3>1. after[t].parent = TopLevel
      BY <1>6, <1>20, <2>2
    <3>2. e[t] = 0
      BY <1>6, <1>7, <1>25, <1>26, <2>0, <2>2
    <3> QED
      BY <2>2, <3>1, <3>2
  <2>3. CASE u \in back \ {t}
    <3> DEFINE p == rows[u].parent
    <3>1. p \in back /\ r[u] = r[p] + 1
      BY <1>7, <2>3
    <3>2. after[u].parent = p /\ after[u].collection = home /\ after[p].collection = home
      BY <1>20, <2>3, <3>1
    <3> HIDE DEF p
    <3>3. r[p] \in Nat /\ r[u] \in Nat
      BY <1>15, <2>3, <3>1
    <3>4. e[u] = e[p] + 1
      BY <1>24, <1>26, <2>0, <2>3, <3>1, <3>3
    <3> QED
      BY <1>23, <3>1, <3>2, <3>4
  <2>4. CASE u \notin back
    <3>1. u \in Active(rows) /\ after[u] = rows[u] /\ e[u] = d[u] /\ u \in Tasks
      BY <1>3, <1>18, <1>23, <1>26, <2>4
    <3>2. ASSUME rows[u].parent # TopLevel
          PROVE  /\ rows[u].parent \in Active(rows) /\ e[rows[u].parent] = d[rows[u].parent]
                 /\ after[rows[u].parent] = rows[rows[u].parent]
      <4>1. rows[u].parent \in Active(rows)
        BY <1>8, <3>1, <3>2
      <4> QED
        BY <1>3, <1>18, <1>26, <2>0, <4>1
    <3>3. \/ rows[u].parent = TopLevel /\ d[u] = 0
          \/ rows[u].parent \in Active(rows) /\ d[u] = d[rows[u].parent] + 1
      BY <1>8, <3>1
    <3>4. rows[u].parent # TopLevel => rows[u].collection = rows[rows[u].parent].collection
      BY <1>8, <3>1
    <3>5. TopLevel \notin Active(rows)
      BY <1>3
    <3> QED
      BY <1>23, <3>1, <3>2, <3>3, <3>4, <3>5
  <2> QED
    BY <2>1, <2>2, <2>3, <2>4
<1>28. Ranked(after, e, MaxDepth - 1)
  BY <1>26, <1>27 DEF Ranked
<1>29. ForestOK(after)
  BY <1>27, <1>28 DEF ForestOK
<1> QED
  BY <1>21, <1>22, <1>29 DEF rows

-----------------------------------------------------------------------------
(* The forest: the inductive invariant, with the rows of every version so far. *)

\* Rows of an earlier version, and a row whose version did not move.
Older(rows, later) ==
  \A t \in Tasks : /\ rows[t].version <= later[t].version
                   /\ rows[t].version = later[t].version => rows[t] = later[t]

\* The rows of every version so far.
Past(h, now) ==
  /\ h[now.version] = now.rows
  /\ \A n \in 0..now.version : RowsOK(h[n]) /\ ForestOK(h[n]) /\ Older(h[n], now.rows)

\* A state holds the rows of its version.
AsAt(s, h, now) ==
  /\ s.version \in 0..now.version /\ s.rows = h[s.version]
  /\ s.known \subseteq Archived(s.rows)

PlanFits(w) ==
  /\ RowsOK(w.after) /\ ForestOK(w.after) /\ Follows(w.after, w.state.rows)
  /\ w.lock # "tree" => /\ w.task \in Active(w.state.rows)
                        /\ w.after = [w.state.rows EXCEPT ![w.task] = Bump(@)]

WriteFits(w, h, now) ==
  /\ w.pc \in {"idle", "batch", "answer"}
  /\ w.pc = "batch" => AsAt(w.state, h, now) /\ PlanFits(w)
  /\ w.pc = "answer" /\ w.cached /\ w.version = w.state.version + 1 =>
       w.version \in 0..now.version /\ w.after = h[w.version]

Fits(h) ==
  /\ Past(h, tree)
  /\ \A r \in Writes : WriteFits(write[r], h, tree)
  /\ treeCache # Nothing => AsAt(treeCache, h, tree)
  /\ reading # Nothing => AsAt(reading.state, h, tree)

ForestInv == CacheInv /\ \E h : Fits(h)

LEMMA OlderIsLater ==
  ASSUME NEW rows, NEW now, NEW later, RowsOK(rows), RowsOK(now), RowsOK(later),
         Older(rows, now), Follows(later, now)
  PROVE  Older(rows, later)
<1> SUFFICES ASSUME NEW t \in Tasks
             PROVE  /\ rows[t].version <= later[t].version
                    /\ rows[t].version = later[t].version => rows[t] = later[t]
  BY DEF Older
<1>1. rows[t].version \in Nat /\ now[t].version \in Nat /\ later[t].version \in Nat
  BY DEF RowsOK, Row
<1>2. /\ rows[t].version <= now[t].version
      /\ rows[t].version = now[t].version => rows[t] = now[t]
  BY DEF Older
<1>3. later[t] = now[t] \/ later[t].version = now[t].version + 1
  BY DEF Follows
<1> QED
  BY <1>1, <1>2, <1>3

LEMMA LoadFits ==
  ASSUME CacheInv, NEW h, Fits(h), NEW probes
  PROVE  AsAt(Load(probes), h, tree)
<1>1. tree.version \in 0..tree.version /\ h[tree.version] = tree.rows
  BY DEF CacheInv, Fits, Past
<1>2. Load(probes).known \subseteq Archived(tree.rows)
  BY DEF Load, Group
<1>3. Load(probes).version = tree.version /\ Load(probes).rows = tree.rows
  BY DEF Load
<1> QED
  BY <1>1, <1>2, <1>3 DEF AsAt

LEMMA StateFits ==
  ASSUME CacheInv, NEW h, Fits(h), NEW s, AsAt(s, h, tree)
  PROVE  RowsOK(s.rows) /\ ForestOK(s.rows) /\ s.known \subseteq Archived(s.rows)
BY DEF AsAt, Fits, Past

\* What becomes of the tree and the states when the tree moves on.
LEMMA MovesOn ==
  ASSUME CacheInv, NEW h, Fits(h), NEW rows, RowsOK(rows), ForestOK(rows), Follows(rows, tree.rows),
         NEW later, later = [version |-> tree.version + 1, rows |-> rows]
  PROVE  \E k : /\ Past(k, later) /\ k[later.version] = rows
                /\ \A s : AsAt(s, h, tree) => AsAt(s, k, later)
                /\ \A w : WriteFits(w, h, tree) => WriteFits(w, k, later)
<1> DEFINE v == tree.version
           k == [n \in 0..(v + 1) |-> IF n = v + 1 THEN rows ELSE h[n]]
<1>1. v \in Nat /\ later.version = v + 1 /\ later.rows = rows
  BY DEF CacheInv
<1>2. /\ h[v] = tree.rows
      /\ \A n \in 0..v : RowsOK(h[n]) /\ ForestOK(h[n]) /\ Older(h[n], tree.rows)
  BY DEF Fits, Past
<1> HIDE DEF v
<1>3. k[v + 1] = rows /\ \A n \in 0..v : k[n] = h[n] /\ n \in 0..(v + 1)
  BY <1>1
<1>4. \A n \in 0..(v + 1) : n = v + 1 \/ n \in 0..v
  BY <1>1
<1> HIDE DEF k
<1>5. RowsOK(tree.rows)
  BY <1>1, <1>2
<1>6. \A n \in 0..v : Older(h[n], rows)
  BY <1>2, <1>5, OlderIsLater
<1>7. Older(rows, rows)
  BY DEF Older, RowsOK, Row
<1>8. Past(k, later)
  BY <1>1, <1>2, <1>3, <1>4, <1>6, <1>7 DEF Past
<1>9. ASSUME NEW s, AsAt(s, h, tree)
      PROVE  AsAt(s, k, later)
  BY <1>1, <1>3, <1>9 DEF AsAt, v
<1>10. ASSUME NEW w, WriteFits(w, h, tree)
       PROVE  WriteFits(w, k, later)
  BY <1>1, <1>3, <1>9, <1>10 DEF WriteFits, v
<1> QED
  BY <1>1, <1>3, <1>8, <1>9, <1>10

LEMMA IdleWriteFits == ASSUME NEW h, NEW now PROVE WriteFits(IdleWrite, h, now)
BY DEF WriteFits, IdleWrite

\* A write changes its record and at most drops the cache or replaces it.
LEMMA OneWriteFits ==
  ASSUME ForestInv, CacheInv', NEW k, Past(k, tree'), NEW r \in Writes, NEW w, WriteFits(w, k, tree'),
         write' = [write EXCEPT ![r] = w],
         \A q \in Writes : WriteFits(write[q], k, tree'),
         UNCHANGED reading, reading # Nothing => AsAt(reading.state, k, tree'),
         treeCache' # Nothing => AsAt(treeCache', k, tree')
  PROVE  ForestInv'
<1>1. DOMAIN write = Writes
  BY DEF ForestInv, CacheInv
<1>2. \A q \in Writes : WriteFits(write'[q], k, tree')
  BY <1>1
<1>3. Fits(k)'
  BY <1>2 DEF Fits
<1> QED
  BY <1>3 DEF ForestInv

-----------------------------------------------------------------------------
(* The forest: the steps of a write up to its batch. *)

\* The record of a plan.
Plan(lock, t, state, after, uses) ==
  [pc |-> "batch", lock |-> lock, task |-> t, state |-> state, after |-> after,
   cached |-> uses, version |-> 0]

LEMMA PlanFields ==
  ASSUME NEW lock, NEW t, NEW state, NEW after, NEW uses
  PROVE  /\ Plan(lock, t, state, after, uses).pc = "batch"
         /\ Plan(lock, t, state, after, uses).lock = lock
         /\ Plan(lock, t, state, after, uses).task = t
         /\ Plan(lock, t, state, after, uses).state = state
         /\ Plan(lock, t, state, after, uses).after = after
BY DEF Plan

LEMMA PlansFit ==
  ASSUME CacheInv, NEW h, Fits(h), NEW r \in Writes, BeginWrite(r)
  PROVE  \E w : WriteFits(w, h, tree) /\ write' = [write EXCEPT ![r] = w]
<1>1. ASSUME NEW probes, NEW state,
             state = Load(probes) \/ (state = treeCache /\ treeCache # Nothing)
      PROVE  AsAt(state, h, tree) /\ RowsOK(state.rows) /\ ForestOK(state.rows)
             /\ state.known \subseteq Archived(state.rows)
  <2>1. AsAt(state, h, tree)
    BY <1>1, LoadFits DEF Fits
  <2> QED
    BY <2>1, StateFits
<1>2. ASSUME NEW state, AsAt(state, h, tree), NEW lock, NEW t, NEW after, NEW uses,
             RowsOK(after), ForestOK(after), Follows(after, state.rows),
             lock # "tree" => t \in Active(state.rows) /\ after = [state.rows EXCEPT ![t] = Bump(@)]
      PROVE  WriteFits(Plan(lock, t, state, after, uses), h, tree)
  BY <1>2, PlanFields DEF WriteFits, PlanFits
<1>3. ASSUME NEW t \in Tasks, NEW uses \in BOOLEAN, NEW parent \in Tasks \cup {TopLevel},
             NEW c \in Collections,
             Planned(r, uses, {parent} \ {TopLevel}, "tree", t,
                     LAMBDA s : PlanCreate(s, t, parent, c))
      PROVE  \E w : WriteFits(w, h, tree) /\ write' = [write EXCEPT ![r] = w]
  <2> DEFINE cached == uses /\ Covers({parent} \ {TopLevel})
                       /\ PlanCreate(treeCache, t, parent, c) # Nothing
             state == IF cached THEN treeCache ELSE Load({parent} \ {TopLevel})
             after == PlanCreate(state, t, parent, c)
  <2>1. cached => treeCache # Nothing
    BY DEF Covers
  <2>2. after # Nothing /\ write' = [write EXCEPT ![r] = Plan("tree", t, state, after, uses)]
    BY <1>3 DEF Planned, Plan
  <2> HIDE DEF cached
  <2>3. /\ AsAt(state, h, tree) /\ RowsOK(state.rows) /\ ForestOK(state.rows)
        /\ state.known \subseteq Archived(state.rows)
    BY <1>1, <2>1
  <2> HIDE DEF state
  <2>4. RowsOK(after) /\ ForestOK(after) /\ Follows(after, state.rows)
    BY <2>2, <2>3, CreateKeepsForest
  <2> HIDE DEF after
  <2> QED
    BY <1>2, <2>2, <2>3, <2>4
<1>4. ASSUME NEW t \in Tasks, NEW uses \in BOOLEAN,
             Planned(r, uses, {t}, "row", t, LAMBDA s : PlanRename(s, t))
      PROVE  \E w : WriteFits(w, h, tree) /\ write' = [write EXCEPT ![r] = w]
  <2> DEFINE cached == uses /\ Covers({t}) /\ PlanRename(treeCache, t) # Nothing
             state == IF cached THEN treeCache ELSE Load({t})
             after == PlanRename(state, t)
  <2>1. cached => treeCache # Nothing
    BY DEF Covers
  <2>2. after # Nothing /\ write' = [write EXCEPT ![r] = Plan("row", t, state, after, uses)]
    BY <1>4 DEF Planned, Plan
  <2> HIDE DEF cached
  <2>3. AsAt(state, h, tree) /\ RowsOK(state.rows) /\ ForestOK(state.rows)
    BY <1>1, <2>1
  <2> HIDE DEF state
  <2>4. t \in Active(state.rows) /\ after = [state.rows EXCEPT ![t] = Bump(@)]
    BY <2>2 DEF PlanRename
  <2> HIDE DEF after
  <2>5. RowsOK(after) /\ ForestOK(after) /\ Follows(after, state.rows)
    BY <2>3, <2>4, RenameKeepsForest
  <2> QED
    BY <1>2, <2>2, <2>3, <2>4, <2>5
<1>5. ASSUME NEW t \in Tasks, NEW uses \in BOOLEAN, NEW parent \in Tasks \cup {TopLevel},
             NEW c \in Collections,
             Planned(r, uses, {t, parent} \ {TopLevel}, "tree", t,
                     LAMBDA s : PlanMove(s, t, parent, c))
      PROVE  \E w : WriteFits(w, h, tree) /\ write' = [write EXCEPT ![r] = w]
  <2> DEFINE cached == uses /\ Covers({t, parent} \ {TopLevel})
                       /\ PlanMove(treeCache, t, parent, c) # Nothing
             state == IF cached THEN treeCache ELSE Load({t, parent} \ {TopLevel})
             after == PlanMove(state, t, parent, c)
  <2>1. cached => treeCache # Nothing
    BY DEF Covers
  <2>2. after # Nothing /\ write' = [write EXCEPT ![r] = Plan("tree", t, state, after, uses)]
    BY <1>5 DEF Planned, Plan
  <2> HIDE DEF cached
  <2>3. AsAt(state, h, tree) /\ RowsOK(state.rows) /\ ForestOK(state.rows)
    BY <1>1, <2>1
  <2> HIDE DEF state
  <2>4. RowsOK(after) /\ ForestOK(after) /\ Follows(after, state.rows)
    BY <2>2, <2>3, MoveKeepsForest
  <2> HIDE DEF after
  <2> QED
    BY <1>2, <2>2, <2>3, <2>4
<1>6. ASSUME NEW t \in Tasks, NEW uses \in BOOLEAN, NEW mode \in {"all", "parent_only"},
             Planned(r, uses, {t}, "tree", t, LAMBDA s : PlanComplete(s, t, mode))
      PROVE  \E w : WriteFits(w, h, tree) /\ write' = [write EXCEPT ![r] = w]
  <2> DEFINE cached == uses /\ Covers({t}) /\ PlanComplete(treeCache, t, mode) # Nothing
             state == IF cached THEN treeCache ELSE Load({t})
             after == PlanComplete(state, t, mode)
  <2>1. cached => treeCache # Nothing
    BY DEF Covers
  <2>2. after # Nothing /\ write' = [write EXCEPT ![r] = Plan("tree", t, state, after, uses)]
    BY <1>6 DEF Planned, Plan
  <2> HIDE DEF cached
  <2>3. AsAt(state, h, tree) /\ RowsOK(state.rows) /\ ForestOK(state.rows)
    BY <1>1, <2>1
  <2> HIDE DEF state
  <2>4. RowsOK(after) /\ ForestOK(after) /\ Follows(after, state.rows)
    BY <2>2, <2>3, CompleteKeepsForest
  <2> HIDE DEF after
  <2> QED
    BY <1>2, <2>2, <2>3, <2>4
<1>7. ASSUME NEW t \in Tasks, NEW uses \in BOOLEAN,
             Planned(r, uses, {t}, "tree", t, LAMBDA s : PlanRestore(s, t))
      PROVE  \E w : WriteFits(w, h, tree) /\ write' = [write EXCEPT ![r] = w]
  <2> DEFINE cached == uses /\ Covers({t}) /\ PlanRestore(treeCache, t) # Nothing
             state == IF cached THEN treeCache ELSE Load({t})
             after == PlanRestore(state, t)
  <2>1. cached => treeCache # Nothing
    BY DEF Covers
  <2>2. after # Nothing /\ write' = [write EXCEPT ![r] = Plan("tree", t, state, after, uses)]
    BY <1>7 DEF Planned, Plan
  <2> HIDE DEF cached
  <2>3. /\ AsAt(state, h, tree) /\ RowsOK(state.rows) /\ ForestOK(state.rows)
        /\ state.known \subseteq Archived(state.rows)
    BY <1>1, <2>1
  <2> HIDE DEF state
  <2>4. RowsOK(after) /\ ForestOK(after) /\ Follows(after, state.rows)
    BY <2>2, <2>3, RestoreKeepsForest
  <2> HIDE DEF after
  <2> QED
    BY <1>2, <2>2, <2>3, <2>4
<1> QED
  BY <1>3, <1>4, <1>5, <1>6, <1>7 DEF BeginWrite

LEMMA BeginFits ==
  ASSUME ForestInv, CacheInv', NEW r \in Writes, BeginWrite(r)
  PROVE  ForestInv'
<1>1. PICK h : Fits(h)
  BY DEF ForestInv
<1>2. PICK w : WriteFits(w, h, tree) /\ write' = [write EXCEPT ![r] = w]
  BY <1>1, PlansFit DEF ForestInv
<1>3. UNCHANGED <<tree, treeCache, reading>>
  BY DEF BeginWrite
<1> QED
  BY <1>1, <1>2, <1>3, OneWriteFits DEF Fits

\* The batch: the rows it leaves, under either lock.
LEMMA AppliedFits ==
  ASSUME CacheInv, NEW h, Fits(h), NEW plan, AsAt(plan.state, h, tree), PlanFits(plan), StillPlanned(plan),
         NEW rows, rows = [t \in Tasks |-> IF plan.after[t] # plan.state.rows[t] THEN plan.after[t]
                                           ELSE tree.rows[t]]
  PROVE  /\ RowsOK(rows) /\ ForestOK(rows) /\ Follows(rows, tree.rows)
         /\ plan.state.version = tree.version => rows = plan.after
<1>1. /\ tree.version \in 0..tree.version /\ h[tree.version] = tree.rows
      /\ RowsOK(tree.rows) /\ ForestOK(tree.rows)
      /\ RowsOK(plan.state.rows) /\ Older(plan.state.rows, tree.rows)
  BY DEF CacheInv, Fits, Past, AsAt
<1>2. /\ RowsOK(plan.after) /\ ForestOK(plan.after) /\ Follows(plan.after, plan.state.rows)
  BY DEF PlanFits
<1>3. plan.after \in [Tasks -> Row]
  BY <1>2 DEF RowsOK
<1>4. ASSUME plan.state.version = tree.version
      PROVE  plan.state.rows = tree.rows /\ rows = plan.after
  <2>1. plan.state.rows = tree.rows
    BY <1>1, <1>4 DEF AsAt
  <2>2. rows = [t \in Tasks |-> plan.after[t]]
    BY <2>1
  <2> QED
    BY <1>3, <2>1, <2>2
<1>5. CASE plan.lock = "tree"
  <2>1. plan.state.version = tree.version
    BY <1>5 DEF StillPlanned
  <2> QED
    BY <1>2, <1>4, <2>1
<1>6. CASE plan.lock # "tree"
  <2> DEFINE t == plan.task
  <2>1. /\ t \in Active(plan.state.rows) /\ plan.after = [plan.state.rows EXCEPT ![t] = Bump(@)]
        /\ tree.rows[t].status = "active" /\ tree.rows[t].version = plan.state.rows[t].version
    BY <1>6 DEF StillPlanned, PlanFits
  <2>2. t \in Tasks
    BY <2>1 DEF Active
  <2>3. t \in Active(tree.rows)
    BY <2>1, <2>2 DEF Active
  <2> HIDE DEF t
  <2>4. tree.rows[t] = plan.state.rows[t]
    BY <1>1, <2>1, <2>2 DEF Older
  <2>5. plan.state.rows \in [Tasks -> Row] /\ tree.rows \in [Tasks -> Row]
    BY <1>1 DEF RowsOK
  <2>6. plan.after[t] = Bump(plan.state.rows[t]) /\ \A u \in Tasks \ {t} : plan.after[u] = plan.state.rows[u]
    BY <2>1, <2>2, <2>5
  <2>7. Bump(plan.state.rows[t]) # plan.state.rows[t]
    <3>1. /\ plan.state.rows[t] \in Row
          /\ Bump(plan.state.rows[t]).version = plan.state.rows[t].version + 1
      BY <2>2, <2>5, BumpFields
    <3>2. plan.state.rows[t].version \in Nat
      BY <3>1 DEF Row
    <3> QED
      BY <3>1, <3>2
  <2> DEFINE mine == [tree.rows EXCEPT ![t] = Bump(@)]
  <2>8. mine[t] = Bump(tree.rows[t]) /\ \A u \in Tasks \ {t} : mine[u] = tree.rows[u]
    BY <2>2, <2>5
  <2>9. mine = [u \in Tasks |-> mine[u]]
    BY <2>5
  <2>10. RowsOK(mine) /\ ForestOK(mine) /\ Follows(mine, tree.rows)
    BY <1>1, <2>3, RenameKeepsForest
  <2> HIDE DEF mine
  <2>11. \A u \in Tasks : rows[u] = mine[u]
    BY <2>2, <2>4, <2>6, <2>7, <2>8
  <2>12. rows = mine
    BY <2>9, <2>11
  <2> QED
    BY <1>4, <2>10, <2>12
<1> QED
  BY <1>5, <1>6

-----------------------------------------------------------------------------
(* The forest: the other steps, and the theorem. *)

LEMMA CommitFits ==
  ASSUME ForestInv, CacheInv', NEW r \in Writes, CommitWrite(r)
  PROVE  ForestInv'
<1> DEFINE plan == write[r]
           rows == [t \in Tasks |-> IF plan.after[t] # plan.state.rows[t] THEN plan.after[t]
                                    ELSE tree.rows[t]]
           later == [version |-> tree.version + 1, rows |-> rows]
<1>1. PICK h : Fits(h)
  BY DEF ForestInv
<1>2. /\ CacheInv /\ tree.version \in Nat /\ plan.pc = "batch" /\ UNCHANGED reading
      /\ WriteFits(plan, h, tree) /\ WriteOK(plan, tree)
  BY <1>1 DEF ForestInv, CacheInv, CommitWrite, Fits
<1>3. IsWrite(plan) /\ AsAt(plan.state, h, tree) /\ PlanFits(plan)
  BY <1>2 DEF WriteFits, WriteOK
<1>4. CASE StillPlanned(plan)
  <2> DEFINE w == [IF plan.cached THEN plan ELSE IdleWrite
                   EXCEPT !.pc = "answer", !.version = tree.version + 1]
  <2>1. /\ tree' = [version |-> tree.version + 1,
                    rows |-> [t \in Tasks |->
                                IF t \in {u \in Tasks : plan.after[u] # plan.state.rows[u]}
                                THEN plan.after[t] ELSE tree.rows[t]]]
        /\ write' = [write EXCEPT ![r] = w] /\ UNCHANGED treeCache
    BY <1>4 DEF CommitWrite
  <2>2. tree' = later
    BY <2>1
  <2>3. /\ RowsOK(rows) /\ ForestOK(rows) /\ Follows(rows, tree.rows)
        /\ plan.state.version = tree.version => rows = plan.after
    <3>1. rows = [t \in Tasks |-> IF plan.after[t] # plan.state.rows[t] THEN plan.after[t] ELSE tree.rows[t]]
      OBVIOUS
    <3> HIDE DEF rows, plan
    <3> QED
      BY <1>1, <1>2, <1>3, <1>4, <3>1, AppliedFits
  <2> HIDE DEF rows
  <2>4. PICK k : /\ Past(k, later) /\ k[later.version] = rows
                 /\ \A s : AsAt(s, h, tree) => AsAt(s, k, later)
                 /\ \A x : WriteFits(x, h, tree) => WriteFits(x, k, later)
    BY <1>1, <1>2, <2>3, MovesOn
  <2>5. later.version = tree.version + 1 /\ later.version \in 0..later.version
    BY <1>2
  <2> HIDE DEF later
  <2>6. WriteFits(w, k, later)
    <3>1. CASE plan.cached
      <4>1. w = Answered(plan, tree.version + 1)
        BY <3>1 DEF Answered
      <4> HIDE DEF w, plan
      <4>2. w.pc = "answer" /\ w.version = tree.version + 1 /\ w.state = plan.state /\ w.after = plan.after
        BY <1>3, <4>1, AnsweredFields
      <4>3. w.version = w.state.version + 1 => plan.state.version = tree.version
        BY <1>2, <1>3, <4>2 DEF AsAt
      <4> QED
        BY <2>3, <2>4, <2>5, <4>2, <4>3 DEF WriteFits
    <3>2. CASE ~plan.cached
      <4>1. w = Answered(IdleWrite, tree.version + 1)
        BY <3>2 DEF Answered
      <4>2. IsWrite(IdleWrite) /\ IdleWrite.cached = FALSE
        BY DEF IsWrite, IdleWrite
      <4> HIDE DEF w
      <4>3. w.pc = "answer" /\ w.cached = FALSE
        BY <4>1, <4>2, AnsweredFields
      <4> QED
        BY <4>3 DEF WriteFits
    <3> QED
      BY <3>1, <3>2
  <2> HIDE DEF w
  <2>7. /\ \A q \in Writes : WriteFits(write[q], k, later)
        /\ treeCache # Nothing => AsAt(treeCache, k, later)
        /\ reading # Nothing => AsAt(reading.state, k, later)
    BY <1>1, <2>4 DEF Fits
  <2> QED
    BY <1>2, <2>1, <2>2, <2>4, <2>6, <2>7, OneWriteFits
<1>5. CASE ~StillPlanned(plan)
  <2>1. /\ write' = [write EXCEPT ![r] = IdleWrite] /\ UNCHANGED tree
        /\ treeCache' = treeCache \/ treeCache' = Nothing
    BY <1>5 DEF CommitWrite
  <2> QED
    BY <1>1, <1>2, <2>1, IdleWriteFits, OneWriteFits DEF Fits
<1> QED
  BY <1>4, <1>5

\* An answer that is not overtaken caches the rows of the version it made.
LEMMA AnswerFits ==
  ASSUME CacheInv, NEW h, Fits(h), NEW w, WriteFits(w, h, tree), w.pc = "answer", w.cached,
         CacheAfter(w) # Nothing
  PROVE  AsAt(CacheAfter(w), h, tree)
<1>1. w.version = w.state.version + 1
  BY DEF CacheAfter
<1>2. w.version \in 0..tree.version /\ w.after = h[w.version]
  BY <1>1 DEF WriteFits
<1> DEFINE remembered == {t \in Tasks : /\ w.after[t].status = "archived"
                                        /\ \/ t \in w.state.known
                                           \/ w.state.rows[t].status = "active"}
<1>3. CacheAfter(w) = [version |-> w.version, rows |-> w.after, known |-> remembered]
  BY <1>1 DEF CacheAfter
<1>4. remembered \subseteq Archived(w.after)
  BY DEF Archived
<1> HIDE DEF remembered
<1>5. CacheAfter(w).version = w.version /\ CacheAfter(w).rows = w.after /\ CacheAfter(w).known = remembered
  BY <1>3
<1> QED
  BY <1>2, <1>4, <1>5 DEF AsAt

LEMMA AnswersFit ==
  ASSUME ForestInv, CacheInv', NEW r \in Writes, AnswerWrite(r) \/ LoseAnswer(r)
  PROVE  ForestInv'
<1>1. PICK h : Fits(h)
  BY DEF ForestInv
<1>2. write' = [write EXCEPT ![r] = IdleWrite] /\ UNCHANGED <<tree, reading>>
  BY DEF AnswerWrite, LoseAnswer
<1>3. WriteFits(write[r], h, tree) /\ CacheInv
  BY <1>1 DEF Fits, ForestInv
<1>4. treeCache' # Nothing => AsAt(treeCache', h, tree)
  <2>1. CASE LoseAnswer(r)
    BY <1>1, <2>1 DEF LoseAnswer, Fits
  <2>2. CASE AnswerWrite(r) /\ write[r].cached
    <3>1. treeCache' = CacheAfter(write[r]) /\ write[r].pc = "answer"
      BY <2>2 DEF AnswerWrite
    <3> QED
      BY <1>1, <1>3, <2>2, <3>1, AnswerFits
  <2>3. CASE AnswerWrite(r) /\ ~write[r].cached
    <3>1. treeCache' = treeCache \/ treeCache' = Nothing
      BY <2>3 DEF AnswerWrite
    <3> QED
      BY <1>1, <3>1 DEF Fits
  <2> QED
    BY <2>1, <2>2, <2>3
<1> QED
  BY <1>1, <1>2, <1>4, IdleWriteFits, OneWriteFits DEF Fits

LEMMA ReadsFit ==
  ASSUME ForestInv, CacheInv', ReadTree \/ ReadArchive \/ StoreRead \/ ForgetTree
  PROVE  ForestInv'
<1>1. PICK h : Fits(h)
  BY DEF ForestInv
<1>2. UNCHANGED <<tree, write>> /\ CacheInv
  BY DEF ReadTree, ReadArchive, StoreRead, ForgetTree, ForestInv
<1>3. /\ treeCache' # Nothing => AsAt(treeCache', h, tree)
      /\ reading' # Nothing => AsAt(reading'.state, h, tree)
  <2>1. CASE ReadTree
    <3>1. reading' = [kind |-> "tree", state |-> Load({})] /\ UNCHANGED treeCache
      BY <2>1 DEF ReadTree
    <3>2. reading'.state = Load({})
      BY <3>1
    <3> QED
      BY <1>1, <1>2, <3>1, <3>2, LoadFits DEF Fits
  <2>2. CASE ReadArchive
    <3> DEFINE roots == {t \in Archived(tree.rows) : tree.rows[t].group = t}
    <3>1. PICK shown \in SUBSET (Archived(tree.rows) \ roots) :
            reading' = [kind |-> "archive", state |-> [version |-> tree.version, rows |-> tree.rows,
                                                       known |-> roots \union shown]]
      BY <2>2 DEF ReadArchive
    <3> DEFINE remembered == roots \union shown
               s == [version |-> tree.version, rows |-> tree.rows, known |-> remembered]
    <3>2. remembered \subseteq Archived(tree.rows)
      OBVIOUS
    <3> HIDE DEF remembered
    <3>3. s.version = tree.version /\ s.rows = tree.rows /\ s.known = remembered
      OBVIOUS
    <3>4. reading'.state = s
      BY <3>1 DEF remembered
    <3> HIDE DEF s
    <3>5. tree.version \in 0..tree.version /\ h[tree.version] = tree.rows
      BY <1>1, <1>2 DEF CacheInv, Fits, Past
    <3>6. AsAt(s, h, tree)
      BY <3>2, <3>3, <3>5 DEF AsAt
    <3> QED
      BY <1>1, <2>2, <3>4, <3>6 DEF Fits, ReadArchive
  <2>3. CASE ForgetTree
    BY <1>1, <2>3 DEF ForgetTree, Fits
  <2>4. CASE StoreRead
    <3> DEFINE read == reading.state
               rows == [t \in Tasks |-> IF t \in read.known THEN read.rows[t]
                                        ELSE treeCache.rows[t]]
               remembered == treeCache.known \cup read.known
    <3>1. reading # Nothing /\ reading' = Nothing /\ AsAt(read, h, tree)
      BY <1>1, <2>4 DEF StoreRead, Fits
    <3>2. \/ treeCache' = read \/ treeCache' = Nothing
          \/ /\ treeCache # Nothing /\ treeCache.version = read.version
             /\ treeCache' = [treeCache EXCEPT !.known = remembered, !.rows = rows]
      BY <2>4 DEF StoreRead
    <3>3. ASSUME treeCache # Nothing, treeCache.version = read.version
          PROVE  AsAt([treeCache EXCEPT !.known = remembered, !.rows = rows], h, tree)
      <4>1. IsState(treeCache) /\ AsAt(treeCache, h, tree)
        BY <1>1, <1>2, <3>3 DEF CacheInv, Exact, Fits
      <4>2. treeCache.rows = read.rows /\ RowsOK(read.rows)
        BY <1>1, <1>2, <3>1, <3>3, <4>1, StateFits DEF AsAt
      <4>3. rows = read.rows
        <5>1. rows = [t \in Tasks |-> read.rows[t]]
          BY <4>2
        <5>2. read.rows = [t \in Tasks |-> read.rows[t]]
          BY <4>2 DEF RowsOK
        <5> QED
          BY <5>1, <5>2
      <4>4. remembered \subseteq Archived(read.rows)
        BY <3>1, <4>1, <4>2 DEF AsAt
      <4> DEFINE s == [treeCache EXCEPT !.known = remembered, !.rows = rows]
                 c == [version |-> treeCache.version, rows |-> treeCache.rows,
                       known |-> treeCache.known]
      <4> HIDE DEF rows, remembered
      <4>5. treeCache = c
        BY <4>1 DEF IsState
      <4>6. s = [c EXCEPT !.known = remembered, !.rows = rows]
        BY <4>5
      <4> HIDE DEF s
      <4>7. s = [version |-> treeCache.version, rows |-> rows, known |-> remembered]
        BY <4>6
      <4>8. s.version = treeCache.version /\ s.rows = rows /\ s.known = remembered
        BY <4>7
      <4>9. AsAt(s, h, tree)
        BY <3>1, <3>3, <4>3, <4>4, <4>8 DEF AsAt
      <4> QED
        BY <4>9 DEF s
    <3> QED
      BY <3>1, <3>2, <3>3
  <2> QED
    BY <2>1, <2>2, <2>3, <2>4
<1>4. Fits(h)'
  BY <1>1, <1>2, <1>3 DEF Fits
<1> QED
  BY <1>4 DEF ForestInv

LEMMA ForestStarts == TreeInit => ForestInv
<1> SUFFICES ASSUME TreeInit
             PROVE  ForestInv
  OBVIOUS
<1> DEFINE rows == [t \in Tasks |-> Absent]
           h == [n \in 0..0 |-> rows]
           d == [t \in Tasks |-> 0]
<1>1. CacheInv
  BY CacheStarts
<1>2. tree = [version |-> 0, rows |-> rows] /\ tree.version = 0 /\ tree.rows = rows
  BY DEF TreeInit
<1>3. Absent \in Row /\ Absent.status = "absent" /\ Absent.version = 0
  BY DEF Absent, Row
<1>4. RowsOK(rows) /\ Active(rows) = {}
  BY <1>3 DEF RowsOK, Active
<1>5. d \in [Tasks -> 0..(MaxDepth - 1)]
  BY TreeBounds
<1>6. Ranked(rows, d, MaxDepth - 1)
  BY <1>4, <1>5 DEF Ranked
<1>7. ForestOK(rows)
  BY <1>4, <1>6 DEF ForestOK
<1>8. Older(rows, rows)
  BY <1>3 DEF Older
<1>9. h[0] = rows /\ \A n \in 0..0 : h[n] = rows
  OBVIOUS
<1> HIDE DEF rows, h
<1>10. Past(h, tree)
  BY <1>2, <1>4, <1>7, <1>8, <1>9 DEF Past
<1>11. \A r \in Writes : WriteFits(write[r], h, tree)
  BY IdleWriteFits DEF TreeInit
<1>12. Fits(h)
  BY <1>10, <1>11 DEF Fits, TreeInit
<1> QED
  BY <1>1, <1>12 DEF ForestInv

LEMMA ForestStepsKeep == ForestInv /\ [TreeNext]_treeVars => ForestInv'
<1> SUFFICES ASSUME ForestInv, [TreeNext]_treeVars
             PROVE  ForestInv'
  OBVIOUS
<1>1. CacheInv'
  BY CacheStepsKeep DEF ForestInv
<1>2. CASE TreeNext
  BY <1>1, <1>2, BeginFits, CommitFits, AnswersFit, ReadsFit DEF TreeNext
<1>3. CASE UNCHANGED treeVars
  <2>1. PICK h : Fits(h)
    BY DEF ForestInv
  <2>2. Fits(h)'
    BY <1>3, <2>1 DEF treeVars, Fits
  <2> QED
    BY <1>1, <2>2 DEF ForestInv
<1> QED
  BY <1>2, <1>3

\* Rows that plans write are ranked as a forest, whichever earlier state the
\* plan was made from: the batch's version guards (writes.ts) let only what
\* fits the present rows through.
THEOREM ForestInvAlways == TreeSpec => []ForestInv
<1>1. TreeInit => ForestInv
  BY ForestStarts
<1>2. ForestInv /\ [TreeNext]_treeVars => ForestInv'
  BY ForestStepsKeep
<1> QED
  BY <1>1, <1>2, PTL DEF TreeSpec

\* The checks that a move, a create and a restore make on the state they were
\* planned from (plans.ts checkDepth, the cycle check of move, the parent a
\* restore falls back to) hold of the rows they end up in, under any writers
\* and cached states: no task is above itself, none lies deeper than the
\* limit, and a subtask is active where its parent is.
THEOREM TasksStayAForest == TreeSpec => []ForestStaysSound
<1>1. ASSUME ForestInv
      PROVE  ForestStaysSound
  <2>1. PICK h : Fits(h)
    BY <1>1 DEF ForestInv
  <2>2. /\ tree.version \in Nat /\ RowsOK(tree.rows) /\ ForestOK(tree.rows)
    BY <1>1, <2>1 DEF ForestInv, CacheInv, Fits, Past
  <2>3. TreeTypeOK
    <3>1. tree.rows \in [Tasks -> Row]
      BY <2>2 DEF RowsOK
    <3>2. \A r \in Writes : write[r].pc \in {"idle", "batch", "answer"}
      BY <2>1 DEF Fits, WriteFits
    <3>3. treeCache = Nothing \/ treeCache.known \subseteq Archived(treeCache.rows)
      BY <2>1 DEF Fits, AsAt
    <3> QED
      BY <2>2, <3>1, <3>2, <3>3 DEF TreeTypeOK, Row
  <2>4. PICK d : Ranked(tree.rows, d, MaxDepth - 1)
    BY <2>2 DEF ForestOK
  <2>5. /\ Ranked(tree.rows, d, MaxDepth) /\ d \in [Tasks -> 0..(MaxDepth - 1)]
        /\ \A t \in Active(tree.rows) : t \in Tasks /\ Depth(tree.rows, t) = d[t]
    BY <2>4, RanksFit DEF Active
  <2>6. ASSUME NEW t \in Active(tree.rows)
        PROVE  /\ t \notin UNION {Ancestors(tree.rows, u) : u \in Ancestors(tree.rows, t)}
               /\ Depth(tree.rows, t) <= MaxDepth - 1
               /\ tree.rows[t].parent # TopLevel =>
                    /\ tree.rows[t].parent \in Active(tree.rows) \ {t}
                    /\ tree.rows[tree.rows[t].parent].collection = tree.rows[t].collection
    <3>1. d[t] \in 0..(MaxDepth - 1) /\ Depth(tree.rows, t) = d[t] /\ \A u \in Active(tree.rows) : d[u] \in Int
      BY <2>5
    <3>2. ASSUME NEW u \in Ancestors(tree.rows, t)
          PROVE  t \notin Ancestors(tree.rows, u)
      <4>1. u \in Active(tree.rows) /\ d[u] < d[t]
        BY <2>5, RankIsDepth
      <4>2. t \in Ancestors(tree.rows, u) => d[t] < d[u]
        BY <2>5, <4>1, RankIsDepth
      <4> QED
        BY <3>1, <4>1, <4>2
    <3>3. ASSUME tree.rows[t].parent # TopLevel
          PROVE  /\ tree.rows[t].parent \in Active(tree.rows) \ {t}
                 /\ tree.rows[tree.rows[t].parent].collection = tree.rows[t].collection
      <4>1. tree.rows[t].parent \in Active(tree.rows) /\ d[t] = d[tree.rows[t].parent] + 1
        BY <2>4, <3>3 DEF Ranked
      <4>2. tree.rows[t].parent # t
        BY <3>1, <4>1
      <4> QED
        BY <2>2, <3>3, <4>1, <4>2 DEF ForestOK
    <3>4. Depth(tree.rows, t) <= MaxDepth - 1
      BY <3>1, TreeBounds
    <3> QED
      BY <3>2, <3>3, <3>4
  <2> QED
    BY <2>3, <2>6 DEF ForestStaysSound
<1> QED
  BY <1>1, ForestInvAlways, PTL

-----------------------------------------------------------------------------
(* Groups: what a plan must keep, and the plans that leave the archive alone. *)

\* The archived tasks with the group of one of them, and their ranks below its root.
InGroup(rows, g) == {m \in Archived(rows) : rows[m].group = g}
Below(rows, e) ==
  /\ e \in [Tasks -> 0..MaxDepth]
  /\ \A t \in Archived(rows) : t # rows[t].group =>
       rows[t].parent \in InGroup(rows, rows[t].group) /\ e[t] = e[rows[t].parent] + 1

\* A group is a root and what hangs below it.
GroupsOK(rows) ==
  /\ \A t \in Archived(rows) :
       /\ rows[t].group \in Archived(rows) /\ rows[rows[t].group].group = rows[t].group
       /\ t = rows[t].group => rows[t].parent \notin InGroup(rows, t)
  /\ \E e : Below(rows, e)

\* Who knows a member of a group knows all of them.
Closed(remembered, rows) ==
  \A t \in remembered : t \in Archived(rows) /\ InGroup(rows, rows[t].group) \subseteq remembered

\* The archived rows that the plan of a write leaves known.
Remembered(state, after) ==
  {t \in Tasks : after[t].status = "archived" /\ (t \in state.known \/ state.rows[t].status = "active")}

LEMMA SameArchive ==
  ASSUME NEW rows, NEW after, GroupsOK(rows), Archived(after) = Archived(rows),
         \A t \in Archived(rows) : after[t].group = rows[t].group /\ after[t].parent = rows[t].parent
  PROVE  /\ GroupsOK(after)
         /\ \A s : Closed(s, rows) => Closed(s, after)
<1>1. \A g : InGroup(after, g) = InGroup(rows, g)
  BY DEF InGroup
<1>2. \A e : Below(rows, e) => Below(after, e)
  BY <1>1 DEF Below
<1>3. GroupsOK(after)
  BY <1>1, <1>2 DEF GroupsOK
<1>4. ASSUME NEW s, Closed(s, rows)
      PROVE  Closed(s, after)
  BY <1>1, <1>4 DEF Closed
<1> QED
  BY <1>3, <1>4

\* An operation on active tasks leaves the archive alone.
LEMMA ArchiveAlone ==
  ASSUME NEW state, NEW after, GroupsOK(state.rows), Closed(state.known, state.rows),
         \A t \in Tasks : \/ after[t] = state.rows[t]
                          \/ state.rows[t].status # "archived" /\ after[t].status = "active"
  PROVE  GroupsOK(after) /\ Closed(Remembered(state, after), after)
<1>1. Archived(after) = Archived(state.rows)
  BY DEF Archived
<1>2. \A t \in Archived(state.rows) : after[t] = state.rows[t] /\ t \in Tasks
  BY DEF Archived
<1>3. GroupsOK(after) /\ Closed(state.known, after)
  BY <1>1, <1>2, SameArchive
<1>4. Remembered(state, after) = state.known
  BY <1>1, <1>2 DEF Remembered, Archived, Closed
<1> QED
  BY <1>3, <1>4

LEMMA CreateKeepsGroups ==
  ASSUME NEW state, RowsOK(state.rows), GroupsOK(state.rows), Closed(state.known, state.rows),
         NEW t \in Tasks, NEW parent, NEW c, NEW after,
         after = PlanCreate(state, t, parent, c), after # Nothing
  PROVE  GroupsOK(after) /\ Closed(Remembered(state, after), after)
<1> DEFINE new == [parent |-> parent, status |-> "active", group |-> NoGroup, version |-> 1,
                   collection |-> IF parent = TopLevel THEN c ELSE state.rows[parent].collection]
<1>1. state.rows[t].status = "absent" /\ after = [state.rows EXCEPT ![t] = new]
  BY DEF PlanCreate
<1>2. new.status = "active"
  OBVIOUS
<1> HIDE DEF new
<1>3. state.rows \in [Tasks -> Row]
  BY DEF RowsOK
<1>4. \A u \in Tasks : after[u] = IF u = t THEN new ELSE state.rows[u]
  BY <1>1, <1>3
<1>5. \A u \in Tasks : \/ after[u] = state.rows[u]
                       \/ state.rows[u].status # "archived" /\ after[u].status = "active"
  BY <1>1, <1>2, <1>4
<1> QED
  BY <1>5, ArchiveAlone

LEMMA RenameKeepsGroups ==
  ASSUME NEW state, RowsOK(state.rows), GroupsOK(state.rows), Closed(state.known, state.rows),
         NEW t \in Active(state.rows), NEW after, after = [state.rows EXCEPT ![t] = Bump(@)]
  PROVE  GroupsOK(after) /\ Closed(Remembered(state, after), after)
<1>1. state.rows \in [Tasks -> Row] /\ t \in Tasks /\ state.rows[t].status = "active"
  BY DEF RowsOK, Active
<1>2. Bump(state.rows[t]).status = "active"
  BY <1>1, BumpFields
<1>3. \A u \in Tasks : after[u] = IF u = t THEN Bump(state.rows[u]) ELSE state.rows[u]
  BY <1>1
<1>4. \A u \in Tasks : \/ after[u] = state.rows[u]
                       \/ state.rows[u].status # "archived" /\ after[u].status = "active"
  BY <1>1, <1>2, <1>3
<1> QED
  BY <1>4, ArchiveAlone

LEMMA MoveKeepsGroups ==
  ASSUME NEW state, RowsOK(state.rows), GroupsOK(state.rows), Closed(state.known, state.rows),
         NEW t \in Tasks, NEW parent, NEW c, NEW after,
         after = PlanMove(state, t, parent, c), after # Nothing
  PROVE  GroupsOK(after) /\ Closed(Remembered(state, after), after)
<1> DEFINE rows == state.rows
           D == Descendants(rows, t)
           target == IF parent = TopLevel THEN c ELSE rows[parent].collection
<1>1. /\ t \in Active(rows)
      /\ after = [u \in Tasks |->
            IF u = t THEN [Bump(rows[u]) EXCEPT !.parent = parent, !.collection = target]
            ELSE IF u \in D /\ target # rows[t].collection
                 THEN [Bump(rows[u]) EXCEPT !.collection = target] ELSE rows[u]]
  BY DEF PlanMove
<1>2. rows \in [Tasks -> Row] /\ D \subseteq Active(rows) /\ \A u \in Active(rows) : rows[u].status = "active"
  BY DEF RowsOK, Active, Descendants
<1> HIDE DEF rows, D, target
<1>3. ASSUME NEW u \in Tasks
      PROVE  after[u] = rows[u] \/ (rows[u].status # "archived" /\ after[u].status = "active")
  <2>1. rows[u] \in Row /\ (u = t \/ u \in D => rows[u].status = "active")
    BY <1>1, <1>2
  <2>2. CASE u = t
    <3>1. after[u] = [Bump(rows[u]) EXCEPT !.parent = parent, !.collection = target]
      BY <1>1, <2>2
    <3>2. after[u] = Changed(rows[u], rows[u].status, rows[u].group, parent, target)
      BY <2>1, <3>1, MovedRow
    <3>3. after[u].status = "active"
      BY <2>1, <2>2, <3>2, ChangedFields
    <3> QED
      BY <2>1, <2>2, <3>3
  <2>3. CASE u # t /\ u \in D /\ target # rows[t].collection
    <3>1. after[u] = [Bump(rows[u]) EXCEPT !.collection = target]
      BY <1>1, <2>3
    <3>2. after[u] = Changed(rows[u], rows[u].status, rows[u].group, rows[u].parent, target)
      BY <2>1, <3>1, FollowingRow
    <3>3. after[u].status = "active"
      BY <2>1, <2>3, <3>2, ChangedFields
    <3> QED
      BY <2>1, <2>3, <3>3
  <2>4. CASE u # t /\ ~(u \in D /\ target # rows[t].collection)
    BY <1>1, <2>4
  <2> QED
    BY <2>2, <2>3, <2>4
<1>4. /\ GroupsOK(rows)
      /\ \A u \in Tasks : after[u] = rows[u] \/ (rows[u].status # "archived" /\ after[u].status = "active")
  BY <1>3 DEF rows
<1> QED
  BY <1>4, ArchiveAlone DEF rows

-----------------------------------------------------------------------------
(* Groups: archiving. *)

LEMMA CompleteKeepsGroups ==
  ASSUME NEW state, RowsOK(state.rows), ForestOK(state.rows), GroupsOK(state.rows),
         Closed(state.known, state.rows), NEW t \in Tasks, NEW mode \in {"all", "parent_only"},
         NEW after, after = PlanComplete(state, t, mode), after # Nothing
  PROVE  GroupsOK(after) /\ Closed(Remembered(state, after), after)
<1> DEFINE rows == state.rows
           D == Descendants(rows, t)
           gone == IF mode = "all" THEN {t} \union D ELSE {t}
           promoted == {c \in Active(rows) \ gone : ParentOf(rows, c) = t}
<1>1. /\ t \in Active(rows)
      /\ after = [u \in Tasks |->
            IF u \in gone THEN [Bump(rows[u]) EXCEPT !.status = "archived", !.group = t]
            ELSE IF u \in promoted THEN [Bump(rows[u]) EXCEPT !.parent = TopLevel] ELSE rows[u]]
  BY DEF PlanComplete
<1>2. /\ rows \in [Tasks -> Row] /\ D \subseteq Active(rows) /\ t \notin D
      /\ Active(rows) \subseteq Tasks /\ Archived(rows) \subseteq Tasks
      /\ Active(rows) \cap Archived(rows) = {} /\ TopLevel \notin Tasks /\ MaxDepth \in Nat \ {0}
      /\ \A u \in Active(rows) : rows[u].status = "active"
  BY TreeBounds DEF RowsOK, Active, Archived, Descendants
<1>3. PICK d : Ranked(rows, d, MaxDepth - 1)
  BY DEF ForestOK
<1>4. Ranked(rows, d, MaxDepth) /\ d \in [Tasks -> 0..(MaxDepth - 1)]
  BY <1>3, RanksFit
<1>5. ASSUME NEW u \in Active(rows)
      PROVE  /\ u \in D => rows[u].parent \in {t} \cup D /\ d[t] < d[u] /\ d[u] = d[rows[u].parent] + 1
             /\ u = t => rows[u].parent \notin {t} \cup D
  <2>1. t \in Active(rows)
    BY <1>1
  <2>0. \A x \in Active(rows) : x \in D => d[t] < d[x]
    <3> HIDE DEF rows
    <3>1. \A x \in Active(rows) : x \in Descendants(rows, t) => d[t] < d[x]
      BY <1>4, <2>1, SubtreeSteps
    <3> QED
      BY <3>1
  <2> HIDE DEF rows
  <2>2. u \in D <=> ParentOf(rows, u) \in {t} \cup D
    BY <1>4, <2>1, SubtreeSteps
  <2>3. \/ ParentOf(rows, u) = TopLevel /\ d[u] = 0 /\ rows[u].parent = TopLevel
        \/ /\ ParentOf(rows, u) = rows[u].parent /\ ParentOf(rows, u) \in Active(rows)
           /\ d[u] = d[ParentOf(rows, u)] + 1
    BY <1>4, RankedParent
  <2> HIDE DEF D
  <2>4. u \in D => rows[u].parent \in {t} \cup D /\ d[t] < d[u] /\ d[u] = d[rows[u].parent] + 1
    BY <1>2, <2>0, <2>1, <2>2, <2>3
  <2>5. u = t => rows[u].parent \notin {t} \cup D
    BY <1>2, <2>1, <2>2, <2>3
  <2> QED
    BY <2>4, <2>5
<1>6. t \in Active(rows)
  BY <1>1
<1> HIDE DEF rows, D
<1>7. /\ gone \subseteq Active(rows) /\ t \in gone /\ gone \subseteq {t} \cup D
      /\ \A u \in gone \ {t} : gone = {t} \cup D
      /\ promoted \subseteq Active(rows) \ gone
  BY <1>2, <1>6
<1> DEFINE goneNow == gone
           promotedNow == promoted
<1>8. /\ \A u \in goneNow : /\ after[u].status = "archived" /\ after[u].group = t
                            /\ after[u].parent = rows[u].parent
      /\ \A u \in promotedNow : after[u].status = "active"
      /\ \A u \in Tasks \ (goneNow \cup promotedNow) : after[u] = rows[u]
  <2>1. /\ gone \subseteq Tasks /\ promoted \subseteq Tasks /\ promoted \cap gone = {}
        /\ \A u \in promoted : rows[u].status = "active"
        /\ \A u \in Tasks : rows[u] \in Row
    BY <1>2, <1>7
  <2> HIDE DEF gone, promoted
  <2>2. \A u \in gone : after[u] = [Bump(rows[u]) EXCEPT !.status = "archived", !.group = t]
    BY <1>1, <2>1
  <2>3. \A u \in promoted : after[u] = [Bump(rows[u]) EXCEPT !.parent = TopLevel]
    BY <1>1, <2>1
  <2>4. \A u \in Tasks \ (gone \cup promoted) : after[u] = rows[u]
    BY <1>1
  <2>5. \A u \in gone : after[u] = Changed(rows[u], "archived", t, rows[u].parent, rows[u].collection)
    BY <2>1, <2>2, EndedRow
  <2>6. \A u \in promoted : after[u] = Changed(rows[u], "active", rows[u].group, TopLevel, rows[u].collection)
    BY <2>1, <2>3, PromotedRow
  <2>7. \A u \in gone : after[u].status = "archived" /\ after[u].group = t /\ after[u].parent = rows[u].parent
    BY <2>1, <2>5, ChangedFields
  <2>8. \A u \in promoted : after[u].status = "active"
    BY <2>1, <2>6, ChangedFields
  <2> QED
    BY <2>4, <2>7, <2>8
<1>9. /\ goneNow \subseteq Active(rows) /\ t \in goneNow /\ goneNow \subseteq {t} \cup D
      /\ \A u \in goneNow \ {t} : goneNow = {t} \cup D
      /\ promotedNow \subseteq Active(rows) \ goneNow
  BY <1>7
<1> HIDE DEF goneNow, promotedNow, gone, promoted
<1>10. Archived(after) = Archived(rows) \cup goneNow /\ \A u \in Archived(rows) : after[u] = rows[u]
  <2>1. \A u \in Archived(rows) : after[u] = rows[u] /\ rows[u].status = "archived"
    BY <1>2, <1>8, <1>9 DEF Archived
  <2>2. ASSUME NEW u \in Tasks, after[u].status = "archived"
        PROVE  u \in Archived(rows) \cup goneNow
    <3>1. u \notin promotedNow
      BY <1>8, <2>2
    <3> QED
      BY <1>8, <2>2, <3>1 DEF Archived
  <2> QED
    BY <1>2, <1>8, <1>9, <2>1, <2>2 DEF Archived
<1>11. \A u \in Archived(rows) : rows[u].group \in Archived(rows) /\ rows[u].group # t
  BY <1>2, <1>6 DEF GroupsOK, rows
<1>12. /\ InGroup(after, t) = goneNow
       /\ \A g : g # t => InGroup(after, g) = InGroup(rows, g)
  BY <1>8, <1>9, <1>10, <1>11 DEF InGroup
<1>13. PICK e : Below(rows, e)
  BY DEF GroupsOK, rows
<1> DEFINE q == [u \in Tasks |-> IF u \in goneNow THEN d[u] - d[t] ELSE e[u]]
<1>14. \A u \in goneNow : d[u] - d[t] \in 0..MaxDepth
  <2>1. ASSUME NEW u \in goneNow
        PROVE  d[u] - d[t] \in 0..MaxDepth
    <3>1. d[u] \in 0..(MaxDepth - 1) /\ d[t] \in 0..(MaxDepth - 1)
      BY <1>2, <1>4, <1>6, <1>9
    <3>2. u = t \/ d[t] < d[u]
      BY <1>5, <1>9
    <3> QED
      BY <1>2, <3>1, <3>2
  <2> QED
    BY <2>1
<1>15. q \in [Tasks -> 0..MaxDepth] /\ \A u \in Tasks : q[u] = IF u \in goneNow THEN d[u] - d[t] ELSE e[u]
  BY <1>13, <1>14 DEF Below
<1> HIDE DEF q
<1>16. Below(after, q)
  <2>1. ASSUME NEW u \in Archived(after), u # after[u].group
        PROVE  after[u].parent \in InGroup(after, after[u].group) /\ q[u] = q[after[u].parent] + 1
    <3>1. CASE u \in goneNow
      <4>1. u # t /\ after[u].parent = rows[u].parent /\ after[u].group = t /\ u \in D /\ u \in Active(rows)
        BY <1>8, <1>9, <2>1, <3>1
      <4>2. rows[u].parent \in {t} \cup D /\ d[u] = d[rows[u].parent] + 1
        BY <1>5, <4>1
      <4>3. rows[u].parent \in goneNow
        BY <1>9, <3>1, <4>1, <4>2
      <4>4. q[u] = d[u] - d[t] /\ q[rows[u].parent] = d[rows[u].parent] - d[t]
        BY <1>2, <1>9, <1>15, <3>1, <4>3
      <4>5. d[t] \in Int /\ d[rows[u].parent] \in Int
        BY <1>2, <1>4, <1>6, <1>9, <4>3
      <4> QED
        BY <1>12, <4>1, <4>2, <4>3, <4>4, <4>5
    <3>2. CASE u \notin goneNow
      <4>1. u \in Archived(rows) /\ after[u] = rows[u] /\ after[u].group # t
        BY <1>10, <1>11, <3>2
      <4>2. rows[u].parent \in InGroup(rows, rows[u].group) /\ e[u] = e[rows[u].parent] + 1
        BY <1>13, <2>1, <4>1 DEF Below
      <4>3. rows[u].parent \in Archived(rows)
        BY <4>2 DEF InGroup
      <4>4. q[u] = e[u] /\ q[rows[u].parent] = e[rows[u].parent]
        BY <1>2, <1>9, <1>15, <3>2, <4>1, <4>3
      <4> QED
        BY <1>12, <4>1, <4>2, <4>4
    <3> QED
      BY <3>1, <3>2
  <2> QED
    BY <1>15, <2>1 DEF Below
<1>17. GroupsOK(after)
  <2>1. ASSUME NEW u \in Archived(after)
        PROVE  /\ after[u].group \in Archived(after) /\ after[after[u].group].group = after[u].group
               /\ u = after[u].group => after[u].parent \notin InGroup(after, u)
    <3>1. CASE u \in goneNow
      <4>1. after[u].group = t /\ after[t].group = t /\ t \in Archived(after)
        BY <1>8, <1>9, <1>10, <3>1
      <4>2. u = t => after[u].parent = rows[t].parent /\ rows[t].parent \notin {t} \cup D
        BY <1>5, <1>6, <1>8, <1>9
      <4> QED
        BY <1>9, <1>12, <4>1, <4>2
    <3>2. CASE u \notin goneNow
      <4>1. /\ u \in Archived(rows) /\ after[u] = rows[u] /\ rows[u].group # t
            /\ rows[u].group \in Archived(rows) /\ after[rows[u].group] = rows[rows[u].group]
        BY <1>10, <1>11, <3>2
      <4>2. /\ rows[rows[u].group].group = rows[u].group
            /\ u = rows[u].group => rows[u].parent \notin InGroup(rows, u)
        BY <4>1 DEF GroupsOK, rows
      <4> QED
        BY <1>10, <1>12, <4>1, <4>2
    <3> QED
      BY <3>1, <3>2
  <2> QED
    BY <1>16, <2>1 DEF GroupsOK
<1>18. Closed(Remembered(state, after), after)
  <2> DEFINE R == Remembered(state, after)
  <2>1. \A u \in Tasks : u \in R <=> u \in Archived(after) /\ (u \in state.known \/ u \in Active(rows))
    BY DEF Remembered, Archived, Active, rows
  <2>2. \A u \in state.known : u \in Archived(rows) /\ InGroup(rows, rows[u].group) \subseteq state.known
    BY DEF Closed, rows
  <2>3. R \subseteq Tasks
    BY DEF Remembered
  <2> HIDE DEF R
  <2>4. ASSUME NEW u \in R
        PROVE  u \in Archived(after) /\ InGroup(after, after[u].group) \subseteq R
    <3>1. u \in Archived(after) /\ (u \in state.known \/ u \in Active(rows))
      BY <2>1, <2>3
    <3>2. CASE u \in goneNow
      <4>1. InGroup(after, after[u].group) = goneNow
        BY <1>8, <1>12, <3>2
      <4>2. goneNow \subseteq R
        BY <1>2, <1>9, <1>10, <2>1
      <4> QED
        BY <3>1, <4>1, <4>2
    <3>3. CASE u \notin goneNow
      <4>1. u \in Archived(rows) /\ after[u] = rows[u] /\ rows[u].group # t /\ u \in state.known
        BY <1>2, <1>10, <1>11, <3>1, <3>3
      <4>2. InGroup(after, after[u].group) = InGroup(rows, rows[u].group)
        BY <1>12, <4>1
      <4>3. InGroup(rows, rows[u].group) \subseteq state.known /\ InGroup(rows, rows[u].group) \subseteq Archived(rows)
        BY <2>2, <4>1 DEF InGroup
      <4> QED
        BY <1>2, <1>10, <2>1, <3>1, <4>2, <4>3
    <3> QED
      BY <3>2, <3>3
  <2> QED
    BY <2>4 DEF R, Closed
<1> QED
  BY <1>17, <1>18

-----------------------------------------------------------------------------
(* Groups: restoring. *)

\* A restore brings back a task and all that hangs below it in its group.
LEMMA RestoreReaches ==
  ASSUME NEW state, GroupsOK(state.rows), Closed(state.known, state.rows), NEW t \in state.known,
         NEW back, back = RestoredWith(state, t), NEW g, g = state.rows[t].group
  PROVE  /\ t \in back /\ back \subseteq InGroup(state.rows, g)
         /\ \A v \in InGroup(state.rows, g) : v # g /\ state.rows[v].parent \in back => v \in back
         /\ g \in back => back = InGroup(state.rows, g)
<1> DEFINE rows == state.rows
           U(n) == Reach(state, t)[n]
           M == InGroup(rows, g)
<1>0. /\ MaxDepth \in Nat /\ M \subseteq Tasks /\ t \in M /\ t \in Tasks /\ state.known \subseteq Tasks
      /\ \A v \in M : rows[v].group = g /\ v \in Archived(rows)
  BY TreeBounds DEF Closed, InGroup, Archived
<1>1. Members(state, t) = M
  BY DEF Members, InGroup, Closed
<1>2. /\ U(0) = {t}
      /\ \A n \in 1..MaxDepth : U(n) = U(n - 1) \union {m \in M : rows[m].parent \in U(n - 1)}
  BY <1>0, <1>1, ReachSteps
<1>3. back = U(MaxDepth)
  BY RestoredAreReached
<1>4. PICK e : Below(rows, e)
  BY DEF GroupsOK
<1>5. /\ \A v \in M : v # g => rows[v].parent \in M /\ e[v] = e[rows[v].parent] + 1
      /\ g \in M => rows[g].parent \notin M
      /\ \A v \in M : e[v] \in 0..MaxDepth
  BY <1>0, <1>4 DEF Below, GroupsOK
<1> HIDE DEF U, M, rows
<1>6. ASSUME NEW n \in Nat, n + 1 <= MaxDepth
      PROVE  U(n + 1) = U(n) \union {m \in M : rows[m].parent \in U(n)}
  <2>1. n + 1 \in 1..MaxDepth /\ (n + 1) - 1 = n
    BY <1>0, <1>6
  <2> QED
    BY <1>2, <2>1
<1>7. ASSUME NEW n \in Nat, n <= MaxDepth
      PROVE  U(n) \subseteq back
  <2> DEFINE S == {j \in Nat : j <= MaxDepth => U(MaxDepth - j) \subseteq back}
  <2>1. 0 \in S
    BY <1>0, <1>3
  <2>2. ASSUME NEW j \in S \cap Nat
        PROVE  j + 1 \in S
    <3>1. ASSUME j + 1 <= MaxDepth
          PROVE  U(MaxDepth - (j + 1)) \subseteq back
      <4> DEFINE k == MaxDepth - (j + 1)
      <4>1. k \in Nat /\ k + 1 <= MaxDepth /\ k + 1 = MaxDepth - j /\ j <= MaxDepth
        BY <1>0, <3>1
      <4> HIDE DEF k
      <4>2. U(k) \subseteq U(k + 1)
        BY <1>6, <4>1
      <4>3. U(k + 1) \subseteq back
        BY <4>1
      <4> QED
        BY <4>2, <4>3 DEF k
    <3> QED
      BY <3>1
  <2> HIDE DEF S
  <2>3. MaxDepth - n \in S
    BY <1>0, <1>7, <2>1, <2>2, NumbersReached
  <2>4. MaxDepth - n <= MaxDepth /\ MaxDepth - (MaxDepth - n) = n
    BY <1>0, <1>7
  <2> QED
    BY <2>3, <2>4 DEF S
<1> DEFINE At(n, m) == m \in M /\ e[m] - e[t] \in Nat /\ m \in U(e[m] - e[t])
           S == {n \in Nat : n <= MaxDepth => \A m \in U(n) : At(n, m)}
<1>8. 0 \in S
  <2>1. e[t] - e[t] = 0
    BY <1>0, <1>5
  <2> QED
    BY <1>0, <1>2, <2>1
<1>9. ASSUME NEW n \in S \cap Nat
      PROVE  n + 1 \in S
  <2>1. ASSUME n + 1 <= MaxDepth, NEW m \in U(n + 1)
        PROVE  At(n + 1, m)
    <3>0. n <= MaxDepth /\ \A x \in U(n) : At(n, x)
      BY <1>0, <2>1
    <3>1. CASE m \in U(n)
      BY <3>0, <3>1
    <3>2. CASE m \notin U(n)
      <4> DEFINE p == rows[m].parent
      <4>1. m \in M /\ p \in U(n)
        BY <1>6, <2>1, <3>2
      <4>2. p \in M /\ e[p] - e[t] \in Nat /\ p \in U(e[p] - e[t])
        BY <3>0, <4>1
      <4>3. m # g
        BY <1>5, <4>1, <4>2
      <4>4. e[m] = e[p] + 1 /\ e[m] \in 0..MaxDepth /\ e[p] \in 0..MaxDepth /\ e[t] \in 0..MaxDepth
        BY <1>0, <1>5, <4>1, <4>2, <4>3
      <4> DEFINE k == e[p] - e[t]
      <4>5. k \in Nat /\ k + 1 <= MaxDepth /\ e[m] - e[t] = k + 1
        BY <1>0, <4>2, <4>4
      <4>6. p \in U(k)
        BY <4>2
      <4> HIDE DEF k, p
      <4>7. m \in U(k + 1)
        BY <1>6, <4>1, <4>5, <4>6 DEF p
      <4> QED
        BY <4>1, <4>5, <4>7
    <3> QED
      BY <3>1, <3>2
  <2> QED
    BY <2>1
<1>10. \A m \in back : m \in M /\ e[m] - e[t] \in Nat /\ m \in U(e[m] - e[t])
  <2> HIDE DEF S
  <2>1. MaxDepth \in S
    BY <1>0, <1>8, <1>9, NumbersReached
  <2> QED
    BY <1>0, <1>3, <2>1 DEF S
<1>11. t \in back
  BY <1>0, <1>2, <1>7
<1>12. ASSUME NEW v \in M, v # g, rows[v].parent \in back
       PROVE  v \in back
  <2> DEFINE p == rows[v].parent
             k == e[p] - e[t]
  <2>1. p \in M /\ k \in Nat /\ p \in U(k)
    BY <1>10, <1>12
  <2>2. e[v] = e[p] + 1 /\ e[v] \in 0..MaxDepth /\ e[p] \in 0..MaxDepth /\ e[t] \in 0..MaxDepth
    BY <1>0, <1>5, <1>12, <2>1
  <2>3. k + 1 <= MaxDepth /\ k + 1 \in Nat
    BY <1>0, <2>1, <2>2
  <2>4. p \in U(k) /\ k \in Nat /\ p = rows[v].parent
    BY <2>1
  <2> HIDE DEF k, p
  <2>5. v \in U(k + 1)
    BY <1>6, <1>12, <2>3, <2>4
  <2> QED
    BY <1>7, <2>3, <2>5
<1>13. ASSUME g \in back
       PROVE  back = M
  <2> DEFINE T == {n \in Nat : \A v \in M : e[v] = n => v \in back}
  <2>1. 0 \in T
    <3>1. ASSUME NEW v \in M, e[v] = 0
          PROVE  v \in back
      <4>1. CASE v = g
        BY <1>13, <4>1
      <4>2. CASE v # g
        <5>1. e[v] = e[rows[v].parent] + 1 /\ e[rows[v].parent] \in 0..MaxDepth
          BY <1>5, <4>2
        <5> QED
          BY <1>0, <3>1, <5>1
      <4> QED
        BY <4>1, <4>2
    <3> QED
      BY <3>1
  <2>2. ASSUME NEW n \in T \cap Nat
        PROVE  n + 1 \in T
    <3>1. ASSUME NEW v \in M, e[v] = n + 1
          PROVE  v \in back
      <4>1. CASE v = g
        BY <1>13, <4>1
      <4>2. CASE v # g
        <5>1. rows[v].parent \in M /\ e[v] = e[rows[v].parent] + 1 /\ e[rows[v].parent] \in 0..MaxDepth
          BY <1>5, <4>2
        <5>2. e[rows[v].parent] = n
          BY <1>0, <3>1, <5>1
        <5>3. rows[v].parent \in back
          BY <5>1, <5>2
        <5> QED
          BY <1>12, <4>2, <5>3
      <4> QED
        BY <4>1, <4>2
    <3> QED
      BY <3>1
  <2>3. ASSUME NEW v \in M
        PROVE  v \in back
    <3> HIDE DEF T
    <3>1. e[v] \in Nat
      BY <1>0, <1>5
    <3>2. e[v] \in T
      BY <2>1, <2>2, <3>1, NumbersReached
    <3> QED
      BY <3>2 DEF T
  <2> QED
    BY <1>10, <2>3
<1> QED
  BY <1>10, <1>11, <1>12, <1>13 DEF M, rows

LEMMA RestoreKeepsGroups ==
  ASSUME NEW state, RowsOK(state.rows), GroupsOK(state.rows), Closed(state.known, state.rows),
         NEW t \in Tasks, NEW after, after = PlanRestore(state, t), after # Nothing
  PROVE  GroupsOK(after) /\ Closed(Remembered(state, after), after)
<1> DEFINE rows == state.rows
           back == RestoredWith(state, t)
           trial == [u \in Tasks |-> IF u \in back THEN [rows[u] EXCEPT !.status = "active",
                                       !.parent = IF u = t THEN TopLevel ELSE @] ELSE rows[u]]
           stays == /\ rows[t].parent \in Active(rows)
                    /\ Depth(rows, rows[t].parent) + 1 + Height(trial, t) <= MaxDepth - 1
           collection == IF stays THEN rows[rows[t].parent].collection ELSE rows[t].collection
           g == rows[t].group
<1>1. /\ t \in state.known
      /\ after = [u \in Tasks |->
            IF u \notin back THEN rows[u]
            ELSE [Bump(rows[u]) EXCEPT !.status = "active", !.group = NoGroup,
                    !.collection = collection,
                    !.parent = IF u # t \/ stays THEN @ ELSE TopLevel]]
  BY DEF PlanRestore
<1>2. /\ t \in back /\ back \subseteq InGroup(rows, g)
      /\ \A v \in InGroup(rows, g) : v # g /\ rows[v].parent \in back => v \in back
      /\ g \in back => back = InGroup(rows, g)
  <2>1. t \in state.known /\ back = RestoredWith(state, t) /\ g = state.rows[t].group
    BY <1>1
  <2> HIDE DEF back, g
  <2>2. /\ t \in back /\ back \subseteq InGroup(state.rows, g)
        /\ \A v \in InGroup(state.rows, g) : v # g /\ state.rows[v].parent \in back => v \in back
        /\ g \in back => back = InGroup(state.rows, g)
    BY ONLY <2>1, RestoreReaches, GroupsOK(state.rows), Closed(state.known, state.rows)
  <2> QED
    BY <2>2
<1>3. /\ rows \in [Tasks -> Row] /\ Archived(rows) \subseteq Tasks /\ GroupsOK(rows)
      /\ Closed(state.known, rows)
  BY DEF RowsOK, Archived
<1>4. back \subseteq Archived(rows) /\ \A u \in back : rows[u].group = g
  BY <1>2 DEF InGroup
<1> HIDE DEF rows, back, stays, collection, g
<1>5. /\ \A u \in Tasks \ back : after[u] = rows[u]
      /\ \A u \in back : after[u].status = "active"
  <2>1. ASSUME NEW u \in back
        PROVE  after[u].status = "active"
    <3> DEFINE b == u # t \/ stays
    <3>1. b \in BOOLEAN
      OBVIOUS
    <3>2. u \in Tasks /\ rows[u] \in Row
      BY <1>3, <1>4
    <3>3. after[u] = [Bump(rows[u]) EXCEPT !.status = "active", !.group = NoGroup,
                    !.collection = collection, !.parent = IF b THEN @ ELSE TopLevel]
      BY <1>1, <3>2
    <3> HIDE DEF b
    <3>4. after[u] = Returned(rows[u], "active", NoGroup, collection, b, TopLevel)
      BY <3>3 DEF Returned
    <3>5. after[u] = Changed(rows[u], "active", NoGroup, IF b THEN rows[u].parent ELSE TopLevel, collection)
      BY <3>1, <3>2, <3>4, ReturnedRow
    <3> QED
      BY <3>2, <3>5, ChangedFields
  <2>2. \A u \in Tasks \ back : after[u] = rows[u]
    BY <1>1
  <2> QED
    BY <2>1, <2>2
<1>6. Archived(after) = Archived(rows) \ back /\ \A u \in Archived(after) : after[u] = rows[u]
  BY <1>3, <1>4, <1>5 DEF Archived
<1>7. \A x : InGroup(after, x) = InGroup(rows, x) \ back
  BY <1>6 DEF InGroup
<1>8. ASSUME NEW v \in Archived(after)
      PROVE  /\ v \in Archived(rows) \ back /\ after[v] = rows[v]
             /\ rows[v].group \in Archived(rows) /\ rows[rows[v].group].group = rows[v].group
             /\ v = rows[v].group => rows[v].parent \notin InGroup(rows, v)
             /\ rows[v].group \notin back
  <2>1. v \in Archived(rows) \ back /\ after[v] = rows[v]
    BY <1>6
  <2>2. /\ rows[v].group \in Archived(rows) /\ rows[rows[v].group].group = rows[v].group
        /\ v = rows[v].group => rows[v].parent \notin InGroup(rows, v)
    BY <1>3, <2>1 DEF GroupsOK
  <2>3. ASSUME rows[v].group \in back
        PROVE  FALSE
    <3>1. rows[v].group = g
      BY <1>4, <2>2, <2>3
    <3>2. v \in InGroup(rows, g)
      BY <2>1, <3>1 DEF InGroup
    <3> QED
      BY <1>2, <2>1, <2>3, <3>1, <3>2
  <2> QED
    BY <2>1, <2>2, <2>3
<1>9. PICK e : Below(rows, e)
  BY <1>3 DEF GroupsOK
<1>10. Below(after, e)
  <2>1. ASSUME NEW v \in Archived(after), v # after[v].group
        PROVE  after[v].parent \in InGroup(after, after[v].group) /\ e[v] = e[after[v].parent] + 1
    <3>1. rows[v].parent \in InGroup(rows, rows[v].group) /\ e[v] = e[rows[v].parent] + 1
      BY <1>8, <1>9, <2>1 DEF Below
    <3>2. ASSUME rows[v].parent \in back
          PROVE  FALSE
      <4>1. rows[v].group = g
        BY <1>4, <3>1, <3>2 DEF InGroup
      <4>2. v \in InGroup(rows, g) /\ v # g
        BY <1>8, <2>1, <4>1 DEF InGroup
      <4> QED
        BY <1>2, <1>8, <3>2, <4>2
    <3> QED
      BY <1>7, <1>8, <3>1, <3>2
  <2> QED
    BY <1>9, <2>1 DEF Below
<1>11. GroupsOK(after)
  <2>1. ASSUME NEW v \in Archived(after)
        PROVE  /\ after[v].group \in Archived(after) /\ after[after[v].group].group = after[v].group
               /\ v = after[v].group => after[v].parent \notin InGroup(after, v)
    <3>1. rows[v].group \in Archived(after)
      BY <1>6, <1>8
    <3>2. after[rows[v].group] = rows[rows[v].group]
      BY <1>6, <3>1
    <3> QED
      BY <1>7, <1>8, <3>1, <3>2
  <2> QED
    BY <1>10, <2>1 DEF GroupsOK
<1>12. Closed(Remembered(state, after), after)
  <2> DEFINE R == Remembered(state, after)
  <2>1. R \subseteq Tasks /\ \A u \in Tasks : u \in R <=> u \in Archived(after) /\ (u \in state.known \/ u \in Active(rows))
    BY DEF Remembered, Archived, Active, rows
  <2>2. Active(rows) \cap Archived(rows) = {} /\ Archived(after) \subseteq Tasks
    BY DEF Active, Archived
  <2> HIDE DEF R
  <2>3. ASSUME NEW u \in R
        PROVE  u \in Archived(after) /\ InGroup(after, after[u].group) \subseteq R
    <3>1. u \in Archived(after) /\ u \in state.known /\ after[u] = rows[u]
      BY <1>6, <2>1, <2>2
    <3>2. InGroup(rows, rows[u].group) \subseteq state.known
      BY <1>3, <3>1 DEF Closed
    <3>3. InGroup(after, after[u].group) \subseteq state.known /\ InGroup(after, after[u].group) \subseteq Archived(after)
      BY <1>7, <3>1, <3>2 DEF InGroup
    <3> QED
      BY <2>1, <2>2, <3>1, <3>3
  <2> QED
    BY <2>3 DEF R, Closed
<1> QED
  BY <1>11, <1>12

-----------------------------------------------------------------------------
(* Groups: the inductive invariant and the theorem. *)

\* A state knows groups as a whole; so does what the plan of a write leaves.
AllOrNone(s) == GroupsOK(s.rows) /\ Closed(s.known, s.rows)
LeavesWhole(state, after) == GroupsOK(after) /\ Closed(Remembered(state, after), after)
WriteWhole(w) == w.pc = "batch" \/ (w.pc = "answer" /\ w.cached) => LeavesWhole(w.state, w.after)

GroupInv ==
  /\ GroupsOK(tree.rows) /\ \A r \in Writes : WriteWhole(write[r])
  /\ treeCache # Nothing => AllOrNone(treeCache)
  /\ reading # Nothing => AllOrNone(reading.state)

\* A page of the archive shows every group whole.
GroupsFitAPage ==
  \A t \in Archived(tree.rows) :
    /\ IsFiniteSet(Group(tree.rows, t))
    /\ Cardinality(Group(tree.rows, t) \ {t}) <= MembersPerGroup

LEMMA LoadIsWhole == ASSUME GroupsOK(tree.rows), NEW probes PROVE AllOrNone(Load(probes))
<1> DEFINE asked == probes \cap Archived(tree.rows)
           remembered == UNION {Group(tree.rows, t) : t \in asked}
<1>1. \A t : Group(tree.rows, t) = InGroup(tree.rows, tree.rows[t].group)
  BY DEF Group, InGroup
<1>2. ASSUME NEW u \in remembered
      PROVE  u \in Archived(tree.rows) /\ InGroup(tree.rows, tree.rows[u].group) \subseteq remembered
  <2>1. PICK t \in asked : u \in Group(tree.rows, t)
    BY <1>2
  <2>2. u \in Archived(tree.rows) /\ tree.rows[u].group = tree.rows[t].group
    BY <2>1 DEF Group
  <2>3. Group(tree.rows, t) \subseteq remembered
    BY <2>1
  <2> QED
    BY <1>1, <2>2, <2>3
<1>3. Load(probes) = [version |-> tree.version, rows |-> tree.rows, known |-> remembered]
  BY DEF Load
<1> HIDE DEF remembered
<1>4. Load(probes).rows = tree.rows /\ Load(probes).known = remembered
  BY <1>3
<1> QED
  BY <1>2, <1>4 DEF AllOrNone, Closed

LEMMA PlansAreWhole ==
  ASSUME ForestInv, GroupInv, NEW r \in Writes, BeginWrite(r)
  PROVE  \E w : WriteWhole(w) /\ write' = [write EXCEPT ![r] = w]
<1>0. PICK h : Fits(h)
  BY DEF ForestInv
<1>1. ASSUME NEW probes, NEW state,
             state = Load(probes) \/ (state = treeCache /\ treeCache # Nothing)
      PROVE  AllOrNone(state) /\ RowsOK(state.rows) /\ ForestOK(state.rows)
  <2>1. AsAt(state, h, tree)
    BY <1>0, <1>1, LoadFits DEF Fits, ForestInv
  <2>2. RowsOK(state.rows) /\ ForestOK(state.rows)
    BY <1>0, <2>1, StateFits DEF ForestInv
  <2> QED
    BY <1>1, <2>2, LoadIsWhole DEF GroupInv
<1>2. ASSUME NEW state, NEW lock, NEW t, NEW after, NEW uses, LeavesWhole(state, after)
      PROVE  WriteWhole(Plan(lock, t, state, after, uses))
  BY <1>2, PlanFields DEF WriteWhole
<1>3. ASSUME NEW t \in Tasks, NEW uses \in BOOLEAN, NEW parent \in Tasks \cup {TopLevel},
             NEW c \in Collections,
             Planned(r, uses, {parent} \ {TopLevel}, "tree", t,
                     LAMBDA s : PlanCreate(s, t, parent, c))
      PROVE  \E w : WriteWhole(w) /\ write' = [write EXCEPT ![r] = w]
  <2> DEFINE cached == uses /\ Covers({parent} \ {TopLevel}) /\ PlanCreate(treeCache, t, parent, c) # Nothing
             state == IF cached THEN treeCache ELSE Load({parent} \ {TopLevel})
             after == PlanCreate(state, t, parent, c)
  <2>1. cached => treeCache # Nothing
    BY DEF Covers
  <2>2. after # Nothing /\ write' = [write EXCEPT ![r] = Plan("tree", t, state, after, uses)]
    BY <1>3 DEF Planned, Plan
  <2> HIDE DEF cached
  <2>3. AllOrNone(state) /\ RowsOK(state.rows) /\ ForestOK(state.rows)
    BY <1>1, <2>1
  <2> HIDE DEF state
  <2>5. LeavesWhole(state, after)
    BY <2>2, <2>3, CreateKeepsGroups DEF AllOrNone, LeavesWhole
  <2> HIDE DEF after
  <2> QED
    BY <1>2, <2>2, <2>5
<1>4. ASSUME NEW t \in Tasks, NEW uses \in BOOLEAN,
             Planned(r, uses, {t}, "row", t,
                     LAMBDA s : PlanRename(s, t))
      PROVE  \E w : WriteWhole(w) /\ write' = [write EXCEPT ![r] = w]
  <2> DEFINE cached == uses /\ Covers({t}) /\ PlanRename(treeCache, t) # Nothing
             state == IF cached THEN treeCache ELSE Load({t})
             after == PlanRename(state, t)
  <2>1. cached => treeCache # Nothing
    BY DEF Covers
  <2>2. after # Nothing /\ write' = [write EXCEPT ![r] = Plan("row", t, state, after, uses)]
    BY <1>4 DEF Planned, Plan
  <2> HIDE DEF cached
  <2>3. AllOrNone(state) /\ RowsOK(state.rows) /\ ForestOK(state.rows)
    BY <1>1, <2>1
  <2> HIDE DEF state
  <2>4. t \in Active(state.rows) /\ after = [state.rows EXCEPT ![t] = Bump(@)]
    BY <2>2 DEF PlanRename
  <2> HIDE DEF after
  <2>5. LeavesWhole(state, after)
    BY <2>3, <2>4, RenameKeepsGroups DEF AllOrNone, LeavesWhole
  <2> QED
    BY <1>2, <2>2, <2>5
<1>5. ASSUME NEW t \in Tasks, NEW uses \in BOOLEAN, NEW parent \in Tasks \cup {TopLevel},
             NEW c \in Collections,
             Planned(r, uses, {t, parent} \ {TopLevel}, "tree", t,
                     LAMBDA s : PlanMove(s, t, parent, c))
      PROVE  \E w : WriteWhole(w) /\ write' = [write EXCEPT ![r] = w]
  <2> DEFINE cached == uses /\ Covers({t, parent} \ {TopLevel}) /\ PlanMove(treeCache, t, parent, c) # Nothing
             state == IF cached THEN treeCache ELSE Load({t, parent} \ {TopLevel})
             after == PlanMove(state, t, parent, c)
  <2>1. cached => treeCache # Nothing
    BY DEF Covers
  <2>2. after # Nothing /\ write' = [write EXCEPT ![r] = Plan("tree", t, state, after, uses)]
    BY <1>5 DEF Planned, Plan
  <2> HIDE DEF cached
  <2>3. AllOrNone(state) /\ RowsOK(state.rows) /\ ForestOK(state.rows)
    BY <1>1, <2>1
  <2> HIDE DEF state
  <2>5. LeavesWhole(state, after)
    BY <2>2, <2>3, MoveKeepsGroups DEF AllOrNone, LeavesWhole
  <2> HIDE DEF after
  <2> QED
    BY <1>2, <2>2, <2>5
<1>6. ASSUME NEW t \in Tasks, NEW uses \in BOOLEAN, NEW mode \in {"all", "parent_only"},
             Planned(r, uses, {t}, "tree", t,
                     LAMBDA s : PlanComplete(s, t, mode))
      PROVE  \E w : WriteWhole(w) /\ write' = [write EXCEPT ![r] = w]
  <2> DEFINE cached == uses /\ Covers({t}) /\ PlanComplete(treeCache, t, mode) # Nothing
             state == IF cached THEN treeCache ELSE Load({t})
             after == PlanComplete(state, t, mode)
  <2>1. cached => treeCache # Nothing
    BY DEF Covers
  <2>2. after # Nothing /\ write' = [write EXCEPT ![r] = Plan("tree", t, state, after, uses)]
    BY <1>6 DEF Planned, Plan
  <2> HIDE DEF cached
  <2>3. AllOrNone(state) /\ RowsOK(state.rows) /\ ForestOK(state.rows)
    BY <1>1, <2>1
  <2> HIDE DEF state
  <2>5. LeavesWhole(state, after)
    BY <2>2, <2>3, CompleteKeepsGroups DEF AllOrNone, LeavesWhole
  <2> HIDE DEF after
  <2> QED
    BY <1>2, <2>2, <2>5
<1>7. ASSUME NEW t \in Tasks, NEW uses \in BOOLEAN,
             Planned(r, uses, {t}, "tree", t,
                     LAMBDA s : PlanRestore(s, t))
      PROVE  \E w : WriteWhole(w) /\ write' = [write EXCEPT ![r] = w]
  <2> DEFINE cached == uses /\ Covers({t}) /\ PlanRestore(treeCache, t) # Nothing
             state == IF cached THEN treeCache ELSE Load({t})
             after == PlanRestore(state, t)
  <2>1. cached => treeCache # Nothing
    BY DEF Covers
  <2>2. after # Nothing /\ write' = [write EXCEPT ![r] = Plan("tree", t, state, after, uses)]
    BY <1>7 DEF Planned, Plan
  <2> HIDE DEF cached
  <2>3. AllOrNone(state) /\ RowsOK(state.rows) /\ ForestOK(state.rows)
    BY <1>1, <2>1
  <2> HIDE DEF state
  <2>5. LeavesWhole(state, after)
    BY <2>2, <2>3, RestoreKeepsGroups DEF AllOrNone, LeavesWhole
  <2> HIDE DEF after
  <2> QED
    BY <1>2, <2>2, <2>5
<1> QED
  BY <1>3, <1>4, <1>5, <1>6, <1>7 DEF BeginWrite

LEMMA OneWriteIsWhole ==
  ASSUME ForestInv, GroupInv, NEW r \in Writes, NEW w, WriteWhole(w), write' = [write EXCEPT ![r] = w]
  PROVE  \A q \in Writes : WriteWhole(write'[q])
BY DEF ForestInv, CacheInv, GroupInv

LEMMA IdleIsWhole == WriteWhole(IdleWrite)
BY DEF WriteWhole, IdleWrite

LEMMA CommitKeepsGroups ==
  ASSUME ForestInv, GroupInv, NEW r \in Writes, CommitWrite(r)
  PROVE  GroupInv'
<1> DEFINE plan == write[r]
           rows == [t \in Tasks |-> IF plan.after[t] # plan.state.rows[t] THEN plan.after[t]
                                    ELSE tree.rows[t]]
<1>1. PICK h : Fits(h)
  BY DEF ForestInv
<1>2. /\ CacheInv /\ tree.version \in Nat /\ plan.pc = "batch" /\ UNCHANGED reading
      /\ WriteFits(plan, h, tree) /\ WriteOK(plan, tree) /\ WriteWhole(plan)
  BY <1>1 DEF ForestInv, CacheInv, CommitWrite, Fits, GroupInv
<1>3. IsWrite(plan) /\ AsAt(plan.state, h, tree) /\ PlanFits(plan) /\ LeavesWhole(plan.state, plan.after)
  BY <1>2 DEF WriteFits, WriteOK, WriteWhole
<1>4. CASE StillPlanned(plan)
  <2> DEFINE w == [IF plan.cached THEN plan ELSE IdleWrite
                   EXCEPT !.pc = "answer", !.version = tree.version + 1]
  <2>1. /\ tree' = [version |-> tree.version + 1,
                    rows |-> [t \in Tasks |->
                                IF t \in {u \in Tasks : plan.after[u] # plan.state.rows[u]}
                                THEN plan.after[t] ELSE tree.rows[t]]]
        /\ write' = [write EXCEPT ![r] = w] /\ UNCHANGED treeCache
    BY <1>4 DEF CommitWrite
  <2>2. tree'.rows = rows
    BY <2>1
  <2>3. /\ plan.state.version = tree.version => rows = plan.after
        /\ tree.rows \in [Tasks -> Row] /\ plan.state.rows \in [Tasks -> Row]
    <3>1. rows = [t \in Tasks |-> IF plan.after[t] # plan.state.rows[t] THEN plan.after[t] ELSE tree.rows[t]]
      OBVIOUS
    <3>2. tree.version \in 0..tree.version /\ h[tree.version] = tree.rows
      BY <1>1, <1>2 DEF Fits, Past
    <3>3. RowsOK(tree.rows) /\ RowsOK(plan.state.rows)
      BY <1>1, <1>2, <1>3, <3>2, StateFits DEF Fits, Past
    <3> HIDE DEF rows, plan
    <3>4. plan.state.version = tree.version => rows = plan.after
      BY <1>1, <1>2, <1>3, <1>4, <3>1, AppliedFits
    <3> QED
      BY <3>3, <3>4 DEF RowsOK
  <2>4. GroupsOK(rows)
    <3>1. CASE plan.lock = "tree"
      BY <1>3, <1>4, <2>3, <3>1 DEF StillPlanned, LeavesWhole
    <3>2. CASE plan.lock # "tree"
      <4> DEFINE t == plan.task
      <4>1. /\ t \in Active(plan.state.rows) /\ plan.after = [plan.state.rows EXCEPT ![t] = Bump(@)]
            /\ tree.rows[t].status = "active"
        BY <1>3, <1>4, <3>2 DEF StillPlanned, PlanFits
      <4>2. t \in Tasks /\ plan.state.rows[t].status = "active"
        BY <4>1 DEF Active
      <4>3. \A u \in Tasks : plan.after[u] = IF u = t THEN Bump(plan.state.rows[u]) ELSE plan.state.rows[u]
        BY <2>3, <4>1
      <4>4. Bump(plan.state.rows[t]).status = "active"
        BY <2>3, <4>2, BumpFields
      <4>5. \A u \in Tasks \ {t} : rows[u] = tree.rows[u]
        BY <4>3
      <4>6. rows[t].status = "active"
        BY <4>1, <4>2, <4>3, <4>4
      <4> HIDE DEF rows, t
      <4>7. Archived(rows) = Archived(tree.rows) /\ \A u \in Archived(tree.rows) : rows[u] = tree.rows[u]
        BY <4>1, <4>2, <4>5, <4>6 DEF Archived, t
      <4> QED
        BY <4>7, SameArchive DEF GroupInv
    <3> QED
      BY <3>1, <3>2
  <2> HIDE DEF rows
  <2>5. WriteWhole(w)
    <3>1. CASE plan.cached
      <4>1. w = Answered(plan, tree.version + 1)
        BY <3>1 DEF Answered
      <4> HIDE DEF w, plan
      <4> QED
        BY <1>3, <4>1, AnsweredFields DEF WriteWhole
    <3>2. CASE ~plan.cached
      <4>1. w = Answered(IdleWrite, tree.version + 1)
        BY <3>2 DEF Answered
      <4>2. IsWrite(IdleWrite) /\ IdleWrite.cached = FALSE
        BY DEF IsWrite, IdleWrite
      <4> HIDE DEF w
      <4>3. w.pc = "answer" /\ w.cached = FALSE
        BY <4>1, <4>2, AnsweredFields
      <4> QED
        BY <4>3 DEF WriteWhole
    <3> QED
      BY <3>1, <3>2
  <2> HIDE DEF w
  <2>6. \A q \in Writes : WriteWhole(write'[q])
    BY <2>1, <2>5, OneWriteIsWhole
  <2> QED
    BY <1>2, <2>1, <2>2, <2>4, <2>6 DEF GroupInv
<1>5. CASE ~StillPlanned(plan)
  <2>1. /\ write' = [write EXCEPT ![r] = IdleWrite] /\ UNCHANGED tree
        /\ treeCache' = treeCache \/ treeCache' = Nothing
    BY <1>5 DEF CommitWrite
  <2>2. \A q \in Writes : WriteWhole(write'[q])
    BY <2>1, IdleIsWhole, OneWriteIsWhole
  <2> QED
    BY <1>2, <2>1, <2>2 DEF GroupInv
<1> QED
  BY <1>4, <1>5

LEMMA AnswersKeepGroups ==
  ASSUME ForestInv, GroupInv, NEW r \in Writes, AnswerWrite(r) \/ LoseAnswer(r)
  PROVE  GroupInv'
<1>1. write' = [write EXCEPT ![r] = IdleWrite] /\ UNCHANGED <<tree, reading>>
  BY DEF AnswerWrite, LoseAnswer
<1>2. \A q \in Writes : WriteWhole(write'[q])
  BY <1>1, IdleIsWhole, OneWriteIsWhole
<1>3. treeCache' # Nothing => AllOrNone(treeCache')
  <2>1. CASE LoseAnswer(r) \/ ~write[r].cached
    <3>1. treeCache' = treeCache \/ treeCache' = Nothing
      BY <2>1 DEF LoseAnswer, AnswerWrite
    <3> QED
      BY <3>1 DEF GroupInv
  <2>2. CASE AnswerWrite(r) /\ write[r].cached
    <3> DEFINE w == write[r]
    <3>1. treeCache' = CacheAfter(w) /\ LeavesWhole(w.state, w.after)
      BY <2>2 DEF AnswerWrite, GroupInv, WriteWhole
    <3> HIDE DEF w
    <3>2. ASSUME CacheAfter(w) # Nothing
          PROVE  AllOrNone(CacheAfter(w))
      <4>1. CacheAfter(w) = [version |-> w.version, rows |-> w.after, known |-> Remembered(w.state, w.after)]
        BY <3>2 DEF CacheAfter, Remembered
      <4>2. CacheAfter(w).rows = w.after /\ CacheAfter(w).known = Remembered(w.state, w.after)
        BY <4>1
      <4> QED
        BY <3>1, <4>2 DEF LeavesWhole, AllOrNone
    <3> QED
      BY <3>1, <3>2
  <2> QED
    BY <2>1, <2>2
<1> QED
  BY <1>1, <1>2, <1>3 DEF GroupInv

\* A page that shows as many members of each group as there are shows them all.
LEMMA ArchiveIsWhole ==
  ASSUME GroupsOK(tree.rows), GroupsFitAPage, NEW roots, NEW shown,
         roots = {t \in Archived(tree.rows) : tree.rows[t].group = t},
         shown \in SUBSET (Archived(tree.rows) \ roots),
         \A t \in roots :
           LET members == Group(tree.rows, t) \ {t} IN
           Cardinality(shown \intersect members) =
             IF Cardinality(members) <= MembersPerGroup THEN Cardinality(members) ELSE MembersPerGroup
  PROVE  roots \cup shown = Archived(tree.rows)
<1> SUFFICES ASSUME NEW u \in Archived(tree.rows), u \notin roots
             PROVE  u \in shown
  OBVIOUS
<1> DEFINE t == tree.rows[u].group
           members == Group(tree.rows, t) \ {t}
<1>1. t \in roots /\ tree.rows[t].group = t
  BY DEF GroupsOK
<1>2. u \in members
  BY <1>1 DEF Group
<1>3. IsFiniteSet(Group(tree.rows, t)) /\ Cardinality(members) <= MembersPerGroup
  BY <1>1 DEF GroupsFitAPage
<1>4. Cardinality(shown \cap members) = Cardinality(members)
  BY <1>1, <1>3
<1>5. IsFiniteSet(members)
  BY <1>3, FS_Subset
<1> HIDE DEF members, t
<1>6. shown \cap members = members
  BY <1>4, <1>5, FS_Subset
<1> QED
  BY <1>2, <1>6

LEMMA ReadsKeepGroups ==
  ASSUME ForestInv, GroupInv, GroupsFitAPage, ReadTree \/ ReadArchive \/ StoreRead \/ ForgetTree
  PROVE  GroupInv'
<1>1. PICK h : Fits(h)
  BY DEF ForestInv
<1>2. UNCHANGED <<tree, write>> /\ CacheInv
  BY DEF ReadTree, ReadArchive, StoreRead, ForgetTree, ForestInv
<1>3. /\ treeCache' # Nothing => AllOrNone(treeCache')
      /\ reading' # Nothing => AllOrNone(reading'.state)
  <2>1. CASE ReadTree
    <3>1. reading' = [kind |-> "tree", state |-> Load({})] /\ UNCHANGED treeCache
      BY <2>1 DEF ReadTree
    <3>2. reading'.state = Load({})
      BY <3>1
    <3> QED
      BY <3>1, <3>2, LoadIsWhole DEF GroupInv
  <2>2. CASE ReadArchive
    <3> DEFINE roots == {t \in Archived(tree.rows) : tree.rows[t].group = t}
    <3>1. PICK shown \in SUBSET (Archived(tree.rows) \ roots) :
            /\ \A t \in roots :
                 LET members == Group(tree.rows, t) \ {t} IN
                 Cardinality(shown \intersect members) =
                   IF Cardinality(members) <= MembersPerGroup THEN Cardinality(members)
                   ELSE MembersPerGroup
            /\ reading' = [kind |-> "archive", state |-> [version |-> tree.version, rows |-> tree.rows,
                                                          known |-> roots \union shown]]
      BY <2>2 DEF ReadArchive
    <3> DEFINE remembered == roots \union shown
               s == [version |-> tree.version, rows |-> tree.rows, known |-> remembered]
    <3>2. remembered = Archived(tree.rows)
      BY <3>1, ArchiveIsWhole DEF GroupInv
    <3>3. reading'.state = s
      BY <3>1
    <3> HIDE DEF remembered
    <3>4. s.rows = tree.rows /\ s.known = Archived(tree.rows)
      BY <3>2
    <3> HIDE DEF s
    <3>5. AllOrNone(s)
      BY <3>4 DEF AllOrNone, Closed, InGroup, GroupInv
    <3> QED
      BY <2>2, <3>3, <3>5 DEF ReadArchive, GroupInv
  <2>3. CASE ForgetTree
    BY <2>3 DEF ForgetTree, GroupInv
  <2>4. CASE StoreRead
    <3> DEFINE read == reading.state
               rows == [t \in Tasks |-> IF t \in read.known THEN read.rows[t]
                                        ELSE treeCache.rows[t]]
               remembered == treeCache.known \cup read.known
    <3>1. reading # Nothing /\ reading' = Nothing /\ AsAt(read, h, tree) /\ AllOrNone(read)
      BY <1>1, <2>4 DEF StoreRead, Fits, GroupInv
    <3>2. \/ treeCache' = read \/ treeCache' = Nothing
          \/ /\ treeCache # Nothing /\ treeCache.version = read.version
             /\ treeCache' = [treeCache EXCEPT !.known = remembered, !.rows = rows]
      BY <2>4 DEF StoreRead
    <3>3. ASSUME treeCache # Nothing, treeCache.version = read.version
          PROVE  AllOrNone([treeCache EXCEPT !.known = remembered, !.rows = rows])
      <4>1. IsState(treeCache) /\ AsAt(treeCache, h, tree) /\ AllOrNone(treeCache)
        BY <1>1, <1>2, <3>3 DEF CacheInv, Exact, Fits, GroupInv
      <4>2. treeCache.rows = read.rows /\ RowsOK(read.rows)
        BY <1>1, <1>2, <3>1, <3>3, <4>1, StateFits DEF AsAt
      <4>3. rows = read.rows
        <5>1. rows = [t \in Tasks |-> read.rows[t]]
          BY <4>2
        <5>2. read.rows = [t \in Tasks |-> read.rows[t]]
          BY <4>2 DEF RowsOK
        <5> QED
          BY <5>1, <5>2
      <4>4. Closed(remembered, read.rows)
        BY <3>1, <4>1, <4>2 DEF AllOrNone, Closed
      <4> DEFINE s == [treeCache EXCEPT !.known = remembered, !.rows = rows]
                 c == [version |-> treeCache.version, rows |-> treeCache.rows,
                       known |-> treeCache.known]
      <4> HIDE DEF rows, remembered
      <4>5. treeCache = c
        BY <4>1 DEF IsState
      <4>6. s = [c EXCEPT !.known = remembered, !.rows = rows]
        BY <4>5
      <4> HIDE DEF s
      <4>7. s = [version |-> treeCache.version, rows |-> rows, known |-> remembered]
        BY <4>6
      <4>8. s.rows = rows /\ s.known = remembered
        BY <4>7
      <4>9. AllOrNone(s)
        BY <3>1, <4>3, <4>4, <4>8 DEF AllOrNone
      <4> QED
        BY <4>9 DEF s
    <3> QED
      BY <3>1, <3>2, <3>3
  <2> QED
    BY <2>1, <2>2, <2>3, <2>4
<1> QED
  BY <1>2, <1>3 DEF GroupInv

LEMMA GroupsStart == TreeInit => GroupInv
<1> SUFFICES ASSUME TreeInit
             PROVE  GroupInv
  OBVIOUS
<1> DEFINE e == [t \in Tasks |-> 0]
<1>1. Archived(tree.rows) = {}
  BY DEF TreeInit, Archived, Absent
<1>2. e \in [Tasks -> 0..MaxDepth]
  BY TreeBounds
<1>3. Below(tree.rows, e)
  BY <1>1, <1>2 DEF Below
<1>4. GroupsOK(tree.rows)
  BY <1>1, <1>3 DEF GroupsOK
<1>5. \A r \in Writes : WriteWhole(write[r])
  BY IdleIsWhole DEF TreeInit
<1> QED
  BY <1>4, <1>5 DEF GroupInv, TreeInit

LEMMA GroupStepsKeep ==
  ForestInv /\ GroupInv /\ GroupsFitAPage /\ [TreeNext]_treeVars => GroupInv'
<1> SUFFICES ASSUME ForestInv, GroupInv, GroupsFitAPage, [TreeNext]_treeVars
             PROVE  GroupInv'
  OBVIOUS
<1>1. ASSUME NEW r \in Writes, BeginWrite(r)
      PROVE  GroupInv'
  <2>1. PICK w : WriteWhole(w) /\ write' = [write EXCEPT ![r] = w]
    BY <1>1, PlansAreWhole
  <2>2. \A q \in Writes : WriteWhole(write'[q])
    BY <2>1, OneWriteIsWhole
  <2> QED
    BY <1>1, <2>2 DEF BeginWrite, GroupInv
<1>2. CASE TreeNext
  BY <1>1, <1>2, CommitKeepsGroups, AnswersKeepGroups, ReadsKeepGroups DEF TreeNext
<1>3. CASE UNCHANGED treeVars
  BY <1>3 DEF treeVars, GroupInv
<1> QED
  BY <1>2, <1>3

(***************************************************************************)
(* While no group has more members than a page of the archive shows        *)
(* (ARCHIVE_MEMBERS_PER_GROUP, archive.ts:23), no archived subtask is left *)
(* behind a root that came back, from whichever cached tree the restore    *)
(* was planned (plans.ts planRestore, service.ts:335): whoever knows one   *)
(* member of a group knows all.  Run restore shows a larger group.         *)
(***************************************************************************)
THEOREM SmallGroupsStayWhole == TreeSpec /\ []GroupsFitAPage => []GroupsStayWhole
<1>1. TreeInit => GroupInv
  BY GroupsStart
<1>2. ForestInv /\ GroupInv /\ GroupsFitAPage /\ [TreeNext]_treeVars => GroupInv'
  BY GroupStepsKeep
<1>3. GroupInv => GroupsStayWhole
  BY DEF GroupInv, GroupsOK, GroupsStayWhole, Archived
<1> QED
  BY <1>1, <1>2, <1>3, ForestInvAlways, PTL DEF TreeSpec

-----------------------------------------------------------------------------
(* The browser's lists: the inductive invariant. *)

Versions == Nat \cup {NoVersion}
EntryRows == [status : {"idle", "loading", "ready", "error"}, version : Versions, whole : BOOLEAN,
              loadedSeq : Nat, again : BOOLEAN, holds : SUBSET Nat]
FetchRows == [pc : {"none", "ask", "reading", "told"}, walk : Nat, first : Versions,
              version : Versions, startSeq : Nat, after : SUBSET Nat]
ChangeRows == [id : Nat, over : SUBSET Views,
               at : {"sent", "applied", "answered", "failed", "confirmed"},
               confirmed : Nat, watch : SUBSET Views]
DroppedRows == [id : Nat, watch : SUBSET Views]

(***************************************************************************)
(* A view that is fetched is not idle, and what its request brings is      *)
(* newer than what it shows; no request is from the future.                *)
(***************************************************************************)
ViewsOK(es, fs, seq) ==
  \A v \in Views :
    /\ es[v].loadedSeq <= seq
    /\ fs[v].pc # "none" => /\ es[v].status # "idle"
                            /\ es[v].loadedSeq < fs[v].startSeq /\ fs[v].startSeq <= seq

\* What was asked for after a change was confirmed holds the change.
ConfirmedOK(es, fs, seq, cs) ==
  \A c \in cs : c.at = "confirmed" =>
    /\ c.confirmed <= seq
    /\ \A v \in Views :
         /\ es[v].loadedSeq > c.confirmed => c.id \in es[v].holds
         /\ fs[v].pc # "none" /\ fs[v].startSeq > c.confirmed => c.id \in fs[v].after

\* What a dropped change waited for holds it, now and when it is fetched.
DroppedOK(es, fs, ds) ==
  \A c \in ds : \A v \in c.watch :
    /\ es[v].status = "ready" => c.id \in es[v].holds
    /\ fs[v].pc # "none" => c.id \in fs[v].after

ShownOK(es, fs, seq, cs, ds) ==
  /\ es \in [Views -> EntryRows] /\ fs \in [Views -> FetchRows] /\ seq \in Nat
  /\ cs \in SUBSET ChangeRows /\ ds \in SUBSET DroppedRows
  /\ ViewsOK(es, fs, seq) /\ ConfirmedOK(es, fs, seq, cs) /\ DroppedOK(es, fs, ds)

ServerOK ==
  /\ dbVersion \in Nat /\ apiCache \in Versions /\ changeIds \in Nat
  /\ \A commit \in committing : commit.version \in Nat

StoreInv == ServerOK /\ ShownOK(entries, fetches, storeSeq, changes, dropped)

-----------------------------------------------------------------------------
(* The browser's lists: the steps. *)

(***************************************************************************)
(* Refetching: a request that starts now holds all that is confirmed.      *)
(***************************************************************************)
LEMMA RefetchKeeps ==
  ASSUME NEW es, NEW fs, NEW seq, NEW cs, NEW ds, ShownOK(es, fs, seq, cs, ds),
         NEW some \in SUBSET Views, NEW confirmed,
         {c.id : c \in confirmed} \in SUBSET Nat,
         \A c \in cs : c.at = "confirmed" => c.id \in {k.id : k \in confirmed},
         \A c \in ds : c.id \in {k.id : k \in confirmed},
         NEW result, result = Refetched(some, es, fs, seq, confirmed)
  PROVE  /\ ShownOK(result.entries, result.fetches, result.seq, cs, ds)
         /\ \A v \in Views : result.entries[v].status = "idle" => es[v].status = "idle"
<1> DEFINE ids == {k.id : k \in confirmed}
           entry(v) == result.entries[v]
           fetch(v) == result.fetches[v]
           fresh(v) == v \in some /\ fs[v].pc = "none"
<1>1. /\ es \in [Views -> EntryRows] /\ fs \in [Views -> FetchRows] /\ seq \in Nat
      /\ cs \in SUBSET ChangeRows /\ ds \in SUBSET DroppedRows
      /\ ViewsOK(es, fs, seq) /\ ConfirmedOK(es, fs, seq, cs) /\ DroppedOK(es, fs, ds)
  BY DEF ShownOK
<1>2. ASSUME NEW v \in Views
      PROVE  /\ entry(v) \in EntryRows /\ fetch(v) \in FetchRows
             /\ entry(v).loadedSeq = es[v].loadedSeq /\ entry(v).holds = es[v].holds
             /\ entry(v).status = "ready" => es[v].status = "ready"
             /\ entry(v).status = "idle" => es[v].status = "idle" /\ ~fresh(v)
             /\ fresh(v) => /\ fetch(v).pc # "none" /\ fetch(v).startSeq = seq + 1
                            /\ fetch(v).after = ids
             /\ ~fresh(v) => fetch(v) = fs[v]
  <2>1. es[v] \in EntryRows /\ fs[v] \in FetchRows
    BY <1>1
  <2>2. entry(v) = IF v \notin some THEN es[v]
                   ELSE IF fs[v].pc # "none" THEN [es[v] EXCEPT !.again = TRUE]
                   ELSE [es[v] EXCEPT !.again = FALSE,
                                      !.status = IF @ = "ready" THEN @ ELSE "loading"]
    BY DEF Refetched
  <2>3. /\ ~fresh(v) => fetch(v) = fs[v]
        /\ fresh(v) => fetch(v) = [NoFetch EXCEPT !.pc = "ask", !.startSeq = seq + 1,
                                                  !.after = ids]
    BY DEF Refetched
  <2>4. /\ entry(v) \in EntryRows
        /\ entry(v).loadedSeq = es[v].loadedSeq /\ entry(v).holds = es[v].holds
        /\ entry(v).status = "ready" => es[v].status = "ready"
        /\ entry(v).status = "idle" => es[v].status = "idle" /\ ~fresh(v)
    <3> HIDE DEF entry
    <3>1. CASE v \notin some
      BY <2>1, <2>2, <3>1 DEF EntryRows
    <3>2. CASE v \in some /\ fs[v].pc # "none"
      BY <2>1, <2>2, <3>2 DEF EntryRows
    <3>3. CASE v \in some /\ fs[v].pc = "none"
      BY <2>1, <2>2, <3>3 DEF EntryRows
    <3> QED
      BY <3>1, <3>2, <3>3
  <2>5. CASE fresh(v)
    <3>1. /\ fetch(v) \in FetchRows /\ fetch(v).pc = "ask" /\ fetch(v).startSeq = seq + 1
          /\ fetch(v).after = ids
      <4> HIDE DEF ids, fresh, fetch
      <4>1. ids \in SUBSET Nat
        BY DEF ids
      <4> QED
        <5>1. seq + 1 \in Nat /\ NoFetch.startSeq \in Nat
          BY <1>1 DEF NoFetch
        <5>2. NoFetch \in FetchRows
          BY DEF NoFetch, FetchRows, Versions
        <5> QED
          BY <2>3, <2>5, <4>1, <5>1, <5>2 DEF FetchRows
    <3> QED
      BY <2>4, <2>5, <3>1
  <2>6. CASE ~fresh(v)
    BY <2>1, <2>3, <2>4, <2>6
  <2> QED
    BY <2>5, <2>6
<1>3. /\ result.entries \in [Views -> EntryRows] /\ result.fetches \in [Views -> FetchRows]
  BY <1>2 DEF Refetched
<1>4. /\ result.seq \in Nat /\ seq <= result.seq
      /\ \A v \in Views : fresh(v) => result.seq = seq + 1
  <2>1. result.seq = IF \E v \in some : fs[v].pc = "none" THEN seq + 1 ELSE seq
    BY DEF Refetched
  <2> QED
    BY <1>1, <2>1
<1> HIDE DEF entry, fetch, fresh, ids
<1>5. ViewsOK(result.entries, result.fetches, result.seq)
  <2> SUFFICES ASSUME NEW v \in Views
               PROVE  /\ entry(v).loadedSeq <= result.seq
                      /\ fetch(v).pc # "none" =>
                           /\ entry(v).status # "idle" /\ entry(v).loadedSeq < fetch(v).startSeq
                           /\ fetch(v).startSeq <= result.seq
    BY DEF ViewsOK, entry, fetch
  <2>1. /\ es[v].loadedSeq <= seq
        /\ fs[v].pc # "none" => /\ es[v].status # "idle"
                                /\ es[v].loadedSeq < fs[v].startSeq /\ fs[v].startSeq <= seq
    BY <1>1 DEF ViewsOK
  <2>2. es[v].loadedSeq \in Nat /\ fs[v].startSeq \in Nat
    <3>1. es[v] \in EntryRows /\ fs[v] \in FetchRows
      BY <1>1
    <3> QED
      BY <3>1 DEF EntryRows, FetchRows
  <2>3. CASE fresh(v)
    BY <1>1, <1>2, <1>4, <2>1, <2>2, <2>3
  <2>4. CASE ~fresh(v)
    BY <1>1, <1>2, <1>4, <2>1, <2>2, <2>4
  <2> QED
    BY <2>3, <2>4
<1>6. ConfirmedOK(result.entries, result.fetches, result.seq, cs)
  <2> SUFFICES ASSUME NEW c \in cs, c.at = "confirmed"
               PROVE  /\ c.confirmed <= result.seq
                      /\ \A v \in Views :
                           /\ entry(v).loadedSeq > c.confirmed => c.id \in entry(v).holds
                           /\ fetch(v).pc # "none" /\ fetch(v).startSeq > c.confirmed =>
                                c.id \in fetch(v).after
    BY DEF ConfirmedOK, entry, fetch
  <2>1. /\ c.confirmed <= seq
        /\ \A v \in Views :
             /\ es[v].loadedSeq > c.confirmed => c.id \in es[v].holds
             /\ fs[v].pc # "none" /\ fs[v].startSeq > c.confirmed => c.id \in fs[v].after
    BY <1>1 DEF ConfirmedOK
  <2>2. c.confirmed \in Nat
    <3>1. c \in ChangeRows
      BY <1>1
    <3> QED
      BY <3>1 DEF ChangeRows
  <2>3. c.id \in ids
    BY DEF ids
  <2>4. c.confirmed <= result.seq
    BY <1>1, <1>4, <2>1, <2>2
  <2> QED
    BY <1>2, <2>1, <2>3, <2>4
<1>7. DroppedOK(result.entries, result.fetches, ds)
  <2> SUFFICES ASSUME NEW c \in ds, NEW v \in c.watch
               PROVE  /\ entry(v).status = "ready" => c.id \in entry(v).holds
                      /\ fetch(v).pc # "none" => c.id \in fetch(v).after
    BY DEF DroppedOK, entry, fetch
  <2>1. v \in Views
    <3>1. c \in DroppedRows
      BY <1>1
    <3> QED
      BY <3>1 DEF DroppedRows
  <2>2. c.id \in ids
    BY DEF ids
  <2> QED
    BY <1>1, <1>2, <2>1, <2>2 DEF DroppedOK
<1> QED
  BY <1>1, <1>2, <1>3, <1>4, <1>5, <1>6, <1>7 DEF ShownOK, entry

(***************************************************************************)
(* Pruning: a change that is dropped was fetched by all that it waited     *)
(* for, or they are idle.                                                  *)
(***************************************************************************)
LEMMA PruneKeeps ==
  ASSUME NEW es, NEW fs, NEW seq, NEW cs, NEW ds, ShownOK(es, fs, seq, cs, ds),
         NEW gone, gone = {c \in cs : Settled(c, es)}
  PROVE  ShownOK(es, fs, seq, cs \ gone, ds \cup {[id |-> c.id, watch |-> c.watch] : c \in gone})
<1> DEFINE more == {[id |-> c.id, watch |-> c.watch] : c \in gone}
<1>1. /\ es \in [Views -> EntryRows] /\ fs \in [Views -> FetchRows] /\ seq \in Nat
      /\ cs \in SUBSET ChangeRows /\ ds \in SUBSET DroppedRows
      /\ ViewsOK(es, fs, seq) /\ ConfirmedOK(es, fs, seq, cs) /\ DroppedOK(es, fs, ds)
  BY DEF ShownOK
<1>2. ASSUME NEW c \in gone
      PROVE  /\ c \in ChangeRows /\ c.id \in Nat /\ c.watch \in SUBSET Views
             /\ c.confirmed \in Nat /\ c.at = "confirmed" /\ Settled(c, es) /\ c \in cs
  BY <1>1 DEF Settled, ChangeRows
<1>3. more \in SUBSET DroppedRows
  BY <1>2 DEF DroppedRows
<1>4. ASSUME NEW c \in gone, NEW v \in c.watch
      PROVE  /\ es[v].status = "ready" => c.id \in es[v].holds
             /\ fs[v].pc # "none" => c.id \in fs[v].after
  <2>1. v \in Views /\ c.confirmed \in Nat
    BY <1>2
  <2>2. es[v].loadedSeq \in Nat /\ fs[v].startSeq \in Nat
    <3>1. es[v] \in EntryRows /\ fs[v] \in FetchRows
      BY <1>1, <2>1
    <3> QED
      BY <3>1 DEF EntryRows, FetchRows
  <2>3. /\ es[v].loadedSeq > c.confirmed => c.id \in es[v].holds
        /\ fs[v].pc # "none" /\ fs[v].startSeq > c.confirmed => c.id \in fs[v].after
    BY <1>1, <1>2, <2>1 DEF ConfirmedOK
  <2>4. fs[v].pc # "none" => es[v].status # "idle" /\ es[v].loadedSeq < fs[v].startSeq
    BY <1>1, <2>1 DEF ViewsOK
  <2>5. es[v].status = "idle" \/ es[v].loadedSeq > c.confirmed
    BY <1>2 DEF Settled
  <2> QED
    BY <2>1, <2>2, <2>3, <2>4, <2>5
<1>5. DroppedOK(es, fs, more)
  BY <1>4 DEF DroppedOK
<1>6. DroppedOK(es, fs, ds \cup more)
  BY <1>1, <1>5 DEF DroppedOK
<1>7. ConfirmedOK(es, fs, seq, cs \ gone)
  BY <1>1 DEF ConfirmedOK
<1> QED
  BY <1>1, <1>3, <1>6, <1>7 DEF ShownOK

Ids(confirmed) == {c.id : c \in confirmed}

LEMMA ConfirmedIds ==
  ASSUME StoreInv
  PROVE  /\ Ids(Confirmed) \in SUBSET Nat
         /\ \A c \in changes : c.at = "confirmed" => c.id \in Ids(Confirmed)
         /\ \A c \in dropped : c.id \in Ids(Confirmed)
BY DEF StoreInv, ShownOK, Confirmed, Ids, ChangeRows, DroppedRows

\* A step of the server, or of a change that is not confirmed.
LEMMA ShownStays ==
  ASSUME StoreInv, ServerOK', UNCHANGED <<shownVars, dropped>>, changes' \in SUBSET ChangeRows,
         \A c \in changes' : c.at = "confirmed" => c \in changes
  PROVE  StoreInv'
BY DEF StoreInv, ShownOK, ConfirmedOK, ViewsOK, DroppedOK, shownVars

\* Views are fetched, by a step that changes neither the server nor the changes.
LEMMA FetchesKeep ==
  ASSUME StoreInv, NEW some \in SUBSET Views,
         Refetch(Refetched(some, entries, fetches, storeSeq, Confirmed)),
         UNCHANGED <<serverVars, changes, changeIds, dropped>>
  PROVE  StoreInv'
<1> DEFINE result == Refetched(some, entries, fetches, storeSeq, Confirmed)
<1>1. ShownOK(entries, fetches, storeSeq, changes, dropped)
  BY DEF StoreInv
<1>2. ShownOK(result.entries, result.fetches, result.seq, changes, dropped)
  BY <1>1, ConfirmedIds, RefetchKeeps DEF Ids
<1>3. ShownOK(entries', fetches', storeSeq', changes', dropped')
  BY <1>2 DEF Refetch
<1> QED
  BY <1>3 DEF StoreInv, ServerOK, serverVars

(***************************************************************************)
(* A request goes on to its next page, or to its end.                      *)
(***************************************************************************)
LEMMA RequestGoesOn ==
  ASSUME StoreInv, ServerOK', NEW v \in Views, fetches[v].pc # "none", NEW row \in FetchRows,
         row.pc # "none", row.startSeq = fetches[v].startSeq, row.after = fetches[v].after,
         fetches' = [fetches EXCEPT ![v] = row],
         UNCHANGED <<entries, storeSeq, changes, dropped>>
  PROVE  StoreInv'
<1>1. /\ entries \in [Views -> EntryRows] /\ fetches \in [Views -> FetchRows]
      /\ ViewsOK(entries, fetches, storeSeq) /\ DroppedOK(entries, fetches, dropped)
      /\ ConfirmedOK(entries, fetches, storeSeq, changes) /\ dropped \in SUBSET DroppedRows
  BY DEF StoreInv, ShownOK
<1>2. /\ fetches' \in [Views -> FetchRows] /\ fetches'[v] = row
      /\ \A u \in Views \ {v} : fetches'[u] = fetches[u]
  BY <1>1
<1>3. ViewsOK(entries', fetches', storeSeq')
  BY <1>1, <1>2 DEF ViewsOK
<1>4. ConfirmedOK(entries', fetches', storeSeq', changes')
  BY <1>1, <1>2 DEF ConfirmedOK
<1>5. DroppedOK(entries', fetches', dropped')
  <2>1. \A c \in dropped : \A u \in c.watch : u \in Views
    BY <1>1 DEF DroppedRows
  <2> QED
    BY <1>1, <1>2, <2>1 DEF DroppedOK
<1> QED
  BY <1>2, <1>3, <1>4, <1>5 DEF StoreInv, ShownOK

LEMMA NextPage ==
  ASSUME StoreInv, NEW v \in Views, NEW version \in Versions, fetches[v].pc # "none"
  PROVE  LET row == AfterPage(v, version) IN
         /\ row \in FetchRows /\ row.pc # "none" /\ row.startSeq = fetches[v].startSeq
         /\ row.after = fetches[v].after
<1>1. fetches[v] \in FetchRows /\ fetches[v].walk + 1 \in Nat
  BY DEF StoreInv, ShownOK, FetchRows
<1> QED
  BY <1>1 DEF AfterPage, FetchRows, Versions

LEMMA PagesKeep ==
  ASSUME StoreInv, NEW v \in Views, ServeCached(v) \/ ReadFromDb(v) \/ StoreTree(v)
  PROVE  StoreInv'
<1>1. fetches[v] \in FetchRows /\ ServerOK /\ fetches[v].version \in Versions
  BY DEF StoreInv, ShownOK, FetchRows
<1>2. CASE ServeCached(v)
  <2>1. AfterPage(v, apiCache) \in FetchRows /\ apiCache \in Versions /\ fetches[v].pc # "none"
    BY <1>1, <1>2, NextPage DEF ServerOK, ServeCached
  <2> QED
    BY <1>2, <2>1, NextPage, RequestGoesOn DEF ServeCached, serverVars, StoreInv, ServerOK
<1>3. CASE ReadFromDb(v)
  <2> DEFINE row == [fetches[v] EXCEPT !.pc = "reading", !.version = dbVersion]
  <2>1. /\ fetches' = [fetches EXCEPT ![v] = row] /\ fetches[v].pc # "none"
        /\ UNCHANGED <<entries, storeSeq, changes, dropped>>
    BY <1>3 DEF ReadFromDb
  <2>2. /\ row \in FetchRows /\ row.pc # "none" /\ row.startSeq = fetches[v].startSeq
        /\ row.after = fetches[v].after
    BY <1>1 DEF FetchRows, Versions, ServerOK
  <2>3. ServerOK'
    BY <1>1, <1>3 DEF ReadFromDb, ServerOK, Versions
  <2> HIDE DEF row
  <2> QED
    BY <2>1, <2>2, <2>3, RequestGoesOn
<1>4. CASE StoreTree(v)
  <2>1. /\ fetches' = [fetches EXCEPT ![v] = AfterPage(v, fetches[v].version)]
        /\ fetches[v].pc # "none" /\ UNCHANGED <<entries, storeSeq, changes, dropped>>
    BY <1>4 DEF StoreTree
  <2>2. ServerOK'
    BY <1>1, <1>4 DEF StoreTree, ServerOK
  <2> QED
    BY <1>1, <2>1, <2>2, NextPage, RequestGoesOn
<1> QED
  BY <1>2, <1>3, <1>4

(***************************************************************************)
(* A request ends: what its view shows then is older than storeSeq, and    *)
(* holds what was confirmed before it.                                     *)
(***************************************************************************)
LEMMA EndKeeps ==
  ASSUME StoreInv, NEW v \in Views, NEW entry \in EntryRows, Ended(v, entry),
         UNCHANGED <<serverVars, changeIds>>,
         entry.status # "idle" \/ entries[v].status = "idle",
         \/ /\ entry.loadedSeq = entries[v].loadedSeq /\ entry.holds = entries[v].holds
            /\ entry.status = "ready" => entries[v].status = "ready"
         \/ /\ fetches[v].pc # "none"
            /\ entry.loadedSeq = fetches[v].startSeq /\ entry.holds = fetches[v].after
  PROVE  StoreInv'
<1> DEFINE es == [entries EXCEPT ![v] = entry]
           fs == [fetches EXCEPT ![v] = NoFetch]
           some == IF entry.again THEN {v} ELSE {}
           gone == {c \in changes : Settled(c, es)}
           more == {[id |-> c.id, watch |-> c.watch] : c \in gone}
           result == Refetched(some, es, fs, storeSeq, Confirmed)
<1>1. /\ entries \in [Views -> EntryRows] /\ fetches \in [Views -> FetchRows] /\ storeSeq \in Nat
      /\ changes \in SUBSET ChangeRows /\ dropped \in SUBSET DroppedRows
      /\ ViewsOK(entries, fetches, storeSeq) /\ DroppedOK(entries, fetches, dropped)
      /\ ConfirmedOK(entries, fetches, storeSeq, changes)
  BY DEF StoreInv, ShownOK
<1>2. Refetch(result) /\ changes' = changes \ gone /\ dropped' = dropped \cup more
  BY DEF Ended, Prune
<1>3. NoFetch \in FetchRows /\ NoFetch.pc = "none"
  BY DEF NoFetch, FetchRows, Versions
<1>4. /\ es \in [Views -> EntryRows] /\ es[v] = entry
      /\ fs \in [Views -> FetchRows] /\ fs[v] = NoFetch
      /\ \A u \in Views \ {v} : es[u] = entries[u] /\ fs[u] = fetches[u]
  BY <1>1, <1>3
<1> HIDE DEF es, fs
<1>5. ViewsOK(es, fs, storeSeq)
  <2>1. entry.loadedSeq <= storeSeq
    BY <1>1 DEF ViewsOK
  <2> QED
    BY <1>1, <1>3, <1>4, <2>1 DEF ViewsOK
<1>6. ConfirmedOK(es, fs, storeSeq, changes)
  BY <1>1, <1>3, <1>4 DEF ConfirmedOK
<1>7. DroppedOK(es, fs, dropped)
  <2>1. \A c \in dropped : \A u \in c.watch : u \in Views
    BY <1>1 DEF DroppedRows
  <2> QED
    BY <1>1, <1>3, <1>4, <2>1 DEF DroppedOK
<1>8. ShownOK(es, fs, storeSeq, changes \ gone, dropped \cup more)
  <2>1. ShownOK(es, fs, storeSeq, changes, dropped)
    BY <1>1, <1>4, <1>5, <1>6, <1>7 DEF ShownOK
  <2> QED
    BY <2>1, PruneKeeps
<1>9. ShownOK(result.entries, result.fetches, result.seq, changes \ gone, dropped \cup more)
  <2>1. \A c \in changes \ gone : c.at = "confirmed" => c.id \in Ids(Confirmed)
    BY ConfirmedIds
  <2>2. \A c \in dropped \cup more : c.id \in Ids(Confirmed)
    <3>1. \A c \in gone : c \in changes /\ c.at = "confirmed"
      BY DEF Settled
    <3>2. \A c \in more : c.id \in Ids(Confirmed)
      BY <3>1, ConfirmedIds
    <3> QED
      BY <3>2, ConfirmedIds
  <2>3. some \in SUBSET Views /\ Ids(Confirmed) \in SUBSET Nat
    BY ConfirmedIds
  <2> HIDE DEF gone, more, some
  <2> QED
    BY <1>8, <2>1, <2>2, <2>3, RefetchKeeps DEF Ids
<1>10. ShownOK(entries', fetches', storeSeq', changes', dropped')
  BY <1>2, <1>9 DEF Refetch
<1> QED
  BY <1>10 DEF StoreInv, ServerOK, serverVars

LEMMA FetchStepsKeep ==
  ASSUME StoreInv, NEW v \in Views,
         OpenView(v) \/ ReceiveView(v) \/ FailView(v)
  PROVE  StoreInv'
<1>1. entries[v] \in EntryRows /\ fetches[v] \in FetchRows
  BY DEF StoreInv, ShownOK
<1>2. CASE OpenView(v)
  BY <1>2, FetchesKeep DEF OpenView
<1>4. CASE ReceiveView(v)
  <2> DEFINE fetch == fetches[v]
             entry == [entries[v] EXCEPT !.status = "ready", !.version = fetch.version,
                                         !.whole = Whole(v), !.loadedSeq = fetch.startSeq,
                                         !.holds = fetch.after]
  <2>1. /\ Ended(v, entry) /\ fetches[v].pc = "told" /\ UNCHANGED <<serverVars, changeIds>>
    BY <1>4 DEF ReceiveView
  <2>2. /\ entry \in EntryRows /\ entry.status = "ready" /\ entry.loadedSeq = fetch.startSeq
        /\ entry.holds = fetch.after
    <3>1. Whole(v) \in BOOLEAN
      BY DEF Whole
    <3>2. /\ fetch.version \in Versions /\ fetch.startSeq \in Nat /\ fetch.after \in SUBSET Nat
      BY <1>1 DEF FetchRows
    <3> HIDE DEF fetch
    <3> QED
      BY <1>1, <3>1, <3>2 DEF EntryRows
  <2> HIDE DEF entry
  <2>3. entry.status # "idle"
    BY <2>2
  <2> QED
    BY <2>1, <2>2, <2>3, EndKeeps
<1>5. CASE FailView(v)
  <2>1. PICK gone \in BOOLEAN :
          Ended(v, [entries[v] EXCEPT !.status = IF @ = "ready" /\ ~gone THEN @ ELSE "error"])
    BY <1>5 DEF FailView
  <2> DEFINE entry == [entries[v] EXCEPT !.status = IF @ = "ready" /\ ~gone THEN @ ELSE "error"]
  <2>2. /\ entry \in EntryRows /\ entry.status # "idle" /\ entry.holds = entries[v].holds
        /\ entry.loadedSeq = entries[v].loadedSeq
        /\ entry.status = "ready" => entries[v].status = "ready"
    BY <1>1 DEF EntryRows
  <2>3. Ended(v, entry) /\ UNCHANGED <<serverVars, changeIds>>
    BY <1>5, <2>1 DEF FailView
  <2> HIDE DEF entry
  <2> QED
    BY <2>2, <2>3, EndKeeps
<1> QED
  BY <1>2, <1>4, <1>5

LEMMA TrimKeeps ==
  ASSUME StoreInv, NEW v \in Views, TrimDetail(v)
  PROVE  StoreInv'
<1> DEFINE es == [entries EXCEPT ![v] = IdleEntry]
           gone == {c \in changes : Settled(c, es)}
<1>1. /\ entries \in [Views -> EntryRows] /\ fetches \in [Views -> FetchRows] /\ storeSeq \in Nat
      /\ changes \in SUBSET ChangeRows /\ dropped \in SUBSET DroppedRows
      /\ ViewsOK(entries, fetches, storeSeq) /\ DroppedOK(entries, fetches, dropped)
      /\ ConfirmedOK(entries, fetches, storeSeq, changes)
  BY DEF StoreInv, ShownOK
<1>2. /\ fetches[v].pc = "none" /\ entries' = es /\ changes' = changes \ gone
      /\ dropped' = dropped \cup {[id |-> c.id, watch |-> c.watch] : c \in gone}
      /\ UNCHANGED <<serverVars, fetches, storeSeq, changeIds>>
  BY DEF TrimDetail, InFlight, Prune
<1>3. IdleEntry \in EntryRows /\ IdleEntry.status = "idle" /\ IdleEntry.loadedSeq = 0
  BY DEF IdleEntry, EntryRows, Versions
<1>4. /\ es \in [Views -> EntryRows] /\ es[v] = IdleEntry
      /\ \A u \in Views \ {v} : es[u] = entries[u]
  BY <1>1, <1>3
<1> HIDE DEF es
<1>5. ViewsOK(es, fetches, storeSeq)
  BY <1>1, <1>2, <1>3, <1>4 DEF ViewsOK
<1>6. ConfirmedOK(es, fetches, storeSeq, changes)
  <2>1. \A c \in changes : c.confirmed \in Nat
    BY <1>1 DEF ChangeRows
  <2> QED
    BY <1>1, <1>2, <1>3, <1>4, <2>1 DEF ConfirmedOK
<1>7. DroppedOK(es, fetches, dropped)
  <2>1. \A c \in dropped : \A u \in c.watch : u \in Views
    BY <1>1 DEF DroppedRows
  <2> QED
    BY <1>1, <1>2, <1>3, <1>4, <2>1 DEF DroppedOK
<1>8. ShownOK(es, fetches, storeSeq, changes, dropped)
  BY <1>1, <1>4, <1>5, <1>6, <1>7 DEF ShownOK
<1>9. ShownOK(entries', fetches', storeSeq', changes', dropped')
  BY <1>2, <1>8, PruneKeeps
<1> QED
  BY <1>2, <1>9 DEF StoreInv, ServerOK, serverVars

LEMMA ConfirmKeeps ==
  ASSUME StoreInv, NEW c \in changes, Confirm(c)
  PROVE  StoreInv'
<1>1. /\ entries \in [Views -> EntryRows] /\ fetches \in [Views -> FetchRows] /\ storeSeq \in Nat
      /\ changes \in SUBSET ChangeRows /\ dropped \in SUBSET DroppedRows
      /\ ViewsOK(entries, fetches, storeSeq) /\ DroppedOK(entries, fetches, dropped)
      /\ ConfirmedOK(entries, fetches, storeSeq, changes)
  BY DEF StoreInv, ShownOK
<1> DEFINE at(watch) == [c EXCEPT !.at = "confirmed", !.confirmed = storeSeq + 1,
                                  !.watch = watch]
           some(watch) == {v \in watch : entries[v].status # "idle"}
           asked(watch) == Confirmed \cup {at(watch)}
           after(watch) == Refetched(some(watch), entries, fetches, storeSeq + 1, asked(watch))
<1>2. PICK watch \in Watched(c) :
        /\ Refetch(after(watch))
        /\ Prune((changes \ {c}) \cup {at(watch)}, after(watch).entries)
  BY DEF Confirm
<1> DEFINE row == at(watch)
           these == (changes \ {c}) \cup {row}
           result == after(watch)
           gone == {d \in these : Settled(d, result.entries)}
<1>3. c \in ChangeRows /\ watch \in SUBSET Views
  <2>1. c \in ChangeRows
    BY <1>1
  <2>2. c.over \in SUBSET Views
    BY <2>1 DEF ChangeRows
  <2> QED
    BY <2>1, <2>2 DEF Watched
<1>4. /\ row \in ChangeRows /\ row.id = c.id /\ row.id \in Nat /\ row.confirmed = storeSeq + 1
  <2> DEFINE seq == storeSeq + 1
             new == [c EXCEPT !.at = "confirmed", !.confirmed = seq, !.watch = watch]
  <2>1. seq \in Nat
    BY <1>1
  <2> HIDE DEF seq
  <2>2. new \in ChangeRows /\ new.id = c.id /\ new.id \in Nat /\ new.confirmed = seq
    BY <1>3, <2>1 DEF ChangeRows
  <2> QED
    BY <2>2 DEF seq
<1> HIDE DEF at
<1>5. these \in SUBSET ChangeRows
  BY <1>1, <1>4
<1>6. ShownOK(entries, fetches, storeSeq + 1, these, dropped)
  <2>1. \A v \in Views : entries[v].loadedSeq \in Nat /\ fetches[v].startSeq \in Nat
    <3>1. \A v \in Views : entries[v] \in EntryRows /\ fetches[v] \in FetchRows
      BY <1>1
    <3> QED
      BY <3>1 DEF EntryRows, FetchRows
  <2>2. ViewsOK(entries, fetches, storeSeq + 1)
    BY <1>1, <2>1 DEF ViewsOK
  <2>3. \A d \in changes : d.confirmed \in Nat
    BY <1>1 DEF ChangeRows
  <2>4. ConfirmedOK(entries, fetches, storeSeq + 1, changes)
    BY <1>1, <2>3 DEF ConfirmedOK
  <2>5. ConfirmedOK(entries, fetches, storeSeq + 1, {row})
    BY <1>1, <1>4, <2>1 DEF ConfirmedOK, ViewsOK
  <2>6. ConfirmedOK(entries, fetches, storeSeq + 1, these)
    BY <2>4, <2>5 DEF ConfirmedOK
  <2> QED
    BY <1>1, <1>5, <2>2, <2>6 DEF ShownOK
<1>7. /\ Ids(asked(watch)) \in SUBSET Nat
      /\ \A d \in these : d.at = "confirmed" => d.id \in Ids(asked(watch))
      /\ \A d \in dropped : d.id \in Ids(asked(watch))
  <2>1. Ids(asked(watch)) = Ids(Confirmed) \cup {row.id}
    BY DEF Ids
  <2> QED
    BY <1>4, <2>1, ConfirmedIds
<1>8. some(watch) \in SUBSET Views
  BY <1>3
<1>9. ShownOK(result.entries, result.fetches, result.seq, these, dropped)
  <2> HIDE DEF these, some, asked
  <2> QED
    BY <1>6, <1>7, <1>8, RefetchKeeps DEF Ids
<1>10. /\ changes' = these \ gone
       /\ dropped' = dropped \cup {[id |-> d.id, watch |-> d.watch] : d \in gone}
       /\ entries' = result.entries /\ fetches' = result.fetches /\ storeSeq' = result.seq
  BY <1>2 DEF Refetch, Prune
<1>11. ShownOK(entries', fetches', storeSeq', changes', dropped')
  <2> HIDE DEF these, result
  <2> QED
    BY <1>9, <1>10, PruneKeeps
<1>12. UNCHANGED <<serverVars, changeIds>>
  BY DEF Confirm
<1> QED
  BY <1>11, <1>12 DEF StoreInv, ServerOK, serverVars

LEMMA WritesKeep ==
  ASSUME StoreInv,
         \/ CommitElsewhere \/ Disconnect \/ Reconnect
         \/ \E over \in SUBSET Views : StartChange(over)
         \/ \E c \in changes : CommitChange(c) \/ Reject(c)
         \/ \E commit \in committing : AnnounceCommit(commit) \/ LoseCommit(commit)
  PROVE  StoreInv'
<1>1. /\ changes \in SUBSET ChangeRows /\ ServerOK
      /\ dbVersion \in Nat /\ apiCache \in Versions /\ changeIds \in Nat
      /\ \A commit \in committing : commit.version \in Nat
  BY DEF StoreInv, ShownOK, ServerOK
<1>2. \A c \in ChangeRows, at \in {"applied", "answered", "failed"} :
        LET row == [c EXCEPT !.at = at] IN row \in ChangeRows /\ row.at = at
  BY DEF ChangeRows
<1>3. CASE CommitElsewhere
  <2>1. ServerOK'
    BY <1>1, <1>3 DEF CommitElsewhere, Commit, ServerOK
  <2> QED
    BY <1>1, <1>3, <2>1, ShownStays DEF CommitElsewhere, Commit
<1>4. CASE Disconnect \/ Reconnect
  BY <1>1, <1>4, ShownStays DEF Disconnect, Reconnect, serverVars, ServerOK
<1>5. ASSUME NEW over \in SUBSET Views, StartChange(over)
      PROVE  StoreInv'
  <2> DEFINE row == [id |-> changeIds + 1, over |-> over, at |-> "sent",
                     confirmed |-> 0, watch |-> {}]
  <2>1. row \in ChangeRows /\ row.at = "sent" /\ changes' = changes \cup {row}
    BY <1>1, <1>5 DEF StartChange, ChangeRows
  <2>2. ServerOK' /\ UNCHANGED <<shownVars, dropped>>
    BY <1>1, <1>5 DEF StartChange, ServerOK, serverVars
  <2> HIDE DEF row
  <2> QED
    BY <1>1, <2>1, <2>2, ShownStays
<1>6. ASSUME NEW c \in changes, CommitChange(c)
      PROVE  StoreInv'
  <2> DEFINE row == [c EXCEPT !.at = "applied"]
  <2>1. row \in ChangeRows /\ row.at = "applied"
    BY <1>1, <1>2
  <2>2. changes' = (changes \ {c}) \cup {row} /\ UNCHANGED <<shownVars, dropped>>
    BY <1>6 DEF CommitChange
  <2>3. ServerOK'
    BY <1>1, <1>6 DEF CommitChange, Commit, ServerOK
  <2> HIDE DEF row
  <2> QED
    BY <1>1, <2>1, <2>2, <2>3, ShownStays
<1>7. ASSUME NEW c \in changes, Reject(c)
      PROVE  StoreInv'
  BY <1>1, <1>7, ShownStays DEF Reject, serverVars, ServerOK
<1>8. ASSUME NEW commit \in committing, AnnounceCommit(commit) \/ LoseCommit(commit)
      PROVE  StoreInv'
  <2>1. PICK at \in {"answered", "failed"} : RequestEnds(commit, at)
    BY <1>8 DEF AnnounceCommit, LoseCommit
  <2>2. \A c \in changes' : c \in ChangeRows /\ (c.at = "confirmed" => c \in changes)
    <3> DEFINE row(c) == [c EXCEPT !.at = at]
    <3>1. \A c \in changes : row(c) \in ChangeRows /\ row(c).at # "confirmed"
      BY <1>1, <1>2
    <3>2. changes' = {IF c.id = commit.change THEN row(c) ELSE c : c \in changes}
      BY <2>1 DEF RequestEnds
    <3> HIDE DEF row
    <3> QED
      BY <1>1, <3>1, <3>2
  <2>3. ServerOK'
    BY <1>1, <1>8 DEF AnnounceCommit, LoseCommit, ServerOK, Versions
  <2>4. UNCHANGED <<shownVars, dropped>>
    BY <1>8 DEF AnnounceCommit, LoseCommit
  <2> QED
    BY <2>2, <2>3, <2>4, ShownStays
<1> QED
  BY <1>3, <1>4, <1>5, <1>6, <1>7, <1>8

LEMMA StoreStarts == StoreInit => StoreInv
<1> SUFFICES ASSUME StoreInit
             PROVE  StoreInv
  OBVIOUS
<1>1. IdleEntry \in EntryRows /\ IdleEntry.status = "idle" /\ IdleEntry.loadedSeq = 0
  BY DEF IdleEntry, EntryRows, Versions
<1>2. NoFetch \in FetchRows /\ NoFetch.pc = "none"
  BY DEF NoFetch, FetchRows, Versions
<1>3. ServerOK
  BY DEF StoreInit, ServerOK, Versions
<1>4. ShownOK(entries, fetches, storeSeq, changes, dropped)
  BY <1>1, <1>2 DEF StoreInit, ShownOK, ViewsOK, ConfirmedOK, DroppedOK
<1> QED
  BY <1>3, <1>4 DEF StoreInv

LEMMA StoreStepsKeep == StoreInv /\ [StoreNext]_storeVars => StoreInv'
<1> SUFFICES ASSUME StoreInv, [StoreNext]_storeVars
             PROVE  StoreInv'
  OBVIOUS
<1>1. CASE StoreNext
  <2>1. ASSUME NEW v \in Views,
               \/ OpenView(v) \/ ServeCached(v) \/ ReadFromDb(v) \/ StoreTree(v)
               \/ ReceiveView(v) \/ FailView(v) \/ TrimDetail(v)
        PROVE  StoreInv'
    BY <2>1, FetchStepsKeep, PagesKeep, TrimKeeps
  <2>2. ASSUME NEW news \in socket.inbox, Note(news)
        PROVE  StoreInv'
    <3>1. Outdated(news) \in SUBSET Views
      BY DEF Outdated
    <3> QED
      BY <2>2, <3>1, FetchesKeep DEF Note
  <2> QED
    BY <1>1, <2>1, <2>2, WritesKeep, ConfirmKeeps DEF StoreNext
<1>2. CASE UNCHANGED storeVars
  BY <1>2 DEF storeVars, serverVars, shownVars, StoreInv, ServerOK, ShownOK
<1> QED
  BY <1>1, <1>2

(***************************************************************************)
(* The invariant of the browser's store holds through every interleaving   *)
(* of fetches, announcements, answers and disconnections (task-store.ts).  *)
(***************************************************************************)
THEOREM StoreInvAlways == StoreSpec => []StoreInv
<1> QED
  BY StoreStarts, StoreStepsKeep, PTL DEF StoreSpec

(***************************************************************************)
(* A confirmed change is not dropped before all it touches was fetched     *)
(* after the confirmation, and what is fetched later still shows it        *)
(* (task-store.ts pruneChanges).                                           *)
(***************************************************************************)
THEOREM ConfirmedChangesStay == StoreSpec => []ConfirmedUntilFetched
<1>1. StoreInv => ConfirmedUntilFetched
  BY DEF StoreInv, ShownOK, DroppedOK, ConfirmedUntilFetched
<1> QED
  BY <1>1, StoreInvAlways, PTL

-----------------------------------------------------------------------------
(* The browser catches up: the inductive invariant. *)

Sent == {c \in changes : c.at = "sent"}

ServerBounds ==
  /\ dbVersion \in Nat /\ IsFiniteSet(Sent) /\ dbVersion + Cardinality(Sent) <= MaxWrites
  /\ known \in 1 .. dbVersion /\ apiCache \in (1 .. known) \cup {NoVersion}
  /\ \A commit \in committing : commit.version \in 1 .. dbVersion /\ commit.names \subseteq Details
  /\ socket = [up |-> socket.up, inbox |-> socket.inbox, disruptions |-> socket.disruptions]
  /\ socket.inbox \subseteq [version : 0 .. dbVersion, names : SUBSET Details]
  /\ named \in [Details -> 1 .. dbVersion]

\* The entry of a view and its request, of versions up to `top` and changes up to `ids`.
Bounded(entry, fetch, top, ids) ==
  /\ entry.version \in 0 .. top /\ entry.holds \subseteq 1 .. ids /\ fetch.after \subseteq 1 .. ids
  /\ fetch.pc \in {"reading", "told"} => fetch.version \in 1 .. top

ChangesBounded == \A c \in changes \cup dropped : c.id \in 1 .. changeIds

\* A change that everything has replaced is gone.
Unsettled(cs, es) == \A c \in cs : ~ Settled(c, es)

BrowserBounds ==
  /\ ServerBounds /\ ChangesBounded /\ Unsettled(changes, entries)
  /\ \A v \in Views : Bounded(entries[v], fetches[v], known, changeIds)

\* A view goes forward only.
Forward(entry, fetch) ==
  /\ entry.whole
  /\ fetch.pc \in {"reading", "told"} => entry.version <= fetch.version

\* A view shows version `top`, or its request will bring it, or the request after that.
CatchesUp(entry, fetch, top) ==
  \/ entry.status = "idle"
  \/ fetch.pc = "none" /\ entry.version >= top
  \/ fetch.pc # "none" /\ (entry.again \/ fetch.pc = "ask" \/ fetch.version >= top)

\* What a confirmed change waits for has come, or is asked for.
Awaited(v, entry, fetch, cs) ==
  \A c \in cs : c.at = "confirmed" /\ v \in c.watch =>
    \/ entry.status = "idle"
    \/ fetch.pc = "none" /\ entry.loadedSeq > c.confirmed
    \/ fetch.pc # "none" /\ (entry.again \/ fetch.startSeq > c.confirmed)

\* What makes a list or a detail fetch what is newest for it is not announced yet,
\* or comes to the socket.
Concerns(news, v) == v \in Details => v \in news.names
Committing(v) == \E commit \in committing : commit.version = Newest(v) /\ Concerns(commit, v)
OnTheWay(v) ==
  \/ Committing(v) \/ ~ socket.up
  \/ \E news \in socket.inbox : news.version >= Newest(v) /\ Concerns(news, v)

Smooth ==
  /\ apiCache \in {known, NoVersion}
  /\ \A v \in Views : /\ Committing(v) \/ Newest(v) <= known
                      /\ Forward(entries[v], fetches[v])
                      /\ Awaited(v, entries[v], fetches[v], changes)
                      /\ OnTheWay(v) \/ CatchesUp(entries[v], fetches[v], Newest(v))

CatchUpInv == StoreInv /\ BrowserBounds /\ (mishaps = {} => Smooth)

-----------------------------------------------------------------------------
(* The browser catches up: refetching. *)

LEMMA ShownRows ==
  ASSUME StoreInv
  PROVE  /\ entries \in [Views -> EntryRows] /\ fetches \in [Views -> FetchRows]
         /\ storeSeq \in Nat /\ changes \in SUBSET ChangeRows /\ dropped \in SUBSET DroppedRows
         /\ \A c \in changes : c.at = "confirmed" => c.confirmed <= storeSeq
BY DEF StoreInv, ShownOK, ConfirmedOK

(***************************************************************************)
(* What becomes of one view when some are fetched.                         *)
(***************************************************************************)
LEMMA RefetchedView ==
  ASSUME NEW es \in [Views -> EntryRows], NEW fs \in [Views -> FetchRows], NEW seq \in Nat,
         NEW some \in SUBSET Views, NEW confirmed,
         NEW result, result = Refetched(some, es, fs, seq, confirmed), NEW v \in Views
  PROVE  LET entry == result.entries[v]
             fetch == result.fetches[v] IN
         /\ v \notin some => entry = es[v] /\ fetch = fs[v]
         /\ entry.version = es[v].version /\ entry.whole = es[v].whole
         /\ entry.loadedSeq = es[v].loadedSeq /\ entry.holds = es[v].holds
         /\ entry.status = "idle" => es[v].status = "idle"
         /\ v \in some /\ fs[v].pc # "none" => entry.again /\ fetch = fs[v]
         /\ v \in some /\ fs[v].pc = "none" =>
              fetch.pc = "ask" /\ fetch.startSeq = seq + 1 /\ fetch.after = Ids(confirmed)
<1> DEFINE entry == result.entries[v]
           fetch == result.fetches[v]
<1>1. es[v] \in EntryRows /\ fs[v] \in FetchRows
  OBVIOUS
<1>2. entry = IF v \notin some THEN es[v]
              ELSE IF fs[v].pc # "none" THEN [es[v] EXCEPT !.again = TRUE]
              ELSE [es[v] EXCEPT !.again = FALSE,
                                 !.status = IF @ = "ready" THEN @ ELSE "loading"]
  BY DEF Refetched
<1>3. fetch = IF v \notin some \/ fs[v].pc # "none" THEN fs[v]
              ELSE [NoFetch EXCEPT !.pc = "ask", !.startSeq = seq + 1, !.after = Ids(confirmed)]
  BY DEF Refetched, Ids
<1>4. /\ entry.version = es[v].version /\ entry.whole = es[v].whole
      /\ entry.loadedSeq = es[v].loadedSeq /\ entry.holds = es[v].holds
      /\ entry.status = "idle" => es[v].status = "idle"
      /\ v \notin some => entry = es[v]
      /\ v \in some /\ fs[v].pc # "none" => entry.again
  BY <1>1, <1>2 DEF EntryRows
<1>5. v \in some /\ fs[v].pc = "none" =>
        fetch.pc = "ask" /\ fetch.startSeq = seq + 1 /\ fetch.after = Ids(confirmed)
  BY <1>3 DEF NoFetch
<1> QED
  BY <1>3, <1>4, <1>5

LEMMA RefetchCatchesUp ==
  ASSUME NEW es \in [Views -> EntryRows], NEW fs \in [Views -> FetchRows], NEW seq \in Nat,
         NEW some \in SUBSET Views, NEW confirmed,
         NEW result, result = Refetched(some, es, fs, seq, confirmed), NEW v \in Views
  PROVE  LET entry == result.entries[v]
             fetch == result.fetches[v] IN
         /\ \A top, ids : Bounded(es[v], fs[v], top, ids) /\ Ids(confirmed) \subseteq 1 .. ids
                            => Bounded(entry, fetch, top, ids)
         /\ Forward(es[v], fs[v]) => Forward(entry, fetch)
         /\ \A top : v \in some \/ CatchesUp(es[v], fs[v], top) => CatchesUp(entry, fetch, top)
         /\ \A cs \in SUBSET ChangeRows :
              /\ \A c \in cs : c.at = "confirmed" => c.confirmed <= seq
              /\ v \in some \/ Awaited(v, es[v], fs[v], cs)
              => Awaited(v, entry, fetch, cs)
<1> DEFINE entry == result.entries[v]
           fetch == result.fetches[v]
<1>1. /\ v \notin some => entry = es[v] /\ fetch = fs[v]
      /\ entry.version = es[v].version /\ entry.whole = es[v].whole
      /\ entry.loadedSeq = es[v].loadedSeq /\ entry.holds = es[v].holds
      /\ entry.status = "idle" => es[v].status = "idle"
      /\ v \in some /\ fs[v].pc # "none" => entry.again /\ fetch = fs[v]
      /\ v \in some /\ fs[v].pc = "none" =>
           fetch.pc = "ask" /\ fetch.startSeq = seq + 1 /\ fetch.after = Ids(confirmed)
  <2>1. /\ es \in [Views -> EntryRows] /\ fs \in [Views -> FetchRows] /\ seq \in Nat
        /\ some \in SUBSET Views /\ v \in Views
        /\ result = Refetched(some, es, fs, seq, confirmed)
    OBVIOUS
  <2> QED
    BY ONLY <2>1, RefetchedView
<1> HIDE DEF entry, fetch
<1>2. ASSUME NEW top, NEW ids, Bounded(es[v], fs[v], top, ids), Ids(confirmed) \subseteq 1 .. ids
      PROVE  Bounded(entry, fetch, top, ids)
  BY <1>1, <1>2 DEF Bounded
<1>3. Forward(es[v], fs[v]) => Forward(entry, fetch)
  BY <1>1 DEF Forward
<1>4. ASSUME NEW top, v \in some \/ CatchesUp(es[v], fs[v], top)
      PROVE  CatchesUp(entry, fetch, top)
  BY <1>1, <1>4 DEF CatchesUp
<1>5. ASSUME NEW cs \in SUBSET ChangeRows,
             \A c \in cs : c.at = "confirmed" => c.confirmed <= seq,
             v \in some \/ Awaited(v, es[v], fs[v], cs)
      PROVE  Awaited(v, entry, fetch, cs)
  <2>1. \A c \in cs : c.confirmed \in Nat
    BY DEF ChangeRows
  <2> QED
    BY <1>1, <1>5, <2>1 DEF Awaited
<1> QED
  BY <1>2, <1>3, <1>4, <1>5 DEF entry, fetch

\* Fetching settles no change.
LEMMA RefetchSettlesNothing ==
  ASSUME NEW es \in [Views -> EntryRows], NEW fs \in [Views -> FetchRows], NEW seq \in Nat,
         NEW some \in SUBSET Views, NEW confirmed,
         NEW result, result = Refetched(some, es, fs, seq, confirmed),
         NEW cs \in SUBSET ChangeRows, Unsettled(cs, es)
  PROVE  Unsettled(cs, result.entries)
<1>1. \A v \in Views : /\ result.entries[v].status = "idle" => es[v].status = "idle"
                       /\ result.entries[v].loadedSeq = es[v].loadedSeq
  BY RefetchedView
<1>2. \A c \in cs : c.watch \subseteq Views
  BY DEF ChangeRows
<1> QED
  BY <1>1, <1>2 DEF Unsettled, Settled

(***************************************************************************)
(* Views are fetched, and nothing else happens.                            *)
(***************************************************************************)
LEMMA ConfirmedBounds ==
  ASSUME ChangesBounded
  PROVE  Ids(Confirmed) \subseteq 1 .. changeIds
BY DEF ChangesBounded, Confirmed, Ids

LEMMA FetchesCatchUp ==
  ASSUME CatchUpInv, NEW some \in SUBSET Views,
         Refetch(Refetched(some, entries, fetches, storeSeq, Confirmed)),
         UNCHANGED <<serverVars, changes, changeIds, dropped, mishaps>>,
         socket' = [socket EXCEPT !.inbox = socket'.inbox], socket'.inbox \subseteq socket.inbox,
         \A v \in Views : mishaps = {} /\ OnTheWay(v)
           => OnTheWay(v)' \/ v \in some \/ CatchesUp(entries[v], fetches[v], Newest(v))
  PROVE  CatchUpInv'
<1> DEFINE result == Refetched(some, entries, fetches, storeSeq, Confirmed)
<1>1. /\ entries \in [Views -> EntryRows] /\ fetches \in [Views -> FetchRows]
      /\ storeSeq \in Nat /\ changes \in SUBSET ChangeRows
      /\ \A c \in changes : c.at = "confirmed" => c.confirmed <= storeSeq
  BY ShownRows DEF CatchUpInv
<1>2. /\ entries' = result.entries /\ fetches' = result.fetches
      /\ dbVersion' = dbVersion /\ known' = known /\ apiCache' = apiCache
      /\ committing' = committing /\ named' = named
      /\ changes' = changes /\ changeIds' = changeIds /\ dropped' = dropped /\ mishaps' = mishaps
  BY DEF Refetch, serverVars
<1>3. StoreInv'
  BY FetchesKeep DEF CatchUpInv
<1> HIDE DEF result
<1>4. ServerBounds'
  BY <1>2 DEF CatchUpInv, BrowserBounds, ServerBounds, Sent
<1>5. ChangesBounded'
  BY <1>2 DEF CatchUpInv, BrowserBounds, ChangesBounded
<1>6. Unsettled(changes', entries')
  BY <1>1, <1>2, RefetchSettlesNothing DEF CatchUpInv, BrowserBounds, result
<1>7. \A v \in Views : Bounded(entries'[v], fetches'[v], known', changeIds')
  <2>1. Ids(Confirmed) \subseteq 1 .. changeIds
    BY ConfirmedBounds DEF CatchUpInv, BrowserBounds
  <2> QED
    BY <1>1, <1>2, <2>1, RefetchCatchesUp DEF CatchUpInv, BrowserBounds, result
<1>8. ASSUME mishaps' = {}
      PROVE  Smooth'
  <2>1. Smooth
    BY <1>2, <1>8 DEF CatchUpInv
  <2>2. ASSUME NEW v \in Views
        PROVE  /\ Forward(entries'[v], fetches'[v])
               /\ Awaited(v, entries'[v], fetches'[v], changes')
               /\ v \in some \/ CatchesUp(entries[v], fetches[v], Newest(v))
                    => CatchesUp(entries'[v], fetches'[v], Newest(v))
    <3>1. Forward(entries[v], fetches[v]) /\ Awaited(v, entries[v], fetches[v], changes)
      BY <2>1 DEF Smooth
    <3>2. result = Refetched(some, entries, fetches, storeSeq, Confirmed)
      BY DEF result
    <3>3. /\ Forward(entries[v], fetches[v]) => Forward(entries'[v], fetches'[v])
          /\ \A top : v \in some \/ CatchesUp(entries[v], fetches[v], top)
                        => CatchesUp(entries'[v], fetches'[v], top)
          /\ \A cs \in SUBSET ChangeRows :
               /\ \A c \in cs : c.at = "confirmed" => c.confirmed <= storeSeq
               /\ v \in some \/ Awaited(v, entries[v], fetches[v], cs)
               => Awaited(v, entries'[v], fetches'[v], cs)
      BY ONLY <1>1, <1>2, <3>2, v \in Views, some \in SUBSET Views, RefetchCatchesUp
    <3> QED
      BY <1>1, <1>2, <3>1, <3>3
  <2>3. \A v \in Views : Newest(v)' = Newest(v) /\ (Committing(v) => Committing(v)')
    BY <1>2 DEF Newest, Committing
  <2>4. \A v \in Views : OnTheWay(v)' \/ CatchesUp(entries'[v], fetches'[v], Newest(v))
    BY <1>2, <1>8, <2>1, <2>2 DEF Smooth
  <2> QED
    BY <1>2, <2>1, <2>2, <2>3, <2>4 DEF Smooth
<1> QED
  BY <1>3, <1>4, <1>5, <1>6, <1>7, <1>8 DEF CatchUpInv, BrowserBounds

LEMMA OpensAndNotesCatchUp ==
  ASSUME CatchUpInv, \/ \E v \in Views : OpenView(v)
                     \/ \E news \in socket.inbox : Note(news)
  PROVE  CatchUpInv'
<1>1. /\ dbVersion \in Nat /\ known \in 1 .. dbVersion
      /\ socket = [up |-> socket.up, inbox |-> socket.inbox, disruptions |-> socket.disruptions]
      /\ socket.inbox \subseteq [version : 0 .. dbVersion, names : SUBSET Details]
      /\ \A v \in Views : Bounded(entries[v], fetches[v], known, changeIds)
  BY DEF CatchUpInv, BrowserBounds, ServerBounds
<1>2. ASSUME NEW v \in Views, OpenView(v)
      PROVE  CatchUpInv'
  <2>1. /\ Refetch(Refetched({v}, entries, fetches, storeSeq, Confirmed))
        /\ UNCHANGED <<serverVars, changes, changeIds, dropped, mishaps>> /\ socket' = socket
    BY <1>2 DEF OpenView
  <2>2. socket' = [socket EXCEPT !.inbox = socket'.inbox] /\ socket'.inbox \subseteq socket.inbox
    BY <1>1, <2>1
  <2>3. \A u \in Views : OnTheWay(u) => OnTheWay(u)'
    BY <2>1 DEF OnTheWay, Committing, Newest, serverVars
  <2> QED
    BY <2>1, <2>2, <2>3, FetchesCatchUp
<1>3. ASSUME NEW news \in socket.inbox, Note(news)
      PROVE  CatchUpInv'
  <2> DEFINE some == Outdated(news)
  <2>1. /\ Refetch(Refetched(some, entries, fetches, storeSeq, Confirmed))
        /\ UNCHANGED <<serverVars, changes, changeIds, dropped, mishaps>>
        /\ socket' = [socket EXCEPT !.inbox = @ \ {news}]
    BY <1>3 DEF Note
  <2>2. /\ socket'.inbox = socket.inbox \ {news} /\ socket'.up = socket.up
        /\ socket' = [socket EXCEPT !.inbox = socket'.inbox]
        /\ socket'.inbox \subseteq socket.inbox
    BY <1>1, <2>1
  <2>3. some \in SUBSET Views
    BY DEF Outdated
  <2>4. /\ dbVersion' = dbVersion /\ committing' = committing
        /\ \A v \in Views : Newest(v)' = Newest(v)
    BY <2>1 DEF serverVars, Newest
  <2>5. ASSUME NEW v \in Views, mishaps = {}, OnTheWay(v), ~ OnTheWay(v)'
        PROVE  v \in some \/ CatchesUp(entries[v], fetches[v], Newest(v))
    <3> SUFFICES ASSUME v \notin some, entries[v].status # "idle"
                 PROVE  CatchesUp(entries[v], fetches[v], Newest(v))
      BY DEF CatchesUp
    <3>1. Bounded(entries[v], fetches[v], known, changeIds) /\ Forward(entries[v], fetches[v])
      BY <1>1, <2>5 DEF CatchUpInv, Smooth
    <3>2. news.version >= Newest(v) /\ Concerns(news, v)
      BY <2>2, <2>4, <2>5 DEF OnTheWay, Committing
    <3>3. v \in Lists /\ ~ entries[v].version < news.version
      BY <3>2 DEF Outdated, Concerns, Views
    <3>4. entries[v].version >= Newest(v) /\ entries[v].version \in Nat /\ Newest(v) \in Nat
      BY <1>1, <3>1, <3>2, <3>3 DEF Bounded, Newest
    <3>5. fetches[v].pc \in {"none", "ask", "reading", "told"}
      BY ShownRows DEF CatchUpInv, FetchRows
    <3>6. CASE fetches[v].pc \in {"reading", "told"}
      BY <1>1, <3>1, <3>4, <3>6 DEF Bounded, Forward, CatchesUp
    <3> QED
      BY <3>4, <3>5, <3>6 DEF CatchesUp
  <2> HIDE DEF some
  <2> QED
    BY <2>1, <2>2, <2>3, <2>5, FetchesCatchUp
<1> QED
  BY <1>2, <1>3

(***************************************************************************)
(* A request goes on, with a version that was known by then.               *)
(***************************************************************************)
LEMMA RequestCatchesUp ==
  ASSUME CatchUpInv, StoreInv', ServerBounds', NEW v \in Views, fetches[v].pc # "none",
         NEW row, row.pc # "none", row.startSeq = fetches[v].startSeq,
         row.after = fetches[v].after,
         fetches' = [fetches EXCEPT ![v] = row],
         UNCHANGED <<dbVersion, committing, named, socket, entries, storeSeq, changes,
                     changeIds, dropped>>,
         known <= known', row.pc \in {"reading", "told"} => row.version \in 1 .. known',
         mishaps' = {} =>
           /\ mishaps = {} /\ apiCache' \in {known', NoVersion}
           /\ Forward(entries[v], row)
           /\ OnTheWay(v) \/ CatchesUp(entries[v], row, Newest(v))
  PROVE  CatchUpInv'
<1>1. /\ entries \in [Views -> EntryRows] /\ fetches \in [Views -> FetchRows]
      /\ changes \in SUBSET ChangeRows
  BY ShownRows DEF CatchUpInv
<1>2. /\ fetches'[v] = row /\ \A u \in Views \ {v} : fetches'[u] = fetches[u]
  BY <1>1
<1>3. ChangesBounded' /\ Unsettled(changes', entries')
  BY DEF CatchUpInv, BrowserBounds, ChangesBounded
<1>4. ASSUME NEW u \in Views
      PROVE  Bounded(entries'[u], fetches'[u], known', changeIds')
  <2>1. known \in Nat /\ known' \in Nat /\ Bounded(entries[u], fetches[u], known, changeIds)
    BY DEF CatchUpInv, BrowserBounds, ServerBounds
  <2>2. \A n \in Nat : n <= known => n <= known'
    BY <2>1
  <2>3. CASE u = v
    BY <1>2, <2>1, <2>2, <2>3 DEF Bounded
  <2>4. CASE u # v
    BY <1>2, <2>1, <2>2, <2>4 DEF Bounded
  <2> QED
    BY <2>3, <2>4
<1>5. ASSUME mishaps' = {}
      PROVE  Smooth'
  <2>1. Smooth
    BY <1>5 DEF CatchUpInv
  <2>2. ASSUME NEW u \in Views
        PROVE  /\ Forward(entries'[u], fetches'[u])
               /\ Awaited(u, entries'[u], fetches'[u], changes')
               /\ OnTheWay(u) \/ CatchesUp(entries'[u], fetches'[u], Newest(u))
    <3>1. /\ Forward(entries[u], fetches[u]) /\ Awaited(u, entries[u], fetches[u], changes)
          /\ OnTheWay(u) \/ CatchesUp(entries[u], fetches[u], Newest(u))
      BY <2>1 DEF Smooth
    <3>2. CASE u = v
      BY <1>2, <1>5, <3>1, <3>2 DEF Awaited
    <3>3. CASE u # v
      BY <1>2, <3>1, <3>3
    <3> QED
      BY <3>2, <3>3
  <2>3. \A u \in Views : /\ Newest(u)' = Newest(u)
                        /\ (Committing(u) => Committing(u)')
                        /\ (OnTheWay(u) => OnTheWay(u)')
    BY DEF OnTheWay, Committing, Newest
  <2>4. \A u \in Views : Committing(u)' \/ Newest(u)' <= known'
    <3>1. \A u \in Views : Newest(u) \in Nat
      BY DEF CatchUpInv, BrowserBounds, ServerBounds, Newest, Views
    <3>2. known \in Nat /\ known' \in Nat
      BY DEF CatchUpInv, BrowserBounds, ServerBounds
    <3>3. \A u \in Views : Committing(u) \/ Newest(u) <= known
      BY <2>1 DEF Smooth
    <3> SUFFICES ASSUME NEW u \in Views
                 PROVE  Committing(u)' \/ Newest(u)' <= known'
      OBVIOUS
    <3> DEFINE mine == Newest(u)
               later == Newest(u)'
    <3>4. /\ later = mine /\ (Committing(u) => Committing(u)')
          /\ mine \in Nat /\ (Committing(u) \/ mine <= known)
      BY <2>3, <3>1, <3>3
    <3> HIDE DEF mine, later
    <3>5. Committing(u)' \/ later <= known'
      BY <3>2, <3>4
    <3> QED
      BY <3>5 DEF later
  <2>5. \A u \in Views : OnTheWay(u)' \/ CatchesUp(entries'[u], fetches'[u], Newest(u)')
    <3> SUFFICES ASSUME NEW u \in Views
                 PROVE  OnTheWay(u)' \/ CatchesUp(entries'[u], fetches'[u], Newest(u)')
      OBVIOUS
    <3>1. Newest(u)' = Newest(u) /\ (OnTheWay(u) => OnTheWay(u)')
      BY <2>3
    <3>2. OnTheWay(u) \/ CatchesUp(entries'[u], fetches'[u], Newest(u))
      BY <2>2
    <3> QED
      BY <3>1, <3>2
  <2> QED
    BY <1>5, <2>2, <2>4, <2>5 DEF Smooth
<1> QED
  BY <1>3, <1>4, <1>5 DEF CatchUpInv, BrowserBounds

\* The request after a page read at `version`.
LEMMA AfterPageRow ==
  ASSUME NEW v \in Views, fetches[v] \in FetchRows, NEW version
  PROVE  LET row == AfterPage(v, version) IN
         /\ row.pc \in {"told", "ask"} /\ (row.pc = "told" => row.version = version)
         /\ row.startSeq = fetches[v].startSeq /\ row.after = fetches[v].after
BY DEF AfterPage, FetchRows

LEMMA PagesCatchUp ==
  ASSUME CatchUpInv, NEW v \in Views, ServeCached(v) \/ ReadFromDb(v) \/ StoreTree(v)
  PROVE  CatchUpInv'
<1>1. fetches[v] \in FetchRows /\ StoreInv'
  BY ShownRows, PagesKeep DEF CatchUpInv
<1>2. /\ ServerBounds /\ known \in 1 .. dbVersion /\ dbVersion \in Nat
      /\ apiCache \in (1 .. known) \cup {NoVersion}
      /\ Bounded(entries[v], fetches[v], known, changeIds)
  BY DEF CatchUpInv, BrowserBounds, ServerBounds
<1>3. mishaps = {} =>
        /\ apiCache \in {known, NoVersion} /\ Forward(entries[v], fetches[v])
        /\ Newest(v) <= known \/ OnTheWay(v)
        /\ OnTheWay(v) \/ CatchesUp(entries[v], fetches[v], Newest(v))
  BY DEF CatchUpInv, Smooth, OnTheWay
<1>4. CASE ServeCached(v)
  <2> DEFINE row == AfterPage(v, apiCache)
  <2>1. /\ fetches[v].pc = "ask" /\ apiCache # NoVersion
        /\ fetches' = [fetches EXCEPT ![v] = row]
        /\ UNCHANGED <<dbVersion, apiCache, committing, known, named, socket, entries, storeSeq,
                       changes, changeIds, dropped, mishaps>>
    BY <1>4 DEF ServeCached, serverVars
  <2>2. /\ row.pc \in {"told", "ask"} /\ (row.pc = "told" => row.version = apiCache)
        /\ row.startSeq = fetches[v].startSeq /\ row.after = fetches[v].after
    BY <1>1, AfterPageRow
  <2> HIDE DEF row
  <2>3. ServerBounds'
    BY <1>2, <2>1 DEF ServerBounds, Sent
  <2>4. mishaps = {} => Forward(entries[v], row)
    BY <1>2, <1>3, <2>1, <2>2 DEF Forward, Bounded
  <2>5. mishaps = {} => OnTheWay(v) \/ CatchesUp(entries[v], row, Newest(v))
    BY <1>2, <1>3, <2>1, <2>2 DEF CatchesUp
  <2>6. row.pc \in {"reading", "told"} => row.version \in 1 .. known
    BY <1>2, <2>1, <2>2
  <2>7. known <= known'
    BY <1>2, <2>1
  <2> QED
    BY <1>1, <1>3, <2>1, <2>2, <2>3, <2>4, <2>5, <2>6, <2>7, RequestCatchesUp
<1>5. CASE ReadFromDb(v)
  <2> DEFINE row == [fetches[v] EXCEPT !.pc = "reading", !.version = dbVersion]
  <2>1. /\ fetches[v].pc = "ask" /\ apiCache' = NoVersion /\ known' = dbVersion
        /\ fetches' = [fetches EXCEPT ![v] = row]
        /\ UNCHANGED <<dbVersion, committing, named, socket, entries, storeSeq, changes,
                       changeIds, dropped, mishaps>>
    BY <1>5 DEF ReadFromDb
  <2>2. /\ row.pc = "reading" /\ row.version = dbVersion
        /\ row.startSeq = fetches[v].startSeq /\ row.after = fetches[v].after
    BY <1>1 DEF FetchRows
  <2> HIDE DEF row
  <2>3. ServerBounds'
    BY <1>2, <2>1 DEF ServerBounds, Sent
  <2>4. mishaps = {} => Forward(entries[v], row)
    BY <1>2, <1>3, <2>1, <2>2 DEF Forward, Bounded
  <2>5. CatchesUp(entries[v], row, Newest(v))
    <3>1. Newest(v) \in 1 .. dbVersion
      BY <1>2 DEF ServerBounds, Newest, Views
    <3> QED
      BY <1>2, <2>2, <3>1 DEF CatchesUp
  <2>6. row.version \in 1 .. known' /\ known <= known'
    BY <1>2, <2>1, <2>2
  <2> QED
    BY <1>1, <2>1, <2>2, <2>3, <2>4, <2>5, <2>6, RequestCatchesUp
<1>6. CASE StoreTree(v)
  <2> DEFINE version == fetches[v].version
             row == AfterPage(v, version)
  <2>1. /\ fetches[v].pc = "reading" /\ apiCache' = IF v \in Lists THEN version ELSE apiCache
        /\ fetches' = [fetches EXCEPT ![v] = row]
        /\ mishaps' = IF v \in Lists THEN mishaps \cup Overdue(version) ELSE mishaps
        /\ UNCHANGED <<dbVersion, committing, known, named, socket, entries, storeSeq, changes,
                       changeIds, dropped>>
    BY <1>6 DEF StoreTree
  <2>2. /\ row.pc \in {"told", "ask"} /\ (row.pc = "told" => row.version = version)
        /\ row.startSeq = fetches[v].startSeq /\ row.after = fetches[v].after
    BY <1>1, AfterPageRow
  <2>3. version \in 1 .. known
    BY <1>2, <2>1 DEF Bounded
  <2> HIDE DEF row
  <2>4. ServerBounds'
    BY <1>2, <2>1, <2>3 DEF ServerBounds, Sent
  <2>5. ASSUME mishaps' = {}
        PROVE  mishaps = {} /\ (v \in Lists => ~ version < known)
    BY <2>1, <2>5 DEF Overdue
  <2>6. mishaps' = {} => apiCache' \in {known', NoVersion}
    BY <1>2, <1>3, <2>1, <2>3, <2>5
  <2>7. mishaps = {} => Forward(entries[v], row)
    BY <1>3, <2>1, <2>2 DEF Forward
  <2>8. mishaps = {} => OnTheWay(v) \/ CatchesUp(entries[v], row, Newest(v))
    BY <1>3, <2>1, <2>2 DEF CatchesUp
  <2>9. known <= known'
    BY <1>2, <2>1
  <2> HIDE DEF version
  <2> QED
    BY <1>1, <2>1, <2>2, <2>3, <2>4, <2>5, <2>6, <2>7, <2>8, <2>9, RequestCatchesUp
<1> QED
  BY <1>4, <1>5, <1>6

-----------------------------------------------------------------------------
(* The browser catches up: requests that end, and changes confirmed. *)

LEMMA Pruned ==
  ASSUME NEW cs, NEW these, Prune(cs, these)
  PROVE  /\ changes' \subseteq cs /\ \A c \in cs : c.at = "confirmed" \/ c \in changes'
         /\ Unsettled(changes', these)
         /\ \A ids : (\A c \in cs \cup dropped : c.id \in ids)
                       => \A c \in changes' \cup dropped' : c.id \in ids
BY DEF Prune, Unsettled, Settled

\* The changes and the bounds after a step that prunes.
LEMMA PrunedBounds ==
  ASSUME CatchUpInv, StoreInv', NEW cs, NEW these, Prune(cs, these),
         \A c \in cs : c.id \in 1 .. changeIds,
         \A c : (c \in cs /\ c.at = "sent") <=> c \in Sent,
         UNCHANGED <<serverVars, changeIds>>,
         socket' = [up |-> socket.up, inbox |-> socket.inbox, disruptions |-> socket'.disruptions]
  PROVE  /\ ServerBounds' /\ ChangesBounded' /\ Unsettled(changes', these)
         /\ \A v \in Views : OnTheWay(v) => OnTheWay(v)'
<1>1. /\ changes' \subseteq cs /\ \A c \in cs : c.at = "confirmed" \/ c \in changes'
      /\ Unsettled(changes', these)
      /\ (\A c \in cs \cup dropped : c.id \in 1 .. changeIds)
           => \A c \in changes' \cup dropped' : c.id \in 1 .. changeIds
  BY Pruned
<1>2. ChangesBounded'
  BY <1>1 DEF CatchUpInv, BrowserBounds, ChangesBounded
<1>3. Sent' = Sent
  BY <1>1 DEF Sent
<1>4. /\ dbVersion' = dbVersion /\ apiCache' = apiCache /\ known' = known
      /\ committing' = committing /\ named' = named
      /\ socket'.up = socket.up /\ socket'.inbox = socket.inbox
      /\ socket' = [up |-> socket'.up, inbox |-> socket'.inbox,
                    disruptions |-> socket'.disruptions]
  BY DEF serverVars
<1>5. ServerBounds'
  BY <1>3, <1>4 DEF CatchUpInv, BrowserBounds, ServerBounds
<1>6. \A v \in Views : OnTheWay(v) => OnTheWay(v)'
  BY <1>4 DEF OnTheWay, Committing, Newest
<1> QED
  BY <1>1, <1>2, <1>5, <1>6

(***************************************************************************)
(* A request ends, with or without an answer.                              *)
(***************************************************************************)
LEMMA EndCatchesUp ==
  ASSUME CatchUpInv, StoreInv', NEW v \in Views, NEW entry \in EntryRows, Ended(v, entry),
         UNCHANGED <<serverVars, changeIds>>,
         socket' = [up |-> socket.up, inbox |-> socket.inbox, disruptions |-> socket'.disruptions],
         Bounded(entry, NoFetch, known, changeIds),
         mishaps' = {} =>
           /\ mishaps = {} /\ Forward(entry, NoFetch)
           /\ entry.again \/ OnTheWay(v) \/ CatchesUp(entry, NoFetch, Newest(v))
           /\ entry.again \/ Awaited(v, entry, NoFetch, changes)
  PROVE  CatchUpInv'
<1> DEFINE es == [entries EXCEPT ![v] = entry]
           fs == [fetches EXCEPT ![v] = NoFetch]
           some == IF entry.again THEN {v} ELSE {}
           result == Refetched(some, es, fs, storeSeq, Confirmed)
<1>1. /\ entries \in [Views -> EntryRows] /\ fetches \in [Views -> FetchRows]
      /\ storeSeq \in Nat /\ changes \in SUBSET ChangeRows
      /\ \A c \in changes : c.at = "confirmed" => c.confirmed <= storeSeq
  BY ShownRows DEF CatchUpInv
<1>2. entries' = result.entries /\ fetches' = result.fetches /\ Prune(changes, es)
  BY DEF Ended, Refetch
<1>3. NoFetch \in FetchRows
  BY DEF NoFetch, FetchRows, Versions
<1>4. /\ es \in [Views -> EntryRows] /\ es[v] = entry
      /\ fs \in [Views -> FetchRows] /\ fs[v] = NoFetch
      /\ \A u \in Views \ {v} : es[u] = entries[u] /\ fs[u] = fetches[u]
      /\ some \in SUBSET Views /\ (v \in some <=> entry.again)
  BY <1>1, <1>3 DEF EntryRows
<1> HIDE DEF es, fs, some, result
<1>5. /\ ServerBounds' /\ ChangesBounded' /\ Unsettled(changes', es)
      /\ \A u \in Views : OnTheWay(u) => OnTheWay(u)'
  <2>1. /\ \A c \in changes : c.id \in 1 .. changeIds
        /\ \A c : (c \in changes /\ c.at = "sent") <=> c \in Sent
    BY DEF CatchUpInv, BrowserBounds, ChangesBounded, Sent
  <2> QED
    BY <1>2, <2>1, PrunedBounds
<1>6. changes' \in SUBSET changes /\ changes' \in SUBSET ChangeRows
  BY <1>1, <1>2, Pruned
<1>7. Unsettled(changes', entries')
  BY <1>1, <1>2, <1>4, <1>5, <1>6, RefetchSettlesNothing DEF result
<1>10. ASSUME NEW u \in Views
       PROVE  /\ \A top, ids : Bounded(es[u], fs[u], top, ids) /\ Ids(Confirmed) \subseteq 1 .. ids
                                => Bounded(entries'[u], fetches'[u], top, ids)
              /\ Forward(es[u], fs[u]) => Forward(entries'[u], fetches'[u])
              /\ \A top : u \in some \/ CatchesUp(es[u], fs[u], top)
                            => CatchesUp(entries'[u], fetches'[u], top)
              /\ \A cs \in SUBSET ChangeRows :
                   /\ \A c \in cs : c.at = "confirmed" => c.confirmed <= storeSeq
                   /\ u \in some \/ Awaited(u, es[u], fs[u], cs)
                   => Awaited(u, entries'[u], fetches'[u], cs)
  <2>1. result = Refetched(some, es, fs, storeSeq, Confirmed)
    BY DEF result
  <2> QED
    <3>1. es \in [Views -> EntryRows] /\ fs \in [Views -> FetchRows] /\ some \in SUBSET Views
      BY <1>4
    <3>2. storeSeq \in Nat
      BY <1>1
    <3> QED
      BY ONLY <1>2, <2>1, <3>1, <3>2, u \in Views, RefetchCatchesUp
<1>8. ASSUME NEW u \in Views
      PROVE  Bounded(entries'[u], fetches'[u], known', changeIds')
  <2>1. Bounded(es[u], fs[u], known, changeIds)
    BY <1>4 DEF CatchUpInv, BrowserBounds
  <2>2. Ids(Confirmed) \subseteq 1 .. changeIds
    BY ConfirmedBounds DEF CatchUpInv, BrowserBounds
  <2>3. known' = known /\ changeIds' = changeIds
    BY DEF serverVars
  <2> QED
    BY <1>10, <2>1, <2>2, <2>3
<1>9. ASSUME mishaps' = {}
      PROVE  Smooth'
  <2>1. Smooth /\ mishaps = {}
    BY <1>9 DEF CatchUpInv
  <2>2. ASSUME NEW u \in Views
        PROVE  /\ Forward(entries'[u], fetches'[u])
               /\ Awaited(u, entries'[u], fetches'[u], changes')
               /\ OnTheWay(u) \/ CatchesUp(entries'[u], fetches'[u], Newest(u))
    <3>1. /\ Forward(es[u], fs[u])
          /\ u \in some \/ Awaited(u, es[u], fs[u], changes)
          /\ u \in some \/ OnTheWay(u) \/ CatchesUp(es[u], fs[u], Newest(u))
      <4>1. CASE u = v
        BY <1>4, <1>9, <4>1
      <4>2. CASE u # v
        BY <1>4, <2>1, <4>2 DEF Smooth
      <4> QED
        BY <4>1, <4>2
    <3>2. u \in some \/ Awaited(u, es[u], fs[u], changes')
      BY <1>6, <3>1 DEF Awaited
    <3>3. \A c \in changes' : c.at = "confirmed" => c.confirmed <= storeSeq
      BY <1>1, <1>6
    <3> QED
      BY <1>6, <1>10, <3>1, <3>2, <3>3
  <2>3. /\ apiCache' = apiCache /\ known' = known
        /\ \A u \in Views : Newest(u)' = Newest(u) /\ (Committing(u) => Committing(u)')
    BY DEF serverVars, Newest, Committing
  <2> QED
    BY <1>5, <2>1, <2>2, <2>3 DEF Smooth
<1> QED
  BY <1>5, <1>7, <1>8, <1>9 DEF CatchUpInv, BrowserBounds

LEMMA EndsCatchUp ==
  ASSUME CatchUpInv, NEW v \in Views, ReceiveView(v) \/ FailView(v)
  PROVE  CatchUpInv'
<1>1. entries[v] \in EntryRows /\ fetches[v] \in FetchRows /\ changes \in SUBSET ChangeRows
  BY ShownRows DEF CatchUpInv
<1>2. /\ known \in 1 .. dbVersion /\ dbVersion \in Nat
      /\ Bounded(entries[v], fetches[v], known, changeIds)
      /\ socket = [up |-> socket.up, inbox |-> socket.inbox, disruptions |-> socket.disruptions]
  BY DEF CatchUpInv, BrowserBounds, ServerBounds
<1>3. StoreInv'
  BY FetchStepsKeep DEF CatchUpInv
<1>4. NoFetch.pc = "none" /\ NoFetch.after = {}
  BY DEF NoFetch
<1>5. CASE ReceiveView(v)
  <2> DEFINE fetch == fetches[v]
             entry == [entries[v] EXCEPT !.status = "ready", !.version = fetch.version,
                                         !.whole = Whole(v), !.loadedSeq = fetch.startSeq,
                                         !.holds = fetch.after]
  <2>1. /\ Ended(v, entry) /\ fetch.pc = "told"
        /\ UNCHANGED <<serverVars, changeIds>> /\ socket' = socket
        /\ mishaps' = IF Whole(v) THEN mishaps ELSE mishaps \cup {"walk given up"}
    BY <1>5 DEF ReceiveView
  <2>2. /\ fetch.version \in Versions /\ fetch.startSeq \in Nat /\ fetch.after \in SUBSET Nat
    BY <1>1 DEF FetchRows
  <2>3. fetch.version \in 1 .. known /\ fetch.after \subseteq 1 .. changeIds
    BY <1>2, <2>1 DEF Bounded
  <2> HIDE DEF fetch
  <2>4. /\ entry \in EntryRows /\ entry.status = "ready" /\ entry.loadedSeq = fetch.startSeq
        /\ entry.holds = fetch.after /\ entry.version = fetch.version /\ entry.whole = Whole(v)
        /\ entry.again = entries[v].again
    <3>1. Whole(v) \in BOOLEAN
      BY DEF Whole
    <3> QED
      BY <1>1, <2>2, <3>1 DEF EntryRows
  <2> HIDE DEF entry
  <2>5. Bounded(entry, NoFetch, known, changeIds)
    BY <1>2, <1>4, <2>3, <2>4 DEF Bounded
  <2>6. ASSUME mishaps' = {}
        PROVE  /\ mishaps = {} /\ Forward(entry, NoFetch)
               /\ entry.again \/ OnTheWay(v) \/ CatchesUp(entry, NoFetch, Newest(v))
               /\ entry.again \/ Awaited(v, entry, NoFetch, changes)
    <3>1. mishaps = {} /\ Whole(v)
      BY <2>1, <2>6
    <3>2. /\ Awaited(v, entries[v], fetch, changes)
          /\ OnTheWay(v) \/ CatchesUp(entries[v], fetch, Newest(v))
      BY <3>1 DEF CatchUpInv, Smooth, fetch
    <3>3. entries[v].status # "idle"
      BY <2>1 DEF CatchUpInv, StoreInv, ShownOK, ViewsOK, fetch
    <3>4. entry.again \/ OnTheWay(v) \/ CatchesUp(entry, NoFetch, Newest(v))
      BY <1>4, <2>1, <2>4, <3>2, <3>3 DEF CatchesUp
    <3>5. entry.again \/ Awaited(v, entry, NoFetch, changes)
      BY <1>4, <2>1, <2>4, <3>2, <3>3 DEF Awaited
    <3>6. Forward(entry, NoFetch)
      BY <1>4, <2>4, <3>1 DEF Forward
    <3> QED
      BY <3>1, <3>4, <3>5, <3>6
  <2>7. socket' = [up |-> socket.up, inbox |-> socket.inbox, disruptions |-> socket'.disruptions]
    BY <1>2, <2>1
  <2> QED
    BY <1>3, <2>1, <2>4, <2>5, <2>6, <2>7, EndCatchesUp
<1>6. CASE FailView(v)
  <2>1. PICK gone \in BOOLEAN :
          Ended(v, [entries[v] EXCEPT !.status = IF @ = "ready" /\ ~gone THEN @ ELSE "error"])
    BY <1>6 DEF FailView
  <2> DEFINE entry == [entries[v] EXCEPT !.status = IF @ = "ready" /\ ~gone THEN @ ELSE "error"]
  <2>2. /\ entry \in EntryRows /\ entry.holds = entries[v].holds
        /\ entry.version = entries[v].version
    BY <1>1 DEF EntryRows
  <2>3. /\ Ended(v, entry) /\ UNCHANGED <<serverVars, changeIds>> /\ mishaps' # {}
        /\ socket' = [socket EXCEPT !.disruptions = @ + 1]
    BY <1>6, <2>1 DEF FailView
  <2> HIDE DEF entry
  <2>4. Bounded(entry, NoFetch, known, changeIds)
    BY <1>2, <1>4, <2>2 DEF Bounded
  <2>5. socket' = [up |-> socket.up, inbox |-> socket.inbox, disruptions |-> socket'.disruptions]
    BY <1>2, <2>3
  <2> QED
    BY <1>3, <2>2, <2>3, <2>4, <2>5, EndCatchesUp
<1> QED
  BY <1>5, <1>6

\* A pane is closed.
LEMMA TrimCatchesUp ==
  ASSUME CatchUpInv, NEW v \in Views, TrimDetail(v)
  PROVE  CatchUpInv'
<1> DEFINE es == [entries EXCEPT ![v] = IdleEntry]
<1>1. entries \in [Views -> EntryRows]
  BY ShownRows DEF CatchUpInv
<1>2. /\ fetches[v].pc = "none" /\ entries' = es /\ Prune(changes, es)
      /\ UNCHANGED <<serverVars, fetches, changeIds, mishaps>>
      /\ socket' = [socket EXCEPT !.disruptions = @ + 1]
  BY DEF TrimDetail, InFlight
<1>3. es[v] = IdleEntry /\ \A u \in Views \ {v} : es[u] = entries[u]
  BY <1>1
<1> HIDE DEF es
<1>4. StoreInv'
  BY TrimKeeps DEF CatchUpInv
<1>5. IdleEntry.status = "idle" /\ IdleEntry.version = 0 /\ IdleEntry.holds = {} /\ IdleEntry.whole
  BY DEF IdleEntry
<1>6. /\ ServerBounds' /\ ChangesBounded' /\ Unsettled(changes', es)
      /\ \A u \in Views : OnTheWay(u) => OnTheWay(u)'
  <2>1. /\ \A c \in changes : c.id \in 1 .. changeIds
        /\ \A c : (c \in changes /\ c.at = "sent") <=> c \in Sent
    BY DEF CatchUpInv, BrowserBounds, ChangesBounded, Sent
  <2>2. socket = [up |-> socket.up, inbox |-> socket.inbox, disruptions |-> socket.disruptions]
    BY DEF CatchUpInv, BrowserBounds, ServerBounds
  <2>3. socket' = [up |-> socket.up, inbox |-> socket.inbox, disruptions |-> socket'.disruptions]
    BY <1>2, <2>2
  <2> QED
    BY <1>2, <1>4, <2>1, <2>3, PrunedBounds
<1>7. ASSUME NEW u \in Views
      PROVE  Bounded(entries'[u], fetches'[u], known', changeIds')
  <2>1. known \in Nat /\ \A w \in Views : Bounded(entries[w], fetches[w], known, changeIds)
    BY DEF CatchUpInv, BrowserBounds, ServerBounds
  <2> QED
    BY <1>2, <1>3, <1>5, <2>1 DEF Bounded, serverVars
<1>8. ASSUME mishaps' = {}
      PROVE  Smooth'
  <2>1. Smooth
    BY <1>2, <1>8 DEF CatchUpInv
  <2>2. /\ apiCache' = apiCache /\ known' = known
        /\ changes' \subseteq changes /\ fetches' = fetches
        /\ \A u \in Views : Newest(u)' = Newest(u) /\ (Committing(u) => Committing(u)')
    BY <1>2, Pruned DEF serverVars, Newest, Committing
  <2>3. ASSUME NEW u \in Views
        PROVE  /\ Forward(entries'[u], fetches'[u])
               /\ Awaited(u, entries'[u], fetches'[u], changes')
               /\ OnTheWay(u) \/ CatchesUp(entries'[u], fetches'[u], Newest(u))
    <3>1. CASE u = v
      BY <1>2, <1>3, <1>5, <2>2, <3>1 DEF Forward, Awaited, CatchesUp
    <3>2. CASE u # v
      BY <1>2, <1>3, <2>1, <2>2, <3>2 DEF Smooth, Awaited
    <3> QED
      BY <3>1, <3>2
  <2> QED
    BY <1>6, <2>1, <2>2, <2>3 DEF Smooth
<1> QED
  BY <1>2, <1>4, <1>6, <1>7, <1>8 DEF CatchUpInv, BrowserBounds

(***************************************************************************)
(* What a change touches is asked for when it is confirmed, again where it *)
(* is being fetched.                                                       *)
(***************************************************************************)
LEMMA ConfirmCatchesUp ==
  ASSUME CatchUpInv, NEW c \in changes, Confirm(c)
  PROVE  CatchUpInv'
<1> DEFINE at(watch) == [c EXCEPT !.at = "confirmed", !.confirmed = storeSeq + 1,
                                  !.watch = watch]
           some(watch) == {v \in watch : entries[v].status # "idle"}
           asked(watch) == Confirmed \cup {at(watch)}
           after(watch) == Refetched(some(watch), entries, fetches, storeSeq + 1, asked(watch))
<1>1. /\ entries \in [Views -> EntryRows] /\ fetches \in [Views -> FetchRows]
      /\ storeSeq \in Nat /\ changes \in SUBSET ChangeRows
      /\ \A d \in changes : d.at = "confirmed" => d.confirmed <= storeSeq
  BY ShownRows DEF CatchUpInv
<1>2. PICK watch \in Watched(c) :
        /\ Refetch(after(watch))
        /\ Prune((changes \ {c}) \cup {at(watch)}, after(watch).entries)
  BY DEF Confirm
<1> DEFINE row == at(watch)
           views == some(watch)
           confirmed == asked(watch)
           these == (changes \ {c}) \cup {row}
           result == after(watch)
           seq == storeSeq + 1
<1>3. c \in ChangeRows /\ watch \in SUBSET Views /\ c.at = "answered" /\ seq \in Nat
  <2>1. c \in ChangeRows
    BY <1>1
  <2>2. c.over \in SUBSET Views
    BY <2>1 DEF ChangeRows
  <2>3. c.at = "answered" /\ seq \in Nat
    BY <1>1 DEF Confirm
  <2> QED
    BY <2>1, <2>2, <2>3 DEF Watched
<1>4. /\ row \in ChangeRows /\ row.id = c.id /\ row.confirmed = seq /\ row.at = "confirmed"
      /\ row.watch = watch
  <2> DEFINE new == [c EXCEPT !.at = "confirmed", !.confirmed = seq, !.watch = watch]
  <2> HIDE DEF seq
  <2>1. /\ new \in ChangeRows /\ new.id = c.id /\ new.confirmed = seq /\ new.at = "confirmed"
        /\ new.watch = watch
    BY <1>3 DEF ChangeRows
  <2> QED
    BY <2>1 DEF seq
<1>5. result = Refetched(views, entries, fetches, seq, confirmed) /\ views \in SUBSET Views
  BY <1>3
<1>6. /\ entries' = result.entries /\ fetches' = result.fetches /\ Prune(these, result.entries)
      /\ UNCHANGED <<serverVars, socket, changeIds, mishaps>>
  BY <1>2 DEF Refetch, Confirm
<1>7. StoreInv'
  BY ConfirmKeeps DEF CatchUpInv
<1>8. \A v \in Views : entries[v].status = "idle" \/ v \in views \/ v \notin row.watch
  BY <1>4
<1>9. Ids(confirmed) \subseteq 1 .. changeIds
  <2>1. Ids(confirmed) = Ids(Confirmed) \cup {row.id}
    BY DEF Ids
  <2>2. c.id \in 1 .. changeIds
    BY DEF CatchUpInv, BrowserBounds, ChangesBounded
  <2> QED
    BY <1>4, <2>1, <2>2, ConfirmedBounds DEF CatchUpInv, BrowserBounds
<1> HIDE DEF at, some, asked, after, row, views, confirmed, these, result, seq
<1>10. /\ \A d \in these : d.id \in 1 .. changeIds
       /\ \A d : (d \in these /\ d.at = "sent") <=> d \in Sent
  BY <1>3, <1>4 DEF CatchUpInv, BrowserBounds, ChangesBounded, Sent, these
<1>11. /\ ServerBounds' /\ ChangesBounded' /\ Unsettled(changes', entries')
       /\ \A v \in Views : OnTheWay(v) => OnTheWay(v)'
  <2>1. socket' = [up |-> socket.up, inbox |-> socket.inbox, disruptions |-> socket'.disruptions]
    BY <1>6 DEF CatchUpInv, BrowserBounds, ServerBounds
  <2> QED
    BY <1>6, <1>7, <1>10, <2>1, PrunedBounds
<1>12. /\ these \in SUBSET ChangeRows
       /\ \A d \in these : d.at = "confirmed" => d.confirmed <= seq
  <2>1. \A d \in changes : d.confirmed \in Nat
    BY <1>1 DEF ChangeRows
  <2>2. these \in SUBSET ChangeRows
    BY <1>1, <1>4 DEF these
  <2>3. \A d \in changes : d.at = "confirmed" => d.confirmed <= seq
    BY <1>1, <2>1 DEF seq
  <2>4. row.confirmed <= seq
    BY <1>3, <1>4
  <2> QED
    BY <2>2, <2>3, <2>4 DEF these
<1>13. ASSUME NEW v \in Views
       PROVE  /\ \A top, ids : /\ Bounded(entries[v], fetches[v], top, ids)
                               /\ Ids(confirmed) \subseteq 1 .. ids
                               => Bounded(entries'[v], fetches'[v], top, ids)
              /\ Forward(entries[v], fetches[v]) => Forward(entries'[v], fetches'[v])
              /\ \A top : v \in views \/ CatchesUp(entries[v], fetches[v], top)
                            => CatchesUp(entries'[v], fetches'[v], top)
              /\ \A cs \in SUBSET ChangeRows :
                   /\ \A d \in cs : d.at = "confirmed" => d.confirmed <= seq
                   /\ v \in views \/ Awaited(v, entries[v], fetches[v], cs)
                   => Awaited(v, entries'[v], fetches'[v], cs)
  <2>1. entries \in [Views -> EntryRows] /\ fetches \in [Views -> FetchRows] /\ seq \in Nat
    BY <1>1, <1>3
  <2> QED
    BY ONLY <1>5, <1>6, <2>1, v \in Views, RefetchCatchesUp
<1>14. ASSUME NEW v \in Views
       PROVE  Bounded(entries'[v], fetches'[v], known', changeIds')
  <2>1. Bounded(entries[v], fetches[v], known, changeIds)
    BY DEF CatchUpInv, BrowserBounds
  <2>2. known' = known /\ changeIds' = changeIds
    BY <1>6 DEF serverVars
  <2> QED
    BY <1>9, <1>13, <2>1, <2>2
<1>15. ASSUME mishaps' = {}
       PROVE  Smooth'
  <2>1. Smooth
    BY <1>6, <1>15 DEF CatchUpInv
  <2>2. changes' \subseteq these
    BY <1>6, Pruned
  <2>3. /\ apiCache' = apiCache /\ known' = known
        /\ \A v \in Views : Newest(v)' = Newest(v) /\ (Committing(v) => Committing(v)')
    BY <1>6 DEF serverVars, Newest, Committing
  <2>4. ASSUME NEW v \in Views
        PROVE  /\ Forward(entries'[v], fetches'[v])
               /\ Awaited(v, entries'[v], fetches'[v], changes')
               /\ OnTheWay(v) \/ CatchesUp(entries'[v], fetches'[v], Newest(v))
    <3>1. /\ Forward(entries[v], fetches[v]) /\ Awaited(v, entries[v], fetches[v], changes)
          /\ OnTheWay(v) \/ CatchesUp(entries[v], fetches[v], Newest(v))
      BY <2>1 DEF Smooth
    <3>2. v \in views \/ Awaited(v, entries[v], fetches[v], these)
      BY <1>8, <3>1 DEF Awaited, these
    <3>3. Awaited(v, entries'[v], fetches'[v], these)
      BY <1>12, <1>13, <3>2
    <3>4. Awaited(v, entries'[v], fetches'[v], changes')
      BY <2>2, <3>3 DEF Awaited
    <3> QED
      BY <1>13, <3>1, <3>4
  <2> QED
    BY <1>11, <2>1, <2>3, <2>4 DEF Smooth
<1> QED
  BY <1>7, <1>11, <1>14, <1>15 DEF CatchUpInv, BrowserBounds

-----------------------------------------------------------------------------
(* The browser catches up: writes and the socket. *)

\* Fewer changes are sent and not written.
LEMMA FewerSent ==
  ASSUME ServerBounds, Sent' \subseteq Sent
  PROVE  IsFiniteSet(Sent') /\ Cardinality(Sent') <= Cardinality(Sent) /\ Cardinality(Sent') \in Nat
         /\ Cardinality(Sent) \in Nat
BY FS_Subset, FS_CardinalityType DEF ServerBounds

(***************************************************************************)
(* The lists stay, and no change is confirmed or dropped.                  *)
(***************************************************************************)
LEMMA WriteCatchesUp ==
  ASSUME CatchUpInv, StoreInv', ServerBounds', ChangesBounded', UNCHANGED shownVars,
         known <= known', changeIds <= changeIds',
         \A c \in changes' : c.at = "confirmed" => c \in changes,
         mishaps' = {} =>
           /\ mishaps = {} /\ apiCache' \in {known', NoVersion}
           /\ \A v \in Views :
                /\ Committing(v)' \/ Newest(v)' <= known'
                /\ OnTheWay(v)' \/ (~ OnTheWay(v) /\ Newest(v)' = Newest(v))
  PROVE  CatchUpInv'
<1>1. entries' = entries /\ fetches' = fetches
  BY DEF shownVars
<1>2. Unsettled(changes', entries')
  BY <1>1 DEF CatchUpInv, BrowserBounds, Unsettled, Settled
<1>3. ASSUME NEW v \in Views
      PROVE  Bounded(entries'[v], fetches'[v], known', changeIds')
  <2>1. /\ Bounded(entries[v], fetches[v], known, changeIds) /\ known \in Nat /\ known' \in Nat
        /\ changeIds \in Nat /\ changeIds' \in Nat
    BY DEF CatchUpInv, BrowserBounds, ServerBounds, StoreInv, ServerOK
  <2>2. 1 .. changeIds \subseteq 1 .. changeIds' /\ 1 .. known \subseteq 1 .. known'
        /\ 0 .. known \subseteq 0 .. known'
    BY <2>1
  <2> QED
    BY <1>1, <2>1, <2>2 DEF Bounded
<1>4. ASSUME mishaps' = {}
      PROVE  Smooth'
  <2>1. Smooth
    BY <1>4 DEF CatchUpInv
  <2>2. ASSUME NEW v \in Views
        PROVE  /\ Forward(entries'[v], fetches'[v])
               /\ Awaited(v, entries'[v], fetches'[v], changes')
               /\ OnTheWay(v)' \/ CatchesUp(entries'[v], fetches'[v], Newest(v)')
    <3>1. /\ Forward(entries[v], fetches[v]) /\ Awaited(v, entries[v], fetches[v], changes)
          /\ OnTheWay(v) \/ CatchesUp(entries[v], fetches[v], Newest(v))
      BY <2>1 DEF Smooth
    <3>2. Awaited(v, entries'[v], fetches'[v], changes')
      BY <1>1, <3>1 DEF Awaited
    <3>3. OnTheWay(v)' \/ CatchesUp(entries'[v], fetches'[v], Newest(v)')
      BY <1>1, <1>4, <3>1
    <3> QED
      BY <1>1, <3>1, <3>2, <3>3
  <2> QED
    BY <1>4, <2>2 DEF Smooth
<1> QED
  BY <1>2, <1>3, <1>4 DEF CatchUpInv, BrowserBounds

LEMMA ServerFacts ==
  ASSUME CatchUpInv
  PROVE  /\ ServerBounds /\ ChangesBounded /\ changes \in SUBSET ChangeRows
         /\ dbVersion \in Nat /\ dbVersion >= 1 /\ known \in 1 .. dbVersion
         /\ apiCache \in (1 .. known) \cup {NoVersion} /\ changeIds \in Nat
         /\ \A commit \in committing : /\ commit.version \in 1 .. dbVersion
                                       /\ commit.names \subseteq Details
         /\ socket = [up |-> socket.up, inbox |-> socket.inbox, disruptions |-> socket.disruptions]
         /\ socket.inbox \subseteq [version : 0 .. dbVersion, names : SUBSET Details]
         /\ named \in [Details -> 1 .. dbVersion]
         /\ \A v \in Views : Newest(v) \in 1 .. dbVersion
         /\ IsFiniteSet(Sent) /\ Cardinality(Sent) \in Nat
         /\ dbVersion + Cardinality(Sent) <= MaxWrites
         /\ mishaps = {} => /\ apiCache \in {known, NoVersion}
                            /\ \A v \in Views : Committing(v) \/ Newest(v) <= known
<1>1. ServerBounds /\ ChangesBounded /\ changes \in SUBSET ChangeRows /\ changeIds \in Nat
  BY ShownRows DEF CatchUpInv, BrowserBounds, StoreInv, ServerOK
<1>2. mishaps = {} => /\ apiCache \in {known, NoVersion}
                      /\ \A v \in Views : Committing(v) \/ Newest(v) <= known
  BY DEF CatchUpInv, Smooth
<1>3. Cardinality(Sent) \in Nat
  BY <1>1, FS_CardinalityType DEF ServerBounds
<1>4. \A v \in Views : Newest(v) \in 1 .. dbVersion
  BY <1>1 DEF ServerBounds, Newest, Views
<1> QED
  BY <1>1, <1>2, <1>3, <1>4 DEF ServerBounds

\* A batch is applied: its version is announced or lost later.
LEMMA CommitsCatchUp ==
  ASSUME CatchUpInv, CommitElsewhere \/ \E c \in changes : CommitChange(c)
  PROVE  CatchUpInv'
<1>1. /\ ServerBounds /\ ChangesBounded /\ changes \in SUBSET ChangeRows
      /\ dbVersion \in Nat /\ dbVersion >= 1 /\ known \in 1 .. dbVersion /\ changeIds \in Nat
      /\ apiCache \in (1 .. known) \cup {NoVersion}
      /\ \A commit \in committing : commit.version \in 1 .. dbVersion /\ commit.names \subseteq Details
      /\ socket = [up |-> socket.up, inbox |-> socket.inbox, disruptions |-> socket.disruptions]
      /\ socket.inbox \subseteq [version : 0 .. dbVersion, names : SUBSET Details]
      /\ named \in [Details -> 1 .. dbVersion]
      /\ IsFiniteSet(Sent) /\ Cardinality(Sent) \in Nat
      /\ dbVersion + Cardinality(Sent) <= MaxWrites
  BY ServerFacts
<1>2. mishaps = {} => /\ apiCache \in {known, NoVersion}
                      /\ \A v \in Views : Committing(v) \/ Newest(v) <= known
  BY ServerFacts
<1>3. StoreInv'
  BY WritesKeep DEF CatchUpInv
<1>4. ASSUME NEW change, NEW byWorker, Commit(change, byWorker),
             UNCHANGED <<apiCache, known, shownVars, socket, changeIds, dropped, mishaps>>,
             IsFiniteSet(Sent'), dbVersion + 1 + Cardinality(Sent') <= MaxWrites,
             ChangesBounded', \A d \in changes' : d.at = "confirmed" => d \in changes
      PROVE  CatchUpInv'
  <2> DEFINE top == dbVersion + 1
             new(names) == [version |-> top, change |-> change, byWorker |-> byWorker,
                            names |-> names]
  <2>1. PICK names \in SUBSET Details :
          /\ committing' = committing \cup {new(names)}
          /\ named' = [d \in Details |-> IF d \in names THEN top ELSE named[d]]
    BY <1>4 DEF Commit
  <2>2. /\ top \in Nat /\ dbVersion' = top /\ new(names).version = top /\ new(names).names = names
        /\ 0 .. dbVersion \subseteq 0 .. top /\ 1 .. dbVersion \subseteq 1 .. top /\ top \in 1 .. top
    BY <1>1, <1>4 DEF Commit
  <2> HIDE DEF top, new
  <2>3. ServerBounds'
    <3>1. /\ \A commit \in committing' : /\ commit.version \in 1 .. top
                                         /\ commit.names \subseteq Details
          /\ named' \in [Details -> 1 .. top]
      BY <1>1, <2>1, <2>2
    <3>2. socket'.inbox \subseteq [version : 0 .. top, names : SUBSET Details]
      BY <1>1, <1>4, <2>2
    <3>3. /\ known' \in 1 .. top /\ apiCache' \in (1 .. known') \cup {NoVersion}
          /\ top + Cardinality(Sent') <= MaxWrites
      BY <1>1, <1>4, <2>2 DEF top
    <3>4. socket' = [up |-> socket'.up, inbox |-> socket'.inbox,
                     disruptions |-> socket'.disruptions]
      BY <1>1, <1>4
    <3> QED
      BY <1>4, <2>2, <3>1, <3>2, <3>3, <3>4 DEF ServerBounds
  <2>4. ASSUME NEW v \in Views
        PROVE  Committing(v)' \/ (Newest(v)' = Newest(v) /\ (Committing(v) => Committing(v)'))
    <3>1. CASE v \notin Details \/ v \in names
      <4>1. Newest(v)' = top
        BY <2>1, <2>2, <3>1 DEF Newest, Views
      <4> QED
        BY <2>1, <2>2, <3>1, <4>1 DEF Committing, Concerns
    <3>2. CASE v \in Details /\ v \notin names
      <4>1. Newest(v)' = Newest(v)
        BY <2>1, <3>2, StoreBounds DEF Newest
      <4> QED
        BY <2>1, <4>1 DEF Committing
    <3> QED
      BY <3>1, <3>2
  <2>5. \A v \in Views : OnTheWay(v)' \/ (~ OnTheWay(v) /\ Newest(v)' = Newest(v))
    BY <1>4, <2>4 DEF OnTheWay
  <2>6. mishaps' = {} => \A v \in Views : Committing(v)' \/ Newest(v)' <= known'
    BY <1>2, <1>4, <2>4
  <2>7. known <= known' /\ changeIds <= changeIds'
    BY <1>1, <1>4
  <2> QED
    BY <1>2, <1>3, <1>4, <2>3, <2>5, <2>6, <2>7, WriteCatchesUp
<1>5. CASE CommitElsewhere
  <2>1. PICK byWorker \in BOOLEAN : Commit(0, byWorker)
    BY <1>5 DEF CommitElsewhere
  <2>2. dbVersion + Cardinality(Sent) < MaxWrites /\ Sent' = Sent
    BY <1>5 DEF CommitElsewhere, Unwritten, Sent
  <2>3. dbVersion + 1 + Cardinality(Sent') <= MaxWrites
    BY <1>1, <2>2, StoreBounds
  <2>4. ChangesBounded'
    BY <1>1, <1>5 DEF CommitElsewhere, ChangesBounded
  <2> QED
    BY <1>1, <1>4, <1>5, <2>1, <2>2, <2>3, <2>4 DEF CommitElsewhere
<1>6. ASSUME NEW c \in changes, CommitChange(c)
      PROVE  CatchUpInv'
  <2> DEFINE row == [c EXCEPT !.at = "applied"]
  <2>1. c \in ChangeRows /\ c \in Sent
    BY <1>1, <1>6 DEF CommitChange, Sent
  <2>2. row.at = "applied" /\ row.id = c.id
    BY <2>1 DEF ChangeRows
  <2>3. changes' = (changes \ {c}) \cup {row}
    BY <1>6 DEF CommitChange
  <2> HIDE DEF row
  <2>4. Sent' = Sent \ {c}
    BY <2>2, <2>3 DEF Sent
  <2>5. IsFiniteSet(Sent') /\ Cardinality(Sent') = Cardinality(Sent) - 1
    BY <1>1, <2>1, <2>4, FS_RemoveElement
  <2>6. dbVersion + 1 + Cardinality(Sent') <= MaxWrites
    BY <1>1, <2>5, StoreBounds
  <2>7. ChangesBounded'
    BY <1>1, <1>6, <2>2, <2>3 DEF CommitChange, ChangesBounded
  <2>8. \A d \in changes' : d.at = "confirmed" => d \in changes
    BY <2>2, <2>3
  <2>9. /\ Commit(c.id, FALSE)
        /\ UNCHANGED <<apiCache, known, shownVars, socket, changeIds, dropped, mishaps>>
    BY <1>6 DEF CommitChange
  <2> QED
    BY <1>4, <2>5, <2>6, <2>7, <2>8, <2>9
<1> QED
  BY <1>5, <1>6

\* A process announces a version, or never does.
LEMMA AnnouncementsCatchUp ==
  ASSUME CatchUpInv, NEW commit \in committing, AnnounceCommit(commit) \/ LoseCommit(commit)
  PROVE  CatchUpInv'
<1>1. /\ ServerBounds /\ ChangesBounded /\ changes \in SUBSET ChangeRows
      /\ dbVersion \in Nat /\ dbVersion >= 1 /\ known \in 1 .. dbVersion /\ changeIds \in Nat
      /\ apiCache \in (1 .. known) \cup {NoVersion}
      /\ \A k \in committing : k.version \in 1 .. dbVersion /\ k.names \subseteq Details
      /\ socket = [up |-> socket.up, inbox |-> socket.inbox, disruptions |-> socket.disruptions]
      /\ socket.inbox \subseteq [version : 0 .. dbVersion, names : SUBSET Details]
      /\ named \in [Details -> 1 .. dbVersion] /\ \A v \in Views : Newest(v) \in 1 .. dbVersion
      /\ IsFiniteSet(Sent) /\ Cardinality(Sent) \in Nat
      /\ dbVersion + Cardinality(Sent) <= MaxWrites
  BY ServerFacts
<1>2. mishaps = {} => /\ apiCache \in {known, NoVersion}
                      /\ \A v \in Views : Committing(v) \/ Newest(v) <= known
  BY ServerFacts
<1>3. StoreInv'
  BY WritesKeep DEF CatchUpInv
<1>4. /\ committing' = committing \ {commit} /\ dbVersion' = dbVersion /\ named' = named
      /\ UNCHANGED <<shownVars, changeIds, dropped>>
  BY DEF AnnounceCommit, LoseCommit
<1>5. /\ \A c \in changes' : c.at = "confirmed" => c \in changes
      /\ ChangesBounded' /\ Sent' \subseteq Sent
  <2>1. PICK at \in {"answered", "failed"} : RequestEnds(commit, at)
    BY DEF AnnounceCommit, LoseCommit
  <2> DEFINE row(c) == [c EXCEPT !.at = at]
  <2>2. \A c \in changes : row(c).at = at /\ row(c).id = c.id
    BY <1>1 DEF ChangeRows
  <2>3. changes' = {IF c.id = commit.change THEN row(c) ELSE c : c \in changes}
    BY <2>1 DEF RequestEnds
  <2> HIDE DEF row
  <2>4. \A c \in changes' : c \in changes \/ (c.at = at /\ \E d \in changes : c.id = d.id)
    BY <2>2, <2>3
  <2> QED
    BY <1>1, <1>4, <2>4 DEF ChangesBounded, Sent
<1>6. IsFiniteSet(Sent') /\ dbVersion + Cardinality(Sent') <= MaxWrites
  <2>1. /\ IsFiniteSet(Sent') /\ Cardinality(Sent') <= Cardinality(Sent)
        /\ Cardinality(Sent') \in Nat
    BY <1>1, <1>5, FewerSent
  <2> QED
    BY <1>1, <2>1, StoreBounds
<1>7. changeIds <= changeIds'
  BY <1>1, <1>4
<1>8. CASE LoseCommit(commit)
  <2>1. UNCHANGED <<apiCache, known, socket>> /\ mishaps' # {}
    BY <1>8 DEF LoseCommit
  <2>2. ServerBounds' /\ known <= known'
    BY <1>1, <1>4, <1>6, <2>1 DEF ServerBounds
  <2> QED
    BY <1>3, <1>4, <1>5, <1>7, <2>1, <2>2, WriteCatchesUp
<1>9. ASSUME NEW version \in 1 .. dbVersion, Announce(version, commit.names),
             apiCache' \in (1 .. known') \cup {NoVersion},
             mishaps' = {} => mishaps = {} /\ apiCache' \in {known', NoVersion},
             commit.version <= version
      PROVE  CatchUpInv'
  <2> DEFINE news == [version |-> version, names |-> commit.names]
  <2>1. known' \in 1 .. dbVersion /\ known <= known' /\ version <= known'
    BY <1>1, <1>9 DEF Announce
  <2>2. /\ socket'.up = socket.up /\ socket.inbox \subseteq socket'.inbox
        /\ socket'.inbox \subseteq socket.inbox \cup {news}
        /\ socket.up => news \in socket'.inbox
        /\ socket' = [up |-> socket'.up, inbox |-> socket'.inbox,
                      disruptions |-> socket'.disruptions]
    BY <1>1, <1>9 DEF Announce
  <2>3. /\ news.version = version /\ news.names = commit.names
        /\ news \in [version : 0 .. dbVersion, names : SUBSET Details]
    BY <1>1, <1>9
  <2> HIDE DEF news
  <2>4. ServerBounds'
    <3>1. socket'.inbox \subseteq [version : 0 .. dbVersion, names : SUBSET Details]
      BY <1>1, <2>2, <2>3
    <3> QED
      BY <1>1, <1>4, <1>6, <1>9, <2>1, <2>2, <3>1 DEF ServerBounds
  <2>5. ASSUME NEW v \in Views
        PROVE  /\ Newest(v)' = Newest(v) /\ Newest(v) \in 1 .. dbVersion
               /\ Committing(v) => /\ Committing(v)' \/ Newest(v) <= version
                                   /\ OnTheWay(v)'
               /\ OnTheWay(v) => OnTheWay(v)'
    <3>1. Newest(v)' = Newest(v) /\ Newest(v) \in 1 .. dbVersion
      BY <1>1, <1>4 DEF Newest
    <3>2. Committing(v) => Committing(v)' \/ (commit.version = Newest(v) /\ Concerns(commit, v))
      BY <1>4, <3>1 DEF Committing, Concerns
    <3>3. commit.version = Newest(v) /\ Concerns(commit, v) => OnTheWay(v)'
      BY <1>1, <1>9, <2>2, <2>3, <3>1 DEF OnTheWay, Concerns
    <3>4. Committing(v) => OnTheWay(v)'
      BY <3>2, <3>3 DEF OnTheWay
    <3>5. OnTheWay(v) => OnTheWay(v)'
      BY <2>2, <3>1, <3>4 DEF OnTheWay
    <3> QED
      BY <1>9, <3>1, <3>2, <3>4, <3>5
  <2>6. ASSUME mishaps = {}, NEW v \in Views
        PROVE  Committing(v)' \/ Newest(v)' <= known'
    BY <1>1, <1>2, <2>1, <2>5, <2>6
  <2>7. \A v \in Views : OnTheWay(v)' \/ (~ OnTheWay(v) /\ Newest(v)' = Newest(v))
    BY <2>5
  <2> QED
    BY <1>3, <1>4, <1>5, <1>7, <1>9, <2>1, <2>4, <2>6, <2>7, WriteCatchesUp
<1>10. ASSUME AnnounceCommit(commit), commit.byWorker
       PROVE  CatchUpInv'
  <2>1. /\ apiCache' = IF apiCache # NoVersion /\ apiCache < dbVersion
                       THEN NoVersion ELSE apiCache
        /\ Announce(dbVersion, commit.names) /\ mishaps' = mishaps
    BY <1>10 DEF AnnounceCommit
  <2>2. known' = dbVersion
    BY <1>1, <2>1 DEF Announce
  <2>3. apiCache' \in {dbVersion, NoVersion}
    BY <1>1, <2>1
  <2> QED
    BY <1>1, <1>9, <2>1, <2>2, <2>3
<1>11. ASSUME AnnounceCommit(commit), ~ commit.byWorker
       PROVE  CatchUpInv'
  <2>1. /\ \/ /\ apiCache' = commit.version
              /\ mishaps' = mishaps \cup Overdue(commit.version)
           \/ apiCache' = NoVersion /\ mishaps' = mishaps
        /\ Announce(commit.version, commit.names)
    BY <1>11 DEF AnnounceCommit
  <2>2. /\ commit.version \in 1 .. dbVersion /\ commit.version <= known' /\ known' \in Nat
        /\ ~ commit.version < known => known' = commit.version
    BY <1>1, <2>1 DEF Announce
  <2>3. apiCache' \in (1 .. known') \cup {NoVersion}
    BY <1>1, <2>1, <2>2
  <2>4. ASSUME mishaps' = {}
        PROVE  mishaps = {} /\ apiCache' \in {known', NoVersion}
    <3>1. mishaps = {} /\ (apiCache' = NoVersion \/ ~ commit.version < known)
      BY <2>1, <2>4 DEF Overdue
    <3> QED
      BY <2>1, <2>2, <3>1
  <2> QED
    BY <1>9, <2>1, <2>2, <2>3, <2>4
<1> QED
  BY <1>8, <1>10, <1>11

\* Changes start and are refused; the socket goes and comes back.
LEMMA OthersCatchUp ==
  ASSUME CatchUpInv,
         \/ Disconnect \/ Reconnect
         \/ \E over \in SUBSET Views : StartChange(over)
         \/ \E c \in changes : Reject(c)
  PROVE  CatchUpInv'
<1>1. /\ ServerBounds /\ ChangesBounded /\ changes \in SUBSET ChangeRows
      /\ dbVersion \in Nat /\ dbVersion >= 1 /\ known \in 1 .. dbVersion /\ changeIds \in Nat
      /\ socket = [up |-> socket.up, inbox |-> socket.inbox, disruptions |-> socket.disruptions]
      /\ \A k \in committing : k.version \in 1 .. dbVersion /\ k.names \subseteq Details
      /\ socket.inbox \subseteq [version : 0 .. dbVersion, names : SUBSET Details]
      /\ named \in [Details -> 1 .. dbVersion] /\ \A v \in Views : Newest(v) \in 1 .. dbVersion
      /\ apiCache \in (1 .. known) \cup {NoVersion}
      /\ IsFiniteSet(Sent) /\ Cardinality(Sent) \in Nat
      /\ dbVersion + Cardinality(Sent) <= MaxWrites
  BY ServerFacts
<1>2. mishaps = {} => /\ apiCache \in {known, NoVersion}
                      /\ \A v \in Views : Committing(v) \/ Newest(v) <= known
  BY ServerFacts
<1>3. StoreInv'
  BY WritesKeep DEF CatchUpInv
<1>4. /\ UNCHANGED <<dbVersion, apiCache, committing, known, named, shownVars, dropped>>
      /\ mishaps' = {} => mishaps = {}
  BY DEF Disconnect, Reconnect, StartChange, Reject, serverVars
<1> DEFINE Stay(v) == Newest(v)' = Newest(v) /\ (Committing(v) => Committing(v)')
<1>9. \A v \in Views : Stay(v)
  BY <1>4 DEF Newest, Committing
<1>10. mishaps' = {} => \A v \in Views : Committing(v)' \/ Newest(v)' <= known'
  BY <1>2, <1>4, <1>9
<1>5. CASE Disconnect \/ Reconnect
  <2>1. /\ changes' = changes /\ changeIds' = changeIds
        /\ socket' = [up |-> socket'.up, inbox |-> socket'.inbox,
                      disruptions |-> socket'.disruptions]
        /\ socket'.inbox \subseteq [version : 0 .. dbVersion, names : SUBSET Details]
        /\ mishaps' = {} => \/ ~ socket'.up
                            \/ \E news \in socket'.inbox : news.version = dbVersion
                                                           /\ news.names = Details
    <3>1. CASE Disconnect
      BY <3>1 DEF Disconnect
    <3>2. CASE Reconnect
      <4>1. PICK version \in {0, dbVersion} :
              /\ socket' = [socket EXCEPT !.up = TRUE,
                                          !.inbox = {[version |-> version, names |-> Details]}]
              /\ mishaps' = IF version = 0 THEN mishaps \cup {"snapshot without version"}
                                           ELSE mishaps
        BY <3>2 DEF Reconnect
      <4>2. /\ socket' = [up |-> TRUE, inbox |-> {[version |-> version, names |-> Details]},
                          disruptions |-> socket.disruptions]
            /\ changes' = changes /\ changeIds' = changeIds
        BY <1>1, <3>2, <4>1 DEF Reconnect
      <4>3. version \in 0 .. dbVersion
        <5>1. dbVersion \in Nat
          BY <1>1
        <5>2. version \in {0, dbVersion}
          OBVIOUS
        <5> QED
          BY ONLY <5>1, <5>2
      <4>4. mishaps' = {} => version = dbVersion
        <5>1. CASE version = 0
          <6>1. mishaps' = mishaps \cup {"snapshot without version"}
            BY <4>1, <5>1
          <6> QED
            BY <6>1
        <5>2. CASE version # 0
          BY <4>1, <5>2
        <5> QED
          BY <5>1, <5>2
      <4>5. [version |-> version, names |-> Details] \in [version : 0 .. dbVersion,
                                                          names : SUBSET Details]
        BY <4>3
      <4> QED
        BY <4>2, <4>4, <4>5
    <3> QED
      BY <1>5, <3>1, <3>2
  <2>2. ServerBounds' /\ ChangesBounded'
    BY <1>1, <1>4, <2>1 DEF ServerBounds, ChangesBounded, Sent
  <2>3. ASSUME mishaps' = {}, NEW v \in Views
        PROVE  OnTheWay(v)'
    <3>1. Newest(v)' \in 1 .. dbVersion /\ dbVersion \in Nat
      BY <1>1, <1>9
    <3>2. CASE ~ socket'.up
      BY <3>2 DEF OnTheWay
    <3>3. ASSUME NEW news \in socket'.inbox, news.version = dbVersion, news.names = Details
          PROVE  OnTheWay(v)'
      <4>1. news.version >= Newest(v)'
        BY <3>1, <3>3
      <4> QED
        BY <3>3, <4>1 DEF OnTheWay, Concerns
    <3> QED
      BY <2>1, <2>3, <3>2, <3>3
  <2>4. known <= known' /\ changeIds <= changeIds'
    BY <1>1, <1>4, <2>1
  <2> QED
    BY <1>2, <1>3, <1>4, <1>10, <2>1, <2>2, <2>3, <2>4, WriteCatchesUp
<1>6. ASSUME UNCHANGED socket, changeIds <= changeIds', changeIds' \in Nat, ChangesBounded',
             IsFiniteSet(Sent'), dbVersion + Cardinality(Sent') <= MaxWrites,
             \A c \in changes' : c.at = "confirmed" => c \in changes
      PROVE  CatchUpInv'
  <2>1. ServerBounds' /\ known <= known'
    BY <1>1, <1>4, <1>6 DEF ServerBounds
  <2>2. \A v \in Views : OnTheWay(v)' \/ (~ OnTheWay(v) /\ Newest(v)' = Newest(v))
    BY <1>4, <1>6, <1>9 DEF OnTheWay
  <2> QED
    BY <1>2, <1>3, <1>4, <1>6, <1>10, <2>1, <2>2, WriteCatchesUp
<1>7. ASSUME NEW over \in SUBSET Views, StartChange(over)
      PROVE  CatchUpInv'
  <2> DEFINE row == [id |-> changeIds + 1, over |-> over, at |-> "sent",
                     confirmed |-> 0, watch |-> {}]
  <2>1. /\ changes' = changes \cup {row} /\ changeIds' = changeIds + 1 /\ socket' = socket
        /\ dbVersion + Cardinality(Sent) < MaxWrites
    BY <1>7 DEF StartChange, Unwritten, Sent
  <2>2. Sent' = Sent \cup {row} /\ row.at = "sent" /\ row.id = changeIds + 1
    BY <2>1 DEF Sent
  <2> HIDE DEF row
  <2>3. /\ IsFiniteSet(Sent') /\ Cardinality(Sent') \in Nat
        /\ Cardinality(Sent') <= Cardinality(Sent) + 1
    <3>1. /\ IsFiniteSet(Sent')
          /\ Cardinality(Sent') = IF row \in Sent THEN Cardinality(Sent) ELSE Cardinality(Sent) + 1
      BY <1>1, <2>2, FS_AddElement
    <3> QED
      BY <1>1, <3>1
  <2>4. dbVersion + Cardinality(Sent') <= MaxWrites
    BY <1>1, <2>1, <2>3, StoreBounds
  <2>5. ChangesBounded'
    BY <1>1, <1>4, <2>1, <2>2 DEF ChangesBounded
  <2>6. changeIds <= changeIds' /\ changeIds' \in Nat
    BY <1>1, <2>1
  <2> QED
    BY <1>6, <2>1, <2>2, <2>3, <2>4, <2>5, <2>6
<1>8. ASSUME NEW c \in changes, Reject(c)
      PROVE  CatchUpInv'
  <2>1. changes' = changes \ {c} /\ changeIds' = changeIds /\ socket' = socket
    BY <1>8 DEF Reject
  <2>2. Sent' \subseteq Sent /\ ChangesBounded'
    BY <1>1, <1>4, <2>1 DEF Sent, ChangesBounded
  <2>3. /\ IsFiniteSet(Sent') /\ Cardinality(Sent') <= Cardinality(Sent)
        /\ Cardinality(Sent') \in Nat
    BY <1>1, <2>2, FewerSent
  <2>4. dbVersion + Cardinality(Sent') <= MaxWrites
    BY <1>1, <2>3, StoreBounds
  <2>5. changeIds <= changeIds' /\ changeIds' \in Nat
    BY <1>1, <2>1
  <2> QED
    BY <1>6, <2>1, <2>2, <2>3, <2>4, <2>5
<1> QED
  BY <1>5, <1>7, <1>8

LEMMA CatchUpStarts == StoreInit => CatchUpInv
<1> SUFFICES ASSUME StoreInit
             PROVE  CatchUpInv
  OBVIOUS
<1>1. /\ IdleEntry.status = "idle" /\ IdleEntry.version = 0 /\ IdleEntry.holds = {}
      /\ IdleEntry.whole /\ NoFetch.pc = "none" /\ NoFetch.after = {}
  BY DEF IdleEntry, NoFetch
<1>2. /\ dbVersion = 1 /\ apiCache = NoVersion /\ committing = {} /\ known = 1
      /\ socket = [up |-> TRUE, inbox |-> {}, disruptions |-> 0]
      /\ entries = [v \in Views |-> IdleEntry] /\ fetches = [v \in Views |-> NoFetch]
      /\ changes = {} /\ dropped = {} /\ changeIds = 0 /\ named = [d \in Details |-> 1]
  BY DEF StoreInit
<1>3. Sent = {} /\ IsFiniteSet(Sent) /\ Cardinality(Sent) = 0
  BY <1>2, FS_EmptySet DEF Sent
<1>4. ServerBounds
  BY <1>2, <1>3, StoreBounds DEF ServerBounds
<1>5. BrowserBounds
  BY <1>1, <1>2, <1>4 DEF BrowserBounds, ChangesBounded, Unsettled, Bounded
<1>6. Smooth
  BY <1>1, <1>2 DEF Smooth, Forward, Awaited, CatchesUp, Newest, Views
<1> QED
  BY <1>5, <1>6, StoreStarts DEF CatchUpInv

LEMMA CatchUpStepsKeep == CatchUpInv /\ [StoreNext]_storeVars => CatchUpInv'
<1> SUFFICES ASSUME CatchUpInv, [StoreNext]_storeVars
             PROVE  CatchUpInv'
  OBVIOUS
<1>1. CASE StoreNext
  BY <1>1, OpensAndNotesCatchUp, PagesCatchUp, EndsCatchUp, TrimCatchesUp, ConfirmCatchesUp,
     CommitsCatchUp, AnnouncementsCatchUp, OthersCatchUp DEF StoreNext
<1>2. CASE UNCHANGED storeVars
  <2>1. StoreInv'
    BY <1>2, StoreStepsKeep DEF CatchUpInv
  <2> QED
    BY <1>2, <2>1 DEF storeVars, serverVars, shownVars, CatchUpInv, BrowserBounds, ServerBounds,
       ChangesBounded, Sent, Smooth, OnTheWay, Committing, Newest
<1> QED
  BY <1>1, <1>2

(***************************************************************************)
(* Whatever happens on the way, a list that does not show the newest       *)
(* version, and a detail that does not show the newest one that names its  *)
(* task, is told of it, or is being fetched again (task-store.ts           *)
(* noteTreeVersion, confirm, and `again` of refresh).                      *)
(***************************************************************************)
THEOREM CatchUpInvAlways == StoreSpec => []CatchUpInv
<1> QED
  BY CatchUpStarts, CatchUpStepsKeep, PTL DEF StoreSpec

(***************************************************************************)
(* A browser at rest shows the server's tree in its lists, the commits     *)
(* that name its task in each detail, and no local change, unless one of   *)
(* the recorded mishaps kept it from that (task-store.ts).                 *)
(***************************************************************************)
THEOREM BrowsersConverge == StoreSpec => []BrowserConverges
<1>1. ASSUME CatchUpInv
      PROVE  StoreTypeOK
  <2>1. /\ dbVersion \in Nat /\ dbVersion >= 1 /\ known \in 1 .. dbVersion
        /\ apiCache \in (1 .. known) \cup {NoVersion}
        /\ \A commit \in committing : commit.version \in 1 .. dbVersion
        /\ socket.inbox \subseteq [version : 0 .. dbVersion, names : SUBSET Details]
        /\ named \in [Details -> 1 .. dbVersion]
        /\ Cardinality(Sent) \in Nat /\ dbVersion + Cardinality(Sent) <= MaxWrites
    BY <1>1, ServerFacts
  <2>2. dbVersion \in 1 .. MaxWrites
    BY <2>1, StoreBounds
  <2>3. ASSUME NEW v \in Views
        PROVE  entries[v] \in [status : {"idle", "loading", "ready", "error"},
                               version : 0 .. dbVersion, whole : BOOLEAN, loadedSeq : Nat,
                               again : BOOLEAN, holds : SUBSET (1 .. changeIds)]
    <3>1. entries[v] \in EntryRows /\ Bounded(entries[v], fetches[v], known, changeIds)
      BY <1>1, ShownRows DEF CatchUpInv, BrowserBounds
    <3>2. entries[v].version \in 0 .. dbVersion
      BY <2>1, <3>1 DEF Bounded
    <3> QED
      BY <3>1, <3>2 DEF EntryRows, Bounded
  <2>4. /\ entries \in [Views -> EntryRows] /\ fetches \in [Views -> FetchRows]
        /\ changes \in SUBSET ChangeRows
    BY <1>1, ShownRows DEF CatchUpInv
  <2>5. /\ \A v \in Views : fetches[v].pc \in {"none", "ask", "reading", "told"}
        /\ \A c \in changes : c.at \in {"sent", "applied", "answered", "failed", "confirmed"}
    BY <2>4 DEF FetchRows, ChangeRows
  <2>6. entries \in [Views -> [status : {"idle", "loading", "ready", "error"},
                               version : 0 .. dbVersion, whole : BOOLEAN, loadedSeq : Nat,
                               again : BOOLEAN, holds : SUBSET (1 .. changeIds)]]
    BY <2>3, <2>4
  <2> QED
    BY <2>1, <2>2, <2>5, <2>6 DEF StoreTypeOK
<1>2. ASSUME CatchUpInv, AtRest, mishaps = {}
      PROVE  changes = {} /\ \A v \in Views : entries[v].status = "ready" => Current(v)
  <2>1. Smooth /\ Unsettled(changes, entries) /\ changes \in SUBSET ChangeRows
    BY <1>2, ShownRows DEF CatchUpInv, BrowserBounds
  <2>2. \A v \in Views : fetches[v].pc = "none"
    BY <1>2 DEF AtRest, InFlight
  <2>3. ASSUME NEW c \in changes
        PROVE  FALSE
    <3>1. c.at = "confirmed" /\ c.watch \subseteq Views
      BY <1>2, <2>1 DEF AtRest, ChangeRows
    <3>2. Settled(c, entries)
      BY <2>1, <2>2, <3>1 DEF Smooth, Awaited, Settled
    <3> QED
      BY <2>1, <3>2 DEF Unsettled
  <2>4. \A v \in Views : ~ OnTheWay(v)
    BY <1>2 DEF AtRest, OnTheWay, Committing
  <2>5. \A v \in Views : entries[v].status = "ready" => Current(v)
    BY <2>1, <2>2, <2>4 DEF Smooth, Forward, CatchesUp, Current
  <2> QED
    BY <2>3, <2>5
<1>3. CatchUpInv => BrowserConverges
  BY <1>1, <1>2 DEF BrowserConverges
<1> QED
  BY <1>3, CatchUpInvAlways, PTL

-----------------------------------------------------------------------------
(* The editor: the inductive invariant *)

EditorFields ==
  {"phase", "head", "buffer", "base", "dirty", "save", "conflict", "draftSeq", "key", "inFlight",
   "saving", "queued", "pending", "draftDue", "reads", "review", "left"}

CallFields == {"id", "by", "kind", "payload", "told", "at", "seq", "answer"}

IsHistory(h) == Len(h) \in Nat \ {0} /\ \E S : h \in Seq(S)

PayloadOK(p) == p.key \in Keys

\* A session that is not dirty shows a published revision; only such a one says "saved".
EditorOK(x, h) ==
  /\ DOMAIN x = EditorFields
  /\ x.dirty \in BOOLEAN
  /\ x.phase = "ready" =>
       /\ x.save = "saved" => ~ x.dirty
       /\ ~ x.dirty => x.base \in 1 .. Len(h) /\ x.buffer = h[x.base]
  /\ \A r \in x.reads : r \in 1 .. Len(h)
  /\ x.key # None => x.key \in Keys
  /\ x.inFlight # None => PayloadOK(x.inFlight)

\* The revision that an answer names has the text that the call carried.
CallOK(c, h) ==
  /\ DOMAIN c = CallFields /\ c.by \in Editors /\ c.kind \in {"save", "merge"}
  /\ PayloadOK(c.payload)
  /\ c.answer # None =>
       /\ c.answer.kind \in {"published", "conflict", "failed"}
       /\ c.answer.kind = "published" =>
            c.answer.revision \in 1 .. Len(h) /\ h[c.answer.revision] = c.payload.text

RecordOK(r, h) == r.revision \in 1 .. Len(h) /\ h[r.revision] = r.input.text

EditInv ==
  /\ IsHistory(history) /\ sent \in Nat
  /\ DOMAIN editor = Editors /\ \A e \in Editors : EditorOK(editor[e], history)
  /\ \A c \in calls : CallOK(c, history)
  /\ DOMAIN recorded = Keys
  /\ \A k \in Keys : recorded[k] # None => RecordOK(recorded[k], history)

-----------------------------------------------------------------------------
(* The editor: histories only grow *)

Grows(h, g) ==
  /\ IsHistory(h) /\ IsHistory(g) /\ Len(h) <= Len(g)
  /\ \A i \in 1 .. Len(h) : i \in 1 .. Len(g) /\ g[i] = h[i]

LEMMA Appended ==
  ASSUME NEW h, IsHistory(h), NEW x
  PROVE  /\ Grows(h, Append(h, x)) /\ Len(Append(h, x)) = Len(h) + 1
         /\ Append(h, x)[Len(h) + 1] = x /\ Len(h) + 1 \in 1 .. Len(h) + 1
<1>1. PICK S : h \in Seq(S)
  BY DEF IsHistory
<1> DEFINE T == S \cup {x}
<1>2. h \in Seq(T) /\ x \in T /\ Len(h) \in Nat \ {0}
  BY <1>1 DEF IsHistory
<1> HIDE DEF T
<1>3. /\ Append(h, x) \in Seq(T) /\ Len(Append(h, x)) = Len(h) + 1
      /\ Append(h, x)[Len(h) + 1] = x /\ \A i \in 1 .. Len(h) : Append(h, x)[i] = h[i]
  BY <1>2
<1>4. IsHistory(Append(h, x))
  BY <1>2, <1>3 DEF IsHistory
<1> QED
  BY <1>2, <1>3, <1>4 DEF Grows

LEMMA GrownEditor ==
  ASSUME NEW x, NEW h, NEW g, Grows(h, g), EditorOK(x, h)
  PROVE  EditorOK(x, g)
BY DEF Grows, EditorOK

LEMMA GrownCall ==
  ASSUME NEW c, NEW h, NEW g, Grows(h, g), CallOK(c, h)
  PROVE  CallOK(c, g)
BY DEF Grows, CallOK

LEMMA GrownRecord ==
  ASSUME NEW r, NEW h, NEW g, Grows(h, g), RecordOK(r, h)
  PROVE  RecordOK(r, g)
BY DEF Grows, RecordOK

LEMMA SameHistory ==
  ASSUME NEW h, IsHistory(h)
  PROVE  Grows(h, h) /\ Len(h) \in 1 .. Len(h)
BY DEF Grows, IsHistory

-----------------------------------------------------------------------------
(* The editor: what a session becomes *)

LEMMA LoadedOK ==
  ASSUME NEW st, EditorOK(st, history), IsHistory(history), NEW draft
  PROVE  EditorOK(Loaded(st, draft), history)
<1> DEFINE restored == draft # None /\ draft.text # history[Latest]
<1>1. Latest \in 1 .. Len(history)
  BY SameHistory DEF Latest
<1>2. restored \in BOOLEAN
  OBVIOUS
<1>3. CASE restored
  BY <1>1, <1>3 DEF Loaded, EditorOK, EditorFields
<1>4. CASE ~ restored
  BY <1>1, <1>4 DEF Loaded, EditorOK, EditorFields
<1> QED
  BY <1>3, <1>4

LEMMA SavedOK ==
  ASSUME NEW st, NEW h, EditorOK(st, h), NEW text, NEW revision \in 1 .. Len(h),
         h[revision] = text
  PROVE  EditorOK(Saved(st, text, revision), h)
<1>1. CASE st.buffer # text
  BY <1>1 DEF Saved, EditorOK, EditorFields
<1>2. CASE st.buffer = text
  BY <1>2 DEF Saved, EditorOK, EditorFields
<1> QED
  BY <1>1, <1>2

LEMMA ConflictedOK ==
  ASSUME NEW st, NEW h, EditorOK(st, h), NEW current, NEW base
  PROVE  EditorOK(Conflicted(st, current, base), h)
BY DEF Conflicted, EditorOK, EditorFields

LEMMA HeardOK ==
  ASSUME NEW st, NEW h, EditorOK(st, h), NEW c, CallOK(c, h), NEW answer,
         answer = None \/ answer = c.answer
  PROVE  EditorOK(Heard(st, c, answer), h)
<1>1. CASE answer = None
  BY <1>1 DEF Heard, EditorOK, EditorFields
<1>2. CASE answer # None
  <2> DEFINE free == [st EXCEPT !.key = None,
                                !.inFlight = IF c.kind = "merge" THEN st.inFlight ELSE None]
  <2>1. EditorOK(free, h)
    BY DEF EditorOK, EditorFields
  <2>2. EditorOK([free EXCEPT !.save = "failed"], h)
    BY <2>1 DEF EditorOK, EditorFields
  <2>3. Heard(st, c, answer) =
          CASE answer.kind = "published" -> Saved(free, c.payload.text, answer.revision)
            [] answer.kind = "conflict"  ->
                 Conflicted(free, answer.revision,
                            IF c.kind = "merge" THEN c.payload.base ELSE st.base)
            [] answer.kind = "failed"    -> [free EXCEPT !.save = "failed"]
    BY <1>2 DEF Heard
  <2> HIDE DEF free
  <2>4. answer.kind \in {"published", "conflict", "failed"}
    BY <1>2 DEF CallOK
  <2>5. CASE answer.kind = "published"
    <3>1. answer.revision \in 1 .. Len(h) /\ h[answer.revision] = c.payload.text
      BY <1>2, <2>5 DEF CallOK
    <3>2. Heard(st, c, answer) = Saved(free, c.payload.text, answer.revision)
      BY <2>3, <2>5
    <3> QED
      BY <2>1, <3>1, <3>2, SavedOK
  <2>6. CASE answer.kind = "conflict"
    <3>1. PICK base : base = IF c.kind = "merge" THEN c.payload.base ELSE st.base
      OBVIOUS
    <3>2. Heard(st, c, answer) = Conflicted(free, answer.revision, base)
      BY <2>3, <2>6, <3>1
    <3> QED
      BY <2>1, <3>2, ConflictedOK
  <2>7. CASE answer.kind = "failed"
    <3>1. Heard(st, c, answer) = [free EXCEPT !.save = "failed"]
      BY <2>3, <2>7
    <3> QED
      BY <2>2, <3>1
  <2> QED
    BY <2>4, <2>5, <2>6, <2>7
<1> QED
  BY <1>1, <1>2

LEMMA PayloadIsOK ==
  ASSUME NEW st, NEW h, EditorOK(st, h), sent \in Nat, sent < MaxCalls, NEW trigger
  PROVE  PayloadOK(Payload(st, trigger))
<1>1. sent + 1 \in Keys
  BY EditingAssumption DEF Keys
<1>2. CASE Retrying(st, trigger)
  BY <1>2 DEF Payload, Retrying, EditorOK
<1>3. CASE ~ Retrying(st, trigger)
  BY <1>1, <1>3 DEF Payload, EditorOK, PayloadOK
<1> QED
  BY <1>2, <1>3

\* A call whose caller does not wait for the answer.
Told(c) == [c EXCEPT !.told = TRUE]

LEMMA NewCallOK ==
  ASSUME NEW h, NEW e \in Editors, NEW kind \in {"save", "merge"}, NEW payload, PayloadOK(payload)
  PROVE  CallOK(Call(e, kind, payload), h) /\ CallOK(Told(Call(e, kind, payload)), h)
<1>1. PICK c : c = Call(e, kind, payload)
  OBVIOUS
<1>2. CallOK(c, h)
  BY <1>1 DEF CallOK, CallFields, Call
<1>3. CallOK(Told(c), h)
  BY <1>2 DEF CallOK, CallFields, Told
<1> QED
  BY <1>1, <1>2, <1>3

-----------------------------------------------------------------------------
(* The editor: every action keeps the invariant *)

\* What is left to show of a step that changes sessions and calls.
LEMMA SessionStep ==
  ASSUME EditInv, UNCHANGED <<history, recorded>>, sent' \in Nat, NEW e \in Editors, NEW x,
         editor' = [editor EXCEPT ![e] = x], EditorOK(x, history),
         \A c \in calls' : CallOK(c, history)
  PROVE  EditInv'
<1>1. DOMAIN editor' = Editors /\ \A d \in Editors : EditorOK(editor'[d], history)
  BY DEF EditInv
<1> QED
  BY <1>1 DEF EditInv

\* The service's steps: the history grows, one call changes.
LEMMA ServiceStep ==
  ASSUME EditInv, Grows(history, history'), UNCHANGED <<editor, sent>>,
         NEW c \in calls, NEW d, Update(c, d), CallOK(d, history'),
         DOMAIN recorded' = Keys,
         \A k \in Keys : recorded'[k] # None => RecordOK(recorded'[k], history')
  PROVE  EditInv'
<1>1. \A x \in calls' : CallOK(x, history')
  BY GrownCall DEF Update, EditInv
<1>2. \A e \in Editors : EditorOK(editor'[e], history')
  BY GrownEditor DEF EditInv
<1> QED
  BY <1>1, <1>2 DEF EditInv, Grows

LEMMA SavesInv ==
  ASSUME EditInv, NEW e \in Editors, NEW st, EditorOK(st, history), NEW trigger,
         RunSave(e, st, trigger), UNCHANGED <<history, recorded>>
  PROVE  EditInv'
<1>1. EditInv /\ \A c \in calls : CallOK(c, history)
  BY DEF EditInv
<1>2. CASE st.saving
  <2>1. /\ editor' = [editor EXCEPT ![e] = [st EXCEPT !.queued = trigger]]
        /\ UNCHANGED <<calls, sent>>
    BY <1>2 DEF RunSave
  <2>2. EditorOK([st EXCEPT !.queued = trigger], history)
    BY DEF EditorOK, EditorFields
  <2> QED
    BY <1>1, <2>1, <2>2, SessionStep DEF EditInv
<1>3. CASE ~ st.saving /\ ~ (st.dirty \/ Retrying(st, trigger))
  <2>1. PICK x : x = IF st.save = "failed" THEN [st EXCEPT !.save = "saved"] ELSE st
    OBVIOUS
  <2>2. editor' = [editor EXCEPT ![e] = x] /\ UNCHANGED <<calls, sent>>
    BY <1>3, <2>1 DEF RunSave
  <2>3. EditorOK(x, history)
    BY <1>3, <2>1 DEF EditorOK, EditorFields
  <2> QED
    BY <1>1, <2>2, <2>3, SessionStep DEF EditInv
<1>4. CASE ~ st.saving /\ (st.dirty \/ Retrying(st, trigger))
  <2>1. PICK p : p = Payload(st, trigger)
    OBVIOUS
  <2>2. /\ sent < MaxCalls /\ sent' = sent + 1 /\ calls' = calls \cup {Call(e, "save", p)}
        /\ editor' = [editor EXCEPT ![e] = [st EXCEPT !.saving = TRUE, !.save = "saving",
                        !.key = p.key, !.inFlight = p]]
    BY <1>4, <2>1 DEF RunSave
  <2>3. PayloadOK(p)
    BY <2>1, <2>2, PayloadIsOK DEF EditInv
  <2>4. EditorOK([st EXCEPT !.saving = TRUE, !.save = "saving", !.key = p.key, !.inFlight = p],
                 history)
    BY <2>3 DEF EditorOK, EditorFields, PayloadOK
  <2>5. \A c \in calls' : CallOK(c, history)
    BY <1>1, <2>2, <2>3, NewCallOK
  <2>6. sent' \in Nat
    BY <2>2 DEF EditInv
  <2> QED
    BY <2>2, <2>4, <2>5, <2>6, SessionStep
<1> QED
  BY <1>2, <1>3, <1>4

LEMMA FinishInv ==
  ASSUME EditInv, NEW c \in calls, NEW st, EditorOK(st, history), Finish(c.by, c, st),
         NEW left, \A d \in left : CallOK(d, history),
         calls' = (calls \ {c}) \cup left \cup Resent(c.by, c, st),
         UNCHANGED <<history, recorded>>
  PROVE  EditInv'
<1> DEFINE idle == [st EXCEPT !.saving = FALSE]
           next == [idle EXCEPT !.queued = "none"]
           plain == [st EXCEPT !.saving = FALSE, !.queued = "none"]
           p == Payload(next, st.queued)
<1>0. c.by \in Editors /\ c.kind \in {"save", "merge"} /\ \A d \in calls : CallOK(d, history)
  BY DEF EditInv, CallOK
<1>1. EditorOK(idle, history) /\ EditorOK(next, history) /\ next = plain
  BY DEF EditorOK, EditorFields
<1>2. CASE c.kind = "save" /\ st.queued # "none" /\ st.dirty
  <2>1. /\ sent < MaxCalls /\ sent' = sent + 1
        /\ editor' = [editor EXCEPT ![c.by] = [next EXCEPT !.saving = TRUE,
                        !.save = "saving", !.key = p.key, !.inFlight = p]]
    BY <1>2 DEF Finish
  <2>2. Resent(c.by, c, st) = {Call(c.by, "save", p)}
    BY <1>1, <1>2 DEF Resent
  <2> HIDE DEF next, idle, plain
  <2>3. PayloadOK(p)
    BY <1>1, <2>1, PayloadIsOK DEF EditInv
  <2> HIDE DEF p
  <2>4. EditorOK([next EXCEPT !.saving = TRUE, !.save = "saving", !.key = p.key, !.inFlight = p],
                 history)
    BY <1>1, <2>3 DEF EditorOK, EditorFields, PayloadOK
  <2>5. \A d \in calls' : CallOK(d, history)
    BY <1>0, <2>2, <2>3, NewCallOK
  <2>6. sent' \in Nat
    BY <2>1 DEF EditInv
  <2> QED
    BY <1>0, <2>1, <2>4, <2>5, <2>6, SessionStep
<1>3. CASE ~ (c.kind = "save" /\ st.queued # "none" /\ st.dirty)
  <2>1. \E x \in {idle, next} : editor' = [editor EXCEPT ![c.by] = x] /\ UNCHANGED sent
    <3>1. CASE c.kind = "merge"
      BY <3>1 DEF Finish
    <3>2. CASE c.kind # "merge"
      BY <1>0, <1>3, <3>2 DEF Finish
    <3> QED
      BY <3>1, <3>2
  <2>2. \A d \in calls' : CallOK(d, history)
    BY <1>0, <1>3 DEF Resent
  <2>3. \A x \in {idle, next} : EditorOK(x, history)
    BY <1>1
  <2> HIDE DEF idle, next
  <2> QED
    BY <1>0, <2>1, <2>2, <2>3, SessionStep DEF EditInv
<1> QED
  BY <1>2, <1>3

WithAnswer(c, at, answer) == [c EXCEPT !.at = at, !.answer = answer]

LEMMA PublishInv ==
  ASSUME EditInv, NEW c \in calls, Publish(c)
  PROVE  EditInv'
<1> DEFINE p == c.payload
           k == p.key
<1>1. /\ CallOK(c, history) /\ IsHistory(history) /\ UNCHANGED <<editor, sent>>
      /\ k \in Keys /\ DOMAIN recorded = Keys
      /\ \A i \in Keys : recorded[i] # None => RecordOK(recorded[i], history)
  BY DEF EditInv, Publish, CallOK, PayloadOK
<1>2. Latest \in 1 .. Len(history) /\ Grows(history, history)
  BY <1>1, SameHistory DEF Latest
<1>3. ASSUME NEW at, NEW answer, NEW h, answer.kind \in {"published", "conflict", "failed"},
             answer.kind = "published" =>
               answer.revision \in 1 .. Len(h) /\ h[answer.revision] = p.text
      PROVE  CallOK(WithAnswer(c, at, answer), h)
  <2>1. PICK d : d = WithAnswer(c, at, answer)
    OBVIOUS
  <2>2. /\ DOMAIN d = CallFields /\ d.by = c.by /\ d.kind = c.kind
        /\ d.payload = c.payload /\ d.answer = answer
    BY <1>1, <2>1 DEF CallOK, CallFields, WithAnswer
  <2> QED
    BY <1>1, <1>3, <2>1, <2>2 DEF CallOK
<1> HIDE DEF p, k
<1>4. CASE recorded[k] # None /\ UNCHANGED <<history, recorded, stored>>
           /\ Answer(c, IF recorded[k].input = Fingerprint(p)
                        THEN Published(recorded[k].revision)
                        ELSE [kind |-> "failed", revision |-> 0])
  <2>1. PICK answer : answer = IF recorded[k].input = Fingerprint(p)
                               THEN Published(recorded[k].revision)
                               ELSE [kind |-> "failed", revision |-> 0]
    OBVIOUS
  <2>2. RecordOK(recorded[k], history)
    BY <1>1, <1>4
  <2>3. /\ answer.kind \in {"published", "conflict", "failed"}
        /\ answer.kind = "published" =>
             answer.revision \in 1 .. Len(history) /\ history[answer.revision] = p.text
    BY <2>1, <2>2 DEF RecordOK, Published, Fingerprint
  <2>4. Update(c, WithAnswer(c, "answered", answer))
    BY <1>4, <2>1 DEF Answer, WithAnswer
  <2>5. CallOK(WithAnswer(c, "answered", answer), history)
    BY <1>3, <2>3
  <2> QED
    BY <1>1, <1>2, <1>4, <2>4, <2>5, ServiceStep
<1>5. CASE UNCHANGED <<history, recorded, stored>>
           /\ Update(c, [c EXCEPT !.at = "reading",
                                  !.answer = [kind |-> "conflict", revision |-> Latest]])
  <2>1. PICK answer : answer = [kind |-> "conflict", revision |-> Latest]
    OBVIOUS
  <2>2. CallOK(WithAnswer(c, "reading", answer), history)
    BY <1>3, <2>1
  <2>3. Update(c, WithAnswer(c, "reading", answer))
    BY <1>5, <2>1 DEF WithAnswer
  <2> QED
    BY <1>1, <1>2, <1>5, <2>2, <2>3, ServiceStep
<1>6. CASE p.text = history[Latest] /\ UNCHANGED <<history, recorded, stored>>
           /\ Update(c, [c EXCEPT !.at = "clearing", !.answer = Published(Latest)])
  <2>1. Published(Latest).kind = "published" /\ Published(Latest).revision = Latest
    BY DEF Published
  <2>2. CallOK(WithAnswer(c, "clearing", Published(Latest)), history)
    BY <1>2, <1>3, <1>6, <2>1
  <2>3. Update(c, WithAnswer(c, "clearing", Published(Latest)))
    BY <1>6 DEF WithAnswer
  <2> QED
    BY <1>1, <1>2, <1>6, <2>2, <2>3, ServiceStep
<1>7. CASE /\ history' = Append(history, p.text)
           /\ recorded' = [recorded EXCEPT ![k] =
                             [input |-> Fingerprint(p), revision |-> Latest + 1]]
           /\ Answer(c, Published(Latest + 1))
  <2>1. /\ Grows(history, history') /\ Len(history') = Latest + 1
        /\ history'[Latest + 1] = p.text /\ Latest + 1 \in 1 .. Len(history')
    BY <1>1, <1>7, Appended DEF Latest
  <2>2. /\ Published(Latest + 1).kind = "published"
        /\ Published(Latest + 1).revision = Latest + 1
    BY DEF Published
  <2>3. CallOK(WithAnswer(c, "answered", Published(Latest + 1)), history')
    BY <1>3, <2>1, <2>2
  <2>4. Update(c, WithAnswer(c, "answered", Published(Latest + 1)))
    BY <1>7 DEF Answer, WithAnswer
  <2>5. RecordOK([input |-> Fingerprint(p), revision |-> Latest + 1], history')
    BY <2>1 DEF RecordOK, Fingerprint
  <2>6. /\ DOMAIN recorded' = Keys
        /\ \A i \in Keys : recorded'[i] # None => RecordOK(recorded'[i], history')
    BY <1>1, <1>7, <2>1, <2>5, GrownRecord
  <2> QED
    BY <1>1, <2>1, <2>3, <2>4, <2>6, ServiceStep
<1> QED
  BY <1>4, <1>5, <1>6, <1>7 DEF Publish, p, k

LEMMA ServeInv ==
  ASSUME EditInv, ServeCall
  PROVE  EditInv'
<1>1. PICK c \in calls : Publish(c) \/ ClearDraft(c) \/ ReadDraft(c) \/ KeepCandidate(c)
  BY DEF ServeCall
<1>2. /\ CallOK(c, history) /\ Grows(history, history) /\ DOMAIN recorded = Keys
      /\ \A k \in Keys : recorded[k] # None => RecordOK(recorded[k], history)
  BY SameHistory DEF EditInv
<1>3. ASSUME NEW at, NEW seq
      PROVE  /\ CallOK([c EXCEPT !.at = at], history)
             /\ CallOK([c EXCEPT !.seq = seq, !.at = at], history)
  BY <1>2 DEF CallOK, CallFields
<1>4. CASE Publish(c)
  BY <1>4, PublishInv
<1>5. CASE ClearDraft(c)
  BY <1>2, <1>3, <1>5, ServiceStep DEF ClearDraft
<1>6. CASE KeepCandidate(c)
  BY <1>2, <1>3, <1>6, ServiceStep DEF KeepCandidate
<1>7. CASE ReadDraft(c)
  <2>1. PICK seq, at : Update(c, [c EXCEPT !.seq = seq, !.at = at])
    BY <1>7 DEF ReadDraft
  <2>2. UNCHANGED <<history, recorded, editor, sent>>
    BY <1>7 DEF ReadDraft
  <2> QED
    BY <1>2, <1>3, <2>1, <2>2, ServiceStep
<1> QED
  BY <1>1, <1>4, <1>5, <1>6, <1>7

LEMMA HearInv ==
  ASSUME EditInv, NEW c \in calls, Hear(c)
  PROVE  EditInv'
<1> DEFINE st == Heard(editor[c.by], c, c.answer)
<1>1. c.by \in Editors /\ CallOK(c, history) /\ UNCHANGED <<history, recorded>>
  BY DEF EditInv, CallOK, Hear
<1>2. EditorOK(st, history)
  BY <1>1, HeardOK DEF EditInv
<1> HIDE DEF st
<1>3. CASE Finish(c.by, c, st) /\ calls' = (calls \ {c}) \cup Resent(c.by, c, st)
  <2>1. PICK left : left = {}
    OBVIOUS
  <2>2. calls' = (calls \ {c}) \cup left \cup Resent(c.by, c, st)
    BY <1>3, <2>1
  <2> QED
    BY <1>1, <1>2, <1>3, <2>1, <2>2, FinishInv
<1>4. CASE calls' = calls \ {c} /\ UNCHANGED <<editor, sent>>
  BY <1>1, <1>4 DEF EditInv
<1> QED
  BY <1>3, <1>4 DEF Hear, st

LEMMA FailInv ==
  ASSUME EditInv, NEW c \in calls, Fail(c)
  PROVE  EditInv'
<1> DEFINE st == Heard(editor[c.by], c, None)
<1>1. c.by \in Editors /\ CallOK(c, history) /\ UNCHANGED <<history, recorded>>
  BY DEF EditInv, CallOK, Fail
<1>2. EditorOK(st, history)
  BY <1>1, HeardOK DEF EditInv
<1> HIDE DEF st
<1>3. PICK left \in {{}, {[c EXCEPT !.told = TRUE]}} :
        /\ Finish(c.by, c, st)
        /\ calls' = (calls \ {c}) \cup left \cup Resent(c.by, c, st)
  BY DEF Fail, st
<1>4. CallOK([c EXCEPT !.told = TRUE], history)
  BY <1>1 DEF CallOK, CallFields
<1>5. \A d \in left : CallOK(d, history)
  BY <1>3, <1>4
<1> QED
  BY <1>1, <1>2, <1>3, <1>5, FinishInv

\* A session changes, calls and the history do not.
LEMMA AloneStep ==
  ASSUME EditInv, NEW e \in Editors, NEW x, editor' = [editor EXCEPT ![e] = x],
         EditorOK(x, history), UNCHANGED <<history, recorded, calls, sent>>
  PROVE  EditInv'
BY SessionStep DEF EditInv

LEMMA ShowInv ==
  ASSUME EditInv, NEW e \in Editors,
         \/ Open(e) \/ Type(e) \/ WriteDraft(e) \/ ReadHead(e) \/ ShowHead(e)
         \/ OpenReview(e) \/ KeepDraft(e) \/ DiscardDraft(e)
  PROVE  EditInv'
<1>1. EditorOK(editor[e], history) /\ IsHistory(history) /\ DOMAIN editor = Editors
  BY DEF EditInv
<1>2. PICK st : st = editor[e]
  OBVIOUS
<1>3. EditorOK(st, history) /\ Latest \in 1 .. Len(history)
  BY <1>1, <1>2, SameHistory DEF Latest
<1>4. CASE Open(e)
  BY <1>1, <1>4, LoadedOK, AloneStep DEF Open
<1>5. CASE Type(e)
  <2>1. PICK x : x = [st EXCEPT !.buffer = st.buffer \cup {<<e, typed[e] + 1>>},
           !.dirty = TRUE, !.save = "unsaved", !.pending = TRUE, !.draftDue = TRUE,
           !.key = IF st.save = "failed" /\ st.inFlight = None THEN None ELSE st.key]
    OBVIOUS
  <2>2. editor' = [editor EXCEPT ![e] = x]
    BY <1>1, <1>2, <1>3, <1>5, <2>1 DEF Type, EditorOK, EditorFields
  <2>3. EditorOK(x, history)
    BY <1>3, <2>1 DEF EditorOK, EditorFields
  <2> QED
    BY <1>5, <2>2, <2>3, AloneStep DEF Type
<1>6. CASE WriteDraft(e)
  <2>1. PICK x \in {[st EXCEPT !.draftDue = FALSE],
                    [st EXCEPT !.draftDue = FALSE, !.draftSeq = st.draftSeq + 1]} :
          editor' = [editor EXCEPT ![e] = x]
    BY <1>1, <1>2, <1>3, <1>6 DEF WriteDraft, EditorOK, EditorFields
  <2>2. EditorOK(x, history)
    BY <1>3, <2>1 DEF EditorOK, EditorFields
  <2> QED
    BY <1>6, <2>1, <2>2, AloneStep DEF WriteDraft
<1>7. CASE ReadHead(e)
  <2>1. editor' = [editor EXCEPT ![e] = [st EXCEPT !.reads = st.reads \cup {Latest}]]
    BY <1>2, <1>7 DEF ReadHead
  <2>2. EditorOK([st EXCEPT !.reads = st.reads \cup {Latest}], history)
    BY <1>3 DEF EditorOK, EditorFields
  <2> QED
    BY <1>7, <2>1, <2>2, AloneStep DEF ReadHead
<1>8. CASE ShowHead(e)
  <2>1. PICK r \in st.reads :
          LET seen == [st EXCEPT !.reads = st.reads \ {r}, !.head = r]
          IN editor' = [editor EXCEPT ![e] =
               IF seen.dirty THEN seen
               ELSE [seen EXCEPT !.buffer = history[r], !.base = r, !.save = "saved"]]
    BY <1>2, <1>8 DEF ShowHead
  <2>2. PICK seen : seen = [st EXCEPT !.reads = st.reads \ {r}, !.head = r]
    OBVIOUS
  <2>3. EditorOK(seen, history) /\ r \in 1 .. Len(history)
    BY <1>3, <2>2 DEF EditorOK, EditorFields
  <2>4. PICK x : x = IF seen.dirty THEN seen
                     ELSE [seen EXCEPT !.buffer = history[r], !.base = r, !.save = "saved"]
    OBVIOUS
  <2>5. EditorOK(x, history)
    BY <2>3, <2>4 DEF EditorOK, EditorFields
  <2>6. editor' = [editor EXCEPT ![e] = x]
    BY <2>1, <2>2, <2>4
  <2> QED
    BY <1>8, <2>5, <2>6, AloneStep DEF ShowHead
<1>9. CASE OpenReview(e)
  <2>1. PICK review : editor' = [editor EXCEPT ![e] = [st EXCEPT !.review = review]]
    BY <1>2, <1>9 DEF OpenReview
  <2>2. EditorOK([st EXCEPT !.review = review], history)
    BY <1>3 DEF EditorOK, EditorFields
  <2> QED
    BY <1>9, <2>1, <2>2, AloneStep DEF OpenReview
<1>10. CASE KeepDraft(e)
  <2>1. editor' = [editor EXCEPT ![e] = [st EXCEPT !.conflict = None, !.review = None]]
    BY <1>1, <1>2, <1>3, <1>10 DEF KeepDraft, EditorOK, EditorFields
  <2>2. EditorOK([st EXCEPT !.conflict = None, !.review = None], history)
    BY <1>3 DEF EditorOK, EditorFields
  <2> QED
    BY <1>10, <2>1, <2>2, AloneStep DEF KeepDraft
<1>11. CASE DiscardDraft(e)
  <2>1. PICK x : x = [st EXCEPT !.key = None, !.inFlight = None, !.pending = FALSE]
    OBVIOUS
  <2>2. EditorOK(x, history)
    BY <1>3, <2>1 DEF EditorOK, EditorFields
  <2>3. editor' = [editor EXCEPT ![e] = Loaded(x, stored')]
    BY <1>2, <1>11, <2>1 DEF DiscardDraft
  <2> QED
    BY <1>1, <1>11, <2>2, <2>3, LoadedOK, AloneStep DEF DiscardDraft
<1> QED
  BY <1>4, <1>5, <1>6, <1>7, <1>8, <1>9, <1>10, <1>11

LEMMA SendInv ==
  ASSUME EditInv, NEW e \in Editors,
         TimerSave(e) \/ Flush(e) \/ Leave(e) \/ ResolveConflict(e)
  PROVE  EditInv'
<1>1. PICK st : st = editor[e]
  OBVIOUS
<1>2. /\ EditorOK(st, history) /\ sent \in Nat /\ \A c \in calls : CallOK(c, history)
  BY <1>1 DEF EditInv
<1>3. CASE TimerSave(e)
  <2>1. EditorOK([st EXCEPT !.pending = FALSE], history)
    BY <1>2 DEF EditorOK, EditorFields
  <2> QED
    BY <1>1, <1>3, <2>1, SavesInv DEF TimerSave
<1>4. CASE Flush(e)
  <2>1. PICK trigger, pending :
          RunSave(e, [st EXCEPT !.pending = pending], trigger)
    BY <1>1, <1>4 DEF Flush
  <2>2. EditorOK([st EXCEPT !.pending = pending], history)
    BY <1>2 DEF EditorOK, EditorFields
  <2> QED
    BY <1>4, <2>1, <2>2, SavesInv DEF Flush
<1>5. CASE Leave(e)
  <2>1. EditorOK(Gone, history)
    BY DEF Gone, ClosedEditor, EditorOK, EditorFields
  <2>2. editor' = [editor EXCEPT ![e] = Gone] /\ UNCHANGED <<history, recorded>>
    BY <1>5 DEF Leave
  <2>3. CASE UNCHANGED <<calls, sent>>
    BY <1>2, <2>1, <2>2, <2>3, AloneStep
  <2>4. CASE ~ UNCHANGED <<calls, sent>>
    <3>1. PICK later : later = [st EXCEPT !.draftSeq = st.draftSeq + 1]
      OBVIOUS
    <3>2. PICK p : p = Payload(later, "save")
      OBVIOUS
    <3>3. /\ sent < MaxCalls /\ sent' = sent + 1
          /\ calls' = calls \cup {Told(Call(e, "save", p))}
      BY <1>1, <1>5, <2>4, <3>1, <3>2 DEF Leave, Told
    <3>4. EditorOK(later, history)
      BY <1>2, <3>1 DEF EditorOK, EditorFields
    <3>5. PayloadOK(p)
      BY <1>2, <3>2, <3>3, <3>4, PayloadIsOK
    <3>6. \A c \in calls' : CallOK(c, history)
      BY <1>2, <3>3, <3>5, NewCallOK
    <3>7. sent' \in Nat
      BY <1>2, <3>3
    <3> QED
      BY <2>1, <2>2, <3>6, <3>7, SessionStep
  <2> QED
    BY <2>3, <2>4
<1>6. CASE ResolveConflict(e)
  <2>1. PICK text, p, x :
          /\ p = [key |-> sent + 1, base |-> st.conflict.current, text |-> text,
                  seq |-> st.draftSeq]
          /\ x = [st EXCEPT !.buffer = text, !.dirty = TRUE,
               !.conflict = None, !.review = None, !.save = "saving", !.saving = TRUE,
               !.key = sent + 1, !.inFlight = None]
          /\ calls' = calls \cup {Call(e, "merge", p)}
          /\ editor' = [editor EXCEPT ![e] = x]
    BY <1>1, <1>6 DEF ResolveConflict
  <2>2. sent < MaxCalls /\ sent' = sent + 1 /\ UNCHANGED <<history, recorded>>
    BY <1>6 DEF ResolveConflict
  <2>3. sent + 1 \in Keys /\ sent' \in Nat
    BY <1>2, <2>2, EditingAssumption DEF Keys
  <2>4. PayloadOK(p)
    BY <2>1, <2>3 DEF PayloadOK
  <2>5. EditorOK(x, history)
    BY <1>2, <2>1, <2>3 DEF EditorOK, EditorFields
  <2>6. \A c \in calls' : CallOK(c, history)
    BY <1>2, <2>1, <2>4, NewCallOK
  <2> QED
    BY <2>1, <2>2, <2>3, <2>5, <2>6, SessionStep
<1> QED
  BY <1>3, <1>4, <1>5, <1>6

LEMMA OthersInv ==
  ASSUME EditInv, OtherPublishes
  PROVE  EditInv'
<1>1. /\ Grows(history, history') /\ UNCHANGED <<recorded, editor, calls, sent>>
  BY Appended DEF OtherPublishes, EditInv
<1> QED
  BY <1>1, GrownEditor, GrownCall, GrownRecord DEF EditInv, Grows

LEMMA EditInvInit == EditInit => EditInv
<1> SUFFICES ASSUME EditInit PROVE EditInv
  OBVIOUS
<1>1. IsHistory(history)
  <2>1. PICK t : history = <<t>>
    BY DEF EditInit
  <2>2. history \in Seq({t}) /\ Len(history) = 1
    BY <2>1
  <2> QED
    BY <2>2 DEF IsHistory
<1>2. EditorOK(ClosedEditor, history)
  BY DEF ClosedEditor, EditorOK, EditorFields
<1> QED
  BY <1>1, <1>2 DEF EditInit, EditInv

LEMMA EditInvStep == EditInv /\ [EditNext]_editVars => EditInv'
<1> SUFFICES ASSUME EditInv, [EditNext]_editVars PROVE EditInv'
  OBVIOUS
<1>1. CASE UNCHANGED editVars
  BY <1>1 DEF editVars, EditInv
<1>2. CASE ServeCall
  BY <1>2, ServeInv
<1>3. CASE LandPut
  BY <1>3 DEF LandPut, EditInv
<1>4. CASE OtherPublishes
  BY <1>4, OthersInv
<1>5. CASE \E c \in calls : Hear(c) \/ Fail(c)
  BY <1>5, HearInv, FailInv
<1>6. ASSUME NEW e \in Editors,
             \/ Open(e) \/ Type(e) \/ WriteDraft(e) \/ TimerSave(e) \/ Flush(e) \/ Leave(e)
             \/ ReadHead(e) \/ ShowHead(e)
             \/ OpenReview(e) \/ ResolveConflict(e) \/ KeepDraft(e) \/ DiscardDraft(e)
      PROVE  EditInv'
  BY <1>6, ShowInv, SendInv
<1> QED
  BY <1>1, <1>2, <1>3, <1>4, <1>5, <1>6 DEF EditNext

(***************************************************************************)
(* Whatever a session types, saves, retries, restores and resolves, and in *)
(* whatever order answers, draft writes and reads of the head come: while  *)
(* it says "saved", what it shows is the published revision it is based on.*)
(***************************************************************************)
THEOREM SavedTextsArePublished == EditSpec => []SavedIsPublished
<1>1. EditInv => SavedIsPublished
  BY DEF EditInv, EditorOK, SavedIsPublished
<1> QED
  BY <1>1, EditInvInit, EditInvStep, PTL DEF EditSpec

-----------------------------------------------------------------------------
(* The editor: what becomes of a running save *)

\* Without unsaved text, and with no save running, the page says that it is saved or that it failed.
Quiet(x) ==
  x.phase = "ready" /\ ~ x.dirty /\ ~ x.saving => x.save \in {"saved", "failed"}

AtWork(x) == x.phase = "ready" /\ (x.pending \/ x.saving)

AtEase(x) == x.phase = "closed" \/ x.save \in {"saved", "failed"}

\* What a step may make of a session.
GoesOn(x, y) ==
  /\ Quiet(y)
  /\ AtWork(x) => AtWork(y) \/ AtEase(y) \/ (stored' # None /\ stored'.text = y.buffer)

EachGoesOn == \A e \in Editors : GoesOn(editor[e], editor'[e])

QuietInv == EditInv /\ \A e \in Editors : Quiet(editor[e])

LEMMA OneGoesOn ==
  ASSUME QuietInv, NEW e \in Editors, NEW y, editor' = [editor EXCEPT ![e] = y],
         GoesOn(editor[e], y)
  PROVE  EachGoesOn
<1> SUFFICES ASSUME NEW d \in Editors PROVE GoesOn(editor[d], editor'[d])
  BY DEF EachGoesOn
<1>1. CASE d = e
  BY <1>1 DEF QuietInv, EditInv
<1>2. CASE d # e
  <2>1. editor'[d] = editor[d] /\ Quiet(editor[d])
    BY <1>2 DEF QuietInv, EditInv
  <2> QED
    BY <2>1 DEF GoesOn
<1> QED
  BY <1>1, <1>2

LEMMA NoneGoesOn ==
  ASSUME QuietInv, UNCHANGED editor
  PROVE  EachGoesOn
BY DEF QuietInv, EachGoesOn, GoesOn

LEMMA LoadedGoesOn ==
  ASSUME NEW st, NEW h, EditorOK(st, h), NEW draft
  PROVE  LET y == Loaded(st, draft)
         IN Quiet(y) /\ (AtEase(y) \/ (draft # None /\ draft.text = y.buffer))
<1> DEFINE restored == draft # None /\ draft.text # history[Latest]
<1>1. CASE restored
  BY <1>1 DEF Loaded, EditorOK, EditorFields, Quiet, AtEase
<1>2. CASE ~ restored
  BY <1>2 DEF Loaded, EditorOK, EditorFields, Quiet, AtEase
<1> QED
  BY <1>1, <1>2

\* After an answer or a failure: saved, failed, or unsaved with a timer.
Heeded(y) == y.phase = "ready" /\ (y.save \in {"saved", "failed"} \/ (y.dirty /\ y.pending))

LEMMA HeardIsHeeded ==
  ASSUME NEW st, NEW h, EditorOK(st, h), st.phase = "ready", NEW c, CallOK(c, h), NEW answer,
         answer = None \/ answer = c.answer
  PROVE  Heeded(Heard(st, c, answer))
<1>1. CASE answer = None
  BY <1>1 DEF Heard, EditorOK, EditorFields, Heeded
<1>2. CASE answer # None
  <2> DEFINE free == [st EXCEPT !.key = None,
                                !.inFlight = IF c.kind = "merge" THEN st.inFlight ELSE None]
  <2>1. DOMAIN free = EditorFields /\ free.phase = "ready"
    BY DEF EditorOK, EditorFields
  <2>2. Heard(st, c, answer) =
          CASE answer.kind = "published" -> Saved(free, c.payload.text, answer.revision)
            [] answer.kind = "conflict"  ->
                 Conflicted(free, answer.revision,
                            IF c.kind = "merge" THEN c.payload.base ELSE st.base)
            [] answer.kind = "failed"    -> [free EXCEPT !.save = "failed"]
    BY <1>2 DEF Heard
  <2> HIDE DEF free
  <2>3. answer.kind \in {"published", "conflict", "failed"}
    BY <1>2 DEF CallOK
  <2>4. CASE answer.kind = "published"
    <3>1. Heard(st, c, answer) = Saved(free, c.payload.text, answer.revision)
      BY <2>2, <2>4
    <3>2. CASE free.buffer # c.payload.text
      BY <2>1, <3>1, <3>2 DEF Saved, EditorFields, Heeded
    <3>3. CASE free.buffer = c.payload.text
      BY <2>1, <3>1, <3>3 DEF Saved, EditorFields, Heeded
    <3> QED
      BY <3>2, <3>3
  <2>5. CASE answer.kind = "conflict"
    <3>1. PICK base : base = IF c.kind = "merge" THEN c.payload.base ELSE st.base
      OBVIOUS
    <3>2. Heard(st, c, answer) = Conflicted(free, answer.revision, base)
      BY <2>2, <2>5, <3>1
    <3> QED
      BY <2>1, <3>2 DEF Conflicted, EditorFields, Heeded
  <2>6. CASE answer.kind = "failed"
    BY <2>1, <2>2, <2>6 DEF EditorFields, Heeded
  <2> QED
    BY <2>3, <2>4, <2>5, <2>6
<1> QED
  BY <1>1, <1>2

LEMMA FinishGoesOn ==
  ASSUME QuietInv, NEW c, c.by \in Editors, NEW st, EditorOK(st, history), Heeded(st),
         Finish(c.by, c, st)
  PROVE  EachGoesOn
<1> DEFINE idle == [st EXCEPT !.saving = FALSE]
           next == [idle EXCEPT !.queued = "none"]
           p == Payload(next, st.queued)
           again == [next EXCEPT !.saving = TRUE, !.save = "saving", !.key = p.key, !.inFlight = p]
<1>1. \E y \in {idle, next, again} : editor' = [editor EXCEPT ![c.by] = y]
  <2>1. CASE c.kind = "merge"
    BY <2>1 DEF Finish
  <2>2. CASE c.kind # "merge"
    BY <2>2 DEF Finish
  <2> QED
    BY <2>1, <2>2
<1>2. DOMAIN st = EditorFields /\ st.phase = "ready" /\ (st.save \in {"saved", "failed"} \/ (st.dirty /\ st.pending))
  BY DEF EditorOK, Heeded
<1> HIDE DEF p
<1>3. ASSUME NEW x, GoesOn(x, idle), GoesOn(x, next), GoesOn(x, again)
      PROVE  \A y \in {idle, next, again} : GoesOn(x, y)
  BY <1>3
<1>4. \A x : GoesOn(x, idle)
  BY <1>2 DEF EditorFields, GoesOn, Quiet, AtWork, AtEase
<1>5. \A x : GoesOn(x, next)
  BY <1>2 DEF EditorFields, GoesOn, Quiet, AtWork, AtEase
<1>6. \A x : GoesOn(x, again)
  BY <1>2 DEF EditorFields, GoesOn, Quiet, AtWork, AtEase
<1> HIDE DEF idle, next, again
<1> QED
  BY <1>1, <1>4, <1>5, <1>6, OneGoesOn

LEMMA RunSaveGoesOn ==
  ASSUME QuietInv, NEW e \in Editors, NEW st, EditorOK(st, history), st.phase = "ready", Quiet(st),
         NEW trigger, RunSave(e, st, trigger)
  PROVE  EachGoesOn
<1>1. CASE st.saving
  <2>1. PICK y : y = [st EXCEPT !.queued = trigger]
    OBVIOUS
  <2>2. editor' = [editor EXCEPT ![e] = y]
    BY <1>1, <2>1 DEF RunSave
  <2>3. GoesOn(editor[e], y)
    BY <1>1, <2>1 DEF EditorOK, EditorFields, GoesOn, Quiet, AtWork
  <2> QED
    BY <2>2, <2>3, OneGoesOn
<1>2. CASE ~ st.saving /\ ~ (st.dirty \/ Retrying(st, trigger))
  <2>1. PICK y : y = IF st.save = "failed" THEN [st EXCEPT !.save = "saved"] ELSE st
    OBVIOUS
  <2>2. editor' = [editor EXCEPT ![e] = y]
    BY <1>2, <2>1 DEF RunSave
  <2>3. GoesOn(editor[e], y)
    BY <1>2, <2>1 DEF EditorOK, EditorFields, GoesOn, Quiet, AtEase
  <2> QED
    BY <2>2, <2>3, OneGoesOn
<1>3. CASE ~ st.saving /\ (st.dirty \/ Retrying(st, trigger))
  <2>1. PICK p : p = Payload(st, trigger)
    OBVIOUS
  <2>2. PICK y : y = [st EXCEPT !.saving = TRUE, !.save = "saving", !.key = p.key, !.inFlight = p]
    OBVIOUS
  <2>3. editor' = [editor EXCEPT ![e] = y]
    BY <1>3, <2>1, <2>2 DEF RunSave
  <2>4. GoesOn(editor[e], y)
    BY <2>2 DEF EditorOK, EditorFields, GoesOn, Quiet, AtWork
  <2> QED
    BY <2>3, <2>4, OneGoesOn
<1> QED
  BY <1>1, <1>2, <1>3

LEMMA ShowingGoesOn ==
  ASSUME QuietInv, NEW e \in Editors,
         \/ Open(e) \/ Type(e) \/ WriteDraft(e) \/ ReadHead(e) \/ ShowHead(e)
         \/ OpenReview(e) \/ KeepDraft(e) \/ DiscardDraft(e)
  PROVE  EachGoesOn
<1>1. PICK st : st = editor[e]
  OBVIOUS
<1>2. EditorOK(st, history) /\ Quiet(st) /\ DOMAIN st = EditorFields
  BY <1>1 DEF QuietInv, EditInv, EditorOK
<1>3. CASE Open(e)
  <2>1. editor' = [editor EXCEPT ![e] = Loaded(st, stored)] /\ ~ AtWork(st)
    BY <1>1, <1>3 DEF Open, AtWork
  <2> QED
    BY <1>1, <1>2, <2>1, LoadedGoesOn, OneGoesOn DEF GoesOn
<1>4. CASE Type(e)
  <2>1. PICK y : y = [st EXCEPT !.buffer = st.buffer \cup {<<e, typed[e] + 1>>},
           !.dirty = TRUE, !.save = "unsaved", !.pending = TRUE, !.draftDue = TRUE,
           !.key = IF st.save = "failed" /\ st.inFlight = None THEN None ELSE st.key]
    OBVIOUS
  <2>2. editor' = [editor EXCEPT ![e] = y] /\ st.phase = "ready"
    BY <1>1, <1>2, <1>4, <2>1 DEF Type, QuietInv, EditInv, EditorFields
  <2>3. GoesOn(st, y)
    BY <1>2, <2>1, <2>2 DEF EditorFields, GoesOn, Quiet, AtWork
  <2> QED
    BY <1>1, <2>2, <2>3, OneGoesOn
<1>5. CASE WriteDraft(e)
  <2>1. PICK y \in {[st EXCEPT !.draftDue = FALSE],
                    [st EXCEPT !.draftDue = FALSE, !.draftSeq = st.draftSeq + 1]} :
          editor' = [editor EXCEPT ![e] = y]
    BY <1>1, <1>2, <1>5 DEF WriteDraft, QuietInv, EditInv, EditorFields
  <2>2. GoesOn(st, y)
    BY <1>2, <2>1 DEF EditorFields, GoesOn, Quiet, AtWork
  <2> QED
    BY <1>1, <2>1, <2>2, OneGoesOn
<1>6. CASE ReadHead(e)
  <2>1. PICK y : y = [st EXCEPT !.reads = st.reads \cup {Latest}]
    OBVIOUS
  <2>2. editor' = [editor EXCEPT ![e] = y]
    BY <1>1, <1>6, <2>1 DEF ReadHead
  <2>3. GoesOn(st, y)
    BY <1>2, <2>1 DEF EditorFields, GoesOn, Quiet, AtWork
  <2> QED
    BY <1>1, <2>2, <2>3, OneGoesOn
<1>7. CASE ShowHead(e)
  <2>1. PICK r \in st.reads :
          LET seen == [st EXCEPT !.reads = st.reads \ {r}, !.head = r]
          IN editor' = [editor EXCEPT ![e] =
               IF seen.dirty THEN seen
               ELSE [seen EXCEPT !.buffer = history[r], !.base = r, !.save = "saved"]]
    BY <1>1, <1>7 DEF ShowHead
  <2>2. PICK seen : seen = [st EXCEPT !.reads = st.reads \ {r}, !.head = r]
    OBVIOUS
  <2>3. PICK y : y = IF seen.dirty THEN seen
                     ELSE [seen EXCEPT !.buffer = history[r], !.base = r, !.save = "saved"]
    OBVIOUS
  <2>4. editor' = [editor EXCEPT ![e] = y]
    BY <2>1, <2>2, <2>3
  <2>5. GoesOn(st, seen) /\ DOMAIN seen = EditorFields
    BY <1>2, <2>2 DEF EditorFields, GoesOn, Quiet, AtWork
  <2>6. GoesOn(st, y)
    BY <2>3, <2>5 DEF EditorFields, GoesOn, Quiet, AtWork, AtEase
  <2> QED
    BY <1>1, <2>4, <2>6, OneGoesOn
<1>8. CASE OpenReview(e)
  <2>1. PICK review : editor' = [editor EXCEPT ![e] = [st EXCEPT !.review = review]]
    BY <1>1, <1>8 DEF OpenReview
  <2>2. PICK y : y = [st EXCEPT !.review = review]
    OBVIOUS
  <2>3. GoesOn(st, y)
    BY <1>2, <2>2 DEF EditorFields, GoesOn, Quiet, AtWork
  <2> QED
    BY <1>1, <2>1, <2>2, <2>3, OneGoesOn
<1>9. CASE KeepDraft(e)
  <2>1. PICK y : y = [st EXCEPT !.conflict = None, !.review = None]
    OBVIOUS
  <2>2. editor' = [editor EXCEPT ![e] = y]
    BY <1>1, <1>2, <1>9, <2>1 DEF KeepDraft, QuietInv, EditInv, EditorFields
  <2>3. GoesOn(st, y)
    BY <1>2, <2>1 DEF EditorFields, GoesOn, Quiet, AtWork
  <2> QED
    BY <1>1, <2>2, <2>3, OneGoesOn
<1>10. CASE DiscardDraft(e)
  <2>1. PICK x : x = [st EXCEPT !.key = None, !.inFlight = None, !.pending = FALSE]
    OBVIOUS
  <2>2. EditorOK(x, history)
    BY <1>2, <2>1 DEF EditorOK, EditorFields
  <2>3. editor' = [editor EXCEPT ![e] = Loaded(x, stored')]
    BY <1>1, <1>10, <2>1 DEF DiscardDraft
  <2> QED
    BY <1>1, <2>2, <2>3, LoadedGoesOn, OneGoesOn DEF GoesOn
<1> QED
  BY <1>3, <1>4, <1>5, <1>6, <1>7, <1>8, <1>9, <1>10

LEMMA SendingGoesOn ==
  ASSUME QuietInv, NEW e \in Editors,
         TimerSave(e) \/ Flush(e) \/ Leave(e) \/ ResolveConflict(e)
  PROVE  EachGoesOn
<1>1. PICK st : st = editor[e]
  OBVIOUS
<1>2. /\ EditorOK(st, history) /\ DOMAIN st = EditorFields /\ Quiet(st)
      /\ st.phase = "ready"
  BY <1>1 DEF QuietInv, EditInv, EditorOK, TimerSave, Flush, Leave, ResolveConflict
<1>3. ASSUME NEW pending
      PROVE  LET x == [st EXCEPT !.pending = pending]
             IN EditorOK(x, history) /\ x.phase = "ready" /\ Quiet(x)
  BY <1>2 DEF EditorOK, EditorFields, Quiet
<1>4. CASE TimerSave(e)
  BY <1>1, <1>3, <1>4, RunSaveGoesOn DEF TimerSave
<1>5. CASE Flush(e)
  <2>1. PICK trigger, pending : RunSave(e, [st EXCEPT !.pending = pending], trigger)
    BY <1>1, <1>5 DEF Flush
  <2> QED
    BY <1>3, <2>1, RunSaveGoesOn
<1>6. CASE Leave(e)
  <2>1. editor' = [editor EXCEPT ![e] = Gone]
    BY <1>6 DEF Leave
  <2>2. GoesOn(st, Gone)
    BY DEF GoesOn, Quiet, AtEase, Gone, ClosedEditor
  <2> QED
    BY <1>1, <2>1, <2>2, OneGoesOn
<1>7. CASE ResolveConflict(e)
  <2>1. PICK text, y :
          /\ y = [st EXCEPT !.buffer = text, !.dirty = TRUE,
               !.conflict = None, !.review = None, !.save = "saving", !.saving = TRUE,
               !.key = sent + 1, !.inFlight = None]
          /\ editor' = [editor EXCEPT ![e] = y]
    BY <1>1, <1>7 DEF ResolveConflict
  <2>2. GoesOn(st, y)
    BY <1>2, <2>1 DEF EditorFields, GoesOn, Quiet, AtWork
  <2> QED
    BY <1>1, <2>1, <2>2, OneGoesOn
<1> QED
  BY <1>4, <1>5, <1>6, <1>7

LEMMA AnswerGoesOn ==
  ASSUME QuietInv, NEW c \in calls, Hear(c) \/ Fail(c)
  PROVE  EachGoesOn
<1>1. c.by \in Editors /\ CallOK(c, history) /\ EditorOK(editor[c.by], history)
  BY DEF QuietInv, EditInv, CallOK
<1>2. ASSUME NEW answer, answer = None \/ answer = c.answer, editor[c.by].phase = "ready",
             Finish(c.by, c, Heard(editor[c.by], c, answer))
      PROVE  EachGoesOn
  <2>1. PICK st : st = Heard(editor[c.by], c, answer)
    OBVIOUS
  <2>2. EditorOK(st, history) /\ Heeded(st)
    BY <1>1, <1>2, <2>1, HeardOK, HeardIsHeeded
  <2> QED
    BY <1>1, <1>2, <2>1, <2>2, FinishGoesOn
<1>3. CASE Hear(c)
  <2>1. CASE editor[c.by].phase = "ready" /\ ~ c.told
    BY <1>2, <1>3, <2>1 DEF Hear
  <2>2. CASE ~ (editor[c.by].phase = "ready" /\ ~ c.told)
    BY <1>3, <2>2, NoneGoesOn DEF Hear
  <2> QED
    BY <2>1, <2>2
<1>4. CASE Fail(c)
  BY <1>2, <1>4 DEF Fail
<1> QED
  BY <1>3, <1>4

LEMMA EveryStepGoesOn == QuietInv /\ [EditNext]_editVars => EachGoesOn
<1> SUFFICES ASSUME QuietInv, [EditNext]_editVars PROVE EachGoesOn
  OBVIOUS
<1>1. CASE UNCHANGED editor
  BY <1>1, NoneGoesOn
<1>2. CASE ServeCall \/ LandPut \/ OtherPublishes
  <2>1. UNCHANGED editor
    BY <1>2 DEF ServeCall, Publish, ClearDraft, ReadDraft, KeepCandidate, LandPut, OtherPublishes
  <2> QED
    BY <1>1, <2>1
<1>3. CASE \E c \in calls : Hear(c) \/ Fail(c)
  BY <1>3, AnswerGoesOn
<1>4. ASSUME NEW e \in Editors,
             \/ Open(e) \/ Type(e) \/ WriteDraft(e) \/ TimerSave(e) \/ Flush(e) \/ Leave(e)
             \/ ReadHead(e) \/ ShowHead(e)
             \/ OpenReview(e) \/ ResolveConflict(e) \/ KeepDraft(e) \/ DiscardDraft(e)
      PROVE  EachGoesOn
  BY <1>4, ShowingGoesOn, SendingGoesOn
<1> QED
  BY <1>1, <1>2, <1>3, <1>4 DEF EditNext, editVars

(***************************************************************************)
(* No answer, failure, trigger or review, in whatever order they come,     *)
(* leaves a session of which a save was running or due with neither, unless*)
(* the page says so: it is saved, saving failed, it shows the stored draft *)
(* or it was left (use-document.ts runSave, resolveConflict).              *)
(***************************************************************************)
THEOREM SavesAreNotForgotten == EditSpec => NoSaveIsForgotten
<1>1. EditInit => QuietInv
  BY EditInvInit DEF EditInit, QuietInv, Quiet, ClosedEditor
<1>2. QuietInv /\ [EditNext]_editVars => QuietInv'
  BY EveryStepGoesOn, EditInvStep DEF QuietInv, EachGoesOn, GoesOn
<1>3. QuietInv /\ [EditNext]_editVars =>
        [\A e \in Editors : SaveUnderWay(e) => (SaveUnderWay(e) \/ SaveSettled(e))']_editVars
  BY EveryStepGoesOn DEF EachGoesOn, GoesOn, AtWork, AtEase, SaveUnderWay, SaveSettled
<1> QED
  BY <1>1, <1>2, <1>3, PTL DEF EditSpec, NoSaveIsForgotten
=============================================================================
