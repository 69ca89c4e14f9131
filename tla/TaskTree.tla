------------------------------ MODULE TaskTree ------------------------------
(***************************************************************************)
(* One owner's task tree: the plans of create, rename, move, complete and  *)
(* restore, the batch that applies a plan to the version it was made for,  *)
(* and the in-memory tree an api process plans against                     *)
(* (packages/core/src/tasks: plans.ts, service.ts, state.ts, model.ts;     *)
(* apps/api/src/modules/workspace/workspace.events.ts).                    *)
(*                                                                         *)
(* Requests of the api process share its cache; those of another process   *)
(* have none. Between a batch and its answer, and between a read and what  *)
(* it stores, others commit. Titles, labels and the order of siblings are  *)
(* data: a rename only moves the row's version.                            *)
(***************************************************************************)
EXTENDS Integers, FiniteSets

CONSTANTS
    Tasks, Collections, Writes,
    TopLevel,           \* no parent
    NoGroup,            \* archived_with_root_id of an active task
    Nothing,            \* no cache entry, no plan
    MaxDepth,           \* TASK_MAX_DEPTH
    MembersPerGroup,    \* ARCHIVE_MEMBERS_PER_GROUP
    MaxTreeVersion

ASSUME TreeBounds ==
    /\ MaxDepth \in Nat \ {0} /\ MembersPerGroup \in Nat /\ MaxTreeVersion \in Nat
    /\ TopLevel \notin Tasks

VARIABLES
    tree,           \* users.task_tree_version and the tasks: [version, rows]
    treeCache,      \* TaskTreeCache: [version, rows, known], or Nothing
    write,          \* TaskService.write under way
    reading         \* a tree or archive read whose result is not stored yet

treeVars == <<tree, treeCache, write, reading>>

Absent == [parent |-> TopLevel, collection |-> Nothing, status |-> "absent",
           group |-> NoGroup, version |-> 0]
IdleWrite == [pc |-> "idle", lock |-> "none", task |-> Nothing, state |-> Nothing,
              after |-> Nothing, cached |-> FALSE, version |-> 0]

TreeInit ==
    /\ tree = [version |-> 0, rows |-> [t \in Tasks |-> Absent]]
    /\ treeCache = Nothing
    /\ write = [r \in Writes |-> IdleWrite]
    /\ reading = Nothing

----------------------------------------------------------------------------
(* The tree a state holds (ActiveTree), and the archived rows it knows. *)

Active(rows) == {t \in Tasks : rows[t].status = "active"}
Archived(rows) == {t \in Tasks : rows[t].status = "archived"}
ParentOf(rows, t) == IF rows[t].parent \in Active(rows) THEN rows[t].parent ELSE TopLevel

\* The ancestors of a task, nearest first in effect: at most MaxDepth of them.
Ancestors(rows, t) ==
    LET up[n \in 0..MaxDepth] == IF n = 0 THEN {t}
                                 ELSE up[n - 1] \union
                                      ({ParentOf(rows, u) : u \in up[n - 1] \ {TopLevel}})
    IN up[MaxDepth] \ {t, TopLevel}
Depth(rows, t) == IF t = TopLevel THEN -1 ELSE Cardinality(Ancestors(rows, t))
Descendants(rows, t) == {d \in Active(rows) \ {t} : t \in Ancestors(rows, d)}
Tallest(numbers) == CHOOSE n \in numbers : \A m \in numbers : m <= n
Height(rows, t) == Tallest({0} \union {Depth(rows, d) - Depth(rows, t) : d \in Descendants(rows, t)})

Bump(row) == [row EXCEPT !.version = @ + 1]

\* The rows archived together with a task (probeTaskIds of the loader).
Group(rows, t) == {m \in Archived(rows) : rows[m].group = rows[t].group}
Load_ProbesOnly(probes) == [version |-> tree.version, rows |-> tree.rows,
                            known |-> probes \intersect Archived(tree.rows)]
Load(probes) == [version |-> tree.version, rows |-> tree.rows,
                 known |-> UNION {Group(tree.rows, t) : t \in probes \intersect Archived(tree.rows)}]

----------------------------------------------------------------------------
(* The plans: the rows after the operation, or Nothing when it is refused. *)

PlanCreate(state, t, parent, collection) ==
    IF \/ state.rows[t].status # "absent"
       \/ parent # TopLevel /\ \/ parent \notin Active(state.rows)
                               \/ Depth(state.rows, parent) + 1 > MaxDepth - 1
    THEN Nothing
    ELSE [state.rows EXCEPT ![t] =
            [parent |-> parent, status |-> "active", group |-> NoGroup, version |-> 1,
             collection |-> IF parent = TopLevel THEN collection ELSE state.rows[parent].collection]]

PlanRename(state, t) ==
    IF t \notin Active(state.rows) THEN Nothing ELSE [state.rows EXCEPT ![t] = Bump(@)]

\* A move under itself or its descendants is refused; descendants follow the
\* task into another collection.
PlanMove_AnyParent(state, t, parent, collection) ==
    LET rows == state.rows
        target == IF parent = TopLevel THEN collection ELSE rows[parent].collection IN
    IF t \notin Active(rows) \/ (parent # TopLevel /\ parent \notin Active(rows)) THEN Nothing
    ELSE [u \in Tasks |->
            IF u = t THEN [Bump(rows[u]) EXCEPT !.parent = parent, !.collection = target]
            ELSE IF u \in Descendants(rows, t) /\ target # rows[t].collection
                 THEN [Bump(rows[u]) EXCEPT !.collection = target] ELSE rows[u]]
PlanMove(state, t, parent, collection) ==
    LET rows == state.rows
        target == IF parent = TopLevel THEN collection ELSE rows[parent].collection IN
    IF \/ t \notin Active(rows)
       \/ parent # TopLevel /\ (parent \notin Active(rows) \ ({t} \union Descendants(rows, t)))
       \/ Depth(rows, parent) + 1 + Height(rows, t) > MaxDepth - 1
    THEN Nothing
    ELSE [u \in Tasks |->
            IF u = t THEN [Bump(rows[u]) EXCEPT !.parent = parent, !.collection = target]
            ELSE IF u \in Descendants(rows, t) /\ target # rows[t].collection
                 THEN [Bump(rows[u]) EXCEPT !.collection = target] ELSE rows[u]]

\* "all" archives the descendants with the task; "parent_only" promotes its
\* children to the top level.
PlanComplete(state, t, mode) ==
    LET rows == state.rows
        gone == IF mode = "all" THEN {t} \union Descendants(rows, t) ELSE {t}
        promoted == {c \in Active(rows) \ gone : ParentOf(rows, c) = t} IN
    IF t \notin Active(rows) THEN Nothing
    ELSE [u \in Tasks |->
            IF u \in gone THEN [Bump(rows[u]) EXCEPT !.status = "archived", !.group = t]
            ELSE IF u \in promoted THEN [Bump(rows[u]) EXCEPT !.parent = TopLevel] ELSE rows[u]]

\* The task and what was archived with it, followed through parent links among
\* the archived rows the state knows.
RestoredWith(state, t) ==
    LET members == {m \in state.known : state.rows[m].group = state.rows[t].group}
        reach[n \in 0..MaxDepth] ==
            IF n = 0 THEN {t}
            ELSE reach[n - 1] \union {m \in members : state.rows[m].parent \in reach[n - 1]}
    IN reach[MaxDepth]

\* The parent is kept while it is active and leaves room, else the task goes to
\* the top level of its collection; what is too tall even there is refused.
PlanRestore(state, t) ==
    LET rows == state.rows
        back == RestoredWith(state, t)
        trial == [u \in Tasks |-> IF u \in back THEN [rows[u] EXCEPT !.status = "active",
                                    !.parent = IF u = t THEN TopLevel ELSE @] ELSE rows[u]]
        stays == /\ rows[t].parent \in Active(rows)
                 /\ Depth(rows, rows[t].parent) + 1 + Height(trial, t) <= MaxDepth - 1
        collection == IF stays THEN rows[rows[t].parent].collection ELSE rows[t].collection IN
    IF t \notin state.known \/ Height(trial, t) > MaxDepth - 1 THEN Nothing
    ELSE [u \in Tasks |->
            IF u \notin back THEN rows[u]
            ELSE [Bump(rows[u]) EXCEPT !.status = "active", !.group = NoGroup,
                    !.collection = collection,
                    !.parent = IF u # t \/ stays THEN @ ELSE TopLevel]]

----------------------------------------------------------------------------
(* The write loop. *)

\* Whether a cached state holds every task the plan reads.
Covers(probes) == /\ treeCache # Nothing
                  /\ probes \subseteq Active(treeCache.rows) \union treeCache.known

\* A plan is made from the cache when it covers the probes and accepts the
\* operation, else from a fresh read. Only one that is accepted goes on.
Planned(r, uses, probes, lock, t, Plan(_)) ==
    LET cached == uses /\ Covers(probes) /\ Plan(treeCache) # Nothing
        state == IF cached THEN treeCache ELSE Load(probes) IN
    /\ Plan(state) # Nothing
    /\ write' = [write EXCEPT ![r] =
                     [pc |-> "batch", lock |-> lock, task |-> t, state |-> state,
                      after |-> Plan(state), cached |-> uses, version |-> 0]]

BeginWrite(r) ==
    /\ write[r].pc = "idle" /\ tree.version < MaxTreeVersion
    /\ \E t \in Tasks, uses \in BOOLEAN :
         \/ \E parent \in Tasks \union {TopLevel}, c \in Collections :
              Planned(r, uses, {parent} \ {TopLevel}, "tree", t,
                      LAMBDA s : PlanCreate(s, t, parent, c))
         \/ Planned(r, uses, {t}, "row", t, LAMBDA s : PlanRename(s, t))
         \/ \E parent \in Tasks \union {TopLevel}, c \in Collections :
              Planned(r, uses, {t, parent} \ {TopLevel}, "tree", t,
                      LAMBDA s : PlanMove(s, t, parent, c))
         \/ \E mode \in {"all", "parent_only"} :
              Planned(r, uses, {t}, "tree", t, LAMBDA s : PlanComplete(s, t, mode))
         \/ Planned(r, uses, {t}, "tree", t, LAMBDA s : PlanRestore(s, t))
    /\ UNCHANGED <<tree, treeCache, reading>>

\* The deciding statement: the whole tree, or one row, is still what was planned.
StillPlanned(plan) ==
    IF plan.lock = "tree" THEN tree.version = plan.state.version
    ELSE /\ tree.rows[plan.task].status = "active"
         /\ tree.rows[plan.task].version = plan.state.rows[plan.task].version

\* The batch: the deciding statement and the effects on the planned rows. A
\* refused plan forgets the cache, and the request plans again or gives up.
CommitWrite(r) ==
    LET plan == write[r]
        changed == {t \in Tasks : plan.after[t] # plan.state.rows[t]} IN
    /\ plan.pc = "batch"
    /\ IF StillPlanned(plan)
       THEN /\ tree' = [version |-> tree.version + 1,
                        rows |-> [t \in Tasks |-> IF t \in changed THEN plan.after[t]
                                                  ELSE tree.rows[t]]]
            /\ write' = [write EXCEPT ![r] = [IF plan.cached THEN plan ELSE IdleWrite
                                              EXCEPT !.pc = "answer", !.version = tree.version + 1]]
            /\ UNCHANGED treeCache
       ELSE /\ write' = [write EXCEPT ![r] = IdleWrite]
            /\ treeCache' = IF plan.cached THEN Nothing ELSE treeCache
            /\ UNCHANGED tree
    /\ UNCHANGED reading

\* The tree of the plan is cached only when nobody wrote between; an older
\* entry is dropped by the commit's announcement. The answer may also be lost.
CacheAfter_Always(plan) == [version |-> plan.version, rows |-> plan.after,
                            known |-> plan.state.known \union Archived(plan.after)]
CacheAfter(plan) ==
    IF plan.version = plan.state.version + 1
    THEN [version |-> plan.version, rows |-> plan.after,
          known |-> {t \in Tasks : /\ plan.after[t].status = "archived"
                                   /\ \/ t \in plan.state.known
                                      \/ plan.state.rows[t].status = "active"}]
    ELSE Nothing

AnswerWrite(r) ==
    /\ write[r].pc = "answer"
    /\ treeCache' = IF write[r].cached THEN CacheAfter(write[r])
                ELSE IF treeCache # Nothing /\ treeCache.version < write[r].version THEN Nothing ELSE treeCache
    /\ write' = [write EXCEPT ![r] = IdleWrite]
    /\ UNCHANGED <<tree, reading>>

LoseAnswer(r) ==
    /\ write[r].pc # "idle"
    /\ write' = [write EXCEPT ![r] = IdleWrite]
    /\ UNCHANGED <<tree, treeCache, reading>>

----------------------------------------------------------------------------
(* Reads. *)

\* TaskService.state: a read of the active tree on a cache miss.
ReadTree ==
    /\ reading = Nothing /\ treeCache = Nothing
    /\ reading' = [kind |-> "tree", state |-> Load({})]
    /\ UNCHANGED <<tree, treeCache, write>>

\* TaskService.listArchive: the roots, and the first members of each group.
ReadArchive ==
    /\ reading = Nothing
    /\ LET roots == {t \in Archived(tree.rows) : tree.rows[t].group = t} IN
       \E shown \in SUBSET (Archived(tree.rows) \ roots) :
          /\ \A t \in roots :
                LET members == Group(tree.rows, t) \ {t} IN
                Cardinality(shown \intersect members) =
                    IF Cardinality(members) <= MembersPerGroup THEN Cardinality(members)
                    ELSE MembersPerGroup
          /\ \A t \in shown : tree.rows[t].group \in roots
          /\ reading' = [kind |-> "archive",
                         state |-> [version |-> tree.version, rows |-> tree.rows,
                                    known |-> roots \union shown]]
    /\ UNCHANGED <<tree, treeCache, write>>

\* The archived rows are added to a cached tree of the same version; a read
\* that proves the entry stale drops it.
StoreRead ==
    /\ reading # Nothing
    /\ reading' = Nothing
    /\ treeCache' = IF reading.kind = "tree" THEN reading.state
                    ELSE IF treeCache = Nothing \/ treeCache.version # reading.state.version THEN Nothing
                    ELSE [treeCache EXCEPT !.known = @ \union reading.state.known,
                                       !.rows = [t \in Tasks |-> IF t \in reading.state.known
                                                                 THEN reading.state.rows[t] ELSE @[t]]]
    /\ UNCHANGED <<tree, write>>

\* The entry expires, or the event of another process's write drops it.
ForgetTree ==
    /\ treeCache # Nothing
    /\ treeCache' = Nothing
    /\ UNCHANGED <<tree, write, reading>>

TreeNext ==
    \/ \E r \in Writes : BeginWrite(r) \/ CommitWrite(r) \/ AnswerWrite(r) \/ LoseAnswer(r)
    \/ ReadTree \/ ReadArchive \/ StoreRead \/ ForgetTree

TreeSpec == TreeInit /\ [][TreeNext]_treeVars

----------------------------------------------------------------------------
TreeTypeOK ==
    /\ tree.version \in Nat
    /\ tree.rows \in [Tasks -> [parent : Tasks \union {TopLevel}, collection : Collections \union {Nothing},
                                status : {"absent", "active", "archived"},
                                group : Tasks \union {NoGroup}, version : Nat]]
    /\ \A r \in Writes : write[r].pc \in {"idle", "batch", "answer"}
    /\ treeCache = Nothing \/ treeCache.known \subseteq Archived(treeCache.rows)

\* Whatever plans interleave, made from whatever cached tree: the active tasks
\* are a forest of bounded depth, a subtask shares its parent's collection and
\* no active task hangs below an archived one.
ForestStaysSound ==
    /\ TreeTypeOK
    /\ \A t \in Active(tree.rows) :
        LET parent == tree.rows[t].parent IN
        /\ t \notin UNION {Ancestors(tree.rows, u) : u \in Ancestors(tree.rows, t)}
        /\ Depth(tree.rows, t) <= MaxDepth - 1
        /\ parent # TopLevel => /\ parent \in Active(tree.rows) \ {t}
                                /\ tree.rows[parent].collection = tree.rows[t].collection

\* state.ts:17-20 "this is exactly the state of D1 at `version`": a cached tree
\* of the current version has the rows the database has, so that a plan the
\* version lock accepts never overwrites what it did not see.
CacheIsExact ==
    treeCache # Nothing /\ treeCache.version = tree.version =>
        /\ Active(treeCache.rows) = Active(tree.rows)
        /\ \A t \in Active(tree.rows) \union treeCache.known : treeCache.rows[t] = tree.rows[t]

\* service.ts "Restores an archived task and its subtasks archived with it":
\* the subtasks archived with a task do not stay behind when it comes back, out
\* of sight of the archive, which lists them under their root.
GroupsStayWhole ==
    \A t \in Archived(tree.rows) :
        LET root == tree.rows[t].group IN tree.rows[root].status = "archived"
=============================================================================
