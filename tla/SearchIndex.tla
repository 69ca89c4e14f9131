---------------------------- MODULE SearchIndex ----------------------------
(***************************************************************************)
(* The search index of one owner: intents recorded with every change, the  *)
(* writer that folds them into the next published generation, and a query  *)
(* that overlays the changes not published yet (packages/core/src/search:  *)
(* intents.ts, apply.ts, writer.ts, service.ts).                           *)
(*                                                                         *)
(* A record is its version. An upsert re-reads the current record, and     *)
(* removes what no longer exists, so one operation stands for all of them. *)
(* Two writers may run at once, across a switch of the executor too; a     *)
(* publication's answer may be lost, and its batch may even be executed    *)
(* after the writer has read back that it was not.                         *)
(***************************************************************************)
EXTENDS Integers, FiniteSets

CONSTANTS
    Records,        \* tasks and documents of the owner
    Writers,        \* concurrent runs of SearchIndexWriter.run
    Missing,        \* no row, no object
    BatchLimit,     \* intents applied per run
    MaxVersion,     \* bound of a record's versions
    MaxRuns,        \* bound of the runs started
    MaxSwitches     \* bound of the executor's generation

ASSUME SearchBounds ==
    /\ {MaxVersion, MaxRuns, MaxSwitches} \subseteq Nat
    /\ BatchLimit \in Nat \ {0}

\* No row is not a row.
ASSUME SearchMissing ==
    Missing \notin [generation : Nat, applied : Nat, object : Nat, late : BOOLEAN]

VARIABLES
    records,        \* Records -> version (0: it does not exist)
    intents,        \* search_intents: [id, record]
    nextId,         \* the AUTOINCREMENT sequence
    executorGen,    \* executor_state.generation
    row,            \* search_indexes: [generation, applied, object], or None;
                    \* `late` is history: its batch landed after a read back
    objects,        \* index objects by write id: [generation, contents]
    landing,        \* publications whose batch may still be executed
    writers, runs,  \* the runs; write ids handed out
    query           \* one search request

searchVars == <<records, intents, nextId, executorGen, row, objects, landing,
                writers, runs, query>>

Empty == [r \in Records |-> 0]
IdleWriter == [pc |-> "idle", row |-> Missing, executor |-> 0, batch |-> {}, newest |-> 0,
               contents |-> Empty, todo |-> {}, applied |-> 0, id |-> 0]
IdleQuery == [pc |-> "idle", row |-> Missing, pending |-> 0, through |-> 0,
              base |-> Empty, todo |-> {}, seen |-> Empty, complete |-> FALSE]

SearchInit ==
    /\ records = Empty /\ intents = {} /\ nextId = 1 /\ executorGen = 1
    /\ row = Missing /\ objects = <<>> /\ landing = {}
    /\ writers = [w \in Writers |-> IdleWriter] /\ runs = 0
    /\ query = IdleQuery

Biggest(numbers) == IF numbers = {} THEN 0
                    ELSE CHOOSE n \in numbers : \A m \in numbers : m <= n
Ids(some) == {i.id : i \in some}
Applied(published) == IF published = Missing THEN 0 ELSE published.applied
Generation(published) == IF published = Missing THEN 0 ELSE published.generation

(* pendingIntentsStatement, pendingSummaryStatement. *)
PendingIntents == {i \in intents : i.id > Applied(row)}
FirstOf(some, limit) ==
    {i \in some : Cardinality({j \in some : j.id <= i.id}) <= limit}

(***************************************************************************)
(* Changes: the record and its intent in one batch.                        *)
(***************************************************************************)
ChangeRecord(r) ==
    /\ records[r] < MaxVersion
    /\ records' = [records EXCEPT ![r] = @ + 1]
    /\ intents' = intents \cup {[id |-> nextId, record |-> r]}
    /\ nextId' = nextId + 1
    /\ UNCHANGED <<executorGen, row, objects, landing, writers, runs, query>>

\* Only what a run has still to publish can tell a switch from none.
SwitchExecutor ==
    /\ \/ \E w \in Writers : writers[w].executor = executorGen
       \/ \E p \in landing : p.executor = executorGen
    /\ executorGen < MaxSwitches /\ executorGen' = executorGen + 1
    /\ UNCHANGED <<records, intents, nextId, row, objects, landing, writers, runs, query>>

(***************************************************************************)
(* The writer.                                                             *)
(***************************************************************************)
Step(w, pc) == writers' = [writers EXCEPT ![w].pc = pc]
Finish(w) == writers' = [writers EXCEPT ![w] = IdleWriter]

(* run: the first batch of reads. *)
StartRun(w) ==
    /\ writers[w].pc = "idle" /\ runs < MaxRuns
    /\ runs' = runs + 1
    /\ writers' = [writers EXCEPT ![w] =
         [IdleWriter EXCEPT !.pc = "load", !.row = row, !.executor = executorGen,
                            !.batch = FirstOf(PendingIntents, BatchLimit),
                            !.newest = Biggest(Ids(PendingIntents)), !.id = runs + 1]]
    /\ UNCHANGED <<records, intents, nextId, executorGen, row, objects, landing, query>>

Readable(published) == published # Missing /\ published.object \in DOMAIN objects

(* load found the published index: fold the batch into it. *)
LoadIndex(w) ==
    /\ writers[w].pc = "load" /\ Readable(writers[w].row)
    /\ LET batch == writers[w].batch
       IN  writers' = [writers EXCEPT ![w] =
             IF batch = {} THEN IdleWriter
             ELSE [@ EXCEPT !.pc = "apply",
                            !.contents = objects[writers[w].row.object].contents,
                            !.todo = {i.record : i \in batch},
                            !.applied = Biggest(Ids(batch))]]
    /\ UNCHANGED <<records, intents, nextId, executorGen, row, objects, landing, runs, query>>

(* Everything committed up to the highest intent of the first batch is     *)
(* covered: the records are read afterwards.                               *)
RebuiltThrough(w) == Biggest({writers[w].newest, Applied(writers[w].row)})

(* There is none, its object is gone, or it is of another format. *)
Rebuild(w) ==
    /\ writers[w].pc = "load"
    /\ writers' = [writers EXCEPT ![w] =
         [@ EXCEPT !.pc = "apply", !.contents = Empty, !.todo = Records,
                   !.applied = RebuiltThrough(w)]]
    /\ UNCHANGED <<records, intents, nextId, executorGen, row, objects, landing, runs, query>>

(* applyIntents, loadAllRecords: the records are read one page after another. *)
ReadRecord(w, r) ==
    /\ writers[w].pc = "apply" /\ r \in writers[w].todo
    /\ writers' = [writers EXCEPT ![w] =
         [writers[w] EXCEPT !.contents[r] = records[r], !.todo = @ \ {r},
                            !.pc = IF writers[w].todo = {r} THEN "put" ELSE "apply"]]
    /\ UNCHANGED <<records, intents, nextId, executorGen, row, objects, landing, runs, query>>

(* publish: the object first, under a write id of its own. *)
PutIndex(w) ==
    /\ writers[w].pc = "put"
    /\ objects' = [o \in DOMAIN objects \cup {writers[w].id} |->
                     IF o # writers[w].id THEN objects[o]
                     ELSE [generation |-> Generation(writers[w].row) + 1,
                           contents |-> writers[w].contents]]
    /\ Step(w, "publish")
    /\ UNCHANGED <<records, intents, nextId, executorGen, row, landing, runs, query>>

Publication(w) ==
    [previous |-> Generation(writers[w].row), applied |-> writers[w].applied,
     executor |-> writers[w].executor, object |-> writers[w].id]

Wins_AnyGeneration(p) == p.executor = executorGen

(* The deciding statement's guards. *)
Wins(p) == p.previous = Generation(row) /\ p.executor = executorGen

(* The batch: the row and the deletion of the intents it applied. *)
Execute(p, late) ==
    IF Wins(p)
    THEN /\ row' = [generation |-> p.previous + 1, applied |-> p.applied,
                    object |-> p.object, late |-> late]
         /\ intents' = {i \in intents : i.id > p.applied}
    ELSE UNCHANGED <<row, intents>>

PublishIndex(w) ==
    /\ writers[w].pc = "publish"
    /\ Execute(Publication(w), FALSE)
    /\ \/ Step(w, IF Wins(Publication(w)) THEN "sweep" ELSE "discard")
       \/ Step(w, "unknown")
    /\ UNCHANGED <<records, nextId, executorGen, objects, landing, runs, query>>

(* The batch failed, or its answer and the request itself are lost.        *)
LosePublication(w) ==
    /\ writers[w].pc = "publish"
    /\ \/ Step(w, "discard") /\ UNCHANGED landing
       \/ Step(w, "unknown") /\ landing' = landing \cup {Publication(w)}
    /\ UNCHANGED <<records, intents, nextId, executorGen, row, objects, runs, query>>

Land(p) ==
    /\ Execute(p, TRUE)
    /\ landing' = landing \ {p}
    /\ UNCHANGED <<records, nextId, executorGen, objects, writers, runs, query>>

(* DbUnknownOutcomeError: the write id is read back. *)
ReadBack(w) ==
    /\ writers[w].pc = "unknown"
    /\ Step(w, IF row # Missing /\ row.object = writers[w].id THEN "sweep" ELSE "discard")
    /\ UNCHANGED <<records, intents, nextId, executorGen, row, objects, landing, runs, query>>

RemoveObjects(gone) == objects' = [o \in DOMAIN objects \ gone |-> objects[o]]

Discard(w) ==
    /\ writers[w].pc = "discard"
    /\ \/ RemoveObjects({writers[w].id}) \/ UNCHANGED objects
    /\ Finish(w)
    /\ UNCHANGED <<records, intents, nextId, executorGen, row, landing, runs, query>>

SweepableBy_AnyGeneration(w) == DOMAIN objects \ {writers[w].id}

(* sweep: objects up to the published generation but the published one. *)
SweepableBy(w) ==
    {o \in DOMAIN objects : /\ o # writers[w].id
                            /\ objects[o].generation <= Generation(writers[w].row) + 1}

SweepIndexes(w) ==
    /\ writers[w].pc = "sweep"
    /\ \E gone \in SUBSET SweepableBy(w) : RemoveObjects(gone)
    /\ Finish(w)
    /\ UNCHANGED <<records, intents, nextId, executorGen, row, landing, runs, query>>

(* The process stops: the run's object, if any, stays behind. *)
CrashWriter(w) ==
    /\ writers[w].pc # "idle"
    /\ Finish(w)
    /\ UNCHANGED <<records, intents, nextId, executorGen, row, objects, landing, runs, query>>

(***************************************************************************)
(* A query (SearchQueryService.search, resolveView). Its state may be up   *)
(* to stateTtlMs old: it is read here and used later. Without a published  *)
(* index the answer is `rebuilding`.                                       *)
(***************************************************************************)
ReadState ==
    /\ query.pc = "idle" /\ row # Missing
    /\ query' = [IdleQuery EXCEPT !.pc = "load", !.row = row, !.seen = records,
                                  !.pending = Cardinality(PendingIntents),
                                  !.through = Biggest(Ids(PendingIntents))]
    /\ UNCHANGED <<records, intents, nextId, executorGen, row, objects, landing, writers, runs>>

(* loadBase; without a readable base the answer is `rebuilding`. *)
LoadBase ==
    /\ query.pc = "load"
    /\ query' = IF Readable(query.row)
                THEN [query EXCEPT !.pc = "overlay",
                                   !.base = objects[query.row.object].contents]
                ELSE IdleQuery
    /\ UNCHANGED <<records, intents, nextId, executorGen, row, objects, landing, writers, runs>>

Overlaid == {i \in intents : i.id > query.row.applied /\ i.id <= query.through}

CompleteAnswer_Always(overlay) == TRUE

CompleteAnswer(overlay) == Cardinality(overlay) >= query.pending

(* The overlay's intents, then the records they name. *)
ReadOverlay ==
    /\ query.pc = "overlay"
    /\ query' = [query EXCEPT !.pc = "records", !.complete = CompleteAnswer(Overlaid),
                              !.todo = {i.record : i \in Overlaid}]
    /\ UNCHANGED <<records, intents, nextId, executorGen, row, objects, landing, writers, runs>>

ReadOverlaid(r) ==
    /\ query.pc = "records" /\ r \in query.todo
    /\ query' = [query EXCEPT !.base[r] = records[r], !.todo = @ \ {r}]
    /\ UNCHANGED <<records, intents, nextId, executorGen, row, objects, landing, writers, runs>>

AnswerQuery ==
    /\ query.pc = "records" /\ query.todo = {}
    /\ query' = IdleQuery
    /\ UNCHANGED <<records, intents, nextId, executorGen, row, objects, landing, writers, runs>>

SearchNext ==
    \/ \E r \in Records : ChangeRecord(r) \/ ReadOverlaid(r)
    \/ SwitchExecutor \/ ReadState \/ LoadBase \/ ReadOverlay \/ AnswerQuery
    \/ \E w \in Writers :
          \/ StartRun(w) \/ LoadIndex(w) \/ Rebuild(w) \/ PutIndex(w)
          \/ PublishIndex(w) \/ LosePublication(w) \/ ReadBack(w)
          \/ Discard(w) \/ SweepIndexes(w) \/ CrashWriter(w)
          \/ \E r \in Records : ReadRecord(w, r)
    \/ \E p \in landing : Land(p)

SearchSpec == SearchInit /\ [][SearchNext]_searchVars

-----------------------------------------------------------------------------
SearchTypeOK ==
    /\ records \in [Records -> 0..MaxVersion]
    /\ \A i \in intents : i.record \in Records /\ i.id \in 1..(nextId - 1)
    /\ executorGen \in 1..MaxSwitches \cup {1}
    /\ row = Missing \/ /\ row.generation \in 1..MaxRuns
                        /\ row.applied \in 0..(nextId - 1) /\ row.object \in 1..runs
    /\ DOMAIN objects \subseteq 1..runs
    /\ \A w \in Writers : writers[w].pc \in {"idle", "load", "apply", "put", "publish",
                                             "unknown", "discard", "sweep"}
    /\ query.pc \in {"idle", "load", "overlay", "records"}

(* A change is never forgotten: what a published index does not hold in    *)
(* its current version is named by an intent that is still to be applied,  *)
(* whichever writers raced, rebuilt or lost their answer (writer.ts        *)
(* publish: applied_through and the deletion of intents).                  *)
NothingIsForgotten ==
    Readable(row) =>
        \A r \in Records :
            \/ objects[row.object].contents[r] = records[r]
            \/ \E i \in intents : i.record = r /\ i.id > row.applied

(* The published object is there: the sweep of a slow writer, the clean-up *)
(* of a lost race and of a lost answer spare it, and so they do the object *)
(* a running writer has put and is about to publish (writer.ts sweep). The *)
(* one exception is a batch executed after its writer read back that it    *)
(* was not; load then rebuilds.                                            *)
PublishedIndexIsKept == row # Missing /\ ~row.late => Readable(row)

(* What a query can read is the index its row names, and that index with   *)
(* the open intents is the current state of every record.                  *)
IndexIsWhole == NothingIsForgotten /\ PublishedIndexIsKept

(* An answer that claims to be complete holds, for every record, the       *)
(* version committed when the request read its state or a later one, even  *)
(* when a writer published and deleted the overlay's intents in between    *)
(* (service.ts resolveView `complete`).                                    *)
CompleteAnswersAreCurrent ==
    query.pc = "records" /\ query.todo = {} /\ query.complete =>
        \A r \in Records : query.base[r] >= query.seen[r]
=============================================================================
