----------------------------- MODULE TaskStore -----------------------------
(***************************************************************************)
(* The task lists a browser shows, and the tree cache of the api process   *)
(* it reads them through: local changes shown before the server has them,  *)
(* refetches, announced versions, and writes made elsewhere                *)
(* (apps/web/src/features/workspace: task-store.ts, realtime.ts;           *)
(* packages/core/src/tasks: service.ts, state.ts;                          *)
(* apps/api/src/modules/workspace/workspace.events.ts).                    *)
(*                                                                         *)
(* A list is told by the version of the tree it was read from. A change is *)
(* an id; what it does to a list is data. The batch of a write and what    *)
(* its process does on the answer are two steps, as are the read of the    *)
(* tree in the database and its store in the cache.                        *)
(***************************************************************************)
EXTENDS Integers, FiniteSets

CONSTANTS
    Lists, Details,     \* collections; tasks whose detail a pane may show
    LongLists,          \* of these lists, the ones of two pages
    NoVersion,          \* nothing cached, no page yet
    MaxWalks,           \* walks over the pages of a list before the client gives up
    MaxWrites,          \* bound of the versions of the tree
    MaxChanges,         \* bound of the local changes
    MaxDisruptions      \* bound of disconnections, failed fetches and trimmed details

Views == Lists \union Details

ASSUME StoreBounds ==
    /\ LongLists \subseteq Lists /\ Lists \intersect Details = {}
    /\ {MaxWalks, MaxWrites} \subseteq Nat \ {0} /\ {MaxChanges, MaxDisruptions} \subseteq Nat
    /\ NoVersion \notin Nat

VARIABLES
    dbVersion,      \* users.task_tree_version
    apiCache,       \* TaskTreeCache: the version of the entry, or NoVersion
    committing,     \* batches applied whose process has not seen the answer:
                    \* [version, change (0: made elsewhere), byWorker, names]
    socket,         \* the user topic: [up, inbox ([version, names] on the way)]
    entries,        \* CollectionEntry, DetailEntry of each view
    fetches,        \* the request of each view: walk and page
    changes,        \* LocalChange: [id, over, at, confirmed, watch]
    storeSeq,       \* TaskStore.seq
    changeIds,      \* TaskStore.changeIds
    dropped,        \* history: changes dropped after their confirmation
    known,          \* history: the highest version announced or read
    named,          \* history: the newest version whose event names each task
    mishaps         \* history: what went wrong on the way

serverVars == <<dbVersion, apiCache, committing, known, named>>
shownVars == <<entries, fetches, storeSeq>>
storeVars == <<serverVars, shownVars, socket, changes, changeIds, dropped, mishaps>>

\* `holds` is history: the changes that were confirmed when the request that
\* brought what is shown started.
IdleEntry == [status |-> "idle", version |-> 0, whole |-> TRUE, loadedSeq |-> 0,
              again |-> FALSE, holds |-> {}]
NoFetch == [pc |-> "none", walk |-> 1, first |-> NoVersion, version |-> 0,
            startSeq |-> 0, after |-> {}]

StoreInit ==
    /\ dbVersion = 1 /\ apiCache = NoVersion /\ committing = {}
    /\ socket = [up |-> TRUE, inbox |-> {}, disruptions |-> 0]
    /\ entries = [v \in Views |-> IdleEntry]
    /\ fetches = [v \in Views |-> NoFetch]
    /\ changes = {} /\ storeSeq = 0 /\ changeIds = 0
    /\ dropped = {} /\ known = 1 /\ named = [d \in Details |-> 1] /\ mishaps = {}

----------------------------------------------------------------------------
(* Refetching (refresh, refreshDetail). *)

Confirmed == {c \in changes : c.at = "confirmed"} \union dropped
InFlight(v) == fetches[v].pc # "none"

\* The entries, the requests and the sequence after refresh is called for each
\* of `some`, from the given values of the three.
Refetched(some, these, requests, seq, confirmed) ==
    [entries |-> [v \in Views |->
         IF v \notin some THEN these[v]
         ELSE IF requests[v].pc # "none" THEN [these[v] EXCEPT !.again = TRUE]
         ELSE [these[v] EXCEPT !.again = FALSE,
                               !.status = IF @ = "ready" THEN @ ELSE "loading"]],
     fetches |-> [v \in Views |->
         IF v \notin some \/ requests[v].pc # "none" THEN requests[v]
         ELSE [NoFetch EXCEPT !.pc = "ask", !.startSeq = seq + 1,
                              !.after = {c.id : c \in confirmed}]],
     seq |-> IF \E v \in some : requests[v].pc = "none" THEN seq + 1 ELSE seq]

Refetch(result) ==
    /\ entries' = result.entries /\ fetches' = result.fetches /\ storeSeq' = result.seq

\* pruneChanges: a confirmed change goes once everything it touches was
\* fetched after the confirmation.
Settled_Loaded(c, these) ==
    /\ c.at = "confirmed"
    /\ \A v \in c.watch : these[v].status # "loading"
Settled(c, these) ==
    /\ c.at = "confirmed"
    /\ \A v \in c.watch : these[v].status = "idle" \/ these[v].loadedSeq > c.confirmed

Prune(some, these) ==
    LET gone == {c \in some : Settled(c, these)} IN
    /\ changes' = some \ gone
    /\ dropped' = dropped \union {[id |-> c.id, watch |-> c.watch] : c \in gone}

\* ensureCollection, ensureDetail.
OpenView(v) ==
    /\ entries[v].status = "idle" /\ ~InFlight(v)
    /\ Refetch(Refetched({v}, entries, fetches, storeSeq, Confirmed))
    /\ UNCHANGED <<serverVars, socket, changes, changeIds, dropped, mishaps>>

\* noteTreeVersion: an event brings the version of the tree and the tasks it
\* names, a snapshot the version alone. `names` are the details that are
\* refetched, all of them when no task is named (taskIds.length === 0).
Outdated_ReadyOnly(news) ==
    {v \in Views : /\ entries[v].status = "ready"
                   /\ IF v \in Lists THEN entries[v].version < news.version ELSE v \in news.names}
Outdated(news) ==
    {v \in Views : /\ entries[v].status # "idle"
                   /\ IF v \in Lists THEN entries[v].version < news.version ELSE v \in news.names}

Note(news) ==
    /\ news \in socket.inbox
    /\ socket' = [socket EXCEPT !.inbox = @ \ {news}]
    /\ Refetch(Refetched(Outdated(news), entries, fetches, storeSeq, Confirmed))
    /\ UNCHANGED <<serverVars, changes, changeIds, dropped, mishaps>>

----------------------------------------------------------------------------
(* The api answers (TaskService.state, listCollection, getTask), and the   *)
(* client follows the pages (loadWholeCollection).                         *)

\* The request after a page read at `version`.
AfterPage(v, version) ==
    LET fetch == fetches[v]
        told(read) == [fetch EXCEPT !.pc = "told", !.version = read] IN
    IF v \notin LongLists \/ fetch.walk > MaxWalks \/ fetch.first = version
    THEN told(version)
    ELSE IF fetch.first = NoVersion THEN [fetch EXCEPT !.pc = "ask", !.first = version]
    ELSE [fetch EXCEPT !.pc = "ask", !.walk = @ + 1, !.first = NoVersion]

\* What a walk that was overtaken each time brings: the first page only.
Whole(v) == v \in LongLists => fetches[v].walk <= MaxWalks

ServeCached(v) ==
    /\ fetches[v].pc = "ask" /\ apiCache # NoVersion
    /\ fetches' = [fetches EXCEPT ![v] = AfterPage(v, apiCache)]
    /\ UNCHANGED <<serverVars, socket, entries, storeSeq, changes, changeIds, dropped, mishaps>>

\* Nothing is cached, or the entry has expired.
ReadFromDb(v) ==
    /\ fetches[v].pc = "ask"
    /\ apiCache' = NoVersion
    /\ fetches' = [fetches EXCEPT ![v].pc = "reading", ![v].version = dbVersion]
    /\ known' = dbVersion
    /\ UNCHANGED <<dbVersion, committing, named, socket, entries, storeSeq, changes, changeIds,
                   dropped, mishaps>>

\* TaskTreeCache.set replaces whatever entry there is. A task's detail is read
\* by itself and not cached.
Overdue(version) == IF version < known THEN {"cache set back"} ELSE {}

StoreTree(v) ==
    LET version == fetches[v].version IN
    /\ fetches[v].pc = "reading"
    /\ apiCache' = IF v \in Lists THEN version ELSE apiCache
    /\ fetches' = [fetches EXCEPT ![v] = AfterPage(v, version)]
    /\ mishaps' = IF v \in Lists THEN mishaps \union Overdue(version) ELSE mishaps
    /\ UNCHANGED <<dbVersion, committing, known, named, socket, entries, storeSeq, changes,
                   changeIds, dropped>>

\* The end of a request: prune, and fetch once more if that was asked for.
Ended(v, entry) ==
    LET these == [entries EXCEPT ![v] = entry]
        requests == [fetches EXCEPT ![v] = NoFetch] IN
    /\ Refetch(Refetched(IF entry.again THEN {v} ELSE {}, these, requests, storeSeq, Confirmed))
    /\ Prune(changes, these)

ReceiveView(v) ==
    LET fetch == fetches[v] IN
    /\ fetch.pc = "told"
    /\ Ended(v, [entries[v] EXCEPT !.status = "ready", !.version = fetch.version,
                                   !.whole = Whole(v), !.loadedSeq = fetch.startSeq,
                                   !.holds = fetch.after])
    /\ mishaps' = IF Whole(v) THEN mishaps ELSE mishaps \union {"walk given up"}
    /\ UNCHANGED <<serverVars, socket, changeIds>>

FailView(v) ==
    /\ InFlight(v) /\ socket.disruptions < MaxDisruptions
    /\ socket' = [socket EXCEPT !.disruptions = @ + 1]
    \* the task of an open detail may be gone
    /\ \E gone \in BOOLEAN :
         /\ gone => v \in Details
         /\ Ended(v, [entries[v] EXCEPT !.status = IF @ = "ready" /\ ~gone THEN @ ELSE "error"])
    /\ mishaps' = mishaps \union {"fetch failed"}
    /\ UNCHANGED <<serverVars, changeIds>>

\* trimDetails, for a task whose detail was loaded instead.
TrimDetail(v) ==
    /\ v \in Details /\ entries[v].status \in {"ready", "error"} /\ ~InFlight(v)
    /\ socket.disruptions < MaxDisruptions
    /\ socket' = [socket EXCEPT !.disruptions = @ + 1]
    /\ entries' = [entries EXCEPT ![v] = IdleEntry]
    /\ Prune(changes, entries')
    /\ UNCHANGED <<serverVars, fetches, storeSeq, changeIds, mishaps>>

----------------------------------------------------------------------------
(* Writes. *)

\* addChange, and the request. `over` is what the change touches: the lists
\* that show the task (and the one it moves to), and its detail.
Unwritten == Cardinality({c \in changes : c.at = "sent"})

StartChange(over) ==
    /\ dbVersion + Unwritten < MaxWrites /\ changeIds < MaxChanges
    /\ \E v \in over : entries[v].status = "ready"
    /\ changeIds' = changeIds + 1
    /\ changes' = changes \union {[id |-> changeIds + 1, over |-> over, at |-> "sent",
                                  confirmed |-> 0, watch |-> {}]}
    /\ UNCHANGED <<serverVars, shownVars, socket, dropped, mishaps>>

\* The next version is committed. The event will name the tasks whose rows the
\* plan changed (changedTaskIds); not the parent of a new subtask, nor those
\* below a renamed task, whose details show them; and of a worker's write those
\* its hint has room for.
Commit(change, byWorker) ==
    /\ dbVersion' = dbVersion + 1
    /\ \E names \in SUBSET Details :
         /\ committing' = committing \union {[version |-> dbVersion + 1, change |-> change,
                                              byWorker |-> byWorker, names |-> names]}
         /\ named' = [d \in Details |-> IF d \in names THEN dbVersion + 1 ELSE named[d]]

CommitChange(c) ==
    /\ c.at = "sent"
    /\ Commit(c.id, FALSE)
    /\ changes' = (changes \ {c}) \union {[c EXCEPT !.at = "applied"]}
    /\ UNCHANGED <<apiCache, known, shownVars, socket, changeIds, dropped, mishaps>>

\* Another device or an agent writes, through this process or a worker.
CommitElsewhere ==
    /\ dbVersion + Unwritten < MaxWrites
    /\ \E byWorker \in BOOLEAN : Commit(0, byWorker)
    /\ UNCHANGED <<apiCache, known, shownVars, socket, changes, changeIds, dropped, mishaps>>

\* publishTasksChanged.
Announce(version, names) ==
    /\ known' = IF version > known THEN version ELSE known
    /\ socket' = IF socket.up
                 THEN [socket EXCEPT !.inbox = @ \union {[version |-> version, names |-> names]}]
                 ELSE socket

\* The request that made the commit is answered, or fails.
RequestEnds(commit, at) ==
    changes' = {IF c.id = commit.change THEN [c EXCEPT !.at = at] ELSE c : c \in changes}

\* The process sees its batch applied. When nobody wrote since the plan was
\* made it stores the planned tree, else it drops the entry; a worker's write
\* is a hint, after which the version is read again.
AnnounceCommit(commit) ==
    /\ committing' = committing \ {commit}
    /\ IF commit.byWorker
       THEN /\ apiCache' = IF apiCache # NoVersion /\ apiCache < dbVersion
                           THEN NoVersion ELSE apiCache
            /\ Announce(dbVersion, commit.names)
            /\ UNCHANGED mishaps
       ELSE /\ \/ /\ apiCache' = commit.version
                  /\ mishaps' = mishaps \union Overdue(commit.version)
               \/ /\ apiCache' = NoVersion
                  /\ UNCHANGED mishaps
            /\ Announce(commit.version, commit.names)
    /\ RequestEnds(commit, "answered")
    /\ UNCHANGED <<dbVersion, named, shownVars, changeIds, dropped>>

\* The process never learns that its batch was applied, or a hint is lost.
LoseCommit(commit) ==
    /\ committing' = committing \ {commit}
    /\ RequestEnds(commit, "failed")
    /\ mishaps' = mishaps \union {"not announced"}
    /\ UNCHANGED <<dbVersion, apiCache, known, named, shownVars, socket, changeIds, dropped>>

\* confirm: what the change touches is fetched again, or what of it is loaded.
Watched(c) ==
    {c.over} \union {{v \in c.over : v \in Details \/ entries[v].status = "ready"}}

Confirm(c) ==
    /\ c.at = "answered"
    /\ \E watch \in Watched(c) :
         LET confirmed == [c EXCEPT !.at = "confirmed", !.confirmed = storeSeq + 1,
                                    !.watch = watch]
             result == Refetched({v \in watch : entries[v].status # "idle"},
                                 entries, fetches, storeSeq + 1,
                                 Confirmed \union {confirmed}) IN
         /\ Refetch(result)
         /\ Prune((changes \ {c}) \union {confirmed}, result.entries)
    /\ UNCHANGED <<serverVars, socket, changeIds, mishaps>>

\* reject: the write was refused, or its answer did not arrive.
Reject(c) ==
    /\ c.at # "confirmed"
    /\ changes' = changes \ {c}
    /\ UNCHANGED <<serverVars, shownVars, socket, changeIds, dropped, mishaps>>

----------------------------------------------------------------------------
(* The socket of the user topic: nothing published while it is down comes  *)
(* later, but each connection begins with a snapshot of the version.       *)

Disconnect ==
    /\ socket.up /\ socket.disruptions < MaxDisruptions
    /\ socket' = [up |-> FALSE, inbox |-> {}, disruptions |-> socket.disruptions + 1]
    /\ UNCHANGED <<serverVars, shownVars, changes, changeIds, dropped, mishaps>>

\* userSnapshot: when the read of the version fails, that is logged and the
\* snapshot says 0, at which the details are refetched and no list is.
Reconnect ==
    /\ ~socket.up
    /\ \E version \in {0, dbVersion} :
         /\ socket' = [socket EXCEPT !.up = TRUE,
                                     !.inbox = {[version |-> version, names |-> Details]}]
         /\ mishaps' = IF version = 0 THEN mishaps \union {"snapshot without version"} ELSE mishaps
    /\ UNCHANGED <<serverVars, shownVars, changes, changeIds, dropped>>

StoreNext ==
    \/ \E v \in Views : OpenView(v) \/ ServeCached(v) \/ ReadFromDb(v) \/ StoreTree(v)
                        \/ ReceiveView(v) \/ FailView(v) \/ TrimDetail(v)
    \/ \E news \in socket.inbox : Note(news)
    \/ CommitElsewhere \/ Disconnect \/ Reconnect
    \/ \E over \in SUBSET Views : StartChange(over)
    \/ \E c \in changes : CommitChange(c) \/ Confirm(c) \/ Reject(c)
    \/ \E commit \in committing : AnnounceCommit(commit) \/ LoseCommit(commit)

StoreSpec == StoreInit /\ [][StoreNext]_storeVars

----------------------------------------------------------------------------
StoreTypeOK ==
    /\ dbVersion \in 1 .. MaxWrites /\ apiCache \in (1 .. dbVersion) \union {NoVersion}
    /\ \A commit \in committing : commit.version <= dbVersion
    /\ socket.inbox \subseteq [version : 0 .. dbVersion, names : SUBSET Details]
    /\ known <= dbVersion /\ named \in [Details -> 1 .. dbVersion]
    /\ entries \in [Views -> [status : {"idle", "loading", "ready", "error"},
                              version : 0 .. dbVersion, whole : BOOLEAN, loadedSeq : Nat,
                              again : BOOLEAN, holds : SUBSET (1 .. changeIds)]]
    /\ \A v \in Views : fetches[v].pc \in {"none", "ask", "reading", "told"}
    /\ \A c \in changes : c.at \in {"sent", "applied", "answered", "failed", "confirmed"}

(***************************************************************************)
(* "a confirmed change stays applied until a tree fetched after the        *)
(* confirmation replaces it" (task-store.ts): whatever else is fetched,    *)
(* announced or answered meanwhile, a change that is no longer applied     *)
(* locally was confirmed before the request was made that brought each     *)
(* list and detail it waited for.                                          *)
(***************************************************************************)
ConfirmedUntilFetched ==
    \A c \in dropped : \A v \in c.watch :
        entries[v].status = "ready" => c.id \in entries[v].holds

AtRest ==
    /\ socket.up /\ socket.inbox = {} /\ committing = {}
    /\ \A v \in Views : ~InFlight(v)
    /\ \A c \in changes : c.at = "confirmed"

\* What a view has to show: a list the tree as it is; a detail the newest of the
\* commits whose event names its task.
Newest(v) == IF v \in Lists THEN dbVersion ELSE named[v]

Current(v) == entries[v].version >= Newest(v) /\ entries[v].whole

(***************************************************************************)
(* Whatever is announced while lists and details are being fetched, and    *)
(* whatever connections are lost, a browser at rest shows in its lists the *)
(* server's tree, in each detail what was written by all commits that name *)
(* its task, and has no local change left over: unless a fetch failed, a   *)
(* commit was announced to nobody, a snapshot came without the version, a  *)
(* tree older than one already announced or read came into the cache, or   *)
(* a walk over pages was given up (task-store.ts noteTreeVersion, confirm, *)
(* and `again` of refresh).                                                *)
(***************************************************************************)
BrowserConverges ==
    /\ StoreTypeOK
    /\ AtRest /\ mishaps = {} =>
          /\ changes = {}
          /\ \A v \in Views : entries[v].status = "ready" => Current(v)

=============================================================================
