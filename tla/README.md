# Symplist: specifications and proofs

TLA+ models of the protocols that decide whether Symplist keeps its promises, checked by TLC on
small instances, with theorems checked by TLAPS for every instance. Paths are relative to the
repository; line numbers are in `PROJECT.json`, which maps every definition to the code it models.

- [Inventory](#inventory): the components, their state, how they interact, what can go wrong
- [Modules](#modules): what models what, and how state and actions correspond to the code
- [Runs](#runs): what each run checks, its bounds, and what it shows
- [Fairness](#fairness), [Proofs](#proofs), [Disagreements with the documentation](#disagreements-with-the-documentation)
- [Not modelled](#not-modelled) and [Plan](#plan)

## Inventory

Symplist is a task manager whose tasks own a Markdown page with a Git history. An api (NestJS), a
worker (Trigger.dev tasks), a web and a desktop client share three stores: Cloudflare D1 through its
REST interface, R2, and the memory of each process. Three facts of that setting shape every
protocol, and every model here has them:

- **D1 runs one batch of statements as a transaction and nothing larger.** A write is decided by
  conditions inside the batch; the caller recognises its own write by a fresh `write_id`.
- **A write may have an unknown outcome.** The answer is lost, the batch may have been applied, may
  still be applied, or never (`packages/db/src/d1-rest-client.ts`).
- **D1 and R2 share no transaction**, and any process may stop between two calls.

### Components

| component | state | operations | talks to | what makes it correct |
|---|---|---|---|---|
| Document publication (`packages/docs/src/publication`, `artifacts`) | `doc_repos`, `doc_commits`, `doc_publish_requests`; bundle and snapshot objects | publish: read, prepare, upload, publish batch, reconcile, diagnose | Git, D1, R2, access context | one linear history; a submission publishes once; the caller is told the truth; nothing published dangles |
| Orphan collection, maintenance (`orphans.ts`, `documents/maintenance.ts`) | a pass: listing, references | list, read references, delete; expire request rows | R2, D1, publication | deletes nothing referenced now or soon; readers keep the head for the grace period |
| Document service and drafts (`packages/core/src/documents`) | `doc_drafts`, conflict candidates | put draft, save, restore, delete draft, read | publication, editors | no text typed by a user is lost or shadowed by an older one |
| Execution dispatch (`apps/api/src/infra/executors`) | `dispatch_intents`, `executor_state`; running jobs of each api; Trigger runs | record, claim, mark local start, start, release, mark, rebind, switch | every feature with background work; Trigger | an intent starts once, and does start, across crashes and switches |
| Account deletion and purge (`packages/core/src/account`, api and worker shells) | `users`, `account_keys`, `account_deletions`, tombstone; objects under `u/<userId>/`; rows of every domain | delete, purge steps, resume, Trigger attempts | dispatch, R2, D1, every domain's contributor | recorded steps hold, in order, once; every purge ends |
| Idempotency records (`packages/core/src/idempotency`) | `idempotency_records` | begin, folded claim, complete, release, replay | every mutating route | a request takes effect once and its replay is the answer first given |
| Realtime hub (`apps/api/src/modules/realtime`) | topics with ring buffers; sockets, queues, access | subscribe, publish, deliver, sweep, disconnect | D1 outbox events, access | after a snapshot each event once, in order; no event after access ended |
| Scheduling (`packages/core/src/scheduling`) | reminders, occurrences, notifications, deliveries with leases | materialise, claim, deliver, back off | e-mail, dispatch mode, local scheduler | an occurrence is delivered, once up to the provider's window |
| Search index (`packages/core/src/search`, `packages/search`) | index rows and objects, search intents | rebuild, apply, publish, sweep | D1, R2, documents | the index never points at a deleted object; every intent is applied |
| Sign-in (`packages/core/src/access/otp.ts`, `sessions.ts`) | challenges, attempts, lock-outs, sessions | send, verify, rotate, revoke | e-mail | a code is guessed at most so often and used once |
| Access (`invites.ts`, `restrict.ts`, ...) | users, invites, access generation | invite, redeem, restrict | sessions, realtime, dispatch | a restriction is final for everything issued before it |
| Tasks and plans (`packages/core/src/tasks`) | the task tree, versions, order keys, archive jobs | create, move, complete, archive, restore | documents, scheduling, search | the tree stays a tree; order keys stay ordered |
| MCP grants and OAuth (`packages/core/src/mcp`) | grants, codes, refresh tokens | authorise, consume, refresh, revoke | agents | a code or token is used once; reuse revokes |
| Sharing (`packages/core/src/sharing`) | shares, reader sessions | request, release, replace, revoke | publication, access | what is released is what the owner confirmed |
| Vault (`packages/core/src/vault`, `packages/crypto`) | vault rows, unlock sessions | unlock, open, lock, reset | keys | guesses are bounded; a reset ends open sessions |
| D1 client (`packages/db`) | token bucket, breaker, queue | acquire, run, trip | everything | lanes keep their budget; the breaker recovers |
| Git service (`packages/docs/src/git`) | semaphore, workspaces | acquire, run, release | publication | slots are never lost, waiters are bounded |
| Web client (`apps/web`) | task store, draft and save scheduler, realtime client | optimistic changes, autosave, replay | api | local state converges to the server's |
| Desktop (`apps/desktop`) | cloud session state | start, sign in, sign out | web client, api | the shown state follows the session |
| Crypto, storage, e-mail, analytics, config, contracts, api shell | no protocol state of their own | | | |

### Where it is hard

`PROJECT.json` lists each hazard at its line, with the properties that would catch it. In short:

- **publication**: a lost answer, a batch sent twice or late (`publisher.ts:586`, `:843`), the task
  archived in between (`:641`), a diagnosis made from a later state (`:793`), a collector that lists,
  reads references and deletes while publications upload and commit (`orphans.ts:113`);
- **editing**: an autosave, its retry, a draft write and other writers overlap; a late answer must
  not turn "unsaved" into "saved", a late save must not delete a newer draft (`service.ts:233`);
- **dispatch and purge**: claims that outlive their lease, crashes around a start
  (`dispatcher.ts:244`), an operator's switch in the middle (`dispatch-intents.ts:308`), a purge of
  many steps over two stores, run by two runtimes (`purge.ts:140`);
- **requests sent twice**: abandoned claims taken over while their request still runs
  (`idempotency/store.ts:233`), exchanges and sign-ins retried after a lost answer
  (`oauth-tokens.ts:125`, `otp.ts:571`, `vault/sessions.ts:176`);
- **access that ends while something is in flight**: a socket being verified, a sweep that read
  before the restriction (`topic-hub.ts:341`), a release or a read of a share (`grants.ts:171`), a
  redemption between its two batches (`redemption.ts:198`);
- **caches and overlays**: a tree planned against a cached version (`tasks/service.ts:335`), an index
  published by one of two writers (`search/writer.ts:360`), events published while a snapshot is
  being read (`topic-hub.ts:367`).

## Modules

```
HistoryStore <-- refinement -- DocPublication <-- MCDocPublication      runs publication, timed
                                 ^   ^-- DocPublication_proofs
DocEditing                                                              runs overwrite, covered

ExecutionDispatch <-- EXTENDS -- AccountPurge <-- MCAccountPurge        runs local_purge, left_over
   ^-- ExecutionDispatch_proofs

TaskTree <-- MCTaskTree                                                 run restore
InviteAccess <-- MCInviteAccess                                         run seats

MCAccount     = AccountPurge, OtpSignIn, OAuthGrants,
                VaultAccess, SharedArtifacts                            run account
MCWorkspace   = MCTaskTree, TaskStore, DocEditing                       run tree
MCSettling    = DocEditing, ExecutionDispatch, under fairness           run settling
MCComponents  = ExecutionDispatch, Idempotency, InviteAccess, RealtimeAccess,
                TopicDelivery, SearchIndex, ReminderScan                run components

Access_proofs (Idempotency, InviteAccess, RealtimeAccess, TopicDelivery),
Account_proofs (MCAccount and its parts, on ExecutionDispatch_proofs),
Workspace_proofs (TaskTree, TaskStore, DocEditing), SearchIndex_proofs, ReminderScan_proofs,
Components_proofs (MCComponents, on the proofs of its parts)
```

A module models one component, with its own variables, `Init`, one action per request, batch or
handler, `Next` and specification. What a component takes from another one is a small environment of
its own (the owner is restricted, the head moves, the executor is switched). `MCAccount`,
`MCWorkspace`, `MCComponents` and `MCSettling` put components that share no rows side by side: the variable `focus` chooses the one
that moves, and the VIEW (`Moving`, `AccountMoving`; the other two need none) keeps TLC from storing the others. This is the
disjoint union of their state spaces, not their product, which would show nothing more.

Three conventions recur. A *batch* is one action, however long its SQL. A request that reads, computes
and then writes has one action per await, with what it remembers in a record indexed by the request;
it may stop at any of them (`...Stops`, `...Ends`, `Crash...`). A write whose answer may be lost is
the write followed by the step in which its caller gives up. Variables and fields marked `history` are
read by properties only.

### HistoryStore: what the document store promises

A compare-and-append log: a submission appends its edit only against the revision it names, at most
once per request and base, and nothing appended changes. Callers of `DocumentPublisher.publish`
rely on exactly this.

### DocPublication: how it keeps the promise

`DocumentPublisher`, `DocumentOrphanCollector` and the expiry of request rows, for the document of
one task (documents share no rows except the owner's key).

| model | code |
|---|---|
| `repo`, `commits`, `requests` | the rows `doc_repos`, `doc_commits`, `doc_publish_requests` |
| `bundles`, `snaps` | objects in R2: one bundle key per attempt (it holds the write id), one snapshot key per commit id |
| `att[a]` | the local variables of one `publish` call; `pc` says which await it is at |
| `wire` | publication batches that are on their way; a copy never delivered is lost |
| `col` | the collector's pass: candidates listed, then those found unreferenced |
| `active` | the access context's guard (task active, owner admitted) |
| a commit | its history: the id is the hash of tree, parent, message and date, so equal histories are equal ids |

`Start` is the first read batch with its three early returns; `Prepare` reconstructs the head and
builds the child; `PutBundle` and `PutSnapshot` upload (an existing snapshot is kept, with its old
upload time); `Send` checks the age of the uploads and sends the batch; `Deliver` is the batch at D1
and its answer, if anyone still waits for it; `Timeout`, `Reconcile`, `Resend` and `Diagnose` are
the code after an unknown outcome and after a refused write.

Time is a clock shared by all processes and the object store. `MaxPrepare` and `MaxExchange` bound
how long a call takes from its start to its first upload and from the age check to its last
exchange. **The code does not enforce these two**; the request timeouts of D1 (35 s) and the
defaults (grace 60 min, uploads at most 30 min old) leave room for them, and theorems that need
them say so.

### DocEditing: the page of a task, from keystroke to revision

`useDocument` with its save scheduler and conflict review in the web client, the document service's
`save` and drafts, and other writers of the page. A publication is one step here (DocPublication is
how it comes to be). A text is the set of edits it has taken in, so that "text was lost" can be said.

| model | code |
|---|---|
| `history`, `recorded` | the published texts; `doc_publish_requests` with fingerprint and revision |
| `stored` | the account's `doc_drafts` row: sequence, base, text |
| `editor[e]` | state and refs of `useDocument`, `SaveScheduler`: buffer, base, pending timer, running save, conflict, open review |
| `calls`, `puts` | publish calls and draft writes under way; each may fail before or after it took effect, and be answered in any order |

`Type`, `TimerSave`, `Flush`, `WriteDraft`, `Leave` are what a session does; `Publish`, `ClearDraft`,
`ReadDraft` and `KeepCandidate` are the batches of `save` with its unchanged and conflict branches;
`Hear` and `Fail` deliver answers; `ReadHead`/`ShowHead` are overlapping reads of a newer head;
`OpenReview`, `ResolveConflict`, `KeepDraft`, `DiscardDraft` the conflict review.

Reading the code for this module also showed, without a property: the idempotency key of a save that
failed retryably is reused for a fresh edit, whose fingerprint then differs (the server refuses it and
the client takes a new key); text typed after a merge plan was made is not in what Apply publishes; a
save queued behind a running one is dropped when the page switches to another task (the draft has the
text); reads of the head are not ordered, so an older answer may be shown after a newer one.

### ExecutionDispatch: how accepted work reaches an executor

One dispatch intent (intents do not interact), any number of api processes, the operator's
`executor:switch`, and Trigger.dev as an external service that knows one run per idempotency key and
frees the key when the run fails (`packages/testing/src/fakes/trigger.ts:31` describes the same).

| model | code |
|---|---|
| `exec` | the `executor_state` row: mode and generation |
| `intent` | the `dispatch_intents` row; `holder` is the process whose claim carries the current `write_id`, `leased` says whether the claim lease still runs |
| `api[p]` | a process: its configured mode, how far its dispatch pass is and under which generation, the generation its reconciler is about to rebind to, the job in its local executor |
| `op` | the generation a running `executor:switch` still has to rebind to |
| `run`, `starts` | the Trigger run; history of starts |

A pass is `BeginPass`, `Claim`, then `MarkLocalStart`, `StartLocal` (or `StartFails`,
`ReleaseLocalStart`) or `StartTrigger`, then `MarkDispatched`; after every write the answer may be
lost, which ends the pass for that intent. `EndPass` is also a call that failed without effect. A
batch that D1 applies late is the write of a slow process: nothing bounds the time between two
steps. No registered kind has a tracker or a session, so their branches are left out.

### AccountPurge: deletion, over the dispatch

`AccountPurge` extends `ExecutionDispatch` and says what a started job and a Trigger attempt do:
`AccountPurgeRunner`, invoked by the in-process handler (`StartJob`), by the hourly job
(`ResumePending`) and by the Trigger task (`StartAttempt`). `work[w]` holds the local variables of
the runner in worker `w`: the steps it read as recorded (`done`) and the page it listed. `Check` is
the comparison of mode and generation before each invocation; `ReadRow` reads `account_deletions`;
`PassStep`, `ListObjects`, `DeleteObject`, `PurgeRows`, `MarkStep` and `DeleteUser` are the steps;
`PurgeFails` is any failed call, an exhausted budget or a shutdown. Every purge write is idempotent
and nothing is decided by a missing answer, so a lost answer is the write followed by `PurgeFails`.
The straggler and provider steps complete at once: no kind has a tracker and no contributor a
provider.

### Idempotency: one key, several requests

One key of one user and scope. `route` says how the route is declared: *folded* (claim, effect and
recorded answer in one batch: `CommitFolded`) or *claimed* (`ClaimRecord`, `Handle`,
`CompleteRecord` or `ReleaseRecord`, each its own batch). `attempt[a]` holds the interceptor's local
variables for the first request and each retry; `Abandoned` is the lease of a pending record and
`RecordClaimable` the take-over; `Break` is a process that stops or a call with an unknown outcome.
`applied` records whose effect was applied. `MaxExchange` bounds the time from the start of a folded
request to its batch (the transport's time limits); the effect of a claimed route carries an audit
event whose unique id contains the key, which is what keeps a taken-over request from applying twice.
`DeleteExpired` is the cleanup of expired rows; nothing in the repository schedules it.

### InviteAccess: who is let in

Accounts, invites of a campaign, seats (`beta_redemptions`), the current grant of each account. A
redemption is two batches, `ClaimSeat` and the follow-up `Finalize`, which the reconciler
(`FinishSeat`) makes up for; `AdminUnlock`, `Relock`, `RestoreEligibility`, `DeleteAccount`,
`EditCapacity` and `EndInvite` are the administrators'; a campaign's revocation reads its members
(`ConfirmRevocation`) and restricts them one batch at a time (`RestrictMember`), and may stop. The
bootstrap administrator, who is let in without a grant, is left out.

### RealtimeAccess and TopicDelivery: two views of the hub

**RealtimeAccess** is who may hold a socket. A restriction or revocation commits, and its effects
(evict the session cache, notify the hub) run later or never (another instance made the commit, or
the process stopped). An upgrade looks the session up, perhaps in the cache, and connects later; a
sweep takes a ticket, reads the rows and applies what it read. `staleUpgrade` and the ticket floor
are modelled with their times (`CacheTtl`, `RememberFor`, `Patience`; `ACCESS_CACHE_TTL_MS` plus the
longest upgrade must fit into what is remembered: assumption `AccessTimes`). The reason a socket is
closed for and the TTLs of floor and revoked marks are left out.

**TopicDelivery** is what a subscription of a conversation topic is sent. Sequence numbers start at
the clock (`Base`) after each restart or eviction; `Publish` pushes to the ring buffer and to every
subscription, which queues while its snapshot is being read and overflows to a resync; `Subscribe`
replays from a cursor where `CanReplayAfter`; a failed snapshot becomes a resync (`FailSnapshot`).
Outside tests the repository registers no authorizer or snapshot provider of conversations and has no
client of them: provider and client are external, and assumed to keep the contract the hub is
written to (a snapshot holds what was committed when it was read; a cursor is a number up to which
everything was applied: `ring-buffer.ts:38`, `contracts/src/common/ws.ts`). `forgetConversation` and
denied subscriptions are not modelled. The *user* topic is another protocol (no buffer, no cursor, a
snapshot that is sent even if a contributor failed) and belongs to TaskStore.

### SearchIndex: intents, generations and queries

Every change of a record commits with an intent (`ChangeRecord`). A writer (`StartRun`, `LoadIndex`,
`Rebuild` or `ReadRecord` per record, `PutIndex`) publishes the next generation with a conditional
batch (`Wins`), whose answer may be lost: it then reads the row back and discards its object if its
write id is not there (`ReadBack`, `Discard`), although the batch may land after that (`Land`).
`SweepIndexes` deletes objects nothing names. A query reads row and pending intents in one batch, loads the
object, overlays the changed records and says whether its answer is `complete`.

### ReminderScan: occurrences, notifications, e-mails

The reminders of one task, scanned by concurrent jobs. `ClaimOccurrence` takes the lease with a
fence, `Decide` is the batch that turns the claim into an in-app notification, an outbox row and, for
a late one, an entry of the missed list; `ClaimMail`, `Inspect`, `Send`, `Answered` deliver an
e-mail through a provider that remembers idempotency keys (`ProviderMemory`). The owner's edits
(`BeginEdit` plans, `CommitEdit` writes under the schedule's version), `OptOut`, `OptIn`, archive and
restriction (`Halt`, `Resume`) and executor switches interleave, and time passes between any two of
these steps. `provider` is every mail that was sent; `Retention` and `ProviderMemory` are both 24
hours in the code and equal in the run. `told` is history: the notifications made of a reminder, the
edits that recreated it although it came due after they were planned (`DueUnderway`), and what an
opt-out or a halt put an end to.

### OtpSignIn, OAuthGrants, VaultAccess, SharedArtifacts: credentials

All four have requests that read or compute first and decide in one late batch, with the time of
their *beginning*.

- **OtpSignIn**: one address and purpose. `RequestCode`/`SendApplies` count the windows, the
  cooldown and supersede older codes; `Guess`/`GuessApplies` reserve the attempt before the
  comparison and clear the failures when the code is right. `guesses` is the history.
- **OAuthGrants**: one consent request; `DecisionApplies` makes grant and code; `ExchangeApplies`
  consumes a code or a refresh token, rotates, or revokes the grant when a consumed credential is
  presented again; `RevokeGrant`, `RestrictOwner`, `CleanUp`. A decision in flight across a
  restriction *and* a re-admission still applies (the batch tests the present, with a stale `now`).
- **VaultAccess**: `ReserveUnlock` books a failure before the slow key derivation,
  `CommitUnlock` refunds it; sessions, value grants, and `CommitReset`, which replaces the vault's
  version under an e-mailed authorization and ends every session and grant.
- **SharedArtifacts**: `CommitRelease` shares the head that was reviewed, or the pending proposal, or
  replaces a grant; `Deliver` authorizes a reader a second time after the object was fetched; a
  password attempt is reserved before it is derived. `release`'s replacement leaves `share_sessions`
  rows of the replaced grant behind; the generation check makes them useless.

### TaskTree: planned against a cache

Create, rename, move, complete (alone or with the subtree) and restore, planned against a tree read
from D1 or held in the process's cache, and applied by a batch that tests the tree version or the
row's version (`BeginWrite`, `CommitWrite`, `AnswerWrite`, `LoseAnswer`). Reads (`ReadTree`,
`ReadArchive`, `StoreRead`) fill the cache; an archive page knows at most `MembersPerGroup` members of
a group. Titles, labels and sibling order are data: a rename only moves the row's version.

### TaskStore: the lists a browser shows

The web client's `TaskStore`, the version announcements of the api and the tree cache the lists are
read through, which TaskTree has with its contents and this module by version.

| model | code |
|---|---|
| `entries[v]` | `CollectionEntry` or `DetailEntry`: status, version, `loadedSeq`, `again` |
| `fetches[v]` | the request of a list or detail: which walk over its pages, at which page, `startSeq` |
| `changes` | `LocalChange`s: sent, applied, answered, confirmed with `confirmedSeq` and `watch` |
| `apiCache` | the version of the entry in `TaskTreeCache` |
| `committing` | batches applied whose process has not seen the answer, and hints of workers, with the tasks their event will name |
| `socket` | the user topic: events and snapshots under way (a version, the details it makes the browser fetch); any order |
| `named` | history: the newest version whose event names each task |

`Refetched` is `refresh` for a set of views (a request already running is followed by one more);
`Note` is `noteTreeVersion`; `Confirm` and `Prune` are `confirm` and `pruneChanges`; `AfterPage` is the
walk of `loadWholeCollection`, given up after `MaxWalks`; `AnnounceCommit` is what a process does when
it sees its batch applied, `LoseCommit` that it never does. A write is one version of the tree, which
makes every list older; its event names any set of tasks (`Commit`), since which it names is data
and not always what shows the change (see "Read while modelling"). `Outdated` is the filter of
`noteTreeVersion`: lists below the version, details that are named, or all of them when none is.
`Reconnect` brings a snapshot, of the version or, when its read failed, of 0.

## Runs

All runs set `CHECK_DEADLOCK FALSE`: the systems modelled really stop, when all work is done and the
bounds are used up.

| run | module, bounds | checks | shows |
|---|---|---|---|
| `publication` | MCDocPublication: 3 calls, 2 requests, 2 texts, no clock | `LinearHistory`, `Truthful`, `NoPublishWhileInactive`, `ImplementsHistoryStore` | one linear history that implements the log, whatever is lost, late or sent twice; what callers are told stays true |
| `timed` | MCDocPublication: 4 calls one upload at a time, clock to 5, grace 1, 1 bundle kept | `NoDanglingObjects`, `RequestOnce`, `HeadReadableForGrace` | the collector deletes nothing published; a request publishes again only after its retention; a reader keeps the head for the grace period |
| `settling` | MCSettling. DocEditing: 1 session, 2 edits, 3 revisions, 2 calls. ExecutionDispatch: 1 process, 3 generations | `SavesSettle`, `EventuallyDispatched` | a save ends visibly; abandoned claims and broken-off switches do not strand an intent |
| `account` | MCAccount: 1 process and the task; 2 requests of each kind, 2-3 credentials, clocks to 2-3 | `AccountTypeOK`, `StepsHold`, `GuessesAreLimited`, `OneChainPerConsent`, `ResetEndsTrust`, `TriesAreLimited`, `SharedAsReleased` | recorded purge steps hold with two runners; credentials are used once and guesses are bounded; what is read was released |
| `local_purge` | MCAccountPurge: 1 process, 2 generations, 1 upload, 1 domain | `PurgedInLocalMode` | a purge ends in local mode, whatever happened before |
| `tree` | MCWorkspace. TaskTree: 2 tasks, 2 collections, 2 writes and a read, depth 2. TaskStore: a list of two pages, 2 writes; a detail, 2 writes that name any tasks; or a list and a detail, 1 write that names it and nothing lost; 1 local change, 1 disruption. DocEditing: 1 session, 2 edits, 3 revisions, 2 calls | `ForestStaysSound`, `CacheIsExact`, `GroupsStayWhole`; `ConfirmedUntilFetched`, `BrowserConverges`; `SavedIsPublished`, `NoSaveIsForgotten` | the tree stays a forest within its depth, a cached tree of the current version is exact, a group within one archive page comes back whole (`restore` shows a larger one that does not); a confirmed change is shown until a fetch made after it brought it, and a browser at rest shows the server's tree in its lists and in a detail whatever named its task; "saved" is true, and a running or due save is not dropped in silence |
| `components` | MCComponents: 2 processes or requests of each kind, 1 socket, 1 record, 1-2 reminders | `ComponentsTypeOK` and 15 properties, below | each component keeps its promises through its own races, crashes and lost answers |
| `overwrite`, `covered`, `seats`, `restore`, `left_over` | | one property each, violated | see "Disagreements" |

The properties of `components`: `LocalStartsOnce` (one start in process); `AppliedOnce`,
`AnswersAreTrue`, `RetriesReplay` (one effect, true answers, one replay per key);
`SeatsWithinCapacity`, `UnlockedByGrant`, `SeatAdmitsOnce` (capacity, no unlocked account
without a grant, a seat admits once); `NoSocketOutlivesRestriction`, `AdmittedUnderOneGeneration`;
`NothingIsMissed` (no event of a conversation lost between snapshot, live frames and replay);
`IndexIsWhole`, `CompleteAnswersAreCurrent` (index plus pending intents
always give the current records; a published object stays; a complete answer is current);
`NotifiedOnce`, `ReceivedOnce`, `SilencedStaysSilent` (one notification per reminder and one more for
each edit it came due under; one e-mail per occurrence unless a request stalled past the window; none
after an opt-out, nor after a halt until an edit recreates it).

Why the bounds are enough to be interesting:

- **Publication.** Three calls are a published one, one overtaken by it and a retry of either; each
  has two copies of its batch. Four calls in `timed` fill the kept window (head, one kept, one
  superseded) and leave one to read; the clock of 5 lets request rows expire and a grace pass.
  Texts, seconds, requests and calls are interchangeable (symmetry is used where no constant singles
  one out).
- **State constraints** (module MCDocPublication) keep `timed` small. They drop archiving
  (`StaysActive`), lost answers (`AnswersArrive`), calls that publish nothing (`NoCallWasted`) and
  two uploads at once (`OneWriter`): all explored without a clock in `publication`; and
  `RequestOnce` and `NoDanglingObjects` are proved without any of them.
- **Editing.** One session and other writers: with two sessions the runs exceed the time one may
  take; the theorems about DocEditing are for any number. Two calls are a save and the one queued
  behind it; two edits are one before and one after the save began. `settling` leaves out reads of
  the head, which do not touch what has still to be saved; `tree` has them. The counterexample of
  `covered` needs a third call: a save, a merge that is given up and a save again.
- **Dispatch and purge.** Two processes suffice for a take-over race and two generations for a
  switch around it; three let a switch break off and another follow. Liveness is checked with one
  process that crashes and comes back: to the intent, its next life is another process. One object
  and one domain of one batch separate "listed", "deleted", "recorded" and "recorded by the other
  runner".
- **Credentials, requests.** Two requests of each kind give every race of a pair; clocks run one step
  past every limit; every limit is at 1 or 2, so that it is reached and passed.
- **Account focuses.** The vault is explored as `unlock` (no grants, no resets) and `reset` (no wrong
  passphrases), sharing as `release`, `read` and `passwords`, each without what the others explore;
  together they are out of reach of a run.
- **Components.** One socket with one session, one client with one drop: sockets and clients do not
  interact. One search record: writers fold records one by one and a record's intents are what
  overlap. Reminders have three focuses: `edited`, one reminder that the owner edits before and
  while it comes due, its mail tried once; `reminders`, two of them, for overtaking and missed entries, with switches of
  the executor; `mail`, no edits and a minute more, so that a mail is sent, sent again within
  `Retention` and refused after it. `Retention` is 2, a lease 1 and the clock ends at 4 (3 in the
  others); scanners are interchangeable.

## Fairness

Safety runs assume none. Liveness is stated under the fairness the code justifies:

- `DispatchFairness` (`settling`) schedules one process (`Steady`): its reconciler's one-minute timer
  fires and a begun pass goes on (weak fairness), and a call that is repeated for ever succeeds once
  within its lease (strong fairness, because each failure ends the pass and disables the next step).
  Leases pass. Nothing makes the operator, another process or a crashed process act.
  `EventuallyDispatched` additionally assumes, in its antecedent, that this process stays up in the
  recorded mode and is the only one.
- `LocalPurgeSpec` (`local_purge`) adds that a begun purge goes on, that only finitely many of its
  calls fail, and that the hourly timer fires (`local-scheduler.ts`).
- `EditFairness` (`settling`): timers fire, and every call of a session ends with an answer or a
  failure (the HTTP client has a time limit).
- `ReconciledSpec` (`seats`): the redemption reconciler, which runs on a timer, finishes a seat that
  can be finished. Its counterexample is one no fairness could repair.

## Proofs

Checked by `tlapm`; no step is left unproved. Constants are arbitrary: any number of calls,
requests, texts, processes, readers, limits and lifetimes.

| theorem | states | assumptions |
|---|---|---|
| `TypeCorrect` (DocPublication_proofs) | `[]TypeOK` of DocPublication | `TimeAssumption`, `NoneAssumption` |
| `HistoryIsLinear` | `[]LinearHistory` | the same |
| `ArchivedTasksAreReadOnly` | `NoPublishWhileInactive` | the same |
| `PublicationIsAppendOnly` | `ImplementsHistoryStore`: refinement of HistoryStore | the same |
| `RequestsPublishOnce` | `[]RequestOnce` | the same |
| `PublishedObjectsExist` | `[]NoDanglingObjects` | also `GraceCoversCalls`: `LongestCall <= Grace` |
| `CallersAreToldTheTruth` | `[]Truthful` | also `RetentionCoversCalls`: `LongestCall < Retention` |
| `HeadsStayReadable` | `[]HeadReadableForGrace` | also `GraceCoversCalls` and `KeepsOneBundle`: `KeepBundles >= 1` |
| `DispatchTypeCorrect` (ExecutionDispatch_proofs) | `[]DispatchTypeOK` | `ProcsAssumption` |
| `IntentsStartOnce` | `[]LocalStartsOnce` | the same |
| `StepsAreTrue` (Account_proofs) | `PurgeSafety => []StepsHold` (AccountPurge) | also `PurgeAssumption`, `DomainsAssumption` |
| `PurgeFollowsTheProtocol` | `PurgeSafety => DispatchSafety`: refinement | the same |
| `PurgesStartOnce` | `PurgeSafety => []LocalStartsOnce` | the same |
| `EffectsApplyOnce` (Access_proofs) | `[]AppliedOnce` | `IdempotencyAssumption` |
| `ClientsAreToldTheTruth` | `[]AnswersAreTrue` | the same |
| `FoldedRetriesReplay` | `RetriesReplay` | the same |
| `InvitesAreNotOversold` | `[]SeatsWithinCapacity` | `InviteAssumption` |
| `NobodyEntersUngranted` | `[]UnlockedByGrant` | the same |
| `SeatsAdmitOnce` | `[]SeatAdmitsOnce` | the same |
| `SocketsEndWithAccess` | `[]NoSocketOutlivesRestriction` | `AccessTimes` |
| `AdmittedSocketsKeepGeneration` | `AdmittedUnderOneGeneration` | the same |
| `NoChangeIsMissed` | `[]NothingIsMissed` | `DeliveryBounds` |
| `DeliveryTypeCorrect` | `[]DeliveryTypeOK` | `DeliveryBounds` |
| `CodesAreGuessedWithinLimits` (Account_proofs) | `[]GuessesAreLimited` | `OtpAssumption` |
| `ConsentsGiveOneChain` | `[]OneChainPerConsent` | `OAuthAssumption` |
| `ResetsEndTrust` | `[]ResetEndsTrust` | `VaultAssumption` |
| `VaultTriesAreLimited` | `[]TriesAreLimited` | the same |
| `SharesAreReleased` | `[]SharedAsReleased` | `ShareAssumption` |
| `PurgeTypeCorrect`, `OtpTypeCorrect`, `OAuthTypeCorrect`, `VaultTypeCorrect`, `ShareTypeCorrect` | the type invariants of the account's components | those above and `OtpBounds` |
| `AccountRunsItsParts` | `AccountSpec` implies the specification of each part | none |
| `AccountTypeCorrect` | `[]AccountTypeOK` | those of the parts |
| `CachedTreesAreExact` (Workspace_proofs) | `[]CacheIsExact` | none |
| `TasksStayAForest` | `[]ForestStaysSound` | `TreeBounds` |
| `SmallGroupsStayWhole` | `TreeSpec /\ []GroupsFitAPage => []GroupsStayWhole` | `TreeBounds`; the hypothesis `GroupsFitAPage` |
| `ConfirmedChangesStay` | `[]ConfirmedUntilFetched` | none |
| `BrowsersConverge` | `[]BrowserConverges` | `StoreBounds` |
| `SavedTextsArePublished` | `EditSpec => []SavedIsPublished` (DocEditing) | `EditingAssumption` |
| `SavesAreNotForgotten` | `EditSpec => NoSaveIsForgotten` | the same |
| `IndexStaysWhole` (SearchIndex_proofs) | `[]IndexIsWhole` | `SearchBounds`, `SearchMissing` |
| `CompleteAnswersCurrent` | `[]CompleteAnswersAreCurrent` | the same |
| `SearchTypeCorrect` | `[]SearchTypeOK` | the same |
| `RemindersNotifyOnce` (ReminderScan_proofs) | `[]NotifiedOnce` | `ReminderBounds`, `ReminderNoRow` |
| `RemindersMailOnce` | `[]ReceivedOnce` | the same |
| `SilencedRemindersAreNotSent` | `SilencedStaysSilent` | the same |
| `ReminderTypeCorrect` | `[]ReminderTypeOK` | the same |
| `ComponentsRunAlone` (Components_proofs) | `ComponentsSpec` implies the specification of each part | none |
| `ComponentsTypeCorrect` | `[]ComponentsTypeOK` | those of the parts |

**The history.** `LinearHistory` is not inductive: that the batch of a late copy finds the head
where its call saw it says nothing about `doc_commits` unless the commit it carries is the child of
that head. The invariant adds, for every call past `Prepare`, that its commit is one edit on top of
its base and that base and generation were read together; the deciding statement then compares
exactly what the invariant needs. The refinement follows from it: a delivered batch that decides is
one `Accept`, everything else stutters.

**Objects.** `ClockInv` bounds how far a call can be behind its own start (`MaxPrepare` until its
upload, `MaxPrepare + MaxUploadAge` until its batch). `ObjectsInv` adds that no object is older than
the call or the commit it belongs to (`ObjectsDated`); that a call which may still publish has its
objects or is too late to publish (`Held`); and that a collection pass holds only objects too old to
be published any more, and none that is published once it has read the references (`PassOK`). A
snapshot may be *older than the upload clock of the call that publishes it*, because equal commits
share a key; but a commit carries its date to the second, so every call that builds it started
then, and the snapshot's age is bounded by the longest call, not by `maxUploadAgeMs`. That is why the
collector needs `GraceCoversCalls`, a statement about durations (see above) that the theorem makes
explicit. `HeadsStayReadable` adds an order: a call that saw a later head began no earlier (`ReadsInOrder`). A
bundle leaves the kept window only by a publication two or more heads later (`KeepsOneBundle`; the
default keeps three, `orphans.ts:31`), whose call saw a later head than the reader; the collector counts
the grace period from that call's start (`PassDated`), so it deletes nothing before the reader's ends.
`RequestsPublishOnce` rests on `ClockInv` and on the request row of every publication
being kept for its retention.

**What a caller is told.** An answer can be wrong because the request row is gone, or because a copy
of the batch decides after the caller was answered. `TruthInv` excludes both: a request row tells of
a publication and is the only one of its id; the row of a published call is found while the call
lasts; and a call that was told of a conflict, or whose id had published after it read the head, is
behind the head for ever (`Behind`: heads never come back), so none of its copies can decide any
more. The first needs `RetentionCoversCalls`: request rows are kept for seven days
(`publisher.ts:66`), a call lasts minutes.

**Starts.** `starts.local <= 1` is not inductive either: `StartInv` adds that whoever is between the
marker and the start is alone, that the marker stands meanwhile, and that after a start nobody is
there and the marker stands for good. `MarkLocalStart` and `ReleaseLocalStart`, the only two writers
of the marker, are then the only interesting steps.

**The purge.** `StepsHold` says what a recorded step means; what makes it inductive is what the
runners know. `PurgeInv` adds that a runner takes only recorded steps for done, that a runner about
to record a step stands at the first step it does not know of, and that this step *is done*
(`WorkOK`, `StepDone`), which no step of anybody undoes: uploads that were let in before the deletion
are excepted, rows and listed objects only decrease. Steps are recorded in order because the
recorded ones are the first of `Order` and the markers differ (`RecordedPrefix`, `OrderInjective`):
whoever knows all steps before the one it records, and does not find that one recorded, appends the
next. `DomainsAssumption` says that each contributor has a domain of its own (`purge.ts:73`); the
runs evaluate it. That every step of the composition is a step of `DispatchNext` or a stutter
(`PurgeFollowsTheProtocol`) needs only that the task works while its run is active; what is proved
of the protocol then holds with the handlers at work.

**One key.** `IdemInv` adds to `AppliedOnce` and `AnswersAreTrue` where every attempt stands
(`AttemptsInv`: only one that was handled has taken effect), whose record it is (`RecordInv`: a
completed one belongs to an attempt that took effect) and why there is no second effect
(`AppliedInv`): on a folded route whatever took effect is recorded or its lifetime is over, on a
claimed one the audit event's id lets one attempt through.

**Seats and sockets.** `SeatsWithinCapacity` and `UnlockedByGrant` are nearly inductive; a seat
admits once because the grants made and the admissions counted are the same seats (`AdmissionsInv`).
No socket outlives a restriction for a longer reason, and `AccessInv` follows it through the hub:
what was committed but not yet noticed is still an effect to come (`EffectsInv`); a cached session is
current or younger than its time to live (`CacheInv`); an upgrade that is under way with an old
answer started early enough to be found stale when it connects (`UpgradesInv`); and a sweep's result
that may still be applied to a socket has a ticket above the socket's floor and is not older than
what was noticed (`ReadsInv`). `AccessTimes` is what makes the third part hold: the cache and the
longest upgrade fit into what the hub remembers.

**The topic.** `DeliveryInv` speaks of the log of a conversation's topic, the change at each sequence number of
its present life. For each client, what it holds and what is on its wire is one stream of frames:
every event is the one of the log at its number, a snapshot lacks only changes the log has after it
(`Covers`) and is not older than anything before it (`SnapshotsRise`), and the events after a
snapshot leave no number out (`NoGaps`). A live subscription's stream goes up to the last number, or
has a frame in it that makes the client ask again (`SubscriptionOK`); one whose snapshot is being
read holds back all that was published since. The buffer is the end of the log, so a replay that
`CanReplayAfter` lets begin continues a stream without a gap. After an eviction or a restart numbers
start above every cursor that was given out, because the clock counts for more than the changes made
(`MaxChanges < Rate` in `DeliveryBounds`): an old cursor is never taken for one of the new life.

**Guessed codes.** `attempts` of a code is the number of guesses it was given and only the newest
code is live (`CodesInv`). The limits of an address are subtler, since the batches of two requests
may arrive in either order with the times of their beginnings: the row counts all failures since the
last success and is locked once they are as many as a day allows, *until a day has passed since one
of those failures* (`AddressInv`). That is also what the property says. An earlier form bounded the
failures within any day by twice the daily number; with requests that arrive late three windows can
touch one day, so it was false for some constants, and the proof attempt is what showed it.

**One chain.** `LinksInv` says of each credential of a consent's chain that it was exchanged once if
it is consumed and never otherwise, and that one presented again leaves the grant over; `LastInv`
that only the last is unconsumed. A consumed credential is deleted only with the grant over, for
which a refresh token must live as long as its grant.

**The vault.** What is open was opened under the present version, and a request for a grant has the
version of its session (`TrustInv`). For the limits, each period has its balance (`PeriodOK`): the
wrong tries and the reservations that a right passphrase may still give back were counted, except
for what late refunds of an earlier period took off.

**Shares.** A proposal is released by at most one grant, of its head (`ReleasedInv`); everything
served was served by an active grant to a reader who was authorized in it (`ServedInv`); and, for
each window and each day, wrong passwords and the reservations that may be given back do not exceed
what is counted (`TriesInv`). A reservation is given back to the period it was taken from, which is
why this balance, unlike the vault's, needs no late refunds.

**The cached tree.** A cache entry is exact because a write compares the version it planned on with
the stored one and only then applies the same change to both (`CacheInv`, `WriteOK`): a plan whose
version is still the stored one was made on the stored tree, and whoever loses the comparison
replaces its entry by what it reads.

**The forest.** A move looks for a cycle, and a move, a creation and a restore check the depth, in
the state they are *planned* from, which may be old: the tree may have moved on, a rename commits under
the version of its row only, and a restore puts back rows that were archived under another parent.
`ForestInv` therefore adds to `CacheInv` the rows of every version so far: each was a forest
(`ForestOK`: every active task has a rank, one more than its active parent's, below the limit, and its
parent's collection), no row of it is newer than the present one and none of the same version
differs (`Older`); every state that is cached, read or planned from has the rows of its version
(`AsAt`), and what a plan makes of those rows is again a forest (`PlanFits`). The batch then applies the
whole plan to the version it was made from, or bumps the one row that is as it was. That each plan
keeps the forest is about the operators of TaskTree: ranks are depths (`RankIsDepth`), a move and a
restore shift the ranks of a subtree, whose height they have checked. Their recursive functions
are unfolded without an induction rule: the function is shown to exist (`StepsExist`, `Maps`), and
what holds of all ranks or depths is a set of numbers that contains 0 and is closed under successor
(`NumbersReached`). The proof found an omission of the model: without the depth check of a restore
(`plans.ts:923`), a group that was archived in parts could be restored below the limit.

**The groups.** A restore activates the members of a group that its state knows, so a member that the
cached tree does not know stays archived behind a root that came back. `GroupInv` says that this
cannot arise: the root of every group is archived, and the others hang below it (`GroupsOK`; ranks
again, so that a restore, which collects members along parent links, reaches all of them), and every
state that is cached or being read knows all members of a group or none (`Closed`). A load by
identifiers fetches whole groups, and merging the memory of a cached tree with a newer read keeps
`Closed` because both hold the rows of one version (`ForestInv`). Only a page of the archive may show
a part of a group, at most `MembersPerGroup` of it. The code limits the page
(`ARCHIVE_MEMBERS_PER_GROUP`, `archive.ts:23`) and not the group, so the theorem has the missing limit as a
hypothesis, `GroupsFitAPage`, and the run `restore` shows what happens without it.

**The browser.** A confirmed change disappears from the list only when a fetch that began after its
confirmation has answered (`StoreInv`). Each entry and each fetch under way keeps the confirmed
changes it does not contain yet (`ViewsOK`, `ConfirmedOK`), and a change is dropped only with a
fetch whose sequence lies above it (`DroppedOK`).

That a browser at rest is right is no invariant of a single view, so `CatchUpInv` says where the
newest version a view has to show *is* while it does not show it (of a list the tree's, of a detail
the last one whose event names it): with a commit that is not announced, on the way to the socket or
due at the next connection (`OnTheWay`), or else it is known, and then the view, if it is loaded,
shows it, is being fetched at it, or will ask again (`CatchesUp`). Likewise for what a confirmed
change waits for (`Awaited`). Both rest on the cache holding nothing older than what is
known, which is where the recorded mishaps come in: a late `TaskTreeCache.set`, a lost announcement,
a snapshot without the version, a failed fetch and an abandoned walk each break one part. `again` of `refresh` is what carries the
two predicates through a request that was started too early.

**The editor.** A session that is not dirty shows the revision it is based on (`EditorOK`); "saved"
is only ever set on such a one. The delicate case is the answer to a save: it may be a replay of an
earlier request with the same key, and text typed meanwhile makes the buffer differ. `CallOK` says
that the revision an answer names has the text that *this* call carried, which for a replay rests on
`RecordOK`: the stored fingerprint is of the text that was published. Histories only grow, so an
answer read late is still right.

No save is forgotten because every answer leaves a session saved, failed or with its timer running
(`Heeded`), and because a session at rest, neither dirty nor saving, says one of the two (`Quiet`):
this is where a merge that fails, a retry that is given up and a draft put back are decided.

**The search index.** `IndexIsWhole` says what the stored row must be; the argument is about the
writers that may still replace it. A writer that started from the row still published may win, so
the contents it folds may lack only what an open intent above its own names (`FoldOK`); one that
started from an older row loses the comparison. A write id belongs to one writer until its batch is
on the way (`IdOK`, `OwnIds`), and what a writer may still remove is not what is published
(`EndOK`), which is why a sweep cannot take the object of a publication whose answer was lost. A
batch that lands late is as good as the writer that lost sight of it (`LandOK`). A query's overlay
is complete only if it is all that was open when the query read its row (`PendingOK`): the index and
the intents move in one batch, so a query that read the row before the batch and the intents after
it must find that intents are missing.

**Reminders.** A reminder that is undecided or still to come was announced no more often than an edit
recreated it after it had come due under way (`OnceOK`); what was due
when the edit was planned it keeps only by a proof that it was decided, and an opt-out moves the
version on which the edit's batch depends (`EditOK`). All deliveries of one occurrence, also those
whose row an edit has replaced, agree on the time of its first attempt (`KeysOK`), they claim only
within the window that begins there (`JobOK`), and no mail is older (`ProviderOK`): a request that
arrives within the window finds the first mail in a memory that lasts as long. Only one that stalls
past the window can be a second mail; `ReceivedOnce` counts these apart.

**Types and limits.** The type invariants of the two suites bound numbers and queues as well as sets,
and most of those bounds are not inductive. That a client applies no change that was not committed
needs `DeliveryInv`. That no more generations of the index are published than runs were started needs
the generation of every row that a run still builds on (`GenerationsBounded`). One entry of missed
reminders at most is open because a batch that would open a second fails (`EntriesOK`;
`notifications_unread_missed`). The version of a vault is one more than the authorizations that were
used (`VaultBounded`). The parts of a suite share no variable:
`AccountRunsItsParts` and `ComponentsRunAlone` show that a step of one is a stutter of the others, so
every theorem about a component holds in its suite.

### Only model-checked

- `GroupsStayWhole` of groups larger than a page of the archive: false, as the run `restore` shows.
- Liveness (`EventuallyDispatched`, `PurgedInLocalMode`, `SavesSettle`): beyond the prover, which
  has no rules for fairness and `ENABLED` here.

## Disagreements with the documentation

Each of the first five is a run that finds a counterexample to a sentence of the repository;
`PROJECT.json` quotes it.

1. `overwrite`: "Nothing was overwritten. Review the changes and choose what to keep."
   (`messages.ts:55`). While a review is open the page may save once more; the base has not moved, so
   the conflict this save meets has the same base and the review stays as it is with the newer head
   (`use-document.ts:590-600`). Applying it publishes the old plan on that head (`:760`): a revision
   that lacks the text of the one before it. A merge's own conflict does not do this: its base is the
   revision it was merged onto, and the review is closed (`:768`, `:819`).
2. `covered`: "Removes the draft when it is not newer than `clientSeq` (a save covered it)."
   (`drafts.ts:120`). A sequence does not tell which text is newer: a save carries the sequence of the
   last draft write (`use-document.ts:776`), and draft writes are throttled. A merge that its session
   gave up lands after a newer text, sent under the same sequence, was kept as the candidate, and
   deletes it; no revision has that text.
3. `seats`: "so the person is never left behind the gate" (`profile.ts:98`). A seat claimed by an
   account that still has the grant an administrator gave it in the middle of a campaign's revocation
   is never finalized (`redemption.ts:198`).
4. `restore`: "Restores an archived task and its subtasks archived with it" (`tasks/service.ts:509`).
   A restore planned from a cache into which one page of the archive was merged restores the members
   that page knew.
5. `left_over`: "the stored copies are erased" (`delete-account.tsx:275`). An upload of a
   publication that began before the deletion may land after the listing that found the prefix
   empty; the object is unreadable (its key is destroyed) but stays.

Read while modelling, without a run of their own:

- `document.read_only` is described as final ("nothing was published and retrying cannot help",
  `publisher.ts:791`). The task is archived when the second copy of a batch is refused, restored, and
  then the first copy lands and publishes. `Truthful` leaves this answer out.
- "An intent starts at most one execution" (`dispatcher.ts:44`). A switch to durable mode between a
  local start and `markDispatched` rebinds the pending intent, and the Trigger claim does not look at
  `local_started_at`. Kinds are idempotent, so this is duplicated effort; `LocalStartsOnce` is what
  holds.
- "In durable mode the `account-purge` Trigger task owns the purge" (`account-purge.module.ts:86`). A
  purge dispatched in local mode and unfinished when the deployment is switched is `dispatched`,
  which rebinding leaves alone, and nothing resumes pending purges in durable mode.
- `docs/notes/files/15_deadlines_reminders_calendar.md:27` counts every skipped reminder in the
  missed entry; one that an edit retires between its claim and the decision is not counted.
- `docs/notes/files/15_deadlines_reminders_calendar.md:27` "Do not repeatedly nag": an edit of the
  schedule keeps what is decided by a proof, and it takes proofs of what is due when it is planned
  (`scheduling/service.ts:322-332`). A reminder that comes due and is delivered before the edit's
  batch is recreated and announced again (the test `scanner.test.ts:130` has one that is already due).
  `NotifiedOnce` allows one notification more for each such edit.
- The retry window of a mail and the memory of the provider are both 24 hours (`scanner.ts:300`,
  `:388`). A request that is claimed within the window and stalls past it may be sent as a second
  mail; `ReceivedOnce` leaves these out. Nor does the number of attempts bound a scanner that claims,
  stops and claims again.
- The entry of missed reminders that a claim saw may be dismissed before the batch, which then adds a
  newly missed reminder to it (`scanner.ts:114`, `:178`). An edit is not fenced against an archive and a restore that both happen while it
  is under way, so `SilencedStaysSilent` lets it end a halt.
- An event of the tree refetches the open details of the tasks it names (`task-store.ts:381`). A
  creation does not name the parent, whose detail counts the child (`plans.ts:421`), nor a rename the
  descendants whose path it is part of; a worker's hint is cut at 200 tasks
  (`workspace.events.ts:126`). These details stay as they were until something else fetches them;
  `workspace/events.ts:8` promises the tasks whose rows changed, and that is what `BrowserConverges` is about.
- A snapshot of the user topic is sent although a contributor failed, and then says version 0
  (`topic-hub.ts:725-736`), at which no list is fetched: a mishap of `BrowserConverges`.
- `drafts.ts:60-63` says that an older sequence loses, the statement (line 99) accepts an equal one.
- `otp.ts:21` speaks of a "rolling hour window"; the windows tumble, and up to twice the limit falls
  into one hour around a boundary. `GuessesAreLimited` states what holds.
- `vault/sessions.ts:152` "Success refunds only its own reservation": a refund after the window was
  reset lowers the new window's count. `TriesAreLimited` has the term `lateRefunds` for it.
- "so all devices converge on the server's order" (`task-store.ts:107`), "keeps the tree cache exact
  or evicts it" (`workspace.events.ts:53`). `TaskTreeCache.set` replaces whatever is there
  (`tasks/state.ts:116`): a tree that `state()` read from D1 before a write is stored after the write
  was announced and its entry evicted; the refetch the announcement caused is then answered with the
  older tree, and nothing makes the browser fetch again until the entry expires and something else
  asks. A walk over pages that was overtaken four times shows its first page as the whole list, with
  the current version, so that no later announcement of that version refreshes it (`:263`).
  `BrowserConverges` leaves both out (`mishaps`), as it does failed fetches, commits announced to
  nobody and snapshots without a version.
- "`apply` must be idempotent" (`task-store.ts:54`): the child count that `create` adds to a detail
  and the task counts of labels are counted up once more while another view still waits.

## Not modelled

- **Git, hashing, encryption, Markdown.** A commit is its history and an envelope the value it
  seals; what the operations compute is out of scope, that they are functions of their inputs is
  assumed.
- **Statements that ride in a batch of another component** (search intents, activity rows, outbox
  events): their atomicity with the batch is D1's; the modules that own their rows begin with them.
- **Scheduling**: recurrence of minutes and time zones, quiet hours and their summaries, webhooks of
  the provider, snoozing. **Sessions** after a sign-in. **OAuth** access tokens, tool calls,
  registration, metadata documents. **Vault** items, expiry of value grants, cleanup of ended
  sessions. **Shares**: expiry, readers from several addresses, upload and collection of snapshots.
- **Labels, sibling order** (fractional index), **agent document reads**, **search ranking**,
  Markdown rendering, e-mail templates: pure functions over texts and numbers.
- **HTTP guards, user interface, desktop shell, D1 client** (token bucket, breaker): no state shared
  with a protocol above beyond its contract, which every model has.

## Plan

In the order in which they would add most:

| # | what | over | properties aimed at |
|---|---|---|---|
| 1 | `GitSlots` (`git/service.ts:90`), durable Git jobs | publication | no slot lost; a job publishes once |
| 2 | `DesktopSession`, the vault panel | VaultAccess | the shown state follows the session |
| 3 | `RateLane`, `FractionalIndex` | | budgets; order keys against a reference definition |
