--------------------------- MODULE DocPublication ---------------------------
(***************************************************************************)
(* The publication protocol of one task document: DocumentPublisher writes *)
(* encrypted artifacts to the object store (R2) and then moves the head in *)
(* the database (D1) with one conditional batch; DocumentOrphanCollector   *)
(* deletes artifacts that D1 does not reference.  There is no transaction  *)
(* across the two stores, processes crash, and the answer to a batch may   *)
(* be lost while the batch is applied, or is applied late.                 *)
(*                                                                         *)
(* A commit id is the hash of the commit's tree, parent, message and date, *)
(* so a commit is represented by its history: the sequence of its edits.   *)
(* <<>> stands for "no published document" (a null base or a missing row). *)
(***************************************************************************)
EXTENDS Integers, Sequences, FiniteSets

CONSTANTS
  Attempts,      \* calls of DocumentPublisher.publish; each has its own write id
  Requests,      \* request ids callers use (scope and id together)
  Contents,      \* document texts
  Secs,          \* seconds inside one tick: the part of a commit date ticks do not show
  Empty,         \* the empty text, a member of Contents or not
  None,          \* "no object", "no bundle", "no attempt"
  Grace,         \* OrphanCollectionOptions.graceMs, in ticks
  MaxUploadAge,  \* DocumentPublisherOptions.maxUploadAgeMs, in ticks
  KeepBundles,   \* OrphanCollectionOptions.keepBundles
  MaxPrepare,    \* longest time from the start of a call to its first upload
  MaxExchange,   \* longest time from the age check to the last step of the exchange with D1
  Retention,     \* PublicationLimits.requestRetentionMs, in ticks
  MaxTime,       \* bound of the checked instance: the clock stops here
  MaxGen         \* bound of the checked instance: publications

ASSUME TimeAssumption ==
  /\ Grace \in Nat /\ MaxUploadAge \in Nat /\ MaxPrepare \in Nat
  /\ MaxExchange \in Nat /\ Retention \in Nat /\ KeepBundles \in Nat
  /\ MaxTime \in Nat /\ MaxGen \in Nat

ASSUME NoneAssumption == None \notin Attempts /\ None \notin Int

VARIABLES
  now,       \* the clock every process and the object store read
  active,    \* the task is active and its owner admitted (DocumentAccessContext)
  repo,      \* the task's doc_repos row
  commits,   \* doc_commits
  requests,  \* doc_publish_requests
  bundles,   \* upload time of each attempt's bundle object, None when there is none
  snaps,     \* snapshot objects: commit and upload time
  att,       \* the attempts
  wire,      \* <<attempt, copy>>: publication batches sent and not yet applied or lost
  col        \* the orphan collector's pass

vars == <<now, active, repo, commits, requests, bundles, snaps, att, wire, col>>
d1   == <<active, repo, commits, requests>>
r2   == <<bundles, snaps>>

-----------------------------------------------------------------------------
(* Types *)

Edit     == [content : Contents, at : 0 .. MaxTime, sec : Secs]
Commit   == Seq(Edit)
Input    == [base : Commit, content : Contents]
RepoRow  == [head : Commit, gen : Nat, bundle : Attempts \cup {None}]
CommitRow == [commit : Commit, parent : Commit, gen : Nat, bundle : Attempts,
              publishedAt : Nat]
RequestRow == [req : Requests, input : Input, commit : Commit, expires : Nat]
Snapshot == [commit : Commit, up : Nat]

NoRepo == [head |-> <<>>, gen |-> 0, bundle |-> None]

Phases == {"idle", "read", "prepared", "bundled", "uploaded", "sent",
           "unknown", "resend", "resent", "diagnose", "done"}

Outcomes == {"none", "published", "replayed", "unchanged", "conflict", "mismatch",
             "denied", "integrity", "stale", "readonly", "unknown", "error"}

Attempt == [pc : Phases, out : Outcomes, req : Requests \cup {None}, base : Commit,
            content : Contents \cup {None}, at : 0 .. MaxTime, sec : Secs \cup {None},
            seen : RepoRow, commit : Commit, began : Nat, sent : Nat]

TypeOK ==
  /\ now \in 0 .. MaxTime
  /\ active \in BOOLEAN
  /\ repo \in RepoRow
  /\ commits \subseteq CommitRow
  /\ requests \subseteq RequestRow
  /\ bundles \in [Attempts -> Nat \cup {None}]
  /\ snaps \subseteq Snapshot
  /\ att \in [Attempts -> Attempt]
  /\ \A a \in Attempts : att[a].pc # "idle" =>
       att[a].req \in Requests /\ att[a].content \in Contents /\ att[a].sec \in Secs
  /\ wire \subseteq {a \in Attempts : att[a].pc # "idle"} \X {1, 2}
  /\ col \in [pc : {"idle", "listed", "deleting"}, now : Nat,
              bundles : SUBSET Attempts, snaps : SUBSET Commit]

-----------------------------------------------------------------------------
(* Helpers *)

IdleAttempt == [pc |-> "idle", out |-> "none",
                req |-> None, base |-> <<>>, content |-> None, at |-> 0, sec |-> None,
                seen |-> NoRepo, commit |-> <<>>, began |-> 0, sent |-> 0]

InputOf(a) == [base |-> att[a].base, content |-> att[a].content]

Recorded(r) == {q \in requests : q.req = r}

Stored(c) == {s \in snaps : s.commit = c}

Becomes(a, pc, out) == [att EXCEPT ![a].pc = pc, ![a].out = out]

Prefixes(s) == {SubSeq(s, 1, n) : n \in 0 .. Len(s)}

(***************************************************************************)
(* What a read of the request row decides for attempt a when the row       *)
(* exists: an exact retry returns the recorded publication, any other      *)
(* input under the same request id is refused.                             *)
(***************************************************************************)
ReplayOutcome(i, q) == IF q.input = i THEN "replayed" ELSE "mismatch"

-----------------------------------------------------------------------------
Init ==
  /\ now = 0
  /\ active = TRUE
  /\ repo = NoRepo
  /\ commits = {}
  /\ requests = {}
  /\ bundles = [a \in Attempts |-> None]
  /\ snaps = {}
  /\ att = [a \in Attempts |-> IdleAttempt]
  /\ wire = {}
  /\ col = [pc |-> "idle", now |-> 0, bundles |-> {}, snaps |-> {}]

-----------------------------------------------------------------------------
(* DocumentPublisher.publish *)

(***************************************************************************)
(* The outcome of one read batch before any work: access, the request row, *)
(* then the expected base against the head.  "read" means: go on.          *)
(***************************************************************************)
FirstRead(i, r) ==
  IF ~active THEN "denied"
  ELSE IF \E q \in Recorded(r) : TRUE
       THEN ReplayOutcome(i, CHOOSE q \in Recorded(r) : TRUE)
  ELSE IF repo.head # i.base THEN "conflict" ELSE "read"

Start(a) ==
  /\ att[a].pc = "idle"
  /\ \E r \in Requests, c \in Contents, s \in Secs, b \in Prefixes(repo.head) :
       LET first == FirstRead([base |-> b, content |-> c], r)
       IN att' = [att EXCEPT ![a] =
            [pc |-> IF first = "read" THEN "read" ELSE "done",
             out |-> IF first = "read" THEN "none" ELSE first,
             req |-> r, base |-> b, content |-> c, at |-> now, sec |-> s,
             seen |-> IF first = "read" THEN repo ELSE NoRepo,
             commit |-> <<>>, began |-> 0, sent |-> 0]]
  /\ UNCHANGED <<now, d1, r2, wire, col>>

(***************************************************************************)
(* Reconstruct the head from its bundle, compare it with its snapshot,     *)
(* apply the edit and create the child commit.                             *)
(***************************************************************************)
CurrentContent(a) ==
  IF att[a].base = <<>> THEN Empty ELSE att[a].base[Len(att[a].base)].content

HeadReadable(a) ==
  att[a].base # <<>> =>
    /\ att[a].seen.bundle \in Attempts
    /\ bundles[att[a].seen.bundle] # None
    /\ Stored(att[a].base) # {}

\* Faulty variant: the new commit has no parent.
Prepare_RootCommit(a) ==
  /\ att[a].pc = "read" /\ HeadReadable(a)
  /\ att' = [att EXCEPT ![a].pc = "prepared",
                        ![a].commit = <<[content |-> att[a].content,
                                         at |-> att[a].at, sec |-> att[a].sec]>>]
  /\ UNCHANGED <<now, d1, r2, wire, col>>

Prepare(a) ==
  /\ att[a].pc = "read"
  /\ att' = IF ~HeadReadable(a) THEN Becomes(a, "done", "integrity")
            ELSE IF att[a].content = CurrentContent(a) THEN Becomes(a, "done", "unchanged")
            ELSE [att EXCEPT
                   ![a].pc = "prepared",
                   ![a].commit = Append(att[a].base, [content |-> att[a].content,
                                                      at |-> att[a].at, sec |-> att[a].sec])]
  /\ UNCHANGED <<now, d1, r2, wire, col>>

(***************************************************************************)
(* putBundle: the key holds the attempt's own write id, so the object is   *)
(* always new.  The upload clock starts here.                              *)
(***************************************************************************)
PutBundle(a) ==
  /\ att[a].pc = "prepared"
  /\ now - att[a].at <= MaxPrepare
  /\ bundles' = [bundles EXCEPT ![a] = now]
  /\ att' = [att EXCEPT ![a].pc = "bundled", ![a].began = now]
  /\ UNCHANGED <<now, d1, snaps, wire, col>>

(***************************************************************************)
(* putSnapshot: the key is the commit id, so an earlier attempt at the     *)
(* same commit may have stored it; the existing object is kept as it is.   *)
(***************************************************************************)
PutSnapshot(a) ==
  /\ att[a].pc = "bundled"
  /\ snaps' = IF Stored(att[a].commit) # {} THEN snaps
              ELSE snaps \cup {[commit |-> att[a].commit, up |-> now]}
  /\ att' = [att EXCEPT ![a].pc = "uploaded"]
  /\ UNCHANGED <<now, d1, bundles, wire, col>>

(***************************************************************************)
(* Uploads held longer than maxUploadAgeMs are given up; otherwise the     *)
(* batch is sent.                                                          *)
(***************************************************************************)
\* Faulty variant: no age check before the batch.
Send_AnyAge(a) ==
  /\ att[a].pc = "uploaded"
  /\ att' = [att EXCEPT ![a].pc = "sent", ![a].sent = now]
  /\ wire' = wire \cup {<<a, 1>>}
  /\ UNCHANGED <<now, d1, r2, col>>

Send(a) ==
  /\ att[a].pc = "uploaded"
  /\ IF now - att[a].began > MaxUploadAge
     THEN /\ att' = Becomes(a, "done", "stale")
          /\ UNCHANGED wire
     ELSE /\ att' = [att EXCEPT ![a].pc = "sent", ![a].sent = now]
          /\ wire' = wire \cup {<<a, 1>>}
  /\ UNCHANGED <<now, d1, r2, col>>

(***************************************************************************)
(* The publication batch at D1.  Its deciding statement moves the head     *)
(* only while base, generation, request id and the caller's guards hold;   *)
(* the other rows are written only while the head carries this attempt's   *)
(* write id, and their primary keys make a second copy of an applied batch *)
(* fail as a whole.                                                        *)
(***************************************************************************)
\* Faulty variant: the batch carries no caller guards.
Decides_Unguarded(a) ==
  /\ Recorded(att[a].req) = {}
  /\ repo.head = att[a].base
  /\ repo.gen = att[a].seen.gen

Decides(a) ==
  /\ active
  /\ Recorded(att[a].req) = {}
  /\ repo.head = att[a].base
  /\ repo.gen = att[a].seen.gen

Clashes(a) ==
  /\ Decides(a) \/ repo.bundle = a
  /\ \E c \in commits : c.commit = att[a].commit \/ c.gen = att[a].seen.gen + 1

Reply(a) == IF Clashes(a) THEN "error" ELSE IF Decides(a) THEN "applied" ELSE "refused"

\* Faulty variant: the generation is not advanced.
ApplyBatch_SameGeneration(a) ==
  /\ repo' = [head |-> att[a].commit, gen |-> att[a].seen.gen, bundle |-> a]
  /\ commits' = commits \cup {[commit |-> att[a].commit, parent |-> att[a].base,
                                gen |-> att[a].seen.gen, bundle |-> a,
                                publishedAt |-> att[a].at]}
  /\ requests' = requests \cup {[req |-> att[a].req, input |-> InputOf(a),
                                  commit |-> att[a].commit,
                                  expires |-> att[a].at + Retention]}

ApplyBatch(a) ==
  LET gen == att[a].seen.gen + 1
  IN /\ repo' = [head |-> att[a].commit, gen |-> gen, bundle |-> a]
     /\ commits' = commits \cup {[commit |-> att[a].commit, parent |-> att[a].base,
                                  gen |-> gen, bundle |-> a, publishedAt |-> att[a].at]}
     /\ requests' = requests \cup {[req |-> att[a].req, input |-> InputOf(a),
                                    commit |-> att[a].commit,
                                    expires |-> att[a].at + Retention]}

(***************************************************************************)
(* A copy reaches D1; one that is never delivered is lost.  The attempt    *)
(* hears the answer only when it is still waiting for that copy; otherwise *)
(* the batch took effect, or did not, behind its back.                     *)
(***************************************************************************)
AwaitsCopy(a, c) == att[a].pc = (IF c = 1 THEN "sent" ELSE "resent")

Heard(a, reply) ==
  CASE reply = "applied" -> Becomes(a, "done", "published")
    [] reply = "refused" -> Becomes(a, "diagnose", "none")
    [] reply = "error"   -> Becomes(a, "done", "error")

Deliver(a, c) ==
  /\ <<a, c>> \in wire
  /\ now - att[a].sent <= MaxExchange
  /\ Reply(a) = "applied" => repo.gen < MaxGen
  /\ wire' = wire \ {<<a, c>>}
  /\ IF Reply(a) = "applied" THEN ApplyBatch(a) ELSE UNCHANGED <<repo, commits, requests>>
  /\ \/ AwaitsCopy(a, c) /\ att' = Heard(a, Reply(a))
     \/ UNCHANGED att
  /\ UNCHANGED <<now, active, r2, col>>

(***************************************************************************)
(* DbUnknownOutcomeError: the first one is reconciled, the second one is   *)
(* thrown to the caller.                                                   *)
(***************************************************************************)
Timeout(a) ==
  /\ \/ att[a].pc = "sent"   /\ att' = Becomes(a, "unknown", "none")
     \/ att[a].pc = "resent" /\ att' = Becomes(a, "done", "unknown")
  /\ UNCHANGED <<now, d1, r2, wire, col>>

\* Faulty variant: the head is compared, the request row is not looked up.
Reconcile_HeadOnly(a) ==
  /\ att[a].pc = "unknown"
  /\ now - att[a].sent <= MaxExchange
  /\ att' = IF repo.head = att[a].base THEN Becomes(a, "resend", "none")
            ELSE Becomes(a, "done", "conflict")
  /\ UNCHANGED <<now, d1, r2, wire, col>>

Reconcile(a) ==
  /\ att[a].pc = "unknown"
  /\ now - att[a].sent <= MaxExchange
  /\ att' =
       IF ~active THEN Becomes(a, "done", "denied")
       ELSE IF \E q \in Recorded(att[a].req) : TRUE
            THEN LET q == CHOOSE q \in Recorded(att[a].req) : TRUE
                 IN IF q.commit = att[a].commit /\ repo.head = att[a].commit
                    THEN Becomes(a, "done", "published")
                    ELSE Becomes(a, "done", ReplayOutcome(InputOf(a), q))
       ELSE IF repo.head = att[a].base /\ repo.gen = att[a].seen.gen
            THEN Becomes(a, "resend", "none")
       ELSE Becomes(a, "done", "conflict")
  /\ UNCHANGED <<now, d1, r2, wire, col>>

Resend(a) ==
  /\ att[a].pc = "resend"
  /\ wire' = wire \cup {<<a, 2>>}
  /\ att' = Becomes(a, "resent", "none")
  /\ UNCHANGED <<now, d1, r2, col>>

(***************************************************************************)
(* Why a batch applied nothing, from a fresh read.                         *)
(***************************************************************************)
Diagnose(a) ==
  /\ att[a].pc = "diagnose"
  /\ now - att[a].sent <= MaxExchange
  /\ LET first == FirstRead(InputOf(a), att[a].req)
     IN att' = Becomes(a, "done", IF first = "read" THEN "readonly" ELSE first)
  /\ UNCHANGED <<now, d1, r2, wire, col>>

-----------------------------------------------------------------------------
(* DocumentOrphanCollector and DocumentMaintenance *)

Old(up) == up # None /\ up + Grace < now

(***************************************************************************)
(* A pass over a task that lists no old object reads and deletes nothing,  *)
(* so only passes with a candidate are taken.                              *)
(***************************************************************************)
ListObjects ==
  /\ col.pc = "idle"
  /\ \E a \in Attempts, s \in snaps \cup {[up |-> None]} : Old(bundles[a]) \/ Old(s.up)
  /\ col' = [pc |-> "listed", now |-> now,
             bundles |-> {a \in Attempts : Old(bundles[a])},
             snaps |-> {s.commit : s \in {t \in snaps : Old(t.up)}}]
  /\ UNCHANGED <<now, d1, r2, att, wire>>

(***************************************************************************)
(* A bundle row is referenced while it is one of the last KeepBundles      *)
(* besides the head, or while the publication that pushed it out of that   *)
(* window is younger than the grace period.                                *)
(***************************************************************************)
RecentBundle(c) == c.gen >= repo.gen - KeepBundles

\* Faulty variant: off by one in the generation that supersedes c.
SupersededRecently_OffByOne(c) ==
  \A n \in commits : n.gen = c.gen + KeepBundles => n.publishedAt >= col.now - Grace

SupersededRecently(c) ==
  \A n \in commits : n.gen = c.gen + KeepBundles + 1 => n.publishedAt >= col.now - Grace

NeverSuperseded(c) == \A n \in commits : n.gen # c.gen + KeepBundles + 1

ReferencedBundles ==
  {repo.bundle} \cup
  {c.bundle : c \in {d \in commits : \/ RecentBundle(d)
                                     \/ NeverSuperseded(d)
                                     \/ SupersededRecently(d)}}

ReferencedSnapshots == {c.commit : c \in commits}

ReadReferences ==
  /\ col.pc = "listed"
  /\ col' = [col EXCEPT !.pc = "deleting",
                        !.bundles = @ \ ReferencedBundles,
                        !.snaps = @ \ ReferencedSnapshots]
  /\ UNCHANGED <<now, d1, r2, att, wire>>

DeleteBundle(a) ==
  /\ col.pc = "deleting" /\ a \in col.bundles
  /\ bundles' = [bundles EXCEPT ![a] = None]
  /\ col' = [col EXCEPT !.bundles = @ \ {a}]
  /\ UNCHANGED <<now, d1, snaps, att, wire>>

DeleteSnapshot(c) ==
  /\ col.pc = "deleting" /\ c \in col.snaps
  /\ snaps' = snaps \ Stored(c)
  /\ col' = [col EXCEPT !.snaps = @ \ {c}]
  /\ UNCHANGED <<now, d1, bundles, att, wire>>

(***************************************************************************)
(* The pass ends: every victim is deleted, a bound stopped it, or it       *)
(* crashed.                                                                *)
(***************************************************************************)
EndPass ==
  /\ col.pc # "idle"
  /\ col' = [pc |-> "idle", now |-> 0, bundles |-> {}, snaps |-> {}]
  /\ UNCHANGED <<now, d1, r2, att, wire>>

\* Faulty variant: rows are removed before they expire.
ExpireRequests_Early ==
  /\ \E gone \in (SUBSET requests) \ {{}} : requests' = requests \ gone
  /\ UNCHANGED <<now, active, repo, commits, r2, att, wire, col>>

ExpireRequests ==
  LET expired == {q \in requests : q.expires <= now}
  IN /\ \E gone \in (SUBSET expired) \ {{}} : requests' = requests \ gone
     /\ UNCHANGED <<now, active, repo, commits, r2, att, wire, col>>

-----------------------------------------------------------------------------
(* Environment *)

ArchiveOrRestore ==
  /\ active' = ~active
  /\ UNCHANGED <<now, repo, commits, requests, r2, att, wire, col>>

Tick ==
  /\ now < MaxTime
  /\ now' = now + 1
  /\ UNCHANGED <<d1, r2, att, wire, col>>

Publisher(a) ==
  \/ Start(a) \/ Prepare(a) \/ PutBundle(a) \/ PutSnapshot(a) \/ Send(a)
  \/ Timeout(a) \/ Reconcile(a) \/ Resend(a) \/ Diagnose(a)

Network(a) == \E c \in {1, 2} : Deliver(a, c)

Collector ==
  \/ ListObjects \/ ReadReferences \/ EndPass \/ ExpireRequests
  \/ \E a \in Attempts : DeleteBundle(a)
  \/ \E c \in col.snaps : DeleteSnapshot(c)

Next ==
  \/ \E a \in Attempts : Publisher(a) \/ Network(a)
  \/ Collector
  \/ ArchiveOrRestore
  \/ Tick

Spec == Init /\ [][Next]_vars

-----------------------------------------------------------------------------
(* Properties *)

(***************************************************************************)
(* D1 holds one linear history: the head's generation counts its commits,  *)
(* and doc_commits has exactly one row per generation, naming the prefix   *)
(* of the head history that generation published and its parent.           *)
(***************************************************************************)
LinearHistory ==
  /\ repo.gen = Len(repo.head)
  /\ \A c \in commits : /\ c.gen \in 1 .. repo.gen
                        /\ c.commit = SubSeq(repo.head, 1, c.gen)
                        /\ c.parent = SubSeq(repo.head, 1, c.gen - 1)
  /\ \A n \in 1 .. repo.gen : \E c \in commits : c.gen = n
  /\ \A c, d \in commits : c.gen = d.gen => c = d

(***************************************************************************)
(* Retries, duplicates and resent batches publish at most one commit per   *)
(* request id, whatever base and text they carry, until the request row    *)
(* has been kept for its retention: a later commit under the same id can   *)
(* only come from a call that was still running when the row expired, or   *)
(* started after that.                                                     *)
(***************************************************************************)
LongestCall == MaxPrepare + MaxUploadAge + MaxExchange

RequestOnce ==
  \A c, d \in commits :
    att[c.bundle].req = att[d.bundle].req /\ c.gen < d.gen =>
      d.publishedAt + LongestCall >= c.publishedAt + Retention

(***************************************************************************)
(* What the caller is told is true, now and for ever: a reported           *)
(* publication is in the history, and after a conflict or a refusal that   *)
(* names no uncertainty, this call's own commit is not and never will be.  *)
(* A conflict moreover means that no call of the same submission got in    *)
(* whose request row is still kept.                                        *)
(***************************************************************************)
SameSubmission(a, b) == att[a].req = att[b].req /\ InputOf(a) = InputOf(b)

Truthful ==
  \A a \in Attempts :
    /\ att[a].out \in {"published", "replayed"} =>
         \E c \in commits : SameSubmission(c.bundle, a)
    /\ att[a].out \in {"conflict", "mismatch", "stale", "unchanged", "integrity"} =>
         \A c \in commits : c.bundle # a
    /\ att[a].out = "conflict" =>
         \A q \in Recorded(att[a].req) : q.input # InputOf(a)

(***************************************************************************)
(* The head never points at an object that is not there: the head bundle   *)
(* and the snapshot of every published commit exist, whatever the          *)
(* collector deletes and however long a publication held its uploads.      *)
(***************************************************************************)
NoDanglingObjects ==
  /\ repo.gen > 0 => bundles[repo.bundle] # None
  /\ \A c \in commits : Stored(c.commit) # {}

(***************************************************************************)
(* A caller that has read the head row has the whole grace period to fetch *)
(* its bundle and snapshot, even when the head moves on and the collector  *)
(* runs meanwhile: a missing artifact is only reported after that.         *)
(***************************************************************************)
HeadReadableForGrace ==
  [][\A a \in Attempts :
       att[a].out # "integrity" /\ att'[a].out = "integrity" => now - att[a].at > Grace]_vars

(***************************************************************************)
(* No publication lands while the task is archived or its owner's access   *)
(* is lost, however long ago the caller was let in.                        *)
(***************************************************************************)
NoPublishWhileInactive == [][repo' # repo => active]_vars

(***************************************************************************)
(* The protocol implements the compare-and-append log.                     *)
(***************************************************************************)
Store == INSTANCE HistoryStore
           WITH Edits <- Edit, history <- repo.head,
                accepted <- {<<att[c.bundle].req, c.parent, c.commit>> : c \in commits}

ImplementsHistoryStore == Store!Spec
=============================================================================
