----------------------- MODULE DocPublication_proofs -----------------------
(***************************************************************************)
(* Theorems about DocPublication, for every value of its constants.        *)
(***************************************************************************)
EXTENDS DocPublication, TLAPS

-----------------------------------------------------------------------------
(* Operators *)

(***************************************************************************)
(* Every base a caller can hold is a commit when the head is one.          *)
(***************************************************************************)
LEMMA PrefixType ==
  ASSUME NEW h \in Commit, NEW b \in Prefixes(h)
  PROVE  b \in Commit /\ Len(b) <= Len(h) /\ b = SubSeq(h, 1, Len(b))
<1>1. PICK n \in 0 .. Len(h) : b = SubSeq(h, 1, n)
  BY DEF Prefixes
<1>2. Len(b) = n /\ b \in Seq(Edit)
  BY <1>1 DEF Commit
<1> QED
  BY <1>1, <1>2 DEF Commit

LEMMA AppendPrefix ==
  ASSUME NEW h \in Commit, NEW e \in Edit, NEW n \in 0 .. Len(h)
  PROVE  SubSeq(Append(h, e), 1, n) = SubSeq(h, 1, n)
BY DEF Commit

(***************************************************************************)
(* FirstRead lets a call go on only on a fresh request at the right base.  *)
(***************************************************************************)
LEMMA FirstReadCases ==
  ASSUME NEW i, NEW r
  PROVE  /\ FirstRead(i, r) \in {"denied", "replayed", "mismatch", "conflict", "read"}
         /\ FirstRead(i, r) = "read" => active /\ Recorded(r) = {} /\ repo.head = i.base
         /\ FirstRead(i, r) = "conflict" => Recorded(r) = {} /\ repo.head # i.base
         /\ FirstRead(i, r) = "replayed" => \E q \in Recorded(r) : q.input = i
         /\ FirstRead(i, r) = "mismatch" => Recorded(r) # {}
BY DEF FirstRead, ReplayOutcome

LEMMA BecomesType ==
  ASSUME TypeOK, NEW a \in Attempts, att[a].pc # "idle",
         NEW pc \in Phases \ {"idle"}, NEW out \in Outcomes,
         att' = Becomes(a, pc, out)
  PROVE  /\ att' \in [Attempts -> Attempt]
         /\ \A b \in Attempts : att'[b].pc # "idle" =>
              att'[b].req \in Requests /\ att'[b].content \in Contents /\ att'[b].sec \in Secs
         /\ \A b \in Attempts : att[b].pc # "idle" => att'[b].pc # "idle"
<1>1. att' = [att EXCEPT ![a].pc = pc, ![a].out = out]
  BY DEF Becomes
<1>2. att[a] \in Attempt /\ att \in [Attempts -> Attempt]
  BY DEF TypeOK
<1>3. att' = [att EXCEPT ![a] = [att[a] EXCEPT !.pc = pc, !.out = out]]
  BY <1>1, <1>2
<1>4. [att[a] EXCEPT !.pc = pc, !.out = out] \in Attempt
  BY <1>2 DEF Attempt
<1> QED
  BY <1>2, <1>3, <1>4 DEF TypeOK, Attempt
-----------------------------------------------------------------------------
(* Type correctness *)

LEMMA TypeInit == Init => TypeOK
BY TimeAssumption DEF Init, TypeOK, NoRepo, RepoRow, Commit, IdleAttempt, Attempt, Phases, Outcomes

LEMMA TypeStart == ASSUME TypeOK, NEW a \in Attempts, Start(a) PROVE TypeOK'
<1>1. PICK r \in Requests, c \in Contents, s \in Secs, b \in Prefixes(repo.head) :
        LET first == FirstRead([base |-> b, content |-> c], r)
        IN att' = [att EXCEPT ![a] =
             [pc |-> IF first = "read" THEN "read" ELSE "done",
              out |-> IF first = "read" THEN "none" ELSE first,
              req |-> r, base |-> b, content |-> c, at |-> now, sec |-> s,
              seen |-> IF first = "read" THEN repo ELSE NoRepo,
              commit |-> <<>>, began |-> 0, sent |-> 0]]
  BY DEF Start
<1> DEFINE first == FirstRead([base |-> b, content |-> c], r)
           pc == IF first = "read" THEN "read" ELSE "done"
           out == IF first = "read" THEN "none" ELSE first
           seen == IF first = "read" THEN repo ELSE NoRepo
           new == [pc |-> pc, out |-> out, req |-> r, base |-> b, content |-> c, at |-> now,
                   sec |-> s, seen |-> seen, commit |-> <<>>, began |-> 0, sent |-> 0]
<1>2. b \in Commit /\ <<>> \in Commit
  BY PrefixType DEF TypeOK, RepoRow, Commit
<1>3. pc \in Phases /\ out \in Outcomes /\ pc # "idle"
  BY FirstReadCases DEF Phases, Outcomes
<1>4. seen \in RepoRow
  BY DEF TypeOK, NoRepo, RepoRow, Commit
<1>5. att' = [att EXCEPT ![a] = new]
  BY <1>1
<1> HIDE DEF first, pc, out, seen
<1>6. new \in Attempt
  BY <1>2, <1>3, <1>4 DEF TypeOK, Attempt
<1>7. new.pc # "idle" /\ new.req \in Requests /\ new.content \in Contents /\ new.sec \in Secs
  BY <1>3
<1> QED
  BY <1>5, <1>6, <1>7 DEF TypeOK, Start, d1, r2

LEMMA TypePrepare == ASSUME TypeOK, NEW a \in Attempts, Prepare(a) PROVE TypeOK'
<1> DEFINE e == [content |-> att[a].content, at |-> att[a].at, sec |-> att[a].sec]
<1>1. att[a] \in Attempt /\ att[a].pc # "idle"
  BY DEF TypeOK, Prepare
<1>2. e \in Edit
  BY <1>1 DEF TypeOK, Edit, Attempt
<1>3. Append(att[a].base, e) \in Commit
  BY <1>1, <1>2 DEF Commit, Attempt
<1> HIDE DEF e
<1>4. \/ att' = Becomes(a, "done", "integrity")
      \/ att' = Becomes(a, "done", "unchanged")
      \/ att' = [att EXCEPT ![a].pc = "prepared", ![a].commit = Append(att[a].base, e)]
  BY DEF Prepare, e
<1>5. /\ att' \in [Attempts -> Attempt]
      /\ \A b \in Attempts : att'[b].pc # "idle" =>
           att'[b].req \in Requests /\ att'[b].content \in Contents /\ att'[b].sec \in Secs
      /\ \A b \in Attempts : att[b].pc # "idle" => att'[b].pc # "idle"
  <2>1. CASE att' = Becomes(a, "done", "integrity")
    BY <1>1, <2>1, BecomesType DEF Phases, Outcomes
  <2>2. CASE att' = Becomes(a, "done", "unchanged")
    BY <1>1, <2>2, BecomesType DEF Phases, Outcomes
  <2>3. CASE att' = [att EXCEPT ![a].pc = "prepared", ![a].commit = Append(att[a].base, e)]
    <3>1. att' = [att EXCEPT ![a] =
                    [att[a] EXCEPT !.pc = "prepared", !.commit = Append(att[a].base, e)]]
      BY <2>3
    <3>2. [att[a] EXCEPT !.pc = "prepared", !.commit = Append(att[a].base, e)] \in Attempt
      BY <1>1, <1>3 DEF Attempt, Phases
    <3> QED
      BY <1>1, <3>1, <3>2 DEF TypeOK, Attempt
  <2> QED
    BY <1>4, <2>1, <2>2, <2>3
<1> QED
  BY <1>5 DEF TypeOK, Prepare, d1, r2

LEMMA TypeUpload ==
  ASSUME TypeOK, NEW a \in Attempts, PutBundle(a) \/ PutSnapshot(a) \/ Send(a)
  PROVE  TypeOK'
<1>1. att[a] \in Attempt /\ att[a].pc # "idle" /\ now \in Nat /\ att[a].commit \in Commit
  BY TimeAssumption DEF TypeOK, Attempt, PutBundle, PutSnapshot, Send
<1>2. CASE PutBundle(a)
  <2>1. att' = [att EXCEPT ![a] = [att[a] EXCEPT !.pc = "bundled", !.began = now]]
    BY <1>1, <1>2 DEF PutBundle, TypeOK
  <2>2. [att[a] EXCEPT !.pc = "bundled", !.began = now] \in Attempt
    BY <1>1 DEF Attempt, Phases
  <2>3. bundles' \in [Attempts -> Nat \cup {None}]
    BY <1>1, <1>2 DEF PutBundle, TypeOK
  <2> QED
    BY <1>1, <1>2, <2>1, <2>2, <2>3 DEF TypeOK, PutBundle, d1, Attempt
<1>3. CASE PutSnapshot(a)
  <2>1. att' = [att EXCEPT ![a] = [att[a] EXCEPT !.pc = "uploaded"]]
    BY <1>1, <1>3 DEF PutSnapshot, TypeOK
  <2>2. [att[a] EXCEPT !.pc = "uploaded"] \in Attempt
    BY <1>1 DEF Attempt, Phases
  <2>3. snaps' \subseteq Snapshot
    BY <1>1, <1>3 DEF PutSnapshot, TypeOK, Snapshot
  <2> QED
    BY <1>1, <1>3, <2>1, <2>2, <2>3 DEF TypeOK, PutSnapshot, d1, Attempt
<1>4. CASE Send(a)
  <2>1. \/ att' = Becomes(a, "done", "stale") /\ UNCHANGED wire
        \/ att' = [att EXCEPT ![a].pc = "sent", ![a].sent = now] /\ wire' = wire \cup {<<a, 1>>}
    BY <1>4 DEF Send
  <2>2. CASE att' = Becomes(a, "done", "stale") /\ UNCHANGED wire
    BY <1>1, <1>4, <2>2, BecomesType DEF TypeOK, Send, d1, r2, Phases, Outcomes
  <2>3. CASE att' = [att EXCEPT ![a].pc = "sent", ![a].sent = now] /\ wire' = wire \cup {<<a, 1>>}
    <3>1. att' = [att EXCEPT ![a] = [att[a] EXCEPT !.pc = "sent", !.sent = now]]
      BY <1>1, <2>3 DEF TypeOK
    <3>2. [att[a] EXCEPT !.pc = "sent", !.sent = now] \in Attempt
      BY <1>1 DEF Attempt, Phases
    <3>3. wire' \subseteq {b \in Attempts : att[b].pc # "idle"} \X {1, 2}
      BY <1>1, <2>3 DEF TypeOK
    <3> QED
      BY <1>1, <1>4, <3>1, <3>2, <3>3 DEF TypeOK, Send, d1, r2, Attempt
  <2> QED
    BY <2>1, <2>2, <2>3
<1> QED
  BY <1>2, <1>3, <1>4

LEMMA TypeDeliver ==
  ASSUME TypeOK, NEW a \in Attempts, NEW c \in {1, 2}, Deliver(a, c)
  PROVE  TypeOK'
<1>1. att[a] \in Attempt /\ repo \in RepoRow
  BY DEF TypeOK
<1>2. \/ repo' = repo /\ commits' = commits /\ requests' = requests
      \/ ApplyBatch(a)
  BY DEF Deliver
<1>3. wire' \subseteq wire /\ att[a].pc # "idle"
  BY DEF TypeOK, Deliver
<1>4. \/ att' = att
      \/ /\ att[a].pc # "idle"
         /\ \E pc \in {"done", "diagnose"}, out \in {"published", "none", "error"} :
              att' = Becomes(a, pc, out)
  BY DEF Deliver, AwaitsCopy, Heard, Reply
<1>5. /\ att' \in [Attempts -> Attempt]
      /\ \A b \in Attempts : att'[b].pc # "idle" =>
           att'[b].req \in Requests /\ att'[b].content \in Contents /\ att'[b].sec \in Secs
      /\ \A b \in Attempts : att[b].pc # "idle" => att'[b].pc # "idle"
  BY <1>4, BecomesType DEF TypeOK, Phases, Outcomes
<1>6. ASSUME ApplyBatch(a)
      PROVE  repo' \in RepoRow /\ commits' \subseteq CommitRow /\ requests' \subseteq RequestRow
  <2>1. att[a].seen.gen + 1 \in Nat
    BY <1>1 DEF Attempt, RepoRow
  <2>2. att[a].commit \in Commit /\ att[a].base \in Commit /\ att[a].at \in Nat
    BY <1>1, TimeAssumption DEF Attempt
  <2>3. repo' \in RepoRow
    BY <1>6, <2>1, <2>2 DEF ApplyBatch, RepoRow
  <2>4. commits' \subseteq CommitRow
    BY <1>6, <2>1, <2>2 DEF ApplyBatch, CommitRow, TypeOK
  <2>5. InputOf(a) \in Input /\ att[a].req \in Requests
    BY <1>3, <2>2 DEF InputOf, Input, TypeOK
  <2>6. requests' \subseteq RequestRow
    BY <1>6, <2>2, <2>5, TimeAssumption DEF ApplyBatch, RequestRow, TypeOK
  <2> QED
    BY <2>3, <2>4, <2>6
<1> QED
  BY <1>2, <1>3, <1>5, <1>6 DEF TypeOK, Deliver, r2

LEMMA TypeAnswer ==
  ASSUME TypeOK, NEW a \in Attempts, Timeout(a) \/ Reconcile(a) \/ Resend(a) \/ Diagnose(a)
  PROVE  TypeOK'
<1>1. att[a].pc # "idle"
  BY DEF Timeout, Reconcile, Resend, Diagnose
<1>2. \E pc \in Phases \ {"idle"}, out \in Outcomes : att' = Becomes(a, pc, out)
  <2>1. CASE Timeout(a)
    BY <2>1 DEF Timeout, Phases, Outcomes
  <2>2. CASE Reconcile(a)
    BY <2>2 DEF Reconcile, ReplayOutcome, Phases, Outcomes
  <2>3. CASE Resend(a)
    BY <2>3 DEF Resend, Phases, Outcomes
  <2>4. CASE Diagnose(a)
    <3> DEFINE first == FirstRead(InputOf(a), att[a].req)
    <3>1. first \in Outcomes \cup {"read"}
      BY FirstReadCases DEF Outcomes
    <3>2. att' = Becomes(a, "done", IF first = "read" THEN "readonly" ELSE first)
      BY <2>4 DEF Diagnose
    <3> QED
      BY <3>1, <3>2 DEF Phases, Outcomes
  <2> QED
    BY <2>1, <2>2, <2>3, <2>4
<1>3. /\ att' \in [Attempts -> Attempt]
      /\ \A b \in Attempts : att'[b].pc # "idle" =>
           att'[b].req \in Requests /\ att'[b].content \in Contents /\ att'[b].sec \in Secs
      /\ \A b \in Attempts : att[b].pc # "idle" => att'[b].pc # "idle"
  BY <1>1, <1>2, BecomesType
<1>4. wire' = wire \/ wire' = wire \cup {<<a, 2>>}
  BY DEF Timeout, Reconcile, Resend, Diagnose
<1>5. UNCHANGED <<now, d1, r2, col>>
  BY DEF Timeout, Reconcile, Resend, Diagnose
<1> QED
  BY <1>1, <1>3, <1>4, <1>5 DEF TypeOK, d1, r2

LEMMA TypeCollector == ASSUME TypeOK, Collector PROVE TypeOK'
<1>1. now \in Nat
  BY TimeAssumption DEF TypeOK
<1>2. CASE ListObjects
  <2>1. {s.commit : s \in {t \in snaps : Old(t.up)}} \subseteq Commit
    BY DEF TypeOK, Snapshot
  <2> QED
    BY <1>1, <1>2, <2>1 DEF TypeOK, ListObjects, d1, r2
<1>3. CASE ReadReferences
  <2>1. col' = [col EXCEPT !.pc = "deleting", !.bundles = col.bundles \ ReferencedBundles,
                           !.snaps = col.snaps \ ReferencedSnapshots]
    BY <1>3 DEF ReadReferences
  <2>2. col' \in [pc : {"idle", "listed", "deleting"}, now : Nat,
                  bundles : SUBSET Attempts, snaps : SUBSET Commit]
    BY <2>1 DEF TypeOK
  <2> QED
    BY <1>3, <2>2 DEF TypeOK, ReadReferences, d1, r2
<1>4. CASE EndPass
  BY <1>4 DEF TypeOK, EndPass, d1, r2
<1>5. CASE ExpireRequests
  BY <1>5 DEF TypeOK, ExpireRequests, r2
<1>6. ASSUME NEW a \in Attempts, DeleteBundle(a) PROVE TypeOK'
  BY <1>6 DEF TypeOK, DeleteBundle, d1
<1>7. ASSUME NEW c \in col.snaps, DeleteSnapshot(c) PROVE TypeOK'
  BY <1>7 DEF TypeOK, DeleteSnapshot, d1
<1> QED
  BY <1>2, <1>3, <1>4, <1>5, <1>6, <1>7 DEF Collector

LEMMA TypeStep == ASSUME TypeOK, [Next]_vars PROVE TypeOK'
<1>1. ASSUME NEW a \in Attempts, Publisher(a) PROVE TypeOK'
  BY <1>1, TypeStart, TypePrepare, TypeUpload, TypeAnswer DEF Publisher
<1>2. ASSUME NEW a \in Attempts, Network(a) PROVE TypeOK'
  BY <1>2, TypeDeliver DEF Network
<1>3. CASE ArchiveOrRestore
  BY <1>3 DEF TypeOK, ArchiveOrRestore, r2
<1>4. CASE Tick
  BY <1>4, TimeAssumption DEF TypeOK, Tick, d1, r2
<1>5. CASE UNCHANGED vars
  BY <1>5 DEF TypeOK, vars, d1, r2
<1> QED
  BY <1>1, <1>2, <1>3, <1>4, <1>5, TypeCollector DEF Next

(***************************************************************************)
(* Every reachable state of the rows, the objects, the calls in flight and *)
(* the collector's pass is well formed.                                    *)
(***************************************************************************)
THEOREM TypeCorrect == Spec => []TypeOK
BY TypeInit, TypeStep, PTL DEF Spec

-----------------------------------------------------------------------------
(* The history *)

EditOf(a) == [content |-> att[a].content, at |-> att[a].at, sec |-> att[a].sec]

InFlight(a) == \E k \in {1, 2} : <<a, k>> \in wire

(***************************************************************************)
(* A call that got past its first read holds a base whose generation it    *)
(* read with it; a call that has a commit, or a batch on its way, has the  *)
(* child of that base.  Its base stays a prefix of the head.               *)
(***************************************************************************)
CallOK(a) ==
  /\ att[a].pc \in {"idle", "read"} => att[a].commit = <<>>
  /\ att[a].pc = "read" => att[a].seen.gen = Len(att[a].base)
  /\ att[a].pc \notin {"idle", "read", "done"} \/ InFlight(a) => att[a].commit # <<>>
  /\ att[a].commit # <<>> => /\ att[a].commit = Append(att[a].base, EditOf(a))
                             /\ att[a].seen.gen = Len(att[a].base)

BaseOK(a) ==
  att[a].pc # "idle" => /\ Len(att[a].base) <= repo.gen
                        /\ att[a].base = SubSeq(repo.head, 1, Len(att[a].base))

(***************************************************************************)
(* A commit row is what its call computed.                                 *)
(***************************************************************************)
RowOK(c) ==
  /\ c.commit # <<>>
  /\ att[c.bundle].commit = c.commit
  /\ att[c.bundle].base = c.parent
  /\ att[c.bundle].at = c.publishedAt

HistoryInv ==
  /\ TypeOK
  /\ LinearHistory
  /\ \A a \in Attempts : CallOK(a) /\ BaseOK(a)
  /\ \A c \in commits : RowOK(c)

(***************************************************************************)
(* The inputs of a call and what it read never change once it started, nor *)
(* does its commit once it has one.                                        *)
(***************************************************************************)
SameCall(b) ==
  /\ att'[b].pc # "idle"
  /\ att'[b].req = att[b].req /\ att'[b].base = att[b].base
  /\ att'[b].content = att[b].content /\ att'[b].at = att[b].at
  /\ att'[b].sec = att[b].sec /\ att'[b].seen = att[b].seen
  /\ att[b].commit # <<>> => att'[b].commit = att[b].commit

LEMMA BecomesSame ==
  ASSUME TypeOK, NEW a \in Attempts, NEW b \in Attempts, att[b].pc # "idle",
         NEW pc, pc # "idle", NEW out, att' = Becomes(a, pc, out)
  PROVE  SameCall(b)
<1>1. att \in [Attempts -> Attempt] /\ att[b] \in Attempt
  BY DEF TypeOK
<1>2. CASE a = b
  <2>1. att'[b] = [att[b] EXCEPT !.pc = pc, !.out = out]
    BY <1>1, <1>2 DEF Becomes
  <2> QED
    BY <1>1, <2>1 DEF SameCall, Attempt
<1>3. CASE a # b
  BY <1>1, <1>3 DEF Becomes, SameCall
<1> QED
  BY <1>2, <1>3

LEMMA CallFrame ==
  ASSUME TypeOK, [Next]_vars, NEW b \in Attempts, CallOK(b), att[b].pc # "idle"
  PROVE  SameCall(b)
<1> USE DEF SameCall
<1>1. att \in [Attempts -> Attempt] /\ att[b] \in Attempt
  BY DEF TypeOK
<1>2. CASE att' = att
  BY <1>2
<1>3. ASSUME NEW a \in Attempts, Publisher(a) PROVE SameCall(b)
  <2>1. CASE a # b
    <3>1. att'[b] = att[b]
      BY <1>1, <1>3, <2>1 DEF Publisher, Start, Prepare, PutBundle, PutSnapshot, Send, Timeout,
            Reconcile, Resend, Diagnose, Becomes
    <3> QED
      BY <3>1
  <2>2. CASE a = b
    <3>1. CASE Start(a)
      BY <2>2, <3>1 DEF Start
    <3>2. CASE Prepare(a)
      <4>1. CASE \E out : att' = Becomes(a, "done", out)
        BY <4>1, BecomesSame
      <4>2. CASE ~ \E out : att' = Becomes(a, "done", out)
        <5>1. PICK c : att' = [att EXCEPT ![a].pc = "prepared", ![a].commit = c]
          BY <3>2, <4>2 DEF Prepare
        <5>2. att'[b] = [att[b] EXCEPT !.pc = "prepared", !.commit = c]
          BY <1>1, <2>2, <5>1
        <5>3. att[b].commit = <<>>
          BY <2>2, <3>2 DEF Prepare, CallOK
        <5> QED
          BY <1>1, <5>2, <5>3 DEF Attempt
      <4> QED
        BY <4>1, <4>2
    <3>3. CASE PutBundle(a)
      <4>1. att'[b] = [att[b] EXCEPT !.pc = "bundled", !.began = now]
        BY <1>1, <2>2, <3>3 DEF PutBundle
      <4> QED
        BY <1>1, <4>1 DEF Attempt
    <3>4. CASE PutSnapshot(a)
      <4>1. att'[b] = [att[b] EXCEPT !.pc = "uploaded"]
        BY <1>1, <2>2, <3>4 DEF PutSnapshot
      <4> QED
        BY <1>1, <4>1 DEF Attempt
    <3>5. CASE Send(a)
      <4>1. CASE att' = Becomes(a, "done", "stale")
        BY <4>1, BecomesSame
      <4>2. CASE att' = [att EXCEPT ![a].pc = "sent", ![a].sent = now]
        <5>1. att'[b] = [att[b] EXCEPT !.pc = "sent", !.sent = now]
          BY <1>1, <2>2, <4>2
        <5> QED
          BY <1>1, <5>1 DEF Attempt
      <4> QED
        BY <3>5, <4>1, <4>2 DEF Send
    <3>6. CASE Timeout(a) \/ Reconcile(a) \/ Resend(a) \/ Diagnose(a)
      <4>1. \E pc \in {"unknown", "done", "resend", "resent"} : \E out : att' = Becomes(a, pc, out)
        BY <3>6 DEF Timeout, Reconcile, Resend, Diagnose
      <4> QED
        BY <4>1, BecomesSame
    <3> QED
      BY <1>3, <3>1, <3>2, <3>3, <3>4, <3>5, <3>6 DEF Publisher
  <2> QED
    BY <2>1, <2>2
<1>4. ASSUME NEW a \in Attempts, NEW c \in {1, 2}, Deliver(a, c) PROVE SameCall(b)
  <2>1. att' = att \/ \E pc \in {"done", "diagnose"} : \E out : att' = Becomes(a, pc, out)
    BY <1>4 DEF Deliver, Heard, Reply
  <2> QED
    BY <1>2, <2>1, BecomesSame
<1> QED
  BY <1>2, <1>3, <1>4 DEF Next, Network, Collector, ListObjects, ReadReferences, EndPass,
       ExpireRequests, DeleteBundle, DeleteSnapshot, ArchiveOrRestore, Tick, vars

LEMMA CallStep ==
  ASSUME TypeOK, LinearHistory, [Next]_vars, NEW b \in Attempts, CallOK(b)
  PROVE  CallOK(b)'
<1> USE DEF CallOK, EditOf
<1>1. att \in [Attempts -> Attempt] /\ att[b] \in Attempt
  BY DEF TypeOK
<1>2. ASSUME att'[b] = att[b], InFlight(b)' => InFlight(b) PROVE CallOK(b)'
  BY <1>2
<1>3. ASSUME NEW a \in Attempts, Publisher(a) PROVE CallOK(b)'
  <2>1. CASE a # b
    <3>1. att'[b] = att[b]
      BY <1>1, <1>3, <2>1 DEF Publisher, Start, Prepare, PutBundle, PutSnapshot, Send, Timeout,
            Reconcile, Resend, Diagnose, Becomes
    <3>2. wire' \subseteq wire \cup {<<a, 1>>, <<a, 2>>}
      BY <1>3 DEF Publisher, Start, Prepare, PutBundle, PutSnapshot, Send, Timeout, Reconcile,
                  Resend, Diagnose
    <3> QED
      BY <1>2, <2>1, <3>1, <3>2 DEF InFlight
  <2>2. CASE a = b
    <3>1. CASE Start(a)
      <4>1. PICK r \in Requests, c \in Contents, s \in Secs, h \in Prefixes(repo.head) :
              LET first == FirstRead([base |-> h, content |-> c], r)
              IN att' = [att EXCEPT ![a] =
                   [pc |-> IF first = "read" THEN "read" ELSE "done",
                    out |-> IF first = "read" THEN "none" ELSE first,
                    req |-> r, base |-> h, content |-> c, at |-> now, sec |-> s,
                    seen |-> IF first = "read" THEN repo ELSE NoRepo,
                    commit |-> <<>>, began |-> 0, sent |-> 0]]
        BY <3>1 DEF Start
      <4>2. att'[b].commit = <<>> /\ att'[b].pc \in {"read", "done"}
        BY <1>1, <2>2, <4>1
      <4>3. att'[b].pc = "read" => att'[b].seen = repo /\ att'[b].base = repo.head
        BY <1>1, <2>2, <4>1, FirstReadCases
      <4>4. ~ InFlight(b)'
        BY <2>2, <3>1 DEF Start, TypeOK, InFlight
      <4> QED
        BY <4>2, <4>3, <4>4 DEF LinearHistory
    <3>2. CASE Prepare(a)
      <4>1. CASE \E out : att' = Becomes(a, "done", out)
        <5>1. PICK out : att'[b] = [att[b] EXCEPT !.pc = "done", !.out = out]
          BY <1>1, <2>2, <4>1 DEF Becomes
        <5>2. ~ InFlight(b)'
          BY <2>2, <3>2 DEF Prepare, InFlight
        <5> QED
          BY <1>1, <2>2, <3>2, <5>1, <5>2 DEF Attempt, Prepare
      <4>2. CASE ~ \E out : att' = Becomes(a, "done", out)
        <5> DEFINE e == [content |-> att[a].content, at |-> att[a].at, sec |-> att[a].sec]
        <5>1. att' = [att EXCEPT ![a].pc = "prepared", ![a].commit = Append(att[a].base, e)]
          BY <3>2, <4>2 DEF Prepare
        <5>2. att'[b] = [att[b] EXCEPT !.pc = "prepared", !.commit = Append(att[b].base, e)]
          BY <1>1, <2>2, <5>1
        <5>3. Append(att[b].base, e) # <<>>
          <6>1. e \in Edit /\ att[b].base \in Seq(Edit)
            BY <1>1, <2>2, <3>2 DEF Prepare, TypeOK, Attempt, Edit, Commit
          <6> HIDE DEF e
          <6>2. Len(Append(att[b].base, e)) = Len(att[b].base) + 1 /\ Len(att[b].base) \in Nat
            BY <6>1
          <6>3. Len(<<>>) = 0
            OBVIOUS
          <6>4. Len(Append(att[b].base, e)) # Len(<<>>)
            BY <6>2, <6>3
          <6> QED
            BY <6>4, Zenon
        <5>4. /\ att'[b].pc = "prepared" /\ att'[b].commit = Append(att[b].base, e)
              /\ att'[b].base = att[b].base /\ att'[b].seen = att[b].seen
              /\ att'[b].content = att[b].content /\ att'[b].at = att[b].at
              /\ att'[b].sec = att[b].sec
          BY <1>1, <5>2 DEF Attempt
        <5> QED
          BY <2>2, <3>2, <5>3, <5>4 DEF Prepare
      <4> QED
        BY <4>1, <4>2
    <3>3. CASE PutBundle(a) \/ PutSnapshot(a) \/ Send(a) \/ Timeout(a) \/ Reconcile(a)
               \/ Resend(a) \/ Diagnose(a)
      <4>1. att[b].commit # <<>> /\ att[b].pc # "idle"
        BY <2>2, <3>3 DEF PutBundle, PutSnapshot, Send, Timeout, Reconcile, Resend, Diagnose
      <4>2. SameCall(b)
        BY <1>3, <4>1, CallFrame DEF Next
      <4>3. att'[b].pc # "read"
        <5>1. ASSUME NEW pc, pc # "read", NEW out, att' = Becomes(a, pc, out)
              PROVE  att'[b].pc # "read"
          <6>1. att'[b] = [att[b] EXCEPT !.pc = pc, !.out = out]
            BY <1>1, <2>2, <5>1 DEF Becomes
          <6> QED
            BY <1>1, <5>1, <6>1 DEF Attempt
        <5>2. CASE PutBundle(a)
          BY <1>1, <2>2, <5>2 DEF PutBundle, Attempt
        <5>3. CASE PutSnapshot(a)
          BY <1>1, <2>2, <5>3 DEF PutSnapshot, Attempt
        <5>4. CASE Send(a)
          BY <1>1, <2>2, <5>1, <5>4 DEF Send, Attempt
        <5>5. CASE Timeout(a)
          BY <5>1, <5>5 DEF Timeout
        <5>6. CASE Reconcile(a)
          BY <5>1, <5>6 DEF Reconcile
        <5>7. CASE Resend(a)
          BY <5>1, <5>7 DEF Resend
        <5>8. CASE Diagnose(a)
          BY <5>1, <5>8 DEF Diagnose
        <5> QED
          BY <3>3, <5>2, <5>3, <5>4, <5>5, <5>6, <5>7, <5>8
      <4> QED
        BY <4>1, <4>2, <4>3 DEF SameCall
    <3> QED
      BY <1>3, <3>1, <3>2, <3>3 DEF Publisher
  <2> QED
    BY <2>1, <2>2
<1>4. ASSUME NEW a \in Attempts, NEW c \in {1, 2}, Deliver(a, c) PROVE CallOK(b)'
  <2>1. InFlight(b)' => InFlight(b)
    BY <1>4 DEF Deliver, InFlight
  <2>2. CASE att'[b] = att[b]
    BY <1>2, <2>1, <2>2
  <2>3. CASE att'[b] # att[b]
    <3>1. a = b /\ \E pc \in {"done", "diagnose"} : \E out : att' = Becomes(a, pc, out)
      BY <1>1, <1>4, <2>3 DEF Deliver, Heard, Reply, Becomes
    <3>2. att[b].commit # <<>> /\ att[b].pc # "idle"
      BY <1>4, <3>1 DEF Deliver, InFlight, TypeOK
    <3>3. PICK pc, out : pc \in {"done", "diagnose"} /\ att' = Becomes(a, pc, out)
      BY <3>1
    <3>4. SameCall(b)
      BY <3>2, <3>3, BecomesSame
    <3>5. att'[b] = [att[b] EXCEPT !.pc = pc, !.out = out]
      BY <1>1, <3>1, <3>3 DEF Becomes
    <3>6. att'[b].pc # "read"
      BY <1>1, <3>3, <3>5 DEF Attempt
    <3> QED
      BY <3>2, <3>4, <3>6 DEF SameCall
  <2> QED
    BY <2>2, <2>3
<1>5. CASE UNCHANGED <<att, wire>>
  BY <1>2, <1>5 DEF InFlight
<1> QED
  BY <1>3, <1>4, <1>5 DEF Next, Network, Collector, ListObjects, ReadReferences, EndPass,
       ExpireRequests, DeleteBundle, DeleteSnapshot, ArchiveOrRestore, Tick, vars

(***************************************************************************)
(* The only step that changes the head or the commit rows is a batch that  *)
(* D1 decides for its call.                                                *)
(***************************************************************************)
Lands(a) ==
  /\ InFlight(a) /\ now - att[a].sent <= MaxExchange
  /\ Decides(a) /\ ~ Clashes(a) /\ ApplyBatch(a)
  /\ UNCHANGED <<now, active, bundles, snaps, col>>

LEMMA HeadStep ==
  ASSUME [Next]_vars
  PROVE  \/ UNCHANGED <<repo, commits>>
         \/ \E a \in Attempts : Lands(a)
<1>1. ASSUME NEW a \in Attempts, NEW c \in {1, 2}, Deliver(a, c)
      PROVE  UNCHANGED <<repo, commits>> \/ Lands(a)
  <2>1. CASE Reply(a) = "applied"
    BY <1>1, <2>1 DEF Deliver, Reply, Lands, InFlight, r2
  <2>2. CASE Reply(a) # "applied"
    BY <1>1, <2>2 DEF Deliver
  <2> QED
    BY <2>1, <2>2
<1>2. ASSUME NEW a \in Attempts, Publisher(a) PROVE UNCHANGED <<repo, commits>>
  BY <1>2 DEF Publisher, Start, Prepare, PutBundle, PutSnapshot, Send, Timeout, Reconcile, Resend,
              Diagnose, d1
<1>3. CASE Collector
  BY <1>3 DEF Collector, ListObjects, ReadReferences, EndPass, ExpireRequests, DeleteBundle,
              DeleteSnapshot, d1
<1> QED
  BY <1>1, <1>2, <1>3 DEF Next, Network, ArchiveOrRestore, Tick, vars, d1

LEMMA LandsEffect ==
  ASSUME HistoryInv, NEW a \in Attempts, Lands(a)
  PROVE  /\ EditOf(a) \in Edit
         /\ att[a].pc # "idle"
         /\ att[a].base = repo.head /\ repo.gen = Len(repo.head) /\ repo.head \in Seq(Edit)
         /\ att[a].commit = Append(repo.head, EditOf(a))
         /\ repo' = [head |-> att[a].commit, gen |-> repo.gen + 1, bundle |-> a]
         /\ commits' = commits \cup {[commit |-> att[a].commit, parent |-> repo.head,
                                      gen |-> repo.gen + 1, bundle |-> a,
                                      publishedAt |-> att[a].at]}
         /\ Len(att[a].commit) = repo.gen + 1
<1>1. att[a] \in Attempt /\ repo \in RepoRow
  BY DEF HistoryInv, TypeOK
<1>2. att[a].pc # "idle"
  BY DEF HistoryInv, TypeOK, Lands, InFlight
<1>3. EditOf(a) \in Edit
  BY <1>1, <1>2 DEF HistoryInv, TypeOK, EditOf, Edit, Attempt
<1>4. att[a].base = repo.head /\ att[a].seen.gen = repo.gen
  BY DEF Lands, Decides
<1>5. att[a].commit = Append(repo.head, EditOf(a))
  BY <1>4 DEF HistoryInv, CallOK, Lands
<1>6. repo.head \in Seq(Edit) /\ repo.gen = Len(repo.head)
  BY <1>1 DEF RepoRow, Commit, HistoryInv, LinearHistory
<1>7. Len(att[a].commit) = repo.gen + 1
  BY <1>3, <1>5, <1>6
<1>8. /\ repo' = [head |-> att[a].commit, gen |-> repo.gen + 1, bundle |-> a]
      /\ commits' = commits \cup {[commit |-> att[a].commit, parent |-> repo.head,
                                   gen |-> repo.gen + 1, bundle |-> a,
                                   publishedAt |-> att[a].at]}
  BY <1>4 DEF Lands, ApplyBatch
<1> QED
  BY <1>2, <1>3, <1>4, <1>5, <1>6, <1>7, <1>8

(***************************************************************************)
(* The head only grows: what was a prefix of it stays one.                 *)
(***************************************************************************)
LEMMA HeadGrows ==
  ASSUME HistoryInv, [Next]_vars
  PROVE  /\ repo.gen \in Nat /\ repo'.gen \in Nat /\ repo.gen <= repo'.gen
         /\ \A n \in 0 .. repo.gen : SubSeq(repo'.head, 1, n) = SubSeq(repo.head, 1, n)
<1>1. repo.gen \in Nat /\ repo.head \in Commit /\ repo.gen = Len(repo.head)
  BY DEF HistoryInv, TypeOK, RepoRow, LinearHistory
<1>2. CASE UNCHANGED <<repo, commits>>
  BY <1>1, <1>2
<1>3. ASSUME NEW a \in Attempts, Lands(a)
      PROVE  /\ repo'.gen \in Nat /\ repo.gen <= repo'.gen
             /\ \A n \in 0 .. repo.gen : SubSeq(repo'.head, 1, n) = SubSeq(repo.head, 1, n)
  <2>1. /\ EditOf(a) \in Edit /\ att[a].commit = Append(repo.head, EditOf(a))
        /\ repo' = [head |-> att[a].commit, gen |-> repo.gen + 1, bundle |-> a]
    BY <1>3, LandsEffect
  <2>2. repo'.head = Append(repo.head, EditOf(a)) /\ repo'.gen = repo.gen + 1
    BY <2>1
  <2>3. \A n \in 0 .. repo.gen : SubSeq(repo'.head, 1, n) = SubSeq(repo.head, 1, n)
    BY <1>1, <2>1, <2>2, AppendPrefix
  <2> QED
    BY <1>1, <2>2, <2>3
<1> QED
  BY <1>1, <1>2, <1>3, HeadStep

LEMMA LinearStep == ASSUME HistoryInv, [Next]_vars PROVE LinearHistory'
<1>1. CASE UNCHANGED <<repo, commits>>
  BY <1>1 DEF HistoryInv, LinearHistory
<1>2. ASSUME NEW a \in Attempts, Lands(a) PROVE LinearHistory'
  <2> DEFINE row == [commit |-> att[a].commit, parent |-> repo.head, gen |-> repo.gen + 1,
                     bundle |-> a, publishedAt |-> att[a].at]
  <2>1. /\ EditOf(a) \in Edit /\ repo.gen = Len(repo.head) /\ repo.head \in Seq(Edit)
        /\ att[a].commit = Append(repo.head, EditOf(a)) /\ Len(att[a].commit) = repo.gen + 1
        /\ repo' = [head |-> att[a].commit, gen |-> repo.gen + 1, bundle |-> a]
        /\ commits' = commits \cup {row}
    BY <1>2, LandsEffect
  <2>2. repo.gen \in Nat /\ repo'.gen = repo.gen + 1 /\ repo'.head = att[a].commit
    BY <2>1
  <2>3. repo'.gen = Len(repo'.head)
    BY <2>1, <2>2
  <2>4. /\ row.gen \in 1 .. repo'.gen
        /\ row.commit = SubSeq(repo'.head, 1, row.gen)
        /\ row.parent = SubSeq(repo'.head, 1, row.gen - 1)
    <3>1. SubSeq(repo'.head, 1, repo.gen + 1) = repo'.head
      BY <2>1, <2>2
    <3>2. SubSeq(repo'.head, 1, repo.gen) = repo.head
      BY <2>1, <2>2
    <3> QED
      BY <2>2, <3>1, <3>2
  <2>5. ASSUME NEW c \in commits
        PROVE  /\ c.gen \in 1 .. repo'.gen
               /\ c.commit = SubSeq(repo'.head, 1, c.gen)
               /\ c.parent = SubSeq(repo'.head, 1, c.gen - 1)
    <3>1. /\ c.gen \in 1 .. repo.gen
          /\ c.commit = SubSeq(repo.head, 1, c.gen)
          /\ c.parent = SubSeq(repo.head, 1, c.gen - 1)
      BY DEF HistoryInv, LinearHistory
    <3> QED
      BY <2>2, <3>1, HeadGrows
  <2>6. \A n \in 1 .. repo'.gen : \E c \in commits' : c.gen = n
    <3>1. ASSUME NEW n \in 1 .. repo'.gen PROVE n \in 1 .. repo.gen \/ n = row.gen
      BY <2>2
    <3>2. \A n \in 1 .. repo.gen : \E c \in commits : c.gen = n
      BY DEF HistoryInv, LinearHistory
    <3> HIDE DEF row
    <3> QED
      BY <2>1, <3>1, <3>2
  <2>7. \A c, d \in commits' : c.gen = d.gen => c = d
    <3>1. \A c \in commits : c.gen \in 1 .. repo.gen
      BY DEF HistoryInv, LinearHistory
    <3>2. \A c \in commits : c.gen # row.gen
      BY <2>2, <3>1
    <3> HIDE DEF row
    <3> QED
      BY <2>1, <3>2 DEF HistoryInv, LinearHistory
  <2> HIDE DEF row
  <2> QED
    BY <2>1, <2>3, <2>4, <2>5, <2>6, <2>7 DEF LinearHistory
<1> QED
  BY <1>1, <1>2, HeadStep

(***************************************************************************)
(* A call that is not running yet is only changed by starting it.          *)
(***************************************************************************)
LEMMA OnlyStart ==
  ASSUME TypeOK, [Next]_vars, NEW b \in Attempts, att[b].pc = "idle", att'[b] # att[b]
  PROVE  Start(b)
<1>1. att \in [Attempts -> Attempt]
  BY DEF TypeOK
<1>2. ASSUME NEW a \in Attempts, Publisher(a), a # b PROVE att'[b] = att[b]
  BY <1>1, <1>2 DEF Publisher, Start, Prepare, PutBundle, PutSnapshot, Send, Timeout,
        Reconcile, Resend, Diagnose, Becomes
<1>3. Publisher(b) => Start(b)
  BY DEF Publisher, Prepare, PutBundle, PutSnapshot, Send, Timeout, Reconcile, Resend, Diagnose
<1>4. ASSUME NEW a \in Attempts, NEW c \in {1, 2}, Deliver(a, c) PROVE att'[b] = att[b]
  <2>1. a # b
    BY <1>4 DEF Deliver, TypeOK
  <2> QED
    BY <1>1, <1>4, <2>1 DEF Deliver, Heard, Reply, Becomes
<1>5. (\E a \in Attempts : Publisher(a) \/ Network(a)) \/ UNCHANGED att
  BY DEF Next, Collector, ListObjects, ReadReferences, EndPass, ExpireRequests, DeleteBundle,
     DeleteSnapshot, ArchiveOrRestore, Tick, vars
<1> QED
  BY <1>2, <1>3, <1>4, <1>5 DEF Network

LEMMA BaseStep ==
  ASSUME HistoryInv, [Next]_vars, NEW b \in Attempts
  PROVE  BaseOK(b)'
<1>1. CASE att[b].pc # "idle"
  <2>1. SameCall(b)
    BY <1>1, CallFrame DEF HistoryInv
  <2>2. Len(att[b].base) \in Nat /\ BaseOK(b)
    BY DEF HistoryInv, TypeOK, Attempt, Commit
  <2> QED
    BY <1>1, <2>1, <2>2, HeadGrows DEF BaseOK, SameCall
<1>2. CASE att[b].pc = "idle"
  <2>1. CASE att'[b] = att[b]
    BY <1>2, <2>1 DEF BaseOK
  <2>2. CASE att'[b] # att[b]
    <3>1. Start(b)
      BY <1>2, <2>2, OnlyStart DEF HistoryInv
    <3>2. att'[b].base \in Prefixes(repo.head) /\ UNCHANGED repo
      BY <3>1 DEF Start, HistoryInv, TypeOK, d1
    <3> QED
      BY <3>2, PrefixType DEF BaseOK, HistoryInv, TypeOK, RepoRow, LinearHistory
  <2> QED
    BY <2>1, <2>2
<1> QED
  BY <1>1, <1>2

LEMMA RowStep == ASSUME HistoryInv, [Next]_vars, NEW c \in commits' PROVE RowOK(c)'
<1>1. ASSUME c \in commits PROVE RowOK(c)'
  <2>1. RowOK(c) /\ c.bundle \in Attempts
    BY <1>1 DEF HistoryInv, TypeOK, CommitRow
  <2>2. att[c.bundle].pc # "idle" /\ att[c.bundle].commit # <<>>
    BY <2>1 DEF RowOK, HistoryInv, CallOK
  <2>3. SameCall(c.bundle)
    BY <2>1, <2>2, CallFrame DEF HistoryInv
  <2> QED
    BY <2>1, <2>2, <2>3 DEF RowOK, SameCall
<1>2. ASSUME NEW a \in Attempts, Lands(a), c \notin commits PROVE RowOK(c)'
  <2>1. c = [commit |-> att[a].commit, parent |-> repo.head, gen |-> repo.gen + 1,
             bundle |-> a, publishedAt |-> att[a].at]
    BY <1>2, LandsEffect
  <2>2. att[a].base = repo.head /\ att[a].pc # "idle"
    BY <1>2, LandsEffect
  <2>3. att[a].commit # <<>>
    BY <1>2 DEF Lands, HistoryInv, CallOK
  <2>4. SameCall(a)
    BY <2>2, CallFrame DEF HistoryInv
  <2> QED
    BY <2>1, <2>2, <2>3, <2>4 DEF RowOK, SameCall
<1> QED
  BY <1>1, <1>2, HeadStep

LEMMA HistoryInit == Init => HistoryInv
<1> SUFFICES ASSUME Init PROVE HistoryInv
  OBVIOUS
<1>1. TypeOK
  BY TypeInit
<1>2. LinearHistory
  BY DEF Init, NoRepo, LinearHistory
<1>3. \A a \in Attempts : CallOK(a) /\ BaseOK(a)
  BY DEF Init, IdleAttempt, CallOK, BaseOK, InFlight
<1> QED
  BY <1>1, <1>2, <1>3 DEF HistoryInv, Init

LEMMA HistoryStep == ASSUME HistoryInv, [Next]_vars PROVE HistoryInv'
<1>1. TypeOK'
  BY TypeStep DEF HistoryInv
<1>2. \A a \in Attempts : CallOK(a)' /\ BaseOK(a)'
  BY CallStep, BaseStep DEF HistoryInv
<1>3. \A c \in commits' : RowOK(c)'
  BY RowStep
<1> QED
  BY <1>1, <1>2, <1>3, LinearStep DEF HistoryInv

THEOREM HistoryInvariant == Spec => []HistoryInv
BY HistoryInit, HistoryStep, PTL DEF Spec

(***************************************************************************)
(* doc_commits is one linear history, whatever calls race, crash, time out *)
(* or are applied late (publisher.ts, publicationStatements).              *)
(***************************************************************************)
THEOREM HistoryIsLinear == Spec => []LinearHistory
<1>1. HistoryInv => LinearHistory
  BY DEF HistoryInv
<1> QED
  BY <1>1, HistoryInvariant, PTL

(***************************************************************************)
(* No publication lands on an archived task (the guards of                 *)
(* DocumentAccessContext ride in the deciding statement).                  *)
(***************************************************************************)
THEOREM ArchivedTasksAreReadOnly == Spec => NoPublishWhileInactive
<1>1. ASSUME [Next]_vars PROVE [repo' # repo => active]_vars
  BY <1>1, HeadStep DEF Lands, Decides
<1> QED
  BY <1>1, PTL DEF Spec, NoPublishWhileInactive

-----------------------------------------------------------------------------
(* Refinement *)

Accepted == {<<att[c.bundle].req, c.parent, c.commit>> : c \in commits}

LEMMA AcceptedFrame ==
  ASSUME HistoryInv, [Next]_vars, NEW c \in commits
  PROVE  att'[c.bundle].req = att[c.bundle].req
<1>1. c.bundle \in Attempts /\ RowOK(c)
  BY DEF HistoryInv, TypeOK, CommitRow
<1>2. att[c.bundle].pc # "idle"
  BY <1>1 DEF RowOK, HistoryInv, CallOK
<1> QED
  BY <1>1, <1>2, CallFrame DEF HistoryInv, SameCall

LEMMA StoreStep == ASSUME HistoryInv, [Next]_vars PROVE [Store!Next]_(Store!hvars)
<1>1. CASE UNCHANGED <<repo, commits>>
  <2>1. Accepted' = Accepted
    BY <1>1, AcceptedFrame DEF Accepted
  <2> QED
    BY <1>1, <2>1 DEF Store!hvars, Accepted
<1>2. ASSUME NEW a \in Attempts, Lands(a) PROVE Store!Next
  <2> PICK r \in Requests, e \in Edit : r = att[a].req /\ e = EditOf(a)
    BY <1>2, LandsEffect DEF HistoryInv, TypeOK
  <2> DEFINE row == [commit |-> att[a].commit, parent |-> repo.head, gen |-> repo.gen + 1,
                     bundle |-> a, publishedAt |-> att[a].at]
  <2>1. /\ att[a].pc # "idle" /\ repo.gen = Len(repo.head)
        /\ repo.head \in Seq(Edit)
        /\ att[a].commit = Append(repo.head, e)
        /\ repo'.head = att[a].commit
        /\ commits' = commits \cup {row}
    BY <1>2, LandsEffect
  <2>2. att'[a].req = r
    BY <2>1, CallFrame DEF HistoryInv, SameCall
  <2>3. Accepted' = Accepted \cup {<<r, repo.head, repo'.head>>}
    <3>1. Accepted' = {<<att'[c.bundle].req, c.parent, c.commit>> : c \in commits'}
      BY DEF Accepted
    <3>2. <<att'[row.bundle].req, row.parent, row.commit>> = <<r, repo.head, repo'.head>>
      BY <2>1, <2>2
    <3> HIDE DEF row
    <3> QED
      BY <2>1, <3>1, <3>2, AcceptedFrame DEF Accepted
  <2>4. ASSUME NEW c \in commits PROVE c.parent # repo.head
    <3>1. c.gen \in 1 .. repo.gen /\ c.parent = SubSeq(repo.head, 1, c.gen - 1)
      BY DEF HistoryInv, LinearHistory
    <3>2. Len(c.parent) = c.gen - 1
      BY <2>1, <3>1
    <3> QED
      BY <2>1, <3>1, <3>2
  <2>5. \A x \in Accepted : x[1] = r => x[2] # repo.head
    BY <2>4 DEF Accepted
  <2> HIDE DEF row
  <2>6. Store!Accept(r, e)
    BY <2>1, <2>3, <2>5 DEF Store!Accept, Accepted
  <2> QED
    BY <2>6 DEF Store!Next
<1> QED
  BY <1>1, <1>2, HeadStep

(***************************************************************************)
(* Publisher, network, object store, collector and database together are   *)
(* a compare-and-append log (publisher.ts:259-271).                        *)
(***************************************************************************)
THEOREM PublicationIsAppendOnly == Spec => ImplementsHistoryStore
<1>1. Init => Store!Init
  BY DEF Init, NoRepo, Store!Init
<1> QED
  BY <1>1, HistoryInvariant, StoreStep, PTL DEF Spec, ImplementsHistoryStore, Store!Spec

-----------------------------------------------------------------------------
(* Time: what the collector keeps, and the window of a request id *)

(***************************************************************************)
(* The collector's grace period covers the longest publication: the time   *)
(* to prepare, the time uploads may be held, and one exchange with D1.     *)
(***************************************************************************)
GraceCoversCalls == LongestCall <= Grace

LastAt(c) == c[Len(c)].at

(***************************************************************************)
(* How far a call can be behind its own start.                             *)
(***************************************************************************)
Uploading(a) == att[a].pc \in {"bundled", "uploaded"}

Exchanging(a) ==
  att[a].pc \in {"sent", "unknown", "resend", "resent", "diagnose"} \/ InFlight(a)

ClockOK(a) ==
  /\ att[a].at <= now
  /\ Uploading(a) => att[a].began <= att[a].at + MaxPrepare
  /\ Exchanging(a) => att[a].sent <= att[a].at + MaxPrepare + MaxUploadAge

ClockInv == HistoryInv /\ \A a \in Attempts : ClockOK(a)

(***************************************************************************)
(* Objects are no older than the commit they belong to, and a call that    *)
(* may still publish has its objects.                                      *)
(***************************************************************************)
ObjectsDated ==
  /\ \A s \in snaps : s.commit # <<>> /\ LastAt(s.commit) <= s.up
  /\ \A a \in Attempts : bundles[a] # None =>
       att[a].pc # "idle" /\ att[a].at <= bundles[a]

TooLate(a) == att[a].at + Grace < now

Held(a) ==
  /\ Uploading(a) \/ Exchanging(a) => TooLate(a) \/ bundles[a] # None
  /\ att[a].pc = "uploaded" \/ Exchanging(a) => TooLate(a) \/ Stored(att[a].commit) # {}

(***************************************************************************)
(* What a collection pass holds: only objects too old to be published any  *)
(* more, and, once it read the references, none that is published.         *)
(***************************************************************************)
PassOK ==
  /\ col.pc # "idle" =>
       /\ col.now <= now
       /\ \A a \in col.bundles : att[a].pc # "idle" /\ att[a].at + Grace < col.now
       /\ \A c \in col.snaps : c # <<>> /\ LastAt(c) + Grace < col.now
  /\ col.pc = "deleting" =>
       /\ repo.gen > 0 => repo.bundle \notin col.bundles
       /\ \A c \in commits : c.commit \notin col.snaps

ObjectsInv ==
  /\ ClockInv
  /\ repo.gen > 0 => repo.bundle \in Attempts
  /\ ObjectsDated
  /\ \A a \in Attempts : Held(a)
  /\ PassOK
  /\ NoDanglingObjects

(***************************************************************************)
(* A publication's request row is kept for its retention.                  *)
(***************************************************************************)
RowKept(c) ==
  \/ c.publishedAt + Retention <= now
  \/ \E q \in requests : q.req = att[c.bundle].req /\ q.expires = c.publishedAt + Retention

RequestsInv == ClockInv /\ (\A c \in commits : RowKept(c)) /\ RequestOnce
-----------------------------------------------------------------------------
(* Clocks *)

LEMMA TimeMoves ==
  ASSUME TypeOK, [Next]_vars
  PROVE  now \in Nat /\ now' \in Nat /\ now <= now' /\ (now' = now \/ UNCHANGED <<att, wire, col>>)
<1>1. now \in Nat /\ now + 1 \in Nat
  BY TimeAssumption DEF TypeOK
<1>2. now' = now \/ Tick
  BY DEF Next, Publisher, Network, Collector, Start, Prepare, PutBundle,
     PutSnapshot, Send, Timeout, Reconcile, Resend, Diagnose, Deliver, ListObjects, ReadReferences,
     EndPass, ExpireRequests, DeleteBundle, DeleteSnapshot, ArchiveOrRestore, vars
<1>3. CASE now' = now
  BY <1>1, <1>3
<1>4. CASE Tick
  BY <1>1, <1>4 DEF Tick
<1> QED
  BY <1>2, <1>3, <1>4

LEMMA AttemptTimes ==
  ASSUME TypeOK, NEW b \in Attempts
  PROVE  /\ att[b] \in Attempt
         /\ att[b].at \in Nat /\ att[b].began \in Nat /\ att[b].sent \in Nat
BY TimeAssumption DEF TypeOK, Attempt

(***************************************************************************)
(* The steps of D1's answer keep the clocks of a call that is exchanging.  *)
(***************************************************************************)
LEMMA AnswerClock ==
  ASSUME ClockInv, NEW b \in Attempts, Exchanging(b), NEW pc, NEW out,
         pc \notin {"bundled", "uploaded"}, att' = Becomes(b, pc, out), now' = now
  PROVE  ClockOK(b)'
<1>1. att[b] \in Attempt /\ att \in [Attempts -> Attempt]
  BY DEF ClockInv, HistoryInv, TypeOK
<1>2. att'[b] = [att[b] EXCEPT !.pc = pc, !.out = out]
  BY <1>1 DEF Becomes
<1>3. att'[b].pc = pc /\ att'[b].at = att[b].at /\ att'[b].sent = att[b].sent
  BY <1>1, <1>2 DEF Attempt
<1> QED
  BY <1>3 DEF ClockInv, ClockOK, Uploading

LEMMA ClockStep ==
  ASSUME ClockInv, [Next]_vars, NEW b \in Attempts
  PROVE  ClockOK(b)'
<1>1. att[b] \in Attempt /\ att \in [Attempts -> Attempt] /\ TypeOK
  BY DEF ClockInv, HistoryInv, TypeOK
<1>2. now \in Nat /\ now' \in Nat /\ now <= now'
  BY <1>1, TimeMoves
<1>3. att[b].at \in Nat /\ att[b].began \in Nat /\ att[b].sent \in Nat /\ ClockOK(b)
  BY <1>1, AttemptTimes DEF ClockInv
<1>4. ASSUME att'[b] = att[b], InFlight(b)' => InFlight(b) PROVE ClockOK(b)'
  BY <1>2, <1>3, <1>4 DEF ClockOK, Uploading, Exchanging
<1>5. ASSUME NEW a \in Attempts, Publisher(a) PROVE ClockOK(b)'
  <2>1. CASE a # b
    <3>1. att'[b] = att[b]
      BY <1>1, <1>5, <2>1 DEF Publisher, Start, Prepare, PutBundle, PutSnapshot, Send, Timeout,
            Reconcile, Resend, Diagnose, Becomes
    <3>2. wire' \subseteq wire \cup {<<a, 1>>, <<a, 2>>}
      BY <1>5 DEF Publisher, Start, Prepare, PutBundle, PutSnapshot, Send, Timeout, Reconcile,
                  Resend, Diagnose
    <3> QED
      BY <1>4, <2>1, <3>1, <3>2 DEF InFlight
  <2>2. CASE a = b
    <3>1. CASE Start(b)
      <4>1. att'[b].at = now /\ att'[b].pc \in {"read", "done"} /\ now' = now
        BY <1>1, <3>1 DEF Start
      <4>2. ~ InFlight(b)'
        BY <3>1 DEF Start, ClockInv, HistoryInv, TypeOK, InFlight
      <4> QED
        BY <1>2, <4>1, <4>2 DEF ClockOK, Uploading, Exchanging
    <3>2. CASE Prepare(b)
      <4>1. ~ InFlight(b)' /\ now' = now
        BY <3>2 DEF Prepare, ClockInv, HistoryInv, CallOK, InFlight
      <4>2. att'[b].pc \in {"done", "prepared"} /\ att'[b].at = att[b].at
        <5>1. CASE \E out : att' = Becomes(b, "done", out)
          <6>1. PICK out : att'[b] = [att[b] EXCEPT !.pc = "done", !.out = out]
            BY <1>1, <5>1 DEF Becomes
          <6> QED
            BY <1>1, <6>1 DEF Attempt
        <5>2. CASE ~ \E out : att' = Becomes(b, "done", out)
          <6>1. PICK c : att' = [att EXCEPT ![b].pc = "prepared", ![b].commit = c]
            BY <3>2, <5>2 DEF Prepare
          <6>2. att'[b] = [att[b] EXCEPT !.pc = "prepared", !.commit = c]
            BY <1>1, <6>1
          <6> QED
            BY <1>1, <6>2 DEF Attempt
        <5> QED
          BY <5>1, <5>2
      <4> QED
        BY <1>3, <4>1, <4>2 DEF ClockOK, Uploading, Exchanging
    <3>3. CASE PutBundle(b)
      <4>1. att'[b] = [att[b] EXCEPT !.pc = "bundled", !.began = now]
        BY <1>1, <3>3 DEF PutBundle
      <4>2. /\ att'[b].pc = "bundled" /\ att'[b].began = now /\ att'[b].at = att[b].at
            /\ att'[b].sent = att[b].sent
        BY <1>1, <4>1 DEF Attempt
      <4>3. now <= att[b].at + MaxPrepare
        BY <1>2, <1>3, <3>3, TimeAssumption DEF PutBundle
      <4> QED
        BY <1>3, <3>3, <4>2, <4>3 DEF PutBundle, ClockOK, Uploading, Exchanging, InFlight
    <3>4. CASE PutSnapshot(b)
      <4>1. att'[b] = [att[b] EXCEPT !.pc = "uploaded"]
        BY <1>1, <3>4 DEF PutSnapshot
      <4>2. /\ att'[b].pc = "uploaded" /\ att'[b].began = att[b].began
            /\ att'[b].at = att[b].at /\ att'[b].sent = att[b].sent
        BY <1>1, <4>1 DEF Attempt
      <4> QED
        BY <1>3, <3>4, <4>2 DEF PutSnapshot, ClockOK, Uploading, Exchanging, InFlight
    <3>5. CASE Send(b)
      <4>1. CASE att' = Becomes(b, "done", "stale") /\ UNCHANGED wire
        <5>1. att'[b] = [att[b] EXCEPT !.pc = "done", !.out = "stale"]
          BY <1>1, <4>1 DEF Becomes
        <5>2. att'[b].pc = "done" /\ att'[b].at = att[b].at /\ att'[b].sent = att[b].sent
          BY <1>1, <5>1 DEF Attempt
        <5> QED
          BY <1>3, <3>5, <4>1, <5>2 DEF Send, ClockOK, Uploading, Exchanging, InFlight
      <4>2. CASE att' = [att EXCEPT ![b].pc = "sent", ![b].sent = now]
                 /\ ~ (now - att[b].began > MaxUploadAge)
        <5>1. att'[b] = [att[b] EXCEPT !.pc = "sent", !.sent = now]
          BY <1>1, <4>2
        <5>2. att'[b].pc = "sent" /\ att'[b].at = att[b].at /\ att'[b].sent = now
          BY <1>1, <5>1 DEF Attempt
        <5>3. att[b].began <= att[b].at + MaxPrepare
          BY <1>3, <3>5 DEF Send, ClockOK, Uploading
        <5>4. now <= att[b].at + MaxPrepare + MaxUploadAge
          BY <1>2, <1>3, <4>2, <5>3, TimeAssumption
        <5> QED
          BY <1>3, <3>5, <5>2, <5>4 DEF Send, ClockOK, Uploading
      <4> QED
        BY <3>5, <4>1, <4>2 DEF Send
    <3>6. CASE Timeout(b)
      BY <3>6, AnswerClock DEF Timeout, Exchanging
    <3>7. CASE Reconcile(b)
      BY <3>7, AnswerClock DEF Reconcile, Exchanging
    <3>8. CASE Resend(b)
      BY <3>8, AnswerClock DEF Resend, Exchanging
    <3>9. CASE Diagnose(b)
      BY <3>9, AnswerClock DEF Diagnose, Exchanging
    <3> QED
      BY <1>5, <2>2, <3>1, <3>2, <3>3, <3>4, <3>5, <3>6, <3>7, <3>8, <3>9 DEF Publisher
  <2> QED
    BY <2>1, <2>2
<1>6. ASSUME NEW a \in Attempts, NEW c \in {1, 2}, Deliver(a, c) PROVE ClockOK(b)'
  <2>1. (InFlight(b)' => InFlight(b)) /\ now' = now
    BY <1>6 DEF Deliver, InFlight
  <2>2. CASE att'[b] # att[b]
    <3>1. a = b /\ \E pc \in {"done", "diagnose"} : \E out : att' = Becomes(a, pc, out)
      BY <1>1, <1>6, <2>2 DEF Deliver, Heard, Reply, Becomes
    <3>2. Exchanging(b)
      BY <1>6, <3>1 DEF Deliver, Exchanging, InFlight
    <3> QED
      BY <2>1, <3>1, <3>2, AnswerClock
  <2> QED
    BY <1>4, <2>1, <2>2
<1>7. CASE UNCHANGED <<att, wire>>
  BY <1>4, <1>7 DEF InFlight
<1> QED
  BY <1>5, <1>6, <1>7 DEF Next, Network, Collector, ListObjects, ReadReferences, EndPass,
       ExpireRequests, DeleteBundle, DeleteSnapshot, ArchiveOrRestore, Tick, vars

LEMMA ClockInit == Init => ClockInv
<1>1. Init => \A a \in Attempts : ClockOK(a)
  BY TimeAssumption DEF Init, IdleAttempt, ClockOK, Uploading, Exchanging, InFlight
<1> QED
  BY <1>1, HistoryInit DEF ClockInv

LEMMA ClockInvStep == ASSUME ClockInv, [Next]_vars PROVE ClockInv'
BY HistoryStep, ClockStep DEF ClockInv

-----------------------------------------------------------------------------
(* One publication per request id *)

LEMMA RequestRowsStay ==
  ASSUME TypeOK, [Next]_vars, NEW q \in requests, q.expires > now
  PROVE  q \in requests'
<1>1. CASE ExpireRequests
  <2>1. q.expires \in Nat /\ now \in Nat
    BY TimeAssumption DEF TypeOK, RequestRow
  <2>2. q \notin {r \in requests : r.expires <= now}
    BY <2>1
  <2> QED
    BY <1>1, <2>2 DEF ExpireRequests
<1>2. ASSUME NEW a \in Attempts, NEW c \in {1, 2}, Deliver(a, c) PROVE q \in requests'
  BY <1>2 DEF Deliver, ApplyBatch
<1>3. ASSUME NEW a \in Attempts, Publisher(a) PROVE q \in requests'
  BY <1>3 DEF Publisher, Start, Prepare, PutBundle, PutSnapshot, Send, Timeout, Reconcile,
              Resend, Diagnose, d1
<1> QED
  BY <1>1, <1>2, <1>3 DEF Next, Network, Collector, ListObjects, ReadReferences, EndPass,
     DeleteBundle, DeleteSnapshot, ArchiveOrRestore, Tick, vars, d1

(***************************************************************************)
(* A batch lands within the longest call, counted from the call's start.   *)
(***************************************************************************)
LEMMA LandsInTime ==
  ASSUME ClockInv, NEW a \in Attempts, Lands(a)
  PROVE  att[a].at <= now /\ now <= att[a].at + LongestCall
<1>1. att[a].at \in Nat /\ att[a].sent \in Nat /\ now \in Nat
  BY AttemptTimes, TimeAssumption DEF ClockInv, HistoryInv, TypeOK
<1>2. att[a].at <= now /\ att[a].sent <= att[a].at + MaxPrepare + MaxUploadAge
  BY DEF ClockInv, ClockOK, Exchanging, Lands
<1>3. now <= att[a].sent + MaxExchange
  BY <1>1, TimeAssumption DEF Lands
<1> QED
  BY <1>1, <1>2, <1>3, TimeAssumption DEF LongestCall

LEMMA KeptStep ==
  ASSUME RequestsInv, [Next]_vars, NEW c \in commits'
  PROVE  RowKept(c)'
<1>1. now \in Nat /\ now' \in Nat /\ now <= now'
  BY TimeMoves DEF RequestsInv, ClockInv, HistoryInv
<1>2. CASE c \in commits
  <2>1. c.publishedAt \in Nat /\ RowKept(c)
    BY <1>2 DEF RequestsInv, ClockInv, HistoryInv, TypeOK, CommitRow
  <2>2. att'[c.bundle].req = att[c.bundle].req
    BY <1>2, AcceptedFrame DEF RequestsInv, ClockInv
  <2>3. CASE c.publishedAt + Retention <= now
    BY <1>1, <2>1, <2>3, TimeAssumption DEF RowKept
  <2>4. CASE ~ (c.publishedAt + Retention <= now)
    <3>1. PICK q \in requests : q.req = att[c.bundle].req /\ q.expires = c.publishedAt + Retention
      BY <2>1, <2>4 DEF RowKept
    <3>2. q.expires > now
      BY <1>1, <2>1, <2>4, <3>1, TimeAssumption
    <3> QED
      BY <2>2, <3>1, <3>2, RequestRowsStay DEF RowKept, RequestsInv, ClockInv, HistoryInv
  <2> QED
    BY <2>3, <2>4
<1>3. ASSUME NEW a \in Attempts, Lands(a), c \notin commits PROVE RowKept(c)'
  <2>1. c.bundle = a /\ c.publishedAt = att[a].at /\ att[a].pc # "idle"
    BY <1>3, LandsEffect DEF RequestsInv, ClockInv
  <2>2. att'[a].req = att[a].req
    BY <2>1, CallFrame DEF RequestsInv, ClockInv, HistoryInv, SameCall
  <2>3. [req |-> att[a].req, input |-> InputOf(a), commit |-> att[a].commit,
         expires |-> att[a].at + Retention] \in requests'
    BY <1>3 DEF Lands, ApplyBatch
  <2> QED
    BY <2>1, <2>2, <2>3 DEF RowKept
<1> QED
  BY <1>2, <1>3, HeadStep

LEMMA OnceStep == ASSUME RequestsInv, [Next]_vars PROVE RequestOnce'
<1> SUFFICES ASSUME NEW c \in commits', NEW d \in commits',
                    att'[c.bundle].req = att'[d.bundle].req, c.gen < d.gen
             PROVE  d.publishedAt + LongestCall >= c.publishedAt + Retention
  BY DEF RequestOnce, LongestCall
<1> USE DEF RequestsInv, ClockInv
<1>1. CASE c \in commits /\ d \in commits
  BY <1>1, AcceptedFrame DEF RequestOnce
<1>2. ASSUME NEW a \in Attempts, Lands(a), c \in commits, d \notin commits
      PROVE  d.publishedAt + LongestCall >= c.publishedAt + Retention
  <2>1. d.bundle = a /\ d.publishedAt = att[a].at /\ att[a].pc # "idle"
    BY <1>2, LandsEffect
  <2>2. att[c.bundle].req = att[a].req
    BY <1>2, <2>1, AcceptedFrame, CallFrame DEF HistoryInv, SameCall
  <2>3. \A q \in requests : q.req # att[a].req
    BY <1>2 DEF Lands, Decides, Recorded
  <2>4. c.publishedAt + Retention <= now
    BY <1>2, <2>2, <2>3 DEF RowKept
  <2>5. now <= att[a].at + LongestCall
    BY <1>2, LandsInTime
  <2>6. att[a].at \in Nat /\ now \in Nat /\ c.publishedAt \in Nat
    BY <1>2, AttemptTimes, TimeAssumption DEF HistoryInv, TypeOK, CommitRow
  <2> QED
    BY <2>1, <2>4, <2>5, <2>6, TimeAssumption DEF LongestCall
<1>3. ASSUME NEW a \in Attempts, Lands(a), c \notin commits PROVE FALSE
  <2>1. c.gen = repo.gen + 1 /\ repo.gen \in Nat /\ (d \in commits \/ d = c)
    BY <1>3, LandsEffect DEF HistoryInv, TypeOK, RepoRow
  <2>2. d \in commits => d.gen \in 1 .. repo.gen
    BY DEF HistoryInv, LinearHistory
  <2> QED
    BY <2>1, <2>2
<1> QED
  BY <1>1, <1>2, <1>3, HeadStep

(***************************************************************************)
(* A request id publishes once until its row has been kept for its         *)
(* retention (publisher.ts deciding statement, maintenance.ts expiry).     *)
(***************************************************************************)
THEOREM RequestsPublishOnce == Spec => []RequestOnce
<1>1. Init => RequestsInv
  BY ClockInit DEF Init, RequestsInv, RequestOnce
<1>2. RequestsInv /\ [Next]_vars => RequestsInv'
  BY ClockInvStep, KeptStep, OnceStep DEF RequestsInv
<1>3. RequestsInv => RequestOnce
  BY DEF RequestsInv
<1> QED
  BY <1>1, <1>2, <1>3, PTL DEF Spec

-----------------------------------------------------------------------------
(* The collector *)

(***************************************************************************)
(* Who changes the objects.                                                *)
(***************************************************************************)
LEMMA ObjectSteps ==
  ASSUME [Next]_vars
  PROVE  \/ UNCHANGED <<bundles, snaps>>
         \/ \E a \in Attempts : PutBundle(a) \/ PutSnapshot(a) \/ DeleteBundle(a)
         \/ \E c \in col.snaps : DeleteSnapshot(c)
BY DEF Next, Publisher, Network, Start, Prepare, Send, Timeout, Reconcile, Resend, Diagnose,
   Deliver, Collector, ListObjects, ReadReferences, EndPass, ExpireRequests, ArchiveOrRestore,
   Tick, vars, r2

LEMMA LastOfCommit ==
  ASSUME HistoryInv, NEW a \in Attempts, att[a].commit # <<>>
  PROVE  LastAt(att[a].commit) = att[a].at
<1>1. att[a].pc # "idle" /\ att[a].commit = Append(att[a].base, EditOf(a))
  BY DEF HistoryInv, CallOK
<1>2. EditOf(a) \in Edit /\ att[a].base \in Seq(Edit)
  BY <1>1 DEF HistoryInv, TypeOK, Attempt, Edit, EditOf, Commit
<1>3. Append(att[a].base, EditOf(a))[Len(Append(att[a].base, EditOf(a)))] = EditOf(a)
  BY <1>2
<1> QED
  BY <1>1, <1>3 DEF LastAt, EditOf

LEMMA DatedStep == ASSUME ObjectsInv, [Next]_vars PROVE ObjectsDated'
<1> USE DEF ObjectsInv, ClockInv, HistoryInv
<1>1. \A a \in Attempts : att[a].pc # "idle" => att'[a].pc # "idle" /\ att'[a].at = att[a].at
  BY CallFrame DEF SameCall
<1>2. CASE UNCHANGED <<bundles, snaps>>
  BY <1>1, <1>2 DEF ObjectsDated
<1>3. ASSUME NEW a \in Attempts, PutBundle(a) PROVE ObjectsDated'
  <2>1. att[a].pc # "idle" /\ att[a].at <= now
    BY <1>3 DEF PutBundle, ClockOK
  <2>2. UNCHANGED snaps /\ bundles' = [bundles EXCEPT ![a] = now]
    BY <1>3 DEF PutBundle
  <2> QED
    BY <1>1, <2>1, <2>2 DEF ObjectsDated, TypeOK
<1>4. ASSUME NEW a \in Attempts, PutSnapshot(a) PROVE ObjectsDated'
  <2>1. /\ att[a].commit # <<>> /\ att[a].pc # "idle" /\ att[a].at <= now
    BY <1>4 DEF PutSnapshot, CallOK, ClockOK
  <2>2. LastAt(att[a].commit) = att[a].at
    BY <2>1, LastOfCommit
  <2>3. /\ snaps' \subseteq snaps \cup {[commit |-> att[a].commit, up |-> now]}
        /\ UNCHANGED bundles
    BY <1>4 DEF PutSnapshot
  <2> QED
    BY <1>1, <2>1, <2>2, <2>3 DEF ObjectsDated
<1>5. ASSUME NEW a \in Attempts, DeleteBundle(a) PROVE ObjectsDated'
  BY <1>1, <1>5 DEF ObjectsDated, DeleteBundle, TypeOK
<1>6. ASSUME NEW c, DeleteSnapshot(c) PROVE ObjectsDated'
  BY <1>1, <1>6 DEF ObjectsDated, DeleteSnapshot
<1> QED
  BY <1>2, <1>3, <1>4, <1>5, <1>6, ObjectSteps

LEMMA PassStep ==
  ASSUME GraceCoversCalls, ObjectsInv, [Next]_vars
  PROVE  PassOK'
<1> USE DEF ObjectsInv, ClockInv, HistoryInv
<1>1. \A a \in Attempts : att[a].pc # "idle" => att'[a].pc # "idle" /\ att'[a].at = att[a].at
  BY CallFrame DEF SameCall
<1>2. now \in Nat /\ now' \in Nat /\ now <= now'
  BY TimeMoves
<1>3. col.bundles \subseteq Attempts /\ col.now \in Nat
  BY DEF TypeOK
<1>4. CASE UNCHANGED <<repo, commits, col>>
  BY <1>1, <1>2, <1>3, <1>4 DEF PassOK
<1>5. ASSUME NEW a \in Attempts, Lands(a) PROVE PassOK'
  <2>1. UNCHANGED <<col, now>>
    BY <1>5 DEF Lands
  <2>2. att[a].commit # <<>> /\ att[a].at \in Nat
    BY <1>5, AttemptTimes DEF Lands, CallOK
  <2>3. LastAt(att[a].commit) = att[a].at
    BY <2>2, LastOfCommit
  <2>4. now <= att[a].at + LongestCall
    BY <1>5, LandsInTime
  <2>5. ~ (att[a].at + Grace < now)
    BY <1>2, <2>2, <2>4, TimeAssumption DEF GraceCoversCalls, LongestCall
  <2>6. col.pc # "idle" => a \notin col.bundles /\ att[a].commit \notin col.snaps
    BY <1>2, <1>3, <2>2, <2>3, <2>5, TimeAssumption DEF PassOK
  <2>7. /\ repo'.bundle = a
        /\ commits' = commits \cup {[commit |-> att[a].commit, parent |-> repo.head,
                                     gen |-> repo.gen + 1, bundle |-> a,
                                     publishedAt |-> att[a].at]}
    BY <1>5, LandsEffect
  <2> QED
    BY <1>1, <1>3, <2>1, <2>6, <2>7 DEF PassOK
<1>6. CASE ListObjects
  <2>1. \A a \in Attempts : Old(bundles[a]) => att[a].pc # "idle" /\ att[a].at + Grace < now
    <3> TAKE a \in Attempts
    <3>1. att[a].at \in Nat /\ bundles[a] \in Nat \cup {None}
      BY AttemptTimes DEF TypeOK
    <3> QED
      BY <1>2, <3>1, TimeAssumption DEF ObjectsDated, Old
  <2>2. \A s \in snaps : Old(s.up) => s.commit # <<>> /\ LastAt(s.commit) + Grace < now
    <3> TAKE s \in snaps
    <3>1. s.up \in Nat /\ s.commit \in Commit
      BY DEF TypeOK, Snapshot
    <3>2. s.commit # <<>> /\ LastAt(s.commit) <= s.up
      BY DEF ObjectsDated
    <3>3. LastAt(s.commit) \in Nat
      <4>1. Len(s.commit) \in 1 .. Len(s.commit)
        BY <3>1, <3>2 DEF Commit
      <4>2. s.commit[Len(s.commit)] \in Edit
        BY <3>1, <4>1 DEF Commit
      <4> QED
        BY <4>2, TimeAssumption DEF Edit, LastAt
    <3> QED
      BY <1>2, <3>1, <3>2, <3>3, TimeAssumption DEF Old
  <2>3. col' = [pc |-> "listed", now |-> now,
                bundles |-> {a \in Attempts : Old(bundles[a])},
                snaps |-> {s.commit : s \in {t \in snaps : Old(t.up)}}]
        /\ UNCHANGED <<now, att>>
    BY <1>6 DEF ListObjects
  <2> QED
    BY <1>2, <2>1, <2>2, <2>3 DEF PassOK
<1>7. CASE ReadReferences
  <2>1. /\ col' = [col EXCEPT !.pc = "deleting", !.bundles = col.bundles \ ReferencedBundles,
                              !.snaps = col.snaps \ ReferencedSnapshots]
        /\ col.pc = "listed" /\ UNCHANGED <<now, repo, commits, att>>
    BY <1>7 DEF ReadReferences, d1
  <2>2. /\ col'.pc = "deleting" /\ col'.now = col.now
        /\ col'.bundles = col.bundles \ ReferencedBundles
        /\ col'.snaps = col.snaps \ ReferencedSnapshots
    BY <2>1 DEF TypeOK
  <2>3. repo.bundle \in ReferencedBundles /\ \A c \in commits : c.commit \in ReferencedSnapshots
    BY DEF ReferencedBundles, ReferencedSnapshots
  <2> QED
    BY <2>1, <2>2, <2>3 DEF PassOK
<1>8. CASE EndPass
  BY <1>8 DEF EndPass, PassOK
<1>9. ASSUME NEW a \in Attempts, DeleteBundle(a) PROVE PassOK'
  <2>1. /\ col'.pc = col.pc /\ col'.now = col.now /\ col'.snaps = col.snaps
        /\ col'.bundles = col.bundles \ {a} /\ UNCHANGED <<now, repo, commits, att>>
    BY <1>9 DEF DeleteBundle, d1, TypeOK
  <2> QED
    BY <2>1 DEF PassOK
<1>10. ASSUME NEW c, DeleteSnapshot(c) PROVE PassOK'
  <2>1. /\ col'.pc = col.pc /\ col'.now = col.now /\ col'.bundles = col.bundles
        /\ col'.snaps = col.snaps \ {c} /\ UNCHANGED <<now, repo, commits, att>>
    BY <1>10 DEF DeleteSnapshot, d1, TypeOK
  <2> QED
    BY <2>1 DEF PassOK
<1>11. \/ UNCHANGED col
       \/ ListObjects \/ ReadReferences \/ EndPass
       \/ \E a \in Attempts : DeleteBundle(a)
       \/ \E c \in col.snaps : DeleteSnapshot(c)
  BY DEF Next, Publisher, Network, Start, Prepare, PutBundle, PutSnapshot, Send, Timeout,
     Reconcile, Resend, Diagnose, Deliver, Collector, ExpireRequests, ArchiveOrRestore, Tick, vars
<1> QED
  BY <1>4, <1>5, <1>6, <1>7, <1>8, <1>9, <1>10, <1>11, HeadStep

(***************************************************************************)
(* How a call comes to hold objects: it uploads them.                      *)
(***************************************************************************)
LEMMA HoldingStarts ==
  ASSUME HistoryInv, [Next]_vars, NEW b \in Attempts
  PROVE  /\ (Uploading(b) \/ Exchanging(b))' => Uploading(b) \/ Exchanging(b) \/ PutBundle(b)
         /\ (att[b].pc = "uploaded" \/ Exchanging(b))' =>
              att[b].pc = "uploaded" \/ Exchanging(b) \/ PutSnapshot(b)
<1> DEFINE Goal == /\ (Uploading(b) \/ Exchanging(b))' =>
                        Uploading(b) \/ Exchanging(b) \/ PutBundle(b)
                   /\ (att[b].pc = "uploaded" \/ Exchanging(b))' =>
                        att[b].pc = "uploaded" \/ Exchanging(b) \/ PutSnapshot(b)
<1>1. att[b] \in Attempt /\ att \in [Attempts -> Attempt]
  BY DEF HistoryInv, TypeOK
<1>2. ASSUME att'[b] = att[b], InFlight(b)' => InFlight(b) PROVE Goal
  BY <1>2 DEF Uploading, Exchanging
<1>3. ASSUME Exchanging(b) \/ att[b].pc = "uploaded" PROVE Goal
  BY <1>3 DEF Uploading
<1>4. ASSUME NEW a \in Attempts, Publisher(a) PROVE Goal
  <2>1. CASE a # b
    <3>1. att'[b] = att[b]
      BY <1>1, <1>4, <2>1 DEF Publisher, Start, Prepare, PutBundle, PutSnapshot, Send, Timeout,
            Reconcile, Resend, Diagnose, Becomes
    <3>2. wire' \subseteq wire \cup {<<a, 1>>, <<a, 2>>}
      BY <1>4 DEF Publisher, Start, Prepare, PutBundle, PutSnapshot, Send, Timeout, Reconcile,
                  Resend, Diagnose
    <3> QED
      BY <1>2, <2>1, <3>1, <3>2 DEF InFlight
  <2>2. CASE a = b
    <3>1. CASE Start(b) \/ Prepare(b)
      <4>1. ~ InFlight(b)'
        BY <3>1 DEF Start, Prepare, HistoryInv, CallOK, InFlight
      <4>2. att'[b].pc \in {"read", "done", "prepared"}
        <5>1. CASE Start(b)
          BY <1>1, <5>1 DEF Start
        <5>2. CASE Prepare(b)
          <6>1. \/ \E out : att' = Becomes(b, "done", out)
                \/ \E c : att' = [att EXCEPT ![b].pc = "prepared", ![b].commit = c]
            BY <5>2 DEF Prepare
          <6>2. CASE \E out : att' = Becomes(b, "done", out)
            <7>1. PICK out : att'[b] = [att[b] EXCEPT !.pc = "done", !.out = out]
              BY <1>1, <6>2 DEF Becomes
            <7> QED
              BY <1>1, <7>1 DEF Attempt
          <6>3. CASE \E c : att' = [att EXCEPT ![b].pc = "prepared", ![b].commit = c]
            <7>1. PICK c : att'[b] = [att[b] EXCEPT !.pc = "prepared", !.commit = c]
              BY <1>1, <6>3
            <7> QED
              BY <1>1, <7>1 DEF Attempt
          <6> QED
            BY <6>1, <6>2, <6>3
        <5> QED
          BY <3>1, <5>1, <5>2
      <4> QED
        BY <4>1, <4>2 DEF Uploading, Exchanging
    <3>2. CASE PutBundle(b)
      <4>1. att'[b].pc = "bundled" /\ (InFlight(b)' => InFlight(b))
        BY <1>1, <3>2 DEF PutBundle, InFlight
      <4> QED
        BY <3>2, <4>1 DEF Exchanging
    <3>3. CASE PutSnapshot(b)
      BY <3>3 DEF PutSnapshot, Uploading
    <3>4. CASE Send(b) \/ Timeout(b) \/ Reconcile(b) \/ Resend(b) \/ Diagnose(b)
      BY <1>3, <3>4 DEF Send, Timeout, Reconcile, Resend, Diagnose, Exchanging
    <3> QED
      BY <1>4, <2>2, <3>1, <3>2, <3>3, <3>4 DEF Publisher
  <2> QED
    BY <2>1, <2>2
<1>5. ASSUME NEW a \in Attempts, NEW c \in {1, 2}, Deliver(a, c) PROVE Goal
  <2>1. CASE a = b
    BY <1>3, <1>5, <2>1 DEF Deliver, Exchanging, InFlight
  <2>2. CASE a # b
    BY <1>1, <1>2, <1>5, <2>2 DEF Deliver, Heard, Reply, Becomes, InFlight
  <2> QED
    BY <2>1, <2>2
<1>6. CASE UNCHANGED <<att, wire>>
  BY <1>2, <1>6 DEF InFlight
<1> QED
  BY <1>4, <1>5, <1>6 DEF Next, Network, Collector, ListObjects, ReadReferences, EndPass,
       ExpireRequests, DeleteBundle, DeleteSnapshot, ArchiveOrRestore, Tick, vars

(***************************************************************************)
(* The collector leaves alone what a call in time still holds.             *)
(***************************************************************************)
LEMMA ObjectsKept ==
  ASSUME ObjectsInv, [Next]_vars, NEW b \in Attempts, att[b].commit # <<>>, ~ TooLate(b)
  PROVE  /\ bundles[b] # None => bundles'[b] # None
         /\ Stored(att[b].commit) # {} => Stored(att[b].commit)' # {}
<1> USE DEF ObjectsInv, ClockInv, HistoryInv
<1>1. att[b].commit' = att'[b].commit /\ att'[b].commit = att[b].commit
  BY CallFrame DEF SameCall, CallOK
<1>2. now \in Nat /\ col.now \in Nat /\ att[b].at \in Nat
  BY AttemptTimes, TimeAssumption DEF TypeOK
<1>3. LastAt(att[b].commit) = att[b].at
  BY LastOfCommit
<1>4. col.pc # "idle" => b \notin col.bundles /\ att[b].commit \notin col.snaps
  BY <1>2, <1>3, TimeAssumption DEF PassOK, TooLate
<1>5. bundles[b] # None => bundles'[b] # None
  <2>1. CASE UNCHANGED <<bundles, snaps>>
    BY <2>1
  <2>2. ASSUME NEW a \in Attempts, PutBundle(a) PROVE bundles[b] # None => bundles'[b] # None
    BY <1>2, <2>2, NoneAssumption DEF PutBundle, TypeOK
  <2>3. ASSUME NEW a \in Attempts, DeleteBundle(a)
        PROVE bundles[b] # None => bundles'[b] # None
    BY <1>4, <2>3 DEF DeleteBundle, TypeOK
  <2> QED
    BY <2>1, <2>2, <2>3, ObjectSteps DEF PutSnapshot, DeleteSnapshot
<1>6. ASSUME NEW s \in Stored(att[b].commit)
      PROVE  s \in snaps'
  <2>1. s \in snaps /\ s.commit = att[b].commit
    BY DEF Stored
  <2>2. ASSUME NEW c, DeleteSnapshot(c) PROVE s \in snaps'
    <3>1. s.commit # c
      BY <1>4, <2>1, <2>2 DEF DeleteSnapshot
    <3> QED
      BY <2>1, <2>2, <3>1 DEF DeleteSnapshot, Stored
  <2> QED
    BY <2>1, <2>2, ObjectSteps DEF PutBundle, PutSnapshot, DeleteBundle, Stored
<1>7. Stored(att[b].commit) # {} => Stored(att[b].commit)' # {}
  BY <1>1, <1>6 DEF Stored
<1> QED
  BY <1>5, <1>7

LEMMA HeldStep == ASSUME ObjectsInv, [Next]_vars, NEW b \in Attempts PROVE Held(b)'
<1> USE DEF ObjectsInv, ClockInv, HistoryInv
<1>1. now \in Nat /\ now' \in Nat /\ now <= now' /\ att[b].at \in Nat /\ TypeOK
  BY TimeMoves, AttemptTimes
<1>2. CASE (Uploading(b) \/ Exchanging(b))'
  <2>1. att[b].pc # "idle" /\ att[b].commit # <<>>
    BY <1>2, HoldingStarts DEF Uploading, Exchanging, PutBundle, CallOK, InFlight, TypeOK
  <2>2. att'[b].at = att[b].at /\ att'[b].commit = att[b].commit
    BY <2>1, CallFrame DEF SameCall
  <2>3. CASE TooLate(b)
    BY <1>1, <2>2, <2>3, TimeAssumption DEF Held, TooLate
  <2>4. CASE ~ TooLate(b)
    <3>1. bundles'[b] # None
      <4>1. CASE PutBundle(b)
        BY <1>1, <4>1, NoneAssumption DEF PutBundle, TypeOK
      <4>2. CASE Uploading(b) \/ Exchanging(b)
        BY <2>1, <2>4, <4>2, ObjectsKept DEF Held
      <4> QED
        BY <1>2, <4>1, <4>2, HoldingStarts
    <3>2. (att[b].pc = "uploaded" \/ Exchanging(b))' => Stored(att[b].commit)' # {}
      <4>1. CASE PutSnapshot(b)
        <5>1. \E s \in snaps' : s.commit = att[b].commit
          <6>1. CASE Stored(att[b].commit) # {}
            BY <4>1, <6>1 DEF PutSnapshot, Stored
          <6>2. CASE Stored(att[b].commit) = {}
            <7>1. [commit |-> att[b].commit, up |-> now] \in snaps'
              BY <4>1, <6>2 DEF PutSnapshot
            <7> QED
              BY <7>1
          <6> QED
            BY <6>1, <6>2
        <5> QED
          BY <2>2, <5>1 DEF Stored
      <4>2. CASE att[b].pc = "uploaded" \/ Exchanging(b)
        BY <2>1, <2>4, <4>2, ObjectsKept DEF Held
      <4> QED
        BY <4>1, <4>2, HoldingStarts
    <3> QED
      BY <3>1, <3>2 DEF Held
  <2> QED
    BY <2>3, <2>4
<1>3. CASE ~ (Uploading(b) \/ Exchanging(b))'
  BY <1>3 DEF Held, Uploading
<1> QED
  BY <1>2, <1>3

LEMMA DanglingStep ==
  ASSUME GraceCoversCalls, ObjectsInv, [Next]_vars
  PROVE  NoDanglingObjects' /\ (repo'.gen > 0 => repo'.bundle \in Attempts)
<1> USE DEF ObjectsInv, ClockInv, HistoryInv
<1>1. CASE UNCHANGED <<repo, commits>>
  <2>1. ASSUME repo.gen > 0 PROVE bundles'[repo.bundle] # None
    <3>1. repo.bundle \in Attempts /\ bundles[repo.bundle] # None
      BY <2>1 DEF NoDanglingObjects
    <3>2. ASSUME NEW a \in Attempts, PutBundle(a) PROVE bundles'[repo.bundle] # None
      BY <3>1, <3>2, TimeAssumption, NoneAssumption DEF PutBundle, TypeOK
    <3>3. ASSUME NEW a \in Attempts, DeleteBundle(a) PROVE bundles'[repo.bundle] # None
      BY <2>1, <3>1, <3>3 DEF DeleteBundle, TypeOK, PassOK
    <3> QED
      BY <3>1, <3>2, <3>3, ObjectSteps DEF PutSnapshot, DeleteSnapshot
  <2>2. ASSUME NEW c \in commits PROVE Stored(c.commit)' # {}
    <3>1. PICK s \in snaps : s.commit = c.commit
      BY DEF NoDanglingObjects, Stored
    <3>2. ASSUME NEW k, DeleteSnapshot(k) PROVE s \in snaps'
      BY <3>1, <3>2 DEF DeleteSnapshot, PassOK, Stored
    <3>3. s \in snaps'
      BY <3>1, <3>2, ObjectSteps DEF PutBundle, PutSnapshot, DeleteBundle
    <3> QED
      BY <3>1, <3>3 DEF Stored
  <2> QED
    BY <1>1, <2>1, <2>2 DEF NoDanglingObjects
<1>2. ASSUME NEW a \in Attempts, Lands(a)
      PROVE  NoDanglingObjects' /\ (repo'.gen > 0 => repo'.bundle \in Attempts)
  <2>1. now <= att[a].at + LongestCall /\ now \in Nat /\ att[a].at \in Nat
    BY <1>2, LandsInTime, AttemptTimes, TimeAssumption DEF TypeOK
  <2>2. ~ TooLate(a)
    BY <2>1, TimeAssumption DEF TooLate, GraceCoversCalls, LongestCall
  <2>3. bundles[a] # None /\ Stored(att[a].commit) # {}
    BY <1>2, <2>2 DEF Held, Exchanging, Lands
  <2>4. /\ repo'.bundle = a
        /\ commits' = commits \cup {[commit |-> att[a].commit, parent |-> repo.head,
                                     gen |-> repo.gen + 1, bundle |-> a,
                                     publishedAt |-> att[a].at]}
    BY <1>2, LandsEffect
  <2>5. UNCHANGED <<bundles, snaps>>
    BY <1>2 DEF Lands
  <2>6. \A c \in commits' : \E s \in snaps : s.commit = c.commit
    BY <2>3, <2>4 DEF NoDanglingObjects, Stored
  <2> QED
    BY <2>3, <2>4, <2>5, <2>6 DEF NoDanglingObjects, Stored
<1> QED
  BY <1>1, <1>2, HeadStep

LEMMA ObjectsInitially == Init => ObjectsInv
<1> SUFFICES ASSUME Init PROVE ObjectsInv
  OBVIOUS
<1>1. ClockInv /\ repo.gen = 0
  BY ClockInit DEF Init, NoRepo
<1>2. ObjectsDated /\ PassOK /\ NoDanglingObjects
  BY <1>1 DEF Init, ObjectsDated, PassOK, NoDanglingObjects
<1>3. \A a \in Attempts : Held(a)
  BY DEF Init, IdleAttempt, Held, Uploading, Exchanging, InFlight
<1> QED
  BY <1>1, <1>2, <1>3 DEF ObjectsInv

LEMMA ObjectsInvStep == ASSUME GraceCoversCalls, ObjectsInv, [Next]_vars PROVE ObjectsInv'
BY ClockInvStep, DatedStep, PassStep, HeldStep, DanglingStep DEF ObjectsInv

(***************************************************************************)
(* While the grace period covers the longest call, the head's bundle and   *)
(* the snapshot of every published commit exist, whatever the collector    *)
(* deletes meanwhile (orphans.ts:46-60, publisher.ts:583).                 *)
(***************************************************************************)
THEOREM PublishedObjectsExist ==
  ASSUME GraceCoversCalls
  PROVE  Spec => []NoDanglingObjects
<1>1. ObjectsInv => NoDanglingObjects
  BY DEF ObjectsInv
<1> QED
  BY <1>1, ObjectsInitially, ObjectsInvStep, PTL DEF Spec

-----------------------------------------------------------------------------
(* The grace period of readers *)

(***************************************************************************)
(* The bundle before the head's is kept whatever its age.                  *)
(***************************************************************************)
KeepsOneBundle == KeepBundles >= 1

Reading(a) == att[a].pc = "read" /\ att[a].base # <<>>

HeadRow == repo.gen > 0 => \E c \in commits : c.gen = repo.gen /\ c.bundle = repo.bundle

(***************************************************************************)
(* What a caller read was published; whoever read a later head started     *)
(* later; and its bundle is there for the grace period.                    *)
(***************************************************************************)
Published(seen) == \E c \in commits : c.gen = seen.gen /\ c.bundle = seen.bundle

ReadsInOrder(a) == \A b \in Attempts : att[b].seen.gen > att[a].seen.gen => att[a].at <= att[b].at

Fetchable(a) == TooLate(a) \/ bundles[att[a].seen.bundle] # None

SeenOK(a) ==
  /\ att[a].seen.gen <= repo.gen
  /\ Reading(a) => Published(att[a].seen) /\ ReadsInOrder(a) /\ Fetchable(a)

(***************************************************************************)
(* A pass deletes a published bundle only long after the call began that   *)
(* pushed it out of the last KeepBundles.                                  *)
(***************************************************************************)
PushedOut(c) ==
  \E n \in commits : n.gen = c.gen + KeepBundles + 1 /\ n.publishedAt + Grace < col.now

PassDated ==
  col.pc = "deleting" => \A c \in commits : c.bundle \in col.bundles => PushedOut(c)

ReadersInv ==
  ObjectsInv /\ HeadRow /\ PassDated /\ \A a \in Attempts : SeenOK(a)

LEMMA SeenSteps ==
  ASSUME HistoryInv, [Next]_vars, NEW b \in Attempts
  PROVE  \/ att'[b].seen = att[b].seen /\ att'[b].at = att[b].at
         \/ /\ UNCHANGED <<repo, commits, now, bundles>> /\ att'[b].at = now
            /\ att'[b].seen \in {NoRepo, repo}
<1>1. CASE att[b].pc # "idle"
  BY <1>1, CallFrame DEF HistoryInv, SameCall
<1>2. CASE att[b].pc = "idle" /\ att'[b] # att[b]
  <2>1. Start(b)
    BY <1>2, OnlyStart DEF HistoryInv
  <2>2. PICK r \in Requests, c \in Contents, s \in Secs, p \in Prefixes(repo.head) :
          LET first == FirstRead([base |-> p, content |-> c], r)
          IN  att' = [att EXCEPT ![b] =
                [pc |-> IF first = "read" THEN "read" ELSE "done",
                 out |-> IF first = "read" THEN "none" ELSE first,
                 req |-> r, base |-> p, content |-> c, at |-> now, sec |-> s,
                 seen |-> IF first = "read" THEN repo ELSE NoRepo,
                 commit |-> <<>>, began |-> 0, sent |-> 0]]
    BY <2>1 DEF Start
  <2>3. /\ att'[b].at = now
        /\ att'[b].seen = IF FirstRead([base |-> p, content |-> c], r) = "read" THEN repo
                          ELSE NoRepo
    BY <2>2 DEF HistoryInv, TypeOK
  <2>4. UNCHANGED <<repo, commits, now, bundles>>
    BY <2>1 DEF Start, d1, r2
  <2> QED
    BY <2>3, <2>4
<1> QED
  BY <1>1, <1>2

\* Nobody comes back to its first read.
LEMMA ReadingSteps ==
  ASSUME HistoryInv, [Next]_vars, NEW b \in Attempts, Reading(b)', ~ Start(b)
  PROVE  /\ Reading(b) /\ att'[b] = att[b]
<1>1. att \in [Attempts -> Attempt] /\ att[b] \in Attempt
  BY DEF HistoryInv, TypeOK
<1>2. att'[b].pc = "read"
  BY DEF Reading
<1>3. ASSUME NEW a \in Attempts, Publisher(a) PROVE att'[b] = att[b]
  <2>1. CASE a # b
    BY <1>1, <1>3, <2>1 DEF Publisher, Start, Prepare, PutBundle, PutSnapshot, Send, Timeout,
          Reconcile, Resend, Diagnose, Becomes
  <2>2. CASE a = b
    <3>1. ASSUME NEW pc, NEW out, att' = Becomes(b, pc, out) PROVE att'[b].pc = pc
      <4>1. att'[b] = [att[b] EXCEPT !.pc = pc, !.out = out]
        BY <1>1, <3>1 DEF Becomes
      <4> QED
        BY <1>1, <4>1 DEF Attempt
    <3>2. ~ Prepare(b)
      <4>1. ASSUME NEW c, att' = [att EXCEPT ![b].pc = "prepared", ![b].commit = c] PROVE FALSE
        <5>1. att'[b] = [att[b] EXCEPT !.pc = "prepared", !.commit = c]
          BY <1>1, <4>1
        <5> QED
          BY <1>1, <1>2, <5>1 DEF Attempt
      <4> QED
        BY <1>2, <3>1, <4>1 DEF Prepare
    <3>3. ~ PutBundle(b)
      <4>1. ASSUME att' = [att EXCEPT ![b].pc = "bundled", ![b].began = now] PROVE FALSE
        <5>1. att'[b] = [att[b] EXCEPT !.pc = "bundled", !.began = now]
          BY <1>1, <4>1
        <5> QED
          BY <1>1, <1>2, <5>1 DEF Attempt
      <4> QED
        BY <4>1 DEF PutBundle
    <3>4. ~ PutSnapshot(b)
      <4>1. ASSUME att' = [att EXCEPT ![b].pc = "uploaded"] PROVE FALSE
        <5>1. att'[b] = [att[b] EXCEPT !.pc = "uploaded"]
          BY <1>1, <4>1
        <5> QED
          BY <1>1, <1>2, <5>1 DEF Attempt
      <4> QED
        BY <4>1 DEF PutSnapshot
    <3>5. ~ Send(b)
      <4>1. ASSUME att' = [att EXCEPT ![b].pc = "sent", ![b].sent = now] PROVE FALSE
        <5>1. att'[b] = [att[b] EXCEPT !.pc = "sent", !.sent = now]
          BY <1>1, <4>1
        <5> QED
          BY <1>1, <1>2, <5>1 DEF Attempt
      <4> QED
        BY <1>2, <3>1, <4>1 DEF Send
    <3>6. ~ Timeout(b) /\ ~ Reconcile(b) /\ ~ Resend(b) /\ ~ Diagnose(b)
      BY <1>2, <3>1 DEF Timeout, Reconcile, Resend, Diagnose
    <3> QED
      BY <1>3, <2>2, <3>2, <3>3, <3>4, <3>5, <3>6 DEF Publisher
  <2> QED
    BY <2>1, <2>2
<1>4. ASSUME NEW a \in Attempts, NEW c \in {1, 2}, Deliver(a, c) PROVE att'[b] = att[b]
  <2>1. CASE att' = att
    BY <2>1
  <2>2. CASE a # b
    BY <1>1, <1>4, <2>2 DEF Deliver, Heard, Reply, Becomes
  <2>3. CASE a = b /\ att' # att
    <3>1. PICK pc \in {"done", "diagnose"}, out \in Outcomes : att' = Becomes(b, pc, out)
      BY <1>4, <2>3 DEF Deliver, Heard, Reply, Outcomes
    <3>2. att'[b] = [att[b] EXCEPT !.pc = pc, !.out = out]
      BY <1>1, <3>1 DEF Becomes
    <3> QED
      BY <1>1, <1>2, <3>2 DEF Attempt
  <2> QED
    BY <2>1, <2>2, <2>3
<1>5. (\E a \in Attempts : Publisher(a) \/ Network(a)) \/ UNCHANGED att
  BY DEF Next, Collector, ListObjects, ReadReferences, EndPass, ExpireRequests, DeleteBundle,
     DeleteSnapshot, ArchiveOrRestore, Tick, vars
<1>6. att'[b] = att[b]
  BY <1>3, <1>4, <1>5 DEF Network
<1> QED
  BY <1>6 DEF Reading

LEMMA HeadRowStep ==
  ASSUME ReadersInv, [Next]_vars
  PROVE  /\ HeadRow' /\ commits \subseteq commits'
<1> USE DEF ReadersInv, ObjectsInv, ClockInv
<1>1. CASE UNCHANGED <<repo, commits>>
  BY <1>1 DEF HeadRow
<1>2. ASSUME NEW a \in Attempts, Lands(a) PROVE HeadRow' /\ commits \subseteq commits'
  <2> DEFINE row == [commit |-> att[a].commit, parent |-> repo.head, gen |-> repo.gen + 1,
                     bundle |-> a, publishedAt |-> att[a].at]
  <2>1. /\ repo' = [head |-> att[a].commit, gen |-> repo.gen + 1, bundle |-> a]
        /\ commits' = commits \cup {row}
    BY <1>2, LandsEffect
  <2>2. row \in commits' /\ row.gen = repo'.gen /\ row.bundle = repo'.bundle
    BY <2>1
  <2> QED
    BY <2>1, <2>2 DEF HeadRow
<1> QED
  BY <1>1, <1>2, HeadStep

\* A row's generation is one more than what its call read, and it says when that began.
LEMMA RowReads ==
  ASSUME HistoryInv, NEW c \in commits
  PROVE  /\ c.bundle \in Attempts /\ c.gen \in Nat /\ c.publishedAt \in Nat
         /\ c.gen = att[c.bundle].seen.gen + 1 /\ c.publishedAt = att[c.bundle].at
<1>1. c \in CommitRow /\ RowOK(c) /\ c.bundle \in Attempts
  BY DEF HistoryInv, TypeOK, CommitRow
<1>2. /\ c.gen \in 1 .. repo.gen /\ c.parent = SubSeq(repo.head, 1, c.gen - 1)
      /\ repo.gen = Len(repo.head) /\ repo.head \in Seq(Edit) /\ repo.gen \in Nat
  BY DEF HistoryInv, LinearHistory, TypeOK, RepoRow, Commit
<1>3. Len(c.parent) = c.gen - 1
  BY <1>2
<1>4. att[c.bundle].seen.gen = Len(c.parent)
  BY <1>1 DEF HistoryInv, CallOK, RowOK
<1> QED
  BY <1>1, <1>2, <1>3, <1>4 DEF CommitRow, RowOK

LEMMA PassDatedStep ==
  ASSUME GraceCoversCalls, ReadersInv, [Next]_vars
  PROVE  PassDated'
<1> USE DEF ReadersInv, ObjectsInv, ClockInv
<1>0. HistoryInv
  OBVIOUS
<1>1. CASE UNCHANGED <<col, commits>>
  BY <1>1 DEF PassDated, PushedOut
<1>2. ASSUME NEW a \in Attempts, Lands(a) PROVE PassDated'
  <2>1. UNCHANGED <<col, now>>
    BY <1>2 DEF Lands
  <2>2. now <= att[a].at + LongestCall /\ att[a].at \in Nat /\ now \in Nat /\ col.now \in Nat
    BY <1>2, LandsInTime, AttemptTimes, TimeAssumption DEF HistoryInv, TypeOK
  <2>3. col.pc = "deleting" => a \notin col.bundles
    BY <2>2, TimeAssumption DEF PassOK, GraceCoversCalls, LongestCall
  <2>4. commits' = commits \cup {[commit |-> att[a].commit, parent |-> repo.head,
                                  gen |-> repo.gen + 1, bundle |-> a,
                                  publishedAt |-> att[a].at]}
    BY <1>2, LandsEffect
  <2> QED
    BY <2>1, <2>3, <2>4 DEF PassDated, PushedOut
<1>3. CASE ListObjects \/ EndPass
  BY <1>3 DEF ListObjects, EndPass, PassDated
<1>4. CASE ReadReferences
  <2>1. /\ col'.now = col.now /\ col'.bundles = col.bundles \ ReferencedBundles
        /\ UNCHANGED commits
    BY <1>0, <1>4 DEF ReadReferences, d1, HistoryInv, TypeOK
  <2>2. ASSUME NEW c \in commits, c.bundle \notin ReferencedBundles PROVE PushedOut(c)
    <3>1. ~ NeverSuperseded(c) /\ ~ SupersededRecently(c)
      BY <2>2 DEF ReferencedBundles
    <3>2. PICK n \in commits :
          n.gen = c.gen + KeepBundles + 1 /\ ~ (n.publishedAt >= col.now - Grace)
      BY <3>1 DEF SupersededRecently
    <3>3. n.publishedAt \in Nat /\ col.now \in Nat
      BY <1>0, RowReads DEF HistoryInv, TypeOK
    <3>4. n.publishedAt + Grace < col.now
      BY <3>2, <3>3, TimeAssumption
    <3> QED
      BY <3>2, <3>4 DEF PushedOut
  <2> QED
    BY <2>1, <2>2 DEF PassDated, PushedOut
<1>5. ASSUME NEW a, DeleteBundle(a) \/ DeleteSnapshot(a) PROVE PassDated'
  <2>1. /\ col'.now = col.now /\ col'.bundles \subseteq col.bundles /\ col.pc = col'.pc
        /\ UNCHANGED commits
    BY <1>0, <1>5 DEF DeleteBundle, DeleteSnapshot, d1, HistoryInv, TypeOK
  <2> QED
    BY <2>1 DEF PassDated, PushedOut
<1>6. \/ UNCHANGED col
      \/ UNCHANGED commits /\ (ListObjects \/ ReadReferences \/ EndPass)
      \/ \E a : DeleteBundle(a) \/ DeleteSnapshot(a)
  BY DEF Next, Publisher, Network, Start, Prepare, PutBundle, PutSnapshot, Send, Timeout,
     Reconcile, Resend, Diagnose, Deliver, Collector, ExpireRequests, ArchiveOrRestore, Tick, vars,
     ListObjects, ReadReferences, EndPass, d1
<1> QED
  BY <1>1, <1>2, <1>3, <1>4, <1>5, <1>6, HeadStep

(***************************************************************************)
(* A bundle that is deleted was pushed out by a publication whose call had *)
(* not begun when a reader of that bundle did.                             *)
(***************************************************************************)
LEMMA ReadersKeepBundles ==
  ASSUME KeepsOneBundle, ReadersInv, NEW a \in Attempts, Reading(a), col.pc = "deleting",
         att[a].seen.bundle \in col.bundles
  PROVE  TooLate(a)
<1> USE DEF ReadersInv, ObjectsInv, ClockInv
<1>0. HistoryInv
  OBVIOUS
<1>1. PICK c \in commits : c.gen = att[a].seen.gen /\ c.bundle = att[a].seen.bundle
  BY DEF SeenOK, Published
<1>2. PICK n \in commits : n.gen = c.gen + KeepBundles + 1 /\ n.publishedAt + Grace < col.now
  BY <1>1 DEF PassDated, PushedOut
<1>3. /\ n.bundle \in Attempts /\ n.publishedAt = att[n.bundle].at /\ n.publishedAt \in Nat
      /\ n.gen = att[n.bundle].seen.gen + 1
  BY <1>0, RowReads
<1>4. c.gen \in Nat /\ att[n.bundle].seen.gen \in Nat
  BY <1>0, <1>3, RowReads DEF HistoryInv, TypeOK, Attempt, RepoRow
<1>5. att[n.bundle].seen.gen > att[a].seen.gen
  BY <1>1, <1>2, <1>3, <1>4, TimeAssumption DEF KeepsOneBundle
<1>6. att[a].at <= n.publishedAt
  BY <1>3, <1>5 DEF SeenOK, ReadsInOrder
<1>7. att[a].at \in Nat /\ col.now \in Nat /\ now \in Nat /\ col.now <= now
  BY <1>0, AttemptTimes, TimeAssumption DEF HistoryInv, TypeOK, PassOK
<1> QED
  BY <1>2, <1>3, <1>6, <1>7, TimeAssumption DEF TooLate

LEMMA SeenStep ==
  ASSUME KeepsOneBundle, GraceCoversCalls, ReadersInv, [Next]_vars, NEW a \in Attempts
  PROVE  SeenOK(a)'
<1>0. /\ HistoryInv /\ ObjectsInv /\ TypeOK /\ NoDanglingObjects
  BY DEF ReadersInv, ObjectsInv, ClockInv, HistoryInv
<1>1. now \in Nat /\ now' \in Nat /\ now <= now' /\ commits \subseteq commits'
  BY <1>0, TimeMoves, HeadRowStep
<1>2. repo.gen \in Nat /\ repo'.gen \in Nat /\ repo.gen <= repo'.gen
  BY <1>0, HeadGrows
<1>3. \A b \in Attempts : /\ att[b].seen.gen \in Nat /\ att[b].at \in Nat /\ att[b].at <= now
                          /\ att[b].seen.gen <= repo.gen
  BY <1>0, AttemptTimes DEF ReadersInv, SeenOK, TypeOK, Attempt, RepoRow, ObjectsInv, ClockInv,
          ClockOK
<1>4. att'[a].seen.gen <= repo'.gen
  BY <1>0, <1>2, <1>3, SeenSteps DEF NoRepo
<1>5. ASSUME Reading(a)', Start(a)
      PROVE  Published(att[a].seen)' /\ ReadsInOrder(a)' /\ Fetchable(a)'
  <2>1. UNCHANGED <<repo, commits, now, bundles>> /\ att[a].pc = "idle"
    BY <1>5 DEF Start, d1, r2
  <2>2. att'[a].at = now /\ att'[a].seen = repo /\ att'[a].base = repo.head
    <3>1. PICK r \in Requests, c \in Contents, s \in Secs, p \in Prefixes(repo.head) :
          LET first == FirstRead([base |-> p, content |-> c], r)
          IN  att' = [att EXCEPT ![a] =
                [pc |-> IF first = "read" THEN "read" ELSE "done",
                 out |-> IF first = "read" THEN "none" ELSE first,
                 req |-> r, base |-> p, content |-> c, at |-> now, sec |-> s,
                 seen |-> IF first = "read" THEN repo ELSE NoRepo,
                 commit |-> <<>>, began |-> 0, sent |-> 0]]
      BY <1>5 DEF Start
    <3> DEFINE i == [base |-> p, content |-> c]
    <3>2. /\ att'[a].at = now /\ att'[a].base = p
          /\ att'[a].pc = IF FirstRead(i, r) = "read" THEN "read" ELSE "done"
          /\ att'[a].seen = IF FirstRead(i, r) = "read" THEN repo ELSE NoRepo
      BY <1>0, <3>1 DEF TypeOK
    <3>3. i.base = p
      OBVIOUS
    <3> HIDE DEF i
    <3>4. FirstRead(i, r) = "read" /\ repo.head = i.base
      BY <1>5, <3>2 DEF Reading, FirstRead, ReplayOutcome
    <3> QED
      BY <3>2, <3>3, <3>4
  <2>3. repo.gen > 0
    <3>1. repo.head # <<>> /\ repo.head \in Seq(Edit) /\ repo.gen = Len(repo.head)
      BY <1>0, <1>5, <2>2 DEF Reading, HistoryInv, LinearHistory, TypeOK, RepoRow, Commit
    <3> QED
      BY <3>1
  <2>4. Published(att[a].seen)'
    BY <2>1, <2>2, <2>3 DEF Published, HeadRow, ReadersInv
  <2>5. Fetchable(a)'
    BY <1>0, <2>1, <2>2, <2>3 DEF Fetchable, NoDanglingObjects
  <2>6. ReadsInOrder(a)'
    <3> SUFFICES ASSUME NEW b \in Attempts, att'[b].seen.gen > att'[a].seen.gen
                 PROVE  att'[a].at <= att'[b].at
      BY DEF ReadsInOrder
    <3>1. att'[b].seen.gen > repo.gen
      BY <2>2
    <3> QED
      BY <1>0, <1>1, <1>2, <1>3, <2>2, <3>1, SeenSteps DEF NoRepo
  <2> QED
    BY <2>4, <2>5, <2>6
<1>6. ASSUME Reading(a)', ~ Start(a)
      PROVE  Published(att[a].seen)' /\ ReadsInOrder(a)' /\ Fetchable(a)'
  <2>1. Reading(a) /\ att'[a] = att[a]
    BY <1>0, <1>6, ReadingSteps
  <2>2. Published(att[a].seen) /\ ReadsInOrder(a) /\ Fetchable(a)
    BY <2>1 DEF ReadersInv, SeenOK
  <2>3. Published(att[a].seen)'
    BY <1>1, <2>1, <2>2 DEF Published
  <2>4. ReadsInOrder(a)'
    <3> SUFFICES ASSUME NEW b \in Attempts, att'[b].seen.gen > att[a].seen.gen
                 PROVE  att[a].at <= att'[b].at
      BY <2>1 DEF ReadsInOrder
    <3>1. CASE att'[b].seen = att[b].seen /\ att'[b].at = att[b].at
      BY <2>2, <3>1 DEF ReadsInOrder
    <3>2. CASE att'[b].at = now
      BY <1>3, <3>2
    <3> QED
      BY <1>0, <3>1, <3>2, SeenSteps
  <2>5. Fetchable(a)'
    <3>1. CASE TooLate(a)
      BY <1>1, <1>3, <2>1, <3>1, TimeAssumption DEF TooLate, Fetchable
    <3>2. CASE ~ TooLate(a)
      <4> DEFINE bundle == att[a].seen.bundle
      <4>1. bundles[bundle] # None
        BY <2>2, <3>2 DEF Fetchable
      <4>2. ASSUME NEW b \in Attempts, PutBundle(b) PROVE bundles'[bundle] # None
        BY <1>0, <1>1, <4>1, <4>2, NoneAssumption DEF PutBundle, TypeOK
      <4>3. ASSUME NEW b \in Attempts, DeleteBundle(b) PROVE bundles'[bundle] # None
        <5>1. b # bundle
          BY <2>1, <3>2, <4>3, ReadersKeepBundles DEF DeleteBundle
        <5> QED
          BY <1>0, <4>1, <4>3, <5>1 DEF DeleteBundle, TypeOK
      <4>4. bundles'[bundle] # None
        BY <4>1, <4>2, <4>3, ObjectSteps DEF PutSnapshot, DeleteSnapshot
      <4> QED
        BY <2>1, <4>4 DEF Fetchable
    <3> QED
      BY <3>1, <3>2
  <2> QED
    BY <2>3, <2>4, <2>5
<1> QED
  BY <1>4, <1>5, <1>6 DEF SeenOK

\* Only a caller that cannot read the head it saw is told so.
LEMMA OnlyPrepareMisses ==
  ASSUME HistoryInv, [Next]_vars, NEW a \in Attempts,
         att[a].out # "integrity", att'[a].out = "integrity"
  PROVE  Prepare(a) /\ ~ HeadReadable(a)
<1>1. att \in [Attempts -> Attempt] /\ att[a] \in Attempt
  BY DEF HistoryInv, TypeOK
<1>2. ASSUME NEW pc, NEW out, att' = Becomes(a, pc, out) PROVE out = "integrity"
  <2>1. att'[a] = [att[a] EXCEPT !.pc = pc, !.out = out]
    BY <1>1, <1>2 DEF Becomes
  <2> QED
    BY <1>1, <2>1 DEF Attempt
<1>3. ASSUME NEW b \in Attempts, Publisher(b) PROVE Prepare(a) /\ ~ HeadReadable(a)
  <2>1. a = b
    BY <1>1, <1>3 DEF Publisher, Start, Prepare, PutBundle, PutSnapshot, Send, Timeout,
          Reconcile, Resend, Diagnose, Becomes
  <2>2. ~ Start(a)
    <3>1. ASSUME Start(a) PROVE att'[a].out # "integrity"
      <4>1. PICK r \in Requests, c \in Contents, s \in Secs, p \in Prefixes(repo.head) :
              LET first == FirstRead([base |-> p, content |-> c], r)
              IN  att' = [att EXCEPT ![a] =
                    [pc |-> IF first = "read" THEN "read" ELSE "done",
                     out |-> IF first = "read" THEN "none" ELSE first,
                     req |-> r, base |-> p, content |-> c, at |-> now, sec |-> s,
                     seen |-> IF first = "read" THEN repo ELSE NoRepo,
                     commit |-> <<>>, began |-> 0, sent |-> 0]]
        BY <3>1 DEF Start
      <4> DEFINE first == FirstRead([base |-> p, content |-> c], r)
      <4>2. att'[a].out = IF first = "read" THEN "none" ELSE first
        BY <1>1, <4>1
      <4>3. first # "integrity"
        BY DEF FirstRead, ReplayOutcome
      <4> QED
        BY <4>2, <4>3
    <3> QED
      BY <3>1
  <2>3. Prepare(a) => ~ HeadReadable(a)
    <3>1. ASSUME NEW c, att' = [att EXCEPT ![a].pc = "prepared", ![a].commit = c] PROVE FALSE
      <4>1. att'[a] = [att[a] EXCEPT !.pc = "prepared", !.commit = c]
        BY <1>1, <3>1
      <4> QED
        BY <1>1, <4>1 DEF Attempt
    <3> QED
      BY <1>2, <3>1 DEF Prepare
  <2>4. ~ PutBundle(a) /\ ~ PutSnapshot(a)
    <3>1. ASSUME PutBundle(a) PROVE FALSE
      <4>1. att'[a] = [att[a] EXCEPT !.pc = "bundled", !.began = now]
        BY <1>1, <3>1 DEF PutBundle
      <4> QED
        BY <1>1, <4>1 DEF Attempt
    <3>2. ASSUME PutSnapshot(a) PROVE FALSE
      <4>1. att'[a] = [att[a] EXCEPT !.pc = "uploaded"]
        BY <1>1, <3>2 DEF PutSnapshot
      <4> QED
        BY <1>1, <4>1 DEF Attempt
    <3> QED
      BY <3>1, <3>2
  <2>5. ~ Send(a)
    <3>1. ASSUME att' = [att EXCEPT ![a].pc = "sent", ![a].sent = now] PROVE FALSE
      <4>1. att'[a] = [att[a] EXCEPT !.pc = "sent", !.sent = now]
        BY <1>1, <3>1
      <4> QED
        BY <1>1, <4>1 DEF Attempt
    <3> QED
      BY <1>2, <3>1 DEF Send
  <2>6. ~ Timeout(a) /\ ~ Resend(a)
    BY <1>2 DEF Timeout, Resend
  <2>7. ~ Reconcile(a) /\ ~ Diagnose(a)
    BY <1>2 DEF Reconcile, Diagnose, FirstRead, ReplayOutcome
  <2> QED
    BY <1>3, <2>1, <2>2, <2>3, <2>4, <2>5, <2>6, <2>7 DEF Publisher
<1>4. ASSUME NEW b \in Attempts, NEW c \in {1, 2}, Deliver(b, c) PROVE FALSE
  <2>1. a = b
    BY <1>1, <1>4 DEF Deliver, Heard, Reply, Becomes
  <2> QED
    BY <1>2, <1>4, <2>1 DEF Deliver, Heard, Reply
<1>5. (\E b \in Attempts : Publisher(b) \/ Network(b)) \/ UNCHANGED att
  BY DEF Next, Collector, ListObjects, ReadReferences, EndPass, ExpireRequests, DeleteBundle,
     DeleteSnapshot, ArchiveOrRestore, Tick, vars
<1> QED
  BY <1>3, <1>4, <1>5 DEF Network

LEMMA ReadersStep ==
  ASSUME KeepsOneBundle, GraceCoversCalls, ReadersInv, [Next]_vars,
         NEW a \in Attempts, att[a].out # "integrity", att'[a].out = "integrity"
  PROVE  now - att[a].at > Grace
<1>1. HistoryInv /\ NoDanglingObjects
  BY DEF ReadersInv, ObjectsInv, ClockInv
<1>2. att[a].pc = "read" /\ ~ HeadReadable(a)
  BY <1>1, OnlyPrepareMisses DEF Prepare
<1>3. Reading(a)
  BY <1>2 DEF HeadReadable, Reading
<1>4. Published(att[a].seen) /\ Fetchable(a)
  BY <1>3 DEF ReadersInv, SeenOK
<1>5. PICK c \in commits : c.gen = att[a].seen.gen /\ c.bundle = att[a].seen.bundle
  BY <1>4 DEF Published
<1>6. c.commit = att[a].base
  <2>1. c.commit = SubSeq(repo.head, 1, c.gen)
    BY <1>1 DEF HistoryInv, LinearHistory
  <2>2. c.gen = Len(att[a].base) /\ att[a].base = SubSeq(repo.head, 1, Len(att[a].base))
    BY <1>1, <1>2, <1>5 DEF HistoryInv, CallOK, BaseOK
  <2> QED
    BY <2>1, <2>2
<1>7. Stored(att[a].base) # {}
  BY <1>1, <1>6 DEF NoDanglingObjects
<1>8. att[a].seen.bundle \in Attempts
  BY <1>1, <1>5, RowReads
<1>9. TooLate(a)
  BY <1>2, <1>4, <1>7, <1>8 DEF HeadReadable, Fetchable
<1>10. now \in Nat /\ att[a].at \in Nat
  BY <1>1, AttemptTimes, TimeAssumption DEF HistoryInv, TypeOK
<1> QED
  BY <1>9, <1>10, TimeAssumption DEF TooLate

(***************************************************************************)
(* While the grace period covers the longest call and at least one bundle  *)
(* besides the head's is kept, whoever has read the head row can fetch its *)
(* bundle and its snapshot for the whole grace period, however often the   *)
(* head moves on and the collector runs (orphans.ts:46-60, 232).           *)
(***************************************************************************)
THEOREM HeadsStayReadable ==
  ASSUME GraceCoversCalls, KeepsOneBundle
  PROVE  Spec => HeadReadableForGrace
<1>1. Init => ReadersInv
  <2> SUFFICES ASSUME Init PROVE ReadersInv
    OBVIOUS
  <2>1. ObjectsInv
    BY ObjectsInitially
  <2>2. HeadRow /\ PassDated /\ \A a \in Attempts : SeenOK(a)
    BY DEF Init, HeadRow, PassDated, SeenOK, Reading, IdleAttempt, NoRepo
  <2> QED
    BY <2>1, <2>2 DEF ReadersInv
<1>2. ReadersInv /\ [Next]_vars => ReadersInv'
  BY ObjectsInvStep, HeadRowStep, PassDatedStep, SeenStep DEF ReadersInv
<1>3. ReadersInv /\ [Next]_vars =>
        [\A a \in Attempts :
           att[a].out # "integrity" /\ att'[a].out = "integrity" => now - att[a].at > Grace]_vars
  BY ReadersStep
<1> QED
  BY <1>1, <1>2, <1>3, PTL DEF Spec, HeadReadableForGrace

-----------------------------------------------------------------------------
(* What a caller is told *)

(***************************************************************************)
(* A request row outlives the longest call, so that a call that asks what  *)
(* became of its batch still finds it.                                     *)
(***************************************************************************)
RetentionCoversCalls == LongestCall < Retention

(***************************************************************************)
(* A request row tells of a publication, and no other row has its id.      *)
(***************************************************************************)
Tells(c, q) ==
  c.commit = q.commit /\ att[c.bundle].req = q.req /\ InputOf(c.bundle) = q.input

RequestRowsOK ==
  /\ \A q \in requests : \E c \in commits : Tells(c, q)
  /\ \A p, q \in requests : p.req = q.req => p = q

ToldWhileKept(c) ==
  \/ c.publishedAt + Retention <= now
  \/ \E q \in requests : Tells(c, q) /\ q.expires = c.publishedAt + Retention

Unsent(a) ==
  \/ att[a].pc \in {"idle", "read", "prepared", "bundled", "uploaded"}
  \/ att[a].out \in {"stale", "unchanged", "integrity"}

Behind(a) == Len(att[a].base) < repo.gen

(***************************************************************************)
(* What a call has not sent is nowhere; a call whose request id published  *)
(* after it read the head is behind the head; one that ended with a        *)
(* conflict or a mismatch published nothing, and what it still has on its  *)
(* way comes too late.                                                     *)
(***************************************************************************)
VerdictOK(a) ==
  /\ att[a].pc # "done" => att[a].out = "none"
  /\ Unsent(a) => ~ InFlight(a) /\ \A c \in commits : c.bundle # a
  /\ (att[a].pc = "read" \/ att[a].commit # <<>>) /\ Recorded(att[a].req) # {} => Behind(a)
  /\ att[a].out \in {"published", "replayed"} => \E c \in commits : SameSubmission(c.bundle, a)
  /\ att[a].out \in {"conflict", "mismatch"} =>
       (\A c \in commits : c.bundle # a) /\ (InFlight(a) => Behind(a))
  /\ att[a].out = "conflict" =>
       Behind(a) /\ \A q \in Recorded(att[a].req) : q.input # InputOf(a)

TruthInv ==
  /\ ClockInv
  /\ RequestRowsOK
  /\ \A c \in commits : ToldWhileKept(c)
  /\ \A a \in Attempts : VerdictOK(a)

(***************************************************************************)
(* How a call moves.                                                       *)
(***************************************************************************)
Sending == {"read", "prepared", "bundled", "uploaded"}
Asking  == {"sent", "unknown", "resend", "resent", "diagnose"}

GoesOn(a) ==
  /\ att[a].pc \in Sending \cup Asking
  /\ att'[a].pc \in {"prepared", "bundled", "uploaded"} \cup Asking
  /\ att'[a].out = "none"
  /\ Unsent(a)' => Unsent(a) /\ (InFlight(a)' => InFlight(a))
  /\ UNCHANGED <<commits, requests, repo>> \/ Lands(a)

GivesUp(a) ==
  /\ att[a].pc \in Sending
  /\ att'[a].pc = "done" /\ att'[a].out \in {"integrity", "unchanged", "stale"}
  /\ UNCHANGED <<d1, wire>>

Ends(a, out) == att[a].pc \in Asking /\ att'[a].pc = "done" /\ att'[a].out = out

ReadsVerdict(a, out) ==
  /\ now - att[a].sent <= MaxExchange
  /\ UNCHANGED <<d1, wire>>
  /\ \/ /\ out = "published"
        /\ \E q \in Recorded(att[a].req) : q.commit = att[a].commit
     \/ /\ out = "replayed"
        /\ \E q \in Recorded(att[a].req) : q.input = InputOf(a)
     \/ /\ out = "mismatch"
        /\ \E q \in Recorded(att[a].req) : q.input # InputOf(a)
     \/ /\ out = "conflict"
        /\ Recorded(att[a].req) = {}
        /\ repo.head # att[a].base \/ repo.gen # att[a].seen.gen

Concludes(a) ==
  \/ \E out \in {"error", "unknown", "denied", "readonly"} : Ends(a, out)
  \/ Ends(a, "published") /\ Lands(a)
  \/ \E out \in {"published", "replayed", "mismatch", "conflict"} :
       Ends(a, out) /\ ReadsVerdict(a, out)

Rests(a) == att'[a] = att[a] /\ (InFlight(a)' => InFlight(a))

LEMMA BecomesFields ==
  ASSUME TypeOK, NEW b \in Attempts, NEW pc, NEW out, att' = Becomes(b, pc, out)
  PROVE  att'[b].pc = pc /\ att'[b].out = out
<1>1. att[b] \in Attempt /\ att \in [Attempts -> Attempt]
  BY DEF TypeOK
<1>2. att'[b] = [att[b] EXCEPT !.pc = pc, !.out = out]
  BY <1>1 DEF Becomes
<1> QED
  BY <1>1, <1>2 DEF Attempt

LEMMA CallMoves ==
  ASSUME HistoryInv, \A a \in Attempts : VerdictOK(a), [Next]_vars, NEW b \in Attempts
  PROVE  Rests(b) \/ Start(b) \/ GoesOn(b) \/ GivesUp(b) \/ Concludes(b)
<1>0. att[b] \in Attempt /\ att \in [Attempts -> Attempt] /\ TypeOK
  BY DEF HistoryInv, TypeOK
<1>a. att[b].pc # "done" => att[b].out = "none"
  BY DEF VerdictOK
<1>1. ASSUME NEW a \in Attempts, Publisher(a), a # b PROVE Rests(b)
  <2>1. att'[b] = att[b]
    BY <1>0, <1>1 DEF Publisher, Start, Prepare, PutBundle, PutSnapshot, Send, Timeout,
          Reconcile, Resend, Diagnose, Becomes
  <2>2. wire' \subseteq wire \cup {<<a, 1>>, <<a, 2>>}
    BY <1>1 DEF Publisher, Start, Prepare, PutBundle, PutSnapshot, Send, Timeout, Reconcile,
                Resend, Diagnose
  <2> QED
    BY <1>1, <2>1, <2>2 DEF InFlight, Rests
<1>2. CASE Prepare(b)
  <2>1. ASSUME NEW out \in {"integrity", "unchanged"}, att' = Becomes(b, "done", out)
        PROVE  GivesUp(b)
    BY <1>0, <1>2, <2>1, BecomesFields DEF GivesUp, Prepare, Sending
  <2>2. ASSUME NEW c, att' = [att EXCEPT ![b].pc = "prepared", ![b].commit = c]
        PROVE  GoesOn(b)
    <3>1. att'[b] = [att[b] EXCEPT !.pc = "prepared", !.commit = c]
      BY <1>0, <2>2
    <3>2. att'[b].pc = "prepared" /\ att'[b].out = att[b].out
      BY <1>0, <3>1 DEF Attempt
    <3> QED
      BY <1>2, <1>a, <3>2 DEF GoesOn, Prepare, Sending, Unsent, d1, InFlight
  <2> QED
    BY <1>2, <2>1, <2>2 DEF Prepare
<1>3. CASE PutBundle(b)
  <2>1. att'[b] = [att[b] EXCEPT !.pc = "bundled", !.began = now]
    BY <1>0, <1>3 DEF PutBundle
  <2>2. att'[b].pc = "bundled" /\ att'[b].out = att[b].out
    BY <1>0, <2>1 DEF Attempt
  <2> QED
    BY <1>3, <1>a, <2>2 DEF GoesOn, PutBundle, Sending, Unsent, d1, InFlight
<1>4. CASE PutSnapshot(b)
  <2>1. att'[b] = [att[b] EXCEPT !.pc = "uploaded"]
    BY <1>0, <1>4 DEF PutSnapshot
  <2>2. att'[b].pc = "uploaded" /\ att'[b].out = att[b].out
    BY <1>0, <2>1 DEF Attempt
  <2> QED
    BY <1>4, <1>a, <2>2 DEF GoesOn, PutSnapshot, Sending, Unsent, d1, InFlight
<1>5. CASE Send(b)
  <2>1. ASSUME att' = Becomes(b, "done", "stale"), UNCHANGED wire PROVE GivesUp(b)
    BY <1>0, <1>5, <2>1, BecomesFields DEF GivesUp, Send, Sending
  <2>2. ASSUME att' = [att EXCEPT ![b].pc = "sent", ![b].sent = now] PROVE GoesOn(b)
    <3>1. att'[b] = [att[b] EXCEPT !.pc = "sent", !.sent = now]
      BY <1>0, <2>2
    <3>2. att'[b].pc = "sent" /\ att'[b].out = att[b].out
      BY <1>0, <3>1 DEF Attempt
    <3> QED
      BY <1>5, <1>a, <3>2 DEF GoesOn, Send, Sending, Asking, Unsent, d1
  <2> QED
    BY <1>5, <2>1, <2>2 DEF Send
<1>6. ASSUME NEW pc \in {"unknown", "resend", "resent", "diagnose"}, att[b].pc \in Asking,
             att' = Becomes(b, pc, "none"), UNCHANGED <<commits, requests, repo>> \/ Lands(b)
      PROVE  GoesOn(b)
  BY <1>0, <1>6, BecomesFields DEF GoesOn, Sending, Asking, Unsent
<1>7. ASSUME NEW out, att[b].pc \in Asking, att' = Becomes(b, "done", out)
      PROVE  Ends(b, out)
  BY <1>0, <1>7, BecomesFields DEF Ends
<1>8. CASE Timeout(b)
  BY <1>6, <1>7, <1>8 DEF Timeout, Asking, Concludes, d1
<1>9. CASE Reconcile(b)
  <2>1. att[b].pc \in Asking /\ now - att[b].sent <= MaxExchange /\ UNCHANGED <<d1, wire>>
    BY <1>9 DEF Reconcile, Asking
  <2>2. CASE ~ active
    BY <1>7, <1>9, <2>1, <2>2 DEF Reconcile, Concludes
  <2>3. CASE active /\ Recorded(att[b].req) # {}
    <3> DEFINE q == CHOOSE r \in Recorded(att[b].req) : TRUE
    <3>1. q \in Recorded(att[b].req)
      BY <2>3
    <3>2. att' = IF q.commit = att[b].commit /\ repo.head = att[b].commit
                 THEN Becomes(b, "done", "published")
                 ELSE Becomes(b, "done", ReplayOutcome(InputOf(b), q))
      BY <1>9, <2>3 DEF Reconcile
    <3> HIDE DEF q
    <3>3. CASE q.commit = att[b].commit /\ repo.head = att[b].commit
      <4>1. Ends(b, "published")
        BY <1>7, <2>1, <3>2, <3>3
      <4> QED
        BY <2>1, <3>1, <3>3, <4>1 DEF Concludes, ReadsVerdict
    <3>4. CASE ~ (q.commit = att[b].commit /\ repo.head = att[b].commit)
      <4>1. Ends(b, ReplayOutcome(InputOf(b), q))
        BY <1>7, <2>1, <3>2, <3>4
      <4> QED
        BY <2>1, <3>1, <4>1 DEF Concludes, ReadsVerdict, ReplayOutcome
    <3> QED
      BY <3>3, <3>4
  <2>4. CASE active /\ Recorded(att[b].req) = {}
    <3>1. IF repo.head = att[b].base /\ repo.gen = att[b].seen.gen
          THEN att' = Becomes(b, "resend", "none")
          ELSE att' = Becomes(b, "done", "conflict")
      BY <1>9, <2>4 DEF Reconcile
    <3>2. CASE repo.head = att[b].base /\ repo.gen = att[b].seen.gen
      BY <1>6, <2>1, <3>1, <3>2 DEF d1
    <3>3. CASE ~ (repo.head = att[b].base /\ repo.gen = att[b].seen.gen)
      <4>1. Ends(b, "conflict")
        BY <1>7, <2>1, <3>1, <3>3
      <4> QED
        BY <2>1, <2>4, <3>3, <4>1 DEF Concludes, ReadsVerdict
    <3> QED
      BY <3>2, <3>3
  <2> QED
    BY <2>2, <2>3, <2>4
<1>10. CASE Resend(b)
  BY <1>6, <1>10 DEF Resend, Asking, d1
<1>11. CASE Diagnose(b)
  <2> DEFINE first == FirstRead(InputOf(b), att[b].req)
  <2>1. att[b].pc \in Asking /\ now - att[b].sent <= MaxExchange /\ UNCHANGED <<d1, wire>>
    BY <1>11 DEF Diagnose, Asking
  <2>2. att' = Becomes(b, "done", IF first = "read" THEN "readonly" ELSE first)
    BY <1>11 DEF Diagnose
  <2>3. /\ first \in {"denied", "replayed", "mismatch", "conflict", "read"}
        /\ first = "conflict" => Recorded(att[b].req) = {} /\ repo.head # InputOf(b).base
        /\ first = "replayed" => \E q \in Recorded(att[b].req) : q.input = InputOf(b)
        /\ first = "mismatch" => \E q \in Recorded(att[b].req) : q.input # InputOf(b)
    BY DEF FirstRead, ReplayOutcome
  <2>4. InputOf(b).base = att[b].base
    BY DEF InputOf
  <2> HIDE DEF first
  <2>5. Ends(b, IF first = "read" THEN "readonly" ELSE first)
    BY <1>7, <2>1, <2>2
  <2> QED
    BY <2>1, <2>3, <2>4, <2>5 DEF Concludes, ReadsVerdict
<1>12. ASSUME NEW a \in Attempts, NEW c \in {1, 2}, Deliver(a, c)
       PROVE  Rests(b) \/ GoesOn(b) \/ Concludes(b)
  <2>1. InFlight(b)' => InFlight(b)
    BY <1>12 DEF Deliver, InFlight
  <2>2. CASE att'[b] = att[b]
    BY <2>1, <2>2 DEF Rests
  <2>3. CASE att'[b] # att[b]
    <3>1. a = b /\ AwaitsCopy(a, c) /\ att' = Heard(a, Reply(a))
      BY <1>0, <1>12, <2>3 DEF Deliver, Heard, Reply, Becomes
    <3>2. att[b].pc \in Asking
      BY <3>1 DEF AwaitsCopy, Asking
    <3>3. CASE Reply(b) = "applied"
      <4>1. Lands(b)
        BY <1>12, <3>1, <3>3 DEF Deliver, Reply, Lands, InFlight, r2
      <4>2. Ends(b, "published")
        BY <1>7, <3>1, <3>2, <3>3 DEF Heard
      <4> QED
        BY <4>1, <4>2 DEF Concludes
    <3>4. CASE Reply(b) = "refused"
      BY <1>6, <1>12, <3>1, <3>2, <3>4 DEF Deliver, Heard
    <3>5. CASE Reply(b) = "error"
      BY <1>7, <3>1, <3>2, <3>5 DEF Heard, Concludes
    <3> QED
      BY <3>3, <3>4, <3>5 DEF Reply
  <2> QED
    BY <2>2, <2>3
<1>13. CASE UNCHANGED <<att, wire>>
  BY <1>13 DEF Rests, InFlight
<1> QED
  BY <1>1, <1>2, <1>3, <1>4, <1>5, <1>8, <1>9, <1>10, <1>11, <1>12, <1>13
  DEF Next, Network, Publisher, Collector, ListObjects, ReadReferences, EndPass,
      ExpireRequests, DeleteBundle, DeleteSnapshot, ArchiveOrRestore, Tick, vars

(***************************************************************************)
(* What a publication changes in the request rows.                         *)
(***************************************************************************)
LEMMA LandsTells ==
  ASSUME TypeOK, NEW a \in Attempts, Lands(a)
  PROVE  \E new : /\ requests' = requests \cup {new} /\ new.req = att[a].req
                  /\ new.input = InputOf(a) /\ new.commit = att[a].commit
                  /\ new.expires = att[a].at + Retention
<1> DEFINE new == [req |-> att[a].req, input |-> InputOf(a), commit |-> att[a].commit,
                   expires |-> att[a].at + Retention]
<1>1. requests' = requests \cup {new}
  BY DEF Lands, ApplyBatch
<1>2. /\ new.req = att[a].req /\ new.input = InputOf(a) /\ new.commit = att[a].commit
      /\ new.expires = att[a].at + Retention
  OBVIOUS
<1> HIDE DEF new
<1> QED
  BY <1>1, <1>2

LEMMA RequestSteps ==
  ASSUME [Next]_vars
  PROVE  requests' \subseteq requests \/ \E a \in Attempts : Lands(a)
<1>1. ASSUME NEW a \in Attempts, NEW c \in {1, 2}, Deliver(a, c)
      PROVE  requests' \subseteq requests \/ Lands(a)
  BY <1>1 DEF Deliver, Reply, Lands, InFlight, r2
<1>2. ASSUME NEW a \in Attempts, Publisher(a) PROVE requests' \subseteq requests
  BY <1>2 DEF Publisher, Start, Prepare, PutBundle, PutSnapshot, Send, Timeout, Reconcile, Resend,
              Diagnose, d1
<1>3. Collector => requests' \subseteq requests
  BY DEF Collector, ListObjects, ReadReferences, EndPass, ExpireRequests, DeleteBundle,
         DeleteSnapshot, d1
<1> QED
  BY <1>1, <1>2, <1>3 DEF Next, Network, ArchiveOrRestore, Tick, vars, d1

LEMMA SameTells ==
  ASSUME HistoryInv, [Next]_vars, NEW c \in commits, NEW q, Tells(c, q)
  PROVE  c \in commits' /\ Tells(c, q)'
<1>1. c.bundle \in Attempts /\ att[c.bundle].pc # "idle"
  BY DEF HistoryInv, TypeOK, CommitRow, RowOK, CallOK
<1>2. SameCall(c.bundle)
  BY <1>1, CallFrame DEF HistoryInv
<1>3. commits \subseteq commits'
  BY HeadStep DEF Lands, ApplyBatch
<1> QED
  BY <1>2, <1>3 DEF SameCall, Tells, InputOf

LEMMA LandsTold ==
  ASSUME HistoryInv, [Next]_vars, NEW a \in Attempts, Lands(a)
  PROVE  \E c \in commits', q \in requests' :
           /\ Tells(c, q)' /\ c.bundle = a /\ c.publishedAt = att[a].at
           /\ q.expires = c.publishedAt + Retention
           /\ requests' = requests \cup {q} /\ q.req = att[a].req
           /\ commits' = commits \cup {c} /\ q.input = InputOf(a)
<1>1. att[a].pc # "idle"
  BY LandsEffect
<1>2. SameCall(a)
  BY <1>1, CallFrame DEF HistoryInv
<1>3. PICK q : /\ requests' = requests \cup {q} /\ q.req = att[a].req
               /\ q.input = InputOf(a) /\ q.commit = att[a].commit
               /\ q.expires = att[a].at + Retention
  BY LandsTells DEF HistoryInv
<1>4. PICK c \in commits' : /\ commits' = commits \cup {c} /\ c.bundle = a
                            /\ c.commit = att[a].commit /\ c.publishedAt = att[a].at
  <2> DEFINE row == [commit |-> att[a].commit, parent |-> repo.head, gen |-> repo.gen + 1,
                     bundle |-> a, publishedAt |-> att[a].at]
  <2>1. commits' = commits \cup {row}
    BY LandsEffect
  <2>2. row.bundle = a /\ row.commit = att[a].commit /\ row.publishedAt = att[a].at
    OBVIOUS
  <2> HIDE DEF row
  <2> QED
    BY <2>1, <2>2
<1>5. Tells(c, q)'
  BY <1>2, <1>3, <1>4 DEF SameCall, Tells, InputOf
<1> QED
  BY <1>3, <1>4, <1>5

LEMMA RequestRowsStep ==
  ASSUME HistoryInv, RequestRowsOK, [Next]_vars
  PROVE  RequestRowsOK'
<1>1. \A q \in requests : \E c \in commits' : Tells(c, q)'
  BY SameTells DEF RequestRowsOK
<1>2. CASE requests' \subseteq requests
  BY <1>1, <1>2 DEF RequestRowsOK
<1>3. ASSUME NEW a \in Attempts, Lands(a) PROVE RequestRowsOK'
  <2>1. PICK c \in commits', q \in requests' :
               /\ Tells(c, q)' /\ requests' = requests \cup {q} /\ q.req = att[a].req
    BY <1>3, LandsTold
  <2>2. \A p \in requests : p.req # q.req
    BY <1>3, <2>1 DEF Lands, Decides, Recorded
  <2> QED
    BY <1>1, <2>1, <2>2 DEF RequestRowsOK
<1> QED
  BY <1>2, <1>3, RequestSteps

LEMMA ToldStep ==
  ASSUME ClockInv, \A d \in commits : ToldWhileKept(d), [Next]_vars, NEW c \in commits'
  PROVE  ToldWhileKept(c)'
<1>1. now \in Nat /\ now' \in Nat /\ now <= now' /\ HistoryInv
  BY TimeMoves DEF ClockInv, HistoryInv
<1>2. CASE c \in commits
  <2>1. c.publishedAt \in Nat /\ ToldWhileKept(c)
    BY <1>1, <1>2 DEF HistoryInv, TypeOK, CommitRow
  <2>2. CASE c.publishedAt + Retention <= now
    BY <1>1, <2>1, <2>2, TimeAssumption DEF ToldWhileKept
  <2>3. CASE ~ (c.publishedAt + Retention <= now)
    <3>1. PICK q \in requests : Tells(c, q) /\ q.expires = c.publishedAt + Retention
      BY <2>1, <2>3 DEF ToldWhileKept
    <3>2. q.expires > now
      BY <1>1, <2>1, <2>3, <3>1, TimeAssumption
    <3>3. q \in requests'
      BY <1>1, <3>2, RequestRowsStay DEF HistoryInv
    <3>4. Tells(c, q)'
      BY <1>1, <1>2, <3>1, SameTells
    <3> QED
      BY <3>1, <3>3, <3>4 DEF ToldWhileKept
  <2> QED
    BY <2>2, <2>3
<1>3. ASSUME NEW a \in Attempts, Lands(a), c \notin commits PROVE ToldWhileKept(c)'
  <2>1. PICK d \in commits', q \in requests' :
               /\ Tells(d, q)' /\ commits' = commits \cup {d}
               /\ q.expires = d.publishedAt + Retention
    BY <1>1, <1>3, LandsTold
  <2>2. c = d
    BY <1>3, <2>1
  <2> QED
    BY <2>1, <2>2 DEF ToldWhileKept
<1> QED
  BY <1>2, <1>3, HeadStep

(***************************************************************************)
(* A call that asks in time what became of its batch finds its request row *)
(* if it was published.                                                    *)
(***************************************************************************)
LEMMA AskedInTime ==
  ASSUME RetentionCoversCalls, TruthInv, NEW b \in Attempts, att[b].pc \in Asking,
         now - att[b].sent <= MaxExchange, NEW c \in commits, c.bundle = b
  PROVE  \E q \in Recorded(att[b].req) : q.input = InputOf(b)
<1>1. att[b].at \in Nat /\ att[b].sent \in Nat /\ now \in Nat
  BY AttemptTimes, TimeAssumption DEF TruthInv, ClockInv, HistoryInv, TypeOK
<1>2. att[b].sent <= att[b].at + MaxPrepare + MaxUploadAge
  BY DEF TruthInv, ClockInv, ClockOK, Exchanging, Asking
<1>3. c.publishedAt = att[b].at
  BY DEF TruthInv, ClockInv, HistoryInv, RowOK
<1>4. ~ (c.publishedAt + Retention <= now)
  BY <1>1, <1>2, <1>3, TimeAssumption DEF RetentionCoversCalls, LongestCall
<1> QED
  BY <1>4 DEF TruthInv, ToldWhileKept, Tells, Recorded

(***************************************************************************)
(* A call is behind when the head is not its base, and then stays behind.  *)
(***************************************************************************)
LEMMA NotAtHead ==
  ASSUME HistoryInv, NEW b \in Attempts, att[b].pc # "idle", repo.head # att[b].base
  PROVE  Behind(b)
<1>1. att[b].base = SubSeq(repo.head, 1, Len(att[b].base)) /\ Len(att[b].base) <= repo.gen
  BY DEF HistoryInv, BaseOK
<1>2. repo.gen = Len(repo.head) /\ repo.head \in Seq(Edit) /\ Len(att[b].base) \in Nat
  BY DEF HistoryInv, LinearHistory, TypeOK, RepoRow, Attempt, Commit
<1>3. Len(att[b].base) # repo.gen
  <2>1. SubSeq(repo.head, 1, Len(repo.head)) = repo.head
    BY <1>2
  <2> QED
    BY <1>1, <1>2, <2>1
<1> QED
  BY <1>1, <1>2, <1>3 DEF Behind

LEMMA StaysBehind ==
  ASSUME HistoryInv, [Next]_vars, NEW b \in Attempts, att'[b].base = att[b].base, Behind(b)
  PROVE  Behind(b)'
<1>1. Len(att[b].base) \in Nat
  BY DEF HistoryInv, TypeOK, Attempt, Commit
<1> QED
  BY <1>1, HeadGrows DEF Behind

LEMMA LandsAtHead ==
  ASSUME HistoryInv, NEW a \in Attempts, Lands(a)
  PROVE  /\ ~ Behind(a)
         /\ \A b \in Attempts : att[b].pc # "idle" => Len(att[b].base) < repo'.gen
         /\ \A b \in Attempts : Behind(b) => InputOf(b) # InputOf(a)
<1>1. att[a].base = repo.head /\ repo.gen = Len(repo.head) /\ repo'.gen = repo.gen + 1
      /\ repo.gen \in Nat
  BY LandsEffect DEF HistoryInv, TypeOK, RepoRow
<1>2. \A b \in Attempts :
        att[b].pc # "idle" => Len(att[b].base) \in Nat /\ Len(att[b].base) <= repo.gen
  BY DEF HistoryInv, BaseOK, TypeOK, Attempt, Commit
<1>3. ASSUME NEW b \in Attempts, InputOf(b) = InputOf(a) PROVE ~ Behind(b)
  BY <1>1, <1>3 DEF InputOf, Behind
<1> QED
  BY <1>1, <1>2, <1>3 DEF Behind

(***************************************************************************)
(* A commit names its call's base and text.                                *)
(***************************************************************************)
LEMMA AppendSplits ==
  ASSUME NEW h \in Commit, NEW k \in Commit, NEW d \in Edit, NEW e \in Edit,
         Append(h, d) = Append(k, e)
  PROVE  h = k /\ d = e
<1>1. h \in Seq(Edit) /\ k \in Seq(Edit)
  BY DEF Commit
<1>2. Len(h) \in Nat /\ Len(k) \in Nat
  BY <1>1
<1>3. Len(Append(h, d)) = Len(h) + 1 /\ Len(Append(k, e)) = Len(k) + 1
  BY <1>1
<1>4. Len(h) = Len(k)
  BY <1>2, <1>3
<1>5. Append(h, d)[Len(h) + 1] = d /\ Append(k, e)[Len(k) + 1] = e
  BY <1>1
<1>6. SubSeq(Append(h, d), 1, Len(h)) = h /\ SubSeq(Append(k, e), 1, Len(k)) = k
  BY <1>1
<1> QED
  BY <1>4, <1>5, <1>6

LEMMA SameCommit ==
  ASSUME HistoryInv, NEW b \in Attempts, att[b].pc # "idle", att[b].commit # <<>>,
         NEW c \in commits, c.commit = att[b].commit
  PROVE  InputOf(c.bundle) = InputOf(b)
<1> DEFINE d == c.bundle
<1>1. d \in Attempts /\ att[d].commit = c.commit /\ att[d].commit # <<>> /\ att[d].pc # "idle"
  BY DEF HistoryInv, TypeOK, CommitRow, RowOK, CallOK
<1>2. Append(att[d].base, EditOf(d)) = Append(att[b].base, EditOf(b))
  BY <1>1 DEF HistoryInv, CallOK
<1>3. /\ att[d].base \in Commit /\ att[b].base \in Commit
      /\ EditOf(d) \in Edit /\ EditOf(b) \in Edit
  BY <1>1 DEF HistoryInv, TypeOK, Attempt, EditOf, Edit
<1>4. att[d].base = att[b].base /\ EditOf(d) = EditOf(b)
  <2>1. PICK h \in Commit, k \in Commit, x \in Edit, y \in Edit :
           h = att[d].base /\ k = att[b].base /\ x = EditOf(d) /\ y = EditOf(b)
    BY ONLY <1>3, Zenon
  <2>2. Append(h, x) = Append(k, y)
    BY ONLY <1>2, <2>1, Zenon
  <2>3. h = k /\ x = y
    BY ONLY <2>2, AppendSplits
  <2> QED
    BY ONLY <2>1, <2>3, Zenon
<1>5. att[d].content = att[b].content
  BY <1>4 DEF EditOf
<1> QED
  BY <1>4, <1>5 DEF InputOf

-----------------------------------------------------------------------------
(* The verdict of a call, step by step *)

LEMMA NewCommits ==
  ASSUME [Next]_vars, NEW c \in commits'
  PROVE  c \in commits \/ \E a \in Attempts : Lands(a) /\ c.bundle = a
BY HeadStep DEF Lands, ApplyBatch

LEMMA NewRows ==
  ASSUME TypeOK, [Next]_vars, NEW q \in requests'
  PROVE  q \in requests \/ \E a \in Attempts : Lands(a) /\ q.input = InputOf(a)
BY RequestSteps, LandsTells

LEMMA UnsentStays ==
  ASSUME [Next]_vars, NEW b \in Attempts, VerdictOK(b), Unsent(b), InFlight(b)' => InFlight(b)
  PROVE  ~ InFlight(b)' /\ \A c \in commits' : c.bundle # b
BY NewCommits DEF VerdictOK, Lands

LEMMA BehindStep ==
  ASSUME HistoryInv, [Next]_vars, NEW b \in Attempts, VerdictOK(b), att[b].pc # "idle",
         att[b].pc = "read" \/ att[b].commit # <<>>, SameCall(b), Recorded(att[b].req)' # {}
  PROVE  Behind(b)'
<1>1. CASE Recorded(att[b].req) # {}
  BY <1>1, StaysBehind DEF VerdictOK, SameCall
<1>2. CASE Recorded(att[b].req) = {}
  <2>1. PICK q \in requests' : q.req = att[b].req
    BY DEF Recorded, SameCall
  <2>2. q \notin requests
    BY <1>2, <2>1 DEF Recorded
  <2>3. PICK a \in Attempts : Lands(a)
    BY <2>2, RequestSteps
  <2> QED
    BY <2>3, LandsAtHead DEF Behind, SameCall
<1> QED
  BY <1>1, <1>2

LEMMA SubmissionStays ==
  ASSUME HistoryInv, [Next]_vars, NEW b \in Attempts, SameCall(b),
         \E c \in commits : SameSubmission(c.bundle, b)
  PROVE  (\E c \in commits : SameSubmission(c.bundle, b))'
<1>1. PICK c \in commits : SameSubmission(c.bundle, b)
  OBVIOUS
<1>2. c.bundle \in Attempts /\ att[c.bundle].pc # "idle"
  BY DEF HistoryInv, TypeOK, CommitRow, RowOK, CallOK
<1>3. SameCall(c.bundle)
  BY <1>2, CallFrame DEF HistoryInv
<1>4. c \in commits'
  BY HeadStep DEF Lands, ApplyBatch
<1> QED
  BY <1>1, <1>3, <1>4 DEF SameCall, SameSubmission, InputOf

LEMMA RestsOK ==
  ASSUME HistoryInv, [Next]_vars, NEW b \in Attempts, VerdictOK(b), Rests(b)
  PROVE  VerdictOK(b)'
<1>1. Unsent(b)' => ~ InFlight(b)' /\ \A c \in commits' : c.bundle # b
  BY UnsentStays DEF Rests, Unsent
<1>2. CASE att[b].pc = "idle"
  <2>1. att[b].commit = <<>> /\ att[b].out = "none"
    BY <1>2 DEF HistoryInv, CallOK, VerdictOK
  <2> QED
    BY <1>1, <1>2, <2>1 DEF Rests, VerdictOK
<1>3. CASE att[b].pc # "idle"
  <2>1. SameCall(b)
    BY <1>3, CallFrame DEF HistoryInv
  <2>2. att[b].pc = "read" \/ att[b].commit # <<>> =>
          (Recorded(att[b].req)' # {} => Behind(b)')
    BY <1>3, <2>1, BehindStep
  <2>3. Behind(b) => Behind(b)'
    BY <2>1, StaysBehind DEF SameCall
  <2>4. att[b].out \in {"published", "replayed"} =>
          (\E c \in commits : SameSubmission(c.bundle, b))'
    BY <2>1, SubmissionStays DEF VerdictOK
  <2>5. att[b].out \in {"conflict", "mismatch"} => \A c \in commits' : c.bundle # b
    BY NewCommits, LandsAtHead DEF VerdictOK, Lands
  <2>6. att[b].out = "conflict" => \A q \in requests' : q.req = att[b].req => q.input # InputOf(b)
    BY NewRows, LandsAtHead DEF VerdictOK, Recorded, HistoryInv
  <2>7. InputOf(b)' = InputOf(b)
    BY DEF Rests, InputOf
  <2> QED
    BY <1>1, <2>2, <2>3, <2>4, <2>5, <2>6, <2>7 DEF Rests, VerdictOK, Recorded
<1> QED
  BY <1>2, <1>3

LEMMA GoesOnOK ==
  ASSUME HistoryInv, [Next]_vars, NEW b \in Attempts, VerdictOK(b), GoesOn(b)
  PROVE  VerdictOK(b)'
<1>1. att[b].pc # "idle" /\ (att[b].pc = "read" \/ att[b].commit # <<>>)
  BY DEF GoesOn, Sending, Asking, HistoryInv, CallOK
<1>2. SameCall(b)
  BY <1>1, CallFrame DEF HistoryInv
<1>3. Recorded(att[b].req)' # {} => Behind(b)'
  BY <1>1, <1>2, BehindStep
<1>4. Unsent(b)' => ~ InFlight(b)' /\ \A c \in commits' : c.bundle # b
  BY UnsentStays DEF GoesOn
<1> QED
  BY <1>2, <1>3, <1>4 DEF GoesOn, VerdictOK, SameCall, Recorded

LEMMA GivesUpOK ==
  ASSUME HistoryInv, [Next]_vars, NEW b \in Attempts, VerdictOK(b), GivesUp(b)
  PROVE  VerdictOK(b)'
<1>1. att[b].pc # "idle" /\ Unsent(b) /\ (att[b].pc = "read" \/ att[b].commit # <<>>)
  BY DEF GivesUp, Sending, Unsent, HistoryInv, CallOK
<1>2. SameCall(b)
  BY <1>1, CallFrame DEF HistoryInv
<1>3. Recorded(att[b].req)' # {} => Behind(b)'
  BY <1>1, <1>2, BehindStep
<1>4. ~ InFlight(b)' /\ \A c \in commits' : c.bundle # b
  BY <1>1, UnsentStays DEF GivesUp, InFlight
<1> QED
  BY <1>2, <1>3, <1>4 DEF GivesUp, VerdictOK, SameCall, Recorded

LEMMA ConcludesOK ==
  ASSUME RetentionCoversCalls, TruthInv, [Next]_vars, NEW b \in Attempts, Concludes(b)
  PROVE  VerdictOK(b)'
<1> USE DEF TruthInv, ClockInv
<1>1. att[b].pc \in Asking /\ att[b].pc # "idle" /\ att[b].commit # <<>> /\ att'[b].pc = "done"
  BY DEF Concludes, Ends, Asking, HistoryInv, CallOK
<1>2. SameCall(b) /\ att[b].commit # <<>>
  BY <1>1, CallFrame DEF HistoryInv
<1>3. Recorded(att[b].req)' # {} => Behind(b)'
  BY <1>1, <1>2, BehindStep
<1>4. InputOf(b)' = InputOf(b) /\ att'[b].req = att[b].req
  BY <1>2 DEF SameCall, InputOf
<1>5. CASE \E out \in {"error", "unknown", "denied", "readonly"} : Ends(b, out)
  BY <1>1, <1>3, <1>4, <1>5 DEF VerdictOK, Ends, Unsent, Recorded
<1>6. CASE Ends(b, "published") /\ Lands(b)
  <2>1. \E c \in commits' : c.bundle = b
    BY <1>6, LandsTold
  <2> QED
    BY <1>1, <1>3, <1>4, <1>6, <2>1 DEF VerdictOK, Ends, Unsent, Recorded, SameSubmission
<1>7. ASSUME NEW out \in {"published", "replayed", "mismatch", "conflict"},
             Ends(b, out), ReadsVerdict(b, out)
      PROVE  VerdictOK(b)'
  <2>1. /\ now - att[b].sent <= MaxExchange
        /\ UNCHANGED <<repo, commits, requests>> /\ (InFlight(b)' => InFlight(b))
    BY <1>7 DEF ReadsVerdict, InFlight, d1
  <2>2. att'[b].out = out /\ ~ Unsent(b)'
    BY <1>1, <1>7 DEF Ends, Unsent
  <2>3. CASE out \in {"published", "replayed"}
    <3>1. PICK q \in Recorded(att[b].req) : q.commit = att[b].commit \/ q.input = InputOf(b)
      BY <1>7, <2>3 DEF ReadsVerdict
    <3>2. PICK c \in commits : Tells(c, q)
      BY <3>1 DEF RequestRowsOK, Recorded
    <3>3. SameSubmission(c.bundle, b)
      BY <1>1, <1>2, <3>1, <3>2, SameCommit DEF Tells, SameSubmission, Recorded
    <3>4. (\E d \in commits : SameSubmission(d.bundle, b))'
      BY <1>2, <3>3, SubmissionStays
    <3> QED
      BY <1>1, <1>3, <1>4, <2>2, <2>3, <3>4 DEF VerdictOK, Recorded
  <2>4. CASE out = "mismatch"
    <3>1. PICK q \in Recorded(att[b].req) : q.input # InputOf(b)
      BY <1>7, <2>4 DEF ReadsVerdict
    <3>2. Behind(b)
      BY <1>1, <3>1 DEF VerdictOK
    <3>3. \A c \in commits : c.bundle # b
      BY <1>1, <2>1, <3>1, AskedInTime DEF RequestRowsOK, Recorded
    <3>4. Behind(b)'
      BY <1>2, <3>2, StaysBehind DEF SameCall
    <3> QED
      BY <1>1, <1>3, <1>4, <2>1, <2>2, <2>4, <3>3, <3>4 DEF VerdictOK, Recorded
  <2>5. CASE out = "conflict"
    <3>1. Recorded(att[b].req) = {} /\ (repo.head # att[b].base \/ repo.gen # att[b].seen.gen)
      BY <1>7, <2>5 DEF ReadsVerdict
    <3>2. repo.head # att[b].base
      BY <1>2, <3>1 DEF HistoryInv, CallOK, LinearHistory
    <3>3. Behind(b)
      BY <1>1, <3>2, NotAtHead
    <3>4. \A c \in commits : c.bundle # b
      BY <1>1, <2>1, <3>1, AskedInTime
    <3>5. Behind(b)'
      BY <1>2, <3>3, StaysBehind DEF SameCall
    <3>6. Recorded(att[b].req)' = {}
      BY <1>4, <2>1, <3>1 DEF Recorded
    <3> QED
      BY <1>1, <1>3, <1>4, <2>1, <2>2, <2>5, <3>4, <3>5, <3>6 DEF VerdictOK
  <2> QED
    BY <2>3, <2>4, <2>5
<1> QED
  BY <1>5, <1>6, <1>7 DEF Concludes

LEMMA StartOK ==
  ASSUME TruthInv, [Next]_vars, NEW b \in Attempts, Start(b)
  PROVE  VerdictOK(b)'
<1> USE DEF TruthInv, ClockInv
<1>1. PICK r \in Requests, k \in Contents, s \in Secs, h \in Prefixes(repo.head) :
        LET first == FirstRead([base |-> h, content |-> k], r)
        IN att' = [att EXCEPT ![b] =
             [pc |-> IF first = "read" THEN "read" ELSE "done",
              out |-> IF first = "read" THEN "none" ELSE first,
              req |-> r, base |-> h, content |-> k, at |-> now, sec |-> s,
              seen |-> IF first = "read" THEN repo ELSE NoRepo,
              commit |-> <<>>, began |-> 0, sent |-> 0]]
  BY DEF Start
<1> DEFINE first == FirstRead([base |-> h, content |-> k], r)
<1>2. /\ att'[b].pc = IF first = "read" THEN "read" ELSE "done"
      /\ att'[b].out = IF first = "read" THEN "none" ELSE first
      /\ att'[b].req = r /\ att'[b].base = h /\ att'[b].content = k /\ att'[b].commit = <<>>
      /\ \A d \in Attempts : d # b => att'[d] = att[d]
  BY <1>1 DEF HistoryInv, TypeOK
<1>3. /\ first \in {"denied", "replayed", "mismatch", "conflict", "read"}
      /\ first = "read" => Recorded(r) = {}
      /\ first = "conflict" => Recorded(r) = {} /\ repo.head # h
      /\ first = "replayed" => \E q \in Recorded(r) : q.input = [base |-> h, content |-> k]
  BY FirstReadCases
<1> HIDE DEF first
<1>4. /\ UNCHANGED <<repo, commits, requests, wire>> /\ att[b].pc = "idle"
      /\ Recorded(att[b].req)' = Recorded(r)
  BY <1>2 DEF Start, d1, Recorded
<1>5. ~ InFlight(b)'
  BY <1>4 DEF InFlight, HistoryInv, TypeOK
<1>6. \A c \in commits : c.bundle # b /\ c.bundle \in Attempts
  BY <1>4 DEF HistoryInv, TypeOK, CommitRow, RowOK, CallOK
<1>7. InputOf(b)' = [base |-> h, content |-> k]
  BY <1>2 DEF InputOf
<1>8. first = "replayed" => (\E c \in commits : SameSubmission(c.bundle, b))'
  <2> SUFFICES ASSUME first = "replayed" PROVE \E c \in commits' : SameSubmission(c.bundle, b)'
    OBVIOUS
  <2>1. PICK q \in requests : q.req = r /\ q.input = [base |-> h, content |-> k]
    BY <1>3 DEF Recorded
  <2>2. PICK c \in commits : Tells(c, q)
    BY <2>1 DEF RequestRowsOK
  <2>3. att'[c.bundle] = att[c.bundle]
    BY <1>2, <1>6
  <2>4. SameSubmission(c.bundle, b)'
    BY <1>2, <1>7, <2>1, <2>2, <2>3 DEF Tells, SameSubmission, InputOf
  <2> QED
    BY <1>4, <2>4
<1>9. first = "conflict" => Behind(b)'
  <2>1. h = SubSeq(repo.head, 1, Len(h)) /\ Len(h) <= Len(repo.head) /\ Len(h) \in Nat
    BY PrefixType DEF HistoryInv, TypeOK, RepoRow, Commit
  <2>2. SubSeq(repo.head, 1, Len(repo.head)) = repo.head /\ repo.gen = Len(repo.head)
    BY DEF HistoryInv, LinearHistory, TypeOK, RepoRow, Commit
  <2>3. repo.gen \in Nat /\ (Len(h) = repo.gen => repo.head = h)
    BY <2>1, <2>2 DEF HistoryInv, TypeOK, RepoRow
  <2> QED
    BY <1>2, <1>3, <1>4, <2>1, <2>2, <2>3 DEF Behind
<1> QED
  BY <1>2, <1>3, <1>4, <1>5, <1>6, <1>8, <1>9 DEF VerdictOK

LEMMA TruthStep ==
  ASSUME RetentionCoversCalls, TruthInv, [Next]_vars
  PROVE  TruthInv'
<1>1. HistoryInv /\ ClockInv' /\ RequestRowsOK'
  BY ClockInvStep, RequestRowsStep DEF TruthInv, ClockInv
<1>2. \A c \in commits' : ToldWhileKept(c)'
  BY ToldStep DEF TruthInv
<1>3. ASSUME NEW b \in Attempts PROVE VerdictOK(b)'
  <2>1. VerdictOK(b) /\ \A a \in Attempts : VerdictOK(a)
    BY DEF TruthInv
  <2>2. Rests(b) \/ Start(b) \/ GoesOn(b) \/ GivesUp(b) \/ Concludes(b)
    BY <1>1, <2>1, CallMoves
  <2> QED
    BY <1>1, <2>1, <2>2, RestsOK, StartOK, GoesOnOK, GivesUpOK, ConcludesOK
<1> QED
  BY <1>1, <1>2, <1>3 DEF TruthInv

(***************************************************************************)
(* What a caller is told of its publication stays true, whatever copies of *)
(* its batch are still on their way and whoever publishes next, if request *)
(* rows are kept longer than a call lasts (publisher.ts reconcile and      *)
(* diagnose).                                                              *)
(***************************************************************************)
THEOREM CallersAreToldTheTruth ==
  ASSUME RetentionCoversCalls
  PROVE  Spec => []Truthful
<1>1. Init => TruthInv
  BY ClockInit DEF Init, IdleAttempt, TruthInv, RequestRowsOK, VerdictOK, Unsent, InFlight, Recorded
<1>2. TruthInv /\ [Next]_vars => TruthInv'
  BY TruthStep
<1>3. TruthInv => Truthful
  BY DEF TruthInv, VerdictOK, Unsent, Truthful
<1> QED
  BY <1>1, <1>2, <1>3, PTL DEF Spec
=============================================================================
