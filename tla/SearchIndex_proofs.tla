------------------------- MODULE SearchIndex_proofs -------------------------
(***************************************************************************)
(* Proofs about SearchIndex: for any records and any number of concurrent  *)
(* runs, with executor switches, crashes, lost answers and publications    *)
(* that land late, the published index with the open intents is the        *)
(* current state of every record, its object is not swept, and an answer   *)
(* that claims to be complete is no older than the state its request read. *)
(*                                                                         *)
(* The argument is the inductive invariant SearchInv. A run that started   *)
(* from the row still published may win, and then the contents it folds,   *)
(* reads and puts lack only what an intent above its own names (FoldOK);   *)
(* a write id belongs to one run until its publication is on the way       *)
(* (IdOK, OwnIds); what a run may still remove is not what is published    *)
(* (EndOK); a publication on the way is as good as the run that lost sight *)
(* of it (LandOK); and a request's overlay can be complete only if it is   *)
(* all of what was open when the request read the row (PendingOK).         *)
(***************************************************************************)
EXTENDS SearchIndex, FiniteSetTheorems, WellFoundedInduction, TLAPS
-----------------------------------------------------------------------------
(* The inductive invariant. *)

RowRows == [generation : Nat \ {0}, applied : Nat, object : Nat \ {0}, late : BOOLEAN]
IntentRows == [id : Nat \ {0}, record : Records]
WriterPcs == {"idle", "load", "apply", "put", "publish", "unknown", "discard", "sweep"}
WriterRows == [pc : WriterPcs, row : RowRows \cup {Missing}, executor : Nat,
               batch : SUBSET IntentRows, newest : Nat, contents : [Records -> Nat],
               todo : SUBSET Records, applied : Nat, id : Nat]
ObjectRows == [generation : Nat, contents : [Records -> Nat]]
PublicationRows == [previous : Nat, applied : Nat, executor : Nat, object : Nat]
QueryRows == [pc : {"idle", "load", "overlay", "records"}, row : RowRows \cup {Missing},
              pending : Nat, through : Nat, base : [Records -> Nat], todo : SUBSET Records,
              seen : [Records -> Nat], complete : BOOLEAN]

\* What was numbered has a number below the next.
Numbered(m, n, k) ==
  /\ m.applied < n /\ m.newest < n /\ \A i \in m.batch : i.id < n
  /\ Applied(m.row) < n /\ m.id <= k

SearchTypes ==
  /\ records \in [Records -> Nat] /\ executorGen \in Nat
  /\ nextId \in Nat \ {0} /\ runs \in Nat
  /\ intents \subseteq IntentRows /\ IsFiniteSet(intents) /\ \A i \in intents : i.id < nextId
  /\ row \in RowRows \cup {Missing}
  /\ row # Missing => row.applied < nextId /\ row.object <= runs
  /\ DOMAIN objects \subseteq 1..runs /\ \A o \in DOMAIN objects : objects[o] \in ObjectRows
  /\ landing \subseteq PublicationRows
  /\ \A p \in landing : p.applied < nextId /\ p.object <= runs /\ p.object # 0
  /\ writers \in [Writers -> WriterRows]
  /\ \A w \in Writers : Numbered(writers[w], nextId, runs)
  /\ query \in QueryRows

\* The contents with the intents above `a` are the current records.
CoveredAt(r, c, a, is, rs) == c[r] = rs[r] \/ \E i \in is : i.record = r /\ i.id > a
CoveredBy(c, a, is, rs) == \A r \in Records : CoveredAt(r, c, a, is, rs)

Names(published, id) == published # Missing /\ published.object = id

RowOK(rw, os, is, rs) ==
  rw # Missing =>
    /\ ~rw.late => rw.object \in DOMAIN os
    /\ rw.object \in DOMAIN os => /\ os[rw.object].generation = rw.generation
                                  /\ CoveredBy(os[rw.object].contents, rw.applied, is, rs)

(***************************************************************************)
(* A run that started from the published row may still win, and then what  *)
(* it has folded and read so far, or put, is whole but for the intents     *)
(* after its own.                                                          *)
(***************************************************************************)
FoldOK(m, rw, os, is, rs) ==
  /\ Generation(m.row) <= Generation(rw)
  /\ Generation(m.row) = Generation(rw) =>
       /\ m.row = rw
       /\ m.pc = "load" => \A i \in is : i.id > Applied(rw) =>
                             i \in m.batch \/ \A k \in m.batch : k.id < i.id
       /\ m.pc = "apply" => \A r \in Records : r \in m.todo
                                               \/ CoveredAt(r, m.contents, m.applied, is, rs)
       /\ m.pc = "put" => CoveredBy(m.contents, m.applied, is, rs)
       /\ m.pc = "publish" => /\ m.id \in DOMAIN os
                              /\ CoveredBy(os[m.id].contents, m.applied, is, rs)
  /\ m.pc = "publish" /\ m.id \in DOMAIN os => os[m.id].generation = Generation(m.row) + 1

\* A write id is the run's own until its publication is on the way.
IdOK(m, rw, os, ls, q) ==
  /\ m.id # 0
  /\ m.pc \in {"load", "apply", "put"} => m.id \notin DOMAIN os /\ ~Names(q.row, m.id)
  /\ m.pc \in {"load", "apply", "put", "publish"} => ~Names(rw, m.id)
  /\ \A p \in ls : p.object = m.id => /\ p.previous = Generation(m.row)
                                      /\ m.pc \in {"unknown", "discard", "sweep"}

\* What a run may still remove is not what is published.
EndOK(m, rw) ==
  /\ m.pc = "unknown" /\ Names(rw, m.id) => rw.generation = Generation(m.row) + 1
  /\ m.pc = "discard" /\ Names(rw, m.id) => rw.late
  /\ m.pc = "sweep" => /\ rw # Missing /\ rw.generation > Generation(m.row)
                       /\ rw.generation = Generation(m.row) + 1 => rw.object = m.id

WriterOK(m, rw, os, ls, q, is, rs) ==
  m.pc # "idle" => FoldOK(m, rw, os, is, rs) /\ IdOK(m, rw, os, ls, q) /\ EndOK(m, rw)

\* A publication on the way is as good as the run that lost sight of it.
LandOK(p, rw, os, is, rs) ==
  /\ p.previous <= Generation(rw)
  /\ p.object \in DOMAIN os =>
       /\ os[p.object].generation = p.previous + 1
       /\ p.previous = Generation(rw) => CoveredBy(os[p.object].contents, p.applied, is, rs)

\* What was committed when the request read its state is in the base or named.
HeldBy(c, seen, some) == \A r \in Records : c[r] >= seen[r] \/ \E i \in some : i.record = r

(***************************************************************************)
(* A request knows how many intents were open at first; those it may still *)
(* find are of these, so as many as there were are all of them.            *)
(***************************************************************************)
PendingOK(q, os, is, some) ==
  /\ IsFiniteSet(some) /\ Cardinality(some) = q.pending
  /\ \A i \in is : i.id > q.row.applied /\ i.id <= q.through => i \in some
  /\ q.pc = "load" /\ q.row.object \in DOMAIN os =>
       HeldBy(os[q.row.object].contents, q.seen, some)
  /\ q.pc = "overlay" => HeldBy(q.base, q.seen, some)

QueryOK(q, os, is, rs, n, k) ==
  /\ q.pc = "idle" <=> q.row = Missing
  /\ q.pc # "idle" =>
       /\ q.row.object <= k /\ q.through < n
       /\ \A r \in Records : q.seen[r] <= rs[r]
       /\ q.pc \in {"load", "overlay"} => \E some : PendingOK(q, os, is, some)
       /\ q.pc = "records" /\ q.complete =>
            \A r \in Records : q.base[r] >= q.seen[r] \/ r \in q.todo

\* No two runs have one write id.
OwnIds(ws) ==
  \A v, w \in Writers :
    v # w /\ ws[v].pc # "idle" /\ ws[w].pc # "idle" => ws[v].id # ws[w].id

SearchInv ==
  /\ SearchTypes
  /\ RowOK(row, objects, intents, records)
  /\ \A w \in Writers : WriterOK(writers[w], row, objects, landing, query, intents, records)
  /\ OwnIds(writers)
  /\ \A p \in landing : LandOK(p, row, objects, intents, records)
  /\ QueryOK(query, objects, intents, records, nextId, runs)

-----------------------------------------------------------------------------
(* What the operators return. *)

LEMMA LargestExists ==
  ASSUME NEW S, NEW n \in Nat, S \subseteq 0..n, S # {}
  PROVE  \E x \in S : \A y \in S : y <= x
<1> DEFINE T == {n - x : x \in S}
<1>1. \A x \in S : x \in Int /\ n - x \in Nat
  OBVIOUS
<1>2. T \subseteq Nat
  BY <1>1
<1>3. T # {}
  OBVIOUS
<1>4. PICK t \in T : \A u \in T : <<u, t>> \notin OpToRel(<, Nat)
  BY <1>2, <1>3, NatLessThanWellFounded, WFMin
<1>5. \A u \in T : ~ (u < t)
  BY <1>2, <1>4 DEF OpToRel
<1>6. PICK x \in S : t = n - x
  BY <1>4
<1>7. ASSUME NEW y \in S
      PROVE  y <= x
  <2>1. n - y \in T
    OBVIOUS
  <2>2. ~ (n - y < n - x)
    BY <1>5, <1>6, <2>1
  <2> QED
    BY <1>1, <2>2
<1> QED
  BY <1>7

LEMMA BiggestBounds ==
  ASSUME NEW S, NEW n \in Nat, S \subseteq 0..n
  PROVE  /\ Biggest(S) \in 0..n /\ \A m \in S : m <= Biggest(S)
         /\ S # {} => Biggest(S) \in S
<1>1. CASE S = {}
  BY <1>1 DEF Biggest
<1>2. CASE S # {}
  <2>1. \E x \in S : \A y \in S : y <= x
    BY <1>2, LargestExists
  <2> QED
    BY <1>2, <2>1 DEF Biggest
<1> QED
  BY <1>1, <1>2

\* The first intents come before the others.
LEMMA FirstAreFirst ==
  ASSUME NEW some \in SUBSET IntentRows, IsFiniteSet(some), NEW limit \in Nat,
         NEW i \in some, i \notin FirstOf(some, limit), NEW k \in FirstOf(some, limit)
  PROVE  k.id < i.id
<1> DEFINE upTo(n) == {j \in some : j.id <= n}
<1>1. k \in some /\ Cardinality(upTo(k.id)) <= limit /\ ~ (Cardinality(upTo(i.id)) <= limit)
  BY DEF FirstOf
<1>2. i.id \in Nat /\ k.id \in Nat /\ \A j \in some : j.id \in Nat
  BY <1>1 DEF IntentRows
<1> SUFFICES ASSUME i.id <= k.id
             PROVE  FALSE
  BY <1>2
<1>3. upTo(i.id) \subseteq upTo(k.id) /\ upTo(k.id) \subseteq some
  BY <1>2
<1>4. IsFiniteSet(upTo(k.id))
  BY <1>3, FS_Subset
<1>5. /\ Cardinality(upTo(i.id)) <= Cardinality(upTo(k.id))
      /\ IsFiniteSet(upTo(i.id))
  BY <1>3, <1>4, FS_Subset
<1>6. Cardinality(upTo(i.id)) \in Nat /\ Cardinality(upTo(k.id)) \in Nat
  BY <1>4, <1>5, FS_CardinalityType
<1> QED
  BY <1>1, <1>5, <1>6

LEMMA GenerationType ==
  ASSUME NEW rw \in RowRows \cup {Missing}, SearchMissing
  PROVE  /\ Generation(rw) \in Nat /\ Applied(rw) \in Nat
         /\ rw # Missing => rw.generation = Generation(rw) /\ rw.generation # 0
         /\ rw = Missing <=> Generation(rw) = 0
BY DEF Generation, Applied, RowRows

-----------------------------------------------------------------------------
(* The steps. *)

Folded(m, pc, c, t, a) == [m EXCEPT !.pc = pc, !.contents = c, !.todo = t, !.applied = a]
Going(m, pc) == [m EXCEPT !.pc = pc]
Started(rw, executor, batch, newest, id) ==
  [IdleWriter EXCEPT !.pc = "load", !.row = rw, !.executor = executor, !.batch = batch,
                     !.newest = newest, !.id = id]
WithRecord(m, r, new, pc) ==
  [m EXCEPT !.contents[r] = new, !.todo = @ \ {r}, !.pc = pc]

LEMMA WriterUpdate ==
  ASSUME NEW m \in WriterRows, NEW pc \in WriterPcs, NEW c \in [Records -> Nat],
         NEW t \in SUBSET Records, NEW a \in Nat, NEW u, u = Folded(m, pc, c, t, a)
  PROVE  /\ u \in WriterRows /\ u.pc = pc /\ u.contents = c /\ u.todo = t /\ u.applied = a
         /\ u.row = m.row /\ u.executor = m.executor /\ u.batch = m.batch
         /\ u.newest = m.newest /\ u.id = m.id
BY DEF WriterRows, Folded

LEMMA WriterGoes ==
  ASSUME NEW m \in WriterRows, NEW pc \in WriterPcs, NEW u, u = Going(m, pc)
  PROVE  /\ u \in WriterRows /\ u.pc = pc /\ u.contents = m.contents /\ u.todo = m.todo
         /\ u.applied = m.applied /\ u.row = m.row /\ u.executor = m.executor
         /\ u.batch = m.batch /\ u.newest = m.newest /\ u.id = m.id
BY DEF WriterRows, Going

LEMMA WriterReads ==
  ASSUME NEW m \in WriterRows, NEW r \in Records, NEW new \in Nat, NEW pc \in WriterPcs,
         NEW u, u = WithRecord(m, r, new, pc)
  PROVE  /\ u \in WriterRows /\ u.pc = pc /\ u.contents = [m.contents EXCEPT ![r] = new]
         /\ u.todo = m.todo \ {r} /\ u.applied = m.applied /\ u.row = m.row
         /\ u.batch = m.batch /\ u.newest = m.newest /\ u.id = m.id
BY DEF WriterRows, WithRecord

LEMMA WriterStarts ==
  ASSUME NEW rw \in RowRows \cup {Missing}, NEW executor \in Nat,
         NEW batch \in SUBSET IntentRows, NEW newest \in Nat, NEW id \in Nat,
         NEW u, u = Started(rw, executor, batch, newest, id)
  PROVE  /\ u \in WriterRows /\ u.pc = "load" /\ u.row = rw /\ u.id = id
         /\ u.batch = batch /\ u.applied = 0 /\ u.newest = newest
<1>1. IdleWriter \in WriterRows /\ IdleWriter.applied = 0
  BY DEF IdleWriter, WriterRows, WriterPcs, Empty
<1> QED
  BY <1>1 DEF WriterRows, WriterPcs, Started

LEMMA IdleWriterOK ==
  ASSUME NEW n \in Nat \ {0}, NEW k \in Nat
  PROVE  /\ IdleWriter \in WriterRows /\ IdleWriter.pc = "idle" /\ Numbered(IdleWriter, n, k)
BY DEF IdleWriter, WriterRows, WriterPcs, Numbered, Empty, Applied

(***************************************************************************)
(* A step of one run that changes nothing but the run.                     *)
(***************************************************************************)
OneMoves(w, m) ==
  /\ m \in WriterRows /\ writers' = [writers EXCEPT ![w] = m]
  /\ runs' \in Nat /\ runs <= runs' /\ Numbered(m, nextId, runs')
  /\ WriterOK(m, row, objects, landing, query, intents, records)
  /\ m.pc = "idle" \/ (m.id = writers[w].id /\ writers[w].pc # "idle") \/ m.id > runs
  /\ UNCHANGED <<records, intents, nextId, executorGen, row, objects, landing, query>>

LEMMA OneWriterMoves ==
  ASSUME SearchInv, NEW w \in Writers, NEW m, OneMoves(w, m)
  PROVE  SearchInv'
<1> USE DEF OneMoves
<1>1. \A v \in Writers : writers'[v] = IF v = w THEN m ELSE writers[v]
  BY DEF SearchInv, SearchTypes
<1>2. \A v \in Writers : writers[v].id \in Nat /\ writers[v].id <= runs
  BY DEF SearchInv, SearchTypes, Numbered, WriterRows
<1>3. OwnIds(writers')
  <2>1. OwnIds(writers) /\ m.id \in Nat /\ runs \in Nat
    BY DEF SearchInv, SearchTypes, WriterRows
  <2> QED
    BY <1>1, <1>2, <2>1 DEF OwnIds
<1>4. \A v \in Writers : WriterOK(writers'[v], row, objects, landing, query, intents, records)
  BY <1>1 DEF SearchInv
<1>5. SearchTypes'
  <2>1. writers' \in [Writers -> WriterRows]
    BY DEF SearchInv, SearchTypes
  <2>2. \A v \in Writers : Numbered(writers'[v], nextId, runs')
    <3>1. \A v \in Writers : Numbered(writers[v], nextId, runs)
      BY DEF SearchInv, SearchTypes
    <3>2. runs \in Nat
      BY DEF SearchInv, SearchTypes
    <3> QED
      BY <1>1, <1>2, <3>1, <3>2 DEF Numbered
  <2>3. /\ row # Missing => row.object \in Nat /\ row.object <= runs
        /\ \A p \in landing : p.object \in Nat /\ p.object <= runs
        /\ DOMAIN objects \subseteq 1..runs /\ runs \in Nat
    BY DEF SearchInv, SearchTypes, RowRows, PublicationRows
  <2>4. /\ row # Missing => row.object <= runs'
        /\ \A p \in landing : p.object <= runs'
        /\ DOMAIN objects \subseteq 1..runs'
    BY <2>3
  <2> QED
    BY <2>1, <2>2, <2>4 DEF SearchInv, SearchTypes
<1>6. QueryOK(query, objects, intents, records, nextId, runs')
  <2>1. query \in QueryRows /\ runs \in Nat
    BY DEF SearchInv, SearchTypes
  <2>2. query.pc # "idle" => query.row.object \in Nat
    BY <2>1 DEF SearchInv, QueryOK, QueryRows, RowRows
  <2> QED
    BY <2>1, <2>2 DEF SearchInv, QueryOK
<1> QED
  BY <1>3, <1>4, <1>5, <1>6 DEF SearchInv

LEMMA RunStarts ==
  ASSUME SearchInv, SearchBounds, SearchMissing, NEW w \in Writers, StartRun(w)
  PROVE  SearchInv'
<1> DEFINE batch == FirstOf(PendingIntents, BatchLimit)
           newest == Biggest(Ids(PendingIntents))
           m == Started(row, executorGen, batch, newest, runs + 1)
<1>1. /\ writers[w].pc = "idle" /\ runs' = runs + 1
      /\ writers' = [writers EXCEPT ![w] = m]
      /\ UNCHANGED <<records, intents, nextId, executorGen, row, objects, landing, query>>
  BY DEF StartRun, Started
<1>2. /\ nextId \in Nat \ {0} /\ runs \in Nat /\ executorGen \in Nat
      /\ row \in RowRows \cup {Missing}
      /\ intents \subseteq IntentRows /\ IsFiniteSet(intents)
      /\ \A i \in intents : i.id < nextId
      /\ DOMAIN objects \subseteq 1..runs
      /\ row # Missing => row.applied < nextId /\ row.object <= runs
      /\ \A p \in landing : p.object <= runs /\ p.object \in Nat
      /\ query \in QueryRows
  BY DEF SearchInv, SearchTypes, PublicationRows
<1>3. PendingIntents \subseteq intents /\ IsFiniteSet(PendingIntents)
  <2>1. PendingIntents \subseteq intents
    BY DEF PendingIntents
  <2> QED
    BY <1>2, <2>1, FS_Subset
<1>4. newest \in Nat /\ newest < nextId
  <2>1. Ids(PendingIntents) \subseteq 0..(nextId - 1)
    BY <1>2, <1>3 DEF Ids, IntentRows
  <2> QED
    BY <1>2, <2>1, BiggestBounds
<1>5. batch \subseteq PendingIntents
  BY DEF FirstOf
<1>6. \A i \in intents : i.id > Applied(row) => i \in batch \/ \A k \in batch : k.id < i.id
  <2> SUFFICES ASSUME NEW i \in intents, i.id > Applied(row), i \notin batch, NEW k \in batch
               PROVE  k.id < i.id
    OBVIOUS
  <2>1. i \in PendingIntents
    BY DEF PendingIntents
  <2>2. PendingIntents \in SUBSET IntentRows /\ BatchLimit \in Nat
    BY <1>2, <1>3 DEF SearchBounds
  <2> QED
    BY <1>3, <2>1, <2>2, FirstAreFirst
<1> HIDE DEF batch, newest
<1>7. /\ m \in WriterRows /\ m.pc = "load" /\ m.row = row /\ m.id = runs + 1
      /\ m.batch = batch /\ m.applied = 0 /\ m.newest = newest
  <2>1. batch \in SUBSET IntentRows /\ runs + 1 \in Nat
    BY <1>2, <1>3, <1>5
  <2> QED
    BY <1>2, <1>4, <2>1, WriterStarts
<1> HIDE DEF m
<1>9. Numbered(m, nextId, runs')
  BY <1>1, <1>2, <1>3, <1>4, <1>5, <1>7 DEF Numbered, Applied
<1>10. WriterOK(m, row, objects, landing, query, intents, records)
  <2>1. FoldOK(m, row, objects, intents, records)
    BY <1>2, <1>6, <1>7, GenerationType DEF FoldOK
  <2>2. IdOK(m, row, objects, landing, query)
    <3>1. query.row # Missing => query.row.object <= runs /\ query.row.object \in Nat
      <4>1. CASE query.pc # "idle"
        BY <1>2, <4>1 DEF SearchInv, QueryOK, QueryRows, RowRows
      <4>2. CASE query.pc = "idle"
        BY <4>2 DEF SearchInv, QueryOK
      <4> QED
        BY <4>1, <4>2
    <3>2. row # Missing => row.object \in Nat
      BY <1>2 DEF RowRows
    <3> QED
      BY <1>2, <1>7, <3>1, <3>2 DEF IdOK, Names
  <2>3. EndOK(m, row)
    BY <1>7 DEF EndOK
  <2> QED
    BY <2>1, <2>2, <2>3 DEF WriterOK
<1>20. OneMoves(w, m)
  BY <1>1, <1>2, <1>7, <1>9, <1>10 DEF OneMoves
<1> QED
  BY <1>20, OneWriterMoves

LEMMA IndexLoads ==
  ASSUME SearchInv, SearchBounds, SearchMissing, NEW w \in Writers, LoadIndex(w)
  PROVE  SearchInv'
<1> DEFINE m == writers[w]
           contents == objects[m.row.object].contents
           todo == {i.record : i \in m.batch}
           applied == Biggest(Ids(m.batch))
           u == Folded(m, "apply", contents, todo, applied)
<1>1. /\ m.pc = "load" /\ m.row # Missing /\ m.row.object \in DOMAIN objects
      /\ writers' = [writers EXCEPT ![w] = IF m.batch = {} THEN IdleWriter ELSE u]
      /\ UNCHANGED <<records, intents, nextId, executorGen, row, objects, landing, runs, query>>
  BY DEF LoadIndex, Readable, Folded
<1>2. /\ m \in WriterRows /\ Numbered(m, nextId, runs) /\ nextId \in Nat \ {0} /\ runs \in Nat
      /\ WriterOK(m, row, objects, landing, query, intents, records)
      /\ objects[m.row.object] \in ObjectRows
      /\ row \in RowRows \cup {Missing} /\ intents \subseteq IntentRows
  BY <1>1 DEF SearchInv, SearchTypes
<1>3. CASE m.batch = {}
  <2>1. writers' = [writers EXCEPT ![w] = IdleWriter] /\ runs' = runs
    BY <1>1, <1>3
  <2>2. /\ IdleWriter \in WriterRows /\ IdleWriter.pc = "idle"
        /\ Numbered(IdleWriter, nextId, runs)
    BY <1>2, IdleWriterOK
  <2>3. WriterOK(IdleWriter, row, objects, landing, query, intents, records)
    BY <2>2 DEF WriterOK
  <2>4. IdleWriter.pc = "idle" /\ runs' \in Nat /\ runs <= runs'
    BY <1>2, <2>1, <2>2
  <2> HIDE DEF m, u
  <2>20. OneMoves(w, IdleWriter)
    BY <1>1, <1>2, <2>1, <2>2, <2>3, <2>4 DEF OneMoves
  <2> QED
    BY <2>20, OneWriterMoves
<1>4. CASE m.batch # {}
  <2>1. m.batch \subseteq IntentRows
    BY <1>2 DEF WriterRows
  <2>2. contents \in [Records -> Nat] /\ todo \in SUBSET Records
    BY <1>2, <2>1 DEF ObjectRows, IntentRows
  <2>3. /\ applied \in Nat /\ applied < nextId
        /\ \E k \in m.batch : k.id = applied
    <3>1. Ids(m.batch) \subseteq 0..(nextId - 1) /\ Ids(m.batch) # {}
      BY <1>2, <1>4, <2>1 DEF Ids, IntentRows, Numbered
    <3>2. applied \in 0..(nextId - 1) /\ applied \in Ids(m.batch)
      BY <1>2, <3>1, BiggestBounds
    <3> QED
      BY <1>2, <3>2 DEF Ids
  <2>4. ASSUME Generation(m.row) = Generation(row), NEW r \in Records
        PROVE  r \in todo \/ CoveredAt(r, contents, applied, intents, records)
    <3>1. /\ m.row = row
          /\ \A i \in intents : i.id > Applied(row) =>
               i \in m.batch \/ \A k \in m.batch : k.id < i.id
      BY <1>1, <1>2, <2>4 DEF WriterOK, FoldOK
    <3>2. CoveredAt(r, contents, row.applied, intents, records) /\ row.applied = Applied(row)
      BY <1>1, <3>1 DEF SearchInv, RowOK, CoveredBy, Applied
    <3>3. CASE contents[r] = records[r]
      BY <3>3 DEF CoveredAt
    <3>4. CASE contents[r] # records[r]
      <4>1. PICK i \in intents : i.record = r /\ i.id > Applied(row)
        BY <3>2, <3>4 DEF CoveredAt
      <4>2. CASE i \in m.batch
        BY <4>1, <4>2
      <4>3. CASE i \notin m.batch
        BY <2>3, <3>1, <4>1, <4>3 DEF CoveredAt
      <4> QED
        BY <4>2, <4>3
    <3> QED
      BY <3>3, <3>4
  <2> HIDE DEF contents, todo, applied
  <2>5. /\ u \in WriterRows /\ u.pc = "apply" /\ u.contents = contents /\ u.todo = todo
        /\ u.applied = applied /\ u.row = m.row /\ u.batch = m.batch
        /\ u.newest = m.newest /\ u.id = m.id
    <3> HIDE DEF m
    <3> QED
      BY <1>2, <2>2, <2>3, WriterUpdate DEF WriterPcs
  <2>6. writers' = [writers EXCEPT ![w] = u]
    BY <1>1, <1>4
  <2> HIDE DEF u
  <2>7. Numbered(u, nextId, runs)
    BY <1>2, <2>3, <2>5 DEF Numbered
  <2>8. WriterOK(u, row, objects, landing, query, intents, records)
    <3>1. FoldOK(u, row, objects, intents, records)
      BY <1>1, <1>2, <2>4, <2>5 DEF WriterOK, FoldOK
    <3>2. IdOK(u, row, objects, landing, query)
      BY <1>1, <1>2, <2>5 DEF WriterOK, IdOK
    <3>3. EndOK(u, row)
      BY <2>5 DEF EndOK
    <3> QED
      BY <3>1, <3>2, <3>3 DEF WriterOK
  <2>20. OneMoves(w, u)
    <3>1. runs' = runs /\ u.id = writers[w].id /\ writers[w].pc # "idle"
      BY <1>1, <2>5
    <3>2. /\ UNCHANGED <<records, intents, nextId, executorGen, row, objects, landing, query>>
          /\ runs' \in Nat /\ runs <= runs' /\ Numbered(u, nextId, runs')
      BY <1>1, <1>2, <2>7
    <3> HIDE DEF m
    <3> QED
      BY <2>5, <2>6, <2>8, <3>1, <3>2 DEF OneMoves
  <2> QED
    BY <2>20, OneWriterMoves
<1> QED
  BY <1>3, <1>4

LEMMA IndexRebuilds ==
  ASSUME SearchInv, SearchBounds, SearchMissing, NEW w \in Writers, Rebuild(w)
  PROVE  SearchInv'
<1> DEFINE m == writers[w]
           applied == RebuiltThrough(w)
           u == Folded(m, "apply", Empty, Records, applied)
<1>1. /\ m.pc = "load" /\ writers' = [writers EXCEPT ![w] = u]
      /\ UNCHANGED <<records, intents, nextId, executorGen, row, objects, landing, runs, query>>
  BY DEF Rebuild, Folded
<1>2. /\ m \in WriterRows /\ Numbered(m, nextId, runs) /\ nextId \in Nat \ {0} /\ runs \in Nat
      /\ WriterOK(m, row, objects, landing, query, intents, records)
  BY DEF SearchInv, SearchTypes
<1>3. applied \in Nat /\ applied < nextId
  <2>1. m.newest \in Nat /\ Applied(m.row) \in Nat
    BY <1>2, GenerationType DEF WriterRows
  <2>2. {m.newest, Applied(m.row)} \subseteq 0..(nextId - 1)
    BY <1>2, <2>1 DEF Numbered
  <2>3. Biggest({m.newest, Applied(m.row)}) \in 0..(nextId - 1)
    BY <1>2, <2>2, BiggestBounds
  <2> QED
    BY <1>2, <2>3 DEF RebuiltThrough
<1> HIDE DEF applied
<1>4. /\ u \in WriterRows /\ u.pc = "apply" /\ u.todo = Records
      /\ u.applied = applied /\ u.row = m.row /\ u.batch = m.batch
      /\ u.newest = m.newest /\ u.id = m.id
  <2>1. Empty \in [Records -> Nat] /\ Records \in SUBSET Records
    BY DEF Empty
  <2> HIDE DEF m
  <2> QED
    BY <1>2, <1>3, <2>1, WriterUpdate DEF WriterPcs
<1> HIDE DEF u
<1>5. Numbered(u, nextId, runs)
  BY <1>2, <1>3, <1>4 DEF Numbered
<1>6. WriterOK(u, row, objects, landing, query, intents, records)
  <2>1. FoldOK(u, row, objects, intents, records)
    BY <1>1, <1>2, <1>4 DEF WriterOK, FoldOK
  <2>2. IdOK(u, row, objects, landing, query)
    BY <1>1, <1>2, <1>4 DEF WriterOK, IdOK
  <2>3. EndOK(u, row)
    BY <1>4 DEF EndOK
  <2> QED
    BY <2>1, <2>2, <2>3 DEF WriterOK
<1>20. OneMoves(w, u)
  BY <1>1, <1>2, <1>4, <1>5, <1>6 DEF OneMoves
<1> QED
  BY <1>20, OneWriterMoves

LEMMA RecordIsRead ==
  ASSUME SearchInv, NEW w \in Writers, NEW r \in Records, ReadRecord(w, r)
  PROVE  SearchInv'
<1> DEFINE m == writers[w]
           contents == [m.contents EXCEPT ![r] = records[r]]
           todo == m.todo \ {r}
           pc == IF m.todo = {r} THEN "put" ELSE "apply"
           u == WithRecord(m, r, records[r], pc)
<1>1. /\ m.pc = "apply" /\ r \in m.todo
      /\ UNCHANGED <<records, intents, nextId, executorGen, row, objects, landing, runs, query>>
  BY DEF ReadRecord
<1>2. /\ m \in WriterRows /\ Numbered(m, nextId, runs) /\ runs \in Nat
      /\ WriterOK(m, row, objects, landing, query, intents, records)
      /\ records \in [Records -> Nat]
  BY DEF SearchInv, SearchTypes
<1>3. m.contents \in [Records -> Nat] /\ m.todo \in SUBSET Records /\ m.applied \in Nat
  BY <1>2 DEF WriterRows
<1>4. contents \in [Records -> Nat] /\ todo \in SUBSET Records /\ pc \in WriterPcs
  BY <1>2, <1>3 DEF WriterPcs
<1>5. writers' = [writers EXCEPT ![w] = u]
  BY DEF ReadRecord, WithRecord
<1>6. \A q \in Records : contents[q] = IF q = r THEN records[r] ELSE m.contents[q]
  BY <1>3
<1>7. (pc = "put" <=> todo = {}) /\ pc \in {"put", "apply"}
  BY <1>1
<1> HIDE DEF contents, todo, pc
<1>8. /\ u \in WriterRows /\ u.pc = pc /\ u.contents = contents /\ u.todo = todo
      /\ u.applied = m.applied /\ u.row = m.row /\ u.batch = m.batch
      /\ u.newest = m.newest /\ u.id = m.id
  <2>1. records[r] \in Nat
    BY <1>2
  <2> HIDE DEF m
  <2> QED
    BY <1>2, <1>4, <2>1, WriterReads DEF contents, todo
<1> HIDE DEF u
<1>9. Numbered(u, nextId, runs)
  BY <1>2, <1>8 DEF Numbered
<1>10. WriterOK(u, row, objects, landing, query, intents, records)
  <2>1. FoldOK(u, row, objects, intents, records)
    <3>1. /\ Generation(m.row) <= Generation(row)
          /\ Generation(m.row) = Generation(row) =>
               /\ m.row = row
               /\ \A q \in Records : q \in m.todo
                                     \/ CoveredAt(q, m.contents, m.applied, intents, records)
      BY <1>1, <1>2 DEF WriterOK, FoldOK
    <3>2. Generation(m.row) = Generation(row) =>
            \A q \in Records : q \in todo \/ CoveredAt(q, contents, m.applied, intents, records)
      BY <1>6, <3>1 DEF CoveredAt, todo
    <3>3. Generation(m.row) = Generation(row) /\ pc = "put" =>
            CoveredBy(contents, m.applied, intents, records)
      BY <1>7, <3>2 DEF CoveredBy
    <3> QED
      BY <1>7, <1>8, <3>1, <3>2, <3>3 DEF FoldOK
  <2>2. IdOK(u, row, objects, landing, query)
    BY <1>1, <1>2, <1>7, <1>8 DEF WriterOK, IdOK
  <2>3. EndOK(u, row)
    BY <1>7, <1>8 DEF EndOK
  <2> QED
    BY <2>1, <2>2, <2>3 DEF WriterOK
<1>20. OneMoves(w, u)
  BY <1>1, <1>2, <1>5, <1>8, <1>9, <1>10 DEF OneMoves
<1> QED
  BY <1>20, OneWriterMoves

LEMMA ReadsBack ==
  ASSUME SearchInv, SearchMissing, NEW w \in Writers, ReadBack(w)
  PROVE  SearchInv'
<1> DEFINE m == writers[w]
           pc == IF row # Missing /\ row.object = m.id THEN "sweep" ELSE "discard"
           u == Going(m, pc)
<1>1. /\ m.pc = "unknown" /\ writers' = [writers EXCEPT ![w] = u]
      /\ UNCHANGED <<records, intents, nextId, executorGen, row, objects, landing, runs, query>>
  BY DEF ReadBack, Step, Going
<1>2. /\ m \in WriterRows /\ Numbered(m, nextId, runs) /\ runs \in Nat
      /\ WriterOK(m, row, objects, landing, query, intents, records)
      /\ row \in RowRows \cup {Missing}
  BY DEF SearchInv, SearchTypes
<1>3. pc \in {"sweep", "discard"} /\ (pc = "sweep" <=> Names(row, m.id))
  BY DEF Names
<1> HIDE DEF pc
<1>4. /\ u \in WriterRows /\ u.pc = pc /\ u.applied = m.applied /\ u.row = m.row
      /\ u.batch = m.batch /\ u.newest = m.newest /\ u.id = m.id
  <2>1. pc \in WriterPcs
    BY <1>3 DEF WriterPcs
  <2> HIDE DEF m
  <2> QED
    BY <1>2, <2>1, WriterGoes
<1> HIDE DEF u
<1>5. Numbered(u, nextId, runs)
  BY <1>2, <1>4 DEF Numbered
<1>6. WriterOK(u, row, objects, landing, query, intents, records)
  <2>1. FoldOK(u, row, objects, intents, records)
    BY <1>1, <1>2, <1>3, <1>4 DEF WriterOK, FoldOK
  <2>2. IdOK(u, row, objects, landing, query)
    BY <1>1, <1>2, <1>3, <1>4 DEF WriterOK, IdOK
  <2>3. EndOK(u, row)
    <3>1. Generation(m.row) \in Nat
      BY <1>2, GenerationType DEF WriterRows
    <3> QED
      BY <1>1, <1>2, <1>3, <1>4, <3>1 DEF WriterOK, EndOK, Names
  <2> QED
    BY <2>1, <2>2, <2>3 DEF WriterOK
<1>20. OneMoves(w, u)
  BY <1>1, <1>2, <1>4, <1>5, <1>6 DEF OneMoves
<1> QED
  BY <1>20, OneWriterMoves

LEMMA RunsCrash ==
  ASSUME SearchInv, NEW w \in Writers, CrashWriter(w)
  PROVE  SearchInv'
<1>1. /\ writers' = [writers EXCEPT ![w] = IdleWriter]
      /\ UNCHANGED <<records, intents, nextId, executorGen, row, objects, landing, runs, query>>
  BY DEF CrashWriter, Finish
<1>2. nextId \in Nat \ {0} /\ runs \in Nat
  BY DEF SearchInv, SearchTypes
<1>20. OneMoves(w, IdleWriter)
  BY <1>1, <1>2, IdleWriterOK DEF OneMoves, WriterOK
<1> QED
  BY <1>20, OneWriterMoves

(***************************************************************************)
(* A change of a record: what was covered by an intent above `a` still is. *)
(***************************************************************************)
LEMMA ChangeCovers ==
  ASSUME SearchInv, NEW r \in Records, ChangeRecord(r), NEW c, NEW a \in Nat, a < nextId,
         NEW q \in Records, CoveredAt(q, c, a, intents, records)
  PROVE  CoveredAt(q, c, a, intents', records')
<1> DEFINE new == [id |-> nextId, record |-> r]
<1>1. /\ records' = [records EXCEPT ![r] = @ + 1] /\ intents' = intents \cup {new}
      /\ records \in [Records -> Nat]
  BY DEF ChangeRecord, SearchInv, SearchTypes
<1>2. new \in intents' /\ new.id = nextId /\ new.record = r
  BY <1>1
<1> HIDE DEF new
<1>3. CASE q = r
  BY <1>2, <1>3 DEF CoveredAt
<1>4. CASE q # r
  BY <1>1, <1>4 DEF CoveredAt
<1> QED
  BY <1>3, <1>4

LEMMA ChangesKeep ==
  ASSUME SearchInv, SearchMissing, NEW r \in Records, ChangeRecord(r)
  PROVE  SearchInv'
<1> DEFINE new == [id |-> nextId, record |-> r]
<1>1. /\ records' = [records EXCEPT ![r] = @ + 1] /\ intents' = intents \cup {new}
      /\ nextId' = nextId + 1
      /\ UNCHANGED <<executorGen, row, objects, landing, writers, runs, query>>
  BY DEF ChangeRecord
<1>2. new \in IntentRows /\ new.id = nextId /\ nextId \in Nat \ {0}
  BY DEF SearchInv, SearchTypes, IntentRows
<1> HIDE DEF new
<1>3. /\ records' \in [Records -> Nat]
      /\ \A q \in Records : records[q] <= records'[q] /\ records[q] \in Nat /\ records'[q] \in Nat
  BY <1>1 DEF SearchInv, SearchTypes
<1>4. SearchTypes'
  <2>1. intents' \subseteq IntentRows /\ IsFiniteSet(intents')
    BY <1>1, <1>2, FS_AddElement DEF SearchInv, SearchTypes
  <2>2. \A i \in intents' : i.id < nextId'
    <3>1. \A i \in intents : i.id < nextId /\ i.id \in Nat
      BY DEF SearchInv, SearchTypes, IntentRows
    <3> QED
      BY <1>1, <1>2, <3>1
  <2>3. /\ row # Missing => row.applied < nextId'
        /\ \A p \in landing : p.applied < nextId'
    BY <1>1, <1>2 DEF SearchInv, SearchTypes, RowRows, PublicationRows
  <2>4. \A w \in Writers : Numbered(writers[w], nextId', runs)
    <3> SUFFICES ASSUME NEW w \in Writers
                 PROVE  Numbered(writers[w], nextId', runs)
      OBVIOUS
    <3>1. writers[w] \in WriterRows /\ Numbered(writers[w], nextId, runs)
      BY DEF SearchInv, SearchTypes
    <3>2. Applied(writers[w].row) \in Nat
      BY <3>1, GenerationType DEF WriterRows
    <3>3. \A i \in writers[w].batch : i.id \in Nat
      BY <3>1 DEF WriterRows, IntentRows
    <3> QED
      BY <1>1, <1>2, <3>1, <3>2, <3>3 DEF Numbered, WriterRows
  <2> QED
    BY <1>1, <1>2, <1>3, <2>1, <2>2, <2>3, <2>4 DEF SearchInv, SearchTypes
<1>5. \A c, a : a \in Nat /\ a < nextId =>
        \A q \in Records : CoveredAt(q, c, a, intents, records)
                           => CoveredAt(q, c, a, intents', records')
  BY ChangeCovers
<1>6. RowOK(row, objects, intents', records')
  <2>1. row # Missing => row.applied \in Nat /\ row.applied < nextId
    BY DEF SearchInv, SearchTypes, RowRows
  <2> QED
    BY <1>5, <2>1 DEF SearchInv, RowOK, CoveredBy
<1>7. ASSUME NEW w \in Writers
      PROVE  WriterOK(writers[w], row, objects, landing, query, intents', records')
  <2> DEFINE m == writers[w]
  <2>1. m \in WriterRows /\ Numbered(m, nextId, runs)
    BY DEF SearchInv, SearchTypes
  <2>2. /\ m.applied \in Nat /\ m.applied < nextId
        /\ \A k \in m.batch : k.id < nextId /\ k.id \in Nat
    BY <2>1 DEF WriterRows, Numbered, IntentRows
  <2>3. WriterOK(m, row, objects, landing, query, intents, records)
    BY DEF SearchInv
  <2> HIDE DEF m
  <2>4. m.pc # "idle" => FoldOK(m, row, objects, intents', records')
    <3>1. (\A i \in intents : i.id > Applied(row) =>
             i \in m.batch \/ \A k \in m.batch : k.id < i.id)
            => (\A i \in intents' : i.id > Applied(row) =>
                  i \in m.batch \/ \A k \in m.batch : k.id < i.id)
      BY <1>1, <1>2, <2>2
    <3>2. \A c : /\ CoveredBy(c, m.applied, intents, records)
                      => CoveredBy(c, m.applied, intents', records')
                 /\ (\A q \in Records : q \in m.todo
                                        \/ CoveredAt(q, c, m.applied, intents, records))
                      => (\A q \in Records : q \in m.todo
                                        \/ CoveredAt(q, c, m.applied, intents', records'))
      BY <1>5, <2>2 DEF CoveredBy
    <3> QED
      BY <2>3, <3>1, <3>2 DEF WriterOK, FoldOK
  <2> QED
    BY <2>3, <2>4 DEF WriterOK, m
<1>8. \A p \in landing : LandOK(p, row, objects, intents', records')
  <2>1. \A p \in landing : p.applied \in Nat /\ p.applied < nextId
    BY DEF SearchInv, SearchTypes, PublicationRows
  <2> QED
    BY <1>5, <2>1 DEF SearchInv, LandOK, CoveredBy
<1>9. QueryOK(query, objects, intents', records', nextId', runs)
  <2>1. /\ QueryOK(query, objects, intents, records, nextId, runs)
        /\ query \in QueryRows
    BY DEF SearchInv, SearchTypes
  <2>2. query.through \in Nat /\ query.seen \in [Records -> Nat]
    BY <2>1 DEF QueryRows
  <2>3. query.pc # "idle" => query.through < nextId' /\ query.through < nextId
    BY <1>1, <1>2, <2>1, <2>2 DEF QueryOK
  <2>4. \A q \in Records : query.seen[q] <= records[q] => query.seen[q] <= records'[q]
    BY <1>3, <2>2
  <2>5. query.pc # "idle" => \A some : PendingOK(query, objects, intents, some)
                                         => PendingOK(query, objects, intents', some)
    BY <1>1, <1>2, <2>2, <2>3 DEF PendingOK
  <2> QED
    BY <2>1, <2>3, <2>4, <2>5 DEF QueryOK
<1> QED
  BY <1>1, <1>4, <1>6, <1>7, <1>8, <1>9 DEF SearchInv

LEMMA SwitchesKeep ==
  ASSUME SearchInv, SwitchExecutor
  PROVE  SearchInv'
<1>1. /\ executorGen' = executorGen + 1
      /\ UNCHANGED <<records, intents, nextId, row, objects, landing, writers, runs, query>>
  BY DEF SwitchExecutor
<1>2. SearchTypes'
  BY <1>1 DEF SearchInv, SearchTypes
<1> QED
  BY <1>1, <1>2 DEF SearchInv

(***************************************************************************)
(* Steps of a run that put or remove an object.                            *)
(***************************************************************************)
LEMMA ObjectsMove ==
  ASSUME SearchInv, NEW w \in Writers, NEW m \in WriterRows,
         writers' = [writers EXCEPT ![w] = m], Numbered(m, nextId, runs),
         m.pc = "idle" \/ (m.id = writers[w].id /\ writers[w].pc # "idle"),
         DOMAIN objects' \subseteq 1..runs,
         \A o \in DOMAIN objects' : objects'[o] \in ObjectRows,
         \A o \in DOMAIN objects' : \/ o \in DOMAIN objects /\ objects'[o] = objects[o]
                                    \/ o = writers[w].id /\ writers[w].pc = "put",
         row # Missing /\ ~row.late /\ row.object \in DOMAIN objects
           => row.object \in DOMAIN objects',
         \A v \in Writers : v # w /\ writers[v].pc = "publish"
             /\ Generation(writers[v].row) = Generation(row) /\ writers[v].id \in DOMAIN objects
               => writers[v].id \in DOMAIN objects',
         WriterOK(m, row, objects', landing, query, intents, records),
         UNCHANGED <<records, intents, nextId, executorGen, row, landing, runs, query>>
  PROVE  SearchInv'
<1> DEFINE id == writers[w].id
<1>1. \A v \in Writers : writers'[v] = IF v = w THEN m ELSE writers[v]
  BY DEF SearchInv, SearchTypes
<1>2. WriterOK(writers[w], row, objects, landing, query, intents, records)
  BY DEF SearchInv
<1>3. /\ writers[w].pc = "put" => ~Names(row, id) /\ ~Names(query.row, id)
      /\ writers[w].pc = "put" => \A p \in landing : p.object # id
  BY <1>2 DEF WriterOK, IdOK
<1>4. SearchTypes'
  <2>1. /\ writers' \in [Writers -> WriterRows]
        /\ \A v \in Writers : Numbered(writers'[v], nextId, runs)
    BY <1>1 DEF SearchInv, SearchTypes
  <2> QED
    BY <2>1 DEF SearchInv, SearchTypes
<1>5. RowOK(row, objects', intents, records)
  BY <1>3 DEF SearchInv, RowOK, Names
<1>6. ASSUME NEW v \in Writers
      PROVE  WriterOK(writers'[v], row, objects', landing, query, intents, records)
  <2>1. CASE v = w
    BY <1>1, <2>1
  <2>2. CASE v # w
    <3> DEFINE x == writers[v]
    <3>1. writers'[v] = x /\ WriterOK(x, row, objects, landing, query, intents, records)
      BY <1>1, <2>2 DEF SearchInv
    <3>2. x.pc # "idle" /\ writers[w].pc # "idle" => x.id # id
      BY <2>2 DEF SearchInv, OwnIds
    <3>3. /\ x.id \in DOMAIN objects' /\ x.pc # "idle"
                 => x.id \in DOMAIN objects /\ objects'[x.id] = objects[x.id]
          /\ x.pc = "publish" /\ Generation(x.row) = Generation(row) /\ x.id \in DOMAIN objects
                 => x.id \in DOMAIN objects'
      BY <2>2, <3>2
    <3> HIDE DEF x, id
    <3>4. x.pc # "idle" => FoldOK(x, row, objects', intents, records)
      BY <3>1, <3>3 DEF WriterOK, FoldOK
    <3>5. x.pc # "idle" => IdOK(x, row, objects', landing, query)
      BY <3>1, <3>3 DEF WriterOK, IdOK
    <3> QED
      BY <3>1, <3>4, <3>5 DEF WriterOK
  <2> QED
    BY <2>1, <2>2
<1>7. OwnIds(writers')
  <2>1. OwnIds(writers)
    BY DEF SearchInv
  <2> QED
    BY <1>1, <2>1 DEF OwnIds
<1>8. \A p \in landing : LandOK(p, row, objects', intents, records)
  BY <1>3 DEF SearchInv, LandOK
<1>9. QueryOK(query, objects', intents, records, nextId, runs)
  <2>1. QueryOK(query, objects, intents, records, nextId, runs)
    BY DEF SearchInv
  <2>2. query.pc # "idle" /\ query.row.object \in DOMAIN objects'
          => /\ query.row.object \in DOMAIN objects
             /\ objects'[query.row.object] = objects[query.row.object]
    BY <1>3, <2>1 DEF QueryOK, Names
  <2>3. query.pc # "idle" => \A some : PendingOK(query, objects, intents, some)
                                         => PendingOK(query, objects', intents, some)
    BY <2>2 DEF PendingOK
  <2> QED
    BY <2>1, <2>3 DEF QueryOK
<1> QED
  BY <1>4, <1>5, <1>6, <1>7, <1>8, <1>9 DEF SearchInv

LEMMA IndexIsPut ==
  ASSUME SearchInv, SearchMissing, NEW w \in Writers, PutIndex(w)
  PROVE  SearchInv'
<1> DEFINE m == writers[w]
           id == m.id
           u == Going(m, "publish")
           stored == [generation |-> Generation(m.row) + 1, contents |-> m.contents]
<1>1. /\ m.pc = "put"
      /\ objects' = [o \in DOMAIN objects \cup {id} |-> IF o # id THEN objects[o] ELSE stored]
      /\ writers' = [writers EXCEPT ![w] = u]
      /\ UNCHANGED <<records, intents, nextId, executorGen, row, landing, runs, query>>
  BY DEF PutIndex, Step, Going
<1>2. /\ m \in WriterRows /\ Numbered(m, nextId, runs) /\ runs \in Nat
      /\ WriterOK(m, row, objects, landing, query, intents, records)
      /\ DOMAIN objects \subseteq 1..runs /\ \A o \in DOMAIN objects : objects[o] \in ObjectRows
  BY DEF SearchInv, SearchTypes
<1>3. /\ FoldOK(m, row, objects, intents, records) /\ IdOK(m, row, objects, landing, query)
      /\ EndOK(m, row)
  BY <1>1, <1>2 DEF WriterOK
<1>4. id \in 1..runs /\ id \notin DOMAIN objects
  BY <1>1, <1>2, <1>3 DEF IdOK, Numbered, WriterRows
<1>5. Generation(m.row) \in Nat
  BY <1>2, GenerationType DEF WriterRows
<1>6. stored \in ObjectRows /\ stored.generation = Generation(m.row) + 1
      /\ stored.contents = m.contents
  BY <1>2, <1>5 DEF ObjectRows, WriterRows
<1>7. /\ u \in WriterRows /\ u.pc = "publish" /\ u.contents = m.contents
      /\ u.applied = m.applied /\ u.row = m.row /\ u.batch = m.batch
      /\ u.newest = m.newest /\ u.id = id
  <2>1. "publish" \in WriterPcs
    BY DEF WriterPcs
  <2> HIDE DEF m
  <2> QED
    BY <1>2, <2>1, WriterGoes
<1> HIDE DEF stored, u
<1>8. /\ DOMAIN objects' = DOMAIN objects \cup {id}
      /\ \A o \in DOMAIN objects : objects'[o] = objects[o]
      /\ id \in DOMAIN objects' /\ objects'[id] = stored
  <2> HIDE DEF m, id
  <2> QED
    BY <1>1, <1>4
<1>9. Numbered(u, nextId, runs)
  BY <1>2, <1>7 DEF Numbered
<1>10. WriterOK(u, row, objects', landing, query, intents, records)
  <2>1. FoldOK(u, row, objects', intents, records)
    BY <1>1, <1>3, <1>6, <1>7, <1>8 DEF FoldOK
  <2>2. IdOK(u, row, objects', landing, query)
    <3>1. \A p \in landing : p.object # id
      BY <1>1, <1>3 DEF IdOK
    <3> QED
      BY <1>1, <1>3, <1>7, <3>1 DEF IdOK
  <2>3. EndOK(u, row)
    BY <1>7 DEF EndOK
  <2> QED
    BY <2>1, <2>2, <2>3 DEF WriterOK
<1>11. /\ DOMAIN objects' \subseteq 1..runs
       /\ \A o \in DOMAIN objects' : objects'[o] \in ObjectRows
       /\ \A o \in DOMAIN objects' : \/ o \in DOMAIN objects /\ objects'[o] = objects[o]
                                     \/ o = writers[w].id /\ writers[w].pc = "put"
       /\ DOMAIN objects \subseteq DOMAIN objects'
  BY <1>1, <1>2, <1>4, <1>6, <1>8
<1>12. u.id = writers[w].id /\ writers[w].pc # "idle"
  BY <1>1, <1>7
<1> HIDE DEF m, id
<1> QED
  BY <1>1, <1>7, <1>9, <1>10, <1>11, <1>12, ObjectsMove

LEMMA ObjectsGo ==
  ASSUME SearchInv, NEW w \in Writers, NEW gone, RemoveObjects(gone), Finish(w),
         row # Missing /\ ~row.late => row.object \notin gone,
         \A v \in Writers : v # w /\ writers[v].pc = "publish"
             /\ Generation(writers[v].row) = Generation(row) => writers[v].id \notin gone,
         UNCHANGED <<records, intents, nextId, executorGen, row, landing, runs, query>>
  PROVE  SearchInv'
<1>1. /\ DOMAIN objects' = DOMAIN objects \ gone
      /\ \A o \in DOMAIN objects' : objects'[o] = objects[o]
  BY DEF RemoveObjects
<1>2. writers' = [writers EXCEPT ![w] = IdleWriter]
  BY DEF Finish
<1>3. /\ DOMAIN objects \subseteq 1..runs /\ \A o \in DOMAIN objects : objects[o] \in ObjectRows
      /\ nextId \in Nat \ {0} /\ runs \in Nat
  BY DEF SearchInv, SearchTypes
<1>4. /\ IdleWriter \in WriterRows /\ IdleWriter.pc = "idle"
      /\ Numbered(IdleWriter, nextId, runs)
  BY <1>3, IdleWriterOK
<1>5. WriterOK(IdleWriter, row, objects', landing, query, intents, records)
  BY <1>4 DEF WriterOK
<1> QED
  BY <1>1, <1>2, <1>3, <1>4, <1>5, ObjectsMove

LEMMA DiscardsKeep ==
  ASSUME SearchInv, NEW w \in Writers, Discard(w)
  PROVE  SearchInv'
<1>1. /\ writers[w].pc = "discard" /\ Finish(w)
      /\ UNCHANGED <<records, intents, nextId, executorGen, row, landing, runs, query>>
  BY DEF Discard
<1>2. WriterOK(writers[w], row, objects, landing, query, intents, records)
  BY DEF SearchInv
<1>3. row # Missing /\ ~row.late => row.object # writers[w].id
  BY <1>1, <1>2 DEF WriterOK, EndOK, Names
<1>4. \A v \in Writers : v # w /\ writers[v].pc = "publish" => writers[v].id # writers[w].id
  BY <1>1 DEF SearchInv, OwnIds
<1>5. CASE RemoveObjects({writers[w].id})
  BY <1>1, <1>3, <1>4, <1>5, ObjectsGo
<1>6. CASE UNCHANGED objects
  <2>1. writers' = [writers EXCEPT ![w] = IdleWriter] /\ runs' = runs
    BY <1>1 DEF Finish
  <2>2. nextId \in Nat \ {0} /\ runs \in Nat
    BY DEF SearchInv, SearchTypes
  <2>3. OneMoves(w, IdleWriter)
    BY <1>1, <1>6, <2>1, <2>2, IdleWriterOK DEF OneMoves, WriterOK
  <2> QED
    BY <2>3, OneWriterMoves
<1> QED
  BY <1>5, <1>6 DEF Discard

LEMMA IndexSweepsKeep ==
  ASSUME SearchInv, SearchMissing, NEW w \in Writers, SweepIndexes(w)
  PROVE  SearchInv'
<1>1. PICK gone \in SUBSET SweepableBy(w) : RemoveObjects(gone)
  BY DEF SweepIndexes
<1>2. /\ writers[w].pc = "sweep" /\ Finish(w)
      /\ UNCHANGED <<records, intents, nextId, executorGen, row, landing, runs, query>>
  BY DEF SweepIndexes
<1> DEFINE before == Generation(writers[w].row)
<1>3. /\ row # Missing /\ row.generation > before
      /\ row.generation = before + 1 => row.object = writers[w].id
  <2>1. WriterOK(writers[w], row, objects, landing, query, intents, records)
    BY DEF SearchInv
  <2> QED
    BY <1>2, <2>1 DEF WriterOK, EndOK
<1>4. /\ before \in Nat /\ row \in RowRows \cup {Missing} /\ writers \in [Writers -> WriterRows]
  BY GenerationType DEF SearchInv, SearchTypes, WriterRows
<1>5. row.generation = Generation(row) /\ Generation(row) \in Nat
  BY <1>3, <1>4, GenerationType
<1>6. \A o \in gone : /\ o \in DOMAIN objects /\ o # writers[w].id
                      /\ objects[o].generation <= before + 1
  BY DEF SweepableBy
<1>7. row.object \notin gone
  <2>1. row.object \in DOMAIN objects => objects[row.object].generation = row.generation
    BY <1>3 DEF SearchInv, RowOK
  <2> HIDE DEF before
  <2> QED
    BY <1>3, <1>4, <1>5, <1>6, <2>1
<1>8. ASSUME NEW v \in Writers, writers[v].pc = "publish",
             Generation(writers[v].row) = Generation(row)
      PROVE  writers[v].id \notin gone
  <2>1. writers[v].id \in DOMAIN objects
          => objects[writers[v].id].generation = Generation(row) + 1
    <3>1. WriterOK(writers[v], row, objects, landing, query, intents, records)
      BY DEF SearchInv
    <3> QED
      BY <1>8, <3>1 DEF WriterOK, FoldOK
  <2> HIDE DEF before
  <2> QED
    BY <1>3, <1>4, <1>5, <1>6, <2>1
<1> QED
  BY <1>1, <1>2, <1>7, <1>8, ObjectsGo

(***************************************************************************)
(* A publication that wins: it is of the generation after the published    *)
(* one, so no other run or publication can win any more.                   *)
(***************************************************************************)
Executes(p, late) ==
  /\ p \in PublicationRows /\ late \in BOOLEAN /\ Wins(p)
  /\ p.applied < nextId /\ p.object <= runs /\ p.object # 0
  /\ LandOK(p, row, objects, intents, records) /\ (late \/ p.object \in DOMAIN objects)
  /\ row' = [generation |-> p.previous + 1, applied |-> p.applied, object |-> p.object,
             late |-> late]
  /\ intents' = {i \in intents : i.id > p.applied}
  /\ UNCHANGED <<records, nextId, executorGen, objects, runs, query>>

LEMMA ExecutedRow ==
  ASSUME SearchInv, SearchMissing, NEW p, NEW late, Executes(p, late)
  PROVE  /\ row' \in RowRows /\ row' # Missing /\ row'.object = p.object
         /\ row'.applied = p.applied /\ row'.late = late
         /\ row'.generation = Generation(row) + 1 /\ Generation(row') = Generation(row) + 1
         /\ Generation(row) \in Nat /\ p.previous = Generation(row)
<1>1. p.previous = Generation(row) /\ Generation(row) \in Nat
  BY GenerationType DEF Executes, Wins, SearchInv, SearchTypes
<1>2. p.applied \in Nat /\ p.object \in Nat \ {0} /\ late \in BOOLEAN
  BY DEF Executes, PublicationRows
<1>3. row' = [generation |-> Generation(row) + 1, applied |-> p.applied, object |-> p.object,
              late |-> late]
  BY <1>1 DEF Executes
<1> DEFINE generation == Generation(row) + 1
<1>4. generation \in Nat \ {0}
  BY <1>1
<1> HIDE DEF generation
<1>5. row' \in RowRows
  BY <1>2, <1>3, <1>4 DEF RowRows, generation
<1>6. row' # Missing
  BY <1>5 DEF SearchMissing, RowRows
<1> QED
  BY <1>1, <1>3, <1>5, <1>6 DEF Generation

LEMMA ExecutedWriter ==
  ASSUME SearchInv, SearchMissing, NEW p, NEW late, Executes(p, late), landing' \subseteq landing,
         NEW x \in WriterRows, WriterOK(x, row, objects, landing, query, intents, records),
         x.id = p.object /\ x.pc # "idle" =>
           /\ x.pc \in {"unknown", "discard", "sweep"} /\ late /\ p.previous = Generation(x.row)
  PROVE  WriterOK(x, row', objects, landing', query, intents', records)
<1>1. /\ row' # Missing /\ row'.object = p.object /\ row'.late = late
      /\ row'.generation = Generation(row) + 1 /\ Generation(row') = Generation(row) + 1
      /\ Generation(row) \in Nat /\ p.previous = Generation(row)
  BY ExecutedRow
<1>2. Generation(x.row) \in Nat
  BY GenerationType DEF WriterRows
<1> SUFFICES ASSUME x.pc # "idle"
             PROVE  WriterOK(x, row', objects, landing', query, intents', records)
  BY DEF WriterOK
<1>3. /\ FoldOK(x, row, objects, intents, records) /\ IdOK(x, row, objects, landing, query)
      /\ EndOK(x, row)
  BY DEF WriterOK
<1>4. FoldOK(x, row', objects, intents', records)
  BY <1>1, <1>2, <1>3 DEF FoldOK
<1>5. IdOK(x, row', objects, landing', query)
  BY <1>1, <1>3 DEF IdOK, Names
<1>6. EndOK(x, row')
  <2>1. row \in RowRows \cup {Missing}
    BY DEF SearchInv, SearchTypes
  <2>2. row # Missing => row.generation = Generation(row)
    BY <2>1, GenerationType
  <2> QED
    BY <1>1, <1>2, <1>3, <2>2 DEF EndOK, Names
<1> QED
  BY <1>4, <1>5, <1>6 DEF WriterOK

LEMMA ExecutionKeeps ==
  ASSUME SearchInv, SearchMissing, NEW p, NEW late, Executes(p, late), landing' \subseteq landing,
         writers' \in [Writers -> WriterRows], OwnIds(writers'),
         \A v \in Writers : /\ Numbered(writers'[v], nextId, runs)
                            /\ WriterOK(writers'[v], row', objects, landing', query, intents',
                                        records)
  PROVE  SearchInv'
<1>1. /\ row' \in RowRows /\ row' # Missing /\ row'.object = p.object /\ row'.late = late
      /\ row'.applied = p.applied
      /\ row'.generation = Generation(row) + 1 /\ Generation(row') = Generation(row) + 1
      /\ Generation(row) \in Nat /\ p.previous = Generation(row)
  BY ExecutedRow
<1>2. /\ UNCHANGED <<records, nextId, executorGen, objects, runs, query>>
      /\ intents' = {i \in intents : i.id > p.applied}
      /\ p \in PublicationRows /\ p.applied < nextId /\ p.object <= runs /\ p.object # 0
  BY DEF Executes
<1>3. SearchTypes'
  <2>1. intents' \subseteq intents /\ IsFiniteSet(intents')
    <3>1. intents' \subseteq intents
      BY <1>2
    <3> QED
      BY <3>1, FS_Subset DEF SearchInv, SearchTypes
  <2> QED
    BY <1>1, <1>2, <2>1 DEF SearchInv, SearchTypes
<1>4. RowOK(row', objects, intents', records)
  <2>1. LandOK(p, row, objects, intents, records) /\ (late \/ p.object \in DOMAIN objects)
    BY DEF Executes
  <2>2. \A c : CoveredBy(c, p.applied, intents, records)
                 => CoveredBy(c, p.applied, intents', records)
    BY <1>2 DEF CoveredBy, CoveredAt
  <2> QED
    BY <1>1, <2>1, <2>2 DEF RowOK, LandOK
<1>5. \A q \in landing' : LandOK(q, row', objects, intents', records)
  <2>1. \A q \in landing : LandOK(q, row, objects, intents, records) /\ q.previous \in Nat
    BY DEF SearchInv, SearchTypes, PublicationRows
  <2> QED
    BY <1>1, <2>1 DEF LandOK
<1>6. QueryOK(query, objects, intents', records, nextId, runs)
  <2>1. QueryOK(query, objects, intents, records, nextId, runs)
    BY DEF SearchInv
  <2>2. \A some : PendingOK(query, objects, intents, some)
                    => PendingOK(query, objects, intents', some)
    BY <1>2 DEF PendingOK
  <2> QED
    BY <2>1, <2>2 DEF QueryOK
<1> QED
  BY <1>2, <1>3, <1>4, <1>5, <1>6 DEF SearchInv

LEMMA PublicationOK ==
  ASSUME SearchInv, SearchMissing, NEW w \in Writers, writers[w].pc = "publish"
  PROVE  LET p == Publication(w)
         IN  /\ p \in PublicationRows /\ p.applied < nextId /\ p.object <= runs /\ p.object # 0
             /\ p.previous = Generation(writers[w].row) /\ p.object = writers[w].id
             /\ LandOK(p, row, objects, intents, records)
             /\ Wins(p) => p.object \in DOMAIN objects
<1> DEFINE p == Publication(w)
           m == writers[w]
<1>1. /\ m \in WriterRows /\ Numbered(m, nextId, runs)
      /\ WriterOK(m, row, objects, landing, query, intents, records)
  BY DEF SearchInv, SearchTypes
<1>2. Generation(m.row) \in Nat
  BY <1>1, GenerationType DEF WriterRows
<1>3. /\ p.previous = Generation(m.row) /\ p.applied = m.applied /\ p.executor = m.executor
      /\ p.object = m.id
  BY DEF Publication
<1>4. p \in PublicationRows
  BY <1>1, <1>2 DEF Publication, PublicationRows, WriterRows
<1>5. FoldOK(m, row, objects, intents, records) /\ m.id # 0
  BY <1>1 DEF WriterOK, IdOK
<1>6. LandOK(p, row, objects, intents, records) /\ (Wins(p) => p.object \in DOMAIN objects)
  <2> HIDE DEF p, m
  <2> QED
    BY <1>3, <1>5 DEF LandOK, FoldOK, Wins, m
<1> QED
  BY <1>1, <1>3, <1>4, <1>5, <1>6 DEF Numbered

LEMMA PublicationsKeep ==
  ASSUME SearchInv, SearchMissing, NEW w \in Writers, PublishIndex(w)
  PROVE  SearchInv'
<1> DEFINE p == Publication(w)
           m == writers[w]
<1>1. /\ m.pc = "publish" /\ Execute(p, FALSE)
      /\ UNCHANGED <<records, nextId, executorGen, objects, landing, runs, query>>
  BY DEF PublishIndex
<1>2. /\ m \in WriterRows /\ Numbered(m, nextId, runs) /\ runs \in Nat
      /\ WriterOK(m, row, objects, landing, query, intents, records)
      /\ writers \in [Writers -> WriterRows]
  BY DEF SearchInv, SearchTypes
<1>3. /\ p \in PublicationRows /\ p.applied < nextId /\ p.object <= runs /\ p.object # 0
      /\ p.previous = Generation(m.row) /\ p.object = m.id
      /\ LandOK(p, row, objects, intents, records)
      /\ Wins(p) => p.object \in DOMAIN objects
  BY <1>1, PublicationOK
<1>4. IdOK(m, row, objects, landing, query) /\ FoldOK(m, row, objects, intents, records)
  BY <1>1, <1>2 DEF WriterOK
<1>5. \A q \in landing : q.object # m.id
  BY <1>1, <1>4 DEF IdOK
<1>6. PICK pc \in {"sweep", "discard", "unknown"} :
        /\ writers' = [writers EXCEPT ![w] = Going(m, pc)]
        /\ Wins(p) => pc # "discard"
        /\ ~ Wins(p) => pc # "sweep"
  BY DEF PublishIndex, Step, Going
<1> DEFINE u == Going(m, pc)
<1>7. /\ u \in WriterRows /\ u.pc = pc /\ u.contents = m.contents /\ u.applied = m.applied
      /\ u.row = m.row /\ u.batch = m.batch /\ u.newest = m.newest /\ u.id = m.id
  <2>1. pc \in WriterPcs
    BY DEF WriterPcs
  <2> HIDE DEF m
  <2> QED
    BY <1>2, <2>1, WriterGoes
<1> HIDE DEF u
<1>8. Numbered(u, nextId, runs)
  BY <1>2, <1>7 DEF Numbered
<1>9. CASE Wins(p)
  <2>1. Executes(p, FALSE)
    BY <1>1, <1>3, <1>9 DEF Executes, Execute
  <2>2. landing' \subseteq landing
    BY <1>1
  <2>3. /\ row' # Missing /\ row'.object = p.object
        /\ row'.generation = Generation(row) + 1 /\ Generation(row') = Generation(row) + 1
        /\ Generation(row) \in Nat /\ p.previous = Generation(row)
    BY <2>1, ExecutedRow
  <2>4. WriterOK(u, row', objects, landing', query, intents', records)
    <3>1. FoldOK(u, row', objects, intents', records)
      BY <1>3, <1>6, <1>7, <2>3 DEF FoldOK
    <3>2. IdOK(u, row', objects, landing', query)
      BY <1>1, <1>4, <1>5, <1>6, <1>7 DEF IdOK
    <3>3. EndOK(u, row')
      BY <1>3, <1>6, <1>7, <1>9, <2>3 DEF EndOK
    <3> QED
      BY <3>1, <3>2, <3>3 DEF WriterOK
  <2>5. \A v \in Writers : writers'[v] = IF v = w THEN u ELSE writers[v]
    BY <1>2, <1>6 DEF u
  <2>6. \A v \in Writers : v # w /\ writers[v].pc # "idle" => writers[v].id # m.id
    BY <1>1 DEF SearchInv, OwnIds
  <2>7. ASSUME NEW v \in Writers
        PROVE  /\ Numbered(writers'[v], nextId, runs)
               /\ WriterOK(writers'[v], row', objects, landing', query, intents', records)
    <3>1. CASE v = w
      BY <1>8, <2>4, <2>5, <3>1
    <3>2. CASE v # w
      <4> DEFINE x == writers[v]
      <4>1. /\ x \in WriterRows /\ Numbered(x, nextId, runs)
            /\ WriterOK(x, row, objects, landing, query, intents, records)
        BY DEF SearchInv, SearchTypes
      <4>2. x.pc # "idle" => x.id # p.object
        BY <1>3, <2>6, <3>2
      <4>3. writers'[v] = x
        BY <2>5, <3>2
      <4> HIDE DEF x, p
      <4>4. WriterOK(x, row', objects, landing', query, intents', records)
        BY <2>1, <2>2, <4>1, <4>2, ExecutedWriter
      <4> QED
        BY <4>1, <4>3, <4>4
    <3> QED
      BY <3>1, <3>2
  <2>8. writers' \in [Writers -> WriterRows]
    BY <1>2, <1>6, <1>7 DEF u
  <2>9. OwnIds(writers')
    <3>1. OwnIds(writers)
      BY DEF SearchInv
    <3> QED
      BY <1>1, <1>7, <2>5, <3>1 DEF OwnIds
  <2> HIDE DEF p, m
  <2> QED
    BY <2>1, <2>2, <2>7, <2>8, <2>9, ExecutionKeeps
<1>10. CASE ~ Wins(p)
  <2>1. row' = row /\ intents' = intents /\ runs' = runs
    BY <1>1, <1>10 DEF Execute
  <2>2. WriterOK(u, row, objects, landing, query, intents, records)
    <3>1. FoldOK(u, row, objects, intents, records)
      BY <1>4, <1>6, <1>7 DEF FoldOK
    <3>2. IdOK(u, row, objects, landing, query)
      BY <1>1, <1>4, <1>5, <1>6, <1>7 DEF IdOK
    <3>3. EndOK(u, row)
      BY <1>1, <1>4, <1>6, <1>7, <1>10 DEF EndOK, IdOK
    <3> QED
      BY <3>1, <3>2, <3>3 DEF WriterOK
  <2>3. OneMoves(w, u)
    BY <1>1, <1>2, <1>6, <1>7, <1>8, <2>1, <2>2 DEF OneMoves, u
  <2> QED
    BY <2>3, OneWriterMoves
<1> QED
  BY <1>9, <1>10

LEMMA LossesKeep ==
  ASSUME SearchInv, SearchMissing, NEW w \in Writers, LosePublication(w)
  PROVE  SearchInv'
<1> DEFINE p == Publication(w)
           m == writers[w]
<1>1. /\ m.pc = "publish"
      /\ UNCHANGED <<records, intents, nextId, executorGen, row, objects, runs, query>>
  BY DEF LosePublication
<1>2. /\ m \in WriterRows /\ Numbered(m, nextId, runs) /\ runs \in Nat
      /\ WriterOK(m, row, objects, landing, query, intents, records)
      /\ writers \in [Writers -> WriterRows]
  BY DEF SearchInv, SearchTypes
<1>3. /\ p \in PublicationRows /\ p.applied < nextId /\ p.object <= runs /\ p.object # 0
      /\ p.previous = Generation(m.row) /\ p.object = m.id
      /\ LandOK(p, row, objects, intents, records)
  BY <1>1, PublicationOK
<1>4. IdOK(m, row, objects, landing, query) /\ FoldOK(m, row, objects, intents, records)
  BY <1>1, <1>2 DEF WriterOK
<1>5. \A q \in landing : q.object # m.id
  BY <1>1, <1>4 DEF IdOK
<1>6. PICK pc \in {"discard", "unknown"} :
        /\ writers' = [writers EXCEPT ![w] = Going(m, pc)]
        /\ pc = "discard" => landing' = landing
        /\ pc = "unknown" => landing' = landing \cup {p}
  BY DEF LosePublication, Step, Going
<1> DEFINE u == Going(m, pc)
<1>7. /\ u \in WriterRows /\ u.pc = pc /\ u.contents = m.contents /\ u.applied = m.applied
      /\ u.row = m.row /\ u.batch = m.batch /\ u.newest = m.newest /\ u.id = m.id
  <2>1. pc \in WriterPcs
    BY DEF WriterPcs
  <2> HIDE DEF m
  <2> QED
    BY <1>2, <2>1, WriterGoes
<1> HIDE DEF u
<1>8. Numbered(u, nextId, runs)
  BY <1>2, <1>7 DEF Numbered
<1>9. landing \subseteq landing' /\ \A q \in landing' : q \in landing \/ (q = p /\ pc = "unknown")
  BY <1>6
<1>10. WriterOK(u, row, objects, landing', query, intents, records)
  <2>1. FoldOK(u, row, objects, intents, records)
    BY <1>4, <1>6, <1>7 DEF FoldOK
  <2>2. IdOK(u, row, objects, landing', query)
    <3> HIDE DEF p, m
    <3> QED
      BY <1>3, <1>4, <1>5, <1>6, <1>7, <1>9 DEF IdOK
  <2>3. EndOK(u, row)
    BY <1>1, <1>4, <1>6, <1>7 DEF EndOK, IdOK
  <2> QED
    BY <2>1, <2>2, <2>3 DEF WriterOK
<1>11. \A v \in Writers : writers'[v] = IF v = w THEN u ELSE writers[v]
  BY <1>2, <1>6 DEF u
<1>12. \A v \in Writers : v # w /\ writers[v].pc # "idle" => writers[v].id # m.id
  BY <1>1 DEF SearchInv, OwnIds
<1>13. ASSUME NEW v \in Writers
       PROVE  /\ Numbered(writers'[v], nextId, runs)
              /\ WriterOK(writers'[v], row, objects, landing', query, intents, records)
  <2>1. CASE v = w
    BY <1>8, <1>10, <1>11, <2>1
  <2>2. CASE v # w
    <3> DEFINE x == writers[v]
    <3>1. /\ x \in WriterRows /\ Numbered(x, nextId, runs)
          /\ WriterOK(x, row, objects, landing, query, intents, records)
      BY DEF SearchInv, SearchTypes
    <3>2. x.pc # "idle" => x.id # p.object
      BY <1>3, <1>12, <2>2
    <3>3. writers'[v] = x
      BY <1>11, <2>2
    <3> HIDE DEF x, p
    <3>4. WriterOK(x, row, objects, landing', query, intents, records)
      BY <1>9, <3>1, <3>2 DEF WriterOK, IdOK
    <3> QED
      BY <3>1, <3>3, <3>4
  <2> QED
    BY <2>1, <2>2
<1>14. OwnIds(writers')
  <2>1. OwnIds(writers)
    BY DEF SearchInv
  <2> QED
    BY <1>1, <1>7, <1>11, <2>1 DEF OwnIds
<1>15. writers' \in [Writers -> WriterRows]
  BY <1>2, <1>6, <1>7 DEF u
<1>16. \A q \in landing' : /\ q \in PublicationRows /\ q.applied < nextId /\ q.object <= runs
                           /\ q.object # 0 /\ LandOK(q, row, objects, intents, records)
  <2>1. \A q \in landing : /\ q \in PublicationRows /\ q.applied < nextId /\ q.object <= runs
                           /\ q.object # 0 /\ LandOK(q, row, objects, intents, records)
    BY DEF SearchInv, SearchTypes
  <2> HIDE DEF p, m
  <2> QED
    BY <1>3, <1>9, <2>1
<1>17. SearchTypes'
  BY <1>1, <1>13, <1>15, <1>16 DEF SearchInv, SearchTypes
<1> QED
  BY <1>1, <1>13, <1>14, <1>16, <1>17 DEF SearchInv

LEMMA LandingsKeep ==
  ASSUME SearchInv, SearchMissing, NEW p \in landing, Land(p)
  PROVE  SearchInv'
<1>1. /\ Execute(p, TRUE) /\ landing' = landing \ {p}
      /\ UNCHANGED <<records, nextId, executorGen, objects, writers, runs, query>>
  BY DEF Land
<1>2. /\ p \in PublicationRows /\ p.applied < nextId /\ p.object <= runs /\ p.object # 0
      /\ LandOK(p, row, objects, intents, records)
      /\ writers \in [Writers -> WriterRows] /\ OwnIds(writers)
  BY DEF SearchInv, SearchTypes
<1>3. ASSUME NEW v \in Writers
      PROVE  /\ writers[v] \in WriterRows /\ Numbered(writers[v], nextId, runs)
             /\ WriterOK(writers[v], row, objects, landing, query, intents, records)
  BY DEF SearchInv, SearchTypes
<1>4. CASE Wins(p)
  <2>1. Executes(p, TRUE)
    BY <1>1, <1>2, <1>4 DEF Executes, Execute
  <2>2. landing' \subseteq landing
    BY <1>1
  <2>3. ASSUME NEW v \in Writers
        PROVE  WriterOK(writers[v], row', objects, landing', query, intents', records)
    <3> DEFINE x == writers[v]
    <3>1. x.id = p.object /\ x.pc # "idle"
            => /\ x.pc \in {"unknown", "discard", "sweep"}
               /\ p.previous = Generation(x.row)
      BY <1>3 DEF WriterOK, IdOK
    <3>2. /\ x \in WriterRows
          /\ WriterOK(x, row, objects, landing, query, intents, records)
      BY <1>3
    <3> HIDE DEF x
    <3>3. WriterOK(x, row', objects, landing', query, intents', records)
      BY <2>1, <2>2, <3>1, <3>2, ExecutedWriter
    <3> QED
      BY <3>3 DEF x
  <2>4. writers' = writers
    BY <1>1
  <2> QED
    BY <1>2, <1>3, <2>1, <2>2, <2>3, <2>4, ExecutionKeeps
<1>5. CASE ~ Wins(p)
  <2>1. row' = row /\ intents' = intents
    BY <1>1, <1>5 DEF Execute
  <2>2. \A v \in Writers : WriterOK(writers[v], row, objects, landing', query, intents, records)
    BY <1>1, <1>3 DEF WriterOK, IdOK
  <2>3. SearchTypes'
    BY <1>1, <2>1 DEF SearchInv, SearchTypes
  <2> QED
    BY <1>1, <2>1, <2>2, <2>3 DEF SearchInv
<1> QED
  BY <1>4, <1>5

(***************************************************************************)
(* A step of the query changes nothing but the query.                      *)
(***************************************************************************)
QueryMoves(u) ==
  /\ u \in QueryRows /\ query' = u
  /\ QueryOK(u, objects, intents, records, nextId, runs)
  /\ u.row = Missing \/ u.row = row \/ u.row = query.row
  /\ UNCHANGED <<records, intents, nextId, executorGen, row, objects, landing, writers, runs>>

LEMMA QueryStepsKeep ==
  ASSUME SearchInv, NEW u, QueryMoves(u)
  PROVE  SearchInv'
<1>1. /\ u \in QueryRows /\ query' = u
      /\ QueryOK(u, objects, intents, records, nextId, runs)
      /\ u.row = Missing \/ u.row = row \/ u.row = query.row
      /\ UNCHANGED <<records, intents, nextId, executorGen, row, objects, landing, writers, runs>>
  BY DEF QueryMoves
<1>2. ASSUME NEW w \in Writers
      PROVE  WriterOK(writers[w], row, objects, landing, u, intents, records)
  <2>1. WriterOK(writers[w], row, objects, landing, query, intents, records)
    BY DEF SearchInv
  <2> QED
    BY <1>1, <2>1 DEF WriterOK, IdOK, Names
<1>3. SearchTypes'
  BY <1>1 DEF SearchInv, SearchTypes
<1> QED
  BY <1>1, <1>2, <1>3 DEF SearchInv

LEMMA IdleQueryOK ==
  ASSUME NEW os, NEW is, NEW rs, NEW n, NEW k
  PROVE  /\ IdleQuery \in QueryRows /\ IdleQuery.row = Missing
         /\ QueryOK(IdleQuery, os, is, rs, n, k)
BY DEF IdleQuery, QueryRows, Empty, QueryOK

LEMMA StatesAreRead ==
  ASSUME SearchInv, SearchMissing, ReadState
  PROVE  SearchInv'
<1> DEFINE pending == Cardinality(PendingIntents)
           through == Biggest(Ids(PendingIntents))
           u == [IdleQuery EXCEPT !.pc = "load", !.row = row, !.seen = records,
                                  !.pending = pending, !.through = through]
<1>1. /\ row # Missing /\ query' = u
      /\ UNCHANGED <<records, intents, nextId, executorGen, row, objects, landing, writers, runs>>
  BY DEF ReadState
<1>2. /\ nextId \in Nat \ {0} /\ runs \in Nat /\ records \in [Records -> Nat]
      /\ row \in RowRows /\ row.applied < nextId /\ row.object <= runs
      /\ intents \subseteq IntentRows /\ IsFiniteSet(intents)
      /\ \A i \in intents : i.id < nextId
      /\ RowOK(row, objects, intents, records)
  BY <1>1 DEF SearchInv, SearchTypes
<1>3. PendingIntents \subseteq intents /\ IsFiniteSet(PendingIntents) /\ pending \in Nat
  <2>1. PendingIntents \subseteq intents
    BY DEF PendingIntents
  <2> QED
    BY <1>2, <2>1, FS_Subset, FS_CardinalityType
<1>4. through \in Nat /\ through < nextId
         /\ \A i \in PendingIntents : i.id <= through
  <2>1. Ids(PendingIntents) \subseteq 0..(nextId - 1)
    BY <1>2, <1>3 DEF Ids, IntentRows
  <2>2. nextId - 1 \in Nat /\ \A i \in PendingIntents : i.id \in Ids(PendingIntents)
    BY <1>2 DEF Ids
  <2>3. through \in 0..(nextId - 1) /\ \A k \in Ids(PendingIntents) : k <= through
    BY <2>1, <2>2, BiggestBounds
  <2> QED
    BY <1>2, <2>2, <2>3
<1>5. Applied(row) = row.applied
  BY <1>1 DEF Applied
<1> HIDE DEF pending, through
<1>6. /\ u \in QueryRows /\ u.pc = "load" /\ u.row = row /\ u.seen = records
      /\ u.pending = pending /\ u.through = through
  BY <1>2, <1>3, <1>4 DEF IdleQuery, QueryRows, Empty
<1> HIDE DEF u
<1>7. PendingOK(u, objects, intents, PendingIntents)
  <2>1. \A i \in intents : i.id > u.row.applied /\ i.id <= u.through => i \in PendingIntents
    BY <1>5, <1>6 DEF PendingIntents
  <2>2. row.object \in DOMAIN objects
          => HeldBy(objects[row.object].contents, records, PendingIntents)
    BY <1>1, <1>2, <1>5 DEF RowOK, HeldBy, CoveredBy, CoveredAt, PendingIntents
  <2> QED
    BY <1>3, <1>6, <2>1, <2>2 DEF PendingOK, pending
<1>8. QueryOK(u, objects, intents, records, nextId, runs)
  <2>1. \A r \in Records : u.seen[r] <= records[r]
    BY <1>2, <1>6
  <2> QED
    BY <1>1, <1>2, <1>4, <1>6, <1>7, <2>1 DEF QueryOK
<1>9. QueryMoves(u)
  BY <1>1, <1>6, <1>8 DEF QueryMoves
<1> QED
  BY <1>9, QueryStepsKeep

LEMMA BasesAreLoaded ==
  ASSUME SearchInv, LoadBase
  PROVE  SearchInv'
<1> DEFINE base == objects[query.row.object].contents
           u == [query EXCEPT !.pc = "overlay", !.base = base]
<1>1. /\ query.pc = "load"
      /\ UNCHANGED <<records, intents, nextId, executorGen, row, objects, landing, writers, runs>>
  BY DEF LoadBase
<1>2. CASE ~ Readable(query.row)
  <2>1. query' = IdleQuery
    BY <1>2 DEF LoadBase
  <2>2. QueryMoves(IdleQuery)
    BY <1>1, <2>1, IdleQueryOK DEF QueryMoves
  <2> QED
    BY <2>2, QueryStepsKeep
<1>3. CASE Readable(query.row)
  <2>1. query' = u /\ query.row.object \in DOMAIN objects
    BY <1>3 DEF LoadBase, Readable
  <2>2. /\ query \in QueryRows /\ QueryOK(query, objects, intents, records, nextId, runs)
        /\ \A o \in DOMAIN objects : objects[o] \in ObjectRows
    BY DEF SearchInv, SearchTypes
  <2>3. base \in [Records -> Nat]
    BY <2>1, <2>2 DEF ObjectRows
  <2>4. /\ u \in QueryRows /\ u.pc = "overlay" /\ u.base = base /\ u.row = query.row
        /\ u.pending = query.pending /\ u.through = query.through /\ u.seen = query.seen
    BY <2>2, <2>3 DEF QueryRows
  <2>5. PICK some : PendingOK(query, objects, intents, some)
    BY <1>1, <2>2 DEF QueryOK
  <2> HIDE DEF u
  <2>6. PendingOK(u, objects, intents, some)
    BY <1>1, <2>1, <2>4, <2>5 DEF PendingOK
  <2>7. QueryOK(u, objects, intents, records, nextId, runs)
    BY <1>1, <2>2, <2>4, <2>6 DEF QueryOK
  <2>8. QueryMoves(u)
    BY <1>1, <2>1, <2>4, <2>7 DEF QueryMoves
  <2> QED
    BY <2>8, QueryStepsKeep
<1> QED
  BY <1>2, <1>3

LEMMA OverlaysAreRead ==
  ASSUME SearchInv, ReadOverlay
  PROVE  SearchInv'
<1> DEFINE todo == {i.record : i \in Overlaid}
           complete == CompleteAnswer(Overlaid)
           u == [query EXCEPT !.pc = "records", !.complete = complete, !.todo = todo]
<1>1. /\ query.pc = "overlay" /\ query' = u
      /\ UNCHANGED <<records, intents, nextId, executorGen, row, objects, landing, writers, runs>>
  BY DEF ReadOverlay
<1>2. /\ query \in QueryRows /\ QueryOK(query, objects, intents, records, nextId, runs)
      /\ intents \subseteq IntentRows
  BY DEF SearchInv, SearchTypes
<1>3. todo \in SUBSET Records /\ complete \in BOOLEAN
  BY <1>2 DEF Overlaid, IntentRows, CompleteAnswer
<1>4. PICK some : PendingOK(query, objects, intents, some)
  BY <1>1, <1>2 DEF QueryOK
<1>5. complete => Overlaid = some
  <2>1. Overlaid \subseteq some /\ IsFiniteSet(some) /\ Cardinality(some) = query.pending
    BY <1>4 DEF PendingOK, Overlaid
  <2>2. /\ IsFiniteSet(Overlaid) /\ Cardinality(Overlaid) <= Cardinality(some)
        /\ Cardinality(Overlaid) = Cardinality(some) => Overlaid = some
        /\ Cardinality(Overlaid) \in Nat /\ Cardinality(some) \in Nat
    BY <2>1, FS_Subset, FS_CardinalityType
  <2> QED
    BY <2>1, <2>2 DEF CompleteAnswer
<1>6. complete => \A r \in Records : query.base[r] >= query.seen[r] \/ r \in todo
  BY <1>1, <1>4, <1>5 DEF PendingOK, HeldBy
<1> HIDE DEF todo, complete
<1>7. /\ u \in QueryRows /\ u.pc = "records" /\ u.base = query.base /\ u.row = query.row
      /\ u.todo = todo /\ u.complete = complete /\ u.through = query.through
      /\ u.seen = query.seen
  BY <1>2, <1>3 DEF QueryRows
<1> HIDE DEF u
<1>8. QueryOK(u, objects, intents, records, nextId, runs)
  BY <1>1, <1>2, <1>6, <1>7 DEF QueryOK
<1>9. QueryMoves(u)
  BY <1>1, <1>7, <1>8 DEF QueryMoves
<1> QED
  BY <1>9, QueryStepsKeep

LEMMA OverlaidIsRead ==
  ASSUME SearchInv, NEW r \in Records, ReadOverlaid(r)
  PROVE  SearchInv'
<1> DEFINE u == [query EXCEPT !.base[r] = records[r], !.todo = @ \ {r}]
<1>1. /\ query.pc = "records" /\ query' = u
      /\ UNCHANGED <<records, intents, nextId, executorGen, row, objects, landing, writers, runs>>
  BY DEF ReadOverlaid
<1>2. /\ query \in QueryRows /\ QueryOK(query, objects, intents, records, nextId, runs)
      /\ records \in [Records -> Nat]
  BY DEF SearchInv, SearchTypes
<1>3. /\ u \in QueryRows /\ u.pc = "records" /\ u.base = [query.base EXCEPT ![r] = records[r]]
      /\ u.row = query.row /\ u.todo = query.todo \ {r} /\ u.complete = query.complete
      /\ u.through = query.through /\ u.seen = query.seen
  BY <1>1, <1>2 DEF QueryRows
<1>4. query.base \in [Records -> Nat] /\ query.seen \in [Records -> Nat]
  BY <1>2 DEF QueryRows
<1> HIDE DEF u
<1>5. QueryOK(u, objects, intents, records, nextId, runs)
  <2>1. ASSUME u.complete, NEW s \in Records
        PROVE  u.base[s] >= u.seen[s] \/ s \in u.todo
    <3>1. query.seen[s] <= records[s] /\ (query.base[s] >= query.seen[s] \/ s \in query.todo)
      BY <1>1, <1>2, <1>3, <2>1 DEF QueryOK
    <3> QED
      BY <1>2, <1>3, <1>4, <3>1
  <2> QED
    BY <1>1, <1>2, <1>3, <2>1 DEF QueryOK
<1>6. QueryMoves(u)
  BY <1>1, <1>3, <1>5 DEF QueryMoves
<1> QED
  BY <1>6, QueryStepsKeep

LEMMA AnswersKeep ==
  ASSUME SearchInv, AnswerQuery
  PROVE  SearchInv'
<1>1. QueryMoves(IdleQuery)
  BY IdleQueryOK DEF AnswerQuery, QueryMoves
<1> QED
  BY <1>1, QueryStepsKeep

-----------------------------------------------------------------------------
(* The theorems. *)

LEMMA SearchStarts == SearchMissing /\ SearchInit => SearchInv
<1> SUFFICES ASSUME SearchMissing, SearchInit
             PROVE  SearchInv
  OBVIOUS
<1> USE DEF SearchInit
<1>1. SearchTypes
  <2>1. \A w \in Writers : writers[w] \in WriterRows /\ Numbered(writers[w], nextId, runs)
    BY IdleWriterOK
  <2>2. query \in QueryRows
    BY IdleQueryOK
  <2>3. IsFiniteSet(intents)
    BY FS_EmptySet
  <2> QED
    BY <2>1, <2>2, <2>3 DEF SearchTypes, Empty
<1>2. \A w \in Writers : writers[w].pc = "idle"
  BY IdleWriterOK
<1> QED
  BY <1>1, <1>2, IdleQueryOK DEF SearchInv, RowOK, WriterOK, OwnIds

LEMMA SearchStepsKeep ==
  ASSUME SearchInv, SearchBounds, SearchMissing, [SearchNext]_searchVars
  PROVE  SearchInv'
<1>1. CASE UNCHANGED searchVars
  BY <1>1 DEF searchVars, SearchInv, SearchTypes
<1>2. ASSUME NEW r \in Records, ChangeRecord(r)
      PROVE  SearchInv'
  BY <1>2, ChangesKeep
<1>3. ASSUME NEW r \in Records, ReadOverlaid(r)
      PROVE  SearchInv'
  BY <1>3, OverlaidIsRead
<1>4. CASE SwitchExecutor
  BY <1>4, SwitchesKeep
<1>5. CASE ReadState
  BY <1>5, StatesAreRead
<1>6. CASE LoadBase
  BY <1>6, BasesAreLoaded
<1>7. CASE ReadOverlay
  BY <1>7, OverlaysAreRead
<1>8. CASE AnswerQuery
  BY <1>8, AnswersKeep
<1>9. ASSUME NEW w \in Writers, StartRun(w)
      PROVE  SearchInv'
  BY <1>9, RunStarts
<1>10. ASSUME NEW w \in Writers, LoadIndex(w)
       PROVE  SearchInv'
  BY <1>10, IndexLoads
<1>11. ASSUME NEW w \in Writers, Rebuild(w)
       PROVE  SearchInv'
  BY <1>11, IndexRebuilds
<1>12. ASSUME NEW w \in Writers, PutIndex(w)
       PROVE  SearchInv'
  BY <1>12, IndexIsPut
<1>13. ASSUME NEW w \in Writers, PublishIndex(w)
       PROVE  SearchInv'
  BY <1>13, PublicationsKeep
<1>14. ASSUME NEW w \in Writers, LosePublication(w)
       PROVE  SearchInv'
  BY <1>14, LossesKeep
<1>15. ASSUME NEW w \in Writers, ReadBack(w)
       PROVE  SearchInv'
  BY <1>15, ReadsBack
<1>16. ASSUME NEW w \in Writers, Discard(w)
       PROVE  SearchInv'
  BY <1>16, DiscardsKeep
<1>17. ASSUME NEW w \in Writers, SweepIndexes(w)
       PROVE  SearchInv'
  BY <1>17, IndexSweepsKeep
<1>18. ASSUME NEW w \in Writers, CrashWriter(w)
       PROVE  SearchInv'
  BY <1>18, RunsCrash
<1>19. ASSUME NEW w \in Writers, NEW r \in Records, ReadRecord(w, r)
       PROVE  SearchInv'
  BY <1>19, RecordIsRead
<1>20. ASSUME NEW p \in landing, Land(p)
       PROVE  SearchInv'
  BY <1>20, LandingsKeep
<1> QED
  BY <1>1, <1>2, <1>3, <1>4, <1>5, <1>6, <1>7, <1>8, <1>9, <1>10, <1>11, <1>12, <1>13,
     <1>14, <1>15, <1>16, <1>17, <1>18, <1>19, <1>20 DEF SearchNext

(***************************************************************************)
(* The invariant holds for any records, any number of concurrent runs, of  *)
(* executor switches and of publications still on the way, and any batch   *)
(* (writer.ts, apply.ts, service.ts).                                      *)
(***************************************************************************)
THEOREM SearchInvAlways == SearchSpec => []SearchInv
<1>1. SearchInit => SearchInv
  BY SearchMissing, SearchStarts
<1>2. SearchInv /\ [SearchNext]_searchVars => SearchInv'
  BY SearchBounds, SearchMissing, SearchStepsKeep
<1> QED
  BY <1>1, <1>2, PTL DEF SearchSpec

(***************************************************************************)
(* What a query can read is the index its row names, and that index with   *)
(* the open intents is the current state of every record, whichever        *)
(* writers raced, rebuilt, lost their answer or swept (writer.ts publish,  *)
(* sweep, load).                                                           *)
(***************************************************************************)
THEOREM IndexStaysWhole == SearchSpec => []IndexIsWhole
<1>1. SearchInv => IndexIsWhole
  BY DEF SearchInv, RowOK, CoveredBy, CoveredAt, IndexIsWhole, NothingIsForgotten,
         PublishedIndexIsKept, Readable
<1> QED
  BY <1>1, SearchInvAlways, PTL

(***************************************************************************)
(* An answer that claims to be complete holds every record at the version  *)
(* the request read or a later one, even when the intents it counted were  *)
(* applied and deleted by a writer before it overlaid them (service.ts     *)
(* resolveView).                                                           *)
(***************************************************************************)
THEOREM CompleteAnswersCurrent == SearchSpec => []CompleteAnswersAreCurrent
<1>1. SearchInv => CompleteAnswersAreCurrent
  BY DEF SearchInv, QueryOK, CompleteAnswersAreCurrent
<1> QED
  BY <1>1, SearchInvAlways, PTL

-----------------------------------------------------------------------------
(* The types. *)

(***************************************************************************)
(* A generation is published once, by a run of its own: it is at most the  *)
(* number of runs. So a run, and a publication on the way, has started     *)
(* from a generation below its write id.                                   *)
(***************************************************************************)
GenerationBelow(m) == m.pc # "idle" => Generation(m.row) < m.id

GenerationsBounded ==
  /\ row # Missing => row.generation <= row.object
  /\ \A w \in Writers : GenerationBelow(writers[w])
  /\ \A p \in landing : p.previous < p.object

CountsBounded ==
  /\ \A r \in Records : records[r] <= MaxVersion
  /\ executorGen \in 1 .. MaxSwitches \cup {1} /\ runs <= MaxRuns

\* One run moves on, ends, or starts from the published row with the next id.
LEMMA OneRunBelow ==
  ASSUME SearchTypes, GenerationsBounded, NEW w \in Writers, NEW m,
         writers' = [writers EXCEPT ![w] = m],
         \/ m.pc = "idle"
         \/ writers[w].pc # "idle" /\ m.row = writers[w].row /\ m.id = writers[w].id
         \/ Generation(m.row) < m.id
  PROVE  \A v \in Writers : GenerationBelow(writers'[v])
<1>1. \A v \in Writers : writers'[v] = IF v = w THEN m ELSE writers[v]
  BY DEF SearchTypes
<1> QED
  BY <1>1 DEF GenerationsBounded, GenerationBelow

\* The steps of a run that leave its row and its write id.
LEMMA RunMovesOn ==
  ASSUME SearchTypes, GenerationsBounded, NEW w \in Writers,
         \/ \E pc : writers[w].pc # "idle" /\ Step(w, pc)
         \/ Finish(w)
  PROVE  \A v \in Writers : GenerationBelow(writers'[v])
<1>1. writers[w] \in WriterRows
  BY DEF SearchTypes
<1>2. CASE Finish(w)
  <2>1. IdleWriter.pc = "idle"
    BY DEF IdleWriter
  <2> QED
    BY <1>2, <2>1, OneRunBelow DEF Finish
<1>3. ASSUME NEW pc, writers[w].pc # "idle", Step(w, pc)
      PROVE  \A v \in Writers : GenerationBelow(writers'[v])
  <2> DEFINE m == [writers[w] EXCEPT !.pc = pc]
  <2>1. m.row = writers[w].row /\ m.id = writers[w].id
    BY <1>1 DEF WriterRows
  <2>2. writers' = [writers EXCEPT ![w] = m]
    BY <1>3 DEF Step
  <2> HIDE DEF m
  <2> QED
    BY <1>3, <2>1, <2>2, OneRunBelow
<1> QED
  BY <1>2, <1>3

LEMMA RunsStayBelow ==
  ASSUME SearchInv, GenerationsBounded, NEW w \in Writers,
         \/ StartRun(w) \/ LoadIndex(w) \/ Rebuild(w) \/ PutIndex(w)
         \/ ReadBack(w) \/ Discard(w) \/ SweepIndexes(w) \/ CrashWriter(w)
         \/ \E r \in Records : ReadRecord(w, r)
  PROVE  GenerationsBounded'
<1>1. SearchTypes /\ writers[w] \in WriterRows /\ row \in RowRows \cup {Missing} /\ runs \in Nat
  BY DEF SearchInv, SearchTypes
<1>2. row' = row /\ landing' = landing
  BY DEF StartRun, LoadIndex, Rebuild, PutIndex, ReadBack, Discard, SweepIndexes, CrashWriter,
         ReadRecord
<1>3. ASSUME \A v \in Writers : GenerationBelow(writers'[v])
      PROVE  GenerationsBounded'
  BY <1>2, <1>3 DEF GenerationsBounded
<1>4. CASE StartRun(w)
  <2> DEFINE m == Started(row, executorGen, FirstOf(PendingIntents, BatchLimit),
                          Biggest(Ids(PendingIntents)), runs + 1)
  <2>1. m.row = row /\ m.id = runs + 1
    BY DEF Started, IdleWriter
  <2>2. Generation(row) < runs + 1
    BY <1>1 DEF GenerationsBounded, Generation, SearchTypes, RowRows
  <2>3. writers' = [writers EXCEPT ![w] = m]
    BY <1>4 DEF StartRun, Started
  <2> HIDE DEF m
  <2> QED
    BY <1>1, <1>3, <2>1, <2>2, <2>3, OneRunBelow
<1>5. CASE LoadIndex(w)
  <2> DEFINE folded == Folded(writers[w], "apply", objects[writers[w].row.object].contents,
                              {i.record : i \in writers[w].batch},
                              Biggest(Ids(writers[w].batch)))
             m == IF writers[w].batch = {} THEN IdleWriter ELSE folded
  <2>1. IdleWriter.pc = "idle"
    BY DEF IdleWriter
  <2>2. folded.row = writers[w].row /\ folded.id = writers[w].id
    BY <1>1 DEF Folded, WriterRows
  <2>3. writers[w].pc # "idle" /\ writers' = [writers EXCEPT ![w] = m]
    BY <1>5 DEF LoadIndex, Folded
  <2> HIDE DEF folded
  <2>4. \/ m.pc = "idle"
        \/ m.row = writers[w].row /\ m.id = writers[w].id
    BY <2>1, <2>2
  <2> HIDE DEF m
  <2> QED
    BY <1>1, <1>3, <2>3, <2>4, OneRunBelow
<1>6. CASE Rebuild(w)
  <2> DEFINE m == Folded(writers[w], "apply", Empty, Records, RebuiltThrough(w))
  <2>1. m.row = writers[w].row /\ m.id = writers[w].id
    BY <1>1 DEF Folded, WriterRows
  <2>2. writers[w].pc # "idle" /\ writers' = [writers EXCEPT ![w] = m]
    BY <1>6 DEF Rebuild, Folded
  <2> HIDE DEF m
  <2> QED
    BY <1>1, <1>3, <2>1, <2>2, OneRunBelow
<1>7. ASSUME NEW r \in Records, ReadRecord(w, r)
      PROVE  GenerationsBounded'
  <2> DEFINE m == WithRecord(writers[w], r, records[r],
                             IF writers[w].todo = {r} THEN "put" ELSE "apply")
  <2>1. m.row = writers[w].row /\ m.id = writers[w].id
    BY <1>1 DEF WithRecord, WriterRows
  <2>2. writers[w].pc # "idle" /\ writers' = [writers EXCEPT ![w] = m]
    BY <1>7 DEF ReadRecord, WithRecord
  <2> HIDE DEF m
  <2> QED
    BY <1>1, <1>3, <2>1, <2>2, OneRunBelow
<1>8. CASE PutIndex(w)
  BY <1>1, <1>3, <1>8, RunMovesOn DEF PutIndex
<1>9. CASE ReadBack(w)
  BY <1>1, <1>3, <1>9, RunMovesOn DEF ReadBack
<1>10. CASE Discard(w) \/ SweepIndexes(w) \/ CrashWriter(w)
  BY <1>1, <1>3, <1>10, RunMovesOn DEF Discard, SweepIndexes, CrashWriter
<1> QED
  BY <1>4, <1>5, <1>6, <1>7, <1>8, <1>9, <1>10

\* What is published has the write id of a run that started one generation below.
LEMMA PublishedBelow ==
  ASSUME GenerationsBounded, NEW p, p.previous \in Nat, p.object \in Nat,
         p.previous < p.object, NEW late, Execute(p, late)
  PROVE  row' # Missing => row'.generation <= row'.object
BY DEF Execute, GenerationsBounded

LEMMA PublicationsStayBelow ==
  ASSUME SearchInv, GenerationsBounded, NEW w \in Writers, PublishIndex(w) \/ LosePublication(w)
  PROVE  GenerationsBounded'
<1> DEFINE p == Publication(w)
<1>1. SearchTypes /\ writers[w] \in WriterRows /\ writers[w].pc = "publish"
  BY DEF SearchInv, SearchTypes, PublishIndex, LosePublication
<1>2. p.previous \in Nat /\ p.object \in Nat /\ p.previous < p.object
  <2>1. p.previous = Generation(writers[w].row) /\ p.object = writers[w].id
    BY DEF Publication
  <2>2. writers[w].row \in RowRows \cup {Missing} /\ writers[w].id \in Nat
    BY <1>1 DEF WriterRows
  <2> QED
    BY <1>1, <2>1, <2>2, GenerationType, SearchMissing DEF GenerationsBounded, GenerationBelow
<1>3. \A v \in Writers : GenerationBelow(writers'[v])
  <2>1. writers[w].pc # "idle" /\ \E pc : Step(w, pc)
    BY <1>1 DEF PublishIndex, LosePublication
  <2> QED
    BY <1>1, <2>1, RunMovesOn
<1> HIDE DEF p
<1>4. CASE PublishIndex(w)
  <2>1. Execute(p, FALSE) /\ landing' = landing
    BY <1>4 DEF PublishIndex, p
  <2> QED
    BY <1>2, <1>3, <2>1, PublishedBelow DEF GenerationsBounded
<1>5. CASE LosePublication(w)
  <2>1. row' = row /\ landing' \subseteq landing \cup {p}
    BY <1>5 DEF LosePublication, p
  <2> QED
    BY <1>2, <1>3, <2>1 DEF GenerationsBounded
<1> QED
  BY <1>4, <1>5

LEMMA SearchStaysBounded ==
  ASSUME SearchInv, GenerationsBounded, CountsBounded, [SearchNext]_searchVars
  PROVE  GenerationsBounded' /\ CountsBounded'
<1>1. /\ runs \in Nat /\ executorGen \in Nat /\ records \in [Records -> Nat]
      /\ {MaxVersion, MaxRuns, MaxSwitches} \subseteq Nat
  BY SearchBounds DEF SearchInv, SearchTypes
<1>2. GenerationsBounded'
  <2>1. CASE UNCHANGED <<row, writers, landing>>
    BY <2>1 DEF GenerationsBounded
  <2>2. ASSUME NEW p \in landing, Land(p)
        PROVE  GenerationsBounded'
    <3>1. p.previous \in Nat /\ p.object \in Nat /\ p.previous < p.object
      BY DEF SearchInv, SearchTypes, PublicationRows, GenerationsBounded
    <3>2. Execute(p, TRUE) /\ landing' \subseteq landing /\ writers' = writers
      BY <2>2 DEF Land
    <3> QED
      BY <3>1, <3>2, PublishedBelow DEF GenerationsBounded
  <2>3. ASSUME NEW r \in Records, ChangeRecord(r) \/ ReadOverlaid(r)
        PROVE  GenerationsBounded'
    BY <2>1, <2>3 DEF ChangeRecord, ReadOverlaid
  <2>4. CASE SwitchExecutor \/ ReadState \/ LoadBase \/ ReadOverlay \/ AnswerQuery
             \/ UNCHANGED searchVars
    BY <2>1, <2>4 DEF SwitchExecutor, ReadState, LoadBase, ReadOverlay, AnswerQuery, searchVars
  <2> QED
    BY <2>2, <2>3, <2>4, RunsStayBelow, PublicationsStayBelow DEF SearchNext
<1>3. CountsBounded'
  <2>1. CASE UNCHANGED <<records, executorGen, runs>>
    BY <2>1 DEF CountsBounded
  <2>2. ASSUME NEW r \in Records, ChangeRecord(r)
        PROVE  CountsBounded'
    BY <1>1, <2>2 DEF ChangeRecord, CountsBounded
  <2>3. CASE SwitchExecutor
    <3>1. executorGen' \in 1 .. MaxSwitches
      BY <1>1, <2>3 DEF SwitchExecutor, CountsBounded
    <3> QED
      BY <2>3, <3>1 DEF SwitchExecutor, CountsBounded
  <2>4. ASSUME NEW w \in Writers, StartRun(w)
        PROVE  CountsBounded'
    BY <1>1, <2>4 DEF StartRun, CountsBounded
  <2>5. ASSUME NEW w \in Writers,
               \/ LoadIndex(w) \/ Rebuild(w) \/ PutIndex(w) \/ PublishIndex(w)
               \/ LosePublication(w) \/ ReadBack(w) \/ Discard(w) \/ SweepIndexes(w)
               \/ CrashWriter(w) \/ \E r \in Records : ReadRecord(w, r)
        PROVE  CountsBounded'
    BY <2>1, <2>5 DEF LoadIndex, Rebuild, PutIndex, PublishIndex, LosePublication, ReadBack,
                      Discard, SweepIndexes, CrashWriter, ReadRecord
  <2>6. ASSUME \/ ReadState \/ LoadBase \/ ReadOverlay \/ AnswerQuery \/ UNCHANGED searchVars
               \/ \E r \in Records : ReadOverlaid(r)
               \/ \E p \in landing : Land(p)
        PROVE  CountsBounded'
    BY <2>1, <2>6 DEF ReadState, LoadBase, ReadOverlay, AnswerQuery, searchVars, ReadOverlaid, Land
  <2> QED
    BY <2>2, <2>3, <2>4, <2>5, <2>6 DEF SearchNext
<1> QED
  BY <1>2, <1>3

(***************************************************************************)
(* Records, intents, the published row and the index objects keep their    *)
(* types: no more generations are published than runs were started.        *)
(***************************************************************************)
THEOREM SearchTypeCorrect == SearchSpec => []SearchTypeOK
<1>1. SearchInit => GenerationsBounded /\ CountsBounded
  <2> SUFFICES ASSUME SearchInit
               PROVE  GenerationsBounded /\ CountsBounded
    OBVIOUS
  <2>1. \A w \in Writers : writers[w].pc = "idle"
    BY DEF SearchInit, IdleWriter
  <2> QED
    BY <2>1, SearchBounds DEF SearchInit, Empty, GenerationsBounded, GenerationBelow, CountsBounded
<1>2. SearchInv /\ GenerationsBounded /\ CountsBounded /\ [SearchNext]_searchVars
        => GenerationsBounded' /\ CountsBounded'
  BY SearchStaysBounded
<1>3. SearchInv /\ GenerationsBounded /\ CountsBounded => SearchTypeOK
  <2> SUFFICES ASSUME SearchTypes, GenerationsBounded, CountsBounded
               PROVE  SearchTypeOK
    BY DEF SearchInv
  <2>1. nextId \in Nat \ {0} /\ runs \in Nat /\ MaxRuns \in Nat /\ MaxVersion \in Nat /\ runs <= MaxRuns
    BY SearchBounds DEF SearchTypes, CountsBounded
  <2>2. records \in [Records -> 0 .. MaxVersion]
    BY <2>1 DEF SearchTypes, CountsBounded
  <2>3. \A i \in intents : i.record \in Records /\ i.id \in 1 .. nextId - 1
    BY <2>1 DEF SearchTypes, IntentRows
  <2>4. row = Missing \/ /\ row.generation \in 1 .. MaxRuns
                         /\ row.applied \in 0 .. nextId - 1 /\ row.object \in 1 .. runs
    <3>1. CASE row # Missing
      <4>1. /\ row.generation \in Nat \ {0} /\ row.applied \in Nat /\ row.object \in Nat \ {0}
            /\ row.applied < nextId /\ row.object <= runs /\ row.generation <= row.object
        BY <3>1 DEF SearchTypes, RowRows, GenerationsBounded
      <4> QED
        BY <2>1, <4>1
    <3> QED
      BY <3>1
  <2>5. \A w \in Writers : writers[w].pc \in WriterPcs
    BY DEF SearchTypes, WriterRows
  <2>6. query.pc \in {"idle", "load", "overlay", "records"}
    BY DEF SearchTypes, QueryRows
  <2> QED
    BY <2>2, <2>3, <2>4, <2>5, <2>6 DEF SearchTypeOK, SearchTypes, CountsBounded, WriterPcs
<1> QED
  BY <1>1, <1>2, <1>3, SearchInvAlways, PTL DEF SearchSpec
=============================================================================
