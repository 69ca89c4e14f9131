--------------------------- MODULE TopicDelivery ---------------------------
(***************************************************************************)
(* Delivery on one conversation topic of the realtime hub: its sequence    *)
(* numbers and replay buffer, subscriptions whose snapshot is still being  *)
(* read, and clients that reconnect with the last sequence number they     *)
(* applied (apps/api/src/modules/realtime: topic-hub.ts, ring-buffer.ts).  *)
(*                                                                         *)
(* A change is committed to the database first and published afterwards,   *)
(* so the publications of two requests may change order, and a process     *)
(* that stops loses the ones it had not made.                              *)
(*                                                                         *)
(* The hub serves conversation topics for features and clients outside     *)
(* this repository: nothing in it registers a snapshot provider, and its   *)
(* web client subscribes to the user topic only. What the module assumes   *)
(* of them is the contract the hub is written to: a snapshot holds every   *)
(* change committed when it was read, and the cursor a client sends is a   *)
(* number up to which it has applied everything (ring-buffer.ts, contracts *)
(* common/ws.ts). The user topic keeps no buffer, takes no cursor and      *)
(* sends its snapshot even if a contributor failed: it is part of          *)
(* TaskStore.                                                              *)
(***************************************************************************)
EXTENDS Integers, Sequences, FiniteSets

CONSTANTS
    Clients,        \* sockets that subscribe
    Replaying,      \* of these, the ones that send a cursor (others: null)
    NoSeq,          \* no topic state, no cursor
    Capacity,       \* bufferCapacity: frames kept for replay
    PendingLimit,   \* pendingLimit: frames kept while a snapshot is read
    Rate,           \* sequence numbers per clock step (1000 per millisecond)
    MaxChanges,     \* bound of the changes committed
    MaxTopicClock,  \* bound of the clock
    MaxDrops        \* bound of the disconnections of a client

ASSUME DeliveryBounds ==
    /\ Replaying \subseteq Clients
    /\ {Capacity, PendingLimit, MaxTopicClock} \subseteq Nat \ {0}
    /\ {Rate, MaxChanges, MaxDrops} \subseteq Nat
    /\ MaxChanges + MaxTopicClock < Rate
    /\ NoSeq \notin Nat \cup [seq : Nat, buffer : Seq([seq : Nat, change : Nat])]

VARIABLES
    committed,      \* changes in the database: 1..committed
    unpublished,    \* of these, the ones this process has still to publish
    topic,          \* TopicState [seq, buffer], or None
    highestSeq,     \* the largest sequence number this process issued
    topicClock,     \* now, in steps of Rate sequence numbers
    subscriptions,  \* the hub's side of each client's subscription
    wires,          \* frames on the way to each client
    clients         \* the client's side: [cursor, settled, applied, asked, drops]

deliveryVars == <<committed, unpublished, topic, highestSeq, topicClock,
                  subscriptions, wires, clients>>

Detached == [phase |-> "none", pending |-> <<>>, overflowed |-> FALSE,
             seq |-> 0, data |-> {}]

DeliveryInit ==
    /\ committed = 0 /\ unpublished = {}
    /\ topic = NoSeq /\ highestSeq = 0 /\ topicClock = 1
    /\ subscriptions = [c \in Clients |-> Detached]
    /\ wires = [c \in Clients |-> <<>>]
    /\ clients = [c \in Clients |-> [cursor |-> NoSeq, settled |-> FALSE, applied |-> {},
                                     asked |-> TRUE, drops |-> 0]]

Greater(a, b) == IF a >= b THEN a ELSE b

(***************************************************************************)
(* The ring buffer (RingBuffer).                                           *)
(***************************************************************************)
Push(buffer, entry) ==
    IF Len(buffer) < Capacity THEN Append(buffer, entry)
    ELSE Append(Tail(buffer), entry)

CanReplayAfter_OneEarlier(cursor, state) ==
    /\ cursor # NoSeq /\ cursor <= state.seq
    /\ \/ cursor = state.seq
       \/ /\ state.buffer # <<>>
          /\ cursor >= Head(state.buffer).seq - 2

CanReplayAfter(cursor, state) ==
    /\ cursor # NoSeq /\ cursor <= state.seq
    /\ \/ cursor = state.seq
       \/ /\ state.buffer # <<>>
          /\ cursor >= Head(state.buffer).seq - 1

\* Entries carry increasing sequence numbers (push refuses others): those above
\* a cursor are the last ones.
After(buffer, cursor) ==
    LET earlier == {i \in 1..Len(buffer) : buffer[i].seq <= cursor}
    IN  SubSeq(buffer, Cardinality(earlier) + 1, Len(buffer))

(***************************************************************************)
(* The hub.                                                                *)
(***************************************************************************)
Base_FromZero == highestSeq + 1

Base == Greater(topicClock * Rate, highestSeq + 1)

(* topicState: the state of the topic, created when there is none. *)
State == IF topic # NoSeq THEN topic ELSE [seq |-> Base, buffer |-> <<>>]

EventFrame(entry) == [kind |-> "event", seq |-> entry.seq, data |-> {entry.change}]
Resync == [kind |-> "resync", seq |-> 0, data |-> {}]

(* deliver: to a subscription whose snapshot is being read, or to the wire. *)
Queued(subscription, frame) ==
    IF subscription.overflowed THEN subscription
    ELSE IF Len(subscription.pending) >= PendingLimit
         THEN [subscription EXCEPT !.overflowed = TRUE, !.pending = <<>>]
         ELSE [subscription EXCEPT !.pending = Append(@, frame)]

Commit ==
    /\ committed < MaxChanges
    /\ committed' = committed + 1
    /\ unpublished' = unpublished \cup {committed + 1}
    /\ UNCHANGED <<topic, highestSeq, topicClock, subscriptions, wires, clients>>

(* publishConversationEvent. *)
Publish(change) ==
    /\ LET entry == [seq |-> State.seq + 1, change |-> change]
           frame == EventFrame(entry)
       IN  /\ topic' = [seq |-> entry.seq, buffer |-> Push(State.buffer, entry)]
           /\ highestSeq' = Greater(highestSeq, entry.seq)
           /\ subscriptions' = [c \in Clients |->
                IF subscriptions[c].phase \in {"attached", "snapshot"}
                THEN Queued(subscriptions[c], frame) ELSE subscriptions[c]]
           /\ wires' = [c \in Clients |->
                IF subscriptions[c].phase = "live" THEN Append(wires[c], frame)
                ELSE wires[c]]
    /\ unpublished' = unpublished \ {change}
    /\ UNCHANGED <<committed, topicClock, clients>>

Released(subscription) ==
    IF subscription.overflowed THEN <<Resync>> ELSE subscription.pending

Attached == [Detached EXCEPT !.phase = "live"]

(* The cursor a client sends: what it has applied everything up to. After a *)
(* resync there is no such number until the next snapshot.                 *)
Sent(c) == IF c \in Replaying /\ clients[c].settled THEN clients[c].cursor ELSE NoSeq

(* subscribeConversation: attach, then replay the tail or start a snapshot. *)
(* The frames of one socket are handled in turn (RealtimeGateway `queue`). *)
(* A denied subscription ends with an error frame and is left out.         *)
Subscribe(c) ==
    /\ clients[c].asked
    /\ subscriptions[c].phase \in {"none", "live"}
    /\ clients' = [clients EXCEPT ![c].asked = FALSE]
    /\ topic' = State
    /\ highestSeq' = Greater(highestSeq, State.seq)
    /\ LET cursor == Sent(c)
       IN  IF CanReplayAfter(cursor, State)
           THEN LET tail == After(State.buffer, cursor)
                IN  /\ wires' = [wires EXCEPT ![c] =
                          @ \o [i \in 1..Len(tail) |-> EventFrame(tail[i])]]
                    /\ subscriptions' = [subscriptions EXCEPT ![c] = Attached]
           ELSE /\ subscriptions' = [subscriptions EXCEPT ![c] =
                     [Detached EXCEPT !.phase = "attached", !.seq = State.seq]]
                /\ UNCHANGED wires
    /\ UNCHANGED <<committed, unpublished, topicClock>>

(* The snapshot provider of conversations reads the database.              *)
ReadSnapshot(c) ==
    /\ subscriptions[c].phase = "attached"
    /\ subscriptions' = [subscriptions EXCEPT
         ![c].phase = "snapshot", ![c].data = 1..committed]
    /\ UNCHANGED <<committed, unpublished, topic, highestSeq, topicClock, wires, clients>>

AnswerSnapshot(c) ==
    /\ subscriptions[c].phase = "snapshot"
    /\ LET subscription == subscriptions[c]
           frame == [kind |-> "snapshot", seq |-> subscription.seq,
                     data |-> subscription.data]
       IN  wires' = [wires EXCEPT ![c] = (@ \o <<frame>>) \o Released(subscription)]
    /\ subscriptions' = [subscriptions EXCEPT ![c] = Attached]
    /\ UNCHANGED <<committed, unpublished, topic, highestSeq, topicClock, clients>>

(* No provider, or it failed (realtime.snapshot_failed): the client is told *)
(* to resync.                                                              *)
FailSnapshot(c) ==
    /\ subscriptions[c].phase = "attached"
    /\ wires' = [wires EXCEPT ![c] = (@ \o <<Resync>>) \o Released(subscriptions[c])]
    /\ subscriptions' = [subscriptions EXCEPT ![c] = Attached]
    /\ UNCHANGED <<committed, unpublished, topic, highestSeq, topicClock, clients>>

(* evictIdleTopics. *)
EvictIdle ==
    /\ topic # NoSeq
    /\ \A c \in Clients : subscriptions[c].phase = "none"
    /\ topicClock < MaxTopicClock /\ topicClock' = topicClock + 1
    /\ topic' = NoSeq
    /\ UNCHANGED <<committed, unpublished, highestSeq, subscriptions, wires, clients>>

(***************************************************************************)
(* The client: it knows what the last snapshot and the events after it     *)
(* said, and asks again, without a cursor, when it is told to resync.      *)
(***************************************************************************)
Received(client, frame) ==
    CASE frame.kind = "resync" -> 
            [client EXCEPT !.cursor = NoSeq, !.settled = FALSE, !.asked = TRUE]
      [] frame.kind = "snapshot" ->
            [client EXCEPT !.cursor = frame.seq, !.settled = TRUE,
                           !.applied = frame.data]
      [] frame.kind = "event" ->
            IF client.cursor # NoSeq /\ frame.seq <= client.cursor THEN client
            ELSE [client EXCEPT !.cursor = frame.seq, !.applied = @ \cup frame.data]

Receive(c) ==
    /\ wires[c] # <<>>
    /\ clients' = [clients EXCEPT ![c] = Received(@, Head(wires[c]))]
    /\ wires' = [wires EXCEPT ![c] = Tail(@)]
    /\ UNCHANGED <<committed, unpublished, topic, highestSeq, topicClock, subscriptions>>

(* The socket closes with frames on the way; the client subscribes again.  *)
Drop(c) ==
    /\ ~clients[c].asked
    /\ clients[c].drops < MaxDrops
    /\ clients' = [clients EXCEPT ![c].asked = TRUE, ![c].drops = @ + 1]
    /\ subscriptions' = [subscriptions EXCEPT ![c] = Detached]
    /\ wires' = [wires EXCEPT ![c] = <<>>]
    /\ UNCHANGED <<committed, unpublished, topic, highestSeq, topicClock>>

(* The process stops and another takes its place, at a later time. *)
RestartProcess ==
    /\ topicClock < MaxTopicClock /\ topicClock' = topicClock + 1
    /\ topic' = NoSeq /\ highestSeq' = 0 /\ unpublished' = {}
    /\ subscriptions' = [c \in Clients |-> Detached]
    /\ wires' = [c \in Clients |-> <<>>]
    /\ clients' = [c \in Clients |-> [clients[c] EXCEPT !.asked = TRUE]]
    /\ UNCHANGED committed

DeliveryNext ==
    \/ Commit \/ EvictIdle \/ RestartProcess
    \/ \E change \in unpublished : Publish(change)
    \/ \E c \in Clients : Subscribe(c) \/ ReadSnapshot(c) \/ AnswerSnapshot(c)
                            \/ FailSnapshot(c) \/ Receive(c) \/ Drop(c)

DeliverySpec == DeliveryInit /\ [][DeliveryNext]_deliveryVars

-----------------------------------------------------------------------------
DeliveryTypeOK ==
    /\ committed \in 0..MaxChanges /\ unpublished \subseteq 1..committed
    /\ topic = NoSeq \/ /\ topic.seq \in Nat /\ Len(topic.buffer) <= Capacity
                        /\ topic.seq <= highestSeq
    /\ topicClock \in 1..MaxTopicClock
    /\ \A c \in Clients :
         /\ subscriptions[c].phase \in {"none", "attached", "snapshot", "live"}
         /\ Len(subscriptions[c].pending) <= PendingLimit
         /\ clients[c].applied \subseteq 1..committed
         /\ clients[c].drops \in 0..MaxDrops

(* A subscriber that has applied every frame sent to it, and was           *)
(* not asked to subscribe again, knows every committed change that is not  *)
(* still to be published: no frame is lost between the snapshot and the    *)
(* events, by a replay from a cursor of an earlier process or of an        *)
(* evicted topic, or by an overflow (topic-hub.ts class comment, goLive).  *)
QuietClientIsCurrent ==
    \A c \in Clients :
        (/\ subscriptions[c].phase = "live" /\ wires[c] = <<>>
         /\ ~clients[c].asked)
        => 1..committed \ unpublished \subseteq clients[c].applied

(* A cursor a client holds is a position of the topic that can be replayed *)
(* from exactly, or none the hub will take for one: a replay never skips   *)
(* a buffered event, and what it leaves out the client has (ring-buffer.ts *)
(* canReplayAfter).                                                        *)
ReplayIsComplete ==
    \A c \in Clients :
        (/\ clients[c].asked /\ subscriptions[c].phase = "none"
         /\ CanReplayAfter(Sent(c), State))
        => LET tail == After(State.buffer, Sent(c))
           IN  1..committed \ unpublished
                 \subseteq clients[c].applied \cup {tail[i].change : i \in 1..Len(tail)}

(* No change of a conversation is missed by its clients, neither one that  *)
(* stays subscribed nor one that comes back with a cursor.                 *)
NothingIsMissed == QuietClientIsCurrent /\ ReplayIsComplete
=============================================================================
