--------------------------- MODULE RealtimeAccess ---------------------------
(***************************************************************************)
(* Who may hold a realtime socket: the upgrade check through the session   *)
(* cache, the post-commit effects of a restriction or a revocation, and    *)
(* the access sweep, all of one api process and of one login session of    *)
(* one account (apps/api/src/modules/realtime: upgrade-gate.ts,            *)
(* topic-hub.ts, access-sweep.ts, session-control.ts; infra/cache:         *)
(* session-cache.ts).                                                      *)
(*                                                                         *)
(* The database commits first and tells this process afterwards, each read *)
(* is two steps (it is sent, it executes, its result arrives later), and   *)
(* an effect may be lost: the commit was made by another instance, or the  *)
(* process that made it stopped.                                           *)
(***************************************************************************)
EXTENDS Integers, FiniteSets

CONSTANTS
    Sockets,        \* browser tabs of the session
    Readers,        \* access reads in flight at once (the sweep, a refresh)
    Never,          \* no entry, no time
    CacheTtl,       \* ACCESS_CACHE_TTL_MS, in clock steps
    RememberFor,    \* the minute staleUpgrade remembers a change for
    Patience,       \* the longest an upgrade takes (the client aborts D1 reads)
    MaxHubClock,    \* bound of the clock
    MaxGeneration,  \* bound of the account's access generation
    MaxReads        \* bound of the access reads taken

ASSUME AccessTimes ==
    /\ {CacheTtl, RememberFor, Patience, MaxHubClock, MaxGeneration, MaxReads} \subseteq Nat
    /\ Patience + CacheTtl <= RememberFor
    /\ Never \notin Nat

VARIABLES
    access,         \* users and auth_sessions rows: [generation, admitted, live]
    effects,        \* post-commit effects still to run in this process
    sessionCache,   \* SessionCache: [entry, floor, ended]
    remembered,     \* accessChanges, endedSessions: [access, ended], times
    sockets,        \* the upgrade or the socket record of each tab
    reads,          \* AccessSweep.check calls in progress
    hubClock, tickets,  \* now; TopicHub.accessReads
    noticed         \* history: the newest restriction and the revocation notified

accessVars == <<access, effects, sessionCache, remembered, sockets, reads, hubClock,
                tickets, noticed>>

Larger(a, b) == IF a >= b THEN a ELSE b

Closed == [phase |-> "idle", generation |-> 0, admitted |-> FALSE,
           started |-> 0, ticket |-> 0, floor |-> 0]
NoRead == [phase |-> "idle", ticket |-> 0, generation |-> 0,
           admitted |-> FALSE, live |-> TRUE, over |-> {}]

Open == {s \in Sockets : sockets[s].phase = "open"}

AccessInit ==
    /\ \E admitted \in BOOLEAN :
          access = [generation |-> 0, admitted |-> admitted, live |-> TRUE]
    /\ effects = {}
    /\ sessionCache = [entry |-> Never, floor |-> 0, ended |-> FALSE]
    /\ remembered = [access |-> Never, ended |-> Never]
    /\ sockets = [s \in Sockets |-> Closed]
    /\ reads = [r \in Readers |-> NoRead]
    /\ hubClock = 0 /\ tickets = 0
    /\ noticed = [generation |-> 0, ended |-> FALSE]

(***************************************************************************)
(* Commits, each leaving its effects to run: restrict (and a campaign's    *)
(* revocation), unlock and restore, revoke (D1AccessService, SessionStore).*)
(***************************************************************************)
Effect(kind, generation) ==
    [kind |-> kind, generation |-> generation, step |-> "evict"]

ChangeAccess ==
    /\ access.live /\ access.generation < MaxGeneration
    /\ LET next == access.generation + 1
       IN  /\ access' = [access EXCEPT !.generation = next,
                                         !.admitted = ~access.admitted]
           /\ effects' = effects \cup
                {Effect(IF access.admitted THEN "restricted" ELSE "changed", next)}
    /\ UNCHANGED <<sessionCache, remembered, sockets, reads, hubClock, tickets, noticed>>

RevokeSession ==
    /\ access.live
    /\ access' = [access EXCEPT !.live = FALSE]
    /\ effects' = effects \cup {Effect("ended", access.generation)}
    /\ UNCHANGED <<sessionCache, remembered, sockets, reads, hubClock, tickets, noticed>>

(* Committed by another instance, or by a process that stopped here. *)
LoseEffect(e) ==
    /\ e.step = "evict"
    /\ effects' = effects \ {e}
    /\ UNCHANGED <<access, sessionCache, remembered, sockets, reads, hubClock, tickets, noticed>>

(***************************************************************************)
(* The session cache (SessionCache).                                       *)
(***************************************************************************)
(* evictUser with the committed generation, evictSession({revoked}). *)
Evict(e) ==
    /\ e.step = "evict"
    /\ sessionCache' = [entry |-> Never,
                        floor |-> IF e.kind = "ended" THEN sessionCache.floor
                                  ELSE Larger(sessionCache.floor, e.generation),
                        ended |-> sessionCache.ended \/ e.kind = "ended"]
    /\ effects' = (effects \ {e}) \cup {[e EXCEPT !.step = "notify"]}
    /\ UNCHANGED <<access, remembered, sockets, reads, hubClock, tickets, noticed>>

(* set: an older generation than the floor, or a revoked session, is not kept. *)
Cached(s) ==
    IF s.generation < sessionCache.floor \/ sessionCache.ended
    THEN [sessionCache EXCEPT !.entry = Never]
    ELSE [sessionCache EXCEPT !.entry = [generation |-> s.generation,
                                         admitted |-> s.admitted, at |-> hubClock]]

(***************************************************************************)
(* Upgrades (RealtimeUpgradeGate.verify, SessionService.lookup,            *)
(* RealtimeGateway.handleConnection).                                      *)
(***************************************************************************)
BeginUpgrade(s) ==
    /\ sockets[s].phase = "idle"
    /\ sockets' = [sockets EXCEPT ![s] =
         IF sessionCache.entry # Never
         THEN [Closed EXCEPT !.phase = "verified", !.started = hubClock,
                             !.generation = sessionCache.entry.generation,
                             !.admitted = sessionCache.entry.admitted]
         ELSE [Closed EXCEPT !.phase = "looking", !.started = hubClock]]
    /\ UNCHANGED <<access, effects, sessionCache, remembered, reads, hubClock, tickets, noticed>>

LookUp(s) ==
    /\ sockets[s].phase = "looking"
    /\ sockets' = [sockets EXCEPT ![s] =
         IF access.live
         THEN [@ EXCEPT !.phase = "found", !.generation = access.generation,
                        !.admitted = access.admitted]
         ELSE Closed]
    /\ UNCHANGED <<access, effects, sessionCache, remembered, reads, hubClock, tickets, noticed>>

(* evictStaleGeneration, then set. *)
Verify(s) ==
    /\ sockets[s].phase = "found"
    /\ sessionCache' = Cached(sockets[s])
    /\ sockets' = [sockets EXCEPT ![s].phase = "verified"]
    /\ UNCHANGED <<access, effects, remembered, reads, hubClock, tickets, noticed>>

(* staleUpgrade: verifiedAt is the start of the lookup less the cache's life. *)
StaleSince(at, s) ==
    /\ at # Never
    /\ at >= sockets[s].started - CacheTtl

Connect(s) ==
    /\ sockets[s].phase = "verified"
    /\ sockets' = [sockets EXCEPT ![s] =
         IF StaleSince(remembered.access, s) \/ StaleSince(remembered.ended, s)
         THEN Closed ELSE [@ EXCEPT !.phase = "open", !.started = 0]]
    /\ UNCHANGED <<access, effects, sessionCache, remembered, reads, hubClock, tickets, noticed>>

(* The browser leaves; a read in progress no longer concerns the record. *)
ReadsWithout(gone) == [r \in Readers |-> [reads[r] EXCEPT !.over = @ \ gone]]

Leave(s) ==
    /\ sockets[s].phase = "open"
    /\ sockets' = [sockets EXCEPT ![s] = Closed]
    /\ reads' = ReadsWithout({s})
    /\ UNCHANGED <<access, effects, sessionCache, remembered, hubClock, tickets, noticed>>

(***************************************************************************)
(* The access sweep (AccessSweep.check): a ticket, the read, its result.   *)
(***************************************************************************)
StartRead(reading, r, over) ==
    [reading EXCEPT ![r] = [NoRead EXCEPT !.phase = "sent",
                                          !.ticket = tickets + 1, !.over = over]]

Sweep(r) ==
    /\ reads[r].phase = "idle" /\ Open # {} /\ tickets < MaxReads
    /\ reads' = StartRead(reads, r, Open)
    /\ tickets' = tickets + 1
    /\ UNCHANGED <<access, effects, sessionCache, remembered, sockets, hubClock, noticed>>

ReadRows(r) ==
    /\ reads[r].phase = "sent"
    /\ reads' = [reads EXCEPT ![r] =
         [@ EXCEPT !.phase = "read", !.generation = access.generation,
                   !.admitted = access.admitted, !.live = access.live]]
    /\ UNCHANGED <<access, effects, sessionCache, remembered, sockets, hubClock, tickets, noticed>>

FailRead(r) ==
    /\ reads[r].phase = "sent"
    /\ reads' = [reads EXCEPT ![r] = NoRead]
    /\ UNCHANGED <<access, effects, sessionCache, remembered, sockets, hubClock, tickets, noticed>>

ApplyAccess_NoFloor(s, read) ==
    LET record == sockets[s]
        outOfDate == \/ read.generation < record.generation
                     \/ /\ read.generation = record.generation
                        /\ read.ticket < record.ticket
        lost == record.admitted /\ (~read.admitted \/ read.generation > record.generation)
    IN  IF outOfDate THEN record
        ELSE IF lost THEN Closed
        ELSE [record EXCEPT !.generation = read.generation,
                            !.admitted = read.admitted,
                            !.ticket = Larger(record.ticket, read.ticket)]

ApplyAccess_OnlyWhenLocked(s, read) ==
    LET record == sockets[s]
        outOfDate == \/ read.generation < record.generation
                     \/ /\ read.generation = record.generation
                        /\ read.ticket < record.ticket
    IN  IF outOfDate THEN record
        ELSE IF record.admitted /\ ~read.admitted THEN Closed
        ELSE IF read.ticket < record.floor THEN record
        ELSE [record EXCEPT !.generation = read.generation,
                            !.admitted = read.admitted,
                            !.ticket = Larger(record.ticket, read.ticket)]

(* applyAccess: the record a result leaves. *)
ApplyAccess(s, read) ==
    LET record == sockets[s]
        outOfDate == \/ read.generation < record.generation
                     \/ /\ read.generation = record.generation
                        /\ read.ticket < record.ticket
        lost == record.admitted /\ (~read.admitted \/ read.generation > record.generation)
    IN  IF outOfDate THEN record
        ELSE IF lost THEN Closed
        ELSE IF read.ticket < record.floor THEN record
        ELSE [record EXCEPT !.generation = read.generation,
                            !.admitted = read.admitted,
                            !.ticket = Larger(record.ticket, read.ticket)]

ApplyRead(r) ==
    /\ reads[r].phase = "read"
    /\ LET after == [s \in Sockets |->
                       IF s \notin reads[r].over THEN sockets[s]
                       ELSE IF reads[r].live THEN ApplyAccess(s, reads[r]) ELSE Closed]
       IN  /\ sockets' = after
           /\ reads' = [ReadsWithout({s \in reads[r].over : after[s] = Closed})
                          EXCEPT ![r] = NoRead]
    /\ UNCHANGED <<access, effects, sessionCache, remembered, hubClock, tickets, noticed>>

(***************************************************************************)
(* The realtime effects (RealtimeSessionControl, AccessRealtime).          *)
(***************************************************************************)
(* accessRestricted: note the change, close the admitted sockets, and re-   *)
(* read the others (`refresh`, unless the read fails at once).             *)
NotifyRestricted(e) ==
    /\ e.kind = "restricted" /\ e.step = "notify"
    /\ LET gone == {s \in Open : sockets[s].admitted}
           kept == Open \ gone
       IN  /\ sockets' = [s \in Sockets |->
                 IF s \in gone THEN Closed
                 ELSE IF s \in kept
                 THEN [sockets[s] EXCEPT !.floor = Larger(@, tickets + 1)]
                 ELSE sockets[s]]
           /\ \/ reads' = ReadsWithout(gone) /\ UNCHANGED tickets
              \/ \E r \in Readers :
                    /\ kept # {} /\ reads[r].phase = "idle" /\ tickets < MaxReads
                    /\ reads' = StartRead(ReadsWithout(gone), r, kept)
                    /\ tickets' = tickets + 1
    /\ remembered' = [remembered EXCEPT !.access = hubClock]
    /\ noticed' = [noticed EXCEPT !.generation = Larger(@, e.generation)]
    /\ effects' = effects \ {e}
    /\ UNCHANGED <<access, sessionCache, hubClock>>

(* accessChanged after an unlock or a restore: only the refresh. *)
NotifyChanged(e) ==
    /\ e.kind = "changed" /\ e.step = "notify"
    /\ \/ UNCHANGED <<reads, tickets>>
       \/ \E r \in Readers :
             /\ Open # {} /\ reads[r].phase = "idle" /\ tickets < MaxReads
             /\ reads' = StartRead(reads, r, Open)
             /\ tickets' = tickets + 1
    /\ effects' = effects \ {e}
    /\ UNCHANGED <<access, sessionCache, remembered, sockets, hubClock, noticed>>

NotifyEnded(e) ==
    /\ e.kind = "ended" /\ e.step = "notify"
    /\ remembered' = [remembered EXCEPT !.ended = hubClock]
    /\ sockets' = [s \in Sockets |-> IF s \in Open THEN Closed ELSE sockets[s]]
    /\ reads' = ReadsWithout(Open)
    /\ noticed' = [noticed EXCEPT !.ended = TRUE]
    /\ effects' = effects \ {e}
    /\ UNCHANGED <<access, sessionCache, hubClock, tickets>>

(* Time passes, but no upgrade outlasts Patience. What is too old to matter *)
(* is dropped (TtlCache, purgeRecentChanges).                              *)
Recent(at) == IF at # Never /\ hubClock + 1 - at <= RememberFor THEN at ELSE Never

AccessTick ==
    /\ hubClock < MaxHubClock
    /\ \A s \in Sockets : sockets[s].phase \in {"looking", "found", "verified"} =>
          hubClock - sockets[s].started < Patience
    /\ hubClock' = hubClock + 1
    /\ sessionCache' = [sessionCache EXCEPT !.entry =
                   IF @ # Never /\ hubClock + 1 - @.at < CacheTtl THEN @ ELSE Never]
    /\ remembered' = [access |-> Recent(remembered.access),
                      ended |-> Recent(remembered.ended)]
    /\ UNCHANGED <<access, effects, sockets, reads, tickets, noticed>>

AccessNext ==
    \/ ChangeAccess \/ RevokeSession \/ AccessTick
    \/ \E e \in effects : LoseEffect(e) \/ Evict(e) \/ NotifyRestricted(e)
                            \/ NotifyChanged(e) \/ NotifyEnded(e)
    \/ \E s \in Sockets : BeginUpgrade(s) \/ LookUp(s) \/ Verify(s) \/ Connect(s)
                            \/ Leave(s)
    \/ \E r \in Readers : Sweep(r) \/ ReadRows(r) \/ FailRead(r) \/ ApplyRead(r)

AccessSpec == AccessInit /\ [][AccessNext]_accessVars

-----------------------------------------------------------------------------
AccessTypeOK ==
    /\ access \in [generation : 0..MaxGeneration, admitted : BOOLEAN, live : BOOLEAN]
    /\ effects \subseteq [kind : {"restricted", "changed", "ended"},
                          generation : 0..MaxGeneration, step : {"evict", "notify"}]
    /\ sessionCache.floor \in 0..MaxGeneration /\ sessionCache.ended \in BOOLEAN
    /\ sessionCache.entry = Never \/ sessionCache.entry \in
          [generation : 0..MaxGeneration, admitted : BOOLEAN, at : 0..MaxHubClock]
    /\ {remembered.access, remembered.ended} \subseteq (0..MaxHubClock) \cup {Never}
    /\ sockets \in [Sockets -> [phase : {"idle", "looking", "found", "verified", "open"},
                                generation : 0..MaxGeneration, admitted : BOOLEAN,
                                started : 0..MaxHubClock, ticket : 0..MaxReads, floor : 0..(MaxReads + 1)]]
    /\ reads \in [Readers -> [phase : {"idle", "sent", "read"}, ticket : 0..MaxReads,
                              generation : 0..MaxGeneration, admitted : BOOLEAN,
                              live : BOOLEAN, over : SUBSET Open]]

(* Once this process was told of a restriction, no socket of the account is *)
(* admitted under an older access state, and once it was told that the     *)
(* session ended it has no socket at all: whatever upgrade was being       *)
(* verified, whatever the cache held and whichever sweep read the account  *)
(* before the commit (topic-hub.ts staleUpgrade, accessReadFloor).         *)
NoSocketOutlivesRestriction ==
    \A s \in Open : /\ ~noticed.ended
                    /\ sockets[s].admitted => sockets[s].generation >= noticed.generation

(* A socket that stays open and admitted stays so under one generation:    *)
(* its subscriptions were authorized under that one, so a restriction and  *)
(* the restore after it, both unnoticed, still close it (topic-hub.ts      *)
(* applyAccess, "subscriptions were authorized before the restriction").   *)
AdmittedUnderOneGeneration ==
    [][\A s \in Sockets :
          (/\ s \in Open /\ sockets[s].admitted
           /\ sockets'[s].phase = "open" /\ sockets'[s].admitted)
          => sockets'[s].generation = sockets[s].generation]_accessVars
=============================================================================
