---------------------------- MODULE ReminderScan ----------------------------
(***************************************************************************)
(* The reminders of one task: concurrent runs of the scanner materialize   *)
(* due occurrences into in-app notifications and e-mails, and deliver the  *)
(* e-mails, while the owner edits the schedule, turns e-mail off and on,   *)
(* and the task is archived or the account restricted                      *)
(* (packages/core/src/scheduling: scanner.ts, service.ts, notifications.ts *)
(* and the scheduling contributors of archive and restriction).            *)
(*                                                                         *)
(* A tick is the minute after which a reminder counts as late, and the     *)
(* length of a lease. Reminder r is due at tick r. Every reminder has the  *)
(* in-app channel; e-mail is a channel of its own. A batch of the scanner  *)
(* stands for one job: a folded batch is a schedule of several.            *)
(***************************************************************************)
EXTENDS Integers, FiniteSets

CONSTANTS
    LastReminder,   \* the reminders are 1 .. LastReminder
    Scanners,       \* concurrent jobs of scans
    NoRow,
    ClaimLease, MaxLateness, MaxSends,
    Retention,      \* age of a first attempt after which a mail is uncertain
    ProviderMemory, \* how long the provider remembers an idempotency key
    MaxMinute, MaxChoices, MaxEdits

ASSUME ReminderBounds ==
    /\ {ClaimLease, MaxSends, Retention} \subseteq Nat \ {0}
    /\ {LastReminder, MaxLateness, ProviderMemory, MaxMinute, MaxChoices, MaxEdits} \subseteq Nat

\* No row is neither a row nor a time.
ASSUME ReminderNoRow ==
    /\ NoRow \notin Nat
    /\ NoRow \notin [generation : Nat, after : Nat, first : Nat \union {NoRow}, attempts : Nat,
                     fence : Nat, until : Nat,
                     status : {"pending", "claimed", "accepted", "uncertain", "cancelled",
                               "expired"}]

VARIABLES
    minute,
    scanExecutor,   \* executor_state.generation
    prefs,          \* notification_prefs: [version, email]
    reachable,      \* the task is active and its owner admitted
    schedule,       \* task_schedules.version
    reminders,      \* [generation, active, email]
    occurrences,    \* the latest of each reminder: [generation, status, fence, until]
    entries,        \* missed notifications by id: [count, last, open]
    outbox,         \* [generation, status, after, first, attempts, fence, until] or NoRow
    provider,       \* the mails it sent for each reminder: [generation, at, stalled]
    jobs, edit,     \* scanner jobs; one SchedulingService.save under way
    told            \* history: in-app notifications made of each reminder, edits that
                    \* recreated it once it was due, and the reminders whose mail an
                    \* opt-out or a halt put an end to

reminderVars == <<minute, scanExecutor, prefs, reachable, schedule, reminders, occurrences,
                  entries, outbox, provider, jobs, edit, told>>

Reminders == 1..LastReminder
IdleJob == [pc |-> "idle", reminder |-> 1, generation |-> 0, fence |-> 0, at |-> 0,
            first |-> 0, version |-> 0, executor |-> 0, mail |-> FALSE, entry |-> 0,
            prior |-> {}]

ReminderInit ==
    /\ minute = 0 /\ scanExecutor = 0 /\ reachable = TRUE /\ schedule = 1
    /\ prefs = [version |-> 1, email |-> TRUE]
    /\ \E last \in Reminders :
          /\ reminders = [r \in Reminders |->
                            [generation |-> 1, active |-> r <= last, email |-> r <= last]]
          /\ occurrences = [r \in Reminders |->
                              [generation |-> 1, fence |-> 0, until |-> 0,
                               status |-> IF r <= last THEN "pending" ELSE "cancelled"]]
    /\ entries = <<>>
    /\ outbox = [r \in Reminders |-> NoRow]
    /\ provider = [r \in Reminders |-> {}]
    /\ jobs = [s \in Scanners |-> IdleJob] /\ edit = NoRow
    /\ told = [made |-> [r \in Reminders |-> 0], overtaken |-> [r \in Reminders |-> 0],
               optedOut |-> {}, halted |-> {}]

----------------------------------------------------------------------------
Undecided == {"pending", "claimed"}
Alive(r) == /\ reachable /\ reminders[r].active
            /\ reminders[r].generation = occurrences[r].generation

\* A pending row, or a claim whose lease ran out.
ClaimableRow(row) == row.status = "pending" \/ (row.status = "claimed" /\ row.until <= minute)

\* A later reminder of the task that is due takes the place of this one.
Overtaken(r, statuses) ==
    \E later \in Reminders : /\ r < later /\ later <= minute
                             /\ occurrences[later].status \in statuses /\ Alive(later)
OvertakenByMail(r) ==
    \E later \in Reminders : /\ r < later /\ later <= minute /\ reminders[later].email
                             /\ occurrences[later].status \in {"pending", "claimed", "delivered"}
                             /\ Alive(later)

OpenEntries == {i \in DOMAIN entries : entries[i].open}
OpenEntry == IF OpenEntries = {} THEN 0 ELSE CHOOSE i \in OpenEntries : TRUE
Prior(r) == {p \in Reminders : /\ p < r /\ occurrences[p].status \in Undecided /\ Alive(p)
                               /\ \A i \in OpenEntries : p > entries[i].last}

Late(at, r) == at > r
TooLate(at, r) == at - r > MaxLateness

\* The claim of materialize, and the row it reads back in the same batch; what
\* renderEmail will make is decided by the preferences it read. A scan claims
\* the latest due reminder first.
ClaimOccurrence(s, r) ==
    /\ jobs[s].pc = "idle" /\ r <= minute /\ ClaimableRow(occurrences[r])
    /\ ~\E later \in Reminders : r < later /\ later <= minute /\ ClaimableRow(occurrences[later])
    /\ occurrences' = [occurrences EXCEPT ![r].status = "claimed", ![r].until = minute + ClaimLease,
                                          ![r].fence = @ + 1]
    /\ jobs' = [jobs EXCEPT ![s] =
                  [pc |-> "decide", reminder |-> r, generation |-> occurrences[r].generation,
                   fence |-> occurrences'[r].fence, at |-> minute, first |-> 0,
                   version |-> prefs.version, executor |-> scanExecutor,
                   mail |-> reminders[r].email /\ prefs.email /\ ~TooLate(minute, r),
                   entry |-> IF Late(minute, r) THEN OpenEntry ELSE 0,
                   prior |-> IF Late(minute, r) THEN Prior(r) ELSE {}]]
    /\ UNCHANGED <<minute, scanExecutor, prefs, reachable, schedule, reminders, entries, outbox,
                   provider, edit, told>>

\* The guard of every deciding statement, with a fresh clock.
HoldsOccurrence(job) ==
    LET row == occurrences[job.reminder] IN
    /\ row.generation = job.generation /\ row.status = "claimed" /\ row.fence = job.fence
    /\ row.until > minute /\ job.executor = scanExecutor /\ job.version = prefs.version

Shows(job) == ~Overtaken(job.reminder, {"pending", "claimed", "delivered", "expired"})
Mails(job) == job.mail /\ reminders[job.reminder].email /\ ~OvertakenByMail(job.reminder)

\* A late reminder is added to the entry its claim saw, or opens one: the batch
\* fails when another was opened since (notifications_unread_missed).
EntriesAfter(job) ==
    LET r == job.reminder
        new == [count |-> 1 + Cardinality(job.prior), last |-> r, open |-> TRUE] IN
    IF ~Shows(job) \/ ~Late(job.at, r) THEN entries
    ELSE IF job.entry = 0
         THEN [i \in 1..(Cardinality(DOMAIN entries) + 1) |->
                 IF i \in DOMAIN entries THEN entries[i] ELSE new]
         ELSE [entries EXCEPT ![job.entry].count = @ + new.count, ![job.entry].last = r]
Collides(job) == Shows(job) /\ Late(job.at, job.reminder) /\ job.entry = 0 /\ OpenEntries # {}

NewMail(job) == [generation |-> job.generation, status |-> "pending", after |-> job.reminder,
                 first |-> NoRow, attempts |-> 0, fence |-> 0, until |-> 0]

\* The deciding batch: the notification, the mail and the occurrence together.
Decide(s) ==
    LET job == jobs[s]
        r == job.reminder IN
    /\ job.pc = "decide"
    /\ jobs' = [jobs EXCEPT ![s] = IdleJob]
    /\ IF HoldsOccurrence(job) /\ Alive(r) /\ ~Collides(job)
       THEN /\ entries' = EntriesAfter(job)
            /\ outbox' = IF Mails(job) THEN [outbox EXCEPT ![r] = NewMail(job)] ELSE outbox
            /\ occurrences' = [occurrences EXCEPT ![r].status =
                                 IF TooLate(job.at, r) THEN "expired"
                                 ELSE IF Shows(job) \/ Mails(job) THEN "delivered" ELSE "skipped"]
            /\ told' = IF Shows(job) THEN [told EXCEPT !.made[r] = @ + 1] ELSE told
       ELSE UNCHANGED <<entries, outbox, occurrences, told>>
    /\ UNCHANGED <<minute, scanExecutor, prefs, reachable, schedule, reminders, provider, edit>>

----------------------------------------------------------------------------
(* Delivery of an e-mail. *)

\* The claim of deliver; the first attempt's time is kept for ever.
ClaimMail(s, r) ==
    /\ jobs[s].pc = "idle" /\ outbox[r] # NoRow /\ outbox[r].after <= minute
    /\ ClaimableRow(outbox[r])
    /\ outbox' = [outbox EXCEPT ![r].status = "claimed", ![r].until = minute + ClaimLease,
                                ![r].fence = @ + 1, ![r].attempts = @ + 1,
                                ![r].first = IF @ = NoRow THEN minute ELSE @]
    /\ jobs' = [jobs EXCEPT ![s] =
                  [IdleJob EXCEPT !.pc = "inspect", !.reminder = r,
                                  !.generation = outbox[r].generation,
                                  !.fence = outbox'[r].fence, !.at = minute,
                                  !.first = outbox'[r].first,
                                  !.version = prefs.version, !.executor = scanExecutor,
                                  !.mail = prefs.email /\ Alive(r)]]
    /\ UNCHANGED <<minute, scanExecutor, prefs, reachable, schedule, reminders, occurrences, entries,
                   provider, edit, told>>

\* The guard of the updates of deliver; `clock` is the claim's or a fresh one.
HoldsMail(job, clock) ==
    LET row == outbox[job.reminder] IN
    /\ row.generation = job.generation /\ row.status = "claimed" /\ row.fence = job.fence
    /\ row.until > clock /\ job.executor = scanExecutor

\* UPDATE notification_outbox ... WHERE <guard>, and the job ends.
Settle(s, clock, status, after) ==
    LET r == jobs[s].reminder IN
    /\ outbox' = IF HoldsMail(jobs[s], clock)
                 THEN [outbox EXCEPT ![r].status = status, ![r].after = after] ELSE outbox
    /\ jobs' = [jobs EXCEPT ![s] = IdleJob]

PastRetention_Never(job) == FALSE
PastRetention(job) == job.at - job.first >= Retention

\* Invalid, uncertain, expired and quiet mails; the others reach the dispatch
\* boundary, which rechecks lease, access, preferences and reminder.
Inspect(s) ==
    LET job == jobs[s]
        r == job.reminder
        expired == TooLate(job.at, r)
        live == /\ HoldsMail(job, minute) /\ Alive(r) /\ reminders[r].email
                /\ prefs.email /\ prefs.version = job.version IN
    /\ job.pc = "inspect"
    /\ \/ /\ ~job.mail \/ expired \/ PastRetention(job)
          /\ Settle(s, job.at, IF ~job.mail THEN "cancelled"
                               ELSE IF PastRetention(job) THEN "uncertain" ELSE "expired",
                    outbox[r].after)
       \/ \* quiet hours, until the next minute
          /\ job.mail /\ ~expired /\ ~PastRetention(job)
          /\ Settle(s, job.at, "pending", job.at + 1)
       \/ /\ job.mail /\ ~expired /\ ~PastRetention(job)
          /\ jobs' = [jobs EXCEPT ![s].pc = IF live THEN "send" ELSE "release"]
          /\ UNCHANGED outbox
    /\ UNCHANGED <<minute, scanExecutor, prefs, reachable, schedule, reminders, occurrences, entries,
                   provider, edit, told>>

Release(s) ==
    /\ jobs[s].pc = "release"
    /\ Settle(s, jobs[s].at, "pending", jobs[s].at)
    /\ UNCHANGED <<minute, scanExecutor, prefs, reachable, schedule, reminders, occurrences, entries,
                   provider, edit, told>>

\* The provider answers an idempotency key it remembers without another mail.
Remembered(job) ==
    \E mail \in provider[job.reminder] : /\ mail.generation = job.generation
                                         /\ minute - mail.at < ProviderMemory

\* The request may not arrive, or arrive when the window of its claim is over.
Send(s) ==
    LET job == jobs[s]
        mail == [generation |-> job.generation, at |-> minute,
                 stalled |-> /\ job.at - job.first < Retention
                             /\ minute - job.first >= Retention] IN
    /\ job.pc = "send"
    /\ \/ /\ provider' = IF Remembered(job) THEN provider
                         ELSE [provider EXCEPT ![job.reminder] = @ \union {mail}]
          /\ jobs' = [jobs EXCEPT ![s].pc = "accepted"]
       \/ UNCHANGED provider /\ jobs' = [jobs EXCEPT ![s].pc = "failed"]
    /\ UNCHANGED <<minute, scanExecutor, prefs, reachable, schedule, reminders, occurrences, entries,
                   outbox, edit, told>>

\* The answer, which may be lost although the provider accepted.
Answered(s) ==
    LET job == jobs[s] IN
    /\ \/ /\ job.pc = "accepted"
          /\ Settle(s, minute, "accepted", outbox[job.reminder].after)
       \/ /\ job.pc \in {"accepted", "failed"}
          /\ Settle(s, minute,
                    IF outbox[job.reminder].attempts >= MaxSends THEN "uncertain" ELSE "pending",
                    job.at + 1)
    /\ UNCHANGED <<minute, scanExecutor, prefs, reachable, schedule, reminders, occurrences, entries,
                   provider, edit, told>>

CrashScanner(s) ==
    /\ jobs[s].pc # "idle"
    /\ jobs' = [jobs EXCEPT ![s] = IdleJob]
    /\ UNCHANGED <<minute, scanExecutor, prefs, reachable, schedule, reminders, occurrences, entries,
                   outbox, provider, edit, told>>

----------------------------------------------------------------------------
(* The owner, the operator and time. *)

CancelMails(rows) ==
    [r \in Reminders |-> IF rows[r] # NoRow /\ rows[r].status \in {"pending", "claimed", "uncertain"}
                         THEN [rows[r] EXCEPT !.status = "cancelled"] ELSE rows[r]]
CancelOccurrences(rows) ==
    [r \in Reminders |-> IF rows[r].status \in Undecided
                         THEN [rows[r] EXCEPT !.status = "cancelled"] ELSE rows[r]]
Retire(rows) ==
    [r \in Reminders |-> IF rows[r].active
                         THEN [rows[r] EXCEPT !.active = FALSE, !.generation = @ + 1] ELSE rows[r]]

\* savePreferences with e-mail off, or unsubscribe: active reminders lose the
\* channel, and the schedule they belong to moves on.
ScheduleAfterOptOut_Same == schedule
ScheduleAfterOptOut ==
    IF \E r \in Reminders : reminders[r].active /\ reminders[r].email
    THEN schedule + 1 ELSE schedule

OptOut ==
    /\ prefs.email /\ prefs.version < MaxChoices
    /\ prefs' = [version |-> prefs.version + 1, email |-> FALSE]
    /\ outbox' = CancelMails(outbox)
    /\ schedule' = ScheduleAfterOptOut
    /\ reminders' = [r \in Reminders |-> IF reminders[r].active
                                         THEN [reminders[r] EXCEPT !.email = FALSE]
                                         ELSE reminders[r]]
    /\ told' = [told EXCEPT !.optedOut = @ \union {r \in Reminders : reminders[r].active}]
    /\ UNCHANGED <<minute, scanExecutor, reachable, occurrences, entries, provider, jobs, edit>>

OptIn ==
    /\ ~prefs.email /\ prefs.version < MaxChoices
    /\ prefs' = [version |-> prefs.version + 1, email |-> TRUE]
    /\ UNCHANGED <<minute, scanExecutor, reachable, schedule, reminders, occurrences, entries, outbox,
                   provider, jobs, edit, told>>

\* The task is archived, or the account restricted; restoring or unlocking it
\* brings no reminder back.
Halt ==
    /\ reachable
    /\ reachable' = FALSE
    /\ reminders' = Retire(reminders)
    /\ occurrences' = CancelOccurrences(occurrences)
    /\ outbox' = CancelMails(outbox)
    /\ told' = [told EXCEPT !.halted = Reminders]
    /\ UNCHANGED <<minute, scanExecutor, prefs, schedule, entries, provider, jobs, edit>>

Resume ==
    /\ ~reachable
    /\ reachable' = TRUE
    /\ UNCHANGED <<minute, scanExecutor, prefs, schedule, reminders, occurrences, entries, outbox,
                   provider, jobs, edit, told>>

\* SchedulingService.save reads the reminders still to come and plans to keep
\* some of them; one that is due by then must still be undecided at the commit.
BeginEdit ==
    /\ edit = NoRow /\ reachable /\ schedule < MaxEdits
    /\ LET pending == {r \in Reminders : Alive(r) /\ occurrences[r].status \in Undecided} IN
       \E kept \in SUBSET pending :
           /\ (\E r \in kept : reminders[r].email) => prefs.email
           /\ edit' = [version |-> schedule, kept |-> kept,
                       mailed |-> {r \in kept : reminders[r].email},
                       proofs |-> {<<r, occurrences[r].generation>> :
                                     r \in {k \in kept : k <= minute}}]
           /\ told' = [told EXCEPT !.optedOut = @ \ kept]
    /\ UNCHANGED <<minute, scanExecutor, prefs, reachable, schedule, reminders, occurrences, entries,
                   outbox, provider, jobs>>

EditStands_NoProof == reachable /\ schedule = edit.version
EditStands ==
    /\ reachable /\ schedule = edit.version
    /\ \A p \in edit.proofs : /\ occurrences[p[1]].generation = p[2] /\ Alive(p[1])
                              /\ occurrences[p[1]].status \in Undecided

\* What the edit keeps without a proof, and has come due since it was planned.
DueUnderway == {r \in edit.kept : r <= minute /\ \A p \in edit.proofs : p[1] # r}

\* The batch of save. A kept reminder gets a new generation and a new occurrence.
CommitEdit ==
    /\ edit # NoRow
    /\ edit' = NoRow
    /\ IF EditStands
       THEN LET fresh(r) == reminders[r].generation + 2 IN
            /\ schedule' = schedule + 1
            /\ reminders' = [r \in Reminders |->
                               IF r \in edit.kept
                               THEN [generation |-> fresh(r), active |-> TRUE,
                                     email |-> r \in edit.mailed]
                               ELSE Retire(reminders)[r]]
            /\ occurrences' = [r \in Reminders |->
                                 IF r \in edit.kept
                                 THEN [generation |-> fresh(r), status |-> "pending",
                                       fence |-> 0, until |-> 0]
                                 ELSE CancelOccurrences(occurrences)[r]]
            /\ outbox' = CancelMails(outbox)
            /\ told' = [told EXCEPT !.halted = @ \ edit.kept,
                                    !.overtaken = [r \in Reminders |->
                                                     IF r \in DueUnderway THEN @[r] + 1 ELSE @[r]]]
       ELSE UNCHANGED <<schedule, reminders, occurrences, outbox, told>>
    /\ UNCHANGED <<minute, scanExecutor, prefs, reachable, entries, provider, jobs>>

\* NotificationsService.mark: read or dismissed, the entry is closed.
CloseEntry ==
    /\ OpenEntries # {}
    /\ entries' = [entries EXCEPT ![OpenEntry].open = FALSE]
    /\ UNCHANGED <<minute, scanExecutor, prefs, reachable, schedule, reminders, occurrences, outbox,
                   provider, jobs, edit, told>>

SwitchScanner ==
    /\ scanExecutor = 0
    /\ scanExecutor' = 1
    /\ UNCHANGED <<minute, prefs, reachable, schedule, reminders, occurrences, entries, outbox,
                   provider, jobs, edit, told>>

PassMinute ==
    /\ minute < MaxMinute
    /\ minute' = minute + 1
    /\ UNCHANGED <<scanExecutor, prefs, reachable, schedule, reminders, occurrences, entries, outbox,
                   provider, jobs, edit, told>>

ReminderNext ==
    \/ \E s \in Scanners :
          \/ \E r \in Reminders : ClaimOccurrence(s, r) \/ ClaimMail(s, r)
          \/ Decide(s) \/ Inspect(s) \/ Release(s) \/ Send(s) \/ Answered(s) \/ CrashScanner(s)
    \/ OptOut \/ OptIn \/ Halt \/ Resume \/ BeginEdit \/ CommitEdit \/ CloseEntry
    \/ SwitchScanner \/ PassMinute

ReminderSpec == ReminderInit /\ [][ReminderNext]_reminderVars

----------------------------------------------------------------------------
ReminderTypeOK ==
    /\ minute \in 0..MaxMinute /\ scanExecutor \in {0, 1} /\ reachable \in BOOLEAN
    /\ prefs \in [version : Nat, email : BOOLEAN] /\ schedule \in Nat
    /\ reminders \in [Reminders -> [generation : Nat, active : BOOLEAN, email : BOOLEAN]]
    /\ \A r \in Reminders :
          /\ occurrences[r].status \in
                {"pending", "claimed", "delivered", "skipped", "expired", "cancelled"}
          /\ outbox[r] = NoRow \/ outbox[r].status \in
                {"pending", "claimed", "accepted", "uncertain", "cancelled", "expired"}
    /\ Cardinality(OpenEntries) <= 1
    /\ \A s \in Scanners : jobs[s].pc \in
          {"idle", "decide", "inspect", "release", "send", "accepted", "failed"}

\* Claims that expired and were taken over, crashes and edits that recreate a
\* reminder make no second notification of it, but in one case: an edit that
\* was planned before the reminder was due and commits once it is due carries
\* no proof of it, and recreates it whether or not it was announced meanwhile.
NotifiedOnce == \A r \in Reminders : told.made[r] <= 1 + told.overtaken[r]

\* scanner.ts:388 "Unknown acceptance can be retried only inside Resend's dedupe
\* window": of one occurrence the recipient gets one mail, whatever answers are
\* lost and whenever a scanner crashes, if the provider remembers a key for as
\* long as the scanner retries (24 hours, both). Another mail is only possible
\* where a claim inside the window reached the provider when it was over.
ReceivedOnce ==
    ProviderMemory >= Retention =>
        \A r \in Reminders : \A one, other \in provider[r] :
            one.generation = other.generation /\ one # other => one.stalled \/ other.stalled

\* What an opt-out silenced never reaches the dispatch boundary afterwards,
\* though e-mail is turned on again or an edit planned before the opt-out
\* commits after it; nor does what an archive or a restriction cancelled once
\* the task is back, until an edit recreates it.
SilencedStaysSilent ==
    [][\A s \in Scanners : jobs[s].pc # "send" /\ jobs'[s].pc = "send" =>
          jobs[s].reminder \notin told.optedOut \union told.halted]_reminderVars
=============================================================================
