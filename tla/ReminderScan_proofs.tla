----------------------- MODULE ReminderScan_proofs -----------------------
(***************************************************************************)
(* Theorems about ReminderScan: what is announced twice was recreated by   *)
(* an edit that had no proof of it, of one occurrence the owner reads one  *)
(* mail while the retry window lasts, and what he switched off is not      *)
(* sent.                                                                   *)
(*                                                                         *)
(* The invariant has these parts. OnceOK: a reminder that is not decided   *)
(* yet, or is still to come, was announced no more often than it was       *)
(* recreated. EditOK: an edit keeps the opt-out unless the schedule moves. *)
(* JobOK, KeysOK: the deliveries of one occurrence agree on the time of    *)
(* its first attempt, also those whose row an edit has replaced, and no    *)
(* mail of it is older. GenerationsOK: rows, mails and deliveries never    *)
(* are of a later generation than the occurrence.                          *)
(***************************************************************************)
EXTENDS ReminderScan, FiniteSetTheorems, TLAPS

-----------------------------------------------------------------------------
(* The inductive invariant *)

MailStatuses == {"pending", "claimed", "accepted", "uncertain", "cancelled", "expired"}
OccurrenceStatuses == {"pending", "claimed", "delivered", "skipped", "expired", "cancelled"}
JobPcs == {"idle", "decide", "inspect", "release", "send", "accepted", "failed"}
Mailing == {"inspect", "release", "send", "accepted", "failed"}
ReminderRows == [generation : Nat, active : BOOLEAN, email : BOOLEAN]
OccurrenceRows == [generation : Nat, status : OccurrenceStatuses, fence : Nat, until : Nat]
MailRows == [generation : Nat, status : MailStatuses, after : Nat, first : Nat \union {NoRow},
             attempts : Nat, fence : Nat, until : Nat]
JobRows == [pc : JobPcs, reminder : Nat, generation : Nat, fence : Nat, at : Nat, version : Nat,
            first : Nat, executor : Nat, mail : BOOLEAN, entry : Nat, prior : SUBSET Reminders]
SentMails == [generation : Nat, at : Nat, stalled : BOOLEAN]
Histories == [made : [Reminders -> Nat], overtaken : [Reminders -> Nat],
              optedOut : SUBSET Reminders, halted : SUBSET Reminders]

ReminderTypes ==
  /\ minute \in Nat /\ scanExecutor \in Nat /\ schedule \in Nat /\ reachable \in BOOLEAN
  /\ prefs \in [version : Nat, email : BOOLEAN]
  /\ reminders \in [Reminders -> ReminderRows]
  /\ occurrences \in [Reminders -> OccurrenceRows]
  /\ DOMAIN entries \subseteq Nat
  /\ outbox \in [Reminders -> MailRows \union {NoRow}]
  /\ provider \in [Reminders -> SUBSET SentMails]
  /\ jobs \in [Scanners -> JobRows]
  /\ told \in Histories

\* What is still to be decided, or to come, was announced before an edit recreated it.
OnceOK ==
  \A r \in Reminders :
    /\ told.made[r] <= 1 + told.overtaken[r]
    /\ occurrences[r].status \in Undecided \/ r > minute => told.made[r] <= told.overtaken[r]
    /\ outbox[r] # NoRow => r <= minute

\* No silenced reminder is active with the channel that was silenced.
SilentOK ==
  \A r \in Reminders :
    /\ r \in told.halted => ~reminders[r].active
    /\ r \in told.optedOut => ~(reminders[r].active /\ reminders[r].email)

(***************************************************************************)
(* An edit mails what it keeps only if no opt-out came since: that would   *)
(* have moved the schedule.                                                *)
(***************************************************************************)
EditOK ==
  edit # NoRow =>
    /\ edit.version \in Nat /\ edit.version <= schedule
    /\ edit.kept \subseteq Reminders /\ edit.mailed \subseteq edit.kept
    /\ schedule = edit.version =>
         \A r \in edit.mailed : /\ r \notin told.optedOut
                                /\ reminders[r].active => reminders[r].email

\* A job has the row it claimed, or one that came after it, and sends only
\* what it claimed within the window.
JobOK(job, mails, now) ==
  /\ job.pc # "idle" => job.reminder \in Reminders /\ job.reminder <= now /\ job.at <= now
  /\ job.pc \in Mailing =>
       LET row == mails[job.reminder] IN
       /\ row # NoRow /\ job.generation <= row.generation
       /\ job.generation = row.generation => row.first = job.first
       /\ job.first <= job.at
  /\ job.pc = "send" => job.at - job.first < Retention

\* The deliveries of one occurrence know its first attempt; no mail is older.
SameKey(job, other) ==
  /\ job.pc \in Mailing /\ other.pc \in Mailing
  /\ job.reminder = other.reminder /\ job.generation = other.generation
KeysOK ==
  \A s \in Scanners :
    /\ \A t \in Scanners : SameKey(jobs[s], jobs[t]) => jobs[s].first = jobs[t].first
    /\ jobs[s].pc \in Mailing =>
         \A m \in provider[jobs[s].reminder] :
           m.generation = jobs[s].generation => jobs[s].first <= m.at

\* A first attempt lies behind.
MailOK(mails, now) ==
  \A r \in Reminders :
    mails[r] # NoRow => mails[r].first = NoRow \/ mails[r].first <= now

\* The provider sent mails of rows that were there, after their first attempt.
ProviderOK(mails) ==
  \A r \in Reminders :
    \A m \in provider[r] :
      /\ mails[r] # NoRow /\ m.generation <= mails[r].generation
      /\ m.generation = mails[r].generation
           => mails[r].first \in Nat /\ mails[r].first <= m.at

\* The mail of an occurrence is made when it is decided.
GenerationsOK(mails) ==
  \A r \in Reminders :
    /\ occurrences[r].generation <= reminders[r].generation
    /\ mails[r] # NoRow =>
         /\ mails[r].generation <= occurrences[r].generation
         /\ occurrences[r].status \in Undecided => mails[r].generation < occurrences[r].generation

ReminderInv ==
  /\ ReminderTypes /\ OnceOK /\ SilentOK /\ EditOK
  /\ \A s \in Scanners : JobOK(jobs[s], outbox, minute)
  /\ KeysOK /\ MailOK(outbox, minute) /\ ProviderOK(outbox) /\ GenerationsOK(outbox)
  /\ ReceivedOnce

-----------------------------------------------------------------------------
(* Reminders: the steps. *)

ClaimedMail(row, until, first) ==
  [row EXCEPT !.status = "claimed", !.until = until, !.fence = @ + 1, !.attempts = @ + 1,
              !.first = first]

LEMMA ClaimedMailOK ==
  \A row \in MailRows, until \in Nat, first \in Nat :
    LET u == ClaimedMail(row, until, first) IN
    /\ u \in MailRows /\ u.generation = row.generation /\ u.first = first
    /\ u.fence = row.fence + 1 /\ u.until = until
<1> SUFFICES ASSUME NEW row \in MailRows, NEW until \in Nat, NEW first \in Nat
             PROVE  LET u == ClaimedMail(row, until, first) IN
                    /\ u \in MailRows /\ u.generation = row.generation /\ u.first = first
                    /\ u.fence = row.fence + 1 /\ u.until = until
  OBVIOUS
<1>1. row.fence + 1 \in Nat /\ row.attempts + 1 \in Nat /\ "claimed" \in MailStatuses
  BY DEF MailRows, MailStatuses
<1> QED
  BY <1>1 DEF ClaimedMail, MailRows

LEMMA IdleJobOK ==
  ASSUME NEW mails, NEW now
  PROVE  /\ IdleJob \in JobRows /\ IdleJob.pc = "idle" /\ IdleJob.pc \notin Mailing
         /\ JobOK(IdleJob, mails, now)
BY DEF IdleJob, JobRows, JobPcs, JobOK, Mailing

\* Rows that an update leaves the same mails, with the same claims.
SameMails(before, after) ==
  \A r \in Reminders :
    /\ before[r] = NoRow <=> after[r] = NoRow
    /\ before[r] # NoRow => /\ after[r].generation = before[r].generation
                            /\ after[r].first = before[r].first
                            /\ after[r].fence = before[r].fence
                            /\ after[r].until = before[r].until

LEMMA SameMailsKeep ==
  ASSUME NEW before, NEW after, SameMails(before, after), NEW job, NEW now
  PROVE  /\ JobOK(job, before, now) => JobOK(job, after, now)
         /\ ProviderOK(before) => ProviderOK(after)
         /\ MailOK(before, now) => MailOK(after, now)
         /\ GenerationsOK(before) => GenerationsOK(after)
<1>1. JobOK(job, before, now) => JobOK(job, after, now)
  <2> SUFFICES ASSUME JobOK(job, before, now)
               PROVE  JobOK(job, after, now)
    OBVIOUS
  <2>1. job.pc \in Mailing => job.pc # "idle"
    BY DEF Mailing
  <2> QED
    BY <2>1 DEF JobOK, SameMails
<1>2. ProviderOK(before) => ProviderOK(after)
  BY DEF ProviderOK, SameMails
<1>3. MailOK(before, now) => MailOK(after, now)
  BY DEF MailOK, SameMails
<1>4. GenerationsOK(before) => GenerationsOK(after)
  BY DEF GenerationsOK, SameMails
<1> QED
  BY <1>1, <1>2, <1>3, <1>4

(***************************************************************************)
(* A step of one job, and at most of the status of mails.                  *)
(***************************************************************************)
JobMoves(s, job) ==
  /\ job \in JobRows /\ jobs' = [jobs EXCEPT ![s] = job]
  /\ JobOK(job, outbox, minute)
  /\ job.pc \in Mailing => SameKey(job, jobs[s]) /\ job.first = jobs[s].first
  /\ outbox' \in [Reminders -> MailRows \union {NoRow}] /\ SameMails(outbox, outbox')
  /\ UNCHANGED <<minute, scanExecutor, prefs, reachable, schedule, reminders, occurrences, entries,
                 provider, edit, told>>

\* A job keeps its key, or gives it up.
LEMMA KeysMove ==
  ASSUME KeysOK, NEW s \in Scanners, NEW job,
         job.pc \in Mailing => SameKey(job, jobs[s]) /\ job.first = jobs[s].first,
         \A t \in Scanners : jobs'[t] = IF t = s THEN job ELSE jobs[t],
         provider' = provider
  PROVE  KeysOK'
<1>1. ASSUME NEW t \in Scanners, jobs'[t].pc \in Mailing
      PROVE  SameKey(jobs'[t], jobs[t]) /\ jobs'[t].first = jobs[t].first
  BY <1>1 DEF SameKey
<1>2. ASSUME NEW t \in Scanners, NEW u \in Scanners, SameKey(jobs'[t], jobs'[u])
      PROVE  jobs'[t].first = jobs'[u].first
  <2>1. SameKey(jobs'[t], jobs[t]) /\ SameKey(jobs'[u], jobs[u])
        /\ jobs'[t].first = jobs[t].first /\ jobs'[u].first = jobs[u].first
    BY <1>1, <1>2 DEF SameKey
  <2>2. SameKey(jobs[t], jobs[u])
    BY <1>2, <2>1 DEF SameKey
  <2> QED
    BY <2>1, <2>2 DEF KeysOK
<1>3. ASSUME NEW t \in Scanners, jobs'[t].pc \in Mailing,
             NEW m \in provider'[jobs'[t].reminder], m.generation = jobs'[t].generation
      PROVE  jobs'[t].first <= m.at
  <2>1. SameKey(jobs'[t], jobs[t]) /\ jobs'[t].first = jobs[t].first
    BY <1>1, <1>3
  <2>2. jobs[t].pc \in Mailing /\ m \in provider[jobs[t].reminder]
        /\ m.generation = jobs[t].generation
    BY <1>3, <2>1 DEF SameKey
  <2> QED
    BY <2>1, <2>2 DEF KeysOK
<1> QED
  BY <1>2, <1>3 DEF KeysOK

LEMMA JobMovesKeeps ==
  ASSUME ReminderInv, NEW s \in Scanners, NEW job, JobMoves(s, job)
  PROVE  ReminderInv'
<1>1. \A t \in Scanners : jobs'[t] = IF t = s THEN job ELSE jobs[t]
  BY DEF JobMoves, ReminderInv, ReminderTypes
<1>2. ReminderTypes'
  BY DEF JobMoves, ReminderInv, ReminderTypes
<1>3. SameMails(outbox, outbox')
  BY DEF JobMoves
<1>4. \A t \in Scanners : JobOK(jobs'[t], outbox, minute)
  BY <1>1 DEF JobMoves, ReminderInv
<1>5. \A t \in Scanners : JobOK(jobs'[t], outbox', minute)
  BY <1>3, <1>4, SameMailsKeep
<1>6. ProviderOK(outbox)' 
  <2>1. ProviderOK(outbox')
    BY <1>3, SameMailsKeep DEF ReminderInv
  <2> QED
    BY <2>1 DEF JobMoves, ProviderOK
<1>7. OnceOK' /\ SilentOK' /\ EditOK'
  BY <1>3 DEF JobMoves, ReminderInv, OnceOK, SilentOK, EditOK, SameMails
<1>8. minute' = minute
  BY DEF JobMoves
<1>9. MailOK(outbox', minute)
  BY <1>3, SameMailsKeep DEF ReminderInv
<1>10. KeysOK'
  <2>1. /\ KeysOK /\ provider' = provider
        /\ job.pc \in Mailing => SameKey(job, jobs[s]) /\ job.first = jobs[s].first
    BY DEF ReminderInv, JobMoves
  <2> QED
    BY <1>1, <2>1, KeysMove
<1>11. GenerationsOK(outbox)' /\ ReceivedOnce'
  <2>1. GenerationsOK(outbox')
    BY <1>3, SameMailsKeep DEF ReminderInv
  <2> QED
    BY <2>1 DEF JobMoves, ReminderInv, GenerationsOK, ReceivedOnce
<1> QED
  BY <1>2, <1>5, <1>6, <1>7, <1>8, <1>9, <1>10, <1>11 DEF ReminderInv

LEMMA SettleKeeps ==
  ASSUME ReminderInv, ReminderNoRow, NEW s \in Scanners, jobs[s].pc \in Mailing,
         NEW clock, NEW status \in MailStatuses, NEW after \in Nat,
         Settle(s, clock, status, after),
         UNCHANGED <<minute, scanExecutor, prefs, reachable, schedule, reminders, occurrences,
                     entries, provider, edit, told>>
  PROVE  ReminderInv'
<1> DEFINE r == jobs[s].reminder
<1>1. /\ outbox' = outbox \/ outbox' = [outbox EXCEPT ![r].status = status, ![r].after = after]
      /\ jobs' = [jobs EXCEPT ![s] = IdleJob]
  BY DEF Settle
<1>2. /\ r \in Reminders /\ outbox[r] \in MailRows /\ outbox[r] # NoRow
      /\ outbox \in [Reminders -> MailRows \union {NoRow}]
  <2>1. JobOK(jobs[s], outbox, minute) /\ outbox \in [Reminders -> MailRows \union {NoRow}]
    BY DEF ReminderInv, ReminderTypes
  <2>2. jobs[s].pc # "idle"
    BY DEF Mailing
  <2> QED
    BY <2>1, <2>2 DEF JobOK
<1> DEFINE u == [outbox[r] EXCEPT !.status = status, !.after = after]
<1>3. /\ u \in MailRows /\ u.generation = outbox[r].generation /\ u.first = outbox[r].first
      /\ u.fence = outbox[r].fence /\ u.until = outbox[r].until
  BY <1>2 DEF MailRows
<1>4. u # NoRow
  BY <1>3, ReminderNoRow DEF MailRows, MailStatuses
<1>5. outbox' = outbox \/ outbox' = [outbox EXCEPT ![r] = u]
  BY <1>1, <1>2
<1> HIDE DEF r, u
<1>6. outbox' \in [Reminders -> MailRows \union {NoRow}] /\ SameMails(outbox, outbox')
  BY <1>2, <1>3, <1>4, <1>5 DEF SameMails
<1>7. JobMoves(s, IdleJob)
  BY <1>1, <1>6, IdleJobOK DEF JobMoves
<1> QED
  BY <1>7, JobMovesKeeps

LEMMA ScannersCrash ==
  ASSUME ReminderInv, NEW s \in Scanners, CrashScanner(s)
  PROVE  ReminderInv'
<1>1. JobMoves(s, IdleJob)
  BY IdleJobOK DEF CrashScanner, JobMoves, SameMails, ReminderInv, ReminderTypes
<1> QED
  BY <1>1, JobMovesKeeps

LEMMA MailsAreReleased ==
  ASSUME ReminderInv, ReminderNoRow, NEW s \in Scanners, Release(s) \/ Answered(s)
  PROVE  ReminderInv'
<1> DEFINE job == jobs[s]
<1>1. job \in JobRows /\ JobOK(job, outbox, minute) /\ minute \in Nat
      /\ outbox \in [Reminders -> MailRows \union {NoRow}]
  BY DEF ReminderInv, ReminderTypes
<1>2. job.at \in Nat /\ job.at + 1 \in Nat
  BY <1>1 DEF JobRows
<1>3. job.pc \in Mailing
  BY DEF Release, Answered, Mailing
<1>4. outbox[job.reminder].after \in Nat
  <2>1. job.pc # "idle"
    BY <1>3 DEF Mailing
  <2> QED
    BY <1>1, <1>3, <2>1 DEF JobOK, MailRows
<1>5. /\ "pending" \in MailStatuses /\ "accepted" \in MailStatuses /\ "uncertain" \in MailStatuses
      /\ UNCHANGED <<minute, scanExecutor, prefs, reachable, schedule, reminders, occurrences,
                     entries, provider, edit, told>>
  BY DEF MailStatuses, Release, Answered
<1>6. CASE Release(s)
  BY <1>2, <1>3, <1>5, <1>6, SettleKeeps DEF Release
<1>7. CASE Answered(s)
  <2>1. CASE Settle(s, minute, "accepted", outbox[job.reminder].after)
    BY <1>3, <1>4, <1>5, <2>1, SettleKeeps
  <2>2. CASE Settle(s, minute, IF outbox[job.reminder].attempts >= MaxSends THEN "uncertain"
                               ELSE "pending", job.at + 1)
    BY <1>2, <1>3, <1>5, <2>2, SettleKeeps
  <2> QED
    BY <1>7, <2>1, <2>2 DEF Answered
<1> QED
  BY <1>6, <1>7

LEMMA InspectionsKeep ==
  ASSUME ReminderInv, ReminderBounds, ReminderNoRow, NEW s \in Scanners, Inspect(s)
  PROVE  ReminderInv'
<1> DEFINE job == jobs[s]
           r == job.reminder
           row == outbox[r]
           expired == TooLate(job.at, r)
           live == /\ HoldsMail(job, minute) /\ Alive(r) /\ reminders[r].email
                   /\ prefs.email /\ prefs.version = job.version
           status == IF ~job.mail THEN "cancelled"
                     ELSE IF PastRetention(job) THEN "uncertain" ELSE "expired"
           sent == [job EXCEPT !.pc = IF live THEN "send" ELSE "release"]
<1>1. /\ job.pc = "inspect" /\ job.pc \in Mailing
      /\ UNCHANGED <<minute, scanExecutor, prefs, reachable, schedule, reminders, occurrences,
                     entries, provider, edit, told>>
  BY DEF Inspect, Mailing
<1>2. /\ job \in JobRows /\ JobOK(job, outbox, minute) /\ minute \in Nat
      /\ outbox \in [Reminders -> MailRows \union {NoRow}]
  BY DEF ReminderInv, ReminderTypes
<1>3. /\ r \in Reminders /\ row \in MailRows
  BY <1>1, <1>2 DEF JobOK
<1>4. /\ job.at \in Nat /\ job.at + 1 \in Nat /\ row.after \in Nat /\ job.first \in Nat
      /\ status \in MailStatuses /\ "pending" \in MailStatuses
  BY <1>2, <1>3 DEF JobRows, MailRows, MailStatuses
<1>5. CASE Settle(s, job.at, status, row.after)
  <2> HIDE DEF status
  <2> QED
    BY <1>1, <1>4, <1>5, SettleKeeps
<1>6. CASE Settle(s, job.at, "pending", job.at + 1)
  BY <1>1, <1>4, <1>6, SettleKeeps
<1>7. CASE /\ ~PastRetention(job) /\ jobs' = [jobs EXCEPT ![s] = sent] /\ UNCHANGED outbox
  <2>1. /\ sent \in JobRows /\ sent.pc \in {"send", "release"} /\ sent.reminder = r
        /\ sent.generation = job.generation /\ sent.at = job.at /\ sent.first = job.first
    BY <1>2 DEF JobRows, JobPcs
  <2>2. job.at - job.first < Retention
    <3>1. Retention \in Nat
      BY ReminderBounds
    <3>2. ~ (job.at - job.first >= Retention)
      BY <1>7 DEF PastRetention
    <3> HIDE DEF job
    <3> QED
      BY <1>4, <3>1, <3>2
  <2> HIDE DEF sent, live
  <2>3. JobOK(sent, outbox, minute) /\ SameKey(sent, job)
    BY <1>1, <1>2, <2>1, <2>2 DEF JobOK, SameKey, Mailing
  <2>4. JobMoves(s, sent)
    <3>1. outbox' = outbox
      BY <1>7
    <3> QED
      BY <1>1, <1>2, <1>7, <2>1, <2>3, <3>1 DEF JobMoves, SameMails
  <2> QED
    BY <2>4, JobMovesKeeps
<1>8. [jobs EXCEPT ![s].pc = IF live THEN "send" ELSE "release"] = [jobs EXCEPT ![s] = sent]
  BY DEF ReminderInv, ReminderTypes
<1> QED
  <2>1. \/ Settle(s, job.at, status, row.after)
        \/ Settle(s, job.at, "pending", job.at + 1)
        \/ /\ ~PastRetention(job)
           /\ jobs' = [jobs EXCEPT ![s].pc = IF live THEN "send" ELSE "release"]
           /\ UNCHANGED outbox
    BY DEF Inspect
  <2> HIDE DEF status, row, live, sent
  <2> QED
    BY <1>5, <1>6, <1>7, <1>8, <2>1

LEMMA SendsKeep ==
  ASSUME ReminderInv, ReminderBounds, NEW s \in Scanners, Send(s)
  PROVE  ReminderInv'
<1> DEFINE job == jobs[s]
           r == job.reminder
           row == outbox[r]
           mail == [generation |-> job.generation, at |-> minute,
                    stalled |-> /\ job.at - job.first < Retention
                                /\ minute - job.first >= Retention]
<1>1. /\ job.pc = "send" /\ job.pc \in Mailing
      /\ UNCHANGED <<minute, scanExecutor, prefs, reachable, schedule, reminders, occurrences,
                     entries, outbox, edit, told>>
  BY DEF Send, Mailing
<1>2. /\ job \in JobRows /\ JobOK(job, outbox, minute) /\ minute \in Nat
      /\ outbox \in [Reminders -> MailRows \union {NoRow}]
      /\ provider \in [Reminders -> SUBSET SentMails] /\ jobs \in [Scanners -> JobRows]
      /\ KeysOK /\ ProviderOK(outbox) /\ ReceivedOnce
      /\ Retention \in Nat /\ ProviderMemory \in Nat
  BY DEF ReminderInv, ReminderTypes, ReminderBounds
<1>3. /\ r \in Reminders /\ row # NoRow /\ row \in MailRows /\ job.at <= minute
      /\ job.generation <= row.generation /\ job.first <= job.at
      /\ job.generation = row.generation => row.first = job.first
      /\ job.at - job.first < Retention
  BY <1>1, <1>2 DEF JobOK
<1>4. job.generation \in Nat /\ job.at \in Nat /\ job.first \in Nat
  BY <1>2 DEF JobRows
<1>5. job.first <= minute
  <2> HIDE DEF job
  <2> QED
    BY <1>2, <1>3, <1>4
<1>6. PICK pc \in {"accepted", "failed"} :
        /\ jobs' = [jobs EXCEPT ![s] = [job EXCEPT !.pc = pc]]
        /\ \/ provider' = provider
           \/ ~Remembered(job) /\ provider' = [provider EXCEPT ![r] = @ \union {mail}]
  <2>1. \A pc : [jobs EXCEPT ![s].pc = pc] = [jobs EXCEPT ![s] = [job EXCEPT !.pc = pc]]
    BY <1>2
  <2> QED
    BY <1>2, <2>1 DEF Send
<1> DEFINE u == [job EXCEPT !.pc = pc]
<1>7. /\ u \in JobRows /\ u.pc = pc /\ u.reminder = r /\ u.generation = job.generation
      /\ u.at = job.at /\ u.first = job.first
  BY <1>2 DEF JobRows, JobPcs
<1>8. JobOK(u, outbox, minute) /\ SameKey(u, job)
  <2> HIDE DEF u
  <2> QED
    BY <1>1, <1>2, <1>7 DEF JobOK, SameKey, Mailing
<1>9. \A t \in Scanners : jobs'[t] = IF t = s THEN u ELSE jobs[t]
  BY <1>2, <1>6
<1>10. jobs' \in [Scanners -> JobRows]
  BY <1>2, <1>6, <1>7
<1> HIDE DEF u
<1>11. \A t \in Scanners : JobOK(jobs'[t], outbox, minute)
  BY <1>8, <1>9 DEF ReminderInv
<1>12. \A t \in Scanners : jobs'[t].pc \in Mailing
         => SameKey(jobs'[t], jobs[t]) /\ jobs'[t].first = jobs[t].first
  BY <1>7, <1>8, <1>9 DEF SameKey
<1>13. \A t, q \in Scanners : SameKey(jobs'[t], jobs'[q]) => jobs'[t].first = jobs'[q].first
  <2> SUFFICES ASSUME NEW t \in Scanners, NEW q \in Scanners, SameKey(jobs'[t], jobs'[q])
               PROVE  jobs'[t].first = jobs'[q].first
    OBVIOUS
  <2>1. SameKey(jobs'[t], jobs[t]) /\ SameKey(jobs'[q], jobs[q])
        /\ jobs'[t].first = jobs[t].first /\ jobs'[q].first = jobs[q].first
    BY <1>12 DEF SameKey
  <2>2. SameKey(jobs[t], jobs[q])
    BY <2>1 DEF SameKey
  <2> QED
    BY <1>2, <2>1, <2>2 DEF KeysOK
<1>14. /\ mail \in SentMails /\ mail.generation = job.generation /\ mail.at = minute
       /\ mail.stalled <=> minute - job.first >= Retention
  BY <1>2, <1>3, <1>4 DEF SentMails
<1> HIDE DEF mail
<1>15. /\ provider' \in [Reminders -> SUBSET SentMails]
       /\ \A q \in Reminders : \A m \in provider'[q] :
            m \in provider[q] \/ (q = r /\ m = mail /\ ~Remembered(job))
  <2> HIDE DEF r, job
  <2> QED
    BY <1>2, <1>3, <1>6, <1>14
<1>16. KeysOK'
  <2>1. ASSUME NEW t \in Scanners, jobs'[t].pc \in Mailing,
               NEW m \in provider'[jobs'[t].reminder], m.generation = jobs'[t].generation
        PROVE  jobs'[t].first <= m.at
    <3>1. SameKey(jobs'[t], jobs[t]) /\ jobs'[t].first = jobs[t].first
      BY <1>12, <2>1
    <3>2. jobs'[t].reminder \in Reminders
      <4>1. jobs'[t].pc # "idle"
        BY <2>1 DEF Mailing
      <4> QED
        BY <1>11, <4>1 DEF JobOK
    <3>3. CASE m \in provider[jobs'[t].reminder]
      BY <1>2, <2>1, <3>1, <3>3 DEF KeysOK, SameKey
    <3>4. CASE jobs'[t].reminder = r /\ m = mail
      <4>1. SameKey(jobs[t], job)
        BY <1>1, <1>14, <2>1, <3>1, <3>4 DEF SameKey
      <4>2. jobs[t].first = job.first
        BY <1>2, <4>1 DEF KeysOK
      <4> QED
        BY <1>5, <1>14, <3>1, <3>4, <4>2
    <3> QED
      BY <1>15, <2>1, <3>2, <3>3, <3>4
  <2> QED
    BY <1>13, <2>1 DEF KeysOK
<1>17. ProviderOK(outbox)'
  <2> SUFFICES ASSUME NEW q \in Reminders, NEW m \in provider'[q]
               PROVE  /\ outbox[q] # NoRow /\ m.generation <= outbox[q].generation
                      /\ m.generation = outbox[q].generation
                           => outbox[q].first \in Nat /\ outbox[q].first <= m.at
    BY <1>1 DEF ProviderOK
  <2>1. CASE m \in provider[q]
    BY <1>2, <2>1 DEF ProviderOK
  <2>2. CASE q = r /\ m = mail
    BY <1>3, <1>4, <1>5, <1>14, <2>2
  <2> QED
    BY <1>15, <2>1, <2>2
<1>18. ReceivedOnce'
  <2> SUFFICES ASSUME ProviderMemory >= Retention, NEW q \in Reminders,
                      NEW one \in provider'[q], NEW other \in provider'[q],
                      one.generation = other.generation, one # other
               PROVE  one.stalled \/ other.stalled
    BY DEF ReceivedOnce
  <2>1. CASE one \in provider[q] /\ other \in provider[q]
    BY <1>2, <2>1 DEF ReceivedOnce
  <2>2. ASSUME NEW m \in provider[r], m.generation = job.generation, ~Remembered(job)
        PROVE  mail.stalled
    <3>1. m.at \in Nat /\ job.first <= m.at
      BY <1>1, <1>2, <1>3, <2>2 DEF SentMails, KeysOK
    <3>2. ~(minute - m.at < ProviderMemory)
      BY <2>2 DEF Remembered
    <3>3. minute - job.first >= Retention
      <4> DEFINE at == m.at
                 first == job.first
      <4>1. at \in Nat /\ first \in Nat /\ first <= at /\ ~(minute - at < ProviderMemory)
        BY <1>4, <3>1, <3>2
      <4> HIDE DEF at, first
      <4>2. minute - first >= Retention
        BY <1>2, <4>1
      <4> QED
        BY <4>2 DEF first
    <3> QED
      BY <1>14, <3>3
  <2> QED
    BY <1>14, <1>15, <2>1, <2>2
<1>19. ReminderTypes'
  BY <1>1, <1>10, <1>15 DEF ReminderInv, ReminderTypes
<1>20. OnceOK' /\ SilentOK' /\ EditOK' /\ GenerationsOK(outbox)'
  BY <1>1 DEF ReminderInv, OnceOK, SilentOK, EditOK, GenerationsOK
<1> QED
  BY <1>1, <1>11, <1>16, <1>17, <1>18, <1>19, <1>20 DEF ReminderInv, MailOK

LEMMA MailsAreClaimed ==
  ASSUME ReminderInv, ReminderBounds, ReminderNoRow, NEW s \in Scanners, NEW r \in Reminders,
         ClaimMail(s, r)
  PROVE  ReminderInv'
<1> DEFINE row == outbox[r]
           first == IF row.first = NoRow THEN minute ELSE row.first
           u == ClaimedMail(row, minute + ClaimLease, first)
           job == [IdleJob EXCEPT !.pc = "inspect", !.reminder = r,
                                  !.generation = row.generation, !.fence = outbox'[r].fence,
                                  !.at = minute, !.first = outbox'[r].first,
                                  !.version = prefs.version, !.executor = scanExecutor,
                                  !.mail = prefs.email /\ Alive(r)]
<1>1. /\ row # NoRow /\ row.after <= minute
      /\ jobs' = [jobs EXCEPT ![s] = job]
      /\ UNCHANGED <<minute, scanExecutor, prefs, reachable, schedule, reminders, occurrences,
                     entries, provider, edit, told>>
  BY DEF ClaimMail
<1>2. /\ minute \in Nat /\ scanExecutor \in Nat /\ prefs \in [version : Nat, email : BOOLEAN]
      /\ outbox \in [Reminders -> MailRows \union {NoRow}] /\ jobs \in [Scanners -> JobRows]
      /\ reachable \in BOOLEAN /\ reminders \in [Reminders -> ReminderRows]
      /\ ClaimLease \in Nat /\ r \in Nat
  BY DEF ReminderInv, ReminderTypes, ReminderBounds, Reminders
<1>3. row \in MailRows
  BY <1>1, <1>2
<1>4. outbox' = [outbox EXCEPT ![r] = u]
  BY <1>2 DEF ClaimMail, ClaimedMail
<1>5. /\ first \in Nat /\ (row.first \in Nat => first = row.first)
      /\ row.fence \in Nat /\ first <= minute
  <2>1. MailOK(outbox, minute)
    BY DEF ReminderInv
  <2> QED
    BY <1>1, <1>2, <1>3, <2>1, ReminderNoRow DEF MailRows, MailOK
<1>6. /\ u \in MailRows /\ u.generation = row.generation /\ u.first = first
      /\ u.fence = row.fence + 1 /\ u.until = minute + ClaimLease
  <2>1. PICK f \in Nat : f = first
    BY <1>5
  <2>2. PICK t \in Nat : t = minute + ClaimLease
    BY <1>2
  <2>3. PICK m \in MailRows : m = row
    BY <1>3
  <2>4. PICK x : x = ClaimedMail(m, t, f)
    OBVIOUS
  <2>5. x \in MailRows /\ x.generation = m.generation /\ x.first = f
    BY ONLY <2>4, ClaimedMailOK
  <2>6. x.fence = m.fence + 1 /\ x.until = t
    BY ONLY ZenonT(60), <2>4, ClaimedMailOK
  <2>7. x = u
    BY <2>1, <2>2, <2>3, <2>4
  <2> HIDE DEF first, row, u
  <2> QED
    BY <2>1, <2>2, <2>3, <2>5, <2>6, <2>7
<1>7. u # NoRow
  BY <1>6, ReminderNoRow DEF MailRows, MailStatuses
<1> HIDE DEF u
<1>8. /\ outbox'[r] = u /\ \A q \in Reminders : q # r => outbox'[q] = outbox[q]
      /\ outbox' \in [Reminders -> MailRows \union {NoRow}]
  BY <1>2, <1>4, <1>6
<1>9. /\ job \in JobRows /\ job.pc = "inspect" /\ job.reminder = r
      /\ job.generation = row.generation /\ job.first = first /\ job.at = minute
  <2>1. /\ u.fence \in Nat /\ row.generation \in Nat /\ Alive(r) \in BOOLEAN
        /\ outbox'[r].first = first /\ outbox'[r].first \in Nat
    BY <1>2, <1>3, <1>5, <1>6, <1>8 DEF MailRows, Alive, ReminderRows
  <2> QED
    BY <1>2, <1>8, <2>1 DEF IdleJob, JobRows, JobPcs
<1> HIDE DEF job
<1>10. r <= minute
  <2>1. OnceOK
    BY DEF ReminderInv
  <2> QED
    BY <1>1, <2>1 DEF OnceOK
<1> HIDE DEF first
<1>11. JobOK(job, outbox', minute)
  <2>1. /\ job.pc = "inspect" /\ job.reminder \in Reminders /\ job.reminder <= minute
        /\ job.at <= minute /\ job.first <= job.at
    BY <1>2, <1>5, <1>9, <1>10
  <2>2. /\ outbox'[job.reminder] # NoRow /\ outbox'[job.reminder].first = job.first
        /\ outbox'[job.reminder].generation = job.generation
    BY <1>6, <1>7, <1>8, <1>9
  <2>3. job.generation \in Nat
    BY <1>9 DEF JobRows
  <2>4. job.generation <= outbox'[job.reminder].generation
    BY <2>2, <2>3
  <2> QED
    BY <2>1, <2>2, <2>4 DEF JobOK
<1>12. ASSUME NEW t \in Scanners
       PROVE  /\ JobOK(jobs[t], outbox', minute)
              /\ SameKey(jobs[t], job) => jobs[t].first = first
  <2> DEFINE x == jobs[t]
  <2>1. JobOK(x, outbox, minute) /\ x \in JobRows
    BY <1>2 DEF ReminderInv
  <2>2. x.pc \in Mailing => x.pc # "idle"
    BY DEF Mailing
  <2>3. x.first \in Nat
    BY <2>1 DEF JobRows
  <2> HIDE DEF x
  <2>4. ASSUME x.pc \in Mailing
        PROVE  /\ outbox'[x.reminder] # NoRow
               /\ outbox'[x.reminder].generation = outbox[x.reminder].generation
               /\ x.generation = outbox[x.reminder].generation
                    => outbox'[x.reminder].first = x.first
    <3>1. /\ x.reminder \in Reminders /\ outbox[x.reminder] # NoRow
          /\ x.generation = outbox[x.reminder].generation => outbox[x.reminder].first = x.first
      BY <2>1, <2>2, <2>4 DEF JobOK
    <3>2. CASE x.reminder # r
      BY <1>8, <3>1, <3>2
    <3>3. CASE x.reminder = r
      BY <1>5, <1>6, <1>7, <1>8, <2>3, <3>1, <3>3
    <3> QED
      BY <3>2, <3>3
  <2>5. JobOK(x, outbox', minute)
    BY <2>1, <2>4 DEF JobOK
  <2>6. SameKey(x, job) => x.first = first
    BY <1>6, <1>8, <1>9, <2>4 DEF SameKey
  <2> QED
    BY <2>5, <2>6 DEF x
<1>13. /\ \A t \in Scanners : jobs'[t] = IF t = s THEN job ELSE jobs[t]
       /\ \A t \in Scanners : JobOK(jobs'[t], outbox', minute)
  BY <1>1, <1>2, <1>11, <1>12
<1>14. ProviderOK(outbox)'
  <2>1. ProviderOK(outbox)
    BY DEF ReminderInv
  <2>2. ProviderOK(outbox')
    BY <1>5, <1>6, <1>7, <1>8, <2>1 DEF ProviderOK
  <2> QED
    BY <1>1, <2>2 DEF ProviderOK
<1>15. MailOK(outbox', minute)
  BY <1>5, <1>6, <1>8 DEF ReminderInv, MailOK
<1>16. ReminderTypes'
  BY <1>1, <1>2, <1>8, <1>9 DEF ReminderInv, ReminderTypes
<1>17. OnceOK' /\ SilentOK' /\ EditOK' /\ ReceivedOnce'
  <2>1. OnceOK /\ SilentOK /\ EditOK /\ ReceivedOnce
    BY DEF ReminderInv
  <2>2. OnceOK'
    BY <1>1, <1>8, <1>10, <2>1 DEF OnceOK
  <2> QED
    BY <1>1, <2>1, <2>2 DEF SilentOK, EditOK, ReceivedOnce
<1>18. KeysOK'
  <2>1. KeysOK /\ ProviderOK(outbox)
    BY DEF ReminderInv
  <2>2. \A t, q \in Scanners : SameKey(jobs'[t], jobs'[q]) => jobs'[t].first = jobs'[q].first
    BY <1>9, <1>12, <1>13, <2>1 DEF KeysOK, SameKey
  <2>3. ASSUME NEW t \in Scanners, jobs'[t].pc \in Mailing,
               NEW m \in provider[jobs'[t].reminder], m.generation = jobs'[t].generation
        PROVE  jobs'[t].first <= m.at
    <3>1. CASE t = s
      <4>1. m \in provider[r] /\ m.generation = row.generation /\ jobs'[t].first = first
        BY <1>9, <1>13, <2>3, <3>1
      <4>2. row.first \in Nat /\ row.first <= m.at
        BY <2>1, <4>1 DEF ProviderOK
      <4> QED
        BY <1>5, <4>1, <4>2
    <3>2. CASE t # s
      BY <1>13, <2>1, <2>3, <3>2 DEF KeysOK
    <3> QED
      BY <3>1, <3>2
  <2> QED
    BY <1>1, <2>2, <2>3 DEF KeysOK
<1>19. GenerationsOK(outbox)'
  <2>1. GenerationsOK(outbox)
    BY DEF ReminderInv
  <2> QED
    BY <1>1, <1>6, <1>8, <2>1 DEF GenerationsOK
<1> QED
  BY <1>1, <1>13, <1>14, <1>15, <1>16, <1>17, <1>18, <1>19 DEF ReminderInv

LEMMA OccurrencesAreClaimed ==
  ASSUME ReminderInv, ReminderBounds, NEW s \in Scanners, NEW r \in Reminders,
         ClaimOccurrence(s, r)
  PROVE  ReminderInv'
<1> DEFINE row == occurrences[r]
           claim == [row EXCEPT !.status = "claimed", !.until = minute + ClaimLease,
                                !.fence = @ + 1]
           entry == IF Late(minute, r) THEN OpenEntry ELSE 0
           prior == IF Late(minute, r) THEN Prior(r) ELSE {}
           mail == reminders[r].email /\ prefs.email /\ ~TooLate(minute, r)
           job == [pc |-> "decide", reminder |-> r, generation |-> row.generation,
                   fence |-> occurrences'[r].fence, at |-> minute, first |-> 0,
                   version |-> prefs.version, executor |-> scanExecutor, mail |-> mail, entry |-> entry, prior |-> prior]
<1>1. /\ r <= minute /\ row.status \in {"pending", "claimed"}
      /\ jobs' = [jobs EXCEPT ![s] = job]
      /\ UNCHANGED <<minute, scanExecutor, prefs, reachable, schedule, reminders, entries, outbox,
                     provider, edit, told>>
  BY DEF ClaimOccurrence, ClaimableRow
<1>2. /\ minute \in Nat /\ scanExecutor \in Nat /\ prefs \in [version : Nat, email : BOOLEAN]
      /\ occurrences \in [Reminders -> OccurrenceRows] /\ jobs \in [Scanners -> JobRows]
      /\ reminders \in [Reminders -> ReminderRows] /\ DOMAIN entries \subseteq Nat
      /\ ClaimLease \in Nat /\ r \in Nat
  BY DEF ReminderInv, ReminderTypes, ReminderBounds, Reminders
<1>3. occurrences' = [occurrences EXCEPT ![r] = claim]
  BY <1>2 DEF ClaimOccurrence
<1>4. /\ claim \in OccurrenceRows /\ claim.status = "claimed"
      /\ claim.generation = row.generation
  <2>1. row \in OccurrenceRows
    BY <1>2
  <2>2. row.fence + 1 \in Nat /\ minute + ClaimLease \in Nat
    BY <1>2, <2>1 DEF OccurrenceRows
  <2> HIDE DEF row
  <2> QED
    BY <2>1, <2>2 DEF OccurrenceRows, OccurrenceStatuses
<1> HIDE DEF claim
<1>5. /\ occurrences' \in [Reminders -> OccurrenceRows] /\ occurrences'[r] = claim
      /\ \A q \in Reminders : q # r => occurrences'[q] = occurrences[q]
  BY <1>2, <1>3, <1>4
<1>6. entry \in Nat /\ prior \subseteq Reminders /\ mail \in BOOLEAN
  <2>1. OpenEntry \in Nat
    <3>1. OpenEntries \subseteq Nat
      BY <1>2 DEF OpenEntries
    <3> QED
      BY <3>1 DEF OpenEntry
  <2>2. Prior(r) \subseteq Reminders
    BY DEF Prior
  <2>3. reminders[r].email \in BOOLEAN /\ prefs.email \in BOOLEAN
    BY <1>2 DEF ReminderRows
  <2> QED
    BY <2>1, <2>2, <2>3
<1> HIDE DEF entry, prior, mail
<1>7. job \in JobRows /\ job.pc = "decide" /\ job.reminder = r /\ job.at = minute
  <2>1. occurrences'[r].fence \in Nat /\ row.generation \in Nat /\ prefs.version \in Nat
    BY <1>2, <1>4, <1>5 DEF OccurrenceRows
  <2> QED
    BY <1>2, <1>6, <2>1 DEF JobRows, JobPcs
<1> HIDE DEF job
<1>8. JobOK(job, outbox, minute)
  BY <1>1, <1>2, <1>7 DEF JobOK, Mailing
<1>9. \A t \in Scanners : JobOK(jobs'[t], outbox, minute)
  BY <1>1, <1>2, <1>8 DEF ReminderInv
<1>10. ReminderTypes'
  BY <1>1, <1>2, <1>5, <1>7 DEF ReminderInv, ReminderTypes
<1>11. OnceOK'
  BY <1>1, <1>4, <1>5 DEF ReminderInv, OnceOK, Undecided
<1>12. KeysOK'
  <2>1. \A t \in Scanners : jobs'[t] = IF t = s THEN job ELSE jobs[t]
    BY <1>1, <1>2
  <2>2. KeysOK /\ job.pc \notin Mailing
    BY <1>7 DEF ReminderInv, Mailing
  <2> QED
    BY <1>1, <2>1, <2>2, KeysMove
<1>13. GenerationsOK(outbox)'
  <2>1. GenerationsOK(outbox)
    BY DEF ReminderInv
  <2>2. \A q \in Reminders : /\ occurrences'[q].generation = occurrences[q].generation
                             /\ occurrences'[q].status \in Undecided
                                  => occurrences[q].status \in Undecided
    BY <1>1, <1>4, <1>5 DEF Undecided
  <2> QED
    BY <1>1, <2>1, <2>2 DEF GenerationsOK
<1> QED
  BY <1>1, <1>9, <1>10, <1>11, <1>12, <1>13
     DEF ReminderInv, SilentOK, EditOK, MailOK, ProviderOK, ReceivedOnce

LEMMA DecisionsKeep ==
  ASSUME ReminderInv, ReminderBounds, ReminderNoRow, NEW s \in Scanners, Decide(s)
  PROVE  ReminderInv'
<1> DEFINE job == jobs[s]
           r == job.reminder
           mail == NewMail(job)
           status == IF TooLate(job.at, r) THEN "expired"
                     ELSE IF Shows(job) \/ Mails(job) THEN "delivered" ELSE "skipped"
<1>1. /\ job.pc = "decide" /\ jobs' = [jobs EXCEPT ![s] = IdleJob]
      /\ UNCHANGED <<minute, scanExecutor, prefs, reachable, schedule, reminders, provider, edit>>
  BY DEF Decide
<1>2. /\ job \in JobRows /\ JobOK(job, outbox, minute) /\ minute \in Nat
      /\ outbox \in [Reminders -> MailRows \union {NoRow}] /\ jobs \in [Scanners -> JobRows]
      /\ occurrences \in [Reminders -> OccurrenceRows] /\ DOMAIN entries \subseteq Nat
      /\ told \in Histories
      /\ OnceOK
  BY DEF ReminderInv, ReminderTypes
<1>3. r \in Reminders /\ r <= minute /\ job.generation \in Nat /\ r \in Nat
  BY <1>1, <1>2 DEF JobOK, JobRows
<1>4. \A t \in Scanners : JobOK(jobs'[t], outbox, minute)
  BY <1>1, <1>2, IdleJobOK DEF ReminderInv
<1>5. jobs' \in [Scanners -> JobRows] /\ KeysOK'
  <2>1. \A t \in Scanners : jobs'[t] = IF t = s THEN IdleJob ELSE jobs[t]
    BY <1>1, <1>2
  <2>2. KeysOK
    BY DEF ReminderInv
  <2>3. KeysOK'
    BY <1>1, <2>1, <2>2, IdleJobOK, KeysMove
  <2> QED
    BY <1>1, <1>2, <2>3, IdleJobOK
<1>6. CASE UNCHANGED <<entries, outbox, occurrences, told>>
  <2>1. ReminderTypes'
    BY <1>1, <1>5, <1>6 DEF ReminderInv, ReminderTypes
  <2> QED
    BY <1>1, <1>4, <1>5, <1>6, <2>1
       DEF ReminderInv, OnceOK, SilentOK, EditOK, MailOK, ProviderOK, GenerationsOK, ReceivedOnce
<1>7. CASE /\ HoldsOccurrence(job) /\ entries' = EntriesAfter(job)
           /\ outbox' = IF Mails(job) THEN [outbox EXCEPT ![r] = mail] ELSE outbox
           /\ occurrences' = [occurrences EXCEPT ![r].status = status]
           /\ told' = IF Shows(job) THEN [told EXCEPT !.made[r] = @ + 1] ELSE told
  <2>1. occurrences[r].status = "claimed"
    BY <1>7 DEF HoldsOccurrence
  <2>2. /\ told.made[r] <= told.overtaken[r] /\ occurrences[r].generation = job.generation
        /\ outbox[r] # NoRow => outbox[r].generation < job.generation
        /\ occurrences[r].generation <= reminders[r].generation
    BY <1>2, <1>3, <1>7, <2>1 DEF OnceOK, Undecided, ReminderInv, GenerationsOK, HoldsOccurrence
  <2>3. /\ mail \in MailRows /\ mail # NoRow /\ mail.first = NoRow
        /\ mail.generation = job.generation
    BY <1>3, ReminderNoRow DEF NewMail, MailRows, MailStatuses
  <2> HIDE DEF mail
  <2>4. /\ outbox' \in [Reminders -> MailRows \union {NoRow}]
        /\ \A q \in Reminders : outbox'[q] = outbox[q] \/ (q = r /\ outbox'[q] = mail)
    BY <1>2, <1>3, <1>7, <2>3
  <2>5. status \in OccurrenceStatuses /\ status \notin Undecided
    BY DEF OccurrenceStatuses, Undecided
  <2> DEFINE decided == [occurrences[r] EXCEPT !.status = status]
  <2> HIDE DEF status
  <2>6. occurrences' = [occurrences EXCEPT ![r] = decided]
    BY <1>2, <1>7
  <2>7. /\ decided \in OccurrenceRows /\ decided.status = status
        /\ decided.generation = occurrences[r].generation
    BY <1>2, <1>3, <2>5 DEF OccurrenceRows
  <2> HIDE DEF decided
  <2>8. /\ occurrences' \in [Reminders -> OccurrenceRows] /\ occurrences'[r].status = status
        /\ occurrences'[r].generation = occurrences[r].generation
        /\ \A q \in Reminders : q # r => occurrences'[q] = occurrences[q]
    BY <1>2, <1>3, <2>6, <2>7
  <2>9. /\ told' \in Histories
        /\ told'.optedOut = told.optedOut /\ told'.halted = told.halted
        /\ told'.overtaken = told.overtaken
        /\ told'.made[r] <= 1 + told.overtaken[r]
        /\ \A q \in Reminders : q # r => told'.made[q] = told.made[q]
    <3>1. told.made[r] \in Nat /\ told.overtaken[r] \in Nat
      BY <1>2, <1>3 DEF Histories
    <3>2. told'.made[r] = told.made[r] \/ told'.made[r] = told.made[r] + 1
      BY <1>2, <1>3, <1>7 DEF Histories
    <3>3. told'.made[r] <= 1 + told.overtaken[r]
      BY <2>2, <3>1, <3>2
    <3> QED
      BY <1>2, <1>3, <1>7, <3>3 DEF Histories
  <2>10. DOMAIN entries' \subseteq Nat
    <3>1. 1..(Cardinality(DOMAIN entries) + 1) \subseteq Nat
      OBVIOUS
    <3>2. EntriesAfter(job) = entries \/ DOMAIN EntriesAfter(job) = DOMAIN entries
            \/ DOMAIN EntriesAfter(job) = 1..(Cardinality(DOMAIN entries) + 1)
      BY DEF EntriesAfter
    <3> QED
      BY <1>2, <1>7, <3>1, <3>2
  <2>11. ReminderTypes'
    BY <1>1, <1>5, <2>4, <2>8, <2>9, <2>10 DEF ReminderInv, ReminderTypes
  <2>12. OnceOK'
    <3> SUFFICES ASSUME NEW q \in Reminders
                 PROVE  /\ told'.made[q] <= 1 + told'.overtaken[q]
                        /\ occurrences'[q].status \in Undecided \/ q > minute
                             => told'.made[q] <= told'.overtaken[q]
                        /\ outbox'[q] # NoRow => q <= minute
      BY <1>1 DEF OnceOK
    <3>1. CASE q = r
      BY <1>2, <1>3, <2>5, <2>8, <2>9, <3>1
    <3>2. CASE q # r
      BY <1>2, <2>4, <2>8, <2>9, <3>2 DEF OnceOK
    <3> QED
      BY <3>1, <3>2
  <2>13. \A t \in Scanners : JobOK(jobs'[t], outbox', minute)
    <3> SUFFICES ASSUME NEW t \in Scanners
                 PROVE  JobOK(jobs'[t], outbox', minute)
      OBVIOUS
    <3> DEFINE x == jobs'[t]
    <3>1. JobOK(x, outbox, minute) /\ x \in JobRows
      BY <1>4, <1>5
    <3>2. x.pc \in Mailing => x.pc # "idle"
      BY DEF Mailing
    <3> HIDE DEF x
    <3>3. ASSUME x.pc \in Mailing, x.reminder = r
          PROVE  x.generation < job.generation
      <4>1. outbox[r] # NoRow /\ x.generation <= outbox[r].generation /\ x.generation \in Nat
        BY <3>1, <3>3 DEF JobOK, JobRows
      <4>2. outbox[r].generation \in Nat /\ outbox[r].generation < job.generation
        BY <1>2, <1>3, <2>2, <4>1 DEF MailRows
      <4> HIDE DEF r, job
      <4> QED
        BY <1>3, <4>1, <4>2
    <3>4. x.pc \in Mailing => x.reminder \in Reminders /\ x.generation \in Nat
      BY <3>1, <3>2 DEF JobOK, JobRows
    <3>5. ASSUME x.pc \in Mailing
          PROVE  LET held == outbox'[x.reminder] IN
                 /\ held # NoRow /\ x.generation <= held.generation
                 /\ x.generation = held.generation => held.first = x.first
      <4>1. CASE outbox'[x.reminder] = outbox[x.reminder]
        BY <3>1, <3>5, <4>1 DEF JobOK
      <4>2. CASE x.reminder = r /\ outbox'[x.reminder] = mail
        BY <1>3, <2>3, <3>3, <3>4, <3>5, <4>2
      <4> QED
        BY <2>4, <3>4, <3>5, <4>1, <4>2
    <3>6. JobOK(x, outbox', minute)
      BY <3>1, <3>5 DEF JobOK
    <3> QED
      BY <3>6 DEF x
  <2>14. MailOK(outbox', minute)
    BY <2>3, <2>4 DEF ReminderInv, MailOK
  <2>15. ProviderOK(outbox)'
    <3> SUFFICES ASSUME NEW q \in Reminders, NEW m \in provider[q]
                 PROVE  /\ outbox'[q] # NoRow /\ m.generation <= outbox'[q].generation
                        /\ m.generation = outbox'[q].generation
                             => outbox'[q].first \in Nat /\ outbox'[q].first <= m.at
      BY <1>1 DEF ProviderOK
    <3>1. /\ outbox[q] # NoRow /\ m.generation <= outbox[q].generation
          /\ m.generation = outbox[q].generation
               => outbox[q].first \in Nat /\ outbox[q].first <= m.at
      BY DEF ReminderInv, ProviderOK
    <3>2. CASE outbox'[q] = outbox[q]
      BY <3>1, <3>2
    <3>3. CASE q = r /\ outbox'[q] = mail
      <4>1. m.generation \in Nat /\ outbox[q].generation \in Nat
        BY <1>2, <3>1 DEF ReminderInv, ReminderTypes, SentMails, MailRows
      <4>2. m.generation < job.generation
        <5> HIDE DEF r, job
        <5> QED
          BY <1>3, <2>2, <3>1, <3>3, <4>1
      <4> QED
        BY <1>3, <2>3, <3>3, <4>1, <4>2
    <3> QED
      BY <2>4, <3>2, <3>3
  <2>16. SilentOK' /\ EditOK' /\ ReceivedOnce'
    BY <1>1, <2>9 DEF ReminderInv, SilentOK, EditOK, ReceivedOnce
  <2>17. GenerationsOK(outbox)'
    <3>1. GenerationsOK(outbox)
      BY DEF ReminderInv
    <3> SUFFICES ASSUME NEW q \in Reminders
                 PROVE  /\ occurrences'[q].generation <= reminders[q].generation
                        /\ outbox'[q] # NoRow =>
                             /\ outbox'[q].generation <= occurrences'[q].generation
                             /\ occurrences'[q].status \in Undecided
                                  => outbox'[q].generation < occurrences'[q].generation
      BY <1>1 DEF GenerationsOK
    <3>2. CASE q = r
      BY <1>3, <2>2, <2>3, <2>4, <2>5, <2>8, <3>1, <3>2 DEF GenerationsOK
    <3>3. CASE q # r
      BY <2>4, <2>8, <3>1, <3>3 DEF GenerationsOK
    <3> QED
      BY <3>2, <3>3
  <2> QED
    BY <1>1, <1>5, <2>11, <2>12, <2>13, <2>14, <2>15, <2>16, <2>17 DEF ReminderInv
<1> QED
  BY <1>6, <1>7 DEF Decide

LEMMA CancelledMails ==
  ASSUME NEW rows \in [Reminders -> MailRows \union {NoRow}], ReminderNoRow
  PROVE  /\ CancelMails(rows) \in [Reminders -> MailRows \union {NoRow}]
         /\ SameMails(rows, CancelMails(rows))
<1> SUFFICES ASSUME NEW r \in Reminders
             PROVE  LET new == CancelMails(rows)[r] IN
                    /\ new \in MailRows \union {NoRow} /\ (rows[r] = NoRow <=> new = NoRow)
                    /\ rows[r] # NoRow => /\ new.generation = rows[r].generation
                                          /\ new.first = rows[r].first
                                          /\ new.fence = rows[r].fence
                                          /\ new.until = rows[r].until
  BY DEF CancelMails, SameMails
<1> DEFINE u == [rows[r] EXCEPT !.status = "cancelled"]
<1>1. CancelMails(rows)[r] = rows[r] \/ (rows[r] # NoRow /\ CancelMails(rows)[r] = u)
  BY DEF CancelMails
<1>2. ASSUME rows[r] # NoRow
      PROVE  /\ u \in MailRows /\ u # NoRow
             /\ u.generation = rows[r].generation /\ u.first = rows[r].first
             /\ u.fence = rows[r].fence /\ u.until = rows[r].until
  <2>1. rows[r] \in MailRows
    BY <1>2
  <2>2. /\ u \in MailRows
        /\ u.generation = rows[r].generation /\ u.first = rows[r].first
        /\ u.fence = rows[r].fence /\ u.until = rows[r].until
    BY <2>1 DEF MailRows, MailStatuses
  <2> HIDE DEF u
  <2>3. u # NoRow
    BY <2>2, ReminderNoRow DEF MailRows, MailStatuses
  <2> QED
    BY <2>2, <2>3
<1> HIDE DEF u
<1> QED
  BY <1>1, <1>2

LEMMA CancelledOccurrences ==
  ASSUME NEW rows \in [Reminders -> OccurrenceRows], NEW r \in Reminders
  PROVE  /\ CancelOccurrences(rows)[r] \in OccurrenceRows
         /\ CancelOccurrences(rows)[r].status \notin Undecided
         /\ CancelOccurrences(rows)[r].generation = rows[r].generation
BY DEF CancelOccurrences, Undecided, OccurrenceRows, OccurrenceStatuses

LEMMA RetiredReminders ==
  ASSUME NEW rows \in [Reminders -> ReminderRows], NEW r \in Reminders
  PROVE  /\ Retire(rows)[r] \in ReminderRows /\ ~ Retire(rows)[r].active
         /\ Retire(rows)[r].email = rows[r].email
         /\ rows[r].generation <= Retire(rows)[r].generation
<1>1. /\ rows[r] \in ReminderRows /\ rows[r].generation + 1 \in Nat
      /\ rows[r].generation \in Nat
  BY DEF ReminderRows
<1>2. CASE rows[r].active
  <2> DEFINE u == [rows[r] EXCEPT !.active = FALSE, !.generation = rows[r].generation + 1]
  <2>1. Retire(rows)[r] = u
    BY <1>2 DEF Retire
  <2>2. /\ u \in ReminderRows /\ u.active = FALSE /\ u.email = rows[r].email
        /\ u.generation = rows[r].generation + 1
    BY <1>1 DEF ReminderRows
  <2> HIDE DEF u
  <2> QED
    BY <1>1, <2>1, <2>2
<1>3. CASE ~ rows[r].active
  BY <1>1, <1>3 DEF Retire
<1> QED
  BY <1>2, <1>3

LEMMA OwnersOptOut ==
  ASSUME ReminderInv, ReminderNoRow, OptOut
  PROVE  ReminderInv'
<1>1. /\ outbox' = CancelMails(outbox) /\ schedule' = ScheduleAfterOptOut
      /\ prefs' = [version |-> prefs.version + 1, email |-> FALSE]
      /\ reminders' = [r \in Reminders |-> IF reminders[r].active
                                           THEN [reminders[r] EXCEPT !.email = FALSE]
                                           ELSE reminders[r]]
      /\ told' = [told EXCEPT !.optedOut = @ \union {r \in Reminders : reminders[r].active}]
      /\ UNCHANGED <<minute, scanExecutor, reachable, occurrences, entries, provider, jobs, edit>>
  BY DEF OptOut
<1>2. /\ outbox \in [Reminders -> MailRows \union {NoRow}] /\ schedule \in Nat
      /\ prefs \in [version : Nat, email : BOOLEAN] /\ reminders \in [Reminders -> ReminderRows]
      /\ told \in Histories
  BY DEF ReminderInv, ReminderTypes
<1>3. outbox' \in [Reminders -> MailRows \union {NoRow}] /\ SameMails(outbox, outbox')
  BY <1>1, <1>2, CancelledMails
<1>4. /\ told' \in Histories
      /\ told'.made = told.made /\ told'.overtaken = told.overtaken
      /\ told'.halted = told.halted
      /\ told'.optedOut = told.optedOut \union {r \in Reminders : reminders[r].active}
  BY <1>1, <1>2 DEF Histories
<1>5. /\ reminders' \in [Reminders -> ReminderRows]
      /\ \A r \in Reminders : /\ reminders'[r].active = reminders[r].active
                              /\ reminders'[r].generation = reminders[r].generation
                              /\ reminders[r].active => ~ reminders'[r].email
                              /\ ~ reminders[r].active => reminders'[r] = reminders[r]
  BY <1>1, <1>2 DEF ReminderRows
<1>6. /\ prefs' \in [version : Nat, email : BOOLEAN]
      /\ schedule' \in {schedule, schedule + 1} /\ schedule' \in Nat
      /\ schedule' = schedule => \A r \in Reminders : ~ (reminders[r].active /\ reminders[r].email)
  BY <1>1, <1>2 DEF ScheduleAfterOptOut
<1>7. ReminderTypes'
  BY <1>1, <1>3, <1>4, <1>5, <1>6 DEF ReminderInv, ReminderTypes
<1>8. OnceOK'
  BY <1>1, <1>3, <1>4 DEF ReminderInv, OnceOK, SameMails
<1>9. SilentOK'
  BY <1>4, <1>5 DEF ReminderInv, SilentOK
<1>10. EditOK'
  <2>1. EditOK
    BY DEF ReminderInv
  <2> SUFFICES ASSUME edit # NoRow
               PROVE  EditOK'
    BY <1>1 DEF EditOK
  <2>2. /\ edit.version \in Nat /\ edit.version <= schedule
        /\ edit.kept \subseteq Reminders /\ edit.mailed \subseteq edit.kept
    BY <2>1 DEF EditOK
  <2>3. edit.version <= schedule' /\ (schedule' = edit.version => schedule' = schedule)
    BY <1>2, <1>6, <2>2
  <2>4. schedule' = edit.version =>
          \A r \in edit.mailed : /\ r \notin told'.optedOut
                                 /\ reminders'[r].active => reminders'[r].email
    BY <1>4, <1>5, <1>6, <2>1, <2>2, <2>3 DEF EditOK
  <2> QED
    BY <1>1, <2>1, <2>3, <2>4 DEF EditOK
<1>11. \A s \in Scanners : JobOK(jobs[s], outbox', minute)
  BY <1>3, SameMailsKeep DEF ReminderInv
<1>12. MailOK(outbox', minute) /\ ProviderOK(outbox') /\ GenerationsOK(outbox')
  BY <1>3, SameMailsKeep DEF ReminderInv
<1>13. GenerationsOK(outbox)'
  BY <1>1, <1>5, <1>12 DEF GenerationsOK
<1> QED
  BY <1>1, <1>7, <1>8, <1>9, <1>10, <1>11, <1>12, <1>13
     DEF ReminderInv, ProviderOK, KeysOK, ReceivedOnce

LEMMA RemindersHalt ==
  ASSUME ReminderInv, ReminderNoRow, Halt
  PROVE  ReminderInv'
<1>1. /\ reachable' = FALSE /\ reminders' = Retire(reminders)
      /\ occurrences' = CancelOccurrences(occurrences) /\ outbox' = CancelMails(outbox)
      /\ told' = [told EXCEPT !.halted = Reminders]
      /\ UNCHANGED <<minute, scanExecutor, prefs, schedule, entries, provider, jobs, edit>>
  BY DEF Halt
<1>2. /\ outbox \in [Reminders -> MailRows \union {NoRow}]
      /\ occurrences \in [Reminders -> OccurrenceRows]
      /\ reminders \in [Reminders -> ReminderRows]
      /\ told \in Histories
  BY DEF ReminderInv, ReminderTypes
<1>3. outbox' \in [Reminders -> MailRows \union {NoRow}] /\ SameMails(outbox, outbox')
  BY <1>1, <1>2, CancelledMails
<1>4. /\ told' \in Histories
      /\ told'.made = told.made /\ told'.overtaken = told.overtaken
      /\ told'.optedOut = told.optedOut
  BY <1>1, <1>2 DEF Histories
<1>5. /\ reminders' \in [Reminders -> ReminderRows]
      /\ \A r \in Reminders : /\ ~ reminders'[r].active
                              /\ reminders[r].generation <= reminders'[r].generation
  <2>1. \A r \in Reminders : /\ reminders'[r] \in ReminderRows /\ ~ reminders'[r].active
                             /\ reminders[r].generation <= reminders'[r].generation
    BY <1>1, <1>2, RetiredReminders
  <2> QED
    BY <1>1, <2>1 DEF Retire
<1>6. /\ occurrences' \in [Reminders -> OccurrenceRows]
      /\ \A r \in Reminders : /\ occurrences'[r].status \notin Undecided
                              /\ occurrences'[r].generation = occurrences[r].generation
  <2>1. \A r \in Reminders : /\ occurrences'[r] \in OccurrenceRows
                             /\ occurrences'[r].status \notin Undecided
                             /\ occurrences'[r].generation = occurrences[r].generation
    BY <1>1, <1>2, CancelledOccurrences
  <2> QED
    BY <1>1, <2>1 DEF CancelOccurrences
<1>7. ReminderTypes'
  BY <1>1, <1>3, <1>4, <1>5, <1>6 DEF ReminderInv, ReminderTypes
<1>8. OnceOK'
  BY <1>1, <1>3, <1>4, <1>6 DEF ReminderInv, OnceOK, SameMails
<1>9. SilentOK'
  BY <1>5 DEF SilentOK
<1>10. EditOK'
  BY <1>1, <1>4, <1>5 DEF ReminderInv, EditOK
<1>11. \A s \in Scanners : JobOK(jobs[s], outbox', minute)
  BY <1>3, SameMailsKeep DEF ReminderInv
<1>12. MailOK(outbox', minute) /\ ProviderOK(outbox') /\ GenerationsOK(outbox')
  BY <1>3, SameMailsKeep DEF ReminderInv
<1>13. GenerationsOK(outbox)'
  <2>1. \A r \in Reminders : occurrences[r].generation <= reminders'[r].generation
    <3> SUFFICES ASSUME NEW r \in Reminders
                 PROVE  occurrences[r].generation <= reminders'[r].generation
      OBVIOUS
    <3>1. /\ occurrences[r].generation \in Nat /\ reminders[r].generation \in Nat
          /\ reminders'[r].generation \in Nat
      BY <1>2, <1>5 DEF OccurrenceRows, ReminderRows
    <3> QED
      BY <1>5, <1>12, <3>1 DEF GenerationsOK
  <2> QED
    BY <1>6, <1>12, <2>1 DEF GenerationsOK
<1> QED
  BY <1>1, <1>7, <1>8, <1>9, <1>10, <1>11, <1>12, <1>13
     DEF ReminderInv, ProviderOK, KeysOK, ReceivedOnce

LEMMA EditsBegin ==
  ASSUME ReminderInv, BeginEdit
  PROVE  ReminderInv'
<1>1. PICK kept \in SUBSET {r \in Reminders : Alive(r) /\ occurrences[r].status \in Undecided} :
        /\ edit' = [version |-> schedule, kept |-> kept,
                    mailed |-> {r \in kept : reminders[r].email},
                    proofs |-> {<<r, occurrences[r].generation>> :
                                  r \in {k \in kept : k <= minute}}]
        /\ told' = [told EXCEPT !.optedOut = @ \ kept]
  BY DEF BeginEdit
<1>2. UNCHANGED <<minute, scanExecutor, prefs, reachable, schedule, reminders, occurrences,
                  entries, outbox, provider, jobs>>
  BY DEF BeginEdit
<1>3. /\ schedule \in Nat /\ told \in Histories
  BY DEF ReminderInv, ReminderTypes
<1>4. /\ told' \in Histories
      /\ told'.made = told.made /\ told'.overtaken = told.overtaken
      /\ told'.halted = told.halted
      /\ told'.optedOut = told.optedOut \ kept
  BY <1>1, <1>3 DEF Histories
<1>5. kept \subseteq Reminders
  OBVIOUS
<1>6. EditOK'
  <2>1. /\ edit'.version = schedule /\ edit'.kept = kept
        /\ edit'.mailed = {r \in kept : reminders[r].email}
    BY <1>1
  <2>2. \A r \in edit'.mailed : r \in kept /\ reminders[r].email
    BY <2>1
  <2> QED
    BY <1>2, <1>3, <1>4, <1>5, <2>1, <2>2 DEF EditOK
<1>7. ReminderTypes'
  BY <1>2, <1>4 DEF ReminderInv, ReminderTypes
<1>8. OnceOK' /\ SilentOK'
  BY <1>2, <1>4 DEF ReminderInv, OnceOK, SilentOK
<1> QED
  BY <1>2, <1>6, <1>7, <1>8
     DEF ReminderInv, MailOK, ProviderOK, KeysOK, GenerationsOK, ReceivedOnce

LEMMA EditsCommit ==
  ASSUME ReminderInv, ReminderNoRow, CommitEdit
  PROVE  ReminderInv'
<1> DEFINE fresh(r) == reminders[r].generation + 2
<1>1. /\ edit # NoRow /\ edit' = NoRow
      /\ UNCHANGED <<minute, scanExecutor, prefs, reachable, entries, provider, jobs>>
  BY DEF CommitEdit
<1>2. /\ outbox \in [Reminders -> MailRows \union {NoRow}]
      /\ occurrences \in [Reminders -> OccurrenceRows]
      /\ reminders \in [Reminders -> ReminderRows] /\ schedule \in Nat /\ minute \in Nat
      /\ told \in Histories
      /\ OnceOK /\ SilentOK /\ EditOK
  BY DEF ReminderInv, ReminderTypes
<1>3. EditOK'
  BY <1>1 DEF EditOK
<1>4. CASE ~ EditStands
  <2>1. UNCHANGED <<schedule, reminders, occurrences, outbox, told>>
    BY <1>4 DEF CommitEdit
  <2>2. ReminderTypes'
    BY <1>1, <2>1 DEF ReminderInv, ReminderTypes
  <2> QED
    BY <1>1, <1>3, <2>1, <2>2
       DEF ReminderInv, OnceOK, SilentOK, MailOK, ProviderOK, KeysOK, GenerationsOK, ReceivedOnce
<1>5. CASE EditStands
  <2>1. /\ schedule' = schedule + 1 /\ outbox' = CancelMails(outbox)
        /\ reminders' = [r \in Reminders |->
                           IF r \in edit.kept
                           THEN [generation |-> fresh(r), active |-> TRUE,
                                 email |-> r \in edit.mailed]
                           ELSE Retire(reminders)[r]]
        /\ occurrences' = [r \in Reminders |->
                             IF r \in edit.kept
                             THEN [generation |-> fresh(r), status |-> "pending",
                                   fence |-> 0, until |-> 0]
                             ELSE CancelOccurrences(occurrences)[r]]
        /\ told' = [told EXCEPT !.halted = @ \ edit.kept,
                                !.overtaken = [r \in Reminders |->
                                                 IF r \in DueUnderway THEN @[r] + 1 ELSE @[r]]]
    BY <1>5 DEF CommitEdit
  <2>2. outbox' \in [Reminders -> MailRows \union {NoRow}] /\ SameMails(outbox, outbox')
    BY <1>2, <2>1, CancelledMails
  <2>3. /\ told' \in Histories
        /\ told'.made = told.made /\ told'.optedOut = told.optedOut
        /\ told'.halted = told.halted \ edit.kept
        /\ \A r \in Reminders : told'.overtaken[r] = IF r \in DueUnderway
                                                     THEN told.overtaken[r] + 1
                                                     ELSE told.overtaken[r]
    <3> DEFINE after == [r \in Reminders |-> IF r \in DueUnderway THEN told.overtaken[r] + 1
                                             ELSE told.overtaken[r]]
    <3>1. after \in [Reminders -> Nat]
      BY <1>2 DEF Histories
    <3>2. told' = [told EXCEPT !.halted = told.halted \ edit.kept, !.overtaken = after]
      BY <2>1
    <3>3. \A r \in Reminders : after[r] = IF r \in DueUnderway THEN told.overtaken[r] + 1
                                          ELSE told.overtaken[r]
      OBVIOUS
    <3> HIDE DEF after
    <3> QED
      BY <1>2, <3>1, <3>2, <3>3 DEF Histories
  <2>4. ASSUME NEW r \in Reminders
        PROVE  /\ reminders'[r] \in ReminderRows
               /\ r \notin edit.kept => ~ reminders'[r].active
               /\ r \in edit.kept => /\ reminders'[r].email <=> r \in edit.mailed
                                     /\ reminders'[r].generation = fresh(r)
               /\ reminders[r].generation <= reminders'[r].generation
    <3>1. fresh(r) \in Nat /\ reminders[r].generation <= fresh(r)
      BY <1>2 DEF ReminderRows
    <3>2. /\ Retire(reminders)[r] \in ReminderRows /\ ~ Retire(reminders)[r].active
          /\ reminders[r].generation <= Retire(reminders)[r].generation
      BY <1>2, RetiredReminders
    <3> HIDE DEF fresh
    <3>3. CASE r \in edit.kept
      <4> DEFINE mailed == r \in edit.mailed
      <4>1. reminders'[r] = [generation |-> fresh(r), active |-> TRUE, email |-> mailed]
        BY <2>1, <3>3
      <4>2. mailed \in BOOLEAN
        OBVIOUS
      <4> HIDE DEF mailed
      <4>3. reminders'[r] \in ReminderRows
        BY <3>1, <4>1, <4>2 DEF ReminderRows
      <4>4. reminders'[r].email = mailed /\ reminders'[r].generation = fresh(r)
        BY <4>1
      <4> QED
        BY <3>1, <3>3, <4>3, <4>4 DEF mailed
    <3>4. CASE r \notin edit.kept
      BY <2>1, <3>2, <3>4
    <3> QED
      BY <3>3, <3>4
  <2>5. ASSUME NEW r \in Reminders
        PROVE  /\ occurrences'[r] \in OccurrenceRows
               /\ r \notin edit.kept => /\ occurrences'[r].status \notin Undecided
                                        /\ occurrences'[r].generation = occurrences[r].generation
               /\ r \in edit.kept => occurrences'[r].generation = fresh(r)
    <3>1. fresh(r) \in Nat
      BY <1>2 DEF ReminderRows
    <3>2. /\ CancelOccurrences(occurrences)[r] \in OccurrenceRows
          /\ CancelOccurrences(occurrences)[r].status \notin Undecided
          /\ CancelOccurrences(occurrences)[r].generation = occurrences[r].generation
      BY <1>2, CancelledOccurrences
    <3> HIDE DEF fresh
    <3>3. CASE r \in edit.kept
      <4>1. occurrences'[r] = [generation |-> fresh(r), status |-> "pending",
                               fence |-> 0, until |-> 0]
        BY <2>1, <3>3
      <4> QED
        BY <3>1, <3>3, <4>1 DEF OccurrenceRows, OccurrenceStatuses
    <3>4. CASE r \notin edit.kept
      BY <2>1, <3>2, <3>4
    <3> QED
      BY <3>3, <3>4
  <2>6. ReminderTypes'
    <3>1. reminders' \in [Reminders -> ReminderRows]
      BY <2>1, <2>4
    <3>2. occurrences' \in [Reminders -> OccurrenceRows]
      BY <2>1, <2>5
    <3>3. schedule' \in Nat
      BY <1>2, <2>1
    <3> QED
      BY <1>1, <2>2, <2>3, <3>1, <3>2, <3>3 DEF ReminderInv, ReminderTypes
  <2>7. ASSUME NEW r \in edit.kept
        PROVE  r \in Reminders /\ told.made[r] <= told'.overtaken[r]
    <3>1. r \in Reminders /\ r \in Nat
      BY <1>1, <1>2 DEF EditOK, Reminders
    <3>2. told.made[r] \in Nat /\ told.overtaken[r] \in Nat
      BY <1>2, <3>1 DEF Histories
    <3>3. CASE r \in DueUnderway
      BY <1>2, <2>3, <3>1, <3>2, <3>3 DEF OnceOK
    <3>4. CASE r \notin DueUnderway
      <4>1. CASE r <= minute
        <5>1. PICK p \in edit.proofs : p[1] = r
          BY <3>4, <4>1 DEF DueUnderway
        <5>2. occurrences[r].status \in Undecided
          BY <1>5, <5>1 DEF EditStands
        <5> QED
          BY <1>2, <2>3, <3>1, <3>4, <5>2 DEF OnceOK
      <4>2. CASE ~(r <= minute)
        <5>1. r > minute
          BY <1>2, <3>1, <4>2
        <5> QED
          BY <1>2, <2>3, <3>1, <3>4, <5>1 DEF OnceOK
      <4> QED
        BY <4>1, <4>2
    <3> QED
      BY <3>3, <3>4
  <2>8. OnceOK'
    <3> SUFFICES ASSUME NEW r \in Reminders
                 PROVE  /\ told'.made[r] <= 1 + told'.overtaken[r]
                        /\ occurrences'[r].status \in Undecided \/ r > minute
                             => told'.made[r] <= told'.overtaken[r]
                        /\ outbox'[r] # NoRow => r <= minute
      BY <1>1 DEF OnceOK
    <3>1. /\ told'.made[r] \in Nat /\ told'.overtaken[r] \in Nat /\ told.overtaken[r] \in Nat
          /\ told.overtaken[r] <= told'.overtaken[r]
      BY <1>2, <2>3 DEF Histories
    <3>2. outbox'[r] # NoRow => r <= minute
      BY <1>2, <2>2 DEF OnceOK, SameMails
    <3>3. CASE r \in edit.kept
      BY <2>3, <2>7, <3>1, <3>2, <3>3
    <3>4. CASE r \notin edit.kept
      <4>1. /\ told.made[r] <= 1 + told.overtaken[r]
            /\ r > minute => told.made[r] <= told.overtaken[r]
        BY <1>2 DEF OnceOK
      <4> QED
        BY <2>3, <2>5, <3>1, <3>2, <3>4, <4>1
    <3> QED
      BY <3>3, <3>4
  <2>9. SilentOK'
    <3>1. edit.mailed \subseteq edit.kept /\ \A r \in edit.mailed : r \notin told.optedOut
      BY <1>1, <1>2, <1>5 DEF EditOK, EditStands
    <3> QED
      BY <2>3, <2>4, <3>1 DEF SilentOK
  <2>10. \A s \in Scanners : JobOK(jobs[s], outbox', minute)
    BY <2>2, SameMailsKeep DEF ReminderInv
  <2>11. MailOK(outbox', minute) /\ ProviderOK(outbox')
    BY <2>2, SameMailsKeep DEF ReminderInv
  <2>12. GenerationsOK(outbox)'
    <3>1. GenerationsOK(outbox')
      BY <2>2, SameMailsKeep DEF ReminderInv
    <3> SUFFICES ASSUME NEW r \in Reminders
                 PROVE  /\ occurrences'[r].generation <= reminders'[r].generation
                        /\ outbox'[r] # NoRow =>
                             /\ outbox'[r].generation <= occurrences'[r].generation
                             /\ occurrences'[r].status \in Undecided
                                  => outbox'[r].generation < occurrences'[r].generation
      BY DEF GenerationsOK
    <3>2. /\ occurrences[r].generation \in Nat /\ reminders[r].generation \in Nat
          /\ reminders'[r].generation \in Nat
          /\ outbox'[r] # NoRow => outbox'[r].generation \in Nat
      BY <1>2, <2>2, <2>4 DEF OccurrenceRows, ReminderRows, MailRows
    <3>3. /\ occurrences[r].generation <= reminders[r].generation
          /\ outbox'[r] # NoRow => outbox'[r].generation <= occurrences[r].generation
      BY <3>1 DEF GenerationsOK
    <3>4. CASE r \in edit.kept
      BY <2>4, <2>5, <3>2, <3>3, <3>4
    <3>5. CASE r \notin edit.kept
      BY <2>4, <2>5, <3>2, <3>3, <3>5
    <3> QED
      BY <3>4, <3>5
  <2> QED
    BY <1>1, <1>3, <2>6, <2>8, <2>9, <2>10, <2>11, <2>12
       DEF ReminderInv, ProviderOK, KeysOK, ReceivedOnce
<1> QED
  BY <1>4, <1>5

LEMMA MinutesPass ==
  ASSUME ReminderInv, PassMinute
  PROVE  ReminderInv'
<1>1. /\ minute' = minute + 1
      /\ UNCHANGED <<scanExecutor, prefs, reachable, schedule, reminders, occurrences, entries,
                     outbox, provider, jobs, edit, told>>
  BY DEF PassMinute
<1>2. /\ minute \in Nat /\ jobs \in [Scanners -> JobRows]
      /\ outbox \in [Reminders -> MailRows \union {NoRow}]
  BY DEF ReminderInv, ReminderTypes
<1>3. ReminderTypes'
  BY <1>1, <1>2 DEF ReminderInv, ReminderTypes
<1>4. OnceOK'
  <2>1. \A r \in Reminders : r > minute + 1 => r > minute
    BY <1>2 DEF Reminders
  <2>2. \A r \in Reminders : r <= minute => r <= minute + 1
    BY <1>2 DEF Reminders
  <2> QED
    BY <1>1, <1>2, <2>1, <2>2 DEF ReminderInv, OnceOK
<1>5. ASSUME NEW s \in Scanners
      PROVE  JobOK(jobs[s], outbox, minute + 1)
  <2>1. JobOK(jobs[s], outbox, minute) /\ jobs[s] \in JobRows
    BY <1>2 DEF ReminderInv
  <2>2. jobs[s].reminder \in Nat /\ jobs[s].at \in Nat
    BY <2>1 DEF JobRows
  <2> QED
    BY <1>1, <1>2, <2>1, <2>2 DEF JobOK
<1>6. MailOK(outbox, minute + 1)
  <2>1. MailOK(outbox, minute)
    BY DEF ReminderInv
  <2>2. \A r \in Reminders : outbox[r] # NoRow => outbox[r].first \in Nat \union {NoRow}
    BY <1>2 DEF MailRows
  <2> QED
    BY <1>2, <2>1, <2>2 DEF MailOK
<1>7. SilentOK' /\ EditOK'
  BY <1>1 DEF ReminderInv, SilentOK, EditOK
<1> QED
  BY <1>1, <1>3, <1>4, <1>5, <1>6, <1>7
     DEF ReminderInv, ProviderOK, KeysOK, GenerationsOK, ReceivedOnce

\* The other steps touch nothing the invariant relates.
LEMMA OthersKeep ==
  ASSUME ReminderInv, OptIn \/ Resume \/ CloseEntry \/ SwitchScanner \/ UNCHANGED reminderVars
  PROVE  ReminderInv'
<1>1. UNCHANGED <<minute, schedule, reminders, occurrences, outbox, provider, jobs, edit, told>>
  BY DEF OptIn, Resume, CloseEntry, SwitchScanner, reminderVars
<1>2. /\ prefs' \in [version : Nat, email : BOOLEAN] /\ reachable' \in BOOLEAN
      /\ scanExecutor' \in Nat /\ DOMAIN entries' \subseteq Nat
  <2>1. /\ prefs \in [version : Nat, email : BOOLEAN] /\ reachable \in BOOLEAN
        /\ scanExecutor \in Nat /\ DOMAIN entries \subseteq Nat
    BY DEF ReminderInv, ReminderTypes
  <2>2. CASE OptIn
    BY <2>1, <2>2 DEF OptIn
  <2>3. CASE Resume
    BY <2>1, <2>3 DEF Resume
  <2>4. CASE CloseEntry
    BY <2>1, <2>4 DEF CloseEntry
  <2>5. CASE SwitchScanner
    BY <2>1, <2>5 DEF SwitchScanner
  <2>6. CASE UNCHANGED reminderVars
    BY <2>1, <2>6 DEF reminderVars
  <2> QED
    BY <2>2, <2>3, <2>4, <2>5, <2>6
<1>3. ReminderTypes'
  BY <1>1, <1>2 DEF ReminderInv, ReminderTypes
<1> QED
  BY <1>1, <1>3
     DEF ReminderInv, OnceOK, SilentOK, EditOK, MailOK, ProviderOK, KeysOK, GenerationsOK,
         ReceivedOnce

-----------------------------------------------------------------------------
(* Reminders: the theorems. *)

LEMMA RemindersStart == ReminderInit => ReminderInv
<1> SUFFICES ASSUME ReminderInit
             PROVE  ReminderInv
  OBVIOUS
<1>1. PICK last \in Reminders :
        /\ reminders = [r \in Reminders |->
                          [generation |-> 1, active |-> r <= last, email |-> r <= last]]
        /\ occurrences = [r \in Reminders |->
                            [generation |-> 1, fence |-> 0, until |-> 0,
                             status |-> IF r <= last THEN "pending" ELSE "cancelled"]]
  BY DEF ReminderInit
<1>2. reminders \in [Reminders -> ReminderRows]
  <2>1. \A r \in Reminders : (r <= last) \in BOOLEAN
    OBVIOUS
  <2> QED
    BY <1>1, <2>1 DEF ReminderRows
<1>3. occurrences \in [Reminders -> OccurrenceRows]
  BY <1>1 DEF OccurrenceRows, OccurrenceStatuses
<1>4. ReminderTypes
  <2>1. /\ jobs \in [Scanners -> JobRows] /\ outbox \in [Reminders -> MailRows \union {NoRow}]
        /\ provider \in [Reminders -> SUBSET SentMails]
    BY IdleJobOK DEF ReminderInit
  <2>2. told \in Histories
    BY DEF ReminderInit, Histories
  <2>3. DOMAIN entries \subseteq Nat
    BY DEF ReminderInit
  <2> QED
    BY <1>2, <1>3, <2>1, <2>2, <2>3 DEF ReminderInit, ReminderTypes
<1>5. OnceOK /\ SilentOK /\ EditOK /\ MailOK(outbox, minute) /\ ProviderOK(outbox)
  BY DEF ReminderInit, OnceOK, SilentOK, EditOK, MailOK, ProviderOK
<1>7. GenerationsOK(outbox) /\ ReceivedOnce
  BY <1>1 DEF ReminderInit, GenerationsOK, ReceivedOnce
<1>8. KeysOK
  BY IdleJobOK DEF ReminderInit, KeysOK, SameKey
<1>6. \A s \in Scanners : JobOK(jobs[s], outbox, minute)
  BY IdleJobOK DEF ReminderInit
<1> QED
  BY <1>4, <1>5, <1>6, <1>7, <1>8 DEF ReminderInv

LEMMA ReminderStepsKeep ==
  ASSUME ReminderInv, ReminderBounds, ReminderNoRow, [ReminderNext]_reminderVars
  PROVE  ReminderInv'
<1>1. ASSUME NEW s \in Scanners, NEW r \in Reminders, ClaimOccurrence(s, r)
      PROVE  ReminderInv'
  BY <1>1, OccurrencesAreClaimed
<1>2. ASSUME NEW s \in Scanners, NEW r \in Reminders, ClaimMail(s, r)
      PROVE  ReminderInv'
  BY <1>2, MailsAreClaimed
<1>3. ASSUME NEW s \in Scanners, Decide(s)
      PROVE  ReminderInv'
  BY <1>3, DecisionsKeep
<1>4. ASSUME NEW s \in Scanners, Inspect(s)
      PROVE  ReminderInv'
  BY <1>4, InspectionsKeep
<1>5. ASSUME NEW s \in Scanners, Release(s) \/ Answered(s)
      PROVE  ReminderInv'
  BY <1>5, MailsAreReleased
<1>6. ASSUME NEW s \in Scanners, Send(s)
      PROVE  ReminderInv'
  BY <1>6, SendsKeep
<1>7. ASSUME NEW s \in Scanners, CrashScanner(s)
      PROVE  ReminderInv'
  BY <1>7, ScannersCrash
<1>8. CASE OptOut
  BY <1>8, OwnersOptOut
<1>9. CASE Halt
  BY <1>9, RemindersHalt
<1>10. CASE BeginEdit
  BY <1>10, EditsBegin
<1>11. CASE CommitEdit
  BY <1>11, EditsCommit
<1>12. CASE PassMinute
  BY <1>12, MinutesPass
<1>13. CASE OptIn \/ Resume \/ CloseEntry \/ SwitchScanner \/ UNCHANGED reminderVars
  BY <1>13, OthersKeep
<1> QED
  BY <1>1, <1>2, <1>3, <1>4, <1>5, <1>6, <1>7, <1>8, <1>9, <1>10, <1>11, <1>12, <1>13
     DEF ReminderNext

(***************************************************************************)
(* The invariant holds for any reminders, scanners, leases, edits and      *)
(* choices of the owner (scanner.ts, service.ts).                          *)
(***************************************************************************)
THEOREM ReminderInvAlways == ReminderSpec => []ReminderInv
<1>1. ReminderInit => ReminderInv
  BY RemindersStart
<1>2. ReminderInv /\ [ReminderNext]_reminderVars => ReminderInv'
  BY ReminderBounds, ReminderNoRow, ReminderStepsKeep
<1> QED
  BY <1>1, <1>2, PTL DEF ReminderSpec

(***************************************************************************)
(* A reminder is announced once, and once more for each edit that was      *)
(* planned before it was due and recreated it when it was: a second        *)
(* scanner that takes an expired claim over, a crash and an edit that has  *)
(* a proof of it find it decided (scanner.ts materialize, service.ts       *)
(* save).                                                                  *)
(***************************************************************************)
THEOREM RemindersNotifyOnce == ReminderSpec => []NotifiedOnce
<1>1. ReminderInv => NotifiedOnce
  BY DEF ReminderInv, OnceOK, NotifiedOnce
<1> QED
  BY <1>1, ReminderInvAlways, PTL

(***************************************************************************)
(* The recipient gets one mail of an occurrence, whatever answers are lost *)
(* and whoever retries, if the provider remembers a key for as long as the *)
(* scanner retries; another one is a request that was claimed inside this  *)
(* window and arrived after it (scanner.ts deliver).                       *)
(***************************************************************************)
THEOREM RemindersMailOnce == ReminderSpec => []ReceivedOnce
<1>1. ReminderInv => ReceivedOnce
  BY DEF ReminderInv
<1> QED
  BY <1>1, ReminderInvAlways, PTL

(***************************************************************************)
(* What an opt-out silenced is not sent afterwards, though an edit planned *)
(* before it commits later: the schedule's version has moved. What an      *)
(* archive or a restriction cancelled is not sent until an edit recreates  *)
(* it. The recheck at the dispatch boundary finds the reminder inactive or *)
(* without the channel (scanner.ts deliver, notifications.ts               *)
(* savePreferences, service.ts cancelTaskStatements).                      *)
(***************************************************************************)
THEOREM SilencedRemindersAreNotSent == ReminderSpec => SilencedStaysSilent
<1>1. ReminderInv /\ [ReminderNext]_reminderVars
        => [\A s \in Scanners : jobs[s].pc # "send" /\ jobs'[s].pc = "send" =>
              jobs[s].reminder \notin told.optedOut \union told.halted]_reminderVars
  <2> SUFFICES ASSUME ReminderInv, ReminderNext, NEW s \in Scanners,
                      jobs[s].pc # "send", jobs'[s].pc = "send"
               PROVE  jobs[s].reminder \notin told.optedOut \union told.halted
    OBVIOUS
  <2>1. jobs \in [Scanners -> JobRows]
    BY DEF ReminderInv, ReminderTypes
  <2>2. \A t \in Scanners : \A job : jobs' = [jobs EXCEPT ![t] = job] => t = s /\ job.pc = "send"
    BY <2>1
  <2>3. \A t \in Scanners : \A pc : jobs' = [jobs EXCEPT ![t].pc = pc] => t = s /\ pc = "send"
    <3> SUFFICES ASSUME NEW t \in Scanners, NEW pc, jobs' = [jobs EXCEPT ![t].pc = pc]
                 PROVE  t = s /\ pc = "send"
      OBVIOUS
    <3>1. jobs' = [jobs EXCEPT ![t] = [jobs[t] EXCEPT !.pc = pc]]
      BY <2>1
    <3>2. [jobs[t] EXCEPT !.pc = pc].pc = pc
      BY <2>1 DEF JobRows
    <3> QED
      BY <2>2, <3>1, <3>2
  <2>4. IdleJob.pc = "idle"
    BY DEF IdleJob
  <2>5. PICK t \in Scanners : Inspect(t)
    <3>1. ASSUME NEW t \in Scanners, NEW r \in Reminders, ClaimOccurrence(t, r) \/ ClaimMail(t, r)
          PROVE  FALSE
      <4>1. CASE ClaimOccurrence(t, r)
        <5>1. PICK job : jobs' = [jobs EXCEPT ![t] = job] /\ job.pc = "decide"
          BY <4>1 DEF ClaimOccurrence
        <5> QED
          BY <2>2, <5>1
      <4>2. CASE ClaimMail(t, r)
        <5>1. PICK job : jobs' = [jobs EXCEPT ![t] = job] /\ job.pc = "inspect"
          BY <4>2 DEF ClaimMail, IdleJob
        <5> QED
          BY <2>2, <5>1
      <4> QED
        BY <3>1, <4>1, <4>2
    <3>2. ASSUME NEW t \in Scanners, Decide(t) \/ Release(t) \/ Answered(t) \/ CrashScanner(t)
          PROVE  FALSE
      BY <2>2, <2>4, <3>2 DEF Decide, Release, Answered, CrashScanner, Settle
    <3>3. ASSUME NEW t \in Scanners, Send(t)
          PROVE  FALSE
      BY <2>3, <3>3 DEF Send
    <3>4. jobs' # jobs
      OBVIOUS
    <3> QED
      BY <3>1, <3>2, <3>3, <3>4 DEF ReminderNext, OptOut, OptIn, Halt, Resume, BeginEdit,
         CommitEdit, CloseEntry, SwitchScanner, PassMinute
  <2> DEFINE r == jobs[s].reminder
  <2>6. t = s /\ jobs[s].pc = "inspect" /\ Alive(r) /\ reminders[r].email
    BY <2>2, <2>3, <2>4, <2>5 DEF Inspect, Settle
  <2>7. r \in Reminders
    BY <2>6 DEF ReminderInv, JobOK
  <2> QED
    BY <2>6, <2>7 DEF ReminderInv, SilentOK, Alive
<1> QED
  BY <1>1, ReminderInvAlways, PTL DEF ReminderSpec, SilencedStaysSilent

-----------------------------------------------------------------------------
(* Reminders: their types. *)

(***************************************************************************)
(* The entries of missed reminders are numbered, and one of them at most   *)
(* is open: a batch that would open another fails.                         *)
(***************************************************************************)
MissedRows == [count : Nat, last : Nat, open : BOOLEAN]

EntriesOK ==
  /\ \E n \in Nat : DOMAIN entries = 1 .. n
  /\ \A i \in DOMAIN entries : entries[i] \in MissedRows
  /\ \A i, j \in OpenEntries : i = j

ReminderBounded == minute <= MaxMinute /\ scanExecutor \in {0, 1} /\ EntriesOK

\* Entries that are updated: none is opened.
LEMMA EntriesUpdated ==
  ASSUME EntriesOK, NEW k, NEW entry,
         k \in DOMAIN entries => entry \in MissedRows /\ (entry.open => entries[k].open),
         entries' = [entries EXCEPT ![k] = entry]
  PROVE  EntriesOK'
<1>1. DOMAIN entries' = DOMAIN entries
      /\ \A i \in DOMAIN entries : entries'[i] = IF i = k THEN entry ELSE entries[i]
  OBVIOUS
<1>2. OpenEntries' \subseteq OpenEntries
  BY <1>1 DEF OpenEntries
<1>3. \A i \in DOMAIN entries' : entries'[i] \in MissedRows
  BY <1>1 DEF EntriesOK
<1> QED
  BY <1>1, <1>2, <1>3 DEF EntriesOK

\* An entry is opened when none is.
LEMMA EntryOpened ==
  ASSUME EntriesOK, OpenEntries = {}, NEW new, new \in MissedRows,
         entries' = [i \in 1 .. (Cardinality(DOMAIN entries) + 1) |->
                       IF i \in DOMAIN entries THEN entries[i] ELSE new]
  PROVE  EntriesOK'
<1>1. PICK n \in Nat : DOMAIN entries = 1 .. n
  BY DEF EntriesOK
<1>2. Cardinality(DOMAIN entries) = n
  <2>1. Cardinality(1 .. n) = n
    BY FS_Interval
  <2> QED
    BY <1>1, <2>1
<1>3. /\ DOMAIN entries' = 1 .. n + 1
      /\ \A i \in 1 .. n + 1 : entries'[i] = IF i \in 1 .. n THEN entries[i] ELSE new
  BY <1>1, <1>2
<1>4. \A i \in 1 .. n : entries[i] \in MissedRows /\ ~ entries[i].open
  BY <1>1 DEF EntriesOK, OpenEntries
<1>5. OpenEntries' \subseteq {n + 1}
  <2> SUFFICES ASSUME NEW i \in OpenEntries'
               PROVE  i = n + 1
    OBVIOUS
  <2>1. i \in 1 .. n + 1 /\ entries'[i].open
    BY <1>3 DEF OpenEntries
  <2>2. i \notin 1 .. n
    BY <1>3, <1>4, <2>1
  <2> QED
    BY <2>1, <2>2
<1>6. \A i \in DOMAIN entries' : entries'[i] \in MissedRows
  BY <1>3, <1>4
<1> QED
  BY <1>3, <1>5, <1>6 DEF EntriesOK

\* A batch adds to the entry it saw, or opens one when there is none.
LEMMA DecisionsKeepEntries ==
  ASSUME ReminderTypes, EntriesOK, NEW s \in Scanners, Decide(s)
  PROVE  EntriesOK'
<1> DEFINE job == jobs[s]
           new == [count |-> 1 + Cardinality(job.prior), last |-> job.reminder, open |-> TRUE]
<1>0. new \in MissedRows /\ new.count \in Nat /\ job.reminder \in Nat
  <2>1. job.prior \subseteq 1 .. LastReminder /\ job.reminder \in Nat
    BY DEF ReminderTypes, JobRows, Reminders
  <2>2. IsFiniteSet(1 .. LastReminder)
    BY ReminderBounds, FS_Interval
  <2>3. Cardinality(job.prior) \in Nat
    BY <2>1, <2>2, FS_Subset, FS_CardinalityType
  <2> QED
    BY <2>1, <2>3 DEF MissedRows
<1>1. CASE UNCHANGED entries
  BY <1>1 DEF EntriesOK, OpenEntries
<1>2. CASE entries' = EntriesAfter(job) /\ ~ Collides(job)
  <2>1. CASE ~ Shows(job) \/ ~ Late(job.at, job.reminder)
    BY <1>1, <1>2, <2>1 DEF EntriesAfter
  <2>2. CASE Shows(job) /\ Late(job.at, job.reminder) /\ job.entry = 0
    <3>1. OpenEntries = {}
      BY <1>2, <2>2 DEF Collides
    <3>2. entries' = [i \in 1 .. (Cardinality(DOMAIN entries) + 1) |->
                        IF i \in DOMAIN entries THEN entries[i] ELSE new]
      BY <1>2, <2>2 DEF EntriesAfter
    <3> HIDE DEF new
    <3> QED
      BY <1>0, <3>1, <3>2, EntryOpened
  <2>3. CASE Shows(job) /\ Late(job.at, job.reminder) /\ job.entry # 0
    <3> DEFINE k == job.entry
               entry == [entries[k] EXCEPT !.count = @ + new.count, !.last = job.reminder]
    <3>1. entries' = [entries EXCEPT ![k] = entry]
      BY <1>2, <2>3 DEF EntriesAfter
    <3>2. k \in DOMAIN entries => entry \in MissedRows /\ entry.open = entries[k].open
      <4> SUFFICES ASSUME k \in DOMAIN entries
                   PROVE  entry \in MissedRows /\ entry.open = entries[k].open
        OBVIOUS
      <4>1. entries[k] \in MissedRows
        BY DEF EntriesOK
      <4> HIDE DEF new, job
      <4>2. entries[k].count + new.count \in Nat
        BY <1>0, <4>1 DEF MissedRows
      <4> QED
        BY <1>0, <4>1, <4>2 DEF MissedRows
    <3> HIDE DEF entry, k
    <3> QED
      BY <3>1, <3>2, EntriesUpdated
  <2> QED
    BY <2>1, <2>2, <2>3
<1> QED
  BY <1>1, <1>2 DEF Decide

LEMMA ClosedEntry ==
  ASSUME EntriesOK, CloseEntry
  PROVE  EntriesOK'
<1> DEFINE k == OpenEntry
           entry == [entries[k] EXCEPT !.open = FALSE]
<1>1. entries' = [entries EXCEPT ![k] = entry]
  BY DEF CloseEntry
<1>2. k \in DOMAIN entries => entry \in MissedRows /\ ~ entry.open
  <2> SUFFICES ASSUME k \in DOMAIN entries
               PROVE  entry \in MissedRows /\ ~ entry.open
    OBVIOUS
  <2>1. entries[k] \in MissedRows
    BY DEF EntriesOK
  <2> QED
    BY <2>1 DEF MissedRows
<1> HIDE DEF k, entry
<1> QED
  BY <1>1, <1>2, EntriesUpdated

LEMMA RemindersStayBounded ==
  ASSUME ReminderTypes, ReminderBounded, [ReminderNext]_reminderVars
  PROVE  ReminderBounded'
<1>1. minute \in Nat /\ MaxMinute \in Nat
  BY ReminderBounds DEF ReminderTypes
<1>2. ASSUME UNCHANGED <<minute, scanExecutor, entries>>
      PROVE  ReminderBounded'
  BY <1>2 DEF ReminderBounded, EntriesOK, OpenEntries
<1>3. ASSUME NEW s \in Scanners, NEW r \in Reminders, ClaimOccurrence(s, r) \/ ClaimMail(s, r)
      PROVE  ReminderBounded'
  BY <1>2, <1>3 DEF ClaimOccurrence, ClaimMail
<1>4. ASSUME NEW s \in Scanners,
             Inspect(s) \/ Release(s) \/ Send(s) \/ Answered(s) \/ CrashScanner(s)
      PROVE  ReminderBounded'
  BY <1>2, <1>4 DEF Inspect, Release, Send, Answered, CrashScanner
<1>5. ASSUME NEW s \in Scanners, Decide(s)
      PROVE  ReminderBounded'
  BY <1>5, DecisionsKeepEntries DEF Decide, ReminderBounded
<1>6. CASE CloseEntry
  BY <1>6, ClosedEntry DEF CloseEntry, ReminderBounded
<1>7. CASE SwitchScanner \/ PassMinute
  <2>1. entries' = entries /\ scanExecutor' \in {0, 1} /\ minute' <= MaxMinute
    BY <1>1, <1>7 DEF SwitchScanner, PassMinute, ReminderBounded
  <2> QED
    BY <2>1 DEF ReminderBounded, EntriesOK, OpenEntries
<1>8. CASE OptOut \/ OptIn \/ Halt \/ Resume \/ BeginEdit \/ CommitEdit \/ UNCHANGED reminderVars
  BY <1>2, <1>8 DEF OptOut, OptIn, Halt, Resume, BeginEdit, CommitEdit, reminderVars
<1> QED
  BY <1>3, <1>4, <1>5, <1>6, <1>7, <1>8 DEF ReminderNext

(***************************************************************************)
(* The schedule, the occurrences, the mails and the jobs keep their types, *)
(* and one entry of missed reminders at most is open, whichever jobs add   *)
(* to it or open one, and whenever the owner reads it (scanner.ts          *)
(* materialize, notifications_unread_missed).                              *)
(***************************************************************************)
THEOREM ReminderTypeCorrect == ReminderSpec => []ReminderTypeOK
<1>1. ReminderInit => ReminderBounded
  <2> SUFFICES ASSUME ReminderInit
               PROVE  ReminderBounded
    OBVIOUS
  <2>1. minute = 0 /\ scanExecutor = 0 /\ entries = <<>> /\ MaxMinute \in Nat
    BY ReminderBounds DEF ReminderInit
  <2>2. DOMAIN entries = 1 .. 0 /\ 1 .. 0 = {}
    BY <2>1
  <2> QED
    BY <2>1, <2>2 DEF ReminderBounded, EntriesOK, OpenEntries
<1>2. ReminderInv /\ ReminderBounded /\ [ReminderNext]_reminderVars => ReminderBounded'
  BY RemindersStayBounded DEF ReminderInv
<1>3. ReminderInv /\ ReminderBounded => ReminderTypeOK
  <2> SUFFICES ASSUME ReminderTypes, ReminderBounded
               PROVE  ReminderTypeOK
    BY DEF ReminderInv
  <2>1. Cardinality(OpenEntries) <= 1
    <3>1. CASE OpenEntries = {}
      BY <3>1, FS_EmptySet
    <3>2. CASE OpenEntries # {}
      <4>1. PICK i \in OpenEntries : TRUE
        BY <3>2
      <4>2. \A j, k \in OpenEntries : j = k
        BY DEF ReminderBounded, EntriesOK
      <4>3. OpenEntries = {i}
        BY <4>1, <4>2
      <4>4. Cardinality({i}) = 1
        BY FS_Singleton
      <4> QED
        BY <4>3, <4>4
    <3> QED
      BY <3>1, <3>2
  <2>2. minute \in 0 .. MaxMinute /\ scanExecutor \in {0, 1}
    BY ReminderBounds DEF ReminderTypes, ReminderBounded
  <2>3. ASSUME NEW r \in Reminders
        PROVE  /\ occurrences[r].status \in OccurrenceStatuses
               /\ outbox[r] = NoRow \/ outbox[r].status \in MailStatuses
    BY DEF ReminderTypes, OccurrenceRows, MailRows
  <2>4. \A s \in Scanners : jobs[s].pc \in JobPcs
    BY DEF ReminderTypes, JobRows
  <2> QED
    BY <2>1, <2>2, <2>3, <2>4
       DEF ReminderTypeOK, ReminderTypes, ReminderRows, OccurrenceStatuses, MailStatuses, JobPcs
<1> QED
  BY <1>1, <1>2, <1>3, ReminderInvAlways, PTL DEF ReminderSpec
=============================================================================
