--------------------------- MODULE Account_proofs ---------------------------
(***************************************************************************)
(* Theorems about OtpSignIn, OAuthGrants, VaultAccess, SharedArtifacts and *)
(* AccountPurge, and about MCAccount, which has them side by side: for any *)
(* number of requests, readers, callers and processes, any limits, windows *)
(* and lifetimes, all contributors, objects and batches.                   *)
(***************************************************************************)
EXTENDS MCAccount, ExecutionDispatch_proofs, FiniteSetTheorems, TLAPS

-----------------------------------------------------------------------------
(* Tables: sequences of rows. *)

\* A table whose rows are each replaced by a row.
LEMMA RowsUpdated ==
  ASSUME NEW Rows, NEW table \in Seq(Rows), NEW new \in [DOMAIN table -> Rows]
  PROVE  new \in Seq(Rows) /\ DOMAIN new = DOMAIN table
<1>1. Len(table) \in Nat /\ DOMAIN table = 1 .. Len(table)
  OBVIOUS
<1> QED
  BY <1>1

\* One row of a table is replaced.
LEMMA RowReplaced ==
  ASSUME NEW Rows, NEW table \in Seq(Rows), NEW k \in DOMAIN table, NEW row \in Rows,
         NEW new, new = [table EXCEPT ![k] = row]
  PROVE  /\ new \in Seq(Rows) /\ Len(new) = Len(table) /\ DOMAIN new = DOMAIN table
         /\ new[k] = row /\ \A j \in DOMAIN table \ {k} : new[j] = table[j]
OBVIOUS

\* A row is inserted.
LEMMA RowAppended ==
  ASSUME NEW Rows, NEW table \in Seq(Rows), NEW row \in Rows, NEW new, new = Append(table, row)
  PROVE  /\ new \in Seq(Rows) /\ Len(new) = Len(table) + 1
         /\ new[Len(table) + 1] = row /\ \A j \in DOMAIN table : new[j] = table[j]
OBVIOUS

-----------------------------------------------------------------------------
(* Sign-in codes: the inductive invariant. *)

CodeRows == [created : Nat, attempts : Nat, state : {"live", "superseded", "used", "deleted"}]
LimitRows == [row : BOOLEAN, hourStart : Nat, hourSent : Nat, dayStart : Nat, daySent : Nat,
              failStart : Nat \cup {NotOpen}, failures : Nat, lockedUntil : Nat]
OtpCallRows == [at : {"idle", "send", "mail", "guess"}, now : Nat, code : Nat, right : BOOLEAN]
GuessRows == [code : Nat, at : Nat, right : BOOLEAN, newest : BOOLEAN]

OtpRecords ==
  /\ otpNow \in Nat /\ codes \in Seq(CodeRows) /\ limit \in LimitRows
  /\ otpCall \in [OtpCallers -> OtpCallRows] /\ guesses \in Seq(GuessRows)
  /\ \A c \in OtpCallers :
       /\ otpCall[c].now <= otpNow
       /\ otpCall[c].at \in {"mail", "guess"} => otpCall[c].code \in DOMAIN codes

GuessesOf(k) == {i \in DOMAIN guesses : guesses[i].code = k}

\* A code counts the guesses it was given, and a right one was the last of them.
CodesInv ==
  /\ \A k \in DOMAIN codes :
       /\ IsFiniteSet(GuessesOf(k))
       /\ codes[k].attempts = Cardinality(GuessesOf(k)) /\ codes[k].attempts <= MaxGuesses
       /\ codes[k].state = "live" => k = Len(codes)
  /\ \A i \in DOMAIN guesses :
       /\ guesses[i].code \in DOMAIN codes /\ guesses[i].newest
       /\ guesses[i].right => /\ codes[guesses[i].code].state = "used"
                              /\ \A j \in DOMAIN guesses :
                                   guesses[j].code = guesses[i].code => j <= i

\* A day has passed since one of the failures since the last success.
DayOver ==
  \E m \in DOMAIN guesses : Wrong(m, Len(guesses)) /\ guesses[m].at + Day <= otpNow

\* Nothing failed since the last success.
NothingFailed == limit.failStart = NotOpen /\ limit.failures = 0 /\ limit.lockedUntil = 0

(***************************************************************************)
(* Until a day has passed since a failure, the row of the address counts   *)
(* all failures since the last success, and is locked once they are as     *)
(* many as a day allows.                                                   *)
(***************************************************************************)
FailuresCounted ==
  LET n == Len(guesses) IN
  /\ n = 0 \/ guesses[n].right => NothingFailed
  /\ n > 0 /\ ~guesses[n].right =>
       /\ \E m \in DOMAIN guesses : Wrong(m, n) /\ limit.failStart = guesses[m].at
       /\ \A m \in DOMAIN guesses : Wrong(m, n) => n - m + 1 <= limit.failures
       /\ limit.failures >= FailuresPerDay => limit.lockedUntil = guesses[n].at + Lockout

AddressInv ==
  /\ ~limit.row => NothingFailed /\ codes = <<>>
  /\ DayOver \/ FailuresCounted

LockedOut(i, j) ==
  \/ \E n \in i .. j - 1 : guesses[n + 1].at >= guesses[n].at + Lockout
  \/ \E m \in 1 .. j - 1 : Wrong(m, j) /\ guesses[m].at + Day <= otpNow

LockoutInv ==
  \A i, j \in DOMAIN guesses : j = i + FailuresPerDay /\ Wrong(i, j) => LockedOut(i, j)

OtpInv == OtpRecords /\ CodesInv /\ AddressInv /\ LockoutInv

-----------------------------------------------------------------------------
(* Sign-in codes: the steps. *)

LEMMA IdleOtpCall ==
  NoOtpCall \in OtpCallRows /\ NoOtpCall.at = "idle" /\ NoOtpCall.now = 0
BY DEF NoOtpCall, OtpCallRows

\* Time passes: what was locked out remains so.
LEMMA GuessesStay ==
  ASSUME OtpInv, UNCHANGED guesses, otpNow' \in Nat, otpNow <= otpNow'
  PROVE  LockoutInv' /\ (DayOver => DayOver')
<1>1. \A m \in DOMAIN guesses : guesses[m].at \in Nat
  <2>1. \A m \in DOMAIN guesses : guesses[m] \in GuessRows
    BY DEF OtpInv, OtpRecords
  <2> QED
    BY <2>1 DEF GuessRows
<1>2. otpNow \in Nat /\ Day \in Nat
  BY OtpAssumption DEF OtpInv, OtpRecords, OtpAssumption
<1>3. \A m \in DOMAIN guesses : guesses[m].at + Day <= otpNow => guesses[m].at + Day <= otpNow'
  BY <1>1, <1>2
<1>4. DayOver => DayOver'
  BY <1>3 DEF DayOver, Wrong
<1>5. ASSUME NEW i \in DOMAIN guesses, NEW j \in DOMAIN guesses, LockedOut(i, j)
      PROVE  LockedOut(i, j)'
  <2>1. guesses \in Seq(GuessRows)
    BY DEF OtpInv, OtpRecords
  <2>2. \A m \in 1 .. j - 1 : m \in DOMAIN guesses
    BY <2>1
  <2> QED
    BY <1>3, <1>5, <2>2 DEF LockedOut, Wrong
<1>6. LockoutInv'
  BY <1>5 DEF OtpInv, LockoutInv, Wrong
<1> QED
  BY <1>4, <1>6

(***************************************************************************)
(* Steps that evaluate no guess: codes may be added, superseded or         *)
(* deleted, and the limit may forget failures a day after the first.       *)
(***************************************************************************)
LEMMA NothingGuessed ==
  ASSUME OtpInv, OtpRecords', UNCHANGED guesses, otpNow <= otpNow',
         CodesInv', ~limit'.row => NothingFailed' /\ codes' = <<>>,
         \/ UNCHANGED <<limit.failStart, limit.failures, limit.lockedUntil>>
         \/ DayOver
  PROVE  OtpInv'
<1>1. LockoutInv' /\ (DayOver => DayOver')
  BY GuessesStay DEF OtpRecords
<1>2. CASE DayOver
  BY <1>1, <1>2 DEF OtpInv, AddressInv
<1>3. CASE ~DayOver
  <2>1. FailuresCounted'
    BY <1>3 DEF OtpInv, AddressInv, FailuresCounted, NothingFailed, Wrong
  <2> QED
    BY <1>1, <2>1 DEF OtpInv, AddressInv
<1> QED
  BY <1>2, <1>3

LEMMA RequestOnly ==
  ASSUME OtpInv, NEW c \in OtpCallers, NEW row \in OtpCallRows, row.now <= otpNow,
         row.at \in {"mail", "guess"} => row.code \in DOMAIN codes,
         otpCall' = [otpCall EXCEPT ![c] = row],
         UNCHANGED <<otpNow, codes, limit, guesses>>
  PROVE  OtpInv'
<1>1. otpNow \in Nat /\ otpCall \in [OtpCallers -> OtpCallRows]
  BY DEF OtpInv, OtpRecords
<1>2. OtpRecords'
  BY <1>1 DEF OtpInv, OtpRecords
<1>3. CodesInv'
  BY DEF OtpInv, CodesInv, GuessesOf
<1> QED
  BY <1>1, <1>2, <1>3, NothingGuessed DEF OtpInv, AddressInv, NothingFailed

LEMMA RequestsAndTicksKeep ==
  ASSUME OtpInv,
         \/ \E c \in OtpCallers :
              \/ RequestCode(c) \/ OtpCallEnds(c)
              \/ \E k \in DOMAIN codes, right \in BOOLEAN : Guess(c, k, right)
         \/ OtpTick
  PROVE  OtpInv'
<1>1. otpNow \in Nat /\ codes \in Seq(CodeRows)
  BY DEF OtpInv, OtpRecords
<1>2. ASSUME NEW c \in OtpCallers, RequestCode(c)
      PROVE  OtpInv'
  <2> DEFINE row == [NoOtpCall EXCEPT !.at = "send", !.now = otpNow]
  <2>1. row \in OtpCallRows /\ row.at = "send" /\ row.now = otpNow
    BY <1>1 DEF NoOtpCall, OtpCallRows
  <2>2. otpCall' = [otpCall EXCEPT ![c] = row] /\ UNCHANGED <<otpNow, codes, limit, guesses>>
    BY <1>2 DEF RequestCode
  <2> HIDE DEF row
  <2>3. row.now <= otpNow
    BY <1>1, <2>1
  <2> QED
    BY <2>1, <2>2, <2>3, RequestOnly
<1>3. ASSUME NEW c \in OtpCallers, OtpCallEnds(c)
      PROVE  OtpInv'
  <2>1. 0 <= otpNow
    BY <1>1
  <2> QED
    BY <1>3, <2>1, IdleOtpCall, RequestOnly DEF OtpCallEnds
<1>4. ASSUME NEW c \in OtpCallers, NEW k \in DOMAIN codes, NEW right \in BOOLEAN,
             Guess(c, k, right)
      PROVE  OtpInv'
  <2> DEFINE row == [at |-> "guess", now |-> otpNow, code |-> k, right |-> right]
  <2>1. row \in OtpCallRows /\ row.code = k /\ row.now = otpNow
    BY <1>1 DEF OtpCallRows
  <2>2. otpCall' = [otpCall EXCEPT ![c] = row] /\ UNCHANGED <<otpNow, codes, limit, guesses>>
    BY <1>4 DEF Guess
  <2> HIDE DEF row
  <2>3. row.now <= otpNow
    BY <1>1, <2>1
  <2> QED
    BY <2>1, <2>2, <2>3, RequestOnly
<1>5. CASE OtpTick
  <2>1. otpNow' = otpNow + 1 /\ UNCHANGED <<codes, limit, otpCall, guesses>>
    BY <1>5 DEF OtpTick
  <2>2. otpNow' \in Nat /\ otpNow <= otpNow'
    BY <1>1, <2>1
  <2>3. \A c \in OtpCallers : otpCall[c].now <= otpNow'
    <3>1. otpCall \in [OtpCallers -> OtpCallRows]
      BY DEF OtpInv, OtpRecords
    <3>2. \A c \in OtpCallers : otpCall[c].now \in Nat /\ otpCall[c].now <= otpNow
      BY <3>1 DEF OtpInv, OtpRecords, OtpCallRows
    <3> QED
      BY <1>1, <2>2, <3>2
  <2>4. OtpRecords'
    BY <2>1, <2>2, <2>3 DEF OtpInv, OtpRecords
  <2>5. CodesInv'
    BY <2>1 DEF OtpInv, CodesInv, GuessesOf
  <2> QED
    BY <2>1, <2>2, <2>4, <2>5, NothingGuessed DEF OtpInv, AddressInv, NothingFailed
<1> QED
  BY <1>2, <1>3, <1>4, <1>5

\* Rows of codes that only change their state, and never from used.
LEMMA CodesStay ==
  ASSUME OtpInv, UNCHANGED guesses, codes' \in Seq(CodeRows),
         Len(codes) <= Len(codes'),
         \A k \in DOMAIN codes :
           /\ codes'[k].attempts = codes[k].attempts
           /\ codes[k].state = "used" => codes'[k].state = "used",
         \A k \in DOMAIN codes' : codes'[k].state = "live" => k = Len(codes'),
         \A k \in DOMAIN codes' \ DOMAIN codes : codes'[k].attempts = 0
  PROVE  CodesInv'
<1>1. /\ codes \in Seq(CodeRows) /\ MaxGuesses \in Nat
      /\ DOMAIN codes = 1 .. Len(codes) /\ DOMAIN codes' = 1 .. Len(codes')
      /\ Len(codes) \in Nat /\ Len(codes') \in Nat
  BY OtpAssumption DEF OtpInv, OtpRecords, OtpAssumption
<1>2. DOMAIN codes \subseteq DOMAIN codes'
  BY <1>1
<1>3. \A k : GuessesOf(k)' = GuessesOf(k)
  BY DEF GuessesOf
<1>4. \A k \in DOMAIN codes' \ DOMAIN codes : GuessesOf(k) = {}
  BY DEF OtpInv, CodesInv, GuessesOf
<1>5. IsFiniteSet({}) /\ Cardinality({}) = 0 /\ 0 <= MaxGuesses
  BY <1>1, FS_EmptySet
<1>6. ASSUME NEW k \in DOMAIN codes'
      PROVE  /\ IsFiniteSet(GuessesOf(k)) /\ codes'[k].attempts = Cardinality(GuessesOf(k))
             /\ codes'[k].attempts <= MaxGuesses
  <2>1. CASE k \in DOMAIN codes
    BY <2>1 DEF OtpInv, CodesInv
  <2>2. CASE k \notin DOMAIN codes
    BY <1>4, <1>5, <1>6, <2>2
  <2> QED
    BY <2>1, <2>2
<1>7. \A i \in DOMAIN guesses :
        /\ guesses[i].code \in DOMAIN codes' /\ guesses[i].newest
        /\ guesses[i].right =>
             /\ codes'[guesses[i].code].state = "used"
             /\ \A j \in DOMAIN guesses : guesses[j].code = guesses[i].code => j <= i
  BY <1>2 DEF OtpInv, CodesInv
<1> QED
  BY <1>3, <1>6, <1>7 DEF CodesInv

LEMMA MailFailsKeeps ==
  ASSUME OtpInv, NEW c \in OtpCallers, MailFails(c)
  PROVE  OtpInv'
<1> DEFINE k == otpCall[c].code
           row == [codes[k] EXCEPT !.state = IF @ = "used" THEN @ ELSE "deleted"]
<1>1. /\ codes \in Seq(CodeRows) /\ otpNow \in Nat
      /\ otpCall \in [OtpCallers -> OtpCallRows]
  BY DEF OtpInv, OtpRecords
<1>2. k \in DOMAIN codes
  BY DEF OtpInv, OtpRecords, MailFails
<1>3. codes[k] \in CodeRows
  BY <1>1, <1>2
<1>4. /\ row \in CodeRows /\ row.attempts = codes[k].attempts /\ row.state # "live"
      /\ codes[k].state = "used" => row.state = "used"
  BY <1>3 DEF CodeRows
<1>5. /\ codes' = [codes EXCEPT ![k] = row]
      /\ otpCall' = [otpCall EXCEPT ![c] = NoOtpCall] /\ UNCHANGED <<otpNow, limit, guesses>>
  BY DEF MailFails
<1> HIDE DEF k, row
<1>6. /\ codes' \in Seq(CodeRows) /\ Len(codes') = Len(codes) /\ DOMAIN codes' = DOMAIN codes
      /\ codes'[k] = row /\ \A j \in DOMAIN codes \ {k} : codes'[j] = codes[j]
  BY <1>1, <1>2, <1>4, <1>5, RowReplaced
<1>7. Len(codes) <= Len(codes')
  BY <1>1, <1>6
<1>8. \A j \in DOMAIN codes :
        /\ codes'[j].attempts = codes[j].attempts
        /\ codes[j].state = "used" => codes'[j].state = "used"
  BY <1>4, <1>6
<1>9. \A j \in DOMAIN codes' : codes'[j].state = "live" => j = Len(codes')
  BY <1>4, <1>6 DEF OtpInv, CodesInv
<1>10. CodesInv'
  BY <1>5, <1>6, <1>7, <1>8, <1>9, CodesStay
<1>11. OtpRecords'
  <2>1. otpCall' \in [OtpCallers -> OtpCallRows]
    BY <1>1, <1>5, IdleOtpCall
  <2>2. \A d \in OtpCallers : otpCall'[d] = IF d = c THEN NoOtpCall ELSE otpCall[d]
    BY <1>1, <1>5
  <2>3. 0 <= otpNow
    BY <1>1
  <2> QED
    BY <1>1, <1>5, <1>6, <2>1, <2>2, <2>3, IdleOtpCall DEF OtpInv, OtpRecords
<1>12. ~limit'.row => NothingFailed' /\ codes' = <<>>
  <2>1. ~limit.row => FALSE
    BY <1>2 DEF OtpInv, AddressInv
  <2> QED
    BY <1>5, <2>1
<1>13. otpNow <= otpNow'
  BY <1>1, <1>5
<1> QED
  BY <1>5, <1>10, <1>11, <1>12, <1>13, NothingGuessed

(***************************************************************************)
(* A window that ends is reset a day after a failure: what the row forgets *)
(* then, it may forget.                                                    *)
(***************************************************************************)
LEMMA ResetsForgetOldFailures ==
  ASSUME OtpInv, NEW now \in Nat, now <= otpNow
  PROVE  LET l == WindowsReset(limit, now) IN
         /\ l \in LimitRows /\ l.row = limit.row
         /\ \/ DayOver
            \/ /\ l.failStart = limit.failStart /\ l.failures = limit.failures
               /\ l.lockedUntil = limit.lockedUntil
         /\ ~limit.row => /\ l.failStart = limit.failStart /\ l.failures = limit.failures
                          /\ l.lockedUntil = limit.lockedUntil
<1> DEFINE l == WindowsReset(limit, now)
           failed == limit.failStart # NotOpen /\ Ended(limit.failStart, Day, now)
                     /\ limit.lockedUntil <= now
<1>1. limit \in LimitRows /\ otpNow \in Nat /\ Day \in Nat
  BY OtpAssumption DEF OtpInv, OtpRecords, OtpAssumption
<1>2. /\ l \in LimitRows /\ l.row = limit.row
      /\ ~failed => /\ l.failStart = limit.failStart /\ l.failures = limit.failures
                    /\ l.lockedUntil = limit.lockedUntil
  BY <1>1 DEF WindowsReset, LimitRows
<1>3. ASSUME failed, ~DayOver
      PROVE  FALSE
  <2>1. FailuresCounted
    BY <1>3 DEF OtpInv, AddressInv
  <2>2. PICK m \in DOMAIN guesses : Wrong(m, Len(guesses)) /\ limit.failStart = guesses[m].at
    <3>1. guesses \in Seq(GuessRows) /\ Len(guesses) \in Nat
      BY DEF OtpInv, OtpRecords
    <3> QED
      BY <1>3, <2>1, <3>1 DEF FailuresCounted, NothingFailed
  <2>3. guesses[m].at \in Nat
    <3>1. guesses[m] \in GuessRows
      BY DEF OtpInv, OtpRecords
    <3> QED
      BY <3>1 DEF GuessRows
  <2>4. guesses[m].at + Day <= otpNow
    BY <1>1, <1>3, <2>2, <2>3 DEF Ended
  <2> QED
    BY <1>3, <2>2, <2>4 DEF DayOver
<1>4. ~limit.row => ~failed
  BY DEF OtpInv, AddressInv, NothingFailed
<1> QED
  BY <1>2, <1>3, <1>4

LEMMA SendKeeps ==
  ASSUME OtpInv, NEW c \in OtpCallers, SendApplies(c)
  PROVE  OtpInv'
<1> DEFINE now == otpCall[c].now
           l == WindowsReset(limit, now)
<1>1. /\ codes \in Seq(CodeRows) /\ otpNow \in Nat /\ Len(codes) \in Nat
      /\ DOMAIN codes = 1 .. Len(codes) /\ otpCall \in [OtpCallers -> OtpCallRows]
  BY DEF OtpInv, OtpRecords
<1>2. now \in Nat /\ now <= otpNow /\ otpCall[c] \in OtpCallRows
  BY <1>1 DEF OtpInv, OtpRecords, OtpCallRows
<1>3. /\ l \in LimitRows /\ l.row = limit.row
      /\ \/ DayOver
         \/ /\ l.failStart = limit.failStart /\ l.failures = limit.failures
            /\ l.lockedUntil = limit.lockedUntil
      /\ ~limit.row => /\ l.failStart = limit.failStart /\ l.failures = limit.failures
                       /\ l.lockedUntil = limit.lockedUntil
  BY <1>2, ResetsForgetOldFailures
<1>4. UNCHANGED <<otpNow, guesses>> /\ otpNow <= otpNow'
  BY <1>1 DEF SendApplies
<1>5. CASE SendAllowed(l, now)
  <2> DEFINE new == [created |-> now, attempts |-> 0, state |-> "live"]
             row == [otpCall[c] EXCEPT !.at = "mail", !.code = Len(codes) + 1]
  <2>1. /\ codes' = Append(Superseded, new) /\ limit' = Counted(l, now)
        /\ otpCall' = [otpCall EXCEPT ![c] = row]
    BY <1>5 DEF SendApplies
  <2>2. new \in CodeRows /\ new.attempts = 0
    BY <1>2 DEF CodeRows
  <2>3. /\ row \in OtpCallRows /\ row.now = now /\ row.code = Len(codes) + 1
    <3>1. \A r \in OtpCallRows, k \in Nat :
            LET at == [r EXCEPT !.at = "mail", !.code = k] IN
            at \in OtpCallRows /\ at.now = r.now /\ at.code = k
      BY DEF OtpCallRows
    <3>2. Len(codes) + 1 \in Nat
      BY <1>1
    <3> QED
      BY <1>2, <3>1, <3>2
  <2>4. /\ Superseded \in Seq(CodeRows) /\ DOMAIN Superseded = DOMAIN codes
        /\ \A k \in DOMAIN codes :
             /\ Superseded[k].attempts = codes[k].attempts /\ Superseded[k].state # "live"
             /\ codes[k].state = "used" => Superseded[k].state = "used"
    <3>1. \A k \in DOMAIN codes : codes[k] \in CodeRows
      BY <1>1
    <3>2. \A k \in DOMAIN codes :
            /\ Superseded[k] \in CodeRows
            /\ Superseded[k].attempts = codes[k].attempts /\ Superseded[k].state # "live"
            /\ codes[k].state = "used" => Superseded[k].state = "used"
      BY <3>1 DEF Superseded, CodeRows
    <3>3. Superseded \in [DOMAIN codes -> CodeRows]
      BY <3>2 DEF Superseded
    <3> QED
      BY <1>1, <3>2, <3>3, RowsUpdated
  <2>5. Len(Superseded) = Len(codes)
    BY <1>1, <2>4
  <2> HIDE DEF new, row
  <2>6. /\ codes' \in Seq(CodeRows) /\ Len(codes') = Len(codes) + 1
        /\ codes'[Len(codes) + 1] = new /\ \A j \in DOMAIN codes : codes'[j] = Superseded[j]
    BY <2>1, <2>2, <2>4, <2>5, RowAppended
  <2>7. DOMAIN codes' = 1 .. Len(codes) + 1 /\ Len(codes) + 1 \in DOMAIN codes'
    BY <1>1, <2>6
  <2>8. Len(codes) <= Len(codes')
    BY <1>1, <2>6
  <2>9. \A k \in DOMAIN codes' : k \in DOMAIN codes \/ k = Len(codes) + 1
    BY <1>1, <2>7
  <2>10. CodesInv'
    <3>1. \A k \in DOMAIN codes :
            /\ codes'[k].attempts = codes[k].attempts
            /\ codes[k].state = "used" => codes'[k].state = "used"
      BY <2>4, <2>6
    <3>2. \A k \in DOMAIN codes' : codes'[k].state = "live" => k = Len(codes')
      BY <2>4, <2>6, <2>9
    <3>3. \A k \in DOMAIN codes' \ DOMAIN codes : codes'[k].attempts = 0
      BY <2>2, <2>6, <2>9
    <3> QED
      BY <1>4, <2>6, <2>8, <3>1, <3>2, <3>3, CodesStay
  <2>11. /\ limit' \in LimitRows /\ limit'.row
         /\ \/ DayOver
            \/ UNCHANGED <<limit.failStart, limit.failures, limit.lockedUntil>>
    <3>1. CASE l.row
      <4>1. /\ Counted(l, now) \in LimitRows /\ Counted(l, now).row
            /\ Counted(l, now).failStart = l.failStart
            /\ Counted(l, now).failures = l.failures
            /\ Counted(l, now).lockedUntil = l.lockedUntil
        <5>1. Counted(l, now) = [l EXCEPT !.hourSent = @ + 1, !.daySent = @ + 1]
          BY <3>1 DEF Counted
        <5>2. l \in LimitRows
          BY <1>3
        <5> HIDE DEF l, now
        <5>3. ASSUME NEW r \in LimitRows
              PROVE  LET up == [r EXCEPT !.hourSent = @ + 1, !.daySent = @ + 1] IN
                     /\ up \in LimitRows /\ up.row = r.row /\ up.failStart = r.failStart
                     /\ up.failures = r.failures /\ up.lockedUntil = r.lockedUntil
          <6> DEFINE hour == r.hourSent + 1
                     day == r.daySent + 1
                     up == [r EXCEPT !.hourSent = hour, !.daySent = day]
          <6>1. hour \in Nat /\ day \in Nat
            BY DEF LimitRows
          <6> HIDE DEF hour, day
          <6>2. up \in LimitRows
            BY <6>1 DEF LimitRows
          <6>3. /\ up.row = r.row /\ up.failStart = r.failStart
                /\ up.failures = r.failures /\ up.lockedUntil = r.lockedUntil
            BY DEF LimitRows
          <6> QED
            BY <6>2, <6>3 DEF hour, day
        <5> QED
          BY <3>1, <5>1, <5>2, <5>3
      <4> QED
        BY <1>3, <2>1, <4>1
    <3>2. CASE ~l.row
      <4>1. /\ Counted(l, now) \in LimitRows /\ Counted(l, now).row
            /\ Counted(l, now).failStart = NotOpen
            /\ Counted(l, now).failures = 0
            /\ Counted(l, now).lockedUntil = 0
        <5> HIDE DEF l
        <5> QED
          BY <1>2, <3>2 DEF Counted, LimitRows, NoLimit, NotOpen
      <4>2. NothingFailed
        BY <1>3, <3>2 DEF OtpInv, AddressInv
      <4> QED
        BY <2>1, <4>1, <4>2 DEF NothingFailed
    <3> QED
      BY <3>1, <3>2
  <2>12. OtpRecords'
    <3>1. otpCall' \in [OtpCallers -> OtpCallRows]
      BY <1>1, <2>1, <2>3
    <3>2. \A d \in OtpCallers : otpCall'[d] = IF d = c THEN row ELSE otpCall[d]
      BY <1>1, <2>1
    <3>3. DOMAIN codes \subseteq DOMAIN codes'
      BY <1>1, <2>7
    <3> QED
      BY <1>2, <1>4, <2>3, <2>6, <2>7, <2>11, <3>1, <3>2, <3>3 DEF OtpInv, OtpRecords
  <2> QED
    BY <1>4, <2>10, <2>11, <2>12, NothingGuessed
<1>6. CASE ~SendAllowed(l, now)
  <2>1. /\ limit' = l /\ otpCall' = [otpCall EXCEPT ![c] = NoOtpCall] /\ UNCHANGED codes
    BY <1>6 DEF SendApplies
  <2>2. OtpRecords'
    <3>1. otpCall' \in [OtpCallers -> OtpCallRows]
      BY <1>1, <2>1, IdleOtpCall
    <3>2. \A d \in OtpCallers : otpCall'[d] = IF d = c THEN NoOtpCall ELSE otpCall[d]
      BY <1>1, <2>1
    <3>3. 0 <= otpNow
      BY <1>1
    <3> QED
      BY <1>3, <1>4, <2>1, <3>1, <3>2, <3>3, IdleOtpCall DEF OtpInv, OtpRecords
  <2>3. CodesInv'
    BY <1>4, <2>1 DEF OtpInv, CodesInv, GuessesOf
  <2>4. ~limit'.row => NothingFailed' /\ codes' = <<>>
    BY <1>3, <2>1 DEF OtpInv, AddressInv, NothingFailed
  <2>5. \/ DayOver
        \/ UNCHANGED <<limit.failStart, limit.failures, limit.lockedUntil>>
    BY <1>3, <2>1
  <2> QED
    BY <1>4, <2>2, <2>3, <2>4, <2>5, NothingGuessed
<1> QED
  BY <1>5, <1>6

(***************************************************************************)
(* A guess that is evaluated: the newest code counts it, and the row of    *)
(* the address counts it when it is wrong and forgets all when it is       *)
(* right.                                                                  *)
(***************************************************************************)
GuessMade(g, k, now) ==
  /\ k \in DOMAIN codes /\ k = Len(codes) /\ codes[k].state = "live"
  /\ codes[k].attempts < MaxGuesses
  /\ now \in Nat /\ now <= otpNow /\ limit.lockedUntil <= now /\ limit.row
  /\ g \in GuessRows /\ g.code = k /\ g.at = now /\ g.newest
  /\ guesses' = Append(guesses, g)
  /\ codes' = [codes EXCEPT ![k] = [codes[k] EXCEPT !.attempts = @ + 1,
                                      !.state = IF g.right THEN "used" ELSE @]]
  /\ limit' = IF g.right THEN Cleared(limit) ELSE Failed(limit, now)
  /\ UNCHANGED otpNow

LEMMA GuessesGrow ==
  ASSUME OtpInv, NEW g, NEW k, NEW now, GuessMade(g, k, now)
  PROVE  /\ Len(guesses) \in Nat /\ DOMAIN guesses = 1 .. Len(guesses)
         /\ guesses' \in Seq(GuessRows) /\ Len(guesses') = Len(guesses) + 1
         /\ DOMAIN guesses' = 1 .. Len(guesses) + 1
         /\ guesses'[Len(guesses) + 1] = g
         /\ \A i \in DOMAIN guesses : guesses'[i] = guesses[i]
         /\ \A m \in DOMAIN guesses, j \in DOMAIN guesses : Wrong(m, j) <=> Wrong(m, j)'
         /\ ~g.right => \A m \in DOMAIN guesses :
              Wrong(m, Len(guesses)) <=> Wrong(m, Len(guesses))'
<1>1. guesses \in Seq(GuessRows)
  BY DEF OtpInv, OtpRecords
<1>2. Len(guesses) \in Nat /\ DOMAIN guesses = 1 .. Len(guesses)
  BY <1>1
<1>3. /\ guesses' \in Seq(GuessRows) /\ Len(guesses') = Len(guesses) + 1
      /\ guesses'[Len(guesses) + 1] = g
      /\ \A i \in DOMAIN guesses : guesses'[i] = guesses[i]
  BY <1>1, RowAppended DEF GuessMade
<1>4. DOMAIN guesses' = 1 .. Len(guesses) + 1
  BY <1>3
<1>5. \A m \in DOMAIN guesses, j \in DOMAIN guesses : Wrong(m, j) <=> Wrong(m, j)'
  BY <1>2, <1>3 DEF Wrong
<1>6. ASSUME ~g.right, NEW m \in DOMAIN guesses
      PROVE  Wrong(m, Len(guesses)) <=> Wrong(m, Len(guesses))'
  <2>1. \A n : n \in m .. Len(guesses) + 1 <=> n \in m .. Len(guesses) \/ n = Len(guesses) + 1
    BY <1>2, <1>6
  <2>2. \A n \in m .. Len(guesses) : guesses'[n] = guesses[n]
    BY <1>2, <1>3, <1>6
  <2>3. Len(guesses) + 1 \in m .. Len(guesses) + 1
    BY <1>2, <1>6
  <2>4. ~guesses'[Len(guesses) + 1].right
    BY <1>3, <1>6
  <2>5. /\ Wrong(m, Len(guesses)) <=> \A n \in m .. Len(guesses) : ~guesses[n].right
        /\ Wrong(m, Len(guesses))'
             <=> \A n \in m .. Len(guesses) + 1 : ~guesses'[n].right
    BY <1>3 DEF Wrong
  <2> QED
    BY <2>1, <2>2, <2>3, <2>4, <2>5
<1> QED
  BY <1>2, <1>3, <1>4, <1>5, <1>6

LEMMA GuessIsCounted ==
  ASSUME OtpInv, NEW g, NEW k, NEW now, GuessMade(g, k, now)
  PROVE  CodesInv' /\ codes' \in Seq(CodeRows) /\ DOMAIN codes' = DOMAIN codes
<1> DEFINE n == Len(guesses)
           row == [codes[k] EXCEPT !.attempts = @ + 1, !.state = IF g.right THEN "used" ELSE @]
<1>1. codes \in Seq(CodeRows) /\ MaxGuesses \in Nat /\ guesses \in Seq(GuessRows)
  BY OtpAssumption DEF OtpInv, OtpRecords, OtpAssumption
<1>2. /\ k \in DOMAIN codes /\ k = Len(codes) /\ codes[k].state = "live"
      /\ codes[k].attempts < MaxGuesses /\ g.code = k /\ g.newest
      /\ codes' = [codes EXCEPT ![k] = row]
  BY DEF GuessMade
<1>3. codes[k] \in CodeRows
  BY <1>1, <1>2
<1>4. /\ row \in CodeRows /\ row.attempts = codes[k].attempts + 1
      /\ row.state = IF g.right THEN "used" ELSE codes[k].state
  <2> DEFINE attempts == codes[k].attempts + 1
             state == IF g.right THEN "used" ELSE codes[k].state
             new == [codes[k] EXCEPT !.attempts = attempts, !.state = state]
  <2>1. attempts \in Nat /\ state \in {"live", "superseded", "used", "deleted"}
    BY <1>3 DEF CodeRows
  <2>2. row = new
    OBVIOUS
  <2> HIDE DEF attempts, state
  <2>3. new \in CodeRows /\ new.attempts = attempts /\ new.state = state
    BY <1>3, <2>1 DEF CodeRows
  <2> QED
    BY <2>2, <2>3 DEF attempts, state
<1>5. codes[k].attempts \in Nat
  BY <1>3 DEF CodeRows
<1> HIDE DEF row
<1>6. /\ codes' \in Seq(CodeRows) /\ Len(codes') = Len(codes) /\ DOMAIN codes' = DOMAIN codes
      /\ codes'[k] = row /\ \A j \in DOMAIN codes \ {k} : codes'[j] = codes[j]
  BY <1>1, <1>2, <1>4, RowReplaced
<1>7. /\ n \in Nat /\ DOMAIN guesses = 1 .. n /\ DOMAIN guesses' = 1 .. n + 1
      /\ guesses'[n + 1] = g /\ \A i \in DOMAIN guesses : guesses'[i] = guesses[i]
  BY GuessesGrow
<1> HIDE DEF n
<1>8. /\ n + 1 \in DOMAIN guesses' /\ n + 1 \notin DOMAIN guesses
      /\ \A i \in DOMAIN guesses' : (i \in DOMAIN guesses \/ i = n + 1) /\ i <= n + 1
      /\ DOMAIN guesses \subseteq DOMAIN guesses'
  BY <1>7
<1>9. /\ GuessesOf(k)' = GuessesOf(k) \cup {n + 1} /\ n + 1 \notin GuessesOf(k)
      /\ \A j \in DOMAIN codes \ {k} : GuessesOf(j)' = GuessesOf(j)
  BY <1>2, <1>7, <1>8 DEF GuessesOf
<1>10. ASSUME NEW j \in DOMAIN codes'
       PROVE  /\ IsFiniteSet(GuessesOf(j)') /\ codes'[j].attempts = Cardinality(GuessesOf(j)')
              /\ codes'[j].attempts <= MaxGuesses
              /\ codes'[j].state = "live" => j = Len(codes')
  <2>1. CASE j = k
    <3>1. IsFiniteSet(GuessesOf(k)) /\ codes[k].attempts = Cardinality(GuessesOf(k))
      BY <1>2 DEF OtpInv, CodesInv
    <3>2. /\ IsFiniteSet(GuessesOf(k) \cup {n + 1})
          /\ Cardinality(GuessesOf(k) \cup {n + 1}) = Cardinality(GuessesOf(k)) + 1
      BY <1>9, <3>1, FS_AddElement
    <3>3. codes[k].attempts + 1 <= MaxGuesses
      BY <1>1, <1>2, <1>5
    <3> QED
      BY <1>2, <1>4, <1>6, <1>9, <2>1, <3>1, <3>2, <3>3
  <2>2. CASE j # k
    BY <1>6, <1>9, <1>10, <2>2 DEF OtpInv, CodesInv
  <2> QED
    BY <2>1, <2>2
<1>11. ASSUME NEW i \in DOMAIN guesses'
       PROVE  /\ guesses'[i].code \in DOMAIN codes' /\ guesses'[i].newest
              /\ guesses'[i].right =>
                   /\ codes'[guesses'[i].code].state = "used"
                   /\ \A j \in DOMAIN guesses' :
                        guesses'[j].code = guesses'[i].code => j <= i
  <2>1. CASE i = n + 1
    BY <1>2, <1>4, <1>6, <1>7, <1>8, <2>1
  <2>2. CASE i \in DOMAIN guesses
    <3>1. /\ guesses[i].code \in DOMAIN codes /\ guesses[i].newest
          /\ guesses[i].right =>
               /\ codes[guesses[i].code].state = "used"
               /\ \A j \in DOMAIN guesses : guesses[j].code = guesses[i].code => j <= i
      BY <2>2 DEF OtpInv, CodesInv
    <3>2. guesses'[i] = guesses[i]
      BY <1>7, <2>2
    <3>3. ASSUME guesses[i].right
          PROVE  /\ codes'[guesses[i].code].state = "used"
                 /\ \A j \in DOMAIN guesses' : guesses'[j].code = guesses[i].code => j <= i
      <4>1. guesses[i].code # k
        BY <1>2, <3>1, <3>3
      <4> QED
        BY <1>2, <1>6, <1>7, <1>8, <3>1, <3>3, <4>1
    <3> QED
      BY <1>6, <3>1, <3>2, <3>3
  <2> QED
    BY <1>8, <2>1, <2>2
<1> QED
  BY <1>6, <1>10, <1>11 DEF CodesInv

\* While no day is over since a failure, the row counts the guess as it must.
LEMMA FailuresAreCounted ==
  ASSUME OtpInv, NEW g, NEW k, NEW now, GuessMade(g, k, now)
  PROVE  /\ limit' \in LimitRows /\ limit'.row
         /\ DayOver' \/ FailuresCounted'
<1> DEFINE n == Len(guesses)
           new == limit.failStart = NotOpen \/ Ended(limit.failStart, Day, now)
           failures == IF new THEN 1 ELSE limit.failures + 1
           start == IF new THEN now ELSE limit.failStart
           locked == IF failures >= FailuresPerDay THEN now + Lockout ELSE limit.lockedUntil
<1>1. /\ limit \in LimitRows /\ otpNow \in Nat /\ now \in Nat /\ now <= otpNow /\ limit.row
      /\ Day \in Nat /\ FailuresPerDay \in Nat \ {0} /\ Lockout \in Nat
  BY OtpAssumption DEF OtpInv, OtpRecords, GuessMade, OtpAssumption
<1>2. /\ n \in Nat /\ DOMAIN guesses = 1 .. n /\ DOMAIN guesses' = 1 .. n + 1
      /\ Len(guesses') = n + 1
      /\ guesses'[n + 1] = g /\ \A i \in DOMAIN guesses : guesses'[i] = guesses[i]
      /\ ~g.right => \A m \in DOMAIN guesses : Wrong(m, n) <=> Wrong(m, n)'
  BY GuessesGrow
<1>3. \A m \in DOMAIN guesses : guesses[m].at \in Nat
  <2>1. \A m \in DOMAIN guesses : guesses[m] \in GuessRows
    BY DEF OtpInv, OtpRecords
  <2> QED
    BY <2>1 DEF GuessRows
<1>4. CASE g.right
  <2>1. limit' = Cleared(limit)
    BY <1>4 DEF GuessMade
  <2>2. limit' \in LimitRows /\ limit'.row /\ NothingFailed'
    BY <1>1, <2>1 DEF Cleared, LimitRows, NothingFailed
  <2>3. FailuresCounted'
    BY <1>2, <1>4, <2>2 DEF FailuresCounted
  <2> QED
    BY <2>2, <2>3
<1>5. CASE ~g.right
  <2>1. limit' = [limit EXCEPT !.failures = failures, !.failStart = start, !.lockedUntil = locked]
    BY <1>5 DEF GuessMade, Failed
  <2>2. /\ failures \in Nat /\ start \in Nat \cup {NotOpen} /\ locked \in Nat
    BY <1>1 DEF LimitRows
  <2>3. /\ limit' \in LimitRows /\ limit'.row /\ limit'.failures = failures
        /\ limit'.failStart = start /\ limit'.lockedUntil = locked
    <3> HIDE DEF failures, start, locked
    <3> QED
      BY <1>1, <2>1, <2>2 DEF LimitRows
  <2>4. g.at = now
    BY DEF GuessMade
  <2>5. \A m \in DOMAIN guesses' : m \in DOMAIN guesses \/ m = n + 1
    BY <1>2
  <2>6. \A m : m = n + 1 => Wrong(m, Len(guesses))'
    <3>1. \A m, i : m = n + 1 /\ i \in m .. n + 1 => i = n + 1
      BY <1>2
    <3> HIDE DEF n
    <3> QED
      BY <1>2, <1>5, <3>1 DEF Wrong
  <2>7. CASE DayOver
    <3>1. UNCHANGED otpNow
      BY DEF GuessMade
    <3>2. PICK m \in DOMAIN guesses : Wrong(m, n) /\ guesses[m].at + Day <= otpNow
      BY <2>7 DEF DayOver
    <3>3. m \in DOMAIN guesses' /\ Wrong(m, Len(guesses))' /\ guesses'[m].at + Day <= otpNow'
      BY <1>2, <1>5, <3>1, <3>2
    <3>4. DayOver'
      BY <3>3 DEF DayOver
    <3> QED
      BY <2>3, <3>4
  <2>8. CASE ~DayOver
    <3> DEFINE begun == n = 0 \/ guesses[n].right
    <3>1. FailuresCounted
      BY <2>8 DEF OtpInv, AddressInv
    <3>2. ASSUME \E m \in DOMAIN guesses' : Wrong(m, Len(guesses))' /\ start = guesses'[m].at,
                 \A p \in DOMAIN guesses' :
                   Wrong(p, Len(guesses))' => n + 1 - p + 1 <= failures
          PROVE  DayOver' \/ FailuresCounted'
      <4>1. n + 1 > 0 /\ ~g.right /\ guesses'[n + 1] = g
        BY <1>2, <1>5
      <4>2. failures >= FailuresPerDay => locked = guesses'[n + 1].at + Lockout
        BY <1>2, <2>4
      <4> HIDE DEF n, failures, locked, start
      <4>3. FailuresCounted'
        BY SMTT(30), <1>2, <2>3, <3>2, <4>1, <4>2 DEF FailuresCounted
      <4> QED
        BY <4>3
    <3>3. CASE begun
      <4>1. NothingFailed
        BY <3>1, <3>3 DEF FailuresCounted
      <4>2. new /\ failures = 1 /\ start = now
        BY <4>1 DEF NothingFailed
      <4>3. \A m \in DOMAIN guesses : ~Wrong(m, n)
        BY <1>2, <3>3 DEF Wrong
      <4>4. \A m \in DOMAIN guesses' : Wrong(m, Len(guesses))' => m = n + 1
        BY <1>2, <1>5, <2>5, <4>3
      <4>5. \A m \in DOMAIN guesses' : Wrong(m, Len(guesses))' => n + 1 - m + 1 <= failures
        BY <1>2, <4>2, <4>4
      <4>6. start = guesses'[n + 1].at /\ n + 1 \in DOMAIN guesses'
        BY <1>2, <2>4, <4>2
      <4>7. \E m \in DOMAIN guesses' : Wrong(m, Len(guesses))' /\ start = guesses'[m].at
        <5> HIDE DEF n, start
        <5> QED
          BY <2>6, <4>6
      <4> HIDE DEF n, failures, start
      <4> QED
        BY <2>3, <3>2, <4>5, <4>7
    <3>4. CASE ~begun
      <4>1. PICK m \in DOMAIN guesses : Wrong(m, n) /\ limit.failStart = guesses[m].at
        BY <1>2, <3>1, <3>4 DEF FailuresCounted
      <4>2. guesses[m].at + Day > otpNow
        BY <1>1, <1>3, <2>8, <4>1 DEF DayOver
      <4>3. ~new /\ failures = limit.failures + 1 /\ start = guesses[m].at
        BY <1>1, <1>3, <4>1, <4>2 DEF Ended, NotOpen
      <4>4. \A p \in DOMAIN guesses : Wrong(p, n) => n - p + 1 <= limit.failures
        BY <1>2, <3>1, <3>4 DEF FailuresCounted
      <4>5. \A p \in DOMAIN guesses' : Wrong(p, Len(guesses))' => n + 1 - p + 1 <= failures
        <5>1. limit.failures \in Nat
          BY <1>1 DEF LimitRows
        <5>2. \A p \in DOMAIN guesses : Wrong(p, n) => n + 1 - p + 1 <= limit.failures + 1
          BY <1>2, <4>4, <5>1
        <5>3. \A p \in DOMAIN guesses : Wrong(p, Len(guesses))' => Wrong(p, n)
          BY <1>2, <1>5
        <5>4. \A p : p = n + 1 => n + 1 - p + 1 <= limit.failures + 1
          BY <1>2, <5>1
        <5> QED
          BY <2>5, <4>3, <5>2, <5>3, <5>4
      <4>6. /\ m \in DOMAIN guesses' /\ start = guesses'[m].at
            /\ Wrong(m, Len(guesses))'
        BY <1>2, <1>5, <4>1, <4>3
      <4>7. \E p \in DOMAIN guesses' : Wrong(p, Len(guesses))' /\ start = guesses'[p].at
        <5> HIDE DEF n, start
        <5> QED
          BY <4>6
      <4> HIDE DEF n, failures, start
      <4> QED
        BY <2>3, <3>2, <4>5, <4>7
    <3> QED
      BY <3>3, <3>4
  <2> QED
    BY <2>7, <2>8
<1> QED
  BY <1>4, <1>5

\* A guess after as many failures as a day allows came when the address was unlocked.
LEMMA LockoutsHold ==
  ASSUME OtpInv, NEW g, NEW k, NEW now, GuessMade(g, k, now)
  PROVE  LockoutInv'
<1> DEFINE n == Len(guesses)
<1>1. /\ FailuresPerDay \in Nat \ {0} /\ Lockout \in Nat /\ otpNow' = otpNow
      /\ limit.lockedUntil <= now /\ g.at = now
  BY OtpAssumption DEF OtpAssumption, GuessMade
<1>2. /\ n \in Nat /\ DOMAIN guesses = 1 .. n /\ DOMAIN guesses' = 1 .. n + 1
      /\ guesses'[n + 1] = g /\ \A i \in DOMAIN guesses : guesses'[i] = guesses[i]
      /\ \A m \in DOMAIN guesses, j \in DOMAIN guesses : Wrong(m, j) <=> Wrong(m, j)'
      /\ ~g.right => \A m \in DOMAIN guesses : Wrong(m, n) <=> Wrong(m, n)'
      /\ Len(guesses') = n + 1
  BY GuessesGrow
<1> SUFFICES ASSUME NEW i \in DOMAIN guesses', NEW j \in DOMAIN guesses',
                    j = i + FailuresPerDay, Wrong(i, j)'
             PROVE  LockedOut(i, j)'
  BY DEF LockoutInv
<1>3. i \in DOMAIN guesses /\ i < j /\ i \in Nat /\ j \in Nat
  BY <1>1, <1>2
<1>4. CASE j \in DOMAIN guesses
  <2>1. LockedOut(i, j)
    BY <1>2, <1>3, <1>4 DEF OtpInv, LockoutInv
  <2>2. \A m \in 1 .. j - 1 : m \in DOMAIN guesses /\ guesses'[m] = guesses[m]
    BY <1>2, <1>3, <1>4
  <2>3. \A m \in i .. j - 1 : /\ guesses'[m] = guesses[m] /\ guesses'[m + 1] = guesses[m + 1]
    BY <1>2, <1>3, <1>4
  <2>4. \A m \in 1 .. j - 1 : Wrong(m, j) => Wrong(m, j)'
    BY <1>2, <1>4, <2>2
  <2> QED
    BY <1>1, <2>1, <2>2, <2>3, <2>4 DEF LockedOut
<1>5. CASE j = n + 1
  <2>1. ~g.right
    <3>1. j \in i .. j
      BY <1>3
    <3> QED
      BY <1>2, <1>5, <3>1 DEF Wrong
  <2>2. \A m : Wrong(m, j)' <=> Wrong(m, n)'
    BY <1>2, <1>5 DEF Wrong
  <2>3. Wrong(i, n) /\ n > 0 /\ n \in i .. n /\ n \in i .. j - 1 /\ n = j - 1
    BY <1>2, <1>3, <1>5, <2>1, <2>2
  <2>4. ~guesses[n].right
    BY <2>3 DEF Wrong
  <2>5. CASE DayOver
    <3>1. PICK m \in DOMAIN guesses : Wrong(m, n) /\ guesses[m].at + Day <= otpNow
      BY <2>5 DEF DayOver
    <3>2. m \in 1 .. j - 1 /\ Wrong(m, j)' /\ guesses'[m].at + Day <= otpNow'
      BY <1>1, <1>2, <1>5, <2>1, <2>2, <3>1
    <3> QED
      BY <3>2 DEF LockedOut
  <2>6. CASE ~DayOver
    <3>1. FailuresCounted
      BY <2>6 DEF OtpInv, AddressInv
    <3>2. n - i + 1 <= limit.failures
      BY <1>3, <2>3, <2>4, <3>1 DEF FailuresCounted
    <3>3. limit.failures >= FailuresPerDay
      <4>1. limit.failures \in Nat
        BY DEF OtpInv, OtpRecords, LimitRows
      <4> QED
        BY <1>1, <1>2, <1>3, <1>5, <3>2, <4>1
    <3>4. limit.lockedUntil = guesses[n].at + Lockout
      BY <2>3, <2>4, <3>1, <3>3 DEF FailuresCounted
    <3>5. guesses'[n + 1].at >= guesses'[n].at + Lockout
      <4>1. guesses[n].at \in Nat /\ now \in Nat
        <5>1. guesses[n] \in GuessRows
          BY <1>2, <2>3 DEF OtpInv, OtpRecords
        <5> QED
          BY <5>1 DEF GuessRows, GuessMade
      <4> QED
        BY <1>1, <1>2, <2>3, <3>4, <4>1
    <3> QED
      BY <2>3, <3>5 DEF LockedOut
  <2> QED
    BY <2>5, <2>6
<1> QED
  BY <1>2, <1>4, <1>5

LEMMA GuessKeeps ==
  ASSUME OtpInv, NEW c \in OtpCallers, GuessApplies(c)
  PROVE  OtpInv'
<1> DEFINE k == otpCall[c].code
           now == otpCall[c].now
           g == [code |-> k, at |-> now, right |-> otpCall[c].right, newest |-> k = Len(codes)]
<1>1. /\ codes \in Seq(CodeRows) /\ otpNow \in Nat /\ guesses \in Seq(GuessRows)
      /\ otpCall \in [OtpCallers -> OtpCallRows] /\ limit \in LimitRows
  BY DEF OtpInv, OtpRecords
<1>2. k \in DOMAIN codes /\ now <= otpNow /\ otpCall[c] \in OtpCallRows
  BY <1>1 DEF OtpInv, OtpRecords, GuessApplies
<1>3. now \in Nat /\ k \in Nat /\ otpCall[c].right \in BOOLEAN
  BY <1>2 DEF OtpCallRows
<1>4. otpCall' = [otpCall EXCEPT ![c] = NoOtpCall] /\ UNCHANGED otpNow
  BY DEF GuessApplies
<1>5. CASE ~Reservable(k, now)
  <2>1. UNCHANGED <<codes, limit, guesses>>
    BY <1>5 DEF GuessApplies
  <2>2. 0 <= otpNow
    BY <1>1
  <2> QED
    BY <1>4, <2>1, <2>2, IdleOtpCall, RequestOnly
<1>6. CASE Reservable(k, now)
  <2>1. k = Len(codes)
    BY <1>2, <1>6 DEF OtpInv, CodesInv, Reservable, Live
  <2>2. limit.row
    <3>1. codes # <<>>
      BY <1>2
    <3> QED
      BY <3>1 DEF OtpInv, AddressInv
  <2>3. g \in GuessRows /\ g.code = k /\ g.at = now /\ g.newest /\ g.right = otpCall[c].right
    BY <1>3, <2>1 DEF GuessRows
  <2>4. /\ codes' = [codes EXCEPT ![k].attempts = @ + 1,
                                  ![k].state = IF g.right THEN "used" ELSE @]
        /\ limit' = IF g.right THEN Cleared(limit) ELSE Failed(limit, now)
        /\ guesses' = Append(guesses, g)
    BY <1>6 DEF GuessApplies
  <2>5. codes' = [codes EXCEPT ![k] = [codes[k] EXCEPT !.attempts = @ + 1,
                                         !.state = IF g.right THEN "used" ELSE @]]
    BY <1>1, <1>2, <2>4
  <2>6. GuessMade(g, k, now)
    <3> HIDE DEF g, k, now
    <3> QED
      BY <1>2, <1>3, <1>4, <1>6, <2>1, <2>2, <2>3, <2>4, <2>5
      DEF GuessMade, Reservable, Live
  <2> HIDE DEF g, k, now
  <2>7. CodesInv' /\ codes' \in Seq(CodeRows) /\ DOMAIN codes' = DOMAIN codes
    BY <2>6, GuessIsCounted
  <2>8. limit' \in LimitRows /\ limit'.row /\ (DayOver' \/ FailuresCounted')
    BY <2>6, FailuresAreCounted
  <2>9. LockoutInv' /\ guesses' \in Seq(GuessRows)
    BY <2>6, GuessesGrow, LockoutsHold
  <2>10. OtpRecords'
    <3>1. otpCall' \in [OtpCallers -> OtpCallRows]
      BY <1>1, <1>4, IdleOtpCall
    <3>2. \A d \in OtpCallers : otpCall'[d] = IF d = c THEN NoOtpCall ELSE otpCall[d]
      BY <1>1, <1>4
    <3>3. 0 <= otpNow
      BY <1>1
    <3> QED
      BY <1>1, <1>4, <2>7, <2>8, <2>9, <3>1, <3>2, <3>3, IdleOtpCall DEF OtpInv, OtpRecords
  <2> QED
    BY <2>7, <2>8, <2>9, <2>10 DEF OtpInv, AddressInv
<1> QED
  BY <1>5, <1>6

LEMMA SignInStarts == OtpInit => OtpInv
<1> SUFFICES ASSUME OtpInit
             PROVE  OtpInv
  OBVIOUS
<1>1. /\ otpNow = 0 /\ codes = <<>> /\ limit = NoLimit /\ guesses = <<>>
      /\ otpCall = [c \in OtpCallers |-> NoOtpCall]
  BY DEF OtpInit
<1>2. /\ DOMAIN codes = {} /\ DOMAIN guesses = {} /\ Len(guesses) = 0
      /\ codes \in Seq(CodeRows) /\ guesses \in Seq(GuessRows)
  BY <1>1
<1>3. limit \in LimitRows /\ NothingFailed
  BY <1>1 DEF NoLimit, LimitRows, NothingFailed, NotOpen
<1>4. OtpRecords
  BY <1>1, <1>2, <1>3, IdleOtpCall DEF OtpRecords
<1>5. FailuresCounted
  BY <1>2, <1>3 DEF FailuresCounted
<1> QED
  BY <1>1, <1>2, <1>3, <1>4, <1>5 DEF OtpInv, CodesInv, AddressInv, LockoutInv

LEMMA SignInStepsKeep == OtpInv /\ [OtpNext]_otpVars => OtpInv'
<1> SUFFICES ASSUME OtpInv, [OtpNext]_otpVars
             PROVE  OtpInv'
  OBVIOUS
<1>1. CASE OtpNext
  BY <1>1, RequestsAndTicksKeep, SendKeeps, MailFailsKeeps, GuessKeeps DEF OtpNext
<1>2. CASE UNCHANGED otpVars
  BY <1>2 DEF otpVars, OtpInv, OtpRecords, CodesInv, GuessesOf, AddressInv, NothingFailed,
              DayOver, FailuresCounted, LockoutInv, LockedOut, Wrong
<1> QED
  BY <1>1, <1>2

(***************************************************************************)
(* However requests of one address interleave, its codes count the guesses *)
(* they were given and its row the failures.                               *)
(***************************************************************************)
THEOREM OtpInvAlways == OtpSpec => []OtpInv
<1> QED
  BY SignInStarts, SignInStepsKeep, PTL DEF OtpSpec

(***************************************************************************)
(* No code is evaluated more often than its attempts, accepted twice or    *)
(* accepted after a newer one was made, and an address that used up the    *)
(* failures of a day is locked out before it guesses again.                *)
(***************************************************************************)
THEOREM CodesAreGuessedWithinLimits == OtpSpec => []GuessesAreLimited
<1>1. OtpInv => GuessesAreLimited
  <2> SUFFICES ASSUME OtpInv
               PROVE  GuessesAreLimited
    OBVIOUS
  <2>1. \A k \in DOMAIN codes : Cardinality(GuessesOf(k)) <= MaxGuesses
    BY DEF OtpInv, CodesInv
  <2>2. \A i \in DOMAIN guesses :
          /\ guesses[i].newest
          /\ guesses[i].right =>
               \A j \in DOMAIN guesses : guesses[j].code = guesses[i].code => j <= i
    BY DEF OtpInv, CodesInv
  <2>3. \A k \in DOMAIN codes :
          LET on == {i \in DOMAIN guesses : guesses[i].code = k}
          IN Cardinality(on) <= MaxGuesses
             /\ \A i \in on : guesses[i].right => \A j \in on : j <= i
    BY <2>1, <2>2 DEF GuessesOf
  <2>4. \A i, j \in DOMAIN guesses :
          j = i + FailuresPerDay /\ Wrong(i, j) => LockedOut(i, j)
    BY DEF OtpInv, LockoutInv
  <2> QED
    BY <2>2, <2>3, <2>4 DEF GuessesAreLimited, LockedOut
<1> QED
  BY <1>1, OtpInvAlways, PTL

-----------------------------------------------------------------------------
(* OAuth: the inductive invariant. *)

ConsentRows == [decided : BOOLEAN, expires : Nat, offline : BOOLEAN, allowed : BOOLEAN,
                restrictions : {0, 1}]
McpGrantRows == [revoked : BOOLEAN, expires : Nat]
CredentialRows == [grant : {1}, kind : {"code", "refresh"}, consumed : BOOLEAN, expires : Nat,
                   gone : BOOLEAN]
ExchangeRows == [times : Nat, replayed : BOOLEAN]
OAuthCallRows == [at : {"idle", "decide", "exchange"}, now : Nat, credential : Nat]

OAuthRecords ==
  /\ oauthNow \in Nat /\ consent \in ConsentRows
  /\ mcpGrants \in Seq(McpGrantRows) /\ credentials \in Seq(CredentialRows)
  /\ exchanged \in Seq(ExchangeRows) /\ Len(exchanged) = Len(credentials)
  /\ oauthCall \in [OAuthCallers -> OAuthCallRows]

Over(grant, now) == grant.revoked \/ grant.expires <= now

(***************************************************************************)
(* A credential `row` of `grant`, exchanged as `x` says: it was exchanged  *)
(* once if it is consumed and never else; a refresh token lives as long as *)
(* its grant; and a consumed one is only deleted, or presented again, with *)
(* the grant over.                                                         *)
(***************************************************************************)
LinkOK(row, x, grant, now) ==
  /\ x.times = IF row.consumed THEN 1 ELSE 0
  /\ row.kind = "refresh" => row.expires = grant.expires \/ grant.revoked
  /\ row.gone /\ row.consumed => Over(grant, now)
  /\ x.replayed => Over(grant, now)

LinksInv ==
  \A k \in DOMAIN credentials : LinkOK(credentials[k], exchanged[k], mcpGrants[1], oauthNow)

\* Only the last credential of the chain is not consumed.
LastInv == \A k \in DOMAIN credentials : ~credentials[k].consumed => k = Len(credentials)

GrantInv ==
  /\ Len(mcpGrants) <= 1
  /\ mcpGrants # <<>> => consent.decided
  /\ credentials # <<>> => Len(mcpGrants) = 1
  /\ \A c \in OAuthCallers :
       oauthCall[c].at = "exchange" => oauthCall[c].credential \in DOMAIN credentials

OAuthInv == OAuthRecords /\ LinksInv /\ LastInv /\ GrantInv

-----------------------------------------------------------------------------
(* OAuth: the steps. *)

LEMMA IdleOAuthCall == NoOAuthCall \in OAuthCallRows /\ NoOAuthCall.at = "idle"
BY DEF NoOAuthCall, OAuthCallRows

\* Later, or with the grant revoked, a link is as good as it was.
LEMMA LinkStays ==
  ASSUME NEW row \in CredentialRows, NEW x \in ExchangeRows, NEW grant \in McpGrantRows,
         NEW next \in McpGrantRows, NEW now \in Nat, NEW later \in Nat, now <= later,
         next.expires = grant.expires, grant.revoked => next.revoked,
         LinkOK(row, x, grant, now)
  PROVE  LinkOK(row, x, next, later)
<1>1. Over(grant, now) => Over(next, later)
  <2>1. grant.expires \in Nat
    BY DEF McpGrantRows
  <2> QED
    BY <2>1 DEF Over
<1> QED
  BY <1>1 DEF LinkOK

\* Steps of one request that leave every table alone.
LEMMA CallOnly ==
  ASSUME OAuthInv, NEW c \in OAuthCallers, NEW row \in OAuthCallRows,
         oauthCall' = [oauthCall EXCEPT ![c] = row],
         row.at = "exchange" => row.credential \in DOMAIN credentials,
         UNCHANGED <<oauthNow, consent, mcpGrants, credentials, exchanged>>
  PROVE  OAuthInv'
<1> USE DEF OAuthInv
<1>1. OAuthRecords'
  BY DEF OAuthRecords
<1>2. LinksInv' /\ LastInv'
  BY DEF LinksInv, LastInv, LinkOK, Over
<1>3. GrantInv'
  BY DEF GrantInv, OAuthRecords
<1> QED
  BY <1>1, <1>2, <1>3

LEMMA OAuthStarts ==
  ASSUME OAuthInv, NEW c \in OAuthCallers,
         StartDecision(c) \/ (\E k \in DOMAIN credentials : Present(c, k)) \/ OAuthCallEnds(c)
  PROVE  OAuthInv'
<1>1. oauthNow \in Nat /\ credentials \in Seq(CredentialRows) /\ 0 \in Nat
  BY DEF OAuthInv, OAuthRecords
<1>2. CASE StartDecision(c)
  <2> DEFINE row == [NoOAuthCall EXCEPT !.at = "decide", !.now = oauthNow]
  <2>1. row \in OAuthCallRows /\ row.at = "decide"
    BY <1>1 DEF NoOAuthCall, OAuthCallRows
  <2>2. /\ oauthCall' = [oauthCall EXCEPT ![c] = row]
        /\ UNCHANGED <<oauthNow, consent, mcpGrants, credentials, exchanged>>
    BY <1>2 DEF StartDecision
  <2> HIDE DEF row
  <2> QED
    BY <2>1, <2>2, CallOnly
<1>3. ASSUME NEW k \in DOMAIN credentials, Present(c, k)
      PROVE  OAuthInv'
  <2> DEFINE row == [at |-> "exchange", now |-> oauthNow, credential |-> k]
  <2>1. row \in OAuthCallRows /\ row.credential = k
    BY <1>1 DEF OAuthCallRows
  <2>2. /\ oauthCall' = [oauthCall EXCEPT ![c] = row]
        /\ UNCHANGED <<oauthNow, consent, mcpGrants, credentials, exchanged>>
    BY <1>3 DEF Present
  <2> HIDE DEF row
  <2> QED
    BY <2>1, <2>2, CallOnly
<1>4. CASE OAuthCallEnds(c)
  BY <1>4, IdleOAuthCall, CallOnly DEF OAuthCallEnds, Answered
<1> QED
  BY <1>2, <1>3, <1>4

(***************************************************************************)
(* A decision makes the first grant of its consent, so the chain is empty  *)
(* and the code its first link.                                            *)
(***************************************************************************)
LEMMA DecisionKeeps ==
  ASSUME OAuthAssumption, OAuthInv, NEW c \in OAuthCallers, DecisionApplies(c)
  PROVE  OAuthInv'
<1> USE DEF OAuthInv
<1> DEFINE now == oauthCall[c].now
           grant == [revoked |-> FALSE, expires |-> now + GrantLife]
           code == NewCredential(Len(mcpGrants) + 1, "code", now + CodeLife)
           x == [times |-> 0, replayed |-> FALSE]
<1>1. /\ oauthCall' = [oauthCall EXCEPT ![c] = NoOAuthCall] /\ oauthNow' = oauthNow
      /\ now \in Nat /\ mcpGrants \in Seq(McpGrantRows) /\ credentials \in Seq(CredentialRows)
      /\ exchanged \in Seq(ExchangeRows)
  BY DEF DecisionApplies, Answered, OAuthRecords, OAuthCallRows
<1>2. CASE UNCHANGED <<consent, mcpGrants, credentials, exchanged>>
  BY <1>1, <1>2, CallOnly, IdleOAuthCall
<1>3. CASE /\ ~consent.decided /\ consent' = [consent EXCEPT !.decided = TRUE]
           /\ UNCHANGED <<mcpGrants, credentials, exchanged>>
  <2>1. consent' \in ConsentRows /\ consent'.decided
    BY <1>3 DEF OAuthRecords, ConsentRows
  <2>2. OAuthRecords'
    BY <1>1, <1>3, <2>1, IdleOAuthCall DEF OAuthRecords
  <2>3. LinksInv' /\ LastInv'
    BY <1>1, <1>3 DEF LinksInv, LastInv, LinkOK, Over
  <2>4. GrantInv'
    BY <1>1, <1>3, <2>1, IdleOAuthCall DEF GrantInv, OAuthRecords
  <2> QED
    BY <2>2, <2>3, <2>4
<1>4. CASE /\ ~consent.decided /\ consent' = [consent EXCEPT !.decided = TRUE]
           /\ mcpGrants' = Append(mcpGrants, grant)
           /\ credentials' = Append(credentials, code)
           /\ exchanged' = Append(exchanged, x)
  <2>1. mcpGrants = <<>> /\ credentials = <<>> /\ exchanged = <<>>
    <3>1. mcpGrants = <<>>
      BY <1>4 DEF GrantInv
    <3>2. Len(mcpGrants) # 1
      BY <3>1
    <3>3. credentials = <<>>
      BY <3>2 DEF GrantInv
    <3>4. Len(exchanged) = 0
      BY <3>3 DEF OAuthRecords
    <3>5. exchanged = <<>>
      BY <1>1, <3>4
    <3> QED
      BY <3>1, <3>3, <3>5
  <2>2. /\ grant \in McpGrantRows /\ x \in ExchangeRows
        /\ code \in CredentialRows /\ ~code.consumed /\ code.kind = "code" /\ ~code.gone
    BY <1>1, <2>1 DEF McpGrantRows, ExchangeRows, CredentialRows, NewCredential, OAuthAssumption
  <2>3. x.times = 0 /\ ~x.replayed
    OBVIOUS
  <2>4. consent' \in ConsentRows /\ consent'.decided
    BY <1>4 DEF OAuthRecords, ConsentRows
  <2> HIDE DEF grant, code, x
  <2>5. mcpGrants' = <<grant>> /\ credentials' = <<code>> /\ exchanged' = <<x>>
    BY <1>4, <2>1
  <2>6. OAuthRecords'
    BY <1>1, <2>2, <2>4, <2>5, IdleOAuthCall DEF OAuthRecords
  <2>7. LinksInv' /\ LastInv'
    BY <2>2, <2>3, <2>5 DEF LinksInv, LastInv, LinkOK
  <2>8. GrantInv'
    BY <1>1, <2>1, <2>4, <2>5, IdleOAuthCall DEF GrantInv, OAuthRecords
  <2> QED
    BY <2>6, <2>7, <2>8
<1> QED
  BY <1>2, <1>3, <1>4 DEF DecisionApplies, Undecided

\* Grants that are revoked keep their lives, and those revoked before stay so.
LEMMA GrantsRevoked ==
  ASSUME mcpGrants \in Seq(McpGrantRows), NEW which
  PROVE  /\ RevokedGrants(which) \in Seq(McpGrantRows)
         /\ Len(RevokedGrants(which)) = Len(mcpGrants)
         /\ \A g \in DOMAIN mcpGrants :
              /\ RevokedGrants(which)[g].expires = mcpGrants[g].expires
              /\ mcpGrants[g].revoked => RevokedGrants(which)[g].revoked
              /\ g \in which => RevokedGrants(which)[g].revoked
<1> DEFINE new(g) == [mcpGrants[g] EXCEPT !.revoked = @ \/ g \in which]
<1>1. \A g \in DOMAIN mcpGrants : mcpGrants[g] \in McpGrantRows
  OBVIOUS
<1>2. \A g \in DOMAIN mcpGrants :
        /\ new(g) \in McpGrantRows /\ new(g).expires = mcpGrants[g].expires
        /\ mcpGrants[g].revoked => new(g).revoked
        /\ g \in which => new(g).revoked
  BY <1>1 DEF McpGrantRows
<1>3. RevokedGrants(which) = [g \in DOMAIN mcpGrants |-> new(g)]
  BY DEF RevokedGrants
<1> HIDE DEF new
<1>4. RevokedGrants(which) \in [DOMAIN mcpGrants -> McpGrantRows]
  BY <1>2, <1>3
<1>5. /\ RevokedGrants(which) \in Seq(McpGrantRows)
      /\ DOMAIN RevokedGrants(which) = DOMAIN mcpGrants
  BY <1>4, RowsUpdated
<1>6. Len(RevokedGrants(which)) = Len(mcpGrants)
  BY <1>5
<1> QED
  BY <1>2, <1>3, <1>5, <1>6

(***************************************************************************)
(* Steps that change the rows of the tables, but neither add one nor       *)
(* consume a credential.                                                   *)
(***************************************************************************)
LEMMA RowsKeep ==
  ASSUME OAuthInv, OAuthRecords', UNCHANGED oauthCall,
         consent.decided => consent'.decided,
         Len(mcpGrants') = Len(mcpGrants), Len(credentials') = Len(credentials),
         \A k \in DOMAIN credentials : credentials'[k].consumed = credentials[k].consumed,
         LinksInv'
  PROVE  OAuthInv'
<1> USE DEF OAuthInv, OAuthRecords
<1>1. /\ DOMAIN credentials = 1 .. Len(credentials) /\ DOMAIN credentials' = 1 .. Len(credentials)
      /\ Len(mcpGrants) \in Nat /\ Len(credentials) \in Nat
      /\ mcpGrants = <<>> <=> Len(mcpGrants) = 0
      /\ credentials = <<>> <=> Len(credentials) = 0
      /\ mcpGrants' = <<>> <=> Len(mcpGrants) = 0
      /\ credentials' = <<>> <=> Len(credentials) = 0
  OBVIOUS
<1>2. LastInv'
  BY <1>1 DEF LastInv
<1>3. GrantInv'
  BY <1>1 DEF GrantInv
<1> QED
  BY <1>2, <1>3

\* The links of a chain whose grant is revoked, or grows older.
LEMMA LinksStay ==
  ASSUME OAuthInv, NEW next \in McpGrantRows, NEW later \in Nat, oauthNow <= later,
         mcpGrants # <<>> => /\ next.expires = mcpGrants[1].expires
                             /\ mcpGrants[1].revoked => next.revoked
  PROVE  \A k \in DOMAIN credentials : LinkOK(credentials[k], exchanged[k], next, later)
<1> SUFFICES ASSUME NEW k \in DOMAIN credentials
             PROVE  LinkOK(credentials[k], exchanged[k], next, later)
  OBVIOUS
<1>1. /\ credentials \in Seq(CredentialRows) /\ exchanged \in Seq(ExchangeRows)
      /\ Len(exchanged) = Len(credentials) /\ mcpGrants \in Seq(McpGrantRows) /\ oauthNow \in Nat
  BY DEF OAuthInv, OAuthRecords
<1>2. mcpGrants # <<>> /\ 1 \in DOMAIN mcpGrants
  <2>1. credentials # <<>>
    BY <1>1
  <2>2. Len(mcpGrants) = 1
    BY <2>1 DEF OAuthInv, GrantInv
  <2>3. DOMAIN mcpGrants = 1 .. Len(mcpGrants) /\ Len(<<>>) = 0
    BY <1>1
  <2> QED
    BY <2>2, <2>3
<1>3. /\ credentials[k] \in CredentialRows /\ exchanged[k] \in ExchangeRows
      /\ mcpGrants[1] \in McpGrantRows
  BY <1>1, <1>2
<1>4. LinkOK(credentials[k], exchanged[k], mcpGrants[1], oauthNow)
  BY DEF OAuthInv, LinksInv
<1> QED
  BY <1>1, <1>2, <1>3, <1>4, LinkStays

LEMMA RevokeKeeps ==
  ASSUME OAuthInv, NEW g \in DOMAIN mcpGrants, RevokeGrant(g)
  PROVE  OAuthInv'
<1>1. /\ mcpGrants' = RevokedGrants({g})
      /\ UNCHANGED <<oauthNow, consent, credentials, oauthCall, exchanged>>
  BY DEF RevokeGrant
<1>2. mcpGrants \in Seq(McpGrantRows) /\ oauthNow \in Nat
  BY DEF OAuthInv, OAuthRecords
<1>3. /\ mcpGrants' \in Seq(McpGrantRows) /\ Len(mcpGrants') = Len(mcpGrants)
      /\ 1 \in DOMAIN mcpGrants => /\ mcpGrants'[1].expires = mcpGrants[1].expires
                                   /\ mcpGrants[1].revoked => mcpGrants'[1].revoked
  BY <1>1, <1>2, GrantsRevoked
<1>4. mcpGrants # <<>> /\ 1 \in DOMAIN mcpGrants /\ mcpGrants'[1] \in McpGrantRows
  BY <1>2, <1>3
<1>5. LinksInv'
  BY <1>1, <1>2, <1>3, <1>4, LinksStay DEF LinksInv
<1> QED
  BY <1>1, <1>3, <1>5, RowsKeep DEF OAuthInv, OAuthRecords

LEMMA TickAndReadmitKeep ==
  ASSUME OAuthInv, OAuthTick \/ ReadmitOwner
  PROVE  OAuthInv'
<1> USE DEF OAuthInv
<1>1. oauthNow \in Nat /\ mcpGrants \in Seq(McpGrantRows)
  BY DEF OAuthRecords
<1>2. /\ UNCHANGED <<mcpGrants, credentials, oauthCall, exchanged>>
      /\ oauthNow' \in Nat /\ oauthNow' >= oauthNow
      /\ consent' \in ConsentRows /\ consent'.decided = consent.decided
  <2>1. consent \in ConsentRows
    BY DEF OAuthRecords
  <2>2. CASE OAuthTick
    BY <1>1, <2>1, <2>2 DEF OAuthTick
  <2>3. CASE ReadmitOwner
    <3> DEFINE row == [consent EXCEPT !.allowed = TRUE]
    <3>1. row \in ConsentRows
      BY <2>1 DEF ConsentRows
    <3>2. row.decided = consent.decided
      BY <2>1 DEF ConsentRows
    <3>3. consent' = row /\ UNCHANGED <<oauthNow, mcpGrants, credentials, oauthCall, exchanged>>
      BY <2>3 DEF ReadmitOwner
    <3> HIDE DEF row
    <3> QED
      BY <1>1, <3>1, <3>2, <3>3
  <2> QED
    BY <2>2, <2>3
<1>3. LinksInv'
  <2>1. CASE credentials = <<>>
    BY <1>2, <2>1 DEF LinksInv
  <2>2. CASE credentials # <<>>
    <3>1. mcpGrants[1] \in McpGrantRows
      BY <1>1, <2>2 DEF GrantInv
    <3> QED
      BY <1>2, <3>1, LinksStay DEF LinksInv
  <2> QED
    BY <2>1, <2>2
<1> QED
  BY <1>2, <1>3, RowsKeep DEF OAuthRecords

\* A restriction ends the grant, whatever it does to the lives of its credentials.
LEMMA RestrictOwnerKeeps ==
  ASSUME OAuthInv, RestrictOwner
  PROVE  OAuthInv'
<1> DEFINE row == [consent EXCEPT !.allowed = FALSE, !.restrictions = 1,
                                  !.expires = IF consent.decided THEN @ ELSE Lesser(@, oauthNow)]
           spared(k) == credentials[k].kind = "code" /\ credentials[k].consumed
           ended(k) == IF spared(k) THEN credentials[k]
                       ELSE [credentials[k] EXCEPT !.expires = Lesser(@, oauthNow)]
<1>1. /\ consent' = row /\ mcpGrants' = RevokedGrants(DOMAIN mcpGrants)
      /\ credentials' = [k \in DOMAIN credentials |-> ended(k)]
      /\ UNCHANGED <<oauthNow, oauthCall, exchanged>>
  BY DEF RestrictOwner
<1>2. /\ oauthNow \in Nat /\ consent \in ConsentRows /\ mcpGrants \in Seq(McpGrantRows)
      /\ credentials \in Seq(CredentialRows) /\ exchanged \in Seq(ExchangeRows)
      /\ Len(exchanged) = Len(credentials)
  BY DEF OAuthInv, OAuthRecords
<1>3. \A n \in Nat : Lesser(n, oauthNow) \in Nat
  BY <1>2 DEF Lesser
<1>4. row \in ConsentRows /\ row.decided = consent.decided
  <2> DEFINE life == IF consent.decided THEN consent.expires ELSE Lesser(consent.expires, oauthNow)
  <2>1. life \in Nat
    BY <1>2, <1>3 DEF ConsentRows
  <2>2. row = [consent EXCEPT !.allowed = FALSE, !.restrictions = 1, !.expires = life]
    BY <1>2 DEF ConsentRows
  <2> HIDE DEF life
  <2>3. row \in ConsentRows
    BY <1>2, <2>1, <2>2 DEF ConsentRows
  <2>4. row.decided = consent.decided
    BY <1>2, <2>2 DEF ConsentRows
  <2> QED
    BY <2>3, <2>4
<1> HIDE DEF row
<1>5. \A k \in DOMAIN credentials :
        /\ ended(k) \in CredentialRows /\ ended(k).consumed = credentials[k].consumed
        /\ ended(k).gone = credentials[k].gone
  <2> SUFFICES ASSUME NEW k \in DOMAIN credentials
               PROVE  /\ ended(k) \in CredentialRows /\ ended(k).consumed = credentials[k].consumed
                      /\ ended(k).gone = credentials[k].gone
    OBVIOUS
  <2>1. credentials[k] \in CredentialRows
    BY <1>2
  <2> DEFINE life == Lesser(credentials[k].expires, oauthNow)
             late == [credentials[k] EXCEPT !.expires = life]
  <2>2. life \in Nat
    BY <1>3, <2>1 DEF CredentialRows
  <2>3. ended(k) = IF spared(k) THEN credentials[k] ELSE late
    OBVIOUS
  <2> HIDE DEF life
  <2>4. /\ late \in CredentialRows /\ late.consumed = credentials[k].consumed
        /\ late.gone = credentials[k].gone
    BY <2>1, <2>2 DEF CredentialRows
  <2> HIDE DEF late, spared, ended
  <2> QED
    BY <2>1, <2>3, <2>4
<1> HIDE DEF ended
<1>6. credentials' \in Seq(CredentialRows) /\ DOMAIN credentials' = DOMAIN credentials
  <2>1. credentials' \in [DOMAIN credentials -> CredentialRows]
    BY <1>1, <1>5
  <2> QED
    BY <1>2, <2>1, RowsUpdated
<1>7. Len(credentials') = Len(credentials)
  BY <1>2, <1>6
<1>8. /\ mcpGrants' \in Seq(McpGrantRows) /\ Len(mcpGrants') = Len(mcpGrants)
      /\ 1 \in DOMAIN mcpGrants => mcpGrants'[1].revoked
  BY <1>1, <1>2, GrantsRevoked
<1>9. LinksInv'
  <2> SUFFICES ASSUME NEW k \in DOMAIN credentials
               PROVE  LinkOK(ended(k), exchanged[k], mcpGrants'[1], oauthNow)
    BY <1>1, <1>6 DEF LinksInv
  <2>1. credentials # <<>> /\ Len(mcpGrants) \in Nat /\ DOMAIN mcpGrants = 1 .. Len(mcpGrants)
    BY <1>2
  <2>2. 1 \in DOMAIN mcpGrants
    BY <2>1 DEF OAuthInv, GrantInv
  <2>3. LinkOK(credentials[k], exchanged[k], mcpGrants[1], oauthNow)
    BY DEF OAuthInv, LinksInv
  <2> QED
    BY <1>5, <1>8, <2>2, <2>3 DEF LinkOK, Over
<1>10. OAuthRecords'
  BY <1>1, <1>2, <1>4, <1>6, <1>7, <1>8 DEF OAuthRecords, OAuthInv
<1> QED
  BY <1>1, <1>4, <1>5, <1>7, <1>8, <1>9, <1>10, RowsKeep

(***************************************************************************)
(* A consumed refresh token has the life of its grant, and a consumed code *)
(* is kept as long, so neither is deleted before the grant is over.        *)
(***************************************************************************)
LEMMA CleanUpKeeps ==
  ASSUME OAuthInv, NEW k \in DOMAIN credentials, CleanUp(k)
  PROVE  OAuthInv'
<1> DEFINE row == [credentials[k] EXCEPT !.gone = TRUE]
<1>1. /\ credentials' = [credentials EXCEPT ![k] = row]
      /\ UNCHANGED <<oauthNow, consent, mcpGrants, oauthCall, exchanged>> /\ Cleanable(k)
  BY DEF CleanUp
<1>2. /\ oauthNow \in Nat /\ mcpGrants \in Seq(McpGrantRows)
      /\ credentials \in Seq(CredentialRows)
      /\ credentials[k] \in CredentialRows
  BY DEF OAuthInv, OAuthRecords
<1>3. /\ row \in CredentialRows /\ row.consumed = credentials[k].consumed
      /\ row.kind = credentials[k].kind /\ row.expires = credentials[k].expires
  BY <1>2 DEF CredentialRows
<1> HIDE DEF row
<1>4. /\ credentials' \in Seq(CredentialRows) /\ Len(credentials') = Len(credentials)
      /\ credentials'[k] = row /\ \A j \in DOMAIN credentials \ {k} : credentials'[j] = credentials[j]
      /\ DOMAIN credentials' = DOMAIN credentials
  BY <1>1, <1>2, <1>3
<1>5. LinkOK(credentials[k], exchanged[k], mcpGrants[1], oauthNow)
  BY DEF OAuthInv, LinksInv
<1>6. credentials[k].consumed => Over(mcpGrants[1], oauthNow)
  <2>1. credentials[k].grant = 1 /\ credentials[k].kind \in {"code", "refresh"}
    BY <1>2 DEF CredentialRows
  <2> QED
    BY <1>1, <1>5, <2>1 DEF Cleanable, LinkOK, Over
<1>7. LinkOK(row, exchanged[k], mcpGrants[1], oauthNow)
  BY <1>3, <1>5, <1>6 DEF LinkOK
<1>8. LinksInv'
  BY <1>1, <1>4, <1>7 DEF OAuthInv, LinksInv
<1> QED
  BY <1>1, <1>3, <1>4, <1>8, RowsKeep DEF OAuthInv, OAuthRecords

(***************************************************************************)
(* An exchange consumes the last credential and appends the next, if there *)
(* is one: the chain stays one chain.                                      *)
(***************************************************************************)
LEMMA ChainGrows ==
  ASSUME OAuthInv, NEW k \in DOMAIN credentials, ~credentials[k].consumed,
         NEW row \in CredentialRows, row.consumed,
         NEW x \in ExchangeRows, LinkOK(row, x, mcpGrants[1], oauthNow),
         NEW next \in CredentialRows, ~next.consumed,
         NEW fresh \in ExchangeRows, LinkOK(next, fresh, mcpGrants[1], oauthNow),
         UNCHANGED <<oauthNow, consent, mcpGrants>>,
         NEW c \in OAuthCallers, oauthCall' = [oauthCall EXCEPT ![c] = NoOAuthCall],
         \/ /\ credentials' = [credentials EXCEPT ![k] = row]
            /\ exchanged' = [exchanged EXCEPT ![k] = x]
         \/ /\ credentials' = Append([credentials EXCEPT ![k] = row], next)
            /\ exchanged' = Append([exchanged EXCEPT ![k] = x], fresh)
  PROVE  OAuthInv'
<1> DEFINE n == Len(credentials)
           used == [credentials EXCEPT ![k] = row]
           counted == [exchanged EXCEPT ![k] = x]
<1>1. /\ credentials \in Seq(CredentialRows) /\ exchanged \in Seq(ExchangeRows)
      /\ Len(exchanged) = n /\ DOMAIN credentials = 1 .. n /\ n \in Nat
      /\ k \in DOMAIN exchanged
  BY DEF OAuthInv, OAuthRecords
<1>2. /\ used \in Seq(CredentialRows) /\ Len(used) = n /\ used[k] = row
      /\ \A j \in DOMAIN credentials \ {k} : used[j] = credentials[j]
  BY <1>1, RowReplaced
<1>3. /\ counted \in Seq(ExchangeRows) /\ Len(counted) = n /\ counted[k] = x
      /\ \A j \in DOMAIN credentials \ {k} : counted[j] = exchanged[j]
  BY <1>1, RowReplaced
<1> HIDE DEF used, counted
<1>4. \A j \in 1 .. n : LinkOK(used[j], counted[j], mcpGrants[1], oauthNow) /\ used[j].consumed
  <2>1. k = n
    BY DEF OAuthInv, LastInv
  <2>2. \A j \in DOMAIN credentials \ {k} :
          LinkOK(credentials[j], exchanged[j], mcpGrants[1], oauthNow) /\ credentials[j].consumed
    BY <2>1 DEF OAuthInv, LinksInv, LastInv
  <2> QED
    BY <1>1, <1>2, <1>3, <2>2
<1>5. credentials # <<>> /\ Len(mcpGrants) = 1 /\ (mcpGrants # <<>> => consent.decided)
  <2>1. credentials # <<>>
    BY <1>1
  <2> QED
    BY <2>1 DEF OAuthInv, GrantInv
<1>6. /\ oauthCall' \in [OAuthCallers -> OAuthCallRows]
      /\ \A d \in OAuthCallers :
           oauthCall'[d].at = "exchange" => oauthCall'[d].credential \in 1 .. n
  BY <1>1, IdleOAuthCall DEF OAuthInv, OAuthRecords, GrantInv
<1>7. CASE credentials' = used /\ exchanged' = counted
  <2>1. DOMAIN credentials' = 1 .. n
    BY <1>1, <1>2, <1>7
  <2>2. OAuthRecords'
    BY <1>2, <1>3, <1>6, <1>7 DEF OAuthRecords, OAuthInv
  <2>3. LinksInv' /\ LastInv'
    BY <1>4, <1>7, <2>1 DEF LinksInv, LastInv
  <2>4. GrantInv'
    BY <1>5, <1>6, <2>1 DEF GrantInv
  <2> QED
    BY <2>2, <2>3, <2>4 DEF OAuthInv
<1>8. CASE credentials' = Append(used, next) /\ exchanged' = Append(counted, fresh)
  <2>1. /\ credentials' \in Seq(CredentialRows) /\ Len(credentials') = n + 1
        /\ credentials'[n + 1] = next /\ \A j \in DOMAIN used : credentials'[j] = used[j]
    BY <1>2, <1>8, RowAppended
  <2>2. /\ exchanged' \in Seq(ExchangeRows) /\ Len(exchanged') = n + 1
        /\ exchanged'[n + 1] = fresh /\ \A j \in DOMAIN counted : exchanged'[j] = counted[j]
    <3>1. exchanged' = Append(counted, fresh)
      BY <1>8
    <3>2. counted \in Seq(ExchangeRows) /\ Len(counted) = n
      BY <1>3
    <3>3. /\ exchanged' \in Seq(ExchangeRows) /\ Len(exchanged') = Len(counted) + 1
          /\ exchanged'[Len(counted) + 1] = fresh
          /\ \A j \in DOMAIN counted : exchanged'[j] = counted[j]
      BY SMTT(30), <3>1, <3>2
    <3> QED
      BY <3>2, <3>3
  <2>3. /\ DOMAIN credentials' = 1 .. n + 1
        /\ DOMAIN used = 1 .. n /\ DOMAIN counted = 1 .. n
        /\ \A j \in 1 .. n + 1 : j = n + 1 \/ j \in 1 .. n
    BY <1>1, <1>2, <1>3, <2>1
  <2>4. OAuthRecords'
    BY <1>6, <2>1, <2>2 DEF OAuthRecords, OAuthInv
  <2>5. LinksInv' /\ LastInv'
    <3>1. \A j \in 1 .. n :
            /\ LinkOK(credentials'[j], exchanged'[j], mcpGrants[1], oauthNow)
            /\ credentials'[j].consumed
      BY <1>4, <2>1, <2>2, <2>3
    <3> QED
      BY <2>1, <2>2, <2>3, <3>1 DEF LinksInv, LastInv
  <2>6. GrantInv'
    <3>1. \A d \in OAuthCallers : oauthCall'[d].at = "exchange" =>
                                     oauthCall'[d].credential \in DOMAIN credentials'
      BY <1>1, <1>6, <2>3
    <3>2. Len(mcpGrants') = 1 /\ consent'.decided
      <4>1. mcpGrants # <<>>
        <5>1. Len(<<>>) = 0
          OBVIOUS
        <5> QED
          BY <1>5, <5>1
      <4> QED
        BY <1>5, <4>1
    <3> QED
      BY <3>1, <3>2 DEF GrantInv
  <2> QED
    BY <2>4, <2>5, <2>6 DEF OAuthInv
<1> QED
  BY <1>7, <1>8 DEF used, counted

LEMMA ExchangeKeeps ==
  ASSUME OAuthInv, NEW c \in OAuthCallers, ExchangeApplies(c)
  PROVE  OAuthInv'
<1> DEFINE k == oauthCall[c].credential
           now == oauthCall[c].now
           used == [credentials EXCEPT ![k].consumed = TRUE]
           counted == [exchanged EXCEPT ![k].times = @ + 1]
<1>1. /\ oauthCall' = [oauthCall EXCEPT ![c] = NoOAuthCall]
      /\ UNCHANGED <<oauthNow, consent>>
  BY DEF ExchangeApplies, Answered
<1>2. /\ mcpGrants \in Seq(McpGrantRows) /\ credentials \in Seq(CredentialRows)
      /\ exchanged \in Seq(ExchangeRows) /\ Len(exchanged) = Len(credentials)
      /\ oauthNow \in Nat
  BY DEF OAuthInv, OAuthRecords
<1>3. k \in DOMAIN credentials /\ k \in DOMAIN exchanged
  BY <1>2 DEF OAuthInv, GrantInv, ExchangeApplies
<1>4. credentials[k] \in CredentialRows /\ exchanged[k] \in ExchangeRows
  BY <1>2, <1>3
<1>5. LinkOK(credentials[k], exchanged[k], mcpGrants[1], oauthNow)
  BY <1>3 DEF OAuthInv, LinksInv
<1>6. Len(mcpGrants) = 1 /\ 1 \in DOMAIN mcpGrants /\ mcpGrants # <<>>
  <2>1. credentials # <<>>
    BY <1>2, <1>3
  <2>2. Len(mcpGrants) = 1
    BY <2>1 DEF OAuthInv, GrantInv
  <2>3. Len(<<>>) = 0
    OBVIOUS
  <2> QED
    <3>1. DOMAIN mcpGrants = 1 .. 1
      BY <1>2, <2>2
    <3> QED
      BY <2>2, <2>3, <3>1
<1> HIDE DEF k, now, used, counted
<1>7. CASE /\ mcpGrants' = RevokedGrants({1})
           /\ exchanged' = [exchanged EXCEPT ![k].replayed = TRUE]
           /\ UNCHANGED credentials
  <2> DEFINE x == [exchanged[k] EXCEPT !.replayed = TRUE]
  <2>1. exchanged' = [exchanged EXCEPT ![k] = x]
    BY <1>7
  <2>2. x \in ExchangeRows /\ x.times = exchanged[k].times
    BY <1>4 DEF ExchangeRows
  <2> HIDE DEF x
  <2>3. /\ mcpGrants' \in Seq(McpGrantRows) /\ Len(mcpGrants') = Len(mcpGrants)
        /\ mcpGrants'[1].expires = mcpGrants[1].expires /\ mcpGrants'[1].revoked
    BY <1>2, <1>6, <1>7, GrantsRevoked
  <2>4. mcpGrants'[1] \in McpGrantRows
    <3>1. DOMAIN mcpGrants' = 1 .. 1
      BY <1>6, <2>3
    <3>2. \A g \in DOMAIN mcpGrants' : mcpGrants'[g] \in McpGrantRows
      BY <2>3
    <3>3. 1 \in DOMAIN mcpGrants'
      BY <3>1
    <3> QED
      BY <3>2, <3>3
  <2>5. \A j \in DOMAIN credentials : LinkOK(credentials[j], exchanged[j], mcpGrants'[1], oauthNow)
    <3>1. oauthNow <= oauthNow
      BY <1>2
    <3>2. /\ mcpGrants'[1].expires = mcpGrants[1].expires
          /\ mcpGrants[1].revoked => mcpGrants'[1].revoked
      BY <2>3
    <3> QED
      BY <1>2, <2>4, <3>1, <3>2, LinksStay
  <2>6. /\ exchanged' \in Seq(ExchangeRows) /\ Len(exchanged') = Len(exchanged)
        /\ exchanged'[k] = x /\ \A j \in DOMAIN exchanged \ {k} : exchanged'[j] = exchanged[j]
    BY <1>2, <1>3, <2>1, <2>2
  <2>7. LinkOK(credentials[k], x, mcpGrants'[1], oauthNow)
    BY <1>3, <2>2, <2>3, <2>5 DEF LinkOK, Over
  <2>8. LinksInv'
    <3>1. DOMAIN exchanged = DOMAIN credentials
      BY <1>2
    <3> QED
      BY <1>1, <1>7, <2>5, <2>6, <2>7, <3>1 DEF LinksInv
  <2>9. OAuthRecords'
    BY <1>1, <1>7, <2>3, <2>6, IdleOAuthCall DEF OAuthRecords, OAuthInv
  <2>10. LastInv' /\ GrantInv'
    <3>1. LastInv'
      BY <1>7 DEF LastInv, OAuthInv
    <3>2. GrantInv'
      BY <1>1, <1>6, <1>7, <2>3, IdleOAuthCall DEF GrantInv, OAuthRecords, OAuthInv
    <3> QED
      BY <3>1, <3>2
  <2> QED
    BY <2>8, <2>9, <2>10 DEF OAuthInv
<1>8. CASE /\ Consumable(k, now) /\ UNCHANGED mcpGrants
           /\ \/ credentials' = used /\ exchanged' = counted
              \/ /\ credentials' = Append(used, NewCredential(1, "refresh", mcpGrants[1].expires))
                 /\ exchanged' = Append(counted, [times |-> 0, replayed |-> FALSE])
  <2> DEFINE row == [credentials[k] EXCEPT !.consumed = TRUE]
             x == [exchanged[k] EXCEPT !.times = @ + 1]
             next == NewCredential(1, "refresh", mcpGrants[1].expires)
             fresh == [times |-> 0, replayed |-> FALSE]
  <2>1. ~credentials[k].consumed /\ ~credentials[k].gone
    BY <1>8 DEF Consumable
  <2>3. /\ row \in CredentialRows /\ row.consumed /\ row.gone = credentials[k].gone
        /\ row.kind = credentials[k].kind /\ row.expires = credentials[k].expires
    BY <1>4 DEF CredentialRows
  <2>4. x \in ExchangeRows /\ x.replayed = exchanged[k].replayed /\ x.times = exchanged[k].times + 1
    BY <1>4 DEF ExchangeRows
  <2>5. mcpGrants[1] \in McpGrantRows
    BY <1>2, <1>6
  <2>6. /\ next \in CredentialRows /\ ~next.consumed /\ ~next.gone
        /\ next.expires = mcpGrants[1].expires
    BY <2>5 DEF NewCredential, McpGrantRows, CredentialRows
  <2>7. fresh \in ExchangeRows /\ fresh.times = 0 /\ ~fresh.replayed
    BY DEF ExchangeRows
  <2>8. \/ /\ credentials' = [credentials EXCEPT ![k] = row]
           /\ exchanged' = [exchanged EXCEPT ![k] = x]
        \/ /\ credentials' = Append([credentials EXCEPT ![k] = row], next)
           /\ exchanged' = Append([exchanged EXCEPT ![k] = x], fresh)
    BY <1>8 DEF used, counted
  <2> HIDE DEF row, x, next, fresh
  <2>9. LinkOK(row, x, mcpGrants[1], oauthNow)
    <3>1. x.times = 1
      BY <1>5, <2>1, <2>4 DEF LinkOK
    <3>2. ~row.gone
      BY <2>1, <2>3
    <3> QED
      BY <1>5, <2>3, <2>4, <3>1, <3>2 DEF LinkOK
  <2>10. LinkOK(next, fresh, mcpGrants[1], oauthNow)
    BY <2>6, <2>7 DEF LinkOK
  <2> QED
    BY ZenonT(60), <1>1, <1>3, <1>8, <2>1, <2>3, <2>4, <2>6, <2>7, <2>8, <2>9,
       <2>10, ChainGrows
<1>9. CASE /\ ~Replayed(k, now)
           /\ exchanged' = [exchanged EXCEPT ![k].replayed = @ \/ exchanged[k].times > 0]
           /\ UNCHANGED <<mcpGrants, credentials>>
  <2> DEFINE again == exchanged[k].times > 0
             x == [exchanged[k] EXCEPT !.replayed = @ \/ again]
  <2>1. exchanged' = [exchanged EXCEPT ![k] = x]
    BY <1>9
  <2>2. /\ x \in ExchangeRows /\ x.times = exchanged[k].times
        /\ x.replayed => exchanged[k].replayed \/ again
    BY <1>4 DEF ExchangeRows
  <2> HIDE DEF x
  <2>3. /\ exchanged' \in Seq(ExchangeRows) /\ Len(exchanged') = Len(exchanged)
        /\ exchanged'[k] = x /\ \A j \in DOMAIN exchanged \ {k} : exchanged'[j] = exchanged[j]
    BY <1>2, <1>3, <2>1, <2>2
  <2>4. again => credentials[k].consumed /\ credentials[k].gone
    BY <1>5, <1>9 DEF LinkOK, Replayed
  <2>5. LinkOK(credentials[k], x, mcpGrants[1], oauthNow)
    BY <1>5, <2>2, <2>4 DEF LinkOK
  <2>6. LinksInv'
    <3>1. DOMAIN exchanged = DOMAIN credentials
      BY <1>2
    <3> QED
      BY <1>1, <1>9, <2>3, <2>5, <3>1 DEF LinksInv, OAuthInv
  <2>7. OAuthRecords'
    BY <1>1, <1>9, <2>3, IdleOAuthCall DEF OAuthRecords, OAuthInv
  <2>8. LastInv' /\ GrantInv'
    BY <1>1, <1>9, IdleOAuthCall DEF LastInv, GrantInv, OAuthRecords, OAuthInv
  <2> QED
    BY <2>6, <2>7, <2>8 DEF OAuthInv
<1> QED
  <2>1. credentials[k].grant = 1
    BY <1>4 DEF CredentialRows
  <2> QED
    BY <1>7, <1>8, <1>9, <2>1 DEF ExchangeApplies, k, now, used, counted

-----------------------------------------------------------------------------
(* OAuth: the theorems. *)

(***************************************************************************)
(* The chain of one consent keeps its shape through every exchange, replay,*)
(* revocation, restriction and cleanup (mcp oauth.ts, tokens.ts).          *)
(***************************************************************************)
THEOREM OAuthInvAlways == OAuthSpec => []OAuthInv
<1>1. OAuthInit => OAuthInv
  <2> SUFFICES ASSUME OAuthInit
               PROVE  OAuthInv
    OBVIOUS
  <2>1. RequestLife \in Nat
    BY OAuthAssumption DEF OAuthAssumption
  <2>2. consent \in ConsentRows
    BY <2>1 DEF OAuthInit, ConsentRows
  <2> QED
    BY <2>2, IdleOAuthCall DEF OAuthInit, OAuthInv, OAuthRecords, LinksInv, LastInv, GrantInv
<1>2. OAuthInv /\ [OAuthNext]_oauthVars => OAuthInv'
  <2> SUFFICES ASSUME OAuthInv, [OAuthNext]_oauthVars
               PROVE  OAuthInv'
    OBVIOUS
  <2>1. ASSUME NEW c \in OAuthCallers, DecisionApplies(c)
        PROVE  OAuthInv'
    BY <2>1, DecisionKeeps, OAuthAssumption
  <2>2. ASSUME NEW c \in OAuthCallers, ExchangeApplies(c)
        PROVE  OAuthInv'
    BY <2>2, ExchangeKeeps
  <2>3. ASSUME NEW c \in OAuthCallers,
               \/ StartDecision(c) \/ OAuthCallEnds(c)
               \/ \E k \in DOMAIN credentials : Present(c, k)
        PROVE  OAuthInv'
    BY <2>3, OAuthStarts
  <2>4. CASE \E g \in DOMAIN mcpGrants : RevokeGrant(g)
    BY <2>4, RevokeKeeps
  <2>5. CASE RestrictOwner
    BY <2>5, RestrictOwnerKeeps
  <2>6. CASE \E k \in DOMAIN credentials : CleanUp(k)
    BY <2>6, CleanUpKeeps
  <2>7. CASE OAuthTick \/ ReadmitOwner
    BY <2>7, TickAndReadmitKeep
  <2>8. CASE UNCHANGED oauthVars
    BY <2>8 DEF oauthVars, OAuthInv, OAuthRecords, LinksInv, LinkOK, Over, LastInv, GrantInv
  <2> QED
    BY <2>1, <2>2, <2>3, <2>4, <2>5, <2>6, <2>7, <2>8 DEF OAuthNext
<1> QED
  BY <1>1, <1>2, PTL DEF OAuthSpec

(***************************************************************************)
(* One consent gives one client one chain, and whoever presents a used     *)
(* credential of it finds the grant over from then on (mcp tokens.ts).     *)
(***************************************************************************)
THEOREM ConsentsGiveOneChain == OAuthSpec => []OneChainPerConsent
<1>1. OAuthInv => OneChainPerConsent
  <2> SUFFICES ASSUME OAuthInv
               PROVE  OneChainPerConsent
    OBVIOUS
  <2>1. /\ credentials \in Seq(CredentialRows) /\ exchanged \in Seq(ExchangeRows)
        /\ Len(exchanged) = Len(credentials)
    BY DEF OAuthInv, OAuthRecords
  <2>2. ASSUME NEW k \in DOMAIN exchanged
        PROVE  /\ exchanged[k].times <= 1
               /\ exchanged[k].replayed =>
                    \/ mcpGrants[credentials[k].grant].revoked
                    \/ mcpGrants[credentials[k].grant].expires <= oauthNow
    <3>1. k \in DOMAIN credentials /\ credentials[k] \in CredentialRows
      BY <2>1, <2>2
    <3>2. credentials[k].grant = 1
      BY <3>1 DEF CredentialRows
    <3>3. LinkOK(credentials[k], exchanged[k], mcpGrants[1], oauthNow)
      BY <3>1 DEF OAuthInv, LinksInv
    <3> QED
      BY <3>2, <3>3 DEF LinkOK, Over
  <2>3. \A j, k \in DOMAIN credentials : Exchangeable(j) /\ Exchangeable(k) => j = k
    BY DEF Exchangeable, Consumable, OAuthInv, LastInv
  <2> QED
    BY <2>2, <2>3 DEF OneChainPerConsent, OAuthInv, GrantInv
<1> QED
  BY <1>1, OAuthInvAlways, PTL

-----------------------------------------------------------------------------
(* The vault: periods. *)

(***************************************************************************)
(* The accounting of one limit, per window or per day: the period that is  *)
(* open began at `start` and has `count` failures of at most `max`;        *)
(* `wrong` and `late` are the histories, and `pend` has a pair of request  *)
(* and period for each reservation that a right passphrase may still give  *)
(* back.  What is wrong or may be given back was counted in the period,    *)
(* unless a late refund lowered the count.                                 *)
(***************************************************************************)
Waiting(pend, t) == {p \in pend : p[2] = t}

PeriodOK(start, count, max, wrong, late, pend) ==
  /\ start \in Times /\ max \in Nat /\ count \in 0 .. max
  /\ wrong \in [Times -> Nat] /\ late \in [Times -> Nat]
  /\ IsFiniteSet(pend) /\ \A p \in pend : p[2] \in Nat /\ p[2] <= start
  /\ \A t \in Times : t > start => wrong[t] = 0
  /\ \A t \in Times : wrong[t] <= max + late[t]
  /\ wrong[start] + Cardinality(Waiting(pend, start)) <= count + late[start]

LEMMA WaitingFinite ==
  ASSUME NEW pend, IsFiniteSet(pend), NEW t
  PROVE  IsFiniteSet(Waiting(pend, t)) /\ Cardinality(Waiting(pend, t)) \in Nat
<1>1. Waiting(pend, t) \in SUBSET pend
  BY DEF Waiting
<1> QED
  BY <1>1, FS_Subset, FS_CardinalityType

\* A new period begins with nothing counted.
LEMMA PeriodBegins ==
  ASSUME VaultAssumption, NEW start, NEW count, NEW max, NEW wrong, NEW late, NEW pend,
         PeriodOK(start, count, max, wrong, late, pend), NEW next \in Times, next > start
  PROVE  PeriodOK(next, 0, max, wrong, late, pend)
<1> USE DEF PeriodOK
<1>1. start \in Nat /\ next \in Nat /\ Times \subseteq Nat
  BY DEF Times, VaultAssumption
<1>2. Waiting(pend, next) = {}
  BY <1>1 DEF Waiting
<1>3. Cardinality(Waiting(pend, next)) = 0
  BY <1>2, FS_EmptySet
<1>4. wrong[next] = 0 /\ late[next] \in Nat /\ 0 \in 0 .. max
  OBVIOUS
<1>5. \A p \in pend : p[2] <= next
  BY <1>1
<1>6. \A t \in Times : t > next => wrong[t] = 0
  BY <1>1
<1> QED
  BY <1>1, <1>3, <1>4, <1>5, <1>6

LEMMA WrongIsCounted ==
  ASSUME VaultAssumption, NEW start, NEW count, NEW max, NEW wrong, NEW late, NEW pend,
         PeriodOK(start, count, max, wrong, late, pend), count < max
  PROVE  PeriodOK(start, count + 1, max, [wrong EXCEPT ![start] = @ + 1], late, pend)
<1> USE DEF PeriodOK
<1> DEFINE more == [wrong EXCEPT ![start] = @ + 1]
           n == Cardinality(Waiting(pend, start))
<1>1. n \in Nat /\ count + 1 \in 0 .. max
  BY WaitingFinite
<1>2. /\ more \in [Times -> Nat] /\ more[start] = wrong[start] + 1
      /\ \A t \in Times \ {start} : more[t] = wrong[t]
  OBVIOUS
<1>3. Times \subseteq Nat
  BY DEF Times
<1> HIDE DEF more, n
<1>4. wrong[start] + n <= count + late[start] /\ wrong[start] \in Nat /\ late[start] \in Nat
  BY DEF n
<1>5. more[start] + n <= count + 1 + late[start] /\ more[start] <= max + late[start]
  BY <1>1, <1>2, <1>4
<1>6. \A t \in Times : t > start => more[t] = 0
  BY <1>2, <1>3
<1>7. \A t \in Times : more[t] <= max + late[t]
  BY <1>2, <1>5
<1> QED
  BY <1>1, <1>2, <1>5, <1>6, <1>7 DEF more, n

LEMMA RightIsReserved ==
  ASSUME VaultAssumption, NEW start, NEW count, NEW max, NEW wrong, NEW late, NEW pend,
         PeriodOK(start, count, max, wrong, late, pend), count < max, NEW c
  PROVE  PeriodOK(start, count + 1, max, wrong, late, pend \cup {<<c, start>>})
<1> USE DEF PeriodOK
<1> DEFINE p == <<c, start>>
           n == Cardinality(Waiting(pend, start))
<1>1. n \in Nat /\ count + 1 \in 0 .. max /\ start \in Nat
  BY WaitingFinite DEF Times
<1>2. IsFiniteSet(pend \cup {p})
  BY FS_AddElement
<1>3. Waiting(pend \cup {p}, start) = Waiting(pend, start) \cup {p}
  BY DEF Waiting
<1>4. Cardinality(Waiting(pend \cup {p}, start)) \in {n, n + 1}
  <2> DEFINE W == Waiting(pend, start)
  <2>1. IsFiniteSet(W)
    BY WaitingFinite
  <2> HIDE DEF W
  <2>2. Cardinality(W \cup {p}) = IF p \in W THEN Cardinality(W) ELSE Cardinality(W) + 1
    BY <2>1, FS_AddElement
  <2> QED
    BY <1>3, <2>2 DEF W
<1>5. \A q \in pend \cup {p} : q[2] \in Nat /\ q[2] <= start
  BY <1>1
<1> HIDE DEF p, n
<1>6. wrong[start] + n <= count + late[start] /\ wrong[start] \in Nat /\ late[start] \in Nat
  BY DEF n
<1>7. wrong[start] + Cardinality(Waiting(pend \cup {p}, start)) <= count + 1 + late[start]
  BY <1>1, <1>4, <1>6
<1> QED
  BY <1>1, <1>2, <1>5, <1>7 DEF p

LEMMA ReservationEnds ==
  ASSUME VaultAssumption, NEW start, NEW count, NEW max, NEW wrong, NEW late, NEW pend,
         PeriodOK(start, count, max, wrong, late, pend), NEW gone
  PROVE  PeriodOK(start, count, max, wrong, late, pend \ gone)
<1> USE DEF PeriodOK
<1>1. pend \ gone \in SUBSET pend /\ Waiting(pend \ gone, start) \in SUBSET Waiting(pend, start)
  BY DEF Waiting
<1>2. IsFiniteSet(pend \ gone)
  BY <1>1, FS_Subset
<1>3. /\ Cardinality(Waiting(pend \ gone, start)) <= Cardinality(Waiting(pend, start))
      /\ Cardinality(Waiting(pend \ gone, start)) \in Nat
      /\ Cardinality(Waiting(pend, start)) \in Nat
  BY <1>1, <1>2, WaitingFinite, FS_Subset
<1>4. wrong[start] \in Nat /\ late[start] \in Nat
  OBVIOUS
<1>5. wrong[start] + Cardinality(Waiting(pend \ gone, start)) <= count + late[start]
  BY <1>3, <1>4
<1> QED
  BY <1>2, <1>5

\* A refund lowers the count of the period it was reserved in, or comes late.
LEMMA ReservationIsRefunded ==
  ASSUME VaultAssumption, NEW start, NEW count, NEW max, NEW wrong, NEW late, NEW pend,
         PeriodOK(start, count, max, wrong, late, pend), NEW p \in pend
  PROVE  PeriodOK(start, Lower(count), max, wrong,
                  [late EXCEPT ![start] = IF start # p[2] THEN @ + 1 ELSE @], pend \ {p})
<1> USE DEF PeriodOK
<1> DEFINE later == [late EXCEPT ![start] = IF start # p[2] THEN @ + 1 ELSE @]
           n == Cardinality(Waiting(pend, start))
           m == Cardinality(Waiting(pend \ {p}, start))
<1>1. n \in Nat /\ IsFiniteSet(pend \ {p}) /\ m \in Nat /\ m <= n
  <2>1. IsFiniteSet(pend \ {p})
    BY FS_RemoveElement
  <2>2. Waiting(pend \ {p}, start) \in SUBSET Waiting(pend, start)
    BY DEF Waiting
  <2> QED
    BY <2>1, <2>2, WaitingFinite, FS_Subset
<1>2. start = p[2] => m = n - 1
  <2> SUFFICES ASSUME start = p[2]
               PROVE  m = n - 1
    OBVIOUS
  <2>1. Waiting(pend \ {p}, start) = Waiting(pend, start) \ {p} /\ p \in Waiting(pend, start)
    BY DEF Waiting
  <2> DEFINE W == Waiting(pend, start)
  <2>2. IsFiniteSet(W)
    BY WaitingFinite
  <2> HIDE DEF W
  <2>3. Cardinality(W \ {p}) = IF p \in W THEN Cardinality(W) - 1 ELSE Cardinality(W)
    BY <2>2, FS_RemoveElement
  <2> QED
    BY <2>1, <2>3 DEF W
<1>3. /\ later \in [Times -> Nat] /\ \A t \in Times : later[t] >= late[t]
      /\ later[start] = IF start # p[2] THEN late[start] + 1 ELSE late[start]
  OBVIOUS
<1> HIDE DEF later, n, m
<1>4. wrong[start] + n <= count + late[start] /\ wrong[start] \in Nat /\ late[start] \in Nat
  BY DEF n
<1>5. Lower(count) \in 0 .. max /\ Lower(count) = IF count > 0 THEN count - 1 ELSE 0
  BY DEF Lower
<1>6. wrong[start] + m <= Lower(count) + later[start]
  BY <1>1, <1>2, <1>3, <1>4, <1>5
<1>7. \A t \in Times : wrong[t] <= max + later[t]
  BY <1>3
<1> QED
  BY <1>1, <1>3, <1>5, <1>6, <1>7 DEF later, m

-----------------------------------------------------------------------------
(* The vault: the inductive invariant. *)

SessionRows == [version : Nat, lastUsed : Nat, expires : Nat, revoked : BOOLEAN]
ValueGrantRows == [under : Nat, active : BOOLEAN]
ResetRows == [version : Nat, expires : Nat, consumed : BOOLEAN]
VaultCallRows ==
  [at : {"idle", "reserve", "derive", "grant", "reset"}, now : Times, version : Nat,
   right : BOOLEAN, on : Nat, window : Times, day : Times]
UnlockLimitRows ==
  [row : BOOLEAN, window : Times, failures : Nat, day : Times, dayFailures : Nat,
   lockedUntil : Nat]
VaultHistories == [window : [Times -> Nat], day : [Times -> Nat]]

VaultRecords ==
  /\ vaultNow \in Times /\ vaultVersion \in Nat
  /\ unlockLimit \in UnlockLimitRows
  /\ ~unlockLimit.row => /\ unlockLimit.window = 0 /\ unlockLimit.failures = 0
                         /\ unlockLimit.day = 0 /\ unlockLimit.dayFailures = 0
  /\ vaultSessions \in Seq(SessionRows) /\ valueGrants \in Seq(ValueGrantRows)
  /\ resets \in Seq(ResetRows)
  /\ vaultCall \in [VaultCallers -> VaultCallRows]
  /\ wrongTries \in VaultHistories /\ lateRefunds \in VaultHistories

(***************************************************************************)
(* What is open was opened under the present version, and a request for a  *)
(* grant has the version of the session it was opened under.               *)
(***************************************************************************)
TrustInv ==
  /\ \A s \in DOMAIN vaultSessions :
       ~vaultSessions[s].revoked => vaultSessions[s].version = vaultVersion
  /\ \A g \in DOMAIN valueGrants : valueGrants[g].active => valueGrants[g].under = vaultVersion
  /\ \A c \in VaultCallers : vaultCall[c].at = "grant" =>
       /\ vaultCall[c].on \in DOMAIN vaultSessions
       /\ vaultSessions[vaultCall[c].on].version = vaultCall[c].version

\* The reservations that a right passphrase may still give back, with their periods.
Deriving == {c \in VaultCallers : vaultCall[c].at = "derive" /\ vaultCall[c].right}
WindowPending == {<<c, vaultCall[c].window>> : c \in Deriving}
DayPending == {<<c, vaultCall[c].day>> : c \in Deriving}

LimitsOK(l, wrong, late, windowPending, dayPending) ==
  /\ PeriodOK(l.window, l.failures, MaxFailures, wrong.window, late.window, windowPending)
  /\ PeriodOK(l.day, l.dayFailures, MaxDayFailures, wrong.day, late.day, dayPending)

LimitsInv == LimitsOK(unlockLimit, wrongTries, lateRefunds, WindowPending, DayPending)

VaultInv == VaultRecords /\ TrustInv /\ LimitsInv

-----------------------------------------------------------------------------
(* The vault: the steps. *)

\* Windows that ended start anew, and the limits still hold.
LEMMA LimitAtNow ==
  ASSUME VaultAssumption, VaultInv, NEW now \in Times
  PROVE  /\ LimitAt(now) \in UnlockLimitRows /\ LimitAt(now).row
         /\ LimitsOK(LimitAt(now), wrongTries, lateRefunds, WindowPending, DayPending)
<1> USE DEF VaultInv
<1>1. /\ unlockLimit \in UnlockLimitRows /\ LimitsInv
      /\ Times \subseteq Nat /\ now \in Nat /\ 0 \in Times
      /\ Window \in Nat /\ Window > 0 /\ DayWindow \in Nat /\ DayWindow > 0
  BY SMTT(30) DEF VaultRecords, VaultAssumption, Times
<1>2. CASE ~unlockLimit.row
  <2> DEFINE l == [unlockLimit EXCEPT !.row = TRUE, !.window = now, !.day = now]
  <2>1. /\ l \in UnlockLimitRows /\ l.row /\ l.window = now /\ l.day = now
        /\ l.failures = 0 /\ l.dayFailures = 0
        /\ unlockLimit.window = 0 /\ unlockLimit.day = 0
        /\ unlockLimit.failures = 0 /\ unlockLimit.dayFailures = 0
    BY <1>1, <1>2 DEF VaultRecords, UnlockLimitRows
  <2>2. LimitAt(now) = l
    BY <1>2 DEF LimitAt
  <2> HIDE DEF l
  <2>3. CASE now = 0
    BY <1>1, <2>1, <2>2, <2>3 DEF LimitsInv, LimitsOK
  <2>4. CASE now > 0
    <3>1. /\ PeriodOK(0, 0, MaxFailures, wrongTries.window, lateRefunds.window, WindowPending)
          /\ PeriodOK(0, 0, MaxDayFailures, wrongTries.day, lateRefunds.day, DayPending)
      BY <1>1, <2>1 DEF LimitsInv, LimitsOK
    <3> QED
      BY <2>1, <2>2, <2>4, <3>1, PeriodBegins DEF LimitsOK
  <2> QED
    BY <1>1, <2>3, <2>4
<1>3. CASE unlockLimit.row /\ unlockLimit.lockedUntil > now
  BY <1>1, <1>3 DEF LimitAt, LimitsInv
<1>4. CASE unlockLimit.row /\ ~(unlockLimit.lockedUntil > now)
  <2> DEFINE window == unlockLimit.window + Window <= now
             day == unlockLimit.day + DayWindow <= now
             l == [unlockLimit EXCEPT !.window = IF window THEN now ELSE @,
                                      !.failures = IF window THEN 0 ELSE @,
                                      !.day = IF day THEN now ELSE @,
                                      !.dayFailures = IF day THEN 0 ELSE @]
  <2>1. LimitAt(now) = l
    BY <1>4 DEF LimitAt
  <2>2. /\ window => now > unlockLimit.window
        /\ day => now > unlockLimit.day
    <3>1. unlockLimit.window \in Nat /\ unlockLimit.day \in Nat
      BY <1>1 DEF UnlockLimitRows
    <3>2. /\ now \in Nat /\ Window \in Nat /\ Window > 0
          /\ DayWindow \in Nat /\ DayWindow > 0
      BY <1>1
    <3> QED
      BY <3>1, <3>2
  <2> HIDE DEF window, day
  <2>3. /\ l \in UnlockLimitRows /\ l.row
        /\ l.window = IF window THEN now ELSE unlockLimit.window
        /\ l.failures = IF window THEN 0 ELSE unlockLimit.failures
        /\ l.day = IF day THEN now ELSE unlockLimit.day
        /\ l.dayFailures = IF day THEN 0 ELSE unlockLimit.dayFailures
    BY <1>1, <1>4 DEF UnlockLimitRows
  <2> HIDE DEF l
  <2>4. PeriodOK(l.window, l.failures, MaxFailures, wrongTries.window, lateRefunds.window,
                 WindowPending)
    BY <1>1, <2>2, <2>3, PeriodBegins DEF LimitsInv, LimitsOK
  <2>5. PeriodOK(l.day, l.dayFailures, MaxDayFailures, wrongTries.day, lateRefunds.day, DayPending)
    BY <1>1, <2>2, <2>3, PeriodBegins DEF LimitsInv, LimitsOK
  <2> QED
    BY <2>1, <2>3, <2>4, <2>5 DEF LimitsOK
<1> QED
  BY <1>2, <1>3, <1>4

\* A request that leaves its derivation, or was not in one, holds no reservation.
LEMMA CallLeaves ==
  ASSUME VaultRecords, NEW c \in VaultCallers, NEW row, row.at # "derive",
         vaultCall' = [vaultCall EXCEPT ![c] = row]
  PROVE  /\ WindowPending' = WindowPending \ {<<c, vaultCall[c].window>>}
         /\ DayPending' = DayPending \ {<<c, vaultCall[c].day>>}
<1>1. /\ vaultCall'[c] = row /\ \A d \in VaultCallers \ {c} : vaultCall'[d] = vaultCall[d]
  BY DEF VaultRecords
<1>2. Deriving' = Deriving \ {c}
  BY <1>1 DEF Deriving
<1>3. \A d \in Deriving : d \in VaultCallers
  BY DEF Deriving
<1> HIDE DEF Deriving
<1>4. WindowPending' = {<<d, vaultCall[d].window>> : d \in Deriving \ {c}}
  BY <1>1, <1>2, <1>3 DEF WindowPending
<1>5. DayPending' = {<<d, vaultCall[d].day>> : d \in Deriving \ {c}}
  BY <1>1, <1>2, <1>3 DEF DayPending
<1> QED
  BY <1>4, <1>5 DEF WindowPending, DayPending

(***************************************************************************)
(* A step that lets a request end, or begin, and leaves the limits alone.  *)
(***************************************************************************)
LEMMA CallStep ==
  ASSUME VaultAssumption, VaultInv, NEW c \in VaultCallers, NEW row \in VaultCallRows,
         row.at # "derive", vaultCall' = [vaultCall EXCEPT ![c] = row],
         UNCHANGED <<unlockLimit, wrongTries, lateRefunds>>
  PROVE  LimitsInv' /\ vaultCall' \in [VaultCallers -> VaultCallRows]
<1> USE DEF VaultInv
<1>1. /\ WindowPending' = WindowPending \ {<<c, vaultCall[c].window>>}
      /\ DayPending' = DayPending \ {<<c, vaultCall[c].day>>}
  BY CallLeaves
<1>2. LimitsOK(unlockLimit, wrongTries, lateRefunds, WindowPending', DayPending')
  BY <1>1, ReservationEnds DEF LimitsInv, LimitsOK
<1>3. vaultCall' \in [VaultCallers -> VaultCallRows]
  BY DEF VaultRecords
<1> QED
  BY <1>2, <1>3 DEF LimitsInv

LEMMA IdleCall ==
  ASSUME VaultAssumption
  PROVE  NoVaultCall \in VaultCallRows /\ NoVaultCall.at = "idle"
BY DEF VaultAssumption, NoVaultCall, VaultCallRows, Times

LEMMA UnlockStartKeeps ==
  ASSUME VaultAssumption, VaultInv, NEW c \in VaultCallers, NEW right \in BOOLEAN,
         StartUnlock(c, right)
  PROVE  VaultInv'
<1> USE DEF VaultInv
<1> DEFINE row == [NoVaultCall EXCEPT !.at = "reserve", !.now = vaultNow,
                                      !.version = vaultVersion, !.right = right]
<1>1. /\ vaultCall' = [vaultCall EXCEPT ![c] = row]
      /\ UNCHANGED <<vaultNow, vaultVersion, unlockLimit, vaultSessions, valueGrants, resets,
                     wrongTries, lateRefunds>>
  BY DEF StartUnlock
<1>2. row \in VaultCallRows /\ row.at = "reserve"
  <2>1. vaultNow \in Times /\ vaultVersion \in Nat /\ 0 \in Times
    BY DEF VaultRecords, VaultAssumption, Times
  <2> QED
    BY <2>1 DEF NoVaultCall, VaultCallRows
<1> HIDE DEF row
<1>3. LimitsInv' /\ vaultCall' \in [VaultCallers -> VaultCallRows]
  BY <1>1, <1>2, CallStep
<1>4. TrustInv'
  BY <1>1, <1>2 DEF TrustInv, VaultRecords
<1> QED
  BY <1>1, <1>3, <1>4 DEF VaultRecords

\* A request ends: it only forgets what it was about.
LEMMA CallEnds ==
  ASSUME VaultAssumption, VaultInv, NEW c \in VaultCallers, VaultCallDone(c),
         UNCHANGED <<vaultNow, vaultVersion, unlockLimit, vaultSessions, valueGrants, resets,
                     wrongTries, lateRefunds>>
  PROVE  VaultInv'
<1> USE DEF VaultInv
<1>1. vaultCall' = [vaultCall EXCEPT ![c] = NoVaultCall]
  BY DEF VaultCallDone
<1>2. LimitsInv' /\ vaultCall' \in [VaultCallers -> VaultCallRows]
  BY <1>1, IdleCall, CallStep
<1>3. TrustInv'
  BY <1>1, IdleCall DEF TrustInv, VaultRecords
<1> QED
  BY <1>2, <1>3 DEF VaultRecords

(***************************************************************************)
(* A try that is let in is counted before it is derived: a wrong one in    *)
(* the history, a right one as a reservation it may give back.             *)
(***************************************************************************)
LEMMA ReserveUnlockKeeps ==
  ASSUME VaultAssumption, VaultInv, NEW c \in VaultCallers, ReserveUnlock(c)
  PROVE  VaultInv'
<1> USE DEF VaultInv
<1> DEFINE now == vaultCall[c].now
           l == LimitAt(now)
<1>1. /\ vaultCall[c] \in VaultCallRows /\ vaultCall[c].at = "reserve" /\ now \in Times
      /\ UNCHANGED <<vaultNow, vaultVersion, vaultSessions, valueGrants, resets, lateRefunds>>
  BY DEF ReserveUnlock, VaultRecords, VaultCallRows
<1>2. /\ l \in UnlockLimitRows /\ l.row
      /\ LimitsOK(l, wrongTries, lateRefunds, WindowPending, DayPending)
  BY <1>1, LimitAtNow
<1>3. /\ l.window \in Times /\ l.day \in Times /\ l.failures \in Nat /\ l.dayFailures \in Nat
      /\ l.lockedUntil \in Nat /\ now + Window \in Nat
  BY <1>1, <1>2 DEF UnlockLimitRows, VaultAssumption, Times
<1>4. wrongTries \in VaultHistories /\ vaultCall \in [VaultCallers -> VaultCallRows]
  BY DEF VaultRecords
<1>5. CASE ~MayTry(l, now)
  <2>1. /\ unlockLimit' = l /\ vaultCall' = [vaultCall EXCEPT ![c] = NoVaultCall]
        /\ wrongTries' = wrongTries
    BY <1>5 DEF ReserveUnlock, VaultCallDone
  <2> HIDE DEF l, now
  <2>2. /\ WindowPending' = WindowPending \ {<<c, vaultCall[c].window>>}
        /\ DayPending' = DayPending \ {<<c, vaultCall[c].day>>}
    BY <2>1, IdleCall, CallLeaves
  <2>3. LimitsOK(l, wrongTries, lateRefunds, WindowPending', DayPending')
    BY <1>2, <2>2, ReservationEnds DEF LimitsOK
  <2>4. LimitsInv'
    BY <1>1, <2>1, <2>3 DEF LimitsInv
  <2>5. TrustInv'
    BY <1>1, <2>1, IdleCall DEF TrustInv, VaultRecords
  <2>6. VaultRecords'
    BY <1>1, <1>2, <2>1, IdleCall DEF VaultRecords
  <2> QED
    BY <2>4, <2>5, <2>6
<1>6. CASE MayTry(l, now)
  <2> DEFINE failures == l.failures + 1
             dayFailures == l.dayFailures + 1
             lockedUntil == IF l.failures + 1 >= MaxFailures THEN now + Window ELSE l.lockedUntil
             afterTry == [l EXCEPT !.failures = failures, !.dayFailures = dayFailures,
                                   !.lockedUntil = lockedUntil]
             row == [vaultCall[c] EXCEPT !.at = "derive", !.window = l.window, !.day = l.day]
  <2>1. /\ unlockLimit' = afterTry /\ vaultCall' = [vaultCall EXCEPT ![c] = row]
        /\ wrongTries' = IF vaultCall[c].right THEN wrongTries
                         ELSE Add(wrongTries, l.window, l.day)
    BY <1>4, <1>6 DEF ReserveUnlock
  <2>2. l.failures < MaxFailures /\ l.dayFailures < MaxDayFailures
    BY <1>6 DEF MayTry
  <2>3. failures \in Nat /\ dayFailures \in Nat /\ lockedUntil \in Nat
    BY <1>3
  <2> HIDE DEF failures, dayFailures, lockedUntil, l, now
  <2>4. /\ afterTry \in UnlockLimitRows /\ afterTry.row /\ afterTry.window = l.window /\ afterTry.day = l.day
        /\ afterTry.failures = failures /\ afterTry.dayFailures = dayFailures
    BY <1>2, <2>3 DEF UnlockLimitRows
  <2>5. /\ row \in VaultCallRows /\ row.at = "derive" /\ row.right = vaultCall[c].right
        /\ row.window = l.window /\ row.day = l.day
    BY <1>1, <1>3 DEF VaultCallRows
  <2> HIDE DEF afterTry, row
  <2>6. /\ vaultCall' \in [VaultCallers -> VaultCallRows] /\ vaultCall'[c] = row
        /\ \A d \in VaultCallers \ {c} : vaultCall'[d] = vaultCall[d]
    BY <1>4, <2>1, <2>5
  <2>7. c \notin Deriving
    BY <1>1 DEF Deriving
  <2>8. TrustInv'
    BY <1>1, <2>5, <2>6 DEF TrustInv
  <2>9. CASE vaultCall[c].right
    <3>1. Deriving' = Deriving \cup {c}
      BY <2>5, <2>6, <2>9 DEF Deriving
    <3>2. \A d \in Deriving : vaultCall'[d] = vaultCall[d]
      BY <2>6, <2>7 DEF Deriving
    <3>3. /\ WindowPending' = WindowPending \cup {<<c, l.window>>}
          /\ DayPending' = DayPending \cup {<<c, l.day>>}
      BY <2>5, <2>6, <3>1, <3>2 DEF WindowPending, DayPending
    <3>4. PeriodOK(l.window, failures, MaxFailures, wrongTries.window, lateRefunds.window,
                   WindowPending')
      BY <1>2, <2>2, <3>3, RightIsReserved DEF LimitsOK, failures
    <3>5. PeriodOK(l.day, dayFailures, MaxDayFailures, wrongTries.day, lateRefunds.day, DayPending')
      BY <1>2, <2>2, <3>3, RightIsReserved DEF LimitsOK, dayFailures
    <3>6. LimitsInv'
      BY <1>1, <2>1, <2>4, <2>9, <3>4, <3>5 DEF LimitsInv, LimitsOK
    <3>7. VaultRecords'
      BY <1>1, <2>1, <2>4, <2>6, <2>9 DEF VaultRecords
    <3> QED
      BY <2>8, <3>6, <3>7
  <2>10. CASE ~vaultCall[c].right
    <3>1. Deriving' = Deriving
      BY <2>5, <2>6, <2>7, <2>10 DEF Deriving
    <3>2. \A d \in Deriving : vaultCall'[d] = vaultCall[d]
      BY <2>6, <2>7 DEF Deriving
    <3>3. WindowPending' = WindowPending /\ DayPending' = DayPending
      BY <3>1, <3>2 DEF WindowPending, DayPending
    <3>4. /\ wrongTries' \in VaultHistories
          /\ wrongTries'.window = [wrongTries.window EXCEPT ![l.window] = @ + 1]
          /\ wrongTries'.day = [wrongTries.day EXCEPT ![l.day] = @ + 1]
      <4>1. wrongTries.window \in [Times -> Nat] /\ wrongTries.day \in [Times -> Nat]
        BY <1>4 DEF VaultHistories
      <4> DEFINE window == [wrongTries.window EXCEPT ![l.window] = @ + 1]
                 day == [wrongTries.day EXCEPT ![l.day] = @ + 1]
      <4>2. window \in [Times -> Nat] /\ day \in [Times -> Nat]
        BY <1>3, <4>1
      <4>3. wrongTries' = [wrongTries EXCEPT !.window = window, !.day = day]
        BY <1>4, <2>1, <2>10 DEF Add, VaultHistories
      <4> HIDE DEF window, day
      <4>4. wrongTries' \in VaultHistories /\ wrongTries'.window = window /\ wrongTries'.day = day
        BY <1>4, <4>2, <4>3 DEF VaultHistories
      <4> QED
        BY <4>4 DEF window, day
    <3>5. PeriodOK(l.window, failures, MaxFailures, wrongTries'.window, lateRefunds.window,
                   WindowPending')
      BY <1>2, <2>2, <3>3, <3>4, WrongIsCounted DEF LimitsOK, failures
    <3>6. PeriodOK(l.day, dayFailures, MaxDayFailures, wrongTries'.day, lateRefunds.day, DayPending')
      BY <1>2, <2>2, <3>3, <3>4, WrongIsCounted DEF LimitsOK, dayFailures
    <3>7. LimitsInv'
      BY <1>1, <2>1, <2>4, <3>5, <3>6 DEF LimitsInv, LimitsOK
    <3>8. VaultRecords'
      BY <1>1, <2>1, <2>4, <2>6, <3>4 DEF VaultRecords
    <3> QED
      BY <2>8, <3>7, <3>8
  <2> QED
    BY <2>9, <2>10
<1> QED
  BY <1>5, <1>6

(***************************************************************************)
(* A right passphrase opens a session of the version it was tried on, and  *)
(* gives its reservation back, in its own period or late.                  *)
(***************************************************************************)
LEMMA CommitUnlockKeeps ==
  ASSUME VaultAssumption, VaultInv, NEW c \in VaultCallers, CommitUnlock(c)
  PROVE  VaultInv'
<1> USE DEF VaultInv
<1> DEFINE call == vaultCall[c]
<1>1. /\ call \in VaultCallRows /\ call.at = "derive" /\ call.right
      /\ vaultCall' = [vaultCall EXCEPT ![c] = NoVaultCall] /\ VaultCallDone(c)
      /\ UNCHANGED <<vaultNow, vaultVersion, valueGrants, resets, wrongTries>>
  BY DEF CommitUnlock, VaultCallDone, VaultRecords
<1>2. CASE call.version # vaultVersion
  <2>1. UNCHANGED <<vaultSessions, unlockLimit, lateRefunds>>
    BY <1>2 DEF CommitUnlock
  <2> QED
    BY <1>1, <2>1, CallEnds
<1>3. CASE call.version = vaultVersion
  <2> DEFINE session == [version |-> call.version, lastUsed |-> call.now,
                         expires |-> call.now + SessionLife, revoked |-> FALSE]
             w == <<c, call.window>>
             d == <<c, call.day>>
             lateWindow == [lateRefunds.window EXCEPT ![unlockLimit.window] =
                              IF unlockLimit.window # w[2] THEN @ + 1 ELSE @]
             lateDay == [lateRefunds.day EXCEPT ![unlockLimit.day] =
                           IF unlockLimit.day # d[2] THEN @ + 1 ELSE @]
  <2>1. /\ vaultSessions' = Append(vaultSessions, session)
        /\ unlockLimit' = Refunded(unlockLimit)
        /\ lateRefunds' =
             [lateRefunds EXCEPT
                !.window[unlockLimit.window] = IF unlockLimit.window # call.window THEN @ + 1 ELSE @,
                !.day[unlockLimit.day] = IF unlockLimit.day # call.day THEN @ + 1 ELSE @]
    BY <1>3 DEF CommitUnlock
  <2>2. /\ unlockLimit \in UnlockLimitRows /\ lateRefunds \in VaultHistories
        /\ lateRefunds.window \in [Times -> Nat] /\ lateRefunds.day \in [Times -> Nat]
        /\ vaultSessions \in Seq(SessionRows) /\ LimitsInv
    BY DEF VaultRecords, VaultHistories
  <2>3. session \in SessionRows /\ ~session.revoked /\ session.version = vaultVersion
    <3>1. call.now \in Nat /\ call.version \in Nat /\ call.now + SessionLife \in Nat
      BY <1>1 DEF VaultCallRows, Times, VaultAssumption
    <3> HIDE DEF call
    <3> QED
      BY <1>3, <3>1 DEF SessionRows
  <2>4. lateWindow \in [Times -> Nat] /\ lateDay \in [Times -> Nat]
    <3>1. unlockLimit.window \in Times /\ unlockLimit.day \in Times
      BY <2>2 DEF UnlockLimitRows
    <3> HIDE DEF w, d
    <3>2. \A t \in Times : lateRefunds.window[t] + 1 \in Nat /\ lateRefunds.day[t] + 1 \in Nat
      BY SMTT(30), <2>2
    <3>3. lateWindow \in [Times -> Nat]
      BY <2>2, <3>1, <3>2
    <3>4. lateDay \in [Times -> Nat]
      BY <2>2, <3>1, <3>2
    <3> QED
      BY <3>3, <3>4
  <2>5. lateRefunds' = [lateRefunds EXCEPT !.window = lateWindow, !.day = lateDay]
    BY <2>1, <2>2 DEF VaultHistories
  <2>6. /\ Refunded(unlockLimit) \in UnlockLimitRows
        /\ Refunded(unlockLimit).row = unlockLimit.row
        /\ Refunded(unlockLimit).window = unlockLimit.window
        /\ Refunded(unlockLimit).day = unlockLimit.day
        /\ Refunded(unlockLimit).failures = Lower(unlockLimit.failures)
        /\ Refunded(unlockLimit).dayFailures = Lower(unlockLimit.dayFailures)
    <3> DEFINE failures == Lower(unlockLimit.failures)
               dayFailures == Lower(unlockLimit.dayFailures)
               lockedUntil == IF unlockLimit.failures <= MaxFailures THEN 0
                              ELSE unlockLimit.lockedUntil
    <3>1. failures \in Nat /\ dayFailures \in Nat /\ lockedUntil \in Nat
      <4>1. /\ unlockLimit.failures \in Nat /\ unlockLimit.dayFailures \in Nat
            /\ unlockLimit.lockedUntil \in Nat
        BY <2>2 DEF UnlockLimitRows
      <4>2. \A n \in Nat : Lower(n) \in Nat
        BY DEF Lower
      <4>3. lockedUntil \in {0, unlockLimit.lockedUntil}
        OBVIOUS
      <4> HIDE DEF lockedUntil
      <4> QED
        BY <4>1, <4>2, <4>3
    <3>2. Refunded(unlockLimit) = [unlockLimit EXCEPT !.failures = failures,
                                     !.dayFailures = dayFailures, !.lockedUntil = lockedUntil]
      BY <2>2 DEF Refunded, UnlockLimitRows
    <3> HIDE DEF failures, dayFailures, lockedUntil
    <3>3. /\ Refunded(unlockLimit) \in UnlockLimitRows
          /\ Refunded(unlockLimit).row = unlockLimit.row
          /\ Refunded(unlockLimit).window = unlockLimit.window
          /\ Refunded(unlockLimit).day = unlockLimit.day
          /\ Refunded(unlockLimit).failures = failures
          /\ Refunded(unlockLimit).dayFailures = dayFailures
      BY <2>2, <3>1, <3>2 DEF UnlockLimitRows
    <3> QED
      BY <3>3 DEF failures, dayFailures
  <2>7. w \in WindowPending /\ d \in DayPending
    BY <1>1 DEF WindowPending, DayPending, Deriving
  <2>8. WindowPending' = WindowPending \ {w} /\ DayPending' = DayPending \ {d}
    BY <1>1, IdleCall, CallLeaves
  <2>9. PeriodOK(unlockLimit.window, Lower(unlockLimit.failures), MaxFailures, wrongTries.window,
                 lateWindow, WindowPending \ {w})
    BY <2>2, <2>7, ReservationIsRefunded DEF LimitsInv, LimitsOK
  <2>10. PeriodOK(unlockLimit.day, Lower(unlockLimit.dayFailures), MaxDayFailures, wrongTries.day,
                  lateDay, DayPending \ {d})
    BY <2>2, <2>7, ReservationIsRefunded DEF LimitsInv, LimitsOK
  <2> HIDE DEF lateWindow, lateDay, session, w, d
  <2>11. /\ lateRefunds' \in VaultHistories /\ lateRefunds'.window = lateWindow
         /\ lateRefunds'.day = lateDay
    BY <2>2, <2>4, <2>5 DEF VaultHistories
  <2>12. LimitsInv'
    BY <1>1, <2>1, <2>6, <2>8, <2>9, <2>10, <2>11 DEF LimitsInv, LimitsOK
  <2>13. TrustInv'
    <3>1. /\ DOMAIN vaultSessions' = DOMAIN vaultSessions \cup {Len(vaultSessions) + 1}
          /\ \A s \in DOMAIN vaultSessions : vaultSessions'[s] = vaultSessions[s]
          /\ vaultSessions'[Len(vaultSessions) + 1] = session
          /\ vaultSessions' \in Seq(SessionRows)
      BY <2>1, <2>2, <2>3
    <3>2. /\ \A e \in VaultCallers \ {c} : vaultCall'[e] = vaultCall[e]
          /\ vaultCall'[c].at # "grant"
      BY <1>1, IdleCall DEF VaultRecords
    <3> QED
      BY <1>1, <2>3, <3>1, <3>2 DEF TrustInv
  <2>14. VaultRecords'
    <3>1. vaultSessions' \in Seq(SessionRows) /\ vaultCall' \in [VaultCallers -> VaultCallRows]
      BY <1>1, <2>1, <2>2, <2>3, IdleCall DEF VaultRecords
    <3>2. ~unlockLimit'.row => /\ unlockLimit'.window = 0 /\ unlockLimit'.failures = 0
                               /\ unlockLimit'.day = 0 /\ unlockLimit'.dayFailures = 0
      BY <2>1, <2>6 DEF VaultRecords, Lower
    <3> QED
      BY <1>1, <2>1, <2>6, <2>11, <3>1, <3>2 DEF VaultRecords
  <2> QED
    BY <2>12, <2>13, <2>14
<1> QED
  BY <1>2, <1>3

LEMMA GrantStartKeeps ==
  ASSUME VaultAssumption, VaultInv, NEW c \in VaultCallers, NEW s \in DOMAIN vaultSessions,
         StartGrant(c, s)
  PROVE  VaultInv'
<1> USE DEF VaultInv
<1> DEFINE row == [NoVaultCall EXCEPT !.at = "grant", !.now = vaultNow,
                                      !.version = vaultVersion, !.on = s]
           session == [vaultSessions[s] EXCEPT !.lastUsed = vaultNow]
<1>1. /\ vaultCall' = [vaultCall EXCEPT ![c] = row]
      /\ vaultSessions' = [vaultSessions EXCEPT ![s] = session]
      /\ vaultSessions[s].version = vaultVersion
      /\ UNCHANGED <<vaultNow, vaultVersion, unlockLimit, valueGrants, resets,
                     wrongTries, lateRefunds>>
  BY DEF StartGrant, SessionOpen
<1>2. /\ vaultNow \in Times /\ vaultNow \in Nat /\ vaultVersion \in Nat /\ s \in Nat /\ 0 \in Times
      /\ vaultSessions \in Seq(SessionRows) /\ vaultSessions[s] \in SessionRows
  BY DEF VaultRecords, VaultAssumption, Times
<1>3. row \in VaultCallRows /\ row.at = "grant" /\ row.on = s /\ row.version = vaultVersion
  BY <1>2 DEF NoVaultCall, VaultCallRows
<1>4. /\ session \in SessionRows /\ session.version = vaultSessions[s].version
      /\ session.revoked = vaultSessions[s].revoked
  BY <1>2 DEF SessionRows
<1> HIDE DEF row, session
<1>5. LimitsInv' /\ vaultCall' \in [VaultCallers -> VaultCallRows]
  BY <1>1, <1>3, CallStep
<1>6. /\ vaultSessions' \in Seq(SessionRows) /\ DOMAIN vaultSessions' = DOMAIN vaultSessions
      /\ \A t \in DOMAIN vaultSessions :
           /\ vaultSessions'[t].version = vaultSessions[t].version
           /\ vaultSessions'[t].revoked = vaultSessions[t].revoked
  BY <1>1, <1>2, <1>4
<1>7. \A d \in VaultCallers : vaultCall'[d] = IF d = c THEN row ELSE vaultCall[d]
  BY <1>1 DEF VaultRecords
<1>8. TrustInv'
  BY <1>1, <1>3, <1>6, <1>7 DEF TrustInv
<1> QED
  BY <1>1, <1>5, <1>6, <1>8 DEF VaultRecords

(***************************************************************************)
(* A grant is inserted while its session is open, which says that the      *)
(* version it was read under is the present one.                           *)
(***************************************************************************)
LEMMA CommitGrantKeeps ==
  ASSUME VaultAssumption, VaultInv, NEW c \in VaultCallers, CommitGrant(c)
  PROVE  VaultInv'
<1> USE DEF VaultInv
<1> DEFINE on == vaultCall[c].on
           row == [under |-> vaultCall[c].version, active |-> TRUE]
<1>1. /\ vaultCall[c].at = "grant" /\ VaultCallDone(c)
      /\ vaultCall' = [vaultCall EXCEPT ![c] = NoVaultCall]
      /\ UNCHANGED <<vaultNow, vaultVersion, unlockLimit, vaultSessions, resets,
                     wrongTries, lateRefunds>>
  BY DEF CommitGrant, VaultCallDone
<1>2. CASE UNCHANGED valueGrants
  BY <1>1, <1>2, CallEnds
<1>3. CASE GrantAuthorized(on, vaultCall[c].now)
  <2>1. valueGrants' = Append(valueGrants, row)
    BY <1>3 DEF CommitGrant
  <2>2. row.under = vaultVersion /\ row \in ValueGrantRows
    <3>1. vaultCall[c].version = vaultVersion
      BY <1>1, <1>3 DEF TrustInv, GrantAuthorized, SessionOpen
    <3> QED
      BY <3>1 DEF VaultRecords, ValueGrantRows
  <2> HIDE DEF row
  <2>3. /\ valueGrants' \in Seq(ValueGrantRows)
        /\ DOMAIN valueGrants' = DOMAIN valueGrants \cup {Len(valueGrants) + 1}
        /\ \A g \in DOMAIN valueGrants : valueGrants'[g] = valueGrants[g]
        /\ valueGrants'[Len(valueGrants) + 1] = row
    BY SMTT(30), <2>1, <2>2 DEF VaultRecords
  <2>4. LimitsInv' /\ vaultCall' \in [VaultCallers -> VaultCallRows]
    BY <1>1, IdleCall, CallStep
  <2>5. TrustInv'
    BY <1>1, <2>2, <2>3, IdleCall DEF TrustInv, VaultRecords
  <2> QED
    BY <1>1, <2>3, <2>4, <2>5 DEF VaultRecords
<1> QED
  BY <1>2, <1>3 DEF CommitGrant

\* The steps that leave the limits and the requests alone.
LEMMA LimitsUntouched ==
  ASSUME LimitsInv, UNCHANGED <<unlockLimit, wrongTries, lateRefunds, vaultCall>>
  PROVE  LimitsInv'
BY DEF LimitsInv, LimitsOK, WindowPending, DayPending, Deriving

LEMMA EndsAndLocksKeep ==
  ASSUME VaultAssumption, VaultInv,
         \/ \E g \in DOMAIN valueGrants : GrantEnds(g)
         \/ \E s \in DOMAIN vaultSessions : LockVault(s)
         \/ AuthorizeReset \/ VaultTick
  PROVE  VaultInv'
<1> USE DEF VaultInv
<1>1. /\ vaultSessions \in Seq(SessionRows) /\ valueGrants \in Seq(ValueGrantRows)
      /\ resets \in Seq(ResetRows) /\ vaultNow \in Times /\ vaultVersion \in Nat
  BY DEF VaultRecords
<1>2. ASSUME NEW g \in DOMAIN valueGrants, GrantEnds(g)
      PROVE  VaultInv'
  <2> DEFINE row == [valueGrants[g] EXCEPT !.active = FALSE]
  <2>1. /\ valueGrants' = [valueGrants EXCEPT ![g] = row]
        /\ UNCHANGED <<vaultNow, vaultVersion, unlockLimit, vaultSessions, resets, vaultCall,
                       wrongTries, lateRefunds>>
    BY <1>2 DEF GrantEnds
  <2>2. valueGrants[g] \in ValueGrantRows
    BY <1>1
  <2>3. row \in ValueGrantRows /\ ~row.active
    BY <2>2 DEF ValueGrantRows
  <2> HIDE DEF row
  <2>4. valueGrants' \in Seq(ValueGrantRows) /\ TrustInv'
    BY SMTT(30), <1>1, <2>1, <2>3 DEF TrustInv
  <2> QED
    BY <2>1, <2>4, LimitsUntouched DEF VaultRecords
<1>3. ASSUME NEW s \in DOMAIN vaultSessions, LockVault(s)
      PROVE  VaultInv'
  <2> DEFINE row == [vaultSessions[s] EXCEPT !.revoked = TRUE]
  <2>1. /\ vaultSessions' = [vaultSessions EXCEPT ![s] = row]
        /\ UNCHANGED <<vaultNow, vaultVersion, unlockLimit, valueGrants, resets, vaultCall,
                       wrongTries, lateRefunds>>
    BY <1>3 DEF LockVault
  <2>2. vaultSessions[s] \in SessionRows
    BY <1>1
  <2>3. row \in SessionRows /\ row.revoked /\ row.version = vaultSessions[s].version
    BY <2>2 DEF SessionRows
  <2> HIDE DEF row
  <2>4. vaultSessions' \in Seq(SessionRows) /\ TrustInv'
    BY SMTT(30), <1>1, <2>1, <2>3 DEF TrustInv
  <2> QED
    BY <2>1, <2>4, LimitsUntouched DEF VaultRecords
<1>4. CASE AuthorizeReset
  <2> DEFINE row == [version |-> vaultVersion, expires |-> vaultNow + AuthorizationLife,
                     consumed |-> FALSE]
  <2>1. /\ resets' = Append(resets, row)
        /\ UNCHANGED <<vaultNow, vaultVersion, unlockLimit, vaultSessions, valueGrants, vaultCall,
                       wrongTries, lateRefunds>>
    BY <1>4 DEF AuthorizeReset
  <2>2. row \in ResetRows
    BY SMTT(30), <1>1 DEF ResetRows, Times, VaultAssumption
  <2> HIDE DEF row
  <2>3. resets' \in Seq(ResetRows) /\ TrustInv'
    BY <1>1, <2>1, <2>2 DEF TrustInv
  <2> QED
    BY <2>1, <2>3, LimitsUntouched DEF VaultRecords
<1>5. CASE VaultTick
  <2>1. /\ vaultNow' \in Times
        /\ UNCHANGED <<vaultVersion, unlockLimit, vaultSessions, valueGrants, resets, vaultCall,
                       wrongTries, lateRefunds>>
    BY SMTT(30), <1>1, <1>5 DEF VaultTick, Times, VaultAssumption
  <2> QED
    BY <2>1, LimitsUntouched DEF VaultRecords, TrustInv
<1> QED
  BY <1>2, <1>3, <1>4, <1>5

LEMMA ResetStartKeeps ==
  ASSUME VaultAssumption, VaultInv, NEW c \in VaultCallers, NEW a \in DOMAIN resets,
         StartReset(c, a)
  PROVE  VaultInv'
<1> USE DEF VaultInv
<1> DEFINE row == [NoVaultCall EXCEPT !.at = "reset", !.now = vaultNow,
                                      !.version = vaultVersion, !.on = a]
<1>1. /\ vaultCall' = [vaultCall EXCEPT ![c] = row]
      /\ UNCHANGED <<vaultNow, vaultVersion, unlockLimit, vaultSessions, valueGrants, resets,
                     wrongTries, lateRefunds>>
  BY DEF StartReset
<1>2. row \in VaultCallRows /\ row.at = "reset"
  <2>1. vaultNow \in Times /\ vaultVersion \in Nat /\ 0 \in Times /\ a \in Nat
    BY DEF VaultRecords, VaultAssumption, Times
  <2> QED
    BY <2>1 DEF NoVaultCall, VaultCallRows
<1> HIDE DEF row
<1>3. LimitsInv' /\ vaultCall' \in [VaultCallers -> VaultCallRows]
  BY <1>1, <1>2, CallStep
<1>4. TrustInv'
  BY <1>1, <1>2 DEF TrustInv, VaultRecords
<1> QED
  BY <1>1, <1>3, <1>4 DEF VaultRecords

\* A table of which some rows were replaced.
(***************************************************************************)
(* A reset ends every session and every grant that there is; a request for *)
(* a grant that is under way keeps the version its session has.            *)
(***************************************************************************)
LEMMA CommitResetKeeps ==
  ASSUME VaultAssumption, VaultInv, NEW c \in VaultCallers, CommitReset(c)
  PROVE  VaultInv'
<1> USE DEF VaultInv
<1>1. /\ VaultCallDone(c) /\ vaultCall' = [vaultCall EXCEPT ![c] = NoVaultCall]
      /\ UNCHANGED <<vaultNow, unlockLimit, wrongTries, lateRefunds>>
  BY DEF CommitReset, VaultCallDone
<1>2. CASE UNCHANGED <<vaultVersion, resets, vaultSessions, valueGrants>>
  BY <1>1, <1>2, CallEnds
<1>3. CASE \E sent : /\ ResetAuthorized(vaultCall[c].on, vaultCall[c].version, sent)
                     /\ vaultVersion' = vaultVersion + 1
                     /\ resets' = [resets EXCEPT ![vaultCall[c].on].consumed = TRUE]
                     /\ vaultSessions' = [s \in DOMAIN vaultSessions |->
                                            [vaultSessions[s] EXCEPT !.revoked = TRUE]]
                     /\ valueGrants' = [g \in DOMAIN valueGrants |->
                                          [valueGrants[g] EXCEPT !.active = FALSE]]
  <2>1. /\ vaultVersion' = vaultVersion + 1
        /\ resets' = [resets EXCEPT ![vaultCall[c].on].consumed = TRUE]
        /\ vaultSessions' = [s \in DOMAIN vaultSessions |->
                               [vaultSessions[s] EXCEPT !.revoked = TRUE]]
        /\ valueGrants' = [g \in DOMAIN valueGrants |->
                             [valueGrants[g] EXCEPT !.active = FALSE]]
    BY <1>3
  <2>2. /\ vaultSessions \in Seq(SessionRows) /\ valueGrants \in Seq(ValueGrantRows)
        /\ resets \in Seq(ResetRows) /\ vaultVersion \in Nat
    BY DEF VaultRecords
  <2>3. vaultVersion' \in Nat
    BY <2>1, <2>2
  <2>4. \A row \in SessionRows : /\ [row EXCEPT !.revoked = TRUE] \in SessionRows
                                 /\ [row EXCEPT !.revoked = TRUE].revoked
                                 /\ [row EXCEPT !.revoked = TRUE].version = row.version
    BY DEF SessionRows
  <2>5. /\ vaultSessions' \in Seq(SessionRows) /\ DOMAIN vaultSessions' = DOMAIN vaultSessions
        /\ \A s \in DOMAIN vaultSessions :
             vaultSessions'[s].revoked /\ vaultSessions'[s].version = vaultSessions[s].version
    <3> DEFINE ended(s) == [vaultSessions[s] EXCEPT !.revoked = TRUE]
    <3>1. \A s \in DOMAIN vaultSessions :
            /\ ended(s) \in SessionRows
            /\ ended(s).revoked /\ ended(s).version = vaultSessions[s].version
      BY <2>2, <2>4
    <3>2. vaultSessions' = [s \in DOMAIN vaultSessions |-> ended(s)]
      BY <2>1
    <3> HIDE DEF ended
    <3>3. vaultSessions' \in [DOMAIN vaultSessions -> SessionRows]
      BY <3>1, <3>2
    <3> QED
      BY <2>2, <3>1, <3>2, <3>3, RowsUpdated
  <2>6. \A row \in ValueGrantRows : /\ [row EXCEPT !.active = FALSE] \in ValueGrantRows
                                    /\ ~[row EXCEPT !.active = FALSE].active
    BY DEF ValueGrantRows
  <2>7. /\ valueGrants' \in Seq(ValueGrantRows) /\ DOMAIN valueGrants' = DOMAIN valueGrants
        /\ \A g \in DOMAIN valueGrants : ~valueGrants'[g].active
    <3> DEFINE ended(g) == [valueGrants[g] EXCEPT !.active = FALSE]
    <3>1. \A g \in DOMAIN valueGrants : ended(g) \in ValueGrantRows /\ ~ended(g).active
      BY <2>2, <2>6
    <3>2. valueGrants' = [g \in DOMAIN valueGrants |-> ended(g)]
      BY <2>1
    <3> HIDE DEF ended
    <3>3. valueGrants' \in [DOMAIN valueGrants -> ValueGrantRows]
      BY <3>1, <3>2
    <3> QED
      BY <2>2, <3>1, <3>2, <3>3, RowsUpdated
  <2>8. resets' \in Seq(ResetRows)
    <3> DEFINE on == vaultCall[c].on
               row == [resets[on] EXCEPT !.consumed = TRUE]
    <3>1. resets' = [resets EXCEPT ![on] = row]
      BY <2>1
    <3>2. on \in DOMAIN resets => row \in ResetRows
      <4>1. on \in DOMAIN resets => resets[on] \in ResetRows
        BY <2>2
      <4> QED
        BY <4>1 DEF ResetRows
    <3> HIDE DEF row, on
    <3>3. \A r \in DOMAIN resets : resets[r] \in ResetRows
      BY <2>2
    <3>4. resets' \in [DOMAIN resets -> ResetRows]
      BY <3>1, <3>2, <3>3
    <3> QED
      BY <2>2, <3>4, RowsUpdated
  <2>9. LimitsInv' /\ vaultCall' \in [VaultCallers -> VaultCallRows]
    BY <1>1, IdleCall, CallStep
  <2>10. TrustInv'
    <3>1. \A d \in VaultCallers : vaultCall'[d].at = "grant" => vaultCall'[d] = vaultCall[d]
      BY <1>1, IdleCall DEF VaultRecords
    <3> QED
      BY SMTT(30), <2>5, <2>7, <3>1 DEF TrustInv
  <2> QED
    BY <1>1, <2>3, <2>5, <2>7, <2>8, <2>9, <2>10 DEF VaultRecords
<1> QED
  BY <1>2, <1>3 DEF CommitReset

-----------------------------------------------------------------------------
(* The vault: the theorems. *)

LEMMA VaultInitInv ==
  ASSUME VaultAssumption, VaultInit
  PROVE  VaultInv
<1>1. 0 \in Times /\ MaxFailures \in Nat /\ MaxDayFailures \in Nat /\ Times \subseteq Nat
  BY DEF Times, VaultAssumption
<1>2. NoneYet \in VaultHistories /\ \A t \in Times : NoneYet.window[t] = 0 /\ NoneYet.day[t] = 0
  BY DEF NoneYet, VaultHistories
<1>3. VaultRecords
  BY <1>1, <1>2, IdleCall DEF VaultInit, VaultRecords, UnlockLimitRows
<1>4. TrustInv
  BY IdleCall DEF VaultInit, TrustInv
<1>5. WindowPending = {} /\ DayPending = {}
  BY IdleCall DEF VaultInit, WindowPending, DayPending, Deriving
<1>6. Waiting({}, 0) = {} /\ IsFiniteSet({}) /\ Cardinality(Waiting({}, 0)) = 0
  BY FS_EmptySet DEF Waiting
<1>7. \A max \in Nat, none \in [Times -> Nat] :
        (\A t \in Times : none[t] = 0) => PeriodOK(0, 0, max, none, none, {})
  BY <1>1, <1>6 DEF PeriodOK
<1>8. NoneYet.window \in [Times -> Nat] /\ NoneYet.day \in [Times -> Nat]
  BY <1>2 DEF VaultHistories
<1>9. LimitsInv
  BY <1>1, <1>2, <1>5, <1>7, <1>8 DEF VaultInit, LimitsInv, LimitsOK
<1> QED
  BY <1>3, <1>4, <1>9 DEF VaultInv

(***************************************************************************)
(* The invariant holds through every interleaving of unlocks, grants,      *)
(* locks and resets, however late their batches arrive.                    *)
(***************************************************************************)
THEOREM VaultInvAlways == VaultSpec => []VaultInv
<1>1. VaultInit => VaultInv
  BY VaultInitInv, VaultAssumption
<1>2. VaultInv /\ [VaultNext]_vaultVars => VaultInv'
  <2> SUFFICES ASSUME VaultInv, [VaultNext]_vaultVars
               PROVE  VaultInv'
    OBVIOUS
  <2>1. ASSUME NEW c \in VaultCallers, \E right \in BOOLEAN : StartUnlock(c, right)
        PROVE  VaultInv'
    BY <2>1, UnlockStartKeeps, VaultAssumption
  <2>2. ASSUME NEW c \in VaultCallers, ReserveUnlock(c) \/ CommitUnlock(c)
        PROVE  VaultInv'
    BY <2>2, ReserveUnlockKeeps, CommitUnlockKeeps, VaultAssumption
  <2>3. ASSUME NEW c \in VaultCallers, WrongPassphrase(c) \/ VaultCallEnds(c)
        PROVE  VaultInv'
    BY <2>3, CallEnds, VaultAssumption DEF WrongPassphrase, VaultCallEnds
  <2>4. ASSUME NEW c \in VaultCallers, \E s \in DOMAIN vaultSessions : StartGrant(c, s)
        PROVE  VaultInv'
    BY <2>4, GrantStartKeeps, VaultAssumption
  <2>5. ASSUME NEW c \in VaultCallers, CommitGrant(c) \/ CommitReset(c)
        PROVE  VaultInv'
    BY <2>5, CommitGrantKeeps, CommitResetKeeps, VaultAssumption
  <2>6. ASSUME NEW c \in VaultCallers, \E a \in DOMAIN resets : StartReset(c, a)
        PROVE  VaultInv'
    BY <2>6, ResetStartKeeps, VaultAssumption
  <2>7. CASE \/ \E g \in DOMAIN valueGrants : GrantEnds(g)
             \/ \E s \in DOMAIN vaultSessions : LockVault(s)
             \/ AuthorizeReset \/ VaultTick
    BY <2>7, EndsAndLocksKeep, VaultAssumption
  <2>8. CASE UNCHANGED vaultVars
    BY <2>8 DEF vaultVars, VaultInv, VaultRecords, TrustInv, LimitsInv, LimitsOK, WindowPending,
                DayPending, Deriving
  <2> QED
    BY <2>1, <2>2, <2>3, <2>4, <2>5, <2>6, <2>7, <2>8 DEF VaultNext
<1> QED
  BY <1>1, <1>2, PTL DEF VaultSpec

(***************************************************************************)
(* After a reset nothing that an earlier passphrase opened is left, whoever*)
(* was unlocking or granting meanwhile (vault reset.ts, grants.ts).        *)
(***************************************************************************)
THEOREM ResetsEndTrust == VaultSpec => []ResetEndsTrust
<1>1. VaultInv => ResetEndsTrust
  <2> SUFFICES ASSUME VaultInv
               PROVE  ResetEndsTrust
    OBVIOUS
  <2>1. vaultVersion \in Nat
    BY DEF VaultInv, VaultRecords
  <2> QED
    BY <2>1 DEF VaultInv, TrustInv, ResetEndsTrust
<1> QED
  BY <1>1, VaultInvAlways, PTL

(***************************************************************************)
(* However many passphrases are tried at once, and however late refunds    *)
(* come, no window and no day lets in more wrong ones than its limit, but  *)
(* for refunds of earlier ones (vault unlock.ts).                          *)
(***************************************************************************)
THEOREM VaultTriesAreLimited == VaultSpec => []TriesAreLimited
<1>1. VaultInv => TriesAreLimited
  BY DEF VaultInv, LimitsInv, LimitsOK, PeriodOK, TriesAreLimited
<1> QED
  BY <1>1, VaultInvAlways, PTL

-----------------------------------------------------------------------------
(* Sharing: the inductive invariant. *)

SourceRows == [head : Nat, active : BOOLEAN, admitted : BOOLEAN]
ProposalRows == [head : Nat, status : {"none", "pending", "released", "expired"}]
ShareRows == [password : BOOLEAN, status : {"active", "revoked", "disabled"}, generation : Nat,
              proposed : BOOLEAN, head : Nat]
ReleaserRows == [at : {"idle", "release", "revoke"}, head : Nat, proposed : BOOLEAN, on : Nat,
                 generation : Nat]
GuestRows == [at : {"idle", "fetch", "reserve", "verify"}, grant : Nat, generation : Nat,
              right : BOOLEAN, now : Windows]
TryCounts == [own : [Windows -> Nat], all : [Windows -> Nat]]
TryRows == [counted : TryCounts, wrong : TryCounts]

ShareRecords ==
  /\ source \in SourceRows /\ proposal \in ProposalRows
  /\ shares \in Seq(ShareRows) /\ Len(shares) <= MaxShares
  /\ tries \in [1 .. MaxShares -> TryRows] /\ shareNow \in Windows
  /\ releaser \in [Releasers -> ReleaserRows] /\ guest \in [Guests -> GuestRows]

ReleasedInv ==
  /\ \A g, h \in DOMAIN shares : shares[g].proposed /\ shares[h].proposed => g = h
  /\ \A g \in DOMAIN shares : shares[g].proposed => shares[g].head = proposal.head
  /\ proposal.status = "released" <=> \E g \in DOMAIN shares : shares[g].proposed
  /\ \A o \in Releasers :
       /\ releaser[o].at = "release" => releaser[o].on \in {0} \cup DOMAIN shares
       /\ releaser[o].at = "revoke" => releaser[o].on \in DOMAIN shares

ServedInv ==
  \A r \in served : /\ r.grant \in DOMAIN shares /\ r.active
                    /\ shares[r.grant].password => r.proved

(***************************************************************************)
(* The readers whose right password may still give back what it reserved   *)
(* of a limit: what is wrong or may be given back was counted.             *)
(***************************************************************************)
Refundable(gs, g, times) ==
  {q \in Guests : /\ gs[q].at = "verify" /\ gs[q].right
                  /\ gs[q].grant = g /\ gs[q].now \in times}

Bounded(counted, wrong, max, pend) ==
  /\ counted \in Nat /\ wrong \in Nat /\ counted <= max
  /\ IsFiniteSet(pend) /\ wrong + Cardinality(pend) <= counted

TimesOfDay(d) == {t \in Windows : DayOf(t) = d}

TriesInv ==
  /\ \A g \in 1 .. MaxShares, t \in Windows :
       /\ Bounded(tries[g].counted.own[t], tries[g].wrong.own[t], TriesPerWindow,
                  Refundable(guest, g, {t}))
       /\ Bounded(tries[g].counted.all[t], tries[g].wrong.all[t], TriesPerDay,
                  Refundable(guest, g, TimesOfDay(t)))
  /\ \A q \in Guests : guest[q].at # "idle" => guest[q].grant \in DOMAIN shares

SharingInv == ShareRecords /\ ReleasedInv /\ ServedInv /\ TriesInv

-----------------------------------------------------------------------------
(* Sharing: the limits. *)

LEMMA DayOfWindow == ASSUME NEW t \in Windows PROVE DayOf(t) \in Windows
BY ShareAssumption DEF ShareAssumption, Windows, DayOf

LEMMA BoundCounts ==
  ASSUME NEW counted, NEW wrong, NEW max \in Nat, NEW pend, Bounded(counted, wrong, max, pend),
         counted < max
  PROVE  /\ Bounded(counted + 1, wrong + 1, max, pend)
         /\ \A q : q \notin pend => Bounded(counted + 1, wrong + 0, max, pend \cup {q})
<1>1. Cardinality(pend) \in Nat
  BY FS_CardinalityType DEF Bounded
<1>2. Bounded(counted + 1, wrong + 1, max, pend)
  BY <1>1 DEF Bounded
<1>3. ASSUME NEW q, q \notin pend
      PROVE  Bounded(counted + 1, wrong + 0, max, pend \cup {q})
  <2>1. /\ IsFiniteSet(pend \cup {q})
        /\ Cardinality(pend \cup {q}) = Cardinality(pend) + 1
    BY <1>3, FS_AddElement DEF Bounded
  <2> QED
    BY <1>1, <2>1 DEF Bounded
<1> QED
  BY <1>2, <1>3

\* A request ends, with its reservation or, if it had a right password, without.
LEMMA BoundEnds ==
  ASSUME NEW counted, NEW wrong, NEW max \in Nat, NEW pend, Bounded(counted, wrong, max, pend),
         NEW q
  PROVE  /\ Bounded(counted, wrong, max, pend \ {q})
         /\ q \in pend => Bounded(counted + (-1), wrong, max, pend \ {q})
<1>1. Cardinality(pend) \in Nat
  BY FS_CardinalityType DEF Bounded
<1>2. CASE q \notin pend
  <2>1. pend \ {q} = pend
    BY <1>2
  <2> QED
    BY <1>2, <2>1
<1>3. CASE q \in pend
  <2>1. /\ IsFiniteSet(pend \ {q})
        /\ Cardinality(pend \ {q}) = Cardinality(pend) - 1
    BY <1>3, FS_RemoveElement DEF Bounded
  <2>2. Cardinality(pend \ {q}) \in Nat
    BY <2>1, FS_CardinalityType
  <2> QED
    BY <1>1, <2>1, <2>2 DEF Bounded
<1> QED
  BY <1>2, <1>3

\* A reader that goes on to something else no longer has anything to give back.
LEMMA RefundableAfter ==
  ASSUME guest \in [Guests -> GuestRows], NEW q \in Guests, NEW row \in GuestRows,
         guest' = [guest EXCEPT ![q] = row], NEW g, NEW times
  PROVE  IF row.at = "verify" /\ row.right /\ row.grant = g /\ row.now \in times
         THEN Refundable(guest', g, times) = Refundable(guest, g, times) \cup {q}
         ELSE Refundable(guest', g, times) = Refundable(guest, g, times) \ {q}
BY DEF Refundable

LEMMA CountAt ==
  ASSUME NEW l \in TryCounts, NEW t \in Windows, NEW n \in Int,
         l.own[t] + n \in Nat, l.all[DayOf(t)] + n \in Nat
  PROVE  /\ Count(l, t, n) \in TryCounts
         /\ Count(l, t, n).own[t] = l.own[t] + n
         /\ Count(l, t, n).all[DayOf(t)] = l.all[DayOf(t)] + n
         /\ \A u \in Windows \ {t} : Count(l, t, n).own[u] = l.own[u]
         /\ \A u \in Windows \ {DayOf(t)} : Count(l, t, n).all[u] = l.all[u]
<1> DEFINE own == [l.own EXCEPT ![t] = @ + n]
           all == [l.all EXCEPT ![DayOf(t)] = @ + n]
           new == Count(l, t, n)
<1>1. l.own \in [Windows -> Nat] /\ l.all \in [Windows -> Nat] /\ DayOf(t) \in Windows
  BY DayOfWindow DEF TryCounts
<1>2. new = [own |-> own, all |-> all]
  <2>1. new = [l EXCEPT !.own = own, !.all = all]
    BY DEF Count
  <2> HIDE DEF own, all, new
  <2>2. l = [own |-> l.own, all |-> l.all]
    BY DEF TryCounts
  <2> QED
    BY <2>1, <2>2
<1>3. /\ own \in [Windows -> Nat] /\ own[t] = l.own[t] + n
      /\ \A u \in Windows \ {t} : own[u] = l.own[u]
  BY <1>1
<1>4. /\ all \in [Windows -> Nat] /\ all[DayOf(t)] = l.all[DayOf(t)] + n
      /\ \A u \in Windows \ {DayOf(t)} : all[u] = l.all[u]
  BY <1>1
<1> HIDE DEF own, all
<1>5. new \in TryCounts /\ new.own = own /\ new.all = all
  BY <1>2, <1>3, <1>4 DEF TryCounts
<1> HIDE DEF new
<1>6. new \in TryCounts /\ new.own[t] = l.own[t] + n /\ new.all[DayOf(t)] = l.all[DayOf(t)] + n
  BY <1>3, <1>4, <1>5
<1>7. /\ \A u \in Windows \ {t} : new.own[u] = l.own[u]
      /\ \A u \in Windows \ {DayOf(t)} : new.all[u] = l.all[u]
  BY <1>3, <1>4, <1>5
<1> QED
  BY <1>6, <1>7 DEF new

LEMMA BothCounted ==
  ASSUME NEW row \in TryRows, NEW counted, NEW wrong
  PROVE  [row EXCEPT !.counted = counted, !.wrong = wrong] =
           [counted |-> counted, wrong |-> wrong]
<1> DEFINE new == [row EXCEPT !.counted = counted, !.wrong = wrong]
<1>1. row = [counted |-> row.counted, wrong |-> row.wrong]
  BY DEF TryRows
<1>2. new = [row EXCEPT !.counted = counted, !.wrong = wrong]
  OBVIOUS
<1> HIDE DEF new
<1>3. new = [counted |-> counted, wrong |-> wrong]
  BY <1>1, <1>2
<1> QED
  BY <1>3 DEF new

LEMMA LimitTypes ==
  ASSUME ShareRecords, NEW g \in 1 .. MaxShares
  PROVE  /\ tries[g].counted \in TryCounts /\ tries[g].wrong \in TryCounts
         /\ \A t \in Windows : /\ tries[g].counted.own[t] \in Nat /\ tries[g].wrong.own[t] \in Nat
                               /\ tries[g].counted.all[t] \in Nat /\ tries[g].wrong.all[t] \in Nat
BY DEF ShareRecords, TryRows, TryCounts

\* Steps of one reader that leave the limits and all rows alone.
LEMMA GuestMoves ==
  ASSUME SharingInv, NEW q \in Guests, NEW row \in GuestRows, row.at # "verify",
         row.at # "idle" => row.grant \in DOMAIN shares,
         guest' = [guest EXCEPT ![q] = row],
         UNCHANGED <<shares, tries>>
  PROVE  TriesInv' /\ guest' \in [Guests -> GuestRows]
<1>1. guest \in [Guests -> GuestRows] /\ guest' \in [Guests -> GuestRows]
  <2>1. guest \in [Guests -> GuestRows]
    BY DEF SharingInv, ShareRecords
  <2> QED
    BY <2>1
<1>2. \A g, times : Refundable(guest', g, times) = Refundable(guest, g, times) \ {q}
  BY <1>1 DEF Refundable
<1>3. TriesPerWindow \in Nat /\ TriesPerDay \in Nat
  BY ShareAssumption DEF ShareAssumption
<1>4. ASSUME NEW g \in 1 .. MaxShares, NEW t \in Windows
      PROVE  /\ Bounded(tries[g].counted.own[t], tries[g].wrong.own[t], TriesPerWindow,
                        Refundable(guest, g, {t}) \ {q})
             /\ Bounded(tries[g].counted.all[t], tries[g].wrong.all[t], TriesPerDay,
                        Refundable(guest, g, TimesOfDay(t)) \ {q})
  BY <1>3, BoundEnds DEF SharingInv, TriesInv
<1>5. \A p \in Guests : guest'[p].at # "idle" => guest'[p].grant \in DOMAIN shares
  BY <1>1 DEF SharingInv, TriesInv
<1>6. \A g \in 1 .. MaxShares, t \in Windows :
        /\ Bounded(tries'[g].counted.own[t], tries'[g].wrong.own[t], TriesPerWindow,
                   Refundable(guest', g, {t}))
        /\ Bounded(tries'[g].counted.all[t], tries'[g].wrong.all[t], TriesPerDay,
                   Refundable(guest', g, TimesOfDay(t)))
  BY ZenonT(60), <1>2, <1>4
<1> QED
  BY <1>1, <1>5, <1>6 DEF TriesInv

LEMMA NobodyIsIdle == NoGuest \in GuestRows /\ NoGuest.at = "idle"
BY ShareAssumption DEF NoGuest, GuestRows, Windows, ShareAssumption

(***************************************************************************)
(* Counts that change for one grant and one time only, in the own window   *)
(* and in the day of all, with the readers who may give something back.    *)
(***************************************************************************)
CountsMoved(g, t, row, next) ==
  /\ \A u \in Windows \ {t} : /\ row.counted.own[u] = tries[g].counted.own[u]
                              /\ row.wrong.own[u] = tries[g].wrong.own[u]
  /\ \A u \in Windows \ {DayOf(t)} : /\ row.counted.all[u] = tries[g].counted.all[u]
                                     /\ row.wrong.all[u] = tries[g].wrong.all[u]
  /\ \A h, times : h # g \/ t \notin times => Refundable(next, h, times) = Refundable(guest, h, times)
  /\ Bounded(row.counted.own[t], row.wrong.own[t], TriesPerWindow, Refundable(next, g, {t}))
  /\ Bounded(row.counted.all[DayOf(t)], row.wrong.all[DayOf(t)], TriesPerDay,
             Refundable(next, g, TimesOfDay(DayOf(t))))
  /\ \A p \in Guests : next[p].at # "idle" => next[p].grant \in DOMAIN shares

LEMMA TriesStep ==
  ASSUME SharingInv, NEW g \in 1 .. MaxShares, NEW t \in Windows, NEW row \in TryRows,
         CountsMoved(g, t, row, guest'), tries' = [tries EXCEPT ![g] = row], UNCHANGED shares
  PROVE  TriesInv' /\ tries' \in [1 .. MaxShares -> TryRows]
<1> USE DEF CountsMoved
<1>1. tries \in [1 .. MaxShares -> TryRows]
  BY DEF SharingInv, ShareRecords
<1>2. /\ tries' \in [1 .. MaxShares -> TryRows] /\ tries'[g] = row
      /\ \A h \in 1 .. MaxShares \ {g} : tries'[h] = tries[h]
  BY <1>1
<1>3. ASSUME NEW h \in 1 .. MaxShares, NEW u \in Windows
      PROVE  Bounded(tries'[h].counted.own[u], tries'[h].wrong.own[u], TriesPerWindow,
                     Refundable(guest', h, {u}))
  <2>1. Bounded(tries[h].counted.own[u], tries[h].wrong.own[u], TriesPerWindow,
                Refundable(guest, h, {u}))
    BY DEF SharingInv, TriesInv
  <2>2. CASE h = g /\ u = t
    BY <1>2, <2>2
  <2>3. CASE h # g \/ u # t
    <3>1. Refundable(guest', h, {u}) = Refundable(guest, h, {u})
      BY <2>3
    <3>2. /\ tries'[h].counted.own[u] = tries[h].counted.own[u]
          /\ tries'[h].wrong.own[u] = tries[h].wrong.own[u]
      BY <1>2, <2>3
    <3> QED
      BY <2>1, <3>1, <3>2
  <2> QED
    BY <2>2, <2>3
<1>4. ASSUME NEW h \in 1 .. MaxShares, NEW u \in Windows
      PROVE  Bounded(tries'[h].counted.all[u], tries'[h].wrong.all[u], TriesPerDay,
                     Refundable(guest', h, TimesOfDay(u)))
  <2>1. Bounded(tries[h].counted.all[u], tries[h].wrong.all[u], TriesPerDay,
                Refundable(guest, h, TimesOfDay(u)))
    BY DEF SharingInv, TriesInv
  <2>2. CASE h = g /\ u = DayOf(t)
    BY <1>2, <2>2
  <2>3. CASE h # g \/ u # DayOf(t)
    <3>1. Refundable(guest', h, TimesOfDay(u)) = Refundable(guest, h, TimesOfDay(u))
      BY <2>3 DEF TimesOfDay
    <3>2. /\ tries'[h].counted.all[u] = tries[h].counted.all[u]
          /\ tries'[h].wrong.all[u] = tries[h].wrong.all[u]
      BY <1>2, <2>3
    <3> QED
      BY <2>1, <3>1, <3>2
  <2> QED
    BY <2>2, <2>3
<1> QED
  BY <1>2, <1>3, <1>4 DEF TriesInv

LEMMA ReservePasswordKeeps ==
  ASSUME SharingInv, NEW q \in Guests, ReservePassword(q)
  PROVE  TriesInv' /\ ShareRecords'
<1> DEFINE g == guest[q].grant
           t == guest[q].now
           n == IF guest[q].right THEN 0 ELSE 1
           row == [counted |-> Count(tries[g].counted, t, 1), wrong |-> Count(tries[g].wrong, t, n)]
           verifying == [guest[q] EXCEPT !.at = "verify"]
<1>1. /\ UNCHANGED <<source, proposal, shares, shareNow, releaser>> /\ guest[q].at = "reserve"
      /\ \/ guest' = [guest EXCEPT ![q] = NoGuest] /\ UNCHANGED tries
         \/ /\ MayTryPassword(g, t)
            /\ tries' = [tries EXCEPT ![g].counted = Count(@, t, 1), ![g].wrong = Count(@, t, n)]
            /\ guest' = [guest EXCEPT ![q] = verifying]
  BY DEF ReservePassword
<1>2. guest \in [Guests -> GuestRows] /\ tries \in [1 .. MaxShares -> TryRows]
  BY DEF SharingInv, ShareRecords
<1>3. guest[q] \in GuestRows /\ t \in Windows /\ DayOf(t) \in Windows
  BY <1>2, DayOfWindow DEF GuestRows
<1>4. g \in 1 .. MaxShares /\ g \in DOMAIN shares
  <2>1. g \in DOMAIN shares
    BY <1>1 DEF SharingInv, TriesInv
  <2>2. shares \in Seq(ShareRows) /\ Len(shares) <= MaxShares /\ MaxShares \in Nat
    BY ShareAssumption DEF SharingInv, ShareRecords, ShareAssumption
  <2> QED
    BY <2>1, <2>2
<1>5. CASE guest' = [guest EXCEPT ![q] = NoGuest] /\ UNCHANGED tries
  <2>1. TriesInv' /\ guest' \in [Guests -> GuestRows]
    BY <1>1, <1>5, NobodyIsIdle, GuestMoves
  <2> QED
    BY <1>1, <1>5, <2>1 DEF SharingInv, ShareRecords
<1>6. CASE /\ MayTryPassword(g, t)
           /\ tries' = [tries EXCEPT ![g].counted = Count(@, t, 1), ![g].wrong = Count(@, t, n)]
           /\ guest' = [guest EXCEPT ![q] = verifying]
  <2> DEFINE old == tries[g]
  <2>1. /\ old \in TryRows /\ old.counted \in TryCounts /\ old.wrong \in TryCounts
        /\ \A u \in Windows : /\ old.counted.own[u] \in Nat /\ old.wrong.own[u] \in Nat
                              /\ old.counted.all[u] \in Nat /\ old.wrong.all[u] \in Nat
    BY <1>2, <1>4, LimitTypes DEF SharingInv
  <2>2. tries' = [tries EXCEPT ![g] = row]
    <3> DEFINE counted == Count(old.counted, t, 1)
               wrong == Count(old.wrong, t, n)
    <3>1. tries' = [tries EXCEPT ![g].counted = counted, ![g].wrong = wrong]
      BY <1>6
    <3>2. row = [counted |-> counted, wrong |-> wrong] /\ old = tries[g]
      OBVIOUS
    <3> HIDE DEF counted, wrong, row
    <3> HIDE DEF old
    <3>3. old \in TryRows
      BY <2>1
    <3>4. [old EXCEPT !.counted = counted, !.wrong = wrong] = row
      BY <3>2, <3>3, BothCounted
    <3> QED
      BY <1>2, <1>4, <3>1, <3>2, <3>4
  <2>3. n \in {0, 1} /\ (n = 0 <=> guest[q].right)
    OBVIOUS
  <2> HIDE DEF g, t, n, old
  <2>4. /\ row.counted \in TryCounts /\ row.counted.own[t] = old.counted.own[t] + 1
        /\ row.counted.all[DayOf(t)] = old.counted.all[DayOf(t)] + 1
        /\ \A u \in Windows \ {t} : row.counted.own[u] = old.counted.own[u]
        /\ \A u \in Windows \ {DayOf(t)} : row.counted.all[u] = old.counted.all[u]
    <3>1. row.counted = Count(old.counted, t, 1)
      BY DEF old
    <3>2. 1 \in Int /\ old.counted.own[t] + 1 \in Nat /\ old.counted.all[DayOf(t)] + 1 \in Nat
      BY <1>3, <2>1
    <3> HIDE DEF row
    <3> QED
      BY <1>3, <2>1, <3>1, <3>2, CountAt
  <2>5. /\ row.wrong \in TryCounts /\ row.wrong.own[t] = old.wrong.own[t] + n
        /\ row.wrong.all[DayOf(t)] = old.wrong.all[DayOf(t)] + n
        /\ \A u \in Windows \ {t} : row.wrong.own[u] = old.wrong.own[u]
        /\ \A u \in Windows \ {DayOf(t)} : row.wrong.all[u] = old.wrong.all[u]
    <3>1. row.wrong = Count(old.wrong, t, n)
      BY DEF old
    <3>2. n \in Int /\ old.wrong.own[t] + n \in Nat /\ old.wrong.all[DayOf(t)] + n \in Nat
      BY <1>3, <2>1, <2>3
    <3> HIDE DEF row
    <3> QED
      BY <1>3, <2>1, <3>1, <3>2, CountAt
  <2>6. row \in TryRows
    BY <2>4, <2>5 DEF TryRows
  <2>7. /\ old.counted.own[t] < TriesPerWindow /\ old.counted.all[DayOf(t)] < TriesPerDay
        /\ TriesPerWindow \in Nat /\ TriesPerDay \in Nat
    BY <1>6, ShareAssumption DEF MayTryPassword, ShareAssumption, old
  <2>8. /\ verifying \in GuestRows /\ verifying.at = "verify" /\ verifying.grant = g
        /\ verifying.now = t /\ verifying.right = guest[q].right
    BY <1>3 DEF GuestRows, g, t
  <2> HIDE DEF row, verifying
  <2>9. guest' \in [Guests -> GuestRows] /\ guest'[q] = verifying
        /\ \A p \in Guests \ {q} : guest'[p] = guest[p]
    BY <1>2, <1>6, <2>8
  <2>10. \A h, times : q \notin Refundable(guest, h, times)
    BY <1>1 DEF Refundable
  <2>11. \A h, times : /\ h # g \/ t \notin times => Refundable(guest', h, times) = Refundable(guest, h, times)
                       /\ ~guest[q].right => Refundable(guest', h, times) = Refundable(guest, h, times)
                       /\ guest[q].right /\ h = g /\ t \in times
                            => Refundable(guest', h, times) = Refundable(guest, h, times) \cup {q}
    BY <1>1, <2>8, <2>9 DEF Refundable
  <2>12. ASSUME NEW counted, NEW wrong, NEW max \in Nat, NEW times, t \in times, counted < max,
                Bounded(counted, wrong, max, Refundable(guest, g, times))
         PROVE  Bounded(counted + 1, wrong + n, max, Refundable(guest', g, times))
    <3> DEFINE pend == Refundable(guest, g, times)
    <3>1. q \notin pend
      BY <2>10
    <3>2. /\ guest[q].right => Refundable(guest', g, times) = pend \cup {q}
          /\ ~guest[q].right => Refundable(guest', g, times) = pend
      BY <2>11, <2>12
    <3>3. Bounded(counted, wrong, max, pend)
      BY <2>12
    <3> HIDE DEF pend
    <3>4. /\ Bounded(counted + 1, wrong + 1, max, pend)
          /\ Bounded(counted + 1, wrong + 0, max, pend \cup {q})
      BY <2>12, <3>1, <3>3, BoundCounts
    <3> QED
      BY <2>3, <3>2, <3>4
  <2>13. /\ Bounded(old.counted.own[t], old.wrong.own[t], TriesPerWindow, Refundable(guest, g, {t}))
         /\ Bounded(old.counted.all[DayOf(t)], old.wrong.all[DayOf(t)], TriesPerDay,
                    Refundable(guest, g, TimesOfDay(DayOf(t))))
    BY <1>3, <1>4 DEF SharingInv, TriesInv, old
  <2>14. Bounded(row.counted.own[t], row.wrong.own[t], TriesPerWindow, Refundable(guest', g, {t}))
    BY <2>4, <2>5, <2>7, <2>12, <2>13
  <2>15. Bounded(row.counted.all[DayOf(t)], row.wrong.all[DayOf(t)], TriesPerDay,
                 Refundable(guest', g, TimesOfDay(DayOf(t))))
    <3>1. t \in TimesOfDay(DayOf(t))
      BY <1>3 DEF TimesOfDay
    <3> QED
      BY <2>4, <2>5, <2>7, <2>12, <2>13, <3>1
  <2>16. \A p \in Guests : guest'[p].at # "idle" => guest'[p].grant \in DOMAIN shares
    BY <1>4, <2>8, <2>9 DEF SharingInv, TriesInv
  <2>17. TriesInv' /\ tries' \in [1 .. MaxShares -> TryRows]
    <3>1. \A u \in Windows \ {t} : /\ row.counted.own[u] = tries[g].counted.own[u]
                                    /\ row.wrong.own[u] = tries[g].wrong.own[u]
      BY <2>4, <2>5 DEF old
    <3>2. \A u \in Windows \ {DayOf(t)} : /\ row.counted.all[u] = tries[g].counted.all[u]
                                           /\ row.wrong.all[u] = tries[g].wrong.all[u]
      BY <2>4, <2>5 DEF old
    <3>3. \A h, times :
            h # g \/ t \notin times => Refundable(guest', h, times) = Refundable(guest, h, times)
      BY <2>11
    <3>4. CountsMoved(g, t, row, guest')
      BY <2>14, <2>15, <2>16, <3>1, <3>2, <3>3 DEF CountsMoved
    <3> QED
      BY <1>1, <1>3, <1>4, <2>2, <2>6, <3>4, TriesStep
  <2> QED
    BY <1>1, <2>9, <2>17 DEF SharingInv, ShareRecords
<1> QED
  BY <1>1, <1>5, <1>6

LEMMA CommitPasswordKeeps ==
  ASSUME SharingInv, NEW q \in Guests, CommitPassword(q)
  PROVE  TriesInv' /\ ShareRecords'
<1> DEFINE g == guest[q].grant
           t == guest[q].now
           counted == Count(tries[g].counted, t, -1)
           row == [tries[g] EXCEPT !.counted = counted]
<1>1. /\ UNCHANGED <<source, proposal, shares, shareNow, releaser>>
      /\ guest[q].at = "verify" /\ guest[q].right /\ guest' = [guest EXCEPT ![q] = NoGuest]
      /\ \/ UNCHANGED tries
         \/ tries' = [tries EXCEPT ![g] = row]
  BY DEF CommitPassword
<1>2. guest \in [Guests -> GuestRows] /\ tries \in [1 .. MaxShares -> TryRows]
  BY DEF SharingInv, ShareRecords
<1>3. guest[q] \in GuestRows /\ t \in Windows /\ DayOf(t) \in Windows
  BY <1>2, DayOfWindow DEF GuestRows
<1>4. g \in 1 .. MaxShares
  <2>1. g \in DOMAIN shares
    BY <1>1 DEF SharingInv, TriesInv
  <2>2. shares \in Seq(ShareRows) /\ Len(shares) <= MaxShares /\ MaxShares \in Nat
    BY ShareAssumption DEF SharingInv, ShareRecords, ShareAssumption
  <2> QED
    BY <2>1, <2>2
<1>5. CASE UNCHANGED tries
  <2>1. TriesInv' /\ guest' \in [Guests -> GuestRows]
    BY <1>1, <1>5, NobodyIsIdle, GuestMoves
  <2> QED
    BY <1>1, <1>5, <2>1 DEF SharingInv, ShareRecords
<1>6. CASE tries' = [tries EXCEPT ![g] = row]
  <2> DEFINE old == tries[g]
  <2>1. /\ old \in TryRows /\ old.counted \in TryCounts /\ old.wrong \in TryCounts
        /\ \A u \in Windows : /\ old.counted.own[u] \in Nat /\ old.wrong.own[u] \in Nat
                              /\ old.counted.all[u] \in Nat /\ old.wrong.all[u] \in Nat
    BY <1>2, <1>4, LimitTypes DEF SharingInv
  <2>2. /\ Bounded(old.counted.own[t], old.wrong.own[t], TriesPerWindow,
                   Refundable(guest, g, {t}))
        /\ Bounded(old.counted.all[DayOf(t)], old.wrong.all[DayOf(t)], TriesPerDay,
                   Refundable(guest, g, TimesOfDay(DayOf(t))))
    BY <1>3, <1>4 DEF SharingInv, TriesInv
  <2>3. row.wrong = old.wrong /\ row.counted = counted /\ counted = Count(old.counted, t, -1)
    BY <2>1 DEF TryRows
  <2>4. guest' \in [Guests -> GuestRows] /\ guest'[q] = NoGuest
        /\ \A p \in Guests \ {q} : guest'[p] = guest[p]
    BY <1>1, <1>2, NobodyIsIdle
  <2> HIDE DEF g, t, counted, old
  <2>5. TriesPerWindow \in Nat /\ TriesPerDay \in Nat
    BY ShareAssumption DEF ShareAssumption
  <2>6. q \in Refundable(guest, g, {t}) /\ q \in Refundable(guest, g, TimesOfDay(DayOf(t)))
    BY <1>1, <1>3 DEF Refundable, TimesOfDay, g, t
  <2>7. \A h, times : /\ Refundable(guest', h, times) = Refundable(guest, h, times) \ {q}
                      /\ h # g \/ t \notin times
                           => Refundable(guest', h, times) = Refundable(guest, h, times)
    BY <1>1, <2>4, NobodyIsIdle DEF Refundable, g, t
  <2>8. /\ Bounded(old.counted.own[t] + (-1), old.wrong.own[t], TriesPerWindow,
                   Refundable(guest, g, {t}) \ {q})
        /\ Bounded(old.counted.all[DayOf(t)] + (-1), old.wrong.all[DayOf(t)], TriesPerDay,
                   Refundable(guest, g, TimesOfDay(DayOf(t))) \ {q})
    BY <2>2, <2>5, <2>6, BoundEnds
  <2>9. /\ counted \in TryCounts
        /\ counted.own[t] = old.counted.own[t] + (-1)
        /\ counted.all[DayOf(t)] = old.counted.all[DayOf(t)] + (-1)
        /\ \A u \in Windows \ {t} : counted.own[u] = old.counted.own[u]
        /\ \A u \in Windows \ {DayOf(t)} : counted.all[u] = old.counted.all[u]
    <3>1. /\ -1 \in Int /\ old.counted.own[t] + (-1) \in Nat
          /\ old.counted.all[DayOf(t)] + (-1) \in Nat
      BY <2>8 DEF Bounded
    <3> QED
      BY <1>3, <2>1, <2>3, <3>1, CountAt
  <2>10. row \in TryRows
    BY <2>1, <2>9 DEF TryRows, old
  <2> HIDE DEF row
  <2>11. CountsMoved(g, t, row, guest')
    <3>1. \A p \in Guests : guest'[p].at # "idle" => guest'[p].grant \in DOMAIN shares
      BY <2>4, NobodyIsIdle DEF SharingInv, TriesInv
    <3>2. /\ row.counted.own[t] = old.counted.own[t] + (-1)
          /\ row.counted.all[DayOf(t)] = old.counted.all[DayOf(t)] + (-1)
      BY <2>3, <2>9
    <3>3. /\ Bounded(row.counted.own[t], row.wrong.own[t], TriesPerWindow,
                     Refundable(guest', g, {t}))
          /\ Bounded(row.counted.all[DayOf(t)], row.wrong.all[DayOf(t)], TriesPerDay,
                     Refundable(guest', g, TimesOfDay(DayOf(t))))
      BY <2>3, <2>7, <2>8, <3>2
    <3> QED
      BY <2>3, <2>7, <2>9, <3>1, <3>3 DEF CountsMoved, old
  <2>12. TriesInv' /\ tries' \in [1 .. MaxShares -> TryRows]
    BY <1>1, <1>3, <1>4, <1>6, <2>10, <2>11, TriesStep
  <2> QED
    BY <1>1, <2>4, <2>12 DEF SharingInv, ShareRecords
<1> QED
  BY <1>1, <1>5, <1>6

(***************************************************************************)
(* Steps of a reader leave the grants alone; what is served in one was     *)
(* authorized in it.                                                       *)
(***************************************************************************)
LEMMA ReadersKeep ==
  ASSUME SharingInv, NEW q \in Guests,
         \/ \E g \in DOMAIN shares :
              StartRead(q, g) \/ \E right \in BOOLEAN : StartPassword(q, g, right)
         \/ Deliver(q) \/ ReservePassword(q) \/ CommitPassword(q) \/ GuestStops(q)
  PROVE  SharingInv'
<1>1. /\ UNCHANGED <<source, proposal, shares, shareNow, releaser>>
      /\ Deliver(q) \/ UNCHANGED served
  BY DEF StartRead, StartPassword, Deliver, ReservePassword, CommitPassword, GuestStops
<1>2. ReleasedInv'
  BY <1>1 DEF SharingInv, ReleasedInv
<1>3. shares \in Seq(ShareRows) /\ shareNow \in Windows /\ guest \in [Guests -> GuestRows]
  BY DEF SharingInv, ShareRecords
<1>4. ServedInv'
  <2>1. CASE UNCHANGED served
    BY <1>1, <2>1 DEF SharingInv, ServedInv
  <2>2. CASE Deliver(q)
    <3> DEFINE g == guest[q].grant
               r == [grant |-> g, active |-> ShareActive(g), proved |-> SessionFor(g) \in shareSessions]
    <3>1. /\ guest[q].at = "fetch"
          /\ served' = IF Reauthorized(guest[q]) THEN served \cup {r} ELSE served
      BY <2>2 DEF Deliver
    <3>2. g \in DOMAIN shares
      BY <3>1 DEF SharingInv, TriesInv
    <3>3. Reauthorized(guest[q]) => r.grant \in DOMAIN shares /\ r.active
                                    /\ (shares[r.grant].password => r.proved)
      BY <3>2 DEF Reauthorized
    <3> HIDE DEF r
    <3> QED
      BY <1>1, <3>1, <3>3 DEF SharingInv, ServedInv
  <2> QED
    BY <1>1, <2>1, <2>2
<1>5. ASSUME NEW row \in GuestRows, row.at # "verify",
             row.at # "idle" => row.grant \in DOMAIN shares,
             guest' = [guest EXCEPT ![q] = row], UNCHANGED tries
      PROVE  TriesInv' /\ ShareRecords'
  <2>1. TriesInv' /\ guest' \in [Guests -> GuestRows]
    BY <1>1, <1>5, GuestMoves
  <2> QED
    BY <1>1, <1>5, <2>1 DEF SharingInv, ShareRecords
<1>6. TriesInv' /\ ShareRecords'
  <2>1. ASSUME NEW g \in DOMAIN shares, StartRead(q, g)
        PROVE  TriesInv' /\ ShareRecords'
    <3> DEFINE row == [NoGuest EXCEPT !.at = "fetch", !.grant = g,
                                      !.generation = shares[g].generation]
    <3>1. shares[g].generation \in Nat /\ g \in Nat /\ 0 \in Windows
      <4>1. shares[g] \in ShareRows /\ g \in Nat
        BY <1>3
      <4> QED
        BY <4>1, ShareAssumption DEF ShareRows, Windows, ShareAssumption
    <3>2. row \in GuestRows /\ row.at = "fetch" /\ row.grant = g
      BY <3>1 DEF NoGuest, GuestRows
    <3>3. guest' = [guest EXCEPT ![q] = row] /\ UNCHANGED tries
      BY <2>1 DEF StartRead
    <3> HIDE DEF row
    <3> QED
      BY <1>5, <3>2, <3>3
  <2>2. ASSUME NEW g \in DOMAIN shares, NEW right \in BOOLEAN, StartPassword(q, g, right)
        PROVE  TriesInv' /\ ShareRecords'
    <3> DEFINE row == [at |-> "reserve", grant |-> g, generation |-> shares[g].generation,
                       right |-> right, now |-> shareNow]
    <3>1. shares[g].generation \in Nat /\ g \in Nat
      <4>1. shares[g] \in ShareRows /\ g \in Nat
        BY <1>3
      <4> QED
        BY <4>1 DEF ShareRows
    <3>2. row \in GuestRows /\ row.at = "reserve" /\ row.grant = g
      BY <1>3, <3>1 DEF GuestRows
    <3>3. guest' = [guest EXCEPT ![q] = row] /\ UNCHANGED tries
      BY <2>2 DEF StartPassword
    <3> HIDE DEF row
    <3> QED
      BY <1>5, <3>2, <3>3
  <2>3. CASE Deliver(q) \/ GuestStops(q)
    BY <1>5, <2>3, NobodyIsIdle DEF Deliver, GuestStops
  <2> QED
    BY <2>1, <2>2, <2>3, ReservePasswordKeeps, CommitPasswordKeeps
<1> QED
  BY <1>2, <1>4, <1>6 DEF SharingInv

-----------------------------------------------------------------------------
(* Sharing: the owner's steps. *)

\* Whatever happens to their status, grants stay, and keep their passwords.
LEMMA GrantsStay ==
  ASSUME SharingInv, UNCHANGED <<tries, guest, served>>,
         DOMAIN shares \subseteq DOMAIN shares',
         \A g \in DOMAIN shares : shares'[g].password = shares[g].password
  PROVE  ServedInv' /\ TriesInv'
<1>1. ServedInv'
  BY DEF SharingInv, ServedInv
<1>2. TriesInv'
  <2>1. \A q \in Guests : guest'[q].at # "idle" => guest'[q].grant \in DOMAIN shares'
    BY DEF SharingInv, TriesInv
  <2>2. \A g \in 1 .. MaxShares, t \in Windows :
          /\ Bounded(tries'[g].counted.own[t], tries'[g].wrong.own[t], TriesPerWindow,
                     Refundable(guest', g, {t}))
          /\ Bounded(tries'[g].counted.all[t], tries'[g].wrong.all[t], TriesPerDay,
                     Refundable(guest', g, TimesOfDay(t)))
    BY DEF SharingInv, TriesInv
  <2> QED
    BY <2>1, <2>2 DEF TriesInv
<1> QED
  BY <1>1, <1>2

SameGrants(new) ==
  /\ new \in Seq(ShareRows) /\ Len(new) = Len(shares) /\ DOMAIN new = DOMAIN shares
  /\ \A g \in DOMAIN shares : /\ new[g].password = shares[g].password
                              /\ new[g].proposed = shares[g].proposed
                              /\ new[g].head = shares[g].head

LEMMA RevokedSame ==
  ASSUME shares \in Seq(ShareRows), NEW g \in DOMAIN shares
  PROVE  SameGrants(Revoked(g))
<1> DEFINE later == shares[g].generation + 1
           row == [shares[g] EXCEPT !.status = "revoked", !.generation = later]
<1>1. shares[g] \in ShareRows
  OBVIOUS
<1>2. later \in Nat
  BY <1>1 DEF ShareRows
<1>3. Revoked(g) = [shares EXCEPT ![g] = row]
  BY DEF Revoked
<1> HIDE DEF later
<1>4. /\ row \in ShareRows /\ row.password = shares[g].password /\ row.head = shares[g].head
      /\ row.proposed = shares[g].proposed
  BY <1>1, <1>2 DEF ShareRows
<1> HIDE DEF row
<1>5. Revoked(g) \in Seq(ShareRows) /\ Len(Revoked(g)) = Len(shares)
      /\ DOMAIN Revoked(g) = DOMAIN shares /\ Revoked(g)[g] = row
      /\ \A h \in DOMAIN shares \ {g} : Revoked(g)[h] = shares[h]
  BY <1>3, <1>4, RowReplaced
<1> QED
  BY <1>4, <1>5 DEF SameGrants

\* Steps that release nothing.
LEMMA NothingReleased ==
  ASSUME SharingInv, ShareRecords', UNCHANGED <<tries, guest, served>>, SameGrants(shares'),
         proposal'.status = "released" <=> proposal.status = "released",
         proposal'.head = proposal.head \/ proposal.status # "released",
         \A o \in Releasers :
           /\ releaser'[o].at = "release" => releaser'[o].on \in {0} \cup DOMAIN shares
           /\ releaser'[o].at = "revoke" => releaser'[o].on \in DOMAIN shares
  PROVE  SharingInv'
<1>1. ServedInv' /\ TriesInv'
  BY GrantsStay DEF SameGrants
<1>2. ReleasedInv'
  BY DEF SharingInv, ReleasedInv, SameGrants
<1> QED
  BY <1>1, <1>2 DEF SharingInv

LEMMA SameSame == ASSUME SharingInv PROVE SameGrants(shares)
BY DEF SharingInv, ShareRecords, SameGrants

LEMMA ReleasersAsBefore ==
  ASSUME SharingInv, UNCHANGED releaser
  PROVE  \A o \in Releasers :
           /\ releaser'[o].at = "release" => releaser'[o].on \in {0} \cup DOMAIN shares
           /\ releaser'[o].at = "revoke" => releaser'[o].on \in DOMAIN shares
BY DEF SharingInv, ReleasedInv

LEMMA SourceStepsKeep ==
  ASSUME SharingInv, SourceChanges \/ AdmitAgain \/ NextWindow \/ Propose \/ ProposalExpires
  PROVE  SharingInv'
<1>1. /\ UNCHANGED <<shares, tries, guest, served, releaser>>
      /\ source \in SourceRows /\ proposal \in ProposalRows /\ shareNow \in Windows
  BY DEF SourceChanges, AdmitAgain, NextWindow, Propose, ProposalExpires, SharingInv, ShareRecords
<1>2. source' \in SourceRows
  <2>1. CASE SourceChanges
    <3> DEFINE other == ~source.active
    <3>1. [source EXCEPT !.head = @ + 1] \in SourceRows
      BY <1>1 DEF SourceRows
    <3>2. other \in BOOLEAN
      OBVIOUS
    <3>3. SourceChanges => \/ source' = [source EXCEPT !.head = @ + 1]
                           \/ source' = [source EXCEPT !.active = other]
      BY DEF SourceChanges
    <3> HIDE DEF other
    <3>4. [source EXCEPT !.active = other] \in SourceRows
      BY <1>1, <3>2 DEF SourceRows
    <3> QED
      BY <2>1, <3>1, <3>3, <3>4
  <2>2. CASE AdmitAgain
    BY <1>1, <2>2 DEF AdmitAgain, SourceRows
  <2> QED
    BY <1>1, <2>1, <2>2 DEF NextWindow, Propose, ProposalExpires
<1>3. shareNow' \in Windows
  BY <1>1, ShareAssumption
     DEF SourceChanges, AdmitAgain, NextWindow, Propose, ProposalExpires, Windows, ShareAssumption
<1>4. /\ proposal' \in ProposalRows
      /\ proposal'.status = "released" <=> proposal.status = "released"
      /\ proposal'.head = proposal.head \/ proposal.status # "released"
  <2>1. CASE UNCHANGED proposal
    BY <1>1, <2>1
  <2>2. CASE Propose
    BY <1>1, <2>2 DEF Propose, ProposalRows, SourceRows
  <2>3. CASE ProposalExpires
    BY <1>1, <2>3 DEF ProposalExpires, ProposalRows
  <2> QED
    BY <2>1, <2>2, <2>3 DEF SourceChanges, AdmitAgain, NextWindow
<1>5. ShareRecords'
  BY <1>1, <1>2, <1>3, <1>4 DEF SharingInv, ShareRecords
<1> QED
  BY <1>1, <1>4, <1>5, SameSame, ReleasersAsBefore, NothingReleased

LEMMA RestrictSharingKeeps ==
  ASSUME SharingInv, RestrictSharing
  PROVE  SharingInv'
<1> DEFINE ended(g) == [shares[g] EXCEPT !.status = "disabled", !.generation = @ + 1]
           next(g) == IF shares[g].status = "active" THEN ended(g) ELSE shares[g]
<1>1. /\ UNCHANGED <<tries, shareNow, releaser, guest, served>>
      /\ source' = [source EXCEPT !.admitted = FALSE]
      /\ shares' = [g \in DOMAIN shares |-> next(g)]
      /\ proposal' = IF proposal.status = "pending" THEN [proposal EXCEPT !.status = "expired"]
                     ELSE proposal
  BY DEF RestrictSharing
<1>2. shares \in Seq(ShareRows) /\ source \in SourceRows /\ proposal \in ProposalRows
  BY DEF SharingInv, ShareRecords
<1>3. source' \in SourceRows
  BY <1>1, <1>2 DEF SourceRows
<1>4. /\ proposal' \in ProposalRows /\ proposal'.head = proposal.head
      /\ proposal'.status = "released" <=> proposal.status = "released"
  <2>1. [proposal EXCEPT !.status = "expired"] \in ProposalRows
    BY <1>2 DEF ProposalRows
  <2>2. /\ [proposal EXCEPT !.status = "expired"].head = proposal.head
        /\ [proposal EXCEPT !.status = "expired"].status = "expired"
    BY <1>2 DEF ProposalRows
  <2> QED
    BY <1>1, <1>2, <2>1, <2>2
<1>5. \A g \in DOMAIN shares : /\ next(g) \in ShareRows
                               /\ next(g).password = shares[g].password
                               /\ next(g).proposed = shares[g].proposed
                               /\ next(g).head = shares[g].head
  <2> SUFFICES ASSUME NEW g \in DOMAIN shares
               PROVE  /\ next(g) \in ShareRows /\ next(g).password = shares[g].password
                      /\ next(g).proposed = shares[g].proposed /\ next(g).head = shares[g].head
    OBVIOUS
  <2> DEFINE later == shares[g].generation + 1
             row == ended(g)
  <2>1. shares[g] \in ShareRows
    BY <1>2
  <2>2. later \in Nat
    BY <2>1 DEF ShareRows
  <2>3. row = [shares[g] EXCEPT !.status = "disabled", !.generation = later]
    OBVIOUS
  <2>4. next(g) = row \/ next(g) = shares[g]
    OBVIOUS
  <2> HIDE DEF later, row, next
  <2>5. row \in ShareRows
    BY <2>1, <2>2, <2>3 DEF ShareRows
  <2>6. /\ row.password = shares[g].password /\ row.proposed = shares[g].proposed
        /\ row.head = shares[g].head
    BY <2>1, <2>3 DEF ShareRows
  <2> QED
    BY <2>1, <2>4, <2>5, <2>6
<1> HIDE DEF next
<1>6. shares' \in Seq(ShareRows) /\ DOMAIN shares' = DOMAIN shares
  <2>1. shares' \in [DOMAIN shares -> ShareRows]
    BY <1>1, <1>5
  <2> QED
    BY <1>2, <2>1, RowsUpdated
<1>7. Len(shares') = Len(shares)
  BY <1>2, <1>6
<1>8. SameGrants(shares')
  BY <1>1, <1>5, <1>6, <1>7 DEF SameGrants
<1>9. ShareRecords'
  BY <1>1, <1>3, <1>4, <1>6, <1>7 DEF SharingInv, ShareRecords
<1> QED
  BY <1>1, <1>4, <1>8, <1>9, ReleasersAsBefore, NothingReleased

LEMMA RestingRow == Resting \in ReleaserRows /\ Resting.at = "idle"
BY DEF Resting, ReleaserRows

LEMMA ReleaserMoves ==
  ASSUME SharingInv, NEW o \in Releasers, NEW row \in ReleaserRows,
         row.at = "release" => row.on \in {0} \cup DOMAIN shares,
         row.at = "revoke" => row.on \in DOMAIN shares,
         releaser' = [releaser EXCEPT ![o] = row]
  PROVE  /\ releaser' \in [Releasers -> ReleaserRows]
         /\ \A p \in Releasers :
              /\ releaser'[p].at = "release" => releaser'[p].on \in {0} \cup DOMAIN shares
              /\ releaser'[p].at = "revoke" => releaser'[p].on \in DOMAIN shares
<1>1. releaser \in [Releasers -> ReleaserRows]
  BY DEF SharingInv, ShareRecords
<1> QED
  BY <1>1 DEF SharingInv, ReleasedInv

\* The steps of one request that write nothing.
LEMMA ReleaserOnly ==
  ASSUME SharingInv, NEW o \in Releasers, NEW row \in ReleaserRows,
         row.at = "release" => row.on \in {0} \cup DOMAIN shares,
         row.at = "revoke" => row.on \in DOMAIN shares,
         releaser' = [releaser EXCEPT ![o] = row],
         UNCHANGED <<source, proposal, shares, tries, shareNow, guest, served>>
  PROVE  SharingInv'
<1>1. /\ releaser' \in [Releasers -> ReleaserRows]
      /\ \A p \in Releasers :
           /\ releaser'[p].at = "release" => releaser'[p].on \in {0} \cup DOMAIN shares
           /\ releaser'[p].at = "revoke" => releaser'[p].on \in DOMAIN shares
  BY ReleaserMoves
<1>2. ShareRecords'
  BY <1>1 DEF SharingInv, ShareRecords
<1> QED
  BY <1>1, <1>2, SameSame, NothingReleased

LEMMA RequestsKeep ==
  ASSUME SharingInv, NEW o \in Releasers,
         \/ \E proposed \in BOOLEAN, replaced \in {0} \cup DOMAIN shares :
              StartRelease(o, proposed, replaced)
         \/ \E g \in DOMAIN shares : StartRevoke(o, g)
         \/ ReleaserStops(o)
  PROVE  SharingInv'
<1>1. shares \in Seq(ShareRows) /\ source \in SourceRows /\ proposal \in ProposalRows
  BY DEF SharingInv, ShareRecords
<1>2. ASSUME NEW proposed \in BOOLEAN, NEW replaced \in {0} \cup DOMAIN shares,
             StartRelease(o, proposed, replaced)
      PROVE  SharingInv'
  <2> DEFINE head == IF proposed THEN proposal.head ELSE source.head
             row == [Resting EXCEPT !.at = "release", !.head = head, !.proposed = proposed,
                                    !.on = replaced]
  <2>1. head \in Nat /\ replaced \in Nat
    BY <1>1 DEF SourceRows, ProposalRows
  <2>2. /\ releaser' = [releaser EXCEPT ![o] = row]
        /\ UNCHANGED <<source, proposal, shares, tries, shareNow, guest, served>>
    BY <1>2 DEF StartRelease
  <2> HIDE DEF head
  <2>3. row \in ReleaserRows /\ row.at = "release" /\ row.on = replaced
    BY <2>1 DEF Resting, ReleaserRows
  <2> HIDE DEF row
  <2> QED
    BY <2>2, <2>3, ReleaserOnly
<1>3. ASSUME NEW g \in DOMAIN shares, StartRevoke(o, g)
      PROVE  SharingInv'
  <2> DEFINE row == [Resting EXCEPT !.at = "revoke", !.on = g,
                                    !.generation = shares[g].generation]
  <2>1. shares[g] \in ShareRows /\ g \in Nat
    BY <1>1
  <2>2. /\ releaser' = [releaser EXCEPT ![o] = row]
        /\ UNCHANGED <<source, proposal, shares, tries, shareNow, guest, served>>
    BY <1>3 DEF StartRevoke
  <2>3. row \in ReleaserRows /\ row.at = "revoke" /\ row.on = g
    BY <2>1 DEF Resting, ReleaserRows, ShareRows
  <2> HIDE DEF row
  <2> QED
    BY <2>2, <2>3, ReleaserOnly
<1>4. CASE ReleaserStops(o)
  BY <1>4, RestingRow, ReleaserOnly DEF ReleaserStops
<1> QED
  BY <1>2, <1>3, <1>4

LEMMA CommitRevokeKeeps ==
  ASSUME SharingInv, NEW o \in Releasers, CommitRevoke(o)
  PROVE  SharingInv'
<1> DEFINE g == releaser[o].on
<1>1. /\ releaser' = [releaser EXCEPT ![o] = Resting] /\ releaser[o].at = "revoke"
      /\ UNCHANGED <<source, proposal, tries, shareNow, guest, served>>
      /\ shares' = shares \/ shares' = Revoked(g)
  BY DEF CommitRevoke
<1>2. shares \in Seq(ShareRows)
  BY DEF SharingInv, ShareRecords
<1>3. g \in DOMAIN shares
  BY <1>1 DEF SharingInv, ReleasedInv
<1>4. SameGrants(shares')
  BY <1>1, <1>2, <1>3, SameSame, RevokedSame
<1>5. /\ releaser' \in [Releasers -> ReleaserRows]
      /\ \A p \in Releasers :
           /\ releaser'[p].at = "release" => releaser'[p].on \in {0} \cup DOMAIN shares
           /\ releaser'[p].at = "revoke" => releaser'[p].on \in DOMAIN shares
  BY <1>1, RestingRow, ReleaserMoves
<1>6. ShareRecords'
  BY <1>1, <1>4, <1>5 DEF SharingInv, ShareRecords, SameGrants
<1> QED
  BY <1>1, <1>4, <1>5, <1>6, NothingReleased

(***************************************************************************)
(* A release appends one grant, at the head of the task, and takes the     *)
(* proposal with it if it was proposed and is still pending.               *)
(***************************************************************************)
LEMMA CommitReleaseKeeps ==
  ASSUME SharingInv, NEW o \in Releasers, NEW password \in BOOLEAN, CommitRelease(o, password)
  PROVE  SharingInv'
<1> DEFINE call == releaser[o]
           kept == IF call.on = 0 THEN shares ELSE Revoked(call.on)
           row == [password |-> password, status |-> "active", generation |-> 1,
                   proposed |-> call.proposed, head |-> source.head]
           n == Len(shares)
<1>1. /\ releaser' = [releaser EXCEPT ![o] = Resting] /\ call.at = "release"
      /\ UNCHANGED <<source, tries, shareNow, guest, served>>
  BY DEF CommitRelease
<1>2. /\ releaser' \in [Releasers -> ReleaserRows]
      /\ \A p \in Releasers :
           /\ releaser'[p].at = "release" => releaser'[p].on \in {0} \cup DOMAIN shares
           /\ releaser'[p].at = "revoke" => releaser'[p].on \in DOMAIN shares
  BY <1>1, RestingRow, ReleaserMoves
<1>3. /\ shares \in Seq(ShareRows) /\ source \in SourceRows /\ proposal \in ProposalRows
      /\ call \in ReleaserRows /\ n \in Nat /\ DOMAIN shares = 1 .. n
  BY DEF SharingInv, ShareRecords
<1>4. CASE UNCHANGED <<shares, proposal>>
  <2>1. ShareRecords'
    BY <1>1, <1>2, <1>4 DEF SharingInv, ShareRecords
  <2> QED
    BY <1>1, <1>2, <1>4, <2>1, SameSame, NothingReleased
<1>5. CASE /\ Releasable(call) /\ n < MaxShares
           /\ shares' = Append(kept, row)
           /\ proposal' = IF call.proposed THEN [proposal EXCEPT !.status = "released"]
                          ELSE proposal
  <2>1. SameGrants(kept)
    <3>1. call.on \in {0} \cup DOMAIN shares
      BY <1>1 DEF SharingInv, ReleasedInv
    <3> QED
      BY <1>3, <3>1, SameSame, RevokedSame
  <2>2. row \in ShareRows /\ row.proposed = call.proposed /\ row.head = source.head
    BY <1>3 DEF ShareRows, ReleaserRows, SourceRows
  <2>3. /\ proposal' \in ProposalRows /\ proposal'.head = proposal.head
        /\ call.proposed => proposal'.status = "released"
        /\ ~call.proposed => proposal'.status = proposal.status
    <3> DEFINE released == [proposal EXCEPT !.status = "released"]
    <3>1. released \in ProposalRows /\ released.head = proposal.head /\ released.status = "released"
      BY <1>3 DEF ProposalRows
    <3>2. proposal' = IF call.proposed THEN released ELSE proposal
      BY <1>5
    <3> HIDE DEF released
    <3> QED
      BY <1>3, <3>1, <3>2
  <2>4. call.proposed => proposal.status = "pending" /\ source.head = proposal.head
    BY <1>5 DEF Releasable
  <2> HIDE DEF kept, row, call
  <2>5. kept \in Seq(ShareRows) /\ Len(kept) = n /\ DOMAIN kept = DOMAIN shares
    BY <2>1 DEF SameGrants
  <2>6. /\ shares' \in Seq(ShareRows) /\ Len(shares') = n + 1 /\ shares'[n + 1] = row
        /\ \A g \in DOMAIN shares : shares'[g] = kept[g]
    BY <1>5, <2>2, <2>5
  <2>7. DOMAIN shares' = DOMAIN shares \cup {n + 1} /\ n + 1 \notin DOMAIN shares
    BY <1>3, <2>6
  <2>8. \A g \in DOMAIN shares : /\ shares'[g].password = shares[g].password
                                 /\ shares'[g].proposed = shares[g].proposed
                                 /\ shares'[g].head = shares[g].head
    BY <2>1, <2>6 DEF SameGrants
  <2>9. ShareRecords'
    <3>1. n + 1 <= MaxShares
      BY <1>3, <1>5, ShareAssumption DEF ShareAssumption
    <3> QED
      BY <1>1, <1>2, <2>3, <2>6, <3>1 DEF SharingInv, ShareRecords
  <2>10. ServedInv' /\ TriesInv'
    BY <1>1, <2>7, <2>8, GrantsStay
  <2>11. call.proposed => \A g \in DOMAIN shares : ~shares[g].proposed
    BY <2>4 DEF SharingInv, ReleasedInv
  <2>12. ReleasedInv'
    <3>1. \A g, h \in DOMAIN shares' : shares'[g].proposed /\ shares'[h].proposed => g = h
      BY <2>2, <2>6, <2>7, <2>8, <2>11 DEF SharingInv, ReleasedInv
    <3>2. \A g \in DOMAIN shares' : shares'[g].proposed => shares'[g].head = proposal'.head
      BY <2>2, <2>3, <2>4, <2>6, <2>7, <2>8 DEF SharingInv, ReleasedInv
    <3>3. proposal'.status = "released" <=> \E g \in DOMAIN shares' : shares'[g].proposed
      BY <2>2, <2>3, <2>6, <2>7, <2>8 DEF SharingInv, ReleasedInv
    <3> QED
      BY <1>2, <2>7, <3>1, <3>2, <3>3 DEF ReleasedInv
  <2> QED
    BY <2>9, <2>10, <2>12 DEF SharingInv
<1> QED
  BY <1>4, <1>5 DEF CommitRelease

-----------------------------------------------------------------------------
(* Sharing: the theorems. *)

LEMMA SharingInitInv ==
  ASSUME ShareInit
  PROVE  SharingInv
<1>1. /\ 0 \in Windows /\ MaxShares \in Nat /\ {1} \subseteq Nat
      /\ TriesPerWindow \in Nat /\ TriesPerDay \in Nat
  BY ShareAssumption DEF ShareAssumption, Windows
<1>2. NoTries \in TryCounts /\ \A t \in Windows : NoTries.own[t] = 0 /\ NoTries.all[t] = 0
  BY DEF NoTries, TryCounts
<1>3. ShareRecords
  <2>1. /\ source \in SourceRows /\ proposal \in ProposalRows
    BY DEF ShareInit, SourceRows, ProposalRows
  <2>2. [counted |-> NoTries, wrong |-> NoTries] \in TryRows
    BY <1>2 DEF TryRows
  <2>3. tries \in [1 .. MaxShares -> TryRows]
    BY <2>2 DEF ShareInit
  <2> QED
    BY <1>1, <2>1, <2>3, NobodyIsIdle, RestingRow DEF ShareInit, ShareRecords
<1>4. ReleasedInv /\ ServedInv
  BY RestingRow DEF ShareInit, ReleasedInv, ServedInv
<1>5. \A g, times : Refundable(guest, g, times) = {}
  BY NobodyIsIdle DEF ShareInit, Refundable
<1>6. \A max \in Nat : Bounded(0, 0, max, {})
  BY FS_EmptySet DEF Bounded
<1>7. \A g \in 1 .. MaxShares, t \in Windows :
        /\ tries[g].counted.own[t] = 0 /\ tries[g].wrong.own[t] = 0
        /\ tries[g].counted.all[t] = 0 /\ tries[g].wrong.all[t] = 0
  BY <1>2 DEF ShareInit
<1>8. TriesInv
  BY <1>1, <1>5, <1>6, <1>7, NobodyIsIdle DEF ShareInit, TriesInv
<1> QED
  BY <1>3, <1>4, <1>8 DEF SharingInv

(***************************************************************************)
(* What was released, what was served and what was tried stay accounted    *)
(* for through every release, revocation, read and try (core sharing/).    *)
(***************************************************************************)
THEOREM SharingInvAlways == ShareSpec => []SharingInv
<1>1. ShareInit => SharingInv
  BY SharingInitInv
<1>2. SharingInv /\ [ShareNext]_shareVars => SharingInv'
  <2> SUFFICES ASSUME SharingInv, [ShareNext]_shareVars
               PROVE  SharingInv'
    OBVIOUS
  <2>1. CASE SourceChanges \/ AdmitAgain \/ NextWindow \/ Propose \/ ProposalExpires
    BY <2>1, SourceStepsKeep
  <2>2. CASE RestrictSharing
    BY <2>2, RestrictSharingKeeps
  <2>3. ASSUME NEW o \in Releasers,
               \/ \E proposed \in BOOLEAN, replaced \in {0} \cup DOMAIN shares :
                    StartRelease(o, proposed, replaced)
               \/ \E g \in DOMAIN shares : StartRevoke(o, g)
               \/ ReleaserStops(o)
        PROVE  SharingInv'
    BY <2>3, RequestsKeep
  <2>4. ASSUME NEW o \in Releasers, \E password \in BOOLEAN : CommitRelease(o, password)
        PROVE  SharingInv'
    BY <2>4, CommitReleaseKeeps
  <2>5. ASSUME NEW o \in Releasers, CommitRevoke(o)
        PROVE  SharingInv'
    BY <2>5, CommitRevokeKeeps
  <2>6. ASSUME NEW q \in Guests,
               \/ \E g \in DOMAIN shares :
                    StartRead(q, g) \/ \E right \in BOOLEAN : StartPassword(q, g, right)
               \/ Deliver(q) \/ ReservePassword(q) \/ CommitPassword(q) \/ GuestStops(q)
        PROVE  SharingInv'
    BY <2>6, ReadersKeep
  <2>7. CASE UNCHANGED shareVars
    <3>1. ShareRecords' /\ UNCHANGED <<shares, proposal, releaser, tries, guest, served>>
      BY <2>7 DEF SharingInv, ShareRecords, shareVars
    <3> QED
      BY <3>1, SameSame, ReleasersAsBefore, NothingReleased
  <2> QED
    BY <2>1, <2>2, <2>3, <2>4, <2>5, <2>6, <2>7 DEF ShareNext
<1> QED
  BY <1>1, <1>2, PTL DEF ShareSpec

(***************************************************************************)
(* Nothing is shared but what the owner released, to readers who were      *)
(* authorized when they got it, and passwords are tried within the limits  *)
(* (core sharing/, sharing routes of the API).                             *)
(***************************************************************************)
THEOREM SharesAreReleased == ShareSpec => []SharedAsReleased
<1>1. SharingInv => SharedAsReleased
  <2> SUFFICES ASSUME SharingInv
               PROVE  SharedAsReleased
    OBVIOUS
  <2>1. DOMAIN shares \subseteq 1 .. MaxShares
    <3>1. shares \in Seq(ShareRows) /\ Len(shares) <= MaxShares /\ MaxShares \in Nat
      BY ShareAssumption DEF SharingInv, ShareRecords, ShareAssumption
    <3> QED
      BY <3>1
  <2>2. ASSUME NEW counted, NEW wrong, NEW max \in Nat, NEW pend,
               Bounded(counted, wrong, max, pend)
        PROVE  wrong <= max
    <3>1. Cardinality(pend) \in Nat
      BY <2>2, FS_CardinalityType DEF Bounded
    <3> QED
      BY <2>2, <3>1 DEF Bounded
  <2>3. TriesPerWindow \in Nat /\ TriesPerDay \in Nat
    BY ShareAssumption DEF ShareAssumption
  <2>4. \A g \in DOMAIN shares, t \in Windows :
          tries[g].wrong.own[t] <= TriesPerWindow /\ tries[g].wrong.all[t] <= TriesPerDay
    BY <2>1, <2>2, <2>3 DEF SharingInv, TriesInv
  <2> QED
    BY <2>4 DEF SharedAsReleased, SharingInv, ReleasedInv, ServedInv
<1> QED
  BY <1>1, SharingInvAlways, PTL

-----------------------------------------------------------------------------
(* The purge: the inductive invariant *)

\* Records with the fields of the account, of the deletion and of a runner.
IsWork(x) ==
  x = [pc |-> x.pc, from |-> x.from, gen |-> x.gen, done |-> x.done, page |-> x.page]

PurgeShape ==
  /\ account = [user |-> account.user, key |-> account.key, tombstone |-> account.tombstone]
  /\ deletion = [status |-> deletion.status, steps |-> deletion.steps]
  /\ deletion.steps \in Seq(Steps)
  /\ rows \in [1 .. Len(Domains) -> Nat]
  /\ DOMAIN work = Workers /\ \A w \in Workers : IsWork(work[w])
  /\ inflight \subseteq Uploading

\* The users row, the deletion and the last step move together.
StatusOK ==
  /\ \/ account.user = "active" /\ deletion.status = "none"
     \/ account.user = "deleting" /\ deletion.status = "pending" /\ ~account.key
     \/ account.user = "gone" /\ deletion.status = "done" /\ ~account.key /\ account.tombstone
  /\ "users" \in Recorded <=> deletion.status = "done"

\* What step i claims, which no later step undoes.
StepDone(i, objs, left) ==
  /\ i = 3 => objs \subseteq Uploading
  /\ \A k \in 1 .. Len(Domains) : i = 3 + k => left[k] = 0

NextStep(done, i) == Order[i] \notin done /\ \A j \in 1 .. i - 1 : Order[j] \in done

\* A runner knows of recorded steps only, and the step it will record is done.
WorkOK(x, recorded, objs, left) ==
  /\ x.done \subseteq recorded /\ "users" \notin x.done
  /\ x.pc = "mark" =>
       \E i \in 1 .. Len(Order) - 1 : NextStep(x.done, i) /\ StepDone(i, objs, left)

PurgeInv ==
  /\ PurgeShape /\ StepsInOrder /\ Len(deletion.steps) <= Len(Order) /\ StatusOK
  /\ \A i \in 1 .. Len(Order) : Order[i] \in Recorded => StepDone(i, objects, rows)
  /\ \A w \in Workers : WorkOK(work[w], Recorded, objects, rows)

-----------------------------------------------------------------------------
(* The order of the steps *)

Joins(u, s, t) ==
  /\ Len(u) = Len(s) + Len(t)
  /\ \A i \in 1 .. Len(s) : u[i] = s[i]
  /\ \A i \in 1 .. Len(t) : u[Len(s) + i] = t[i]

LEMMA Concatenation ==
  ASSUME NEW S, NEW s \in Seq(S), NEW t \in Seq(S)
  PROVE  s \o t \in Seq(S) /\ Joins(s \o t, s, t)
BY DEF Joins

LEMMA Tuples ==
  ASSUME NEW S, NEW a \in S, NEW b \in S, NEW c \in S
  PROVE  /\ <<a, b, c>> \in Seq(S) /\ Len(<<a, b, c>>) = 3
         /\ <<a, b, c>>[1] = a /\ <<a, b, c>>[2] = b /\ <<a, b, c>>[3] = c
         /\ <<a, b>> \in Seq(S) /\ Len(<<a, b>>) = 2 /\ <<a, b>>[1] = a /\ <<a, b>>[2] = b
  OBVIOUS

LEMMA OrderFacts ==
  /\ Len(Domains) \in Nat /\ Len(Order) = Len(Domains) + 5
  /\ Order[1] = "runs" /\ Order[2] = "composio" /\ Order[3] = "r2"
  /\ \A i \in 1 .. Len(Domains) : Order[3 + i] = Domains[i]
  /\ Order[Len(Domains) + 4] = "d1" /\ Order[Len(Domains) + 5] = "users"
<1> DEFINE S == {"runs", "composio", "r2", "d1", "users"}
                  \cup {Domains[i] : i \in 1 .. Len(Domains)}
           front == <<"runs", "composio", "r2">>
           back == <<"d1", "users">>
<1>1. /\ "runs" \in S /\ "composio" \in S /\ "r2" \in S /\ "d1" \in S /\ "users" \in S
      /\ Domains \in Seq(S)
  BY DomainsAssumption
<1> HIDE DEF S
<1>2. Len(Domains) \in Nat
  BY <1>1
<1>3. /\ front \in Seq(S) /\ Len(front) = 3
      /\ front[1] = "runs" /\ front[2] = "composio" /\ front[3] = "r2"
      /\ back \in Seq(S) /\ Len(back) = 2 /\ back[1] = "d1" /\ back[2] = "users"
  BY <1>1, Tuples
<1>4. Order = (front \o Domains) \o back
  BY DEF Order
<1> HIDE DEF front, back
<1> DEFINE most == front \o Domains
<1>5. most \in Seq(S) /\ Joins(most, front, Domains)
  BY <1>1, <1>3, Concatenation
<1>6. Order = most \o back
  BY <1>4
<1> HIDE DEF most
<1>7. Joins(Order, most, back)
  BY <1>3, <1>5, <1>6, Concatenation
<1>8. /\ Len(most) = 3 + Len(Domains)
      /\ most[1] = "runs" /\ most[2] = "composio" /\ most[3] = "r2"
      /\ \A i \in 1 .. Len(Domains) : most[3 + i] = Domains[i]
  <2>1. /\ \A i \in 1 .. 3 : most[i] = front[i]
        /\ \A i \in 1 .. Len(Domains) : most[3 + i] = Domains[i]
        /\ Len(most) = 3 + Len(Domains)
    BY <1>3, <1>5 DEF Joins
  <2> QED
    BY <1>3, <2>1
<1>9. /\ Len(Order) = Len(most) + 2
      /\ \A i \in 1 .. Len(most) : Order[i] = most[i]
      /\ \A i \in 1 .. 2 : Order[Len(most) + i] = back[i]
  BY <1>3, <1>7 DEF Joins
<1>10. Order[Len(most) + 1] = "d1" /\ Order[Len(most) + 2] = "users"
  BY <1>3, <1>9
<1> DEFINE n == Len(Domains)
           m == Len(most)
<1>11. n \in Nat /\ m = 3 + n
  BY <1>2, <1>8
<1> HIDE DEF n, m
<1>12. /\ \A i \in 1 .. n : 3 + i \in 1 .. m
       /\ 1 \in 1 .. m /\ 2 \in 1 .. m /\ 3 \in 1 .. m
       /\ m + 2 = n + 5 /\ m + 1 = n + 4
  BY <1>11
<1> USE DEF n, m
<1> QED
  BY <1>2, <1>8, <1>9, <1>10, <1>12

LEMMA OrderInjective ==
  ASSUME NEW i \in 1 .. Len(Order), NEW j \in 1 .. Len(Order), Order[i] = Order[j]
  PROVE  i = j
<1> DEFINE n == Len(Domains)
<1>1. n \in Nat /\ Len(Order) = n + 5
  BY OrderFacts
<1>2. ASSUME NEW k \in 1 .. n + 5
      PROVE  k \in {1, 2, 3, n + 4, n + 5} \/ \E d \in 1 .. n : k = 3 + d
  <2>1. CASE k <= 3 \/ k >= n + 4
    BY <1>1, <2>1
  <2>2. CASE ~ (k <= 3 \/ k >= n + 4)
    <3>1. k - 3 \in 1 .. n /\ k = 3 + (k - 3)
      BY <1>1, <2>2
    <3> QED
      BY <3>1
  <2> QED
    BY <2>1, <2>2
<1>3. ASSUME NEW d \in 1 .. n
      PROVE  Order[3 + d] = Domains[d]
             /\ Domains[d] \notin {"runs", "composio", "r2", "d1", "users"}
  BY OrderFacts, DomainsAssumption
<1>4. CASE i \in {1, 2, 3, n + 4, n + 5} /\ j \in {1, 2, 3, n + 4, n + 5}
  BY <1>1, <1>4, OrderFacts
<1>5. ASSUME NEW d \in 1 .. n, i = 3 + d, j \in {1, 2, 3, n + 4, n + 5} PROVE FALSE
  BY <1>3, <1>5, OrderFacts
<1>6. ASSUME NEW d \in 1 .. n, j = 3 + d, i \in {1, 2, 3, n + 4, n + 5} PROVE FALSE
  BY <1>3, <1>6, OrderFacts
<1>7. ASSUME NEW d \in 1 .. n, NEW e \in 1 .. n, i = 3 + d, j = 3 + e PROVE i = j
  BY <1>3, <1>7, DomainsAssumption
<1> QED
  BY <1>1, <1>2, <1>4, <1>5, <1>6, <1>7

(***************************************************************************)
(* The recorded steps are the first of the order, so the step that comes   *)
(* after recorded ones and is not recorded is the next.                    *)
(***************************************************************************)
LEMMA RecordedPrefix ==
  ASSUME deletion.steps \in Seq(Steps), StepsInOrder, Len(deletion.steps) <= Len(Order)
  PROVE  /\ Len(deletion.steps) \in 0 .. Len(Order)
         /\ \A i \in 1 .. Len(Order) : Order[i] \in Recorded <=> i <= Len(deletion.steps)
<1> DEFINE n == Len(deletion.steps)
<1>1. n \in Nat /\ Len(Order) \in Nat /\ n <= Len(Order)
  BY OrderFacts
<1>2. deletion.steps = SubSeq(Order, 1, n)
  BY DEF StepsInOrder
<1>3. \A i \in 1 .. n : deletion.steps[i] = Order[i]
  BY <1>1, <1>2
<1>5. \A i \in 1 .. n : i \in 1 .. Len(Order)
  BY <1>1
<1>6. ASSUME NEW i \in 1 .. Len(Order), Order[i] \in Recorded PROVE i <= n
  <2>1. PICK j \in 1 .. n : Order[i] = deletion.steps[j]
    BY <1>6 DEF Recorded
  <2>2. Order[i] = Order[j] /\ j \in 1 .. Len(Order)
    BY <1>3, <1>5, <2>1
  <2>3. i = j
    BY <2>2, OrderInjective
  <2> QED
    BY <1>1, <2>3
<1>7. ASSUME NEW i \in 1 .. Len(Order), i <= n PROVE Order[i] \in Recorded
  <2>1. i \in 1 .. n /\ deletion.steps[i] = Order[i]
    BY <1>1, <1>3, <1>7
  <2> QED
    BY <2>1 DEF Recorded
<1> QED
  BY <1>1, <1>6, <1>7

-----------------------------------------------------------------------------
(* The purge: what no step undoes *)

LEMMA StepsAreIndexed ==
  /\ Len(Order) \in Nat /\ Len(Order) > 3 /\ 3 \in 1 .. Len(Order) - 1
  /\ Len(Order) \in 1 .. Len(Order) /\ Order[Len(Order)] = "users"
  /\ \A i \in 1 .. Len(Domains) : 3 + i \in 1 .. Len(Order) - 1
  /\ \A i \in 1 .. Len(Order) : Order[i] \in Steps
<1>1. Len(Domains) \in Nat /\ Len(Order) = Len(Domains) + 5
  BY OrderFacts
<1>2. /\ Len(Order) \in Nat /\ Len(Order) > 3 /\ 3 \in 1 .. Len(Order) - 1
      /\ Len(Order) \in 1 .. Len(Order)
      /\ \A i \in 1 .. Len(Domains) : 3 + i \in 1 .. Len(Order) - 1
  BY <1>1
<1>3. Order[Len(Order)] = "users"
  BY <1>1, OrderFacts
<1> QED
  BY <1>2, <1>3 DEF Steps

LEMMA OrderIsSequence == Order \in Seq(Steps)
<1> DEFINE S == {"runs", "composio", "r2", "d1", "users"}
                  \cup {Domains[i] : i \in 1 .. Len(Domains)}
<1>1. /\ "runs" \in S /\ "composio" \in S /\ "r2" \in S /\ "d1" \in S /\ "users" \in S
      /\ Domains \in Seq(S)
  BY DomainsAssumption
<1> HIDE DEF S
<1>2. Order \in Seq(S)
  BY <1>1 DEF Order
<1>3. Order = [i \in 1 .. Len(Order) |-> Order[i]] /\ Len(Order) \in Nat
  BY <1>2
<1> QED
  BY <1>3, StepsAreIndexed

LEMMA SeqEqual ==
  ASSUME NEW S, NEW s \in Seq(S), NEW t \in Seq(S), NEW n \in Nat, Len(s) = n, Len(t) = n,
         NEW u, \A i \in 1 .. n : s[i] = u[i], \A i \in 1 .. n : t[i] = u[i]
  PROVE  s = t
  OBVIOUS

\* What is done for a step stays done, and what was recorded stays recorded.
Kept ==
  /\ Recorded \subseteq Recorded'
  /\ \A i \in 1 .. Len(Order) : StepDone(i, objects, rows) => StepDone(i, objects', rows')

\* One runner moves on, the others stay where they are.
OneMoves ==
  \/ work' = work
  \/ \E w \in Workers : \E x :
       /\ work' = [work EXCEPT ![w] = x]
       /\ IsWork(x) /\ WorkOK(x, Recorded', objects', rows')

LEMMA RunnersStaySound ==
  ASSUME PurgeInv, Kept, OneMoves
  PROVE  /\ DOMAIN work' = Workers
         /\ \A w \in Workers : IsWork(work'[w]) /\ WorkOK(work'[w], Recorded', objects', rows')
<1>1. /\ DOMAIN work = Workers
      /\ \A w \in Workers : IsWork(work[w]) /\ WorkOK(work[w], Recorded, objects, rows)
  BY DEF PurgeInv, PurgeShape
<1>2. ASSUME NEW w \in Workers
      PROVE  WorkOK(work[w], Recorded', objects', rows')
  <2>1. work[w].done \subseteq Recorded' /\ "users" \notin work[w].done
    BY <1>1 DEF WorkOK, Kept
  <2>2. ASSUME work[w].pc = "mark"
        PROVE  \E i \in 1 .. Len(Order) - 1 :
                 NextStep(work[w].done, i) /\ StepDone(i, objects', rows')
    <3>1. PICK i \in 1 .. Len(Order) - 1 :
            NextStep(work[w].done, i) /\ StepDone(i, objects, rows)
      BY <1>1, <2>2 DEF WorkOK
    <3>2. i \in 1 .. Len(Order)
      BY StepsAreIndexed
    <3> QED
      BY <3>1, <3>2 DEF Kept
  <2> QED
    BY <2>1, <2>2 DEF WorkOK
<1>3. CASE work' = work
  BY <1>1, <1>2, <1>3
<1>4. ASSUME NEW w \in Workers, NEW x, work' = [work EXCEPT ![w] = x],
             IsWork(x), WorkOK(x, Recorded', objects', rows')
      PROVE  /\ DOMAIN work' = Workers
             /\ \A v \in Workers : IsWork(work'[v]) /\ WorkOK(work'[v], Recorded', objects', rows')
  <2>1. DOMAIN work' = Workers /\ work'[w] = x
    BY <1>1, <1>4
  <2>2. \A v \in Workers : v # w => work'[v] = work[v]
    BY <1>1, <1>4
  <2> QED
    BY <1>1, <1>2, <1>4, <2>1, <2>2
<1> QED
  BY <1>3, <1>4 DEF OneMoves

(***************************************************************************)
(* Steps that leave the account and the deletion alone.                    *)
(***************************************************************************)
LEMMA QuietPurgeStep ==
  ASSUME PurgeInv, UNCHANGED <<account, deletion>>, inflight' \subseteq inflight,
         rows' \in [1 .. Len(Domains) -> Nat],
         \A i \in 1 .. Len(Order) : StepDone(i, objects, rows) => StepDone(i, objects', rows'),
         OneMoves
  PROVE  PurgeInv'
<1>1. Recorded' = Recorded
  BY DEF Recorded
<1>2. Kept
  BY <1>1 DEF Kept
<1>3. /\ DOMAIN work' = Workers
      /\ \A w \in Workers : IsWork(work'[w]) /\ WorkOK(work'[w], Recorded', objects', rows')
  BY <1>2, RunnersStaySound
<1>4. PurgeShape'
  BY <1>3 DEF PurgeInv, PurgeShape, IsWork
<1>5. (StepsInOrder /\ Len(deletion.steps) <= Len(Order) /\ StatusOK)'
  BY <1>1 DEF PurgeInv, StepsInOrder, StatusOK
<1>6. \A i \in 1 .. Len(Order) : Order[i] \in Recorded' => StepDone(i, objects', rows')
  BY <1>1 DEF PurgeInv
<1> QED
  BY <1>3, <1>4, <1>5, <1>6 DEF PurgeInv

LEMMA IdleIsSound ==
  ASSUME NEW w \in Workers, work' = [work EXCEPT ![w] = IdleWork]
  PROVE  OneMoves
<1>1. IsWork(IdleWork) /\ WorkOK(IdleWork, Recorded', objects', rows')
  BY DEF IdleWork, IsWork, WorkOK
<1> QED
  BY <1>1 DEF OneMoves

LEMMA BeginIsSound ==
  ASSUME NEW w \in Workers, NEW from, NEW gen, Begin(w, from, gen)
  PROVE  OneMoves
<1> DEFINE x == [IdleWork EXCEPT !.pc = "check", !.from = from, !.gen = gen]
<1>1. work' = [work EXCEPT ![w] = x]
  BY DEF Begin
<1>2. x = [pc |-> "check", from |-> from, gen |-> gen, done |-> {}, page |-> {}]
  <2>4. x = [IdleWork EXCEPT !.pc = "check", !.from = from, !.gen = gen]
    OBVIOUS
  <2> HIDE DEF x
  <2>1. PICK r : r = IdleWork
    OBVIOUS
  <2>2. r = [pc |-> "idle", from |-> "none", gen |-> 0, done |-> {}, page |-> {}]
    BY <2>1 DEF IdleWork
  <2>3. x = [r EXCEPT !.pc = "check", !.from = from, !.gen = gen]
    BY <2>1, <2>4
  <2> QED
    BY <2>2, <2>3
<1> HIDE DEF x
<1>3. IsWork(x) /\ x.done = {} /\ x.pc = "check"
  BY <1>2 DEF IsWork
<1>4. WorkOK(x, Recorded', objects', rows')
  BY <1>3 DEF WorkOK
<1> QED
  BY <1>1, <1>3, <1>4 DEF OneMoves

Moved(r, pc, page) == [r EXCEPT !.pc = pc, !.page = page]

LEMMA Changed ==
  ASSUME NEW r, IsWork(r), NEW pc, NEW page, NEW x, x = Moved(r, pc, page)
  PROVE  IsWork(x) /\ x.done = r.done /\ x.pc = pc
<1>1. r = [pc |-> r.pc, from |-> r.from, gen |-> r.gen, done |-> r.done, page |-> r.page]
  BY DEF IsWork
<1>2. x = [pc |-> pc, from |-> r.from, gen |-> r.gen, done |-> r.done, page |-> page]
  BY <1>1 DEF Moved
<1> QED
  BY <1>2 DEF IsWork

\* A runner that goes on knows what it knew before, and claims no step.
LEMMA GoesOn ==
  ASSUME PurgeInv, Recorded \subseteq Recorded', NEW w \in Workers, NEW pc, NEW page, pc # "mark",
         work' = [work EXCEPT ![w] = Moved(work[w], pc, page)]
  PROVE  OneMoves
<1> DEFINE x == Moved(work[w], pc, page)
<1>1. IsWork(work[w]) /\ WorkOK(work[w], Recorded, objects, rows)
  BY DEF PurgeInv, PurgeShape
<1>0. x = Moved(work[w], pc, page)
  OBVIOUS
<1> HIDE DEF x
<1>2. IsWork(x) /\ x.done = work[w].done /\ x.pc = pc
  BY <1>0, <1>1, Changed
<1>3. WorkOK(x, Recorded', objects', rows')
  BY <1>1, <1>2 DEF WorkOK
<1> HIDE DEF x
<1>4. work' = [work EXCEPT ![w] = x]
  BY DEF x
<1> QED
  BY <1>2, <1>3, <1>4 DEF OneMoves

\* A runner goes on to record the step it did.
LEMMA GoesToMark ==
  ASSUME PurgeInv, Recorded \subseteq Recorded', NEW w \in Workers, NEW page,
         work' = [work EXCEPT ![w] = Moved(work[w], "mark", page)],
         NEW i \in 1 .. Len(Order) - 1, AtStep(w, i), StepDone(i, objects', rows')
  PROVE  OneMoves
<1> DEFINE x == Moved(work[w], "mark", page)
<1>1. IsWork(work[w]) /\ WorkOK(work[w], Recorded, objects, rows)
  BY DEF PurgeInv, PurgeShape
<1>0. x = Moved(work[w], "mark", page)
  OBVIOUS
<1> HIDE DEF x
<1>2. IsWork(x) /\ x.done = work[w].done
  BY <1>0, <1>1, Changed
<1>3. NextStep(x.done, i)
  BY <1>2 DEF NextStep, AtStep
<1> HIDE DEF x
<1>4. WorkOK(x, Recorded', objects', rows')
  BY <1>1, <1>2, <1>3 DEF WorkOK
<1>5. work' = [work EXCEPT ![w] = x]
  BY DEF x
<1> QED
  BY <1>2, <1>4, <1>5 DEF OneMoves

-----------------------------------------------------------------------------
(* The purge: every action keeps the invariant *)

LEMMA GoToMoves ==
  ASSUME PurgeInv, NEW w \in Workers, NEW pc, GoTo(w, pc)
  PROVE  work' = [work EXCEPT ![w] = Moved(work[w], pc, work[w].page)]
<1>1. DOMAIN work = Workers /\ IsWork(work[w])
  BY DEF PurgeInv, PurgeShape
<1>2. PICK r : r = work[w]
  OBVIOUS
<1>3. r = [pc |-> r.pc, from |-> r.from, gen |-> r.gen, done |-> r.done, page |-> r.page]
  BY <1>1, <1>2 DEF IsWork
<1>4. [r EXCEPT !.pc = pc] = Moved(r, pc, r.page)
  BY <1>3 DEF Moved
<1>5. work' = [work EXCEPT ![w] = [r EXCEPT !.pc = pc]]
  BY <1>2 DEF GoTo
<1> QED
  BY <1>2, <1>4, <1>5

LEMMA PassStepInv ==
  ASSUME PurgeInv, NEW w \in Workers, PassStep(w)
  PROVE  PurgeInv'
<1>1. PICK i \in 1 .. Len(Order) : AtStep(w, i) /\ Order[i] \in {"runs", "composio", "d1"}
  BY DEF PassStep
<1>2. /\ GoTo(w, "mark") /\ UNCHANGED <<account, deletion, objects, inflight, rows>>
  BY DEF PassStep
<1>3. /\ i # 3 /\ i # Len(Order)
      /\ \A k \in 1 .. Len(Domains) : i # 3 + k
  <2>1. Order[i] # "r2" /\ Order[i] # "users" /\ \A k \in 1 .. Len(Domains) : Order[i] # Domains[k]
    BY <1>1, DomainsAssumption
  <2> QED
    BY <2>1, OrderFacts, StepsAreIndexed
<1>4. StepDone(i, objects', rows')
  BY <1>3 DEF StepDone
<1>5. i \in 1 .. Len(Order) - 1
  BY <1>3, StepsAreIndexed
<1>6. Recorded \subseteq Recorded'
  BY <1>2 DEF Recorded
<1>7. OneMoves
  BY <1>1, <1>2, <1>4, <1>5, <1>6, GoToMoves, GoesToMark
<1> QED
  BY <1>2, <1>7, QuietPurgeStep DEF PurgeInv, PurgeShape

LEMMA ListObjectsInv ==
  ASSUME PurgeInv, NEW w \in Workers, ListObjects(w)
  PROVE  PurgeInv'
<1> DEFINE pc == IF objects = {} THEN "mark" ELSE "delete"
<1>1. AtStep(w, 3) /\ UNCHANGED <<account, deletion, objects, inflight, rows>>
  BY DEF ListObjects
<1>2. work' = [work EXCEPT ![w].pc = pc, ![w].page = objects]
  BY DEF ListObjects
<1> HIDE DEF pc
<1>3. work' = [work EXCEPT ![w] = Moved(work[w], pc, objects)]
  BY <1>2 DEF Moved
<1>4. Recorded \subseteq Recorded'
  BY <1>1 DEF Recorded
<1>5. ASSUME objects = {} PROVE OneMoves
  <2>1. \A k \in 1 .. Len(Domains) : 3 # 3 + k
    BY OrderFacts
  <2>2. StepDone(3, objects', rows')
    BY <1>1, <1>5, <2>1 DEF StepDone
  <2>3. pc = "mark"
    BY <1>5 DEF pc
  <2> QED
    BY <1>1, <1>3, <1>4, <2>2, <2>3, StepsAreIndexed, GoesToMark
<1>6. ASSUME objects # {} PROVE OneMoves
  <2>1. pc # "mark"
    BY <1>6 DEF pc
  <2> QED
    BY <1>3, <1>4, <2>1, GoesOn
<1>7. OneMoves
  BY <1>5, <1>6
<1> QED
  BY <1>1, <1>7, QuietPurgeStep DEF PurgeInv, PurgeShape

LEMMA DeleteObjectInv ==
  ASSUME PurgeInv, NEW w \in Workers, NEW o, DeleteObject(w, o)
  PROVE  PurgeInv'
<1>1. objects' = objects \ {o} /\ UNCHANGED <<account, deletion, inflight, rows>>
  BY DEF DeleteObject
<1>2. PICK pc \in {"step", "delete", "check"} :
        work' = [work EXCEPT ![w].page = @ \ {o}, ![w].pc = pc]
  BY DEF DeleteObject
<1>3. DOMAIN work = Workers /\ IsWork(work[w])
  BY DEF PurgeInv, PurgeShape
<1>4. work' = [work EXCEPT ![w] = Moved(work[w], pc, work[w].page \ {o})]
  BY <1>2, <1>3 DEF Moved, IsWork
<1>5. Recorded \subseteq Recorded'
  BY <1>1 DEF Recorded
<1>6. pc # "mark"
  BY <1>2
<1>7. OneMoves
  BY <1>4, <1>5, <1>6, GoesOn
<1>8. \A i \in 1 .. Len(Order) : StepDone(i, objects, rows) => StepDone(i, objects', rows')
  BY <1>1 DEF StepDone
<1> QED
  BY <1>1, <1>7, <1>8, QuietPurgeStep DEF PurgeInv, PurgeShape

LEMMA PurgeRowsInv ==
  ASSUME PurgeInv, NEW w \in Workers, NEW d \in 1 .. Len(Domains), PurgeRows(w, d)
  PROVE  PurgeInv'
<1>1. /\ AtStep(w, 3 + d) /\ UNCHANGED <<account, deletion, objects, inflight>>
      /\ rows' = [rows EXCEPT ![d] = IF rows[d] > 0 THEN rows[d] - 1 ELSE 0]
  BY DEF PurgeRows
<1>2. PICK pc : /\ pc \in IF rows'[d] = 0 THEN {"mark"} ELSE {"step", "check"}
                /\ GoTo(w, pc)
  BY DEF PurgeRows
<1>3. rows \in [1 .. Len(Domains) -> Nat]
  BY DEF PurgeInv, PurgeShape
<1>4. /\ rows' \in [1 .. Len(Domains) -> Nat]
      /\ \A k \in 1 .. Len(Domains) : rows[k] = 0 => rows'[k] = 0
  <2>1. rows[d] \in Nat
    BY <1>3
  <2>2. (IF rows[d] > 0 THEN rows[d] - 1 ELSE 0) \in Nat
    BY <2>1
  <2>3. rows' \in [1 .. Len(Domains) -> Nat]
    BY <1>1, <1>3, <2>2
  <2> QED
    BY <1>1, <1>3, <2>1, <2>3
<1>5. \A i \in 1 .. Len(Order) : StepDone(i, objects, rows) => StepDone(i, objects', rows')
  BY <1>1, <1>4 DEF StepDone
<1>6. Recorded \subseteq Recorded'
  BY <1>1 DEF Recorded
<1>7. work' = [work EXCEPT ![w] = Moved(work[w], pc, work[w].page)]
  BY <1>2, GoToMoves
<1>8. ASSUME rows'[d] = 0 PROVE OneMoves
  <2>1. Len(Domains) \in Nat
    BY OrderFacts
  <2>2. 3 + d # 3 /\ \A k \in 1 .. Len(Domains) : 3 + d = 3 + k => k = d
    BY <2>1
  <2>3. StepDone(3 + d, objects', rows')
    BY <1>8, <2>2 DEF StepDone
  <2>4. pc = "mark" /\ 3 + d \in 1 .. Len(Order) - 1
    BY <1>2, <1>8, StepsAreIndexed
  <2> QED
    BY <1>1, <1>6, <1>7, <2>3, <2>4, GoesToMark
<1>9. ASSUME rows'[d] # 0 PROVE OneMoves
  <2>1. pc # "mark"
    BY <1>2, <1>9
  <2> QED
    BY <1>6, <1>7, <2>1, GoesOn
<1>10. OneMoves
  BY <1>8, <1>9
<1> QED
  BY <1>1, <1>4, <1>5, <1>10, QuietPurgeStep DEF PurgeInv, PurgeShape

\* Runners that read, stop, begin or find nothing to do.
LEMMA IdleStep ==
  ASSUME PurgeInv, NEW w \in Workers, work' = [work EXCEPT ![w] = IdleWork],
         UNCHANGED <<account, deletion, objects, inflight, rows>>
  PROVE  PurgeInv'
<1>1. OneMoves
  BY IdleIsSound
<1> QED
  BY <1>1, QuietPurgeStep DEF PurgeInv, PurgeShape

LEMMA StillStep ==
  ASSUME PurgeInv, UNCHANGED purgeVars
  PROVE  PurgeInv'
<1>1. OneMoves
  BY DEF OneMoves, purgeVars
<1> QED
  BY <1>1, QuietPurgeStep DEF PurgeInv, PurgeShape, purgeVars

LEMMA BeginStep ==
  ASSUME PurgeInv, NEW w \in Workers, NEW from, NEW gen, Begin(w, from, gen),
         UNCHANGED <<account, deletion, objects, inflight, rows>>
  PROVE  PurgeInv'
<1>1. OneMoves
  BY BeginIsSound
<1> QED
  BY <1>1, QuietPurgeStep DEF PurgeInv, PurgeShape

LEMMA Returns ==
  ASSUME NEW w \in Workers, Return(w)
  PROVE  work' = [work EXCEPT ![w] = IdleWork]
BY DEF Return, Complete, Leave

LEMMA CheckInv ==
  ASSUME PurgeInv, NEW w \in Workers, Check(w)
  PROVE  PurgeInv'
<1>1. UNCHANGED <<account, deletion, objects, inflight, rows>>
  BY DEF Check
<1>2. CASE GoTo(w, "read")
  <2>1. Recorded \subseteq Recorded'
    BY <1>1 DEF Recorded
  <2>2. OneMoves
    BY <1>2, <2>1, GoToMoves, GoesOn
  <2> QED
    BY <1>1, <2>2, QuietPurgeStep DEF PurgeInv, PurgeShape
<1>3. CASE Return(w)
  BY <1>1, <1>3, Returns, IdleStep
<1> QED
  BY <1>2, <1>3 DEF Check

LEMMA ReadRowInv ==
  ASSUME PurgeInv, NEW w \in Workers, ReadRow(w)
  PROVE  PurgeInv'
<1>1. UNCHANGED <<account, deletion, objects, inflight, rows>>
  BY DEF ReadRow
<1>2. CASE deletion.status = "done"
  BY <1>1, <1>2, Returns, IdleStep DEF ReadRow
<1>3. CASE deletion.status # "done"
  <2>1. work' = [work EXCEPT ![w].pc = "step", ![w].done = Recorded, ![w].page = {}]
    BY <1>3 DEF ReadRow
  <2>2. PICK r : r = work[w]
    OBVIOUS
  <2>3. r = [pc |-> r.pc, from |-> r.from, gen |-> r.gen, done |-> r.done, page |-> r.page]
    BY <2>2 DEF PurgeInv, PurgeShape, IsWork
  <2> DEFINE x == [pc |-> "step", from |-> r.from, gen |-> r.gen, done |-> Recorded, page |-> {}]
  <2>4. work' = [work EXCEPT ![w] = [r EXCEPT !.pc = "step", !.done = Recorded, !.page = {}]]
    BY <2>1, <2>2 DEF PurgeInv, PurgeShape
  <2>5. [r EXCEPT !.pc = "step", !.done = Recorded, !.page = {}] = x
    <3>1. PICK done : done = Recorded
      OBVIOUS
    <3>2. PICK y : y = [r EXCEPT !.pc = "step", !.done = done, !.page = {}]
      OBVIOUS
    <3>3. y = [pc |-> "step", from |-> r.from, gen |-> r.gen, done |-> done, page |-> {}]
      BY <2>3, <3>2
    <3> QED
      BY <3>1, <3>2, <3>3
  <2>6. work' = [work EXCEPT ![w] = x]
    BY <2>4, <2>5
  <2>7. IsWork(x) /\ x.done = Recorded /\ x.pc = "step"
    BY DEF IsWork
  <2> HIDE DEF x
  <2>8. Recorded' = Recorded /\ "users" \notin Recorded
    BY <1>1, <1>3 DEF Recorded, PurgeInv, StatusOK
  <2>9. WorkOK(x, Recorded', objects', rows')
    BY <2>7, <2>8 DEF WorkOK
  <2>10. OneMoves
    BY <2>6, <2>7, <2>9 DEF OneMoves
  <2> QED
    BY <1>1, <2>10, QuietPurgeStep DEF PurgeInv, PurgeShape
<1> QED
  BY <1>2, <1>3

LEMMA UploadInv ==
  ASSUME PurgeInv, NEW o, Upload(o)
  PROVE  PurgeInv'
<1>1. /\ o \in inflight /\ objects' = objects \cup {o} /\ inflight' = inflight \ {o}
      /\ UNCHANGED <<account, deletion, rows, work>>
  BY DEF Upload
<1>2. o \in Uploading
  BY <1>1 DEF PurgeInv, PurgeShape
<1>3. \A i \in 1 .. Len(Order) : StepDone(i, objects, rows) => StepDone(i, objects', rows')
  BY <1>1, <1>2 DEF StepDone
<1>4. OneMoves
  BY <1>1 DEF OneMoves
<1> QED
  BY <1>1, <1>3, <1>4, QuietPurgeStep DEF PurgeInv, PurgeShape

LEMMA DeleteAccountInv ==
  ASSUME PurgeInv, DeleteAccount
  PROVE  PurgeInv'
<1>1. /\ account.user = "active" /\ UNCHANGED <<objects, inflight, rows, work>>
      /\ account' = [account EXCEPT !.user = "deleting", !.key = FALSE]
      /\ deletion' = [deletion EXCEPT !.status = "pending"]
  BY DEF DeleteAccount
<1>2. /\ account = [user |-> account.user, key |-> account.key, tombstone |-> account.tombstone]
      /\ deletion = [status |-> deletion.status, steps |-> deletion.steps]
  BY DEF PurgeInv, PurgeShape
<1>3. account' = [user |-> "deleting", key |-> FALSE, tombstone |-> account.tombstone]
  BY <1>1, <1>2
<1>4. deletion' = [status |-> "pending", steps |-> deletion.steps]
  BY <1>1, <1>2
<1>5. Recorded' = Recorded /\ deletion'.steps = deletion.steps
  BY <1>4 DEF Recorded
<1>6. "users" \notin Recorded
  BY <1>1 DEF PurgeInv, StatusOK
<1>7. StatusOK'
  BY <1>3, <1>4, <1>5, <1>6 DEF StatusOK
<1>8. PurgeShape'
  BY <1>1, <1>3, <1>4 DEF PurgeInv, PurgeShape, IsWork
<1>9. (StepsInOrder /\ Len(deletion.steps) <= Len(Order))'
  BY <1>5 DEF PurgeInv, StepsInOrder
<1> QED
  BY <1>1, <1>5, <1>7, <1>8, <1>9 DEF PurgeInv

(***************************************************************************)
(* Recording the step after the recorded ones.                             *)
(***************************************************************************)
LEMMA Appending ==
  ASSUME PurgeInv, NEW k \in 1 .. Len(Order), Order[k] \notin Recorded,
         \A j \in 1 .. k - 1 : Order[j] \in Recorded, StepDone(k, objects, rows),
         deletion'.steps = Append(deletion.steps, Order[k]), UNCHANGED <<objects, rows>>
  PROVE  /\ deletion'.steps \in Seq(Steps) /\ StepsInOrder'
         /\ Len(deletion'.steps) <= Len(Order)
         /\ Recorded' = Recorded \cup {Order[k]}
         /\ \A i \in 1 .. Len(Order) : Order[i] \in Recorded' => StepDone(i, objects, rows)
<1> DEFINE old == deletion.steps
           new == deletion'.steps
           n == Len(old)
<1>1. /\ old \in Seq(Steps) /\ StepsInOrder /\ n <= Len(Order)
  BY DEF PurgeInv, PurgeShape
<1>2. /\ n \in 0 .. Len(Order) /\ Len(Order) \in Nat
      /\ \A i \in 1 .. Len(Order) : Order[i] \in Recorded <=> i <= n
  BY <1>1, RecordedPrefix, StepsAreIndexed
<1>3. k = n + 1
  <2>1. ~ (k <= n)
    BY <1>2
  <2>2. CASE k > 1
    <3>1. k - 1 \in 1 .. k - 1 /\ k - 1 \in 1 .. Len(Order)
      BY <1>2, <2>2
    <3>2. k - 1 <= n
      BY <1>2, <3>1
    <3> QED
      BY <1>2, <2>1, <3>2
  <2> QED
    BY <1>2, <2>1, <2>2
<1>4. Order[k] \in Steps
  BY StepsAreIndexed
<1>5. /\ new \in Seq(Steps) /\ Len(new) = n + 1 /\ new[n + 1] = Order[k]
      /\ \A i \in 1 .. n : new[i] = old[i]
  BY <1>1, <1>4
<1>6. Len(new) <= Len(Order)
  BY <1>2, <1>3, <1>5
<1>7. Recorded' = Recorded \cup {Order[k]}
  <2>1. Recorded' = {new[i] : i \in 1 .. n + 1}
    BY <1>5 DEF Recorded
  <2>2. Recorded = {old[i] : i \in 1 .. n}
    BY DEF Recorded
  <2>3. \A i \in 1 .. n + 1 : i \in 1 .. n \/ i = n + 1
    BY <1>2
  <2>4. n + 1 \in 1 .. n + 1 /\ \A i \in 1 .. n : i \in 1 .. n + 1
    BY <1>2
  <2> HIDE DEF n, old, new
  <2> QED
    BY <1>5, <2>1, <2>2, <2>3, <2>4
<1>8. StepsInOrder'
  <2>1. old = SubSeq(Order, 1, n)
    BY <1>1 DEF StepsInOrder
  <2>2. \A i \in 1 .. n : old[i] = Order[i]
    BY <1>2, <2>1
  <2>3. \A i \in 1 .. n + 1 : new[i] = Order[i]
    BY <1>2, <1>3, <1>5, <2>2
  <2>4. Order \in Seq(Steps)
    BY OrderIsSequence
  <2>5. /\ SubSeq(Order, 1, n + 1) \in Seq(Steps) /\ Len(SubSeq(Order, 1, n + 1)) = n + 1
        /\ \A i \in 1 .. n + 1 : SubSeq(Order, 1, n + 1)[i] = Order[i]
    BY <1>2, <1>3, <2>4
  <2>6. new = SubSeq(Order, 1, n + 1)
    BY <1>5, <2>3, <2>5, SeqEqual
  <2> QED
    BY <1>5, <2>6 DEF StepsInOrder
<1>9. ASSUME NEW i \in 1 .. Len(Order), Order[i] \in Recorded'
      PROVE  StepDone(i, objects, rows)
  <2>1. CASE Order[i] \in Recorded
    BY <2>1 DEF PurgeInv
  <2>2. CASE Order[i] = Order[k]
    BY <2>2, OrderInjective
  <2> QED
    BY <1>7, <1>9, <2>1, <2>2
<1> QED
  BY <1>5, <1>6, <1>7, <1>8, <1>9

LEMMA MarkStepInv ==
  ASSUME PurgeInv, NEW w \in Workers, NEW s, MarkStep(w, s)
  PROVE  PurgeInv'
<1> DEFINE done == work[w].done
<1>1. /\ work[w].pc = "mark" /\ s \in Steps \ done
      /\ \A i, j \in 1 .. Len(Order) : Order[i] = s /\ j < i => Order[j] \in done
      /\ deletion' = IF s \in Recorded THEN deletion ELSE Append1(s)
      /\ UNCHANGED <<account, objects, inflight, rows>>
  BY DEF MarkStep
<1>2. PICK pc \in {"step", "check"} :
        work' = [work EXCEPT ![w].pc = pc, ![w].done = @ \cup {s}]
  BY DEF MarkStep
<1>3. DOMAIN work = Workers /\ IsWork(work[w]) /\ WorkOK(work[w], Recorded, objects, rows)
  BY DEF PurgeInv, PurgeShape
<1>4. PICK i \in 1 .. Len(Order) - 1 : NextStep(done, i) /\ StepDone(i, objects, rows)
  BY <1>1, <1>3 DEF WorkOK
<1>5. PICK k \in 1 .. Len(Order) : s = Order[k]
  BY <1>1 DEF Steps
<1>6. i \in 1 .. Len(Order) /\ Len(Order) \in Nat
  BY StepsAreIndexed
<1>7. i = k
  <2>1. ~ (i < k)
    BY <1>1, <1>4, <1>5, <1>6 DEF NextStep
  <2>2. ASSUME k < i PROVE FALSE
    <3>1. k \in 1 .. i - 1
      BY <1>6, <2>2
    <3> QED
      BY <1>1, <1>4, <1>5, <3>1 DEF NextStep
  <2> QED
    BY <1>6, <2>1, <2>2
<1>8. s # "users"
  <2>1. k # Len(Order) /\ Len(Order) \in 1 .. Len(Order) /\ Order[Len(Order)] = "users"
    BY <1>6, <1>7, StepsAreIndexed
  <2> QED
    BY <1>5, <2>1, OrderInjective
<1>9. /\ Recorded' = Recorded \cup {s} /\ deletion'.status = deletion.status
      /\ deletion' = [status |-> deletion'.status, steps |-> deletion'.steps]
      /\ deletion'.steps \in Seq(Steps) /\ StepsInOrder' /\ Len(deletion'.steps) <= Len(Order)
      /\ \A j \in 1 .. Len(Order) : Order[j] \in Recorded' => StepDone(j, objects, rows)
  <2>1. CASE s \in Recorded
    <3>1. deletion' = deletion
      BY <1>1, <2>1
    <3>2. Recorded' = Recorded
      BY <3>1 DEF Recorded
    <3> QED
      BY <2>1, <3>1, <3>2 DEF PurgeInv, PurgeShape, StepsInOrder
  <2>2. CASE s \notin Recorded
    <3>1. deletion' = [deletion EXCEPT !.steps = Append(deletion.steps, s)]
      BY <1>1, <2>2 DEF Append1
    <3>2. deletion = [status |-> deletion.status, steps |-> deletion.steps]
      BY DEF PurgeInv, PurgeShape
    <3>3. deletion' = [status |-> deletion.status, steps |-> Append(deletion.steps, s)]
      BY <3>1, <3>2
    <3>4. \A j \in 1 .. k - 1 : Order[j] \in Recorded
      BY <1>3, <1>4, <1>7 DEF NextStep, WorkOK
    <3>5. /\ deletion'.steps \in Seq(Steps) /\ StepsInOrder'
          /\ Len(deletion'.steps) <= Len(Order)
          /\ Recorded' = Recorded \cup {Order[k]}
          /\ \A j \in 1 .. Len(Order) : Order[j] \in Recorded' => StepDone(j, objects, rows)
      BY <1>1, <1>4, <1>5, <1>7, <2>2, <3>3, <3>4, Appending
    <3> QED
      BY <1>5, <3>3, <3>5
  <2> QED
    BY <2>1, <2>2
<1>10. Kept
  BY <1>1, <1>9 DEF Kept
<1>11. OneMoves
  <2> DEFINE x == [pc |-> pc, from |-> work[w].from, gen |-> work[w].gen,
                   done |-> done \cup {s}, page |-> work[w].page]
  <2>1. work' = [work EXCEPT ![w] = x]
    <3>1. PICK r : r = work[w]
      OBVIOUS
    <3>2. PICK known : known = done \cup {s}
      OBVIOUS
    <3>3. r = [pc |-> r.pc, from |-> r.from, gen |-> r.gen, done |-> r.done, page |-> r.page]
      BY <1>3, <3>1 DEF IsWork
    <3>4. PICK y : y = [r EXCEPT !.pc = pc, !.done = known]
      OBVIOUS
    <3>5. work' = [work EXCEPT ![w] = y]
      BY <1>2, <1>3, <3>1, <3>2, <3>4
    <3>6. y = [pc |-> pc, from |-> r.from, gen |-> r.gen, done |-> known, page |-> r.page]
      BY <3>3, <3>4
    <3> QED
      BY <3>1, <3>2, <3>5, <3>6
  <2>2. IsWork(x) /\ x.done = done \cup {s} /\ x.pc = pc
    BY DEF IsWork
  <2> HIDE DEF x
  <2>3. x.done \subseteq Recorded' /\ "users" \notin x.done /\ x.pc # "mark"
    BY <1>2, <1>3, <1>8, <1>9, <2>2 DEF WorkOK
  <2>4. WorkOK(x, Recorded', objects', rows')
    BY <2>3 DEF WorkOK
  <2> QED
    BY <2>1, <2>2, <2>4 DEF OneMoves
<1>12. /\ DOMAIN work' = Workers
       /\ \A v \in Workers : IsWork(work'[v]) /\ WorkOK(work'[v], Recorded', objects', rows')
  BY <1>10, <1>11, RunnersStaySound
<1>13. PurgeShape'
  BY <1>1, <1>9, <1>12 DEF PurgeInv, PurgeShape, IsWork
<1>14. StatusOK'
  BY <1>1, <1>8, <1>9 DEF PurgeInv, StatusOK
<1> QED
  BY <1>1, <1>9, <1>12, <1>13, <1>14 DEF PurgeInv

LEMMA DeleteUserInv ==
  ASSUME PurgeInv, NEW w \in Workers, DeleteUser(w)
  PROVE  PurgeInv'
<1> DEFINE user == IF account.user = "deleting" THEN "gone" ELSE account.user
<1>1. /\ AtStep(w, Len(Order)) /\ UNCHANGED <<objects, inflight, rows>>
      /\ account' = [account EXCEPT !.tombstone = TRUE, !.user = user]
  BY DEF DeleteUser
<1>2. /\ account = [user |-> account.user, key |-> account.key, tombstone |-> account.tombstone]
      /\ deletion = [status |-> deletion.status, steps |-> deletion.steps]
      /\ StatusOK
  BY DEF PurgeInv, PurgeShape
<1> HIDE DEF user
<1>3. account' = [user |-> user, key |-> account.key, tombstone |-> TRUE]
  BY <1>1, <1>2
<1>4. CASE deletion.status = "pending"
  <2>1. user = "gone" /\ ~account.key /\ "users" \notin Recorded
    BY <1>2, <1>4 DEF StatusOK, user
  <2>2. deletion' = [Append1("users") EXCEPT !.status = "done"] /\ Return(w)
    <3>1. account'.user = "gone"
      BY <1>3, <2>1
    <3> QED
      BY <1>4, <3>1, ZenonT(30) DEF DeleteUser
  <2>3. Append1("users") = [status |-> deletion.status, steps |-> Append(deletion.steps, "users")]
    <3>1. PICK d : d = deletion
      OBVIOUS
    <3>2. PICK steps : steps = Append(d.steps, "users")
      OBVIOUS
    <3>3. PICK y : y = [d EXCEPT !.steps = steps]
      OBVIOUS
    <3>4. y = [status |-> d.status, steps |-> steps]
      BY <1>2, <3>1, <3>3
    <3>5. Append1("users") = y
      BY <3>1, <3>2, <3>3 DEF Append1
    <3> QED
      BY <3>1, <3>2, <3>4, <3>5
  <2>4. deletion' = [status |-> "done", steps |-> Append(deletion.steps, "users")]
    BY <2>2, <2>3
  <2>5. /\ Len(Order) \in 1 .. Len(Order) /\ Len(Order) \in Nat /\ Order[Len(Order)] = "users"
    BY StepsAreIndexed
  <2>6. \A j \in 1 .. Len(Order) - 1 : Order[j] \in Recorded
    BY <1>1 DEF AtStep, PurgeInv, WorkOK
  <2>7. StepDone(Len(Order), objects, rows)
    <3>1. Len(Order) # 3 /\ \A k \in 1 .. Len(Domains) : Len(Order) # 3 + k
      BY OrderFacts
    <3> QED
      BY <3>1 DEF StepDone
  <2>8. /\ deletion'.steps \in Seq(Steps) /\ StepsInOrder'
        /\ Len(deletion'.steps) <= Len(Order)
        /\ Recorded' = Recorded \cup {"users"}
        /\ \A j \in 1 .. Len(Order) : Order[j] \in Recorded' => StepDone(j, objects, rows)
    BY <1>1, <2>1, <2>4, <2>5, <2>6, <2>7, Appending
  <2>9. Kept
    BY <1>1, <2>8 DEF Kept
  <2>10. OneMoves
    BY <2>2, Returns, IdleIsSound
  <2>11. /\ DOMAIN work' = Workers
         /\ \A v \in Workers : IsWork(work'[v]) /\ WorkOK(work'[v], Recorded', objects', rows')
    BY <2>9, <2>10, RunnersStaySound
  <2>12. PurgeShape'
    BY <1>1, <1>3, <2>4, <2>8, <2>11 DEF PurgeInv, PurgeShape, IsWork
  <2>13. StatusOK'
    BY <1>3, <2>1, <2>4, <2>8 DEF StatusOK
  <2> QED
    BY <1>1, <2>8, <2>11, <2>12, <2>13 DEF PurgeInv
<1>5. CASE deletion.status # "pending"
  <2>1. deletion' = deletion /\ GoTo(w, "check")
    BY <1>5 DEF DeleteUser
  <2>2. Recorded' = Recorded
    BY <2>1 DEF Recorded
  <2>3. Kept
    BY <1>1, <2>2 DEF Kept
  <2>4. OneMoves
    BY <2>1, <2>2, GoToMoves, GoesOn
  <2>5. /\ DOMAIN work' = Workers
        /\ \A v \in Workers : IsWork(work'[v]) /\ WorkOK(work'[v], Recorded', objects', rows')
    BY <2>3, <2>4, RunnersStaySound
  <2>6. PurgeShape'
    BY <1>1, <1>3, <2>1, <2>5 DEF PurgeInv, PurgeShape, IsWork
  <2>7. StatusOK'
    BY <1>2, <1>3, <1>5, <2>1, <2>2 DEF StatusOK, user
  <2> QED
    BY <1>1, <2>1, <2>2, <2>5, <2>6, <2>7 DEF PurgeInv, StepsInOrder
<1> QED
  BY <1>4, <1>5

LEMMA PurgeInvInit == PurgeInit => PurgeInv
<1> SUFFICES ASSUME PurgeInit PROVE PurgeInv
  OBVIOUS
<1>1. /\ account = [user |-> "active", key |-> TRUE, tombstone |-> FALSE]
      /\ deletion = [status |-> "none", steps |-> <<>>] /\ inflight = Uploading
      /\ rows = [i \in 1 .. Len(Domains) |-> Batches]
      /\ work = [w \in Workers |-> IdleWork]
  BY DEF PurgeInit
<1>2. Recorded = {} /\ deletion.steps = <<>> /\ Len(deletion.steps) = 0
  BY <1>1 DEF Recorded
<1>3. PurgeShape
  <2>1. IsWork(IdleWork)
    BY DEF IsWork, IdleWork
  <2> QED
    BY <1>1, <2>1, PurgeAssumption DEF PurgeShape
<1>4. StepsInOrder /\ Len(deletion.steps) <= Len(Order)
  BY <1>2, StepsAreIndexed DEF StepsInOrder
<1>5. StatusOK
  BY <1>1, <1>2 DEF StatusOK
<1>6. \A w \in Workers : WorkOK(work[w], Recorded, objects, rows)
  BY <1>1 DEF WorkOK, IdleWork
<1> QED
  BY <1>2, <1>3, <1>4, <1>5, <1>6 DEF PurgeInv

LEMMA PurgeInvStep == PurgeInv /\ [PurgeNext]_vars => PurgeInv'
<1> SUFFICES ASSUME PurgeInv, [PurgeNext]_vars PROVE PurgeInv'
  OBVIOUS
<1>1. CASE UNCHANGED vars
  BY <1>1, StillStep DEF vars
<1>2. CASE DispatchStep /\ UNCHANGED purgeVars
  BY <1>2, StillStep
<1>3. CASE DeleteAccount
  BY <1>3, DeleteAccountInv
<1>4. CASE \E o \in inflight : Upload(o)
  BY <1>4, UploadInv
<1>5. ASSUME NEW p \in Procs, StartJob(p) \/ JobFindsBusy(p) \/ ResumePending(p) \/ CrashPurging(p)
      PROVE  PurgeInv'
  <2>1. p \in Workers
    BY DEF Workers
  <2>2. CASE StartJob(p)
    BY <2>1, <2>2, BeginStep DEF StartJob
  <2>3. CASE JobFindsBusy(p)
    BY <2>3, StillStep DEF JobFindsBusy
  <2>4. CASE ResumePending(p)
    BY <2>1, <2>4, BeginStep DEF ResumePending
  <2>5. CASE CrashPurging(p)
    BY <2>1, <2>5, IdleStep DEF CrashPurging
  <2> QED
    BY <1>5, <2>2, <2>3, <2>4, <2>5
<1>6. CASE StartAttempt
  <2>1. Task \in Workers
    BY DEF Workers
  <2> QED
    BY <1>6, <2>1, BeginStep DEF StartAttempt
<1>7. ASSUME NEW w \in Workers, Purge(w) PROVE PurgeInv'
  <2>1. CASE Check(w)
    BY <2>1, CheckInv
  <2>2. CASE ReadRow(w)
    BY <2>2, ReadRowInv
  <2>3. CASE PassStep(w)
    BY <2>3, PassStepInv
  <2>4. CASE ListObjects(w)
    BY <2>4, ListObjectsInv
  <2>5. CASE DeleteUser(w)
    BY <2>5, DeleteUserInv
  <2>6. CASE \E o \in work[w].page : DeleteObject(w, o)
    BY <2>6, DeleteObjectInv
  <2>7. CASE \E i \in 1 .. Len(Domains) : PurgeRows(w, i)
    BY <2>7, PurgeRowsInv
  <2>8. CASE \E s \in Steps : MarkStep(w, s)
    BY <2>8, MarkStepInv
  <2> QED
    BY <1>7, <2>1, <2>2, <2>3, <2>4, <2>5, <2>6, <2>7, <2>8 DEF Purge
<1>8. ASSUME NEW w \in Workers, PurgeFails(w) PROVE PurgeInv'
  <2>1. /\ work' = [work EXCEPT ![w] = IdleWork]
        /\ UNCHANGED <<account, deletion, objects, inflight, rows>>
    BY <1>8 DEF PurgeFails, RetryOrFail, Leave
  <2> QED
    BY <2>1, IdleStep
<1> QED
  BY <1>1, <1>2, <1>3, <1>4, <1>5, <1>6, <1>7, <1>8 DEF PurgeNext

LEMMA PurgeInvImplies == PurgeInv => StepsHold
<1> SUFFICES ASSUME PurgeInv PROVE StepsHold
  OBVIOUS
<1> DEFINE n == Len(deletion.steps)
<1>1. deletion.steps \in Seq(Steps) /\ StepsInOrder /\ n <= Len(Order) /\ StatusOK
  BY DEF PurgeInv, PurgeShape
<1>2. /\ n \in 0 .. Len(Order)
      /\ \A i \in 1 .. Len(Order) : Order[i] \in Recorded <=> i <= n
  BY <1>1, RecordedPrefix
<1>3. \A i \in 1 .. Len(Order) : Order[i] \in Recorded => StepDone(i, objects, rows)
  BY DEF PurgeInv
<1>4. "r2" \in Recorded => objects \subseteq Uploading
  <2>1. Order[3] = "r2" /\ 3 \in 1 .. Len(Order)
    BY OrderFacts, StepsAreIndexed
  <2> QED
    BY <1>3, <2>1 DEF StepDone
<1>5. ASSUME NEW d \in 1 .. Len(Domains), Domains[d] \in Recorded PROVE rows[d] = 0
  <2>1. Order[3 + d] = Domains[d] /\ 3 + d \in 1 .. Len(Order)
    BY OrderFacts, StepsAreIndexed
  <2> QED
    BY <1>3, <1>5, <2>1 DEF StepDone
<1>6. ASSUME account.user = "gone"
      PROVE  /\ account.tombstone /\ ~account.key
             /\ deletion.status = "done" /\ Recorded = Steps
  <2>1. account.tombstone /\ ~account.key /\ deletion.status = "done" /\ "users" \in Recorded
    BY <1>1, <1>6 DEF StatusOK
  <2>2. n = Len(Order)
    BY <1>2, <2>1, StepsAreIndexed
  <2>3. Steps \subseteq Recorded
    BY <1>2, <2>2, StepsAreIndexed DEF Steps
  <2>4. Recorded \subseteq Steps
    BY <1>1 DEF Recorded
  <2> QED
    BY <2>1, <2>3, <2>4
<1> QED
  BY <1>1, <1>4, <1>5, <1>6 DEF StepsHold, RecordedStepsHold

(***************************************************************************)
(* Whatever runners of several processes and of the task do at the same    *)
(* time, from rows they read earlier, and wherever each of them fails:     *)
(* steps are recorded in order and once, every recorded one is done and    *)
(* stays done, and the users row is gone only after all of them.           *)
(***************************************************************************)
THEOREM StepsAreTrue == PurgeSafety => []StepsHold
<1>1. PurgeSafety => []PurgeInv
  BY PurgeInvInit, PurgeInvStep, PTL DEF PurgeSafety
<1> QED
  BY <1>1, PurgeInvImplies, PTL

-----------------------------------------------------------------------------
(* The purge takes the protocol's steps *)

(***************************************************************************)
(* The task works only while its run is active, so what it does at the end *)
(* of an attempt is a step of the run.                                     *)
(***************************************************************************)
RunInv ==
  /\ DispatchTypeOK /\ DOMAIN work = Workers
  /\ work[Task].pc # "idle" => run.status = "active"

LEMMA JobLeaves ==
  ASSUME DispatchTypeOK, NEW p \in Procs, Leave(p), UNCHANGED <<exec, intent, op, starts>>
  PROVE  [DispatchNext]_dispatchVars
<1>1. PICK a : a = api[p]
  OBVIOUS
<1>2. a \in Api /\ DOMAIN api = Procs /\ api \in [Procs -> Api]
  BY <1>1 DEF DispatchTypeOK
<1>3. UNCHANGED <<exec, intent, op, run, starts>>
  BY DEF Leave
<1>4. CASE work[p].from = "job" /\ a.job # 0
  <2>1. api' = [api EXCEPT ![p].job = 0]
    BY <1>4 DEF Leave
  <2>2. JobEnds(p)
    BY <1>1, <1>3, <1>4, <2>1 DEF JobEnds
  <2> QED
    BY <2>2 DEF DispatchNext
<1>5. CASE ~ (work[p].from = "job" /\ a.job # 0)
  <2>1. PICK b : b = [a EXCEPT !.job = a.job]
    OBVIOUS
  <2>2. b = a
    BY <1>2, <2>1 DEF Api
  <2>3. api' = [api EXCEPT ![p] = b]
    BY <1>1, <1>5, <2>1 DEF Leave
  <2>4. api' = api
    BY <1>1, <1>2, <2>2, <2>3
  <2> QED
    BY <1>3, <2>4 DEF dispatchVars
<1> QED
  BY <1>4, <1>5

LEMMA RunnerEnds ==
  ASSUME RunInv, NEW w \in Workers, work[w].pc # "idle",
         Return(w) \/ PurgeFails(w)
  PROVE  [DispatchNext]_dispatchVars
<1>1. CASE w = Task
  <2>1. run.status = "active" /\ UNCHANGED <<exec, intent, api, op, starts>>
    BY <1>1 DEF RunInv, Return, PurgeFails, Complete, RetryOrFail
  <2>2. \/ run' = [run EXCEPT !.status = "completed"]
        \/ run' = [run EXCEPT !.status = "failed"]
        \/ run.attempt < MaxAttempts /\ run' = [run EXCEPT !.attempt = @ + 1]
    BY <1>1 DEF Return, PurgeFails, Complete, RetryOrFail
  <2>3. RunEnds \/ RunRetries
    BY <2>1, <2>2 DEF RunEnds, RunRetries
  <2> QED
    BY <2>3 DEF DispatchNext
<1>2. CASE w # Task
  <2>1. w \in Procs /\ Leave(w) /\ UNCHANGED <<exec, intent, op, starts>>
    BY <1>2 DEF Workers, Return, PurgeFails
  <2> QED
    BY <2>1, JobLeaves DEF RunInv
<1> QED
  BY <1>1, <1>2

LEMMA PurgeTakesDispatchSteps ==
  ASSUME RunInv, [PurgeNext]_vars
  PROVE  [DispatchNext]_dispatchVars
<1>1. CASE UNCHANGED vars
  BY <1>1 DEF vars
<1>2. CASE DispatchStep /\ UNCHANGED purgeVars
  BY <1>2 DEF DispatchNext
<1>3. CASE DeleteAccount
  BY <1>3 DEF DeleteAccount, DispatchNext
<1>4. CASE \E o \in inflight : Upload(o)
  BY <1>4 DEF Upload
<1>5. ASSUME NEW p \in Procs, StartJob(p) \/ JobFindsBusy(p) \/ ResumePending(p) \/ CrashPurging(p)
      PROVE  [DispatchNext]_dispatchVars
  <2>1. CASE StartJob(p) \/ ResumePending(p)
    BY <2>1 DEF StartJob, ResumePending
  <2>2. CASE JobFindsBusy(p)
    <3>1. JobEnds(p)
      BY <2>2 DEF JobFindsBusy, JobEnds
    <3> QED
      BY <3>1 DEF DispatchNext
  <2>3. CASE CrashPurging(p)
    BY <2>3 DEF CrashPurging, DispatchNext
  <2> QED
    BY <1>5, <2>1, <2>2, <2>3
<1>6. CASE StartAttempt
  BY <1>6 DEF StartAttempt
<1>7. ASSUME NEW w \in Workers, Purge(w) PROVE [DispatchNext]_dispatchVars
  <2>1. CASE UNCHANGED dispatchVars
    BY <2>1
  <2>2. CASE Check(w) \/ ReadRow(w) \/ DeleteUser(w)
    <3>1. work[w].pc # "idle" /\ (Return(w) \/ UNCHANGED dispatchVars)
      BY <2>2 DEF Check, ReadRow, DeleteUser, AtStep
    <3> QED
      BY <3>1, RunnerEnds
  <2>3. CASE ~ (Check(w) \/ ReadRow(w) \/ DeleteUser(w))
    BY <1>7, <2>3 DEF Purge, PassStep, ListObjects, DeleteObject, PurgeRows, MarkStep
  <2> QED
    BY <2>2, <2>3
<1>8. ASSUME NEW w \in Workers, PurgeFails(w) PROVE [DispatchNext]_dispatchVars
  BY <1>8, RunnerEnds DEF PurgeFails
<1> QED
  BY <1>1, <1>2, <1>3, <1>4, <1>5, <1>6, <1>7, <1>8 DEF PurgeNext

LEMMA RunStaysActive ==
  ASSUME DispatchStep, run.status = "active"
  PROVE  run'.status = "active"
<1> USE DEF Boot, Pass, Reconcile, Operator, LocalStart, BeginPass, EndPass, Claim,
            MarkLocalStart, StartLocal, StartFails, ReleaseLocalStart, StartTrigger,
            MarkDispatched, Initialize, BeginReconcile, Rebind, Switch, RebindSwitched,
            SwitchDies, LeaseExpires
<1> QED
  BY DEF DispatchStep

\* What a step of the runner w says of the other runners and of the run.
LEMMA RunnerSteps ==
  ASSUME NEW w \in Workers, DOMAIN work = Workers, Purge(w)
  PROVE  /\ DOMAIN work' = Workers /\ work[w].pc # "idle"
         /\ \A v \in Workers : v # w => work'[v] = work[v]
         /\ Return(w) \/ UNCHANGED dispatchVars
<1>1. CASE Check(w)
  BY <1>1, Returns DEF Check, GoTo
<1>2. CASE ReadRow(w)
  BY <1>2, Returns DEF ReadRow
<1>3. CASE PassStep(w)
  BY <1>3 DEF PassStep, GoTo, AtStep
<1>4. CASE ListObjects(w)
  BY <1>4 DEF ListObjects, AtStep
<1>5. CASE DeleteUser(w)
  BY <1>5, Returns DEF DeleteUser, GoTo, AtStep
<1>6. CASE \E o \in work[w].page : DeleteObject(w, o)
  BY <1>6 DEF DeleteObject
<1>7. CASE \E i \in 1 .. Len(Domains) : PurgeRows(w, i)
  BY <1>7 DEF PurgeRows, GoTo, AtStep
<1>8. CASE \E s \in Steps : MarkStep(w, s)
  BY <1>8 DEF MarkStep
<1> QED
  BY <1>1, <1>2, <1>3, <1>4, <1>5, <1>6, <1>7, <1>8 DEF Purge

LEMMA RunInvInit == PurgeInit => RunInv
BY DispatchTypeInit DEF PurgeInit, RunInv, IdleWork, Workers

LEMMA RunInvStep == RunInv /\ [PurgeNext]_vars => RunInv'
<1> SUFFICES ASSUME RunInv, [PurgeNext]_vars PROVE RunInv'
  OBVIOUS
<1>1. DispatchTypeOK'
  BY PurgeTakesDispatchSteps, DispatchTypeStep DEF RunInv
<1> DEFINE Rest == DOMAIN work' = Workers /\ (work'[Task].pc # "idle" => run'.status = "active")
<1>2. Task \in Workers /\ Task \notin Procs /\ DOMAIN work = Workers
  BY PurgeAssumption DEF Workers, RunInv
<1>3. ASSUME work' = work, UNCHANGED run PROVE Rest
  BY <1>2, <1>3 DEF RunInv
<1>4. ASSUME NEW p \in Procs, NEW x, work' = [work EXCEPT ![p] = x], UNCHANGED run PROVE Rest
  BY <1>2, <1>4 DEF RunInv
<1>5. ASSUME work' = [work EXCEPT ![Task] = IdleWork] PROVE Rest
  <2>1. IdleWork.pc = "idle"
    BY DEF IdleWork
  <2> QED
    BY <1>2, <1>5, <2>1
<1>6. ASSUME UNCHANGED vars PROVE Rest
  BY <1>3, <1>6 DEF vars, dispatchVars, purgeVars
<1>7. ASSUME DispatchStep /\ UNCHANGED purgeVars PROVE Rest
  BY <1>2, <1>7, RunStaysActive DEF purgeVars, RunInv
<1>8. ASSUME DeleteAccount \/ \E o \in inflight : Upload(o) PROVE Rest
  BY <1>3, <1>8 DEF DeleteAccount, RecordIntent, Upload, dispatchVars
<1>9. ASSUME NEW p \in Procs, StartJob(p) \/ JobFindsBusy(p) \/ ResumePending(p) \/ CrashPurging(p)
      PROVE  Rest
  <2>1. CASE StartJob(p) \/ ResumePending(p)
    BY <1>4, <2>1 DEF StartJob, ResumePending, Begin, dispatchVars
  <2>2. CASE JobFindsBusy(p)
    BY <1>3, <2>2 DEF JobFindsBusy, purgeVars
  <2>3. CASE CrashPurging(p)
    BY <1>4, <2>3 DEF CrashPurging, Crash
  <2> QED
    BY <1>9, <2>1, <2>2, <2>3
<1>10. ASSUME StartAttempt PROVE Rest
  BY <1>2, <1>10 DEF StartAttempt, Begin, dispatchVars
<1>11. ASSUME NEW w \in Workers, Purge(w) PROVE Rest
  <2>1. /\ DOMAIN work' = Workers /\ work[w].pc # "idle"
        /\ \A v \in Workers : v # w => work'[v] = work[v]
        /\ Return(w) \/ UNCHANGED dispatchVars
    BY <1>2, <1>11, RunnerSteps
  <2>2. CASE Return(w) /\ w = Task
    BY <1>5, <2>2, Returns
  <2>3. CASE Return(w) /\ w # Task
    <3>1. w \in Procs /\ UNCHANGED run
      BY <2>3 DEF Return, Leave, Workers
    <3> QED
      BY <1>4, <2>3, <3>1, Returns
  <2>4. CASE UNCHANGED dispatchVars
    BY <1>2, <2>1, <2>4 DEF dispatchVars, RunInv
  <2> QED
    BY <2>1, <2>2, <2>3, <2>4
<1>12. ASSUME NEW w \in Workers, PurgeFails(w) PROVE Rest
  <2>1. CASE w = Task
    BY <1>5, <1>12, <2>1 DEF PurgeFails, RetryOrFail
  <2>2. CASE w # Task
    <3>1. w \in Procs /\ UNCHANGED run /\ work' = [work EXCEPT ![w] = IdleWork]
      BY <1>12, <2>2 DEF PurgeFails, Leave, Workers
    <3> QED
      BY <1>4, <3>1
  <2> QED
    BY <2>1, <2>2
<1>13. Rest
  BY <1>6, <1>7, <1>8, <1>9, <1>10, <1>11, <1>12 DEF PurgeNext
<1> QED
  BY <1>1, <1>13 DEF RunInv

(***************************************************************************)
(* The purge and the dispatch protocol composed are an implementation of   *)
(* the protocol: what handlers, attempts and the hourly job do to the      *)
(* shared rows and processes is a step of the protocol or none at all.     *)
(***************************************************************************)
THEOREM PurgeFollowsTheProtocol == PurgeSafety => DispatchSafety
<1>1. PurgeSafety => []RunInv
  BY RunInvInit, RunInvStep, PTL DEF PurgeSafety
<1>2. PurgeInit => DispatchInit
  BY DEF PurgeInit
<1>3. RunInv /\ [PurgeNext]_vars => [DispatchNext]_dispatchVars
  BY PurgeTakesDispatchSteps
<1> QED
  BY <1>1, <1>2, <1>3, PTL DEF PurgeSafety, DispatchSafety

(***************************************************************************)
(* So the handler of an account's purge is started in process at most once *)
(* by the protocol, with runners, retries and the hourly job at work.      *)
(***************************************************************************)
THEOREM PurgesStartOnce == PurgeSafety => []LocalStartsOnce
BY PurgeFollowsTheProtocol, IntentsStartOnce, PTL

-----------------------------------------------------------------------------
(* The purge: its types. *)

WorkRows == [pc : {"idle", "check", "read", "step", "delete", "mark"},
             from : {"none", "job", "hourly", "run"}, gen : Nat,
             done : SUBSET Steps, page : SUBSET (Stored \cup Uploading)]

PurgeTypes ==
  /\ account \in [user : {"active", "deleting", "gone"}, key : BOOLEAN, tombstone : BOOLEAN]
  /\ deletion \in [status : {"none", "pending", "done"}, steps : Seq(Steps)]
  /\ objects \subseteq Stored \cup Uploading /\ inflight \subseteq Uploading
  /\ rows \in [1 .. Len(Domains) -> 0 .. Batches]
  /\ work \in [Workers -> WorkRows]

LEMMA WorkMoves ==
  ASSUME PurgeTypes, NEW w \in Workers, NEW x \in WorkRows, work' = [work EXCEPT ![w] = x]
  PROVE  work' \in [Workers -> WorkRows]
BY DEF PurgeTypes

LEMMA IdleIsTyped == IdleWork \in WorkRows
BY DEF IdleWork, WorkRows

LEMMA ReturnIsTyped ==
  ASSUME PurgeTypes, NEW w \in Workers, Return(w) \/ Leave(w) \/ (w = Task /\ RetryOrFail)
  PROVE  work' \in [Workers -> WorkRows]
BY WorkMoves, IdleIsTyped DEF Return, Leave, Complete, RetryOrFail

LEMMA GoToIsTyped ==
  ASSUME PurgeTypes, NEW w \in Workers, NEW pc \in {"idle", "check", "read", "step", "delete", "mark"},
         GoTo(w, pc)
  PROVE  work' \in [Workers -> WorkRows]
<1>1. work \in [Workers -> WorkRows] /\ work[w] \in WorkRows
  BY DEF PurgeTypes
<1>2. work' = [work EXCEPT ![w] = [work[w] EXCEPT !.pc = pc]]
  BY <1>1 DEF GoTo
<1>3. [work[w] EXCEPT !.pc = pc] \in WorkRows
  BY <1>1 DEF WorkRows
<1> QED
  BY <1>2, <1>3, WorkMoves

LEMMA BeginIsTyped ==
  ASSUME PurgeTypes, NEW w \in Workers, NEW from \in {"job", "hourly", "run"}, NEW gen \in Nat,
         Begin(w, from, gen)
  PROVE  work' \in [Workers -> WorkRows]
<1> DEFINE x == [IdleWork EXCEPT !.pc = "check", !.from = from, !.gen = gen]
<1>1. x \in WorkRows
  BY DEF IdleWork, WorkRows
<1>2. work' = [work EXCEPT ![w] = x]
  BY DEF Begin
<1> HIDE DEF x
<1> QED
  BY <1>1, <1>2, WorkMoves

LEMMA StepIsRecorded ==
  ASSUME PurgeTypes, NEW s \in Steps
  PROVE  /\ Append1(s) \in [status : {"none", "pending", "done"}, steps : Seq(Steps)]
         /\ [Append1(s) EXCEPT !.status = "done"] \in [status : {"none", "pending", "done"}, steps : Seq(Steps)]
<1> DEFINE later == Append(deletion.steps, s)
<1>1. deletion \in [status : {"none", "pending", "done"}, steps : Seq(Steps)] /\ later \in Seq(Steps)
  BY DEF PurgeTypes
<1>2. Append1(s) = [deletion EXCEPT !.steps = later]
  BY DEF Append1
<1> HIDE DEF later
<1> QED
  BY <1>1, <1>2

LEMMA RunnersAreTyped ==
  ASSUME PurgeTypes, NEW w \in Workers, Purge(w)
  PROVE  PurgeTypes'
<1>1. /\ account \in [user : {"active", "deleting", "gone"}, key : BOOLEAN, tombstone : BOOLEAN]
      /\ deletion \in [status : {"none", "pending", "done"}, steps : Seq(Steps)]
      /\ deletion.steps \in Seq(Steps)
      /\ objects \subseteq Stored \cup Uploading /\ inflight \subseteq Uploading
      /\ rows \in [1 .. Len(Domains) -> 0 .. Batches] /\ Batches \in Nat
      /\ work \in [Workers -> WorkRows] /\ work[w] \in WorkRows
  BY PurgeAssumption DEF PurgeTypes
<1>2. Recorded \subseteq Steps
  BY <1>1 DEF Recorded
<1>3. ASSUME UNCHANGED <<account, deletion, objects, inflight, rows>>, work' \in [Workers -> WorkRows]
      PROVE  PurgeTypes'
  BY <1>1, <1>3 DEF PurgeTypes
<1>4. ASSUME Check(w)
      PROVE  PurgeTypes'
  BY <1>3, <1>4, GoToIsTyped, ReturnIsTyped DEF Check
<1>5. ASSUME ReadRow(w)
      PROVE  PurgeTypes'
  <2>1. CASE Return(w)
    BY <1>3, <1>5, <2>1, ReturnIsTyped DEF ReadRow
  <2>2. CASE ~Return(w)
    <3> DEFINE x == [work[w] EXCEPT !.pc = "step", !.done = Recorded, !.page = {}]
    <3>1. x \in WorkRows
      BY <1>1, <1>2 DEF WorkRows
    <3>2. work' = [work EXCEPT ![w] = x]
      BY <1>1, <1>5, <2>2 DEF ReadRow
    <3> HIDE DEF x
    <3> QED
      BY <1>3, <1>5, <3>1, <3>2, WorkMoves DEF ReadRow
  <2> QED
    BY <2>1, <2>2
<1>6. ASSUME PassStep(w)
      PROVE  PurgeTypes'
  BY <1>3, <1>6, GoToIsTyped DEF PassStep
<1>7. ASSUME ListObjects(w)
      PROVE  PurgeTypes'
  <2> DEFINE x == [work[w] EXCEPT !.pc = IF objects = {} THEN "mark" ELSE "delete", !.page = objects]
  <2>1. x \in WorkRows
    BY <1>1 DEF WorkRows
  <2>2. work' = [work EXCEPT ![w] = x]
    BY <1>1, <1>7 DEF ListObjects
  <2> HIDE DEF x
  <2> QED
    BY <1>3, <1>7, <2>1, <2>2, WorkMoves DEF ListObjects
<1>8. ASSUME NEW o \in work[w].page, DeleteObject(w, o)
      PROVE  PurgeTypes'
  <2>1. PICK pc \in {"step", "delete", "check"} : work' = [work EXCEPT ![w].page = @ \ {o}, ![w].pc = pc]
    BY <1>8 DEF DeleteObject
  <2> DEFINE x == [work[w] EXCEPT !.page = @ \ {o}, !.pc = pc]
  <2>2. x \in WorkRows
    BY <1>1 DEF WorkRows
  <2>3. work' = [work EXCEPT ![w] = x]
    BY <1>1, <2>1
  <2> HIDE DEF x
  <2>4. work' \in [Workers -> WorkRows]
    BY <2>2, <2>3, WorkMoves
  <2>5. objects' \subseteq Stored \cup Uploading
    BY <1>1, <1>8 DEF DeleteObject
  <2> QED
    BY <1>1, <1>8, <2>4, <2>5 DEF DeleteObject, PurgeTypes
<1>9. ASSUME NEW i \in 1 .. Len(Domains), PurgeRows(w, i)
      PROVE  PurgeTypes'
  <2>1. \E pc \in {"mark", "step", "check"} : GoTo(w, pc)
    BY <1>9 DEF PurgeRows
  <2>2. work' \in [Workers -> WorkRows]
    BY <2>1, GoToIsTyped
  <2>3. rows' \in [1 .. Len(Domains) -> 0 .. Batches]
    <3> DEFINE left == IF rows[i] > 0 THEN rows[i] - 1 ELSE 0
    <3>1. rows' = [rows EXCEPT ![i] = left]
      BY <1>9 DEF PurgeRows
    <3>2. left \in 0 .. Batches
      BY <1>1
    <3> HIDE DEF left
    <3> QED
      BY <1>1, <3>1, <3>2
  <2> QED
    BY <1>1, <1>9, <2>2, <2>3 DEF PurgeRows, PurgeTypes
<1>10. ASSUME NEW s \in Steps, MarkStep(w, s)
       PROVE  PurgeTypes'
  <2>1. PICK pc \in {"step", "check"} : work' = [work EXCEPT ![w].pc = pc, ![w].done = @ \cup {s}]
    BY <1>10 DEF MarkStep
  <2> DEFINE x == [work[w] EXCEPT !.pc = pc, !.done = @ \cup {s}]
  <2>2. x \in WorkRows
    BY <1>1 DEF WorkRows
  <2>3. work' = [work EXCEPT ![w] = x]
    BY <1>1, <2>1
  <2> HIDE DEF x
  <2>4. work' \in [Workers -> WorkRows]
    BY <2>2, <2>3, WorkMoves
  <2>5. Append1(s) \in [status : {"none", "pending", "done"}, steps : Seq(Steps)]
    BY StepIsRecorded
  <2>6. deletion' \in [status : {"none", "pending", "done"}, steps : Seq(Steps)]
    BY <1>1, <1>10, <2>5 DEF MarkStep
  <2> QED
    BY <1>1, <1>10, <2>4, <2>6 DEF MarkStep, PurgeTypes
<1>11. ASSUME DeleteUser(w)
       PROVE  PurgeTypes'
  <2>1. work' \in [Workers -> WorkRows]
    BY <1>11, GoToIsTyped, ReturnIsTyped DEF DeleteUser
  <2>2. account' \in [user : {"active", "deleting", "gone"}, key : BOOLEAN, tombstone : BOOLEAN]
    BY <1>1, <1>11 DEF DeleteUser
  <2>3. deletion' \in [status : {"none", "pending", "done"}, steps : Seq(Steps)]
    <3>1. "users" \in Steps
      BY OrderFacts DEF Steps
    <3>2. [Append1("users") EXCEPT !.status = "done"] \in [status : {"none", "pending", "done"}, steps : Seq(Steps)]
      BY <3>1, StepIsRecorded
    <3> QED
      BY <1>1, <1>11, <3>2 DEF DeleteUser
  <2> QED
    BY <1>1, <1>11, <2>1, <2>2, <2>3 DEF DeleteUser, PurgeTypes
<1> QED
  BY <1>4, <1>5, <1>6, <1>7, <1>8, <1>9, <1>10, <1>11 DEF Purge

LEMMA PurgeTypesStep ==
  ASSUME DispatchTypeOK, PurgeTypes, [PurgeNext]_vars
  PROVE  PurgeTypes'
<1>1. ASSUME UNCHANGED <<account, deletion, objects, inflight, rows>>, work' \in [Workers -> WorkRows]
      PROVE  PurgeTypes'
  BY <1>1 DEF PurgeTypes
<1>2. CASE UNCHANGED purgeVars
  BY <1>2 DEF purgeVars, PurgeTypes
<1>3. CASE DeleteAccount
  BY <1>3 DEF DeleteAccount, PurgeTypes
<1>4. ASSUME NEW o \in inflight, Upload(o)
      PROVE  PurgeTypes'
  BY <1>4 DEF Upload, PurgeTypes
<1>5. ASSUME NEW p \in Procs, StartJob(p) \/ ResumePending(p) \/ CrashPurging(p)
      PROVE  PurgeTypes'
  <2>1. p \in Workers /\ api[p].job \in Nat /\ exec.gen \in Nat
    BY DEF Workers, DispatchTypeOK, Api
  <2> QED
    BY <1>1, <1>5, <2>1, BeginIsTyped, IdleIsTyped, WorkMoves DEF StartJob, ResumePending, CrashPurging
<1>6. CASE StartAttempt
  <2>1. Task \in Workers /\ 0 \in Nat
    BY DEF Workers
  <2> QED
    BY <1>1, <1>6, <2>1, BeginIsTyped DEF StartAttempt
<1>7. ASSUME NEW w \in Workers, PurgeFails(w)
      PROVE  PurgeTypes'
  BY <1>1, <1>7, ReturnIsTyped DEF PurgeFails
<1> QED
  BY <1>2, <1>3, <1>4, <1>5, <1>6, <1>7, RunnersAreTyped DEF PurgeNext, JobFindsBusy, vars

(***************************************************************************)
(* The account, its deletion and the runners keep their types.             *)
(***************************************************************************)
THEOREM PurgeTypeCorrect == PurgeSafety => []TypeOK
<1>1. PurgeSafety => []DispatchTypeOK
  BY PurgeFollowsTheProtocol, DispatchTypeCorrect, PTL
<1>2. PurgeInit => PurgeTypes
  <2> SUFFICES ASSUME PurgeInit
               PROVE  PurgeTypes
    OBVIOUS
  <2>1. deletion \in [status : {"none", "pending", "done"}, steps : Seq(Steps)]
    BY DEF PurgeInit
  <2> QED
    BY <2>1, IdleIsTyped, PurgeAssumption DEF PurgeInit, PurgeTypes
<1>3. DispatchTypeOK /\ PurgeTypes /\ [PurgeNext]_vars => PurgeTypes'
  BY PurgeTypesStep
<1>4. DispatchTypeOK /\ PurgeTypes => TypeOK
  BY DEF TypeOK, PurgeTypes, WorkRows
<1> QED
  BY <1>1, <1>2, <1>3, <1>4, PTL DEF PurgeSafety

-----------------------------------------------------------------------------
(* Sign-in codes: their types. *)

OtpBounded ==
  /\ otpNow <= MaxOtpTime /\ Len(codes) <= MaxCodes
  /\ limit.hourSent <= PerHour /\ limit.daySent <= PerDay
  /\ \A c \in OtpCallers : otpCall[c].code <= MaxCodes

\* A request that ends, begins or takes a code there is names no other.
LEMMA CodesNamed ==
  ASSUME OtpInv, OtpBounded, NEW c \in OtpCallers, NEW call, call.code <= MaxCodes,
         otpCall' = [otpCall EXCEPT ![c] = call]
  PROVE  \A d \in OtpCallers : otpCall'[d].code <= MaxCodes
<1>1. otpCall \in [OtpCallers -> OtpCallRows]
  BY DEF OtpInv, OtpRecords
<1>2. \A d \in OtpCallers : otpCall'[d] = IF d = c THEN call ELSE otpCall[d]
  BY <1>1
<1> QED
  BY <1>2 DEF OtpBounded

LEMMA NoCodeNamed == NoOtpCall.code <= MaxCodes
BY OtpBounds DEF NoOtpCall

LEMMA SendIsBounded ==
  ASSUME OtpInv, OtpBounded, NEW c \in OtpCallers, SendApplies(c)
  PROVE  OtpBounded'
<1> DEFINE l == WindowsReset(limit, otpCall[c].now)
<1>1. /\ {PerHour, PerDay, MaxCodes, MaxOtpTime} \subseteq Nat /\ PerHour >= 1 /\ PerDay >= 1
  BY OtpAssumption, OtpBounds DEF OtpAssumption
<1>2. limit \in LimitRows /\ codes \in Seq(CodeRows)
  BY DEF OtpInv, OtpRecords
<1>3. limit.hourSent \in 0 .. PerHour /\ limit.daySent \in 0 .. PerDay
  BY <1>1, <1>2 DEF LimitRows, OtpBounded
<1>4. /\ l.hourSent \in {0, limit.hourSent} /\ l.daySent \in {0, limit.daySent}
      /\ l = [l EXCEPT !.row = @] /\ DOMAIN l = DOMAIN limit
  BY ZenonT(60), <1>2 DEF WindowsReset, LimitRows
<1>5. DOMAIN limit = {"row", "hourStart", "hourSent", "dayStart", "daySent", "failStart",
                      "failures", "lockedUntil"}
  BY <1>2 DEF LimitRows
<1> HIDE DEF l
<1>6. CASE SendAllowed(l, otpCall[c].now)
  <2>1. l.hourSent < PerHour /\ l.daySent < PerDay
    BY <1>6 DEF SendAllowed
  <2>2. limit' = Counted(l, otpCall[c].now) /\ Len(codes') = Len(codes) + 1 /\ Len(codes) < MaxCodes
    <3>1. /\ codes' = Append(Superseded, [created |-> otpCall[c].now, attempts |-> 0, state |-> "live"])
          /\ limit' = Counted(l, otpCall[c].now) /\ Len(codes) < MaxCodes
      BY <1>6 DEF SendApplies, l
    <3>2. Superseded \in Seq(CodeRows) /\ Len(Superseded) = Len(codes)
      <4>1. Superseded \in [DOMAIN codes -> CodeRows]
        <5>1. \A k \in DOMAIN codes : codes[k] \in CodeRows
          BY <1>2
        <5> QED
          BY <5>1 DEF Superseded, CodeRows
      <4>2. Superseded \in Seq(CodeRows) /\ DOMAIN Superseded = DOMAIN codes
        BY <1>2, <4>1, RowsUpdated
      <4> QED
        BY <1>2, <4>2
    <3> QED
      BY <3>1, <3>2
  <2>3. limit'.hourSent \in {1, l.hourSent + 1} /\ limit'.daySent \in {1, l.daySent + 1}
    BY <1>4, <1>5, <2>2 DEF Counted, NoLimit
  <2>4. Len(codes) \in Nat
    BY <1>2
  <2>5. \A d \in OtpCallers : otpCall'[d].code <= MaxCodes
    <3>1. otpCall' = [otpCall EXCEPT ![c].at = "mail", ![c].code = Len(codes) + 1]
      BY <1>6 DEF SendApplies, l
    <3>2. otpCall \in [OtpCallers -> OtpCallRows] /\ otpCall[c] \in OtpCallRows
      BY DEF OtpInv, OtpRecords
    <3> DEFINE call == [otpCall[c] EXCEPT !.at = "mail", !.code = Len(codes) + 1]
    <3>3. otpCall' = [otpCall EXCEPT ![c] = call]
      BY <3>1, <3>2
    <3>4. call.code <= MaxCodes
      BY <1>1, <2>2, <2>4, <3>2 DEF OtpCallRows
    <3> HIDE DEF call
    <3> QED
      BY <3>3, <3>4, CodesNamed
  <2>6. Len(codes') <= MaxCodes
    BY <1>1, <2>2, <2>4
  <2> QED
    BY <1>1, <1>3, <1>4, <2>1, <2>3, <2>5, <2>6 DEF OtpBounded, SendApplies
<1>7. CASE ~SendAllowed(l, otpCall[c].now)
  <2>1. limit' = l /\ UNCHANGED <<codes, otpNow>> /\ otpCall' = [otpCall EXCEPT ![c] = NoOtpCall]
    BY <1>7 DEF SendApplies, l
  <2>2. \A d \in OtpCallers : otpCall'[d].code <= MaxCodes
    BY <2>1, CodesNamed, NoCodeNamed
  <2> QED
    BY <1>1, <1>3, <1>4, <2>1, <2>2 DEF OtpBounded
<1> QED
  BY <1>6, <1>7

LEMMA OtpStaysBounded ==
  ASSUME OtpInv, OtpBounded, [OtpNext]_otpVars
  PROVE  OtpBounded'
<1>1. otpNow \in Nat /\ MaxOtpTime \in Nat /\ codes \in Seq(CodeRows) /\ limit \in LimitRows
  BY OtpBounds DEF OtpInv, OtpRecords
<1>2. ASSUME NEW c \in OtpCallers, GuessApplies(c)
      PROVE  OtpBounded'
  <2>1. Len(codes') = Len(codes) /\ UNCHANGED otpNow /\ otpCall' = [otpCall EXCEPT ![c] = NoOtpCall]
    BY <1>1, <1>2 DEF GuessApplies
  <2>2. limit'.hourSent = limit.hourSent /\ limit'.daySent = limit.daySent
    BY <1>1, <1>2 DEF GuessApplies, Cleared, Failed, LimitRows
  <2> QED
    BY <1>2, <2>1, <2>2, CodesNamed, NoCodeNamed DEF OtpBounded
<1>3. ASSUME NEW c \in OtpCallers, MailFails(c)
      PROVE  OtpBounded'
  <2>1. Len(codes') = Len(codes) /\ UNCHANGED <<otpNow, limit>> /\ otpCall' = [otpCall EXCEPT ![c] = NoOtpCall]
    BY <1>1, <1>3 DEF MailFails
  <2> QED
    BY <1>3, <2>1, CodesNamed, NoCodeNamed DEF OtpBounded
<1>4. ASSUME NEW c \in OtpCallers, RequestCode(c) \/ OtpCallEnds(c)
      PROVE  OtpBounded'
  <2>1. UNCHANGED <<otpNow, codes, limit>>
    BY <1>4 DEF RequestCode, OtpCallEnds
  <2>2. PICK call : call.code = 0 /\ otpCall' = [otpCall EXCEPT ![c] = call]
    BY <1>4 DEF RequestCode, OtpCallEnds, NoOtpCall
  <2> QED
    BY <2>1, <2>2, CodesNamed, OtpBounds DEF OtpBounded
<1>5. ASSUME NEW c \in OtpCallers, NEW k \in DOMAIN codes, NEW right \in BOOLEAN, Guess(c, k, right)
      PROVE  OtpBounded'
  <2>1. UNCHANGED <<otpNow, codes, limit>>
    BY <1>5 DEF Guess
  <2>2. PICK call : call.code = k /\ otpCall' = [otpCall EXCEPT ![c] = call]
    BY <1>5 DEF Guess
  <2>3. k <= MaxCodes
    BY <1>1, OtpBounds DEF OtpBounded
  <2> QED
    BY <2>1, <2>2, <2>3, CodesNamed DEF OtpBounded
<1>6. CASE OtpTick
  <2>1. otpNow' <= MaxOtpTime /\ UNCHANGED <<codes, limit, otpCall>>
    BY <1>1, <1>6 DEF OtpTick
  <2> QED
    BY <2>1 DEF OtpBounded
<1>7. CASE UNCHANGED otpVars
  BY <1>7 DEF otpVars, OtpBounded
<1>8. CASE OtpNext
  BY <1>2, <1>3, <1>4, <1>5, <1>6, <1>8, SendIsBounded DEF OtpNext
<1> QED
  BY <1>7, <1>8

LEMMA OtpTyped == OtpInv /\ OtpBounded => OtpTypeOK
<1> SUFFICES ASSUME OtpInv, OtpBounded
             PROVE  OtpTypeOK
  OBVIOUS
<1>1. /\ otpNow \in Nat /\ codes \in Seq(CodeRows) /\ limit \in LimitRows
      /\ otpCall \in [OtpCallers -> OtpCallRows]
      /\ {MaxCodes, MaxOtpTime, PerHour, PerDay, MaxGuesses} \subseteq Nat
  BY OtpAssumption, OtpBounds DEF OtpInv, OtpRecords, OtpAssumption
<1>2. otpNow \in 0 .. MaxOtpTime /\ Len(codes) \in 0 .. MaxCodes
  BY <1>1 DEF OtpBounded
<1>3. limit \in [row : BOOLEAN, hourStart : Nat, hourSent : 0 .. PerHour, dayStart : Nat,
                 daySent : 0 .. PerDay, failStart : Nat \cup {NotOpen}, failures : Nat,
                 lockedUntil : Nat]
  <2>1. limit.hourSent \in 0 .. PerHour /\ limit.daySent \in 0 .. PerDay
    BY <1>1 DEF OtpBounded, LimitRows
  <2> QED
    BY <1>1, <2>1 DEF LimitRows
<1>4. ASSUME NEW k \in DOMAIN codes
      PROVE  codes[k] \in [created : Nat, attempts : 0 .. MaxGuesses,
                           state : {"live", "superseded", "used", "deleted"}]
  <2>1. codes[k] \in CodeRows /\ codes[k].attempts <= MaxGuesses
    BY <1>1 DEF OtpInv, CodesInv
  <2> QED
    BY <1>1, <2>1 DEF CodeRows
<1>5. ASSUME NEW c \in OtpCallers
      PROVE  otpCall[c] \in [at : {"idle", "send", "mail", "guess"}, now : Nat,
                             code : 0 .. MaxCodes, right : BOOLEAN]
  <2>1. otpCall[c] \in OtpCallRows /\ otpCall[c].code <= MaxCodes
    BY <1>1 DEF OtpBounded
  <2> QED
    BY <1>1, <2>1 DEF OtpCallRows
<1> QED
  BY <1>2, <1>3, <1>4, <1>5 DEF OtpTypeOK

LEMMA OtpBoundedFirst == OtpInit => OtpBounded
BY OtpBounds, OtpAssumption DEF OtpInit, OtpBounded, NoLimit, NoOtpCall, OtpAssumption

(***************************************************************************)
(* The codes, the limits of the address and the requests keep their types  *)
(* and bounds.                                                             *)
(***************************************************************************)
THEOREM OtpTypeCorrect == OtpSpec => []OtpTypeOK
<1>1. OtpInv /\ OtpBounded /\ [OtpNext]_otpVars => OtpBounded'
  BY OtpStaysBounded
<1> QED
  BY <1>1, OtpBoundedFirst, OtpTyped, OtpInvAlways, PTL DEF OtpSpec

-----------------------------------------------------------------------------
(* OAuth and the vault: their types. *)

LEMMA OAuthTyped == OAuthInv /\ oauthNow <= MaxOAuthTime => OAuthTypeOK
<1> SUFFICES ASSUME OAuthInv, oauthNow <= MaxOAuthTime
             PROVE  OAuthTypeOK
  OBVIOUS
<1>1. /\ oauthNow \in Nat /\ consent \in ConsentRows /\ mcpGrants \in Seq(McpGrantRows)
      /\ credentials \in Seq(CredentialRows) /\ exchanged \in Seq(ExchangeRows)
      /\ Len(exchanged) = Len(credentials) /\ oauthCall \in [OAuthCallers -> OAuthCallRows]
      /\ credentials # <<>> => Len(mcpGrants) = 1
  BY DEF OAuthInv, OAuthRecords, GrantInv
<1>2. oauthNow \in 0 .. MaxOAuthTime
  BY <1>1, OAuthAssumption DEF OAuthAssumption
<1>3. consent \in [decided : BOOLEAN, expires : Nat, offline : BOOLEAN, allowed : BOOLEAN,
                   restrictions : {0, 1}]
  BY <1>1 DEF ConsentRows
<1>4. \A g \in DOMAIN mcpGrants : mcpGrants[g] \in [revoked : BOOLEAN, expires : Nat]
  <2>1. \A g \in DOMAIN mcpGrants : mcpGrants[g] \in McpGrantRows
    BY <1>1
  <2> QED
    BY <2>1 DEF McpGrantRows
<1>5. ASSUME NEW k \in DOMAIN credentials
      PROVE  credentials[k] \in [grant : DOMAIN mcpGrants, kind : {"code", "refresh"},
                                 consumed : BOOLEAN, expires : Nat, gone : BOOLEAN]
  <2>1. credentials[k] \in CredentialRows /\ credentials # <<>>
    BY <1>1
  <2>2. DOMAIN mcpGrants = {1}
    BY <1>1, <2>1
  <2> QED
    BY <2>1, <2>2 DEF CredentialRows
<1>6. DOMAIN exchanged = DOMAIN credentials
  BY <1>1
<1>7. \A c \in OAuthCallers :
        oauthCall[c] \in [at : {"idle", "decide", "exchange"}, now : Nat, credential : Nat]
  BY <1>1 DEF OAuthCallRows
<1> QED
  BY <1>2, <1>3, <1>4, <1>5, <1>6, <1>7 DEF OAuthTypeOK

(***************************************************************************)
(* The consent, its grant and the chain of credentials keep their types:   *)
(* every credential belongs to a grant there is.                           *)
(***************************************************************************)
THEOREM OAuthTypeCorrect == OAuthSpec => []OAuthTypeOK
<1>1. OAuthInit => oauthNow <= MaxOAuthTime
  BY SMTT(30), OAuthAssumption DEF OAuthInit, OAuthAssumption
<1>2. OAuthInv /\ oauthNow <= MaxOAuthTime /\ [OAuthNext]_oauthVars => (oauthNow <= MaxOAuthTime)'
  <2> SUFFICES ASSUME OAuthInv, oauthNow <= MaxOAuthTime, [OAuthNext]_oauthVars
               PROVE  oauthNow' <= MaxOAuthTime
    OBVIOUS
  <2>1. CASE UNCHANGED oauthNow
    BY <2>1
  <2>2. CASE OAuthTick
    BY <2>2, OAuthAssumption DEF OAuthTick, OAuthInv, OAuthRecords, OAuthAssumption
  <2> QED
    BY <2>1, <2>2 DEF OAuthNext, oauthVars, StartDecision, DecisionApplies, Present, ExchangeApplies,
                      OAuthCallEnds, RevokeGrant, RestrictOwner, ReadmitOwner, CleanUp
<1> QED
  BY <1>1, <1>2, OAuthTyped, OAuthInvAlways, PTL DEF OAuthSpec

-----------------------------------------------------------------------------
Spent == {a \in DOMAIN resets : resets[a].consumed}

\* Every version after the first was made with an authorization of its own.
VaultBounded ==
  /\ Len(resets) <= MaxOpened
  /\ vaultVersion = 1 + Cardinality(Spent)
  /\ \A c \in VaultCallers : vaultCall[c].at = "reset" => vaultCall[c].on \in DOMAIN resets

LEMMA ResetsAreFinite ==
  ASSUME VaultRecords
  PROVE  /\ IsFiniteSet(DOMAIN resets) /\ IsFiniteSet(Spent)
         /\ Cardinality(Spent) \in Nat /\ Cardinality(Spent) <= Len(resets)
<1>1. resets \in Seq(ResetRows) /\ Len(resets) \in Nat /\ DOMAIN resets = 1 .. Len(resets)
  BY DEF VaultRecords
<1>2. IsFiniteSet(DOMAIN resets) /\ Cardinality(DOMAIN resets) = Len(resets)
  BY SMTT(30), <1>1, FS_Interval
<1>3. Spent \in SUBSET DOMAIN resets
  BY DEF Spent
<1> QED
  BY <1>2, <1>3, FS_Subset, FS_CardinalityType

\* A request moves, and opens nothing that is not there.
LEMMA VaultCallMoves ==
  ASSUME VaultInv, VaultBounded, NEW c \in VaultCallers, NEW call,
         vaultCall' = [vaultCall EXCEPT ![c] = call],
         call.at = "reset" => call.on \in DOMAIN resets',
         DOMAIN resets \subseteq DOMAIN resets'
  PROVE  \A d \in VaultCallers : vaultCall'[d].at = "reset" => vaultCall'[d].on \in DOMAIN resets'
<1>1. vaultCall \in [VaultCallers -> VaultCallRows]
  BY DEF VaultInv, VaultRecords
<1>2. \A d \in VaultCallers : vaultCall'[d] = IF d = c THEN call ELSE vaultCall[d]
  BY <1>1
<1> QED
  BY <1>2 DEF VaultBounded

LEMMA ResetTakesAnAuthorization ==
  ASSUME VaultInv, VaultBounded, NEW c \in VaultCallers, CommitReset(c)
  PROVE  VaultBounded'
<1> DEFINE a == vaultCall[c].on
<1>1. /\ resets \in Seq(ResetRows) /\ vaultVersion \in Nat
      /\ a \in DOMAIN resets /\ vaultCall' = [vaultCall EXCEPT ![c] = NoVaultCall]
      /\ VaultRecords
  BY DEF VaultInv, VaultRecords, VaultBounded, CommitReset, VaultCallDone
<1> HIDE DEF a
<1>2. CASE UNCHANGED <<vaultVersion, resets>>
  <2>1. \A d \in VaultCallers : vaultCall'[d].at = "reset" => vaultCall'[d].on \in DOMAIN resets'
    BY <1>1, <1>2, VaultCallMoves DEF NoVaultCall
  <2>2. Spent' = Spent
    BY <1>2 DEF Spent
  <2> QED
    BY <1>2, <2>1, <2>2 DEF VaultBounded
<1>3. CASE /\ vaultVersion' = vaultVersion + 1 /\ ~resets[a].consumed
           /\ resets' = [resets EXCEPT ![a].consumed = TRUE]
  <2>1. Len(resets') = Len(resets) /\ DOMAIN resets' = DOMAIN resets
    BY <1>1, <1>3
  <2>3. Spent' = Spent \cup {a} /\ a \notin Spent
    <3>1. resets[a] \in ResetRows /\ \A b \in DOMAIN resets : resets[b] \in ResetRows
      BY <1>1
    <3>2. \A b \in DOMAIN resets : resets'[b].consumed <=> (b = a \/ resets[b].consumed)
      BY <1>1, <1>3, <3>1 DEF ResetRows
    <3> QED
      BY <1>1, <1>3, <2>1, <3>2 DEF Spent
  <2>4. Cardinality(Spent') = Cardinality(Spent) + 1 /\ Cardinality(Spent) \in Nat
    BY <1>1, <2>3, ResetsAreFinite, FS_AddElement
  <2>5. \A d \in VaultCallers : vaultCall'[d].at = "reset" => vaultCall'[d].on \in DOMAIN resets'
    BY <1>1, <2>1, VaultCallMoves DEF NoVaultCall
  <2> QED
    BY <1>1, <1>3, <2>1, <2>4, <2>5 DEF VaultBounded
<1> QED
  BY <1>2, <1>3 DEF CommitReset, ResetAuthorized, a

LEMMA VaultStaysBounded ==
  ASSUME VaultInv, VaultBounded, [VaultNext]_vaultVars
  PROVE  VaultBounded'
<1>1. /\ resets \in Seq(ResetRows) /\ MaxOpened \in Nat
      /\ VaultRecords /\ vaultCall \in [VaultCallers -> VaultCallRows]
      /\ \A c \in VaultCallers : vaultCall[c] \in VaultCallRows
  BY VaultAssumption DEF VaultInv, VaultRecords, VaultAssumption
<1>2. ASSUME UNCHANGED <<vaultVersion, resets>>,
             \A d \in VaultCallers : \/ vaultCall'[d] = vaultCall[d] \/ vaultCall'[d].at # "reset"
                                     \/ vaultCall'[d].on \in DOMAIN resets
      PROVE  VaultBounded'
  <2>1. \A d \in VaultCallers : vaultCall'[d].at = "reset" => vaultCall'[d].on \in DOMAIN resets'
    BY <1>2 DEF VaultBounded
  <2>2. Spent' = Spent
    BY <1>2 DEF Spent
  <2> QED
    BY <1>2, <2>1, <2>2 DEF VaultBounded
<1>3. ASSUME NEW c \in VaultCallers,
             (\E right \in BOOLEAN : StartUnlock(c, right)) \/ WrongPassphrase(c) \/ VaultCallEnds(c)
               \/ CommitGrant(c)
      PROVE  VaultBounded'
  <2>1. UNCHANGED <<vaultVersion, resets>>
    BY <1>3 DEF StartUnlock, WrongPassphrase, VaultCallEnds, CommitGrant
  <2>2. /\ \A d \in VaultCallers \ {c} : vaultCall'[d] = vaultCall[d]
        /\ vaultCall'[c].at # "reset"
    <3>1. CASE VaultCallDone(c)
      BY <1>1, <3>1 DEF VaultCallDone, NoVaultCall
    <3>2. ASSUME NEW right \in BOOLEAN, StartUnlock(c, right)
          PROVE  <2>2!1 /\ <2>2!2
      BY <1>1, <3>2 DEF StartUnlock, NoVaultCall
    <3> QED
      BY <1>3, <3>1, <3>2 DEF WrongPassphrase, VaultCallEnds, CommitGrant
  <2> QED
    BY <1>2, <2>1, <2>2 DEF VaultBounded
<1>4. ASSUME NEW c \in VaultCallers, ReserveUnlock(c)
      PROVE  VaultBounded'
  <2>1. UNCHANGED <<vaultVersion, resets>>
    BY <1>4 DEF ReserveUnlock
  <2>2. /\ \A d \in VaultCallers \ {c} : vaultCall'[d] = vaultCall[d]
        /\ vaultCall'[c].at # "reset"
    <3>1. CASE VaultCallDone(c)
      BY <1>1, <3>1 DEF VaultCallDone, NoVaultCall
    <3>2. CASE ~VaultCallDone(c)
      <4> DEFINE l == LimitAt(vaultCall[c].now)
                 call == [vaultCall[c] EXCEPT !.at = "derive", !.window = l.window, !.day = l.day]
      <4>1. vaultCall' = [vaultCall EXCEPT ![c].at = "derive", ![c].window = l.window, ![c].day = l.day]
        BY <1>4, <3>2 DEF ReserveUnlock
      <4>2. vaultCall' = [vaultCall EXCEPT ![c] = call] /\ call.at = "derive"
        BY <1>1, <4>1 DEF VaultCallRows
      <4> HIDE DEF call
      <4> QED
        BY <1>1, <4>2
    <3> QED
      BY <3>1, <3>2
  <2> QED
    BY <1>2, <2>1, <2>2 DEF VaultBounded
<1>5. ASSUME NEW c \in VaultCallers, CommitUnlock(c)
      PROVE  VaultBounded'
  <2>1. UNCHANGED <<vaultVersion, resets>> /\ vaultCall' = [vaultCall EXCEPT ![c] = NoVaultCall]
    BY <1>5 DEF CommitUnlock, VaultCallDone
  <2> QED
    BY <1>1, <1>2, <2>1 DEF NoVaultCall
<1>6. ASSUME NEW c \in VaultCallers, NEW s \in DOMAIN vaultSessions, StartGrant(c, s)
      PROVE  VaultBounded'
  <2>1. UNCHANGED <<vaultVersion, resets>>
    BY <1>6 DEF StartGrant
  <2>2. /\ \A d \in VaultCallers \ {c} : vaultCall'[d] = vaultCall[d]
        /\ vaultCall'[c].at # "reset"
    BY <1>1, <1>6 DEF StartGrant, NoVaultCall
  <2> QED
    BY <1>2, <2>1, <2>2
<1>7. ASSUME NEW c \in VaultCallers, NEW a \in DOMAIN resets, StartReset(c, a)
      PROVE  VaultBounded'
  <2>1. UNCHANGED <<vaultVersion, resets>>
    BY <1>7 DEF StartReset
  <2>2. /\ \A d \in VaultCallers \ {c} : vaultCall'[d] = vaultCall[d]
        /\ vaultCall'[c].on = a
    BY <1>1, <1>7 DEF StartReset, NoVaultCall
  <2> QED
    BY <1>2, <2>1, <2>2 DEF VaultBounded
<1>8. ASSUME NEW s \in DOMAIN vaultSessions, LockVault(s)
      PROVE  VaultBounded'
  <2>1. UNCHANGED <<vaultVersion, resets, vaultCall>>
    BY <1>8 DEF LockVault
  <2> QED
    BY <1>2, <2>1
<1>9. CASE AuthorizeReset
  <2> DEFINE row == [version |-> vaultVersion, expires |-> vaultNow + AuthorizationLife, consumed |-> FALSE]
  <2>1. /\ UNCHANGED <<vaultVersion, vaultCall>> /\ Len(resets) < MaxOpened
        /\ resets' = Append(resets, row) /\ ~row.consumed
    BY <1>9 DEF AuthorizeReset
  <2> HIDE DEF row
  <2>2. /\ Len(resets') <= MaxOpened /\ DOMAIN resets' = DOMAIN resets \cup {Len(resets) + 1}
        /\ resets'[Len(resets) + 1] = row /\ \A b \in DOMAIN resets : resets'[b] = resets[b]
    BY <1>1, <2>1
  <2>3. Spent' = Spent
    BY <2>1, <2>2 DEF Spent
  <2> QED
    BY <2>1, <2>2, <2>3 DEF VaultBounded
<1>10. CASE (\E g \in DOMAIN valueGrants : GrantEnds(g)) \/ VaultTick \/ UNCHANGED vaultVars
  <2>1. UNCHANGED <<vaultVersion, resets, vaultCall>>
    BY SMTT(30), <1>10 DEF GrantEnds, VaultTick, vaultVars
  <2> QED
    BY <1>2, <2>1 DEF VaultBounded
<1> QED
  BY <1>3, <1>4, <1>5, <1>6, <1>7, <1>8, <1>9, <1>10, ResetTakesAnAuthorization DEF VaultNext

SessionsBounded ==
  Len(vaultSessions) <= MaxOpened /\ \A s \in DOMAIN vaultSessions : vaultSessions[s].lastUsed \in Times

LEMMA SessionsStayBounded ==
  ASSUME VaultInv, SessionsBounded, [VaultNext]_vaultVars
  PROVE  SessionsBounded'
<1>1. /\ vaultSessions \in Seq(SessionRows) /\ MaxOpened \in Nat /\ vaultNow \in Times
      /\ \A c \in VaultCallers : vaultCall[c].now \in Times
      /\ \A s \in DOMAIN vaultSessions : vaultSessions[s] \in SessionRows
  BY VaultAssumption DEF VaultInv, VaultRecords, VaultCallRows, VaultAssumption
<1>2. ASSUME NEW c \in VaultCallers, CommitUnlock(c)
      PROVE  SessionsBounded'
  <2>1. CASE UNCHANGED vaultSessions
    BY <2>1 DEF SessionsBounded
  <2>2. CASE ~UNCHANGED vaultSessions
    <3> DEFINE new == [version |-> vaultCall[c].version, lastUsed |-> vaultCall[c].now,
                       expires |-> vaultCall[c].now + SessionLife, revoked |-> FALSE]
    <3>1. Len(vaultSessions) < MaxOpened /\ vaultSessions' = Append(vaultSessions, new)
      BY <1>2, <2>2 DEF CommitUnlock
    <3>2. new.lastUsed \in Times
      BY <1>1
    <3> HIDE DEF new
    <3>3. /\ Len(vaultSessions') <= MaxOpened
          /\ \A s \in DOMAIN vaultSessions' : vaultSessions'[s] = new \/
               (s \in DOMAIN vaultSessions /\ vaultSessions'[s] = vaultSessions[s])
      BY <1>1, <3>1
    <3> QED
      BY <3>2, <3>3 DEF SessionsBounded
  <2> QED
    BY <2>1, <2>2
<1>3. ASSUME Len(vaultSessions') = Len(vaultSessions), DOMAIN vaultSessions' = DOMAIN vaultSessions,
             \A s \in DOMAIN vaultSessions : vaultSessions'[s].lastUsed \in {vaultNow, vaultSessions[s].lastUsed}
      PROVE  SessionsBounded'
  BY <1>1, <1>3 DEF SessionsBounded
<1>4. ASSUME NEW c \in VaultCallers, NEW s \in DOMAIN vaultSessions, StartGrant(c, s)
      PROVE  SessionsBounded'
  <2>1. vaultSessions' = [vaultSessions EXCEPT ![s].lastUsed = vaultNow]
    BY <1>4 DEF StartGrant
  <2>2. Len(vaultSessions') = Len(vaultSessions) /\ DOMAIN vaultSessions' = DOMAIN vaultSessions
    BY <1>1, <2>1
  <2>3. \A t \in DOMAIN vaultSessions : vaultSessions'[t].lastUsed \in {vaultNow, vaultSessions[t].lastUsed}
    BY <1>1, <2>1 DEF SessionRows
  <2> QED
    BY <1>3, <2>2, <2>3
<1>5. ASSUME NEW s \in DOMAIN vaultSessions, LockVault(s)
      PROVE  SessionsBounded'
  <2>1. vaultSessions' = [vaultSessions EXCEPT ![s].revoked = TRUE]
    BY <1>5 DEF LockVault
  <2>2. Len(vaultSessions') = Len(vaultSessions) /\ DOMAIN vaultSessions' = DOMAIN vaultSessions
    BY <1>1, <2>1
  <2>3. \A t \in DOMAIN vaultSessions : vaultSessions'[t].lastUsed \in {vaultNow, vaultSessions[t].lastUsed}
    BY <1>1, <2>1 DEF SessionRows
  <2> QED
    BY <1>3, <2>2, <2>3
<1>6. ASSUME NEW c \in VaultCallers, CommitReset(c)
      PROVE  SessionsBounded'
  <2>1. CASE UNCHANGED vaultSessions
    BY <2>1 DEF SessionsBounded
  <2>2. CASE vaultSessions' = [s \in DOMAIN vaultSessions |-> [vaultSessions[s] EXCEPT !.revoked = TRUE]]
    <3>1. Len(vaultSessions') = Len(vaultSessions) /\ DOMAIN vaultSessions' = DOMAIN vaultSessions
      BY <1>1, <2>2
    <3>2. \A t \in DOMAIN vaultSessions : vaultSessions'[t].lastUsed \in {vaultNow, vaultSessions[t].lastUsed}
      BY <1>1, <2>2 DEF SessionRows
    <3> QED
      BY <1>3, <3>1, <3>2
  <2> QED
    BY <1>6, <2>1, <2>2 DEF CommitReset
<1>7. CASE UNCHANGED vaultSessions
  BY <1>7 DEF SessionsBounded
<1> QED
  BY <1>2, <1>4, <1>5, <1>6, <1>7 DEF VaultNext, vaultVars, StartUnlock, ReserveUnlock, WrongPassphrase,
     CommitGrant, StartReset, VaultCallEnds, GrantEnds, AuthorizeReset, VaultTick

LEMMA VaultTyped == VaultInv /\ VaultBounded /\ SessionsBounded => VaultTypeOK
<1> SUFFICES ASSUME VaultInv, VaultBounded, SessionsBounded
             PROVE  VaultTypeOK
  OBVIOUS
<1>1. VaultRecords /\ LimitsInv /\ MaxOpened \in Nat
  BY VaultAssumption DEF VaultInv, VaultAssumption
<1>2. vaultNow \in Times /\ vaultVersion \in 1 .. MaxOpened + 1
  BY <1>1, ResetsAreFinite DEF VaultRecords, VaultBounded
<1>3. unlockLimit \in [row : BOOLEAN, window : Times, failures : 0 .. MaxFailures, day : Times,
                       dayFailures : 0 .. MaxDayFailures, lockedUntil : Nat]
  <2>1. unlockLimit.failures \in 0 .. MaxFailures /\ unlockLimit.dayFailures \in 0 .. MaxDayFailures
    BY <1>1 DEF LimitsInv, LimitsOK, PeriodOK
  <2> QED
    BY <1>1, <2>1 DEF VaultRecords, UnlockLimitRows
<1>4. \A s \in DOMAIN vaultSessions :
        vaultSessions[s] \in [version : Nat, lastUsed : Times, expires : Nat, revoked : BOOLEAN]
  <2>1. \A s \in DOMAIN vaultSessions : vaultSessions[s] \in SessionRows
    BY <1>1 DEF VaultRecords
  <2> QED
    BY <2>1 DEF SessionRows, SessionsBounded
<1>5. /\ \A g \in DOMAIN valueGrants : valueGrants[g] \in ValueGrantRows
      /\ \A a \in DOMAIN resets : resets[a] \in ResetRows
      /\ \A c \in VaultCallers : vaultCall[c] \in VaultCallRows
  BY <1>1 DEF VaultRecords
<1> QED
  BY <1>2, <1>3, <1>4, <1>5 DEF VaultTypeOK, ValueGrantRows, ResetRows, VaultCallRows

LEMMA VaultBoundedFirst == VaultInit => VaultBounded /\ SessionsBounded
<1> SUFFICES ASSUME VaultInit
             PROVE  VaultBounded /\ SessionsBounded
  OBVIOUS
<1>1. resets = <<>> /\ vaultSessions = <<>> /\ vaultVersion = 1 /\ MaxOpened \in Nat
  BY VaultAssumption DEF VaultInit, VaultAssumption
<1>2. \A c \in VaultCallers : vaultCall[c].at = "idle"
  BY DEF VaultInit, NoVaultCall
<1>3. DOMAIN resets = {} /\ DOMAIN vaultSessions = {} /\ Len(resets) = 0 /\ Len(vaultSessions) = 0
  BY <1>1
<1>4. Spent = {}
  BY <1>3 DEF Spent
<1> QED
  BY <1>1, <1>2, <1>3, <1>4, FS_EmptySet DEF VaultBounded, SessionsBounded

(***************************************************************************)
(* The vault keeps its types and bounds: its versions are as many as the   *)
(* authorizations that were used, and no failure count exceeds its limit.  *)
(***************************************************************************)
THEOREM VaultTypeCorrect == VaultSpec => []VaultTypeOK
<1>1. VaultInv /\ VaultBounded /\ SessionsBounded /\ [VaultNext]_vaultVars => VaultBounded' /\ SessionsBounded'
  BY SMTT(30), VaultStaysBounded, SessionsStayBounded
<1> QED
  BY <1>1, VaultBoundedFirst, VaultTyped, VaultInvAlways, PTL DEF VaultSpec

-----------------------------------------------------------------------------
(* Sharing: its types. *)

\* Heads that a page may show, and what was shared and served belongs to grants there are.
ShareBounded ==
  /\ source.head \in 1 .. MaxHeads /\ proposal.head \in 0 .. MaxHeads
  /\ \A g \in DOMAIN shares : shares[g].head \in 1 .. MaxHeads
  /\ shareSessions \subseteq [grant : DOMAIN shares, generation : Nat]
  /\ served \subseteq [grant : DOMAIN shares, active : BOOLEAN, proved : BOOLEAN]

LEMMA NoShareGoes ==
  ASSUME SharingInv, [ShareNext]_shareVars
  PROVE  /\ DOMAIN shares \subseteq DOMAIN shares'
         /\ \A g \in DOMAIN shares : shares'[g].head = shares[g].head
         /\ \A g \in DOMAIN shares' \ DOMAIN shares : shares'[g].head = source.head
<1>1. /\ shares \in Seq(ShareRows) /\ \A g \in DOMAIN shares : shares[g] \in ShareRows
      /\ \A o \in Releasers :
           /\ releaser[o].at = "release" => releaser[o].on \in {0} \cup DOMAIN shares
           /\ releaser[o].at = "revoke" => releaser[o].on \in DOMAIN shares
  BY DEF SharingInv, ShareRecords, ReleasedInv
<1>2. ASSUME NEW g \in DOMAIN shares
      PROVE  /\ DOMAIN Revoked(g) = DOMAIN shares /\ Revoked(g) \in Seq(ShareRows)
             /\ \A h \in DOMAIN shares : Revoked(g)[h].head = shares[h].head
  BY <1>1, RevokedSame DEF SameGrants
<1>3. ASSUME NEW o \in Releasers, NEW password \in BOOLEAN, CommitRelease(o, password)
      PROVE  /\ DOMAIN shares \subseteq DOMAIN shares'
             /\ \A g \in DOMAIN shares : shares'[g].head = shares[g].head
             /\ \A g \in DOMAIN shares' \ DOMAIN shares : shares'[g].head = source.head
  <2>1. CASE UNCHANGED shares
    BY <2>1
  <2>2. CASE ~UNCHANGED shares
    <3> DEFINE old == IF releaser[o].on = 0 THEN shares ELSE Revoked(releaser[o].on)
               new == [password |-> password, status |-> "active", generation |-> 1,
                       proposed |-> releaser[o].proposed, head |-> source.head]
    <3>1. shares' = Append(old, new) /\ releaser[o].at = "release"
      BY <1>3, <2>2 DEF CommitRelease
    <3>2. /\ DOMAIN old = DOMAIN shares /\ old \in Seq(ShareRows)
          /\ \A h \in DOMAIN shares : old[h].head = shares[h].head
      BY <1>1, <1>2, <3>1
    <3>3. new.head = source.head
      OBVIOUS
    <3> HIDE DEF old, new
    <3>4. /\ DOMAIN shares' = DOMAIN old \cup {Len(old) + 1} /\ shares'[Len(old) + 1] = new
          /\ \A g \in DOMAIN old : shares'[g] = old[g]
      BY <3>1, <3>2
    <3> QED
      BY <3>2, <3>3, <3>4
  <2> QED
    BY <2>1, <2>2
<1>4. ASSUME NEW o \in Releasers, CommitRevoke(o)
      PROVE  DOMAIN shares' = DOMAIN shares /\ \A g \in DOMAIN shares : shares'[g].head = shares[g].head
  BY <1>1, <1>2, <1>4 DEF CommitRevoke
<1>5. CASE RestrictSharing
  BY ZenonT(60), <1>1, <1>5 DEF RestrictSharing, ShareRows
<1>6. CASE UNCHANGED shares
  BY <1>6
<1> QED
  BY <1>3, <1>4, <1>5, <1>6 DEF ShareNext, shareVars, SourceChanges, AdmitAgain, Propose,
     ProposalExpires, StartRelease, StartRevoke, ReleaserStops, StartRead, StartPassword, Deliver,
     ReservePassword, CommitPassword, GuestStops, NextWindow

LEMMA HeadsStayBounded ==
  ASSUME SharingInv, ShareBounded, [ShareNext]_shareVars
  PROVE  source'.head \in 1 .. MaxHeads /\ proposal'.head \in 0 .. MaxHeads
<1>1. /\ source \in SourceRows /\ proposal \in ProposalRows /\ MaxHeads \in Nat
      /\ source.head \in 1 .. MaxHeads /\ proposal.head \in 0 .. MaxHeads
  BY ShareAssumption DEF SharingInv, ShareRecords, ShareBounded, ShareAssumption
<1>2. CASE SourceChanges
  <2>1. source'.head \in {source.head, source.head + 1} /\ source'.head <= MaxHeads
    BY <1>1, <1>2 DEF SourceChanges, SourceRows
  <2> QED
    BY <1>1, <1>2, <2>1 DEF SourceChanges
<1>3. CASE RestrictSharing \/ AdmitAgain
  BY ZenonT(60), <1>1, <1>3 DEF RestrictSharing, AdmitAgain, SourceRows, ProposalRows
<1>4. CASE Propose \/ ProposalExpires
  BY <1>1, <1>4 DEF Propose, ProposalExpires, ProposalRows
<1>5. ASSUME NEW o \in Releasers, NEW password \in BOOLEAN, CommitRelease(o, password)
      PROVE  source'.head \in 1 .. MaxHeads /\ proposal'.head \in 0 .. MaxHeads
  BY <1>1, <1>5 DEF CommitRelease, ProposalRows
<1>6. CASE UNCHANGED <<source, proposal>>
  BY <1>1, <1>6
<1> QED
  BY <1>2, <1>3, <1>4, <1>5, <1>6 DEF ShareNext, shareVars, StartRelease, StartRevoke, CommitRevoke,
     ReleaserStops, StartRead, StartPassword, Deliver, ReservePassword, CommitPassword, GuestStops,
     NextWindow

LEMMA SessionsBelong ==
  ASSUME SharingInv, ShareBounded, [ShareNext]_shareVars
  PROVE  /\ shareSessions' \subseteq [grant : DOMAIN shares', generation : Nat]
         /\ served' \subseteq [grant : DOMAIN shares', active : BOOLEAN, proved : BOOLEAN]
<1>1. /\ \A g \in DOMAIN shares : shares[g] \in ShareRows
      /\ \A q \in Guests : guest[q].at # "idle" => guest[q].grant \in DOMAIN shares
  BY DEF SharingInv, ShareRecords, TriesInv
<1>2. \A g \in DOMAIN shares : SessionFor(g) \in [grant : DOMAIN shares, generation : Nat]
  BY <1>1 DEF SessionFor, ShareRows
<1>3. shareSessions' \subseteq [grant : DOMAIN shares, generation : Nat]
  <2>1. ASSUME NEW q \in Guests, CommitPassword(q)
        PROVE  shareSessions' \subseteq [grant : DOMAIN shares, generation : Nat]
    BY <1>1, <1>2, <2>1 DEF CommitPassword, ShareBounded
  <2>2. CASE shareSessions' \subseteq shareSessions
    BY <2>2 DEF ShareBounded
  <2> QED
    BY <2>1, <2>2 DEF ShareNext, shareVars, SourceChanges, RestrictSharing, AdmitAgain, Propose,
       ProposalExpires, StartRelease, CommitRelease, StartRevoke, CommitRevoke, ReleaserStops,
       StartRead, StartPassword, Deliver, ReservePassword, GuestStops, NextWindow
<1>4. served' \subseteq [grant : DOMAIN shares, active : BOOLEAN, proved : BOOLEAN]
  <2>1. ASSUME NEW q \in Guests, Deliver(q)
        PROVE  served' \subseteq [grant : DOMAIN shares, active : BOOLEAN, proved : BOOLEAN]
    <3> DEFINE g == guest[q].grant
               row == [grant |-> g, active |-> ShareActive(g), proved |-> SessionFor(g) \in shareSessions]
    <3>1. served' \subseteq served \cup {row} /\ g \in DOMAIN shares
      BY <1>1, <2>1 DEF Deliver
    <3>2. ShareActive(g) \in BOOLEAN
      BY DEF ShareActive, SharingInv, ShareRecords, SourceRows
    <3>3. row \in [grant : DOMAIN shares, active : BOOLEAN, proved : BOOLEAN]
      BY <3>1, <3>2
    <3> HIDE DEF row, g
    <3> QED
      BY <3>1, <3>3 DEF ShareBounded
  <2>2. CASE UNCHANGED served
    BY <2>2 DEF ShareBounded
  <2> QED
    BY <2>1, <2>2 DEF ShareNext, shareVars, SourceChanges, RestrictSharing, AdmitAgain, Propose,
       ProposalExpires, StartRelease, CommitRelease, StartRevoke, CommitRevoke, ReleaserStops,
       StartRead, StartPassword, CommitPassword, ReservePassword, GuestStops, NextWindow
<1> QED
  BY <1>3, <1>4, NoShareGoes

LEMMA ShareTyped == SharingInv /\ ShareBounded => ShareTypeOK
<1> SUFFICES ASSUME SharingInv, ShareBounded
             PROVE  ShareTypeOK
  OBVIOUS
<1>1. /\ source \in SourceRows /\ proposal \in ProposalRows /\ shareNow \in Windows
      /\ \A g \in DOMAIN shares : shares[g] \in ShareRows
      /\ \A g \in 1 .. MaxShares : tries[g] \in TryRows
      /\ \A o \in Releasers : releaser[o] \in ReleaserRows
      /\ \A q \in Guests : guest[q] \in GuestRows
  BY DEF SharingInv, ShareRecords
<1>2. /\ source \in [head : 1 .. MaxHeads, active : BOOLEAN, admitted : BOOLEAN]
      /\ proposal \in [head : 0 .. MaxHeads, status : {"none", "pending", "released", "expired"}]
  BY <1>1 DEF SourceRows, ProposalRows, ShareBounded
<1>3. \A g \in DOMAIN shares :
        shares[g] \in [password : BOOLEAN, status : {"active", "revoked", "disabled"},
                       generation : Nat, proposed : BOOLEAN, head : 1 .. MaxHeads]
  BY <1>1 DEF ShareRows, ShareBounded
<1>4. \A g \in 1 .. MaxShares : tries[g] \in
               [counted : [own : [Windows -> Nat], all : [Windows -> Nat]],
                wrong : [own : [Windows -> Nat], all : [Windows -> Nat]]]
  BY <1>1 DEF TryRows, TryCounts
<1>5. /\ \A o \in Releasers : releaser[o].at \in {"idle", "release", "revoke"}
      /\ \A q \in Guests : guest[q].at \in {"idle", "fetch", "reserve", "verify"}
  BY <1>1 DEF ReleaserRows, GuestRows
<1> QED
  BY <1>1, <1>2, <1>3, <1>4, <1>5 DEF ShareTypeOK, ShareBounded

(***************************************************************************)
(* What is shared keeps its types: every grant is of a head there was, and *)
(* every session and everything served belongs to a grant there is.        *)
(***************************************************************************)
THEOREM ShareTypeCorrect == ShareSpec => []ShareTypeOK
<1>1. ShareInit => ShareBounded
  BY ShareAssumption DEF ShareInit, ShareBounded, ShareAssumption
<1>2. SharingInv /\ ShareBounded /\ [ShareNext]_shareVars => ShareBounded'
  <2> SUFFICES ASSUME SharingInv, ShareBounded, [ShareNext]_shareVars
               PROVE  ShareBounded'
    OBVIOUS
  <2>1. \A g \in DOMAIN shares' : shares'[g].head \in 1 .. MaxHeads
    BY NoShareGoes DEF ShareBounded
  <2> QED
    BY <2>1, HeadsStayBounded, SessionsBelong DEF ShareBounded
<1> QED
  BY <1>1, <1>2, ShareTyped, SharingInvAlways, PTL DEF ShareSpec

-----------------------------------------------------------------------------
(* The account and its parts. *)

(***************************************************************************)
(* What the parts of the account do side by side, each does by itself: in  *)
(* a step of one, the others stutter.                                      *)
(***************************************************************************)
THEOREM AccountRunsItsParts ==
  AccountSpec => PurgeSafety /\ OtpSpec /\ OAuthSpec /\ VaultSpec /\ ShareSpec
<1>1. AccountInit => PurgeInit /\ OtpInit /\ OAuthInit /\ VaultInit /\ ShareInit
  BY DEF AccountInit
<1>2. [AccountNext]_accountVars => /\ [PurgeNext]_vars /\ [OtpNext]_otpVars
                                   /\ [OAuthNext]_oauthVars /\ [VaultNext]_vaultVars
                                   /\ [ShareNext]_shareVars
  BY DEF AccountNext, accountVars
<1> QED
  BY <1>1, <1>2, PTL DEF AccountSpec, PurgeSafety, OtpSpec, OAuthSpec, VaultSpec, ShareSpec

(***************************************************************************)
(* The account, its deletion, its codes, grants, vault and shares keep     *)
(* their types, whoever acts and in whatever order.                        *)
(***************************************************************************)
THEOREM AccountTypeCorrect == AccountSpec => []AccountTypeOK
<1>1. TypeOK /\ OtpTypeOK /\ OAuthTypeOK /\ VaultTypeOK /\ ShareTypeOK => AccountTypeOK
  BY DEF AccountTypeOK
<1> QED
  BY <1>1, AccountRunsItsParts, PurgeTypeCorrect, OtpTypeCorrect, OAuthTypeCorrect,
     VaultTypeCorrect, ShareTypeCorrect, PTL
=============================================================================
