------------------------------ MODULE OtpSignIn ------------------------------
(***************************************************************************)
(* One-time codes for one address and one purpose: sending (windows,       *)
(* cooldown, supersession, a mail that fails) and verification (a read,    *)
(* then one batch that reserves the attempt and applies its result), with  *)
(* the limits of the address, which outlive every code.                    *)
(*                                                                         *)
(* Each batch is one transaction that works with the time its request      *)
(* began and may arrive any time later; callers may stop at any point.     *)
(* The account is verified and not being deleted.                          *)
(***************************************************************************)
EXTENDS Integers, Sequences, FiniteSets

CONSTANTS
  OtpCallers,
  CodeTtl, MaxGuesses,        \* OTP_TTL_MINUTES, OTP_MAX_ATTEMPTS
  PerHour, PerDay, Cooldown,  \* OTP_LIMITS
  FailuresPerDay, Lockout, Hour, Day,
  MaxCodes, MaxOtpTime        \* bounds of the checked instance: codes, the clock

ASSUME OtpAssumption ==
  /\ {CodeTtl, MaxGuesses, PerHour, PerDay, Cooldown, FailuresPerDay, Lockout} \subseteq Nat \ {0}
  /\ Hour \in Nat /\ Day \in Nat /\ Hour < Day /\ Lockout < Day

ASSUME OtpBounds == {MaxCodes, MaxOtpTime} \subseteq Nat

VARIABLES
  otpNow,     \* the clock
  codes,      \* otp_challenges, in the order of their inserts
  limit,      \* the otp_limits row of the address and purpose
  otpCall,    \* the requests under way
  guesses     \* history: the guesses that were evaluated, in the order of their batches

otpVars == <<otpNow, codes, limit, otpCall, guesses>>

NotOpen == -1

\* No row yet; a NULL failure window is NotOpen, a NULL lock is 0.
NoLimit ==
  [row |-> FALSE, hourStart |-> 0, hourSent |-> 0, dayStart |-> 0, daySent |-> 0,
   failStart |-> NotOpen, failures |-> 0, lockedUntil |-> 0]

NoOtpCall == [at |-> "idle", now |-> 0, code |-> 0, right |-> FALSE]

OtpInit ==
  /\ otpNow = 0 /\ codes = <<>> /\ limit = NoLimit /\ guesses = <<>>
  /\ otpCall = [c \in OtpCallers |-> NoOtpCall]

Ended(start, length, now) == start + length <= now

-----------------------------------------------------------------------------
(* Sending *)

(***************************************************************************)
(* windowResetStatement: each window that ended starts anew; the failures  *)
(* are only forgotten when no lock-out is in force.                        *)
(***************************************************************************)
WindowsReset(l, now) ==
  LET hour == l.row /\ Ended(l.hourStart, Hour, now)
      day == l.row /\ Ended(l.dayStart, Day, now)
      failed == l.failStart # NotOpen /\ Ended(l.failStart, Day, now) /\ l.lockedUntil <= now
  IN [l EXCEPT !.hourStart = IF hour THEN now ELSE @, !.hourSent = IF hour THEN 0 ELSE @,
               !.dayStart = IF day THEN now ELSE @, !.daySent = IF day THEN 0 ELSE @,
               !.failStart = IF failed THEN NotOpen ELSE @,
               !.failures = IF failed THEN 0 ELSE @,
               !.lockedUntil = IF failed THEN 0 ELSE @]

\* The condition `allowed`: any code that was not used holds the cooldown.
SendAllowed(l, now) ==
  /\ \A k \in DOMAIN codes :
       codes[k].state \in {"live", "superseded"} => codes[k].created <= now - Cooldown
  /\ l.hourSent < PerHour /\ l.daySent < PerDay

Counted(l, now) ==
  IF l.row THEN [l EXCEPT !.hourSent = @ + 1, !.daySent = @ + 1]
  ELSE [NoLimit EXCEPT !.row = TRUE, !.hourStart = now, !.hourSent = 1,
                       !.dayStart = now, !.daySent = 1]

Superseded == [k \in DOMAIN codes |->
                 [codes[k] EXCEPT !.state = IF @ = "live" THEN "superseded" ELSE @]]

RequestCode(c) ==
  /\ otpCall[c].at = "idle"
  /\ otpCall' = [otpCall EXCEPT ![c] = [NoOtpCall EXCEPT !.at = "send", !.now = otpNow]]
  /\ UNCHANGED <<otpNow, codes, limit, guesses>>

(***************************************************************************)
(* The sending batch; its caller then hands the code to the mailer.        *)
(***************************************************************************)
SendApplies(c) ==
  /\ otpCall[c].at = "send" /\ Len(codes) < MaxCodes
  /\ LET now == otpCall[c].now
         l == WindowsReset(limit, now)
     IN IF SendAllowed(l, now)
        THEN /\ codes' = Append(Superseded, [created |-> now, attempts |-> 0, state |-> "live"])
             /\ limit' = Counted(l, now)
             /\ otpCall' = [otpCall EXCEPT ![c].at = "mail", ![c].code = Len(codes) + 1]
        ELSE /\ limit' = l
             /\ otpCall' = [otpCall EXCEPT ![c] = NoOtpCall]
             /\ UNCHANGED codes
  /\ UNCHANGED <<otpNow, guesses>>

\* The mail was not accepted: the code is deleted unless it was used, its counts stay.
MailFails(c) ==
  /\ otpCall[c].at = "mail"
  /\ codes' = [codes EXCEPT ![otpCall[c].code].state = IF @ = "used" THEN @ ELSE "deleted"]
  /\ otpCall' = [otpCall EXCEPT ![c] = NoOtpCall]
  /\ UNCHANGED <<otpNow, limit, guesses>>

\* A request ends: its mail was accepted, its process stopped, or its batch never arrived.
OtpCallEnds(c) ==
  /\ otpCall[c].at # "idle"
  /\ otpCall' = [otpCall EXCEPT ![c] = NoOtpCall]
  /\ UNCHANGED <<otpNow, codes, limit, guesses>>

-----------------------------------------------------------------------------
(* Verification *)

Live(k, now) ==
  /\ codes[k].state = "live" /\ codes[k].created + CodeTtl > now
  /\ codes[k].attempts < MaxGuesses

\* The first read refuses what is no longer live; a right code is found to be right here.
Guess(c, k, right) ==
  /\ otpCall[c].at = "idle" /\ Live(k, otpNow)
  /\ otpCall' = [otpCall EXCEPT ![c] =
                   [at |-> "guess", now |-> otpNow, code |-> k, right |-> right]]
  /\ UNCHANGED <<otpNow, codes, limit, guesses>>

\* Faulty variant: the attempt is reserved as the code was when it was read.
Reservable_AsRead(k, now) ==
  /\ codes[k].state \in {"live", "superseded"} /\ codes[k].created + CodeTtl > now
  /\ limit.lockedUntil <= now

\* The WHERE of the reservation.
Reservable(k, now) == Live(k, now) /\ limit.lockedUntil <= now

(***************************************************************************)
(* failureStatements: one more failure of the address, in a new window     *)
(* when the last one ended, and the lock-out at the daily limit.           *)
(***************************************************************************)
Failed(l, now) ==
  LET new == l.failStart = NotOpen \/ Ended(l.failStart, Day, now)
      failures == IF new THEN 1 ELSE l.failures + 1
  IN [l EXCEPT !.failures = failures,
               !.failStart = IF new THEN now ELSE @,
               !.lockedUntil = IF failures >= FailuresPerDay THEN now + Lockout ELSE @]

Cleared(l) == [l EXCEPT !.failures = 0, !.failStart = NotOpen, !.lockedUntil = 0]

(***************************************************************************)
(* The verifying batch.  A code exists, so the address has its row.        *)
(***************************************************************************)
GuessApplies(c) ==
  /\ otpCall[c].at = "guess"
  /\ LET g == otpCall[c] IN
     IF Reservable(g.code, g.now)
     THEN /\ codes' = [codes EXCEPT ![g.code].attempts = @ + 1,
                                    ![g.code].state = IF g.right THEN "used" ELSE @]
          /\ limit' = IF g.right THEN Cleared(limit) ELSE Failed(limit, g.now)
          /\ guesses' = Append(guesses, [code |-> g.code, at |-> g.now, right |-> g.right,
                                         newest |-> g.code = Len(codes)])
     ELSE UNCHANGED <<codes, limit, guesses>>
  /\ otpCall' = [otpCall EXCEPT ![c] = NoOtpCall]
  /\ UNCHANGED otpNow

OtpTick ==
  /\ otpNow < MaxOtpTime /\ otpNow' = otpNow + 1
  /\ UNCHANGED <<codes, limit, otpCall, guesses>>

-----------------------------------------------------------------------------
OtpNext ==
  \/ \E c \in OtpCallers :
       \/ RequestCode(c) \/ SendApplies(c) \/ MailFails(c) \/ OtpCallEnds(c)
       \/ \E k \in DOMAIN codes, right \in BOOLEAN : Guess(c, k, right)
       \/ GuessApplies(c)
  \/ OtpTick

OtpSpec == OtpInit /\ [][OtpNext]_otpVars

OtpTypeOK ==
  /\ otpNow \in 0 .. MaxOtpTime
  /\ \A k \in DOMAIN codes :
       codes[k] \in [created : Nat, attempts : 0 .. MaxGuesses,
                     state : {"live", "superseded", "used", "deleted"}]
  /\ limit \in [row : BOOLEAN, hourStart : Nat, hourSent : 0 .. PerHour, dayStart : Nat,
                daySent : 0 .. PerDay, failStart : Nat \cup {NotOpen}, failures : Nat,
                lockedUntil : Nat]
  /\ \A c \in OtpCallers :
       otpCall[c] \in [at : {"idle", "send", "mail", "guess"}, now : Nat,
                       code : 0 .. MaxCodes, right : BOOLEAN]

Wrong(i, j) == \A n \in i .. j : ~guesses[n].right

(***************************************************************************)
(* "concurrent guesses cannot exceed the attempt budget": however requests *)
(* interleave, a code is evaluated MaxGuesses times at most and accepted   *)
(* once, only while no newer code was made; and an address that failed as  *)
(* often as a day allows, with no success between, is locked out before it *)
(* guesses again, until a day has passed since one of those failures.      *)
(***************************************************************************)
GuessesAreLimited ==
  /\ \A k \in DOMAIN codes :
       LET on == {i \in DOMAIN guesses : guesses[i].code = k}
       IN Cardinality(on) <= MaxGuesses /\ \A i \in on : guesses[i].right => \A j \in on : j <= i
  /\ \A i \in DOMAIN guesses : guesses[i].right => guesses[i].newest
  /\ \A i, j \in DOMAIN guesses :
       j = i + FailuresPerDay /\ Wrong(i, j) =>
         \/ \E n \in i .. j - 1 : guesses[n + 1].at >= guesses[n].at + Lockout
         \/ \E m \in 1 .. j - 1 : Wrong(m, j) /\ guesses[m].at + Day <= otpNow
=============================================================================
