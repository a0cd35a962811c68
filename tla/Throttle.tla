------------------------------ MODULE Throttle ------------------------------
(***************************************************************************)
(* The pace of the requests that the workers of one GitHub account send    *)
(* from a host (tauceti_worker/github_transport.py): the shared record of  *)
(* secondary rejections, its content slots and its recovery probe, and the *)
(* shared reading of the primary budget.                                   *)
(*                                                                         *)
(* The records hold ticks left instead of times of day.  A request is      *)
(* answered within Patience, which is shorter than the lease of a probe.   *)
(* A sleeper may return instead of waiting: its caller does not wait, or   *)
(* its ceiling would be passed.                                            *)
(***************************************************************************)
EXTENDS Naturals, FiniteSets

CONSTANTS Senders,       \* processes that write content (comments, reviews, pulls)
          Patience2,     \* ticks a request may take
          ProbeLease,    \* ticks a recovery probe is reserved for
          FirstDelay,    \* ticks after the first rejection; doubled by the next
          Window,        \* ticks of a primary budget window
          MaxRejections  \* bound: requests that GitHub rejects

ThrottleAssumption == /\ Patience2 \in Nat /\ ProbeLease \in Nat /\ FirstDelay \in Nat
                      /\ Patience2 < ProbeLease /\ Patience2 < FirstDelay
                      /\ Window \in Nat \ {0} /\ MaxRejections \in Nat

LongestDelay == 2 * FirstDelay

VARIABLES secondary,   \* secondary.json of the account
          bucket,      \* the account's reading of the primary budget
          sender,      \* what each process is doing
          budget,      \* GitHub's own budget
          rejections,  \* requests rejected so far
          told         \* ticks left of the waits that processes were told

thvars == <<secondary, bucket, sender, budget, rejections, told>>

NoRecord == [remaining |-> 0, reset |-> 0]
AtRest == [step |-> "rest", left |-> 0, then |-> "cooling", probe |-> FALSE, record |-> NoRecord,
           rejected |-> "no"]

Records == [remaining: 0..1, reset: 0..(Window + 1)]
Sends == [step: {"rest", "cooling", "budget", "slot", "flight", "answered", "asleep"},
          left: 0..(LongestDelay + ProbeLease + Window), then: {"cooling", "budget", "slot"},
          probe: BOOLEAN, record: Records, rejected: {"no", "all", "content"}]

ThrottleTypeOK ==
  /\ secondary \in [until: 0..LongestDelay, mutation_until: 0..LongestDelay,
                    probe_until: 0..ProbeLease, failures: 0..2,
                    mutation_failures: 0..2, next_send: 0..1]
  /\ bucket \in [remaining: 0..1, reset: 0..(Window + 1), exhausted_until: 0..(Window + 1)]
  /\ budget \in [remaining: 0..1, reset: 1..Window]
  /\ sender \in [Senders -> Sends]
  /\ rejections \in 0..MaxRejections
  /\ told \in [zero: 0..(Window + 1), wait: 0..LongestDelay]

ThrottleInit ==
  /\ secondary = [until |-> 0, mutation_until |-> 0, probe_until |-> 0, failures |-> 0,
                  mutation_failures |-> 0, next_send |-> 0]
  /\ bucket = [remaining |-> 1, reset |-> 0, exhausted_until |-> 0]
  /\ sender = [s \in Senders |-> AtRest]
  /\ budget = [remaining |-> 1, reset |-> Window]
  /\ rejections = 0 /\ told = [zero |-> 0, wait |-> 0]

-----------------------------------------------------------------------------
\* Before a request.

Larger(m, n) == IF m >= n THEN m ELSE n
Less(n) == IF n = 0 THEN 0 ELSE n - 1

Goes(s, step) == sender' = [sender EXCEPT ![s].step = step]
Sleeps(s, ticks, then) ==
  sender' = [sender EXCEPT ![s].step = "asleep", ![s].left = ticks, ![s].then = then]
Unmoved == UNCHANGED <<secondary, bucket, budget, rejections, told>>

Want(s) == sender[s].step = "rest" /\ Goes(s, "cooling") /\ Unmoved

\* A sleeper goes on where it was: one that slept out a cooldown does not look at
\* it again before its slot.
Wake(s) ==
  sender[s].step = "asleep" /\ sender[s].left = 0 /\ Goes(s, sender[s].then) /\ Unmoved

\* Refused before its request: the cooldown, the budget or the pace.
Refuse(s) ==
  /\ \/ sender[s].step = "asleep"
     \/ sender[s].step = "cooling" /\ secondary.until > 0
  /\ sender' = [sender EXCEPT ![s] = AtRest]
  /\ Unmoved

Cooling(s) ==
  /\ sender[s].step = "cooling"
  /\ IF secondary.until > 0 THEN Sleeps(s, secondary.until, "budget") ELSE Goes(s, "budget")
  /\ Unmoved

\* The reading of the budget: a live zero reading before a later window's.
Observed == IF bucket.exhausted_until > 0 THEN 0
            ELSE IF bucket.reset > 0 THEN bucket.remaining ELSE 1

Budgeted(s) ==
  /\ sender[s].step = "budget"
  /\ IF Observed = 0
     THEN Sleeps(s, Larger(bucket.exhausted_until, bucket.reset), "slot") ELSE Goes(s, "slot")
  /\ Unmoved

Blocked == Larger(secondary.until, Larger(secondary.mutation_until, secondary.probe_until))

\* One account-wide slot; after a failure it is the one recovery probe.
Slot == [secondary EXCEPT !.next_send = 1,
           !.probe_until = IF secondary.failures + secondary.mutation_failures > 0
                           THEN ProbeLease ELSE @]

\* The file is not locked while a process sleeps: it asks again from the start.
Reserve(s) ==
  /\ sender[s].step = "slot"
  /\ IF Blocked > 0 \/ secondary.next_send > 0
     THEN /\ Sleeps(s, Larger(Blocked, secondary.next_send), "cooling")
          /\ UNCHANGED secondary
     ELSE /\ secondary' = Slot
          /\ sender' = [sender EXCEPT ![s].step = "flight", ![s].left = Patience2,
                          ![s].probe = secondary.failures + secondary.mutation_failures > 0]
  /\ UNCHANGED <<bucket, budget, rejections, told>>

-----------------------------------------------------------------------------
\* GitHub, and what is made of its answer.

\* GitHub answers, at times with the reset of the window to come.
Respond(s) ==
  /\ sender[s].step = "flight"
  /\ \E rejected \in {"no", "all", "content"}, early \in 0..1 :
       /\ rejected # "no" => rejections < MaxRejections
       /\ rejections' = IF rejected = "no" THEN rejections ELSE rejections + 1
       /\ sender' = [sender EXCEPT ![s].step = "answered", ![s].rejected = rejected,
                       ![s].record = [remaining |-> Less(budget.remaining),
                                      reset |-> budget.reset + early]]
  /\ budget' = [budget EXCEPT !.remaining = Less(@)]
  /\ UNCHANGED <<secondary, bucket, told>>

\* The reading after a response that may be older than the last one.
Remembered(record) ==
  LET ex == IF record.remaining = 0 THEN Larger(bucket.exhausted_until, record.reset)
            ELSE bucket.exhausted_until IN
  IF bucket.reset > record.reset THEN [bucket EXCEPT !.exhausted_until = ex]
  ELSE [remaining |-> IF bucket.reset = record.reset /\ bucket.remaining < record.remaining
                      THEN bucket.remaining ELSE record.remaining,
        reset |-> record.reset, exhausted_until |-> ex]

DelayAfter(failures) == IF failures = 1 THEN FirstDelay ELSE LongestDelay

Failures(until, prior) ==
  IF until = 0 THEN (IF prior = 2 THEN 2 ELSE prior + 1) ELSE Larger(1, prior)

\* A rejection of everything, or of content only; while one runs another counts
\* for no more.
Rejected(kind) ==
  IF kind = "all"
  THEN LET n == Failures(secondary.until, secondary.failures) IN
       [secondary EXCEPT !.probe_until = 0, !.failures = n,
          !.until = IF @ = 0 THEN DelayAfter(n) ELSE @]
  ELSE LET n == Failures(secondary.mutation_until, secondary.mutation_failures) IN
       [secondary EXCEPT !.probe_until = 0, !.mutation_failures = n,
          !.mutation_until = IF @ = 0 THEN DelayAfter(n) ELSE @]

\* An older request cannot clear a peer's still-active rejection.
MayClear == secondary.until = 0 /\ secondary.mutation_until = 0

Cleared == [until |-> 0, mutation_until |-> 0, probe_until |-> 0, failures |-> 0,
            mutation_failures |-> 0, next_send |-> secondary.next_send]

\* The reading, then the verdict; a rejected command sleeps and begins again or
\* returns.
Digest(s) ==
  LET sn == sender[s]
      next == IF sn.rejected # "no" THEN Rejected(sn.rejected)
              ELSE IF MayClear THEN Cleared ELSE secondary
      wait == Larger(next.until, next.mutation_until)
      others == IF sn.rejected = "no" /\ MayClear
                THEN [q \in Senders |-> [sender[q] EXCEPT !.probe = FALSE]] ELSE sender
  IN
  /\ sn.step = "answered"
  /\ bucket' = Remembered(sn.record)
  /\ secondary' = next
  /\ told' = [zero |-> IF sn.record.remaining = 0 THEN Larger(told.zero, sn.record.reset)
                       ELSE told.zero,
              wait |-> IF sn.rejected = "no" THEN told.wait ELSE Larger(told.wait, wait)]
  /\ sender' = [others EXCEPT ![s] =
                  IF sn.rejected = "no" THEN AtRest
                  ELSE [AtRest EXCEPT !.step = "asleep", !.left = wait]]
  /\ UNCHANGED <<budget, rejections>>

-----------------------------------------------------------------------------
\* Time passes; a response in hand may be digested any time later.
ThrottleTick ==
  /\ \A s \in Senders : sender[s].step = "flight" => sender[s].left > 0
  /\ secondary' = [secondary EXCEPT !.until = Less(@), !.mutation_until = Less(@),
                     !.probe_until = Less(@), !.next_send = Less(@)]
  /\ bucket' = [bucket EXCEPT !.reset = Less(@), !.exhausted_until = Less(@)]
  /\ budget' = IF budget.reset = 1 THEN [remaining |-> 1, reset |-> Window]
               ELSE [budget EXCEPT !.reset = @ - 1]
  /\ sender' = [s \in Senders |-> [sender[s] EXCEPT !.left = Less(@),
                  !.record = [remaining |-> @.remaining, reset |-> Less(@.reset)]]]
  /\ told' = [zero |-> Less(told.zero), wait |-> Less(told.wait)]
  /\ UNCHANGED rejections

\* A process that is killed leaves its reservation.
SenderGone(s) ==
  /\ sender[s].step \in {"flight", "answered"}
  /\ sender' = [sender EXCEPT ![s] = AtRest]
  /\ Unmoved

ThrottleNext ==
  \/ \E s \in Senders : \/ Want(s) \/ Wake(s) \/ Refuse(s) \/ Cooling(s) \/ Budgeted(s)
                        \/ Reserve(s) \/ Respond(s) \/ Digest(s) \/ SenderGone(s)
  \/ ThrottleTick

ThrottleSpec == ThrottleInit /\ [][ThrottleNext]_thvars

-----------------------------------------------------------------------------
\* After a rejection one request at a time finds out whether GitHub takes content
\* again, whoever else still waits for an answer
\* (github_transport.py:482-484).
OneRecoveryProbe ==
  Cardinality({s \in Senders : sender[s].step = "flight" /\ sender[s].probe}) <= 1

\* A wait that some process was told is a wait for every process until it is
\* over, whatever older answers arrive meanwhile
\* (github_transport.py:428-433).
RejectionStands == told.wait > 0 => Blocked >= told.wait

\* A budget that was reported exhausted stays so until the reset it was reported
\* with, in whatever order the responses of concurrent requests are digested
\* (github_transport.py:292-308).
ExhaustionStands == told.zero > 0 => Observed = 0

ThrottleSafe == /\ ThrottleTypeOK /\ OneRecoveryProbe
                /\ RejectionStands /\ ExhaustionStands
=============================================================================
