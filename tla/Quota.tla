------------------------------- MODULE Quota -------------------------------
(***************************************************************************)
(* The subscription pacer of the workers of one Claude account             *)
(* (tauceti_worker/quota.py): readings of the usage endpoint, the cache    *)
(* and the cooldown they share, and the reservation of the one small       *)
(* request that opens a window after its reset.                            *)
(*                                                                         *)
(* One window is modelled; its sibling has headroom throughout.  Instants  *)
(* are kept as ticks passed or ticks left.  The pace line is the identity: *)
(* after n ticks of a window less than n units may be used; the line       *)
(* itself is the subject of Pace.                                          *)
(***************************************************************************)
EXTENDS Naturals, FiniteSets

CONSTANTS Askers,       \* workers of the account
          Length,       \* ticks of a window
          CacheTTL,     \* ticks a cached reading may be served
          BootTimeout,  \* ticks the request that opens a window may take
          StaleAfter,   \* ticks a reservation in progress is believed
          RetryAfter,   \* ticks an outcome is believed
          MaxFaults     \* bound: kills, and answers that are no reading

QuotaAssumption == /\ Length \in Nat \ {0} /\ {CacheTTL, BootTimeout, StaleAfter, RetryAfter, MaxFaults} \subseteq Nat
                   /\ BootTimeout < StaleAfter /\ StaleAfter <= RetryAfter
                   /\ RetryAfter < Length

VARIABLES window,    \* the provider's window: ticks left (0: not open), use, number
          period,    \* the clock: which period, and ticks to the next
          cached,    \* quota-claude.json
          cooling,   \* ticks left of the account's cooldown
          ledger,    \* the bootstrap ledger, by period
          asker,     \* what each worker is doing
          faults,
          requests   \* requests sent in the present period

qvars == <<window, period, cached, cooling, ledger, asker, faults, requests>>

\* A reading: the ticks left at the moment it describes, its use, the ticks since
\* (absolute clocks: what is left now is left - age), and the window it is of.
NoReading == [left |-> 0, used |-> 0, age |-> 0, of |-> 0]
NoRow == [state |-> "none", age |-> 0]
Asleep == [step |-> "asleep", reading |-> NoReading, key |-> 0, left |-> 0,
           polled |-> FALSE]

Readings == [left: 0..Length, used: 0..Length, age: 0..(CacheTTL + 1), of: 0..2]

QuotaTypeOK ==
  /\ window \in [left: 0..Length, used: 0..Length, number: 0..2]
  /\ period \in [key: 0..1, left: 1..Length]
  /\ cached \in Readings /\ cooling \in 0..CacheTTL
  /\ ledger \in [0..1 -> [state: {"none", "in-progress", "done"}, age: 0..RetryAfter]]
  /\ asker \in [Askers -> [step: {"asleep", "asking", "told", "refused", "launch", "open",
                                  "reserved", "requesting", "settle"},
                           reading: Readings, key: 0..1, left: 0..BootTimeout,
                           polled: BOOLEAN]]
  /\ faults \in 0..MaxFaults /\ requests \in 0..2

QuotaInit ==
  /\ window = [left |-> 0, used |-> 0, number |-> 0]
  /\ period \in [key: {0}, left: 1..Length]
  /\ cached = NoReading /\ cooling = 0
  /\ ledger = [k \in 0..1 |-> NoRow]
  /\ asker = [a \in Askers |-> Asleep]
  /\ faults = 0 /\ requests = 0

-----------------------------------------------------------------------------
\* Readings.

Active(r) == r.left > r.age

\* What a reading says of the moment it describes.
UnderPace(r) == r.used < Length - r.left

\* A cached reading is served within its time to live and while no reset that it
\* describes has passed.
Servable(r) == Active(r) /\ r.age <= CacheTTL

\* The verdict: launch, open the window, or wait.
Verdict(r) ==
  IF r.left = 0
  THEN IF ledger[period.key].state = "none" THEN "open" ELSE "asleep"
  ELSE IF UnderPace(r) THEN "launch" ELSE "asleep"

\* What the worker does on a reading; only a launch remembers it.
Decided(r) == [Asleep EXCEPT !.step = Verdict(r), !.polled = TRUE,
                 !.reading = IF Verdict(r) = "launch" THEN r ELSE NoReading]

\* The worker looks at the cache, and asks the endpoint if it may and has to; a
\* round forces a fresh reading, anything else is content with the cache.  A loop
\* that was told to wait sleeps before it polls again.
Poll(a) ==
  /\ asker[a].step = "asleep" /\ ~asker[a].polled
  /\ \E refresh \in BOOLEAN :
       IF Servable(cached) /\ (cooling > 0 \/ ~refresh)
       THEN asker' = [asker EXCEPT ![a] = Decided(cached)]
       ELSE IF cooling > 0 THEN FALSE
       ELSE asker' = [asker EXCEPT ![a].step = "asking", ![a].polled = TRUE]
  /\ UNCHANGED <<window, period, cached, cooling, ledger, faults, requests>>

\* The endpoint's snapshot, which may arrive later.
EndpointAnswers(a) ==
  /\ asker[a].step = "asking"
  /\ asker' = [asker EXCEPT ![a].step = "told",
                 ![a].reading = [left |-> window.left, used |-> window.used, age |-> 0,
                                 of |-> window.number]]
  /\ UNCHANGED <<window, period, cached, cooling, ledger, faults, requests>>

\* A response that is no reading: a refusal with a cooldown, or none at all.
EndpointRefuses(a) ==
  /\ asker[a].step = "asking" /\ faults < MaxFaults
  /\ faults' = faults + 1
  /\ asker' = [asker EXCEPT ![a].step = "refused"]
  /\ \E wait \in {0, CacheTTL} : cooling' = IF cooling >= wait THEN cooling ELSE wait
  /\ UNCHANGED <<window, period, cached, ledger, requests>>

\* Only a reading of an open window is stored, until that window's reset.
Told(a) ==
  LET r == asker[a].reading IN
  /\ asker[a].step = "told"
  /\ cached' = IF Active(r) THEN r ELSE cached
  /\ asker' = [asker EXCEPT ![a] = Decided(r)]
  /\ UNCHANGED <<window, period, cooling, ledger, faults, requests>>

\* The cache is read again: what was live before the request may not be any more.
Refused(a) ==
  /\ asker[a].step = "refused"
  /\ asker' = [asker EXCEPT ![a] = IF Servable(cached) THEN Decided(cached)
                                   ELSE [Asleep EXCEPT !.polled = TRUE]]
  /\ UNCHANGED <<window, period, cached, cooling, ledger, faults, requests>>

\* The round spends on the window, opening it if it is not open.
Launch(a) ==
  /\ asker[a].step = "launch"
  /\ window' = IF window.left = 0 THEN [window EXCEPT !.left = Length, !.used = 1]
               ELSE [window EXCEPT !.used = IF @ = Length THEN @ ELSE @ + 1]
  /\ asker' = [asker EXCEPT ![a] = Asleep]
  /\ UNCHANGED <<period, cached, cooling, ledger, faults, requests>>

-----------------------------------------------------------------------------
\* The bounded request after a reset.

\* Mutant: the reservation trusts the verdict it was made on.
AsRead(key) == TRUE

Unreserved(key) == ledger[key].state = "none"

\* Written under the lock before the request; the key is fixed from here on.
ReserveBootstrap(a) ==
  /\ asker[a].step = "open"
  /\ IF Unreserved(period.key)
     THEN /\ ledger' = [ledger EXCEPT ![period.key] =
                          [state |-> "in-progress", age |-> 0]]
          /\ asker' = [asker EXCEPT ![a].step = "reserved", ![a].key = period.key]
     ELSE /\ asker' = [asker EXCEPT ![a] = [Asleep EXCEPT !.polled = TRUE]]
          /\ UNCHANGED ledger
  /\ UNCHANGED <<window, period, cached, cooling, faults, requests>>

Request(a) ==
  /\ asker[a].step = "reserved"
  /\ asker' = [asker EXCEPT ![a].step = "requesting", ![a].left = BootTimeout]
  /\ requests' = IF requests = 2 THEN 2 ELSE requests + 1
  /\ UNCHANGED <<window, period, cached, cooling, ledger, faults>>

\* The provider opens the window, or the request fails; the cache is dropped once
\* the outcome is recorded.
Outcome(a) ==
  /\ asker[a].step = "requesting"
  /\ \/ /\ window' = IF window.left = 0 THEN [window EXCEPT !.left = Length, !.used = 0]
                     ELSE window
        /\ UNCHANGED faults
     \/ /\ faults < MaxFaults /\ faults' = faults + 1
        /\ UNCHANGED window
  /\ asker' = [asker EXCEPT ![a].step = "settle"]
  /\ UNCHANGED <<period, cached, cooling, ledger, requests>>

SettleBootstrap(a) ==
  /\ asker[a].step = "settle"
  /\ ledger' = [ledger EXCEPT ![asker[a].key] =
                  [state |-> "done", age |-> 0]]
  /\ cached' = NoReading
  /\ asker' = [asker EXCEPT ![a] = Asleep]
  /\ UNCHANGED <<window, period, cooling, faults, requests>>

\* A killed worker leaves its reservation; its request may still have been made.
AskerKilled(a) ==
  /\ faults < MaxFaults /\ asker[a].step \in {"reserved", "requesting", "settle"}
  /\ faults' = faults + 1
  /\ asker' = [asker EXCEPT ![a] = Asleep]
  /\ UNCHANGED <<window, period, cached, cooling, ledger, requests>>

-----------------------------------------------------------------------------
\* Time.

Down(n) == IF n = 0 THEN 0 ELSE n - 1

\* A row is dropped when it is no longer believed.
RowAged(row) ==
  IF row.state = "none" THEN row
  ELSE IF row.age + 1 >= (IF row.state = "done" THEN RetryAfter ELSE StaleAfter) THEN NoRow
  ELSE [row EXCEPT !.age = @ + 1]

Aged(r) == IF r = NoReading THEN r
           ELSE IF r.age > CacheTTL THEN r ELSE [r EXCEPT !.age = @ + 1]

\* Requests and answers are used within their time; an answer in hand and a
\* verdict do not wait.
QuotaTick ==
  /\ \A a \in Askers : /\ asker[a].step \in {"told", "refused", "launch", "open", "reserved", "settle"}
                            => FALSE
                       /\ asker[a].step = "requesting" => asker[a].left > 0
  /\ window' = IF window.left = 1
               THEN [left |-> 0, used |-> 0, number |-> (window.number + 1) % 3]
               ELSE [window EXCEPT !.left = Down(@)]
  /\ IF period.left = 1
     THEN period' = [key |-> 1 - period.key, left |-> Length] /\ requests' = 0
     ELSE period' = [period EXCEPT !.left = @ - 1] /\ UNCHANGED requests
  /\ cached' = Aged(cached)
  /\ cooling' = Down(cooling)
  /\ ledger' = [k \in 0..1 |-> RowAged(ledger[k])]
  /\ asker' = [a \in Askers |-> [asker[a] EXCEPT !.left = Down(@), !.reading = Aged(@),
                                                     !.polled = FALSE]]
  /\ UNCHANGED faults

QuotaNext ==
  \/ \E a \in Askers : \/ Poll(a) \/ EndpointAnswers(a) \/ EndpointRefuses(a) \/ Told(a)
                       \/ Refused(a) \/ Launch(a) \/ ReserveBootstrap(a) \/ Request(a)
                       \/ Outcome(a) \/ SettleBootstrap(a) \/ AskerKilled(a)
  \/ QuotaTick

QuotaSpec == QuotaInit /\ [][QuotaNext]_qvars

\* Workers go on, the endpoint answers, time passes.
QuotaFairness ==
  /\ WF_qvars(QuotaTick)
  /\ \A a \in Askers :
       /\ WF_qvars(Poll(a)) /\ WF_qvars(EndpointAnswers(a) \/ EndpointRefuses(a))
       /\ WF_qvars(Told(a)) /\ WF_qvars(Refused(a))
       /\ WF_qvars(Launch(a)) /\ WF_qvars(ReserveBootstrap(a)) /\ WF_qvars(Request(a))
       /\ WF_qvars(Outcome(a)) /\ WF_qvars(SettleBootstrap(a))

QuotaFairSpec == QuotaSpec /\ QuotaFairness

-----------------------------------------------------------------------------
\* A launch goes by a reading of the window that is open, and time alone never
\* turned a reading that was over the line when it was taken into permission
\* (quota.py:1853-1856, 1926-1929, 1189-1195).
LaunchesOnItsWindow ==
  \A a \in Askers : asker[a].step = "launch" =>
    /\ asker[a].reading.of = window.number
    /\ asker[a].reading.used < Length - asker[a].reading.left

\* One request at a time is under way for a window, whoever else reads that it is
\* not open, dies, or is late (quota.py:2147-2150, 2153-2161).
OneBootstrap ==
  \A k \in 0..1 :
    Cardinality({a \in Askers : asker[a].key = k /\ asker[a].step \in {"reserved", "requesting"}}) <= 1

\* A window that nobody has opened is opened by the workers
\* (quota.py:2085-2093).
Open == window.left > 0

\* What docs/quota.md:106-109 promises: at most one request per window period,
\* even if a worker crashes in the middle of it.
OncePerPeriod == requests <= 1
=============================================================================
