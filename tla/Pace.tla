-------------------------------- MODULE Pace --------------------------------
(***************************************************************************)
(* The pace line of the subscription pacer (tauceti_worker/quota.py): how  *)
(* much of a window may be used at a moment, when a window that the line   *)
(* holds back is free again, and what one record of the usage endpoint     *)
(* says about a window.                                                    *)
(*                                                                         *)
(* The operator's curve, the usage and the moment are the initial state;   *)
(* then time passes and nothing is spent.  A window lasts Full ticks,      *)
(* points of a curve lie on multiples of Grid, budgets are small integers: *)
(* crossings fall on whole ticks, and the line is computed in units of     *)
(* 1 / Scale at half ticks.                                                *)
(***************************************************************************)
EXTENDS Integers, Sequences, FiniteSets

CONSTANTS Grid, Points,   \* the points of a curve lie on 0, Grid, ... Points * Grid
          MaxBudget,      \* bound: budgets and usage
          Ease            \* ticks waited past a crossing

Full == Points * Grid
Scale == 4 * Full

VARIABLES curve,    \* the operator's curve: points <<tick, budget>> by tick
          used,     \* what the open window has used
          elapsed,  \* ticks of it that have passed
          record    \* a record of the usage endpoint

pcvars == <<curve, used, elapsed, record>>

\* Curves have a first and a last point; those in between may be left out.
Curves ==
  UNION {{[i \in 1..Cardinality(at) |->
             LET t == CHOOSE t \in at : Cardinality({s \in at : s < t}) = i - 1
             IN <<t * Grid, f[t]>>] : f \in [at -> 0..MaxBudget]} :
         at \in {s \in SUBSET (0..Points) : {0, Points} \subseteq s}}

\* Omitted, explicitly null, usable or garbage.
Kinds == {"missing", "null", "value", "bad"}

Records == [usage: Kinds, reset: Kinds, percent: {0, 1}, left: {-1, 0, 1, 2}]

Bad == [usage |-> "bad", reset |-> "bad", percent |-> 0, left |-> 0]

PaceTypeOK == /\ curve \in Seq((0..Full) \X (0..MaxBudget))
              /\ used \in 0..MaxBudget /\ elapsed \in 0..Full
              /\ record \in Records

PaceInit == /\ curve \in Curves /\ used \in 0..MaxBudget
            /\ elapsed \in {n \in 0..Full : n % 3 = 0}
            /\ record \in IF used = 0 /\ elapsed = 0 THEN Records ELSE {Bad}

-----------------------------------------------------------------------------
\* The line.

Tick2(i) == 2 * curve[i][1]
Value(i) == Scale * curve[i][2]

\* The first point at or after half tick e.
At2(e) == CHOOSE i \in DOMAIN curve : Tick2(i) >= e /\ \A j \in 1..(i - 1) : Tick2(j) < e

\* The budget at half tick e, interpolated.
Line(e) ==
  LET i == At2(e) IN
  IF i = 1 THEN Value(1)
  ELSE Value(i - 1) + ((e - Tick2(i - 1)) * (Value(i) - Value(i - 1)))
                      \div (Tick2(i) - Tick2(i - 1))

Spare(e) == Line(e) - Scale * used

None2 == -1

\* The tick at which the segment that ends in point i meets the usage.
Crossing(i) ==
  LET rise == curve[i][2] - curve[i - 1][2] IN
  curve[i - 1][1] + ((used - curve[i - 1][2]) * (curve[i][1] - curve[i - 1][1])) \div rise

\* Where the line first stands above the usage, from this moment on.
RecoveryStart ==
  LET later == {i \in DOMAIN curve : curve[i][1] > elapsed /\ curve[i][2] > used} IN
  IF Spare(2 * elapsed) > 0 THEN elapsed
  ELSE IF later = {} THEN None2
  ELSE LET i == CHOOSE i \in later : \A j \in later : i <= j
           rises == i > 1 /\ curve[i][2] > curve[i - 1][2] IN
       IF ~rises THEN curve[i][1]
       ELSE IF Crossing(i) >= elapsed THEN Crossing(i) ELSE elapsed

\* Where it drops back to the usage.
RecoveryEnd ==
  LET later == {i \in DOMAIN curve : curve[i][1] > RecoveryStart /\ curve[i][2] <= used} IN
  IF later = {} THEN Full
  ELSE LET i == CHOOSE i \in later : \A j \in later : i <= j
           end == IF curve[i - 1][2] > curve[i][2] THEN Crossing(i) ELSE curve[i][1] IN
       IF end >= RecoveryStart THEN end ELSE RecoveryStart

\* The half tick to wake at: past the equality, and inside the stretch.
FreeAt ==
  IF RecoveryStart = None2 THEN None2
  ELSE LET length == RecoveryEnd - RecoveryStart IN
       2 * RecoveryStart + (IF 2 * Ease <= length THEN 2 * Ease ELSE length)

Status(e) == IF Spare(e) > 0 THEN "under-pace"
             ELSE IF Spare(e) = 0 THEN "at-budget" ELSE "over-pace"

\* How long a fresh window stays without any budget.
ZeroPlateau ==
  LET zeros == {i \in DOMAIN curve : \A j \in 1..i : curve[j][2] = 0} IN
  IF zeros = {} THEN 0 ELSE curve[CHOOSE i \in zeros : \A j \in zeros : j <= i][1]

-----------------------------------------------------------------------------
\* One record of the endpoint; left counts windows to its reset clock: over,
\* within the skew, within the window, and beyond it.

Silent(r) == "malformed"

RecordState(r) ==
  IF r.usage = "bad" \/ r.reset = "bad" THEN "malformed"
  ELSE IF r.reset = "value"
       THEN IF r.usage # "value" THEN "malformed"
            ELSE IF r.left = -1 THEN "idle"
            ELSE IF r.left = 2 THEN "malformed" ELSE "active"
  ELSE IF r.usage = "value" THEN (IF r.percent > 0 THEN "malformed" ELSE "idle")
  ELSE IF "null" \in {r.usage, r.reset} THEN "idle" ELSE Silent(r)

-----------------------------------------------------------------------------
\* Time passes.
PaceTick == /\ elapsed + 3 <= Full /\ elapsed' = elapsed + 3
            /\ UNCHANGED <<curve, used, record>>

PaceSpec == PaceInit /\ [][PaceTick]_pcvars

\* A window that the line holds back is waited for until a moment at which it has
\* room, and no earlier moment had: the promised wake is under pace, every moment
\* from now to the crossing is not, and a window that is not promised one never
\* gets any (quota.py:198-214, 425-446).
WakesWhenFree ==
  IF RecoveryStart = None2 THEN \A e \in (2 * elapsed)..(2 * Full) : Spare(e) <= 0
  ELSE /\ \A e \in (2 * elapsed)..(2 * RecoveryStart) :
            RecoveryStart > elapsed => Spare(e) <= 0
       /\ RecoveryStart < RecoveryEnd => Status(FreeAt) = "under-pace"

\* A fresh window may be opened by a request only if the line is above zero from
\* the first moment on (quota.py:240-260, 272-287).
PlateauExact == /\ ZeroPlateau > 0 => \A e \in 0..(2 * ZeroPlateau) : Line(e) = 0
                /\ ZeroPlateau < Full => Line(2 * ZeroPlateau + 1) > 0

\* Only an explicit statement that a window is not open makes it idle, only a
\* usage with a plausible clock makes it active; everything else is a hard block
\* (quota.py:501-518).
OnlyStatedIdle ==
  /\ RecordState(record) = "idle" =>
       /\ "bad" \notin {record.usage, record.reset}
       /\ record.reset = "value" => record.usage = "value" /\ record.left = -1
       /\ record.reset # "value" => \/ "null" \in {record.usage, record.reset}
                                    \/ record.usage = "value"
       /\ record.reset # "value" /\ record.usage = "value" => record.percent = 0
  /\ RecordState(record) = "active" <=>
       record.usage = "value" /\ record.reset = "value" /\ record.left \in {0, 1}
=============================================================================
