---------------------------- MODULE SharedProofs ----------------------------
(***************************************************************************)
(* The theorems about what the processes of a host share: the state service *)
(* behind its circuit, the pace of the account's requests, the read cache,  *)
(* and the readings of the quota with the request that opens a window.      *)
(***************************************************************************)
EXTENDS ReadCache, Gateway, Throttle, Quota, FiniteSetTheorems, TLAPS

LEMMA AtMostOne ==
    ASSUME NEW S, \A x, y \in S : x = y
    PROVE  IsFiniteSet(S) /\ Cardinality(S) <= 1
  <1>1. CASE S = {}
    <2>1. IsFiniteSet(S) /\ Cardinality(S) = 0
      BY <1>1, FS_EmptySet, Zenon
    <2> QED
      BY <2>1
  <1>2. CASE S # {}
    <2>1. PICK x \in S : TRUE
      BY <1>2
    <2>2. \A y \in S : y = x
      BY <2>1
    <2>3. S = {x}
      BY <2>1, <2>2
    <2>4. IsFiniteSet(S) /\ Cardinality(S) = 1
      BY <2>3, FS_Singleton, Zenon
    <2> QED
      BY <2>4
  <1> QED
    BY <1>1, <1>2

-----------------------------------------------------------------------------
(* The gateway. *)

\* A prober reads, and its lease outlasts the page it waits for.
ProbesLeased ==
  \A c \in Clients : client[c].prober =>
    client[c].step = "reading" /\ circuit.probe = c /\ client[c].left < circuit.lease

WholeAnswers == \A c \in Clients : client[c].step = "answered" =>
                  \E revision \in 1..MaxRevision : client[c].seen = {revision}

GatewayInv == GatewayTypeOK /\ ProbesLeased /\ WholeAnswers

Clienthood == [step: {"away", "reading", "answered", "refused"}, prober: BOOLEAN, attempt: 0..2,
               left: 0..Patience, pages: 0..MaxPages, seen: SUBSET (1..MaxRevision), have: 0..MaxRevision]
Circuits == [failures: 0..Threshold, until: 0..Backoff, probe: Clients \cup {NoClient}, lease: 0..Lease]

LEMMA GatewayStarts == ASSUME GatewayAssumption, GatewayInit PROVE GatewayInv
  <1>1. Away \in Clienthood /\ Away.step = "away" /\ ~Away.prober
    BY DEF Away, Clienthood, GatewayAssumption
  <1>2. circuit \in Circuits
    BY DEF GatewayInit, GatewayAssumption, Circuits
  <1>3. GatewayTypeOK
    BY <1>1, <1>2 DEF GatewayInit, GatewayAssumption, GatewayTypeOK, Circuits, Clienthood
  <1>4. ProbesLeased /\ WholeAnswers
    BY <1>1 DEF GatewayInit, ProbesLeased, WholeAnswers
  <1> QED
    BY <1>3, <1>4 DEF GatewayInv

\* A client that is away, refused or done has no probe; the others keep what they have.
\* (github_state.fetch_snapshot)
Leaves(c, to) == /\ client' = [client EXCEPT ![c] = to]
                 /\ to \in {Away, [Away EXCEPT !.step = "refused"]}

LEMMA LeavingKeeps ==
    ASSUME GatewayAssumption, GatewayInv, NEW c \in Clients, NEW to, Leaves(c, to), circuit' \in Circuits,
           \A d \in Clients \ {c} : client[d].prober => circuit'.probe = circuit.probe /\ circuit'.lease = circuit.lease,
           limit' \in 0..Backoff, coverage' \in 0..Backoff, stored' \in 0..MaxRevision,
           UNCHANGED service, outages' \in 0..MaxOutages
    PROVE  GatewayInv'
  <1>1. to \in Clienthood /\ to.step \in {"away", "refused"} /\ ~to.prober
    <2>1. Away \in Clienthood /\ Away.step = "away" /\ ~Away.prober
      BY DEF Away, Clienthood, GatewayAssumption
    <2> QED
      BY <2>1 DEF Leaves, Clienthood
  <1>2. client \in [Clients -> Clienthood]
    BY DEF GatewayInv, GatewayTypeOK, Clienthood
  <1>3. /\ client' \in [Clients -> Clienthood] /\ client'[c] = to
        /\ \A d \in Clients \ {c} : client'[d] = client[d]
    BY <1>1, <1>2 DEF Leaves
  <1>4. GatewayTypeOK'
    BY <1>3 DEF GatewayInv, GatewayTypeOK, Circuits, Clienthood
  <1>5. ProbesLeased' /\ WholeAnswers'
    BY <1>1, <1>3 DEF GatewayInv, ProbesLeased, WholeAnswers
  <1> QED
    BY <1>4, <1>5 DEF GatewayInv

LEMMA GatewayLeaves ==
    ASSUME GatewayAssumption, GatewayInv, NEW c \in Clients,
           TurnedAway(c) \/ Partial(c) \/ GiveUpRead(c) \/ Depart(c) \/ KillClient(c)
    PROVE  GatewayInv'
  <1> USE DEF GatewayInv, GatewayTypeOK
  <1>0. circuit \in Circuits
    BY DEF Circuits
  <1>1. CASE TurnedAway(c) \/ Depart(c)
    BY <1>0, <1>1, LeavingKeeps DEF TurnedAway, Depart, Leaves
  <1>2. CASE Partial(c)
    <2>1. coverage' \in 0..Backoff
      BY <1>2 DEF Partial, GatewayAssumption
    <2> QED
      BY <1>0, <1>2, <2>1, LeavingKeeps DEF Partial, Leaves
  <1>3. CASE KillClient(c)
    <2>1. outages' \in 0..MaxOutages
      BY <1>3 DEF KillClient, GatewayAssumption
    <2> QED
      BY <1>0, <1>3, <2>1, LeavingKeeps DEF KillClient, Leaves
  <1>4. CASE GiveUpRead(c)
    <2>1. limit' \in 0..Backoff
      BY <1>4 DEF GiveUpRead, GatewayAssumption
    <2>2. circuit' \in Circuits
      <3>1. /\ KeptLease(c).probe \in Clients \cup {NoClient} /\ KeptLease(c).lease \in 0..Lease
        BY DEF KeptLease, GatewayAssumption
      <3>2. circuit' = Failed(c)
        BY <1>4 DEF GiveUpRead
      <3> QED
        <4> DEFINE n == IF circuit.failures = Threshold THEN Threshold ELSE circuit.failures + 1
        <4>1. n \in 0..Threshold
          BY DEF GatewayAssumption
        <4>2. circuit' = [failures |-> n, until |-> IF n >= Threshold THEN Backoff ELSE 0,
                          probe |-> KeptLease(c).probe, lease |-> KeptLease(c).lease]
          BY <3>2 DEF Failed
        <4>3. (IF n >= Threshold THEN Backoff ELSE 0) \in 0..Backoff
          BY DEF GatewayAssumption
        <4> HIDE DEF n
        <4> QED
          BY <3>1, <4>1, <4>2, <4>3 DEF Circuits
    <2>3. ASSUME NEW d \in Clients \ {c}, client[d].prober
          PROVE  circuit'.probe = circuit.probe /\ circuit'.lease = circuit.lease
      <3>1. circuit.probe # c
        BY <2>3 DEF ProbesLeased
      <3> QED
        BY <1>4, <3>1 DEF GiveUpRead, Failed, KeptLease
    <2>4. Leaves(c, [Away EXCEPT !.step = "refused"]) /\ UNCHANGED <<coverage, stored, service, outages>>
      BY <1>4 DEF GiveUpRead, Leaves
    <2> QED
      BY <2>1, <2>2, <2>3, <2>4, LeavingKeeps
  <1> QED
    BY <1>1, <1>2, <1>3, <1>4

\* A read begins: with the probe only if nobody has it.  (github_state.Gateway)
LEMMA GatewayBegins == ASSUME GatewayAssumption, GatewayInv, NEW c \in Clients, Begin(c) PROVE GatewayInv'
  <1> DEFINE m == [step |-> "reading", attempt |-> 1, prober |-> circuit.failures >= Threshold,
                   left |-> Patience, pages |-> 0, seen |-> {}, have |-> stored]
  <1>0. /\ circuit \in Circuits /\ client \in [Clients -> Clienthood] /\ stored \in 0..MaxRevision
        /\ circuit.lease = 0 /\ circuit' = Leased(c) /\ client' = [client EXCEPT ![c] = m]
        /\ UNCHANGED <<limit, coverage, stored, service, outages>>
    BY DEF GatewayInv, GatewayTypeOK, Circuits, Clienthood, Begin, Closed
  <1>1. m \in Clienthood
    BY <1>0 DEF Clienthood, GatewayAssumption
  <1>2. /\ m.step = "reading" /\ m.left = Patience /\ m.prober = (circuit.failures >= Threshold)
    OBVIOUS
  <1> HIDE DEF m
  <1>3. /\ client' \in [Clients -> Clienthood] /\ client'[c] = m
        /\ \A d \in Clients \ {c} : client'[d] = client[d]
    BY <1>0, <1>1
  <1>4. circuit' \in Circuits
    <2>1. Lease \in 0..Lease
      BY DEF GatewayAssumption
    <2>2. [circuit EXCEPT !.probe = c, !.lease = Lease] \in Circuits
      BY <1>0, <2>1 DEF Circuits
    <2> QED
      BY <1>0, <2>2 DEF Leased
  <1>5. circuit.failures >= Threshold => circuit'.probe = c /\ circuit'.lease = Lease
    BY <1>0 DEF Leased, Circuits
  <1>6. \A d \in Clients : ~client[d].prober
    BY <1>0 DEF GatewayInv, ProbesLeased, Clienthood, GatewayAssumption
  <1>7. GatewayTypeOK'
    BY <1>0, <1>3, <1>4 DEF GatewayInv, GatewayTypeOK, Circuits, Clienthood
  <1>8. ProbesLeased'
    BY <1>2, <1>3, <1>5, <1>6 DEF ProbesLeased, GatewayAssumption
  <1>9. WholeAnswers'
    BY <1>2, <1>3 DEF GatewayInv, WholeAnswers
  <1> QED
    BY <1>7, <1>8, <1>9 DEF GatewayInv

\* Another page, of the same revision; the prober holds on to its lease.
\* (github_state.Gateway)
LEMMA GatewayReads ==
    ASSUME GatewayAssumption, GatewayInv, NEW c \in Clients, NextPage(c) \/ Retry(c)
    PROVE  GatewayInv'
  <1>0. /\ circuit \in Circuits /\ client \in [Clients -> Clienthood] /\ client[c] \in Clienthood
        /\ client[c].step = "reading" /\ service.revision \in 1..MaxRevision
        /\ UNCHANGED <<limit, coverage, stored, service, outages>>
    BY DEF GatewayInv, GatewayTypeOK, Circuits, Clienthood, NextPage, Retry, Reading
  <1>1. PICK m \in Clienthood :
          /\ client' = [client EXCEPT ![c] = m] /\ m.step = "reading" /\ m.prober = client[c].prober
          /\ \/ m.left = client[c].left /\ circuit' = circuit
             \/ m.left = Patience /\ circuit' = Renewed(c)
    <2>1. CASE NextPage(c)
      <3> DEFINE m == [client[c] EXCEPT !.pages = @ + 1, !.left = Patience, !.seen = @ \cup {service.revision}]
      <3>0. /\ client[c].pages + 1 \in 0..MaxPages /\ Patience \in 0..Patience
            /\ client[c].seen \cup {service.revision} \in SUBSET (1..MaxRevision)
        BY <1>0, <2>1 DEF NextPage, Clienthood, GatewayAssumption
      <3>1. m \in Clienthood /\ m.step = "reading" /\ m.prober = client[c].prober /\ m.left = Patience
        BY <1>0, <3>0 DEF Clienthood
      <3>2. client' = [client EXCEPT ![c] = m] /\ circuit' = Renewed(c)
        BY <1>0, <2>1 DEF NextPage
      <3> HIDE DEF m
      <3> QED
        BY <3>1, <3>2
    <2>2. CASE Retry(c)
      <3> DEFINE m == [client[c] EXCEPT !.attempt = 2, !.pages = 0, !.seen = {}]
      <3>1. m \in Clienthood /\ m.step = "reading" /\ m.prober = client[c].prober /\ m.left = client[c].left
        <4>1. 2 \in 0..2 /\ 0 \in 0..MaxPages /\ {} \in SUBSET (1..MaxRevision)
          BY DEF GatewayAssumption
        <4> QED
          BY <1>0, <4>1 DEF Clienthood
      <3>2. client' = [client EXCEPT ![c] = m] /\ circuit' = circuit
        BY <1>0, <2>2 DEF Retry
      <3> HIDE DEF m
      <3> QED
        BY <3>1, <3>2
    <2> QED
      BY <2>1, <2>2
  <1>2. /\ client' \in [Clients -> Clienthood] /\ client'[c] = m
        /\ \A d \in Clients \ {c} : client'[d] = client[d]
    BY <1>0, <1>1
  <1>3. circuit' \in Circuits /\ circuit'.probe = circuit.probe
    BY <1>0, <1>1 DEF Renewed, Circuits, GatewayAssumption
  <1>4. ASSUME NEW d \in Clients, client[d].prober
        PROVE  client'[d].left < circuit'.lease
    <2>1. circuit.probe = d /\ client[d].left < circuit.lease
      BY <1>4 DEF GatewayInv, ProbesLeased
    <2>2. CASE d # c
      <3>1. circuit' = circuit
        BY <1>1, <2>1, <2>2 DEF Renewed
      <3> QED
        BY <1>2, <2>1, <2>2, <3>1
    <2>3. CASE d = c
      <3>1. Renewed(c).lease = Lease
        BY <1>0, <1>4, <2>1, <2>3 DEF Renewed, Circuits
      <3> QED
        BY <1>1, <1>2, <2>1, <2>3, <3>1 DEF GatewayAssumption
    <2> QED
      BY <2>2, <2>3
  <1>5. GatewayTypeOK'
    BY <1>0, <1>2, <1>3 DEF GatewayInv, GatewayTypeOK, Circuits, Clienthood
  <1>6. ProbesLeased'
    BY <1>1, <1>2, <1>3, <1>4 DEF GatewayInv, ProbesLeased
  <1>7. WholeAnswers'
    BY <1>1, <1>2 DEF GatewayInv, WholeAnswers
  <1> QED
    BY <1>5, <1>6, <1>7 DEF GatewayInv

\* An answer closes the circuit, and with it ends every probe.
\* (github_state.Gateway)
LEMMA GatewayAnswers ==
    ASSUME GatewayAssumption, GatewayInv, NEW c \in Clients, LastPage(c) \/ NotModified(c)
    PROVE  GatewayInv'
  <1>0. /\ client \in [Clients -> Clienthood] /\ service.revision \in 1..MaxRevision
        /\ circuit' = Recovered /\ UNCHANGED <<limit, coverage, service, outages>>
        /\ stored' \in 0..MaxRevision
    BY DEF GatewayInv, GatewayTypeOK, Clienthood, LastPage, NotModified
  <1>1. circuit' \in Circuits
    BY <1>0 DEF Recovered, Circuits, GatewayAssumption
  <1>2. client' = [NoProber EXCEPT ![c].step = "answered", ![c].seen = {service.revision}]
    <2>1. CASE LastPage(c)
      <3>1. client[c].seen \cup {service.revision} = {service.revision}
        BY <2>1 DEF LastPage, SameRevision
      <3>2. NoProber[c].seen = client[c].seen
        BY <1>0 DEF NoProber, Clienthood
      <3> QED
        BY <2>1, <3>1, <3>2 DEF LastPage
    <2>2. CASE NotModified(c)
      BY <2>2 DEF NotModified
    <2> QED
      BY <2>1, <2>2
  <1>3. ASSUME NEW d \in Clients
        PROVE  /\ NoProber[d] \in Clienthood /\ ~NoProber[d].prober
               /\ NoProber[d].step = client[d].step /\ NoProber[d].seen = client[d].seen
    BY <1>0 DEF NoProber, Clienthood
  <1>4. NoProber \in [Clients -> Clienthood]
    BY <1>3 DEF NoProber
  <1>5. ASSUME NEW d \in Clients
        PROVE  /\ client'[d] \in Clienthood /\ ~client'[d].prober
               /\ d = c => client'[d].seen = {service.revision}
               /\ d # c => client'[d].step = client[d].step /\ client'[d].seen = client[d].seen
    <2>1. CASE d # c
      BY <1>2, <1>3, <1>4, <2>1
    <2>2. CASE d = c
      BY <1>0, <1>2, <1>3, <1>4, <2>2 DEF Clienthood
    <2> QED
      BY <2>1, <2>2
  <1>6. client' \in [Clients -> Clienthood]
    BY <1>2, <1>4, <1>5
  <1>7. GatewayTypeOK'
    BY <1>0, <1>1, <1>6 DEF GatewayInv, GatewayTypeOK, Circuits, Clienthood
  <1>8. ProbesLeased' /\ WholeAnswers'
    BY <1>0, <1>5 DEF GatewayInv, ProbesLeased, WholeAnswers
  <1> QED
    BY <1>7, <1>8 DEF GatewayInv

LEMMA GatewayWorld == ASSUME GatewayAssumption, GatewayInv, ServiceTurns \/ GatewayTick PROVE GatewayInv'
  <1>0. /\ circuit \in Circuits /\ client \in [Clients -> Clienthood]
    BY DEF GatewayInv, GatewayTypeOK, Circuits, Clienthood
  <1>1. CASE ServiceTurns
    <2>1. service' \in [revision: 1..MaxRevision, mood: {"up", "down", "partial"}] /\ outages' \in 0..MaxOutages
      BY <1>1 DEF ServiceTurns, GatewayInv, GatewayTypeOK, GatewayAssumption
    <2>2. GatewayTypeOK'
      BY <1>1, <2>1 DEF ServiceTurns, GatewayInv, GatewayTypeOK
    <2> QED
      BY <1>1, <2>2 DEF ServiceTurns, GatewayInv, ProbesLeased, WholeAnswers
  <1>2. CASE GatewayTick
    <2>1. /\ circuit' \in Circuits /\ circuit'.probe = circuit.probe
          /\ circuit.lease > 0 => circuit'.lease = circuit.lease - 1
      <3>1. /\ Sooner(circuit.until) \in 0..Backoff /\ Sooner(circuit.lease) \in 0..Lease
            /\ circuit.lease > 0 => Sooner(circuit.lease) = circuit.lease - 1
        BY <1>0 DEF Circuits, Sooner, GatewayAssumption
      <3>2. circuit' = [circuit EXCEPT !.until = Sooner(circuit.until), !.lease = Sooner(circuit.lease)]
        BY <1>2 DEF GatewayTick
      <3> QED
        BY <1>0, <3>1, <3>2 DEF Circuits
    <2>2. limit' \in 0..Backoff /\ coverage' \in 0..Backoff
      <3>1. limit \in 0..Backoff /\ coverage \in 0..Backoff
        BY DEF GatewayInv, GatewayTypeOK
      <3>2. limit' = Sooner(limit) /\ coverage' = Sooner(coverage)
        BY <1>2 DEF GatewayTick
      <3> QED
        BY <3>1, <3>2 DEF Sooner, GatewayAssumption
    <2>3. ASSUME NEW c \in Clients
          PROVE  /\ client'[c] \in Clienthood /\ client'[c].prober = client[c].prober
                 /\ client'[c].step = client[c].step /\ client'[c].seen = client[c].seen
                 /\ client[c].step = "reading" => client[c].left > 0 /\ client'[c].left = client[c].left - 1
      <3>1. /\ client[c] \in Clienthood /\ Sooner(client[c].left) \in 0..Patience
            /\ client[c].left > 0 => Sooner(client[c].left) = client[c].left - 1
        BY <1>0 DEF Clienthood, Sooner, GatewayAssumption
      <3>2. /\ client'[c] = [client[c] EXCEPT !.left = Sooner(client[c].left)]
            /\ client[c].step = "reading" => client[c].left > 0
        BY <1>2 DEF GatewayTick, Reading
      <3>3. /\ client'[c].prober = client[c].prober /\ client'[c].step = client[c].step
            /\ client'[c].seen = client[c].seen /\ client'[c].left = Sooner(client[c].left)
        BY <3>1, <3>2 DEF Clienthood
      <3>4. client'[c] \in Clienthood
        BY <3>1, <3>2 DEF Clienthood
      <3> QED
        BY <3>1, <3>2, <3>3, <3>4
    <2>4. client' \in [Clients -> Clienthood]
      BY <1>2, <2>3 DEF GatewayTick
    <2>5. GatewayTypeOK'
      BY <1>2, <2>1, <2>2, <2>4 DEF GatewayTick, GatewayInv, GatewayTypeOK, Circuits, Clienthood
    <2>6. ProbesLeased'
      <3>1. \A c \in Clients : client[c].left \in Nat /\ circuit.lease \in Nat
        BY <1>0 DEF Clienthood, Circuits
      <3> QED
        BY <2>1, <2>3, <3>1 DEF GatewayInv, ProbesLeased
    <2>7. WholeAnswers'
      BY <2>3 DEF GatewayInv, WholeAnswers
    <2> QED
      BY <2>5, <2>6, <2>7 DEF GatewayInv
  <1> QED
    BY <1>1, <1>2

LEMMA GatewayGoesOn == ASSUME GatewayAssumption, GatewayInv, [GatewayNext]_gwvars PROVE GatewayInv'
  <1>1. CASE UNCHANGED gwvars
    BY <1>1 DEF gwvars, GatewayInv, GatewayTypeOK, ProbesLeased, WholeAnswers
  <1>2. CASE GatewayNext
    BY <1>2, GatewayLeaves, GatewayBegins, GatewayReads, GatewayAnswers, GatewayWorld DEF GatewayNext, Response
  <1> QED
    BY <1>1, <1>2

LEMMA GatewayInvSafe == ASSUME GatewayInv PROVE GatewaySafe
  <1>1. OneProber
    <2>1. Cardinality({c \in Clients : client[c].prober}) <= 1
      BY AtMostOne DEF GatewayInv, ProbesLeased
    <2> QED
      BY <2>1 DEF GatewayInv, ProbesLeased, OneProber
  <1>2. OneRevision
    <2>1. SUFFICES ASSUME NEW c \in Clients, client[c].step = "answered"
                   PROVE  Cardinality(client[c].seen) = 1
      BY DEF OneRevision
    <2>2. PICK revision : client[c].seen = {revision}
      BY <2>1 DEF GatewayInv, WholeAnswers
    <2> QED
      BY <2>2, FS_Singleton
  <1> QED
    BY <1>1, <1>2 DEF GatewayInv, GatewaySafe

\* One process at a time finds out whether the state service is back, and an answer
\* is of one revision of it.  (github_state.Gateway)
THEOREM GatewayIsSafe == GatewayAssumption => (GatewaySpec => []GatewaySafe)
  <1> SUFFICES ASSUME GatewayAssumption PROVE GatewaySpec => []GatewaySafe
    OBVIOUS
  <1>1. GatewayInit => GatewayInv
    BY GatewayStarts
  <1>2. GatewayInv /\ [GatewayNext]_gwvars => GatewayInv'
    BY GatewayGoesOn
  <1>3. GatewayInv => GatewaySafe
    BY GatewayInvSafe
  <1> QED
    BY <1>1, <1>2, <1>3, PTL DEF GatewaySpec
-----------------------------------------------------------------------------
(* The pace of an account. *)

InFlight(s) == sender[s].step = "flight"
Probing(s) == InFlight(s) /\ sender[s].probe

\* While a probe is under way some reservation or cooldown outlasts it, whoever else
\* is answered meanwhile.
ProbeBlocks ==
  \A s \in Senders : Probing(s) =>
    /\ secondary.until = 0 \/ sender[s].left < secondary.until
    /\ secondary.mutation_until = 0 \/ sender[s].left < secondary.mutation_until
    /\ sender[s].left < Blocked
OneProbing == \A s, t \in Senders : Probing(s) /\ Probing(t) => s = t
Patient == \A s \in Senders : InFlight(s) => sender[s].left <= Patience2

WaitStands == told.wait <= Larger(secondary.until, secondary.mutation_until)
ZeroStands == told.zero <= bucket.exhausted_until

ThrottleInv == ThrottleTypeOK /\ ProbeBlocks /\ OneProbing /\ Patient /\ WaitStands /\ ZeroStands

Secondaries == [until: 0..LongestDelay, mutation_until: 0..LongestDelay, probe_until: 0..ProbeLease,
                failures: 0..2, mutation_failures: 0..2, next_send: 0..1]
Buckets == [remaining: 0..1, reset: 0..(Window + 1), exhausted_until: 0..(Window + 1)]
LongestSleep == LongestDelay + ProbeLease + Window

LEMMA ThrottleTyped == ASSUME ThrottleTypeOK
    PROVE  /\ secondary \in Secondaries /\ bucket \in Buckets /\ sender \in [Senders -> Sends]
           /\ told \in [zero: 0..(Window + 1), wait: 0..LongestDelay]
  BY DEF ThrottleTypeOK, Secondaries, Buckets

LEMMA Ticks == ASSUME ThrottleAssumption
    PROVE  /\ LongestDelay \in Nat /\ FirstDelay <= LongestDelay /\ FirstDelay > 0 /\ ProbeLease > 0
           /\ LongestSleep \in Nat /\ LongestDelay <= LongestSleep /\ ProbeLease <= LongestSleep
           /\ Window + 1 <= LongestSleep /\ 1 <= LongestSleep /\ Patience2 <= LongestSleep
  BY DEF ThrottleAssumption, LongestDelay, LongestSleep

Secondary(u, m, p, f, g, n) == [until |-> u, mutation_until |-> m, probe_until |-> p, failures |-> f,
                                mutation_failures |-> g, next_send |-> n]

LEMMA Recorded ==
    ASSUME NEW u, NEW m, NEW p, NEW f, NEW g, NEW n
    PROVE  /\ /\ u \in 0..LongestDelay /\ m \in 0..LongestDelay /\ p \in 0..ProbeLease
              /\ f \in 0..2 /\ g \in 0..2 /\ n \in 0..1
              => Secondary(u, m, p, f, g, n) \in Secondaries
           /\ Secondary(u, m, p, f, g, n).until = u /\ Secondary(u, m, p, f, g, n).mutation_until = m
           /\ Secondary(u, m, p, f, g, n).probe_until = p
  BY DEF Secondary, Secondaries

LEMMA Fields == ASSUME secondary \in Secondaries
    PROVE  /\ secondary.until \in 0..LongestDelay /\ secondary.mutation_until \in 0..LongestDelay
           /\ secondary.probe_until \in 0..ProbeLease /\ secondary.failures \in 0..2
           /\ secondary.mutation_failures \in 0..2 /\ secondary.next_send \in 0..1
  BY DEF Secondaries

LEMMA ClearedRecord == Cleared = Secondary(0, 0, 0, 0, 0, secondary.next_send)
  BY DEF Cleared, Secondary

LEMMA ThrottleStarts == ASSUME ThrottleAssumption, ThrottleInit PROVE ThrottleInv
  <1>1. AtRest \in Sends /\ AtRest.step = "rest"
    BY Ticks DEF AtRest, NoRecord, Sends, Records, LongestSleep, ThrottleAssumption
  <1>2. sender \in [Senders -> Sends] /\ \A s \in Senders : ~InFlight(s)
    BY <1>1 DEF ThrottleInit, InFlight
  <1>3. ThrottleTypeOK
    BY <1>2, Ticks DEF ThrottleTypeOK, ThrottleInit, ThrottleAssumption
  <1>4. ProbeBlocks /\ OneProbing /\ Patient
    BY <1>2 DEF ProbeBlocks, OneProbing, Patient, Probing
  <1>5. WaitStands /\ ZeroStands
    BY DEF ThrottleInit, WaitStands, ZeroStands, Larger
  <1> QED
    BY <1>3, <1>4, <1>5 DEF ThrottleInv

\* A sender that takes no request up leaves every probe where it is.
\* (github_transport.py, before a request and after it)
LEMMA Elsewhere ==
    ASSUME ThrottleInv, NEW s \in Senders, NEW m \in Sends, m.step # "flight",
           sender' = [sender EXCEPT ![s] = m], UNCHANGED secondary,
           bucket' \in Buckets, bucket.exhausted_until <= bucket'.exhausted_until,
           budget' \in [remaining: 0..1, reset: 1..Window], rejections' \in 0..MaxRejections,
           UNCHANGED told
    PROVE  ThrottleInv'
  <1>1. sender \in [Senders -> Sends]
    BY DEF ThrottleInv, ThrottleTypeOK
  <1>2. /\ sender' \in [Senders -> Sends] /\ ~InFlight(s)'
        /\ \A t \in Senders \ {s} : sender'[t] = sender[t]
    BY <1>1 DEF InFlight
  <1>3. ThrottleTypeOK'
    BY <1>2 DEF ThrottleInv, ThrottleTypeOK, Buckets
  <1>4. \A t \in Senders : InFlight(t)' => InFlight(t) /\ sender'[t] = sender[t]
    BY <1>2 DEF InFlight
  <1>5. ProbeBlocks'
    BY <1>4 DEF ThrottleInv, ProbeBlocks, Probing, Blocked
  <1>6. OneProbing' /\ Patient'
    BY <1>4 DEF ThrottleInv, OneProbing, Patient, Probing
  <1>7. WaitStands'
    BY DEF ThrottleInv, WaitStands
  <1>8. ZeroStands'
    BY <1>3 DEF ThrottleInv, ThrottleTypeOK, ZeroStands, Buckets
  <1> QED
    BY <1>3, <1>5, <1>6, <1>7, <1>8 DEF ThrottleInv

\* Every step of a sender before its request, and its response.
LEMMA ThrottleWaits ==
    ASSUME ThrottleAssumption, ThrottleInv, NEW s \in Senders,
           Want(s) \/ Wake(s) \/ Refuse(s) \/ Cooling(s) \/ Budgeted(s) \/ SenderGone(s)
    PROVE  ThrottleInv'
  <1>0. /\ secondary \in Secondaries /\ bucket \in Buckets /\ sender[s] \in Sends /\ sender \in [Senders -> Sends]
        /\ budget \in [remaining: 0..1, reset: 1..Window] /\ rejections \in 0..MaxRejections
    BY ThrottleTyped DEF ThrottleInv, ThrottleTypeOK
  <1>1. Unmoved
    BY DEF Want, Wake, Refuse, Cooling, Budgeted, SenderGone
  <1>2. PICK m \in Sends : m.step # "flight" /\ sender' = [sender EXCEPT ![s] = m]
    <2>1. ASSUME NEW step \in {"rest", "cooling", "budget", "slot", "answered", "asleep"}, Goes(s, step)
          PROVE  \E m \in Sends : m.step # "flight" /\ sender' = [sender EXCEPT ![s] = m]
      <3> DEFINE m == [sender[s] EXCEPT !.step = step]
      <3>1. m \in Sends /\ m.step # "flight"
        BY <1>0, <2>1 DEF Sends
      <3>2. sender' = [sender EXCEPT ![s] = m]
        BY <2>1 DEF Goes
      <3> HIDE DEF m
      <3> QED
        BY <3>1, <3>2
    <2>2. ASSUME NEW ticks \in 0..LongestSleep, NEW then \in {"cooling", "budget", "slot"}, Sleeps(s, ticks, then)
          PROVE  \E m \in Sends : m.step # "flight" /\ sender' = [sender EXCEPT ![s] = m]
      <3> DEFINE m == [sender[s] EXCEPT !.step = "asleep", !.left = ticks, !.then = then]
      <3>1. m \in Sends /\ m.step # "flight"
        BY <1>0, <2>2 DEF Sends, LongestSleep
      <3>2. sender' = [sender EXCEPT ![s] = m]
        BY <2>2 DEF Sleeps
      <3> HIDE DEF m
      <3> QED
        BY <3>1, <3>2
    <2>3. AtRest \in Sends /\ AtRest.step # "flight"
      BY Ticks DEF AtRest, NoRecord, Sends, Records, LongestSleep, ThrottleAssumption
    <2>4. CASE Want(s)
      BY <2>1, <2>4 DEF Want
    <2>5. CASE Wake(s)
      <3>1. sender[s].then \in {"cooling", "budget", "slot"}
        BY <1>0 DEF Sends
      <3> QED
        BY <2>1, <2>5, <3>1 DEF Wake
    <2>6. CASE Refuse(s) \/ SenderGone(s)
      BY <2>3, <2>6 DEF Refuse, SenderGone
    <2>7. CASE Cooling(s)
      <3>1. secondary.until \in 0..LongestSleep
        BY <1>0, Ticks DEF Secondaries
      <3> QED
        BY <2>1, <2>2, <2>7, <3>1 DEF Cooling
    <2>8. CASE Budgeted(s)
      <3>1. Larger(bucket.exhausted_until, bucket.reset) \in 0..LongestSleep
        BY <1>0, Ticks DEF Buckets, Larger, ThrottleAssumption
      <3> QED
        BY <2>1, <2>2, <2>8, <3>1 DEF Budgeted
    <2> QED
      BY <2>4, <2>5, <2>6, <2>7, <2>8
  <1>3. bucket.exhausted_until <= bucket'.exhausted_until
    BY <1>0, <1>1 DEF Unmoved, Buckets
  <1> QED
    BY <1>0, <1>1, <1>2, <1>3, Elsewhere DEF Unmoved

LEMMA ThrottleReserves ==
    ASSUME ThrottleAssumption, ThrottleInv, NEW s \in Senders, Reserve(s) PROVE ThrottleInv'
  <1>0. /\ secondary \in Secondaries /\ bucket \in Buckets /\ sender[s] \in Sends /\ sender \in [Senders -> Sends]
        /\ sender[s].step = "slot" /\ UNCHANGED <<bucket, budget, rejections, told>>
    BY ThrottleTyped DEF ThrottleInv, ThrottleTypeOK, Reserve
  <1>1. Blocked \in 0..LongestSleep /\ secondary.next_send \in 0..1
    BY <1>0, Ticks DEF Secondaries, Blocked, Larger, ThrottleAssumption
  <1>2. CASE Blocked > 0 \/ secondary.next_send > 0
    <2> DEFINE m == [sender[s] EXCEPT !.step = "asleep", !.left = Larger(Blocked, secondary.next_send),
                                      !.then = "cooling"]
    <2>1. Larger(Blocked, secondary.next_send) \in 0..LongestSleep
      BY <1>1, Ticks DEF Larger
    <2>2. m \in Sends /\ m.step # "flight"
      BY <1>0, <2>1 DEF Sends, LongestSleep
    <2>3. sender' = [sender EXCEPT ![s] = m] /\ UNCHANGED secondary
      BY <1>2 DEF Reserve, Sleeps
    <2> HIDE DEF m
    <2>4. bucket.exhausted_until <= bucket'.exhausted_until
      BY <1>0 DEF Buckets
    <2>5. budget' \in [remaining: 0..1, reset: 1..Window] /\ rejections' \in 0..MaxRejections
      BY <1>0 DEF ThrottleInv, ThrottleTypeOK
    <2> QED
      BY <1>0, <2>2, <2>3, <2>4, <2>5, Elsewhere
  <1>3. CASE ~(Blocked > 0 \/ secondary.next_send > 0)
    <2> DEFINE failed == secondary.failures + secondary.mutation_failures > 0
               m == [sender[s] EXCEPT !.step = "flight", !.left = Patience2, !.probe = failed]
    <2>1. Blocked = 0 /\ secondary.until = 0 /\ secondary.mutation_until = 0 /\ secondary.probe_until = 0
      BY <1>0, <1>1, <1>3 DEF Secondaries, Blocked, Larger, ThrottleAssumption
    <2>2. \A t \in Senders : ~Probing(t)
      BY <1>0, <2>1 DEF ThrottleInv, ThrottleTypeOK, ProbeBlocks, Sends
    <2>3. failed \in BOOLEAN /\ Patience2 \in 0..LongestSleep
      BY Ticks DEF ThrottleAssumption
    <2>4. m \in Sends /\ m.step = "flight" /\ m.left = Patience2 /\ m.probe = failed
      BY <1>0, <2>3 DEF Sends, LongestSleep
    <2>5. sender' = [sender EXCEPT ![s] = m] /\ secondary' = Slot
      BY <1>3 DEF Reserve
    <2>6. /\ secondary' \in Secondaries /\ secondary'.until = 0 /\ secondary'.mutation_until = 0
          /\ failed => secondary'.probe_until = ProbeLease
      <3> DEFINE lease == IF failed THEN ProbeLease ELSE secondary.probe_until
      <3>1. lease \in 0..ProbeLease /\ (failed => lease = ProbeLease)
        BY <1>0 DEF Secondaries, ThrottleAssumption
      <3>2. secondary' = Secondary(secondary.until, secondary.mutation_until, lease,
                                   secondary.failures, secondary.mutation_failures, 1)
        BY <1>0, <2>5 DEF Slot, Secondaries, Secondary
      <3> HIDE DEF lease, failed
      <3>3. 1 \in 0..1
        OBVIOUS
      <3>4. secondary' \in Secondaries /\ secondary'.until = secondary.until
            /\ secondary'.mutation_until = secondary.mutation_until /\ secondary'.probe_until = lease
        <4> DEFINE r == Secondary(secondary.until, secondary.mutation_until, lease,
                                  secondary.failures, secondary.mutation_failures, 1)
        <4>1. /\ secondary.until \in 0..LongestDelay /\ secondary.mutation_until \in 0..LongestDelay
              /\ secondary.failures \in 0..2 /\ secondary.mutation_failures \in 0..2
          BY <1>0, Fields
        <4>2. /\ r \in Secondaries /\ r.until = secondary.until
              /\ r.mutation_until = secondary.mutation_until /\ r.probe_until = lease
          BY <3>1, <3>3, <4>1, Recorded
        <4> QED
          BY <3>2, <4>2
      <3> QED
        BY <2>1, <3>1, <3>4
    <2> HIDE DEF m, failed
    <2>7. /\ sender' \in [Senders -> Sends] /\ sender'[s] = m
          /\ \A t \in Senders \ {s} : sender'[t] = sender[t]
      BY <1>0, <2>4, <2>5
    <2>8. ThrottleTypeOK'
      BY <1>0, <2>6, <2>7 DEF ThrottleInv, ThrottleTypeOK, Secondaries
    <2>9. \A t \in Senders : Probing(t)' => t = s /\ failed
      BY <2>2, <2>4, <2>7 DEF Probing, InFlight
    <2>10. failed => Blocked' = ProbeLease
      BY <2>6, Ticks DEF Blocked, Larger, ThrottleAssumption
    <2>11. ProbeBlocks'
      BY <2>4, <2>6, <2>7, <2>9, <2>10 DEF ProbeBlocks, ThrottleAssumption
    <2>12. OneProbing'
      BY <2>9 DEF OneProbing
    <2>13. Patient'
      BY <2>4, <2>7 DEF ThrottleInv, Patient, InFlight, ThrottleAssumption
    <2>14. WaitStands' /\ ZeroStands'
      BY <1>0, <2>1, <2>6 DEF ThrottleInv, WaitStands, ZeroStands, Larger
    <2> QED
      BY <2>8, <2>11, <2>12, <2>13, <2>14 DEF ThrottleInv
  <1> QED
    BY <1>2, <1>3

LEMMA ThrottleResponds ==
    ASSUME ThrottleAssumption, ThrottleInv, NEW s \in Senders, Respond(s) PROVE ThrottleInv'
  <1>0. /\ bucket \in Buckets /\ sender[s] \in Sends /\ budget \in [remaining: 0..1, reset: 1..Window]
        /\ UNCHANGED <<secondary, bucket, told>>
    BY ThrottleTyped DEF ThrottleInv, ThrottleTypeOK, Respond
  <1>1. PICK rejected \in {"no", "all", "content"}, early \in 0..1 :
          /\ rejected # "no" => rejections < MaxRejections
          /\ rejections' = IF rejected = "no" THEN rejections ELSE rejections + 1
          /\ sender' = [sender EXCEPT ![s].step = "answered", ![s].rejected = rejected,
                          ![s].record = [remaining |-> Less(budget.remaining),
                                         reset |-> budget.reset + early]]
    BY DEF Respond
  <1> DEFINE r == [remaining |-> Less(budget.remaining), reset |-> budget.reset + early]
             m == [sender[s] EXCEPT !.step = "answered", !.rejected = rejected, !.record = r]
  <1>2. Less(budget.remaining) \in 0..1
    BY <1>0 DEF Less
  <1>3. r \in Records
    BY <1>0, <1>2 DEF Records, ThrottleAssumption
  <1>4. sender' = [sender EXCEPT ![s] = m]
    BY <1>1
  <1> HIDE DEF r
  <1>5. m \in Sends /\ m.step # "flight"
    BY <1>0, <1>3 DEF Sends
  <1> HIDE DEF m
  <1>6. budget' \in [remaining: 0..1, reset: 1..Window]
    BY <1>0, <1>2 DEF Respond
  <1>7. rejections' \in 0..MaxRejections
    BY <1>1 DEF ThrottleInv, ThrottleTypeOK, ThrottleAssumption
  <1>8. bucket.exhausted_until <= bucket'.exhausted_until
    BY <1>0 DEF Buckets
  <1> QED
    BY <1>0, <1>4, <1>5, <1>6, <1>7, <1>8, Elsewhere

\* What a rejection leaves on file blocks whoever is in flight.
\* (github_transport.py)
LEMMA RejectionBlocks ==
    ASSUME ThrottleAssumption, secondary \in Secondaries, NEW kind \in {"all", "content"}
    PROVE  /\ Rejected(kind) \in Secondaries
           /\ Rejected(kind).until \in {secondary.until} \cup FirstDelay..LongestDelay
           /\ Rejected(kind).mutation_until \in {secondary.mutation_until} \cup FirstDelay..LongestDelay
           /\ secondary.until > 0 => Rejected(kind).until = secondary.until
           /\ secondary.mutation_until > 0 => Rejected(kind).mutation_until = secondary.mutation_until
           /\ Rejected(kind).until > 0 \/ Rejected(kind).mutation_until > 0
  <1>1. ASSUME NEW until, NEW prior \in 0..2 PROVE Failures(until, prior) \in 1..2
    BY DEF Failures, Larger
  <1>2. ASSUME NEW n \in 1..2 PROVE DelayAfter(n) \in FirstDelay..LongestDelay
    BY DEF DelayAfter, LongestDelay, ThrottleAssumption
  <1>3. /\ FirstDelay \in Nat \ {0} /\ LongestDelay \in Nat /\ ProbeLease \in Nat
        /\ FirstDelay..LongestDelay \subseteq 0..LongestDelay
    BY Ticks DEF ThrottleAssumption
  <1>4. CASE kind = "all"
    <2>0. secondary.failures \in 0..2
      BY DEF Secondaries
    <2> DEFINE n == Failures(secondary.until, secondary.failures)
               u == IF secondary.until = 0 THEN DelayAfter(n) ELSE secondary.until
    <2>1. n \in 1..2
      BY <1>1, <2>0
    <2>2. DelayAfter(n) \in FirstDelay..LongestDelay
      BY <1>2, <2>1
    <2>3. Rejected(kind) =
            Secondary(u, secondary.mutation_until, 0, n, secondary.mutation_failures, secondary.next_send)
      BY <1>4 DEF Rejected, Secondaries, Secondary
    <2> HIDE DEF n
    <2>4. u \in 0..LongestDelay /\ u \in {secondary.until} \cup FirstDelay..LongestDelay /\ u > 0
      BY <1>3, <2>2 DEF Secondaries
    <2>5. secondary.until > 0 => u = secondary.until
      BY DEF Secondaries
    <2> HIDE DEF u
    <2>6. n \in 0..2 /\ 0 \in 0..ProbeLease
      BY <1>3, <2>1
    <2>7. /\ Rejected(kind) \in Secondaries /\ Rejected(kind).until = u
          /\ Rejected(kind).mutation_until = secondary.mutation_until
      <3> DEFINE r == Secondary(u, secondary.mutation_until, 0, n, secondary.mutation_failures, secondary.next_send)
      <3>1. /\ secondary.until \in 0..LongestDelay /\ secondary.mutation_until \in 0..LongestDelay
            /\ secondary.failures \in 0..2 /\ secondary.mutation_failures \in 0..2
            /\ secondary.next_send \in 0..1
        BY Fields
      <3>2. r \in Secondaries /\ r.until = u /\ r.mutation_until = secondary.mutation_until
        BY <2>4, <2>6, <3>1, Recorded
      <3> QED
        BY <2>3, <3>2
    <2> QED
      BY <2>4, <2>5, <2>7
  <1>5. CASE kind = "content"
    <2>0. secondary.mutation_failures \in 0..2
      BY DEF Secondaries
    <2> DEFINE n == Failures(secondary.mutation_until, secondary.mutation_failures)
               u == IF secondary.mutation_until = 0 THEN DelayAfter(n) ELSE secondary.mutation_until
    <2>1. n \in 1..2
      BY <1>1, <2>0
    <2>2. DelayAfter(n) \in FirstDelay..LongestDelay
      BY <1>2, <2>1
    <2>3. Rejected(kind) =
            Secondary(secondary.until, u, 0, secondary.failures, n, secondary.next_send)
      BY <1>5 DEF Rejected, Secondaries, Secondary
    <2> HIDE DEF n
    <2>4. /\ u \in 0..LongestDelay /\ u \in {secondary.mutation_until} \cup FirstDelay..LongestDelay
          /\ u > 0
      BY <1>3, <2>2 DEF Secondaries
    <2>5. secondary.mutation_until > 0 => u = secondary.mutation_until
      BY DEF Secondaries
    <2> HIDE DEF u
    <2>6. n \in 0..2 /\ 0 \in 0..ProbeLease
      BY <1>3, <2>1
    <2>7. /\ Rejected(kind) \in Secondaries /\ Rejected(kind).until = secondary.until
          /\ Rejected(kind).mutation_until = u
      <3> DEFINE r == Secondary(secondary.until, u, 0, secondary.failures, n, secondary.next_send)
      <3>1. /\ secondary.until \in 0..LongestDelay /\ secondary.mutation_until \in 0..LongestDelay
            /\ secondary.failures \in 0..2 /\ secondary.mutation_failures \in 0..2
            /\ secondary.next_send \in 0..1
        BY Fields
      <3>2. r \in Secondaries /\ r.until = secondary.until /\ r.mutation_until = u
        BY <2>4, <2>6, <3>1, Recorded
      <3> QED
        BY <2>3, <3>2
    <2> QED
      BY <2>4, <2>5, <2>7
  <1> QED
    BY <1>4, <1>5

\* A reading is remembered: the latest window's, and a zero until its reset.
\* (github_transport.py)
LEMMA ReadingKept ==
    ASSUME bucket \in Buckets, NEW record \in Records
    PROVE  /\ Remembered(record) \in Buckets
           /\ bucket.exhausted_until <= Remembered(record).exhausted_until
           /\ record.remaining = 0 => record.reset <= Remembered(record).exhausted_until
  <1> DEFINE ex == IF record.remaining = 0 THEN Larger(bucket.exhausted_until, record.reset)
                   ELSE bucket.exhausted_until
             rem == IF bucket.reset = record.reset /\ bucket.remaining < record.remaining
                    THEN bucket.remaining ELSE record.remaining
  <1>1. /\ ex \in 0..(Window + 1) /\ bucket.exhausted_until <= ex
        /\ record.remaining = 0 => record.reset <= ex
    BY DEF Buckets, Records, Larger
  <1>2. rem \in 0..1 /\ record.reset \in 0..(Window + 1)
    BY DEF Buckets, Records
  <1>3. \/ Remembered(record) = [bucket EXCEPT !.exhausted_until = ex]
        \/ Remembered(record) = [remaining |-> rem, reset |-> record.reset, exhausted_until |-> ex]
    BY DEF Remembered
  <1> HIDE DEF ex, rem
  <1> QED
    BY <1>1, <1>2, <1>3 DEF Buckets

LEMMA ThrottleDigests ==
    ASSUME ThrottleAssumption, ThrottleInv, NEW s \in Senders, Digest(s) PROVE ThrottleInv'
  <1> DEFINE sn == sender[s]
             next == IF sn.rejected # "no" THEN Rejected(sn.rejected)
                     ELSE IF MayClear THEN Cleared ELSE secondary
             wait == Larger(next.until, next.mutation_until)
             others == IF sn.rejected = "no" /\ MayClear
                       THEN [q \in Senders |-> [sender[q] EXCEPT !.probe = FALSE]] ELSE sender
             m == IF sn.rejected = "no" THEN AtRest ELSE [AtRest EXCEPT !.step = "asleep", !.left = wait]
             zero == IF sn.record.remaining = 0 THEN Larger(told.zero, sn.record.reset) ELSE told.zero
             waited == IF sn.rejected = "no" THEN told.wait ELSE Larger(told.wait, wait)
  <1>0. /\ secondary \in Secondaries /\ bucket \in Buckets /\ sender \in [Senders -> Sends]
        /\ sn \in Sends /\ sn.record \in Records
        /\ told \in [zero: 0..(Window + 1), wait: 0..LongestDelay]
    BY ThrottleTyped DEF ThrottleInv, ThrottleTypeOK, Sends
  <1>1. /\ sn.step = "answered" /\ bucket' = Remembered(sn.record) /\ secondary' = next
        /\ told' = [zero |-> zero, wait |-> waited] /\ sender' = [others EXCEPT ![s] = m]
        /\ UNCHANGED <<budget, rejections>>
    BY DEF Digest
  <1>2. /\ next \in Secondaries
        /\ next.until \in {secondary.until} \cup FirstDelay..LongestDelay
        /\ next.mutation_until \in {secondary.mutation_until} \cup FirstDelay..LongestDelay
        /\ secondary.until > 0 => next.until = secondary.until
        /\ secondary.mutation_until > 0 => next.mutation_until = secondary.mutation_until
        /\ sn.rejected # "no" => next.until > 0 \/ next.mutation_until > 0
    <2>1. CASE sn.rejected # "no"
      <3>1. sn.rejected \in {"all", "content"}
        BY <1>0, <2>1 DEF Sends
      <3> QED
        BY <1>0, <2>1, <3>1, RejectionBlocks
    <2>2. CASE sn.rejected = "no" /\ MayClear
      <3>1. 0 \in 0..LongestDelay /\ 0 \in 0..ProbeLease
        BY Ticks DEF ThrottleAssumption
      <3>2. next = Cleared
        BY <2>2
      <3>5. Cleared = Secondary(0, 0, 0, 0, 0, secondary.next_send) /\ 0 \in 0..2
        BY ClearedRecord
      <3>6. secondary.next_send \in 0..1
        BY <1>0, Fields
      <3>7. /\ Secondary(0, 0, 0, 0, 0, secondary.next_send) \in Secondaries
            /\ Secondary(0, 0, 0, 0, 0, secondary.next_send).until = 0
            /\ Secondary(0, 0, 0, 0, 0, secondary.next_send).mutation_until = 0
        BY <3>1, <3>5, <3>6, Recorded
      <3>3. secondary.until = 0 /\ secondary.mutation_until = 0
        BY <2>2 DEF MayClear
      <3> HIDE DEF next
      <3>4. next \in Secondaries /\ next.until = 0 /\ next.mutation_until = 0
        BY <3>2, <3>5, <3>7
      <3> QED
        BY <2>2, <3>3, <3>4
    <2>3. CASE sn.rejected = "no" /\ ~MayClear
      BY <1>0, <2>3
    <2> QED
      BY <2>1, <2>2, <2>3
  <1>3. /\ sn.rejected = "no" => next = IF MayClear THEN Cleared ELSE secondary
    OBVIOUS
  <1> HIDE DEF next
  <1>4. /\ wait \in 0..LongestDelay /\ told.wait <= wait
    <2>1. next.until \in 0..LongestDelay /\ next.mutation_until \in 0..LongestDelay
      BY <1>2 DEF Secondaries
    <2>2. secondary.until <= next.until /\ secondary.mutation_until <= next.mutation_until
      BY <1>0, <1>2, <2>1 DEF Secondaries
    <2> QED
      BY <1>0, <2>1, <2>2 DEF ThrottleInv, WaitStands, Larger, Secondaries
  <1>5. m \in Sends /\ m.step # "flight"
    <2>1. AtRest \in Sends /\ AtRest.step # "flight"
      BY Ticks DEF AtRest, NoRecord, Sends, Records, LongestSleep, ThrottleAssumption
    <2>2. wait \in 0..LongestSleep
      BY <1>4, Ticks
    <2> HIDE DEF wait
    <2>3. [AtRest EXCEPT !.step = "asleep", !.left = wait] \in Sends
      BY <2>1, <2>2 DEF Sends, LongestSleep
    <2>4. [AtRest EXCEPT !.step = "asleep", !.left = wait].step = "asleep"
      BY DEF AtRest
    <2> QED
      BY <2>1, <2>3, <2>4
  <1>6. waited \in 0..LongestDelay /\ waited <= wait
    BY <1>0, <1>4 DEF Larger
  <1>7. zero \in 0..(Window + 1) /\ zero <= bucket'.exhausted_until /\ bucket' \in Buckets
    <2>1. /\ Remembered(sn.record) \in Buckets
          /\ bucket.exhausted_until <= Remembered(sn.record).exhausted_until
          /\ sn.record.remaining = 0 => sn.record.reset <= Remembered(sn.record).exhausted_until
      BY <1>0, ReadingKept
    <2>2. /\ sn.record.reset \in 0..(Window + 1) /\ told.zero \in 0..(Window + 1)
          /\ bucket.exhausted_until \in 0..(Window + 1) /\ bucket'.exhausted_until \in 0..(Window + 1)
      BY <1>0, <1>1, <2>1 DEF Records, Buckets
    <2>3. told.zero <= bucket.exhausted_until
      BY DEF ThrottleInv, ZeroStands
    <2> HIDE DEF sn
    <2> QED
      BY <1>1, <2>1, <2>2, <2>3 DEF Larger
  <1>8. /\ others \in [Senders -> Sends]
        /\ \A t \in Senders : /\ others[t].step = sender[t].step /\ others[t].left = sender[t].left
                              /\ others[t].probe => sender[t].probe
        /\ sn.rejected = "no" /\ MayClear => \A t \in Senders : ~others[t].probe
    <2>1. CASE sn.rejected = "no" /\ MayClear
      <3>1. ASSUME NEW t \in Senders
            PROVE  /\ others[t] \in Sends /\ others[t].step = sender[t].step
                   /\ others[t].left = sender[t].left /\ ~others[t].probe
        <4>1. others[t] = [sender[t] EXCEPT !.probe = FALSE]
          BY <2>1
        <4>2. sender[t] \in Sends
          BY <1>0
        <4> HIDE DEF others
        <4> QED
          BY <4>1, <4>2 DEF Sends
      <3> QED
        BY <2>1, <3>1
    <2>2. CASE ~(sn.rejected = "no" /\ MayClear)
      BY <1>0, <2>2
    <2> QED
      BY <2>1, <2>2
  <1> HIDE DEF others, m, wait, waited, zero, sn
  <1>9. /\ sender' \in [Senders -> Sends] /\ sender'[s] = m
        /\ \A t \in Senders \ {s} : sender'[t] = others[t]
    BY <1>1, <1>5, <1>8
  <1>10. ThrottleTypeOK'
    BY <1>1, <1>2, <1>6, <1>7, <1>9 DEF ThrottleInv, ThrottleTypeOK, Secondaries, Buckets
  <1>11. \A t \in Senders : InFlight(t)' => InFlight(t) /\ sender'[t].left = sender[t].left
    BY <1>5, <1>8, <1>9 DEF InFlight
  <1>12. \A t \in Senders : Probing(t)' => Probing(t) /\ ~(sn.rejected = "no" /\ MayClear)
    BY <1>5, <1>8, <1>9 DEF InFlight, Probing
  <1>13. ProbeBlocks'
    <2>1. SUFFICES ASSUME NEW t \in Senders, Probing(t)'
                   PROVE  /\ next.until = 0 \/ sender[t].left < next.until
                          /\ next.mutation_until = 0 \/ sender[t].left < next.mutation_until
                          /\ sender[t].left < Larger(next.until, Larger(next.mutation_until, next.probe_until))
      BY <1>1, <1>11 DEF ProbeBlocks, Probing, Blocked
    <2>2. /\ Probing(t) /\ sender[t].left <= Patience2 /\ sender[t].left \in Nat
          /\ secondary.until = 0 \/ sender[t].left < secondary.until
          /\ secondary.mutation_until = 0 \/ sender[t].left < secondary.mutation_until
          /\ sender[t].left < Blocked
      BY <1>0, <1>12, <2>1 DEF ThrottleInv, ProbeBlocks, Patient, Probing, Sends
    <2>3. /\ next.until \in Nat /\ next.mutation_until \in Nat /\ next.probe_until \in Nat
          /\ secondary.until \in Nat /\ secondary.mutation_until \in Nat /\ secondary.probe_until \in Nat
      BY <1>0, <1>2 DEF Secondaries
    <2>4. /\ next.until = 0 \/ sender[t].left < next.until
          /\ next.mutation_until = 0 \/ sender[t].left < next.mutation_until
      BY <1>2, <2>2, <2>3, Ticks DEF ThrottleAssumption
    <2>5. CASE next.until > 0 \/ next.mutation_until > 0
      BY <2>2, <2>3, <2>4, <2>5 DEF Larger
    <2>6. CASE next.until = 0 /\ next.mutation_until = 0
      <3>1. next = secondary
        BY <1>2, <1>3, <1>12, <2>1, <2>3, <2>6
      <3> QED
        BY <2>2, <2>4, <3>1 DEF Blocked
    <2> QED
      BY <2>3, <2>5, <2>6
  <1>14. OneProbing' /\ Patient'
    BY <1>11, <1>12 DEF ThrottleInv, OneProbing, Patient
  <1>15. WaitStands'
    BY <1>1, <1>6 DEF WaitStands, wait
  <1>16. ZeroStands'
    BY <1>1, <1>7 DEF ZeroStands
  <1> QED
    BY <1>10, <1>13, <1>14, <1>15, <1>16 DEF ThrottleInv

LEMMA ThrottleTicks == ASSUME ThrottleAssumption, ThrottleInv, ThrottleTick PROVE ThrottleInv'
  <1>0. /\ secondary \in Secondaries /\ bucket \in Buckets /\ sender \in [Senders -> Sends]
        /\ budget \in [remaining: 0..1, reset: 1..Window]
        /\ told \in [zero: 0..(Window + 1), wait: 0..LongestDelay]
    BY ThrottleTyped DEF ThrottleInv, ThrottleTypeOK
  <1>1. ASSUME NEW n \in Nat, NEW k \in 0..n
        PROVE  Less(k) \in 0..n /\ (k > 0 => Less(k) = k - 1) /\ (k = 0 => Less(k) = 0)
    BY DEF Less
  <1>2. /\ secondary'.until = Less(secondary.until)
        /\ secondary'.mutation_until = Less(secondary.mutation_until)
        /\ secondary'.probe_until = Less(secondary.probe_until)
        /\ secondary' \in Secondaries
    <2>1. /\ secondary.until \in 0..LongestDelay /\ secondary.mutation_until \in 0..LongestDelay
          /\ secondary.probe_until \in 0..ProbeLease /\ secondary.next_send \in 0..1
          /\ LongestDelay \in Nat /\ ProbeLease \in Nat /\ 1 \in Nat
      BY <1>0, Ticks DEF Secondaries, ThrottleAssumption
    <2>2. /\ Less(secondary.until) \in 0..LongestDelay /\ Less(secondary.mutation_until) \in 0..LongestDelay
          /\ Less(secondary.probe_until) \in 0..ProbeLease /\ Less(secondary.next_send) \in 0..1
      BY <1>1, <2>1
    <2>3. secondary' = [secondary EXCEPT !.until = Less(secondary.until),
                          !.mutation_until = Less(secondary.mutation_until),
                          !.probe_until = Less(secondary.probe_until), !.next_send = Less(secondary.next_send)]
      BY DEF ThrottleTick
    <2> QED
      BY <1>0, <2>2, <2>3 DEF Secondaries
  <1>3. bucket' \in Buckets /\ bucket'.exhausted_until = Less(bucket.exhausted_until)
    <2>0. bucket.reset \in 0..(Window + 1) /\ bucket.exhausted_until \in 0..(Window + 1) /\ Window + 1 \in Nat
      BY <1>0 DEF Buckets, ThrottleAssumption
    <2>1. Less(bucket.reset) \in 0..(Window + 1) /\ Less(bucket.exhausted_until) \in 0..(Window + 1)
      BY <1>1, <2>0
    <2>2. bucket' = [remaining |-> bucket.remaining, reset |-> Less(bucket.reset),
                     exhausted_until |-> Less(bucket.exhausted_until)]
      BY <1>0 DEF ThrottleTick, Buckets
    <2>3. bucket.remaining \in 0..1
      BY <1>0 DEF Buckets
    <2>4. bucket'.exhausted_until = Less(bucket.exhausted_until)
      BY <2>2
    <2>5. bucket' \in Buckets
      BY <2>1, <2>2, <2>3 DEF Buckets
    <2> QED
      BY <2>4, <2>5
  <1>4. budget' \in [remaining: 0..1, reset: 1..Window]
    <2>1. /\ budget.remaining \in 0..1 /\ budget.reset \in 1..Window
          /\ Window \in Nat /\ Window > 0
      BY <1>0 DEF ThrottleAssumption
    <2>2. CASE budget.reset = 1
      <3>1. budget' = [remaining |-> 1, reset |-> Window]
        BY <2>2 DEF ThrottleTick
      <3> QED
        BY <2>1, <3>1
    <2>3. CASE budget.reset # 1
      <3>1. budget' = [budget EXCEPT !.reset = budget.reset - 1]
        BY <2>3 DEF ThrottleTick
      <3>2. budget.reset - 1 \in 1..Window
        BY <2>1, <2>3
      <3> QED
        BY <1>0, <3>1, <3>2
    <2> QED
      BY <2>2, <2>3
  <1>5. told' = [zero |-> Less(told.zero), wait |-> Less(told.wait)]
    BY DEF ThrottleTick
  <1>6. ASSUME NEW s \in Senders
        PROVE  /\ sender'[s] \in Sends /\ sender'[s].step = sender[s].step
               /\ sender'[s].probe = sender[s].probe /\ sender'[s].left = Less(sender[s].left)
    <2>1. /\ sender[s] \in Sends /\ sender[s].left \in 0..LongestSleep /\ LongestSleep \in Nat
          /\ sender[s].record \in Records
      BY <1>0, Ticks DEF Sends, LongestSleep
    <2>2. Less(sender[s].left) \in 0..LongestSleep
      BY <1>1, <2>1
    <2> DEFINE r == [remaining |-> sender[s].record.remaining, reset |-> Less(sender[s].record.reset)]
    <2>3. r \in Records
      <3>1. sender[s].record.remaining \in 0..1 /\ sender[s].record.reset \in 0..(Window + 1) /\ Window + 1 \in Nat
        BY <2>1 DEF Records, ThrottleAssumption
      <3>2. Less(sender[s].record.reset) \in 0..(Window + 1)
        BY <1>1, <3>1
      <3> QED
        BY <3>1, <3>2 DEF Records
    <2>4. sender'[s] = [sender[s] EXCEPT !.left = Less(sender[s].left), !.record = r]
      BY DEF ThrottleTick
    <2> HIDE DEF r
    <2> QED
      BY <2>1, <2>2, <2>3, <2>4 DEF Sends, LongestSleep
  <1>7. sender' \in [Senders -> Sends]
    BY <1>6 DEF ThrottleTick
  <1>8. ThrottleTypeOK'
    <2>1. told' \in [zero: 0..(Window + 1), wait: 0..LongestDelay]
      BY <1>0, <1>1, <1>5, Ticks DEF ThrottleAssumption
    <2> QED
      BY <1>2, <1>3, <1>4, <1>7, <2>1 DEF ThrottleTick, ThrottleInv, ThrottleTypeOK, Secondaries, Buckets
  <1>9. \A s \in Senders : InFlight(s)' => InFlight(s) /\ sender[s].left \in Nat /\ sender[s].left > 0
                                            /\ sender'[s].left = sender[s].left - 1
    <2>1. SUFFICES ASSUME NEW s \in Senders, InFlight(s)'
                   PROVE  InFlight(s) /\ sender[s].left \in Nat /\ sender[s].left > 0
                          /\ sender'[s].left = sender[s].left - 1
      OBVIOUS
    <2>2. InFlight(s) /\ sender[s].left \in 0..LongestSleep /\ LongestSleep \in Nat
      BY <1>0, <1>6, <2>1, Ticks DEF InFlight, Sends, LongestSleep
    <2>3. sender[s].left > 0
      BY <2>2 DEF ThrottleTick, InFlight
    <2> QED
      BY <1>1, <1>6, <2>2, <2>3
  <1>10. ProbeBlocks'
    <2>1. SUFFICES ASSUME NEW s \in Senders, Probing(s)'
                   PROVE  /\ secondary'.until = 0 \/ sender'[s].left < secondary'.until
                          /\ secondary'.mutation_until = 0 \/ sender'[s].left < secondary'.mutation_until
                          /\ sender'[s].left < Blocked'
      BY DEF ProbeBlocks
    <2>2. /\ sender[s].left \in Nat /\ sender[s].left > 0 /\ sender'[s].left = sender[s].left - 1
          /\ secondary.until = 0 \/ sender[s].left < secondary.until
          /\ secondary.mutation_until = 0 \/ sender[s].left < secondary.mutation_until
          /\ sender[s].left < Blocked
      BY <1>6, <1>9, <2>1 DEF ThrottleInv, ProbeBlocks, Probing
    <2>3. secondary.until \in Nat /\ secondary.mutation_until \in Nat /\ secondary.probe_until \in Nat
      BY <1>0 DEF Secondaries
    <2> QED
      BY <1>2, <2>2, <2>3 DEF Less, Blocked, Larger
  <1>11. OneProbing' /\ Patient'
    <2>1. OneProbing'
      BY <1>6, <1>9 DEF ThrottleInv, OneProbing, Probing
    <2>2. Patient'
      BY <1>9 DEF ThrottleInv, Patient, ThrottleAssumption
    <2> QED
      BY <2>1, <2>2
  <1>12. WaitStands'
    <2>1. told.wait \in Nat /\ secondary.until \in Nat /\ secondary.mutation_until \in Nat
      BY <1>0 DEF Secondaries
    <2>2. told.wait <= Larger(secondary.until, secondary.mutation_until)
      BY DEF ThrottleInv, WaitStands
    <2>3. told'.wait = Less(told.wait)
      BY <1>5
    <2> QED
      BY <1>2, <2>1, <2>2, <2>3 DEF WaitStands, Less, Larger
  <1>13. ZeroStands'
    <2>1. told.zero \in Nat /\ bucket.exhausted_until \in Nat
      BY <1>0 DEF Buckets
    <2>2. told.zero <= bucket.exhausted_until /\ told'.zero = Less(told.zero)
      BY <1>5 DEF ThrottleInv, ZeroStands
    <2> QED
      BY <1>3, <2>1, <2>2 DEF ZeroStands, Less
  <1> QED
    BY <1>8, <1>10, <1>11, <1>12, <1>13 DEF ThrottleInv

LEMMA ThrottleGoesOn == ASSUME ThrottleAssumption, ThrottleInv, [ThrottleNext]_thvars PROVE ThrottleInv'
  <1>1. CASE UNCHANGED thvars
    BY <1>1 DEF thvars, ThrottleInv, ThrottleTypeOK, ProbeBlocks, OneProbing, Patient, Probing, InFlight,
                WaitStands, ZeroStands, Blocked
  <1>2. CASE ThrottleNext
    BY <1>2, ThrottleWaits, ThrottleReserves, ThrottleResponds, ThrottleDigests, ThrottleTicks DEF ThrottleNext
  <1> QED
    BY <1>1, <1>2

LEMMA ThrottleInvSafe == ASSUME ThrottleAssumption, ThrottleInv PROVE ThrottleSafe
  <1>0. /\ secondary \in Secondaries /\ bucket \in Buckets
        /\ told \in [zero: 0..(Window + 1), wait: 0..LongestDelay]
    BY ThrottleTyped DEF ThrottleInv
  <1>1. OneRecoveryProbe
    <2>1. Cardinality({s \in Senders : Probing(s)}) <= 1
      BY AtMostOne DEF ThrottleInv, OneProbing
    <2> QED
      BY <2>1 DEF OneRecoveryProbe, Probing, InFlight
  <1>2. RejectionStands
    BY <1>0 DEF ThrottleInv, WaitStands, RejectionStands, Blocked, Larger, Secondaries
  <1>3. ExhaustionStands
    BY <1>0 DEF ThrottleInv, ZeroStands, ExhaustionStands, Observed, Buckets
  <1> QED
    BY <1>1, <1>2, <1>3 DEF ThrottleInv, ThrottleSafe

\* After a rejection one request finds out whether GitHub takes content again, and what
\* one process was told to wait every process waits.  (github_transport.py)
THEOREM ThrottleIsSafe == ThrottleAssumption => (ThrottleSpec => []ThrottleSafe)
  <1> SUFFICES ASSUME ThrottleAssumption PROVE ThrottleSpec => []ThrottleSafe
    OBVIOUS
  <1>1. ThrottleInit => ThrottleInv
    BY ThrottleStarts
  <1>2. ThrottleInv /\ [ThrottleNext]_thvars => ThrottleInv'
    BY ThrottleGoesOn
  <1>3. ThrottleInv => ThrottleSafe
    BY ThrottleInvSafe
  <1> HIDE DEF ThrottleInv
  <1> QED
    BY <1>1, <1>2, <1>3, PTL DEF ThrottleSpec

-----------------------------------------------------------------------------
(* The read cache. *)

\* The files whose identifiers make a generation, and a record made under one.
Full(k, epoch) == Len(epoch) = Len(KeyParts(k))
Superseded(num, k, epoch) == \E i \in 1..Len(epoch) : epoch[i] < num[KeyParts(k)[i]]

\* One of the files that are yet to be replaced is of the key's generation.
Due(left, k) == \E i \in 1..Len(left), j \in 1..Len(KeyParts(k)) : left[i] = KeyParts(k)[j]

\* What was fetched under a generation and lacks a write that was acknowledged, or is
\* about to be, is of an earlier generation, or will be.
Dated(num, ack, wr, k, epoch, value) ==
  /\ Full(k, epoch)
  /\ \A i \in 1..Len(epoch) : epoch[i] <= num[KeyParts(k)[i]]
  /\ value < ack[k] => Superseded(num, k, epoch)
  /\ \A w \in Writers :
       wr[w].step = "after" /\ k \in Changes(wr[w].command) /\ value < wr[w].reached[k] =>
         Superseded(num, k, epoch) \/ Due(wr[w].left, k)

EntriesDated == \A k \in Keys : entry[k].epoch # <<>> =>
                  Dated(number, acked, writer, k, entry[k].epoch, entry[k].value)

OneReader ==
  /\ \A r \in Readers : reader[r].lock <=> reader[r].step \in {"epoch", "look", "fetch", "check", "store"}
  /\ \A r, s \in Readers : reader[r].lock /\ reader[s].lock /\ reader[r].key = reader[s].key => r = s

\* A reader's generation is made of what the files held, one by one; what it has
\* fetched is no older than what it was promised.
Promised(rd) == rd.step # "idle" => rd.floor <= acked[rd.key]
Assembled(rd) ==
  /\ rd.step = "epoch" => Len(rd.epoch) < Len(KeyParts(rd.key))
  /\ rd.step \in {"look", "fetch"} => Full(rd.key, rd.epoch)
  /\ rd.step \in {"epoch", "look", "fetch"} =>
       \A i \in 1..Len(rd.epoch) : rd.epoch[i] <= number[KeyParts(rd.key)[i]]
Fetched(rd) == rd.step \in {"check", "store"} =>
  Dated(number, acked, writer, rd.key, rd.epoch, rd.value) /\ rd.floor <= rd.value

\* The generation a reader will look with, if no file is replaced from now on.
ToLook(rd, i) == IF i <= Len(rd.epoch) THEN rd.epoch[i] ELSE number[KeyParts(rd.key)[i]]

\* An entry older than what the reader was promised is of another generation than
\* the one it looks with.
NotStale(rd) ==
  rd.step \in {"epoch", "look"} /\ entry[rd.key].epoch # <<>> /\ entry[rd.key].value < rd.floor =>
    \E i \in 1..Len(KeyParts(rd.key)) : entry[rd.key].epoch[i] < ToLook(rd, i)

ReadersDated == \A r \in Readers : /\ Promised(reader[r]) /\ Assembled(reader[r])
                                   /\ Fetched(reader[r]) /\ NotStale(reader[r])

Reached == \A k \in Keys : acked[k] <= holds[k] /\ \A w \in Writers : writer[w].reached[k] <= holds[k]

CacheInv == /\ CacheTypeOK /\ EntriesDated /\ OneReader /\ ReadersDated /\ Reached /\ ReadsAfterWrites

LEMMA PartsOfKeys ==
    ASSUME NEW k \in Keys
    PROVE  /\ Len(KeyParts(k)) \in Nat \ {0}
           /\ \A i \in 1..Len(KeyParts(k)) : KeyParts(k)[i] \in Parts
  <1>1. CASE k = "issue_comments"
    BY <1>1 DEF KeyParts, Parts
  <1>2. CASE k = "open_prs"
    BY <1>2 DEF KeyParts, Parts
  <1>3. CASE k = "overlap_issues"
    BY <1>3 DEF KeyParts, Parts
  <1> QED
    BY <1>1, <1>2, <1>3 DEF Keys

\* A command replaces a file of the generation of every key that it changes.
\* (github_transport.py)
LEMMA ScopesReach ==
    ASSUME NEW command \in Commands
    PROVE  /\ Scopes(command) \in Seq(Parts)
           /\ \A k \in Changes(command) : k \in Keys /\ Due(Scopes(command), k)
  <1>1. CASE command = "edit"
    <2>1. Scopes(command) = <<"item", "inventory">> /\ Changes(command) = {"open_prs"}
      BY <1>1 DEF Scopes, Changes
    <2>2. KeyParts("open_prs") = <<"generation", "repo", "inventory">>
      BY DEF KeyParts
    <2>3. Due(Scopes(command), "open_prs")
      <3>1. Scopes(command)[2] = KeyParts("open_prs")[3] /\ 2 \in 1..Len(Scopes(command)) /\ 3 \in 1..Len(KeyParts("open_prs"))
        BY <2>1, <2>2
      <3> QED
        BY <3>1 DEF Due
    <2> QED
      BY <2>1, <2>3 DEF Parts, Keys
  <1>2. CASE command = "comment"
    <2>1. Scopes(command) = <<"item">> /\ Changes(command) = {"issue_comments"}
      BY <1>2 DEF Scopes, Changes
    <2>2. KeyParts("issue_comments") = <<"generation", "repo", "comments", "item">>
      BY DEF KeyParts
    <2>3. Due(Scopes(command), "issue_comments")
      <3>1. Scopes(command)[1] = KeyParts("issue_comments")[4] /\ 1 \in 1..Len(Scopes(command)) /\ 4 \in 1..Len(KeyParts("issue_comments"))
        BY <2>1, <2>2
      <3> QED
        BY <3>1 DEF Due
    <2> QED
      BY <2>1, <2>3 DEF Parts, Keys
  <1>3. CASE command = "reword"
    <2>1. Scopes(command) = <<"comments">> /\ Changes(command) = {"issue_comments"}
      BY <1>3 DEF Scopes, Changes
    <2>2. KeyParts("issue_comments") = <<"generation", "repo", "comments", "item">>
      BY DEF KeyParts
    <2>3. Due(Scopes(command), "issue_comments")
      <3>1. Scopes(command)[1] = KeyParts("issue_comments")[3] /\ 1 \in 1..Len(Scopes(command)) /\ 3 \in 1..Len(KeyParts("issue_comments"))
        BY <2>1, <2>2
      <3> QED
        BY <3>1 DEF Due
    <2> QED
      BY <2>1, <2>3 DEF Parts, Keys
  <1>4. CASE command = "labels"
    <2>1. Scopes(command) = <<"repo">> /\ Changes(command) = {"open_prs"}
      BY <1>4 DEF Scopes, Changes
    <2>2. KeyParts("open_prs") = <<"generation", "repo", "inventory">>
      BY DEF KeyParts
    <2>3. Due(Scopes(command), "open_prs")
      <3>1. Scopes(command)[1] = KeyParts("open_prs")[2] /\ 1 \in 1..Len(Scopes(command)) /\ 2 \in 1..Len(KeyParts("open_prs"))
        BY <2>1, <2>2
      <3> QED
        BY <3>1 DEF Due
    <2> QED
      BY <2>1, <2>3 DEF Parts, Keys
  <1>5. CASE command = "advance"
    <2>1. Scopes(command) = <<"generation">> /\ Changes(command) = {"overlap_issues"}
      BY <1>5 DEF Scopes, Changes
    <2>2. KeyParts("overlap_issues") = <<"generation">>
      BY DEF KeyParts
    <2>3. Due(Scopes(command), "overlap_issues")
      <3>1. Scopes(command)[1] = KeyParts("overlap_issues")[1] /\ 1 \in 1..Len(Scopes(command)) /\ 1 \in 1..Len(KeyParts("overlap_issues"))
        BY <2>1, <2>2
      <3> QED
        BY <3>1 DEF Due
    <2> QED
      BY <2>1, <2>3 DEF Parts, Keys
  <1> QED
    BY <1>1, <1>2, <1>3, <1>4, <1>5 DEF Commands

LEMMA CacheStarts == ASSUME CacheInit PROVE CacheInv
  <1>1. Idling \in Reads /\ Idling.step = "idle" /\ ~Idling.lock
    BY DEF Idling, Reads, Keys
  <1>2. Unasked \in Writes /\ \A k \in Keys : Unasked.reached[k] = 0
    BY DEF Unasked, Writes, Commands
  <1>3. NoEntry \in [epoch: Seq(Nat), value: Nat] /\ NoEntry.epoch = <<>>
    BY DEF NoEntry
  <1>4. CacheTypeOK
    BY <1>1, <1>2, <1>3 DEF CacheInit, CacheTypeOK
  <1>5. EntriesDated
    BY <1>3 DEF CacheInit, EntriesDated
  <1>6. OneReader /\ ReadersDated /\ ReadsAfterWrites
    BY <1>1 DEF CacheInit, OneReader, ReadersDated, ReadsAfterWrites, Promised, Assembled, Fetched, NotStale
  <1>7. Reached
    BY <1>2 DEF CacheInit, Reached
  <1> QED
    BY <1>4, <1>5, <1>6, <1>7 DEF CacheInv

\* What a writer does to the files: no identifier, and no acknowledgement, is taken back.
Advances(w) == BeginWrite(w) \/ Invalidate(w) \/ Send(w) \/ TakesEffect(w) \/ Answered(w)
               \/ Acknowledge(w) \/ WriterGone(w)

LEMMA WritesAdvance ==
    ASSUME CacheInv, NEW w \in Writers, Advances(w)
    PROVE  /\ \E m \in Writes : /\ writer' = [writer EXCEPT ![w] = m]
                                /\ \A k \in Keys : m.reached[k] <= holds'[k]
           /\ holds' \in [Keys -> Nat] /\ \A k \in Keys : holds[k] <= holds'[k]
           /\ acked' \in [Keys -> Nat] /\ \A k \in Keys : acked[k] <= acked'[k] /\ acked'[k] <= holds'[k]
           /\ number' \in [Parts -> Nat] /\ \A q \in Parts : number[q] <= number'[q]
           /\ UNCHANGED <<entry, reader>>
  <1>0. /\ writer \in [Writers -> Writes] /\ writer[w] \in Writes /\ holds \in [Keys -> Nat]
        /\ acked \in [Keys -> Nat] /\ number \in [Parts -> Nat]
        /\ \A k \in Keys : acked[k] <= holds[k] /\ writer[w].reached[k] <= holds[k]
    BY DEF CacheInv, CacheTypeOK, Reached
  <1>1. /\ \A k \in Keys : holds[k] \in Nat /\ acked[k] \in Nat /\ writer[w].reached[k] \in Nat
        /\ \A q \in Parts : number[q] \in Nat
    BY <1>0 DEF Writes
  <1>8. /\ \A k \in Keys : holds[k] <= holds[k] /\ acked[k] <= acked[k]
        /\ \A q \in Parts : number[q] <= number[q]
    BY <1>1
  <1>9. ASSUME NEW m \in Writes, writer' = [writer EXCEPT ![w] = m], m.reached = writer[w].reached,
               UNCHANGED holds
        PROVE  \E o \in Writes : /\ writer' = [writer EXCEPT ![w] = o]
                                 /\ \A k \in Keys : o.reached[k] <= holds'[k]
    BY <1>0, <1>9
  <1>2. CASE BeginWrite(w)
    <2>1. PICK command \in Commands :
            writer' = [writer EXCEPT ![w].step = "before", ![w].command = command, ![w].left = Scopes(command)]
      BY <1>2 DEF BeginWrite
    <2> DEFINE m == [writer[w] EXCEPT !.step = "before", !.command = command, !.left = Scopes(command)]
    <2>2. writer' = [writer EXCEPT ![w] = m]
      BY <2>1
    <2>3. Scopes(command) \in Seq(Parts)
      BY ScopesReach
    <2>4. m \in Writes /\ m.reached = writer[w].reached
      BY <1>0, <2>3 DEF Writes
    <2> HIDE DEF m
    <2>5. UNCHANGED <<holds, number, acked, entry, reader>>
      BY <1>2 DEF BeginWrite
    <2> QED
      BY <1>0, <1>8, <1>9, <2>2, <2>4, <2>5
  <1>3. CASE Invalidate(w)
    <2> DEFINE m == [writer[w] EXCEPT !.left = Tail(writer[w].left)]
    <2>1. writer' = [writer EXCEPT ![w] = m] /\ UNCHANGED <<holds, acked, entry, reader>>
      BY <1>3 DEF Invalidate
    <2>2. writer[w].left \in Seq(Parts) /\ writer[w].left # <<>>
      BY <1>0, <1>3 DEF Invalidate, Writes
    <2>3. Tail(writer[w].left) \in Seq(Parts) /\ Head(writer[w].left) \in Parts
      BY <2>2
    <2>4. m \in Writes /\ m.reached = writer[w].reached
      BY <1>0, <2>3 DEF Writes
    <2> HIDE DEF m
    <2>5. number' = [number EXCEPT ![Head(writer[w].left)] = @ + 1]
      BY <1>3 DEF Invalidate
    <2>6. number' \in [Parts -> Nat] /\ \A q \in Parts : number[q] <= number'[q]
      BY <1>0, <1>1, <2>3, <2>5
    <2> QED
      BY <1>0, <1>8, <1>9, <2>1, <2>4, <2>6
  <1>4. CASE TakesEffect(w)
    <2> DEFINE m == [writer[w] EXCEPT !.effect = TRUE, !.reached = holds']
    <2>1. writer' = [writer EXCEPT ![w] = m] /\ UNCHANGED <<number, acked, entry, reader>>
      BY <1>4 DEF TakesEffect
    <2>2. holds' = [k \in Keys |-> IF k \in Changes(writer[w].command) THEN holds[k] + 1 ELSE holds[k]]
      BY <1>4 DEF TakesEffect
    <2>3. holds' \in [Keys -> Nat] /\ \A k \in Keys : holds[k] <= holds'[k]
      BY <1>1, <2>2
    <2>4. m \in Writes /\ m.reached = holds'
      BY <1>0, <2>3 DEF Writes
    <2> HIDE DEF m
    <2>5. \A k \in Keys : holds'[k] \in Nat /\ m.reached[k] <= holds'[k]
      BY <2>3, <2>4
    <2>6. \E o \in Writes : /\ writer' = [writer EXCEPT ![w] = o]
                            /\ \A k \in Keys : o.reached[k] <= holds'[k]
      BY <2>1, <2>4, <2>5
    <2>7. acked' \in [Keys -> Nat] /\ \A k \in Keys : acked[k] <= acked'[k] /\ acked'[k] <= holds'[k]
      BY <1>0, <1>1, <2>1, <2>3, <2>5
    <2> QED
      BY <1>0, <1>8, <2>1, <2>3, <2>6, <2>7
  <1>5. CASE Send(w) \/ WriterGone(w)
    <2>1. PICK m \in Writes : writer' = [writer EXCEPT ![w] = m] /\ m.reached = writer[w].reached
      <3>1. CASE Send(w)
        <4> DEFINE m == [writer[w] EXCEPT !.step = "send"]
        <4>1. writer' = [writer EXCEPT ![w] = m]
          BY <3>1 DEF Send
        <4>2. m \in Writes /\ m.reached = writer[w].reached
          BY <1>0 DEF Writes
        <4> HIDE DEF m
        <4> QED
          BY <4>1, <4>2
      <3>2. CASE WriterGone(w)
        <4> DEFINE effect == writer[w].effect \/ writer[w].step = "before"
                   m == [writer[w] EXCEPT !.step = "gone", !.left = <<>>, !.effect = effect]
        <4>1. writer' = [writer EXCEPT ![w] = m]
          BY <3>2 DEF WriterGone
        <4>2. effect \in BOOLEAN /\ <<>> \in Seq(Parts)
          OBVIOUS
        <4> HIDE DEF effect
        <4>3. m \in Writes /\ m.reached = writer[w].reached
          BY <1>0, <4>2 DEF Writes
        <4> HIDE DEF m
        <4> QED
          BY <4>1, <4>3
      <3> QED
        BY <1>5, <3>1, <3>2
    <2>2. UNCHANGED <<holds, number, acked, entry, reader>>
      BY <1>5 DEF Send, WriterGone
    <2> QED
      BY <1>0, <1>8, <1>9, <2>1, <2>2
  <1>6. CASE Answered(w)
    <2> DEFINE m == [writer[w] EXCEPT !.step = "after", !.left = Scopes(writer[w].command)]
    <2>1. writer' = [writer EXCEPT ![w] = m] /\ UNCHANGED <<holds, number, acked, entry, reader>>
      BY <1>6 DEF Answered, Again
    <2>2. Scopes(writer[w].command) \in Seq(Parts)
      BY <1>0, ScopesReach DEF Writes
    <2>3. m \in Writes /\ m.reached = writer[w].reached
      BY <1>0, <2>2 DEF Writes
    <2> HIDE DEF m
    <2> QED
      BY <1>0, <1>8, <1>9, <2>1, <2>3
  <1>7. CASE Acknowledge(w)
    <2> DEFINE m == [writer[w] EXCEPT !.step = "done"]
    <2>1. writer' = [writer EXCEPT ![w] = m] /\ UNCHANGED <<holds, number, entry, reader>>
      BY <1>7 DEF Acknowledge
    <2>2. m \in Writes /\ m.reached = writer[w].reached
      BY <1>0 DEF Writes
    <2> HIDE DEF m
    <2>3. acked' = [k \in Keys |-> IF k \in Changes(writer[w].command) /\ acked[k] < writer[w].reached[k]
                                   THEN writer[w].reached[k] ELSE acked[k]]
      BY <1>7 DEF Acknowledge
    <2>4. acked' \in [Keys -> Nat] /\ \A k \in Keys : acked[k] <= acked'[k] /\ acked'[k] <= holds[k]
      BY <1>0, <1>1, <2>3
    <2> QED
      BY <1>0, <1>8, <1>9, <2>1, <2>2, <2>4
  <1> QED
    BY <1>2, <1>3, <1>4, <1>5, <1>6, <1>7 DEF Advances

\* What is known of a record stays so, whatever a writer does.
\* (github_transport.py)
LEMMA RecordsStayDated ==
    ASSUME CacheInv, NEW w \in Writers, Advances(w), NEW k \in Keys, NEW epoch \in Seq(Nat), NEW value \in Nat,
           Dated(number, acked, writer, k, epoch, value)
    PROVE  Dated(number', acked', writer', k, epoch, value)
  <1>0. /\ writer \in [Writers -> Writes] /\ writer[w] \in Writes
        /\ acked \in [Keys -> Nat] /\ number \in [Parts -> Nat] /\ acked' \in [Keys -> Nat]
        /\ number' \in [Parts -> Nat] /\ \A q \in Parts : number[q] <= number'[q]
    BY WritesAdvance DEF CacheInv, CacheTypeOK
  <1>1. \A v \in Writers \ {w} : writer'[v] = writer[v]
    BY <1>0, WritesAdvance
  <1>2. /\ Len(epoch) \in Nat /\ Len(epoch) = Len(KeyParts(k))
        /\ \A i \in 1..Len(epoch) : epoch[i] \in Nat /\ KeyParts(k)[i] \in Parts
    BY PartsOfKeys DEF Dated, Full
  <1>3. \A i \in 1..Len(epoch) : /\ number[KeyParts(k)[i]] \in Nat /\ number'[KeyParts(k)[i]] \in Nat
                                 /\ number[KeyParts(k)[i]] <= number'[KeyParts(k)[i]]
    BY <1>0, <1>2
  <1>4. Superseded(number, k, epoch) => Superseded(number', k, epoch)
    <2>1. SUFFICES ASSUME Superseded(number, k, epoch) PROVE Superseded(number', k, epoch)
      OBVIOUS
    <2>2. PICK i \in 1..Len(epoch) : epoch[i] < number[KeyParts(k)[i]]
      BY <2>1 DEF Superseded
    <2>3. epoch[i] < number'[KeyParts(k)[i]]
      BY <1>2, <1>3, <2>2
    <2> QED
      BY <2>3 DEF Superseded
  <1>5. \A i \in 1..Len(epoch) : epoch[i] <= number'[KeyParts(k)[i]]
    BY <1>2, <1>3 DEF Dated
  <1>6. value < acked'[k] => Superseded(number', k, epoch)
    <2>1. CASE Acknowledge(w)
      <3>1. /\ acked'[k] = IF k \in Changes(writer[w].command) /\ acked[k] < writer[w].reached[k]
                           THEN writer[w].reached[k] ELSE acked[k]
            /\ writer[w].step = "after" /\ writer[w].left = <<>>
        BY <1>0, <2>1 DEF Acknowledge
      <3>2. ~Due(writer[w].left, k)
        BY <3>1 DEF Due
      <3> QED
        BY <1>4, <3>1, <3>2 DEF Dated
    <2>2. CASE ~Acknowledge(w)
      <3>1. acked' = acked
        BY <2>2 DEF Advances, BeginWrite, Invalidate, Send, TakesEffect, Answered, WriterGone
      <3> QED
        BY <1>4, <3>1 DEF Dated
    <2> QED
      BY <2>1, <2>2
  <1>7. ASSUME NEW v \in Writers, writer'[v].step = "after", k \in Changes(writer'[v].command),
               value < writer'[v].reached[k]
        PROVE  Superseded(number', k, epoch) \/ Due(writer'[v].left, k)
    <2>1. CASE v # w
      BY <1>1, <1>4, <1>7, <2>1 DEF Dated
    <2>2. CASE v = w /\ Invalidate(w)
      <3>1. writer'[w] = [writer[w] EXCEPT !.left = Tail(writer[w].left)]
        BY <1>0, <2>2 DEF Invalidate
      <3>2. /\ writer'[w].step = writer[w].step /\ writer'[w].command = writer[w].command
            /\ writer'[w].reached = writer[w].reached /\ writer'[w].left = Tail(writer[w].left)
            /\ writer[w].left \in Seq(Parts) /\ writer[w].left # <<>>
        BY <1>0, <2>2, <3>1 DEF Invalidate, Writes
      <3>3. Superseded(number, k, epoch) \/ Due(writer[w].left, k)
        BY <1>7, <2>2, <3>2 DEF Dated
      <3>4. CASE Due(writer[w].left, k)
        <4>1. PICK i \in 1..Len(writer[w].left), j \in 1..Len(KeyParts(k)) : writer[w].left[i] = KeyParts(k)[j]
          BY <3>4 DEF Due
        <4>2. CASE i = 1
          <5>1. Head(writer[w].left) = KeyParts(k)[j]
            BY <3>2, <4>1, <4>2
          <5>2. number' = [number EXCEPT ![Head(writer[w].left)] = @ + 1]
            BY <2>2 DEF Invalidate
          <5>3. number'[KeyParts(k)[j]] = number[KeyParts(k)[j]] + 1
            BY <1>0, <1>2, <4>1, <5>1, <5>2
          <5>4. epoch[j] < number'[KeyParts(k)[j]]
            BY <1>2, <1>3, <4>1, <5>3 DEF Dated
          <5> QED
            BY <1>2, <4>1, <5>4 DEF Superseded
        <4>3. CASE i # 1
          <5> DEFINE s == writer[w].left
          <5>1. s \in Seq(Parts) /\ s # <<>> /\ i \in 1..Len(s) /\ i # 1
            BY <3>2, <4>1, <4>3
          <5> HIDE DEF s
          <5>2. Tail(s)[i - 1] = s[i] /\ i - 1 \in 1..Len(Tail(s))
            BY <5>1
          <5>3. Due(Tail(s), k)
            BY <4>1, <5>2 DEF Due, s
          <5> QED
            BY <2>2, <3>2, <5>3 DEF s
        <4> QED
          BY <4>2, <4>3
      <3> QED
        BY <1>4, <3>3, <3>4
    <2>3. CASE v = w /\ Answered(w)
      <3>1. writer'[w] = [writer[w] EXCEPT !.step = "after", !.left = Scopes(writer[w].command)]
        BY <1>0, <2>3 DEF Answered, Again
      <3>2. writer'[w].command = writer[w].command /\ writer'[w].left = Scopes(writer[w].command)
            /\ writer[w].command \in Commands
        BY <1>0, <3>1 DEF Writes
      <3> QED
        BY <1>7, <2>3, <3>2, ScopesReach
    <2>4. CASE v = w /\ ~Invalidate(w) /\ ~Answered(w)
      <3>1. CASE BeginWrite(w) \/ Send(w) \/ Acknowledge(w) \/ WriterGone(w)
        <4>1. BeginWrite(w) => writer'[w].step = "before"
          BY <1>0 DEF BeginWrite, Writes
        <4>2. Send(w) => writer'[w].step = "send"
          BY <1>0 DEF Send, Writes
        <4>3. Acknowledge(w) => writer'[w].step = "done"
          BY <1>0 DEF Acknowledge, Writes
        <4>4. WriterGone(w) => writer'[w].step = "gone"
          BY <1>0 DEF WriterGone, Writes
        <4> QED
          BY <1>7, <2>4, <3>1, <4>1, <4>2, <4>3, <4>4
      <3>2. CASE TakesEffect(w)
        <4>1. writer'[w].step = writer[w].step /\ writer[w].step \in {"send", "gone"}
          BY <1>0, <3>2 DEF TakesEffect, Writes
        <4> QED
          BY <1>7, <2>4, <4>1
      <3> QED
        BY <2>4, <3>1, <3>2 DEF Advances
    <2> QED
      BY <2>1, <2>2, <2>3, <2>4
  <1>8. Full(k, epoch)
    BY DEF Dated
  <1> QED
    BY <1>5, <1>6, <1>7, <1>8 DEF Dated

LEMMA WritersGoOn == ASSUME CacheInv, NEW w \in Writers, Advances(w) PROVE CacheInv'
  <1>0. /\ CacheTypeOK /\ UNCHANGED <<entry, reader>>
        /\ \A k \in Keys : acked[k] <= acked'[k] /\ holds[k] <= holds'[k] /\ acked'[k] <= holds'[k]
        /\ \A q \in Parts : number[q] <= number'[q]
    BY WritesAdvance DEF CacheInv
  <1>1. PICK m \in Writes : /\ writer' = [writer EXCEPT ![w] = m]
                            /\ \A k \in Keys : m.reached[k] <= holds'[k]
    BY WritesAdvance
  <1>2. CacheTypeOK'
    BY <1>0, <1>1, WritesAdvance DEF CacheTypeOK
  <1>3. /\ \A k \in Keys : /\ acked[k] \in Nat /\ acked'[k] \in Nat /\ holds[k] \in Nat /\ holds'[k] \in Nat
                           /\ entry[k].epoch \in Seq(Nat) /\ entry[k].value \in Nat
        /\ \A q \in Parts : number[q] \in Nat /\ number'[q] \in Nat
        /\ \A r \in Readers : reader[r] \in Reads
        /\ \A v \in Writers : writer[v] \in Writes /\ \A k \in Keys : writer[v].reached[k] \in Nat
    BY <1>0, <1>2 DEF CacheTypeOK, Writes
  <1>4. EntriesDated'
    <2>1. ASSUME NEW k \in Keys, entry[k].epoch # <<>>
          PROVE  Dated(number', acked', writer', k, entry[k].epoch, entry[k].value)
      <3>1. Dated(number, acked, writer, k, entry[k].epoch, entry[k].value)
        BY <2>1 DEF CacheInv, EntriesDated
      <3> QED
        BY <1>3, <3>1, RecordsStayDated
    <2> QED
      BY <1>0, <2>1 DEF EntriesDated
  <1>5. OneReader'
    BY <1>0 DEF CacheInv, OneReader
  <1>6. ASSUME NEW r \in Readers
        PROVE  (Promised(reader[r]) /\ Assembled(reader[r]) /\ Fetched(reader[r]) /\ NotStale(reader[r]))'
    <2> DEFINE rd == reader[r]
    <2>1. /\ rd \in Reads /\ rd.key \in Keys /\ rd.floor \in Nat /\ rd.value \in Nat /\ rd.epoch \in Seq(Nat)
          /\ reader' = reader
      BY <1>0, <1>3 DEF Reads
    <2>2. Promised(rd) /\ Assembled(rd) /\ Fetched(rd) /\ NotStale(rd)
      BY DEF CacheInv, ReadersDated
    <2>3. \A i \in 1..Len(KeyParts(rd.key)) : KeyParts(rd.key)[i] \in Parts
      BY <2>1, PartsOfKeys
    <2>4. Len(KeyParts(rd.key)) \in Nat /\ Len(rd.epoch) \in Nat
      BY <2>1, PartsOfKeys
    <2> HIDE DEF rd
    <2>5. rd.step # "idle" => rd.floor <= acked'[rd.key]
      BY <1>0, <1>3, <2>1, <2>2 DEF Promised
    <2>6. rd.step \in {"epoch", "look", "fetch"} =>
            \A i \in 1..Len(rd.epoch) : rd.epoch[i] <= number'[KeyParts(rd.key)[i]]
      <3>1. SUFFICES ASSUME rd.step \in {"epoch", "look", "fetch"}, NEW i \in 1..Len(rd.epoch)
                     PROVE  rd.epoch[i] <= number'[KeyParts(rd.key)[i]]
        OBVIOUS
      <3>2. i \in 1..Len(KeyParts(rd.key))
        BY <2>2, <2>4, <3>1 DEF Assembled, Full
      <3>3. rd.epoch[i] \in Nat /\ KeyParts(rd.key)[i] \in Parts
        BY <2>1, <2>3, <3>1, <3>2
      <3> QED
        BY <1>0, <1>3, <2>2, <3>1, <3>3 DEF Assembled
    <2>7. rd.step \in {"check", "store"} => Dated(number', acked', writer', rd.key, rd.epoch, rd.value)
      BY <2>1, <2>2, RecordsStayDated DEF Fetched
    <2>8. rd.step \in {"epoch", "look"} /\ entry[rd.key].epoch # <<>> /\ entry[rd.key].value < rd.floor =>
            \E i \in 1..Len(KeyParts(rd.key)) :
              entry[rd.key].epoch[i] < IF i <= Len(rd.epoch) THEN rd.epoch[i] ELSE number'[KeyParts(rd.key)[i]]
      <3>1. SUFFICES ASSUME rd.step \in {"epoch", "look"}, entry[rd.key].epoch # <<>>,
                            entry[rd.key].value < rd.floor
                     PROVE  \E i \in 1..Len(KeyParts(rd.key)) :
                              entry[rd.key].epoch[i] < IF i <= Len(rd.epoch) THEN rd.epoch[i]
                                                       ELSE number'[KeyParts(rd.key)[i]]
        OBVIOUS
      <3>2. PICK i \in 1..Len(KeyParts(rd.key)) : entry[rd.key].epoch[i] < ToLook(rd, i)
        BY <2>2, <3>1 DEF NotStale
      <3>3. Len(entry[rd.key].epoch) = Len(KeyParts(rd.key))
        BY <2>1, <3>1 DEF CacheInv, EntriesDated, Dated, Full
      <3>4. entry[rd.key].epoch[i] \in Nat
        BY <1>3, <2>1, <3>2, <3>3
      <3>5. number[KeyParts(rd.key)[i]] \in Nat /\ number'[KeyParts(rd.key)[i]] \in Nat
            /\ number[KeyParts(rd.key)[i]] <= number'[KeyParts(rd.key)[i]]
        BY <1>0, <1>3, <2>3, <3>2
      <3> QED
        BY <3>2, <3>4, <3>5 DEF ToLook
    <2> QED
      BY <1>0, <2>2, <2>5, <2>6, <2>7, <2>8 DEF rd, Promised, Assembled, Fetched, NotStale, ToLook
  <1>7. ReadersDated'
    BY <1>6 DEF ReadersDated
  <1>8. Reached'
    <2>1. ASSUME NEW k \in Keys, NEW v \in Writers PROVE writer'[v].reached[k] <= holds'[k]
      <3>1. CASE v = w
        BY <1>0, <1>1, <3>1 DEF CacheTypeOK
      <3>2. CASE v # w
        BY <1>0, <1>1, <1>3, <3>2 DEF CacheInv, Reached
      <3> QED
        BY <3>1, <3>2
    <2> QED
      BY <1>0, <2>1 DEF Reached
  <1>9. ReadsAfterWrites'
    BY <1>0 DEF CacheInv, ReadsAfterWrites
  <1> QED
    BY <1>2, <1>4, <1>5, <1>7, <1>8, <1>9 DEF CacheInv

\* A step of one reader that leaves the files alone but its own entry's.
ReaderSteps(r, m) ==
  /\ m \in Reads /\ reader' = [reader EXCEPT ![r] = m]
  /\ m.lock <=> m.step \in {"epoch", "look", "fetch", "check", "store"}
  /\ m.lock => /\ m.key = reader[r].key /\ reader[r].lock
               \/ \A s \in Readers : reader[s].lock => reader[s].key # m.key
  /\ Promised(m) /\ Assembled(m) /\ Fetched(m) /\ NotStale(m)
  /\ m.step = "answered" => m.value >= m.floor
  /\ UNCHANGED <<holds, number, writer, acked>>

LEMMA ReaderKeeps ==
    ASSUME CacheInv, NEW r \in Readers, NEW m, ReaderSteps(r, m),
           \/ UNCHANGED entry
           \/ /\ m.step = "answered" /\ reader[r].lock
              /\ \E e \in [epoch: Seq(Nat), value: Nat] :
                   /\ entry' = [entry EXCEPT ![reader[r].key] = e]
                   /\ Dated(number, acked, writer, reader[r].key, e.epoch, e.value)
    PROVE  CacheInv'
  <1>0. /\ CacheTypeOK /\ reader \in [Readers -> Reads] /\ reader[r] \in Reads /\ reader[r].key \in Keys
        /\ entry \in [Keys -> [epoch: Seq(Nat), value: Nat]]
        /\ m \in Reads /\ reader' = [reader EXCEPT ![r] = m] /\ UNCHANGED <<holds, number, writer, acked>>
    BY DEF CacheInv, CacheTypeOK, ReaderSteps, Reads
  <1>1. /\ reader' \in [Readers -> Reads] /\ reader'[r] = m
        /\ \A s \in Readers \ {r} : reader'[s] = reader[s]
    BY <1>0
  <1>2. /\ entry' \in [Keys -> [epoch: Seq(Nat), value: Nat]]
        /\ \A k \in Keys : \/ entry'[k] = entry[k]
                           \/ /\ k = reader[r].key /\ reader[r].lock /\ m.step = "answered"
                              /\ Dated(number, acked, writer, k, entry'[k].epoch, entry'[k].value)
    BY <1>0
  <1>3. CacheTypeOK'
    BY <1>0, <1>1, <1>2 DEF CacheTypeOK
  <1>4. EntriesDated'
    BY <1>0, <1>2 DEF CacheInv, EntriesDated
  <1>5. OneReader'
    BY <1>1 DEF CacheInv, OneReader, ReaderSteps
  <1>6. ReadersDated'
    <2>1. ASSUME NEW s \in Readers
          PROVE  (Promised(reader[s]) /\ Assembled(reader[s]) /\ Fetched(reader[s]))'
      <3>1. CASE s = r
        BY <1>0, <1>1, <3>1 DEF ReaderSteps, Promised, Assembled, Fetched
      <3>2. CASE s # r
        BY <1>0, <1>1, <3>2 DEF CacheInv, ReadersDated, Promised, Assembled, Fetched
      <3> QED
        BY <3>1, <3>2
    <2>2. ASSUME NEW s \in Readers PROVE NotStale(reader[s])'
      <3>1. CASE s = r
        <4>1. CASE m.step = "answered"
          BY <1>1, <3>1, <4>1 DEF NotStale
        <4>2. CASE m.step # "answered"
          BY <1>0, <1>1, <3>1, <4>2 DEF ReaderSteps, NotStale, ToLook
        <4> QED
          BY <4>1, <4>2
      <3>2. CASE s # r
        <4>1. reader[s].step \in {"epoch", "look"} => entry'[reader[s].key] = entry[reader[s].key]
          <5>1. reader[s].key \in Keys
            BY <1>0 DEF Reads
          <5> QED
            BY <1>2, <3>2, <5>1 DEF CacheInv, OneReader
        <4>2. NotStale(reader[s]) /\ reader'[s] = reader[s] /\ number' = number
          BY <1>0, <1>1, <3>2 DEF CacheInv, ReadersDated
        <4>3. CASE reader[s].step \in {"epoch", "look"}
          <5>1. entry'[reader'[s].key] = entry[reader[s].key]
            BY <4>1, <4>2, <4>3
          <5> QED
            BY <4>2, <5>1 DEF NotStale, ToLook
        <4>4. CASE reader[s].step \notin {"epoch", "look"}
          BY <4>2, <4>4 DEF NotStale
        <4> QED
          BY <4>3, <4>4
      <3> QED
        BY <3>1, <3>2
    <2> QED
      BY <2>1, <2>2 DEF ReadersDated
  <1>7. Reached'
    BY <1>0 DEF CacheInv, Reached
  <1>8. ReadsAfterWrites'
    BY <1>1 DEF CacheInv, ReadsAfterWrites, ReaderSteps
  <1> QED
    BY <1>3, <1>4, <1>5, <1>6, <1>7, <1>8 DEF CacheInv

LEMMA Idle == Idling \in Reads /\ Idling.step = "idle" /\ Idling.epoch = <<>> /\ Idling.lock = FALSE
  BY DEF Idling, Reads, Keys

\* An idle reader is promised nothing and holds no lock.
LEMMA ReaderStops ==
    ASSUME CacheInv, NEW r \in Readers, FetchFails(r) \/ Deliver(r) \/ ReaderGone(r)
    PROVE  CacheInv'
  <1> DEFINE m == [Idling EXCEPT !.reads = reader[r].reads]
  <1>1. reader[r].reads \in Nat
    BY DEF CacheInv, CacheTypeOK, Reads
  <1>2. m \in Reads /\ m.step = "idle" /\ m.lock = FALSE
    BY <1>1, Idle DEF Reads
  <1>3. reader' = [reader EXCEPT ![r] = m] /\ UNCHANGED <<holds, number, entry, writer, acked>>
    BY DEF FetchFails, Deliver, ReaderGone
  <1> HIDE DEF m
  <1>4. ReaderSteps(r, m)
    BY <1>2, <1>3 DEF ReaderSteps, Promised, Assembled, Fetched, NotStale
  <1> QED
    BY <1>3, <1>4, ReaderKeeps

LEMMA ReaderBegins ==
    ASSUME CacheInv, NEW r \in Readers, BeginRead(r) \/ BeginUncached(r)
    PROVE  CacheInv'
  <1>0. /\ reader[r] \in Reads /\ UNCHANGED <<holds, number, entry, writer, acked>>
        /\ \A k \in Keys : acked[k] \in Nat /\ holds[k] \in Nat /\ acked[k] <= holds[k]
        /\ \A k \in Keys : entry[k].epoch \in Seq(Nat) /\ entry[k].value \in Nat
    BY DEF CacheInv, CacheTypeOK, Reached, BeginRead, BeginUncached
  <1>1. CASE BeginRead(r)
    <2>1. PICK k \in Keys :
            /\ ~Locked(k)
            /\ reader' = [reader EXCEPT ![r] = [Idling EXCEPT !.step = "epoch", !.key = k, !.floor = acked[k],
                                                              !.lock = TRUE, !.reads = reader[r].reads + 1]]
      BY <1>1 DEF BeginRead
    <2> DEFINE m == [Idling EXCEPT !.step = "epoch", !.key = k, !.floor = acked[k], !.lock = TRUE,
                                   !.reads = reader[r].reads + 1]
    <2>2. reader[r].reads + 1 \in Nat
      BY <1>0 DEF Reads
    <2>3. reader' = [reader EXCEPT ![r] = m]
      BY <2>1
    <2>4. /\ m \in Reads /\ m.step = "epoch" /\ m.key = k /\ m.epoch = <<>> /\ m.floor = acked[k]
          /\ m.lock = TRUE
      BY <1>0, <2>2, Idle DEF Reads
    <2> HIDE DEF m
    <2>5. Promised(m) /\ Assembled(m) /\ Fetched(m)
      <3>1. Len(m.epoch) = 0 /\ Len(KeyParts(k)) \in Nat \ {0}
        BY <2>4, PartsOfKeys
      <3> QED
        BY <1>0, <2>4, <3>1 DEF Promised, Assembled, Fetched
    <2>6. NotStale(m)
      <3>1. SUFFICES ASSUME entry[k].epoch # <<>>, entry[k].value < acked[k]
                     PROVE  \E i \in 1..Len(KeyParts(k)) : entry[k].epoch[i] < ToLook(m, i)
        BY <2>4 DEF NotStale
      <3>2. Full(k, entry[k].epoch) /\ Superseded(number, k, entry[k].epoch)
        BY <3>1 DEF CacheInv, EntriesDated, Dated
      <3>3. \A i \in 1..Len(KeyParts(k)) : ToLook(m, i) = number[KeyParts(k)[i]]
        BY <2>4, PartsOfKeys DEF ToLook
      <3> QED
        BY <3>2, <3>3 DEF Full, Superseded
    <2>7. ReaderSteps(r, m)
      BY <1>0, <2>1, <2>3, <2>4, <2>5, <2>6 DEF ReaderSteps, Locked
    <2> QED
      BY <1>0, <2>7, ReaderKeeps
  <1>2. CASE BeginUncached(r)
    <2>1. PICK k \in Keys :
            reader' = [reader EXCEPT ![r] = [Idling EXCEPT !.step = "answered", !.key = k, !.floor = acked[k],
                                                           !.value = holds[k], !.reads = reader[r].reads + 1]]
      BY <1>2 DEF BeginUncached
    <2> DEFINE m == [Idling EXCEPT !.step = "answered", !.key = k, !.floor = acked[k], !.value = holds[k],
                                   !.reads = reader[r].reads + 1]
    <2>2. reader[r].reads + 1 \in Nat
      BY <1>0 DEF Reads
    <2>3. reader' = [reader EXCEPT ![r] = m]
      BY <2>1
    <2>4. /\ m \in Reads /\ m.step = "answered" /\ m.key = k /\ m.floor = acked[k] /\ m.value = holds[k]
          /\ m.lock = FALSE
      BY <1>0, <2>2, Idle DEF Reads
    <2> HIDE DEF m
    <2>5. ReaderSteps(r, m)
      BY <1>0, <2>3, <2>4 DEF ReaderSteps, Promised, Assembled, Fetched, NotStale
    <2> QED
      BY <1>0, <2>5, ReaderKeeps
  <1> QED
    BY <1>1, <1>2

\* The files of a generation are read one by one.  (github_transport.py)
LEMMA ReaderAssembles == ASSUME CacheInv, NEW r \in Readers, ReadEpoch(r) PROVE CacheInv'
  <1> DEFINE rd == reader[r]
             n == Len(rd.epoch)
             parts == KeyParts(rd.key)
             read == Append(rd.epoch, number[parts[n + 1]])
             m == [rd EXCEPT !.epoch = read, !.step = IF Len(read) = Len(parts) THEN "look" ELSE "epoch"]
  <1>0. /\ rd \in Reads /\ rd.key \in Keys /\ rd.epoch \in Seq(Nat) /\ rd.step = "epoch" /\ n \in Nat
        /\ number \in [Parts -> Nat] /\ UNCHANGED <<holds, number, entry, writer, acked>>
    BY DEF CacheInv, CacheTypeOK, Reads, ReadEpoch
  <1>1. reader' = [reader EXCEPT ![r] = m]
    BY DEF ReadEpoch
  <1>2. Promised(rd) /\ Assembled(rd) /\ NotStale(rd) /\ rd.lock
    BY <1>0 DEF CacheInv, ReadersDated, OneReader
  <1>3. /\ Len(parts) \in Nat /\ n < Len(parts) /\ n + 1 \in 1..Len(parts)
        /\ number[parts[n + 1]] \in Nat
    BY <1>0, <1>2, PartsOfKeys DEF Assembled
  <1>4. /\ read \in Seq(Nat) /\ Len(read) = n + 1 /\ read[n + 1] = number[parts[n + 1]]
        /\ \A i \in 1..n : read[i] = rd.epoch[i]
    BY <1>0, <1>3
  <1> HIDE DEF read
  <1>5. /\ m \in Reads /\ m.step \in {"epoch", "look"} /\ (m.step = "look" <=> Len(read) = Len(parts))
        /\ m.key = rd.key /\ m.floor = rd.floor /\ m.lock = rd.lock /\ m.epoch = read
    BY <1>0, <1>4 DEF Reads
  <1> HIDE DEF m, rd
  <1>6. Promised(m) /\ Fetched(m)
    BY <1>0, <1>2, <1>5 DEF Promised, Fetched
  <1>7. \A i \in 1..Len(read) : read[i] <= number[parts[i]]
    <2>1. ASSUME NEW i \in 1..Len(read) PROVE read[i] <= number[parts[i]]
      <3>1. CASE i = n + 1
        BY <1>3, <1>4, <3>1
      <3>2. CASE i # n + 1
        <4>1. i \in 1..n
          BY <1>0, <1>4, <3>2
        <4> QED
          BY <1>0, <1>2, <1>4, <4>1 DEF Assembled
      <3> QED
        BY <3>1, <3>2
    <2> QED
      BY <2>1
  <1>8. Assembled(m)
    BY <1>3, <1>4, <1>5, <1>7 DEF Assembled, Full
  <1>9. NotStale(m)
    <2>1. SUFFICES ASSUME entry[rd.key].epoch # <<>>, entry[rd.key].value < rd.floor
                   PROVE  \E i \in 1..Len(parts) : entry[rd.key].epoch[i] < ToLook(m, i)
      BY <1>5 DEF NotStale
    <2>2. PICK i \in 1..Len(parts) : entry[rd.key].epoch[i] < ToLook(rd, i)
      BY <1>0, <1>2, <2>1 DEF NotStale
    <2>3. ToLook(m, i) = ToLook(rd, i)
      <3>1. CASE i <= n
        BY <1>0, <1>4, <1>5, <3>1 DEF ToLook
      <3>2. CASE i = n + 1
        BY <1>0, <1>4, <1>5, <3>2 DEF ToLook
      <3>3. CASE i > n + 1
        BY <1>0, <1>4, <1>5, <3>3 DEF ToLook
      <3> QED
        BY <1>0, <3>1, <3>2, <3>3
    <2> QED
      BY <2>2, <2>3
  <1>10. ReaderSteps(r, m)
    BY <1>0, <1>1, <1>2, <1>5, <1>6, <1>8, <1>9 DEF ReaderSteps, rd
  <1> QED
    BY <1>0, <1>10, ReaderKeeps

\* A hit is of the reader's own generation, so it is not stale; what is fetched was
\* fetched after the promise.  (github_transport.py)
LEMMA ReaderReads ==
    ASSUME CacheInv, NEW r \in Readers, Hit(r) \/ Miss(r) \/ Fetch(r) \/ Check(r) \/ Store(r)
    PROVE  CacheInv'
  <1> DEFINE rd == reader[r]
             k == rd.key
  <1>0. /\ rd \in Reads /\ k \in Keys /\ rd.epoch \in Seq(Nat) /\ rd.value \in Nat /\ rd.floor \in Nat
        /\ UNCHANGED <<holds, number, writer, acked>>
        /\ entry[k].epoch \in Seq(Nat) /\ entry[k].value \in Nat /\ holds[k] \in Nat /\ acked[k] \in Nat
    BY DEF CacheInv, CacheTypeOK, Reads, Hit, Miss, Fetch, Check, Store
  <1>1. Promised(rd) /\ Assembled(rd) /\ Fetched(rd) /\ NotStale(rd)
    BY DEF CacheInv, ReadersDated
  <1>2. rd.lock <=> rd.step \in {"epoch", "look", "fetch", "check", "store"}
    BY DEF CacheInv, OneReader
  <1>3. CASE Hit(r)
    <2> DEFINE m == [rd EXCEPT !.step = "answered", !.value = entry[k].value, !.lock = FALSE]
    <2>1. reader' = [reader EXCEPT ![r] = m] /\ UNCHANGED entry /\ rd.step = "look" /\ entry[k].epoch = rd.epoch
      BY <1>3 DEF Hit
    <2>2. /\ m \in Reads /\ m.step = "answered" /\ m.value = entry[k].value /\ m.lock = FALSE
          /\ m.key = k /\ m.floor = rd.floor
      BY <1>0 DEF Reads
    <2> HIDE DEF m
    <2>3. entry[k].value >= rd.floor
      <3>1. SUFFICES ASSUME entry[k].value < rd.floor PROVE FALSE
        BY <1>0
      <3>2. Len(rd.epoch) = Len(KeyParts(k)) /\ Len(KeyParts(k)) \in Nat \ {0}
        BY <1>0, <1>1, <2>1, PartsOfKeys DEF Assembled, Full
      <3>3. rd.epoch # <<>>
        BY <3>2
      <3>4. PICK i \in 1..Len(KeyParts(k)) : rd.epoch[i] < ToLook(rd, i)
        BY <1>1, <2>1, <3>1, <3>3 DEF NotStale
      <3>5. ToLook(rd, i) = rd.epoch[i] /\ rd.epoch[i] \in Nat
        BY <1>0, <3>2, <3>4 DEF ToLook
      <3> QED
        BY <3>4, <3>5
    <2>4. ReaderSteps(r, m)
      BY <1>0, <1>1, <2>1, <2>2, <2>3 DEF ReaderSteps, Promised, Assembled, Fetched, NotStale
    <2> QED
      BY <2>1, <2>4, ReaderKeeps
  <1>4. CASE Miss(r)
    <2> DEFINE m == [rd EXCEPT !.step = "fetch"]
    <2>1. reader' = [reader EXCEPT ![r] = m] /\ UNCHANGED entry /\ rd.step = "look"
      BY <1>4 DEF Miss
    <2>2. /\ m \in Reads /\ m.step = "fetch" /\ m.lock = rd.lock /\ m.key = k /\ m.floor = rd.floor
          /\ m.epoch = rd.epoch
      BY <1>0 DEF Reads
    <2> HIDE DEF m
    <2>3. Promised(m) /\ Assembled(m) /\ Fetched(m) /\ NotStale(m)
      BY <1>1, <2>1, <2>2 DEF Promised, Assembled, Fetched, NotStale
    <2>4. ReaderSteps(r, m)
      BY <1>0, <1>2, <2>1, <2>2, <2>3 DEF ReaderSteps
    <2> QED
      BY <2>1, <2>4, ReaderKeeps
  <1>5. CASE Fetch(r)
    <2> DEFINE m == [rd EXCEPT !.step = "check", !.value = holds[k]]
    <2>1. reader' = [reader EXCEPT ![r] = m] /\ UNCHANGED entry /\ rd.step = "fetch"
      BY <1>5 DEF Fetch
    <2>2. /\ m \in Reads /\ m.step = "check" /\ m.lock = rd.lock /\ m.key = k /\ m.floor = rd.floor
          /\ m.epoch = rd.epoch /\ m.value = holds[k]
      BY <1>0 DEF Reads
    <2> HIDE DEF m
    <2>3. Dated(number, acked, writer, k, rd.epoch, holds[k])
      <3>1. ~(holds[k] < acked[k]) /\ \A w \in Writers : ~(holds[k] < writer[w].reached[k])
        <4>1. acked[k] <= holds[k] /\ \A w \in Writers : writer[w].reached[k] <= holds[k]
          BY <1>0 DEF CacheInv, Reached
        <4>2. \A w \in Writers : writer[w].reached[k] \in Nat
          BY <1>0 DEF CacheInv, CacheTypeOK, Writes
        <4> QED
          BY <1>0, <4>1, <4>2
      <3>2. Full(k, rd.epoch) /\ \A i \in 1..Len(rd.epoch) : rd.epoch[i] <= number[KeyParts(k)[i]]
        BY <1>1, <2>1 DEF Assembled
      <3> QED
        BY <3>1, <3>2 DEF Dated
    <2>4. rd.floor <= holds[k]
      <3>1. rd.floor <= acked[k] /\ acked[k] <= holds[k]
        BY <1>0, <1>1, <2>1 DEF Promised, CacheInv, Reached
      <3> QED
        BY <1>0, <3>1
    <2>5. Promised(m) /\ Assembled(m) /\ Fetched(m) /\ NotStale(m)
      BY <1>1, <2>1, <2>2, <2>3, <2>4 DEF Promised, Assembled, Fetched, NotStale
    <2>6. ReaderSteps(r, m)
      BY <1>0, <1>2, <2>1, <2>2, <2>5 DEF ReaderSteps
    <2> QED
      BY <2>1, <2>6, ReaderKeeps
  <1>6. CASE Check(r)
    <2> DEFINE same == EpochNow(k) = rd.epoch
               step == IF same THEN "store" ELSE "answered"
               m == [rd EXCEPT !.step = step, !.lock = same]
    <2>1. reader' = [reader EXCEPT ![r] = m] /\ UNCHANGED entry /\ rd.step = "check"
      BY <1>6 DEF Check
    <2>2. same \in BOOLEAN /\ step \in {"store", "answered"} /\ (same <=> step = "store")
      OBVIOUS
    <2> HIDE DEF same, step
    <2>3. /\ m \in Reads /\ m.step = step /\ (m.lock <=> same) /\ m.key = k /\ m.floor = rd.floor
          /\ m.epoch = rd.epoch /\ m.value = rd.value
      BY <1>0, <2>2 DEF Reads
    <2> HIDE DEF m
    <2>4. Promised(m) /\ Assembled(m) /\ Fetched(m) /\ NotStale(m)
      BY <1>1, <2>1, <2>2, <2>3 DEF Promised, Assembled, Fetched, NotStale
    <2>5. rd.value >= rd.floor
      BY <1>0, <1>1, <2>1 DEF Fetched
    <2>6. ReaderSteps(r, m)
      BY <1>0, <1>2, <2>1, <2>2, <2>3, <2>4, <2>5 DEF ReaderSteps
    <2> QED
      BY <2>1, <2>6, ReaderKeeps
  <1>7. CASE Store(r)
    <2> DEFINE m == [rd EXCEPT !.step = "answered", !.lock = FALSE]
               e == Stored(rd)
    <2>1. reader' = [reader EXCEPT ![r] = m] /\ entry' = [entry EXCEPT ![k] = e] /\ rd.step = "store"
      BY <1>7 DEF Store
    <2>2. /\ m \in Reads /\ m.step = "answered" /\ m.lock = FALSE /\ m.key = k /\ m.floor = rd.floor
          /\ m.value = rd.value
      BY <1>0 DEF Reads
    <2> HIDE DEF m
    <2>3. /\ e \in [epoch: Seq(Nat), value: Nat]
          /\ Dated(number, acked, writer, k, e.epoch, e.value) /\ rd.floor <= rd.value
      BY <1>0, <1>1, <2>1 DEF Stored, Fetched
    <2>4. Promised(m) /\ Assembled(m) /\ Fetched(m) /\ NotStale(m)
      BY <1>1, <2>1, <2>2 DEF Promised, Assembled, Fetched, NotStale
    <2>5. ReaderSteps(r, m)
      BY <1>0, <2>1, <2>2, <2>3, <2>4 DEF ReaderSteps
    <2> HIDE DEF e
    <2> QED
      BY <1>2, <2>1, <2>2, <2>3, <2>5, ReaderKeeps
  <1> QED
    BY <1>3, <1>4, <1>5, <1>6, <1>7

LEMMA CacheGoesOn == ASSUME CacheInv, [CacheNext]_rcvars PROVE CacheInv'
  <1>1. CASE UNCHANGED rcvars
    BY <1>1 DEF rcvars, CacheInv, CacheTypeOK, EntriesDated, OneReader, ReadersDated, Reached, ReadsAfterWrites,
                Promised, Assembled, Fetched, NotStale, ToLook
  <1>2. CASE CacheNext
    BY <1>2, ReaderStops, ReaderBegins, ReaderAssembles, ReaderReads, WritersGoOn DEF CacheNext, Advances
  <1> QED
    BY <1>1, <1>2

LEMMA CacheInvSafe == ASSUME CacheInv PROVE CacheSafe
  BY DEF CacheInv, CacheSafe

\* A read that begins after a write of the host was acknowledged sees it.
\* (github_transport.py, overlap_support.py)
THEOREM CacheIsCurrent == CacheSpec => []CacheSafe
  <1>1. CacheInit => CacheInv
    BY CacheStarts
  <1>2. CacheInv /\ [CacheNext]_rcvars => CacheInv'
    BY CacheGoesOn
  <1>3. CacheInv => CacheSafe
    BY CacheInvSafe
  <1> HIDE DEF CacheInv
  <1> QED
    BY <1>1, <1>2, <1>3, PTL DEF CacheSpec

-----------------------------------------------------------------------------
(* The pacer's readings and the request that opens a window. *)

Opening(a) == asker[a].step \in {"reserved", "requesting", "settle"}

\* A reading that may be served is of the window that is open and says how long it stays so; what a worker was
\* told is of this moment.
Current(r) == r.of = window.number /\ r.left = window.left + r.age

Informed(a) ==
  /\ asker[a].step = "told" => asker[a].reading.of = window.number /\ asker[a].reading.age = 0
  /\ asker[a].step = "told" => asker[a].reading.left \in {0, window.left}
  /\ asker[a].step = "launch" => asker[a].reading.of = window.number /\ UnderPace(asker[a].reading)

\* The row of a request that is under way is as old as the request.
RowHeld(a) ==
  /\ Opening(a) => ledger[asker[a].key].state = "in-progress"
  /\ asker[a].step = "reserved" => ledger[asker[a].key].age = 0
  /\ asker[a].step = "requesting" => ledger[asker[a].key].age = BootTimeout - asker[a].left

OneOpens == \A a, b \in Askers : Opening(a) /\ Opening(b) /\ asker[a].key = asker[b].key => a = b

QuotaInv ==
  /\ QuotaTypeOK /\ (Servable(cached) => Current(cached))
  /\ \A a \in Askers : Informed(a) /\ RowHeld(a)
  /\ OneOpens

AskerType == [step: {"asleep", "asking", "told", "refused", "launch", "open", "reserved", "requesting", "settle"},
              reading: Readings, key: 0..1, left: 0..BootTimeout, polled: BOOLEAN]

LEMMA BareReading == ASSUME QuotaAssumption PROVE NoReading \in Readings /\ Asleep \in AskerType
  BY DEF NoReading, Readings, Asleep, AskerType, QuotaAssumption

LEMMA PacerStarts == ASSUME QuotaAssumption, QuotaInit PROVE QuotaInv
  <1>1. QuotaTypeOK
    <2>1. window \in [left: 0..Length, used: 0..Length, number: 0..2]
      BY DEF QuotaAssumption, QuotaInit
    <2>5. period \in [key: 0..1, left: 1..Length]
      <3>1. PICK k \in {0}, n \in 1..Length : period = [key |-> k, left |-> n]
        BY DEF QuotaInit
      <3> QED
        BY <3>1
    <2>2. ledger \in [0..1 -> [state: {"none", "in-progress", "done"}, age: 0..RetryAfter]]
      BY DEF QuotaAssumption, QuotaInit, NoRow
    <2>3. cached \in Readings /\ asker \in [Askers -> AskerType]
      BY BareReading DEF QuotaInit
    <2>4. cooling \in 0..CacheTTL /\ faults \in 0..MaxFaults /\ requests \in 0..2
      BY DEF QuotaAssumption, QuotaInit
    <2> QED
      BY <2>1, <2>2, <2>3, <2>4, <2>5 DEF QuotaTypeOK, AskerType
  <1>2. Servable(cached) => Current(cached)
    BY DEF QuotaInit, Servable, Active, NoReading
  <1>3. OneOpens /\ \A a \in Askers : Informed(a) /\ RowHeld(a)
    BY DEF QuotaInit, OneOpens, Opening, Informed, RowHeld, Asleep
  <1> QED
    BY <1>1, <1>2, <1>3 DEF QuotaInv

\* What a worker decides on a reading of the open window, it decides of that window.
LEMMA DecidedTyped ==
    ASSUME QuotaAssumption, QuotaTypeOK, NEW r \in Readings
    PROVE  /\ Decided(r) \in AskerType /\ Decided(r).step \in {"asleep", "open", "launch"}
           /\ Decided(r).step = "launch" => Decided(r).reading = r /\ r.left # 0 /\ UnderPace(r)
  BY BareReading DEF Decided, Verdict, Asleep, AskerType

\* One worker moves, and opens nothing; the window and the ledger are as they were.
LEMMA OneDecides ==
    ASSUME QuotaAssumption, QuotaInv, NEW a \in Askers, NEW n \in AskerType, asker' = [asker EXCEPT ![a] = n],
           n.step \notin {"reserved", "requesting", "settle"},
           n.step = "told" => n.reading.of = window.number /\ n.reading.age = 0,
           n.step = "told" => n.reading.left \in {0, window.left},
           n.step = "launch" => n.reading.of = window.number /\ UnderPace(n.reading),
           UNCHANGED <<window, ledger>>, cached' \in Readings, Servable(cached') => Current(cached'),
           period' = period, cooling' \in 0..CacheTTL, faults' \in 0..MaxFaults, requests' = requests
    PROVE  QuotaInv'
  <1>1. QuotaTypeOK'
    BY DEF QuotaInv, QuotaTypeOK, AskerType
  <1>2. (Servable(cached) => Current(cached))'
    BY DEF Servable, Active, Current
  <1>3. asker \in [Askers -> AskerType]
    BY DEF QuotaInv, QuotaTypeOK, AskerType
  <1>4. ASSUME NEW c \in Askers PROVE Informed(c)' /\ RowHeld(c)'
    <2>1. CASE c = a
      BY <1>3, <2>1 DEF Informed, RowHeld, Opening, UnderPace
    <2>2. CASE c # a
      <3>1. asker'[c] = asker[c] /\ Informed(c) /\ RowHeld(c)
        BY <1>3, <2>2 DEF QuotaInv
      <3> QED
        BY <3>1 DEF Informed, RowHeld, Opening, UnderPace
    <2> QED
      BY <2>1, <2>2
  <1>5. OneOpens'
    <2>1. \A c \in Askers : Opening(c)' => Opening(c) /\ asker'[c] = asker[c]
      BY <1>3 DEF Opening
    <2> QED
      BY <2>1 DEF QuotaInv, OneOpens
  <1> QED
    BY <1>1, <1>2, <1>4, <1>5 DEF QuotaInv

LEMMA PollSafe == ASSUME QuotaAssumption, QuotaInv, NEW a \in Askers, Poll(a) PROVE QuotaInv'
  <1>1. QuotaTypeOK /\ cached \in Readings /\ asker \in [Askers -> AskerType]
    BY DEF QuotaInv, QuotaTypeOK, AskerType
  <1>2. UNCHANGED <<window, period, cached, cooling, ledger, faults, requests>>
    BY DEF Poll
  <1>3. CASE asker' = [asker EXCEPT ![a] = Decided(cached)] /\ Servable(cached)
    <2>1. cached.of = window.number
      BY <1>3 DEF QuotaInv, Current
    <2> QED
      BY <1>1, <1>2, <1>3, <2>1, DecidedTyped, OneDecides DEF QuotaInv, QuotaTypeOK, Current
  <1>4. CASE asker' = [asker EXCEPT ![a].step = "asking", ![a].polled = TRUE]
    <2> DEFINE n == [[asker[a] EXCEPT !.step = "asking"] EXCEPT !.polled = TRUE]
    <2>1. n \in AskerType /\ n.step = "asking" /\ asker' = [asker EXCEPT ![a] = n]
      BY <1>1, <1>4 DEF AskerType
    <2> HIDE DEF n
    <2> QED
      BY <1>1, <1>2, <2>1, OneDecides DEF QuotaInv, QuotaTypeOK, Current
  <1> QED
    BY <1>3, <1>4 DEF Poll

LEMMA AnswersSafe == ASSUME QuotaAssumption, QuotaInv, NEW a \in Askers, EndpointAnswers(a) PROVE QuotaInv'
  <1>1. cached \in Readings /\ asker \in [Askers -> AskerType] /\ QuotaTypeOK
    BY DEF QuotaInv, QuotaTypeOK, AskerType
  <1> DEFINE r == [left |-> window.left, used |-> window.used, age |-> 0, of |-> window.number]
             n == [[asker[a] EXCEPT !.step = "told"] EXCEPT !.reading = r]
  <1>2. r \in Readings /\ r.of = window.number /\ r.age = 0 /\ r.left = window.left
    BY <1>1 DEF QuotaTypeOK, Readings, QuotaAssumption
  <1>3. asker' = [asker EXCEPT ![a] = [[asker[a] EXCEPT !.step = "told"] EXCEPT !.reading = r]]
    BY <1>1 DEF EndpointAnswers, AskerType
  <1> HIDE DEF r
  <1>4. n \in AskerType /\ n.step = "told" /\ n.reading = r /\ asker' = [asker EXCEPT ![a] = n]
    BY <1>1, <1>2, <1>3 DEF AskerType
  <1>5. UNCHANGED <<window, period, cached, cooling, ledger, faults, requests>>
    BY DEF EndpointAnswers
  <1> HIDE DEF n
  <1> QED
    BY <1>1, <1>2, <1>4, <1>5, OneDecides DEF QuotaInv, QuotaTypeOK, Current

LEMMA RefusesSafe == ASSUME QuotaAssumption, QuotaInv, NEW a \in Askers, EndpointRefuses(a) PROVE QuotaInv'
  <1>1. cached \in Readings /\ asker \in [Askers -> AskerType] /\ QuotaTypeOK
    BY DEF QuotaInv, QuotaTypeOK, AskerType
  <1> DEFINE n == [asker[a] EXCEPT !.step = "refused"]
  <1>2. n \in AskerType /\ n.step = "refused" /\ asker' = [asker EXCEPT ![a] = n]
    BY <1>1 DEF AskerType, EndpointRefuses
  <1>3. UNCHANGED <<window, period, cached, ledger, requests>> /\ cooling' \in 0..CacheTTL /\ faults' \in 0..MaxFaults
    BY <1>1 DEF EndpointRefuses, QuotaTypeOK, QuotaAssumption
  <1> HIDE DEF n
  <1> QED
    BY <1>1, <1>2, <1>3, OneDecides DEF QuotaInv, Current

LEMMA ToldSafe == ASSUME QuotaAssumption, QuotaInv, NEW a \in Askers, Told(a) PROVE QuotaInv'
  <1>1. cached \in Readings /\ asker \in [Askers -> AskerType] /\ QuotaTypeOK /\ Informed(a)
    BY DEF QuotaInv, QuotaTypeOK, AskerType
  <1> DEFINE r == asker[a].reading
  <1>2. r \in Readings /\ r.of = window.number /\ r.age = 0 /\ r.left \in {0, window.left}
    BY <1>1 DEF Informed, Told, AskerType
  <1>3. /\ cached' = IF Active(r) THEN r ELSE cached
        /\ asker' = [asker EXCEPT ![a] = Decided(r)]
        /\ UNCHANGED <<window, period, cooling, ledger, faults, requests>>
    BY DEF Told
  <1> HIDE DEF r
  <1>4. cached' \in Readings /\ (Servable(cached') => Current(cached'))
    BY <1>1, <1>2, <1>3 DEF QuotaInv, QuotaTypeOK, Current, Active, Readings, Servable
  <1> QED
    BY <1>1, <1>2, <1>3, <1>4, DecidedTyped, OneDecides DEF QuotaTypeOK

LEMMA RefusedSafe == ASSUME QuotaAssumption, QuotaInv, NEW a \in Askers, Refused(a) PROVE QuotaInv'
  <1>1. cached \in Readings /\ QuotaTypeOK
    BY DEF QuotaInv, QuotaTypeOK
  <1> DEFINE n == IF Servable(cached) THEN Decided(cached) ELSE [Asleep EXCEPT !.polled = TRUE]
  <1>2. asker' = [asker EXCEPT ![a] = n] /\ UNCHANGED <<window, period, cached, cooling, ledger, faults, requests>>
    BY DEF Refused
  <1>3. /\ n \in AskerType /\ n.step \in {"asleep", "open", "launch"}
        /\ n.step = "launch" => n.reading.of = window.number /\ UnderPace(n.reading)
    <2>1. CASE Servable(cached)
      BY <1>1, <2>1, DecidedTyped DEF QuotaInv, Current
    <2>2. CASE ~Servable(cached)
      BY <2>2, BareReading DEF Asleep, AskerType
    <2> QED
      BY <2>1, <2>2
  <1> HIDE DEF n
  <1> QED
    BY <1>1, <1>2, <1>3, OneDecides DEF QuotaInv, QuotaTypeOK, Current

\* One worker goes to sleep; the others see their window, and their rows, as before.
LEMMA OneSleeps ==
    ASSUME QuotaAssumption, QuotaInv, NEW a \in Askers, NEW n \in AskerType, n.step = "asleep",
           asker' = [asker EXCEPT ![a] = n], QuotaTypeOK', (Servable(cached) => Current(cached))',
           window'.number = window.number,
           window'.left = window.left \/ window.left = 0,
           \A c \in Askers : c # a /\ Opening(c) => ledger'[asker[c].key] = ledger[asker[c].key]
    PROVE  QuotaInv'
  <1>1. asker \in [Askers -> AskerType]
    BY DEF QuotaInv, QuotaTypeOK, AskerType
  <1>2. ASSUME NEW c \in Askers PROVE Informed(c)' /\ RowHeld(c)'
    <2>1. CASE c = a
      BY <1>1, <2>1 DEF Informed, RowHeld, Opening
    <2>2. CASE c # a
      <3>1. asker'[c] = asker[c] /\ Informed(c) /\ RowHeld(c)
        BY <1>1, <2>2 DEF QuotaInv
      <3>2. Informed(c)'
        BY <3>1 DEF Informed, UnderPace
      <3>3. RowHeld(c)'
        BY <2>2, <3>1 DEF RowHeld, Opening
      <3> QED
        BY <3>2, <3>3
    <2> QED
      BY <2>1, <2>2
  <1>3. OneOpens'
    <2>1. \A c \in Askers : Opening(c)' => Opening(c) /\ asker'[c] = asker[c]
      BY <1>1 DEF Opening
    <2> QED
      BY <2>1 DEF QuotaInv, OneOpens
  <1> QED
    BY <1>2, <1>3 DEF QuotaInv

LEMMA RoundSafe == ASSUME QuotaAssumption, QuotaInv, NEW a \in Askers, Launch(a) PROVE QuotaInv'
  <1>1. QuotaTypeOK /\ window \in [left: 0..Length, used: 0..Length, number: 0..2] /\ Length \in Nat \ {0}
    BY DEF QuotaInv, QuotaTypeOK, QuotaAssumption
  <1>2. /\ window' \in [left: 0..Length, used: 0..Length, number: 0..2] /\ window'.number = window.number
        /\ window'.left = window.left \/ window.left = 0
    <2>1. CASE window.left = 0
      <3>1. window' = [left |-> Length, used |-> 1, number |-> window.number]
        BY <1>1, <2>1 DEF Launch
      <3> QED
        BY <1>1, <2>1, <3>1
    <2>2. CASE window.left # 0
      BY <1>1, <2>2 DEF Launch
    <2> QED
      BY <2>1, <2>2
  <1>3. asker' = [asker EXCEPT ![a] = Asleep] /\ UNCHANGED <<period, cached, cooling, ledger, faults, requests>>
    BY DEF Launch
  <1>4. QuotaTypeOK'
    BY <1>1, <1>2, <1>3, BareReading DEF QuotaTypeOK, AskerType
  <1>5. (Servable(cached) => Current(cached))'
    <2>1. Servable(cached) => window.left # 0
      BY <1>1 DEF QuotaInv, Servable, Current, Active, QuotaTypeOK, Readings
    <2> QED
      BY <1>2, <1>3, <2>1 DEF QuotaInv, Servable, Current, Active
  <1> QED
    BY <1>2, <1>3, <1>4, <1>5, BareReading, OneSleeps DEF Asleep

LEMMA KilledAskerSafe == ASSUME QuotaAssumption, QuotaInv, NEW a \in Askers, AskerKilled(a) PROVE QuotaInv'
  <1>1. asker' = [asker EXCEPT ![a] = Asleep] /\ UNCHANGED <<window, period, cached, cooling, ledger, requests>>
    BY DEF AskerKilled
  <1>2. QuotaTypeOK'
    BY <1>1, BareReading DEF AskerKilled, QuotaInv, QuotaTypeOK, AskerType, QuotaAssumption
  <1>3. (Servable(cached) => Current(cached))'
    BY <1>1 DEF QuotaInv, Servable, Current, Active
  <1> QED
    BY <1>1, <1>2, <1>3, BareReading, OneSleeps DEF Asleep

LEMMA SettleSafe == ASSUME QuotaAssumption, QuotaInv, NEW a \in Askers, SettleBootstrap(a) PROVE QuotaInv'
  <1>1. QuotaTypeOK /\ asker[a].key \in 0..1 /\ Opening(a)
    BY DEF QuotaInv, QuotaTypeOK, SettleBootstrap, Opening
  <1>2. /\ asker' = [asker EXCEPT ![a] = Asleep] /\ UNCHANGED <<window, period, cooling, faults, requests>>
        /\ cached' = NoReading
        /\ ledger' = [ledger EXCEPT ![asker[a].key] = [state |-> "done", age |-> 0]]
    BY DEF SettleBootstrap
  <1>3. ledger' \in [0..1 -> [state: {"none", "in-progress", "done"}, age: 0..RetryAfter]]
    BY <1>1, <1>2 DEF QuotaTypeOK, QuotaAssumption
  <1>4. QuotaTypeOK'
    BY <1>1, <1>2, <1>3, BareReading DEF QuotaTypeOK, AskerType
  <1>5. (Servable(cached) => Current(cached))'
    BY <1>2 DEF Servable, Active, NoReading
  <1>6. \A c \in Askers : c # a /\ Opening(c) => ledger'[asker[c].key] = ledger[asker[c].key]
    BY <1>1, <1>2 DEF QuotaInv, OneOpens, QuotaTypeOK
  <1> QED
    BY <1>2, <1>4, <1>5, <1>6, BareReading, OneSleeps DEF Asleep

\* A worker goes on with the request that it alone has reserved.
LEMMA OneGoesOn ==
    ASSUME QuotaAssumption, QuotaInv, NEW a \in Askers, NEW n \in AskerType,
           asker' = [asker EXCEPT ![a] = n], QuotaTypeOK', (Servable(cached) => Current(cached))',
           window'.number = window.number,
           window'.left = window.left \/ window.left = 0, n.step \in {"reserved", "requesting", "settle"},
           ledger'[n.key].state = "in-progress", n.step = "reserved" => ledger'[n.key].age = 0,
           n.step = "requesting" => ledger'[n.key].age = BootTimeout - n.left,
           \A c \in Askers : c # a /\ Opening(c) =>
              asker[c].key # n.key /\ ledger'[asker[c].key] = ledger[asker[c].key]
    PROVE  QuotaInv'
  <1>1. asker \in [Askers -> AskerType]
    BY DEF QuotaInv, QuotaTypeOK, AskerType
  <1>2. ASSUME NEW c \in Askers PROVE Informed(c)' /\ RowHeld(c)'
    <2>1. CASE c = a
      <3>1. asker'[c] = n
        BY <1>1, <2>1
      <3> QED
        BY <3>1 DEF Informed, RowHeld, Opening
    <2>2. CASE c # a
      <3>1. asker'[c] = asker[c] /\ Informed(c) /\ RowHeld(c)
        BY <1>1, <2>2 DEF QuotaInv
      <3>2. Informed(c)'
        BY <3>1 DEF Informed, UnderPace
      <3>3. RowHeld(c)'
        BY <2>2, <3>1 DEF RowHeld, Opening
      <3> QED
        BY <3>2, <3>3
    <2> QED
      BY <2>1, <2>2
  <1>3. OneOpens'
    <2>1. \A c \in Askers : c # a => asker'[c] = asker[c]
      BY <1>1
    <2>2. asker'[a] = n
      BY <1>1
    <2> QED
      BY <2>1, <2>2 DEF QuotaInv, OneOpens, Opening
  <1> QED
    BY <1>2, <1>3 DEF QuotaInv

LEMMA ReserveSafe == ASSUME QuotaAssumption, QuotaInv, NEW a \in Askers, ReserveBootstrap(a) PROVE QuotaInv'
  <1>1. QuotaTypeOK /\ cached \in Readings /\ asker \in [Askers -> AskerType] /\ period.key \in 0..1
    BY DEF QuotaInv, QuotaTypeOK, AskerType
  <1>2. UNCHANGED <<window, period, cached, cooling, faults, requests>>
    BY DEF ReserveBootstrap
  <1>3. CASE Unreserved(period.key)
    <2> DEFINE n == [[asker[a] EXCEPT !.step = "reserved"] EXCEPT !.key = period.key]
    <2>1. n \in AskerType /\ n.step = "reserved" /\ n.key = period.key /\ asker' = [asker EXCEPT ![a] = n]
      BY <1>1, <1>3 DEF ReserveBootstrap, AskerType
    <2>2. ledger' = [ledger EXCEPT ![period.key] = [state |-> "in-progress", age |-> 0]]
      BY <1>3 DEF ReserveBootstrap
    <2> HIDE DEF n
    <2>3. ledger' \in [0..1 -> [state: {"none", "in-progress", "done"}, age: 0..RetryAfter]]
      BY <1>1, <2>2 DEF QuotaTypeOK, QuotaAssumption
    <2>4. QuotaTypeOK'
      BY <1>1, <1>2, <2>1, <2>3 DEF QuotaTypeOK, AskerType
    <2>5. (Servable(cached) => Current(cached))'
      BY <1>2 DEF QuotaInv, Servable, Current, Active
    <2>6. \A c \in Askers : Opening(c) =>
             asker[c].key # n.key /\ ledger'[asker[c].key] = ledger[asker[c].key]
      BY <1>1, <1>3, <2>1, <2>2 DEF QuotaInv, RowHeld, Unreserved, QuotaTypeOK
    <2>7. ledger'[n.key] = [state |-> "in-progress", age |-> 0]
      BY <1>1, <2>1, <2>2 DEF QuotaTypeOK
    <2>8. ledger'[n.key].state = "in-progress" /\ ledger'[n.key].age = 0 /\ n.step # "requesting"
      BY <2>1, <2>7
    <2>9. window'.number = window.number /\ window'.left = window.left
      BY <1>2
    <2> QED
      BY <2>1, <2>4, <2>5, <2>6, <2>8, <2>9, OneGoesOn
  <1>4. CASE ~Unreserved(period.key)
    <2> DEFINE n == [Asleep EXCEPT !.polled = TRUE]
    <2>1. n \in AskerType /\ n.step = "asleep"
      BY BareReading DEF Asleep, AskerType
    <2>2. asker' = [asker EXCEPT ![a] = n] /\ UNCHANGED ledger
      BY <1>4 DEF ReserveBootstrap
    <2> HIDE DEF n
    <2> QED
      BY <1>1, <1>2, <2>1, <2>2, OneDecides DEF QuotaInv, QuotaTypeOK, Current
  <1> QED
    BY <1>3, <1>4

LEMMA RequestSafe == ASSUME QuotaAssumption, QuotaInv, NEW a \in Askers, Request(a) PROVE QuotaInv'
  <1>1. QuotaTypeOK /\ asker \in [Askers -> AskerType] /\ BootTimeout \in Nat /\ Opening(a) /\ RowHeld(a)
    BY DEF QuotaInv, QuotaTypeOK, AskerType, QuotaAssumption, Request, Opening
  <1> DEFINE m == [asker[a] EXCEPT !.step = "requesting"]
             n == [m EXCEPT !.left = BootTimeout]
  <1>2. /\ n \in AskerType /\ n.step = "requesting" /\ n.key = asker[a].key /\ n.left = BootTimeout
        /\ asker' = [asker EXCEPT ![a] = n]
    <2>1. asker' = [asker EXCEPT ![a] = n]
      BY <1>1 DEF Request
    <2>2. m \in AskerType /\ m.step = "requesting" /\ m.key = asker[a].key
      BY <1>1 DEF AskerType
    <2> HIDE DEF m
    <2>3. n \in AskerType /\ n.step = "requesting" /\ n.key = asker[a].key /\ n.left = BootTimeout
      BY <1>1, <2>2 DEF AskerType
    <2> QED
      BY <2>1, <2>3
  <1>3. UNCHANGED <<window, period, cached, cooling, ledger, faults>> /\ requests' \in 0..2
    BY <1>1 DEF Request, QuotaTypeOK
  <1>4. asker[a].step = "reserved"
    BY DEF Request
  <1> HIDE DEF n
  <1>5. QuotaTypeOK'
    BY <1>1, <1>2, <1>3 DEF QuotaTypeOK, AskerType
  <1>6. (Servable(cached) => Current(cached))'
    BY <1>3 DEF QuotaInv, Servable, Current, Active
  <1>7. \A c \in Askers : c # a /\ Opening(c) => asker[c].key # n.key
    BY <1>1, <1>2 DEF QuotaInv, OneOpens
  <1>8. ledger[n.key].state = "in-progress" /\ ledger[n.key].age = BootTimeout - n.left
    BY <1>1, <1>2, <1>4 DEF RowHeld
  <1> QED
    BY <1>2, <1>3, <1>5, <1>6, <1>7, <1>8, OneGoesOn

LEMMA OutcomeSafe == ASSUME QuotaAssumption, QuotaInv, NEW a \in Askers, Outcome(a) PROVE QuotaInv'
  <1>1. /\ QuotaTypeOK /\ asker \in [Askers -> AskerType] /\ Opening(a) /\ RowHeld(a)
        /\ window \in [left: 0..Length, used: 0..Length, number: 0..2] /\ Length \in Nat \ {0}
    BY DEF QuotaInv, QuotaTypeOK, AskerType, QuotaAssumption, Outcome, Opening
  <1> DEFINE n == [asker[a] EXCEPT !.step = "settle"]
             w == [left |-> Length, used |-> 0, number |-> window.number]
  <1>2. n \in AskerType /\ n.step = "settle" /\ n.key = asker[a].key /\ asker' = [asker EXCEPT ![a] = n]
    BY <1>1 DEF Outcome, AskerType
  <1>3. UNCHANGED <<period, cached, cooling, ledger, requests>> /\ faults' \in 0..MaxFaults
    BY <1>1 DEF Outcome, QuotaTypeOK, QuotaAssumption
  <1>4. w \in [left: 0..Length, used: 0..Length, number: 0..2] /\ w.number = window.number
    BY <1>1
  <1>5. window' = window \/ (window.left = 0 /\ window' = w)
    <2>1. \/ window' = window
          \/ window.left = 0 /\ window' = [window EXCEPT !.left = Length, !.used = 0]
      BY DEF Outcome
    <2>2. CASE window.left = 0 /\ window' = [window EXCEPT !.left = Length, !.used = 0]
      <3>1. window' = w
        BY <1>1, <2>2
      <3> QED
        BY <2>2, <3>1
    <2> QED
      BY <2>1, <2>2
  <1> HIDE DEF n, w
  <1>6. /\ window' \in [left: 0..Length, used: 0..Length, number: 0..2] /\ window'.number = window.number
        /\ window'.left = window.left \/ window.left = 0
    BY <1>1, <1>4, <1>5
  <1>7. QuotaTypeOK'
    BY <1>1, <1>2, <1>3, <1>6 DEF QuotaTypeOK, AskerType
  <1>8. (Servable(cached) => Current(cached))'
    <2>1. Servable(cached) => window.left # 0
      BY <1>1 DEF QuotaInv, Servable, Current, Active, QuotaTypeOK, Readings
    <2> QED
      BY <1>3, <1>5, <2>1 DEF QuotaInv, Servable, Current, Active
  <1>9. \A c \in Askers : c # a /\ Opening(c) => asker[c].key # n.key
    BY <1>1, <1>2 DEF QuotaInv, OneOpens
  <1> QED
    BY <1>1, <1>2, <1>3, <1>6, <1>7, <1>8, <1>9, OneGoesOn, ZenonT(60) DEF RowHeld

\* Time passes for a reading: nothing that may still be served becomes of another window.
LEMMA ReadingAges ==
    ASSUME QuotaAssumption, NEW r \in Readings
    PROVE  /\ Aged(r) \in Readings /\ Aged(r).of = r.of /\ Aged(r).left = r.left
           /\ Servable(Aged(r)) => Servable(r) /\ Aged(r).age = r.age + 1 /\ r.left > r.age + 1
  <1>1. CASE r = NoReading
    BY <1>1 DEF Aged, NoReading, Servable, Active, Readings
  <1>2. CASE r # NoReading /\ r.age > CacheTTL
    <2>1. Aged(r) = r
      BY <1>2 DEF Aged
    <2> QED
      BY <1>2, <2>1 DEF Servable, Readings, QuotaAssumption
  <1>3. CASE r # NoReading /\ ~(r.age > CacheTTL)
    <2> DEFINE n == [r EXCEPT !.age = r.age + 1]
    <2>1. Aged(r) = n
      BY <1>3 DEF Aged
    <2>2. n \in Readings /\ n.of = r.of /\ n.left = r.left /\ n.age = r.age + 1
      BY <1>3 DEF Readings, QuotaAssumption
    <2> HIDE DEF n
    <2> QED
      BY <1>3, <2>1, <2>2 DEF Servable, Active, Readings, QuotaAssumption
  <1> QED
    BY <1>1, <1>2, <1>3

LEMMA RowAges ==
    ASSUME QuotaAssumption, NEW row \in [state: {"none", "in-progress", "done"}, age: 0..RetryAfter]
    PROVE  /\ RowAged(row) \in [state: {"none", "in-progress", "done"}, age: 0..RetryAfter]
           /\ row.state = "in-progress" /\ row.age + 1 < StaleAfter =>
                RowAged(row).state = "in-progress" /\ RowAged(row).age = row.age + 1
  <1> DEFINE n == [row EXCEPT !.age = row.age + 1]
  <1>1. RowAged(row) \in {row, NoRow, n}
    BY DEF RowAged
  <1>2. RowAged(row) = n => row.age + 1 <= RetryAfter \/ n \in {row, NoRow}
    BY DEF RowAged, QuotaAssumption
  <1>3. NoRow \in [state: {"none", "in-progress", "done"}, age: 0..RetryAfter]
    BY DEF NoRow, QuotaAssumption
  <1>4. row.state = "in-progress" /\ row.age + 1 < StaleAfter => RowAged(row) = n
    BY DEF RowAged, QuotaAssumption
  <1>5. row.age + 1 <= RetryAfter => n \in [state: {"none", "in-progress", "done"}, age: 0..RetryAfter]
    BY DEF QuotaAssumption
  <1> QED
    BY <1>1, <1>2, <1>3, <1>4, <1>5

LEMMA TimeSafe == ASSUME QuotaAssumption, QuotaInv, QuotaTick PROVE QuotaInv'
  <1>1. /\ QuotaTypeOK /\ asker \in [Askers -> AskerType] /\ cached \in Readings
        /\ window \in [left: 0..Length, used: 0..Length, number: 0..2]
        /\ period \in [key: 0..1, left: 1..Length]
        /\ ledger \in [0..1 -> [state: {"none", "in-progress", "done"}, age: 0..RetryAfter]]
    BY DEF QuotaInv, QuotaTypeOK, AskerType
  <1>2. /\ asker' = [a \in Askers |-> [asker[a] EXCEPT !.left = Down(@), !.reading = Aged(@), !.polled = FALSE]]
        /\ ledger' = [k \in 0..1 |-> RowAged(ledger[k])]
        /\ cached' = Aged(cached) /\ cooling' = Down(cooling) /\ faults' = faults
    BY DEF QuotaTick
  <1>3. ASSUME NEW a \in Askers
        PROVE  /\ asker'[a] \in AskerType /\ asker'[a].step = asker[a].step /\ asker'[a].key = asker[a].key
               /\ asker'[a].left = Down(asker[a].left)
    <2> DEFINE m == [asker[a] EXCEPT !.left = Down(asker[a].left)]
               l == [m EXCEPT !.reading = Aged(asker[a].reading)]
               n == [l EXCEPT !.polled = FALSE]
    <2>1. asker'[a] = n
      BY <1>1, <1>2 DEF AskerType
    <2>2. m \in AskerType /\ m.step = asker[a].step /\ m.key = asker[a].key /\ m.left = Down(asker[a].left)
      BY <1>1 DEF AskerType, Down, QuotaAssumption
    <2> HIDE DEF m
    <2>3. Aged(asker[a].reading) \in Readings
      BY <1>1, ReadingAges DEF AskerType
    <2>4. l \in AskerType /\ l.step = m.step /\ l.key = m.key /\ l.left = m.left
      BY <2>2, <2>3 DEF AskerType
    <2> HIDE DEF l
    <2>5. n \in AskerType /\ n.step = l.step /\ n.key = l.key /\ n.left = l.left
      BY <2>4 DEF AskerType
    <2> QED
      BY <2>1, <2>2, <2>4, <2>5
  <1>4. ASSUME NEW a \in Askers
        PROVE  /\ asker[a].step \notin {"told", "launch", "reserved", "settle"}
               /\ asker[a].step = "requesting" => asker[a].left > 0
    BY DEF QuotaTick
  <1>5. /\ window' \in [left: 0..Length, used: 0..Length, number: 0..2]
        /\ window.left > 1 => window'.left + 1 = window.left /\ window'.number = window.number
    <2>1. CASE window.left = 1
      <3>1. window' = [left |-> 0, used |-> 0, number |-> (window.number + 1) % 3]
        BY <2>1 DEF QuotaTick
      <3>2. window.number \in 0..2
        BY <1>1
      <3>3. (window.number + 1) % 3 \in 0..2
        BY <3>2
      <3> QED
        BY <2>1, <3>1, <3>3 DEF QuotaAssumption
    <2>2. CASE window.left # 1
      <3>1. window' = [window EXCEPT !.left = Down(window.left)]
        BY <2>2 DEF QuotaTick
      <3> QED
        BY <1>1, <2>2, <3>1 DEF Down, QuotaAssumption
    <2> QED
      BY <2>1, <2>2
  <1>6. period' \in [key: 0..1, left: 1..Length] /\ requests' \in 0..2
    <2>1. CASE period.left = 1
      <3>1. period' = [key |-> 1 - period.key, left |-> Length] /\ requests' = 0
        BY <2>1 DEF QuotaTick
      <3>2. period.key \in {0, 1}
        BY <1>1
      <3> QED
        BY <3>1, <3>2 DEF QuotaAssumption
    <2>2. CASE period.left # 1
      <3>1. period' = [period EXCEPT !.left = period.left - 1] /\ requests' = requests
        BY <2>2 DEF QuotaTick
      <3> QED
        BY <1>1, <2>2, <3>1 DEF QuotaAssumption, QuotaTypeOK
    <2> QED
      BY <2>1, <2>2
  <1>7. QuotaTypeOK'
    <2>1. asker' \in [Askers -> AskerType]
      BY <1>2, <1>3
    <2>2. ledger' \in [0..1 -> [state: {"none", "in-progress", "done"}, age: 0..RetryAfter]]
      BY <1>1, <1>2, RowAges
    <2>3. cached' \in Readings
      BY <1>1, <1>2, ReadingAges
    <2>4. cooling' \in 0..CacheTTL /\ faults' \in 0..MaxFaults
      <3>1. cooling \in 0..CacheTTL /\ faults \in 0..MaxFaults /\ CacheTTL \in Nat
        BY <1>1 DEF QuotaAssumption, QuotaTypeOK
      <3>2. cooling' = Down(cooling) /\ faults' = faults
        BY <1>2
      <3> QED
        BY <3>1, <3>2 DEF Down
    <2> QED
      BY <1>5, <1>6, <2>1, <2>2, <2>3, <2>4 DEF QuotaTypeOK, AskerType
  <1>8. (Servable(cached) => Current(cached))'
    <2> SUFFICES ASSUME Servable(cached') PROVE Current(cached)'
      BY DEF Servable, Active
    <2>1. /\ Servable(cached) /\ cached'.age = cached.age + 1 /\ cached.left > cached.age + 1
          /\ cached'.of = cached.of /\ cached'.left = cached.left
      BY <1>1, <1>2, ReadingAges
    <2>2. cached.of = window.number /\ cached.left = window.left + cached.age
      BY <2>1 DEF QuotaInv, Current
    <2> QED
      BY <1>1, <1>5, <2>1, <2>2 DEF Current, Readings
  <1>9. ASSUME NEW a \in Askers PROVE Informed(a)' /\ RowHeld(a)'
    <2>1. Informed(a)'
      BY <1>3, <1>4 DEF Informed
    <2>2. RowHeld(a)'
      <3>1. CASE asker[a].step = "requesting"
        <4>1. /\ ledger[asker[a].key].state = "in-progress" /\ asker[a].left \in 1..BootTimeout /\ asker[a].key \in 0..1
              /\ ledger[asker[a].key].age = BootTimeout - asker[a].left
          BY <1>1, <1>4, <3>1 DEF QuotaInv, RowHeld, Opening, AskerType
        <4>2. ledger[asker[a].key].age + 1 < StaleAfter
          BY <4>1 DEF QuotaAssumption
        <4>3. /\ ledger'[asker[a].key].state = "in-progress"
              /\ ledger'[asker[a].key].age = ledger[asker[a].key].age + 1
          BY <1>1, <1>2, <4>1, <4>2, RowAges
        <4> QED
          BY <1>3, <3>1, <4>1, <4>3 DEF RowHeld, Opening, Down, QuotaAssumption
      <3>2. CASE asker[a].step # "requesting"
        BY <1>3, <1>4, <3>2 DEF RowHeld, Opening
      <3> QED
        BY <3>1, <3>2
    <2> QED
      BY <2>1, <2>2
  <1>10. OneOpens'
    BY <1>3 DEF QuotaInv, OneOpens, Opening
  <1> QED
    BY <1>7, <1>8, <1>9, <1>10 DEF QuotaInv

LEMMA PacerStutters == ASSUME QuotaInv, UNCHANGED qvars PROVE QuotaInv'
  <1>1. QuotaTypeOK' /\ (Servable(cached) => Current(cached))'
    BY DEF qvars, QuotaInv, QuotaTypeOK, Servable, Active, Current
  <1>2. OneOpens' /\ \A a \in Askers : Informed(a)' /\ RowHeld(a)'
    BY DEF qvars, QuotaInv, OneOpens, Informed, RowHeld, Opening, UnderPace
  <1> QED
    BY <1>1, <1>2 DEF QuotaInv

LEMMA PacerGoesOn == ASSUME QuotaAssumption, QuotaInv, [QuotaNext]_qvars PROVE QuotaInv'
  BY PollSafe, AnswersSafe, RefusesSafe, ToldSafe, RefusedSafe, RoundSafe, ReserveSafe, RequestSafe, OutcomeSafe,
     SettleSafe, KilledAskerSafe, TimeSafe, PacerStutters DEF QuotaNext

LEMMA PacerMeans == ASSUME QuotaInv PROVE QuotaTypeOK /\ LaunchesOnItsWindow /\ OneBootstrap
  <1>1. LaunchesOnItsWindow
    BY DEF QuotaInv, LaunchesOnItsWindow, Informed, UnderPace
  <1>2. OneBootstrap
    <2> SUFFICES ASSUME NEW k \in 0..1
                 PROVE  Cardinality({a \in Askers : asker[a].key = k /\ asker[a].step \in {"reserved", "requesting"}}) <= 1
      BY DEF OneBootstrap
    <2> DEFINE S == {a \in Askers : asker[a].key = k /\ asker[a].step \in {"reserved", "requesting"}}
    <2>1. \A x, y \in S : x = y
      BY DEF QuotaInv, OneOpens, Opening
    <2> HIDE DEF S
    <2>2. Cardinality(S) <= 1
      BY <2>1, AtMostOne
    <2> QED
      BY <2>2 DEF S
  <1> QED
    BY <1>1, <1>2 DEF QuotaInv

\* For any workers, kills, refusals and lengths of the window, as long as a record outlives its request: a round is
\* launched only by a reading of the window that is open, under its line when it was taken, and one worker at a time
\* makes the request that opens a window (quota.py).
THEOREM PacerIsSafe == QuotaAssumption => (QuotaSpec => [](QuotaTypeOK /\ LaunchesOnItsWindow /\ OneBootstrap))
  <1> SUFFICES ASSUME QuotaAssumption
               PROVE  QuotaSpec => [](QuotaTypeOK /\ LaunchesOnItsWindow /\ OneBootstrap)
    OBVIOUS
  <1>1. QuotaInit => QuotaInv
    BY PacerStarts
  <1>2. QuotaInv /\ [QuotaNext]_qvars => QuotaInv'
    BY PacerGoesOn
  <1>3. QuotaInv => QuotaTypeOK /\ LaunchesOnItsWindow /\ OneBootstrap
    BY PacerMeans
  <1> QED
    BY <1>1, <1>2, <1>3, PTL DEF QuotaSpec
=============================================================================
