------------------------------ MODULE Gateway ------------------------------
(***************************************************************************)
(* Reads of the GitHub state service (tauceti_worker/github_state.py): the *)
(* circuit breaker that the processes of a host share for one query, its   *)
(* recovery probe with a lease, the service's Retry-After, the cooldown    *)
(* while the service's inventory is incomplete, and the assembly of a      *)
(* paged answer.                                                           *)
(*                                                                         *)
(* Durations are in ticks: a page arrives within Patience, which is less   *)
(* than the probe's Lease, which is less than the Backoff of an open       *)
(* circuit (5, 15 and 30 seconds and more).  A file holds the ticks left   *)
(* instead of a time of day.                                               *)
(***************************************************************************)
EXTENDS Naturals, FiniteSets

CONSTANTS Clients,     \* processes that read
          Patience, Lease, Backoff,
          Threshold,   \* failures that open the circuit
          MaxPages,    \* bound: pages of an answer
          MaxRevision, \* bound: revisions of the mirror
          MaxOutages   \* bound: times the service goes down or loses coverage

NoClient == "nobody"

GatewayAssumption == /\ Patience \in Nat \ {0} /\ Lease \in Nat /\ Backoff \in Nat
                     /\ Patience < Lease /\ Lease <= Backoff
                     /\ Threshold \in Nat \ {0} /\ NoClient \notin Clients
                     /\ MaxPages \in Nat \ {0} /\ MaxRevision \in Nat \ {0}
                     /\ MaxOutages \in Nat

VARIABLES circuit,   \* the query's circuit file
          limit,     \* retry-after.json: ticks the service asked to be left alone
          coverage,  \* ticks left of the coverage cooldown
          client,    \* what each process is doing
          stored,    \* the revision of the response on disk, 0 if none
          service,   \* the mirror: its revision, and how it answers
          outages    \* how often it has failed

gwvars == <<circuit, limit, coverage, client, stored, service, outages>>

Away == [step |-> "away", prober |-> FALSE, attempt |-> 0, left |-> 0,
         pages |-> 0, seen |-> {}, have |-> 0]

GatewayTypeOK ==
  /\ circuit \in [failures: 0..Threshold, until: 0..Backoff,
                  probe: Clients \cup {NoClient}, lease: 0..Lease]
  /\ limit \in 0..Backoff /\ coverage \in 0..Backoff
  /\ client \in [Clients -> [step: {"away", "reading", "answered", "refused"},
                             prober: BOOLEAN, attempt: 0..2, left: 0..Patience,
                             pages: 0..MaxPages, seen: SUBSET (1..MaxRevision),
                             have: 0..MaxRevision]]
  /\ stored \in 0..MaxRevision
  /\ service \in [revision: 1..MaxRevision, mood: {"up", "down", "partial"}]
  /\ outages \in 0..MaxOutages

GatewayInit ==
  /\ circuit = [failures |-> 0, until |-> 0, probe |-> NoClient, lease |-> 0]
  /\ limit = 0 /\ coverage = 0
  /\ client = [c \in Clients |-> Away]
  /\ stored = 0
  /\ service = [revision |-> 1, mood |-> "up"]
  /\ outages = 0

-----------------------------------------------------------------------------
\* A read begins.

Sooner(n) == IF n = 0 THEN 0 ELSE n - 1

\* Open, or half open with somebody else's probe under way.
Closed == circuit.until = 0 /\ circuit.lease = 0

\* Refused from what is on file, without a request.
TurnedAway(c) ==
  /\ client[c].step = "away"
  /\ limit > 0 \/ ~Closed \/ coverage > 0
  /\ client' = [client EXCEPT ![c] = [Away EXCEPT !.step = "refused"]]
  /\ UNCHANGED <<circuit, limit, coverage, stored, service, outages>>

\* Only one process probes recovery: it leases the probe.
Leased(c) == IF circuit.failures >= Threshold
             THEN [circuit EXCEPT !.probe = c, !.lease = Lease]
             ELSE circuit

Begin(c) ==
  /\ client[c].step = "away"
  /\ limit = 0 /\ Closed /\ coverage = 0
  /\ circuit' = Leased(c)
  /\ client' = [client EXCEPT ![c] = [step |-> "reading", attempt |-> 1,
                  prober |-> circuit.failures >= Threshold,
                  left |-> Patience, pages |-> 0, seen |-> {}, have |-> stored]]
  /\ UNCHANGED <<limit, coverage, stored, service, outages>>

-----------------------------------------------------------------------------
\* Pages.

Reading(c) == client[c].step = "reading"

\* A prober renews its own lease with every page.
Renewed(c) == IF client[c].prober /\ circuit.probe = c
              THEN [circuit EXCEPT !.lease = Lease] ELSE circuit

\* Mutant: pages are put together whatever their revision.
AnyRevision(c) == TRUE

SameRevision(c) == client[c].seen \subseteq {service.revision}

\* A page that is not the last.
NextPage(c) ==
  /\ Reading(c) /\ service.mood = "up" /\ SameRevision(c)
  /\ client[c].pages + 1 < MaxPages
  /\ circuit' = Renewed(c)
  /\ client' = [client EXCEPT ![c].pages = @ + 1, ![c].left = Patience,
                              ![c].seen = @ \cup {service.revision}]
  /\ UNCHANGED <<limit, coverage, stored, service, outages>>

Recovered == [failures |-> 0, until |-> 0, probe |-> NoClient, lease |-> 0]

\* Nobody's probe outlives the open circuit it was leased for (a history of
\* the probes; the code compares probe identifiers).
NoProber == [d \in Clients |-> [client[d] EXCEPT !.prober = FALSE]]

\* The last page: the whole answer is stored, and the circuit closed, even if
\* others failed since this read began.
LastPage(c) ==
  /\ Reading(c) /\ service.mood = "up" /\ SameRevision(c)
  /\ stored' = service.revision
  /\ circuit' = Recovered
  /\ client' = [NoProber EXCEPT ![c].step = "answered", ![c].seen = @ \cup {service.revision}]
  /\ UNCHANGED <<limit, coverage, service, outages>>

\* 304: what was stored when the read began is current; only asked with the
\* first page.
NotModified(c) ==
  /\ Reading(c) /\ service.mood = "up"
  /\ client[c].pages = 0 /\ client[c].have = service.revision
  /\ circuit' = Recovered
  /\ client' = [NoProber EXCEPT ![c].step = "answered", ![c].seen = {service.revision}]
  /\ UNCHANGED <<limit, coverage, stored, service, outages>>

\* Incomplete coverage says nothing about the service's health: peers share a
\* cooldown, the circuit is left as it is.
Partial(c) ==
  /\ Reading(c) /\ service.mood = "partial"
  /\ coverage' = Backoff
  /\ client' = [client EXCEPT ![c] = [Away EXCEPT !.step = "refused"]]
  /\ UNCHANGED <<circuit, limit, stored, service, outages>>

-----------------------------------------------------------------------------
\* Failures.

\* The first failure is retried while the patience lasts.
Retry(c) ==
  /\ Reading(c) /\ client[c].attempt = 1 /\ client[c].left > 0
  /\ service.mood = "down" \/ ~SameRevision(c)
  /\ client' = [client EXCEPT ![c].attempt = 2, ![c].pages = 0, ![c].seen = {}]
  /\ UNCHANGED <<circuit, limit, coverage, stored, service, outages>>

\* A failure of a read that is not the probe leaves the probe's lease intact.
KeptLease(c) ==
  IF circuit.probe = c THEN [probe |-> NoClient, lease |-> 0]
  ELSE [probe |-> circuit.probe, lease |-> circuit.lease]

Failed(c) ==
  LET failures == IF circuit.failures = Threshold THEN Threshold
                  ELSE circuit.failures + 1 IN
  [failures |-> failures,
   until |-> IF failures >= Threshold THEN Backoff ELSE 0,
   probe |-> KeptLease(c).probe, lease |-> KeptLease(c).lease]

\* Both attempts failed or the patience is over, with Retry-After or without.
GiveUpRead(c) ==
  /\ Reading(c)
  /\ service.mood = "down" \/ ~SameRevision(c) \/ client[c].left = 0
  /\ \E after \in {0, Backoff} :
       /\ client[c].attempt = 2 \/ client[c].left = 0 \/ after > 0
       /\ after > 0 => service.mood = "down"
       /\ limit' = IF limit >= after THEN limit ELSE after
  /\ circuit' = Failed(c)
  /\ client' = [client EXCEPT ![c] = [Away EXCEPT !.step = "refused"]]
  /\ UNCHANGED <<coverage, stored, service, outages>>

\* The caller goes on, with the answer or with GitHub itself.
Depart(c) ==
  /\ client[c].step \in {"answered", "refused"}
  /\ client' = [client EXCEPT ![c] = Away]
  /\ UNCHANGED <<circuit, limit, coverage, stored, service, outages>>

-----------------------------------------------------------------------------
\* The service, the clock, and processes that are killed.

ServiceTurns ==
  /\ \/ /\ service.mood = "up" /\ outages < MaxOutages
        /\ \E mood \in {"down", "partial"} :
             service' = [service EXCEPT !.mood = mood]
        /\ outages' = outages + 1
     \/ /\ service.mood # "up"
        /\ service' = [service EXCEPT !.mood = "up"]
        /\ UNCHANGED outages
     \/ /\ service.revision < MaxRevision
        /\ service' = [service EXCEPT !.revision = @ + 1]
        /\ UNCHANGED outages
  /\ UNCHANGED <<circuit, limit, coverage, client, stored>>

\* A request does not outlast its patience.
GatewayTick ==
  /\ \A c \in Clients : Reading(c) => client[c].left > 0
  /\ circuit' = [circuit EXCEPT !.until = Sooner(@), !.lease = Sooner(@)]
  /\ limit' = Sooner(limit) /\ coverage' = Sooner(coverage)
  /\ client' = [c \in Clients |-> [client[c] EXCEPT !.left = Sooner(@)]]
  /\ UNCHANGED <<stored, service, outages>>

\* A killed process leaves its lease behind.
KillClient(c) ==
  /\ Reading(c) /\ outages < MaxOutages
  /\ outages' = outages + 1
  /\ client' = [client EXCEPT ![c] = Away]
  /\ UNCHANGED <<circuit, limit, coverage, stored, service>>

-----------------------------------------------------------------------------
Response(c) == NextPage(c) \/ LastPage(c) \/ NotModified(c) \/ Partial(c)
              \/ Retry(c) \/ GiveUpRead(c)

GatewayNext ==
  \/ \E c \in Clients : \/ TurnedAway(c) \/ Begin(c) \/ Response(c) \/ Depart(c)
                        \/ KillClient(c)
  \/ ServiceTurns \/ GatewayTick

GatewaySpec == GatewayInit /\ [][GatewayNext]_gwvars

\* The clock runs, callers come back, the service recovers from an outage, and
\* one that is up answers.
ComesBack == service.mood # "up" /\ ServiceTurns
GatewayFairness ==
  /\ WF_gwvars(GatewayTick)
  /\ WF_gwvars(ComesBack)
  /\ SF_gwvars(\E c \in Clients : Begin(c))
  /\ SF_gwvars(\E c \in Clients : LastPage(c) \/ NotModified(c))
  /\ \A c \in Clients : WF_gwvars(Depart(c)) /\ WF_gwvars(Retry(c) \/ GiveUpRead(c))

GatewayFairSpec == GatewaySpec /\ GatewayFairness

-----------------------------------------------------------------------------
\* While the circuit is open at most one process probes, however long its
\* answer is and however reads that began before fail around it, until one of
\* them is answered in full and closes the circuit
\* (github_state.py:318-322, 452-455, 480-481).
OneProber ==
  /\ Cardinality({c \in Clients : client[c].prober}) <= 1
  /\ \A c \in Clients : client[c].prober => circuit.probe = c

\* An answer is one revision of the mirror from its first page to its last, and
\* so is what is stored (github_state.py:420-423).
OneRevision == \A c \in Clients : client[c].step = "answered" =>
                                    Cardinality(client[c].seen) = 1

GatewaySafe == GatewayTypeOK /\ OneProber /\ OneRevision

\* The circuit does not stay open: whatever failed, whoever was killed with the
\* probe in its hands, a service that stays up is used again.
Opened == circuit.failures >= Threshold
=============================================================================
