---------------------------- MODULE LedgerProofs ----------------------------
(***************************************************************************)
(* The theorems about what a worker's host has on record of its work: the   *)
(* verification jobs with the copies they go on in, and the ledger of the   *)
(* paid sessions, first what is kept of a session and then what it costs.   *)
(***************************************************************************)
EXTENDS VerifyJobs, Budget, FiniteSetTheorems, SequenceTheorems, WellFoundedInduction, TLAPS

-----------------------------------------------------------------------------
(* The verification jobs. *)

RunPhases == {"off", "prepare", "bind", "build", "index", "rest", "copy", "copied", "publish", "settle", "unlink"}
RunType == [at : RunPhases, job : Jobs \cup {Nothing}, tree : Trees, src : 0..MaxEdits,
            rec : JobRecords \cup {Nothing}, fp : Fingerprints, exit : {"ended", "error"}]
JournalType == [stack : BOOLEAN, gen : 0..MaxGens, copying : BOOLEAN]
SupType == [at : {"idle", "looked", "copy", "copied", "own", "launch", "drop"}, job : Jobs \cup {Nothing},
            rec : JobRecords \cup {Nothing}]
GcType == [at : {"idle", "discard", "generation", "journal", "remove", "inventory"}, job : Jobs \cup {Nothing},
           gen : 0..MaxGens]

Counts == [fresh : Nat, edits : 0..MaxEdits, upsets : Nat]

JobsTyped ==
  /\ version \in [Trees -> 0..MaxEdits] /\ copy \in [Jobs -> {"none", "part", "whole"}]
  /\ builds \in [Jobs -> {"whole", "torn", "lost"}] /\ marker \in [Jobs -> 0..MaxEdits \cup {Nothing}]
  /\ pend \in [Jobs -> JobRecords \cup {Nothing}] /\ done \in [Jobs -> JobRecords \cup {Nothing}]
  /\ gen \in [Jobs -> 0..MaxGens] /\ journal \in [Jobs -> JournalType]
  /\ jlock \in [Jobs -> SUBSET (Helpers \cup {"sup", "gc"})] /\ slock \in [Jobs -> Runners \cup {"gc", Nothing}]
  /\ run \in [Runners -> RunType] /\ sup \in SupType /\ gc \in GcType
  /\ child \in [helper : Helpers \cup {Nothing}, job : Jobs \cup {Nothing}]
  /\ bound \in Counts

\* A job that was started has a record, pending or terminal, for good.
Started(j) == pend[j] # Nothing \/ done[j] # Nothing
Lives(rec) == rec # Nothing /\ rec.isolated

\* What is kept of a job: a copy is named as the job's own by the job alone, and who
\* reads the terminal record sees no copy in use that the pending one does not name.
Filed(j) ==
  /\ Lives(pend[j]) => pend[j].root = j
  /\ Lives(done[j]) => pend[j] = Nothing \/ pend[j].isolated
  /\ builds[j] = "torn" /\ copy[j] # "none" => journal[j].stack

Working(x) == run[x].at \in {"prepare", "bind", "build", "index", "rest"}
Alive(x) == run[x].at # "off"

\* A run has a started job, and holds the storage lock of the copy it works in.
RunHolds(x) ==
  /\ Alive(x) => /\ run[x].job \in Jobs /\ run[x].rec \in JobRecords /\ Started(run[x].job)
                 /\ run[x].rec.isolated => run[x].rec.root = run[x].job
  /\ run[x].at = "unlink" => done[run[x].job] # Nothing
  /\ Working(x) /\ IsCopy(run[x].tree) => slock[run[x].tree] = x /\ builds[run[x].tree] # "torn"
HelperHolds(h) == Alive(h) =>
  /\ jlock[run[h].job] = {h} /\ run[h].tree = run[h].job /\ run[h].rec.isolated
  /\ run[h].at \notin {"copy", "copied", "publish"}
  /\ pend[run[h].job] = Nothing \/ pend[run[h].job].isolated
  /\ Alive("agent") => run["agent"].job # run[h].job
AgentHolds ==
  /\ run["agent"].at # "prepare"
  /\ Alive("agent") => (run["agent"].rec.isolated <=> run["agent"].at = "settle")
  /\ run["agent"].at = "copied" => marker[run["agent"].job] # Nothing

\* The supervisor holds the lock of the job it has taken.
SupHas == sup.at \notin {"idle", "looked"}
SupHolds ==
  /\ sup.at # "idle" =>
       /\ sup.job \in Jobs /\ sup.rec \in JobRecords /\ Started(sup.job)
       /\ sup.rec.isolated => sup.rec.root = sup.job
       /\ ~sup.rec.isolated => /\ ~Lives(done[sup.job])
                               /\ \A h \in Helpers : Alive(h) => run[h].job # sup.job
  /\ SupHas => /\ jlock[sup.job] = {"sup"}
               /\ Alive("agent") => run["agent"].job # sup.job
  /\ sup.at = "copied" => copy[sup.job] = "part" /\ marker[sup.job] # Nothing
  /\ sup.at \in {"own", "launch"} => copy[sup.job] = "whole"
  /\ sup.at = "launch" => sup.rec.isolated /\ (pend[sup.job] = Nothing \/ pend[sup.job].isolated)

\* The collector holds both locks of the job whose copy it takes.
GcHolds ==
  /\ gc.at # "idle" =>
       /\ gc.job \in Jobs /\ Started(gc.job) /\ jlock[gc.job] = {"gc"} /\ slock[gc.job] = "gc"
       /\ Alive("agent") => run["agent"].job # gc.job
  /\ gc.at = "discard" => ~Lives(pend[gc.job]) /\ ~Lives(done[gc.job])
  /\ gc.at = "remove" => journal[gc.job].stack
  /\ gc.at = "inventory" => builds[gc.job] = "lost"

ChildKnown == child # NoChild => child.helper \in Helpers /\ child.job \in Jobs

VerifyInv ==
  /\ JobsTyped /\ ChildKnown /\ \A j \in Jobs : Filed(j)
  /\ \A x \in Runners : RunHolds(x)
  /\ \A h \in Helpers : HelperHolds(h)
  /\ AgentHolds /\ SupHolds /\ GcHolds
-----------------------------------------------------------------------------
(* Records and types. *)

LEMMA Names ==
    ASSUME VerifyAssumption
    PROVE  /\ MaxEdits \in Nat /\ MaxGens \in Nat \ {0} /\ Checkout \notin Jobs /\ Nothing \notin Jobs
           /\ Nothing \notin JobRecords /\ Nothing # "agent" /\ Nothing # "gc" /\ Nothing \notin 0..MaxEdits
           /\ \A h \in Helpers : h # Nothing /\ h # "agent" /\ h # "sup" /\ h # "gc"
  BY DEF VerifyAssumption

LEMMA RecordEdits ==
    ASSUME NEW rec \in JobRecords
    PROVE  /\ \A status \in {"pending", "incomplete", "success", "failed"} :
                /\ Ended(rec, status) \in JobRecords
                /\ Ended(rec, status).root = rec.root /\ Ended(rec, status).isolated = rec.isolated
           /\ \A fp \in Fingerprints : LET new == [rec EXCEPT !.fp = fp]
                                       IN  new \in JobRecords /\ new.root = rec.root /\ new.isolated = rec.isolated
           /\ \A j \in Jobs : Isolated(rec, j) \in JobRecords /\ Isolated(rec, j).root = j /\ Isolated(rec, j).isolated
  <1>1. ASSUME NEW status \in {"pending", "incomplete", "success", "failed"}
        PROVE  /\ Ended(rec, status) \in JobRecords
               /\ Ended(rec, status).root = rec.root /\ Ended(rec, status).isolated = rec.isolated
    BY DEF Ended, JobRecords
  <1>2. ASSUME NEW fp \in Fingerprints
        PROVE  LET new == [rec EXCEPT !.fp = fp]
               IN  new \in JobRecords /\ new.root = rec.root /\ new.isolated = rec.isolated
    BY DEF JobRecords
  <1>3. ASSUME NEW j \in Jobs
        PROVE  Isolated(rec, j) \in JobRecords /\ Isolated(rec, j).root = j /\ Isolated(rec, j).isolated
    BY DEF Isolated, JobRecords, Trees
  <1> QED
    BY <1>1, <1>2, <1>3

\* A run that goes on keeps all but its step.
SameRun(m, n) ==
  n \in RunType /\ n.job = m.job /\ n.tree = m.tree /\ n.src = m.src /\ n.rec = m.rec /\ n.fp = m.fp

LEMMA RunEdits ==
    ASSUME NEW m \in RunType
    PROVE  /\ \A at \in RunPhases : SameRun(m, [m EXCEPT !.at = at]) /\ [m EXCEPT !.at = at].at = at
           /\ \A rec \in JobRecords : LET n == [m EXCEPT !.rec = rec]
                                      IN  /\ n \in RunType /\ n.rec = rec /\ n.at = m.at /\ n.job = m.job
                                          /\ n.tree = m.tree /\ n.src = m.src /\ n.fp = m.fp
           /\ \A fp \in Fingerprints : LET n == [m EXCEPT !.fp = fp]
                                       IN  /\ n \in RunType /\ n.rec = m.rec /\ n.at = m.at /\ n.job = m.job
                                           /\ n.tree = m.tree /\ n.src = m.src /\ n.fp = fp
  <1>1. ASSUME NEW at \in RunPhases PROVE SameRun(m, [m EXCEPT !.at = at]) /\ [m EXCEPT !.at = at].at = at
    BY DEF RunType, SameRun
  <1>2. ASSUME NEW rec \in JobRecords
        PROVE  LET n == [m EXCEPT !.rec = rec]
               IN  /\ n \in RunType /\ n.rec = rec /\ n.at = m.at /\ n.job = m.job
                   /\ n.tree = m.tree /\ n.src = m.src /\ n.fp = m.fp
    BY DEF RunType
  <1>3. ASSUME NEW fp \in Fingerprints
        PROVE  LET n == [m EXCEPT !.fp = fp]
               IN  /\ n \in RunType /\ n.rec = m.rec /\ n.at = m.at /\ n.job = m.job
                   /\ n.tree = m.tree /\ n.src = m.src /\ n.fp = fp
    BY DEF RunType
  <1> QED
    BY <1>1, <1>2, <1>3

LEMMA NobodyRuns ==
    ASSUME VerifyAssumption
    PROVE  /\ NoRun \in RunType /\ NoRun.at = "off" /\ NoRun.rec = Nothing /\ NoRun.job = Nothing
           /\ \A how \in {"ended", "error"} :
                [NoRun EXCEPT !.exit = how] \in RunType /\ [NoRun EXCEPT !.exit = how].at = "off"
  <1>1. NoRun \in RunType /\ NoRun.at = "off" /\ NoRun.rec = Nothing /\ NoRun.job = Nothing
    BY Names DEF NoRun, RunType, RunPhases, Fingerprints, Trees
  <1> QED
    BY <1>1 DEF RunType

LEMMA NobodyElse ==
    ASSUME VerifyAssumption
    PROVE  /\ NoSup \in SupType /\ NoSup.at = "idle" /\ NoGc \in GcType /\ NoGc.at = "idle" /\ NoGc.gen = 0
           /\ NoJournal \in JournalType /\ ~NoJournal.stack
           /\ NoChild \in [helper : Helpers \cup {Nothing}, job : Jobs \cup {Nothing}]
  BY Names DEF NoSup, SupType, NoGc, GcType, NoJournal, JournalType, NoChild

LEMMA Upsets == ASSUME JobsTyped, Upset PROVE bound' \in Counts
  BY DEF JobsTyped, Upset, Counts

LEMMA NoUpset == ASSUME JobsTyped, UNCHANGED bound PROVE bound' \in Counts
  BY DEF JobsTyped

LEMMA VerifyBegins == ASSUME VerifyAssumption, VerifyInit PROVE VerifyInv
  <1>1. JobsTyped
    <2>1. bound \in Counts
      BY Names DEF VerifyInit, Counts
    <2>2. version \in [Trees -> 0..MaxEdits] /\ gen \in [Jobs -> 0..MaxGens]
      BY Names DEF VerifyInit
    <2>3. run \in [Runners -> RunType] /\ journal \in [Jobs -> JournalType]
      BY NobodyRuns, NobodyElse DEF VerifyInit
    <2>4. jlock \in [Jobs -> SUBSET (Helpers \cup {"sup", "gc"})] /\ slock \in [Jobs -> Runners \cup {"gc", Nothing}]
      BY DEF VerifyInit
    <2> QED
      BY <2>1, <2>2, <2>3, <2>4, NobodyElse DEF VerifyInit, JobsTyped
  <1>2. \A x \in Runners : run[x].at = "off"
    BY NobodyRuns DEF VerifyInit
  <1>3. \A j \in Jobs : Filed(j)
    BY DEF VerifyInit, Filed, Lives
  <1>4. \A x \in Runners : RunHolds(x)
    BY <1>2 DEF RunHolds, Alive, Working
  <1>5. \A h \in Helpers : HelperHolds(h)
    BY <1>2 DEF HelperHolds, Alive, Runners
  <1>6. AgentHolds
    BY <1>2 DEF AgentHolds, Alive, Runners
  <1>7. SupHolds /\ GcHolds
    BY NobodyElse DEF VerifyInit, SupHolds, SupHas, GcHolds
  <1>8. ChildKnown
    BY DEF VerifyInit, ChildKnown
  <1> QED
    BY <1>1, <1>3, <1>4, <1>5, <1>6, <1>7, <1>8 DEF VerifyInv

-----------------------------------------------------------------------------
(* One of them moves: what it may touch, and that the others stand. *)

\* Who works in a copy has its storage lock, who continues a job has its job lock.
LEMMA Distinct ==
    ASSUME VerifyAssumption, VerifyInv
    PROVE  /\ \A x, y \in Runners : Alive(x) /\ Alive(y) /\ x # y => run[x].job # run[y].job
           /\ SupHas => \A x \in Runners : Alive(x) => run[x].job # sup.job
           /\ gc.at # "idle" => \A x \in Runners : Alive(x) => run[x].job # gc.job
           /\ SupHas /\ gc.at # "idle" => sup.job # gc.job
  <1>1. \A h \in Helpers : HelperHolds(h)
    BY DEF VerifyInv
  <1>2. \A x \in Runners : x \in Helpers \/ x = "agent"
    BY DEF Runners
  <1>3. \A h, i \in Helpers : Alive(h) /\ Alive(i) /\ h # i => run[h].job # run[i].job
    BY <1>1 DEF HelperHolds
  <1>4. \A h \in Helpers : Alive(h) /\ Alive("agent") => run["agent"].job # run[h].job
    BY <1>1 DEF HelperHolds
  <1>5. SupHas => jlock[sup.job] = {"sup"} /\ (Alive("agent") => run["agent"].job # sup.job)
    BY DEF VerifyInv, SupHolds
  <1>6. gc.at # "idle" => jlock[gc.job] = {"gc"} /\ (Alive("agent") => run["agent"].job # gc.job)
    BY DEF VerifyInv, GcHolds
  <1>7. \A h \in Helpers : Alive(h) => jlock[run[h].job] = {h} /\ h # "sup" /\ h # "gc"
    BY <1>1, Names DEF HelperHolds
  <1>8. \A h \in Helpers : /\ SupHas /\ Alive(h) => run[h].job # sup.job
                           /\ gc.at # "idle" /\ Alive(h) => run[h].job # gc.job
    BY <1>5, <1>6, <1>7
  <1>9. SupHas /\ gc.at # "idle" => sup.job # gc.job
    BY <1>5, <1>6
  <1> QED
    BY <1>2, <1>3, <1>4, <1>5, <1>6, <1>8, <1>9

LEMMA RunnerMoves ==
    ASSUME VerifyAssumption, VerifyInv, JobsTyped', UNCHANGED <<sup, gc, child>>,
           NEW x \in Runners, Alive(x), NEW j \in Jobs, j = run[x].job,
           \A y \in Runners : y # x => run'[y] = run[y],
           Alive(x)' => run'[x].job = j,
           \A i \in Jobs : i # j => /\ pend'[i] = pend[i] /\ done'[i] = done[i] /\ copy'[i] = copy[i]
                                    /\ marker'[i] = marker[i] /\ journal'[i] = journal[i],
           \A i \in Jobs : /\ jlock'[i] = jlock[i] \/ jlock'[i] = jlock[i] \ {x}
                           /\ slock'[i] = slock[i] \/ slock[i] = x
                           /\ builds'[i] = builds[i] \/ (builds'[i] # "torn" /\ (i = j \/ slock[i] = x)),
           Started(j)', Filed(j)', Lives(done'[j]) => Lives(done[j]) \/ (run[x].rec.isolated /\ run[x].at # "settle"),
           RunHolds(x)', x \in Helpers => HelperHolds(x)', x = "agent" => AgentHolds'
    PROVE  VerifyInv'
  <1>1. \A y \in Runners : y # x => RunHolds(y)'
    <2> SUFFICES ASSUME NEW y \in Runners, y # x PROVE RunHolds(y)'
      OBVIOUS
    <2>1. run'[y] = run[y] /\ RunHolds(y)
      BY DEF VerifyInv
    <2>2. Alive(y) => run[y].job # j
      BY Distinct
    <2>3. Alive(y)' => /\ run'[y].job \in Jobs /\ run'[y].rec \in JobRecords /\ Started(run[y].job)'
                       /\ run'[y].rec.isolated => run'[y].rec.root = run'[y].job
      BY <2>1, <2>2 DEF RunHolds, Alive, Started
    <2>4. run'[y].at = "unlink" => done'[run'[y].job] # Nothing
      BY <2>1, <2>2 DEF RunHolds, Alive
    <2>5. ASSUME Working(y), IsCopy(run[y].tree)
          PROVE  slock'[run[y].tree] = y /\ builds'[run[y].tree] # "torn"
      <3>1. run[y].tree \in Jobs /\ slock[run[y].tree] = y /\ builds[run[y].tree] # "torn"
        BY <2>1, <2>5 DEF RunHolds, VerifyInv, JobsTyped, RunType, Trees, IsCopy
      <3> QED
        BY <3>1
    <2> QED
      BY <2>1, <2>3, <2>4, <2>5 DEF RunHolds, Working, Started
  <1>2. \A h \in Helpers : h # x => HelperHolds(h)'
    <2> SUFFICES ASSUME NEW h \in Helpers, h # x, Alive(h) PROVE HelperHolds(h)'
      BY DEF HelperHolds, Alive, Runners
    <2>1. h \in Runners /\ run'[h] = run[h] /\ HelperHolds(h) /\ RunHolds(h)
      BY DEF VerifyInv, Runners
    <2>2. run[h].job \in Jobs /\ run[h].job # j
      BY <2>1, Distinct DEF RunHolds
    <2>3. jlock'[run[h].job] = {h}
      BY <2>1, <2>2 DEF HelperHolds
    <2>4. Alive("agent")' => run'["agent"].job # run[h].job
      <3>1. CASE x = "agent"
        BY <2>2, <3>1
      <3>2. CASE x # "agent"
        BY <2>1, <3>2 DEF HelperHolds, Alive, Runners
      <3> QED
        BY <3>1, <3>2
    <2> QED
      BY <2>1, <2>2, <2>3, <2>4 DEF HelperHolds
  <1>3. x # "agent" => AgentHolds'
    <2> SUFFICES ASSUME x # "agent" PROVE AgentHolds'
      OBVIOUS
    <2>1. run'["agent"] = run["agent"] /\ AgentHolds /\ "agent" \in Runners /\ RunHolds("agent")
      BY DEF VerifyInv, Runners
    <2>2. Alive("agent") => run["agent"].job \in Jobs /\ run["agent"].job # j
      BY <2>1, Distinct DEF RunHolds
    <2> QED
      BY <2>1, <2>2 DEF AgentHolds, Alive
  <1>4. \A i \in Jobs : Filed(i)'
    <2> SUFFICES ASSUME NEW i \in Jobs, i # j PROVE Filed(i)'
      OBVIOUS
    <2> QED
      BY DEF VerifyInv, Filed, Lives
  <1>5. SupHolds'
    <2>0. SupHolds /\ (SupHas => sup.job # j)
      BY Distinct DEF VerifyInv
    <2>1. ASSUME sup.at # "idle"
          PROVE  /\ sup.job \in Jobs /\ sup.rec \in JobRecords /\ Started(sup.job)'
                 /\ sup.rec.isolated => sup.rec.root = sup.job
      BY <2>0, <2>1 DEF SupHolds, Started
    <2>2. ASSUME sup.at # "idle", ~sup.rec.isolated, NEW h \in Helpers, Alive(h)'
          PROVE  run'[h].job # sup.job
      <3>1. Alive(h) /\ run'[h].job = run[h].job
        BY <2>2 DEF Alive, Runners
      <3> QED
        BY <2>0, <2>2, <3>1 DEF SupHolds
    <2>3. ASSUME sup.at # "idle", ~sup.rec.isolated PROVE ~Lives(done'[sup.job])
      <3>1. CASE sup.job # j
        BY <2>0, <2>3, <3>1 DEF SupHolds
      <3>2. CASE sup.job = j
        <4>1. x \notin Helpers
          BY <2>0, <2>3, <3>2 DEF SupHolds
        <4>2. x = "agent"
          BY <4>1 DEF Runners
        <4>3. CASE ~run[x].rec.isolated
          BY <2>0, <2>3, <3>2, <4>3 DEF SupHolds
        <4>4. CASE run[x].rec.isolated
          <5>1. run[x].at = "settle"
            BY <4>2, <4>4 DEF VerifyInv, AgentHolds
          <5> QED
            BY <2>0, <2>3, <3>2, <4>4, <5>1 DEF SupHolds
        <4> QED
          BY <4>3, <4>4
      <3> QED
        BY <3>1, <3>2
    <2>4. ASSUME SupHas
          PROVE  /\ jlock'[sup.job] = {"sup"}
                 /\ Alive("agent")' => run'["agent"].job # sup.job
      <3>1. sup.job \in Jobs /\ jlock[sup.job] = {"sup"} /\ x # "sup" /\ sup.job # j
        BY <2>0, <2>4, Names DEF SupHolds, SupHas, Runners
      <3>2. "agent" \in Runners
        BY DEF Runners
      <3>3. Alive("agent")' => run'["agent"].job # sup.job
        <4>1. CASE x = "agent"
          BY <3>1, <4>1
        <4>2. CASE x # "agent"
          BY <2>0, <2>4, <3>2, <4>2 DEF SupHolds, Alive
        <4> QED
          BY <4>1, <4>2
      <3> QED
        BY <3>1, <3>3
    <2>5. /\ sup.at = "copied" => copy'[sup.job] = "part" /\ marker'[sup.job] # Nothing
          /\ sup.at \in {"own", "launch"} => copy'[sup.job] = "whole"
          /\ sup.at = "launch" => sup.rec.isolated /\ (pend'[sup.job] = Nothing \/ pend'[sup.job].isolated)
      BY <2>0, <2>1 DEF SupHolds, SupHas
    <2> QED
      BY <2>1, <2>2, <2>3, <2>4, <2>5 DEF SupHolds, SupHas
  <1>6. GcHolds'
    <2>0. GcHolds /\ (gc.at # "idle" => gc.job # j)
      BY Distinct DEF VerifyInv
    <2>1. ASSUME gc.at # "idle"
          PROVE  /\ gc.job \in Jobs /\ Started(gc.job)' /\ jlock'[gc.job] = {"gc"} /\ slock'[gc.job] = "gc"
                 /\ builds'[gc.job] = builds[gc.job]
      <3>1. gc.job \in Jobs /\ gc.job # j /\ x # "gc"
        BY <2>0, <2>1, Names DEF GcHolds, Runners
      <3> QED
        BY <2>0, <2>1, <3>1 DEF GcHolds, Started
    <2>2. gc.at # "idle" => (Alive("agent")' => run'["agent"].job # gc.job)
      <3>1. CASE x = "agent"
        BY <2>0, <3>1
      <3>2. CASE x # "agent"
        BY <2>0, <3>2 DEF GcHolds, Alive, Runners
      <3> QED
        BY <3>1, <3>2
    <2> QED
      BY <2>0, <2>1, <2>2 DEF GcHolds
  <1>7. ChildKnown'
    BY DEF VerifyInv, ChildKnown
  <1>8. \A y \in Runners : RunHolds(y)'
    BY <1>1
  <1>9. \A h \in Helpers : HelperHolds(h)'
    BY <1>2
  <1>10. AgentHolds'
    BY <1>3
  <1> QED
    BY <1>4, <1>5, <1>6, <1>7, <1>8, <1>9, <1>10 DEF VerifyInv

\* The supervisor moves on the job it has taken.
LEMMA SupMoves ==
    ASSUME VerifyAssumption, VerifyInv, JobsTyped', UNCHANGED <<run, slock, gc, child>>, SupHas, NEW j \in Jobs, j = sup.job,
           \A i \in Jobs : i # j => /\ pend'[i] = pend[i] /\ done'[i] = done[i] /\ copy'[i] = copy[i]
                                    /\ marker'[i] = marker[i] /\ journal'[i] = journal[i]
                                    /\ builds'[i] = builds[i],
           \A i \in Jobs : jlock'[i] = jlock[i] \/ jlock'[i] = jlock[i] \ {"sup"},
           builds'[j] = builds[j] \/ builds'[j] # "torn",
           Started(j)', Filed(j)', SupHolds'
    PROVE  VerifyInv'
  <1>1. \A x \in Runners : Alive(x) => run[x].job \in Jobs /\ run[x].job # j
    BY Distinct DEF VerifyInv, RunHolds
  <1>2. \A x \in Runners : RunHolds(x)'
    <2> SUFFICES ASSUME NEW x \in Runners PROVE RunHolds(x)'
      OBVIOUS
    <2>1. RunHolds(x)
      BY DEF VerifyInv
    <2>2. Alive(x) => Started(run[x].job)' /\ (run[x].at = "unlink" => done'[run[x].job] # Nothing)
      BY <1>1, <2>1 DEF RunHolds, Started
    <2>3. ASSUME Working(x), IsCopy(run[x].tree)
          PROVE  slock[run[x].tree] = x /\ builds'[run[x].tree] # "torn"
      <3>1. run[x].tree \in Jobs /\ slock[run[x].tree] = x /\ builds[run[x].tree] # "torn"
        BY <2>1, <2>3 DEF RunHolds, VerifyInv, JobsTyped, RunType, Trees, IsCopy
      <3> QED
        BY <3>1
    <2> QED
      BY <2>1, <2>2, <2>3 DEF RunHolds, Alive, Working, Started
  <1>3. \A h \in Helpers : HelperHolds(h)'
    <2> SUFFICES ASSUME NEW h \in Helpers, Alive(h) PROVE HelperHolds(h)'
      BY DEF HelperHolds, Alive, Runners
    <2>1. h \in Runners /\ HelperHolds(h) /\ h # "sup"
      BY Names DEF VerifyInv, Runners
    <2>2. run[h].job \in Jobs /\ run[h].job # j
      BY <1>1, <2>1
    <2>3. jlock'[run[h].job] = {h}
      BY <2>1, <2>2 DEF HelperHolds
    <2> QED
      BY <2>1, <2>2, <2>3 DEF HelperHolds, Alive
  <1>4. AgentHolds'
    BY <1>1 DEF VerifyInv, AgentHolds, Alive, Runners
  <1>5. \A i \in Jobs : Filed(i)'
    BY DEF VerifyInv, Filed, Lives
  <1>6. GcHolds'
    <2>1. GcHolds /\ (gc.at # "idle" => gc.job # j)
      BY Distinct DEF VerifyInv
    <2>2. gc.at # "idle" => gc.job \in Jobs /\ jlock'[gc.job] = {"gc"}
      BY <2>1 DEF GcHolds
    <2> QED
      BY <2>1, <2>2 DEF GcHolds, Started, Alive
  <1>7. ChildKnown'
    BY DEF VerifyInv, ChildKnown
  <1> QED
    BY <1>2, <1>3, <1>4, <1>5, <1>6, <1>7 DEF VerifyInv

\* The collector moves on the copy it takes.
LEMMA GcMoves ==
    ASSUME VerifyAssumption, VerifyInv, JobsTyped', UNCHANGED <<pend, done, run, sup, child>>, gc.at # "idle",
           NEW j \in Jobs, j = gc.job,
           \A i \in Jobs : i # j => /\ copy'[i] = copy[i] /\ marker'[i] = marker[i] /\ journal'[i] = journal[i]
                                    /\ builds'[i] = builds[i] /\ jlock'[i] = jlock[i] /\ slock'[i] = slock[i],
           Filed(j)', GcHolds'
    PROVE  VerifyInv'
  <1>1. \A x \in Runners : Alive(x) => run[x].job \in Jobs /\ run[x].job # j
    BY Distinct DEF VerifyInv, RunHolds
  <1>2. \A x \in Runners : RunHolds(x)'
    <2> SUFFICES ASSUME NEW x \in Runners PROVE RunHolds(x)'
      OBVIOUS
    <2>1. RunHolds(x) /\ x # "gc"
      BY Names DEF VerifyInv, Runners
    <2>2. ASSUME Working(x), IsCopy(run[x].tree)
          PROVE  slock'[run[x].tree] = x /\ builds'[run[x].tree] # "torn"
      <3>1. run[x].tree \in Jobs /\ slock[run[x].tree] = x /\ builds[run[x].tree] # "torn"
        BY <2>1, <2>2 DEF RunHolds, VerifyInv, JobsTyped, RunType, Trees, IsCopy
      <3>2. run[x].tree # j
        BY <2>1, <3>1 DEF VerifyInv, GcHolds
      <3> QED
        BY <3>1, <3>2
    <2> QED
      BY <2>1, <2>2 DEF RunHolds, Alive, Working, Started
  <1>3. \A h \in Helpers : HelperHolds(h)'
    BY <1>1 DEF VerifyInv, HelperHolds, Alive, Runners
  <1>4. AgentHolds'
    BY <1>1 DEF VerifyInv, AgentHolds, Alive, Runners
  <1>5. \A i \in Jobs : Filed(i)'
    BY DEF VerifyInv, Filed, Lives
  <1>6. SupHolds'
    <2>1. SupHolds /\ (SupHas => sup.job # j)
      BY Distinct DEF VerifyInv
    <2> QED
      BY <2>1 DEF SupHolds, SupHas, Started, Alive
  <1>7. ChildKnown'
    BY DEF VerifyInv, ChildKnown
  <1> QED
    BY <1>2, <1>3, <1>4, <1>5, <1>6, <1>7 DEF VerifyInv

\* The supervisor lets go of what it had, or of nothing.
LEMMA SupLeaves ==
    ASSUME VerifyAssumption, VerifyInv, JobsTyped', UNCHANGED <<copy, builds, marker, pend, done, journal, slock, run, gc>>,
           sup'.at = "idle", ChildKnown', \A i \in Jobs : jlock'[i] = jlock[i] \/ jlock'[i] = jlock[i] \ {"sup"}
    PROVE  VerifyInv'
  <1>1. \A x \in Runners : RunHolds(x)'
    BY DEF VerifyInv, RunHolds, Alive, Working, Started
  <1>2. \A h \in Helpers : HelperHolds(h)'
    <2> SUFFICES ASSUME NEW h \in Helpers, Alive(h) PROVE HelperHolds(h)'
      BY DEF HelperHolds, Alive, Runners
    <2>1. h \in Runners /\ HelperHolds(h) /\ h # "sup" /\ RunHolds(h)
      BY Names DEF VerifyInv, Runners
    <2>2. run[h].job \in Jobs /\ jlock[run[h].job] = {h}
      BY <2>1 DEF RunHolds, HelperHolds
    <2>3. jlock'[run[h].job] = {h}
      BY <2>1, <2>2
    <2> QED
      BY <2>1, <2>2, <2>3 DEF HelperHolds, Alive
  <1>3. AgentHolds' /\ SupHolds' /\ \A i \in Jobs : Filed(i)'
    BY DEF VerifyInv, AgentHolds, Alive, SupHolds, SupHas, Filed, Lives
  <1>4. GcHolds'
    <2>1. GcHolds
      BY DEF VerifyInv
    <2>2. gc.at # "idle" => gc.job \in Jobs /\ jlock'[gc.job] = {"gc"}
      BY <2>1 DEF GcHolds
    <2> QED
      BY <2>1, <2>2 DEF GcHolds, Started, Alive
  <1> QED
    BY <1>1, <1>2, <1>3, <1>4 DEF VerifyInv

-----------------------------------------------------------------------------
(* The steps of a run. *)

LEMMA Runs ==
    ASSUME VerifyAssumption, VerifyInv, NEW x \in Runners, Alive(x)
    PROVE  /\ run[x] \in RunType /\ run[x].job \in Jobs /\ run[x].rec \in JobRecords /\ Started(run[x].job)
           /\ run[x].rec.isolated => run[x].rec.root = run[x].job
           /\ run[x].at = "unlink" => done[run[x].job] # Nothing
           /\ Filed(run[x].job)
           /\ x \in Helpers \/ x = "agent"
           /\ x \in Helpers => /\ x # "agent" /\ HelperHolds(x) /\ run[x].rec.isolated
                               /\ run[x].at \notin {"copy", "copied", "publish"}
                               /\ pend[run[x].job] = Nothing \/ pend[run[x].job].isolated
           /\ x = "agent" => /\ run[x].at # "prepare"
                             /\ run[x].rec.isolated <=> run[x].at = "settle"
                             /\ run[x].at = "copied" => marker[run[x].job] # Nothing
  BY Names DEF VerifyInv, JobsTyped, RunHolds, HelperHolds, AgentHolds, Runners

\* It goes on with the same job in the same tree.
LEMMA StepKept ==
    ASSUME VerifyAssumption, VerifyInv, JobsTyped', UNCHANGED <<sup, gc, child, jlock, slock>>,
           NEW x \in Runners, Alive(x), Alive(x)', NEW j \in Jobs, j = run[x].job,
           \A y \in Runners : y # x => run'[y] = run[y],
           run'[x].job = j, run'[x].tree = run[x].tree, run'[x].rec \in JobRecords,
           run[x].rec.isolated => run'[x].rec.isolated, run'[x].rec.isolated => run'[x].rec.root = j,
           \A i \in Jobs : i # j => /\ pend'[i] = pend[i] /\ done'[i] = done[i] /\ copy'[i] = copy[i]
                                    /\ marker'[i] = marker[i] /\ journal'[i] = journal[i],
           \A i \in Jobs : builds'[i] = builds[i] \/ (builds'[i] # "torn" /\ (i = j \/ slock[i] = x)),
           Started(j)', Filed(j)', Lives(done'[j]) => Lives(done[j]) \/ (run[x].rec.isolated /\ run[x].at # "settle"),
           run'[x].at = "unlink" => done'[j] # Nothing, Working(x)' => Working(x),
           x \in Helpers => /\ run'[x].at \notin {"copy", "copied", "publish"}
                            /\ pend'[j] = Nothing \/ pend'[j].isolated,
           x = "agent" => /\ run'[x].at # "prepare"
                          /\ run'[x].rec.isolated <=> run'[x].at = "settle"
                          /\ run'[x].at = "copied" => marker'[j] # Nothing
    PROVE  VerifyInv'
  <1>1. RunHolds(x)'
    <2>1. ASSUME Working(x)', IsCopy(run[x].tree)
          PROVE  slock'[run[x].tree] = x /\ builds'[run[x].tree] # "torn"
      <3>1. run[x].tree \in Jobs /\ slock[run[x].tree] = x /\ builds[run[x].tree] # "torn"
        BY <2>1 DEF RunHolds, VerifyInv, JobsTyped, RunType, Trees, IsCopy
      <3> QED
        BY <3>1
    <2> QED
      BY <2>1 DEF RunHolds, Working, IsCopy
  <1>2. x \in Helpers => HelperHolds(x)'
    <2> SUFFICES ASSUME x \in Helpers PROVE HelperHolds(x)'
      OBVIOUS
    <2>1. x # "agent" /\ HelperHolds(x) /\ "agent" \in Runners
      BY Names DEF VerifyInv, Runners
    <2> QED
      BY <2>1 DEF HelperHolds, Alive
  <1>3. x = "agent" => AgentHolds'
    BY DEF AgentHolds
  <1> QED
    BY <1>1, <1>2, <1>3, RunnerMoves

\* Its process ends.
LEMMA StepLeft ==
    ASSUME VerifyAssumption, VerifyInv, UNCHANGED <<version, copy, builds, done, gen, journal, sup, gc, child>>,
           bound' \in Counts,
           NEW x \in Runners, Alive(x), NEW j \in Jobs, j = run[x].job,
           NEW how \in {"ended", "error"}, LeaveRun(x, how),
           marker' \in [Jobs -> 0..MaxEdits \cup {Nothing}], pend' \in [Jobs -> JobRecords \cup {Nothing}],
           \A i \in Jobs : i # j => pend'[i] = pend[i] /\ marker'[i] = marker[i],
           Started(j)', Lives(pend'[j]) => pend'[j].root = j,
           Lives(done[j]) => pend'[j] = Nothing \/ pend'[j].isolated
    PROVE  VerifyInv'
  <1>1. JobsTyped
    BY DEF VerifyInv
  <1>2. run' \in [Runners -> RunType] /\ run'[x].at = "off" /\ \A y \in Runners : y # x => run'[y] = run[y]
    BY <1>1, NobodyRuns DEF JobsTyped, LeaveRun
  <1>3. /\ jlock' \in [Jobs -> SUBSET (Helpers \cup {"sup", "gc"})]
        /\ slock' \in [Jobs -> Runners \cup {"gc", Nothing}]
        /\ \A i \in Jobs : /\ jlock'[i] = jlock[i] \ {x}
                           /\ slock'[i] = slock[i] \/ slock[i] = x
    BY <1>1 DEF JobsTyped, LeaveRun, RunLocks
  <1>4. JobsTyped'
    BY <1>1, <1>2, <1>3 DEF JobsTyped
  <1>5. RunHolds(x)' /\ (x \in Helpers => HelperHolds(x)') /\ (x = "agent" => AgentHolds')
    BY <1>2 DEF RunHolds, HelperHolds, AgentHolds, Alive, Working
  <1>6. Filed(j)'
    BY DEF VerifyInv, Filed, Lives
  <1> QED
    BY <1>2, <1>3, <1>4, <1>5, <1>6, RunnerMoves DEF Alive

LEMMA Moved ==
    ASSUME JobsTyped, NEW x \in Runners, NEW step \in RunPhases, Move(x, step)
    PROVE  /\ run' \in [Runners -> RunType] /\ run'[x].at = step /\ SameRun(run[x], run'[x])
           /\ \A y \in Runners : y # x => run'[y] = run[y]
  <1>1. run[x] \in RunType /\ run' = [run EXCEPT ![x] = [run[x] EXCEPT !.at = step]]
    BY DEF JobsTyped, Move
  <1>2. SameRun(run[x], [run[x] EXCEPT !.at = step]) /\ [run[x] EXCEPT !.at = step].at = step
    BY <1>1, RunEdits
  <1>3. run'[x] = [run[x] EXCEPT !.at = step] /\ \A y \in Runners : y # x => run'[y] = run[y]
    BY <1>1 DEF JobsTyped
  <1>4. run' \in [Runners -> RunType]
    BY <1>1, <1>2 DEF JobsTyped, SameRun
  <1> QED
    BY <1>2, <1>3, <1>4

\* It goes on, and leaves all there is on disk as it was.
LEMMA StepOnly ==
    ASSUME VerifyAssumption, VerifyInv, NEW x \in Runners, Alive(x), NEW j \in Jobs, j = run[x].job, NEW step \in RunPhases, Move(x, step),
           step # "off", UNCHANGED <<version, copy, marker, pend, done, gen, journal, jlock, slock, sup, child, gc>>,
           builds' \in [Jobs -> {"whole", "torn", "lost"}],
           \A i \in Jobs : builds'[i] = builds[i] \/ (builds'[i] # "torn" /\ slock[i] = x),
           bound' \in Counts,
           step \in {"index", "rest", "settle", "copy"},
           step \in {"index", "rest"} => Working(x),
           step = "copy" => ~run[x].rec.isolated, step = "settle" => run[x].rec.isolated
    PROVE  VerifyInv'
  <1>1. JobsTyped
    BY DEF VerifyInv
  <1>2. /\ run' \in [Runners -> RunType] /\ run'[x].at = step /\ SameRun(run[x], run'[x])
        /\ \A y \in Runners : y # x => run'[y] = run[y]
    BY <1>1, Moved
  <1>3. JobsTyped'
    BY <1>1, <1>2 DEF JobsTyped
  <1>4. j \in Jobs /\ run[x].rec \in JobRecords /\ Started(j) /\ (run[x].rec.isolated => run[x].rec.root = j) /\ Filed(j)
    BY Runs
  <1>5. Filed(j)' /\ Started(j)'
    BY <1>4 DEF Filed, Started, Lives
  <1>6. /\ x \in Helpers => x # "agent" /\ run[x].rec.isolated /\ (pend[j] = Nothing \/ pend[j].isolated)
        /\ x = "agent" => (run[x].rec.isolated <=> run[x].at = "settle")
    BY Runs
  <1>7. Alive(x)' /\ (Working(x)' => Working(x))
    BY <1>2 DEF Alive, Working
  <1>8. run'[x].job = j /\ run'[x].tree = run[x].tree /\ run'[x].rec = run[x].rec
    BY <1>2 DEF SameRun
  <1>9. x = "agent" => (run[x].rec.isolated <=> step = "settle")
    BY <1>6 DEF Working
  <1> QED
    BY <1>2, <1>3, <1>4, <1>5, <1>6, <1>7, <1>8, <1>9, StepKept

\* A verdict: the record, then the pending one.
LEMMA ConcludeSafe ==
    ASSUME VerifyAssumption, VerifyInv, NEW x \in Runners, Alive(x), run[x].at # "settle", NEW j \in Jobs, j = run[x].job,
           NEW status \in {"incomplete", "success", "failed"}, Move(x, "unlink"),
           done' = [done EXCEPT ![j] = Ended(run[x].rec, status)],
           UNCHANGED <<pend, gen, jlock, slock, sup, child, gc>>,
           version' \in [Trees -> 0..MaxEdits], copy' \in [Jobs -> {"none", "part", "whole"}],
           builds' \in [Jobs -> {"whole", "torn", "lost"}], marker' \in [Jobs -> 0..MaxEdits \cup {Nothing}],
           journal' = journal, bound' \in Counts,
           \A i \in Jobs : i # j => copy'[i] = copy[i] /\ marker'[i] = marker[i] /\ builds'[i] = builds[i],
           \/ builds'[j] = builds[j]
              /\ (copy'[j] = copy[j] \/ copy'[j] = "none")
           \/ builds'[j] # "torn"
    PROVE  VerifyInv'
  <1>1. JobsTyped
    BY DEF VerifyInv
  <1>2. /\ run' \in [Runners -> RunType] /\ run'[x].at = "unlink" /\ SameRun(run[x], run'[x])
        /\ \A y \in Runners : y # x => run'[y] = run[y]
    BY <1>1, Moved DEF RunPhases
  <1>3. j \in Jobs /\ run[x].rec \in JobRecords /\ Started(j) /\ (run[x].rec.isolated => run[x].rec.root = j) /\ Filed(j)
    BY Runs
  <1>4. Ended(run[x].rec, status) \in JobRecords /\ Ended(run[x].rec, status).isolated = run[x].rec.isolated
    BY <1>3 DEF Ended, JobRecords
  <1>5. /\ done' \in [Jobs -> JobRecords \cup {Nothing}] /\ done'[j] = Ended(run[x].rec, status)
        /\ \A i \in Jobs : i # j => done'[i] = done[i]
    BY <1>1, <1>3, <1>4 DEF JobsTyped
  <1>6. JobsTyped'
    BY <1>1, <1>2, <1>5 DEF JobsTyped
  <1>7. /\ x \in Helpers => x # "agent" /\ (pend[j] = Nothing \/ pend[j].isolated)
        /\ x = "agent" => ~run[x].rec.isolated
        /\ x \in Helpers \/ x = "agent"
    BY Runs
  <1>8. done'[j] # Nothing
    BY <1>4, <1>5, Names
  <1>9. Filed(j)' /\ Started(j)'
    <2>1. builds'[j] = "torn" /\ copy'[j] # "none" => journal'[j].stack
      BY <1>3 DEF Filed
    <2>2. Lives(pend'[j]) => pend'[j].root = j
      BY <1>3 DEF Filed, Lives
    <2>3. Lives(done'[j]) => pend'[j] = Nothing \/ pend'[j].isolated
      BY <1>4, <1>5, <1>7 DEF Lives
    <2> QED
      BY <1>8, <2>1, <2>2, <2>3 DEF Filed, Started
  <1>10. Alive(x)' /\ ~Working(x)'
    BY <1>2 DEF Alive, Working
  <1>11. run'[x].job = j /\ run'[x].tree = run[x].tree /\ run'[x].rec = run[x].rec
    BY <1>2 DEF SameRun
  <1>12. Lives(done'[j]) => run[x].rec.isolated /\ run[x].at # "settle"
    BY <1>4, <1>5 DEF Lives
  <1>13. \A i \in Jobs : builds'[i] = builds[i] \/ (builds'[i] # "torn" /\ i = j)
    OBVIOUS
  <1> QED
    BY <1>2, <1>3, <1>5, <1>6, <1>7, <1>8, <1>9, <1>10, <1>11, <1>12, <1>13, StepKept

LEMMA RunWorks ==
    ASSUME VerifyAssumption, VerifyInv, NEW x \in Runners,
           ReuseBuild(x) \/ DoBuild(x) \/ IndexBuild(x) \/ Interrupted(x)
    PROVE  VerifyInv'
  <1>1. JobsTyped
    BY DEF VerifyInv
  <1>2. Alive(x)
    BY DEF Alive, On, ReuseBuild, DoBuild, IndexBuild, Interrupted
  <1>3. PICK j \in Jobs : j = run[x].job
    BY <1>2, Runs
  <1>4. CASE ReuseBuild(x)
    <2>1. run[x].at = "build" /\ Move(x, "rest")
      BY <1>4 DEF ReuseBuild, On
    <2> QED
      BY <1>1, <1>2, <1>3, <1>4, <2>1, StepOnly
      DEF ReuseBuild, RunPhases, Working, copies, records, storage, locks, JobsTyped
  <1>5. CASE DoBuild(x)
    <2> DEFINE step == IF IsCopy(run[x].tree) THEN "index" ELSE "rest"
    <2>1. Working(x) /\ Move(x, step)
      BY <1>5 DEF DoBuild, On, Working
    <2>2. step \in {"index", "rest"} /\ step \in RunPhases
      BY DEF RunPhases
    <2>3. /\ builds' \in [Jobs -> {"whole", "torn", "lost"}]
          /\ \A i \in Jobs : builds'[i] = builds[i] \/ (builds'[i] # "torn" /\ slock[i] = x)
      <3>1. CASE IsCopy(run[x].tree)
        <4>1. run[x].tree \in Jobs /\ slock[run[x].tree] = x
          BY <1>2, <2>1, <3>1, Runs DEF VerifyInv, RunHolds, RunType, Trees, IsCopy
        <4> QED
          BY <1>1, <1>5, <3>1, <4>1 DEF DoBuild, JobsTyped
      <3>2. CASE ~IsCopy(run[x].tree)
        BY <1>1, <1>5, <3>2 DEF DoBuild, JobsTyped
      <3> QED
        BY <3>1, <3>2
    <2>4. /\ UNCHANGED <<version, copy, marker, pend, done, gen, journal, jlock, slock, sup, child, gc>>
          /\ bound' \in Counts
      BY <1>1, <1>5, NoUpset DEF DoBuild, records, storage, locks
    <2> HIDE DEF step
    <2> QED
      BY <1>2, <1>3, <2>1, <2>2, <2>3, <2>4, StepOnly
  <1>6. CASE IndexBuild(x)
    <2>1. Working(x) /\ Move(x, "rest")
      BY <1>6 DEF IndexBuild, On, Working
    <2> QED
      BY <1>1, <1>2, <1>3, <1>6, <2>1, StepOnly DEF IndexBuild, RunPhases, copies, records, locks, JobsTyped
  <1>7. CASE Interrupted(x)
    <2> DEFINE step == IF run[x].rec.isolated THEN "settle" ELSE "copy"
    <2>1. Move(x, step) /\ step \in {"settle", "copy"} /\ (step = "copy" <=> ~run[x].rec.isolated)
      BY <1>7 DEF Interrupted
    <2>2. /\ UNCHANGED <<version, copy, builds, marker, pend, done, gen, journal, jlock, slock, sup, child, gc>>
          /\ bound' \in Counts
      BY <1>1, <1>7, Upsets DEF Interrupted, copies, records, storage, locks
    <2> HIDE DEF step
    <2> QED
      BY <1>1, <1>2, <1>3, <2>1, <2>2, StepOnly DEF RunPhases, JobsTyped
  <1> QED
    BY <1>4, <1>5, <1>6, <1>7

LEMMA RunEnds ==
    ASSUME VerifyAssumption, VerifyInv, NEW x \in Runners, Judged(x) \/ FoundEdited(x)
    PROVE  VerifyInv'
  <1>1. JobsTyped
    BY DEF VerifyInv
  <1>2. Alive(x) /\ run[x].at # "settle"
    BY DEF Alive, On, Judged, FoundEdited
  <1>3. PICK j \in Jobs : j = run[x].job
    BY <1>2, Runs
  <1>4. PICK status \in {"incomplete", "success", "failed"} : Conclude(x, status)
    BY DEF Judged, FoundEdited
  <1> QED
    BY <1>1, <1>2, <1>3, <1>4, ConcludeSafe DEF Conclude, copies, storage, locks, JobsTyped

LEMMA PressedSafe == ASSUME VerifyAssumption, VerifyInv, NEW x \in Runners, Pressed(x) PROVE VerifyInv'
  <1>1. JobsTyped
    BY DEF VerifyInv
  <1>2. Alive(x) /\ run[x].at # "settle"
    BY DEF Alive, Pressed
  <1>3. PICK j \in Jobs : j = run[x].job
    BY <1>2, Runs
  <1>4. /\ UNCHANGED <<version, copy, builds, marker, pend, gen, journal, jlock, slock, sup, child, gc>>
        /\ bound' \in Counts
    BY <1>1, Upsets DEF Pressed, copies, storage, locks
  <1>5. CASE run[x].rec.isolated
    BY <1>1, <1>2, <1>3, <1>4, <1>5, StepOnly DEF Pressed, RunPhases, JobsTyped
  <1>6. CASE ~run[x].rec.isolated
    BY <1>1, <1>2, <1>3, <1>4, <1>6, ConcludeSafe DEF Pressed, JobsTyped
  <1> QED
    BY <1>5, <1>6

LEMMA UnlinkedSafe == ASSUME VerifyAssumption, VerifyInv, NEW x \in Runners, Unlinked(x) PROVE VerifyInv'
  <1>1. JobsTyped
    BY DEF VerifyInv
  <1>2. Alive(x) /\ run[x].at = "unlink"
    BY DEF Alive, On, Unlinked
  <1>3. PICK j \in Jobs : j = run[x].job
    BY <1>2, Runs
  <1>4. done[j] # Nothing
    BY <1>2, <1>3, Runs
  <1>5. /\ pend' \in [Jobs -> JobRecords \cup {Nothing}] /\ pend'[j] = Nothing
        /\ \A i \in Jobs : i # j => pend'[i] = pend[i]
    BY <1>1, <1>3 DEF Unlinked, JobsTyped
  <1>6. Started(j)' /\ ~Lives(pend'[j])
    BY <1>4, <1>5 DEF Started, Lives, Unlinked
  <1>7. /\ LeaveRun(x, "ended") /\ UNCHANGED <<version, copy, builds, marker, done, gen, journal, sup, gc, child>>
        /\ bound' \in Counts
    BY <1>1, NoUpset DEF Unlinked, copies, storage
  <1> QED
    BY <1>1, <1>2, <1>3, <1>5, <1>6, <1>7, StepLeft DEF JobsTyped

LEMMA ParkedSafe == ASSUME VerifyAssumption, VerifyInv, NEW x \in Runners, Parked(x) PROVE VerifyInv'
  <1>1. JobsTyped
    BY DEF VerifyInv
  <1>2. Alive(x)
    BY DEF Alive, On, Parked
  <1>3. PICK j \in Jobs : j = run[x].job
    BY <1>2, Runs
  <1>4. run[x].rec \in JobRecords /\ (run[x].rec.isolated => run[x].rec.root = j) /\ run[x].rec # Nothing
    BY <1>2, <1>3, Runs, Names
  <1>5. /\ pend' \in [Jobs -> JobRecords \cup {Nothing}] /\ pend'[j] = run[x].rec
        /\ \A i \in Jobs : i # j => pend'[i] = pend[i]
    BY <1>1, <1>3, <1>4 DEF Parked, JobsTyped
  <1>6. marker' \in [Jobs -> 0..MaxEdits \cup {Nothing}] /\ \A i \in Jobs : i # j => marker'[i] = marker[i]
    BY <1>1, <1>3 DEF Parked, JobsTyped
  <1>7. Started(j)' /\ (Lives(pend'[j]) => pend'[j].root = j)
    BY <1>4, <1>5 DEF Started, Lives
  <1>8. pend'[j].isolated
    <2>1. run[x].at = "settle"
      BY DEF Parked, On
    <2> QED
      BY <1>2, <1>5, <2>1, Runs
  <1>9. /\ LeaveRun(x, "ended") /\ UNCHANGED <<version, copy, builds, done, gen, journal, sup, gc, child>>
        /\ bound' \in Counts
    BY <1>1, NoUpset DEF Parked, storage
  <1> QED
    BY <1>2, <1>3, <1>5, <1>6, <1>7, <1>8, <1>9, StepLeft

LEMMA KilledSafe ==
    ASSUME VerifyAssumption, VerifyInv, NEW x \in Runners, KillRun(x) \/ HelperErrs(x)
    PROVE  VerifyInv'
  <1>1. JobsTyped
    BY DEF VerifyInv
  <1>2. Alive(x)
    BY DEF Alive, On, KillRun, HelperErrs
  <1>3. PICK j \in Jobs : j = run[x].job
    BY <1>2, Runs
  <1>4. Started(j) /\ Filed(j)
    BY <1>2, <1>3, Runs
  <1>5. PICK how \in {"ended", "error"} : LeaveRun(x, how)
    BY DEF KillRun, HelperErrs
  <1>6. /\ UNCHANGED <<version, copy, builds, marker, pend, done, gen, journal, sup, gc, child>>
        /\ bound' \in Counts
    <2>1. Upset
      BY DEF KillRun, HelperErrs
    <2>2. UNCHANGED <<copies, records, storage, sup, child, gc>>
      BY DEF KillRun, HelperErrs
    <2> QED
      BY <1>1, <2>1, <2>2, Upsets DEF copies, records, storage
  <1>7. Started(j)' /\ (Lives(pend'[j]) => pend'[j].root = j) /\ (Lives(done[j]) => pend'[j] = Nothing \/ pend'[j].isolated)
    BY <1>4, <1>6 DEF Started, Filed, Lives
  <1> QED
    BY <1>1, <1>2, <1>3, <1>5, <1>6, <1>7, StepLeft DEF JobsTyped

LEMMA PrepareSafe == ASSUME VerifyAssumption, VerifyInv, NEW x \in Runners, Prepare(x) PROVE VerifyInv'
  <1>1. JobsTyped
    BY DEF VerifyInv
  <1>2. Alive(x) /\ run[x].at = "prepare"
    BY DEF Alive, On, Prepare
  <1>3. PICK j \in Jobs : j = run[x].job
    BY <1>2, Runs
  <1>4. /\ run[x].rec \in JobRecords /\ run[x].rec.root = j /\ run[x].rec.isolated /\ run[x].rec # Nothing
        /\ Filed(j) /\ x # "agent"
    BY <1>2, <1>3, Runs, Names
  <1>5. /\ pend' \in [Jobs -> JobRecords \cup {Nothing}] /\ pend'[j] = run[x].rec
        /\ \A i \in Jobs : i # j => pend'[i] = pend[i]
    BY <1>1, <1>3, <1>4 DEF Prepare, JobsTyped
  <1>6. /\ run' \in [Runners -> RunType] /\ run'[x].at = "bind" /\ SameRun(run[x], run'[x])
        /\ \A y \in Runners : y # x => run'[y] = run[y]
    BY <1>1, Moved DEF Prepare, RunPhases
  <1>7. UNCHANGED <<version, copy, builds, marker, done, gen, journal, jlock, slock, sup, gc, child, bound>>
    BY DEF Prepare, copies, storage, locks
  <1>8. JobsTyped'
    BY <1>1, <1>5, <1>6, <1>7 DEF JobsTyped
  <1>9. Started(j)' /\ Filed(j)'
    BY <1>4, <1>5, <1>7 DEF Started, Filed, Lives
  <1>10. Alive(x)' /\ Working(x)
    BY <1>2, <1>6 DEF Alive, Working
  <1>11. run'[x].job = j /\ run'[x].tree = run[x].tree /\ run'[x].rec = run[x].rec
    BY <1>3, <1>6 DEF SameRun
  <1> QED
    BY <1>2, <1>3, <1>4, <1>5, <1>6, <1>7, <1>8, <1>9, <1>10, <1>11, StepKept

LEMMA BindSafe == ASSUME VerifyAssumption, VerifyInv, NEW x \in Runners, Bind(x) PROVE VerifyInv'
  <1>1. JobsTyped
    BY DEF VerifyInv
  <1>2. Alive(x) /\ run[x].at = "bind"
    BY DEF Alive, On, Bind
  <1>3. PICK j \in Jobs : j = run[x].job
    BY <1>2, Runs
  <1>4. /\ run[x] \in RunType /\ run[x].rec \in JobRecords /\ (run[x].rec.isolated => run[x].rec.root = j)
        /\ Started(j) /\ Filed(j) /\ (x = "agent" => ~run[x].rec.isolated)
        /\ x \in Helpers => x # "agent" /\ (pend[j] = Nothing \/ pend[j].isolated)
    BY <1>2, <1>3, Runs, Names
  <1> DEFINE fp == <<run[x].tree, run[x].src, Generation(run[x].tree)>>
             rec == [run[x].rec EXCEPT !.fp = fp]
             named == [pend[j] EXCEPT !.fp = fp]
             went == [run[x] EXCEPT !.at = "build"]
             bound2 == [went EXCEPT !.fp = fp]
             all == [bound2 EXCEPT !.rec = rec]
  <1>5. fp \in Fingerprints
    <2>1. Generation(run[x].tree) \in 0..MaxGens /\ run[x].tree \in Trees /\ run[x].src \in 0..MaxEdits
      BY <1>1, <1>4, Names DEF Generation, IsCopy, Trees, RunType, JobsTyped
    <2> QED
      BY <2>1 DEF Fingerprints
  <1>6. run' = [run EXCEPT ![x] = all]
    BY <1>1, <1>4 DEF Bind, JobsTyped, RunType
  <1>7. pend' = IF pend[j] = Nothing THEN pend ELSE [pend EXCEPT ![j] = named]
    BY <1>3 DEF Bind
  <1> HIDE DEF fp
  <1>8. rec \in JobRecords /\ rec.root = run[x].rec.root /\ rec.isolated = run[x].rec.isolated
    BY <1>4, <1>5, RecordEdits
  <1>9. pend[j] # Nothing => named \in JobRecords /\ named.root = pend[j].root /\ named.isolated = pend[j].isolated
    BY <1>1, <1>5, RecordEdits DEF JobsTyped
  <1> HIDE DEF rec, named
  <1>10. went \in RunType /\ went.at = "build" /\ SameRun(run[x], went)
    <2>1. "build" \in RunPhases
      BY DEF RunPhases
    <2>2. SameRun(run[x], went) /\ went.at = "build"
      BY <1>4, <2>1, RunEdits
    <2> QED
      BY <2>2 DEF SameRun
  <1> HIDE DEF went
  <1>11. /\ bound2 \in RunType /\ bound2.at = "build" /\ bound2.job = run[x].job /\ bound2.tree = run[x].tree
    BY <1>5, <1>10, RunEdits DEF SameRun
  <1> HIDE DEF bound2
  <1>12. all \in RunType /\ all.at = "build" /\ all.job = run[x].job /\ all.tree = run[x].tree /\ all.rec = rec
    BY <1>8, <1>11, RunEdits
  <1> HIDE DEF all
  <1>13. run' \in [Runners -> RunType] /\ run'[x] = all /\ \A y \in Runners : y # x => run'[y] = run[y]
    BY <1>1, <1>6, <1>12 DEF JobsTyped
  <1>14. /\ pend' \in [Jobs -> JobRecords \cup {Nothing}] /\ \A i \in Jobs : i # j => pend'[i] = pend[i]
         /\ pend[j] = Nothing => pend'[j] = Nothing
         /\ pend[j] # Nothing => pend'[j] = named
    BY <1>1, <1>7, <1>9 DEF JobsTyped
  <1>15. UNCHANGED <<version, copy, builds, marker, done, gen, journal, jlock, slock, sup, gc, child, bound>>
    BY DEF Bind, copies, storage, locks
  <1>16. JobsTyped'
    BY <1>1, <1>13, <1>14, <1>15 DEF JobsTyped
  <1>17. Started(j)' /\ Filed(j)'
    BY <1>4, <1>9, <1>14, <1>15, Names DEF Started, Filed, Lives
  <1>18. Alive(x)' /\ Working(x) /\ run'[x].job = j /\ run'[x].tree = run[x].tree /\ run'[x].rec = rec /\ run'[x].at = "build"
    BY <1>2, <1>3, <1>12, <1>13 DEF Alive, Working
  <1>19. x \in Helpers => pend'[j] = Nothing \/ pend'[j].isolated
    BY <1>4, <1>9, <1>14
  <1> QED
    BY <1>2, <1>3, <1>4, <1>8, <1>13, <1>14, <1>15, <1>16, <1>17, <1>18, <1>19, StepKept

\* The agent alone preserves a copy.
LEMMA AgentCopies ==
    ASSUME VerifyAssumption, VerifyInv, NEW x \in Runners, run[x].at \in {"copy", "copied", "publish"}
    PROVE  /\ Alive(x) /\ x = "agent" /\ x \notin Helpers /\ ~run[x].rec.isolated /\ JobsTyped
           /\ run[x].at = "copied" => marker[run[x].job] \in 0..MaxEdits
  <1>1. Alive(x) /\ JobsTyped
    BY DEF Alive, VerifyInv
  <1>2. x = "agent" /\ x \notin Helpers /\ ~run[x].rec.isolated /\ run[x].job \in Jobs
    BY <1>1, Runs
  <1>3. run[x].at = "copied" => marker[run[x].job] \in 0..MaxEdits
    BY <1>1, <1>2, Runs DEF JobsTyped
  <1> QED
    BY <1>1, <1>2, <1>3

LEMMA CopyBeginsSafe == ASSUME VerifyAssumption, VerifyInv, NEW x \in Runners, CopyBegins(x) PROVE VerifyInv'
  <1>1. Alive(x) /\ x = "agent" /\ x \notin Helpers /\ ~run[x].rec.isolated /\ JobsTyped
    BY AgentCopies DEF CopyBegins, On
  <1>2. PICK j \in Jobs : j = run[x].job
    BY <1>1, Runs
  <1>3. run[x] \in RunType /\ run[x].rec \in JobRecords /\ Started(j) /\ Filed(j)
    BY <1>1, <1>2, Runs
  <1>4. run[x].tree \in Trees /\ version[run[x].tree] \in 0..MaxEdits
    BY <1>1, <1>3 DEF RunType, JobsTyped
  <1>5. NoJournal \in JournalType
    BY NobodyElse
  <1>6. /\ copy' \in [Jobs -> {"none", "part", "whole"}] /\ builds' \in [Jobs -> {"whole", "torn", "lost"}]
        /\ builds'[j] = "lost" /\ \A i \in Jobs : i # j => copy'[i] = copy[i] /\ builds'[i] = builds[i]
    BY <1>1, <1>2 DEF CopyBegins, JobsTyped
  <1>7. /\ marker' \in [Jobs -> 0..MaxEdits \cup {Nothing}] /\ marker'[j] # Nothing
        /\ \A i \in Jobs : i # j => marker'[i] = marker[i]
    BY <1>1, <1>2, <1>4, Names DEF CopyBegins, JobsTyped
  <1>8. /\ journal' \in [Jobs -> JournalType] /\ \A i \in Jobs : i # j => journal'[i] = journal[i]
    BY <1>1, <1>2, <1>5 DEF CopyBegins, JobsTyped, FreshJournal
  <1>9. /\ run' \in [Runners -> RunType] /\ run'[x].at = "copied" /\ SameRun(run[x], run'[x])
        /\ \A y \in Runners : y # x => run'[y] = run[y]
    BY <1>1, Moved DEF CopyBegins, RunPhases
  <1>10. UNCHANGED <<version, pend, done, gen, jlock, slock, sup, gc, child, bound>>
    BY DEF CopyBegins, records, locks
  <1>11. JobsTyped'
    BY <1>1, <1>6, <1>7, <1>8, <1>9, <1>10 DEF JobsTyped
  <1>12. Started(j)' /\ Filed(j)'
    BY <1>3, <1>6, <1>10 DEF Started, Filed, Lives
  <1>13. Alive(x)' /\ ~Working(x)' /\ run'[x].job = j /\ run'[x].tree = run[x].tree /\ run'[x].rec = run[x].rec
    BY <1>2, <1>9 DEF Alive, Working, SameRun
  <1> QED
    BY <1>1, <1>2, <1>3, <1>6, <1>7, <1>8, <1>9, <1>10, <1>11, <1>12, <1>13, StepKept

LEMMA CopyEndsSafe == ASSUME VerifyAssumption, VerifyInv, NEW x \in Runners, CopyEnds(x) PROVE VerifyInv'
  <1>1. Alive(x) /\ x = "agent" /\ x \notin Helpers /\ ~run[x].rec.isolated /\ JobsTyped /\ run[x].at = "copied"
    BY AgentCopies DEF CopyEnds, On
  <1>2. PICK j \in Jobs : j = run[x].job
    BY <1>1, Runs
  <1>3. run[x].rec \in JobRecords /\ Started(j) /\ Filed(j) /\ marker[j] \in 0..MaxEdits
    BY <1>1, <1>2, Runs, AgentCopies
  <1>4. version' \in [Trees -> 0..MaxEdits]
    BY <1>1, <1>2, <1>3 DEF CopyEnds, JobsTyped, Trees
  <1>5. /\ copy' \in [Jobs -> {"none", "part", "whole"}] /\ \A i \in Jobs : i # j => copy'[i] = copy[i]
    BY <1>1, <1>2 DEF CopyEnds, JobsTyped
  <1>6. PICK b \in {"whole", "lost"} : builds' = [builds EXCEPT ![j] = b]
    BY <1>2 DEF CopyEnds
  <1>7. /\ builds' \in [Jobs -> {"whole", "torn", "lost"}] /\ builds'[j] # "torn"
        /\ \A i \in Jobs : i # j => builds'[i] = builds[i]
    BY <1>1, <1>6 DEF JobsTyped
  <1>8. UNCHANGED <<marker, pend, gen, journal, jlock, slock, sup, gc, child, bound>>
    BY DEF CopyEnds, storage, locks
  <1>9. CASE Move(x, "publish") /\ UNCHANGED done
    <2>1. /\ run' \in [Runners -> RunType] /\ run'[x].at = "publish" /\ SameRun(run[x], run'[x])
          /\ \A y \in Runners : y # x => run'[y] = run[y]
      BY <1>1, <1>9, Moved DEF RunPhases
    <2>2. JobsTyped'
      BY <1>1, <1>4, <1>5, <1>7, <1>8, <1>9, <2>1 DEF JobsTyped
    <2>3. Started(j)' /\ Filed(j)'
      BY <1>3, <1>7, <1>8, <1>9 DEF Started, Filed, Lives
    <2>4. Alive(x)' /\ ~Working(x)' /\ run'[x].job = j /\ run'[x].tree = run[x].tree /\ run'[x].rec = run[x].rec
      BY <1>2, <2>1 DEF Alive, Working, SameRun
    <2> QED
      BY <1>1, <1>2, <1>3, <1>5, <1>7, <1>8, <1>9, <2>1, <2>2, <2>3, <2>4, StepKept
  <1>10. CASE Move(x, "unlink") /\ done' = [done EXCEPT ![j] = Ended(run[x].rec, "incomplete")]
    BY <1>1, <1>2, <1>4, <1>5, <1>7, <1>8, <1>10, ConcludeSafe DEF JobsTyped
  <1> QED
    BY <1>2, <1>9, <1>10 DEF CopyEnds

LEMMA CopyFailsSafe == ASSUME VerifyAssumption, VerifyInv, NEW x \in Runners, CopyFails(x) PROVE VerifyInv'
  <1>1. Alive(x) /\ JobsTyped /\ run[x].at # "settle"
    BY AgentCopies DEF CopyFails, On
  <1>2. PICK j \in Jobs : j = run[x].job
    BY <1>1, Runs
  <1>3. /\ copy' \in [Jobs -> {"none", "part", "whole"}] /\ marker' \in [Jobs -> 0..MaxEdits \cup {Nothing}]
        /\ copy'[j] = "none" /\ \A i \in Jobs : i # j => copy'[i] = copy[i] /\ marker'[i] = marker[i]
    BY <1>1, <1>2 DEF CopyFails, JobsTyped
  <1>4. /\ UNCHANGED <<version, builds, pend, gen, journal, jlock, slock, sup, gc, child>>
        /\ bound' \in Counts
    BY <1>1, Upsets DEF CopyFails, storage, locks
  <1>5. Move(x, "unlink") /\ done' = [done EXCEPT ![j] = Ended(run[x].rec, "incomplete")]
    BY <1>2 DEF CopyFails
  <1> QED
    BY <1>1, <1>2, <1>3, <1>4, <1>5, ConcludeSafe DEF JobsTyped

LEMMA PublishCopySafe == ASSUME VerifyAssumption, VerifyInv, NEW x \in Runners, PublishCopy(x) PROVE VerifyInv'
  <1>1. Alive(x) /\ x = "agent" /\ x \notin Helpers /\ ~run[x].rec.isolated /\ JobsTyped
    BY AgentCopies DEF PublishCopy, On
  <1>2. PICK j \in Jobs : j = run[x].job
    BY <1>1, Runs
  <1>3. run[x] \in RunType /\ run[x].rec \in JobRecords /\ Started(j) /\ Filed(j)
    BY <1>1, <1>2, Runs
  <1> DEFINE rec == Isolated(run[x].rec, j)
             went == [run[x] EXCEPT !.at = "settle"]
             all == [went EXCEPT !.rec = rec]
  <1>4. rec \in JobRecords /\ rec.root = j /\ rec.isolated
    BY <1>3, RecordEdits
  <1>5. run' = [run EXCEPT ![x] = all] /\ pend' = [pend EXCEPT ![j] = rec]
    BY <1>1, <1>2, <1>3 DEF PublishCopy, JobsTyped, RunType
  <1> HIDE DEF rec
  <1>6. went \in RunType /\ went.at = "settle" /\ SameRun(run[x], went)
    <2>1. "settle" \in RunPhases
      BY DEF RunPhases
    <2>2. SameRun(run[x], went) /\ went.at = "settle"
      BY <1>3, <2>1, RunEdits
    <2> QED
      BY <2>2 DEF SameRun
  <1> HIDE DEF went
  <1>7. all \in RunType /\ all.at = "settle" /\ all.job = j /\ all.tree = run[x].tree /\ all.rec = rec
    BY <1>2, <1>4, <1>6, RunEdits DEF SameRun
  <1> HIDE DEF all
  <1>8. run' \in [Runners -> RunType] /\ run'[x] = all /\ \A y \in Runners : y # x => run'[y] = run[y]
    BY <1>1, <1>5, <1>7 DEF JobsTyped
  <1>9. /\ pend' \in [Jobs -> JobRecords \cup {Nothing}] /\ pend'[j] = rec
        /\ \A i \in Jobs : i # j => pend'[i] = pend[i]
    BY <1>1, <1>4, <1>5 DEF JobsTyped
  <1>10. UNCHANGED <<version, copy, builds, marker, done, gen, journal, jlock, slock, sup, gc, child, bound>>
    BY DEF PublishCopy, copies, storage, locks
  <1>11. JobsTyped'
    BY <1>1, <1>8, <1>9, <1>10 DEF JobsTyped
  <1>12. Started(j)' /\ Filed(j)'
    BY <1>3, <1>4, <1>9, <1>10, Names DEF Started, Filed, Lives
  <1>13. /\ Alive(x)' /\ ~Working(x)' /\ run'[x].job = j /\ run'[x].tree = run[x].tree /\ run'[x].rec = rec
         /\ run'[x].at = "settle"
    BY <1>7, <1>8 DEF Alive, Working
  <1> QED
    BY <1>1, <1>2, <1>4, <1>8, <1>9, <1>10, <1>11, <1>12, <1>13, StepKept

-----------------------------------------------------------------------------
(* The steps of the supervisor. *)

LEMMA SupTook ==
    ASSUME VerifyAssumption, VerifyInv, sup.at # "idle"
    PROVE  /\ JobsTyped /\ sup.job \in Jobs /\ sup.rec \in JobRecords /\ Started(sup.job) /\ Filed(sup.job)
           /\ sup.rec.isolated => sup.rec.root = sup.job
           /\ ~sup.rec.isolated => ~Lives(done[sup.job])
           /\ sup \in SupType /\ sup.rec # Nothing
           /\ sup.at \notin {"looked"} => SupHas
  BY Names DEF VerifyInv, SupHolds, JobsTyped, SupHas

\* It goes on to its next step.
LEMMA SupGoes ==
    ASSUME NEW s \in SupType, NEW at \in {"idle", "looked", "copy", "copied", "own", "launch", "drop"}
    PROVE  LET n == [s EXCEPT !.at = at] IN n \in SupType /\ n.at = at /\ n.job = s.job /\ n.rec = s.rec
  BY DEF SupType

LEMMA SupGivesUp ==
    ASSUME VerifyAssumption, VerifyInv, SupHas, Deferred(sup.rec),
           UNCHANGED <<version, builds, done, gen, journal, slock, run, child, gc>>, bound' \in Counts,
           copy' \in [Jobs -> {"none", "part", "whole"}], marker' \in [Jobs -> 0..MaxEdits \cup {Nothing}],
           \A i \in Jobs : i # sup.job => copy'[i] = copy[i] /\ marker'[i] = marker[i],
           copy'[sup.job] = copy[sup.job] \/ copy'[sup.job] = "none"
    PROVE  VerifyInv'
  <1>1. PICK j \in Jobs : j = sup.job
    BY SupTook DEF SupHas
  <1>2. /\ JobsTyped /\ sup.rec \in JobRecords /\ sup.rec # Nothing /\ Filed(j) /\ (sup.rec.isolated => sup.rec.root = j)
        /\ ~sup.rec.isolated => ~Lives(done[j])
    BY <1>1, SupTook DEF SupHas
  <1>3. /\ pend' \in [Jobs -> JobRecords \cup {Nothing}] /\ pend'[j] = sup.rec
        /\ \A i \in Jobs : i # j => pend'[i] = pend[i]
    BY <1>1, <1>2 DEF Deferred, JobsTyped
  <1>4. /\ jlock' \in [Jobs -> SUBSET (Helpers \cup {"sup", "gc"})]
        /\ \A i \in Jobs : jlock'[i] = jlock[i] \ {"sup"}
    BY <1>2 DEF Deferred, SupLocks, JobsTyped
  <1>5. sup' \in SupType /\ sup'.at = "idle"
    BY NobodyElse DEF Deferred
  <1>6. JobsTyped'
    BY <1>2, <1>3, <1>4, <1>5 DEF JobsTyped
  <1>7. Started(j)' /\ Filed(j)'
    BY <1>1, <1>2, <1>3 DEF Started, Filed, Lives
  <1>8. SupHolds'
    BY <1>5 DEF SupHolds, SupHas
  <1> QED
    BY <1>1, <1>3, <1>4, <1>6, <1>7, <1>8, SupMoves

LEMMA SupWaits == ASSUME VerifyAssumption, VerifyInv, SupCopyPressed \/ LaunchWaits PROVE VerifyInv'
  <1>1. CASE SupCopyPressed
    <2>1. SupHas
      BY <1>1 DEF SupCopyPressed, SupHas
    <2>2. JobsTyped /\ sup.job \in Jobs
      BY <2>1, SupTook DEF SupHas
    <2>3. UNCHANGED <<version, builds, done, gen, journal, slock, run, child, gc>> /\ bound' \in Counts
      BY <1>1, <2>2, Upsets DEF SupCopyPressed, storage
    <2>4. /\ copy' \in [Jobs -> {"none", "part", "whole"}] /\ marker' \in [Jobs -> 0..MaxEdits \cup {Nothing}]
          /\ copy'[sup.job] = "none"
          /\ \A i \in Jobs : i # sup.job => copy'[i] = copy[i] /\ marker'[i] = marker[i]
      BY <1>1, <2>2 DEF SupCopyPressed, JobsTyped
    <2>5. Deferred(sup.rec)
      BY <1>1 DEF SupCopyPressed
    <2> QED
      BY <2>1, <2>3, <2>4, <2>5, SupGivesUp
  <1>2. CASE LaunchWaits
    <2>1. SupHas
      BY <1>2 DEF LaunchWaits, SupHas
    <2>2. JobsTyped /\ sup.job \in Jobs
      BY <2>1, SupTook DEF SupHas
    <2>3. bound' \in Counts
      <3>1. CASE UNCHANGED bound
        BY <2>2, <3>1, NoUpset
      <3>2. CASE Upset
        BY <2>2, <3>2, Upsets
      <3> QED
        BY <1>2, <3>1, <3>2 DEF LaunchWaits
    <2>4. UNCHANGED <<version, copy, builds, done, gen, journal, slock, run, child, gc>>
      BY <1>2 DEF LaunchWaits, storage
    <2>5. /\ marker' \in [Jobs -> 0..MaxEdits \cup {Nothing}]
          /\ \A i \in Jobs : i # sup.job => marker'[i] = marker[i]
      BY <1>2, <2>2 DEF LaunchWaits, JobsTyped
    <2>6. Deferred(sup.rec)
      BY <1>2 DEF LaunchWaits
    <2> QED
      BY <2>1, <2>2, <2>3, <2>4, <2>5, <2>6, SupGivesUp DEF JobsTyped
  <1> QED
    BY <1>1, <1>2

LEMMA DropJobSafe == ASSUME VerifyAssumption, VerifyInv, DropJob PROVE VerifyInv'
  <1>1. SupHas
    BY DEF DropJob, SupHas
  <1>2. PICK j \in Jobs : j = sup.job
    BY <1>1, SupTook DEF SupHas
  <1>3. JobsTyped /\ sup.rec \in JobRecords /\ Filed(j)
    BY <1>1, <1>2, SupTook DEF SupHas
  <1>4. Ended(sup.rec, "incomplete") \in JobRecords
    BY <1>3 DEF Ended, JobRecords
  <1>5. /\ pend' \in [Jobs -> JobRecords \cup {Nothing}] /\ pend'[j] = Nothing
        /\ done' \in [Jobs -> JobRecords \cup {Nothing}] /\ done'[j] \in JobRecords
        /\ \A i \in Jobs : i # j => pend'[i] = pend[i] /\ done'[i] = done[i]
    BY <1>2, <1>3, <1>4 DEF DropJob, JobsTyped
  <1>6. /\ jlock' \in [Jobs -> SUBSET (Helpers \cup {"sup", "gc"})]
        /\ \A i \in Jobs : jlock'[i] = jlock[i] \ {"sup"}
    BY <1>3 DEF DropJob, SupLocks, JobsTyped
  <1>7. sup' \in SupType /\ sup'.at = "idle"
    BY NobodyElse DEF DropJob
  <1>8. UNCHANGED <<version, copy, builds, marker, gen, journal, slock, run, child, gc, bound>>
    BY DEF DropJob, copies, storage
  <1>9. JobsTyped'
    BY <1>3, <1>5, <1>6, <1>7, <1>8 DEF JobsTyped
  <1>10. Started(j)' /\ Filed(j)'
    BY <1>3, <1>5, <1>8, Names DEF Started, Filed, Lives
  <1>11. SupHolds'
    BY <1>7 DEF SupHolds, SupHas
  <1>12. Lives(done'[j]) => pend'[j] = Nothing
    BY <1>5
  <1> QED
    BY <1>1, <1>2, <1>5, <1>6, <1>8, <1>9, <1>10, <1>11, SupMoves

LEMMA SupCopyBeginsSafe == ASSUME VerifyAssumption, VerifyInv, SupCopyBegins PROVE VerifyInv'
  <1>1. SupHas /\ sup.at = "copy"
    BY DEF SupCopyBegins, SupHas
  <1>2. PICK j \in Jobs : j = sup.job
    BY <1>1, SupTook DEF SupHas
  <1>3. JobsTyped /\ sup.rec \in JobRecords /\ Started(j) /\ Filed(j) /\ sup \in SupType /\ SupHolds
    BY <1>1, <1>2, SupTook DEF SupHas, VerifyInv
  <1>4. version[sup.rec.root] \in 0..MaxEdits
    BY <1>3 DEF JobRecords, JobsTyped
  <1>5. NoJournal \in JournalType
    BY NobodyElse
  <1>6. /\ copy' \in [Jobs -> {"none", "part", "whole"}] /\ builds' \in [Jobs -> {"whole", "torn", "lost"}]
        /\ builds'[j] = "lost" /\ copy'[j] = "part"
        /\ \A i \in Jobs : i # j => copy'[i] = copy[i] /\ builds'[i] = builds[i]
    BY <1>2, <1>3 DEF SupCopyBegins, JobsTyped
  <1>7. /\ marker' \in [Jobs -> 0..MaxEdits \cup {Nothing}] /\ marker'[j] # Nothing
        /\ \A i \in Jobs : i # j => marker'[i] = marker[i]
    BY <1>2, <1>3, <1>4, Names DEF SupCopyBegins, JobsTyped
  <1>8. /\ journal' \in [Jobs -> JournalType] /\ \A i \in Jobs : i # j => journal'[i] = journal[i]
    BY <1>2, <1>3, <1>5 DEF SupCopyBegins, JobsTyped, FreshJournal
  <1>9. sup' \in SupType /\ sup'.at = "copied" /\ sup'.job = sup.job /\ sup'.rec = sup.rec
    BY <1>3, SupGoes DEF SupCopyBegins
  <1>10. UNCHANGED <<version, pend, done, gen, jlock, slock, run, gc, child, bound>>
    BY DEF SupCopyBegins, records, locks
  <1>11. JobsTyped'
    BY <1>3, <1>6, <1>7, <1>8, <1>9, <1>10 DEF JobsTyped
  <1>12. Started(j)' /\ Filed(j)'
    BY <1>3, <1>6, <1>10 DEF Started, Filed, Lives
  <1>13. SupHolds'
    BY <1>1, <1>2, <1>3, <1>6, <1>7, <1>9, <1>10 DEF SupHolds, SupHas, Started, Alive
  <1> QED
    BY <1>1, <1>2, <1>6, <1>7, <1>8, <1>10, <1>11, <1>12, <1>13, SupMoves

LEMMA SupCopyEndsSafe == ASSUME VerifyAssumption, VerifyInv, SupCopyEnds PROVE VerifyInv'
  <1>1. SupHas /\ sup.at = "copied"
    BY DEF SupCopyEnds, SupHas
  <1>2. PICK j \in Jobs : j = sup.job
    BY <1>1, SupTook DEF SupHas
  <1>3. JobsTyped /\ sup.rec \in JobRecords /\ Started(j) /\ Filed(j) /\ sup \in SupType /\ SupHolds
    BY <1>1, <1>2, SupTook DEF SupHas, VerifyInv
  <1>4. marker[j] \in 0..MaxEdits
    BY <1>1, <1>2, <1>3 DEF SupHolds, JobsTyped
  <1>5. version' \in [Trees -> 0..MaxEdits]
    BY <1>2, <1>3, <1>4 DEF SupCopyEnds, JobsTyped, Trees
  <1>6. copy' \in [Jobs -> {"none", "part", "whole"}] /\ copy'[j] = "whole" /\ \A i \in Jobs : i # j => copy'[i] = copy[i]
    BY <1>2, <1>3 DEF SupCopyEnds, JobsTyped
  <1>7. PICK b \in {"whole", "lost"} : builds' = [builds EXCEPT ![j] = b]
    BY <1>2 DEF SupCopyEnds
  <1>8. /\ builds' \in [Jobs -> {"whole", "torn", "lost"}] /\ builds'[j] # "torn"
        /\ \A i \in Jobs : i # j => builds'[i] = builds[i]
    BY <1>3, <1>7 DEF JobsTyped
  <1>9. sup' \in SupType /\ sup'.at \in {"own", "drop"} /\ sup'.job = sup.job /\ sup'.rec = sup.rec
    <2> DEFINE at == IF marker[j] = sup.rec.src THEN "own" ELSE "drop"
    <2>1. sup' = [sup EXCEPT !.at = at] /\ at \in {"own", "drop"}
      BY <1>2 DEF SupCopyEnds
    <2> HIDE DEF at
    <2> QED
      BY <1>3, <2>1 DEF SupType
  <1>10. UNCHANGED <<marker, pend, done, gen, journal, jlock, slock, run, gc, child, bound>>
    BY DEF SupCopyEnds, records, storage, locks
  <1>11. JobsTyped'
    BY <1>3, <1>5, <1>6, <1>8, <1>9, <1>10 DEF JobsTyped
  <1>12. Started(j)' /\ Filed(j)'
    BY <1>3, <1>8, <1>10 DEF Started, Filed, Lives
  <1>13. SupHolds'
    BY <1>1, <1>2, <1>3, <1>6, <1>9, <1>10 DEF SupHolds, SupHas, Started, Alive
  <1> QED
    BY <1>1, <1>2, <1>6, <1>8, <1>10, <1>11, <1>12, <1>13, SupMoves

LEMMA OwnSafe == ASSUME VerifyAssumption, VerifyInv, Own PROVE VerifyInv'
  <1>1. SupHas /\ sup.at = "own"
    BY DEF Own, SupHas
  <1>2. PICK j \in Jobs : j = sup.job
    BY <1>1, SupTook DEF SupHas
  <1>3. JobsTyped /\ sup.rec \in JobRecords /\ Started(j) /\ Filed(j) /\ sup \in SupType /\ SupHolds
    BY <1>1, <1>2, SupTook DEF SupHas, VerifyInv
  <1> DEFINE rec == Isolated(sup.rec, j)
  <1>4. rec \in JobRecords /\ rec.root = j /\ rec.isolated /\ rec # Nothing
    BY <1>3, RecordEdits, Names
  <1>5. sup' = [sup EXCEPT !.at = "launch", !.rec = rec] /\ pend' = [pend EXCEPT ![j] = rec]
    BY <1>2 DEF Own
  <1> HIDE DEF rec
  <1>6. sup' \in SupType /\ sup'.at = "launch" /\ sup'.job = sup.job /\ sup'.rec = rec
    BY <1>3, <1>4, <1>5 DEF SupType
  <1>7. /\ pend' \in [Jobs -> JobRecords \cup {Nothing}] /\ pend'[j] = rec
        /\ \A i \in Jobs : i # j => pend'[i] = pend[i]
    BY <1>3, <1>4, <1>5 DEF JobsTyped
  <1>8. UNCHANGED <<version, copy, builds, marker, done, gen, journal, jlock, slock, run, gc, child, bound>>
    BY DEF Own, copies, storage, locks
  <1>9. JobsTyped'
    BY <1>3, <1>6, <1>7, <1>8 DEF JobsTyped
  <1>10. Started(j)' /\ Filed(j)'
    BY <1>3, <1>4, <1>7, <1>8 DEF Started, Filed, Lives
  <1>11. SupHolds'
    BY <1>1, <1>2, <1>3, <1>4, <1>6, <1>7, <1>8 DEF SupHolds, SupHas, Started, Alive
  <1> QED
    BY <1>1, <1>2, <1>7, <1>8, <1>9, <1>10, <1>11, SupMoves

LEMMA SupStops == ASSUME VerifyAssumption, VerifyInv, Busy \/ KillSup PROVE VerifyInv'
  <1>1. JobsTyped /\ ChildKnown
    BY DEF VerifyInv
  <1>2. sup' = NoSup /\ sup' \in SupType /\ sup'.at = "idle"
    BY NobodyElse DEF Busy, KillSup
  <1>3. /\ jlock' \in [Jobs -> SUBSET (Helpers \cup {"sup", "gc"})]
        /\ \A i \in Jobs : jlock'[i] = jlock[i] \/ jlock'[i] = jlock[i] \ {"sup"}
    <2>1. CASE Busy
      BY <1>1, <2>1 DEF Busy, locks, JobsTyped
    <2>2. CASE KillSup
      BY <1>1, <2>2 DEF KillSup, SupLocks, JobsTyped
    <2> QED
      BY <2>1, <2>2
  <1>4. child' = child \/ child' = NoChild
    BY DEF Busy, KillSup
  <1>5. child' \in [helper : Helpers \cup {Nothing}, job : Jobs \cup {Nothing}] /\ ChildKnown'
    BY <1>1, <1>4, NobodyElse DEF JobsTyped, ChildKnown
  <1>6. /\ UNCHANGED <<version, copy, builds, marker, pend, done, gen, journal, slock, run, gc>>
        /\ bound' \in Counts
    <2>1. CASE Busy
      BY <1>1, <2>1, NoUpset DEF Busy, copies, records, storage, locks
    <2>2. CASE KillSup
      <3>1. Upset /\ UNCHANGED <<copies, records, storage, slock, run, gc>>
        BY <2>2 DEF KillSup
      <3> QED
        BY <1>1, <3>1, Upsets DEF copies, records, storage
    <2> QED
      BY <2>1, <2>2
  <1>7. JobsTyped'
    BY <1>1, <1>2, <1>3, <1>5, <1>6 DEF JobsTyped
  <1> QED
    BY <1>2, <1>3, <1>5, <1>6, <1>7, SupLeaves

\* The look changes nothing but what the supervisor remembers: every part but its own stands.
LEMMA LookSafe == ASSUME VerifyAssumption, VerifyInv, NEW j \in Jobs, Look(j) PROVE VerifyInv'
  <1>1. JobsTyped /\ Filed(j) /\ \A x \in Runners : RunHolds(x)
    BY DEF VerifyInv
  <1>2. pend[j] \in JobRecords /\ done[j] = Nothing /\ Started(j) /\ pend[j] # Nothing
    BY <1>1 DEF Look, JobsTyped, Started
  <1>3. sup' \in SupType /\ sup'.at = "looked" /\ sup'.job = j /\ sup'.rec = pend[j]
    BY <1>2 DEF Look, SupType
  <1>4. UNCHANGED <<version, copy, builds, marker, pend, done, gen, journal, jlock, slock, run, gc, child, bound>>
    BY DEF Look, copies, records, storage, locks
  <1>5. JobsTyped'
    BY <1>1, <1>3, <1>4 DEF JobsTyped
  <1>6. pend[j].isolated => pend[j].root = j
    BY <1>1, <1>2 DEF Filed, Lives
  <1>7. ASSUME ~pend[j].isolated, NEW h \in Helpers, Alive(h) PROVE run[h].job # j
    BY <1>2, <1>7 DEF VerifyInv, HelperHolds
  <1>8. SupHolds'
    BY <1>2, <1>3, <1>4, <1>6, <1>7 DEF SupHolds, SupHas, Started, Alive, Lives
  <1>9. /\ \A x \in Runners : RunHolds(x)'
        /\ \A h \in Helpers : HelperHolds(h)'
    BY <1>4 DEF VerifyInv, RunHolds, HelperHolds, Alive, Working, Started
  <1>10. AgentHolds' /\ GcHolds' /\ ChildKnown' /\ \A i \in Jobs : Filed(i)'
    BY <1>4 DEF VerifyInv, AgentHolds, Alive, GcHolds, Started, Filed, Lives, ChildKnown
  <1> QED
    BY <1>5, <1>8, <1>9, <1>10 DEF VerifyInv

LEMMA TakeJobSafe == ASSUME VerifyAssumption, VerifyInv, TakeJob PROVE VerifyInv'
  <1>1. sup.at = "looked"
    BY DEF TakeJob
  <1>2. PICK j \in Jobs : j = sup.job
    BY <1>1, SupTook
  <1>3. JobsTyped /\ sup.rec \in JobRecords /\ sup \in SupType /\ SupHolds
    BY <1>1, SupTook DEF VerifyInv
  <1>4. jlock[j] = {} /\ LeaseFree(j)
    BY <1>2 DEF TakeJob
  <1>5. Alive("agent") => run["agent"].job # j
    BY <1>4 DEF LeaseFree, VerifyInv, AgentHolds, Alive, Runners
  <1>6. /\ jlock' \in [Jobs -> SUBSET (Helpers \cup {"sup", "gc"})] /\ jlock'[j] = {"sup"}
        /\ \A i \in Jobs : i # j => jlock'[i] = jlock[i]
    BY <1>2, <1>3 DEF TakeJob, JobsTyped
  <1>7. PICK at \in {"drop", "own", "copy"} : sup' = [sup EXCEPT !.at = at] /\ (at = "own" => SourceAsRead /\ sup.rec.isolated)
    BY DEF TakeJob
  <1>8. sup' \in SupType /\ sup'.at = at /\ sup'.job = sup.job /\ sup'.rec = sup.rec
    BY <1>3, <1>7 DEF SupType
  <1>9. UNCHANGED <<version, copy, builds, marker, pend, done, gen, journal, slock, run, gc, child, bound>>
    BY DEF TakeJob, copies, records, storage
  <1>10. JobsTyped'
    BY <1>3, <1>6, <1>8, <1>9 DEF JobsTyped
  <1>11. at = "own" => copy[j] = "whole"
    BY <1>2, <1>3, <1>1, <1>7, Names DEF SourceAsRead, Present, IsCopy, SupHolds
  <1>12. SupHolds'
    BY <1>1, <1>2, <1>3, <1>5, <1>6, <1>8, <1>9, <1>11 DEF SupHolds, SupHas, Started, Alive
  <1>13. \A x \in Runners : RunHolds(x)'
    BY <1>9 DEF VerifyInv, RunHolds, Alive, Working, Started
  <1>14. \A h \in Helpers : HelperHolds(h)'
    <2> SUFFICES ASSUME NEW h \in Helpers, Alive(h) PROVE HelperHolds(h)'
      BY <1>9 DEF HelperHolds, Alive
    <2>1. HelperHolds(h) /\ run[h].job \in Jobs
      BY DEF VerifyInv, RunHolds, Runners
    <2>2. run[h].job # j
      BY <1>4, <2>1 DEF HelperHolds
    <2> QED
      BY <1>6, <1>9, <2>1, <2>2 DEF HelperHolds, Alive
  <1>15. GcHolds'
    <2>1. GcHolds /\ (gc.at # "idle" => gc.job \in Jobs /\ gc.job # j)
      BY <1>4 DEF VerifyInv, GcHolds
    <2> QED
      BY <1>6, <1>9, <2>1 DEF GcHolds, Started, Alive, Lives
  <1>16. AgentHolds' /\ ChildKnown' /\ \A i \in Jobs : Filed(i)'
    BY <1>9 DEF VerifyInv, AgentHolds, Alive, Filed, Lives, ChildKnown
  <1> QED
    BY <1>10, <1>12, <1>13, <1>14, <1>15, <1>16 DEF VerifyInv

\* A pending record goes when there is a terminal one.
LEMMA RecordCleared ==
    ASSUME VerifyAssumption, VerifyInv, sup.at = "idle", NEW j \in Jobs, pend[j] # Nothing,
           UNCHANGED <<version, copy, builds, marker, gen, journal, jlock, slock, run, sup, gc, bound>>,
           pend' = [pend EXCEPT ![j] = Nothing], ChildKnown',
           child' \in [helper : Helpers \cup {Nothing}, job : Jobs \cup {Nothing}],
           done' \in [Jobs -> JobRecords \cup {Nothing}], done'[j] # Nothing,
           done'[j] = done[j] \/ (Lives(done'[j]) => Lives(pend[j])),
           \A i \in Jobs : i # j => done'[i] = done[i]
    PROVE  VerifyInv'
  <1>1. JobsTyped
    BY DEF VerifyInv
  <1>2. /\ pend' \in [Jobs -> JobRecords \cup {Nothing}] /\ pend'[j] = Nothing
        /\ \A i \in Jobs : i # j => pend'[i] = pend[i]
    BY <1>1 DEF JobsTyped
  <1>3. JobsTyped'
    BY <1>1, <1>2 DEF JobsTyped
  <1>4. \A i \in Jobs : Started(i) => Started(i)'
    BY <1>2 DEF Started
  <1>5. \A i \in Jobs : Filed(i)'
    BY <1>2 DEF VerifyInv, Filed, Lives
  <1>6. \A x \in Runners : RunHolds(x)'
    <2> SUFFICES ASSUME NEW x \in Runners PROVE RunHolds(x)'
      OBVIOUS
    <2>1. RunHolds(x)
      BY DEF VerifyInv
    <2>2. Alive(x) => Started(run[x].job)' /\ (run[x].at = "unlink" => done'[run[x].job] # Nothing)
      BY <1>4, <2>1 DEF RunHolds
    <2> QED
      BY <2>1, <2>2 DEF RunHolds, Alive, Working, Started
  <1>7. \A h \in Helpers : HelperHolds(h)'
    <2> SUFFICES ASSUME NEW h \in Helpers, Alive(h) PROVE HelperHolds(h)'
      BY DEF HelperHolds, Alive
    <2>1. HelperHolds(h) /\ run[h].job \in Jobs
      BY DEF VerifyInv, RunHolds, Runners
    <2>2. pend'[run[h].job] = Nothing \/ pend'[run[h].job].isolated
      BY <1>2, <2>1 DEF HelperHolds
    <2> QED
      BY <2>1, <2>2 DEF HelperHolds, Alive
  <1>8. GcHolds'
    <2>1. GcHolds /\ (gc.at # "idle" => gc.job \in Jobs /\ Started(gc.job)')
      BY <1>4 DEF VerifyInv, GcHolds
    <2>2. gc.at = "discard" => ~Lives(pend'[gc.job]) /\ ~Lives(done'[gc.job])
      BY <1>2, <2>1 DEF GcHolds, Lives
    <2> QED
      BY <2>1, <2>2 DEF GcHolds, Alive
  <1>9. AgentHolds' /\ SupHolds'
    BY DEF VerifyInv, AgentHolds, SupHolds, SupHas, Alive
  <1> QED
    BY <1>3, <1>5, <1>6, <1>7, <1>8, <1>9 DEF VerifyInv

LEMMA TidiedSafe == ASSUME VerifyAssumption, VerifyInv, NEW j \in Jobs, Tidied(j) PROVE VerifyInv'
  <1>1. JobsTyped /\ ChildKnown
    BY DEF VerifyInv
  <1>2. sup.at = "idle" /\ pend[j] # Nothing /\ done[j] # Nothing /\ pend' = [pend EXCEPT ![j] = Nothing]
    BY DEF Tidied, SupFree
  <1>3. UNCHANGED <<version, copy, builds, marker, done, gen, journal, jlock, slock, run, sup, gc, child, bound>>
    BY DEF Tidied, copies, storage, locks
  <1> QED
    BY <1>1, <1>2, <1>3, RecordCleared DEF JobsTyped, ChildKnown

LEMMA ReapSafe == ASSUME VerifyAssumption, VerifyInv, Reap PROVE VerifyInv'
  <1>1. JobsTyped /\ ChildKnown
    BY DEF VerifyInv
  <1>2. PICK j \in Jobs : j = child.job
    BY <1>1 DEF ChildKnown, Reap
  <1>3. sup.at = "idle" /\ child' = NoChild
    BY DEF Reap
  <1>4. ChildKnown' /\ child' \in [helper : Helpers \cup {Nothing}, job : Jobs \cup {Nothing}]
    BY <1>3, NobodyElse DEF ChildKnown
  <1>5. UNCHANGED <<version, copy, builds, marker, gen, journal, jlock, slock, run, sup, gc, bound>>
    BY DEF Reap, copies, storage, locks
  <1>6. CASE pend[j] # Nothing /\ run[child.helper].exit = "error"
    <2>1. pend[j] \in JobRecords
      BY <1>1, <1>6 DEF JobsTyped
    <2>2. Ended(pend[j], "incomplete") \in JobRecords /\ Ended(pend[j], "incomplete").isolated = pend[j].isolated
      BY <2>1 DEF Ended, JobRecords
    <2>3. pend' = [pend EXCEPT ![j] = Nothing] /\ done' = [done EXCEPT ![j] = Ended(pend[j], "incomplete")]
      BY <1>2, <1>6 DEF Reap
    <2>4. /\ done' \in [Jobs -> JobRecords \cup {Nothing}] /\ done'[j] = Ended(pend[j], "incomplete")
          /\ \A i \in Jobs : i # j => done'[i] = done[i]
      BY <1>1, <2>2, <2>3 DEF JobsTyped
    <2>5. done'[j] # Nothing /\ (Lives(done'[j]) => Lives(pend[j]))
      BY <1>6, <2>2, <2>4, Names DEF Lives
    <2> QED
      BY <1>3, <1>4, <1>5, <1>6, <2>3, <2>4, <2>5, RecordCleared
  <1>7. CASE ~(pend[j] # Nothing /\ run[child.helper].exit = "error")
    <2>1. UNCHANGED <<pend, done>>
      BY <1>2, <1>7 DEF Reap
    <2>2. JobsTyped'
      BY <1>1, <1>4, <1>5, <2>1 DEF JobsTyped
    <2> QED
      BY <1>3, <1>4, <1>5, <2>1, <2>2, SupLeaves
  <1> QED
    BY <1>6, <1>7

LEMMA EditTreeSafe == ASSUME VerifyAssumption, VerifyInv, NEW t \in Trees, EditTree(t) PROVE VerifyInv'
  <1>1. JobsTyped
    BY DEF VerifyInv
  <1>2. bound' \in Counts /\ bound.edits + 1 \in 0..MaxEdits
    <2> DEFINE edited == bound.edits + 1
               upset == bound.upsets + 1
    <2>1. /\ bound \in Counts /\ bound.edits < MaxEdits
          /\ bound' = [bound EXCEPT !.edits = edited, !.upsets = upset]
      BY <1>1 DEF EditTree, JobsTyped
    <2>2. edited \in 0..MaxEdits /\ upset \in Nat
      BY <2>1, Names DEF Counts
    <2> HIDE DEF edited, upset
    <2>3. bound' \in Counts
      BY <2>1, <2>2 DEF Counts
    <2> QED
      BY <2>2, <2>3 DEF edited
  <1>3. version' \in [Trees -> 0..MaxEdits]
    BY <1>1, <1>2 DEF EditTree, JobsTyped
  <1>4. UNCHANGED <<copy, builds, marker, pend, done, gen, journal, jlock, slock, run, sup, gc, child>>
    BY DEF EditTree, records, storage, locks
  <1>5. JobsTyped'
    BY <1>1, <1>2, <1>3, <1>4 DEF JobsTyped
  <1>6. /\ \A x \in Runners : RunHolds(x)'
        /\ \A h \in Helpers : HelperHolds(h)'
    BY <1>4 DEF VerifyInv, RunHolds, HelperHolds, Alive, Working, Started
  <1>7. AgentHolds' /\ SupHolds' /\ GcHolds' /\ ChildKnown' /\ \A i \in Jobs : Filed(i)'
    BY <1>4 DEF VerifyInv, AgentHolds, SupHolds, SupHas, Alive, GcHolds, Started, Filed, Lives, ChildKnown
  <1> QED
    BY <1>5, <1>6, <1>7 DEF VerifyInv

LEMMA LaunchHelperSafe == ASSUME VerifyAssumption, VerifyInv, NEW h \in Helpers, LaunchHelper(h) PROVE VerifyInv'
  <1>1. SupHas /\ sup.at = "launch"
    BY DEF LaunchHelper, SupHas
  <1>2. PICK j \in Jobs : j = sup.job
    BY <1>1, SupTook DEF SupHas
  <1>3. /\ JobsTyped /\ sup.rec \in JobRecords /\ Started(j) /\ Filed(j) /\ SupHolds
        /\ h \in Runners /\ h # "agent" /\ h # Nothing /\ Nothing \notin Runners /\ run[h].at = "off"
    BY <1>1, <1>2, SupTook, Names DEF SupHas, VerifyInv, Runners, LaunchHelper, On
  <1>4. pend[j] \in JobRecords /\ pend[j].isolated /\ pend[j].root = j /\ copy[j] = "whole" /\ jlock[j] = {"sup"}
    BY <1>1, <1>2, <1>3 DEF LaunchHelper, SupHolds, JobsTyped, Filed, Lives
  <1> DEFINE rec == [pend[j] EXCEPT !.fp = Nothing]
             step == IF slock[j] = Nothing THEN "prepare" ELSE "settle"
             began == [NoRun EXCEPT !.job = j, !.tree = j, !.src = sup.rec.src, !.rec = rec, !.at = step]
  <1>5. rec \in JobRecords /\ rec.root = j /\ rec.isolated
    <2>1. Nothing \in Fingerprints
      BY DEF Fingerprints
    <2> QED
      BY <1>4, <2>1 DEF JobRecords
  <1>6. run' = [run EXCEPT ![h] = began]
    BY <1>2 DEF LaunchHelper
  <1> HIDE DEF rec
  <1>7. step \in RunPhases /\ step \in {"prepare", "settle"} /\ (step = "prepare" <=> slock[j] = Nothing)
    BY DEF RunPhases
  <1> HIDE DEF step
  <1>8. /\ began \in RunType /\ began.at = step /\ began.job = j /\ began.tree = j /\ began.rec = rec
    <2>1. sup.rec.src \in 0..MaxEdits /\ j \in Trees
      BY <1>3 DEF JobRecords, Trees
    <2>2. NoRun \in RunType
      BY NobodyRuns
    <2> QED
      BY <1>5, <1>7, <2>1, <2>2 DEF RunType
  <1> HIDE DEF began
  <1>9. run' \in [Runners -> RunType] /\ run'[h] = began /\ \A y \in Runners : y # h => run'[y] = run[y]
    BY <1>3, <1>6, <1>8 DEF JobsTyped
  <1>10. marker' \in [Jobs -> 0..MaxEdits \cup {Nothing}]
    BY <1>3 DEF LaunchHelper, JobsTyped
  <1>11. /\ slock' \in [Jobs -> Runners \cup {"gc", Nothing}]
         /\ \A i \in Jobs : slock[i] # Nothing => slock'[i] = slock[i]
         /\ slock[j] = Nothing => slock'[j] = h
    BY <1>2, <1>3 DEF LaunchHelper, JobsTyped
  <1>12. /\ jlock' \in [Jobs -> SUBSET (Helpers \cup {"sup", "gc"})] /\ jlock'[j] = {h}
         /\ \A i \in Jobs : i # j => jlock'[i] = jlock[i]
    BY <1>2, <1>3 DEF LaunchHelper, JobsTyped, InheritsLock
  <1>13. child' \in [helper : Helpers \cup {Nothing}, job : Jobs \cup {Nothing}] /\ ChildKnown' /\ sup' \in SupType /\ sup'.at = "idle"
    BY <1>2, NobodyElse DEF LaunchHelper, ChildKnown
  <1>14. UNCHANGED <<version, copy, builds, pend, done, gen, journal, gc, bound>>
    BY DEF LaunchHelper, records, storage
  <1>15. JobsTyped'
    BY <1>3, <1>9, <1>10, <1>11, <1>12, <1>13, <1>14 DEF JobsTyped
  <1>16. builds[j] # "torn"
    BY <1>2, <1>3, <1>4 DEF LaunchHelper, Removing, Filed
  <1>17. \A y \in Runners : y # h => (Alive(y)' <=> Alive(y)) /\ (Alive(y) => run[y].job # j)
    BY <1>1, <1>2, <1>9, Distinct DEF Alive
  <1>18. \A x \in Runners : RunHolds(x)'
    <2> SUFFICES ASSUME NEW x \in Runners PROVE RunHolds(x)'
      OBVIOUS
    <2>1. CASE x = h
      <3>1. Started(j)' /\ slock[j] = Nothing => slock'[j] = h
        BY <1>3, <1>11, <1>14 DEF Started
      <3> QED
        BY <1>3, <1>5, <1>7, <1>8, <1>9, <1>11, <1>14, <1>16, <2>1 DEF RunHolds, Alive, Working, Started
    <2>2. CASE x # h
      <3>1. RunHolds(x) /\ run'[x] = run[x] /\ x # Nothing
        BY <1>3, <1>9, <2>2 DEF VerifyInv
      <3>2. ASSUME Working(x), IsCopy(run[x].tree) PROVE slock'[run[x].tree] = x
        <4>1. run[x].tree \in Jobs /\ slock[run[x].tree] = x
          BY <1>3, <3>1, <3>2 DEF RunHolds, JobsTyped, RunType, Trees, IsCopy
        <4> QED
          BY <1>11, <3>1, <4>1
      <3> QED
        BY <1>14, <3>1, <3>2 DEF RunHolds, Alive, Working, Started
    <2> QED
      BY <2>1, <2>2
  <1>19. \A i \in Helpers : HelperHolds(i)'
    <2> SUFFICES ASSUME NEW i \in Helpers, Alive(i)' PROVE HelperHolds(i)'
      BY DEF HelperHolds
    <2>1. "agent" \in Runners /\ i \in Runners /\ run'["agent"] = run["agent"]
      BY <1>3, <1>9 DEF Runners
    <2>2. CASE i = h
      <3>1. Alive("agent")' => run'["agent"].job # j
        BY <1>3, <1>17, <2>1
      <3> QED
        BY <1>4, <1>5, <1>7, <1>8, <1>9, <1>12, <1>14, <2>1, <2>2, <3>1 DEF HelperHolds
    <2>3. CASE i # h
      <3>1. run'[i] = run[i] /\ Alive(i) /\ HelperHolds(i) /\ run[i].job \in Jobs /\ run[i].job # j
        BY <1>9, <1>17, <2>1, <2>3 DEF VerifyInv, RunHolds
      <3> QED
        BY <1>12, <1>14, <2>1, <3>1 DEF HelperHolds, Alive
    <2> QED
      BY <2>2, <2>3
  <1>20. AgentHolds'
    <2>1. run'["agent"] = run["agent"] /\ AgentHolds /\ "agent" \in Runners
      BY <1>3, <1>9 DEF VerifyInv, Runners
    <2>2. run["agent"].at = "copied" => marker'[run["agent"].job] = marker[run["agent"].job]
      <3>1. Alive("agent") => run["agent"].job \in Jobs /\ run["agent"].job # j
        BY <1>3, <1>17, <2>1, Runs
      <3> QED
        BY <1>2, <1>3, <3>1 DEF LaunchHelper, JobsTyped, Alive
    <2> QED
      BY <2>1, <2>2 DEF AgentHolds, Alive
  <1>21. GcHolds'
    <2>1. GcHolds /\ (gc.at # "idle" => gc.job \in Jobs /\ gc.job # j) /\ run'["agent"] = run["agent"]
      BY <1>1, <1>2, <1>3, <1>9, Distinct DEF VerifyInv, GcHolds, Runners
    <2>2. gc.at # "idle" => jlock'[gc.job] = {"gc"} /\ slock'[gc.job] = "gc"
      BY <1>11, <1>12, <2>1, Names DEF GcHolds
    <2> QED
      BY <1>14, <2>1, <2>2 DEF GcHolds, Started, Alive, Lives
  <1>22. SupHolds' /\ \A i \in Jobs : Filed(i)'
    BY <1>13, <1>14 DEF VerifyInv, SupHolds, SupHas, Filed, Lives
  <1> QED
    BY <1>13, <1>15, <1>18, <1>19, <1>20, <1>21, <1>22 DEF VerifyInv

-----------------------------------------------------------------------------
(* The steps of the collector. *)

LEMMA GcTook ==
    ASSUME VerifyAssumption, VerifyInv, gc.at # "idle"
    PROVE  /\ JobsTyped /\ gc.job \in Jobs /\ Started(gc.job) /\ Filed(gc.job) /\ GcHolds
           /\ journal[gc.job] \in JournalType /\ gc \in GcType /\ gc.gen \in 0..MaxGens
  BY DEF VerifyInv, GcHolds, JobsTyped, GcType

\* It drops its locks, having done to the copy what it did.
LEMMA GcLets ==
    ASSUME VerifyAssumption, VerifyInv, gc.at # "idle", NEW j \in Jobs, j = gc.job, GcLeaves(j),
           UNCHANGED <<version, builds, pend, done, gen, run, sup, child>>, bound' \in Counts,
           copy' \in [Jobs -> {"none", "part", "whole"}], marker' \in [Jobs -> 0..MaxEdits \cup {Nothing}],
           journal' \in [Jobs -> JournalType],
           \A i \in Jobs : i # j => copy'[i] = copy[i] /\ marker'[i] = marker[i] /\ journal'[i] = journal[i],
           builds[j] = "torn" /\ copy'[j] # "none" => journal'[j].stack
    PROVE  VerifyInv'
  <1>1. JobsTyped /\ Filed(j)
    BY GcTook
  <1>2. /\ jlock' \in [Jobs -> SUBSET (Helpers \cup {"sup", "gc"})] /\ slock' \in [Jobs -> Runners \cup {"gc", Nothing}]
        /\ \A i \in Jobs : i # j => jlock'[i] = jlock[i] /\ slock'[i] = slock[i]
    BY <1>1 DEF GcLeaves, JobsTyped
  <1>3. gc' \in GcType /\ gc'.at = "idle"
    BY NobodyElse DEF GcLeaves
  <1>4. JobsTyped'
    BY <1>1, <1>2, <1>3 DEF JobsTyped
  <1>5. Filed(j)'
    BY <1>1 DEF Filed, Lives
  <1>6. GcHolds'
    BY <1>3 DEF GcHolds
  <1> QED
    BY <1>2, <1>4, <1>5, <1>6, GcMoves

\* It goes on with its locks.
LEMMA GcKept ==
    ASSUME VerifyAssumption, VerifyInv, gc.at # "idle", NEW j \in Jobs, j = gc.job,
           UNCHANGED <<version, marker, pend, done, run, jlock, slock, sup, child, bound>>,
           gc' \in GcType, gc'.job = j, gc'.at \in {"discard", "generation", "journal", "remove", "inventory"},
           copy' \in [Jobs -> {"none", "part", "whole"}], builds' \in [Jobs -> {"whole", "torn", "lost"}],
           gen' \in [Jobs -> 0..MaxGens], journal' \in [Jobs -> JournalType],
           \A i \in Jobs : i # j => copy'[i] = copy[i] /\ builds'[i] = builds[i] /\ journal'[i] = journal[i],
           builds'[j] = "torn" /\ copy'[j] # "none" => journal'[j].stack,
           gc'.at = "discard" => gc.at = "discard",
           gc'.at = "remove" => journal'[j].stack, gc'.at = "inventory" => builds'[j] = "lost"
    PROVE  VerifyInv'
  <1>1. JobsTyped /\ Filed(j) /\ GcHolds /\ Started(j)
    BY GcTook
  <1>2. JobsTyped'
    BY <1>1 DEF JobsTyped
  <1>3. Filed(j)'
    BY <1>1 DEF Filed, Lives
  <1>4. GcHolds'
    BY <1>1 DEF GcHolds, Started, Alive, Lives
  <1> QED
    BY <1>2, <1>3, <1>4, GcMoves

LEMMA DiscardSafe == ASSUME VerifyAssumption, VerifyInv, Discard PROVE VerifyInv'
  <1>1. gc.at = "discard"
    BY DEF Discard
  <1>2. PICK j \in Jobs : j = gc.job
    BY <1>1, GcTook
  <1>3. JobsTyped /\ Filed(j) /\ gc \in GcType /\ NoJournal \in JournalType
    BY <1>1, <1>2, GcTook, NobodyElse
  <1>4. UNCHANGED <<version, builds, pend, done, gen, run, sup, child, bound>>
    BY DEF Discard, records
  <1>5. CASE copy[j] = "whole" /\ copy' = [copy EXCEPT ![j] = "part"] /\ UNCHANGED <<marker, journal, gc, locks>>
    <2>1. /\ copy' \in [Jobs -> {"none", "part", "whole"}] /\ \A i \in Jobs : i # j => copy'[i] = copy[i]
      BY <1>3, <1>5 DEF JobsTyped
    <2>2. UNCHANGED <<marker, journal, gc, jlock, slock>>
      BY <1>5 DEF locks
    <2> QED
      BY <1>1, <1>2, <1>3, <1>4, <1>5, <2>1, <2>2, GcKept DEF JobsTyped, Filed
  <1>6. CASE /\ copy' = [copy EXCEPT ![j] = "none"] /\ marker' = [marker EXCEPT ![j] = Nothing]
             /\ journal' = [journal EXCEPT ![j] = NoJournal] /\ GcLeaves(j)
    <2>1. /\ copy' \in [Jobs -> {"none", "part", "whole"}] /\ marker' \in [Jobs -> 0..MaxEdits \cup {Nothing}]
          /\ journal' \in [Jobs -> JournalType] /\ copy'[j] = "none"
          /\ \A i \in Jobs : i # j => copy'[i] = copy[i] /\ marker'[i] = marker[i] /\ journal'[i] = journal[i]
      BY <1>3, <1>6 DEF JobsTyped
    <2> QED
      BY <1>1, <1>2, <1>3, <1>4, <1>6, <2>1, NoUpset, GcLets
  <1> QED
    BY <1>2, <1>5, <1>6 DEF Discard

LEMMA EvictionSafe ==
    ASSUME VerifyAssumption, VerifyInv, NewGeneration \/ Journalled \/ RemoveSome \/ RemoveRest
    PROVE  VerifyInv'
  <1>1. gc.at # "idle"
    BY DEF NewGeneration, Journalled, RemoveSome, RemoveRest
  <1>2. PICK j \in Jobs : j = gc.job
    BY <1>1, GcTook
  <1>3. JobsTyped /\ Filed(j) /\ gc \in GcType /\ GcHolds /\ gc.gen \in 0..MaxGens /\ journal[j] \in JournalType
    BY <1>1, <1>2, GcTook
  <1>4. CASE NewGeneration
    <2>1. gc' \in GcType /\ gc'.job = j /\ gc'.at = "journal"
      BY <1>2, <1>3, <1>4 DEF NewGeneration, GcType
    <2>2. gen' \in [Jobs -> 0..MaxGens]
      BY <1>2, <1>3, <1>4 DEF NewGeneration, JobsTyped
    <2>3. UNCHANGED <<version, copy, builds, marker, pend, done, journal, jlock, slock, run, sup, child, bound>>
      BY <1>4 DEF NewGeneration, copies, records, locks
    <2> QED
      BY <1>1, <1>2, <1>3, <2>1, <2>2, <2>3, GcKept DEF JobsTyped, Filed
  <1>5. CASE Journalled
    <2>1. gc' \in GcType /\ gc'.job = j /\ gc'.at = "remove"
      BY <1>2, <1>3, <1>5 DEF Journalled, GcType
    <2>2. Intent \in JournalType /\ Intent.stack
      BY <1>3 DEF Intent, JournalType
    <2>3. /\ journal' \in [Jobs -> JournalType] /\ journal'[j].stack
          /\ \A i \in Jobs : i # j => journal'[i] = journal[i]
      BY <1>2, <1>3, <1>5, <2>2 DEF Journalled, JobsTyped
    <2>4. UNCHANGED <<version, copy, builds, marker, pend, done, gen, jlock, slock, run, sup, child, bound>>
      BY <1>5 DEF Journalled, copies, records, locks
    <2> QED
      BY <1>1, <1>2, <1>3, <2>1, <2>3, <2>4, GcKept DEF JobsTyped
  <1>6. CASE RemoveSome
    <2>1. gc.at = "remove" /\ journal[j].stack
      BY <1>2, <1>3, <1>6 DEF RemoveSome, GcHolds
    <2>2. /\ builds' \in [Jobs -> {"whole", "torn", "lost"}]
          /\ \A i \in Jobs : i # j => builds'[i] = builds[i]
      BY <1>2, <1>3, <1>6 DEF RemoveSome, JobsTyped
    <2>3. UNCHANGED <<version, copy, marker, pend, done, gen, journal, jlock, slock, run, sup, child, gc, bound>>
      BY <1>6 DEF RemoveSome, records, storage, locks
    <2> QED
      BY <1>1, <1>2, <1>3, <2>1, <2>2, <2>3, GcKept DEF JobsTyped
  <1>7. CASE RemoveRest
    <2>1. gc' \in GcType /\ gc'.job = j /\ gc'.at = "inventory"
      BY <1>2, <1>3, <1>7 DEF RemoveRest, GcType
    <2>2. /\ builds' \in [Jobs -> {"whole", "torn", "lost"}] /\ builds'[j] = "lost"
          /\ \A i \in Jobs : i # j => builds'[i] = builds[i]
      BY <1>2, <1>3, <1>7 DEF RemoveRest, JobsTyped
    <2> DEFINE left == [journal[j] EXCEPT !.stack = FALSE]
    <2>3. journal' = [journal EXCEPT ![j] = left]
      BY <1>2, <1>7 DEF RemoveRest
    <2>4. left \in JournalType
      BY <1>3 DEF JournalType
    <2> HIDE DEF left
    <2>5. journal' \in [Jobs -> JournalType] /\ \A i \in Jobs : i # j => journal'[i] = journal[i]
      BY <1>3, <2>3, <2>4 DEF JobsTyped
    <2>6. UNCHANGED <<version, copy, marker, pend, done, gen, jlock, slock, run, sup, child, bound>>
      BY <1>7 DEF RemoveRest, records, locks
    <2> QED
      BY <1>1, <1>2, <1>3, <2>1, <2>2, <2>5, <2>6, GcKept DEF JobsTyped
  <1> QED
    BY <1>4, <1>5, <1>6, <1>7

LEMMA GcStops == ASSUME VerifyAssumption, VerifyInv, Inventoried \/ SliceEnds \/ KillGc PROVE VerifyInv'
  <1>1. gc.at # "idle"
    BY DEF Inventoried, SliceEnds, KillGc
  <1>2. PICK j \in Jobs : j = gc.job
    BY <1>1, GcTook
  <1>3. JobsTyped /\ Filed(j) /\ GcHolds /\ NoJournal \in JournalType
    BY <1>1, <1>2, GcTook, NobodyElse
  <1>4. CASE Inventoried
    <2>1. builds[j] = "lost" /\ GcLeaves(j)
      BY <1>2, <1>3, <1>4 DEF Inventoried, GcHolds
    <2>2. journal' \in [Jobs -> JournalType] /\ \A i \in Jobs : i # j => journal'[i] = journal[i]
      BY <1>2, <1>3, <1>4 DEF Inventoried, JobsTyped
    <2>3. UNCHANGED <<version, copy, builds, marker, pend, done, gen, run, sup, child, bound>>
      BY <1>4 DEF Inventoried, copies, records
    <2> QED
      BY <1>1, <1>2, <1>3, <2>1, <2>2, <2>3, GcLets DEF JobsTyped
  <1>5. CASE SliceEnds \/ KillGc
    <2>1. Upset /\ GcLeaves(j)
      BY <1>2, <1>5 DEF SliceEnds, KillGc
    <2>2. UNCHANGED <<copies, records, storage, run, sup, child>>
      BY <1>5 DEF SliceEnds, KillGc
    <2>3. UNCHANGED <<version, copy, builds, marker, pend, done, gen, journal, run, sup, child>>
      BY <2>2 DEF copies, records, storage
    <2>4. bound' \in Counts
      BY <1>3, <2>1, Upsets
    <2> QED
      BY <1>1, <1>2, <1>3, <2>1, <2>3, <2>4, GcLets DEF JobsTyped, Filed
  <1> QED
    BY <1>4, <1>5

LEMMA CollectSafe == ASSUME VerifyAssumption, VerifyInv, NEW j \in Jobs, Collect(j) PROVE VerifyInv'
  <1>1. JobsTyped /\ Filed(j) /\ GcHolds /\ gc.at = "idle"
    BY DEF VerifyInv, Collect
  <1>2. Started(j) /\ jlock[j] = {} /\ slock[j] = Nothing /\ LeaseFree(j)
    BY DEF Collect, GcTakes, JobRecord, Started
  <1>3. Alive("agent") => run["agent"].job # j
    BY <1>2 DEF LeaseFree, VerifyInv, AgentHolds, Alive, Runners
  <1>4. /\ jlock' \in [Jobs -> SUBSET (Helpers \cup {"sup", "gc"})] /\ jlock'[j] = {"gc"}
        /\ slock' \in [Jobs -> Runners \cup {"gc", Nothing}] /\ slock'[j] = "gc"
        /\ \A i \in Jobs : i # j => jlock'[i] = jlock[i] /\ slock'[i] = slock[i]
    BY <1>1 DEF Collect, GcTakes, JobsTyped
  <1>5. UNCHANGED <<version, copy, builds, marker, pend, done, gen, run, sup, child, bound>>
    BY DEF Collect, copies, records
  <1>6. journal[j] \in JournalType /\ gen[j] \in 0..MaxGens
    BY <1>1 DEF JobsTyped
  <1>7. /\ journal' \in [Jobs -> JournalType] /\ gc' \in GcType /\ gc'.job = j /\ journal'[j].stack = journal[j].stack
        /\ \A i \in Jobs : i # j => journal'[i] = journal[i]
        /\ gc'.at \in {"discard", "generation"}
        /\ gc'.at = "discard" => FailedCopy(j, JobRecord(j))
    <2>1. CASE FailedCopy(j, JobRecord(j))
      <3> DEFINE begun == [journal[j] EXCEPT !.copying = TRUE]
      <3>1. journal' = [journal EXCEPT ![j] = begun] /\ gc' = [NoGc EXCEPT !.at = "discard", !.job = j]
        BY <2>1 DEF Collect
      <3>2. begun \in JournalType /\ begun.stack = journal[j].stack
        BY <1>6 DEF JournalType
      <3> HIDE DEF begun
      <3>3. gc' \in GcType /\ gc'.job = j /\ gc'.at = "discard"
        BY <3>1, NobodyElse DEF GcType
      <3> QED
        BY <1>1, <2>1, <3>1, <3>2, <3>3 DEF JobsTyped
    <2>2. CASE ~FailedCopy(j, JobRecord(j))
      <3> DEFINE next == IF journal[j].gen = 0 THEN gen[j] + 1 ELSE journal[j].gen
      <3>1. UNCHANGED journal /\ gc' = [at |-> "generation", job |-> j, gen |-> next]
        BY <2>2 DEF Collect
      <3>2. next \in 0..MaxGens
        BY <1>6, <2>2, Names DEF Collect, JournalType
      <3> HIDE DEF next
      <3> QED
        BY <1>1, <3>1, <3>2 DEF JobsTyped, GcType
    <2> QED
      BY <2>1, <2>2
  <1>8. JobsTyped'
    BY <1>1, <1>4, <1>5, <1>7 DEF JobsTyped
  <1>9. gc'.at = "discard" => ~Lives(pend[j]) /\ ~Lives(done[j])
    BY <1>1, <1>7 DEF FailedCopy, JobRecord, Filed, Lives
  <1>10. GcHolds'
    BY <1>2, <1>3, <1>4, <1>5, <1>7, <1>9 DEF GcHolds, Started, Alive, Lives
  <1>11. \A i \in Jobs : Filed(i)'
    BY <1>5, <1>7 DEF VerifyInv, Filed, Lives
  <1>12. \A x \in Runners : RunHolds(x)'
    <2> SUFFICES ASSUME NEW x \in Runners PROVE RunHolds(x)'
      OBVIOUS
    <2>1. RunHolds(x) /\ x # Nothing
      BY Names DEF VerifyInv, Runners
    <2>2. ASSUME Working(x), IsCopy(run[x].tree) PROVE slock'[run[x].tree] = x
      <3>1. run[x].tree \in Jobs /\ slock[run[x].tree] = x
        BY <1>1, <2>1, <2>2 DEF RunHolds, JobsTyped, RunType, Trees, IsCopy
      <3> QED
        BY <1>2, <1>4, <2>1, <3>1
    <2> QED
      BY <1>5, <2>1, <2>2 DEF RunHolds, Alive, Working, Started
  <1>13. \A h \in Helpers : HelperHolds(h)'
    <2> SUFFICES ASSUME NEW h \in Helpers, Alive(h) PROVE HelperHolds(h)'
      BY <1>5 DEF HelperHolds, Alive
    <2>1. HelperHolds(h) /\ run[h].job \in Jobs
      BY DEF VerifyInv, RunHolds, Runners
    <2>2. run[h].job # j
      BY <1>2, <2>1 DEF HelperHolds
    <2> QED
      BY <1>4, <1>5, <2>1, <2>2 DEF HelperHolds, Alive
  <1>14. SupHolds'
    <2>1. SupHolds /\ (SupHas => sup.job \in Jobs /\ sup.job # j)
      BY <1>2 DEF VerifyInv, SupHolds, SupHas
    <2> QED
      BY <1>4, <1>5, <2>1 DEF SupHolds, SupHas, Started, Alive, Lives
  <1>15. AgentHolds' /\ ChildKnown'
    BY <1>5 DEF VerifyInv, AgentHolds, Alive, ChildKnown
  <1> QED
    BY <1>8, <1>10, <1>11, <1>12, <1>13, <1>14, <1>15 DEF VerifyInv

-----------------------------------------------------------------------------
(* The agent starts: nobody has had the job before. *)

LEMMA AgentVerifiesSafe ==
    ASSUME VerifyAssumption, VerifyInv, NEW t \in Trees, NEW j \in Jobs, AgentVerifies(t, j)
    PROVE  VerifyInv'
  <1>1. JobsTyped /\ Filed(j) /\ AgentHolds /\ SupHolds /\ GcHolds
    BY DEF VerifyInv
  <1>2. ~Started(j) /\ pend[j] = Nothing /\ done[j] = Nothing
    BY DEF AgentVerifies, Started
  <1>3. /\ run["agent"].at = "off" /\ "agent" \in Runners /\ Present(t)
        /\ IsCopy(t) => slock[t] = Nothing /\ ~Removing(t)
    BY DEF AgentVerifies, On, Runners
  <1>4. t # Checkout => t \in Jobs /\ copy[t] = "whole" /\ builds[t] # "torn"
    BY <1>1, <1>3 DEF Trees, Present, IsCopy, Removing, VerifyInv, Filed
  <1> DEFINE rec == [root |-> t, src |-> version[t], isolated |-> FALSE, fp |-> Nothing, status |-> "pending"]
             began == [NoRun EXCEPT !.at = "bind", !.job = j, !.tree = t, !.src = version[t], !.rec = rec]
  <1>5. rec \in JobRecords /\ ~rec.isolated /\ rec # Nothing
    <2>1. version[t] \in 0..MaxEdits
      BY <1>1 DEF JobsTyped
    <2>2. rec \in JobRecords /\ ~rec.isolated
      BY <2>1 DEF JobRecords, Fingerprints
    <2> QED
      BY <2>2, Names
  <1>6. pend' = [pend EXCEPT ![j] = rec] /\ run' = [run EXCEPT !["agent"] = began]
    BY DEF AgentVerifies
  <1> HIDE DEF rec
  <1>7. began \in RunType /\ began.at = "bind" /\ began.job = j /\ began.tree = t /\ began.rec = rec
    <2>1. NoRun \in RunType /\ version[t] \in 0..MaxEdits
      BY <1>1, NobodyRuns DEF JobsTyped
    <2>2. "bind" \in RunPhases
      BY DEF RunPhases
    <2> QED
      BY <1>5, <2>1, <2>2 DEF RunType
  <1> HIDE DEF began
  <1>8. run' \in [Runners -> RunType] /\ run'["agent"] = began /\ \A y \in Runners : y # "agent" => run'[y] = run[y]
    BY <1>1, <1>3, <1>6, <1>7 DEF JobsTyped
  <1>9. /\ pend' \in [Jobs -> JobRecords \cup {Nothing}] /\ pend'[j] = rec
        /\ \A i \in Jobs : i # j => pend'[i] = pend[i]
    BY <1>1, <1>5, <1>6 DEF JobsTyped
  <1>10. /\ slock' \in [Jobs -> Runners \cup {"gc", Nothing}]
         /\ \A i \in Jobs : slock[i] # Nothing => slock'[i] = slock[i]
         /\ IsCopy(t) => slock'[t] = "agent"
    BY <1>1, <1>3, <1>4 DEF AgentVerifies, JobsTyped, Runners, IsCopy
  <1>11. /\ marker' \in [Jobs -> 0..MaxEdits \cup {Nothing}]
         /\ \A i \in Jobs : i # t => marker'[i] = marker[i]
    BY <1>1, <1>4 DEF AgentVerifies, JobsTyped, IsCopy
  <1>12. bound' \in Counts
    <2>1. CASE IsCopy(t)
      BY <1>1, <2>1, NoUpset DEF AgentVerifies
    <2>2. CASE ~IsCopy(t)
      BY <1>1, <2>2 DEF AgentVerifies, JobsTyped, Counts
    <2> QED
      BY <2>1, <2>2
  <1>13. UNCHANGED <<version, copy, builds, done, gen, journal, jlock, sup, child, gc>>
    BY DEF AgentVerifies, storage
  <1>14. JobsTyped'
    BY <1>1, <1>8, <1>9, <1>10, <1>11, <1>12, <1>13 DEF JobsTyped
  <1>15. \A i \in Jobs : (Started(i) => Started(i)') /\ Filed(i)'
    BY <1>2, <1>5, <1>9, <1>13 DEF VerifyInv, Started, Filed, Lives
  <1>16. \A x \in Runners : RunHolds(x)'
    <2> SUFFICES ASSUME NEW x \in Runners PROVE RunHolds(x)'
      OBVIOUS
    <2>1. CASE x = "agent"
      <3>1. Started(j)' /\ (IsCopy(t) => slock'[t] = "agent" /\ builds'[t] # "torn")
        BY <1>4, <1>5, <1>9, <1>10, <1>13 DEF Started, IsCopy
      <3> QED
        BY <1>5, <1>7, <1>8, <2>1, <3>1 DEF RunHolds, Alive, Working, Started
    <2>2. CASE x # "agent"
      <3>1. RunHolds(x) /\ run'[x] = run[x] /\ x # Nothing
        BY <1>8, <2>2, Names DEF VerifyInv, Runners
      <3>2. ASSUME Working(x), IsCopy(run[x].tree) PROVE slock'[run[x].tree] = x
        <4>1. run[x].tree \in Jobs /\ slock[run[x].tree] = x
          BY <1>1, <3>1, <3>2 DEF RunHolds, JobsTyped, RunType, Trees, IsCopy
        <4> QED
          BY <1>10, <3>1, <4>1
      <3>3. Alive(x) => Started(run[x].job)'
        BY <1>15, <3>1 DEF RunHolds
      <3> QED
        BY <1>13, <3>1, <3>2, <3>3 DEF RunHolds, Alive, Working, Started
    <2> QED
      BY <2>1, <2>2
  <1>17. \A h \in Helpers : HelperHolds(h)'
    <2> SUFFICES ASSUME NEW h \in Helpers, Alive(h)' PROVE HelperHolds(h)'
      BY DEF HelperHolds
    <2>1. h \in Runners /\ run'[h] = run[h] /\ Alive(h)
      BY <1>8, Names DEF Runners, Alive
    <2>2. HelperHolds(h) /\ run[h].job \in Jobs /\ run[h].job # j
      BY <1>2, <2>1 DEF VerifyInv, RunHolds
    <2> QED
      BY <1>7, <1>8, <1>9, <1>13, <2>1, <2>2 DEF HelperHolds, Alive
  <1>18. AgentHolds'
    BY <1>5, <1>7, <1>8 DEF AgentHolds
  <1>19. SupHolds'
    <2>1. sup.at # "idle" => sup.job \in Jobs /\ sup.job # j /\ Started(sup.job)'
      BY <1>1, <1>2, <1>13, <1>15 DEF SupHolds
    <2>2. sup.at = "copied" => sup.job # t
      BY <1>1, <1>4, Names DEF SupHolds
    <2>3. \A h \in Helpers : run'[h] = run[h]
      BY <1>8, Names DEF Runners
    <2> QED
      BY <1>1, <1>7, <1>8, <1>9, <1>11, <1>13, <2>1, <2>2, <2>3 DEF SupHolds, SupHas, Alive, Started
  <1>20. GcHolds'
    <2>1. gc.at # "idle" => gc.job \in Jobs /\ gc.job # j /\ Started(gc.job)' /\ slock'[gc.job] = "gc"
      BY <1>1, <1>2, <1>10, <1>13, <1>15, Names DEF GcHolds
    <2> QED
      BY <1>1, <1>7, <1>8, <1>9, <1>13, <2>1 DEF GcHolds, Alive, Started, Lives
  <1>21. ChildKnown'
    BY <1>13 DEF VerifyInv, ChildKnown
  <1> QED
    BY <1>14, <1>15, <1>16, <1>17, <1>18, <1>19, <1>20, <1>21 DEF VerifyInv

-----------------------------------------------------------------------------
(* The theorem. *)

LEMMA VerifySteps == ASSUME VerifyAssumption, VerifyInv, VerifyNext PROVE VerifyInv'
  <1>1. ASSUME NEW x \in Runners, RunStep(x) \/ RunFault(x) PROVE VerifyInv'
    BY <1>1, RunWorks, RunEnds, PressedSafe, UnlinkedSafe, ParkedSafe, KilledSafe, PrepareSafe, BindSafe,
       CopyBeginsSafe, CopyEndsSafe, CopyFailsSafe, PublishCopySafe DEF RunStep, RunFault
  <1>2. ASSUME SupStep PROVE VerifyInv'
    BY <1>2, SupStops, TakeJobSafe, SupCopyBeginsSafe, SupCopyEndsSafe, SupWaits, OwnSafe, LaunchHelperSafe,
       DropJobSafe, ReapSafe DEF SupStep
  <1>3. ASSUME GcStep PROVE VerifyInv'
    BY <1>3, DiscardSafe, EvictionSafe, GcStops DEF GcStep
  <1>4. ASSUME NEW j \in Jobs, Tidied(j) \/ Look(j) \/ Collect(j) PROVE VerifyInv'
    BY <1>4, TidiedSafe, LookSafe, CollectSafe
  <1>5. ASSUME NEW h \in Helpers, HelperErrs(h) PROVE VerifyInv'
    BY <1>5, KilledSafe DEF Runners
  <1>6. ASSUME SliceEnds \/ KillGc \/ KillSup PROVE VerifyInv'
    BY <1>6, GcStops, SupStops
  <1>7. ASSUME NEW t \in Trees, EditTree(t) PROVE VerifyInv'
    BY <1>7, EditTreeSafe
  <1>8. ASSUME NEW t \in Trees, NEW j \in Jobs, AgentVerifies(t, j) PROVE VerifyInv'
    BY <1>8, AgentVerifiesSafe
  <1> QED
    BY <1>1, <1>2, <1>3, <1>4, <1>5, <1>6, <1>7, <1>8 DEF VerifyNext

LEMMA VerifyStutters == ASSUME VerifyInv, UNCHANGED verifyvars PROVE VerifyInv'
  <1>1. JobsTyped' /\ ChildKnown' /\ \A j \in Jobs : Filed(j)'
    BY DEF verifyvars, VerifyInv, JobsTyped, ChildKnown, Filed, Lives
  <1>2. (\A x \in Runners : RunHolds(x)') /\ \A h \in Helpers : HelperHolds(h)'
    BY DEF verifyvars, VerifyInv, RunHolds, HelperHolds, Alive, Working, Started
  <1>3. AgentHolds' /\ SupHolds' /\ GcHolds'
    BY DEF verifyvars, VerifyInv, AgentHolds, SupHolds, SupHas, GcHolds, Alive, Started, Lives
  <1> QED
    BY <1>1, <1>2, <1>3 DEF VerifyInv

LEMMA VerifyMeans == ASSUME VerifyAssumption, VerifyInv PROVE CopiesSafe
  <1>1. VerifyTypeOK
    <2>1. \A j \in Jobs : /\ marker[j] \in 0..MaxEdits \cup {Nothing} /\ jlock[j] \subseteq Helpers \cup {"sup", "gc"}
                          /\ slock[j] \in Runners \cup {"gc", Nothing} /\ gen[j] \in 0..MaxGens
                          /\ journal[j].gen \in 0..MaxGens
      BY DEF VerifyInv, JobsTyped, JournalType
    <2>2. \A x \in Runners : run[x].at \in RunPhases
      BY DEF VerifyInv, JobsTyped, RunType
    <2>3. sup \in SupType /\ gc \in GcType /\ child.helper \in Helpers \cup {Nothing}
      BY DEF VerifyInv, JobsTyped
    <2> QED
      BY <2>1, <2>2, <2>3 DEF VerifyTypeOK, VerifyInv, JobsTyped, RunPhases, SupType, GcType
  <1>2. NoRunOnRemains
    <2> SUFFICES ASSUME NEW x \in Runners, NEW j \in Jobs, run[x].tree = j, Working(x)
                 PROVE  builds[j] # "torn" /\ (gc.at # "idle" => gc.job # j)
      BY DEF NoRunOnRemains, Working
    <2>1. slock[j] = x /\ builds[j] # "torn" /\ x # "gc"
      BY Names DEF VerifyInv, RunHolds, IsCopy, Runners
    <2> QED
      BY <2>1 DEF VerifyInv, GcHolds
  <1>3. OneHelper
    BY Distinct DEF OneHelper, On, Alive, Runners
  <1>4. CopySpared
    BY DEF VerifyInv, GcHolds, CopySpared, JobRecord, Started, Lives
  <1> QED
    BY <1>1, <1>2, <1>3, <1>4 DEF CopiesSafe

\* For any jobs, helpers, edits, faults and evictions: no run works in a copy that the collector takes from or that an
\* interrupted removal left in pieces, two helpers never work on one job, also across restarts of the supervisor, and
\* the collector never takes the copy a job lives in (verification_jobs.py, verification_storage.py).
THEOREM CopiesAreSafe == VerifyAssumption => (VerifySpec => []CopiesSafe)
  <1> SUFFICES ASSUME VerifyAssumption PROVE VerifySpec => []CopiesSafe
    OBVIOUS
  <1>1. VerifyInit => VerifyInv
    BY VerifyBegins
  <1>2. VerifyInv /\ [VerifyNext]_verifyvars => VerifyInv'
    BY VerifySteps, VerifyStutters
  <1>3. VerifyInv => CopiesSafe
    BY VerifyMeans
  <1> QED
    BY <1>1, <1>2, <1>3, PTL DEF VerifySpec

-----------------------------------------------------------------------------
(* The ledger.  A transaction is a list of events, and what each of them     *)
(* may do to a session is known from the books they are written against:    *)
(* the replay of such a list is followed event by event.                     *)

LEMMA Counting ==
    ASSUME NEW T \in SUBSET Nat, 0 \in T, \A n \in T : n + 1 \in T
    PROVE  T = Nat
  <1> DEFINE less == OpToRel(<, Nat)
             rest == Nat \ T
  <1>a. IsWellFoundedOn(less, Nat)
    BY NatLessThanWellFounded
  <1>0. \A i, j \in Nat : <<i, j>> \in less <=> i < j
    BY DEF OpToRel
  <1>1. rest \subseteq Nat
    OBVIOUS
  <1>2. SUFFICES ASSUME rest # {} PROVE FALSE
    OBVIOUS
  <1> HIDE DEF less, rest
  <1>3. PICK x \in rest : \A y \in rest : <<y, x>> \notin less
    BY <1>a, <1>1, <1>2, WFMin, Zenon
  <1>4. x \in Nat /\ x # 0 /\ x \notin T /\ x - 1 \in Nat /\ x - 1 < x /\ (x - 1) + 1 = x
    BY <1>3 DEF rest
  <1>5. x - 1 \in T
    BY <1>0, <1>3, <1>4 DEF rest
  <1> QED BY <1>4, <1>5

\* A replay of events goes through one state after each.
LEMMA ReplayedIs ==
    ASSUME NEW b, NEW events, Len(events) \in Nat
    PROVE  \E f : /\ f = [k \in 0..Len(events) |-> IF k = 0 THEN b ELSE Replay(f[k - 1], events[k])]
                  /\ Replayed(b, events) = f[Len(events)]
  <1> DEFINE Passes(f, n) == f = [k \in 0..n |-> IF k = 0 THEN b ELSE Replay(f[k - 1], events[k])]
             T == {n \in Nat : \E f : Passes(f, n)}
  <1>1. 0 \in T
    <2>1. Passes([k \in 0..0 |-> b], 0)
      OBVIOUS
    <2> QED BY <2>1
  <1>2. ASSUME NEW n \in T PROVE n + 1 \in T
    <2>1. PICK f : Passes(f, n)
      OBVIOUS
    <2> DEFINE g == [k \in 0..(n + 1) |-> IF k = n + 1 THEN Replay(f[n], events[n + 1]) ELSE f[k]]
    <2>2. ASSUME NEW k \in 0..(n + 1)
          PROVE  g[k] = IF k = 0 THEN b ELSE Replay(g[k - 1], events[k])
      <3>1. CASE k = n + 1
        <4>1. k # 0 /\ k - 1 = n /\ n \in 0..(n + 1) /\ n # n + 1
          BY <3>1
        <4>2. g[k] = Replay(f[n], events[n + 1]) /\ g[n] = f[n]
          BY <3>1, <4>1
        <4> QED BY <3>1, <4>1, <4>2
      <3>2. CASE k # n + 1
        <4>1. k \in 0..n /\ g[k] = f[k]
          BY <3>2
        <4>2. f[k] = IF k = 0 THEN b ELSE Replay(f[k - 1], events[k])
          BY <2>1, <4>1
        <4>3. k # 0 => k - 1 \in 0..(n + 1) /\ k - 1 # n + 1 /\ g[k - 1] = f[k - 1]
          BY <4>1
        <4> QED BY <4>1, <4>2, <4>3
      <3> QED BY <3>1, <3>2
    <2>3. Passes(g, n + 1)
      <3> DEFINE h == [k \in 0..(n + 1) |-> IF k = 0 THEN b ELSE Replay(g[k - 1], events[k])]
      <3>1. \A k \in 0..(n + 1) : g[k] = h[k]
        BY <2>2
      <3>2. g = h
        BY <3>1
      <3> QED BY <3>2
    <2> HIDE DEF Passes
    <2> QED BY <2>3
  <1>3. \E f : Passes(f, Len(events))
    <2> HIDE DEF Passes
    <2>1. T \subseteq Nat
      OBVIOUS
    <2>2. T = Nat
      <3> HIDE DEF T
      <3> QED BY <1>1, <1>2, <2>1, Counting
    <2> QED BY <2>2
  <1> DEFINE through == CHOOSE f : Passes(f, Len(events))
  <1>4. Passes(through, Len(events))
    BY <1>3
  <1>5. Replayed(b, events) = through[Len(events)]
    BY DEF Replayed
  <1> QED BY <1>4, <1>5

BookFields == {"balance", "spent", "rate", "watermark", "cooling", "sessions"}
SessionFields == {"worker", "chain", "resume", "status", "estimate", "cost", "provenance", "total", "reserve", "lower",
                  "tail"}
OfSession(r) == r = [f \in SessionFields |-> r[f]]
Listed(s) == s = [n \in 1..Len(s) |-> s[n]] /\ Len(s) \in Nat
Rows(s) == Listed(s) /\ \A n \in 1..Len(s) : OfSession(s[n])
\* Books, whatever amounts they hold.
Shaped(b) == b = [f \in BookFields |-> b[f]] /\ Rows(b.sessions)

LEMMA ListReplaced ==
    ASSUME NEW s, Listed(s), NEW i \in 1..Len(s), NEW r, NEW t, t = [s EXCEPT ![i] = r]
    PROVE  Listed(t) /\ Len(t) = Len(s) /\ \A n \in 1..Len(s) : t[n] = IF n = i THEN r ELSE s[n]
  <1> DEFINE X == {s[n] : n \in 1..Len(s)} \cup {r}
  <1>1. s \in [1..Len(s) -> X] /\ Len(s) \in Nat
    BY DEF Listed
  <1>2. t \in [1..Len(s) -> X] /\ \A n \in 1..Len(s) : t[n] = IF n = i THEN r ELSE s[n]
    BY <1>1
  <1> HIDE DEF X
  <1>3. Len(t) = Len(s)
    <2>1. t \in Seq(X)
      BY <1>1, <1>2
    <2> QED BY <1>1, <1>2, <2>1
  <1>4. t = [n \in 1..Len(t) |-> t[n]]
    BY <1>2, <1>3
  <1> QED BY <1>1, <1>2, <1>3, <1>4 DEF Listed

LEMMA ListAppended ==
    ASSUME NEW s, Listed(s), NEW r, NEW t, t = Append(s, r)
    PROVE  Listed(t) /\ Len(t) = Len(s) + 1 /\ \A n \in 1..Len(s) + 1 : t[n] = IF n = Len(s) + 1 THEN r ELSE s[n]
  <1> DEFINE X == {s[n] : n \in 1..Len(s)} \cup {r}
  <1>1. s \in [1..Len(s) -> X] /\ Len(s) \in Nat
    BY DEF Listed
  <1>2. s \in Seq(X) /\ r \in X
    BY <1>1
  <1> HIDE DEF X
  <1>3. t \in Seq(X) /\ Len(t) = Len(s) + 1 /\ \A n \in 1..Len(s) + 1 : t[n] = IF n = Len(s) + 1 THEN r ELSE s[n]
    BY <1>1, <1>2
  <1>4. t = [n \in 1..Len(t) |-> t[n]]
    <2>1. t \in UNION {[1..n -> X] : n \in Nat}
      BY <1>3, SeqDef, Zenon
    <2>2. PICK n \in Nat : t \in [1..n -> X]
      BY <2>1
    <2>3. n = Len(t)
      BY <2>2
    <2> QED BY <2>2, <2>3
  <1> QED BY <1>1, <1>3, <1>4 DEF Listed

Over(b, n) == b.sessions[n].status = "settled"
Native(b, n) == b.sessions[n].provenance = "native"
Receipted(b, n) == Native(b, n) /\ b.sessions[n].total # None
\* The books of sound sessions: only a settled session has a native provenance.
Sound(b) == Shaped(b) /\ \A n \in 1..Len(b.sessions) : Native(b, n) => Over(b, n)

\* An event that settles session s at most, and keeps to its session otherwise.
Fair(b, e, s) ==
    \/ e.type \in {"accrue", "grant", "rate", "cooldown"}
    \/ /\ e.type = "correction" /\ e.id \in 1..Len(b.sessions)
       /\ Receipted(b, e.id) => e.total = None
       /\ e.provenance = "native" => Over(b, e.id)
    \/ e.type = "settle" /\ e.id = s /\ s \in 1..Len(b.sessions) /\ ~Over(b, s)
    \/ /\ e.type = "unresolved" /\ e.id \in 1..Len(b.sessions) /\ e.id # s
       /\ ~Over(b, e.id) /\ e.status # "settled"

\* The books c after fair events of the books b.
Follows(b, c, s) ==
    /\ Sound(c) /\ Len(c.sessions) = Len(b.sessions)
    /\ \A n \in 1..Len(b.sessions) :
          /\ c.sessions[n].worker = b.sessions[n].worker
          /\ Over(b, n) => Over(c, n)
          /\ n # s => (Over(c, n) => Over(b, n))
          /\ Receipted(b, n) => c.sessions[n].total = b.sessions[n].total

LEMMA RowChanged ==
    ASSUME NEW b, Sound(b), NEW c, NEW s, Follows(b, c, s), NEW i \in 1..Len(b.sessions), NEW r, OfSession(r),
           NEW d, d = [f \in BookFields |-> d[f]], d.sessions = [c.sessions EXCEPT ![i] = r],
           r.worker = c.sessions[i].worker,
           Over(b, i) => r.status = "settled",
           i # s => (r.status = "settled" => Over(b, i)),
           Receipted(b, i) => r.total = b.sessions[i].total,
           r.provenance = "native" => r.status = "settled"
    PROVE  Follows(b, d, s)
  <1>1. Rows(c.sessions) /\ i \in 1..Len(c.sessions) /\ Len(c.sessions) = Len(b.sessions)
    BY DEF Follows, Sound, Shaped
  <1>2. /\ Rows(d.sessions) /\ Len(d.sessions) = Len(c.sessions)
        /\ \A n \in 1..Len(c.sessions) : d.sessions[n] = IF n = i THEN r ELSE c.sessions[n]
    BY <1>1, ListReplaced DEF Rows
  <1>3. Shaped(d)
    BY <1>2 DEF Shaped
  <1>4. ASSUME NEW n \in 1..Len(b.sessions)
        PROVE  /\ Native(d, n) => Over(d, n)
               /\ d.sessions[n].worker = b.sessions[n].worker
               /\ Over(b, n) => Over(d, n)
               /\ n # s => (Over(d, n) => Over(b, n))
               /\ Receipted(b, n) => d.sessions[n].total = b.sessions[n].total
    <2>1. CASE n = i
      BY <1>1, <1>2, <2>1 DEF Follows, Over, Native
    <2>2. CASE n # i
      BY <1>1, <1>2, <2>2 DEF Follows, Over, Native, Sound
    <2> QED BY <2>1, <2>2
  <1> QED BY <1>1, <1>2, <1>3, <1>4 DEF Follows, Sound

LEMMA FairStep ==
    ASSUME NEW b, Sound(b), NEW c, NEW s, Follows(b, c, s), NEW e, Fair(b, e, s)
    PROVE  Follows(b, Replay(c, e), s)
  <1> DEFINE d == Replay(c, e)
  <1> SUFFICES Follows(b, d, s)
    OBVIOUS
  <1>0. c = [f \in BookFields |-> c[f]] /\ Rows(c.sessions) /\ Len(c.sessions) = Len(b.sessions)
    BY DEF Follows, Sound, Shaped
  <1>1. CASE e.type \in {"accrue", "grant", "rate", "cooldown"}
    <2>1. d = [f \in BookFields |-> d[f]] /\ d.sessions = c.sessions
      <3>1. CASE e.type = "accrue"
        BY <1>0, <3>1 DEF Replay, Accrue, BookFields
      <3>2. CASE e.type = "grant"
        BY <1>0, <3>2 DEF Replay, Grant, BookFields
      <3>3. CASE e.type = "rate"
        BY <1>0, <3>3 DEF Replay, Rate, BookFields
      <3>4. CASE e.type = "cooldown"
        BY <1>0, <3>4 DEF Replay, Cool, BookFields
      <3> QED BY <1>1, <3>1, <3>2, <3>3, <3>4
    <2> HIDE DEF d
    <2> QED BY <1>0, <2>1 DEF Follows, Sound, Shaped, Over, Native
  <1>2. CASE e.type = "correction"
    <2>1. /\ e.id \in 1..Len(b.sessions)
          /\ Receipted(b, e.id) => e.total = None
          /\ e.provenance = "native" => Over(b, e.id)
      BY <1>2 DEF Fair
    <2> DEFINE o == c.sessions[e.id]
               r == Revised(o, e)
    <2>2. OfSession(o) /\ e.id \in 1..Len(c.sessions)
      <3>1. e.id \in 1..Len(c.sessions)
        BY <1>0, <2>1
      <3> QED BY <1>0, <3>1 DEF Rows
    <2>3. /\ OfSession(r) /\ r.worker = o.worker /\ r.status = o.status
          /\ r.provenance = IF e.provenance = "kept" THEN o.provenance ELSE e.provenance
          /\ r.total = IF e.total = None THEN o.total ELSE e.total
      <3> HIDE DEF o
      <3> QED BY <2>2 DEF OfSession, SessionFields, Revised
    <2>4. d = [f \in BookFields |-> d[f]] /\ d.sessions = [c.sessions EXCEPT ![e.id] = r]
      <3>0. d = Correct(c, e)
        BY <1>2 DEF Replay
      <3>1. d = [c EXCEPT !.balance = @ + e.delta, !.spent = @ - e.delta, !.sessions[e.id] = r]
        BY <3>0 DEF Correct
      <3> HIDE DEF d, r
      <3> QED BY <1>0, <2>2, <3>1 DEF BookFields, Rows, Listed
    <2>5. /\ Over(b, e.id) => r.status = "settled"
          /\ e.id # s => (r.status = "settled" => Over(b, e.id))
          /\ Receipted(b, e.id) => r.total = b.sessions[e.id].total
          /\ r.provenance = "native" => r.status = "settled"
      <3> HIDE DEF r
      <3> QED BY <1>0, <2>1, <2>3 DEF Follows, Sound, Over, Native
    <2> HIDE DEF d, r
    <2> QED BY <2>1, <2>3, <2>4, <2>5, RowChanged
  <1>3. CASE e.type = "settle"
    <2>1. e.id = s /\ e.id \in 1..Len(b.sessions) /\ ~Over(b, e.id)
      BY <1>3 DEF Fair
    <2> DEFINE o == c.sessions[e.id]
               r == [o EXCEPT !.status = "settled", !.cost = e.cost,
                              !.provenance = e.provenance, !.total = e.total]
    <2>2. OfSession(o) /\ e.id \in 1..Len(c.sessions)
      <3>1. e.id \in 1..Len(c.sessions)
        BY <1>0, <2>1
      <3> QED BY <1>0, <3>1 DEF Rows
    <2>3. OfSession(r) /\ r.worker = o.worker /\ r.status = "settled"
      <3> HIDE DEF o
      <3> QED BY <2>2 DEF OfSession, SessionFields
    <2>4. d = [f \in BookFields |-> d[f]] /\ d.sessions = [c.sessions EXCEPT ![e.id] = r]
      BY <1>0, <1>3, <2>2 DEF Replay, Settlement, BookFields, Rows, Listed
    <2>5. ~Receipted(b, e.id)
      BY <2>1 DEF Sound, Receipted
    <2> HIDE DEF d, r
    <2> QED BY <2>1, <2>3, <2>4, <2>5, RowChanged
  <1>4. CASE e.type = "unresolved"
    <2>1. e.id \in 1..Len(b.sessions) /\ e.id # s /\ ~Over(b, e.id) /\ e.status # "settled"
      BY <1>4 DEF Fair
    <2> DEFINE o == c.sessions[e.id]
               r == Reserving(o, e)
    <2>2. OfSession(o) /\ e.id \in 1..Len(c.sessions)
      <3>1. e.id \in 1..Len(c.sessions)
        BY <1>0, <2>1
      <3> QED BY <1>0, <3>1 DEF Rows
    <2>3. OfSession(r) /\ r.worker = o.worker /\ r.status = e.status /\ r.provenance = o.provenance
      <3> HIDE DEF o
      <3> QED BY <2>2 DEF OfSession, SessionFields, Reserving
    <2>4. d = [f \in BookFields |-> d[f]] /\ d.sessions = [c.sessions EXCEPT ![e.id] = r]
      <3>0. d = Unresolved(c, e)
        BY <1>4 DEF Replay
      <3>1. d = [c EXCEPT !.sessions[e.id] = r]
        BY <3>0 DEF Unresolved
      <3> HIDE DEF d, r
      <3> QED BY <1>0, <2>2, <3>1 DEF BookFields, Rows, Listed
    <2>5. o.provenance # "native"
      BY <1>0, <2>1 DEF Follows, Sound, Over, Native
    <2>6. ~Receipted(b, e.id)
      BY <2>1 DEF Sound, Receipted
    <2> HIDE DEF d, r, o
    <2> QED BY <2>1, <2>3, <2>4, <2>5, <2>6, RowChanged DEF o
  <1> QED BY <1>1, <1>2, <1>3, <1>4 DEF Fair

LEMMA FollowsItself ==
    ASSUME NEW b, Sound(b), NEW s PROVE Follows(b, b, s)
  BY DEF Follows

\* Books reached by the first m of these events, when they are fair.
LEMMA FairReplay ==
    ASSUME NEW b, Sound(b), NEW s, NEW events, Len(events) \in Nat, NEW m \in 0..Len(events),
           \A k \in 1..m : Fair(b, events[k], s)
    PROVE  \E c : /\ Follows(b, c, s)
                  /\ m = Len(events) => Replayed(b, events) = c
                  /\ m = Len(events) - 1 => Replayed(b, events) = Replay(c, events[Len(events)])
  <1>1. PICK f : /\ f = [k \in 0..Len(events) |-> IF k = 0 THEN b ELSE Replay(f[k - 1], events[k])]
                 /\ Replayed(b, events) = f[Len(events)]
    BY ReplayedIs
  <1>2. f[0] = b /\ \A k \in 1..Len(events) : f[k] = Replay(f[k - 1], events[k])
    BY <1>1
  <1> DEFINE T == {k \in Nat : k <= m => Follows(b, f[k], s)}
  <1>3. 0 \in T
    BY <1>2, FollowsItself
  <1>4. ASSUME NEW k \in T PROVE k + 1 \in T
    <2>1. CASE k + 1 <= m
      <3>1. k + 1 \in 1..Len(events) /\ k + 1 \in 1..m /\ k <= m /\ (k + 1) - 1 = k
        BY <2>1
      <3>2. f[k + 1] = Replay(f[k], events[k + 1]) /\ Follows(b, f[k], s) /\ Fair(b, events[k + 1], s)
        BY <1>2, <3>1
      <3> QED BY <3>2, FairStep
    <2> QED BY <2>1
  <1>5. T \subseteq Nat
    OBVIOUS
  <1>6. T = Nat
    <2> HIDE DEF T
    <2> QED BY <1>3, <1>4, <1>5, Counting
  <1>7. Follows(b, f[m], s)
    BY <1>6
  <1>8. m = Len(events) - 1 => f[Len(events)] = Replay(f[m], events[Len(events)])
    BY <1>2
  <1> QED BY <1>1, <1>7, <1>8

\* Sequences of fair events.
Events(b, events, s) == \E X : events \in Seq(X) /\ \A e \in X : Fair(b, e, s)

LEMMA NoEvents ==
    ASSUME NEW b, NEW s PROVE Events(b, << >>, s)
  <1> DEFINE X == {}
  <1>1. << >> \in Seq(X) /\ \A e \in X : Fair(b, e, s)
    OBVIOUS
  <1> HIDE DEF X
  <1> QED BY <1>1 DEF Events

LEMMA OneEvent ==
    ASSUME NEW b, NEW s, NEW e, Fair(b, e, s) PROVE Events(b, <<e>>, s)
  <1> DEFINE X == {e}
  <1>1. <<e>> \in Seq(X) /\ \A x \in X : Fair(b, x, s)
    OBVIOUS
  <1> HIDE DEF X
  <1> QED BY <1>1 DEF Events

LEMMA EventsOf ==
    ASSUME NEW b, NEW s, NEW n \in Nat, NEW events, events = [k \in 1..n |-> events[k]],
           \A k \in 1..n : Fair(b, events[k], s)
    PROVE  Events(b, events, s)
  <1> DEFINE X == {events[k] : k \in 1..n}
  <1>1. events \in [1..n -> X]
    OBVIOUS
  <1>2. events \in Seq(X)
    <2> HIDE DEF X
    <2>1. events \in UNION {[1..k -> X] : k \in Nat}
      BY <1>1
    <2> QED BY <2>1, SeqDef, Zenon
  <1>3. \A e \in X : Fair(b, e, s)
    OBVIOUS
  <1> HIDE DEF X
  <1> QED BY <1>2, <1>3 DEF Events

LEMMA EventsJoined ==
    ASSUME NEW b, NEW s, NEW u, NEW v, Events(b, u, s), Events(b, v, s) PROVE Events(b, u \o v, s)
  <1>1. PICK X : u \in Seq(X) /\ \A e \in X : Fair(b, e, s)
    BY DEF Events
  <1>2. PICK Y : v \in Seq(Y) /\ \A e \in Y : Fair(b, e, s)
    BY DEF Events
  <1>3. u \in Seq(X \cup Y) /\ v \in Seq(X \cup Y)
    BY <1>1, <1>2, SeqMonotonic
  <1>4. u \o v \in Seq(X \cup Y)
    BY <1>3
  <1>5. \A e \in X \cup Y : Fair(b, e, s)
    BY <1>1, <1>2
  <1> QED BY <1>4, <1>5 DEF Events

LEMMA EventsReplayed ==
    ASSUME NEW b, Sound(b), NEW s, NEW events, Events(b, events, s)
    PROVE  Follows(b, Replayed(b, events), s)
  <1>1. PICK X : events \in Seq(X) /\ \A e \in X : Fair(b, e, s)
    BY DEF Events
  <1>2. Len(events) \in Nat /\ \A k \in 1..Len(events) : events[k] \in X
    BY <1>1
  <1>3. PICK c : Follows(b, c, s) /\ Replayed(b, events) = c
    <2>1. Len(events) \in 0..Len(events) /\ \A k \in 1..Len(events) : Fair(b, events[k], s)
      BY <1>1, <1>2
    <2> QED BY <1>2, <2>1, FairReplay
  <1> QED BY <1>3

\* A replay of fair events with an admission after them.
LEMMA AdmissionReplayed ==
    ASSUME NEW b, Sound(b), NEW s, NEW events, Events(b, events, s), NEW r
    PROVE  LET admit == [type |-> "admit", session |-> r] IN
           \E c : Follows(b, c, s) /\ Replayed(b, events \o <<admit>>) = Admission(c, admit)
  <1> DEFINE admit == [type |-> "admit", session |-> r]
             all == events \o <<admit>>
  <1>1. PICK X : events \in Seq(X) /\ \A e \in X : Fair(b, e, s)
    BY DEF Events
  <1>2. Len(events) \in Nat /\ \A k \in 1..Len(events) : events[k] \in X
    BY <1>1
  <1>3. /\ Len(all) = Len(events) + 1 /\ all[Len(events) + 1] = admit
        /\ \A k \in 1..Len(events) : all[k] = events[k]
    <2>1. events \in Seq(X \cup {admit}) /\ <<admit>> \in Seq(X \cup {admit})
      <3> HIDE DEF admit
      <3>1. events \in Seq(X \cup {admit})
        BY <1>1, SeqMonotonic
      <3> QED BY <3>1
    <2> HIDE DEF admit
    <2> QED BY <2>1
  <1>4. Len(all) \in Nat /\ Len(all) - 1 \in 0..Len(all) /\ Len(all) - 1 = Len(events)
    <2> HIDE DEF all
    <2> QED BY <1>2, <1>3
  <1>5. \A k \in 1..Len(all) - 1 : Fair(b, all[k], s)
    <2> HIDE DEF all
    <2> QED BY <1>1, <1>2, <1>3, <1>4
  <1>6. PICK c : Follows(b, c, s) /\ Replayed(b, all) = Replay(c, all[Len(all)])
    <2> HIDE DEF all
    <2> DEFINE m == Len(all) - 1
    <2>1. m \in 0..Len(all) /\ m = Len(all) - 1 /\ \A k \in 1..m : Fair(b, all[k], s)
      BY <1>4, <1>5
    <2> HIDE DEF m
    <2>2. PICK c : /\ Follows(b, c, s)
                   /\ m = Len(all) => Replayed(b, all) = c
                   /\ m = Len(all) - 1 => Replayed(b, all) = Replay(c, all[Len(all)])
      BY <1>4, <2>1, FairReplay, Zenon
    <2>3. Replayed(b, all) = Replay(c, all[Len(all)])
      BY <2>1, <2>2
    <2> QED BY <2>2, <2>3
  <1>7. all[Len(all)] = admit
    BY <1>3
  <1>8. Replay(c, admit) = Admission(c, admit)
    <2>1. admit.type = "admit"
      OBVIOUS
    <2> HIDE DEF admit
    <2> QED BY <2>1 DEF Replay
  <1> QED BY <1>6, <1>7, <1>8

\* The finite sets of invocations have enumerations in order.
LEMMA Ordered ==
    ASSUME NEW n \in Nat, NEW S \in SUBSET (1..n)
    PROVE  /\ Cardinality(S) \in Nat /\ InOrder(S) \in [1..Cardinality(S) -> S]
           /\ \A i, j \in 1..Cardinality(S) : i < j => InOrder(S)[i] < InOrder(S)[j]
  <1> DEFINE Increasing(s, R) == /\ s \in [1..Cardinality(R) -> R]
                                 /\ \A i, j \in 1..Cardinality(R) : i < j => s[i] < s[j]
             T == {m \in Nat : \A R \in SUBSET (1..m) :
                                 IsFiniteSet(R) /\ Cardinality(R) \in Nat /\ \E s : Increasing(s, R)}
  <1>1. 0 \in T
    <2> SUFFICES ASSUME NEW R \in SUBSET (1..0)
                 PROVE  IsFiniteSet(R) /\ Cardinality(R) \in Nat /\ \E s : Increasing(s, R)
      OBVIOUS
    <2>1. R = {}
      OBVIOUS
    <2>2. IsFiniteSet(R) /\ Cardinality(R) = 0
      BY <2>1, FS_EmptySet, Zenon
    <2>3. Increasing([k \in 1..0 |-> k], R)
      BY <2>2
    <2> HIDE DEF Increasing
    <2> QED BY <2>2, <2>3
  <1>2. ASSUME NEW m \in T PROVE m + 1 \in T
    <2> SUFFICES ASSUME NEW R \in SUBSET (1..m + 1)
                 PROVE  IsFiniteSet(R) /\ Cardinality(R) \in Nat /\ \E s : Increasing(s, R)
      OBVIOUS
    <2> DEFINE Q == R \ {m + 1}
    <2>1. Q \in SUBSET (1..m)
      OBVIOUS
    <2>2. IsFiniteSet(Q) /\ Cardinality(Q) \in Nat /\ \E s : Increasing(s, Q)
      <3> HIDE DEF Q, Increasing
      <3> QED BY <2>1
    <2>3. CASE m + 1 \notin R
      <3>1. R = Q
        BY <2>3
      <3> HIDE DEF Q, Increasing
      <3> QED BY <2>2, <3>1
    <2>4. CASE m + 1 \in R
      <3>1. R = Q \cup {m + 1} /\ m + 1 \notin Q /\ \A x \in Q : x < m + 1
        BY <2>4
      <3> HIDE DEF Q
      <3>2. IsFiniteSet(R) /\ Cardinality(R) = Cardinality(Q) + 1
        BY <2>2, <3>1, FS_AddElement, Zenon
      <3>3. PICK s : Increasing(s, Q)
        BY <2>2
      <3> DEFINE t == [k \in 1..Cardinality(R) |-> IF k = Cardinality(R) THEN m + 1 ELSE s[k]]
      <3>4. Increasing(t, R)
        <4>1. ASSUME NEW k \in 1..Cardinality(R)
              PROVE  /\ k # Cardinality(R) => k \in 1..Cardinality(Q) /\ s[k] \in Q
                     /\ t[k] \in R
          BY <2>2, <3>1, <3>2, <3>3
        <4>2. ASSUME NEW i \in 1..Cardinality(R), NEW j \in 1..Cardinality(R), i < j PROVE t[i] < t[j]
          <5>1. i # Cardinality(R) /\ i \in 1..Cardinality(Q) /\ s[i] \in Q
            BY <2>2, <3>2, <4>1, <4>2
          <5>2. CASE j = Cardinality(R)
            BY <3>1, <5>1, <5>2
          <5>3. CASE j # Cardinality(R)
            BY <3>3, <4>1, <4>2, <5>1, <5>3
          <5> QED BY <5>2, <5>3
        <4> QED BY <4>1, <4>2
      <3> HIDE DEF Increasing, t
      <3> QED BY <2>2, <3>2, <3>4
    <2> QED BY <2>3, <2>4
  <1>3. T \subseteq Nat
    OBVIOUS
  <1>4. T = Nat
    <2> HIDE DEF T
    <2> QED BY <1>1, <1>2, <1>3, Counting
  <1>5. Cardinality(S) \in Nat /\ \E s : Increasing(s, S)
    <2> HIDE DEF Increasing
    <2> QED BY <1>4
  <1>6. /\ InOrder(S) \in [1..Cardinality(S) -> S]
        /\ \A i, j \in 1..Cardinality(S) : i < j => InOrder(S)[i] < InOrder(S)[j]
    BY <1>5, Zenon DEF InOrder
  <1> QED BY <1>5, <1>6

LEMMA Enumerated ==
    ASSUME NEW n \in Nat, NEW S \in SUBSET (1..n)
    PROVE  Cardinality(S) \in Nat /\ InOrder(S) \in [1..Cardinality(S) -> S]
  BY Ordered

LEMMA Admitted ==
    ASSUME NEW b, Sound(b), NEW c, NEW s, Follows(b, c, s), NEW r, OfSession(r), r.provenance # "native",
           NEW d, d = Admission(c, [type |-> "admit", session |-> r])
    PROVE  /\ Sound(d) /\ Len(d.sessions) = Len(b.sessions) + 1
           /\ d.sessions[Len(b.sessions) + 1] = r
           /\ \A n \in 1..Len(b.sessions) : d.sessions[n] = c.sessions[n]
  <1>1. c = [f \in BookFields |-> c[f]] /\ Rows(c.sessions) /\ Len(c.sessions) = Len(b.sessions)
    BY DEF Follows, Sound, Shaped
  <1>2. d = [f \in BookFields |-> d[f]] /\ d.sessions = Append(c.sessions, r)
    BY <1>1 DEF Admission, BookFields
  <1>3. /\ Listed(d.sessions) /\ Len(d.sessions) = Len(c.sessions) + 1
        /\ \A n \in 1..Len(c.sessions) + 1 : d.sessions[n] = IF n = Len(c.sessions) + 1 THEN r ELSE c.sessions[n]
    BY <1>1, <1>2, ListAppended DEF Rows
  <1>4. Len(c.sessions) \in Nat
    BY <1>1 DEF Rows, Listed
  <1>5. d.sessions[Len(b.sessions) + 1] = r /\ \A n \in 1..Len(b.sessions) : d.sessions[n] = c.sessions[n]
    <2>1. Len(c.sessions) + 1 \in 1..Len(c.sessions) + 1
      BY <1>4
    <2>2. \A n \in 1..Len(c.sessions) : n \in 1..Len(c.sessions) + 1 /\ n # Len(c.sessions) + 1
      BY <1>4
    <2>3. d.sessions[Len(c.sessions) + 1] = r
      BY <1>3, <2>1
    <2>4. \A n \in 1..Len(c.sessions) : d.sessions[n] = c.sessions[n]
      BY <1>3, <2>2
    <2> QED BY <1>1, <2>3, <2>4
  <1>6. \A n \in 1..Len(d.sessions) : OfSession(d.sessions[n]) /\ (Native(d, n) => Over(d, n))
    <2> SUFFICES ASSUME NEW n \in 1..Len(d.sessions)
                 PROVE  OfSession(d.sessions[n]) /\ (Native(d, n) => Over(d, n))
      OBVIOUS
    <2>1. CASE n = Len(c.sessions) + 1
      BY <1>3, <1>4, <2>1 DEF Native
    <2>2. CASE n # Len(c.sessions) + 1
      <3>1. n \in 1..Len(c.sessions) /\ d.sessions[n] = c.sessions[n]
        BY <1>3, <1>4, <2>2
      <3> QED BY <1>1, <3>1 DEF Native, Over, Follows, Sound, Rows
    <2> QED BY <2>1, <2>2
  <1> QED BY <1>1, <1>2, <1>3, <1>5, <1>6 DEF Sound, Shaped, Rows

-----------------------------------------------------------------------------
(* The invariant of the ledger. *)

ProcFields == {"live", "bridge", "spent", "receipt", "journal"}
OfProcess(p) == p = [f \in ProcFields |-> p[f]]
OpenMarker(n) == n \in 1..Len(sessions) /\ Marker(n) /\ ~Settled(n)

\* A settled session has stopped, the markers of a repair never run, and while
\* a torn write was not audited either the line or its marker stands.
LedgerInv ==
    /\ scope \in Instances /\ Sound(book)
    /\ torn \in BOOLEAN /\ damaged \in BOOLEAN
    /\ Listed(proc) /\ Len(proc) = Len(sessions)
    /\ \A n \in 1..Len(sessions) : /\ OfProcess(proc[n])
                                   /\ Settled(n) => ~proc[n].live
                                   /\ Marker(n) => proc[n] = Inert
    /\ damaged => torn \/ \E n : OpenMarker(n)

LedgerStep == ReceiptsStand /\ TornStopsAdmission

LEMMA Domains ==
    ASSUME NEW b, Sound(b) PROVE DOMAIN b.sessions = 1..Len(b.sessions) /\ Len(b.sessions) \in Nat
  BY DEF Sound, Shaped, Rows, Listed

\* A step that adds fair events to the books and starts nothing.
LEMMA EntryKeeps ==
    ASSUME LedgerInv, scope' = scope, proc' = proc, NEW s, Follows(book, book', s),
           s \in 1..Len(sessions) => ~proc[s].live,
           torn' \in BOOLEAN, damaged' \in BOOLEAN,
           damaged' => torn' \/ (damaged /\ ~torn /\ ~OpenMarker(s))
    PROVE  LedgerInv' /\ LedgerStep
  <1>1. Sound(book) /\ Sound(book') /\ Len(sessions') = Len(sessions)
    BY DEF LedgerInv, Follows, sessions
  <1>2. /\ DOMAIN sessions = 1..Len(sessions) /\ DOMAIN sessions' = 1..Len(sessions)
    BY <1>1, Domains DEF sessions
  <1>3. \A n \in 1..Len(sessions) :
            /\ sessions'[n].worker = sessions[n].worker
            /\ sessions[n].status = "settled" => sessions'[n].status = "settled"
            /\ n # s => (sessions'[n].status = "settled" => sessions[n].status = "settled")
            /\ Receipted(book, n) => sessions'[n].total = sessions[n].total
    BY DEF Follows, Over, sessions
  <1>4. \A n \in 1..Len(sessions) : /\ OfProcess(proc'[n])
                                    /\ Settled(n)' => ~proc'[n].live
                                    /\ Marker(n)' => proc'[n] = Inert
    BY <1>3 DEF LedgerInv, Settled, Marker
  <1>5. damaged' => torn' \/ \E n : OpenMarker(n)'
    <2> SUFFICES ASSUME damaged' PROVE torn' \/ \E n : OpenMarker(n)'
      OBVIOUS
    <2>1. CASE ~torn'
      <3>1. PICK n : OpenMarker(n)
        BY <2>1 DEF LedgerInv
      <3>2. n # s
        BY <2>1, <3>1
      <3>3. n \in 1..Len(sessions) /\ sessions[n].worker = "ledger-repair" /\ sessions[n].status # "settled"
        BY <3>1 DEF OpenMarker, Marker, Settled
      <3>4. n \in 1..Len(sessions') /\ sessions'[n].worker = "ledger-repair" /\ sessions'[n].status # "settled"
        BY <1>1, <1>3, <3>2, <3>3
      <3>5. OpenMarker(n)'
        BY <3>4 DEF OpenMarker, Marker, Settled
      <3> QED BY <3>5
    <2> QED BY <2>1
  <1>6. LedgerInv'
    BY <1>1, <1>4, <1>5 DEF LedgerInv
  <1>7. ReceiptsStand
    BY <1>2, <1>3 DEF ReceiptsStand, Ids, Receipted, Native, sessions
  <1>8. TornStopsAdmission
    BY <1>2 DEF TornStopsAdmission, Ids
  <1> QED BY <1>6, <1>7, <1>8 DEF LedgerStep

\* A step that leaves the books and the processes alone.
LEMMA NothingKeeps ==
    ASSUME LedgerInv, scope' = scope, proc' = proc, book' = book, torn' = torn, damaged' = damaged
    PROVE  LedgerInv' /\ LedgerStep
  <1>1. LedgerInv'
    BY DEF LedgerInv, OpenMarker, Marker, Settled, sessions
  <1>2. LedgerStep
    BY DEF LedgerStep, ReceiptsStand, TornStopsAdmission, Ids, sessions
  <1> QED BY <1>1, <1>2

\* A step of a process, which no marker has.
LEMMA ProcessKeeps ==
    ASSUME LedgerInv, scope' = scope, book' = book, torn' = torn, damaged' = damaged,
           NEW n \in 1..Len(sessions), NEW p, OfProcess(p), proc' = [proc EXCEPT ![n] = p],
           proc[n].live \/ proc[n].bridge, p.live => proc[n].live
    PROVE  LedgerInv' /\ LedgerStep
  <1>1. /\ Listed(proc') /\ Len(proc') = Len(sessions)
        /\ \A m \in 1..Len(sessions) : proc'[m] = IF m = n THEN p ELSE proc[m]
    <2>1. Listed(proc) /\ Len(proc) = Len(sessions)
      BY DEF LedgerInv
    <2>2. n \in 1..Len(proc)
      BY <2>1
    <2>3. PICK from, to : from = proc /\ to = proc'
      OBVIOUS
    <2>4. to = [from EXCEPT ![n] = p] /\ Listed(from) /\ n \in 1..Len(from)
      BY <2>1, <2>2, <2>3
    <2>5. Listed(to)
      BY <2>4, ListReplaced
    <2>6. Len(to) = Len(from)
      BY <2>4, ListReplaced
    <2>7. \A m \in 1..Len(from) : to[m] = IF m = n THEN p ELSE from[m]
      BY <2>4, ListReplaced
    <2> QED BY <2>1, <2>3, <2>5, <2>6, <2>7
  <1>2. ~Marker(n)
    BY DEF LedgerInv, Inert
  <1>3. sessions' = sessions
    BY DEF sessions
  <1>4. \A m \in 1..Len(sessions) : /\ OfProcess(proc'[m])
                                    /\ Settled(m) => ~proc'[m].live
                                    /\ Marker(m) => proc'[m] = Inert
    BY <1>1, <1>2 DEF LedgerInv
  <1>5. LedgerInv'
    BY <1>1, <1>3, <1>4 DEF LedgerInv, OpenMarker, Marker, Settled
  <1>6. LedgerStep
    BY <1>3 DEF LedgerStep, ReceiptsStand, TornStopsAdmission, Ids
  <1> QED BY <1>5, <1>6

\* A step that adds a session, open and with its process, to fair events.
LEMMA SessionKeeps ==
    ASSUME LedgerInv, scope' = scope, NEW c, Follows(book, c, 0), NEW r, OfSession(r),
           r.provenance # "native", r.status # "settled",
           book' = Admission(c, [type |-> "admit", session |-> r]),
           NEW p, OfProcess(p), proc' = Append(proc, p), r.worker = "ledger-repair" => p = Inert,
           torn' \in BOOLEAN, damaged' \in BOOLEAN,
           damaged' => torn' \/ damaged,
           \/ r.worker = "ledger-repair"
           \/ ~damaged
    PROVE  LedgerInv' /\ LedgerStep
  <1> DEFINE L == Len(sessions)
  <1>1. /\ Sound(book') /\ Len(sessions') = L + 1 /\ sessions'[L + 1] = r
        /\ \A n \in 1..L : sessions'[n] = c.sessions[n]
    BY Admitted DEF LedgerInv, sessions
  <1>2. L \in Nat /\ DOMAIN sessions = 1..L /\ DOMAIN sessions' = 1..(L + 1)
    <2>1. Sound(book)
      BY DEF LedgerInv
    <2> QED BY <1>1, <2>1, Domains DEF sessions
  <1>3. /\ Listed(proc') /\ Len(proc') = L + 1
        /\ \A n \in 1..(L + 1) : proc'[n] = IF n = L + 1 THEN p ELSE proc[n]
    <2>1. Listed(proc) /\ Len(proc) = L
      BY DEF LedgerInv
    <2>2. PICK from, to : from = proc /\ to = proc'
      OBVIOUS
    <2>3. to = Append(from, p) /\ Listed(from)
      BY <2>1, <2>2
    <2>4. Listed(to)
      BY <2>3, ListAppended
    <2>5. Len(to) = Len(from) + 1
      BY <2>3, ListAppended
    <2>6. \A n \in 1..Len(from) + 1 : to[n] = IF n = Len(from) + 1 THEN p ELSE from[n]
      BY <2>3, ListAppended
    <2> HIDE DEF L
    <2> QED BY <2>1, <2>2, <2>4, <2>5, <2>6
  <1>4. \A n \in 1..L :
            /\ sessions'[n].worker = sessions[n].worker
            /\ sessions'[n].status = "settled" <=> sessions[n].status = "settled"
            /\ Receipted(book, n) => sessions'[n].total = sessions[n].total
    <2> SUFFICES ASSUME NEW n \in 1..L
                 PROVE  /\ sessions'[n].worker = sessions[n].worker
                        /\ sessions'[n].status = "settled" <=> sessions[n].status = "settled"
                        /\ Receipted(book, n) => sessions'[n].total = sessions[n].total
      OBVIOUS
    <2>1. n # 0 /\ sessions'[n] = c.sessions[n]
      BY <1>1, <1>2
    <2> QED BY <2>1 DEF Follows, Over, sessions
  <1> HIDE DEF L
  <1>5. \A n \in 1..(L + 1) : /\ OfProcess(proc'[n])
                              /\ Settled(n)' => ~proc'[n].live
                              /\ Marker(n)' => proc'[n] = Inert
    <2> SUFFICES ASSUME NEW n \in 1..(L + 1)
                 PROVE  /\ OfProcess(proc'[n])
                        /\ Settled(n)' => ~proc'[n].live
                        /\ Marker(n)' => proc'[n] = Inert
      OBVIOUS
    <2>1. CASE n = L + 1
      BY <1>1, <1>3, <2>1 DEF Settled, Marker
    <2>2. CASE n # L + 1
      <3>1. n \in 1..L /\ proc'[n] = proc[n]
        BY <1>2, <1>3, <2>2
      <3> QED BY <1>4, <3>1 DEF LedgerInv, Settled, Marker, L
    <2> QED BY <2>1, <2>2
  <1>6. damaged' => torn' \/ \E n : OpenMarker(n)'
    <2> SUFFICES ASSUME damaged' PROVE torn' \/ \E n : OpenMarker(n)'
      OBVIOUS
    <2>1. CASE r.worker = "ledger-repair"
      <3>1. PICK n : n = L + 1
        OBVIOUS
      <3>2. n \in 1..Len(sessions') /\ sessions'[n] = r
        BY <1>1, <1>2, <3>1
      <3>3. OpenMarker(n)'
        BY <2>1, <3>2 DEF OpenMarker, Marker, Settled
      <3> QED BY <3>3
    <2>2. CASE ~damaged
      BY <2>2
    <2> QED BY <2>1, <2>2
  <1>7. LedgerInv'
    BY <1>1, <1>3, <1>5, <1>6 DEF LedgerInv
  <1>8. ReceiptsStand
    BY <1>2, <1>4 DEF ReceiptsStand, Ids, Receipted, Native, sessions
  <1>9. TornStopsAdmission
    BY <1>1, <1>2 DEF TornStopsAdmission, Ids
  <1> QED BY <1>7, <1>8, <1>9 DEF LedgerStep

-----------------------------------------------------------------------------
(* The events of the operations are fair. *)

LEMMA Invocations ==
    ASSUME LedgerInv PROVE Len(sessions) \in Nat /\ Ids = 1..Len(sessions) /\ Sound(book)
  <1>1. Sound(book)
    BY DEF LedgerInv
  <1> QED BY <1>1, Domains DEF Ids, sessions

LEMMA OpenFair ==
    ASSUME LedgerInv, NEW n \in Ids, ~Settled(n), NEW s, NEW delta, NEW cost, NEW provenance, NEW total
    PROVE  /\ provenance # "native" => Fair(book, Corrected(n, delta, cost, provenance, total), s)
           /\ Fair(book, SettledAt(n, cost, provenance, total), n)
  <1>1. n \in 1..Len(book.sessions) /\ ~Over(book, n) /\ Sound(book)
    BY Invocations DEF Settled, Over, sessions
  <1>2. ~Receipted(book, n)
    BY <1>1 DEF Sound, Receipted
  <1>3. ASSUME provenance # "native" PROVE Fair(book, Corrected(n, delta, cost, provenance, total), s)
    <2> DEFINE e == Corrected(n, delta, cost, provenance, total)
    <2>1. e.type = "correction" /\ e.id = n /\ e.provenance = provenance
      BY DEF Corrected
    <2> HIDE DEF e
    <2>2. Fair(book, e, s)
      BY <1>1, <1>2, <1>3, <2>1 DEF Fair
    <2> QED BY <2>2 DEF e
  <1>4. Fair(book, SettledAt(n, cost, provenance, total), n)
    <2> DEFINE e == SettledAt(n, cost, provenance, total)
    <2>1. e.type = "settle" /\ e.id = n
      BY DEF SettledAt
    <2> HIDE DEF e
    <2>2. Fair(book, e, n)
      BY <1>1, <2>1 DEF Fair
    <2> QED BY <2>2 DEF e
  <1> QED BY <1>3, <1>4

LEMMA LeftFair ==
    ASSUME LedgerInv, NEW n \in Ids, ~Settled(n), NEW s, s # n, NEW status, status # "settled",
           NEW reserve, NEW lower, NEW tail
    PROVE  Fair(book, LeftOpen(n, status, reserve, lower, tail), s)
  <1>1. n \in 1..Len(book.sessions) /\ ~Over(book, n)
    BY Invocations DEF Settled, Over, sessions
  <1> DEFINE e == LeftOpen(n, status, reserve, lower, tail)
  <1>2. e.type = "unresolved" /\ e.id = n /\ e.status = status
    BY DEF LeftOpen
  <1> HIDE DEF e
  <1>3. Fair(book, e, s)
    BY <1>1, <1>2 DEF Fair
  <1> QED BY <1>3 DEF e

\* An estimate may be corrected in every respect, a session that is settled to
\* a receipt; what has a receipt keeps its total.
LEMMA CorrectionFair ==
    ASSUME LedgerInv, NEW n \in Ids, NEW s, NEW delta, NEW cost, NEW provenance, NEW total,
           total # None => Estimated(n),
           provenance = "native" => Settled(n)
    PROVE  Fair(book, Corrected(n, delta, cost, provenance, total), s)
  <1>1. n \in 1..Len(book.sessions)
    BY Invocations DEF sessions
  <1>2. /\ Receipted(book, n) => total = None
        /\ provenance = "native" => Over(book, n)
    BY DEF Receipted, Native, Estimated, Settled, Over, sessions
  <1> DEFINE e == Corrected(n, delta, cost, provenance, total)
  <1>3. e.type = "correction" /\ e.id = n /\ e.provenance = provenance /\ e.total = total
    BY DEF Corrected
  <1> HIDE DEF e
  <1>4. Fair(book, e, s)
    BY <1>1, <1>2, <1>3 DEF Fair
  <1> QED BY <1>4 DEF e

LEMMA TakeBackFair ==
    ASSUME LedgerInv, NEW n \in Ids, ~Settled(n), NEW s
    PROVE  Events(book, TakeBack(n), s)
  <1>1. CASE sessions[n].cost > 0
    <2> DEFINE e == Corrected(n, sessions[n].cost, 0, "kept", None)
    <2>1. Fair(book, e, s)
      BY OpenFair
    <2>2. TakeBack(n) = <<e>>
      BY <1>1 DEF TakeBack
    <2> HIDE DEF e
    <2> QED BY <2>1, <2>2, OneEvent
  <1>2. CASE ~(sessions[n].cost > 0)
    <2>1. TakeBack(n) = << >>
      BY <1>2 DEF TakeBack
    <2> QED BY <2>1, NoEvents
  <1> QED BY <1>1, <1>2

LEMMA SettlesFair ==
    ASSUME LedgerInv, NEW n \in Ids, ~Settled(n), NEW cost, NEW provenance, NEW total
    PROVE  /\ Events(book, <<SettledAt(n, cost, provenance, total)>>, n)
           /\ Events(book, TakeBack(n) \o <<SettledAt(n, cost, provenance, total)>>, n)
  <1>1. Events(book, <<SettledAt(n, cost, provenance, total)>>, n)
    <2> DEFINE e == SettledAt(n, cost, provenance, total)
    <2>1. Fair(book, e, n)
      BY OpenFair
    <2> HIDE DEF e
    <2>2. Events(book, <<e>>, n)
      BY <2>1, OneEvent
    <2> QED BY <2>2 DEF e
  <1> QED BY <1>1, TakeBackFair, EventsJoined

LEMMA OrphansFair ==
    ASSUME LedgerInv PROVE Events(book, OrphanEvents, 0)
  <1> DEFINE ns == InOrder(Orphans)
             c == Cardinality(Orphans)
  <1>1. Len(sessions) \in Nat /\ Ids = 1..Len(sessions)
    BY Invocations
  <1>2. Orphans \in SUBSET (1..Len(sessions)) /\ \A n \in Orphans : n \in Ids /\ ~Settled(n) /\ n # 0
    BY <1>1 DEF Orphans, Settled
  <1>3. c \in Nat /\ ns \in [1..c -> Orphans]
    BY <1>1, <1>2, Enumerated
  <1> DEFINE event(k) == LeftOpen(ns[k], "unresolved", None, None, None)
  <1>4. OrphanEvents = [k \in 1..c |-> event(k)]
    <2> HIDE DEF c
    <2>1. DOMAIN ns = 1..c
      BY <1>3
    <2> QED BY <2>1 DEF OrphanEvents
  <1>5. ASSUME NEW k \in 1..c PROVE Fair(book, event(k), 0)
    <2> HIDE DEF ns, c
    <2>1. ns[k] \in Ids /\ ~Settled(ns[k]) /\ ns[k] # 0
      BY <1>2, <1>3
    <2> QED BY <2>1, LeftFair
  <1> HIDE DEF ns, c, event
  <1> QED BY <1>3, <1>4, <1>5, EventsOf

LEMMA ClampFair ==
    ASSUME LedgerInv, NEW n \in Ids, NEW total, NEW s
    PROVE  Events(book, ClampEvents(n, total), s)
  <1>1. Len(sessions) \in Nat /\ Ids = 1..Len(sessions)
    BY Invocations
  <1>2. Inflated(n) \in SUBSET (1..Len(sessions)) /\ \A m \in Inflated(n) : m \in Ids /\ Estimated(m)
    BY <1>1 DEF Inflated, Before, OnRecord
  <1> DEFINE ms == IF Clamped(n, total) THEN InOrder(Inflated(n)) ELSE << >>
             share == [m \in Ids |-> IF m \in Inflated(n) THEN Share(n, total, m) ELSE 0]
             event(k) == Corrected(ms[k], sessions[ms[k]].cost - share[ms[k]], share[ms[k]], "kept",
                                   Exact(n) + Sum(share, {m \in Inflated(n) : m <= ms[k]}))
  <1>3. PICK c \in Nat : DOMAIN ms = 1..c /\ \A k \in 1..c : ms[k] \in Inflated(n)
    <2>1. CASE Clamped(n, total)
      <3>1. /\ Cardinality(Inflated(n)) \in Nat
            /\ InOrder(Inflated(n)) \in [1..Cardinality(Inflated(n)) -> Inflated(n)]
        BY <1>1, <1>2, Enumerated
      <3>2. ms = InOrder(Inflated(n))
        BY <2>1
      <3> HIDE DEF ms
      <3> QED BY <3>1, <3>2
    <2>2. CASE ~Clamped(n, total)
      <3>1. ms = << >>
        BY <2>2
      <3> HIDE DEF ms
      <3>2. DOMAIN ms = 1..0
        BY <3>1
      <3> QED BY <3>2
    <2> QED BY <2>1, <2>2
  <1>4. ClampEvents(n, total) = [k \in 1..c |-> event(k)]
    <2>1. ClampEvents(n, total) = [k \in DOMAIN ms |-> event(k)]
      BY DEF ClampEvents
    <2> HIDE DEF ms, event
    <2> QED BY <1>3, <2>1
  <1>5. ASSUME NEW k \in 1..c PROVE Fair(book, event(k), s)
    <2>1. ms[k] \in Ids /\ Estimated(ms[k])
      <3> HIDE DEF ms
      <3> QED BY <1>2, <1>3
    <2> HIDE DEF ms, share
    <2> QED BY <2>1, CorrectionFair
  <1> HIDE DEF ms, share, event
  <1> QED BY <1>4, <1>5, EventsOf

LEMMA RebaseFair ==
    ASSUME LedgerInv, NEW n \in Ids, NEW delta, NEW s
    PROVE  Events(book, RebaseEvents(n, delta), s)
  <1>1. Len(sessions) \in Nat /\ Ids = 1..Len(sessions)
    BY Invocations
  <1>2. /\ Rebased(n) \in SUBSET (1..Len(sessions)) /\ \A m \in Rebased(n) : m \in Ids /\ Estimated(m)
        /\ NextExact(n) \in SUBSET (1..Len(sessions))
    BY <1>1 DEF Rebased, NextExact, After, OnRecord
  <1> DEFINE ms == InOrder(Rebased(n))
             c == Cardinality(Rebased(n))
             later(k) == Corrected(ms[k], 0, sessions[ms[k]].cost, "kept", sessions[ms[k]].total + delta)
             d == Cardinality(NextExact(n))
             first == CHOOSE x \in NextExact(n) : TRUE
             exact == Corrected(first, delta, sessions[first].cost - delta, "kept", None)
             u == [k \in 1..c |-> later(k)]
             v == [k \in 1..d |-> exact]
  <1>3. c \in Nat /\ ms \in [1..c -> Rebased(n)] /\ d \in Nat
    <2>1. c \in Nat /\ ms \in [1..c -> Rebased(n)]
      BY <1>1, <1>2, Enumerated
    <2>2. d \in Nat
      BY <1>1, <1>2, Enumerated
    <2> QED BY <2>1, <2>2
  <1>4. RebaseEvents(n, delta) = u \o v
    <2>1. DOMAIN ms = 1..c
      <3> HIDE DEF ms, c
      <3> QED BY <1>3
    <2>2. RebaseEvents(n, delta) = [k \in DOMAIN ms |-> later(k)] \o v
      BY DEF RebaseEvents
    <2> QED BY <2>1, <2>2
  <1>5. ASSUME NEW k \in 1..c PROVE Fair(book, later(k), s)
    <2>1. ms[k] \in Ids /\ Estimated(ms[k])
      <3> HIDE DEF ms, c
      <3> QED BY <1>2, <1>3
    <2> HIDE DEF ms
    <2> QED BY <2>1, CorrectionFair
  <1>6. ASSUME NEW k \in 1..d PROVE Fair(book, exact, s)
    <2>1. NextExact(n) # {}
      <3>1. CASE NextExact(n) = {}
        <4>1. d = 0
          BY <3>1, FS_EmptySet, Zenon
        <4> HIDE DEF d
        <4> QED BY <4>1, <1>6
      <3> QED BY <3>1
    <2>2. first \in Ids
      <3>1. first \in NextExact(n)
        BY <2>1
      <3> HIDE DEF first
      <3> QED BY <1>1, <1>2, <3>1
    <2> HIDE DEF first
    <2> QED BY <2>2, CorrectionFair
  <1>7. Events(book, u, s)
    <2> HIDE DEF ms, c, later
    <2>1. u = [k \in 1..c |-> u[k]] /\ \A k \in 1..c : Fair(book, u[k], s)
      BY <1>5
    <2> HIDE DEF u
    <2> QED BY <1>3, <2>1, EventsOf
  <1>8. Events(book, v, s)
    <2> HIDE DEF d, exact
    <2>1. v = [k \in 1..d |-> v[k]] /\ \A k \in 1..d : Fair(book, v[k], s)
      BY <1>6
    <2> HIDE DEF v
    <2> QED BY <1>3, <2>1, EventsOf
  <1> HIDE DEF u, v
  <1> QED BY <1>4, <1>7, <1>8, EventsJoined

LEMMA FinalFair ==
    ASSUME LedgerInv, NEW n \in Ids, NEW total, Settled(n) => Estimated(n)
    PROVE  Events(book, FinalEvents(n, total), IF Settled(n) THEN 0 ELSE n)
  <1> DEFINE cost == IF Clamped(n, total) THEN 0 ELSE total - Baseline(n)
             delta == cost - sessions[n].cost
  <1>1. CASE Settled(n)
    <2> DEFINE e == Corrected(n, -delta, cost, "native", total)
               u == ClampEvents(n, total)
               v == RebaseEvents(n, delta)
    <2>1. FinalEvents(n, total) = u \o <<e>> \o v
      BY <1>1 DEF FinalEvents
    <2>2. Fair(book, e, 0)
      <3> HIDE DEF cost, delta
      <3> QED BY <1>1, CorrectionFair
    <2>3. Events(book, u, 0) /\ Events(book, v, 0)
      <3> HIDE DEF delta
      <3> QED BY ClampFair, RebaseFair
    <2> HIDE DEF e, u, v
    <2>4. Events(book, <<e>>, 0)
      BY <2>2, OneEvent
    <2>5. Events(book, u \o <<e>>, 0)
      BY <2>3, <2>4, EventsJoined
    <2>6. Events(book, u \o <<e>> \o v, 0)
      BY <2>3, <2>5, EventsJoined
    <2> QED BY <1>1, <2>1, <2>6
  <1>2. CASE ~Settled(n)
    <2> DEFINE e == SettledAt(n, cost, "native", total)
               u == ClampEvents(n, total)
    <2>1. FinalEvents(n, total) = u \o TakeBack(n) \o <<e>>
      BY <1>2 DEF FinalEvents
    <2>2. Events(book, <<e>>, n)
      <3> HIDE DEF cost
      <3> QED BY <1>2, SettlesFair
    <2>3. Events(book, u, n) /\ Events(book, TakeBack(n), n)
      BY <1>2, ClampFair, TakeBackFair
    <2> HIDE DEF e, u
    <2>4. Events(book, u \o TakeBack(n), n)
      BY <2>3, EventsJoined
    <2>5. Events(book, u \o TakeBack(n) \o <<e>>, n)
      BY <2>2, <2>4, EventsJoined
    <2> QED BY <1>2, <2>1, <2>5
  <1> QED BY <1>1, <1>2

LEMMA PrefixFair ==
    ASSUME LedgerInv, NEW n \in Ids, ~Settled(n), NEW total
    PROVE  Events(book, PrefixEvents(n, total), 0) /\ Events(book, Abandoned(n), 0)
  <1>1. n # 0
    BY Invocations
  <1>2. Events(book, Abandoned(n), 0)
    <2> DEFINE e == LeftOpen(n, "unresolved", None, None, None)
    <2>1. Fair(book, e, 0)
      BY <1>1, LeftFair
    <2>2. Abandoned(n) = <<e>>
      BY DEF Abandoned
    <2> HIDE DEF e
    <2> QED BY <2>1, <2>2, OneEvent
  <1>3. Events(book, PrefixEvents(n, total), 0)
    <2> DEFINE known == total - Baseline(n)
               reserve == PrefixReserve(n, known)
               e == LeftOpen(n, "provisional", reserve, known, None)
    <2>1. Fair(book, e, 0)
      <3> HIDE DEF known, reserve
      <3> QED BY <1>1, LeftFair
    <2>2. PrefixEvents(n, total) = << >> \/ PrefixEvents(n, total) = <<e>>
      BY DEF PrefixEvents
    <2> HIDE DEF e
    <2>3. Events(book, <<e>>, 0) /\ Events(book, << >>, 0)
      BY <2>1, OneEvent, NoEvents
    <2> QED BY <2>2, <2>3
  <1> QED BY <1>2, <1>3

-----------------------------------------------------------------------------
(* One step per operation. *)

LEMMA Transacted ==
    ASSUME LedgerInv, NEW events, NEW s, Events(book, events, s), Transact(events)
    PROVE  ~torn /\ torn' \in BOOLEAN /\ Follows(book, book', s)
  <1>0. Sound(book) /\ torn \in BOOLEAN
    BY DEF LedgerInv
  <1>1. CASE book' = Replayed(book, <<Accrual>> \o events) /\ UNCHANGED <<torn, tears>> /\ ~torn
    <2> DEFINE e == Accrual
    <2>1. Fair(book, e, s)
      <3>1. e.type = "accrue"
        BY DEF Accrual
      <3> HIDE DEF e
      <3> QED BY <3>1 DEF Fair
    <2> HIDE DEF e
    <2>2. Events(book, <<e>> \o events, s)
      BY <2>1, OneEvent, EventsJoined
    <2>3. Follows(book, Replayed(book, <<e>> \o events), s)
      BY <1>0, <2>2, EventsReplayed
    <2> QED BY <1>0, <1>1, <2>3 DEF e
  <1>2. CASE torn' = TRUE /\ book' = book /\ ~torn
    BY <1>0, <1>2, FollowsItself
  <1> QED BY <1>1, <1>2 DEF Transact

LEMMA EntrySteps ==
    ASSUME LedgerInv, scope' = scope, proc' = proc, NEW events, NEW s, Events(book, events, s), Transact(events),
           s \in Ids => ~proc[s].live /\ ~Marker(s), damaged' = (damaged \/ torn')
    PROVE  LedgerInv' /\ LedgerStep
  <1>1. ~torn /\ torn' \in BOOLEAN /\ Follows(book, book', s)
    BY Transacted
  <1>2. Ids = 1..Len(sessions) /\ damaged \in BOOLEAN
    BY Invocations DEF LedgerInv
  <1>3. damaged' \in BOOLEAN /\ (damaged' => torn' \/ (damaged /\ ~torn /\ ~OpenMarker(s)))
    BY <1>1, <1>2 DEF OpenMarker
  <1>4. s \in 1..Len(sessions) => ~proc[s].live
    BY <1>2
  <1> QED BY <1>1, <1>3, <1>4, EntryKeeps

LEMMA PairJoined ==
    ASSUME NEW u, NEW v PROVE <<u>> \o <<v>> = <<u, v>>
  <1> DEFINE X == {u, v}
             s == <<u>> \o <<v>>
  <1>1. <<u>> \in Seq(X) /\ <<v>> \in Seq(X) /\ <<u, v>> \in Seq(X)
    OBVIOUS
  <1>2. s \in Seq(X) /\ Len(s) = 2 /\ s[1] = u /\ s[2] = v
    <2> HIDE DEF X
    <2>1. Len(<<u>>) = 1 /\ Len(<<v>>) = 1
      OBVIOUS
    <2> QED BY <1>1, <2>1, ConcatProperties
  <1> HIDE DEF X, s
  <1>3. Len(<<u, v>>) = 2 /\ <<u, v>>[1] = u /\ <<u, v>>[2] = v
    OBVIOUS
  <1>4. s = <<u, v>>
    <2>1. Len(s) = Len(<<u, v>>) /\ \A i \in 1..Len(s) : s[i] = <<u, v>>[i]
      BY <1>2, <1>3
    <2> QED BY <1>1, <1>2, <2>1, SeqEqual
  <1> QED BY <1>4 DEF s

LEMMA NoSession ==
    ASSUME LedgerInv PROVE 0 \notin Ids
  BY Invocations

LEMMA NoEvidenceOfMarkers ==
    ASSUME LedgerInv, NEW n \in Ids, Marker(n)
    PROVE  /\ ~proc[n].live /\ ~proc[n].bridge
           /\ proc[n].receipt.kind = "none" /\ proc[n].journal.cost = None
  <1>1. n \in 1..Len(sessions)
    BY Invocations
  <1>2. proc[n] = Inert
    BY <1>1 DEF LedgerInv
  <1> QED BY <1>2 DEF Inert, NoReceipt, NoEvidence

LEMMA SettleFinalKeeps ==
    ASSUME LedgerInv, scope' = scope, NEW n \in Ids, SettleFinal(n)
    PROVE  LedgerInv' /\ LedgerStep
  <1>1. /\ proc[n].receipt.kind = "final" /\ ~proc[n].live /\ proc' = proc /\ damaged' = (damaged \/ torn')
        /\ Settled(n) => Estimated(n)
    BY DEF SettleFinal, Evidently, Ordinary
  <1>2. ~Marker(n)
    BY <1>1, NoEvidenceOfMarkers
  <1>3. CASE Transact(FinalEvents(n, proc[n].receipt.total))
    <2> DEFINE events == FinalEvents(n, proc[n].receipt.total)
               s == IF Settled(n) THEN 0 ELSE n
    <2>1. Events(book, events, s)
      BY <1>1, FinalFair
    <2>2. s \in Ids => ~proc[s].live /\ ~Marker(s)
      BY <1>1, <1>2, NoSession
    <2> HIDE DEF events, s
    <2>3. Transact(events)
      BY <1>3 DEF events
    <2> QED BY <1>1, <2>1, <2>2, <2>3, EntrySteps
  <1>4. CASE ~Settled(n) /\ Transact(Abandoned(n))
    <2>1. Events(book, Abandoned(n), 0)
      BY <1>4, PrefixFair
    <2> QED BY <1>1, <1>4, <2>1, NoSession, EntrySteps
  <1> QED BY <1>3, <1>4 DEF SettleFinal, Evidently

LEMMA SettleFreeKeeps ==
    ASSUME LedgerInv, scope' = scope, NEW n \in Ids, SettleFree(n)
    PROVE  LedgerInv' /\ LedgerStep
  <1> DEFINE events == <<SettledAt(n, 0, "native", None)>>
  <1>1. /\ proc[n].receipt.kind = "free" /\ ~proc[n].live /\ proc' = proc /\ damaged' = (damaged \/ torn')
        /\ ~Settled(n) /\ Transact(events)
    BY DEF SettleFree, Evidently, Ordinary
  <1>2. ~Marker(n)
    BY <1>1, NoEvidenceOfMarkers
  <1>3. Events(book, events, n)
    BY <1>1, SettlesFair
  <1> HIDE DEF events
  <1> QED BY <1>1, <1>2, <1>3, EntrySteps

LEMMA SettlePrefixKeeps ==
    ASSUME LedgerInv, scope' = scope, NEW n \in Ids, SettlePrefix(n)
    PROVE  LedgerInv' /\ LedgerStep
  <1>1. proc' = proc /\ damaged' = (damaged \/ torn') /\ ~Settled(n)
    BY DEF SettlePrefix, Evidently, Ordinary
  <1>2. Events(book, PrefixEvents(n, proc[n].receipt.total), 0) /\ Events(book, Abandoned(n), 0)
    BY <1>1, PrefixFair
  <1>3. CASE Transact(PrefixEvents(n, proc[n].receipt.total))
    BY <1>1, <1>2, <1>3, NoSession, EntrySteps
  <1>4. CASE Transact(Abandoned(n))
    BY <1>1, <1>2, <1>4, NoSession, EntrySteps
  <1> QED BY <1>3, <1>4 DEF SettlePrefix, Evidently

LEMMA RecoverUsageKeeps ==
    ASSUME LedgerInv, scope' = scope, NEW n \in Ids, RecoverUsage(n)
    PROVE  LedgerInv' /\ LedgerStep
  <1> DEFINE cost == Greatest({proc[n].journal.cost, sessions[n].lower}, 0)
             tail == IF sessions[n].provenance = "prefix" /\ sessions[n].cost = cost /\ sessions[n].tail # None
                     THEN sessions[n].tail ELSE UncertainTail(n, cost)
  <1>1. /\ proc[n].journal.cost # None /\ ~proc[n].live /\ proc' = proc /\ damaged' = (damaged \/ torn')
        /\ ~Settled(n)
    BY DEF RecoverUsage, Evidently, Ordinary
  <1>2. ~Marker(n)
    BY <1>1, NoEvidenceOfMarkers
  <1>3. CASE Transact(TakeBack(n) \o <<SettledAt(n, cost, "estimate", Baseline(n) + cost)>>)
    <2> DEFINE events == TakeBack(n) \o <<SettledAt(n, cost, "estimate", Baseline(n) + cost)>>
    <2>1. Events(book, events, n)
      <3> HIDE DEF cost
      <3> QED BY <1>1, SettlesFair
    <2>2. Transact(events)
      BY <1>3
    <2> HIDE DEF events
    <2> QED BY <1>1, <1>2, <2>1, <2>2, EntrySteps
  <1>4. CASE Transact(<<Corrected(n, sessions[n].cost - cost, cost, "prefix", None),
                        LeftOpen(n, "provisional", tail, Greatest({sessions[n].lower}, 0), tail)>>)
    <2> DEFINE first == Corrected(n, sessions[n].cost - cost, cost, "prefix", None)
               lower == Greatest({sessions[n].lower}, 0)
               second == LeftOpen(n, "provisional", tail, lower, tail)
    <2>1. Fair(book, first, 0)
      <3> HIDE DEF cost
      <3> QED BY <1>1, OpenFair
    <2>2. Fair(book, second, 0)
      <3> HIDE DEF tail, lower
      <3>1. n # 0
        BY NoSession
      <3> QED BY <1>1, <3>1, LeftFair
    <2>3. Transact(<<first, second>>)
      BY <1>4
    <2> HIDE DEF first, second
    <2>4. Events(book, <<first, second>>, 0)
      <3> DEFINE events == <<first, second>>
      <3>1. events = [k \in 1..2 |-> events[k]] /\ \A k \in 1..2 : Fair(book, events[k], 0)
        BY <2>1, <2>2
      <3> HIDE DEF events
      <3>2. Events(book, events, 0)
        BY <3>1, EventsOf
      <3> QED BY <3>2 DEF events
    <2> QED BY <1>1, <2>3, <2>4, NoSession, EntrySteps
  <1> QED BY <1>3, <1>4 DEF RecoverUsage, Evidently

LEMMA SettleUnknownKeeps ==
    ASSUME LedgerInv, scope' = scope, NEW n \in Ids, SettleUnknown(n)
    PROVE  LedgerInv' /\ LedgerStep
  <1>1. proc' = proc /\ damaged' = (damaged \/ torn') /\ ~Settled(n) /\ Transact(Abandoned(n))
    BY DEF SettleUnknown, Evidently, Ordinary, Settled
  <1>2. Events(book, Abandoned(n), 0)
    BY <1>1, PrefixFair
  <1> QED BY <1>1, <1>2, NoSession, EntrySteps

LEMMA PlainFair ==
    ASSUME LedgerInv, NEW e, e.type \in {"accrue", "grant", "rate", "cooldown"}
    PROVE  Events(book, <<e>>, 0)
  BY OneEvent DEF Fair

LEMMA CooldownKeeps ==
    ASSUME LedgerInv, scope' = scope, NEW n \in Ids, Cooldown(n)
    PROVE  LedgerInv' /\ LedgerStep
  <1> DEFINE e == [type |-> "cooldown", until |-> clock + 1]
  <1>1. proc' = proc /\ damaged' = (damaged \/ torn') /\ Transact(<<e>>) /\ e.type = "cooldown"
    BY DEF Cooldown, Evidently, Ordinary
  <1> HIDE DEF e
  <1>2. Events(book, <<e>>, 0)
    BY <1>1, PlainFair
  <1> QED BY <1>1, <1>2, NoSession, EntrySteps

LEMMA ConfigureKeeps ==
    ASSUME LedgerInv, scope' = scope, ConfigureGrant \/ \E rate \in 0..1 : ConfigureRate(rate)
    PROVE  LedgerInv' /\ LedgerStep
  <1>1. PICK e : /\ e.type \in {"grant", "rate"} /\ Transact(<<e>>)
                 /\ proc' = proc /\ damaged' = (damaged \/ torn')
    <2>1. CASE ConfigureGrant
      <3> DEFINE e == [type |-> "grant", delta |-> Unit]
      <3>1. e.type = "grant" /\ Transact(<<e>>) /\ proc' = proc /\ damaged' = (damaged \/ torn')
        BY <2>1 DEF ConfigureGrant
      <3> HIDE DEF e
      <3> QED BY <3>1
    <2>2. ASSUME NEW rate \in 0..1, ConfigureRate(rate)
          PROVE  \E e : /\ e.type \in {"grant", "rate"} /\ Transact(<<e>>)
                        /\ proc' = proc /\ damaged' = (damaged \/ torn')
      <3> DEFINE e == [type |-> "rate", amount |-> rate]
      <3>1. e.type = "rate" /\ Transact(<<e>>) /\ proc' = proc /\ damaged' = (damaged \/ torn')
        BY <2>2 DEF ConfigureRate, Ordinary
      <3> HIDE DEF e
      <3> QED BY <3>1
    <2> QED BY <2>1, <2>2
  <1>2. Events(book, <<e>>, 0)
    BY <1>1, PlainFair
  <1> QED BY <1>1, <1>2, NoSession, EntrySteps

LEMMA ReconcileKeeps ==
    ASSUME LedgerInv, scope' = scope, NEW n \in Ids, NEW cost, Reconcile(n, cost)
    PROVE  LedgerInv' /\ LedgerStep
  <1> DEFINE events == IF Settled(n) THEN <<Corrected(n, sessions[n].cost - cost, cost, "kept", None)>>
                       ELSE TakeBack(n) \o <<SettledAt(n, cost, "native", None)>>
             s == IF Settled(n) THEN 0 ELSE n
  <1>1. /\ Transact(events) /\ proc' = proc
        /\ damaged' = (torn' \/ (damaged /\ ~Marker(n)))
        /\ Settled(n) \/ ~proc[n].live
    BY DEF Reconcile
  <1>2. Events(book, events, s)
    <2>1. CASE Settled(n)
      <3> DEFINE e == Corrected(n, sessions[n].cost - cost, cost, "kept", None)
      <3>1. Fair(book, e, 0)
        BY CorrectionFair
      <3>2. events = <<e>> /\ s = 0
        BY <2>1
      <3> HIDE DEF e, events, s
      <3> QED BY <3>1, <3>2, OneEvent
    <2>2. CASE ~Settled(n)
      BY <2>2, SettlesFair
    <2> QED BY <2>1, <2>2
  <1>3. s \in 1..Len(sessions) => ~proc[s].live
    BY <1>1, NoSession, Invocations
  <1>4. OpenMarker(s) => Marker(n)
    BY NoSession, Invocations DEF OpenMarker
  <1> HIDE DEF events, s
  <1>5. ~torn /\ torn' \in BOOLEAN /\ Follows(book, book', s)
    BY <1>1, <1>2, Transacted
  <1>6. damaged' \in BOOLEAN /\ (damaged' => torn' \/ (damaged /\ ~torn /\ ~OpenMarker(s)))
    BY <1>1, <1>4, <1>5
  <1> QED BY <1>1, <1>3, <1>5, <1>6, EntryKeeps

LEMMA RecoverStoppedKeeps ==
    ASSUME LedgerInv, scope' = scope, NEW n \in Ids, NEW estimate, RecoverStopped(n, estimate)
    PROVE  LedgerInv' /\ LedgerStep
  <1> DEFINE floor == Greatest({sessions[n].cost, sessions[n].lower, proc[n].journal.cost}, 0)
             cost == IF proc[n].journal.complete THEN floor ELSE Greatest({floor, estimate}, 0)
             named == sessions[n].resume \/ proc[n].journal.cost # None \/ sessions[n].lower # None
             total == IF named THEN Baseline(n) + cost ELSE None
             events == TakeBack(n) \o <<SettledAt(n, cost, "estimate", total)>>
  <1>1. /\ Transact(events) /\ proc' = proc /\ damaged' = (damaged \/ torn')
        /\ ~Settled(n) /\ ~proc[n].live /\ ~Marker(n)
    BY DEF RecoverStopped, Ordinary
  <1>2. Events(book, events, n)
    <2> HIDE DEF cost, total
    <2> QED BY <1>1, SettlesFair
  <1> HIDE DEF events
  <1> QED BY <1>1, <1>2, EntrySteps

LEMMA SessionFieldsOf ==
    ASSUME LedgerInv, NEW w, NEW chain
    PROVE  /\ OfSession(Fresh(w, chain)) /\ Fresh(w, chain).worker = w
           /\ Fresh(w, chain).provenance = "none" /\ Fresh(w, chain).status = "active"
           /\ OfSession(RepairMarker) /\ RepairMarker.worker = "ledger-repair"
           /\ RepairMarker.provenance = "none" /\ RepairMarker.status = "unresolved"
  <1>1. ASSUME NEW v, NEW c
        PROVE  /\ OfSession(Fresh(v, c)) /\ Fresh(v, c).worker = v
               /\ Fresh(v, c).provenance = "none" /\ Fresh(v, c).status = "active"
    BY DEF Fresh, OfSession, SessionFields
  <1> DEFINE f == Fresh("ledger-repair", 0)
             r == [f EXCEPT !.status = "unresolved", !.estimate = 0]
  <1>2. OfSession(f) /\ f.worker = "ledger-repair" /\ f.provenance = "none"
    BY <1>1
  <1>3. OfSession(r) /\ r.worker = "ledger-repair" /\ r.provenance = "none" /\ r.status = "unresolved"
    <2> HIDE DEF f
    <2> QED BY <1>2 DEF OfSession, SessionFields
  <1>4. RepairMarker = r
    BY DEF RepairMarker
  <1> HIDE DEF r
  <1> QED BY <1>1, <1>3, <1>4

LEMMA RepairKeeps ==
    ASSUME LedgerInv, scope' = scope, Repair
    PROVE  LedgerInv' /\ LedgerStep
  <1> DEFINE r == RepairMarker
             e == Accrual
             admit == [type |-> "admit", session |-> r]
  <1>0. Sound(book)
    BY DEF LedgerInv
  <1>1. /\ torn /\ torn' = FALSE /\ damaged' = damaged /\ proc' = Append(proc, Inert)
        /\ book' = Replayed(book, <<e, admit>>)
    BY DEF Repair
  <1>2. e.type = "accrue"
    BY DEF Accrual
  <1>3. OfSession(r) /\ r.worker = "ledger-repair" /\ r.provenance # "native" /\ r.status # "settled"
    BY SessionFieldsOf
  <1> HIDE DEF r, e
  <1>4. Events(book, <<e>>, 0)
    BY <1>2, PlainFair
  <1>5. PICK c : Follows(book, c, 0) /\ Replayed(book, <<e>> \o <<admit>>) = Admission(c, admit)
    BY <1>0, <1>4, AdmissionReplayed
  <1>6. <<e>> \o <<admit>> = <<e, admit>>
    BY PairJoined
  <1>7. book' = Admission(c, admit)
    BY <1>1, <1>5, <1>6
  <1>8. OfProcess(Inert)
    BY DEF Inert, OfProcess, ProcFields
  <1>9. torn' \in BOOLEAN /\ damaged' \in BOOLEAN /\ (damaged' => torn' \/ damaged)
    BY <1>1 DEF LedgerInv
  <1>10. proc' = Append(proc, Inert)
    BY <1>1
  <1> QED BY <1>3, <1>5, <1>7, <1>8, <1>9, <1>10, SessionKeeps

\* Who may start a session finds no marker open.
LEMMA RefusedByMarker ==
    ASSUME LedgerInv, NEW w, NEW chain, Refusal(w, chain) = "" PROVE damaged => torn
  <1>1. ~\E n \in Ids : Marker(n) /\ ~Settled(n)
    <2>1. CASE \E n \in Ids : Marker(n) /\ ~Settled(n)
      <3>1. Refusal(w, chain) = "repair"
        BY <2>1 DEF Refusal
      <3> QED BY <3>1
    <2> QED BY <2>1
  <1>2. ~\E n : OpenMarker(n)
    BY <1>1, Invocations DEF OpenMarker
  <1> QED BY <1>2 DEF LedgerInv

LEMMA AdmitKeeps ==
    ASSUME LedgerInv, scope' = scope, NEW w, w # "ledger-repair", NEW chain, Admit(w, chain)
    PROVE  LedgerInv' /\ LedgerStep
  <1>0. Sound(book) /\ torn \in BOOLEAN /\ damaged \in BOOLEAN
    BY DEF LedgerInv
  <1>1. damaged' = (damaged \/ torn')
    BY DEF Admit, Ordinary
  <1>2. Events(book, OrphanEvents, 0)
    BY OrphansFair
  <1> DEFINE r == Fresh(w, chain)
             admit == [type |-> "admit", session |-> r]
             events == OrphanEvents \o <<admit>>
  <1>3. CASE Refusal(w, chain) # "" /\ proc' = proc /\ Transact(OrphanEvents)
    BY <1>1, <1>2, <1>3, NoSession, EntrySteps
  <1>4. CASE ~torn /\ proc' = proc /\ UNCHANGED <<book, torn, earned, strained, tears>>
    <2>1. damaged' = damaged
      BY <1>0, <1>1, <1>4
    <2> QED BY <1>4, <2>1, NothingKeeps
  <1>5. CASE /\ Refusal(w, chain) = "" /\ Transact(events) /\ torn' = TRUE
             /\ proc' = proc
    <2>1. book' = book
      BY <1>5 DEF Transact
    <2>2. Follows(book, book', 0)
      BY <1>0, <2>1, FollowsItself
    <2>3. 0 \notin 1..Len(sessions)
      BY Invocations
    <2>4. torn' \in BOOLEAN
      BY <1>5
    <2>5. damaged' \in BOOLEAN
      BY <1>1
    <2> QED BY <1>5, <2>2, <2>3, <2>4, <2>5, EntryKeeps
  <1>6. CASE /\ Refusal(w, chain) = "" /\ Transact(events) /\ torn' # TRUE
             /\ proc' = Append(proc, NewProcess)
    <2> DEFINE e == Accrual
    <2>1. ~torn /\ torn' = torn /\ book' = Replayed(book, <<e>> \o events)
      BY <1>6 DEF Transact
    <2>2. ~damaged
      BY <1>6, <2>1, RefusedByMarker
    <2>3. e.type = "accrue"
      BY DEF Accrual
    <2>4. OfSession(r) /\ r.worker = w /\ r.provenance # "native" /\ r.status # "settled"
      BY SessionFieldsOf
    <2> HIDE DEF r, e
    <2>5. Events(book, <<e>>, 0)
      BY <2>3, PlainFair
    <2>6. Events(book, <<e>> \o OrphanEvents, 0)
      BY <1>2, <2>5, EventsJoined
    <2>7. PICK c : /\ Follows(book, c, 0)
                   /\ Replayed(book, (<<e>> \o OrphanEvents) \o <<admit>>) = Admission(c, admit)
      BY <1>0, <2>6, AdmissionReplayed
    <2>8. (<<e>> \o OrphanEvents) \o <<admit>> = <<e>> \o events
      <3>1. PICK X : OrphanEvents \in Seq(X)
        BY <1>2 DEF Events
      <3> DEFINE Y == X \cup {e, admit}
      <3>2. OrphanEvents \in Seq(Y)
        BY <3>1, SeqMonotonic
      <3>3. <<e>> \in Seq(Y) /\ <<admit>> \in Seq(Y)
        <4> HIDE DEF admit
        <4> QED OBVIOUS
      <3> HIDE DEF Y, admit
      <3> QED BY <3>2, <3>3, ConcatAssociative
    <2>9. book' = Admission(c, admit)
      BY <2>1, <2>7, <2>8
    <2>10. OfProcess(NewProcess)
      BY DEF NewProcess, OfProcess, ProcFields
    <2>11. /\ torn' \in BOOLEAN /\ damaged' \in BOOLEAN /\ (damaged' => torn' \/ damaged)
           /\ r.worker # "ledger-repair"
      BY <1>0, <1>1, <2>1, <2>4
    <2> QED BY <1>6, <2>2, <2>4, <2>7, <2>9, <2>10, <2>11, SessionKeeps
  <1>7. \/ Refusal(w, chain) # "" /\ proc' = proc /\ Transact(OrphanEvents)
        \/ ~torn /\ proc' = proc /\ UNCHANGED <<book, torn, earned, strained, tears>>
        \/ Refusal(w, chain) = "" /\ Transact(events) /\ torn' = TRUE /\ proc' = proc
        \/ Refusal(w, chain) = "" /\ Transact(events) /\ torn' # TRUE /\ proc' = Append(proc, NewProcess)
    <2>1. torn' \in BOOLEAN \/ ~Transact(events)
      BY <1>0 DEF Transact
    <2> QED BY <2>1 DEF Admit
  <1> QED BY <1>3, <1>4, <1>5, <1>6, <1>7

LEMMA ProcessSteps ==
    ASSUME LedgerInv, scope' = scope, NEW n \in Ids,
           \/ Checkpoint(n) \/ BridgeCloses(n)
           \/ \E spent, receipt, left : Exit(n, spent, receipt, left)
    PROVE  LedgerInv' /\ LedgerStep
  <1>0. n \in 1..Len(sessions) /\ OfProcess(proc[n]) /\ Listed(proc) /\ n \in 1..Len(proc)
    BY Invocations DEF LedgerInv
  <1>1. PICK p : /\ OfProcess(p) /\ (p.live => proc[n].live) /\ proc' = [proc EXCEPT ![n] = p]
                 /\ proc[n].live \/ proc[n].bridge
                 /\ book' = book /\ torn' = torn /\ damaged' = damaged
    <2> DEFINE o == proc[n]
    <2>1. CASE Checkpoint(n)
      <3> DEFINE p == [o EXCEPT !.receipt = [kind |-> "prefix", total |-> Cumulative(n)]]
      <3>1. proc' = [proc EXCEPT ![n] = p] /\ o.live /\ book' = book /\ torn' = torn /\ damaged' = damaged
        BY <2>1 DEF Checkpoint, hist
      <3>2. OfProcess(p) /\ p.live = o.live
        <4> HIDE DEF o
        <4> QED BY <1>0 DEF OfProcess, ProcFields, o
      <3> HIDE DEF p
      <3> QED BY <3>1, <3>2
    <2>2. CASE BridgeCloses(n)
      <3> DEFINE p == [o EXCEPT !.bridge = FALSE]
      <3>1. proc' = [proc EXCEPT ![n] = p] /\ o.bridge /\ book' = book /\ torn' = torn /\ damaged' = damaged
        BY <2>2 DEF BridgeCloses, hist
      <3>2. OfProcess(p) /\ p.live = o.live
        BY <1>0 DEF OfProcess, ProcFields
      <3> HIDE DEF p
      <3> QED BY <3>1, <3>2
    <2>3. ASSUME NEW spent, NEW receipt, NEW left, Exit(n, spent, receipt, left)
          PROVE  \E p : /\ OfProcess(p) /\ (p.live => proc[n].live) /\ proc' = [proc EXCEPT ![n] = p]
                        /\ proc[n].live \/ proc[n].bridge
                        /\ book' = book /\ torn' = torn /\ damaged' = damaged
      <3> DEFINE given == CASE receipt = "final" -> [kind |-> "final", total |-> Cumulative(n) + spent]
                            [] receipt = "free" -> [kind |-> "free", total |-> 0]
                            [] receipt = "killed" -> o.receipt
                 p == [live |-> FALSE, bridge |-> o.bridge, spent |-> spent, journal |-> left, receipt |-> given]
      <3>1. proc' = [proc EXCEPT ![n] = p]
        BY <2>3 DEF Exit
      <3>2. o.live /\ book' = book /\ torn' = torn /\ damaged' = damaged
        BY <2>3 DEF Exit, hist
      <3>3. OfProcess(p) /\ p.live = FALSE
        <4> HIDE DEF given, o
        <4> QED BY DEF OfProcess, ProcFields
      <3> HIDE DEF p
      <3> QED BY <3>1, <3>2, <3>3
    <2> QED BY <2>1, <2>2, <2>3
  <1> QED BY <1>0, <1>1, ProcessKeeps

-----------------------------------------------------------------------------
LEMMA LedgerStart ==
    ASSUME BudgetInit PROVE LedgerInv
  <1>1. book.sessions = << >> /\ Len(sessions) = 0 /\ proc = << >> /\ scope \in Instances
    BY DEF BudgetInit, sessions
  <1>2. Sound(book)
    <2>1. Rows(<< >>)
      BY DEF Rows, Listed
    <2>2. book = [f \in BookFields |-> book[f]]
      BY DEF BudgetInit, BookFields
    <2> QED BY <1>1, <2>1, <2>2 DEF Sound, Shaped, sessions
  <1>3. Listed(proc) /\ Len(proc) = 0
    BY <1>1 DEF Listed
  <1>4. torn = FALSE /\ damaged = FALSE
    BY DEF BudgetInit
  <1>5. Len(proc) = Len(sessions) /\ 1..Len(sessions) = {}
    BY <1>1, <1>3
  <1>6. torn \in BOOLEAN /\ damaged \in BOOLEAN /\ ~damaged
    BY <1>4
  <1>7. \A n \in 1..Len(sessions) : /\ OfProcess(proc[n])
                                    /\ Settled(n) => ~proc[n].live
                                    /\ Marker(n) => proc[n] = Inert
    BY <1>5
  <1> QED BY <1>1, <1>2, <1>3, <1>5, <1>6, <1>7 DEF LedgerInv

LEMMA LedgerKept ==
    ASSUME BudgetAssumption, LedgerInv, [BudgetNext]_ledgervars
    PROVE  LedgerInv' /\ LedgerStep
  <1>1. CASE UNCHANGED ledgervars
    <2>1. scope' = scope /\ proc' = proc /\ book' = book /\ torn' = torn /\ damaged' = damaged
      BY <1>1 DEF ledgervars, hist
    <2> QED BY <1>1, <2>1, NothingKeeps
  <1>2. CASE BudgetNext
    <2>0. scope' = scope
      BY <1>2 DEF BudgetNext
    <2>1. ASSUME NEW w \in scope.workers, TicketLapses(w) \/ Preflight(w) PROVE LedgerInv' /\ LedgerStep
      <3>1. proc' = proc /\ book' = book /\ torn' = torn /\ damaged' = damaged
        BY <2>1 DEF TicketLapses, Preflight, hist
      <3> QED BY <2>0, <3>1, NothingKeeps
    <2>2. ASSUME NEW w \in scope.workers, NEW chain, Admit(w, chain) PROVE LedgerInv' /\ LedgerStep
      <3>1. w # "ledger-repair"
        BY DEF BudgetAssumption, LedgerInv
      <3> QED BY <2>0, <2>2, <3>1, AdmitKeeps
    <2>3. ASSUME NEW n \in Ids,
                 \/ Checkpoint(n) \/ BridgeCloses(n) \/ Cooldown(n)
                 \/ SettleFinal(n) \/ SettleFree(n) \/ SettlePrefix(n)
                 \/ RecoverUsage(n) \/ SettleUnknown(n)
                 \/ \E cost \in scope.costs : Reconcile(n, cost)
                 \/ \E estimate \in Comparable(n) : RecoverStopped(n, estimate)
                 \/ \E spent, receipt, left : Exit(n, spent, receipt, left)
          PROVE  LedgerInv' /\ LedgerStep
      <3>1. CASE Checkpoint(n) \/ BridgeCloses(n) \/ \E spent, receipt, left : Exit(n, spent, receipt, left)
        BY <2>0, <3>1, ProcessSteps
      <3>2. CASE Cooldown(n)
        BY <2>0, <3>2, CooldownKeeps
      <3>3. CASE SettleFinal(n)
        BY <2>0, <3>3, SettleFinalKeeps
      <3>4. CASE SettleFree(n)
        BY <2>0, <3>4, SettleFreeKeeps
      <3>5. CASE SettlePrefix(n)
        BY <2>0, <3>5, SettlePrefixKeeps
      <3>6. CASE RecoverUsage(n)
        BY <2>0, <3>6, RecoverUsageKeeps
      <3>7. CASE SettleUnknown(n)
        BY <2>0, <3>7, SettleUnknownKeeps
      <3>8. CASE \E cost \in scope.costs : Reconcile(n, cost)
        BY <2>0, <3>8, ReconcileKeeps
      <3>9. CASE \E estimate \in Comparable(n) : RecoverStopped(n, estimate)
        BY <2>0, <3>9, RecoverStoppedKeeps
      <3> QED BY <2>3, <3>1, <3>2, <3>3, <3>4, <3>5, <3>6, <3>7, <3>8, <3>9
    <2>4. CASE ConfigureGrant \/ \E rate \in 0..1 : ConfigureRate(rate)
      BY <2>0, <2>4, ConfigureKeeps
    <2>5. CASE Repair
      BY <2>0, <2>5, RepairKeeps
    <2>6. ASSUME NEW hour, ClockStep(hour) PROVE LedgerInv' /\ LedgerStep
      <3>1. proc' = proc /\ book' = book /\ torn' = torn /\ damaged' = damaged
        BY <2>6 DEF ClockStep, hist
      <3> QED BY <2>0, <3>1, NothingKeeps
    <2>7. CASE \E n \in Ids : \/ Checkpoint(n) \/ BridgeCloses(n) \/ Cooldown(n)
                              \/ SettleFinal(n) \/ SettleFree(n) \/ SettlePrefix(n)
                              \/ RecoverUsage(n) \/ SettleUnknown(n)
                              \/ \E cost \in scope.costs : Reconcile(n, cost)
                              \/ \E estimate \in Comparable(n) : RecoverStopped(n, estimate)
                              \/ \E spent \in scope.costs, receipt \in {"final", "free", "killed"},
                                    left \in scope.journals : Exit(n, spent, receipt, left)
      BY <2>3, <2>7, Zenon
    <2>8. CASE \E w \in scope.workers : TicketLapses(w) \/ Preflight(w) \/ \E chain \in Chains : Admit(w, chain)
      BY <2>1, <2>2, <2>8, Zenon
    <2>9. CASE \E hour \in 0..scope.clock : ClockStep(hour)
      BY <2>6, <2>9, Zenon
    <2> QED BY <1>2, <2>4, <2>5, <2>7, <2>8, <2>9, Zenon DEF BudgetNext
  <1> QED BY <1>1, <1>2

\* A session that is settled has stopped: nothing is charged while it may still spend, whatever the
\* bridge, the supervisor and the operator do in which order.  (settle_receipt, recover_usage, reconcile)
THEOREM SettledStopped == BudgetAssumption => (BudgetSpec => []SettledHasStopped)
  <1> SUFFICES ASSUME BudgetAssumption PROVE BudgetSpec => []SettledHasStopped
    OBVIOUS
  <1>1. BudgetInit => LedgerInv
    BY LedgerStart
  <1>2. LedgerInv /\ [BudgetNext]_ledgervars => LedgerInv'
    BY LedgerKept
  <1>3. LedgerInv => SettledHasStopped
    BY Invocations DEF LedgerInv, SettledHasStopped
  <1> QED BY <1>1, <1>2, <1>3, PTL DEF BudgetSpec

\* The total a native receipt put on the books stands through every later correction and estimate, and
\* after a torn write nobody is admitted before the loss was audited.  (settle_receipt, repair, admit)
THEOREM LedgerIsSafe == BudgetAssumption => (BudgetSpec => [][ReceiptsStand /\ TornStopsAdmission]_ledgervars)
  <1> SUFFICES ASSUME BudgetAssumption PROVE BudgetSpec => [][ReceiptsStand /\ TornStopsAdmission]_ledgervars
    OBVIOUS
  <1>1. BudgetInit => LedgerInv
    BY LedgerStart
  <1>2. LedgerInv /\ [BudgetNext]_ledgervars => LedgerInv'
    BY LedgerKept
  <1>3. LedgerInv /\ [BudgetNext]_ledgervars => [ReceiptsStand /\ TornStopsAdmission]_ledgervars
    BY LedgerKept DEF LedgerStep
  <1> QED BY <1>1, <1>2, <1>3, PTL DEF BudgetSpec

-----------------------------------------------------------------------------
(* Sums over a list. *)

\* A list of n numbers.
Numbers(f, n) == n \in Nat /\ f = [k \in 1..n |-> f[k]] /\ \A k \in 1..n : f[k] \in Int
Part(f, S, k) == IF k \in S THEN f[k] ELSE 0

LEMMA LengthOf ==
    ASSUME NEW n \in Nat, NEW f, f = [k \in 1..n |-> f[k]] PROVE Len(f) = n
  <1> DEFINE X == {f[k] : k \in 1..n}
  <1>1. f \in [1..n -> X]
    OBVIOUS
  <1> HIDE DEF X
  <1>2. f \in UNION {[1..k -> X] : k \in Nat}
    BY <1>1
  <1>3. f \in Seq(X)
    BY <1>2, SeqDef, Zenon
  <1> QED BY <1>1, <1>3

\* A sum goes through one number after each element.
LEMMA SumIs ==
    ASSUME NEW n, NEW f, Numbers(f, n), NEW S
    PROVE  \E g : /\ g[0] = 0 /\ Sum(f, S) = g[n]
                  /\ \A k \in 0..n : g[k] \in Int
                  /\ \A k \in 1..n : Part(f, S, k) \in Int /\ g[k] = g[k - 1] + Part(f, S, k)
  <1> DEFINE Passes(g, m) == g = [k \in 0..m |-> IF k = 0 THEN 0 ELSE g[k - 1] + IF k \in S THEN f[k] ELSE 0]
             T == {m \in Nat : \E g : Passes(g, m)}
  <1>0. n \in Nat /\ Len(f) = n /\ \A k \in 1..n : Part(f, S, k) \in Int
    BY LengthOf DEF Numbers, Part
  <1>1. 0 \in T
    <2>1. Passes([k \in 0..0 |-> 0], 0)
      OBVIOUS
    <2> QED BY <2>1
  <1>2. ASSUME NEW m \in T PROVE m + 1 \in T
    <2>1. PICK g : Passes(g, m)
      OBVIOUS
    <2> DEFINE last == g[m] + IF m + 1 \in S THEN f[m + 1] ELSE 0
               h == [k \in 0..(m + 1) |-> IF k = m + 1 THEN last ELSE g[k]]
               i == [k \in 0..(m + 1) |-> IF k = 0 THEN 0 ELSE h[k - 1] + IF k \in S THEN f[k] ELSE 0]
    <2>2. ASSUME NEW k \in 0..(m + 1) PROVE h[k] = i[k]
      <3>1. CASE k = m + 1
        <4>1. k # 0 /\ k - 1 = m /\ m \in 0..(m + 1) /\ m # m + 1
          BY <3>1
        <4>2. h[k] = last /\ h[m] = g[m]
          BY <3>1, <4>1
        <4> HIDE DEF h
        <4> QED BY <3>1, <4>1, <4>2
      <3>2. CASE k # m + 1
        <4>1. k \in 0..m /\ h[k] = g[k]
          BY <3>2
        <4>2. g[k] = IF k = 0 THEN 0 ELSE g[k - 1] + IF k \in S THEN f[k] ELSE 0
          BY <2>1, <4>1
        <4>3. k # 0 => k - 1 \in 0..(m + 1) /\ k - 1 # m + 1 /\ h[k - 1] = g[k - 1]
          BY <4>1
        <4> HIDE DEF h
        <4> QED BY <4>1, <4>2, <4>3
      <3> QED BY <3>1, <3>2
    <2>3. h = i
      BY <2>2
    <2>4. Passes(h, m + 1)
      <3> HIDE DEF h
      <3> QED BY <2>3
    <2> HIDE DEF Passes
    <2> QED BY <2>4
  <1>3. T \subseteq Nat
    OBVIOUS
  <1>4. T = Nat
    <2> HIDE DEF T
    <2> QED BY <1>1, <1>2, <1>3, Counting
  <1> DEFINE through == CHOOSE g : Passes(g, n)
  <1>5. Passes(through, n)
    <2>1. \E g : Passes(g, n)
      <3> HIDE DEF Passes
      <3> QED BY <1>0, <1>4
    <2> QED BY <2>1
  <1>6. Sum(f, S) = through[n]
    BY <1>0 DEF Sum
  <1> HIDE DEF through
  <1>7. through[0] = 0
    BY <1>0, <1>5
  <1>8. ASSUME NEW k \in 1..n PROVE through[k] = through[k - 1] + Part(f, S, k)
    <2>1. k \in 0..n /\ k # 0
      BY <1>0
    <2> QED BY <1>5, <2>1 DEF Part
  <1> DEFINE U == {m \in Nat : m <= n => through[m] \in Int}
  <1>9. U = Nat
    <2>1. 0 \in U /\ U \subseteq Nat
      BY <1>7
    <2>2. ASSUME NEW m \in U PROVE m + 1 \in U
      <3>1. CASE m + 1 <= n
        <4>1. m + 1 \in 1..n /\ (m + 1) - 1 = m /\ m <= n
          BY <1>0, <3>1
        <4>2. through[m] \in Int /\ Part(f, S, m + 1) \in Int /\ through[m + 1] = through[m] + Part(f, S, m + 1)
          BY <1>0, <1>8, <4>1
        <4> QED BY <4>2
      <3> QED BY <3>1
    <2> HIDE DEF U
    <2> QED BY <2>1, <2>2, Counting
  <1>10. \A k \in 0..n : through[k] \in Int
    BY <1>0, <1>9
  <1> HIDE DEF Passes
  <1> QED BY <1>0, <1>6, <1>7, <1>8, <1>10

LEMMA SumTyped ==
    ASSUME NEW n, NEW f, Numbers(f, n), NEW S PROVE Sum(f, S) \in Int
  <1>1. n \in 0..n
    BY DEF Numbers
  <1> QED BY <1>1, SumIs

\* Scaled lists that are ordered element by element have ordered sums.
LEMMA SumOrdered ==
    ASSUME NEW n, NEW f, Numbers(f, n), NEW S, NEW h, Numbers(h, n), NEW R, NEW a \in Int, NEW b \in Int,
           \A k \in 1..n : a * Part(f, S, k) <= b * Part(h, R, k)
    PROVE  a * Sum(f, S) <= b * Sum(h, R)
  <1>0. n \in Nat
    BY DEF Numbers
  <1>1. PICK u : /\ u[0] = 0 /\ Sum(f, S) = u[n]
                 /\ \A k \in 0..n : u[k] \in Int
                 /\ \A k \in 1..n : Part(f, S, k) \in Int /\ u[k] = u[k - 1] + Part(f, S, k)
    BY SumIs
  <1>2. PICK v : /\ v[0] = 0 /\ Sum(h, R) = v[n]
                 /\ \A k \in 0..n : v[k] \in Int
                 /\ \A k \in 1..n : Part(h, R, k) \in Int /\ v[k] = v[k - 1] + Part(h, R, k)
    BY SumIs
  <1> DEFINE T == {k \in Nat : k <= n => a * u[k] <= b * v[k]}
  <1>3. 0 \in T /\ T \subseteq Nat
    BY <1>1, <1>2
  <1>4. ASSUME NEW k \in T PROVE k + 1 \in T
    <2>1. CASE k + 1 <= n
      <3>1. k + 1 \in 1..n /\ (k + 1) - 1 = k /\ k \in 0..n /\ k + 1 \in 0..n
        BY <1>0, <2>1
      <3> DEFINE x == Part(f, S, k + 1)
                 y == Part(h, R, k + 1)
      <3>2. x \in Int /\ y \in Int /\ u[k] \in Int /\ v[k] \in Int
        BY <1>1, <1>2, <3>1
      <3>3. u[k + 1] = u[k] + x /\ v[k + 1] = v[k] + y
        BY <1>1, <1>2, <3>1
      <3>4. a * u[k] <= b * v[k] /\ a * x <= b * y
        BY <3>1
      <3> HIDE DEF x, y
      <3>5. a * (u[k] + x) = a * u[k] + a * x /\ b * (v[k] + y) = b * v[k] + b * y
        BY <3>2
      <3>6. a * u[k] \in Int /\ a * x \in Int /\ b * v[k] \in Int /\ b * y \in Int
        BY <3>2
      <3>7. a * u[k + 1] <= b * v[k + 1]
        BY <3>3, <3>4, <3>5, <3>6
      <3> QED BY <3>7
    <2> QED BY <2>1
  <1>5. T = Nat
    <2> HIDE DEF T
    <2> QED BY <1>3, <1>4, Counting
  <1>6. a * u[n] <= b * v[n]
    BY <1>0, <1>5
  <1> QED BY <1>1, <1>2, <1>6

\* The sum of the sums is the sum.
LEMMA SumJoined ==
    ASSUME NEW n, NEW f, Numbers(f, n), NEW h, Numbers(h, n), NEW g, Numbers(g, n), NEW S, NEW R, NEW Q,
           \A k \in 1..n : Part(g, Q, k) = Part(f, S, k) + Part(h, R, k)
    PROVE  Sum(g, Q) = Sum(f, S) + Sum(h, R)
  <1>0. n \in Nat
    BY DEF Numbers
  <1>1. PICK u : /\ u[0] = 0 /\ Sum(f, S) = u[n]
                 /\ \A k \in 0..n : u[k] \in Int
                 /\ \A k \in 1..n : Part(f, S, k) \in Int /\ u[k] = u[k - 1] + Part(f, S, k)
    BY SumIs
  <1>2. PICK v : /\ v[0] = 0 /\ Sum(h, R) = v[n]
                 /\ \A k \in 0..n : v[k] \in Int
                 /\ \A k \in 1..n : Part(h, R, k) \in Int /\ v[k] = v[k - 1] + Part(h, R, k)
    BY SumIs
  <1>3. PICK w : /\ w[0] = 0 /\ Sum(g, Q) = w[n]
                 /\ \A k \in 0..n : w[k] \in Int
                 /\ \A k \in 1..n : Part(g, Q, k) \in Int /\ w[k] = w[k - 1] + Part(g, Q, k)
    BY SumIs
  <1> DEFINE T == {k \in Nat : k <= n => w[k] = u[k] + v[k]}
  <1>4. 0 \in T /\ T \subseteq Nat
    BY <1>1, <1>2, <1>3
  <1>5. ASSUME NEW k \in T PROVE k + 1 \in T
    <2>1. CASE k + 1 <= n
      <3>1. k + 1 \in 1..n /\ (k + 1) - 1 = k /\ k \in 0..n /\ k <= n
        BY <1>0, <2>1
      <3> DEFINE x == Part(f, S, k + 1)
                 y == Part(h, R, k + 1)
                 z == Part(g, Q, k + 1)
      <3>2. x \in Int /\ y \in Int /\ z = x + y /\ u[k] \in Int /\ v[k] \in Int /\ w[k] = u[k] + v[k]
        BY <1>1, <1>2, <3>1
      <3>3. u[k + 1] = u[k] + x /\ v[k + 1] = v[k] + y /\ w[k + 1] = w[k] + z
        BY <1>1, <1>2, <1>3, <3>1
      <3> HIDE DEF x, y, z
      <3>4. w[k + 1] = u[k + 1] + v[k + 1]
        BY <3>2, <3>3
      <3> QED BY <3>4
    <2> QED BY <2>1
  <1>6. T = Nat
    <2> HIDE DEF T
    <2> QED BY <1>4, <1>5, Counting
  <1> QED BY <1>0, <1>1, <1>2, <1>3, <1>6

LEMMA SumReplaced ==
    ASSUME NEW n, NEW f, Numbers(f, n), NEW h, Numbers(h, n), NEW i \in 1..n,
           \A k \in 1..n : k # i => h[k] = f[k]
    PROVE  Sum(h, 1..n) = Sum(f, 1..n) + h[i] - f[i]
  <1> DEFINE S == 1..n
  <1>0. n \in Nat /\ i \in S /\ i \in 1..n
    BY DEF Numbers
  <1> HIDE DEF S
  <1>1. PICK u : /\ u[0] = 0 /\ Sum(f, S) = u[n]
                 /\ \A k \in 0..n : u[k] \in Int
                 /\ \A k \in 1..n : Part(f, S, k) \in Int /\ u[k] = u[k - 1] + Part(f, S, k)
    BY SumIs
  <1>2. PICK v : /\ v[0] = 0 /\ Sum(h, S) = v[n]
                 /\ \A k \in 0..n : v[k] \in Int
                 /\ \A k \in 1..n : Part(h, S, k) \in Int /\ v[k] = v[k - 1] + Part(h, S, k)
    BY SumIs
  <1> DEFINE d == h[i] - f[i]
             T == {k \in Nat : k <= n => v[k] = u[k] + IF i <= k THEN d ELSE 0}
  <1>d. d \in Int /\ f[i] \in Int /\ h[i] \in Int
    BY DEF Numbers
  <1>3. 0 \in T /\ T \subseteq Nat
    <2>1. ~(i <= 0)
      BY <1>0
    <2> HIDE DEF d
    <2> QED BY <1>1, <1>2, <2>1
  <1>4. ASSUME NEW k \in T PROVE k + 1 \in T
    <2>1. CASE k + 1 <= n
      <3>1. k + 1 \in 1..n /\ (k + 1) - 1 = k /\ k \in 0..n /\ k <= n
        BY <1>0, <2>1
      <3>2. Part(f, S, k + 1) = f[k + 1] /\ Part(h, S, k + 1) = h[k + 1]
        BY <3>1 DEF Part, S
      <3>3. u[k + 1] = u[k] + f[k + 1] /\ v[k + 1] = v[k] + h[k + 1]
        BY <1>1, <1>2, <3>1, <3>2
      <3>4. u[k] \in Int /\ v[k] \in Int /\ f[k + 1] \in Int /\ h[k + 1] \in Int
        BY <1>1, <1>2, <3>1 DEF Numbers
      <3>5. v[k] = u[k] + IF i <= k THEN d ELSE 0
        BY <3>1
      <3>6. CASE k + 1 = i
        <4>1. ~(i <= k) /\ i <= k + 1 /\ v[k] = u[k]
          BY <1>0, <3>4, <3>5, <3>6
        <4>2. v[k + 1] = u[k + 1] + d
          BY <3>3, <3>4, <3>6, <4>1
        <4> QED BY <4>1, <4>2
      <3>7. CASE k + 1 # i
        <4>1. h[k + 1] = f[k + 1] /\ (i <= k <=> i <= k + 1)
          BY <1>0, <3>1, <3>7
        <4> HIDE DEF d
        <4>2. v[k + 1] = u[k + 1] + IF i <= k + 1 THEN d ELSE 0
          BY <1>d, <3>3, <3>4, <3>5, <4>1
        <4> QED BY <4>2
      <3> QED BY <3>6, <3>7
    <2> QED BY <2>1
  <1>5. T = Nat
    <2> HIDE DEF T
    <2> QED BY <1>3, <1>4, Counting
  <1>6. v[n] = u[n] + d
    BY <1>0, <1>5
  <1>7. u[n] \in Int
    BY <1>0, <1>1
  <1> QED BY <1>1, <1>2, <1>6, <1>7, <1>d DEF S

LEMMA SumAppended ==
    ASSUME NEW n, NEW f, Numbers(f, n), NEW h, Numbers(h, n + 1), \A k \in 1..n : h[k] = f[k]
    PROVE  Sum(h, 1..n + 1) = Sum(f, 1..n) + h[n + 1]
  <1> DEFINE S == 1..n
             R == 1..n + 1
  <1>0. n \in Nat
    BY DEF Numbers
  <1>1. PICK u : /\ u[0] = 0 /\ Sum(f, S) = u[n]
                 /\ \A k \in 0..n : u[k] \in Int
                 /\ \A k \in 1..n : Part(f, S, k) \in Int /\ u[k] = u[k - 1] + Part(f, S, k)
    BY SumIs
  <1>2. PICK v : /\ v[0] = 0 /\ Sum(h, R) = v[n + 1]
                 /\ \A k \in 0..n + 1 : v[k] \in Int
                 /\ \A k \in 1..n + 1 : Part(h, R, k) \in Int /\ v[k] = v[k - 1] + Part(h, R, k)
    BY SumIs
  <1> DEFINE T == {k \in Nat : k <= n => v[k] = u[k]}
  <1>3. 0 \in T /\ T \subseteq Nat
    BY <1>1, <1>2
  <1>4. ASSUME NEW k \in T PROVE k + 1 \in T
    <2>1. CASE k + 1 <= n
      <3>1. k + 1 \in 1..n /\ k + 1 \in 1..n + 1 /\ (k + 1) - 1 = k /\ k <= n
        BY <1>0, <2>1
      <3>2. Part(f, S, k + 1) = Part(h, R, k + 1) /\ v[k] = u[k]
        BY <3>1 DEF Part
      <3>3. v[k + 1] = u[k + 1]
        BY <1>1, <1>2, <3>1, <3>2
      <3> QED BY <3>3
    <2> QED BY <2>1
  <1>5. T = Nat
    <2> HIDE DEF T
    <2> QED BY <1>3, <1>4, Counting
  <1>6. v[n] = u[n]
    BY <1>0, <1>5
  <1>7. n + 1 \in R /\ (n + 1) - 1 = n
    BY <1>0
  <1>8. v[n + 1] = v[n] + h[n + 1]
    BY <1>2, <1>7 DEF Part
  <1> QED BY <1>1, <1>2, <1>6, <1>8

LEMMA SumPositive ==
    ASSUME NEW n, NEW f, Numbers(f, n), NEW S, \A k \in 1..n : k \in S => f[k] >= 0
    PROVE  Sum(f, S) \in Nat
  <1> DEFINE z == [k \in 1..n |-> 0]
  <1>0. Numbers(z, n)
    BY DEF Numbers
  <1> HIDE DEF z
  <1>1. ASSUME NEW k \in 1..n PROVE 1 * Part(z, {}, k) <= 1 * Part(f, S, k)
    BY DEF Part, Numbers
  <1>2. ASSUME NEW k \in 1..n PROVE 1 * Part(f, {}, k) <= 1 * Part(z, {}, k)
    BY DEF Part
  <1>3. 1 * Sum(z, {}) <= 1 * Sum(f, S)
    BY <1>0, <1>1, SumOrdered
  <1>4. PICK u : /\ u[0] = 0 /\ Sum(z, {}) = u[n]
                 /\ \A k \in 0..n : u[k] \in Int
                 /\ \A k \in 1..n : Part(z, {}, k) \in Int /\ u[k] = u[k - 1] + Part(z, {}, k)
    BY <1>0, SumIs
  <1> DEFINE T == {k \in Nat : k <= n => u[k] = 0}
  <1>5. n \in Nat
    BY DEF Numbers
  <1>6. 0 \in T /\ T \subseteq Nat
    BY <1>4
  <1>7. ASSUME NEW k \in T PROVE k + 1 \in T
    <2>1. CASE k + 1 <= n
      <3>1. k + 1 \in 1..n /\ (k + 1) - 1 = k /\ k <= n
        BY <1>5, <2>1
      <3>2. u[k + 1] = 0
        BY <1>4, <3>1 DEF Part
      <3> QED BY <3>2
    <2> QED BY <2>1
  <1>8. T = Nat
    <2> HIDE DEF T
    <2> QED BY <1>6, <1>7, Counting
  <1>9. Sum(z, {}) = 0
    BY <1>4, <1>5, <1>8
  <1> QED BY <1>3, <1>9, SumTyped

-----------------------------------------------------------------------------
(* The greatest and the least of a finite set. *)

LEMMA Extremes ==
    ASSUME NEW S, IsFiniteSet(S), S \subseteq Int, S # {}
    PROVE  /\ \E x \in S : \A y \in S : y <= x
           /\ \E x \in S : \A y \in S : x <= y
  <1> DEFINE Bounded(R) == /\ \E x \in R : \A y \in R : y <= x
                           /\ \E x \in R : \A y \in R : x <= y
             T == {n \in Nat : \A R \in SUBSET Int : IsFiniteSet(R) /\ Cardinality(R) = n /\ R # {} => Bounded(R)}
  <1>1. 0 \in T /\ T \subseteq Nat
    <2>1. \A R \in SUBSET Int : IsFiniteSet(R) /\ Cardinality(R) = 0 => R = {}
      BY FS_EmptySet, Zenon
    <2> HIDE DEF Bounded
    <2> QED BY <2>1
  <1>2. ASSUME NEW n \in T PROVE n + 1 \in T
    <2>0. n \in Nat /\ \A R \in SUBSET Int : IsFiniteSet(R) /\ Cardinality(R) = n /\ R # {} => Bounded(R)
      <3> HIDE DEF Bounded
      <3> QED OBVIOUS
    <2> SUFFICES ASSUME NEW R \in SUBSET Int, IsFiniteSet(R), Cardinality(R) = n + 1, R # {} PROVE Bounded(R)
      <3> HIDE DEF Bounded
      <3> QED BY <2>0
    <2> HIDE DEF T
    <2>1. PICK e : e \in R
      OBVIOUS
    <2> DEFINE Q == R \ {e}
    <2>2. IsFiniteSet(Q) /\ Cardinality(Q) = Cardinality(R) - 1
      BY <2>1, FS_RemoveElement
    <2>3. Q \in SUBSET Int /\ Cardinality(Q) = n
      BY <2>0, <2>1, <2>2
    <2>4. CASE Q = {}
      <3>1. e \in Int
        BY <2>1
      <3>2. \A y \in R : y = e
        BY <2>4
      <3>3. \A y \in R : y <= e /\ e <= y
        BY <3>1, <3>2
      <3> HIDE DEF Q
      <3> QED BY <2>1, <3>3
    <2>5. CASE Q # {}
      <3> HIDE DEF Q
      <3>1. Bounded(Q)
        <4> HIDE DEF Bounded
        <4> QED BY <2>0, <2>2, <2>3, <2>5
      <3>2. PICK x \in Q : \A y \in Q : y <= x
        BY <3>1
      <3>3. PICK z \in Q : \A y \in Q : z <= y
        BY <3>1
      <3>4. R = Q \cup {e} /\ x \in Int /\ z \in Int /\ e \in Int
        BY <2>1, <2>3 DEF Q
      <3>5. \E m \in R : \A y \in R : y <= m
        <4>1. CASE e <= x
          <5>1. x \in R /\ \A y \in R : y <= x
            BY <3>2, <3>4, <4>1
          <5> QED BY <5>1
        <4>2. CASE ~(e <= x)
          <5>1. \A y \in Q : y <= e
            BY <2>3, <3>2, <3>4, <4>2
          <5>2. e \in R /\ \A y \in R : y <= e
            BY <2>1, <3>4, <5>1
          <5> QED BY <5>2
        <4> QED BY <4>1, <4>2
      <3>6. \E m \in R : \A y \in R : m <= y
        <4>1. CASE z <= e
          <5>1. z \in R /\ \A y \in R : z <= y
            BY <3>3, <3>4, <4>1
          <5> QED BY <5>1
        <4>2. CASE ~(z <= e)
          <5>1. \A y \in Q : e <= y
            BY <2>3, <3>3, <3>4, <4>2
          <5>2. e \in R /\ \A y \in R : e <= y
            BY <2>1, <3>4, <5>1
          <5> QED BY <5>2
        <4> QED BY <4>1, <4>2
      <3> QED BY <3>5, <3>6
    <2> QED BY <2>4, <2>5
  <1>3. T = Nat
    <2> HIDE DEF T
    <2> QED BY <1>1, <1>2, Counting
  <1>4. Cardinality(S) \in Nat
    BY FS_CardinalityType
  <1> HIDE DEF Bounded
  <1>5. Bounded(S)
    BY <1>3, <1>4
  <1> QED BY <1>5 DEF Bounded

LEMMA GreatestIs ==
    ASSUME NEW S, IsFiniteSet(S), S \subseteq Int, NEW floor \in Int
    PROVE  /\ Greatest(S, floor) \in Int /\ Greatest(S, floor) >= floor
           /\ Greatest(S, floor) \in S \cup {floor}
           /\ \A x \in S : Greatest(S, floor) >= x
  <1>1. CASE S = {}
    BY <1>1 DEF Greatest
  <1>2. CASE S # {}
    <2> DEFINE m == CHOOSE x \in S : \A y \in S : y <= x
    <2>1. m \in S /\ \A y \in S : y <= m
      BY <1>2, Extremes
    <2>2. Greatest(S, floor) = IF m > floor THEN m ELSE floor
      BY <1>2 DEF Greatest
    <2> HIDE DEF m
    <2> QED BY <2>1, <2>2
  <1> QED BY <1>1, <1>2

LEMMA FewFinite ==
    ASSUME NEW x, NEW y, NEW z
    PROVE  IsFiniteSet({x}) /\ IsFiniteSet({x, y}) /\ IsFiniteSet({x, y, z})
  <1>1. IsFiniteSet({x})
    BY FS_Singleton, Zenon
  <1>2. {x} \cup {y} = {x, y} /\ {x, y} \cup {z} = {x, y, z}
    OBVIOUS
  <1>3. IsFiniteSet({x, y})
    BY <1>1, <1>2, FS_AddElement
  <1>4. IsFiniteSet({x, y, z})
    BY <1>2, <1>3, FS_AddElement
  <1> QED BY <1>1, <1>3, <1>4

\* The values that a list takes on some of its places are finitely many.
LEMMA ValuesFinite ==
    ASSUME NEW n \in Nat, NEW f, NEW S \in SUBSET (1..n)
    PROVE  IsFiniteSet(S) /\ IsFiniteSet({f[k] : k \in S})
  <1>1. IsFiniteSet(1..n)
    BY FS_Interval
  <1>2. IsFiniteSet(S)
    BY <1>1, FS_Subset
  <1> DEFINE V == {f[k] : k \in S}
             g == [k \in S |-> f[k]]
  <1>3. g \in Surjection(S, V)
    BY DEF Surjection
  <1>4. IsFiniteSet(V)
    BY <1>2, <1>3, FS_Surjection
  <1> QED BY <1>2, <1>4

\* Of the values on some places, the least that three quarters of them do not exceed.
LEMMA PercentileIs ==
    ASSUME NEW n \in Nat, NEW value, NEW S \in SUBSET (1..n), S # {}, \A k \in S : value[k] \in Int
    PROVE  \E k \in S : Percentile(S, value) = value[k]
  <1> DEFINE V == {value[k] : k \in S}
             Enough(v) == 4 * Cardinality({k \in S : value[k] <= v}) >= 3 * Cardinality(S)
             Short(v) == 4 * Cardinality({k \in S : value[k] <= v}) < 3 * Cardinality(S)
             G == {v \in V : Enough(v)}
  <1>1. IsFiniteSet(S) /\ IsFiniteSet(V) /\ V \subseteq Int /\ V # {}
    BY ValuesFinite
  <1>2. Cardinality(S) \in Nat /\ \A v : Cardinality({k \in S : value[k] <= v}) \in Nat
    <2>1. \A v : {k \in S : value[k] <= v} \in SUBSET S
      OBVIOUS
    <2> QED BY <1>1, <2>1, FS_Subset, FS_CardinalityType
  <1>3. \A v : Enough(v) \/ Short(v)
    BY <1>2
  <1>4. PICK top \in V : \A v \in V : v <= top
    <2> HIDE DEF V
    <2> QED BY <1>1, Extremes
  <1>5. top \in G
    <2>1. {k \in S : value[k] <= top} = S
      BY <1>4
    <2> QED BY <1>2, <2>1
  <1>6. PICK v \in G : \A u \in G : v <= u
    <2>1. G \in SUBSET V /\ G # {}
      <3> HIDE DEF V, Enough
      <3> QED BY <1>5
    <2> HIDE DEF G, V
    <2>2. IsFiniteSet(G) /\ G \subseteq Int
      BY <1>1, <2>1, FS_Subset
    <2> QED BY <2>1, <2>2, Extremes
  <1> DEFINE Is(w) == Enough(w) /\ \A u \in V : u < w => Short(u)
  <1>7. v \in V /\ Is(v)
    <2> HIDE DEF V
    <2>1. v \in V /\ Enough(v)
      OBVIOUS
    <2>2. ASSUME NEW u \in V, u < v PROVE Short(u)
      <3> HIDE DEF Short
      <3>1. u \in Int /\ v \in Int
        BY <1>1, <2>1
      <3>2. u \notin G
        BY <1>6, <2>2, <3>1
      <3>3. ~Enough(u)
        <4> HIDE DEF Enough
        <4> QED BY <3>2
      <3> QED BY <1>3, <3>3
    <2> QED BY <2>1, <2>2
  <1>8. Percentile(S, value) = CHOOSE w \in V : Is(w)
    BY DEF Percentile
  <1> HIDE DEF Is
  <1>9. Percentile(S, value) \in V
    <2> HIDE DEF V
    <2> QED BY <1>7, <1>8
  <1> QED BY <1>9

-----------------------------------------------------------------------------
(* Books whose amounts are in order, and what a list of events owes them. *)

RowTyped(r, n) ==
    /\ r.status \in {"active", "unresolved", "provisional", "settled"}
    /\ r.cost \in Nat /\ r.chain \in 1..n /\ r.estimate \in Nat /\ r.total \in Int /\ r.lower \in Int
    /\ r.reserve \in Int /\ (r.reserve # None => r.reserve >= r.estimate)
    /\ r.tail \in Int /\ (r.tail # None => r.tail >= r.estimate)
Kept(b) ==
    /\ Shaped(b) /\ b.balance \in Int /\ b.spent \in Int
    /\ \A n \in 1..Len(b.sessions) : RowTyped(b.sessions[n], n)

Costs(b) == [n \in 1..Len(b.sessions) |-> b.sessions[n].cost]
Charges(b) == Sum(Costs(b), 1..Len(b.sessions))

\* The books d after events that move no funds: whatever leaves the balance is
\* spent, and whatever is spent is charged to a session.
Balanced(c, d) ==
    /\ Kept(d) /\ Len(d.sessions) = Len(c.sessions)
    /\ d.balance + d.spent = c.balance + c.spent
    /\ d.spent - Charges(d) = c.spent - Charges(c)
    /\ d.rate = c.rate /\ d.watermark = c.watermark
    /\ \A n \in 1..Len(c.sessions) : d.sessions[n].estimate = c.sessions[n].estimate

Charging(e) == e.type \in {"correction", "settle"}
\* An event that leaves a session open, with a reserve of no less than was estimated.
Leaves(b, e) ==
    /\ e.type = "unresolved" /\ e.id \in 1..Len(b.sessions) /\ e.status \in {"unresolved", "provisional"}
    /\ e.reserve \in Int /\ e.lower \in Int /\ e.tail \in Int
    /\ e.reserve # None => e.reserve >= b.sessions[e.id].estimate
    /\ e.tail # None => e.tail >= b.sessions[e.id].estimate
Chargeable(b, e) == e.id \in 1..Len(b.sessions) /\ e.cost \in Nat /\ e.total \in Int
Corrects(b, e) == e.type = "correction" /\ Chargeable(b, e) /\ e.delta = b.sessions[e.id].cost - e.cost
Settles(b, e) == e.type = "settle" /\ Chargeable(b, e)

LEMMA CostsAre ==
    ASSUME NEW b, Kept(b)
    PROVE  /\ Numbers(Costs(b), Len(b.sessions)) /\ Charges(b) \in Int
           /\ \A n \in 1..Len(b.sessions) : Costs(b)[n] = b.sessions[n].cost /\ b.sessions[n].cost \in Nat
  <1>1. Len(b.sessions) \in Nat
    BY DEF Kept, Shaped, Rows, Listed
  <1>2. \A n \in 1..Len(b.sessions) : Costs(b)[n] = b.sessions[n].cost /\ b.sessions[n].cost \in Nat
    BY DEF Costs, Kept, RowTyped
  <1>3. Costs(b) = [n \in 1..Len(b.sessions) |-> Costs(b)[n]]
    BY DEF Costs
  <1>4. Numbers(Costs(b), Len(b.sessions))
    BY <1>1, <1>2, <1>3 DEF Numbers
  <1> QED BY <1>2, <1>4, SumTyped DEF Charges

LEMMA RowReplaced ==
    ASSUME NEW c, Rows(c.sessions), NEW i \in 1..Len(c.sessions), NEW r, OfSession(r),
           NEW d, d.sessions = [c.sessions EXCEPT ![i] = r]
    PROVE  /\ Rows(d.sessions) /\ Len(d.sessions) = Len(c.sessions)
           /\ \A n \in 1..Len(c.sessions) : d.sessions[n] = IF n = i THEN r ELSE c.sessions[n]
  <1>1. PICK s, t : s = c.sessions /\ t = d.sessions
    OBVIOUS
  <1>2. Listed(s) /\ i \in 1..Len(s) /\ t = [s EXCEPT ![i] = r]
    BY <1>1 DEF Rows
  <1>3. Listed(t) /\ Len(t) = Len(s) /\ \A n \in 1..Len(s) : t[n] = IF n = i THEN r ELSE s[n]
    <2>1. Listed(t)
      BY <1>2, ListReplaced
    <2>2. Len(t) = Len(s)
      BY <1>2, ListReplaced
    <2>3. \A n \in 1..Len(s) : t[n] = IF n = i THEN r ELSE s[n]
      BY <1>2, ListReplaced
    <2> QED BY <2>1, <2>2, <2>3
  <1>4. \A n \in 1..Len(s) : OfSession(t[n])
    BY <1>1, <1>3 DEF Rows
  <1> QED BY <1>1, <1>3, <1>4 DEF Rows

LEMMA RowPriced ==
    ASSUME NEW c, Kept(c), NEW d, d = [f \in BookFields |-> d[f]],
           Rows(d.sessions), Len(d.sessions) = Len(c.sessions), NEW i \in 1..Len(c.sessions),
           \A n \in 1..Len(c.sessions) : n # i => d.sessions[n] = c.sessions[n],
           RowTyped(d.sessions[i], i), d.sessions[i].estimate = c.sessions[i].estimate,
           d.balance \in Int, d.spent \in Int, d.balance + d.spent = c.balance + c.spent,
           d.spent = c.spent + d.sessions[i].cost - c.sessions[i].cost,
           d.rate = c.rate, d.watermark = c.watermark
    PROVE  Balanced(c, d)
  <1>3. Kept(d)
    <2>1. \A n \in 1..Len(d.sessions) : RowTyped(d.sessions[n], n)
      BY DEF Kept
    <2> QED BY <2>1 DEF Kept, Shaped
  <1>4. /\ Numbers(Costs(c), Len(c.sessions)) /\ Numbers(Costs(d), Len(c.sessions))
        /\ Charges(c) \in Int /\ Charges(d) \in Int
        /\ \A n \in 1..Len(c.sessions) : Costs(d)[n] = d.sessions[n].cost /\ Costs(c)[n] = c.sessions[n].cost
        /\ c.sessions[i].cost \in Nat /\ c.spent \in Int
    <2>1. /\ Numbers(Costs(c), Len(c.sessions)) /\ Charges(c) \in Int
          /\ \A n \in 1..Len(c.sessions) : Costs(c)[n] = c.sessions[n].cost /\ c.sessions[n].cost \in Nat
      BY CostsAre
    <2>2. /\ Numbers(Costs(d), Len(d.sessions)) /\ Charges(d) \in Int
          /\ \A n \in 1..Len(d.sessions) : Costs(d)[n] = d.sessions[n].cost
      BY <1>3, CostsAre
    <2> QED BY <2>1, <2>2 DEF Kept
  <1>5. Sum(Costs(d), 1..Len(c.sessions)) = Sum(Costs(c), 1..Len(c.sessions)) + Costs(d)[i] - Costs(c)[i]
    <2>1. \A n \in 1..Len(c.sessions) : n # i => Costs(d)[n] = Costs(c)[n]
      BY <1>4
    <2> QED BY <1>4, <2>1, SumReplaced
  <1>6. Charges(d) = Charges(c) + d.sessions[i].cost - c.sessions[i].cost
    BY <1>4, <1>5 DEF Charges
  <1>7. d.spent - Charges(d) = c.spent - Charges(c)
    <2>1. d.sessions[i].cost \in Nat
      BY DEF RowTyped
    <2> QED BY <1>4, <1>6, <2>1, SMTT(60)
  <1> QED BY <1>3, <1>7 DEF Balanced

LEMMA EventPriced ==
    ASSUME NEW c, Kept(c), NEW e,
           \/ e.type = "cooldown"
           \/ Leaves(c, e)
           \/ Corrects(c, e)
           \/ Settles(c, e) /\ c.sessions[e.id].cost = 0
    PROVE  /\ Balanced(c, Replay(c, e))
           /\ \A n \in 1..Len(c.sessions) :
                Replay(c, e).sessions[n].cost = IF Charging(e) /\ e.id = n THEN e.cost ELSE c.sessions[n].cost
  <1> DEFINE d == Replay(c, e)
  <1> SUFFICES /\ Balanced(c, d)
               /\ \A n \in 1..Len(c.sessions) :
                    d.sessions[n].cost = IF Charging(e) /\ e.id = n THEN e.cost ELSE c.sessions[n].cost
    OBVIOUS
  <1>0. c = [f \in BookFields |-> c[f]] /\ Rows(c.sessions) /\ c.balance \in Int /\ c.spent \in Int
    BY DEF Kept, Shaped
  <1>1. CASE e.type = "cooldown"
    <2>1. /\ d = [f \in BookFields |-> d[f]] /\ d.sessions = c.sessions /\ d.balance = c.balance
          /\ d.spent = c.spent /\ d.rate = c.rate /\ d.watermark = c.watermark
      BY <1>0, <1>1 DEF Replay, Cool, BookFields
    <2> HIDE DEF d
    <2>2. Charges(d) = Charges(c)
      BY <2>1 DEF Charges, Costs
    <2>3. Kept(d)
      BY <2>1 DEF Kept, Shaped
    <2>4. ~Charging(e)
      BY <1>1 DEF Charging
    <2> QED BY <2>1, <2>2, <2>3, <2>4 DEF Balanced
  <1>2. CASE Corrects(c, e)
    <2> DEFINE o == c.sessions[e.id]
               r == Revised(o, e)
    <2>1. /\ e.type = "correction" /\ e.id \in 1..Len(c.sessions) /\ e.cost \in Nat /\ e.total \in Int
          /\ e.delta = c.sessions[e.id].cost - e.cost
      BY <1>2 DEF Corrects, Chargeable
    <2>2. OfSession(o) /\ RowTyped(o, e.id)
      BY <1>0, <2>1 DEF Rows, Kept
    <2>3. /\ OfSession(r) /\ r.status = o.status /\ r.cost = e.cost /\ r.chain = o.chain /\ r.estimate = o.estimate
          /\ r.total = (IF e.total = None THEN o.total ELSE e.total)
          /\ r.lower = o.lower /\ r.reserve = o.reserve /\ r.tail = o.tail
      <3> HIDE DEF o
      <3> QED BY <2>2 DEF OfSession, SessionFields, Revised
    <2>4. RowTyped(r, e.id)
      <3> HIDE DEF o, r
      <3> QED BY <2>1, <2>2, <2>3 DEF RowTyped
    <2>5. /\ d = [f \in BookFields |-> d[f]] /\ d.sessions = [c.sessions EXCEPT ![e.id] = r]
          /\ d.balance = c.balance + e.delta /\ d.spent = c.spent - e.delta
          /\ d.rate = c.rate /\ d.watermark = c.watermark
      <3>0. d = Correct(c, e)
        BY <2>1 DEF Replay
      <3>1. d = [c EXCEPT !.balance = @ + e.delta, !.spent = @ - e.delta, !.sessions[e.id] = r]
        BY <3>0 DEF Correct
      <3> HIDE DEF d, r
      <3> QED BY <1>0, <2>1, <3>1 DEF BookFields, Rows, Listed
    <2>6. c.sessions[e.id].cost \in Nat
      BY <2>2 DEF RowTyped
    <2> HIDE DEF d, r, o
    <2>7. /\ d.balance \in Int /\ d.spent \in Int /\ d.balance + d.spent = c.balance + c.spent
          /\ d.spent = c.spent + r.cost - c.sessions[e.id].cost
      <3>0. c.sessions[e.id].cost \in Nat /\ r.cost \in Nat /\ c.balance \in Int /\ c.spent \in Int
        BY <1>0, <2>1, <2>3, <2>6
      <3>1. PICK x \in Nat, y \in Nat, p \in Int, q \in Int :
                   c.sessions[e.id].cost = x /\ r.cost = y /\ c.balance = p /\ c.spent = q
        BY <3>0, Zenon
      <3>2. d.balance = p + (x - y) /\ d.spent = q - (x - y)
        BY <2>1, <2>3, <2>5, <3>1
      <3> QED BY <3>1, <3>2
    <2>8. Balanced(c, d) /\ \A n \in 1..Len(c.sessions) : d.sessions[n] = IF n = e.id THEN r ELSE c.sessions[n]
      <3>1. /\ Rows(d.sessions) /\ Len(d.sessions) = Len(c.sessions)
            /\ \A n \in 1..Len(c.sessions) : d.sessions[n] = IF n = e.id THEN r ELSE c.sessions[n]
        <4>1. Rows(c.sessions) /\ e.id \in 1..Len(c.sessions) /\ OfSession(r) /\ d.sessions = [c.sessions EXCEPT ![e.id] = r]
          BY <1>0, <2>1, <2>3, <2>5
        <4>2. Rows(d.sessions)
          BY <4>1, RowReplaced
        <4>3. Len(d.sessions) = Len(c.sessions)
          BY <4>1, RowReplaced
        <4>4. \A n \in 1..Len(c.sessions) : d.sessions[n] = IF n = e.id THEN r ELSE c.sessions[n]
          BY <4>1, RowReplaced
        <4> QED BY <4>2, <4>3, <4>4
      <3>2. d.sessions[e.id] = r /\ r.estimate = c.sessions[e.id].estimate
        BY <2>1, <2>3, <3>1 DEF o
      <3>3. /\ RowTyped(d.sessions[e.id], e.id) /\ d.sessions[e.id].estimate = c.sessions[e.id].estimate
            /\ d.spent = c.spent + d.sessions[e.id].cost - c.sessions[e.id].cost
            /\ \A n \in 1..Len(c.sessions) : n # e.id => d.sessions[n] = c.sessions[n]
        BY <2>1, <2>4, <2>7, <3>1, <3>2
      <3>4. Balanced(c, d)
        BY <2>1, <2>5, <2>7, <3>1, <3>3, RowPriced
      <3> QED BY <3>1, <3>4
    <2>9. Charging(e)
      BY <2>1 DEF Charging
    <2> QED BY <2>3, <2>8, <2>9
  <1>3. CASE Settles(c, e) /\ c.sessions[e.id].cost = 0
    <2> DEFINE o == c.sessions[e.id]
               r == [o EXCEPT !.status = "settled", !.cost = e.cost, !.provenance = e.provenance, !.total = e.total]
    <2>1. e.type = "settle" /\ e.id \in 1..Len(c.sessions) /\ e.cost \in Nat /\ e.total \in Int /\ o.cost = 0
      BY <1>3 DEF Settles, Chargeable
    <2>2. OfSession(o) /\ RowTyped(o, e.id)
      BY <1>0, <2>1 DEF Rows, Kept
    <2>3. /\ OfSession(r) /\ r.status = "settled" /\ r.cost = e.cost /\ r.chain = o.chain /\ r.estimate = o.estimate
          /\ r.total = e.total /\ r.lower = o.lower /\ r.reserve = o.reserve /\ r.tail = o.tail
      <3> HIDE DEF o
      <3> QED BY <2>2 DEF OfSession, SessionFields
    <2>4. RowTyped(r, e.id)
      <3> HIDE DEF o, r
      <3> QED BY <2>1, <2>2, <2>3 DEF RowTyped
    <2>5. /\ d = [f \in BookFields |-> d[f]] /\ d.sessions = [c.sessions EXCEPT ![e.id] = r]
          /\ d.balance = c.balance - e.cost /\ d.spent = c.spent + e.cost
          /\ d.rate = c.rate /\ d.watermark = c.watermark
      <3>0. d = Settlement(c, e)
        BY <2>1 DEF Replay
      <3>1. d = [c EXCEPT !.balance = @ - e.cost, !.spent = @ + e.cost, !.sessions[e.id] = r]
        BY <3>0 DEF Settlement
      <3> HIDE DEF d, r
      <3> QED BY <1>0, <2>1, <3>1 DEF BookFields, Rows, Listed
    <2> HIDE DEF d, r
    <2>7. /\ d.balance \in Int /\ d.spent \in Int /\ d.balance + d.spent = c.balance + c.spent
          /\ d.spent = c.spent + r.cost - c.sessions[e.id].cost
      <3>0. c.sessions[e.id].cost \in Nat /\ r.cost \in Nat /\ c.balance \in Int /\ c.spent \in Int
        BY <1>0, <2>1, <2>3
      <3>1. PICK x \in Nat, y \in Nat, p \in Int, q \in Int :
                   c.sessions[e.id].cost = x /\ r.cost = y /\ c.balance = p /\ c.spent = q
        BY <3>0, Zenon
      <3>2. d.balance = p - y /\ d.spent = q + y /\ x = 0
        BY <2>1, <2>3, <2>5, <3>1
      <3> QED BY <3>1, <3>2
    <2> HIDE DEF o
    <2>8. Balanced(c, d) /\ \A n \in 1..Len(c.sessions) : d.sessions[n] = IF n = e.id THEN r ELSE c.sessions[n]
      <3>1. /\ Rows(d.sessions) /\ Len(d.sessions) = Len(c.sessions)
            /\ \A n \in 1..Len(c.sessions) : d.sessions[n] = IF n = e.id THEN r ELSE c.sessions[n]
        <4>1. Rows(c.sessions) /\ e.id \in 1..Len(c.sessions) /\ OfSession(r) /\ d.sessions = [c.sessions EXCEPT ![e.id] = r]
          BY <1>0, <2>1, <2>3, <2>5
        <4>2. Rows(d.sessions)
          BY <4>1, RowReplaced
        <4>3. Len(d.sessions) = Len(c.sessions)
          BY <4>1, RowReplaced
        <4>4. \A n \in 1..Len(c.sessions) : d.sessions[n] = IF n = e.id THEN r ELSE c.sessions[n]
          BY <4>1, RowReplaced
        <4> QED BY <4>2, <4>3, <4>4
      <3>2. d.sessions[e.id] = r /\ r.estimate = c.sessions[e.id].estimate
        BY <2>1, <2>3, <3>1 DEF o
      <3>3. /\ RowTyped(d.sessions[e.id], e.id) /\ d.sessions[e.id].estimate = c.sessions[e.id].estimate
            /\ d.spent = c.spent + d.sessions[e.id].cost - c.sessions[e.id].cost
            /\ \A n \in 1..Len(c.sessions) : n # e.id => d.sessions[n] = c.sessions[n]
        BY <2>1, <2>4, <2>7, <3>1, <3>2
      <3>4. Balanced(c, d)
        BY <2>1, <2>5, <2>7, <3>1, <3>3, RowPriced
      <3> QED BY <3>1, <3>4
    <2>9. Charging(e)
      BY <2>1 DEF Charging
    <2> QED BY <2>3, <2>8, <2>9
  <1>4. CASE Leaves(c, e)
    <2> DEFINE o == c.sessions[e.id]
               r == Reserving(o, e)
    <2>1. /\ e.type = "unresolved" /\ e.id \in 1..Len(c.sessions) /\ e.status \in {"unresolved", "provisional"}
          /\ e.reserve \in Int /\ e.lower \in Int /\ e.tail \in Int
          /\ e.reserve # None => e.reserve >= o.estimate
          /\ e.tail # None => e.tail >= o.estimate
      BY <1>4 DEF Leaves
    <2>2. OfSession(o) /\ RowTyped(o, e.id)
      BY <1>0, <2>1 DEF Rows, Kept
    <2>3. /\ OfSession(r) /\ r.status = e.status /\ r.cost = o.cost /\ r.chain = o.chain /\ r.estimate = o.estimate
          /\ r.total = o.total
          /\ r.reserve = (IF e.reserve = None THEN o.reserve ELSE e.reserve)
          /\ r.lower = (IF e.reserve = None THEN o.lower ELSE e.lower)
          /\ r.tail = (IF e.tail = None THEN o.tail ELSE e.tail)
      <3> HIDE DEF o
      <3> QED BY <2>2 DEF OfSession, SessionFields, Reserving
    <2>4. RowTyped(r, e.id)
      <3> HIDE DEF o, r
      <3> QED BY <2>1, <2>2, <2>3 DEF RowTyped
    <2>5. /\ d = [f \in BookFields |-> d[f]] /\ d.sessions = [c.sessions EXCEPT ![e.id] = r]
          /\ d.balance = c.balance /\ d.spent = c.spent
          /\ d.rate = c.rate /\ d.watermark = c.watermark
      <3>0. d = Unresolved(c, e)
        BY <2>1 DEF Replay
      <3>1. d = [c EXCEPT !.sessions[e.id] = r]
        BY <3>0 DEF Unresolved
      <3> HIDE DEF d, r
      <3> QED BY <1>0, <2>1, <3>1 DEF BookFields, Rows, Listed
    <2>6. o.cost \in Nat
      BY <2>2 DEF RowTyped
    <2> HIDE DEF d, r
    <2>7. /\ d.balance \in Int /\ d.spent \in Int /\ d.balance + d.spent = c.balance + c.spent
          /\ d.spent = c.spent + r.cost - c.sessions[e.id].cost
      <3>0. c.sessions[e.id].cost \in Nat /\ r.cost \in Nat /\ c.balance \in Int /\ c.spent \in Int
        BY <1>0, <2>1, <2>3, <2>6
      <3>1. PICK x \in Nat, y \in Nat, p \in Int, q \in Int :
                   c.sessions[e.id].cost = x /\ r.cost = y /\ c.balance = p /\ c.spent = q
        BY <3>0, Zenon
      <3>2. d.balance = p /\ d.spent = q /\ x = y
        BY <2>3, <2>5, <3>1
      <3> QED BY <3>1, <3>2
    <2> HIDE DEF o
    <2>8. Balanced(c, d) /\ \A n \in 1..Len(c.sessions) : d.sessions[n] = IF n = e.id THEN r ELSE c.sessions[n]
      <3>1. /\ Rows(d.sessions) /\ Len(d.sessions) = Len(c.sessions)
            /\ \A n \in 1..Len(c.sessions) : d.sessions[n] = IF n = e.id THEN r ELSE c.sessions[n]
        <4>1. Rows(c.sessions) /\ e.id \in 1..Len(c.sessions) /\ OfSession(r) /\ d.sessions = [c.sessions EXCEPT ![e.id] = r]
          BY <1>0, <2>1, <2>3, <2>5
        <4>2. Rows(d.sessions)
          BY <4>1, RowReplaced
        <4>3. Len(d.sessions) = Len(c.sessions)
          BY <4>1, RowReplaced
        <4>4. \A n \in 1..Len(c.sessions) : d.sessions[n] = IF n = e.id THEN r ELSE c.sessions[n]
          BY <4>1, RowReplaced
        <4> QED BY <4>2, <4>3, <4>4
      <3>2. d.sessions[e.id] = r /\ r.estimate = c.sessions[e.id].estimate
        BY <2>1, <2>3, <3>1 DEF o
      <3>3. /\ RowTyped(d.sessions[e.id], e.id) /\ d.sessions[e.id].estimate = c.sessions[e.id].estimate
            /\ d.spent = c.spent + d.sessions[e.id].cost - c.sessions[e.id].cost
            /\ \A n \in 1..Len(c.sessions) : n # e.id => d.sessions[n] = c.sessions[n]
        BY <2>1, <2>4, <2>7, <3>1, <3>2
      <3>4. Balanced(c, d)
        BY <2>1, <2>5, <2>7, <3>1, <3>3, RowPriced
      <3> QED BY <3>1, <3>4
    <2>9. ~Charging(e)
      BY <2>1 DEF Charging
    <2> QED BY <2>3, <2>8, <2>9 DEF o
  <1> QED BY <1>1, <1>2, <1>3, <1>4

LEMMA SeqOf ==
    ASSUME NEW n \in Nat, NEW X, NEW s \in [1..n -> X] PROVE s \in Seq(X) /\ Len(s) = n
  <1>1. s \in UNION {[1..k -> X] : k \in Nat}
    OBVIOUS
  <1>2. s \in Seq(X)
    BY <1>1, SeqDef, Zenon
  <1> QED BY <1>2

LEMMA Joined ==
    ASSUME NEW X, NEW u \in Seq(X), NEW v \in Seq(X)
    PROVE  /\ u \o v \in Seq(X) /\ Len(u \o v) = Len(u) + Len(v) /\ Len(u) \in Nat /\ Len(v) \in Nat
           /\ \A k \in 1..Len(u) : (u \o v)[k] = u[k]
           /\ \A k \in 1..Len(v) : (u \o v)[Len(u) + k] = v[k]
  <1>1. u \o v \in Seq(X) /\ Len(u \o v) = Len(u) + Len(v) /\ Len(u) \in Nat /\ Len(v) \in Nat
    OBVIOUS
  <1>2. ASSUME NEW k \in 1..Len(u) PROVE (u \o v)[k] = u[k]
    BY <1>1
  <1>3. ASSUME NEW k \in 1..Len(v) PROVE (u \o v)[Len(u) + k] = v[k]
    <2>1. Len(u) + k \in 1..Len(u) + Len(v) /\ ~(Len(u) + k <= Len(u)) /\ (Len(u) + k) - Len(u) = k
      BY <1>1
    <2> QED BY <1>1, <2>1, ConcatProperties
  <1> QED BY <1>1, <1>2, <1>3

\* A replay begins with the first event and ends with the last.
LEMMA ReplayedFirst ==
    ASSUME NEW b, NEW e, NEW X, NEW u \in Seq(X)
    PROVE  Replayed(b, <<e>> \o u) = Replayed(Replay(b, e), u)
  <1> DEFINE Y == X \cup {e}
             all == <<e>> \o u
  <1>1. /\ Len(u) \in Nat /\ Len(all) = Len(u) + 1 /\ all[1] = e
        /\ \A k \in 1..Len(u) : all[k + 1] = u[k]
    <2>1. u \in Seq(Y) /\ <<e>> \in Seq(Y)
      BY SeqMonotonic
    <2> HIDE DEF Y
    <2>2. Len(<<e>>) = 1 /\ <<e>>[1] = e
      OBVIOUS
    <2>3. /\ Len(all) = Len(<<e>>) + Len(u) /\ Len(u) \in Nat
          /\ \A k \in 1..Len(<<e>>) : all[k] = <<e>>[k]
          /\ \A k \in 1..Len(u) : all[Len(<<e>>) + k] = u[k]
      BY <2>1, Joined
    <2>4. \A k \in 1..Len(u) : 1 + k = k + 1
      BY <2>3
    <2> HIDE DEF all
    <2> QED BY <2>2, <2>3, <2>4
  <1> HIDE DEF all
  <1>2. PICK f : /\ f = [k \in 0..Len(all) |-> IF k = 0 THEN b ELSE Replay(f[k - 1], all[k])]
                 /\ Replayed(b, all) = f[Len(all)]
    <2>1. Len(all) \in Nat
      BY <1>1
    <2> QED BY <2>1, ReplayedIs
  <1>3. PICK g : /\ g = [k \in 0..Len(u) |-> IF k = 0 THEN Replay(b, e) ELSE Replay(g[k - 1], u[k])]
                 /\ Replayed(Replay(b, e), u) = g[Len(u)]
    BY <1>1, ReplayedIs
  <1>4. f[0] = b /\ \A k \in 1..Len(all) : f[k] = Replay(f[k - 1], all[k])
    BY <1>1, <1>2
  <1>5. g[0] = Replay(b, e) /\ \A k \in 1..Len(u) : g[k] = Replay(g[k - 1], u[k])
    BY <1>1, <1>3
  <1> DEFINE T == {k \in Nat : k <= Len(u) => f[k + 1] = g[k]}
  <1>6. 0 \in T /\ T \subseteq Nat
    <2>1. 1 \in 1..Len(all) /\ 1 - 1 = 0 /\ 0 + 1 = 1
      BY <1>1
    <2>2. f[1] = Replay(b, e)
      BY <1>1, <1>4, <2>1
    <2> QED BY <1>5, <2>1, <2>2
  <1>7. ASSUME NEW k \in T PROVE k + 1 \in T
    <2>1. CASE k + 1 <= Len(u)
      <3>1. /\ k + 1 \in 1..Len(u) /\ (k + 1) - 1 = k /\ k <= Len(u)
            /\ (k + 1) + 1 \in 1..Len(all) /\ ((k + 1) + 1) - 1 = k + 1
        BY <1>1, <2>1
      <3>2. f[(k + 1) + 1] = Replay(f[k + 1], all[(k + 1) + 1]) /\ all[(k + 1) + 1] = u[k + 1]
        BY <1>1, <1>4, <3>1
      <3>3. g[k + 1] = Replay(g[k], u[k + 1]) /\ f[k + 1] = g[k]
        BY <1>5, <3>1
      <3>4. f[(k + 1) + 1] = g[k + 1]
        BY <3>2, <3>3
      <3> QED BY <3>4
    <2> QED BY <2>1
  <1>8. T = Nat
    <2> HIDE DEF T
    <2> QED BY <1>6, <1>7, Counting
  <1>9. f[Len(u) + 1] = g[Len(u)]
    BY <1>1, <1>8
  <1> QED BY <1>1, <1>2, <1>3, <1>9 DEF all

LEMMA ReplayedLast ==
    ASSUME NEW b, NEW e, NEW X, NEW u \in Seq(X)
    PROVE  Replayed(b, u \o <<e>>) = Replay(Replayed(b, u), e)
  <1> DEFINE Y == X \cup {e}
             all == u \o <<e>>
  <1>1. /\ Len(u) \in Nat /\ Len(all) = Len(u) + 1 /\ all[Len(u) + 1] = e
        /\ \A k \in 1..Len(u) : all[k] = u[k]
    <2>1. u \in Seq(Y) /\ <<e>> \in Seq(Y)
      BY SeqMonotonic
    <2> HIDE DEF Y
    <2>2. Len(<<e>>) = 1 /\ <<e>>[1] = e
      OBVIOUS
    <2>3. /\ Len(all) = Len(u) + Len(<<e>>) /\ Len(u) \in Nat
          /\ \A k \in 1..Len(u) : all[k] = u[k]
          /\ \A k \in 1..Len(<<e>>) : all[Len(u) + k] = <<e>>[k]
      BY <2>1, Joined
    <2>4. 1 \in 1..Len(<<e>>)
      BY <2>2
    <2> HIDE DEF all
    <2> QED BY <2>2, <2>3, <2>4
  <1> HIDE DEF all
  <1>2. PICK f : /\ f = [k \in 0..Len(all) |-> IF k = 0 THEN b ELSE Replay(f[k - 1], all[k])]
                 /\ Replayed(b, all) = f[Len(all)]
    <2>1. Len(all) \in Nat
      BY <1>1
    <2> QED BY <2>1, ReplayedIs
  <1>3. PICK g : /\ g = [k \in 0..Len(u) |-> IF k = 0 THEN b ELSE Replay(g[k - 1], u[k])]
                 /\ Replayed(b, u) = g[Len(u)]
    BY <1>1, ReplayedIs
  <1>4. f[0] = b /\ \A k \in 1..Len(all) : f[k] = Replay(f[k - 1], all[k])
    BY <1>1, <1>2
  <1>5. g[0] = b /\ \A k \in 1..Len(u) : g[k] = Replay(g[k - 1], u[k])
    BY <1>1, <1>3
  <1> DEFINE T == {k \in Nat : k <= Len(u) => f[k] = g[k]}
  <1>6. 0 \in T /\ T \subseteq Nat
    BY <1>4, <1>5
  <1>7. ASSUME NEW k \in T PROVE k + 1 \in T
    <2>1. CASE k + 1 <= Len(u)
      <3>1. /\ k + 1 \in 1..Len(u) /\ (k + 1) - 1 = k /\ k <= Len(u)
            /\ k + 1 \in 1..Len(all)
        BY <1>1, <2>1
      <3>2. f[k + 1] = Replay(f[k], all[k + 1]) /\ all[k + 1] = u[k + 1]
        BY <1>1, <1>4, <3>1
      <3>3. g[k + 1] = Replay(g[k], u[k + 1]) /\ f[k] = g[k]
        BY <1>5, <3>1
      <3>4. f[k + 1] = g[k + 1]
        BY <3>2, <3>3
      <3> QED BY <3>4
    <2> QED BY <2>1
  <1>8. T = Nat
    <2> HIDE DEF T
    <2> QED BY <1>6, <1>7, Counting
  <1>9. f[Len(u)] = g[Len(u)]
    BY <1>1, <1>8
  <1>10. f[Len(all)] = Replay(f[Len(u)], e)
    <2>1. Len(all) \in 1..Len(all) /\ Len(all) - 1 = Len(u)
      BY <1>1
    <2> QED BY <1>1, <1>4, <2>1
  <1> QED BY <1>2, <1>3, <1>9, <1>10 DEF all

-----------------------------------------------------------------------------
\* The k-th of these events owes nothing to the books b: what it puts on a
\* session is what it takes off the balance, since no other event charges that
\* session but the one that took an estimate back just before it was settled.
Owed(b, events, k) ==
    LET e == events[k]
        first == \A j \in 1..k - 1 : ~(Charging(events[j]) /\ events[j].id = e.id)
    IN  \/ e.type = "cooldown"
        \/ Leaves(b, e)
        \/ Corrects(b, e) /\ first
        \/ /\ Settles(b, e)
           /\ \/ b.sessions[e.id].cost = 0 /\ first
              \/ /\ k > 1 /\ events[k - 1].type = "correction"
                 /\ events[k - 1].id = e.id /\ events[k - 1].cost = 0
\* Such events, which charge no other sessions than these.
Bill(b, events, ids) ==
    /\ \E X : events \in Seq(X)
    /\ \A k \in 1..Len(events) : Owed(b, events, k) /\ (Charging(events[k]) => events[k].id \in ids)

LEMMA BalancedItself == ASSUME NEW b, Kept(b) PROVE Balanced(b, b)
  BY DEF Balanced

LEMMA BalancedOn ==
    ASSUME NEW b, Kept(b), NEW c, Balanced(b, c), NEW d, Balanced(c, d) PROVE Balanced(b, d)
  <1>1. Kept(c) /\ Charges(b) \in Int /\ Charges(c) \in Int /\ Charges(d) \in Int
    BY CostsAre DEF Balanced
  <1>2. b.balance \in Int /\ c.balance \in Int /\ d.balance \in Int /\ b.spent \in Int /\ c.spent \in Int /\ d.spent \in Int
    BY <1>1 DEF Kept, Balanced
  <1> QED BY <1>1, <1>2 DEF Balanced

LEMMA BillReplayed ==
    ASSUME NEW b, Kept(b), NEW events, NEW ids, Bill(b, events, ids)
    PROVE  Balanced(b, Replayed(b, events))
  <1>0. Len(events) \in Nat
    BY DEF Bill
  <1>1. PICK f : /\ f = [k \in 0..Len(events) |-> IF k = 0 THEN b ELSE Replay(f[k - 1], events[k])]
                 /\ Replayed(b, events) = f[Len(events)]
    BY <1>0, ReplayedIs
  <1>2. f[0] = b /\ \A k \in 1..Len(events) : f[k] = Replay(f[k - 1], events[k])
    BY <1>0, <1>1
  <1> DEFINE Touched(n, k) == \E j \in 1..k : Charging(events[j]) /\ events[j].id = n
             Good(k) == /\ Balanced(b, f[k])
                        /\ \A n \in 1..Len(b.sessions) : ~Touched(n, k) => f[k].sessions[n].cost = b.sessions[n].cost
                        /\ k >= 1 /\ Charging(events[k]) => f[k].sessions[events[k].id].cost = events[k].cost
             T == {k \in Nat : k <= Len(events) => Good(k)}
  <1>3. 0 \in T /\ T \subseteq Nat
    BY <1>2, BalancedItself
  <1>4. ASSUME NEW k \in T PROVE k + 1 \in T
    <2>1. CASE k + 1 <= Len(events)
      <3>1. k + 1 \in 1..Len(events) /\ (k + 1) - 1 = k /\ k <= Len(events) /\ k \in Nat
        BY <1>0, <2>1
      <3> DEFINE c == f[k]
                 e == events[k + 1]
                 d == f[k + 1]
      <3>2. Good(k) /\ Owed(b, events, k + 1) /\ d = Replay(c, e)
        <4>1. Good(k)
          BY <3>1
        <4>2. Owed(b, events, k + 1)
          BY <3>1 DEF Bill
        <4>3. d = Replay(c, e)
          BY <1>2, <3>1
        <4> QED BY <4>1, <4>2, <4>3
      <3>3. /\ Kept(c) /\ Len(c.sessions) = Len(b.sessions)
            /\ \A n \in 1..Len(b.sessions) : c.sessions[n].estimate = b.sessions[n].estimate
        BY <3>2 DEF Balanced
      <3>4. \/ e.type = "cooldown"
            \/ Leaves(c, e)
            \/ Corrects(c, e)
            \/ Settles(c, e) /\ c.sessions[e.id].cost = 0
        <4>1. CASE e.type = "cooldown"
          BY <4>1
        <4>2. CASE Leaves(b, e)
          BY <3>3, <4>2 DEF Leaves
        <4>3. CASE Corrects(b, e) /\ \A j \in 1..k : ~(Charging(events[j]) /\ events[j].id = e.id)
          <5>1. e.id \in 1..Len(b.sessions) /\ ~Touched(e.id, k)
            BY <4>3 DEF Corrects, Chargeable
          <5>2. c.sessions[e.id].cost = b.sessions[e.id].cost
            BY <3>2, <5>1
          <5> HIDE DEF c, e
          <5> QED BY <3>3, <4>3, <5>2 DEF Corrects, Chargeable
        <4>4. CASE /\ Settles(b, e) /\ b.sessions[e.id].cost = 0
                   /\ \A j \in 1..k : ~(Charging(events[j]) /\ events[j].id = e.id)
          <5>1. e.id \in 1..Len(b.sessions) /\ ~Touched(e.id, k)
            BY <4>4 DEF Settles, Chargeable
          <5>2. c.sessions[e.id].cost = b.sessions[e.id].cost
            BY <3>2, <5>1
          <5> HIDE DEF c, e
          <5> QED BY <3>3, <4>4, <5>2 DEF Settles, Chargeable
        <4>5. CASE /\ Settles(b, e) /\ k + 1 > 1 /\ events[k].type = "correction"
                   /\ events[k].id = e.id /\ events[k].cost = 0
          <5>1. k >= 1 /\ Charging(events[k])
            BY <3>1, <4>5 DEF Charging
          <5>2. c.sessions[e.id].cost = 0
            BY <3>2, <4>5, <5>1
          <5> HIDE DEF c, e
          <5> QED BY <3>3, <4>5, <5>2 DEF Settles, Chargeable
        <4> HIDE DEF c, e
        <4> QED BY <3>1, <3>2, <4>1, <4>2, <4>3, <4>4, <4>5 DEF Owed, e
      <3> HIDE DEF c, e, d
      <3>5. Balanced(c, d)
        BY <3>2, <3>3, <3>4, EventPriced
      <3>6. \A n \in 1..Len(c.sessions) : d.sessions[n].cost = IF Charging(e) /\ e.id = n THEN e.cost ELSE c.sessions[n].cost
        BY <3>2, <3>3, <3>4, EventPriced
      <3>7. Balanced(b, d)
        BY <3>2, <3>5, BalancedOn DEF c
      <3>8. ASSUME NEW n \in 1..Len(b.sessions), ~Touched(n, k + 1) PROVE d.sessions[n].cost = b.sessions[n].cost
        <4>1. k + 1 \in 1..k + 1 /\ \A j \in 1..k : j \in 1..k + 1
          BY <3>1
        <4>2. ~(Charging(e) /\ e.id = n) /\ ~Touched(n, k)
          BY <3>8, <4>1 DEF e
        <4>3. c.sessions[n].cost = b.sessions[n].cost
          BY <3>2, <4>2 DEF c
        <4> QED BY <3>3, <3>6, <4>2, <4>3
      <3>9. Charging(e) => d.sessions[e.id].cost = e.cost
        <4>1. Charging(e) => e.id \in 1..Len(c.sessions)
          BY <3>4 DEF Charging, Leaves, Corrects, Settles, Chargeable
        <4> QED BY <3>6, <4>1
      <3>10. Good(k + 1)
        BY <3>7, <3>8, <3>9 DEF d, e
      <3> HIDE DEF Good
      <3> QED BY <3>1, <3>10
    <2> HIDE DEF Good
    <2> QED BY <2>1
  <1> HIDE DEF Good
  <1>5. T = Nat
    <2> HIDE DEF T
    <2> QED BY <1>3, <1>4, Counting
  <1>6. Good(Len(events))
    BY <1>0, <1>5
  <1> QED BY <1>1, <1>6 DEF Good

LEMMA NoBill == ASSUME NEW b PROVE Bill(b, << >>, {})
  <1>1. << >> \in Seq({})
    OBVIOUS
  <1>2. Len(<< >>) = 0
    OBVIOUS
  <1> DEFINE s == << >>
  <1>3. s \in Seq({}) /\ Len(s) = 0
    BY <1>1, <1>2
  <1> HIDE DEF s
  <1>4. Bill(b, s, {})
    BY <1>3 DEF Bill
  <1> QED BY <1>4 DEF s

LEMMA OneBill ==
    ASSUME NEW b, NEW e, NEW ids,
           \/ e.type = "cooldown"
           \/ Leaves(b, e)
           \/ Corrects(b, e) /\ e.id \in ids
           \/ Settles(b, e) /\ b.sessions[e.id].cost = 0 /\ e.id \in ids
    PROVE  Bill(b, <<e>>, ids)
  <1> DEFINE s == <<e>>
             X == {e}
  <1>1. s \in Seq(X) /\ Len(s) = 1 /\ s[1] = e
    OBVIOUS
  <1> HIDE DEF s, X
  <1>2. \A k \in 1..Len(s) : k = 1 /\ 1..k - 1 = {}
    BY <1>1
  <1>3. Charging(e) => e.id \in ids
    BY DEF Charging, Leaves, Corrects, Settles
  <1>4. \A k \in 1..Len(s) : Owed(b, s, k)
    <2> SUFFICES ASSUME NEW k \in 1..Len(s) PROVE Owed(b, s, k)
      OBVIOUS
    <2>1. s[k] = e /\ 1..k - 1 = {}
      BY <1>1, <1>2
    <2> QED BY <2>1 DEF Owed
  <1>5. Bill(b, s, ids)
    BY <1>1, <1>2, <1>3, <1>4 DEF Bill
  <1> QED BY <1>5 DEF s

\* The estimate of a session is taken back, and the session settled.
LEMMA SettleBill ==
    ASSUME NEW b, NEW e, NEW t, Settles(b, t), Corrects(b, e), e.id = t.id, e.cost = 0
    PROVE  Bill(b, <<e>> \o <<t>>, {t.id})
  <1> DEFINE X == {e, t}
             s == <<e>> \o <<t>>
  <1>1. s \in Seq(X) /\ Len(s) = 2 /\ s[1] = e /\ s[2] = t
    <2>1. s = <<e, t>>
      BY PairJoined
    <2> QED BY <2>1
  <1> HIDE DEF s, X
  <1>2. e.type = "correction" /\ t.type = "settle"
    BY DEF Corrects, Settles
  <1>3. Owed(b, s, 1)
    <2>1. 1..1 - 1 = {}
      OBVIOUS
    <2> QED BY <1>1, <2>1 DEF Owed
  <1>4. Owed(b, s, 2)
    <2>1. 2 - 1 = 1 /\ 2 > 1
      OBVIOUS
    <2> QED BY <1>1, <1>2, <2>1 DEF Owed
  <1>5. \A k \in 1..Len(s) : k = 1 \/ k = 2
    BY <1>1
  <1>6. Bill(b, s, {t.id})
    BY <1>1, <1>3, <1>4, <1>5 DEF Bill
  <1> QED BY <1>6 DEF s

LEMMA BillsJoined ==
    ASSUME NEW b, NEW u, NEW v, NEW P, NEW Q, Bill(b, u, P), Bill(b, v, Q), P \cap Q = {}
    PROVE  Bill(b, u \o v, P \cup Q)
  <1> DEFINE w == u \o v
  <1>1. PICK X : u \in Seq(X)
    BY DEF Bill
  <1>2. PICK Y : v \in Seq(Y)
    BY DEF Bill
  <1>3. u \in Seq(X \cup Y) /\ v \in Seq(X \cup Y)
    BY <1>1, <1>2, SeqMonotonic
  <1>4. /\ w \in Seq(X \cup Y) /\ Len(w) = Len(u) + Len(v) /\ Len(u) \in Nat /\ Len(v) \in Nat
        /\ \A k \in 1..Len(u) : w[k] = u[k]
        /\ \A k \in 1..Len(v) : w[Len(u) + k] = v[k]
    BY <1>3, Joined
  <1> HIDE DEF w
  <1>5. ASSUME NEW k \in 1..Len(w) PROVE Owed(b, w, k) /\ (Charging(w[k]) => w[k].id \in P \cup Q)
    <2>1. CASE k \in 1..Len(u)
      <3>1. /\ w[k] = u[k] /\ Owed(b, u, k) /\ (Charging(u[k]) => u[k].id \in P)
            /\ \A j \in 1..k - 1 : w[j] = u[j]
            /\ k > 1 => w[k - 1] = u[k - 1]
        BY <1>4, <2>1, SMTT(60) DEF Bill
      <3>2. Owed(b, w, k)
        BY <3>1 DEF Owed
      <3> QED BY <3>1, <3>2
    <2>2. CASE k \notin 1..Len(u)
      <3> DEFINE i == k - Len(u)
      <3>1. i \in 1..Len(v) /\ k = Len(u) + i /\ w[k] = v[i]
        BY <1>4, <2>2
      <3>2. Owed(b, v, i) /\ (Charging(v[i]) => v[i].id \in Q)
        BY <3>1 DEF Bill
      <3>3. i > 1 => k > 1 /\ w[k - 1] = v[i - 1]
        <4> SUFFICES ASSUME i > 1 PROVE k > 1 /\ w[k - 1] = v[i - 1]
          OBVIOUS
        <4>1. i - 1 \in 1..Len(v) /\ k - 1 = Len(u) + (i - 1) /\ k > 1
          BY <1>4, <3>1
        <4> HIDE DEF i
        <4> QED BY <1>4, <4>1
      <3>4. ASSUME NEW j \in 1..k - 1, Charging(v[i]), Charging(w[j]), w[j].id = v[i].id,
                   \A m \in 1..i - 1 : ~(Charging(v[m]) /\ v[m].id = v[i].id)
            PROVE  FALSE
        <4>1. CASE j \in 1..Len(u)
          <5>1. w[j].id \in P
            BY <1>4, <3>4, <4>1 DEF Bill
          <5> QED BY <3>2, <3>4, <5>1
        <4>2. CASE j \notin 1..Len(u)
          <5>1. j - Len(u) \in 1..i - 1 /\ j - Len(u) \in 1..Len(v) /\ j = Len(u) + (j - Len(u))
            BY <1>4, <3>1, <4>2
          <5>2. w[j] = v[j - Len(u)]
            BY <1>4, <5>1
          <5> QED BY <3>4, <5>1, <5>2
        <4> QED BY <4>1, <4>2
      <3>5. (Charging(v[i]) /\ \A m \in 1..i - 1 : ~(Charging(v[m]) /\ v[m].id = v[i].id))
              => \A j \in 1..k - 1 : ~(Charging(w[j]) /\ w[j].id = v[i].id)
        BY <3>4
      <3> HIDE DEF i
      <3>6. Corrects(b, v[i]) \/ Settles(b, v[i]) => Charging(v[i])
        BY DEF Corrects, Settles, Charging
      <3>7. Owed(b, w, k)
        BY <3>1, <3>2, <3>3, <3>5, <3>6 DEF Owed
      <3> QED BY <3>1, <3>2, <3>7
    <2> QED BY <2>1, <2>2
  <1>6. Bill(b, w, P \cup Q)
    BY <1>4, <1>5 DEF Bill
  <1> QED BY <1>6 DEF w

\* A list of corrections, one for each of these sessions at most.
LEMMA ListBill ==
    ASSUME NEW b, NEW n \in Nat, NEW events, events = [k \in 1..n |-> events[k]], NEW ids,
           \A k \in 1..n : Leaves(b, events[k]) \/ (Corrects(b, events[k]) /\ events[k].id \in ids),
           \A j, k \in 1..n : j < k => events[j].id # events[k].id
    PROVE  Bill(b, events, ids)
  <1> DEFINE X == {events[k] : k \in 1..n}
  <1>1. events \in Seq(X) /\ Len(events) = n
    <2>1. events \in [1..n -> X]
      OBVIOUS
    <2> HIDE DEF X
    <2> QED BY <2>1, SeqOf
  <1> HIDE DEF X
  <1>2. ASSUME NEW k \in 1..n PROVE Owed(b, events, k) /\ (Charging(events[k]) => events[k].id \in ids)
    <2>1. \A j \in 1..k - 1 : j \in 1..n /\ j < k
      OBVIOUS
    <2>2. \A j \in 1..k - 1 : events[j].id # events[k].id
      BY <2>1
    <2>3. Owed(b, events, k)
      BY <2>2 DEF Owed
    <2>4. Charging(events[k]) => events[k].id \in ids
      BY DEF Charging, Leaves
    <2> QED BY <2>3, <2>4
  <1> QED BY <1>1, <1>2 DEF Bill

\* The events owe as much to any books with these sessions.
LEMMA SameBill ==
    ASSUME NEW b, NEW c, c.sessions = b.sessions, NEW events, NEW ids, Bill(b, events, ids)
    PROVE  Bill(c, events, ids)
  <1>1. \A k \in 1..Len(events) : Owed(b, events, k) => Owed(c, events, k)
    BY DEF Owed, Leaves, Corrects, Settles, Chargeable
  <1> QED BY <1>1 DEF Bill

-----------------------------------------------------------------------------
(* The invariant of the books. *)

Holds(b) == Sum([n \in 1..Len(b.sessions) |-> Held(b, n)], 1..Len(b.sessions))

BooksInv ==
    /\ Kept(book)
    /\ book.rate \in 0..1 /\ book.watermark \in 0..scope.clock /\ clock \in 0..scope.clock
    /\ granted \in Int /\ earned \subseteq 1..book.watermark /\ strained \in BOOLEAN
    /\ \A n \in 1..Len(sessions) :
          proc[n].spent \in Int /\ proc[n].receipt.total \in Int /\ proc[n].journal.cost \in Int
    /\ book.spent = Charges(book)
    /\ book.balance + book.spent - granted = Cardinality(earned)
    /\ ~strained => Holds(book) <= granted + Cardinality(earned)

Audited == BudgetAssumption /\ LedgerInv /\ BooksInv

LEMMA Bounds ==
    ASSUME Audited
    PROVE  /\ Unit \in Nat \ {0} /\ scope.costs \subseteq Nat
           /\ scope.clock \in Nat /\ scope.funds \in Nat
           /\ \A left \in scope.journals : left.cost \in Int
  <1>1. scope \in Instances
    BY DEF Audited, LedgerInv
  <1>0. BudgetAssumption
    BY DEF Audited
  <1>a. Unit \in Nat \ {0}
    BY <1>0 DEF BudgetAssumption
  <1>2. /\ scope.costs \subseteq Nat
        /\ \A left \in scope.journals : left.cost \in Nat \cup {None}
        /\ scope.clock \in Nat /\ scope.funds \in Nat
    <2>1. PICK s \in Instances : s = scope
      BY <1>1
    <2>2. /\ s.costs \subseteq Nat
          /\ \A left \in s.journals : left.cost \in Nat \cup {None}
          /\ s.clock \in Nat /\ s.funds \in Nat
      <3>1. s.costs \subseteq Nat
        BY <1>0 DEF BudgetAssumption
      <3>2. \A left \in s.journals : left.cost \in Nat \cup {None}
        BY <1>0 DEF BudgetAssumption
      <3>3. s.clock \in Nat /\ s.funds \in Nat
        BY <1>0 DEF BudgetAssumption
      <3> QED BY <3>1, <3>2, <3>3
    <2> QED BY <2>1, <2>2
  <1>3. scope.clock \in Nat
    BY <1>2
  <1>4. \A left \in scope.journals : left.cost \in Int
    BY <1>2 DEF None
  <1> QED BY <1>a, <1>2, <1>3, <1>4

LEMMA Amounts ==
    ASSUME Audited
    PROVE  /\ Len(sessions) \in Nat /\ Ids = 1..Len(sessions) /\ sessions = book.sessions
           /\ \A n \in Ids : RowTyped(sessions[n], n)
  <1>1. Len(sessions) \in Nat /\ Ids = 1..Len(sessions)
    BY Invocations DEF Audited
  <1>2. sessions = book.sessions
    BY DEF sessions
  <1> QED BY <1>1, <1>2 DEF Audited, BooksInv, Kept

LEMMA GreatestOfValues ==
    ASSUME NEW n \in Nat, NEW f, NEW S \in SUBSET (1..n), \A k \in S : f[k] \in Int, NEW floor \in Nat
    PROVE  Greatest({f[k] : k \in S}, floor) \in Nat
  <1> DEFINE V == {f[k] : k \in S}
  <1>1. IsFiniteSet({f[k] : k \in S})
    BY ValuesFinite
  <1>a. V \subseteq Int
    BY DEF V
  <1> HIDE DEF V
  <1>2. Greatest(V, floor) \in Int /\ Greatest(V, floor) >= floor
    <2>1. IsFiniteSet(V)
      BY <1>1 DEF V
    <2>2. floor \in Int
      OBVIOUS
    <2> QED BY <1>a, <2>1, <2>2, GreatestIs
  <1>3. floor >= 0
    OBVIOUS
  <1> QED BY <1>2, <1>3 DEF V

LEMMA EstimateTyped ==
    ASSUME Audited PROVE Estimate(TRUE) \in Nat /\ Estimate(FALSE) \in Nat
  <1>1. /\ Len(sessions) \in Nat /\ Ids = 1..Len(sessions)
        /\ \A n \in Ids : RowTyped(sessions[n], n)
    BY Amounts
  <1> DEFINE cost == [n \in Ids |-> sessions[n].cost]
             reserve == [n \in Ids |-> sessions[n].reserve]
             known == {sessions[n].cost : n \in {m \in Ids : Settled(m)}}
  <1>2. ASSUME NEW p \in BOOLEAN PROVE Estimate(p) \in Nat
    <2>2. CASE Priced # {}
      <3>1. Priced \in SUBSET (1..Len(sessions)) /\ \A n \in Priced : n \in Ids /\ cost[n] \in Nat
        BY <1>1 DEF Priced, RowTyped
      <3>2. Estimate(p) = Percentile(Priced, cost)
        BY <2>2 DEF Estimate
      <3> HIDE DEF cost
      <3>3. PICK k \in Priced : Percentile(Priced, cost) = cost[k]
        <4>1. \A k \in Priced : cost[k] \in Int
          BY <3>1
        <4> QED BY <1>1, <2>2, <3>1, <4>1, PercentileIs
      <3> QED BY <3>1, <3>2, <3>3
    <2>3. CASE Priced = {} /\ p /\ Holding # {}
      <3>1. Holding \in SUBSET (1..Len(sessions)) /\ \A n \in Holding : n \in Ids /\ reserve[n] \in Nat
        BY <1>1 DEF Holding, RowTyped
      <3>2. Estimate(p) = Percentile(Holding, reserve)
        BY <2>3 DEF Estimate
      <3> HIDE DEF reserve
      <3>3. PICK k \in Holding : Percentile(Holding, reserve) = reserve[k]
        <4>1. \A k \in Holding : reserve[k] \in Int
          BY <3>1
        <4> QED BY <1>1, <2>3, <3>1, <4>1, PercentileIs
      <3> QED BY <3>1, <3>2, <3>3
    <2>4. CASE Priced = {} /\ ~(p /\ Holding # {})
      <3>1. Estimate(p) = Greatest(known, Unit)
        BY <2>4 DEF Estimate
      <3> DEFINE M == {m \in Ids : Settled(m)}
      <3>2. M \in SUBSET (1..Len(sessions)) /\ \A n \in M : cost[n] = sessions[n].cost /\ cost[n] \in Int
        BY <1>1 DEF RowTyped
      <3>3. known = {cost[n] : n \in M}
        BY <3>2
      <3> HIDE DEF cost, known, M
      <3>4. Unit \in Nat
        BY Bounds
      <3>5. Greatest({cost[n] : n \in M}, Unit) \in Nat
        BY <1>1, <3>2, <3>4, GreatestOfValues
      <3> QED BY <3>1, <3>3, <3>5
    <2> QED BY <2>2, <2>3, <2>4
  <1>3. TRUE \in BOOLEAN /\ FALSE \in BOOLEAN
    OBVIOUS
  <1> QED BY <1>2, <1>3, Zenon

LEMMA GreatestOfOne ==
    ASSUME NEW x \in Int PROVE Greatest({x}, 0) \in Nat /\ Greatest({x}, 0) >= x
  <1>1. IsFiniteSet({x}) /\ {x} \subseteq Int
    BY FewFinite
  <1> QED BY <1>1, GreatestIs

LEMMA GreatestOfTwo ==
    ASSUME NEW x \in Int, NEW y \in Int
    PROVE  Greatest({x, y}, 0) \in Nat /\ Greatest({x, y}, 0) >= x /\ Greatest({x, y}, 0) >= y
  <1>1. IsFiniteSet({x, y}) /\ {x, y} \subseteq Int
    BY FewFinite
  <1> QED BY <1>1, GreatestIs

LEMMA GreatestOfThree ==
    ASSUME NEW x \in Int, NEW y \in Int, NEW z \in Int
    PROVE  /\ Greatest({x, y, z}, 0) \in Nat /\ Greatest({x, y, z}, 0) >= x
           /\ Greatest({x, y, z}, 0) >= y /\ Greatest({x, y, z}, 0) >= z
  <1>1. IsFiniteSet({x, y, z}) /\ {x, y, z} \subseteq Int
    BY FewFinite
  <1> QED BY <1>1, GreatestIs

LEMMA TotalsTyped ==
    ASSUME Audited, NEW n \in Ids
    PROVE  /\ Baseline(n) \in Nat /\ Exact(n) \in Nat
           /\ Before(n) \in SUBSET (1..Len(sessions)) /\ Inflated(n) \in SUBSET Before(n)
  <1>1. /\ Len(sessions) \in Nat /\ Ids = 1..Len(sessions)
        /\ \A m \in Ids : RowTyped(sessions[m], m)
    BY Amounts
  <1>2. Before(n) \in SUBSET (1..Len(sessions)) /\ Inflated(n) \in SUBSET Before(n)
    BY <1>1 DEF Before, OnRecord, Inflated
  <1> DEFINE total == [m \in Ids |-> sessions[m].total]
  <1>3. ASSUME NEW M \in SUBSET Before(n) PROVE Greatest({sessions[m].total : m \in M}, 0) \in Nat
    <2> DEFINE V == {sessions[m].total : m \in M}
    <2>1. M \in SUBSET (1..Len(sessions)) /\ \A m \in M : total[m] = sessions[m].total /\ total[m] \in Int
      BY <1>1, <1>2 DEF RowTyped
    <2>2. V = {total[m] : m \in M}
      BY <2>1
    <2> HIDE DEF total, V
    <2>3. 0 \in Nat
      OBVIOUS
    <2>4. Greatest({total[m] : m \in M}, 0) \in Nat
      BY <1>1, <2>1, <2>3, GreatestOfValues
    <2> QED BY <2>2, <2>4 DEF V
  <1>4. Baseline(n) \in Nat
    BY <1>3 DEF Baseline
  <1>5. Exact(n) \in Nat
    <2>1. {k \in Before(n) : ~Estimated(k)} \in SUBSET Before(n)
      OBVIOUS
    <2> QED BY <1>3, <2>1 DEF Exact
  <1> QED BY <1>2, <1>4, <1>5

LEMMA TailTyped ==
    ASSUME Audited, NEW n \in Ids, NEW known \in Int
    PROVE  /\ UncertainTail(n, known) \in Nat /\ UncertainTail(n, known) >= sessions[n].estimate
           /\ PrefixReserve(n, known) \in Nat /\ PrefixReserve(n, known) >= sessions[n].estimate
  <1>1. RowTyped(sessions[n], n)
    BY Amounts
  <1>2. /\ sessions[n].cost \in Nat /\ sessions[n].estimate \in Nat /\ sessions[n].reserve \in Int
        /\ sessions[n].tail \in Int /\ (sessions[n].tail # None => sessions[n].tail >= sessions[n].estimate)
    BY <1>1 DEF RowTyped
  <1>3. UncertainTail(n, known) \in Nat /\ UncertainTail(n, known) >= sessions[n].estimate
    <2>1. PICK e \in Nat : e = Estimate(FALSE)
      BY EstimateTyped, Zenon
    <2>2. UncertainTail(n, known) = Greatest({sessions[n].estimate, e, known}, 0)
      BY <2>1, Zenon DEF UncertainTail
    <2>3. sessions[n].estimate \in Int /\ e \in Int
      BY <1>2
    <2>4. /\ Greatest({sessions[n].estimate, e, known}, 0) \in Nat
          /\ Greatest({sessions[n].estimate, e, known}, 0) >= sessions[n].estimate
      BY <2>3, GreatestOfThree
    <2> QED BY <2>2, <2>4
  <1> DEFINE more == Greatest({known - sessions[n].cost}, 0)
             tail == IF sessions[n].provenance = "prefix" /\ sessions[n].tail # None
                     THEN sessions[n].tail ELSE UncertainTail(n, known)
  <1>4. more \in Nat
    <2>1. known - sessions[n].cost \in Int
      BY <1>2
    <2> QED BY <2>1, GreatestOfOne
  <1>5. tail \in Int /\ tail >= sessions[n].estimate
    BY <1>2, <1>3
  <1> HIDE DEF more, tail
  <1>7. more + tail \in Int /\ more + tail >= sessions[n].estimate
    BY <1>2, <1>4, <1>5
  <1>8. PrefixReserve(n, known) = Greatest({sessions[n].reserve, more + tail}, 0)
    BY DEF PrefixReserve, more, tail
  <1>9. /\ Greatest({sessions[n].reserve, more + tail}, 0) \in Nat
        /\ Greatest({sessions[n].reserve, more + tail}, 0) >= more + tail
    BY <1>2, <1>7, GreatestOfTwo
  <1> QED BY <1>2, <1>3, <1>7, <1>8, <1>9

LEMMA Quotient ==
    ASSUME NEW x \in Nat, NEW y \in Nat \ {0} PROVE x \div y \in Nat /\ y * (x \div y) <= x
  OBVIOUS

LEMMA Cancels ==
    ASSUME NEW t \in Nat \ {0}, NEW x \in Int, NEW y \in Int, t * x <= y * t PROVE x <= y
  OBVIOUS

LEMMA ShareTyped ==
    ASSUME Audited, NEW n \in Ids, NEW total \in Int, Clamped(n, total), NEW m \in Inflated(n)
    PROVE  Share(n, total, m) \in Nat
  <1> DEFINE L == Len(sessions)
             I == Inflated(n)
             costs == [k \in Ids |-> sessions[k].cost]
             T == Sum(costs, I)
             D == total - Exact(n)
             others == I \ {Greatest(I, 0)}
             portion(k) == IF T = 0 THEN 0 ELSE (D * costs[k]) \div T
             P == [k \in Ids |-> IF k \in others THEN portion(k) ELSE 0]
  <1>1. /\ L \in Nat /\ Ids = 1..L
        /\ \A k \in Ids : RowTyped(sessions[k], k)
    BY Amounts
  <1>2. I \in SUBSET (1..L) /\ Exact(n) \in Nat
    BY TotalsTyped
  <1>3. D \in Nat
    BY <1>2 DEF Clamped
  <1>4. Numbers(costs, L) /\ \A k \in 1..L : costs[k] \in Nat
    BY <1>1 DEF Numbers, RowTyped
  <1>5. T \in Nat
    <2> HIDE DEF L, I, costs
    <2>1. Sum(costs, I) \in Nat
      BY <1>4, SumPositive
    <2> QED BY <2>1
  <1> HIDE DEF D
  <1>6. \A k \in Ids : portion(k) \in Nat /\ T * portion(k) <= D * costs[k]
    <2> SUFFICES ASSUME NEW k \in Ids PROVE portion(k) \in Nat /\ T * portion(k) <= D * costs[k]
      OBVIOUS
    <2> HIDE DEF T, costs
    <2>1. costs[k] \in Nat
      BY <1>1, <1>4
    <2>2. PICK x \in Nat : x = D * costs[k]
      BY <1>3, <2>1
    <2>3. CASE T = 0
      BY <2>2, <2>3
    <2>4. CASE T # 0
      <3>1. x \div T \in Nat /\ T * (x \div T) <= x
        BY <1>5, <2>4, Quotient
      <3> QED BY <2>2, <2>4, <3>1
    <2> QED BY <2>3, <2>4
  <1>7. Numbers(P, L) /\ Sum(P, others) \in Int
    <2>1. Numbers(P, L)
      <3>1. \A k \in 1..L : portion(k) \in Int
        <4> SUFFICES ASSUME NEW k \in 1..L PROVE portion(k) \in Int
          OBVIOUS
        <4> HIDE DEF portion, L, T
        <4>1. k \in Ids
          BY <1>1
        <4>2. portion(k) \in Nat
          BY <1>6, <4>1, Zenon
        <4> QED BY <4>2
      <3> HIDE DEF portion, others
      <3>2. \A k \in 1..L : P[k] \in Int
        BY <1>1, <3>1
      <3>3. P = [k \in 1..L |-> P[k]]
        BY <1>1
      <3> HIDE DEF P, L
      <3> QED BY <1>1, <3>2, <3>3 DEF Numbers
    <2> HIDE DEF P, L, others
    <2> QED BY <2>1, SumTyped
  <1>8. Sum(P, others) <= D
    <2>1. ASSUME NEW k \in 1..L
          PROVE  /\ T * Part(P, others, k) <= D * Part(costs, I, k)
                 /\ T = 0 => Part(P, others, k) = 0
      <3>1. CASE k \in others
        <4>1. Part(P, others, k) = portion(k) /\ Part(costs, I, k) = costs[k]
          <5> HIDE DEF portion, costs
          <5> QED BY <1>1, <3>1 DEF Part
        <4>2. T = 0 => portion(k) = 0
          OBVIOUS
        <4> HIDE DEF P, costs, others, portion, T, I
        <4> QED BY <1>1, <1>6, <4>1, <4>2
      <3>2. CASE k \notin others
        <4>1. Part(P, others, k) = 0 /\ Part(costs, I, k) \in Nat
          BY <1>4, <3>2 DEF Part
        <4> HIDE DEF P, costs, others, portion, T, I
        <4> QED BY <1>3, <1>5, <4>1
      <3> QED BY <3>1, <3>2
    <2>2. CASE T = 0
      <3> HIDE DEF P, others
      <3>1. \A k \in 1..L : 1 * Part(P, others, k) <= 0 * Part(P, others, k)
        <4> SUFFICES ASSUME NEW k \in 1..L PROVE 1 * Part(P, others, k) <= 0 * Part(P, others, k)
          OBVIOUS
        <4>1. Part(P, others, k) = 0
          BY <2>1, <2>2
        <4> QED BY <4>1
      <3>2. 1 * Sum(P, others) <= 0 * Sum(P, others)
        <4>1. Numbers(P, L) /\ 1 \in Int /\ 0 \in Int
          BY <1>7
        <4> HIDE DEF L, T
        <4> QED BY <3>1, <4>1, SumOrdered, Zenon
      <3> QED BY <1>3, <1>7, <3>2
    <2>3. CASE T # 0
      <3> HIDE DEF P, others, L, costs, I
      <3>1. \A k \in 1..L : T * Part(P, others, k) <= D * Part(costs, I, k)
        BY <2>1
      <3>2. PICK t \in Nat : t = T
        BY <1>5
      <3>3. t * Sum(P, others) <= D * Sum(costs, I)
        <4>1. \A k \in 1..L : t * Part(P, others, k) <= D * Part(costs, I, k)
          BY <3>1, <3>2
        <4>2. t \in Int /\ D \in Int
          BY <1>3
        <4> HIDE DEF T
        <4> QED BY <1>4, <1>7, <4>1, <4>2, SumOrdered
      <3>4. t * Sum(P, others) <= D * t /\ t \in Nat \ {0} /\ D \in Int
        BY <1>3, <2>3, <3>2, <3>3
      <3> HIDE DEF T
      <3> QED BY <1>7, <3>4, Cancels
    <2> QED BY <2>2, <2>3
  <1>9. Share(n, total, m) = IF m \in others THEN portion(m) ELSE D - Sum(P, others)
    BY DEF Share, D
  <1>10. m \in Ids
    BY <1>1, <1>2
  <1> HIDE DEF P, others, portion, T, costs
  <1> QED BY <1>3, <1>6, <1>7, <1>8, <1>9, <1>10

LEMMA CorrectedIs ==
    ASSUME Audited, NEW m \in Ids, NEW delta, NEW cost \in Nat, delta = sessions[m].cost - cost,
           NEW provenance, NEW total \in Int
    PROVE  /\ Corrects(book, Corrected(m, delta, cost, provenance, total))
           /\ Corrected(m, delta, cost, provenance, total).id = m
           /\ Corrected(m, delta, cost, provenance, total).cost = cost
  <1> DEFINE e == Corrected(m, delta, cost, provenance, total)
  <1>1. e.type = "correction" /\ e.id = m /\ e.delta = delta /\ e.cost = cost /\ e.total = total
    BY DEF Corrected
  <1>2. m \in 1..Len(book.sessions) /\ sessions = book.sessions
    BY Amounts
  <1> HIDE DEF e
  <1>3. Corrects(book, e) /\ e.id = m /\ e.cost = cost
    BY <1>1, <1>2 DEF Corrects, Chargeable
  <1> QED BY <1>3 DEF e

LEMMA SettledIs ==
    ASSUME Audited, NEW m \in Ids, NEW cost \in Nat, NEW provenance, NEW total \in Int
    PROVE  /\ Settles(book, SettledAt(m, cost, provenance, total))
           /\ SettledAt(m, cost, provenance, total).id = m
  <1> DEFINE e == SettledAt(m, cost, provenance, total)
  <1>1. e.type = "settle" /\ e.id = m /\ e.cost = cost /\ e.total = total
    BY DEF SettledAt
  <1>2. m \in 1..Len(book.sessions)
    BY Amounts
  <1> HIDE DEF e
  <1>3. Settles(book, e) /\ e.id = m
    BY <1>1, <1>2 DEF Settles, Chargeable
  <1> QED BY <1>3 DEF e

LEMMA LeftIs ==
    ASSUME Audited, NEW m \in Ids, NEW status \in {"unresolved", "provisional"},
           NEW reserve \in Int, NEW lower \in Int, NEW tail \in Int,
           reserve # None => reserve >= sessions[m].estimate,
           tail # None => tail >= sessions[m].estimate
    PROVE  Leaves(book, LeftOpen(m, status, reserve, lower, tail))
  <1> DEFINE e == LeftOpen(m, status, reserve, lower, tail)
  <1>1. /\ e.type = "unresolved" /\ e.id = m /\ e.status = status /\ e.reserve = reserve
        /\ e.lower = lower /\ e.tail = tail
    BY DEF LeftOpen
  <1>2. m \in 1..Len(book.sessions) /\ sessions = book.sessions
    BY Amounts
  <1> HIDE DEF e
  <1>3. Leaves(book, e)
    BY <1>1, <1>2 DEF Leaves
  <1> QED BY <1>3 DEF e

\* What estimates above a later native total give up is owed by nobody.
LEMMA ClampBill ==
    ASSUME Audited, NEW n \in Ids, NEW total \in Int
    PROVE  Bill(book, ClampEvents(n, total), Inflated(n))
  <1> DEFINE L == Len(sessions)
             I == Inflated(n)
             share == [m \in Ids |-> IF m \in Inflated(n) THEN Share(n, total, m) ELSE 0]
  <1>1. L \in Nat /\ Ids = 1..L
    BY Amounts
  <1>2. I \in SUBSET (1..L) /\ Exact(n) \in Nat
    BY TotalsTyped
  <1>3. CASE ~Clamped(n, total)
    <2>1. ClampEvents(n, total) = << >>
      <3> DEFINE ms == IF Clamped(n, total) THEN InOrder(Inflated(n)) ELSE << >>
                 event(k) == Corrected(ms[k], sessions[ms[k]].cost - share[ms[k]], share[ms[k]], "kept",
                                       Exact(n) + Sum(share, {m \in Inflated(n) : m <= ms[k]}))
      <3>1. ClampEvents(n, total) = [k \in DOMAIN ms |-> event(k)]
        BY DEF ClampEvents
      <3>2. ms = << >>
        BY <1>3
      <3> HIDE DEF ms, event
      <3>3. DOMAIN ms = {}
        BY <3>2
      <3> QED BY <3>1, <3>3
    <2>2. Bill(book, << >>, {})
      BY NoBill
    <2>3. Bill(book, << >>, I)
      <3> HIDE DEF I
      <3> QED BY <2>2 DEF Bill
    <2> QED BY <2>1, <2>3
  <1>4. CASE Clamped(n, total)
    <2> DEFINE ms == InOrder(I)
               c == Cardinality(I)
               known(k) == Exact(n) + Sum(share, {m \in I : m <= ms[k]})
               event(k) == Corrected(ms[k], sessions[ms[k]].cost - share[ms[k]], share[ms[k]], "kept", known(k))
    <2>1. /\ c \in Nat /\ ms \in [1..c -> I]
          /\ \A i, j \in 1..c : i < j => ms[i] < ms[j]
      BY <1>1, <1>2, Ordered
    <2>2. ClampEvents(n, total) = [k \in 1..c |-> event(k)]
      <3>1. ClampEvents(n, total) = [k \in DOMAIN ms |-> event(k)]
        BY <1>4 DEF ClampEvents
      <3>2. DOMAIN ms = 1..c
        <4> HIDE DEF ms, c
        <4> QED BY <2>1
      <3> QED BY <3>1, <3>2
    <2>3. \A m \in I : Share(n, total, m) \in Nat
      BY <1>4, ShareTyped
    <2>4. Numbers(share, L) /\ \A m \in I : share[m] \in Nat
      <3>1. \A m \in 1..L : share[m] \in Nat
        BY <1>1, <2>3
      <3> QED BY <1>1, <1>2, <3>1 DEF Numbers
    <2>5. \A k \in 1..c : known(k) \in Int
      <3> HIDE DEF share, ms, c, I, L
      <3> SUFFICES ASSUME NEW k \in 1..c PROVE known(k) \in Int
        OBVIOUS
      <3>1. Sum(share, {m \in I : m <= ms[k]}) \in Int
        BY <2>4, SumTyped
      <3> QED BY <1>2, <3>1
    <2>6. ASSUME NEW k \in 1..c PROVE Corrects(book, event(k)) /\ event(k).id = ms[k] /\ ms[k] \in I
      <3>1. ms[k] \in I /\ ms[k] \in Ids
        <4> HIDE DEF ms, c, I, L
        <4> QED BY <1>1, <1>2, <2>1
      <3>2. share[ms[k]] \in Nat /\ known(k) \in Int
        <4> HIDE DEF ms, c, I, known, share
        <4> QED BY <2>4, <2>5, <3>1
      <3>3. PICK m \in Ids, cost \in Nat, due \in Int : m = ms[k] /\ cost = share[ms[k]] /\ due = known(k)
        <4> HIDE DEF ms, known, share
        <4> QED BY <3>1, <3>2
      <3>4. event(k) = Corrected(m, sessions[m].cost - cost, cost, "kept", due)
        BY <3>3
      <3> HIDE DEF ms, c, I, known, share, event
      <3>5. Corrects(book, Corrected(m, sessions[m].cost - cost, cost, "kept", due))
        BY CorrectedIs
      <3>6. Corrected(m, sessions[m].cost - cost, cost, "kept", due).id = m
        BY CorrectedIs
      <3> QED BY <3>1, <3>3, <3>4, <3>5, <3>6
    <2> DEFINE events == [k \in 1..c |-> event(k)]
    <2>7. events = [k \in 1..c |-> events[k]] /\ \A k \in 1..c : events[k] = event(k)
      <3> HIDE DEF event, c
      <3> QED OBVIOUS
    <2>8. \A k \in 1..c : Corrects(book, events[k]) /\ events[k].id = ms[k] /\ ms[k] \in I
      <3> HIDE DEF event, events, c, ms, I
      <3> QED BY <2>6, <2>7
    <2>9. \A j, k \in 1..c : j < k => events[j].id # events[k].id
      <3> SUFFICES ASSUME NEW j \in 1..c, NEW k \in 1..c, j < k PROVE events[j].id # events[k].id
        OBVIOUS
      <3> HIDE DEF event, events, c, ms, I, L
      <3>1. ms[j] < ms[k] /\ ms[j] \in Int /\ ms[k] \in Int
        <4>1. ms[j] < ms[k]
          BY <2>1
        <4>2. ms[j] \in 1..L /\ ms[k] \in 1..L
          BY <1>2, <2>8
        <4> QED BY <4>1, <4>2
      <3> QED BY <2>8, <3>1
    <2> HIDE DEF event, events, c, ms, I
    <2>10. Bill(book, events, I)
      BY <2>1, <2>7, <2>8, <2>9, ListBill
    <2> QED BY <2>2, <2>10 DEF events, I
  <1> QED BY <1>3, <1>4

LEMMA OneNextExact ==
    ASSUME Audited, NEW n \in Ids
    PROVE  /\ NextExact(n) = {} => Cardinality(NextExact(n)) = 0
           /\ \A m \in NextExact(n) : /\ NextExact(n) = {m} /\ Cardinality(NextExact(n)) = 1
                                      /\ (CHOOSE x \in NextExact(n) : TRUE) = m
  <1>1. NextExact(n) = {} => Cardinality(NextExact(n)) = 0
    BY FS_EmptySet, Zenon
  <1>2. ASSUME NEW m \in NextExact(n)
        PROVE  /\ NextExact(n) = {m} /\ Cardinality(NextExact(n)) = 1
               /\ (CHOOSE x \in NextExact(n) : TRUE) = m
    <2>1. Ids = 1..Len(sessions)
      BY Amounts
    <2>2. \A x, y \in NextExact(n) : x \in Ids /\ y \in Ids /\ x <= y /\ y <= x
      BY DEF NextExact, After, OnRecord
    <2>3. \A x \in NextExact(n) : x = m
      BY <2>1, <2>2
    <2>4. NextExact(n) = {m}
      BY <2>3
    <2>5. Cardinality({m}) = 1
      BY FS_Singleton
    <2>6. (CHOOSE x \in {m} : TRUE) = m
      OBVIOUS
    <2> QED BY <2>4, <2>5, <2>6
  <1> QED BY <1>1, <1>2

\* The estimates after a session keep their cost and the next receipt its total, so that they owe no
\* more than the receipt is corrected by.
RebaseIds(n) == Rebased(n) \cup NextExact(n)

LEMMA RebaseBill ==
    ASSUME Audited, NEW n \in Ids, NEW delta \in Int, ~Conflicting(n, delta)
    PROVE  Bill(book, RebaseEvents(n, delta), RebaseIds(n))
  <1>1. /\ Len(sessions) \in Nat /\ Ids = 1..Len(sessions)
        /\ \A k \in Ids : RowTyped(sessions[k], k)
    BY Amounts
  <1>2. /\ Rebased(n) \in SUBSET (1..Len(sessions)) /\ NextExact(n) \in SUBSET (1..Len(sessions))
        /\ Rebased(n) \cap NextExact(n) = {}
    BY <1>1 DEF Rebased, NextExact, After, OnRecord
  <1> DEFINE ms == InOrder(Rebased(n))
             c == Cardinality(Rebased(n))
             later(k) == Corrected(ms[k], 0, sessions[ms[k]].cost, "kept", sessions[ms[k]].total + delta)
             d == Cardinality(NextExact(n))
             first == CHOOSE x \in NextExact(n) : TRUE
             exact == Corrected(first, delta, sessions[first].cost - delta, "kept", None)
             u == [k \in 1..c |-> later(k)]
             v == [k \in 1..d |-> exact]
  <1>3. /\ c \in Nat /\ ms \in [1..c -> Rebased(n)]
        /\ \A i, j \in 1..c : i < j => ms[i] < ms[j]
    BY <1>1, <1>2, Ordered
  <1>4. RebaseEvents(n, delta) = u \o v
    <2>1. DOMAIN ms = 1..c
      <3> HIDE DEF ms, c
      <3> QED BY <1>3
    <2>2. RebaseEvents(n, delta) = [k \in DOMAIN ms |-> later(k)] \o v
      BY DEF RebaseEvents
    <2> QED BY <2>1, <2>2
  <1>5. Bill(book, u, Rebased(n))
    <2>1. ASSUME NEW k \in 1..c PROVE Corrects(book, later(k)) /\ later(k).id = ms[k] /\ ms[k] \in Rebased(n)
      <3> DEFINE m == ms[k]
      <3>1. m \in Rebased(n) /\ m \in Ids
        <4> HIDE DEF ms, c
        <4> QED BY <1>1, <1>2, <1>3
      <3>2. PICK cost \in Nat, due \in Int : cost = sessions[m].cost /\ due = sessions[m].total + delta
        <4> HIDE DEF m
        <4>1. RowTyped(sessions[m], m)
          BY <1>1, <3>1
        <4> QED BY <4>1 DEF RowTyped
      <3>3. later(k) = Corrected(m, 0, cost, "kept", due)
        BY <3>2
      <3>4. m = ms[k]
        OBVIOUS
      <3> HIDE DEF m, later, ms, c
      <3>5. 0 = sessions[m].cost - cost
        BY <3>2
      <3>6. Corrects(book, Corrected(m, 0, cost, "kept", due))
        BY <3>1, <3>5, CorrectedIs
      <3>7. Corrected(m, 0, cost, "kept", due).id = m
        BY <3>1, <3>5, CorrectedIs, SMTT(60)
      <3> QED BY <3>1, <3>3, <3>4, <3>6, <3>7
    <2>2. u = [k \in 1..c |-> u[k]] /\ \A k \in 1..c : u[k] = later(k)
      <3> HIDE DEF later, c
      <3> QED OBVIOUS
    <2> HIDE DEF later, u, c, ms
    <2>3. \A k \in 1..c : Corrects(book, u[k]) /\ u[k].id = ms[k] /\ ms[k] \in Rebased(n)
      BY <2>1, <2>2
    <2>4. \A j, k \in 1..c : j < k => u[j].id # u[k].id
      <3> SUFFICES ASSUME NEW j \in 1..c, NEW k \in 1..c, j < k PROVE u[j].id # u[k].id
        OBVIOUS
      <3>1. ms[j] < ms[k]
        BY <1>3
      <3>2. ms[j] \in 1..Len(sessions) /\ ms[k] \in 1..Len(sessions)
        BY <1>2, <2>3
      <3> QED BY <2>3, <3>1, <3>2
    <2> QED BY <1>3, <2>2, <2>3, <2>4, ListBill
  <1>6. Bill(book, v, NextExact(n))
    <2>1. CASE NextExact(n) = {}
      <3>1. d = 0
        BY <2>1, OneNextExact
      <3>2. v = << >>
        <4> HIDE DEF d, exact
        <4> QED BY <3>1
      <3> HIDE DEF v
      <3>3. Bill(book, << >>, {})
        BY NoBill
      <3> QED BY <2>1, <3>2, <3>3
    <2>2. ASSUME NEW m \in NextExact(n) PROVE Bill(book, v, NextExact(n))
      <3>1. first = m /\ d = 1 /\ m \in Ids
        BY <1>1, <1>2, OneNextExact
      <3>2. sessions[m].cost \in Nat /\ sessions[m].cost >= delta
        <4>1. RowTyped(sessions[m], m)
          BY <1>1, <3>1
        <4>2. ~(sessions[m].cost < delta)
          BY DEF Conflicting
        <4> QED BY <4>1, <4>2 DEF RowTyped
      <3>3. PICK cost \in Nat : cost = sessions[m].cost - delta
        BY <3>2
      <3>4. exact = Corrected(m, delta, cost, "kept", None)
        <4> HIDE DEF first
        <4> QED BY <3>1, <3>3
      <3>5. delta = sessions[m].cost - cost /\ None \in Int
        BY <3>2, <3>3 DEF None
      <3> HIDE DEF first, exact, d
      <3>6. Corrects(book, Corrected(m, delta, cost, "kept", None))
        BY <3>1, <3>5, CorrectedIs
      <3>7. Corrected(m, delta, cost, "kept", None).id = m
        BY <3>1, <3>5, CorrectedIs
      <3>8. /\ v = [k \in 1..1 |-> v[k]] /\ 1 \in Nat
            /\ \A k \in 1..1 : Leaves(book, v[k]) \/ (Corrects(book, v[k]) /\ v[k].id \in NextExact(n))
        BY <3>1, <3>4, <3>6, <3>7
      <3>9. \A j, k \in 1..1 : j < k => v[j].id # v[k].id
        OBVIOUS
      <3> HIDE DEF v
      <3> QED BY <3>8, <3>9, ListBill
    <2> QED BY <2>1, <2>2
  <1> HIDE DEF u, v
  <1>7. Bill(book, u \o v, Rebased(n) \cup NextExact(n))
    BY <1>2, <1>5, <1>6, BillsJoined
  <1> QED BY <1>4, <1>7 DEF RebaseIds

LEMMA TakeBackIs ==
    ASSUME Audited, NEW n \in Ids
    PROVE  \/ /\ sessions[n].cost = 0 /\ TakeBack(n) = << >>
           \/ /\ TakeBack(n) = <<Corrected(n, sessions[n].cost, 0, "kept", None)>>
              /\ Corrects(book, Corrected(n, sessions[n].cost, 0, "kept", None))
              /\ Corrected(n, sessions[n].cost, 0, "kept", None).id = n
              /\ Corrected(n, sessions[n].cost, 0, "kept", None).cost = 0
  <1>1. sessions[n].cost \in Nat
    BY Amounts DEF RowTyped
  <1>2. CASE sessions[n].cost > 0
    <2>1. PICK delta \in Nat, due \in Int, zero \in Nat : delta = sessions[n].cost /\ due = None /\ zero = 0
      BY <1>1 DEF None
    <2>2. delta = sessions[n].cost - zero
      BY <1>1, <2>1
    <2> DEFINE e == Corrected(n, delta, zero, "kept", due)
    <2>3. Corrects(book, e)
      BY <2>2, CorrectedIs
    <2>4. e.id = n
      BY <2>2, CorrectedIs
    <2>5. e.cost = zero
      BY <2>2, CorrectedIs, SMTT(60)
    <2>6. e = Corrected(n, sessions[n].cost, 0, "kept", None)
      BY <2>1
    <2> HIDE DEF e
    <2>7. TakeBack(n) = <<e>>
      BY <1>2, <2>6 DEF TakeBack
    <2> QED BY <2>1, <2>3, <2>4, <2>5, <2>6, <2>7
  <1>3. CASE ~(sessions[n].cost > 0)
    BY <1>1, <1>3 DEF TakeBack
  <1> QED BY <1>2, <1>3

\* A session is settled, after what was estimated of it was taken back.
LEMMA TakenBill ==
    ASSUME Audited, NEW n \in Ids, NEW cost \in Nat, NEW provenance, NEW total \in Int
    PROVE  /\ Bill(book, TakeBack(n) \o <<SettledAt(n, cost, provenance, total)>>, {n})
           /\ \E X : TakeBack(n) \in Seq(X)
  <1> DEFINE t == SettledAt(n, cost, provenance, total)
             e == Corrected(n, sessions[n].cost, 0, "kept", None)
  <1>1. Settles(book, t) /\ t.id = n
    BY SettledIs
  <1>2. book.sessions = sessions
    BY Amounts
  <1> HIDE DEF t
  <1>3. CASE sessions[n].cost = 0 /\ TakeBack(n) = << >>
    <2>1. Bill(book, <<t>>, {n})
      <3>1. Settles(book, t) /\ book.sessions[t.id].cost = 0 /\ t.id \in {n}
        BY <1>1, <1>2, <1>3
      <3> QED BY <3>1, OneBill
    <2>2. << >> \o <<t>> = <<t>>
      <3> DEFINE X == {t}
      <3>1. <<t>> \in Seq(X)
        OBVIOUS
      <3> HIDE DEF X
      <3> QED BY <3>1, ConcatEmptySeq
    <2>3. << >> \in Seq({})
      OBVIOUS
    <2> QED BY <1>3, <2>1, <2>2, <2>3 DEF t
  <1>4. CASE TakeBack(n) = <<e>> /\ Corrects(book, e) /\ e.id = n /\ e.cost = 0
    <2> HIDE DEF e
    <2>1. Bill(book, <<e>> \o <<t>>, {t.id})
      <3>1. e.id = t.id /\ e.cost = 0 /\ Corrects(book, e)
        BY <1>1, <1>4
      <3> QED BY <1>1, <3>1, SettleBill
    <2>2. <<e>> \in Seq({e})
      OBVIOUS
    <2> QED BY <1>1, <1>4, <2>1, <2>2 DEF t
  <1> QED BY <1>3, <1>4, TakeBackIs

LEMMA FinalBill ==
    ASSUME Audited, NEW n \in Ids, NEW total \in Int, total >= Baseline(n) \/ Clamped(n, total),
           Settled(n) => ~Conflicting(n, (IF Clamped(n, total) THEN 0 ELSE total - Baseline(n)) - sessions[n].cost)
    PROVE  \E ids : Bill(book, FinalEvents(n, total), ids)
  <1> DEFINE price == IF Clamped(n, total) THEN 0 ELSE total - Baseline(n)
             u == ClampEvents(n, total)
  <1>1. Ids = 1..Len(sessions) /\ sessions[n].cost \in Nat /\ n \in Int
    BY Amounts DEF RowTyped
  <1>2. Baseline(n) \in Nat /\ \A m \in Inflated(n) : m < n
    <2>1. \A m \in Inflated(n) : m < n
      BY DEF Inflated, Before
    <2> QED BY <2>1, TotalsTyped
  <1>3. PICK cost \in Nat : cost = price
    BY <1>2
  <1>4. Bill(book, u, Inflated(n))
    BY ClampBill
  <1>5. CASE Settled(n)
    <2>1. PICK delta \in Int : delta = cost - sessions[n].cost
      BY <1>1
    <2>2. PICK back \in Int : back = -delta /\ back = sessions[n].cost - cost
      BY <1>1, <2>1
    <2> DEFINE e == Corrected(n, back, cost, "native", total)
               v == RebaseEvents(n, delta)
    <2>3. FinalEvents(n, total) = u \o <<e>> \o v
      BY <1>3, <1>5, <2>1, <2>2 DEF FinalEvents
    <2>4. Corrects(book, e) /\ e.id = n
      <3>1. back = sessions[n].cost - cost
        BY <2>2
      <3> HIDE DEF price, u, v
      <3>2. Corrects(book, e)
        BY <3>1, CorrectedIs
      <3>3. e.id = n
        BY <3>1, CorrectedIs
      <3> QED BY <3>2, <3>3
    <2>5. Bill(book, v, RebaseIds(n))
      <3>1. ~Conflicting(n, delta)
        BY <1>3, <1>5, <2>1
      <3> QED BY <3>1, RebaseBill
    <2>6. \A m \in RebaseIds(n) : m > n
      BY DEF RebaseIds, Rebased, NextExact, After
    <2> HIDE DEF u, e, v
    <2>7. Bill(book, <<e>>, {n})
      <3>1. Corrects(book, e) /\ e.id \in {n}
        BY <2>4
      <3> QED BY <3>1, OneBill
    <2>8. Bill(book, u \o <<e>>, Inflated(n) \cup {n})
      <3>1. Inflated(n) \cap {n} = {}
        BY <1>1, <1>2
      <3> QED BY <1>4, <2>7, <3>1, BillsJoined
    <2>9. Bill(book, u \o <<e>> \o v, (Inflated(n) \cup {n}) \cup RebaseIds(n))
      <3>1. \A m \in Inflated(n) : m \in Int
        BY <1>1 DEF Inflated, Before, OnRecord
      <3>2. \A m \in RebaseIds(n) : m \in Int
        BY <1>1 DEF RebaseIds, Rebased, NextExact, After, OnRecord
      <3>3. (Inflated(n) \cup {n}) \cap RebaseIds(n) = {}
        BY <1>1, <1>2, <2>6, <3>1, <3>2
      <3> QED BY <2>5, <2>8, <3>3, BillsJoined
    <2> QED BY <2>3, <2>9
  <1>6. CASE ~Settled(n)
    <2> DEFINE t == SettledAt(n, cost, "native", total)
               v == TakeBack(n) \o <<t>>
    <2>1. FinalEvents(n, total) = u \o TakeBack(n) \o <<t>>
      BY <1>3, <1>6 DEF FinalEvents
    <2>2. Bill(book, v, {n})
      BY TakenBill
    <2>3. PICK X : TakeBack(n) \in Seq(X)
      BY TakenBill
    <2>4. PICK Y : u \in Seq(Y)
      <3> HIDE DEF u
      <3> QED BY <1>4 DEF Bill
    <2> HIDE DEF u, t
    <2>5. u \o TakeBack(n) \o <<t>> = u \o v
      <3> DEFINE Z == X \cup Y \cup {t}
      <3>1. u \in Seq(Z) /\ TakeBack(n) \in Seq(Z)
        BY <2>3, <2>4, SeqMonotonic
      <3>2. <<t>> \in Seq(Z)
        OBVIOUS
      <3> HIDE DEF Z
      <3> QED BY <3>1, <3>2, ConcatAssociative
    <2> HIDE DEF v
    <2>6. Bill(book, u \o v, Inflated(n) \cup {n})
      <3>1. Inflated(n) \cap {n} = {}
        BY <1>1, <1>2
      <3> QED BY <1>4, <2>2, <3>1, BillsJoined
    <2> QED BY <2>1, <2>5, <2>6
  <1> QED BY <1>5, <1>6

LEMMA AbandonedBill ==
    ASSUME Audited, NEW n \in Ids PROVE Bill(book, Abandoned(n), {})
  <1>1. PICK status \in {"unresolved", "provisional"}, none \in Int : status = "unresolved" /\ none = None
    BY DEF None
  <1> DEFINE e == LeftOpen(n, status, none, none, none)
  <1>2. Leaves(book, e)
    BY <1>1, LeftIs
  <1>3. Abandoned(n) = <<e>>
    BY <1>1 DEF Abandoned
  <1> HIDE DEF e
  <1>4. Bill(book, <<e>>, {})
    BY <1>2, OneBill
  <1> QED BY <1>3, <1>4

LEMMA PrefixBill ==
    ASSUME Audited, NEW n \in Ids, NEW total \in Int PROVE Bill(book, PrefixEvents(n, total), {})
  <1>1. PICK known \in Int : known = total - Baseline(n)
    BY TotalsTyped
  <1>2. PICK reserve \in Int : reserve = PrefixReserve(n, known) /\ reserve >= sessions[n].estimate
    BY TailTyped
  <1>3. PICK status \in {"unresolved", "provisional"}, none \in Int : status = "provisional" /\ none = None
    BY DEF None
  <1> DEFINE e == LeftOpen(n, status, reserve, known, none)
  <1>4. Leaves(book, e)
    BY <1>2, <1>3, LeftIs
  <1>5. PrefixEvents(n, total) = << >> \/ PrefixEvents(n, total) = <<e>>
    BY <1>1, <1>2, <1>3 DEF PrefixEvents
  <1> HIDE DEF e
  <1>6. Bill(book, <<e>>, {}) /\ Bill(book, << >>, {})
    BY <1>4, OneBill, NoBill
  <1> QED BY <1>5, <1>6

LEMMA OrphansBill ==
    ASSUME Audited PROVE Bill(book, OrphanEvents, {})
  <1> DEFINE ns == InOrder(Orphans)
             c == Cardinality(Orphans)
             event(k) == LeftOpen(ns[k], "unresolved", None, None, None)
             events == [k \in 1..c |-> event(k)]
  <1>1. Len(sessions) \in Nat /\ Ids = 1..Len(sessions)
    BY Amounts
  <1>2. Orphans \in SUBSET (1..Len(sessions)) /\ \A n \in Orphans : n \in Ids
    BY <1>1 DEF Orphans
  <1>3. /\ c \in Nat /\ ns \in [1..c -> Orphans]
        /\ \A i, j \in 1..c : i < j => ns[i] < ns[j]
    BY <1>1, <1>2, Ordered
  <1>4. OrphanEvents = events
    <2>1. DOMAIN ns = 1..c
      <3> HIDE DEF ns, c
      <3> QED BY <1>3
    <2> QED BY <2>1 DEF OrphanEvents
  <1>5. ASSUME NEW k \in 1..c PROVE Leaves(book, event(k)) /\ event(k).id = ns[k]
    <2>1. PICK m \in Ids, status \in {"unresolved", "provisional"}, none \in Int :
            m = ns[k] /\ status = "unresolved" /\ none = None
      <3> HIDE DEF ns, c
      <3>1. ns[k] \in Orphans
        BY <1>3
      <3>2. ns[k] \in Ids
        BY <1>2, <3>1
      <3> QED BY <3>2 DEF None
    <2>2. event(k) = LeftOpen(m, status, none, none, none)
      BY <2>1
    <2>3. event(k).id = ns[k]
      BY DEF LeftOpen
    <2> HIDE DEF event
    <2>4. Leaves(book, LeftOpen(m, status, none, none, none))
      BY <2>1, LeftIs
    <2> QED BY <2>2, <2>3, <2>4
  <1>6. events = [k \in 1..c |-> events[k]] /\ \A k \in 1..c : events[k] = event(k)
    <2> HIDE DEF event, c
    <2> QED OBVIOUS
  <1> HIDE DEF ns, c, event, events
  <1>7. \A k \in 1..c : Leaves(book, events[k])
    BY <1>5, <1>6
  <1>8. \A j, k \in 1..c : j < k => events[j].id # events[k].id
    <2> SUFFICES ASSUME NEW j \in 1..c, NEW k \in 1..c, j < k PROVE events[j].id # events[k].id
      OBVIOUS
    <2>1. ns[j] < ns[k]
      BY <1>3
    <2>2. ns[j] \in 1..Len(sessions) /\ ns[k] \in 1..Len(sessions)
      BY <1>2, <1>3
    <2> QED BY <1>5, <1>6, <2>1, <2>2
  <1>9. Bill(book, events, {})
    BY <1>3, <1>6, <1>7, <1>8, ListBill
  <1> QED BY <1>4, <1>9

\* A prefix is charged and a tail reserved that is no less than the estimate.
LEMMA PrefixTailBill ==
    ASSUME Audited, NEW n \in Ids, NEW cost \in Nat, NEW tail, NEW lower \in Int,
           tail = IF sessions[n].provenance = "prefix" /\ sessions[n].cost = cost /\ sessions[n].tail # None
                  THEN sessions[n].tail ELSE UncertainTail(n, cost)
    PROVE  Bill(book, <<Corrected(n, sessions[n].cost - cost, cost, "prefix", None),
                        LeftOpen(n, "provisional", tail, lower, tail)>>, {n})
  <1>1. RowTyped(sessions[n], n)
    BY Amounts
  <1>2. /\ sessions[n].cost \in Nat /\ sessions[n].estimate \in Nat /\ sessions[n].tail \in Int
        /\ sessions[n].tail # None => sessions[n].tail >= sessions[n].estimate
    BY <1>1 DEF RowTyped
  <1>3. UncertainTail(n, cost) \in Nat /\ UncertainTail(n, cost) >= sessions[n].estimate
    BY TailTyped
  <1>4. tail \in Int /\ tail >= sessions[n].estimate
    BY <1>2, <1>3
  <1>5. PICK none \in Int, status \in {"unresolved", "provisional"}, delta \in Int :
          none = None /\ status = "provisional" /\ delta = sessions[n].cost - cost
    BY <1>2 DEF None
  <1> DEFINE c == Corrected(n, delta, cost, "prefix", none)
             l == LeftOpen(n, status, tail, lower, tail)
  <1>6. Corrects(book, c)
    BY <1>5, CorrectedIs
  <1>7. c.id = n
    BY <1>5, CorrectedIs
  <1>8. Leaves(book, l)
    BY <1>4, LeftIs
  <1>9. /\ c = Corrected(n, sessions[n].cost - cost, cost, "prefix", None)
        /\ l = LeftOpen(n, "provisional", tail, lower, tail)
    BY <1>5
  <1> HIDE DEF c, l
  <1>10. Bill(book, <<c>>, {n})
    <2>1. Corrects(book, c) /\ c.id \in {n}
      BY <1>6, <1>7
    <2> QED BY <2>1, OneBill
  <1>11. Bill(book, <<l>>, {})
    BY <1>8, OneBill
  <1>12. Bill(book, <<c>> \o <<l>>, {n} \cup {})
    <2>1. {n} \cap {} = {}
      OBVIOUS
    <2> QED BY <1>10, <1>11, <2>1, BillsJoined
  <1>13. <<c>> \o <<l>> = <<c, l>> /\ {n} \cup {} = {n}
    BY PairJoined
  <1> QED BY <1>9, <1>12, <1>13

\* The hours that an accrual credits.
Credited == {h \in 1..scope.clock : book.rate > 0 /\ book.watermark < h /\ h <= clock}

LEMMA Accrued ==
    ASSUME Audited, NEW c, c = Replay(book, Accrual)
    PROVE  /\ Kept(c) /\ c.sessions = book.sessions /\ c.spent = book.spent /\ c.rate = book.rate
           /\ c.watermark \in 0..scope.clock /\ earned \cup Credited \subseteq 1..c.watermark
           /\ Cardinality(earned) \in Nat /\ Accrual.amount \in Nat
           /\ Cardinality(earned \cup Credited) = Cardinality(earned) + Accrual.amount
           /\ c.balance = book.balance + Accrual.amount
  <1> DEFINE now == Greatest({book.watermark, clock}, 0)
             amount == (now - book.watermark) * book.rate
  <1>1. /\ book.watermark \in 0..scope.clock /\ clock \in 0..scope.clock /\ book.rate \in 0..1
        /\ scope.clock \in Nat /\ earned \subseteq 1..book.watermark /\ Kept(book)
    BY Bounds DEF Audited, BooksInv
  <1>2. /\ now \in Nat /\ now >= book.watermark /\ now >= clock
        /\ now = book.watermark \/ now = clock
    <2>1. PICK x \in 0..scope.clock, y \in 0..scope.clock : x = book.watermark /\ y = clock
      BY <1>1
    <2>2. IsFiniteSet({x, y}) /\ {x, y} \subseteq Int /\ 0 \in Int
      <3>1. IsFiniteSet({x, y})
        BY FewFinite
      <3> QED BY <1>1, <3>1
    <2>3. /\ Greatest({x, y}, 0) \in Int /\ Greatest({x, y}, 0) >= 0
          /\ Greatest({x, y}, 0) \in {x, y} \cup {0}
          /\ \A z \in {x, y} : Greatest({x, y}, 0) >= z
      BY <2>2, GreatestIs
    <2>4. now = Greatest({x, y}, 0)
      BY <2>1
    <2> HIDE DEF now
    <2> QED BY <1>1, <2>1, <2>3, <2>4
  <1>3. Accrual.type = "accrue" /\ Accrual.amount = amount /\ Accrual.watermark = now
    BY DEF Accrual
  <1> HIDE DEF now
  <1>4. amount = IF book.rate = 0 THEN 0 ELSE now - book.watermark
    BY <1>1, <1>2
  <1>5. amount \in Nat
    BY <1>1, <1>2, <1>4
  <1> HIDE DEF amount
  <1>6. c = Accrue(book, Accrual)
    BY <1>3 DEF Replay
  <1>7. /\ book = [f \in BookFields |-> book[f]] /\ book.balance \in Int /\ book.spent \in Int /\ Rows(book.sessions)
    BY <1>1 DEF Kept, Shaped
  <1>8. /\ c = [f \in BookFields |-> c[f]]
        /\ c.balance = book.balance + amount /\ c.watermark = now /\ c.spent = book.spent
        /\ c.rate = book.rate /\ c.sessions = book.sessions
    BY <1>3, <1>6, <1>7 DEF Accrue, BookFields
  <1>9. Kept(c)
    <2>1. Shaped(c)
      BY <1>7, <1>8 DEF Shaped
    <2>2. c.balance \in Int /\ c.spent \in Int
      BY <1>5, <1>7, <1>8
    <2>3. \A n \in 1..Len(c.sessions) : RowTyped(c.sessions[n], n)
      BY <1>1, <1>8 DEF Kept
    <2> QED BY <2>1, <2>2, <2>3 DEF Kept
  <1>10. /\ Cardinality(earned) \in Nat /\ Cardinality(earned \cup Credited) = Cardinality(earned) + amount
         /\ earned \cup Credited \subseteq 1..now
    <2>1. PICK past \in Nat, to \in Nat, last \in Nat, hour \in 0..scope.clock :
            past = book.watermark /\ to = now /\ last = scope.clock /\ hour = clock
      BY <1>1, <1>2
    <2> DEFINE E == {h \in 1..last : past < h /\ h <= hour}
    <2>2. hour \in 0..last /\ past <= last /\ hour <= to /\ past <= to /\ (to = past \/ to = hour) /\ earned \subseteq 1..past
      BY <1>1, <1>2, <2>1
    <2>3. /\ Cardinality(earned) \in Nat /\ Cardinality(earned \cup E) = Cardinality(earned) + (to - past)
          /\ earned \cup E \subseteq 1..to
      <3>1. IsFiniteSet(earned) /\ Cardinality(earned) \in Nat
        <4>1. IsFiniteSet(1..past)
          BY FS_Interval
        <4>2. IsFiniteSet(earned)
          BY <2>2, <4>1, FS_Subset
        <4> QED BY <4>2, FS_CardinalityType
      <3>2. earned \cup E \subseteq 1..to
        <4> SUFFICES ASSUME NEW h \in earned \cup E PROVE h \in 1..to
          OBVIOUS
        <4>1. CASE h \in earned
          BY <2>2, <4>1
        <4>2. CASE h \in E
          BY <2>2, <4>2
        <4> QED BY <4>1, <4>2
      <3>5. CASE to = past
        <4>1. E = {}
          BY <2>2, <3>5
        <4> QED BY <3>1, <3>2, <3>5, <4>1
      <3>6. CASE to = hour
        <4>1. E = (past + 1)..to
          BY <2>2, <3>6
        <4>2. IsFiniteSet(E) /\ Cardinality(E) = to - past
          <5>1. /\ IsFiniteSet((past + 1)..to)
                /\ Cardinality((past + 1)..to) = IF past + 1 > to THEN 0 ELSE to - (past + 1) + 1
            <6>1. past + 1 \in Int /\ to \in Int
              OBVIOUS
            <6> QED BY <6>1, FS_Interval
          <5>2. (IF past + 1 > to THEN 0 ELSE to - (past + 1) + 1) = to - past
            BY <2>2
          <5> QED BY <4>1, <5>1, <5>2, Zenon
        <4>3. Cardinality(earned \cup E) = Cardinality(earned) + Cardinality(E) - Cardinality(earned \cap E)
          BY <3>1, <4>2, FS_Union
        <4>4. earned \cap E = {}
          BY <2>2, <4>1
        <4>5. Cardinality(earned \cap E) = 0
          BY <4>4, FS_EmptySet
        <4> QED BY <3>1, <3>2, <4>2, <4>3, <4>5
      <3> QED BY <2>2, <3>1, <3>2, <3>5, <3>6
    <2>6. CASE book.rate = 0
      <3>1. Credited = {}
        BY <2>6 DEF Credited
      <3>2. amount = 0 /\ earned \cup {} = earned /\ earned \subseteq 1..now
        BY <1>4, <2>1, <2>3, <2>6
      <3> QED BY <2>3, <3>1, <3>2
    <2>7. CASE book.rate = 1
      <3>1. Credited = E
        BY <2>1, <2>7 DEF Credited
      <3>2. amount = now - past
        BY <1>4, <2>1, <2>7
      <3> HIDE DEF E
      <3> QED BY <2>1, <2>3, <3>1, <3>2
    <2> QED BY <1>1, <2>6, <2>7
  <1>11. c.watermark \in 0..scope.clock
    BY <1>1, <1>2, <1>8
  <1> QED BY <1>3, <1>5, <1>8, <1>9, <1>10, <1>11

Holdings(b) == [n \in 1..Len(b.sessions) |-> Held(b, n)]

LEMMA HoldsIs ==
    ASSUME NEW b, Kept(b)
    PROVE  /\ Numbers(Holdings(b), Len(b.sessions)) /\ Holds(b) \in Int
           /\ Holds(b) = Sum(Holdings(b), 1..Len(b.sessions))
           /\ \A n \in 1..Len(b.sessions) : Holdings(b)[n] = Held(b, n) /\ Held(b, n) \in Nat
  <1> DEFINE L == Len(b.sessions)
  <1>1. L \in Nat /\ \A n \in 1..L : RowTyped(b.sessions[n], n)
    BY DEF Kept, Shaped, Rows, Listed
  <1>2. \A n \in 1..L : Held(b, n) \in Nat
    <2> SUFFICES ASSUME NEW n \in 1..L PROVE Held(b, n) \in Nat
      OBVIOUS
    <2> DEFINE r == b.sessions[n]
    <2>1. /\ r.cost \in Nat /\ r.estimate \in Nat /\ r.reserve \in Int
          /\ r.reserve # None => r.reserve >= r.estimate
      BY <1>1 DEF RowTyped
    <2>2. Held(b, n) = r.cost + IF r.status = "settled" THEN 0
                                ELSE IF r.reserve # None THEN r.reserve ELSE r.estimate
      BY DEF Held
    <2> HIDE DEF r
    <2> QED BY <2>1, <2>2
  <1>3. Holds(b) = Sum(Holdings(b), 1..L)
    BY DEF Holds, Holdings
  <1>4. Holdings(b) = [n \in 1..L |-> Held(b, n)]
    BY DEF Holdings
  <1> DEFINE f == Holdings(b)
  <1> HIDE DEF L, f
  <1>5. f = [n \in 1..L |-> f[n]] /\ \A n \in 1..L : f[n] = Held(b, n)
    BY <1>4 DEF f
  <1>6. Numbers(f, L)
    <2>1. \A n \in 1..L : f[n] \in Int
      BY <1>2, <1>5
    <2> QED BY <1>1, <1>5, <2>1 DEF Numbers
  <1>7. Sum(f, 1..L) \in Int
    BY <1>6, SumTyped
  <1> QED BY <1>2, <1>3, <1>5, <1>6, <1>7 DEF f, L

LEMMA HoldsOrdered ==
    ASSUME NEW b, Kept(b), NEW d, Kept(d), Len(d.sessions) = Len(b.sessions),
           \A n \in 1..Len(b.sessions) : Held(d, n) <= Held(b, n)
    PROVE  Holds(d) <= Holds(b)
  <1> DEFINE n == Len(b.sessions)
             f == Holdings(d)
             h == Holdings(b)
  <1>1. /\ Numbers(f, n) /\ Numbers(h, n) /\ n \in Nat
        /\ \A k \in 1..n : f[k] = Held(d, k) /\ h[k] = Held(b, k) /\ f[k] \in Int /\ h[k] \in Int
    BY HoldsIs DEF Numbers
  <1>2. Holds(d) = Sum(f, 1..n) /\ Holds(b) = Sum(h, 1..n) /\ Holds(d) \in Int /\ Holds(b) \in Int
    BY HoldsIs
  <1>3. \A k \in 1..n : 1 * Part(f, 1..n, k) <= 1 * Part(h, 1..n, k)
    <2> SUFFICES ASSUME NEW k \in 1..n PROVE 1 * Part(f, 1..n, k) <= 1 * Part(h, 1..n, k)
      OBVIOUS
    <2>1. Held(d, k) <= Held(b, k)
      OBVIOUS
    <2> HIDE DEF f, h, n
    <2> QED BY <1>1, <2>1 DEF Part
  <1>4. 1 \in Int
    OBVIOUS
  <1> HIDE DEF f, h, n
  <1>5. 1 * Sum(f, 1..n) <= 1 * Sum(h, 1..n)
    BY <1>1, <1>3, <1>4, SumOrdered
  <1> QED BY <1>2, <1>5

\* A step that adds to the books what moves no funds but those that are granted.
LEMMA BooksMoved ==
    ASSUME Audited, NEW c, c = Replay(book, Accrual), earned' = earned \cup Credited,
           NEW gain \in Nat, granted' = granted + gain,
           Kept(book'), Len(book'.sessions) = Len(book.sessions),
           book'.balance + book'.spent = c.balance + c.spent + gain,
           book'.spent - Charges(book') = c.spent - Charges(c),
           book'.rate \in 0..1, book'.watermark = c.watermark,
           strained' = (strained \/ \E n \in Ids : Held(book', n) > Held(book, n)),
           scope' = scope, clock' = clock, proc' = proc
    PROVE  BooksInv'
  <1>0. /\ BooksInv /\ Kept(book) /\ Ids = 1..Len(book.sessions)
    BY Amounts DEF Audited, BooksInv
  <1>1. /\ Kept(c) /\ c.sessions = book.sessions /\ c.spent = book.spent /\ c.rate = book.rate
        /\ c.watermark \in 0..scope.clock /\ earned' \subseteq 1..c.watermark
        /\ Cardinality(earned) \in Nat /\ Accrual.amount \in Nat
        /\ Cardinality(earned') = Cardinality(earned) + Accrual.amount
        /\ c.balance = book.balance + Accrual.amount
    BY Accrued
  <1>2. /\ Kept(book') /\ Len(book'.sessions) = Len(book.sessions)
        /\ book'.balance + book'.spent = c.balance + c.spent + gain
        /\ book'.spent - Charges(book') = c.spent - Charges(c)
        /\ book'.rate \in 0..1 /\ book'.watermark = c.watermark
    OBVIOUS
  <1>3. Charges(c) = Charges(book) /\ Charges(book) \in Int /\ Charges(book') \in Int
    <2>1. Charges(c) = Charges(book)
      BY <1>1 DEF Charges, Costs
    <2> QED BY <1>0, <1>2, <2>1, CostsAre
  <1>4. /\ book.balance \in Int /\ book.spent \in Int /\ book'.balance \in Int /\ book'.spent \in Int
        /\ granted \in Int /\ strained \in BOOLEAN
        /\ book.spent = Charges(book) /\ book.balance + book.spent - granted = Cardinality(earned)
    BY <1>0, <1>2 DEF BooksInv, Kept
  <1>5. book'.spent = Charges(book')
    BY <1>1, <1>2, <1>3, <1>4
  <1>6. book'.balance + book'.spent - granted' = Cardinality(earned')
    <2>1. PICK grown \in Nat, funds \in Int, paid \in Int :
            grown = Accrual.amount /\ funds = book.balance /\ paid = book.spent
      BY <1>1, <1>4
    <2>2. c.balance + c.spent = funds + grown + paid
      BY <1>1, <2>1
    <2>3. book'.balance + book'.spent = funds + grown + paid + gain
      BY <1>2, <2>2
    <2>4. funds + paid - granted = Cardinality(earned) /\ Cardinality(earned') = Cardinality(earned) + grown
      BY <1>1, <1>4, <2>1
    <2>5. granted' = granted + gain /\ granted \in Int /\ Cardinality(earned) \in Nat
      BY <1>1, <1>4
    <2>6. book'.balance + book'.spent - granted' = funds + paid - granted + grown
      <3>1. PICK left \in Int, charged \in Int, given \in Int :
              left = book'.balance /\ charged = book'.spent /\ given = granted'
        BY <1>4, <2>5
      <3>2. left + charged = funds + grown + paid + gain /\ given = granted + gain /\ granted \in Int
        BY <2>3, <2>5, <3>1
      <3>3. left + charged - given = funds + paid - granted + grown
        BY <3>2
      <3> QED BY <3>1, <3>3
    <2> QED BY <2>1, <2>4, <2>5, <2>6
  <1>7. strained' \in BOOLEAN /\ (~strained' => Holds(book') <= granted' + Cardinality(earned'))
    <2> SUFFICES ASSUME ~strained' PROVE Holds(book') <= granted' + Cardinality(earned')
      BY <1>4
    <2>1. ~strained /\ \A n \in 1..Len(book.sessions) : ~(Held(book', n) > Held(book, n))
      BY <1>0
    <2>2. \A n \in 1..Len(book.sessions) : Held(book', n) \in Int /\ Held(book, n) \in Int
      BY <1>0, <1>2, HoldsIs
    <2>3. Holds(book') <= Holds(book)
      <3>1. \A n \in 1..Len(book.sessions) : Held(book', n) <= Held(book, n)
        BY <2>1, <2>2
      <3> QED BY <1>0, <1>2, <3>1, HoldsOrdered
    <2>4. Holds(book') \in Int /\ Holds(book) \in Int
      BY <1>0, <1>2, HoldsIs
    <2>5. Holds(book) <= granted + Cardinality(earned)
      BY <1>0, <2>1 DEF BooksInv
    <2>6. granted' + Cardinality(earned') >= granted + Cardinality(earned)
      <3>1. granted' = granted + gain /\ granted \in Int /\ gain \in Nat
        BY <1>4
      <3> QED BY <1>1, <3>1
    <2>7. granted' + Cardinality(earned') \in Int /\ granted + Cardinality(earned) \in Int
      <3>1. granted' \in Int /\ granted \in Int /\ Cardinality(earned') \in Int
        BY <1>1, <1>4
      <3> QED BY <1>1, <3>1
    <2> QED BY <2>3, <2>4, <2>5, <2>6, <2>7
  <1>8. /\ book'.rate \in 0..1 /\ book'.watermark \in 0..scope'.clock /\ clock' \in 0..scope'.clock
        /\ granted' \in Int /\ earned' \subseteq 1..book'.watermark
    BY <1>0, <1>1, <1>2 DEF BooksInv
  <1>9. \A n \in 1..Len(sessions') :
          proc'[n].spent \in Int /\ proc'[n].receipt.total \in Int /\ proc'[n].journal.cost \in Int
    <2>1. Len(sessions') = Len(sessions)
      BY <1>2 DEF sessions
    <2> QED BY <1>0, <2>1 DEF BooksInv
  <1> QED BY <1>2, <1>5, <1>6, <1>7, <1>8, <1>9 DEF BooksInv

LEMMA BooksKept ==
    ASSUME Audited, NEW c, c = Replay(book, Accrual), Balanced(c, book'), earned' = earned \cup Credited,
           strained' = (strained \/ \E n \in Ids : Held(book', n) > Held(book, n)),
           scope' = scope, clock' = clock, granted' = granted, proc' = proc
    PROVE  BooksInv'
  <1>1. PICK gain \in Nat : gain = 0
    OBVIOUS
  <1>2. c.sessions = book.sessions /\ c.rate \in 0..1 /\ Kept(c)
    BY Accrued DEF Audited, BooksInv
  <1>3. c.balance \in Int /\ c.spent \in Int /\ granted \in Int
    BY <1>2 DEF Kept, Audited, BooksInv
  <1>4. granted' = granted + gain /\ book'.balance + book'.spent = c.balance + c.spent + gain
    BY <1>1, <1>3 DEF Balanced
  <1>5. /\ Kept(book') /\ Len(book'.sessions) = Len(book.sessions)
        /\ book'.spent - Charges(book') = c.spent - Charges(c)
        /\ book'.rate \in 0..1 /\ book'.watermark = c.watermark
    BY <1>2 DEF Balanced
  <1> QED BY <1>4, <1>5, BooksMoved

\* A transaction of events that owe nothing, or a torn one.
LEMMA BillTransacted ==
    ASSUME Audited, NEW events, NEW ids, Bill(book, events, ids), Transact(events),
           scope' = scope, clock' = clock, granted' = granted, proc' = proc
    PROVE  BooksInv'
  <1>1. CASE /\ book' = Replayed(book, <<Accrual>> \o events)
             /\ earned' = earned \cup Credited
             /\ strained' = (strained \/ \E n \in Ids : Held(book', n) > Held(book, n))
    <2> DEFINE e == Accrual
               c == Replay(book, e)
    <2>1. Kept(c) /\ c.sessions = book.sessions
      BY Accrued
    <2> HIDE DEF e
    <2>2. PICK X : events \in Seq(X)
      BY DEF Bill
    <2>3. book' = Replayed(c, events)
      BY <1>1, <2>2, ReplayedFirst DEF e
    <2> HIDE DEF c
    <2>4. Bill(c, events, ids)
      BY <2>1, SameBill
    <2>5. Balanced(c, Replayed(c, events))
      BY <2>1, <2>4, BillReplayed
    <2>6. c = Replay(book, Accrual) /\ Balanced(c, book')
      BY <2>3, <2>5 DEF c, e
    <2> QED BY <1>1, <2>6, BooksKept
  <1>2. CASE UNCHANGED <<book, earned, strained>>
    BY <1>2 DEF Audited, BooksInv, sessions
  <1> QED BY <1>1, <1>2 DEF Transact, Credited

LEMMA EvidenceTyped ==
    ASSUME Audited, NEW n \in Ids
    PROVE  /\ proc[n].spent \in Int /\ proc[n].receipt.total \in Int /\ proc[n].journal.cost \in Int
           /\ RowTyped(sessions[n], n) /\ sessions[n].cost \in Nat /\ sessions[n].lower \in Int
           /\ sessions[n].estimate \in Nat /\ Baseline(n) \in Nat
  <1>1. Ids = 1..Len(sessions) /\ RowTyped(sessions[n], n)
    BY Amounts
  <1>2. Baseline(n) \in Nat
    BY TotalsTyped
  <1> QED BY <1>1, <1>2 DEF Audited, BooksInv, RowTyped

LEMMA SettleFinalBooks ==
    ASSUME Audited, scope' = scope, NEW n \in Ids, SettleFinal(n) PROVE BooksInv'
  <1>1. PICK total \in Int : total = proc[n].receipt.total
    BY EvidenceTyped
  <1>2. proc' = proc /\ clock' = clock /\ granted' = granted
    BY DEF SettleFinal, Evidently, Ordinary
  <1>3. CASE /\ total >= Baseline(n) \/ Clamped(n, total)
             /\ Settled(n) => ~Conflicting(n, (IF Clamped(n, total) THEN 0 ELSE total - Baseline(n)) - sessions[n].cost)
             /\ Transact(FinalEvents(n, total))
    <2>1. PICK ids : Bill(book, FinalEvents(n, total), ids)
      BY <1>3, FinalBill
    <2> QED BY <1>2, <1>3, <2>1, BillTransacted
  <1>4. CASE Transact(Abandoned(n))
    BY <1>2, <1>4, AbandonedBill, BillTransacted
  <1> QED BY <1>1, <1>3, <1>4 DEF SettleFinal, Evidently

LEMMA SettleFreeBooks ==
    ASSUME Audited, scope' = scope, NEW n \in Ids, SettleFree(n) PROVE BooksInv'
  <1>1. PICK cost \in Nat, none \in Int : cost = 0 /\ none = None
    BY DEF None
  <1> DEFINE e == SettledAt(n, cost, "native", none)
  <1>2. /\ proc' = proc /\ clock' = clock /\ granted' = granted
        /\ Transact(<<e>>) /\ sessions[n].cost = 0
    BY <1>1 DEF SettleFree, Evidently, Ordinary
  <1>3. Settles(book, e) /\ e.id = n
    BY SettledIs
  <1>4. book.sessions = sessions
    BY Amounts
  <1> HIDE DEF e
  <1>5. Bill(book, <<e>>, {n})
    <2>1. Settles(book, e) /\ book.sessions[e.id].cost = 0 /\ e.id \in {n}
      BY <1>2, <1>3, <1>4
    <2> QED BY <2>1, OneBill
  <1> QED BY <1>2, <1>5, BillTransacted

LEMMA SettlePrefixBooks ==
    ASSUME Audited, scope' = scope, NEW n \in Ids, SettlePrefix(n) PROVE BooksInv'
  <1>1. PICK total \in Int : total = proc[n].receipt.total
    BY EvidenceTyped
  <1>2. proc' = proc /\ clock' = clock /\ granted' = granted
    BY DEF SettlePrefix, Evidently, Ordinary
  <1>3. CASE Transact(PrefixEvents(n, total))
    BY <1>2, <1>3, PrefixBill, BillTransacted
  <1>4. CASE Transact(Abandoned(n))
    BY <1>2, <1>4, AbandonedBill, BillTransacted
  <1> QED BY <1>1, <1>3, <1>4 DEF SettlePrefix, Evidently

LEMMA RecoverUsageBooks ==
    ASSUME Audited, scope' = scope, NEW n \in Ids, RecoverUsage(n) PROVE BooksInv'
  <1>0. proc' = proc /\ clock' = clock /\ granted' = granted
    BY DEF RecoverUsage, Evidently, Ordinary
  <1>1. PICK cost \in Nat : cost = Greatest({proc[n].journal.cost, sessions[n].lower}, 0)
    BY EvidenceTyped, GreatestOfTwo
  <1>2. PICK lower \in Int : lower = Greatest({sessions[n].lower}, 0)
    BY EvidenceTyped, GreatestOfOne
  <1> DEFINE tail == IF sessions[n].provenance = "prefix" /\ sessions[n].cost = cost /\ sessions[n].tail # None
                     THEN sessions[n].tail ELSE UncertainTail(n, cost)
             pair == <<Corrected(n, sessions[n].cost - cost, cost, "prefix", None),
                       LeftOpen(n, "provisional", tail, lower, tail)>>
  <1>3. CASE Transact(TakeBack(n) \o <<SettledAt(n, cost, "estimate", Baseline(n) + cost)>>)
    <2>1. PICK total \in Int : total = Baseline(n) + cost
      BY EvidenceTyped
    <2> DEFINE events == TakeBack(n) \o <<SettledAt(n, cost, "estimate", total)>>
    <2>2. Bill(book, events, {n})
      BY TakenBill
    <2>3. Transact(events)
      BY <1>3, <2>1
    <2> HIDE DEF events
    <2> QED BY <1>0, <2>2, <2>3, BillTransacted
  <1>4. CASE Transact(pair)
    <2>1. Bill(book, pair, {n})
      BY PrefixTailBill
    <2> HIDE DEF pair
    <2> QED BY <1>0, <1>4, <2>1, BillTransacted
  <1>5. \/ Transact(TakeBack(n) \o <<SettledAt(n, cost, "estimate", Baseline(n) + cost)>>)
        \/ Transact(pair)
    BY <1>1, <1>2 DEF RecoverUsage, Evidently
  <1> QED BY <1>3, <1>4, <1>5

LEMMA SettleUnknownBooks ==
    ASSUME Audited, scope' = scope, NEW n \in Ids, SettleUnknown(n) PROVE BooksInv'
  <1>1. proc' = proc /\ clock' = clock /\ granted' = granted /\ Transact(Abandoned(n))
    BY DEF SettleUnknown, Evidently, Ordinary
  <1> QED BY <1>1, AbandonedBill, BillTransacted

LEMMA CooldownBooks ==
    ASSUME Audited, scope' = scope, NEW n \in Ids, Cooldown(n) PROVE BooksInv'
  <1> DEFINE e == [type |-> "cooldown", until |-> clock + 1]
  <1>1. proc' = proc /\ clock' = clock /\ granted' = granted /\ Transact(<<e>>) /\ e.type = "cooldown"
    BY DEF Cooldown, Evidently, Ordinary
  <1> HIDE DEF e
  <1>2. Bill(book, <<e>>, {})
    BY <1>1, OneBill
  <1> QED BY <1>1, <1>2, BillTransacted

LEMMA ReconcileBooks ==
    ASSUME Audited, scope' = scope, NEW n \in Ids, NEW cost \in scope.costs, Reconcile(n, cost) PROVE BooksInv'
  <1>1. /\ proc' = proc /\ clock' = clock /\ granted' = granted
        /\ Transact(IF Settled(n) THEN <<Corrected(n, sessions[n].cost - cost, cost, "kept", None)>>
                    ELSE TakeBack(n) \o <<SettledAt(n, cost, "native", None)>>)
    BY DEF Reconcile, Operator
  <1>2. PICK price \in Nat, none \in Int, delta \in Int :
          price = cost /\ none = None /\ delta = sessions[n].cost - price
    <2>1. cost \in Nat
      BY Bounds
    <2>2. sessions[n].cost - cost \in Int
      BY <2>1, EvidenceTyped
    <2> QED BY <2>1, <2>2 DEF None
  <1>3. CASE Settled(n)
    <2> DEFINE e == Corrected(n, delta, price, "kept", none)
    <2>1. Corrects(book, e)
      BY <1>2, CorrectedIs
    <2>2. e.id = n
      BY <1>2, CorrectedIs
    <2>3. Transact(<<e>>)
      BY <1>1, <1>2, <1>3
    <2> HIDE DEF e
    <2>4. Bill(book, <<e>>, {n})
      <3>1. Corrects(book, e) /\ e.id \in {n}
        BY <2>1, <2>2
      <3> QED BY <3>1, OneBill
    <2> QED BY <1>1, <2>3, <2>4, BillTransacted
  <1>4. CASE ~Settled(n)
    <2> DEFINE events == TakeBack(n) \o <<SettledAt(n, price, "native", none)>>
    <2>1. Bill(book, events, {n})
      BY TakenBill
    <2>2. Transact(events)
      BY <1>1, <1>2, <1>4
    <2> HIDE DEF events
    <2> QED BY <1>1, <2>1, <2>2, BillTransacted
  <1> QED BY <1>3, <1>4

LEMMA RecoverStoppedBooks ==
    ASSUME Audited, scope' = scope, NEW n \in Ids, NEW estimate \in Comparable(n), RecoverStopped(n, estimate)
    PROVE  BooksInv'
  <1> DEFINE floor == Greatest({sessions[n].cost, sessions[n].lower, proc[n].journal.cost}, 0)
             cost == IF proc[n].journal.complete THEN floor ELSE Greatest({floor, estimate}, 0)
             named == sessions[n].resume \/ proc[n].journal.cost # None \/ sessions[n].lower # None
             total == IF named THEN Baseline(n) + cost ELSE None
  <1>1. /\ proc' = proc /\ clock' = clock /\ granted' = granted
        /\ Transact(TakeBack(n) \o <<SettledAt(n, cost, "estimate", total)>>)
    BY DEF RecoverStopped, Operator, Ordinary
  <1>2. estimate \in Int
    <2>1. scope.costs \subseteq Nat
      BY Bounds
    <2>2. sessions[n].estimate \in Nat
      BY EvidenceTyped
    <2> QED BY <2>1, <2>2 DEF Comparable
  <1>3. floor \in Nat
    <2>1. sessions[n].cost \in Int /\ sessions[n].lower \in Int /\ proc[n].journal.cost \in Int
      BY EvidenceTyped
    <2> QED BY <2>1, GreatestOfThree
  <1> HIDE DEF floor
  <1>4. cost \in Nat
    <2>1. PICK x \in Int, y \in Int : x = floor /\ y = estimate
      BY <1>2, <1>3
    <2>2. Greatest({x, y}, 0) \in Nat
      BY GreatestOfTwo
    <2> QED BY <1>3, <2>1, <2>2
  <1> HIDE DEF cost, named
  <1>5. total \in Int
    BY <1>4, EvidenceTyped DEF None
  <1> HIDE DEF total
  <1> DEFINE events == TakeBack(n) \o <<SettledAt(n, cost, "estimate", total)>>
  <1>6. Bill(book, events, {n})
    BY <1>4, <1>5, TakenBill
  <1>7. Transact(events)
    BY <1>1
  <1> HIDE DEF events
  <1> QED BY <1>1, <1>6, <1>7, BillTransacted

LEMMA ReplayedOne ==
    ASSUME NEW b, NEW e PROVE Replayed(b, <<e>>) = Replay(b, e)
  <1> DEFINE none == << >>
             X == {e}
  <1>1. none \in Seq(X) /\ Len(none) = 0 /\ <<e>> \in Seq(X)
    OBVIOUS
  <1>2. Replayed(b, none) = b
    <2> HIDE DEF none
    <2>1. PICK f : /\ f = [k \in 0..Len(none) |-> IF k = 0 THEN b ELSE Replay(f[k - 1], none[k])]
                   /\ Replayed(b, none) = f[Len(none)]
      <3>1. Len(none) \in Nat
        BY <1>1
      <3> QED BY <3>1, ReplayedIs
    <2>2. f[0] = b
      BY <1>1, <2>1
    <2> QED BY <1>1, <2>1, <2>2
  <1>3. none \o <<e>> = <<e>>
    <2> HIDE DEF X
    <2> QED BY <1>1, ConcatEmptySeq
  <1> HIDE DEF none, X
  <1>4. Replayed(b, none \o <<e>>) = Replay(Replayed(b, none), e)
    BY <1>1, ReplayedLast
  <1> QED BY <1>2, <1>3, <1>4

\* A grant moves the funds, a rate what every hour brings.
LEMMA ConfigureBooks ==
    ASSUME Audited, scope' = scope, ConfigureGrant \/ \E rate \in 0..1 : ConfigureRate(rate)
    PROVE  BooksInv'
  <1>0. Unit \in Nat /\ granted \in Int
    BY Bounds DEF Audited, BooksInv
  <1>a. PICK e : \E gain \in Nat :
          /\ \/ e.type = "grant" /\ e.delta = gain
             \/ e.type = "rate" /\ e.amount \in 0..1 /\ gain = 0
          /\ Transact(<<e>>) /\ proc' = proc /\ clock' = clock
          /\ granted' = granted + IF torn' THEN 0 ELSE gain
    <2>1. CASE ConfigureGrant
      <3> DEFINE e == [type |-> "grant", delta |-> Unit]
      <3>1. /\ e.type = "grant" /\ e.delta = Unit /\ Transact(<<e>>) /\ proc' = proc /\ clock' = clock
            /\ granted' = granted + IF torn' THEN 0 ELSE Unit
        BY <2>1 DEF ConfigureGrant, Operator
      <3> HIDE DEF e
      <3> QED BY <1>0, <3>1
    <2>2. ASSUME NEW rate \in 0..1, ConfigureRate(rate)
          PROVE  \E e : \E gain \in Nat :
                    /\ \/ e.type = "grant" /\ e.delta = gain
                       \/ e.type = "rate" /\ e.amount \in 0..1 /\ gain = 0
                    /\ Transact(<<e>>) /\ proc' = proc /\ clock' = clock
                    /\ granted' = granted + IF torn' THEN 0 ELSE gain
      <3> DEFINE e == [type |-> "rate", amount |-> rate]
      <3>1. /\ e.type = "rate" /\ e.amount = rate /\ Transact(<<e>>) /\ proc' = proc /\ clock' = clock
            /\ granted' = granted
        BY <2>2 DEF ConfigureRate, Operator, Ordinary
      <3>2. granted' = granted + IF torn' THEN 0 ELSE 0
        BY <1>0, <3>1
      <3> HIDE DEF e
      <3> QED BY <3>1, <3>2
    <2> QED BY <2>1, <2>2
  <1>1. PICK gain \in Nat :
          /\ \/ e.type = "grant" /\ e.delta = gain
             \/ e.type = "rate" /\ e.amount \in 0..1 /\ gain = 0
          /\ Transact(<<e>>) /\ proc' = proc /\ clock' = clock
          /\ granted' = granted + IF torn' THEN 0 ELSE gain
    BY <1>a
  <1>2. CASE UNCHANGED <<book, earned, strained>> /\ torn' = TRUE
    <2>1. granted' = granted
      BY <1>0, <1>1, <1>2
    <2> QED BY <1>1, <1>2, <2>1 DEF Audited, BooksInv, sessions
  <1>3. CASE /\ book' = Replayed(book, <<Accrual>> \o <<e>>)
             /\ earned' = earned \cup Credited
             /\ strained' = (strained \/ \E n \in Ids : Held(book', n) > Held(book, n))
             /\ ~torn'
    <2> DEFINE acc == Accrual
               c == Replay(book, acc)
    <2>1. /\ Kept(c) /\ c.sessions = book.sessions /\ c.rate \in 0..1
      BY Accrued DEF Audited, BooksInv
    <2> HIDE DEF acc
    <2>2. book' = Replay(c, e)
      <3>1. <<e>> \in Seq({e})
        OBVIOUS
      <3>2. Replayed(book, <<acc>> \o <<e>>) = Replayed(Replay(book, acc), <<e>>)
        BY <3>1, ReplayedFirst, ZenonT(60)
      <3> QED BY <1>3, <3>2, ReplayedOne DEF acc
    <2>3. c = Replay(book, Accrual)
      BY DEF acc
    <2> HIDE DEF c
    <2>4. /\ c = [f \in BookFields |-> c[f]] /\ Rows(c.sessions) /\ c.balance \in Int /\ c.spent \in Int
          /\ \A n \in 1..Len(c.sessions) : RowTyped(c.sessions[n], n)
      BY <2>1 DEF Kept, Shaped
    <2>5. /\ book' = [f \in BookFields |-> book'[f]] /\ book'.sessions = c.sessions
          /\ book'.balance = c.balance + gain /\ book'.spent = c.spent
          /\ book'.rate \in 0..1 /\ book'.watermark = c.watermark
      <3>1. CASE e.type = "grant" /\ e.delta = gain
        BY <2>2, <2>1, <2>4, <3>1 DEF Replay, Grant, BookFields
      <3>2. CASE e.type = "rate" /\ e.amount \in 0..1 /\ gain = 0
        <4>1. book' = [c EXCEPT !.rate = e.amount]
          BY <2>2, <3>2 DEF Replay, Rate
        <4> QED BY <2>4, <3>2, <4>1 DEF BookFields
      <3> QED BY <1>1, <3>1, <3>2
    <2>6. Kept(book')
      <3>1. Shaped(book')
        BY <2>4, <2>5 DEF Shaped
      <3>2. book'.balance \in Int /\ book'.spent \in Int
        BY <2>4, <2>5
      <3>3. \A n \in 1..Len(book'.sessions) : RowTyped(book'.sessions[n], n)
        BY <2>4, <2>5
      <3> QED BY <3>1, <3>2, <3>3 DEF Kept
    <2>7. Charges(book') = Charges(c)
      BY <2>5 DEF Charges, Costs
    <2>8. book'.balance + book'.spent = c.balance + c.spent + gain
      BY <2>4, <2>5
    <2>9. /\ granted' = granted + gain /\ Len(book'.sessions) = Len(book.sessions)
          /\ book'.spent - Charges(book') = c.spent - Charges(c)
      BY <1>1, <1>3, <2>1, <2>5, <2>7
    <2> QED BY <1>1, <1>3, <2>3, <2>5, <2>6, <2>8, <2>9, BooksMoved
  <1> DEFINE events == <<e>>
  <1>4. \/ UNCHANGED <<book, earned, strained>> /\ torn' = TRUE
        \/ /\ book' = Replayed(book, <<Accrual>> \o events)
           /\ earned' = earned \cup Credited
           /\ strained' = (strained \/ \E n \in Ids : Held(book', n) > Held(book, n))
           /\ ~torn'
    <2>1. Transact(events)
      BY <1>1
    <2> HIDE DEF events
    <2> QED BY <2>1 DEF Transact, Credited
  <1> QED BY <1>2, <1>3, <1>4

\* The books d with one more session.
LEMMA RowAdded ==
    ASSUME NEW d, Kept(d), NEW r, OfSession(r), RowTyped(r, Len(d.sessions) + 1), r.cost = 0,
           NEW b, b = Admission(d, [type |-> "admit", session |-> r])
    PROVE  /\ Kept(b) /\ Len(b.sessions) = Len(d.sessions) + 1
           /\ b.balance = d.balance /\ b.spent = d.spent /\ b.rate = d.rate /\ b.watermark = d.watermark
           /\ Charges(b) = Charges(d) /\ Holds(b) = Holds(d) + Held(b, Len(d.sessions) + 1)
           /\ \A n \in 1..Len(d.sessions) : Held(b, n) = Held(d, n)
           /\ b.sessions[Len(d.sessions) + 1] = r
  <1> DEFINE L == Len(d.sessions)
  <1>1. d = [f \in BookFields |-> d[f]] /\ Rows(d.sessions) /\ L \in Nat /\ d.balance \in Int /\ d.spent \in Int
    BY DEF Kept, Shaped, Rows, Listed
  <1>2. /\ b = [f \in BookFields |-> b[f]] /\ b.sessions = Append(d.sessions, r)
        /\ b.balance = d.balance /\ b.spent = d.spent /\ b.rate = d.rate /\ b.watermark = d.watermark
    <2> DEFINE e == [type |-> "admit", session |-> r]
    <2>1. e.session = r
      OBVIOUS
    <2> HIDE DEF e
    <2>2. b = Admission(d, e)
      BY DEF e
    <2> QED BY <1>1, <2>1, <2>2 DEF Admission, BookFields
  <1>3. /\ Listed(b.sessions) /\ Len(b.sessions) = L + 1
        /\ \A n \in 1..L + 1 : b.sessions[n] = IF n = L + 1 THEN r ELSE d.sessions[n]
    <2>1. PICK s, t : s = d.sessions /\ t = b.sessions
      OBVIOUS
    <2>2. Listed(s) /\ t = Append(s, r)
      BY <1>1, <1>2, <2>1 DEF Rows
    <2>3. Listed(t)
      BY <2>2, ListAppended
    <2>4. Len(t) = Len(s) + 1
      BY <2>2, ListAppended
    <2>5. \A n \in 1..Len(s) + 1 : t[n] = IF n = Len(s) + 1 THEN r ELSE s[n]
      BY <2>2, ListAppended
    <2> QED BY <2>1, <2>3, <2>4, <2>5
  <1>4. /\ b.sessions[L + 1] = r
        /\ \A n \in 1..L : n \in 1..L + 1 /\ n # L + 1 /\ b.sessions[n] = d.sessions[n]
    <2>1. L + 1 \in 1..L + 1 /\ \A n \in 1..L : n \in 1..L + 1 /\ n # L + 1
      BY <1>1
    <2> HIDE DEF L
    <2> QED BY <1>3, <2>1
  <1>5. \A n \in 1..L + 1 : OfSession(b.sessions[n]) /\ RowTyped(b.sessions[n], n)
    <2> SUFFICES ASSUME NEW n \in 1..L + 1 PROVE OfSession(b.sessions[n]) /\ RowTyped(b.sessions[n], n)
      OBVIOUS
    <2>1. CASE n = L + 1
      BY <1>4, <2>1
    <2>2. CASE n # L + 1
      <3>1. n \in 1..L
        BY <1>1, <2>2
      <3>2. OfSession(d.sessions[n]) /\ RowTyped(d.sessions[n], n)
        BY <1>1, <3>1 DEF Kept, Rows
      <3> QED BY <1>4, <3>1, <3>2
    <2> QED BY <2>1, <2>2
  <1>6. Kept(b)
    <2>1. Shaped(b)
      BY <1>2, <1>3, <1>5 DEF Shaped, Rows
    <2> QED BY <1>1, <1>2, <1>3, <1>5, <2>1 DEF Kept
  <1>7. \A n \in 1..L : Held(b, n) = Held(d, n)
    BY <1>4 DEF Held
  <1>8. Charges(b) = Charges(d)
    <2> DEFINE f == Costs(d)
               h == Costs(b)
    <2>1. Numbers(f, L) /\ \A n \in 1..L : f[n] = d.sessions[n].cost
      BY CostsAre
    <2>2. Numbers(h, Len(b.sessions)) /\ \A n \in 1..Len(b.sessions) : h[n] = b.sessions[n].cost
      BY <1>6, CostsAre
    <2>3. Charges(d) = Sum(f, 1..L) /\ Charges(b) = Sum(h, 1..L + 1)
      BY <1>3 DEF Charges
    <2> HIDE DEF f, h, L
    <2>4. /\ Numbers(h, L + 1) /\ h[L + 1] = 0 /\ \A n \in 1..L : h[n] = f[n]
      <3>1. L + 1 \in 1..L + 1
        BY <1>1
      <3> QED BY <1>3, <1>4, <2>1, <2>2, <3>1
    <2>5. Sum(h, 1..L + 1) = Sum(f, 1..L) + h[L + 1]
      BY <2>1, <2>4, SumAppended
    <2>6. Sum(f, 1..L) \in Int
      BY <2>1, SumTyped
    <2> QED BY <2>3, <2>4, <2>5, <2>6
  <1>9. Holds(b) = Holds(d) + Held(b, L + 1)
    <2> DEFINE f == Holdings(d)
               h == Holdings(b)
    <2>1. Numbers(f, L) /\ Holds(d) = Sum(f, 1..L) /\ \A n \in 1..L : f[n] = Held(d, n)
      BY HoldsIs
    <2>2. /\ Numbers(h, Len(b.sessions)) /\ Holds(b) = Sum(h, 1..Len(b.sessions))
          /\ \A n \in 1..Len(b.sessions) : h[n] = Held(b, n)
      BY <1>6, HoldsIs
    <2> HIDE DEF f, h, L
    <2>3. /\ Numbers(h, L + 1) /\ h[L + 1] = Held(b, L + 1) /\ \A n \in 1..L : h[n] = f[n]
      <3>1. L + 1 \in 1..L + 1
        BY <1>1
      <3> QED BY <1>3, <1>4, <1>7, <2>1, <2>2, <3>1
    <2>4. Sum(h, 1..L + 1) = Sum(f, 1..L) + h[L + 1]
      BY <2>1, <2>3, SumAppended
    <2> QED BY <1>3, <2>1, <2>2, <2>3, <2>4
  <1> QED BY <1>2, <1>3, <1>4, <1>6, <1>7, <1>8, <1>9

\* A step that adds a session, with the funds it may hold, to what moves no funds.
LEMMA BooksGrow ==
    ASSUME Audited, NEW c, c = Replay(book, Accrual), NEW d, Balanced(c, d), earned' = earned \cup Credited,
           NEW r, OfSession(r), RowTyped(r, Len(sessions) + 1), r.cost = 0,
           book' = Admission(d, [type |-> "admit", session |-> r]),
           strained' \in BOOLEAN,
           ~strained' => ~strained /\ \A n \in Ids : Held(d, n) <= Held(book, n),
           ~strained => Holds(book) + Held(book', Len(sessions) + 1) <= granted + Cardinality(earned) + Accrual.amount,
           scope' = scope, clock' = clock, granted' = granted,
           NEW p, proc' = Append(proc, p),
           p.spent \in Int, p.receipt.total \in Int, p.journal.cost \in Int
    PROVE  BooksInv'
  <1> DEFINE L == Len(sessions)
             h == Held(book', L + 1)
  <1>0. /\ BooksInv /\ Kept(book) /\ Ids = 1..L /\ L \in Nat /\ sessions = book.sessions
    BY Amounts DEF Audited, BooksInv
  <1>1. /\ Kept(c) /\ c.sessions = book.sessions /\ c.spent = book.spent /\ c.rate = book.rate
        /\ c.watermark \in 0..scope.clock /\ earned' \subseteq 1..c.watermark
        /\ Cardinality(earned) \in Nat /\ Accrual.amount \in Nat
        /\ Cardinality(earned') = Cardinality(earned) + Accrual.amount
        /\ c.balance = book.balance + Accrual.amount
    BY Accrued
  <1>2. /\ Kept(d) /\ Len(d.sessions) = L
        /\ d.balance + d.spent = c.balance + c.spent
        /\ d.spent - Charges(d) = c.spent - Charges(c)
        /\ d.rate = c.rate /\ d.watermark = c.watermark
    BY <1>0, <1>1 DEF Balanced
  <1>3. Charges(c) = Charges(book) /\ Charges(book) \in Int /\ Charges(d) \in Int
    <2>1. Charges(c) = Charges(book)
      BY <1>1 DEF Charges, Costs
    <2> QED BY <1>0, <1>2, <2>1, CostsAre
  <1>4. /\ Kept(book') /\ Len(book'.sessions) = L + 1
        /\ book'.balance = d.balance /\ book'.spent = d.spent /\ book'.rate = d.rate /\ book'.watermark = d.watermark
        /\ Charges(book') = Charges(d) /\ Holds(book') = Holds(d) + h
    <2>1. PICK b : b = book'
      OBVIOUS
    <2>2. b = Admission(d, [type |-> "admit", session |-> r]) /\ RowTyped(r, Len(d.sessions) + 1)
      BY <1>2, <2>1
    <2> HIDE DEF L
    <2>3. Kept(b) /\ Len(b.sessions) = Len(d.sessions) + 1
      <3>1. Kept(b)
        BY <1>2, <2>2, RowAdded
      <3>2. Len(b.sessions) = Len(d.sessions) + 1
        BY <1>2, <2>2, RowAdded
      <3> QED BY <3>1, <3>2
    <2>4. b.balance = d.balance /\ b.spent = d.spent /\ b.rate = d.rate /\ b.watermark = d.watermark
      BY <1>2, <2>2, RowAdded
    <2>5. Charges(b) = Charges(d) /\ Holds(b) = Holds(d) + Held(b, Len(d.sessions) + 1)
      BY <1>2, <2>2, RowAdded
    <2> QED BY <1>2, <2>1, <2>3, <2>4, <2>5
  <1>5. h \in Nat
    <2>1. L + 1 \in 1..Len(book'.sessions)
      BY <1>0, <1>4
    <2> HIDE DEF L
    <2> QED BY <1>4, <2>1, HoldsIs
  <1>6. /\ book.balance \in Int /\ book.spent \in Int /\ d.balance \in Int /\ d.spent \in Int
        /\ granted \in Int /\ strained \in BOOLEAN
        /\ book.spent = Charges(book) /\ book.balance + book.spent - granted = Cardinality(earned)
    BY <1>0, <1>2 DEF BooksInv, Kept
  <1>7. book'.spent = Charges(book')
    BY <1>1, <1>2, <1>3, <1>4, <1>6
  <1>8. book'.balance + book'.spent - granted' = Cardinality(earned')
    <2>1. PICK grown \in Nat, funds \in Int, paid \in Int :
            grown = Accrual.amount /\ funds = book.balance /\ paid = book.spent
      BY <1>1, <1>6
    <2>2. c.balance + c.spent = funds + grown + paid
      BY <1>1, <2>1
    <2>3. PICK left \in Int, charged \in Int : left = d.balance /\ charged = d.spent
      BY <1>6
    <2>4. left + charged = funds + grown + paid
      BY <1>2, <2>2, <2>3
    <2>5. funds + paid - granted = Cardinality(earned) /\ Cardinality(earned') = Cardinality(earned) + grown
      BY <1>1, <1>6, <2>1
    <2>6. left + charged - granted = Cardinality(earned')
      <3>1. PICK given \in Int, hours \in Nat : given = granted /\ hours = Cardinality(earned)
        BY <1>1, <1>6
      <3>2. funds + paid - given = hours
        BY <2>5, <3>1
      <3>3. left + charged - given = hours + grown
        BY <2>4, <3>2
      <3> QED BY <2>5, <3>1, <3>3
    <2> QED BY <1>4, <2>3, <2>6
  <1>9. ~strained' => Holds(book') <= granted' + Cardinality(earned')
    <2> SUFFICES ASSUME ~strained' PROVE Holds(book') <= granted' + Cardinality(earned')
      OBVIOUS
    <2>1. Holds(d) <= Holds(book)
      <3>1. \A n \in 1..Len(book.sessions) : Held(d, n) <= Held(book, n)
        BY <1>0
      <3> QED BY <1>0, <1>2, <3>1, HoldsOrdered
    <2>2. Holds(d) \in Int /\ Holds(book) \in Int
      BY <1>0, <1>2, HoldsIs
    <2>3. Holds(book) + h <= granted + Cardinality(earned) + Accrual.amount
      OBVIOUS
    <2> HIDE DEF h
    <2>4. Holds(d) + h <= granted + (Cardinality(earned) + Accrual.amount)
      <3>1. PICK given \in Int, hours \in Nat, grown \in Nat, all \in Int, these \in Int :
              /\ given = granted /\ hours = Cardinality(earned) /\ grown = Accrual.amount
              /\ all = Holds(book) /\ these = Holds(d)
        BY <1>1, <1>6, <2>2
      <3>2. these <= all /\ all + h <= given + hours + grown
        BY <2>1, <2>3, <3>1
      <3>3. these + h <= given + (hours + grown)
        BY <1>5, <3>2
      <3> QED BY <3>1, <3>3
    <2> QED BY <1>1, <1>4, <2>4
  <1>10. /\ book'.rate \in 0..1 /\ book'.watermark \in 0..scope'.clock /\ clock' \in 0..scope'.clock
         /\ granted' \in Int /\ earned' \subseteq 1..book'.watermark
    BY <1>0, <1>1, <1>2, <1>4 DEF BooksInv
  <1>11. \A n \in 1..Len(sessions') :
          proc'[n].spent \in Int /\ proc'[n].receipt.total \in Int /\ proc'[n].journal.cost \in Int
    <2>1. Len(sessions') = L + 1
      BY <1>4 DEF sessions
    <2>2. Listed(proc) /\ Len(proc) = L
      BY DEF Audited, LedgerInv
    <2>3. PICK from, to : from = proc /\ to = proc'
      OBVIOUS
    <2>4. to = Append(from, p) /\ Listed(from)
      BY <2>2, <2>3
    <2>5. \A n \in 1..Len(from) + 1 : to[n] = IF n = Len(from) + 1 THEN p ELSE from[n]
      BY <2>4, ListAppended
    <2> SUFFICES ASSUME NEW n \in 1..L + 1
                 PROVE  to[n].spent \in Int /\ to[n].receipt.total \in Int /\ to[n].journal.cost \in Int
      BY <2>1, <2>3
    <2>6. CASE n = L + 1
      <3>1. to[n] = p
        BY <2>2, <2>3, <2>5, <2>6
      <3> QED BY <3>1
    <2>7. CASE n # L + 1
      <3>1. n \in 1..L /\ to[n] = proc[n]
        BY <1>0, <2>2, <2>3, <2>5, <2>7
      <3> QED BY <1>0, <3>1 DEF BooksInv
    <2> QED BY <2>6, <2>7
  <1> QED BY <1>4, <1>7, <1>8, <1>9, <1>10, <1>11 DEF BooksInv

\* What the sessions hold is what they were charged and what is held back for them.
LEMMA HoldsSplit ==
    ASSUME Audited
    PROVE  /\ Charged = Charges(book) /\ Pending \in Int /\ Charges(book) \in Int
           /\ Holds(book) = Charges(book) + Pending
           /\ \A n \in Ids : Reserved(n) \in Nat
  <1> DEFINE L == Len(sessions)
             f == Costs(book)
             h == [n \in Ids |-> Reserved(n)]
             g == Holdings(book)
  <1>0. /\ Kept(book) /\ Ids = 1..L /\ L \in Nat /\ sessions = book.sessions
        /\ \A n \in Ids : RowTyped(sessions[n], n)
    BY Amounts DEF Audited, BooksInv
  <1>1. Numbers(f, L) /\ (\A n \in 1..L : f[n] = sessions[n].cost) /\ Charges(book) = Sum(f, 1..L) /\ Charges(book) \in Int
    <2>1. Numbers(f, Len(book.sessions)) /\ Charges(book) \in Int
      BY <1>0, CostsAre
    <2>2. \A n \in 1..Len(book.sessions) : f[n] = book.sessions[n].cost
      BY <1>0, CostsAre
    <2>3. Charges(book) = Sum(f, 1..Len(book.sessions))
      BY DEF Charges
    <2> QED BY <1>0, <2>1, <2>2, <2>3
  <1>2. Numbers(g, L) /\ (\A n \in 1..L : g[n] = Held(book, n)) /\ Holds(book) = Sum(g, 1..L)
    <2>1. Numbers(g, Len(book.sessions)) /\ Holds(book) = Sum(g, 1..Len(book.sessions))
      BY <1>0, HoldsIs
    <2>2. \A n \in 1..Len(book.sessions) : g[n] = Held(book, n)
      BY <1>0, HoldsIs
    <2> QED BY <1>0, <2>1, <2>2
  <1>3. \A n \in Ids : Reserved(n) \in Nat
    <2> SUFFICES ASSUME NEW n \in Ids PROVE Reserved(n) \in Nat
      OBVIOUS
    <2>1. /\ sessions[n].estimate \in Nat /\ sessions[n].reserve \in Int
          /\ sessions[n].reserve # None => sessions[n].reserve >= sessions[n].estimate
      BY <1>0 DEF RowTyped
    <2> QED BY <2>1 DEF Reserved
  <1>4. Numbers(h, L) /\ \A n \in 1..L : h[n] = Reserved(n)
    BY <1>0, <1>3 DEF Numbers
  <1>5. \A n \in 1..L : g[n] = f[n] + h[n]
    <2> SUFFICES ASSUME NEW n \in 1..L PROVE g[n] = f[n] + h[n]
      OBVIOUS
    <2>1. Held(book, n) = sessions[n].cost + Reserved(n)
      BY <1>0 DEF Held, Reserved, Settled
    <2> HIDE DEF f, g, h, L
    <2> QED BY <1>1, <1>2, <1>4, <2>1
  <1>6. Sum(g, 1..L) = Sum(f, 1..L) + Sum(h, 1..L)
    <2> HIDE DEF f, g, h, L
    <2>1. \A n \in 1..L : Part(g, 1..L, n) = Part(f, 1..L, n) + Part(h, 1..L, n)
      BY <1>5 DEF Part
    <2> QED BY <1>1, <1>2, <1>4, <2>1, SumJoined
  <1>7. Pending = Sum(h, 1..L) /\ Pending \in Int
    <2>1. Pending = Sum(h, 1..L)
      BY <1>0 DEF Pending
    <2> HIDE DEF h, L
    <2> QED BY <1>4, <2>1, SumTyped
  <1>8. Charged = Charges(book)
    BY <1>0 DEF Charged, Charges, Costs
  <1> QED BY <1>1, <1>2, <1>3, <1>6, <1>7, <1>8

MayStart(w, chain) == Refusal(w, chain) = ""

\* What is left of the balance covers what the sessions hold and one estimate more.
LEMMA Affordable ==
    ASSUME NEW bal \in Int, NEW paid \in Int, NEW given \in Int, NEW hours \in Nat, NEW grown \in Nat,
           NEW due \in Int, NEW needs \in Nat, bal + paid - given = hours, ~(bal + grown - due < needs)
    PROVE  paid + due + needs <= given + hours + grown
  OBVIOUS

\* Who may start a session finds the funds that it may hold.
LEMMA FundsFound ==
    ASSUME Audited, NEW w, NEW chain, MayStart(w, chain)
    PROVE  /\ Holds(book) + Estimate(TRUE) <= granted + Cardinality(earned) + Accrual.amount
           /\ Estimate(TRUE) \in Nat
  <1>1. ~(book.balance + Accrual.amount - Pending < Estimate(TRUE))
    <2>1. CASE book.balance + Accrual.amount - Pending < Estimate(TRUE)
      <3>1. Refusal(w, chain) \in {"repair", "resuming", "cooldown", "calibration", "funding"}
        BY <2>1 DEF Refusal
      <3> QED BY <3>1, Zenon DEF MayStart
    <2> QED BY <2>1
  <1>2. Estimate(TRUE) \in Nat
    BY EstimateTyped
  <1>3. PICK bal \in Int, paid \in Int, given \in Int, hours \in Nat, grown \in Nat, due \in Int, needs \in Nat :
          /\ bal = book.balance /\ paid = book.spent /\ given = granted /\ hours = Cardinality(earned)
          /\ grown = Accrual.amount /\ due = Pending /\ needs = Estimate(TRUE)
    <2>1. book.balance \in Int /\ book.spent \in Int /\ granted \in Int
      BY DEF Audited, BooksInv, Kept
    <2>2. Cardinality(earned) \in Nat /\ Accrual.amount \in Nat
      BY Accrued
    <2> QED BY <1>2, <2>1, <2>2, HoldsSplit
  <1>4. bal + paid - given = hours /\ paid = Charges(book)
    BY <1>3 DEF Audited, BooksInv
  <1>5. Holds(book) = paid + due
    BY <1>3, <1>4, HoldsSplit
  <1>6. ~(bal + grown - due < needs)
    BY <1>1, <1>3, Zenon
  <1>7. paid + due + needs <= given + hours + grown
    BY <1>4, <1>6, Affordable
  <1>8. Holds(book) + Estimate(TRUE) = paid + due + needs
    BY <1>3, <1>5, Zenon
  <1>9. granted + Cardinality(earned) + Accrual.amount = given + hours + grown
    BY <1>3, Zenon
  <1> QED BY <1>2, <1>7, <1>8, <1>9

\* What is kept of a session that was only just admitted.
LEMMA FreshRow ==
    ASSUME Audited, NEW w, NEW chain \in 0..Len(sessions)
    PROVE  /\ OfSession(Fresh(w, chain)) /\ RowTyped(Fresh(w, chain), Len(sessions) + 1)
           /\ Fresh(w, chain).cost = 0 /\ Fresh(w, chain).status = "active"
           /\ Fresh(w, chain).reserve = None /\ Fresh(w, chain).estimate = Estimate(TRUE)
           /\ NewProcess.spent \in Int /\ NewProcess.receipt.total \in Int /\ NewProcess.journal.cost \in Int
  <1> DEFINE r == Fresh(w, chain)
  <1>1. Len(sessions) \in Nat
    BY Amounts
  <1>2. Estimate(TRUE) \in Nat
    BY EstimateTyped
  <1>3. OfSession(r)
    BY DEF Fresh, OfSession, SessionFields
  <1>4. r.cost = 0 /\ r.status = "active" /\ r.reserve = None /\ r.total = None /\ r.lower = None /\ r.tail = None
    BY DEF Fresh
  <1>5. r.estimate = Estimate(TRUE)
    BY Zenon DEF Fresh
  <1>6. r.chain \in 1..Len(sessions) + 1
    <2>1. r.chain = IF chain = 0 THEN Len(sessions) + 1 ELSE chain
      BY Zenon DEF Fresh
    <2>2. PICK L \in Nat : L = Len(sessions)
      BY <1>1
    <2>3. chain \in 0..L /\ r.chain = IF chain = 0 THEN L + 1 ELSE chain
      BY <2>1, <2>2
    <2> HIDE DEF r
    <2>4. r.chain \in 1..L + 1
      BY <2>3
    <2> QED BY <2>2, <2>4
  <1>7. r.estimate \in Nat
    BY <1>2, <1>5
  <1>8. NewProcess.spent \in Int /\ NewProcess.receipt.total \in Int /\ NewProcess.journal.cost \in Int
    BY DEF NewProcess, NoReceipt, NoEvidence, None
  <1> HIDE DEF r
  <1>9. RowTyped(r, Len(sessions) + 1)
    BY <1>4, <1>6, <1>7 DEF RowTyped, None
  <1> QED BY <1>3, <1>4, <1>5, <1>8, <1>9 DEF r

\* A session that is admitted holds what it was estimated at, and that was free.
LEMMA AdmittedBooks ==
    ASSUME Audited, scope' = scope, NEW w, NEW chain \in 0..Len(sessions), MayStart(w, chain),
           book' = Replayed(book, <<Accrual>> \o (OrphanEvents \o <<[type |-> "admit", session |-> Fresh(w, chain)]>>)),
           earned' = earned \cup Credited,
           strained' = (strained \/ \E n \in Ids : Held(book', n) > Held(book, n)),
           clock' = clock, granted' = granted, proc' = Append(proc, NewProcess)
    PROVE  BooksInv'
  <1> DEFINE r == Fresh(w, chain)
             e == [type |-> "admit", session |-> r]
             acc == Accrual
             c == Replay(book, acc)
             d == Replayed(c, OrphanEvents)
  <1>1. OfSession(r) /\ RowTyped(r, Len(sessions) + 1)
    BY FreshRow
  <1>2. r.cost = 0 /\ r.status = "active" /\ r.reserve = None /\ r.estimate = Estimate(TRUE)
    BY FreshRow
  <1>3. /\ NewProcess.spent \in Int /\ NewProcess.receipt.total \in Int /\ NewProcess.journal.cost \in Int
    BY FreshRow
  <1>4. c.sessions = book.sessions /\ Kept(c)
    BY Accrued
  <1>5. Bill(book, OrphanEvents, {})
    BY OrphansBill
  <1>6. PICK X : OrphanEvents \in Seq(X)
    BY <1>5 DEF Bill
  <1>7. e.type = "admit" /\ Replay(d, e) = Admission(d, e)
    BY DEF Replay
  <1>8. book' = Replayed(book, <<acc>> \o (OrphanEvents \o <<e>>))
    OBVIOUS
  <1>9. c = Replay(book, Accrual)
    OBVIOUS
  <1>10. Len(sessions) = Len(book.sessions) /\ Len(sessions) \in Nat /\ Ids = 1..Len(sessions)
    BY Amounts
  <1> HIDE DEF acc, e, r
  <1>11. book' = Replayed(c, OrphanEvents \o <<e>>)
    <2> DEFINE u == OrphanEvents \o <<e>>
               Y == X \cup {e}
    <2>1. u \in Seq(Y)
      <3> DEFINE v == OrphanEvents
                 t == <<e>>
      <3>1. t \in Seq(Y)
        OBVIOUS
      <3>2. v \in Seq(Y)
        <4>1. v \in Seq(X)
          BY <1>6
        <4> HIDE DEF v
        <4> QED BY <4>1
      <3> HIDE DEF v, t, Y
      <3>3. v \o t \in Seq(Y)
        BY <3>1, <3>2
      <3> QED BY <3>3 DEF v, t
    <2> HIDE DEF u
    <2>2. Replayed(book, <<acc>> \o u) = Replayed(Replay(book, acc), u)
      BY <2>1, ReplayedFirst
    <2>3. book' = Replayed(book, <<acc>> \o u)
      BY <1>8 DEF u
    <2> QED BY <2>2, <2>3 DEF u
  <1> HIDE DEF c
  <1>12. Replayed(c, OrphanEvents \o <<e>>) = Replay(Replayed(c, OrphanEvents), e)
    BY <1>6, ReplayedLast
  <1>13. book' = Admission(d, e)
    BY <1>7, <1>11, <1>12
  <1>14. Balanced(c, d)
    <2>1. Bill(c, OrphanEvents, {})
      BY <1>4, <1>5, SameBill
    <2> QED BY <1>4, <2>1, BillReplayed
  <1> HIDE DEF d
  <1>15. Kept(d) /\ Len(d.sessions) = Len(sessions)
    BY <1>4, <1>10, <1>14 DEF Balanced
  <1>16. book' = Admission(d, [type |-> "admit", session |-> r])
    BY <1>13 DEF e
  <1>17. /\ \A n \in 1..Len(sessions) : Held(book', n) = Held(d, n)
         /\ book'.sessions[Len(sessions) + 1] = r
    <2>1. PICK b : b = book'
      OBVIOUS
    <2>2. b = Admission(d, [type |-> "admit", session |-> r]) /\ RowTyped(r, Len(d.sessions) + 1)
      BY <1>1, <1>15, <1>16, <2>1
    <2>3. \A n \in 1..Len(d.sessions) : Held(b, n) = Held(d, n)
      BY <1>1, <1>2, <1>15, <2>2, RowAdded, Zenon
    <2>4. b.sessions[Len(d.sessions) + 1] = r
      <3>1. b.sessions = Append(d.sessions, r) /\ Listed(d.sessions)
        BY <1>15, <2>2 DEF Admission, Kept, Shaped, Rows, BookFields
      <3> QED BY <3>1, ListAppended DEF Listed
    <2> QED BY <1>15, <2>1, <2>3, <2>4
  <1>18. Held(book', Len(sessions) + 1) = Estimate(TRUE)
    <2>1. PICK x \in Nat : x = Estimate(TRUE)
      BY EstimateTyped
    <2>2. r.estimate = x /\ r.cost = 0
      BY <1>2, <2>1, Zenon
    <2>3. r.status # "settled" /\ r.reserve = None
      BY <1>2
    <2>4. Held(book', Len(sessions) + 1) = 0 + x
      BY <1>17, <2>2, <2>3 DEF Held
    <2>5. Held(book', Len(sessions) + 1) = x
      BY <2>4
    <2> QED BY <2>1, <2>5, Zenon
  <1>19. strained' \in BOOLEAN /\ (~strained' => ~strained /\ \A n \in Ids : Held(d, n) <= Held(book, n))
    <2>1. \A n \in Ids : Held(d, n) \in Nat /\ Held(book, n) \in Nat
      <3>1. Kept(book)
        BY DEF Audited, BooksInv
      <3> QED BY <1>10, <1>15, <3>1, HoldsIs
    <2>2. \A n \in Ids : Held(book', n) = Held(d, n)
      BY <1>10, <1>17
    <2>3. strained \in BOOLEAN
      BY DEF Audited, BooksInv
    <2>4. strained' \in BOOLEAN
      BY <2>3
    <2>5. ASSUME ~strained', NEW n \in Ids PROVE Held(d, n) <= Held(book, n)
      <3>1. ~(Held(book', n) > Held(book, n))
        BY <2>5, Zenon
      <3>2. PICK x \in Nat, y \in Nat : x = Held(d, n) /\ y = Held(book, n)
        BY <2>1, <2>5
      <3>3. ~(x > y)
        BY <2>2, <2>5, <3>1, <3>2, Zenon
      <3>4. x <= y
        BY <3>3
      <3> QED BY <3>2, <3>4
    <2> QED BY <2>4, <2>5
  <1>20. Holds(book) + Held(book', Len(sessions) + 1) <= granted + Cardinality(earned) + Accrual.amount
    <2>1. Holds(book) + Estimate(TRUE) <= granted + Cardinality(earned) + Accrual.amount
      BY FundsFound
    <2> QED BY <1>18, <2>1, Zenon
  <1>21. c = Replay(book, Accrual)
    BY <1>9
  <1> QED BY <1>1, <1>2, <1>3, <1>14, <1>16, <1>19, <1>20, <1>21, BooksGrow

\* A request that is refused moves no funds.
LEMMA AdmitBooks ==
    ASSUME Audited, scope' = scope, NEW w, NEW chain \in 0..Len(sessions), Admit(w, chain) PROVE BooksInv'
  <1>1. clock' = clock /\ granted' = granted
    BY DEF Admit, Ordinary
  <1>2. CASE MayStart(w, chain)
    <2> DEFINE u == OrphanEvents \o <<[type |-> "admit", session |-> Fresh(w, chain)]>>
    <2>1. /\ Transact(u)
          /\ IF torn' THEN UNCHANGED <<proc, queue>>
             ELSE proc' = Append(proc, NewProcess) /\ queue' = Dequeued(w)
      BY <1>2, Zenon DEF Admit, MayStart
    <2> HIDE DEF u
    <2>2. CASE UNCHANGED <<book, earned, strained>> /\ torn' = TRUE
      BY <1>1, <2>1, <2>2 DEF Audited, BooksInv, sessions
    <2>3. CASE /\ book' = Replayed(book, <<Accrual>> \o u)
               /\ earned' = earned \cup Credited
               /\ strained' = (strained \/ \E n \in Ids : Held(book', n) > Held(book, n))
               /\ ~torn'
      <3>1. proc' = Append(proc, NewProcess)
        BY <2>1, <2>3
      <3>2. /\ book' = Replayed(book, <<Accrual>> \o (OrphanEvents \o <<[type |-> "admit", session |-> Fresh(w, chain)]>>))
            /\ earned' = earned \cup Credited
            /\ strained' = (strained \/ \E n \in Ids : Held(book', n) > Held(book, n))
        BY <2>3 DEF u
      <3> QED BY <1>1, <1>2, <3>1, <3>2, AdmittedBooks
    <2>4. \/ UNCHANGED <<book, earned, strained>> /\ torn' = TRUE
          \/ /\ book' = Replayed(book, <<Accrual>> \o u)
             /\ earned' = earned \cup Credited
             /\ strained' = (strained \/ \E n \in Ids : Held(book', n) > Held(book, n))
             /\ ~torn'
      <3>1. Transact(u)
        BY <2>1
      <3> QED BY <3>1 DEF Transact, Credited
    <2> QED BY <2>2, <2>3, <2>4
  <1>3. CASE ~MayStart(w, chain)
    <2>1. proc' = proc /\ (Transact(OrphanEvents) \/ UNCHANGED <<book, earned, strained>>)
      BY <1>3, Zenon DEF Admit, MayStart
    <2>2. CASE Transact(OrphanEvents)
      <3>1. Bill(book, OrphanEvents, {})
        BY OrphansBill
      <3> QED BY <1>1, <2>1, <2>2, <3>1, BillTransacted
    <2>3. CASE UNCHANGED <<book, earned, strained>>
      BY <1>1, <2>1, <2>3 DEF Audited, BooksInv, sessions
    <2> QED BY <2>1, <2>2, <2>3
  <1> QED BY <1>2, <1>3

\* The marker of a repair holds nothing.
LEMMA MarkerRow ==
    ASSUME Audited
    PROVE  /\ OfSession(RepairMarker) /\ RowTyped(RepairMarker, Len(sessions) + 1)
           /\ RepairMarker.cost = 0 /\ RepairMarker.status = "unresolved"
           /\ RepairMarker.reserve = None /\ RepairMarker.estimate = 0
           /\ Inert.spent \in Int /\ Inert.receipt.total \in Int /\ Inert.journal.cost \in Int
  <1> DEFINE f == Fresh("ledger-repair", 0)
             r == [f EXCEPT !.status = "unresolved", !.estimate = 0]
  <1>1. 0 \in 0..Len(sessions)
    BY Amounts
  <1>2. OfSession(f) /\ RowTyped(f, Len(sessions) + 1) /\ f.cost = 0 /\ f.reserve = None
    <2>1. PICK w, chain : w = "ledger-repair" /\ chain = 0
      OBVIOUS
    <2>2. OfSession(Fresh(w, chain)) /\ RowTyped(Fresh(w, chain), Len(sessions) + 1)
          /\ Fresh(w, chain).cost = 0 /\ Fresh(w, chain).reserve = None
      BY <1>1, <2>1, FreshRow
    <2> QED BY <2>1, <2>2
  <1>3. f.tail = None
    BY DEF Fresh
  <1> HIDE DEF f
  <1>4. OfSession(r)
    BY <1>2 DEF OfSession, SessionFields
  <1>5. /\ r.cost = f.cost /\ r.chain = f.chain /\ r.total = f.total /\ r.lower = f.lower
        /\ r.reserve = f.reserve /\ r.tail = f.tail /\ r.status = "unresolved" /\ r.estimate = 0
    BY <1>2 DEF OfSession, SessionFields
  <1>6. RepairMarker = r
    BY DEF RepairMarker, f
  <1> HIDE DEF r
  <1>7. RowTyped(r, Len(sessions) + 1)
    BY <1>2, <1>3, <1>5 DEF RowTyped, None
  <1>8. Inert.spent \in Int /\ Inert.receipt.total \in Int /\ Inert.journal.cost \in Int
    BY DEF Inert, NoReceipt, NoEvidence, None
  <1> QED BY <1>2, <1>4, <1>5, <1>6, <1>7, <1>8

LEMMA RepairBooks ==
    ASSUME Audited, scope' = scope, Repair PROVE BooksInv'
  <1> DEFINE r == RepairMarker
             acc == Accrual
             e == [type |-> "admit", session |-> r]
             c == Replay(book, acc)
  <1>1. /\ book' = Replayed(book, <<acc, e>>) /\ earned' = earned \cup Credited /\ proc' = Append(proc, Inert)
        /\ strained' = strained /\ clock' = clock /\ granted' = granted
    BY DEF Repair, Credited
  <1>2. OfSession(r) /\ RowTyped(r, Len(sessions) + 1) /\ r.cost = 0
    BY MarkerRow
  <1>3. r.status = "unresolved" /\ r.reserve = None /\ r.estimate = 0
    BY MarkerRow
  <1>4. Inert.spent \in Int /\ Inert.receipt.total \in Int /\ Inert.journal.cost \in Int
    BY MarkerRow
  <1>5. /\ c.sessions = book.sessions /\ Kept(c)
        /\ Cardinality(earned) \in Nat /\ Accrual.amount \in Nat
    BY Accrued
  <1>6. e.type = "admit" /\ Replay(c, e) = Admission(c, e)
    BY DEF Replay
  <1>7. Len(sessions) = Len(book.sessions) /\ Len(sessions) \in Nat /\ Ids = 1..Len(sessions)
    BY Amounts
  <1>8. c = Replay(book, Accrual)
    OBVIOUS
  <1> HIDE DEF acc, e, r
  <1>9. book' = Replay(Replay(book, acc), e)
    <2>1. <<e>> \in Seq({e})
      OBVIOUS
    <2>2. Replayed(book, <<acc>> \o <<e>>) = Replayed(Replay(book, acc), <<e>>)
      BY <2>1, ReplayedFirst, ZenonT(60)
    <2>3. <<acc>> \o <<e>> = <<acc, e>>
      BY PairJoined
    <2>4. Replayed(Replay(book, acc), <<e>>) = Replay(Replay(book, acc), e)
      BY ReplayedOne
    <2> QED BY <1>1, <2>2, <2>3, <2>4
  <1> HIDE DEF c
  <1>10. book' = Admission(c, [type |-> "admit", session |-> r])
    BY <1>6, <1>9 DEF c, e
  <1>11. Balanced(c, c)
    BY <1>5, BalancedItself
  <1>12. Held(book', Len(sessions) + 1) = 0
    <2>1. PICK b : b = book'
      OBVIOUS
    <2>2. b.sessions = Append(c.sessions, r) /\ Listed(c.sessions)
      BY <1>5, <1>10, <2>1 DEF Admission, Kept, Shaped, Rows, BookFields
    <2>3. b.sessions[Len(c.sessions) + 1] = r
      BY <2>2, ListAppended DEF Listed
    <2> QED BY <1>2, <1>3, <1>5, <1>7, <2>1, <2>3 DEF Held
  <1>13. ~strained => Holds(book) + Held(book', Len(sessions) + 1) <= granted + Cardinality(earned) + Accrual.amount
    <2>1. Holds(book) \in Int /\ granted \in Int /\ (~strained => Holds(book) <= granted + Cardinality(earned))
      BY HoldsIs DEF Audited, BooksInv
    <2>2. PICK all \in Int, given \in Int, hours \in Nat, grown \in Nat :
            all = Holds(book) /\ given = granted /\ hours = Cardinality(earned) /\ grown = Accrual.amount
      BY <1>5, <2>1
    <2>3. ASSUME ~strained PROVE all + 0 <= given + hours + grown
      <3>1. all <= given + hours
        BY <2>1, <2>2, <2>3
      <3> QED BY <3>1
    <2> QED BY <1>12, <2>2, <2>3
  <1>14. strained' \in BOOLEAN /\ (~strained' => ~strained /\ \A n \in Ids : Held(c, n) <= Held(book, n))
    <2>1. \A n \in Ids : Held(book, n) \in Nat
      <3>1. Kept(book)
        BY DEF Audited, BooksInv
      <3> QED BY <1>7, <3>1, HoldsIs
    <2>2. \A n \in Ids : Held(c, n) = Held(book, n)
      BY <1>5 DEF Held
    <2>3. \A n \in Ids : Held(c, n) <= Held(book, n)
      BY <2>1, <2>2
    <2>4. strained \in BOOLEAN
      BY DEF Audited, BooksInv
    <2> QED BY <1>1, <2>3, <2>4
  <1>15. c = Replay(book, Accrual)
    BY <1>8
  <1> QED BY <1>1, <1>2, <1>4, <1>10, <1>11, <1>13, <1>14, <1>15, BooksGrow

-----------------------------------------------------------------------------
\* A process that leaves evidence moves no funds.
LEMMA EvidenceBooks ==
    ASSUME Audited, scope' = scope, book' = book, clock' \in 0..scope.clock,
           granted' = granted, earned' = earned, strained' = strained,
           \A n \in 1..Len(sessions) :
               proc'[n].spent \in Int /\ proc'[n].receipt.total \in Int /\ proc'[n].journal.cost \in Int
    PROVE  BooksInv'
  BY DEF Audited, BooksInv, sessions

LEMMA ProcessBooks ==
    ASSUME Audited, scope' = scope, NEW n \in Ids,
           \/ Checkpoint(n) \/ BridgeCloses(n)
           \/ \E spent \in scope.costs, receipt \in {"final", "free", "killed"}, left \in scope.journals :
                  Exit(n, spent, receipt, left)
    PROVE  BooksInv'
  <1> DEFINE L == Len(sessions)
             o == proc[n]
             Typed(p) == p.spent \in Int /\ p.receipt.total \in Int /\ p.journal.cost \in Int
  <1>0. /\ L \in Nat /\ Ids = 1..L /\ clock \in 0..scope.clock /\ Listed(proc) /\ Len(proc) = L
        /\ \A m \in 1..L : OfProcess(proc[m]) /\ Typed(proc[m])
    BY Amounts DEF Audited, BooksInv, LedgerInv
  <1>1. Cumulative(n) \in Int
    <2> DEFINE f == [m \in Ids |-> proc[m].spent]
               S == {m \in Ids : m < n /\ sessions[m].chain = sessions[n].chain}
    <2>1. Numbers(f, L)
      BY <1>0 DEF Numbers
    <2>2. Cumulative(n) = Sum(f, S)
      BY DEF Cumulative
    <2> HIDE DEF f, S, L
    <2> QED BY <2>1, <2>2, SumTyped
  <1>2. OfProcess(o) /\ Typed(o)
    BY <1>0
  <1>3. PICK p : /\ Typed(p) /\ proc' = [proc EXCEPT ![n] = p]
                 /\ UNCHANGED <<book, clock, granted, earned, strained>>
    <2>1. CASE Checkpoint(n)
      <3> DEFINE t == Cumulative(n)
                 p == [o EXCEPT !.receipt = [kind |-> "prefix", total |-> t]]
      <3>1. proc' = [proc EXCEPT ![n] = p] /\ UNCHANGED <<book, clock, granted, earned, strained>>
        BY <2>1 DEF Checkpoint, hist
      <3>2. t \in Int
        BY <1>1
      <3> HIDE DEF t, o
      <3>3. Typed(p)
        BY <1>2, <3>2 DEF OfProcess, ProcFields
      <3> HIDE DEF p, Typed
      <3> QED BY <3>1, <3>3
    <2>2. CASE BridgeCloses(n)
      <3> DEFINE p == [o EXCEPT !.bridge = FALSE]
      <3>1. proc' = [proc EXCEPT ![n] = p] /\ UNCHANGED <<book, clock, granted, earned, strained>>
        BY <2>2 DEF BridgeCloses, hist
      <3> HIDE DEF o
      <3>2. Typed(p)
        BY <1>2 DEF OfProcess, ProcFields
      <3> HIDE DEF p, Typed
      <3> QED BY <3>1, <3>2
    <2>3. ASSUME NEW spent \in scope.costs, NEW receipt \in {"final", "free", "killed"}, NEW left \in scope.journals,
                 Exit(n, spent, receipt, left)
          PROVE  \E p : /\ Typed(p) /\ proc' = [proc EXCEPT ![n] = p]
                        /\ UNCHANGED <<book, clock, granted, earned, strained>>
      <3> DEFINE t == Cumulative(n)
                 given == CASE receipt = "final" -> [kind |-> "final", total |-> t + spent]
                            [] receipt = "free" -> [kind |-> "free", total |-> 0]
                            [] receipt = "killed" -> o.receipt
                 p == [live |-> FALSE, bridge |-> o.bridge, spent |-> spent, journal |-> left, receipt |-> given]
      <3>1. proc' = [proc EXCEPT ![n] = p]
        BY <2>3 DEF Exit
      <3>2. UNCHANGED <<book, clock, granted, earned, strained>>
        BY <2>3 DEF Exit, hist
      <3>3. spent \in Int /\ left.cost \in Int
        BY Bounds
      <3>4. t \in Int
        BY <1>1
      <3>5. given.total \in Int
        <4> HIDE DEF t, o
        <4> QED BY <1>2, <3>3, <3>4
      <3> HIDE DEF given
      <3>6. Typed(p)
        BY <3>3, <3>5
      <3> HIDE DEF p, Typed
      <3> QED BY <3>1, <3>2, <3>6
    <2> HIDE DEF Typed
    <2> QED BY <2>1, <2>2, <2>3
  <1>4. \A m \in 1..L : Typed(proc'[m])
    <2>1. DOMAIN proc = 1..L /\ proc = [m \in 1..L |-> proc[m]]
      BY <1>0 DEF Listed
    <2> HIDE DEF L, Typed
    <2> SUFFICES ASSUME NEW m \in 1..L PROVE Typed(proc'[m])
      OBVIOUS
    <2>2. proc'[m] = IF m = n THEN p ELSE proc[m]
      BY <1>3, <2>1
    <2> QED BY <1>0, <1>3, <2>2
  <1> QED BY <1>0, <1>3, <1>4, EvidenceBooks

-----------------------------------------------------------------------------
LEMMA BooksStart ==
    ASSUME BudgetAssumption, BudgetInit PROVE BooksInv
  <1>1. /\ book = [balance |-> scope.funds, spent |-> 0, rate |-> 0, watermark |-> 0, cooling |-> 0, sessions |-> << >>]
        /\ scope \in Instances /\ clock = 0 /\ granted = book.balance /\ earned = {} /\ strained = FALSE
    BY DEF BudgetInit
  <1>2. scope.funds \in Nat /\ scope.clock \in Nat
    BY <1>1 DEF BudgetAssumption
  <1>3. /\ book.sessions = << >> /\ book.balance = scope.funds /\ book.spent = 0 /\ book.rate = 0 /\ book.watermark = 0
        /\ book = [f \in BookFields |-> book[f]]
    BY <1>1 DEF BookFields
  <1>4. Rows(book.sessions) /\ Len(book.sessions) = 0
    BY <1>3 DEF Rows, Listed
  <1>5. Kept(book)
    BY <1>2, <1>3, <1>4 DEF Kept, Shaped
  <1>6. Charges(book) = 0 /\ Holds(book) = 0
    <2>1. Numbers(Costs(book), 0) /\ Charges(book) = Sum(Costs(book), 1..0)
      <3>1. Numbers(Costs(book), Len(book.sessions))
        BY <1>5, CostsAre
      <3> QED BY <1>4, <3>1 DEF Charges
    <2>2. Numbers(Holdings(book), 0) /\ Holds(book) = Sum(Holdings(book), 1..0)
      <3>1. Numbers(Holdings(book), Len(book.sessions)) /\ Holds(book) = Sum(Holdings(book), 1..Len(book.sessions))
        BY <1>5, HoldsIs
      <3> QED BY <1>4, <3>1
    <2>3. ASSUME NEW f, Numbers(f, 0) PROVE Sum(f, 1..0) = 0
      <3> DEFINE S == 1..0
      <3> HIDE DEF S
      <3>1. PICK g : g[0] = 0 /\ Sum(f, S) = g[0]
        BY <2>3, SumIs
      <3> QED BY <3>1 DEF S
    <2> QED BY <2>1, <2>2, <2>3
  <1>7. Cardinality(earned) = 0
    BY <1>1, FS_EmptySet
  <1>8. 1..Len(sessions) = {}
    BY <1>4 DEF sessions
  <1>9. book.balance + book.spent - granted = Cardinality(earned)
    BY <1>1, <1>2, <1>3, <1>7
  <1>10. Holds(book) <= granted + Cardinality(earned)
    BY <1>1, <1>2, <1>3, <1>6, <1>7
  <1>11. /\ book.rate \in 0..1 /\ book.watermark \in 0..scope.clock /\ clock \in 0..scope.clock
         /\ granted \in Int /\ earned \subseteq 1..book.watermark /\ strained \in BOOLEAN
         /\ book.spent = Charges(book)
    <2>1. book.rate \in 0..1 /\ book.watermark \in 0..scope.clock
      BY <1>2, <1>3
    <2>2. clock \in 0..scope.clock /\ granted \in Int
      <3>1. clock = 0 /\ granted = book.balance
        BY <1>1
      <3> QED BY <1>2, <1>3, <3>1
    <2>3. earned \subseteq 1..book.watermark /\ strained \in BOOLEAN
      BY <1>1
    <2>4. book.spent = Charges(book)
      BY <1>3, <1>6
    <2> QED BY <2>1, <2>2, <2>3, <2>4
  <1> QED BY <1>5, <1>8, <1>9, <1>10, <1>11 DEF BooksInv

LEMMA BooksStep ==
    ASSUME Audited, [BudgetNext]_ledgervars PROVE BooksInv'
  <1>0. clock \in 0..scope.clock /\ Len(sessions) \in Nat
        /\ \A n \in 1..Len(sessions) :
               proc[n].spent \in Int /\ proc[n].receipt.total \in Int /\ proc[n].journal.cost \in Int
    BY Amounts DEF Audited, BooksInv
  <1>1. CASE UNCHANGED ledgervars
    <2>1. /\ scope' = scope /\ proc' = proc /\ book' = book /\ clock' = clock
          /\ granted' = granted /\ earned' = earned /\ strained' = strained
      BY <1>1 DEF ledgervars, hist
    <2> QED BY <1>0, <2>1, EvidenceBooks
  <1>2. CASE BudgetNext
    <2>0. scope' = scope
      BY <1>2 DEF BudgetNext
    <2>1. ASSUME NEW w \in scope.workers, TicketLapses(w) \/ Preflight(w) PROVE BooksInv'
      <3>1. /\ proc' = proc /\ book' = book /\ clock' = clock
            /\ granted' = granted /\ earned' = earned /\ strained' = strained
        BY <2>1 DEF TicketLapses, Preflight, hist
      <3> QED BY <1>0, <2>0, <3>1, EvidenceBooks
    <2>2. ASSUME NEW w \in scope.workers, NEW chain \in Chains, Admit(w, chain) PROVE BooksInv'
      <3>1. chain \in 0..Len(sessions)
        <4>1. CASE sessions # << >>
          <5>1. Len(sessions) # 0
            <6>1. Listed(sessions)
              BY DEF Audited, BooksInv, Kept, Shaped, Rows, sessions
            <6>2. CASE Len(sessions) = 0
              <7>1. 1..Len(sessions) = {}
                BY <6>2
              <7>2. sessions = << >>
                BY <6>1, <7>1 DEF Listed
              <7> QED BY <4>1, <7>2
            <6> QED BY <6>2
          <5> QED BY <1>0, <5>1 DEF Chains
        <4>2. CASE sessions = << >>
          BY <4>2 DEF Chains
        <4> QED BY <4>1, <4>2
      <3> QED BY <2>0, <2>2, <3>1, AdmitBooks
    <2>3. ASSUME NEW n \in Ids,
                 \/ Checkpoint(n) \/ BridgeCloses(n) \/ Cooldown(n)
                 \/ SettleFinal(n) \/ SettleFree(n) \/ SettlePrefix(n)
                 \/ RecoverUsage(n) \/ SettleUnknown(n)
                 \/ \E cost \in scope.costs : Reconcile(n, cost)
                 \/ \E estimate \in Comparable(n) : RecoverStopped(n, estimate)
                 \/ \E spent \in scope.costs, receipt \in {"final", "free", "killed"},
                       left \in scope.journals : Exit(n, spent, receipt, left)
          PROVE  BooksInv'
      <3>1. CASE \/ Checkpoint(n) \/ BridgeCloses(n)
                 \/ \E spent \in scope.costs, receipt \in {"final", "free", "killed"},
                       left \in scope.journals : Exit(n, spent, receipt, left)
        BY <2>0, <3>1, ProcessBooks
      <3>2. CASE Cooldown(n)
        BY <2>0, <3>2, CooldownBooks
      <3>3. CASE SettleFinal(n)
        BY <2>0, <3>3, SettleFinalBooks
      <3>4. CASE SettleFree(n)
        BY <2>0, <3>4, SettleFreeBooks
      <3>5. CASE SettlePrefix(n)
        BY <2>0, <3>5, SettlePrefixBooks
      <3>6. CASE RecoverUsage(n)
        BY <2>0, <3>6, RecoverUsageBooks
      <3>7. CASE SettleUnknown(n)
        BY <2>0, <3>7, SettleUnknownBooks
      <3>8. CASE \E cost \in scope.costs : Reconcile(n, cost)
        BY <2>0, <3>8, ReconcileBooks
      <3>9. CASE \E estimate \in Comparable(n) : RecoverStopped(n, estimate)
        BY <2>0, <3>9, RecoverStoppedBooks
      <3> QED BY <2>3, <3>1, <3>2, <3>3, <3>4, <3>5, <3>6, <3>7, <3>8, <3>9
    <2>4. CASE ConfigureGrant \/ \E rate \in 0..1 : ConfigureRate(rate)
      BY <2>0, <2>4, ConfigureBooks
    <2>5. CASE Repair
      BY <2>0, <2>5, RepairBooks
    <2>6. ASSUME NEW hour \in 0..scope.clock, ClockStep(hour) PROVE BooksInv'
      <3>1. /\ proc' = proc /\ book' = book /\ clock' = hour
            /\ granted' = granted /\ earned' = earned /\ strained' = strained
        BY <2>6 DEF ClockStep, hist
      <3> QED BY <1>0, <2>0, <3>1, EvidenceBooks
    <2>7. CASE \E n \in Ids : \/ Checkpoint(n) \/ BridgeCloses(n) \/ Cooldown(n)
                              \/ SettleFinal(n) \/ SettleFree(n) \/ SettlePrefix(n)
                              \/ RecoverUsage(n) \/ SettleUnknown(n)
                              \/ \E cost \in scope.costs : Reconcile(n, cost)
                              \/ \E estimate \in Comparable(n) : RecoverStopped(n, estimate)
                              \/ \E spent \in scope.costs, receipt \in {"final", "free", "killed"},
                                    left \in scope.journals : Exit(n, spent, receipt, left)
      BY <2>3, <2>7, Zenon
    <2>8. CASE \E w \in scope.workers : TicketLapses(w) \/ Preflight(w) \/ \E chain \in Chains : Admit(w, chain)
      BY <2>1, <2>2, <2>8, Zenon
    <2>9. CASE \E hour \in 0..scope.clock : ClockStep(hour)
      BY <2>6, <2>9, Zenon
    <2> QED BY <1>2, <2>4, <2>5, <2>7, <2>8, <2>9, Zenon DEF BudgetNext
  <1> QED BY <1>1, <1>2

\* What the invariant says of the books, the balance and what is held back.
LEMMA BooksMean ==
    ASSUME Audited PROVE BudgetTypeOK /\ BooksBalance /\ NeverOverlaunched
  <1>0. /\ Len(sessions) \in Nat /\ Ids = 1..Len(sessions)
        /\ \A n \in Ids : RowTyped(sessions[n], n)
    BY Amounts
  <1>1. BudgetTypeOK
    <2>1. /\ book.rate \in 0..1 /\ book.watermark \in 0..scope.clock /\ torn \in BOOLEAN
          /\ Len(proc) = Len(sessions) /\ clock \in 0..scope.clock
      BY DEF Audited, BooksInv, LedgerInv
    <2>2. ASSUME NEW n \in Ids
          PROVE  /\ sessions[n].status \in {"active", "unresolved", "provisional", "settled"}
                 /\ sessions[n].cost >= 0 /\ sessions[n].chain \in 1..n
                 /\ ~Settled(n) /\ ~Marker(n) => Reserved(n) >= sessions[n].estimate
      <3>1. RowTyped(sessions[n], n)
        BY <1>0
      <3> QED BY <3>1 DEF RowTyped, Reserved
    <2> QED BY <2>1, <2>2 DEF BudgetTypeOK
  <1>2. BooksBalance
    BY HoldsSplit DEF BooksBalance, Audited, BooksInv
  <1>3. NeverOverlaunched
    <2> SUFFICES ASSUME ~strained PROVE book.balance >= Pending
      BY DEF NeverOverlaunched
    <2>1. /\ book.balance \in Int /\ book.spent \in Int /\ granted \in Int
          /\ book.spent = Charges(book) /\ book.balance + book.spent - granted = Cardinality(earned)
          /\ Holds(book) <= granted + Cardinality(earned)
      BY DEF Audited, BooksInv, Kept
    <2>2. Holds(book) = Charges(book) + Pending /\ Pending \in Int
      BY HoldsSplit
    <2>3. Cardinality(earned) \in Nat
      BY Accrued
    <2>4. PICK bal \in Int, paid \in Int, given \in Int, hours \in Nat, due \in Int :
            /\ bal = book.balance /\ paid = book.spent /\ given = granted
            /\ hours = Cardinality(earned) /\ due = Pending
      BY <2>1, <2>2, <2>3
    <2>5. bal + paid - given = hours
      BY <2>1, <2>4
    <2>6. paid + due <= given + hours
      BY <2>1, <2>2, <2>4
    <2>7. bal >= due
      BY <2>5, <2>6
    <2> QED BY <2>4, <2>7
  <1> QED BY <1>1, <1>2, <1>3

LEMMA BooksGoOn ==
    ASSUME BudgetAssumption, LedgerInv, BooksInv, [BudgetNext]_ledgervars
    PROVE  LedgerInv' /\ BooksInv'
  BY LedgerKept, BooksStep DEF Audited

LEMMA BooksSafe ==
    ASSUME BudgetAssumption, LedgerInv, BooksInv
    PROVE  BudgetTypeOK /\ BooksBalance /\ NeverOverlaunched /\ SettledHasStopped
  <1>1. SettledHasStopped
    BY Invocations DEF LedgerInv, SettledHasStopped
  <1> QED BY <1>1, BooksMean DEF Audited

\* The balance is what was granted and accrued less what the sessions are charged, and covers what is held
\* back for the open ones as long as none came to hold more than it was admitted for, whatever receipts,
\* prefixes, journals and corrections arrive in which order.  (replay, accrue, admit, settle_receipt)
THEOREM BooksAreSound == BudgetAssumption => (BudgetSpec => [](BudgetTypeOK /\ BooksBalance /\ NeverOverlaunched))
  <1> SUFFICES ASSUME BudgetAssumption PROVE BudgetSpec => [](BudgetTypeOK /\ BooksBalance /\ NeverOverlaunched)
    OBVIOUS
  <1>1. BudgetInit => LedgerInv /\ BooksInv
    BY LedgerStart, BooksStart
  <1>2. LedgerInv /\ BooksInv /\ [BudgetNext]_ledgervars => LedgerInv' /\ BooksInv'
    BY BooksGoOn
  <1>3. LedgerInv /\ BooksInv => BudgetTypeOK /\ BooksBalance /\ NeverOverlaunched
    BY BooksSafe
  <1> QED BY <1>1, <1>2, <1>3, PTL DEF BudgetSpec
=============================================================================
