------------------------------ MODULE VerifyJobs ------------------------------
(***************************************************************************)
(* The durable verification jobs of one worker: the agent's own            *)
(* tauceti-verify (verification.py), the continuation of an interrupted    *)
(* one by the supervisor (verification_jobs.py) and the collector that     *)
(* takes the build outputs back (verification_storage.py).  They meet on   *)
(* disk only: a job record, the copy of the candidate the job continues    *)
(* in, the index of build evidence, the storage generation, the removal    *)
(* journal, and three advisory locks that a killed process drops.          *)
(*                                                                         *)
(* A run has two phases here: the build, whose evidence may be reused, and *)
(* the rest.  Only copies carry evidence: the collector never touches the  *)
(* builds of the agent's checkout.                                         *)
(***************************************************************************)
EXTENDS Naturals, FiniteSets

CONSTANTS Nothing,     \* no job, no record, nobody
          Jobs,        \* job identifiers, used up as invocations start
          Helpers,     \* continuation processes of the supervisor
          MaxFresh,    \* bound: verifications of the checkout
          MaxEdits,    \* bound: edits of the checkout and of the copies
          MaxUpsets,   \* bound: deadlines, disk pressure, kills and edits
          MaxGens      \* bound: evictions of a copy

Checkout == "checkout"

VARIABLES version,     \* what the checkout and each copy contain
          copy,        \* the copies: none, part, whole
          builds,      \* the builds of each copy: whole, torn by a removal, lost
          marker,      \* verification-copy-incomplete: what is being copied
          pend,        \* verification-pending
          done,        \* verification-jobs
          index,       \* verification-job-index: tree and content to job
          evidence,    \* verification-index: fingerprints of proven builds
          gen,         \* verification-storage-generations
          journal,     \* verification-storage: [stack, gen, copying]
          jlock,       \* who has the job lock open
          slock,       \* who holds the storage lock
          run,         \* the agent's invocation and the helpers
          sup,         \* the supervisor: its step, the job, what it read
          child,       \* the helper the supervisor remembers
          gc,          \* the collector: its step and the job
          bound        \* verifications, edits and upsets so far

verifyvars == <<version, copy, builds, marker, pend, done, index, evidence, gen,
                journal, jlock, slock, run, sup, child, gc, bound>>

records == <<pend, done, index>>
copies == <<version, copy, builds, marker>>
storage == <<evidence, gen, journal>>
locks == <<jlock, slock>>

Trees == Jobs \cup {Checkout}
Runners == Helpers \cup {"agent"}
\* A record names what it was proven of by tree, content and generation.
Fingerprints == (Trees \X (0..MaxEdits) \X (0..MaxGens)) \cup {Nothing}
JobRecords == [root : Trees, src : 0..MaxEdits, isolated : BOOLEAN, fp : Fingerprints,
               status : {"pending", "incomplete", "success", "failed"}]
VerifyAssumption ==
  /\ MaxEdits \in Nat /\ MaxGens \in Nat \ {0} /\ Checkout \notin Jobs
  /\ Helpers \cap {"agent", "sup", "gc"} = {}
  /\ Nothing \notin Jobs /\ Nothing \notin Helpers \cup {"agent", "gc"} /\ Nothing \notin JobRecords
  /\ Nothing \notin 0..MaxEdits

NoRun == [at |-> "off", job |-> Nothing, tree |-> Checkout, src |-> 0,
          rec |-> Nothing, fp |-> Nothing, exit |-> "ended"]
NoSup == [at |-> "idle", job |-> Nothing, rec |-> Nothing]
NoChild == [helper |-> Nothing, job |-> Nothing]
NoGc == [at |-> "idle", job |-> Nothing, gen |-> 0]
NoJournal == [stack |-> FALSE, gen |-> 0, copying |-> FALSE]

VerifyTypeOK ==
  /\ version \in [Trees -> 0..MaxEdits]
  /\ copy \in [Jobs -> {"none", "part", "whole"}]
  /\ builds \in [Jobs -> {"whole", "torn", "lost"}]
  /\ \A j \in Jobs : /\ marker[j] \in 0..MaxEdits \cup {Nothing}
                     /\ jlock[j] \subseteq Helpers \cup {"sup", "gc"}
                     /\ slock[j] \in Runners \cup {"gc", Nothing}
                     /\ gen[j] \in 0..MaxGens
                     /\ journal[j].gen \in 0..MaxGens
  /\ \A x \in Runners :
       run[x].at \in {"off", "prepare", "bind", "build", "index", "rest", "copy", "copied",
                      "publish", "settle", "unlink"}
  /\ sup.at \in {"idle", "looked", "copy", "copied", "own", "launch", "drop"}
  /\ gc.at \in {"idle", "discard", "generation", "journal", "remove", "inventory"}
  /\ child.helper \in Helpers \cup {Nothing}

VerifyInit ==
  /\ version = [t \in Trees |-> 0]
  /\ copy = [j \in Jobs |-> "none"]
  /\ builds = [j \in Jobs |-> "lost"]
  /\ marker = [j \in Jobs |-> Nothing]
  /\ pend = [j \in Jobs |-> Nothing] /\ done = [j \in Jobs |-> Nothing]
  /\ index = [k \in Trees \X (0..MaxEdits) |-> Nothing]
  /\ evidence = {}
  /\ gen = [j \in Jobs |-> 0]
  /\ journal = [j \in Jobs |-> NoJournal]
  /\ jlock = [j \in Jobs |-> {}] /\ slock = [j \in Jobs |-> Nothing]
  /\ run = [x \in Runners |-> NoRun]
  /\ sup = NoSup /\ child = NoChild /\ gc = NoGc
  /\ bound = [fresh |-> 0, edits |-> 0, upsets |-> 0]

-----------------------------------------------------------------------------
\* Helpers.

On(x, step) == run[x].at = step
Move(x, step) == run' = [run EXCEPT ![x].at = step]
IsCopy(t) == t # Checkout
Present(t) == IsCopy(t) => copy[t] = "whole"
Upset == bound.upsets < MaxUpsets /\ bound' = [bound EXCEPT !.upsets = @ + 1]

\* A run's live.lock is held as long as the run lives; the job names it from
\* prepare_job on.
LeaseFree(j) == \A x \in Runners : run[x].at \notin {"off", "prepare"} => run[x].job # j

\* _has_removal: a journalled removal of a tree that still exists.
Removing(j) == copy[j] # "none" /\ (journal[j].stack \/ journal[j].copying)

\* The record of a job that ended this way.
Ended(rec, status) == [rec EXCEPT !.status = status]

\* The locks a process held go with it.
SupLocks == [j \in Jobs |-> jlock[j] \ {"sup"}]
RunLocks(x) ==
  /\ jlock' = [j \in Jobs |-> jlock[j] \ {x}]
  /\ slock' = [j \in Jobs |-> IF slock[j] = x THEN Nothing ELSE slock[j]]
LeaveRun(x, how) ==
  /\ run' = [run EXCEPT ![x] = [NoRun EXCEPT !.exit = how]]
  /\ RunLocks(x)

-----------------------------------------------------------------------------
\* Verification.run, by the agent in a tree and by a helper in its copy.

\* The agent edits the checkout, or a copy it was told of.
EditTree(t) ==
  /\ bound.edits < MaxEdits /\ Present(t)
  /\ bound.upsets < MaxUpsets
  /\ bound' = [bound EXCEPT !.edits = @ + 1, !.upsets = @ + 1]
  /\ version' = [version EXCEPT ![t] = bound.edits + 1]
  /\ UNCHANGED <<copy, builds, marker, records, storage, locks, run, sup, child, gc>>

\* prepare_job: the same candidate with a job under way is refused.
Duplicate(key) ==
  LET old == index[key] IN
  old # Nothing /\ pend[old] # Nothing /\ done[old] = Nothing

\* The agent verifies the checkout, or an older candidate directly; that one
\* is locked, must not be half removed, and loses its copy marker.
AgentVerifies(t, j) ==
  LET key == <<t, version[t]>>
      rec == [root |-> t, src |-> version[t], isolated |-> FALSE,
              fp |-> Nothing, status |-> "pending"] IN
  /\ On("agent", "off") /\ Present(t)
  /\ pend[j] = Nothing /\ done[j] = Nothing /\ ~ \E k \in Trees \X (0..MaxEdits) : index[k] = j
  /\ IsCopy(t) => slock[t] = Nothing /\ ~Removing(t)
  /\ slock' = IF IsCopy(t) THEN [slock EXCEPT ![t] = "agent"] ELSE slock
  /\ marker' = IF IsCopy(t) THEN [marker EXCEPT ![t] = Nothing] ELSE marker
  /\ ~Duplicate(key)
  /\ IF IsCopy(t) THEN UNCHANGED bound
     ELSE bound.fresh < MaxFresh /\ bound' = [bound EXCEPT !.fresh = @ + 1]
  /\ index' = [index EXCEPT ![key] = j]
  /\ pend' = [pend EXCEPT ![j] = rec]
  /\ run' = [run EXCEPT !["agent"] = [NoRun EXCEPT !.at = "bind", !.job = j, !.tree = t,
                                                   !.src = version[t], !.rec = rec]]
  /\ UNCHANGED <<version, copy, builds, done, storage, jlock, sup, child, gc>>

\* finish_job with a verdict or with nothing to resume: first the record ...
Conclude(x, status) ==
  LET j == run[x].job IN
  /\ done' = [done EXCEPT ![j] = Ended(run[x].rec, status)]
  /\ Move(x, "unlink")
  /\ UNCHANGED <<copies, pend, index, storage, locks, sup, child, gc, bound>>

\* ... then the pending one goes, and the process ends.
Unlinked(x) ==
  /\ On(x, "unlink")
  /\ pend' = [pend EXCEPT ![run[x].job] = Nothing]
  /\ LeaveRun(x, "ended")
  /\ UNCHANGED <<copies, done, index, storage, sup, child, gc, bound>>

\* A helper names its own receipt in the job, which has no fingerprint yet.
Prepare(x) ==
  /\ On(x, "prepare")
  /\ pend' = [pend EXCEPT ![run[x].job] = run[x].rec]
  /\ Move(x, "bind")
  /\ UNCHANGED <<copies, done, index, storage, locks, sup, child, gc, bound>>

\* The inputs: the sources once more, and the generation of the copy.
Unchanged(x) == Present(run[x].tree) /\ version[run[x].tree] = run[x].src
Generation(t) == IF IsCopy(t) THEN gen[t] ELSE 0

Bind(x) ==
  LET fp == <<run[x].tree, run[x].src, Generation(run[x].tree)>> IN
  /\ On(x, "bind") /\ Unchanged(x)
  /\ run' = [run EXCEPT ![x].at = "build", ![x].fp = fp, ![x].rec.fp = fp]
  /\ pend' = IF pend[run[x].job] = Nothing THEN pend
               ELSE [pend EXCEPT ![run[x].job].fp = fp]
  /\ UNCHANGED <<copies, done, index, storage, locks, sup, child, gc, bound>>

\* find_reuse: the evidence of exactly these inputs spares the build.
Reuses(x) == run[x].fp \in evidence

ReuseBuild(x) ==
  /\ On(x, "build") /\ Reuses(x) /\ Unchanged(x)
  /\ Move(x, "rest")
  /\ UNCHANGED <<copies, records, storage, locks, sup, child, gc, bound>>

DoBuild(x) ==
  LET t == run[x].tree IN
  /\ On(x, "build") /\ ~Reuses(x) /\ Unchanged(x)
  /\ builds' = IF IsCopy(t) THEN [builds EXCEPT ![t] = "whole"] ELSE builds
  /\ Move(x, IF IsCopy(t) THEN "index" ELSE "rest")
  /\ UNCHANGED <<version, copy, marker, records, storage, locks, sup, child, gc, bound>>

\* index_success, after the inputs were found unchanged.
IndexBuild(x) ==
  /\ On(x, "index") /\ Unchanged(x)
  /\ evidence' = evidence \cup {run[x].fp}
  /\ Move(x, "rest")
  /\ UNCHANGED <<copies, records, gen, journal, locks, sup, child, gc, bound>>

Judged(x) ==
  /\ On(x, "rest") /\ Unchanged(x)
  /\ \E verdict \in {"success", "failed"} : Conclude(x, verdict)

\* The candidate was edited under the run.
FoundEdited(x) ==
  /\ run[x].at \in {"bind", "build", "index", "rest"} /\ ~Unchanged(x)
  /\ Conclude(x, "incomplete")

\* A deadline, a signal, missing tools: preserve first what is not isolated.
Interrupted(x) ==
  /\ run[x].at \in {"bind", "build", "rest"} /\ Upset
  /\ Move(x, IF run[x].rec.isolated THEN "settle" ELSE "copy")
  /\ UNCHANGED <<copies, records, storage, locks, sup, child, gc>>

\* Disk pressure: a copy of its own waits, anything else has ended.
Pressed(x) ==
  LET j == run[x].job IN
  /\ run[x].at \in {"prepare", "bind", "build", "rest"} /\ Upset
  /\ IF run[x].rec.isolated
       THEN Move(x, "settle") /\ UNCHANGED done
       ELSE Move(x, "unlink") /\ done' = [done EXCEPT ![j] = Ended(run[x].rec, "incomplete")]
  /\ UNCHANGED <<copies, pend, index, storage, locks, sup, child, gc>>

-----------------------------------------------------------------------------
\* preserve_candidate: a copy becomes the job's workspace.

\* reserve, where no tree stands.
FreshJournal(j) == NoJournal

\* What was there is a partial copy, and goes with its journal; the marker
\* says whose the new one is.
CopyBegins(x) ==
  LET j == run[x].job IN
  /\ On(x, "copy")
  /\ copy' = [copy EXCEPT ![j] = "part"]
  /\ builds' = [builds EXCEPT ![j] = "lost"]
  /\ marker' = [marker EXCEPT ![j] = version[run[x].tree]]
  /\ journal' = [journal EXCEPT ![j] = FreshJournal(j)]
  /\ Move(x, "copied")
  /\ UNCHANGED <<version, records, evidence, gen, locks, sup, child, gc, bound>>

\* The copy is whole, builds included or not, and compared with the job.
CopyEnds(x) ==
  LET j == run[x].job IN
  /\ On(x, "copied")
  /\ copy' = [copy EXCEPT ![j] = "whole"]
  /\ version' = [version EXCEPT ![j] = marker[j]]
  /\ \E b \in {"whole", "lost"} : builds' = [builds EXCEPT ![j] = b]
  /\ IF Unchanged(x) /\ marker[j] = run[x].src
       THEN Move(x, "publish") /\ UNCHANGED done
       ELSE Move(x, "unlink") /\ done' = [done EXCEPT ![j] = Ended(run[x].rec, "incomplete")]
  /\ UNCHANGED <<marker, pend, index, storage, locks, sup, child, gc, bound>>

\* The snapshot failed: what there is of it is removed.
CopyFails(x) ==
  LET j == run[x].job IN
  /\ On(x, "copied") /\ Upset
  /\ copy' = [copy EXCEPT ![j] = "none"]
  /\ marker' = [marker EXCEPT ![j] = Nothing]
  /\ done' = [done EXCEPT ![j] = Ended(run[x].rec, "incomplete")]
  /\ Move(x, "unlink")
  /\ UNCHANGED <<version, builds, pend, index, storage, locks, sup, child, gc>>

Isolated(rec, j) == [rec EXCEPT !.root = j, !.isolated = TRUE]

PublishCopy(x) ==
  LET j == run[x].job IN
  /\ On(x, "publish")
  /\ pend' = [pend EXCEPT ![j] = Isolated(run[x].rec, j)]
  /\ run' = [run EXCEPT ![x].at = "settle", ![x].rec = Isolated(run[x].rec, j)]
  /\ UNCHANGED <<copies, done, index, storage, locks, sup, child, gc, bound>>

\* commit_copy, and finish_job's last word: the job waits.
Parked(x) ==
  LET j == run[x].job IN
  /\ On(x, "settle")
  /\ marker' = [marker EXCEPT ![j] = Nothing]
  /\ pend' = [pend EXCEPT ![j] = run[x].rec]
  /\ LeaveRun(x, "ended")
  /\ UNCHANGED <<version, copy, builds, done, index, storage, sup, child, gc, bound>>

-----------------------------------------------------------------------------
\* resume_pending: one look at the records, then the locks, then the work,
\* all of it on what the look read.

SupFree == sup.at = "idle" /\ child = NoChild

\* A terminal record outlived an interrupted unlink.
Tidied(j) ==
  /\ SupFree /\ pend[j] # Nothing /\ done[j] # Nothing
  /\ pend' = [pend EXCEPT ![j] = Nothing]
  /\ UNCHANGED <<copies, done, index, storage, locks, run, sup, child, gc, bound>>

\* The look: a job whose time has come and whose missing tools have changed.
Look(j) ==
  /\ SupFree /\ pend[j] # Nothing /\ done[j] = Nothing
  /\ sup' = [at |-> "looked", job |-> j, rec |-> pend[j]]
  /\ UNCHANGED <<copies, records, storage, locks, run, child, gc, bound>>

\* Someone else holds the job.
Busy ==
  /\ sup.at = "looked" /\ (jlock[sup.job] # {} \/ ~LeaseFree(sup.job))
  /\ sup' = NoSup
  /\ UNCHANGED <<copies, records, storage, locks, run, child, gc, bound>>

SourceAsRead == Present(sup.rec.root) /\ version[sup.rec.root] = sup.rec.src

\* The source is inventoried; a job without a copy of its own gets one, and
\* whatever stands in its place goes first.
TakeJob ==
  /\ sup.at = "looked" /\ jlock[sup.job] = {} /\ LeaseFree(sup.job)
  /\ jlock' = [jlock EXCEPT ![sup.job] = {"sup"}]
  /\ sup' = [sup EXCEPT !.at = IF ~SourceAsRead THEN "drop"
                               ELSE IF sup.rec.isolated THEN "own" ELSE "copy"]
  /\ UNCHANGED <<copies, records, storage, slock, run, child, gc, bound>>

SupCopyBegins ==
  LET j == sup.job IN
  /\ sup.at = "copy"
  /\ copy' = [copy EXCEPT ![j] = "part"]
  /\ builds' = [builds EXCEPT ![j] = "lost"]
  /\ marker' = [marker EXCEPT ![j] = version[sup.rec.root]]
  /\ journal' = [journal EXCEPT ![j] = FreshJournal(j)]
  /\ sup' = [sup EXCEPT !.at = "copied"]
  /\ UNCHANGED <<version, records, evidence, gen, locks, run, child, gc, bound>>

SupCopyEnds ==
  LET j == sup.job IN
  /\ sup.at = "copied"
  /\ copy' = [copy EXCEPT ![j] = "whole"]
  /\ version' = [version EXCEPT ![j] = marker[j]]
  /\ \E b \in {"whole", "lost"} : builds' = [builds EXCEPT ![j] = b]
  /\ sup' = [sup EXCEPT !.at = IF marker[j] = sup.rec.src THEN "own" ELSE "drop"]
  /\ UNCHANGED <<marker, records, storage, locks, run, child, gc, bound>>

\* Back to the queue, to be tried later.
Deferred(rec) ==
  /\ pend' = [pend EXCEPT ![sup.job] = rec]
  /\ sup' = NoSup
  /\ jlock' = SupLocks

\* No room for the copy: it is removed again.
SupCopyPressed ==
  /\ sup.at = "copied" /\ Upset
  /\ copy' = [copy EXCEPT ![sup.job] = "none"]
  /\ marker' = [marker EXCEPT ![sup.job] = Nothing]
  /\ Deferred(sup.rec)
  /\ UNCHANGED <<version, builds, done, index, storage, slock, run, child, gc>>

Own ==
  /\ sup.at = "own"
  /\ pend' = [pend EXCEPT ![sup.job] = Isolated(sup.rec, sup.job)]
  /\ sup' = [sup EXCEPT !.at = "launch", !.rec = Isolated(sup.rec, sup.job)]
  /\ UNCHANGED <<copies, done, index, storage, locks, run, child, gc, bound>>

\* reserve: a half removed copy is the collector's to finish first.
LaunchWaits ==
  /\ sup.at = "launch"
  /\ marker' = [marker EXCEPT ![sup.job] = Nothing]
  /\ \/ Removing(sup.job) /\ UNCHANGED bound
     \/ Upset
  /\ Deferred(sup.rec)
  /\ UNCHANGED <<version, copy, builds, done, index, storage, slock, run, child, gc>>

\* pass_fds: the helper keeps the lock the supervisor drops.
InheritsLock(h) == {h}

\* A helper that does not get the storage lock goes back to waiting.
LaunchHelper(h) ==
  LET j == sup.job IN
  /\ sup.at = "launch" /\ ~Removing(j) /\ On(h, "off") /\ pend[j] # Nothing
  /\ marker' = [marker EXCEPT ![j] = Nothing]
  /\ run' = [run EXCEPT ![h] = [NoRun EXCEPT !.job = j, !.tree = j, !.src = sup.rec.src,
                !.rec = [pend[j] EXCEPT !.fp = Nothing],
                !.at = IF slock[j] = Nothing THEN "prepare" ELSE "settle"]]
  /\ slock' = IF slock[j] = Nothing THEN [slock EXCEPT ![j] = h] ELSE slock
  /\ jlock' = [jlock EXCEPT ![j] = InheritsLock(h)]
  /\ child' = [helper |-> h, job |-> j] /\ sup' = NoSup
  /\ UNCHANGED <<version, copy, builds, records, storage, gc, bound>>

\* Whatever cannot be continued ends: the record first, then the pending one.
DropJob ==
  LET j == sup.job IN
  /\ sup.at = "drop"
  /\ done' = [done EXCEPT ![j] = Ended(sup.rec, "incomplete")]
  /\ pend' = [pend EXCEPT ![j] = Nothing]
  /\ sup' = NoSup /\ jlock' = SupLocks
  /\ UNCHANGED <<copies, index, storage, slock, run, child, gc, bound>>

\* _settle_child: a killed helper leaves its job pending, one that gave no
\* durable result ends it.
Reap ==
  LET j == child.job IN
  /\ sup.at = "idle" /\ child # NoChild /\ On(child.helper, "off")
  /\ child' = NoChild
  /\ IF pend[j] # Nothing /\ run[child.helper].exit = "error"
       THEN /\ done' = [done EXCEPT ![j] = Ended(pend[j], "incomplete")]
            /\ pend' = [pend EXCEPT ![j] = Nothing]
       ELSE UNCHANGED <<pend, done>>
  /\ UNCHANGED <<copies, index, storage, locks, run, sup, gc, bound>>

-----------------------------------------------------------------------------
\* The collector: _compact of one copy, in slices.

GcTakes(j) == /\ jlock[j] = {} /\ slock[j] = Nothing /\ LeaseFree(j)
              /\ jlock' = [jlock EXCEPT ![j] = {"gc"}]
              /\ slock' = [slock EXCEPT ![j] = "gc"]
GcLeaves(j) == /\ jlock' = [jlock EXCEPT ![j] = {}]
               /\ slock' = [slock EXCEPT ![j] = Nothing]
               /\ gc' = NoGc

JobRecord(j) == IF pend[j] # Nothing THEN pend[j] ELSE done[j]

\* Mutant: any copy with a construction marker is a failed one.
EvenIsolated(j, rec) == marker[j] = rec.src

\* A failed copy: the marker names this job's source, and the job does not
\* live in the copy.
FailedCopy(j, rec) == ~rec.isolated /\ marker[j] = rec.src

\* Locks, the job, a failed copy or builds to evict; the evidence of the
\* receipt the job names goes first.
Collect(j) ==
  LET rec == JobRecord(j) IN
  /\ gc.at = "idle" /\ copy[j] # "none" /\ rec # Nothing
  /\ GcTakes(j)
  /\ IF FailedCopy(j, rec)
       THEN /\ journal' = [journal EXCEPT ![j].copying = TRUE]
            /\ gc' = [NoGc EXCEPT !.at = "discard", !.job = j]
            /\ UNCHANGED evidence
       ELSE /\ builds[j] # "lost" \/ journal[j].stack
            /\ journal[j].gen = 0 => gen[j] < MaxGens
            /\ evidence' = evidence \ {rec.fp}
            /\ gc' = [at |-> "generation", job |-> j,
                      gen |-> IF journal[j].gen = 0 THEN gen[j] + 1 ELSE journal[j].gen]
            /\ UNCHANGED journal
  /\ UNCHANGED <<copies, records, gen, run, sup, child, bound>>

\* The failed copy goes bit by bit, then its marker and its journal.
Discard ==
  LET j == gc.job IN
  /\ gc.at = "discard"
  /\ \/ /\ copy[j] = "whole" /\ copy' = [copy EXCEPT ![j] = "part"]
        /\ UNCHANGED <<marker, journal, gc, locks>>
     \/ /\ copy[j] = "part" /\ copy' = [copy EXCEPT ![j] = "none"]
        /\ marker' = [marker EXCEPT ![j] = Nothing]
        /\ journal' = [journal EXCEPT ![j] = NoJournal]
        /\ GcLeaves(j)
  /\ UNCHANGED <<version, builds, records, evidence, gen, run, sup, child, bound>>

\* A generation of its own for this eviction, unless the journal has one.
NewGeneration ==
  /\ gc.at = "generation"
  /\ gen' = [gen EXCEPT ![gc.job] = gc.gen]
  /\ gc' = [gc EXCEPT !.at = "journal"]
  /\ UNCHANGED <<copies, records, evidence, journal, locks, run, sup, child, bound>>

\* The intent is on disk before the first deletion.
Intent == [stack |-> TRUE, gen |-> gc.gen, copying |-> FALSE]

Journalled ==
  /\ gc.at = "journal"
  /\ journal' = [journal EXCEPT ![gc.job] = Intent]
  /\ gc' = [gc EXCEPT !.at = "remove"]
  /\ UNCHANGED <<copies, records, evidence, gen, locks, run, sup, child, bound>>

\* The first file goes; the last one takes the stack with it.
RemoveSome ==
  /\ gc.at = "remove" /\ builds[gc.job] = "whole"
  /\ builds' = [builds EXCEPT ![gc.job] = "torn"]
  /\ UNCHANGED <<version, copy, marker, records, storage, locks, run, sup, child, gc, bound>>

RemoveRest ==
  /\ gc.at = "remove" /\ builds[gc.job] # "whole"
  /\ builds' = [builds EXCEPT ![gc.job] = "lost"]
  /\ journal' = [journal EXCEPT ![gc.job].stack = FALSE]
  /\ gc' = [gc EXCEPT !.at = "inventory"]
  /\ UNCHANGED <<version, copy, marker, records, evidence, gen, locks, run, sup, child, bound>>

\* The source that is left is measured; only then the journal goes.
Inventoried ==
  /\ gc.at = "inventory"
  /\ journal' = [journal EXCEPT ![gc.job] = NoJournal]
  /\ GcLeaves(gc.job)
  /\ UNCHANGED <<copies, records, evidence, gen, run, sup, child, bound>>

\* The slice is used up: the locks go, the journal stays.
SliceEnds ==
  /\ gc.at \in {"discard", "remove", "inventory"} /\ Upset
  /\ GcLeaves(gc.job)
  /\ UNCHANGED <<copies, records, storage, run, sup, child>>

-----------------------------------------------------------------------------
\* Killed processes: their locks are dropped, what is on disk stays.

KillRun(x) ==
  /\ ~On(x, "off") /\ Upset
  /\ LeaveRun(x, "ended")
  /\ UNCHANGED <<copies, records, storage, sup, child, gc>>

\* The helper fails before it can write anything.
HelperErrs(h) ==
  /\ On(h, "prepare") /\ Upset
  /\ LeaveRun(h, "error")
  /\ UNCHANGED <<copies, records, storage, sup, child, gc>>

\* A new supervisor knows no child; the helper goes on without it.
KillSup ==
  /\ (sup.at # "idle" \/ child # NoChild) /\ Upset
  /\ sup' = NoSup /\ child' = NoChild /\ jlock' = SupLocks
  /\ UNCHANGED <<copies, records, storage, slock, run, gc>>

KillGc ==
  /\ gc.at # "idle" /\ Upset
  /\ GcLeaves(gc.job)
  /\ UNCHANGED <<copies, records, storage, run, sup, child>>

-----------------------------------------------------------------------------
RunStep(x) ==
  \/ Unlinked(x) \/ Prepare(x) \/ Bind(x) \/ ReuseBuild(x) \/ DoBuild(x) \/ IndexBuild(x)
  \/ Judged(x) \/ FoundEdited(x) \/ CopyBegins(x) \/ CopyEnds(x)
  \/ PublishCopy(x) \/ Parked(x)
RunFault(x) == Interrupted(x) \/ Pressed(x) \/ CopyFails(x) \/ KillRun(x)
SupStep ==
  \/ Busy \/ TakeJob \/ SupCopyBegins \/ SupCopyEnds \/ SupCopyPressed \/ Own
  \/ LaunchWaits \/ (\E h \in Helpers : LaunchHelper(h)) \/ DropJob \/ Reap
GcStep ==
  \/ Discard \/ NewGeneration \/ Journalled \/ RemoveSome \/ RemoveRest
  \/ Inventoried

VerifyNext ==
  \/ \E t \in Trees : EditTree(t)
  \/ \E t \in Trees, j \in Jobs : AgentVerifies(t, j)
  \/ \E x \in Runners : RunStep(x) \/ RunFault(x)
  \/ \E j \in Jobs : Tidied(j) \/ Look(j) \/ Collect(j)
  \/ SupStep \/ GcStep \/ SliceEnds
  \/ (\E h \in Helpers : HelperErrs(h)) \/ KillSup \/ KillGc

VerifySpec == VerifyInit /\ [][VerifyNext]_verifyvars

\* Processes run on, and the supervisor goes on looking, after a collection
\* that takes up what an earlier one left; nobody has to start a verification
\* or an eviction.
VerifyFairness ==
  /\ \A x \in Runners : WF_verifyvars(RunStep(x))
  /\ WF_verifyvars(SupStep) /\ WF_verifyvars(GcStep)
  /\ \A j \in Jobs : /\ SF_verifyvars(Look(j)) /\ WF_verifyvars(Tidied(j))
                     /\ SF_verifyvars(Removing(j) /\ Collect(j))
VerifyFairSpec == VerifySpec /\ VerifyFairness

-----------------------------------------------------------------------------
\* Properties.

\* No run works in a copy while the collector removes from it, or after one
\* that was interrupted in its removal: the job and storage locks while it
\* lives, the journal after it was killed.
NoRunOnRemains ==
  \A x \in Runners, j \in Jobs :
    (run[x].tree = j /\ run[x].at \in {"prepare", "bind", "build", "index", "rest"})
      => builds[j] # "torn" /\ (gc.at # "idle" => gc.job # j)

\* Two helpers never work on one job, even across the restart of the
\* supervisor that launched the first: the helper keeps the job's lock.
OneHelper ==
  \A h, i \in Helpers : (h # i /\ ~On(h, "off") /\ ~On(i, "off"))
                            => run[h].job # run[i].job

\* The collector never takes the copy that a job lives in.
CopySpared ==
  \A j \in Jobs : (gc.at = "discard" /\ gc.job = j) => ~JobRecord(j).isolated

\* Together: who works in a copy, and what is thrown away.
CopiesSafe == VerifyTypeOK /\ NoRunOnRemains /\ OneHelper /\ CopySpared

\* A build that was taken away is never reused: whoever passes the build
\* phase on earlier evidence finds its outputs whole.  The model violates it with
\* MaxUpsets = 4: see the README's findings.
ReuseIsWhole ==
  \A x \in Runners : (On(x, "build") /\ Reuses(x) /\ IsCopy(run[x].tree))
                        => builds[run[x].tree] = "whole"

\* Every job ends: with a verdict or as incomplete.
NotPending(j) == pend[j] = Nothing
=============================================================================
