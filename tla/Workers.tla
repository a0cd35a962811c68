------------------------------ MODULE Workers -------------------------------
(***************************************************************************)
(* The worker manager of one host (worker_manager.py), for one worker: the *)
(* file of wanted workers, the manager that reconciles, the wrapper it     *)
(* launches (cmd_managed_runner) and the driver loop the wrapper starts    *)
(* (cmd_loop).  They know of each other by a lock, a socket and a status   *)
(* file, which three processes write.  Any of them may be killed.          *)
(*                                                                         *)
(* Time is abstract: a back-off is over when DelayOver says so.            *)
(***************************************************************************)
EXTENDS Naturals, FiniteSets

CONSTANTS Slots,     \* wrappers that may exist at once
          Gens,      \* definitions of the worker: natural numbers
          Soft,      \* pairs of definitions that differ in the read policy alone
          Policies,  \* restart policies
          MaxActs,   \* bound: acts of the operator and faults
          MaxFaults, \* bound: faults (kills, shutdowns, status writes that fail)
          MaxCount   \* restart_count saturates here

WorkersAssumption ==
    /\ 0 \notin Slots /\ 1 \in Gens /\ Gens \subseteq Nat \ {0} /\ Soft \subseteq SUBSET Gens
    /\ Policies \subseteq {"always", "on-failure", "never"}
    /\ {MaxActs, MaxFaults, MaxCount} \subseteq Nat

VARIABLES
    policy,  \* the restart policy of the worker
    config,  \* workers.toml: is the worker in it, enabled, which definition; can the file be read
    cli,     \* the command of the operator that is under way
    file,    \* the status file of the worker
    ripe,    \* the back-off that the status file calls for is over
    mgr,     \* the manager and its memory
    runner,  \* the wrappers, each with its loop
    edits, faults, \* what has happened so far
    ended,   \* history: the definition whose last loop ended well by itself, unless its status was removed, until a run is asked for
    cut      \* history: a round was cut short for a change of the read policy

vars == <<policy, config, cli, file, ripe, mgr, runner, edits, faults, ended, cut>>

Loops == {"idle", "busy"}      \* a loop that holds the slot of the worker
NoSpec == [there |-> FALSE, enabled |-> FALSE, gen |-> 0]
NoRunner == [st |-> "none", gen |-> 0, loop |-> "none", stop |-> FALSE, rc |-> "none"]
NoFile == [by |-> 0, gen |-> 0, state |-> "none", exit |-> "none", stopped |-> FALSE, count |-> 0]
NoOutcome == [gen |-> 0, rc |-> "none"]
NoFailure == [gen |-> 0, ripe |-> TRUE]
NoLook == [alive |-> FALSE, gen |-> 0, calm |-> FALSE]
MgrDown == [pc |-> "down", known |-> FALSE, spec |-> NoSpec, restart |-> FALSE, enable |-> FALSE, child |-> 0,
            outcome |-> NoOutcome, failure |-> NoFailure, look |-> NoLook]

Locked(r) == runner[r].st \in {"locked", "up", "ending"}
Alive == \E r \in Slots : Locked(r)
SlotHeld == \E r \in Slots : runner[r].loop \in Loops \cup {"ending"}
Sound == [there |-> config.there, enabled |-> config.enabled, gen |-> config.gen]
Reserve == {r \in Slots : runner[r] = NoRunner}
Stopping(rs) == [r \in Slots |-> IF r \in rs THEN [runner[r] EXCEPT !.stop = TRUE] ELSE runner[r]]

-----------------------------------------------------------------------------
(* The operator: workers add, remove, enable, disable, restart. *)

Faulted == faults < MaxFaults /\ edits + faults < MaxActs /\ faults' = faults + 1
Edited == edits + faults < MaxActs /\ cli = "none" /\ edits' = edits + 1

EditSpec(gen) ==
    /\ Edited /\ config' = [config EXCEPT !.there = TRUE, !.gen = gen] /\ config' # config
    /\ ended' = (IF config.there THEN ended ELSE 0)
    /\ UNCHANGED <<policy, cli, file, ripe, mgr, runner, faults, cut>>
Remove ==
    /\ Edited /\ config.there /\ config' = [config EXCEPT !.there = FALSE]
    /\ UNCHANGED <<policy, cli, file, ripe, mgr, runner, faults, ended, cut>>
Disable ==
    /\ Edited /\ config.enabled /\ config' = [config EXCEPT !.enabled = FALSE]
    /\ UNCHANGED <<policy, cli, file, ripe, mgr, runner, faults, ended, cut>>
Spoil ==
    /\ Edited /\ config.sound /\ config' = [config EXCEPT !.sound = FALSE]
    /\ UNCHANGED <<policy, cli, file, ripe, mgr, runner, faults, ended, cut>>
Repair ==
    /\ ~config.sound /\ config' = [config EXCEPT !.sound = TRUE]
    /\ UNCHANGED <<policy, cli, file, ripe, mgr, runner, edits, faults, ended, cut>>

\* Enabling takes three steps: the wanted state, the status file, the manager.
EnableWrite ==
    /\ Edited /\ config.there /\ config.sound /\ config' = [config EXCEPT !.enabled = TRUE]
    /\ cli' = "clear" /\ ended' = 0
    /\ UNCHANGED <<policy, file, ripe, mgr, runner, faults, cut>>
EnableClear ==
    /\ cli = "clear" /\ cli' = "request"
    /\ file' = [file EXCEPT !.stopped = FALSE, !.exit = "none", !.state = "queued"]
    /\ ended' = 0 /\ UNCHANGED <<policy, config, ripe, mgr, runner, edits, faults, cut>>
EnableRequest ==
    /\ cli = "request" /\ mgr.pc \in {"load", "look"} /\ cli' = "none" /\ ended' = 0
    /\ mgr' = [mgr EXCEPT !.enable = TRUE, !.outcome = NoOutcome, !.failure = NoFailure]
    /\ UNCHANGED <<policy, config, file, ripe, runner, edits, faults, cut>>
RestartRequest ==
    /\ Edited /\ config.there /\ mgr.pc \in {"load", "look"} /\ mgr' = [mgr EXCEPT !.restart = TRUE] /\ ended' = 0
    /\ UNCHANGED <<policy, config, cli, file, ripe, runner, faults, cut>>
-----------------------------------------------------------------------------
(* The manager: load, look at the worker, act.  Requests are served between *)
(* its steps.                                                               *)

StartManager ==
    /\ mgr.pc = "down" /\ mgr' = [MgrDown EXCEPT !.pc = "load"]
    /\ UNCHANGED <<policy, config, cli, file, ripe, runner, edits, faults, ended, cut>>

\* Processes without a parent are not waited for.
Gone(r) == [NoRunner EXCEPT !.loop = runner[r].loop]
Forgotten == [r \in Slots |-> IF runner[r].st = "over" THEN Gone(r) ELSE runner[r]]
ManagerDies ==
    /\ mgr.pc # "down" /\ Faulted
    /\ mgr' = MgrDown /\ runner' = Forgotten
    /\ UNCHANGED <<policy, config, cli, file, ripe, edits, ended, cut>>

\* A shutdown stops the workers that can be seen to be alive.
Shutdown ==
    /\ mgr.pc # "down" /\ mgr' = MgrDown /\ Faulted
    /\ runner' = [r \in Slots |-> IF Locked(r) THEN [runner[r] EXCEPT !.stop = TRUE] ELSE Forgotten[r]]
    /\ UNCHANGED <<policy, config, cli, file, ripe, edits, ended, cut>>

\* The wrapper that ended is reaped.  One that left no terminal status counts as a failed launch.
Terminal(r) == file.by = r /\ file.stopped
ReapedKept(m) == m \* Mutant: a wrapper that ended is not reaped.
Reaped(m) ==
    IF m.child = 0 \/ (m.child \in Slots /\ runner[m.child].st # "over") THEN m
    ELSE LET r == m.child IN
         [m EXCEPT !.child = 0, !.outcome = [gen |-> runner[r].gen, rc |-> runner[r].rc],
                   !.failure = IF runner[r].rc = "bad" /\ ~Terminal(r)
                               THEN [gen |-> m.spec.gen, ripe |-> FALSE] ELSE @]
Load ==
    /\ mgr.pc = "load"
    /\ config.sound \/ mgr.known
    /\ LET m == IF config.sound THEN [mgr EXCEPT !.known = TRUE, !.spec = Sound] ELSE mgr IN
       /\ mgr' = [Reaped(m) EXCEPT !.pc = "look"]
       /\ runner' = IF Reaped(m).child = m.child THEN runner
                    ELSE [runner EXCEPT ![m.child] = Gone(m.child)]
    /\ UNCHANGED <<policy, config, cli, file, ripe, edits, faults, ended, cut>>

\* What the socket, or the lock and the status file, tell.  A wrapper that holds
\* the lock and has not published yet shows what its predecessor left.
Look ==
    /\ mgr.pc = "look"
    /\ mgr' = [mgr EXCEPT !.pc = "act",
                          !.look = [alive |-> Alive, gen |-> file.gen,
                                    calm |-> \E r \in Slots : runner[r].st = "up" /\ runner[r].loop = "idle"]]
    /\ UNCHANGED <<policy, config, cli, file, ripe, runner, edits, faults, ended, cut>>

ShouldRun == mgr.spec.there /\ mgr.spec.enabled
Changed == mgr.look.alive /\ mgr.spec.there /\ mgr.look.gen # mgr.spec.gen
Forced == mgr.restart \/ mgr.enable
DeferNothing == FALSE \* Mutant: a change of the read policy restarts the worker at once.
\* A change of the read policy waits until the loop has nothing to do for a while.
\* So does one whose definition cannot be told.
Defer == ({mgr.look.gen, mgr.spec.gen} \in Soft \/ mgr.look.gen = 0) /\ ~mgr.look.calm

\* The policy says that this definition has had its run.
HadItsRun ==
    \/ /\ mgr.outcome.gen = mgr.spec.gen
       /\ policy = "never" \/ (policy = "on-failure" /\ mgr.outcome.rc = "ok")
    \/ /\ file.gen = mgr.spec.gen
       /\ (policy = "never" /\ file.stopped) \/ (policy = "on-failure" /\ file.exit = "ok")
BackedOff == (file.state = "failed" /\ file.stopped /\ ~ripe)
             \/ (mgr.failure.gen = mgr.spec.gen /\ ~mgr.failure.ripe)

ActStopListed == mgr.look.alive /\ mgr.spec.there /\ (~ShouldRun \/ Changed \/ mgr.restart)
                 /\ ~(Changed /\ ShouldRun /\ ~mgr.restart /\ Defer) \* Mutant: a worker that is not listed is not looked at.
ActStop == mgr.look.alive /\ (~ShouldRun \/ Changed \/ mgr.restart)
           /\ ~(Changed /\ ShouldRun /\ ~mgr.restart /\ Defer)
ActLaunch == ~mgr.look.alive /\ ShouldRun /\ mgr.child = 0 /\ (Forced \/ (~HadItsRun /\ ~BackedOff))

Seen == [mgr EXCEPT !.pc = "load", !.look = NoLook,
                    !.enable = @ /\ ~(mgr.look.alive \/ ~ShouldRun)]
StopRunner ==
    /\ mgr.pc = "act" /\ ActStop /\ mgr' = Seen
    /\ runner' = Stopping({r \in Slots : Locked(r)})
    /\ cut' = (cut \/ (ShouldRun /\ ~mgr.restart /\ {mgr.look.gen, mgr.spec.gen} \in Soft
                       /\ \E r \in Slots : runner[r].st = "up" /\ runner[r].gen = mgr.look.gen /\ runner[r].loop = "busy"))
    /\ UNCHANGED <<policy, config, cli, file, ripe, edits, faults, ended>>
Launch(r) ==
    /\ mgr.pc = "act" /\ ActLaunch /\ r \in Reserve
    /\ mgr' = [Seen EXCEPT !.child = r, !.outcome = NoOutcome, !.restart = FALSE, !.enable = FALSE]
    /\ runner' = [runner EXCEPT ![r] = [NoRunner EXCEPT !.st = "born", !.gen = mgr.spec.gen]]
    /\ ended' = 0
    /\ UNCHANGED <<policy, config, cli, file, ripe, edits, faults, cut>>

\* Otherwise it forgets a worker that is no longer listed, or a count of restarts
\* after five quiet minutes.
Forgets == ~mgr.look.alive /\ ~mgr.spec.there /\ mgr.look.gen # 0
LeaveAlone ==
    /\ mgr.pc = "act" /\ ~ActStop /\ ~(ActLaunch /\ Reserve # {})
    /\ \/ /\ mgr' = Seen
          /\ file' = (IF Forgets THEN NoFile ELSE file) /\ ended' = (IF Forgets THEN 0 ELSE ended)
       \/ /\ mgr.look.alive /\ ~Changed /\ file.count > 0
          /\ mgr' = [Seen EXCEPT !.failure = NoFailure] /\ file' = [file EXCEPT !.count = 0] /\ ended' = ended
    /\ UNCHANGED <<policy, config, cli, ripe, runner, edits, faults, cut>>

DelayOver ==
    /\ ~ripe \/ ~mgr.failure.ripe
    /\ ripe' = TRUE /\ mgr' = [mgr EXCEPT !.failure.ripe = TRUE]
    /\ UNCHANGED <<policy, config, cli, file, runner, edits, faults, ended, cut>>
-----------------------------------------------------------------------------
(* The wrapper. *)

TakeWorkerLock(r) ==
    /\ runner[r].st = "born"
    /\ runner' = [runner EXCEPT ![r] = IF ~Alive THEN [@ EXCEPT !.st = "locked"]
                                       ELSE IF mgr.child = r THEN [@ EXCEPT !.st = "over", !.rc = "bad"] ELSE NoRunner]
    /\ UNCHANGED <<policy, config, cli, file, ripe, mgr, edits, faults, ended, cut>>

Least(m, n) == IF m < n THEN m ELSE n
PublishStatus(r) ==
    /\ runner[r].st = "locked"
    /\ runner' = [runner EXCEPT ![r] = [@ EXCEPT !.st = "up", !.loop = "born"]]
    /\ file' = [by |-> r, gen |-> runner[r].gen, state |-> "live", exit |-> "none", stopped |-> FALSE,
                count |-> IF file.gen = runner[r].gen THEN Least(file.count + 1, MaxCount) ELSE 0]
    /\ ended' = 0 /\ UNCHANGED <<policy, config, cli, ripe, mgr, edits, faults, cut>>

\* A request to stop is read by the wrapper's loop, which ends its child.
LoopTold(loop) == IF loop \in Loops THEN "ending" ELSE IF loop = "born" THEN "bad" ELSE loop
HeedStop(r) ==
    /\ runner[r].st = "up" /\ runner[r].stop
    /\ runner' = [runner EXCEPT ![r] = [@ EXCEPT !.st = "ending", !.loop = LoopTold(runner[r].loop)]]
    /\ UNCHANGED <<policy, config, cli, file, ripe, mgr, edits, faults, ended, cut>>

\* The loop is over: the wrapper says so and goes.  Its status may not be written.
Final(r) == IF runner[r].st = "ending" THEN "stopped" ELSE IF runner[r].loop = "ok" THEN "exited" ELSE "failed"
Finish(r) ==
    /\ runner[r].st \in {"up", "ending"} /\ runner[r].loop \in {"ok", "bad"}
    /\ \/ /\ file' = [file EXCEPT !.state = Final(r), !.exit = runner[r].loop, !.stopped = TRUE]
          /\ ripe' = (Final(r) # "failed") /\ faults' = faults
       \/ Faulted /\ UNCHANGED <<file, ripe>>
    /\ runner' = [runner EXCEPT ![r] =
                     IF mgr.child = r
                     THEN [@ EXCEPT !.st = "over", !.loop = "none",
                                    !.rc = IF runner[r].st = "ending" THEN "ok" ELSE runner[r].loop]
                     ELSE NoRunner]
    /\ ended' = IF Final(r) = "exited" /\ file.gen = runner[r].gen THEN runner[r].gen ELSE ended
    /\ UNCHANGED <<policy, config, cli, mgr, edits, cut>>

\* A wrapper that is killed leaves its loop behind, which sees its pipe closed.
KillRunner(r) ==
    /\ runner[r].st \in {"born", "locked", "up", "ending"} /\ Faulted
    /\ runner' = [runner EXCEPT ![r] = IF mgr.child = r THEN [@ EXCEPT !.st = "over", !.rc = "bad", !.stop = FALSE]
                                       ELSE Gone(r)]
    /\ UNCHANGED <<policy, config, cli, file, ripe, mgr, edits, ended, cut>>
Orphaned(r) ==
    /\ runner[r].st \in {"over", "none"} /\ runner[r].loop # "none"
    /\ runner' = [runner EXCEPT ![r] = IF @.loop = "ending" \/ @.loop \notin Loops
                                       THEN IF @.st = "none" THEN NoRunner ELSE [@ EXCEPT !.loop = "none"]
                                       ELSE [@ EXCEPT !.loop = "ending"]]
    /\ UNCHANGED <<policy, config, cli, file, ripe, mgr, edits, faults, ended, cut>>

-----------------------------------------------------------------------------
(* The loop.  It reserves the slot of the worker, or gives up. *)

LoopGoes(r, from, to) ==
    /\ runner[r].loop \in from /\ runner' = [runner EXCEPT ![r].loop = to]
    /\ UNCHANGED <<policy, config, cli, file, ripe, mgr, edits, faults, ended, cut>>
BeginLoop(r) == ~SlotHeld /\ LoopGoes(r, {"born"}, "idle")
LoopRefused(r) == SlotHeld /\ runner[r].st = "up" /\ LoopGoes(r, {"born"}, "bad")
\* A round is announced fifteen seconds ahead, or follows at once on the last:
\* a loop with less time than that counts as busy.  The manager acts within the
\* time that a calm look promised it.
RoundStarts(r) == ~(mgr.pc = "act" /\ mgr.look.calm) /\ LoopGoes(r, {"idle"}, "busy")
RoundEnds(r) == LoopGoes(r, {"busy"}, "idle")
LoopEnds(r, how) == runner[r].st = "up" /\ LoopGoes(r, Loops, how)
LoopStops(r, how) == runner[r].st = "ending" /\ LoopGoes(r, {"ending"}, how)

-----------------------------------------------------------------------------
Init ==
    /\ policy \in Policies
    /\ config = [there |-> TRUE, enabled |-> TRUE, gen |-> 1, sound |-> TRUE]
    /\ cli = "none" /\ file = NoFile /\ ripe = TRUE /\ mgr = MgrDown
    /\ runner = [r \in Slots |-> NoRunner] /\ edits = 0 /\ faults = 0 /\ ended = 0 /\ cut = FALSE

ManagerStep == StartManager \/ Load \/ Look \/ StopRunner \/ (\E r \in Slots : Launch(r)) \/ LeaveAlone
RunnerStep(r) == TakeWorkerLock(r) \/ PublishStatus(r) \/ HeedStop(r) \/ Finish(r) \/ Orphaned(r)
LoopStep(r) == BeginLoop(r) \/ LoopRefused(r) \/ (\E how \in {"ok", "bad"} : LoopStops(r, how))
CommandStep == EnableClear \/ EnableRequest
Next ==
    \/ \E gen \in Gens : EditSpec(gen)
    \/ Remove \/ Disable \/ Spoil \/ Repair \/ EnableWrite \/ CommandStep \/ RestartRequest
    \/ ManagerStep \/ ManagerDies \/ Shutdown \/ DelayOver
    \/ \E r \in Slots : \/ RunnerStep(r) \/ KillRunner(r) \/ LoopStep(r)
                        \/ RoundStarts(r) \/ RoundEnds(r)
                        \/ \E how \in {"ok", "bad"} : LoopEnds(r, how)

Spec == Init /\ [][Next]_vars

\* The manager is restarted when it is gone (a service, or the next command);
\* it, the wrappers and commands go on; the operator repairs a broken file.
Fairness == /\ WF_vars(ManagerStep) /\ WF_vars(DelayOver) /\ SF_vars(CommandStep) /\ WF_vars(Repair)
            /\ \A r \in Slots : WF_vars(RunnerStep(r)) /\ WF_vars(LoopStep(r))
FairSpec == Spec /\ Fairness

-----------------------------------------------------------------------------
(* Properties. *)

\* The types of the variables; the manager waits for a wrapper it launched, and
\* one wrapper at most holds the lock.
TypeOK ==
    /\ policy \in Policies /\ config.gen \in Gens /\ cli \in {"none", "clear", "request"}
    /\ mgr.pc \in {"down", "load", "look", "act"} /\ mgr.child \in Slots \cup {0}
    /\ mgr.child # 0 => runner[mgr.child].st # "none"
    /\ file.count \in 0..MaxCount /\ edits \in 0..MaxActs /\ faults \in 0..MaxFaults
    /\ Cardinality({r \in Slots : Locked(r)}) <= 1

\* One loop at most works for the worker, though wrappers are killed and
\* replaced faster than their loops end.  (acquire_slot, stop_with_parent)
OneLoop == Cardinality({r \in Slots : runner[r].loop \in Loops \cup {"ending"}}) <= 1

\* A change of the read policy never costs the round that runs.
\* (_defer_read_policy_reload)
PaidWorkSpared == ~cut

ManagedSafe == TypeOK /\ OneLoop /\ PaidWorkSpared

\* A loop that ended well by itself is not started again against the policy
\* unless the worker was redefined or removed, or somebody asked for it, even if one record
\* of its end was lost.
CleanExitFinal ==
    \A r \in Slots : /\ runner[r].st = "none" /\ runner'[r].st = "born" /\ policy # "always"
                    => ended # mgr.spec.gen \/ mgr.restart \/ mgr.enable

\* While it stays wanted, a worker that is always to be restarted runs again and
\* again, by its present definition, unless no pause between rounds is long enough
\* to change the read policy or a definition that cannot be told.
Current(r) == runner[r].gen = config.gen \/ {runner[r].gen, config.gen} \in Soft \/ file.gen = 0
Wanted == config.there /\ config.enabled /\ config.sound /\ policy = "always"
Works == \E r \in Slots : runner[r].loop \in Loops /\ Current(r)

\* A worker nobody wants any more stops for good: from some moment on, if it is unwanted it has stopped.
Unwanted == ~config.enabled \/ ~config.there
Stopped == \A r \in Slots : runner[r].loop \notin Loops

\* "explicit restart and re-enable still work" whatever the policy: after the
\* operator enables a worker, a loop that nobody has told to stop works for it, or
\* comes to its own good end, unless the worker is disabled again.  (set_worker_enabled, docs/workers.md)
Undisturbed(r) == runner[r].st = "up" /\ ~runner[r].stop /\ runner[r].loop \in Loops
EnableRuns == cli = "clear" ~> (~config.enabled \/ ~config.there \/ ended # 0
                                 \/ \E r \in Slots : Undisturbed(r))
=============================================================================
