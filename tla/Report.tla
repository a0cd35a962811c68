------------------------------- MODULE Report -------------------------------
(***************************************************************************)
(* The progress report of one worker: survey.progress_due decides whether  *)
(* a round is wanted, work_units.do_progress plans a window of commits,    *)
(* pays a model for two bodies of prose and has them published;            *)
(* progress_publication.py keeps the receipt of a prepared report and the  *)
(* reports that were set aside.  Every write of a file is a step: the      *)
(* round may be killed between any two.  The tool tauceti-progress and     *)
(* GitHub are modelled by what they may answer.                            *)
(*                                                                         *)
(* Time is abstract: a delay lasts until an action of the world ends it.   *)
(***************************************************************************)
EXTENDS Naturals, Sequences

CONSTANTS Actors,      \* GitHub accounts the worker may run as
          Windows,     \* what a report may be about: a roadmap and a range of commits
          Reported,    \* those of them that landed before
          MaxWritings, \* bound: texts the writer delivers
          MaxAttempts, \* progress_publication.MAX_ATTEMPTS
          MaxWaits,    \* bound: waits for GitHub that fit in seven days
          MaxErrors,   \* MAX_PROGRESS_ERRORS
          MaxPlans     \* mechanical attempts of one round (3 in the code)

ReportAssumption ==
    /\ Actors # {} /\ Reported \subseteq Windows /\ <<>> \notin Windows
    /\ {MaxWritings, MaxAttempts, MaxWaits, MaxErrors, MaxPlans} \subseteq Nat \ {0}

VARIABLES
    github,   \* the roadmap repository: windows that landed, open reports, windows ever open
    account,  \* the account the worker runs as now
    desk,     \* state/progress/work, the clone's branches included
    shelf,    \* state/progress/retained
    gates,    \* the delays and counters that progress_due reads
    verdict,  \* cache/progress-due.json
    watcher,  \* a dashboard that surveys beside the worker
    sheet,    \* the round
    prose     \* history: the window each paid text was written for

pvars == <<github, account, desk, shelf, gates, verdict, watcher, sheet, prose>>

NoWindow == <<>>
NoPaper == [win |-> NoWindow, status |-> 0, section |-> 0]
NoReceipt == [files |-> NoPaper, actor |-> "none", attempts |-> 0, waiting |-> FALSE, waits |-> 0]
Resting == [pc |-> "idle", win |-> NoWindow, plans |-> 0, status |-> 0]

Papers == [win : Windows \cup {NoWindow}, status : 0..MaxWritings, section : 0..MaxWritings]
Steps == {"idle", "asking", "due", "fetch", "refresh", "prepare", "fence", "clear", "plan", "facts", "prompt", "launch",
          "writing", "section", "receipt", "defer", "publish", "applied", "park", "complete", "unlink"}

ReportTypeOK ==
    /\ account \in Actors
    /\ github.landed \subseteq Windows /\ github.seen \subseteq Windows /\ github.open \subseteq Papers
    /\ desk.paper \in Papers /\ desk.facts \in Windows \cup {NoWindow} /\ desk.done \in Papers
    /\ desk.receipt \in [files : Papers, actor : Actors \cup {"none"}, attempts : 0..MaxAttempts,
                         waiting : BOOLEAN, waits : 0..MaxWaits]
    /\ desk.fence \in BOOLEAN /\ desk.branches \subseteq Windows
    /\ shelf \subseteq Papers
    /\ gates \in [docs : BOOLEAN, mech : BOOLEAN, gap : BOOLEAN, errs : 0..MaxErrors]
    /\ verdict \in {"none", "due", "not"} /\ watcher \in {"idle", "asking"}
    /\ sheet.pc \in Steps
    /\ DOMAIN prose \subseteq 1..MaxWritings

\* The desk may be bare, or hold the last report; a version without receipts may have left one whose
\* fork could not be made.
Text(w) == [win |-> w, status |-> 1, section |-> 1]
Bare == [paper |-> NoPaper, facts |-> NoWindow, receipt |-> NoReceipt, done |-> NoPaper, fence |-> FALSE, branches |-> {}]
Legacy(w) == [Bare EXCEPT !.paper = Text(w), !.facts = w, !.branches = {w}]
Used(w) == [Legacy(w) EXCEPT !.done = Text(w), !.fence = TRUE]

ReportInit ==
    /\ github = [landed |-> Reported, open |-> {}, seen |-> {}] /\ account \in Actors
    /\ \/ desk = Bare /\ prose = <<>>
       \/ \E w \in Windows \ Reported : desk = Legacy(w) /\ prose = <<w>>
       \/ \E w \in Reported : desk = Used(w) /\ prose = <<w>>
    /\ shelf = {} /\ gates = [docs |-> FALSE, mech |-> FALSE, gap |-> FALSE, errs |-> 0]
    /\ verdict = "none" /\ watcher = "idle" /\ sheet = Resting
-----------------------------------------------------------------------------
(* What is on the desk. *)

Full(p) == p.win # NoWindow /\ p.status # 0 /\ p.section # 0
Marked == desk.receipt # NoReceipt

Adoptable == desk.paper # desk.done /\ ~desk.fence /\ desk.paper.win \in desk.branches
\* The report that waits for its publication, with a receipt or from a version that had none: retained.
Retained ==
    /\ Full(desk.paper)
    /\ IF Marked THEN desk.receipt.files = desk.paper ELSE Adoptable
\* The evidence names the account it was made by.
Receipt == IF Marked THEN desk.receipt
           ELSE [NoReceipt EXCEPT !.files = desk.paper, !.actor = CHOOSE a \in Actors : TRUE]
-----------------------------------------------------------------------------
(* The world. *)

InFlight(w) == \E p \in github.open : p.win = w
Landed(w) == w \in github.landed
Reportable == {w \in Windows : ~InFlight(w) /\ ~Landed(w)}

Opened(p) == [github EXCEPT !.open = @ \cup {p}, !.seen = @ \cup {p.win}]

ReportMerges(p) ==
    /\ p \in github.open
    /\ github' = [github EXCEPT !.landed = @ \cup {p.win}, !.open = @ \ {p}]
    /\ UNCHANGED <<account, desk, shelf, gates, verdict, watcher, sheet, prose>>
ReportCloses(p) ==
    /\ p \in github.open /\ github' = [github EXCEPT !.open = @ \ {p}]
    /\ UNCHANGED <<account, desk, shelf, gates, verdict, watcher, sheet, prose>>
\* Another worker opens a report.
PeerReports ==
    /\ \E w \in Reportable : github' = Opened([NoPaper EXCEPT !.win = w])
    /\ UNCHANGED <<account, desk, shelf, gates, verdict, watcher, sheet, prose>>
SwitchAccount ==
    /\ account' \in Actors \ {account}
    /\ UNCHANGED <<github, desk, shelf, gates, verdict, watcher, sheet, prose>>
DelayEnds ==
    /\ \E g \in {"docs", "mech", "gap"} : gates[g] /\ gates' = [gates EXCEPT ![g] = FALSE]
    /\ UNCHANGED <<github, account, desk, shelf, verdict, watcher, sheet, prose>>
VerdictAges ==
    /\ verdict # "none" /\ verdict' = "none"
    /\ UNCHANGED <<github, account, desk, shelf, gates, watcher, sheet, prose>>
RetryComes ==
    /\ desk.receipt.waiting /\ desk' = [desk EXCEPT !.receipt.waiting = FALSE]
    /\ UNCHANGED <<github, account, shelf, gates, verdict, watcher, sheet, prose>>

World == UNCHANGED <<github, account>>
-----------------------------------------------------------------------------
(* Is a report due?  The worker asks, and so does a dashboard; the answer of *)
(* the tool takes its time and is cached when it comes.                      *)

GateShut == Marked \/ gates.docs \/ gates.mech
Asks == ~Retained /\ ~GateShut /\ verdict = "none" /\ ~gates.gap /\ gates.errs < MaxErrors
Answer(v) == verdict' = v

WatchAsks ==
    /\ watcher = "idle" /\ Asks /\ watcher' = "asking"
    /\ World /\ UNCHANGED <<desk, shelf, gates, verdict, sheet, prose>>
WatchAnswers ==
    /\ watcher = "asking" /\ watcher' = "idle" /\ (\E v \in {"due", "not"} : Answer(v))
    /\ World /\ UNCHANGED <<desk, shelf, gates, sheet, prose>>

AtDesk == World /\ UNCHANGED <<watcher, prose>>
Untouched == AtDesk /\ UNCHANGED <<desk, shelf, gates, verdict>>
To(pc) == sheet' = [sheet EXCEPT !.pc = pc]
Rest == sheet' = Resting
Bust == verdict' = "none"

LookPrepared ==
    /\ sheet.pc = "idle" /\ Retained /\ Receipt.actor = account /\ ~Receipt.waiting
    /\ To("due") /\ Untouched
LookCached ==
    /\ sheet.pc = "idle" /\ ~Retained /\ ~GateShut /\ verdict = "due"
    /\ To("due") /\ Untouched
LookAsks == sheet.pc = "idle" /\ Asks /\ To("asking") /\ Untouched
LookAnswers ==
    /\ sheet.pc = "asking" /\ \E v \in {"due", "not"} : Answer(v) /\ (IF v = "due" THEN To("due") ELSE Rest)
    /\ AtDesk /\ UNCHANGED <<desk, shelf, gates>>
-----------------------------------------------------------------------------
(* The round begins. *)

\* A peer holds the claim of all reports.
PeerWrites == sheet.pc = "due" /\ Rest /\ Untouched
\* The receipt fits no file, or is another account's: everything is left as it is.
LeftAlone ==
    /\ sheet.pc = "due" /\ (Marked \/ Retained) /\ (~Retained \/ Receipt.actor # account)
    /\ Rest /\ Untouched

Deferred(r) == [r EXCEPT !.waiting = TRUE, !.attempts = @ + 1]
Counts(r) == r.attempts >= MaxAttempts

BeginPark ==
    /\ sheet.pc = "due" /\ Retained /\ Receipt.actor = account /\ Counts(Receipt)
    /\ To("park") /\ Untouched
BeginRetained ==
    /\ sheet.pc = "due" /\ Retained /\ Receipt.actor = account /\ ~Counts(Receipt)
    /\ desk' = [desk EXCEPT !.receipt = Deferred(Receipt)] /\ Bust
    /\ To("fetch") /\ AtDesk /\ UNCHANGED <<shelf, gates>>
BeginFresh ==
    /\ sheet.pc = "due" /\ ~Retained /\ ~Marked
    /\ gates' = [gates EXCEPT !.mech = TRUE] /\ Bust
    /\ To("refresh") /\ AtDesk /\ UNCHANGED <<desk, shelf>>

WaitingFor(r) == [r EXCEPT !.waiting = TRUE, !.waits = @ + 1, !.attempts = IF @ > 0 THEN @ - 1 ELSE 0]
\* temporary_wait: no attempt is spent; seven days after the first the report is set aside.
TemporaryWait ==
    \/ desk.receipt.waits > 0 /\ To("park") /\ UNCHANGED desk
    \/ desk.receipt.waits < MaxWaits /\ Rest /\ desk' = [desk EXCEPT !.receipt = WaitingFor(@)]

Fetched == sheet.pc = "fetch" /\ To("publish") /\ Untouched
FetchFails == sheet.pc = "fetch" /\ TemporaryWait /\ AtDesk /\ UNCHANGED <<shelf, gates, verdict>>
Refreshed == sheet.pc = "refresh" /\ To("prepare") /\ Untouched
RefreshFails == sheet.pc = "refresh" /\ Rest /\ Untouched
-----------------------------------------------------------------------------
(* Mechanical preparation, which costs nothing. *)

Mechanical == AtDesk /\ UNCHANGED <<desk, shelf>>
MoreErrs(n) == IF n = MaxErrors THEN n ELSE n + 1
DocumentationWait == gates' = [gates EXCEPT !.docs = TRUE, !.mech = FALSE] /\ Bust /\ Rest
MechanicalFailed == gates' = [gates EXCEPT !.mech = TRUE, !.errs = MoreErrs(@)] /\ Bust /\ Rest

NothingDue ==
    /\ sheet.pc = "prepare" /\ Reportable = {} /\ gates' = [gates EXCEPT !.mech = TRUE, !.docs = FALSE] /\ Bust /\ Rest /\ Mechanical
\* parked_window: the report of this very window was set aside.
SetAside(w) == \E p \in shelf : p.win = w
PlanSetAside ==
    /\ sheet.pc = "prepare" /\ \E w \in Reportable : SetAside(w)
    /\ gates' = [gates EXCEPT !.mech = TRUE, !.docs = FALSE] /\ Bust /\ Rest /\ Mechanical
\* The documentation moves: plan again, three times at most.
Replan ==
    /\ sheet.pc = "prepare" /\ Reportable # {}
    /\ IF sheet.plans + 1 < MaxPlans
       THEN sheet' = [sheet EXCEPT !.plans = @ + 1] /\ UNCHANGED <<gates, verdict>>
       ELSE DocumentationWait
    /\ Mechanical
\* It is not there, or the same window is invalid again.
DocumentationAway == sheet.pc = "prepare" /\ DocumentationWait /\ Mechanical
PlanFails == sheet.pc = "prepare" /\ MechanicalFailed /\ Mechanical
\* Too little time is left.
DeadlineWait ==
    /\ sheet.pc \in {"prepare", "prompt"} /\ gates' = [gates EXCEPT !.mech = TRUE] /\ Bust /\ Rest /\ Mechanical
Planned ==
    /\ sheet.pc = "prepare" /\ \E w \in Reportable : ~SetAside(w) /\ sheet' = [sheet EXCEPT !.pc = "fence", !.win = w]
    /\ Untouched
-----------------------------------------------------------------------------
(* The inputs are installed; then the writer is paid. *)

Installing == AtDesk /\ UNCHANGED <<shelf, gates, verdict>>
FencedNot == [desk EXCEPT !.fence = @] \* Mutant: fresh prose is not fenced off from adoption.
Fenced == [desk EXCEPT !.fence = TRUE]
SameInputs == desk.paper.win = sheet.win /\ desk.facts = sheet.win

BeginWriting ==
    /\ sheet.pc = "fence" /\ desk' = Fenced /\ To(IF SameInputs THEN "plan" ELSE "clear") /\ Installing
ClearStatus ==
    /\ sheet.pc = "clear" /\ desk.paper.status # 0 /\ desk' = [desk EXCEPT !.paper.status = 0] /\ UNCHANGED sheet /\ Installing
ClearSection ==
    /\ sheet.pc = "clear" /\ desk.paper.status = 0 /\ desk' = [desk EXCEPT !.paper.section = 0] /\ To("plan") /\ Installing
InstallPlan ==
    /\ sheet.pc = "plan" /\ desk' = [desk EXCEPT !.paper.win = sheet.win] /\ To("facts") /\ Installing
InstallFacts ==
    /\ sheet.pc = "facts" /\ desk' = [desk EXCEPT !.facts = sheet.win] /\ To("prompt")
    /\ AtDesk /\ gates' = [gates EXCEPT !.docs = FALSE] /\ UNCHANGED <<shelf, verdict>>
InstallFails == sheet.pc \in {"clear", "plan", "facts"} /\ DocumentationWait /\ Mechanical
PromptFails == sheet.pc = "prompt" /\ MechanicalFailed /\ Mechanical
\* From here on only the gap after an attempt keeps the next round away.
Prompted ==
    /\ sheet.pc = "prompt" /\ gates' = [gates EXCEPT !.mech = FALSE] /\ To("launch") /\ AtDesk /\ UNCHANGED <<desk, shelf, verdict>>
LaunchWriter ==
    /\ sheet.pc = "launch" /\ Len(prose) < MaxWritings
    /\ gates' = [gates EXCEPT !.gap = TRUE] /\ To("writing") /\ AtDesk /\ UNCHANGED <<desk, shelf, verdict>>
\* It dies, or leaves a body out; or the provider is blocked, which is no error of the report.
WriterFails ==
    /\ sheet.pc = "writing" /\ gates' \in {gates, [gates EXCEPT !.errs = MoreErrs(@)]} /\ Rest
    /\ AtDesk /\ UNCHANGED <<desk, shelf, verdict>>
WriterDone ==
    /\ sheet.pc = "writing" /\ prose' = Append(prose, sheet.win)
    /\ desk' = [desk EXCEPT !.paper.status = Len(prose')] /\ To("section")
    /\ World /\ UNCHANGED <<shelf, gates, verdict, watcher>>
InstallSection ==
    /\ sheet.pc = "section" /\ desk' = [desk EXCEPT !.paper.section = Len(prose)] /\ To("receipt") /\ Installing
SaveReceipt ==
    /\ sheet.pc = "receipt"
    /\ desk' = [desk EXCEPT !.receipt = [NoReceipt EXCEPT !.files = desk.paper, !.actor = account]]
    /\ To("defer") /\ Installing
DeferReceipt ==
    /\ sheet.pc = "defer" /\ desk' = [desk EXCEPT !.receipt = Deferred(@)] /\ To("publish") /\ Installing
-----------------------------------------------------------------------------
(* Publication: apply makes the branch and the pull request, if the window *)
(* is still to be reported, and then says what came of it, or fails to.    *)

ApplyOpens ==
    /\ sheet.pc = "publish" /\ desk.paper.win \in Reportable
    /\ github' = Opened(desk.paper)
    /\ desk' = [desk EXCEPT !.branches = @ \cup {desk.paper.win}] /\ To("applied")
    /\ UNCHANGED <<account, shelf, gates, verdict, watcher, prose>>
ApplyBranches ==
    /\ sheet.pc = "publish" /\ To("applied") /\ Installing
    /\ desk' \in {desk, [desk EXCEPT !.branches = @ \cup {desk.paper.win}]}
\* It landed as a pull request, or the window is already in flight or landed.
ApplyDone ==
    /\ sheet.pc = "applied" /\ (InFlight(desk.paper.win) \/ Landed(desk.paper.win)) /\ To("complete") /\ Untouched
ApplyWaits == sheet.pc = "applied" /\ TemporaryWait /\ AtDesk /\ UNCHANGED <<shelf, gates, verdict>>
ApplyFails ==
    /\ sheet.pc = "applied" /\ gates' = [gates EXCEPT !.errs = MoreErrs(@)]
    /\ \/ ~Counts(desk.receipt) /\ Rest
       \/ To("park")  \* no attempt is left, or the tool says that the report needs recovery
    /\ AtDesk /\ UNCHANGED <<desk, shelf, verdict>>

\* A copy is set aside, and only then is the report done with.
Park == sheet.pc = "park" /\ shelf' = shelf \cup {desk.paper} /\ To("complete") /\ AtDesk /\ UNCHANGED <<desk, gates, verdict>>
ParkFailsDone(r) == NoReceipt \* Mutant: a report that cannot be set aside is given up.
ParkFails(r) == [r EXCEPT !.waiting = TRUE]
ParkRefused ==
    /\ sheet.pc = "park" /\ desk' \in {desk, [desk EXCEPT !.receipt = ParkFails(Receipt)]} /\ Rest /\ Installing
Complete == sheet.pc = "complete" /\ desk' = [desk EXCEPT !.done = desk.paper] /\ To("unlink") /\ Installing
DropReceipt ==
    /\ sheet.pc = "unlink" /\ desk' = [desk EXCEPT !.receipt = NoReceipt] /\ Rest /\ AtDesk
    /\ gates' \in {gates, [gates EXCEPT !.errs = 0]} /\ Bust /\ UNCHANGED shelf
-----------------------------------------------------------------------------
\* The time limit of the round, or a crash.
ReportDies == sheet.pc \notin {"idle"} /\ Rest /\ Untouched

ReportRound ==
    \/ PeerWrites \/ LeftAlone \/ BeginPark \/ BeginRetained \/ BeginFresh
    \/ Fetched \/ FetchFails \/ Refreshed \/ RefreshFails
    \/ NothingDue \/ PlanSetAside \/ Replan \/ DocumentationAway \/ PlanFails \/ DeadlineWait \/ Planned
    \/ BeginWriting \/ ClearStatus \/ ClearSection \/ InstallPlan \/ InstallFacts \/ InstallFails \/ PromptFails
    \/ Prompted \/ LaunchWriter \/ WriterFails \/ WriterDone \/ InstallSection \/ SaveReceipt \/ DeferReceipt
    \/ ApplyOpens \/ ApplyBranches \/ ApplyDone \/ ApplyWaits \/ ApplyFails
    \/ Park \/ ParkRefused \/ Complete \/ DropReceipt
ReportWorld ==
    \/ \E p \in github.open : ReportMerges(p) \/ ReportCloses(p)
    \/ PeerReports \/ SwitchAccount
    \/ DelayEnds \/ VerdictAges \/ RetryComes \/ WatchAsks \/ WatchAnswers
ReportNext == ReportWorld \/ LookPrepared \/ LookCached \/ LookAsks \/ LookAnswers \/ ReportRound \/ ReportDies
ReportSpec == ReportInit /\ [][ReportNext]_pvars

\* The worker turns to the report again and again, gets as far as counting an attempt and as setting a
\* report aside, and is not killed for ever while it ends one: anywhere else it may be.
EndingDies == sheet.pc \in {"park", "complete", "unlink"} /\ ReportDies
ReportFair ==
    /\ WF_pvars(ReportRound \/ LookPrepared \/ RetryComes)
    /\ SF_pvars(BeginRetained \/ BeginPark) /\ SF_pvars(Park)
    /\ <>[][~EndingDies]_pvars
ReportFairSpec == ReportSpec /\ ReportFair
-----------------------------------------------------------------------------
\* A report never appears half from one writing and half from another, or under a window that its text
\* was not written for, whatever was killed, refused or adopted before (begin_writing, retained, save).
PublishedWhole ==
    \A p \in github.open : p.status # 0 => p.status = p.section /\ prose[p.status] = p.win

\* The writer is not paid for a window while a report of it is prepared on the desk or set aside:
\* it is published or kept for inspection (retained, parked_window).
PaidOnce ==
    LaunchWriter => ~Marked /\ \A p \in shelf : p.win # sheet.win

\* A report that had a receipt leaves the desk only when its window was seen on GitHub or a copy is set aside.
NothingDropped ==
    desk.receipt # NoReceipt /\ desk'.receipt.files # desk.receipt.files =>
        \/ desk.receipt.files \in shelf
        \/ desk.receipt.files.win \in github.seen \/ Landed(desk.receipt.files.win)

\* A prepared report does not occupy the worker for ever: however its rounds fail or are killed, it is
\* published or set aside, unless the account changes (defer counts the attempt first, temporary_wait).
Occupied == Retained /\ Receipt.actor = account
=============================================================================
