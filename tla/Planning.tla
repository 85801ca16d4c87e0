----------------------------- MODULE Planning -----------------------------
(***************************************************************************)
(* The planning of a goal before anything of it is frozen.  Every          *)
(* generation has one planner effect, REQUESTED, EXECUTING, OBSERVING and  *)
(* SUCCEEDED, or RECOVERING and FAILED; the engine runs it, the operator   *)
(* pauses, resumes, replans, answers gates and cancels meanwhile, and the  *)
(* recovery of a start or of a run decides what an interrupted generation  *)
(* becomes.  What other goals do with the directory, the configuration     *)
(* file and the planner's answer are inputs.                               *)
(***************************************************************************)
EXTENDS Lifecycle, Naturals, FiniteSets

CONSTANTS NoProgressLimit, \* interrupted generations before an operator is asked
          MaxControls,     \* bound on pauses, replans and resumed gates
          MaxEdits,        \* bound on the operator's edits of the directory
          MaxStops         \* bound on stops and crashes of the daemon

ASSUME PlanningAssumption ==
    /\ NoProgressLimit \in Nat \ {0}
    /\ MaxControls \in Nat /\ MaxEdits \in Nat /\ MaxStops \in Nat

\* A generation begins with the goal, with a control of the operator, with the
\* recovery of a paused one, or as one of the NoProgressLimit - 1 repeats.
Generations == 1..(MaxControls + NoProgressLimit)
Kinds       == {"stopped", "unconfirmed"}  \* gates a generation can open
Proposals   == {"none", "good", "bad", "gated", "approved"}
EffectStates == {"none", "REQUESTED", "EXECUTING", "OBSERVING", "RECOVERING",
                 "SUCCEEDED", "FAILED"}
\* Failure codes: "answer" stands for planner_failed, planner_timeout and
\* planner_clarification_required, "blocked" for configuration_changed,
\* planning_input_changed and the other codes no gate can resume.
Codes == {"none", "answer", "blocked", "interrupted", "paused", "unconfirmed",
          "invalid", "approval", "superseded", "cancelled"}
\* Gate states: SHUT and LAPSED are OPEN and APPROVED past expires_at, and
\* CLEARED is a gate that is no longer required.
GateStates == {"none", "OPEN", "SHUT", "APPROVED", "LAPSED", "DENIED",
               "CLEARED"}
Steps == {"idle", "plan", "begin", "refused", "call", "calling", "judge",
          "persist", "failing", "read", "check", "publish"}

VARIABLES
    goal,     \* DRAFT, RUNNING or CANCELLED
    paused,   \* planning_paused
    gen,      \* planning_generation
    effect,   \* generation -> its planner effect
    gate,     \* generation, kind -> state of the gate
    process,  \* the planner's process row: none, open (INTENT, REGISTERED)
              \* or UNKNOWN
    alive,    \* generations whose planner process is running
    tree,     \* what the directory holds
    daemon,   \* up, stopping, down, starting, or refused: a start failed
    pc,       \* the engine's next step in the run of this goal
    job,      \* what the run holds: generation, freshness of the goal's
              \* version, failure code and the planner's answer
    context,  \* of the run: live, ending (a control is about to cancel it)
              \* or cancelled
    woken,    \* the goal is in the engine's queue for a control's wake
    controls, edits, stops

vars == <<goal, paused, gen, effect, gate, process, alive, tree, daemon, pc,
          job, context, woken, controls, edits, stops>>
bounds  == <<controls, edits, stops>>
request == <<goal, paused, gen>>
os      == <<process, alive, tree>>
run     == <<pc, job, context, woken>>

NoJob == [gen |-> 1, fresh |-> FALSE, code |-> "none", answer |-> "none"]

\* given: the proposal that came with the request; proposal: the one observed;
\* prior: the request carries the answer of a gate; paused: the goal was
\* paused during this generation.
NoEffect == [state |-> "none", given |-> "none", proposal |-> "none",
             code |-> "none", input |-> 0, prior |-> FALSE,
             origin |-> "none", paused |-> FALSE, calls |-> 0]
NewEffect(origin, prior, given) ==
    [NoEffect EXCEPT !.state = "REQUESTED", !.origin = origin,
                     !.prior = prior, !.given = given]

Init ==
    /\ goal = "DRAFT" /\ paused = FALSE /\ gen = 1
    /\ effect = [g \in Generations |->
                   IF g = 1 THEN NewEffect("user", FALSE, "none") ELSE NoEffect]
    /\ gate = [k \in Generations \X Kinds |-> "none"]
    /\ process = "none" /\ alive = {} /\ tree = 0
    /\ daemon = "up" /\ pc = "idle" /\ job = NoJob /\ context = "live" /\ woken = FALSE
    /\ controls = 0 /\ edits = 0 /\ stops = 0

Current == effect[gen]
----------------------------------------------------------------------------
\* Gates.

GateIn(s) == \E k \in DOMAIN gate : gate[k] \in s
Blocked   == GateIn({"OPEN", "SHUT", "LAPSED", "DENIED"})

\* What clearPlanningGatesTx refuses to take away.
Rejected == GateIn({"LAPSED", "DENIED"})

Opened(gs, kind) ==
    IF goal = "CANCELLED" \/ gs[<<gen, kind>>] # "none" THEN gs
    ELSE [gs EXCEPT ![<<gen, kind>>] = "OPEN"]
Cleared(gs) ==
    [k \in DOMAIN gs |-> IF gs[k] \in {"OPEN", "SHUT", "APPROVED"}
                         THEN "CLEARED" ELSE gs[k]]

----------------------------------------------------------------------------
\* The transactions that end a generation and begin the next one.

Terminal == Current.state \in {"FAILED", "SUCCEEDED"}

\* Mutant: the failure is recorded and nobody is told.
FailedSilently(code) ==
    /\ effect' = [effect EXCEPT ![gen].state = "FAILED", ![gen].code = code]
    /\ UNCHANGED gate

\* failPlanningTx when the execution is confirmed stopped.
Failed(code) ==
    /\ effect' = [effect EXCEPT ![gen].state = "FAILED", ![gen].code = code]
    /\ gate' = Opened(gate, "stopped")

\* Mutant: no gate is opened for it.
UnconfirmedSilently ==
    /\ effect' = [effect EXCEPT ![gen].state = "RECOVERING",
                                ![gen].code = "unconfirmed"]
    /\ UNCHANGED gate

\* failPlanningTx when it is not: a RECOVERING effect keeps its observation.
Unconfirmed ==
    IF Current.state = "RECOVERING" THEN UNCHANGED <<effect, gate>>
    ELSE /\ effect' = [effect EXCEPT ![gen].state = "RECOVERING",
                                     ![gen].code = "unconfirmed"]
         /\ gate' = Opened(gate, "unconfirmed")

\* Mutant: the same generation is queued again.
InterruptedRequeued ==
    effect' = [effect EXCEPT ![gen].state = "REQUESTED"] /\ UNCHANGED gate

\* The branch of FailPlanning that leaves a stopped generation to recovery.
Interrupted ==
    /\ effect' = [effect EXCEPT ![gen].state = "RECOVERING",
          ![gen].code = IF Current.paused THEN "paused" ELSE "interrupted"]
    /\ UNCHANGED gate

\* retryPlanningTx: the old generation is failed, the next one requested, the
\* pause lifted and every gate of planning taken away.
NextGeneration(code, origin, prior, given) ==
    /\ ~Rejected /\ gen + 1 \in Generations
    /\ gen' = gen + 1 /\ paused' = FALSE
    /\ effect' = [effect EXCEPT
          ![gen].state = "FAILED", ![gen].code = code,
          ![gen + 1] = NewEffect(origin, prior, given)]
    /\ gate' = Cleared(Opened(gate, "stopped"))
    /\ job' = [job EXCEPT !.fresh = FALSE]

InterruptionCode ==
    IF Current.paused \/ Current.code = "paused" THEN "paused" ELSE "interrupted"
Interruptions ==
    Cardinality({g \in Generations : g # gen /\ effect[g].code = "interrupted"})

\* Mutant: an answered gate is good for one generation after the other.
RepeatableAnyway == InterruptionCode = "paused" \/ Interruptions + 1 < NoProgressLimit

\* An interrupted generation is repeated without asking, up to the limit, and
\* never one that a gate's answer authorized.
Repeatable ==
    /\ InterruptionCode = "paused" \/ Interruptions + 1 < NoProgressLimit
    /\ ~Current.prior

\* Mutant: whether the planner's process has ended is not asked.
UntouchedIfPaused == Terminal \/ (goal = "DRAFT" /\ paused)
Untouched == Terminal \/ process # "none" \/ (goal = "DRAFT" /\ paused)

\* Mutant: a saved answer is thrown away and the planner asked again.
KeptIfRequested == Current.state = "REQUESTED"
Kept == Current.state \in {"REQUESTED", "OBSERVING"}

\* RecoverPlanning, one transaction.  Its steps, in the code's order, are
\* exclusive; none of them is enabled when the transaction fails.
Recovers ==
    \/ /\ Untouched
       /\ UNCHANGED <<paused, gen, effect, gate, job>>
    \/ /\ ~Untouched /\ goal = "CANCELLED"
       /\ Failed("cancelled") /\ UNCHANGED <<paused, gen, job>>
    \/ /\ ~Untouched /\ goal = "DRAFT"  \* the configuration file has changed
       /\ Failed("blocked") /\ UNCHANGED <<paused, gen, job>>
    \/ /\ ~Untouched /\ goal = "DRAFT" /\ Kept
       /\ UNCHANGED <<paused, gen, effect, gate, job>>
    \/ /\ ~Untouched /\ goal = "DRAFT" /\ ~Kept
       /\ IF Repeatable
          THEN NextGeneration(InterruptionCode, "recovery", FALSE, "none")
          ELSE Failed(InterruptionCode) /\ UNCHANGED <<paused, gen, job>>

\* The repeat that clearPlanningGatesTx denies: the transaction is rolled back.
RecoveryFails ==
    ~Untouched /\ goal = "DRAFT" /\ ~Kept /\ Repeatable /\ Rejected

----------------------------------------------------------------------------
\* The operator.  A control carries the goal's version it was read with; one
\* that lost a race is refused and changes nothing.

Up == daemon = "up"
Drafting == Up /\ goal = "DRAFT"
Controlled == controls < MaxControls /\ controls' = controls + 1
\* The control has committed and will cancel the run's context, if one runs.
CancelRun ==
    context' = IF pc = "idle" \/ context = "cancelled" THEN context ELSE "ending"
Stale == job' = [job EXCEPT !.fresh = FALSE]

SetPlanningPaused ==
    /\ Drafting
    /\ \/ /\ ~paused /\ Controlled
          /\ effect' = [effect EXCEPT ![gen].paused = TRUE] /\ CancelRun
          /\ UNCHANGED woken
       \/ paused /\ woken' = TRUE /\ UNCHANGED <<effect, context, controls>>
    /\ paused' = ~paused /\ Stale
    /\ UNCHANGED <<goal, gen, gate, os, daemon, pc, edits, stops>>

CancelGoal ==
    /\ Drafting /\ goal' = "CANCELLED" /\ CancelRun /\ Stale
    /\ UNCHANGED <<paused, gen, effect, gate, os, daemon, pc, woken, bounds>>

\* goal.plan, with or without a proposal of the operator's own.
RetryPlanning ==
    /\ Drafting /\ Controlled /\ process = "none"
    /\ Current.state # "EXECUTING"
    /\ \E given \in {"none", "good"} :
          NextGeneration(IF Terminal THEN Current.code ELSE "superseded",
                         "user", FALSE, given)
    /\ CancelRun /\ woken' = TRUE
    /\ UNCHANGED <<goal, os, daemon, pc, edits, stops>>

DecideGate ==
    /\ Drafting
    /\ \E k \in DOMAIN gate : \E s \in {"APPROVED", "DENIED"} :
          gate[k] = "OPEN" /\ gate' = [gate EXCEPT ![k] = s]
    /\ UNCHANGED <<request, effect, os, daemon, run, bounds>>

GateExpires ==
    /\ goal = "DRAFT"
    /\ \E k \in DOMAIN gate :
          /\ gate[k] \in {"OPEN", "APPROVED"}
          /\ gate' = [gate EXCEPT
                ![k] = IF gate[k] = "OPEN" THEN "SHUT" ELSE "LAPSED"]
    /\ UNCHANGED <<request, effect, os, daemon, run, bounds>>

\* gate.resume: an approved gate of the current generation is used up for one
\* new generation, on the same directory, with the proposal it approved.
ResumePlanningGate ==
    /\ Drafting /\ Controlled /\ ~Blocked /\ process = "none"
    /\ gate[<<gen, "stopped">>] = "APPROVED" /\ Current.state = "FAILED"
    /\ Current.code \in {"answer", "interrupted", "invalid", "approval"}
    /\ tree = Current.input
    /\ NextGeneration(Current.code, "gate", TRUE,
                      IF Current.code = "approval" THEN "approved" ELSE "none")
    /\ CancelRun /\ woken' = TRUE
    /\ UNCHANGED <<goal, os, daemon, pc, edits, stops>>

\* Bound: an edit before a tree is compared with it is seen by no step.
EditTree ==
    /\ goal = "DRAFT" /\ (Current.state = "REQUESTED" => Current.prior)
    /\ edits < MaxEdits
    /\ edits' = edits + 1 /\ tree' = tree + 1
    /\ UNCHANGED <<request, effect, gate, process, alive, daemon, run, controls,
                   stops>>

----------------------------------------------------------------------------
\* The engine.

Waiting ==
    \/ Current.state = "FAILED"
    \/ Current.state = "RECOVERING" /\ Current.code = "unconfirmed"
Idle(r) == goal # "DRAFT" \/ paused \/ r
Cancelled == context = "cancelled"
Goto(step) == pc' = step
EndRun == pc' = "idle" /\ job' = NoJob /\ context' = "live"
Fail(g, code) ==
    pc' = "failing" /\ job' = [NoJob EXCEPT !.gen = g, !.code = code]
                   /\ UNCHANGED context

\* What the ticker looks for.
Runnable ==
    /\ goal = "DRAFT" /\ ~paused
    /\ \/ Current.state \in {"REQUESTED", "OBSERVING"}
       \/ Current.state = "RECOVERING" /\ Current.code # "unconfirmed"

CancelReaches ==
    /\ context = "ending" /\ context' = "cancelled"
    /\ UNCHANGED <<request, effect, gate, os, daemon, pc, job, woken, bounds>>

\* A run of this goal, for the ticker or a wake, begins with the recovery.
RunGoal ==
    /\ Drafting /\ pc = "idle" /\ Recovers /\ Goto("plan")
    /\ woken' = FALSE
    /\ UNCHANGED <<goal, os, daemon, context, bounds>>

\* A run of another goal does too.
RunOtherGoal ==
    /\ Up /\ pc = "idle" /\ Recovers
    /\ UNCHANGED <<goal, os, daemon, pc, context, woken, bounds>>

\* runPlanning reads the record.
ReadPlanning ==
    /\ pc = "plan"
    /\ \/ /\ Idle(Waiting)
          /\ EndRun /\ UNCHANGED <<paused, gen, effect, gate>>
       \/ /\ ~Idle(Waiting)             \* the configuration file has changed
          /\ Fail(gen, "blocked") /\ UNCHANGED <<paused, gen, effect, gate>>
       \/ /\ ~Idle(Waiting) /\ Current.state = "REQUESTED"
          /\ Goto("begin") /\ job' = [job EXCEPT !.gen = gen, !.fresh = TRUE]
          /\ UNCHANGED <<paused, gen, effect, gate, context>>
       \/ /\ ~Idle(Waiting) /\ Current.state = "OBSERVING"
          /\ Goto("read") /\ UNCHANGED <<paused, gen, effect, gate, job, context>>
       \/ /\ ~Idle(Waiting) /\ Current.state \in {"EXECUTING", "RECOVERING"}
          /\ Recovers /\ Goto(IF gen' = gen THEN "idle" ELSE "plan")
          /\ UNCHANGED context
    /\ UNCHANGED <<goal, os, daemon, woken, bounds>>

\* Mutant: a pause does not raise the goal's version.
OvertakenByGeneration == job.gen # gen \/ goal # "DRAFT"
\* What the run read is no longer so, or the goal may not be planned.
Overtaken == ~job.fresh \/ job.gen # gen \/ Idle(FALSE)

\* Busy with another goal, another tree than the gate's answer was given for,
\* or a required gate: the generation will be failed.
BeginPlanning ==
    /\ pc = "begin"
    /\ \/ /\ Cancelled \/ Overtaken
          /\ EndRun /\ UNCHANGED effect
       \/ /\ ~Cancelled /\ ~Overtaken
          /\ Goto("refused") /\ UNCHANGED <<effect, job, context>>
       \/ /\ ~Cancelled /\ ~Overtaken /\ ~Blocked
          /\ Current.prior => tree = effect[gen - 1].input
          /\ effect' = [effect EXCEPT ![gen].state = "EXECUTING",
                                      ![gen].input = tree]
          /\ Goto("call") /\ Stale /\ UNCHANGED context
    /\ UNCHANGED <<request, gate, os, daemon, woken, bounds>>

\* The failure is recorded for the generation that is current by then.
RereadRefused ==
    /\ pc = "refused" /\ Fail(gen, "blocked")
    /\ UNCHANGED <<request, effect, gate, os, daemon, woken, bounds>>

\* The planner's inputs, then its process, unless the request has a proposal.
Answer(a) == pc' = "judge" /\ job' = [job EXCEPT !.answer = a] /\ UNCHANGED context
StartPlanner ==
    /\ pc = "call"
    /\ \/ Fail(job.gen, "blocked") /\ UNCHANGED <<effect, process, alive>>
       \/ /\ Current.given # "none" /\ Answer(Current.given)
          /\ UNCHANGED <<effect, process, alive>>
       \/ /\ Current.given = "none" /\ Cancelled /\ Answer("interrupted")
          /\ UNCHANGED <<effect, process, alive>>
       \/ /\ Current.given = "none" /\ ~Cancelled /\ Goto("calling")
          /\ process' = "open" /\ alive' = alive \cup {gen}
          /\ effect' = [effect EXCEPT ![gen].calls = @ + 1]
          /\ UNCHANGED <<job, context>>
    /\ UNCHANGED <<request, gate, tree, daemon, woken, bounds>>

\* It answers, fails or times out, or is killed with the context of the run,
\* and its end is observed, or not.
PlannerEnds ==
    /\ pc = "calling"
    /\ \/ /\ process' = "none" /\ alive' = alive \ {gen}
          /\ \E a \in {"good", "bad", "gated", "answer", "interrupted"} :
                (a = "interrupted" => Cancelled) /\ Answer(a)
       \/ /\ process' \in {"open", "UNKNOWN"} /\ UNCHANGED alive
          /\ Answer("unconfirmed")
    /\ UNCHANGED <<request, effect, gate, tree, daemon, woken, bounds>>

\* The end of a process the run gave up on is observed after all.
LateExit ==
    /\ daemon \in {"up", "stopping"} /\ pc # "calling" /\ process = "open"
    /\ process' = "none" /\ alive' = {}
    /\ UNCHANGED <<request, effect, gate, tree, daemon, run, bounds>>

Judge ==
    /\ pc = "judge"
    /\ \/ job.answer = "unconfirmed" /\ Fail(job.gen, "unconfirmed")
       \/ job.answer # "unconfirmed" /\ Fail(job.gen, "blocked")
       \/ /\ job.answer \in {"answer", "interrupted"}
          /\ tree = effect[job.gen].input /\ Fail(job.gen, job.answer)
       \/ /\ job.answer \in Proposals
          /\ tree = effect[job.gen].input /\ Goto("persist")
          /\ UNCHANGED <<job, context>>
    /\ UNCHANGED <<request, effect, gate, os, daemon, woken, bounds>>

\* Fenced by the generation alone: the answer is kept whatever the operator
\* has done to the goal meanwhile.
PersistPlanningProposal ==
    /\ pc = "persist"
    /\ IF job.gen = gen /\ Current.state \in {"EXECUTING", "RECOVERING"}
       THEN /\ effect' = [effect EXCEPT ![gen].state = "OBSERVING",
                                        ![gen].proposal = job.answer]
            /\ IF ~Cancelled THEN Goto("read") /\ UNCHANGED <<job, context>> ELSE EndRun
       ELSE EndRun /\ UNCHANGED effect
    /\ UNCHANGED <<request, gate, os, daemon, woken, bounds>>

FailPlanning ==
    /\ pc = "failing" /\ EndRun
    /\ IF job.gen # gen \/ Terminal THEN UNCHANGED <<effect, gate>>
       ELSE IF job.code = "unconfirmed" THEN Unconfirmed
       ELSE IF job.code = "interrupted" /\ goal = "DRAFT" THEN Interrupted
       ELSE Failed(job.code)
    /\ UNCHANGED <<request, os, daemon, woken, bounds>>

\* Before publication the record is read again, then the scene is checked.
Reread ==
    /\ pc = "read"
    /\ IF Idle(Current.state # "OBSERVING") THEN EndRun
       ELSE /\ Goto("check") /\ job' = [NoJob EXCEPT !.gen = gen, !.fresh = TRUE]
            /\ UNCHANGED context
    /\ UNCHANGED <<request, effect, gate, os, daemon, woken, bounds>>

CheckScene ==
    /\ pc = "check"
    /\ \/ Fail(job.gen, "blocked")
       \/ /\ ~Cancelled /\ tree = effect[job.gen].input
          /\ Goto("publish") /\ UNCHANGED <<job, context>>
    /\ UNCHANGED <<request, effect, gate, os, daemon, woken, bounds>>

Publishable == Current.proposal \in {"good", "approved"} /\ ~Rejected

\* The writes of the publication; the goal is in state s, which nobody sees,
\* between the frozen revision and the active plan.
FreezeGoalRevision(s) == CanMove(GoalTransitions, goal, "READY") /\ s = "READY"
CreatePlanRevision(s) == s \notin {"COMPLETED", "CANCELLED"}
ActivatePlanRevision(s) ==
    CanMove(GoalTransitions, s, "RUNNING") /\ goal' = "RUNNING"

\* PublishPlanning: revision, plan, ready work, gates and effect in one
\* transaction.  Any error but a conflict fails the generation; that of a
\* cancelled context too.
PublishPlanning ==
    /\ pc = "publish"
    /\ \/ /\ Overtaken
          /\ EndRun /\ UNCHANGED <<goal, effect, gate>>
       \/ /\ Cancelled /\ Fail(job.gen, "invalid")
          /\ UNCHANGED <<goal, effect, gate>>
       \/ /\ ~Cancelled /\ ~Overtaken /\ ~Publishable
          /\ Fail(gen, IF Current.proposal = "gated" THEN "approval"
                       ELSE "invalid")
          /\ UNCHANGED <<goal, effect, gate>>
       \/ /\ ~Cancelled /\ ~Overtaken /\ Publishable
          /\ \E s \in DOMAIN GoalTransitions : FreezeGoalRevision(s)
                /\ CreatePlanRevision(s) /\ ActivatePlanRevision(s)
          /\ gate' = Cleared(gate)
          /\ effect' = [effect EXCEPT ![gen].state = "SUCCEEDED"]
          /\ EndRun
    /\ UNCHANGED <<paused, gen, os, daemon, woken, bounds>>

----------------------------------------------------------------------------
\* The daemon.

StopDaemon ==
    /\ Up /\ stops < MaxStops /\ stops' = stops + 1
    /\ daemon' = "stopping" /\ CancelRun
    /\ UNCHANGED <<request, effect, gate, os, pc, job, woken, controls, edits>>

Stopped ==
    /\ daemon = "stopping" /\ pc = "idle" /\ daemon' = "down"
    /\ woken' = FALSE
    /\ UNCHANGED <<request, effect, gate, os, pc, job, context, bounds>>

Crash ==
    /\ daemon \in {"up", "stopping"} /\ stops < MaxStops /\ stops' = stops + 1
    /\ daemon' = "down" /\ EndRun /\ woken' = FALSE
    /\ UNCHANGED <<request, effect, gate, os, controls, edits>>

\* A start first confirms the end of every registered process, or marks it
\* UNKNOWN.
RecoverProcesses ==
    /\ daemon \in {"down", "refused"} /\ daemon' = "starting"
    /\ \/ process' = "none" /\ alive' = {}
       \/ process # "none" /\ process' = "UNKNOWN" /\ UNCHANGED alive
    /\ UNCHANGED <<request, effect, gate, tree, run, bounds>>

\* It ends, and nothing is served, if the recovery of planning fails.
RecoverPlanning ==
    /\ daemon = "starting"
    /\ \/ Recovers /\ daemon' = "up"
       \/ /\ RecoveryFails /\ daemon' = "refused"
          /\ UNCHANGED <<paused, gen, effect, gate, job>>
    /\ UNCHANGED <<goal, os, pc, context, woken, bounds>>

Engine ==
    \/ ReadPlanning \/ BeginPlanning \/ RereadRefused \/ StartPlanner
    \/ PlannerEnds \/ Judge \/ PersistPlanningProposal \/ FailPlanning
    \/ Reread \/ CheckScene \/ PublishPlanning
Operator ==
    \/ SetPlanningPaused \/ CancelGoal \/ RetryPlanning \/ DecideGate
    \/ GateExpires \/ ResumePlanningGate \/ EditTree
Daemon == StopDaemon \/ Stopped \/ Crash \/ RecoverProcesses \/ RecoverPlanning

Next == RunGoal \/ RunOtherGoal \/ CancelReaches \/ Engine \/ LateExit \/ Operator \/ Daemon

Spec == Init /\ [][Next]_vars

\* The ticker runs what is runnable, every step of a run ends (the planner has
\* a timeout), and the daemon is started again after it stopped.
FairSpec ==
    /\ Spec
    /\ WF_vars((Runnable \/ woken) /\ RunGoal) /\ WF_vars(Engine)
    /\ WF_vars(Stopped \/ RecoverProcesses \/ RecoverPlanning)
----------------------------------------------------------------------------
TypeOK ==
    /\ goal \in {"DRAFT", "RUNNING", "CANCELLED"} /\ paused \in BOOLEAN
    /\ gen \in Generations
    /\ effect \in [Generations ->
          [state : EffectStates, given : Proposals, proposal : Proposals,
           code : Codes, input : 0..MaxEdits, prior : BOOLEAN,
           origin : {"none", "user", "recovery", "gate"}, paused : BOOLEAN,
           calls : 0..1]]
    /\ gate \in [Generations \X Kinds -> GateStates]
    /\ process \in {"none", "open", "UNKNOWN"} /\ alive \subseteq Generations
    /\ tree \in 0..MaxEdits
    /\ daemon \in {"up", "stopping", "down", "starting", "refused"}
    /\ pc \in Steps /\ woken \in BOOLEAN
    /\ job \in [gen : Generations, fresh : BOOLEAN, code : Codes,
                answer : Proposals \cup {"answer", "interrupted",
                                         "unconfirmed"}]
    /\ context \in {"live", "ending", "cancelled"}
    /\ controls \in 0..MaxControls /\ edits \in 0..MaxEdits
    /\ stops \in 0..MaxStops

\* The planner of one generation at a time runs, and none once the goal has a
\* frozen plan: crashes, late exits and repeats never overlap two of them.
OnePlanner ==
    /\ Cardinality(alive) <= 1
    /\ alive # {} => goal # "RUNNING" /\ Current.state \in {"EXECUTING",
          "RECOVERING", "FAILED"} /\ gen \in alive

\* Nobody repeats a generation on their own when a gate's answer authorized it,
\* when its planner's answer is saved, or NoProgressLimit were interrupted.
RepeatsAreAuthorized ==
    \A g \in Generations : effect[g].origin = "recovery" =>
        /\ ~effect[g - 1].prior /\ effect[g - 1].proposal = "none"
        /\ effect[g - 1].code = "interrupted" =>
              Cardinality({h \in 1..(g - 1) : effect[h].code = "interrupted"})
                 < NoProgressLimit

\* What is frozen is the answer saved for the last generation, of a goal
\* nobody has paused, with no question of planning left open or refused.
FrozenOnce ==
    /\ goal = "RUNNING" =>
          /\ Current.state = "SUCCEEDED" /\ ~paused /\ ~Blocked
          /\ Current.proposal \in {"good", "approved"}
    /\ \A g \in Generations : effect[g].state = "SUCCEEDED" => goal = "RUNNING"

\* A goal whose planning has failed has a gate that says so.
FailureIsAsked ==
    goal = "DRAFT" /\ Current.state = "FAILED"
        => gate[<<gen, "stopped">>] \notin {"none", "CLEARED"}

\* A start serves the operator, whatever was decided about planning before.
StartServes == daemon # "refused"

\* Planning comes to an end or waits for somebody: the goal's, a pause's, a
\* gate's decision, or the end of a process nobody can confirm.
PlanningSettles ==
    []<>(goal # "DRAFT" \/ paused \/ Blocked \/ process # "none"
         \/ GateIn({"APPROVED"}))
=============================================================================
