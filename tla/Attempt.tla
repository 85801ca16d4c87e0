------------------------------ MODULE Attempt ------------------------------
(***************************************************************************)
(* The execution of one work item: the engine's executeWork and what it    *)
(* does with a failure (failAttempt, observeFailureScene, recordAndWait),  *)
(* the rows it keeps in the store, the processes of Processes.tla, the     *)
(* operator who pauses, cancels, retries and edits the same directory, the *)
(* end of a lease, and a crash followed by the recovery of a start.        *)
(*                                                                         *)
(* Promotion.tla has the protocol behind Submit; here it is one step.      *)
(***************************************************************************)
EXTENDS Processes, Lifecycle

CONSTANTS
    Trees,       \* what the directory can hold
    Base,        \* the accepted tree at the start
    MaxSteers,   \* bound on controls and edits of the operator
    MaxCrashes

\* The processes of an attempt in the order they start.  Probe stands for the
\* readiness probes of the service and for the probes of tool versions.
Bootstrap == 1  Agent == 2  Service == 3  Probe == 4  Validator == 5
Reviewer == 6   Submission == 7

ASSUME AttemptAssumption ==
    /\ Stages = Bootstrap .. Reviewer
    /\ Base \in Trees
    /\ MaxSteers \in Nat /\ MaxCrashes \in Nat

VARIABLES
    goal,      \* RUNNING, WAITING or CANCELLED
    work,      \* state of the work item
    gates,     \* required gates that block: "retry" (checkout_retry_required),
               \* "recovery" (execution_process_unconfirmed) and "other"
    noted,     \* attempts whose execution_recovery gate was ever opened
    att,       \* attempt -> state, "none" before its claim
    lease,     \* attempt -> state of its lease; LAPSED is ACTIVE past its expiry
    checkout,  \* [accepted, observed, owned, retry]
    disk,      \* what the directory holds
    job,       \* the engine in executeWork: [at, pc, stage, cause, cancelled,
               \* safe, and the tree each artifact of the attempt names]
    reach,     \* a control is committed whose cancellation is on its way
    phase,     \* serving or recovering
    crashes, steers

progress == <<goal, work, gates, noted>>
rows     == <<att, lease, checkout>>
bounds   == <<crashes, steers>>
vars     == <<progress, rows, disk, job, reach, phase, bounds, procVars>>

NoTree == "none"
Kinds  == {"workspace", "bundle", "validation", "run", "review"}
NoJob  == [at |-> 0, pc |-> "idle", stage |-> Bootstrap, cause |-> "none",
           cancelled |-> FALSE, safe |-> FALSE,
           filed |-> [k \in Kinds |-> NoTree]]
\* What an attempt failed of; only the last two decide what happens next.
Causes == {"none", "failed", "drift", "unconfirmed"}
Steps  == {"idle", "claim", "enter", "begin", "register", "release", "await",
           "stopped", "collect", "cleanup", "settle", "settleWork",
           "settleLease", "observe", "wait"}
Cancellable == {"claim", "enter", "begin", "register", "release", "await",
                "collect", "cleanup"}

Init ==
    /\ goal = "RUNNING" /\ work = "READY" /\ gates = {} /\ noted = {}
    /\ att = [a \in Attempts |-> "none"] /\ lease = [a \in Attempts |-> "none"]
    /\ checkout = [accepted |-> Base, observed |-> Base,
                   owned |-> FALSE, retry |-> FALSE]
    /\ disk = Base /\ job = NoJob /\ reach = FALSE /\ phase = "serving"
    /\ crashes = 0 /\ steers = 0
    /\ ProcInit

a0 == job.at
Fresh == {a \in Attempts : att[a] = "none" /\ \A b \in Attempts : b < a => att[b] # "none"}
Held(a) == lease[a] \in {"ACTIVE", "LAPSED"}
NoLease == \A a \in Attempts : ~Held(a)
ExecutionIdle == NoLease /\ RowsAllow(Nobody)

At(pc) == phase = "serving" /\ job.pc = pc
AtStage(pc, s) == At(pc) /\ job.stage = s
Goto(pc) == job' = [job EXCEPT !.pc = pc]
GotoStage(pc, s) == job' = [job EXCEPT !.pc = pc, !.stage = s]
Leave == job' = NoJob

\* fail: the cleanup of the attempt's environments, then failAttempt.
Fails(cause) == job' = [job EXCEPT !.pc = "cleanup", !.cause = cause]
Filing(kind, pc, s) ==
    job' = [job EXCEPT !.filed[kind] = disk, !.pc = pc, !.stage = s]

\* What the artifacts of the attempt say the directory held.
RecordPatchBundle == Filing("bundle", "enter", Service)
RecordEnvironment == Filing("validation", "begin", Service)
RecordValidatorRun == Filing("run", "cleanup", Validator)
RecordReview == Filing("review", "enter", Submission)

\* stopInvariant: what Run does with an error of RunGoal.
StopInvariant ==
    /\ IF goal = "RUNNING"
         THEN goal' = "WAITING" /\ gates' = gates \cup {"other"}
         ELSE UNCHANGED <<goal, gates>>
    /\ Leave
    /\ UNCHANGED <<work, noted>>
----------------------------------------------------------------------------
\* The claim.

\* What AdmitCheckout takes the directory to hold.
Expects == IF checkout.retry THEN checkout.observed ELSE checkout.accepted
CheckCheckoutIdentity(expected) == disk = expected
Admissible ==
    (checkout.owned => checkout.retry) /\ CheckCheckoutIdentity(Expects)

RecordWorkspace(a) ==
    job' = [job EXCEPT !.at = a, !.pc = "enter", !.filed.workspace = disk]

Admit ==
    /\ At("idle") /\ goal = "RUNNING" /\ work = "READY" /\ Fresh # {}
    /\ \/ Admissible /\ Goto("claim") /\ UNCHANGED progress
       \/ ~Admissible /\ StopInvariant
    /\ UNCHANGED <<rows, disk, reach, phase, bounds, procVars>>

Claimable ==
    /\ CanMove(WorkTransitions, work, "CLAIMED") /\ goal = "RUNNING" /\ gates = {}
    /\ checkout.owned => checkout.retry
    /\ ExecutionIdle

\* The workspace is whatever the directory holds by now.
Claim ==
    /\ At("claim") /\ ~job.cancelled /\ Claimable
    /\ \E a \in Fresh :
         /\ att' = [att EXCEPT ![a] = "CREATED"]
         /\ lease' = [lease EXCEPT ![a] = "ACTIVE"]
         /\ RecordWorkspace(a)
    /\ checkout' = [checkout EXCEPT !.owned = TRUE, !.retry = FALSE]
    /\ work' = "CLAIMED"
    /\ UNCHANGED <<goal, gates, noted, disk, reach, phase, bounds, procVars>>

ClaimRefused ==
    /\ At("claim") /\ (job.cancelled \/ ~Claimable)
    /\ IF work = "CANCELLED" THEN Leave /\ UNCHANGED progress ELSE StopInvariant
    /\ UNCHANGED <<rows, disk, reach, phase, bounds, procVars>>
----------------------------------------------------------------------------
\* Between the stages.

\* The context of the attempt is live and its lease lets it advance.
Live == ~job.cancelled /\ lease[a0] = "ACTIVE"

\* The tree the directory must hold when a stage begins and when it ends.
Expected ==
    IF job.stage \in {Bootstrap, Agent} THEN job.filed.workspace ELSE job.filed.bundle

\* CheckSnapshot.
Unmoved == disk = Expected

Enters(s, attempt, item) ==
    /\ AtStage("enter", s) /\ Live /\ Unmoved
    /\ att' = [att EXCEPT ![a0] = attempt]
    /\ CanMove(WorkTransitions, work, item) \/ work = item
    /\ work' = item
    /\ UNCHANGED <<goal, gates, noted, lease, checkout, disk, reach, phase,
                   bounds, procVars>>

EnterBootstrap ==
    Enters(Bootstrap, "PREPARING", "CLAIMED") /\ Goto("begin")

\* The environment is recorded, the attempt goes through STARTING.
EnterAgent ==
    Enters(Agent, "RUNNING", "RUNNING") /\ Goto("begin")

\* The bundle was replayed in the validation workspace.
EnterService ==
    /\ Enters(Service, "VALIDATING", "VERIFYING")
    /\ RecordEnvironment

\* The service must still be the process that was started.
EnterValidator ==
    /\ Enters(Validator, "VALIDATING", "VERIFYING")
    /\ IF proc[a0][Service].os = "running" THEN Goto("begin") ELSE Fails("failed")

EnterReviewer ==
    /\ Enters(Reviewer, "REVIEWING", "VERIFYING") /\ Goto("begin")

EnterRefused ==
    /\ At("enter") /\ ~(Live /\ Unmoved)
    /\ Fails(IF Live THEN "drift" ELSE "failed")
    /\ UNCHANGED <<progress, rows, disk, reach, phase, bounds, procVars>>

Complete ==
    /\ att' = [att EXCEPT ![a0] = "SUCCEEDED"]
    /\ lease' = [lease EXCEPT ![a0] = "RELEASED"]
    /\ work' = "COMPLETED" /\ Leave
    /\ UNCHANGED <<goal, gates, noted, disk, reach, phase, bounds, procVars>>

\* Mutant: the promotion takes the directory as it is.
SubmitUnchecked ==
    /\ AtStage("enter", Submission) /\ Live /\ goal = "RUNNING" /\ gates = {}
    /\ work = "VERIFYING"
    /\ checkout' = [accepted |-> disk, observed |-> disk,
                    owned |-> FALSE, retry |-> FALSE]
    /\ Complete

\* Mutant: the accepted tree is the one that was reviewed.
SubmitReviewed ==
    /\ AtStage("enter", Submission) /\ Live /\ Unmoved
    /\ goal = "RUNNING" /\ gates = {} /\ work = "VERIFYING"
    /\ checkout' = [checkout EXCEPT !.accepted = job.filed.review]
    /\ Complete

\* PROMOTING and the promotion, in one step.
Submit ==
    /\ AtStage("enter", Submission) /\ Live /\ Unmoved
    /\ goal = "RUNNING" /\ gates = {} /\ work = "VERIFYING"
    /\ checkout' = [accepted |-> disk, observed |-> disk,
                    owned |-> FALSE, retry |-> FALSE]
    /\ Complete

SubmitRefused ==
    /\ AtStage("enter", Submission) /\ Live /\ Unmoved
    /\ goal # "RUNNING" \/ gates # {}
    /\ Fails("failed")
    /\ UNCHANGED <<progress, rows, disk, reach, phase, bounds, procVars>>

\* Capture, changesValidatorConfig, Save, RecordPatchBundle and Replay; whether
\* the changes are in the work's scope is for Patch.tla to say.
Collect ==
    /\ At("collect")
    /\ IF ~Live THEN Fails("failed") /\ UNCHANGED att
       ELSE /\ att' = [att EXCEPT ![a0] = "COLLECTING"]
            /\ IF disk = checkout.accepted THEN Fails("failed")
               ELSE RecordPatchBundle \/ Fails("drift")
    /\ UNCHANGED <<progress, lease, checkout, disk, reach, phase, bounds, procVars>>
----------------------------------------------------------------------------
\* The processes.  A probe that fails is tried again or reported as
\* unavailable: whatever it failed of is overwritten by the next error.

\* validateProcessOwner and the context of the caller.
OwnerStands == goal = "RUNNING" /\ att[a0] \in DOMAIN AttemptTransitions \ (AttemptFailures \cup {"SUCCEEDED"})
MayStart == ~job.cancelled /\ OwnerStands
SlotFree == RowsAllow(a0) /\ \A b \in Attempts \ {a0} : ~Held(b)

Fixed == <<progress, rows, disk, reach, phase, bounds>>

Begin ==
    /\ At("begin") /\ MayStart /\ SlotFree
    /\ BeginProcess(a0, job.stage) /\ Goto("register")
    /\ UNCHANGED Fixed

BeginRefused ==
    /\ At("begin") /\ ~(MayStart /\ SlotFree)
    /\ Fails("failed")
    /\ UNCHANGED <<Fixed, procVars>>

Register ==
    /\ At("register") /\ MayStart
    /\ RegisterProcess(a0, job.stage) /\ Goto("release")
    /\ UNCHANGED Fixed

\* The pipe closes without a byte.
StartFails ==
    /\ At("register") \/ At("release")
    /\ IF At("register") THEN ~MayStart ELSE job.cancelled
    /\ AbandonStart(a0, job.stage) /\ Fails("failed")
    /\ UNCHANGED Fixed

\* A service is not awaited.
Release ==
    /\ At("release") /\ ~job.cancelled
    /\ ReleaseWrapper(a0, job.stage)
    /\ IF job.stage = Service THEN GotoStage("begin", Probe) ELSE Goto("await")
    /\ UNCHANGED Fixed

Seen == proc[a0][job.stage].seen
\* The directory is compared with the tree of the stage whatever the outcome,
\* except after the agent, which is there to change it.
Blames == IF job.stage # Agent /\ ~Unmoved THEN "drift" ELSE "failed"

Unconfirmed ==
    /\ At("await") \/ At("stopped")
    /\ Seen = "unconfirmed"
    /\ IF job.stage = Probe
         THEN GotoStage("enter", Validator) \/ Fails("failed") \/ Fails("unconfirmed")
         ELSE Fails("unconfirmed")
    /\ UNCHANGED <<Fixed, procVars>>

\* The context was cancelled or the role's time is up, and the group is killed.
StopRole ==
    /\ At("await")
    /\ \/ Kill(a0, job.stage) /\ Goto("stopped")
       \/ /\ KillFails(a0, job.stage)
          /\ IF job.stage = Probe THEN Fails("failed") \/ GotoStage("enter", Validator)
             ELSE Fails("unconfirmed")
    /\ UNCHANGED Fixed

RoleFails ==
    /\ At("await") \/ At("stopped")
    /\ Seen = "done"
    /\ Fails(Blames) \/ (job.stage = Probe /\ Fails("failed"))
    /\ UNCHANGED <<Fixed, procVars>>

BootstrapEnds ==
    /\ AtStage("await", Bootstrap) /\ Seen = "done"
    /\ GotoStage("enter", Agent)
    /\ UNCHANGED <<Fixed, procVars>>

\* waitAgent: the result of a run that was cancelled is thrown away.
AgentEnds ==
    /\ AtStage("await", Agent) /\ Seen = "done"
    /\ Goto("collect")
    /\ UNCHANGED <<Fixed, procVars>>

ProbeEnds ==
    /\ AtStage("await", Probe) \/ AtStage("stopped", Probe)
    /\ Seen = "done"
    /\ GotoStage("enter", Validator)
    /\ UNCHANGED <<Fixed, procVars>>

\* CommandRunner.Run: a receipt that passed, in a directory nobody changed.
Passed == Seen = "done" /\ Unmoved

\* The receipt is recorded whether or not the context is live, and names the
\* tree the run was asked for.
ValidatorEnds ==
    /\ AtStage("await", Validator) /\ Passed
    /\ RecordValidatorRun
    /\ UNCHANGED <<progress, att, lease, checkout, disk, reach, phase, bounds, procVars>>

\* Adapter.Review: an answer, unless the context of the run has ended.
Answered == Seen = "done" /\ ~job.cancelled

\* An approving review of the tree it was prepared for.
ReviewerEnds ==
    /\ AtStage("await", Reviewer) /\ Answered
    /\ Unmoved
    /\ RecordReview
    /\ UNCHANGED <<progress, att, lease, checkout, disk, reach, phase, bounds, procVars>>

\* What happens next no longer depends on how far the attempt came.
Settle(cause) ==
    job' = [NoJob EXCEPT !.at = a0, !.pc = "settle", !.cause = cause]

\* StopServices after the validators, and the cleanup of a failure.
ServiceRuns == proc[a0][Service].os = "running"
StopService ==
    /\ At("cleanup") /\ ServiceRuns
    /\ \/ Kill(a0, Service) /\ UNCHANGED job
       \/ KillFails(a0, Service) /\ Settle("unconfirmed")
    /\ UNCHANGED Fixed

\* Mutant: the cleanup waits until the service is confirmed stopped.
ServiceAwaited ==
    LET service == proc[a0][Service] IN
    /\ At("cleanup")
    /\ service.row = "none" \/ service.seen = "done"
    /\ \/ job.cause # "none" /\ Settle(job.cause)
       \/ /\ job.cause = "none"
          /\ GotoStage("enter", Reviewer) \/ GotoStage("enter", Submission)
    /\ ForgetEnded
    /\ UNCHANGED Fixed

ServiceStopped ==
    LET service == proc[a0][Service] IN
    /\ At("cleanup")
    /\ \/ service.seen = "unconfirmed" /\ Settle("unconfirmed")
       \/ /\ service.row = "none" \/ service.seen = "done"
          /\ \/ job.cause # "none" /\ Settle(job.cause)
             \/ /\ job.cause = "none"
                /\ GotoStage("enter", Reviewer) \/ GotoStage("enter", Submission)
    /\ ForgetEnded
    /\ UNCHANGED Fixed
----------------------------------------------------------------------------
\* failAttempt, under a context that no cancellation reaches.

\* ResolveExpiredLease.
Expire ==
    /\ lease' = [lease EXCEPT ![a0] = "EXPIRED"]
    /\ att' = [att EXCEPT ![a0] = IF CanMove(AttemptTransitions, @, "INTERRUPTED")
                                    THEN "INTERRUPTED" ELSE @]
    /\ work' = "RECONCILING"

FailAttempt ==
    /\ At("settle")
    /\ IF job.cause = "unconfirmed"
         THEN Goto("wait") /\ UNCHANGED <<att, lease, work>>
       ELSE /\ Goto("settleWork")
            /\ IF ~CanMove(AttemptTransitions, att[a0], "FAILED")
                 THEN UNCHANGED <<att, lease, work>>
               ELSE IF lease[a0] = "LAPSED" THEN Expire
               ELSE /\ att' = [att EXCEPT ![a0] = "FAILED"]
                    /\ UNCHANGED <<lease, work>>
    /\ UNCHANGED <<goal, gates, noted, checkout, disk, reach, phase, bounds, procVars>>

FailWork ==
    /\ At("settleWork") /\ Goto("settleLease")
    /\ work' = IF CanMove(WorkTransitions, work, "RECONCILING") THEN "RECONCILING" ELSE work
    /\ UNCHANGED <<goal, gates, noted, rows, disk, reach, phase, bounds, procVars>>

\* A heartbeat between the read of the lease and its release makes the latter
\* a conflict: the lease stays ACTIVE until a start recovers it.
ReleaseLease ==
    /\ At("settleLease")
    /\ \/ /\ lease[a0] = "LAPSED" /\ Expire
          /\ Goto("observe")
          /\ UNCHANGED <<goal, gates, noted, faults>>
       \/ /\ lease[a0] # "LAPSED"
          /\ lease' = [lease EXCEPT ![a0] = IF @ = "ACTIVE" THEN "RELEASED" ELSE @]
          /\ IF work = "CANCELLED" THEN Leave ELSE Goto("observe")
          /\ UNCHANGED <<progress, att, faults>>
       \/ /\ lease[a0] = "ACTIVE" /\ faults < MaxFaults /\ faults' = faults + 1
          /\ StopInvariant
          /\ UNCHANGED <<att, lease>>
    /\ UNCHANGED <<checkout, disk, reach, phase, bounds, proc>>

\* observeFailureScene, whose changes may be out of scope: the scene of a retry
\* is what the directory holds.
Observe ==
    \E safe \in {FALSE, job.cause = "failed" /\ checkout.owned} :
       /\ At("observe")
       /\ disk = checkout.accepted => safe = (job.cause = "failed" /\ checkout.owned)
       /\ job' = [job EXCEPT !.pc = "wait", !.safe = safe]
       /\ checkout' = IF safe THEN [checkout EXCEPT !.observed = disk, !.retry = FALSE]
                      ELSE checkout
       /\ UNCHANGED <<progress, att, lease, disk, reach, phase, bounds, procVars>>

\* recordAndWait, when the goal is over.
WaitForNothing ==
    /\ At("wait") /\ goal = "CANCELLED" /\ Leave
    /\ UNCHANGED <<Fixed, procVars>>

\* Mutant: an automatic retry does not ask whether the processes stopped.
RetryAtOnce ==
    /\ At("wait") /\ job.safe /\ checkout.owned /\ work = "RECONCILING"
    /\ goal = "RUNNING" /\ disk = checkout.observed /\ gates = {}
    /\ work' = "READY" /\ checkout' = [checkout EXCEPT !.retry = TRUE]
    /\ Leave
    /\ UNCHANGED <<goal, gates, noted, att, lease, disk, reach, phase,
                   bounds, procVars>>

\* AutomaticRetryCheckoutWork, which has limits of its own.
RetryAutomatically ==
    /\ At("wait") /\ job.safe /\ checkout.owned /\ work = "RECONCILING"
    /\ goal = "RUNNING" /\ disk = checkout.observed /\ ExecutionIdle /\ gates = {}
    /\ work' = "READY" /\ checkout' = [checkout EXCEPT !.retry = TRUE]
    /\ Leave
    /\ UNCHANGED <<goal, gates, noted, att, lease, disk, reach, phase,
                   bounds, procVars>>

\* openFailureGate: the retry of a scene an automatic retry found busy or
\* changed is not offered.
AskOperator ==
    /\ At("wait") /\ goal # "CANCELLED"
    /\ \E safe \in {job.safe, job.safe /\ disk = checkout.observed /\ ExecutionIdle} :
         gates' = gates \cup {IF safe THEN "retry" ELSE "other"}
    /\ work' = IF CanMove(WorkTransitions, work, "WAITING") THEN "WAITING" ELSE work
    /\ goal' = "WAITING"
    /\ Leave
    /\ UNCHANGED <<noted, rows, disk, reach, phase, bounds, procVars>>

\* keepLeaseAlive finds the lease past its expiry; one that is over just ends it.
HeartbeatFails ==
    /\ phase = "serving" /\ job.pc \in Cancellable /\ job.at # 0
    /\ lease[a0] = "LAPSED" /\ ~job.cancelled
    /\ job' = [job EXCEPT !.cancelled = TRUE]
    /\ UNCHANGED <<Fixed, procVars>>
----------------------------------------------------------------------------
\* The operator and the control service.

\* To resume and to retry do not count.
Steer == phase = "serving" /\ steers < MaxSteers /\ steers' = steers + 1
Rest == <<disk, job, phase, crashes, procVars>>

Pause ==
    /\ Steer /\ goal = "RUNNING" /\ goal' = "WAITING" /\ reach' = TRUE
    /\ UNCHANGED <<work, gates, noted, rows, Rest>>

Resume ==
    /\ phase = "serving" /\ goal = "WAITING" /\ goal' = "RUNNING"
    /\ UNCHANGED <<work, gates, noted, rows, reach, steers, Rest>>

CancelGoal ==
    /\ Steer /\ CanMove(GoalTransitions, goal, "CANCELLED")
    /\ goal' = "CANCELLED" /\ reach' = TRUE
    /\ UNCHANGED <<work, gates, noted, rows, Rest>>

CancelWork ==
    /\ Steer /\ CanMove(WorkTransitions, work, "CANCELLED") /\ work' = "CANCELLED"
    /\ lease' = [a \in Attempts |-> IF Held(a) THEN "REVOKED" ELSE lease[a]]
    /\ att' = [a \in Attempts |->
                 IF Held(a) /\ CanMove(AttemptTransitions, att[a], "INTERRUPTED")
                   THEN "INTERRUPTED" ELSE att[a]]
    /\ goal' = IF goal = "RUNNING" THEN "WAITING" ELSE goal
    /\ reach' = TRUE
    /\ UNCHANGED <<gates, noted, checkout, Rest>>

\* Engine.CancelGoal or CancelWork: it cancels whatever runs by now.
CancelReaches ==
    /\ phase = "serving" /\ reach /\ reach' = FALSE
    /\ job' = [job EXCEPT !.cancelled = job.pc \in Cancellable]
    /\ UNCHANGED <<progress, rows, disk, phase, bounds, procVars>>

\* RetryCheckoutWork; it decides the gates that ask for a retry and no other.
RetryWork ==
    /\ phase = "serving" /\ goal # "CANCELLED"
    /\ work = "READY" \/ CanMove(WorkTransitions, work, "READY")
    /\ disk = checkout.observed
    /\ checkout.owned \/ checkout.accepted = disk
    /\ ExecutionIdle /\ gates \subseteq {"retry"}
    /\ goal' = "RUNNING" /\ work' = "READY" /\ gates' = {}
    /\ checkout' = [checkout EXCEPT !.owned = TRUE, !.retry = TRUE]
    /\ UNCHANGED <<noted, att, lease, reach, steers, Rest>>

DecideGate ==
    /\ Steer /\ \E g \in gates : gates' = gates \ {g}
    /\ UNCHANGED <<goal, work, noted, rows, reach, Rest>>

Edit ==
    /\ steers < MaxSteers /\ steers' = steers + 1
    /\ disk' \in Trees \ {disk}
    /\ UNCHANGED <<progress, rows, job, reach, phase, crashes, procVars>>
----------------------------------------------------------------------------
\* The processes at work, and the end of the daemon.

\* Anything that executes may write the directory.
Write ==
    /\ \E a \in Attempts, s \in Stages : Executing(a, s)
    /\ disk' \in Trees \ {disk}
    /\ UNCHANGED <<progress, rows, job, reach, phase, bounds, procVars>>

Run(a, s) ==
    /\ GroupEnds(a, s) \/ GroupSticks(a, s)
    /\ UNCHANGED <<Fixed, job>>

Watch(a, s) ==
    /\ phase = "serving" /\ Reap(a, s)
    /\ UNCHANGED <<Fixed, job>>

\* The machine sleeps past the lease, or the heartbeat is starved.
Lapse ==
    /\ phase = "serving" /\ job.at # 0 /\ lease[a0] = "ACTIVE"
    /\ faults < MaxFaults /\ faults' = faults + 1
    /\ lease' = [lease EXCEPT ![a0] = "LAPSED"]
    /\ UNCHANGED <<progress, att, checkout, disk, job, reach, phase,
                   bounds, proc>>

Crash ==
    /\ phase = "serving" /\ crashes < MaxCrashes /\ crashes' = crashes + 1
    /\ phase' = "recovering" /\ Leave /\ reach' = FALSE
    /\ CrashProcesses
    /\ UNCHANGED <<progress, rows, disk, steers>>

Recover(a, s) ==
    /\ phase = "recovering" /\ RecoverProcess(a, s)
    /\ UNCHANGED <<Fixed, job>>

\* ReconcileProcessAttempts, for the attempt of a lease that holds the work or
\* held it last.
Claims == {a \in Attempts :
    \/ Held(a)
    \/ /\ work \in {"CLAIMED", "RUNNING", "RECONCILING"} /\ att[a] # "none"
       /\ \A b \in Attempts : b > a => att[b] = "none"}

Reconcile ==
    LET stopped == {a \in Claims : Settled(a)}
        asks    == {a \in Claims : a \notin noted}
    IN /\ phase = "recovering" /\ Unvisited = {} /\ phase' = "serving"
       /\ lease' = [a \in Attempts |->
            IF a \in stopped /\ Held(a) THEN "REVOKED" ELSE lease[a]]
       /\ att' = [a \in Attempts |->
            IF a \in stopped /\ CanMove(AttemptTransitions, att[a], "INTERRUPTED")
              THEN "INTERRUPTED" ELSE att[a]]
       /\ work' = IF stopped # {} /\ CanMove(WorkTransitions, work, "RECONCILING")
                    THEN "RECONCILING" ELSE work
       /\ goal' = IF Claims # {} /\ goal = "RUNNING" THEN "WAITING" ELSE goal
       /\ IF goal = "CANCELLED" THEN UNCHANGED <<gates, noted>>
          ELSE /\ noted' = noted \cup Claims
               /\ gates' =
                    (IF stopped \cap noted # {} /\ "recovery" \in gates
                       THEN (gates \ {"recovery"}) \cup {"retry"} ELSE gates)
                    \cup {IF a \in stopped THEN "retry" ELSE "recovery" : a \in asks}
       /\ ForgetEnded
       /\ UNCHANGED <<checkout, disk, job, reach, bounds>>
----------------------------------------------------------------------------
Engine ==
    \/ Admit \/ Claim \/ ClaimRefused
    \/ EnterBootstrap \/ EnterAgent \/ EnterService \/ EnterValidator
    \/ EnterReviewer \/ EnterRefused \/ Submit \/ SubmitRefused \/ Collect
    \/ Begin \/ BeginRefused \/ Register \/ StartFails \/ Release
    \/ Unconfirmed \/ StopRole \/ RoleFails \/ BootstrapEnds \/ AgentEnds
    \/ ProbeEnds \/ ValidatorEnds \/ ReviewerEnds
    \/ StopService \/ ServiceStopped
    \/ FailAttempt \/ FailWork \/ ReleaseLease \/ Observe
    \/ WaitForNothing \/ RetryAutomatically \/ AskOperator

Operator ==
    \/ Pause \/ Resume \/ CancelGoal \/ CancelWork \/ RetryWork \/ DecideGate \/ Edit

Environment ==
    \/ CancelReaches \/ HeartbeatFails \/ Lapse \/ Write \/ Crash \/ Reconcile
    \/ \E a \in Attempts, s \in Stages : Run(a, s) \/ Watch(a, s) \/ Recover(a, s)

Next == Engine \/ Operator \/ Environment
Spec == Init /\ [][Next]_vars

\* The engine's goroutine runs, every role has a timeout (StopRole), and the
\* goroutine of a process sees the end of its leader.
Watching == \E a \in Attempts, s \in Stages : Watch(a, s)
Fairness == WF_vars(Engine) /\ WF_vars(Watching)
FairSpec == Spec /\ Fairness
----------------------------------------------------------------------------
TypeOK ==
    /\ goal \in {"RUNNING", "WAITING", "CANCELLED"} /\ work \in DOMAIN WorkTransitions
    /\ gates \subseteq {"retry", "recovery", "other"} /\ noted \subseteq Attempts
    /\ att \in [Attempts -> DOMAIN AttemptTransitions \cup {"none"}]
    /\ lease \in [Attempts -> DOMAIN LeaseTransitions \cup {"none", "LAPSED"}]
    /\ checkout \in [accepted : Trees, observed : Trees, owned : BOOLEAN, retry : BOOLEAN]
    /\ disk \in Trees /\ reach \in BOOLEAN
    /\ job \in [at : Attempts \cup {0}, pc : Steps, stage : Bootstrap .. Submission,
                cause : Causes, cancelled : BOOLEAN, safe : BOOLEAN,
                filed : [Kinds -> Trees \cup {NoTree}]]
    /\ phase \in {"serving", "recovering"}
    /\ crashes \in 0 .. MaxCrashes /\ steers \in 0 .. MaxSteers
    /\ ProcTypeOK

\* The tree a work completes with is what the directory holds, what the
\* attempt's bundle, its validator run and its review if it had one name, and
\* nothing that could still write the directory executes but a probe that was
\* given up (runValidators, runReview, cleanupEnvironments, checkWorkspaceTree).
AcceptedAsValidated ==
    [][work # "COMPLETED" /\ work' = "COMPLETED" =>
         /\ disk = checkout'.accepted
         /\ \A k \in {"bundle", "validation", "run"} : job.filed[k] = disk
         /\ job.filed.review \in {disk, NoTree}
         /\ \A b \in Attempts, s \in Stages : Executing(b, s) => b = a0 /\ s = Probe]_vars

\* A retry is authorized only over a project where no attempt holds a lease
\* and no process of any attempt executes, until the retry is claimed
\* (retryCheckoutWork, observeFailureScene, claimCheckoutWork).
RetryAtRest == checkout.retry => NoLease /\ \A a \in Attempts : Quiet(a)

\* Whatever is cancelled, lapses, hangs or cannot be killed, an execution
\* comes to its durable end and the engine is free again.
ExecutionSettles == (job.pc # "idle") ~> (job.pc = "idle")
=============================================================================
