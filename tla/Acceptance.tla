---------------------------- MODULE Acceptance ----------------------------
(***************************************************************************)
(* The acceptance session of a goal's final validation: an agent drives    *)
(* the finished system from outside, so what a session did cannot be taken *)
(* back and a second session needs the answer of a human, or a contract    *)
(* that declares the replay safe and a first session that was interrupted. *)
(*                                                                         *)
(* The calls are effects of the journal (store/sqlite/acceptance.go); the  *)
(* engine makes them in finalizeGoal (orchestrator/acceptance.go).  The    *)
(* gate about call i is gates[i], its id being derived from the call's.    *)
(***************************************************************************)
EXTENDS Lifecycle, Naturals, Sequences, FiniteSets

CONSTANTS MaxCalls,       \* bound on calls
          MaxTrees,       \* bound on accepted trees (plans carried out)
          MaxCrashes,     \* bound on crashes
          MaxSteers,      \* bound on pauses, resumptions, cancels and replans
          ReplaySafe,     \* the contract declares the scenarios repeatable
          RecoveryLimit   \* interruptions that are replayed without asking

ASSUME AcceptanceAssumption ==
    /\ {MaxCalls, MaxCrashes, MaxSteers} \subseteq Nat
    /\ {MaxTrees, RecoveryLimit} \subseteq Nat \ {0}
    /\ ReplaySafe \in BOOLEAN

VARIABLES
    goal, tree,
    todo,      \* the active plan has required work left
    calls,     \* the acceptance effects, oldest first
    gates,     \* call -> state of the gate about it: SHUT once it is denied, or
               \* its deadline passed before it was decided or used
    halted,    \* a gate of stopInvariant is not approved
    sealed,    \* trees with a final evidence set
    pc,        \* the engine's next step
    current,   \* the goal's version is the one the engine holds; from
               \* BeginAcceptance on that is the call's, see bound
    request,   \* what the engine has prepared for BeginAcceptance
    crashes, steers

vars == <<goal, tree, todo, calls, gates, halted, sealed, pc, current,
          request, crashes, steers>>
other == <<tree, todo, sealed, crashes, steers>>

Terminal == {"SUCCEEDED", "FAILED"}
Latest == Len(calls)
Live(c) == c.process = "live"    \* not known to have stopped
NoRequest == [prior |-> 0, decided |-> FALSE]

Init ==
    /\ goal = "RUNNING" /\ tree = 1 /\ todo = FALSE
    /\ calls = <<>> /\ gates = [i \in 1..MaxCalls |-> "none"]
    /\ halted = FALSE /\ sealed = {}
    /\ pc = "idle" /\ current = FALSE /\ request = NoRequest /\ crashes = 0 /\ steers = 0

Up == pc \notin {"down", "startup"}

\* Bound: what happens to the gates of an ended goal is read by no step.
Alive == goal \notin {"COMPLETED", "CANCELLED"}

\* Every change of the goal raises its version: the engine's copy and the
\* version in every request are stale from then on.
Unbound(cs) == [i \in DOMAIN cs |-> [cs[i] EXCEPT !.bound = FALSE]]
SetGoal(s, cs) ==
    /\ CanMove(GoalTransitions, goal, s)
    /\ goal' = s /\ current' = FALSE /\ calls' = Unbound(cs)

\* A required gate blocks unless it is approved, and unexpired or used.
Blocking ==
    \/ halted
    \/ \E i \in 1..MaxCalls : gates[i] \in {"OPEN", "SHUT"}

\* acceptanceBindingState without the version.
BindingState(i, state) ==
    goal = state /\ ~todo /\ calls[i].tree = tree

Binding(i) == BindingState(i, "VERIFYING") /\ calls[i].bound

Interruptions(cs, t) ==
    Cardinality({i \in DOMAIN cs : cs[i].tree = t /\ cs[i].failure = "interrupted"})

ReplayAllowed(cs, i) ==
    /\ ReplaySafe /\ cs[i].state = "FAILED" /\ cs[i].failure = "interrupted"
    /\ cs[i].claim = "none" /\ cs[i].stopped /\ ~cs[i].historical
    /\ Interruptions(cs, cs[i].tree) <= RecoveryLimit

\* acceptanceGateTx: an existing gate is kept, whatever its state.
Gated(i) == [gates EXCEPT ![i] = IF @ = "none" THEN "OPEN" ELSE @]

----------------------------------------------------------------------------
\* ObserveAcceptance.

\* Mutant: the journal of processes is not asked.
Stopped(c, o) == o.stopped
ConfirmedStopped(c, o) == o.stopped /\ ~Live(c)

Valid(i) == Binding(i) /\ i = Latest /\ ~Blocking /\ ~calls[i].historical

\* Mutant: the last observation replaces the earlier ones.
Newest(c, o) == o
Kept(c, o) == IF c.claim # "none" THEN c ELSE o

Observed(i, o) ==
    LET c    == calls[i]
        kept == Kept(c, o)
        stop == ConfirmedStopped(c, o)
    IN [c EXCEPT !.claim = kept.claim, !.failure = kept.failure,
                 !.stopped = stop, !.historical = ~Valid(i),
                 !.state = IF ~stop THEN "RECOVERING"
                           ELSE IF kept.claim # "none" /\ kept.failure = "none"
                             THEN "SUCCEEDED" ELSE "FAILED"]

Completed(c) == c.claim = "done" /\ c.failure = "none"

\* The outcome of the call and the gate about it are one transaction.
ObserveAcceptance(i, o, recovering) ==
    LET c  == Observed(i, o)
        cs == [calls EXCEPT ![i] = c]
        gated == /\ Valid(i) /\ c.stopped
                 /\ recovering \/ ~Completed(c)
                 /\ ~(recovering /\ ReplayAllowed(cs, i))
    IN IF gated
         THEN gates' = Gated(i) /\ SetGoal("WAITING", cs)
         ELSE calls' = cs /\ UNCHANGED <<gates, goal, current>>

----------------------------------------------------------------------------
\* The engine.

\* Mutant: an answer that is still being written is taken.
FoundPartly(c) == IF c.process = "none" THEN {"none"} ELSE {"partial", "done"}

\* ReadClaim: the agent's answer is a file, which may have been written after
\* the daemon that started the agent was gone.
Found(c) == IF c.process = "none" THEN {"none"} ELSE {"none", "done", "blocked"}

\* recoverAcceptance: the call a crash or an unconfirmed process left open is
\* interrupted, unless its answer is found on disk.
RecoverAcceptance ==
    \/ \E i \in DOMAIN calls :
         /\ calls[i].state \notin Terminal
         /\ \E f \in Found(calls[i]) :
              LET o == [claim |-> f, stopped |-> TRUE,
                        failure |-> IF f = "none" THEN "interrupted" ELSE "none"]
              IN ObserveAcceptance(i, o, TRUE)
    \/ /\ \A i \in DOMAIN calls : calls[i].state \in Terminal
       /\ UNCHANGED <<calls, gates, goal, current>>

RunGoal ==
    /\ pc = "idle" /\ goal \in {"RUNNING", "VERIFYING"}
    /\ pc' = "run" /\ RecoverAcceptance
    /\ UNCHANGED <<other, halted, request>>

\* Required work of a new plan is accepted; module Promotion has the details.
CompleteWork ==
    /\ pc = "run" /\ goal = "RUNNING" /\ todo /\ tree < MaxTrees
    /\ tree' = tree + 1 /\ todo' = FALSE
    /\ UNCHANGED <<goal, calls, gates, halted, sealed, pc, current,
                   request, crashes, steers>>

BeginVerifying ==
    /\ pc = "run" /\ ~todo /\ goal \in {"RUNNING", "VERIFYING"}
    /\ goal' = "VERIFYING" /\ current' = TRUE
    /\ calls' = IF goal = "VERIFYING" THEN calls ELSE Unbound(calls)
    /\ pc' = "ready"
    /\ UNCHANGED <<other, gates, halted, request>>

\* The goal waits, is ended, or has work that waits for something.
NothingToVerify ==
    /\ pc = "run" /\ (goal \notin {"RUNNING", "VERIFYING"} \/ todo)
    /\ pc' = "idle"
    /\ UNCHANGED <<goal, calls, gates, current, other, halted, request>>

\* RequireAcceptanceReplay: go on, wait for the gate, or fail.
Replayable(i) ==
    /\ calls[i].state \in Terminal /\ BindingState(i, "VERIFYING")
    /\ ReplayAllowed(calls, i) \/ gates[i] = "APPROVED"

RequireAcceptanceReplay(i, next, waiting) ==
    \/ /\ Replayable(i) /\ pc' = next
       /\ UNCHANGED <<calls, gates, goal, current>>
    \/ /\ calls[i].state \in Terminal /\ BindingState(i, "VERIFYING")
       /\ ~Replayable(i) /\ pc' = waiting
       /\ gates' = Gated(i) /\ SetGoal("WAITING", calls)
    \/ /\ calls[i].state \notin Terminal \/ ~BindingState(i, "VERIFYING")
       /\ pc' = "stop" /\ UNCHANGED <<calls, gates, goal, current>>

\* Then the packet is made: it names the call before and its decision, if any.
AcceptanceReady ==
    /\ pc = "ready"
    /\ IF Latest = 0 \/ calls[Latest].tree # tree
         THEN /\ pc' = "begin" /\ request' = NoRequest
              /\ UNCHANGED <<calls, gates, goal, current>>
         ELSE /\ RequireAcceptanceReplay(Latest, "begin", "idle")
              /\ request' = [prior |-> Latest, decided |-> gates[Latest] = "APPROVED"]
    /\ UNCHANGED <<other, halted>>

\* What one transaction requires of a new call.
MayBegin ==
    /\ current /\ goal = "VERIFYING" /\ ~todo
    /\ \A i \in DOMAIN calls : calls[i].state \in Terminal /\ ~Live(calls[i])
    /\ ~Blocking
    /\ Latest # 0 /\ calls[Latest].tree = tree =>
         /\ request.prior = Latest
         /\ IF request.decided THEN gates[Latest] = "APPROVED"
                               ELSE ReplayAllowed(calls, Latest)

NewCall ==
    [tree |-> tree, state |-> "EXECUTING", claim |-> "none", failure |-> "none",
     stopped |-> FALSE, historical |-> FALSE, bound |-> TRUE,
     process |-> "none",
     by |-> IF request.prior = 0 THEN "engine"
            ELSE IF request.decided THEN "human" ELSE "recovery"]

\* A call that is not the latest counts for nothing any more, and what it left
\* is not read again.
Replaced ==
    [i \in DOMAIN calls |-> [calls[i] EXCEPT !.historical = TRUE, !.bound = FALSE,
                                             !.process = "gone"]]

\* Mutant: the decision is spent when the session ends, not when it begins.
BeginUnspent ==
    /\ pc = "begin" /\ Latest < MaxCalls /\ MayBegin
    /\ calls' = Append(Replaced, NewCall)
    /\ pc' = "start" /\ request' = NoRequest /\ current' = FALSE
    /\ UNCHANGED <<goal, gates, other, halted>>

BeginAcceptance ==
    /\ pc = "begin" /\ Latest < MaxCalls /\ MayBegin
    /\ calls' = Append(Replaced, NewCall)
    /\ gates' = IF request.decided THEN [gates EXCEPT ![Latest] = "USED"] ELSE gates
    /\ pc' = "start" /\ request' = NoRequest /\ current' = FALSE
    /\ UNCHANGED <<goal, other, halted>>

\* Anything before the call fails, BeginAcceptance included.
CannotBegin ==
    /\ pc = "begin"
    /\ pc' = "stop" /\ request' = NoRequest /\ current' = FALSE
    /\ UNCHANGED <<goal, calls, gates, other, halted>>

\* The worker's process is journalled before it runs.
StartWorker ==
    /\ pc = "start" /\ pc' = "session"
    /\ calls' = [calls EXCEPT ![Latest].process = "live"]
    /\ UNCHANGED <<goal, gates, current, other, halted, request>>

\* The process ends, or is not confirmed to have ended.
EndSession ==
    /\ pc \in {"start", "session"} /\ pc' = "observe"
    /\ \/ calls' = [calls EXCEPT ![Latest].process = IF @ = "live" THEN "gone" ELSE @]
       \/ calls[Latest].process = "live" /\ UNCHANGED calls
    /\ UNCHANGED <<goal, gates, current, other, halted, request>>

\* The outcome is recorded even if the goal's context was cancelled meanwhile.
RecordOutcome ==
    /\ pc = "observe"
    /\ LET c == calls[Latest] IN
       \E f \in Found(c), failure \in {"none", "provider"} :
         LET o == [claim |-> f, failure |-> failure, stopped |-> ~Live(c)] IN
         /\ f = "none" \/ Live(c) => failure = "provider"
         /\ f = "blocked" /\ ~Live(c) => failure = "none"
         /\ ObserveAcceptance(Latest, o, FALSE)
         /\ pc' = IF Valid(Latest) /\ ~Live(c) /\ Completed(o) THEN "validate"
                                                             ELSE "idle"
    /\ UNCHANGED <<other, halted, request>>

\* Final validators and the evidence set of the tree.
ValidateFinal ==
    /\ pc = "validate"
    /\ \/ sealed' = sealed \cup {tree} /\ pc' = "complete"
       \/ sealed' = sealed /\ pc' = "require"
    /\ UNCHANGED <<goal, tree, todo, calls, gates, halted, current,
                   request, crashes, steers>>

\* Mutant: any session that succeeded on the tree will do.
AcceptedOnce ==
    \E i \in DOMAIN calls :
        calls[i].tree = tree /\ calls[i].state = "SUCCEEDED" /\ Completed(calls[i])

\* verifyFinalAcceptance
AcceptanceVerified ==
    /\ Latest # 0 /\ Binding(Latest)
    /\ LET c == calls[Latest]
       IN c.state = "SUCCEEDED" /\ c.stopped /\ ~c.historical /\ Completed(c)

\* FinalizeGoal as far as acceptance goes (module Finalize has the rest), for
\* the engine and for goal.finalize, whose version the operator may know.
MayComplete ==
    /\ goal = "VERIFYING" /\ ~todo /\ tree \in sealed /\ ~Blocking
    /\ \A i \in DOMAIN calls : ~Live(calls[i])
    /\ AcceptanceVerified

CompleteGoal ==
    /\ pc = "complete"
    /\ IF MayComplete
         THEN SetGoal("COMPLETED", calls) /\ pc' = "idle"
         ELSE UNCHANGED <<goal, calls, current>> /\ pc' = "require"
    /\ UNCHANGED <<other, gates, halted, request>>

OperatorCompletes ==
    /\ Up /\ MayComplete /\ SetGoal("COMPLETED", calls)
    /\ UNCHANGED <<other, gates, halted, pc, request>>

\* The deferred step of finalizeGoal: the session's result is lost to the goal.
RequireAnswer ==
    /\ pc = "require"
    /\ IF goal = "VERIFYING"
         THEN RequireAcceptanceReplay(Latest, "stop", "stop")
         ELSE pc' = "stop" /\ UNCHANGED <<calls, gates, goal, current>>
    /\ UNCHANGED <<other, halted, request>>

\* stopInvariant: a gate, then the goal waits.
OpenInvariantGate ==
    /\ pc = "stop"
    /\ IF goal \in {"RUNNING", "VERIFYING"}
         THEN halted' = TRUE /\ current' = TRUE /\ pc' = "hold"
         ELSE pc' = "idle" /\ current' = FALSE /\ UNCHANGED halted
    /\ UNCHANGED <<goal, tree, todo, calls, gates, sealed, request, crashes, steers>>

HoldGoal ==
    /\ pc = "hold" /\ pc' = "idle"
    /\ IF current THEN SetGoal("WAITING", calls)
                  ELSE UNCHANGED <<goal, calls, current>>
    /\ UNCHANGED <<other, gates, halted, request>>

----------------------------------------------------------------------------
\* Operators, time and crashes.

\* goal.pause, goal.resume, goal.cancel.
SteerGoal ==
    /\ Up /\ steers < MaxSteers /\ steers' = steers + 1
    /\ \E s \in {"WAITING", "RUNNING", "CANCELLED"} : SetGoal(s, calls)
    /\ UNCHANGED <<tree, todo, sealed, crashes, gates, halted, pc, request>>

Replan ==
    /\ Up /\ steers < MaxSteers /\ steers' = steers + 1
    /\ goal \in {"RUNNING", "WAITING"} /\ tree < MaxTrees
    /\ goal' = "RUNNING" /\ current' = FALSE /\ calls' = Unbound(calls)
    /\ todo' = TRUE
    /\ UNCHANGED <<tree, sealed, crashes, gates, halted, pc, request>>

DecideGate(i) ==
    /\ Up /\ Alive /\ gates[i] = "OPEN"
    /\ \E s \in {"APPROVED", "SHUT"} : gates' = [gates EXCEPT ![i] = s]
    /\ UNCHANGED <<goal, calls, current, other, halted, pc, request>>

GateExpires(i) ==
    /\ Alive /\ gates[i] \in {"OPEN", "APPROVED"}
    /\ gates' = [gates EXCEPT ![i] = "SHUT"]
    /\ UNCHANGED <<goal, calls, current, other, halted, pc, request>>

\* The gates of internal invariants are approved (a denied one stays).
AllowStops ==
    /\ Up /\ Alive /\ halted /\ halted' = FALSE
    /\ UNCHANGED <<goal, calls, gates, current, other, pc, request>>

\* gate.resume with the owner "final".
ResumeAcceptanceGate ==
    /\ Up /\ Latest # 0 /\ calls[Latest].state \in Terminal
    /\ calls[Latest].stopped /\ BindingState(Latest, "WAITING")
    /\ \A i \in DOMAIN calls : ~Live(calls[i])
    /\ gates[Latest] = "APPROVED" /\ ~Blocking
    /\ SetGoal("RUNNING", calls)
    /\ UNCHANGED <<other, gates, halted, pc, request>>

Crash ==
    /\ Up /\ crashes < MaxCrashes /\ crashes' = crashes + 1
    /\ pc' = "down" /\ current' = FALSE /\ request' = NoRequest
    /\ UNCHANGED <<goal, tree, todo, calls, gates, halted, sealed, steers>>

\* The recovery of a start confirms every process before it goes on (module
\* Processes), then recovers the call.
ConfirmProcesses ==
    /\ pc = "down" /\ pc' = "startup"
    /\ calls' = [i \in DOMAIN calls |-> [calls[i] EXCEPT !.process = IF @ = "live" THEN "gone" ELSE @]]
    /\ UNCHANGED <<goal, gates, current, other, halted, request>>

Restart ==
    /\ pc = "startup" /\ pc' = "idle" /\ RecoverAcceptance
    /\ UNCHANGED <<other, halted, request>>

Engine ==
    \/ RunGoal \/ CompleteWork \/ BeginVerifying \/ NothingToVerify
    \/ AcceptanceReady \/ BeginAcceptance \/ CannotBegin
    \/ StartWorker \/ EndSession \/ RecordOutcome \/ ValidateFinal
    \/ CompleteGoal \/ RequireAnswer \/ OpenInvariantGate \/ HoldGoal
    \/ ConfirmProcesses \/ Restart

Next ==
    \/ Engine
    \/ \E i \in DOMAIN calls : DecideGate(i) \/ GateExpires(i)
    \/ OperatorCompletes \/ SteerGoal \/ Replan \/ AllowStops
    \/ ResumeAcceptanceGate \/ Crash

Spec == Init /\ [][Next]_vars

----------------------------------------------------------------------------
\* Properties.

Calls ==
    [tree : 1..MaxTrees, state : DOMAIN EffectTransitions,
     claim : {"none", "done", "blocked"}, failure : {"none", "interrupted", "provider"}, stopped : BOOLEAN,
     historical : BOOLEAN, bound : BOOLEAN, process : {"none", "live", "gone"},
     by : {"engine", "human", "recovery"}]

\* Types of the variables.
TypeOK ==
    /\ goal \in DOMAIN GoalTransitions /\ tree \in 1..MaxTrees
    /\ todo \in BOOLEAN /\ calls \in Seq(Calls) /\ Latest <= MaxCalls
    /\ gates \in [1..MaxCalls -> {"none", "OPEN", "APPROVED", "SHUT", "USED"}]
    /\ halted \in BOOLEAN /\ sealed \subseteq 1..tree
    /\ pc \in {"idle", "run", "ready", "begin", "start", "session",
               "observe", "validate", "complete", "require", "stop", "hold",
               "down", "startup"}
    /\ current \in BOOLEAN
    /\ request \in [prior : 0..MaxCalls, decided : BOOLEAN]
    /\ crashes \in 0..MaxCrashes /\ steers \in 0..MaxSteers

\* Sessions never overlap: only the latest call can have a process that may
\* still act on the world outside, and its outcome is open until the process is
\* known to have stopped, whatever the recoveries say.
OneSession ==
    \A i \in DOMAIN calls :
        /\ Live(calls[i]) => i = Latest /\ calls[i].state \notin Terminal
        /\ i < Latest => calls[i].state \in Terminal

\* A tree's session is repeated only by a decision of a human, each of which
\* pays for exactly one call, or after an interruption of a session without an
\* answer and declared safe to repeat, and then at most RecoveryLimit times.
AuthorizedReplay ==
    /\ \A i \in DOMAIN calls : i + 1 \in DOMAIN calls =>
         LET c == calls[i + 1] IN
         /\ c.tree = calls[i].tree => c.by # "engine"
         /\ c.by = "human" <=> gates[i] = "USED"
         /\ c.by = "recovery" => /\ ReplaySafe /\ calls[i].claim = "none"
                                 /\ calls[i].failure = "interrupted"
    /\ Latest # 0 => gates[Latest] # "USED"
    /\ \A t \in 1..tree :
         Cardinality({i \in DOMAIN calls : calls[i].by = "recovery"
                                           /\ calls[i].tree = t}) <= RecoveryLimit

\* A goal is completed, by whomever, on the latest session, which was for the
\* accepted tree and completed it, and whose answer came before any pause.
CompletedOnCurrentClaim ==
    goal = "COMPLETED" =>
        /\ Latest # 0 /\ calls[Latest].tree = tree
        /\ calls[Latest].state = "SUCCEEDED" /\ Completed(calls[Latest])
        /\ ~calls[Latest].historical /\ ~Live(calls[Latest])

\* What a session answered first stands: no later observation of the same call,
\* by a recovery for instance, replaces it or makes a success of a failure.
ClaimStands ==
    [][\A i \in DOMAIN calls :
         /\ calls[i].claim # "none" =>
              /\ calls'[i].claim = calls[i].claim
              /\ calls'[i].failure = calls[i].failure
         /\ calls[i].state \in Terminal => calls'[i].state = calls[i].state]_vars
=============================================================================
