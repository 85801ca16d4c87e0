----------------------------- MODULE Promotion -----------------------------
(***************************************************************************)
(* How one goal's accepted line grows: the claim of a work item in the     *)
(* current directory, its attempt, the promotion protocol that publishes   *)
(* the attempt's tree on the private integration ref with a Git compare-   *)
(* and-swap and then records it, and everything that can come between two  *)
(* of its steps: a crash and the recovery at the next start, the recovery  *)
(* at the start of a run, pauses, cancellations of the goal or of a work   *)
(* item, operator retries and gate decisions, an elapsed lease, edits of   *)
(* the directory by the operator.                                          *)
(*                                                                         *)
(* SQLite runs one transaction at a time, so a transaction is one step.    *)
(* The code between two transactions, Git commands or file operations has  *)
(* a label, held in pc.  The engine is serial (Engine.serial): one run, so *)
(* one pc.  Attempt a is identified with the candidate tree it produces    *)
(* and with the commit made of that tree; a commit's id is a function of   *)
(* the promotion request, so making it twice makes the same object.        *)
(*                                                                         *)
(* One goal, admitted in a clean checkout and RUNNING with an active plan. *)
(* The run of the agent and of the validators is two steps (AgentWrites,   *)
(* Validate); evidence, patch bundle and configuration stay valid.         *)
(***************************************************************************)
EXTENDS Integers, FiniteSets, Lifecycle

CONSTANTS
    Works,     \* work items of the active plan, ordered as their ids
    Deps,      \* HARD dependencies: <<prerequisite, dependent>>
    Required,  \* the works whose cancellation stops the goal
    Attempts,  \* attempts in the order they are claimed
    Base,      \* the commit, and its tree, the goal was admitted on
    Foreign,   \* a tree or Git identity no attempt and no commit has
    None

ASSUME ParametersAssumption ==
    /\ Works \subseteq Nat /\ Attempts \subseteq Nat
    /\ IsFiniteSet(Works) /\ IsFiniteSet(Attempts)
    /\ Required \subseteq Works
    /\ Deps \subseteq {d \in Works \X Works : d[1] # d[2]}
    /\ Base \notin Attempts /\ Foreign \notin Attempts /\ Base # Foreign
    /\ None \notin Works \cup Attempts \cup {Base, Foreign}

Commits == Attempts \cup {Base}
Trees   == Commits \cup {Foreign}

VARIABLES
    \* the rows of the store
    goal,      \* state of the goal
    work,      \* state of each work item
    attempt,   \* state of each attempt; NONE before its claim
    lease,     \* state of the lease of each attempt; ELAPSED: the row is
               \* ACTIVE and its expires_at has passed
    workOf,    \* the work an attempt was claimed for
    parent,    \* the accepted commit an attempt started from
    promo,     \* state of the promotion of each attempt; NONE: no row
    effect,    \* state of the promotion's effect; NONE: no row
    gates,     \* <<attempt, kind>>: required gates left behind that block
    filed,     \* attempts with an execution_recovery gate row, open or not
    halted,    \* an internal_invariant_violation gate blocks the goal
    checkout,  \* the persisted record of the current directory
    \* Git and the files
    ref,       \* commit of the integration ref
    marker,    \* attempts whose promotion marker file exists
    tree,      \* the tree the current directory would snapshot to
    \* the daemon process
    pc,        \* where the serial engine is
    cur,       \* the attempt it works on
    via        \* who called: the run, a recovery in a run, or the startup

ownership == <<attempt, lease, workOf, parent>>
journal   == <<promo, effect>>
gating    == <<gates, filed, halted>>
store  == <<goal, work, ownership, journal, gating, checkout>>
files  == <<ref, marker, tree>>
engine == <<pc, cur, via>>
vars   == <<store, files, engine>>

Kinds == {"recovery", "retry", "held"}

PromoteSteps == {"verify", "effect", "request", "preflight", "mark", "commit",
                 "preflight2", "verify2", "cas", "updated", "observe", "adopt"}
ErrorSteps   == {"failing", "error", "gate", "wait", "hold"}
RunSteps     == {"loop", "agent", "fail", "park"}
Labels == {"down", "idle", "queued", "refresh"}
          \cup PromoteSteps \cup ErrorSteps \cup RunSteps

TypeOK ==
    /\ goal \in {"RUNNING", "WAITING", "CANCELLED"}
    /\ work \in [Works -> DOMAIN WorkTransitions]
    /\ attempt \in [Attempts -> {"NONE", "CREATED", "VALIDATING", "PROMOTING",
                                 "SUCCEEDED", "FAILED", "INTERRUPTED"}]
    /\ lease \in [Attempts -> {"NONE", "ELAPSED"} \cup DOMAIN LeaseTransitions]
    /\ workOf \in [Attempts -> Works \cup {None}]
    /\ parent \in [Attempts -> Commits \cup {None}]
    /\ promo \in [Attempts -> {"NONE", "REQUESTED", "COMMIT_CREATED",
                               "REF_UPDATED", "OBSERVED", "FAILED"}]
    /\ effect \in [Attempts -> {"NONE"} \cup DOMAIN EffectTransitions]
    /\ gates \subseteq Attempts \X Kinds
    /\ filed \subseteq Attempts
    /\ halted \in BOOLEAN
    /\ checkout \in [work : Works \cup {None}, accepted : Commits,
                     observed : Trees, retry : BOOLEAN]
    /\ ref \in Commits
    /\ marker \subseteq Attempts
    /\ tree \in Trees
    /\ pc \in Labels
    /\ cur \in Attempts \cup {None}
    /\ via \in {"execute", "recover", "startup"}

HasPrerequisite(w) == \E v \in Works : <<v, w>> \in Deps

Init ==
    /\ goal = "RUNNING"
    /\ work = [w \in Works |-> IF HasPrerequisite(w) THEN "PENDING" ELSE "READY"]
    /\ attempt = [a \in Attempts |-> "NONE"]
    /\ lease = [a \in Attempts |-> "NONE"]
    /\ workOf = [a \in Attempts |-> None]
    /\ parent = [a \in Attempts |-> None]
    /\ promo = [a \in Attempts |-> "NONE"]
    /\ effect = [a \in Attempts |-> "NONE"]
    /\ gates = {} /\ filed = {}
    /\ halted = FALSE
    /\ checkout = [work |-> None, accepted |-> Base, observed |-> Base,
                   retry |-> FALSE]
    /\ ref = Base
    /\ marker = {}
    /\ tree = Base
    /\ pc = "idle" /\ cur = None /\ via = "execute"

-----------------------------------------------------------------------------
(* Predicates the transactions read. *)

Pending(a)   == promo[a] \in {"REQUESTED", "COMMIT_CREATED", "REF_UPDATED"}
AnyPending   == \E a \in Attempts : Pending(a)
Owner(a)     == lease[a] \in {"ACTIVE", "ELAPSED"}
ActiveLease  == \E a \in Attempts : Owner(a)
Idle         == ~ActiveLease /\ ~AnyPending
Terminal(a)  == attempt[a] \in {"SUCCEEDED", "FAILED", "INTERRUPTED"}
DepsDone(w)  == \A v \in Works : <<v, w>> \in Deps => work[v] = "COMPLETED"
Serving      == pc # "down" /\ via # "startup"

\* A gate blocks a work when it has no work or names this one.
Blocked(w) ==
    \/ halted
    \/ \E g \in gates : workOf[g[1]] = w

\* The PENDING works whose dependencies and gates are clear become READY.
Refreshed ==
    [w \in Works |-> IF work[w] = "PENDING" /\ DepsDone(w) /\ ~Blocked(w)
                     THEN "READY" ELSE work[w]]

\* The lowest id that is READY in ws and not behind a gate; a live lease
\* hides them all.
IsNextReady(w, ws) ==
    /\ ~ActiveLease
    /\ ws[w] = "READY" /\ ~Blocked(w)
    /\ \A v \in Works : v < w => ws[v] # "READY" \/ Blocked(v)

\* Fresh attempt ids are drawn in the order of the claims.
IsNextAttempt(a) ==
    /\ attempt[a] = "NONE"
    /\ \A b \in Attempts : b < a => attempt[b] # "NONE"

\* Engine.integration: the checkout record admits the directory as it is,
\* and the ref is where the record says.
Admitted ==
    /\ checkout.work = None \/ checkout.retry
    /\ tree = IF checkout.retry THEN checkout.observed ELSE checkout.accepted
    /\ ref = checkout.accepted

\* The guards of ClaimWork on work w of a goal that is running.
ClaimableOutOfOrder(w) ==
    /\ ~Blocked(w) /\ Idle
    /\ checkout.work = None \/ (checkout.retry /\ checkout.work = w)

Claimable(w) ==
    /\ DepsDone(w) /\ ~Blocked(w)
    /\ checkout.work = None \/ (checkout.retry /\ checkout.work = w)
    /\ Idle

\* The directory still holds the tree and identity of a's request.
Verified(a) == tree = a

\* Store.Preflight.
Ready(a) ==
    LET w == workOf[a] IN
    /\ checkout.work = w /\ checkout.accepted = parent[a]
    /\ attempt[a] = "PROMOTING" /\ work[w] = "VERIFYING"
    /\ goal = "RUNNING" /\ lease[a] = "ACTIVE" /\ ~Blocked(w)

\* transitionPromotionLifecycle can end attempt a this way.
CanEnd(a, attemptTarget, workTarget) ==
    /\ Owner(a)
    /\ CanMove(AttemptTransitions, attempt[a], attemptTarget)
    /\ CanMove(WorkTransitions, work[workOf[a]], workTarget)

\* The goal waits, if it may.
WaitingToVerify == IF goal = "RUNNING" THEN "VERIFYING" ELSE goal
Waiting == IF goal = "RUNNING" THEN "WAITING" ELSE goal

Goto(label) == pc' = label /\ UNCHANGED <<cur, via>>

\* Where the engine continues when its current work or recovery is over.
FinishFatal ==
    /\ pc' = IF via = "startup" THEN "down" ELSE "loop"
    /\ cur' = None
    /\ via' = IF via = "startup" THEN via ELSE "execute"

Finish ==
    /\ pc' = IF via = "startup" THEN "idle" ELSE "loop"
    /\ cur' = None
    /\ via' = "execute"

-----------------------------------------------------------------------------
(* The serial loop of the engine: Run, RunGoal, executeWork up to Promote. *)

\* The ticker or a resume enqueues a goal that is running.
Wake ==
    /\ pc = "idle" /\ goal = "RUNNING"
    /\ Goto("queued")
    /\ UNCHANGED <<store, files>>

\* Every run first recovers the pending promotion, whatever the goal's state.
RunGoalUnrecovered == pc = "queued" /\ Goto("loop") /\ UNCHANGED <<store, files>>

RunGoal ==
    /\ pc = "queued"
    /\ IF AnyPending
       THEN /\ pc' = "verify" /\ via' = "recover"
            /\ cur' \in {a \in Attempts : Pending(a)}
       ELSE Goto("loop")
    /\ UNCHANGED <<store, files>>

\* The goal was paused or cancelled.
LeaveLoop ==
    /\ pc = "loop" /\ goal # "RUNNING"
    /\ Goto("idle")
    /\ UNCHANGED <<store, files>>

\* RefreshReadyWork, then NextReadyWork finds none.
NothingReady ==
    /\ pc = "loop" /\ goal = "RUNNING"
    /\ \A w \in Works : ~IsNextReady(w, Refreshed)
    /\ work' = Refreshed
    /\ Goto("idle")
    /\ UNCHANGED <<goal, ownership, journal, gating, checkout, files>>

\* RefreshReadyWork, NextReadyWork, integration, ClaimWork.
Claim(w, a) ==
    /\ pc = "loop" /\ goal = "RUNNING"
    /\ IsNextReady(w, Refreshed) /\ IsNextAttempt(a)
    /\ Admitted /\ Claimable(w)
    /\ work' = [Refreshed EXCEPT ![w] = "CLAIMED"]
    /\ attempt' = [attempt EXCEPT ![a] = "CREATED"]
    /\ lease' = [lease EXCEPT ![a] = "ACTIVE"]
    /\ workOf' = [workOf EXCEPT ![a] = w]
    /\ parent' = [parent EXCEPT ![a] = checkout.accepted]
    /\ checkout' = [checkout EXCEPT !.work = w, !.retry = FALSE]
    /\ pc' = "agent" /\ cur' = a /\ via' = "execute"
    /\ UNCHANGED <<goal, journal, gating, files>>

\* The next work cannot be admitted or claimed: stopInvariant.
Halt(w) ==
    /\ pc = "loop" /\ goal = "RUNNING"
    /\ IsNextReady(w, Refreshed)
    /\ ~(Admitted /\ Claimable(w))
    /\ work' = Refreshed
    /\ halted' = TRUE
    /\ goal' = "WAITING"
    /\ Goto("idle")
    /\ UNCHANGED <<ownership, journal, gates, filed, checkout, files>>

\* The agent leaves its changes in the current directory.
AgentWrites ==
    /\ pc = "agent" /\ attempt[cur] = "CREATED"
    /\ tree \notin {cur, Foreign}
    /\ tree' = cur
    /\ UNCHANGED <<store, ref, marker, engine>>

\* The patch is captured, replayed, validated and reviewed.
Validate ==
    /\ pc = "agent" /\ attempt[cur] = "CREATED" /\ tree = cur
    /\ lease[cur] = "ACTIVE" /\ work[workOf[cur]] = "CLAIMED"
    /\ attempt' = [attempt EXCEPT ![cur] = "VALIDATING"]
    /\ work' = [work EXCEPT ![workOf[cur]] = "VERIFYING"]
    /\ UNCHANGED <<goal, lease, workOf, parent, journal, gating, checkout,
                   files, engine>>

\* The lease-fenced last step before the promotion protocol.
Submit ==
    /\ pc = "agent" /\ attempt[cur] = "VALIDATING" /\ lease[cur] = "ACTIVE"
    /\ attempt' = [attempt EXCEPT ![cur] = "PROMOTING"]
    /\ Goto("verify")
    /\ UNCHANGED <<goal, work, lease, workOf, parent, journal, gating,
                   checkout, files>>

\* The agent, a validator, the patch or a fenced update fails, or the
\* context of the run is cancelled.
AgentFails ==
    /\ pc = "agent"
    /\ Goto("fail")
    /\ UNCHANGED <<store, files>>

-----------------------------------------------------------------------------
(* Manager.Promote for attempt cur, one step per external or durable effect. *)

\* The directory must hold the candidate before anything is journalled.
VerifyFirst ==
    /\ pc = "verify"
    /\ Goto(IF Verified(cur) THEN "effect" ELSE "error")
    /\ UNCHANGED <<store, files>>

\* Ensure, first transaction: the effect, once per key.
EnsureEffect ==
    /\ pc = "effect"
    /\ effect' = [effect EXCEPT ![cur] = IF @ = "NONE" THEN "REQUESTED" ELSE @]
    /\ Goto("request")
    /\ UNCHANGED <<goal, work, ownership, promo, gating, checkout, files>>

\* Ensure, second transaction: the promotion row, once per id.  An existing
\* marker then skips the making of the commit.
EnsurePromotion ==
    /\ pc = "request"
    /\ promo' = [promo EXCEPT ![cur] = IF @ = "NONE" THEN "REQUESTED" ELSE @]
    /\ Goto(IF promo[cur] = "FAILED" THEN "error"
            ELSE IF cur \in marker THEN "commit" ELSE "preflight")
    /\ UNCHANGED <<goal, work, ownership, effect, gating, checkout, files>>

\* Preflight, before the commit is made and again before the swap.
Preflight ==
    /\ pc \in {"preflight", "preflight2"}
    /\ Goto(IF ~Ready(cur) THEN "failing"
            ELSE IF pc = "preflight" THEN "mark" ELSE "verify2")
    /\ UNCHANGED <<store, files>>

\* verifyCandidate, CreateCommit, writeMarker.
WriteMarker ==
    /\ pc = "mark"
    /\ IF Verified(cur)
       THEN marker' = marker \cup {cur} /\ Goto("commit")
       ELSE UNCHANGED marker /\ Goto("failing")
    /\ UNCHANGED <<store, ref, tree>>

\* RecordCommit, a no-op when the journal is already there.  Then the ref
\* decides whether the swap is still to be made.
RecordCommit ==
    /\ pc = "commit"
    /\ IF promo[cur] = "REQUESTED"
       THEN /\ promo' = [promo EXCEPT ![cur] = "COMMIT_CREATED"]
            /\ effect' = [effect EXCEPT ![cur] = "EXECUTING"]
       ELSE UNCHANGED journal
    /\ Goto(IF ref = parent[cur] THEN "preflight2"
            ELSE IF ref = cur THEN "updated" ELSE "error")
    /\ UNCHANGED <<goal, work, ownership, gating, checkout, files>>

\* The candidate is read once more before the swap.
VerifySecond ==
    /\ pc = "verify2"
    /\ Goto(IF Verified(cur) THEN "cas" ELSE "failing")
    /\ UNCHANGED <<store, files>>

\* UpdateRefCAS: an error is no proof that nothing was swapped.
UpdateRefGivesUp ==
    /\ pc = "cas"
    /\ ref' = IF ref = parent[cur] THEN cur ELSE ref
    /\ Goto("updated") \/ Goto("failing")
    /\ UNCHANGED <<store, marker, tree>>

\* UpdateRefCAS: the swap may fail, or succeed and its read-back still fail.
UpdateRef ==
    /\ pc = "cas"
    /\ \/ ref = parent[cur] /\ ref' = cur /\ Goto("updated")
       \/ ref' \in (IF ref = parent[cur] THEN {ref, cur} ELSE {ref}) /\ Goto("error")
    /\ UNCHANGED <<store, marker, tree>>

\* RecordRefUpdate.
RecordRefUpdate ==
    /\ pc = "updated"
    /\ IF promo[cur] = "COMMIT_CREATED"
       THEN /\ promo' = [promo EXCEPT ![cur] = "REF_UPDATED"]
            /\ effect' = [effect EXCEPT ![cur] = "OBSERVING"]
       ELSE UNCHANGED journal
    /\ Goto("observe")
    /\ UNCHANGED <<goal, work, ownership, gating, checkout, files>>

\* Manager.observe reads the ref and the directory back.
ReadBackFails ==
    /\ pc = "observe"
    /\ Goto(IF ref = cur /\ Verified(cur) THEN "adopt" ELSE "failing")
    /\ UNCHANGED <<store, files>>

ReadBack ==
    /\ pc = "observe"
    /\ Goto(IF ref = cur /\ Verified(cur) THEN "adopt" ELSE "error")
    /\ UNCHANGED <<store, files>>

\* The checkout record once a's candidate is accepted.
AcceptingStale(a) == [checkout EXCEPT !.work = None, !.retry = FALSE]
Accepting(a) ==
    [work |-> None, accepted |-> a, observed |-> a, retry |-> FALSE]

\* Store.Observe: one transaction accepts the candidate, ends attempt, work,
\* lease and effect, and resolves an open recovery gate.
CanAdopt(a) ==
    /\ promo[a] = "REF_UPDATED"
    /\ checkout.work = workOf[a] /\ checkout.accepted = parent[a]
    /\ CanEnd(a, "SUCCEEDED", "COMPLETED")

Adopt ==
    /\ pc = "adopt"
    /\ IF CanAdopt(cur)
       THEN /\ promo' = [promo EXCEPT ![cur] = "OBSERVED"]
            /\ effect' = [effect EXCEPT ![cur] = "SUCCEEDED"]
            /\ checkout' = Accepting(cur)
            /\ attempt' = [attempt EXCEPT ![cur] = "SUCCEEDED"]
            /\ work' = [work EXCEPT ![workOf[cur]] = "COMPLETED"]
            /\ lease' = [lease EXCEPT ![cur] = "RELEASED"]
            /\ gates' = gates \ {<<cur, "recovery">>}
            /\ Goto("refresh")
       ELSE /\ UNCHANGED <<work, attempt, lease, journal, gates, checkout>>
            /\ Goto("error")
    /\ UNCHANGED <<goal, workOf, parent, filed, halted, files>>

\* RefreshReadyWork after the promotion fails when the goal is not running:
\* the run ends, and a recovery at startup ends the daemon.
RefreshAfter ==
    /\ pc = "refresh"
    /\ IF goal = "RUNNING"
       THEN work' = Refreshed /\ Finish
       ELSE /\ UNCHANGED work
            /\ pc' = IF via = "startup" THEN "down" ELSE "idle"
            /\ cur' = None /\ UNCHANGED via
    /\ UNCHANGED <<goal, ownership, journal, gating, checkout, files>>

-----------------------------------------------------------------------------
(* The error paths. *)

\* Store.Fail, all or nothing: it needs the attempt to own its work.
FailPromotion ==
    /\ pc = "failing"
    /\ IF Pending(cur) /\ CanEnd(cur, "FAILED", "RECONCILING")
       THEN /\ promo' = [promo EXCEPT ![cur] = "FAILED"]
            /\ effect' = [effect EXCEPT ![cur] = "FAILED"]
            /\ attempt' = [attempt EXCEPT ![cur] = "FAILED"]
            /\ work' = [work EXCEPT ![workOf[cur]] = "RECONCILING"]
            /\ lease' = [lease EXCEPT ![cur] = "RELEASED"]
       ELSE UNCHANGED <<work, attempt, lease, journal>>
    /\ Goto("error")
    /\ UNCHANGED <<goal, workOf, parent, gating, checkout, files>>

\* A run tells a pending promotion from a failed one by the journal, a
\* recovery by the states of the work and of the attempt.
Classify ==
    /\ pc = "error"
    /\ Goto(IF via = "execute"
            THEN IF Pending(cur) THEN "gate" ELSE "fail"
            ELSE IF work[workOf[cur]] = "RECONCILING" /\ attempt[cur] = "FAILED"
                 THEN "hold" ELSE "gate")
    /\ UNCHANGED <<store, files>>

\* openPromotionRecoveryGate, first transaction.
OpenRecoveryGate ==
    /\ pc = "gate"
    /\ gates' = gates \cup {<<cur, "recovery">>}
    /\ Goto("wait")
    /\ UNCHANGED <<goal, work, ownership, journal, filed, halted, checkout,
                   files>>

\* openPromotionRecoveryGate, second transaction.
WaitForRecovery ==
    /\ pc = "wait"
    /\ goal' = Waiting
    /\ Finish
    /\ UNCHANGED <<work, ownership, journal, gating, checkout, files>>

\* ReleaseLease, and ResolveExpiredLease where the release is too late.
SurrenderedInTime(l) == IF l = "ELAPSED" THEN l ELSE "RELEASED"
Surrendered(l)       == IF l = "ELAPSED" THEN "EXPIRED" ELSE "RELEASED"

\* failAttempt up to the end of the lease; rows that cannot move stay.
FailAttempt ==
    /\ pc = "fail"
    /\ attempt' = [attempt EXCEPT ![cur] =
                      IF Terminal(cur) THEN @
                      ELSE IF lease[cur] = "ELAPSED" THEN "INTERRUPTED"
                      ELSE "FAILED"]
    /\ work' = [work EXCEPT ![workOf[cur]] =
                   IF CanMove(WorkTransitions, @, "RECONCILING")
                   THEN "RECONCILING" ELSE @]
    /\ lease' = [lease EXCEPT ![cur] =
                    IF Owner(cur) THEN Surrendered(@) ELSE @]
    /\ IF work[workOf[cur]] = "CANCELLED" THEN Finish
       ELSE Goto(IF attempt[cur] = "PROMOTING" \/ promo[cur] = "FAILED"
                 THEN "hold" ELSE "park")
    /\ UNCHANGED <<goal, workOf, parent, journal, gating, checkout, files>>

\* observeFailureScene records a stopped scene it can attribute to the work;
\* only then may the work be retried on its files.
SafeScene(w) == checkout.work = w /\ tree # Foreign /\ via = "execute"

Observed(safe) ==
    IF safe THEN [checkout EXCEPT !.observed = tree, !.retry = FALSE]
            ELSE checkout

\* recordAndWait ends in openFailureGate: the work and the goal wait.
Park(safe) ==
    /\ pc \in {"park", "hold"}
    /\ safe => SafeScene(workOf[cur])
    /\ checkout' = Observed(safe)
    /\ IF goal = "CANCELLED"
       THEN UNCHANGED <<goal, work, gates>>
       ELSE /\ gates' = gates \cup {<<cur, IF safe THEN "retry" ELSE "held">>}
            /\ work' = [work EXCEPT ![workOf[cur]] =
                           IF CanMove(WorkTransitions, @, "WAITING")
                           THEN "WAITING" ELSE @]
            /\ goal' = Waiting
    /\ Finish
    /\ UNCHANGED <<ownership, journal, filed, halted, files>>

\* recordAndWait with an authorized automatic retry of an agent's failure.
AutomaticRetry ==
    /\ pc = "park" /\ SafeScene(workOf[cur])
    /\ goal = "RUNNING" /\ work[workOf[cur]] = "RECONCILING"
    /\ Idle /\ ~halted /\ gates = {}
    /\ work' = [work EXCEPT ![workOf[cur]] = "READY"]
    /\ checkout' = [Observed(TRUE) EXCEPT !.retry = TRUE]
    /\ Finish
    /\ UNCHANGED <<goal, ownership, journal, gating, files>>

\* The context of the run ends: a heartbeat was refused, the goal or the work
\* was cancelled, the daemon is stopping.  The next call returns its error; a
\* recovery then gives up, a run turns to the error path.
Interrupt ==
    /\ \/ /\ via = "execute" /\ pc \in PromoteSteps \cup {"failing"}
          /\ Goto("error")
       \/ /\ via = "recover" /\ goal # "RUNNING"
          /\ pc \in PromoteSteps \cup ErrorSteps \cup {"refresh"}
          /\ pc' = "idle" /\ cur' = None /\ via' = "execute"
    /\ UNCHANGED <<store, files>>

-----------------------------------------------------------------------------
(* The control API: any time the daemon serves, between any two steps. *)

Pause ==
    /\ Serving /\ goal = "RUNNING"
    /\ goal' = "WAITING"
    /\ UNCHANGED <<work, ownership, journal, gating, checkout, files, engine>>

\* A resume looks at no gate.
Resume ==
    /\ Serving /\ goal = "WAITING"
    /\ goal' = "RUNNING"
    /\ UNCHANGED <<work, ownership, journal, gating, checkout, files, engine>>

CancelGoal ==
    /\ Serving /\ CanMove(GoalTransitions, goal, "CANCELLED")
    /\ goal' = "CANCELLED"
    /\ UNCHANGED <<work, ownership, journal, gating, checkout, files, engine>>

\* Store.CancelWork: refused while a promotion of the work is pending.
CancelWork(w) ==
    /\ Serving /\ CanMove(WorkTransitions, work[w], "CANCELLED")
    /\ \A a \in Attempts : workOf[a] = w => ~Pending(a)
    /\ LET owned == {a \in Attempts : workOf[a] = w /\ Owner(a)} IN
       /\ attempt' = [a \in Attempts |-> IF a \in owned /\ ~Terminal(a)
                                         THEN "INTERRUPTED" ELSE attempt[a]]
       /\ lease' = [a \in Attempts |-> IF a \in owned THEN "REVOKED"
                                       ELSE lease[a]]
    /\ work' = [work EXCEPT ![w] = "CANCELLED"]
    /\ goal' = IF w \in Required THEN Waiting ELSE goal
    /\ UNCHANGED <<workOf, parent, journal, gating, checkout, files, engine>>

\* An explicit retry answers the work's own retry gates and needs every other
\* required gate of the goal cleared.
RetryableAny(w) == work[w] # "CANCELLED"
Retryable(w) == work[w] = "READY" \/ CanMove(WorkTransitions, work[w], "READY")

AnsweredBy(w) == {g \in gates : workOf[g[1]] = w /\ g[2] = "retry"}

Retry(w) ==
    /\ Serving
    /\ Retryable(w) /\ goal # "CANCELLED"
    /\ checkout.work = w \/ (checkout.work = None /\ checkout.accepted = tree)
    /\ checkout.observed = tree
    /\ Idle
    /\ ~halted /\ gates = AnsweredBy(w)
    /\ gates' = {}
    /\ work' = [work EXCEPT ![w] = "READY"]
    /\ goal' = "RUNNING"
    /\ checkout' = [checkout EXCEPT !.work = w, !.retry = TRUE]
    /\ UNCHANGED <<ownership, journal, filed, halted, files, engine>>

\* The operator allows a gate; a denied gate blocks as an open one does.
AllowGate(g) ==
    /\ Serving
    /\ gates' = gates \ {g}
    /\ UNCHANGED <<goal, work, ownership, journal, filed, halted, checkout,
                   files, engine>>

AllowInvariantGate ==
    /\ Serving /\ halted
    /\ halted' = FALSE
    /\ UNCHANGED <<goal, work, ownership, journal, gates, filed, checkout,
                   files, engine>>

-----------------------------------------------------------------------------
(* The directory, the clock and the daemon process. *)

\* The operator edits the files or the Git identity, or restores a tree the
\* directory has had; any other tree is Foreign.
EditTree(t) ==
    /\ t \in {Base, Foreign} \cup {a \in Attempts : attempt[a] # "NONE"}
    /\ tree' = t
    /\ UNCHANGED <<store, ref, marker, engine>>

LeaseElapses(a) ==
    /\ lease[a] = "ACTIVE"
    /\ lease' = [lease EXCEPT ![a] = "ELAPSED"]
    /\ UNCHANGED <<goal, work, attempt, workOf, parent, journal, gating,
                   checkout, files, engine>>

Crash ==
    /\ pc # "down"
    /\ pc' = "down" /\ cur' = None /\ via' = "startup"
    /\ UNCHANGED <<store, files>>

\* The attempts whose ownership ReconcileProcessAttempts takes away: a live
\* lease, or the last one of a work left in between; never a pending promotion.
Latest(a) == \A b \in Attempts : workOf[b] = workOf[a] => b <= a

AbandonedWithPending ==
    {a \in Attempts : workOf[a] # None /\ Owner(a)}

AbandonedByWork ==
    {a \in Attempts : /\ workOf[a] # None /\ ~Pending(a) /\ Latest(a)
                      /\ work[workOf[a]] \in {"CLAIMED", "RUNNING", "RECONCILING"}}

Abandoned ==
    {a \in Attempts :
        /\ workOf[a] # None /\ ~Pending(a)
        /\ \/ Owner(a)
           \/ Latest(a) /\ work[workOf[a]] \in {"CLAIMED", "RUNNING", "RECONCILING"}}

\* A start: every worker process is confirmed stopped, the abandoned attempts
\* are interrupted in one transaction, then pending promotions are recovered
\* before the daemon listens.
Restart ==
    /\ pc = "down"
    /\ lease' = [a \in Attempts |->
           IF a \in Abandoned /\ Owner(a) THEN "REVOKED" ELSE lease[a]]
    /\ attempt' = [a \in Attempts |->
           IF a \in Abandoned /\ ~Terminal(a) THEN "INTERRUPTED" ELSE attempt[a]]
    /\ work' = [w \in Works |->
           IF (\E a \in Abandoned : workOf[a] = w)
              /\ CanMove(WorkTransitions, work[w], "RECONCILING")
           THEN "RECONCILING" ELSE work[w]]
    /\ goal' = IF Abandoned # {} THEN Waiting ELSE goal
    /\ LET new == IF goal = "CANCELLED" THEN {} ELSE Abandoned \ filed IN
       /\ gates' = gates \cup (new \X {"retry"})
       /\ filed' = filed \cup new
    /\ IF AnyPending
       THEN /\ pc' = "verify" /\ via' = "startup"
            /\ cur' \in {a \in Attempts : Pending(a)}
       ELSE pc' = "idle" /\ via' = "execute" /\ UNCHANGED cur
    /\ UNCHANGED <<workOf, parent, journal, halted, checkout, files>>

-----------------------------------------------------------------------------
Promote ==
    \/ VerifyFirst \/ EnsureEffect \/ EnsurePromotion
    \/ Preflight \/ WriteMarker \/ RecordCommit \/ VerifySecond
    \/ UpdateRef \/ RecordRefUpdate \/ ReadBack \/ Adopt \/ RefreshAfter

HandleError ==
    \/ FailPromotion \/ Classify \/ OpenRecoveryGate \/ WaitForRecovery
    \/ FailAttempt \/ AutomaticRetry
    \/ \E safe \in BOOLEAN : Park(safe)

RunLoop ==
    \/ Wake \/ RunGoal \/ LeaveLoop \/ NothingReady
    \/ \E w \in Works : Halt(w) \/ \E a \in Attempts : Claim(w, a)
    \/ AgentWrites \/ Validate \/ Submit

Engine == RunLoop \/ Promote \/ HandleError

Operator ==
    \/ Pause \/ Resume \/ CancelGoal \/ AllowInvariantGate
    \/ \E w \in Works : CancelWork(w) \/ Retry(w)
    \/ \E g \in gates : AllowGate(g)

Environment ==
    \/ Crash \/ Restart \/ Interrupt \/ AgentFails
    \/ \E t \in Trees : EditTree(t)
    \/ \E a \in Attempts : LeaseElapses(a)

Next == Engine \/ Operator \/ Environment

Spec == Init /\ [][Next]_vars

-----------------------------------------------------------------------------
(* What the protocol keeps true between any two steps. *)

\* The integration ref and the accepted commit of the checkout record are two
\* copies of one fact, in Git and in SQLite.  They agree whenever no promotion
\* is pending; while one is, it starts at the accepted commit and the ref is
\* at that commit or at the candidate.  Manager.Promote, Store.Observe, Fail.
RefAgrees ==
    /\ ~AnyPending => ref = checkout.accepted
    /\ \A a \in Attempts : Pending(a) =>
          parent[a] = checkout.accepted /\ ref \in {parent[a], a}

\* The accepted line loses no update: the observed candidates form one chain
\* of parents from Base to the accepted commit, with no fork.
NoLostUpdate ==
    LET observed == {a \in Attempts : promo[a] = "OBSERVED"} IN
    /\ checkout.accepted \in observed \cup {Base}
    /\ \A a \in observed : /\ parent[a] \in observed \cup {Base}
                           /\ parent[a] # checkout.accepted
                           /\ \A b \in observed \ {a} : parent[b] # parent[a]

\* Intent before effect, effect before its record: a candidate is on the ref
\* only if its marker and its commit are journalled, it is recorded as moved
\* only if it is there, and a promotion that failed never reached the ref.
WriteAhead ==
    /\ \A a \in Attempts : ref = a =>
          a \in marker /\ promo[a] \in {"COMMIT_CREATED", "REF_UPDATED", "OBSERVED"}
    /\ \A a \in Attempts : promo[a] = "REF_UPDATED" => ref = a
    /\ \A a \in Attempts : promo[a] = "FAILED" => ref # a

\* From its marker on, an undecided promotion owns all it needs to be decided:
\* the lease, the directory, a promoting attempt, a work under verification.
\* A cancellation, an expired lease or a restart takes none of them away.
MarkedKeepsOwnership ==
    \A a \in Attempts : Pending(a) /\ a \in marker =>
       /\ Owner(a) /\ attempt[a] = "PROMOTING"
       /\ work[workOf[a]] = "VERIFYING" /\ checkout.work = workOf[a]

\* An attempt runs exactly as long as its lease lives: no live lease outlasts
\* its attempt, no live attempt is left without the lease that fences it, and
\* the owner's work and the directory's record name each other.
LeaseMatchesAttempt ==
    \A a \in Attempts :
       /\ Owner(a) => /\ attempt[a] # "NONE" /\ ~Terminal(a)
                      /\ checkout.work = workOf[a]
                      /\ work[workOf[a]] \in {"CLAIMED", "VERIFYING"}
       /\ attempt[a] # "NONE" /\ ~Terminal(a) => Owner(a)

\* A work is done exactly when a candidate of it was observed, once.
CompletedOnce ==
    \A w \in Works :
       LET adopted == {a \in Attempts : workOf[a] = w /\ promo[a] = "OBSERVED"}
       IN  /\ work[w] = "COMPLETED" <=> adopted # {}
           /\ \A a, b \in adopted : a = b

\* Git and the store together keep the promise of AcceptedLine: every move of
\* the ref publishes one work whose prerequisites are all accepted, nothing is
\* published beside it before it is accepted, and a cancelled work never is.
Line == INSTANCE AcceptedLine WITH
    done    <- {w \in Works : work[w] = "COMPLETED"},
    staged  <- IF ref = checkout.accepted THEN None ELSE workOf[ref],
    dropped <- {w \in Works : work[w] = "CANCELLED"}

KeepsAcceptedLine == Line!Spec

-----------------------------------------------------------------------------
(* What the repository says of the program and the program does not do. *)

\* "Pending Promotions retain their lease for Git CAS readback"
\* (process_recovery.go:13).  A cancellation of the work between the last
\* fenced step of its attempt and Ensure breaks it: Ensure looks at no state.
PendingKeepsLease == \A a \in Attempts : Pending(a) => Owner(a)

\* A work is READY only when what it depends on is completed
\* (xgoal-technical-spec-v0.1.md:284).  An explicit retry makes any work READY.
ReadyHasDependencies == \A w \in Works : work[w] = "READY" => DepsDone(w)

-----------------------------------------------------------------------------
(* What must eventually happen. *)

\* The engine's loop never blocks for good, and an agent or a validator that
\* does not end is ended by its timeout.  A daemon that is down is started
\* again.  The operator does what the recovery gate asks for: restore the
\* recorded candidate, then resume.
RestoreCandidate(a) == Pending(a) /\ tree # a /\ EditTree(a)
ResumePending == AnyPending /\ Resume

\* What the code cannot prevent from happening again and again.  A step the
\* engine takes of its own, to the same effect, is no disturbance.
Disturbance ==
    /\ \/ Crash \/ Interrupt \/ Pause
       \/ \E t \in Trees : EditTree(t) /\ ~\E a \in Attempts : RestoreCandidate(a)
    /\ ~Engine

FairSpec ==
    /\ Spec
    /\ WF_vars(Engine) /\ WF_vars(AgentFails)
    /\ WF_vars(Restart)
    /\ WF_vars(\E a \in Attempts : RestoreCandidate(a)) /\ WF_vars(ResumePending)
    /\ <>[][~Disturbance]_vars

\* A candidate on the ref is accepted at last, through any number of crashes,
\* edits and pauses, unless the goal is cancelled meanwhile.
PublishedIsAccepted ==
    \A a \in Attempts :
       (ref = a /\ Pending(a)) ~> (promo[a] = "OBSERVED" \/ goal = "CANCELLED")

\* No attempt holds the directory for ever: it ends, or its promotion is
\* journalled and is decided by a recovery.
OwnershipEnds == \A a \in Attempts : Owner(a) ~> (~Owner(a) \/ Pending(a))

\* A daemon that is down serves again: no state of a promotion, and no gate,
\* makes every start fail.
ServesAgain == (pc = "down") ~> Serving
=============================================================================
