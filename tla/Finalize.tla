----------------------------- MODULE Finalize -----------------------------
(***************************************************************************)
(* The end of a goal: its required work reviewed and accepted, the human   *)
(* acceptance gate, final validation, the transaction that completes the   *)
(* goal, and the publication of the final report, which is two files       *)
(* renamed into place after that transaction.                              *)
(*                                                                         *)
(* The goal can be finalized by the engine (orchestrator/finalize.go) and, *)
(* at the same time, by an operator (goal.finalize).  Its report can be    *)
(* published by whoever completed it, by the recovery of a start, and by   *)
(* the reader of goal.report.  A candidate tree is named by its attempt.   *)
(***************************************************************************)
EXTENDS Lifecycle, Naturals

CONSTANTS Attempts,       \* attempts, and the trees they produce
          GateIds,        \* a set 1..n: how many gates the goal may open
          HumanRequired,  \* a criterion of the contract needs a human
          MaxCrashes,     \* bound on crashes
          None

ASSUME FinalizeAssumption ==
    /\ HumanRequired \in BOOLEAN /\ MaxCrashes \in Nat
    /\ GateIds \subseteq Nat /\ None \notin Attempts

VARIABLES
    goal,      \* state of the goal
    work,      \* the required works of the active plan: "open", "held" (an
               \* attempt of one owns the checkout record) or "done"
    tree,      \* accepted tree of the checkout, where the ref also is
    tried,     \* attempts that have run
    findings,  \* trees with an OPEN blocker or high finding
    gates,     \* gate -> [reason, state]; LAPSED and STALE: OPEN or
               \* APPROVED with expires_at passed
    sealed,    \* trees with a current evidence set of the final phase
    pc,        \* actor -> its next step
    fresh,     \* maker -> the goal's version is the one it read
    prep,      \* maker -> the tree its report is about
    report,    \* the final_reports row: [state, by, tree]
    temps,     \* maker -> kinds of file it has prepared
    finals,    \* kinds of file published for the row
    crashes

vars == <<goal, work, tree, tried, findings, gates, sealed, pc, fresh, prep,
          report, temps, finals, crashes>>
content == <<work, tree, tried, findings>>
files == <<prep, report, temps, finals>>

Kinds  == {"json", "md"}
Makers == {"engine", "operator"}
Actors == Makers \cup {"startup", "reader"}
GateStates == {"none", "OPEN", "LAPSED", "APPROVED", "STALE", "DENIED"}

Init ==
    /\ goal = "RUNNING" /\ work = "open" /\ tree = None
    /\ tried = {} /\ findings = {} /\ sealed = {}
    /\ gates = [g \in GateIds |-> [reason |-> "none", state |-> "none"]]
    /\ pc = [a \in Actors |-> "idle"]
    /\ fresh = [m \in Makers |-> FALSE]
    /\ prep = [m \in Makers |-> None]
    /\ report = [state |-> "none", by |-> None, tree |-> None]
    /\ temps = [m \in Makers |-> {}] /\ finals = {}
    /\ crashes = 0

Up == pc["engine"] # "down" /\ pc["startup"] = "idle"

----------------------------------------------------------------------------
\* Goal and gates.

\* Every change of the goal's state raises its version, so a maker's copy of
\* the version is stale from then on.
SetGoal(s) ==
    /\ CanMove(GoalTransitions, goal, s)
    /\ goal' = s /\ fresh' = [m \in Makers |-> FALSE]

Opened(g) == gates[g].state # "none"
IsHuman(g) == gates[g].reason = "human_acceptance"

\* Mutant: an approval blocks nothing, however old it is.
BlockingUnlessDecided ==
    \E g \in GateIds : Opened(g) /\ gates[g].state \notin {"APPROVED", "STALE"}

\* A required gate lets the goal go on only while it is approved and unexpired
\* (gates of these two reasons are never consumed).
Blocking == \E g \in GateIds : Opened(g) /\ gates[g].state # "APPROVED"

\* acceptedHumanGate looks at state and decision, not at the expiry.
HumanSatisfied ==
    \E g \in GateIds : IsHuman(g) /\ gates[g].state \in {"APPROVED", "STALE"}

\* Bound: the goal opens no more gates than the instance has.
Room == \E g \in GateIds : ~Opened(g)

\* Bound: what happens to the gates of an ended goal is read by no step.
Alive == goal \notin {"COMPLETED", "CANCELLED"}

HasOpenHumanGate ==
    \E g \in GateIds : IsHuman(g) /\ gates[g].state \in {"OPEN", "LAPSED"}

CreateGate(reason) ==
    \E g \in GateIds :
        /\ ~Opened(g)
        /\ \A h \in GateIds : h < g => Opened(h)
        /\ gates' = [gates EXCEPT ![g] = [reason |-> reason, state |-> "OPEN"]]

DecideGate(g) ==
    /\ Up /\ Alive /\ gates[g].state = "OPEN"
    /\ \E s \in {"APPROVED", "DENIED"} : gates' = [gates EXCEPT ![g].state = s]
    /\ UNCHANGED <<goal, content, sealed, pc, fresh, files, crashes>>

\* Time passes the gate's expires_at.
GateExpires(g) ==
    /\ Alive /\ gates[g].state \in {"OPEN", "APPROVED"}
    /\ gates' = [gates EXCEPT ![g].state =
                    IF @ = "OPEN" THEN "LAPSED" ELSE "STALE"]
    /\ UNCHANGED <<goal, content, sealed, pc, fresh, files, crashes>>

\* goal.pause, goal.resume and goal.cancel; a resume looks at no gate.
SteerGoal ==
    /\ Up /\ \E s \in {"WAITING", "RUNNING", "CANCELLED"} : SetGoal(s)
    /\ UNCHANGED <<content, gates, sealed, pc, files, crashes>>

\* goal.replan: a new plan with work to do replaces the active one.
Replan ==
    /\ Up /\ goal \in {"RUNNING", "WAITING"} /\ work # "held"
    /\ goal' = "RUNNING" /\ fresh' = [m \in Makers |-> FALSE]
    /\ work' = "open"
    /\ UNCHANGED <<tree, tried, findings, gates, sealed, pc, files, crashes>>

----------------------------------------------------------------------------
\* The work of the goal (module Promotion models it in detail).

StartAttempt(a) ==
    /\ Up /\ pc["engine"] = "idle" /\ goal = "RUNNING" /\ work # "done"
    /\ \A b \in Attempts : b \in tried <=> b < a
    /\ tried' = tried \cup {a} /\ work' = "held"
    /\ pc' = [pc EXCEPT !["engine"] = "attempt"]
    /\ UNCHANGED <<goal, tree, findings, gates, sealed, fresh, files, crashes>>

\* Mutant: a result is recorded whoever is running.
AnyAttempt(a) == a \in Attempts

Running(a) == a \in tried /\ \A b \in tried : b <= a

\* RecordReview stores every finding of the result as OPEN, whatever its
\* status; only the status decides whether the candidate goes on.
RecordReview(a, approved, blocking) ==
    /\ Up /\ pc["engine"] = "attempt" /\ Running(a)
    /\ findings' = IF blocking THEN findings \cup {a} ELSE findings
    /\ IF approved /\ goal = "RUNNING"
         THEN tree' = a /\ work' = "done"
         ELSE UNCHANGED <<tree, work>>
    /\ pc' = [pc EXCEPT !["engine"] = "idle"]
    /\ UNCHANGED <<goal, tried, gates, sealed, fresh, files, crashes>>

----------------------------------------------------------------------------
\* orchestrator/finalize.go.

\* finalizeGoal with a human criterion nobody has accepted yet.
AskHuman ==
    /\ Up /\ pc["engine"] = "idle" /\ work = "done"
    /\ goal \in {"RUNNING", "VERIFYING"}
    /\ HumanRequired /\ ~HumanSatisfied
    /\ IF HasOpenHumanGate THEN UNCHANGED gates
                           ELSE CreateGate("human_acceptance")
    /\ IF goal = "RUNNING"
         THEN pc' = [pc EXCEPT !["engine"] = "ask"]
         ELSE UNCHANGED pc
    /\ fresh' = [fresh EXCEPT !["engine"] = TRUE]
    /\ UNCHANGED <<goal, content, sealed, files, crashes>>

\* The second transaction: the goal waits for the human, unless it changed.
WaitForHuman ==
    /\ pc["engine"] = "ask"
    /\ IF fresh["engine"]
         THEN SetGoal("WAITING") /\ pc' = [pc EXCEPT !["engine"] = "idle"]
         ELSE pc' = [pc EXCEPT !["engine"] = "halt"] /\ UNCHANGED <<goal, fresh>>
    /\ UNCHANGED <<content, gates, sealed, files, crashes>>

\* The goal is VERIFYING when final validation begins; its version is kept.
BeginVerifying ==
    /\ Up /\ pc["engine"] = "idle" /\ work = "done"
    /\ goal \in {"RUNNING", "VERIFYING"}
    /\ Room /\ (HumanRequired => HumanSatisfied)
    /\ goal' = "VERIFYING"
    /\ fresh' = [m \in Makers |->
                    IF m = "engine" THEN TRUE
                    ELSE fresh[m] /\ goal = "VERIFYING"]
    /\ prep' = [prep EXCEPT !["engine"] = tree]
    /\ pc' = [pc EXCEPT !["engine"] = "validate"]
    /\ UNCHANGED <<content, gates, sealed, report, temps, finals, crashes>>

\* Workspace, environment, acceptance, validators and evidence of the final
\* phase, for the tree read at the beginning; any of them may fail.
SealEvidence ==
    /\ pc["engine"] = "validate"
    /\ \/ /\ sealed' = sealed \cup {prep["engine"]}
          /\ pc' = [pc EXCEPT !["engine"] = "prepare"]
       \/ /\ UNCHANGED sealed
          /\ pc' = [pc EXCEPT !["engine"] = "halt"]
    /\ UNCHANGED <<goal, content, gates, fresh, files, crashes>>

\* stopInvariant: a gate, then the goal waits, in two transactions.
OpenInvariantGate ==
    /\ pc["engine"] = "halt"
    /\ IF goal \in {"RUNNING", "VERIFYING"}
         THEN /\ CreateGate("internal_invariant_violation")
              /\ fresh' = [fresh EXCEPT !["engine"] = TRUE]
              /\ pc' = [pc EXCEPT !["engine"] = "hold"]
         ELSE /\ pc' = [pc EXCEPT !["engine"] = "idle"]
              /\ UNCHANGED <<gates, fresh>>
    /\ UNCHANGED <<goal, content, sealed, files, crashes>>

HoldGoal ==
    /\ pc["engine"] = "hold"
    /\ IF fresh["engine"] THEN SetGoal("WAITING") ELSE UNCHANGED <<goal, fresh>>
    /\ pc' = [pc EXCEPT !["engine"] = "idle"]
    /\ UNCHANGED <<content, gates, sealed, files, crashes>>

----------------------------------------------------------------------------
\* finalize.Manager.Finalize: prepare, complete, publish, commit.

\* goal.finalize: an operator sends a report about the accepted tree.
OperatorFinalizes ==
    /\ Up /\ pc["operator"] = "idle" /\ work # "held" /\ tree # None
    /\ prep' = [prep EXCEPT !["operator"] = tree]
    /\ fresh' = [fresh EXCEPT !["operator"] = TRUE]
    /\ pc' = [pc EXCEPT !["operator"] = "prepare"]
    /\ UNCHANGED <<goal, content, gates, sealed, report, temps, finals, crashes>>

Prepare(m) ==
    /\ pc[m] = "prepare"
    /\ temps' = [temps EXCEPT ![m] = Kinds]
    /\ pc' = [pc EXCEPT ![m] = "complete"]
    /\ UNCHANGED <<goal, content, gates, sealed, fresh, prep, report, finals, crashes>>

\* Mutant: the report's evidence is not looked for.
BoundToTree(m) == fresh[m] /\ work # "held" /\ tree = prep[m]

\* The set the report names is current and its criteria cite no other evidence.
EvidenceCurrent(m) == prep[m] \in sealed

\* What makes FinalizeGoal fail: version, checkout or evidence differ.
Bound(m) ==
    /\ fresh[m]
    /\ work # "held" /\ tree = prep[m]
    /\ EvidenceCurrent(m)

\* completion.Evaluate and the leases, in the order of its reasons.
Refusal ==
    IF goal # "VERIFYING" THEN "state"
    ELSE IF work # "done" THEN "work"
    ELSE IF findings # {} THEN "findings"
    ELSE IF Blocking THEN "gates"
    ELSE IF pc["engine"] = "attempt" THEN "lease"
    ELSE "none"

\* Of what a report traces the properties tell apart the tree it is about.
Report(m) == [state |-> "PENDING", by |-> m, tree |-> prep[m]]

\* One transaction completes the goal and inserts the report row.
FinalizeGoal(m) ==
    /\ pc[m] = "complete" /\ Bound(m) /\ Refusal = "none"
    /\ SetGoal("COMPLETED")
    /\ report' = Report(m)
    /\ pc' = [pc EXCEPT ![m] = "json?"]
    /\ prep' = [prep EXCEPT ![m] = None]
    /\ UNCHANGED <<content, gates, sealed, temps, finals, crashes>>

\* Mutant: the engine tries the completion again instead of stopping.
DiscardAndRetry(m) ==
    /\ pc[m] = "complete" /\ (Bound(m) => Refusal # "none")
    /\ temps' = [temps EXCEPT ![m] = {}]
    /\ pc' = [pc EXCEPT ![m] = "idle"]
    /\ prep' = [prep EXCEPT ![m] = None]
    /\ fresh' = [fresh EXCEPT ![m] = FALSE]
    /\ UNCHANGED <<goal, content, gates, sealed, report, finals, crashes>>

\* An error or an unmet condition: the prepared files are discarded.
Discard(m) ==
    /\ pc[m] = "complete" /\ (Bound(m) => Refusal # "none")
    /\ temps' = [temps EXCEPT ![m] = {}]
    /\ pc' = [pc EXCEPT ![m] = IF m = "engine" THEN "halt" ELSE "idle"]
    /\ prep' = [prep EXCEPT ![m] = None]
    /\ fresh' = [fresh EXCEPT ![m] = FALSE]
    /\ UNCHANGED <<goal, content, gates, sealed, report, finals, crashes>>

----------------------------------------------------------------------------
\* report.FileManager.publish and its callers.

Kind(a) == IF pc[a] \in {"json?", "json!"} THEN "json" ELSE "md"
Following(a) == IF Kind(a) = "json" THEN "md?" ELSE "mark"
Never(a) == a \notin Actors    \* mutant: nobody makes a lost file again
Rebuilds(a) == a \in {"startup", "reader"}

\* A kind that is already in place is verified and its temporary removed.
Inspect(a) ==
    /\ pc[a] \in {"json?", "md?"}
    /\ IF Kind(a) \in finals
         THEN /\ temps' = [temps EXCEPT ![report.by] = @ \ {Kind(a)}]
              /\ pc' = [pc EXCEPT ![a] = Following(a)]
         ELSE /\ pc' = [pc EXCEPT ![a] = IF @ = "json?" THEN "json!" ELSE "md!"]
              /\ UNCHANGED temps
    /\ UNCHANGED <<goal, content, gates, sealed, fresh, prep, report, finals, crashes>>

\* Otherwise the prepared temporary is renamed, or a new one made from the
\* row's bytes; Finalize itself does not rebuild and gives up.
Rename(a) ==
    /\ pc[a] \in {"json!", "md!"}
    /\ IF Kind(a) \in temps[report.by] \/ Rebuilds(a)
         THEN /\ temps' = [temps EXCEPT ![report.by] = @ \ {Kind(a)}]
              /\ finals' = finals \cup {Kind(a)}
              /\ pc' = [pc EXCEPT ![a] = Following(a)]
         ELSE /\ pc' = [pc EXCEPT ![a] = IF a = "engine" THEN "halt" ELSE "idle"]
              /\ UNCHANGED <<temps, finals>>
    /\ UNCHANGED <<goal, content, gates, sealed, fresh, prep, report, crashes>>

MarkFinalReportCommitted(a) ==
    /\ pc[a] = "mark"
    /\ report' = [report EXCEPT !.state = "COMMITTED"]
    /\ pc' = [pc EXCEPT ![a] = "idle"]
    /\ UNCHANGED <<goal, content, gates, sealed, fresh, prep, temps, finals, crashes>>

\* goal.report recovers a report that is still pending.
PendingFinalReport == report.state = "PENDING"
ReadReport ==
    /\ Up /\ pc["reader"] = "idle" /\ PendingFinalReport
    /\ pc' = [pc EXCEPT !["reader"] = "json?"]
    /\ UNCHANGED <<goal, content, gates, sealed, fresh, files, crashes>>

----------------------------------------------------------------------------
\* The environment.

\* A prepared temporary of a pending report is removed by somebody.
LoseTemp(k) ==
    /\ PendingFinalReport /\ k \in temps[report.by]
    /\ temps' = [temps EXCEPT ![report.by] = @ \ {k}]
    /\ UNCHANGED <<goal, content, gates, sealed, pc, fresh, prep, report,
                   finals, crashes>>

\* Temporaries of a report without a row stay on disk and nobody reads them.
Crash ==
    /\ pc["engine"] # "down" /\ crashes < MaxCrashes
    /\ crashes' = crashes + 1
    /\ pc' = [a \in Actors |-> IF a = "engine" THEN "down" ELSE "idle"]
    /\ fresh' = [m \in Makers |-> FALSE]
    /\ temps' = [m \in Makers |-> IF m = report.by THEN temps[m] ELSE {}]
    /\ prep' = [m \in Makers |-> None]
    /\ UNCHANGED <<goal, content, gates, sealed, report, finals>>

\* finalize.Manager.Recover runs before the daemon listens.
Restart ==
    /\ pc["engine"] = "down"
    /\ pc' = [pc EXCEPT !["engine"] = "idle",
                        !["startup"] = IF PendingFinalReport
                                         THEN "json?" ELSE "idle"]
    /\ UNCHANGED <<goal, content, gates, sealed, fresh, files, crashes>>

Engine ==
    \/ AskHuman \/ WaitForHuman \/ BeginVerifying \/ SealEvidence
    \/ OpenInvariantGate \/ HoldGoal \/ Prepare("engine")
    \/ FinalizeGoal("engine") \/ Discard("engine")

Publishing(a) == Inspect(a) \/ Rename(a) \/ MarkFinalReportCommitted(a)

Next ==
    \/ Engine
    \/ \E a \in Attempts : StartAttempt(a)
    \/ \E a \in Attempts, ok, blocking \in BOOLEAN : RecordReview(a, ok, blocking)
    \/ OperatorFinalizes \/ Prepare("operator")
    \/ FinalizeGoal("operator") \/ Discard("operator")
    \/ \E a \in Actors : Publishing(a)
    \/ ReadReport
    \/ \E g \in GateIds : DecideGate(g) \/ GateExpires(g)
    \/ SteerGoal \/ Replan
    \/ \E k \in Kinds : LoseTemp(k)
    \/ Crash \/ Restart

Spec == Init /\ [][Next]_vars

\* The engine, the publishers and the supervisor that restarts the daemon keep
\* going; somebody asks for the report of a completed goal.
FairSpec ==
    /\ Spec /\ WF_vars(Engine) /\ WF_vars(Restart) /\ WF_vars(ReadReport)
    /\ \A a \in Actors : WF_vars(Publishing(a))

----------------------------------------------------------------------------
\* Properties.

Steps == {"idle", "attempt", "ask", "validate", "prepare", "complete", "halt",
          "hold", "json?", "json!", "md?", "md!", "mark", "down"}

\* Types of the variables.
TypeOK ==
    /\ goal \in DOMAIN GoalTransitions /\ work \in {"open", "held", "done"}
    /\ tree \in Attempts \cup {None} /\ tried \subseteq Attempts
    /\ findings \subseteq tried /\ sealed \subseteq Attempts
    /\ gates \in [GateIds -> [reason : {"none", "human_acceptance",
                                        "internal_invariant_violation"},
                              state : GateStates]]
    /\ pc \in [Actors -> Steps] /\ fresh \in [Makers -> BOOLEAN]
    /\ prep \in [Makers -> Attempts \cup {None}]
    /\ report \in [state : {"none", "PENDING", "COMMITTED"},
                   by : Makers \cup {None}, tree : Attempts \cup {None}]
    /\ temps \in [Makers -> SUBSET Kinds] /\ finals \subseteq Kinds
    /\ crashes \in Nat

\* A goal is COMPLETED exactly when its report row exists; the row is about the
\* tree that is accepted, now and for good, and a COMMITTED row has both files.
\* Nobody sees a file of a report before the transaction that completed the
\* goal, whoever prepared it and however publishers overlap.
ReportOfCompletion ==
    /\ (goal = "COMPLETED") <=> (report.state # "none")
    /\ finals # {} => goal = "COMPLETED"
    /\ goal = "COMPLETED" =>
          work = "done" /\ report.tree = tree /\ tree \in sealed
    /\ report.state = "COMMITTED" => finals = Kinds

\* A goal with a human criterion is completed, by the engine or by an operator
\* whose request claims what it likes, only under an approval of a human that
\* is still unexpired.
CompletedUnderApproval ==
    [][goal # "COMPLETED" /\ goal' = "COMPLETED" /\ HumanRequired =>
         \E g \in GateIds : IsHuman(g) /\ gates[g].state = "APPROVED"]_vars

\* A completion is refused for findings only if one was made on the very tree
\* that would be completed.
FindingsOfTree ==
    \A m \in Makers :
        pc[m] = "complete" /\ Bound(m) /\ Refusal = "findings"
            => tree \in findings

\* A report that is pending is published, whoever crashed, raced or lost a
\* temporary in between.
ReportPublished ==
    report.state = "PENDING" ~> report.state = "COMMITTED" /\ finals = Kinds

\* Verification is left for completion or for an operator's gate.
VerificationEnds ==
    goal = "VERIFYING" ~>
        goal # "VERIFYING" \/ HasOpenHumanGate \/ ~Room
=============================================================================
