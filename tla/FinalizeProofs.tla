--------------------------- MODULE FinalizeProofs ---------------------------
(***************************************************************************)
(* Proofs about Finalize, for any attempts, gates, crashes and whether or  *)
(* not a human is required: a goal is completed together with its report   *)
(* and under an unexpired approval.  The report's files are renamed by     *)
(* four actors that share nothing but the row; the invariant says what     *)
(* each of them may rely on at its next step (Published).  The approval    *)
(* rests on verification never beginning without one (Accepted).           *)
(***************************************************************************)
EXTENDS Finalize, TLAPS

\* The tree of a maker's report is one that was accepted.
Typed ==
    /\ TypeOK
    /\ work = "done" => tree \in Attempts
    /\ pc["engine"] \in {"validate", "prepare", "complete"} =>
          prep["engine"] \in Attempts

Published ==
    /\ ReportOfCompletion
    /\ \A a \in Actors :
          /\ pc[a] \in {"json?", "json!", "md?", "md!", "mark"} => goal = "COMPLETED"
          /\ pc[a] \in {"md?", "md!", "mark"} => "json" \in finals
          /\ pc[a] = "mark" => finals = Kinds

Accepted == goal = "VERIFYING" /\ HumanRequired => HumanSatisfied

IndInv == Typed /\ Published /\ Accepted
-----------------------------------------------------------------------------
USE DEF vars, content, files

\* The moves of a goal that the proofs need.
LEMMA GoalMoves ==
  /\ DOMAIN GoalTransitions = {"DRAFT", "READY", "RUNNING", "WAITING",
                               "VERIFYING", "COMPLETED", "CANCELLED"}
  /\ \A s : ~CanMove(GoalTransitions, "COMPLETED", s)
  /\ \A s \in DOMAIN GoalTransitions :
        CanMove(GoalTransitions, s, "COMPLETED") => s = "VERIFYING"
  BY DEF GoalTransitions, CanMove

\* A copy of the version is fresh or stale.
LEMMA FreshTypes ==
  /\ [m \in Makers |-> FALSE] \in [Makers -> BOOLEAN]
  /\ \A f \in [Makers -> BOOLEAN] : [f EXCEPT !["engine"] = TRUE] \in [Makers -> BOOLEAN]
  BY Zenon DEF Makers

\* The initial states satisfy the inductive invariant.
LEMMA InitInd == Init => IndInv
  <1> SUFFICES ASSUME Init PROVE IndInv
    OBVIOUS
  <1> USE FinalizeAssumption, GoalMoves DEF Init, Kinds, Makers, Actors
  <1>1. Typed
    BY DEF Typed, TypeOK, Steps, GateStates
  <1>2. Published
    BY DEF Published, ReportOfCompletion
  <1>3. Accepted
    BY DEF Accepted
  <1> QED BY <1>1, <1>2, <1>3 DEF IndInv

\* Types survive every step.
LEMMA TypedStep ==
  ASSUME Typed, Next
  PROVE  Typed'
  <1> USE FinalizeAssumption, GoalMoves
      DEF Typed, TypeOK, Steps, GateStates, Kinds, Makers, Actors
  <1>1. CASE AskHuman
    BY <1>1 DEF AskHuman, CreateGate, HasOpenHumanGate
  <1>2. CASE WaitForHuman
    <2>1. fresh' \in [Makers -> BOOLEAN]
      <3>1. fresh \in [Makers -> BOOLEAN]
        OBVIOUS
      <3>2. UNCHANGED fresh \/ fresh' = [m \in Makers |-> FALSE]
        BY <1>2 DEF WaitForHuman, SetGoal
      <3> HIDE DEF Typed, TypeOK, Makers
      <3> QED BY <3>1, <3>2, FreshTypes, Zenon
    <2>2. goal' \in DOMAIN GoalTransitions
      BY <1>2, Zenon DEF WaitForHuman, SetGoal
    <2>3. pc' \in [Actors -> Steps] /\ pc'["engine"] \in {"halt", "idle"}
      BY <1>2 DEF WaitForHuman, SetGoal
    <2>4. UNCHANGED <<content, gates, sealed, files, crashes>>
      BY <1>2 DEF WaitForHuman, SetGoal
    <2> QED BY <2>1, <2>2, <2>3, <2>4
  <1>3. CASE BeginVerifying
    BY <1>3 DEF BeginVerifying
  <1>4. CASE SealEvidence
    BY <1>4 DEF SealEvidence
  <1>5. CASE OpenInvariantGate
    <2>1. fresh' \in [Makers -> BOOLEAN]
      <3>1. fresh \in [Makers -> BOOLEAN]
        OBVIOUS
      <3>2. UNCHANGED fresh \/ fresh' = [fresh EXCEPT !["engine"] = TRUE]
        BY <1>5 DEF OpenInvariantGate
      <3> HIDE DEF Typed, TypeOK, Makers
      <3> QED BY <3>1, <3>2, FreshTypes, Zenon
    <2>2. pc' \in [Actors -> Steps] /\ pc'["engine"] \in {"hold", "idle"}
      BY <1>5 DEF OpenInvariantGate
    <2>3. gates' \in [GateIds -> [reason : {"none", "human_acceptance",
                                           "internal_invariant_violation"},
                                 state : GateStates]]
      BY <1>5 DEF OpenInvariantGate, CreateGate
    <2>4. UNCHANGED <<goal, content, sealed, files, crashes>>
      BY <1>5 DEF OpenInvariantGate
    <2> QED BY <2>1, <2>2, <2>3, <2>4
  <1>6. CASE HoldGoal
    <2>1. fresh' \in [Makers -> BOOLEAN]
      <3>1. fresh \in [Makers -> BOOLEAN]
        OBVIOUS
      <3>2. UNCHANGED fresh \/ fresh' = [m \in Makers |-> FALSE]
        BY <1>6 DEF HoldGoal, SetGoal
      <3> HIDE DEF Typed, TypeOK, Makers
      <3> QED BY <3>1, <3>2, FreshTypes, Zenon
    <2>2. goal' \in DOMAIN GoalTransitions
      BY <1>6, Zenon DEF HoldGoal, SetGoal
    <2>3. pc' \in [Actors -> Steps] /\ pc'["engine"] \in {"halt", "idle"}
      BY <1>6 DEF HoldGoal, SetGoal
    <2>4. UNCHANGED <<content, gates, sealed, files, crashes>>
      BY <1>6 DEF HoldGoal, SetGoal
    <2> QED BY <2>1, <2>2, <2>3, <2>4
  <1>7. ASSUME NEW a \in Attempts, StartAttempt(a) PROVE Typed'
    BY <1>7 DEF StartAttempt
  <1>8. ASSUME NEW a \in Attempts, NEW ok \in BOOLEAN, NEW blocking \in BOOLEAN,
                 RecordReview(a, ok, blocking)
         PROVE  Typed'
    BY <1>8 DEF RecordReview, Running
  <1>9. CASE OperatorFinalizes
    BY <1>9 DEF OperatorFinalizes
  <1>10. ASSUME NEW m \in Makers, Prepare(m) PROVE Typed'
    BY <1>10 DEF Prepare
  <1>11. ASSUME NEW m \in Makers, FinalizeGoal(m) PROVE Typed'
    BY <1>11 DEF FinalizeGoal, SetGoal, Bound, EvidenceCurrent, Refusal, Report
  <1>12. ASSUME NEW m \in Makers, Discard(m) PROVE Typed'
    BY <1>12 DEF Discard
  <1>13. ASSUME NEW a \in Actors, Inspect(a) PROVE Typed'
    BY <1>13 DEF Inspect, Kind, Following
  <1>14. ASSUME NEW a \in Actors, Rename(a) PROVE Typed'
    <2>1. /\ pc' \in [Actors -> Steps] /\ temps' \in [Makers -> SUBSET Kinds]
          /\ finals' \subseteq Kinds
          /\ pc'["engine"] \in {"validate", "prepare", "complete"} =>
                pc["engine"] \in {"validate", "prepare", "complete"}
      <3>1. pc' \in [Actors -> Steps]
        BY <1>14 DEF Rename, Kind, Following
      <3>2. temps' \in [Makers -> SUBSET Kinds]
        BY <1>14 DEF Rename
      <3>3. finals' \subseteq Kinds
        BY <1>14 DEF Rename, Kind
      <3>4. pc'["engine"] \in {"validate", "prepare", "complete"} =>
               pc["engine"] \in {"validate", "prepare", "complete"}
        BY <1>14 DEF Rename, Following
      <3> QED BY <3>1, <3>2, <3>3, <3>4
    <2>2. UNCHANGED <<goal, content, gates, sealed, fresh, prep, report, crashes>>
      BY <1>14 DEF Rename
    <2> QED BY <2>1, <2>2
  <1>15. ASSUME NEW a \in Actors, MarkFinalReportCommitted(a) PROVE Typed'
    BY <1>15 DEF MarkFinalReportCommitted
  <1>16. CASE ReadReport
    BY <1>16 DEF ReadReport, PendingFinalReport
  <1>17. ASSUME NEW g \in GateIds, DecideGate(g) PROVE Typed'
    BY <1>17 DEF DecideGate, Alive
  <1>18. ASSUME NEW g \in GateIds, GateExpires(g) PROVE Typed'
    BY <1>18 DEF GateExpires, Alive
  <1>19. CASE SteerGoal
    BY <1>19 DEF SteerGoal, SetGoal
  <1>20. CASE Replan
    BY <1>20 DEF Replan
  <1>21. ASSUME NEW k \in Kinds, LoseTemp(k) PROVE Typed'
    BY <1>21 DEF LoseTemp, PendingFinalReport
  <1>22. CASE Crash
    BY <1>22 DEF Crash
  <1>23. CASE Restart
    BY <1>23 DEF Restart, PendingFinalReport
  <1> HIDE DEF Typed, TypeOK, Steps, GateStates, Kinds, Makers, Actors
  <1> QED BY <1>1, <1>2, <1>3, <1>4, <1>5, <1>6, <1>7, <1>8, <1>9, <1>10,
            <1>11, <1>12, <1>13, <1>14, <1>15, <1>16, <1>17, <1>18, <1>19,
            <1>20, <1>21, <1>22, <1>23
            DEF Next, Engine, Publishing, Makers

\* The publishers follow each other, and a completion stays what it was.
LEMMA PublishedStep ==
  ASSUME Typed, Published, Next
  PROVE  Published'
  <1> USE FinalizeAssumption, GoalMoves
      DEF Typed, TypeOK, Published, ReportOfCompletion, Kinds, Makers, Actors
  <1>1. CASE AskHuman
    BY <1>1 DEF AskHuman, CreateGate, HasOpenHumanGate
  <1>2. CASE WaitForHuman
    BY <1>2 DEF WaitForHuman, SetGoal
  <1>3. CASE BeginVerifying
    BY <1>3 DEF BeginVerifying
  <1>4. CASE SealEvidence
    BY <1>4 DEF SealEvidence
  <1>5. CASE OpenInvariantGate
    BY <1>5 DEF OpenInvariantGate, CreateGate
  <1>6. CASE HoldGoal
    BY <1>6 DEF HoldGoal, SetGoal
  <1>7. ASSUME NEW a \in Attempts, StartAttempt(a) PROVE Published'
    BY <1>7 DEF StartAttempt
  <1>8. ASSUME NEW a \in Attempts, NEW ok \in BOOLEAN, NEW blocking \in BOOLEAN,
                 RecordReview(a, ok, blocking)
         PROVE  Published'
    BY <1>8 DEF RecordReview, Running
  <1>9. CASE OperatorFinalizes
    BY <1>9 DEF OperatorFinalizes
  <1>10. ASSUME NEW m \in Makers, Prepare(m) PROVE Published'
    BY <1>10 DEF Prepare
  <1>11. ASSUME NEW m \in Makers, FinalizeGoal(m) PROVE Published'
    BY <1>11 DEF FinalizeGoal, SetGoal, Bound, EvidenceCurrent, Refusal, Report
  <1>12. ASSUME NEW m \in Makers, Discard(m) PROVE Published'
    BY <1>12 DEF Discard
  <1>13. ASSUME NEW a \in Actors, Inspect(a) PROVE Published'
    <2>1. /\ goal = "COMPLETED"
          /\ UNCHANGED <<goal, content, sealed, report, finals>>
      BY <1>13 DEF Inspect
    <2>2. ReportOfCompletion'
      BY <2>1
    <2>3. pc[a] = "md?" => "json" \in finals
      OBVIOUS
    <2>4. pc' = [pc EXCEPT ![a] = pc'[a]]
      BY <1>13 DEF Inspect
    <2>5. /\ pc'[a] \in {"md?", "md!", "mark"} => "json" \in finals
          /\ pc'[a] = "mark" => finals = Kinds
      <3>1. CASE pc[a] = "json?"
        BY <1>13, <3>1 DEF Inspect, Kind, Following
      <3>2. CASE pc[a] = "md?"
        <4>1. "json" \in finals /\ Kind(a) = "md" /\ pc \in [Actors -> Steps]
          BY <2>3, <3>2 DEF Kind
        <4>2. pc'[a] = "md!" \/ ("md" \in finals /\ pc'[a] = "mark")
          BY <1>13, <3>2, <4>1 DEF Inspect, Following
        <4>3. "md" \in finals => finals = Kinds
          <5>1. finals \subseteq Kinds
            OBVIOUS
          <5> HIDE DEF Typed, TypeOK, Published, ReportOfCompletion
          <5> QED BY <4>1, <5>1
        <4> HIDE DEF Typed, TypeOK, Published, ReportOfCompletion
        <4> QED BY <4>1, <4>2, <4>3
      <3> QED BY <1>13, <3>1, <3>2 DEF Inspect
    <2> QED BY <2>1, <2>2, <2>4, <2>5
  <1>14. ASSUME NEW a \in Actors, Rename(a) PROVE Published'
    <2>1. /\ goal = "COMPLETED"
          /\ UNCHANGED <<goal, content, sealed, report>>
          /\ finals \subseteq finals' /\ finals' \subseteq Kinds
      BY <1>14 DEF Rename, Kind
    <2>2. ReportOfCompletion'
      BY <2>1
    <2>3. pc[a] = "md!" => "json" \in finals
      OBVIOUS
    <2>4. pc' = [pc EXCEPT ![a] = pc'[a]]
      BY <1>14 DEF Rename
    <2>5. /\ pc'[a] \in {"md?", "md!", "mark"} => "json" \in finals'
          /\ pc'[a] = "mark" => finals' = Kinds
      <3>1. CASE pc[a] = "json!"
        BY <1>14, <2>1, <3>1 DEF Rename, Kind, Following
      <3>2. CASE pc[a] = "md!"
        <4>1. "json" \in finals /\ Kind(a) = "md" /\ pc \in [Actors -> Steps]
          BY <2>3, <3>2 DEF Kind
        <4>2. pc'[a] \in {"halt", "idle"} \/ finals' = finals \cup {"md"}
          BY <1>14, <4>1 DEF Rename
        <4>3. pc'[a] \in {"halt", "idle", "mark"}
          BY <1>14, <4>1 DEF Rename, Following
        <4>4. finals' = finals \cup {"md"} => finals' = Kinds
          <5> HIDE DEF Typed, TypeOK, Published, ReportOfCompletion
          <5> QED BY <2>1, <4>1
        <4> HIDE DEF Typed, TypeOK, Published, ReportOfCompletion
        <4> QED BY <2>1, <4>1, <4>2, <4>3, <4>4
      <3> QED BY <1>14, <3>1, <3>2 DEF Rename
    <2> QED BY <2>1, <2>2, <2>4, <2>5
  <1>15. ASSUME NEW a \in Actors, MarkFinalReportCommitted(a) PROVE Published'
    BY <1>15 DEF MarkFinalReportCommitted
  <1>16. CASE ReadReport
    BY <1>16 DEF ReadReport, PendingFinalReport
  <1>17. ASSUME NEW g \in GateIds, DecideGate(g) PROVE Published'
    BY <1>17 DEF DecideGate, Alive
  <1>18. ASSUME NEW g \in GateIds, GateExpires(g) PROVE Published'
    BY <1>18 DEF GateExpires, Alive
  <1>19. CASE SteerGoal
    BY <1>19 DEF SteerGoal, SetGoal
  <1>20. CASE Replan
    BY <1>20 DEF Replan
  <1>21. ASSUME NEW k \in Kinds, LoseTemp(k) PROVE Published'
    BY <1>21 DEF LoseTemp, PendingFinalReport
  <1>22. CASE Crash
    BY <1>22 DEF Crash
  <1>23. CASE Restart
    BY <1>23 DEF Restart, PendingFinalReport
  <1> HIDE DEF Typed, TypeOK, Published, ReportOfCompletion, Kinds, Makers,
      Actors
  <1> QED BY <1>1, <1>2, <1>3, <1>4, <1>5, <1>6, <1>7, <1>8, <1>9, <1>10,
            <1>11, <1>12, <1>13, <1>14, <1>15, <1>16, <1>17, <1>18, <1>19,
            <1>20, <1>21, <1>22, <1>23
            DEF Next, Engine, Publishing, Makers

\* An acceptance that began verification is not taken back.
LEMMA AcceptedStep ==
  ASSUME Typed, Accepted, Next
  PROVE  Accepted'
  <1> USE FinalizeAssumption, GoalMoves
      DEF Typed, TypeOK, Accepted, HumanSatisfied, IsHuman, GateStates, Opened, Makers
  <1>1. CASE AskHuman
    BY <1>1 DEF AskHuman, CreateGate, HasOpenHumanGate
  <1>2. CASE WaitForHuman
    BY <1>2 DEF WaitForHuman, SetGoal
  <1>3. CASE BeginVerifying
    BY <1>3 DEF BeginVerifying
  <1>4. CASE SealEvidence
    BY <1>4 DEF SealEvidence
  <1>5. CASE OpenInvariantGate
    BY <1>5 DEF OpenInvariantGate, CreateGate
  <1>6. CASE HoldGoal
    BY <1>6 DEF HoldGoal, SetGoal
  <1>7. ASSUME NEW a \in Attempts, StartAttempt(a) PROVE Accepted'
    BY <1>7 DEF StartAttempt
  <1>8. ASSUME NEW a \in Attempts, NEW ok \in BOOLEAN, NEW blocking \in BOOLEAN,
                 RecordReview(a, ok, blocking)
         PROVE  Accepted'
    BY <1>8 DEF RecordReview, Running
  <1>9. CASE OperatorFinalizes
    BY <1>9 DEF OperatorFinalizes
  <1>10. ASSUME NEW m \in Makers, Prepare(m) PROVE Accepted'
    BY <1>10 DEF Prepare
  <1>11. ASSUME NEW m \in Makers, FinalizeGoal(m) PROVE Accepted'
    BY <1>11 DEF FinalizeGoal, SetGoal, Bound, EvidenceCurrent, Refusal, Report
  <1>12. ASSUME NEW m \in Makers, Discard(m) PROVE Accepted'
    BY <1>12 DEF Discard
  <1>13. ASSUME NEW a \in Actors, Inspect(a) PROVE Accepted'
    BY <1>13 DEF Inspect, Kind, Following
  <1>14. ASSUME NEW a \in Actors, Rename(a) PROVE Accepted'
    BY <1>14 DEF Rename, Kind, Following
  <1>15. ASSUME NEW a \in Actors, MarkFinalReportCommitted(a) PROVE Accepted'
    BY <1>15 DEF MarkFinalReportCommitted
  <1>16. CASE ReadReport
    BY <1>16 DEF ReadReport, PendingFinalReport
  <1>17. ASSUME NEW g \in GateIds, DecideGate(g) PROVE Accepted'
    BY <1>17 DEF DecideGate, Alive
  <1>18. ASSUME NEW g \in GateIds, GateExpires(g) PROVE Accepted'
    BY <1>18 DEF GateExpires, Alive
  <1>19. CASE SteerGoal
    BY <1>19 DEF SteerGoal, SetGoal
  <1>20. CASE Replan
    BY <1>20 DEF Replan
  <1>21. ASSUME NEW k \in Kinds, LoseTemp(k) PROVE Accepted'
    BY <1>21 DEF LoseTemp, PendingFinalReport
  <1>22. CASE Crash
    BY <1>22 DEF Crash
  <1>23. CASE Restart
    BY <1>23 DEF Restart, PendingFinalReport
  <1> HIDE DEF Typed, TypeOK, Accepted, HumanSatisfied, IsHuman, GateStates,
      Opened, Makers
  <1> QED BY <1>1, <1>2, <1>3, <1>4, <1>5, <1>6, <1>7, <1>8, <1>9, <1>10,
            <1>11, <1>12, <1>13, <1>14, <1>15, <1>16, <1>17, <1>18, <1>19,
            <1>20, <1>21, <1>22, <1>23
            DEF Next, Engine, Publishing, Makers

\* The invariant of the end of a goal is inductive.
THEOREM Inductive == Spec => []IndInv
  <1>1. IndInv /\ [Next]_vars => IndInv'
    <2> SUFFICES ASSUME IndInv, [Next]_vars PROVE IndInv'
      OBVIOUS
    <2>1. CASE Next
      BY <2>1, TypedStep, PublishedStep, AcceptedStep, Zenon DEF IndInv
    <2>2. CASE UNCHANGED vars
      BY <2>2 DEF IndInv, Typed, TypeOK, Published, ReportOfCompletion, Accepted,
                  HumanSatisfied, IsHuman
    <2> QED BY <2>1, <2>2, Zenon
  <1> QED BY InitInd, <1>1, PTL DEF Spec

\* The types of the variables.
THEOREM TypesHold == Spec => []TypeOK
  <1>1. IndInv => TypeOK
    BY DEF IndInv, Typed
  <1> QED BY Inductive, <1>1, PTL

\* A goal is completed together with its report row, about the accepted tree and
\* its sealed evidence, and no file of a report is seen before.
THEOREM ReportOfCompletionHolds == Spec => []ReportOfCompletion
  <1>1. IndInv => ReportOfCompletion
    BY DEF IndInv, Published
  <1> QED BY Inductive, <1>1, PTL

\* No step completes a goal with a human criterion without an approval that is
\* still unexpired, whoever finalizes it.
THEOREM CompletedUnderApprovalHolds == Spec => CompletedUnderApproval
  <1> DEFINE Approved ==
        goal # "COMPLETED" /\ goal' = "COMPLETED" /\ HumanRequired =>
            \E g \in GateIds : IsHuman(g) /\ gates[g].state = "APPROVED"
  <1>1. IndInv /\ [Next]_vars => Approved
    <2> SUFFICES ASSUME IndInv, [Next]_vars, goal # "COMPLETED", goal' = "COMPLETED",
                        HumanRequired
                 PROVE  \E g \in GateIds : IsHuman(g) /\ gates[g].state = "APPROVED"
      OBVIOUS
    <2>1. \E m \in Makers : FinalizeGoal(m)
      <3> USE GoalMoves DEF IndInv, Typed, TypeOK, SetGoal
      <3>1. ~ UNCHANGED vars
        OBVIOUS
      <3>2. CASE Engine
        BY <3>2 DEF Engine, AskHuman, WaitForHuman, BeginVerifying, SealEvidence,
                    OpenInvariantGate, HoldGoal, Prepare, Discard, Makers
      <3>3. CASE \E a \in Actors : Publishing(a)
        BY <3>3 DEF Publishing, Inspect, Rename, MarkFinalReportCommitted
      <3> QED BY <3>1, <3>2, <3>3
             DEF Next, StartAttempt, RecordReview, OperatorFinalizes, Prepare,
                 Discard, ReadReport, DecideGate, GateExpires, SteerGoal, Replan,
                 LoseTemp, Crash, Restart, Makers
    <2>2. goal = "VERIFYING" /\ ~Blocking
      BY <2>1 DEF FinalizeGoal, Refusal
    <2> QED BY <2>2 DEF IndInv, Accepted, HumanSatisfied, Blocking, Opened
  <1> QED BY Inductive, <1>1, PTL DEF CompletedUnderApproval, Spec
=============================================================================
