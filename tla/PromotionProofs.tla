-------------------------- MODULE PromotionProofs --------------------------
(***************************************************************************)
(* Proofs about Promotion, for any works and dependencies, any number of   *)
(* attempts.  The safety invariants of the module are not inductive: they  *)
(* lean on where the engine is (AtStep), on there being one writer         *)
(* (OneWriter, EngineOwns) and on what a live lease guarantees (Fenced).   *)
(* IndInv adds these, and every invariant of the module follows from it.   *)
(***************************************************************************)
EXTENDS Promotion, TLAPS

\* The engine is inside a run's work or a recovery.
Busy == pc \notin {"down", "idle", "queued", "loop"}

\* Nothing is recorded for an attempt before its claim, and a claimed attempt
\* has a work and a parent.
Claimed ==
    \A a \in Attempts :
       /\ attempt[a] = "NONE" =>
             promo[a] = "NONE" /\ lease[a] = "NONE" /\ workOf[a] = None
       /\ attempt[a] # "NONE" => workOf[a] \in Works /\ parent[a] \in Commits
       /\ promo[a] = "NONE" => a \notin marker

\* At most one attempt may still change the accepted line.
OneWriter ==
    \A a, b \in Attempts :
       (Owner(a) \/ Pending(a)) /\ (Owner(b) \/ Pending(b)) => a = b

\* Inside a work or a recovery it is the engine's current attempt.
EngineOwns ==
    Busy => /\ cur \in Attempts /\ attempt[cur] # "NONE"
            /\ \A b \in Attempts : Owner(b) \/ Pending(b) => b = cur

\* What a live lease fences: the states of attempt and work move together, the
\* work's prerequisites are done, and a pending promotion's attempt promotes.
Fenced ==
    \A a \in Attempts : Owner(a) =>
       /\ \/ attempt[a] = "CREATED" /\ work[workOf[a]] = "CLAIMED"
          \/ attempt[a] \in {"VALIDATING", "PROMOTING"}
             /\ work[workOf[a]] = "VERIFYING"
       /\ checkout.work = workOf[a]
       /\ DepsDone(workOf[a])
       /\ Pending(a) => attempt[a] = "PROMOTING"

\* A live attempt has its lease.
LiveIsOwner ==
    \A a \in Attempts : attempt[a] # "NONE" /\ ~Terminal(a) => Owner(a)

\* A marked pending promotion has its lease.
MarkedIsOwner == \A a \in Attempts : Pending(a) /\ a \in marker => Owner(a)

\* What the code has established when it is about to take its next step.
AtStep ==
    /\ pc = "agent" => promo[cur] = "NONE" /\ parent[cur] = checkout.accepted
    /\ pc \in {"verify", "effect", "request"} =>
          /\ \/ promo[cur] = "NONE" /\ parent[cur] = checkout.accepted
             \/ Pending(cur)
          /\ Terminal(cur) \/ attempt[cur] = "PROMOTING"
    /\ pc = "preflight" => Pending(cur) /\ cur \notin marker
    /\ pc = "mark" => Pending(cur) /\ cur \notin marker /\ Owner(cur)
    /\ pc = "commit" => Pending(cur) /\ cur \in marker
    /\ pc \in {"preflight2", "verify2", "cas"} =>
          /\ promo[cur] = "COMMIT_CREATED" /\ cur \in marker
          /\ ref = parent[cur]
    /\ pc = "updated" => Pending(cur) /\ ref = cur
    /\ pc \in {"observe", "adopt"} => promo[cur] = "REF_UPDATED"
    /\ pc = "failing" => Pending(cur) /\ ref # cur
    /\ pc = "fail" => ~Pending(cur)

\* The inductive invariant.
IndInv ==
    /\ TypeOK
    /\ RefAgrees /\ NoLostUpdate /\ WriteAhead /\ CompletedOnce
    /\ Claimed /\ OneWriter /\ EngineOwns /\ Fenced /\ LiveIsOwner
    /\ MarkedIsOwner /\ AtStep

\* What the types alone need of EngineOwns.
CurIsAttempt == Busy => cur \in Attempts

\* Two frames: the variables of the accepted line, and the rows of works,
\* attempts, leases and promotions with the record of the directory.
KeepsLine ==
    /\ UNCHANGED <<promo, parent, ref, marker>>
    /\ checkout'.accepted = checkout.accepted

KeepsRows ==
    UNCHANGED <<work, attempt, lease, workOf, parent, promo, marker, checkout>>

-----------------------------------------------------------------------------
(* The tables and the labels as the provers need them. *)

USE DEF vars, store, files, engine, ownership, journal, gating, Goto

\* The states of the tables, the labels and the kinds of gates, spelled out.
LEMMA TypeFacts ==
    /\ DOMAIN WorkTransitions = {"PENDING", "READY", "CLAIMED", "RUNNING",
          "VERIFYING", "RECONCILING", "WAITING", "COMPLETED", "CANCELLED"}
    /\ DOMAIN LeaseTransitions = {"ACTIVE", "RELEASED", "EXPIRED", "REVOKED"}
    /\ DOMAIN EffectTransitions = {"REQUESTED", "EXECUTING", "OBSERVING",
          "RECOVERING", "SUCCEEDED", "FAILED"}
    /\ Labels = {"down", "idle", "queued", "refresh", "verify", "effect",
          "request", "preflight", "mark", "commit", "preflight2", "verify2",
          "cas", "updated", "observe", "adopt", "failing", "error", "gate",
          "wait", "hold", "loop", "agent", "fail", "park"}
    /\ Kinds = {"recovery", "retry", "held"}
  BY DEF WorkTransitions, LeaseTransitions, EffectTransitions, Labels,
         PromoteSteps, ErrorSteps, RunSteps, Kinds

\* The states of a work from which the code's targets may be reached.
LEMMA WorkMoves ==
    \A s \in DOMAIN WorkTransitions :
       /\ CanMove(WorkTransitions, s, "RECONCILING")
            <=> s \in {"CLAIMED", "RUNNING", "VERIFYING"}
       /\ CanMove(WorkTransitions, s, "READY")
            <=> s \in {"PENDING", "RECONCILING", "WAITING"}
       /\ CanMove(WorkTransitions, s, "WAITING") <=> s \in {"READY", "RECONCILING"}
       /\ CanMove(WorkTransitions, s, "COMPLETED") <=> s = "VERIFYING"
       /\ CanMove(WorkTransitions, s, "CANCELLED")
            <=> s \notin {"COMPLETED", "CANCELLED"}
  BY DEF WorkTransitions, CanMove

\* Every action keeps the types; an action of a busy engine works on an attempt.
LEMMA TypeStep ==
  TypeOK /\ CurIsAttempt /\ [Next]_vars => TypeOK' /\ CurIsAttempt'
<1> SUFFICES ASSUME TypeOK, CurIsAttempt, [Next]_vars PROVE TypeOK' /\ CurIsAttempt'
  OBVIOUS
<1> USE TypeFacts DEF TypeOK, CurIsAttempt, Busy, Trees, Commits
<1>1. CASE Wake
  BY <1>1 DEF Wake
<1>2. CASE RunGoal
  BY <1>2 DEF RunGoal, Pending
<1>3. CASE LeaveLoop
  BY <1>3 DEF LeaveLoop
<1>4. CASE NothingReady
  BY <1>4 DEF NothingReady, Refreshed
<1>5. ASSUME NEW w \in Works, Halt(w) PROVE TypeOK' /\ CurIsAttempt'
  BY <1>5 DEF Halt, Refreshed
<1>6. ASSUME NEW w \in Works, NEW a \in Attempts, Claim(w, a)
      PROVE  TypeOK' /\ CurIsAttempt'
  BY <1>6 DEF Claim, Refreshed
<1>7. CASE AgentWrites
  BY <1>7 DEF AgentWrites
<1>8. CASE Validate
  <2>1. attempt' \in [Attempts -> {"NONE", "CREATED", "VALIDATING", "PROMOTING",
                                 "SUCCEEDED", "FAILED", "INTERRUPTED"}]
    BY <1>8 DEF Validate
  <2>2. work' \in [Works -> DOMAIN WorkTransitions]
    BY <1>8 DEF Validate
  <2> QED BY <1>8, <2>1, <2>2 DEF Validate
<1>9. CASE Submit
  BY <1>9 DEF Submit
<1>10. CASE AgentFails
  BY <1>10 DEF AgentFails
<1>11. CASE VerifyFirst
  BY <1>11 DEF VerifyFirst
<1>12. CASE EnsureEffect
  BY <1>12 DEF EnsureEffect
<1>13. CASE EnsurePromotion
  BY <1>13 DEF EnsurePromotion
<1>14. CASE Preflight
  BY <1>14 DEF Preflight
<1>15. CASE WriteMarker
  BY <1>15 DEF WriteMarker
<1>16. CASE RecordCommit
  BY <1>16 DEF RecordCommit
<1>17. CASE VerifySecond
  BY <1>17 DEF VerifySecond
<1>18. CASE UpdateRef
  BY <1>18 DEF UpdateRef
<1>19. CASE RecordRefUpdate
  BY <1>19 DEF RecordRefUpdate
<1>20. CASE ReadBack
  BY <1>20 DEF ReadBack
<1>21. CASE Adopt
  <2>1. CASE CanAdopt(cur)
    <3>1. checkout' \in [work : Works \cup {None}, accepted : Commits,
                     observed : Trees, retry : BOOLEAN]
      <4>1. cur \in Attempts BY <1>21 DEF Adopt
      <4>2. checkout' = Accepting(cur) BY <1>21, <2>1 DEF Adopt
      <4> QED BY <4>1, <4>2 DEF Accepting
    <3>2. gates' \subseteq Attempts \X Kinds
      BY <1>21, <2>1 DEF Adopt
    <3> QED BY <1>21, <2>1, <3>1, <3>2 DEF Adopt
  <2>2. CASE ~CanAdopt(cur)
    BY <1>21, <2>2 DEF Adopt
  <2> QED BY <2>1, <2>2
<1>22. CASE RefreshAfter
  BY <1>22 DEF RefreshAfter, Refreshed, Finish
<1>23. CASE FailPromotion
  BY <1>23 DEF FailPromotion
<1>24. CASE Classify
  BY <1>24 DEF Classify
<1>25. CASE OpenRecoveryGate
  BY <1>25 DEF OpenRecoveryGate
<1>26. CASE WaitForRecovery
  BY <1>26 DEF WaitForRecovery, Waiting, Finish
<1>27. CASE FailAttempt
  <2>1. attempt' \in [Attempts -> {"NONE", "CREATED", "VALIDATING", "PROMOTING",
                                 "SUCCEEDED", "FAILED", "INTERRUPTED"}]
    BY <1>27 DEF FailAttempt
  <2>2. work' \in [Works -> DOMAIN WorkTransitions]
    BY <1>27 DEF FailAttempt
  <2>3. lease' \in [Attempts -> {"NONE", "ELAPSED"} \cup DOMAIN LeaseTransitions]
    BY <1>27 DEF FailAttempt, Surrendered
  <2>4. pc' \in Labels /\ via' \in {"execute", "recover", "startup"}
        /\ cur' \in Attempts \cup {None} /\ CurIsAttempt'
    BY <1>27 DEF FailAttempt, Finish
  <2> QED BY <1>27, <2>1, <2>2, <2>3, <2>4 DEF FailAttempt
<1>28. ASSUME NEW safe \in BOOLEAN, Park(safe) PROVE TypeOK' /\ CurIsAttempt'
  <2>1. checkout' \in [work : Works \cup {None}, accepted : Commits,
                     observed : Trees, retry : BOOLEAN]
    BY <1>28 DEF Park, Observed
  <2>2. gates' \subseteq Attempts \X Kinds
    BY <1>28 DEF Park
  <2>3. work' \in [Works -> DOMAIN WorkTransitions]
    BY <1>28 DEF Park
  <2>4. goal' \in {"RUNNING", "WAITING", "CANCELLED"}
    BY <1>28 DEF Park, Waiting
  <2> QED BY <1>28, <2>1, <2>2, <2>3, <2>4 DEF Park, Finish
<1>29. CASE AutomaticRetry
  BY <1>29 DEF AutomaticRetry, Observed, Finish
<1>30. CASE Interrupt
  <2>1. CASE /\ via = "execute" /\ pc \in PromoteSteps \cup {"failing"}
             /\ Goto("error")
    <3>1. Busy BY <2>1 DEF PromoteSteps
    <3> QED BY <1>30, <2>1, <3>1 DEF Interrupt
  <2>2. CASE pc' = "idle" /\ cur' = None /\ via' = "execute"
    BY <1>30, <2>2 DEF Interrupt
  <2> QED BY <1>30, <2>1, <2>2 DEF Interrupt
<1>31. CASE Pause
  BY <1>31 DEF Pause
<1>32. CASE Resume
  BY <1>32 DEF Resume
<1>33. CASE CancelGoal
  BY <1>33 DEF CancelGoal
<1>34. ASSUME NEW w \in Works, CancelWork(w) PROVE TypeOK' /\ CurIsAttempt'
  BY <1>34 DEF CancelWork, Waiting
<1>35. ASSUME NEW w \in Works, Retry(w) PROVE TypeOK' /\ CurIsAttempt'
  BY <1>35 DEF Retry
<1>36. ASSUME NEW g \in gates, AllowGate(g) PROVE TypeOK' /\ CurIsAttempt'
  BY <1>36 DEF AllowGate
<1>37. CASE AllowInvariantGate
  <2>1. halted' \in BOOLEAN
    BY <1>37, Zenon DEF AllowInvariantGate
  <2> QED BY <1>37, <2>1 DEF AllowInvariantGate
<1>38. ASSUME NEW t \in Trees, EditTree(t) PROVE TypeOK' /\ CurIsAttempt'
  BY <1>38 DEF EditTree
<1>39. ASSUME NEW a \in Attempts, LeaseElapses(a) PROVE TypeOK' /\ CurIsAttempt'
  BY <1>39 DEF LeaseElapses
<1>40. CASE Crash
  BY <1>40 DEF Crash
<1>41. CASE Restart
  BY <1>41 DEF Restart, Abandoned, Waiting
<1>42. CASE UNCHANGED vars
  BY <1>42
<1> QED
  BY <1>1, <1>2, <1>3, <1>4, <1>5, <1>6, <1>7, <1>8, <1>9, <1>10, <1>11, <1>12,
     <1>13, <1>14, <1>15, <1>16, <1>17, <1>18, <1>19, <1>20, <1>21, <1>22,
     <1>23, <1>24, <1>25, <1>26, <1>27, <1>28, <1>29, <1>30, <1>31, <1>32,
     <1>33, <1>34, <1>35, <1>36, <1>37, <1>38, <1>39, <1>40, <1>41, <1>42
  DEF Next, Engine, Operator, Environment, RunLoop, Promote, HandleError

\* The actions that touch the accepted line.
LEMMA LineFrame ==
  ASSUME IndInv, Next
  PROVE  \/ KeepsLine
         \/ \E w \in Works, a \in Attempts : Claim(w, a)
         \/ EnsurePromotion
         \/ WriteMarker
         \/ RecordCommit
         \/ UpdateRef
         \/ RecordRefUpdate
         \/ Adopt
         \/ FailPromotion
<1> USE DEF KeepsLine
<1>1. CASE Wake
  BY <1>1 DEF Wake
<1>2. CASE RunGoal
  BY <1>2 DEF RunGoal
<1>3. CASE LeaveLoop
  BY <1>3 DEF LeaveLoop
<1>4. CASE NothingReady
  BY <1>4 DEF NothingReady, Refreshed
<1>5. ASSUME NEW w \in Works, Halt(w)
      PROVE  KeepsLine
  BY <1>5 DEF Halt, Refreshed
<1>6. CASE AgentWrites
  BY <1>6 DEF AgentWrites
<1>7. CASE Validate
  BY <1>7 DEF Validate
<1>8. CASE Submit
  BY <1>8 DEF Submit
<1>9. CASE AgentFails
  BY <1>9 DEF AgentFails
<1>10. CASE VerifyFirst
  BY <1>10 DEF VerifyFirst
<1>11. CASE EnsureEffect
  BY <1>11 DEF EnsureEffect
<1>12. CASE Preflight
  BY <1>12 DEF Preflight
<1>13. CASE VerifySecond
  BY <1>13 DEF VerifySecond
<1>14. CASE ReadBack
  BY <1>14 DEF ReadBack
<1>15. CASE RefreshAfter
  BY <1>15 DEF RefreshAfter, Refreshed, Finish
<1>16. CASE Classify
  BY <1>16 DEF Classify
<1>17. CASE OpenRecoveryGate
  BY <1>17 DEF OpenRecoveryGate
<1>18. CASE WaitForRecovery
  BY <1>18 DEF WaitForRecovery, Finish
<1>19. CASE FailAttempt
  BY <1>19 DEF FailAttempt, Surrendered, Finish
<1>20. ASSUME NEW safe \in BOOLEAN, Park(safe)
      PROVE  KeepsLine
  BY <1>20 DEF Park, Observed, Finish
<1>21. CASE AutomaticRetry
  BY <1>21 DEF AutomaticRetry, Observed, Finish, Idle
<1>22. CASE Interrupt
  BY <1>22 DEF Interrupt
<1>23. CASE Pause
  BY <1>23 DEF Pause
<1>24. CASE Resume
  BY <1>24 DEF Resume
<1>25. CASE CancelGoal
  BY <1>25 DEF CancelGoal
<1>26. ASSUME NEW w \in Works, CancelWork(w)
      PROVE  KeepsLine
  BY <1>26 DEF CancelWork
<1>27. ASSUME NEW w \in Works, Retry(w)
      PROVE  KeepsLine
  BY <1>27 DEF Retry, Retryable, Idle
<1>28. ASSUME NEW g \in gates, AllowGate(g)
      PROVE  KeepsLine
  BY <1>28 DEF AllowGate
<1>29. CASE AllowInvariantGate
  BY <1>29 DEF AllowInvariantGate
<1>30. ASSUME NEW t \in Trees, EditTree(t)
      PROVE  KeepsLine
  BY <1>30 DEF EditTree
<1>31. ASSUME NEW a \in Attempts, LeaseElapses(a)
      PROVE  KeepsLine
  BY <1>31 DEF LeaseElapses
<1>32. CASE Crash
  BY <1>32 DEF Crash
<1>33. CASE Restart
  BY <1>33 DEF Restart, Abandoned
<1> QED
  BY <1>1, <1>2, <1>3, <1>4, <1>5, <1>6, <1>7, <1>8, <1>9, <1>10, <1>11, <1>12,
     <1>13, <1>14, <1>15, <1>16, <1>17, <1>18, <1>19, <1>20, <1>21, <1>22,
     <1>23, <1>24, <1>25, <1>26, <1>27, <1>28, <1>29, <1>30, <1>31, <1>32, <1>33
  DEF Next, Engine, Operator, Environment, RunLoop, Promote, HandleError

\* Git and the store keep agreeing.
LEMMA RefAgreesStep ==
  ASSUME IndInv, TypeOK', Next
  PROVE  RefAgrees'
<1> USE TypeFacts, WorkMoves, ParametersAssumption
        DEF IndInv, TypeOK, ParametersAssumption, RefAgrees, WriteAhead,
            OneWriter, EngineOwns, AtStep, Claimed, Fenced, Pending, AnyPending,
            Owner, ActiveLease, Terminal, DepsDone, Busy, Trees, Commits
<1>1. ASSUME KeepsLine
      PROVE  RefAgrees'
  BY <1>1 DEF KeepsLine
<1>2. ASSUME NEW w \in Works, NEW a \in Attempts, Claim(w, a)
      PROVE  RefAgrees'
  BY <1>2 DEF Claim, Refreshed, Claimable, Idle, IsNextReady, IsNextAttempt
<1>3. CASE EnsurePromotion
  BY <1>3 DEF EnsurePromotion
<1>4. CASE WriteMarker
  BY <1>4 DEF WriteMarker
<1>5. CASE RecordCommit
  BY <1>5 DEF RecordCommit
<1>6. CASE UpdateRef
  BY <1>6 DEF UpdateRef
<1>7. CASE RecordRefUpdate
  BY <1>7 DEF RecordRefUpdate
<1>8. CASE Adopt
  BY <1>8 DEF Adopt, Accepting, CanAdopt, CanEnd
<1>9. CASE FailPromotion
  BY <1>9 DEF FailPromotion, CanEnd
<1> HIDE DEF RefAgrees
<1> QED
  BY <1>1, <1>2, <1>3, <1>4, <1>5, <1>6, <1>7, <1>8, <1>9, LineFrame

\* Intent comes before effect, effect before record.
LEMMA WriteAheadStep ==
  ASSUME IndInv, TypeOK', Next
  PROVE  WriteAhead'
<1> USE TypeFacts, WorkMoves, ParametersAssumption
        DEF IndInv, TypeOK, ParametersAssumption, RefAgrees, WriteAhead,
            OneWriter, EngineOwns, AtStep, Claimed, Pending, AnyPending, Owner,
            ActiveLease, Terminal, DepsDone, Busy, Trees, Commits
<1>1. ASSUME KeepsLine
      PROVE  WriteAhead'
  BY <1>1 DEF KeepsLine
<1>2. ASSUME NEW w \in Works, NEW a \in Attempts, Claim(w, a)
      PROVE  WriteAhead'
  BY <1>2 DEF Claim, Refreshed, Claimable, Idle, IsNextReady, IsNextAttempt
<1>3. CASE EnsurePromotion
  BY <1>3 DEF EnsurePromotion
<1>4. CASE WriteMarker
  BY <1>4 DEF WriteMarker
<1>5. CASE RecordCommit
  BY <1>5 DEF RecordCommit
<1>6. CASE UpdateRef
  BY <1>6 DEF UpdateRef
<1>7. CASE RecordRefUpdate
  BY <1>7 DEF RecordRefUpdate
<1>8. CASE Adopt
  BY <1>8 DEF Adopt, Accepting, CanAdopt, CanEnd
<1>9. CASE FailPromotion
  BY <1>9 DEF FailPromotion, CanEnd
<1> HIDE DEF WriteAhead
<1> QED
  BY <1>1, <1>2, <1>3, <1>4, <1>5, <1>6, <1>7, <1>8, <1>9, LineFrame

\* Nothing but an adoption changes what is accepted or completed.
SameLine ==
    /\ \A w \in Works : work'[w] = "COMPLETED" <=> work[w] = "COMPLETED"
    /\ \A a \in Attempts :
          /\ promo'[a] = "OBSERVED" <=> promo[a] = "OBSERVED"
          /\ promo[a] = "OBSERVED" =>
                workOf'[a] = workOf[a] /\ parent'[a] = parent[a]
    /\ checkout'.accepted = checkout.accepted

\* Only Store.Observe extends the accepted line.
LEMMA AdoptedOrSame ==
  ASSUME IndInv, TypeOK', Next
  PROVE  (Adopt /\ CanAdopt(cur)) \/ SameLine
<1> USE TypeFacts, WorkMoves DEF IndInv, TypeOK, SameLine, AtStep, Claimed,
    EngineOwns, Pending, Terminal, Busy
<1>1. CASE Wake
  BY <1>1 DEF Wake
<1>2. CASE RunGoal
  BY <1>2 DEF RunGoal
<1>3. CASE LeaveLoop
  BY <1>3 DEF LeaveLoop
<1>4. CASE NothingReady
  BY <1>4 DEF NothingReady, Refreshed
<1>5. ASSUME NEW w \in Works, Halt(w)
      PROVE  SameLine
  BY <1>5 DEF Halt, Refreshed
<1>6. ASSUME NEW w \in Works, NEW a \in Attempts, Claim(w, a)
      PROVE  SameLine
  BY <1>6 DEF Claim, Refreshed, Claimable, Idle, IsNextReady, IsNextAttempt
<1>7. CASE AgentWrites
  BY <1>7 DEF AgentWrites
<1>8. CASE Validate
  BY <1>8 DEF Validate
<1>9. CASE Submit
  BY <1>9 DEF Submit
<1>10. CASE AgentFails
  BY <1>10 DEF AgentFails
<1>11. CASE VerifyFirst
  BY <1>11 DEF VerifyFirst
<1>12. CASE EnsureEffect
  BY <1>12 DEF EnsureEffect
<1>13. CASE EnsurePromotion
  BY <1>13 DEF EnsurePromotion
<1>14. CASE Preflight
  BY <1>14 DEF Preflight
<1>15. CASE WriteMarker
  BY <1>15 DEF WriteMarker
<1>16. CASE RecordCommit
  BY <1>16 DEF RecordCommit
<1>17. CASE VerifySecond
  BY <1>17 DEF VerifySecond
<1>18. CASE UpdateRef
  BY <1>18 DEF UpdateRef
<1>19. CASE RecordRefUpdate
  BY <1>19 DEF RecordRefUpdate
<1>20. CASE ReadBack
  BY <1>20 DEF ReadBack
<1>21. CASE RefreshAfter
  BY <1>21 DEF RefreshAfter, Refreshed, Finish
<1>22. CASE FailPromotion
  BY <1>22 DEF FailPromotion, CanEnd
<1>23. CASE Classify
  BY <1>23 DEF Classify
<1>24. CASE OpenRecoveryGate
  BY <1>24 DEF OpenRecoveryGate
<1>25. CASE WaitForRecovery
  BY <1>25 DEF WaitForRecovery, Finish
<1>26. CASE FailAttempt
  BY <1>26 DEF FailAttempt, Surrendered, Finish
<1>27. ASSUME NEW safe \in BOOLEAN, Park(safe)
      PROVE  SameLine
  BY <1>27 DEF Park, Observed, Finish
<1>28. CASE AutomaticRetry
  BY <1>28 DEF AutomaticRetry, Observed, Finish, Idle
<1>29. CASE Interrupt
  BY <1>29 DEF Interrupt
<1>30. CASE Pause
  BY <1>30 DEF Pause
<1>31. CASE Resume
  BY <1>31 DEF Resume
<1>32. CASE CancelGoal
  BY <1>32 DEF CancelGoal
<1>33. ASSUME NEW w \in Works, CancelWork(w)
      PROVE  SameLine
  BY <1>33 DEF CancelWork
<1>34. ASSUME NEW w \in Works, Retry(w)
      PROVE  SameLine
  BY <1>34 DEF Retry, Retryable, Idle
<1>35. ASSUME NEW g \in gates, AllowGate(g)
      PROVE  SameLine
  BY <1>35 DEF AllowGate
<1>36. CASE AllowInvariantGate
  BY <1>36 DEF AllowInvariantGate
<1>37. ASSUME NEW t \in Trees, EditTree(t)
      PROVE  SameLine
  BY <1>37 DEF EditTree
<1>38. ASSUME NEW a \in Attempts, LeaseElapses(a)
      PROVE  SameLine
  BY <1>38 DEF LeaseElapses
<1>39. CASE Crash
  BY <1>39 DEF Crash
<1>40. CASE Restart
  BY <1>40 DEF Restart, Abandoned
<1>41. ASSUME Adopt, ~CanAdopt(cur) PROVE SameLine
  BY <1>41 DEF Adopt
<1> HIDE DEF SameLine
<1> QED
  BY <1>1, <1>2, <1>3, <1>4, <1>5, <1>6, <1>7, <1>8, <1>9, <1>10, <1>11, <1>12,
     <1>13, <1>14, <1>15, <1>16, <1>17, <1>18, <1>19, <1>20, <1>21, <1>22,
     <1>23, <1>24, <1>25, <1>26, <1>27, <1>28, <1>29, <1>30, <1>31, <1>32,
     <1>33, <1>34, <1>35, <1>36, <1>37, <1>38, <1>39, <1>40, <1>41
  DEF Next, Engine, Operator, Environment, RunLoop, Promote, HandleError

\* The observed candidates stay one chain from Base.
LEMMA NoLostUpdateStep ==
  ASSUME IndInv, TypeOK', Next
  PROVE  NoLostUpdate'
<1>1. CASE SameLine
  <2> DEFINE observed == {a \in Attempts : promo[a] = "OBSERVED"}
  <2>1. observed' = observed
    BY <1>1 DEF SameLine
  <2>2. checkout'.accepted = checkout.accepted
        /\ \A a \in observed : parent'[a] = parent[a]
    BY <1>1 DEF SameLine
  <2> QED BY <2>1, <2>2 DEF IndInv, NoLostUpdate
<1>2. CASE Adopt /\ CanAdopt(cur)
  <2> DEFINE observed == {a \in Attempts : promo[a] = "OBSERVED"}
  <2>1. cur \in Attempts /\ promo[cur] = "REF_UPDATED"
    BY <1>2 DEF IndInv, AtStep, EngineOwns, Busy, Adopt
  <2>2. /\ observed' = observed \cup {cur} /\ cur \notin observed
        /\ checkout'.accepted = cur /\ UNCHANGED parent
    BY <1>2, <2>1 DEF Adopt, Accepting, IndInv, TypeOK
  <2>3. parent[cur] = checkout.accepted
    BY <1>2 DEF CanAdopt
  <2>4. /\ checkout.accepted \in observed \cup {Base}
        /\ \A a \in observed : /\ parent[a] \in observed \cup {Base}
                               /\ parent[a] # checkout.accepted
                               /\ \A b \in observed \ {a} : parent[b] # parent[a]
    BY DEF IndInv, NoLostUpdate
  <2>5. Base # cur
    BY <2>1, ParametersAssumption DEF ParametersAssumption
  <2> HIDE DEF observed
  <2>6. /\ cur \in observed'
        /\ \A a \in observed' :
              /\ parent[a] \in observed' \cup {Base}
              /\ parent[a] # cur
              /\ \A b \in observed' \ {a} : parent[b] # parent[a]
    BY <2>2, <2>3, <2>4, <2>5
  <2> QED BY <2>2, <2>6 DEF NoLostUpdate, observed
<1> QED BY <1>1, <1>2, AdoptedOrSame

\* A work is completed by the one candidate of it that is observed.
LEMMA CompletedOnceStep ==
  ASSUME IndInv, TypeOK', Next
  PROVE  CompletedOnce'
<1> USE DEF IndInv, TypeOK
<1> DEFINE adopted(w) == {a \in Attempts : workOf[a] = w /\ promo[a] = "OBSERVED"}
<1>1. \A w \in Works : /\ work[w] = "COMPLETED" <=> adopted(w) # {}
                       /\ \A a, b \in adopted(w) : a = b
  BY DEF CompletedOnce
<1>2. SUFFICES ASSUME NEW w \in Works
               PROVE  /\ work'[w] = "COMPLETED" <=> adopted(w)' # {}
                      /\ \A a, b \in adopted(w)' : a = b
  BY DEF CompletedOnce
<1>3. CASE SameLine
  <2>1. \A a \in Attempts : promo[a] = "OBSERVED" => workOf'[a] = workOf[a]
    BY <1>3 DEF SameLine
  <2>2. adopted(w)' = adopted(w)
    BY <1>3, <2>1 DEF SameLine
  <2> QED BY <1>1, <1>3, <2>2 DEF SameLine
<1>4. CASE Adopt /\ CanAdopt(cur)
  <2>1. cur \in Attempts /\ promo[cur] = "REF_UPDATED" /\ workOf[cur] \in Works
    BY <1>4 DEF AtStep, EngineOwns, Busy, Adopt, Claimed
  <2>2. work[workOf[cur]] = "VERIFYING"
    BY <1>4, <2>1, TypeFacts, WorkMoves DEF CanAdopt, CanEnd
  <2>3. CASE w = workOf[cur]
    <3>1. adopted(w) = {}
      BY <1>1, <2>2, <2>3
    <3>2. adopted(w)' = {cur}
      BY <1>4, <2>1, <2>3, <3>1 DEF Adopt
    <3>3. work'[w] = "COMPLETED"
      BY <1>4, <2>1, <2>3 DEF Adopt
    <3> QED BY <3>2, <3>3
  <2>4. CASE w # workOf[cur]
    <3>1. adopted(w)' = adopted(w) /\ work'[w] = work[w]
      BY <1>4, <2>1, <2>4 DEF Adopt
    <3> QED BY <1>1, <3>1
  <2> QED BY <2>3, <2>4
<1> QED BY <1>3, <1>4, AdoptedOrSame

\* The actions that touch the rows of works, attempts and leases.
LEMMA RowsFrame ==
  ASSUME IndInv, Next
  PROVE  \/ KeepsRows
         \/ NothingReady
         \/ \E w \in Works : Halt(w)
         \/ \E w \in Works, a \in Attempts : Claim(w, a)
         \/ Validate
         \/ Submit
         \/ EnsurePromotion
         \/ WriteMarker
         \/ RecordCommit
         \/ RecordRefUpdate
         \/ Adopt
         \/ RefreshAfter
         \/ FailPromotion
         \/ FailAttempt
         \/ \E safe \in BOOLEAN : Park(safe)
         \/ AutomaticRetry
         \/ \E w \in Works : CancelWork(w)
         \/ \E w \in Works : Retry(w)
         \/ \E a \in Attempts : LeaseElapses(a)
         \/ Restart
<1> USE DEF KeepsRows
<1>1. CASE Wake
  BY <1>1 DEF Wake
<1>2. CASE RunGoal
  BY <1>2 DEF RunGoal
<1>3. CASE LeaveLoop
  BY <1>3 DEF LeaveLoop
<1>4. CASE AgentWrites
  BY <1>4 DEF AgentWrites
<1>5. CASE AgentFails
  BY <1>5 DEF AgentFails
<1>6. CASE VerifyFirst
  BY <1>6 DEF VerifyFirst
<1>7. CASE EnsureEffect
  BY <1>7 DEF EnsureEffect
<1>8. CASE Preflight
  BY <1>8 DEF Preflight
<1>9. CASE VerifySecond
  BY <1>9 DEF VerifySecond
<1>10. CASE UpdateRef
  BY <1>10 DEF UpdateRef
<1>11. CASE ReadBack
  BY <1>11 DEF ReadBack
<1>12. CASE Classify
  BY <1>12 DEF Classify
<1>13. CASE OpenRecoveryGate
  BY <1>13 DEF OpenRecoveryGate
<1>14. CASE WaitForRecovery
  BY <1>14 DEF WaitForRecovery, Finish
<1>15. CASE Interrupt
  BY <1>15 DEF Interrupt
<1>16. CASE Pause
  BY <1>16 DEF Pause
<1>17. CASE Resume
  BY <1>17 DEF Resume
<1>18. CASE CancelGoal
  BY <1>18 DEF CancelGoal
<1>19. ASSUME NEW g \in gates, AllowGate(g)
      PROVE  KeepsRows
  BY <1>19 DEF AllowGate
<1>20. CASE AllowInvariantGate
  BY <1>20 DEF AllowInvariantGate
<1>21. ASSUME NEW t \in Trees, EditTree(t)
      PROVE  KeepsRows
  BY <1>21 DEF EditTree
<1>22. CASE Crash
  BY <1>22 DEF Crash
<1> QED
  BY <1>1, <1>2, <1>3, <1>4, <1>5, <1>6, <1>7, <1>8, <1>9, <1>10, <1>11, <1>12,
     <1>13, <1>14, <1>15, <1>16, <1>17, <1>18, <1>19, <1>20, <1>21, <1>22
  DEF Next, Engine, Operator, Environment, RunLoop, Promote, HandleError

\* A work once completed stays completed.
LEMMA CompletedStays ==
  ASSUME IndInv, TypeOK', Next, NEW v \in Works, work[v] = "COMPLETED"
  PROVE  work'[v] = "COMPLETED"
<1>1. CASE SameLine BY <1>1 DEF SameLine
<1>2. CASE Adopt /\ CanAdopt(cur)
  BY <1>2 DEF Adopt, IndInv, TypeOK
<1> QED BY <1>1, <1>2, AdoptedOrSame

\* An attempt has its rows from its claim on.
LEMMA ClaimedStep ==
  ASSUME IndInv, TypeOK', Next
  PROVE  Claimed'
<1> USE TypeFacts, WorkMoves, ParametersAssumption
        DEF IndInv, TypeOK, ParametersAssumption, Claimed, EngineOwns, AtStep,
            Pending, AnyPending, Owner, ActiveLease, Terminal, DepsDone, Busy,
            Trees, Commits
<1>1. ASSUME KeepsRows
      PROVE  Claimed'
  BY <1>1 DEF KeepsRows
<1>2. CASE NothingReady
  BY <1>2 DEF NothingReady, Refreshed
<1>3. ASSUME NEW w \in Works, Halt(w)
      PROVE  Claimed'
  BY <1>3 DEF Halt, Refreshed
<1>4. ASSUME NEW w \in Works, NEW a \in Attempts, Claim(w, a)
      PROVE  Claimed'
  BY <1>4 DEF Claim, Refreshed, Claimable, Idle, IsNextReady, IsNextAttempt
<1>5. CASE Validate
  BY <1>5 DEF Validate
<1>6. CASE Submit
  BY <1>6 DEF Submit
<1>7. CASE EnsurePromotion
  BY <1>7 DEF EnsurePromotion
<1>8. CASE WriteMarker
  BY <1>8 DEF WriteMarker
<1>9. CASE RecordCommit
  BY <1>9 DEF RecordCommit
<1>10. CASE RecordRefUpdate
  BY <1>10 DEF RecordRefUpdate
<1>11. CASE Adopt
  BY <1>11 DEF Adopt, Accepting, CanAdopt, CanEnd
<1>12. CASE RefreshAfter
  BY <1>12 DEF RefreshAfter, Refreshed, Finish
<1>13. CASE FailPromotion
  BY <1>13 DEF FailPromotion, CanEnd
<1>14. CASE FailAttempt
  BY <1>14 DEF FailAttempt, Surrendered, Finish
<1>15. ASSUME NEW safe \in BOOLEAN, Park(safe)
      PROVE  Claimed'
  BY <1>15 DEF Park, Observed, Finish
<1>16. CASE AutomaticRetry
  BY <1>16 DEF AutomaticRetry, Observed, Finish, Idle
<1>17. ASSUME NEW w \in Works, CancelWork(w)
      PROVE  Claimed'
  BY <1>17 DEF CancelWork
<1>18. ASSUME NEW w \in Works, Retry(w)
      PROVE  Claimed'
  BY <1>18 DEF Retry, Retryable, Idle
<1>19. ASSUME NEW a \in Attempts, LeaseElapses(a)
      PROVE  Claimed'
  BY <1>19 DEF LeaseElapses
<1>20. CASE Restart
  <2>1. UNCHANGED <<workOf, parent, promo, marker>>
    BY <1>20 DEF Restart
  <2>2. \A a \in Abandoned : attempt[a] # "NONE"
    BY DEF Abandoned
  <2>4. \A a \in Attempts : attempt[a] = "NONE" <=> attempt'[a] = "NONE"
    BY <1>20, <2>2 DEF Restart
  <2>3. \A a \in Attempts : lease[a] = "NONE" => lease'[a] = "NONE"
    BY <1>20 DEF Restart
  <2> QED BY <2>1, <2>3, <2>4
<1> HIDE DEF Claimed
<1> QED
  BY <1>1, <1>2, <1>3, <1>4, <1>5, <1>6, <1>7, <1>8, <1>9, <1>10, <1>11, <1>12,
     <1>13, <1>14, <1>15, <1>16, <1>17, <1>18, <1>19, <1>20, RowsFrame

\* There is one writer.
LEMMA OneWriterStep ==
  ASSUME IndInv, TypeOK', Next
  PROVE  OneWriter'
<1> USE TypeFacts, WorkMoves, ParametersAssumption
        DEF IndInv, TypeOK, ParametersAssumption, OneWriter, EngineOwns, AtStep,
            Pending, AnyPending, Owner, ActiveLease, Terminal, DepsDone, Busy,
            Trees, Commits
<1>1. ASSUME KeepsRows
      PROVE  OneWriter'
  BY <1>1 DEF KeepsRows
<1>2. CASE NothingReady
  BY <1>2 DEF NothingReady, Refreshed
<1>3. ASSUME NEW w \in Works, Halt(w)
      PROVE  OneWriter'
  BY <1>3 DEF Halt, Refreshed
<1>4. ASSUME NEW w \in Works, NEW a \in Attempts, Claim(w, a)
      PROVE  OneWriter'
  BY <1>4 DEF Claim, Refreshed, Claimable, Idle, IsNextReady, IsNextAttempt
<1>5. CASE Validate
  BY <1>5 DEF Validate
<1>6. CASE Submit
  BY <1>6 DEF Submit
<1>7. CASE EnsurePromotion
  BY <1>7 DEF EnsurePromotion
<1>8. CASE WriteMarker
  BY <1>8 DEF WriteMarker
<1>9. CASE RecordCommit
  BY <1>9 DEF RecordCommit
<1>10. CASE RecordRefUpdate
  BY <1>10 DEF RecordRefUpdate
<1>11. CASE Adopt
  BY <1>11 DEF Adopt, Accepting, CanAdopt, CanEnd
<1>12. CASE RefreshAfter
  BY <1>12 DEF RefreshAfter, Refreshed, Finish
<1>13. CASE FailPromotion
  BY <1>13 DEF FailPromotion, CanEnd
<1>14. CASE FailAttempt
  BY <1>14 DEF FailAttempt, Surrendered, Finish
<1>15. ASSUME NEW safe \in BOOLEAN, Park(safe)
      PROVE  OneWriter'
  BY <1>15 DEF Park, Observed, Finish
<1>16. CASE AutomaticRetry
  BY <1>16 DEF AutomaticRetry, Observed, Finish, Idle
<1>17. ASSUME NEW w \in Works, CancelWork(w)
      PROVE  OneWriter'
  BY <1>17 DEF CancelWork
<1>18. ASSUME NEW w \in Works, Retry(w)
      PROVE  OneWriter'
  BY <1>18 DEF Retry, Retryable, Idle
<1>19. ASSUME NEW a \in Attempts, LeaseElapses(a)
      PROVE  OneWriter'
  BY <1>19 DEF LeaseElapses
<1>20. CASE Restart
  BY <1>20 DEF Restart, Abandoned
<1> HIDE DEF OneWriter
<1> QED
  BY <1>1, <1>2, <1>3, <1>4, <1>5, <1>6, <1>7, <1>8, <1>9, <1>10, <1>11, <1>12,
     <1>13, <1>14, <1>15, <1>16, <1>17, <1>18, <1>19, <1>20, RowsFrame

\* A live attempt keeps its lease.
LEMMA LiveIsOwnerStep ==
  ASSUME IndInv, TypeOK', Next
  PROVE  LiveIsOwner'
<1> USE TypeFacts, WorkMoves, ParametersAssumption
        DEF IndInv, TypeOK, ParametersAssumption, LiveIsOwner, Fenced,
            OneWriter, Claimed, EngineOwns, AtStep, Pending, AnyPending, Owner,
            ActiveLease, Terminal, DepsDone, Busy, Trees, Commits
<1>1. ASSUME KeepsRows
      PROVE  LiveIsOwner'
  BY <1>1 DEF KeepsRows
<1>2. CASE NothingReady
  BY <1>2 DEF NothingReady, Refreshed
<1>3. ASSUME NEW w \in Works, Halt(w)
      PROVE  LiveIsOwner'
  BY <1>3 DEF Halt, Refreshed
<1>4. ASSUME NEW w \in Works, NEW a \in Attempts, Claim(w, a)
      PROVE  LiveIsOwner'
  BY <1>4 DEF Claim, Refreshed, Claimable, Idle, IsNextReady, IsNextAttempt
<1>5. CASE Validate
  BY <1>5 DEF Validate
<1>6. CASE Submit
  BY <1>6 DEF Submit
<1>7. CASE EnsurePromotion
  BY <1>7 DEF EnsurePromotion
<1>8. CASE WriteMarker
  BY <1>8 DEF WriteMarker
<1>9. CASE RecordCommit
  BY <1>9 DEF RecordCommit
<1>10. CASE RecordRefUpdate
  BY <1>10 DEF RecordRefUpdate
<1>11. CASE Adopt
  BY <1>11 DEF Adopt, Accepting, CanAdopt, CanEnd
<1>12. CASE RefreshAfter
  BY <1>12 DEF RefreshAfter, Refreshed, Finish
<1>13. CASE FailPromotion
  BY <1>13 DEF FailPromotion, CanEnd
<1>14. CASE FailAttempt
  BY <1>14 DEF FailAttempt, Surrendered, Finish
<1>15. ASSUME NEW safe \in BOOLEAN, Park(safe)
      PROVE  LiveIsOwner'
  BY <1>15 DEF Park, Observed, Finish
<1>16. CASE AutomaticRetry
  BY <1>16 DEF AutomaticRetry, Observed, Finish, Idle
<1>17. ASSUME NEW w \in Works, CancelWork(w)
      PROVE  LiveIsOwner'
  BY <1>17 DEF CancelWork
<1>18. ASSUME NEW w \in Works, Retry(w)
      PROVE  LiveIsOwner'
  BY <1>18 DEF Retry, Retryable, Idle
<1>19. ASSUME NEW a \in Attempts, LeaseElapses(a)
      PROVE  LiveIsOwner'
  BY <1>19 DEF LeaseElapses
<1>20. CASE Restart
  BY <1>20 DEF Restart, Abandoned
<1> HIDE DEF LiveIsOwner
<1> QED
  BY <1>1, <1>2, <1>3, <1>4, <1>5, <1>6, <1>7, <1>8, <1>9, <1>10, <1>11, <1>12,
     <1>13, <1>14, <1>15, <1>16, <1>17, <1>18, <1>19, <1>20, RowsFrame

\* A marked pending promotion keeps its lease.
LEMMA MarkedIsOwnerStep ==
  ASSUME IndInv, TypeOK', Next
  PROVE  MarkedIsOwner'
<1> USE TypeFacts, WorkMoves, ParametersAssumption
        DEF IndInv, TypeOK, ParametersAssumption, MarkedIsOwner, OneWriter,
            Claimed, EngineOwns, AtStep, Pending, AnyPending, Owner,
            ActiveLease, Terminal, DepsDone, Busy, Trees, Commits
<1>1. ASSUME KeepsRows
      PROVE  MarkedIsOwner'
  BY <1>1 DEF KeepsRows
<1>2. CASE NothingReady
  BY <1>2 DEF NothingReady, Refreshed
<1>3. ASSUME NEW w \in Works, Halt(w)
      PROVE  MarkedIsOwner'
  BY <1>3 DEF Halt, Refreshed
<1>4. ASSUME NEW w \in Works, NEW a \in Attempts, Claim(w, a)
      PROVE  MarkedIsOwner'
  BY <1>4 DEF Claim, Refreshed, Claimable, Idle, IsNextReady, IsNextAttempt
<1>5. CASE Validate
  BY <1>5 DEF Validate
<1>6. CASE Submit
  BY <1>6 DEF Submit
<1>7. CASE EnsurePromotion
  BY <1>7 DEF EnsurePromotion
<1>8. CASE WriteMarker
  BY <1>8 DEF WriteMarker
<1>9. CASE RecordCommit
  BY <1>9 DEF RecordCommit
<1>10. CASE RecordRefUpdate
  BY <1>10 DEF RecordRefUpdate
<1>11. CASE Adopt
  BY <1>11 DEF Adopt, Accepting, CanAdopt, CanEnd
<1>12. CASE RefreshAfter
  BY <1>12 DEF RefreshAfter, Refreshed, Finish
<1>13. CASE FailPromotion
  BY <1>13 DEF FailPromotion, CanEnd
<1>14. CASE FailAttempt
  BY <1>14 DEF FailAttempt, Surrendered, Finish
<1>15. ASSUME NEW safe \in BOOLEAN, Park(safe)
      PROVE  MarkedIsOwner'
  BY <1>15 DEF Park, Observed, Finish
<1>16. CASE AutomaticRetry
  BY <1>16 DEF AutomaticRetry, Observed, Finish, Idle
<1>17. ASSUME NEW w \in Works, CancelWork(w)
      PROVE  MarkedIsOwner'
  BY <1>17 DEF CancelWork
<1>18. ASSUME NEW w \in Works, Retry(w)
      PROVE  MarkedIsOwner'
  BY <1>18 DEF Retry, Retryable, Idle
<1>19. ASSUME NEW a \in Attempts, LeaseElapses(a)
      PROVE  MarkedIsOwner'
  BY <1>19 DEF LeaseElapses
<1>20. CASE Restart
  BY <1>20 DEF Restart, Abandoned
<1> HIDE DEF MarkedIsOwner
<1> QED
  BY <1>1, <1>2, <1>3, <1>4, <1>5, <1>6, <1>7, <1>8, <1>9, <1>10, <1>11, <1>12,
     <1>13, <1>14, <1>15, <1>16, <1>17, <1>18, <1>19, <1>20, RowsFrame

\* A lease that keeps its attempt, work and directory still fences them.
LEMMA FencedKept ==
  ASSUME IndInv, TypeOK', Next, checkout'.work = checkout.work,
         \A a \in Attempts : Owner(a)' =>
            /\ Owner(a) /\ (Pending(a)' => Pending(a))
            /\ attempt'[a] = attempt[a] /\ workOf'[a] = workOf[a]
            /\ work'[workOf[a]] = work[workOf[a]]
  PROVE  Fenced'
<1>1. SUFFICES ASSUME NEW a \in Attempts, Owner(a)'
               PROVE  /\ \/ attempt'[a] = "CREATED" /\ work'[workOf'[a]] = "CLAIMED"
                         \/ attempt'[a] \in {"VALIDATING", "PROMOTING"}
                            /\ work'[workOf'[a]] = "VERIFYING"
                      /\ checkout'.work = workOf'[a]
                      /\ DepsDone(workOf[a])'
                      /\ Pending(a)' => attempt'[a] = "PROMOTING"
  BY DEF Fenced
<1>2. DepsDone(workOf[a]) /\ workOf'[a] = workOf[a]
  BY <1>1 DEF IndInv, Fenced
<1>3. DepsDone(workOf[a])'
  BY <1>2, CompletedStays DEF DepsDone
<1> QED BY <1>1, <1>3 DEF IndInv, Fenced

\* The work of an owner is claimed or under verification.
LEMMA FencedOwner ==
  ASSUME IndInv, NEW a \in Attempts, Owner(a)
  PROVE  workOf[a] \in Works /\ work[workOf[a]] \in {"CLAIMED", "VERIFYING"}
  BY DEF IndInv, Fenced, Claimed

\* RefreshReadyWork touches no work that is owned.
LEMMA FencedRefreshed ==
  ASSUME IndInv, TypeOK', Next, work' = Refreshed,
         UNCHANGED <<attempt, lease, workOf, promo, checkout>>
  PROVE  Fenced'
<1>1. \A v \in Works : work[v] # "PENDING" => work'[v] = work[v]
  BY DEF Refreshed
<1>2. ASSUME NEW a \in Attempts, Owner(a)'
      PROVE  Owner(a) /\ work'[workOf[a]] = work[workOf[a]]
  <2>1. Owner(a)
    BY <1>2 DEF Owner
  <2> QED BY <1>1, <2>1, FencedOwner
<1> QED BY <1>2, FencedKept DEF Pending

\* What a lease fences stays so while it lives.
LEMMA FencedStep ==
  ASSUME IndInv, TypeOK', Next
  PROVE  Fenced'
<1> USE TypeFacts, WorkMoves, ParametersAssumption
        DEF IndInv, TypeOK, ParametersAssumption, Fenced, OneWriter, Claimed,
            EngineOwns, AtStep, Pending, AnyPending, Owner, ActiveLease,
            Terminal, DepsDone, Busy, Trees, Commits
<1>1. ASSUME KeepsRows
      PROVE  Fenced'
  BY <1>1 DEF KeepsRows
<1>2. CASE NothingReady
  BY FencedRefreshed, <1>2 DEF NothingReady
<1>3. ASSUME NEW w \in Works, Halt(w)
      PROVE  Fenced'
  BY FencedRefreshed, <1>3 DEF Halt
<1>4. ASSUME NEW w \in Works, NEW a \in Attempts, Claim(w, a)
      PROVE  Fenced'
  BY <1>4 DEF Claim, Refreshed, Claimable, Idle, IsNextReady, IsNextAttempt
<1>5. CASE Validate
  BY <1>5 DEF Validate
<1>6. CASE Submit
  BY <1>6 DEF Submit
<1>7. CASE EnsurePromotion
  BY <1>7 DEF EnsurePromotion
<1>8. CASE WriteMarker
  BY <1>8 DEF WriteMarker
<1>9. CASE RecordCommit
  BY <1>9 DEF RecordCommit
<1>10. CASE RecordRefUpdate
  <2>1. UNCHANGED <<attempt, lease, workOf, work, checkout>>
        /\ \A a \in Attempts : Pending(a)' => Pending(a)
    BY <1>10 DEF RecordRefUpdate
  <2> QED BY <2>1
<1>11. CASE Adopt
  BY <1>11 DEF Adopt, Accepting, CanAdopt, CanEnd
<1>12. CASE RefreshAfter
  <2>1. CASE goal = "RUNNING"
    BY FencedRefreshed, <1>12, <2>1 DEF RefreshAfter
  <2>2. CASE goal # "RUNNING"
    BY <1>1, <1>12, <2>2 DEF RefreshAfter, KeepsRows
  <2> QED BY <2>1, <2>2
<1>13. CASE FailPromotion
  BY <1>13 DEF FailPromotion, CanEnd
<1>14. CASE FailAttempt
  BY <1>14 DEF FailAttempt, Surrendered, Finish
<1>15. ASSUME NEW safe \in BOOLEAN, Park(safe)
      PROVE  Fenced'
  BY <1>15 DEF Park, Observed, Finish
<1>16. CASE AutomaticRetry
  BY <1>16 DEF AutomaticRetry, Observed, Finish, Idle
<1>17. ASSUME NEW w \in Works, CancelWork(w)
      PROVE  Fenced'
  BY CompletedStays, <1>17 DEF CancelWork
<1>18. ASSUME NEW w \in Works, Retry(w)
      PROVE  Fenced'
  BY <1>18 DEF Retry, Retryable, Idle
<1>19. ASSUME NEW a \in Attempts, LeaseElapses(a)
      PROVE  Fenced'
  BY CompletedStays, <1>19 DEF LeaseElapses
<1>20. CASE Restart
  <2>1. ASSUME NEW a \in Attempts, Owner(a)'
        PROVE  /\ Owner(a) /\ attempt'[a] = attempt[a]
               /\ work'[workOf[a]] = work[workOf[a]]
    <3>1. Owner(a) /\ a \notin Abandoned
      BY <1>20, <2>1 DEF Restart
    <3>2. workOf[a] \in Works
      BY <3>1
    <3>3. Pending(a) /\ work[workOf[a]] = "VERIFYING"
      BY <3>1, <3>2 DEF Abandoned
    <3>4. \A b \in Abandoned : workOf[b] # workOf[a]
      BY <3>1, <3>3 DEF Abandoned
    <3> QED BY <1>20, <3>1, <3>2, <3>4 DEF Restart
  <2>2. UNCHANGED <<workOf, promo, checkout>>
    BY <1>20 DEF Restart
  <2> QED BY FencedKept, <2>1, <2>2
<1> HIDE DEF Fenced
<1> QED
  BY <1>1, <1>2, <1>3, <1>4, <1>5, <1>6, <1>7, <1>8, <1>9, <1>10, <1>11, <1>12,
     <1>13, <1>14, <1>15, <1>16, <1>17, <1>18, <1>19, <1>20, RowsFrame

\* The engine's current attempt is the writer.
LEMMA EngineOwnsStep ==
  ASSUME IndInv, TypeOK', Next
  PROVE  EngineOwns'
<1> USE TypeFacts, WorkMoves, ParametersAssumption
        DEF IndInv, TypeOK, ParametersAssumption, OneWriter, Claimed,
            EngineOwns, AtStep, Pending, AnyPending, Owner, ActiveLease,
            Terminal, DepsDone, Busy, Trees, Commits
<1>1. CASE Wake
  BY <1>1 DEF Wake
<1>2. CASE RunGoal
  BY <1>2 DEF RunGoal
<1>3. CASE LeaveLoop
  BY <1>3 DEF LeaveLoop
<1>4. CASE NothingReady
  BY <1>4 DEF NothingReady, Refreshed
<1>5. ASSUME NEW w \in Works, Halt(w)
      PROVE  EngineOwns'
  BY <1>5 DEF Halt, Refreshed
<1>6. ASSUME NEW w \in Works, NEW a \in Attempts, Claim(w, a)
      PROVE  EngineOwns'
  BY <1>6 DEF Claim, Refreshed, Claimable, Idle, IsNextReady, IsNextAttempt
<1>7. CASE AgentWrites
  BY <1>7 DEF AgentWrites
<1>8. CASE Validate
  BY <1>8 DEF Validate
<1>9. CASE Submit
  BY <1>9 DEF Submit
<1>10. CASE AgentFails
  BY <1>10 DEF AgentFails
<1>11. CASE VerifyFirst
  BY <1>11 DEF VerifyFirst
<1>12. CASE EnsureEffect
  BY <1>12 DEF EnsureEffect
<1>13. CASE EnsurePromotion
  BY <1>13 DEF EnsurePromotion
<1>14. CASE Preflight
  BY <1>14 DEF Preflight
<1>15. CASE WriteMarker
  BY <1>15 DEF WriteMarker
<1>16. CASE RecordCommit
  BY <1>16 DEF RecordCommit
<1>17. CASE VerifySecond
  BY <1>17 DEF VerifySecond
<1>18. CASE UpdateRef
  BY <1>18 DEF UpdateRef
<1>19. CASE RecordRefUpdate
  BY <1>19 DEF RecordRefUpdate
<1>20. CASE ReadBack
  BY <1>20 DEF ReadBack
<1>21. CASE Adopt
  BY <1>21 DEF Adopt, Accepting, CanAdopt, CanEnd
<1>22. CASE RefreshAfter
  BY <1>22 DEF RefreshAfter, Refreshed, Finish
<1>23. CASE FailPromotion
  BY <1>23 DEF FailPromotion, CanEnd
<1>24. CASE Classify
  BY <1>24 DEF Classify
<1>25. CASE OpenRecoveryGate
  BY <1>25 DEF OpenRecoveryGate
<1>26. CASE WaitForRecovery
  BY <1>26 DEF WaitForRecovery, Finish
<1>27. CASE FailAttempt
  BY <1>27 DEF FailAttempt, Surrendered, Finish
<1>28. ASSUME NEW safe \in BOOLEAN, Park(safe)
      PROVE  EngineOwns'
  BY <1>28 DEF Park, Observed, Finish
<1>29. CASE AutomaticRetry
  BY <1>29 DEF AutomaticRetry, Observed, Finish, Idle
<1>30. CASE Interrupt
  <2>1. UNCHANGED store
    BY <1>30 DEF Interrupt
  <2>2. CASE /\ via = "execute" /\ pc \in PromoteSteps \cup {"failing"}
             /\ Goto("error")
    <3>1. Busy BY <2>2 DEF PromoteSteps
    <3> QED BY <2>1, <2>2, <3>1
  <2>3. CASE pc' = "idle"
    BY <2>3
  <2> QED BY <1>30, <2>2, <2>3 DEF Interrupt
<1>31. CASE Pause
  BY <1>31 DEF Pause
<1>32. CASE Resume
  BY <1>32 DEF Resume
<1>33. CASE CancelGoal
  BY <1>33 DEF CancelGoal
<1>34. ASSUME NEW w \in Works, CancelWork(w)
      PROVE  EngineOwns'
  BY <1>34 DEF CancelWork
<1>35. ASSUME NEW w \in Works, Retry(w)
      PROVE  EngineOwns'
  BY <1>35 DEF Retry, Retryable, Idle
<1>36. ASSUME NEW g \in gates, AllowGate(g)
      PROVE  EngineOwns'
  BY <1>36 DEF AllowGate
<1>37. CASE AllowInvariantGate
  BY <1>37 DEF AllowInvariantGate
<1>38. ASSUME NEW t \in Trees, EditTree(t)
      PROVE  EngineOwns'
  BY <1>38 DEF EditTree
<1>39. ASSUME NEW a \in Attempts, LeaseElapses(a)
      PROVE  EngineOwns'
  BY <1>39 DEF LeaseElapses
<1>40. CASE Crash
  BY <1>40 DEF Crash
<1>41. CASE Restart
  BY <1>41 DEF Restart, Abandoned
<1> HIDE DEF EngineOwns
<1> QED
  BY <1>1, <1>2, <1>3, <1>4, <1>5, <1>6, <1>7, <1>8, <1>9, <1>10, <1>11, <1>12,
     <1>13, <1>14, <1>15, <1>16, <1>17, <1>18, <1>19, <1>20, <1>21, <1>22,
     <1>23, <1>24, <1>25, <1>26, <1>27, <1>28, <1>29, <1>30, <1>31, <1>32,
     <1>33, <1>34, <1>35, <1>36, <1>37, <1>38, <1>39, <1>40, <1>41
  DEF Next, Engine, Operator, Environment, RunLoop, Promote, HandleError

\* A candidate is a new commit: it is not the one it was made from.
LEMMA ParentDiffers ==
  ASSUME IndInv, NEW a \in Attempts, Pending(a)
  PROVE  parent[a] # a
<1>1. parent[a] = checkout.accepted
  BY DEF IndInv, RefAgrees
<1>2. checkout.accepted \in {b \in Attempts : promo[b] = "OBSERVED"} \cup {Base}
  BY DEF IndInv, NoLostUpdate
<1> QED
  BY <1>1, <1>2, ParametersAssumption DEF ParametersAssumption, Pending

\* What the code has established before each of its steps.
LEMMA AtStepStep ==
  ASSUME IndInv, TypeOK', Next
  PROVE  AtStep'
<1> USE TypeFacts, WorkMoves, ParametersAssumption
        DEF IndInv, TypeOK, ParametersAssumption, AtStep, RefAgrees, WriteAhead,
            Fenced, OneWriter, Claimed, EngineOwns, MarkedIsOwner, LiveIsOwner,
            Pending, AnyPending, Owner, ActiveLease, Terminal, DepsDone, Busy,
            Trees, Commits
<1>1. CASE Wake
  BY <1>1 DEF Wake
<1>2. CASE RunGoal
  BY <1>2 DEF RunGoal
<1>3. CASE LeaveLoop
  BY <1>3 DEF LeaveLoop
<1>4. CASE NothingReady
  BY <1>4 DEF NothingReady, Refreshed
<1>5. ASSUME NEW w \in Works, Halt(w)
      PROVE  AtStep'
  BY <1>5 DEF Halt, Refreshed
<1>6. ASSUME NEW w \in Works, NEW a \in Attempts, Claim(w, a)
      PROVE  AtStep'
  BY <1>6 DEF Claim, Refreshed, Claimable, Idle, IsNextReady, IsNextAttempt
<1>7. CASE AgentWrites
  BY <1>7 DEF AgentWrites
<1>8. CASE Validate
  BY <1>8 DEF Validate
<1>9. CASE Submit
  BY <1>9 DEF Submit
<1>10. CASE AgentFails
  BY <1>10 DEF AgentFails
<1>11. CASE VerifyFirst
  BY <1>11 DEF VerifyFirst
<1>12. CASE EnsureEffect
  BY <1>12 DEF EnsureEffect
<1>13. CASE EnsurePromotion
  BY <1>13 DEF EnsurePromotion
<1>14. CASE Preflight
  <2>1. cur \in Attempts /\ (Pending(cur) => parent[cur] # cur)
    BY ParentDiffers, <1>14 DEF Preflight
  <2>2. UNCHANGED <<store, files, cur>>
    BY <1>14 DEF Preflight
  <2>3. Pending(cur) /\ ref # cur
    BY <1>14, <2>1 DEF Preflight
  <2>4. CASE pc' = "failing"
    BY <2>2, <2>3, <2>4
  <2>5. CASE pc = "preflight" /\ pc' = "mark" /\ Ready(cur)
    BY <2>2, <2>5 DEF Ready
  <2>6. CASE pc = "preflight2" /\ pc' = "verify2"
    BY <2>2, <2>6
  <2> QED BY <1>14, <2>4, <2>5, <2>6 DEF Preflight
<1>15. CASE WriteMarker
  BY <1>15 DEF WriteMarker
<1>16. CASE RecordCommit
  <2>1. cur \in Attempts /\ (Pending(cur) => parent[cur] # cur)
    BY ParentDiffers, <1>16 DEF RecordCommit
  <2> QED BY <1>16, <2>1 DEF RecordCommit
<1>17. CASE VerifySecond
  <2>1. cur \in Attempts /\ (Pending(cur) => parent[cur] # cur)
    BY ParentDiffers, <1>17 DEF VerifySecond
  <2> QED BY <1>17, <2>1 DEF VerifySecond
<1>18. CASE UpdateRef
  BY <1>18 DEF UpdateRef
<1>19. CASE RecordRefUpdate
  BY <1>19 DEF RecordRefUpdate
<1>20. CASE ReadBack
  BY <1>20 DEF ReadBack
<1>21. CASE Adopt
  BY <1>21 DEF Adopt, Accepting, CanAdopt, CanEnd
<1>22. CASE RefreshAfter
  BY <1>22 DEF RefreshAfter, Refreshed, Finish
<1>23. CASE FailPromotion
  BY <1>23 DEF FailPromotion, CanEnd
<1>24. CASE Classify
  BY <1>24 DEF Classify
<1>25. CASE OpenRecoveryGate
  BY <1>25 DEF OpenRecoveryGate
<1>26. CASE WaitForRecovery
  BY <1>26 DEF WaitForRecovery, Finish
<1>27. CASE FailAttempt
  BY <1>27 DEF FailAttempt, Surrendered, Finish
<1>28. ASSUME NEW safe \in BOOLEAN, Park(safe)
      PROVE  AtStep'
  BY <1>28 DEF Park, Observed, Finish
<1>29. CASE AutomaticRetry
  BY <1>29 DEF AutomaticRetry, Observed, Finish, Idle
<1>30. CASE Interrupt
  BY <1>30 DEF Interrupt
<1>31. CASE Pause
  BY <1>31 DEF Pause
<1>32. CASE Resume
  BY <1>32 DEF Resume
<1>33. CASE CancelGoal
  BY <1>33 DEF CancelGoal
<1>34. ASSUME NEW w \in Works, CancelWork(w)
      PROVE  AtStep'
  BY <1>34 DEF CancelWork
<1>35. ASSUME NEW w \in Works, Retry(w)
      PROVE  AtStep'
  BY <1>35 DEF Retry, Retryable, Idle
<1>36. ASSUME NEW g \in gates, AllowGate(g)
      PROVE  AtStep'
  BY <1>36 DEF AllowGate
<1>37. CASE AllowInvariantGate
  BY <1>37 DEF AllowInvariantGate
<1>38. ASSUME NEW t \in Trees, EditTree(t)
      PROVE  AtStep'
  BY <1>38 DEF EditTree
<1>39. ASSUME NEW a \in Attempts, LeaseElapses(a)
      PROVE  AtStep'
  BY <1>39 DEF LeaseElapses
<1>40. CASE Crash
  BY <1>40 DEF Crash
<1>41. CASE Restart
  BY <1>41 DEF Restart, Abandoned
<1> HIDE DEF AtStep
<1> QED
  BY <1>1, <1>2, <1>3, <1>4, <1>5, <1>6, <1>7, <1>8, <1>9, <1>10, <1>11, <1>12,
     <1>13, <1>14, <1>15, <1>16, <1>17, <1>18, <1>19, <1>20, <1>21, <1>22,
     <1>23, <1>24, <1>25, <1>26, <1>27, <1>28, <1>29, <1>30, <1>31, <1>32,
     <1>33, <1>34, <1>35, <1>36, <1>37, <1>38, <1>39, <1>40, <1>41
  DEF Next, Engine, Operator, Environment, RunLoop, Promote, HandleError

-----------------------------------------------------------------------------
(* The invariant holds at first, is kept by every step, and implies the rest. *)

\* The types hold when the goal begins to run.
LEMMA InitTypeOK == Init => TypeOK /\ CurIsAttempt
<1> SUFFICES ASSUME Init PROVE TypeOK /\ CurIsAttempt
  OBVIOUS
<1>1. checkout \in [work : Works \cup {None}, accepted : Commits,
                     observed : Trees, retry : BOOLEAN]
  BY DEF Init, Commits, Trees
<1>2. work \in [Works -> DOMAIN WorkTransitions]
  BY TypeFacts DEF Init
<1> QED
  BY TypeFacts, <1>1, <1>2
  DEF Init, TypeOK, CurIsAttempt, Busy, Commits, Trees

\* The invariant holds when the goal begins to run.
LEMMA InitIndInv == Init => IndInv
<1> SUFFICES ASSUME Init PROVE IndInv
  OBVIOUS
<1> USE DEF Init, Pending, AnyPending, Owner, Terminal
<1>1. TypeOK
  BY InitTypeOK
<1>2. RefAgrees
  BY DEF RefAgrees
<1>3. NoLostUpdate
  BY DEF NoLostUpdate
<1>4. WriteAhead
  BY ParametersAssumption DEF ParametersAssumption, WriteAhead
<1>5. CompletedOnce
  BY DEF CompletedOnce
<1>6. Claimed /\ OneWriter /\ EngineOwns
  BY DEF Claimed, OneWriter, EngineOwns, Busy
<1>7. Fenced /\ LiveIsOwner /\ MarkedIsOwner /\ AtStep
  BY DEF Fenced, LiveIsOwner, MarkedIsOwner, AtStep
<1> QED
  BY <1>1, <1>2, <1>3, <1>4, <1>5, <1>6, <1>7 DEF IndInv

\* Every step, and every stuttering step, keeps the invariant.
LEMMA IndInvStep == IndInv /\ [Next]_vars => IndInv'
<1> SUFFICES ASSUME IndInv, [Next]_vars PROVE IndInv'
  OBVIOUS
<1>1. TypeOK'
  BY TypeStep DEF IndInv, EngineOwns, CurIsAttempt
<1>2. CASE Next
  BY <1>1, <1>2, RefAgreesStep, NoLostUpdateStep, WriteAheadStep,
     CompletedOnceStep, ClaimedStep, OneWriterStep, EngineOwnsStep, FencedStep,
     LiveIsOwnerStep, MarkedIsOwnerStep, AtStepStep
  DEF IndInv
<1>3. CASE UNCHANGED vars
  <2> USE <1>3 DEF IndInv, Pending, AnyPending, Owner, Terminal
  <2>1. RefAgrees' /\ WriteAhead'
    BY DEF RefAgrees, WriteAhead
  <2>2. NoLostUpdate' /\ CompletedOnce'
    BY DEF NoLostUpdate, CompletedOnce
  <2>3. Claimed' /\ OneWriter' /\ EngineOwns'
    BY DEF Claimed, OneWriter, EngineOwns, Busy
  <2>4. Fenced' /\ LiveIsOwner' /\ MarkedIsOwner' /\ AtStep'
    BY DEF Fenced, LiveIsOwner, MarkedIsOwner, AtStep, DepsDone
  <2> QED BY <1>1, <2>1, <2>2, <2>3, <2>4
<1> QED BY <1>2, <1>3

\* The invariant of every state the program can reach.
THEOREM Inductive == Spec => []IndInv
  BY InitIndInv, IndInvStep, PTL DEF Spec

\* Every variable keeps its type.
THEOREM TypeCorrect == Spec => []TypeOK
<1>1. IndInv => TypeOK
  BY DEF IndInv
<1> QED BY <1>1, Inductive, PTL

\* The integration ref and the accepted commit agree, up to the one pending
\* promotion, whatever crashes, cancellations and edits come in between.
THEOREM RefAlwaysAgrees == Spec => []RefAgrees
<1>1. IndInv => RefAgrees
  BY DEF IndInv
<1> QED BY <1>1, Inductive, PTL

\* No accepted candidate is ever replaced by one made beside it.
THEOREM NoUpdateIsLost == Spec => []NoLostUpdate
<1>1. IndInv => NoLostUpdate
  BY DEF IndInv
<1> QED BY <1>1, Inductive, PTL

\* Intent is journalled before its effect, the effect before its record.
THEOREM AlwaysWriteAhead == Spec => []WriteAhead
<1>1. IndInv => WriteAhead
  BY DEF IndInv
<1> QED BY <1>1, Inductive, PTL

\* A marked pending promotion keeps all it needs to be decided.
THEOREM MarkedAlwaysKeepsOwnership == Spec => []MarkedKeepsOwnership
<1>1. IndInv => MarkedKeepsOwnership
  BY DEF IndInv, MarkedKeepsOwnership, MarkedIsOwner, Fenced
<1> QED BY <1>1, Inductive, PTL

\* An attempt lives exactly as long as its lease.
THEOREM LeaseAlwaysMatchesAttempt == Spec => []LeaseMatchesAttempt
<1>1. IndInv => LeaseMatchesAttempt
  BY DEF IndInv, LeaseMatchesAttempt, LiveIsOwner, Fenced, Owner, Terminal
<1> QED BY <1>1, Inductive, PTL

\* A work is completed exactly by the one observed candidate of it.
THEOREM AlwaysCompletedOnce == Spec => []CompletedOnce
<1>1. IndInv => CompletedOnce
  BY DEF IndInv
<1> QED BY <1>1, Inductive, PTL

-----------------------------------------------------------------------------
(***************************************************************************)
(* Promotion implements AcceptedLine.  Under the mapping of Promotion!Line *)
(* the compare-and-swap publishes, Store.Observe accepts, Store.CancelWork *)
(* drops, and every other step of the code is a stuttering step.  The      *)
(* inductive invariant gives the guards the abstract steps demand.         *)
(***************************************************************************)
\* The abstract variables.
Done    == {w \in Works : work[w] = "COMPLETED"}
Dropped == {w \in Works : work[w] = "CANCELLED"}
Staged  == IF ref = checkout.accepted THEN None ELSE workOf[ref]

\* The three abstract variables in a state that no work left.
SameStage ==
    /\ ref' = ref
    /\ \A w \in Works : work'[w] = "CANCELLED" <=> work[w] = "CANCELLED"
    /\ \A a \in Attempts : promo[a] # "NONE" => workOf'[a] = workOf[a]

\* Only the swap moves the ref, only a cancellation drops a work.
LEMMA MovedOrSame ==
  ASSUME IndInv, TypeOK', Next
  PROVE  \/ UpdateRef
         \/ \E w \in Works : CancelWork(w)
         \/ SameStage
<1> USE TypeFacts, WorkMoves DEF IndInv, TypeOK, SameStage, Claimed
<1>1. CASE Wake
  BY <1>1 DEF Wake
<1>2. CASE RunGoal
  BY <1>2 DEF RunGoal
<1>3. CASE LeaveLoop
  BY <1>3 DEF LeaveLoop
<1>4. CASE NothingReady
  BY <1>4 DEF NothingReady, Refreshed
<1>5. ASSUME NEW w \in Works, Halt(w)
      PROVE  SameStage
  BY <1>5 DEF Halt, Refreshed
<1>6. ASSUME NEW w \in Works, NEW a \in Attempts, Claim(w, a)
      PROVE  SameStage
  BY <1>6 DEF Claim, Refreshed, Claimable, Idle, IsNextReady, IsNextAttempt
<1>7. CASE AgentWrites
  BY <1>7 DEF AgentWrites
<1>8. CASE Validate
  BY <1>8 DEF Validate
<1>9. CASE Submit
  BY <1>9 DEF Submit
<1>10. CASE AgentFails
  BY <1>10 DEF AgentFails
<1>11. CASE VerifyFirst
  BY <1>11 DEF VerifyFirst
<1>12. CASE EnsureEffect
  BY <1>12 DEF EnsureEffect
<1>13. CASE EnsurePromotion
  BY <1>13 DEF EnsurePromotion
<1>14. CASE Preflight
  BY <1>14 DEF Preflight
<1>15. CASE WriteMarker
  BY <1>15 DEF WriteMarker
<1>16. CASE RecordCommit
  BY <1>16 DEF RecordCommit
<1>17. CASE VerifySecond
  BY <1>17 DEF VerifySecond
<1>18. CASE RecordRefUpdate
  BY <1>18 DEF RecordRefUpdate
<1>19. CASE ReadBack
  BY <1>19 DEF ReadBack
<1>20. CASE Adopt
  BY <1>20 DEF Adopt, Accepting, CanAdopt, CanEnd
<1>21. CASE RefreshAfter
  BY <1>21 DEF RefreshAfter, Refreshed, Finish
<1>22. CASE FailPromotion
  BY <1>22 DEF FailPromotion, CanEnd
<1>23. CASE Classify
  BY <1>23 DEF Classify
<1>24. CASE OpenRecoveryGate
  BY <1>24 DEF OpenRecoveryGate
<1>25. CASE WaitForRecovery
  BY <1>25 DEF WaitForRecovery, Finish
<1>26. CASE FailAttempt
  BY <1>26 DEF FailAttempt, Surrendered, Finish
<1>27. ASSUME NEW safe \in BOOLEAN, Park(safe)
      PROVE  SameStage
  BY <1>27 DEF Park, Observed, Finish
<1>28. CASE AutomaticRetry
  BY <1>28 DEF AutomaticRetry, Observed, Finish, Idle
<1>29. CASE Interrupt
  BY <1>29 DEF Interrupt
<1>30. CASE Pause
  BY <1>30 DEF Pause
<1>31. CASE Resume
  BY <1>31 DEF Resume
<1>32. CASE CancelGoal
  BY <1>32 DEF CancelGoal
<1>33. ASSUME NEW w \in Works, Retry(w)
      PROVE  SameStage
  BY <1>33 DEF Retry, Retryable, Idle
<1>34. ASSUME NEW g \in gates, AllowGate(g)
      PROVE  SameStage
  BY <1>34 DEF AllowGate
<1>35. CASE AllowInvariantGate
  BY <1>35 DEF AllowInvariantGate
<1>36. ASSUME NEW t \in Trees, EditTree(t)
      PROVE  SameStage
  BY <1>36 DEF EditTree
<1>37. ASSUME NEW a \in Attempts, LeaseElapses(a)
      PROVE  SameStage
  BY <1>37 DEF LeaseElapses
<1>38. CASE Crash
  BY <1>38 DEF Crash
<1>39. CASE Restart
  BY <1>39 DEF Restart, Abandoned
<1> HIDE DEF SameStage
<1> QED
  BY <1>1, <1>2, <1>3, <1>4, <1>5, <1>6, <1>7, <1>8, <1>9, <1>10, <1>11, <1>12,
     <1>13, <1>14, <1>15, <1>16, <1>17, <1>18, <1>19, <1>20, <1>21, <1>22,
     <1>23, <1>24, <1>25, <1>26, <1>27, <1>28, <1>29, <1>30, <1>31, <1>32,
     <1>33, <1>34, <1>35, <1>36, <1>37, <1>38, <1>39
  DEF Next, Engine, Operator, Environment, RunLoop, Promote, HandleError

\* A staged work is the work of the pending candidate the ref is at.
LEMMA StagedIsPending ==
  ASSUME IndInv, ref # checkout.accepted
  PROVE  ref \in Attempts /\ Pending(ref) /\ workOf[ref] \in Works
<1>1. PICK a \in Attempts : Pending(a)
  BY DEF IndInv, RefAgrees, AnyPending
<1>2. ref = a
  BY <1>1 DEF IndInv, RefAgrees
<1> QED
  BY <1>1, <1>2 DEF IndInv, Claimed, Pending

\* The swap publishes the work of the candidate.
LEMMA SwapPublishes ==
  ASSUME IndInv, IndInv', UpdateRef
  PROVE  Line!Next \/ UNCHANGED Line!line
<1>1. CASE ref' = ref
  BY <1>1 DEF UpdateRef, Line!line
<1>2. CASE ref' # ref
  <2> DEFINE w == workOf[cur]
  <2>1. /\ cur \in Attempts /\ promo[cur] = "COMMIT_CREATED" /\ cur \in marker
        /\ ref = parent[cur] /\ ref' = cur /\ attempt[cur] # "NONE"
        /\ UNCHANGED <<work, workOf, checkout>>
    BY <1>2 DEF UpdateRef, IndInv, EngineOwns, AtStep, Busy
  <2>2. Pending(cur) /\ Owner(cur)
    BY <2>1 DEF Pending, IndInv, MarkedIsOwner
  <2>3. w \in Works /\ work[w] = "VERIFYING" /\ DepsDone(w)
    BY <2>1, <2>2 DEF IndInv, Fenced, Claimed, Pending
  <2>4. ref = checkout.accepted /\ cur # checkout.accepted
    BY <2>1, <2>2, ParentDiffers DEF IndInv, RefAgrees
  <2>5. Line!Needs(w) \subseteq Done
    <3>1. SUFFICES ASSUME NEW d \in Deps, d[2] = w PROVE d[1] \in Done
      BY DEF Line!Needs
    <3>2. d \in Works \X Works
      BY ParametersAssumption DEF ParametersAssumption
    <3>3. d[1] \in Works /\ <<d[1], w>> \in Deps
      BY <3>1, <3>2
    <3> QED BY <2>3, <3>3 DEF Done, DepsDone
  <2>6. Line!Publish(w)
    BY <2>1, <2>3, <2>4, <2>5 DEF Line!Publish, Done
  <2> QED BY <2>3, <2>6 DEF Line!Next
<1> QED BY <1>1, <1>2

\* The observation accepts the work whose candidate is on the ref.
LEMMA AdoptionAccepts ==
  ASSUME IndInv, IndInv', Adopt, CanAdopt(cur)
  PROVE  Line!Next
<1>1. /\ cur \in Attempts /\ promo[cur] = "REF_UPDATED" /\ attempt[cur] # "NONE"
      /\ parent[cur] = checkout.accepted
  BY DEF Adopt, CanAdopt, IndInv, EngineOwns, Busy
<1>2. Pending(cur) /\ ref = cur /\ workOf[cur] \in Works
  BY <1>1 DEF Pending, IndInv, WriteAhead, Claimed
<1>3. ref # checkout.accepted
  BY <1>1, <1>2, ParentDiffers
<1>4. /\ work' = [work EXCEPT ![workOf[cur]] = "COMPLETED"]
      /\ checkout'.accepted = cur /\ UNCHANGED <<ref, workOf>>
  BY DEF Adopt, Accepting
<1>5. work[workOf[cur]] = "VERIFYING"
  BY <1>2, TypeFacts, WorkMoves DEF CanAdopt, CanEnd, IndInv, TypeOK
<1>6. Done' = Done \cup {workOf[cur]} /\ Dropped' = Dropped
  BY <1>2, <1>4, <1>5 DEF Done, Dropped, IndInv, TypeOK
<1>7. Staged = workOf[cur] /\ Staged' = None
  BY <1>2, <1>3, <1>4 DEF Staged
<1>8. None \notin Works
  BY ParametersAssumption DEF ParametersAssumption
<1> QED
  BY <1>2, <1>6, <1>7, <1>8 DEF Line!Next, Line!Accept, Done, Dropped, Staged

\* A cancelled work was neither accepted nor on the ref.
LEMMA CancellationDrops ==
  ASSUME IndInv, IndInv', NEW w \in Works, CancelWork(w)
  PROVE  Line!Next
<1>1. /\ work[w] \notin {"COMPLETED", "CANCELLED"}
      /\ work' = [work EXCEPT ![w] = "CANCELLED"]
      /\ UNCHANGED <<ref, workOf, checkout>>
      /\ \A a \in Attempts : workOf[a] = w => ~Pending(a)
  BY TypeFacts, WorkMoves DEF CancelWork, IndInv, TypeOK
<1>2. Done' = Done /\ Dropped' = Dropped \cup {w} /\ Staged' = Staged
  BY <1>1 DEF Done, Dropped, Staged, IndInv, TypeOK
<1>3. w \notin Done \cup {Staged}
  BY <1>1, StagedIsPending, ParametersAssumption
  DEF Done, Staged, ParametersAssumption
<1> QED
  BY <1>2, <1>3 DEF Line!Next, Line!Drop, Done, Dropped, Staged

\* No other step is visible on the accepted line.
LEMMA OthersStutter ==
  ASSUME IndInv, SameLine, SameStage
  PROVE  UNCHANGED Line!line
<1>1. Done' = Done /\ Dropped' = Dropped
  BY DEF SameLine, SameStage, Done, Dropped
<1>2. Staged' = Staged
  <2>1. CASE ref = checkout.accepted
    BY <2>1 DEF SameLine, SameStage, Staged
  <2>2. CASE ref # checkout.accepted
    <3>1. workOf'[ref] = workOf[ref]
      BY <2>2, StagedIsPending DEF SameStage, Pending
    <3> QED BY <2>2, <3>1 DEF SameLine, SameStage, Staged
  <2> QED BY <2>1, <2>2
<1> QED BY <1>1, <1>2 DEF Line!line, Done, Dropped, Staged

\* Every step maps to an abstract step or to a stuttering one.
LEMMA StepRefines ==
  ASSUME IndInv, IndInv', [Next]_vars
  PROVE  [Line!Next]_(Line!line)
<1>1. CASE UNCHANGED vars
  BY <1>1 DEF Line!line
<1>2. CASE Next
  <2>1. TypeOK'
    BY DEF IndInv
  <2>2. CASE UpdateRef
    BY <2>2, SwapPublishes
  <2>3. CASE Adopt /\ CanAdopt(cur)
    BY <2>3, AdoptionAccepts
  <2>4. CASE \E w \in Works : CancelWork(w)
    BY <2>4, CancellationDrops
  <2>5. CASE SameLine /\ SameStage
    BY <2>5, OthersStutter
  <2>6. (Adopt /\ CanAdopt(cur)) \/ SameLine
    BY <1>2, <2>1, AdoptedOrSame
  <2>7. UpdateRef \/ (\E w \in Works : CancelWork(w)) \/ SameStage
    BY <1>2, <2>1, MovedOrSame
  <2> QED BY <2>2, <2>3, <2>4, <2>5, <2>6, <2>7
<1> QED BY <1>1, <1>2

\* The first states map to the abstract first state.
LEMMA InitRefines == Init => Line!Init
  BY DEF Init, Line!Init

\* The promotion protocol implements the promise of the accepted line: works
\* are published one at a time on top of all they depend on, what is published
\* is accepted and never taken back, and a dropped work is never published.
THEOREM Refines == Spec => KeepsAcceptedLine
  BY InitRefines, Inductive, StepRefines, PTL
  DEF Spec, KeepsAcceptedLine, Line!Spec
=============================================================================
