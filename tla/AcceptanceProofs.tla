-------------------------- MODULE AcceptanceProofs --------------------------
(***************************************************************************)
(* Proofs about Acceptance, for any number of calls, trees, crashes and    *)
(* steps of the operator, and whether or not a replay is declared safe:    *)
(* sessions never overlap, the goal is completed only on the answer of the *)
(* latest of them, an answer stands once it was observed, and no session   *)
(* is repeated without what authorizes it.                                 *)
(*                                                                         *)
(* The first three rest on one fact that no property of a run states:      *)
(* while the engine is between the beginning and the observation of a      *)
(* call, that call is the latest and is not decided (Calling).  The last   *)
(* rests on what the engine's packet for a new call names (Sought).        *)
(***************************************************************************)
EXTENDS Acceptance, SequenceTheorems, FiniteSetTheorems, TLAPS

Calling ==
    pc \in {"start", "session", "observe"} =>
        Latest # 0 /\ calls[Latest].state \notin Terminal

IndInv == TypeOK /\ OneSession /\ Calling /\ CompletedOnCurrentClaim

\* Two versions of a call differ in no more than the goal's version they name.
Alike(c, d) ==
    /\ d.tree = c.tree /\ d.state = c.state /\ d.claim = c.claim
    /\ d.failure = c.failure /\ d.stopped = c.stopped
    /\ d.historical = c.historical /\ d.process = c.process /\ d.by = c.by

\* The calls after a step that does nothing to them but make versions stale.
Rebound(cs, ds) ==
    /\ ds \in Seq(Calls) /\ Len(ds) = Len(cs)
    /\ \A i \in 1..Len(cs) : Alike(cs[i], ds[i])

\* What an observation of call i leaves of the calls: the first claim and an
\* outcome, which is terminal only once the process is known to have stopped.
Answered(cs, ds, i) ==
    /\ ds \in Seq(Calls) /\ Len(ds) = Len(cs)
    /\ \A j \in 1..Len(cs) : j # i => Alike(cs[j], ds[j])
    /\ ds[i].process = cs[i].process
    /\ ds[i].tree = cs[i].tree /\ ds[i].by = cs[i].by
    /\ cs[i].claim # "none" => /\ ds[i].claim = cs[i].claim
                               /\ ds[i].failure = cs[i].failure
    /\ Live(cs[i]) => ds[i].state = "RECOVERING"
-----------------------------------------------------------------------------
\* The tables and sets of names the steps use.
LEMMA Moves ==
  /\ DOMAIN GoalTransitions = {"DRAFT", "READY", "RUNNING", "WAITING",
                               "VERIFYING", "COMPLETED", "CANCELLED"}
  /\ DOMAIN EffectTransitions = {"REQUESTED", "EXECUTING", "OBSERVING",
                                 "RECOVERING", "SUCCEEDED", "FAILED"}
  /\ \A s : ~CanMove(GoalTransitions, "COMPLETED", s)
  /\ \A s \in DOMAIN GoalTransitions :
        CanMove(GoalTransitions, s, "COMPLETED") => s = "VERIFYING"
  BY DEF GoalTransitions, EffectTransitions, CanMove

\* The bounds are numbers, of trees at least one.
LEMMA Bounds ==
  /\ MaxCalls \in Nat /\ MaxTrees \in Nat \ {0}
  /\ MaxCrashes \in Nat /\ MaxSteers \in Nat
  /\ {"RUNNING", "WAITING", "VERIFYING", "COMPLETED", "CANCELLED"}
       \subseteq DOMAIN GoalTransitions
  BY AcceptanceAssumption, Moves

\* The sealed trees are among the accepted ones, and stay so.
LEMMA Trees ==
  ASSUME NEW t \in Nat \ {0}, NEW S \in SUBSET (1..t)
  PROVE  S \cup {t} \subseteq 1..t /\ S \subseteq 1..(t + 1)
  OBVIOUS

\* A sequence of calls is a function on the numbers of the calls.
LEMMA Shape ==
  ASSUME NEW cs \in Seq(Calls)
  PROVE  /\ Len(cs) \in Nat /\ DOMAIN cs = 1..Len(cs)
         /\ \A i \in 1..Len(cs) : cs[i] \in Calls
  BY LenProperties, ElementOfSeq

\* A function from numbers to calls is a sequence of them.
LEMMA CallsOfFunction ==
  ASSUME NEW n \in Nat, NEW f \in [1..n -> Calls]
  PROVE  f \in Seq(Calls) /\ Len(f) = n
  <1>1. f \in Seq(Calls)
    BY SeqDef
  <1>2. DOMAIN f = 1..n /\ DOMAIN f = 1..Len(f) /\ Len(f) \in Nat
    BY <1>1, LenProperties
  <1> QED BY <1>1, <1>2

\* A new version of the goal touches nothing else of a call.
LEMMA UnboundRebound ==
  ASSUME NEW cs \in Seq(Calls)
  PROVE  Rebound(cs, Unbound(cs))
  <1> DEFINE U == Unbound(cs)
  <1>1. \A i \in 1..Len(cs) : U[i] = [cs[i] EXCEPT !.bound = FALSE]
    BY Shape DEF Unbound
  <1>2. \A i \in 1..Len(cs) : U[i] \in Calls /\ Alike(cs[i], U[i])
    <2> SUFFICES ASSUME NEW i \in 1..Len(cs) PROVE U[i] \in Calls /\ Alike(cs[i], U[i])
      OBVIOUS
    <2>1. cs[i] \in Calls /\ U[i] = [cs[i] EXCEPT !.bound = FALSE]
      BY <1>1, Shape
    <2> HIDE DEF U
    <2>2. U[i] \in Calls
      BY <2>1, Zenon DEF Calls
    <2>3. Alike(cs[i], U[i])
      BY <2>1 DEF Calls, Alike
    <2> QED BY <2>2, <2>3
  <1>3. U \in [1..Len(cs) -> Calls]
    BY <1>2, Shape DEF Unbound
  <1> HIDE DEF U
  <1>4. U \in Seq(Calls) /\ Len(U) = Len(cs)
    BY <1>3, Shape, CallsOfFunction
  <1> QED BY <1>2, <1>4 DEF Rebound, U

\* What may be observed.
Outcomes == [claim : {"none", "done", "blocked"}, stopped : BOOLEAN,
             failure : {"none", "interrupted", "provider"}]

\* An observation is a call again, which keeps the first claim.
LEMMA ObservedCall ==
  ASSUME TypeOK, NEW i \in 1..Latest, NEW o \in Outcomes
  PROVE  /\ Observed(i, o) \in Calls
         /\ Observed(i, o).process = calls[i].process
         /\ Observed(i, o).tree = calls[i].tree /\ Observed(i, o).by = calls[i].by
         /\ calls[i].claim # "none" =>
              /\ Observed(i, o).claim = calls[i].claim
              /\ Observed(i, o).failure = calls[i].failure
         /\ Live(calls[i]) => Observed(i, o).state = "RECOVERING"
  <1> DEFINE c == calls[i]
  <1>1. c \in Calls
    BY Shape DEF TypeOK, Latest
  <1>2. Kept(c, o).claim \in {"none", "done", "blocked"}
        /\ Kept(c, o).failure \in {"none", "interrupted", "provider"}
        /\ (c.claim # "none" => Kept(c, o) = c)
    BY <1>1 DEF Kept, Outcomes, Calls
  <1>3. ConfirmedStopped(c, o) \in BOOLEAN /\ (Live(c) => ~ConfirmedStopped(c, o))
    BY <1>1 DEF ConfirmedStopped, Outcomes, Calls, Live
  <1>4. Valid(i) \in BOOLEAN
    BY <1>1 DEF Valid, Binding, Calls
  <1> DEFINE st == IF ~ConfirmedStopped(c, o) THEN "RECOVERING"
                   ELSE IF Kept(c, o).claim # "none" /\ Kept(c, o).failure = "none"
                     THEN "SUCCEEDED" ELSE "FAILED"
  <1>5. st \in DOMAIN EffectTransitions /\ (Live(c) => st = "RECOVERING")
    BY <1>3, Moves
  <1>6. Observed(i, o) = [c EXCEPT !.claim = Kept(c, o).claim,
                            !.failure = Kept(c, o).failure,
                            !.stopped = ConfirmedStopped(c, o),
                            !.historical = ~Valid(i), !.state = st]
    BY DEF Observed
  <1> HIDE DEF c, st
  <1>7. Observed(i, o) \in Calls
    BY <1>1, <1>2, <1>3, <1>4, <1>5, <1>6, Zenon DEF Calls
  <1>8. /\ Observed(i, o).process = c.process
        /\ Observed(i, o).tree = c.tree /\ Observed(i, o).by = c.by
        /\ Observed(i, o).claim = Kept(c, o).claim
        /\ Observed(i, o).failure = Kept(c, o).failure
        /\ Observed(i, o).state = st
    BY <1>1, <1>6 DEF Calls
  <1> QED BY <1>2, <1>5, <1>7, <1>8 DEF c

GateStates == {"none", "OPEN", "APPROVED", "SHUT", "USED"}

\* The part of a step that opens a gate or moves the goal.
Moved ==
    /\ gates' \in [1..MaxCalls -> GateStates] /\ current' \in BOOLEAN
    /\ goal' \in DOMAIN GoalTransitions
    /\ goal = "COMPLETED" <=> goal' = "COMPLETED"

\* Opening the gate about a call keeps the others.
LEMMA GatedGates ==
  ASSUME TypeOK, NEW i
  PROVE  Gated(i) \in [1..MaxCalls -> GateStates]
  BY DEF Gated, TypeOK, GateStates

\* A change of the goal's state.
LEMMA SetGoalEffect ==
  ASSUME TypeOK, NEW s \in DOMAIN GoalTransitions, NEW cs \in Seq(Calls), SetGoal(s, cs)
  PROVE  /\ goal' = s /\ goal # "COMPLETED" /\ current' = FALSE
         /\ s = "COMPLETED" => goal = "VERIFYING"
         /\ Rebound(cs, calls')
  BY UnboundRebound, Moves DEF SetGoal, TypeOK

\* Calls that are left alone are alike.
LEMMA SameRebound ==
  ASSUME TypeOK, UNCHANGED calls
  PROVE  Rebound(calls, calls')
  BY Shape DEF TypeOK, Rebound, Alike

\* One transaction of ObserveAcceptance.
LEMMA ObserveEffect ==
  ASSUME TypeOK, NEW i \in 1..Latest, NEW o \in Outcomes, NEW r \in BOOLEAN,
         ObserveAcceptance(i, o, r)
  PROVE  Answered(calls, calls', i) /\ Moved
  <1> DEFINE cs == [calls EXCEPT ![i] = Observed(i, o)]
  <1>1. calls \in Seq(Calls) /\ i \in 1..Len(calls) /\ Observed(i, o) \in Calls
    BY ObservedCall DEF TypeOK, Latest
  <1>2. /\ cs \in Seq(Calls) /\ Len(cs) = Len(calls)
        /\ \A j \in 1..Len(calls) : cs[j] = IF j = i THEN Observed(i, o) ELSE calls[j]
    BY <1>1, ExceptSeq
  <1> HIDE DEF cs
  <1>3. calls' = cs \/ Rebound(cs, calls')
    <2>1. CASE SetGoal("WAITING", cs)
      BY <1>2, <2>1, SetGoalEffect, Moves
    <2> QED BY <2>1 DEF ObserveAcceptance, cs
  <1>4. Answered(calls, calls', i)
    <2>1. calls' \in Seq(Calls) /\ Len(calls') = Len(calls)
          /\ \A j \in 1..Len(calls) : Alike(cs[j], calls'[j])
      BY <1>2, <1>3 DEF Rebound, Alike
    <2>2. \A j \in 1..Len(calls) : j # i => Alike(calls[j], calls'[j])
      BY <1>2, <2>1
    <2>3. Alike(Observed(i, o), calls'[i])
      BY <1>1, <1>2, <2>1
    <2> QED BY <2>1, <2>2, <2>3, ObservedCall DEF Answered, Alike
  <1>5. Moved
    <2>1. CASE SetGoal("WAITING", cs) /\ gates' = Gated(i)
      <3>1. goal' = "WAITING" /\ goal # "COMPLETED" /\ current' = FALSE
        BY <1>2, <2>1, SetGoalEffect, Moves
      <3> QED BY <2>1, <3>1, GatedGates, Moves DEF Moved
    <2>2. CASE UNCHANGED <<gates, goal, current>>
      BY <2>2 DEF Moved, TypeOK, GateStates
    <2> QED BY <2>1, <2>2 DEF ObserveAcceptance, cs
  <1> QED BY <1>4, <1>5

\* The recovery observes an undecided call, or nothing.
LEMMA RecoverEffect ==
  ASSUME TypeOK, RecoverAcceptance
  PROVE  /\ Moved
         /\ \/ Rebound(calls, calls')
            \/ \E i \in 1..Latest : /\ calls[i].state \notin Terminal
                                    /\ Answered(calls, calls', i)
  <1>1. DOMAIN calls = 1..Latest
    BY Shape DEF TypeOK, Latest
  <1>2. CASE UNCHANGED <<calls, gates, goal, current>>
    BY <1>2, SameRebound DEF Moved, TypeOK, GateStates
  <1>3. ASSUME NEW i \in DOMAIN calls, calls[i].state \notin Terminal,
               NEW f \in Found(calls[i]),
               ObserveAcceptance(i, [claim |-> f, stopped |-> TRUE,
                   failure |-> IF f = "none" THEN "interrupted" ELSE "none"], TRUE)
        PROVE  Moved /\ Answered(calls, calls', i)
    <2> DEFINE o == [claim |-> f, stopped |-> TRUE,
                     failure |-> IF f = "none" THEN "interrupted" ELSE "none"]
    <2>1. o \in Outcomes
      BY <1>3 DEF Found, Outcomes
    <2> HIDE DEF o
    <2>2. ObserveAcceptance(i, o, TRUE)
      BY <1>3 DEF o
    <2> QED BY <1>1, <2>1, <2>2, ObserveEffect
  <1> QED BY <1>1, <1>2, <1>3 DEF RecoverAcceptance

\* RequireAcceptanceReplay decides nothing about the calls.
LEMMA ReplayEffect ==
  ASSUME TypeOK, NEW i, NEW next, NEW waiting, RequireAcceptanceReplay(i, next, waiting)
  PROVE  Moved /\ Rebound(calls, calls') /\ pc' \in {next, waiting, "stop"}
  <1>1. CASE UNCHANGED <<calls, gates, goal, current>>
    BY <1>1, SameRebound DEF Moved, TypeOK, GateStates, RequireAcceptanceReplay
  <1>2. CASE gates' = Gated(i) /\ SetGoal("WAITING", calls)
    <2>1. /\ goal' = "WAITING" /\ goal # "COMPLETED" /\ current' = FALSE
          /\ Rebound(calls, calls')
      BY <1>2, SetGoalEffect, Moves DEF TypeOK
    <2> QED BY <1>2, <2>1, GatedGates, Moves DEF Moved, RequireAcceptanceReplay
  <1> QED BY <1>1, <1>2 DEF RequireAcceptanceReplay

-----------------------------------------------------------------------------
\* The steps that neither begin, observe nor confirm the end of a call.
Bystander ==
    \/ CompleteWork \/ BeginVerifying \/ NothingToVerify \/ AcceptanceReady
    \/ CannotBegin \/ ValidateFinal \/ CompleteGoal \/ OperatorCompletes
    \/ RequireAnswer \/ OpenInvariantGate \/ HoldGoal
    \/ SteerGoal \/ Replan \/ AllowStops \/ ResumeAcceptanceGate \/ Crash
    \/ \E i \in DOMAIN calls : DecideGate(i) \/ GateExpires(i)

\* The accepted line and the sealed trees grow within the bound.
LEMMA Grown ==
  ASSUME TypeOK, CompleteWork \/ ValidateFinal
  PROVE  tree' \in 1..MaxTrees /\ todo' \in BOOLEAN /\ sealed' \subseteq 1..tree'
  <1>1. tree \in Nat \ {0} /\ tree <= MaxTrees /\ sealed \in SUBSET (1..tree)
    BY Bounds DEF TypeOK
  <1>2. sealed \cup {tree} \subseteq 1..tree /\ sealed \subseteq 1..(tree + 1)
    BY <1>1, Trees
  <1>3. CASE CompleteWork
    <2>1. tree' = tree + 1 /\ tree < MaxTrees /\ todo' = FALSE /\ sealed' = sealed
      BY <1>3 DEF CompleteWork
    <2>2. tree + 1 \in 1..MaxTrees
      BY <1>1, <2>1, Bounds
    <2> QED BY <1>2, <2>1, <2>2
  <1>4. CASE ValidateFinal
    <2>1. tree' = tree /\ todo' = todo /\ (sealed' = sealed \/ sealed' = sealed \cup {tree})
      BY <1>4 DEF ValidateFinal
    <2> QED BY <1>1, <1>2, <2>1, Bounds DEF TypeOK
  <1> QED BY <1>3, <1>4

\* What AcceptanceReady asks for.
LEMMA Asking ==
  ASSUME TypeOK, AcceptanceReady
  PROVE  /\ request' \in [prior : 0..MaxCalls, decided : BOOLEAN]
         /\ pc' \in {"begin", "idle", "stop"}
  <1>1. Latest \in 0..MaxCalls /\ 0 \in 0..MaxCalls
    BY Bounds, Shape DEF TypeOK, Latest
  <1>2. /\ request' = NoRequest
           \/ request' = [prior |-> Latest, decided |-> gates[Latest] = "APPROVED"]
        /\ pc' \in {"begin", "idle", "stop"}
    BY DEF AcceptanceReady, RequireAcceptanceReplay
  <1>3. NoRequest \in [prior : 0..MaxCalls, decided : BOOLEAN]
    BY <1>1 DEF NoRequest
  <1>4. \A b \in BOOLEAN :
          [prior |-> Latest, decided |-> b] \in [prior : 0..MaxCalls, decided : BOOLEAN]
    BY <1>1, Zenon
  <1>5. (gates[Latest] = "APPROVED") \in BOOLEAN
    BY Zenon
  <1> QED BY <1>2, <1>3, <1>4, <1>5, Zenon

\* They leave the calls alone and complete the goal only on a verified answer.
LEMMA BystanderStep ==
  ASSUME TypeOK, Bystander
  PROVE  /\ Rebound(calls, calls') /\ TypeOK'
         /\ pc' = pc \/ pc' \notin {"start", "session", "observe"}
         /\ goal = "COMPLETED" => goal' = goal /\ tree' = tree
         /\ goal' = "COMPLETED" => goal' = goal \/ (MayComplete /\ tree' = tree)
  <1> DEFINE Goal ==
        /\ Rebound(calls, calls') /\ TypeOK'
        /\ pc' = pc \/ pc' \notin {"start", "session", "observe"}
        /\ goal = "COMPLETED" => goal' = goal /\ tree' = tree
        /\ goal' = "COMPLETED" => goal' = goal \/ (MayComplete /\ tree' = tree)
  <1> DEFINE Line ==
        tree' \in 1..MaxTrees /\ todo' \in BOOLEAN /\ sealed' \subseteq 1..tree'
  <1> DEFINE Held ==
        /\ goal' \in DOMAIN GoalTransitions /\ current' \in BOOLEAN
        /\ gates' \in [1..MaxCalls -> GateStates] /\ halted' \in BOOLEAN
  <1> DEFINE Asked ==
        request' \in [prior : 0..MaxCalls, decided : BOOLEAN]
  <1> DEFINE Counted ==
        crashes' \in 0..MaxCrashes /\ steers' \in 0..MaxSteers
  <1> DEFINE Step ==
        pc' \in {"idle", "run", "ready", "begin", "start", "session",
                 "observe", "validate", "complete", "require", "stop",
                 "hold", "down", "startup"}
  <1> DEFINE Rest == Line /\ Held /\ Asked /\ Counted /\ Step
  <1>0. Rebound(calls, calls') /\ Rest => TypeOK'
    BY DEF Rebound, TypeOK, Latest, GateStates
  <1>1. ASSUME CompleteWork PROVE Goal
    <2>1. Rebound(calls, calls')
      BY <1>1, SameRebound DEF CompleteWork
    <2>2. Rest
      <3>1. Line
        BY <1>1, Grown
      <3>2. Held
        BY <1>1, Bounds DEF CompleteWork, TypeOK, GateStates, other, NoRequest
      <3>3. Asked
        BY <1>1, Bounds DEF CompleteWork, TypeOK, GateStates, other, NoRequest
      <3>4. Counted
        BY <1>1, Bounds DEF CompleteWork, TypeOK, GateStates, other, NoRequest
      <3>5. Step
        BY <1>1, Bounds DEF CompleteWork, TypeOK, GateStates, other, NoRequest
      <3> QED BY <3>1, <3>2, <3>3, <3>4, <3>5
    <2> QED BY <1>1, <1>0, <2>1, <2>2, Moves DEF CompleteWork, other
  <1>2. ASSUME BeginVerifying PROVE Goal
    <2>1. Rebound(calls, calls')
      BY <1>2, SameRebound, UnboundRebound DEF BeginVerifying, TypeOK
    <2>2. Rest
      BY <1>2, Bounds DEF BeginVerifying, TypeOK, GateStates, other, NoRequest
    <2> QED BY <1>2, <1>0, <2>1, <2>2, Moves DEF BeginVerifying, other
  <1>3. ASSUME NothingToVerify PROVE Goal
    <2>1. Rebound(calls, calls')
      BY <1>3, SameRebound DEF NothingToVerify
    <2>2. Rest
      BY <1>3, Bounds DEF NothingToVerify, TypeOK, GateStates, other, NoRequest
    <2> QED BY <1>3, <1>0, <2>1, <2>2, Moves DEF NothingToVerify, other
  <1>4. ASSUME AcceptanceReady PROVE Goal
    <2>1. CASE UNCHANGED <<calls, gates, goal, current>>
      <3>1. Rebound(calls, calls')
        BY <2>1, SameRebound
      <3>2. Rest
        <4>1. Line
          BY <1>4, <2>1, Bounds
             DEF AcceptanceReady, TypeOK, GateStates, other, NoRequest
        <4>2. Held
          BY <1>4, <2>1, Bounds
             DEF AcceptanceReady, TypeOK, GateStates, other, NoRequest
        <4>3. Asked
          BY <1>4, Asking
        <4>4. Counted
          BY <1>4, <2>1, Bounds
             DEF AcceptanceReady, TypeOK, GateStates, other, NoRequest
        <4>5. Step
          BY <1>4, Asking
        <4> QED BY <4>1, <4>2, <4>3, <4>4, <4>5
      <3> QED BY <1>4, <1>0, <2>1, <3>1, <3>2, ReplayEffect
               DEF AcceptanceReady, other
    <2>2. CASE \E next, waiting : RequireAcceptanceReplay(Latest, next, waiting)
      <3>1. Moved /\ Rebound(calls, calls')
        BY <2>2, ReplayEffect
      <3>2. Rest
        <4>1. Line
          BY <1>4, <3>1, Bounds
             DEF AcceptanceReady, TypeOK, GateStates, other, NoRequest, Moved
        <4>2. Held
          BY <1>4, <3>1, Bounds
             DEF AcceptanceReady, TypeOK, GateStates, other, NoRequest, Moved
        <4>3. Asked
          BY <1>4, Asking
        <4>4. Counted
          BY <1>4, <3>1, Bounds
             DEF AcceptanceReady, TypeOK, GateStates, other, NoRequest, Moved
        <4>5. Step
          BY <1>4, Asking
        <4> QED BY <4>1, <4>2, <4>3, <4>4, <4>5
      <3>3. goal' # "COMPLETED" \/ goal' = goal
        BY <2>2, Moves DEF RequireAcceptanceReplay, SetGoal
      <3> QED BY <1>4, <1>0, <3>1, <3>2, <3>3, ReplayEffect
               DEF AcceptanceReady, other, Moved
    <2> QED BY <1>4, <2>1, <2>2 DEF AcceptanceReady
  <1>5. ASSUME CannotBegin PROVE Goal
    <2>1. Rebound(calls, calls')
      BY <1>5, SameRebound DEF CannotBegin
    <2>2. Rest
      <3>1. Line
        BY <1>5, Bounds DEF CannotBegin, TypeOK, GateStates, other, NoRequest
      <3>2. Held
        BY <1>5, Bounds DEF CannotBegin, TypeOK, GateStates, other, NoRequest
      <3>3. Asked
        BY <1>5, Bounds DEF CannotBegin, TypeOK, GateStates, other, NoRequest
      <3>4. Counted
        BY <1>5, Bounds DEF CannotBegin, TypeOK, GateStates, other, NoRequest
      <3>5. Step
        BY <1>5, Bounds DEF CannotBegin, TypeOK, GateStates, other, NoRequest
      <3> QED BY <3>1, <3>2, <3>3, <3>4, <3>5
    <2> QED BY <1>5, <1>0, <2>1, <2>2, Moves DEF CannotBegin, other
  <1>6. ASSUME ValidateFinal PROVE Goal
    <2>1. Rebound(calls, calls')
      BY <1>6, SameRebound DEF ValidateFinal
    <2>2. Rest
      <3>1. Line
        BY <1>6, Grown
      <3>2. Held
        BY <1>6, Bounds DEF ValidateFinal, TypeOK, GateStates, other, NoRequest
      <3>3. Asked
        BY <1>6, Bounds DEF ValidateFinal, TypeOK, GateStates, other, NoRequest
      <3>4. Counted
        BY <1>6, Bounds DEF ValidateFinal, TypeOK, GateStates, other, NoRequest
      <3>5. Step
        BY <1>6, Bounds DEF ValidateFinal, TypeOK, GateStates, other, NoRequest
      <3> QED BY <3>1, <3>2, <3>3, <3>4, <3>5
    <2> QED BY <1>6, <1>0, <2>1, <2>2, Moves DEF ValidateFinal, other
  <1>7. ASSUME CompleteGoal PROVE Goal
    <2>1. CASE SetGoal("COMPLETED", calls)
      <3>1. /\ goal' = "COMPLETED" /\ goal # "COMPLETED" /\ current' = FALSE
            /\ Rebound(calls, calls')
        BY <2>1, SetGoalEffect, Moves DEF TypeOK
      <3>2. Rest
        BY <1>7, <3>1, Bounds DEF CompleteGoal, TypeOK, GateStates, other, NoRequest
      <3> QED BY <1>7, <1>0, <3>1, <3>2, Moves DEF CompleteGoal, other, SetGoal
    <2>2. CASE UNCHANGED <<goal, calls, current>>
      <3>1. Rebound(calls, calls')
        BY <2>2, SameRebound
      <3>2. Rest
        BY <1>7, <2>2 DEF CompleteGoal, TypeOK, GateStates, other, NoRequest
      <3> QED BY <1>7, <1>0, <2>2, <3>1, <3>2 DEF CompleteGoal, other
    <2> QED BY <1>7, <2>1, <2>2 DEF CompleteGoal
  <1>8. ASSUME OperatorCompletes PROVE Goal
    <2>1. CASE SetGoal("COMPLETED", calls)
      <3>1. /\ goal' = "COMPLETED" /\ goal # "COMPLETED" /\ current' = FALSE
            /\ Rebound(calls, calls')
        BY <2>1, SetGoalEffect, Moves DEF TypeOK
      <3>2. Rest
        BY <1>8, <3>1, Bounds
           DEF OperatorCompletes, TypeOK, GateStates, other, NoRequest
      <3> QED BY <1>8, <1>0, <3>1, <3>2, Moves DEF OperatorCompletes, other, SetGoal
    <2>2. CASE UNCHANGED <<goal, calls, current>>
      <3>1. Rebound(calls, calls')
        BY <2>2, SameRebound
      <3>2. Rest
        BY <1>8, <2>2 DEF OperatorCompletes, TypeOK, GateStates, other, NoRequest
      <3> QED BY <1>8, <1>0, <2>2, <3>1, <3>2 DEF OperatorCompletes, other
    <2> QED BY <1>8, <2>1, <2>2 DEF OperatorCompletes
  <1>9. ASSUME RequireAnswer PROVE Goal
    <2>1. CASE UNCHANGED <<calls, gates, goal, current>>
      <3>1. Rebound(calls, calls')
        BY <2>1, SameRebound
      <3>2. Rest
        BY <1>9, <2>1, Bounds
           DEF RequireAnswer, TypeOK, GateStates, other, NoRequest,
               RequireAcceptanceReplay
      <3> QED BY <1>9, <1>0, <2>1, <3>1, <3>2, ReplayEffect DEF RequireAnswer, other
    <2>2. CASE \E next, waiting : RequireAcceptanceReplay(Latest, next, waiting)
      <3>1. Moved /\ Rebound(calls, calls')
        BY <2>2, ReplayEffect
      <3>2. Rest
        BY <1>9, <3>1, Bounds
           DEF RequireAnswer, TypeOK, GateStates, other, NoRequest, Moved,
               RequireAcceptanceReplay
      <3>3. goal' # "COMPLETED" \/ goal' = goal
        BY <2>2, Moves DEF RequireAcceptanceReplay, SetGoal
      <3> QED BY <1>9, <1>0, <3>1, <3>2, <3>3, ReplayEffect
               DEF RequireAnswer, other, Moved
    <2> QED BY <1>9, <2>1, <2>2 DEF RequireAnswer
  <1>10. ASSUME OpenInvariantGate PROVE Goal
    <2>1. Rebound(calls, calls')
      BY <1>10, SameRebound DEF OpenInvariantGate
    <2>2. Rest
      BY <1>10, Bounds DEF OpenInvariantGate, TypeOK, GateStates, other, NoRequest
    <2> QED BY <1>10, <1>0, <2>1, <2>2, Moves DEF OpenInvariantGate, other
  <1>11. ASSUME HoldGoal PROVE Goal
    <2>1. CASE SetGoal("WAITING", calls)
      <3>1. /\ goal' = "WAITING" /\ goal # "COMPLETED" /\ current' = FALSE
            /\ Rebound(calls, calls')
        BY <2>1, SetGoalEffect, Moves DEF TypeOK
      <3>2. Rest
        BY <1>11, <3>1, Bounds DEF HoldGoal, TypeOK, GateStates, other, NoRequest
      <3> QED BY <1>11, <1>0, <3>1, <3>2, Moves DEF HoldGoal, other, SetGoal
    <2>2. CASE UNCHANGED <<goal, calls, current>>
      <3>1. Rebound(calls, calls')
        BY <2>2, SameRebound
      <3>2. Rest
        BY <1>11, <2>2 DEF HoldGoal, TypeOK, GateStates, other, NoRequest
      <3> QED BY <1>11, <1>0, <2>2, <3>1, <3>2 DEF HoldGoal, other
    <2> QED BY <1>11, <2>1, <2>2 DEF HoldGoal
  <1>12. ASSUME SteerGoal PROVE Goal
    <2>1. PICK s \in {"WAITING", "RUNNING", "CANCELLED"} : SetGoal(s, calls)
      BY <1>12 DEF SteerGoal
    <2>2. /\ goal' = s /\ goal # "COMPLETED" /\ current' = FALSE
          /\ Rebound(calls, calls')
      BY <2>1, SetGoalEffect, Moves DEF TypeOK
    <2>3. Rest
      <3>1. Line
        BY <1>12, <2>2, Bounds DEF SteerGoal, TypeOK, GateStates, other, NoRequest
      <3>2. Held
        BY <1>12, <2>2, Bounds, Moves
           DEF SteerGoal, TypeOK, GateStates, other, NoRequest
      <3>3. Asked
        BY <1>12, <2>2, Bounds DEF SteerGoal, TypeOK, GateStates, other, NoRequest
      <3>4. Counted
        BY <1>12, <2>2, Bounds DEF SteerGoal, TypeOK, GateStates, other, NoRequest
      <3>5. Step
        BY <1>12, <2>2, Bounds DEF SteerGoal, TypeOK, GateStates, other, NoRequest
      <3> QED BY <3>1, <3>2, <3>3, <3>4, <3>5
    <2> QED BY <1>12, <1>0, <2>2, <2>3 DEF SteerGoal, other
  <1>13. ASSUME Replan PROVE Goal
    <2>1. Rebound(calls, calls')
      BY <1>13, SameRebound, UnboundRebound DEF Replan, TypeOK
    <2>2. Rest
      <3>1. Line
        BY <1>13, Bounds DEF Replan, TypeOK, GateStates, other, NoRequest
      <3>2. Held
        BY <1>13, Bounds DEF Replan, TypeOK, GateStates, other, NoRequest
      <3>3. Asked
        BY <1>13, Bounds DEF Replan, TypeOK, GateStates, other, NoRequest
      <3>4. Counted
        BY <1>13, Bounds DEF Replan, TypeOK, GateStates, other, NoRequest
      <3>5. Step
        BY <1>13, Bounds DEF Replan, TypeOK, GateStates, other, NoRequest
      <3> QED BY <3>1, <3>2, <3>3, <3>4, <3>5
    <2> QED BY <1>13, <1>0, <2>1, <2>2, Moves DEF Replan, other
  <1>14. ASSUME AllowStops PROVE Goal
    <2>1. Rebound(calls, calls')
      BY <1>14, SameRebound DEF AllowStops
    <2>2. Rest
      BY <1>14, Bounds DEF AllowStops, TypeOK, GateStates, other, NoRequest
    <2> QED BY <1>14, <1>0, <2>1, <2>2, Moves DEF AllowStops, other
  <1>15. ASSUME ResumeAcceptanceGate PROVE Goal
    <2>1. CASE SetGoal("RUNNING", calls)
      <3>1. /\ goal' = "RUNNING" /\ goal # "COMPLETED" /\ current' = FALSE
            /\ Rebound(calls, calls')
        BY <2>1, SetGoalEffect, Moves DEF TypeOK
      <3>2. Rest
        BY <1>15, <3>1, Bounds
           DEF ResumeAcceptanceGate, TypeOK, GateStates, other, NoRequest
      <3> QED BY <1>15, <1>0, <3>1, <3>2, Moves
               DEF ResumeAcceptanceGate, other, SetGoal
    <2>2. CASE UNCHANGED <<goal, calls, current>>
      <3>1. Rebound(calls, calls')
        BY <2>2, SameRebound
      <3>2. Rest
        BY <1>15, <2>2
           DEF ResumeAcceptanceGate, TypeOK, GateStates, other, NoRequest
      <3> QED BY <1>15, <1>0, <2>2, <3>1, <3>2 DEF ResumeAcceptanceGate, other
    <2> QED BY <1>15, <2>1, <2>2 DEF ResumeAcceptanceGate
  <1>16. ASSUME Crash PROVE Goal
    <2>1. Rebound(calls, calls')
      BY <1>16, SameRebound DEF Crash
    <2>2. Rest
      <3>1. Line
        BY <1>16, Bounds DEF Crash, TypeOK, GateStates, other, NoRequest
      <3>2. Held
        BY <1>16, Bounds DEF Crash, TypeOK, GateStates, other, NoRequest
      <3>3. Asked
        BY <1>16, Bounds DEF Crash, TypeOK, GateStates, other, NoRequest
      <3>4. Counted
        BY <1>16, Bounds DEF Crash, TypeOK, GateStates, other, NoRequest
      <3>5. Step
        BY <1>16, Bounds DEF Crash, TypeOK, GateStates, other, NoRequest
      <3> QED BY <3>1, <3>2, <3>3, <3>4, <3>5
    <2> QED BY <1>16, <1>0, <2>1, <2>2, Moves DEF Crash, other
  <1>17. ASSUME NEW i \in DOMAIN calls, DecideGate(i) \/ GateExpires(i) PROVE Goal
    <2>1. Rebound(calls, calls')
      BY <1>17, SameRebound DEF DecideGate, GateExpires
    <2>2. Rest
      BY <1>17 DEF DecideGate, GateExpires, TypeOK, GateStates, other, NoRequest
    <2> QED BY <1>17, <1>0, <2>1, <2>2 DEF DecideGate, GateExpires, other
  <1> HIDE DEF Goal
  <1>18. Goal
    BY <1>1, <1>2, <1>3, <1>4, <1>5, <1>6, <1>7, <1>8, <1>9, <1>10, <1>11,
        <1>12, <1>13, <1>14, <1>15, <1>16, <1>17
       DEF Bystander
  <1> QED BY <1>18 DEF Goal

-----------------------------------------------------------------------------
\* The calls after a step that leaves them alone.
LEMMA KeptCalls ==
  ASSUME TypeOK, IndInv, Rebound(calls, calls')
  PROVE  /\ Latest' = Latest /\ OneSession'
         /\ \A i \in 1..Latest : Alike(calls[i], calls'[i])
         /\ DOMAIN calls = 1..Latest /\ DOMAIN calls' = 1..Latest
  <1>1. /\ DOMAIN calls = 1..Latest /\ DOMAIN calls' = 1..Latest
        /\ Latest' = Latest /\ Latest \in Nat
        /\ \A i \in 1..Latest : Alike(calls[i], calls'[i])
    BY Shape DEF TypeOK, Latest, Rebound
  <1>2. OneSession'
    BY <1>1 DEF IndInv, OneSession, Alike, Live
  <1> QED BY <1>1, <1>2

\* An answer that stands: what ClaimStands says of one step.
Stands ==
    \A i \in DOMAIN calls :
        /\ calls[i].claim # "none" =>
             /\ calls'[i].claim = calls[i].claim
             /\ calls'[i].failure = calls[i].failure
        /\ calls[i].state \in Terminal => calls'[i].state = calls[i].state

LEMMA BystanderKeeps ==
  ASSUME IndInv, Bystander
  PROVE  IndInv' /\ Stands
  <1> USE DEF IndInv
  <1>1. /\ Rebound(calls, calls') /\ TypeOK'
        /\ pc' = pc \/ pc' \notin {"start", "session", "observe"}
        /\ goal = "COMPLETED" => goal' = goal /\ tree' = tree
        /\ goal' = "COMPLETED" => goal' = goal \/ (MayComplete /\ tree' = tree)
    BY BystanderStep
  <1>2. /\ Latest' = Latest /\ OneSession'
        /\ \A i \in 1..Latest : Alike(calls[i], calls'[i])
        /\ DOMAIN calls = 1..Latest
    BY <1>1, KeptCalls
  <1>3. Calling'
    BY <1>1, <1>2, Shape DEF Calling, Alike, TypeOK, Latest
  <1>4. CompletedOnCurrentClaim'
    <2>1. SUFFICES ASSUME goal' = "COMPLETED" PROVE CompletedOnCurrentClaim'
      BY DEF CompletedOnCurrentClaim
    <2>2. /\ Latest # 0 /\ Latest \in 1..Latest /\ calls[Latest].tree = tree
          /\ tree' = tree
          /\ calls[Latest].state = "SUCCEEDED" /\ Completed(calls[Latest])
          /\ ~calls[Latest].historical /\ ~Live(calls[Latest])
      <3>1. Latest \in Nat /\ (Latest # 0 => Latest \in 1..Latest)
        BY Shape DEF TypeOK, Latest
      <3>2. CASE goal = "COMPLETED"
        BY <1>1, <3>1, <3>2 DEF CompletedOnCurrentClaim
      <3>3. CASE MayComplete /\ tree' = tree
        BY <1>2, <3>1, <3>3
           DEF MayComplete, AcceptanceVerified, Binding, BindingState
      <3> QED BY <1>1, <2>1, <3>2, <3>3
    <2> QED BY <1>2, <2>2 DEF CompletedOnCurrentClaim, Alike, Completed, Live
  <1>5. Stands
    BY <1>2 DEF Stands, Alike
  <1> QED BY <1>1, <1>2, <1>3, <1>4, <1>5

\* An observation of the one open call, or none: Restart, RunGoal, RecordOutcome.
LEMMA AnswerKeeps ==
  ASSUME IndInv, TypeOK', NEW i \in 1..Latest,
         calls[i].state \notin Terminal, Answered(calls, calls', i),
         goal = "COMPLETED" <=> goal' = "COMPLETED",
         pc' \notin {"start", "session", "observe"}
  PROVE  IndInv' /\ Stands
  <1> USE DEF IndInv
  <1>1. /\ DOMAIN calls = 1..Latest /\ DOMAIN calls' = 1..Latest
        /\ Latest' = Latest /\ Latest \in Nat
    BY Shape DEF TypeOK, Latest, Answered
  <1>2. i = Latest
    BY <1>1 DEF OneSession
  <1>3. OneSession'
    <2>1. SUFFICES ASSUME NEW j \in 1..Latest
                   PROVE  /\ Live(calls'[j]) => j = Latest /\ calls'[j].state \notin Terminal
                          /\ j < Latest => calls'[j].state \in Terminal
      BY <1>1 DEF OneSession
    <2>2. CASE j # i
      BY <1>1, <1>2, <2>2 DEF OneSession, Answered, Alike, Live
    <2>3. CASE j = i
      <3>1. Live(calls'[i]) => Live(calls[i])
        BY DEF Answered, Live
      <3>2. Live(calls[i]) => calls'[i].state = "RECOVERING"
        BY DEF Answered
      <3> QED BY <1>1, <1>2, <2>3, <3>1, <3>2 DEF Terminal
    <2> QED BY <2>2, <2>3
  <1>4. goal' # "COMPLETED"
    BY <1>2 DEF CompletedOnCurrentClaim, Terminal
  <1>5. Stands
    <2> SUFFICES ASSUME NEW j \in 1..Latest
                 PROVE  /\ calls[j].claim # "none" =>
                             /\ calls'[j].claim = calls[j].claim
                             /\ calls'[j].failure = calls[j].failure
                        /\ calls[j].state \in Terminal => calls'[j].state = calls[j].state
      BY <1>1 DEF Stands
    <2>1. CASE j # i
      BY <1>1, <2>1 DEF Answered, Alike
    <2>2. CASE j = i
      BY <2>2 DEF Answered
    <2> QED BY <2>1, <2>2
  <1> QED BY <1>3, <1>4, <1>5 DEF Calling, CompletedOnCurrentClaim

\* The recovery of a run or of a start.
LEMMA RecoveryKeeps ==
  ASSUME IndInv, RunGoal \/ Restart
  PROVE  IndInv' /\ Stands
  <1> USE DEF IndInv
  <1>1. /\ RecoverAcceptance /\ UNCHANGED <<other, halted, request>>
        /\ pc' \in {"run", "idle"}
    BY DEF RunGoal, Restart
  <1>2. /\ Moved
        /\ \/ Rebound(calls, calls')
           \/ \E i \in 1..Latest : /\ calls[i].state \notin Terminal
                                   /\ Answered(calls, calls', i)
    BY <1>1, RecoverEffect
  <1>3. calls' \in Seq(Calls) /\ Latest' = Latest
    BY <1>2 DEF Rebound, Answered, Latest
  <1>4. TypeOK'
    BY <1>1, <1>2, <1>3 DEF TypeOK, Moved, other, GateStates
  <1>5. CASE Rebound(calls, calls')
    <2>1. /\ Latest' = Latest /\ OneSession'
          /\ \A i \in 1..Latest : Alike(calls[i], calls'[i])
          /\ DOMAIN calls = 1..Latest
      BY <1>5, KeptCalls
    <2>2. CompletedOnCurrentClaim'
      <3> SUFFICES ASSUME goal' = "COMPLETED" PROVE CompletedOnCurrentClaim'
        BY DEF CompletedOnCurrentClaim
      <3>1. goal = "COMPLETED" /\ tree' = tree /\ Latest \in 1..Latest
        BY <1>1, <1>2, Shape
           DEF Moved, other, CompletedOnCurrentClaim, TypeOK, Latest
      <3> QED BY <2>1, <3>1 DEF CompletedOnCurrentClaim, Alike, Completed, Live
    <2> QED BY <1>1, <1>4, <2>1, <2>2 DEF Calling, Stands, Alike
  <1>6. ASSUME NEW i \in 1..Latest, calls[i].state \notin Terminal,
               Answered(calls, calls', i)
        PROVE  IndInv' /\ Stands
    BY <1>1, <1>2, <1>4, <1>6, AnswerKeeps DEF Moved
  <1> QED BY <1>2, <1>5, <1>6

\* The outcome of a session is one observation of the latest call.
LEMMA OutcomeAnswers ==
  ASSUME IndInv, RecordOutcome
  PROVE  /\ Latest \in 1..Latest /\ calls[Latest].state \notin Terminal
         /\ Answered(calls, calls', Latest) /\ Moved
  <1> USE DEF IndInv
  <1>1. pc = "observe"
    BY DEF RecordOutcome
  <1>2. Latest \in 1..Latest /\ calls[Latest].state \notin Terminal
    BY <1>1, Shape DEF Calling, TypeOK, Latest
  <1>3. PICK f \in Found(calls[Latest]), failure \in {"none", "provider"} :
          ObserveAcceptance(Latest, [claim |-> f, stopped |-> ~Live(calls[Latest]),
                                     failure |-> failure], FALSE)
    BY DEF RecordOutcome
  <1> DEFINE o == [claim |-> f, stopped |-> ~Live(calls[Latest]), failure |-> failure]
  <1>4. o \in Outcomes
    <2>1. f \in {"none", "done", "blocked"}
      BY <1>3 DEF Found
    <2>2. (~Live(calls[Latest])) \in BOOLEAN
      BY DEF Live
    <2>3. failure \in {"none", "interrupted", "provider"}
      BY <1>3
    <2> QED BY <2>1, <2>2, <2>3, Zenon DEF Outcomes
  <1>5. ObserveAcceptance(Latest, o, FALSE)
    BY <1>3
  <1> HIDE DEF o
  <1>6. Answered(calls, calls', Latest) /\ Moved
    BY <1>2, <1>4, <1>5, ObserveEffect
  <1> QED BY <1>2, <1>6

\* The outcome of a session.
LEMMA OutcomeKeeps ==
  ASSUME IndInv, RecordOutcome
  PROVE  IndInv' /\ Stands
  <1> USE DEF IndInv
  <1>1. /\ pc = "observe" /\ UNCHANGED <<other, halted, request>>
        /\ pc' \in {"validate", "idle"}
    BY DEF RecordOutcome
  <1>2. /\ Latest \in 1..Latest /\ calls[Latest].state \notin Terminal
        /\ Answered(calls, calls', Latest) /\ Moved
    BY OutcomeAnswers
  <1>3. TypeOK'
    BY <1>1, <1>2 DEF TypeOK, Answered, Latest, Moved, other, GateStates
  <1> QED BY <1>1, <1>2, <1>3, AnswerKeeps DEF Moved

\* A new call is the latest, and the others keep all but their process.
LEMMA BeginShape ==
  ASSUME IndInv, BeginAcceptance
  PROVE  /\ calls' \in Seq(Calls) /\ Latest' = Latest + 1
         /\ DOMAIN calls' = 1..(Latest + 1) /\ calls'[Latest + 1] = NewCall
         /\ \A i \in 1..Latest : /\ calls'[i].process = "gone"
                                /\ calls'[i].state = calls[i].state
                                /\ calls'[i].claim = calls[i].claim
                                /\ calls'[i].failure = calls[i].failure
                                /\ calls'[i].tree = calls[i].tree
                                /\ calls'[i].by = calls[i].by
  <1> USE DEF IndInv
  <1>1. /\ DOMAIN calls = 1..Latest /\ Latest \in Nat /\ calls \in Seq(Calls)
        /\ \A i \in 1..Latest : calls[i] \in Calls
    BY Shape DEF TypeOK, Latest
  <1>2. NewCall \in Calls
    BY Moves DEF NewCall, Calls, TypeOK
  <1>3. Replaced \in Seq(Calls) /\ Len(Replaced) = Latest
    <2>1. \A i \in 1..Latest : Replaced[i] \in Calls
      <3> SUFFICES ASSUME NEW i \in 1..Latest PROVE Replaced[i] \in Calls
        OBVIOUS
      <3>1. Replaced[i] = [calls[i] EXCEPT !.historical = TRUE, !.bound = FALSE,
                                           !.process = "gone"]
        BY <1>1 DEF Replaced
      <3> QED BY <1>1, <3>1, Zenon DEF Calls
    <2>2. Replaced \in [1..Latest -> Calls]
      BY <1>1, <2>1 DEF Replaced
    <2> QED BY <1>1, <2>2, CallsOfFunction
  <1>4. /\ calls' \in Seq(Calls) /\ Latest' = Latest + 1
        /\ \A i \in 1..Latest : calls'[i] = Replaced[i]
        /\ calls'[Latest + 1] = NewCall
    BY <1>1, <1>2, <1>3, AppendProperties DEF BeginAcceptance, Latest
  <1>5. \A i \in 1..Latest : /\ calls'[i].process = "gone"
                             /\ calls'[i].state = calls[i].state
                             /\ calls'[i].claim = calls[i].claim
                             /\ calls'[i].failure = calls[i].failure
                             /\ calls'[i].tree = calls[i].tree
                             /\ calls'[i].by = calls[i].by
    <2> SUFFICES ASSUME NEW i \in 1..Latest
                 PROVE  /\ calls'[i].process = "gone"
                        /\ calls'[i].state = calls[i].state
                        /\ calls'[i].claim = calls[i].claim
                        /\ calls'[i].failure = calls[i].failure
                        /\ calls'[i].tree = calls[i].tree
                        /\ calls'[i].by = calls[i].by
      OBVIOUS
    <2>1. calls'[i] = [calls[i] EXCEPT !.historical = TRUE, !.bound = FALSE,
                                       !.process = "gone"]
      BY <1>1, <1>4 DEF Replaced
    <2>2. calls[i] \in Calls
      BY <1>1
    <2> QED BY <2>1, <2>2 DEF Calls
  <1>6. DOMAIN calls' = 1..(Latest + 1)
    BY <1>4, Shape DEF Latest
  <1> QED BY <1>4, <1>5, <1>6

\* A new call: every other one is decided and has stopped.
LEMMA BeginKeeps ==
  ASSUME IndInv, BeginAcceptance
  PROVE  IndInv' /\ Stands
  <1> USE DEF IndInv
  <1>1. /\ DOMAIN calls = 1..Latest /\ Latest \in Nat /\ calls \in Seq(Calls)
        /\ \A i \in 1..Latest : calls[i] \in Calls
    BY Shape DEF TypeOK, Latest
  <1>2. /\ calls' \in Seq(Calls) /\ Latest' = Latest + 1
        /\ calls'[Latest + 1] = NewCall
    BY BeginShape
  <1>3. \A i \in 1..Latest : /\ calls'[i].process = "gone"
                             /\ calls'[i].state = calls[i].state
                             /\ calls'[i].claim = calls[i].claim
                             /\ calls'[i].failure = calls[i].failure
    BY BeginShape
  <1>4. DOMAIN calls' = 1..(Latest + 1)
    BY BeginShape
  <1>5. \A i \in 1..Latest : calls[i].state \in Terminal
    BY <1>1 DEF BeginAcceptance, MayBegin
  <1>6. NewCall.state = "EXECUTING" /\ NewCall.process = "none"
    BY DEF NewCall
  <1>7. TypeOK'
    <2>1. gates' \in [1..MaxCalls -> GateStates]
      BY DEF BeginAcceptance, TypeOK, GateStates
    <2>2. Latest' \in 0..MaxCalls
      BY <1>1, <1>2, Bounds DEF BeginAcceptance
    <2>3. request' \in [prior : 0..MaxCalls, decided : BOOLEAN]
      BY Bounds DEF BeginAcceptance, NoRequest
    <2>4. /\ UNCHANGED <<goal, other, halted>> /\ current' = FALSE /\ pc' = "start"
      BY DEF BeginAcceptance
    <2>5. calls' \in Seq(Calls) /\ Latest' <= MaxCalls
      BY <1>2, <2>2
    <2> QED BY <2>1, <2>3, <2>4, <2>5 DEF TypeOK, other, GateStates
  <1>8. OneSession'
    BY <1>1, <1>2, <1>3, <1>4, <1>5, <1>6 DEF OneSession, Live, Terminal
  <1>9. Calling'
    BY <1>1, <1>2, <1>6 DEF Calling, Terminal
  <1>10. CompletedOnCurrentClaim'
    BY DEF BeginAcceptance, MayBegin, CompletedOnCurrentClaim
  <1>11. Stands
    BY <1>1, <1>3 DEF Stands
  <1> QED BY <1>7, <1>8, <1>9, <1>10, <1>11

\* The process of a call starts or ends: nothing else of the calls changes.
LEMMA ProcessStep ==
  ASSUME IndInv, StartWorker \/ EndSession \/ ConfirmProcesses
  PROVE  /\ calls' \in Seq(Calls) /\ Latest' = Latest
         /\ \A i \in 1..Latest :
              /\ calls'[i].tree = calls[i].tree /\ calls'[i].state = calls[i].state
              /\ calls'[i].claim = calls[i].claim
              /\ calls'[i].failure = calls[i].failure
              /\ calls'[i].stopped = calls[i].stopped
              /\ calls'[i].historical = calls[i].historical
              /\ calls'[i].by = calls[i].by
         /\ \A i \in 1..Latest :
              Live(calls'[i]) => Live(calls[i]) \/ (pc = "start" /\ i = Latest)
  <1> USE DEF IndInv
  <1> DEFINE Same(c, d) ==
        /\ d.tree = c.tree /\ d.state = c.state /\ d.claim = c.claim
        /\ d.failure = c.failure /\ d.stopped = c.stopped
        /\ d.historical = c.historical /\ d.by = c.by
  <1> DEFINE Goal ==
        /\ calls' \in Seq(Calls) /\ Latest' = Latest
        /\ \A i \in 1..Latest : Same(calls[i], calls'[i])
        /\ \A i \in 1..Latest : Live(calls'[i]) => Live(calls[i]) \/ (pc = "start" /\ i = Latest)
  <1>1. /\ DOMAIN calls = 1..Latest /\ Latest \in Nat /\ calls \in Seq(Calls)
        /\ \A i \in 1..Latest : calls[i] \in Calls
    BY Shape DEF TypeOK, Latest
  <1>2. ASSUME StartWorker \/ EndSession, NEW p \in {"none", "live", "gone"},
               calls' = [calls EXCEPT ![Latest].process = p],
               p = "live" => StartWorker
        PROVE  Goal
    <2>1. Latest \in 1..Latest /\ calls[Latest] \in Calls
      BY <1>1, <1>2 DEF Calling, StartWorker, EndSession
    <2>2. [calls[Latest] EXCEPT !.process = p] \in Calls
      BY <1>2, <2>1, Zenon DEF Calls
    <2>3. calls' = [calls EXCEPT ![Latest] = [calls[Latest] EXCEPT !.process = p]]
      BY <1>2
    <2>4. /\ calls' \in Seq(Calls) /\ Len(calls') = Latest
          /\ \A i \in 1..Latest : calls'[i] = IF i = Latest
               THEN [calls[Latest] EXCEPT !.process = p] ELSE calls[i]
      BY <1>1, <2>1, <2>2, <2>3, ExceptSeq DEF Latest
    <2> QED BY <1>1, <1>2, <2>1, <2>4 DEF Latest, Live, StartWorker, Calls
  <1>3. CASE UNCHANGED calls
    BY <1>1, <1>3 DEF Latest, Live
  <1>4. CASE ConfirmProcesses
    <2> DEFINE D(i) == [calls[i] EXCEPT !.process =
                          IF calls[i].process = "live" THEN "gone" ELSE calls[i].process]
    <2>1. \A i \in 1..Latest : calls'[i] = D(i)
      BY <1>1, <1>4 DEF ConfirmProcesses
    <2>2. \A i \in 1..Latest : D(i) \in Calls
      <3> SUFFICES ASSUME NEW i \in 1..Latest PROVE D(i) \in Calls
        OBVIOUS
      <3> DEFINE p == IF calls[i].process = "live" THEN "gone" ELSE calls[i].process
      <3>1. p \in {"none", "live", "gone"}
        BY <1>1 DEF Calls
      <3> HIDE DEF p
      <3>2. [calls[i] EXCEPT !.process = p] \in Calls
        BY <1>1, <3>1, Zenon DEF Calls
      <3> QED BY <3>2 DEF p
    <2>3. calls' \in [1..Latest -> Calls]
      BY <1>1, <1>4, <2>2 DEF ConfirmProcesses
    <2>4. calls' \in Seq(Calls) /\ Len(calls') = Latest
      BY <1>1, <2>3, CallsOfFunction
    <2> QED BY <1>1, <2>1, <2>4 DEF Latest, Live, Calls
  <1> QED BY <1>1, <1>2, <1>3, <1>4 DEF StartWorker, EndSession, Calls, Calling

\* The process of the latest call starts or ends, or all of them have ended.
LEMMA ProcessKeeps ==
  ASSUME IndInv, StartWorker \/ EndSession \/ ConfirmProcesses
  PROVE  IndInv' /\ Stands
  <1> USE DEF IndInv
  <1>1. /\ DOMAIN calls = 1..Latest /\ Latest \in Nat /\ calls \in Seq(Calls)
        /\ \A i \in 1..Latest : calls[i] \in Calls
    BY Shape DEF TypeOK, Latest
  <1>2. /\ calls' \in Seq(Calls) /\ Latest' = Latest
        /\ \A i \in 1..Latest :
             /\ calls'[i].tree = calls[i].tree /\ calls'[i].state = calls[i].state
             /\ calls'[i].claim = calls[i].claim
             /\ calls'[i].failure = calls[i].failure
             /\ calls'[i].stopped = calls[i].stopped
             /\ calls'[i].historical = calls[i].historical
        /\ \A i \in 1..Latest :
             Live(calls'[i]) => Live(calls[i]) \/ (pc = "start" /\ i = Latest)
    BY ProcessStep
  <1>3. DOMAIN calls' = 1..Latest
    BY <1>2, Shape DEF Latest
  <1>4. /\ UNCHANGED <<goal, gates, current, other, halted, request>>
        /\ pc' \in {"session", "observe", "startup"}
        /\ pc' # "startup" => pc \in {"start", "session"}
    BY DEF StartWorker, EndSession, ConfirmProcesses
  <1>5. pc' # "startup" => Latest # 0 /\ calls[Latest].state \notin Terminal
    BY <1>4 DEF Calling
  <1>6. TypeOK'
    BY <1>2, <1>4 DEF TypeOK, other
  <1>7. OneSession'
    BY <1>1, <1>2, <1>3, <1>4 DEF OneSession, Calling
  <1>8. Calling' /\ CompletedOnCurrentClaim'
    <2>1. pc' # "startup" => Latest' # 0 /\ calls'[Latest'].state \notin Terminal
      BY <1>1, <1>2, <1>5
    <2>2. goal = "COMPLETED" => pc # "start"
      BY DEF Calling, CompletedOnCurrentClaim, Terminal
    <2>3. CompletedOnCurrentClaim'
      BY <1>1, <1>2, <1>4, <2>2 DEF CompletedOnCurrentClaim, Completed, other
    <2> QED BY <1>4, <2>1, <2>3 DEF Calling
  <1>9. Stands
    BY <1>1, <1>2 DEF Stands
  <1> QED BY <1>6, <1>7, <1>8, <1>9

\* A step that changes nothing.
LEMMA StutterKeeps ==
  ASSUME IndInv, UNCHANGED vars
  PROVE  IndInv' /\ Stands
  BY DEF IndInv, vars, TypeOK, OneSession, Calling, CompletedOnCurrentClaim,
         Stands, Latest, Live, Completed

LEMMA NextKeeps ==
  ASSUME IndInv, [Next]_vars
  PROVE  IndInv' /\ Stands
  <1>1. CASE UNCHANGED vars
    BY <1>1, StutterKeeps
  <1>2. CASE Next
    <2>1. \/ Bystander \/ RunGoal \/ Restart \/ RecordOutcome \/ BeginAcceptance
          \/ StartWorker \/ EndSession \/ ConfirmProcesses
      BY <1>2 DEF Next, Engine, Bystander
    <2> QED BY <2>1, BystanderKeeps, RecoveryKeeps, OutcomeKeeps, BeginKeeps,
               ProcessKeeps
  <1> QED BY <1>1, <1>2

\* The inductive invariant holds of every execution.
THEOREM Inductive == Spec => []IndInv
  <1>1. Init => IndInv
    <2> SUFFICES ASSUME Init PROVE IndInv
      OBVIOUS
    <2>1. Len(calls) = 0 /\ calls \in Seq(Calls)
      BY EmptySeq DEF Init
    <2>2. DOMAIN calls = {}
      BY <2>1, Shape
    <2>3. request \in [prior : 0..MaxCalls, decided : BOOLEAN]
      BY Bounds DEF Init, NoRequest
    <2>4. Latest <= MaxCalls /\ gates \in [1..MaxCalls -> {"none", "OPEN", "APPROVED", "SHUT", "USED"}]
      BY <2>1, Bounds DEF Init, Latest
    <2>5. /\ tree \in 1..MaxTrees /\ sealed \subseteq 1..tree
          /\ crashes \in 0..MaxCrashes /\ steers \in 0..MaxSteers
      BY Bounds DEF Init
    <2>6. TypeOK
      BY <2>1, <2>3, <2>4, <2>5, Bounds DEF Init, TypeOK
    <2> QED BY <2>2, <2>6
             DEF Init, IndInv, OneSession, Calling, CompletedOnCurrentClaim
  <1>2. IndInv /\ [Next]_vars => IndInv'
    BY NextKeeps
  <1> QED BY <1>1, <1>2, PTL DEF Spec

\* The variables keep their types, whatever the bounds.
THEOREM TypesHold == Spec => []TypeOK
  BY Inductive, PTL DEF IndInv

\* Only the latest call can have a process that still acts on the world, and
\* its outcome stays open until the process is known to have stopped.
THEOREM OneSessionHolds == Spec => []OneSession
  BY Inductive, PTL DEF IndInv

\* A goal is completed only on the answer of the latest session, which was for
\* the accepted tree, by the engine or by goal.finalize.
THEOREM CompletedOnCurrentClaimHolds == Spec => []CompletedOnCurrentClaim
  BY Inductive, PTL DEF IndInv

\* The first answer of a session, and a decided outcome, are never replaced.
THEOREM ClaimStandsHolds == Spec => ClaimStands
  <1>1. IndInv /\ [Next]_vars =>
          [\A i \in DOMAIN calls :
             /\ calls[i].claim # "none" =>
                  /\ calls'[i].claim = calls[i].claim
                  /\ calls'[i].failure = calls[i].failure
             /\ calls[i].state \in Terminal => calls'[i].state = calls[i].state]_vars
    BY NextKeeps DEF Stands
  <1> QED BY <1>1, Inductive, PTL DEF Spec, ClaimStands
-----------------------------------------------------------------------------
\* The authorization of a repeated session.

\* Calls of a tree that repeat an interrupted one without a decision.
Recoveries(t) == {i \in DOMAIN calls : calls[i].by = "recovery" /\ calls[i].tree = t}

\* Every call after the first is paid for by what became of the one before.
Paid ==
    \A i \in DOMAIN calls : i + 1 \in DOMAIN calls =>
        LET c == calls[i + 1] IN
        /\ c.tree = calls[i].tree => c.by # "engine"
        /\ c.by = "human" <=> gates[i] = "USED"
        /\ c.by = "recovery" => /\ ReplaySafe /\ calls[i].claim = "none"
                                /\ calls[i].failure = "interrupted"
                                /\ calls[i].tree = c.tree

\* No decision about the latest call, or about one to come, is spent.
Unspent == \A i \in 1..MaxCalls : i >= Latest => gates[i] # "USED"

\* The packet of a call names the latest one, of the same tree, or none.
Sought ==
    pc = "begin" =>
        /\ request.prior = 0 => ~request.decided
        /\ request.prior # 0 => /\ request.prior = Latest
                                /\ calls[Latest].tree = tree

ReplayInv ==
    /\ Paid /\ Unspent /\ Sought
    /\ Latest # 0 => calls[1].by # "recovery"
    /\ \A t \in 1..MaxTrees : Cardinality(Recoveries(t)) <= RecoveryLimit

\* What every step but BeginAcceptance leaves of the calls and their gates.
Frame ==
    /\ calls' \in Seq(Calls) /\ Latest' = Latest
    /\ \A i \in 1..Latest : /\ calls'[i].by = calls[i].by
                            /\ calls'[i].tree = calls[i].tree
    /\ \A i \in 1..Latest : i < Latest => /\ calls'[i].claim = calls[i].claim
                                          /\ calls'[i].failure = calls[i].failure

Spent == \A i \in 1..MaxCalls : gates'[i] = "USED" <=> gates[i] = "USED"

\* A set of numbers of calls is finite.
LEMMA FewCalls ==
  ASSUME NEW n \in Nat, NEW S \in SUBSET (1..n)
  PROVE  IsFiniteSet(S) /\ Cardinality(S) \in Nat
  <1>1. IsFiniteSet(1..n)
    BY FS_Interval
  <1>2. IsFiniteSet(S)
    BY <1>1, FS_Subset
  <1> QED BY <1>2, FS_CardinalityType

\* Each number of S follows one of T: T has at least as many.
LEMMA Follow ==
  ASSUME NEW n \in Nat, NEW S \in SUBSET (1..(n + 1)), NEW T \in SUBSET (1..n),
         \A i \in S : i - 1 \in T
  PROVE  Cardinality(S) <= Cardinality(T)
  <1> DEFINE f == [i \in S |-> i - 1]
  <1>1. IsFiniteSet(T)
    BY FewCalls
  <1>2. f \in Injection(S, T)
    BY DEF Injection, IsInjective
  <1> HIDE DEF f
  <1> QED BY <1>1, <1>2, FS_Injection

\* A gate is opened, decided or expires: no decision is spent.
LEMMA GatesKeep ==
  ASSUME TypeOK, [Next]_vars, ~BeginAcceptance
  PROVE  Spent
  <1>1. \/ gates' = gates \/ \E i : gates' = Gated(i)
        \/ \E i \in 1..Latest, s \in {"APPROVED", "SHUT"} :
             gates[i] \in {"OPEN", "APPROVED"} /\ gates' = [gates EXCEPT ![i] = s]
    <2> DEFINE Goal ==
          \/ gates' = gates \/ \E i : gates' = Gated(i)
          \/ \E i \in 1..Latest, s \in {"APPROVED", "SHUT"} :
               gates[i] \in {"OPEN", "APPROVED"} /\ gates' = [gates EXCEPT ![i] = s]
    <2>0. DOMAIN calls = 1..Latest /\ Latest \in Nat
      BY Shape DEF TypeOK, Latest
    <2>1. ASSUME RecoverAcceptance PROVE Goal
      BY <2>0, <2>1 DEF RecoverAcceptance, ObserveAcceptance
    <2>2. ASSUME RecordOutcome PROVE Goal
      <3>1. \E o : ObserveAcceptance(Latest, o, FALSE)
        BY <2>2 DEF RecordOutcome
      <3> QED BY <3>1 DEF ObserveAcceptance
    <2>3. ASSUME AcceptanceReady \/ RequireAnswer PROVE Goal
      BY <2>0, <2>3 DEF AcceptanceReady, RequireAnswer, RequireAcceptanceReplay
    <2>4. ASSUME NEW i \in DOMAIN calls, DecideGate(i) \/ GateExpires(i) PROVE Goal
      BY <2>0, <2>4 DEF DecideGate, GateExpires
    <2>5. ASSUME \/ UNCHANGED vars \/ CompleteWork \/ BeginVerifying \/ NothingToVerify
                 \/ CannotBegin \/ StartWorker \/ EndSession \/ ValidateFinal
                 \/ CompleteGoal \/ OpenInvariantGate \/ HoldGoal \/ ConfirmProcesses
                 \/ OperatorCompletes \/ SteerGoal \/ Replan \/ AllowStops
                 \/ ResumeAcceptanceGate \/ Crash
          PROVE  gates' = gates
      BY <2>5 DEF vars, CompleteWork, BeginVerifying, NothingToVerify, CannotBegin,
           StartWorker, EndSession, ValidateFinal, CompleteGoal, OpenInvariantGate,
           HoldGoal, ConfirmProcesses, OperatorCompletes, SteerGoal, Replan,
           AllowStops, ResumeAcceptanceGate, Crash
    <2> QED BY <2>1, <2>2, <2>3, <2>4, <2>5 DEF Next, Engine, RunGoal, Restart
  <1> QED BY <1>1 DEF Spent, Gated, TypeOK

\* Only AcceptanceReady makes a packet.
LEMMA PacketKeeps ==
  ASSUME IndInv, Sought, [Next]_vars, ~BeginAcceptance, Frame
  PROVE  Sought'
  <1> SUFFICES ASSUME pc' = "begin" PROVE Sought'
    BY DEF Sought
  <1>1. Latest \in Nat /\ DOMAIN calls = 1..Latest
    BY Shape DEF IndInv, TypeOK, Latest
  <1>2. CASE AcceptanceReady
    <2>1. tree' = tree
      BY <1>2 DEF AcceptanceReady, other
    <2>2. CASE Latest = 0 \/ calls[Latest].tree # tree
      BY <1>2, <2>2 DEF AcceptanceReady, Sought, NoRequest
    <2>3. CASE ~(Latest = 0 \/ calls[Latest].tree # tree)
      <3>1. request'.prior = Latest
        BY <1>2, <2>3 DEF AcceptanceReady
      <3>2. Latest' = Latest /\ calls'[Latest].tree = calls[Latest].tree
        BY <1>1, <2>3 DEF Frame
      <3> QED BY <2>1, <2>3, <3>1, <3>2 DEF Sought
    <2> QED BY <2>2, <2>3
  <1>3. CASE ~AcceptanceReady
    <2>1. pc = "begin" /\ request' = request /\ tree' = tree
      <3>1. ASSUME NEW i \in DOMAIN calls, DecideGate(i) \/ GateExpires(i)
            PROVE  <2>1
        BY <3>1 DEF DecideGate, GateExpires, other
      <3>2. ~(RequireAnswer /\ pc' = "begin")
        BY DEF RequireAnswer, RequireAcceptanceReplay
      <3> QED BY <1>3, <3>1, <3>2
          DEF Next, Engine, vars, other, RunGoal, CompleteWork, BeginVerifying,
              NothingToVerify, CannotBegin, StartWorker, EndSession, RecordOutcome,
              ValidateFinal, CompleteGoal, OpenInvariantGate, HoldGoal,
              ConfirmProcesses, Restart, OperatorCompletes, SteerGoal, Replan,
              AllowStops, ResumeAcceptanceGate, Crash
    <2>2. Sought /\ Latest' = Latest
      BY DEF Frame
    <2>3. request.prior # 0 => calls'[Latest].tree = calls[Latest].tree
      BY <1>1, <2>1, <2>2 DEF Frame, Sought, IndInv, TypeOK
    <2> QED BY <2>1, <2>2, <2>3 DEF Sought
  <1> QED BY <1>2, <1>3

\* A step that is not BeginAcceptance pays for nothing and claims nothing paid.
LEMMA FrameKeeps ==
  ASSUME TypeOK, ReplayInv, Frame, Spent, Sought'
  PROVE  ReplayInv'
  <1>1. /\ DOMAIN calls = 1..Latest /\ DOMAIN calls' = 1..Latest
        /\ Latest \in Nat /\ Latest' = Latest /\ Latest <= MaxCalls
    BY Shape DEF TypeOK, Latest, Frame
  <1>2. Paid'
    <2> SUFFICES ASSUME NEW i \in 1..Latest, i + 1 \in 1..Latest
                 PROVE  /\ calls'[i + 1].tree = calls'[i].tree => calls'[i + 1].by # "engine"
                        /\ calls'[i + 1].by = "human" <=> gates'[i] = "USED"
                        /\ calls'[i + 1].by = "recovery" =>
                             /\ ReplaySafe /\ calls'[i].claim = "none"
                             /\ calls'[i].failure = "interrupted"
                             /\ calls'[i].tree = calls'[i + 1].tree
      BY <1>1 DEF Paid
    <2>1. i < Latest /\ i \in 1..MaxCalls
      BY <1>1, Bounds
    <2>2. /\ calls'[i + 1].by = calls[i + 1].by /\ calls'[i + 1].tree = calls[i + 1].tree
          /\ calls'[i].tree = calls[i].tree /\ calls'[i].claim = calls[i].claim
          /\ calls'[i].failure = calls[i].failure
      BY <2>1 DEF Frame
    <2>3. gates'[i] = "USED" <=> gates[i] = "USED"
      BY <2>1 DEF Spent
    <2>4. /\ calls[i + 1].tree = calls[i].tree => calls[i + 1].by # "engine"
          /\ calls[i + 1].by = "human" <=> gates[i] = "USED"
          /\ calls[i + 1].by = "recovery" =>
               /\ ReplaySafe /\ calls[i].claim = "none"
               /\ calls[i].failure = "interrupted" /\ calls[i].tree = calls[i + 1].tree
      BY <1>1 DEF ReplayInv, Paid
    <2> QED BY <2>2, <2>3, <2>4
  <1>3. Unspent'
    BY <1>1 DEF ReplayInv, Unspent, Spent
  <1>4. Latest' # 0 => calls'[1].by # "recovery"
    BY <1>1 DEF ReplayInv, Frame
  <1>5. \A t \in 1..MaxTrees : Recoveries(t)' = Recoveries(t)
    BY <1>1 DEF Recoveries, Frame
  <1>6. \A t \in 1..MaxTrees : Cardinality(Recoveries(t)') <= RecoveryLimit
    BY <1>5 DEF ReplayInv
  <1> QED BY <1>2, <1>3, <1>4, <1>6 DEF ReplayInv

\* An observation of the latest call changes no older one.
LEMMA AnswerFrame ==
  ASSUME TypeOK, Latest \in 1..Latest, Answered(calls, calls', Latest)
  PROVE  Frame
  <1>1. Latest \in Nat /\ Latest = Len(calls)
    BY Shape DEF TypeOK, Latest
  <1>2. calls' \in Seq(Calls) /\ Latest' = Latest
    BY <1>1 DEF Answered, Latest
  <1>3. \A i \in 1..Latest : i # Latest => Alike(calls[i], calls'[i])
    BY <1>1 DEF Answered
  <1>4. calls'[Latest].by = calls[Latest].by /\ calls'[Latest].tree = calls[Latest].tree
    BY DEF Answered
  <1> HIDE DEF Latest
  <1> QED BY <1>1, <1>2, <1>3, <1>4 DEF Frame, Alike

\* Every step but BeginAcceptance leaves who began the calls, and for what.
LEMMA StepFrame ==
  ASSUME IndInv, [Next]_vars, ~BeginAcceptance
  PROVE  Frame
  <1> USE DEF IndInv
  <1>1. /\ DOMAIN calls = 1..Latest /\ Latest \in Nat /\ calls \in Seq(Calls)
        /\ \A i \in 1..Latest : calls[i] \in Calls
    BY Shape DEF TypeOK, Latest
  <1>2. ASSUME Rebound(calls, calls') PROVE Frame
    BY <1>2 DEF Rebound, Alike, Frame, Latest
  <1>3. ASSUME NEW i \in 1..Latest, calls[i].state \notin Terminal,
               Answered(calls, calls', i)
        PROVE  Frame
    <2>1. i = Latest
      BY <1>1, <1>3 DEF OneSession
    <2> QED BY <1>3, <2>1, AnswerFrame
  <1>4. ASSUME RecoverAcceptance PROVE Frame
    BY <1>2, <1>3, <1>4, RecoverEffect
  <1>5. ASSUME RecordOutcome PROVE Frame
    BY <1>5, OutcomeAnswers, AnswerFrame
  <1>6. ASSUME StartWorker \/ EndSession \/ ConfirmProcesses PROVE Frame
    BY <1>6, ProcessStep DEF Frame
  <1>7. ASSUME Bystander PROVE Frame
    BY <1>2, <1>7, BystanderStep
  <1>8. ASSUME UNCHANGED vars PROVE Frame
    BY <1>1, <1>8 DEF Frame, vars, Latest
  <1>9. \/ Bystander \/ RecoverAcceptance \/ RecordOutcome \/ UNCHANGED vars
        \/ StartWorker \/ EndSession \/ ConfirmProcesses
    BY DEF Next, Engine, Bystander, RunGoal, Restart
  <1> QED BY <1>4, <1>5, <1>6, <1>7, <1>8, <1>9

\* A new call is authorized, and a replay without a decision is the next of at
\* most RecoveryLimit interrupted sessions.
LEMMA BeginPays ==
  ASSUME IndInv, ReplayInv, BeginAcceptance
  PROVE  ReplayInv'
  <1> USE DEF IndInv
  <1> DEFINE n == Latest
  <1>1. /\ DOMAIN calls = 1..n /\ n \in Nat /\ n < MaxCalls
        /\ \A i \in 1..n : calls[i] \in Calls
    BY Shape DEF TypeOK, Latest, BeginAcceptance
  <1>2. /\ DOMAIN calls' = 1..(n + 1) /\ Latest' = n + 1
        /\ calls'[n + 1] = NewCall
        /\ \A i \in 1..n : /\ calls'[i].by = calls[i].by /\ calls'[i].tree = calls[i].tree
                           /\ calls'[i].claim = calls[i].claim
                           /\ calls'[i].failure = calls[i].failure
    BY BeginShape
  <1>3. /\ request \in [prior : 0..MaxCalls, decided : BOOLEAN]
        /\ request.prior = 0 => ~request.decided
        /\ request.prior # 0 => request.prior = n /\ calls[n].tree = tree
    BY DEF BeginAcceptance, ReplayInv, Sought, TypeOK
  <1>4. /\ NewCall.tree = tree
        /\ NewCall.by = "engine" <=> request.prior = 0
        /\ NewCall.by = "human" <=> request.decided
        /\ NewCall.by = "recovery" <=> request.prior # 0 /\ ~request.decided
    BY <1>3 DEF NewCall
  <1>5. n # 0 /\ calls[n].tree = tree =>
          /\ request.prior = n
          /\ ~request.decided => ReplayAllowed(calls, n)
    BY DEF BeginAcceptance, MayBegin
  <1>6. /\ gates \in [1..MaxCalls -> GateStates] /\ n + 1 \in 1..MaxCalls
        /\ n # 0 => n \in 1..MaxCalls /\ n \in 1..n
        /\ gates' = IF request.decided THEN [gates EXCEPT ![n] = "USED"] ELSE gates
    BY <1>1, Bounds DEF BeginAcceptance, TypeOK, GateStates
  <1>7. \A i \in 1..MaxCalls : gates'[i] = "USED" <=> gates[i] = "USED" \/ (request.decided /\ i = n)
    BY <1>6
  <1> HIDE DEF n
  <1>8. Paid'
    <2> SUFFICES ASSUME NEW i \in 1..(n + 1), i + 1 \in 1..(n + 1)
                 PROVE  /\ calls'[i + 1].tree = calls'[i].tree => calls'[i + 1].by # "engine"
                        /\ calls'[i + 1].by = "human" <=> gates'[i] = "USED"
                        /\ calls'[i + 1].by = "recovery" =>
                             /\ ReplaySafe /\ calls'[i].claim = "none"
                             /\ calls'[i].failure = "interrupted"
                             /\ calls'[i].tree = calls'[i + 1].tree
      BY <1>2 DEF Paid
    <2>1. i \in 1..n /\ i \in 1..MaxCalls
      BY <1>1, Bounds
    <2>2. CASE i # n
      <3>1. i + 1 \in 1..n
        BY <1>1, <2>1, <2>2
      <3>2. /\ calls[i + 1].tree = calls[i].tree => calls[i + 1].by # "engine"
            /\ calls[i + 1].by = "human" <=> gates[i] = "USED"
            /\ calls[i + 1].by = "recovery" =>
                 /\ ReplaySafe /\ calls[i].claim = "none"
                 /\ calls[i].failure = "interrupted" /\ calls[i].tree = calls[i + 1].tree
        BY <1>1, <2>1, <3>1 DEF ReplayInv, Paid
      <3>3. gates'[i] = "USED" <=> gates[i] = "USED"
        BY <1>7, <2>1, <2>2
      <3> QED BY <1>2, <2>1, <3>1, <3>2, <3>3
    <2>3. CASE i = n
      <3>1. n # 0 /\ gates[n] # "USED"
        BY <1>1, <2>1, <2>3 DEF ReplayInv, Unspent, n
      <3>2. gates'[n] = "USED" <=> request.decided
        BY <1>7, <2>1, <2>3, <3>1
      <3>3. NewCall.tree = calls[n].tree => NewCall.by # "engine"
        BY <1>4, <1>5, <3>1
      <3>4. NewCall.by = "recovery" =>
              /\ ReplaySafe /\ calls[n].claim = "none"
              /\ calls[n].failure = "interrupted" /\ calls[n].tree = tree
        BY <1>3, <1>4, <1>5, <3>1 DEF ReplayAllowed
      <3> QED BY <1>2, <1>4, <2>1, <2>3, <3>2, <3>3, <3>4
    <2> QED BY <2>2, <2>3
  <1>9. Unspent'
    <2> SUFFICES ASSUME NEW i \in 1..MaxCalls, i >= n + 1 PROVE gates'[i] # "USED"
      BY <1>2 DEF Unspent
    <2>1. i >= n /\ i # n
      BY <1>1
    <2>2. gates[i] # "USED"
      BY <2>1 DEF ReplayInv, Unspent, n
    <2> QED BY <1>7, <2>1, <2>2
  <1>10. Sought'
    BY DEF BeginAcceptance, Sought
  <1>11. calls'[1].by # "recovery"
    <2>1. CASE n = 0
      BY <1>2, <1>3, <1>4, <2>1
    <2>2. CASE n # 0
      BY <1>1, <1>2, <2>2 DEF ReplayInv, n
    <2> QED BY <2>1, <2>2
  <1>12. \A t \in 1..MaxTrees : Cardinality(Recoveries(t)') <= RecoveryLimit
    <2> SUFFICES ASSUME NEW t \in 1..MaxTrees
                 PROVE  Cardinality(Recoveries(t)') <= RecoveryLimit
      OBVIOUS
    <2>1. CASE ~(NewCall.by = "recovery" /\ NewCall.tree = t)
      <3>1. Recoveries(t)' = Recoveries(t)
        BY <1>1, <1>2, <2>1 DEF Recoveries
      <3> QED BY <3>1 DEF ReplayInv
    <2>2. CASE NewCall.by = "recovery" /\ NewCall.tree = t
      <3> DEFINE S == Recoveries(t)'
                 T == {i \in 1..n : calls[i].tree = t /\ calls[i].failure = "interrupted"}
      <3>1. n # 0 /\ calls[n].tree = t /\ tree = t /\ ReplayAllowed(calls, n)
        BY <1>1, <1>3, <1>4, <1>5, <2>2 DEF TypeOK
      <3>2. Cardinality(T) <= RecoveryLimit
        BY <1>1, <3>1 DEF ReplayAllowed, Interruptions
      <3>3. S \in SUBSET (1..(n + 1)) /\ T \in SUBSET (1..n)
        BY <1>2 DEF Recoveries
      <3>4. \A i \in S : i - 1 \in T
        <4> SUFFICES ASSUME NEW i \in S PROVE i - 1 \in T
          OBVIOUS
        <4>1. i \in 1..(n + 1) /\ calls'[i].by = "recovery" /\ calls'[i].tree = t
          BY <1>2 DEF Recoveries
        <4>2. i # 1
          BY <1>11, <4>1
        <4>3. i - 1 \in 1..n /\ i - 1 \in DOMAIN calls' /\ (i - 1) + 1 \in DOMAIN calls'
              /\ (i - 1) + 1 = i
          BY <1>1, <1>2, <4>1, <4>2
        <4>4. calls'[i - 1].failure = "interrupted" /\ calls'[i - 1].tree = t
          BY <1>8, <4>1, <4>3 DEF Paid
        <4>5. calls[i - 1].failure = "interrupted" /\ calls[i - 1].tree = t
          BY <1>2, <4>3, <4>4
        <4> QED BY <4>3, <4>5
      <3>5. Cardinality(S) <= Cardinality(T)
        <4> HIDE DEF S, T
        <4> QED BY <1>1, <3>3, <3>4, Follow
      <3>6. Cardinality(S) \in Nat /\ Cardinality(T) \in Nat /\ RecoveryLimit \in Nat
        <4>1. n + 1 \in Nat /\ RecoveryLimit \in Nat
          BY <1>1, AcceptanceAssumption
        <4> HIDE DEF S, T
        <4> QED BY <1>1, <3>3, <4>1, FewCalls
      <3> HIDE DEF S, T
      <3> QED BY <3>2, <3>5, <3>6 DEF S
    <2> QED BY <2>1, <2>2
  <1> QED BY <1>2, <1>8, <1>9, <1>10, <1>11, <1>12 DEF ReplayInv

\* The authorization of the calls is an invariant beside the others.
LEMMA ReplayKept == Spec => []ReplayInv
  <1>1. Init => ReplayInv
    <2> SUFFICES ASSUME Init PROVE ReplayInv
      OBVIOUS
    <2>1. Len(calls) = 0 /\ calls \in Seq(Calls)
      BY EmptySeq DEF Init
    <2>2. DOMAIN calls = {} /\ Latest = 0
      BY <2>1, Shape DEF Latest
    <2>3. \A t \in 1..MaxTrees : Cardinality(Recoveries(t)) <= RecoveryLimit
      <3>1. \A t : Recoveries(t) = {}
        BY <2>2 DEF Recoveries
      <3>2. Cardinality({}) = 0 /\ RecoveryLimit \in Nat
        BY FS_EmptySet, AcceptanceAssumption
      <3> QED BY <3>1, <3>2
    <2>4. Paid /\ Unspent /\ Sought
      BY <2>2 DEF Init, Paid, Unspent, Sought
    <2> QED BY <2>2, <2>3, <2>4 DEF ReplayInv
  <1>2. IndInv /\ ReplayInv /\ [Next]_vars => ReplayInv'
    <2> SUFFICES ASSUME IndInv, ReplayInv, [Next]_vars PROVE ReplayInv'
      OBVIOUS
    <2>1. CASE BeginAcceptance
      BY <2>1, BeginPays
    <2>2. CASE ~BeginAcceptance
      <3>1. TypeOK /\ Sought
        BY DEF IndInv, ReplayInv
      <3>2. Frame /\ Spent
        BY <2>2, <3>1, StepFrame, GatesKeep
      <3>3. Sought'
        BY <2>2, <3>1, <3>2, PacketKeeps
      <3> QED BY <3>1, <3>2, <3>3, FrameKeeps
    <2> QED BY <2>1, <2>2
  <1> QED BY <1>1, <1>2, Inductive, PTL DEF Spec

\* A session is repeated only by a decision, spent on one call, or after an
\* interruption of one that may be repeated, at most RecoveryLimit times a tree.
THEOREM AuthorizedReplayHolds == Spec => []AuthorizedReplay
  <1>1. IndInv /\ ReplayInv => AuthorizedReplay
    <2> SUFFICES ASSUME IndInv, ReplayInv PROVE AuthorizedReplay
      OBVIOUS
    <2>1. Latest \in Nat /\ Latest <= MaxCalls /\ tree \in 1..MaxTrees
      BY Shape DEF IndInv, TypeOK, Latest
    <2>2. Latest # 0 => gates[Latest] # "USED"
      BY <2>1, Bounds DEF ReplayInv, Unspent
    <2>3. \A t \in 1..tree : Cardinality(Recoveries(t)) <= RecoveryLimit
      BY <2>1, Bounds DEF ReplayInv
    <2> QED BY <2>2, <2>3 DEF ReplayInv, Paid, AuthorizedReplay, Recoveries
  <1> QED BY <1>1, Inductive, ReplayKept, PTL

=============================================================================
