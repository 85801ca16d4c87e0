--------------------------- MODULE PlanningProofs ---------------------------
(***************************************************************************)
(* Proofs about Planning, for any limit and any number of controls, edits  *)
(* and stops.  The chain of facts is:                                      *)
(*                                                                         *)
(*  - only the current generation ever changes: those before it have       *)
(*    failed, those after it and their gates do not exist (Order);         *)
(*  - while the engine is between the beginning of a generation and the    *)
(*    record of its answer, that generation stays current and EXECUTING,   *)
(*    because a control that would replace it is refused, and a version    *)
(*    that is still fresh says in what state it was read (AtStep);         *)
(*  - so a planner's process belongs to the current generation, which has  *)
(*    no answer yet (Planner), and an answer is saved once.              *)
(***************************************************************************)
EXTENDS Planning, TLAPS, FiniteSetTheorems

\* Only the current generation is open, and its gates are as it left them.
Order ==
    /\ effect[1].origin # "recovery"
    /\ \A g \in Generations :
         /\ g < gen => effect[g].state = "FAILED"
         /\ g > gen => /\ effect[g] = NoEffect
                       /\ \A k \in Kinds : gate[<<g, k>>] = "none"
    /\ Current.state # "none"
    /\ Current.state \in {"REQUESTED", "EXECUTING", "RECOVERING"} =>
         Current.proposal = "none"
    /\ Current.state = "REQUESTED" => Current.calls = 0
    /\ goal = "DRAFT" => \A k \in Kinds : gate[<<gen, k>>] # "CLEARED"

\* A planner's process, and its row, belong to the current generation.
Planner ==
    /\ alive \subseteq {gen} /\ (alive # {} => process # "none")
    /\ process # "none" => /\ goal # "RUNNING"
                           /\ Current.state \in {"EXECUTING", "RECOVERING", "FAILED"}

\* What the engine has established before each of its steps.
AtStep ==
    /\ pc # "idle" => daemon \in {"up", "stopping"}
    /\ \/ pc \in {"call", "calling", "judge", "persist"}
       \/ pc = "failing" /\ job.code \in {"unconfirmed", "interrupted"}
       => job.gen = gen /\ Current.state = "EXECUTING" /\ goal # "RUNNING"
    /\ pc = "call" => process = "none" /\ Current.calls = 0
    /\ pc = "calling" => process = "open" /\ alive = {gen}
    /\ pc = "judge" /\ job.answer # "unconfirmed" => process = "none"
    /\ pc = "persist" => process = "none" /\ job.answer \in Proposals
    /\ pc = "begin" /\ job.fresh => job.gen = gen /\ Current.state = "REQUESTED"
    /\ pc \in {"check", "publish"} /\ job.fresh =>
         job.gen = gen /\ Current.state = "OBSERVING"

\* The records of the effects and what a run holds.
Effects ==
    [state : EffectStates, given : Proposals, proposal : Proposals,
     code : Codes, input : 0..MaxEdits, prior : BOOLEAN,
     origin : {"none", "user", "recovery", "gate"}, paused : BOOLEAN,
     calls : 0..1]
Answers == Proposals \cup {"answer", "interrupted", "unconfirmed"}
Jobs    == [gen : Generations, fresh : BOOLEAN, code : Codes, answer : Answers]

\* The type invariant, by what the steps change together.
Requests == /\ goal \in {"DRAFT", "RUNNING", "CANCELLED"} /\ paused \in BOOLEAN
            /\ gen \in Generations
Outside ==
    /\ process \in {"none", "open", "UNKNOWN"} /\ alive \subseteq Generations
    /\ tree \in 0..MaxEdits
    /\ daemon \in {"up", "stopping", "down", "starting", "refused"}
    /\ pc \in Steps /\ woken \in BOOLEAN
    /\ context \in {"live", "ending", "cancelled"}
    /\ controls \in 0..MaxControls /\ edits \in 0..MaxEdits
    /\ stops \in 0..MaxStops

\* What the journal of the goal's planning satisfies.
Records ==
    /\ Requests
    /\ effect \in [Generations -> Effects]
    /\ gate \in [Generations \X Kinds -> GateStates]
    /\ Order /\ RepeatsAreAuthorized /\ FrozenOnce /\ FailureIsAsked

\* What the engine, its processes and the daemon satisfy.
Running ==
    /\ Outside /\ tree = edits /\ job \in Jobs
    /\ Planner /\ AtStep

\* The inductive invariant.
IndInv == Records /\ Running

-----------------------------------------------------------------------------
\* What the assumptions say of the numbers.
LEMMA Numbers ==
  /\ 1 \in Generations /\ Generations \subseteq Nat \ {0}
  /\ MaxEdits \in Nat /\ MaxControls \in Nat /\ MaxStops \in Nat
  /\ NoProgressLimit \in Nat
  /\ \A g \in Generations, h \in Nat \ {0} : h <= g => h \in Generations
  BY PlanningAssumption DEF Generations

\* The parts of the type invariant.
LEMMA TypeParts ==
  TypeOK <=> /\ Requests /\ Outside
             /\ effect \in [Generations -> Effects]
             /\ gate \in [Generations \X Kinds -> GateStates]
             /\ job \in Jobs
  BY Zenon DEF TypeOK, Requests, Outside, Effects, Jobs, Answers

\* A record without an effect,
LEMMA NoEffects ==
  /\ NoEffect \in Effects /\ NoEffect.state = "none"
  /\ NoEffect.origin = "none" /\ NoEffect.code = "none"
  BY Numbers DEF NoEffect, Effects, EffectStates, Proposals, Codes

\* and the one of a new generation.
LEMMA NewEffects ==
  ASSUME NEW o \in {"user", "recovery", "gate"}, NEW p \in BOOLEAN,
         NEW v \in Proposals
  PROVE  /\ NewEffect(o, p, v) \in Effects
         /\ NewEffect(o, p, v).state = "REQUESTED"
         /\ NewEffect(o, p, v).proposal = "none"
         /\ NewEffect(o, p, v).code = "none"
         /\ NewEffect(o, p, v).origin = o /\ NewEffect(o, p, v).calls = 0
  <1>1. "REQUESTED" \in EffectStates /\ o \in {"none", "user", "recovery", "gate"}
    BY DEF EffectStates
  <1>2. NewEffect(o, p, v) \in Effects
    BY <1>1, NoEffects, Zenon DEF NewEffect, Effects
  <1> QED BY <1>2 DEF NewEffect, NoEffect

-----------------------------------------------------------------------------
\* The ways a transaction changes the effects.  What none of them changes in
\* the record of a generation is why it was begun.
Kin(g) == /\ effect'[g].origin = effect[g].origin
          /\ effect'[g].prior = effect[g].prior
          /\ effect'[g].given = effect[g].given

Within == /\ gen' = gen /\ effect' \in [Generations -> Effects] /\ Kin(gen)
          /\ \A g \in Generations \ {gen} : effect'[g] = effect[g]

\* A record of the current generation takes the place of the old one.
LEMMA Replaced ==
  ASSUME effect \in [Generations -> Effects], gen \in Generations,
         NEW e \in Effects, effect' = [effect EXCEPT ![gen] = e]
  PROVE  /\ effect' \in [Generations -> Effects] /\ effect'[gen] = e
         /\ \A g \in Generations \ {gen} : effect'[g] = effect[g]
  OBVIOUS

\* The effect gets a state and a code.
LEMMA CodedEffect ==
  ASSUME effect \in [Generations -> Effects], gen \in Generations, gen' = gen,
         NEW s \in EffectStates, NEW c \in Codes,
         effect' = [effect EXCEPT ![gen].state = s, ![gen].code = c]
  PROVE  /\ Within
         /\ effect'[gen].state = s /\ effect'[gen].code = c
         /\ effect'[gen].proposal = effect[gen].proposal
         /\ effect'[gen].calls = effect[gen].calls
  <1> DEFINE e == [effect[gen] EXCEPT !.state = s, !.code = c]
  <1>1. effect' = [effect EXCEPT ![gen] = e]
    BY DEF Effects
  <1>2. e \in Effects
    <2>1. effect[gen] \in Effects
      OBVIOUS
    <2> QED BY <2>1, Zenon DEF Effects
  <1>3. /\ e.state = s /\ e.code = c /\ e.proposal = effect[gen].proposal
        /\ e.calls = effect[gen].calls /\ e.origin = effect[gen].origin
        /\ e.prior = effect[gen].prior /\ e.given = effect[gen].given
    BY DEF Effects
  <1> HIDE DEF e
  <1>4. /\ effect' \in [Generations -> Effects] /\ effect'[gen] = e
        /\ \A g \in Generations \ {gen} : effect'[g] = effect[g]
    BY <1>1, <1>2, Replaced
  <1> QED BY <1>3, <1>4 DEF Within, Kin

\* The effect is marked with the pause of its goal.
LEMMA PausedEffect ==
  ASSUME effect \in [Generations -> Effects], gen \in Generations, gen' = gen,
         effect' = [effect EXCEPT ![gen].paused = TRUE]
  PROVE  /\ Within
         /\ effect'[gen].state = effect[gen].state
         /\ effect'[gen].code = effect[gen].code
         /\ effect'[gen].proposal = effect[gen].proposal
         /\ effect'[gen].calls = effect[gen].calls
  <1> DEFINE e == [effect[gen] EXCEPT !.paused = TRUE]
  <1>1. effect' = [effect EXCEPT ![gen] = e]
    BY DEF Effects
  <1>2. e \in Effects
    <2>1. effect[gen] \in Effects
      OBVIOUS
    <2> QED BY <2>1, Zenon DEF Effects
  <1>3. /\ e.state = effect[gen].state /\ e.proposal = effect[gen].proposal
        /\ e.code = effect[gen].code
        /\ e.calls = effect[gen].calls /\ e.origin = effect[gen].origin
        /\ e.prior = effect[gen].prior /\ e.given = effect[gen].given
    BY DEF Effects
  <1> HIDE DEF e
  <1>4. /\ effect' \in [Generations -> Effects] /\ effect'[gen] = e
        /\ \A g \in Generations \ {gen} : effect'[g] = effect[g]
    BY <1>1, <1>2, Replaced
  <1> QED BY <1>3, <1>4 DEF Within, Kin

\* The effect begins, on the tree of the directory.
LEMMA BegunEffect ==
  ASSUME effect \in [Generations -> Effects], gen \in Generations, gen' = gen,
         tree \in 0..MaxEdits,
         effect' = [effect EXCEPT ![gen].state = "EXECUTING", ![gen].input = tree]
  PROVE  /\ Within
         /\ effect'[gen].state = "EXECUTING"
         /\ effect'[gen].code = effect[gen].code
         /\ effect'[gen].proposal = effect[gen].proposal
         /\ effect'[gen].calls = effect[gen].calls
  <1> DEFINE e == [effect[gen] EXCEPT !.state = "EXECUTING", !.input = tree]
  <1>1. effect' = [effect EXCEPT ![gen] = e]
    BY DEF Effects
  <1>2. e \in Effects
    <2>1. effect[gen] \in Effects /\ "EXECUTING" \in EffectStates
      BY DEF EffectStates
    <2> QED BY <2>1, Zenon DEF Effects
  <1>3. /\ e.state = "EXECUTING" /\ e.proposal = effect[gen].proposal
        /\ e.code = effect[gen].code
        /\ e.calls = effect[gen].calls /\ e.origin = effect[gen].origin
        /\ e.prior = effect[gen].prior /\ e.given = effect[gen].given
    BY DEF Effects
  <1> HIDE DEF e
  <1>4. /\ effect' \in [Generations -> Effects] /\ effect'[gen] = e
        /\ \A g \in Generations \ {gen} : effect'[g] = effect[g]
    BY <1>1, <1>2, Replaced
  <1> QED BY <1>3, <1>4 DEF Within, Kin

\* The planner of the effect is called.
LEMMA CalledEffect ==
  ASSUME effect \in [Generations -> Effects], gen \in Generations, gen' = gen,
         effect[gen].calls = 0,
         effect' = [effect EXCEPT ![gen].calls = @ + 1]
  PROVE  /\ Within
         /\ effect'[gen].state = effect[gen].state
         /\ effect'[gen].code = effect[gen].code
         /\ effect'[gen].proposal = effect[gen].proposal
  <1> DEFINE e == [effect[gen] EXCEPT !.calls = 1]
  <1>1. effect' = [effect EXCEPT ![gen] = e]
    BY DEF Effects
  <1>2. e \in Effects
    <2>1. effect[gen] \in Effects /\ 1 \in 0..1
      OBVIOUS
    <2> QED BY <2>1, Zenon DEF Effects
  <1>3. /\ e.state = effect[gen].state /\ e.proposal = effect[gen].proposal
        /\ e.code = effect[gen].code /\ e.origin = effect[gen].origin
        /\ e.prior = effect[gen].prior /\ e.given = effect[gen].given
    BY DEF Effects
  <1> HIDE DEF e
  <1>4. /\ effect' \in [Generations -> Effects] /\ effect'[gen] = e
        /\ \A g \in Generations \ {gen} : effect'[g] = effect[g]
    BY <1>1, <1>2, Replaced
  <1> QED BY <1>3, <1>4 DEF Within, Kin

\* The effect is observed with a proposal, which it keeps until it succeeds.
LEMMA ObservedEffect ==
  ASSUME effect \in [Generations -> Effects], gen \in Generations, gen' = gen,
         NEW p \in Proposals, NEW s \in EffectStates,
         \/ effect' = [effect EXCEPT ![gen].state = s, ![gen].proposal = p]
         \/ p = effect[gen].proposal /\ effect' = [effect EXCEPT ![gen].state = s]
  PROVE  /\ Within
         /\ effect'[gen].state = s
         /\ effect'[gen].code = effect[gen].code
         /\ effect'[gen].proposal = p
         /\ effect'[gen].calls = effect[gen].calls
  <1> DEFINE e == [effect[gen] EXCEPT !.state = s, !.proposal = p]
  <1>1. effect' = [effect EXCEPT ![gen] = e]
    <2>1. CASE effect' = [effect EXCEPT ![gen].state = s, ![gen].proposal = p]
      BY <2>1 DEF Effects
    <2>2. CASE p = effect[gen].proposal /\ effect' = [effect EXCEPT ![gen].state = s]
      <3>1. e = [effect[gen] EXCEPT !.state = s]
        BY <2>2 DEF Effects
      <3> QED BY <2>2, <3>1
    <2> QED BY <2>1, <2>2
  <1>2. e \in Effects
    <2>1. effect[gen] \in Effects
      OBVIOUS
    <2> QED BY <2>1, Zenon DEF Effects
  <1>3. /\ e.state = s /\ e.proposal = p
        /\ e.code = effect[gen].code /\ e.calls = effect[gen].calls
        /\ e.origin = effect[gen].origin
        /\ e.prior = effect[gen].prior /\ e.given = effect[gen].given
    BY DEF Effects
  <1> HIDE DEF e
  <1>4. /\ effect' \in [Generations -> Effects] /\ effect'[gen] = e
        /\ \A g \in Generations \ {gen} : effect'[g] = effect[g]
    BY <1>1, <1>2, Replaced
  <1> QED BY <1>3, <1>4 DEF Within, Kin

\* The gate of a failure is opened, unless it has been.
LEMMA OpenedGate ==
  ASSUME gate \in [Generations \X Kinds -> GateStates], gen \in Generations,
         NEW kind \in Kinds
  PROVE  /\ Opened(gate, kind) \in [Generations \X Kinds -> GateStates]
         /\ \A g \in Generations, k \in Kinds :
              \/ Opened(gate, kind)[<<g, k>>] = gate[<<g, k>>]
              \/ /\ g = gen /\ k = kind /\ Opened(gate, kind)[<<g, k>>] = "OPEN"
         /\ goal # "CANCELLED" => Opened(gate, kind)[<<gen, kind>>] # "none"
  <1>1. <<gen, kind>> \in Generations \X Kinds /\ "OPEN" \in GateStates
    BY DEF GateStates
  <1>2. CASE goal = "CANCELLED" \/ gate[<<gen, kind>>] # "none"
    BY <1>1, <1>2 DEF Opened
  <1>3. CASE ~(goal = "CANCELLED" \/ gate[<<gen, kind>>] # "none")
    <2>1. Opened(gate, kind) = [gate EXCEPT ![<<gen, kind>>] = "OPEN"]
      BY <1>3 DEF Opened
    <2> QED BY <1>1, <2>1
  <1> QED BY <1>2, <1>3

\* The gates of planning are taken away.
LEMMA ClearedGates ==
  ASSUME NEW gs \in [Generations \X Kinds -> GateStates]
  PROVE  /\ Cleared(gs) \in [Generations \X Kinds -> GateStates]
         /\ \A g \in Generations, k \in Kinds :
              Cleared(gs)[<<g, k>>] =
                IF gs[<<g, k>>] \in {"OPEN", "SHUT", "APPROVED"}
                THEN "CLEARED" ELSE gs[<<g, k>>]
  <1>1. "CLEARED" \in GateStates
    BY DEF GateStates
  <1> QED BY <1>1 DEF Cleared

\* The gates of the generations to come are as they were.
GatesWithin ==
    /\ gate' \in [Generations \X Kinds -> GateStates]
    /\ \A g \in Generations, k \in Kinds : g # gen => gate'[<<g, k>>] = gate[<<g, k>>]

\* A failure is recorded, and its gate opened.
LEMMA FailedEffect ==
  ASSUME Requests, effect \in [Generations -> Effects], gen' = gen,
         gate \in [Generations \X Kinds -> GateStates],
         NEW c \in Codes, Failed(c)
  PROVE  /\ Within /\ GatesWithin
         /\ effect'[gen].state = "FAILED" /\ effect'[gen].code = c
         /\ effect'[gen].proposal = effect[gen].proposal
         /\ effect'[gen].calls = effect[gen].calls
         /\ \A k \in Kinds : gate'[<<gen, k>>] \in {gate[<<gen, k>>], "OPEN"}
         /\ goal # "CANCELLED" => gate'[<<gen, "stopped">>] # "none"
  <1>1. /\ gen \in Generations /\ "FAILED" \in EffectStates /\ "stopped" \in Kinds
    BY DEF Requests, EffectStates, Kinds
  <1>2. /\ Within
        /\ effect'[gen].state = "FAILED" /\ effect'[gen].code = c
        /\ effect'[gen].proposal = effect[gen].proposal
        /\ effect'[gen].calls = effect[gen].calls
    BY <1>1, CodedEffect DEF Failed
  <1>3. gate' = Opened(gate, "stopped")
    BY DEF Failed
  <1> QED BY <1>1, <1>2, <1>3, OpenedGate DEF GatesWithin

\* A generation ends and the next one begins.
LEMMA NextEffect ==
  ASSUME Requests, effect \in [Generations -> Effects],
         gate \in [Generations \X Kinds -> GateStates],
         NEW c \in Codes, NEW o \in {"user", "recovery", "gate"},
         NEW p \in BOOLEAN, NEW v \in Proposals, NextGeneration(c, o, p, v)
  PROVE  /\ gen' = gen + 1 /\ gen' \in Generations /\ ~paused'
         /\ effect' \in [Generations -> Effects] /\ Kin(gen)
         /\ \A g \in Generations \ {gen, gen + 1} : effect'[g] = effect[g]
         /\ effect'[gen].state = "FAILED" /\ effect'[gen].code = c
         /\ effect'[gen].proposal = effect[gen].proposal
         /\ effect'[gen + 1].state = "REQUESTED"
         /\ effect'[gen + 1].proposal = "none" /\ effect'[gen + 1].code = "none"
         /\ effect'[gen + 1].origin = o /\ effect'[gen + 1].calls = 0
         /\ gate' \in [Generations \X Kinds -> GateStates]
         /\ \A g \in Generations, k \in Kinds :
              g > gen /\ gate[<<g, k>>] = "none" => gate'[<<g, k>>] = "none"
  <1>1. /\ gen \in Generations /\ "FAILED" \in EffectStates /\ "stopped" \in Kinds
        /\ gen \in Nat
    BY Numbers DEF Requests, EffectStates, Kinds
  <1> DEFINE e == [effect[gen] EXCEPT !.state = "FAILED", !.code = c]
             f == NewEffect(o, p, v)
  <1>2. gen' = gen + 1 /\ gen' \in Generations /\ ~paused' /\ gen + 1 # gen
    BY <1>1 DEF NextGeneration
  <1>3. effect' = [effect EXCEPT ![gen] = e, ![gen + 1] = f]
    <2>1. effect' = [effect EXCEPT ![gen].state = "FAILED", ![gen].code = c,
                                   ![gen + 1] = f]
      BY DEF NextGeneration
    <2> HIDE DEF f
    <2> QED BY <1>1, <2>1 DEF Effects
  <1>4. e \in Effects
    <2>1. effect[gen] \in Effects
      BY <1>1
    <2> QED BY <1>1, <2>1, Zenon DEF Effects
  <1>5. /\ e.state = "FAILED" /\ e.code = c /\ e.proposal = effect[gen].proposal
        /\ e.origin = effect[gen].origin
        /\ e.prior = effect[gen].prior /\ e.given = effect[gen].given
    BY <1>1 DEF Effects
  <1>6. /\ f \in Effects /\ f.state = "REQUESTED" /\ f.proposal = "none"
        /\ f.code = "none" /\ f.origin = o /\ f.calls = 0
    BY NewEffects
  <1> HIDE DEF e, f
  <1>7. /\ effect' \in [Generations -> Effects]
        /\ effect'[gen] = e /\ effect'[gen + 1] = f
        /\ \A g \in Generations \ {gen, gen + 1} : effect'[g] = effect[g]
    BY <1>1, <1>2, <1>3, <1>4, <1>6
  <1> DEFINE gs == Opened(gate, "stopped")
  <1>8. /\ gs \in [Generations \X Kinds -> GateStates]
        /\ \A g \in Generations, k \in Kinds :
             g # gen => gs[<<g, k>>] = gate[<<g, k>>]
    <2>1. /\ gs \in [Generations \X Kinds -> GateStates]
          /\ \A g \in Generations, k \in Kinds :
               \/ gs[<<g, k>>] = gate[<<g, k>>]
               \/ g = gen /\ k = "stopped" /\ gs[<<g, k>>] = "OPEN"
      BY <1>1, OpenedGate, Zenon
    <2> HIDE DEF gs
    <2> QED BY <2>1
  <1>9. gate' = Cleared(gs)
    BY DEF NextGeneration
  <1> HIDE DEF gs
  <1>10. /\ gate' \in [Generations \X Kinds -> GateStates]
         /\ \A g \in Generations, k \in Kinds :
              g # gen /\ gate[<<g, k>>] = "none" => gate'[<<g, k>>] = "none"
    <2>1. /\ gate' \in [Generations \X Kinds -> GateStates]
          /\ \A g \in Generations, k \in Kinds :
               gate'[<<g, k>>] = IF gs[<<g, k>>] \in {"OPEN", "SHUT", "APPROVED"}
                                 THEN "CLEARED" ELSE gs[<<g, k>>]
      BY <1>8, <1>9, ClearedGates, Zenon
    <2> QED BY <1>8, <2>1
  <1>11. \A g \in Generations : g > gen => g # gen
    BY <1>1, Numbers
  <1> QED BY <1>2, <1>5, <1>6, <1>7, <1>10, <1>11 DEF Kin

-----------------------------------------------------------------------------
\* The reason for the generations so far is kept when the current one changes
\* and stays current.
LEMMA RepeatsKept ==
  ASSUME Records, Within
  PROVE  RepeatsAreAuthorized'
  <1> SUFFICES ASSUME NEW g \in Generations, effect'[g].origin = "recovery"
               PROVE  /\ ~effect'[g - 1].prior /\ effect'[g - 1].proposal = "none"
                      /\ effect'[g - 1].code = "interrupted" =>
                           Cardinality({h \in 1..(g - 1) : effect'[h].code = "interrupted"})
                             < NoProgressLimit
    BY DEF RepeatsAreAuthorized
  <1>1. gen \in Generations /\ gen \in Nat \ {0} /\ g \in Nat \ {0}
    BY Numbers DEF Records, Requests
  <1>2. effect[g].origin = "recovery"
    BY DEF Within, Kin
  <1>3. g # 1 /\ g <= gen
    BY <1>1, <1>2 DEF Records, Order, NoEffect
  <1>4. \A h \in 1..(g - 1) : h \in Generations /\ h # gen
    BY <1>1, <1>3, Numbers
  <1>5. g - 1 \in 1..(g - 1)
    BY <1>1, <1>3
  <1>6. \A h \in 1..(g - 1) : effect'[h] = effect[h]
    BY <1>4 DEF Within
  <1>7. {h \in 1..(g - 1) : effect'[h].code = "interrupted"}
          = {h \in 1..(g - 1) : effect[h].code = "interrupted"}
    BY <1>6
  <1> QED BY <1>2, <1>5, <1>6, <1>7 DEF Records, RepeatsAreAuthorized

\* A step within the current generation of a goal that is not running.
LEMMA WithinKeeps ==
  ASSUME Records, Within, GatesWithin, goal # "RUNNING",
         goal' \in {goal, "CANCELLED"}, paused' \in BOOLEAN,
         effect'[gen].state \notin {"none", "SUCCEEDED"},
         effect'[gen].state \in {"REQUESTED", "EXECUTING", "RECOVERING"} =>
            effect'[gen].proposal = "none",
         effect'[gen].state = "REQUESTED" => effect'[gen].calls = 0,
         goal' = "DRAFT" => \A k \in Kinds : gate'[<<gen, k>>] # "CLEARED",
         goal' = "DRAFT" /\ effect'[gen].state = "FAILED" =>
            gate'[<<gen, "stopped">>] # "none"
  PROVE  Records'
  <1>1. Requests' /\ effect' \in [Generations -> Effects]
        /\ gate' \in [Generations \X Kinds -> GateStates]
        /\ gen \in Generations /\ gen' = gen
    BY DEF Records, Requests, Within, GatesWithin
  <1>2. effect'[1].origin # "recovery"
    BY <1>1, Numbers DEF Records, Order, Within, Kin
  <1>3. Order'
    BY <1>1, <1>2, Numbers DEF Records, Order, Within, GatesWithin, Current
  <1>4. RepeatsAreAuthorized'
    BY RepeatsKept
  <1>5. FrozenOnce'
    <2>1. goal' # "RUNNING"
      OBVIOUS
    <2>2. \A g \in Generations : effect'[g].state # "SUCCEEDED"
      BY <1>1 DEF Records, FrozenOnce, Within
    <2> QED BY <2>1, <2>2 DEF FrozenOnce
  <1>6. FailureIsAsked'
    BY <1>1 DEF FailureIsAsked, Current, Kinds
  <1> QED BY <1>1, <1>3, <1>4, <1>5, <1>6 DEF Records

\* A generation that has not ended fails.
LEMMA FailedKeeps ==
  ASSUME Records, ~Terminal, UNCHANGED request, NEW c \in Codes, Failed(c)
  PROVE  Records'
  <1>1. /\ Within /\ GatesWithin /\ effect'[gen].state = "FAILED"
        /\ \A k \in Kinds : gate'[<<gen, k>>] \in {gate[<<gen, k>>], "OPEN"}
        /\ goal # "CANCELLED" => gate'[<<gen, "stopped">>] # "none"
    BY FailedEffect DEF Records, request
  <1>2. goal # "RUNNING" /\ paused \in BOOLEAN
    BY DEF Records, Requests, FrozenOnce, Terminal
  <1>3. goal = "DRAFT" => \A k \in Kinds : gate[<<gen, k>>] # "CLEARED"
    BY DEF Records, Order
  <1>4. goal' = goal /\ paused' = paused
    BY DEF request
  <1> QED BY <1>1, <1>2, <1>3, <1>4, WithinKeeps

\* The interruptions of the generations up to the current one.
LEMMA InterruptionsCount ==
  ASSUME gen \in Generations,
         \A g \in Generations \ {gen} :
            g < gen => effect'[g].code = effect[g].code
  PROVE  Interruptions + 1 < NoProgressLimit =>
           Cardinality({h \in 1..gen : effect'[h].code = "interrupted"})
             < NoProgressLimit
  <1> DEFINE S == {g \in Generations : g # gen /\ effect[g].code = "interrupted"}
             T == {h \in 1..gen : effect'[h].code = "interrupted"}
  <1>1. gen \in Nat \ {0} /\ Generations = 1..(MaxControls + NoProgressLimit)
        /\ MaxControls + NoProgressLimit \in Nat
    BY Numbers DEF Generations
  <1>2. IsFiniteSet(Generations)
    BY <1>1, FS_Interval
  <1>3. IsFiniteSet(S)
    BY <1>2, FS_Subset
  <1>4. gen \notin S
    OBVIOUS
  <1>5. /\ IsFiniteSet(S \cup {gen})
        /\ Cardinality(S \cup {gen}) = Cardinality(S) + 1
    BY <1>3, <1>4, FS_AddElement
  <1>6. T \subseteq S \cup {gen}
    BY <1>1
  <1>7. Cardinality(T) <= Cardinality(S \cup {gen})
    BY <1>5, <1>6, FS_Subset
  <1>8. /\ Cardinality(S) \in Nat /\ Cardinality(T) \in Nat
        /\ Interruptions = Cardinality(S)
    <2>1. IsFiniteSet(T)
      BY <1>5, <1>6, FS_Subset
    <2> QED BY <1>3, <2>1, FS_CardinalityType DEF Interruptions
  <1> HIDE DEF S
  <1>9. Interruptions + 1 < NoProgressLimit => Cardinality(T) < NoProgressLimit
    BY <1>5, <1>7, <1>8, Numbers
  <1> QED BY <1>9

\* A generation ends, and a new one begins: a repeat only as it is allowed.
LEMMA NextKeeps ==
  ASSUME Records, goal = "DRAFT", goal' = goal,
         NEW c \in Codes, NEW o \in {"user", "recovery", "gate"},
         NEW p \in BOOLEAN, NEW v \in Proposals, NextGeneration(c, o, p, v),
         o = "recovery" =>
           /\ c = InterruptionCode /\ Repeatable
           /\ Current.state \in {"EXECUTING", "RECOVERING"}
  PROVE  Records'
  <1>1. /\ gen' = gen + 1 /\ gen' \in Generations /\ ~paused'
        /\ effect' \in [Generations -> Effects] /\ Kin(gen)
        /\ \A g \in Generations \ {gen, gen + 1} : effect'[g] = effect[g]
        /\ effect'[gen].state = "FAILED" /\ effect'[gen].code = c
        /\ effect'[gen].proposal = effect[gen].proposal
        /\ effect'[gen + 1].state = "REQUESTED"
        /\ effect'[gen + 1].proposal = "none" /\ effect'[gen + 1].code = "none"
        /\ effect'[gen + 1].origin = o /\ effect'[gen + 1].calls = 0
        /\ gate' \in [Generations \X Kinds -> GateStates]
        /\ \A g \in Generations, k \in Kinds :
             g > gen /\ gate[<<g, k>>] = "none" => gate'[<<g, k>>] = "none"
    BY NextEffect DEF Records
  <1>2. /\ gen \in Generations /\ gen \in Nat \ {0} /\ paused' \in BOOLEAN
    <2>1. paused' = FALSE
      BY DEF NextGeneration
    <2> QED BY <2>1, Numbers DEF Records, Requests
  <1>3. Requests'
    BY <1>1, <1>2 DEF Records, Requests
  <1>4. \A g \in Generations : g > gen + 1 => effect'[g] = NoEffect
    BY <1>1, <1>2, Numbers DEF Records, Order
  <1>5. \A g \in Generations, k \in Kinds : g > gen => gate'[<<g, k>>] = "none"
    BY <1>1 DEF Records, Order
  <1>6. \A g \in Generations : g < gen + 1 => effect'[g].state = "FAILED"
    BY <1>1, <1>2, Numbers DEF Records, Order
  <1>7. effect'[1].origin # "recovery"
    BY <1>1, <1>2, Numbers DEF Records, Order, Kin
  <1>8. Order'
    <2>1. \A k \in Kinds : gate'[<<gen + 1, k>>] = "none"
      BY <1>1, <1>2, <1>5
    <2>2. \A g \in Generations : g > gen + 1 => g > gen
      BY <1>2, Numbers
    <2> QED BY <1>1, <1>4, <1>5, <1>6, <1>7, <2>1, <2>2 DEF Order, Current
  <1>9. RepeatsAreAuthorized'
    <2> SUFFICES ASSUME NEW g \in Generations, effect'[g].origin = "recovery"
                 PROVE  /\ ~effect'[g - 1].prior /\ effect'[g - 1].proposal = "none"
                        /\ effect'[g - 1].code = "interrupted" =>
                             Cardinality({h \in 1..(g - 1) : effect'[h].code = "interrupted"})
                               < NoProgressLimit
      BY DEF RepeatsAreAuthorized
    <2>1. g \in Nat \ {0} /\ g <= gen + 1
      BY <1>2, <1>4, Numbers DEF NoEffect
    <2>2. CASE g = gen + 1
      <3>1. /\ c = InterruptionCode /\ Repeatable
            /\ Current.state \in {"EXECUTING", "RECOVERING"}
        BY <1>1, <2>2
      <3>2. effect'[gen].proposal = "none" /\ ~effect'[gen].prior
        BY <1>1, <3>1 DEF Records, Order, Current, Repeatable, Kin
      <3>3. c = "interrupted" => Interruptions + 1 < NoProgressLimit
        BY <3>1 DEF Repeatable
      <3>4. g - 1 = gen
        BY <1>2, <2>2
      <3>5. c = "interrupted" =>
              Cardinality({h \in 1..gen : effect'[h].code = "interrupted"})
                < NoProgressLimit
        <4>1. \A h \in Generations \ {gen} : h < gen => effect'[h].code = effect[h].code
          BY <1>1, <1>2, Numbers
        <4> QED BY <1>2, <3>3, <4>1, InterruptionsCount
      <3> QED BY <1>1, <3>2, <3>4, <3>5
    <2>3. CASE g # gen + 1
      <3>1. g <= gen
        BY <1>2, <2>1, <2>3
      <3>2. effect[g].origin = "recovery"
        BY <1>1, <1>2, <2>1, <2>3 DEF Kin
      <3>3. g # 1
        BY <3>2 DEF Records, Order
      <3>4. \A h \in 1..(g - 1) : h \in Generations /\ h # gen /\ h # gen + 1
        BY <1>2, <2>1, <3>1, Numbers
      <3>5. \A h \in 1..(g - 1) : effect'[h] = effect[h]
        BY <1>1, <3>4
      <3>6. g - 1 \in 1..(g - 1)
        BY <2>1, <3>3
      <3>7. {h \in 1..(g - 1) : effect'[h].code = "interrupted"}
              = {h \in 1..(g - 1) : effect[h].code = "interrupted"}
        BY <3>5
      <3> QED BY <3>2, <3>5, <3>6, <3>7 DEF Records, RepeatsAreAuthorized
    <2> QED BY <2>2, <2>3
  <1>10. FrozenOnce'
    <2>1. \A g \in Generations : effect'[g].state # "SUCCEEDED"
      BY <1>1 DEF Records, FrozenOnce
    <2> QED BY <2>1 DEF FrozenOnce
  <1>11. FailureIsAsked'
    BY <1>1 DEF FailureIsAsked, Current
  <1> QED BY <1>1, <1>3, <1>8, <1>9, <1>10, <1>11 DEF Records

\* What the recovery decides.
LEMMA RecoversTo ==
  ASSUME Records, Recovers
  PROVE  \/ UNCHANGED <<paused, gen, effect, gate, job>>
         \/ /\ ~Untouched /\ UNCHANGED <<paused, gen, job>>
            /\ \E c \in Codes : Failed(c)
         \/ /\ ~Untouched /\ goal = "DRAFT" /\ ~Kept /\ Repeatable
            /\ NextGeneration(InterruptionCode, "recovery", FALSE, "none")
  <1>1. {"cancelled", "blocked", InterruptionCode} \subseteq Codes
    BY DEF InterruptionCode, Codes
  <1> QED BY <1>1, Zenon DEF Recovers

\* The recovery keeps the records.
LEMMA RecoversKeeps ==
  ASSUME Records, Recovers, goal' = goal
  PROVE  Records'
  <1>1. CASE UNCHANGED <<paused, gen, effect, gate, job>>
    BY <1>1 DEF Records, Requests, Order, RepeatsAreAuthorized, FrozenOnce,
       FailureIsAsked, Current, Blocked, GateIn
  <1>2. CASE /\ ~Untouched /\ UNCHANGED <<paused, gen, job>>
             /\ \E c \in Codes : Failed(c)
    BY <1>2, FailedKeeps DEF Untouched, request
  <1>3. CASE /\ ~Untouched /\ goal = "DRAFT" /\ ~Kept /\ Repeatable
             /\ NextGeneration(InterruptionCode, "recovery", FALSE, "none")
    <2>1. InterruptionCode \in Codes
      BY DEF InterruptionCode, Codes
    <2>2. Current.state \in {"EXECUTING", "RECOVERING"}
      <3>1. Current.state \in EffectStates /\ Current.state # "none"
        BY DEF Records, Requests, Effects, Order, Current
      <3> QED BY <1>3, <3>1 DEF Kept, Untouched, Terminal, EffectStates
    <2>3. FALSE \in BOOLEAN /\ "none" \in Proposals
      BY DEF Proposals
    <2> QED BY <1>3, <2>1, <2>2, <2>3, NextKeeps
  <1> QED BY <1>1, <1>2, <1>3, RecoversTo

\* The publication freezes what the last generation observed.
LEMMA PublishKeeps ==
  ASSUME Records, goal = "DRAFT", ~paused, ~Rejected, Current.state = "OBSERVING",
         Current.proposal \in {"good", "approved"},
         goal' = "RUNNING", UNCHANGED <<paused, gen>>, gate' = Cleared(gate),
         effect' = [effect EXCEPT ![gen].state = "SUCCEEDED"]
  PROVE  Records'
  <1>1. gen \in Generations /\ "SUCCEEDED" \in EffectStates
    BY DEF Records, Requests, EffectStates
  <1>2. Current.proposal \in Proposals
    BY <1>1 DEF Records, Current, Effects
  <1>3. /\ Within /\ effect'[gen].state = "SUCCEEDED"
        /\ effect'[gen].proposal = effect[gen].proposal
    BY <1>1, <1>2, ObservedEffect DEF Records, Current
  <1>4. /\ gate' \in [Generations \X Kinds -> GateStates]
        /\ \A g \in Generations, k \in Kinds :
             gate'[<<g, k>>] = IF gate[<<g, k>>] \in {"OPEN", "SHUT", "APPROVED"}
                               THEN "CLEARED" ELSE gate[<<g, k>>]
    BY ClearedGates DEF Records
  <1>5. Requests'
    BY DEF Records, Requests
  <1>6. Order'
    <2>1. effect'[1].origin # "recovery"
      BY <1>3, Numbers DEF Records, Order, Within, Kin
    <2> QED BY <1>1, <1>3, <1>4, <2>1, Numbers DEF Records, Order, Within, Current
  <1>7. FrozenOnce'
    <2>1. ~Blocked'
      <3> SUFFICES ASSUME NEW g \in Generations, NEW k \in Kinds,
                          gate'[<<g, k>>] \in {"OPEN", "SHUT", "LAPSED", "DENIED"}
                   PROVE  FALSE
        BY <1>4 DEF Blocked, GateIn
      <3>1. gate[<<g, k>>] \in {"LAPSED", "DENIED"}
        BY <1>4
      <3>2. <<g, k>> \in DOMAIN gate
        BY DEF Records
      <3> QED BY <3>1, <3>2 DEF Rejected, GateIn
    <2>2. Current' = effect'[gen] /\ ~paused'
      BY DEF Current
    <2> QED BY <1>3, <2>1, <2>2 DEF FrozenOnce, Current
  <1>8. RepeatsAreAuthorized'
    BY <1>3, RepeatsKept
  <1>9. FailureIsAsked'
    BY DEF FailureIsAsked
  <1> QED BY <1>3, <1>4, <1>5, <1>6, <1>7, <1>8, <1>9 DEF Records, Within

-----------------------------------------------------------------------------
\* A failure is to be recorded for a generation.
LEMMA FailEffect ==
  ASSUME NEW g \in Generations, NEW c \in Codes, Fail(g, c)
  PROVE  /\ job' \in Jobs /\ job'.gen = g /\ job'.code = c
         /\ pc' = "failing" /\ context' = context
  <1>1. NoJob \in Jobs
    <2>1. /\ 1 \in Generations /\ FALSE \in BOOLEAN /\ "none" \in Codes
          /\ "none" \in Answers
      BY Numbers DEF Codes, Answers, Proposals
    <2> QED BY <2>1, Zenon DEF NoJob, Jobs
  <1>2. job' = [NoJob EXCEPT !.gen = g, !.code = c]
    BY DEF Fail
  <1>3. job' \in Jobs
    BY <1>1, <1>2, Zenon DEF Jobs
  <1> QED BY <1>2, <1>3 DEF Fail, NoJob

\* The run is over.
LEMMA EndRunEffect ==
  ASSUME EndRun
  PROVE  job' \in Jobs /\ pc' = "idle" /\ context' = "live"
  <1>1. /\ 1 \in Generations /\ FALSE \in BOOLEAN /\ "none" \in Codes
        /\ "none" \in Answers
    BY Numbers DEF Codes, Answers, Proposals
  <1>2. NoJob \in Jobs
    BY <1>1, Zenon DEF NoJob, Jobs
  <1> QED BY <1>2 DEF EndRun

\* What the run has read is no longer so.
LEMMA StaleEffect ==
  ASSUME job \in Jobs, job' = [job EXCEPT !.fresh = FALSE]
  PROVE  /\ job' \in Jobs /\ ~job'.fresh /\ job'.gen = job.gen
         /\ job'.code = job.code /\ job'.answer = job.answer
  <1>1. FALSE \in BOOLEAN
    OBVIOUS
  <1>2. job' \in Jobs
    BY <1>1, Zenon DEF Jobs
  <1> QED BY <1>2 DEF Jobs

\* The run has the planner's answer.
LEMMA AnswerEffect ==
  ASSUME job \in Jobs, NEW a \in Answers, Answer(a)
  PROVE  /\ job' \in Jobs /\ job'.answer = a /\ job'.gen = job.gen
         /\ job'.code = job.code /\ job'.fresh = job.fresh
         /\ pc' = "judge" /\ context' = context
  <1>1. job' = [job EXCEPT !.answer = a]
    BY DEF Answer
  <1>2. job' \in Jobs
    BY <1>1, Zenon DEF Jobs
  <1> QED BY <1>1, <1>2 DEF Jobs, Answer

\* The run has read the record of the current generation.
LEMMA FreshEffect ==
  ASSUME job \in Jobs, gen \in Generations,
         \/ job' = [job EXCEPT !.gen = gen, !.fresh = TRUE]
         \/ job' = [NoJob EXCEPT !.gen = gen, !.fresh = TRUE]
  PROVE  job' \in Jobs /\ job'.gen = gen
  <1>1. /\ 1 \in Generations /\ FALSE \in BOOLEAN /\ "none" \in Codes
        /\ "none" \in Answers /\ TRUE \in BOOLEAN
    BY Numbers DEF Codes, Answers, Proposals
  <1>2. NoJob \in Jobs
    BY <1>1, Zenon DEF NoJob, Jobs
  <1>3. CASE job' = [job EXCEPT !.gen = gen, !.fresh = TRUE]
    <2>1. job' \in Jobs
      BY <1>1, <1>3, Zenon DEF Jobs
    <2> QED BY <1>3, <2>1 DEF Jobs
  <1>4. CASE job' = [NoJob EXCEPT !.gen = gen, !.fresh = TRUE]
    <2>1. job' \in Jobs
      BY <1>1, <1>2, <1>4, Zenon DEF Jobs
    <2> QED BY <1>4, <2>1 DEF NoJob
  <1> QED BY <1>3, <1>4

-----------------------------------------------------------------------------
\* Nothing is recorded.
LEMMA QuietKeeps ==
  ASSUME Records, UNCHANGED request, UNCHANGED effect, UNCHANGED gate
  PROVE  Records'
  BY DEF Records, Requests, Order, RepeatsAreAuthorized, FrozenOnce,
     FailureIsAsked, Current, Blocked, GateIn, request

\* A control ends the generation, which no run has begun.
LEMMA ControlledNext ==
  ASSUME IndInv, goal = "DRAFT", goal' = goal, process = "none",
         Current.state # "EXECUTING", daemon = "up",
         NEW c \in Codes, NEW o \in {"user", "gate"},
         NEW p \in BOOLEAN, NEW v \in Proposals, NextGeneration(c, o, p, v),
         CancelRun, woken' = TRUE, Controlled, UNCHANGED <<os, daemon, pc, edits, stops>>
  PROVE  IndInv'
  <1>1. Records'
    BY NextKeeps DEF IndInv
  <1>2. gen' \in Generations /\ gen' = gen + 1
    BY DEF NextGeneration, IndInv, Records
  <1>3. job' \in Jobs /\ ~job'.fresh /\ job'.gen = job.gen
        /\ job'.code = job.code /\ job'.answer = job.answer
    BY StaleEffect DEF NextGeneration, IndInv, Running
  <1>4. Outside' /\ tree' = edits'
    BY Numbers DEF IndInv, Running, Outside, CancelRun, Controlled, os
  <1>5. Planner'
    BY DEF IndInv, Running, Planner, os
  <1>6. pc \notin {"call", "calling", "judge", "persist"}
        /\ ~(pc = "failing" /\ job.code \in {"unconfirmed", "interrupted"})
    BY DEF IndInv, Running, AtStep
  <1>7. AtStep'
    BY <1>3, <1>6 DEF IndInv, Running, AtStep, os
  <1> QED BY <1>1, <1>3, <1>4, <1>5, <1>7 DEF IndInv, Running

\* The operator's controls keep everything in order.
LEMMA OperatorKeeps ==
  ASSUME IndInv, Operator
  PROVE  IndInv'
  <1>0. /\ Records /\ Running /\ Requests /\ gen \in Generations
        /\ effect \in [Generations -> Effects]
        /\ gate \in [Generations \X Kinds -> GateStates]
        /\ Outside /\ tree = edits /\ job \in Jobs /\ Planner /\ AtStep /\ Order
        /\ FailureIsAsked /\ "stopped" \in Kinds
    BY DEF IndInv, Records, Running, Requests, Kinds
  <1>1. CASE SetPlanningPaused
    <2>1. /\ goal = "DRAFT" /\ goal' = goal /\ gen' = gen /\ gate' = gate
          /\ paused' \in BOOLEAN /\ Stale
      BY <1>1 DEF SetPlanningPaused, Drafting
    <2>2. /\ Within
          /\ effect'[gen].state = effect[gen].state
          /\ effect'[gen].proposal = effect[gen].proposal
          /\ effect'[gen].calls = effect[gen].calls
      <3>1. CASE effect' = [effect EXCEPT ![gen].paused = TRUE]
        BY <1>0, <2>1, <3>1, PausedEffect
      <3>2. CASE effect' = effect
        BY <1>0, <2>1, <3>2 DEF Within, Kin
      <3> QED BY <1>1, <3>1, <3>2 DEF SetPlanningPaused
    <2>3. GatesWithin
      BY <1>0, <2>1 DEF GatesWithin
    <2>4. effect[gen].state # "SUCCEEDED"
      BY <1>0, <2>1 DEF Records, FrozenOnce
    <2>5. Records'
      BY <1>0, <2>1, <2>2, <2>3, <2>4, WithinKeeps DEF Order, FailureIsAsked, Current
    <2>6. job' \in Jobs /\ ~job'.fresh /\ job'.gen = job.gen
          /\ job'.code = job.code /\ job'.answer = job.answer
      BY <1>0, <2>1, StaleEffect DEF Stale
    <2>7. Outside' /\ tree' = edits'
      <3>1. /\ UNCHANGED <<os, daemon, pc, edits, stops>>
            /\ \/ Controlled /\ CancelRun /\ woken' = woken
               \/ woken' = TRUE /\ UNCHANGED <<context, controls>>
        BY <1>1, Zenon DEF SetPlanningPaused
      <3>2. woken' \in BOOLEAN
        BY <1>0, <3>1 DEF Outside
      <3> QED BY <1>0, <3>1, <3>2, Numbers DEF Outside, CancelRun, Controlled, os
    <2>8. Planner'
      BY <1>0, <1>1, <2>1, <2>2 DEF SetPlanningPaused, Planner, Current, os
    <2>9. AtStep'
      BY <1>0, <1>1, <2>1, <2>2, <2>6 DEF SetPlanningPaused, AtStep, Current, os
    <2> QED BY <2>5, <2>6, <2>7, <2>8, <2>9 DEF IndInv, Running
  <1>2. CASE CancelGoal
    <2>1. /\ goal = "DRAFT" /\ goal' = "CANCELLED" /\ gen' = gen /\ gate' = gate
          /\ paused' = paused /\ effect' = effect /\ Stale
      BY <1>2 DEF CancelGoal, Drafting
    <2>2. Within /\ GatesWithin
      BY <1>0, <2>1 DEF Within, Kin, GatesWithin
    <2>3. effect[gen].state # "SUCCEEDED" /\ paused \in BOOLEAN
      BY <1>0, <2>1 DEF Records, Requests, FrozenOnce
    <2>4. Records'
      BY <1>0, <2>1, <2>2, <2>3, WithinKeeps DEF Order, Current
    <2>5. job' \in Jobs /\ ~job'.fresh /\ job'.gen = job.gen
          /\ job'.code = job.code /\ job'.answer = job.answer
      BY <1>0, <2>1, StaleEffect DEF Stale
    <2>6. Outside' /\ tree' = edits'
      BY <1>0, <1>2 DEF CancelGoal, Outside, CancelRun, os, bounds
    <2>7. Planner'
      BY <1>0, <1>2, <2>1 DEF CancelGoal, Planner, Current, os
    <2>8. AtStep'
      BY <1>0, <1>2, <2>1, <2>5 DEF CancelGoal, AtStep, Current, os
    <2> QED BY <2>4, <2>5, <2>6, <2>7, <2>8 DEF IndInv, Running
  <1>3. CASE RetryPlanning
    <2>1. PICK given \in {"none", "good"} :
            NextGeneration(IF Terminal THEN Current.code ELSE "superseded",
                           "user", FALSE, given)
      BY <1>3 DEF RetryPlanning
    <2>2. /\ (IF Terminal THEN Current.code ELSE "superseded") \in Codes
          /\ given \in Proposals /\ "user" \in {"user", "gate"} /\ FALSE \in BOOLEAN
      BY <1>0 DEF Effects, Codes, Current, Proposals
    <2>3. /\ goal = "DRAFT" /\ goal' = goal /\ process = "none"
          /\ Current.state # "EXECUTING" /\ daemon = "up"
          /\ CancelRun /\ woken' = TRUE /\ Controlled
          /\ UNCHANGED <<os, daemon, pc, edits, stops>>
      BY <1>3 DEF RetryPlanning, Drafting, Up
    <2> QED BY <2>1, <2>2, <2>3, ControlledNext
  <1>4. CASE ResumePlanningGate
    <2> DEFINE given == IF Current.code = "approval" THEN "approved" ELSE "none"
    <2>1. NextGeneration(Current.code, "gate", TRUE, given)
      BY <1>4 DEF ResumePlanningGate
    <2>2. /\ Current.code \in Codes
          /\ given \in Proposals /\ "gate" \in {"user", "gate"} /\ TRUE \in BOOLEAN
      BY <1>0 DEF Effects, Current, Proposals
    <2>3. /\ goal = "DRAFT" /\ goal' = goal /\ process = "none"
          /\ Current.state # "EXECUTING" /\ daemon = "up"
          /\ CancelRun /\ woken' = TRUE /\ Controlled
          /\ UNCHANGED <<os, daemon, pc, edits, stops>>
      BY <1>4 DEF ResumePlanningGate, Drafting, Up
    <2> HIDE DEF given
    <2> QED BY <2>1, <2>2, <2>3, ControlledNext
  <1>5. CASE DecideGate \/ GateExpires
    <2>1. PICK k \in DOMAIN gate : \E s \in {"APPROVED", "DENIED", "SHUT", "LAPSED"} :
            gate[k] \in {"OPEN", "APPROVED"} /\ gate' = [gate EXCEPT ![k] = s]
      BY <1>5 DEF DecideGate, GateExpires
    <2>2. /\ goal = "DRAFT" /\ UNCHANGED <<request, effect, os, daemon, run, bounds>>
      BY <1>5 DEF DecideGate, GateExpires, Drafting
    <2>3. /\ gate' \in [Generations \X Kinds -> GateStates]
          /\ \A g \in Generations, i \in Kinds :
               \/ gate'[<<g, i>>] = gate[<<g, i>>]
               \/ /\ gate[<<g, i>>] \in {"OPEN", "APPROVED"}
                  /\ gate'[<<g, i>>] \notin {"none", "CLEARED"}
      BY <1>0, <2>1 DEF GateStates
    <2>4. /\ goal' = goal /\ paused' = paused /\ gen' = gen /\ effect' = effect
      BY <2>2 DEF request
    <2>5. Order'
      <3>1. \A g \in Generations, i \in Kinds :
              gate[<<g, i>>] = "none" => gate'[<<g, i>>] = "none"
        BY <2>3
      <3>2. \A i \in Kinds : gate'[<<gen, i>>] # "CLEARED"
        BY <1>0, <2>2, <2>3 DEF Order
      <3> QED BY <1>0, <2>4, <3>1, <3>2 DEF Order, Current
    <2>6. FailureIsAsked'
      BY <1>0, <2>3, <2>4 DEF FailureIsAsked, Current, Order
    <2>7. Requests' /\ RepeatsAreAuthorized' /\ effect' \in [Generations -> Effects]
      BY <1>0, <2>4 DEF Records, Requests, RepeatsAreAuthorized
    <2>8. FrozenOnce'
      BY <1>0, <2>2, <2>4 DEF Records, FrozenOnce
    <2>9. Running'
      BY <1>0, <2>2, <2>4 DEF Running, Outside, Planner, AtStep, Current, os, run, bounds
    <2> QED BY <2>3, <2>5, <2>6, <2>7, <2>8, <2>9 DEF IndInv, Records
  <1>6. CASE EditTree
    <2>1. /\ UNCHANGED <<request, effect, gate, process, alive, daemon, run, controls, stops>>
          /\ edits < MaxEdits /\ edits' = edits + 1 /\ tree' = tree + 1
      BY <1>6 DEF EditTree
    <2>2. Records'
      BY <1>0, <2>1, QuietKeeps
    <2>3. Running'
      BY <1>0, <2>1, Numbers DEF Running, Outside, Planner, AtStep, Current, run, request
    <2> QED BY <2>2, <2>3 DEF IndInv
  <1> QED BY <1>1, <1>2, <1>3, <1>4, <1>5, <1>6 DEF Operator

-----------------------------------------------------------------------------
\* The recovery keeps everything in order, in whichever step it is made.
LEMMA RecoversInOrder ==
  ASSUME IndInv, Recovers, goal' = goal, UNCHANGED <<os, bounds>>,
         pc' \in {"idle", "plan"}, pc' = "idle" \/ daemon' \in {"up", "stopping"},
         daemon' \in {daemon, "up"}, context' = context, woken' \in BOOLEAN
  PROVE  IndInv'
  <1>1. Records'
    BY RecoversKeeps DEF IndInv
  <1>2. gen' \in Generations /\ job' \in Jobs
    <2>1. CASE gen' = gen /\ job' = job
      BY <2>1 DEF IndInv, Records, Requests, Running
    <2>2. CASE NextGeneration(InterruptionCode, "recovery", FALSE, "none")
      BY <2>2, StaleEffect DEF NextGeneration, IndInv, Running
    <2> QED BY <2>1, <2>2, RecoversTo DEF IndInv
  <1>3. Outside' /\ tree' = edits'
    BY DEF IndInv, Running, Outside, os, bounds, Steps
  <1>4. Planner'
    <2>1. CASE process = "none"
      BY <2>1 DEF IndInv, Running, Planner, os
    <2>2. CASE process # "none"
      <3>1. UNCHANGED <<paused, gen, effect, gate, job>>
        BY <2>2, RecoversTo DEF Untouched, IndInv
      <3> QED BY <3>1 DEF IndInv, Running, Planner, Current, os
    <2> QED BY <2>1, <2>2
  <1>5. AtStep'
    BY DEF AtStep
  <1> QED BY <1>1, <1>2, <1>3, <1>4, <1>5 DEF IndInv, Running

\* The run is over and nothing is recorded.
LEMMA EndKeeps ==
  ASSUME IndInv, EndRun,
         UNCHANGED <<request, effect, gate, os, daemon, woken, bounds>>
  PROVE  IndInv'
  <1>1. Records'
    BY QuietKeeps DEF IndInv
  <1>2. job' \in Jobs /\ pc' = "idle" /\ context' = "live"
    BY EndRunEffect
  <1>3. Running'
    BY <1>2 DEF IndInv, Running, Outside, Planner, AtStep, Current, request,
       os, bounds, Steps
  <1> QED BY <1>1, <1>3 DEF IndInv

\* A failure is to be recorded.
LEMMA FailKeeps ==
  ASSUME IndInv, NEW g \in Generations, NEW c \in Codes, Fail(g, c),
         pc # "idle",
         c \in {"unconfirmed", "interrupted"} =>
            g = gen /\ Current.state = "EXECUTING" /\ goal # "RUNNING",
         UNCHANGED <<request, effect, gate, os, daemon, woken, bounds>>
  PROVE  IndInv'
  <1>1. Records'
    BY QuietKeeps DEF IndInv
  <1>2. /\ job' \in Jobs /\ job'.gen = g /\ job'.code = c
        /\ pc' = "failing" /\ context' = context
    BY FailEffect
  <1>3. Outside' /\ tree' = edits' /\ Planner'
    BY <1>2 DEF IndInv, Running, Outside, Planner, Current, request, os,
       bounds, Steps
  <1>4. AtStep'
    BY <1>2 DEF IndInv, Running, AtStep, Current, request
  <1> QED BY <1>1, <1>2, <1>3, <1>4 DEF IndInv, Running

\* The steps of the engine keep everything in order: up to the planner's call,
LEMMA EngineBefore ==
  ASSUME IndInv,
         ReadPlanning \/ BeginPlanning \/ RereadRefused \/ StartPlanner
  PROVE  IndInv'
  <1>0. /\ Records /\ Running /\ Requests /\ gen \in Generations
        /\ effect \in [Generations -> Effects]
        /\ gate \in [Generations \X Kinds -> GateStates]
        /\ Outside /\ tree = edits /\ job \in Jobs /\ Planner /\ AtStep /\ Order
        /\ FailureIsAsked /\ "blocked" \in Codes /\ job.gen \in Generations
    BY DEF IndInv, Records, Running, Requests, Codes, Jobs, GatesWithin
  <1>1. CASE ReadPlanning
    <2>0. /\ pc = "plan" /\ UNCHANGED <<goal, os, daemon, woken, bounds>>
          /\ daemon \in {"up", "stopping"} /\ woken' \in BOOLEAN
      BY <1>0, <1>1 DEF ReadPlanning, AtStep, Outside
    <2>1. CASE EndRun /\ UNCHANGED <<paused, gen, effect, gate>>
      BY <2>0, <2>1, EndKeeps DEF request
    <2>2. CASE Fail(gen, "blocked") /\ UNCHANGED <<paused, gen, effect, gate>>
      BY <1>0, <2>0, <2>2, FailKeeps DEF request
    <2>3. CASE /\ ~Idle(Waiting) /\ Current.state = "REQUESTED"
               /\ Goto("begin") /\ job' = [job EXCEPT !.gen = gen, !.fresh = TRUE]
               /\ UNCHANGED <<paused, gen, effect, gate, context>>
      <3>1. job' \in Jobs /\ job'.gen = gen
        BY <1>0, <2>3, FreshEffect
      <3>2. Records'
        BY <1>0, <2>0, <2>3, QuietKeeps DEF request
      <3>3. pc' = "begin"
        BY <2>3 DEF Goto
      <3>4. Outside' /\ tree' = edits' /\ Planner'
        BY <1>0, <2>0, <2>3, <3>3 DEF Outside, Planner, Current, os, bounds, Steps
      <3>5. AtStep'
        BY <2>0, <2>3, <3>1, <3>3 DEF AtStep, Current
      <3> QED BY <3>1, <3>2, <3>4, <3>5 DEF IndInv, Running
    <2>4. CASE /\ Goto("read") /\ UNCHANGED <<paused, gen, effect, gate, job, context>>
      <3>1. Records'
        BY <1>0, <2>0, <2>4, QuietKeeps DEF request
      <3>2. Running'
        BY <1>0, <2>0, <2>4 DEF Running, Outside, Planner, AtStep, Current, os,
           bounds, Steps, Goto
      <3> QED BY <3>1, <3>2 DEF IndInv
    <2>5. CASE /\ Recovers /\ Goto(IF gen' = gen THEN "idle" ELSE "plan")
               /\ UNCHANGED context
      <3>1. pc' \in {"idle", "plan"}
        BY <2>5 DEF Goto
      <3> QED BY <2>0, <2>5, <3>1, RecoversInOrder
    <2> QED BY <1>1, <2>1, <2>2, <2>3, <2>4, <2>5, Zenon DEF ReadPlanning
  <1>2. CASE BeginPlanning
    <2>0. pc = "begin" /\ UNCHANGED <<request, gate, os, daemon, woken, bounds>>
      BY <1>2 DEF BeginPlanning
    <2>1. CASE EndRun /\ UNCHANGED effect
      BY <2>0, <2>1, EndKeeps
    <2>2. CASE Goto("refused") /\ UNCHANGED <<effect, job, context>>
      <3>1. Records'
        BY <1>0, <2>0, <2>2, QuietKeeps DEF request
      <3>2. Running'
        BY <1>0, <2>0, <2>2 DEF Running, Outside, Planner, AtStep, Current, os,
           bounds, Steps, Goto, request
      <3> QED BY <3>1, <3>2 DEF IndInv
    <2>3. CASE /\ ~Overtaken /\ Goto("call") /\ Stale /\ UNCHANGED context
               /\ effect' = [effect EXCEPT ![gen].state = "EXECUTING",
                                           ![gen].input = tree]
      <3>1. /\ job.gen = gen /\ job.fresh /\ goal = "DRAFT" /\ ~paused
            /\ effect[gen].state = "REQUESTED"
        BY <1>0, <2>0, <2>3 DEF Overtaken, Idle, AtStep, Current
      <3>2. /\ goal' = goal /\ paused' = paused /\ gen' = gen /\ gate' = gate
            /\ paused \in BOOLEAN /\ tree \in 0..MaxEdits
        BY <1>0, <2>0 DEF request, Requests, Outside
      <3>3. /\ Within
            /\ effect'[gen].state = "EXECUTING"
            /\ effect'[gen].proposal = effect[gen].proposal
            /\ effect'[gen].calls = effect[gen].calls
        BY <1>0, <2>3, <3>2, BegunEffect
      <3>4. GatesWithin
        BY <1>0, <3>2 DEF GatesWithin
      <3>5. /\ effect[gen].proposal = "none" /\ effect[gen].calls = 0
            /\ \A k \in Kinds : gate[<<gen, k>>] # "CLEARED"
        BY <1>0, <3>1 DEF Order, Current
      <3>6. Records'
        BY <1>0, <3>1, <3>2, <3>3, <3>4, <3>5, WithinKeeps
      <3>7. job' \in Jobs /\ job'.gen = gen /\ pc' = "call"
        BY <1>0, <2>3, <3>1, StaleEffect DEF Stale, Goto
      <3>8. Outside' /\ tree' = edits'
        BY <1>0, <2>0, <2>3, <3>7 DEF Outside, os, bounds, Steps
      <3>9. process = "none" /\ process' = "none" /\ alive' = {}
        BY <1>0, <2>0, <3>1 DEF Planner, Current, os
      <3>10. Planner'
        BY <3>9 DEF Planner
      <3>11. AtStep'
        BY <1>0, <2>0, <3>1, <3>2, <3>3, <3>5, <3>7, <3>9 DEF AtStep, Current
      <3> QED BY <3>6, <3>7, <3>8, <3>10, <3>11 DEF IndInv, Running
    <2> QED BY <1>2, <2>1, <2>2, <2>3, Zenon DEF BeginPlanning
  <1>3. CASE RereadRefused
    BY <1>0, <1>3, FailKeeps DEF RereadRefused
  <1>4. CASE StartPlanner
    <2>0. /\ pc = "call" /\ UNCHANGED <<request, gate, tree, daemon, woken, bounds>>
          /\ job.gen = gen /\ effect[gen].state = "EXECUTING" /\ goal # "RUNNING"
          /\ process = "none" /\ alive = {} /\ effect[gen].calls = 0
          /\ daemon \in {"up", "stopping"}
      BY <1>0, <1>4 DEF StartPlanner, AtStep, Planner, Current
    <2>1. CASE Fail(job.gen, "blocked") /\ UNCHANGED <<effect, process, alive>>
      BY <1>0, <2>0, <2>1, FailKeeps DEF os
    <2>2. CASE /\ \E a \in Answers \ {"unconfirmed"} : Answer(a)
               /\ UNCHANGED <<effect, process, alive>>
      <3>1. /\ job' \in Jobs /\ job'.gen = job.gen /\ pc' = "judge"
            /\ context' = context
        BY <1>0, <2>2, AnswerEffect
      <3>2. Records'
        BY <1>0, <2>0, <2>2, QuietKeeps
      <3>3. Outside' /\ tree' = edits' /\ Planner'
        BY <1>0, <2>0, <2>2, <3>1 DEF Outside, Planner, Current, request,
           bounds, Steps
      <3>4. AtStep'
        BY <2>0, <2>2, <3>1 DEF AtStep, Current, request
      <3> QED BY <3>1, <3>2, <3>3, <3>4 DEF IndInv, Running
    <2>3. CASE /\ Goto("calling") /\ process' = "open" /\ alive' = alive \cup {gen}
               /\ effect' = [effect EXCEPT ![gen].calls = @ + 1]
               /\ UNCHANGED <<job, context>>
      <3>1. /\ goal' = goal /\ paused' = paused /\ gen' = gen /\ gate' = gate
            /\ paused \in BOOLEAN
        BY <1>0, <2>0 DEF request, Requests
      <3>2. /\ Within
            /\ effect'[gen].state = "EXECUTING"
            /\ effect'[gen].proposal = effect[gen].proposal
        BY <1>0, <2>0, <2>3, <3>1, CalledEffect
      <3>3. GatesWithin
        BY <1>0, <3>1 DEF GatesWithin
      <3>4. /\ effect[gen].proposal = "none"
            /\ goal = "DRAFT" => \A k \in Kinds : gate[<<gen, k>>] # "CLEARED"
        BY <1>0, <2>0 DEF Order, Current
      <3>5. Records'
        BY <1>0, <2>0, <3>1, <3>2, <3>3, <3>4, WithinKeeps
      <3>6. pc' = "calling" /\ process' = "open" /\ alive' = {gen}
        BY <2>0, <2>3 DEF Goto
      <3>7. Outside' /\ tree' = edits'
        BY <1>0, <2>0, <2>3, <3>6 DEF Outside, bounds, Steps
      <3>8. Planner' /\ AtStep'
        BY <2>0, <2>3, <3>1, <3>2, <3>6 DEF Planner, AtStep, Current
      <3> QED BY <1>0, <2>3, <3>5, <3>7, <3>8 DEF IndInv, Running
    <2>4. /\ Current.given \in Answers \ {"unconfirmed"}
          /\ "interrupted" \in Answers \ {"unconfirmed"}
      BY <1>0 DEF Current, Effects, Answers, Proposals
    <2> QED BY <1>4, <2>1, <2>2, <2>3, <2>4, Zenon DEF StartPlanner
  <1> QED BY <1>1, <1>2, <1>3, <1>4

\* from the planner's call to the record of how it went,
LEMMA EngineAfter ==
  ASSUME IndInv,
         PlannerEnds \/ Judge \/ PersistPlanningProposal \/ FailPlanning
  PROVE  IndInv'
  <1>0. /\ Records /\ Running /\ Requests /\ gen \in Generations
        /\ effect \in [Generations -> Effects]
        /\ gate \in [Generations \X Kinds -> GateStates]
        /\ Outside /\ tree = edits /\ job \in Jobs /\ Planner /\ AtStep /\ Order
        /\ job.gen \in Generations /\ job.code \in Codes
    BY DEF IndInv, Records, Running, Requests, Jobs
  <1>1. CASE PlannerEnds
    <2>0. /\ pc = "calling" /\ UNCHANGED <<request, effect, gate, tree, daemon, woken, bounds>>
          /\ job.gen = gen /\ effect[gen].state = "EXECUTING" /\ goal # "RUNNING"
          /\ process = "open" /\ alive = {gen} /\ daemon \in {"up", "stopping"}
      BY <1>0, <1>1 DEF PlannerEnds, AtStep, Current
    <2>1. Records'
      BY <1>0, <2>0, QuietKeeps
    <2>2. ASSUME NEW a \in Answers, Answer(a), process' \in {"none", "open", "UNKNOWN"},
                 alive' \subseteq {gen},
                 alive' # {} => process' # "none", a # "unconfirmed" => process' = "none"
          PROVE  Running'
      <3>1. /\ job' \in Jobs /\ job'.gen = job.gen /\ job'.answer = a
            /\ pc' = "judge" /\ context' = context
        BY <1>0, <2>2, AnswerEffect
      <3>2. Outside' /\ tree' = edits'
        BY <1>0, <2>0, <2>2, <3>1 DEF Outside, bounds, Steps
      <3>3. Planner' /\ AtStep'
        BY <2>0, <2>2, <3>1 DEF Planner, AtStep, Current, request
      <3> QED BY <3>1, <3>2, <3>3 DEF Running
    <2>3. CASE /\ process' = "none" /\ alive' = alive \ {gen}
               /\ \E a \in {"good", "bad", "gated", "answer", "interrupted"} : Answer(a)
      <3>1. {"good", "bad", "gated", "answer", "interrupted"} \subseteq Answers
        BY DEF Answers, Proposals
      <3>2. alive' = {}
        BY <2>0, <2>3
      <3> QED BY <2>1, <2>2, <2>3, <3>1, <3>2 DEF IndInv
    <2>4. CASE /\ process' \in {"open", "UNKNOWN"} /\ UNCHANGED alive
               /\ Answer("unconfirmed")
      <3>1. "unconfirmed" \in Answers
        BY DEF Answers
      <3> QED BY <2>0, <2>1, <2>2, <2>4, <3>1 DEF IndInv
    <2> QED BY <1>1, <2>3, <2>4, Zenon DEF PlannerEnds
  <1>2. CASE Judge
    <2>0. /\ pc = "judge" /\ UNCHANGED <<request, effect, gate, os, daemon, woken, bounds>>
          /\ job.gen = gen /\ Current.state = "EXECUTING" /\ goal # "RUNNING"
          /\ daemon \in {"up", "stopping"}
          /\ job.answer # "unconfirmed" => process = "none"
      BY <1>0, <1>2 DEF Judge, AtStep
    <2>1. CASE \E c \in Codes : Fail(job.gen, c)
      BY <1>0, <2>0, <2>1, FailKeeps
    <2>2. CASE job.answer \in Proposals /\ Goto("persist") /\ UNCHANGED <<job, context>>
      <3>1. Records'
        BY <1>0, <2>0, QuietKeeps
      <3>2. job.answer # "unconfirmed" /\ pc' = "persist"
        BY <2>2 DEF Proposals, Goto
      <3>3. Running'
        BY <1>0, <2>0, <2>2, <3>2 DEF Running, Outside, Planner, AtStep,
           Current, os, bounds, Steps, request
      <3> QED BY <3>1, <3>3 DEF IndInv
    <2>3. {"unconfirmed", "blocked", "answer", "interrupted"} \subseteq Codes
      BY DEF Codes
    <2> QED BY <1>2, <2>1, <2>2, <2>3 DEF Judge
  <1>3. CASE PersistPlanningProposal
    <2>0. /\ pc = "persist" /\ UNCHANGED <<request, gate, os, daemon, woken, bounds>>
          /\ job.gen = gen /\ effect[gen].state = "EXECUTING" /\ goal # "RUNNING"
          /\ daemon \in {"up", "stopping"}
          /\ process = "none" /\ alive = {} /\ job.answer \in Proposals
      BY <1>0, <1>3 DEF PersistPlanningProposal, AtStep, Planner, Current
    <2>1. effect' = [effect EXCEPT ![gen].state = "OBSERVING",
                                   ![gen].proposal = job.answer]
      BY <1>3, <2>0 DEF PersistPlanningProposal, Current
    <2>2. /\ goal' = goal /\ paused' = paused /\ gen' = gen /\ gate' = gate
          /\ paused \in BOOLEAN
      BY <1>0, <2>0 DEF request, Requests
    <2>3. Within /\ effect'[gen].state = "OBSERVING"
      <3>1. "OBSERVING" \in EffectStates
        BY DEF EffectStates
      <3> QED BY <1>0, <2>0, <2>1, <2>2, <3>1, ObservedEffect
    <2>4. GatesWithin
      BY <1>0, <2>2 DEF GatesWithin
    <2>5. goal = "DRAFT" => \A k \in Kinds : gate[<<gen, k>>] # "CLEARED"
      BY <1>0 DEF Order
    <2>6. Records'
      BY <1>0, <2>0, <2>2, <2>3, <2>4, <2>5, WithinKeeps
    <2>7. /\ job' \in Jobs /\ pc' \in {"read", "idle"}
          /\ context' \in {context, "live"}
      <3>1. CASE EndRun
        BY <3>1, EndRunEffect
      <3>2. CASE Goto("read") /\ UNCHANGED <<job, context>>
        BY <1>0, <3>2 DEF Goto
      <3> QED BY <1>3, <3>1, <3>2 DEF PersistPlanningProposal
    <2>8. Outside' /\ tree' = edits'
      BY <1>0, <2>0, <2>7 DEF Outside, os, bounds, Steps
    <2>9. Planner' /\ AtStep'
      BY <2>0, <2>7 DEF Planner, AtStep, os
    <2> QED BY <2>6, <2>7, <2>8, <2>9 DEF IndInv, Running
  <1>4. CASE FailPlanning
    <2>0. /\ pc = "failing" /\ EndRun /\ UNCHANGED <<request, os, daemon, woken, bounds>>
          /\ daemon \in {"up", "stopping"}
      BY <1>0, <1>4 DEF FailPlanning, AtStep
    <2>1. CASE UNCHANGED <<effect, gate>>
      BY <2>0, <2>1, EndKeeps
    <2>2. job' \in Jobs /\ pc' = "idle" /\ context' = "live"
      BY <2>0, EndRunEffect
    <2>3. Outside' /\ tree' = edits' /\ AtStep'
      BY <1>0, <2>0, <2>2 DEF Outside, AtStep, os, bounds, Steps
    <2>4. /\ goal' = goal /\ paused' = paused /\ gen' = gen
          /\ paused \in BOOLEAN
      BY <1>0, <2>0 DEF request, Requests
    <2>5. CASE ~Terminal /\ Failed(job.code)
      <3>1. Records'
        BY <1>0, <2>0, <2>5, FailedKeeps
      <3>2. effect'[gen].state = "FAILED"
        BY <1>0, <2>4, <2>5, FailedEffect
      <3>3. Planner'
        BY <1>0, <2>0, <2>4, <3>2 DEF Planner, Current, os
      <3> QED BY <2>2, <2>3, <3>1, <3>3 DEF IndInv, Running
    <2>6. CASE /\ job.code \in {"unconfirmed", "interrupted"} /\ ~Terminal
               /\ (job.code = "unconfirmed" /\ Unconfirmed) \/ Interrupted
      <3>1. effect[gen].state = "EXECUTING" /\ goal # "RUNNING"
        BY <1>0, <2>0, <2>6 DEF AtStep, Current
      <3>2. PICK c \in Codes :
              effect' = [effect EXCEPT ![gen].state = "RECOVERING", ![gen].code = c]
        <4>1. CASE Interrupted
          <5>1. (IF Current.paused THEN "paused" ELSE "interrupted") \in Codes
            BY DEF Codes
          <5> QED BY <4>1, <5>1 DEF Interrupted
        <4>2. CASE Unconfirmed
          <5>1. "unconfirmed" \in Codes
            BY DEF Codes
          <5> QED BY <3>1, <4>2, <5>1 DEF Unconfirmed, Current
        <4> QED BY <2>6, <4>1, <4>2
      <3>3. /\ Within /\ effect'[gen].state = "RECOVERING"
            /\ effect'[gen].proposal = effect[gen].proposal
        <4>1. "RECOVERING" \in EffectStates
          BY DEF EffectStates
        <4> QED BY <1>0, <2>4, <3>2, <4>1, CodedEffect
      <3>4. GatesWithin /\ \A k \in Kinds : gate'[<<gen, k>>] \in {gate[<<gen, k>>], "OPEN"}
        <4>1. CASE gate' = gate
          BY <1>0, <4>1 DEF GatesWithin
        <4>2. CASE gate' = Opened(gate, "unconfirmed")
          <5>1. "unconfirmed" \in Kinds
            BY DEF Kinds
          <5>2. /\ gate' \in [Generations \X Kinds -> GateStates]
                /\ \A g \in Generations, k \in Kinds :
                     \/ gate'[<<g, k>>] = gate[<<g, k>>]
                     \/ g = gen /\ k = "unconfirmed" /\ gate'[<<g, k>>] = "OPEN"
            <6> DEFINE gs == Opened(gate, "unconfirmed")
            <6>1. /\ gs \in [Generations \X Kinds -> GateStates]
                  /\ \A g \in Generations, k \in Kinds :
                       \/ gs[<<g, k>>] = gate[<<g, k>>]
                       \/ g = gen /\ k = "unconfirmed" /\ gs[<<g, k>>] = "OPEN"
              BY <1>0, <5>1, OpenedGate, Zenon
            <6> HIDE DEF gs
            <6>2. gate' = gs
              BY <4>2 DEF gs
            <6> QED BY <6>1, <6>2
          <5> QED BY <1>0, <5>2 DEF GatesWithin
        <4> QED BY <2>6, <3>1, <4>1, <4>2 DEF Unconfirmed, Interrupted, Current
      <3>5. /\ effect[gen].proposal = "none"
            /\ goal = "DRAFT" => \A k \in Kinds : gate[<<gen, k>>] # "CLEARED"
        BY <1>0, <3>1 DEF Order, Current
      <3>6. Records'
        BY <1>0, <2>4, <3>1, <3>3, <3>4, <3>5, WithinKeeps
      <3>7. Planner'
        BY <1>0, <2>0, <2>4, <3>3 DEF Planner, Current, os
      <3> QED BY <2>2, <2>3, <3>6, <3>7 DEF IndInv, Running
    <2> QED BY <1>4, <2>1, <2>5, <2>6 DEF FailPlanning
  <1> QED BY <1>1, <1>2, <1>3, <1>4

\* and from the saved answer to its publication.
LEMMA EnginePublishes ==
  ASSUME IndInv, Reread \/ CheckScene \/ PublishPlanning
  PROVE  IndInv'
  <1>0. /\ Records /\ Running /\ Requests /\ gen \in Generations
        /\ Outside /\ tree = edits /\ job \in Jobs /\ Planner /\ AtStep
        /\ job.gen \in Generations /\ {"blocked", "invalid", "approval"} \subseteq Codes
    BY DEF IndInv, Records, Running, Requests, Jobs, Codes
  <1>1. CASE Reread
    <2>0. /\ pc = "read" /\ UNCHANGED <<request, effect, gate, os, daemon, woken, bounds>>
          /\ daemon \in {"up", "stopping"}
      BY <1>0, <1>1 DEF Reread, AtStep
    <2>1. CASE EndRun
      BY <2>0, <2>1, EndKeeps
    <2>2. CASE /\ Current.state = "OBSERVING"
               /\ Goto("check") /\ job' = [NoJob EXCEPT !.gen = gen, !.fresh = TRUE]
               /\ UNCHANGED context
      <3>1. job' \in Jobs /\ job'.gen = gen /\ pc' = "check"
        BY <1>0, <2>2, FreshEffect DEF Goto
      <3>2. Records'
        BY <1>0, <2>0, QuietKeeps
      <3>3. Running'
        BY <1>0, <2>0, <2>2, <3>1 DEF Running, Outside, Planner, AtStep,
           Current, os, bounds, Steps, request
      <3> QED BY <3>2, <3>3 DEF IndInv
    <2> QED BY <1>1, <2>1, <2>2 DEF Reread, Idle
  <1>2. CASE CheckScene
    <2>0. /\ pc = "check" /\ UNCHANGED <<request, effect, gate, os, daemon, woken, bounds>>
      BY <1>2 DEF CheckScene
    <2>1. CASE Fail(job.gen, "blocked")
      BY <1>0, <2>0, <2>1, FailKeeps
    <2>2. CASE Goto("publish") /\ UNCHANGED <<job, context>>
      <3>1. Records'
        BY <1>0, <2>0, QuietKeeps
      <3>2. Running'
        BY <1>0, <2>0, <2>2 DEF Running, Outside, Planner, AtStep, Current, os,
           bounds, Steps, request, Goto
      <3> QED BY <3>1, <3>2 DEF IndInv
    <2> QED BY <1>2, <2>1, <2>2 DEF CheckScene
  <1>3. CASE PublishPlanning
    <2>0. pc = "publish" /\ UNCHANGED <<paused, gen, os, daemon, woken, bounds>>
      BY <1>3 DEF PublishPlanning
    <2>1. CASE EndRun /\ UNCHANGED <<goal, effect, gate>>
      BY <2>0, <2>1, EndKeeps DEF request
    <2>2. CASE (\E g \in Generations, c \in Codes \ {"unconfirmed", "interrupted"} : Fail(g, c))
               /\ UNCHANGED <<goal, effect, gate>>
      BY <2>0, <2>2, FailKeeps DEF request
    <2>3. CASE /\ ~Overtaken /\ Publishable /\ goal' = "RUNNING" /\ EndRun
               /\ gate' = Cleared(gate)
               /\ effect' = [effect EXCEPT ![gen].state = "SUCCEEDED"]
      <3>1. /\ job.gen = gen /\ job.fresh /\ goal = "DRAFT" /\ ~paused
            /\ Current.state = "OBSERVING"
        BY <1>0, <2>0, <2>3 DEF Overtaken, Idle, AtStep
      <3>2. Records'
        BY <1>0, <2>0, <2>3, <3>1, PublishKeeps DEF Publishable
      <3>3. job' \in Jobs /\ pc' = "idle" /\ context' = "live"
        BY <2>3, EndRunEffect
      <3>4. process' = "none" /\ alive' = {}
        BY <1>0, <2>0, <3>1 DEF Planner, os
      <3>5. Outside' /\ tree' = edits'
        BY <1>0, <2>0, <3>3 DEF Outside, os, bounds, Steps
      <3>6. Planner' /\ AtStep'
        BY <3>3, <3>4 DEF Planner, AtStep
      <3> QED BY <3>2, <3>3, <3>5, <3>6 DEF IndInv, Running
    <2>4. {"invalid", "approval"} \subseteq Codes \ {"unconfirmed", "interrupted"}
      BY <1>0
    <2>5. \/ EndRun /\ UNCHANGED <<goal, effect, gate>>
          \/ (\E g \in Generations, c \in Codes \ {"unconfirmed", "interrupted"} : Fail(g, c))
             /\ UNCHANGED <<goal, effect, gate>>
          \/ /\ ~Overtaken /\ Publishable /\ goal' = "RUNNING" /\ EndRun
             /\ gate' = Cleared(gate)
             /\ effect' = [effect EXCEPT ![gen].state = "SUCCEEDED"]
      BY <1>0, <1>3, <2>4, Zenon DEF PublishPlanning, ActivatePlanRevision
    <2> QED BY <2>1, <2>2, <2>3, <2>5
  <1> QED BY <1>1, <1>2, <1>3

-----------------------------------------------------------------------------
\* The beginning of a run, the signal of a control and the late end of a
\* process keep everything in order.
LEMMA RunKeeps ==
  ASSUME IndInv, RunGoal \/ RunOtherGoal \/ CancelReaches \/ LateExit
  PROVE  IndInv'
  <1>0. /\ Records /\ Running /\ Outside /\ tree = edits /\ job \in Jobs
        /\ Planner /\ AtStep
    BY DEF IndInv, Running
  <1>1. CASE RunGoal
    BY <1>1, RecoversInOrder DEF RunGoal, Goto, Drafting, Up, os, bounds
  <1>2. CASE RunOtherGoal
    <2>1. woken' \in BOOLEAN
      BY <1>0, <1>2 DEF RunOtherGoal, Outside
    <2> QED BY <1>2, <2>1, RecoversInOrder DEF RunOtherGoal, Up, os, bounds
  <1>3. CASE CancelReaches
    <2>1. Records'
      BY <1>0, <1>3, QuietKeeps DEF CancelReaches
    <2>2. Running'
      BY <1>0, <1>3 DEF CancelReaches, Running, Outside, Planner, AtStep,
         Current, request, os, bounds
    <2> QED BY <2>1, <2>2 DEF IndInv
  <1>4. CASE LateExit
    <2>1. Records'
      BY <1>0, <1>4, QuietKeeps DEF LateExit
    <2>2. Running'
      BY <1>0, <1>4 DEF LateExit, Running, Outside, Planner, AtStep, Current,
         request, run, bounds
    <2> QED BY <2>1, <2>2 DEF IndInv
  <1> QED BY <1>1, <1>2, <1>3, <1>4

\* So do a stop, a crash and a start of the daemon.
LEMMA DaemonKeeps ==
  ASSUME IndInv, Daemon
  PROVE  IndInv'
  <1>0. /\ Records /\ Running /\ Outside /\ tree = edits /\ job \in Jobs
        /\ Planner /\ AtStep
    BY DEF IndInv, Running
  <1>1. CASE StopDaemon \/ Stopped
    <2>1. Records'
      BY <1>0, <1>1, QuietKeeps DEF StopDaemon, Stopped
    <2>2. Outside' /\ tree' = edits'
      <3>1. /\ UNCHANGED <<os, pc, controls, edits>>
            /\ daemon' \in {"stopping", "down"}
            /\ CancelRun \/ context' = context
            /\ (stops < MaxStops /\ stops' = stops + 1) \/ stops' = stops
        BY <1>1, Zenon DEF StopDaemon, Stopped, bounds
      <3>2. woken' \in BOOLEAN
        BY <1>0, <1>1 DEF StopDaemon, Stopped, Outside
      <3> QED BY <1>0, <3>1, <3>2, Numbers DEF Outside, CancelRun, os
    <2>3. Planner' /\ AtStep' /\ job' \in Jobs
      BY <1>0, <1>1 DEF StopDaemon, Stopped, Planner, AtStep, Current, request, os
    <2> QED BY <2>1, <2>2, <2>3 DEF IndInv, Running
  <1>2. CASE Crash
    <2>1. Records'
      BY <1>0, <1>2, QuietKeeps DEF Crash
    <2>2. job' \in Jobs /\ pc' = "idle" /\ context' = "live"
      BY <1>2, EndRunEffect DEF Crash
    <2>3. Outside' /\ tree' = edits'
      <3>1. /\ UNCHANGED <<os, controls, edits>> /\ daemon' = "down"
            /\ stops < MaxStops /\ stops' = stops + 1
        BY <1>2 DEF Crash
      <3>2. woken' \in BOOLEAN
        BY <1>2 DEF Crash
      <3> QED BY <1>0, <2>2, <3>1, <3>2, Numbers DEF Outside, os, Steps
    <2>4. Planner' /\ AtStep'
      BY <1>0, <1>2, <2>2 DEF Crash, Planner, AtStep, Current, request, os
    <2> QED BY <2>1, <2>2, <2>3, <2>4 DEF IndInv, Running
  <1>3. CASE RecoverProcesses
    <2>1. Records'
      BY <1>0, <1>3, QuietKeeps DEF RecoverProcesses
    <2>2. Running'
      BY <1>0, <1>3 DEF RecoverProcesses, Running, Outside, Planner, AtStep,
         Current, request, run, bounds
    <2> QED BY <2>1, <2>2 DEF IndInv
  <1>4. CASE RecoverPlanning
    <2>1. /\ pc = "idle" /\ pc' = pc /\ goal' = goal /\ context' = context
          /\ woken' \in BOOLEAN /\ UNCHANGED <<os, bounds>>
      BY <1>0, <1>4 DEF RecoverPlanning, AtStep, Outside
    <2>2. CASE Recovers /\ daemon' = "up"
      BY <2>1, <2>2, RecoversInOrder
    <2>3. CASE daemon' = "refused" /\ UNCHANGED <<paused, gen, effect, gate, job>>
      <3>1. Records'
        BY <1>0, <2>1, <2>3, QuietKeeps DEF request
      <3>2. Running'
        BY <1>0, <2>1, <2>3 DEF Running, Outside, Planner, AtStep, Current, os, bounds
      <3> QED BY <3>1, <3>2 DEF IndInv
    <2> QED BY <1>4, <2>2, <2>3 DEF RecoverPlanning
  <1> QED BY <1>1, <1>2, <1>3, <1>4 DEF Daemon

-----------------------------------------------------------------------------
\* A goal begins with its first generation requested and nothing running.
LEMMA Initially ==
  ASSUME Init
  PROVE  IndInv
  <1>0. paused \in BOOLEAN /\ woken \in BOOLEAN
    BY DEF Init
  <1>1. /\ gen \in Generations /\ Requests
        /\ \A g \in Generations : g # 1 => effect[g] = NoEffect
        /\ effect[1] = NewEffect("user", FALSE, "none")
    BY <1>0, Numbers DEF Init, Requests
  <1>2. /\ NewEffect("user", FALSE, "none") \in Effects
        /\ NewEffect("user", FALSE, "none").state = "REQUESTED"
        /\ NewEffect("user", FALSE, "none").proposal = "none"
        /\ NewEffect("user", FALSE, "none").origin = "user"
        /\ NewEffect("user", FALSE, "none").calls = 0
    <2>1. /\ "user" \in {"none", "user", "recovery", "gate"} /\ FALSE \in BOOLEAN
          /\ "none" \in Proposals /\ "REQUESTED" \in EffectStates
      BY DEF Proposals, EffectStates
    <2>2. NewEffect("user", FALSE, "none") \in Effects
      BY <2>1, NoEffects, Zenon DEF NewEffect, Effects
    <2> QED BY <2>2 DEF NewEffect, NoEffect
  <1>3. effect \in [Generations -> Effects]
    BY <1>1, <1>2, NoEffects DEF Init
  <1>4. /\ gate \in [Generations \X Kinds -> GateStates]
        /\ \A g \in Generations, k \in Kinds : gate[<<g, k>>] = "none"
    BY DEF Init, GateStates
  <1>5. gen = 1 /\ goal = "DRAFT"
    BY DEF Init
  <1>6. Order
    <2>1. \A g \in Generations : ~(g < 1) /\ (g > 1 => g # 1)
      BY Numbers
    <2> QED BY <1>1, <1>2, <1>4, <1>5, <2>1, Numbers DEF Order, Current
  <1>7. RepeatsAreAuthorized
    <2>1. \A g \in Generations : effect[g].origin # "recovery"
      BY <1>1, <1>2, NoEffects
    <2> QED BY <2>1 DEF RepeatsAreAuthorized
  <1>8. FrozenOnce
    <2>1. \A g \in Generations : effect[g].state # "SUCCEEDED"
      BY <1>1, <1>2, NoEffects
    <2> QED BY <1>5, <2>1 DEF FrozenOnce
  <1>9. FailureIsAsked
    BY <1>1, <1>2, <1>5 DEF FailureIsAsked, Current
  <1>10. job \in Jobs
    <2>1. /\ 1 \in Generations /\ FALSE \in BOOLEAN /\ "none" \in Codes
          /\ "none" \in Answers
      BY Numbers DEF Codes, Answers, Proposals
    <2>2. NoJob \in Jobs
      BY <2>1, Zenon DEF NoJob, Jobs
    <2> QED BY <2>2 DEF Init
  <1>11. Outside /\ tree = edits /\ Planner /\ AtStep
    <2>1. /\ process = "none" /\ alive = {} /\ tree = 0 /\ daemon = "up"
          /\ pc = "idle" /\ context = "live"
          /\ controls = 0 /\ edits = 0 /\ stops = 0
      BY DEF Init
    <2>2. Outside /\ tree = edits
      BY <1>0, <2>1, Numbers DEF Outside, Steps
    <2>3. Planner /\ AtStep
      BY <2>1 DEF Planner, AtStep
    <2> QED BY <2>2, <2>3
  <1> QED BY <1>1, <1>3, <1>4, <1>6, <1>7, <1>8, <1>9, <1>10,
      <1>11 DEF IndInv, Records, Running

\* Whatever the operator, the engine, the planner's processes and the daemon
\* do, the records and what runs stay in order.
THEOREM Inductive == Spec => []IndInv
  <1>1. Init => IndInv
    BY Initially
  <1>2. IndInv /\ [Next]_vars => IndInv'
    <2> SUFFICES ASSUME IndInv, [Next]_vars
                 PROVE  IndInv'
      OBVIOUS
    <2>1. CASE RunGoal \/ RunOtherGoal \/ CancelReaches \/ LateExit
      BY <2>1, RunKeeps
    <2>2. CASE Operator
      BY <2>2, OperatorKeeps
    <2>3. CASE Engine
      BY <2>3, EngineBefore, EngineAfter, EnginePublishes DEF Engine
    <2>4. CASE Daemon
      BY <2>4, DaemonKeeps
    <2>5. CASE UNCHANGED vars
      <3>1. Records'
        BY <2>5, QuietKeeps DEF vars, request, IndInv
      <3>2. Running'
        BY <2>5 DEF vars, IndInv, Running, Outside, Planner, AtStep, Current
      <3> QED BY <3>1, <3>2 DEF IndInv
    <2> QED BY <2>1, <2>2, <2>3, <2>4, <2>5 DEF Next
  <1> QED BY <1>1, <1>2, PTL DEF Spec

\* Every variable has its type.
THEOREM TypesHold == Spec => []TypeOK
  <1>1. IndInv => TypeOK
    BY TypeParts DEF IndInv, Records, Running
  <1> QED BY <1>1, Inductive, PTL

\* The planner of one generation at a time runs, and none once the goal has a
\* frozen plan (RunPlanner behind planning.go's recovery).
THEOREM OnePlannerHolds == Spec => []OnePlanner
  <1>1. IndInv => OnePlanner
    <2> SUFFICES ASSUME IndInv
                 PROVE  OnePlanner
      OBVIOUS
    <2>1. alive = {} \/ alive = {gen}
      BY DEF IndInv, Running, Planner
    <2>2. Cardinality(alive) <= 1
      <3>1. Cardinality({}) = 0 /\ Cardinality({gen}) = 1
        BY FS_EmptySet, FS_Singleton
      <3> QED BY <2>1, <3>1
    <2> QED BY <2>1, <2>2 DEF OnePlanner, IndInv, Running, Planner
  <1> QED BY <1>1, Inductive, PTL

\* Nobody repeats a generation on their own that a gate's answer authorized,
\* whose answer is saved, or past the limit of interruptions.
THEOREM RepeatsAreAuthorizedHolds == Spec => []RepeatsAreAuthorized
  <1>1. IndInv => RepeatsAreAuthorized
    BY DEF IndInv, Records
  <1> QED BY <1>1, Inductive, PTL

\* What is frozen is the answer saved for the last generation, and no question
\* of planning is left open.
THEOREM FrozenOnceHolds == Spec => []FrozenOnce
  <1>1. IndInv => FrozenOnce
    BY DEF IndInv, Records
  <1> QED BY <1>1, Inductive, PTL

\* A goal whose planning has failed has a gate that says so.
THEOREM FailureIsAskedHolds == Spec => []FailureIsAsked
  <1>1. IndInv => FailureIsAsked
    BY DEF IndInv, Records
  <1> QED BY <1>1, Inductive, PTL
=============================================================================
