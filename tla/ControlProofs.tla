--------------------------- MODULE ControlProofs ---------------------------
(***************************************************************************)
(* Proofs about Control, for any daemons, clients, keys and bounds: who    *)
(* works owns the project, and a request takes effect at most once.  The   *)
(* two rest on different facts.  Ownership follows from what each stage of *)
(* a daemon's life holds (Locking) and from what may only exist in which   *)
(* stage (Serving); that a request is executed once follows from its       *)
(* record alone, whoever holds the locks (Once), and so does that the      *)
(* control plane implements ServedOnce.                                    *)
(***************************************************************************)
EXTENDS Control, TLAPS

Busy(c) == hand[c].pc \in {"execute", "probe", "read", "complete"}

Types ==
    /\ DaemonTypeOK
    /\ kind \in Mixes /\ record \in [Keys -> {"none", "IN_PROGRESS"} \cup Answers]
    /\ effects \in [Keys -> Nat] /\ current \subseteq Keys
    /\ goal \in {"RUNNING", "WAITING", "OVER"}
    /\ hand \in [Clients -> [at : Daemons \cup {Nobody}, pc : Points,
                             key : Keys \cup {NoKey}, answer : Answers]]
    /\ engine \in [Daemons -> {"off", "idle", "recover", "run"}]
    /\ queue \in [Daemons -> BOOLEAN]
    /\ slot \in [Daemons -> {Free, "run", "probe"}]

\* A client that waits for nobody has no request, a request that is being
\* executed has a key, and no handler answers that it was interrupted.
Shape ==
    \A c \in Clients :
        /\ hand[c].pc = "idle" <=> hand[c].at = Nobody
        /\ hand[c].answer # "interrupted"
        /\ Busy(c) => hand[c].key \in Keys

\* The stages from the second lock to its release.
Held == {"open", "recover", "listen", "serving", "stopping", "joined", "closed"}

Locking ==
    \A d \in Daemons :
        /\ life[d] \in {"state", "unlocked"} => lock["owner"] = d
        /\ life[d] \in Held => \A l \in Locks : lock[l] = d

\* The loop and the requests live between the listener's start and their join.
Serving ==
    /\ \A d \in Daemons :
          engine[d] # "off" => life[d] \in {"serving", "stopping", "joined"}
    /\ \A c \in Clients :
          hand[c].at \in Daemons => life[hand[c].at] \in {"serving", "stopping"}

\* One run or one probe has the slot.
Probes(c, d) == hand[c].at = d /\ hand[c].pc = "probe"
Slots ==
    \A d \in Daemons :
        /\ slot[d] = "run" <=> engine[d] \in {"recover", "run"}
        /\ slot[d] = "probe" <=> \E c \in Clients : Probes(c, d)
        /\ \A b, c \in Clients : Probes(b, d) /\ Probes(c, d) => b = c

\* The handler that has a key is the only one, its record is not yet answered,
\* and how far it came tells whether the request took effect.
Holds(c) ==
    LET k == hand[c].key IN
    /\ record[k] \in {"IN_PROGRESS", "interrupted"}
    /\ hand[c].pc = "execute" => effects[k] = 0
    /\ hand[c].pc \in {"probe", "read"} => effects[k] = 1
    /\ hand[c].pc = "complete" /\ hand[c].answer = "ok" => effects[k] = 1
    /\ hand[c].pc = "complete" /\ hand[c].answer = "refused" => effects[k] = 0
Once ==
    /\ AtMostOnce
    /\ \A c \in Clients : Busy(c) => Holds(c)
    /\ \A b, c \in Clients : Busy(b) /\ Busy(c) /\ hand[b].key = hand[c].key => b = c

IndInv == Types /\ Shape /\ Locking /\ Serving /\ Slots /\ Once
-----------------------------------------------------------------------------
USE DEF daemonVars, controlVars, vars, Loop, Goes, MayFault, Continues,
        Answered, Done, Takes, Hand, Idle

\* The initial states satisfy the inductive invariant.
LEMMA InitInd == Init => IndInv
  <1> SUFFICES ASSUME Init PROVE IndInv
    OBVIOUS
  <1> USE DaemonAssumption, ControlAssumption
      DEF Init, DaemonInit
  <1>1. Types
    BY DEF Types, DaemonTypeOK, Answers, Points, Locks, Stages
  <1>2. Shape
    BY DEF Shape, Busy
  <1>3. Locking
    BY DEF Locking, Held
  <1>4. Serving
    BY DEF Serving
  <1>5. Slots
    BY DEF Slots, Probes, Free
  <1>6. Once
    BY DEF Once, AtMostOnce, Busy, Holds
  <1> QED BY <1>1, <1>2, <1>3, <1>4, <1>5, <1>6 DEF IndInv

\* The steps of a request, of the loop and of the daemon's life.
Requesting(c) ==
    \/ StopWatching(c) \/ Watch(c) \/ Refuse(c) \/ Steer(c) \/ ReadBack(c)
    \/ EnterProbe(c) \/ EndProbe(c)
    \/ CompleteIdempotentRequest(c) \/ CompletionFails(c)
Living(d) ==
    \/ Acquire(d, "owner", "state") \/ Acquire(d, "state", "open")
    \/ AcquireRefused(d) \/ OpenStore(d) \/ ReleaseLocks(d)
    \/ Launch(d) \/ RequestStop(d) \/ StartFails(d)

\* The cases of Next that the lemmas below go through.
LEMMA NextCases ==
  ASSUME Next
  PROVE  \/ \E c \in Clients : Requesting(c)
         \/ \E d \in Daemons, c \in Clients, k \in Keys :
               AcceptGoal(d, c, k) \/ BeginIdempotentRequest(d, c, k)
         \/ \E d \in Daemons : Living(d) /\ UNCHANGED controlVars
         \/ \E d \in Daemons : RecoverAll(d) \/ StartServing(d) \/ Join(d) \/ Close(d)
         \/ \E d \in Daemons : Execute(d)
         \/ \E d \in Daemons : Crash(d)
  <1>1. CASE \E c \in Clients : Handle(c) \/ Watch(c) \/ StopWatching(c)
    BY <1>1, Zenon DEF Handle, Requesting
  <1>2. CASE \E d \in Daemons, c \in Clients, k \in Keys :
               AcceptGoal(d, c, k) \/ BeginIdempotentRequest(d, c, k)
    BY <1>2
  <1>3. CASE \E d \in Daemons : Advance(d) \/ Execute(d) \/ Command(d) \/ Crash(d)
    BY <1>3, Zenon DEF Advance, Command, Living
  <1> QED BY <1>1, <1>2, <1>3, Zenon DEF Next

\* The record of a client keeps its shape when the client's handler moves on.
Hands == [Clients -> [at : Daemons \cup {Nobody}, pc : Points,
                      key : Keys \cup {NoKey}, answer : Answers]]
LEMMA HandTyped ==
  ASSUME NEW c \in Clients, hand \in Hands
  PROVE  /\ \A answer \in Answers : Answered(c, answer) => hand' \in Hands
         /\ \A d \in Daemons, p \in Points, k \in Keys \cup {NoKey} :
               Takes(c, d, p, k) => hand' \in Hands
  <1>1. ASSUME NEW answer \in Answers, Answered(c, answer) PROVE hand' \in Hands
    BY <1>1 DEF Hands, Points
  <1>2. ASSUME NEW d \in Daemons, NEW p \in Points, NEW k \in Keys \cup {NoKey},
               Takes(c, d, p, k)
        PROVE  hand' \in Hands
    BY <1>2 DEF Hands, Answers
  <1> QED BY <1>1, <1>2

\* What the last read of the goal means for the request.
LEMMA ReadBackEnds ==
  ASSUME NEW c, ReadBack(c)
  PROVE  /\ hand[c].pc = "read"
         /\ Answered(c, "error") \/ Answered(c, "ok")
         /\ UNCHANGED <<daemonVars, kind, record, effects, current, goal, engine, slot>>
  BY Zenon DEF ReadBack

\* Types survive every step.
LEMMA TypesStep ==
  ASSUME Types, Shape, Next
  PROVE  Types'
  <1> USE DaemonAssumption, ControlAssumption
      DEF Types, Shape, Busy, DaemonTypeOK, Stages, Locks, Answers, Points, Hands
  <1>1. CASE \E c \in Clients : Requesting(c)
    <2> SUFFICES ASSUME NEW c \in Clients, Requesting(c) PROVE Types'
      BY <1>1
    <2>1. CASE StopWatching(c)
      BY <2>1 DEF StopWatching
    <2>2. CASE Watch(c)
      <3>1. PICK e \in Daemons : Takes(c, e, "watch", NoKey)
        BY <2>2 DEF Watch
      <3>2. hand' \in Hands
        BY <3>1, HandTyped
      <3> QED BY <3>2, <2>2 DEF Watch, Hands
    <2>3. CASE Refuse(c)
      <3>1. PICK answer \in Answers : Answered(c, answer)
        BY <2>3 DEF Refuse
      <3>2. hand' \in Hands
        BY <3>1, HandTyped
      <3> QED BY <3>2, <2>3 DEF Refuse, Hands
    <2>4. CASE Steer(c)
      BY <2>4 DEF Steer, Target, Unsent
    <2>5. CASE ReadBack(c)
      <3>1. hand' \in Hands
        BY <2>5, ReadBackEnds, HandTyped
      <3>2. queue' \in [Daemons -> BOOLEAN]
        <4>1. CASE UNCHANGED queue
          BY <4>1
        <4>2. CASE queue' = [queue EXCEPT ![hand[c].at] = @ \/ kind[hand[c].key] = "resume"]
          BY <4>2, Zenon
        <4> QED BY <4>1, <4>2, <2>5, Zenon DEF ReadBack
      <3>3. UNCHANGED <<daemonVars, kind, record, effects, current, goal, engine, slot>>
        BY <2>5, ReadBackEnds
      <3> QED BY <3>1, <3>2, <3>3 DEF Hands
    <2>6. CASE EnterProbe(c)
      BY <2>6 DEF EnterProbe
    <2>7. CASE EndProbe(c)
      <3>1. PICK answer \in Answers : Answered(c, answer)
        BY <2>7 DEF EndProbe
      <3>2. hand' \in Hands
        BY <3>1, HandTyped
      <3> QED BY <3>2, <2>7 DEF EndProbe, Hands
    <2>8. CASE CompleteIdempotentRequest(c)
      BY <2>8 DEF CompleteIdempotentRequest
    <2>9. CASE CompletionFails(c)
      BY <2>9 DEF CompletionFails
    <2> QED BY <2>1, <2>2, <2>3, <2>4, <2>5, <2>6, <2>7, <2>8, <2>9, Zenon DEF Requesting
  <1>2. CASE \E d \in Daemons, c \in Clients, k \in Keys :
               AcceptGoal(d, c, k) \/ BeginIdempotentRequest(d, c, k)
    <2> SUFFICES ASSUME NEW d \in Daemons, NEW c \in Clients, NEW k \in Keys,
                        AcceptGoal(d, c, k) \/ BeginIdempotentRequest(d, c, k)
                 PROVE  Types'
      BY <1>2
    <2>1. CASE AcceptGoal(d, c, k)
      BY <2>1 DEF AcceptGoal, Receives
    <2>2. CASE BeginIdempotentRequest(d, c, k)
      BY <2>2 DEF BeginIdempotentRequest, Receives, New
    <2> QED BY <2>1, <2>2
  <1>3. CASE \E d \in Daemons : Living(d) /\ UNCHANGED controlVars
    <2> SUFFICES ASSUME NEW d \in Daemons, Living(d), UNCHANGED controlVars
                 PROVE  Types'
      BY <1>3
    <2>1. CASE Acquire(d, "owner", "state")
      BY <2>1 DEF Acquire
    <2>2. CASE Acquire(d, "state", "open")
      BY <2>2 DEF Acquire
    <2>3. CASE AcquireRefused(d)
      BY <2>3 DEF AcquireRefused, Released
    <2>4. CASE OpenStore(d)
      BY <2>4 DEF OpenStore
    <2>5. CASE ReleaseLocks(d)
      BY <2>5 DEF ReleaseLocks
    <2>6. CASE Launch(d)
      BY <2>6 DEF Launch
    <2>7. CASE RequestStop(d)
      BY <2>7 DEF RequestStop
    <2>8. CASE StartFails(d)
      BY <2>8 DEF StartFails, Released
    <2> QED BY <2>1, <2>2, <2>3, <2>4, <2>5, <2>6, <2>7, <2>8, Zenon DEF Living
  <1>4. CASE \E d \in Daemons : RecoverAll(d) \/ StartServing(d) \/ Join(d) \/ Close(d)
    <2> SUFFICES ASSUME NEW d \in Daemons,
                        RecoverAll(d) \/ StartServing(d) \/ Join(d) \/ Close(d)
                 PROVE  Types'
      BY <1>4
    <2>1. CASE RecoverAll(d)
      BY <2>1 DEF RecoverAll, RecoverState, Interrupted
    <2>2. CASE StartServing(d)
      <3>1. queue' \in [Daemons -> BOOLEAN]
        BY <2>2, Zenon DEF StartServing
      <3>2. engine' \in [Daemons -> {"off", "idle", "recover", "run"}]
        BY <2>2, Zenon DEF StartServing
      <3>3. DaemonTypeOK'
        BY <2>2 DEF StartServing, Listen, Released
      <3> QED BY <3>1, <3>2, <3>3, <2>2, Zenon DEF StartServing
    <2>3. CASE Join(d)
      BY <2>3 DEF Join, CloseServer, Requests
    <2>4. CASE Close(d)
      BY <2>4 DEF Close, CloseStore
    <2> QED BY <2>1, <2>2, <2>3, <2>4
  <1>5. CASE \E d \in Daemons : Execute(d)
    <2> SUFFICES ASSUME NEW d \in Daemons, Execute(d) PROVE Types'
      BY <1>5
    <2>1. CASE Tick(d)
      BY <2>1 DEF Tick
    <2>2. CASE RunGoal(d)
      BY <2>2 DEF RunGoal
    <2>3. CASE RunRecovers(d)
      BY <2>3 DEF RunRecovers, Interrupted
    <2>4. CASE RunEnds(d)
      BY <2>4 DEF RunEnds, Unsent
    <2>5. CASE EngineStops(d)
      BY <2>5 DEF EngineStops
    <2> QED BY <2>1, <2>2, <2>3, <2>4, <2>5, Zenon DEF Execute
  <1>6. CASE \E d \in Daemons : Crash(d)
    <2> SUFFICES ASSUME NEW d \in Daemons, Crash(d) PROVE Types'
      BY <1>6 DEF Crash
    <2> QED BY DEF Crash, CrashDaemon, Released
  <1> QED BY <1>1, <1>2, <1>3, <1>4, <1>5, <1>6, NextCases, Zenon

\* A request has a key and a daemon until it is answered.
LEMMA ShapeStep ==
  ASSUME Types, Shape, Next
  PROVE  Shape'
  <1> USE DaemonAssumption, ControlAssumption
      DEF Types, Shape, Busy, Answers, Points, Held
  <1>1. CASE \E c \in Clients : Requesting(c)
    <2> SUFFICES ASSUME NEW c \in Clients, Requesting(c) PROVE Shape'
      BY <1>1
    <2>1. CASE StopWatching(c)
      BY <2>1 DEF StopWatching
    <2>2. CASE Watch(c)
      BY <2>2 DEF Watch, Receives
    <2>3. CASE Refuse(c)
      BY <2>3 DEF Refuse, Cancelled
    <2>4. CASE Steer(c)
      BY <2>4 DEF Steer, Target, Unsent
    <2>5. CASE ReadBack(c)
      <3>1. PICK answer \in {"error", "ok"} : Answered(c, answer)
        BY <2>5, ReadBackEnds
      <3>2. /\ hand[c].pc = "read"
            /\ UNCHANGED <<daemonVars, kind, record, effects, current, goal, engine, slot>>
        BY <2>5, ReadBackEnds
      <3> QED BY <3>1, <3>2
    <2>6. CASE EnterProbe(c)
      BY <2>6 DEF EnterProbe
    <2>7. CASE EndProbe(c)
      BY <2>7 DEF EndProbe, Cancelled
    <2>8. CASE CompleteIdempotentRequest(c)
      BY <2>8 DEF CompleteIdempotentRequest
    <2>9. CASE CompletionFails(c)
      BY <2>9 DEF CompletionFails
    <2> QED BY <2>1, <2>2, <2>3, <2>4, <2>5, <2>6, <2>7, <2>8, <2>9, Zenon DEF Requesting
  <1>2. CASE \E d \in Daemons, c \in Clients, k \in Keys :
               AcceptGoal(d, c, k) \/ BeginIdempotentRequest(d, c, k)
    <2> SUFFICES ASSUME NEW d \in Daemons, NEW c \in Clients, NEW k \in Keys,
                        AcceptGoal(d, c, k) \/ BeginIdempotentRequest(d, c, k)
                 PROVE  Shape'
      BY <1>2
    <2>1. CASE AcceptGoal(d, c, k)
      BY <2>1 DEF AcceptGoal, Receives
    <2>2. CASE BeginIdempotentRequest(d, c, k)
      BY <2>2 DEF BeginIdempotentRequest, Receives, New
    <2> QED BY <2>1, <2>2
  <1>3. CASE \E d \in Daemons : Living(d) /\ UNCHANGED controlVars
    <2> SUFFICES ASSUME NEW d \in Daemons, Living(d), UNCHANGED controlVars
                 PROVE  Shape'
      BY <1>3
    <2>1. CASE Acquire(d, "owner", "state")
      BY <2>1 DEF Acquire
    <2>2. CASE Acquire(d, "state", "open")
      BY <2>2 DEF Acquire
    <2>3. CASE AcquireRefused(d)
      BY <2>3 DEF AcquireRefused, Released
    <2>4. CASE OpenStore(d)
      BY <2>4 DEF OpenStore
    <2>5. CASE ReleaseLocks(d)
      BY <2>5 DEF ReleaseLocks
    <2>6. CASE Launch(d)
      BY <2>6 DEF Launch
    <2>7. CASE RequestStop(d)
      BY <2>7 DEF RequestStop
    <2>8. CASE StartFails(d)
      BY <2>8 DEF StartFails, Released
    <2> QED BY <2>1, <2>2, <2>3, <2>4, <2>5, <2>6, <2>7, <2>8, Zenon DEF Living
  <1>4. CASE \E d \in Daemons : RecoverAll(d) \/ StartServing(d) \/ Join(d) \/ Close(d)
    <2> SUFFICES ASSUME NEW d \in Daemons,
                        RecoverAll(d) \/ StartServing(d) \/ Join(d) \/ Close(d)
                 PROVE  Shape'
      BY <1>4
    <2>1. CASE RecoverAll(d)
      BY <2>1 DEF RecoverAll, RecoverState, Interrupted
    <2>2. CASE StartServing(d)
      BY <2>2 DEF StartServing, Listen, Answering, Released
    <2>3. CASE Join(d)
      BY <2>3 DEF Join, CloseServer, Requests
    <2>4. CASE Close(d)
      BY <2>4 DEF Close, CloseStore
    <2> QED BY <2>1, <2>2, <2>3, <2>4
  <1>5. CASE \E d \in Daemons : Execute(d)
    <2> SUFFICES ASSUME NEW d \in Daemons, Execute(d) PROVE Shape'
      BY <1>5
    <2>1. CASE Tick(d)
      BY <2>1 DEF Tick
    <2>2. CASE RunGoal(d)
      BY <2>2 DEF RunGoal
    <2>3. CASE RunRecovers(d)
      BY <2>3 DEF RunRecovers, Interrupted
    <2>4. CASE RunEnds(d)
      BY <2>4 DEF RunEnds, Unsent
    <2>5. CASE EngineStops(d)
      BY <2>5 DEF EngineStops
    <2> QED BY <2>1, <2>2, <2>3, <2>4, <2>5, Zenon DEF Execute
  <1>6. CASE \E d \in Daemons : Crash(d)
    <2> SUFFICES ASSUME NEW d \in Daemons, Crash(d) PROVE Shape'
      BY <1>6 DEF Crash
    <2> QED BY DEF Crash, CrashDaemon, Released
  <1> QED BY <1>1, <1>2, <1>3, <1>4, <1>5, <1>6, NextCases, Zenon

\* Each stage of a daemon's life keeps the locks it took.
LEMMA LockingStep ==
  ASSUME Types, Locking, Next
  PROVE  Locking'
  <1> USE DaemonAssumption, ControlAssumption
      DEF Types, DaemonTypeOK, Locking, Held, Stages, Locks
  <1>1. CASE \E c \in Clients : Requesting(c)
    <2> SUFFICES ASSUME NEW c \in Clients, Requesting(c) PROVE Locking'
      BY <1>1
    <2>1. CASE StopWatching(c)
      BY <2>1 DEF StopWatching
    <2>2. CASE Watch(c)
      BY <2>2 DEF Watch, Receives
    <2>3. CASE Refuse(c)
      BY <2>3 DEF Refuse, Cancelled
    <2>4. CASE Steer(c)
      BY <2>4 DEF Steer, Target, Unsent
    <2>5. CASE ReadBack(c)
      <3>1. PICK answer \in {"error", "ok"} : Answered(c, answer)
        BY <2>5, ReadBackEnds
      <3>2. /\ hand[c].pc = "read"
            /\ UNCHANGED <<daemonVars, kind, record, effects, current, goal, engine, slot>>
        BY <2>5, ReadBackEnds
      <3> QED BY <3>1, <3>2
    <2>6. CASE EnterProbe(c)
      BY <2>6 DEF EnterProbe
    <2>7. CASE EndProbe(c)
      BY <2>7 DEF EndProbe, Cancelled
    <2>8. CASE CompleteIdempotentRequest(c)
      BY <2>8 DEF CompleteIdempotentRequest
    <2>9. CASE CompletionFails(c)
      BY <2>9 DEF CompletionFails
    <2> QED BY <2>1, <2>2, <2>3, <2>4, <2>5, <2>6, <2>7, <2>8, <2>9, Zenon DEF Requesting
  <1>2. CASE \E d \in Daemons, c \in Clients, k \in Keys :
               AcceptGoal(d, c, k) \/ BeginIdempotentRequest(d, c, k)
    <2> SUFFICES ASSUME NEW d \in Daemons, NEW c \in Clients, NEW k \in Keys,
                        AcceptGoal(d, c, k) \/ BeginIdempotentRequest(d, c, k)
                 PROVE  Locking'
      BY <1>2
    <2>1. CASE AcceptGoal(d, c, k)
      BY <2>1 DEF AcceptGoal, Receives
    <2>2. CASE BeginIdempotentRequest(d, c, k)
      BY <2>2 DEF BeginIdempotentRequest, Receives, New
    <2> QED BY <2>1, <2>2
  <1>3. CASE \E d \in Daemons : Living(d) /\ UNCHANGED controlVars
    <2> SUFFICES ASSUME NEW d \in Daemons, Living(d), UNCHANGED controlVars
                 PROVE  Locking'
      BY <1>3
    <2>1. CASE Acquire(d, "owner", "state")
      BY <2>1 DEF Acquire
    <2>2. CASE Acquire(d, "state", "open")
      BY <2>2 DEF Acquire
    <2>3. CASE AcquireRefused(d)
      BY <2>3 DEF AcquireRefused, Released
    <2>4. CASE OpenStore(d)
      BY <2>4 DEF OpenStore
    <2>5. CASE ReleaseLocks(d)
      BY <2>5 DEF ReleaseLocks
    <2>6. CASE Launch(d)
      BY <2>6 DEF Launch
    <2>7. CASE RequestStop(d)
      BY <2>7 DEF RequestStop
    <2>8. CASE StartFails(d)
      BY <2>8 DEF StartFails, Released
    <2> QED BY <2>1, <2>2, <2>3, <2>4, <2>5, <2>6, <2>7, <2>8, Zenon DEF Living
  <1>4. CASE \E d \in Daemons : RecoverAll(d) \/ StartServing(d) \/ Join(d) \/ Close(d)
    <2> SUFFICES ASSUME NEW d \in Daemons,
                        RecoverAll(d) \/ StartServing(d) \/ Join(d) \/ Close(d)
                 PROVE  Locking'
      BY <1>4
    <2>1. CASE RecoverAll(d)
      BY <2>1 DEF RecoverAll, RecoverState, Interrupted
    <2>2. CASE StartServing(d)
      BY <2>2 DEF StartServing, Listen, Answering, Released
    <2>3. CASE Join(d)
      BY <2>3 DEF Join, CloseServer, Requests
    <2>4. CASE Close(d)
      BY <2>4 DEF Close, CloseStore
    <2> QED BY <2>1, <2>2, <2>3, <2>4
  <1>5. CASE \E d \in Daemons : Execute(d)
    <2> SUFFICES ASSUME NEW d \in Daemons, Execute(d) PROVE Locking'
      BY <1>5
    <2>1. CASE Tick(d)
      BY <2>1 DEF Tick
    <2>2. CASE RunGoal(d)
      BY <2>2 DEF RunGoal
    <2>3. CASE RunRecovers(d)
      BY <2>3 DEF RunRecovers, Interrupted
    <2>4. CASE RunEnds(d)
      BY <2>4 DEF RunEnds, Unsent
    <2>5. CASE EngineStops(d)
      BY <2>5 DEF EngineStops
    <2> QED BY <2>1, <2>2, <2>3, <2>4, <2>5, Zenon DEF Execute
  <1>6. CASE \E d \in Daemons : Crash(d)
    <2> SUFFICES ASSUME NEW d \in Daemons, Crash(d) PROVE Locking'
      BY <1>6 DEF Crash
    <2> QED BY DEF Crash, CrashDaemon, Released
  <1> QED BY <1>1, <1>2, <1>3, <1>4, <1>5, <1>6, NextCases, Zenon

\* The loop and the requests end before their daemon leaves.
LEMMA ServingStep ==
  ASSUME Types, Shape, Serving, Next
  PROVE  Serving'
  <1> USE DaemonAssumption, ControlAssumption
      DEF Types, DaemonTypeOK, Shape, Serving, Stages, Busy
  <1>1. CASE \E c \in Clients : Requesting(c)
    <2> SUFFICES ASSUME NEW c \in Clients, Requesting(c) PROVE Serving'
      BY <1>1
    <2>1. CASE StopWatching(c)
      BY <2>1 DEF StopWatching
    <2>2. CASE Watch(c)
      BY <2>2 DEF Watch, Receives
    <2>3. CASE Refuse(c)
      BY <2>3 DEF Refuse, Cancelled
    <2>4. CASE Steer(c)
      BY <2>4 DEF Steer, Target, Unsent
    <2>5. CASE ReadBack(c)
      <3>1. PICK answer \in {"error", "ok"} : Answered(c, answer)
        BY <2>5, ReadBackEnds
      <3>2. /\ hand[c].pc = "read"
            /\ UNCHANGED <<daemonVars, kind, record, effects, current, goal, engine, slot>>
        BY <2>5, ReadBackEnds
      <3> QED BY <3>1, <3>2
    <2>6. CASE EnterProbe(c)
      BY <2>6 DEF EnterProbe
    <2>7. CASE EndProbe(c)
      BY <2>7 DEF EndProbe, Cancelled
    <2>8. CASE CompleteIdempotentRequest(c)
      BY <2>8 DEF CompleteIdempotentRequest
    <2>9. CASE CompletionFails(c)
      BY <2>9 DEF CompletionFails
    <2> QED BY <2>1, <2>2, <2>3, <2>4, <2>5, <2>6, <2>7, <2>8, <2>9, Zenon DEF Requesting
  <1>2. CASE \E d \in Daemons, c \in Clients, k \in Keys :
               AcceptGoal(d, c, k) \/ BeginIdempotentRequest(d, c, k)
    <2> SUFFICES ASSUME NEW d \in Daemons, NEW c \in Clients, NEW k \in Keys,
                        AcceptGoal(d, c, k) \/ BeginIdempotentRequest(d, c, k)
                 PROVE  Serving'
      BY <1>2
    <2>1. CASE AcceptGoal(d, c, k)
      BY <2>1 DEF AcceptGoal, Receives
    <2>2. CASE BeginIdempotentRequest(d, c, k)
      BY <2>2 DEF BeginIdempotentRequest, Receives, New
    <2> QED BY <2>1, <2>2
  <1>3. CASE \E d \in Daemons : Living(d) /\ UNCHANGED controlVars
    <2> SUFFICES ASSUME NEW d \in Daemons, Living(d), UNCHANGED controlVars
                 PROVE  Serving'
      BY <1>3
    <2>1. CASE Acquire(d, "owner", "state")
      BY <2>1 DEF Acquire
    <2>2. CASE Acquire(d, "state", "open")
      BY <2>2 DEF Acquire
    <2>3. CASE AcquireRefused(d)
      <3>1. life[d] \in Locks /\ life' = [life EXCEPT ![d] = "none"]
        BY <2>3 DEF AcquireRefused
      <3> QED BY <3>1 DEF Locks
    <2>4. CASE OpenStore(d)
      BY <2>4 DEF OpenStore
    <2>5. CASE ReleaseLocks(d)
      BY <2>5 DEF ReleaseLocks
    <2>6. CASE Launch(d)
      BY <2>6 DEF Launch
    <2>7. CASE RequestStop(d)
      BY <2>7 DEF RequestStop
    <2>8. CASE StartFails(d)
      BY <2>8 DEF StartFails, Released
    <2> QED BY <2>1, <2>2, <2>3, <2>4, <2>5, <2>6, <2>7, <2>8, Zenon DEF Living
  <1>4. CASE \E d \in Daemons : RecoverAll(d) \/ StartServing(d) \/ Join(d) \/ Close(d)
    <2> SUFFICES ASSUME NEW d \in Daemons,
                        RecoverAll(d) \/ StartServing(d) \/ Join(d) \/ Close(d)
                 PROVE  Serving'
      BY <1>4
    <2>1. CASE RecoverAll(d)
      BY <2>1 DEF RecoverAll, RecoverState, Interrupted
    <2>2. CASE StartServing(d)
      BY <2>2 DEF StartServing, Listen, Answering, Released
    <2>3. CASE Join(d)
      BY <2>3 DEF Join, CloseServer, Requests
    <2>4. CASE Close(d)
      BY <2>4 DEF Close, CloseStore
    <2> QED BY <2>1, <2>2, <2>3, <2>4
  <1>5. CASE \E d \in Daemons : Execute(d)
    <2> SUFFICES ASSUME NEW d \in Daemons, Execute(d) PROVE Serving'
      BY <1>5
    <2>1. CASE Tick(d)
      BY <2>1 DEF Tick
    <2>2. CASE RunGoal(d)
      BY <2>2 DEF RunGoal
    <2>3. CASE RunRecovers(d)
      BY <2>3 DEF RunRecovers, Interrupted
    <2>4. CASE RunEnds(d)
      BY <2>4 DEF RunEnds, Unsent
    <2>5. CASE EngineStops(d)
      BY <2>5 DEF EngineStops
    <2> QED BY <2>1, <2>2, <2>3, <2>4, <2>5, Zenon DEF Execute
  <1>6. CASE \E d \in Daemons : Crash(d)
    <2> SUFFICES ASSUME NEW d \in Daemons, Crash(d) PROVE Serving'
      BY <1>6 DEF Crash
    <2> QED BY DEF Crash, CrashDaemon, Released
  <1> QED BY <1>1, <1>2, <1>3, <1>4, <1>5, <1>6, NextCases, Zenon

\* One run or one probe has the slot of a daemon.
LEMMA SlotsStep ==
  ASSUME Types, Shape, Serving, Slots, Next
  PROVE  Slots'
  <1> USE DaemonAssumption, ControlAssumption
      DEF Types, DaemonTypeOK, Shape, Serving, Slots, Probes, Stages, Busy, Free
  <1>1. CASE \E c \in Clients : Requesting(c)
    <2> SUFFICES ASSUME NEW c \in Clients, Requesting(c) PROVE Slots'
      BY <1>1
    <2>1. CASE StopWatching(c)
      BY <2>1 DEF StopWatching
    <2>2. CASE Watch(c)
      BY <2>2 DEF Watch, Receives
    <2>3. CASE Refuse(c)
      BY <2>3 DEF Refuse, Cancelled
    <2>4. CASE Steer(c)
      BY <2>4 DEF Steer, Target, Unsent
    <2>5. CASE ReadBack(c)
      <3>1. PICK answer \in {"error", "ok"} : Answered(c, answer)
        BY <2>5, ReadBackEnds
      <3>2. /\ hand[c].pc = "read"
            /\ UNCHANGED <<daemonVars, kind, record, effects, current, goal, engine, slot>>
        BY <2>5, ReadBackEnds
      <3> QED BY <3>1, <3>2
    <2>6. CASE EnterProbe(c)
      BY <2>6 DEF EnterProbe
    <2>7. CASE EndProbe(c)
      BY <2>7 DEF EndProbe, Cancelled
    <2>8. CASE CompleteIdempotentRequest(c)
      BY <2>8 DEF CompleteIdempotentRequest
    <2>9. CASE CompletionFails(c)
      BY <2>9 DEF CompletionFails
    <2> QED BY <2>1, <2>2, <2>3, <2>4, <2>5, <2>6, <2>7, <2>8, <2>9, Zenon DEF Requesting
  <1>2. CASE \E d \in Daemons, c \in Clients, k \in Keys :
               AcceptGoal(d, c, k) \/ BeginIdempotentRequest(d, c, k)
    <2> SUFFICES ASSUME NEW d \in Daemons, NEW c \in Clients, NEW k \in Keys,
                        AcceptGoal(d, c, k) \/ BeginIdempotentRequest(d, c, k)
                 PROVE  Slots'
      BY <1>2
    <2>1. CASE AcceptGoal(d, c, k)
      BY <2>1 DEF AcceptGoal, Receives
    <2>2. CASE BeginIdempotentRequest(d, c, k)
      BY <2>2 DEF BeginIdempotentRequest, Receives, New
    <2> QED BY <2>1, <2>2
  <1>3. CASE \E d \in Daemons : Living(d) /\ UNCHANGED controlVars
    <2> SUFFICES ASSUME NEW d \in Daemons, Living(d), UNCHANGED controlVars
                 PROVE  Slots'
      BY <1>3
    <2>1. CASE Acquire(d, "owner", "state")
      BY <2>1 DEF Acquire
    <2>2. CASE Acquire(d, "state", "open")
      BY <2>2 DEF Acquire
    <2>3. CASE AcquireRefused(d)
      BY <2>3 DEF AcquireRefused, Released
    <2>4. CASE OpenStore(d)
      BY <2>4 DEF OpenStore
    <2>5. CASE ReleaseLocks(d)
      BY <2>5 DEF ReleaseLocks
    <2>6. CASE Launch(d)
      BY <2>6 DEF Launch
    <2>7. CASE RequestStop(d)
      BY <2>7 DEF RequestStop
    <2>8. CASE StartFails(d)
      BY <2>8 DEF StartFails, Released
    <2> QED BY <2>1, <2>2, <2>3, <2>4, <2>5, <2>6, <2>7, <2>8, Zenon DEF Living
  <1>4. CASE \E d \in Daemons : RecoverAll(d) \/ StartServing(d) \/ Join(d) \/ Close(d)
    <2> SUFFICES ASSUME NEW d \in Daemons,
                        RecoverAll(d) \/ StartServing(d) \/ Join(d) \/ Close(d)
                 PROVE  Slots'
      BY <1>4
    <2>1. CASE RecoverAll(d)
      BY <2>1 DEF RecoverAll, RecoverState, Interrupted
    <2>2. CASE StartServing(d)
      BY <2>2 DEF StartServing, Listen, Answering, Released
    <2>3. CASE Join(d)
      BY <2>3 DEF Join, CloseServer, Requests
    <2>4. CASE Close(d)
      BY <2>4 DEF Close, CloseStore
    <2> QED BY <2>1, <2>2, <2>3, <2>4
  <1>5. CASE \E d \in Daemons : Execute(d)
    <2> SUFFICES ASSUME NEW d \in Daemons, Execute(d) PROVE Slots'
      BY <1>5
    <2>1. CASE Tick(d)
      BY <2>1 DEF Tick
    <2>2. CASE RunGoal(d)
      BY <2>2 DEF RunGoal
    <2>3. CASE RunRecovers(d)
      BY <2>3 DEF RunRecovers, Interrupted
    <2>4. CASE RunEnds(d)
      BY <2>4 DEF RunEnds, Unsent
    <2>5. CASE EngineStops(d)
      BY <2>5 DEF EngineStops
    <2> QED BY <2>1, <2>2, <2>3, <2>4, <2>5, Zenon DEF Execute
  <1>6. CASE \E d \in Daemons : Crash(d)
    <2> SUFFICES ASSUME NEW d \in Daemons, Crash(d) PROVE Slots'
      BY <1>6 DEF Crash
    <2> QED BY DEF Crash, CrashDaemon, Released
  <1> QED BY <1>1, <1>2, <1>3, <1>4, <1>5, <1>6, NextCases, Zenon

\* A key has one handler, and its effect one cause.
LEMMA OnceStep ==
  ASSUME Types, Shape, Once, Next
  PROVE  Once'
  <1> USE DaemonAssumption, ControlAssumption
      DEF Types, Shape, Once, AtMostOnce, Holds, Busy, Answers
  <1>1. CASE \E c \in Clients : Requesting(c)
    <2> SUFFICES ASSUME NEW c \in Clients, Requesting(c) PROVE Once'
      BY <1>1
    <2>1. CASE StopWatching(c)
      BY <2>1 DEF StopWatching
    <2>2. CASE Watch(c)
      BY <2>2 DEF Watch, Receives
    <2>3. CASE Refuse(c)
      BY <2>3 DEF Refuse, Cancelled
    <2>4. CASE Steer(c)
      BY <2>4 DEF Steer, Target, Unsent
    <2>5. CASE ReadBack(c)
      <3>1. PICK answer \in {"error", "ok"} : Answered(c, answer)
        BY <2>5, ReadBackEnds
      <3>2. /\ hand[c].pc = "read"
            /\ UNCHANGED <<daemonVars, kind, record, effects, current, goal, engine, slot>>
        BY <2>5, ReadBackEnds
      <3> QED BY <3>1, <3>2
    <2>6. CASE EnterProbe(c)
      BY <2>6 DEF EnterProbe
    <2>7. CASE EndProbe(c)
      BY <2>7 DEF EndProbe, Cancelled
    <2>8. CASE CompleteIdempotentRequest(c)
      BY <2>8 DEF CompleteIdempotentRequest
    <2>9. CASE CompletionFails(c)
      BY <2>9 DEF CompletionFails
    <2> QED BY <2>1, <2>2, <2>3, <2>4, <2>5, <2>6, <2>7, <2>8, <2>9, Zenon DEF Requesting
  <1>2. CASE \E d \in Daemons, c \in Clients, k \in Keys :
               AcceptGoal(d, c, k) \/ BeginIdempotentRequest(d, c, k)
    <2> SUFFICES ASSUME NEW d \in Daemons, NEW c \in Clients, NEW k \in Keys,
                        AcceptGoal(d, c, k) \/ BeginIdempotentRequest(d, c, k)
                 PROVE  Once'
      BY <1>2
    <2>1. CASE AcceptGoal(d, c, k)
      BY <2>1 DEF AcceptGoal, Receives
    <2>2. CASE BeginIdempotentRequest(d, c, k)
      BY <2>2 DEF BeginIdempotentRequest, Receives, New
    <2> QED BY <2>1, <2>2
  <1>3. CASE \E d \in Daemons : Living(d) /\ UNCHANGED controlVars
    <2> SUFFICES ASSUME NEW d \in Daemons, Living(d), UNCHANGED controlVars
                 PROVE  Once'
      BY <1>3
    <2>1. CASE Acquire(d, "owner", "state")
      BY <2>1 DEF Acquire
    <2>2. CASE Acquire(d, "state", "open")
      BY <2>2 DEF Acquire
    <2>3. CASE AcquireRefused(d)
      BY <2>3 DEF AcquireRefused, Released
    <2>4. CASE OpenStore(d)
      BY <2>4 DEF OpenStore
    <2>5. CASE ReleaseLocks(d)
      BY <2>5 DEF ReleaseLocks
    <2>6. CASE Launch(d)
      BY <2>6 DEF Launch
    <2>7. CASE RequestStop(d)
      BY <2>7 DEF RequestStop
    <2>8. CASE StartFails(d)
      BY <2>8 DEF StartFails, Released
    <2> QED BY <2>1, <2>2, <2>3, <2>4, <2>5, <2>6, <2>7, <2>8, Zenon DEF Living
  <1>4. CASE \E d \in Daemons : RecoverAll(d) \/ StartServing(d) \/ Join(d) \/ Close(d)
    <2> SUFFICES ASSUME NEW d \in Daemons,
                        RecoverAll(d) \/ StartServing(d) \/ Join(d) \/ Close(d)
                 PROVE  Once'
      BY <1>4
    <2>1. CASE RecoverAll(d)
      BY <2>1 DEF RecoverAll, RecoverState, Interrupted
    <2>2. CASE StartServing(d)
      BY <2>2 DEF StartServing, Listen, Answering, Released
    <2>3. CASE Join(d)
      BY <2>3 DEF Join, CloseServer, Requests
    <2>4. CASE Close(d)
      BY <2>4 DEF Close, CloseStore
    <2> QED BY <2>1, <2>2, <2>3, <2>4
  <1>5. CASE \E d \in Daemons : Execute(d)
    <2> SUFFICES ASSUME NEW d \in Daemons, Execute(d) PROVE Once'
      BY <1>5
    <2>1. CASE Tick(d)
      BY <2>1 DEF Tick
    <2>2. CASE RunGoal(d)
      BY <2>2 DEF RunGoal
    <2>3. CASE RunRecovers(d)
      BY <2>3 DEF RunRecovers, Interrupted
    <2>4. CASE RunEnds(d)
      BY <2>4 DEF RunEnds, Unsent
    <2>5. CASE EngineStops(d)
      BY <2>5 DEF EngineStops
    <2> QED BY <2>1, <2>2, <2>3, <2>4, <2>5, Zenon DEF Execute
  <1>6. CASE \E d \in Daemons : Crash(d)
    <2> SUFFICES ASSUME NEW d \in Daemons, Crash(d) PROVE Once'
      BY <1>6 DEF Crash
    <2> QED BY DEF Crash, CrashDaemon, Released
  <1> QED BY <1>1, <1>2, <1>3, <1>4, <1>5, <1>6, NextCases, Zenon

-----------------------------------------------------------------------------
\* A step that changes no variable changes no part of the invariant.
LEMMA Stutter == IndInv /\ UNCHANGED vars => IndInv'
  BY DEF IndInv, Types, DaemonTypeOK, Shape, Locking, Serving, Slots, Probes,
         Once, AtMostOnce, Holds, Busy

\* The invariant of the control plane is inductive.
THEOREM Inductive == Spec => []IndInv
  <1>1. IndInv /\ [Next]_vars => IndInv'
    <2> SUFFICES ASSUME IndInv, [Next]_vars PROVE IndInv'
      OBVIOUS
    <2>1. CASE Next
      BY <2>1, TypesStep, ShapeStep, LockingStep, ServingStep, SlotsStep, OnceStep, Zenon
         DEF IndInv
    <2>2. CASE UNCHANGED vars
      BY <2>2, Stutter, Zenon
    <2> QED BY <2>1, <2>2, Zenon
  <1> QED BY InitInd, <1>1, PTL DEF Spec

\* The types, who holds the slot of the runs, and that nothing outlives its
\* daemon.
THEOREM TypesHold == Spec => []TypeOK
  <1>1. IndInv => TypeOK
    <2> SUFFICES ASSUME IndInv PROVE TypeOK
      OBVIOUS
    <2> USE DEF IndInv, Types
    <2>1. effects \in [Keys -> 0 .. 2]
      BY DEF Once, AtMostOnce
    <2>2. ASSUME NEW d \in Daemons
          PROVE  /\ slot[d] = "run" <=> engine[d] \in {"recover", "run"}
                 /\ slot[d] = "probe" <=> \E c \in Requests(d) : hand[c].pc = "probe"
                 /\ life[d] = "none" => engine[d] = "off" /\ Requests(d) = {}
      BY DEF Slots, Probes, Requests, Serving
    <2> QED BY <2>1, <2>2, Zenon DEF TypeOK
  <1> QED BY Inductive, <1>1, PTL

\* Whoever has the database open, executes or answers holds both locks of the
\* project: two daemons never work at the same time.
THEOREM OwnedHolds == Spec => []Owned
  <1>1. IndInv => Owned
    <2> SUFFICES ASSUME IndInv, NEW d \in Daemons, Works(d) PROVE life[d] \in Held
      BY DEF IndInv, Locking, Owned
    <2>1. CASE Open(d)
      BY <2>1 DEF Open, Held
    <2>2. CASE engine[d] # "off"
      BY <2>2 DEF IndInv, Serving, Held
    <2>3. CASE Requests(d) # {}
      BY <2>3 DEF IndInv, Serving, Requests, Held
    <2> QED BY <2>1, <2>2, <2>3 DEF Works
  <1> QED BY Inductive, <1>1, PTL

\* A request takes effect at most once, however often it is sent and whichever
\* daemon interrupts it, and its record tells the truth.
THEOREM AtMostOnceHolds == Spec => []AtMostOnce
  <1>1. IndInv => AtMostOnce
    BY DEF IndInv, Once
  <1> QED BY Inductive, <1>1, PTL
-----------------------------------------------------------------------------
\* The promise to the clients.

\* The initial states are initial for the promise.
LEMMA ServedInit == Init => Served!Init
  BY DEF Init, DaemonInit, Served!Init

\* What a request takes part in is a step of its record or of its effect.
LEMMA RequestServes ==
  ASSUME IndInv, NEW c \in Clients, Requesting(c)
  PROVE  Served!Next \/ UNCHANGED <<record, effects>>
  <1>1. CASE StopWatching(c) \/ Watch(c) \/ Refuse(c)
    BY <1>1 DEF StopWatching, Watch, Refuse
  <1>2. CASE ReadBack(c) \/ EndProbe(c) \/ CompletionFails(c)
    BY <1>2 DEF ReadBack, EndProbe, CompletionFails
  <1>3. CASE Steer(c) \/ EnterProbe(c)
    <2> DEFINE k == hand[c].key
    <2>1. /\ hand[c].pc = "execute"
          /\ effects' = [effects EXCEPT ![k] = @ + 1] /\ UNCHANGED record
      BY <1>3 DEF Steer, EnterProbe
    <2>2. k \in Keys /\ record[k] \in {"IN_PROGRESS", "interrupted"} /\ effects[k] = 0
      BY <2>1 DEF IndInv, Shape, Once, Holds, Busy
    <2>3. Served!Act(k)
      BY <2>1, <2>2 DEF Served!Act
    <2> QED BY <2>2, <2>3, Zenon DEF Served!Next
  <1>4. CASE CompleteIdempotentRequest(c)
    <2> DEFINE k == hand[c].key
               answer == hand[c].answer
    <2>1. hand[c].pc = "complete" /\ UNCHANGED effects
      BY <1>4 DEF CompleteIdempotentRequest
    <2>2. /\ k \in Keys
          /\ answer = "ok" => effects[k] = 1
          /\ answer = "refused" => effects[k] = 0
      BY <2>1 DEF IndInv, Shape, Once, Holds, Busy
    <2>3. answer \in {"ok", "refused", "error"}
      BY DEF IndInv, Types, Shape, Answers
    <2>4. CASE record[k] = "IN_PROGRESS"
      <3>1. record' = [record EXCEPT ![k] = answer]
        BY <1>4, <2>4 DEF CompleteIdempotentRequest
      <3>2. Served!Answer(k, answer)
        BY <2>1, <2>2, <2>4, <3>1 DEF Served!Answer
      <3> QED BY <2>2, <2>3, <3>2, Zenon DEF Served!Next
    <2>5. CASE record[k] # "IN_PROGRESS"
      BY <1>4, <2>1, <2>5 DEF CompleteIdempotentRequest
    <2> QED BY <2>4, <2>5
  <1> QED BY <1>1, <1>2, <1>3, <1>4, Zenon DEF Requesting

\* Every step of the control plane is one of the promise, or none.
LEMMA StepServes ==
  ASSUME IndInv, Next
  PROVE  Served!Next \/ UNCHANGED <<record, effects>>
  <1>1. CASE \E c \in Clients : Requesting(c)
    BY <1>1, RequestServes, Zenon
  <1>2. CASE \E d \in Daemons, c \in Clients, k \in Keys :
               AcceptGoal(d, c, k) \/ BeginIdempotentRequest(d, c, k)
    <2> SUFFICES ASSUME NEW d \in Daemons, NEW c \in Clients, NEW k \in Keys,
                        AcceptGoal(d, c, k) \/ BeginIdempotentRequest(d, c, k)
                 PROVE  Served!Next
      BY <1>2
    <2>1. CASE AcceptGoal(d, c, k)
      <3>1. Served!Create(k)
        BY <2>1 DEF AcceptGoal, Served!Create
      <3> QED BY <3>1, Zenon DEF Served!Next
    <2>2. CASE BeginIdempotentRequest(d, c, k)
      <3>1. Served!Begin(k)
        BY <2>2 DEF BeginIdempotentRequest, New, Served!Begin
      <3> QED BY <3>1, Zenon DEF Served!Next
    <2> QED BY <2>1, <2>2
  <1>3. CASE \E d \in Daemons : Living(d) /\ UNCHANGED controlVars
    BY <1>3
  <1>4. CASE \E d \in Daemons : RecoverAll(d) \/ StartServing(d) \/ Join(d) \/ Close(d)
    <2> SUFFICES ASSUME NEW d \in Daemons,
                        RecoverAll(d) \/ StartServing(d) \/ Join(d) \/ Close(d)
                 PROVE  Served!Next \/ UNCHANGED <<record, effects>>
      BY <1>4
    <2>1. CASE RecoverAll(d)
      <3>1. Served!Interrupt
        BY <2>1 DEF RecoverAll, Interrupted, Served!Interrupt
      <3> QED BY <3>1, Zenon DEF Served!Next
    <2>2. CASE StartServing(d) \/ Join(d) \/ Close(d)
      BY <2>2 DEF StartServing, Join, Close
    <2> QED BY <2>1, <2>2
  <1>5. CASE \E d \in Daemons : Execute(d)
    <2> SUFFICES ASSUME NEW d \in Daemons, Execute(d)
                 PROVE  Served!Next \/ UNCHANGED <<record, effects>>
      BY <1>5
    <2>1. CASE RunRecovers(d) /\ record' = Interrupted
      <3>1. Served!Interrupt
        BY <2>1 DEF RunRecovers, Interrupted, Served!Interrupt
      <3> QED BY <3>1, Zenon DEF Served!Next
    <2>2. CASE RunRecovers(d) /\ UNCHANGED record
      BY <2>2 DEF RunRecovers
    <2>3. CASE Tick(d) \/ RunGoal(d) \/ RunEnds(d) \/ EngineStops(d)
      BY <2>3 DEF Tick, RunGoal, RunEnds, EngineStops
    <2>4. RunRecovers(d) => record' = Interrupted \/ UNCHANGED record
      BY Zenon DEF RunRecovers
    <2> QED BY <2>1, <2>2, <2>3, <2>4, Zenon DEF Execute
  <1>6. CASE \E d \in Daemons : Crash(d)
    BY <1>6 DEF Crash
  <1> QED BY <1>1, <1>2, <1>3, <1>4, <1>5, <1>6, NextCases, Zenon

\* The daemons together keep what ServedOnce promises the clients: one effect,
\* one answer that stays, and nothing more after it.
THEOREM Serves == Spec => ServesOnce
  <1>1. IndInv /\ [Next]_vars => [Served!Next]_<<record, effects>>
    BY StepServes
  <1> QED BY ServedInit, Inductive, <1>1, PTL DEF Spec, ServesOnce, Served!Spec, Served!served
=============================================================================
