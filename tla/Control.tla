------------------------------ MODULE Control ------------------------------
(***************************************************************************)
(* What a daemon does for its clients: the write requests of the API with  *)
(* their idempotency records (api.Handler, sqlite/idempotency.go), the     *)
(* control service that executes them, the engine's loop they wake and     *)
(* share the project's slot with, and the recovery of interrupted requests *)
(* (recoverInterruptedRequestsTx) at a start and at every run.             *)
(*                                                                         *)
(* A key names one request and its body; a client may send it any number   *)
(* of times.  There is one goal.                                           *)
(***************************************************************************)
EXTENDS Daemon

CONSTANTS Clients, Keys,
          Mixes     \* what the keys may ask for: functions from Keys to Kinds

Kinds == {"create", "pause", "resume", "probe"}

Nobody == "nobody"

ASSUME ControlAssumption ==
    Mixes \subseteq [Keys -> Kinds] /\ Nobody \notin Daemons

VARIABLES
    kind,       \* key -> what it asks for, fixed at the start
    record,     \* key -> its idempotency record
    effects,    \* key -> how many times it took effect
    current,    \* keys whose expected version is the goal's
    goal,       \* RUNNING, WAITING or OVER
    hand,       \* client -> the handler of its request
    engine,     \* daemon -> what its loop does
    queue,      \* daemon -> the goal is in the engine's channel
    slot        \* daemon -> who holds engine.serial

controlVars == <<kind, record, effects, current, goal, hand, engine, queue, slot>>
vars == <<daemonVars, controlVars>>

\* A record is IN_PROGRESS or COMPLETED with one of the four answers.
Answers == {"ok", "refused", "error", "interrupted"}
NoKey == "none"
Idle == [at |-> Nobody, pc |-> "idle", key |-> NoKey, answer |-> "error"]
Points == {"idle", "execute", "probe", "read", "complete", "watch"}

Init ==
    /\ DaemonInit
    /\ kind \in Mixes
    /\ record = [k \in Keys |-> "none"] /\ effects = [k \in Keys |-> 0]
    /\ current = Keys /\ goal \in {"RUNNING", "WAITING"}
    /\ hand = [c \in Clients |-> Idle]
    /\ engine = [d \in Daemons |-> "off"] /\ queue = [d \in Daemons |-> FALSE]
    /\ slot = [d \in Daemons |-> Free]

Requests(d) == {c \in Clients : hand[c].at = d}
\* The context of a request ends with a stop, or at any time with its client.  No
\* handler looks at it again once it has seen the end of it, so that each step
\* that looks at it takes either way and nothing keeps track of the client.
Cancelled(c) == life[hand[c].at] = "stopping"
Hand(c, h) == hand' = [hand EXCEPT ![c] = h]
Continues(c, pc) == Hand(c, [hand[c] EXCEPT !.pc = pc])
Answered(c, answer) == Hand(c, [hand[c] EXCEPT !.pc = "complete", !.answer = answer])
Done(c) == Hand(c, Idle)
Loop == <<engine, queue>>
----------------------------------------------------------------------------
\* A request.

\* The client finds a daemon that serves.  A request that has not begun its
\* first transaction, that resolves to nothing or whose context is over by then
\* leaves no trace, so that a request begins with that transaction.
Receives(d, c) == life[d] = "serving" /\ hand[c] = Idle
Takes(c, d, pc, k) == Hand(c, [Idle EXCEPT !.at = d, !.pc = pc, !.key = k])

\* goal.events or invocation.logs with watch=1.
Watch(c) ==
    /\ \E d \in Daemons : Receives(d, c) /\ Takes(c, d, "watch", NoKey)
    /\ UNCHANGED <<daemonVars, kind, record, effects, current, goal, Loop, slot>>

StopWatching(c) ==
    /\ hand[c].pc = "watch" /\ Done(c)
    /\ UNCHANGED <<daemonVars, kind, record, effects, current, goal, Loop, slot>>

\* AcceptGoal writes the goal, its planning intent and the record in one
\* transaction; a record that exists is replayed.
AcceptGoal(d, c, k) ==
    /\ Receives(d, c) /\ kind[k] = "create" /\ record[k] = "none"
    /\ record' = [record EXCEPT ![k] = "ok"]
    /\ effects' = [effects EXCEPT ![k] = @ + 1]
    /\ queue' = [queue EXCEPT ![d] = TRUE]
    /\ UNCHANGED <<daemonVars, kind, current, goal, hand, engine, slot>>

\* A record that exists is replayed, or answered with REQUEST_IN_PROGRESS.
New(k) == record[k] = "none"
BeginIdempotentRequest(d, c, k) ==
    /\ Receives(d, c) /\ kind[k] # "create" /\ New(k)
    /\ record' = [record EXCEPT ![k] = "IN_PROGRESS"]
    /\ Takes(c, d, "execute", k)
    /\ UNCHANGED <<daemonVars, kind, effects, current, goal, Loop, slot>>

\* Execute returns an error before anything is committed.
Refuse(c) ==
    /\ hand[c].pc = "execute"
    /\ \E answer \in {"refused", "error"} :
         (Cancelled(c) => answer = "error") /\ Answered(c, answer)
    /\ UNCHANGED <<daemonVars, kind, record, effects, current, goal, Loop, slot>>

\* The target of a steering request, if the goal can take it.
Target(k) ==
    CASE kind[k] = "pause"  /\ goal = "RUNNING" -> "WAITING"
      [] kind[k] = "resume" /\ goal = "WAITING" -> "RUNNING"
      [] OTHER -> "none"

\* A request that is yet to be sent may name the version a change makes.
Unsent == {k \in Keys : record[k] = "none"}

\* UpdateGoalState checks the version the client read.
Steer(c) ==
    LET k == hand[c].key IN
    /\ hand[c].pc = "execute" /\ ~Cancelled(c)
    /\ Target(k) # "none" /\ k \in current
    /\ goal' = Target(k) /\ current' = Unsent
    /\ effects' = [effects EXCEPT ![k] = @ + 1]
    /\ Continues(c, "read")
    /\ UNCHANGED <<daemonVars, kind, record, Loop, slot>>

\* The goal is read once more for the answer, and only then is the engine told.
ReadBack(c) ==
    /\ hand[c].pc = "read"
    /\ \/ Answered(c, "error") /\ UNCHANGED queue
       \/ /\ ~Cancelled(c) /\ Answered(c, "ok")
          /\ queue' = [queue EXCEPT ![hand[c].at] = @ \/ kind[hand[c].key] = "resume"]
    /\ UNCHANGED <<daemonVars, kind, record, effects, current, goal, engine, slot>>

\* activeProbe: the provider is called in the slot of the runs, if it is free.
EnterProbe(c) ==
    LET k == hand[c].key d == hand[c].at IN
    /\ hand[c].pc = "execute" /\ kind[k] = "probe" /\ ~Cancelled(c)
    /\ slot[d] = Free
    /\ slot' = [slot EXCEPT ![d] = "probe"]
    /\ effects' = [effects EXCEPT ![k] = @ + 1]
    /\ Continues(c, "probe")
    /\ UNCHANGED <<daemonVars, kind, record, current, goal, Loop>>

EndProbe(c) ==
    /\ hand[c].pc = "probe"
    /\ \E answer \in {"ok", "error"} :
         (Cancelled(c) => answer = "error") /\ Answered(c, answer)
    /\ slot' = [slot EXCEPT ![hand[c].at] = Free]
    /\ UNCHANGED <<daemonVars, kind, record, effects, current, goal, Loop>>

\* Out of reach of a cancellation.  A record that is completed by then makes
\* it a conflict.
CompleteIdempotentRequest(c) ==
    LET k == hand[c].key IN
    /\ hand[c].pc = "complete" /\ Done(c)
    /\ record' = IF record[k] = "IN_PROGRESS" THEN [record EXCEPT ![k] = hand[c].answer]
                 ELSE record
    /\ UNCHANGED <<daemonVars, kind, effects, current, goal, Loop, slot>>

\* The ten seconds of its context pass.
CompletionFails(c) ==
    /\ hand[c].pc = "complete" /\ MayFault /\ Done(c)
    /\ UNCHANGED <<life, lock, socket, stops, kind, record, effects, current, goal, Loop, slot>>
----------------------------------------------------------------------------
\* The engine's loop.

\* Mutant: an interrupted request may be sent again.
Forgotten == [k \in Keys |-> IF record[k] = "IN_PROGRESS" THEN "none" ELSE record[k]]
Interrupted == [k \in Keys |-> IF record[k] = "IN_PROGRESS" THEN "interrupted" ELSE record[k]]

\* Mutant: only requests put the goal in the channel.
TickNever(d) == FALSE /\ Launch(d) /\ UNCHANGED controlVars

\* enqueueRunnable, each second.
Tick(d) ==
    /\ life[d] = "serving" /\ engine[d] = "idle" /\ goal = "RUNNING" /\ ~queue[d]
    /\ queue' = [queue EXCEPT ![d] = TRUE]
    /\ UNCHANGED <<daemonVars, kind, record, effects, current, goal, hand, engine, slot>>

RunGoal(d) ==
    /\ engine[d] = "idle" /\ queue[d] /\ slot[d] = Free /\ life[d] = "serving"
    /\ engine' = [engine EXCEPT ![d] = "recover"]
    /\ queue' = [queue EXCEPT ![d] = FALSE] /\ slot' = [slot EXCEPT ![d] = "run"]
    /\ UNCHANGED <<daemonVars, kind, record, effects, current, goal, hand>>

\* Engine.Recover with RecoverPlanning, as at a start.
RunRecovers(d) ==
    /\ engine[d] = "recover"
    /\ \/ record' = Interrupted /\ engine' = [engine EXCEPT ![d] = "run"]
       \/ life[d] = "stopping" /\ engine' = [engine EXCEPT ![d] = "run"] /\ UNCHANGED record
    /\ UNCHANGED <<daemonVars, kind, effects, current, goal, hand, queue, slot>>

\* A run ends at a durable point, a cancelled one wherever it is.
RunEnds(d) ==
    /\ engine[d] = "run"
    /\ engine' = [engine EXCEPT ![d] = "idle"] /\ slot' = [slot EXCEPT ![d] = Free]
    /\ \/ UNCHANGED <<goal, current>>
       \/ goal = "RUNNING" /\ goal' \in {"WAITING", "OVER"} /\ current' = Unsent
    /\ UNCHANGED <<daemonVars, kind, record, effects, hand, queue>>

\* Mutant: the execution in the slot is not waited for.
EngineStopsAtOnce(d) ==
    /\ life[d] \in {"stopping", "joined"} /\ engine[d] # "off"
    /\ engine' = [engine EXCEPT ![d] = "off"] /\ queue' = [queue EXCEPT ![d] = FALSE]
    /\ UNCHANGED <<daemonVars, kind, record, effects, current, goal, hand, slot>>

\* drainExecutions waits for the slot.
EngineStops(d) ==
    /\ life[d] \in {"stopping", "joined"} /\ engine[d] = "idle" /\ slot[d] = Free
    /\ engine' = [engine EXCEPT ![d] = "off"] /\ queue' = [queue EXCEPT ![d] = FALSE]
    /\ UNCHANGED <<daemonVars, kind, record, effects, current, goal, hand, slot>>
----------------------------------------------------------------------------
\* The daemon's life, with what it executes.

RecoverAll(d) ==
    /\ RecoverState(d) /\ record' = Interrupted
    /\ UNCHANGED <<kind, effects, current, goal, hand, Loop, slot>>

\* Run queues what is runnable before it waits.
StartServing(d) ==
    /\ Listen(d)
    /\ IF life'[d] = "serving"
         THEN /\ engine' = [engine EXCEPT ![d] = "idle"]
              /\ queue' = [queue EXCEPT ![d] = goal = "RUNNING"]
         ELSE UNCHANGED Loop
    /\ UNCHANGED <<kind, record, effects, current, goal, hand, slot>>

Join(d) ==
    /\ CloseServer(d) /\ Requests(d) = {}
    /\ UNCHANGED controlVars

\* Mutant: the database and the locks do not wait for the engine.
CloseAtOnce(d) ==
    CloseStore(d) /\ UNCHANGED controlVars

Close(d) ==
    /\ CloseStore(d) /\ engine[d] = "off"
    /\ UNCHANGED controlVars

Crash(d) ==
    /\ CrashDaemon(d)
    /\ hand' = [c \in Clients |-> IF hand[c].at = d THEN Idle ELSE hand[c]]
    /\ engine' = [engine EXCEPT ![d] = "off"] /\ queue' = [queue EXCEPT ![d] = FALSE]
    /\ slot' = [slot EXCEPT ![d] = Free]
    /\ UNCHANGED <<kind, record, effects, current, goal>>

Advance(d) ==
    \/ /\ \/ Acquire(d, "owner", "state") \/ Acquire(d, "state", "open")
          \/ AcquireRefused(d) \/ OpenStore(d) \/ ReleaseLocks(d)
       /\ UNCHANGED controlVars
    \/ RecoverAll(d) \/ StartServing(d) \/ Join(d) \/ Close(d)

Handle(c) ==
    \/ StopWatching(c) /\ Cancelled(c)
    \/ Refuse(c) \/ Steer(c) \/ ReadBack(c)
    \/ EnterProbe(c) \/ EndProbe(c)
    \/ CompleteIdempotentRequest(c) \/ CompletionFails(c)

Execute(d) == Tick(d) \/ RunGoal(d) \/ RunRecovers(d) \/ RunEnds(d) \/ EngineStops(d)

Command(d) == (Launch(d) \/ RequestStop(d) \/ StartFails(d)) /\ UNCHANGED controlVars

Next ==
    \/ \E c \in Clients : Handle(c) \/ Watch(c) \/ StopWatching(c)
    \/ \E d \in Daemons, c \in Clients, k \in Keys :
         AcceptGoal(d, c, k) \/ BeginIdempotentRequest(d, c, k)
    \/ \E d \in Daemons : Advance(d) \/ Execute(d) \/ Command(d) \/ Crash(d)

Spec == Init /\ [][Next]_vars

\* A process and its goroutines run; a request ends; whoever wants the goal to
\* run starts a daemon when there is none.
Started == \E d \in Daemons : Launch(d) /\ UNCHANGED controlVars
Alone == \A d \in Daemons : life[d] = "none"
FairSpec ==
    /\ Spec
    /\ \A d \in Daemons : WF_vars(Advance(d)) /\ WF_vars(Execute(d))
    /\ \A c \in Clients : WF_vars(Handle(c))
    /\ WF_vars(Alone /\ Started)
----------------------------------------------------------------------------
\* Types; a run or a probe holds the slot of its daemon as long as it lasts, and
\* nothing outlives its daemon (engine.go:318, service.go:664).
TypeOK ==
    /\ DaemonTypeOK
    /\ kind \in Mixes /\ record \in [Keys -> {"none", "IN_PROGRESS"} \cup Answers]
    /\ effects \in [Keys -> 0 .. 2] /\ current \subseteq Keys
    /\ goal \in {"RUNNING", "WAITING", "OVER"}
    /\ hand \in [Clients -> [at : Daemons \cup {Nobody}, pc : Points,
                             key : Keys \cup {NoKey}, answer : Answers]]
    /\ engine \in [Daemons -> {"off", "idle", "recover", "run"}]
    /\ queue \in [Daemons -> BOOLEAN]
    /\ slot \in [Daemons -> {Free, "run", "probe"}]
    /\ \A d \in Daemons :
         /\ slot[d] = "run" <=> engine[d] \in {"recover", "run"}
         /\ slot[d] = "probe" <=> \E c \in Requests(d) : hand[c].pc = "probe"
         /\ life[d] = "none" => engine[d] = "off" /\ Requests(d) = {}

\* A daemon that has the database open, executes anything or answers a request
\* owns the project: it holds both locks, through every start that fails, every
\* stop and every crash (Serve's deferred calls, Prepare, Server.Serve).
Works(d) == Open(d) \/ engine[d] # "off" \/ Requests(d) # {}
Owned == \A d \in Daemons : Works(d) => \A l \in Locks : lock[l] = d

\* However often a request is sent, and whatever becomes of the daemon, it
\* takes effect once, and its record tells: an "ok" is of an effect, a refusal
\* of none (serveWrite, BeginIdempotentRequest, recoverInterruptedRequestsTx).
AtMostOnce ==
    \A k \in Keys :
        /\ effects[k] <= 1
        /\ record[k] = "ok" => effects[k] = 1
        /\ record[k] \in {"none", "refused"} => effects[k] = 0

\* The requests of every daemon together keep the promise of ServedOnce, which is
\* more than AtMostOnce: in particular an answer stays, and the handler of
\* an answered request changes nothing more (serveWrite, AcceptGoal,
\* CompleteIdempotentRequest, recoverInterruptedRequestsTx).
Served == INSTANCE ServedOnce
ServesOnce == Served!Spec

\* A goal that is to run is run, whatever wake is lost: by a request whose
\* client left after its effect, by a run that ended, by a crash or a stop.
RunnableIsRun ==
    (goal = "RUNNING") ~> (goal # "RUNNING" \/ \E d \in Daemons : engine[d] = "run")

\* The words of the record: "The previous daemon stopped before recording a
\* response." (planning_recovery.go:163)
InterruptedIsStopped ==
    [][\A k \in Keys :
          record[k] = "IN_PROGRESS" /\ record'[k] = "interrupted" =>
              \A c \in Clients : hand[c].key # k]_vars
=============================================================================
