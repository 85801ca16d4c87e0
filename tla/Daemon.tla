------------------------------- MODULE Daemon -------------------------------
(***************************************************************************)
(* The life of the daemon processes of one project: app.Serve, the locks   *)
(* of project.Ownership, the socket of daemon.Server, and the commands     *)
(* that start and stop a daemon.  A member of Daemons is a slot for one    *)
(* process at a time, so that two of them can contend for the project.     *)
(*                                                                         *)
(* What a daemon recovers, executes and answers is for Control.tla.        *)
(***************************************************************************)
EXTENDS Naturals, FiniteSets

CONSTANTS Daemons,
          MaxStops,    \* bound on stop requests, signals and listener failures
          MaxFaults    \* bound on crashes and on every step that may fail

Free == "free"

ASSUME DaemonAssumption ==
    /\ IsFiniteSet(Daemons) /\ Free \notin Daemons
    /\ MaxStops \in Nat /\ MaxFaults \in Nat

VARIABLES life,     \* daemon -> how far its Serve came
          lock,     \* lock file -> the daemon that holds it, or Free
          socket,   \* the daemon that made the socket file, or Free
          stops, faults

daemonVars == <<life, lock, socket, stops, faults>>

Locks == {"owner", "state"}     \* owner.lock of the repository, daemon.lock
Stages == {"none", "owner", "state", "open", "recover", "listen", "serving",
           "stopping", "joined", "closed", "unlocked"}

DaemonInit ==
    /\ life = [d \in Daemons |-> "none"] /\ lock = [l \in Locks |-> Free]
    /\ socket = Free /\ stops = 0 /\ faults = 0

Goes(d, stage) == life' = [life EXCEPT ![d] = stage]
MayFault == faults < MaxFaults /\ faults' = faults + 1
Released(d) == [l \in Locks |-> IF lock[l] = d THEN Free ELSE lock[l]]

\* The store of the daemon is open.
Open(d) == life[d] \in {"recover", "listen", "serving", "stopping", "joined"}

\* A command starts a child unless it sees a daemon that serves.
Launch(d) ==
    /\ life[d] = "none" /\ Goes(d, "owner")
    /\ \A e \in Daemons : life[e] # "serving"
    /\ UNCHANGED <<lock, socket, stops, faults>>

\* Acquire, one lock after the other, without waiting.
Acquire(d, l, next) ==
    /\ life[d] = l /\ lock[l] = Free
    /\ lock' = [lock EXCEPT ![l] = d] /\ Goes(d, next)
    /\ UNCHANGED <<socket, stops, faults>>

\* Another daemon has it, or a status probe that tries the lock (OwnershipHeld).
AcquireRefused(d) ==
    /\ life[d] \in Locks
    /\ \/ lock[life[d]] # Free /\ UNCHANGED faults
       \/ lock[life[d]] = Free /\ MayFault
    /\ lock' = Released(d) /\ Goes(d, "none")
    /\ UNCHANGED <<socket, stops>>

\* CheckProjectBinding, Bind, OpenProject.
OpenStore(d) ==
    /\ life[d] = "open" /\ Goes(d, "recover")
    /\ UNCHANGED <<lock, socket, stops, faults>>

\* A failing start closes what it opened and leaves.
StartFails(d) ==
    /\ life[d] \in {"open", "recover", "listen"} /\ MayFault
    /\ lock' = Released(d) /\ Goes(d, "none")
    /\ UNCHANGED <<socket, stops>>

RecoverState(d) ==
    /\ life[d] = "recover" /\ Goes(d, "listen")
    /\ UNCHANGED <<lock, socket, stops, faults>>

\* removeStaleSocket refuses the socket of a daemon that answers.
Answering == socket # Free /\ life[socket] = "serving"
Listen(d) ==
    /\ life[d] = "listen"
    /\ IF Answering THEN lock' = Released(d) /\ Goes(d, "none") /\ UNCHANGED socket
       ELSE socket' = d /\ Goes(d, "serving") /\ UNCHANGED lock
    /\ UNCHANGED <<stops, faults>>

\* dispatch refuses requests from here on, and those in flight are cancelled.
RequestStop(d) ==
    /\ life[d] = "serving" /\ stops < MaxStops
    /\ stops' = stops + 1 /\ Goes(d, "stopping")
    /\ UNCHANGED <<lock, socket, faults>>

\* Serve has joined its requests; Close removes the socket if it is its own.
CloseServer(d) ==
    /\ life[d] = "stopping" /\ Goes(d, "joined")
    /\ socket' = IF socket = d THEN Free ELSE socket
    /\ UNCHANGED <<lock, stops, faults>>

\* The engine is done.
CloseStore(d) ==
    /\ life[d] = "joined" /\ Goes(d, "closed")
    /\ UNCHANGED <<lock, socket, stops, faults>>

\* Ownership.Close, in the reverse order.
ReleaseLocks(d) ==
    /\ \/ life[d] = "closed" /\ Goes(d, "unlocked")
          /\ lock' = [lock EXCEPT !["state"] = Free]
       \/ life[d] = "unlocked" /\ Goes(d, "none")
          /\ lock' = [lock EXCEPT !["owner"] = Free]
    /\ UNCHANGED <<socket, stops, faults>>

\* The locks of a process end with it, its socket file does not.
CrashDaemon(d) ==
    /\ life[d] # "none" /\ MayFault
    /\ lock' = Released(d) /\ Goes(d, "none")
    /\ UNCHANGED <<socket, stops>>

DaemonTypeOK ==
    /\ life \in [Daemons -> Stages]
    /\ lock \in [Locks -> Daemons \cup {Free}]
    /\ socket \in Daemons \cup {Free}
    /\ stops \in 0 .. MaxStops /\ faults \in 0 .. MaxFaults
=============================================================================
