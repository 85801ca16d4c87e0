----------------------------- MODULE Processes -----------------------------
(***************************************************************************)
(* The processes an attempt starts: the journal of invocations, a row per  *)
(* process, and the process groups of the operating system.                *)
(*                                                                         *)
(* A command runs under a wrapper that leads a process group of its own    *)
(* and waits on a pipe until its row is REGISTERED.  A goroutine waits for *)
(* the wrapper and writes what it found to the row.  The identity of a     *)
(* group includes its start time, so inspecting a group and signalling it  *)
(* are one step here.  "ENDED" stands for the EXITED and TERMINATED rows,  *)
(* which nothing tells apart.                                              *)
(***************************************************************************)
EXTENDS Naturals, FiniteSets

CONSTANTS Attempts,   \* owners of processes, numbered as they are claimed
          Stages,     \* the processes of an attempt, in the order they start
          MaxFaults   \* bound on groups that outlive their leader or a kill,
                      \* and on journal writes that fail

ASSUME ProcessesAssumption ==
    Attempts \subseteq Nat \ {0} /\ Stages \subseteq Nat /\ MaxFaults \in Nat

VARIABLES proc,       \* attempt -> stage -> [row, os, seen]
          faults

procVars == <<proc, faults>>

Rows == {"none", "INTENT", "REGISTERED", "UNKNOWN", "ENDED"}
\* "held" is a wrapper on its pipe; a "stuck" group has lost its leader.
Groups == {"none", "held", "running", "stuck", "gone"}
\* What the daemon that started the process has been told of its end.
Reports == {"open", "done", "unconfirmed"}
Process == [row : Rows, os : Groups, seen : Reports]

NoProcess == [row |-> "none", os |-> "none", seen |-> "open"]

ProcInit ==
    /\ proc = [a \in Attempts |-> [s \in Stages |-> NoProcess]]
    /\ faults = 0

Pending == {"INTENT", "REGISTERED", "UNKNOWN"}
Executing(a, s) == proc[a][s].os \in {"running", "stuck"}
Quiet(a) == \A s \in Stages : ~Executing(a, s)
Settled(a) == \A s \in Stages : proc[a][s].row \notin Pending

Set(a, s, p) == proc' = [proc EXCEPT ![a][s] = p]

\* Mutant: a row whose process could not be confirmed is over.
RowsAllowConfirmed(owner) ==
    \A a \in Attempts \ {owner}, s \in Stages :
        proc[a][s].row \notin {"INTENT", "REGISTERED"}

Nobody == 0
\* The rows that keep the project's slot from an owner or from nobody's claim:
\* an UNKNOWN row keeps it even from its own owner.
RowsAllow(owner) ==
    /\ \A a \in Attempts \ {owner} : Settled(a)
    /\ \A a \in Attempts, s \in Stages : proc[a][s].row # "UNKNOWN"

\* No one reads the row of a process that has ended, nor how it was seen to.
ForgetEnded ==
    /\ proc' = [a \in Attempts |-> [s \in Stages |->
          IF proc[a][s].row = "ENDED" /\ ~Executing(a, s) THEN NoProcess
          ELSE proc[a][s]]]
    /\ UNCHANGED faults

BeginProcess(a, s) ==
    /\ proc[a][s].row = "none" /\ RowsAllow(a)
    /\ Set(a, s, [row |-> "INTENT", os |-> "held", seen |-> "open"])
    /\ UNCHANGED faults

RegisterProcess(a, s) ==
    /\ proc[a][s].row = "INTENT"
    /\ Set(a, s, [proc[a][s] EXCEPT !.row = "REGISTERED"])
    /\ UNCHANGED faults

\* The byte on the pipe.
ReleaseWrapper(a, s) ==
    /\ proc[a][s].row = "REGISTERED" /\ proc[a][s].os = "held"
    /\ Set(a, s, [proc[a][s] EXCEPT !.os = "running"])
    /\ UNCHANGED faults

\* The pipe closes and the wrapper exits; the row is finished, unless that
\* write fails, which the caller is told of.
AbandonStart(a, s) ==
    /\ proc[a][s].os = "held"
    /\ \/ /\ Set(a, s, [row |-> "ENDED", os |-> "gone", seen |-> "done"])
          /\ UNCHANGED faults
       \/ /\ faults < MaxFaults /\ faults' = faults + 1
          /\ Set(a, s, [proc[a][s] EXCEPT !.os = "gone", !.seen = "done"])

(***************************************************************************)
(* The operating system.                                                   *)
(***************************************************************************)
\* The target ends, and the wrapper stops what it left in the group.
GroupEnds(a, s) ==
    /\ Executing(a, s)
    /\ Set(a, s, [proc[a][s] EXCEPT !.os = "gone"])
    /\ UNCHANGED faults

\* The wrapper dies, or gives up on a descendant that cannot be stopped.
GroupSticks(a, s) ==
    /\ proc[a][s].os = "running" /\ faults < MaxFaults
    /\ Set(a, s, [proc[a][s] EXCEPT !.os = "stuck"])
    /\ faults' = faults + 1

(***************************************************************************)
(* The goroutine that waits for the wrapper.                               *)
(***************************************************************************)
\* Mutant: the exit of the leader ends the row.
ReapLeader(a, s) ==
    /\ proc[a][s].row = "REGISTERED" /\ proc[a][s].seen = "open"
    /\ proc[a][s].os \in {"gone", "stuck"}
    /\ Set(a, s, [proc[a][s] EXCEPT !.row = "ENDED", !.seen = "done"])
    /\ UNCHANGED faults

Reap(a, s) ==
    LET p == proc[a][s]
        finds == IF p.os = "gone" THEN [row |-> "ENDED", seen |-> "done"]
                 ELSE [row |-> "UNKNOWN", seen |-> "unconfirmed"]
    IN /\ p.row = "REGISTERED" /\ p.seen = "open" /\ p.os \in {"gone", "stuck"}
       /\ \/ /\ Set(a, s, [p EXCEPT !.row = finds.row, !.seen = finds.seen])
             /\ UNCHANGED faults
          \/ /\ faults < MaxFaults /\ faults' = faults + 1
             /\ Set(a, s, [p EXCEPT !.seen = "unconfirmed"])

\* A group that Terminate signals and sees disappear.
Kill(a, s) ==
    /\ proc[a][s].os = "running"
    /\ Set(a, s, [proc[a][s] EXCEPT !.os = "gone"])
    /\ UNCHANGED faults

\* A member of it survives the kill, or the deadline passes first.
KillFails(a, s) ==
    /\ proc[a][s].os = "running" /\ faults < MaxFaults
    /\ faults' = faults + 1
    /\ UNCHANGED proc

(***************************************************************************)
(* A crash of the daemon, and the recovery of a start.                     *)
(***************************************************************************)
CrashProcesses ==
    /\ proc' = [a \in Attempts |-> [s \in Stages |->
          [proc[a][s] EXCEPT !.seen = "open",
                             !.os = IF @ = "held" THEN "gone" ELSE @]]]
    /\ UNCHANGED faults

Recoverable == {r \in Attempts \X Stages : proc[r[1]][r[2]].row \in Pending}

\* TerminateOwnedGroup: what may be left of the group; it is confirmed
\* stopped only when nothing is.
Terminates(a, s) ==
    IF proc[a][s].os = "running" /\ faults < MaxFaults THEN {"gone", "running"}
    ELSE IF proc[a][s].os = "running" THEN {"gone"}
    ELSE {proc[a][s].os}

Unvisited == {r \in Recoverable : proc[r[1]][r[2]].seen = "open"}
Later(r, q) == r[1] > q[1] \/ (r[1] = q[1] /\ r[2] > q[2])

\* Recovery of a row, the youngest first: an intent never ran, a registered
\* group is stopped.
RecoverProcess(a, s) ==
    /\ <<a, s>> \in Unvisited
    /\ ~ \E r \in Unvisited : Later(r, <<a, s>>)
    /\ \E left \in Terminates(a, s) :
         /\ Set(a, s, IF left \in {"running", "stuck"}
              THEN [os |-> left, row |-> "UNKNOWN", seen |-> "unconfirmed"]
              ELSE [os |-> left, row |-> "ENDED", seen |-> "done"])
         /\ faults' = IF left = "running" THEN faults + 1 ELSE faults

ProcTypeOK ==
    /\ proc \in [Attempts -> [Stages -> Process]]
    /\ faults \in 0 .. MaxFaults

\* No two attempts have processes that execute at the same time, whatever
\* became of the leases of the first (processSlotAvailable, runner.go).
OneWriter ==
    \A a, b \in Attempts : a # b => Quiet(a) \/ Quiet(b)

\* A process that executes has a row that the slot check and the recovery
\* of a start will find: it is registered before it is released, and no
\* row is ended before its group is gone (StartContext, ProcessManager).
AliveIsJournaled ==
    \A a \in Attempts, s \in Stages :
        Executing(a, s) => proc[a][s].row \in {"REGISTERED", "UNKNOWN"}
=============================================================================
