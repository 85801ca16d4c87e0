---------------------------- MODULE AttemptProofs ----------------------------
(***************************************************************************)
(* Proofs about Attempt, for any number of attempts, trees, faults,        *)
(* controls and crashes.  The first part says what each operation on the   *)
(* journal keeps, the second who calls it when.  The chain of facts is:    *)
(*                                                                         *)
(*  - an attempt that may advance holds its lease (Advances), and only the *)
(*    attempt the engine works on has rows that are not over (Alone);      *)
(*  - so a retry is authorized over a project at rest (AtRest), and none   *)
(*    of its processes starts before the retry is claimed;                 *)
(*  - the stages behind the engine no longer execute (Behind), and every   *)
(*    artifact they left names the tree of the bundle (Filed), which is    *)
(*    what the directory must hold when the work is completed.             *)
(***************************************************************************)
EXTENDS Attempt, TLAPS
-----------------------------------------------------------------------------
(***************************************************************************)
(* What the operations of Processes keep: a process that executes is in    *)
(* the journal, and the journal holds the unfinished processes of one      *)
(* attempt at most.                                                        *)
(***************************************************************************)
\* The rows that are not over belong to one attempt.
OneOwner == \A a, b \in Attempts : a # b => Settled(a) \/ Settled(b)

\* What is so of every process: one that executes is in the journal, and one
\* whose end was seen neither executes nor waits to.
Right(p) ==
    /\ p.os \in {"running", "stuck"} => p.row \in {"REGISTERED", "UNKNOWN"}
    /\ p.seen = "done" => /\ p.os \notin {"running", "stuck"}
                          /\ p.os = "held" => p.row \notin Pending

ProcInv ==
    /\ ProcTypeOK /\ OneOwner
    /\ \A a \in Attempts, s \in Stages : Right(proc[a][s])

\* A step that starts nothing: no row and no group comes to life.
Calmer ==
    \A a \in Attempts, s \in Stages :
        /\ proc'[a][s].row \in Pending => proc[a][s].row \in Pending
        /\ proc'[a][s].os \in {"running", "stuck"} => Executing(a, s)

\* What is not executing but journalled follows: two attempts never execute.
LEMMA OwnersAlone ==
  ASSUME ProcInv
  PROVE  /\ OneWriter /\ AliveIsJournaled
         /\ \A a \in Attempts : Settled(a) => Quiet(a)
         /\ \A a \in Attempts, s \in Stages : proc[a][s].seen = "done" => ~Executing(a, s)
  <1>1. /\ AliveIsJournaled
        /\ \A a \in Attempts, s \in Stages : proc[a][s].seen = "done" => ~Executing(a, s)
    BY DEF ProcInv, Right, AliveIsJournaled, Executing
  <1>2. \A a \in Attempts : Settled(a) => Quiet(a)
    BY <1>1 DEF AliveIsJournaled, Settled, Quiet, Pending
  <1> QED BY <1>1, <1>2 DEF ProcInv, OneOwner, OneWriter

\* A process is a record of its row, its group and how its end was seen.
LEMMA Typed ==
  ASSUME ProcTypeOK, NEW a \in Attempts, NEW s \in Stages
  PROVE  proc[a][s] \in Process
  BY DEF ProcTypeOK

\* One process is changed.
LEMMA SetAt ==
  ASSUME ProcTypeOK, NEW a \in Attempts, NEW s \in Stages, NEW p \in Process,
         Set(a, s, p)
  PROVE  /\ proc' \in [Attempts -> [Stages -> Process]]
         /\ \A b \in Attempts, t \in Stages :
               proc'[b][t] = IF b = a /\ t = s THEN p ELSE proc[b][t]
  BY DEF ProcTypeOK, Set

\* A step that only lets processes end keeps the invariant.
LEMMA CalmerKeeps ==
  ASSUME ProcInv, Calmer, faults' \in 0 .. MaxFaults,
         proc' \in [Attempts -> [Stages -> Process]],
         \A a \in Attempts, s \in Stages : Right(proc'[a][s])
  PROVE  ProcInv'
  <1>1. \A a \in Attempts : Settled(a) => Settled(a)'
    BY DEF Calmer, Settled
  <1>2. OneOwner'
    BY <1>1 DEF ProcInv, OneOwner
  <1> QED BY <1>2 DEF ProcInv, ProcTypeOK

\* One process is changed, and not to one that has come to life.
LEMMA Changed ==
  ASSUME ProcInv, faults' \in 0 .. MaxFaults,
         NEW a \in Attempts, NEW s \in Stages, NEW p \in Process, Set(a, s, p),
         p.row \in Pending => proc[a][s].row \in Pending,
         p.os \in {"running", "stuck"} => Executing(a, s), Right(p)
  PROVE  ProcInv' /\ Calmer
  <1>1. /\ proc' \in [Attempts -> [Stages -> Process]]
        /\ \A b \in Attempts, t \in Stages :
              proc'[b][t] = IF b = a /\ t = s THEN p ELSE proc[b][t]
    BY SetAt DEF ProcInv
  <1>2. Calmer
    BY <1>1 DEF Calmer, Executing
  <1>3. \A b \in Attempts, t \in Stages : Right(proc'[b][t])
    BY <1>1 DEF ProcInv
  <1> QED BY <1>1, <1>2, <1>3, CalmerKeeps

\* Faults are counted up to their bound and no further.
LEMMA Faults ==
  ASSUME ProcTypeOK
  PROVE  /\ faults \in 0 .. MaxFaults
         /\ faults < MaxFaults => faults + 1 \in 0 .. MaxFaults
  BY ProcessesAssumption DEF ProcTypeOK
-----------------------------------------------------------------------------
\* The operations on one process that start nothing.
Ends(a, s) ==
    \/ RegisterProcess(a, s) \/ AbandonStart(a, s)
    \/ GroupEnds(a, s) \/ GroupSticks(a, s) \/ Reap(a, s)
    \/ Kill(a, s) \/ KillFails(a, s) \/ RecoverProcess(a, s)

\* None of them disturbs the journal, or brings a row or a group to life.
LEMMA EndsKeep ==
  ASSUME ProcInv, NEW a \in Attempts, NEW s \in Stages, Ends(a, s)
  PROVE  ProcInv' /\ Calmer
  <1> DEFINE q == proc[a][s]
  <1>1. q \in Process /\ ProcTypeOK
    BY Typed DEF ProcInv
  <1>2. /\ faults \in 0 .. MaxFaults
        /\ faults < MaxFaults => faults + 1 \in 0 .. MaxFaults
    BY <1>1, Faults
  <1>3. Right(q)
    BY DEF ProcInv
  <1>4. CASE RegisterProcess(a, s)
    <2> DEFINE p == [q EXCEPT !.row = "REGISTERED"]
    <2>1. /\ p \in Process /\ Set(a, s, p) /\ faults' = faults
          /\ p.os = q.os /\ p.row = "REGISTERED" /\ p.seen = q.seen
          /\ q.row = "INTENT"
      BY <1>1, <1>4 DEF RegisterProcess, Process, Rows
    <2> HIDE DEF p
    <2> QED BY <1>2, <1>3, <2>1, Changed DEF Right, Pending, Executing
  <1>5. CASE AbandonStart(a, s)
    <2>1. CASE Set(a, s, [row |-> "ENDED", os |-> "gone", seen |-> "done"])
               /\ faults' = faults
      <3>1. [row |-> "ENDED", os |-> "gone", seen |-> "done"] \in Process
        BY DEF Process, Rows, Groups, Reports
      <3> QED BY <1>2, <2>1, <3>1, Changed DEF Right, Pending, Executing
    <2>2. CASE /\ Set(a, s, [q EXCEPT !.os = "gone", !.seen = "done"])
               /\ faults < MaxFaults /\ faults' = faults + 1
      <3> DEFINE p == [q EXCEPT !.os = "gone", !.seen = "done"]
      <3>1. p \in Process /\ p.os = "gone" /\ p.row = q.row
        BY <1>1 DEF Process, Groups, Reports
      <3>2. Set(a, s, p)
        BY <2>2
      <3> HIDE DEF p
      <3> QED BY <1>2, <2>2, <1>3, <3>1, <3>2, Changed DEF Right, Pending, Executing
    <2> QED BY <1>5, <2>1, <2>2 DEF AbandonStart
  <1>6. CASE GroupEnds(a, s) \/ Kill(a, s)
    <2> DEFINE p == [q EXCEPT !.os = "gone"]
    <2>1. /\ p \in Process /\ Set(a, s, p) /\ faults' = faults
          /\ p.os = "gone" /\ p.row = q.row
      BY <1>1, <1>6 DEF GroupEnds, Kill, Process, Groups
    <2> HIDE DEF p
    <2> QED BY <1>2, <1>3, <2>1, Changed DEF Right, Pending, Executing
  <1>7. CASE GroupSticks(a, s)
    <2> DEFINE p == [q EXCEPT !.os = "stuck"]
    <2>1. /\ p \in Process /\ Set(a, s, p) /\ p.row = q.row /\ p.seen = q.seen
          /\ q.os = "running" /\ faults < MaxFaults /\ faults' = faults + 1
      BY <1>1, <1>7 DEF GroupSticks, Process, Groups
    <2> HIDE DEF p
    <2> QED BY <1>2, <1>3, <2>1, Changed DEF Right, Pending, Executing
  <1>8. CASE Reap(a, s)
    <2>1. /\ q.row = "REGISTERED" /\ q.os \in {"gone", "stuck"}
          /\ faults' \in 0 .. MaxFaults
      BY <1>2, <1>8 DEF Reap
    <2>2. CASE q.os = "gone" /\ Set(a, s, [q EXCEPT !.row = "ENDED", !.seen = "done"])
      <3> DEFINE p == [q EXCEPT !.row = "ENDED", !.seen = "done"]
      <3>1. p \in Process /\ p.os = "gone" /\ p.row = "ENDED"
        BY <1>1, <2>2 DEF Process, Rows, Reports
      <3>2. Set(a, s, p)
        BY <2>2
      <3> HIDE DEF p
      <3> QED BY <2>1, <1>3, <3>1, <3>2, Changed DEF Right, Pending, Executing
    <2>3. CASE q.os # "gone" /\ Set(a, s, [q EXCEPT !.row = "UNKNOWN", !.seen = "unconfirmed"])
      <3> DEFINE p == [q EXCEPT !.row = "UNKNOWN", !.seen = "unconfirmed"]
      <3>1. p \in Process /\ p.os = q.os /\ p.row = "UNKNOWN" /\ p.seen = "unconfirmed"
        BY <1>1 DEF Process, Rows, Reports
      <3>2. Set(a, s, p)
        BY <2>3
      <3> HIDE DEF p
      <3> QED BY <2>1, <1>3, <3>1, <3>2, Changed DEF Right, Pending, Executing
    <2>4. CASE Set(a, s, [q EXCEPT !.seen = "unconfirmed"])
      <3> DEFINE p == [q EXCEPT !.seen = "unconfirmed"]
      <3>1. p \in Process /\ p.os = q.os /\ p.row = q.row /\ p.seen = "unconfirmed"
        BY <1>1 DEF Process, Reports
      <3>2. Set(a, s, p)
        BY <2>4
      <3> HIDE DEF p
      <3> QED BY <2>1, <1>3, <3>1, <3>2, Changed DEF Right, Pending, Executing
    <2> QED BY <1>8, <2>2, <2>3, <2>4 DEF Reap
  <1>9. CASE KillFails(a, s)
    <2>1. proc' = proc /\ faults' \in 0 .. MaxFaults
      BY <1>2, <1>9 DEF KillFails
    <2>2. Calmer
      BY <2>1 DEF Calmer, Executing
    <2> QED BY <2>1, <2>2, CalmerKeeps DEF ProcInv, ProcTypeOK
  <1>10. CASE RecoverProcess(a, s)
    <2>1. q.row \in Pending
      BY <1>10 DEF RecoverProcess, Unvisited, Recoverable
    <2>2. PICK left \in Terminates(a, s) :
            /\ Set(a, s, IF left \in {"running", "stuck"}
                 THEN [os |-> left, row |-> "UNKNOWN", seen |-> "unconfirmed"]
                 ELSE [os |-> left, row |-> "ENDED", seen |-> "done"])
            /\ faults' = IF left = "running" THEN faults + 1 ELSE faults
      BY <1>10 DEF RecoverProcess
    <2>3. /\ left \in Groups
          /\ left \in {"running", "stuck"} => Executing(a, s)
          /\ left = "running" => faults < MaxFaults
      BY <1>1, <2>2 DEF Terminates, Process, Groups, Executing
    <2>4. faults' \in 0 .. MaxFaults
      BY <1>2, <2>2, <2>3
    <2>5. CASE left \in {"running", "stuck"}
      <3> DEFINE p == [os |-> left, row |-> "UNKNOWN", seen |-> "unconfirmed"]
      <3>1. p \in Process /\ Set(a, s, p)
        BY <2>2, <2>3, <2>5 DEF Process, Rows, Reports
      <3>2. p.row = "UNKNOWN" /\ p.seen = "unconfirmed"
        OBVIOUS
      <3> HIDE DEF p
      <3> QED BY <2>1, <2>3, <2>4, <2>5, <1>3, <3>1, <3>2, Changed DEF Right, Pending, Executing
    <2>6. CASE left \notin {"running", "stuck"}
      <3> DEFINE p == [os |-> left, row |-> "ENDED", seen |-> "done"]
      <3>1. p \in Process /\ Set(a, s, p)
        BY <2>2, <2>3, <2>6 DEF Process, Rows, Reports
      <3>2. p.row = "ENDED" /\ p.os = left
        OBVIOUS
      <3> HIDE DEF p
      <3> QED BY <2>4, <2>6, <1>3, <3>1, <3>2, Changed DEF Right, Pending, Executing
    <2> QED BY <2>5, <2>6
  <1> QED BY <1>4, <1>5, <1>6, <1>7, <1>8, <1>9, <1>10 DEF Ends

\* The operations on all processes, and steps that only count a fault.
LEMMA AllKeep ==
  ASSUME ProcInv,
         \/ CrashProcesses \/ ForgetEnded
         \/ proc' = proc /\ faults' \in 0 .. MaxFaults
  PROVE  ProcInv' /\ Calmer
  <1>1. ASSUME NEW a \in Attempts, NEW s \in Stages
        PROVE  proc[a][s] \in Process /\ Right(proc[a][s])
    BY Typed DEF ProcInv
  <1>2. CASE CrashProcesses
    <2> DEFINE p(a, s) == [proc[a][s] EXCEPT !.seen = "open",
                             !.os = IF proc[a][s].os = "held" THEN "gone" ELSE proc[a][s].os]
    <2>1. ASSUME NEW a \in Attempts, NEW s \in Stages
          PROVE  /\ p(a, s) \in Process /\ p(a, s).row = proc[a][s].row
                 /\ p(a, s).seen = "open"
                 /\ p(a, s).os \in {"running", "stuck"} => Executing(a, s)
      <3> DEFINE g == IF proc[a][s].os = "held" THEN "gone" ELSE proc[a][s].os
      <3>1. g \in Groups /\ (g \in {"running", "stuck"} => Executing(a, s))
        BY <1>1 DEF Process, Groups, Executing
      <3> HIDE DEF g
      <3>2. [proc[a][s] EXCEPT !.seen = "open", !.os = g] \in Process
        BY <1>1, <3>1 DEF Process, Reports
      <3>3. /\ [proc[a][s] EXCEPT !.seen = "open", !.os = g].row = proc[a][s].row
            /\ [proc[a][s] EXCEPT !.seen = "open", !.os = g].seen = "open"
            /\ [proc[a][s] EXCEPT !.seen = "open", !.os = g].os = g
        BY <1>1 DEF Process
      <3> QED BY <3>1, <3>2, <3>3 DEF g
    <2>2. proc' = [a \in Attempts |-> [s \in Stages |-> p(a, s)]] /\ faults' = faults
      BY <1>2 DEF CrashProcesses
    <2> HIDE DEF p
    <2>3. proc' \in [Attempts -> [Stages -> Process]] /\ Calmer
      BY <2>1, <2>2 DEF Calmer
    <2>4. \A a \in Attempts, s \in Stages : Right(proc'[a][s])
      BY <1>1, <2>1, <2>2 DEF Right, Executing
    <2>5. faults' \in 0 .. MaxFaults
      BY <2>2 DEF ProcInv, ProcTypeOK
    <2> QED BY <2>3, <2>4, <2>5, CalmerKeeps
  <1>3. CASE ForgetEnded
    <2>1. ASSUME NEW a \in Attempts, NEW s \in Stages
          PROVE  proc'[a][s] \in {proc[a][s], NoProcess}
      BY <1>3 DEF ForgetEnded
    <2>2. NoProcess \in Process /\ NoProcess.row = "none" /\ NoProcess.os = "none"
      BY DEF NoProcess, Process, Rows, Groups, Reports
    <2>3. proc' \in [Attempts -> [Stages -> Process]]
      BY <1>1, <1>3, <2>2 DEF ForgetEnded
    <2>4. Calmer
      BY <2>1, <2>2 DEF Calmer, Pending, Executing
    <2>5. \A a \in Attempts, s \in Stages : Right(proc'[a][s])
      BY <1>1, <2>1, <2>2 DEF Right
    <2>6. faults' \in 0 .. MaxFaults
      BY <1>3 DEF ForgetEnded, ProcInv, ProcTypeOK
    <2> QED BY <2>3, <2>4, <2>5, <2>6, CalmerKeeps
  <1>4. CASE proc' = proc /\ faults' \in 0 .. MaxFaults
    <2>1. Calmer
      BY <1>4 DEF Calmer, Executing
    <2>2. proc' \in [Attempts -> [Stages -> Process]]
      BY <1>4 DEF ProcInv, ProcTypeOK
    <2> QED BY <1>1, <1>4, <2>1, <2>2, CalmerKeeps
  <1> QED BY <1>2, <1>3, <1>4

\* An intent is journalled only while no other attempt has a row that is not over.
LEMMA BeginKeeps ==
  ASSUME ProcInv, NEW a \in Attempts, NEW s \in Stages, BeginProcess(a, s)
  PROVE  /\ ProcInv'
         /\ \A b \in Attempts, t \in Stages :
              /\ Executing(b, t)' => Executing(b, t)
              /\ b # a => proc'[b][t] = proc[b][t]
  <1> DEFINE p == [row |-> "INTENT", os |-> "held", seen |-> "open"]
  <1>1. p \in Process
    BY DEF Process, Rows, Groups, Reports
  <1>2. p.row = "INTENT" /\ p.os = "held" /\ p.seen = "open"
    OBVIOUS
  <1>3. Set(a, s, p) /\ faults' = faults /\ RowsAllow(a)
    BY DEF BeginProcess
  <1> HIDE DEF p
  <1>4. /\ proc' \in [Attempts -> [Stages -> Process]]
        /\ \A b \in Attempts, t \in Stages :
              proc'[b][t] = IF b = a /\ t = s THEN p ELSE proc[b][t]
    BY <1>1, <1>3, SetAt DEF ProcInv
  <1>5. \A b \in Attempts \ {a} : Settled(b)'
    BY <1>3, <1>4 DEF RowsAllow, Settled
  <1>6. OneOwner'
    BY <1>5 DEF OneOwner
  <1>7. ProcTypeOK' /\ \A b \in Attempts, t \in Stages : Right(proc'[b][t])
    BY <1>2, <1>3, <1>4 DEF ProcInv, ProcTypeOK, Right
  <1> QED BY <1>2, <1>4, <1>6, <1>7 DEF ProcInv, Executing

\* The wrapper of a registered row is let go.
LEMMA ReleaseKeeps ==
  ASSUME ProcInv, NEW a \in Attempts, NEW s \in Stages, ReleaseWrapper(a, s)
  PROVE  /\ ProcInv' /\ proc[a][s].row = "REGISTERED"
         /\ \A b \in Attempts, t \in Stages :
              /\ proc'[b][t].row = proc[b][t].row
              /\ Executing(b, t)' => Executing(b, t) \/ (b = a /\ t = s)
  <1> DEFINE q == proc[a][s]
  <1> DEFINE p == [q EXCEPT !.os = "running"]
  <1>1. q \in Process
    BY Typed DEF ProcInv
  <1>2. /\ p \in Process /\ Set(a, s, p) /\ faults' = faults
        /\ p.row = "REGISTERED" /\ p.seen = q.seen /\ q.row = "REGISTERED"
    BY <1>1 DEF ReleaseWrapper, Process, Groups
  <1>3. Right(p) /\ p.os = "running"
    BY <1>1, <1>2 DEF ProcInv, Right, ReleaseWrapper, Pending, Process
  <1> HIDE DEF p
  <1>4. /\ proc' \in [Attempts -> [Stages -> Process]]
        /\ \A b \in Attempts, t \in Stages :
              proc'[b][t] = IF b = a /\ t = s THEN p ELSE proc[b][t]
    BY <1>2, SetAt DEF ProcInv
  <1>5. \A b \in Attempts, t \in Stages :
           /\ proc'[b][t].row = proc[b][t].row
           /\ Executing(b, t)' => Executing(b, t) \/ (b = a /\ t = s)
    BY <1>2, <1>4 DEF Executing
  <1>6. \A b \in Attempts : Settled(b) => Settled(b)'
    BY <1>5 DEF Settled
  <1>7. ProcInv'
    BY <1>2, <1>3, <1>4, <1>6 DEF ProcInv, ProcTypeOK, OneOwner
  <1> QED BY <1>2, <1>5, <1>7
-----------------------------------------------------------------------------
(***************************************************************************)
(* What the steps of Attempt keep.                                         *)
(***************************************************************************)
\* An attempt that may still go on.
Going == DOMAIN AttemptTransitions \ (AttemptFailures \cup {"SUCCEEDED"})

\* An attempt that may go on holds its lease; one being settled may not.
Advances ==
    /\ \A a \in Attempts : att[a] \in Going => Held(a)
    /\ job.pc \in {"settleWork", "settleLease"} => att[a0] \notin Going

Jobs ==
    [at : Attempts \cup {0}, pc : Steps, stage : Bootstrap .. Submission,
     cause : Causes, cancelled : BOOLEAN, safe : BOOLEAN,
     filed : [Kinds -> Trees \cup {NoTree}]]

\* The engine's step fits the stage, the attempt and the failure it holds.
Shape ==
    /\ phase = "recovering" => job.pc = "idle"
    /\ IF job.pc \in {"idle", "claim"}
         THEN /\ a0 = 0 /\ job.cause = "none" /\ job.stage = Bootstrap
              /\ \A k \in Kinds : job.filed[k] = NoTree
         ELSE a0 \in Attempts
    /\ job.pc \in {"begin", "register", "release", "await", "stopped"} =>
          job.stage \in Stages
    /\ job.pc \in {"enter", "begin", "register", "release", "await", "stopped",
                   "collect"} => job.cause = "none"
    /\ job.pc \in {"settle", "settleWork", "settleLease", "observe", "wait"} =>
          job.cause # "none"
    /\ job.pc = "collect" => job.stage = Agent
    /\ job.pc = "cleanup" /\ job.cause = "none" => job.stage = Validator

\* Without a failure, the artifacts of the stages behind the engine name the
\* tree of the bundle.
Filed ==
    job.cause = "none" =>
      /\ \/ job.stage \in {Probe, Validator, Reviewer, Submission}
         \/ job.stage = Service /\ job.pc # "enter"
         => job.filed["validation"] = job.filed["bundle"]
      /\ job.stage \in {Reviewer, Submission} \/ job.pc = "cleanup"
         => job.filed["run"] = job.filed["bundle"]
      /\ job.stage # Submission => job.filed["review"] = NoTree
      /\ job.stage = Submission =>
            job.filed["review"] \in {NoTree, job.filed["bundle"]}

\* Only the engine's attempt has rows that are not over, if there is one.
Alone == a0 # 0 => \A b \in Attempts \ {a0} : Settled(b)

\* Without a failure, what executes is the engine's stage, the service it is
\* for, or a probe that was given up.
Behind ==
    job.cause = "none" /\ a0 # 0 =>
      \A s \in Stages : Executing(a0, s) =>
        \/ s = Probe
        \/ s = job.stage /\ job.pc \in {"await", "stopped"}
        \/ s = Service /\ job.stage \in {Probe, Validator}

\* A retry is authorized over a project at rest.
AtRest == checkout.retry => NoLease /\ \A a \in Attempts : Settled(a)

IndInv ==
    /\ TypeOK /\ ProcInv
    /\ Advances /\ Shape /\ Filed /\ Alone /\ Behind /\ AtRest
-----------------------------------------------------------------------------
\* The numbers of the stages, and what is a step, a cause and a kind.
LEMMA Stages7 ==
  /\ Stages = 1 .. 6 /\ Bootstrap = 1 /\ Agent = 2 /\ Service = 3 /\ Probe = 4
  /\ Validator = 5 /\ Reviewer = 6 /\ Submission = 7
  BY AttemptAssumption DEF Bootstrap, Agent, Service, Probe, Validator,
     Reviewer, Submission

\* What the assumptions say of the numbers.
LEMMA Numbers ==
  /\ 0 \notin Attempts /\ Base \in Trees
  /\ MaxSteers \in Nat /\ MaxCrashes \in Nat /\ MaxFaults \in Nat
  BY AttemptAssumption, ProcessesAssumption

-----------------------------------------------------------------------------
\* The ways an action changes what the engine holds.
LEMMA GotoEffect ==
  ASSUME job \in Jobs, NEW pc \in Steps, Goto(pc)
  PROVE  /\ job' \in Jobs /\ job'.pc = pc /\ job'.at = job.at
         /\ job'.stage = job.stage /\ job'.cause = job.cause
         /\ job'.filed = job.filed
  <1>1. job' = [job EXCEPT !.pc = pc]
    BY DEF Goto
  <1>2. job' \in Jobs
    BY <1>1, Zenon DEF Jobs
  <1> QED BY <1>1, <1>2 DEF Jobs

\* The engine goes on with another stage.
LEMMA GotoStageEffect ==
  ASSUME job \in Jobs, NEW pc \in Steps, NEW s \in Bootstrap .. Submission,
         GotoStage(pc, s)
  PROVE  /\ job' \in Jobs /\ job'.pc = pc /\ job'.at = job.at
         /\ job'.stage = s /\ job'.cause = job.cause
         /\ job'.filed = job.filed
  <1>1. job' = [job EXCEPT !.pc = pc, !.stage = s]
    BY DEF GotoStage
  <1>2. job' \in Jobs
    BY <1>1, Zenon DEF Jobs
  <1> QED BY <1>1, <1>2 DEF Jobs

\* The engine files the tree of an artifact and goes on.
LEMMA FilingEffect ==
  ASSUME job \in Jobs, disk \in Trees, NEW kind \in Kinds, NEW pc \in Steps,
         NEW s \in Bootstrap .. Submission, Filing(kind, pc, s)
  PROVE  /\ job' \in Jobs /\ job'.pc = pc /\ job'.at = job.at
         /\ job'.stage = s /\ job'.cause = job.cause
         /\ \A k \in Kinds : job'.filed[k] = IF k = kind THEN disk ELSE job.filed[k]
  <1> DEFINE f == [job.filed EXCEPT ![kind] = disk]
  <1>1. /\ f \in [Kinds -> Trees \cup {NoTree}]
        /\ \A k \in Kinds : f[k] = IF k = kind THEN disk ELSE job.filed[k]
    BY DEF Jobs
  <1>2. job' = [job EXCEPT !.filed = f, !.pc = pc, !.stage = s]
    BY DEF Filing
  <1> HIDE DEF f
  <1>3. job' \in Jobs
    BY <1>1, <1>2, Zenon DEF Jobs
  <1> QED BY <1>1, <1>2, <1>3 DEF Jobs

\* What every step keeps of the engine's state: its shape, and that an attempt
\* is settled only after its failure is recorded.
Settling ==
    job'.pc \in {"settleWork", "settleLease"} =>
      \/ job'.pc = job.pc /\ job'.at = job.at
      \/ FailAttempt \/ FailWork

\* Where the engine goes on, without a failure, it stays or takes the next step.
Forward ==
    \/ EnterBootstrap \/ EnterAgent \/ EnterService \/ EnterValidator
    \/ EnterReviewer \/ Claim \/ Collect \/ Begin \/ Register \/ Release
    \/ Unconfirmed \/ StopRole \/ BootstrapEnds \/ AgentEnds \/ ProbeEnds
    \/ ValidatorEnds \/ ReviewerEnds \/ ServiceStopped
Onward ==
    job'.cause = "none" /\ job'.at # 0 =>
      \/ Forward
      \/ /\ job.cause = "none" /\ job'.at = job.at
         /\ job'.pc = job.pc /\ job'.stage = job.stage

JobGoal ==
    /\ job' \in Jobs /\ Shape' /\ Filed' /\ Settling /\ Onward
    /\ job'.at \in {job.at, 0} \/ Claim

\* The engine leaves the work.
LEMMA LeaveKeeps ==
  ASSUME job \in Jobs, Leave
  PROVE  JobGoal
  <1>1. /\ job' \in Jobs /\ job'.at = 0 /\ job'.pc = "idle" /\ job'.cause = "none"
        /\ job'.stage = Bootstrap /\ \A k \in Kinds : job'.filed[k] = NoTree
    <2>1. /\ "idle" \in Steps /\ Bootstrap \in Bootstrap .. Submission
          /\ "none" \in Causes /\ FALSE \in BOOLEAN /\ 0 \in Attempts \cup {0}
          /\ [k \in Kinds |-> NoTree] \in [Kinds -> Trees \cup {NoTree}]
      BY Stages7 DEF Steps, Causes
    <2>2. NoJob \in Jobs
      BY <2>1, Zenon DEF NoJob, Jobs
    <2> QED BY <2>2 DEF Leave, NoJob
  <1> QED BY <1>1, Stages7, Numbers DEF a0, JobGoal, Shape, Filed, Settling, Onward, Kinds

\* The engine fails and cleans up.
LEMMA FailsKeeps ==
  ASSUME job \in Jobs, a0 \in Attempts, phase' = "serving",
         NEW c \in Causes \ {"none"}, Fails(c)
  PROVE  JobGoal
  <1>1. job' = [job EXCEPT !.pc = "cleanup", !.cause = c]
    BY DEF Fails
  <1>2. "cleanup" \in Steps
    BY DEF Steps
  <1>3. job' \in Jobs
    BY <1>1, <1>2, Zenon DEF Jobs
  <1>4. job'.pc = "cleanup" /\ job'.cause = c /\ job'.at = job.at
    BY <1>1, <1>3 DEF Jobs
  <1> QED BY <1>3, <1>4 DEF a0, JobGoal, Shape, Filed, Settling, Onward

\* The engine comes to the settlement of a failure.
LEMMA SettleKeeps ==
  ASSUME job \in Jobs, a0 \in Attempts, phase' = "serving",
         NEW c \in Causes \ {"none"}, Settle(c)
  PROVE  JobGoal
  <1>1. job' = [NoJob EXCEPT !.at = a0, !.pc = "settle", !.cause = c]
    BY DEF Settle
  <1>2. NoJob \in Jobs /\ "settle" \in Steps
    <2>1. /\ "idle" \in Steps /\ Bootstrap \in Bootstrap .. Submission
          /\ "none" \in Causes /\ FALSE \in BOOLEAN /\ 0 \in Attempts \cup {0}
          /\ [k \in Kinds |-> NoTree] \in [Kinds -> Trees \cup {NoTree}]
      BY Stages7 DEF Steps, Causes
    <2> QED BY <2>1, Zenon DEF NoJob, Jobs, Steps
  <1>3. job' \in Jobs
    BY <1>1, <1>2, Zenon DEF Jobs
  <1>4. job'.pc = "settle" /\ job'.cause = c /\ job'.at = job.at
    BY <1>1, <1>2, <1>3 DEF a0, Jobs
  <1> QED BY <1>3, <1>4 DEF a0, JobGoal, Shape, Filed, Settling, Onward

\* The engine's state is as it was.
LEMMA SameKeeps ==
  ASSUME job \in Jobs, Shape, Filed, UNCHANGED job,
         phase' = phase \/ phase' = "serving"
  PROVE  JobGoal
  BY DEF a0, JobGoal, Shape, Filed, Settling, Onward

-----------------------------------------------------------------------------
\* Every step keeps what is said of the engine's state.
LEMMA JobStep ==
  ASSUME IndInv, Next
  PROVE  JobGoal
  <1> USE DEF IndInv
  <1>0. /\ job \in Jobs /\ disk \in Trees /\ phase \in {"serving", "recovering"}
        /\ Shape /\ Filed
    BY DEF TypeOK, Jobs
  <1>1. CASE Admit
    <2>0. job.pc = "idle" /\ phase' = "serving"
      BY <1>1 DEF Admit, At
    <2>1. CASE Leave
      BY <1>0, <2>1, LeaveKeeps
    <2>2. CASE Goto("claim")
      <3>1. /\ job' \in Jobs /\ job'.pc = "claim" /\ job'.at = job.at
            /\ job'.stage = job.stage /\ job'.cause = job.cause
            /\ job'.filed = job.filed
        BY <1>0, <2>2, GotoEffect DEF Steps
      <3> QED BY <1>0, <2>0, <3>1, Stages7 DEF a0, JobGoal, Shape, Filed,
          Settling, Onward, Forward, Kinds
    <2> QED BY <1>1, <2>1, <2>2 DEF Admit, StopInvariant
  <1>2. CASE Claim
    <2>0. job.pc = "claim" /\ phase' = "serving"
      BY <1>2 DEF Claim, At
    <2>1. PICK a \in Attempts : RecordWorkspace(a)
      BY <1>2 DEF Claim, Fresh
    <2> DEFINE f == [job.filed EXCEPT !["workspace"] = disk]
    <2>2. /\ f \in [Kinds -> Trees \cup {NoTree}]
          /\ \A k \in Kinds : k # "workspace" => f[k] = job.filed[k]
      BY <1>0 DEF Jobs
    <2>3. job' = [job EXCEPT !.at = a, !.pc = "enter", !.filed = f]
      BY <2>1 DEF RecordWorkspace
    <2> HIDE DEF f
    <2>4. "enter" \in Steps /\ a \in Attempts \cup {0}
      BY DEF Steps
    <2>5. job' \in Jobs
      BY <1>0, <2>2, <2>3, <2>4, Zenon DEF Jobs
    <2>6. /\ job'.at = a /\ job'.pc = "enter" /\ job'.stage = job.stage
          /\ job'.cause = job.cause /\ job'.filed = f
      BY <1>0, <2>3, <2>5 DEF Jobs
    <2> QED BY <1>2, <1>0, <2>0, <2>1, <2>2, <2>5, <2>6, Stages7,
        Numbers DEF a0, JobGoal, Shape, Filed, Settling, Onward, Forward, Kinds
  <1>3. CASE ClaimRefused
    <2>1. Leave
      BY <1>3 DEF ClaimRefused, StopInvariant
    <2> QED BY <1>0, <2>1, LeaveKeeps
  <1>4. CASE EnterBootstrap
    <2>0. phase' = "serving" /\ a0 \in Attempts
      BY <1>4, <1>0 DEF EnterBootstrap, At, AtStage, Fixed, Shape, progress,
          rows, Enters
    <2>1. Goto("begin") /\ "begin" \in Steps
      BY <1>4 DEF EnterBootstrap, Steps, Enters
    <2>2. /\ job' \in Jobs /\ job'.pc = "begin" /\ job'.at = job.at
          /\ job'.stage = job.stage /\ job'.cause = job.cause
          /\ job'.filed = job.filed
      BY <1>0, <2>1, GotoEffect
    <2> QED BY <1>4, <1>0, <2>0, <2>2, Stages7 DEF EnterBootstrap, At, AtStage,
        a0, JobGoal, Shape, Filed, Settling, Onward, Forward, Enters
  <1>5. CASE EnterAgent
    <2>0. phase' = "serving" /\ a0 \in Attempts
      BY <1>5, <1>0 DEF EnterAgent, At, AtStage, Fixed, Shape, progress, rows,
          Enters
    <2>1. Goto("begin") /\ "begin" \in Steps
      BY <1>5 DEF EnterAgent, Steps, Enters
    <2>2. /\ job' \in Jobs /\ job'.pc = "begin" /\ job'.at = job.at
          /\ job'.stage = job.stage /\ job'.cause = job.cause
          /\ job'.filed = job.filed
      BY <1>0, <2>1, GotoEffect
    <2> QED BY <1>5, <1>0, <2>0, <2>2, Stages7 DEF EnterAgent, At, AtStage, a0,
        JobGoal, Shape, Filed, Settling, Onward, Forward, Enters
  <1>6. CASE EnterReviewer
    <2>0. phase' = "serving" /\ a0 \in Attempts
      BY <1>6, <1>0 DEF EnterReviewer, At, AtStage, Fixed, Shape, progress,
          rows, Enters
    <2>1. Goto("begin") /\ "begin" \in Steps
      BY <1>6 DEF EnterReviewer, Steps, Enters
    <2>2. /\ job' \in Jobs /\ job'.pc = "begin" /\ job'.at = job.at
          /\ job'.stage = job.stage /\ job'.cause = job.cause
          /\ job'.filed = job.filed
      BY <1>0, <2>1, GotoEffect
    <2> QED BY <1>6, <1>0, <2>0, <2>2, Stages7 DEF EnterReviewer, At, AtStage,
        a0, JobGoal, Shape, Filed, Settling, Onward, Forward, Enters
  <1>7. CASE EnterService
    <2>0. phase' = "serving" /\ a0 \in Attempts
      BY <1>7, <1>0 DEF EnterService, At, AtStage, Fixed, Shape, progress,
          rows, Enters
    <2>1. Filing("validation", "begin",
        Service) /\ "begin" \in Steps /\ Service \in Bootstrap .. Submission
          /\ Kinds = {"workspace", "bundle", "validation", "run", "review"}
      BY <1>7, Stages7 DEF EnterService, Steps, Kinds, RecordEnvironment, Enters
    <2>2. /\ job' \in Jobs /\ job'.pc = "begin" /\ job'.at = job.at
          /\ job'.stage = Service /\ job'.cause = job.cause
          /\ \A k \in Kinds : job'.filed[k] = IF k = "validation" THEN disk ELSE job.filed[k]
      BY <1>0, <2>1, FilingEffect
    <2>3. disk = job.filed["bundle"] /\ job.cause = "none"
      BY <1>7, <1>0, Stages7 DEF EnterService, Shape, At, AtStage, Unmoved,
          Expected, Passed, Enters
    <2> QED BY <1>7, <1>0, <2>0, <2>1, <2>2, <2>3, Stages7 DEF EnterService,
        Enters, At, AtStage, a0, JobGoal, Shape, Filed, Settling, Onward, Forward
  <1>8. CASE EnterValidator
    <2>0. phase' = "serving" /\ a0 \in Attempts
      BY <1>8, <1>0 DEF EnterValidator, At, AtStage, Fixed, Shape, progress,
          rows, Enters
    <2>1. CASE Goto("begin")
      <3>1. /\ job' \in Jobs /\ job'.pc = "begin" /\ job'.at = job.at
            /\ job'.stage = job.stage /\ job'.cause = job.cause
            /\ job'.filed = job.filed
        BY <1>0, <2>1, GotoEffect DEF Steps
      <3> QED BY <1>8, <1>0, <2>0, <3>1, Stages7 DEF EnterValidator, Enters,
          At, AtStage, a0, JobGoal, Shape, Filed, Settling, Onward, Forward
    <2>2. CASE \E c \in Causes \ {"none"} : Fails(c)
      BY <1>0, <2>0, <2>2, FailsKeeps
    <2> QED BY <1>8, <1>0, <2>1, <2>2 DEF EnterValidator, Enters, Causes,
        Shape, At, AtStage
  <1>9. CASE EnterRefused
    <2>0. phase' = "serving" /\ a0 \in Attempts
      BY <1>9, <1>0 DEF EnterRefused, At, AtStage, Fixed, Shape, progress, rows
    <2>1. \E c \in Causes \ {"none"} : Fails(c)
      BY <1>9 DEF EnterRefused, Causes
    <2> QED BY <1>0, <2>0, <2>1, FailsKeeps
  <1>10. CASE Submit
    <2>1. Leave
      BY <1>10 DEF Submit, Complete
    <2> QED BY <1>0, <2>1, LeaveKeeps
  <1>11. CASE SubmitRefused
    <2>0. phase' = "serving" /\ a0 \in Attempts
      BY <1>11, <1>0 DEF SubmitRefused, At, AtStage, Fixed, Shape, progress, rows
    <2>1. \E c \in Causes \ {"none"} : Fails(c)
      BY <1>11 DEF SubmitRefused, Causes
    <2> QED BY <1>0, <2>0, <2>1, FailsKeeps
  <1>12. CASE Collect
    <2>0. phase' = "serving" /\ a0 \in Attempts
      BY <1>12, <1>0 DEF Collect, At, AtStage, Fixed, Shape, progress, rows
    <2>1. CASE \E c \in Causes \ {"none"} : Fails(c)
      BY <1>0, <2>0, <2>1, FailsKeeps
    <2>2. CASE RecordPatchBundle
      <3>1. /\ Filing("bundle", "enter", Service) /\ "enter" \in Steps
            /\ Service \in Bootstrap .. Submission
            /\ Kinds = {"workspace", "bundle", "validation", "run", "review"}
        BY <2>2, Stages7 DEF RecordPatchBundle, Steps, Kinds
      <3>2. /\ job' \in Jobs /\ job'.pc = "enter" /\ job'.at = job.at
            /\ job'.stage = Service /\ job'.cause = job.cause
            /\ \A k \in Kinds : job'.filed[k] = IF k = "bundle" THEN disk ELSE job.filed[k]
        BY <1>0, <3>1, FilingEffect
      <3> QED BY <1>12, <1>0, <2>0, <3>1, <3>2, Stages7 DEF Collect, At, a0,
          JobGoal, Shape, Filed, Settling, Onward, Forward
    <2> QED BY <1>12, <2>1, <2>2 DEF Collect, Causes
  <1>13. CASE Begin
    <2>0. phase' = "serving" /\ a0 \in Attempts
      BY <1>13, <1>0 DEF Begin, At, AtStage, Fixed, Shape, progress, rows
    <2>1. Goto("register") /\ "register" \in Steps
      BY <1>13 DEF Begin, Steps
    <2>2. /\ job' \in Jobs /\ job'.pc = "register" /\ job'.at = job.at
          /\ job'.stage = job.stage /\ job'.cause = job.cause
          /\ job'.filed = job.filed
      BY <1>0, <2>1, GotoEffect
    <2> QED BY <1>13, <1>0, <2>0, <2>2, Stages7 DEF Begin, At, AtStage, a0,
        JobGoal, Shape, Filed, Settling, Onward, Forward
  <1>14. CASE BeginRefused
    <2>0. phase' = "serving" /\ a0 \in Attempts
      BY <1>14, <1>0 DEF BeginRefused, At, AtStage, Fixed, Shape, progress, rows
    <2>1. \E c \in Causes \ {"none"} : Fails(c)
      BY <1>14 DEF BeginRefused, Causes
    <2> QED BY <1>0, <2>0, <2>1, FailsKeeps
  <1>15. CASE Register
    <2>0. phase' = "serving" /\ a0 \in Attempts
      BY <1>15, <1>0 DEF Register, At, AtStage, Fixed, Shape, progress, rows
    <2>1. Goto("release") /\ "release" \in Steps
      BY <1>15 DEF Register, Steps
    <2>2. /\ job' \in Jobs /\ job'.pc = "release" /\ job'.at = job.at
          /\ job'.stage = job.stage /\ job'.cause = job.cause
          /\ job'.filed = job.filed
      BY <1>0, <2>1, GotoEffect
    <2> QED BY <1>15, <1>0, <2>0, <2>2, Stages7 DEF Register, At, AtStage, a0,
        JobGoal, Shape, Filed, Settling, Onward, Forward
  <1>16. CASE StartFails
    <2>0. phase' = "serving" /\ a0 \in Attempts
      BY <1>16, <1>0 DEF StartFails, At, AtStage, Fixed, Shape, progress, rows
    <2>1. \E c \in Causes \ {"none"} : Fails(c)
      BY <1>16 DEF StartFails, Causes
    <2> QED BY <1>0, <2>0, <2>1, FailsKeeps
  <1>17. CASE Release
    <2>0. phase' = "serving" /\ a0 \in Attempts
      BY <1>17, <1>0 DEF Release, At, AtStage, Fixed, Shape, progress, rows
    <2>1. CASE Goto("await")
      <3>1. /\ job' \in Jobs /\ job'.pc = "await" /\ job'.at = job.at
            /\ job'.stage = job.stage /\ job'.cause = job.cause
            /\ job'.filed = job.filed
        BY <1>0, <2>1, GotoEffect DEF Steps
      <3> QED BY <1>17, <1>0, <2>0, <3>1, Stages7 DEF Release, At, AtStage, a0,
          JobGoal, Shape, Filed, Settling, Onward, Forward
    <2>2. CASE GotoStage("begin", Probe) /\ job.stage = Service
      <3>1. /\ job' \in Jobs /\ job'.pc = "begin" /\ job'.at = job.at
            /\ job'.stage = Probe /\ job'.cause = job.cause
            /\ job'.filed = job.filed
        BY <1>0, <2>2, Stages7, GotoStageEffect DEF Steps
      <3> QED BY <1>17, <1>0, <2>0, <2>2, <3>1, Stages7 DEF Release, At,
          AtStage, a0, JobGoal, Shape, Filed, Settling, Onward, Forward
    <2> QED BY <1>17, <1>0, <2>1, <2>2 DEF Release, Causes, Shape, At, AtStage
  <1>18. CASE Unconfirmed
    <2>0. phase' = "serving" /\ a0 \in Attempts
      BY <1>18, <1>0 DEF Unconfirmed, At, AtStage, Fixed, Shape, progress, rows
    <2>1. CASE \E c \in Causes \ {"none"} : Fails(c)
      BY <1>0, <2>0, <2>1, FailsKeeps
    <2>2. CASE GotoStage("enter", Validator) /\ job.stage = Probe
      <3>1. /\ job' \in Jobs /\ job'.pc = "enter" /\ job'.at = job.at
            /\ job'.stage = Validator /\ job'.cause = job.cause
            /\ job'.filed = job.filed
        BY <1>0, <2>2, Stages7, GotoStageEffect DEF Steps
      <3> QED BY <1>18, <1>0, <2>0, <2>2, <3>1, Stages7 DEF Unconfirmed, At,
          AtStage, a0, JobGoal, Shape, Filed, Settling, Onward, Forward
    <2> QED BY <1>18, <1>0, <2>1, <2>2 DEF Unconfirmed, Causes, Shape, At, AtStage
  <1>19. CASE StopRole
    <2>0. phase' = "serving" /\ a0 \in Attempts
      BY <1>19, <1>0 DEF StopRole, At, AtStage, Fixed, Shape, progress, rows
    <2>1. CASE \E c \in Causes \ {"none"} : Fails(c)
      BY <1>0, <2>0, <2>1, FailsKeeps
    <2>2. CASE Goto("stopped")
      <3>1. /\ job' \in Jobs /\ job'.pc = "stopped" /\ job'.at = job.at
            /\ job'.stage = job.stage /\ job'.cause = job.cause
            /\ job'.filed = job.filed
        BY <1>0, <2>2, GotoEffect DEF Steps
      <3> QED BY <1>19, <1>0, <2>0, <3>1, Stages7 DEF StopRole, At, AtStage,
          a0, JobGoal, Shape, Filed, Settling, Onward, Forward
    <2>3. CASE GotoStage("enter", Validator) /\ job.stage = Probe
      <3>1. /\ job' \in Jobs /\ job'.pc = "enter" /\ job'.at = job.at
            /\ job'.stage = Validator /\ job'.cause = job.cause
            /\ job'.filed = job.filed
        BY <1>0, <2>3, Stages7, GotoStageEffect DEF Steps
      <3> QED BY <1>19, <1>0, <2>0, <2>3, <3>1, Stages7 DEF StopRole, At,
          AtStage, a0, JobGoal, Shape, Filed, Settling, Onward, Forward
    <2> QED BY <1>19, <1>0, <2>1, <2>2, <2>3 DEF StopRole, Causes, Shape, At,
        AtStage
  <1>20. CASE RoleFails
    <2>0. phase' = "serving" /\ a0 \in Attempts
      BY <1>20, <1>0 DEF RoleFails, At, AtStage, Fixed, Shape, progress, rows,
          Blames
    <2>1. \E c \in Causes \ {"none"} : Fails(c)
      BY <1>20 DEF RoleFails, Causes, Blames
    <2> QED BY <1>0, <2>0, <2>1, FailsKeeps
  <1>21. CASE BootstrapEnds
    <2>0. phase' = "serving" /\ a0 \in Attempts
      BY <1>21, <1>0 DEF BootstrapEnds, At, AtStage, Fixed, Shape, progress, rows
    <2>1. GotoStage("enter",
        Agent) /\ "enter" \in Steps /\ Agent \in Bootstrap .. Submission
      BY <1>21, Stages7 DEF BootstrapEnds, Steps
    <2>2. /\ job' \in Jobs /\ job'.pc = "enter" /\ job'.at = job.at
          /\ job'.stage = Agent /\ job'.cause = job.cause
          /\ job'.filed = job.filed
      BY <1>0, <2>1, GotoStageEffect
    <2> QED BY <1>21, <1>0, <2>0, <2>2, Stages7 DEF BootstrapEnds, At, AtStage,
        a0, JobGoal, Shape, Filed, Settling, Onward, Forward
  <1>22. CASE AgentEnds
    <2>0. phase' = "serving" /\ a0 \in Attempts
      BY <1>22, <1>0 DEF AgentEnds, At, AtStage, Fixed, Shape, progress, rows
    <2>1. Goto("collect") /\ "collect" \in Steps
      BY <1>22 DEF AgentEnds, Steps
    <2>2. /\ job' \in Jobs /\ job'.pc = "collect" /\ job'.at = job.at
          /\ job'.stage = job.stage /\ job'.cause = job.cause
          /\ job'.filed = job.filed
      BY <1>0, <2>1, GotoEffect
    <2> QED BY <1>22, <1>0, <2>0, <2>2, Stages7 DEF AgentEnds, At, AtStage, a0,
        JobGoal, Shape, Filed, Settling, Onward, Forward
  <1>23. CASE ProbeEnds
    <2>0. phase' = "serving" /\ a0 \in Attempts
      BY <1>23, <1>0 DEF ProbeEnds, At, AtStage, Fixed, Shape, progress, rows
    <2>1. GotoStage("enter",
        Validator) /\ "enter" \in Steps /\ Validator \in Bootstrap .. Submission
      BY <1>23, Stages7 DEF ProbeEnds, Steps
    <2>2. /\ job' \in Jobs /\ job'.pc = "enter" /\ job'.at = job.at
          /\ job'.stage = Validator /\ job'.cause = job.cause
          /\ job'.filed = job.filed
      BY <1>0, <2>1, GotoStageEffect
    <2> QED BY <1>23, <1>0, <2>0, <2>2, Stages7 DEF ProbeEnds, At, AtStage, a0,
        JobGoal, Shape, Filed, Settling, Onward, Forward
  <1>24. CASE ValidatorEnds
    <2>0. phase' = "serving" /\ a0 \in Attempts
      BY <1>24, <1>0 DEF ValidatorEnds, At, AtStage, Fixed, Shape, progress,
          rows, Enters
    <2>1. Filing("run", "cleanup",
        Validator) /\ "cleanup" \in Steps /\ Validator \in Bootstrap .. Submission
          /\ Kinds = {"workspace", "bundle", "validation", "run", "review"}
      BY <1>24, Stages7 DEF ValidatorEnds, Steps, Kinds, RecordValidatorRun
    <2>2. /\ job' \in Jobs /\ job'.pc = "cleanup" /\ job'.at = job.at
          /\ job'.stage = Validator /\ job'.cause = job.cause
          /\ \A k \in Kinds : job'.filed[k] = IF k = "run" THEN disk ELSE job.filed[k]
      BY <1>0, <2>1, FilingEffect
    <2>3. disk = job.filed["bundle"] /\ job.cause = "none"
      BY <1>24, <1>0, Stages7 DEF ValidatorEnds, Shape, At, AtStage, Unmoved,
          Expected, Passed, Enters
    <2> QED BY <1>24, <1>0, <2>0, <2>1, <2>2, <2>3, Stages7 DEF ValidatorEnds,
        Enters, At, AtStage, a0, JobGoal, Shape, Filed, Settling, Onward, Forward
  <1>25. CASE ReviewerEnds
    <2>0. phase' = "serving" /\ a0 \in Attempts
      BY <1>25, <1>0 DEF ReviewerEnds, At, AtStage, Fixed, Shape, progress,
          rows, Enters
    <2>1. Filing("review", "enter",
        Submission) /\ "enter" \in Steps /\ Submission \in Bootstrap .. Submission
          /\ Kinds = {"workspace", "bundle", "validation", "run", "review"}
      BY <1>25, Stages7 DEF ReviewerEnds, Steps, Kinds, RecordReview
    <2>2. /\ job' \in Jobs /\ job'.pc = "enter" /\ job'.at = job.at
          /\ job'.stage = Submission /\ job'.cause = job.cause
          /\ \A k \in Kinds : job'.filed[k] = IF k = "review" THEN disk ELSE job.filed[k]
      BY <1>0, <2>1, FilingEffect
    <2>3. disk = job.filed["bundle"] /\ job.cause = "none"
      BY <1>25, <1>0, Stages7 DEF ReviewerEnds, Shape, At, AtStage, Unmoved,
          Expected, Passed, Enters
    <2> QED BY <1>25, <1>0, <2>0, <2>1, <2>2, <2>3, Stages7 DEF ReviewerEnds,
        Enters, At, AtStage, a0, JobGoal, Shape, Filed, Settling, Onward, Forward
  <1>26. CASE StopService
    <2>0. phase' = "serving" /\ a0 \in Attempts
      BY <1>26, <1>0 DEF StopService, At, AtStage, Fixed, Shape, progress, rows
    <2>1. CASE UNCHANGED job
      BY <1>0, <2>0, <2>1, SameKeeps
    <2>2. CASE \E c \in Causes \ {"none"} : Settle(c)
      BY <1>0, <2>0, <2>2, SettleKeeps
    <2> QED BY <1>26, <1>0, <2>1, <2>2 DEF StopService, Causes, Shape, At, AtStage
  <1>27. CASE ServiceStopped
    <2>0. phase' = "serving" /\ a0 \in Attempts
      BY <1>27, <1>0 DEF ServiceStopped, At, AtStage, Fixed, Shape, progress, rows
    <2>1. CASE \E c \in Causes \ {"none"} : Settle(c)
      BY <1>0, <2>0, <2>1, SettleKeeps
    <2>2. CASE GotoStage("enter", Reviewer) /\ job.cause = "none"
      <3>1. /\ job' \in Jobs /\ job'.pc = "enter" /\ job'.at = job.at
            /\ job'.stage = Reviewer /\ job'.cause = job.cause
            /\ job'.filed = job.filed
        BY <1>0, <2>2, Stages7, GotoStageEffect DEF Steps
      <3> QED BY <1>27, <1>0, <2>0, <2>2, <3>1, Stages7 DEF ServiceStopped, At,
          AtStage, a0, JobGoal, Shape, Filed, Settling, Onward, Forward
    <2>3. CASE GotoStage("enter", Submission) /\ job.cause = "none"
      <3>1. /\ job' \in Jobs /\ job'.pc = "enter" /\ job'.at = job.at
            /\ job'.stage = Submission /\ job'.cause = job.cause
            /\ job'.filed = job.filed
        BY <1>0, <2>3, Stages7, GotoStageEffect DEF Steps
      <3> QED BY <1>27, <1>0, <2>0, <2>3, <3>1, Stages7 DEF ServiceStopped, At,
          AtStage, a0, JobGoal, Shape, Filed, Settling, Onward, Forward
    <2>4. /\ "unconfirmed" \in Causes \ {"none"}
          /\ job.cause # "none" => job.cause \in Causes \ {"none"}
      BY <1>0 DEF Causes, Jobs
    <2>5. \/ Settle("unconfirmed")
          \/ job.cause # "none" /\ Settle(job.cause)
          \/ job.cause = "none" /\ (GotoStage("enter",
              Reviewer) \/ GotoStage("enter", Submission))
      BY <1>27 DEF ServiceStopped
    <2>6. CASE Settle("unconfirmed") \/ (job.cause # "none" /\ Settle(job.cause))
      BY <2>1, <2>4, <2>6, Zenon
    <2> QED BY <2>2, <2>3, <2>5, <2>6

  <1>28. CASE FailAttempt
    <2>0. phase' = "serving" /\ a0 \in Attempts
      BY <1>28, <1>0 DEF FailAttempt, At, AtStage, Fixed, Shape, progress, rows
    <2>1. CASE Goto("wait")
      <3>1. /\ job' \in Jobs /\ job'.pc = "wait" /\ job'.at = job.at
            /\ job'.stage = job.stage /\ job'.cause = job.cause
            /\ job'.filed = job.filed
        BY <1>0, <2>1, GotoEffect DEF Steps
      <3> QED BY <1>28, <1>0, <2>0, <3>1, Stages7 DEF FailAttempt, At, AtStage,
          a0, JobGoal, Shape, Filed, Settling, Onward, Forward
    <2>2. CASE Goto("settleWork")
      <3>1. /\ job' \in Jobs /\ job'.pc = "settleWork" /\ job'.at = job.at
            /\ job'.stage = job.stage /\ job'.cause = job.cause
            /\ job'.filed = job.filed
        BY <1>0, <2>2, GotoEffect DEF Steps
      <3> QED BY <1>28, <1>0, <2>0, <3>1, Stages7 DEF FailAttempt, At, AtStage,
          a0, JobGoal, Shape, Filed, Settling, Onward, Forward
    <2> QED BY <1>28, <1>0, <2>1, <2>2 DEF FailAttempt, Causes, Shape, At, AtStage
  <1>29. CASE FailWork
    <2>0. phase' = "serving" /\ a0 \in Attempts
      BY <1>29, <1>0 DEF FailWork, At, AtStage, Fixed, Shape, progress, rows
    <2>1. Goto("settleLease") /\ "settleLease" \in Steps
      BY <1>29 DEF FailWork, Steps
    <2>2. /\ job' \in Jobs /\ job'.pc = "settleLease" /\ job'.at = job.at
          /\ job'.stage = job.stage /\ job'.cause = job.cause
          /\ job'.filed = job.filed
      BY <1>0, <2>1, GotoEffect
    <2> QED BY <1>29, <1>0, <2>0, <2>2, Stages7 DEF FailWork, At, AtStage, a0,
        JobGoal, Shape, Filed, Settling, Onward, Forward
  <1>30. CASE ReleaseLease
    <2>0. phase' = "serving" /\ a0 \in Attempts
      BY <1>30, <1>0 DEF ReleaseLease, At, AtStage, Fixed, Shape, progress,
          rows, Expire, StopInvariant
    <2>1. CASE Leave
      BY <1>0, <2>1, LeaveKeeps
    <2>2. CASE Goto("observe")
      <3>1. /\ job' \in Jobs /\ job'.pc = "observe" /\ job'.at = job.at
            /\ job'.stage = job.stage /\ job'.cause = job.cause
            /\ job'.filed = job.filed
        BY <1>0, <2>2, GotoEffect DEF Steps
      <3> QED BY <1>30, <1>0, <2>0, <3>1, Stages7 DEF ReleaseLease, Expire,
          StopInvariant, At, AtStage, a0, JobGoal, Shape, Filed, Settling,
              Onward, Forward
    <2> QED BY <1>30, <1>0, <2>1, <2>2 DEF ReleaseLease, Expire, StopInvariant,
        Causes, Shape, At, AtStage
  <1>31. CASE Observe
    <2>0. phase' = "serving" /\ a0 \in Attempts
      BY <1>31, <1>0 DEF Observe, At, AtStage, Fixed, Shape, progress, rows
    <2>1. PICK safe \in {FALSE, job.cause = "failed" /\ checkout.owned} :
            job' = [job EXCEPT !.pc = "wait", !.safe = safe]
      BY <1>31 DEF Observe
    <2>2. safe \in BOOLEAN
      BY <2>1, <1>0 DEF TypeOK
    <2>3. "wait" \in Steps
      BY DEF Steps
    <2>4. job' \in Jobs
      BY <1>0, <2>1, <2>2, <2>3, Zenon DEF Jobs
    <2>5. /\ job'.pc = "wait" /\ job'.at = job.at /\ job'.cause = job.cause
      BY <1>0, <2>1, <2>4 DEF Jobs
    <2> QED BY <1>31, <1>0, <2>0, <2>4, <2>5 DEF Observe, At, a0, JobGoal,
        Shape, Filed, Settling, Onward, Forward
  <1>32. CASE WaitForNothing
    <2>1. Leave
      BY <1>32 DEF WaitForNothing
    <2> QED BY <1>0, <2>1, LeaveKeeps
  <1>33. CASE RetryAutomatically
    <2>1. Leave
      BY <1>33 DEF RetryAutomatically
    <2> QED BY <1>0, <2>1, LeaveKeeps
  <1>34. CASE AskOperator
    <2>1. Leave
      BY <1>34 DEF AskOperator
    <2> QED BY <1>0, <2>1, LeaveKeeps
  <1>35. CASE Pause
    <2>1. UNCHANGED job /\ (phase' = phase \/ phase' = "serving")
      BY <1>35 DEF Pause, Rest
    <2> QED BY <1>0, <2>1, SameKeeps
  <1>36. CASE Resume
    <2>1. UNCHANGED job /\ (phase' = phase \/ phase' = "serving")
      BY <1>36 DEF Resume, Rest
    <2> QED BY <1>0, <2>1, SameKeeps
  <1>37. CASE CancelGoal
    <2>1. UNCHANGED job /\ (phase' = phase \/ phase' = "serving")
      BY <1>37 DEF CancelGoal, Rest
    <2> QED BY <1>0, <2>1, SameKeeps
  <1>38. CASE CancelWork
    <2>1. UNCHANGED job /\ (phase' = phase \/ phase' = "serving")
      BY <1>38 DEF CancelWork, Rest
    <2> QED BY <1>0, <2>1, SameKeeps
  <1>39. CASE RetryWork
    <2>1. UNCHANGED job /\ (phase' = phase \/ phase' = "serving")
      BY <1>39 DEF RetryWork, Rest
    <2> QED BY <1>0, <2>1, SameKeeps
  <1>40. CASE DecideGate
    <2>1. UNCHANGED job /\ (phase' = phase \/ phase' = "serving")
      BY <1>40 DEF DecideGate, Rest
    <2> QED BY <1>0, <2>1, SameKeeps
  <1>41. CASE Edit
    <2>1. UNCHANGED job /\ (phase' = phase \/ phase' = "serving")
      BY <1>41 DEF Edit
    <2> QED BY <1>0, <2>1, SameKeeps
  <1>42. CASE CancelReaches
    <2>1. job' = [job EXCEPT !.cancelled = (job.pc \in Cancellable)]
      BY <1>42 DEF CancelReaches
    <2>2. (job.pc \in Cancellable) \in BOOLEAN
      OBVIOUS
    <2>3. job' \in Jobs
      BY <1>0, <2>1, <2>2, Zenon DEF Jobs
    <2>4. /\ job'.pc = job.pc /\ job'.at = job.at /\ job'.stage = job.stage
          /\ job'.cause = job.cause /\ job'.filed = job.filed
      BY <1>0, <2>1, <2>3 DEF Jobs
    <2>5. phase' = phase
      BY <1>42 DEF CancelReaches, Fixed
    <2> QED BY <1>0, <2>3, <2>4, <2>5 DEF a0, JobGoal, Shape, Filed, Settling,
        Onward
  <1>43. CASE HeartbeatFails
    <2>1. job' = [job EXCEPT !.cancelled = TRUE]
      BY <1>43 DEF HeartbeatFails
    <2>2. TRUE \in BOOLEAN
      OBVIOUS
    <2>3. job' \in Jobs
      BY <1>0, <2>1, <2>2, Zenon DEF Jobs
    <2>4. /\ job'.pc = job.pc /\ job'.at = job.at /\ job'.stage = job.stage
          /\ job'.cause = job.cause /\ job'.filed = job.filed
      BY <1>0, <2>1, <2>3 DEF Jobs
    <2>5. phase' = phase
      BY <1>43 DEF HeartbeatFails, Fixed
    <2> QED BY <1>0, <2>3, <2>4, <2>5 DEF a0, JobGoal, Shape, Filed, Settling,
        Onward
  <1>44. CASE Lapse
    <2>1. UNCHANGED job /\ (phase' = phase \/ phase' = "serving")
      BY <1>44 DEF Lapse
    <2> QED BY <1>0, <2>1, SameKeeps
  <1>45. CASE Write
    <2>1. UNCHANGED job /\ (phase' = phase \/ phase' = "serving")
      BY <1>45 DEF Write
    <2> QED BY <1>0, <2>1, SameKeeps
  <1>46. CASE Crash
    <2>1. Leave
      BY <1>46 DEF Crash
    <2> QED BY <1>0, <2>1, LeaveKeeps
  <1>47. CASE Reconcile
    <2>1. UNCHANGED job /\ (phase' = phase \/ phase' = "serving")
      BY <1>47 DEF Reconcile
    <2> QED BY <1>0, <2>1, SameKeeps
  <1>48. ASSUME NEW a \in Attempts, NEW s \in Stages,
              Run(a, s) \/ Watch(a, s) \/ Recover(a, s)
        PROVE  JobGoal
    <2>1. UNCHANGED job /\ phase' = phase
      BY <1>48 DEF Run, Watch, Recover, Fixed
    <2> QED BY <1>0, <2>1, SameKeeps
  <1> QED BY <1>1, <1>2, <1>3, <1>4, <1>5, <1>6, <1>7, <1>8, <1>9, <1>10,
      <1>11, <1>12, <1>13, <1>14, <1>15, <1>16, <1>17, <1>18, <1>19, <1>20,
          <1>21, <1>22, <1>23, <1>24, <1>25, <1>26, <1>27, <1>28, <1>29, <1>30,
              <1>31, <1>32, <1>33, <1>34, <1>35, <1>36, <1>37, <1>38, <1>39,
                  <1>40, <1>41, <1>42, <1>43, <1>44, <1>45, <1>46, <1>47, <1>48
     DEF Next, Engine, Operator, Environment
-----------------------------------------------------------------------------
\* The actions that reach no process.
LEMMA ProcessesRest ==
  ASSUME Next
  PROVE  \/ UNCHANGED procVars
         \/ Begin \/ Register \/ StartFails \/ Release \/ StopRole
         \/ StopService \/ ServiceStopped \/ ReleaseLease \/ Lapse \/ Crash
         \/ Reconcile
         \/ \E a \in Attempts, s \in Stages : Run(a, s) \/ Watch(a, s) \/ Recover(a, s)
  <1>1. CASE \/ Admit \/ Claim \/ ClaimRefused \/ EnterRefused
             \/ Submit \/ SubmitRefused \/ Collect \/ BeginRefused
    BY <1>1 DEF Admit, Claim, ClaimRefused, EnterRefused, Submit, Complete,
       SubmitRefused, Collect, BeginRefused, procVars
  <1>2. CASE \/ EnterBootstrap \/ EnterAgent \/ EnterService \/ EnterValidator
             \/ EnterReviewer
    BY <1>2 DEF EnterBootstrap, EnterAgent, EnterService, EnterValidator,
       EnterReviewer, Enters, procVars
  <1>3. CASE \/ Unconfirmed \/ RoleFails \/ BootstrapEnds \/ AgentEnds
             \/ ProbeEnds \/ ValidatorEnds \/ ReviewerEnds
    BY <1>3 DEF Unconfirmed, RoleFails, BootstrapEnds, AgentEnds, ProbeEnds,
       ValidatorEnds, ReviewerEnds, procVars
  <1>4. CASE \/ FailAttempt \/ FailWork \/ Observe \/ WaitForNothing
             \/ RetryAutomatically \/ AskOperator
    BY <1>4 DEF FailAttempt, FailWork, Observe, WaitForNothing,
       RetryAutomatically, AskOperator, procVars
  <1>5. CASE Operator
    BY <1>5 DEF Operator, Pause, Resume, CancelGoal, CancelWork, RetryWork,
       DecideGate, Edit, Rest, procVars
  <1>6. CASE CancelReaches \/ HeartbeatFails \/ Write
    BY <1>6 DEF CancelReaches, HeartbeatFails, Write, procVars
  <1> QED BY <1>1, <1>2, <1>3, <1>4, <1>5, <1>6 DEF Next, Engine, Environment

\* Every step keeps the journal right, and two actions alone bring a row or a
\* group to life.
LEMMA ProcStep ==
  ASSUME IndInv, Next
  PROVE  /\ ProcInv'
         /\ Calmer \/ Begin \/ Release
  <1>1. ProcInv /\ Service \in Stages /\ faults \in 0 .. MaxFaults
    BY Stages7 DEF IndInv, ProcInv, ProcTypeOK
  <1>2. ASSUME job.pc \in {"begin", "register", "release", "await", "stopped"}
        PROVE  a0 \in Attempts /\ job.stage \in Stages
    BY <1>2 DEF IndInv, Shape
  <1>3. ASSUME job.pc = "cleanup"
        PROVE  a0 \in Attempts
    BY <1>3 DEF IndInv, Shape
  <1>4. ASSUME NEW a \in Attempts, NEW s \in Stages, Ends(a, s)
        PROVE  ProcInv' /\ Calmer
    BY <1>1, <1>4, EndsKeep
  <1>5. ASSUME \/ CrashProcesses \/ ForgetEnded
               \/ proc' = proc /\ faults' \in 0 .. MaxFaults
        PROVE  ProcInv' /\ Calmer
    BY <1>1, <1>5, AllKeep
  <1>6. CASE UNCHANGED procVars
    BY <1>1, <1>5, <1>6 DEF procVars
  <1>7. CASE Begin
    BY <1>1, <1>2, <1>7, BeginKeeps DEF Begin, At
  <1>8. CASE Release
    BY <1>1, <1>2, <1>8, ReleaseKeeps DEF Release, At
  <1>9. CASE Register \/ StartFails
    <2>1. Ends(a0, job.stage) /\ a0 \in Attempts /\ job.stage \in Stages
      BY <1>2, <1>9 DEF Register, StartFails, At, Ends
    <2> QED BY <1>4, <2>1
  <1>10. CASE StopRole
    <2>1. Ends(a0, job.stage) /\ a0 \in Attempts /\ job.stage \in Stages
      BY <1>2, <1>10 DEF StopRole, At, Ends
    <2> QED BY <1>4, <2>1
  <1>11. CASE StopService
    <2>1. Ends(a0, Service) /\ a0 \in Attempts
      BY <1>3, <1>11 DEF StopService, At, Ends
    <2> QED BY <1>1, <1>4, <2>1
  <1>12. CASE ServiceStopped \/ Reconcile
    BY <1>5, <1>12 DEF ServiceStopped, Reconcile
  <1>13. CASE ReleaseLease \/ Lapse
    <2>1. proc' = proc /\ faults' \in 0 .. MaxFaults
      BY <1>1, <1>13, Numbers DEF ReleaseLease, Lapse
    <2> QED BY <1>5, <2>1
  <1>14. CASE Crash
    BY <1>5, <1>14 DEF Crash
  <1>15. ASSUME NEW a \in Attempts, NEW s \in Stages,
               Run(a, s) \/ Watch(a, s) \/ Recover(a, s)
        PROVE  ProcInv' /\ Calmer
    BY <1>4, <1>15 DEF Run, Watch, Recover, Ends
  <1> QED BY <1>6, <1>7, <1>8, <1>9, <1>10, <1>11, <1>12, <1>13, <1>14, <1>15,
             ProcessesRest
-----------------------------------------------------------------------------
\* What the tables let move, and where to.
LEMMA Tables ==
  /\ DOMAIN WorkTransitions =
       {"PENDING", "READY", "CLAIMED", "RUNNING", "VERIFYING", "RECONCILING",
        "WAITING", "COMPLETED", "CANCELLED"}
  /\ DOMAIN LeaseTransitions = {"ACTIVE", "RELEASED", "EXPIRED", "REVOKED"}
  /\ Going = {"CREATED", "PREPARING", "STARTING", "RUNNING", "COLLECTING",
              "VALIDATING", "REVIEWING", "PROMOTING"}
  /\ DOMAIN AttemptTransitions =
       Going \cup {"SUCCEEDED", "FAILED", "TIMED_OUT", "INTERRUPTED",
                   "INVALID_OUTPUT", "QUARANTINED"}
  /\ \A x \in Going : /\ CanMove(AttemptTransitions, x, "FAILED")
                      /\ CanMove(AttemptTransitions, x, "INTERRUPTED")
  <1>1. DOMAIN AttemptTransitions =
          {"CREATED", "PREPARING", "STARTING", "RUNNING", "COLLECTING",
           "VALIDATING", "REVIEWING", "PROMOTING", "SUCCEEDED", "FAILED",
           "TIMED_OUT", "INTERRUPTED", "INVALID_OUTPUT", "QUARANTINED"}
    BY DEF AttemptTransitions
  <1>2. Going = {"CREATED", "PREPARING", "STARTING", "RUNNING", "COLLECTING",
                 "VALIDATING", "REVIEWING", "PROMOTING"}
    BY <1>1 DEF Going, AttemptFailures
  <1>3. ASSUME NEW x \in Going
        PROVE  /\ CanMove(AttemptTransitions, x, "FAILED")
               /\ CanMove(AttemptTransitions, x, "INTERRUPTED")
    BY <1>2 DEF CanMove, AttemptTransitions, AttemptFailures
  <1> QED BY <1>1, <1>2, <1>3 DEF WorkTransitions, LeaseTransitions

\* The actions that leave the attempts and their leases alone.
LEMMA RowsRest ==
  ASSUME Next
  PROVE  \/ UNCHANGED <<att, lease>>
         \/ Claim \/ Submit \/ Collect \/ FailAttempt \/ ReleaseLease
         \/ EnterBootstrap \/ EnterAgent \/ EnterService \/ EnterValidator
         \/ EnterReviewer
         \/ CancelWork \/ Lapse \/ Reconcile
  <1>1. CASE \/ Admit \/ ClaimRefused \/ EnterRefused \/ SubmitRefused
    BY <1>1 DEF Admit, ClaimRefused, EnterRefused, SubmitRefused, rows
  <1>2. CASE \/ Begin \/ BeginRefused \/ Register \/ StartFails \/ Release
             \/ Unconfirmed \/ StopRole \/ RoleFails
    BY <1>2 DEF Begin, BeginRefused, Register, StartFails, Release,
       Unconfirmed, StopRole, RoleFails, Fixed, rows
  <1>3. CASE \/ BootstrapEnds \/ AgentEnds \/ ProbeEnds \/ ValidatorEnds
             \/ ReviewerEnds \/ StopService \/ ServiceStopped
    BY <1>3 DEF BootstrapEnds, AgentEnds, ProbeEnds, ValidatorEnds,
       ReviewerEnds, StopService, ServiceStopped, Fixed, rows
  <1>4. CASE \/ FailWork \/ Observe \/ WaitForNothing \/ RetryAutomatically
             \/ AskOperator
    BY <1>4 DEF FailWork, Observe, WaitForNothing, RetryAutomatically,
       AskOperator, Fixed, rows
  <1>5. CASE Operator
    BY <1>5 DEF Operator, Pause, Resume, CancelGoal, RetryWork, DecideGate,
       Edit, rows
  <1>6. CASE CancelReaches \/ HeartbeatFails \/ Write \/ Crash
    BY <1>6 DEF CancelReaches, HeartbeatFails, Write, Crash, Fixed, rows
  <1>7. CASE \E a \in Attempts, s \in Stages : Run(a, s) \/ Watch(a, s) \/ Recover(a, s)
    BY <1>7 DEF Run, Watch, Recover, Fixed, rows
  <1> QED BY <1>1, <1>2, <1>3, <1>4, <1>5, <1>6, <1>7 DEF Next, Engine, Environment

\* An attempt that may go on holds its lease after every step, and a failure
\* is on record before the engine gives up the work and the lease.
LEMMA AdvancesStep ==
  ASSUME IndInv, Next
  PROVE  /\ Advances'
         /\ att' \in [Attempts -> DOMAIN AttemptTransitions \cup {"none"}]
         /\ lease' \in [Attempts -> DOMAIN LeaseTransitions \cup {"none", "LAPSED"}]
  <1> DEFINE A == DOMAIN AttemptTransitions \cup {"none"}
  <1> DEFINE R == DOMAIN LeaseTransitions \cup {"none", "LAPSED"}
  <1>1. /\ att \in [Attempts -> A] /\ lease \in [Attempts -> R]
        /\ job \in Jobs /\ Shape /\ Advances
    BY DEF IndInv, TypeOK, Jobs
  <1>2. /\ {"CREATED", "PREPARING", "RUNNING", "COLLECTING", "VALIDATING",
            "REVIEWING", "SUCCEEDED", "FAILED", "INTERRUPTED", "none"} \subseteq A
        /\ {"ACTIVE", "RELEASED", "EXPIRED", "REVOKED", "LAPSED"} \subseteq R
        /\ \A x \in {"SUCCEEDED", "FAILED", "INTERRUPTED", "none"} : x \notin Going
        /\ \A x \in Going : /\ CanMove(AttemptTransitions, x, "FAILED")
                            /\ CanMove(AttemptTransitions, x, "INTERRUPTED")
    BY Tables
  <1>3. Settling
    BY JobStep DEF JobGoal
  <1> HIDE DEF A, R
  <1>4. SUFFICES /\ att' \in [Attempts -> A] /\ lease' \in [Attempts -> R]
                 /\ \A a \in Attempts :
                      att'[a] \in Going => lease'[a] \in {"ACTIVE", "LAPSED"}
                 /\ job'.pc \in {"settleWork", "settleLease"} => att'[job'.at] \notin Going
    BY DEF A, R, Advances, Held, a0
  <1>5. ASSUME \A a \in Attempts : att'[a] \in {att[a], "INTERRUPTED"},
               ~FailAttempt
        PROVE  job'.pc \in {"settleWork", "settleLease"} => att'[job'.at] \notin Going
    <2>1. CASE job'.pc = job.pc /\ job'.at = job.at
      BY <1>1, <1>2, <1>5, <2>1, Stages7 DEF Advances, a0, Shape
    <2>2. CASE FailWork
      <3>1. /\ job'.at = job.at /\ job.pc = "settleWork"
        BY <1>1, <2>2, GotoEffect DEF FailWork, At, Steps
      <3> QED BY <1>1, <1>2, <1>5, <3>1 DEF Advances, a0, Shape
    <2> QED BY <1>3, <1>5, <2>1, <2>2 DEF Settling
  <1>6. CASE UNCHANGED <<att, lease>> /\ ~FailAttempt
    BY <1>1, <1>5, <1>6 DEF Advances, Held
  <1>7. CASE Claim
    <2>1. PICK a \in Attempts : /\ att' = [att EXCEPT ![a] = "CREATED"]
                                /\ lease' = [lease EXCEPT ![a] = "ACTIVE"]
      BY <1>7 DEF Claim, Fresh
    <2>2. job'.pc \notin {"settleWork", "settleLease"}
      BY <1>3, <1>7 DEF Claim, At, Settling, FailAttempt, FailWork
    <2> QED BY <1>1, <1>2, <2>1, <2>2 DEF Advances, Held
  <1>8. CASE \/ EnterBootstrap \/ EnterAgent \/ EnterService \/ EnterValidator
             \/ EnterReviewer
    <2>1. PICK x \in {"PREPARING", "RUNNING", "VALIDATING", "REVIEWING"} :
              att' = [att EXCEPT ![a0] = x] /\ lease' = lease /\ lease[a0] = "ACTIVE"
              /\ job.pc = "enter"
      BY <1>8 DEF EnterBootstrap, EnterAgent, EnterService, EnterValidator,
         EnterReviewer, Enters, Live, At, AtStage
    <2>2. job'.pc \notin {"settleWork", "settleLease"}
      BY <1>3, <2>1 DEF At, Settling, FailAttempt, FailWork
    <2>3. a0 \in Attempts
      BY <1>1, <2>1 DEF Shape
    <2> QED BY <1>1, <1>2, <2>1, <2>2, <2>3 DEF Advances, Held
  <1>9. CASE Submit
    <2>1. /\ att' = [att EXCEPT ![a0] = "SUCCEEDED"]
          /\ lease' = [lease EXCEPT ![a0] = "RELEASED"] /\ job.pc = "enter"
      BY <1>9 DEF Submit, Complete, At, AtStage
    <2>2. job'.pc \notin {"settleWork", "settleLease"}
      BY <1>3, <2>1 DEF At, Settling, FailAttempt, FailWork
    <2>3. a0 \in Attempts
      BY <1>1, <2>1 DEF Shape
    <2> QED BY <1>1, <1>2, <2>1, <2>2, <2>3 DEF Advances, Held
  <1>10. CASE Collect
    <2>1. /\ att' = att \/ (att' = [att EXCEPT ![a0] = "COLLECTING"] /\ lease[a0] = "ACTIVE")
          /\ lease' = lease /\ job.pc = "collect"
      BY <1>10 DEF Collect, At, Live
    <2>2. job'.pc \notin {"settleWork", "settleLease"}
      BY <1>3, <2>1 DEF At, Settling, FailAttempt, FailWork
    <2>3. a0 \in Attempts
      BY <1>1, <2>1 DEF Shape
    <2> QED BY <1>1, <1>2, <2>1, <2>2, <2>3 DEF Advances, Held
  <1>11. CASE FailAttempt
    <2>1. a0 \in Attempts /\ job'.at = job.at
      <3>1. a0 \in Attempts
        BY <1>1, <1>11 DEF FailAttempt, At, Shape
      <3>2. Goto("wait") \/ Goto("settleWork")
        BY <1>11 DEF FailAttempt
      <3> QED BY <1>1, <3>1, <3>2, GotoEffect DEF Steps
    <2>2. CASE Goto("wait") /\ UNCHANGED <<att, lease>>
      <3>1. job'.pc = "wait"
        BY <1>1, <2>2, GotoEffect DEF Steps
      <3> QED BY <1>1, <2>2, <3>1 DEF Advances, Held
    <2>3. CASE ~CanMove(AttemptTransitions, att[a0], "FAILED") /\ UNCHANGED <<att, lease>>
      BY <1>1, <1>2, <2>1, <2>3 DEF Advances, Held, a0
    <2>4. CASE /\ lease' = [lease EXCEPT ![a0] = "EXPIRED"]
               /\ att' = [att EXCEPT ![a0] = IF CanMove(AttemptTransitions, att[a0], "INTERRUPTED")
                                               THEN "INTERRUPTED" ELSE att[a0]]
      BY <1>1, <1>2, <2>1, <2>4 DEF Advances, Held, a0
    <2>5. CASE att' = [att EXCEPT ![a0] = "FAILED"] /\ lease' = lease
      BY <1>1, <1>2, <2>1, <2>5 DEF Advances, Held, a0
    <2> QED BY <1>11, <2>2, <2>3, <2>4, <2>5 DEF FailAttempt, Expire
  <1>12. CASE ReleaseLease
    <2>1. a0 \in Attempts /\ job.pc = "settleLease" /\ ~FailAttempt
      BY <1>1, <1>12 DEF ReleaseLease, FailAttempt, At, Shape
    <2>2. CASE /\ lease' = [lease EXCEPT ![a0] = "EXPIRED"]
               /\ att' = [att EXCEPT ![a0] = IF CanMove(AttemptTransitions, att[a0], "INTERRUPTED")
                                               THEN "INTERRUPTED" ELSE att[a0]]
      <3>1. \A a \in Attempts : att'[a] \in {att[a], "INTERRUPTED"}
        BY <1>1, <2>1, <2>2
      <3>2. job'.pc \in {"settleWork", "settleLease"} => att'[job'.at] \notin Going
        BY <1>5, <2>1, <3>1
      <3> QED BY <1>1, <1>2, <2>1, <2>2, <3>2 DEF Advances, Held, a0
    <2>3. CASE /\ att' = att
               /\ \/ lease' = lease
                  \/ lease' = [lease EXCEPT ![a0] =
                                  IF lease[a0] = "ACTIVE" THEN "RELEASED" ELSE lease[a0]]
      <3>1. job'.pc \in {"settleWork", "settleLease"} => att'[job'.at] \notin Going
        BY <1>5, <2>1, <2>3
      <3> QED BY <1>1, <1>2, <2>1, <2>3, <3>1 DEF Advances, Held, a0
    <2> QED BY <1>12, <2>2, <2>3 DEF ReleaseLease, Expire
  <1>13. CASE CancelWork \/ Reconcile
    <2>1. ASSUME NEW a \in Attempts
          PROVE  /\ att'[a] \in {att[a], "INTERRUPTED"} /\ att'[a] \in A
                 /\ lease'[a] \in {lease[a], "REVOKED"} /\ lease'[a] \in R
                 /\ lease'[a] # lease[a] => att'[a] \notin Going
      <3>1. CASE CancelWork
        BY <1>1, <1>2, <3>1 DEF CancelWork
      <3>2. CASE Reconcile
        BY <1>1, <1>2, <3>2 DEF Reconcile
      <3> QED BY <1>13, <3>1, <3>2
    <2>2. att' \in [Attempts -> A] /\ lease' \in [Attempts -> R]
      <3>1. /\ att' = [a \in Attempts |-> att'[a]]
            /\ lease' = [a \in Attempts |-> lease'[a]]
        BY <1>13 DEF CancelWork, Reconcile
      <3> QED BY <2>1, <3>1
    <2>3. ~FailAttempt
      <3>1. CASE CancelWork
        <4>1. job' = job
          BY <3>1 DEF CancelWork, Rest
        <4>2. ASSUME FailAttempt PROVE FALSE
          <5>1. job.pc = "settle" /\ (Goto("wait") \/ Goto("settleWork"))
            BY <4>2 DEF FailAttempt, At
          <5>2. job'.pc \in {"wait", "settleWork"}
            BY <1>1, <5>1, GotoEffect DEF Steps
          <5> QED BY <4>1, <5>1, <5>2
        <4> QED BY <4>2
      <3>2. CASE Reconcile
        BY <3>2 DEF Reconcile, FailAttempt, At
      <3> QED BY <1>13, <3>1, <3>2
    <2>4. \A a \in Attempts : att'[a] \in {att[a], "INTERRUPTED"}
      BY <2>1
    <2> QED BY <1>1, <1>2, <1>5, <2>1, <2>2, <2>3, <2>4 DEF Advances, Held
  <1>14. CASE Lapse
    <2>1. /\ att' = att /\ lease' = [lease EXCEPT ![a0] = "LAPSED"]
          /\ lease[a0] = "ACTIVE" /\ job' = job
      BY <1>14 DEF Lapse
    <2>2. a0 \in Attempts
      BY <1>1, <1>14 DEF Lapse, a0, Jobs
    <2> QED BY <1>1, <1>2, <2>1, <2>2 DEF Advances, Held, a0
  <1> QED BY <1>6, <1>7, <1>8, <1>9, <1>10, <1>11, <1>12, <1>13, <1>14, RowsRest
-----------------------------------------------------------------------------
\* What the actions do to the record of the checkout.
LEMMA CheckoutStep ==
  ASSUME IndInv, Next
  PROVE  /\ checkout' \in [accepted : Trees, observed : Trees,
                           owned : BOOLEAN, retry : BOOLEAN]
         /\ \/ checkout'.retry => checkout.retry /\ ~Claim
            \/ RetryAutomatically \/ RetryWork
  <1> DEFINE C == [accepted : Trees, observed : Trees, owned : BOOLEAN, retry : BOOLEAN]
  <1>1. checkout \in C /\ disk \in Trees /\ TRUE \in BOOLEAN /\ FALSE \in BOOLEAN
    BY DEF IndInv, TypeOK
  <1>2. CASE Claim
    <2>1. checkout' = [checkout EXCEPT !.owned = TRUE, !.retry = FALSE]
      BY <1>2 DEF Claim
    <2>2. checkout' \in C
      BY <1>1, <2>1, Zenon
    <2>3. checkout'.retry = FALSE
      BY <1>1, <2>1
    <2> QED BY <2>2, <2>3
  <1>3. CASE Submit
    <2>1. checkout' = [accepted |-> disk, observed |-> disk,
                       owned |-> FALSE, retry |-> FALSE]
      BY <1>3 DEF Submit
    <2>2. checkout' \in C
      BY <1>1, <2>1, Zenon
    <2>3. checkout'.retry = FALSE
      BY <2>1
    <2> QED BY <2>2, <2>3
  <1>4. CASE Observe
    <2>1. \/ checkout' = checkout
          \/ checkout' = [checkout EXCEPT !.observed = disk, !.retry = FALSE]
      BY <1>4 DEF Observe
    <2>2. checkout' \in C
      BY <1>1, <2>1, Zenon
    <2>3. checkout' = checkout \/ checkout'.retry = FALSE
      BY <1>1, <2>1
    <2>4. ~Claim
      BY <1>4 DEF Claim, Observe, At
    <2> QED BY <2>2, <2>3, <2>4
  <1>5. CASE RetryAutomatically
    <2>1. checkout' = [checkout EXCEPT !.retry = TRUE]
      BY <1>5 DEF RetryAutomatically
    <2>2. checkout' \in C
      BY <1>1, <2>1, Zenon
    <2> QED BY <1>5, <2>2
  <1>6. CASE RetryWork
    <2>1. checkout' = [checkout EXCEPT !.owned = TRUE, !.retry = TRUE]
      BY <1>6 DEF RetryWork
    <2>2. checkout' \in C
      BY <1>1, <2>1, Zenon
    <2> QED BY <1>6, <2>2
  <1>7. CASE UNCHANGED checkout /\ ~Claim
    BY <1>1, <1>7
  <1>8. \/ Claim \/ Submit \/ Observe \/ RetryAutomatically \/ RetryWork
        \/ UNCHANGED checkout
    <2>1. CASE \/ Admit \/ ClaimRefused \/ EnterRefused \/ SubmitRefused \/ Collect
      BY <2>1 DEF Admit, ClaimRefused, EnterRefused, SubmitRefused, Collect, rows
    <2>2. CASE \/ EnterBootstrap \/ EnterAgent \/ EnterService \/ EnterValidator
               \/ EnterReviewer
      BY <2>2 DEF EnterBootstrap, EnterAgent, EnterService, EnterValidator,
         EnterReviewer, Enters
    <2>3. CASE \/ Begin \/ BeginRefused \/ Register \/ StartFails \/ Release
               \/ Unconfirmed \/ StopRole \/ RoleFails
      BY <2>3 DEF Begin, BeginRefused, Register, StartFails, Release,
         Unconfirmed, StopRole, RoleFails, Fixed, rows
    <2>4. CASE \/ BootstrapEnds \/ AgentEnds \/ ProbeEnds \/ ValidatorEnds
               \/ ReviewerEnds \/ StopService \/ ServiceStopped
      BY <2>4 DEF BootstrapEnds, AgentEnds, ProbeEnds, ValidatorEnds,
         ReviewerEnds, StopService, ServiceStopped, Fixed, rows
    <2>5. CASE \/ FailAttempt \/ FailWork \/ ReleaseLease \/ WaitForNothing
               \/ AskOperator
      BY <2>5 DEF FailAttempt, FailWork, ReleaseLease, WaitForNothing,
         AskOperator, Fixed, rows
    <2>6. CASE \/ Pause \/ Resume \/ CancelGoal \/ CancelWork \/ DecideGate \/ Edit
      BY <2>6 DEF Pause, Resume, CancelGoal, CancelWork, DecideGate, Edit, rows
    <2>7. CASE \/ CancelReaches \/ HeartbeatFails \/ Lapse \/ Write \/ Crash
               \/ Reconcile
      BY <2>7 DEF CancelReaches, HeartbeatFails, Lapse, Write, Crash, Reconcile,
         Fixed, rows
    <2>8. CASE \E a \in Attempts, s \in Stages : Run(a, s) \/ Watch(a, s) \/ Recover(a, s)
      BY <2>8 DEF Run, Watch, Recover, Fixed, rows
    <2> QED BY <2>1, <2>2, <2>3, <2>4, <2>5, <2>6, <2>7, <2>8
            DEF Next, Engine, Operator, Environment
  <1> QED BY <1>2, <1>3, <1>4, <1>5, <1>6, <1>7, <1>8

\* Every step leaves the remaining variables within their types.
LEMMA PlainStep ==
  ASSUME IndInv, Next
  PROVE  /\ goal' \in {"RUNNING", "WAITING", "CANCELLED"}
         /\ work' \in DOMAIN WorkTransitions
         /\ gates' \subseteq {"retry", "recovery", "other"} /\ noted' \subseteq Attempts
         /\ disk' \in Trees /\ reach' \in BOOLEAN
         /\ phase' \in {"serving", "recovering"}
         /\ crashes' \in 0 .. MaxCrashes /\ steers' \in 0 .. MaxSteers
  <1>1. /\ goal \in {"RUNNING", "WAITING", "CANCELLED"} /\ work \in DOMAIN WorkTransitions
        /\ gates \subseteq {"retry", "recovery", "other"} /\ noted \subseteq Attempts
        /\ disk \in Trees /\ reach \in BOOLEAN /\ phase \in {"serving", "recovering"}
        /\ crashes \in 0 .. MaxCrashes /\ steers \in 0 .. MaxSteers
    BY DEF IndInv, TypeOK
  <1>2. {"READY", "CLAIMED", "RUNNING", "VERIFYING", "RECONCILING", "WAITING",
         "COMPLETED", "CANCELLED"} \subseteq DOMAIN WorkTransitions
    BY Tables
  <1>3. /\ Claims \subseteq Attempts
        /\ crashes < MaxCrashes => crashes + 1 \in 0 .. MaxCrashes
        /\ steers < MaxSteers => steers + 1 \in 0 .. MaxSteers
    BY <1>1, Numbers DEF Claims
  <1>4. CASE \/ Admit \/ Claim \/ ClaimRefused \/ EnterRefused
             \/ Submit \/ SubmitRefused \/ Collect
    BY <1>1, <1>2, <1>4 DEF Admit, Claim, ClaimRefused, StopInvariant,
       EnterRefused, Submit, Complete, SubmitRefused, Collect, progress, bounds
  <1>5. CASE \/ EnterBootstrap \/ EnterAgent \/ EnterService \/ EnterValidator
             \/ EnterReviewer
    BY <1>1, <1>2, <1>5 DEF EnterBootstrap, EnterAgent, EnterService,
       EnterValidator, EnterReviewer, Enters, bounds
  <1>6. CASE \/ Begin \/ BeginRefused \/ Register \/ StartFails \/ Release
             \/ Unconfirmed \/ StopRole \/ RoleFails
    BY <1>1, <1>6 DEF Begin, BeginRefused, Register, StartFails, Release,
       Unconfirmed, StopRole, RoleFails, Fixed, progress, bounds
  <1>7. CASE \/ BootstrapEnds \/ AgentEnds \/ ProbeEnds \/ ValidatorEnds
             \/ ReviewerEnds \/ StopService \/ ServiceStopped
    BY <1>1, <1>7 DEF BootstrapEnds, AgentEnds, ProbeEnds, ValidatorEnds,
       ReviewerEnds, StopService, ServiceStopped, Fixed, progress, bounds
  <1>8. CASE \/ FailAttempt \/ FailWork \/ ReleaseLease \/ Observe
    BY <1>1, <1>2, <1>8 DEF FailAttempt, FailWork, ReleaseLease, Expire,
       StopInvariant, Observe, progress, bounds
  <1>9. CASE \/ WaitForNothing \/ RetryAutomatically \/ AskOperator
    BY <1>1, <1>2, <1>9 DEF WaitForNothing, RetryAutomatically, AskOperator,
       Fixed, progress, bounds
  <1>10. CASE Operator
    BY <1>1, <1>2, <1>3, <1>10 DEF Operator, Pause, Resume, CancelGoal,
       CancelWork, RetryWork, DecideGate, Edit, Steer, Rest, progress
  <1>11. CASE \/ CancelReaches \/ HeartbeatFails \/ Lapse \/ Write \/ Crash
    BY <1>1, <1>3, <1>11 DEF CancelReaches, HeartbeatFails, Lapse, Write, Crash,
       Fixed, progress, bounds
  <1>12. CASE Reconcile
    <2>1. /\ goal' \in {goal, "WAITING"} /\ work' \in {work, "RECONCILING"}
          /\ phase' = "serving" /\ UNCHANGED <<disk, reach, bounds>>
      BY <1>12 DEF Reconcile
    <2>2. noted' \subseteq Attempts
      BY <1>1, <1>3, <1>12 DEF Reconcile
    <2>3. gates' \subseteq {"retry", "recovery", "other"}
      BY <1>1, <1>12 DEF Reconcile
    <2> QED BY <1>1, <1>2, <2>1, <2>2, <2>3 DEF bounds
  <1>13. CASE \E a \in Attempts, s \in Stages : Run(a, s) \/ Watch(a, s) \/ Recover(a, s)
    BY <1>1, <1>13 DEF Run, Watch, Recover, Fixed, progress, bounds
  <1> QED BY <1>4, <1>5, <1>6, <1>7, <1>8, <1>9, <1>10, <1>11, <1>12, <1>13
          DEF Next, Engine, Environment
-----------------------------------------------------------------------------
\* While a claim is possible no row is unfinished.
LEMMA IdleSettled ==
  ASSUME ExecutionIdle
  PROVE  NoLease /\ \A a \in Attempts : Settled(a)
  BY Numbers DEF ExecutionIdle, RowsAllow, Nobody

\* No action but the claim gives a lease, so a retry that is not claimed yet
\* leaves the project at rest.
LEMMA AtRestStep ==
  ASSUME IndInv, Next
  PROVE  AtRest'
  <1>1. /\ job \in Jobs /\ ProcInv /\ Advances /\ AtRest
        /\ lease \in [Attempts -> DOMAIN LeaseTransitions \cup {"none", "LAPSED"}]
    BY DEF IndInv, TypeOK, Jobs
  <1>2. CASE RetryAutomatically \/ RetryWork
    <2>1. ExecutionIdle /\ UNCHANGED <<lease, proc>>
      BY <1>2 DEF RetryAutomatically, RetryWork, Rest, procVars
    <2> QED BY <2>1, IdleSettled DEF AtRest, NoLease, Held, Settled
  <1>3. CASE checkout'.retry => checkout.retry /\ ~Claim
    <2>1. SUFFICES ASSUME checkout.retry, ~Claim
                   PROVE  NoLease' /\ \A a \in Attempts : Settled(a)'
      BY <1>3 DEF AtRest
    <2>2. NoLease /\ \A a \in Attempts : Settled(a)
      BY <1>1, <2>1 DEF AtRest
    <2>3. ~Live \/ a0 \notin Attempts
      BY <2>2 DEF NoLease, Held, Live
    <2>4. NoLease'
      <3>1. CASE UNCHANGED <<att, lease>>
        BY <2>2, <3>1 DEF NoLease, Held
      <3>2. CASE \/ EnterBootstrap \/ EnterAgent \/ EnterService \/ EnterValidator
                 \/ EnterReviewer \/ Collect
        <4>1. lease' = lease
          BY <3>2 DEF EnterBootstrap, EnterAgent, EnterService, EnterValidator,
             EnterReviewer, Enters, Collect
        <4> QED BY <2>2, <4>1 DEF NoLease, Held
      <3>3. CASE Submit \/ FailAttempt
        <4>1. \/ lease' = lease
              \/ \E x \in {"RELEASED", "EXPIRED"} : lease' = [lease EXCEPT ![a0] = x]
          BY <3>3 DEF Submit, Complete, FailAttempt, Expire
        <4> QED BY <1>1, <2>2, <4>1 DEF NoLease, Held
      <3>4. CASE ReleaseLease
        <4>1. \/ lease' = lease
              \/ \E x \in {"RELEASED", "EXPIRED", lease[a0]} : lease' = [lease EXCEPT ![a0] = x]
          BY <3>4 DEF ReleaseLease, Expire
        <4> QED BY <1>1, <2>2, <4>1 DEF NoLease, Held
      <3>5. CASE CancelWork \/ Reconcile
        BY <1>1, <2>2, <3>5 DEF CancelWork, Reconcile, NoLease, Held
      <3>6. CASE Lapse
        BY <1>1, <2>2, <3>6 DEF Lapse, NoLease, Held, a0, Jobs
      <3> QED BY <2>1, <3>1, <3>2, <3>3, <3>4, <3>5, <3>6, RowsRest
    <2>5. ~Begin
      <3>1. ASSUME Begin PROVE FALSE
        <4>1. a0 \in Attempts /\ att[a0] \in Going
          BY <3>1 DEF Begin, MayStart, OwnerStands, Going, At, IndInv, Shape
        <4> QED BY <1>1, <2>2, <4>1 DEF Advances, NoLease
      <3> QED BY <3>1
    <2>6. \A a \in Attempts : Settled(a)'
      <3>1. CASE Calmer
        BY <2>2, <3>1 DEF Calmer, Settled
      <3>2. CASE Release
        <4>1. ReleaseWrapper(a0, job.stage) /\ a0 \in Attempts /\ job.stage \in Stages
          BY <3>2 DEF Release, At, IndInv, Shape
        <4> QED BY <1>1, <2>2, <4>1, ReleaseKeeps DEF Settled
      <3> QED BY <2>5, <3>1, <3>2, ProcStep
    <2> QED BY <2>4, <2>6
  <1> QED BY <1>2, <1>3, CheckoutStep

\* The rows of the other attempts stay over.
LEMMA AloneStep ==
  ASSUME IndInv, Next
  PROVE  Alone'
  <1>1. ProcInv /\ Alone /\ Shape
    BY DEF IndInv
  <1>2. CASE Claim
    <2>1. ExecutionIdle /\ proc' = proc
      BY <1>2 DEF Claim, Claimable, procVars
    <2> QED BY <2>1, IdleSettled DEF Alone, Settled
  <1>3. CASE job'.at \in {job.at, 0}
    <2>1. SUFFICES ASSUME job'.at = job.at, a0 # 0, NEW b \in Attempts \ {a0}
                   PROVE  Settled(b)'
      BY <1>3 DEF Alone, a0
    <2>2. Settled(b)
      BY <1>1, <2>1 DEF Alone
    <2>3. CASE Calmer
      BY <2>2, <2>3 DEF Calmer, Settled
    <2>4. CASE Begin
      <3>1. BeginProcess(a0, job.stage) /\ a0 \in Attempts /\ job.stage \in Stages
        BY <1>1, <2>4 DEF Begin, At, Shape
      <3> QED BY <1>1, <2>2, <3>1, BeginKeeps DEF Settled
    <2>5. CASE Release
      <3>1. ReleaseWrapper(a0, job.stage) /\ a0 \in Attempts /\ job.stage \in Stages
        BY <1>1, <2>5 DEF Release, At, Shape
      <3> QED BY <1>1, <2>2, <3>1, ReleaseKeeps DEF Settled
    <2> QED BY <2>3, <2>4, <2>5, ProcStep
  <1> QED BY <1>2, <1>3, JobStep DEF JobGoal

\* A failure names its cause.
LEMMA FailsEffect ==
  ASSUME job \in Jobs, NEW c \in Causes, Fails(c)
  PROVE  job'.cause = c
  BY DEF Fails, Jobs

\* A settlement names its cause.
LEMMA SettleEffect ==
  ASSUME NEW c \in Causes, Settle(c)
  PROVE  job'.cause = c
  BY DEF Settle, NoJob
\* The stages behind the engine are over when it goes on.
LEMMA BehindStep ==
  ASSUME IndInv, Next
  PROVE  Behind'
  <1>1. /\ job \in Jobs /\ disk \in Trees /\ ProcInv /\ Shape /\ Behind
        /\ "none" \in Causes /\ "failed" \in Causes /\ "drift" \in Causes
        /\ "unconfirmed" \in Causes
    BY DEF IndInv, TypeOK, Jobs, Causes
  <1>2. Onward /\ (job'.at \in {job.at, 0} \/ Claim)
    BY JobStep DEF JobGoal
  <1>3. CASE Claim
    <2>1. ExecutionIdle /\ proc' = proc
      BY <1>3 DEF Claim, Claimable, procVars
    <2>2. \A a \in Attempts, s \in Stages : ~Executing(a, s)'
      BY <1>1, <2>1, IdleSettled, OwnersAlone DEF Quiet, Executing
    <2>3. job'.at \in Attempts
      <3>1. PICK a \in Attempts : RecordWorkspace(a)
        BY <1>3 DEF Claim, Fresh
      <3> QED BY <1>1, <3>1 DEF RecordWorkspace, Jobs
    <2> QED BY <2>2, <2>3 DEF Behind, a0
  <1>4. CASE ~Claim
    <2>1. SUFFICES ASSUME job'.cause = "none", job'.at # 0, job'.at = job.at,
                          NEW s \in Stages,
                          proc'[a0][s].os \in {"running", "stuck"}
                   PROVE  \/ s = Probe
                          \/ s = job'.stage /\ job'.pc \in {"await", "stopped"}
                          \/ s = Service /\ job'.stage \in {Probe, Validator}
      BY <1>2, <1>4 DEF Behind, Executing, a0
    <2>2. /\ a0 \in Attempts
          /\ job.stage \in Bootstrap .. Submission
          /\ proc[a0][s].seen = "done" => ~Executing(a0, s)
          /\ proc[a0][s].row = "none" => ~Executing(a0, s)
      <3>1. a0 \in Attempts
        BY <1>1, <2>1 DEF Jobs, a0
      <3> QED BY <1>1, <3>1, OwnersAlone DEF Jobs, AliveIsJournaled
    <2>3. ASSUME job.cause = "none", Executing(a0, s)
          PROVE  \/ s = Probe
                 \/ s = job.stage /\ job.pc \in {"await", "stopped"}
                 \/ s = Service /\ job.stage \in {Probe, Validator}
      BY <1>1, <2>1, <2>2, <2>3 DEF Behind, a0
    <2>4. \A pc \in Steps : Goto(pc) => job'.pc = pc /\ job'.stage = job.stage
      BY <1>1, GotoEffect
    <2>5. \A pc \in Steps, t \in Bootstrap .. Submission :
            GotoStage(pc, t) => job'.pc = pc /\ job'.stage = t
      BY <1>1, GotoStageEffect
    <2>6. \A k \in Kinds, pc \in Steps, t \in Bootstrap .. Submission :
            Filing(k, pc, t) => job'.pc = pc /\ job'.stage = t
      BY <1>1, FilingEffect
    <2>7. \A c \in Causes : c # "none" => ~Fails(c) /\ ~Settle(c)
      BY <1>1, <2>1, FailsEffect, SettleEffect
    <2>8. Calmer => Executing(a0, s)
      BY <2>1, <2>2 DEF Calmer
    <2>9. CASE /\ job.cause = "none" /\ job'.pc = job.pc /\ job'.stage = job.stage
               /\ Calmer
      BY <2>3, <2>8, <2>9
    <2>10. CASE Begin
      <3>1. BeginProcess(a0, job.stage) /\ job.stage \in Stages /\ job.pc = "begin"
        BY <1>1, <2>10 DEF Begin, At, Shape
      <3>2. Executing(a0, s)
        BY <1>1, <2>1, <2>2, <3>1, BeginKeeps DEF Executing
      <3>3. job'.stage = job.stage /\ job.cause = "none"
        BY <1>1, <2>4, <2>10, <3>1 DEF Begin, Steps, Shape
      <3> QED BY <2>3, <3>1, <3>2, <3>3
    <2>11. CASE Release
      <3>1. ReleaseWrapper(a0, job.stage) /\ job.stage \in Stages /\ job.pc = "release"
        BY <1>1, <2>11 DEF Release, At, Shape
      <3>2. Executing(a0, s) \/ s = job.stage
        BY <1>1, <2>1, <2>2, <3>1, ReleaseKeeps DEF Executing
      <3>3. job.cause = "none"
        BY <1>1, <3>1 DEF Shape
      <3>4. /\ job.stage = Service => job'.stage = Probe
            /\ job.stage # Service => job'.stage = job.stage /\ job'.pc = "await"
        BY <2>4, <2>5, <2>11, Stages7 DEF Release, Steps
      <3> QED BY <2>3, <3>1, <3>2, <3>3, <3>4, Stages7
    <2>12. CASE /\ \/ EnterBootstrap \/ EnterAgent \/ EnterService \/ EnterValidator
                   \/ EnterReviewer
                /\ Calmer
      <3>1. job.pc = "enter" /\ (job.stage = Service \/ ~EnterService)
        BY <2>12 DEF EnterBootstrap, EnterAgent, EnterService, EnterValidator,
           EnterReviewer, Enters, At, AtStage
      <3>2. job'.stage = job.stage
        BY <1>1, <2>4, <2>6, <2>7, <2>12, <3>1, Stages7
           DEF EnterBootstrap, EnterAgent, EnterService, EnterValidator,
           EnterReviewer, RecordEnvironment, Kinds, Steps
      <3>3. job.cause = "none"
        BY <1>1, <3>1 DEF Shape
      <3> QED BY <2>3, <2>8, <2>12, <3>1, <3>2, <3>3
    <2>13. CASE Collect /\ Calmer
      <3>1. job.pc = "collect" /\ job.stage = Agent /\ job.cause = "none"
        BY <1>1, <2>13 DEF Collect, At, Shape
      <3> QED BY <2>3, <2>8, <2>13, <3>1, Stages7
    <2>14. CASE Register /\ Calmer
      <3>1. job.pc = "register" /\ job.cause = "none" /\ job'.stage = job.stage
        BY <1>1, <2>4, <2>14 DEF Register, At, Shape, Steps
      <3> QED BY <2>3, <2>8, <2>14, <3>1
    <2>15. CASE Unconfirmed /\ Calmer
      <3>1. job.cause = "none" /\ job.stage = Probe /\ job'.stage = Validator
        BY <1>1, <2>5, <2>7, <2>15, Stages7 DEF Unconfirmed, At, Shape, Steps
      <3> QED BY <2>3, <2>8, <2>15, <3>1, Stages7
    <2>16. CASE StopRole /\ Calmer
      <3>1. /\ job.cause = "none" /\ job.pc = "await"
            /\ \/ job'.stage = job.stage /\ job'.pc = "stopped"
               \/ job.stage = Probe /\ job'.stage = Validator
        BY <1>1, <2>4, <2>5, <2>7, <2>16, Stages7 DEF StopRole, At, Shape, Steps
      <3> QED BY <2>3, <2>8, <2>16, <3>1, Stages7
    <2>17. CASE (BootstrapEnds \/ AgentEnds \/ ProbeEnds) /\ Calmer
      <3>1. /\ job.cause = "none" /\ proc[a0][job.stage].seen = "done"
            /\ \/ job.stage \in {Bootstrap, Agent}
               \/ job.stage = Probe /\ job'.stage = Validator
        BY <1>1, <2>5, <2>17, Stages7 DEF BootstrapEnds, AgentEnds, ProbeEnds,
           Seen, At, AtStage, Shape, Steps
      <3> QED BY <2>2, <2>3, <2>8, <2>17, <3>1, Stages7
    <2>18. CASE (ValidatorEnds \/ ReviewerEnds) /\ Calmer
      <3>1. /\ job.cause = "none" /\ proc[a0][job.stage].seen = "done"
            /\ \/ job.stage = Validator /\ job'.stage = Validator
               \/ job.stage = Reviewer
        BY <1>1, <2>6, <2>18, Stages7 DEF ValidatorEnds, ReviewerEnds, Passed,
           Answered, RecordValidatorRun, Kinds, Seen, At, AtStage, Shape, Steps
      <3> QED BY <2>2, <2>3, <2>8, <2>18, <3>1, Stages7
    <2>19. CASE ServiceStopped /\ Calmer
      <3>1. job.pc = "cleanup" /\ (job.cause # "none" => job.cause \in Causes)
        BY <1>1, <2>19 DEF ServiceStopped, At, Jobs
      <3>2. /\ job.cause = "none"
            /\ proc[a0][Service].row = "none" \/ proc[a0][Service].seen = "done"
        BY <1>1, <2>7, <2>19, <3>1 DEF ServiceStopped
      <3>3. job.stage = Validator
        BY <1>1, <3>1, <3>2 DEF Shape
      <3> QED BY <2>2, <2>3, <2>8, <2>19, <3>1, <3>2, <3>3, Stages7
    <2> QED BY <1>2, <1>4, <2>1, <2>9, <2>10, <2>11, <2>12, <2>13, <2>14, <2>15,
               <2>16, <2>17, <2>18, <2>19, ProcStep DEF Onward, Forward
  <1> QED BY <1>3, <1>4
-----------------------------------------------------------------------------
\* The rows at the start: no attempt, no lease, no process.
LEMMA Initially ==
  ASSUME Init
  PROVE  IndInv
  <1>1. /\ \A a \in Attempts, s \in Stages : proc[a][s] = NoProcess
        /\ ProcTypeOK
    BY Numbers DEF Init, ProcInit, ProcTypeOK, NoProcess, Process, Rows, Groups,
       Reports
  <1>2. \A a \in Attempts : Settled(a)
    BY <1>1 DEF Settled, Pending, NoProcess
  <1>3. ProcInv
    BY <1>1, <1>2 DEF ProcInv, OneOwner, Right, NoProcess
  <1>4. job \in Jobs
    <2>1. /\ "idle" \in Steps /\ Bootstrap \in Bootstrap .. Submission
          /\ "none" \in Causes /\ FALSE \in BOOLEAN /\ 0 \in Attempts \cup {0}
          /\ [k \in Kinds |-> NoTree] \in [Kinds -> Trees \cup {NoTree}]
      BY Stages7 DEF Steps, Causes
    <2> QED BY <2>1, Zenon DEF Init, NoJob, Jobs
  <1>5. /\ job.at = 0 /\ job.pc = "idle" /\ job.cause = "none"
        /\ job.stage = Bootstrap /\ \A k \in Kinds : job.filed[k] = NoTree
    BY DEF Init, NoJob
  <1>6. Shape /\ Filed /\ Alone /\ Behind
    BY <1>5, Stages7 DEF Shape, Filed, Alone, Behind, Kinds, a0
  <1>7. Advances /\ AtRest
    BY <1>2, <1>5, Tables DEF Init, Advances, AtRest, NoLease, Held
  <1>8. checkout \in [accepted : Trees, observed : Trees, owned : BOOLEAN, retry : BOOLEAN]
    <2>1. FALSE \in BOOLEAN /\ Base \in Trees
      BY Numbers
    <2> QED BY <2>1, Zenon DEF Init
  <1>9. TypeOK
    <2>1. /\ goal = "RUNNING" /\ work = "READY" /\ gates = {} /\ noted = {}
          /\ disk = Base /\ reach = FALSE /\ phase = "serving"
          /\ crashes = 0 /\ steers = 0
      BY DEF Init
    <2>2. /\ "READY" \in DOMAIN WorkTransitions /\ Base \in Trees
          /\ 0 \in 0 .. MaxCrashes /\ 0 \in 0 .. MaxSteers
      BY Tables, Numbers
    <2>3. /\ att \in [Attempts -> DOMAIN AttemptTransitions \cup {"none"}]
          /\ lease \in [Attempts -> DOMAIN LeaseTransitions \cup {"none", "LAPSED"}]
      BY DEF Init
    <2> QED BY <1>1, <1>4, <1>8, <2>1, <2>2, <2>3 DEF TypeOK, Jobs
  <1> QED BY <1>3, <1>6, <1>7, <1>9 DEF IndInv

\* Every step keeps the invariant.
LEMMA Stepwise ==
  ASSUME IndInv, [Next]_vars
  PROVE  IndInv'
  <1>1. CASE Next
    <2>1. /\ job' \in Jobs /\ Shape' /\ Filed'
      BY <1>1, JobStep DEF JobGoal
    <2>2. ProcInv'
      BY <1>1, ProcStep
    <2>3. /\ Advances'
          /\ att' \in [Attempts -> DOMAIN AttemptTransitions \cup {"none"}]
          /\ lease' \in [Attempts -> DOMAIN LeaseTransitions \cup {"none", "LAPSED"}]
      BY <1>1, AdvancesStep
    <2>4. checkout' \in [accepted : Trees, observed : Trees,
                         owned : BOOLEAN, retry : BOOLEAN]
      BY <1>1, CheckoutStep
    <2>5. /\ goal' \in {"RUNNING", "WAITING", "CANCELLED"}
          /\ work' \in DOMAIN WorkTransitions
          /\ gates' \subseteq {"retry", "recovery", "other"} /\ noted' \subseteq Attempts
          /\ disk' \in Trees /\ reach' \in BOOLEAN
          /\ phase' \in {"serving", "recovering"}
          /\ crashes' \in 0 .. MaxCrashes /\ steers' \in 0 .. MaxSteers
      BY <1>1, PlainStep
    <2>6. TypeOK'
      BY <2>1, <2>2, <2>3, <2>4, <2>5 DEF TypeOK, Jobs, ProcInv
    <2>7. Alone' /\ Behind' /\ AtRest'
      BY <1>1, AloneStep, BehindStep, AtRestStep
    <2> QED BY <2>1, <2>2, <2>3, <2>6, <2>7 DEF IndInv
  <1>2. CASE UNCHANGED vars
    <2>1. /\ UNCHANGED <<goal, work, gates, noted, att, lease, checkout, disk, job>>
          /\ UNCHANGED <<reach, phase, crashes, steers, proc, faults>>
      BY <1>2 DEF vars, progress, rows, bounds, procVars
    <2>2. TypeOK' /\ ProcInv'
      BY <2>1 DEF IndInv, TypeOK, ProcInv, ProcTypeOK, OneOwner, Settled
    <2>3. Advances' /\ Shape' /\ Filed'
      BY <2>1 DEF IndInv, Advances, Held, a0, Shape, Filed
    <2>4. Alone' /\ Behind' /\ AtRest'
      BY <2>1 DEF IndInv, Alone, Behind, AtRest, NoLease, Held, a0, Settled, Executing
    <2> QED BY <2>2, <2>3, <2>4 DEF IndInv
  <1> QED BY <1>1, <1>2

\* The invariant holds at every step of the execution of a work, whatever fails.
THEOREM Inductive == Spec => []IndInv
  <1>1. Init => IndInv
    BY Initially
  <1>2. IndInv /\ [Next]_vars => IndInv'
    BY Stepwise
  <1> QED BY <1>1, <1>2, PTL DEF Spec

\* Every variable keeps its type.
THEOREM TypesHold == Spec => []TypeOK
  <1>1. IndInv => TypeOK
    BY DEF IndInv
  <1> QED BY <1>1, Inductive, PTL

\* No two attempts have processes that execute at the same time, whatever
\* became of the leases of the first (processSlotAvailable, runner.go).
THEOREM OneWriterHolds == Spec => []OneWriter
  <1>1. IndInv => OneWriter
    BY OwnersAlone DEF IndInv
  <1> QED BY <1>1, Inductive, PTL

\* A process that executes has a row that the slot check and the recovery of a
\* start will find (StartContext, ProcessManager).
THEOREM AliveIsJournaledHolds == Spec => []AliveIsJournaled
  <1>1. IndInv => AliveIsJournaled
    BY OwnersAlone DEF IndInv
  <1> QED BY <1>1, Inductive, PTL

\* A retry is authorized only over a project where no attempt holds a lease and
\* no process executes, until the retry is claimed (retryCheckoutWork).
THEOREM RetryAtRestHolds == Spec => []RetryAtRest
  <1>1. IndInv => RetryAtRest
    BY OwnersAlone DEF IndInv, AtRest, RetryAtRest
  <1> QED BY <1>1, Inductive, PTL

-----------------------------------------------------------------------------
\* Only a submission completes the work.
LEMMA OnlySubmit ==
  ASSUME Next, work # "COMPLETED", work' = "COMPLETED"
  PROVE  Submit
  <1>1. CASE \/ Admit \/ Claim \/ ClaimRefused \/ EnterRefused
             \/ SubmitRefused \/ Collect
    BY <1>1 DEF Admit, Claim, ClaimRefused, StopInvariant, EnterRefused,
       SubmitRefused, Collect, progress
  <1>2. CASE \/ EnterBootstrap \/ EnterAgent \/ EnterService \/ EnterValidator
             \/ EnterReviewer
    BY <1>2 DEF EnterBootstrap, EnterAgent, EnterService, EnterValidator,
       EnterReviewer, Enters
  <1>3. CASE \/ Begin \/ BeginRefused \/ Register \/ StartFails \/ Release
             \/ Unconfirmed \/ StopRole \/ RoleFails
    BY <1>3 DEF Begin, BeginRefused, Register, StartFails, Release,
       Unconfirmed, StopRole, RoleFails, Fixed, progress
  <1>4. CASE \/ BootstrapEnds \/ AgentEnds \/ ProbeEnds \/ ValidatorEnds
             \/ ReviewerEnds \/ StopService \/ ServiceStopped
    BY <1>4 DEF BootstrapEnds, AgentEnds, ProbeEnds, ValidatorEnds,
       ReviewerEnds, StopService, ServiceStopped, Fixed, progress
  <1>5. CASE \/ FailAttempt \/ FailWork \/ ReleaseLease \/ Observe
             \/ WaitForNothing \/ RetryAutomatically \/ AskOperator
    BY <1>5 DEF FailAttempt, FailWork, ReleaseLease, Expire, StopInvariant,
       Observe, WaitForNothing, RetryAutomatically, AskOperator, Fixed, progress
  <1>6. CASE Operator
    BY <1>6 DEF Operator, Pause, Resume, CancelGoal, CancelWork, RetryWork,
       DecideGate, Edit, progress
  <1>7. CASE \/ CancelReaches \/ HeartbeatFails \/ Lapse \/ Write \/ Crash
             \/ Reconcile
    BY <1>7 DEF CancelReaches, HeartbeatFails, Lapse, Write, Crash, Reconcile,
       Fixed, progress
  <1>8. CASE \E a \in Attempts, s \in Stages : Run(a, s) \/ Watch(a, s) \/ Recover(a, s)
    BY <1>8 DEF Run, Watch, Recover, Fixed, progress
  <1> QED BY <1>1, <1>2, <1>3, <1>4, <1>5, <1>6, <1>7, <1>8
          DEF Next, Engine, Environment

\* The tree a work completes with is what the directory holds, what its bundle,
\* its validator run and its review name, and what nothing but a probe that was
\* given up could still write (runValidators, runReview, cleanupEnvironments,
\* checkWorkspaceTree).
THEOREM AcceptedAsValidatedHolds == Spec => AcceptedAsValidated
  <1> DEFINE Validated ==
        work # "COMPLETED" /\ work' = "COMPLETED" =>
          /\ disk = checkout'.accepted
          /\ \A k \in {"bundle", "validation", "run"} : job.filed[k] = disk
          /\ job.filed.review \in {disk, NoTree}
          /\ \A b \in Attempts, s \in Stages : Executing(b, s) => b = a0 /\ s = Probe
  <1>1. ASSUME IndInv, Submit
        PROVE  Validated
    <2>1. /\ job.pc = "enter" /\ job.stage = Submission /\ Unmoved
          /\ checkout'.accepted = disk
      BY <1>1 DEF Submit, At, AtStage
    <2>2. a0 \in Attempts /\ job.cause = "none" /\ a0 # 0
      BY <1>1, <2>1, Numbers DEF IndInv, Shape
    <2>3. /\ job.filed["bundle"] = disk /\ job.filed["validation"] = disk
          /\ job.filed["run"] = disk /\ job.filed["review"] \in {disk, NoTree}
      BY <1>1, <2>1, <2>2, Stages7 DEF IndInv, Filed, Unmoved, Expected
    <2>4. ASSUME NEW b \in Attempts, NEW s \in Stages, Executing(b, s)
          PROVE  b = a0 /\ s = Probe
      <3>1. b = a0
        BY <1>1, <2>2, <2>4, OwnersAlone DEF IndInv, Alone, Quiet
      <3> QED BY <1>1, <2>1, <2>2, <2>4, <3>1, Stages7 DEF IndInv, Behind
    <2> QED BY <2>1, <2>3, <2>4
  <1>2. IndInv /\ [Next]_vars => Validated \/ UNCHANGED vars
    BY <1>1, OnlySubmit
  <1>3. IndInv /\ [Next]_vars => [Validated]_vars
    BY <1>2
  <1> QED BY <1>3, Inductive, PTL DEF Spec, AcceptedAsValidated
=============================================================================
