----------------------------- MODULE ServedOnce -----------------------------
(***************************************************************************)
(* What a client of the daemon is promised about a write request it sends  *)
(* under a key: the request takes effect at most once, whoever executes    *)
(* it, however often it is sent and whatever becomes of the daemon; it is  *)
(* answered at most once, and an answer never changes; after an answer of  *)
(* its handler nothing takes effect any more, after an interruption it     *)
(* still may; "ok" is said of an effect and a refusal of none.             *)
(***************************************************************************)
EXTENDS Naturals

CONSTANT Keys

VARIABLES
    record,    \* key -> none, IN_PROGRESS, or its answer
    effects    \* key -> how many times it took effect

served == <<record, effects>>

Init == record = [k \in Keys |-> "none"] /\ effects = [k \in Keys |-> 0]

Begin(k) ==
    /\ record[k] = "none"
    /\ record' = [record EXCEPT ![k] = "IN_PROGRESS"]
    /\ UNCHANGED effects

\* A new goal and the answer that it is there are one step.
Create(k) ==
    /\ record[k] = "none"
    /\ record' = [record EXCEPT ![k] = "ok"]
    /\ effects' = [effects EXCEPT ![k] = @ + 1]

Act(k) ==
    /\ record[k] \in {"IN_PROGRESS", "interrupted"} /\ effects[k] = 0
    /\ effects' = [effects EXCEPT ![k] = 1]
    /\ UNCHANGED record

Answer(k, answer) ==
    /\ record[k] = "IN_PROGRESS"
    /\ answer = "ok" => effects[k] = 1
    /\ answer = "refused" => effects[k] = 0
    /\ record' = [record EXCEPT ![k] = answer]
    /\ UNCHANGED effects

Interrupt ==
    /\ record' = [k \in Keys |->
                    IF record[k] = "IN_PROGRESS" THEN "interrupted" ELSE record[k]]
    /\ UNCHANGED effects

Next ==
    \/ Interrupt
    \/ \E k \in Keys :
         \/ Begin(k) \/ Create(k) \/ Act(k)
         \/ \E answer \in {"ok", "refused", "error"} : Answer(k, answer)

Spec == Init /\ [][Next]_served
=============================================================================
