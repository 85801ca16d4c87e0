----------------------------- MODULE Lifecycle -----------------------------
(***************************************************************************)
(* The state machines of internal/domain/state.go as transition tables: a  *)
(* function from a state to the states the table lets it move to.  Every   *)
(* transaction of the store validates the change of an aggregate against   *)
(* its table before it writes the row, so the modules of this project use  *)
(* CanMove in the guards of their actions the way the code calls           *)
(* CanTransition and Validate...Transition.                                *)
(***************************************************************************)

\* A goal; COMPLETED and CANCELLED are terminal.
GoalTransitions ==
    [ DRAFT     |-> {"READY", "CANCELLED"},
      READY     |-> {"RUNNING", "CANCELLED"},
      RUNNING   |-> {"WAITING", "VERIFYING", "CANCELLED"},
      WAITING   |-> {"RUNNING", "CANCELLED"},
      VERIFYING |-> {"RUNNING", "WAITING", "COMPLETED", "CANCELLED"},
      COMPLETED |-> {},
      CANCELLED |-> {} ]

\* A work item of the active plan.
WorkTransitions ==
    [ PENDING     |-> {"READY", "CANCELLED"},
      READY       |-> {"CLAIMED", "WAITING", "CANCELLED"},
      CLAIMED     |-> {"RUNNING", "RECONCILING", "CANCELLED"},
      RUNNING     |-> {"VERIFYING", "RECONCILING", "CANCELLED"},
      VERIFYING   |-> {"COMPLETED", "RECONCILING", "CANCELLED"},
      RECONCILING |-> {"READY", "WAITING", "CANCELLED"},
      WAITING     |-> {"READY", "CANCELLED"},
      COMPLETED   |-> {},
      CANCELLED   |-> {} ]

AttemptFailures ==
    {"FAILED", "TIMED_OUT", "INTERRUPTED", "INVALID_OUTPUT", "QUARANTINED"}

\* One run of an agent for a work item; every live state may fail.
AttemptTransitions ==
    [ CREATED        |-> {"PREPARING"} \cup AttemptFailures,
      PREPARING      |-> {"STARTING"} \cup AttemptFailures,
      STARTING       |-> {"RUNNING"} \cup AttemptFailures,
      RUNNING        |-> {"COLLECTING"} \cup AttemptFailures,
      COLLECTING     |-> {"VALIDATING"} \cup AttemptFailures,
      VALIDATING     |-> {"REVIEWING", "PROMOTING"} \cup AttemptFailures,
      REVIEWING      |-> {"PROMOTING"} \cup AttemptFailures,
      PROMOTING      |-> {"SUCCEEDED"} \cup AttemptFailures,
      SUCCEEDED      |-> {},
      FAILED         |-> {},
      TIMED_OUT      |-> {},
      INTERRUPTED    |-> {},
      INVALID_OUTPUT |-> {},
      QUARANTINED    |-> {} ]

\* The ownership of a work item by one attempt.
LeaseTransitions ==
    [ ACTIVE   |-> {"RELEASED", "EXPIRED", "REVOKED"},
      RELEASED |-> {},
      EXPIRED  |-> {},
      REVOKED  |-> {} ]

\* An operator's decision the kernel waits for.
GateTransitions ==
    [ OPEN     |-> {"APPROVED", "DENIED", "EXPIRED"},
      APPROVED |-> {"EXPIRED", "REVOKED"},
      DENIED   |-> {},
      EXPIRED  |-> {},
      REVOKED  |-> {} ]

\* The journal entry of one external effect.
EffectTransitions ==
    [ REQUESTED  |-> {"EXECUTING", "RECOVERING"},
      EXECUTING  |-> {"OBSERVING", "RECOVERING"},
      OBSERVING  |-> {"SUCCEEDED", "FAILED", "RECOVERING"},
      RECOVERING |-> {"OBSERVING"},
      SUCCEEDED  |-> {},
      FAILED     |-> {} ]

CanMove(table, from, to) == to \in table[from]
=============================================================================
