---------------------------- MODULE AcceptedLine ----------------------------
(***************************************************************************)
(* What a user of xgoal is promised about the works of a goal: they become *)
(* visible on the integration ref one at a time, each on top of all it     *)
(* depends on; what became visible is accepted and never taken back; and a *)
(* work given up before it became visible stays given up.                  *)
(*                                                                         *)
(* The promise is stated over Git and the store together.  A work is       *)
(* published when the ref moves to its candidate, and accepted when the    *)
(* store has recorded that: between the two is the window the promotion    *)
(* journal exists for, and no second work may be published inside it.      *)
(***************************************************************************)
CONSTANTS Works, Deps, None

VARIABLES
    done,      \* works whose candidate is accepted
    staged,    \* the work published and not yet accepted, or None
    dropped    \* works given up

line == <<done, staged, dropped>>

Needs(w) == {d[1] : d \in {e \in Deps : e[2] = w}}

Init == done = {} /\ staged = None /\ dropped = {}

Publish(w) ==
    /\ staged = None
    /\ w \notin done \cup dropped
    /\ Needs(w) \subseteq done
    /\ staged' = w
    /\ UNCHANGED <<done, dropped>>

Accept ==
    /\ staged # None
    /\ done' = done \cup {staged}
    /\ staged' = None
    /\ UNCHANGED dropped

Drop(w) ==
    /\ w \notin done \cup {staged}
    /\ dropped' = dropped \cup {w}
    /\ UNCHANGED <<done, staged>>

Next == Accept \/ \E w \in Works : Publish(w) \/ Drop(w)

Spec == Init /\ [][Next]_line
=============================================================================
