------------------------------ MODULE Compile ------------------------------
(***************************************************************************)
(* The pure core of package goalcompile and of the store's check of a plan *)
(* revision: which graphs of work items a planner may propose.             *)
(*                                                                         *)
(* A proposal is a record of its works, of each work's prerequisites in    *)
(* the order they are listed, of its write patterns, criteria and          *)
(* validators, and of which works are required.                            *)
(***************************************************************************)
EXTENDS Scopes

CONSTANTS
    Criteria,   \* the criteria of the goal
    Trusted,    \* the validators of the configuration
    Plans,      \* the proposals of a planner
    Paths       \* the paths that a work may write

ASSUME CompileAssumption ==
    /\ \A plan \in Plans :
         /\ IsFiniteSet(plan.works)
         /\ \A w \in plan.works : \A a \in plan.scope[w] : IsSequence(a)
    /\ \A p \in Paths : IsSequence(p)

\* prerequisite -> work, the adjacency of both graphs.
Edges(plan) ==
    {e \in plan.works \X plan.works : e[1] \in Range(plan.depends[e[2]])}

\* reachable, by paths of at most as many steps as there are works.
Longer(plan, pairs) ==
    pairs \cup {e \in plan.works \X plan.works :
                 \E w \in plan.works : <<e[1], w>> \in pairs /\ <<w, e[2]>> \in Edges(plan)}
Within(plan) ==
    LET within[n \in 0 .. Cardinality(plan.works)] ==
          IF n = 0 THEN {<<w, w>> : w \in plan.works} ELSE Longer(plan, within[n - 1])
    IN within
Reachable(plan) == Within(plan)[Cardinality(plan.works)]

\* cyclic: the depth-first search comes back to a node it is visiting.
Cyclic(plan) ==
    \E e \in Edges(plan) : <<e[2], e[1]>> \in Reachable(plan)

\* The segments before the first one with a *.  The other metacharacters, which
\* validScope admits, are taken for what they are written as.
LiteralPrefix(pattern) ==
    LET wild == SelectInSeq(pattern, LAMBDA s : s \in Starred)
    IN IF wild = 0 THEN pattern ELSE SubSeq(pattern, 1, wild - 1)

\* Mutant: only the same directory conflicts, not one inside the other.
ScopesMeet(left, right) ==
    \E a \in left, b \in right : LiteralPrefix(a) \in {<<>>, LiteralPrefix(b)}

ScopesMayOverlap(left, right) ==
    \E a \in left, b \in right :
        \/ IsPrefix(LiteralPrefix(a), LiteralPrefix(b))
        \/ IsPrefix(LiteralPrefix(b), LiteralPrefix(a))

\* compilePlan, after Contract.Validate and ValidateCoverage.
Compiles(plan) ==
    /\ plan.works # {}
    /\ \A w \in plan.works :
         /\ plan.scope[w] # {} /\ plan.criteria[w] # {} /\ plan.validators[w] # {}
         /\ plan.criteria[w] \subseteq Criteria /\ plan.validators[w] \subseteq Trusted
         /\ Range(plan.depends[w]) \subseteq plan.works \ {w}
    /\ \A c \in Criteria : \E w \in plan.required : c \in plan.criteria[w]
    /\ ~Cyclic(plan)
    /\ \A v, w \in plan.works :
         v # w /\ ScopesMayOverlap(plan.scope[v], plan.scope[w]) =>
             {<<v, w>>, <<w, v>>} \cap Reachable(plan) # {}

\* The works without a prerequisite that is left are taken until none is.
Free(plan, done) == {w \in plan.works : Range(plan.depends[w]) \subseteq done}
Taken(plan) ==
    LET taken[n \in 0 .. Cardinality(plan.works)] ==
          IF n = 0 THEN {} ELSE Free(plan, taken[n - 1])
    IN taken
Visited(plan) == Taken(plan)[Cardinality(plan.works)]

\* validateAndHashPlan, which also refuses a prerequisite that is listed twice.
Storable(plan) ==
    /\ \A w \in plan.works : IsInjective(plan.depends[w])
    /\ Visited(plan) = plan.works

----------------------------------------------------------------------------
ReadyAt(plan, done, w) == w \in Free(plan, done) \ done

\* What is done was ready before it was.
Reached(plan) ==
    {done \in SUBSET plan.works : done \subseteq Free(plan, done)}

MayWrite(plan, w, path) == \E a \in plan.scope[w] : MatchSegments(a, path)

\* The two tests for a cycle agree (cyclic, validateAndHashPlan).
CycleTestsAgree(plan) ==
    (\A w \in plan.works : Range(plan.depends[w]) \subseteq plan.works) =>
        (Cyclic(plan) <=> Visited(plan) # plan.works)

\* No scope of the plan has a metacharacter before its first *: only then does
\* the compiler's test see what a scope may match.
Literal(plan) ==
    \A w \in plan.works : \A a \in plan.scope[w] :
       \A s \in Range(LiteralPrefix(a)) : Exact(s)

\* A plan that is published can always go on, whatever is done already, and, if
\* it is Literal, never has two works ready at once that may write the same path
\* (compilePlan, scopesMayOverlap, validateAndHashPlan against the matching of
\* scopes).
Completes(plan) ==
    Compiles(plan) /\ Storable(plan) =>
        \A done \in Reached(plan) :
           /\ done # plan.works => \E w \in plan.works : ReadyAt(plan, done, w)
           /\ Literal(plan) => \A v, w \in plan.works :
                v # w /\ ReadyAt(plan, done, v) /\ ReadyAt(plan, done, w) =>
                  ~ \E p \in Paths : MayWrite(plan, v, p) /\ MayWrite(plan, w, p)
=============================================================================
