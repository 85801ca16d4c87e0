------------------------------- MODULE Inputs -------------------------------
(***************************************************************************)
(* What the pure modules are given.  They have no steps: each input is an  *)
(* initial state in which nothing happens, and their properties are about  *)
(* that input.                                                             *)
(***************************************************************************)
EXTENDS Patch, Compile, Streams

VARIABLE input

NoInput == [kind |-> "none"]

InputInit ==
    \/ input = NoInput
    \/ input \in [kind : {"directory"}, base : Directories]
    \/ input \in [kind : {"plan"}, plan : Plans]
    \/ input \in [kind : {"output"}, adapter : Adapters, words : Outputs, rest : Rests]
InputSpec == InputInit /\ [][UNCHANGED input]_input

\* What replay makes of the capture of any directory over the base tree is that
\* directory, and it is taken exactly if each change is in scope and configures
\* no validator (Capture, compareFiles, Replay, CheckWrite).
ReplayReproduces ==
    input.kind = "directory" =>
        \A dir \in Directories, policy \in Policies : Reproduces(policy, input.base, dir)

\* A plan that compiles and can be stored never gets stuck, whatever its scopes;
\* if no scope has a ? or a [ before its first * (Literal), it never has two ready
\* works that may write the same path; and the two tests for a cycle agree
\* (compilePlan, scopesMayOverlap, validateAndHashPlan).  Without the restriction
\* the compiler leaves /a? and /ab unordered (goalcompile/compile.go:340).
PublishedPlanCompletes ==
    input.kind = "plan" => CycleTestsAgree(input.plan) /\ Completes(input.plan)

\* Whatever pieces the output arrives in, and whatever the other pipe carries in
\* between, an invocation has a result if and only if the process ended well
\* and the output as a whole fits the limit, names one session, holds nothing
\* unreadable and ends its answers with one that decodes; and its session is
\* the one named (jsonlStream.Write, stream.Write, boundedStderr.Write,
\* Finalize, observeExecution).
StreamsAgree ==
    input.kind = "output" => Agrees(input.adapter, input.words, input.rest)
=============================================================================
