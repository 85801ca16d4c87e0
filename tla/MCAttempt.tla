----------------------------- MODULE MCAttempt -----------------------------
(***************************************************************************)
(* A small instance of Attempt, and of the pure modules it rests on: Patch *)
(* decides whether the directory an agent left is taken for validation,    *)
(* Compile which works may exist, Streams what an agent's output says.     *)
(*                                                                         *)
(* The sets of inputs of the pure modules are given here.  An input is an  *)
(* initial state from which nothing goes on (see the end).                 *)
(***************************************************************************)
EXTENDS Attempt, Inputs

MCAttempts == {1, 2}
MCStages == 1 .. 6
MCTrees == {"base", "changed"}

----------------------------------------------------------------------------
\* Patch: the directories of at most three files, of a few names.
File(mode, hash) == [mode |-> mode, hash |-> hash]
Text == File("644", "text")
Outward == File("link", "outside")

MCFold == [s \in {"a", "A", "b", "d", "e", "c", "i"} |-> IF s = "A" THEN "a" ELSE s]
MCIgnored == {<<"i">>}
MCUnsafe == {Outward}
MCProtected == {<<"c">>}

\* The paths of a small directory and what may be at each.
May == [p \in {<<"a">>, <<"A">>, <<"a", "b">>, <<"d">>, <<"e">>, <<"c">>, <<"i">>} |->
          CASE p = <<"a">> -> {Text, File("644", "other")}
            [] p = <<"d">> -> {Text, File("755", "text"), Outward}
            [] OTHER -> {Text}]
MCDirectories ==
    {t \in UNION {[S -> UNION {May[p] : p \in S}] :
                    S \in {S \in SUBSET DOMAIN May : Cardinality(S) <= 3}} :
       /\ \A p \in DOMAIN t : t[p] \in May[p]
       /\ \A p, q \in DOMAIN t : ~IsStrictPrefix(p, q)}

\* path.Match on the names above, and the segments of the patterns below.
MCNames == DOMAIN MCFold
MCMatching ==
    {<<s, s>> : s \in MCNames} \cup ({"*"} \X MCNames)
    \cup {<<"a*", "a">>, <<"[ab]", "a">>, <<"[ab]", "b">>, <<"[de]", "d">>, <<"[de]", "e">>}
MCStarred == {"*", "**", "a*"}

MCPolicies ==
    {[write |-> {<<"**">>}, deny |-> {<<"d">>}],
     [write |-> {<<"a", "**">>, <<"*", "b">>, <<"[de]">>, <<"c">>}, deny |-> {}],
     [write |-> {<<"**", "b">>, <<"d">>}, deny |-> {<<"*", "**", "b">>}]}

----------------------------------------------------------------------------
\* Compile: proposals of three works, every graph with disjoint scopes, and
\* every scope, with each of the metacharacters, in the graphs that follow the
\* order of the works.  One of the
\* works may depend on a work that is not proposed.
MCWorks == 1 .. 3
MCCriteria == {"c"}
MCTrusted == {"v"}
Plan(depends, scope) ==
    [works |-> MCWorks, depends |-> depends, scope |-> scope,
     criteria |-> [w \in MCWorks |-> {"c"}], validators |-> [w \in MCWorks |-> {"v"}],
     required |-> MCWorks]
Apart == [w \in MCWorks |-> {<<(<<"a", "d", "e">>)[w], "**">>}]
Patterns == {<<"a">>, <<"a", "b">>, <<"a", "**">>, <<"*", "b">>, <<"d", "b">>,
             <<"[ab]">>, <<"a*", "b">>}
MCPlans ==
    {Plan(depends, Apart) : depends \in [MCWorks -> BoundedSeq(MCWorks, 2)]}
    \cup {Plan([w \in MCWorks |-> IF w = 1 THEN <<4>> ELSE <<1>>], Apart)}
    \cup {Plan([w \in MCWorks |-> SetToSeq({v \in 1 .. w - 1 : <<v, w>> \in order})],
               [w \in MCWorks |-> {scope[w]}]) :
            order \in SUBSET {<<1, 2>>, <<1, 3>>, <<2, 3>>}, scope \in [MCWorks -> Patterns]}
MCPaths == DOMAIN May \cup {<<"d", "b">>}

----------------------------------------------------------------------------
\* Streams: up to three lines, and a rest that is a line without its end or
\* the beginning of one.
MCOutputs == BoundedSeq(Words, 3)
MCRests == {<<>>, <<"text">>, Body("text"), Body("other"), Body("s2")}

----------------------------------------------------------------------------
\* The behaviours of Attempt, and the inputs of the pure modules.
MCInit == Init /\ InputInit
MCNext == input = NoInput /\ Next /\ UNCHANGED input
MCSpec == MCInit /\ [][MCNext]_<<vars, input>> /\ Fairness
=============================================================================
