------------------------------- MODULE Scopes -------------------------------
(***************************************************************************)
(* The patterns of package scope, which say what a work item may write: a  *)
(* pattern and a path are sequences of segments.  ** stands for any number *)
(* of segments; what any other segment of a pattern matches, with its *,   *)
(* its ? and its [..], is path.Match of the Go library, a relation.        *)
(***************************************************************************)
EXTENDS Naturals, Sequences, FiniteSets, Functions, SequencesExt

CONSTANTS
    Matching,   \* <<segment of a pattern, segment of a path>>: path.Match
    Starred     \* the segments of patterns that have a * in them

ASSUME ScopesAssumption == "**" \in Starred

\* The value is a sequence, of whatever its elements are.
IsSequence(s) == s \in Seq(Range(s))

\* path.Match after NFC (compilePattern).
SegMatches(pattern, segment) == <<pattern, segment>> \in Matching

\* The segment of a pattern stands for itself only: it has no metacharacter, and
\* its spelling is the canonical one.
Exact(segment) == \A m \in Matching : m[1] = segment => m[2] = segment

\* The positions of the path from which a segment of the pattern leads to one
\* of the later positions.
Before(path, segment, later) ==
  IF segment = "**" THEN {j \in 1 .. Len(path) + 1 : \E m \in later : j <= m}
  ELSE {j \in 1 .. Len(path) : SegMatches(segment, path[j]) /\ j + 1 \in later}

\* Those from which the last k segments of the pattern match what is left of
\* the path, for every k.
MatchedFrom(pattern, path) ==
  LET from[k \in 0 .. Len(pattern)] ==
        IF k = 0 THEN {Len(path) + 1}
        ELSE Before(path, pattern[Len(pattern) + 1 - k], from[k - 1])
  IN from

MatchSegments(pattern, path) == 1 \in MatchedFrom(pattern, path)[Len(pattern)]

----------------------------------------------------------------------------
\* What a pattern means: the path can be cut into one piece for each segment
\* of the pattern, of any length for ** and of one matching segment otherwise;
\* at[i] is where the i-th piece ends.
Covers(pattern, path) ==
  \E at \in [0 .. Len(pattern) -> 0 .. Len(path)] :
     /\ at[0] = 0 /\ at[Len(pattern)] = Len(path)
     /\ \A i \in DOMAIN pattern :
          IF pattern[i] = "**" THEN at[i - 1] <= at[i]
          ELSE at[i] = at[i - 1] + 1 /\ SegMatches(pattern[i], path[at[i]])
=============================================================================
