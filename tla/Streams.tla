------------------------------ MODULE Streams ------------------------------
(***************************************************************************)
(* The pure core of the codex and claude adapters: how the output of an    *)
(* agent's process, read in pieces from two pipes, becomes the result of   *)
(* an invocation (parser.go and the observe functions of both).            *)
(*                                                                         *)
(* Output is a sequence of units.  A line is a body and NL; a body is a    *)
(* word and Close, and what stops before Close is no JSON value.           *)
(***************************************************************************)
EXTENDS Naturals, Sequences, FiniteSets, Functions, SequencesExt

NL == "newline"
Close == "}"
Adapters == {"codex", "claude"}

\* What a line says: the session, an answer that decodes or does not, with or
\* without the session, a failure of the provider, anything else.
Sessions == {"s1", "s2"}
Answers == {"text", "text of s1", "junk"}
Words == Sessions \cup Answers \cup {"no session", "failure", "other"}

CONSTANTS
  Outputs,   \* the words of the whole lines of an output
  Rests      \* what may follow the last whole line

ASSUME StreamsAssumption ==
    Outputs \subseteq Seq(Words) /\ Rests \subseteq Seq(Words \cup {Close})

NamedBy(word) ==
    CASE word \in Sessions -> word [] word = "text of s1" -> "s1" [] OTHER -> "none"

\* The parser of one invocation and the limit it shares with the other pipe.
Parser(limit) ==
    [pending |-> <<>>, session |-> "none", final |-> "none",
     left |-> limit, failed |-> FALSE, stderr |-> "open"]
Failed(p) == [p EXCEPT !.failed = TRUE]

Word(body) ==
    IF Len(body) = 2 /\ body[1] \in Words /\ body[2] = Close THEN body[1] ELSE "not JSON"

\* thread.started or system init, or a result of claude that names a session.
Named(p, session) ==
    CASE session = "none" -> p
      [] session # "none" /\ p.session \in {"none", session} ->
           [p EXCEPT !.session = session]
      [] OTHER -> Failed(p)

\* normalizeEvent: a failed turn is an event like any other, the exit status
\* tells.
CodexLine(p, word) ==
    CASE word \in {"not JSON", "no session"} -> Failed(p)
      [] word \in Sessions -> Named(p, word)
      [] word \in Answers -> [p EXCEPT !.final = word]
      [] OTHER -> p

\* process: a result is the last word, and a failed one ends the stream.
ClaudeLine(p, word) ==
    CASE word \in {"not JSON", "no session", "failure"} -> Failed(p)
      [] word \in Sessions -> Named(p, word)
      [] word \in Answers ->
           LET named == Named(p, NamedBy(word))
           IN IF named.failed THEN named ELSE [named EXCEPT !.final = word]
      [] OTHER -> p

Line(adapter, p, body) ==
    IF adapter = "codex" THEN CodexLine(p, Word(body)) ELSE ClaudeLine(p, Word(body))

Unit(adapter, p, unit) ==
    CASE p.failed -> p
      [] ~p.failed /\ unit = NL -> Line(adapter, [p EXCEPT !.pending = <<>>], p.pending)
      [] OTHER -> [p EXCEPT !.pending = Append(@, unit)]

\* The states of the parser after each number of units.
Parsed(adapter, p, chunk) ==
    LET after[n \in 0 .. Len(chunk)] ==
          IF n = 0 THEN p ELSE Unit(adapter, after[n - 1], chunk[n])
    IN after

\* Write of a pipe, with the limiter in front of it.
Consumed(p, size) == IF size > p.left THEN 0 ELSE p.left - size
Feed(adapter, p, chunk) ==
    CASE p.failed -> p
      [] ~p.failed /\ Len(chunk) > p.left -> Failed([p EXCEPT !.left = 0])
      [] OTHER ->
           Parsed(adapter, [p EXCEPT !.left = Consumed(p, Len(chunk))], chunk)[Len(chunk)]

FeedStderr(p, size) ==
    [p EXCEPT !.left = Consumed(p, size),
              !.stderr = IF size > p.left THEN "failed" ELSE @]

\* Mutant: both take the rest for a line.
AtEndOfBoth(adapter, p) ==
    IF p.pending # <<>> /\ ~p.failed
    THEN Line(adapter, [p EXCEPT !.pending = <<>>], p.pending) ELSE p

\* processPendingAtEOF: claude takes the rest for a line, codex refuses it.
AtEnd(adapter, p) ==
    IF adapter = "claude" /\ p.pending # <<>> /\ ~p.failed
    THEN Line(adapter, [p EXCEPT !.pending = <<>>], p.pending) ELSE p

\* Finalize, FinalizeReview and FinalizePlanner of codex.
Result(p) ==
    /\ ~p.failed /\ p.pending = <<>> /\ p.session # "none"
    /\ p.final \in {"text", "text of s1"}

\* finalizeAgent, finalizeReview and finalizePlanner of claude begin with AtEnd.
Finalize(adapter, p) == Result(AtEnd(adapter, p))

\* observeExecution: the class of the error, in the order of the switch.
Ends == {"exit", "exit with error", "timeout", "unconfirmed"}
Outcome(adapter, p, end) ==
    LET q == AtEnd(adapter, p) IN
    CASE end = "unconfirmed" -> "unconfirmed"
      [] end # "unconfirmed" /\ q.failed -> "stream"
      [] end # "unconfirmed" /\ ~q.failed /\ q.stderr = "failed" -> "stderr"
      [] end = "timeout" /\ ~q.failed /\ q.stderr # "failed" -> "context"
      [] end \in {"exit", "exit with error"} /\ ~q.failed /\ q.stderr # "failed" ->
           IF ~Finalize(adapter, p) THEN "result" ELSE IF end = "exit" THEN q.session ELSE "status"
----------------------------------------------------------------------------
\* What a reader of the whole output would say.

Body(word) == <<word, Close>>
Piece(words, i) ==
    CASE i % 3 = 1 -> words[(i + 2) \div 3] [] i % 3 = 2 -> Close [] i % 3 = 0 -> NL
Output(words, rest) ==
    [i \in 1 .. 3 * Len(words) |-> Piece(words, i)] \o rest

\* The words that count: the rest of the output is one only for claude.
Spoken(adapter, words, rest) ==
    IF rest = <<>> \/ adapter = "codex" THEN words ELSE Append(words, Word(rest))

Sound(adapter, words, rest) ==
    LET spoken == Spoken(adapter, words, rest)
        answers == {i \in DOMAIN spoken : spoken[i] \in Answers}
        named == {IF adapter = "claude" \/ spoken[i] \in Sessions
                  THEN NamedBy(spoken[i]) ELSE "none" : i \in DOMAIN spoken} \ {"none"}
    IN /\ adapter = "codex" => rest = <<>>
       /\ Range(spoken) \cap ({"not JSON", "no session"} \cup
                              (IF adapter = "claude" THEN {"failure"} ELSE {})) = {}
       /\ Cardinality(named) = 1
       /\ \E i \in answers : spoken[i] # "junk" /\ \A j \in answers : j <= i

\* However the output is cut and whatever the other pipe carries in between,
\* its outcome is a result exactly when the output as a whole is one.
Agrees(adapter, words, rest) ==
    LET output == Output(words, rest)
        sound == Sound(adapter, words, rest)
    IN \A cut \in 0 .. Len(output), noise \in {0, 1} :
         LET first == Feed(adapter, Parser(Len(output)), SubSeq(output, 1, cut))
             last == Feed(adapter, FeedStderr(first, noise),
                           SubSeq(output, cut + 1, Len(output)))
         IN \A end \in Ends :
              LET outcome == Outcome(adapter, last, end)
              IN /\ outcome \in Sessions <=> sound /\ noise = 0 /\ end = "exit"
                 /\ outcome \in Sessions =>
                       outcome \in {NamedBy(w) : w \in Range(words \o <<Word(rest)>>)}
=============================================================================
