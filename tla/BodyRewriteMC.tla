---------------------------- MODULE BodyRewriteMC ----------------------------
(* Instances of BodyRewrite for TLC. *)
EXTENDS BodyRewrite

Call(kind, path, view) == [kind |-> kind, path |-> path, view |-> view]

\* One call and its answer: reads of a file, with and without text, and of a slice
\* of it, an edit, and a command that prints what the slice has.
Single(call, text) == [calls |-> <<call>>, answers |-> <<[of |-> 1, text |-> text]>>]

Singles ==
  {Single(Call("read", "a", "file"), x) : x \in {Inert, 1}}
    \cup {Single(Call("read", "a", "slice"), 2), Single(Call("edit", "a", NoPath), 1)}
    \cup {Single(Call("recall", NoPath, NoPath), 2)}

\* Reads of two files at once, answered the other way round.
Crossed ==
  {[calls |-> <<Call("read", pq[1], "file"), Call("read", pq[2], "file")>>,
    answers |-> <<[of |-> 2, text |-> 2], [of |-> 1, text |-> 1]>>] :
     pq \in {pq \in Paths \X Paths : pq[1] # pq[2]}}

SomeTurns == Singles \cup Crossed

\* Looking at a file in other ways than by a read.
Lookings ==
  Singles
    \cup {Single(Call("search", "a", NoPath), 2), Single(Call("retrieve", NoPath, NoPath), 2)}
=============================================================================
