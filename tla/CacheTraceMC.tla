----------------------------- MODULE CacheTraceMC -----------------------------
(* Instances of CacheTrace for TLC. *)
EXTENDS CacheTrace, TLC

Symmetric == Permutations(Requests)

Block(text, mark) == [text |-> text, mark |-> mark]

\* One tool, one marked system block, one message.
Base ==
  [client |-> "a", model |-> "m", ctx |-> 1, auto |-> 0,
   tools |-> <<Block(<<1>>, 0)>>, system |-> <<Block(<<1, 1>>, 5)>>, msgs |-> <<Block(<<1>>, 0)>>]

\* The hour asked for and the history grown; another text in the system block; a
\* second tool behind the cap and the breakpoint moved to the first; a changed
\* setting; another client, without tools; a tool too long to be kept; a history
\* past its cap and no breakpoint in the system.
SomeBodies ==
  {Base,
   [Base EXCEPT !.system = <<Block(<<1, 1>>, 60)>>, !.msgs = @ \o <<Block(<<2>>, 0)>>],
   [Base EXCEPT !.system = <<Block(<<1, 2>>, 5), Block(<<1>>, 0)>>],
   [Base EXCEPT !.tools = <<Block(<<1>>, 5), Block(<<2>>, 0)>>, !.system = <<Block(<<1, 1>>, 0)>>,
                !.msgs = <<Block(<<1>>, 60)>>],
   [Base EXCEPT !.ctx = 2],
   [Base EXCEPT !.client = "b", !.tools = <<>>, !.auto = 5],
   [Base EXCEPT !.tools = <<Block(<<2, 2, 2>>, 0)>>, !.system = <<Block(<<1, 1>>, 0)>>],
   [Base EXCEPT !.tools = <<Block(<<1>>, 5)>>, !.system = <<Block(<<1, 1>>, 0)>>,
                !.msgs = @ \o <<Block(<<2>>, 0), Block(<<3>>, 0)>>]}

\* Everything a table is keyed by, and its keys.
Fingerprinted ==
  UNION {{<<b.model, b.ctx, prefix_fp(b)>>, <<b.model, b.ctx, tools_fp(b)>>} : b \in SomeBodies}
SomeFp ==
  LET listed == FoldSet(LAMBDA x, list : Append(list, x), <<>>, Fingerprinted) IN
  [x \in Fingerprinted |-> CHOOSE i \in DOMAIN listed : listed[i] = x]
SomeKeys == 1 .. Cardinality(Fingerprinted)
=============================================================================
