----------------------------- MODULE MCRewrite ------------------------------
(***************************************************************************)
(* Rewrite on all circuits of at most three gates over two inputs, on all  *)
(* of two gates with two outputs, so that a gate in the middle of a        *)
(* pattern has a consumer outside of it, and on families with the patterns *)
(* that need more gates, each with one or two gates for the result.  The   *)
(* clock may interrupt anywhere.                                           *)
(***************************************************************************)
EXTENDS Rewrite, Families

\* De Morgan and its inverses.
DeMorgan == Tree(<<"NOT", "NOT", "AND", "NOT">>) \cup Tree(<<"NOT", "NOT", "OR", "NOT">>)

\* XOR and its negation made of AND, OR and NOT.
XorPatterns == Tree(<<"OR", "NOT", "AND", "OR">>) \cup Tree(<<"AND", "NOT", "OR", "AND">>)
                 \cup Tree(<<"NOT", "NOT", "AND", "AND", "OR">>)
                 \cup Tree(<<"NOT", "OR", "NOT", "AND", "OR">>)

\* XORs whose inputs are negations of one another.
XorPairs == Tree(<<"NOT", "XOR", "XOR", "AND">>) \cup Tree(<<"NOT", "XOR", "XOR", "OR">>)

\* Cascades and trees of one operation.
Cascades == Tree(<<"NOT", "OR", "OR", "OR">>) \cup Tree(<<"NOT", "XOR", "XOR", "XOR">>)

RewriteCircuits ==
  UpTo(2) \cup UNION {Tree(ops) : ops \in AllOps(3)}
    \cup DeMorgan \cup XorPatterns \cup XorPairs \cup Cascades
=============================================================================
