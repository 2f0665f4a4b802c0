------------------------------- MODULE Merge -------------------------------
(***************************************************************************)
(* merge_circuit of simple_circuit_merge.cpp, called by link() for one     *)
(* call after the other: the OUTPUT gates that hold an argument are        *)
(* connected to the INPUT gates of the callee's parameter, the callee's    *)
(* OUTPUT gates to the INPUT gates that hold the returned value, bit for   *)
(* bit.  Where the widths differ a COMBINE or SPLIT gate goes between, and *)
(* a COMBINE gate that is there already may be used again.                 *)
(*                                                                         *)
(* A gate is <<kind, owner, number>>; owner 0 is the caller, owner k the   *)
(* callee of call k.  A pin and an endpoint are <<gate, number>>.  The     *)
(* order of a fanout vector is left out: any COMBINE gate in it may be the *)
(* first.  A false assertion leaves the model without a step: that no      *)
(* assertion fails is what the absence of deadlock says.                   *)
(***************************************************************************)
EXTENDS Integers, Sequences, FiniteSetsExt, SequencesExt

CONSTANTS
  Calls,    \* for each call its variables, arguments first: the OUTPUT gates
            \* [from] and the INPUT gates [to] that they are connected to
  Width,    \* the width of every gate that exists before
  Callers   \* the wirings to begin with: for every connected pin its driver

VARIABLES
  caller,   \* the wiring that link() was called with
  fanin,    \* what drives every connected pin now
  made,     \* the widths of the COMBINE and SPLIT gates that were made
  gone,     \* the gates that were deleted
  at        \* the call, its variable, and the next OUTPUT and INPUT gate

vars == <<caller, fanin, made, gone, at>>

Kind(g) == g[1]
ONE(k)  == <<"ONE", k, 0>>
ZERO(k) == <<"ZERO", k, 0>>

WidthOf(g) == IF Kind(g) \in {"COMBINE", "SPLIT"} THEN made[g[3]] ELSE Width[g]

\* What the constants have to be.
MergeAssumption ==
  /\ \A k \in DOMAIN Calls : \A v \in DOMAIN Calls[k] :
       \A g \in ToSet(Calls[k][v].from) \cup ToSet(Calls[k][v].to) : Width[g] \in Nat \ {0}
  /\ \A w \in Callers : \A p \in DOMAIN w : Width[w[p][1]] \in Nat \ {0}

Without(f, S) == [p \in DOMAIN f \ S |-> f[p]]

\* g.replace_by(e): who reads g reads e from now on.
Redirect(f, g, e) == [p \in DOMAIN f |-> IF f[p][1] = g THEN e ELSE f[p]]

Init ==
  /\ caller \in Callers /\ fanin = caller
  /\ made = << >> /\ gone = {}
  /\ at = [call |-> 1, stage |-> "begin"]

----------------------------------------------------------------------------
(* One variable: from OUTPUT gates to INPUT gates.                         *)

From == Calls[at.call][at.var].from
To   == Calls[at.call][at.var].to
Driver(o) == fanin[<<o, 0>>]

TotalWidth(gates) == FoldSeq(LAMBDA g, n : n + Width[g], 0, gates)
\* The OUTPUT gates, the first being number a, that fill the given width.
Group(a, width) ==
  LET filled == {z \in a .. Len(From) : TotalWidth(SubSeq(From, a, z)) >= width}
  IN  SubSeq(From, a, IF filled = {} THEN Len(From) ELSE Min(filled))

HasNext == at.stage = "connect" /\ at.out <= Len(From) /\ at.inp <= Len(To)
Connected(outs, n) == [at EXCEPT !.out = @ + outs, !.inp = @ + n]

NewGate(kind) == <<kind, 0, Len(made) + 1>>

\* find_combiner_fanout for every driver of the group: a COMBINE gate, if any.
NoGate == <<"none", 0, 0>>
Combiners == {p[1] : p \in {q \in DOMAIN fanin : Kind(q[1]) = "COMBINE"}}
Reads(c, g) == \E p \in DOMAIN fanin : p[1] = c /\ fanin[p][1] = g
FirstCombiners(group) ==
  LET drivers == {Driver(o)[1] : o \in ToSet(group)}
  IN  {f \in [drivers -> Combiners \cup {NoGate}] :
         \A g \in drivers :
           IF \E c \in Combiners : Reads(c, g) THEN f[g] \in Combiners /\ Reads(f[g], g)
                                               ELSE f[g] = NoGate}

\* can_reuse_combiner: all drivers have the same first one.
Reusable(first) == first # [g \in DOMAIN first |-> NoGate]
                   /\ \A g, h \in DOMAIN first : first[g] = first[h]

Pins(group) == {<<o, 0>> : o \in ToSet(group)}

\* Fault: the OUTPUT gates stay connected.
Reuse_connected(group, i, c) ==
  /\ fanin' = Redirect(fanin, i, <<c, 0>>)
  /\ UNCHANGED made
Reuse(group, i, c) ==
  /\ fanin' = Redirect(Without(fanin, Pins(group)), i, <<c, 0>>)
  /\ UNCHANGED made

\* Fault: the lowest bit last.
NewCombiner_reversed(group, i) ==
  LET c == NewGate("COMBINE")
      rest == Without(fanin, Pins(group))
  IN  /\ made' = Append(made, Width[i])
      /\ fanin' = Redirect([p \in DOMAIN rest \cup {<<c, n - 1>> : n \in DOMAIN group} |->
                              IF p[1] = c THEN Driver(group[Len(group) - p[2]]) ELSE rest[p]],
                           i, <<c, 0>>)
\* Pin 0 of a new gate is connected to the first of the group, and so on.
NewCombiner(group, i) ==
  LET c == NewGate("COMBINE")
      rest == Without(fanin, Pins(group))
  IN  /\ made' = Append(made, Width[i])
      /\ fanin' = Redirect([p \in DOMAIN rest \cup {<<c, n - 1>> : n \in DOMAIN group} |->
                              IF p[1] = c THEN Driver(group[p[2] + 1]) ELSE rest[p]],
                           i, <<c, 0>>)

\* OUTPUT gates narrower than the INPUT gate (create_combiner_for_outputs).
Combine ==
  /\ HasNext
  /\ Width[From[at.out]] < Width[To[at.inp]]
  /\ LET i == To[at.inp]
         group == Group(at.out, Width[i])
     IN  /\ TotalWidth(group) = Width[i]
         /\ \E first \in FirstCombiners(group) :
              LET c == first[Driver(group[1])[1]]
              IN  IF Reusable(first) THEN WidthOf(c) = Width[i] /\ Reuse(group, i, c)
                                     ELSE NewCombiner(group, i)
         /\ at' = Connected(Len(group), 1)
  /\ UNCHANGED <<caller, gone>>

\* An OUTPUT gate wider than the INPUT gates, which are replaced pin by pin.
Split ==
  /\ HasNext
  /\ LET o == From[at.out]
         s == NewGate("SPLIT")
         bits == [n \in 1 .. Width[o] |-> To[at.inp + n - 1]]
         all  == [p \in (DOMAIN fanin \ {<<o, 0>>}) \cup {<<s, 0>>} |->
                    IF p = <<s, 0>> THEN Driver(o) ELSE fanin[p]]
     IN  /\ Width[o] > Width[To[at.inp]] /\ Width[To[at.inp]] = 1
         /\ at.inp + Width[o] - 1 <= Len(To)
         /\ fanin' = FoldLeft(LAMBDA f, n : Redirect(f, bits[n], <<s, n - 1>>), all,
                              [n \in 1 .. Width[o] |-> n])
         /\ made' = Append(made, 1)
         /\ at' = Connected(1, Width[o])
  /\ UNCHANGED <<caller, gone>>

\* The same width on both sides.
Direct ==
  /\ HasNext
  /\ LET o == From[at.out]  i == To[at.inp]
     IN  /\ Width[o] = Width[i] /\ WidthOf(Driver(o)[1]) = Width[i]
         /\ fanin' = Redirect(Without(fanin, {<<o, 0>>}), i, Driver(o))
  /\ at' = Connected(1, 1)
  /\ UNCHANGED <<caller, made, gone>>

----------------------------------------------------------------------------
(* One call.                                                               *)

FirstVariable == [call |-> at.call, stage |-> "connect", var |-> 1, out |-> 1, inp |-> 1]

\* The callee's constants become the caller's.
Begin ==
  /\ at.stage = "begin" /\ at.call <= Len(Calls)
  /\ LET k == at.call
         f == Without(fanin, {<<ZERO(k), 0>>})
     IN  fanin' = Redirect(Redirect(f, ONE(k), <<ONE(0), 0>>), ZERO(k), <<ZERO(0), 0>>)
  /\ at' = FirstVariable
  /\ UNCHANGED <<caller, made, gone>>

\* Both sides are used up: the caller's gates are removed from their list.
\* After the last variable the callee, its INPUT, OUTPUT and constant gates
\* with it, is deleted and the call is erased.
EndVariable ==
  /\ at.stage = "connect" /\ at.out > Len(From) /\ at.inp > Len(To)
  /\ LET k == at.call
         ends  == ToSet(From) \cup ToSet(To)
         last  == at.var = Len(Calls[k])
         ours  == {g \in ends : g[2] = 0}
         every == UNION {ToSet(v.from) \cup ToSet(v.to) : v \in ToSet(Calls[k])}
     IN  /\ gone' = gone \cup ours \cup IF last THEN every \cup {ONE(k), ZERO(k)} ELSE {}
         /\ at' = IF last THEN [call |-> k + 1, stage |-> "begin"]
                          ELSE [FirstVariable EXCEPT !.var = at.var + 1]
  /\ UNCHANGED <<caller, fanin, made>>

Linked == at.call > Len(Calls)
Done == Linked /\ UNCHANGED vars

Next == Begin \/ Combine \/ Split \/ Direct \/ EndVariable \/ Done

Spec == Init /\ [][Next]_vars

----------------------------------------------------------------------------
(* What a wire means: the bits that it carries, where the bits of an INPUT *)
(* gate are those that were passed to it and any other gate is opaque.     *)

RECURSIVE Value(_, _)
Passed(i) ==
  LET v == CHOOSE u \in UNION {ToSet(Calls[k]) : k \in DOMAIN Calls} : i \in ToSet(u.to)
      n == CHOOSE m \in DOMAIN v.to : v.to[m] = i
      bits == FlattenSeq([m \in DOMAIN v.from |-> Value(caller, caller[<<v.from[m], 0>>])])
      before == FoldSeq(LAMBDA g, sum : sum + Width[g], 0, SubSeq(v.to, 1, n - 1))
  IN  SubSeq(bits, before + 1, before + Width[i])

Value(wiring, e) ==
  LET g == e[1]
      pins == {p \in DOMAIN wiring : p[1] = g}
  IN  CASE Kind(g) = "INPUT" -> Passed(g)
        [] Kind(g) \in {"ONE", "ZERO"} -> <<Kind(g)>>
        [] Kind(g) = "COMBINE" ->
             FlattenSeq([n \in 1 .. WidthOf(g) |->
                           IF <<g, n - 1>> \in pins THEN Value(wiring, wiring[<<g, n - 1>>])
                                                   ELSE << >>])
        [] Kind(g) = "SPLIT" -> <<Value(wiring, wiring[<<g, 0>>])[e[2] + 1]>>
        [] OTHER -> [b \in 1 .. Width[g] |-> <<g, b>>]

----------------------------------------------------------------------------
(* Properties.                                                             *)

\* The types; and no iterator passes the end of its variable.
TypeOK ==
  /\ at.call \in 1 .. Len(Calls) + 1 /\ at.stage \in {"begin", "connect"}
  /\ at.stage = "connect" => at.out \in 1 .. Len(From) + 1 /\ at.inp \in 1 .. Len(To) + 1
  /\ made \in Seq(Nat \ {0})
  /\ \A p \in DOMAIN fanin : fanin[p][2] \in Nat

\* Every gate of the caller and of the callees reads, at every moment of the
\* merging, the bits that the calls pass to it: the OUTPUT and INPUT gates on
\* the way, and the COMBINE and SPLIT gates put in, change no bit and no order.
MeaningKept ==
  \A p \in DOMAIN caller :
    Kind(p[1]) = "GATE" =>
      p \in DOMAIN fanin /\ Value(fanin, fanin[p]) = Value(caller, caller[p])

\* No wire begins or ends at a gate that was deleted: the OUTPUT and INPUT
\* gates of the call, and what is left of the callee.
NoWireToGone ==
  \A p \in DOMAIN fanin : p[1] \notin gone /\ fanin[p][1] \notin gone
=============================================================================
