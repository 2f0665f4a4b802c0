---------------------------- MODULE CircuitGraph ----------------------------
(***************************************************************************)
(* A circuit in memory (simple_circuitt and gatet of simple_circuit.h):    *)
(* every wire is stored twice, as a fanin of the gate that reads it and as *)
(* a fanout of the gate that drives it; gates, inputs and outputs are      *)
(* intrusive doubly linked lists; gates without fanin pins are also in     *)
(* m_root_gates.  replace_by() and remove() are loops that keep both       *)
(* directions up to date wire by wire, so their iterations are steps here. *)
(* A fanout vector is a bag: the code depends on its order nowhere but in  *)
(* the order in which a loop takes the wires, which is any in the model.   *)
(* A false assertion leaves the model without a step.                      *)
(***************************************************************************)
EXTENDS Integers, FiniteSets

CONSTANTS
  Address,    \* where a gate can be allocated
  Op,         \* the operations that gates are made with
  MaxWires,   \* bound: how many pins are connected at a time
  ONE_GATE, ZERO_GATE, NULL

VARIABLES
  operation,  \* what the gate at an address is, "FREE" when it was deleted
  fanins,     \* fanins[g][p]: the gate that drives pin p of g
  fanouts,    \* fanouts[g][t]: how often the pin t is in the fanout list of g
  previous, next,
  list,       \* HEAD, TAIL and SIZE of the three lists
  root_gates,
  call        \* the loop that is running

vars == <<operation, fanins, fanouts, previous, next, list, root_gates, call>>

Const  == {ONE_GATE, ZERO_GATE}
Cell   == Address \cup Const
Pin    == {0, 1}
Target == Cell \X Pin

\* One operation for each number of pins and kind of list.
AllOps == {"AND", "NOT", "CONST", "INPUT", "OUTPUT"}
Kind   == {"gates", "inputs", "outputs"}

ASSUME GraphAssumption ==
  /\ ONE_GATE # ZERO_GATE /\ Address \cap Const = {} /\ NULL \notin Cell
  /\ IsFiniteSet(Address)
  /\ Op \subseteq AllOps
  /\ MaxWires \in Nat

\* get_pin_counts: how many fanins an operation has.
PinCount(op) == CASE op = "AND"              -> 2
                  [] op \in {"NOT", "OUTPUT"} -> 1
                  [] OTHER                    -> 0
ListOf(op) == CASE op = "INPUT"  -> "inputs"
                [] op = "OUTPUT" -> "outputs"
                [] OTHER         -> "gates"

Live == {g \in Cell : operation[g] # "FREE"}

Idle == [name |-> "none"]
NoFanins  == [p \in Pin |-> NULL]
NoFanouts == [t \in Target |-> 0]

\* The constructor of simple_circuitt.
Init ==
  /\ operation = [g \in Cell |-> IF g = ONE_GATE THEN "ONE"
                                 ELSE IF g = ZERO_GATE THEN "NOT" ELSE "FREE"]
  /\ fanins = [g \in Cell |-> [p \in Pin |->
                 IF g = ZERO_GATE /\ p = 0 THEN ONE_GATE ELSE NULL]]
  /\ fanouts = [g \in Cell |-> [t \in Target |->
                  IF g = ONE_GATE /\ t = <<ZERO_GATE, 0>> THEN 1 ELSE 0]]
  /\ previous = [g \in Cell |-> NULL]
  /\ next = [g \in Cell |-> NULL]
  /\ list = [k \in Kind |-> [HEAD |-> NULL, TAIL |-> NULL, SIZE |-> 0]]
  /\ root_gates = {ONE_GATE}
  /\ call = Idle

----------------------------------------------------------------------------
(* Making and connecting gates.                                            *)

\* get_or_create_gate, create_input_gate and create_output_gate: a new gate
\* goes to the end of its list.
Create(g, op) ==
  LET l == list[ListOf(op)]
  IN  /\ call = Idle /\ operation[g] = "FREE"
      /\ operation' = [operation EXCEPT ![g] = op]
      /\ list' = [list EXCEPT ![ListOf(op)] =
                    [HEAD |-> IF l.HEAD = NULL THEN g ELSE l.HEAD,
                     TAIL |-> g, SIZE |-> l.SIZE + 1]]
      /\ previous' = [previous EXCEPT ![g] = l.TAIL]
      /\ next' = [n \in Cell |-> IF n = l.TAIL THEN g ELSE next[n]]
      /\ root_gates' = IF PinCount(op) = 0 THEN root_gates \cup {g} ELSE root_gates
      /\ UNCHANGED <<fanins, fanouts, call>>

\* g.add_fanin(h, p), which is h.add_fanout({g, p}).
AddFanin(g, p, h) ==
  /\ call = Idle
  /\ g \in Live /\ h \in Live /\ p < PinCount(operation[g])
  /\ fanins[g][p] = NULL
  /\ Cardinality({t \in Target : fanins[t[1]][t[2]] # NULL}) < MaxWires
  /\ fanins' = [fanins EXCEPT ![g][p] = h]
  /\ fanouts' = [fanouts EXCEPT ![h][<<g, p>>] = @ + 1]
  /\ UNCHANGED <<operation, previous, next, list, root_gates, call>>

\* The pin is connected, and its driver knows: what remove_fanin asserts.
Removable(g, p) == fanins[g][p] # NULL /\ fanouts[fanins[g][p]][<<g, p>>] > 0

RemoveFanin(g, p) ==
  /\ call = Idle /\ g # ZERO_GATE
  /\ fanins[g][p] # NULL
  /\ Removable(g, p)
  /\ fanins' = [fanins EXCEPT ![g][p] = NULL]
  /\ fanouts' = [fanouts EXCEPT ![fanins[g][p]][<<g, p>>] = @ - 1]
  /\ UNCHANGED <<operation, previous, next, list, root_gates, call>>

----------------------------------------------------------------------------
(* g.replace_by(h): while g has a fanout, the pin it goes to is taken from *)
(* its driver and given to h.                                              *)

\* Fault: a gate may replace itself.
ReplaceBy_itself(g, h) ==
  /\ call = Idle
  /\ g \in Live \ {ONE_GATE} /\ h \in Live
  /\ call' = [name |-> "replace_by", gate |-> g, by |-> h]
  /\ UNCHANGED <<operation, fanins, fanouts, previous, next, list, root_gates>>

ReplaceBy(g, h) ==
  /\ call = Idle
  /\ g \in Live \ {ONE_GATE} /\ h \in Live /\ g # h
  /\ call' = [name |-> "replace_by", gate |-> g, by |-> h]
  /\ UNCHANGED <<operation, fanins, fanouts, previous, next, list, root_gates>>

ReplaceOne ==
  /\ call.name = "replace_by"
  /\ \E t \in Target :
       /\ fanouts[call.gate][t] > 0
       /\ Removable(t[1], t[2])
       /\ fanins' = [fanins EXCEPT ![t[1]][t[2]] = call.by]
       /\ LET taken == [fanouts EXCEPT ![fanins[t[1]][t[2]]][t] = @ - 1]  \* remove_fanin
          IN  fanouts' = [taken EXCEPT ![call.by][t] = @ + 1]            \* add_fanout
  /\ UNCHANGED <<operation, previous, next, list, root_gates, call>>

\* Faults: replace_by() stops after one wire, or the loop that remove() runs
\* over the fanins ends one too early.
ReplaceReturn_early ==
  /\ call.name = "replace_by"
  /\ call' = Idle
  /\ UNCHANGED <<operation, fanins, fanouts, previous, next, list, root_gates>>

ReplaceReturn ==
  /\ call.name = "replace_by"
  /\ fanouts[call.gate] = NoFanouts
  /\ call' = Idle
  /\ UNCHANGED <<operation, fanins, fanouts, previous, next, list, root_gates>>

----------------------------------------------------------------------------
(* remove(g): the fanins one by one, then all fanouts, then the list.      *)
(* Its callers pass gates that are fully connected.                        *)

Remove(g) ==
  /\ call = Idle
  /\ g \in Live \ Const
  /\ \A p \in Pin : p < PinCount(operation[g]) => fanins[g][p] # NULL
  /\ call' = [name |-> "remove", gate |-> g, pin |-> 0]
  /\ UNCHANGED <<operation, fanins, fanouts, previous, next, list, root_gates>>

RemoveOneFanin ==
  /\ call.name = "remove" /\ call.pin < PinCount(operation[call.gate])
  /\ LET g == call.gate  p == call.pin
     IN  /\ Removable(g, p)
         /\ fanins' = [fanins EXCEPT ![g][p] = NULL]
         /\ fanouts' = [fanouts EXCEPT ![fanins[g][p]][<<g, p>>] = @ - 1]
  /\ call' = [name |-> "remove", gate |-> call.gate, pin |-> call.pin + 1]
  /\ UNCHANGED <<operation, previous, next, list, root_gates>>

RemoveFanouts_early ==
  /\ call.name = "remove" /\ call.pin + 1 >= PinCount(operation[call.gate])
  /\ fanins' = [g \in Cell |-> [p \in Pin |->
                  IF fanouts[call.gate][<<g, p>>] > 0 THEN NULL ELSE fanins[g][p]]]
  /\ fanouts' = [fanouts EXCEPT ![call.gate] = NoFanouts]
  /\ call' = [name |-> "remove_gate_from_list", gate |-> call.gate]
  /\ UNCHANGED <<operation, previous, next, list, root_gates>>
RemoveFanouts_one_way ==
  /\ call.name = "remove" /\ call.pin = PinCount(operation[call.gate])
  /\ fanouts' = [fanouts EXCEPT ![call.gate] = NoFanouts]
  /\ call' = [name |-> "remove_gate_from_list", gate |-> call.gate]
  /\ UNCHANGED <<operation, fanins, previous, next, list, root_gates>>

RemoveFanouts ==
  /\ call.name = "remove" /\ call.pin = PinCount(operation[call.gate])
  /\ fanins' = [g \in Cell |-> [p \in Pin |->
                  IF fanouts[call.gate][<<g, p>>] > 0 THEN NULL ELSE fanins[g][p]]]
  /\ fanouts' = [fanouts EXCEPT ![call.gate] = NoFanouts]
  /\ call' = [name |-> "remove_gate_from_list", gate |-> call.gate]
  /\ UNCHANGED <<operation, previous, next, list, root_gates>>

\* Fault: TAIL stays.
RemoveGateFromList_tail ==
  /\ call.name = "remove_gate_from_list"
  /\ LET g    == call.gate
         kind == ListOf(operation[g])
         p    == previous[g]
         n    == next[g]
     IN  /\ list' = [list EXCEPT ![kind].HEAD = IF p = NULL THEN n ELSE @,
                                 ![kind].SIZE = @ - 1]
         /\ next' = [m \in Cell |-> IF m = g THEN NULL ELSE IF m = p THEN n ELSE next[m]]
         /\ previous' = [m \in Cell |-> IF m = g THEN NULL ELSE IF m = n THEN p ELSE previous[m]]
         /\ root_gates' = root_gates \ {g}
         /\ operation' = [operation EXCEPT ![g] = "FREE"]
  /\ call' = Idle
  /\ UNCHANGED <<fanins, fanouts>>

\* remove_gate_from_list, which deletes the gate in the end.
RemoveGateFromList ==
  /\ call.name = "remove_gate_from_list"
  /\ LET g    == call.gate
         kind == ListOf(operation[g])
         l    == list[kind]
         p    == previous[g]
         n    == next[g]
     IN  /\ p # NULL /\ n = NULL => g = l.TAIL
         /\ p = NULL /\ n # NULL => g = l.HEAD
         /\ list' = [list EXCEPT ![kind] =
                       [HEAD |-> IF p = NULL THEN n ELSE l.HEAD,
                        TAIL |-> IF n = NULL THEN p ELSE l.TAIL,
                        SIZE |-> l.SIZE - 1]]
         /\ next' = [m \in Cell |-> IF m = g THEN NULL ELSE IF m = p THEN n ELSE next[m]]
         /\ previous' = [m \in Cell |-> IF m = g THEN NULL ELSE IF m = n THEN p ELSE previous[m]]
         /\ root_gates' = IF PinCount(operation[g]) = 0 THEN root_gates \ {g} ELSE root_gates
         /\ operation' = [operation EXCEPT ![g] = "FREE"]
  /\ call' = Idle
  /\ UNCHANGED <<fanins, fanouts>>

----------------------------------------------------------------------------

Call ==
  \E g \in Cell :
    \/ \E op \in Op : Create(g, op)
    \/ \E p \in Pin : RemoveFanin(g, p) \/ \E h \in Cell : AddFanin(g, p, h)
    \/ \E h \in Cell : ReplaceBy(g, h)
    \/ Remove(g)

Run == ReplaceOne \/ ReplaceReturn \/ RemoveOneFanin \/ RemoveFanouts \/ RemoveGateFromList

Next == Call \/ Run

\* A call that has begun runs to its end; callers need not call.
Spec == Init /\ [][Next]_vars /\ WF_vars(Run)

----------------------------------------------------------------------------
(* Properties.                                                             *)

\* The types; and pins that an operation does not have are not connected.
TypeOK ==
  /\ operation \in [Cell -> AllOps \cup {"ONE", "FREE"}]
  /\ fanins \in [Cell -> [Pin -> Cell \cup {NULL}]]
  /\ fanouts \in [Cell -> [Target -> Nat]]
  /\ previous \in [Cell -> Cell \cup {NULL}] /\ next \in [Cell -> Cell \cup {NULL}]
  /\ root_gates \subseteq Cell
  /\ call.name \in {"none", "replace_by", "remove", "remove_gate_from_list"}
  /\ list \in [Kind -> [HEAD : Cell \cup {NULL}, TAIL : Cell \cup {NULL}, SIZE : Nat]]

\* Both directions of every wire agree, also in the middle of a loop: a pin is
\* once in the fanout list of the gate that drives it and in no other.
Linkage ==
  \A h \in Cell, t \in Target :
    fanouts[h][t] = IF fanins[t[1]][t[2]] = h THEN 1 ELSE 0

\* No wire begins or ends at a gate that was deleted, or at a pin that the
\* operation does not have.
NoWireToDeleted ==
  \A g \in Cell, p \in Pin :
    fanins[g][p] # NULL =>
      fanins[g][p] \in Live /\ g \in Live /\ p < PinCount(operation[g])

\* The gates of kind k, and where the next pointers lead from the HEAD of its
\* list.
Members(k) == {g \in Live \ Const : ListOf(operation[g]) = k}
Walk(k) ==
  LET walk[i \in 0 .. Cardinality(Members(k))] ==
        IF i = 0 THEN list[k].HEAD
        ELSE IF walk[i - 1] = NULL THEN NULL ELSE next[walk[i - 1]]
  IN  walk

\* Each list, followed from HEAD, holds every gate of its kind once, ends at
\* TAIL, is SIZE long, and the previous pointers lead back.
ListIntegrity ==
  \A k \in Kind :
    LET l == list[k]
        walk == Walk(k)
    IN  /\ l.SIZE = Cardinality(Members(k))
        /\ {walk[i] : i \in 0 .. l.SIZE - 1} = Members(k)
        /\ walk[l.SIZE] = NULL
        /\ l.TAIL = IF l.SIZE = 0 THEN NULL ELSE walk[l.SIZE - 1]
        /\ \A i \in 0 .. l.SIZE - 1 :
             previous[walk[i]] = IF i = 0 THEN NULL ELSE walk[i - 1]

\* The copy constructor and the runner begin at m_root_gates: it holds exactly
\* the gates without fanin pins.
RootGates == root_gates = {g \in Live : PinCount(operation[g]) = 0}

\* What the loops over all gates walk over: the three lists and the set of
\* roots, and the types of what they hold.
ListsIntact == TypeOK /\ ListIntegrity /\ RootGates

\* Every call returns: the loop of replace_by() ends.
CallsReturn == call # Idle ~> call = Idle

\* Seen from outside, a call takes effect at once.  While replace_by() runs
\* the wires still to be moved count as moved, and a gate counts as removed
\* when remove() is called.
Removing == call.name \in {"remove", "remove_gate_from_list"}
SeenOperation ==
  [g \in Cell |-> IF Removing /\ g = call.gate THEN "FREE" ELSE operation[g]]
SeenFanins ==
  [g \in Cell |-> [p \in Pin |->
     IF Removing /\ (g = call.gate \/ fanins[g][p] = call.gate) THEN NULL
     ELSE IF call.name = "replace_by" /\ fanins[g][p] = call.gate THEN call.by
     ELSE fanins[g][p]]]
W == INSTANCE Wiring WITH Op <- AllOps, operation <- SeenOperation, fanins <- SeenFanins
\* The loops over wires implement the operations of Wiring, one step each.
ImplementsWiring == W!Spec
=============================================================================
