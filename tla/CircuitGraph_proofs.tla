------------------------ MODULE CircuitGraph_proofs ------------------------
(***************************************************************************)
(* Between any two iterations of the loops, for any number of gates and    *)
(* wires: the two directions of every wire agree, no wire leads to a gate  *)
(* that was freed, the three lists hold what lives, and a caller sees the  *)
(* one-step operations of Wiring.                                          *)
(***************************************************************************)
EXTENDS CircuitGraph, InductionFacts

\* What the loops know about the gate they work on.
CallOK ==
  /\ call.name = "replace_by" => call.gate \in Cell /\ call.by \in Cell /\ call.gate # call.by
  /\ call.name = "remove" => call.gate \in Cell /\ call.pin \in Nat
  /\ call.name = "remove_gate_from_list" => call.gate \in Cell

Wires ==
  /\ fanins \in [Cell -> [Pin -> Cell \cup {NULL}]]
  /\ fanouts \in [Cell -> [Target -> Nat]]

LinkInv == Wires /\ CallOK /\ Linkage

\* The constructor makes one wire, from ONE_GATE to ZERO_GATE, in both directions.
LEMMA InitLink == Init => LinkInv
<1> SUFFICES ASSUME Init PROVE LinkInv
  OBVIOUS
<1>1. Wires
  BY DEF Init, Wires, Cell, Const
<1>2. Linkage
  <2> SUFFICES ASSUME NEW h \in Cell, NEW t \in Target
               PROVE  fanouts[h][t] = IF fanins[t[1]][t[2]] = h THEN 1 ELSE 0
    BY DEF Linkage
  <2>1. t[1] \in Cell /\ t[2] \in Pin /\ t = <<t[1], t[2]>>
    BY DEF Target
  <2> QED BY <2>1, GraphAssumption DEF Init, Const
<1>3. CallOK
  BY DEF Init, CallOK, Idle
<1> QED BY <1>1, <1>2, <1>3 DEF LinkInv

\* How the operations change a wire, from fanins i and fanouts o to i2 and o2:
\* pin p of g is connected to b or to nothing from now on, and the fanout lists
\* follow.
Linked(i, o) == \A h \in Cell, t \in Target : o[h][t] = IF i[t[1]][t[2]] = h THEN 1 ELSE 0
Connected(i, i2, g, p, b) == i2 = [i EXCEPT ![g][p] = b]
Listed(o, o2, g, p, b) ==
  \A h \in Cell, t \in Target :
    o2[h][t] = IF t # <<g, p>> THEN o[h][t] ELSE IF h = b THEN 1 ELSE 0
Fanins == [Cell -> [Pin -> Cell \cup {NULL}]]

\* After such a change the directions agree again.
LEMMA OneWire ==
  ASSUME NEW i \in Fanins, NEW i2, NEW o, NEW o2,
         NEW g \in Cell, NEW p \in Pin, NEW b \in Cell \cup {NULL},
         Linked(i, o), Connected(i, i2, g, p, b), Listed(o, o2, g, p, b)
  PROVE  i2 \in Fanins /\ Linked(i2, o2)
<1>1. i2 \in Fanins
  BY DEF Fanins, Connected
<1>2. Linked(i2, o2)
  <2> SUFFICES ASSUME NEW h \in Cell, NEW t \in Target
               PROVE  o2[h][t] = IF i2[t[1]][t[2]] = h THEN 1 ELSE 0
    BY DEF Linked
  <2>1. t[1] \in Cell /\ t[2] \in Pin /\ t = <<t[1], t[2]>>
    BY DEF Target
  <2>2. i2[t[1]][t[2]] = IF t = <<g, p>> THEN b ELSE i[t[1]][t[2]]
    BY <2>1 DEF Fanins, Connected
  <2> QED BY <2>2 DEF Linked, Listed
<1> QED BY <1>1, <1>2

\* add_fanin: the pin was unconnected, so no list has it.
LEMMA AddFaninLink ==
  ASSUME LinkInv, NEW g \in Cell, NEW p \in Pin, NEW h \in Cell, AddFanin(g, p, h)
  PROVE  LinkInv'
<1>1. /\ fanins' = [fanins EXCEPT ![g][p] = h]
      /\ fanouts' = [fanouts EXCEPT ![h][<<g, p>>] = @ + 1]
      /\ fanins[g][p] = NULL /\ call' = call
  BY DEF AddFanin
<1>2. <<g, p>> \in Target /\ fanouts[h][<<g, p>>] = 0
  <2>1. <<g, p>> \in Target
    BY DEF Target
  <2> QED BY <2>1, <1>1, GraphAssumption DEF LinkInv, Linkage
<1>3. fanouts' \in [Cell -> [Target -> Nat]]
  BY <1>1, <1>2 DEF LinkInv, Wires
<1>4. \A k \in Cell, t \in Target :
        fanouts'[k][t] = IF t # <<g, p>> THEN fanouts[k][t] ELSE IF k = h THEN 1 ELSE 0
  <2> SUFFICES ASSUME NEW k \in Cell, NEW t \in Target
               PROVE  fanouts'[k][t] = IF t # <<g, p>> THEN fanouts[k][t] ELSE IF k = h THEN 1 ELSE 0
    OBVIOUS
  <2>1. CASE k = h
    BY <1>1, <1>2, <2>1 DEF LinkInv, Wires
  <2>2. CASE k # h
    <3>1. fanouts'[k][t] = fanouts[k][t]
      BY <1>1, <2>2 DEF LinkInv, Wires
    <3>2. fanouts[k][<<g, p>>] = 0
      BY <1>1, <1>2, GraphAssumption DEF LinkInv, Linkage
    <3> QED BY <2>2, <3>1, <3>2
  <2> QED BY <2>1, <2>2
<1>5. Wires' /\ Linkage'
  <2>1. fanins \in Fanins /\ Linked(fanins, fanouts)
    BY DEF LinkInv, Wires, Linkage, Linked, Fanins
  <2>2. h \in Cell \cup {NULL}
    OBVIOUS
  <2>3. Connected(fanins, fanins', g, p, h)
    BY <1>1 DEF Connected
  <2>4. Listed(fanouts, fanouts', g, p, h)
    BY <1>4 DEF Listed
  <2>5. fanins' \in Fanins /\ Linked(fanins', fanouts')
    BY <2>1, <2>2, <2>3, <2>4, OneWire
  <2> QED BY <2>5, <1>3 DEF Wires, Linkage, Linked, Fanins
<1>6. CallOK'
  BY <1>1 DEF LinkInv, CallOK
<1> QED BY <1>5, <1>6 DEF LinkInv

\* remove_fanin, called by itself or by remove().
LEMMA DisconnectLink ==
  ASSUME Wires, Linkage, NEW g \in Cell, NEW p \in Pin, Removable(g, p),
         fanins' = [fanins EXCEPT ![g][p] = NULL],
         fanouts' = [fanouts EXCEPT ![fanins[g][p]][<<g, p>>] = @ - 1]
  PROVE  Wires' /\ Linkage'
<1> DEFINE h == fanins[g][p]
<1>1. h \in Cell /\ <<g, p>> \in Target /\ fanouts[h][<<g, p>>] = 1
  <2>1. h \in Cell /\ <<g, p>> \in Target
    BY DEF Removable, Wires, Target
  <2> QED BY <2>1 DEF Linkage
<1>2. fanouts' \in [Cell -> [Target -> Nat]]
  BY <1>1 DEF Wires
<1>3. \A k \in Cell, t \in Target :
        fanouts'[k][t] = IF t # <<g, p>> THEN fanouts[k][t] ELSE IF k = NULL THEN 1 ELSE 0
  <2> SUFFICES ASSUME NEW k \in Cell, NEW t \in Target
               PROVE  fanouts'[k][t] = IF t # <<g, p>> THEN fanouts[k][t] ELSE 0
    BY GraphAssumption
  <2>1. CASE k = h
    BY <1>1, <2>1 DEF Wires
  <2>2. CASE k # h
    <3>1. fanouts'[k][t] = fanouts[k][t]
      BY <2>2 DEF Wires
    <3>2. fanouts[k][<<g, p>>] = 0
      BY <1>1, <2>2 DEF Linkage
    <3> QED BY <3>1, <3>2
  <2> QED BY <2>1, <2>2
<1>4. fanins \in Fanins /\ Linked(fanins, fanouts)
  BY DEF Wires, Linkage, Linked, Fanins
<1>5. NULL \in Cell \cup {NULL}
  OBVIOUS
<1>6. Connected(fanins, fanins', g, p, NULL) /\ Listed(fanouts, fanouts', g, p, NULL)
  BY <1>3 DEF Connected, Listed
<1>7. fanins' \in Fanins /\ Linked(fanins', fanouts')
  BY <1>4, <1>5, <1>6, OneWire
<1> QED BY <1>2, <1>7 DEF Wires, Linkage, Linked, Fanins

\* remove_fanin as a call of its own.
LEMMA RemoveFaninLink ==
  ASSUME LinkInv, NEW g \in Cell, NEW p \in Pin, RemoveFanin(g, p)
  PROVE  LinkInv'
<1>1. CallOK'
  BY DEF LinkInv, CallOK, RemoveFanin
<1>2. Wires' /\ Linkage'
  BY DisconnectLink DEF LinkInv, RemoveFanin
<1> QED BY <1>1, <1>2 DEF LinkInv

\* One iteration of the fanin loop of remove().
LEMMA RemoveOneFaninLink == LinkInv /\ RemoveOneFanin => LinkInv'
<1> SUFFICES ASSUME LinkInv, RemoveOneFanin PROVE LinkInv'
  OBVIOUS
<1> DEFINE g == call.gate
           p == call.pin
<1>1. /\ call.name = "remove" /\ p < PinCount(operation[g])
      /\ Removable(g, p)
      /\ fanins' = [fanins EXCEPT ![g][p] = NULL]
      /\ fanouts' = [fanouts EXCEPT ![fanins[g][p]][<<g, p>>] = @ - 1]
      /\ call' = [name |-> "remove", gate |-> g, pin |-> p + 1]
  BY DEF RemoveOneFanin
<1>2. g \in Cell /\ p \in Nat
  BY <1>1 DEF LinkInv, CallOK
<1>3. p \in Pin
  BY <1>1, <1>2 DEF PinCount, Pin
<1>4. Wires' /\ Linkage'
  BY <1>1, <1>2, <1>3, DisconnectLink DEF LinkInv
<1>5. CallOK'
  BY <1>1, <1>2 DEF CallOK
<1> QED BY <1>4, <1>5 DEF LinkInv

\* One iteration of replace_by(): a pin leaves one list and enters another.
LEMMA ReplaceOneLink == LinkInv /\ ReplaceOne => LinkInv'
<1> SUFFICES ASSUME LinkInv, ReplaceOne PROVE LinkInv'
  OBVIOUS
<1>1. call.name = "replace_by" /\ call' = call
  BY DEF ReplaceOne
<1>2. PICK t \in Target :
        /\ fanouts[call.gate][t] > 0
        /\ Removable(t[1], t[2])
        /\ fanins' = [fanins EXCEPT ![t[1]][t[2]] = call.by]
        /\ LET taken == [fanouts EXCEPT ![fanins[t[1]][t[2]]][t] = @ - 1]
           IN  fanouts' = [taken EXCEPT ![call.by][t] = @ + 1]
  BY DEF ReplaceOne
<1> DEFINE a == call.gate
           b == call.by
<1>3. a \in Cell /\ b \in Cell /\ a # b /\ t[1] \in Cell /\ t[2] \in Pin /\ t = <<t[1], t[2]>>
  BY <1>1 DEF LinkInv, CallOK, Target
<1>4. fanins[t[1]][t[2]] = a /\ fanouts[a][t] = 1 /\ fanouts[b][t] = 0
  BY <1>2, <1>3 DEF LinkInv, Linkage
<1> DEFINE taken == [fanouts EXCEPT ![a][t] = @ - 1]
<1>5. fanouts' = [taken EXCEPT ![b][t] = @ + 1]
  BY <1>2, <1>4
<1>6. /\ taken \in [Cell -> [Target -> Nat]]
      /\ taken[a] = [fanouts[a] EXCEPT ![t] = 0]
      /\ \A k \in Cell : k # a => taken[k] = fanouts[k]
  BY <1>3, <1>4 DEF LinkInv, Wires
<1>7. taken[b][t] = 0
  BY <1>3, <1>4, <1>6
<1> HIDE DEF taken
<1>8. /\ fanouts' \in [Cell -> [Target -> Nat]]
      /\ fanouts'[b] = [taken[b] EXCEPT ![t] = 1]
      /\ \A k \in Cell : k # b => fanouts'[k] = taken[k]
  BY <1>3, <1>5, <1>6, <1>7
<1>9. \A k \in Cell, u \in Target :
        fanouts'[k][u] = IF u # t THEN fanouts[k][u] ELSE IF k = b THEN 1 ELSE 0
  <2> SUFFICES ASSUME NEW k \in Cell, NEW u \in Target
               PROVE  fanouts'[k][u] = IF u # t THEN fanouts[k][u] ELSE IF k = b THEN 1 ELSE 0
    OBVIOUS
  <2>1. CASE k = a
    BY <1>3, <1>6, <1>8, <2>1 DEF LinkInv, Wires
  <2>2. CASE k = b
    BY <1>3, <1>6, <1>8, <2>2 DEF LinkInv, Wires
  <2>3. CASE k # a /\ k # b
    <3>1. fanouts[k][t] = 0
      BY <1>4, <2>3 DEF LinkInv, Linkage
    <3> QED BY <1>6, <1>8, <2>3, <3>1
  <2> QED BY <2>1, <2>2, <2>3
<1>10. Wires' /\ Linkage'
  <2>1. fanins \in Fanins /\ Linked(fanins, fanouts)
    BY DEF LinkInv, Wires, Linkage, Linked, Fanins
  <2>2. t[1] \in Cell /\ t[2] \in Pin /\ b \in Cell \cup {NULL}
    BY <1>3
  <2>3. Listed(fanouts, fanouts', t[1], t[2], b)
    BY <1>3, <1>9 DEF Listed
  <2>4. Connected(fanins, fanins', t[1], t[2], b)
    BY <1>2 DEF Connected
  <2>5. fanins' \in Fanins /\ Linked(fanins', fanouts')
    BY <2>1, <2>2, <2>3, <2>4, OneWire
  <2> QED BY <2>5, <1>8 DEF Wires, Linkage, Linked, Fanins
<1>11. CallOK'
  BY <1>1 DEF LinkInv, CallOK
<1> QED BY <1>10, <1>11 DEF LinkInv

\* remove_fanouts: every pin of the list loses its driver, and no other pin does.
LEMMA RemoveFanoutsLink == LinkInv /\ RemoveFanouts => LinkInv'
<1> SUFFICES ASSUME LinkInv, RemoveFanouts PROVE LinkInv'
  OBVIOUS
<1> DEFINE g == call.gate
<1>1. /\ call.name = "remove"
      /\ fanins' = [k \in Cell |-> [p \in Pin |->
                      IF fanouts[g][<<k, p>>] > 0 THEN NULL ELSE fanins[k][p]]]
      /\ fanouts' = [fanouts EXCEPT ![g] = NoFanouts]
      /\ call' = [name |-> "remove_gate_from_list", gate |-> g]
  BY DEF RemoveFanouts
<1>2. g \in Cell
  BY <1>1 DEF LinkInv, CallOK
<1>3. Wires'
  BY <1>1, <1>2 DEF LinkInv, Wires, NoFanouts
<1>4. Linkage'
  <2> SUFFICES ASSUME NEW h \in Cell, NEW t \in Target
               PROVE  fanouts'[h][t] = IF fanins'[t[1]][t[2]] = h THEN 1 ELSE 0
    BY DEF Linkage
  <2>1. t[1] \in Cell /\ t[2] \in Pin /\ t = <<t[1], t[2]>> /\ h # NULL
    BY GraphAssumption DEF Target
  <2>2. fanins'[t[1]][t[2]] = IF fanouts[g][t] > 0 THEN NULL ELSE fanins[t[1]][t[2]]
    BY <1>1, <2>1
  <2>3. CASE h = g
    BY <1>1, <1>2, <2>1, <2>2, <2>3 DEF LinkInv, Linkage, Wires, NoFanouts
  <2>4. CASE h # g
    <3>1. fanouts'[h][t] = fanouts[h][t]
      BY <1>1, <1>2, <2>4 DEF LinkInv, Wires
    <3> QED BY <1>2, <2>1, <2>2, <2>4, <3>1 DEF LinkInv, Linkage
  <2> QED BY <2>3, <2>4
<1>5. CallOK'
  BY <1>1, <1>2 DEF CallOK
<1> QED BY <1>3, <1>4, <1>5 DEF LinkInv

\* The steps that change no wire.
LEMMA QuietLink ==
  ASSUME LinkInv, UNCHANGED <<fanins, fanouts>>, CallOK'
  PROVE  LinkInv'
  BY DEF LinkInv, Wires, Linkage

\* Every step keeps the directions together.
LEMMA StepLink == LinkInv /\ [Next]_vars => LinkInv'
<1> SUFFICES ASSUME LinkInv, [Next]_vars PROVE LinkInv'
  OBVIOUS
<1>1. ASSUME NEW g \in Cell, NEW op \in Op, Create(g, op) PROVE LinkInv'
  BY <1>1, QuietLink DEF Create, LinkInv, CallOK
<1>2. ASSUME NEW g \in Cell, NEW p \in Pin, RemoveFanin(g, p) PROVE LinkInv'
  BY <1>2, RemoveFaninLink
<1>3. ASSUME NEW g \in Cell, NEW p \in Pin, NEW h \in Cell, AddFanin(g, p, h) PROVE LinkInv'
  BY <1>3, AddFaninLink
<1>4. ASSUME NEW g \in Cell, NEW h \in Cell, ReplaceBy(g, h) PROVE LinkInv'
  BY <1>4, QuietLink DEF ReplaceBy, LinkInv, CallOK
<1>5. ASSUME NEW g \in Cell, Remove(g) PROVE LinkInv'
  BY <1>5, QuietLink DEF Remove, LinkInv, CallOK
<1>6. CASE ReplaceOne
  BY <1>6, ReplaceOneLink
<1>7. CASE ReplaceReturn
  BY <1>7, QuietLink DEF ReplaceReturn, CallOK, Idle
<1>8. CASE RemoveOneFanin
  BY <1>8, RemoveOneFaninLink
<1>9. CASE RemoveFanouts
  BY <1>9, RemoveFanoutsLink
<1>10. CASE RemoveGateFromList
  BY <1>10, QuietLink DEF RemoveGateFromList, CallOK, Idle
<1>11. CASE UNCHANGED vars
  BY <1>11, QuietLink DEF vars, LinkInv, CallOK
<1> QED BY <1>1, <1>2, <1>3, <1>4, <1>5, <1>6, <1>7, <1>8, <1>9, <1>10, <1>11 DEF Next, Call, Run

\* Between any two iterations of any loop, and for every number of gates, each
\* wire is once in the fanout list of its driver, and no list has another.
THEOREM LinkageCorrect == Spec => []Linkage
<1>1. Init => LinkInv
  BY InitLink
<1>2. LinkInv => Linkage
  BY DEF LinkInv
<1> QED BY <1>1, <1>2, StepLink, PTL DEF Spec

----------------------------------------------------------------------------
(* Gates that are deleted.                                                 *)

\* The gates of the constructor stay what they are.
Constants ==
  /\ operation \in [Cell -> AllOps \cup {"ONE", "FREE"}]
  /\ operation[ONE_GATE] = "ONE" /\ operation[ZERO_GATE] = "NOT"

\* How far a call is: replace_by() has two gates of the circuit; remove() has
\* disconnected the pins below call.pin; and when it comes to take its gate off
\* the list, no wire begins or ends there.
Progress ==
  /\ call.name \in {"none", "replace_by", "remove", "remove_gate_from_list"}
  /\ call.name = "replace_by" => call.gate \in Live \ {ONE_GATE} /\ call.by \in Live
  /\ call.name = "remove" =>
       /\ call.gate \in Live \ Const /\ call.pin <= PinCount(operation[call.gate])
       /\ \A p \in Pin : p < call.pin => fanins[call.gate][p] = NULL
  /\ call.name = "remove_gate_from_list" =>
       /\ call.gate \in Live \ Const
       /\ \A p \in Pin : fanins[call.gate][p] = NULL
       /\ \A g \in Cell, p \in Pin : fanins[g][p] # call.gate

WireInv == LinkInv /\ Constants /\ Progress /\ NoWireToDeleted /\ RootGates

\* The constructor's two gates satisfy the invariant of the wires.
LEMMA InitWires == Init => WireInv
<1> SUFFICES ASSUME Init PROVE WireInv
  OBVIOUS
<1>1. ONE_GATE \in Cell /\ ZERO_GATE \in Cell /\ ONE_GATE # ZERO_GATE /\ 0 \in Pin
  BY GraphAssumption DEF Cell, Const, Pin
<1>2. \A g \in Cell : operation[g] = IF g = ONE_GATE THEN "ONE"
                                     ELSE IF g = ZERO_GATE THEN "NOT" ELSE "FREE"
  BY DEF Init
<1>3. Live = {ONE_GATE, ZERO_GATE}
  BY <1>1, <1>2 DEF Live
<1>4. Constants
  BY <1>1, <1>2 DEF Constants, Init, AllOps
<1>5. Progress
  BY DEF Init, Idle, Progress
<1>6. NoWireToDeleted
  BY <1>1, <1>2, <1>3 DEF NoWireToDeleted, Init, PinCount
<1>7. RootGates
  BY <1>1, <1>2, <1>3 DEF RootGates, Init, PinCount
<1> QED BY <1>4, <1>5, <1>6, <1>7, InitLink DEF WireInv

\* A step that makes and deletes no gate leaves the constants and the roots.
LEMMA SameGates ==
  ASSUME WireInv, UNCHANGED <<operation, root_gates>>
  PROVE  Constants' /\ RootGates' /\ Live' = Live
  BY DEF WireInv, Constants, RootGates, Live

\* A new gate has no wires yet: it was made where none lived.
LEMMA CreateWires ==
  ASSUME WireInv, LinkInv', NEW g \in Cell, NEW op \in Op, Create(g, op)
  PROVE  WireInv'
<1>1. /\ operation[g] = "FREE" /\ operation' = [operation EXCEPT ![g] = op]
      /\ root_gates' = IF PinCount(op) = 0 THEN root_gates \cup {g} ELSE root_gates
      /\ UNCHANGED <<fanins, fanouts, call>> /\ call = Idle
  BY DEF Create
<1>2. op \in AllOps /\ op # "FREE"
  BY GraphAssumption DEF AllOps
<1>3. /\ Live' = Live \cup {g} /\ g \notin Live
      /\ \A h \in Cell : h # g => operation'[h] = operation[h]
      /\ operation'[g] = op
  BY <1>1, <1>2 DEF Live, WireInv, Constants
<1>4. Constants'
  BY <1>1, <1>2 DEF WireInv, Constants, Cell, Const
<1>5. Progress'
  BY <1>1 DEF Progress, Idle
<1>6. NoWireToDeleted'
  BY <1>1, <1>3 DEF WireInv, NoWireToDeleted, Live
<1>7. RootGates'
  BY <1>1, <1>3 DEF WireInv, RootGates, Live
<1> QED BY <1>4, <1>5, <1>6, <1>7 DEF WireInv

\* The calls that connect and disconnect one pin.
LEMMA AddFaninWires ==
  ASSUME WireInv, LinkInv', NEW g \in Cell, NEW p \in Pin, NEW h \in Cell, AddFanin(g, p, h)
  PROVE  WireInv'
<1>1. /\ g \in Live /\ h \in Live /\ p < PinCount(operation[g])
      /\ fanins' = [fanins EXCEPT ![g][p] = h]
      /\ call = Idle /\ UNCHANGED <<operation, root_gates, call>>
  BY DEF AddFanin
<1>2. Constants' /\ RootGates' /\ Live' = Live
  BY <1>1, SameGates
<1>3. Progress'
  BY <1>1 DEF Progress, Idle
<1>4. NoWireToDeleted'
  BY <1>1, <1>2 DEF NoWireToDeleted, WireInv, LinkInv, Wires
<1> QED BY <1>2, <1>3, <1>4 DEF WireInv

\* remove_fanin() disconnects a pin of a gate that lives.
LEMMA RemoveFaninWires ==
  ASSUME WireInv, LinkInv', NEW g \in Cell, NEW p \in Pin, RemoveFanin(g, p)
  PROVE  WireInv'
<1>1. /\ fanins' = [fanins EXCEPT ![g][p] = NULL]
      /\ call = Idle /\ UNCHANGED <<operation, root_gates, call>>
  BY DEF RemoveFanin
<1>2. Constants' /\ RootGates' /\ Live' = Live
  BY <1>1, SameGates
<1>3. Progress'
  BY <1>1 DEF Progress, Idle
<1>4. NoWireToDeleted'
  BY <1>1, <1>2 DEF NoWireToDeleted, WireInv, LinkInv, Wires
<1> QED BY <1>2, <1>3, <1>4 DEF WireInv

\* The pins that replace_by() moves go to a gate of the circuit.
LEMMA ReplaceOneWires ==
  ASSUME WireInv, LinkInv', ReplaceOne
  PROVE  WireInv'
<1>1. call.name = "replace_by" /\ UNCHANGED <<operation, root_gates, call>>
  BY DEF ReplaceOne
<1>2. PICK t \in Target :
        Removable(t[1], t[2]) /\ fanins' = [fanins EXCEPT ![t[1]][t[2]] = call.by]
  BY DEF ReplaceOne
<1>3. t[1] \in Cell /\ t[2] \in Pin /\ fanins[t[1]][t[2]] # NULL
  BY <1>2 DEF Target, Removable
<1>4. Constants' /\ RootGates' /\ Live' = Live
  BY <1>1, SameGates
<1>5. call.by \in Live
  BY <1>1 DEF WireInv, Progress
<1>6. Progress'
  BY <1>1, <1>4 DEF Progress, WireInv
<1>7. NoWireToDeleted'
  BY <1>1, <1>2, <1>3, <1>4, <1>5 DEF NoWireToDeleted, WireInv, LinkInv, Wires
<1> QED BY <1>4, <1>6, <1>7 DEF WireInv

\* remove() takes the pins from the first one on.
LEMMA RemoveOneFaninWires ==
  ASSUME WireInv, LinkInv', RemoveOneFanin
  PROVE  WireInv'
<1> DEFINE g == call.gate
           p == call.pin
<1>1. /\ call.name = "remove" /\ p < PinCount(operation[g])
      /\ fanins' = [fanins EXCEPT ![g][p] = NULL]
      /\ call' = [name |-> "remove", gate |-> g, pin |-> p + 1]
      /\ UNCHANGED <<operation, root_gates>>
  BY DEF RemoveOneFanin
<1>2. /\ g \in Live \ Const /\ g \in Cell /\ p \in Nat
      /\ \A q \in Pin : q < p => fanins[g][q] = NULL
  BY <1>1 DEF WireInv, Progress, LinkInv, CallOK
<1>3. PinCount(operation[g]) \in 0 .. 2 /\ p \in Pin
  BY <1>1, <1>2 DEF PinCount, Pin
<1>4. Constants' /\ RootGates' /\ Live' = Live
  BY <1>1, SameGates
<1>5. \A h \in Cell, q \in Pin : fanins'[h][q] = IF h = g /\ q = p THEN NULL ELSE fanins[h][q]
  BY <1>1, <1>2, <1>3 DEF WireInv, LinkInv, Wires
<1>6. Progress'
  <2>1. g \in Live' \ Const /\ p + 1 <= PinCount(operation'[g])
    BY <1>1, <1>2, <1>3, <1>4
  <2>2. \A q \in Pin : q < p + 1 => fanins'[g][q] = NULL
    BY <1>2, <1>3, <1>5 DEF Pin
  <2> QED BY <1>1, <2>1, <2>2 DEF Progress
<1>7. NoWireToDeleted'
  BY <1>1, <1>4, <1>5 DEF NoWireToDeleted, WireInv
<1> QED BY <1>4, <1>6, <1>7 DEF WireInv

\* All pins were disconnected, and no other gate reads the gate any more.
LEMMA RemoveFanoutsWires ==
  ASSUME WireInv, LinkInv', RemoveFanouts
  PROVE  WireInv'
<1> DEFINE g == call.gate
<1>1. /\ call.name = "remove" /\ call.pin = PinCount(operation[g])
      /\ fanins' = [k \in Cell |-> [p \in Pin |->
                      IF fanouts[g][<<k, p>>] > 0 THEN NULL ELSE fanins[k][p]]]
      /\ call' = [name |-> "remove_gate_from_list", gate |-> g]
      /\ UNCHANGED <<operation, root_gates>>
  BY DEF RemoveFanouts
<1>2. /\ g \in Live \ Const /\ g \in Cell
      /\ \A q \in Pin : q < PinCount(operation[g]) => fanins[g][q] = NULL
  BY <1>1 DEF WireInv, Progress, LinkInv, CallOK
<1>3. Constants' /\ RootGates' /\ Live' = Live
  BY <1>1, SameGates
<1>4. \A k \in Cell, q \in Pin : fanins'[k][q] = IF fanins[k][q] = g THEN NULL ELSE fanins[k][q]
  <2> SUFFICES ASSUME NEW k \in Cell, NEW q \in Pin
               PROVE  fanins'[k][q] = IF fanins[k][q] = g THEN NULL ELSE fanins[k][q]
    OBVIOUS
  <2>1. <<k, q>> \in Target /\ <<k, q>>[1] = k /\ <<k, q>>[2] = q
    BY DEF Target
  <2>2. fanouts[g][<<k, q>>] = IF fanins[k][q] = g THEN 1 ELSE 0
    BY <1>2, <2>1 DEF WireInv, LinkInv, Linkage
  <2> QED BY <1>1, <2>2
<1>5. Progress'
  <2>1. \A q \in Pin : fanins[g][q] = NULL
    BY <1>2 DEF WireInv, NoWireToDeleted
  <2>2. g # NULL
    BY <1>2, GraphAssumption
  <2> QED BY <1>1, <1>2, <1>3, <1>4, <2>1, <2>2 DEF Progress
<1>6. NoWireToDeleted'
  BY <1>1, <1>3, <1>4 DEF NoWireToDeleted, WireInv
<1> QED BY <1>3, <1>5, <1>6 DEF WireInv

\* The gate is deleted; no wire is lost with it.
LEMMA RemoveGateFromListWires ==
  ASSUME WireInv, LinkInv', RemoveGateFromList
  PROVE  WireInv'
<1> DEFINE g == call.gate
<1>1. /\ call.name = "remove_gate_from_list" /\ call' = Idle
      /\ root_gates' = IF PinCount(operation[g]) = 0 THEN root_gates \ {g} ELSE root_gates
      /\ operation' = [operation EXCEPT ![g] = "FREE"]
      /\ UNCHANGED <<fanins, fanouts>>
  BY DEF RemoveGateFromList
<1>2. /\ g \in Live \ Const /\ g \in Cell
      /\ \A p \in Pin : fanins[g][p] = NULL
      /\ \A k \in Cell, p \in Pin : fanins[k][p] # g
  BY <1>1 DEF WireInv, Progress, LinkInv, CallOK
<1>3. /\ Live' = Live \ {g} /\ operation'[g] = "FREE"
      /\ \A h \in Cell : h # g => operation'[h] = operation[h]
  BY <1>1, <1>2 DEF Live, WireInv, Constants
<1>4. Constants'
  BY <1>1, <1>2 DEF WireInv, Constants, Cell, Const
<1>5. Progress'
  BY <1>1 DEF Progress, Idle
<1>6. NoWireToDeleted'
  BY <1>1, <1>2, <1>3 DEF WireInv, NoWireToDeleted
<1>7. RootGates'
  BY <1>1, <1>2, <1>3 DEF WireInv, RootGates, Live
<1> QED BY <1>4, <1>5, <1>6, <1>7 DEF WireInv

\* Calls that begin or return, and stuttering.
LEMMA OtherWires ==
  ASSUME WireInv, LinkInv', UNCHANGED <<operation, fanins, root_gates>>, Progress'
  PROVE  WireInv'
<1>1. NoWireToDeleted'
  BY SameGates DEF WireInv, NoWireToDeleted
<1> QED BY <1>1, SameGates DEF WireInv

\* Every iteration of every loop keeps the invariant of the wires.
LEMMA StepWires == WireInv /\ [Next]_vars => WireInv'
<1> SUFFICES ASSUME WireInv, [Next]_vars PROVE WireInv'
  OBVIOUS
<1>0. LinkInv'
  BY StepLink DEF WireInv
<1>1. ASSUME NEW g \in Cell, NEW op \in Op, Create(g, op) PROVE WireInv'
  BY <1>0, <1>1, CreateWires
<1>2. ASSUME NEW g \in Cell, NEW p \in Pin, RemoveFanin(g, p) PROVE WireInv'
  BY <1>0, <1>2, RemoveFaninWires
<1>3. ASSUME NEW g \in Cell, NEW p \in Pin, NEW h \in Cell, AddFanin(g, p, h) PROVE WireInv'
  BY <1>0, <1>3, AddFaninWires
<1>4. ASSUME NEW g \in Cell, NEW h \in Cell, ReplaceBy(g, h) PROVE WireInv'
  <2>1. Live' = Live /\ UNCHANGED <<operation, fanins, root_gates>>
    BY <1>4 DEF ReplaceBy, Live
  <2>2. Progress'
    BY <1>4, <2>1 DEF ReplaceBy, Progress
  <2> QED BY <1>0, <2>1, <2>2, OtherWires
<1>5. ASSUME NEW g \in Cell, Remove(g) PROVE WireInv'
  <2>1. Live' = Live /\ UNCHANGED <<operation, fanins, root_gates>>
    BY <1>5 DEF Remove, Live
  <2>2. 0 <= PinCount(operation'[g]) /\ \A p \in Pin : ~(p < 0)
    BY DEF PinCount, Pin
  <2>3. Progress'
    BY <1>5, <2>1, <2>2 DEF Remove, Progress
  <2> QED BY <1>0, <2>1, <2>3, OtherWires
<1>6. CASE ReplaceOne
  BY <1>0, <1>6, ReplaceOneWires
<1>7. CASE ReplaceReturn
  <2>1. Progress'
    BY <1>7 DEF ReplaceReturn, Progress, Idle
  <2> QED BY <1>0, <1>7, <2>1, OtherWires DEF ReplaceReturn
<1>8. CASE RemoveOneFanin
  BY <1>0, <1>8, RemoveOneFaninWires
<1>9. CASE RemoveFanouts
  BY <1>0, <1>9, RemoveFanoutsWires
<1>10. CASE RemoveGateFromList
  BY <1>0, <1>10, RemoveGateFromListWires
<1>11. CASE UNCHANGED vars
  <2>1. Progress'
    BY <1>11 DEF vars, WireInv, Progress, Live
  <2> QED BY <1>0, <1>11, <2>1, OtherWires DEF vars
<1> QED BY <1>1, <1>2, <1>3, <1>4, <1>5, <1>6, <1>7, <1>8, <1>9, <1>10, <1>11 DEF Next, Call, Run

\* No wire begins or ends at a deleted gate, in the middle of remove() neither.
THEOREM NoWireToDeletedCorrect == Spec => []NoWireToDeleted
<1>1. WireInv => NoWireToDeleted
  BY DEF WireInv
<1> QED BY <1>1, InitWires, StepWires, PTL DEF Spec

----------------------------------------------------------------------------
(* What a caller sees: Wiring.                                             *)

\* The mapping as an operator over the fanins i and the running call c, for the
\* states before and after a step.
SeenThrough(i, c) ==
  [g \in Cell |-> [p \in Pin |->
     IF /\ c.name \in {"remove", "remove_gate_from_list"}
        /\ g = c.gate \/ i[g][p] = c.gate THEN NULL
     ELSE IF c.name = "replace_by" /\ i[g][p] = c.gate THEN c.by
     ELSE i[g][p]]]

\* The mapping as an operator on the fanins and the running call, so that two
\* states can be compared.
LEMMA SeenFaninsIs ==
  SeenFanins = SeenThrough(fanins, call) /\ SeenFanins' = SeenThrough(fanins', call')
  BY DEF SeenFanins, SeenThrough, Removing

\* Between two calls a caller sees the circuit as it is.
LEMMA SeenIdle ==
  ASSUME NEW i \in Fanins, NEW c, c.name = "none"
  PROVE  SeenThrough(i, c) = i
  BY DEF SeenThrough, Fanins

\* While replace_by() runs, the readers of the gate read its replacement.
LEMMA SeenMoving ==
  ASSUME NEW i \in Fanins, NEW c, c.name = "replace_by"
  PROVE  SeenThrough(i, c) = [g \in Cell |-> [p \in Pin |-> IF i[g][p] = c.gate THEN c.by ELSE i[g][p]]]
  BY DEF SeenThrough

\* While a gate is being removed, its wires are gone already.
LEMMA SeenLeaving ==
  ASSUME NEW i \in Fanins, NEW c, c.name \in {"remove", "remove_gate_from_list"}
  PROVE  SeenThrough(i, c) =
           [g \in Cell |-> [p \in Pin |-> IF g = c.gate \/ i[g][p] = c.gate THEN NULL ELSE i[g][p]]]
  BY DEF SeenThrough

\* Both modules speak of the same addresses.
LEMMA SeenCells == W!Cell = Cell
  BY DEF W!Cell, Cell, Const

\* The steps of the loops change nothing that a caller sees.
SeenSame == UNCHANGED <<SeenOperation, SeenFanins>>

\* The constructor's circuit is the initial one of Wiring.
LEMMA InitSeen == Init => W!Init
<1> SUFFICES ASSUME Init PROVE W!Init
  OBVIOUS
<1>1. call.name = "none" /\ ~Removing
  BY DEF Init, Idle, Removing
<1>2. fanins \in Fanins
  BY InitLink DEF LinkInv, Wires, Fanins
<1>3. SeenFanins = fanins
  BY <1>1, <1>2, SeenFaninsIs, SeenIdle
<1>4. SeenOperation = operation
  BY <1>1 DEF SeenOperation, Init
<1> QED BY <1>3, <1>4, SeenCells DEF W!Init, Init

\* The calls that take effect in one step.
LEMMA CreateSeen ==
  ASSUME WireInv, WireInv', NEW g \in Cell, NEW op \in Op, Create(g, op)
  PROVE  W!Create(g, op)
<1>1. /\ call = Idle /\ call' = Idle /\ fanins' = fanins
      /\ operation[g] = "FREE" /\ operation' = [operation EXCEPT ![g] = op]
  BY DEF Create
<1>2. call.name = "none" /\ call'.name = "none" /\ ~Removing /\ ~Removing'
  BY <1>1 DEF Idle, Removing
<1>3. fanins \in Fanins /\ fanins' \in Fanins
  BY DEF WireInv, LinkInv, Wires, Fanins
<1>4. SeenFanins = fanins /\ SeenFanins' = fanins'
  BY <1>2, <1>3, SeenFaninsIs, SeenIdle
<1>5. SeenOperation = operation /\ SeenOperation' = operation'
  BY <1>2 DEF SeenOperation, WireInv, Constants
<1> QED BY <1>1, <1>4, <1>5 DEF W!Create

\* add_fanin() is Connect.
LEMMA AddFaninSeen ==
  ASSUME WireInv, WireInv', NEW g \in Cell, NEW p \in Pin, NEW h \in Cell, AddFanin(g, p, h)
  PROVE  W!Connect(g, p, h)
<1>1. /\ call = Idle /\ call' = Idle /\ operation' = operation
      /\ g \in Live /\ h \in Live /\ fanins[g][p] = NULL
      /\ fanins' = [fanins EXCEPT ![g][p] = h]
  BY DEF AddFanin
<1>2. call.name = "none" /\ call'.name = "none" /\ ~Removing /\ ~Removing'
  BY <1>1 DEF Idle, Removing
<1>3. fanins \in Fanins /\ fanins' \in Fanins
  BY DEF WireInv, LinkInv, Wires, Fanins
<1>4. SeenFanins = fanins /\ SeenFanins' = fanins'
  BY <1>2, <1>3, SeenFaninsIs, SeenIdle
<1>5. SeenOperation = operation /\ SeenOperation' = operation'
  BY <1>2 DEF SeenOperation, WireInv, Constants
<1>6. W!Live = Live
  BY <1>5, SeenCells DEF W!Live, Live
<1> QED BY <1>1, <1>4, <1>5, <1>6 DEF W!Connect

\* remove_fanin() is Disconnect.
LEMMA RemoveFaninSeen ==
  ASSUME WireInv, WireInv', NEW g \in Cell, NEW p \in Pin, RemoveFanin(g, p)
  PROVE  W!Disconnect(g, p)
<1>1. /\ call = Idle /\ call' = Idle /\ operation' = operation
      /\ fanins[g][p] # NULL
      /\ fanins' = [fanins EXCEPT ![g][p] = NULL]
  BY DEF RemoveFanin
<1>2. call.name = "none" /\ call'.name = "none" /\ ~Removing /\ ~Removing'
  BY <1>1 DEF Idle, Removing
<1>3. fanins \in Fanins /\ fanins' \in Fanins
  BY DEF WireInv, LinkInv, Wires, Fanins
<1>4. SeenFanins = fanins /\ SeenFanins' = fanins'
  BY <1>2, <1>3, SeenFaninsIs, SeenIdle
<1>5. SeenOperation = operation /\ SeenOperation' = operation'
  BY <1>2 DEF SeenOperation, WireInv, Constants
<1> QED BY <1>1, <1>4, <1>5 DEF W!Disconnect

\* replace_by() takes effect when it is called.
LEMMA ReplaceBySeen ==
  ASSUME WireInv, WireInv', NEW g \in Cell, NEW h \in Cell, ReplaceBy(g, h)
  PROVE  W!Replace(g, h)
<1>1. /\ call = Idle /\ g \in Live /\ h \in Live /\ g # h
      /\ call' = [name |-> "replace_by", gate |-> g, by |-> h]
      /\ UNCHANGED <<operation, fanins>>
  BY DEF ReplaceBy
<1>2. call.name = "none" /\ call'.name = "replace_by" /\ ~Removing /\ ~Removing'
  BY <1>1 DEF Idle, Removing
<1>3. fanins \in Fanins /\ fanins' \in Fanins
  BY DEF WireInv, LinkInv, Wires, Fanins
<1>4. SeenFanins = fanins
  BY <1>2, <1>3, SeenFaninsIs, SeenIdle
<1>5. SeenFanins' = [k \in Cell |-> [p \in Pin |-> IF fanins[k][p] = g THEN h ELSE fanins[k][p]]]
  <2>1. SeenFanins' = [k \in Cell |-> [p \in Pin |->
           IF fanins'[k][p] = call'.gate THEN call'.by ELSE fanins'[k][p]]]
    BY <1>2, <1>3, SeenFaninsIs, SeenMoving
  <2> QED BY <1>1, <2>1
<1>6. SeenOperation = operation /\ SeenOperation' = operation
  BY <1>1, <1>2 DEF SeenOperation, WireInv, Constants
<1>7. W!Live = Live
  BY <1>6, SeenCells DEF W!Live, Live
<1> QED BY <1>1, <1>4, <1>5, <1>6, <1>7, SeenCells DEF W!Replace, W!Redirected

\* Its iterations, and its return when no wire is left, are not seen.
LEMMA ReplaceOneSeen == WireInv /\ WireInv' /\ ReplaceOne => SeenSame
<1> SUFFICES ASSUME WireInv, WireInv', ReplaceOne PROVE SeenSame
  OBVIOUS
<1>1. call.name = "replace_by" /\ UNCHANGED <<operation, call>> /\ ~Removing /\ ~Removing'
  BY DEF ReplaceOne, Removing
<1>2. PICK t \in Target :
        /\ fanouts[call.gate][t] > 0
        /\ fanins' = [fanins EXCEPT ![t[1]][t[2]] = call.by]
  BY DEF ReplaceOne
<1>3. t[1] \in Cell /\ t[2] \in Pin /\ call.gate \in Cell /\ call.by # call.gate
  BY <1>1 DEF Target, WireInv, LinkInv, CallOK
<1>4. fanins[t[1]][t[2]] = call.gate
  BY <1>2, <1>3 DEF WireInv, LinkInv, Linkage
<1>5. fanins \in Fanins /\ fanins' \in Fanins
  BY DEF WireInv, LinkInv, Wires, Fanins
<1>6. SeenFanins' = SeenFanins
  <2>1. SeenFanins = [g \in Cell |-> [p \in Pin |->
           IF fanins[g][p] = call.gate THEN call.by ELSE fanins[g][p]]]
    BY <1>1, <1>5, SeenFaninsIs, SeenMoving
  <2>2. SeenFanins' = [g \in Cell |-> [p \in Pin |->
           IF fanins'[g][p] = call'.gate THEN call'.by ELSE fanins'[g][p]]]
    BY <1>1, <1>5, SeenFaninsIs, SeenMoving
  <2>3. ASSUME NEW g \in Cell, NEW p \in Pin
        PROVE  (IF fanins'[g][p] = call.gate THEN call.by ELSE fanins'[g][p])
               = (IF fanins[g][p] = call.gate THEN call.by ELSE fanins[g][p])
    BY <1>2, <1>3, <1>4, <1>5 DEF Fanins
  <2> QED BY <1>1, <2>1, <2>2, <2>3
<1>7. SeenOperation' = SeenOperation
  BY <1>1 DEF SeenOperation
<1> QED BY <1>6, <1>7 DEF SeenSame

\* replace_by() returns when no reader is left to move.
LEMMA ReplaceReturnSeen == WireInv /\ WireInv' /\ ReplaceReturn => SeenSame
<1> SUFFICES ASSUME WireInv, WireInv', ReplaceReturn PROVE SeenSame
  OBVIOUS
<1>1. /\ call.name = "replace_by" /\ call' = Idle /\ fanouts[call.gate] = NoFanouts
      /\ UNCHANGED <<operation, fanins>>
  BY DEF ReplaceReturn
<1>2. call'.name = "none" /\ ~Removing /\ ~Removing'
  BY <1>1 DEF Idle, Removing
<1>3. fanins \in Fanins /\ fanins' \in Fanins
  BY DEF WireInv, LinkInv, Wires, Fanins
<1>4. ASSUME NEW g \in Cell, NEW p \in Pin PROVE fanins[g][p] # call.gate
  <2>1. <<g, p>> \in Target /\ <<g, p>>[1] = g /\ <<g, p>>[2] = p /\ call.gate \in Cell
    BY <1>1 DEF Target, WireInv, LinkInv, CallOK
  <2>2. fanouts[call.gate][<<g, p>>] = 0
    BY <1>1, <2>1 DEF NoFanouts
  <2> QED BY <2>1, <2>2 DEF WireInv, LinkInv, Linkage
<1>5. SeenFanins = fanins
  <2>1. SeenFanins = [g \in Cell |-> [p \in Pin |->
           IF fanins[g][p] = call.gate THEN call.by ELSE fanins[g][p]]]
    BY <1>1, <1>3, SeenFaninsIs, SeenMoving
  <2> QED BY <1>3, <1>4, <2>1 DEF Fanins
<1>6. SeenFanins' = fanins
  BY <1>1, <1>2, <1>3, SeenFaninsIs, SeenIdle
<1>7. SeenOperation' = SeenOperation
  BY <1>1, <1>2 DEF SeenOperation
<1> QED BY <1>5, <1>6, <1>7 DEF SeenSame

\* remove() takes effect when it is called.
LEMMA RemoveSeen ==
  ASSUME WireInv, WireInv', NEW g \in Cell, Remove(g)
  PROVE  W!Remove(g)
<1>1. /\ call = Idle /\ g \in Live
      /\ call' = [name |-> "remove", gate |-> g, pin |-> 0]
      /\ UNCHANGED <<operation, fanins>>
  BY DEF Remove
<1>2. call.name = "none" /\ call'.name = "remove" /\ ~Removing /\ Removing' /\ call'.gate = g
  BY <1>1 DEF Idle, Removing
<1>3. fanins \in Fanins /\ fanins' \in Fanins
  BY DEF WireInv, LinkInv, Wires, Fanins
<1>4. SeenFanins = fanins
  BY <1>2, <1>3, SeenFaninsIs, SeenIdle
<1>5. SeenFanins' = [k \in Cell |-> [p \in Pin |-> IF k = g \/ fanins[k][p] = g THEN NULL ELSE fanins[k][p]]]
  <2>1. SeenFanins' = [k \in Cell |-> [p \in Pin |->
           IF k = call'.gate \/ fanins'[k][p] = call'.gate THEN NULL ELSE fanins'[k][p]]]
    BY <1>2, <1>3, SeenFaninsIs, SeenLeaving
  <2> QED BY <1>1, <1>2, <2>1
<1>6. SeenOperation = operation /\ SeenOperation' = [operation EXCEPT ![g] = "FREE"]
  BY <1>1, <1>2 DEF SeenOperation, WireInv, Constants
<1>7. W!Live = Live
  BY <1>6, SeenCells DEF W!Live, Live
<1>8. SeenFanins' = [W!Redirected(g, NULL) EXCEPT ![g] = [p \in Pin |-> NULL]]
  BY <1>4, <1>5, SeenCells DEF W!Redirected
<1> QED BY <1>1, <1>6, <1>7, <1>8 DEF W!Remove

\* Its iterations only touch wires that are not seen any more.
LEMMA RemoveOneFaninSeen == WireInv /\ WireInv' /\ RemoveOneFanin => SeenSame
<1> SUFFICES ASSUME WireInv, WireInv', RemoveOneFanin PROVE SeenSame
  OBVIOUS
<1> DEFINE g == call.gate
           p == call.pin
<1>1. /\ call.name = "remove" /\ p < PinCount(operation[g])
      /\ fanins' = [fanins EXCEPT ![g][p] = NULL]
      /\ call' = [name |-> "remove", gate |-> g, pin |-> p + 1]
      /\ operation' = operation
  BY DEF RemoveOneFanin
<1>2. call'.name = "remove" /\ call'.gate = g /\ Removing /\ Removing' /\ g \in Cell
  BY <1>1 DEF Removing, WireInv, LinkInv, CallOK
<1>3. fanins \in Fanins /\ fanins' \in Fanins
  BY DEF WireInv, LinkInv, Wires, Fanins
<1>4. SeenFanins' = SeenFanins
  <2>1. SeenFanins = [k \in Cell |-> [q \in Pin |->
           IF k = g \/ fanins[k][q] = g THEN NULL ELSE fanins[k][q]]]
    BY <1>1, <1>3, SeenFaninsIs, SeenLeaving
  <2>2. SeenFanins' = [k \in Cell |-> [q \in Pin |->
           IF k = g \/ fanins'[k][q] = g THEN NULL ELSE fanins'[k][q]]]
    BY <1>2, <1>3, SeenFaninsIs, SeenLeaving
  <2>3. \A k \in Cell, q \in Pin : k # g => fanins'[k][q] = fanins[k][q]
    BY <1>1, <1>2, <1>3 DEF Fanins
  <2> QED BY <2>1, <2>2, <2>3
<1>5. SeenOperation' = SeenOperation
  BY <1>1, <1>2 DEF SeenOperation
<1> QED BY <1>4, <1>5 DEF SeenSame

\* An iteration of remove_fanouts() changes only a gate that is seen as
\* removed.
LEMMA RemoveFanoutsSeen == WireInv /\ WireInv' /\ RemoveFanouts => SeenSame
<1> SUFFICES ASSUME WireInv, WireInv', RemoveFanouts PROVE SeenSame
  OBVIOUS
<1> DEFINE g == call.gate
<1>1. /\ call.name = "remove" /\ operation' = operation
      /\ fanins' = [k \in Cell |-> [p \in Pin |->
                      IF fanouts[g][<<k, p>>] > 0 THEN NULL ELSE fanins[k][p]]]
      /\ call' = [name |-> "remove_gate_from_list", gate |-> g]
  BY DEF RemoveFanouts
<1>2. /\ call'.name = "remove_gate_from_list" /\ call'.gate = g /\ Removing /\ Removing'
      /\ g \in Cell
  BY <1>1 DEF Removing, WireInv, LinkInv, CallOK
<1>3. fanins \in Fanins /\ fanins' \in Fanins
  BY DEF WireInv, LinkInv, Wires, Fanins
<1>4. ASSUME NEW k \in Cell, NEW q \in Pin
      PROVE  fanins'[k][q] = IF fanins[k][q] = g THEN NULL ELSE fanins[k][q]
  <2>1. <<k, q>> \in Target /\ <<k, q>>[1] = k /\ <<k, q>>[2] = q
    BY DEF Target
  <2>2. fanouts[g][<<k, q>>] = IF fanins[k][q] = g THEN 1 ELSE 0
    BY <1>2, <2>1 DEF WireInv, LinkInv, Linkage
  <2> QED BY <1>1, <2>2
<1>5. SeenFanins' = SeenFanins
  <2>1. SeenFanins = [k \in Cell |-> [q \in Pin |->
           IF k = g \/ fanins[k][q] = g THEN NULL ELSE fanins[k][q]]]
    BY <1>1, <1>3, SeenFaninsIs, SeenLeaving
  <2>2. SeenFanins' = [k \in Cell |-> [q \in Pin |->
           IF k = g \/ fanins'[k][q] = g THEN NULL ELSE fanins'[k][q]]]
    BY <1>2, <1>3, SeenFaninsIs, SeenLeaving
  <2> QED BY <1>4, <2>1, <2>2
<1>6. SeenOperation' = SeenOperation
  BY <1>1, <1>2 DEF SeenOperation
<1> QED BY <1>5, <1>6 DEF SeenSame

\* The gate is unlinked and freed as it is seen already.
LEMMA RemoveGateFromListSeen == WireInv /\ WireInv' /\ RemoveGateFromList => SeenSame
<1> SUFFICES ASSUME WireInv, WireInv', RemoveGateFromList PROVE SeenSame
  OBVIOUS
<1> DEFINE g == call.gate
<1>1. /\ call.name = "remove_gate_from_list" /\ call' = Idle /\ fanins' = fanins
      /\ operation' = [operation EXCEPT ![g] = "FREE"]
  BY DEF RemoveGateFromList
<1>2. /\ call'.name = "none" /\ Removing /\ ~Removing' /\ g \in Cell
      /\ \A p \in Pin : fanins[g][p] = NULL
      /\ \A k \in Cell, p \in Pin : fanins[k][p] # g
  BY <1>1 DEF Removing, Idle, WireInv, LinkInv, CallOK, Progress
<1>3. fanins \in Fanins /\ fanins' \in Fanins
  BY DEF WireInv, LinkInv, Wires, Fanins
<1>4. SeenFanins = fanins
  <2>1. SeenFanins = [k \in Cell |-> [q \in Pin |->
           IF k = g \/ fanins[k][q] = g THEN NULL ELSE fanins[k][q]]]
    BY <1>1, <1>3, SeenFaninsIs, SeenLeaving
  <2> QED BY <1>2, <1>3, <2>1 DEF Fanins
<1>5. SeenFanins' = fanins
  BY <1>1, <1>2, <1>3, SeenFaninsIs, SeenIdle
<1>6. SeenOperation' = SeenOperation
  BY <1>1, <1>2 DEF SeenOperation, WireInv, Constants
<1> QED BY <1>4, <1>5, <1>6 DEF SeenSame

\* Every step is one of Wiring, or none that a caller sees.
LEMMA StepSeen == WireInv /\ WireInv' /\ [Next]_vars => [W!Next]_<<SeenOperation, SeenFanins>>
<1> SUFFICES ASSUME WireInv, WireInv', [Next]_vars PROVE W!Next \/ SeenSame
  BY DEF SeenSame
<1>0. Op \subseteq AllOps
  BY GraphAssumption
<1>1. ASSUME NEW g \in Cell, NEW op \in Op, Create(g, op) PROVE W!Next
  BY <1>0, <1>1, CreateSeen, SeenCells DEF W!Next
<1>2. ASSUME NEW g \in Cell, NEW p \in Pin, RemoveFanin(g, p) PROVE W!Next
  BY <1>2, RemoveFaninSeen, SeenCells DEF W!Next
<1>3. ASSUME NEW g \in Cell, NEW p \in Pin, NEW h \in Cell, AddFanin(g, p, h) PROVE W!Next
  BY <1>3, AddFaninSeen, SeenCells DEF W!Next
<1>4. ASSUME NEW g \in Cell, NEW h \in Cell, ReplaceBy(g, h) PROVE W!Next
  BY <1>4, ReplaceBySeen, SeenCells DEF W!Next
<1>5. ASSUME NEW g \in Cell, Remove(g) PROVE W!Next
  BY <1>5, RemoveSeen, SeenCells DEF W!Next
<1>6. CASE Run
  BY <1>6, ReplaceOneSeen, ReplaceReturnSeen, RemoveOneFaninSeen, RemoveFanoutsSeen,
     RemoveGateFromListSeen DEF Run
<1>7. CASE UNCHANGED vars
  BY <1>7 DEF vars, SeenSame, SeenOperation, SeenFanins, Removing
<1> QED BY <1>1, <1>2, <1>3, <1>4, <1>5, <1>6, <1>7 DEF Next, Call

\* The loops over wires implement the atomic operations of Wiring: whatever is
\* called, a caller cannot tell that a wire is moved at a time.
THEOREM WiringImplemented == Spec => ImplementsWiring
<1>1. Spec => []WireInv
  BY InitWires, StepWires, PTL DEF Spec
<1>2. Spec => W!Init
  BY InitSeen, PTL DEF Spec
<1> QED BY <1>1, <1>2, StepSeen, PTL DEF Spec, ImplementsWiring, W!Spec

----------------------------------------------------------------------------
(* The three gate lists stay intact, for any number of gates: who follows  *)
(* the next pointers from HEAD meets every gate of the kind once and ends  *)
(* at TAIL.                                                                *)

----------------------------------------------------------------------------
(* A list in order.                                                        *)

\* o is the order of the gates S of a list l: a bijection, and the pointers nx
\* and pv follow it.
Chain(S, l, nx, pv, o, n) ==
  /\ n \in Nat /\ o \in [1 .. n -> S]
  /\ \A g \in S : \E i \in 1 .. n : o[i] = g
  /\ \A i, j \in 1 .. n : o[i] = o[j] => i = j
  /\ l = [HEAD |-> IF n = 0 THEN NULL ELSE o[1],
          TAIL |-> IF n = 0 THEN NULL ELSE o[n], SIZE |-> n]
  /\ \A i \in 1 .. n : /\ nx[o[i]] = IF i = n THEN NULL ELSE o[i + 1]
                       /\ pv[o[i]] = IF i = 1 THEN NULL ELSE o[i - 1]

\* The list and the pointers after g was put behind TAIL, and after it was taken out.
Appended(l, nx, pv, g, l2, nx2, pv2) ==
  /\ l2 = [HEAD |-> IF l.HEAD = NULL THEN g ELSE l.HEAD, TAIL |-> g, SIZE |-> l.SIZE + 1]
  /\ \A m \in Cell : nx2[m] = IF m = l.TAIL THEN g ELSE nx[m]
  /\ \A m \in Cell : pv2[m] = IF m = g THEN l.TAIL ELSE pv[m]

Dropped(l, nx, pv, g, l2, nx2, pv2) ==
  /\ l2 = [HEAD |-> IF pv[g] = NULL THEN nx[g] ELSE l.HEAD,
           TAIL |-> IF nx[g] = NULL THEN pv[g] ELSE l.TAIL, SIZE |-> l.SIZE - 1]
  /\ \A m \in Cell : nx2[m] = IF m = g THEN NULL ELSE IF m = pv[g] THEN nx[g] ELSE nx[m]
  /\ \A m \in Cell : pv2[m] = IF m = g THEN NULL ELSE IF m = nx[g] THEN pv[g] ELSE pv[m]

\* A list does not notice what happens to the pointers of other gates.
LEMMA ChainOther ==
  ASSUME NEW S, NEW l, NEW nx, NEW pv, NEW o, NEW n, Chain(S, l, nx, pv, o, n),
         NEW nx2, NEW pv2, \A g \in S : nx2[g] = nx[g] /\ pv2[g] = pv[g]
  PROVE  Chain(S, l, nx2, pv2, o, n)
  BY DEF Chain

\* A gate that is put behind TAIL.
LEMMA ChainAppend ==
  ASSUME NEW S \in SUBSET Cell, NEW l, NEW nx \in [Cell -> Cell \cup {NULL}],
         NEW pv \in [Cell -> Cell \cup {NULL}], NEW o, NEW n, Chain(S, l, nx, pv, o, n),
         NEW g \in Cell \ S, nx[g] = NULL,
         NEW l2, NEW nx2, NEW pv2, Appended(l, nx, pv, g, l2, nx2, pv2)
  PROVE  \E o2 : Chain(S \cup {g}, l2, nx2, pv2, o2, n + 1)
<1> USE DEF Appended
<1> DEFINE o2 == [i \in 1 .. n + 1 |-> IF i = n + 1 THEN g ELSE o[i]]
<1>1. /\ n \in Nat /\ o \in [1 .. n -> S] /\ NULL \notin Cell
      /\ l.HEAD = (IF n = 0 THEN NULL ELSE o[1]) /\ l.SIZE = n
      /\ l.TAIL = (IF n = 0 THEN NULL ELSE o[n])
  BY GraphAssumption DEF Chain
<1>2. /\ \A i \in 1 .. n : o2[i] = o[i] /\ o[i] \in S /\ o[i] \in Cell /\ o[i] # g
      /\ o2[n + 1] = g /\ n + 1 \in Nat /\ n + 1 # 0
  BY <1>1
<1>3. o2 \in [1 .. n + 1 -> S \cup {g}]
  BY <1>1
<1>4. \A h \in S \cup {g} : \E i \in 1 .. n + 1 : o2[i] = h
  <2>1. CASE n = 0
    BY <1>1, <1>2, <2>1 DEF Chain
  <2> QED BY <1>1, <1>2 DEF Chain
<1>5. \A i, j \in 1 .. n + 1 : o2[i] = o2[j] => i = j
  <2>1. \A i \in 1 .. n + 1 : i = n + 1 \/ i \in 1 .. n
    BY <1>1
  <2>2. \A i, j \in 1 .. n : o[i] = o[j] => i = j
    BY DEF Chain
  <2> HIDE DEF o2
  <2> QED BY <1>2, <2>1, <2>2
<1>6. l2
      = [HEAD |-> IF n + 1 = 0 THEN NULL ELSE o2[1],
         TAIL |-> IF n + 1 = 0 THEN NULL ELSE o2[n + 1], SIZE |-> n + 1]
  <2>1. (IF l.HEAD = NULL THEN g ELSE l.HEAD) = o2[1]
    <3>1. CASE n = 0
      BY <1>1, <1>2, <3>1
    <3>2. CASE n # 0
      <4>1. 1 \in 1 .. n
        BY <1>1, <3>2
      <4>2. o[1] # NULL
        BY <1>1, <1>2, <4>1
      <4> QED BY <1>1, <1>2, <3>2, <4>1, <4>2
    <3> QED BY <3>1, <3>2
  <2> QED BY <1>1, <1>2, <2>1
<1>7. ASSUME NEW i \in 1 .. n + 1
      PROVE  /\ nx2[o2[i]] = IF i = n + 1 THEN NULL ELSE o2[i + 1]
             /\ pv2[o2[i]] = IF i = 1 THEN NULL ELSE o2[i - 1]
  <2>1. CASE i = n + 1
    <3>1. nx2[g] = NULL
      <4>1. l.TAIL # g
        BY <1>1, <1>2
      <4> QED BY <4>1
    <3>2. pv2[g] = l.TAIL
      OBVIOUS
    <3>3. l.TAIL = IF i = 1 THEN NULL ELSE o2[i - 1]
      BY <1>1, <1>2, <2>1
    <3> QED BY <1>2, <2>1, <3>1, <3>2, <3>3
  <2>2. CASE i # n + 1
    <3>1. i \in 1 .. n /\ n # 0 /\ n \in 1 .. n /\ i + 1 \in 1 .. n + 1 /\ (i # 1 => i - 1 \in 1 .. n)
      BY <1>1, <2>2
    <3>2. o[i] \in Cell /\ o[i] # g /\ o2[i] = o[i] /\ l.TAIL = o[n]
      BY <1>1, <1>2, <3>1
    <3>3. pv2[o2[i]] = IF i = 1 THEN NULL ELSE o2[i - 1]
      <4>1. pv2[o[i]] = pv[o[i]]
        BY <3>2
      <4>2. pv[o[i]] = IF i = 1 THEN NULL ELSE o[i - 1]
        BY <3>1 DEF Chain
      <4> QED BY <1>2, <3>1, <3>2, <4>1, <4>2
    <3>4. nx2[o2[i]] = o2[i + 1]
      <4>1. CASE i = n
        <5>1. nx2[o[i]] = g
          BY <3>2, <4>1
        <5> QED BY <1>2, <3>2, <4>1, <5>1
      <4>2. CASE i # n
        <5>1. o[i] # o[n]
          BY <3>1, <4>2 DEF Chain
        <5>2. nx2[o[i]] = nx[o[i]]
          BY <3>2, <5>1
        <5>3. nx[o[i]] = o[i + 1]
          BY <3>1, <4>2 DEF Chain
        <5>4. i + 1 \in 1 .. n
          BY <3>1, <4>2
        <5> QED BY <1>2, <3>2, <5>2, <5>3, <5>4
      <4> QED BY <4>1, <4>2
    <3> QED BY <2>2, <3>3, <3>4
  <2> QED BY <2>1, <2>2
<1> HIDE DEF o2
<1>8. Chain(S \cup {g}, l2, nx2, pv2, o2, n + 1)
  BY <1>2, <1>3, <1>4, <1>5, <1>6, <1>7 DEF Chain
<1> QED BY <1>8

\* A gate that is taken out, wherever it is.
LEMMA ChainDrop ==
  ASSUME NEW S \in SUBSET Cell, NEW l, NEW nx \in [Cell -> Cell \cup {NULL}],
         NEW pv \in [Cell -> Cell \cup {NULL}], NEW o, NEW n, Chain(S, l, nx, pv, o, n),
         NEW g \in S, NEW l2, NEW nx2, NEW pv2, Dropped(l, nx, pv, g, l2, nx2, pv2)
  PROVE  /\ n - 1 \in Nat
         /\ \E o2 : Chain(S \ {g}, l2, nx2, pv2, o2, n - 1)
<1> USE DEF Dropped
<1>0. PICK j \in 1 .. n : o[j] = g
  BY DEF Chain
<1> DEFINE o2  == [i \in 1 .. n - 1 |-> IF i < j THEN o[i] ELSE o[i + 1]]
           at(i) == IF i < j THEN i ELSE i + 1
<1>1. /\ n \in Nat /\ n # 0 /\ o \in [1 .. n -> S] /\ NULL \notin Cell
      /\ l.HEAD = o[1] /\ l.SIZE = n /\ l.TAIL = o[n]
  BY GraphAssumption DEF Chain
<1>2. /\ \A i \in 1 .. n : o[i] \in S /\ o[i] \in Cell /\ o[i] # NULL
      /\ \A i, k \in 1 .. n : o[i] = o[k] => i = k
      /\ \A i \in 1 .. n : /\ nx[o[i]] = IF i = n THEN NULL ELSE o[i + 1]
                           /\ pv[o[i]] = IF i = 1 THEN NULL ELSE o[i - 1]
  BY <1>1 DEF Chain
<1>3. \A i \in 1 .. n - 1 : /\ at(i) \in 1 .. n /\ at(i) # j /\ o2[i] = o[at(i)]
                            /\ \A k \in 1 .. n - 1 : at(i) = at(k) => i = k
  BY <1>1
<1>4. o2 \in [1 .. n - 1 -> S \ {g}]
  BY <1>0, <1>1, <1>2, <1>3
<1>5. \A h \in S \ {g} : \E i \in 1 .. n - 1 : o2[i] = h
  <2> SUFFICES ASSUME NEW h \in S \ {g} PROVE \E i \in 1 .. n - 1 : o2[i] = h
    OBVIOUS
  <2>1. PICK i \in 1 .. n : o[i] = h
    BY DEF Chain
  <2>2. i # j
    BY <1>0, <2>1
  <2>3. CASE i < j
    <3>1. i \in 1 .. n - 1
      BY <1>1, <2>3
    <3> QED BY <2>1, <2>3, <3>1
  <2>4. CASE i > j
    <3>1. i - 1 \in 1 .. n - 1 /\ ~(i - 1 < j) /\ (i - 1) + 1 = i
      BY <1>1, <2>4
    <3> QED BY <2>1, <3>1
  <2>5. i \in Int /\ j \in Int
    OBVIOUS
  <2> QED BY <2>2, <2>3, <2>4, <2>5
<1>6. \A i, k \in 1 .. n - 1 : o2[i] = o2[k] => i = k
  BY <1>2, <1>3
<1>7. /\ nx[g] = IF j = n THEN NULL ELSE o[j + 1]
      /\ pv[g] = IF j = 1 THEN NULL ELSE o[j - 1]
      /\ g \in Cell
  BY <1>0, <1>2
<1>8. l2 = [HEAD |-> IF n - 1 = 0 THEN NULL ELSE o2[1],
            TAIL |-> IF n - 1 = 0 THEN NULL ELSE o2[n - 1], SIZE |-> n - 1]
  <2>1. (IF pv[g] = NULL THEN nx[g] ELSE l.HEAD) = IF n - 1 = 0 THEN NULL ELSE o2[1]
    <3>1. CASE j = 1
      <4>1. CASE n = 1
        BY <1>1, <1>7, <3>1, <4>1
      <4>2. CASE n # 1
        <5>1. 1 \in 1 .. n - 1 /\ j # n
          BY <1>1, <3>1, <4>2
        <5>2. o2[1] = o[2]
          BY <3>1, <5>1
        <5> QED BY <1>1, <1>7, <3>1, <4>2, <5>1, <5>2
      <4> QED BY <4>1, <4>2
    <3>2. CASE j # 1
      <4>1. n # 1 /\ j - 1 \in 1 .. n /\ 1 \in 1 .. n - 1
        BY <1>1, <3>2
      <4>2. pv[g] # NULL
        BY <1>2, <1>7, <3>2, <4>1
      <4>3. o2[1] = o[1]
        BY <1>1, <3>2, <4>1
      <4> QED BY <1>1, <4>1, <4>2, <4>3
    <3> QED BY <3>1, <3>2
  <2>2. (IF nx[g] = NULL THEN pv[g] ELSE l.TAIL) = IF n - 1 = 0 THEN NULL ELSE o2[n - 1]
    <3>1. CASE j = n
      <4>1. CASE n = 1
        BY <1>1, <1>7, <3>1, <4>1
      <4>2. CASE n # 1
        <5>1. n - 1 \in 1 .. n - 1 /\ j # 1 /\ n - 1 < j
          BY <1>1, <3>1, <4>2
        <5>2. o2[n - 1] = o[n - 1]
          BY <3>1, <5>1
        <5> QED BY <1>1, <1>7, <3>1, <4>2, <5>1, <5>2
      <4> QED BY <4>1, <4>2
    <3>2. CASE j # n
      <4>1. n # 1 /\ j + 1 \in 1 .. n /\ n - 1 \in 1 .. n - 1 /\ ~(n - 1 < j)
        BY <1>1, <3>2
      <4>2. nx[g] # NULL
        BY <1>2, <1>7, <3>2, <4>1
      <4>3. o2[n - 1] = o[n]
        BY <1>1, <4>1
      <4> QED BY <1>1, <4>1, <4>2, <4>3
    <3> QED BY <3>1, <3>2
  <2> QED BY <1>1, <2>1, <2>2
<1>9. ASSUME NEW i \in 1 .. n - 1
      PROVE  /\ nx2[o2[i]] = IF i = n - 1 THEN NULL ELSE o2[i + 1]
             /\ pv2[o2[i]] = IF i = 1 THEN NULL ELSE o2[i - 1]
  <2>1. /\ at(i) \in 1 .. n /\ at(i) # j /\ o2[i] = o[at(i)] /\ o[at(i)] # g /\ o[at(i)] \in Cell
        /\ j \in Nat /\ i \in Nat
    BY <1>0, <1>1, <1>2, <1>3
  <2>2. /\ nx2[o2[i]] = IF o[at(i)] = pv[g] THEN nx[g] ELSE nx[o[at(i)]]
        /\ pv2[o2[i]] = IF o[at(i)] = nx[g] THEN pv[g] ELSE pv[o[at(i)]]
    BY <2>1
  <2>3. o[at(i)] = pv[g] <=> at(i) = j - 1
    <3>1. CASE j = 1
      BY <1>2, <1>7, <2>1, <3>1
    <3>2. CASE j # 1
      <4>1. j - 1 \in 1 .. n
        BY <1>1, <3>2
      <4> QED BY <1>2, <1>7, <2>1, <3>2, <4>1
    <3> QED BY <3>1, <3>2
  <2>4. o[at(i)] = nx[g] <=> at(i) = j + 1
    <3>1. CASE j = n
      BY <1>1, <1>2, <1>7, <2>1, <3>1
    <3>2. CASE j # n
      <4>1. j + 1 \in 1 .. n
        BY <1>1, <3>2
      <4> QED BY <1>2, <1>7, <2>1, <3>2, <4>1
    <3> QED BY <3>1, <3>2
  <2>a. (i # n - 1 => i + 1 \in 1 .. n - 1) /\ (i # 1 => i - 1 \in 1 .. n - 1)
    BY <1>1
  <2>5. i # n - 1 => o2[i + 1] = o[at(i + 1)] /\ at(i + 1) \in 1 .. n
    BY <1>3, <2>a
  <2>6. i # 1 => o2[i - 1] = o[at(i - 1)] /\ at(i - 1) \in 1 .. n
    BY <1>3, <2>a
  <2>7. nx2[o2[i]] = IF i = n - 1 THEN NULL ELSE o2[i + 1]
    <3>1. CASE at(i) = j - 1
      <4>1. i = j - 1 /\ (i = n - 1 <=> j = n) /\ at(i + 1) = j + 1
        BY <1>1, <2>1, <3>1
      <4> QED BY <1>7, <2>2, <2>3, <2>5, <3>1, <4>1
    <3>2. CASE at(i) # j - 1
      <4>1. nx[o[at(i)]] = IF at(i) = n THEN NULL ELSE o[at(i) + 1]
        BY <1>2, <2>1
      <4>2. (i = n - 1 <=> at(i) = n) /\ (i # n - 1 => at(i + 1) = at(i) + 1)
        BY <1>1, <2>1, <3>2
      <4> QED BY <2>2, <2>3, <2>5, <3>2, <4>1, <4>2
    <3> QED BY <3>1, <3>2
  <2>8. pv2[o2[i]] = IF i = 1 THEN NULL ELSE o2[i - 1]
    <3>1. CASE at(i) = j + 1
      <4>1. i = j /\ (i = 1 <=> j = 1) /\ (i # 1 => at(i - 1) = j - 1)
        BY <1>1, <2>1, <3>1
      <4> QED BY <1>7, <2>2, <2>4, <2>6, <3>1, <4>1
    <3>2. CASE at(i) # j + 1
      <4>1. pv[o[at(i)]] = IF at(i) = 1 THEN NULL ELSE o[at(i) - 1]
        BY <1>2, <2>1
      <4>2. (i = 1 <=> at(i) = 1) /\ (i # 1 => at(i - 1) = at(i) - 1)
        BY <1>1, <2>1, <3>2
      <4> QED BY <2>2, <2>4, <2>6, <3>2, <4>1, <4>2
    <3> QED BY <3>1, <3>2
  <2> QED BY <2>7, <2>8
<1>10. n - 1 \in Nat
  BY <1>1
<1> HIDE DEF o2
<1>11. Chain(S \ {g}, l2, nx2, pv2, o2, n - 1)
  BY <1>4, <1>5, <1>6, <1>8, <1>9, <1>10 DEF Chain
<1> QED BY <1>10, <1>11

----------------------------------------------------------------------------
(* The invariant.                                                          *)

InOrder(k) == \E n \in Nat : \E o : Chain(Members(k), list[k], next, previous, o, n)

\* Every list has an order, and gates that are on no list have no neighbours:
\* the next gate made at their address begins without.
ListInv ==
  /\ previous \in [Cell -> Cell \cup {NULL}] /\ next \in [Cell -> Cell \cup {NULL}]
  /\ DOMAIN list = Kind /\ list = [k \in Kind |-> list[k]]
  /\ \A k \in Kind : InOrder(k)
  /\ \A g \in Cell \ (Live \ Const) : next[g] = NULL

AllInv == WireInv /\ ListInv

\* The members of a list are live gates.
LEMMA MembersAreCells == \A k \in Kind : Members(k) \subseteq Cell /\ Members(k) \subseteq Live \ Const
  BY DEF Members, Live

\* The lists are empty at first.
LEMMA InitLists == Init => ListInv
<1> SUFFICES ASSUME Init PROVE ListInv
  OBVIOUS
<1>1. Live \subseteq Const
  BY DEF Init, Live, Const
<1>2. \A k \in Kind : Members(k) = {}
  BY <1>1 DEF Members
<1>3. ASSUME NEW k \in Kind PROVE InOrder(k)
  <2>1. list[k] = [HEAD |-> NULL, TAIL |-> NULL, SIZE |-> 0]
    BY DEF Init
  <2>2. Chain({}, list[k], next, previous, [i \in 1 .. 0 |-> NULL], 0)
    BY <2>1 DEF Chain
  <2> QED BY <1>2, <2>2 DEF InOrder
<1>4. /\ previous \in [Cell -> Cell \cup {NULL}] /\ next \in [Cell -> Cell \cup {NULL}]
      /\ DOMAIN list = Kind /\ list = [k \in Kind |-> list[k]]
      /\ \A g \in Cell \ (Live \ Const) : next[g] = NULL
  BY DEF Init
<1> QED BY <1>3, <1>4 DEF ListInv

\* get_or_create_gate, create_input_gate, create_output_gate.
LEMMA CreateLists ==
  ASSUME AllInv, NEW g \in Cell, NEW op \in Op, Create(g, op)
  PROVE  ListInv'
<1> DEFINE kind == ListOf(op)
           l    == list[kind]
<1>1. /\ operation[g] = "FREE" /\ operation' = [operation EXCEPT ![g] = op]
      /\ list' = [list EXCEPT ![kind] =
                    [HEAD |-> IF l.HEAD = NULL THEN g ELSE l.HEAD,
                     TAIL |-> g, SIZE |-> l.SIZE + 1]]
      /\ previous' = [previous EXCEPT ![g] = l.TAIL]
      /\ next' = [n \in Cell |-> IF n = l.TAIL THEN g ELSE next[n]]
  BY DEF Create
<1>2. kind \in Kind
  BY DEF ListOf, Kind
<1>3. op # "FREE" /\ g \notin Live /\ g \notin Const /\ g \in Cell
  <2>1. op # "FREE"
    BY GraphAssumption DEF AllOps
  <2> QED BY <1>1, <2>1 DEF AllInv, WireInv, Constants, Live, Const
<1>4. Live' = Live \cup {g} /\ \A h \in Cell : h # g => operation'[h] = operation[h]
  BY <1>1, <1>3 DEF Live, AllInv, WireInv, Constants
<1>5. operation'[g] = op
  BY <1>1 DEF AllInv, WireInv, Constants
<1>6. \A k \in Kind : Members(k)' = IF k = kind THEN Members(k) \cup {g} ELSE Members(k)
  <2>1. \A h \in Live : h \in Cell /\ h # g
    BY <1>3 DEF Live
  <2> QED BY <1>3, <1>4, <1>5, <2>1 DEF Members
<1>7. \A k \in Kind : Members(k) \subseteq Cell /\ g \notin Members(k)
  BY <1>3, MembersAreCells
<1>8. next[g] = NULL
  BY <1>3 DEF AllInv, ListInv
<1>90. PICK n \in Nat : \E o : Chain(Members(kind), l, next, previous, o, n)
  BY <1>2 DEF AllInv, ListInv, InOrder
<1>9. PICK o : Chain(Members(kind), l, next, previous, o, n)
  BY <1>90
<1>10. l.TAIL \in Members(kind) \cup {NULL}
  BY <1>9 DEF Chain
<1>11. NULL \notin Cell
  BY GraphAssumption
<1>12. InOrder(kind)'
  <2>1. /\ next \in [Cell -> Cell \cup {NULL}] /\ previous \in [Cell -> Cell \cup {NULL}]
        /\ Members(kind) \in SUBSET Cell /\ g \in Cell \ Members(kind)
    BY <1>2, <1>7 DEF AllInv, ListInv
  <2>2. list'[kind] = [HEAD |-> IF l.HEAD = NULL THEN g ELSE l.HEAD,
                       TAIL |-> g, SIZE |-> l.SIZE + 1]
    BY <1>1, <1>2 DEF AllInv, ListInv
  <2>3. \A m \in Cell : /\ next'[m] = IF m = l.TAIL THEN g ELSE next[m]
                        /\ previous'[m] = IF m = g THEN l.TAIL ELSE previous[m]
    BY <1>1, <2>1
  <2>a. Appended(l, next, previous, g, list'[kind], next', previous')
    BY <2>2, <2>3 DEF Appended
  <2> HIDE DEF l
  <2>4. \E q : Chain(Members(kind) \cup {g}, list'[kind], next', previous', q, n + 1)
    BY <1>8, <1>9, <2>1, <2>a, ChainAppend
  <2>5. Members(kind)' = Members(kind) \cup {g} /\ n + 1 \in Nat
    BY <1>2, <1>6
  <2>6. kind' = kind
    OBVIOUS
  <2> QED BY <2>4, <2>5, <2>6 DEF InOrder
<1>13. ASSUME NEW k \in Kind, k # kind PROVE InOrder(k)'
  <2>10. PICK m \in Nat : \E q : Chain(Members(k), list[k], next, previous, q, m)
    BY DEF AllInv, ListInv, InOrder
  <2>1. PICK q : Chain(Members(k), list[k], next, previous, q, m)
    BY <2>10
  <2>2. list'[k] = list[k] /\ Members(k)' = Members(k)
    BY <1>1, <1>6, <1>13 DEF AllInv, ListInv
  <2>3. Members(k) \cap Members(kind) = {}
    BY <1>13 DEF Members
  <2>4. \A h \in Members(k) : next'[h] = next[h] /\ previous'[h] = previous[h]
    BY <1>1, <1>7, <1>10, <1>11, <2>3 DEF AllInv, ListInv
  <2>5. Chain(Members(k)', list'[k], next', previous', q, m)
    BY <2>1, <2>2, <2>4, ChainOther
  <2> QED BY <2>5 DEF InOrder
<1>14. previous' \in [Cell -> Cell \cup {NULL}] /\ next' \in [Cell -> Cell \cup {NULL}]
  BY <1>1, <1>2, <1>7, <1>10 DEF AllInv, ListInv
<1>15. DOMAIN list' = Kind /\ list' = [k \in Kind |-> list'[k]]
  BY <1>1 DEF AllInv, ListInv
<1>16. ASSUME NEW h \in Cell \ (Live' \ Const) PROVE next'[h] = NULL
  <2>1. h # g /\ h \notin Live \ Const
    BY <1>3, <1>4
  <2>2. h # l.TAIL
    BY <1>2, <1>10, <1>11, <2>1, MembersAreCells
  <2>3. next[h] = NULL
    BY <2>1 DEF AllInv, ListInv
  <2> QED BY <1>1, <2>2, <2>3
<1> QED BY <1>2, <1>12, <1>13, <1>14, <1>15, <1>16 DEF ListInv

\* remove_gate_from_list.
LEMMA RemoveLists ==
  ASSUME AllInv, RemoveGateFromList
  PROVE  ListInv'
<1>0. PICK g, kind, p, n : /\ g = call.gate /\ kind = ListOf(operation[g])
                           /\ p = previous[g] /\ n = next[g]
  OBVIOUS
<1> DEFINE l == list[kind]
<1>1. /\ call.name = "remove_gate_from_list"
      /\ list' = [list EXCEPT ![kind] =
                    [HEAD |-> IF p = NULL THEN n ELSE l.HEAD,
                     TAIL |-> IF n = NULL THEN p ELSE l.TAIL,
                     SIZE |-> l.SIZE - 1]]
      /\ next' = [m \in Cell |-> IF m = g THEN NULL ELSE IF m = p THEN n ELSE next[m]]
      /\ previous' = [m \in Cell |-> IF m = g THEN NULL ELSE IF m = n THEN p ELSE previous[m]]
      /\ operation' = [operation EXCEPT ![g] = "FREE"]
  BY <1>0 DEF RemoveGateFromList
<1>2. kind \in Kind
  BY <1>0 DEF ListOf, Kind
<1>3. g \in Live \ Const /\ g \in Cell
  BY <1>0, <1>1 DEF AllInv, WireInv, Progress, LinkInv, CallOK
<1>4. Live' = Live \ {g} /\ \A h \in Cell : h # g => operation'[h] = operation[h]
  BY <1>1, <1>3 DEF Live, AllInv, WireInv, Constants
<1>5. g \in Members(kind)
  BY <1>0, <1>3 DEF Members
<1>6. \A k \in Kind : Members(k)' = IF k = kind THEN Members(k) \ {g} ELSE Members(k)
  <2>1. \A h \in Live : h \in Cell
    BY DEF Live
  <2> QED BY <1>0, <1>3, <1>4, <2>1 DEF Members
<1>7. \A k \in Kind : Members(k) \subseteq Cell /\ Members(k) \subseteq Live \ Const
  BY MembersAreCells
<1>80. PICK size \in Nat : \E o : Chain(Members(kind), l, next, previous, o, size)
  BY <1>2 DEF AllInv, ListInv, InOrder
<1>8. PICK o : Chain(Members(kind), l, next, previous, o, size)
  BY <1>80
<1>10. p \in Members(kind) \cup {NULL} /\ n \in Members(kind) \cup {NULL}
  <2>1. PICK j \in 1 .. size : o[j] = g
    BY <1>5, <1>8 DEF Chain
  <2> QED BY <1>0, <1>8, <2>1 DEF Chain
<1>11. NULL \notin Cell
  BY GraphAssumption
<1>12. InOrder(kind)'
  <2>1. next \in [Cell -> Cell \cup {NULL}] /\ previous \in [Cell -> Cell \cup {NULL}]
    BY DEF AllInv, ListInv
  <2>2. list'[kind] = [HEAD |-> IF previous[g] = NULL THEN next[g] ELSE l.HEAD,
                       TAIL |-> IF next[g] = NULL THEN previous[g] ELSE l.TAIL,
                       SIZE |-> l.SIZE - 1]
    BY <1>0, <1>1, <1>2 DEF AllInv, ListInv
  <2>3. \A m \in Cell :
          /\ next'[m] = IF m = g THEN NULL ELSE IF m = previous[g] THEN next[g] ELSE next[m]
          /\ previous'[m] = IF m = g THEN NULL ELSE IF m = next[g] THEN previous[g] ELSE previous[m]
    BY <1>0, <1>1
  <2>4. Members(kind) \in SUBSET Cell
    BY <1>2, <1>7
  <2>a. Dropped(l, next, previous, g, list'[kind], next', previous')
    BY <2>2, <2>3 DEF Dropped
  <2> HIDE DEF l
  <2>5. size - 1 \in Nat /\ \E q : Chain(Members(kind) \ {g}, list'[kind], next', previous', q, size - 1)
    BY <1>5, <1>8, <2>1, <2>4, <2>a, ChainDrop
  <2>6. Members(kind)' = Members(kind) \ {g}
    BY <1>2, <1>6
  <2> QED BY <2>5, <2>6 DEF InOrder
<1>13. ASSUME NEW k \in Kind, k # kind PROVE InOrder(k)'
  <2>10. PICK m \in Nat : \E q : Chain(Members(k), list[k], next, previous, q, m)
    BY DEF AllInv, ListInv, InOrder
  <2>1. PICK q : Chain(Members(k), list[k], next, previous, q, m)
    BY <2>10
  <2>2. list'[k] = list[k] /\ Members(k)' = Members(k)
    BY <1>1, <1>6, <1>13 DEF AllInv, ListInv
  <2>3. Members(k) \cap Members(kind) = {}
    BY <1>13 DEF Members
  <2>4. \A h \in Members(k) : h \in Cell /\ h # g /\ h # p /\ h # n
    BY <1>5, <1>7, <1>10, <1>11, <2>3
  <2>5. \A h \in Members(k) : next'[h] = next[h] /\ previous'[h] = previous[h]
    BY <1>1, <2>4
  <2>6. Chain(Members(k)', list'[k], next', previous', q, m)
    BY <2>1, <2>2, <2>5, ChainOther
  <2> QED BY <2>6 DEF InOrder
<1>14. previous' \in [Cell -> Cell \cup {NULL}] /\ next' \in [Cell -> Cell \cup {NULL}]
  BY <1>1, <1>2, <1>7, <1>10 DEF AllInv, ListInv
<1>15. DOMAIN list' = Kind /\ list' = [k \in Kind |-> list'[k]]
  BY <1>1 DEF AllInv, ListInv
<1>16. ASSUME NEW h \in Cell \ (Live' \ Const) PROVE next'[h] = NULL
  <2>1. CASE h = g
    BY <1>1, <2>1
  <2>2. CASE h # g
    <3>1. h \notin Live \ Const
      BY <1>4, <2>2
    <3>2. h # p
      BY <1>2, <1>7, <1>10, <1>11, <3>1
    <3>3. next[h] = NULL
      BY <3>1 DEF AllInv, ListInv
    <3> QED BY <1>1, <2>2, <3>2, <3>3
  <2> QED BY <2>1, <2>2
<1> QED BY <1>2, <1>12, <1>13, <1>14, <1>15, <1>16 DEF ListInv

\* What changes only wires keeps the lists.
LEMMA QuietLists ==
  ASSUME AllInv, UNCHANGED <<operation, previous, next, list>>
  PROVE  ListInv'
<1>1. Live' = Live
  BY DEF Live
<1>2. \A k \in Kind : Members(k)' = Members(k)
  BY <1>1 DEF Members
<1>3. \A k \in Kind : InOrder(k)'
  BY <1>2 DEF AllInv, ListInv, InOrder
<1> QED BY <1>1, <1>3 DEF AllInv, ListInv

\* Every iteration of every loop keeps the whole invariant.
LEMMA StepLists == AllInv /\ [Next]_vars => AllInv'
<1> SUFFICES ASSUME AllInv, [Next]_vars PROVE AllInv'
  OBVIOUS
<1>0. WireInv'
  BY StepWires DEF AllInv
<1> SUFFICES ListInv'
  BY <1>0 DEF AllInv
<1>1. ASSUME NEW g \in Cell, NEW op \in Op, Create(g, op) PROVE ListInv'
  BY <1>1, CreateLists
<1>2. CASE RemoveGateFromList
  BY <1>2, RemoveLists
<1>3. ASSUME NEW g \in Cell,
             \/ \E p \in Pin : RemoveFanin(g, p) \/ \E h \in Cell : AddFanin(g, p, h)
             \/ \E h \in Cell : ReplaceBy(g, h)
             \/ Remove(g)
      PROVE  ListInv'
  <2>1. UNCHANGED <<operation, previous, next, list>>
    BY <1>3 DEF RemoveFanin, AddFanin, ReplaceBy, Remove
  <2> QED BY <2>1, QuietLists
<1>4. CASE ReplaceOne \/ ReplaceReturn \/ RemoveOneFanin \/ RemoveFanouts
  <2>1. UNCHANGED <<operation, previous, next, list>>
    BY <1>4 DEF ReplaceOne, ReplaceReturn, RemoveOneFanin, RemoveFanouts
  <2> QED BY <2>1, QuietLists
<1>5. CASE UNCHANGED vars
  BY <1>5, QuietLists DEF vars
<1> QED BY <1>1, <1>2, <1>3, <1>4, <1>5 DEF Next, Call, Run

----------------------------------------------------------------------------
(* From the order to the walk.                                             *)

\* The recursive function that follows the next pointers returns the gates in
\* order and then NULL.
LEMMA WalkFollowsOrder ==
  ASSUME NEW k \in Kind, NEW n \in Nat, NEW o,
         Chain(Members(k), list[k], next, previous, o, n), Members(k) \subseteq Cell
  PROVE  /\ Cardinality(Members(k)) = n
         /\ \A i \in 0 .. n : Walk(k)[i] = IF i = n THEN NULL ELSE o[i + 1]
<1>1. Cardinality(Members(k)) = n
  <2>1. o \in Bijection(1 .. n, Members(k))
    BY DEF Chain, Bijection, Injection, Surjection, IsInjective
  <2>2. ExistsBijection(1 .. n, Members(k))
    BY <2>1 DEF ExistsBijection
  <2> QED BY <2>2, FS_CountingElements
<1> DEFINE Follows(w) == w = [i \in 0 .. n |-> IF i = 0 THEN list[k].HEAD
                                         ELSE IF w[i - 1] = NULL THEN NULL ELSE next[w[i - 1]]]
           f == [i \in 0 .. n |-> IF i = n THEN NULL ELSE o[i + 1]]
<1>2. Walk(k) = CHOOSE w : Follows(w)
  BY <1>1 DEF Walk
<1>3. Follows(f)
  <2> SUFFICES ASSUME NEW i \in 0 .. n
               PROVE  f[i] = IF i = 0 THEN list[k].HEAD
                             ELSE IF f[i - 1] = NULL THEN NULL ELSE next[f[i - 1]]
    OBVIOUS
  <2>1. CASE i = 0
    BY <2>1 DEF Chain
  <2>2. CASE i # 0
    <3>1. i \in 1 .. n /\ i - 1 \in 0 .. n /\ i - 1 # n /\ (i - 1) + 1 = i
      BY <2>2
    <3>2. f[i - 1] = o[i]
      BY <3>1
    <3>3. o[i] # NULL
      BY <3>1, GraphAssumption DEF Chain
    <3>4. next[o[i]] = IF i = n THEN NULL ELSE o[i + 1]
      BY <3>1 DEF Chain
    <3> QED BY <2>2, <3>2, <3>3, <3>4
  <2> QED BY <2>1, <2>2
<1>4. Follows(Walk(k))
  <2> HIDE DEF Follows, f
  <2> QED BY <1>2, <1>3
<1>5. ASSUME NEW i \in 0 .. n PROVE Walk(k)[i] = f[i]
  <2> DEFINE B == {m \in Nat : m <= n /\ Walk(k)[m] # f[m]}
  <2> SUFFICES ASSUME B # {} PROVE FALSE
    OBVIOUS
  <2>1. PICK m \in B : \A q \in B : m <= q
    <3>1. B \in SUBSET Nat
      OBVIOUS
    <3> HIDE DEF B
    <3> QED BY <3>1, Least
  <2>2. m \in 0 .. n /\ Walk(k)[m] # f[m]
    BY <2>1
  <2>3. \A q \in 0 .. n :
          /\ Walk(k)[q] = IF q = 0 THEN list[k].HEAD
                          ELSE IF Walk(k)[q - 1] = NULL THEN NULL ELSE next[Walk(k)[q - 1]]
          /\ f[q] = IF q = 0 THEN list[k].HEAD
                    ELSE IF f[q - 1] = NULL THEN NULL ELSE next[f[q - 1]]
    BY <1>3, <1>4
  <2> HIDE DEF f
  <2>4. m # 0
    BY <2>2, <2>3
  <2>5. m - 1 \in 0 .. n /\ m - 1 \in Nat /\ ~(m <= m - 1)
    BY <2>2, <2>4
  <2>6. Walk(k)[m - 1] = f[m - 1]
    BY <2>1, <2>5
  <2> QED BY <2>2, <2>3, <2>4, <2>6
<1> QED BY <1>1, <1>5

\* The order that the invariant says there is, is what the pointers lead
\* through.
LEMMA OrderIsIntegrity == AllInv => ListIntegrity
<1> SUFFICES ASSUME AllInv, NEW k \in Kind
             PROVE  LET l == list[k]
                        walk == Walk(k)
                    IN  /\ l.SIZE = Cardinality(Members(k))
                        /\ {walk[i] : i \in 0 .. l.SIZE - 1} = Members(k)
                        /\ walk[l.SIZE] = NULL
                        /\ l.TAIL = IF l.SIZE = 0 THEN NULL ELSE walk[l.SIZE - 1]
                        /\ \A i \in 0 .. l.SIZE - 1 :
                             previous[walk[i]] = IF i = 0 THEN NULL ELSE walk[i - 1]
  BY DEF ListIntegrity
<1>10. PICK n \in Nat : \E o : Chain(Members(k), list[k], next, previous, o, n)
  BY DEF AllInv, ListInv, InOrder
<1>1. PICK o : Chain(Members(k), list[k], next, previous, o, n)
  BY <1>10
<1>2. /\ Cardinality(Members(k)) = n
      /\ \A i \in 0 .. n : Walk(k)[i] = IF i = n THEN NULL ELSE o[i + 1]
  BY <1>1, WalkFollowsOrder, MembersAreCells
<1>3. list[k].SIZE = n /\ list[k].TAIL = IF n = 0 THEN NULL ELSE o[n]
  BY <1>1 DEF Chain
<1>4. {Walk(k)[i] : i \in 0 .. n - 1} = Members(k)
  <2>1. ASSUME NEW i \in 0 .. n - 1 PROVE Walk(k)[i] \in Members(k)
    <3>1. i + 1 \in 1 .. n /\ i \in 0 .. n /\ i # n
      OBVIOUS
    <3> QED BY <1>1, <1>2, <3>1 DEF Chain
  <2>2. ASSUME NEW g \in Members(k) PROVE \E i \in 0 .. n - 1 : Walk(k)[i] = g
    <3>1. PICK j \in 1 .. n : o[j] = g
      BY <1>1 DEF Chain
    <3>2. j - 1 \in 0 .. n - 1 /\ j - 1 \in 0 .. n /\ j - 1 # n /\ (j - 1) + 1 = j
      OBVIOUS
    <3> QED BY <1>2, <3>1, <3>2
  <2> QED BY <2>1, <2>2
<1>5. list[k].TAIL = IF n = 0 THEN NULL ELSE Walk(k)[n - 1]
  <2>1. n # 0 => n - 1 \in 0 .. n /\ n - 1 # n /\ (n - 1) + 1 = n
    OBVIOUS
  <2> QED BY <1>2, <1>3, <2>1
<1>6. ASSUME NEW i \in 0 .. n - 1
      PROVE  previous[Walk(k)[i]] = IF i = 0 THEN NULL ELSE Walk(k)[i - 1]
  <2>1. i + 1 \in 1 .. n /\ i \in 0 .. n /\ i # n
    OBVIOUS
  <2>2. Walk(k)[i] = o[i + 1]
    BY <1>2, <2>1
  <2>3. previous[o[i + 1]] = IF i + 1 = 1 THEN NULL ELSE o[(i + 1) - 1]
    BY <1>1, <2>1 DEF Chain
  <2>4. i # 0 => i - 1 \in 0 .. n /\ i - 1 # n /\ (i - 1) + 1 = i /\ (i + 1) - 1 = i
    OBVIOUS
  <2> QED BY <1>2, <2>2, <2>3, <2>4
<1> QED BY <1>2, <1>3, <1>4, <1>5, <1>6

\* The invariant contains the types.
LEMMA InvTypes == AllInv => TypeOK
<1> SUFFICES ASSUME AllInv PROVE TypeOK
  OBVIOUS
<1>1. /\ operation \in [Cell -> AllOps \cup {"ONE", "FREE"}]
      /\ fanins \in [Cell -> [Pin -> Cell \cup {NULL}]]
      /\ fanouts \in [Cell -> [Target -> Nat]]
      /\ previous \in [Cell -> Cell \cup {NULL}] /\ next \in [Cell -> Cell \cup {NULL}]
      /\ call.name \in {"none", "replace_by", "remove", "remove_gate_from_list"}
  BY DEF AllInv, WireInv, LinkInv, Wires, ListInv, Constants, Progress
<1>2. root_gates \subseteq Cell
  BY DEF AllInv, WireInv, RootGates, Live
<1>3. ASSUME NEW k \in Kind
      PROVE  list[k] \in [HEAD : Cell \cup {NULL}, TAIL : Cell \cup {NULL}, SIZE : Nat]
  <2>10. PICK n \in Nat : \E o : Chain(Members(k), list[k], next, previous, o, n)
    BY DEF AllInv, ListInv, InOrder
  <2>1. PICK o : Chain(Members(k), list[k], next, previous, o, n)
    BY <2>10
  <2>2. Members(k) \subseteq Cell
    BY MembersAreCells
  <2>3. n # 0 => 1 \in 1 .. n /\ n \in 1 .. n
    OBVIOUS
  <2>4. n # 0 => o[1] \in Cell /\ o[n] \in Cell
    BY <2>1, <2>2, <2>3 DEF Chain
  <2> QED BY <2>1, <2>4 DEF Chain
<1>4. list \in [Kind -> [HEAD : Cell \cup {NULL}, TAIL : Cell \cup {NULL}, SIZE : Nat]]
  BY <1>3 DEF AllInv, ListInv
<1> QED BY <1>1, <1>2, <1>4 DEF TypeOK

\* For any number of gates, and in the middle of any call: who walks a list
\* from HEAD visits every gate of its kind exactly once and stops at TAIL,
\* SIZE counts them, previous leads back, and m_root_gates holds exactly the
\* gates without pins.
THEOREM ListsIntactCorrect == Spec => []ListsIntact
<1>1. Init => AllInv
  BY InitWires, InitLists DEF AllInv
<1>2. AllInv => ListsIntact
  BY OrderIsIntegrity, InvTypes DEF ListsIntact, AllInv, WireInv
<1> QED BY <1>1, <1>2, StepLists, PTL DEF Spec
=============================================================================
