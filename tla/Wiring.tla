------------------------------- MODULE Wiring -------------------------------
(***************************************************************************)
(* What the operations of simple_circuitt promise to their callers: gates  *)
(* with fanins that are made, connected, replaced and removed in one step  *)
(* each.  Nothing is said of fanout lists or gate lists.                   *)
(***************************************************************************)
CONSTANTS Address, ONE_GATE, ZERO_GATE, NULL, Op, Pin

VARIABLES operation, fanins

Cell == Address \cup {ONE_GATE, ZERO_GATE}
Live == {g \in Cell : operation[g] # "FREE"}

Init ==
  /\ operation = [g \in Cell |-> IF g = ONE_GATE THEN "ONE"
                                 ELSE IF g = ZERO_GATE THEN "NOT" ELSE "FREE"]
  /\ fanins = [g \in Cell |-> [p \in Pin |->
                 IF g = ZERO_GATE /\ p = 0 THEN ONE_GATE ELSE NULL]]

Create(g, op) ==
  /\ operation[g] = "FREE"
  /\ operation' = [operation EXCEPT ![g] = op]
  /\ UNCHANGED fanins

Connect(g, p, h) ==
  /\ g \in Live /\ h \in Live /\ fanins[g][p] = NULL
  /\ fanins' = [fanins EXCEPT ![g][p] = h]
  /\ UNCHANGED operation

Disconnect(g, p) ==
  /\ fanins[g][p] # NULL
  /\ fanins' = [fanins EXCEPT ![g][p] = NULL]
  /\ UNCHANGED operation

\* Who reads g reads h from now on.
Redirected(g, h) ==
  [k \in Cell |-> [p \in Pin |-> IF fanins[k][p] = g THEN h ELSE fanins[k][p]]]

Replace(g, h) ==
  /\ g \in Live /\ h \in Live /\ g # h
  /\ fanins' = Redirected(g, h)
  /\ UNCHANGED operation

Remove(g) ==
  /\ g \in Live
  /\ operation' = [operation EXCEPT ![g] = "FREE"]
  /\ fanins' = [Redirected(g, NULL) EXCEPT ![g] = [p \in Pin |-> NULL]]

Next ==
  \E g \in Cell :
    \/ \E op \in Op : Create(g, op)
    \/ \E p \in Pin : Disconnect(g, p) \/ \E h \in Cell : Connect(g, p, h)
    \/ \E h \in Cell : Replace(g, h)
    \/ Remove(g)

Spec == Init /\ [][Next]_<<operation, fanins>>
=============================================================================
