--------------------------- MODULE BackEnd_proofs ---------------------------
(***************************************************************************)
(* Linker: no call gets lost in linking, for any circuits, any call sites  *)
(* and any calls, recursive ones included: where link() returns, it has    *)
(* followed every call in the circuit, although the copies it merges have  *)
(* no calls.                                                               *)
(*                                                                         *)
(* ParallelGraph: the graph of any circuit has no cycle among its blocks,  *)
(* every block waits for exactly the blocks that it reads, and every call  *)
(* has one block.                                                          *)
(***************************************************************************)
EXTENDS Linker, ParallelGraph, InductionFacts, SequenceTheorems

----------------------------------------------------------------------------
(* Linker.                                                                 *)

Frames == [circuit : Circuit, site : Site \cup {None}]

Types ==
  /\ callee \in [Site -> Name]
  /\ calls \in [Circuit -> SUBSET Site]
  /\ bodies \in [Circuit -> SUBSET Seq(Site)]
  /\ stack \in Seq(Frames)
  /\ failed \in BOOLEAN

\* Every call of link() that waits, waits for the one above it on the stack,
\* which links the circuit that it is about to merge.
Chain ==
  /\ Running => stack[1].circuit = Main
  /\ \A n \in 1 .. Len(stack) : n < Len(stack) =>
       stack[n].site # None /\ callee[stack[n].site] = stack[n + 1].circuit

\* The circuit that is merged next is linked: it has no calls left.
Linked ==
  Running /\ Top.site # None =>
    callee[Top.site] \in Circuit /\ calls[callee[Top.site]] = {}

Finished == ~Running /\ ~failed => calls[Main] = {}

\* Every circuit contains its own body.
OwnBody == \A c \in Circuit : << >> \in bodies[c]

IInv == Types /\ Chain /\ Linked /\ Finished /\ OwnBody /\ Complete

----------------------------------------------------------------------------
(* Paths.                                                                  *)

\* A path that begins with a call of s leads where its rest leads from there.
LEMMA PathThrough ==
  ASSUME NEW s \in Site, NEW path \in Seq(Site), NEW t \in Site, NEW c
  PROVE  /\ <<s>> \o path \in Seq(Site)
         /\ Leads(c, <<s>> \o path) = Leads(callee[s], path)
         /\ <<s>> \o Append(path, t) = Append(<<s>> \o path, t)
         /\ <<s>> \o path # << >>
         /\ <<s>> \o << >> = Append(<< >>, s)
<1>1. <<s>> \in Seq(Site) /\ Len(<<s>>) = 1 /\ <<s>>[1] = s
  OBVIOUS
<1>2. /\ <<s>> \o path \in Seq(Site)
      /\ Len(<<s>> \o path) = 1 + Len(path)
      /\ \A i \in 1 .. 1 + Len(path) : (<<s>> \o path)[i] = IF i <= 1 THEN <<s>>[i] ELSE path[i - 1]
  BY <1>1, ConcatProperties
<1>3. Len(path) \in Nat
  BY LenProperties
<1>4. <<s>> \o path # << >>
  BY <1>2, <1>3, EmptySeq
<1>5. Leads(c, <<s>> \o path) = Leads(callee[s], path)
  <2>1. CASE path = << >>
    <3>1. Len(path) = 0
      BY <2>1
    <3>2. (<<s>> \o path)[Len(<<s>> \o path)] = s
      BY <1>1, <1>2, <3>1
    <3> QED BY <2>1, <3>2, <1>4 DEF Leads
  <2>2. CASE path # << >>
    <3>1. Len(path) > 0
      BY <2>2, <1>3, EmptySeq
    <3>2. (<<s>> \o path)[Len(<<s>> \o path)] = path[Len(path)]
      BY <1>2, <1>3, <3>1
    <3> QED BY <2>2, <3>2, <1>4 DEF Leads
  <2> QED BY <2>1, <2>2
<1>6. <<s>> \o Append(path, t) = Append(<<s>> \o path, t)
  <2>1. Append(path, t) = path \o <<t>> /\ Append(<<s>> \o path, t) = (<<s>> \o path) \o <<t>>
    BY <1>2, AppendIsConcat
  <2>2. <<t>> \in Seq(Site)
    OBVIOUS
  <2> QED BY <2>1, <2>2, <1>1, ConcatAssociative
<1>7. <<s>> \o << >> = Append(<< >>, s)
  BY <1>1, ConcatEmptySeq
<1> QED BY <1>2, <1>4, <1>5, <1>6, <1>7

----------------------------------------------------------------------------
(* The stack.                                                              *)

\* Writing the site of the frame on top changes nothing else.
LEMMA Marked ==
  ASSUME NEW st \in Seq(Frames), st # << >>, NEW x \in Site \cup {None}, NEW st2,
         st2 = [st EXCEPT ![Len(st)].site = x]
  PROVE  /\ st2 \in Seq(Frames) /\ Len(st2) = Len(st) /\ st2 # << >>
         /\ \A n \in 1 .. Len(st) :
              /\ st2[n].circuit = st[n].circuit
              /\ st2[n].site = IF n = Len(st) THEN x ELSE st[n].site
<1> DEFINE top == [st[Len(st)] EXCEPT !.site = x]
<1>1. Len(st) \in Nat \ {0} /\ Len(st) \in 1 .. Len(st)
  BY EmptySeq
<1>2. st[Len(st)] \in Frames
  BY <1>1, ElementOfSeq
<1>3. top \in Frames /\ top.circuit = st[Len(st)].circuit /\ top.site = x
  BY <1>2 DEF Frames
<1>4. st2 = [st EXCEPT ![Len(st)] = top]
  OBVIOUS
<1> HIDE DEF top
<1>5. /\ st2 \in Seq(Frames) /\ Len(st2) = Len(st)
      /\ \A n \in 1 .. Len(st) : st2[n] = IF n = Len(st) THEN top ELSE st[n]
  BY <1>1, <1>3, <1>4, ExceptSeq
<1> QED BY <1>1, <1>3, <1>5, EmptySeq

----------------------------------------------------------------------------
(* Steps.                                                                  *)

\* link() is called on circuits that contain their own bodies.
LEMMA InitInv == Init => IInv
<1> SUFFICES ASSUME Init PROVE IInv
  OBVIOUS
<1>1. Types
  <2>1. callee \in [Site -> Name]
    BY LinkerAssumption DEF Init
  <2>2. calls \in [Circuit -> SUBSET Site]
    BY DEF Init, Sites
  <2>3. bodies \in [Circuit -> SUBSET Seq(Site)]
    BY EmptySeq DEF Init
  <2>4. stack \in Seq(Frames)
    BY LinkerAssumption DEF Init, Frame, Frames
  <2> QED BY <2>1, <2>2, <2>3, <2>4 DEF Init, Types
<1>2. Chain /\ Linked /\ Finished
  <2>1. Len(stack) = 1 /\ stack[1] = [circuit |-> Main, site |-> None] /\ stack # << >>
    BY DEF Init, Frame
  <2> QED BY <2>1 DEF Chain, Linked, Finished, Running, Top
<1>3. OwnBody
  BY DEF Init, OwnBody
<1>4. Complete
  BY DEF Init, Complete, Leads, Sites
<1> QED BY <1>1, <1>2, <1>3, <1>4 DEF IInv

\* A circuit is entered: only the stack changes, by one frame on top.
LEMMA LinkCalleeInv ==
  ASSUME IInv, NEW s \in Site, LinkCallee(s)
  PROVE  IInv'
<1>1. /\ Running /\ Top.site = None /\ s \in calls[Top.circuit] /\ callee[s] \in Circuit
      /\ UNCHANGED <<callee, calls, bodies, failed>>
  BY DEF LinkCallee
<1> DEFINE waiting == [stack EXCEPT ![Len(stack)].site = s]
           frame == [circuit |-> callee[s], site |-> None]
<1>2. stack \in Seq(Frames) /\ Len(stack) \in Nat \ {0} /\ stack[Len(stack)] \in Frames
  BY <1>1, EmptySeq, ElementOfSeq DEF IInv, Types, Running
<1>3. /\ waiting \in Seq(Frames) /\ Len(waiting) = Len(stack)
      /\ \A n \in 1 .. Len(stack) :
           /\ waiting[n].circuit = stack[n].circuit
           /\ waiting[n].site = IF n = Len(stack) THEN s ELSE stack[n].site
  <2>1. waiting = [stack EXCEPT ![Len(stack)].site = s]
    OBVIOUS
  <2> HIDE DEF waiting
  <2> QED BY <1>1, <1>2, <2>1, Marked DEF Running
<1>4. frame \in Frames
  BY <1>1 DEF Frames
<1> HIDE DEF waiting
<1>5. stack' = Append(waiting, frame)
  BY DEF LinkCallee, Frame, waiting
<1>6. /\ stack' \in Seq(Frames) /\ stack' # << >> /\ Len(stack') = Len(stack) + 1
      /\ \A n \in 1 .. Len(stack) : stack'[n] = waiting[n]
      /\ stack'[Len(stack) + 1] = frame
  BY <1>3, <1>4, <1>5, AppendProperties
<1>7. Types'
  BY <1>1, <1>6 DEF IInv, Types
<1>8. Chain'
  <2>1. stack'[1].circuit = Main
    <3>1. 1 \in 1 .. Len(stack)
      BY <1>2
    <3> QED BY <3>1, <1>1, <1>3, <1>6 DEF IInv, Chain
  <2>2. ASSUME NEW n \in 1 .. Len(stack'), n < Len(stack')
        PROVE  stack'[n].site # None /\ callee[stack'[n].site] = stack'[n + 1].circuit
    <3>1. CASE n = Len(stack)
      <4>1. stack'[n].site = s
        BY <3>1, <1>2, <1>3, <1>6
      <4>2. stack'[n + 1].circuit = callee[s]
        BY <3>1, <1>6
      <4> QED BY <4>1, <4>2, <1>1, LinkerAssumption
    <3>2. CASE n # Len(stack)
      <4>1. n \in 1 .. Len(stack) /\ n < Len(stack) /\ n + 1 \in 1 .. Len(stack)
        BY <3>2, <2>2, <1>2, <1>6
      <4>2. stack'[n].site = stack[n].site /\ stack'[n + 1].circuit = stack[n + 1].circuit
        BY <4>1, <1>3, <1>6
      <4> QED BY <4>1, <4>2, <1>1 DEF IInv, Chain
    <3> QED BY <3>1, <3>2
  <2> QED BY <2>1, <2>2, <1>1 DEF Chain
<1>9. Linked' /\ Finished'
  BY <1>6 DEF Linked, Finished, Running, Top
<1>10. OwnBody' /\ Complete'
  BY <1>1 DEF IInv, OwnBody, Complete, Leads
<1> QED BY <1>7, <1>8, <1>9, <1>10 DEF IInv

\* The copy that is merged has no calls: all of them are followed in it.
LEMMA MergeCopyInv ==
  ASSUME IInv, MergeCopy
  PROVE  IInv'
<1> DEFINE c == Top.circuit
           s == Top.site
           sub == callee[s]
<1>1. stack \in Seq(Frames) /\ Len(stack) \in Nat \ {0} /\ Top \in Frames
  BY EmptySeq, ElementOfSeq DEF IInv, Types, MergeCopy, Running, Top
<1>2. /\ c \in Circuit /\ s \in Site /\ sub \in Circuit /\ calls[sub] = {}
      /\ bodies' = [bodies EXCEPT ![c] = @ \cup {<<s>> \o b : b \in bodies[sub]}]
      /\ calls' = [calls EXCEPT ![c] = @ \ {s}]
      /\ stack' = [stack EXCEPT ![Len(stack)].site = None]
      /\ callee' = callee /\ failed' = failed
  BY <1>1 DEF IInv, Linked, MergeCopy, Frames
<1>3. /\ stack' \in Seq(Frames) /\ Len(stack') = Len(stack) /\ stack' # << >>
      /\ \A n \in 1 .. Len(stack) :
           /\ stack'[n].circuit = stack[n].circuit
           /\ stack'[n].site = IF n = Len(stack) THEN None ELSE stack[n].site
  <2>1. PICK x \in Site \cup {None} : x = None
    OBVIOUS
  <2> DEFINE resumed == [stack EXCEPT ![Len(stack)].site = x]
  <2>2. stack # << >>
    BY DEF MergeCopy, Running
  <2>3. resumed = [stack EXCEPT ![Len(stack)].site = x]
    OBVIOUS
  <2>4. stack' = resumed
    BY <2>1 DEF MergeCopy
  <2> HIDE DEF resumed
  <2>5. /\ resumed \in Seq(Frames) /\ Len(resumed) = Len(stack) /\ resumed # << >>
        /\ \A n \in 1 .. Len(stack) :
             /\ resumed[n].circuit = stack[n].circuit
             /\ resumed[n].site = IF n = Len(stack) THEN x ELSE stack[n].site
    BY <2>2, <2>3, <1>1, Marked
  <2> QED BY <2>1, <2>4, <2>5
<1> HIDE DEF c, s, sub
<1>4. Types'
  <2>1. \A b \in bodies[sub] : <<s>> \o b \in Seq(Site)
    BY <1>2, PathThrough DEF IInv, Types
  <2>2. bodies' \in [Circuit -> SUBSET Seq(Site)]
    BY <1>2, <2>1 DEF IInv, Types
  <2>3. calls' \in [Circuit -> SUBSET Site]
    BY <1>2 DEF IInv, Types
  <2> QED BY <1>2, <1>3, <2>2, <2>3 DEF IInv, Types
<1>5. Chain'
  <2>1. stack'[1].circuit = Main
    <3>1. 1 \in 1 .. Len(stack)
      BY <1>1
    <3> QED BY <3>1, <1>3 DEF IInv, Chain, MergeCopy
  <2>2. ASSUME NEW n \in 1 .. Len(stack'), n < Len(stack')
        PROVE  stack'[n].site # None /\ callee[stack'[n].site] = stack'[n + 1].circuit
    <3>1. n \in 1 .. Len(stack) /\ n < Len(stack) /\ n + 1 \in 1 .. Len(stack)
      BY <2>2, <1>1, <1>3
    <3>2. stack'[n].site = stack[n].site /\ stack'[n + 1].circuit = stack[n + 1].circuit
      BY <3>1, <1>3
    <3> QED BY <3>1, <3>2, <1>2 DEF IInv, Chain
  <2> QED BY <2>1, <2>2, <1>2 DEF Chain
<1>6. Linked'
  <2>1. Top'.site = None
    BY <1>1, <1>3 DEF Top
  <2> QED BY <2>1 DEF Linked
<1>7. Finished'
  BY <1>3 DEF Finished, Running
<1>8. OwnBody'
  BY <1>2 DEF IInv, OwnBody, Types
<1>9. Complete'
  <2> SUFFICES ASSUME NEW d \in Circuit, NEW path \in bodies'[d], NEW t \in Site,
                      In[t] = Leads(d, path)
               PROVE  Append(path, t) \in bodies'[d] \/ (path = << >> /\ t \in calls'[d])
    BY <1>2 DEF Complete, Leads
  <2>1. CASE d # c
    <3>1. bodies'[d] = bodies[d] /\ calls'[d] = calls[d]
      BY <2>1, <1>2 DEF IInv, Types
    <3> QED BY <3>1 DEF IInv, Complete
  <2>2. CASE d = c
    <3>1. bodies'[c] = bodies[c] \cup {<<s>> \o b : b \in bodies[sub]} /\ calls'[c] = calls[c] \ {s}
      BY <1>2 DEF IInv, Types
    <3>2. CASE path \in bodies[c]
      <4>1. Append(path, t) \in bodies[c] \/ (path = << >> /\ t \in calls[c])
        BY <2>2, <3>2 DEF IInv, Complete
      <4>2. <<s>> \o << >> \in bodies'[c]
        BY <3>1, <1>2 DEF IInv, OwnBody
      <4>3. <<s>> \o << >> = Append(<< >>, s)
        BY <1>2, EmptySeq, PathThrough
      <4> QED BY <2>2, <3>1, <4>1, <4>2, <4>3
    <3>3. CASE path \notin bodies[c]
      <4>1. PICK b \in bodies[sub] : path = <<s>> \o b
        BY <2>2, <3>1, <3>3
      <4>2. b \in Seq(Site)
        BY <1>2 DEF IInv, Types
      <4>3. In[t] = Leads(sub, b)
        BY <4>1, <4>2, <1>2, PathThrough DEF sub
      <4>4. Append(b, t) \in bodies[sub]
        BY <4>3, <1>2 DEF IInv, Complete
      <4>5. <<s>> \o Append(b, t) \in bodies'[c]
        BY <3>1, <4>4
      <4> QED BY <2>2, <4>1, <4>2, <4>5, <1>2, PathThrough
    <3> QED BY <3>2, <3>3
  <2> QED BY <2>1, <2>2
<1> QED BY <1>4, <1>5, <1>6, <1>7, <1>8, <1>9 DEF IInv

\* What returns is linked, and it is what the call below waits for.
LEMMA ReturnInv ==
  ASSUME IInv, Return
  PROVE  IInv'
<1>1. /\ Top.site = None /\ calls[Top.circuit] = {}
      /\ stack' = SubSeq(stack, 1, Len(stack) - 1)
      /\ UNCHANGED <<callee, calls, bodies, failed>>
  BY DEF Return
<1>2. stack \in Seq(Frames) /\ Len(stack) \in Nat \ {0}
  BY EmptySeq DEF IInv, Types, Return, Running
<1>3. /\ stack' \in Seq(Frames) /\ Len(stack') = Len(stack) - 1
      /\ \A n \in 1 .. Len(stack) - 1 : stack'[n] = stack[n]
  <2>1. PICK top \in Nat : top = Len(stack) - 1
    BY <1>2
  <2>2. \A n \in 1 .. top : stack[n] \in Frames
    BY <1>2, <2>1, ElementOfSeq
  <2>3. /\ SubSeq(stack, 1, top) \in Seq(Frames)
        /\ Len(SubSeq(stack, 1, top)) = IF 1 <= top THEN top - 1 + 1 ELSE 0
        /\ \A i \in 1 .. top - 1 + 1 : SubSeq(stack, 1, top)[i] = stack[1 + i - 1]
    BY <2>2, SubSeqProperties
  <2>4. Len(SubSeq(stack, 1, top)) = top
    <3>1. CASE 1 <= top
      BY <3>1, <2>1, <2>3
    <3>2. CASE top = 0
      BY <3>2, <2>1, <2>3
    <3> QED BY <3>1, <3>2, <2>1
  <2>5. ASSUME NEW i \in 1 .. top
        PROVE  SubSeq(stack, 1, top)[i] = stack[i]
    <3>1. i \in 1 .. top - 1 + 1 /\ 1 + i - 1 = i
      BY <2>1, <2>5
    <3>2. SubSeq(stack, 1, top)[i] = stack[1 + i - 1]
      BY <3>1, <2>3
    <3> QED BY <3>1, <3>2
  <2> QED BY <2>1, <2>3, <2>4, <2>5, <1>1
<1>4. Types'
  BY <1>1, <1>3 DEF IInv, Types
<1>5. Chain'
  <2>1. Running' => stack'[1].circuit = Main
    BY <1>2, <1>3, EmptySeq DEF IInv, Chain, Running, Return
  <2>2. ASSUME NEW n \in 1 .. Len(stack'), n < Len(stack')
        PROVE  stack'[n].site # None /\ callee[stack'[n].site] = stack'[n + 1].circuit
    BY <2>2, <1>2, <1>3 DEF IInv, Chain
  <2> QED BY <2>1, <2>2, <1>1 DEF Chain
<1>6. Linked'
  <2> SUFFICES ASSUME Running'
               PROVE  callee[Top'.site] \in Circuit /\ calls[callee[Top'.site]] = {}
    BY <1>1 DEF Linked
  <2>1. Len(stack') \in 1 .. Len(stack) - 1 /\ stack' # << >>
    BY <1>2, <1>3, EmptySeq DEF Running
  <2>2. Top' = stack[Len(stack) - 1]
    BY <2>1, <1>2, <1>3 DEF Top
  <2>3. callee[Top'.site] = Top.circuit
    BY <2>1, <2>2, <1>2, <1>3 DEF IInv, Chain, Top
  <2>4. Top \in Frames
    BY <1>2, ElementOfSeq DEF Top
  <2>5. Top.circuit \in Circuit
    BY <2>4 DEF Frames
  <2> QED BY <2>3, <2>5, <1>1
<1>7. Finished'
  <2> SUFFICES ASSUME ~Running'
               PROVE  calls[Main] = {}
    BY <1>1 DEF Finished
  <2>1. Len(stack) = 1
    BY <1>2, <1>3, EmptySeq DEF Running
  <2> QED BY <2>1, <1>1 DEF IInv, Chain, Top, Return
<1>8. OwnBody' /\ Complete'
  BY <1>1 DEF IInv, OwnBody, Complete, Leads
<1> QED BY <1>4, <1>5, <1>6, <1>7, <1>8 DEF IInv

\* An exception leaves nothing on the stack and no promise.
LEMMA NotFoundInv ==
  ASSUME IInv, NEW s \in Site, NotFound(s)
  PROVE  IInv'
<1>1. stack' = << >> /\ failed' = TRUE /\ UNCHANGED <<callee, calls, bodies>>
  BY DEF NotFound
<1>2. Types' /\ Chain' /\ Linked' /\ Finished'
  BY <1>1, EmptySeq DEF IInv, Types, Chain, Linked, Finished, Running
<1>3. OwnBody' /\ Complete'
  BY <1>1 DEF IInv, OwnBody, Complete, Leads
<1> QED BY <1>2, <1>3 DEF IInv

\* Every step of the recursion keeps the invariant.
LEMMA NextInv == IInv /\ [Next]_vars => IInv'
<1> SUFFICES ASSUME IInv, [Next]_vars PROVE IInv'
  OBVIOUS
<1>1. CASE MergeCopy
  BY <1>1, MergeCopyInv
<1>2. CASE Return
  BY <1>2, ReturnInv
<1>3. CASE \E s \in Site : LinkCallee(s)
  BY <1>3, LinkCalleeInv
<1>4. CASE \E s \in Site : NotFound(s)
  BY <1>4, NotFoundInv
<1>5. CASE UNCHANGED vars
  BY <1>5 DEF IInv, Types, Chain, Linked, Finished, OwnBody, Complete, Leads, Running, Top, vars
<1> QED BY <1>1, <1>2, <1>3, <1>4, <1>5 DEF Next, Step, Done

\* It holds in every state.
LEMMA SpecInv == Spec => []IInv
BY InitInv, NextInv, PTL DEF Spec

----------------------------------------------------------------------------

\* In every circuit and at every moment, a call of a body that is in the
\* circuit was followed, or is one of the circuit's own in m_function_calls.
THEOREM CompleteCorrect == Spec => []Complete
<1>1. IInv => Complete
  BY DEF IInv
<1> QED BY <1>1, SpecInv, PTL

\* When link() returns, every call in the main circuit was followed.
THEOREM LinkCompleteCorrect == Spec => []LinkComplete
<1>1. IInv => LinkComplete
  BY LinkerAssumption DEF IInv, LinkComplete, Complete, Finished
<1> QED BY <1>1, SpecInv, PTL

----------------------------------------------------------------------------
(* ParallelGraph.                                                          *)

\* The largest of some depths, 0 of none.
LEMMA HighestIs ==
  ASSUME NEW S \in SUBSET Nat, IsFiniteSet(S)
  PROVE  /\ Highest(S) \in Nat
         /\ \A n \in S : n <= Highest(S)
         /\ \A m \in Nat : (\A n \in S : n <= m) => Highest(S) <= m
         /\ Highest(S) = 0 \/ Highest(S) \in S
<1> DEFINE T == S \cup {0}
<1>1. T \in SUBSET Nat /\ IsFiniteSet(T) /\ T # {}
  BY FS_AddElement
<1>2. \E m \in T : \A n \in T : m >= n
  <2> HIDE DEF T
  <2> QED BY <1>1, Largest
<1>3. Highest(S) \in T /\ \A n \in T : Highest(S) >= n
  BY <1>2 DEF Highest, Max
<1>4. Highest(S) \in Nat /\ 0 \in Nat
  BY <1>1, <1>3
<1>5. \A n \in S : n <= Highest(S)
  BY <1>3, <1>4
<1>7. Highest(S) = 0 \/ Highest(S) \in S
  BY <1>3
<1> HIDE DEF T
<1>6. ASSUME NEW m \in Nat, \A n \in S : n <= m PROVE Highest(S) <= m
  BY <1>3, <1>4, <1>6 DEF T
<1> QED BY <1>4, <1>5, <1>6, <1>7

----------------------------------------------------------------------------
(* What stays true while the graph is built.                               *)

WellFormed ==
  /\ circuit \in ParallelCircuits
  /\ \A e \in Element : fanin_of(e) \subseteq Element /\ IsFiniteSet(fanin_of(e))
  /\ \A e \in Element : \A f \in fanin_of(e) : op(f) # "OUTPUT"
  /\ \A e \in Element : op(e) = "INPUT" => fanin_of(e) = {}
  /\ \A e \in Element : IsGate(e) => circuit.call[e] = NoCall
  /\ \A e \in Element : circuit.call[e] \in FunctionCall \cup {NoCall} /\ NoCall \notin FunctionCall
  /\ \A c \in FunctionCall : IsFiniteSet(Args(c)) /\ Args(c) \subseteq Element /\ Returns(c) \subseteq Element
  /\ needed \subseteq Element /\ CircuitOutputs \subseteq needed

\* An element is at least as deep as what it reads, a return deeper than all
\* arguments of its call and as deep as the other returns, which come with it.
Deepening ==
  /\ DOMAIN depth \subseteq Element /\ \A e \in DOMAIN depth : depth[e] \in Nat
  /\ \A e \in DOMAIN depth : \A f \in fanin_of(e) : f \in DOMAIN depth /\ depth[f] <= depth[e]
  /\ \A c \in FunctionCall : \A e \in Returns(c) \cap DOMAIN depth :
       /\ \A o \in Args(c) : o \in DOMAIN depth /\ depth[o] < depth[e]
       /\ \A r \in Returns(c) : r \in DOMAIN depth /\ depth[r] = depth[e]

\* What an element drives influences no output that the element does not.
Influence ==
  /\ DOMAIN outputs \subseteq Element
  /\ \A e \in DOMAIN outputs : outputs[e] \subseteq Nat
  /\ \A e \in DOMAIN outputs : op(e) # "OUTPUT" =>
       \A g \in Fanouts(e) : g \in DOMAIN outputs /\ outputs[g] \subseteq outputs[e]

\* Before the blocks are made there are none.
Phases ==
  /\ phase \in {"depths", "outputs", "blocks"}
  /\ phase # "depths" => needed \subseteq DOMAIN depth
  /\ phase = "blocks" => DOMAIN outputs = Element
  /\ phase # "blocks" => /\ Placed = {} /\ DOMAIN fanins = {} /\ DOMAIN inputs = {}
                         /\ DOMAIN local = {} /\ \A c \in FunctionCall : added[c] = 0

\* The block that an element belongs to.
BlockOf(e) ==
  CASE op(e) = "OUTPUT" -> Leaf
    [] IsReturn(e) -> CallBlock(circuit.call[e], depth[e])
    [] op(e) = "INPUT" /\ ~IsReturn(e) -> Root
    [] IsGate(e) -> IF fanin_of(e) = {} THEN Root
                    ELSE GateBlock(Highest({InputDepth(block[f]) : f \in fanin_of(e)}), outputs[e])

\* Every element is in its block, which reads inputs that are no deeper than it.
Placement ==
  /\ Placed \subseteq Element /\ Placed \subseteq DOMAIN depth
  /\ Placed \subseteq needed \cup UNION {Returns(c) : c \in FunctionCall}
  /\ \A e \in Placed : fanin_of(e) \subseteq Placed /\ block[e] = BlockOf(e)
  /\ \A e \in Placed : op(e) # "OUTPUT" =>
       InputDepth(block[e]) \in Nat /\ InputDepth(block[e]) <= depth[e]
  /\ \A c \in FunctionCall : Returns(c) \cap Placed # {} => Returns(c) \subseteq Placed

\* What the blocks record of each other.
Records ==
  /\ DOMAIN inputs = DOMAIN fanins /\ DOMAIN local \subseteq Placed
  /\ \A b \in DOMAIN inputs : inputs[b] \subseteq Placed
  /\ \A b \in DOMAIN fanins : fanins[b] = {block[f] : f \in inputs[b]}
  /\ Ordered
  /\ DOMAIN added = FunctionCall
  /\ \A c \in FunctionCall : added[c] \in {0, 1} /\ (added[c] = 1 => Returns(c) \subseteq Placed)

GraphInv == WellFormed /\ Deepening /\ Influence /\ Phases /\ Placement /\ Records

\* The invariant holds before the first search.
LEMMA GraphInvInit == ASSUME ParallelAssumption, InitGraph PROVE GraphInv
<1>1. WellFormed
  <2>1. needed \subseteq Element /\ CircuitOutputs \subseteq needed
    BY DEF InitGraph, Reached, Closed
  <2>2. \A S : S \subseteq Element => IsFiniteSet(S)
    BY FS_Subset DEF ParallelAssumption
  <2>3. \A c \in FunctionCall : Args(c) \subseteq Element /\ Returns(c) \subseteq Element
    BY DEF Args, Returns
  <2> QED BY <2>1, <2>2, <2>3 DEF WellFormed, InitGraph, ParallelAssumption, op, fanin_of, IsGate
<1>2. Deepening /\ Influence /\ Phases /\ Placement
  BY DEF Deepening, Influence, Phases, Placement, InitGraph, Placed
<1>3. Records
  BY DEF Records, InitGraph, Ordered, Placed
<1> QED BY <1>1, <1>2, <1>3 DEF GraphInv

\* The circuit stays as it is.
LEMMA Static ==
  ASSUME UNCHANGED circuit
  PROVE  /\ \A e \in Element : /\ op(e)' = op(e) /\ fanin_of(e)' = fanin_of(e) /\ Fanouts(e)' = Fanouts(e)
                              /\ IsReturn(e)' = IsReturn(e) /\ IsGate(e)' = IsGate(e)
         /\ \A c \in FunctionCall : Args(c)' = Args(c) /\ Returns(c)' = Returns(c)
         /\ CircuitOutputs' = CircuitOutputs
  BY DEF op, fanin_of, Fanouts, IsReturn, IsGate, Args, Returns, CircuitOutputs

\* The circuit and what is needed never change.
LEMMA StaticWellFormed ==
  ASSUME WellFormed, UNCHANGED <<circuit, needed>>
  PROVE  WellFormed'
  BY Static DEF WellFormed

----------------------------------------------------------------------------
(* compute_gate_depths.                                                    *)

\* The depth computed from finished depths bounds them.
LEMMA ReadDepths ==
  ASSUME ParallelAssumption, WellFormed, Deepening, NEW S \in SUBSET DOMAIN depth, IsFiniteSet(S)
  PROVE  LET d == Highest({depth[f] : f \in S}) IN d \in Nat /\ \A f \in S : depth[f] <= d
<1> DEFINE T == {depth[f] : f \in S}
<1>1. T \in SUBSET Nat /\ IsFiniteSet(T)
  BY ImageFinite DEF Deepening
<1>2. Highest(T) \in Nat /\ \A n \in T : n <= Highest(T)
  <2> HIDE DEF T
  <2> QED BY <1>1, HighestIs
<1> QED BY <1>2

\* compute_gate_depths, for a gate.
LEMMA DepthDeepens ==
  ASSUME ParallelAssumption, GraphInv, NEW e \in Element, Depth(e)
  PROVE  GraphInv'
<1>1. /\ phase = "depths" /\ e \in needed \ DOMAIN depth /\ ~IsReturn(e)
      /\ fanin_of(e) \subseteq DOMAIN depth
      /\ UNCHANGED <<circuit, needed, phase, outputs, block, local, fanins, inputs, added>>
  BY DEF Depth
<1> DEFINE d == Highest({depth[f] : f \in fanin_of(e)}) + NonLinearity(e)
<1>2. d \in Nat /\ \A f \in fanin_of(e) : depth[f] <= d
  <2>1. IsFiniteSet(fanin_of(e))
    BY DEF GraphInv, WellFormed
  <2>2. NonLinearity(e) \in {0, 1}
    BY DEF NonLinearity
  <2>3. PICK h \in Nat : h = Highest({depth[f] : f \in fanin_of(e)}) /\ \A f \in fanin_of(e) : depth[f] <= h
    BY <1>1, <2>1, ReadDepths DEF GraphInv
  <2>4. \A f \in fanin_of(e) : depth[f] \in Nat
    BY <1>1 DEF GraphInv, Deepening
  <2>5. d = h + NonLinearity(e)
    BY <2>3
  <2> HIDE DEF d
  <2> QED BY <2>2, <2>3, <2>4, <2>5
<1>3. depth' = Put(depth, {e}, d)
  BY DEF Depth
<1> HIDE DEF d
<1>4. /\ DOMAIN depth' = DOMAIN depth \cup {e} /\ depth'[e] = d
      /\ \A f \in DOMAIN depth : depth'[f] = depth[f] /\ f # e
  BY <1>1, <1>3 DEF Put
<1>5. WellFormed'
  BY <1>1, StaticWellFormed DEF GraphInv
<1>6. Deepening'
  <2>1. DOMAIN depth' \subseteq Element /\ \A f \in DOMAIN depth' : depth'[f] \in Nat
    BY <1>2, <1>4 DEF GraphInv, Deepening
  <2>2. ASSUME NEW g \in DOMAIN depth', NEW f \in fanin_of(g)
        PROVE  f \in DOMAIN depth' /\ depth'[f] <= depth'[g]
    BY <1>1, <1>2, <1>4, <2>2 DEF GraphInv, Deepening
  <2>3. ASSUME NEW c \in FunctionCall, NEW r \in Returns(c) \cap DOMAIN depth'
        PROVE  /\ \A o \in Args(c) : o \in DOMAIN depth' /\ depth'[o] < depth'[r]
               /\ \A q \in Returns(c) : q \in DOMAIN depth' /\ depth'[q] = depth'[r]
    <3>1. r # e
      BY <1>1 DEF Returns, IsReturn, GraphInv, WellFormed
    <3> QED BY <1>4, <3>1 DEF GraphInv, Deepening
  <2>4. \A g \in Element : fanin_of(g)' = fanin_of(g)
    BY <1>1, Static
  <2>5. \A c \in FunctionCall : Args(c)' = Args(c) /\ Returns(c)' = Returns(c)
    BY <1>1, Static
  <2> QED BY <2>1, <2>2, <2>3, <2>4, <2>5 DEF Deepening
<1>7. (Influence /\ Phases /\ Placement /\ Records)'
  <2>1. Influence'
    BY <1>1, Static DEF GraphInv, Influence
  <2>2. Phases'
    BY <1>1 DEF GraphInv, Phases, Placed
  <2>3. Placed = {} /\ DOMAIN fanins = {} /\ DOMAIN inputs = {} /\ Placed' = {}
        /\ DOMAIN fanins' = {} /\ DOMAIN inputs' = {} /\ DOMAIN local' = {}
    BY <1>1 DEF GraphInv, Phases, Placed
  <2>4. Placement'
    BY <2>3 DEF Placement
  <2>5. Records'
    BY <1>1, <2>3, Static DEF GraphInv, Records, Ordered
  <2> QED BY <2>1, <2>2, <2>4, <2>5
<1> QED BY <1>5, <1>6, <1>7 DEF GraphInv

\* compute_gate_depths, for a call: its inputs' deepest, plus one.
LEMMA CallDeepens ==
  ASSUME ParallelAssumption, GraphInv, NEW c \in FunctionCall, DepthCall(c)
  PROVE  GraphInv'
<1>1. /\ phase = "depths" /\ (Returns(c) \cap needed) \ DOMAIN depth # {}
      /\ Args(c) \subseteq DOMAIN depth
      /\ UNCHANGED <<circuit, needed, phase, outputs, block, local, fanins, inputs, added>>
  BY DEF DepthCall
<1>2. PICK d \in Nat : /\ d = Highest({depth[o] : o \in Args(c)})
                      /\ \A o \in Args(c) : depth[o] <= d
  <2>1. IsFiniteSet(Args(c))
    BY DEF GraphInv, WellFormed
  <2> QED BY <1>1, <2>1, ReadDepths DEF GraphInv
<1>3. depth' = Put(Put(depth, Args(c), d), Returns(c), d + 1)
  BY <1>2 DEF DepthCall
<1>4. Returns(c) \cap DOMAIN depth = {}
  BY <1>1 DEF GraphInv, Deepening
<1>5. Args(c) \cap Returns(c) = {}
  BY DEF Args, Returns
<1>6. /\ DOMAIN depth' = DOMAIN depth \cup Returns(c)
      /\ \A r \in Returns(c) : depth'[r] = d + 1
      /\ \A o \in Args(c) : depth'[o] = d
      /\ \A f \in DOMAIN depth \ Args(c) : depth'[f] = depth[f]
  <2>1. DOMAIN Put(depth, Args(c), d) = DOMAIN depth
    BY <1>1 DEF Put
  <2>2. DOMAIN depth' = DOMAIN depth \cup Returns(c)
    BY <1>3, <2>1 DEF Put
  <2> QED BY <1>1, <1>3, <1>4, <1>5, <2>2 DEF Put
<1>7. WellFormed'
  BY <1>1, StaticWellFormed DEF GraphInv
<1>8. \A f \in DOMAIN depth : depth'[f] \in Nat /\ depth[f] \in Nat /\ depth[f] <= depth'[f]
  BY <1>2, <1>6 DEF GraphInv, Deepening
<1>9. Deepening'
  <2>1. DOMAIN depth' \subseteq Element /\ \A f \in DOMAIN depth' : depth'[f] \in Nat
    BY <1>2, <1>6 DEF GraphInv, Deepening, WellFormed
  <2>2. ASSUME NEW g \in DOMAIN depth', NEW f \in fanin_of(g)
        PROVE  f \in DOMAIN depth' /\ depth'[f] <= depth'[g]
    <3>1. CASE g \in Returns(c)
      BY <2>1, <3>1 DEF Returns, GraphInv, WellFormed
    <3>2. CASE g \in DOMAIN depth
      <4>1. f \in DOMAIN depth /\ depth[f] <= depth[g]
        BY <3>2 DEF GraphInv, Deepening
      <4>2. f \notin Args(c)
        BY <3>2 DEF GraphInv, Deepening, WellFormed, Args
      <4>3. depth'[f] = depth[f]
        BY <1>6, <4>1, <4>2
      <4> QED BY <1>6, <1>8, <3>2, <4>1, <4>3
    <3> QED BY <1>6, <3>1, <3>2
  <2>3. ASSUME NEW b \in FunctionCall, NEW r \in Returns(b) \cap DOMAIN depth'
        PROVE  /\ \A o \in Args(b) : o \in DOMAIN depth' /\ depth'[o] < depth'[r]
               /\ \A q \in Returns(b) : q \in DOMAIN depth' /\ depth'[q] = depth'[r]
    <3>1. CASE b = c
      BY <1>1, <1>2, <1>6, <3>1
    <3>2. CASE b # c
      <4>1. Returns(b) \cap Returns(c) = {} /\ Args(b) \cap Args(c) = {} /\ Returns(b) \cap Args(c) = {}
        BY <3>2 DEF Returns, Args
      <4>2. r \in DOMAIN depth
        BY <1>6, <4>1
      <4>3. /\ \A o \in Args(b) : o \in DOMAIN depth /\ depth[o] < depth[r]
            /\ \A q \in Returns(b) : q \in DOMAIN depth /\ depth[q] = depth[r]
        BY <4>2 DEF GraphInv, Deepening
      <4> QED BY <1>6, <4>1, <4>3
    <3> QED BY <3>1, <3>2
  <2>4. \A g \in Element : fanin_of(g)' = fanin_of(g)
    BY <1>1, Static
  <2>5. \A b \in FunctionCall : Args(b)' = Args(b) /\ Returns(b)' = Returns(b)
    BY <1>1, Static
  <2> QED BY <2>1, <2>2, <2>3, <2>4, <2>5 DEF Deepening
<1>10. (Influence /\ Phases /\ Placement /\ Records)'
  <2>1. Influence'
    BY <1>1, Static DEF GraphInv, Influence
  <2>2. Phases'
    BY <1>1 DEF GraphInv, Phases, Placed
  <2>3. Placed = {} /\ DOMAIN fanins = {} /\ DOMAIN inputs = {} /\ Placed' = {}
        /\ DOMAIN fanins' = {} /\ DOMAIN inputs' = {} /\ DOMAIN local' = {}
    BY <1>1 DEF GraphInv, Phases, Placed
  <2>4. Placement'
    BY <2>3 DEF Placement
  <2>5. Records'
    BY <1>1, <2>3, Static DEF GraphInv, Records, Ordered
  <2> QED BY <2>1, <2>2, <2>4, <2>5
<1> QED BY <1>7, <1>9, <1>10 DEF GraphInv

----------------------------------------------------------------------------
(* assign_closest_output, and the steps between the searches.              *)

\* compute_closest_outputs, for an element.
LEMMA OutputsSpread ==
  ASSUME ParallelAssumption, GraphInv, NEW e \in Element, ClosestOutputs(e)
  PROVE  GraphInv'
<1> DEFINE new == IF op(e) = "OUTPUT" THEN OutputDepth(e) ELSE UNION {outputs[g] : g \in Fanouts(e)}
<1>1. /\ phase = "outputs" /\ e \notin DOMAIN outputs /\ Fanouts(e) \subseteq DOMAIN outputs
      /\ UNCHANGED <<circuit, needed, phase, depth, block, local, fanins, inputs, added>>
      /\ outputs' = Put(outputs, {e}, new)
  BY DEF ClosestOutputs
<1>2. new \subseteq Nat
  <2>1. OutputDepth(e) \subseteq Nat
    BY DEF OutputDepth, GraphInv, Deepening, ParallelAssumption
  <2>2. \A g \in Fanouts(e) : outputs[g] \subseteq Nat
    BY <1>1 DEF GraphInv, Influence
  <2> QED BY <2>1, <2>2
<1>3. op(e) # "OUTPUT" => \A g \in Fanouts(e) : outputs[g] \subseteq new
  OBVIOUS
<1> HIDE DEF new
<1>4. /\ DOMAIN outputs' = DOMAIN outputs \cup {e} /\ outputs'[e] = new
      /\ \A f \in DOMAIN outputs : outputs'[f] = outputs[f] /\ f # e
  BY <1>1 DEF Put
<1>5. Influence'
  <2>1. DOMAIN outputs' \subseteq Element /\ \A f \in DOMAIN outputs' : outputs'[f] \subseteq Nat
    BY <1>2, <1>4 DEF GraphInv, Influence
  <2>2. \A f \in DOMAIN outputs' : op(f) # "OUTPUT" =>
          \A g \in Fanouts(f) : g \in DOMAIN outputs' /\ outputs'[g] \subseteq outputs'[f]
    BY <1>1, <1>3, <1>4 DEF GraphInv, Influence
  <2>3. \A f \in Element : op(f)' = op(f) /\ Fanouts(f)' = Fanouts(f)
    BY <1>1, Static
  <2> QED BY <2>1, <2>2, <2>3 DEF Influence
<1>6. WellFormed'
  BY <1>1, StaticWellFormed DEF GraphInv
<1>7. (Deepening /\ Phases /\ Placement /\ Records)'
  <2>1. Deepening'
    BY <1>1, Static DEF GraphInv, Deepening
  <2>2. Phases'
    BY <1>1 DEF GraphInv, Phases, Placed
  <2>3. Placed = {} /\ DOMAIN fanins = {} /\ DOMAIN inputs = {} /\ Placed' = {}
        /\ DOMAIN fanins' = {} /\ DOMAIN inputs' = {} /\ DOMAIN local' = {}
    BY <1>1 DEF GraphInv, Phases, Placed
  <2>4. Placement'
    BY <2>3 DEF Placement
  <2>5. Records'
    BY <1>1, <2>3, Static DEF GraphInv, Records, Ordered
  <2> QED BY <2>1, <2>2, <2>4, <2>5
<1> QED BY <1>5, <1>6, <1>7 DEF GraphInv

\* One search ends and the next begins.
LEMMA SearchEnds ==
  ASSUME ParallelAssumption, GraphInv, DepthsDone \/ OutputsDone
  PROVE  GraphInv'
<1>1. UNCHANGED <<circuit, needed, depth, outputs, block, local, fanins, inputs, added>>
  BY DEF DepthsDone, OutputsDone
<1>2. WellFormed'
  BY <1>1, StaticWellFormed DEF GraphInv
<1>3. Deepening' /\ Influence'
  BY <1>1, Static DEF GraphInv, Deepening, Influence
<1>4. Phases'
  BY <1>1 DEF GraphInv, Phases, Placed, DepthsDone, OutputsDone
<1>5. /\ Placed = {} /\ DOMAIN fanins = {} /\ DOMAIN inputs = {} /\ Placed' = {}
      /\ DOMAIN fanins' = {} /\ DOMAIN inputs' = {} /\ DOMAIN local' = {}
  BY <1>1 DEF GraphInv, Phases, Placed, DepthsDone, OutputsDone
<1>6. Placement'
  BY <1>5 DEF Placement
<1>7. Records'
  BY <1>1, <1>5, Static DEF GraphInv, Records, Ordered
<1> QED BY <1>2, <1>3, <1>4, <1>6, <1>7 DEF GraphInv

----------------------------------------------------------------------------
(* assign_element_to_block.                                                *)

\* Placing changes none of what the earlier searches found.
LEMMA PlacingKeeps ==
  ASSUME GraphInv, phase = "blocks", UNCHANGED <<circuit, needed, phase, depth, outputs>>
  PROVE  (WellFormed /\ Deepening /\ Influence /\ Phases)'
<1>1. WellFormed'
  BY StaticWellFormed DEF GraphInv
<1>2. Deepening' /\ Influence'
  BY Static DEF GraphInv, Deepening, Influence
<1>3. Phases'
  BY DEF GraphInv, Phases
<1> QED BY <1>1, <1>2, <1>3

\* Where an element belongs is settled when its fanins have their blocks.
LEMMA BlockKept ==
  ASSUME UNCHANGED <<circuit, depth, outputs>>, NEW e \in Element,
         \A f \in fanin_of(e) : block'[f] = block[f]
  PROVE  BlockOf(e)' = BlockOf(e)
<1>1. /\ op(e)' = op(e) /\ fanin_of(e)' = fanin_of(e)
      /\ IsReturn(e)' = IsReturn(e) /\ IsGate(e)' = IsGate(e)
  BY Static
<1>2. {InputDepth(block[f]) : f \in fanin_of(e)}' = {InputDepth(block[f]) : f \in fanin_of(e)}
  BY <1>1 DEF InputDepth
<1>3. Highest({InputDepth(block[f]) : f \in fanin_of(e)})' = Highest({InputDepth(block[f]) : f \in fanin_of(e)})
  BY <1>2
<1> QED BY <1>1, <1>3 DEF BlockOf

\* Every element but a return is put in its block alone.
LEMMA EnterKeeps ==
  ASSUME ParallelAssumption, GraphInv, phase = "blocks", NEW e \in needed \ Placed, NEW b,
         Enter(e, b), UNCHANGED <<circuit, needed, phase, depth, outputs, added>>,
         fanin_of(e) \subseteq Placed, ~IsReturn(e), b = BlockOf(e),
         op(e) # "OUTPUT" => InputDepth(b) \in Nat /\ InputDepth(b) <= depth[e],
         \A f \in fanin_of(e) : block[f] # b => Before(block[f], b)
  PROVE  GraphInv'
<1>1. (WellFormed /\ Deepening /\ Influence /\ Phases)'
  BY PlacingKeeps
<1>2. e \in Element /\ e \in DOMAIN depth
  BY DEF GraphInv, WellFormed, Phases
<1>3. /\ Placed' = Placed \cup {e} /\ block'[e] = b
      /\ \A f \in Placed : block'[f] = block[f] /\ f # e
  BY DEF Enter, Put, Placed
<1>4. Placement'
  <2>1. /\ Placed' \subseteq Element /\ Placed' \subseteq DOMAIN depth
        /\ Placed' \subseteq needed \cup UNION {Returns(c) : c \in FunctionCall}
    BY <1>2, <1>3 DEF GraphInv, Placement
  <2>2. ASSUME NEW f \in Placed' PROVE fanin_of(f) \subseteq Placed /\ block'[f] = BlockOf(f)
    BY <1>3, <2>2 DEF GraphInv, Placement
  <2>3. ASSUME NEW f \in Placed' PROVE BlockOf(f)' = BlockOf(f)
    BY <1>3, <2>1, <2>2, <2>3, BlockKept
  <2>4. ASSUME NEW f \in Placed', op(f) # "OUTPUT"
        PROVE  InputDepth(block'[f]) \in Nat /\ InputDepth(block'[f]) <= depth[f]
    BY <1>3, <2>4 DEF GraphInv, Placement
  <2>5. ASSUME NEW c \in FunctionCall, Returns(c) \cap Placed' # {} PROVE Returns(c) \subseteq Placed'
    <3>1. e \notin Returns(c)
      BY DEF Returns, IsReturn, GraphInv, WellFormed
    <3> QED BY <1>3, <2>5, <3>1 DEF GraphInv, Placement
  <2>6. \A f \in Element : op(f)' = op(f) /\ fanin_of(f)' = fanin_of(f)
    BY Static
  <2>7. \A c \in FunctionCall : Returns(c)' = Returns(c)
    BY Static
  <2>8. {Returns(c) : c \in FunctionCall}' = {Returns(c) : c \in FunctionCall}
    BY <2>7
  <2> QED BY <1>3, <2>1, <2>2, <2>3, <2>4, <2>5, <2>6, <2>7, <2>8 DEF Placement
<1>5. Records'
  <2>1. /\ fanins' = Put(fanins, {b}, At(fanins, b) \cup ({block[f] : f \in fanin_of(e)} \ {b}))
        /\ inputs' = Put(inputs, {b}, At(inputs, b) \cup {f \in fanin_of(e) : block[f] # b})
        /\ DOMAIN local' \subseteq Placed'
    BY <1>3 DEF Enter, Put, GraphInv, Records
  <2>2. /\ DOMAIN inputs' = DOMAIN fanins' /\ DOMAIN fanins' = DOMAIN fanins \cup {b}
        /\ \A a \in DOMAIN fanins \ {b} : fanins'[a] = fanins[a] /\ inputs'[a] = inputs[a]
        /\ fanins'[b] = At(fanins, b) \cup ({block[f] : f \in fanin_of(e)} \ {b})
        /\ inputs'[b] = At(inputs, b) \cup {f \in fanin_of(e) : block[f] # b}
    BY <2>1 DEF Put, GraphInv, Records
  <2>3. At(inputs, b) \subseteq Placed /\ At(fanins, b) = {block[f] : f \in At(inputs, b)}
        /\ \A a \in At(fanins, b) : Before(a, b)
    BY DEF At, GraphInv, Records, Ordered
  <2>4. \A a \in DOMAIN inputs' : inputs'[a] \subseteq Placed
    BY <2>2, <2>3 DEF GraphInv, Records
  <2>5. ASSUME NEW a \in DOMAIN fanins' PROVE fanins'[a] = {block'[f] : f \in inputs'[a]}
    <3>1. CASE a = b
      BY <1>3, <2>2, <2>3, <2>4, <3>1
    <3>2. CASE a # b
      <4>1. fanins[a] = {block[f] : f \in inputs[a]} /\ inputs[a] \subseteq Placed
        BY <2>2, <3>2 DEF GraphInv, Records
      <4> QED BY <1>3, <2>2, <3>2, <4>1
    <3> QED BY <3>1, <3>2
  <2>6. ASSUME NEW a \in DOMAIN fanins', NEW d \in fanins'[a] PROVE Before(d, a)
    <3>1. CASE a = b
      BY <2>2, <2>3, <2>6, <3>1
    <3>2. CASE a # b
      BY <2>2, <2>6, <3>2 DEF GraphInv, Records, Ordered
    <3> QED BY <3>1, <3>2
  <2>7. Ordered'
    BY <2>6 DEF Ordered
  <2>8. \A c \in FunctionCall : Returns(c)' = Returns(c)
    BY Static
  <2>9. /\ DOMAIN added' = FunctionCall
        /\ \A c \in FunctionCall : added'[c] \in {0, 1} /\ (added'[c] = 1 => Returns(c)' \subseteq Placed')
    BY <1>3, <2>8 DEF GraphInv, Records
  <2>10. \A a \in DOMAIN inputs' : inputs'[a] \subseteq Placed'
    BY <1>3, <2>4
  <2> QED BY <2>1, <2>2, <2>5, <2>7, <2>9, <2>10 DEF Records
<1> QED BY <1>1, <1>4, <1>5 DEF GraphInv

\* What an element reads is in no leaf, and its block reads inputs no deeper
\* than the element.
LEMMA Read ==
  ASSUME GraphInv, NEW e \in Element, NEW f \in fanin_of(e) \cap Placed
  PROVE  /\ block[f] # Leaf /\ block[f] = BlockOf(f) /\ f \in DOMAIN depth
         /\ InputDepth(block[f]) \in Nat /\ InputDepth(block[f]) <= depth[f]
         /\ IsReturn(f) \/ (op(f) = "INPUT" /\ ~IsReturn(f)) \/ IsGate(f)
<1>1. op(f) # "OUTPUT" /\ f \in Element
  BY DEF GraphInv, WellFormed
<1>2. IsReturn(f) \/ (op(f) = "INPUT" /\ ~IsReturn(f)) \/ IsGate(f)
  BY <1>1 DEF IsReturn, IsGate
<1>3. /\ block[f] = BlockOf(f) /\ f \in DOMAIN depth
      /\ InputDepth(block[f]) \in Nat /\ InputDepth(block[f]) <= depth[f]
  BY <1>1 DEF GraphInv, Placement
<1>4. BlockOf(f) # Leaf
  BY <1>1, <1>2 DEF BlockOf, Leaf, Root, CallBlock, GateBlock, IsReturn, IsGate
<1> QED BY <1>2, <1>3, <1>4

\* An INPUT gate is placed.
LEMMA InputPlaced ==
  ASSUME ParallelAssumption, GraphInv, NEW e \in Element, PlaceInput(e)
  PROVE  GraphInv'
<1>1. /\ phase = "blocks" /\ e \in needed \ Placed /\ op(e) = "INPUT" /\ ~IsReturn(e)
      /\ Enter(e, Root) /\ UNCHANGED <<circuit, needed, phase, depth, outputs, added>>
  BY DEF PlaceInput
<1>2. fanin_of(e) = {} /\ e \in DOMAIN depth /\ depth[e] \in Nat
  BY <1>1 DEF GraphInv, WellFormed, Phases, Deepening
<1>3. Root = BlockOf(e) /\ InputDepth(Root) = 0
  BY <1>1 DEF BlockOf, Root, InputDepth, IsReturn, IsGate
<1> QED BY <1>1, <1>2, <1>3, EnterKeeps

\* An OUTPUT gate is placed.
LEMMA OutputPlaced ==
  ASSUME ParallelAssumption, GraphInv, NEW e \in Element, PlaceOutput(e)
  PROVE  GraphInv'
<1>1. /\ phase = "blocks" /\ e \in CircuitOutputs \ Placed /\ fanin_of(e) \subseteq Placed
      /\ Enter(e, Leaf) /\ UNCHANGED <<circuit, needed, phase, depth, outputs, added>>
  BY DEF PlaceOutput
<1>2. e \in needed \ Placed /\ op(e) = "OUTPUT" /\ ~IsReturn(e)
  BY <1>1 DEF GraphInv, WellFormed, CircuitOutputs, IsReturn
<1>3. Leaf = BlockOf(e)
  BY <1>2 DEF BlockOf, IsReturn, IsGate
<1>4. \A f \in fanin_of(e) : block[f] # Leaf => Before(block[f], Leaf)
  BY DEF Before, Leaf, Root
<1> QED BY <1>1, <1>2, <1>3, <1>4, EnterKeeps

\* A gate is placed, in the block of its fanins' depth and its closest outputs.
LEMMA GatePlaced ==
  ASSUME ParallelAssumption, GraphInv, NEW e \in Element, PlaceGate(e)
  PROVE  GraphInv'
<1> DEFINE D == Highest({InputDepth(block[f]) : f \in fanin_of(e)})
           b == IF fanin_of(e) = {} THEN Root ELSE GateBlock(D, outputs[e])
<1>1. /\ phase = "blocks" /\ e \in needed \ Placed /\ IsGate(e) /\ fanin_of(e) \subseteq Placed
      /\ Enter(e, b) /\ UNCHANGED <<circuit, needed, phase, depth, outputs, added>>
  BY DEF PlaceGate
<1>2. ~IsReturn(e) /\ op(e) # "OUTPUT" /\ op(e) # "INPUT"
  BY <1>1 DEF IsGate, IsReturn
<1>3. b = BlockOf(e)
  BY <1>1, <1>2 DEF BlockOf
<1>4. e \in DOMAIN depth /\ depth[e] \in Nat /\ \A f \in fanin_of(e) : depth[f] \in Nat /\ depth[f] <= depth[e]
  BY <1>1 DEF GraphInv, Phases, Deepening
<1>5. \A f \in fanin_of(e) : InputDepth(block[f]) \in Nat /\ InputDepth(block[f]) <= depth[f]
  BY <1>1, Read
<1>6. D \in Nat /\ D <= depth[e] /\ \A f \in fanin_of(e) : InputDepth(block[f]) <= D
  <2> DEFINE S == {InputDepth(block[f]) : f \in fanin_of(e)}
             g == [f \in fanin_of(e) |-> InputDepth(block[f])]
  <2>1. S = {g[f] : f \in fanin_of(e)}
    OBVIOUS
  <2>2. IsFiniteSet(fanin_of(e))
    BY DEF GraphInv, WellFormed
  <2>3. IsFiniteSet({g[f] : f \in fanin_of(e)})
    <3> HIDE DEF g
    <3> QED BY <2>2, ImageFinite
  <2>4. S \in SUBSET Nat /\ \A n \in S : n <= depth[e]
    BY <1>4, <1>5
  <2>5. Highest(S) \in Nat /\ Highest(S) <= depth[e] /\ \A n \in S : n <= Highest(S)
    <3> HIDE DEF S, g
    <3> QED BY <1>4, <2>1, <2>3, <2>4, HighestIs
  <2> QED BY <2>5
<1>7. InputDepth(b) \in Nat /\ InputDepth(b) <= depth[e]
  <2> HIDE DEF D
  <2> QED BY <1>4, <1>6 DEF InputDepth, Root, GateBlock
<1>8. ASSUME NEW f \in fanin_of(e), block[f] # b PROVE Before(block[f], b)
  <2>1. /\ block[f] # Leaf /\ block[f] = BlockOf(f) /\ InputDepth(block[f]) \in Nat
        /\ IsReturn(f) \/ (op(f) = "INPUT" /\ ~IsReturn(f)) \/ IsGate(f)
        /\ f \in Element
    BY <1>1, Read DEF GraphInv, WellFormed
  <2>2. b = GateBlock(D, outputs[e]) /\ InputDepth(block[f]) <= D
    BY <1>6
  <2> HIDE DEF D
  <2>3. b # Root /\ InputDepth(b) = D /\ b[1] = "gate" /\ b[3] = outputs[e]
    BY <2>2 DEF GateBlock, Root, InputDepth
  <2> HIDE DEF b
  <2>4. CASE block[f] = Root
    BY <2>1, <2>3, <2>4 DEF Before
  <2>5. CASE IsReturn(f)
    <3>0. block[f] = CallBlock(circuit.call[f], depth[f])
      BY <2>1, <2>5 DEF BlockOf, IsReturn, IsGate
    <3>1. block[f][1] = "call"
      BY <3>0 DEF CallBlock
    <3> QED BY <1>6, <2>1, <2>2, <2>3, <3>1 DEF Before
  <2>6. CASE IsGate(f) /\ block[f] # Root
    <3>1. \E n : block[f] = GateBlock(n, outputs[f])
      BY <2>1, <2>6 DEF BlockOf, IsGate, IsReturn
    <3>2. PICK n : block[f] = GateBlock(n, outputs[f])
      BY <3>1
    <3>3. block[f][1] = "gate" /\ block[f][3] = outputs[f] /\ InputDepth(block[f]) = n
      BY <3>2 DEF GateBlock, InputDepth
    <3>4. outputs[e] \subseteq outputs[f]
      <4>1. e \in Fanouts(f) /\ f \in DOMAIN outputs /\ op(f) # "OUTPUT"
        BY <1>1, <2>1, <2>6 DEF Fanouts, GraphInv, Phases, IsGate
      <4> QED BY <4>1 DEF GraphInv, Influence
    <3>5. n = D => outputs[e] # outputs[f]
      BY <1>8, <2>2, <3>2
    <3> QED BY <1>6, <2>1, <2>2, <2>3, <3>3, <3>4, <3>5 DEF Before
  <2>7. op(f) = "INPUT" /\ ~IsReturn(f) => block[f] = Root
    BY <2>1 DEF BlockOf, IsReturn, IsGate
  <2> QED BY <2>1, <2>4, <2>5, <2>6, <2>7
<1> HIDE DEF b
<1> QED BY <1>1, <1>2, <1>3, <1>7, <1>8, EnterKeeps

\* A call is placed, in a block of its own.
LEMMA CallPlaced ==
  ASSUME ParallelAssumption, GraphInv, NEW c \in FunctionCall, PlaceCall(c)
  PROVE  GraphInv'
<1>1. PICK e \in (Returns(c) \cap needed) \ Placed :
        LET b == CallBlock(c, depth[e])
        IN  /\ block'  = Put(block, Returns(c), b)
            /\ fanins' = Put(fanins, {b}, {block[f] : f \in Drivers(c)})
            /\ inputs' = Put(inputs, {b}, Drivers(c))
            /\ added'  = [added EXCEPT ![c] = @ + 1]
  BY DEF PlaceCall
<1> DEFINE b == CallBlock(c, depth[e])
<1>2. /\ phase = "blocks" /\ Drivers(c) \subseteq Placed
      /\ UNCHANGED <<circuit, needed, phase, depth, outputs, local>>
  BY DEF PlaceCall
<1>3. (WellFormed /\ Deepening /\ Influence /\ Phases)'
  BY <1>2, PlacingKeeps
<1>4. Returns(c) \cap Placed = {} /\ added[c] = 0
  BY <1>1 DEF GraphInv, Placement, Records
<1>5. /\ e \in DOMAIN depth /\ depth[e] \in Nat
      /\ \A o \in Args(c) : o \in DOMAIN depth /\ depth[o] < depth[e] /\ depth[o] \in Nat
      /\ \A r \in Returns(c) : r \in DOMAIN depth /\ depth[r] = depth[e]
  BY <1>1, <1>2 DEF GraphInv, Phases, Deepening
<1>6. /\ Placed' = Placed \cup Returns(c)
      /\ \A f \in Placed : block'[f] = block[f]
      /\ \A r \in Returns(c) : block'[r] = b
  BY <1>1, <1>4 DEF Put, Placed
<1>7. \A r \in Returns(c) : /\ r \in Element /\ op(r) = "INPUT" /\ IsReturn(r) /\ fanin_of(r) = {}
                            /\ BlockOf(r) = b
  <2>1. \A r \in Returns(c) : /\ r \in Element /\ op(r) = "INPUT" /\ IsReturn(r) /\ fanin_of(r) = {}
                              /\ circuit.call[r] = c
    BY DEF Returns, IsReturn, GraphInv, WellFormed
  <2> QED BY <1>5, <2>1 DEF BlockOf, IsGate
<1>8. InputDepth(b) = depth[e]
  BY DEF InputDepth, CallBlock
<1>9. b # Root /\ b # Leaf
  BY DEF CallBlock, Root, Leaf
<1>10. ASSUME NEW f \in Drivers(c) PROVE Before(block[f], b)
  <2>1. PICK o \in Args(c) : f \in fanin_of(o)
    BY DEF Drivers
  <2>2. o \in Element /\ f \in Placed
    BY <1>2, <2>1 DEF Args
  <2>3. block[f] # Leaf /\ InputDepth(block[f]) \in Nat /\ InputDepth(block[f]) <= depth[f]
    BY <2>1, <2>2, Read
  <2>4. depth[f] \in Nat /\ depth[f] <= depth[o]
    BY <1>5, <2>1 DEF GraphInv, Deepening
  <2>5. InputDepth(block[f]) < InputDepth(b)
    <3> HIDE DEF b
    <3> QED BY <1>5, <1>8, <2>1, <2>3, <2>4
  <2> QED BY <1>9, <2>3, <2>5 DEF Before
<1> HIDE DEF b
<1>11. Placement'
  <2>1. /\ Placed' \subseteq Element /\ Placed' \subseteq DOMAIN depth
        /\ Placed' \subseteq needed \cup UNION {Returns(a) : a \in FunctionCall}
    BY <1>5, <1>6, <1>7 DEF GraphInv, Placement
  <2>2. ASSUME NEW f \in Placed' PROVE fanin_of(f) \subseteq Placed /\ block'[f] = BlockOf(f)
    BY <1>6, <1>7, <2>2 DEF GraphInv, Placement
  <2>3. ASSUME NEW f \in Placed' PROVE BlockOf(f)' = BlockOf(f)
    BY <1>2, <1>6, <2>1, <2>2, <2>3, BlockKept
  <2>4. ASSUME NEW f \in Placed', op(f) # "OUTPUT"
        PROVE  InputDepth(block'[f]) \in Nat /\ InputDepth(block'[f]) <= depth[f]
    BY <1>5, <1>6, <1>8, <2>4 DEF GraphInv, Placement
  <2>5. ASSUME NEW a \in FunctionCall, Returns(a) \cap Placed' # {} PROVE Returns(a) \subseteq Placed'
    <3>1. a = c \/ Returns(a) \cap Returns(c) = {}
      BY DEF Returns
    <3> QED BY <1>6, <2>5, <3>1 DEF GraphInv, Placement
  <2>6. \A f \in Element : op(f)' = op(f) /\ fanin_of(f)' = fanin_of(f)
    BY <1>2, Static
  <2>7. \A a \in FunctionCall : Returns(a)' = Returns(a)
    BY <1>2, Static
  <2>8. {Returns(a) : a \in FunctionCall}' = {Returns(a) : a \in FunctionCall}
    BY <2>7
  <2> QED BY <1>2, <1>6, <2>1, <2>2, <2>3, <2>4, <2>5, <2>6, <2>7, <2>8 DEF Placement
<1>12. Records'
  <2>1. /\ DOMAIN inputs' = DOMAIN fanins' /\ DOMAIN fanins' = DOMAIN fanins \cup {b}
        /\ \A a \in DOMAIN fanins \ {b} : fanins'[a] = fanins[a] /\ inputs'[a] = inputs[a]
        /\ fanins'[b] = {block[f] : f \in Drivers(c)} /\ inputs'[b] = Drivers(c)
    BY <1>1 DEF Put, b, GraphInv, Records
  <2>2. \A a \in DOMAIN inputs' : inputs'[a] \subseteq Placed
    BY <1>2, <2>1 DEF GraphInv, Records
  <2>3. ASSUME NEW a \in DOMAIN fanins' PROVE fanins'[a] = {block'[f] : f \in inputs'[a]}
    <3>1. CASE a = b
      BY <1>6, <2>1, <2>2, <3>1
    <3>2. CASE a # b
      <4>1. fanins[a] = {block[f] : f \in inputs[a]} /\ inputs[a] \subseteq Placed
        BY <2>1, <3>2 DEF GraphInv, Records
      <4> QED BY <1>6, <2>1, <3>2, <4>1
    <3> QED BY <3>1, <3>2
  <2>4. ASSUME NEW a \in DOMAIN fanins', NEW d \in fanins'[a] PROVE Before(d, a)
    <3>1. CASE a = b
      BY <1>10, <2>1, <2>4, <3>1
    <3>2. CASE a # b
      BY <2>1, <2>4, <3>2 DEF GraphInv, Records, Ordered
    <3> QED BY <3>1, <3>2
  <2>5. Ordered'
    BY <2>4 DEF Ordered
  <2>6. \A a \in FunctionCall : Returns(a)' = Returns(a)
    BY <1>2, Static
  <2>7. /\ DOMAIN added' = FunctionCall
        /\ \A a \in FunctionCall : added'[a] \in {0, 1} /\ (added'[a] = 1 => Returns(a)' \subseteq Placed')
    BY <1>1, <1>4, <1>6, <2>6 DEF GraphInv, Records
  <2>8. \A a \in DOMAIN inputs' : inputs'[a] \subseteq Placed'
    BY <1>6, <2>2
  <2>9. DOMAIN local' \subseteq Placed'
    BY <1>2, <1>6 DEF GraphInv, Records
  <2> QED BY <2>1, <2>3, <2>5, <2>7, <2>8, <2>9 DEF Records
<1> QED BY <1>3, <1>11, <1>12 DEF GraphInv

\* Every step keeps the invariant.
LEMMA GraphInvStep == ASSUME ParallelAssumption, GraphInv, [NextGraph]_graph_vars PROVE GraphInv'
<1>1. CASE DepthsDone \/ OutputsDone
  BY <1>1, SearchEnds
<1>2. ASSUME NEW e \in Element, Depth(e) PROVE GraphInv'
  BY <1>2, DepthDeepens
<1>3. ASSUME NEW e \in Element, ClosestOutputs(e) PROVE GraphInv'
  BY <1>3, OutputsSpread
<1>4. ASSUME NEW e \in Element, PlaceInput(e) PROVE GraphInv'
  BY <1>4, InputPlaced
<1>5. ASSUME NEW e \in Element, PlaceGate(e) PROVE GraphInv'
  BY <1>5, GatePlaced
<1>6. ASSUME NEW e \in Element, PlaceOutput(e) PROVE GraphInv'
  BY <1>6, OutputPlaced
<1>7. ASSUME NEW c \in FunctionCall, DepthCall(c) PROVE GraphInv'
  BY <1>7, CallDeepens
<1>8. ASSUME NEW c \in FunctionCall, PlaceCall(c) PROVE GraphInv'
  BY <1>8, CallPlaced
<1>9. CASE UNCHANGED graph_vars
  <2>1. UNCHANGED <<circuit, needed, phase, depth, outputs, block, local, fanins, inputs, added>>
    BY <1>9 DEF graph_vars
  <2>2. WellFormed' /\ Deepening' /\ Influence' /\ Phases'
    BY <2>1, Static, StaticWellFormed DEF GraphInv, Deepening, Influence, Phases, Placed
  <2>3. \A e \in Placed : BlockOf(e)' = BlockOf(e)
    BY <2>1, BlockKept DEF GraphInv, Placement
  <2>4. {Returns(a) : a \in FunctionCall}' = {Returns(a) : a \in FunctionCall} /\ Placed' = Placed
    BY <2>1 DEF Returns, op, Placed
  <2>5. Placement'
    BY <2>1, <2>3, <2>4, Static DEF GraphInv, Placement
  <2>6. Records'
    BY <2>1, <2>4, Static DEF GraphInv, Records, Ordered
  <2> QED BY <2>2, <2>5, <2>6 DEF GraphInv
<1> QED BY <1>1, <1>2, <1>3, <1>4, <1>5, <1>6, <1>7, <1>8, <1>9 DEF NextGraph

\* It holds in every state.
LEMMA GraphAlways == ASSUME ParallelAssumption PROVE SpecGraph => []GraphInv
<1>1. InitGraph => GraphInv
  BY GraphInvInit
<1>2. GraphInv /\ [NextGraph]_graph_vars => GraphInv'
  BY GraphInvStep
<1> QED BY <1>1, <1>2, PTL DEF SpecGraph

----------------------------------------------------------------------------
(* The heights of the blocks.                                              *)

\* What makes an element as deep as it is.
Driven ==
  /\ \A e \in DOMAIN depth : ~IsReturn(e) /\ circuit.call[e] = NoCall =>
       depth[e] <= NonLinearity(e) \/ \E f \in fanin_of(e) : depth[e] <= depth[f] + NonLinearity(e)
  /\ \A c \in FunctionCall : \A o \in Args(c) \cap DOMAIN depth :
       depth[o] = 0 \/ \E f \in Drivers(c) \cap DOMAIN depth : depth[o] <= depth[f]
  /\ \A c \in FunctionCall : \A r \in Returns(c) \cap DOMAIN depth :
       depth[r] <= 1 \/ \E f \in Drivers(c) : depth[r] <= depth[f] + 1

\* Every block has elements, and all but the returns are counted.
Filled ==
  /\ DOMAIN local = {x \in Placed : ~IsReturn(x)} /\ \A x \in DOMAIN local : local[x] \in Nat
  /\ DOMAIN fanins = {block[x] : x \in Placed}

\* w bounds the heights on every way to a block.
Bounds(w) ==
  \A b \in DOMAIN fanins :
    w[b] \in Nat /\ \A a \in fanins[b] \cap DOMAIN fanins : w[a] + Height(a) <= w[b]

\* Any such bound covers the depths; a later one bounds the ways there are now,
\* so this is kept although all heights grow.
Covered ==
  \A w : Bounds(w) =>
    /\ \A e \in DOMAIN local : depth[e] <= w[block[e]] + local[e]
    /\ \A e \in Placed : IsReturn(e) => depth[e] <= w[block[e]] + 1

\* What Height says of a block.
Heights ==
  \A b : /\ Height(b) \in Nat
         /\ \A x \in DOMAIN local : block[x] = b => local[x] <= Height(b)
         /\ \A x \in Placed : IsReturn(x) /\ block[x] = b => Height(b) = 1

\* Only returns are in blocks of calls.
LEMMA CallKind ==
  ASSUME GraphInv, NEW x \in Placed
  PROVE  block[x][1] = "call" <=> IsReturn(x)
<1>1. block[x] = BlockOf(x) /\ x \in Element
  BY DEF GraphInv, Placement
<1>2. CASE op(x) = "OUTPUT"
  BY <1>1, <1>2 DEF BlockOf, IsReturn, IsGate, Leaf
<1>3. CASE IsReturn(x)
  BY <1>1, <1>3 DEF BlockOf, IsReturn, IsGate, CallBlock
<1>4. CASE op(x) = "INPUT" /\ ~IsReturn(x)
  BY <1>1, <1>4 DEF BlockOf, IsReturn, IsGate, Root
<1>5. CASE IsGate(x)
  <2>1. ~IsReturn(x)
    BY <1>5 DEF IsGate, IsReturn
  <2>2. \E d, S : block[x] = Root \/ block[x] = GateBlock(d, S)
    BY <1>1, <1>5 DEF BlockOf, IsGate, IsReturn
  <2> QED BY <2>1, <2>2 DEF Root, GateBlock
<1> QED BY <1>2, <1>3, <1>4, <1>5 DEF IsGate

\* The height of a block is that of its highest element, and 1 for a call.
LEMMA HeightsHold == ParallelAssumption /\ GraphInv /\ Filled => Heights
<1> SUFFICES ASSUME ParallelAssumption, GraphInv, Filled, NEW b
             PROVE  /\ Height(b) \in Nat
                    /\ \A x \in DOMAIN local : block[x] = b => local[x] <= Height(b)
                    /\ \A x \in Placed : IsReturn(x) /\ block[x] = b => Height(b) = 1
  BY DEF Heights
<1>1. CASE b[1] = "call"
  <2>1. Height(b) = 1
    BY <1>1 DEF Height
  <2> QED BY <1>1, <2>1, CallKind DEF Filled
<1>2. CASE b[1] # "call"
  <2> DEFINE X == {x \in Placed : block[x] = b}
             S == {local[x] : x \in X}
  <2>1. X \subseteq DOMAIN local /\ \A x \in Placed : block[x] = b => ~IsReturn(x)
    BY <1>2, CallKind DEF Filled
  <2>2. IsFiniteSet(X)
    BY FS_Subset DEF ParallelAssumption, GraphInv, Placement
  <2>3. S \in SUBSET Nat
    BY <2>1 DEF Filled
  <2>4. IsFiniteSet(S)
    BY <2>2, ImageFinite
  <2>5. Height(b) = Highest(S)
    BY <1>2 DEF Height
  <2>6. Highest(S) \in Nat /\ \A n \in S : n <= Highest(S)
    <3> HIDE DEF S
    <3> QED BY <2>3, <2>4, HighestIs
  <2> QED BY <2>1, <2>5, <2>6 DEF Filled
<1> QED BY <1>1, <1>2

\* Heights only grow.
LEMMA HeightGrows ==
  ASSUME ParallelAssumption, GraphInv, Filled, Heights', NEW b,
         \A x \in Placed : x \in Placed' /\ block'[x] = block[x],
         \A x \in DOMAIN local : x \in DOMAIN local' /\ local'[x] = local[x]
  PROVE  Height(b) <= Height(b)'
<1>1. CASE b[1] = "call"
  BY <1>1 DEF Height
<1>2. CASE b[1] # "call"
  <2> DEFINE X == {x \in Placed : block[x] = b}
             S == {local[x] : x \in X}
  <2>1. X \subseteq DOMAIN local
    BY <1>2, CallKind DEF Filled
  <2>2. IsFiniteSet(X)
    BY FS_Subset DEF ParallelAssumption, GraphInv, Placement
  <2>3. S \in SUBSET Nat
    BY <2>1 DEF Filled
  <2>4. IsFiniteSet(S)
    BY <2>2, ImageFinite
  <2>5. Height(b) = Highest(S)
    BY <1>2 DEF Height
  <2>6. Height(b)' \in Nat /\ \A n \in S : n <= Height(b)'
    BY <2>1 DEF Heights
  <2> HIDE DEF S
  <2> QED BY <2>3, <2>4, <2>5, <2>6, HighestIs
<1> QED BY <1>1, <1>2

\* So a bound stays one when it is looked at from before.
LEMMA BoundsBefore ==
  ASSUME ParallelAssumption, GraphInv, Filled, Heights', NEW w, Bounds(w)',
         \A x \in Placed : x \in Placed' /\ block'[x] = block[x],
         \A x \in DOMAIN local : x \in DOMAIN local' /\ local'[x] = local[x],
         \A b \in DOMAIN fanins : b \in DOMAIN fanins' /\ fanins[b] \subseteq fanins'[b]
  PROVE  Bounds(w)
<1>1. Heights
  BY HeightsHold
<1> SUFFICES ASSUME NEW b \in DOMAIN fanins
             PROVE  w[b] \in Nat /\ \A a \in fanins[b] \cap DOMAIN fanins : w[a] + Height(a) <= w[b]
  BY DEF Bounds
<1>2. w[b] \in Nat
  BY DEF Bounds
<1>3. ASSUME NEW a \in fanins[b] \cap DOMAIN fanins PROVE w[a] + Height(a) <= w[b]
  <2>1. w[a] \in Nat /\ w[a] + Height(a)' <= w[b]
    BY DEF Bounds
  <2>2. Height(a) <= Height(a)' /\ Height(a) \in Nat /\ Height(a)' \in Nat
    BY <1>1, HeightGrows DEF Heights
  <2> QED BY <1>2, <2>1, <2>2
<1> QED BY <1>2, <1>3

\* The way from an element that is read to the block that reads it.
LEMMA WayOn ==
  ASSUME GraphInv, Filled, Heights, Heights', NEW w, Bounds(w), Bounds(w)', Covered,
         UNCHANGED <<circuit, depth>>,
         \A x \in Placed : x \in Placed' /\ block'[x] = block[x],
         \A x \in DOMAIN local : x \in DOMAIN local' /\ local'[x] = local[x],
         DOMAIN fanins \subseteq DOMAIN fanins',
         NEW f \in Placed, NEW b \in DOMAIN fanins', block[f] \in fanins'[b]
  PROVE  depth[f] <= w[b]
<1>1. block[f] \in DOMAIN fanins /\ block[f] \in DOMAIN fanins'
  BY DEF Filled
<1>2. /\ w[block[f]] \in Nat /\ w[b] \in Nat
      /\ w[block[f]] + Height(block[f])' <= w[b]
      /\ Height(block[f])' \in Nat
  BY <1>1 DEF Bounds, Heights
<1>3. depth[f] \in Nat /\ f \in Element
  BY DEF GraphInv, Placement, Deepening
<1>4. CASE IsReturn(f)
  <2>1. depth[f] <= w[block[f]] + 1
    BY <1>4 DEF Covered
  <2>2. IsReturn(f)'
    BY <1>4 DEF IsReturn, op
  <2>3. Height(block[f])' = 1
    BY <2>2 DEF Heights
  <2> QED BY <1>2, <1>3, <2>1, <2>3
<1>5. CASE ~IsReturn(f)
  <2>1. f \in DOMAIN local /\ local[f] \in Nat
    BY <1>5 DEF Filled
  <2>2. depth[f] <= w[block[f]] + local[f]
    BY <2>1 DEF Covered
  <2>3. local[f] <= Height(block[f])'
    BY <2>1 DEF Heights
  <2> QED BY <1>2, <1>3, <2>1, <2>2, <2>3
<1> QED BY <1>4, <1>5

CoverInv == Driven /\ Filled /\ Covered

\* Nothing is covered before the first block.
LEMMA CoverInvInit == ASSUME InitGraph PROVE CoverInv
  BY DEF InitGraph, CoverInv, Driven, Filled, Covered, Placed

\* The searches before the blocks leave these as they are.
LEMMA NothingCovered ==
  ASSUME GraphInv', phase # "blocks", Driven', UNCHANGED <<block, fanins, local>>, GraphInv
  PROVE  CoverInv'
<1>1. Placed' = {} /\ DOMAIN fanins' = {} /\ DOMAIN local' = {}
  BY DEF GraphInv, Phases, Placed
<1> QED BY <1>1 DEF CoverInv, Filled, Covered

\* A gate is one deeper than its deepest fanin at most.
LEMMA DepthDriven ==
  ASSUME ParallelAssumption, GraphInv, Driven, NEW e \in Element, Depth(e)
  PROVE  Driven'
<1>1. /\ e \in needed \ DOMAIN depth /\ ~IsReturn(e) /\ fanin_of(e) \subseteq DOMAIN depth
      /\ UNCHANGED circuit
      /\ depth' = Put(depth, {e}, Highest({depth[f] : f \in fanin_of(e)}) + NonLinearity(e))
  BY DEF Depth
<1> DEFINE S == {depth[f] : f \in fanin_of(e)}
           d == Highest(S) + NonLinearity(e)
<1>2. S \in SUBSET Nat /\ IsFiniteSet(S)
  <2>1. S \in SUBSET Nat
    BY <1>1 DEF GraphInv, Deepening
  <2>2. IsFiniteSet(fanin_of(e))
    BY DEF GraphInv, WellFormed
  <2> QED BY <2>1, <2>2, ImageFinite
<1>3. NonLinearity(e) \in {0, 1}
  BY DEF NonLinearity
<1>4. d <= NonLinearity(e) \/ \E n \in S : d <= n + NonLinearity(e)
  <2> HIDE DEF S
  <2>1. Highest(S) \in Nat /\ (Highest(S) = 0 \/ Highest(S) \in S)
    BY <1>2, HighestIs
  <2> QED BY <1>3, <2>1
<1>5. /\ DOMAIN depth' = DOMAIN depth \cup {e} /\ depth'[e] = d
      /\ \A f \in DOMAIN depth : depth'[f] = depth[f]
  BY <1>1 DEF Put
<1>6. depth'[e] <= NonLinearity(e) \/ \E f \in fanin_of(e) : depth'[e] <= depth[f] + NonLinearity(e)
  <2> HIDE DEF d
  <2> QED BY <1>4, <1>5
<1> HIDE DEF d, S
<1>7. /\ \A x \in Element : fanin_of(x)' = fanin_of(x) /\ IsReturn(x)' = IsReturn(x)
                            /\ NonLinearity(x)' = NonLinearity(x)
      /\ \A c \in FunctionCall : Args(c)' = Args(c) /\ Returns(c)' = Returns(c) /\ Drivers(c)' = Drivers(c)
  BY <1>1 DEF fanin_of, IsReturn, NonLinearity, op, Args, Returns, Drivers
<1>8. ASSUME NEW x \in DOMAIN depth', ~IsReturn(x), circuit.call[x] = NoCall
      PROVE  \/ depth'[x] <= NonLinearity(x)
             \/ \E f \in fanin_of(x) : depth'[x] <= depth'[f] + NonLinearity(x)
  <2>1. CASE x = e
    BY <1>1, <1>5, <1>6, <2>1
  <2>2. CASE x \in DOMAIN depth
    BY <1>5, <1>8, <2>2 DEF Driven, GraphInv, Deepening
  <2> QED BY <1>5, <2>1, <2>2
<1>9. ASSUME NEW c \in FunctionCall, NEW o \in Args(c) \cap DOMAIN depth'
      PROVE  depth'[o] = 0 \/ \E f \in Drivers(c) \cap DOMAIN depth' : depth'[o] <= depth'[f]
  <2>1. CASE o = e
    <3>1. fanin_of(e) \subseteq Drivers(c) /\ NonLinearity(e) = 0
      BY <2>1 DEF Drivers, Args, NonLinearity, NonLinear
    <3>2. depth'[e] \in Nat /\ \A f \in fanin_of(e) : depth[f] \in Nat /\ depth'[f] = depth[f]
      <4>1. GraphInv'
        BY DepthDeepens
      <4> QED BY <1>1, <1>5, <4>1 DEF GraphInv, Deepening
    <3>3. depth'[e] = 0 \/ \E f \in fanin_of(e) : depth'[e] <= depth[f]
      BY <1>6, <3>1, <3>2
    <3> QED BY <1>1, <1>5, <2>1, <3>1, <3>2, <3>3
  <2>2. CASE o \in DOMAIN depth
    <3>1. depth[o] = 0 \/ \E f \in Drivers(c) \cap DOMAIN depth : depth[o] <= depth[f]
      BY <2>2 DEF Driven
    <3> QED BY <1>5, <2>2, <3>1
  <2> QED BY <1>5, <2>1, <2>2
<1>10. ASSUME NEW c \in FunctionCall, NEW r \in Returns(c) \cap DOMAIN depth'
       PROVE  depth'[r] <= 1 \/ \E f \in Drivers(c) : depth'[r] <= depth'[f] + 1
  <2>1. r # e
    BY <1>1 DEF Returns, IsReturn, GraphInv, WellFormed
  <2>2. r \in DOMAIN depth /\ \A f \in Drivers(c) : f \in DOMAIN depth
    <3>1. r \in DOMAIN depth
      BY <1>5, <2>1
    <3> QED BY <3>1 DEF GraphInv, Deepening, Drivers
  <2> QED BY <1>5, <2>2 DEF Driven
<1>11. DOMAIN depth' \subseteq Element
  BY <1>5 DEF GraphInv, Deepening
<1> QED BY <1>1, <1>7, <1>8, <1>9, <1>10, <1>11 DEF Driven

\* A call's arguments are as deep as the deepest of what drives them, and its
\* returns one deeper.
LEMMA CallDriven ==
  ASSUME ParallelAssumption, GraphInv, Driven, NEW c \in FunctionCall, DepthCall(c)
  PROVE  Driven'
<1> DEFINE S == {depth[o] : o \in Args(c)}
           d == Highest(S)
<1>1. /\ (Returns(c) \cap needed) \ DOMAIN depth # {} /\ Args(c) \subseteq DOMAIN depth
      /\ UNCHANGED circuit
      /\ depth' = Put(Put(depth, Args(c), d), Returns(c), d + 1)
  BY DEF DepthCall
<1>2. S \in SUBSET Nat /\ IsFiniteSet(S)
  <2>1. S \in SUBSET Nat
    BY <1>1 DEF GraphInv, Deepening
  <2>2. IsFiniteSet(Args(c))
    BY DEF GraphInv, WellFormed
  <2> QED BY <2>1, <2>2, ImageFinite
<1>3. d \in Nat /\ (d = 0 \/ \E o \in Args(c) : d = depth[o])
  <2>1. d \in Nat /\ (d = 0 \/ d \in S)
    <3> HIDE DEF S
    <3> QED BY <1>2, HighestIs
  <2> QED BY <2>1
<1> HIDE DEF d, S
<1>4. d = 0 \/ \E f \in Drivers(c) \cap DOMAIN depth : d <= depth[f]
  <2>1. ASSUME NEW o \in Args(c), d = depth[o]
        PROVE  d = 0 \/ \E f \in Drivers(c) \cap DOMAIN depth : d <= depth[f]
    BY <1>1, <2>1 DEF Driven
  <2> QED BY <1>3, <2>1
<1>5. Returns(c) \cap DOMAIN depth = {} /\ Args(c) \cap Returns(c) = {}
  BY <1>1 DEF GraphInv, Deepening, Args, Returns
<1>6. /\ DOMAIN depth' = DOMAIN depth \cup Returns(c)
      /\ \A r \in Returns(c) : depth'[r] = d + 1
      /\ \A o \in Args(c) : depth'[o] = d
      /\ \A f \in DOMAIN depth \ Args(c) : depth'[f] = depth[f]
  <2>1. DOMAIN Put(depth, Args(c), d) = DOMAIN depth
    BY <1>1 DEF Put
  <2>2. DOMAIN depth' = DOMAIN depth \cup Returns(c)
    BY <1>1, <2>1 DEF Put
  <2> QED BY <1>1, <1>5, <2>2 DEF Put
<1>7. \A x \in Element : \A f \in fanin_of(x) : f \notin Args(c)
  BY DEF GraphInv, WellFormed, Args
<1>8. /\ \A x \in Element : fanin_of(x)' = fanin_of(x) /\ IsReturn(x)' = IsReturn(x)
                            /\ NonLinearity(x)' = NonLinearity(x)
      /\ \A b \in FunctionCall : Args(b)' = Args(b) /\ Returns(b)' = Returns(b) /\ Drivers(b)' = Drivers(b)
  BY <1>1 DEF fanin_of, IsReturn, NonLinearity, op, Args, Returns, Drivers
<1>9. DOMAIN depth' \subseteq Element
  BY <1>6 DEF GraphInv, Deepening, Returns
<1>10. ASSUME NEW b \in FunctionCall, NEW f \in Drivers(b) \cap DOMAIN depth
       PROVE  f \in DOMAIN depth' /\ depth'[f] = depth[f]
  <2>1. f \notin Args(c)
    BY <1>7 DEF Drivers, Args
  <2> QED BY <1>6, <2>1
<1>11. ASSUME NEW x \in DOMAIN depth', ~IsReturn(x), circuit.call[x] = NoCall
       PROVE  \/ depth'[x] <= NonLinearity(x)
              \/ \E f \in fanin_of(x) : depth'[x] <= depth'[f] + NonLinearity(x)
  <2>1. x \in DOMAIN depth \ Args(c) /\ x \in Element
    BY <1>6, <1>9, <1>11 DEF Returns, Args, IsReturn, GraphInv, WellFormed
  <2>2. \A f \in fanin_of(x) : depth'[f] = depth[f]
    <3>1. \A f \in fanin_of(x) : f \in DOMAIN depth
      BY <2>1 DEF GraphInv, Deepening
    <3> QED BY <1>6, <1>7, <2>1, <3>1
  <2>3. \/ depth[x] <= NonLinearity(x)
        \/ \E f \in fanin_of(x) : depth[x] <= depth[f] + NonLinearity(x)
    BY <1>11, <2>1 DEF Driven
  <2> QED BY <1>6, <2>1, <2>2, <2>3
<1>12. ASSUME NEW b \in FunctionCall, NEW o \in Args(b) \cap DOMAIN depth'
       PROVE  depth'[o] = 0 \/ \E f \in Drivers(b) \cap DOMAIN depth' : depth'[o] <= depth'[f]
  <2>1. CASE b = c
    BY <1>4, <1>6, <1>10, <2>1
  <2>2. CASE b # c
    <3>1. o \in DOMAIN depth \ Args(c)
      BY <1>6, <2>2 DEF Args, Returns
    <3>2. depth[o] = 0 \/ \E f \in Drivers(b) \cap DOMAIN depth : depth[o] <= depth[f]
      BY <3>1 DEF Driven
    <3> QED BY <1>6, <1>10, <3>1, <3>2
  <2> QED BY <2>1, <2>2
<1>13. ASSUME NEW b \in FunctionCall, NEW r \in Returns(b) \cap DOMAIN depth'
       PROVE  depth'[r] <= 1 \/ \E f \in Drivers(b) : depth'[r] <= depth'[f] + 1
  <2>1. CASE b = c
    <3>1. CASE d = 0
      BY <1>6, <2>1, <3>1
    <3>2. ASSUME NEW f \in Drivers(c) \cap DOMAIN depth, d <= depth[f]
          PROVE  \E x \in Drivers(b) : depth'[r] <= depth'[x] + 1
      <4>1. depth'[f] = depth[f] /\ depth[f] \in Nat
        BY <1>10 DEF GraphInv, Deepening
      <4> QED BY <1>3, <1>6, <2>1, <3>2, <4>1
    <3> QED BY <1>4, <3>1, <3>2
  <2>2. CASE b # c
    <3>1. r \in DOMAIN depth \ Args(c)
      BY <1>6, <2>2 DEF Args, Returns
    <3>2. Drivers(b) \subseteq DOMAIN depth
      BY <3>1 DEF GraphInv, Deepening, Drivers
    <3>3. depth[r] <= 1 \/ \E f \in Drivers(b) : depth[r] <= depth[f] + 1
      BY <3>1 DEF Driven
    <3> QED BY <1>6, <1>10, <3>1, <3>2, <3>3
  <2> QED BY <2>1, <2>2
<1> QED BY <1>1, <1>8, <1>9, <1>11, <1>12, <1>13 DEF Driven

\* A gate, an INPUT or an OUTPUT gate enters its block.
LEMMA EnterCovers ==
  ASSUME ParallelAssumption, GraphInv, GraphInv', CoverInv, phase = "blocks", NEW e \in needed \ Placed,
         NEW b, b[1] # "call", Enter(e, b), UNCHANGED <<circuit, needed, phase, depth, outputs, added>>,
         fanin_of(e) \subseteq Placed, ~IsReturn(e), circuit.call[e] = NoCall
  PROVE  CoverInv'
<1> DEFINE inside == {f \in fanin_of(e) : block[f] = b}
           S == {local[f] : f \in inside}
<1>1. /\ e \in Element /\ e \in DOMAIN depth /\ depth[e] \in Nat /\ IsFiniteSet(fanin_of(e))
      /\ \A f \in fanin_of(e) : depth[f] \in Nat
  BY DEF GraphInv, WellFormed, Phases, Deepening
<1>2. /\ Placed' = Placed \cup {e} /\ block'[e] = b
      /\ \A x \in Placed : block'[x] = block[x] /\ x # e
  BY DEF Enter, Put, Placed
<1>3. /\ DOMAIN fanins' = DOMAIN fanins \cup {b}
      /\ \A a \in DOMAIN fanins : fanins[a] \subseteq fanins'[a]
      /\ \A f \in fanin_of(e) : block[f] # b => block[f] \in fanins'[b]
  BY DEF Enter, Put, At
<1>4. inside \subseteq DOMAIN local
  BY CallKind DEF CoverInv, Filled
<1>5. S \in SUBSET Nat /\ IsFiniteSet(S)
  <2>1. IsFiniteSet(inside)
    BY <1>1, FS_Subset
  <2>2. S \in SUBSET Nat
    BY <1>4 DEF CoverInv, Filled
  <2> HIDE DEF inside
  <2> QED BY <2>1, <2>2, ImageFinite
<1>6. Highest(S) \in Nat /\ \A n \in S : n <= Highest(S)
  <2> HIDE DEF S
  <2> QED BY <1>5, HighestIs
<1>7. NonLinearity(e) \in {0, 1}
  BY DEF NonLinearity
<1>8. /\ DOMAIN local' = DOMAIN local \cup {e} /\ local'[e] = Highest(S) + NonLinearity(e)
      /\ \A x \in DOMAIN local : x # e /\ local'[x] = local[x]
  <2>1. local' = Put(local, {e}, Highest(S) + NonLinearity(e))
    BY DEF Enter
  <2>2. e \notin DOMAIN local
    BY <1>2 DEF CoverInv, Filled
  <2> HIDE DEF S
  <2> QED BY <2>1, <2>2 DEF Put
<1>9. \A x \in Element : IsReturn(x)' = IsReturn(x)
  BY DEF IsReturn, op
<1>10. Filled'
  <2>1. DOMAIN local' = {x \in Placed' : ~IsReturn(x)}
    BY <1>2, <1>8 DEF CoverInv, Filled
  <2>2. Placed' \subseteq Element
    BY DEF GraphInv, Placement
  <2>3. {x \in Placed' : ~IsReturn(x)'} = {x \in Placed' : ~IsReturn(x)}
    BY <1>9, <2>2
  <2>4. \A x \in DOMAIN local' : local'[x] \in Nat
    BY <1>6, <1>7, <1>8 DEF CoverInv, Filled
  <2>5. DOMAIN fanins' = {block'[x] : x \in Placed'}
    BY <1>2, <1>3 DEF CoverInv, Filled
  <2> QED BY <2>1, <2>3, <2>4, <2>5 DEF Filled
<1>11. Heights /\ Heights'
  <2>1. Heights'
    BY <1>10, HeightsHold, PTL
  <2> QED BY <2>1, HeightsHold DEF CoverInv
<1>12. Driven'
  BY DEF CoverInv, Driven, GraphInv, Deepening, fanin_of, IsReturn, NonLinearity, op, Args, Returns, Drivers
<1>13. ASSUME NEW w, Bounds(w)'
       PROVE  /\ \A x \in DOMAIN local' : depth[x] <= w[block'[x]] + local'[x]
              /\ \A x \in Placed' : IsReturn(x) => depth[x] <= w[block'[x]] + 1
  <2>1. Bounds(w)
    BY <1>2, <1>3, <1>8, <1>11, <1>13, BoundsBefore DEF CoverInv
  <2>2. /\ \A x \in DOMAIN local : depth[x] <= w[block[x]] + local[x]
        /\ \A x \in Placed : IsReturn(x) => depth[x] <= w[block[x]] + 1
    BY <2>1 DEF CoverInv, Covered
  <2>3. w[b] \in Nat /\ b \in DOMAIN fanins'
    BY <1>3, <1>13 DEF Bounds
  <2>4. depth[e] <= w[b] + local'[e]
    <3>1. \/ depth[e] <= NonLinearity(e)
          \/ \E f \in fanin_of(e) : depth[e] <= depth[f] + NonLinearity(e)
      BY <1>1 DEF CoverInv, Driven
    <3>2. ASSUME NEW f \in fanin_of(e), depth[e] <= depth[f] + NonLinearity(e)
          PROVE  depth[e] <= w[b] + local'[e]
      <4>1. CASE block[f] = b
        <5>1. f \in DOMAIN local /\ local[f] \in S
          BY <1>4, <4>1
        <5>2. depth[f] <= w[b] + local[f] /\ local[f] <= Highest(S) /\ local[f] \in Nat
          BY <1>5, <1>6, <2>2, <4>1, <5>1
        <5> HIDE DEF S
        <5> QED BY <1>1, <1>6, <1>7, <1>8, <2>3, <3>2, <5>2
      <4>2. CASE block[f] # b
        <5>1. block[f] \in fanins'[b] /\ f \in Placed
          BY <1>3, <4>2
        <5>2. depth[f] <= w[b]
          BY <1>2, <1>3, <1>8, <1>11, <1>13, <2>1, <2>3, <5>1, WayOn DEF CoverInv
        <5> HIDE DEF S
        <5> QED BY <1>1, <1>6, <1>7, <1>8, <2>3, <3>2, <5>2
      <4> QED BY <4>1, <4>2
    <3> HIDE DEF S
    <3> QED BY <1>1, <1>6, <1>7, <1>8, <2>3, <3>1, <3>2
  <2>5. \A x \in DOMAIN local : x \in Placed
    BY DEF CoverInv, Filled
  <2> HIDE DEF S
  <2> QED BY <1>2, <1>8, <2>2, <2>4, <2>5
<1>14. Covered'
  <2>1. \A x \in Placed' : IsReturn(x)' = IsReturn(x)
    BY <1>9 DEF GraphInv, Placement
  <2> QED BY <1>13, <2>1 DEF Covered
<1> QED BY <1>10, <1>12, <1>14 DEF CoverInv

\* A call gets its block, which no element was in before.
LEMMA CallCovers ==
  ASSUME ParallelAssumption, GraphInv, GraphInv', CoverInv, NEW c \in FunctionCall, PlaceCall(c)
  PROVE  CoverInv'
<1>1. PICK e \in (Returns(c) \cap needed) \ Placed :
        LET b == CallBlock(c, depth[e])
        IN  /\ block'  = Put(block, Returns(c), b)
            /\ fanins' = Put(fanins, {b}, {block[f] : f \in Drivers(c)})
            /\ inputs' = Put(inputs, {b}, Drivers(c))
            /\ added'  = [added EXCEPT ![c] = @ + 1]
  BY DEF PlaceCall
<1> DEFINE b == CallBlock(c, depth[e])
<1>2. /\ phase = "blocks" /\ Drivers(c) \subseteq Placed
      /\ UNCHANGED <<circuit, needed, phase, depth, outputs, local>>
  BY DEF PlaceCall
<1>3. /\ Returns(c) \cap Placed = {}
      /\ \A r \in Returns(c) : IsReturn(r) /\ r \in Element /\ r \in DOMAIN depth /\ depth[r] \in Nat
      /\ \A f \in Drivers(c) : depth[f] \in Nat
  <2>1. Returns(c) \cap Placed = {}
    BY <1>1 DEF GraphInv, Placement
  <2>2. \A r \in Returns(c) : IsReturn(r) /\ r \in Element
    BY DEF Returns, IsReturn, GraphInv, WellFormed
  <2>3. \A r \in Returns(c) : r \in DOMAIN depth /\ depth[r] \in Nat
    BY <1>1, <1>2 DEF GraphInv, Phases, Deepening
  <2>4. \A f \in Drivers(c) : f \in DOMAIN depth /\ depth[f] \in Nat
    BY <1>2 DEF GraphInv, Placement, Deepening
  <2> QED BY <2>1, <2>2, <2>3, <2>4
<1>4. /\ Placed' = Placed \cup Returns(c)
      /\ \A x \in Placed : block'[x] = block[x]
      /\ \A r \in Returns(c) : block'[r] = b
  BY <1>1, <1>3 DEF Put, Placed
<1>5. b \notin DOMAIN fanins
  <2> SUFFICES ASSUME b \in DOMAIN fanins PROVE FALSE
    OBVIOUS
  <2>1. PICK x \in Placed : block[x] = b
    BY DEF CoverInv, Filled
  <2>2. IsReturn(x) /\ block[x] = BlockOf(x) /\ x \in Element
    <3>1. block[x][1] = "call"
      BY <2>1 DEF CallBlock
    <3> QED BY <3>1, CallKind DEF GraphInv, Placement
  <2>3. BlockOf(x) = CallBlock(circuit.call[x], depth[x])
    BY <2>2 DEF BlockOf, IsReturn, IsGate
  <2>4. circuit.call[x] = c
    BY <2>1, <2>2, <2>3 DEF CallBlock
  <2>5. x \in Returns(c)
    BY <2>2, <2>4 DEF Returns, IsReturn
  <2> QED BY <1>3, <2>5
<1>6. b[1] = "call"
  BY DEF CallBlock
<1> HIDE DEF b
<1>7. /\ DOMAIN fanins' = DOMAIN fanins \cup {b}
      /\ \A a \in DOMAIN fanins : fanins'[a] = fanins[a]
      /\ fanins'[b] = {block[f] : f \in Drivers(c)}
  BY <1>1, <1>5 DEF Put, b
<1>8. \A x \in Element : IsReturn(x)' = IsReturn(x)
  BY <1>2 DEF IsReturn, op
<1>9. Filled'
  <2>1. DOMAIN local' = {x \in Placed' : ~IsReturn(x)}
    BY <1>2, <1>3, <1>4 DEF CoverInv, Filled
  <2>2. Placed' \subseteq Element
    BY DEF GraphInv, Placement
  <2>3. {x \in Placed' : ~IsReturn(x)'} = {x \in Placed' : ~IsReturn(x)}
    BY <1>8, <2>2
  <2>4. \A x \in DOMAIN local' : local'[x] \in Nat
    BY <1>2 DEF CoverInv, Filled
  <2>5. DOMAIN fanins' = {block'[x] : x \in Placed'}
    <3>1. e \in Returns(c) /\ DOMAIN fanins = {block[x] : x \in Placed}
      BY <1>1 DEF CoverInv, Filled
    <3>2. \A x \in Placed' : block'[x] \in DOMAIN fanins'
      BY <1>4, <1>7, <3>1
    <3>3. \A a \in DOMAIN fanins' : \E x \in Placed' : a = block'[x]
      BY <1>4, <1>7, <3>1
    <3> QED BY <3>2, <3>3
  <2> QED BY <2>1, <2>3, <2>4, <2>5 DEF Filled
<1>10. Heights /\ Heights'
  <2>1. Heights'
    BY <1>9, HeightsHold, PTL
  <2> QED BY <2>1, HeightsHold DEF CoverInv
<1>11. Driven'
  BY <1>2 DEF CoverInv, Driven, GraphInv, Deepening, fanin_of, IsReturn, NonLinearity, op, Args, Returns, Drivers
<1>12. ASSUME NEW w, Bounds(w)'
       PROVE  /\ \A x \in DOMAIN local' : depth[x] <= w[block'[x]] + local'[x]
              /\ \A x \in Placed' : IsReturn(x) => depth[x] <= w[block'[x]] + 1
  <2>0. \A x \in DOMAIN local : x \in DOMAIN local' /\ local'[x] = local[x] /\ x \in Placed
    BY <1>2 DEF CoverInv, Filled
  <2>1. Bounds(w)
    BY <1>4, <1>7, <1>10, <1>12, <2>0, BoundsBefore DEF CoverInv
  <2>2. /\ \A x \in DOMAIN local : depth[x] <= w[block[x]] + local[x]
        /\ \A x \in Placed : IsReturn(x) => depth[x] <= w[block[x]] + 1
    BY <2>1 DEF CoverInv, Covered
  <2>3. w[b] \in Nat /\ b \in DOMAIN fanins'
    BY <1>7, <1>12 DEF Bounds
  <2>4. ASSUME NEW r \in Returns(c) PROVE depth[r] <= w[b] + 1
    <3>1. depth[r] <= 1 \/ \E f \in Drivers(c) : depth[r] <= depth[f] + 1
      BY <1>3 DEF CoverInv, Driven
    <3>2. ASSUME NEW f \in Drivers(c), depth[r] <= depth[f] + 1 PROVE depth[r] <= w[b] + 1
      <4>1. f \in Placed /\ block[f] \in fanins'[b]
        BY <1>2, <1>7
      <4>2. depth[f] <= w[b]
        BY <1>2, <1>4, <1>7, <1>10, <1>12, <2>0, <2>1, <2>3, <4>1, WayOn DEF CoverInv
      <4> QED BY <1>3, <2>3, <3>2, <4>2
    <3> QED BY <1>3, <2>3, <3>1, <3>2
  <2> QED BY <1>2, <1>4, <2>0, <2>2, <2>4
<1>13. Covered'
  <2>1. \A x \in Placed' : IsReturn(x)' = IsReturn(x)
    BY <1>8 DEF GraphInv, Placement
  <2> QED BY <1>2, <1>12, <2>1 DEF Covered
<1> QED BY <1>9, <1>11, <1>13 DEF CoverInv

\* Every step.
LEMMA CoverInvStep ==
  ASSUME ParallelAssumption, GraphInv, CoverInv, [NextGraph]_graph_vars
  PROVE  CoverInv'
<1>0. GraphInv'
  BY GraphInvStep
<1>1. ASSUME NEW e \in Element, Depth(e) PROVE CoverInv'
  <2>1. Driven'
    BY <1>1, DepthDriven DEF CoverInv
  <2> QED BY <1>0, <1>1, <2>1, NothingCovered DEF Depth
<1>2. ASSUME NEW c \in FunctionCall, DepthCall(c) PROVE CoverInv'
  <2>1. Driven'
    BY <1>2, CallDriven DEF CoverInv
  <2> QED BY <1>0, <1>2, <2>1, NothingCovered DEF DepthCall
<1>3. ASSUME DepthsDone \/ OutputsDone \/ \E e \in Element : ClosestOutputs(e) PROVE CoverInv'
  <2>1. phase # "blocks" /\ UNCHANGED <<circuit, depth, block, local, fanins>>
    BY <1>3 DEF DepthsDone, OutputsDone, ClosestOutputs
  <2>2. Driven'
    BY <2>1 DEF CoverInv, Driven, fanin_of, IsReturn, NonLinearity, op, Args, Returns, Drivers
  <2> QED BY <1>0, <2>1, <2>2, NothingCovered
<1>4. ASSUME NEW e \in Element, PlaceInput(e) PROVE CoverInv'
  <2>1. /\ phase = "blocks" /\ e \in needed \ Placed /\ op(e) = "INPUT" /\ ~IsReturn(e)
        /\ Enter(e, Root) /\ UNCHANGED <<circuit, needed, phase, depth, outputs, added>>
    BY <1>4 DEF PlaceInput
  <2>2. fanin_of(e) = {} /\ circuit.call[e] = NoCall /\ Root[1] # "call"
    BY <2>1 DEF GraphInv, WellFormed, IsReturn, Root
  <2> QED BY <1>0, <2>1, <2>2, EnterCovers
<1>5. ASSUME NEW e \in Element, PlaceGate(e) PROVE CoverInv'
  <2> DEFINE b == IF fanin_of(e) = {} THEN Root
                  ELSE GateBlock(Highest({InputDepth(block[f]) : f \in fanin_of(e)}), outputs[e])
  <2>1. /\ phase = "blocks" /\ e \in needed \ Placed /\ IsGate(e) /\ fanin_of(e) \subseteq Placed
        /\ Enter(e, b) /\ UNCHANGED <<circuit, needed, phase, depth, outputs, added>>
    BY <1>5 DEF PlaceGate
  <2>2. ~IsReturn(e) /\ circuit.call[e] = NoCall
    BY <2>1 DEF GraphInv, WellFormed, IsGate, IsReturn
  <2>3. b[1] # "call"
    BY DEF Root, GateBlock
  <2> HIDE DEF b
  <2> QED BY <1>0, <2>1, <2>2, <2>3, EnterCovers
<1>6. ASSUME NEW e \in Element, PlaceOutput(e) PROVE CoverInv'
  <2>1. /\ phase = "blocks" /\ e \in CircuitOutputs \ Placed /\ fanin_of(e) \subseteq Placed
        /\ Enter(e, Leaf) /\ UNCHANGED <<circuit, needed, phase, depth, outputs, added>>
    BY <1>6 DEF PlaceOutput
  <2>2. e \in needed \ Placed /\ ~IsReturn(e) /\ circuit.call[e] = NoCall /\ Leaf[1] # "call"
    BY <2>1 DEF GraphInv, WellFormed, CircuitOutputs, IsReturn, Leaf
  <2> QED BY <1>0, <2>1, <2>2, EnterCovers
<1>7. ASSUME NEW c \in FunctionCall, PlaceCall(c) PROVE CoverInv'
  BY <1>0, <1>7, CallCovers
<1>8. CASE UNCHANGED graph_vars
  <2>1. UNCHANGED <<circuit, needed, phase, depth, outputs, block, local, fanins, inputs, added>>
    BY <1>8 DEF graph_vars
  <2>2. Driven' /\ Filled'
    BY <2>1 DEF CoverInv, Driven, Filled, Placed, fanin_of, IsReturn, NonLinearity, op, Args, Returns, Drivers
  <2>3. \A b : Height(b)' = Height(b)
    BY <2>1 DEF Height, Placed
  <2>4. \A w : Bounds(w)' => Bounds(w)
    BY <2>1, <2>3 DEF Bounds
  <2>5. Covered'
    BY <2>1, <2>4 DEF CoverInv, Covered, Placed, IsReturn, op
  <2> QED BY <2>2, <2>5 DEF CoverInv
<1> QED BY <1>1, <1>2, <1>3, <1>4, <1>5, <1>6, <1>7, <1>8 DEF NextGraph

\* The blocks that can come before b; only those of a finite set D count.
Earlier(D, b) == {a \in D : Before(a, b)}

\* Before is an order, so fewer come before a block than before a later one.
LEMMA EarlierFewer ==
  ASSUME NEW D, IsFiniteSet(D), NEW a \in D, NEW b \in D, Before(a, b),
         \A d \in D : InputDepth(d) \in Nat
  PROVE  /\ Cardinality(Earlier(D, a)) \in Nat /\ Cardinality(Earlier(D, b)) \in Nat
         /\ Cardinality(Earlier(D, a)) < Cardinality(Earlier(D, b))
<1>1. IsFiniteSet(Earlier(D, a)) /\ IsFiniteSet(Earlier(D, b))
  BY FS_Subset DEF Earlier
<1>2. Earlier(D, a) \subseteq Earlier(D, b)
  <2> SUFFICES ASSUME NEW d \in D, Before(d, a) PROVE Before(d, b)
    BY DEF Earlier
  <2>1. InputDepth(d) \in Nat /\ InputDepth(a) \in Nat /\ InputDepth(b) \in Nat
    OBVIOUS
  <2>2. d # Leaf /\ b # Root /\ a # Root /\ a # Leaf
    BY DEF Before
  <2>3. CASE d = Root \/ b = Leaf
    BY <2>2, <2>3 DEF Before
  <2>4. CASE InputDepth(d) < InputDepth(a) \/ InputDepth(a) < InputDepth(b)
    <3>1. CASE d # Root /\ b # Leaf
      <4>1. InputDepth(d) <= InputDepth(a) /\ InputDepth(a) <= InputDepth(b)
        BY <2>1, <2>2, <3>1 DEF Before
      <4>2. InputDepth(d) < InputDepth(b)
        BY <2>1, <2>4, <4>1
      <4> QED BY <2>2, <4>2 DEF Before
    <3> QED BY <2>3, <3>1
  <2>5. CASE /\ d # Root /\ b # Leaf
             /\ ~(InputDepth(d) < InputDepth(a)) /\ ~(InputDepth(a) < InputDepth(b))
    <3>1. /\ InputDepth(d) = InputDepth(a) /\ InputDepth(a) = InputDepth(b)
          /\ \/ d[1] = "call" /\ a[1] = "gate"
             \/ d[1] = "gate" /\ a[1] = "gate" /\ a[3] \subseteq d[3] /\ a[3] # d[3]
          /\ \/ a[1] = "call" /\ b[1] = "gate"
             \/ a[1] = "gate" /\ b[1] = "gate" /\ b[3] \subseteq a[3] /\ b[3] # a[3]
      BY <2>2, <2>5 DEF Before
    <3>2. \/ d[1] = "call" /\ b[1] = "gate"
          \/ d[1] = "gate" /\ b[1] = "gate" /\ b[3] \subseteq d[3] /\ b[3] # d[3]
      BY <3>1
    <3> QED BY <2>2, <3>1, <3>2 DEF Before
  <2> QED BY <2>3, <2>4, <2>5
<1>3. a \in Earlier(D, b) /\ a \notin Earlier(D, a)
  <2>1. InputDepth(a) \in Nat
    OBVIOUS
  <2>2. ~Before(a, a)
    BY <2>1 DEF Before
  <2> QED BY <2>2 DEF Earlier
<1>4. /\ Cardinality(Earlier(D, a)) \in Nat /\ Cardinality(Earlier(D, b)) \in Nat
      /\ Cardinality(Earlier(D, a)) <= Cardinality(Earlier(D, b))
      /\ Cardinality(Earlier(D, a)) = Cardinality(Earlier(D, b)) => Earlier(D, a) = Earlier(D, b)
  BY <1>1, <1>2, FS_Subset, FS_CardinalityType
<1> QED BY <1>3, <1>4

\* The sum over the longest way is well defined: the blocks are summed up in
\* their order, those with k blocks before them after those with fewer.
HighestWay(L, b) == Highest({L[a] + Height(a) : a \in fanins[b] \cap DOMAIN fanins})
SumsUp(L, k) ==
  /\ L = [b \in DOMAIN fanins |-> L[b]]
  /\ \A b \in DOMAIN fanins :
       Cardinality(Earlier(DOMAIN fanins, b)) < k => L[b] = HighestWay(L, b)

\* What Longest computes bounds every way.
LEMMA LongestBounds ==
  ASSUME ParallelAssumption, GraphInv, Filled
  PROVE  Bounds(Longest)
<1> DEFINE D == DOMAIN fanins
           Rank(b) == Cardinality(Earlier(D, b))
           Fails == {k \in Nat : ~ \E L : SumsUp(L, k)}
<1>1. IsFiniteSet(D) /\ D = {block[x] : x \in Placed}
  <2>1. D = {block[x] : x \in Placed}
    BY DEF Filled
  <2>2. IsFiniteSet(Placed)
    BY FS_Subset DEF ParallelAssumption, GraphInv, Placement
  <2>3. IsFiniteSet({block[x] : x \in Placed})
    BY <2>2, ImageFinite
  <2> QED BY <2>1, <2>3
<1>2. \A b \in D : InputDepth(b) \in Nat
  <2> SUFFICES ASSUME NEW x \in Placed PROVE InputDepth(block[x]) \in Nat
    BY <1>1
  <2>1. CASE op(x) = "OUTPUT"
    <3>1. BlockOf(x) = Leaf
      BY <2>1 DEF BlockOf, IsReturn, IsGate
    <3>2. block[x] = Leaf
      BY <3>1 DEF GraphInv, Placement
    <3> QED BY <3>2 DEF Leaf, InputDepth
  <2>2. CASE op(x) # "OUTPUT"
    BY <2>2 DEF GraphInv, Placement
  <2> QED BY <2>1, <2>2
<1>3. \A b \in D : \A a \in fanins[b] \cap D : Rank(a) \in Nat /\ Rank(b) \in Nat /\ Rank(a) < Rank(b)
  <2> SUFFICES ASSUME NEW b \in D, NEW a \in fanins[b] \cap D
               PROVE  Rank(a) \in Nat /\ Rank(b) \in Nat /\ Rank(a) < Rank(b)
    OBVIOUS
  <2>1. Before(a, b)
    BY DEF GraphInv, Records, Ordered
  <2> HIDE DEF D
  <2> QED BY <1>1, <1>2, <2>1, EarlierFewer
<1>4. \A b \in D : Rank(b) \in Nat
  <2> TAKE b \in D
  <2>1. IsFiniteSet(Earlier(D, b))
    BY <1>1, FS_Subset DEF Earlier
  <2> QED BY <2>1, FS_CardinalityType
<1>5. Fails = {}
  <2> SUFFICES ASSUME Fails # {} PROVE FALSE
    OBVIOUS
  <2>1. PICK k \in Fails : \A n \in Fails : k <= n
    <3>1. Fails \in SUBSET Nat
      OBVIOUS
    <3> HIDE DEF Fails
    <3> QED BY <3>1, Least
  <2>2. k # 0
    <3> DEFINE L == [b \in D |-> 0]
    <3>1. L = [b \in D |-> L[b]]
      OBVIOUS
    <3> HIDE DEF L
    <3>2. SumsUp(L, 0)
      BY <1>4, <3>1 DEF SumsUp
    <3> QED BY <3>2
  <2>3. k - 1 \in Nat /\ k - 1 \notin Fails
    BY <2>1, <2>2
  <2>4. PICK L : SumsUp(L, k - 1)
    BY <2>3
  <2> DEFINE M == [b \in D |-> IF Rank(b) = k - 1 THEN HighestWay(L, b) ELSE L[b]]
  <2>5. ASSUME NEW b \in D, Rank(b) < k PROVE M[b] = HighestWay(M, b)
    <3>1. \A a \in fanins[b] \cap D : M[a] = L[a]
      <4> TAKE a \in fanins[b] \cap D
      <4>1. Rank(a) # k - 1
        BY <1>3, <2>3, <2>5
      <4> HIDE DEF Rank
      <4> QED BY <4>1
    <3>2. {M[a] + Height(a) : a \in fanins[b] \cap D} = {L[a] + Height(a) : a \in fanins[b] \cap D}
      <4> HIDE DEF M
      <4> QED BY <3>1
    <3>3. HighestWay(M, b) = HighestWay(L, b)
      <4> HIDE DEF M
      <4> QED BY <3>2 DEF HighestWay
    <3>4. M[b] = HighestWay(L, b)
      <4>1. CASE Rank(b) = k - 1
        BY <4>1
      <4>2. CASE Rank(b) # k - 1
        <5>1. Rank(b) < k - 1
          BY <1>4, <2>3, <2>5, <4>2
        <5>2. L[b] = HighestWay(L, b)
          BY <2>4, <5>1 DEF SumsUp
        <5> HIDE DEF Rank
        <5> QED BY <4>2, <5>2
      <4> QED BY <4>1, <4>2
    <3> QED BY <3>3, <3>4
  <2>6. M = [b \in D |-> M[b]]
    OBVIOUS
  <2>7. SumsUp(M, k)
    <3> HIDE DEF M
    <3> QED BY <2>5, <2>6 DEF SumsUp
  <2> QED BY <2>1, <2>7
<1>6. PICK L : SumsUp(L, Cardinality(D))
  <2>1. Cardinality(D) \in Nat
    BY <1>1, FS_CardinalityType
  <2> QED BY <1>5, <2>1
<1>7. \A b \in D : Rank(b) < Cardinality(D)
  <2> TAKE b \in D
  <2>1. Earlier(D, b) \subseteq D /\ b \notin Earlier(D, b)
    <3>1. ~Before(b, b)
      BY <1>2 DEF Before
    <3> QED BY <3>1 DEF Earlier
  <2> HIDE DEF D
  <2>2. Cardinality(Earlier(D, b)) <= Cardinality(D) /\ Cardinality(Earlier(D, b)) # Cardinality(D)
    BY <1>1, <2>1, FS_Subset
  <2>3. Cardinality(D) \in Nat
    BY <1>1, FS_CardinalityType
  <2> QED BY <1>4, <2>2, <2>3
<1> DEFINE Equation(K) == K = [b \in D |-> HighestWay(K, b)]
<1>8. Equation(L)
  <2>1. L = [b \in D |-> L[b]] /\ \A b \in D : L[b] = HighestWay(L, b)
    BY <1>6, <1>7 DEF SumsUp
  <2> QED BY <2>1
<1>9. Longest = CHOOSE K : Equation(K)
  BY DEF Longest, HighestWay
<1>10. Equation(Longest)
  BY <1>8, <1>9
<1>11. PICK K : K = Longest
  OBVIOUS
<1>12. \A b \in D : K[b] = HighestWay(K, b)
  BY <1>10, <1>11
<1>13. Heights
  BY HeightsHold
<1>14. ASSUME NEW b \in D, \A a \in fanins[b] \cap D : K[a] \in Nat
       PROVE  K[b] \in Nat /\ \A a \in fanins[b] \cap D : K[a] + Height(a) <= K[b]
  <2> DEFINE A == fanins[b] \cap D
             S == {K[a] + Height(a) : a \in A}
             g == [a \in A |-> K[a] + Height(a)]
  <2>1. IsFiniteSet(A)
    BY <1>1, FS_Subset
  <2>2. S \in SUBSET Nat
    BY <1>13, <1>14 DEF Heights
  <2>3. IsFiniteSet(S)
    <3>1. S = {g[a] : a \in A}
      OBVIOUS
    <3>2. IsFiniteSet({g[a] : a \in A})
      <4> HIDE DEF g, A
      <4> QED BY <2>1, ImageFinite
    <3> QED BY <3>1, <3>2
  <2>4. K[b] = Highest(S)
    BY <1>12 DEF HighestWay
  <2>5. Highest(S) \in Nat /\ \A n \in S : n <= Highest(S)
    <3> HIDE DEF S
    <3> QED BY <2>2, <2>3, HighestIs
  <2> QED BY <2>4, <2>5
<1>15. \A b \in D : K[b] \in Nat
  <2> DEFINE B == {n \in Nat : \E b \in D : Rank(b) = n /\ K[b] \notin Nat}
  <2>1. B = {}
    <3> SUFFICES ASSUME B # {} PROVE FALSE
      OBVIOUS
    <3>1. PICK n \in B : \A m \in B : n <= m
      <4>1. B \in SUBSET Nat
        OBVIOUS
      <4> HIDE DEF B
      <4> QED BY <4>1, Least
    <3>2. PICK b \in D : Rank(b) = n /\ K[b] \notin Nat
      OBVIOUS
    <3>3. \A a \in fanins[b] \cap D : K[a] \in Nat
      <4> SUFFICES ASSUME NEW a \in fanins[b] \cap D, K[a] \notin Nat PROVE FALSE
        OBVIOUS
      <4>1. Rank(a) \in Nat /\ Rank(a) < n
        BY <1>3, <3>2
      <4>2. Rank(a) \in B
        BY <4>1
      <4>3. n <= Rank(a) /\ n \in Nat
        BY <3>1, <4>2
      <4> HIDE DEF B, Rank
      <4> QED BY <4>1, <4>3
    <3> QED BY <1>14, <3>2, <3>3
  <2> QED BY <1>4, <2>1
<1> QED BY <1>11, <1>14, <1>15 DEF Bounds

----------------------------------------------------------------------------
(* Theorems.                                                               *)

\* Whatever a circuit looks like and in whatever order the three searches
\* visit it: no block waits for one that can only run after it, so the blocks
\* of build_parallel_execution_graph have an order to run in.
THEOREM OrderedCorrect == ASSUME ParallelAssumption PROVE SpecGraph => []Ordered
<1>1. GraphInv => Ordered
  BY DEF GraphInv, Records
<1> QED BY <1>1, GraphAlways, PTL

\* The blocks that a block waits for are those of the elements that it reads:
\* the table in which the writers look up a fanin has it, and names no other.
THEOREM InputsListedCorrect == ASSUME ParallelAssumption PROVE SpecGraph => []InputsListed
<1>1. GraphInv => InputsListed
  BY DEF GraphInv, Records, InputsListed, At
<1> QED BY <1>1, GraphAlways, PTL

\* add_call_block's assertion holds: no call gets a second block, however many
\* of its returns the search meets.
THEOREM CallsOnceCorrect == ASSUME ParallelAssumption PROVE SpecGraph => [](GraphTypeOK /\ CallsOnce)
<1>1. GraphInv => CallsOnce
  BY DEF GraphInv, Records, CallsOnce
<1>2. GraphInv => GraphTypeOK
  BY DEF GraphInv, WellFormed, Deepening, Influence, Phases, Placement, Records, GraphTypeOK
<1> QED BY <1>1, <1>2, GraphAlways, PTL

\* Adding up the heights of the blocks on the longest way to an element covers
\* its depth in the circuit, for every circuit and every order of the searches:
\* the levels that a schedule of the blocks needs are never underestimated.
THEOREM DepthCoveredCorrect == ASSUME ParallelAssumption PROVE SpecGraph => []DepthCovered
<1>1. InitGraph => CoverInv
  BY CoverInvInit
<1>2. GraphInv /\ CoverInv /\ [NextGraph]_graph_vars => CoverInv'
  BY CoverInvStep
<1>3. GraphInv /\ CoverInv => DepthCovered
  BY LongestBounds DEF CoverInv, Covered, DepthCovered
<1> QED BY <1>1, <1>2, <1>3, GraphAlways, PTL DEF SpecGraph
=============================================================================
