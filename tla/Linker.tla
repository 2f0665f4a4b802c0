------------------------------- MODULE Linker -------------------------------
(***************************************************************************)
(* simple_circuitt::link(): every circuit that is called gets merged into  *)
(* its caller, after the circuits that it calls itself were merged into    *)
(* it.  What merging does to the gates is left to Merge.  Here a circuit   *)
(* is the set of the bodies in it, each named by the call sites on the way *)
(* to it (<< >> is the circuit's own), and the set of its function calls.  *)
(* A circuit is copied before it is merged, and the copy has its bodies    *)
(* but not its calls.                                                      *)
(***************************************************************************)
EXTENDS Integers, Sequences

CONSTANTS
  Name,       \* names of circuits
  Circuit,    \* the circuits that were compiled
  Main,       \* the one that link() is called on
  Site,       \* call sites
  In,         \* the circuit that a call site is in
  Callees,    \* what the sites may call
  None

ASSUME LinkerAssumption ==
  /\ Circuit \subseteq Name /\ Main \in Circuit
  /\ In \in [Site -> Circuit]
  /\ Callees \subseteq [Site -> Name]
  /\ None \notin Site

VARIABLES
  callee,     \* the name that each call site calls
  calls,      \* m_function_calls of each circuit
  bodies,     \* the bodies in each circuit
  stack,      \* the calls of link(), with the call that each is about
  failed      \* "Cannot find circuit" was thrown

vars == <<callee, calls, bodies, stack, failed>>

Frame(c, s) == [circuit |-> c, site |-> s]
Top == stack[Len(stack)]
Sites(c) == {s \in Site : In[s] = c}
Running == stack # << >>

Init ==
  /\ callee \in Callees
  /\ calls = [c \in Circuit |-> Sites(c)]
  /\ bodies = [c \in Circuit |-> {<< >>}]
  /\ stack = <<Frame(Main, None)>>
  /\ failed = FALSE

\* Fault: what is called is merged as it is.
LinkCallee_not(s) ==
  /\ Running /\ Top.site = None /\ s \in calls[Top.circuit] /\ callee[s] \in Circuit
  /\ stack' = [stack EXCEPT ![Len(stack)].site = s]
  /\ UNCHANGED <<callee, calls, bodies, failed>>

\* The next call is to a known circuit, which is linked first.
LinkCallee(s) ==
  /\ Running /\ Top.site = None /\ s \in calls[Top.circuit] /\ callee[s] \in Circuit
  /\ stack' = Append([stack EXCEPT ![Len(stack)].site = s], Frame(callee[s], None))
  /\ UNCHANGED <<callee, calls, bodies, failed>>

\* The exception leaves all calls of link().
NotFound(s) ==
  /\ Running /\ Top.site = None /\ s \in calls[Top.circuit] /\ callee[s] \notin Circuit
  /\ stack' = << >>
  /\ failed' = TRUE
  /\ UNCHANGED <<callee, calls, bodies>>

\* Faults: the circuit is moved where it should be copied, or the call is not
\* erased.
MergeCopy_move ==
  /\ Running /\ Top.site # None
  /\ LET c == Top.circuit  s == Top.site  sub == callee[s]
     IN  /\ bodies' = [bodies EXCEPT ![c] = @ \cup {<<s>> \o b : b \in bodies[sub]},
                                     ![sub] = {}]
         /\ calls' = [calls EXCEPT ![c] = @ \ {s}]
         /\ stack' = [stack EXCEPT ![Len(stack)].site = None]
  /\ UNCHANGED <<callee, failed>>
MergeCopy_again ==
  /\ Running /\ Top.site # None
  /\ LET c == Top.circuit  s == Top.site
     IN  /\ bodies' = [bodies EXCEPT ![c] = @ \cup {<<s>> \o b : b \in bodies[callee[s]]}]
         /\ stack' = [stack EXCEPT ![Len(stack)].site = None]
  /\ UNCHANGED <<callee, calls, failed>>

\* The callee was linked: a copy of it is merged and the call is erased.
MergeCopy ==
  /\ Running /\ Top.site # None
  /\ LET c == Top.circuit  s == Top.site
     IN  /\ bodies' = [bodies EXCEPT ![c] = @ \cup {<<s>> \o b : b \in bodies[callee[s]]}]
         /\ calls' = [calls EXCEPT ![c] = @ \ {s}]
         /\ stack' = [stack EXCEPT ![Len(stack)].site = None]
  /\ UNCHANGED <<callee, failed>>

\* All calls are merged: cleanup(), and link() returns.
Return ==
  /\ Running /\ Top.site = None /\ calls[Top.circuit] = {}
  /\ stack' = SubSeq(stack, 1, Len(stack) - 1)
  /\ UNCHANGED <<callee, calls, bodies, failed>>

Step == MergeCopy \/ Return \/ \E s \in Site : LinkCallee(s) \/ NotFound(s)
Done == ~Running /\ UNCHANGED vars

Next == Step \/ Done

\* link() is one thread that goes on as long as it can.
Spec == Init /\ [][Next]_vars /\ WF_vars(Step)

----------------------------------------------------------------------------
(* Properties.                                                             *)

\* The circuit whose body a path leads to.
Leads(c, path) == IF path = << >> THEN c ELSE callee[path[Len(path)]]

\* The types; and a path goes from call to call.
TypeOK ==
  /\ callee \in [Site -> Name]
  /\ calls \in [Circuit -> SUBSET Site]
  /\ bodies \in [Circuit -> SUBSET Seq(Site)]
  /\ stack \in Seq([circuit : Circuit, site : Site \cup {None}])
  /\ failed \in BOOLEAN
  /\ \A c \in Circuit : \A path \in bodies[c] : \A n \in 1 .. Len(path) :
       In[path[n]] = Leads(c, SubSeq(path, 1, n - 1))

\* No call gets lost: for each body that is in a circuit and each call in that
\* body, the body that it calls is in the circuit too, or the call is one of
\* the circuit's own that is still to be merged.
Complete ==
  \A c \in Circuit : \A path \in bodies[c] : \A s \in Site :
    In[s] = Leads(c, path) =>
      Append(path, s) \in bodies[c] \/ (path = << >> /\ s \in calls[c])

\* When link() returns, every call in every body in the main circuit was
\* followed: the circuit needs no other any more.
LinkComplete ==
  ~Running /\ ~failed =>
    \A path \in bodies[Main] : \A s \in Site :
      In[s] = Leads(Main, path) => Append(path, s) \in bodies[Main]

\* link() comes to an end: no circuit calls itself, directly or through others.
Terminates == <>~Running
=============================================================================
