------------------------------ MODULE HWTaint ------------------------------
(***************************************************************************)
(* The pass hw-taint (HWTaint.cpp): mark what a component of a design is   *)
(* connected to, by walking up and down the instance hierarchy, and remove *)
(* the ports of all modules that stay unmarked.  What drives the component *)
(* has to survive, and does if the component is where the pass looks for it *)
(* and nothing reaches it through a memory (SeenComponent, NothingStored). *)
(*                                                                         *)
(* An instance is its path from the top, a sequence of instance names.     *)
(* The operations in a module's body are abstracted to which source (an    *)
(* input of the module, an output of a child) reaches which sink (a child's *)
(* input, an output of the module) without passing through a child: in     *)
(* Netlists over operands and results alone, which the pass follows, and in *)
(* Stores through an operation without a result (seq.firmem.write_port,    *)
(* sv.assign), which it does not.                                          *)
(*                                                                         *)
(* The pass keeps one record of tags per path.  When a body instantiates a *)
(* module twice, it uses the record of one of the two for both (First).    *)
(***************************************************************************)
EXTENDS Integers, Sequences

CONSTANTS Names,      \* names of instances
          Here,       \* stands for the module itself among its children
          Modules, External,   \* all modules, and those without a body
          In, Out,    \* ports of each module
          Insts,      \* the paths of all instances, the top module's is <<>>
          ModuleAt,   \* module of each instance
          First,      \* of a module's instances of one module: the first in uses()
          Component,  \* the path given to the pass
          Netlists,   \* bodies to try: module -> set of <<source, sink>>
          Stores      \* module -> set of <<source, sink>> through memories and wires

Parent(p) == SubSeq(p, 1, Len(p) - 1)

Below(p) == {q \in Insts : q # <<>> /\ Parent(q) = p}

\* The record the pass finds for an instance from its parent: the first one that
\* has the parent's path and the module, whatever the name of the instance.
Record(q) == Append(Parent(q), First[ModuleAt[Parent(q)]][q[Len(q)]])

ASSUME HierarchyAssumption ==
  /\ Insts \subseteq Seq(Names) /\ <<>> \in Insts
  /\ ModuleAt \in [Insts -> Modules]
  /\ \A q \in Insts \ {<<>>} :
       Parent(q) \in Insts /\ ModuleAt[Parent(q)] \notin External
  /\ \A p, q \in Insts : \A n \in Names :
       ModuleAt[p] = ModuleAt[q] /\ Append(p, n) \in Insts =>
         Append(q, n) \in Insts /\ ModuleAt[Append(q, n)] = ModuleAt[Append(p, n)]
  /\ First \in [Modules -> [Names -> Names]]
  /\ \A q \in Insts \ {<<>>} : Record(q) \in Insts /\ ModuleAt[Record(q)] = ModuleAt[q]
  /\ \A q, r \in Insts \ {<<>>} :
       Parent(q) = Parent(r) /\ ModuleAt[q] = ModuleAt[r] => Record(q) = Record(r)
  /\ Component \in Insts \ {<<>>}
  /\ Here \notin Names
  /\ \A m \in Modules : In[m] \cap Out[m] = {}

VARIABLES nets,     \* the bodies
          tagged,   \* taggedIO of all instances, as pairs <<path, port>>
          fresh,    \* unprocessedIO of all instances
          stack,    \* calls of taintModule
          removed,  \* ports removed from each module
          left      \* modules removeUntaintedPorts has not seen

vars == <<nets, tagged, fresh, stack, removed, left>>

Inputs(p)  == {p} \X In[ModuleAt[p]]
Outputs(p) == {p} \X Out[ModuleAt[p]]
IO(p)      == Inputs(p) \cup Outputs(p)

Records(p) == {Record(q) : q \in Below(p)}

ChildInputs(p)  == UNION {Inputs(q) : q \in Records(p)}
ChildOutputs(p) == UNION {Outputs(q) : q \in Records(p)}

\* A port of p or of a child of p, as the body of p's module names it.
Local(p, x) == <<IF x[1] = p THEN Here ELSE x[1][Len(x[1])], x[2]>>

\* What reaches what in p's body.
Sources(p) == Inputs(p) \cup UNION {Outputs(q) : q \in Below(p)}
Sinks(p)   == Outputs(p) \cup UNION {Inputs(q) : q \in Below(p)}

Flows(p, edges) ==
  {w \in Sources(p) \X Sinks(p) : <<Local(p, w[1]), Local(p, w[2])>> \in edges}

\* Where the pass keeps the tag of a port of p or of a child of p.
Seen(p, x) == <<IF x[1] = p THEN p ELSE Record(x[1]), x[2]>>

\* What a sweep of p's body sees of it.
Wires(p) == {<<Seen(p, w[1]), Seen(p, w[2])>> : w \in Flows(p, nets[ModuleAt[p]])}

\* isPart with pathCompare: p is the component or inside it.
Keep(p) ==
  /\ Len(p) >= Len(Component)
  /\ \A i \in 1..Len(Component) : p[i] = Component[i]

\* A port of p is pending, given all that is pending.
PendingIn(p, ports) == ~Keep(p) /\ ports \cap IO(p) # {}

Unprocessed(p) == PendingIn(p, fresh)

\* A call of taintModule: where it is, whether it will go on to the parent, and
\* the children it has not looked at.
Steps == {"sweep", "again", "children", "return"}

Frames == [inst : Insts, step : Steps, up : BOOLEAN, todo : SUBSET (Insts \ {<<>>})]

Call(p) == [inst |-> p, step |-> "sweep", up |-> FALSE, todo |-> {}]

top == stack[Len(stack)]

Become(f) == stack' = [stack EXCEPT ![Len(stack)] = f]

Init ==
  /\ nets \in Netlists
  /\ tagged = UNION {IO(p) : p \in {q \in Insts : Keep(q)}}
  /\ fresh = {}
  /\ stack = <<Call(Parent(Component))>>
  /\ removed = [m \in Modules |-> {}]
  /\ left = Modules

----------------------------------------------------------------------------
(* taintModule. *)

\* tagInput and tagOutput: a port is unprocessed when it is tagged for the first
\* time.
Newly(ports, tags) == ports \ tags

\* Mutant: only the unprocessed set is filled.
TagNothing(ports) == tagged' = tagged

Tag(ports) == tagged' = tagged \cup ports

Driven(p, sources) == {w[2] : w \in {v \in Wires(p) : v[1] \in sources}}

Needed(p, sinks) == {w[1] : w \in {v \in Wires(p) : v[2] \in sinks}}

\* Mutant: the module's inputs stay unprocessed.
ClearNothing(p, ports) == ports

\* taintDrivers is done with the module's own inputs.
ClearInputs(p, ports) == ports \ Inputs(p)

\* taintDrivers: what the children's outputs drive, p's own inputs are done;
\* then taintSinks: what p's pending outputs and the children's inputs need.
\* Of the children's ports all that are tagged count, or only pending ones.
Sweep(p, all) ==
  LET driven == Driven(p, (IF all THEN tagged ELSE fresh) \cap ChildOutputs(p))
      tags   == tagged \cup driven
      news   == ClearInputs(p, fresh \cup Newly(driven, tagged))
      needed == Needed(p, (news \cap Outputs(p))
                            \cup ((IF all THEN tags ELSE news) \cap ChildInputs(p)))
  IN /\ Tag(driven \cup needed)
     /\ fresh' = (news \ Outputs(p)) \cup Newly(needed, tags)

\* Mutant: the parent is left out.
GoesUpNever(p, ports) == FALSE

\* propToParents: the first sweep leaves new inputs behind.
GoesUp(p, ports) == PendingIn(p, ports)

FirstSweep ==
  /\ stack # <<>> /\ top.step = "sweep" /\ ModuleAt[top.inst] \notin External
  /\ Sweep(top.inst, TRUE)
  /\ Become([top EXCEPT !.step = "again", !.up = GoesUp(top.inst, fresh')])
  /\ UNCHANGED <<nets, removed, left>>

\* An external module: all its ports count.
AcceptAll ==
  /\ stack # <<>> /\ top.step = "sweep" /\ ModuleAt[top.inst] \in External
  /\ Tag(IO(top.inst))
  /\ Become([top EXCEPT !.step = "again",
               !.up = GoesUp(top.inst, fresh \cup Newly(IO(top.inst), tagged))])
  /\ fresh' = fresh \ IO(top.inst)
  /\ UNCHANGED <<nets, removed, left>>

\* The while loop.
SweepAgain ==
  /\ stack # <<>> /\ top.step = "again" /\ Unprocessed(top.inst)
  /\ Sweep(top.inst, FALSE)
  /\ UNCHANGED <<nets, stack, removed, left>>

\* Mutant: an if in place of the while.
SettledOnce(p) == TRUE

Settled(p) == ~Unprocessed(p)

LoopEnds ==
  /\ stack # <<>> /\ top.step = "again" /\ Settled(top.inst)
  /\ Become([top EXCEPT !.step = "children", !.todo = Below(top.inst)])
  /\ UNCHANGED <<nets, tagged, fresh, removed, left>>

\* The children, in any order, are looked at once.
VisitChild(c) ==
  /\ stack # <<>> /\ top.step = "children" /\ c \in top.todo
  /\ LET rest == [stack EXCEPT ![Len(stack)].todo = @ \ {c}] IN
     stack' = IF Unprocessed(Record(c)) THEN Append(rest, Call(Record(c))) ELSE rest
  /\ UNCHANGED <<nets, tagged, fresh, removed, left>>

VisitParent ==
  /\ stack # <<>> /\ top.step = "children" /\ top.todo = {}
  /\ LET rest == [stack EXCEPT ![Len(stack)].step = "return"] IN
     stack' = IF top.up /\ top.inst # <<>> THEN Append(rest, Call(Parent(top.inst)))
              ELSE rest
  /\ UNCHANGED <<nets, tagged, fresh, removed, left>>

Return ==
  /\ stack # <<>> /\ top.step = "return"
  /\ stack' = SubSeq(stack, 1, Len(stack) - 1)
  /\ UNCHANGED <<nets, tagged, fresh, removed, left>>

----------------------------------------------------------------------------
(* removeUntaintedPorts. *)

InstsOf(m) == {p \in Insts : ModuleAt[p] = m}

\* What no instance of m has marked.
Untainted(m) ==
  {x \in In[m] \cup Out[m] : \A p \in InstsOf(m) : <<p, x>> \notin tagged}

RemovePorts(m) ==
  /\ stack = <<>> /\ m \in left
  /\ left' = left \ {m}
  /\ removed' = IF m \in External \/ \E p \in InstsOf(m) : Keep(p) THEN removed
                ELSE [removed EXCEPT ![m] = Untainted(m)]
  /\ UNCHANGED <<nets, tagged, fresh, stack>>

Done == stack = <<>> /\ left = {}

Finished == Done /\ UNCHANGED vars

TaintModule ==
  \/ FirstSweep
  \/ AcceptAll
  \/ SweepAgain
  \/ LoopEnds
  \/ \E c \in Insts : VisitChild(c)
  \/ VisitParent
  \/ Return

Next ==
  \/ TaintModule
  \/ \E m \in Modules : RemovePorts(m)
  \/ Finished

Spec == Init /\ [][Next]_vars /\ WF_vars(Next)

----------------------------------------------------------------------------
(* Properties. *)

\* Tags and pending tags are ports of instances, and the calls are calls.
TypeOK ==
  /\ tagged \subseteq UNION {IO(p) : p \in Insts}
  /\ fresh \subseteq tagged
  /\ stack \in Seq(Frames)
  /\ DOMAIN removed = Modules
  /\ \A m \in Modules : removed[m] \subseteq In[m] \cup Out[m]
  /\ left \subseteq Modules

\* The assertions of taintModule and removeUntaintedPorts: a call returns, and
\* ports are removed, only when nothing is pending; other calls for the same
\* instance may lie below on the stack.
NothingPending ==
  /\ stack # <<>> /\ top.step = "return" => ~Unprocessed(top.inst)
  /\ stack = <<>> => \A p \in Insts : ~Unprocessed(p)

\* r is the path whose records the pass uses for q, all the way from the top.
Stands(r, q) ==
  /\ Len(r) = Len(q)
  /\ \A i \in 1..Len(q) : r[i] = First[ModuleAt[SubSeq(r, 1, i - 1)]][q[i]]
  /\ \A i \in 0..Len(q) : ModuleAt[SubSeq(r, 1, i)] = ModuleAt[SubSeq(q, 1, i)]

\* On the way to the component no instance has an earlier one of its module beside
\* it: the pass looks for the component's tags where it has put them.
SeenComponent == Stands(Component, Component)

\* No memory and no assigned wire lies between two ports.
NothingStored == \A m \in Modules : Stores[m] = {}

\* The ports whose tag the pass has set, in the record that stands for them.
Marked ==
  {y \in UNION {IO(q) : q \in Insts} :
     \E r \in Insts : Stands(r, y[1]) /\ <<r, y[2]>> \in tagged}

\* Ports of the component survive, and with a port everything in the body of
\* each instance that drives it; an external module is taken whole.
FanInClosed(ports) ==
  /\ IO(Component) \subseteq ports
  /\ \A p \in Insts : \A w \in Flows(p, nets[ModuleAt[p]] \cup Stores[ModuleAt[p]]) :
       w[2] \in ports => w[1] \in ports
  /\ \A p \in Insts : ModuleAt[p] \in External /\ IO(p) \cap ports # {} => IO(p) \subseteq ports

\* When the pass is done, all that drives the component, through any number of
\* modules up and down the hierarchy, is still there: the marks contain the
\* component's cone, and no marked port is gone from a module.  The code keeps
\* this only under SeenComponent and NothingStored.
ConeIntact ==
  Done => /\ FanInClosed(Marked)
          /\ \A x \in Marked : x[2] \notin removed[ModuleAt[x[1]]]

\* taintModule calls itself for children and parents; the recursion ends.
Terminates == <>Done
=============================================================================
