--------------------------- MODULE HWTaint_proofs ---------------------------
(***************************************************************************)
(* For every hierarchy (with instances of one module beside each other,    *)
(* which share a record), every netlist and every order in which the       *)
(* children are visited: when the recursion of taintModule returns nothing *)
(* is pending, and the tags are closed under what drives them.  From this  *)
(* follows that the component's cone survives, if the pass looks for the   *)
(* component's tags where it puts them (SeenComponent) and nothing reaches *)
(* it through an operation without a result (NothingStored).               *)
(***************************************************************************)
EXTENDS HWTaint, SequenceTheorems, TLAPS

----------------------------------------------------------------------------
(* The inductive invariant: who will look at a port that is pending, and at *)
(* a wire whose sink is tagged and whose source is not yet.                *)

\* The call f will handle the pending ports of q.
WillVisit(f, q) ==
  \/ f.inst = q /\ f.step \in {"sweep", "again"}
  \/ /\ q \in Records(f.inst)
     /\ \/ f.step \in {"sweep", "again"}
        \/ f.step = "children" /\ \E c \in f.todo : Record(c) = q

\* The call f will sweep the body of p, or call its parent p, for the sink t, an
\* input of a child of p.
WillClose(f, p, t) ==
  \/ f.inst = p /\ f.step = "sweep" /\ t \in ChildInputs(p)
  \/ /\ f.inst \in Records(p) /\ t \in Inputs(f.inst)
     /\ f.up /\ f.step \in {"again", "children"}

Calls == 1..Len(stack)

\* A pending port is in the hands of some call ...
Scheduled ==
  \A q \in Insts : fresh \cap IO(q) # {} => \E k \in Calls : WillVisit(stack[k], q)

\* ... and if an older call for its instance is past its loop, of a later call.
PassedOn ==
  \A k \in Calls :
    stack[k].step \in {"children", "return"} /\ fresh \cap IO(stack[k].inst) # {} =>
      \E j \in Calls : j > k /\ WillVisit(stack[j], stack[k].inst)

\* A wire that is not closed: its sink is a pending output, or a call sees to it.
Owed ==
  \A p \in Insts : \A w \in Wires(p) : w[2] \in tagged /\ w[1] \notin tagged =>
    \/ w[2] \in fresh \cap Outputs(p)
    \/ \E k \in Calls : WillClose(stack[k], p, w[2])

\* Only the last call sweeps; in its loop, what is pending goes up as well.
LastSweeps ==
  \A k \in Calls :
    /\ k # Len(stack) => stack[k].step \in {"children", "return"}
    /\ stack[k].step = "again" /\ Unprocessed(stack[k].inst) =>
         stack[k].up /\ ModuleAt[stack[k].inst] \notin External

\* The component and what is inside is tagged and never visited.
KeepTagged ==
  /\ \A q \in Insts : Keep(q) => IO(q) \subseteq tagged /\ fresh \cap IO(q) = {}
  /\ \A k \in Calls : ~Keep(stack[k].inst)

\* An external module that is tagged in part is pending.
ExternalWhole ==
  \A q \in Insts :
    ModuleAt[q] \in External /\ IO(q) \cap tagged # {} /\ fresh \cap IO(q) = {} =>
      IO(q) \subseteq tagged

\* No port is removed before the recursion has returned, and no tagged port ever.
TaggedStay ==
  /\ stack # <<>> => removed = [m \in Modules |-> {}]
  /\ \A y \in tagged : y[2] \notin removed[ModuleAt[y[1]]]

Pending == Scheduled /\ PassedOn /\ Owed /\ LastSweeps

IInv == TypeOK /\ Pending /\ KeepTagged /\ ExternalWhole /\ TaggedStay

----------------------------------------------------------------------------
(* Paths and ports. *)

LEMMA PathTypes == \A p \in Insts : p \in Seq(Names)
BY HierarchyAssumption

LEMMA ButLast ==
  ASSUME NEW S, NEW s \in Seq(S), Len(s) >= 1
  PROVE  /\ SubSeq(s, 1, Len(s) - 1) \in Seq(S)
         /\ Len(SubSeq(s, 1, Len(s) - 1)) = Len(s) - 1
         /\ \A i \in 1..Len(s) - 1 : SubSeq(s, 1, Len(s) - 1)[i] = s[i]
<1>1. Len(s) \in Nat /\ 1 \in Int /\ Len(s) - 1 \in Int
  OBVIOUS
<1>2. \A i \in 1..Len(s) - 1 : s[i] \in S
  OBVIOUS
<1> DEFINE n == Len(s) - 1
<1>3. n \in Int /\ n >= 0 /\ \A i \in 1..n : s[i] \in S
  BY <1>1, <1>2
<1> HIDE DEF n
<1>4. /\ SubSeq(s, 1, n) \in Seq(S)
      /\ Len(SubSeq(s, 1, n)) = IF 1 <= n THEN n - 1 + 1 ELSE 0
      /\ \A i \in 1..n - 1 + 1 : SubSeq(s, 1, n)[i] = s[1 + i - 1]
  BY <1>1, <1>3, SubSeqProperties
<1>5. Len(SubSeq(s, 1, n)) = n
  BY <1>3, <1>4
<1>6. \A i \in 1..n : SubSeq(s, 1, n)[i] = s[i]
  BY <1>3, <1>4
<1>7. QED
  BY <1>4, <1>5, <1>6 DEF n

LEMMA ParentFacts ==
  ASSUME NEW q \in Insts, q # <<>>
  PROVE  /\ Parent(q) \in Insts /\ Len(q) >= 1 /\ Len(Parent(q)) = Len(q) - 1
         /\ Parent(q) # q /\ ModuleAt[Parent(q)] \notin External
         /\ \A i \in 1..Len(q) - 1 : Parent(q)[i] = q[i]
<1>1. q \in Seq(Names)
  BY PathTypes
<1>2. Len(q) >= 1 /\ Len(q) \in Nat
  BY <1>1
<1>3. Len(Parent(q)) = Len(q) - 1 /\ \A i \in 1..Len(q) - 1 : Parent(q)[i] = q[i]
  BY <1>1, <1>2, ButLast DEF Parent
<1>4. QED
  BY <1>2, <1>3, HierarchyAssumption

LEMMA BelowFacts ==
  ASSUME NEW p \in Insts, NEW q \in Below(p)
  PROVE  q \in Insts /\ q # <<>> /\ Parent(q) = p /\ q # p /\ ModuleAt[p] \notin External
BY ParentFacts DEF Below

LEMMA InParent ==
  ASSUME NEW q \in Insts, q # <<>>
  PROVE  q \in Below(Parent(q))
BY DEF Below

\* The record used for a child is the one of a child of the same module.
LEMMA RecordFacts ==
  ASSUME NEW q \in Insts, q # <<>>
  PROVE  /\ Record(q) \in Insts /\ Record(q) # <<>> /\ Parent(Record(q)) = Parent(q)
         /\ ModuleAt[Record(q)] = ModuleAt[q] /\ Record(q) \in Below(Parent(q))
<1> DEFINE p == Parent(q)
           n == First[ModuleAt[p]][q[Len(q)]]
<1>1. p \in Insts /\ p \in Seq(Names) /\ ModuleAt[p] \in Modules
  BY ParentFacts, PathTypes, HierarchyAssumption
<1>2. q[Len(q)] \in Names
  BY ParentFacts, PathTypes
<1>3. Append(p, n) \in Insts /\ ModuleAt[Append(p, n)] = ModuleAt[q] 
  BY HierarchyAssumption DEF Record
<1>4. n \in Names
  BY <1>1, <1>2, HierarchyAssumption
<1>5. Record(q) = Append(p, n)
  BY DEF Record
<1> HIDE DEF p, n
<1>6. Append(p, n) # <<>> /\ Len(Append(p, n)) = Len(p) + 1 /\ Append(p, n)[Len(p) + 1] = n
  BY <1>1, <1>4
<1>7. SubSeq(Append(p, n), 1, Len(p) + 1 - 1) = p
  BY <1>1, <1>4
<1>8. Parent(Record(q)) = p
  BY <1>5, <1>6, <1>7 DEF Parent
<1>9. QED
  BY <1>3, <1>5, <1>6, <1>8, InParent DEF p

LEMMA RecordsFacts ==
  ASSUME NEW p \in Insts, NEW q \in Records(p)
  PROVE  /\ q \in Below(p) /\ q \in Insts /\ q # <<>> /\ Parent(q) = p /\ q # p
         /\ ModuleAt[p] \notin External
<1>1. PICK c \in Below(p) : q = Record(c)
  BY DEF Records
<1>2. QED
  BY <1>1, BelowFacts, RecordFacts DEF Below

LEMMA RecordIsRecord ==
  ASSUME NEW p \in Insts, NEW c \in Below(p)
  PROVE  Record(c) \in Records(p)
BY DEF Records

\* What is inside an instance that is part of the component is part of it.
LEMMA KeepBelow ==
  ASSUME NEW p \in Insts, NEW q \in Below(p), Keep(p)
  PROVE  Keep(q)
<1>1. Component \in Seq(Names) /\ Len(Component) \in Nat
  BY PathTypes, HierarchyAssumption
<1>2. q \in Insts /\ q # <<>> /\ Parent(q) = p
  BY BelowFacts
<1>3. Len(p) = Len(q) - 1 /\ \A i \in 1..Len(q) - 1 : p[i] = q[i]
  BY <1>2, ParentFacts
<1>4. Len(q) \in Nat
  BY <1>2, PathTypes
<1>5. QED
  BY <1>1, <1>3, <1>4 DEF Keep

\* Only the component itself is part of it and below an instance that is not.
LEMMA KeepEdge ==
  ASSUME NEW p \in Insts, NEW q \in Below(p), Keep(q), ~Keep(p)
  PROVE  q = Component
<1>1. Component \in Seq(Names) /\ Len(Component) \in Nat
  BY PathTypes, HierarchyAssumption
<1>2. q \in Insts /\ q # <<>> /\ Parent(q) = p /\ q \in Seq(Names) /\ Len(q) \in Nat
  BY BelowFacts, PathTypes
<1>3. Len(p) = Len(q) - 1 /\ \A i \in 1..Len(q) - 1 : p[i] = q[i]
  BY <1>2, ParentFacts
<1>4. Len(q) = Len(Component)
  BY <1>1, <1>2, <1>3 DEF Keep
<1>5. \A i \in 1..Len(q) : q[i] = Component[i]
  BY <1>4 DEF Keep
<1>6. QED
  BY <1>1, <1>2, <1>4, <1>5

LEMMA ParentOfComponent ==
  /\ Parent(Component) \in Insts /\ ~Keep(Parent(Component))
  /\ Component \in Below(Parent(Component)) /\ Keep(Component)
<1>1. Component \in Insts /\ Component # <<>> /\ Len(Component) \in Nat
  BY PathTypes, HierarchyAssumption
<1>2. Parent(Component) \in Insts /\ Len(Parent(Component)) = Len(Component) - 1
  BY <1>1, ParentFacts
<1>3. QED
  BY <1>1, <1>2, InParent DEF Keep

LEMMA Owner ==
  ASSUME NEW p, NEW x \in IO(p)
  PROVE  x[1] = p /\ x = <<p, x[2]>> /\ x[2] \in In[ModuleAt[p]] \cup Out[ModuleAt[p]]
BY DEF IO, Inputs, Outputs

LEMMA Apart ==
  ASSUME NEW p \in Insts
  PROVE  Inputs(p) \cap Outputs(p) = {}
<1>1. ModuleAt[p] \in Modules
  BY HierarchyAssumption
<1>2. In[ModuleAt[p]] \cap Out[ModuleAt[p]] = {}
  BY <1>1, HierarchyAssumption
<1>3. QED
  BY <1>2 DEF Inputs, Outputs

\* Where the pass keeps the tag of a port.
LEMMA SeenFacts ==
  ASSUME NEW p \in Insts
  PROVE  /\ \A x \in Inputs(p) : Seen(p, x) \in Inputs(p)
         /\ \A x \in Outputs(p) : Seen(p, x) \in Outputs(p)
         /\ \A c \in Below(p) :
              /\ \A x \in Inputs(c) : \E q \in Records(p) : Seen(p, x) \in Inputs(q)
              /\ \A x \in Outputs(c) : \E q \in Records(p) : Seen(p, x) \in Outputs(q)
<1>1. \A x \in Inputs(p) \cup Outputs(p) : x[1] = p /\ Seen(p, x) = x
  BY DEF Seen, Inputs, Outputs
<1>2. ASSUME NEW c \in Below(p)
      PROVE  /\ \A x \in Inputs(c) : \E q \in Records(p) : Seen(p, x) \in Inputs(q)
             /\ \A x \in Outputs(c) : \E q \in Records(p) : Seen(p, x) \in Outputs(q)
  <2>1. c \in Insts /\ c # <<>> /\ c # p /\ ModuleAt[Record(c)] = ModuleAt[c] /\ Record(c) \in Records(p)
    BY BelowFacts, RecordFacts, RecordIsRecord
  <2>2. \A x \in Inputs(c) : Seen(p, x) \in Inputs(Record(c))
    BY <2>1 DEF Seen, Inputs
  <2>3. \A x \in Outputs(c) : Seen(p, x) \in Outputs(Record(c))
    BY <2>1 DEF Seen, Outputs
  <2>4. QED
    BY <2>1, <2>2, <2>3
<1>3. QED
  BY <1>1, <1>2

\* The ends of a wire of p's body.
LEMMA WireEnds ==
  ASSUME NEW p \in Insts, NEW w \in Wires(p)
  PROVE  /\ w[1] \in Inputs(p) \/ \E q \in Records(p) : w[1] \in Outputs(q)
         /\ w[2] \in Outputs(p) \/ \E q \in Records(p) : w[2] \in Inputs(q)
         /\ w[1] \in Inputs(p) \cup ChildOutputs(p)
         /\ w[2] \in Outputs(p) \cup ChildInputs(p)
<1>1. PICK v \in Flows(p, nets[ModuleAt[p]]) : w = <<Seen(p, v[1]), Seen(p, v[2])>>
  BY DEF Wires
<1>2. w[1] = Seen(p, v[1]) /\ w[2] = Seen(p, v[2]) /\ v[1] \in Sources(p) /\ v[2] \in Sinks(p)
  BY <1>1 DEF Flows
<1>3. w[1] \in Inputs(p) \/ \E q \in Records(p) : w[1] \in Outputs(q)
  BY <1>2, SeenFacts DEF Sources
<1>4. w[2] \in Outputs(p) \/ \E q \in Records(p) : w[2] \in Inputs(q)
  BY <1>2, SeenFacts DEF Sinks
<1>5. QED
  BY <1>3, <1>4 DEF ChildInputs, ChildOutputs

----------------------------------------------------------------------------
(* The stack. *)

LEMMA Replaced ==
  ASSUME NEW s \in Seq(Frames), s # <<>>, NEW f \in Frames,
         NEW t, t = [s EXCEPT ![Len(s)] = f]
  PROVE  /\ t \in Seq(Frames) /\ t # <<>> /\ Len(t) = Len(s) /\ t[Len(s)] = f
         /\ \A k \in 1..Len(s) : k # Len(s) => t[k] = s[k]
BY ExceptSeq

LEMMA Pushed ==
  ASSUME NEW s \in Seq(Frames), NEW f \in Frames
  PROVE  /\ Append(s, f) \in Seq(Frames) /\ Append(s, f) # <<>>
         /\ Len(Append(s, f)) = Len(s) + 1 /\ Append(s, f)[Len(s) + 1] = f
         /\ \A k \in 1..Len(s) : Append(s, f)[k] = s[k]
OBVIOUS

LEMMA Popped ==
  ASSUME NEW s \in Seq(Frames), s # <<>>, NEW t, t = SubSeq(s, 1, Len(s) - 1)
  PROVE  /\ t \in Seq(Frames) /\ Len(t) = Len(s) - 1
         /\ \A k \in 1..Len(t) : t[k] = s[k]
<1>1. Len(s) \in Nat /\ Len(s) >= 1
  OBVIOUS
<1>2. QED
  BY <1>1, ButLast

LEMMA TopFacts ==
  ASSUME stack \in Seq(Frames), stack # <<>>
  PROVE  /\ top \in Frames /\ top.inst \in Insts /\ Len(stack) \in Calls /\ top = stack[Len(stack)]
         /\ Len(stack) \in Nat /\ \A k \in Calls : stack[k] \in Frames /\ stack[k].inst \in Insts
<1>1. Len(stack) \in Nat /\ Len(stack) >= 1 /\ Len(stack) \in Calls
  BY DEF Calls
<1>2. \A k \in Calls : stack[k] \in Frames
  BY DEF Calls
<1>3. \A f \in Frames : f.inst \in Insts
  BY DEF Frames
<1>4. QED
  BY <1>1, <1>2, <1>3 DEF top

----------------------------------------------------------------------------
(* What one sweep of a body does. *)

LEMMA WiredFacts ==
  ASSUME NEW p \in Insts, NEW ports
  PROVE  /\ Driven(p, ports) \subseteq Outputs(p) \cup ChildInputs(p)
         /\ Needed(p, ports) \subseteq Inputs(p) \cup ChildOutputs(p)
BY WireEnds DEF Driven, Needed

LEMMA ChildrenApart ==
  ASSUME NEW p \in Insts
  PROVE  /\ Inputs(p) \cap ChildInputs(p) = {} /\ Outputs(p) \cap ChildInputs(p) = {}
         /\ Inputs(p) \cap ChildOutputs(p) = {} /\ Outputs(p) \cap ChildOutputs(p) = {}
         /\ ChildInputs(p) \cap ChildOutputs(p) = {}
<1>1. \A q \in Records(p) : q # p /\ q \in Insts
  BY RecordsFacts
<1>2. \A q \in Records(p) : \A x : (x \in Inputs(q) => x[1] = q) /\ (x \in Outputs(q) => x[1] = q)
  BY DEF Inputs, Outputs
<1>3. \A x : (x \in Inputs(p) => x[1] = p) /\ (x \in Outputs(p) => x[1] = p)
  BY DEF Inputs, Outputs
<1>4. \A q \in Records(p) : Inputs(q) \cap Outputs(q) = {}
  BY <1>1, Apart
<1>5. QED
  BY <1>1, <1>2, <1>3, <1>4 DEF ChildInputs, ChildOutputs

\* Only the bodies decide what is wired.
LEMMA SameWires ==
  ASSUME UNCHANGED nets
  PROVE  \A p \in Insts : Wires(p)' = Wires(p)
BY DEF Wires, Flows

\* The ports a sweep of p can tag.
Reach(p) == IO(p) \cup ChildInputs(p) \cup ChildOutputs(p)

LEMMA SweepEffect ==
  ASSUME NEW p \in Insts, NEW all \in BOOLEAN, Sweep(p, all), fresh \subseteq tagged
  PROVE  /\ tagged \subseteq tagged' /\ fresh' \subseteq tagged'
         /\ tagged' \subseteq tagged \cup Reach(p)
         /\ \A x \in tagged' \ tagged : x \notin Outputs(p) => x \in fresh'
         /\ \A x \in fresh' : x \in fresh \/ (x \in Reach(p) /\ x \notin tagged)
         /\ fresh \ IO(p) \subseteq fresh'
         /\ fresh' \cap Outputs(p) = {}
<1> DEFINE driven == Driven(p, (IF all THEN tagged ELSE fresh) \cap ChildOutputs(p))
           tags   == tagged \cup driven
           news   == (fresh \cup (driven \ tagged)) \ Inputs(p)
           needed == Needed(p, (news \cap Outputs(p))
                                 \cup ((IF all THEN tags ELSE news) \cap ChildInputs(p)))
<1>1. tagged' = tagged \cup driven \cup needed
  BY DEF Sweep, Tag, Newly, ClearInputs
<1>2. fresh' = (news \ Outputs(p)) \cup (needed \ tags)
  BY DEF Sweep, Newly, ClearInputs
<1>3. driven \subseteq Outputs(p) \cup ChildInputs(p) /\ needed \subseteq Inputs(p) \cup ChildOutputs(p)
  BY WiredFacts
<1> HIDE DEF driven, needed
<1>4. QED
  BY <1>1, <1>2, <1>3, Apart, ChildrenApart DEF Reach, IO

\* A wire whose sink is tagged by the sweep, or taken by it, is closed by it.
LEMMA SweepCloses ==
  ASSUME NEW p \in Insts, NEW all \in BOOLEAN, Sweep(p, all), fresh \subseteq tagged,
         NEW w \in Wires(p), w[2] \in tagged',
         \/ w[2] \notin tagged
         \/ w[2] \in fresh \cap Outputs(p)
         \/ all /\ w[2] \in ChildInputs(p)
  PROVE  w[1] \in tagged'
<1> DEFINE driven == Driven(p, (IF all THEN tagged ELSE fresh) \cap ChildOutputs(p))
           tags   == tagged \cup driven
           news   == (fresh \cup (driven \ tagged)) \ Inputs(p)
           sinks  == (news \cap Outputs(p)) \cup ((IF all THEN tags ELSE news) \cap ChildInputs(p))
<1>1. tagged' = tagged \cup driven \cup Needed(p, sinks)
  BY DEF Sweep, Tag, Newly, ClearInputs
<1>2. driven \subseteq Outputs(p) \cup ChildInputs(p) /\ Needed(p, sinks) \subseteq Inputs(p) \cup ChildOutputs(p)
  BY WiredFacts
<1>3. w[2] \in Outputs(p) \cup ChildInputs(p)
  BY WireEnds
<1> HIDE DEF driven
<1>4. w[2] \in sinks
  <2>1. CASE w[2] \notin tagged
    BY <2>1, <1>1, <1>2, <1>3, Apart, ChildrenApart
  <2>2. CASE w[2] \in fresh \cap Outputs(p)
    BY <2>2, Apart
  <2>3. CASE all /\ w[2] \in ChildInputs(p)
    BY <2>3, <1>1, <1>2, Apart, ChildrenApart
  <2>4. QED
    BY <2>1, <2>2, <2>3
<1> HIDE DEF sinks
<1>5. w[1] \in Needed(p, sinks)
  BY <1>4 DEF Needed
<1>6. QED
  BY <1>1, <1>5

LEMMA ReachFacts ==
  ASSUME NEW p \in Insts, NEW x \in Reach(p)
  PROVE  \E q \in Insts : x \in IO(q) /\ (q = p \/ q \in Records(p))
BY RecordsFacts DEF Reach, IO, ChildInputs, ChildOutputs

LEMMA ReachTyped ==
  ASSUME NEW p \in Insts
  PROVE  Reach(p) \subseteq UNION {IO(q) : q \in Insts}
BY ReachFacts

\* The state after a sweep by the last call, which stays in its loop.
SweepStep(all) ==
  /\ stack # <<>> /\ top.step \in {"sweep", "again"} /\ ModuleAt[top.inst] \notin External
  /\ top.step = "sweep" => all
  /\ Sweep(top.inst, all)
  /\ stack' \in Seq(Frames) /\ stack' # <<>> /\ Len(stack') = Len(stack)
  /\ \A k \in Calls : k # Len(stack) => stack'[k] = stack[k]
  /\ stack'[Len(stack)].inst = top.inst /\ stack'[Len(stack)].step = "again"
  /\ PendingIn(top.inst, fresh') => stack'[Len(stack)].up
  /\ top.step = "again" /\ top.up => stack'[Len(stack)].up
  /\ UNCHANGED <<nets, removed, left>>

LEMMA SweepIsSweepStep ==
  ASSUME IInv, FirstSweep \/ SweepAgain
  PROVE  \E all \in BOOLEAN : SweepStep(all)
<1>1. stack \in Seq(Frames) /\ stack # <<>>
  BY DEF IInv, TypeOK, FirstSweep, SweepAgain
<1>2. top \in Frames /\ top = stack[Len(stack)] /\ Len(stack) \in Calls
  BY <1>1, TopFacts
<1>3. CASE FirstSweep
  <2> DEFINE f == [top EXCEPT !.step = "again", !.up = GoesUp(top.inst, fresh')]
  <2>1. f \in Frames /\ f.inst = top.inst /\ f.step = "again" /\ f.up = PendingIn(top.inst, fresh')
    BY <1>2 DEF Frames, Steps, GoesUp, PendingIn
  <2>2. stack' = [stack EXCEPT ![Len(stack)] = f]
    BY <1>3 DEF FirstSweep, Become
  <2> HIDE DEF f
  <2>3. /\ stack' \in Seq(Frames) /\ stack' # <<>> /\ Len(stack') = Len(stack)
        /\ stack'[Len(stack)] = f /\ \A k \in Calls : k # Len(stack) => stack'[k] = stack[k]
    BY <1>1, <2>1, <2>2, Replaced DEF Calls
  <2>4. SweepStep(TRUE)
    BY <1>3, <2>1, <2>3 DEF FirstSweep, SweepStep
  <2>5. QED
    BY <2>4
<1>4. CASE SweepAgain
  <2>1. PendingIn(top.inst, fresh) /\ top.step = "again" /\ stack' = stack
    BY <1>4 DEF SweepAgain, Unprocessed
  <2>2. top.up /\ ModuleAt[top.inst] \notin External
    BY <1>2, <2>1 DEF IInv, Pending, LastSweeps, Unprocessed
  <2>3. SweepStep(FALSE)
    BY <1>1, <1>2, <1>4, <2>1, <2>2 DEF SweepAgain, SweepStep
  <2>4. QED
    BY <2>3
<1>5. QED
  BY <1>3, <1>4

LEMMA SweepFacts ==
  ASSUME IInv, NEW all \in BOOLEAN, SweepStep(all)
  PROVE  /\ top.inst \in Insts /\ ~Keep(top.inst) /\ top = stack[Len(stack)]
         /\ Len(stack) \in Calls /\ Len(stack) \in Nat /\ Calls' = Calls
         /\ fresh \subseteq tagged
BY TopFacts DEF SweepStep, IInv, TypeOK, KeepTagged, Calls

LEMMA SweepType ==
  ASSUME IInv, NEW all \in BOOLEAN, SweepStep(all)
  PROVE  TypeOK'
<1>1. top.inst \in Insts /\ fresh \subseteq tagged
  BY SweepFacts
<1>2. tagged' \subseteq tagged \cup Reach(top.inst) /\ fresh' \subseteq tagged'
  BY <1>1, SweepEffect DEF SweepStep
<1>3. tagged' \subseteq UNION {IO(p) : p \in Insts}
  BY <1>1, <1>2, ReachTyped DEF IInv, TypeOK
<1>4. QED
  BY <1>2, <1>3 DEF SweepStep, IInv, TypeOK, IO, Inputs, Outputs

LEMMA SweepScheduled ==
  ASSUME IInv, NEW all \in BOOLEAN, SweepStep(all)
  PROVE  Scheduled' /\ PassedOn'
<1> DEFINE p == top.inst  n == Len(stack)
<1>1. /\ p \in Insts /\ top = stack[n] /\ n \in Calls /\ n \in Nat /\ Calls' = Calls
      /\ fresh \subseteq tagged
  BY SweepFacts
<1>2. stack'[n].inst = p /\ stack'[n].step = "again" /\ \A k \in Calls : k # n => stack'[k] = stack[k]
  BY DEF SweepStep
<1>3. \A x \in fresh' : x \in fresh \/ x \in Reach(p)
  BY <1>1, SweepEffect DEF SweepStep
<1>4. \A q \in Insts : q = p \/ q \in Records(p) => WillVisit(stack'[n], q)
  BY <1>2 DEF WillVisit
<1>5. \A q \in Insts : q # p /\ q \notin Records(p) =>
        fresh' \cap IO(q) \subseteq fresh /\ ~WillVisit(stack[n], q)
  <2> SUFFICES ASSUME NEW q \in Insts, q # p, q \notin Records(p)
               PROVE  fresh' \cap IO(q) \subseteq fresh /\ ~WillVisit(stack[n], q)
    OBVIOUS
  <2>1. \A x \in IO(q) : x \notin Reach(p)
    BY <1>1, ReachFacts, Owner
  <2>2. QED
    BY <1>1, <1>3, <2>1 DEF WillVisit
<1>6. \A q \in Insts : \A k \in Calls :
        k # n /\ WillVisit(stack[k], q) => WillVisit(stack'[k], q)
  BY <1>2
<1> HIDE DEF p, n
<1>7. Scheduled'
  <2> SUFFICES ASSUME NEW q \in Insts, fresh' \cap IO(q) # {}
               PROVE  \E k \in Calls : WillVisit(stack'[k], q)
    BY <1>1 DEF Scheduled, WillVisit, Below, Records, Record, IO, Inputs, Outputs
  <2>1. CASE q = p \/ q \in Records(p)
    BY <1>1, <1>4, <2>1
  <2>2. CASE ~(q = p \/ q \in Records(p))
    BY <1>1, <1>5, <1>6, <2>2 DEF IInv, Pending, Scheduled
  <2>3. QED
    BY <2>1, <2>2
<1>8. PassedOn'
  <2> SUFFICES ASSUME NEW k \in Calls, stack'[k].step \in {"children", "return"},
                      fresh' \cap IO(stack'[k].inst) # {}
               PROVE  \E j \in Calls : j > k /\ WillVisit(stack'[j], stack'[k].inst)
    BY <1>1 DEF PassedOn, WillVisit, Below, Records, Record, IO, Inputs, Outputs
  <2>1. k # n /\ k < n /\ stack'[k] = stack[k] /\ stack[k].inst \in Insts
    BY <1>1, <1>2, TopFacts DEF Calls, n, IInv, TypeOK, SweepStep
  <2>2. CASE stack[k].inst = p \/ stack[k].inst \in Records(p)
    BY <1>1, <1>4, <2>1, <2>2
  <2>3. CASE ~(stack[k].inst = p \/ stack[k].inst \in Records(p))
    <3>1. PICK j \in Calls : j > k /\ WillVisit(stack[j], stack[k].inst)
      BY <1>5, <2>1, <2>3 DEF IInv, Pending, PassedOn
    <3>2. QED
      BY <1>5, <1>6, <2>1, <2>3, <3>1
  <2>4. QED
    BY <2>2, <2>3
<1>9. QED
  BY <1>7, <1>8

LEMMA SweepOwed ==
  ASSUME IInv, NEW all \in BOOLEAN, SweepStep(all)
  PROVE  Owed'
<1> DEFINE p == top.inst  n == Len(stack)
<1>1. /\ p \in Insts /\ ~Keep(p) /\ top = stack[n] /\ n \in Calls /\ Calls' = Calls /\ fresh \subseteq tagged
  BY SweepFacts
<1>2. /\ stack'[n].inst = p /\ stack'[n].step = "again" /\ \A k \in Calls : k # n => stack'[k] = stack[k]
      /\ PendingIn(p, fresh') => stack'[n].up
      /\ top.step = "again" /\ top.up => stack'[n].up
      /\ top.step = "sweep" => all
      /\ top.step \in {"sweep", "again"}
  BY DEF SweepStep
<1>3. /\ tagged \subseteq tagged' /\ tagged' \subseteq tagged \cup Reach(p)
      /\ \A x \in tagged' \ tagged : x \notin Outputs(p) => x \in fresh'
      /\ fresh \ IO(p) \subseteq fresh'
  BY <1>1, SweepEffect DEF SweepStep
<1>4. Sweep(p, all)
  BY DEF SweepStep
<1> HIDE DEF p, n
<1> SUFFICES ASSUME NEW q \in Insts, NEW w \in Wires(q), w[2] \in tagged', w[1] \notin tagged'
             PROVE  \/ w[2] \in fresh' \cap Outputs(q)
                    \/ \E k \in Calls : WillClose(stack'[k], q, w[2])
  BY <1>1, SameWires DEF Owed, WillClose, Below, Records, Record, IO, Inputs, Outputs, ChildInputs, ChildOutputs, SweepStep
<1>5. CASE w[2] \in tagged
  <2>1. w[1] \notin tagged
    BY <1>3
  <2>2. CASE w[2] \in fresh \cap Outputs(q)
    <3>1. q # p
      BY <1>1, <1>4, <2>2, SweepCloses
    <3>2. w[2] \notin IO(p)
      BY <2>2, <3>1, Owner DEF IO
    <3>3. QED
      BY <1>3, <2>2, <3>2
  <2>3. CASE \E k \in Calls : WillClose(stack[k], q, w[2])
    <3>1. PICK k \in Calls : WillClose(stack[k], q, w[2])
      BY <2>3
    <3>2. CASE k # n
      BY <1>2, <3>1, <3>2
    <3>3. CASE k = n /\ top.step = "again"
      <4>1. WillClose(top, q, w[2])
        BY <1>1, <3>1, <3>3
      <4>2. top.inst \in Records(q) /\ w[2] \in Inputs(top.inst) /\ top.up
        BY <3>3, <4>1 DEF WillClose
      <4>3. stack'[n].up /\ stack'[n].inst = top.inst
        BY <1>2, <3>3, <4>2 DEF p
      <4>4. WillClose(stack'[n], q, w[2])
        BY <1>2, <4>2, <4>3 DEF WillClose
      <4>5. QED
        BY <1>1, <4>4
    <3>4. CASE k = n /\ top.step = "sweep"
      <4>1. WillClose(top, q, w[2])
        BY <1>1, <3>1, <3>4
      <4>2. q = p /\ w[2] \in ChildInputs(p)
        BY <3>4, <4>1 DEF WillClose, p
      <4>3. all
        BY <1>2, <3>4
      <4>4. QED
        BY <1>1, <1>4, <4>2, <4>3, SweepCloses
    <3>5. QED
      BY <1>2, <3>2, <3>3, <3>4
  <2>4. QED
    BY <1>5, <2>1, <2>2, <2>3 DEF IInv, Pending, Owed
<1>6. CASE w[2] \notin tagged
  <2>1. q # p
    BY <1>1, <1>4, <1>6, SweepCloses
  <2>2. PICK r \in Insts : w[2] \in IO(r) /\ (r = p \/ r \in Records(p))
    BY <1>1, <1>3, <1>6, ReachFacts
  <2>3. w[2] \notin Outputs(p) => w[2] \in fresh'
    BY <1>3, <1>6
  <2>4. w[2][1] = r /\ (w[2] \in Outputs(p) => r = p)
    BY <2>2, Owner DEF IO
  <2>5. CASE w[2] \in Outputs(q)
    <3>1. w[2][1] = q
      BY <2>5, Owner DEF IO
    <3>2. QED
      BY <2>1, <2>3, <2>4, <2>5, <3>1
  <2>6. CASE \E c \in Records(q) : w[2] \in Inputs(c)
    <3>1. PICK c \in Records(q) : w[2] \in Inputs(c)
      BY <2>6
    <3>2. c = r /\ c \in Insts /\ Parent(c) = q
      BY <2>4, <3>1, RecordsFacts, Owner DEF IO
    <3>3. r = p
      BY <1>1, <2>1, <2>2, <3>2, RecordsFacts
    <3>4. w[2] \in fresh'
      BY <2>3, <3>1, <3>2, <3>3, Apart
    <3>5. stack'[n].up
      BY <1>1, <1>2, <2>2, <3>3, <3>4 DEF PendingIn
    <3>6. WillClose(stack'[n], q, w[2])
      BY <1>2, <3>1, <3>2, <3>3, <3>5 DEF WillClose
    <3>7. QED
      BY <1>1, <3>6
  <2>7. QED
    BY <2>5, <2>6, WireEnds
<1>7. QED
  BY <1>5, <1>6

LEMMA SweepRest ==
  ASSUME IInv, NEW all \in BOOLEAN, SweepStep(all)
  PROVE  LastSweeps' /\ KeepTagged' /\ ExternalWhole' /\ TaggedStay'
<1> DEFINE p == top.inst  n == Len(stack)
<1>1. /\ p \in Insts /\ ~Keep(p) /\ top = stack[n] /\ n \in Calls /\ n \in Nat
      /\ Calls' = Calls /\ fresh \subseteq tagged
  BY SweepFacts
<1>2. /\ stack'[n].inst = p /\ stack'[n].step = "again" /\ \A k \in Calls : k # n => stack'[k] = stack[k]
      /\ PendingIn(p, fresh') => stack'[n].up
      /\ ModuleAt[p] \notin External /\ Len(stack') = n
      /\ stack # <<>> /\ removed' = removed
  BY DEF SweepStep
<1>3. /\ tagged \subseteq tagged' /\ tagged' \subseteq tagged \cup Reach(p)
      /\ \A x \in tagged' \ tagged : x \notin Outputs(p) => x \in fresh'
      /\ \A x \in fresh' : x \in fresh \/ (x \in Reach(p) /\ x \notin tagged)
      /\ fresh \ IO(p) \subseteq fresh'
  BY <1>1, SweepEffect DEF SweepStep
<1> HIDE DEF p, n
<1>4. LastSweeps'
  <2> SUFFICES ASSUME NEW k \in Calls
               PROVE  /\ k # n => stack'[k].step \in {"children", "return"}
                      /\ stack'[k].step = "again" /\ PendingIn(stack'[k].inst, fresh') =>
                           stack'[k].up /\ ModuleAt[stack'[k].inst] \notin External
    BY <1>1, <1>2 DEF LastSweeps, Unprocessed, PendingIn, IO, Inputs, Outputs
  <2>1. CASE k = n
    BY <1>2, <2>1
  <2>2. CASE k # n
    BY <1>2, <2>2 DEF IInv, Pending, LastSweeps, n
  <2>3. QED
    BY <2>1, <2>2
<1>5. KeepTagged'
  <2>1. \A q \in Insts : Keep(q) => IO(q) \subseteq tagged' /\ fresh' \cap IO(q) = {}
    BY <1>3 DEF IInv, KeepTagged
  <2>2. \A k \in Calls : ~Keep(stack'[k].inst)
    BY <1>1, <1>2 DEF IInv, KeepTagged
  <2>3. QED
    BY <1>1, <2>1, <2>2 DEF KeepTagged, IO, Inputs, Outputs
<1>6. ExternalWhole'
  <2> SUFFICES ASSUME NEW q \in Insts, ModuleAt[q] \in External, IO(q) \cap tagged' # {},
                      fresh' \cap IO(q) = {}
               PROVE  IO(q) \subseteq tagged'
    BY DEF ExternalWhole, IO, Inputs, Outputs
  <2>1. q # p
    BY <1>2
  <2>2. IO(q) \cap IO(p) = {}
    BY <2>1, Owner
  <2>3. fresh \cap IO(q) = {}
    BY <1>3, <2>2
  <2>4. IO(q) \cap tagged # {}
    BY <1>3, <2>2 DEF IO
  <2>5. QED
    BY <1>3, <2>3, <2>4 DEF IInv, ExternalWhole
<1>7. TaggedStay'
  <2>1. \A y \in tagged' : ModuleAt[y[1]] \in Modules
    <3>1. TypeOK'
      BY SweepType
    <3>2. \A y \in tagged' : \E q \in Insts : y \in IO(q)
      BY <3>1 DEF TypeOK, IO, Inputs, Outputs
    <3>3. QED
      BY <3>2, Owner, HierarchyAssumption
  <2>2. removed' = [m \in Modules |-> {}]
    BY <1>2 DEF IInv, TaggedStay
  <2>3. QED
    BY <2>1, <2>2 DEF TaggedStay
<1>8. QED
  BY <1>4, <1>5, <1>6, <1>7

LEMMA SweepInvariant ==
  ASSUME IInv, FirstSweep \/ SweepAgain
  PROVE  IInv'
<1>1. PICK all \in BOOLEAN : SweepStep(all)
  BY SweepIsSweepStep
<1>2. QED
  BY <1>1, SweepType, SweepScheduled, SweepOwed, SweepRest DEF IInv, Pending

----------------------------------------------------------------------------
(* An external module takes all its ports. *)

LEMMA NoChildren ==
  ASSUME NEW p \in Insts, ModuleAt[p] \in External
  PROVE  Below(p) = {} /\ Records(p) = {} /\ ChildInputs(p) = {} /\ ChildOutputs(p) = {}
BY BelowFacts DEF Records, ChildInputs, ChildOutputs

LEMMA AcceptInvariant ==
  ASSUME IInv, AcceptAll
  PROVE  IInv'
<1> DEFINE p == top.inst
           n == Len(stack)
           up == GoesUp(p, fresh \cup Newly(IO(p), tagged))
           f == [top EXCEPT !.step = "again", !.up = up]
<1>1. /\ stack \in Seq(Frames) /\ stack # <<>> /\ top.step = "sweep" /\ ModuleAt[p] \in External
      /\ tagged' = tagged \cup IO(p) /\ fresh' = fresh \ IO(p)
      /\ stack' = [stack EXCEPT ![n] = f] /\ UNCHANGED <<nets, removed, left>>
  BY DEF AcceptAll, Tag, Become, IInv, TypeOK
<1>2. /\ p \in Insts /\ top = stack[n] /\ top \in Frames /\ n \in Calls /\ n \in Nat /\ ~Keep(p)
  BY <1>1, TopFacts DEF IInv, KeepTagged
<1>3. up \in BOOLEAN /\ (\A x \in IO(p) : x \notin tagged => up)
  BY <1>2 DEF GoesUp, PendingIn, Newly
<1>4. f \in Frames /\ f.inst = p /\ f.step = "again" /\ f.up = up
  BY <1>2, <1>3 DEF Frames, Steps
<1> HIDE DEF f, up
<1>5. /\ stack' \in Seq(Frames) /\ stack' # <<>> /\ Len(stack') = n /\ stack'[n] = f
      /\ Calls' = Calls /\ \A k \in Calls : k # n => stack'[k] = stack[k]
  BY <1>1, <1>4, Replaced DEF Calls
<1>6. \A q \in Insts : q # p => IO(q) \cap IO(p) = {} /\ ~WillVisit(stack[n], q)
  BY <1>1, <1>2, NoChildren, Owner DEF WillVisit
<1>7. Records(p) = {} /\ ChildInputs(p) = {} /\ ChildOutputs(p) = {}
  BY <1>1, <1>2, NoChildren
<1> HIDE DEF p, n
<1>8. TypeOK'
  <2>1. tagged' \subseteq UNION {IO(q) : q \in Insts} /\ fresh' \subseteq tagged'
    BY <1>1, <1>2 DEF IInv, TypeOK
  <2>2. QED
    BY <1>1, <1>5, <2>1 DEF IInv, TypeOK, IO, Inputs, Outputs
<1>9. Scheduled'
  <2> SUFFICES ASSUME NEW q \in Insts, fresh' \cap IO(q) # {}
               PROVE  \E k \in Calls : WillVisit(stack'[k], q)
    BY <1>5 DEF Scheduled, WillVisit, Below, Records, Record, IO, Inputs, Outputs
  <2>1. q # p /\ fresh \cap IO(q) # {}
    BY <1>1
  <2>2. PICK k \in Calls : WillVisit(stack[k], q)
    BY <2>1 DEF IInv, Pending, Scheduled
  <2>3. QED
    BY <1>5, <1>6, <2>1, <2>2
<1>10. PassedOn'
  <2> SUFFICES ASSUME NEW k \in Calls, stack'[k].step \in {"children", "return"},
                      fresh' \cap IO(stack'[k].inst) # {}
               PROVE  \E j \in Calls : j > k /\ WillVisit(stack'[j], stack'[k].inst)
    BY <1>5 DEF PassedOn, WillVisit, Below, Records, Record, IO, Inputs, Outputs
  <2>1. k # n /\ stack'[k] = stack[k] /\ stack[k].inst \in Insts
    BY <1>1, <1>4, <1>5, TopFacts
  <2>2. stack[k].inst # p /\ fresh \cap IO(stack[k].inst) # {}
    BY <1>1, <2>1
  <2>3. PICK j \in Calls : j > k /\ WillVisit(stack[j], stack[k].inst)
    BY <2>1, <2>2 DEF IInv, Pending, PassedOn
  <2>4. QED
    BY <1>5, <1>6, <2>1, <2>2, <2>3
<1>11. Owed'
  <2> SUFFICES ASSUME NEW q \in Insts, NEW w \in Wires(q), w[2] \in tagged', w[1] \notin tagged'
               PROVE  \/ w[2] \in fresh' \cap Outputs(q)
                      \/ \E k \in Calls : WillClose(stack'[k], q, w[2])
    BY <1>1, <1>5, SameWires DEF Owed, WillClose, Below, Records, Record, IO, Inputs, Outputs, ChildInputs, ChildOutputs
  <2>1. q # p /\ w[1] \notin tagged
    BY <1>1, <1>7, WireEnds DEF IO
  <2>2. CASE w[2] \in tagged
    <3>1. CASE w[2] \in fresh \cap Outputs(q)
      BY <1>1, <1>6, <2>1, <3>1 DEF IO
    <3>2. CASE \E k \in Calls : WillClose(stack[k], q, w[2])
      <4>1. PICK k \in Calls : WillClose(stack[k], q, w[2])
        BY <3>2
      <4>2. k # n
        BY <1>1, <1>2, <2>1, <4>1 DEF WillClose, p
      <4>3. QED
        BY <1>5, <4>1, <4>2
    <3>3. QED
      BY <2>1, <2>2, <3>1, <3>2 DEF IInv, Pending, Owed
  <2>3. CASE w[2] \notin tagged
    <3>1. w[2] \in IO(p) /\ w[2][1] = p
      BY <1>1, <2>3, Owner
    <3>2. PICK c \in Records(q) : w[2] \in Inputs(c)
      BY <2>1, <3>1, WireEnds DEF Outputs
    <3>3. c = p
      BY <3>1, <3>2 DEF Inputs
    <3>4. up
      BY <1>3, <2>3, <3>1
    <3>5. WillClose(f, q, w[2])
      BY <1>4, <3>2, <3>3, <3>4 DEF WillClose
    <3>6. QED
      BY <1>2, <1>5, <3>5
  <2>4. QED
    BY <2>2, <2>3
<1>12. LastSweeps'
  <2> SUFFICES ASSUME NEW k \in Calls
               PROVE  /\ k # n => stack'[k].step \in {"children", "return"}
                      /\ stack'[k].step = "again" /\ PendingIn(stack'[k].inst, fresh') =>
                           stack'[k].up /\ ModuleAt[stack'[k].inst] \notin External
    BY <1>5 DEF LastSweeps, Unprocessed, PendingIn, IO, Inputs, Outputs
  <2>1. CASE k = n
    BY <1>1, <1>4, <1>5, <2>1 DEF PendingIn
  <2>2. CASE k # n
    BY <1>5, <2>2 DEF IInv, Pending, LastSweeps, n
  <2>3. QED
    BY <2>1, <2>2
<1>13. KeepTagged'
  <2>1. \A q \in Insts : Keep(q) => IO(q) \subseteq tagged' /\ fresh' \cap IO(q) = {}
    BY <1>1 DEF IInv, KeepTagged
  <2>2. \A k \in Calls : ~Keep(stack'[k].inst)
    BY <1>2, <1>4, <1>5 DEF IInv, KeepTagged
  <2>3. QED
    BY <1>5, <2>1, <2>2 DEF KeepTagged, IO, Inputs, Outputs
<1>14. ExternalWhole'
  <2> SUFFICES ASSUME NEW q \in Insts, ModuleAt[q] \in External, IO(q) \cap tagged' # {},
                      fresh' \cap IO(q) = {}
               PROVE  IO(q) \subseteq tagged'
    BY DEF ExternalWhole, IO, Inputs, Outputs
  <2>1. CASE q = p
    BY <1>1, <2>1
  <2>2. CASE q # p
    <3>1. fresh \cap IO(q) = {} /\ IO(q) \cap tagged # {}
      BY <1>1, <1>6, <2>2
    <3>2. QED
      BY <1>1, <3>1 DEF IInv, ExternalWhole
  <2>3. QED
    BY <2>1, <2>2
<1>15. TaggedStay'
  <2>1. \A y \in tagged' : ModuleAt[y[1]] \in Modules
    <3>1. \A y \in tagged' : \E q \in Insts : y \in IO(q)
      BY <1>8 DEF TypeOK, IO, Inputs, Outputs
    <3>2. QED
      BY <3>1, Owner, HierarchyAssumption
  <2>2. removed' = [m \in Modules |-> {}]
    BY <1>1 DEF IInv, TaggedStay
  <2>3. QED
    BY <2>1, <2>2 DEF TaggedStay
<1>16. QED
  BY <1>8, <1>9, <1>10, <1>11, <1>12, <1>13, <1>14, <1>15 DEF IInv, Pending

----------------------------------------------------------------------------
(* Steps that move between calls and tag nothing. *)

LEMMA QuietRest ==
  ASSUME IInv, stack # <<>>, UNCHANGED <<nets, tagged, fresh, removed, left>>,
         stack' \in Seq(Frames), \A k \in Calls' : ~Keep(stack'[k].inst)
  PROVE  TypeOK' /\ KeepTagged' /\ ExternalWhole' /\ TaggedStay'
<1>1. TypeOK'
  BY DEF IInv, TypeOK, IO, Inputs, Outputs
<1>2. KeepTagged'
  BY DEF IInv, KeepTagged, IO, Inputs, Outputs
<1>3. ExternalWhole'
  BY DEF IInv, ExternalWhole, IO, Inputs, Outputs
<1>4. TaggedStay'
  BY DEF IInv, TaggedStay
<1>5. QED
  BY <1>1, <1>2, <1>3, <1>4

\* The parts of Pending, with nothing but the stack changed.
LEMMA QuietPending ==
  ASSUME UNCHANGED <<nets, tagged, fresh>>,
         \A q \in Insts : fresh \cap IO(q) # {} => \E k \in Calls' : WillVisit(stack'[k], q),
         \A k \in Calls' :
           stack'[k].step \in {"children", "return"} /\ fresh \cap IO(stack'[k].inst) # {} =>
             \E j \in Calls' : j > k /\ WillVisit(stack'[j], stack'[k].inst),
         \A p \in Insts : \A w \in Wires(p) : w[2] \in tagged /\ w[1] \notin tagged =>
           \/ w[2] \in fresh \cap Outputs(p)
           \/ \E k \in Calls' : WillClose(stack'[k], p, w[2]),
         \A k \in Calls' :
           /\ k # Len(stack') => stack'[k].step \in {"children", "return"}
           /\ stack'[k].step # "again"
  PROVE  Pending'
<1>1. Scheduled'
  BY DEF Scheduled, WillVisit, Below, Records, Record, IO, Inputs, Outputs
<1>2. PassedOn'
  BY DEF PassedOn, WillVisit, Below, Records, Record, IO, Inputs, Outputs
<1>3. Owed'
  BY SameWires DEF Owed, WillClose, Below, Records, Record, IO, Inputs, Outputs, ChildInputs, ChildOutputs
<1>4. LastSweeps'
  BY DEF LastSweeps
<1>5. QED
  BY <1>1, <1>2, <1>3, <1>4 DEF Pending

LEMMA LoopEndsInvariant ==
  ASSUME IInv, LoopEnds
  PROVE  IInv'
<1> DEFINE p == top.inst
           n == Len(stack)
           f == [top EXCEPT !.step = "children", !.todo = Below(p)]
<1>1. /\ stack \in Seq(Frames) /\ stack # <<>> /\ top.step = "again" /\ ~Unprocessed(p)
      /\ stack' = [stack EXCEPT ![n] = f] /\ UNCHANGED <<nets, tagged, fresh, removed, left>>
  BY DEF LoopEnds, Settled, Become, IInv, TypeOK
<1>2. /\ p \in Insts /\ top = stack[n] /\ top \in Frames /\ n \in Calls /\ n \in Nat /\ ~Keep(p)
  BY <1>1, TopFacts DEF IInv, KeepTagged
<1>3. Below(p) \subseteq Insts \ {<<>>}
  BY DEF Below
<1>4. /\ f \in Frames /\ f.inst = p /\ f.step = "children" /\ f.up = top.up
      /\ f.todo = Below(p)
  BY <1>2, <1>3 DEF Frames, Steps
<1> HIDE DEF f
<1>5. /\ stack' \in Seq(Frames) /\ Len(stack') = n /\ stack'[n] = f
      /\ Calls' = Calls /\ \A k \in Calls : k # n => stack'[k] = stack[k]
  BY <1>1, <1>4, Replaced DEF Calls
<1>6. fresh \cap IO(p) = {}
  BY <1>1, <1>2 DEF Unprocessed, PendingIn
<1>7. \A q \in Insts : q # p /\ WillVisit(stack[n], q) => WillVisit(f, q)
  <2> SUFFICES ASSUME NEW q \in Insts, q # p, WillVisit(top, q)
               PROVE  WillVisit(f, q)
    BY <1>2
  <2>1. q \in Records(p)
    BY DEF WillVisit
  <2>2. \E c \in f.todo : Record(c) = q
    BY <1>4, <2>1 DEF Records
  <2>3. QED
    BY <1>4, <2>1, <2>2 DEF WillVisit
<1>8. \A q, t : WillClose(top, q, t) => WillClose(f, q, t)
  <2> SUFFICES ASSUME NEW q, NEW t, WillClose(top, q, t)
               PROVE  WillClose(f, q, t)
    OBVIOUS
  <2>1. top.inst \in Records(q) /\ t \in Inputs(top.inst) /\ top.up
    BY <1>1 DEF WillClose
  <2>2. f.inst = top.inst /\ f.up
    BY <1>4, <2>1
  <2>3. QED
    BY <1>4, <2>1, <2>2 DEF WillClose
<1> HIDE DEF p, n
<1>9. \A q \in Insts : fresh \cap IO(q) # {} => \E k \in Calls' : WillVisit(stack'[k], q)
  BY <1>5, <1>6, <1>7 DEF IInv, Pending, Scheduled
<1>10. ASSUME NEW k \in Calls', stack'[k].step \in {"children", "return"},
              fresh \cap IO(stack'[k].inst) # {}
       PROVE  \E j \in Calls' : j > k /\ WillVisit(stack'[j], stack'[k].inst)
  <2>1. k # n /\ k \in Calls /\ stack'[k] = stack[k] /\ stack[k].inst \in Insts /\ stack[k].inst # p
    BY <1>1, <1>4, <1>5, <1>6, <1>10, TopFacts
  <2>2. PICK j \in Calls : j > k /\ WillVisit(stack[j], stack[k].inst)
    BY <1>10, <2>1 DEF IInv, Pending, PassedOn
  <2>3. QED
    BY <1>5, <1>7, <2>1, <2>2
<1>11. \A q \in Insts : \A w \in Wires(q) : w[2] \in tagged /\ w[1] \notin tagged =>
         \/ w[2] \in fresh \cap Outputs(q)
         \/ \E k \in Calls' : WillClose(stack'[k], q, w[2])
  BY <1>2, <1>5, <1>8 DEF IInv, Pending, Owed
<1>12. \A k \in Calls' : /\ k # Len(stack') => stack'[k].step \in {"children", "return"}
                         /\ stack'[k].step # "again"
  BY <1>4, <1>5 DEF IInv, Pending, LastSweeps, n
<1>13. Pending'
  BY <1>1, <1>9, <1>10, <1>11, <1>12, QuietPending
<1>14. \A k \in Calls' : ~Keep(stack'[k].inst)
  BY <1>2, <1>4, <1>5 DEF IInv, KeepTagged
<1>15. QED
  BY <1>1, <1>5, <1>13, <1>14, QuietRest DEF IInv

\* The last call changes to f, and a call for r may be pushed.
Moves(f, pushed, r) ==
  /\ stack' \in Seq(Frames)
  /\ Len(stack') = IF pushed THEN Len(stack) + 1 ELSE Len(stack)
  /\ \A k \in Calls : k # Len(stack) => stack'[k] = stack[k]
  /\ stack'[Len(stack)] = f
  /\ pushed => stack'[Len(stack) + 1] = Call(r)

LEMMA MovesFacts ==
  ASSUME stack \in Seq(Frames), stack # <<>>, NEW f \in Frames, NEW r \in Insts,
         NEW pushed \in BOOLEAN, NEW rest, rest = [stack EXCEPT ![Len(stack)] = f],
         stack' = IF pushed THEN Append(rest, Call(r)) ELSE rest
  PROVE  Moves(f, pushed, r)
<1>1. /\ rest \in Seq(Frames) /\ Len(rest) = Len(stack) /\ rest[Len(stack)] = f
      /\ \A k \in Calls : k # Len(stack) => rest[k] = stack[k]
  BY Replaced DEF Calls
<1>2. Call(r) \in Frames
  BY DEF Call, Frames, Steps
<1>3. Len(stack) \in Calls /\ Len(stack) \in Nat
  BY TopFacts
<1>4. CASE pushed
  <2> DEFINE c == Call(r)
             s == Append(rest, c)
  <2>1. stack' = s
    BY <1>4
  <2>2. /\ stack' \in Seq(Frames) /\ Len(stack') = Len(rest) + 1
        /\ stack'[Len(rest) + 1] = Call(r)
        /\ \A k \in 1..Len(rest) : stack'[k] = rest[k]
    <3>1. c \in Frames
      BY <1>2
    <3> HIDE DEF c
    <3>2. /\ s \in Seq(Frames) /\ Len(s) = Len(rest) + 1 /\ s[Len(rest) + 1] = c
          /\ \A k \in 1..Len(rest) : s[k] = rest[k]
      BY <1>1, <3>1, Pushed
    <3> HIDE DEF s
    <3>3. QED
      BY <2>1, <3>2 DEF c
  <2>3. \A k \in Calls : stack'[k] = rest[k]
    BY <1>1, <2>2 DEF Calls
  <2>4. QED
    BY <1>1, <1>3, <1>4, <2>2, <2>3 DEF Moves
<1>5. CASE ~pushed
  BY <1>1, <1>5 DEF Moves
<1>6. QED
  BY <1>4, <1>5

\* A call in its children phase moves: what it would have visited it has pushed
\* or passes on, and so with its parent.
LEMMA MovesInvariant ==
  ASSUME IInv, stack # <<>>, top.step = "children",
         UNCHANGED <<nets, tagged, fresh, removed, left>>,
         NEW f \in Frames, NEW r \in Insts, NEW pushed \in BOOLEAN, Moves(f, pushed, r),
         f.inst = top.inst, f.step \in {"children", "return"}, pushed => ~Keep(r),
         \A q \in Insts : fresh \cap IO(q) # {} /\ WillVisit(top, q) =>
           WillVisit(f, q) \/ (pushed /\ r = q),
         \A q, t : WillClose(top, q, t) =>
           WillClose(f, q, t) \/ (pushed /\ WillClose(Call(r), q, t))
  PROVE  IInv'
<1> DEFINE n == Len(stack)
<1>1. /\ stack \in Seq(Frames) /\ top = stack[n] /\ n \in Calls /\ n \in Nat /\ top.inst \in Insts
      /\ ~Keep(top.inst)
  BY TopFacts DEF IInv, TypeOK, KeepTagged
<1>2. /\ stack' \in Seq(Frames) /\ Len(stack') = IF pushed THEN n + 1 ELSE n
      /\ \A k \in Calls : k # n => stack'[k] = stack[k]
      /\ stack'[n] = f /\ (pushed => stack'[n + 1] = Call(r))
  BY DEF Moves
<1> HIDE DEF n
<1>3. /\ Calls \subseteq Calls' /\ (pushed => n + 1 \in Calls')
      /\ \A k \in Calls' : k \in Calls \/ (pushed /\ k = n + 1)
      /\ \A k \in Calls : k <= n
  BY <1>1, <1>2 DEF Calls, n
<1>4. WillVisit(Call(r), r) /\ Call(r).inst = r /\ Call(r).step = "sweep"
  BY DEF WillVisit, Call
<1>5. ASSUME NEW q \in Insts, fresh \cap IO(q) # {}, NEW k \in Calls, WillVisit(stack[k], q)
      PROVE  \E j \in Calls' : j >= k /\ WillVisit(stack'[j], q)
  <2>1. CASE k # n
    BY <1>1, <1>2, <1>3, <1>5, <2>1 DEF Calls
  <2>2. CASE k = n
    BY <1>1, <1>2, <1>3, <1>4, <1>5, <2>2
  <2>3. QED
    BY <2>1, <2>2
<1>6. ASSUME NEW k \in Calls', stack'[k].step \in {"children", "return"},
             fresh \cap IO(stack'[k].inst) # {}
      PROVE  \E j \in Calls' : j > k /\ WillVisit(stack'[j], stack'[k].inst)
  <2>1. k \in Calls
    BY <1>2, <1>3, <1>4, <1>6
  <2>2. stack[k].inst = stack'[k].inst /\ stack[k].step \in {"children", "return"} /\ stack[k].inst \in Insts
    BY <1>1, <1>2, <1>6, <2>1, TopFacts
  <2>3. PICK j \in Calls : j > k /\ WillVisit(stack[j], stack[k].inst)
    BY <1>6, <2>1, <2>2 DEF IInv, Pending, PassedOn
  <2>4. PICK i \in Calls' : i >= j /\ WillVisit(stack'[i], stack[k].inst)
    BY <1>5, <1>6, <2>2, <2>3
  <2>5. QED
    BY <2>1, <2>2, <2>3, <2>4 DEF Calls
<1>7. \A q \in Insts : fresh \cap IO(q) # {} => \E k \in Calls' : WillVisit(stack'[k], q)
  BY <1>5 DEF IInv, Pending, Scheduled
<1>8. \A q \in Insts : \A w \in Wires(q) : w[2] \in tagged /\ w[1] \notin tagged =>
        \/ w[2] \in fresh \cap Outputs(q)
        \/ \E k \in Calls' : WillClose(stack'[k], q, w[2])
  <2> SUFFICES ASSUME NEW q \in Insts, NEW w \in Wires(q), NEW k \in Calls, WillClose(stack[k], q, w[2])
               PROVE  \E j \in Calls' : WillClose(stack'[j], q, w[2])
    BY DEF IInv, Pending, Owed
  <2>1. CASE k # n
    BY <1>2, <1>3, <2>1
  <2>2. CASE k = n
    BY <1>1, <1>2, <1>3, <2>2
  <2>3. QED
    BY <2>1, <2>2
<1>9. \A k \in Calls' : /\ k # Len(stack') => stack'[k].step \in {"children", "return"}
                        /\ stack'[k].step # "again"
  <2> TAKE k \in Calls'
  <2>1. CASE k \in Calls /\ k # n
    BY <1>1, <1>2, <2>1 DEF IInv, Pending, LastSweeps, n
  <2>2. CASE k = n
    BY <1>2, <2>2
  <2>3. CASE pushed /\ k = n + 1
    BY <1>2, <1>4, <2>3
  <2>4. QED
    BY <1>3, <2>1, <2>2, <2>3
<1>10. Pending'
  BY <1>6, <1>7, <1>8, <1>9, QuietPending
<1>11. \A k \in Calls' : ~Keep(stack'[k].inst)
  BY <1>1, <1>2, <1>3, <1>4 DEF IInv, KeepTagged
<1>12. QED
  BY <1>2, <1>10, <1>11, QuietRest DEF IInv

LEMMA VisitChildInvariant ==
  ASSUME IInv, NEW c \in Insts, VisitChild(c)
  PROVE  IInv'
<1> DEFINE f == [top EXCEPT !.todo = @ \ {c}]
           q == Record(c)
<1>1. /\ stack \in Seq(Frames) /\ stack # <<>> /\ top.step = "children" /\ c \in top.todo
      /\ UNCHANGED <<nets, tagged, fresh, removed, left>>
  BY DEF VisitChild, IInv, TypeOK
<1>2. top \in Frames /\ top = stack[Len(stack)] /\ Len(stack) \in Calls
  BY <1>1, TopFacts
<1>2a. c # <<>> /\ q \in Insts
  <2>1. c # <<>>
    BY <1>1, <1>2 DEF Frames
  <2>2. QED
    BY <2>1, RecordFacts
<1>3. /\ f \in Frames /\ f.inst = top.inst /\ f.step = "children" /\ f.up = top.up
      /\ f.todo = top.todo \ {c}
  BY <1>1, <1>2 DEF Frames, Steps
<1>4. [stack EXCEPT ![Len(stack)].todo = @ \ {c}] = [stack EXCEPT ![Len(stack)] = f]
  BY <1>1, <1>2
<1>5. Unprocessed(q) \in BOOLEAN
  BY DEF Unprocessed, PendingIn
<1>6. stack' = IF Unprocessed(q) THEN Append([stack EXCEPT ![Len(stack)] = f], Call(q))
               ELSE [stack EXCEPT ![Len(stack)] = f]
  BY <1>4 DEF VisitChild
<1> HIDE DEF f, q
<1>7. Moves(f, Unprocessed(q), q)
  BY <1>1, <1>3, <1>5, <1>6, <1>2a, MovesFacts
<1>8. \A p \in Insts : fresh \cap IO(p) # {} /\ WillVisit(top, p) =>
        WillVisit(f, p) \/ (Unprocessed(q) /\ q = p)
  <2> SUFFICES ASSUME NEW p \in Insts, fresh \cap IO(p) # {}, WillVisit(top, p), p = q
               PROVE  Unprocessed(q)
    BY <1>1, <1>3 DEF WillVisit, q
  <2>1. ~Keep(q)
    BY DEF IInv, KeepTagged
  <2>2. QED
    BY <2>1 DEF Unprocessed, PendingIn
<1>9. \A p, t : WillClose(top, p, t) => WillClose(f, p, t)
  <2> SUFFICES ASSUME NEW p, NEW t, WillClose(top, p, t)
               PROVE  WillClose(f, p, t)
    OBVIOUS
  <2>1. top.inst \in Records(p) /\ t \in Inputs(top.inst) /\ top.up
    BY <1>1 DEF WillClose
  <2>2. f.up
    BY <1>3, <2>1
  <2>3. QED
    BY <1>3, <2>1, <2>2 DEF WillClose
<1>10. Unprocessed(q) => ~Keep(q)
  BY DEF Unprocessed, PendingIn
<1>11. QED
  BY <1>1, <1>3, <1>5, <1>7, <1>8, <1>9, <1>10, <1>2a, MovesInvariant

LEMMA VisitParentInvariant ==
  ASSUME IInv, VisitParent
  PROVE  IInv'
<1> DEFINE f == [top EXCEPT !.step = "return"]
           p == top.inst
           up == top.up /\ p # <<>>
           r == IF up THEN Parent(p) ELSE p
<1>1. /\ stack \in Seq(Frames) /\ stack # <<>> /\ top.step = "children" /\ top.todo = {}
      /\ UNCHANGED <<nets, tagged, fresh, removed, left>>
  BY DEF VisitParent, IInv, TypeOK
<1>2. top \in Frames /\ top = stack[Len(stack)] /\ Len(stack) \in Calls /\ p \in Insts /\ ~Keep(p)
  BY <1>1, TopFacts DEF IInv, KeepTagged
<1>3. f \in Frames /\ f.inst = p /\ f.step = "return"
  BY <1>2 DEF Frames, Steps
<1>4. [stack EXCEPT ![Len(stack)].step = "return"] = [stack EXCEPT ![Len(stack)] = f]
  BY <1>1, <1>2
<1>5. up \in BOOLEAN /\ r \in Insts
  BY <1>2, ParentFacts DEF Frames
<1>6. stack' = IF up THEN Append([stack EXCEPT ![Len(stack)] = f], Call(r))
               ELSE [stack EXCEPT ![Len(stack)] = f]
  BY <1>4 DEF VisitParent
<1>7. up => p \in Below(r) /\ ~Keep(r)
  BY <1>2, <1>5, InParent, KeepBelow
<1> HIDE DEF f, r
<1>8. Moves(f, up, r)
  BY <1>1, <1>3, <1>5, <1>6, MovesFacts
<1>9. \A q \in Insts : ~WillVisit(top, q)
  BY <1>1 DEF WillVisit
<1>10. \A q, t : WillClose(top, q, t) => up /\ WillClose(Call(r), q, t)
  <2> SUFFICES ASSUME NEW q, NEW t, WillClose(top, q, t)
               PROVE  up /\ WillClose(Call(r), q, t)
    OBVIOUS
  <2>1. p \in Records(q) /\ t \in Inputs(p) /\ top.up
    BY <1>1 DEF WillClose
  <2>2. p # <<>> /\ Parent(p) = q
    BY <2>1, RecordFacts DEF Records, Below
  <2>2a. up /\ r = q
    BY <2>1, <2>2 DEF r
  <2>3. t \in ChildInputs(q)
    BY <2>1 DEF ChildInputs
  <2>4. QED
    BY <2>2a, <2>3 DEF WillClose, Call
<1>11. QED
  BY <1>1, <1>3, <1>5, <1>7, <1>8, <1>9, <1>10, MovesInvariant

LEMMA ReturnInvariant ==
  ASSUME IInv, Return
  PROVE  IInv'
<1> DEFINE n == Len(stack)
<1>1. /\ stack \in Seq(Frames) /\ stack # <<>> /\ top.step = "return"
      /\ stack' = SubSeq(stack, 1, n - 1)
      /\ UNCHANGED <<nets, tagged, fresh, removed, left>>
  BY DEF Return, IInv, TypeOK
<1>2. top = stack[n] /\ n \in Calls /\ n \in Nat
  BY <1>1, TopFacts
<1>3. stack' \in Seq(Frames) /\ Len(stack') = n - 1 /\ \A k \in 1..Len(stack') : stack'[k] = stack[k]
  BY <1>1, Popped
<1>4. /\ Calls' \subseteq Calls /\ \A k \in Calls : k # n => k \in Calls'
      /\ \A k \in Calls' : stack'[k] = stack[k] /\ k # n
  BY <1>2, <1>3 DEF Calls
<1>5. \A q, t : ~WillVisit(stack[n], q) /\ ~WillClose(stack[n], q, t)
  BY <1>1, <1>2 DEF WillVisit, WillClose
<1> HIDE DEF n
<1>6. \A q \in Insts : fresh \cap IO(q) # {} => \E k \in Calls' : WillVisit(stack'[k], q)
  BY <1>4, <1>5 DEF IInv, Pending, Scheduled
<1>7. \A k \in Calls' :
        stack'[k].step \in {"children", "return"} /\ fresh \cap IO(stack'[k].inst) # {} =>
          \E j \in Calls' : j > k /\ WillVisit(stack'[j], stack'[k].inst)
  BY <1>4, <1>5 DEF IInv, Pending, PassedOn
<1>8. \A q \in Insts : \A w \in Wires(q) : w[2] \in tagged /\ w[1] \notin tagged =>
        \/ w[2] \in fresh \cap Outputs(q)
        \/ \E k \in Calls' : WillClose(stack'[k], q, w[2])
  BY <1>4, <1>5 DEF IInv, Pending, Owed
<1>9. \A k \in Calls' : /\ k # Len(stack') => stack'[k].step \in {"children", "return"}
                        /\ stack'[k].step # "again"
  BY <1>4 DEF IInv, Pending, LastSweeps, n
<1>10. Pending'
  BY <1>1, <1>6, <1>7, <1>8, <1>9, QuietPending
<1>11. \A k \in Calls' : ~Keep(stack'[k].inst)
  BY <1>4 DEF IInv, KeepTagged
<1>12. QED
  BY <1>1, <1>3, <1>10, <1>11, QuietRest DEF IInv

----------------------------------------------------------------------------
(* The removal of ports, after the recursion. *)

LEMMA RemoveInvariant ==
  ASSUME IInv, NEW m \in Modules, RemovePorts(m)
  PROVE  IInv'
<1>1. stack = <<>> /\ UNCHANGED <<nets, tagged, fresh, stack>> /\ left' = left \ {m}
  BY DEF RemovePorts
<1>2. removed' = removed \/ removed' = [removed EXCEPT ![m] = Untainted(m)]
  BY DEF RemovePorts
<1>3. Untainted(m) \subseteq In[m] \cup Out[m]
  BY DEF Untainted
<1>4. \A y \in tagged : \E q \in Insts : y \in IO(q)
  BY DEF IInv, TypeOK
<1>5. \A y \in tagged : ModuleAt[y[1]] = m => y[2] \notin Untainted(m)
  <2> SUFFICES ASSUME NEW y \in tagged, ModuleAt[y[1]] = m
               PROVE  y[2] \notin Untainted(m)
    OBVIOUS
  <2>1. PICK q \in Insts : y \in IO(q)
    BY <1>4
  <2>2. y[1] = q /\ y = <<q, y[2]>>
    BY <2>1, Owner
  <2>3. QED
    BY <2>1, <2>2 DEF Untainted, InstsOf
<1>6. TypeOK'
  BY <1>1, <1>2, <1>3 DEF IInv, TypeOK, IO, Inputs, Outputs
<1>7. TaggedStay'
  <2> SUFFICES ASSUME NEW y \in tagged
               PROVE  y[2] \notin removed'[ModuleAt[y[1]]]
    BY <1>1 DEF TaggedStay
  <2>1. ModuleAt[y[1]] \in Modules
    BY <1>4, Owner, HierarchyAssumption
  <2>2. y[2] \notin removed[ModuleAt[y[1]]] /\ DOMAIN removed = Modules
    BY DEF IInv, TaggedStay, TypeOK
  <2>3. QED
    BY <1>2, <1>5, <2>1, <2>2
<1>8. Pending' /\ KeepTagged' /\ ExternalWhole'
  BY <1>1, SameWires
     DEF IInv, Pending, Scheduled, PassedOn, Owed, LastSweeps, WillVisit, WillClose, Unprocessed,
              PendingIn, KeepTagged, ExternalWhole, Calls, Below, Records, Record, IO, Inputs, Outputs,
              ChildInputs, ChildOutputs
<1>9. QED
  BY <1>6, <1>7, <1>8 DEF IInv

LEMMA SameInvariant ==
  ASSUME IInv, UNCHANGED vars
  PROVE  IInv'
BY SameWires
   DEF vars, IInv, TypeOK, TaggedStay, Pending, Scheduled, PassedOn, Owed, LastSweeps, WillVisit,
       WillClose, Unprocessed, PendingIn, KeepTagged, ExternalWhole, Calls, Below, Records, Record, IO,
       Inputs, Outputs, ChildInputs, ChildOutputs

----------------------------------------------------------------------------
(* The theorems. *)

LEMMA InitInvariant == Init => IInv
<1> SUFFICES ASSUME Init
             PROVE  IInv
  OBVIOUS
<1> DEFINE r == Parent(Component)
<1>1. /\ r \in Insts /\ ~Keep(r) /\ Component \in Below(r) /\ Keep(Component)
  BY ParentOfComponent
<1> HIDE DEF r
<1>2. /\ stack = <<Call(r)>> /\ tagged = UNION {IO(p) : p \in {q \in Insts : Keep(q)}}
      /\ fresh = {} /\ removed = [m \in Modules |-> {}] /\ left = Modules
  BY DEF Init, r
<1>3. Call(r) \in Frames /\ Call(r).inst = r /\ Call(r).step = "sweep"
  BY <1>1 DEF Call, Frames, Steps
<1>4. /\ stack \in Seq(Frames) /\ Calls = {1} /\ stack[1] = Call(r) /\ Len(stack) = 1 /\ stack # <<>>
  BY <1>2, <1>3 DEF Calls
<1>5. \A y : y \in tagged <=> \E q \in Insts : Keep(q) /\ y \in IO(q)
  BY <1>2
<1>6. TypeOK
  BY <1>2, <1>4, <1>5 DEF TypeOK
<1>7. Scheduled /\ PassedOn
  BY <1>2 DEF Scheduled, PassedOn
<1>8. Owed
  <2> SUFFICES ASSUME NEW p \in Insts, NEW w \in Wires(p), w[2] \in tagged, w[1] \notin tagged
               PROVE  WillClose(stack[1], p, w[2])
    BY <1>4 DEF Owed
  <2>1. PICK k \in Insts : Keep(k) /\ w[2] \in IO(k)
    BY <1>5
  <2>2. w[2][1] = k
    BY <2>1, Owner
  <2>3. ~Keep(p)
    <3>1. PICK q \in Insts : w[1] \in IO(q) /\ (q = p \/ q \in Records(p))
      BY WireEnds, RecordsFacts DEF IO
    <3>2. ~Keep(q)
      BY <1>5, <3>1
    <3>3. QED
      BY <3>1, <3>2, KeepBelow, RecordsFacts
  <2>4. PICK c \in Records(p) : w[2] \in Inputs(c)
    BY <2>1, <2>2, <2>3, WireEnds DEF Outputs
  <2>5. c = k
    BY <2>2, <2>4 DEF Inputs
  <2>6. c = Component
    BY <2>1, <2>3, <2>4, <2>5, KeepEdge, RecordsFacts
  <2>7. p = r
    BY <2>4, <2>6, RecordsFacts DEF r
  <2>8. w[2] \in ChildInputs(p)
    BY <2>4 DEF ChildInputs
  <2>9. QED
    BY <1>3, <1>4, <2>7, <2>8 DEF WillClose
<1>9. LastSweeps
  BY <1>3, <1>4 DEF LastSweeps
<1>10. KeepTagged
  BY <1>1, <1>2, <1>3, <1>4, <1>5 DEF KeepTagged
<1>11. ExternalWhole
  <2> SUFFICES ASSUME NEW q \in Insts, NEW y \in IO(q), y \in tagged
               PROVE  IO(q) \subseteq tagged
    BY DEF ExternalWhole
  <2>1. PICK k \in Insts : Keep(k) /\ y \in IO(k)
    BY <1>5
  <2>2. k = q
    BY <2>1, Owner
  <2>3. QED
    BY <1>5, <2>1, <2>2
<1>12. TaggedStay
  <2>1. \A y \in tagged : ModuleAt[y[1]] \in Modules
    BY <1>5, Owner, HierarchyAssumption
  <2>2. QED
    BY <1>2, <2>1 DEF TaggedStay
<1>13. QED
  BY <1>6, <1>7, <1>8, <1>9, <1>10, <1>11, <1>12 DEF IInv, Pending

\* In every state of the pass: a record that is pending is in the hands of a call,
\* and so is a wire, as the pass sees it, that is not closed.
THEOREM Invariance == Spec => []IInv
<1>1. IInv /\ [Next]_vars => IInv'
  <2> SUFFICES ASSUME IInv, [Next]_vars
               PROVE  IInv'
    OBVIOUS
  <2>1. CASE FirstSweep \/ SweepAgain
    BY <2>1, SweepInvariant
  <2>2. CASE AcceptAll
    BY <2>2, AcceptInvariant
  <2>3. CASE LoopEnds
    BY <2>3, LoopEndsInvariant
  <2>4. CASE \E q \in Insts : VisitChild(q)
    BY <2>4, VisitChildInvariant
  <2>5. CASE VisitParent
    BY <2>5, VisitParentInvariant
  <2>6. CASE Return
    BY <2>6, ReturnInvariant
  <2>7. CASE \E m \in Modules : RemovePorts(m)
    BY <2>7, RemoveInvariant
  <2>8. CASE Finished \/ UNCHANGED vars
    BY <2>8, SameInvariant DEF Finished
  <2>9. QED
    BY <2>1, <2>2, <2>3, <2>4, <2>5, <2>6, <2>7, <2>8 DEF Next, TaintModule
<1>2. QED
  BY InitInvariant, <1>1, PTL DEF Spec

\* The tags and the calls of the recursion have their types, for every hierarchy in
\* which instances of one module in one body share the first one's record.
THEOREM TypeCorrect == Spec => []TypeOK
<1>1. IInv => TypeOK
  BY DEF IInv
<1>2. QED
  BY <1>1, Invariance, PTL

\* The assertions of taintModule and removeUntaintedPorts hold for every hierarchy
\* in which instances of one module in one body share the first one's record.
THEOREM NothingIsPending == Spec => []NothingPending
<1>1. IInv => NothingPending
  <2> SUFFICES ASSUME IInv
               PROVE  NothingPending
    OBVIOUS
  <2>1. stack # <<>> /\ top.step = "return" => ~Unprocessed(top.inst)
    <3> SUFFICES ASSUME stack # <<>>, top.step = "return", fresh \cap IO(top.inst) # {}
                 PROVE  FALSE
      BY DEF Unprocessed, PendingIn
    <3>1. Len(stack) \in Calls /\ top = stack[Len(stack)]
      BY TopFacts DEF IInv, TypeOK
    <3>2. \E j \in Calls : j > Len(stack)
      BY <3>1 DEF IInv, Pending, PassedOn
    <3>3. QED
      BY <3>2 DEF Calls, IInv, TypeOK
  <2>2. stack = <<>> => \A p \in Insts : ~Unprocessed(p)
    BY DEF IInv, Pending, Scheduled, Calls, Unprocessed, PendingIn
  <2>3. QED
    BY <2>1, <2>2 DEF NothingPending
<1>2. QED
  BY <1>1, Invariance, PTL

----------------------------------------------------------------------------
(* What the marks in the records say of the instances they stand for. *)

LEMMA PrefixOfParent ==
  ASSUME NEW p \in Insts, NEW n \in Names, NEW i \in 0..Len(p)
  PROVE  SubSeq(Append(p, n), 1, i) = SubSeq(p, 1, i)
BY PathTypes

LEMMA WholeIsWhole ==
  ASSUME NEW p \in Insts
  PROVE  SubSeq(p, 1, Len(p)) = p
BY PathTypes

LEMMA SameModule ==
  ASSUME NEW p \in Insts, NEW r \in Insts, Stands(r, p)
  PROVE  ModuleAt[r] = ModuleAt[p]
<1>1. SubSeq(r, 1, Len(p)) = r /\ SubSeq(p, 1, Len(p)) = p /\ Len(p) \in 0..Len(p)
  BY PathTypes, WholeIsWhole DEF Stands
<1>2. QED
  BY <1>1 DEF Stands

\* A record of what stands for p stands for the child of p it is named after.
LEMMA ChildStands ==
  ASSUME NEW p \in Insts, NEW r \in Insts, Stands(r, p), NEW q \in Below(p)
  PROVE  /\ ModuleAt[r] = ModuleAt[p]
         /\ Append(r, q[Len(q)]) \in Below(r) /\ ModuleAt[Append(r, q[Len(q)])] = ModuleAt[q]
         /\ Append(r, q[Len(q)])[Len(Append(r, q[Len(q)]))] = q[Len(q)]
         /\ Record(Append(r, q[Len(q)])) \in Insts
         /\ Stands(Record(Append(r, q[Len(q)])), q)
<1> DEFINE n == q[Len(q)]
           c == Append(r, n)
           s == Record(c)
           l == Len(p)
<1>1. /\ p \in Seq(Names) /\ r \in Seq(Names) /\ q \in Seq(Names) /\ q \in Insts /\ q # <<>>
      /\ Parent(q) = p /\ l \in Nat /\ Len(r) = l /\ Len(q) = l + 1
  BY PathTypes, BelowFacts, ParentFacts DEF Stands
<1>2. n \in Names /\ q = Append(p, n)
  BY <1>1 DEF Parent
<1>3. ModuleAt[r] = ModuleAt[p]
  BY SameModule
<1> HIDE DEF n, l
<1>4. c \in Insts /\ ModuleAt[c] = ModuleAt[q]
  BY <1>1, <1>2, <1>3, HierarchyAssumption
<1>5. c # <<>> /\ Parent(c) = r /\ c[Len(c)] = n
  BY <1>1, <1>2 DEF Parent
<1>6. c \in Below(r)
  BY <1>4, <1>5 DEF Below
<1>7. s = Append(r, First[ModuleAt[r]][n])
  BY <1>5 DEF Record
<1>8. s \in Insts /\ s \in Seq(Names) /\ s # <<>> /\ Parent(s) = r /\ ModuleAt[s] = ModuleAt[q]
  BY <1>4, <1>5, RecordFacts, PathTypes
<1> HIDE DEF c, s
<1> DEFINE m == First[ModuleAt[r]][n]
<1>9. m \in Names /\ Len(s) = l + 1 /\ s[l + 1] = m
  <2>1. ModuleAt[r] \in Modules
    BY HierarchyAssumption
  <2>2. m \in Names
    BY <1>2, <2>1, HierarchyAssumption
  <2> HIDE DEF m
  <2>3. s = Append(r, m)
    BY <1>7 DEF m
  <2>4. QED
    BY <1>1, <2>2, <2>3
<1>10. \A i \in 0..l : SubSeq(s, 1, i) = SubSeq(r, 1, i) /\ SubSeq(q, 1, i) = SubSeq(p, 1, i)
  BY <1>1, <1>2, <1>7, <1>9, PrefixOfParent
<1>11. \A i \in 1..l : s[i] = r[i] /\ q[i] = p[i]
  BY <1>1, <1>2, <1>7, <1>9
<1>12. q[l + 1] = n /\ SubSeq(s, 1, l + 1) = s /\ SubSeq(q, 1, l + 1) = q
  BY <1>1, <1>2, <1>8, <1>9, WholeIsWhole
<1>13. ASSUME NEW i \in 1..l + 1
       PROVE  s[i] = First[ModuleAt[SubSeq(s, 1, i - 1)]][q[i]]
  <2>1. CASE i = l + 1
    <3>1. i - 1 = l /\ l \in 0..l /\ SubSeq(s, 1, l) = SubSeq(r, 1, l) /\ SubSeq(r, 1, l) = r
      BY <1>1, <1>10, <2>1, WholeIsWhole
    <3>2. QED
      BY <1>9, <1>12, <2>1, <3>1
  <2>2. CASE i # l + 1
    <3>1. i \in 1..l /\ i - 1 \in 0..l
      BY <1>1, <2>2
    <3>2. r[i] = First[ModuleAt[SubSeq(r, 1, i - 1)]][p[i]]
      BY <3>1 DEF Stands, l
    <3>3. QED
      BY <1>10, <1>11, <3>1, <3>2
  <2>3. QED
    BY <2>1, <2>2
<1>14. ASSUME NEW i \in 0..l + 1
       PROVE  ModuleAt[SubSeq(s, 1, i)] = ModuleAt[SubSeq(q, 1, i)]
  <2>1. CASE i = l + 1
    BY <1>8, <1>12, <2>1
  <2>2. CASE i # l + 1
    <3>1. i \in 0..l
      BY <1>1, <2>2
    <3>2. ModuleAt[SubSeq(r, 1, i)] = ModuleAt[SubSeq(p, 1, i)]
      BY <3>1 DEF Stands, l
    <3>3. QED
      BY <1>10, <3>1, <3>2
  <2>3. QED
    BY <2>1, <2>2
<1>15. Stands(s, q)
  BY <1>1, <1>9, <1>13, <1>14 DEF Stands
<1>16. QED
  BY <1>3, <1>4, <1>5, <1>6, <1>8, <1>15 DEF c, s, n

\* What stands for a child of p is the record of a child of what stands for p.
LEMMA ParentStands ==
  ASSUME NEW p \in Insts, NEW q \in Below(p), NEW s \in Insts, Stands(s, q)
  PROVE  /\ Parent(s) \in Insts /\ Stands(Parent(s), p)
         /\ s = Record(Append(Parent(s), q[Len(q)]))
<1> DEFINE l == Len(p)
           r == Parent(s)
           n == q[Len(q)]
<1>1. /\ p \in Seq(Names) /\ s \in Seq(Names) /\ q \in Seq(Names) /\ q \in Insts /\ q # <<>>
      /\ Parent(q) = p /\ l \in Nat /\ Len(s) = l + 1 /\ Len(q) = l + 1 /\ s # <<>>
  <2>1. q \in Insts /\ q # <<>> /\ Parent(q) = p
    BY BelowFacts
  <2>2. p \in Seq(Names) /\ s \in Seq(Names) /\ q \in Seq(Names) /\ l \in Nat
    BY <2>1, PathTypes
  <2>3. Len(q) = l + 1 /\ Len(s) = l + 1
    BY <2>1, <2>2, ParentFacts DEF Stands
  <2>4. QED
    BY <2>1, <2>2, <2>3
<1>2. r \in Insts /\ Len(r) = l /\ r \in Seq(Names)
  BY <1>1, ParentFacts, PathTypes
<1>3. n \in Names /\ q = Append(p, n) /\ s[l + 1] \in Names /\ s = Append(r, s[l + 1])
  BY <1>1 DEF Parent
<1> HIDE DEF l, r, n
<1>4. \A i \in 0..l : SubSeq(s, 1, i) = SubSeq(r, 1, i) /\ SubSeq(q, 1, i) = SubSeq(p, 1, i)
  BY <1>1, <1>2, <1>3, PrefixOfParent DEF l
<1>5. \A i \in 1..l : s[i] = r[i] /\ q[i] = p[i]
  BY <1>1, <1>2, <1>3
<1>6. \A i \in 1..l + 1 : s[i] = First[ModuleAt[SubSeq(s, 1, i - 1)]][q[i]]
  BY <1>1 DEF Stands
<1>7. \A i \in 0..l + 1 : ModuleAt[SubSeq(s, 1, i)] = ModuleAt[SubSeq(q, 1, i)]
  BY <1>1 DEF Stands
<1>8. ASSUME NEW i \in 1..l
      PROVE  r[i] = First[ModuleAt[SubSeq(r, 1, i - 1)]][p[i]]
  <2>1. i \in 1..l + 1 /\ i - 1 \in 0..l
    BY <1>1
  <2>2. QED
    BY <1>4, <1>5, <1>6, <2>1
<1>9. ASSUME NEW i \in 0..l
      PROVE  ModuleAt[SubSeq(r, 1, i)] = ModuleAt[SubSeq(p, 1, i)]
  <2>1. i \in 0..l + 1
    BY <1>1
  <2>2. QED
    BY <1>4, <1>7, <2>1
<1>10. Stands(r, p)
  BY <1>2, <1>8, <1>9 DEF Stands, l
<1>11. s[l + 1] = First[ModuleAt[r]][n]
  <2>1. l + 1 \in 1..l + 1 /\ l + 1 - 1 = l /\ l \in 0..l
    BY <1>1
  <2>2. SubSeq(s, 1, l) = r
    BY <1>2, <1>4, <2>1, WholeIsWhole
  <2>3. q[l + 1] = n
    BY <1>1 DEF n
  <2> DEFINE i == l + 1
  <2>4. i \in 1..l + 1 /\ i - 1 = l
    BY <2>1
  <2> HIDE DEF i
  <2>5. s[i] = First[ModuleAt[SubSeq(s, 1, i - 1)]][q[i]]
    BY <1>6, <2>4
  <2>6. s[i] = First[ModuleAt[r]][q[i]]
    BY <2>2, <2>4, <2>5
  <2>7. QED
    BY <2>3, <2>6 DEF i
<1>12. Parent(Append(r, n)) = r /\ Append(r, n)[Len(Append(r, n))] = n
  BY <1>2, <1>3 DEF Parent
<1>13. s = Record(Append(r, n))
  BY <1>3, <1>11, <1>12 DEF Record
<1>14. QED
  BY <1>2, <1>10, <1>13 DEF r, n

\* The port of r or of a child of r that the port x of p or of a child of p is.
Image(r, p, x) == <<IF x[1] = p THEN r ELSE Append(r, x[1][Len(x[1])]), x[2]>>

LEMMA ImageFacts ==
  ASSUME NEW p \in Insts, NEW r \in Insts, Stands(r, p), NEW x \in Sources(p) \cup Sinks(p)
  PROVE  /\ x[1] \in Insts /\ x \in IO(x[1])
         /\ Local(r, Image(r, p, x)) = Local(p, x)
         /\ x \in Sources(p) => Image(r, p, x) \in Sources(r)
         /\ x \in Sinks(p) => Image(r, p, x) \in Sinks(r)
         /\ \E s \in Insts : Stands(s, x[1]) /\ Seen(r, Image(r, p, x)) = <<s, x[2]>>
<1>1. CASE x \in IO(p)
  <2>1. x[1] = p /\ x = <<p, x[2]>>
    BY <1>1, Owner
  <2>2. ModuleAt[r] = ModuleAt[p]
    BY SameModule
  <2>3. Image(r, p, x) = <<r, x[2]>>
    BY <2>1 DEF Image
  <2>4. Local(r, <<r, x[2]>>) = <<Here, x[2]>> /\ Local(p, x) = <<Here, x[2]>>
    BY <2>1 DEF Local
  <2>5. Seen(r, <<r, x[2]>>) = <<r, x[2]>>
    BY DEF Seen
  <2>6. /\ x \in Inputs(p) => <<r, x[2]>> \in Inputs(r)
        /\ x \in Outputs(p) => <<r, x[2]>> \in Outputs(r)
    BY <2>1, <2>2 DEF Inputs, Outputs
  <2>7. (x \in Sources(p) => x \in Inputs(p)) /\ (x \in Sinks(p) => x \in Outputs(p))
    <3>1. \A q \in Below(p) : x \notin Inputs(q) /\ x \notin Outputs(q)
      BY <2>1, BelowFacts DEF Inputs, Outputs
    <3>2. QED
      BY <3>1 DEF Sources, Sinks
  <2>8. QED
    BY <1>1, <2>1, <2>3, <2>4, <2>5, <2>6, <2>7 DEF Sources, Sinks
<1>2. CASE x \notin IO(p)
  <2>1. PICK q \in Below(p) : x \in IO(q)
    BY <1>2 DEF Sources, Sinks, IO
  <2>2. x[1] = q /\ x = <<q, x[2]>> /\ q # p /\ q \in Insts
    BY <2>1, Owner, BelowFacts
  <2> DEFINE c == Append(r, q[Len(q)])
  <2>3. /\ c \in Below(r) /\ ModuleAt[c] = ModuleAt[q] /\ c[Len(c)] = q[Len(q)]
        /\ Record(c) \in Insts /\ Stands(Record(c), q)
    BY ChildStands
  <2>4. Image(r, p, x) = <<c, x[2]>>
    BY <2>2 DEF Image
  <2> HIDE DEF c
  <2>5. c # r
    BY <2>3, BelowFacts
  <2>6. Local(r, <<c, x[2]>>) = <<q[Len(q)], x[2]>> /\ Local(p, x) = <<q[Len(q)], x[2]>>
    BY <2>2, <2>3, <2>5 DEF Local
  <2>7. Seen(r, <<c, x[2]>>) = <<Record(c), x[2]>>
    BY <2>5 DEF Seen
  <2>8. /\ x \in Inputs(q) => <<c, x[2]>> \in Inputs(c)
        /\ x \in Outputs(q) => <<c, x[2]>> \in Outputs(c)
    BY <2>2, <2>3 DEF Inputs, Outputs
  <2>9. (x \in Sources(p) => x \in Outputs(q)) /\ (x \in Sinks(p) => x \in Inputs(q))
    <3>1. x \notin Inputs(p) /\ x \notin Outputs(p)
      BY <1>2 DEF IO
    <3>2. \A k \in Below(p) : x \in Inputs(k) \cup Outputs(k) => k = q
      BY <2>2 DEF Inputs, Outputs
    <3>3. QED
      BY <3>1, <3>2 DEF Sources, Sinks
  <2>10. /\ x \in Sources(p) => <<c, x[2]>> \in Sources(r)
         /\ x \in Sinks(p) => <<c, x[2]>> \in Sinks(r)
    BY <2>3, <2>8, <2>9 DEF Sources, Sinks
  <2>11. QED
    BY <2>1, <2>2, <2>3, <2>4, <2>6, <2>7, <2>10
<1>3. QED
  BY <1>1, <1>2

\* What stands for the owner of an end of p's body is what some r that stands for p
\* sees in its place.
LEMMA SeenMark ==
  ASSUME NEW p \in Insts, NEW x \in Sources(p) \cup Sinks(p),
         NEW s \in Insts, Stands(s, x[1])
  PROVE  \E r \in Insts : Stands(r, p) /\ Seen(r, Image(r, p, x)) = <<s, x[2]>>
<1>1. CASE x \in IO(p)
  <2>1. x[1] = p
    BY <1>1, Owner
  <2>2. Image(s, p, x) = <<s, x[2]>>
    BY <2>1 DEF Image
  <2>3. Seen(s, <<s, x[2]>>) = <<s, x[2]>>
    BY DEF Seen
  <2>4. QED
    BY <2>1, <2>2, <2>3
<1>2. CASE x \notin IO(p)
  <2>1. PICK q \in Below(p) : x \in IO(q)
    BY <1>2 DEF Sources, Sinks, IO
  <2>2. x[1] = q /\ q # p
    BY <2>1, Owner, BelowFacts
  <2> DEFINE r == Parent(s)
             c == Append(r, q[Len(q)])
  <2>3. r \in Insts /\ Stands(r, p) /\ s = Record(c)
    BY <2>2, ParentStands
  <2>4. c \in Below(r)
    BY <2>3, ChildStands
  <2>5. Image(r, p, x) = <<c, x[2]>>
    BY <2>2 DEF Image
  <2> HIDE DEF c, r
  <2>6. c # r
    BY <2>3, <2>4, BelowFacts
  <2>7. Seen(r, <<c, x[2]>>) = <<s, x[2]>>
    BY <2>3, <2>6 DEF Seen
  <2>8. QED
    BY <2>3, <2>5, <2>7
<1>3. QED
  BY <1>1, <1>2

\* What is closed for the pass is closed for the design.
LEMMA MarkedClosed ==
  ASSUME NEW p \in Insts, NEW w \in Flows(p, nets[ModuleAt[p]]), w[2] \in Marked,
         \A r \in Insts : \A v \in Wires(r) : v[2] \in tagged => v[1] \in tagged
  PROVE  w[1] \in Marked
<1>1. /\ w[1] \in Sources(p) /\ w[2] \in Sinks(p)
      /\ <<Local(p, w[1]), Local(p, w[2])>> \in nets[ModuleAt[p]]
  BY DEF Flows
<1>2. PICK s \in Insts : Stands(s, w[2][1]) /\ <<s, w[2][2]>> \in tagged
  BY DEF Marked
<1>3. PICK r \in Insts : Stands(r, p) /\ Seen(r, Image(r, p, w[2])) = <<s, w[2][2]>>
  BY <1>1, <1>2, SeenMark
<1> DEFINE a == Image(r, p, w[1])
           b == Image(r, p, w[2])
<1>4. /\ w[1][1] \in Insts /\ w[1] \in IO(w[1][1]) /\ Local(r, a) = Local(p, w[1]) /\ a \in Sources(r)
      /\ \E q \in Insts : Stands(q, w[1][1]) /\ Seen(r, a) = <<q, w[1][2]>>
  BY <1>1, <1>3, ImageFacts
<1>5. Local(r, b) = Local(p, w[2]) /\ b \in Sinks(r)
  BY <1>1, <1>3, ImageFacts
<1>6. ModuleAt[r] = ModuleAt[p]
  BY <1>3, SameModule
<1> HIDE DEF a, b
<1>7. <<a, b>> \in Flows(r, nets[ModuleAt[r]])
  BY <1>1, <1>4, <1>5, <1>6 DEF Flows
<1>8. <<Seen(r, a), Seen(r, b)>> \in Wires(r)
  BY <1>7 DEF Wires
<1>9. Seen(r, b) \in tagged
  BY <1>2, <1>3 DEF b
<1>10. Seen(r, a) \in tagged
  <2> DEFINE v == <<Seen(r, a), Seen(r, b)>>
  <2>1. v \in Wires(r) /\ v[2] = Seen(r, b) /\ v[1] = Seen(r, a)
    BY <1>8
  <2> HIDE DEF v
  <2>2. QED
    BY <1>9, <2>1
<1>11. QED
  BY <1>4, <1>10 DEF Marked

\* When the component is where the pass looks for it and nothing reaches it through
\* a memory or an assigned wire: the marks contain the component's cone of logic,
\* and the pass removes no port that is marked, in every hierarchy and netlist.
THEOREM ConeSurvives ==
  ASSUME SeenComponent, NothingStored
  PROVE  Spec => []ConeIntact
<1>1. IInv => ConeIntact
  <2> SUFFICES ASSUME IInv, Done
               PROVE  FanInClosed(Marked) /\ \A y \in Marked : y[2] \notin removed[ModuleAt[y[1]]]
    BY DEF ConeIntact
  <2>1. stack = <<>> /\ Calls = {}
    BY DEF Done, Calls
  <2>2. \A q \in Insts : fresh \cap IO(q) = {}
    BY <2>1 DEF IInv, Pending, Scheduled
  <2>3. \A p \in Insts : \A w \in Wires(p) : w[2] \in tagged => w[1] \in tagged
    BY <2>1, <2>2 DEF IInv, Pending, Owed, IO
  <2>4. \A p \in Insts : \A w \in Flows(p, nets[ModuleAt[p]] \cup Stores[ModuleAt[p]]) :
          w[2] \in Marked => w[1] \in Marked
    <3> TAKE p \in Insts
    <3>1. nets[ModuleAt[p]] \cup Stores[ModuleAt[p]] = nets[ModuleAt[p]]
      BY HierarchyAssumption DEF NothingStored
    <3>2. QED
      BY <2>3, <3>1, MarkedClosed
  <2>5. ASSUME NEW r \in Insts, NEW p \in Insts, Stands(r, p)
        PROVE  /\ ModuleAt[r] = ModuleAt[p]
               /\ \A y \in IO(p) : y[1] = p /\ <<r, y[2]>> \in IO(r)
    <3>1. ModuleAt[r] = ModuleAt[p]
      BY <2>5, SameModule
    <3>2. QED
      BY <3>1 DEF IO, Inputs, Outputs
  <2>6. IO(Component) \subseteq Marked
    <3>1. Component \in Insts /\ Keep(Component) /\ Stands(Component, Component)
      BY HierarchyAssumption, ParentOfComponent DEF SeenComponent
    <3>2. IO(Component) \subseteq tagged
      BY <3>1 DEF IInv, KeepTagged
    <3>3. QED
      BY <3>1, <3>2, Owner DEF Marked
  <2>7. ASSUME NEW p \in Insts, ModuleAt[p] \in External, NEW x \in IO(p) \cap Marked, NEW y \in IO(p)
        PROVE  y \in Marked
    <3>1. x[1] = p /\ y[1] = p
      BY Owner
    <3>2. PICK r \in Insts : Stands(r, p) /\ <<r, x[2]>> \in tagged
      BY <3>1 DEF Marked
    <3>3. ModuleAt[r] = ModuleAt[p] /\ <<r, x[2]>> \in IO(r) /\ <<r, y[2]>> \in IO(r)
      BY <2>5, <3>2
    <3>4. IO(r) \subseteq tagged
      BY <2>2, <2>7, <3>2, <3>3 DEF IInv, ExternalWhole
    <3>5. QED
      BY <3>1, <3>2, <3>3, <3>4 DEF Marked
  <2>8. ASSUME NEW y \in Marked
        PROVE  y[2] \notin removed[ModuleAt[y[1]]]
    <3>1. PICK p \in Insts : y \in IO(p)
      BY DEF Marked
    <3>2. y[1] = p
      BY <3>1, Owner
    <3>3. PICK r \in Insts : Stands(r, p) /\ <<r, y[2]>> \in tagged
      BY <3>2 DEF Marked
    <3>4. ModuleAt[r] = ModuleAt[p]
      BY <2>5, <3>3
    <3> DEFINE z == <<r, y[2]>>
    <3>5. z \in tagged /\ z[1] = r /\ z[2] = y[2]
      BY <3>3
    <3> HIDE DEF z
    <3>6. z[2] \notin removed[ModuleAt[z[1]]]
      BY <3>5 DEF IInv, TaggedStay
    <3>7. QED
      BY <3>2, <3>4, <3>5, <3>6
  <2>9. \A p \in Insts : ModuleAt[p] \in External /\ IO(p) \cap Marked # {} => IO(p) \subseteq Marked
    BY <2>7
  <2>10. QED
    BY <2>4, <2>6, <2>8, <2>9 DEF FanInClosed
<1>2. QED
  BY <1>1, Invariance, PTL
=============================================================================
