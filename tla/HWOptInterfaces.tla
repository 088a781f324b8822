--------------------------- MODULE HWOptInterfaces ---------------------------
(***************************************************************************)
(* The pass hw-opt-interfaces (HWOptInterfaces.cpp, HWOpt.cpp): go round   *)
(* the modules of a design and change their ports and all their instances  *)
(* until nothing changes.  Unused ports are removed, an output that only   *)
(* passes on an input or a constant moves up to the instances, an input    *)
(* that all instances drive alike moves down, equal ports are combined.    *)
(*                                                                         *)
(* A body says what drives each of its sinks.  An operation that is no     *)
(* instance stands for a register: it has one operand and ends every path. *)
(* A constant and an extract are the value they take their bits from, ops  *)
(* of several operands and the folding of gates are left out.  Ports have  *)
(* names; that positions shift when a port goes is what modifyPorts, an    *)
(* operation of CIRCT, takes care of.                                      *)
(***************************************************************************)
EXTENDS FiniteSets, Functions, Sequences, Integers

CONSTANTS Modules, Top,
          Insts,     \* names of instances
          ParentOf,  \* the module an instance is in
          ModuleOf,  \* the module it is an instance of
          In,        \* input ports of each module
          Pinned,    \* instances with a symbol
          Designs,   \* the bodies to start from: module -> (sink -> value)
          Hops,      \* as many ports as a value may pass on its way
          Options    \* [keepPorts, ports, modules]: the option and the keep tags

Arg(i) == <<"arg", i>>
Reg(g) == <<"reg", g>>
Res(n, o) == <<"res", n, o>>
Const(k) == <<"const", k>>

OutSink(o) == <<"out", o>>
OpdSink(n, i) == <<"opd", n, i>>

Instances(m) == {n \in Insts : ModuleOf[n] = m}

ASSUME HierarchyAssumption ==
  /\ Top \in Modules /\ IsFiniteSet(Modules) /\ IsFiniteSet(Insts)
  /\ ParentOf \in [Insts -> Modules] /\ ModuleOf \in [Insts -> Modules \ {Top}]
  /\ Pinned \subseteq Insts /\ Hops \in Nat
  \* No module is above itself.
  /\ \A S \in SUBSET Modules :
       (\A m \in S : \E n \in Instances(m) : ParentOf[n] \in S) => S = {}

\* A body as the verifier wants it: each port of an instance has its operand or
\* result, and every value is one the body has.
SinkOf(d, m, s) ==
  \/ s[1] = "out" /\ s = OutSink(s[2]) /\ s[2] \notin In[m]
  \/ s[1] = "reg" /\ s = Reg(s[2])
  \/ \E n \in Insts : ParentOf[n] = m /\ \E i \in In[ModuleOf[n]] : s = OpdSink(n, i)

ValueIn(d, m, v) ==
  \/ \E i \in In[m] : v = Arg(i)
  \/ v[1] = "reg" /\ v \in DOMAIN d[m]
  \/ \E n \in Insts : /\ ParentOf[n] = m
                      /\ \E s \in DOMAIN d[ModuleOf[n]] : s[1] = "out" /\ v = Res(n, s[2])
  \/ v[1] = "const" /\ v = Const(v[2])

Verified(d) ==
  /\ \A m \in Modules : \A s \in DOMAIN d[m] : SinkOf(d, m, s) /\ ValueIn(d, m, d[m][s])
  /\ \A n \in Insts : \A i \in In[ModuleOf[n]] : OpdSink(n, i) \in DOMAIN d[ParentOf[n]]

ASSUME DesignsAssumption ==
  /\ \A d \in Designs : /\ d = [m \in Modules |-> d[m]]
                        /\ \A m \in Modules : d[m] = [s \in DOMAIN d[m] |-> d[m][s]]
                        /\ Verified(d)
  /\ \A d \in Designs, o \in Options : \A x \in o.ports :
       /\ x[1] \in Modules
       /\ x[2] \in In[x[1]] \/ OutSink(x[2]) \in DOMAIN d[x[1]]
  /\ In = [m \in Modules |-> In[m]]

VARIABLES design,   \* the design the pass starts from
          option,
          mods,     \* modules that are left
          insts,    \* instances that are left
          ins,      \* input ports of each module
          drive,    \* the bodies
          unused,   \* ports tagged unused
          phase,    \* "optimize", "cleanup", "done"
          todo,     \* modules to visit in this round
          changed,  \* this round has changed something
          node,     \* the module being visited
          step,     \* where in optInterface
          first,    \* firstInst of rewireModule
          pending,  \* ports the loop at hand has not seen
          movedIns, movedOuts, \* ports to remove
          here      \* this visit has changed something

graph == <<mods, insts, ins, drive, unused>>
visit == <<node, step, first, pending, movedIns, movedOuts, here>>
vars == <<design, option, graph, phase, todo, changed, visit>>

Outs(m) == {s[2] : s \in {t \in DOMAIN drive[m] : t[1] = "out"}}

\* The uses of m's node in the instance graph.
Uses(m) == {n \in insts : ModuleOf[n] = m}

Used(m, v) == \E s \in DOMAIN drive[m] : drive[m][s] = v

Operand(n, i) == drive[ParentOf[n]][OpdSink(n, i)]

Tagged(tags, m) == {x[2] : x \in {y \in tags : y[1] = m}}

\* Mutants: one of the tags is not looked at.
IgnoredUnused(m) == Tagged(unused, m)
IgnoredKept(m) == Tagged(option.ports, m)

\* getIgnorePorts
Ignored(m) == Tagged(unused \cup option.ports, m)

Kept(m) == m \in option.modules


Init ==
  /\ design \in Designs /\ option \in Options
  /\ mods = Modules /\ insts = Insts /\ ins = In
  /\ drive = design /\ unused = {}
  /\ phase = "optimize" /\ todo = Modules /\ changed = FALSE
  /\ node = Top /\ step = "next" /\ first = {} /\ pending = {}
  /\ movedIns = {} /\ movedOuts = {} /\ here = FALSE

----------------------------------------------------------------------------
(* eraseUnused (HWOpt.cpp). *)

\* The operation a sink belongs to, and the one a value comes from.
OpOf(s) == IF s[1] = "opd" THEN <<"inst", s[2]>> ELSE s
SourceOp(v) == IF v[1] = "res" THEN <<"inst", v[2]>> ELSE v

Ops(m) == {<<"inst", n>> : n \in {k \in insts : ParentOf[k] = m}}
          \cup {s \in DOMAIN drive[m] : s[1] = "reg"}

\* A set of operations with all that the outputs and the pinned instances need.
Complete(m, ops) ==
  /\ \A n \in Pinned : <<"inst", n>> \in Ops(m) => <<"inst", n>> \in ops
  /\ \A s \in DOMAIN drive[m] :
       /\ s[1] = "out" \/ OpOf(s) \in ops
       /\ SourceOp(drive[m][s]) \in Ops(m)
       => SourceOp(drive[m][s]) \in ops

Live(m) == {x \in Ops(m) : \A ops \in SUBSET Ops(m) : Complete(m, ops) => x \in ops}

EraseUnused(m) ==
  /\ insts' = {n \in insts : ParentOf[n] = m => <<"inst", n>> \in Live(m)}
  /\ drive' = [drive EXCEPT ![m] =
       Restrict(@, {s \in DOMAIN @ : s[1] = "out" \/ OpOf(s) \in Live(m)})]

----------------------------------------------------------------------------
(* updateNode. *)

\* The sinks of p's body that belong to the given ports of m: its own outputs,
\* the operands of its instances.
SinksOf(m, inputs, outputs, p) ==
  {s \in DOMAIN drive[p] : \/ s[1] = "out" /\ p = m /\ s[2] \in outputs
                           \/ s[1] = "opd" /\ ModuleOf[s[2]] = m /\ s[3] \in inputs}

\* d is drive after the values of these ports were replaced.  The ports go, or,
\* with keepPorts, stay with a dummy value.
UpdateNode(m, inputs, outputs, d) ==
  LET gone(p) == SinksOf(m, inputs, outputs, p) IN
  /\ unused' = unused \cup ({m} \X (inputs \cup outputs))
  /\ ins' = IF option.keepPorts THEN ins ELSE [ins EXCEPT ![m] = @ \ inputs]
  /\ drive' = IF option.keepPorts
              THEN [p \in Modules |-> [s \in DOMAIN d[p] |->
                      IF s \in gone(p) THEN Const("0") ELSE d[p][s]]]
              ELSE [p \in Modules |-> Restrict(d[p], DOMAIN d[p] \ gone(p))]

\* What follows when replaceNodeInsts has been through the instances.
After == [unusedInsts |-> "outs", rewireInsts |-> "combineOuts", combineInsts |-> "end"]

\* Mutant: instances of other modules are taken for instances of this one.
AllInstances == insts

InstancesToReplace == Uses(node)

\* Without a change there is nothing to update.
Update(s, inputs, outputs, d) ==
  IF inputs \cup outputs = {}
  THEN /\ step' = After[s] /\ pending' = {} /\ drive' = d
       /\ UNCHANGED <<ins, unused, here>>
  ELSE /\ pending' = InstancesToReplace
       /\ step' = IF InstancesToReplace = {} THEN After[s] ELSE s
       /\ here' = TRUE
       /\ UpdateNode(node, inputs, outputs, d)

UseEmpty(n) == \A s \in DOMAIN drive[ParentOf[n]] :
                 ~(drive[ParentOf[n]][s][1] = "res" /\ drive[ParentOf[n]][s][2] = n)

\* An instance whose results nobody uses goes, symbol or not.
ReplaceInst(n) ==
  /\ step \in DOMAIN After /\ n \in pending
  /\ pending' = pending \ {n}
  /\ step' = IF pending' = {} THEN After[step] ELSE step
  /\ IF UseEmpty(n)
     THEN /\ insts' = insts \ {n}
          /\ drive' = [drive EXCEPT ![ParentOf[n]] =
               Restrict(@, {s \in DOMAIN @ : OpOf(s) # <<"inst", n>>})]
     ELSE UNCHANGED <<insts, drive>>
  /\ UNCHANGED <<design, option, mods, ins, unused, phase, todo, changed, node, first,
                 movedIns, movedOuts, here>>

----------------------------------------------------------------------------
(* optInterface. *)

Visit(m) ==
  /\ phase = "optimize" /\ step = "next" /\ m \in todo
  /\ EraseUnused(m)
  /\ node' = m /\ todo' = todo \ {m} /\ step' = "unused" /\ here' = FALSE
  /\ UNCHANGED <<design, option, mods, ins, unused, phase, changed, first, pending,
                 movedIns, movedOuts>>

RemoveUnusedPorts ==
  /\ step = "unused"
  /\ Update("unusedInsts",
       {i \in ins[node] \ Ignored(node) : ~Used(node, Arg(i))},
       {o \in Outs(node) \ Ignored(node) :
          Uses(node) # {} /\ \A n \in Uses(node) : ~Used(ParentOf[n], Res(n, o))},
       drive)
  /\ UNCHANGED <<design, option, mods, insts, phase, todo, changed, node, first,
                 movedIns, movedOuts>>

\* Mutant: the uses stay.
ReplaceNothing(d, p, from, to) == d

\* d with `to` for every use of `from` in p's body.
Replace(d, p, from, to) ==
  [d EXCEPT ![p] = [s \in DOMAIN @ |-> IF @[s] = from THEN to ELSE @[s]]]

\* isMoveableDown
MoveableOuts ==
  {o \in Outs(node) \ Ignored(node) : drive[node][OutSink(o)][1] \in {"arg", "const"}}

\* rewireModule: the outputs that only pass something on.
RewireModule ==
  /\ step = "outs"
  /\ IF Uses(node) = {} \/ Kept(node)
     THEN step' = "combineOuts" /\ UNCHANGED <<pending, movedOuts>>
     ELSE /\ step' = "moveOuts" /\ movedOuts' = MoveableOuts
          /\ pending' = Uses(node) \X MoveableOuts
  /\ UNCHANGED <<design, option, graph, phase, todo, changed, node, first, movedIns, here>>

\* What an instance drives an output with that passes on the value v.
Passed(n, v) == IF v[1] = "arg" THEN Operand(n, v[2]) ELSE v

MoveOut(n, o) ==
  /\ step = "moveOuts" /\ <<n, o>> \in pending
  /\ pending' = pending \ {<<n, o>>}
  /\ drive' = Replace(drive, ParentOf[n], Res(n, o), Passed(n, drive[node][OutSink(o)]))
  /\ UNCHANGED <<design, option, mods, insts, ins, unused, phase, todo, changed, node, step,
                 first, movedIns, movedOuts, here>>

\* isMoveableUp: a constant or a result of the instance itself.
MoveableUp(n, v) == v[1] = "const" \/ (v[1] = "res" /\ v[2] = n)

\* areEquivalentVals: one and the same value, equal constants, the same u-turn.
Equivalent(v, n, w, k) ==
  \/ v = w /\ (v[1] = "const" \/ ParentOf[n] = ParentOf[k])
  \/ v[1] = "res" /\ w[1] = "res" /\ v[2] = n /\ w[2] = k /\ v[3] = w[3]

\* Mutant: the first instance speaks for all.
MoveableInsOfFirst(n) == {i \in ins[node] \ Ignored(node) : MoveableUp(n, Operand(n, i))}

MoveableIns(n) ==
  {i \in ins[node] \ Ignored(node) :
     /\ MoveableUp(n, Operand(n, i))
     /\ \A k \in Uses(node) \ {n} : Equivalent(Operand(n, i), n, Operand(k, i), k)}

FindMoveableIns(n) ==
  /\ step = "moveOuts" /\ pending = {} /\ n \in Uses(node)
  /\ first' = {n} /\ movedIns' = MoveableIns(n) /\ pending' = MoveableIns(n)
  /\ step' = "moveIns"
  /\ UNCHANGED <<design, option, graph, phase, todo, changed, node, movedOuts, here>>

\* What the body sees of the value v outside.
Seen(v) == IF v[1] = "res" THEN drive[node][OutSink(v[3])] ELSE v

MoveIn(i) ==
  /\ step = "moveIns" /\ i \in pending
  /\ pending' = pending \ {i}
  /\ \E n \in first : drive' = Replace(drive, node, Arg(i), Seen(Operand(n, i)))
  /\ UNCHANGED <<design, option, mods, insts, ins, unused, phase, todo, changed, node, step,
                 first, movedIns, movedOuts, here>>

Rewired ==
  /\ step = "moveIns" /\ pending = {}
  /\ Update("rewireInsts", movedIns, movedOuts, drive)
  /\ first' = {} /\ movedIns' = {} /\ movedOuts' = {}
  /\ UNCHANGED <<design, option, mods, insts, phase, todo, changed, node>>

\* Of the ports one value drives, the one that stays.
Stays(ports, value, x) == CHOOSE y \in ports : value[y] = value[x]

Twins(ports, value) == {x \in ports : Stays(ports, value, x) # x}

\* combinePorts: outputs of one value.
CombineOuts ==
  /\ step = "combineOuts" /\ step' = "combineIns"
  /\ LET value == [o \in Outs(node) |-> drive[node][OutSink(o)]]
         ports == IF Uses(node) = {} THEN {} ELSE Outs(node) \ Ignored(node)
         new(v) == IF v[1] = "res" /\ v[2] \in Uses(node) /\ v[3] \in movedOuts'
                   THEN Res(v[2], Stays(ports, value, v[3])) ELSE v
     IN /\ movedOuts' = Twins(ports, value)
        /\ drive' = [p \in Modules |-> [s \in DOMAIN drive[p] |-> new(drive[p][s])]]
  /\ UNCHANGED <<design, option, mods, insts, ins, unused, phase, todo, changed, node, first,
                 pending, movedIns, here>>

\* With a single instance, inputs that are driven alike.
CombineIns ==
  /\ step = "combineIns"
  /\ LET value == [i \in ins[node] |-> {Operand(n, i) : n \in Uses(node)}]
         ports == IF Cardinality(Uses(node)) = 1 THEN ins[node] \ Ignored(node) ELSE {}
         twins == Twins(ports, value)
         new(v) == IF v[1] = "arg" /\ v[2] \in twins
                   THEN Arg(Stays(ports, value, v[2])) ELSE v
     IN Update("combineInsts", twins, movedOuts,
          [drive EXCEPT ![node] = [s \in DOMAIN @ |-> new(@[s])]])
  /\ movedOuts' = {}
  /\ UNCHANGED <<design, option, mods, insts, phase, todo, changed, node, first, movedIns>>

\* Mutant: what the last module of the round says.
ChangedLast == here

RoundChanged == changed \/ here

EndVisit ==
  /\ step = "end" /\ step' = "next"
  /\ changed' = RoundChanged
  /\ IF here THEN EraseUnused(node) ELSE UNCHANGED <<insts, drive>>
  /\ UNCHANGED <<design, option, mods, ins, unused, phase, todo, node, first, pending,
                 movedIns, movedOuts, here>>

NextRound ==
  /\ phase = "optimize" /\ step = "next" /\ todo = {}
  /\ todo' = IF changed THEN mods ELSE {}
  /\ phase' = IF changed THEN "optimize" ELSE "cleanup"
  /\ changed' = FALSE
  /\ UNCHANGED <<design, option, graph, visit>>

\* cleanup: the top module is public and counts as used.
EraseModule(m) ==
  /\ phase = "cleanup" /\ m \in mods \ {Top} /\ Uses(m) = {}
  /\ mods' = mods \ {m} /\ insts' = {n \in insts : ParentOf[n] # m}
  /\ UNCHANGED <<design, option, ins, drive, unused, phase, todo, changed, visit>>

EndCleanup ==
  /\ phase = "cleanup" /\ \A m \in mods \ {Top} : Uses(m) # {}
  /\ phase' = "done"
  /\ UNCHANGED <<design, option, graph, todo, changed, visit>>

Finished == phase = "done" /\ UNCHANGED vars

Next ==
  \/ \E m \in Modules : Visit(m) \/ EraseModule(m)
  \/ \E n \in Insts : ReplaceInst(n) \/ FindMoveableIns(n)
  \/ \E n \in Insts, o \in movedOuts : MoveOut(n, o)
  \/ \E i \in movedIns : MoveIn(i)
  \/ RemoveUnusedPorts \/ RewireModule \/ Rewired \/ CombineOuts \/ CombineIns
  \/ EndVisit \/ NextRound \/ EndCleanup
  \/ Finished

Spec == Init /\ [][Next]_vars /\ WF_vars(Next)

----------------------------------------------------------------------------
(* What a design computes. *)

Parent(p) == SubSeq(p, 1, Len(p) - 1)

\* The module at a path.
At(p) == IF p = <<>> THEN Top ELSE ModuleOf[p[Len(p)]]

\* All paths of instances; no module is above itself.
Paths ==
  LET chain(p) == /\ \A k \in 1..Len(p) : p[k] \in Insts
                  /\ \A k \in 1..Len(p) : ParentOf[p[k]] = At(SubSeq(p, 1, k - 1))
  IN {p \in UNION {[1..k -> Insts] : k \in 0..(Cardinality(Modules) - 1)} : chain(p)}

\* A point is a value in the body at a path.  One step towards what drives it; d
\* are the bodies, and left the instances.
Gone == <<<<>>, <<"gone">>>>

Hop(d, left, x) ==
  LET p == x[1]
      v == x[2]
      look(q, s) == IF s \in DOMAIN d[At(q)] THEN <<q, d[At(q)][s]>> ELSE Gone
  IN CASE v[1] = "arg" /\ p # <<>> -> look(Parent(p), OpdSink(p[Len(p)], v[2]))
       [] v[1] = "res" -> IF v[2] \in left THEN look(Append(p, v[2]), OutSink(v[3])) ELSE Gone
       [] v[1] = "reg" -> IF v \in DOMAIN d[At(p)] THEN x ELSE Gone
       [] OTHER -> x

\* The points on the way back from x.
Way(d, left, x) ==
  LET way[k \in 0..Hops] == IF k = 0 THEN x ELSE Hop(d, left, way[k - 1]) IN way

\* Where it ends; a constant is the same wherever it is.
Source(d, left, x) ==
  LET y == Way(d, left, x)[Hops] IN IF y[2][1] = "const" THEN <<<<>>, y[2]>> ELSE y

\* A design has no loop without a register.
NoWireLoop(d) ==
  \A p \in Paths : \A s \in DOMAIN d[At(p)] :
    LET y == Way(d, Insts, <<p, d[At(p)][s]>>)[Hops] IN
    y # Gone /\ y = Hop(d, Insts, y)

Passes(d, x, p) == \E k \in 0..Hops : Way(d, Insts, x)[k][1] = p

\* Two instances of a module, side by side, are driven alike at an input, both
\* through the first one.
SharedFeedback(d) ==
  \E p \in Paths : \E n, k \in Insts :
    /\ n # k /\ ParentOf[n] = At(p) /\ ParentOf[k] = At(p) /\ ModuleOf[n] = ModuleOf[k]
    /\ \E i \in In[ModuleOf[n]] :
         LET x == <<p, d[At(p)][OpdSink(n, i)]>>
             y == <<p, d[At(p)][OpdSink(k, i)]>>
         IN /\ Source(d, Insts, x) = Source(d, Insts, y)
            /\ Passes(d, x, Append(p, n)) /\ Passes(d, y, Append(p, n))

\* Where instances are left, all the way down.
LeftPaths == {p \in Paths : \A k \in 1..Len(p) : p[k] \in insts}

\* What can be observed at a path: the operands of registers, the outputs of the
\* design, and ports that are tagged keep.
Observed(p) ==
  {s \in DOMAIN drive[At(p)] :
     \/ s[1] = "reg"
     \/ s[1] = "out" /\ p = <<>>
     \/ s[1] = "out" /\ <<At(p), s[2]>> \in option.ports
     \/ s[1] = "opd" /\ <<ModuleOf[s[2]], s[3]>> \in option.ports}

----------------------------------------------------------------------------
(* Properties. *)

Steps == {"next", "unused", "unusedInsts", "outs", "moveOuts", "moveIns", "rewireInsts",
          "combineOuts", "combineIns", "combineInsts", "end"}

\* What is left is part of what there was, and the visit is at a place in the code.
TypeOK ==
  /\ mods \subseteq Modules /\ insts \subseteq Insts
  /\ \A m \in Modules : ins[m] \subseteq In[m] /\ DOMAIN drive[m] \subseteq DOMAIN design[m]
  /\ phase \in {"optimize", "cleanup", "done"} /\ todo \subseteq mods
  /\ changed \in BOOLEAN /\ here \in BOOLEAN
  /\ node \in Modules /\ step \in Steps /\ first \subseteq Insts
  /\ movedIns \subseteq In[node] /\ movedOuts \subseteq Outs(node)
  /\ step = "moveIns" => pending \subseteq movedIns
  /\ step \in DOMAIN After => pending \subseteq Instances(node)

\* At every moment, in every body: a register, an output of the design and a kept
\* port are driven, through whatever modules, by what drove them in the design the
\* pass was given, and that is still there.
SameDrivers ==
  \A p \in LeftPaths : \A s \in Observed(p) :
    Source(drive, insts, <<p, drive[At(p)][s]>>)
      = Source(design, Insts, <<p, design[At(p)][s]>>)

\* The comments of areEquivalentVals list what instances may drive an input with
\* for it to move down: "Same constant input", "Same inst uturn", "Same constant
\* clock".  Then the design stays what it is, feedback shared by instances or not.
MovesKeepDesign == SameDrivers

\* The ports of a module and the operands and results of its instances agree, as
\* the verifier wants it: nothing refers to what is gone.
WellFormed ==
  /\ \A n \in insts : ModuleOf[n] \in mods /\ ParentOf[n] \in mods
  /\ \A n \in insts :
       {s \in DOMAIN drive[ParentOf[n]] : s[1] = "opd" /\ s[2] = n}
         = {OpdSink(n, i) : i \in ins[ModuleOf[n]]}
  /\ \A m \in mods : \A s \in DOMAIN drive[m] :
       LET v == drive[m][s] IN
       /\ v[1] = "arg" => v[2] \in ins[m]
       /\ v[1] = "reg" => v \in DOMAIN drive[m]
       /\ v[1] = "res" => v[2] \in insts /\ v[3] \in Outs(ModuleOf[v[2]])
       /\ s[1] = "opd" => s[2] \in insts

\* "Never combine away a {keep}/{unused} port - it must survive here": a port with
\* the tag stays as long as its module, through all three rewrites.
KeptPortsStay ==
  \A x \in option.ports : x[1] \in mods => x[2] \in ins[x[1]] \cup Outs(x[1])

\* The pass removes unused inputs, in whatever order it meets the modules: when it
\* is done each input that is left is used or has a tag.
InputsUsed ==
  phase = "done" =>
    \A m \in mods : \A i \in ins[m] \ Ignored(m) : Used(m, Arg(i))

\* The rounds end.
Terminates == <>(phase = "done")
=============================================================================
