------------------------ MODULE HWOptInterfaces_proofs ------------------------
(***************************************************************************)
(* For every design, every choice of tags and every order of the modules:  *)
(* a port that is tagged keep stays, when the rounds end no unused input   *)
(* is left, ports and instances always agree, and what can be observed is  *)
(* always driven by what drove it.                                         *)
(***************************************************************************)
EXTENDS HWOptInterfaces, FiniteSetTheorems, SequenceTheorems, WellFoundedInduction, TLAPS

----------------------------------------------------------------------------
(* The inductive invariant. *)

\* drive is a function of functions; the given design and the tags are legal.
Functional ==
  /\ design \in Designs /\ option \in Options
  /\ ins = [m \in Modules |-> ins[m]]
  /\ drive = [m \in Modules |-> drive[m]]
  /\ \A m \in Modules : drive[m] = [s \in DOMAIN drive[m] |-> drive[m][s]]

\* A visit is under way in the optimisation only, and the sets of its loops are
\* empty outside of them.
Places ==
  /\ step # "next" => phase = "optimize" /\ node \in mods \ todo
  /\ phase # "optimize" => step = "next" /\ todo = {} /\ ~changed
  /\ step \in DOMAIN After => here
  /\ step \notin {"moveIns"} => movedIns = {}
  /\ step \notin {"moveOuts", "moveIns", "combineIns"} => movedOuts = {}

\* The rewrites have not picked a kept port.
NoneKept == Tagged(option.ports, node) \cap (movedIns \cup movedOuts) = {}

\* Something has changed in this round, or is going to.
Dirty == changed \/ (step # "next" /\ (here \/ movedIns # {} \/ movedOuts # {}))

Clean(m) == \A i \in ins[m] \ Ignored(m) : Used(m, Arg(i))

\* As long as a round has changed nothing, the modules it is through with have no
\* unused input.
Visited ==
  \A m \in mods \ todo : Dirty \/ (m = node /\ step = "unused") \/ Clean(m)

IInv == TypeOK /\ Functional /\ Places /\ NoneKept /\ KeptPortsStay /\ Visited

----------------------------------------------------------------------------
(* What a rewrite does to the bodies. *)

\* d is a design like drive in which no body has new sinks and none has lost an
\* output.
Rewritten(d) ==
  /\ d = [m \in Modules |-> d[m]]
  /\ \A m \in Modules : /\ d[m] = [s \in DOMAIN d[m] |-> d[m][s]]
                        /\ DOMAIN d[m] \subseteq DOMAIN drive[m]
                        /\ \A s \in DOMAIN drive[m] : s[1] = "out" => s \in DOMAIN d[m]

LEMMA RestrictFacts ==
  ASSUME NEW f, NEW S, S \subseteq DOMAIN f
  PROVE  /\ Restrict(f, S) = [s \in DOMAIN Restrict(f, S) |-> Restrict(f, S)[s]]
         /\ DOMAIN Restrict(f, S) = S
         /\ \A s \in S : Restrict(f, S)[s] = f[s]
  BY DEF Restrict

\* Outputs stay outputs.
LEMMA OutsStay ==
  ASSUME NEW m \in Modules, Rewritten(drive')
  PROVE  Outs(m)' = Outs(m)
  BY DEF Rewritten, Outs

\* One body loses sinks that are no outputs.
LEMMA Restricting ==
  ASSUME Functional, NEW m \in Modules, NEW S, S \subseteq DOMAIN drive[m],
         \A s \in DOMAIN drive[m] : s[1] = "out" => s \in S,
         NEW d, d = [drive EXCEPT ![m] = Restrict(@, S)]
  PROVE  Rewritten(d) /\ \A p \in Modules \ {m} : d[p] = drive[p]
<1>1. d = [p \in Modules |-> IF p = m THEN Restrict(drive[m], S) ELSE drive[p]]
  BY DEF Functional
<1>2. \A p \in Modules : d[p] = IF p = m THEN Restrict(drive[m], S) ELSE drive[p]
  BY <1>1
<1>3. d = [p \in Modules |-> d[p]]
  BY <1>1
<1>4. \A p \in Modules \ {m} : d[p] = drive[p]
  BY <1>2
<1>5. d[m] = Restrict(drive[m], S)
  BY <1>2
<1>6. /\ d[m] = [s \in DOMAIN d[m] |-> d[m][s]] /\ DOMAIN d[m] = S
  BY <1>5, RestrictFacts
<1> QED
  BY <1>3, <1>4, <1>6 DEF Rewritten, Functional

\* Values change, sinks do not.
LEMMA Mapping ==
  ASSUME Functional, NEW d,
         d = [m \in Modules |-> d[m]],
         \A m \in Modules : d[m] = [s \in DOMAIN drive[m] |-> d[m][s]]
  PROVE  Rewritten(d)
<1>1. \A m \in Modules : DOMAIN d[m] = DOMAIN drive[m]
  OBVIOUS
<1> QED
  BY <1>1 DEF Rewritten

LEMMA Erasing ==
  ASSUME Functional, NEW m \in Modules, EraseUnused(m)
  PROVE  /\ Rewritten(drive') /\ insts' \subseteq insts
         /\ \A p \in Modules \ {m} : drive'[p] = drive[p]
<1> DEFINE S == {s \in DOMAIN drive[m] : s[1] = "out" \/ OpOf(s) \in Live(m)}
<1>1. drive' = [drive EXCEPT ![m] = Restrict(@, S)]
  BY DEF EraseUnused, Functional
<1>2. S \subseteq DOMAIN drive[m] /\ \A s \in DOMAIN drive[m] : s[1] = "out" => s \in S
  OBVIOUS
<1> HIDE DEF S
<1>3. Rewritten(drive') /\ \A p \in Modules \ {m} : drive'[p] = drive[p]
  BY <1>1, <1>2, Restricting
<1> QED
  BY <1>3 DEF EraseUnused

LEMMA Replacing ==
  ASSUME Functional, NEW p \in Modules, NEW from, NEW to
  PROVE  Rewritten(Replace(drive, p, from, to))
<1> DEFINE d == Replace(drive, p, from, to)
           b == [s \in DOMAIN drive[p] |-> IF drive[p][s] = from THEN to ELSE drive[p][s]]
<1>1. d = [m \in Modules |-> IF m = p THEN b ELSE drive[m]]
  BY DEF Replace, Functional
<1>2. \A m \in Modules : d[m] = IF m = p THEN b ELSE drive[m]
  BY <1>1
<1>3. d = [m \in Modules |-> d[m]]
  BY <1>1
<1>4. b = [s \in DOMAIN drive[p] |-> b[s]]
  OBVIOUS
<1> HIDE DEF d, b
<1>5. \A m \in Modules : d[m] = [s \in DOMAIN drive[m] |-> d[m][s]]
  BY <1>2, <1>4 DEF Functional
<1>6. Rewritten(d)
  BY <1>3, <1>5, Mapping
<1> QED
  BY <1>6 DEF d

\* What every step must keep of the bodies and the ports.
Legal ==
  /\ Functional /\ KeptPortsStay
  /\ \A m \in Modules : ins[m] \subseteq In[m] /\ DOMAIN drive[m] \subseteq DOMAIN design[m]

\* The ports stay, the bodies are rewritten.
LEMMA Preserving ==
  ASSUME Legal, Rewritten(drive'), ins' = ins, mods' \subseteq mods,
         UNCHANGED <<design, option>>
  PROVE  Legal' /\ \A m \in Modules : Outs(m)' = Outs(m)
<1>1. \A m \in Modules : Outs(m)' = Outs(m)
  BY OutsStay
<1>2. Functional'
  BY DEF Functional, Rewritten, Legal
<1>3. \A m \in Modules : ins'[m] \subseteq In[m] /\ DOMAIN drive'[m] \subseteq DOMAIN design'[m]
  BY DEF Legal, Rewritten
<1>4. KeptPortsStay'
  <2> SUFFICES ASSUME NEW x \in option.ports, x[1] \in mods'
               PROVE  x[2] \in ins'[x[1]] \cup Outs(x[1])'
    BY DEF KeptPortsStay
  <2>1. x[1] \in Modules
    BY DesignsAssumption DEF Legal, Functional
  <2>2. x[2] \in ins[x[1]] \cup Outs(x[1])
    BY DEF Legal, KeptPortsStay
  <2> QED
    BY <2>1, <2>2, <1>1
<1> QED
  BY <1>1, <1>2, <1>3, <1>4 DEF Legal

\* Ports of the visited module go, no kept one among them.
LEMMA Updating ==
  ASSUME Legal, node \in Modules, mods' = mods, UNCHANGED <<design, option>>,
         NEW inputs, NEW outputs, NEW d, Rewritten(d),
         Tagged(option.ports, node) \cap (inputs \cup outputs) = {},
         UpdateNode(node, inputs, outputs, d)
  PROVE  Legal'
<1> DEFINE gone(p) == SinksOf(node, inputs, outputs, p)
           kept(p) == DOMAIN d[p] \ gone(p)
<1>1. \A m \in Modules : ins'[m] = ins[m] \/ (m = node /\ ins'[m] = ins[m] \ inputs)
  BY DEF UpdateNode, Legal, Functional
<1>2. ins' = [m \in Modules |-> ins'[m]]
  BY DEF UpdateNode, Legal, Functional
<1>3. /\ drive' = [m \in Modules |-> drive'[m]]
      /\ \A m \in Modules : /\ drive'[m] = [s \in DOMAIN drive'[m] |-> drive'[m][s]]
                            /\ DOMAIN drive'[m] \in {DOMAIN d[m], kept(m)}
  <2>1. CASE option.keepPorts
    <3>1. drive' = [p \in Modules |-> [s \in DOMAIN d[p] |->
                     IF s \in gone(p) THEN Const("0") ELSE d[p][s]]]
      BY <2>1 DEF UpdateNode
    <3> HIDE DEF gone
    <3> QED
      BY <3>1
  <2>2. CASE ~option.keepPorts
    <3>1. drive' = [p \in Modules |-> Restrict(d[p], kept(p))]
      BY <2>2 DEF UpdateNode
    <3> HIDE DEF gone
    <3>2. \A p \in Modules : drive'[p] = Restrict(d[p], kept(p))
      BY <3>1
    <3>3. drive' = [m \in Modules |-> drive'[m]]
      BY <3>1
    <3>4. \A p \in Modules : kept(p) \subseteq DOMAIN d[p]
      OBVIOUS
    <3> HIDE DEF kept
    <3>5. \A p \in Modules : /\ drive'[p] = [s \in DOMAIN drive'[p] |-> drive'[p][s]]
                            /\ DOMAIN drive'[p] = kept(p)
      BY <3>2, <3>4, RestrictFacts
    <3> QED
      BY <3>3, <3>5
  <2> QED
    BY <2>1, <2>2
<1>4. Functional'
  BY <1>2, <1>3 DEF Legal, Functional
<1>5. \A m \in Modules : ins'[m] \subseteq In[m] /\ DOMAIN drive'[m] \subseteq DOMAIN design'[m]
  BY <1>1, <1>3 DEF Legal, Rewritten
<1>6. KeptPortsStay'
  <2> SUFFICES ASSUME NEW x \in option.ports, x[1] \in mods
               PROVE  x[2] \in ins'[x[1]] \cup Outs(x[1])'
    BY DEF KeptPortsStay
  <2>1. x[1] \in Modules
    BY DesignsAssumption DEF Legal, Functional
  <2>2. x[2] \in ins[x[1]] \cup Outs(x[1])
    BY DEF Legal, KeptPortsStay
  <2>3. x[1] = node => x[2] \notin inputs \cup outputs
    BY DEF Tagged
  <2>4. CASE x[2] \in ins[x[1]]
    BY <2>1, <2>3, <2>4, <1>1
  <2>5. CASE x[2] \in Outs(x[1])
    <3>1. PICK s \in DOMAIN drive[x[1]] : s[1] = "out" /\ s[2] = x[2]
      BY <2>5 DEF Outs
    <3>2. s \in DOMAIN d[x[1]]
      BY <3>1, <2>1 DEF Rewritten
    <3>3. s \notin gone(x[1])
      BY <3>1, <2>3 DEF SinksOf
    <3>4. s \in DOMAIN drive'[x[1]]
      BY <3>2, <3>3, <1>3, <2>1
    <3> QED
      BY <3>1, <3>4 DEF Outs
  <2> QED
    BY <2>2, <2>4, <2>5
<1> QED
  BY <1>4, <1>5, <1>6 DEF Legal

\* A module whose body and ports a step leaves alone is as clean as before.
LEMMA StaysClean ==
  ASSUME NEW m, Clean(m), ins'[m] = ins[m], drive'[m] = drive[m],
         UNCHANGED <<unused, option>>
  PROVE  Clean(m)'
  BY DEF Clean, Used, Ignored, Tagged, Arg

----------------------------------------------------------------------------
(* The steps of a visit. *)

LEMMA VisitKeeps ==
  ASSUME IInv, NEW m \in Modules, Visit(m)
  PROVE  IInv'
<1>0. Legal /\ movedIns = {} /\ movedOuts = {} /\ step = "next"
  BY DEF IInv, Legal, TypeOK, Visit, Places, After
<1>1. /\ Rewritten(drive') /\ insts' \subseteq insts
      /\ \A p \in Modules \ {m} : drive'[p] = drive[p]
  BY Erasing DEF Visit, IInv
<1>2. Legal'
  BY <1>0, <1>1, Preserving DEF Visit
<1>3. TypeOK'
  BY <1>0, <1>1, <1>2 DEF Visit, IInv, TypeOK, Legal, After, Steps
<1>4. Places'
  BY <1>0 DEF Visit, IInv, Places, TypeOK, After
<1>5. NoneKept'
  BY <1>0 DEF Visit, NoneKept
<1>6. Visited'
  <2> SUFFICES ASSUME NEW p \in mods' \ todo', ~Dirty', ~(p = node' /\ step' = "unused")
               PROVE  Clean(p)'
    BY DEF Visited
  <2>1. p \in mods \ todo /\ p # m /\ p \in Modules
    BY DEF Visit, IInv, TypeOK
  <2>2. ~Dirty
    BY <1>0 DEF Dirty, Visit
  <2>3. Clean(p)
    BY <2>1, <2>2, <1>0 DEF IInv, Visited
  <2> QED
    BY <2>1, <2>3, <1>1, StaysClean DEF Visit
<1> QED
  BY <1>2, <1>3, <1>4, <1>5, <1>6 DEF IInv, Legal

LEMMA ReplaceInstKeeps ==
  ASSUME IInv, NEW n \in Insts, ReplaceInst(n)
  PROVE  IInv'
<1>0. Legal /\ ParentOf[n] \in Modules /\ step \in DOMAIN After /\ here
  BY HierarchyAssumption DEF IInv, Legal, TypeOK, ReplaceInst, Places
<1>1. step' \in {step, After[step]} /\ (step' \in DOMAIN After => step' = step)
  BY <1>0 DEF ReplaceInst, After
<1>2. Rewritten(drive') /\ insts' \subseteq insts
  <2>1. CASE UseEmpty(n)
    <3> DEFINE p == ParentOf[n]
               S == {s \in DOMAIN drive[p] : OpOf(s) # <<"inst", n>>}
    <3>1. drive' = [drive EXCEPT ![p] = Restrict(@, S)] /\ insts' = insts \ {n}
      BY <2>1, <1>0 DEF ReplaceInst, Legal, Functional
    <3>2. \A s \in DOMAIN drive[p] : s[1] = "out" => s \in S
      BY DEF OpOf
    <3>3. S \subseteq DOMAIN drive[p]
      OBVIOUS
    <3> HIDE DEF S
    <3> QED
      BY <3>1, <3>2, <3>3, <1>0, Restricting DEF Legal
  <2>2. CASE ~UseEmpty(n)
    BY <2>2, <1>0 DEF ReplaceInst, Rewritten, Legal, Functional
  <2> QED
    BY <2>1, <2>2
<1>3. Legal' /\ \A m \in Modules : Outs(m)' = Outs(m)
  BY <1>0, <1>2, Preserving DEF ReplaceInst
<1>4. step # "next" /\ step' # "next" /\ step \notin {"moveIns", "moveOuts"}
      /\ step' \in Steps \ {"moveIns", "moveOuts"}
  BY <1>0, <1>1 DEF After, Steps
<1>5. TypeOK'
  BY <1>0, <1>1, <1>2, <1>3, <1>4 DEF ReplaceInst, IInv, TypeOK, Legal
<1>6. Places'
  BY <1>0, <1>1, <1>4 DEF ReplaceInst, IInv, Places, After
<1>7. NoneKept'
  BY DEF ReplaceInst, IInv, NoneKept, Tagged
<1>8. Visited'
  BY <1>0, <1>4 DEF ReplaceInst, Visited, Dirty
<1> QED
  BY <1>3, <1>5, <1>6, <1>7, <1>8 DEF IInv, Legal

\* The graph stays.
LEMMA SameGraph ==
  ASSUME Legal, UNCHANGED <<design, option, ins, drive, unused>>, mods' \subseteq mods
  PROVE  /\ Legal' /\ \A m \in Modules : Outs(m)' = Outs(m)
         /\ \A m : Clean(m) => Clean(m)'
<1>1. Rewritten(drive')
  BY DEF Rewritten, Legal, Functional
<1> QED
  BY <1>1, Preserving, StaysClean

LEMMA RewireModuleKeeps ==
  ASSUME IInv, RewireModule
  PROVE  IInv'
<1>0. Legal /\ movedIns = {} /\ movedOuts = {} /\ step = "outs"
  BY DEF IInv, Legal, TypeOK, RewireModule, Places, After
<1>1. Legal' /\ (\A m \in Modules : Outs(m)' = Outs(m)) /\ \A m : Clean(m) => Clean(m)'
  BY <1>0, SameGraph DEF RewireModule, graph
<1>2. step' \in {"combineOuts", "moveOuts"} /\ movedOuts' \in {{}, MoveableOuts}
      /\ (step' = "combineOuts" => movedOuts' = {})
  BY <1>0 DEF RewireModule
<1>3. TypeOK'
  BY <1>0, <1>1, <1>2 DEF RewireModule, graph, IInv, TypeOK, Legal, After, Steps, MoveableOuts
<1>4. Places'
  BY <1>0, <1>2 DEF RewireModule, graph, IInv, Places, After
<1>5. NoneKept'
  BY <1>0, <1>2 DEF RewireModule, NoneKept, MoveableOuts, Ignored, Tagged
<1>6. Visited'
  BY <1>0, <1>1, <1>2 DEF RewireModule, graph, IInv, Visited, Dirty
<1> QED
  BY <1>1, <1>3, <1>4, <1>5, <1>6 DEF IInv, Legal

LEMMA MoveOutKeeps ==
  ASSUME IInv, NEW n \in Insts, NEW o \in movedOuts, MoveOut(n, o)
  PROVE  IInv'
<1>0. Legal /\ ParentOf[n] \in Modules /\ step = "moveOuts"
  BY HierarchyAssumption DEF IInv, Legal, TypeOK, MoveOut
<1>1. Rewritten(drive')
  BY <1>0, Replacing DEF MoveOut, Legal
<1>2. Legal' /\ \A m \in Modules : Outs(m)' = Outs(m)
  BY <1>0, <1>1, Preserving DEF MoveOut
<1>3. TypeOK'
  BY <1>0, <1>2 DEF MoveOut, IInv, TypeOK, Legal, After
<1>4. Places'
  BY <1>0 DEF MoveOut, IInv, Places, After
<1>5. NoneKept'
  BY DEF MoveOut, IInv, NoneKept, Tagged
<1>6. Visited'
  BY <1>0 DEF MoveOut, Visited, Dirty
<1> QED
  BY <1>2, <1>3, <1>4, <1>5, <1>6 DEF IInv, Legal

LEMMA FindMoveableInsKeeps ==
  ASSUME IInv, NEW n \in Insts, FindMoveableIns(n)
  PROVE  IInv'
<1>0. Legal /\ movedIns = {} /\ step = "moveOuts" /\ step' = "moveIns"
  BY DEF IInv, Legal, TypeOK, FindMoveableIns, Places
<1>1. Legal' /\ (\A m \in Modules : Outs(m)' = Outs(m)) /\ \A m : Clean(m) => Clean(m)'
  BY <1>0, SameGraph DEF FindMoveableIns, graph
<1>2. movedIns' \subseteq ins[node] \ Ignored(node)
  BY DEF FindMoveableIns, MoveableIns
<1>3. TypeOK'
  BY <1>0, <1>1, <1>2 DEF FindMoveableIns, graph, IInv, TypeOK, Legal, After, Steps
<1>4. Places'
  BY <1>0 DEF FindMoveableIns, graph, IInv, Places, After
<1>5. NoneKept'
  BY <1>2 DEF FindMoveableIns, IInv, NoneKept, Ignored, Tagged
<1>6. Visited'
  BY <1>0, <1>1 DEF FindMoveableIns, graph, IInv, Visited, Dirty
<1> QED
  BY <1>1, <1>3, <1>4, <1>5, <1>6 DEF IInv, Legal

LEMMA MoveInKeeps ==
  ASSUME IInv, NEW i \in movedIns, MoveIn(i)
  PROVE  IInv'
<1>0. Legal /\ node \in Modules /\ step = "moveIns"
  BY DEF IInv, Legal, TypeOK, MoveIn
<1>1. Rewritten(drive')
  BY <1>0, Replacing DEF MoveIn, Legal
<1>2. Legal' /\ \A m \in Modules : Outs(m)' = Outs(m)
  BY <1>0, <1>1, Preserving DEF MoveIn
<1>3. TypeOK'
  BY <1>0, <1>2 DEF MoveIn, IInv, TypeOK, Legal, After
<1>4. Places'
  BY <1>0 DEF MoveIn, IInv, Places, After
<1>5. NoneKept'
  BY DEF MoveIn, IInv, NoneKept, Tagged
<1>6. Visited'
  BY <1>0 DEF MoveIn, Visited, Dirty
<1> QED
  BY <1>2, <1>3, <1>4, <1>5, <1>6 DEF IInv, Legal

\* updateNode, called or not, after a rewrite d that changes nothing if no port is
\* to go.
LEMMA UpdateKeeps ==
  ASSUME IInv, step \in {"unused", "moveIns", "combineIns"},
         NEW s \in DOMAIN After, NEW inputs, NEW outputs, NEW d, Rewritten(d),
         Update(s, inputs, outputs, d),
         Tagged(option.ports, node) \cap (inputs \cup outputs) = {},
         inputs \cup outputs = {} => d = drive,
         UNCHANGED <<design, option, mods, insts, phase, todo, changed, node>>,
         movedIns' = {}, movedOuts' = {}, first' \subseteq Insts
  PROVE  /\ TypeOK' /\ Functional' /\ Places' /\ NoneKept' /\ KeptPortsStay'
         /\ inputs \cup outputs # {} => Dirty'
         /\ inputs \cup outputs = {} => UNCHANGED <<ins, drive, unused, here>>
         /\ step' \notin {"next", "unused"}
<1>0. Legal /\ node \in Modules
  BY DEF IInv, Legal, TypeOK
<1>1. CASE inputs \cup outputs = {}
  <2>1. UNCHANGED <<ins, drive, unused, here>> /\ pending' = {} /\ step' = After[s]
    BY <1>1 DEF Update
  <2>2. Legal'
    BY <2>1, <1>0, SameGraph
  <2>3. step' \in {"outs", "combineOuts", "end"}
    BY <2>1 DEF After
  <2>4. TypeOK'
    BY <2>1, <2>2, <2>3, <1>0 DEF IInv, TypeOK, Legal, After, Steps
  <2>5. Places'
    BY <2>1, <2>3 DEF IInv, Places, After
  <2>6. NoneKept'
    BY DEF NoneKept
  <2> QED
    BY <1>1, <2>1, <2>2, <2>3, <2>4, <2>5, <2>6 DEF Legal
<1>2. CASE inputs \cup outputs # {}
  <2>1. /\ here' = TRUE /\ UpdateNode(node, inputs, outputs, d)
        /\ pending' = Uses(node) /\ step' \in {s, After[s]}
    BY <1>2 DEF Update, InstancesToReplace
  <2>2. Legal'
    BY <2>1, <1>0, Updating
  <2>3. step' \in {"unusedInsts", "rewireInsts", "combineInsts", "outs", "combineOuts", "end"}
    BY <2>1 DEF After
  <2>4. pending' \subseteq Instances(node)
    BY <2>1 DEF IInv, TypeOK, Uses, Instances
  <2>5. TypeOK'
    BY <2>1, <2>2, <2>3, <2>4, <1>0 DEF IInv, TypeOK, Legal, Steps, Instances
  <2>6. Places'
    BY <2>1, <2>3 DEF IInv, Places, After
  <2>7. NoneKept'
    BY DEF NoneKept
  <2>8. Dirty'
    BY <2>1, <2>3 DEF Dirty
  <2> QED
    BY <1>2, <2>2, <2>3, <2>5, <2>6, <2>7, <2>8 DEF Legal
<1> QED
  BY <1>1, <1>2

\* Nothing has gone and nothing else was going to.
LEMMA StillVisited ==
  ASSUME IInv, UNCHANGED <<option, ins, drive, unused, mods, todo, changed, here>>,
         step \notin {"next", "unused"}, step' \notin {"next", "unused"},
         movedIns = {}, movedOuts = {}
  PROVE  Visited'
<1> SUFFICES ASSUME NEW m \in mods \ todo, ~Dirty'
             PROVE  Clean(m)'
  BY DEF Visited
<1>1. Clean(m)
  BY DEF IInv, Visited, Dirty
<1> QED
  BY <1>1, StaysClean

LEMMA RemoveUnusedPortsKeeps ==
  ASSUME IInv, RemoveUnusedPorts
  PROVE  IInv'
<1> DEFINE inputs == {i \in ins[node] \ Ignored(node) : ~Used(node, Arg(i))}
           outputs == {o \in Outs(node) \ Ignored(node) :
                         Uses(node) # {} /\ \A n \in Uses(node) : ~Used(ParentOf[n], Res(n, o))}
<1>0. step = "unused" /\ movedIns = {} /\ movedOuts = {} /\ "unusedInsts" \in DOMAIN After
  BY DEF IInv, RemoveUnusedPorts, Places, After
<1>1. Rewritten(drive)
  BY DEF Rewritten, IInv, Functional
<1>2. Tagged(option.ports, node) \cap (inputs \cup outputs) = {}
  BY DEF Ignored, Tagged
<1>3. Update("unusedInsts", inputs, outputs, drive)
  BY DEF RemoveUnusedPorts
<1>4. inputs = {} => Clean(node)
  BY DEF Clean
<1> HIDE DEF inputs, outputs
<1>5. /\ TypeOK' /\ Functional' /\ Places' /\ NoneKept' /\ KeptPortsStay'
      /\ inputs \cup outputs # {} => Dirty'
      /\ inputs \cup outputs = {} => UNCHANGED <<ins, drive, unused, here>>
      /\ step' \notin {"next", "unused"}
  <2>1. first \subseteq Insts
    BY DEF IInv, TypeOK
  <2> QED
    BY <1>0, <1>1, <1>2, <1>3, <2>1, UpdateKeeps DEF RemoveUnusedPorts
<1>6. Visited'
  <2> SUFFICES ASSUME NEW m \in mods \ todo, ~Dirty'
               PROVE  Clean(m)'
    BY DEF Visited, RemoveUnusedPorts
  <2>1. UNCHANGED <<ins, drive, unused, here>> /\ inputs = {}
    BY <1>5
  <2>2. ~Dirty
    BY <2>1, <1>0, <1>5 DEF Dirty, RemoveUnusedPorts
  <2>3. Clean(m)
    BY <2>1, <2>2, <1>4 DEF IInv, Visited
  <2> QED
    BY <2>1, <2>3, StaysClean DEF RemoveUnusedPorts
<1> QED
  BY <1>5, <1>6 DEF IInv

LEMMA RewiredKeeps ==
  ASSUME IInv, Rewired
  PROVE  IInv'
<1>0. step = "moveIns" /\ "rewireInsts" \in DOMAIN After /\ Rewritten(drive)
  BY DEF Rewired, After, Rewritten, IInv, Functional
<1>1. /\ TypeOK' /\ Functional' /\ Places' /\ NoneKept' /\ KeptPortsStay'
      /\ movedIns \cup movedOuts # {} => Dirty'
      /\ movedIns \cup movedOuts = {} => UNCHANGED <<ins, drive, unused, here>>
      /\ step' \notin {"next", "unused"}
  BY <1>0, UpdateKeeps DEF Rewired, IInv, NoneKept
<1>2. CASE movedIns \cup movedOuts # {}
  BY <1>1, <1>2 DEF IInv, Visited
<1>3. CASE movedIns \cup movedOuts = {}
  BY <1>0, <1>1, <1>3, StillVisited DEF Rewired, IInv
<1> QED
  BY <1>2, <1>3

LEMMA CombineOutsKeeps ==
  ASSUME IInv, CombineOuts
  PROVE  IInv'
<1> DEFINE value == [o \in Outs(node) |-> drive[node][OutSink(o)]]
           ports == IF Uses(node) = {} THEN {} ELSE Outs(node) \ Ignored(node)
           new(v) == IF v[1] = "res" /\ v[2] \in Uses(node) /\ v[3] \in movedOuts'
                     THEN Res(v[2], Stays(ports, value, v[3])) ELSE v
<1>0. /\ Legal /\ node \in Modules /\ step = "combineOuts" /\ step' = "combineIns"
      /\ movedIns = {} /\ movedOuts = {}
  BY DEF IInv, Legal, TypeOK, CombineOuts, Places, After
<1>1. /\ movedOuts' = Twins(ports, value)
      /\ drive' = [p \in Modules |-> [s \in DOMAIN drive[p] |-> new(drive[p][s])]]
  BY DEF CombineOuts
<1>2. ports \subseteq Outs(node) \ Ignored(node)
  OBVIOUS
<1>3. \A v : movedOuts' = {} => new(v) = v
  OBVIOUS
<1> HIDE DEF ports, value, new
<1>4. movedOuts' \subseteq Outs(node) \ Ignored(node)
  BY <1>1, <1>2 DEF Twins
<1>5. Rewritten(drive')
  BY <1>0, <1>1, Mapping DEF Legal
<1>6. movedOuts' = {} => drive' = drive
  <2> SUFFICES ASSUME movedOuts' = {}
               PROVE  drive' = drive
    OBVIOUS
  <2>1. drive' = [p \in Modules |-> [s \in DOMAIN drive[p] |-> drive[p][s]]]
    BY <1>1, <1>3
  <2> QED
    BY <2>1, <1>0 DEF Legal, Functional
<1>7. Legal' /\ \A m \in Modules : Outs(m)' = Outs(m)
  BY <1>0, <1>5, Preserving DEF CombineOuts
<1>8. TypeOK'
  BY <1>0, <1>4, <1>7 DEF CombineOuts, IInv, TypeOK, Legal, After, Steps
<1>9. Places'
  BY <1>0 DEF CombineOuts, IInv, Places, After
<1>10. NoneKept'
  BY <1>0, <1>4 DEF CombineOuts, NoneKept, Ignored, Tagged
<1>11. Visited'
  <2>1. CASE movedOuts' = {}
    BY <2>1, <1>0, <1>6, StillVisited DEF CombineOuts
  <2>2. CASE movedOuts' # {}
    BY <2>2, <1>0 DEF Visited, Dirty
  <2> QED
    BY <2>1, <2>2
<1> QED
  BY <1>7, <1>8, <1>9, <1>10, <1>11 DEF IInv, Legal

LEMMA CombineInsKeeps ==
  ASSUME IInv, CombineIns
  PROVE  IInv'
<1> DEFINE value == [i \in ins[node] |-> {Operand(n, i) : n \in Uses(node)}]
           ports == IF Cardinality(Uses(node)) = 1 THEN ins[node] \ Ignored(node) ELSE {}
           twins == Twins(ports, value)
           new(v) == IF v[1] = "arg" /\ v[2] \in twins
                     THEN Arg(Stays(ports, value, v[2])) ELSE v
           d == [drive EXCEPT ![node] = [s \in DOMAIN @ |-> new(@[s])]]
<1>0. /\ Legal /\ node \in Modules /\ step = "combineIns" /\ movedIns = {}
      /\ "combineInsts" \in DOMAIN After
  BY DEF IInv, Legal, TypeOK, CombineIns, Places, After
<1>1. Update("combineInsts", twins, movedOuts, d) /\ movedOuts' = {}
  BY DEF CombineIns
<1>2. twins \subseteq ins[node] \ Ignored(node)
  BY DEF Twins
<1>3. \A v : twins = {} => new(v) = v
  OBVIOUS
<1> HIDE DEF twins, new
<1>4. d = [m \in Modules |-> IF m = node THEN [s \in DOMAIN drive[node] |-> new(drive[node][s])]
                             ELSE drive[m]]
  BY <1>0 DEF Legal, Functional
<1> HIDE DEF d
<1>5. Rewritten(d)
  <2> DEFINE b == [s \in DOMAIN drive[node] |-> new(drive[node][s])]
  <2>1. b = [s \in DOMAIN drive[node] |-> b[s]]
    OBVIOUS
  <2>2. d = [m \in Modules |-> IF m = node THEN b ELSE drive[m]]
    BY <1>4
  <2> HIDE DEF b
  <2>3. \A m \in Modules : d[m] = [s \in DOMAIN drive[m] |-> d[m][s]]
    BY <2>1, <2>2, <1>0 DEF Legal, Functional
  <2>4. d = [m \in Modules |-> d[m]]
    BY <2>2
  <2> QED
    BY <2>3, <2>4, <1>0, Mapping DEF Legal
<1>6. twins = {} => d = drive
  <2> SUFFICES ASSUME twins = {}
               PROVE  d = drive
    OBVIOUS
  <2>1. [s \in DOMAIN drive[node] |-> new(drive[node][s])] = drive[node]
    BY <1>3, <1>0 DEF Legal, Functional
  <2>2. d = [m \in Modules |-> drive[m]]
    BY <2>1, <1>4
  <2> QED
    BY <2>2, <1>0 DEF Legal, Functional
<1>7. Tagged(option.ports, node) \cap (twins \cup movedOuts) = {}
  BY <1>2 DEF Ignored, Tagged, IInv, NoneKept
<1>8. /\ TypeOK' /\ Functional' /\ Places' /\ NoneKept' /\ KeptPortsStay'
      /\ twins \cup movedOuts # {} => Dirty'
      /\ twins \cup movedOuts = {} => UNCHANGED <<ins, drive, unused, here>>
      /\ step' \notin {"next", "unused"}
  <2>1. first \subseteq Insts
    BY DEF IInv, TypeOK
  <2> QED
    BY <1>0, <1>1, <1>5, <1>6, <1>7, <2>1, UpdateKeeps DEF CombineIns
<1>9. CASE twins \cup movedOuts # {}
  BY <1>8, <1>9 DEF IInv, Visited
<1>10. CASE twins \cup movedOuts = {}
  BY <1>0, <1>8, <1>10, StillVisited DEF CombineIns, IInv
<1> QED
  BY <1>9, <1>10

LEMMA EndVisitKeeps ==
  ASSUME IInv, EndVisit
  PROVE  IInv'
<1>0. /\ Legal /\ node \in Modules /\ step = "end" /\ step' = "next"
      /\ movedIns = {} /\ movedOuts = {}
  BY DEF IInv, Legal, TypeOK, EndVisit, Places, After
<1>1. Rewritten(drive') /\ insts' \subseteq insts
  <2>1. CASE here
    BY <2>1, <1>0, Erasing DEF EndVisit, Legal
  <2>2. CASE ~here
    BY <2>2 DEF EndVisit, Rewritten, IInv, Functional
  <2> QED
    BY <2>1, <2>2
<1>2. Legal' /\ \A m \in Modules : Outs(m)' = Outs(m)
  BY <1>0, <1>1, Preserving DEF EndVisit
<1>3. TypeOK'
  BY <1>0, <1>1, <1>2 DEF EndVisit, IInv, TypeOK, Legal, After, Steps, RoundChanged
<1>4. phase = "optimize"
  BY <1>0 DEF IInv, Places
<1>5. Places'
  BY <1>0, <1>4 DEF EndVisit, Places, After
<1>6. NoneKept'
  BY <1>0 DEF EndVisit, NoneKept
<1>7. Visited'
  <2> SUFFICES ASSUME NEW m \in mods \ todo, ~Dirty'
               PROVE  Clean(m)'
    BY DEF Visited, EndVisit
  <2>1. ~changed /\ ~here
    BY DEF Dirty, EndVisit, RoundChanged
  <2>2. Clean(m)
    BY <2>1, <1>0 DEF IInv, Visited, Dirty
  <2> QED
    BY <2>1, <2>2, StaysClean DEF EndVisit
<1> QED
  BY <1>2, <1>3, <1>5, <1>6, <1>7 DEF IInv, Legal

\* A round without a change leaves every module clean.
LEMMA NextRoundKeeps ==
  ASSUME IInv, NextRound
  PROVE  IInv'
<1>0. Legal /\ step = "next" /\ movedIns = {} /\ movedOuts = {} /\ todo = {}
  BY DEF IInv, Legal, TypeOK, NextRound, Places, After
<1>1. Legal' /\ (\A m \in Modules : Outs(m)' = Outs(m)) /\ \A m : Clean(m) => Clean(m)'
  BY <1>0, SameGraph DEF NextRound, graph
<1>2. TypeOK'
  BY <1>0, <1>1 DEF NextRound, graph, visit, IInv, TypeOK, Legal, After
<1>3. Places'
  BY <1>0 DEF NextRound, visit, IInv, Places, After
<1>4. NoneKept'
  BY <1>0 DEF NextRound, visit, NoneKept
<1>5. Visited'
  <2>1. CASE changed
    BY <2>1 DEF NextRound, graph, Visited
  <2>2. CASE ~changed
    <3>1. \A m \in mods : Clean(m)
      BY <2>2, <1>0 DEF IInv, Visited, Dirty
    <3> QED
      BY <3>1, <1>1 DEF NextRound, graph, Visited
  <2> QED
    BY <2>1, <2>2
<1> QED
  BY <1>1, <1>2, <1>3, <1>4, <1>5 DEF IInv, Legal

LEMMA CleanupKeeps ==
  ASSUME IInv, (\E m \in Modules : EraseModule(m)) \/ EndCleanup
  PROVE  IInv'
<1>0. /\ Legal /\ step = "next" /\ movedIns = {} /\ movedOuts = {} /\ todo = {}
      /\ phase = "cleanup" /\ ~changed
  BY DEF IInv, Legal, TypeOK, EraseModule, EndCleanup, Places, After
<1>1. /\ mods' \subseteq mods /\ insts' \subseteq insts /\ phase' \in {"cleanup", "done"}
      /\ UNCHANGED <<design, option, ins, drive, unused, todo, changed, visit>>
  BY <1>0 DEF EraseModule, EndCleanup, graph
<1>2. Legal' /\ (\A m \in Modules : Outs(m)' = Outs(m)) /\ \A m : Clean(m) => Clean(m)'
  BY <1>0, <1>1, SameGraph
<1>3. TypeOK'
  BY <1>0, <1>1, <1>2 DEF visit, IInv, TypeOK, Legal, After
<1>4. Places'
  BY <1>0, <1>1 DEF visit, IInv, Places, After
<1>5. NoneKept'
  BY <1>0, <1>1 DEF visit, NoneKept
<1>6. Visited'
  BY <1>0, <1>1, <1>2 DEF visit, IInv, Visited, Dirty
<1> QED
  BY <1>2, <1>3, <1>4, <1>5, <1>6 DEF IInv, Legal

----------------------------------------------------------------------------
(* The theorems. *)

LEMMA Initially ==
  ASSUME Init
  PROVE  IInv
<1>1. Functional
  BY DesignsAssumption DEF Init, Functional
<1>2. KeptPortsStay
  <2> SUFFICES ASSUME NEW x \in option.ports
               PROVE  x[2] \in ins[x[1]] \cup Outs(x[1])
    BY DEF KeptPortsStay
  <2>1. x[2] \in In[x[1]] \/ OutSink(x[2]) \in DOMAIN design[x[1]]
    BY DesignsAssumption DEF Init
  <2> QED
    BY <2>1 DEF Init, Outs, OutSink
<1>3. TypeOK
  BY HierarchyAssumption DEF Init, TypeOK, Steps, After
<1>4. Places /\ NoneKept /\ Visited
  BY DEF Init, Places, NoneKept, Visited, After
<1> QED
  BY <1>1, <1>2, <1>3, <1>4 DEF IInv

LEMMA NextKeeps ==
  ASSUME IInv, [Next]_vars
  PROVE  IInv'
<1>1. CASE UNCHANGED vars
  <2>1. UNCHANGED <<design, option, mods, insts, ins, drive, unused, phase, todo, changed>>
        /\ UNCHANGED <<node, step, first, pending, movedIns, movedOuts, here>>
    BY <1>1 DEF vars, graph, visit
  <2>2. Functional' /\ Places' /\ NoneKept'
    BY <2>1 DEF IInv, Functional, Places, NoneKept, Tagged
  <2>3. Legal /\ TypeOK
    BY DEF IInv, Legal, TypeOK
  <2>4. Legal' /\ (\A m \in Modules : Outs(m)' = Outs(m)) /\ \A m : Clean(m) => Clean(m)'
    BY <2>1, <2>3, SameGraph
  <2>5. TypeOK' /\ Visited'
    BY <2>1, <2>3, <2>4 DEF IInv, TypeOK, Legal, Visited, Dirty
  <2> QED
    BY <2>2, <2>4, <2>5 DEF IInv, Legal
<1>2. CASE \E m \in Modules : Visit(m)
  BY <1>2, VisitKeeps
<1>3. CASE (\E m \in Modules : EraseModule(m)) \/ EndCleanup
  BY <1>3, CleanupKeeps
<1>4. CASE \E n \in Insts : ReplaceInst(n) \/ FindMoveableIns(n)
  BY <1>4, ReplaceInstKeeps, FindMoveableInsKeeps
<1>5. CASE \E n \in Insts, o \in movedOuts : MoveOut(n, o)
  BY <1>5, MoveOutKeeps
<1>6. CASE \E i \in movedIns : MoveIn(i)
  BY <1>6, MoveInKeeps
<1>7. CASE RemoveUnusedPorts \/ RewireModule \/ Rewired
  BY <1>7, RemoveUnusedPortsKeeps, RewireModuleKeeps, RewiredKeeps
<1>8. CASE CombineOuts \/ CombineIns
  BY <1>8, CombineOutsKeeps, CombineInsKeeps
<1>9. CASE EndVisit \/ NextRound
  BY <1>9, EndVisitKeeps, NextRoundKeeps
<1>10. CASE Finished
  BY <1>10, <1>1 DEF Finished
<1> QED
  BY <1>1, <1>2, <1>3, <1>4, <1>5, <1>6, <1>7, <1>8, <1>9, <1>10 DEF Next

\* The invariant holds in every state of the pass.
THEOREM Invariance == Spec => []IInv
<1>1. Init => IInv
  BY Initially
<1>2. IInv /\ [Next]_vars => IInv'
  BY NextKeeps
<1> QED
  BY <1>1, <1>2, PTL DEF Spec

\* What is left is part of what there was, whatever the design.
THEOREM TypeCorrect == Spec => []TypeOK
<1>1. IInv => TypeOK
  BY DEF IInv
<1> QED
  BY <1>1, Invariance, PTL

\* removeUnusedPorts, rewireModule and combinePorts never take a port away that is
\* tagged keep, whatever the design, the tags and the order of the modules: the
\* path of the co-simulated component keeps its ports.
THEOREM KeptPortsSurvive == Spec => []KeptPortsStay
<1>1. IInv => KeptPortsStay
  BY DEF IInv
<1> QED
  BY <1>1, Invariance, PTL

\* When runOnOperation leaves its loop no module has an unused input, although the
\* modules are visited in no particular order and each visit may make inputs of
\* modules unused that the round is through with.
THEOREM NoUnusedInput == Spec => []InputsUsed
<1>1. IInv => InputsUsed
  <2> SUFFICES ASSUME IInv, phase = "done", NEW m \in mods
               PROVE  Clean(m)
    BY DEF InputsUsed, Clean
  <2>1. step = "next" /\ todo = {} /\ ~changed
    BY DEF IInv, Places
  <2> QED
    BY <2>1 DEF IInv, Visited, Dirty
<1> QED
  BY <1>1, Invariance, PTL
----------------------------------------------------------------------------
(* Paths. *)

\* A set of numbers that is not empty has a least one.
LEMMA Least ==
  ASSUME NEW S \in SUBSET Nat, S # {}
  PROVE  \E l \in S : \A m \in S : l <= m
<1> DEFINE R == OpToRel(<, Nat)
<1>1. \A i, j \in Nat : <<i, j>> \in R <=> i < j
  BY DEF OpToRel
<1>2. IsWellFoundedOn(R, Nat)
  BY NatLessThanWellFounded
<1> HIDE DEF R
<1>3. PICK l \in S : \A m \in S : ~(<<m, l>> \in R)
  BY <1>2, WFMin
<1>4. \A m \in S : l \in Nat /\ m \in Nat /\ ~(m < l)
  BY <1>1, <1>3
<1> QED
  BY <1>4

\* The module above the k-th instance of p.
Above(p, k) == IF k = 1 THEN Top ELSE ModuleOf[p[k - 1]]

LEMMA PathShape ==
  ASSUME NEW p
  PROVE  p \in Paths <=> /\ p \in Seq(Insts)
                         /\ Len(p) < Cardinality(Modules)
                         /\ \A k \in 1..Len(p) : ParentOf[p[k]] = Above(p, k)
<1> DEFINE N == Cardinality(Modules)
<1>0. N \in Nat
  BY HierarchyAssumption, FS_CardinalityType
<1>1. ASSUME p \in Seq(Insts), NEW k \in 1..Len(p)
      PROVE  At(SubSeq(p, 1, k - 1)) = Above(p, k)
  <2>0. Len(p) \in Nat /\ \A j \in 1..Len(p) : p[j] \in Insts
    BY <1>1, ElementOfSeq, LenProperties
  <2>1. CASE k = 1
    <3>1. SubSeq(p, 1, k - 1) = <<>>
      BY <2>1, SubSeqEmpty
    <3> QED
      BY <3>1, <2>1 DEF At, Above
  <2>2. CASE k # 1
    <3> DEFINE q == SubSeq(p, 1, k - 1)
    <3>1. /\ q \in Seq(Insts) /\ Len(q) = k - 1
          /\ \A j \in 1..(k - 1) : q[j] = p[j]
      <4>1. \A j \in 1..(k - 1) : p[j] \in Insts
        BY <2>0
      <4>2. k - 1 \in Int /\ 1 <= k - 1
        BY <2>0, <2>2
      <4>3. /\ q \in Seq(Insts) /\ Len(q) = (k - 1) - 1 + 1
            /\ \A j \in 1..((k - 1) - 1 + 1) : q[j] = p[1 + j - 1]
        BY <4>1, <4>2, SubSeqProperties
      <4> QED
        BY <4>3, <4>2
    <3>2. q # <<>>
      BY <3>1, <2>2, <2>0
    <3>3. q[k - 1] = p[k - 1]
      BY <3>1, <2>2, <2>0
    <3> HIDE DEF q
    <3>4. At(q) = ModuleOf[p[k - 1]]
      BY <3>1, <3>2, <3>3 DEF At
    <3> QED
      BY <3>4, <2>2 DEF Above, q
  <2> QED
    BY <2>1, <2>2
<1>2. ASSUME p \in Paths
      PROVE  /\ p \in Seq(Insts) /\ Len(p) < N
             /\ \A k \in 1..Len(p) : ParentOf[p[k]] = At(SubSeq(p, 1, k - 1))
  <2>1. PICK k \in 0..(N - 1) : p \in [1..k -> Insts]
    BY <1>2 DEF Paths
  <2>2. p \in Seq(Insts) /\ Len(p) = k
    BY <2>1, <1>0
  <2> QED
    BY <2>1, <2>2, <1>0, <1>2 DEF Paths
<1>3. ASSUME p \in Seq(Insts), Len(p) < N,
             \A k \in 1..Len(p) : ParentOf[p[k]] = At(SubSeq(p, 1, k - 1))
      PROVE  p \in Paths
  <2>1. Len(p) \in 0..(N - 1) /\ p \in [1..Len(p) -> Insts]
    BY <1>3, <1>0, LenProperties
  <2>2. \A k \in 1..Len(p) : p[k] \in Insts
    BY <2>1
  <2> QED
    BY <1>3, <2>1, <2>2 DEF Paths
<1> QED
  BY <1>1, <1>2, <1>3

\* No instance is one of the module it is in.
LEMMA NotSelf ==
  ASSUME NEW n \in Insts
  PROVE  ParentOf[n] # ModuleOf[n]
<1> SUFFICES ASSUME ParentOf[n] = ModuleOf[n]
             PROVE  FALSE
  OBVIOUS
<1>1. {ParentOf[n]} \in SUBSET Modules
  BY HierarchyAssumption
<1>2. \A m \in {ParentOf[n]} : \E k \in Instances(m) : ParentOf[k] \in {ParentOf[n]}
  BY DEF Instances
<1> QED
  BY <1>1, <1>2, HierarchyAssumption

\* One level further down.
LEMMA Below ==
  ASSUME NEW q \in Paths, NEW n \in Insts, ParentOf[n] = At(q)
  PROVE  /\ Append(q, n) \in Paths /\ Append(q, n) # <<>>
         /\ At(Append(q, n)) = ModuleOf[n]
         /\ Parent(Append(q, n)) = q /\ Append(q, n)[Len(Append(q, n))] = n
         /\ Append(q, n) # q
<1> DEFINE r == Append(q, n)
           N == Cardinality(Modules)
<1>0. N \in Nat /\ q \in Seq(Insts) /\ Len(q) \in Nat /\ Len(q) < N
      /\ \A k \in 1..Len(q) : ParentOf[q[k]] = Above(q, k) /\ q[k] \in Insts
  BY HierarchyAssumption, FS_CardinalityType, PathShape, ElementOfSeq, LenProperties
<1>1. /\ r \in Seq(Insts) /\ Len(r) = Len(q) + 1
      /\ \A k \in 1..Len(q) : r[k] = q[k]
      /\ r[Len(q) + 1] = n
  BY <1>0
<1>2. r # <<>> /\ r # q
  BY <1>0, <1>1
<1>3. At(r) = ModuleOf[n] /\ r[Len(r)] = n
  BY <1>1, <1>2 DEF At
<1>4. Parent(r) = q
  <2>1. Parent(r) = SubSeq(r, 1, Len(q))
    BY <1>0, <1>1 DEF Parent
  <2> HIDE DEF r
  <2>2. \A k \in 1..Len(q) : r[k] \in Insts
    BY <1>0, <1>1
  <2>3. /\ SubSeq(r, 1, Len(q)) \in Seq(Insts)
        /\ Len(SubSeq(r, 1, Len(q))) = IF 1 <= Len(q) THEN Len(q) - 1 + 1 ELSE 0
        /\ \A k \in 1..(Len(q) - 1 + 1) : SubSeq(r, 1, Len(q))[k] = r[1 + k - 1]
    BY <1>0, <2>2, SubSeqProperties
  <2>4. /\ Len(SubSeq(r, 1, Len(q))) = Len(q)
        /\ \A k \in 1..Len(q) : SubSeq(r, 1, Len(q))[k] = q[k]
    BY <2>3, <1>0, <1>1
  <2>5. SubSeq(r, 1, Len(q)) = q
    BY <2>3, <2>4, <1>0, SeqEqual
  <2> QED
    BY <2>1, <2>5
<1>5. \A k \in 1..Len(r) : ParentOf[r[k]] = Above(r, k)
  <2> SUFFICES ASSUME NEW k \in 1..Len(r)
               PROVE  ParentOf[r[k]] = Above(r, k)
    OBVIOUS
  <2> HIDE DEF r
  <2>1. CASE k \in 1..Len(q)
    <3>1. Above(r, k) = Above(q, k)
      BY <2>1, <1>0, <1>1 DEF Above
    <3> QED
      BY <2>1, <3>1, <1>0, <1>1
  <2>2. CASE k = Len(q) + 1
    <3>1. Above(r, k) = At(q)
      <4>1. CASE q = <<>>
        BY <4>1, <2>2 DEF Above, At
      <4>2. CASE q # <<>>
        <5>1. Len(q) # 0
          BY <4>2, <1>0, EmptySeq
        <5>2. k # 1 /\ k - 1 = Len(q) /\ r[k - 1] = q[Len(q)]
          BY <5>1, <2>2, <1>0, <1>1
        <5> QED
          BY <4>2, <5>2 DEF Above, At
      <4> QED
        BY <4>1, <4>2
    <3> QED
      BY <3>1, <2>2, <1>1
  <2> QED
    BY <2>1, <2>2, <1>0, <1>1
<1>6. Len(r) < N
  <2> SUFFICES ASSUME ~(Len(r) < N)
               PROVE  FALSE
    OBVIOUS
  <2> DEFINE f == [k \in 0..Len(r) |-> IF k = 0 THEN Top ELSE ModuleOf[r[k]]]
  <2> HIDE DEF r
  <2>0. \A k \in 1..Len(r) : r[k] \in Insts
    BY <1>1, ElementOfSeq
  <2>1. f \in [0..Len(r) -> Modules]
    BY <2>0, HierarchyAssumption
  <2>2. IsFiniteSet(0..Len(r)) /\ Cardinality(0..Len(r)) = Len(r) + 1
    <3>1. 0 \in Int /\ Len(r) \in Int /\ ~(0 > Len(r)) /\ Len(r) - 0 + 1 = Len(r) + 1
      BY <1>0, <1>1
    <3> QED
      BY <3>1, FS_Interval
  <2>3. Cardinality(Modules) < Cardinality(0..Len(r))
    BY <2>2, <1>0, <1>1
  <2>4. \E x, y \in 0..Len(r) : x # y /\ f[x] = f[y]
    BY <2>1, <2>2, <2>3, HierarchyAssumption, FS_PigeonHole
  <2>5. PICK a \in 0..Len(r), b \in 0..Len(r) : a < b /\ f[a] = f[b]
    BY <2>4, <1>0, <1>1
  <2>6. \A k \in 1..Len(r) : ParentOf[r[k]] = f[k - 1]
    BY <1>5, <1>0, <1>1 DEF Above
  <2>7. \A k \in 1..Len(r) : r[k] \in Instances(f[k])
    BY <2>0 DEF Instances
  <2> HIDE DEF f
  <2> DEFINE S == {f[k] : k \in (a + 1)..b}
  <2>8. S \in SUBSET Modules /\ S # {}
    <3>1. (a + 1)..b \subseteq 0..Len(r) /\ b \in (a + 1)..b
      BY <2>5, <1>0, <1>1
    <3> QED
      BY <3>1, <2>1
  <2>9. \A m \in S : \E k \in Instances(m) : ParentOf[k] \in S
    <3> SUFFICES ASSUME NEW k \in (a + 1)..b
                 PROVE  \E j \in Instances(f[k]) : ParentOf[j] \in S
      OBVIOUS
    <3>1. k \in 1..Len(r) /\ r[k] \in Instances(f[k]) /\ ParentOf[r[k]] = f[k - 1]
      BY <2>6, <2>7, <1>0, <1>1
    <3>2. f[k - 1] \in S
      <4>1. CASE k = a + 1
        BY <4>1, <2>5
      <4>2. CASE k # a + 1
        BY <4>2
      <4> QED
        BY <4>1, <4>2
    <3> QED
      BY <3>1, <3>2
  <2> HIDE DEF S
  <2> QED
    BY <2>8, <2>9, HierarchyAssumption
<1>7. r \in Paths
  BY <1>1, <1>5, <1>6, PathShape
<1> QED
  BY <1>2, <1>3, <1>4, <1>7

\* Every path but the empty one has a last instance.
LEMMA Last ==
  ASSUME NEW p \in Paths, p # <<>>
  PROVE  \E q \in Paths, n \in Insts : ParentOf[n] = At(q) /\ p = Append(q, n)
<1> DEFINE N == Cardinality(Modules)
           L == Len(p)
           q == SubSeq(p, 1, L - 1)
<1>0. N \in Nat /\ p \in Seq(Insts) /\ L \in Nat /\ L # 0 /\ L < N
      /\ \A k \in 1..L : ParentOf[p[k]] = Above(p, k) /\ p[k] \in Insts
  BY HierarchyAssumption, FS_CardinalityType, PathShape, ElementOfSeq, LenProperties, EmptySeq
<1>1. q \in Seq(Insts) /\ Len(q) = L - 1 /\ \A k \in 1..(L - 1) : q[k] = p[k]
  <2>1. \A k \in 1..(L - 1) : p[k] \in Insts
    BY <1>0
  <2>2. L - 1 \in Int /\ 1 \in Int
    BY <1>0
  <2>3. /\ q \in Seq(Insts) /\ Len(q) = IF 1 <= L - 1 THEN (L - 1) - 1 + 1 ELSE 0
        /\ \A k \in 1..((L - 1) - 1 + 1) : q[k] = p[1 + k - 1]
    BY <2>1, <2>2, SubSeqProperties
  <2> HIDE DEF q, L
  <2>4. (L - 1) - 1 + 1 = L - 1 /\ Len(q) = L - 1
    BY <2>3, <1>0
  <2>5. \A k \in 1..(L - 1) : 1 + k - 1 = k
    BY <1>0
  <2> QED
    BY <2>3, <2>4, <2>5
<1> HIDE DEF q
<1>2. \A k \in 1..Len(q) : ParentOf[q[k]] = Above(q, k)
  BY <1>0, <1>1 DEF Above
<1>3. q \in Paths
  BY <1>0, <1>1, <1>2, PathShape
<1>4. ParentOf[p[L]] = At(q)
  <2>1. CASE L = 1
    <3>1. q = <<>>
      BY <2>1, <1>1, EmptySeq
    <3> QED
      BY <2>1, <3>1, <1>0 DEF Above, At
  <2>2. CASE L # 1
    <3>1. q # <<>> /\ q[Len(q)] = p[L - 1]
      BY <2>2, <1>0, <1>1, EmptySeq
    <3>2. At(q) = ModuleOf[p[L - 1]]
      BY <3>1 DEF At
    <3>3. L \in 1..L
      BY <1>0
    <3>4. ParentOf[p[L]] = Above(p, L)
      BY <3>3, <1>0
    <3> QED
      BY <2>2, <3>2, <3>4 DEF Above
  <2> QED
    BY <2>1, <2>2
<1>5. p = Append(q, p[L])
  <2> DEFINE r == Append(q, p[L])
  <2>1. /\ r \in Seq(Insts) /\ Len(r) = L
        /\ \A k \in 1..L : r[k] = p[k]
    BY <1>0, <1>1
  <2> HIDE DEF r
  <2>2. p = r
    BY <2>1, <1>0, SeqEqual
  <2> QED
    BY <2>2 DEF r
<1> QED
  BY <1>0, <1>3, <1>4, <1>5

\* The way down tells where it went.
LEMMA Apart ==
  ASSUME NEW q \in Paths, NEW n \in Insts, ParentOf[n] = At(q),
         NEW r \in Paths, NEW k \in Insts, ParentOf[k] = At(r), Append(q, n) = Append(r, k)
  PROVE  q = r /\ n = k
<1>1. Parent(Append(q, n)) = q /\ Append(q, n)[Len(Append(q, n))] = n
  BY Below
<1>2. Parent(Append(r, k)) = r /\ Append(r, k)[Len(Append(r, k))] = k
  BY Below
<1> QED
  BY <1>1, <1>2

LEMMA Root ==
  /\ <<>> \in Paths /\ At(<<>>) = Top
  /\ \A p \in Paths : At(p) \in Modules
<1>1. Cardinality(Modules) \in Nat /\ Cardinality(Modules) # 0
  BY HierarchyAssumption, FS_CardinalityType, FS_EmptySet
<1>2. <<>> \in Seq(Insts) /\ Len(<<>>) = 0
  BY EmptySeq
<1>3. <<>> \in Paths
  <2> DEFINE e == <<>>
  <2>1. e \in Seq(Insts) /\ Len(e) < Cardinality(Modules) /\ 1..Len(e) = {}
    BY <1>1, <1>2
  <2> HIDE DEF e
  <2>2. e \in Paths
    BY <2>1, PathShape
  <2> QED
    BY <2>2 DEF e
<1>4. At(<<>>) = Top
  BY DEF At
<1>5. ASSUME NEW p \in Paths, p # <<>>
      PROVE  At(p) \in Modules
  <2>1. PICK q \in Paths, n \in Insts : ParentOf[n] = At(q) /\ p = Append(q, n)
    BY <1>5, Last
  <2>2. At(p) = ModuleOf[n]
    BY <2>1, Below
  <2> QED
    BY <2>2, HierarchyAssumption
<1> QED
  BY <1>3, <1>4, <1>5, HierarchyAssumption
----------------------------------------------------------------------------
(* Ways. *)

\* What holds of 0 and of the next number holds of all.
LEMMA Upwards ==
  ASSUME NEW N \in Nat, NEW S, 0 \in S, \A k \in 0..(N - 1) : k \in S => k + 1 \in S
  PROVE  \A k \in 0..N : k \in S
<1> DEFINE B == {k \in 0..N : k \notin S}
<1> SUFFICES ASSUME B # {}
             PROVE  FALSE
  OBVIOUS
<1>1. B \in SUBSET Nat
  OBVIOUS
<1>2. PICK l \in B : \A m \in B : l <= m
  BY <1>1, Least
<1>3. l \in 0..N /\ l \notin S /\ l # 0
  BY <1>2
<1>4. l - 1 \in 0..(N - 1) /\ l - 1 \in 0..N /\ ~(l <= l - 1) /\ (l - 1) + 1 = l
  BY <1>3
<1>5. l - 1 \in S
  BY <1>2, <1>4
<1> QED
  BY <1>3, <1>4, <1>5

LEMMA WayDef ==
  ASSUME NEW d, NEW left, NEW x
  PROVE  Way(d, left, x) =
           [k \in 0..Hops |-> IF k = 0 THEN x ELSE Hop(d, left, Way(d, left, x)[k - 1])]
<1> DEFINE E(f, n) == f = [k \in 0..n |-> IF k = 0 THEN x ELSE Hop(d, left, f[k - 1])]
           S == {n \in Nat : \E f : E(f, n)}
<1>0. Hops \in Nat
  BY HierarchyAssumption
<1>1. 0 \in S
  <2> DEFINE f == [k \in 0..0 |-> x]
  <2>1. f = [k \in 0..0 |-> IF k = 0 THEN x ELSE Hop(d, left, f[k - 1])]
    OBVIOUS
  <2> QED
    BY <2>1
<1>2. ASSUME NEW n \in 0..(Hops - 1), n \in S
      PROVE  n + 1 \in S
  <2>1. PICK f : E(f, n)
    BY <1>2
  <2> DEFINE g == [k \in 0..(n + 1) |-> IF k <= n THEN f[k] ELSE Hop(d, left, f[n])]
             h == [k \in 0..(n + 1) |-> IF k = 0 THEN x ELSE Hop(d, left, g[k - 1])]
  <2>2. ASSUME NEW k \in 0..(n + 1)
        PROVE  g[k] = IF k = 0 THEN x ELSE Hop(d, left, g[k - 1])
    <3>1. CASE k = 0
      BY <3>1, <2>1, <1>0
    <3>2. CASE k # 0 /\ k <= n
      <4>1. k \in 0..n /\ k - 1 \in 0..(n + 1) /\ k - 1 <= n
        BY <3>2, <1>0
      <4>2. g[k] = f[k] /\ g[k - 1] = f[k - 1]
        BY <3>2, <4>1
      <4>3. f[k] = Hop(d, left, f[k - 1])
        BY <3>2, <4>1, <2>1
      <4> QED
        BY <3>2, <4>2, <4>3
    <3>3. CASE k = n + 1
      <4>1. k # 0 /\ ~(k <= n) /\ k - 1 = n /\ n \in 0..(n + 1) /\ n <= n
        BY <3>3, <1>0
      <4>2. g[k] = Hop(d, left, f[n]) /\ g[k - 1] = f[n]
        BY <4>1
      <4> QED
        BY <4>1, <4>2
    <3> QED
      BY <3>1, <3>2, <3>3, <1>0
  <2>3. g = h
    <3>1. \A k \in 0..(n + 1) : g[k] = h[k]
      BY <2>2
    <3> QED
      BY <3>1
  <2>4. E(g, n + 1)
    BY <2>3
  <2>5. n + 1 \in Nat
    BY <1>0
  <2> HIDE DEF g, h, E
  <2> QED
    BY <2>4, <2>5
<1>3. Hops \in S
  <2> HIDE DEF S
  <2>1. \A k \in 0..Hops : k \in S
    BY <1>0, <1>1, <1>2, Upwards
  <2> QED
    BY <2>1, <1>0
<1>4. \E f : E(f, Hops)
  BY <1>3
<1>5. Way(d, left, x) = CHOOSE f : E(f, Hops)
  BY DEF Way
<1> HIDE DEF E
<1>6. E(Way(d, left, x), Hops)
  BY <1>4, <1>5
<1> QED
  BY <1>6 DEF E

LEMMA WaySteps ==
  ASSUME NEW d, NEW left, NEW x
  PROVE  /\ Way(d, left, x)[0] = x
         /\ \A k \in 0..(Hops - 1) : Way(d, left, x)[k + 1] = Hop(d, left, Way(d, left, x)[k])
<1> DEFINE w == Way(d, left, x)
<1>0. Hops \in Nat
  BY HierarchyAssumption
<1>1. w = [k \in 0..Hops |-> IF k = 0 THEN x ELSE Hop(d, left, w[k - 1])]
  BY WayDef
<1> HIDE DEF w
<1>2. w[0] = x
  BY <1>0, <1>1
<1>3. ASSUME NEW k \in 0..(Hops - 1)
      PROVE  w[k + 1] = Hop(d, left, w[k])
  <2>1. k + 1 \in 0..Hops /\ k + 1 # 0 /\ (k + 1) - 1 = k
    BY <1>0
  <2>2. w[k + 1] = Hop(d, left, w[(k + 1) - 1])
    BY <1>1, <2>1
  <2> QED
    BY <2>1, <2>2
<1> QED
  BY <1>2, <1>3 DEF w

\* A way from the second point on is the way from there.
LEMMA WayOn ==
  ASSUME NEW d, NEW left, NEW x
  PROVE  \A k \in 0..Hops : Way(d, left, Hop(d, left, x))[k] = Hop(d, left, Way(d, left, x)[k])
<1> DEFINE w == Way(d, left, x)
           z == Way(d, left, Hop(d, left, x))
           S == {k \in 0..Hops : z[k] = Hop(d, left, w[k])}
<1>0. Hops \in Nat
  BY HierarchyAssumption
<1>1. 0 \in S
  <2>1. w[0] = x /\ z[0] = Hop(d, left, x)
    BY WaySteps
  <2> QED
    BY <1>0, <2>1
<1>2. ASSUME NEW k \in 0..(Hops - 1), k \in S
      PROVE  k + 1 \in S
  <2>1. w[k + 1] = Hop(d, left, w[k]) /\ z[k + 1] = Hop(d, left, z[k])
    BY WaySteps
  <2>2. k + 1 \in 0..Hops
    BY <1>0
  <2> HIDE DEF w, z
  <2> QED
    BY <1>2, <2>1, <2>2
<1> HIDE DEF S
<1>3. \A k \in 0..Hops : k \in S
  BY <1>0, <1>1, <1>2, Upwards
<1> QED
  BY <1>3 DEF S

\* A point that drives itself is where its way ends.
LEMMA WayStays ==
  ASSUME NEW d, NEW left, NEW x, Hop(d, left, x) = x
  PROVE  \A k \in 0..Hops : Way(d, left, x)[k] = x
<1> DEFINE w == Way(d, left, x)
           S == {k \in 0..Hops : w[k] = x}
<1>0. Hops \in Nat
  BY HierarchyAssumption
<1>1. 0 \in S
  BY <1>0, WaySteps
<1>2. ASSUME NEW k \in 0..(Hops - 1), k \in S
      PROVE  k + 1 \in S
  <2>1. w[k + 1] = Hop(d, left, w[k])
    BY WaySteps
  <2>2. k + 1 \in 0..Hops
    BY <1>0
  <2> HIDE DEF w
  <2> QED
    BY <1>2, <2>1, <2>2
<1> HIDE DEF S
<1>3. \A k \in 0..Hops : k \in S
  BY <1>0, <1>1, <1>2, Upwards
<1> QED
  BY <1>3 DEF S

\* What a hop does.
LEMMA Hopping ==
  ASSUME NEW d, NEW left, NEW p, NEW v
  PROVE  /\ v[1] \notin {"arg", "res", "reg"} => Hop(d, left, <<p, v>>) = <<p, v>>
         /\ v[1] = "reg" /\ v \in DOMAIN d[At(p)] => Hop(d, left, <<p, v>>) = <<p, v>>
         /\ v[1] = "arg" /\ p = <<>> => Hop(d, left, <<p, v>>) = <<p, v>>
         /\ v[1] = "arg" /\ p # <<>> /\ OpdSink(p[Len(p)], v[2]) \in DOMAIN d[At(Parent(p))] =>
              Hop(d, left, <<p, v>>) = <<Parent(p), d[At(Parent(p))][OpdSink(p[Len(p)], v[2])]>>
         /\ v[1] = "res" /\ v[2] \in left /\ OutSink(v[3]) \in DOMAIN d[At(Append(p, v[2]))] =>
              Hop(d, left, <<p, v>>)
                = <<Append(p, v[2]), d[At(Append(p, v[2]))][OutSink(v[3])]>>
<1>1. <<p, v>>[1] = p /\ <<p, v>>[2] = v
  OBVIOUS
<1>2. ASSUME v[1] \notin {"arg", "res", "reg"}
      PROVE  Hop(d, left, <<p, v>>) = <<p, v>>
  BY <1>1, <1>2 DEF Hop
<1>3. ASSUME v[1] = "reg", v \in DOMAIN d[At(p)]
      PROVE  Hop(d, left, <<p, v>>) = <<p, v>>
  BY <1>1, <1>3 DEF Hop
<1>4. ASSUME v[1] = "arg", p = <<>>
      PROVE  Hop(d, left, <<p, v>>) = <<p, v>>
  BY <1>1, <1>4 DEF Hop
<1>5. ASSUME v[1] = "arg", p # <<>>, OpdSink(p[Len(p)], v[2]) \in DOMAIN d[At(Parent(p))]
      PROVE  Hop(d, left, <<p, v>>) = <<Parent(p), d[At(Parent(p))][OpdSink(p[Len(p)], v[2])]>>
  BY <1>1, <1>5 DEF Hop
<1>6. ASSUME v[1] = "res", v[2] \in left, OutSink(v[3]) \in DOMAIN d[At(Append(p, v[2]))]
      PROVE  Hop(d, left, <<p, v>>)
               = <<Append(p, v[2]), d[At(Append(p, v[2]))][OutSink(v[3])]>>
  BY <1>1, <1>6 DEF Hop
<1> QED
  BY <1>2, <1>3, <1>4, <1>5, <1>6

\* From the module into the instance, and back out.
LEMMA HopDown ==
  ASSUME NEW q \in Paths, NEW n \in Insts, n \in insts, ParentOf[n] = At(q),
         NEW o, OutSink(o) \in DOMAIN drive[ModuleOf[n]]
  PROVE  Hop(drive, insts, <<q, Res(n, o)>>) = <<Append(q, n), drive[ModuleOf[n]][OutSink(o)]>>
<1>1. At(Append(q, n)) = ModuleOf[n]
  BY Below
<1>2. Res(n, o)[1] = "res" /\ Res(n, o)[2] = n /\ Res(n, o)[3] = o
  BY DEF Res
<1> QED
  BY <1>1, <1>2, Hopping

LEMMA HopInto ==
  ASSUME NEW d, NEW q \in Paths, NEW n \in Insts, ParentOf[n] = At(q),
         NEW o, OutSink(o) \in DOMAIN d[ModuleOf[n]]
  PROVE  Hop(d, Insts, <<q, Res(n, o)>>) = <<Append(q, n), d[ModuleOf[n]][OutSink(o)]>>
<1>1. At(Append(q, n)) = ModuleOf[n]
  BY Below
<1>2. Res(n, o)[1] = "res" /\ Res(n, o)[2] = n /\ Res(n, o)[3] = o
  BY DEF Res
<1> QED
  BY <1>1, <1>2, Hopping

LEMMA HopUp ==
  ASSUME NEW d, NEW q \in Paths, NEW n \in Insts, ParentOf[n] = At(q),
         NEW i, OpdSink(n, i) \in DOMAIN d[At(q)]
  PROVE  Hop(d, Insts, <<Append(q, n), Arg(i)>>) = <<q, d[At(q)][OpdSink(n, i)]>>
<1> DEFINE p == Append(q, n)
<1>1. p # <<>> /\ Parent(p) = q /\ p[Len(p)] = n
  BY Below
<1>2. Arg(i)[1] = "arg" /\ Arg(i)[2] = i
  BY DEF Arg
<1> HIDE DEF p
<1>3. Hop(d, Insts, <<p, Arg(i)>>) = <<q, d[At(q)][OpdSink(n, i)]>>
  BY <1>1, <1>2, Hopping
<1> QED
  BY <1>3 DEF p

LEMMA HopOut ==
  ASSUME NEW q \in Paths, NEW n \in Insts, ParentOf[n] = At(q),
         NEW i, OpdSink(n, i) \in DOMAIN drive[At(q)]
  PROVE  Hop(drive, insts, <<Append(q, n), Arg(i)>>) = <<q, drive[At(q)][OpdSink(n, i)]>>
<1> DEFINE p == Append(q, n)
<1>1. p # <<>> /\ Parent(p) = q /\ p[Len(p)] = n
  BY Below
<1>2. Arg(i)[1] = "arg" /\ Arg(i)[2] = i
  BY DEF Arg
<1> HIDE DEF p
<1>3. Hop(drive, insts, <<p, Arg(i)>>) = <<q, drive[At(q)][OpdSink(n, i)]>>
  BY <1>1, <1>2, Hopping
<1> QED
  BY <1>3 DEF p
----------------------------------------------------------------------------
(* What drives a value in the design the pass starts from, and how far away it *)
(* is: the number of hops, and the paths on the way.                            *)

Label(d, p, v) == Source(d, Insts, Hop(d, Insts, <<p, v>>))

Ended(d, x, k) == Way(d, Insts, x)[k] = Hop(d, Insts, Way(d, Insts, x)[k])

Nearest(d, x, k) == Ended(d, x, k) /\ \A j \in 0..Hops : Ended(d, x, j) => k <= j

Rank(d, x) == CHOOSE k : k \in 0..Hops /\ Nearest(d, x, k)

Via(d, x) == {Way(d, Insts, x)[k][1] : k \in 0..Hops}

Cost(d, p, s) ==
  [rank |-> Rank(d, <<p, d[At(p)][s]>>), via |-> Via(d, <<p, d[At(p)][s]>>)]

Under(a, b) == {a.rank, b.rank} \subseteq Nat /\ a.rank < b.rank /\ a.via \subseteq b.via
AtMost(a, b) == {a.rank, b.rank} \subseteq Nat /\ a.rank <= b.rank /\ a.via \subseteq b.via

LEMMA Ends ==
  ASSUME NEW d, NoWireLoop(d), NEW p \in Paths, NEW s \in DOMAIN d[At(p)]
  PROVE  Ended(d, <<p, d[At(p)][s]>>, Hops)
BY DEF NoWireLoop, Ended

LEMMA RankLeast ==
  ASSUME NEW d, NEW x, Ended(d, x, Hops)
  PROVE  /\ Rank(d, x) \in 0..Hops /\ Ended(d, x, Rank(d, x))
         /\ \A j \in 0..Hops : Ended(d, x, j) => Rank(d, x) <= j
<1> DEFINE S == {k \in 0..Hops : Ended(d, x, k)}
<1>0. Hops \in Nat
  BY HierarchyAssumption
<1>1. S \in SUBSET Nat /\ Hops \in S
  BY <1>0
<1>2. PICK l \in S : \A m \in S : l <= m
  BY <1>1, Least
<1>3. \E k \in 0..Hops : Nearest(d, x, k)
  BY <1>2 DEF Nearest
<1>4. Rank(d, x) \in 0..Hops /\ Nearest(d, x, Rank(d, x))
  <2> DEFINE R(k) == k \in 0..Hops /\ Nearest(d, x, k)
  <2>1. \E k : R(k)
    BY <1>3
  <2>2. Rank(d, x) = CHOOSE k : R(k)
    BY Zenon DEF Rank
  <2> HIDE DEF R
  <2>3. R(CHOOSE k : R(k))
    BY <2>1, Zenon
  <2> QED
    BY <2>2, <2>3 DEF R
<1> QED
  BY <1>4 DEF Nearest

LEMMA LabelSame ==
  ASSUME NEW d, NoWireLoop(d), NEW p \in Paths, NEW s \in DOMAIN d[At(p)]
  PROVE  Label(d, p, d[At(p)][s]) = Source(d, Insts, <<p, d[At(p)][s]>>)
<1> DEFINE x == <<p, d[At(p)][s]>>
<1>0. Hops \in 0..Hops
  BY HierarchyAssumption
<1>1. Ended(d, x, Hops)
  BY Ends
<1> HIDE DEF x
<1>2. Way(d, Insts, Hop(d, Insts, x))[Hops] = Way(d, Insts, x)[Hops]
  BY <1>0, <1>1, WayOn DEF Ended
<1>3. Source(d, Insts, Hop(d, Insts, x)) = Source(d, Insts, x)
  BY <1>2 DEF Source
<1> QED
  BY <1>3 DEF Label, x

LEMMA LabelDown ==
  ASSUME NEW d, NoWireLoop(d), NEW q \in Paths, NEW n \in Insts, ParentOf[n] = At(q),
         NEW o, OutSink(o) \in DOMAIN d[ModuleOf[n]]
  PROVE  Label(d, q, Res(n, o)) = Label(d, Append(q, n), d[ModuleOf[n]][OutSink(o)])
<1>1. Append(q, n) \in Paths /\ At(Append(q, n)) = ModuleOf[n]
  BY Below
<1>2. Label(d, q, Res(n, o)) = Source(d, Insts, <<Append(q, n), d[ModuleOf[n]][OutSink(o)]>>)
  BY HopInto DEF Label
<1> QED
  BY <1>1, <1>2, LabelSame

LEMMA LabelUp ==
  ASSUME NEW d, NoWireLoop(d), NEW q \in Paths, NEW n \in Insts, ParentOf[n] = At(q),
         NEW i, OpdSink(n, i) \in DOMAIN d[At(q)]
  PROVE  Label(d, Append(q, n), Arg(i)) = Label(d, q, d[At(q)][OpdSink(n, i)])
<1>1. Label(d, Append(q, n), Arg(i)) = Source(d, Insts, <<q, d[At(q)][OpdSink(n, i)]>>)
  BY HopUp DEF Label
<1> QED
  BY <1>1, LabelSame

\* The ends of ways.
LEMMA LabelEnds ==
  ASSUME NEW d, NEW p, NEW v
  PROVE  /\ v[1] = "const" => Label(d, p, v) = <<<<>>, v>>
         /\ v[1] = "reg" /\ v \in DOMAIN d[At(p)] => Label(d, p, v) = <<p, v>>
         /\ v[1] = "arg" /\ p = <<>> => Label(d, p, v) = <<p, v>>
<1> DEFINE x == <<p, v>>
<1>0. Hops \in 0..Hops /\ x[1] = p /\ x[2] = v
  BY HierarchyAssumption
<1>1. ASSUME Hop(d, Insts, x) = x
      PROVE  Label(d, p, v) = IF v[1] = "const" THEN <<<<>>, v>> ELSE x
  <2>1. Way(d, Insts, x)[Hops] = x
    BY <1>0, <1>1, WayStays
  <2>2. Label(d, p, v) = Source(d, Insts, x)
    BY <1>1 DEF Label
  <2> HIDE DEF x
  <2> QED
    BY <1>0, <2>1, <2>2 DEF Source
<1> HIDE DEF x
<1>2. ASSUME v[1] = "const"
      PROVE  Label(d, p, v) = <<<<>>, v>>
  BY <1>2, <1>1, Hopping DEF x
<1>3. ASSUME v[1] = "reg", v \in DOMAIN d[At(p)]
      PROVE  Label(d, p, v) = <<p, v>>
  BY <1>3, <1>1, Hopping DEF x
<1>4. ASSUME v[1] = "arg", p = <<>>
      PROVE  Label(d, p, v) = <<p, v>>
  BY <1>4, <1>1, Hopping DEF x
<1> QED
  BY <1>2, <1>3, <1>4

\* The point behind another one is nearer to the end.
LEMMA RankDown ==
  ASSUME NEW d, NEW x, Ended(d, x, Hops), Hop(d, Insts, x) # x
  PROVE  /\ Rank(d, Hop(d, Insts, x)) < Rank(d, x)
         /\ Via(d, Hop(d, Insts, x)) \subseteq Via(d, x)
<1> DEFINE y == Hop(d, Insts, x)
           w == Way(d, Insts, x)
           z == Way(d, Insts, y)
<1>0. Hops \in Nat
  BY HierarchyAssumption
<1>1. w[0] = x /\ \A k \in 0..(Hops - 1) : w[k + 1] = Hop(d, Insts, w[k])
  BY WaySteps
<1>2. \A k \in 0..Hops : z[k] = Hop(d, Insts, w[k])
  BY WayOn
<1>3. /\ Rank(d, x) \in 0..Hops /\ Ended(d, x, Rank(d, x))
  BY RankLeast
<1>4. Rank(d, x) # 0
  BY <1>1, <1>3 DEF Ended
<1> HIDE DEF y
<1>5. Ended(d, y, Hops)
  <2>1. Hops \in 0..Hops
    BY <1>0
  <2>2. z[Hops] = Hop(d, Insts, w[Hops]) /\ w[Hops] = Hop(d, Insts, w[Hops])
    BY <1>2, <2>1 DEF Ended
  <2> HIDE DEF w, z
  <2>3. z[Hops] = Hop(d, Insts, z[Hops])
    BY <2>2
  <2> QED
    BY <2>3 DEF Ended, z
<1>6. Ended(d, y, Rank(d, x) - 1)
  <2> DEFINE r == Rank(d, x)
  <2> HIDE DEF r
  <2>1. r - 1 \in 0..(Hops - 1) /\ r - 1 \in 0..Hops /\ (r - 1) + 1 = r
    BY <1>0, <1>3, <1>4 DEF r
  <2>2. w[r] = Hop(d, Insts, w[r - 1]) /\ z[r - 1] = Hop(d, Insts, w[r - 1])
    BY <1>1, <1>2, <2>1
  <2>3. w[r] = Hop(d, Insts, w[r])
    BY <1>3 DEF Ended, r
  <2> HIDE DEF w, z
  <2>4. z[r - 1] = Hop(d, Insts, z[r - 1])
    BY <2>2, <2>3
  <2> QED
    BY <2>4 DEF Ended, z, r
<1>7. Rank(d, y) < Rank(d, x)
  <2>1. Rank(d, x) - 1 \in 0..Hops
    BY <1>0, <1>3, <1>4
  <2>2. Rank(d, y) \in 0..Hops /\ Rank(d, y) <= Rank(d, x) - 1
    BY <1>5, <1>6, <2>1, RankLeast
  <2> QED
    BY <1>0, <1>3, <2>2
<1>8. \A k \in 0..Hops : z[k][1] \in Via(d, x)
  <2> SUFFICES ASSUME NEW k \in 0..Hops
               PROVE  \E j \in 0..Hops : z[k] = w[j]
    BY DEF Via
  <2>1. CASE k = Hops
    <3>1. w[Hops] = Hop(d, Insts, w[Hops])
      BY DEF Ended
    <3> HIDE DEF w, z
    <3> QED
      BY <2>1, <3>1, <1>2
  <2>2. CASE k # Hops
    <3>1. k \in 0..(Hops - 1) /\ k + 1 \in 0..Hops
      BY <2>2, <1>0
    <3> HIDE DEF w, z
    <3> QED
      BY <3>1, <1>1, <1>2
  <2> QED
    BY <2>1, <2>2
<1>9. Via(d, y) \subseteq Via(d, x)
  BY <1>8 DEF Via
<1> QED
  BY <1>7, <1>9 DEF y

LEMMA CostOwn ==
  ASSUME NEW d, NoWireLoop(d), NEW p \in Paths, NEW s \in DOMAIN d[At(p)]
  PROVE  /\ Cost(d, p, s) = [rank |-> Cost(d, p, s).rank, via |-> Cost(d, p, s).via]
         /\ Cost(d, p, s).rank \in 0..Hops /\ p \in Cost(d, p, s).via
<1> DEFINE x == <<p, d[At(p)][s]>>
<1>0. Hops \in Nat
  BY HierarchyAssumption
<1>1. Rank(d, x) \in 0..Hops
  BY Ends, RankLeast
<1>2. p \in Via(d, x)
  <2>1. Way(d, Insts, x)[0][1] = p
    BY WaySteps
  <2>2. 0 \in 0..Hops
    BY <1>0
  <2> QED
    BY <2>1, <2>2 DEF Via
<1> QED
  BY <1>1, <1>2 DEF Cost

LEMMA CostDown ==
  ASSUME NEW d, NoWireLoop(d), NEW q \in Paths, NEW n \in Insts, ParentOf[n] = At(q),
         NEW o, OutSink(o) \in DOMAIN d[ModuleOf[n]],
         NEW s \in DOMAIN d[At(q)], d[At(q)][s] = Res(n, o)
  PROVE  Under(Cost(d, Append(q, n), OutSink(o)), Cost(d, q, s))
<1> DEFINE x == <<q, Res(n, o)>>
           p == Append(q, n)
           y == <<p, d[ModuleOf[n]][OutSink(o)]>>
<1>1. p \in Paths /\ At(p) = ModuleOf[n] /\ p # q
  BY Below
<1>0. Cost(d, p, OutSink(o)).rank \in Nat /\ Cost(d, q, s).rank \in Nat
  BY <1>1, CostOwn, HierarchyAssumption
<1>2. Hop(d, Insts, x) = y
  BY HopInto
<1>3. y # x
  BY <1>1
<1>4. Ended(d, x, Hops)
  BY Ends
<1>5. Cost(d, q, s) = [rank |-> Rank(d, x), via |-> Via(d, x)]
  BY DEF Cost
<1>6. Cost(d, p, OutSink(o)) = [rank |-> Rank(d, y), via |-> Via(d, y)]
  BY <1>1 DEF Cost
<1> HIDE DEF x, y, p
<1>7. Rank(d, y) < Rank(d, x) /\ Via(d, y) \subseteq Via(d, x)
  BY <1>2, <1>3, <1>4, RankDown
<1>8. Under(Cost(d, p, OutSink(o)), Cost(d, q, s))
  BY <1>0, <1>5, <1>6, <1>7 DEF Under
<1> QED
  BY <1>8 DEF p

LEMMA CostUp ==
  ASSUME NEW d, NoWireLoop(d), NEW q \in Paths, NEW n \in Insts, ParentOf[n] = At(q),
         NEW i, OpdSink(n, i) \in DOMAIN d[At(q)],
         NEW s \in DOMAIN d[ModuleOf[n]], d[ModuleOf[n]][s] = Arg(i)
  PROVE  Under(Cost(d, q, OpdSink(n, i)), Cost(d, Append(q, n), s))
<1> DEFINE p == Append(q, n)
           x == <<p, Arg(i)>>
           y == <<q, d[At(q)][OpdSink(n, i)]>>
<1>1. p \in Paths /\ At(p) = ModuleOf[n] /\ p # q
  BY Below
<1>0. Cost(d, q, OpdSink(n, i)).rank \in Nat /\ Cost(d, p, s).rank \in Nat
  <2>0. Hops \in Nat
    BY HierarchyAssumption
  <2>1. Cost(d, q, OpdSink(n, i)).rank \in 0..Hops
    BY CostOwn
  <2>2. p \in Paths /\ s \in DOMAIN d[At(p)]
    BY <1>1
  <2> HIDE DEF p
  <2>3. Cost(d, p, s).rank \in 0..Hops
    BY <2>2, CostOwn
  <2> QED
    BY <2>0, <2>1, <2>3
<1>2. Hop(d, Insts, x) = y
  BY HopUp
<1>3. y # x
  BY <1>1
<1> HIDE DEF p
<1>4. Ended(d, x, Hops)
  <2>1. x = <<p, d[At(p)][s]>> /\ s \in DOMAIN d[At(p)]
    BY <1>1
  <2> HIDE DEF x
  <2> QED
    BY <1>1, <2>1, Ends
<1>5. Cost(d, p, s) = [rank |-> Rank(d, x), via |-> Via(d, x)]
  BY <1>1 DEF Cost
<1>6. Cost(d, q, OpdSink(n, i)) = [rank |-> Rank(d, y), via |-> Via(d, y)]
  BY DEF Cost
<1> HIDE DEF x, y
<1>7. Rank(d, y) < Rank(d, x) /\ Via(d, y) \subseteq Via(d, x)
  BY <1>2, <1>3, <1>4, RankDown
<1>8. Under(Cost(d, q, OpdSink(n, i)), Cost(d, p, s))
  BY <1>0, <1>5, <1>6, <1>7 DEF Under
<1> QED
  BY <1>8 DEF p

LEMMA Nearer ==
  /\ \A a, b, c : Under(a, b) /\ Under(b, c) => Under(a, c)
  /\ \A a, b, c : AtMost(a, b) /\ Under(b, c) => Under(a, c)
  /\ \A a, b, c : Under(a, b) /\ AtMost(b, c) => Under(a, c)
  /\ \A a, b : Under(a, b) => AtMost(a, b)
  /\ \A a, b : ~(Under(a, b) /\ Under(b, a))
BY DEF Under, AtMost
----------------------------------------------------------------------------
(* Bodies and ports agree. *)

\* The sinks of ports that are tagged unused.
Dummied(m, s) ==
  \/ s[1] = "out" /\ <<m, s[2]>> \in unused
  \/ s[1] = "opd" /\ <<ModuleOf[s[2]], s[3]>> \in unused

\* A value m's body has, of no port that is tagged unused.
Valued(d, m, v) ==
  \/ v[1] = "arg" /\ v = Arg(v[2]) /\ v[2] \in ins[m] /\ <<m, v[2]>> \notin unused
  \/ v[1] = "reg" /\ v \in DOMAIN d[m]
  \/ /\ v[1] = "res" /\ v = Res(v[2], v[3]) /\ v[2] \in insts /\ ParentOf[v[2]] = m
     /\ OutSink(v[3]) \in DOMAIN d[ModuleOf[v[2]]] /\ <<ModuleOf[v[2]], v[3]>> \notin unused
  \/ v[1] = "const"

\* What the verifier wants, and a tagged port has a dummy value.
Whole(d) ==
  /\ \A n \in insts : ParentOf[n] \in mods /\ ModuleOf[n] \in mods
  /\ \A n \in insts : \A i \in In[ModuleOf[n]] :
       OpdSink(n, i) \in DOMAIN d[ParentOf[n]] <=> i \in ins[ModuleOf[n]]
  /\ \A m \in mods : \A s \in DOMAIN d[m] :
       /\ s[1] = "opd" => s[2] \in insts
       /\ Valued(d, m, d[m][s])
       /\ Dummied(m, s) => d[m][s][1] = "const"

\* Nobody looks at the outputs that are about to go.
Unreferenced == \A n \in Uses(node), o \in movedOuts : ~Used(ParentOf[n], Res(n, o))

\* What the loops of rewireModule have done is not undone by the rest of them.
Moving ==
  /\ step = "moveOuts" =>
       /\ pending \subseteq Uses(node) \X movedOuts /\ movedOuts \subseteq MoveableOuts
       /\ \A n \in Uses(node), o \in movedOuts :
            <<n, o>> \notin pending => ~Used(ParentOf[n], Res(n, o))
  /\ step = "moveIns" =>
       /\ Unreferenced
       /\ \E n \in Uses(node) :
            /\ first = {n} /\ movedIns \subseteq MoveableIns(n)
            /\ \A i \in movedIns \ pending : ~Used(node, Arg(i))
  /\ step = "combineIns" => Unreferenced

\* No kept port is tagged unused, no output of the design, and no output goes of a
\* module without instances.
Tags ==
  /\ unused \cap option.ports = {}
  /\ \A x \in unused : x[1] = Top => x[2] \in In[Top]
  /\ Uses(node) = {} => movedOuts = {}

LEMMA Kinds ==
  /\ \A i : Arg(i)[1] = "arg" /\ Arg(i)[2] = i
  /\ \A n, o : Res(n, o)[1] = "res" /\ Res(n, o)[2] = n /\ Res(n, o)[3] = o
  /\ \A k : Const(k)[1] = "const" /\ Const(k)[2] = k
  /\ \A g : Reg(g)[1] = "reg" /\ Reg(g)[2] = g
  /\ \A o : OutSink(o)[1] = "out" /\ OutSink(o)[2] = o
  /\ \A n, i : OpdSink(n, i)[1] = "opd" /\ OpdSink(n, i)[2] = n /\ OpdSink(n, i)[3] = i
BY DEF Arg, Res, Const, Reg, OutSink, OpdSink

LEMMA Sinks ==
  ASSUME NEW d \in Designs, NEW m \in Modules, NEW s \in DOMAIN d[m]
  PROVE  /\ s[1] \in {"out", "reg", "opd"}
         /\ s[1] = "out" => s = OutSink(s[2]) /\ s[2] \notin In[m]
         /\ s[1] = "opd" => /\ s = OpdSink(s[2], s[3]) /\ s[2] \in Insts
                            /\ ParentOf[s[2]] = m /\ s[3] \in In[ModuleOf[s[2]]]
<1>1. SinkOf(d, m, s)
  BY DesignsAssumption DEF Verified
<1>2. CASE \E n \in Insts : ParentOf[n] = m /\ \E i \in In[ModuleOf[n]] : s = OpdSink(n, i)
  <2>1. PICK n \in Insts : ParentOf[n] = m /\ \E i \in In[ModuleOf[n]] : s = OpdSink(n, i)
    BY <1>2
  <2>2. PICK i \in In[ModuleOf[n]] : s = OpdSink(n, i)
    BY <2>1
  <2>3. s[1] = "opd" /\ s[2] = n /\ s[3] = i
    BY <2>2, Kinds
  <2> QED
    BY <2>1, <2>2, <2>3
<1>3. CASE s[1] = "out" /\ s = OutSink(s[2]) /\ s[2] \notin In[m]
  BY <1>3
<1>4. CASE s[1] = "reg" /\ s = Reg(s[2])
  BY <1>4
<1> QED
  BY <1>1, <1>2, <1>3, <1>4 DEF SinkOf

\* Other values for sinks that are there.
LEMMA Revalue ==
  ASSUME mods \subseteq Modules, NEW d, Whole(d), NEW e,
         \A m \in Modules : DOMAIN e[m] = DOMAIN d[m],
         \A n \in insts : ModuleOf[n] \in Modules /\ ParentOf[n] \in Modules,
         \A m \in mods : \A s \in DOMAIN d[m] :
           e[m][s] = d[m][s] \/ (Valued(d, m, e[m][s]) /\ ~Dummied(m, s))
  PROVE  Whole(e)
<1>1. \A n \in insts : \A i \in In[ModuleOf[n]] :
        OpdSink(n, i) \in DOMAIN e[ParentOf[n]] <=> i \in ins[ModuleOf[n]]
  BY DEF Whole
<1>2. ASSUME NEW m \in mods, NEW v, Valued(d, m, v)
      PROVE  Valued(e, m, v)
  <2>1. DOMAIN e[m] = DOMAIN d[m]
    OBVIOUS
  <2>2. v[2] \in insts => DOMAIN e[ModuleOf[v[2]]] = DOMAIN d[ModuleOf[v[2]]]
    OBVIOUS
  <2> QED
    BY <1>2, <2>1, <2>2 DEF Valued
<1>3. ASSUME NEW m \in mods, NEW s \in DOMAIN e[m]
      PROVE  /\ s[1] = "opd" => s[2] \in insts
             /\ Valued(e, m, e[m][s])
             /\ Dummied(m, s) => e[m][s][1] = "const"
  <2>1. s \in DOMAIN d[m]
    OBVIOUS
  <2>2. /\ s[1] = "opd" => s[2] \in insts
        /\ Valued(d, m, d[m][s])
        /\ Dummied(m, s) => d[m][s][1] = "const"
    BY <2>1 DEF Whole
  <2>3. Valued(d, m, e[m][s])
    BY <2>1, <2>2
  <2>4. Dummied(m, s) => e[m][s] = d[m][s]
    BY <2>1
  <2> QED
    BY <2>2, <2>3, <2>4, <1>2
<1> QED
  BY <1>1, <1>3 DEF Whole

\* What cannot be missed can not be missed together.
LEMMA LiveComplete ==
  ASSUME NEW m
  PROVE  Live(m) \subseteq Ops(m) /\ Complete(m, Live(m))
<1>1. Live(m) \subseteq Ops(m)
  BY DEF Live
<1>2. \A n \in Pinned : <<"inst", n>> \in Ops(m) => <<"inst", n>> \in Live(m)
  BY DEF Live, Complete
<1>3. ASSUME NEW s \in DOMAIN drive[m], s[1] = "out" \/ OpOf(s) \in Live(m),
             SourceOp(drive[m][s]) \in Ops(m)
      PROVE  SourceOp(drive[m][s]) \in Live(m)
  <2> SUFFICES ASSUME NEW ops \in SUBSET Ops(m), Complete(m, ops)
               PROVE  SourceOp(drive[m][s]) \in ops
    BY <1>3 DEF Live
  <2>1. s[1] = "out" \/ OpOf(s) \in ops
    BY <1>3 DEF Live
  <2> QED
    BY <2>1, <1>3 DEF Complete
<1> QED
  BY <1>1, <1>2, <1>3 DEF Complete

LEMMA EraseWhole ==
  ASSUME IInv, Whole(drive), NEW m \in mods, EraseUnused(m),
         UNCHANGED <<design, mods, ins, unused>>
  PROVE  /\ Whole(drive)' /\ insts' \subseteq insts
         /\ \A p \in Modules : /\ DOMAIN drive'[p] \subseteq DOMAIN drive[p]
                               /\ \A s \in DOMAIN drive'[p] : drive'[p][s] = drive[p][s]
<1> DEFINE S == {s \in DOMAIN drive[m] : s[1] = "out" \/ OpOf(s) \in Live(m)}
<1>0. m \in Modules /\ mods \subseteq Modules /\ Functional
  BY DEF IInv, TypeOK
<1>1. drive' = [p \in Modules |-> IF p = m THEN Restrict(drive[m], S) ELSE drive[p]]
  BY <1>0 DEF EraseUnused, Functional
<1>2. S \subseteq DOMAIN drive[m]
  OBVIOUS
<1>3. insts' = {n \in insts : ParentOf[n] = m => <<"inst", n>> \in Live(m)}
  BY DEF EraseUnused
<1>s. \A s : s \in S <=> s \in DOMAIN drive[m] /\ (s[1] = "out" \/ OpOf(s) \in Live(m))
  OBVIOUS
<1> HIDE DEF S
<1>4. drive'[m] = Restrict(drive[m], S) /\ \A p \in Modules \ {m} : drive'[p] = drive[p]
  BY <1>0, <1>1
<1>5. DOMAIN drive'[m] = S /\ \A s \in S : drive'[m][s] = drive[m][s]
  BY <1>2, <1>4, RestrictFacts
<1>6. insts' \subseteq insts
      /\ \A p \in Modules : /\ DOMAIN drive'[p] \subseteq DOMAIN drive[p]
                            /\ \A s \in DOMAIN drive'[p] : drive'[p][s] = drive[p][s]
  BY <1>2, <1>3, <1>4, <1>5
<1>7. Live(m) \subseteq Ops(m) /\ Complete(m, Live(m))
  BY LiveComplete
<1>8. \A n \in insts : n \in insts' <=> (ParentOf[n] = m => <<"inst", n>> \in Live(m))
  BY <1>3
<1>9. ASSUME NEW n \in insts', NEW i \in In[ModuleOf[n]]
      PROVE  OpdSink(n, i) \in DOMAIN drive'[ParentOf[n]] <=> i \in ins'[ModuleOf[n]]
  <2>1. n \in insts /\ ParentOf[n] \in Modules
    BY <1>0, <1>6 DEF Whole
  <2>2. OpdSink(n, i) \in DOMAIN drive[ParentOf[n]] <=> i \in ins[ModuleOf[n]]
    BY <2>1 DEF Whole
  <2>3. CASE ParentOf[n] = m
    <3>1. OpOf(OpdSink(n, i)) = <<"inst", n>> /\ <<"inst", n>> \in Live(m)
      BY <2>1, <2>3, <1>8, Kinds DEF OpOf
    <3> QED
      BY <2>2, <2>3, <3>1, <1>5, <1>s
  <2>4. CASE ParentOf[n] # m
    BY <2>1, <2>2, <2>4, <1>4
  <2> QED
    BY <2>3, <2>4
<1>10. \A p \in Modules : \A s \in DOMAIN drive[p] : s[1] = "out" => s \in DOMAIN drive'[p]
  BY <1>4, <1>5, <1>s
<1>11. ASSUME NEW p \in mods, NEW s \in DOMAIN drive'[p]
       PROVE  /\ s[1] = "opd" => s[2] \in insts'
              /\ Valued(drive, p, drive[p][s])'
  <2> DEFINE v == drive[p][s]
  <2>1. p \in Modules /\ s \in DOMAIN drive[p] /\ drive'[p][s] = v
    BY <1>0, <1>6
  <2>2. Valued(drive, p, v) /\ (s[1] = "opd" => s[2] \in insts)
    BY <2>1 DEF Whole
  <2>3. s[1] = "opd" => ParentOf[s[2]] = p
    BY <2>1, <1>0, Sinks DEF IInv, TypeOK, Functional
  <2>4. p = m => s[1] = "out" \/ OpOf(s) \in Live(m)
    BY <2>1, <1>5, <1>s
  <2>5. s[1] = "opd" => s[2] \in insts'
    BY <2>2, <2>3, <2>4, <1>8 DEF OpOf
  <2>6. CASE v[1] = "res"
    <3>1. /\ v = Res(v[2], v[3]) /\ v[2] \in insts /\ ParentOf[v[2]] = p
          /\ OutSink(v[3]) \in DOMAIN drive[ModuleOf[v[2]]] /\ <<ModuleOf[v[2]], v[3]>> \notin unused
      BY <2>2, <2>6 DEF Valued
    <3>2. p = m => SourceOp(v) = <<"inst", v[2]>> /\ SourceOp(v) \in Ops(m)
      BY <3>1, <2>6 DEF SourceOp, Ops
    <3>3. p = m => <<"inst", v[2]>> \in Live(m)
      BY <3>2, <2>1, <2>4, <1>7 DEF Complete
    <3>4. v[2] \in insts'
      BY <3>1, <3>3, <1>8
    <3>5. ModuleOf[v[2]] \in Modules
      BY <3>1, <1>0 DEF Whole
    <3>6. OutSink(v[3]) \in DOMAIN drive'[ModuleOf[v[2]]]
      BY <3>1, <3>5, <1>10, Kinds
    <3> HIDE DEF v
    <3> QED
      BY <2>1, <2>5, <2>6, <3>1, <3>4, <3>6 DEF Valued
  <2>7. CASE v[1] = "reg"
    <3>1. v \in DOMAIN drive[p]
      BY <2>2, <2>7 DEF Valued
    <3>2. p = m => SourceOp(v) = v /\ v \in Ops(m)
      BY <3>1, <2>7 DEF SourceOp, Ops
    <3>3. p = m => v \in Live(m)
      BY <3>2, <2>1, <2>4, <1>7 DEF Complete
    <3>4. p = m => OpOf(v) = v
      BY <2>7 DEF OpOf
    <3>5. v \in DOMAIN drive'[p]
      BY <3>1, <3>3, <3>4, <2>1, <1>4, <1>5, <1>s
    <3> HIDE DEF v
    <3> QED
      BY <2>1, <2>5, <2>7, <3>5 DEF Valued
  <2>8. CASE v[1] \in {"arg", "const"}
    <3> HIDE DEF v
    <3> QED
      BY <2>1, <2>2, <2>5, <2>8 DEF Valued
  <2> QED
    BY <2>2, <2>6, <2>7, <2>8 DEF Valued
<1>12. \A p \in mods : \A s \in DOMAIN drive'[p] :
         Dummied(p, s)' => drive'[p][s][1] = "const"
  BY <1>0, <1>6 DEF Whole, Dummied
<1>13. \A n \in insts' : ParentOf[n] \in mods' /\ ModuleOf[n] \in mods'
  BY <1>6 DEF Whole
<1>14. Whole(drive)'
  BY <1>9, <1>11, <1>12, <1>13 DEF Whole
<1> QED
  BY <1>6, <1>14

\* An instance goes whose results nobody uses.
LEMMA ReplaceWhole ==
  ASSUME IInv, Whole(drive), NEW n \in Insts, ReplaceInst(n)
  PROVE  /\ Whole(drive)' /\ insts' \subseteq insts
         /\ \A p \in Modules : /\ DOMAIN drive'[p] \subseteq DOMAIN drive[p]
                               /\ \A s \in DOMAIN drive'[p] : drive'[p][s] = drive[p][s]
<1> DEFINE m == ParentOf[n]
           S == {s \in DOMAIN drive[m] : OpOf(s) # <<"inst", n>>}
<1>0. /\ mods \subseteq Modules /\ Functional /\ m \in Modules
      /\ UNCHANGED <<design, mods, ins, unused>>
  BY HierarchyAssumption DEF IInv, TypeOK, ReplaceInst
<1>1. CASE ~UseEmpty(n)
  <2>1. UNCHANGED <<insts, drive>>
    BY <1>1 DEF ReplaceInst
  <2>2. Whole(drive)'
    BY <2>1, <1>0 DEF Whole, Valued, Dummied
  <2> QED
    BY <2>1, <2>2
<1>2. CASE UseEmpty(n)
  <2>1. drive' = [p \in Modules |-> IF p = m THEN Restrict(drive[m], S) ELSE drive[p]]
    BY <1>0, <1>2 DEF ReplaceInst, Functional
  <2>2. S \subseteq DOMAIN drive[m]
    OBVIOUS
  <2>3. insts' = insts \ {n}
    BY <1>2 DEF ReplaceInst
  <2>s. \A s : s \in S <=> s \in DOMAIN drive[m] /\ OpOf(s) # <<"inst", n>>
    OBVIOUS
  <2> HIDE DEF S
  <2>4. drive'[m] = Restrict(drive[m], S) /\ \A p \in Modules \ {m} : drive'[p] = drive[p]
    BY <1>0, <2>1
  <2>5. DOMAIN drive'[m] = S /\ \A s \in S : drive'[m][s] = drive[m][s]
    BY <2>2, <2>4, RestrictFacts
  <2>6. insts' \subseteq insts
        /\ \A p \in Modules : /\ DOMAIN drive'[p] \subseteq DOMAIN drive[p]
                              /\ \A s \in DOMAIN drive'[p] : drive'[p][s] = drive[p][s]
    BY <2>2, <2>3, <2>4, <2>5
  <2>7. ASSUME NEW p \in Modules, NEW s \in DOMAIN drive[p],
               s[1] # "opd" \/ s[2] # n
        PROVE  s \in DOMAIN drive'[p]
    <3>1. s[1] = "opd" => OpOf(s) = <<"inst", s[2]>>
      BY DEF OpOf
    <3>2. s[1] # "opd" => OpOf(s) = s
      BY DEF OpOf
    <3>3. s[1] \in {"out", "reg", "opd"}
      BY <1>0, Sinks DEF IInv, TypeOK, Functional
    <3>4. OpOf(s) # <<"inst", n>>
      BY <2>7, <3>1, <3>2, <3>3
    <3> QED
      BY <3>4, <2>4, <2>5, <2>s
  <2>8. ASSUME NEW p \in Modules, NEW s \in DOMAIN drive'[p], s[1] = "opd"
        PROVE  s[2] # n
    <3>1. ParentOf[s[2]] = p
      BY <2>8, <2>6, <1>0, Sinks DEF IInv, TypeOK, Functional
    <3>2. p = m => OpOf(s) # <<"inst", n>>
      BY <2>5, <2>s
    <3> QED
      BY <2>8, <3>1, <3>2 DEF OpOf
  <2>9. ASSUME NEW k \in insts', NEW i \in In[ModuleOf[k]]
        PROVE  OpdSink(k, i) \in DOMAIN drive'[ParentOf[k]] <=> i \in ins'[ModuleOf[k]]
    <3>1. k \in insts /\ k # n /\ ParentOf[k] \in Modules
      BY <2>3, <1>0 DEF Whole
    <3>2. OpdSink(k, i) \in DOMAIN drive[ParentOf[k]] <=> i \in ins[ModuleOf[k]]
      BY <3>1 DEF Whole
    <3>3. OpdSink(k, i) \in DOMAIN drive[ParentOf[k]]
            => OpdSink(k, i) \in DOMAIN drive'[ParentOf[k]]
      BY <3>1, <2>7, Kinds
    <3> QED
      BY <3>1, <3>2, <3>3, <2>6, <1>0
  <2>10. ASSUME NEW p \in mods, NEW s \in DOMAIN drive'[p]
         PROVE  /\ s[1] = "opd" => s[2] \in insts'
                /\ Valued(drive, p, drive[p][s])'
    <3> DEFINE v == drive[p][s]
    <3>1. p \in Modules /\ s \in DOMAIN drive[p] /\ drive'[p][s] = v
      BY <1>0, <2>6
    <3>2. Valued(drive, p, v) /\ (s[1] = "opd" => s[2] \in insts)
      BY <3>1 DEF Whole
    <3>3. s[1] = "opd" => s[2] \in insts'
      BY <3>1, <3>2, <2>3, <2>8
    <3>4. p = m => ~(v[1] = "res" /\ v[2] = n)
      BY <3>1, <1>2 DEF UseEmpty
    <3>5. v[1] = "res" => /\ v = Res(v[2], v[3]) /\ v[2] \in insts' /\ ParentOf[v[2]] = p
                          /\ OutSink(v[3]) \in DOMAIN drive'[ModuleOf[v[2]]]
                          /\ <<ModuleOf[v[2]], v[3]>> \notin unused
      <4> SUFFICES ASSUME v[1] = "res"
                   PROVE  /\ v = Res(v[2], v[3]) /\ v[2] \in insts' /\ ParentOf[v[2]] = p
                          /\ OutSink(v[3]) \in DOMAIN drive'[ModuleOf[v[2]]]
                          /\ <<ModuleOf[v[2]], v[3]>> \notin unused
        OBVIOUS
      <4>1. /\ v = Res(v[2], v[3]) /\ v[2] \in insts /\ ParentOf[v[2]] = p
            /\ OutSink(v[3]) \in DOMAIN drive[ModuleOf[v[2]]]
            /\ <<ModuleOf[v[2]], v[3]>> \notin unused
        BY <3>2 DEF Valued
      <4>2. ModuleOf[v[2]] \in Modules
        BY <4>1, <1>0 DEF Whole
      <4> HIDE DEF v
      <4> QED
        BY <4>1, <4>2, <3>4, <2>3, <2>7, Kinds
    <3>6. v[1] = "reg" => v \in DOMAIN drive'[p]
      BY <3>1, <3>2, <2>7 DEF Valued
    <3> HIDE DEF v
    <3> QED
      BY <3>1, <3>2, <3>3, <3>5, <3>6, <1>0 DEF Valued
  <2>11. \A p \in mods : \A s \in DOMAIN drive'[p] :
           Dummied(p, s)' => drive'[p][s][1] = "const"
    BY <1>0, <2>6 DEF Whole, Dummied
  <2>12. \A k \in insts' : ParentOf[k] \in mods' /\ ModuleOf[k] \in mods'
    BY <2>6, <1>0 DEF Whole
  <2>13. Whole(drive)'
    BY <2>9, <2>10, <2>11, <2>12, <1>0 DEF Whole
  <2> QED
    BY <2>6, <2>13
<1> QED
  BY <1>1, <1>2

\* A module goes that nobody instantiates.
LEMMA ModuleWhole ==
  ASSUME IInv, Whole(drive), NEW m \in Modules, EraseModule(m)
  PROVE  Whole(drive)' /\ insts' \subseteq insts
<1>0. /\ mods \subseteq Modules /\ Uses(m) = {} /\ mods' = mods \ {m}
      /\ insts' = {n \in insts : ParentOf[n] # m}
      /\ UNCHANGED <<design, drive, ins, unused>>
  BY DEF IInv, TypeOK, EraseModule
<1>1. \A n \in insts' : ParentOf[n] \in mods' /\ ModuleOf[n] \in mods'
  BY <1>0 DEF Whole, Uses
<1>2. \A n \in insts' : \A i \in In[ModuleOf[n]] :
        OpdSink(n, i) \in DOMAIN drive[ParentOf[n]] <=> i \in ins[ModuleOf[n]]
  BY <1>0 DEF Whole
<1>3. ASSUME NEW p \in mods', NEW s \in DOMAIN drive[p]
      PROVE  /\ s[1] = "opd" => s[2] \in insts'
             /\ Valued(drive, p, drive[p][s])'
             /\ Dummied(p, s)' => drive[p][s][1] = "const"
  <2>1. p \in mods /\ p # m /\ p \in Modules
    BY <1>0
  <2>2. /\ s[1] = "opd" => s[2] \in insts
        /\ Valued(drive, p, drive[p][s])
        /\ Dummied(p, s) => drive[p][s][1] = "const"
    BY <2>1 DEF Whole
  <2>3. s[1] = "opd" => ParentOf[s[2]] = p
    BY <2>1, Sinks DEF IInv, TypeOK, Functional
  <2>4. Valued(drive, p, drive[p][s])'
    BY <1>0, <2>1, <2>2 DEF Valued
  <2> QED
    BY <1>0, <2>1, <2>2, <2>3, <2>4 DEF Dummied
<1>4. Whole(drive)'
  BY <1>0, <1>1, <1>2, <1>3 DEF Whole
<1> QED
  BY <1>0, <1>4

\* Ports go that nobody refers to.
LEMMA UpdateWhole ==
  ASSUME IInv, Tags, NEW d, Whole(d), \A m \in Modules : DOMAIN d[m] = DOMAIN drive[m],
         NEW inputs, inputs \subseteq ins[node],
         NEW outputs, outputs \subseteq Outs(node), Uses(node) = {} => outputs = {},
         \A i \in inputs : \A s \in DOMAIN d[node] : d[node][s] # Arg(i),
         \A n \in Uses(node), o \in outputs :
           \A s \in DOMAIN d[ParentOf[n]] : d[ParentOf[n]][s] # Res(n, o),
         Tagged(option.ports, node) \cap (inputs \cup outputs) = {},
         UpdateNode(node, inputs, outputs, d), UNCHANGED <<design, option, mods, insts, node>>
  PROVE  /\ Whole(drive)' /\ unused \subseteq unused'
         /\ unused' \cap option'.ports = {}
         /\ \A x \in unused' : x[1] = Top => x[2] \in In[Top]
         /\ \A p \in Modules : \A s \in DOMAIN drive'[p] :
              /\ s \in DOMAIN d[p]
              /\ drive'[p][s] = d[p][s] \/ (drive'[p][s][1] = "const" /\ Dummied(p, s)')
<1> DEFINE gone(p) == SinksOf(node, inputs, outputs, p)
<1>0. /\ mods \subseteq Modules /\ node \in Modules /\ Functional /\ design \in Designs
      /\ ins[node] \subseteq In[node]
      /\ \A m \in Modules : DOMAIN drive[m] \subseteq DOMAIN design[m]
  BY DEF IInv, TypeOK, Functional
<1>1. unused' = unused \cup ({node} \X (inputs \cup outputs))
  BY DEF UpdateNode
<1>u. /\ \A x \in unused' : x \in unused \/ (x[1] = node /\ x[2] \in inputs \cup outputs)
      /\ \A y \in inputs \cup outputs : <<node, y>> \in unused'
      /\ unused \subseteq unused'
  BY <1>1
<1>2. \A m \in Modules : \A i \in In[m] : i \in ins'[m] <=>
         i \in ins[m] /\ ~(m = node /\ ~option.keepPorts /\ i \in inputs)
  BY <1>0 DEF UpdateNode, IInv, Functional
<1>3. ASSUME NEW p \in Modules, NEW s \in DOMAIN d[p]
      PROVE  /\ s[1] \in {"out", "reg", "opd"}
             /\ s[1] = "out" => s[2] \notin In[p]
             /\ s[1] = "opd" => /\ s = OpdSink(s[2], s[3]) /\ s[2] \in Insts
                                /\ ParentOf[s[2]] = p /\ s[3] \in In[ModuleOf[s[2]]]
  <2>1. s \in DOMAIN design[p]
    BY <1>0
  <2> QED
    BY <2>1, <1>0, Sinks
<1>4. outputs \cap In[node] = {}
  <2> SUFFICES ASSUME NEW o \in outputs
               PROVE  o \notin In[node]
    OBVIOUS
  <2>1. PICK s \in DOMAIN drive[node] : s[1] = "out" /\ s[2] = o
    BY DEF Outs
  <2> QED
    BY <2>1, <1>0, <1>3
<1>5. \A p : \A s \in DOMAIN drive[p] : s \in gone(p) <=>
         \/ s[1] = "out" /\ p = node /\ s[2] \in outputs
         \/ s[1] = "opd" /\ ModuleOf[s[2]] = node /\ s[3] \in inputs
  BY DEF SinksOf
<1>6. ASSUME NEW p \in Modules, NEW s \in DOMAIN d[p]
      PROVE  Dummied(p, s)' <=> Dummied(p, s) \/ s \in gone(p)
  <2>1. s \in DOMAIN drive[p]
    OBVIOUS
  <2>2. CASE s[1] = "out"
    <3>1. <<p, s[2]>> \in unused' <=> <<p, s[2]>> \in unused \/ (p = node /\ s[2] \in outputs)
      BY <2>2, <1>0, <1>u, <1>3
    <3> QED
      BY <2>1, <2>2, <3>1, <1>5 DEF Dummied
  <2>3. CASE s[1] = "opd"
    <3>1. <<ModuleOf[s[2]], s[3]>> \in unused' <=>
            <<ModuleOf[s[2]], s[3]>> \in unused \/ (ModuleOf[s[2]] = node /\ s[3] \in inputs)
      BY <2>3, <1>u, <1>3, <1>4
    <3> QED
      BY <2>1, <2>3, <3>1, <1>5 DEF Dummied
  <2>4. CASE s[1] = "reg"
    BY <2>1, <2>4, <1>5 DEF Dummied
  <2> QED
    BY <2>2, <2>3, <2>4, <1>3
<1> HIDE DEF gone
<1>7. \A p \in Modules : \A s : s \in DOMAIN drive'[p] <=>
         s \in DOMAIN d[p] /\ (option.keepPorts \/ s \notin gone(p))
  <2>1. CASE option.keepPorts
    BY <2>1 DEF UpdateNode
  <2>2. CASE ~option.keepPorts
    <3>1. drive' = [p \in Modules |-> Restrict(d[p], DOMAIN d[p] \ gone(p))]
      BY <2>2 DEF UpdateNode, gone
    <3>2. \A p \in Modules : DOMAIN drive'[p] = DOMAIN d[p] \ gone(p)
      BY <3>1, RestrictFacts
    <3> QED
      BY <2>2, <3>2
  <2> QED
    BY <2>1, <2>2
<1>8. \A p \in Modules : \A s \in DOMAIN drive'[p] :
        /\ s \notin gone(p) => drive'[p][s] = d[p][s]
        /\ s \in gone(p) => drive'[p][s][1] = "const"
  <2>1. CASE option.keepPorts
    <3>1. drive' = [p \in Modules |-> [s \in DOMAIN d[p] |->
                     IF s \in gone(p) THEN Const("0") ELSE d[p][s]]]
      BY <2>1 DEF UpdateNode, gone
    <3>2. Const("0")[1] = "const"
      BY Kinds
    <3> QED
      BY <3>1, <3>2
  <2>2. CASE ~option.keepPorts
    <3>1. drive' = [p \in Modules |-> Restrict(d[p], DOMAIN d[p] \ gone(p))]
      BY <2>2 DEF UpdateNode, gone
    <3>2. \A p \in Modules : DOMAIN drive'[p] = DOMAIN d[p] \ gone(p)
      BY <3>1, RestrictFacts
    <3>3. ASSUME NEW p \in Modules, NEW s \in DOMAIN drive'[p]
          PROVE  s \notin gone(p) /\ drive'[p][s] = d[p][s]
      <4>1. s \in DOMAIN d[p] \ gone(p) /\ drive'[p] = Restrict(d[p], DOMAIN d[p] \ gone(p))
        BY <3>1, <3>2
      <4> QED
        BY <4>1, RestrictFacts
    <3> QED
      BY <3>3
  <2> QED
    BY <2>1, <2>2
<1>9. ASSUME NEW n \in insts', NEW i \in In[ModuleOf[n]]
      PROVE  OpdSink(n, i) \in DOMAIN drive'[ParentOf[n]] <=> i \in ins'[ModuleOf[n]]
  <2> DEFINE s == OpdSink(n, i)
             p == ParentOf[n]
  <2>1. n \in insts /\ p \in Modules /\ ModuleOf[n] \in Modules
    BY <1>0 DEF Whole
  <2>2. s \in DOMAIN d[p] <=> i \in ins[ModuleOf[n]]
    BY <2>1 DEF Whole
  <2>3. s \in DOMAIN d[p] => (s \in gone(p) <=> ModuleOf[n] = node /\ i \in inputs)
    <3>1. s[1] = "opd" /\ s[2] = n /\ s[3] = i
      BY Kinds
    <3> HIDE DEF s
    <3> QED
      BY <3>1, <2>1, <1>5
  <2> HIDE DEF s, p
  <2>4. s \in DOMAIN drive'[p] <=> i \in ins'[ModuleOf[n]]
    BY <2>1, <2>2, <2>3, <1>2, <1>7
  <2> QED
    BY <2>4 DEF s, p
<1>10. ASSUME NEW p \in mods, NEW s \in DOMAIN d[p]
       PROVE  Valued(drive, p, d[p][s])'
  <2> DEFINE v == d[p][s]
  <2>1. p \in Modules /\ Valued(d, p, v)
    BY <1>0 DEF Whole
  <2>2. CASE v[1] = "arg"
    <3>1. v = Arg(v[2]) /\ v[2] \in ins[p] /\ <<p, v[2]>> \notin unused
      BY <2>1, <2>2 DEF Valued
    <3>2. p = node => v[2] \notin inputs
      BY <3>1
    <3>3. v[2] \in In[p]
      BY <3>1, <2>1 DEF IInv, TypeOK
    <3> HIDE DEF v
    <3>4. p = node => v[2] \notin outputs
      BY <3>3, <1>4
    <3>5. <<p, v[2]>> \notin unused'
      BY <3>1, <3>2, <3>4, <1>u
    <3>6. v[2] \in ins'[p]
      BY <3>1, <3>2, <3>3, <2>1, <1>2
    <3> QED
      BY <2>2, <3>1, <3>5, <3>6 DEF Valued, v
  <2>3. CASE v[1] = "res"
    <3>1. /\ v = Res(v[2], v[3]) /\ v[2] \in insts /\ ParentOf[v[2]] = p
          /\ OutSink(v[3]) \in DOMAIN d[ModuleOf[v[2]]] /\ <<ModuleOf[v[2]], v[3]>> \notin unused
      BY <2>1, <2>3 DEF Valued
    <3>2. ModuleOf[v[2]] = node => v[2] \in Uses(node)
      BY <3>1 DEF Uses
    <3>3. ModuleOf[v[2]] = node => v[3] \notin outputs
      BY <3>1, <3>2
    <3>4. ModuleOf[v[2]] \in Modules
      BY <3>1, <1>0 DEF Whole
    <3> HIDE DEF v
    <3>5. v[3] \notin In[ModuleOf[v[2]]]
      BY <3>1, <3>4, <1>3, Kinds
    <3>6. <<ModuleOf[v[2]], v[3]>> \notin unused'
      BY <3>1, <3>3, <3>5, <1>0, <1>u
    <3>7. OutSink(v[3]) \notin gone(ModuleOf[v[2]])
      BY <3>1, <3>3, <3>4, <1>5, Kinds
    <3>8. OutSink(v[3]) \in DOMAIN drive'[ModuleOf[v[2]]]
      BY <3>1, <3>4, <3>7, <1>7
    <3> QED
      BY <2>3, <3>1, <3>6, <3>8 DEF Valued, v
  <2>4. CASE v[1] = "reg"
    <3>1. v \in DOMAIN d[p]
      BY <2>1, <2>4 DEF Valued
    <3> HIDE DEF v
    <3>2. v \notin gone(p)
      BY <2>4, <3>1, <2>1, <1>5
    <3>3. v \in DOMAIN drive'[p]
      BY <3>1, <3>2, <2>1, <1>7
    <3> QED
      BY <2>4, <3>3 DEF Valued, v
  <2>5. CASE v[1] = "const"
    BY <2>5 DEF Valued
  <2> QED
    BY <2>1, <2>2, <2>3, <2>4, <2>5 DEF Valued
<1>11. ASSUME NEW p \in mods, NEW s \in DOMAIN drive'[p]
       PROVE  /\ s[1] = "opd" => s[2] \in insts'
              /\ Valued(drive, p, drive[p][s])'
              /\ Dummied(p, s)' => drive'[p][s][1] = "const"
  <2>1. p \in Modules /\ s \in DOMAIN d[p]
    BY <1>0, <1>7
  <2>2. /\ s[1] = "opd" => s[2] \in insts
        /\ Dummied(p, s) => d[p][s][1] = "const"
    BY <2>1 DEF Whole
  <2>3. CASE s \in gone(p)
    <3>1. drive'[p][s][1] = "const"
      BY <2>1, <2>3, <1>8
    <3> QED
      BY <2>2, <3>1 DEF Valued
  <2>4. CASE s \notin gone(p)
    <3>1. drive'[p][s] = d[p][s]
      BY <2>1, <2>4, <1>8
    <3>2. Dummied(p, s)' => Dummied(p, s)
      BY <2>1, <2>4, <1>6
    <3>3. Valued(drive, p, d[p][s])'
      BY <2>1, <1>10
    <3> QED
      BY <2>2, <3>1, <3>2, <3>3 DEF Valued
  <2> QED
    BY <2>3, <2>4
<1>12. Whole(drive)'
  BY <1>9, <1>11 DEF Whole
<1>13. unused' \cap option'.ports = {}
  <2> SUFFICES ASSUME NEW x \in option.ports, x \in unused'
               PROVE  FALSE
    OBVIOUS
  <2>1. x \in unused => FALSE
    BY DEF Tags
  <2>2. x[1] = node /\ x[2] \in inputs \cup outputs
    BY <2>1, <1>u
  <2>3. x[2] \in Tagged(option.ports, node)
    BY <2>2 DEF Tagged
  <2> QED
    BY <2>2, <2>3
<1>14. \A x \in unused' : x[1] = Top => x[2] \in In[Top]
  <2>1. Uses(Top) = {}
    BY HierarchyAssumption DEF Uses, IInv, TypeOK
  <2>2. node = Top => outputs = {}
    BY <2>1
  <2> QED
    BY <2>2, <1>0, <1>u DEF Tags
<1> QED
  BY <1>u, <1>6, <1>7, <1>8, <1>12, <1>13, <1>14
----------------------------------------------------------------------------
(* What drives what. *)

\* The sinks of ports a value at p refers to are nearer to the end than cost.
Linked(C, W, p, cost, v) ==
  /\ \A n \in insts : ParentOf[n] = At(p) /\ v = Res(n, v[3]) =>
       Under(W[<<Append(p, n), OutSink(v[3])>>], cost)
  /\ \A q \in C, n \in insts : ParentOf[n] = At(q) /\ p = Append(q, n) /\ v = Arg(v[2]) =>
       Under(W[<<q, OpdSink(n, v[2])>>], cost)

\* A cost is no more than in the design the pass starts from, and the way begins here.
Priced(cost, p, s) ==
  /\ cost.rank \in Nat /\ AtMost(cost, Cost(design, p, s)) /\ p \in cost.via

\* Sink s at p may have the value v: it is driven by what drove it.
Fine(C, W, p, s, v) ==
  /\ ~Dummied(At(p), s) => Label(design, p, v) = Label(design, p, design[At(p)][s])
  /\ Priced(W[<<p, s>>], p, s)
  /\ Linked(C, W, p, W[<<p, s>>], v)

\* Paths of instances that are left, from the top or from a module that nobody
\* instantiates any more.
Placed(C) ==
  /\ C \subseteq Paths /\ <<>> \in C
  /\ \A p \in C : At(p) \in mods
  /\ \A m \in mods : \E p \in C : At(p) = m
  /\ \A q \in C, n \in insts : ParentOf[n] = At(q) => Append(q, n) \in C
  /\ \A p \in C : \/ Uses(At(p)) = {}
                  \/ \E q \in C, n \in insts : ParentOf[n] = At(q) /\ p = Append(q, n)

Good(C, W, d) ==
  /\ Placed(C)
  /\ \A p \in C : \A s \in DOMAIN d[At(p)] : Fine(C, W, p, s, d[At(p)][s])

\* Instances and modules go: the paths that are left.
LEMMA StillPlaced ==
  ASSUME NEW C, Placed(C), mods' \subseteq mods, insts' \subseteq insts,
         mods \subseteq Modules, insts \subseteq Insts,
         \A n \in insts' : ParentOf[n] \in mods' /\ ModuleOf[n] \in mods',
         Top \in mods'
  PROVE  \E D \in SUBSET C : Placed(D)'
<1> DEFINE Seed(p) == At(p) \in mods' /\ Uses(At(p))' = {}
           Closed(X) == /\ \A p \in C : Seed(p) => p \in X
                        /\ \A q \in X, n \in insts' : ParentOf[n] = At(q) => Append(q, n) \in X
<1>0. \A n \in insts' : n \in insts /\ n \in Insts
  OBVIOUS
<1>d. PICK D \in SUBSET C : D = {p \in C : \A X \in SUBSET C : Closed(X) => p \in X}
  OBVIOUS
<1>1. D \subseteq C /\ \A X \in SUBSET C : Closed(X) => D \subseteq X
  BY <1>d
<1>2. Closed(D)
  <2>1. \A p \in C : Seed(p) => p \in D
    BY <1>d
  <2>2. ASSUME NEW q \in D, NEW n \in insts', ParentOf[n] = At(q)
        PROVE  Append(q, n) \in D
    <3>1. Append(q, n) \in C
      BY <2>2, <1>0 DEF Placed
    <3>2. ASSUME NEW X \in SUBSET C, Closed(X)
          PROVE  Append(q, n) \in X
      BY <2>2, <3>2, <1>d
    <3> QED
      BY <3>1, <3>2, <1>d
  <2> QED
    BY <2>1, <2>2
<1>3. D \subseteq Paths /\ <<>> \in D
  <2>1. Uses(Top)' = {}
    BY <1>0, HierarchyAssumption DEF Uses
  <2>2. At(<<>>) = Top /\ <<>> \in C
    BY Root DEF Placed
  <2> QED
    BY <2>1, <2>2, <1>1, <1>2 DEF Placed
<1>4. \A p \in D : At(p) \in mods'
  <2> DEFINE X == {p \in C : At(p) \in mods'}
  <2>1. \A p \in C : Seed(p) => p \in X
    OBVIOUS
  <2>2. ASSUME NEW q \in X, NEW n \in insts', ParentOf[n] = At(q)
        PROVE  Append(q, n) \in X
    <3>1. Append(q, n) \in C /\ q \in Paths
      BY <2>2, <1>0 DEF Placed
    <3>2. At(Append(q, n)) = ModuleOf[n]
      BY <2>2, <3>1, <1>0, Below
    <3> QED
      BY <3>1, <3>2
  <2>3. Closed(X) /\ X \in SUBSET C
    BY <2>1, <2>2
  <2> QED
    BY <2>3, <1>1
<1>5. \A p \in D : \/ Uses(At(p))' = {}
                   \/ \E q \in D, n \in insts' : ParentOf[n] = At(q) /\ p = Append(q, n)
  <2> DEFINE G(p) == \/ Uses(At(p))' = {}
                     \/ \E q \in D, n \in insts' : ParentOf[n] = At(q) /\ p = Append(q, n)
             X == {p \in D : G(p)}
  <2>1. \A p \in C : Seed(p) => p \in X
    BY <1>2
  <2>2. \A q \in X, n \in insts' : ParentOf[n] = At(q) => Append(q, n) \in X
    BY <1>2
  <2>3. Closed(X) /\ X \in SUBSET C
    BY <2>1, <2>2, <1>1
  <2>4. D \subseteq X
    BY <2>3, <1>1
  <2> QED
    BY <2>4
<1>6. \A m \in mods' : \E p \in D : At(p) = m
  <2> DEFINE S == {m \in mods' : ~\E p \in D : At(p) = m}
  <2>1. S \in SUBSET Modules
    OBVIOUS
  <2>2. ASSUME NEW m \in S
        PROVE  \E n \in Instances(m) : ParentOf[n] \in S
    <3>1. PICK p \in C : At(p) = m
      BY DEF Placed
    <3>2. ~Seed(p)
      BY <3>1, <1>2
    <3>3. PICK n \in insts' : ModuleOf[n] = m
      BY <3>1, <3>2 DEF Uses
    <3>4. ParentOf[n] \in mods' /\ n \in Instances(m)
      BY <3>3, <1>0 DEF Instances
    <3>5. ASSUME NEW q \in D, At(q) = ParentOf[n]
          PROVE  FALSE
      <4>1. Append(q, n) \in D
        BY <3>5, <1>2
      <4>2. At(Append(q, n)) = m
        BY <3>3, <3>5, <1>0, <1>3, Below
      <4> QED
        BY <4>1, <4>2
    <3>6. ParentOf[n] \in S
      BY <3>4, <3>5
    <3> QED
      BY <3>4, <3>6
  <2>3. S = {}
    BY <2>1, <2>2, HierarchyAssumption
  <2> QED
    BY <2>3
<1>7. Placed(D)'
  <2>1. \A q \in D, n \in insts' : ParentOf[n] = At(q) => Append(q, n) \in D
    BY <1>2
  <2> QED
    BY <2>1, <1>3, <1>4, <1>5, <1>6 DEF Placed
<1> QED
  BY <1>1, <1>7

\* Instances, modules and sinks go, and some values become dummies.
LEMMA Shrinking ==
  ASSUME NEW C, NEW W, NEW d, Good(C, W, d),
         mods \subseteq Modules, insts \subseteq Insts,
         mods' \subseteq mods, insts' \subseteq insts, unused \subseteq unused',
         \A n \in insts' : ParentOf[n] \in mods' /\ ModuleOf[n] \in mods',
         Top \in mods', design' = design,
         \A p \in Modules : \A s \in DOMAIN drive'[p] :
           /\ s \in DOMAIN d[p]
           /\ drive'[p][s] = d[p][s] \/ (drive'[p][s][1] = "const" /\ Dummied(p, s)')
  PROVE  \E D, V : Good(D, V, drive)'
<1>1. PICK D \in SUBSET C : Placed(D)'
  BY StillPlaced DEF Good
<1>2. ASSUME NEW p \in D, NEW s \in DOMAIN drive'[At(p)]
      PROVE  Fine(D, W, p, s, drive[At(p)][s])'
  <2> DEFINE v == d[At(p)][s]
             w == drive'[At(p)][s]
  <2>1. p \in C /\ At(p) \in Modules
    BY DEF Good, Placed
  <2>2. s \in DOMAIN d[At(p)]
    BY <2>1
  <2>3. Fine(C, W, p, s, v)
    BY <2>1, <2>2 DEF Good
  <2>4. w = v \/ (w[1] = "const" /\ Dummied(At(p), s)')
    BY <2>1
  <2>5. Dummied(At(p), s) => Dummied(At(p), s)'
    BY DEF Dummied
  <2> HIDE DEF v, w
  <2>6. ~Dummied(At(p), s)' => Label(design', p, w) = Label(design', p, design'[At(p)][s])
    BY <2>3, <2>4, <2>5 DEF Fine
  <2>7. Priced(W[<<p, s>>], p, s)'
    BY <2>3 DEF Fine, Priced
  <2>8. CASE w = v
    <3>1. Linked(C, W, p, W[<<p, s>>], w)
      BY <2>3, <2>8 DEF Fine
    <3> DEFINE c == W[<<p, s>>]
    <3>2. \A n \in insts : ParentOf[n] = At(p) /\ w = Res(n, w[3]) =>
            Under(W[<<Append(p, n), OutSink(w[3])>>], c)
      BY <3>1 DEF Linked
    <3>3. \A q \in C, n \in insts : ParentOf[n] = At(q) /\ p = Append(q, n) /\ w = Arg(w[2]) =>
            Under(W[<<q, OpdSink(n, w[2])>>], c)
      BY <3>1 DEF Linked
    <3> HIDE DEF c
    <3>4. \A n \in insts' : ParentOf[n] = At(p) /\ w = Res(n, w[3]) =>
            Under(W[<<Append(p, n), OutSink(w[3])>>], c)
      BY <3>2
    <3>5. \A q \in D, n \in insts' : ParentOf[n] = At(q) /\ p = Append(q, n) /\ w = Arg(w[2]) =>
            Under(W[<<q, OpdSink(n, w[2])>>], c)
      BY <3>3
    <3> QED
      BY <2>6, <2>7, <3>4, <3>5 DEF Fine, Linked, w, c
  <2>9. CASE w[1] = "const"
    <3>1. \A n : w # Res(n, w[3])
      BY <2>9, Kinds
    <3>2. w # Arg(w[2])
      BY <2>9, Kinds
    <3> QED
      BY <2>6, <2>7, <3>1, <3>2 DEF Fine, Linked, w
  <2> QED
    BY <2>4, <2>8, <2>9
<1>3. Good(D, W, drive)'
  BY <1>1, <1>2 DEF Good
<1> QED
  BY <1>3

LEMMA LinkDown ==
  ASSUME NEW C, NEW W, NEW d, Good(C, W, d), NEW q \in C, NEW n \in insts, ParentOf[n] = At(q),
         NEW o, NEW s \in DOMAIN d[At(q)], d[At(q)][s] = Res(n, o)
  PROVE  Under(W[<<Append(q, n), OutSink(o)>>], W[<<q, s>>])
<1>1. Linked(C, W, q, W[<<q, s>>], d[At(q)][s])
  BY DEF Good, Fine
<1>2. Res(n, o)[3] = o
  BY Kinds
<1> QED
  BY <1>1, <1>2 DEF Linked

LEMMA LinkUp ==
  ASSUME NEW C, NEW W, NEW d, Good(C, W, d), insts \subseteq Insts,
         NEW q \in C, NEW n \in insts, ParentOf[n] = At(q),
         NEW i, NEW s \in DOMAIN d[ModuleOf[n]], d[ModuleOf[n]][s] = Arg(i)
  PROVE  Under(W[<<q, OpdSink(n, i)>>], W[<<Append(q, n), s>>])
<1> DEFINE p == Append(q, n)
<1>0. p \in C /\ At(p) = ModuleOf[n]
  BY Below DEF Good, Placed
<1> HIDE DEF p
<1>1. Linked(C, W, p, W[<<p, s>>], d[At(p)][s])
  BY <1>0 DEF Good, Fine
<1>2. Arg(i)[2] = i
  BY Kinds
<1>3. d[At(p)][s] = Arg(i)
  BY <1>0
<1>4. p = Append(q, n)
  BY DEF p
<1>5. Under(W[<<q, OpdSink(n, i)>>], W[<<p, s>>])
  BY <1>1, <1>2, <1>3, <1>4 DEF Linked
<1> QED
  BY <1>4, <1>5

\* The value of a sink does for a sink further away.
LEMMA Carried ==
  ASSUME NEW C, NEW W, NEW d, Good(C, W, d), NEW p \in C, NEW t \in DOMAIN d[At(p)],
         NEW cost, Under(W[<<p, t>>], cost)
  PROVE  Linked(C, W, p, cost, d[At(p)][t])
<1> DEFINE v == d[At(p)][t]
           c == W[<<p, t>>]
<1>1. Linked(C, W, p, c, v)
  BY DEF Good, Fine
<1> HIDE DEF v, c
<1>2. \A a : Under(a, c) => Under(a, cost)
  <2>1. Under(c, cost)
    BY DEF c
  <2> QED
    BY <2>1, Nearer
<1>3. Linked(C, W, p, cost, v)
  BY <1>1, <1>2 DEF Linked
<1> QED
  BY <1>3 DEF v

\* Every module that is left is somewhere.
LEMMA Somewhere ==
  ASSUME NEW C, NEW W, NEW d, Good(C, W, d), NEW m \in mods
  PROVE  \E q \in C : At(q) = m
BY DEF Good, Placed

----------------------------------------------------------------------------
(* Outputs that only pass something on. *)

LEMMA PassedOn ==
  ASSUME IInv, Whole(drive), NoWireLoop(design), NEW C, NEW W, Good(C, W, drive),
         NEW n \in Uses(node), NEW o, OutSink(o) \in DOMAIN drive[node],
         drive[node][OutSink(o)][1] \in {"arg", "const"},
         NEW w, w = Passed(n, drive[node][OutSink(o)])
  PROVE  /\ Valued(drive, ParentOf[n], w) /\ w # Res(n, o)
         /\ w[1] # "const" => Used(ParentOf[n], w)
         /\ \A q \in C : \A s \in DOMAIN drive[ParentOf[n]] :
              /\ At(q) = ParentOf[n] /\ drive[ParentOf[n]][s] = Res(n, o)
              => Fine(C, W, q, s, w)
<1> DEFINE v == drive[node][OutSink(o)]
           m == ParentOf[n]
<1>0. /\ n \in insts /\ n \in Insts /\ ModuleOf[n] = node /\ node \in mods /\ m \in mods
      /\ node \in Modules /\ m \in Modules /\ design \in Designs /\ insts \subseteq Insts
      /\ \A p \in Modules : DOMAIN drive[p] \subseteq DOMAIN design[p]
  BY DEF IInv, TypeOK, Functional, Uses, Whole
<1>1. Valued(drive, node, v) /\ w = Passed(n, v)
  BY <1>0 DEF Whole
<1>2. \A q \in C : q \in Paths
  BY DEF Good, Placed
<1>3. CASE v[1] = "const"
  <2>1. w = v
    BY <1>1, <1>3 DEF Passed
  <2>2. Valued(drive, m, w) /\ w # Res(n, o)
    BY <2>1, <1>3, Kinds DEF Valued
  <2>3. ASSUME NEW q \in C, NEW s \in DOMAIN drive[m], At(q) = m, drive[m][s] = Res(n, o)
        PROVE  Fine(C, W, q, s, w)
    <3>1. q \in Paths /\ Fine(C, W, q, s, Res(n, o))
      BY <2>3, <1>2 DEF Good
    <3>2. Linked(C, W, q, W[<<q, s>>], w)
      BY <2>1, <1>3, Kinds DEF Linked
    <3>3. ASSUME ~Dummied(m, s)
          PROVE  Label(design, q, Res(n, o)) = Label(design, q, w)
      <4> DEFINE p == Append(q, n)
      <4>1. p \in C /\ At(p) = node
        BY <2>3, <3>1, <1>0, Below DEF Good, Placed
      <4>2. OutSink(o) \in DOMAIN drive[At(p)] /\ drive[At(p)][OutSink(o)] = v
        BY <4>1
      <4>3. ~Dummied(node, OutSink(o))
        <5>1. Valued(drive, m, Res(n, o))
          BY <2>3, <1>0 DEF Whole
        <5>2. <<node, o>> \notin unused
          BY <5>1, <1>0, Kinds DEF Valued
        <5> QED
          BY <5>2, Kinds DEF Dummied
      <4> HIDE DEF p, v
      <4>4. Label(design, p, v) = Label(design, p, design[At(p)][OutSink(o)])
        BY <4>1, <4>2, <4>3 DEF Good, Fine
      <4>5. Label(design, q, Res(n, o)) = Label(design, p, design[node][OutSink(o)])
        BY <3>1, <2>3, <1>0, LabelDown DEF p
      <4>6. Label(design, p, v) = <<<<>>, v>> /\ Label(design, q, v) = <<<<>>, v>>
        BY <1>3, LabelEnds
      <4> QED
        BY <4>1, <4>4, <4>5, <4>6, <2>1
    <3> QED
      BY <2>3, <3>1, <3>2, <3>3 DEF Fine
  <2>4. w[1] = "const"
    BY <2>1, <1>3
  <2> HIDE DEF m, v
  <2> QED
    BY <2>2, <2>3, <2>4 DEF m
<1>4. CASE v[1] = "arg"
  <2> DEFINE i == v[2]
             t == OpdSink(n, i)
  <2>1. v = Arg(i) /\ i \in ins[node] /\ <<node, i>> \notin unused /\ w = drive[m][t]
    BY <1>1, <1>4 DEF Valued, Passed, Operand
  <2>2. i \in In[ModuleOf[n]]
    BY <2>1, <1>0 DEF IInv, TypeOK
  <2>3. t \in DOMAIN drive[m]
    BY <2>1, <2>2, <1>0 DEF Whole
  <2>4. Valued(drive, m, w) /\ Used(m, w)
    BY <2>1, <2>3, <1>0 DEF Whole, Used
  <2>5. ~Dummied(m, t)
    BY <2>1, <1>0, Kinds DEF Dummied
  <2> HIDE DEF i, t, v
  <2>6. ASSUME NEW q \in C, At(q) = m
        PROVE  /\ Append(q, n) \in C /\ At(Append(q, n)) = node
               /\ Under(W[<<q, t>>], W[<<Append(q, n), OutSink(o)>>])
    <3>1. Append(q, n) \in C /\ At(Append(q, n)) = node
      BY <2>6, <1>0, <1>2, Below DEF Good, Placed
    <3>2. drive[ModuleOf[n]][OutSink(o)] = Arg(i) /\ OutSink(o) \in DOMAIN drive[ModuleOf[n]]
      BY <2>1, <1>0 DEF v
    <3>3. Under(W[<<q, OpdSink(n, i)>>], W[<<Append(q, n), OutSink(o)>>])
      BY <2>6, <3>2, <1>0, LinkUp
    <3> QED
      BY <3>1, <3>3 DEF t
  <2>7. w # Res(n, o)
    <3> SUFFICES ASSUME w = Res(n, o)
                 PROVE  FALSE
      OBVIOUS
    <3>1. PICK q \in C : At(q) = m
      BY <1>0, Somewhere
    <3>2. Under(W[<<Append(q, n), OutSink(o)>>], W[<<q, t>>])
      BY <3>1, <2>1, <2>3, <1>0, LinkDown
    <3> QED
      BY <3>1, <3>2, <2>6, Nearer
  <2>8. ASSUME NEW q \in C, NEW s \in DOMAIN drive[m], At(q) = m, drive[m][s] = Res(n, o)
        PROVE  Fine(C, W, q, s, w)
    <3>1. q \in Paths /\ Fine(C, W, q, s, Res(n, o))
      BY <2>8, <1>2 DEF Good
    <3> DEFINE p == Append(q, n)
    <3>2. p \in C /\ At(p) = node /\ Under(W[<<q, t>>], W[<<p, OutSink(o)>>])
      BY <2>8, <2>6
    <3>3. Under(W[<<p, OutSink(o)>>], W[<<q, s>>])
      BY <2>8, <1>0, LinkDown
    <3>4. Under(W[<<q, t>>], W[<<q, s>>])
      BY <3>2, <3>3, Nearer
    <3>5. Linked(C, W, q, W[<<q, s>>], w)
      BY <3>4, <2>1, <2>3, <2>8, Carried
    <3>6. Label(design, q, Res(n, o)) = Label(design, q, w)
      <4>1. ~Dummied(node, OutSink(o))
        <5>1. Valued(drive, m, Res(n, o))
          BY <2>8, <1>0 DEF Whole
        <5>2. <<node, o>> \notin unused
          BY <5>1, <1>0, Kinds DEF Valued
        <5> QED
          BY <5>2, Kinds DEF Dummied
      <4>2. Label(design, q, Res(n, o)) = Label(design, p, design[node][OutSink(o)])
        BY <3>1, <2>8, <1>0, LabelDown
      <4>3. drive[At(p)][OutSink(o)] = Arg(i)
        BY <3>2, <2>1 DEF v
      <4> HIDE DEF p
      <4>4. Label(design, p, Arg(i)) = Label(design, p, design[node][OutSink(o)])
        BY <3>2, <4>1, <4>3 DEF Good, Fine
      <4>5. Label(design, p, Arg(i)) = Label(design, q, design[m][t])
        BY <3>1, <2>3, <2>8, <1>0, LabelUp DEF p, t
      <4>6. Label(design, q, w) = Label(design, q, design[m][t])
        BY <2>1, <2>3, <2>5, <2>8 DEF Good, Fine
      <4> QED
        BY <4>2, <4>4, <4>5, <4>6
    <3> QED
      BY <2>8, <3>1, <3>5, <3>6 DEF Fine
  <2> HIDE DEF m
  <2> QED
    BY <2>4, <2>7, <2>8 DEF m
<1>5. v[1] \in {"arg", "const"}
  OBVIOUS
<1> QED
  BY <1>3, <1>4, <1>5

LEMMA StillGood ==
  ASSUME mods \subseteq Modules, NEW C, NEW W, NEW d, Good(C, W, d), NEW e,
         \A m \in Modules : DOMAIN e[m] = DOMAIN d[m],
         \A p \in C : \A s \in DOMAIN d[At(p)] :
           e[At(p)][s] = d[At(p)][s] \/ Fine(C, W, p, s, e[At(p)][s])
  PROVE  Good(C, W, e)
<1>1. ASSUME NEW p \in C, NEW s \in DOMAIN e[At(p)]
      PROVE  Fine(C, W, p, s, e[At(p)][s])
  <2>1. At(p) \in Modules
    BY DEF Good, Placed
  <2>2. s \in DOMAIN d[At(p)]
    BY <2>1
  <2>3. Fine(C, W, p, s, d[At(p)][s])
    BY <2>2 DEF Good
  <2> QED
    BY <2>2, <2>3
<1> QED
  BY <1>1 DEF Good

\* The bodies change only.
LEMMA NextBodies ==
  ASSUME UNCHANGED <<design, mods, insts, ins, unused>>, Whole(drive'),
         NEW C, NEW W, Good(C, W, drive')
  PROVE  Whole(drive)' /\ Good(C, W, drive)'
<1>1. Whole(drive)'
  BY DEF Whole, Valued, Dummied
<1>2. Placed(C)'
  BY DEF Good, Placed, Uses
<1>3. ASSUME NEW p \in C, NEW s \in DOMAIN drive'[At(p)]
      PROVE  Fine(C, W, p, s, drive[At(p)][s])'
  <2>1. Fine(C, W, p, s, drive'[At(p)][s])
    BY DEF Good
  <2> QED
    BY <2>1 DEF Fine, Linked, Priced, Dummied
<1> QED
  BY <1>1, <1>2, <1>3 DEF Good

LEMMA ReplaceFacts ==
  ASSUME Functional, NEW p \in Modules, NEW from, NEW to, NEW e, e = Replace(drive, p, from, to)
  PROVE  \A m \in Modules :
           /\ DOMAIN e[m] = DOMAIN drive[m]
           /\ \A s \in DOMAIN drive[m] :
                e[m][s] = IF m = p /\ drive[m][s] = from THEN to ELSE drive[m][s]
<1>1. e = [m \in Modules |-> IF m = p
                             THEN [s \in DOMAIN drive[p] |->
                                     IF drive[p][s] = from THEN to ELSE drive[p][s]]
                             ELSE drive[m]]
  BY DEF Replace, Functional
<1> QED
  BY <1>1

LEMMA MoveOutSound ==
  ASSUME IInv, Whole(drive), Moving, Tags, NoWireLoop(design),
         NEW C, NEW W, Good(C, W, drive), NEW n \in Insts, NEW o \in movedOuts, MoveOut(n, o)
  PROVE  Whole(drive)' /\ Moving' /\ Tags' /\ Good(C, W, drive)'
<1> DEFINE m == ParentOf[n]
           w == Passed(n, drive[node][OutSink(o)])
<1>0. /\ step = "moveOuts" /\ <<n, o>> \in pending /\ pending' = pending \ {<<n, o>>}
      /\ UNCHANGED <<design, option, mods, insts, ins, unused, node, step, first,
                     movedIns, movedOuts>>
      /\ m \in Modules /\ node \in Modules /\ mods \subseteq Modules /\ insts \subseteq Insts
      /\ Functional /\ design \in Designs
      /\ \A p \in Modules : DOMAIN drive[p] \subseteq DOMAIN design[p]
  BY HierarchyAssumption DEF MoveOut, IInv, TypeOK, Functional
<1>1. n \in Uses(node) /\ movedOuts \subseteq MoveableOuts
  BY <1>0 DEF Moving
<1>2. n \in insts /\ ModuleOf[n] = node /\ m # node /\ m \in mods
  BY <1>1, NotSelf DEF Uses, Whole
<1>3. OutSink(o) \in DOMAIN drive[node] /\ drive[node][OutSink(o)][1] \in {"arg", "const"}
  <2>1. o \in Outs(node) /\ drive[node][OutSink(o)][1] \in {"arg", "const"}
    BY <1>1 DEF MoveableOuts
  <2>2. PICK s \in DOMAIN drive[node] : s[1] = "out" /\ s[2] = o
    BY <2>1 DEF Outs
  <2>3. s = OutSink(o)
    BY <2>2, <1>0, Sinks
  <2> QED
    BY <2>1, <2>2, <2>3
<1>4. drive' = Replace(drive, m, Res(n, o), w)
  BY DEF MoveOut
<1>5. /\ Valued(drive, m, w) /\ w # Res(n, o)
      /\ w[1] # "const" => Used(m, w)
      /\ \A q \in C : \A s \in DOMAIN drive[m] :
           At(q) = m /\ drive[m][s] = Res(n, o) => Fine(C, W, q, s, w)
  BY <1>1, <1>3, PassedOn
<1> HIDE DEF m, w
<1>6. \A p \in Modules :
        /\ DOMAIN drive'[p] = DOMAIN drive[p]
        /\ \A s \in DOMAIN drive[p] :
             drive'[p][s] = IF p = m /\ drive[p][s] = Res(n, o) THEN w ELSE drive[p][s]
  BY <1>0, <1>4, ReplaceFacts
<1>7. Whole(drive')
  <2>1. ASSUME NEW p \in mods, NEW s \in DOMAIN drive[p]
        PROVE  drive'[p][s] = drive[p][s] \/ (Valued(drive, p, drive'[p][s]) /\ ~Dummied(p, s))
    <3>1. p \in Modules
      BY <1>0
    <3>2. CASE p = m /\ drive[p][s] = Res(n, o)
      <4>1. ~Dummied(p, s)
        BY <3>2, Kinds DEF Whole
      <4> QED
        BY <3>1, <3>2, <4>1, <1>5, <1>6
    <3> QED
      BY <3>1, <3>2, <1>6
  <2>2. \A k \in insts : ModuleOf[k] \in Modules /\ ParentOf[k] \in Modules
    BY <1>0 DEF Whole
  <2> QED
    BY <2>1, <2>2, <1>0, <1>6, Revalue
<1>8. Good(C, W, drive')
  <2>1. ASSUME NEW p \in C, NEW s \in DOMAIN drive[At(p)]
        PROVE  drive'[At(p)][s] = drive[At(p)][s] \/ Fine(C, W, p, s, drive'[At(p)][s])
    <3>1. At(p) \in Modules
      BY <1>0 DEF Good, Placed
    <3> QED
      BY <3>1, <1>5, <1>6
  <2> QED
    BY <2>1, <1>0, <1>6, StillGood
<1>9. Whole(drive)' /\ Good(C, W, drive)'
  BY <1>0, <1>7, <1>8, NextBodies
<1>10. Tags'
  BY <1>0 DEF Tags, Uses
<1>11. Moving'
  <2>1. pending' \subseteq Uses(node)' \X movedOuts'
    BY <1>0 DEF Moving, Uses
  <2>2. movedOuts' \subseteq MoveableOuts'
    <3>1. drive'[node] = drive[node]
      BY <1>0, <1>2, <1>4 DEF Replace, Functional
    <3> QED
      BY <3>1, <1>0, <1>1 DEF MoveableOuts, Outs, Ignored
  <2>3. ASSUME NEW k \in Uses(node)', NEW x \in movedOuts', <<k, x>> \notin pending'
        PROVE  ~Used(ParentOf[k], Res(k, x))'
    <3>1. k \in Uses(node) /\ x \in movedOuts /\ ParentOf[k] \in Modules
      BY <2>3, <1>0 DEF Uses, Whole
    <3> SUFFICES ASSUME NEW s \in DOMAIN drive'[ParentOf[k]],
                        drive'[ParentOf[k]][s] = Res(k, x)
                 PROVE  FALSE
      BY DEF Used
    <3>2. s \in DOMAIN drive[ParentOf[k]]
      BY <3>1, <1>6
    <3>3. CASE <<k, x>> = <<n, o>>
      <4>1. k = n /\ x = o
        BY <3>3
      <4> QED
        BY <4>1, <3>1, <3>2, <1>5, <1>6 DEF m
    <3>4. CASE <<k, x>> # <<n, o>>
      <4>1. ~Used(ParentOf[k], Res(k, x))
        BY <2>3, <3>1, <3>4, <1>0 DEF Moving
      <4>2. drive[ParentOf[k]][s] # Res(k, x)
        BY <4>1, <3>2 DEF Used
      <4>3. ParentOf[k] = m /\ w = Res(k, x)
        BY <3>1, <3>2, <4>2, <1>6
      <4> QED
        BY <4>1, <4>3, <1>5, Kinds
    <3> QED
      BY <3>3, <3>4
  <2> QED
    BY <2>1, <2>2, <2>3, <1>0 DEF Moving
<1> QED
  BY <1>9, <1>10, <1>11

LEMMA RewireModuleSound ==
  ASSUME IInv, Whole(drive), Moving, Tags, NEW C, NEW W, Good(C, W, drive), RewireModule
  PROVE  Whole(drive)' /\ Moving' /\ Tags' /\ Good(C, W, drive)'
<1>0. /\ step = "outs" /\ movedOuts = {}
      /\ UNCHANGED <<design, option, graph, node, first, movedIns>>
  BY DEF RewireModule, IInv, Places
<1>1. Whole(drive') /\ Good(C, W, drive')
  BY <1>0 DEF graph
<1>2. Whole(drive)' /\ Good(C, W, drive)'
  BY <1>0, <1>1, NextBodies DEF graph
<1>3. Tags'
  <2>1. Uses(node)' = Uses(node)
    BY <1>0 DEF graph, Uses
  <2>2. Uses(node) = {} => movedOuts' = {}
    BY <1>0 DEF RewireModule
  <2> QED
    BY <1>0, <2>1, <2>2 DEF graph, Tags
<1>4. CASE Uses(node) = {} \/ Kept(node)
  <2>1. step' = "combineOuts"
    BY <1>4 DEF RewireModule
  <2> QED
    BY <1>2, <1>3, <2>1 DEF Moving
<1>5. CASE ~(Uses(node) = {} \/ Kept(node))
  <2>1. step' = "moveOuts" /\ movedOuts' = MoveableOuts /\ pending' = Uses(node) \X MoveableOuts
    BY <1>5 DEF RewireModule
  <2>2. Uses(node)' = Uses(node) /\ MoveableOuts' = MoveableOuts
    BY <1>0 DEF graph, Uses, MoveableOuts, Outs, Ignored
  <2> QED
    BY <1>2, <1>3, <2>1, <2>2 DEF Moving
<1> QED
  BY <1>4, <1>5

----------------------------------------------------------------------------
(* Inputs that all instances drive alike. *)

LEMMA FindMoveableInsSound ==
  ASSUME IInv, Whole(drive), Moving, Tags, NEW C, NEW W, Good(C, W, drive),
         NEW n \in Insts, FindMoveableIns(n)
  PROVE  Whole(drive)' /\ Moving' /\ Tags' /\ Good(C, W, drive)'
<1>0. /\ step = "moveOuts" /\ pending = {} /\ n \in Uses(node) /\ first' = {n}
      /\ movedIns' = MoveableIns(n) /\ pending' = MoveableIns(n) /\ step' = "moveIns"
      /\ UNCHANGED <<design, option, graph, node, movedOuts>>
  BY DEF FindMoveableIns
<1>1. Whole(drive') /\ Good(C, W, drive')
  BY <1>0 DEF graph
<1>2. Whole(drive)' /\ Good(C, W, drive)'
  BY <1>0, <1>1, NextBodies DEF graph
<1>3. Uses(node)' = Uses(node) /\ MoveableIns(n)' = MoveableIns(n)
  BY <1>0 DEF graph, Uses, MoveableIns, Ignored, Operand
<1>4. Tags'
  BY <1>0, <1>3 DEF Tags, graph
<1>5. Unreferenced
  BY <1>0 DEF Moving, Unreferenced
<1>6. Unreferenced'
  BY <1>0, <1>3, <1>5 DEF Unreferenced, Used, graph
<1>7. Moving'
  BY <1>0, <1>3, <1>6 DEF Moving
<1> QED
  BY <1>2, <1>4, <1>7

\* Two instances would share a feedback.
LEMMA Sharing ==
  ASSUME IInv, Whole(drive), NoWireLoop(design), NEW C, NEW W, Good(C, W, drive),
         NEW q \in C, NEW n \in insts, NEW k \in insts, n # k,
         ParentOf[n] = At(q), ParentOf[k] = At(q), ModuleOf[n] = node, ModuleOf[k] = node,
         NEW i \in ins[node], <<node, i>> \notin unused,
         NEW o, drive[At(q)][OpdSink(n, i)] = Res(n, o), drive[At(q)][OpdSink(k, i)] = Res(n, o)
  PROVE  SharedFeedback(design)
<1> DEFINE p == Append(q, n)
           m == At(q)
<1>0. /\ design \in Designs /\ n \in Insts /\ k \in Insts /\ node \in Modules /\ i \in In[node]
      /\ q \in Paths /\ m \in Modules /\ m \in mods /\ insts \subseteq Insts
      /\ \A a \in Modules : DOMAIN drive[a] \subseteq DOMAIN design[a]
  BY DEF IInv, TypeOK, Functional, Good, Placed
<1>1. p \in C /\ At(p) = node
  BY <1>0, Below DEF Good, Placed
<1>2. ASSUME NEW l \in {n, k}
      PROVE  /\ OpdSink(l, i) \in DOMAIN drive[m] /\ OpdSink(l, i) \in DOMAIN design[m]
             /\ ~Dummied(m, OpdSink(l, i)) /\ drive[m][OpdSink(l, i)] = Res(n, o)
  <2>1. OpdSink(l, i) \in DOMAIN drive[m]
    BY <1>0 DEF Whole
  <2>2. ~Dummied(m, OpdSink(l, i))
    BY Kinds DEF Dummied
  <2> QED
    BY <2>1, <2>2, <1>0
<1>3. Valued(drive, m, Res(n, o))
  BY <1>0, <1>2 DEF Whole
<1>4. OutSink(o) \in DOMAIN drive[node]
  BY <1>3, Kinds DEF Valued
<1>5. p \in W[<<p, OutSink(o)>>].via
  BY <1>1, <1>4 DEF Good, Fine, Priced
<1>6. ASSUME NEW l \in {n, k}
      PROVE  /\ Source(design, Insts, <<q, design[m][OpdSink(l, i)]>>) = Label(design, q, Res(n, o))
             /\ Passes(design, <<q, design[m][OpdSink(l, i)]>>, p)
  <2> DEFINE t == OpdSink(l, i)
  <2>1. t \in DOMAIN drive[m] /\ t \in DOMAIN design[m] /\ drive[m][t] = Res(n, o) /\ ~Dummied(m, t)
    BY <1>2
  <2> HIDE DEF t
  <2>2. Fine(C, W, q, t, Res(n, o))
    BY <2>1 DEF Good
  <2>3. Label(design, q, Res(n, o)) = Label(design, q, design[m][t])
    BY <2>1, <2>2 DEF Fine
  <2>4. Source(design, Insts, <<q, design[m][t]>>) = Label(design, q, Res(n, o))
    BY <2>1, <2>3, <1>0, LabelSame
  <2>5. Under(W[<<p, OutSink(o)>>], W[<<q, t>>])
    BY <2>1, LinkDown
  <2>6. p \in Cost(design, q, t).via
    BY <1>5, <2>2, <2>5 DEF Fine, Priced, Under, AtMost
  <2>7. p \in Via(design, <<q, design[m][t]>>)
    BY <2>6 DEF Cost
  <2>8. Passes(design, <<q, design[m][t]>>, p)
    BY <2>7 DEF Via, Passes
  <2> QED
    BY <2>4, <2>8 DEF t
<1>7. \E j \in In[ModuleOf[n]] :
        /\ Source(design, Insts, <<q, design[At(q)][OpdSink(n, j)]>>)
             = Source(design, Insts, <<q, design[At(q)][OpdSink(k, j)]>>)
        /\ Passes(design, <<q, design[At(q)][OpdSink(n, j)]>>, Append(q, n))
        /\ Passes(design, <<q, design[At(q)][OpdSink(k, j)]>>, Append(q, n))
  BY <1>0, <1>6
<1> QED
  BY <1>0, <1>7 DEF SharedFeedback

LEMMA SeenInside ==
  ASSUME IInv, Whole(drive), NoWireLoop(design), ~SharedFeedback(design),
         NEW C, NEW W, Good(C, W, drive), NEW n \in Uses(node), NEW i \in MoveableIns(n),
         <<node, i>> \notin unused, NEW w, w = Seen(Operand(n, i))
  PROVE  /\ Valued(drive, node, w) /\ w # Arg(i)
         /\ w[1] # "const" => Used(node, w)
         /\ \A p \in C : \A s \in DOMAIN drive[node] :
              At(p) = node /\ drive[node][s] = Arg(i) => Fine(C, W, p, s, w)
<1> DEFINE u == Operand(n, i)
           m == ParentOf[n]
<1>0. /\ n \in insts /\ n \in Insts /\ ModuleOf[n] = node /\ node \in mods /\ m \in mods
      /\ node \in Modules /\ m \in Modules /\ design \in Designs /\ insts \subseteq Insts
      /\ i \in ins[node] /\ i \in In[node]
      /\ \A p \in Modules : DOMAIN drive[p] \subseteq DOMAIN design[p]
  BY DEF IInv, TypeOK, Functional, Uses, Whole, MoveableIns
<1>1. /\ OpdSink(n, i) \in DOMAIN drive[m] /\ u = drive[m][OpdSink(n, i)]
      /\ Valued(drive, m, u)
  <2>1. OpdSink(n, i) \in DOMAIN drive[m]
    BY <1>0 DEF Whole
  <2> QED
    BY <2>1, <1>0 DEF Whole, Operand
<1>2. /\ MoveableUp(n, u)
      /\ \A k \in Uses(node) : k = n \/ Equivalent(u, n, Operand(k, i), k)
  BY DEF MoveableIns
\* Where the module is, it is an instance, driven by some v.
<1>3. ASSUME NEW p \in C, At(p) = node
      PROVE  \E q \in C, k \in insts :
               /\ ParentOf[k] = At(q) /\ p = Append(q, k) /\ k \in Insts /\ k \in Uses(node)
               /\ ModuleOf[k] = node /\ q \in Paths /\ p \in Paths /\ At(q) \in mods
               /\ At(q) \in Modules
               /\ OpdSink(k, i) \in DOMAIN drive[At(q)]
               /\ Operand(k, i) = drive[At(q)][OpdSink(k, i)]
               /\ \A s \in DOMAIN drive[node] : drive[node][s] = Arg(i) =>
                    Under(W[<<q, OpdSink(k, i)>>], W[<<p, s>>])
               /\ Label(design, p, Arg(i)) = Label(design, q, Operand(k, i))
  <2>1. Uses(At(p)) # {}
    BY <1>3
  <2>2. PICK q \in C, k \in insts : ParentOf[k] = At(q) /\ p = Append(q, k)
    BY <2>1 DEF Good, Placed
  <2>3. q \in Paths /\ p \in Paths /\ At(q) \in mods /\ At(q) \in Modules /\ k \in Insts
    BY <1>0 DEF Good, Placed, IInv, TypeOK
  <2>4. ModuleOf[k] = node /\ k \in Uses(node)
    BY <2>2, <2>3, <1>3, Below DEF Uses
  <2>5. /\ OpdSink(k, i) \in DOMAIN drive[At(q)]
        /\ Operand(k, i) = drive[At(q)][OpdSink(k, i)]
    BY <2>2, <2>4, <1>0 DEF Whole, Operand
  <2>6. \A s \in DOMAIN drive[node] : drive[node][s] = Arg(i) =>
          Under(W[<<q, OpdSink(k, i)>>], W[<<p, s>>])
    BY <2>2, <2>4, <1>0, LinkUp
  <2>7. OpdSink(k, i) \in DOMAIN design[At(q)]
    BY <2>3, <2>5, <1>0
  <2>8. Label(design, p, Arg(i)) = Label(design, q, design[At(q)][OpdSink(k, i)])
    BY <2>2, <2>3, <2>7, LabelUp
  <2>9. ~Dummied(At(q), OpdSink(k, i))
    BY <2>4, Kinds DEF Dummied
  <2>10. Label(design, q, Operand(k, i)) = Label(design, q, design[At(q)][OpdSink(k, i)])
    BY <2>5, <2>9 DEF Good, Fine
  <2> QED
    BY <2>2, <2>3, <2>4, <2>5, <2>6, <2>8, <2>10
<1> HIDE DEF u
<1>4. CASE u[1] = "const"
  <2>1. w = u /\ w[1] = "const"
    BY <1>4 DEF Seen, u
  <2>2. Valued(drive, node, w) /\ w # Arg(i)
    BY <2>1, Kinds DEF Valued
  <2>3. ASSUME NEW p \in C, NEW s \in DOMAIN drive[node], At(p) = node, drive[node][s] = Arg(i)
        PROVE  Fine(C, W, p, s, w)
    <3>1. PICK q \in C, k \in insts : /\ k \in Uses(node)
                                      /\ Label(design, p, Arg(i)) = Label(design, q, Operand(k, i))
      BY <2>3, <1>3
    <3>2. Operand(k, i) = u
      BY <3>1, <1>2, <1>4 DEF Equivalent, u
    <3>3. Label(design, q, u) = <<<<>>, u>> /\ Label(design, p, u) = <<<<>>, u>>
      BY <1>4, LabelEnds
    <3>4. Fine(C, W, p, s, Arg(i))
      BY <2>3 DEF Good
    <3>5. Linked(C, W, p, W[<<p, s>>], w)
      BY <2>1, Kinds DEF Linked
    <3> QED
      BY <3>1, <3>2, <3>3, <3>4, <3>5, <2>1 DEF Fine
  <2> QED
    BY <2>1, <2>2, <2>3
<1>5. CASE u[1] = "res" /\ u[2] = n
  <2> DEFINE o == u[3]
             t == OutSink(o)
  <2>1. /\ u = Res(n, o) /\ t \in DOMAIN drive[node] /\ <<node, o>> \notin unused
        /\ w = drive[node][t]
    BY <1>0, <1>1, <1>5 DEF Valued, Seen, u
  <2>2. Valued(drive, node, w) /\ Used(node, w)
    BY <2>1, <1>0 DEF Whole, Used
  <2>3. ~Dummied(node, t)
    BY <2>1, Kinds DEF Dummied
  <2> HIDE DEF o
  <2>4. w # Arg(i)
    <3> SUFFICES ASSUME w = Arg(i)
                 PROVE  FALSE
      OBVIOUS
    <3>1. PICK q \in C : At(q) = m
      BY <1>0, Somewhere
    <3>2. Under(W[<<Append(q, n), t>>], W[<<q, OpdSink(n, i)>>])
      BY <3>1, <1>0, <1>1, <2>1, LinkDown
    <3>3. Under(W[<<q, OpdSink(n, i)>>], W[<<Append(q, n), t>>])
      BY <3>1, <1>0, <2>1, LinkUp
    <3> QED
      BY <3>2, <3>3, Nearer
  <2>5. ASSUME NEW p \in C, NEW s \in DOMAIN drive[node], At(p) = node, drive[node][s] = Arg(i)
        PROVE  Fine(C, W, p, s, w)
    <3>1. PICK q \in C, k \in insts :
            /\ ParentOf[k] = At(q) /\ p = Append(q, k) /\ k \in Insts /\ k \in Uses(node)
            /\ ModuleOf[k] = node /\ q \in Paths /\ p \in Paths /\ At(q) \in mods
            /\ At(q) \in Modules
            /\ OpdSink(k, i) \in DOMAIN drive[At(q)]
            /\ Operand(k, i) = drive[At(q)][OpdSink(k, i)]
            /\ Under(W[<<q, OpdSink(k, i)>>], W[<<p, s>>])
            /\ Label(design, p, Arg(i)) = Label(design, q, Operand(k, i))
      BY <2>5, <1>3
    <3>2. Operand(k, i) = Res(k, o)
      <4>1. CASE k = n
        BY <4>1, <2>1 DEF u
      <4>2. CASE k # n
        <5>1. Equivalent(u, n, Operand(k, i), k)
          BY <4>2, <3>1, <1>2
        <5>2. ASSUME u = Operand(k, i), ParentOf[n] = ParentOf[k]
              PROVE  FALSE
          <6>1. drive[At(q)][OpdSink(n, i)] = Res(n, o) /\ drive[At(q)][OpdSink(k, i)] = Res(n, o)
            BY <5>2, <3>1, <2>1, <1>1
          <6> QED
            BY <6>1, <5>2, <4>2, <3>1, <1>0, Sharing
        <5>3. Operand(k, i)[1] = "res" /\ Operand(k, i)[2] = k /\ Operand(k, i)[3] = u[3]
          BY <5>1, <5>2, <1>5 DEF Equivalent
        <5>4. Valued(drive, At(q), Operand(k, i))
          BY <3>1 DEF Whole
        <5>5. Operand(k, i) = Res(Operand(k, i)[2], Operand(k, i)[3])
          BY <5>3, <5>4 DEF Valued
        <5> QED
          BY <5>3, <5>5 DEF o
      <4> QED
        BY <4>1, <4>2
    <3>3. Under(W[<<p, t>>], W[<<q, OpdSink(k, i)>>])
      BY <3>1, <3>2, LinkDown
    <3>4. Under(W[<<p, t>>], W[<<p, s>>])
      BY <3>1, <3>3, Nearer
    <3>5. Linked(C, W, p, W[<<p, s>>], w)
      BY <3>4, <2>1, <2>5, Carried
    <3>6. Label(design, q, Res(k, o)) = Label(design, p, design[node][t])
      <4>1. OutSink(o) \in DOMAIN design[ModuleOf[k]]
        BY <3>1, <2>1, <1>0
      <4>2. Label(design, q, Res(k, o)) = Label(design, Append(q, k), design[ModuleOf[k]][OutSink(o)])
        BY <3>1, <4>1, LabelDown
      <4> QED
        BY <3>1, <4>2
    <3>7. Label(design, p, w) = Label(design, p, design[node][t])
      BY <2>1, <2>3, <2>5 DEF Good, Fine
    <3>8. Fine(C, W, p, s, Arg(i))
      BY <2>5 DEF Good
    <3> QED
      BY <3>1, <3>2, <3>5, <3>6, <3>7, <3>8 DEF Fine
  <2> QED
    BY <2>2, <2>4, <2>5
<1> QED
  BY <1>2, <1>4, <1>5 DEF MoveableUp

LEMMA MoveInSound ==
  ASSUME IInv, Whole(drive), Moving, Tags, NoWireLoop(design), ~SharedFeedback(design),
         NEW C, NEW W, Good(C, W, drive), NEW i \in movedIns, MoveIn(i)
  PROVE  Whole(drive)' /\ Moving' /\ Tags' /\ Good(C, W, drive)'
<1>0. /\ step = "moveIns" /\ i \in pending /\ pending' = pending \ {i}
      /\ UNCHANGED <<design, option, mods, insts, ins, unused, node, step, first,
                     movedIns, movedOuts>>
      /\ node \in Modules /\ mods \subseteq Modules /\ insts \subseteq Insts
      /\ Functional /\ design \in Designs
      /\ \A p \in Modules : DOMAIN drive[p] \subseteq DOMAIN design[p]
  BY DEF MoveIn, IInv, TypeOK, Functional
<1>1. PICK n \in Uses(node) : /\ first = {n} /\ movedIns \subseteq MoveableIns(n)
                              /\ \A j \in movedIns \ pending : ~Used(node, Arg(j))
  BY <1>0 DEF Moving
<1> DEFINE w == Seen(Operand(n, i))
<1>2. node \in mods /\ \A k \in Uses(node) : ParentOf[k] # node /\ ParentOf[k] \in Modules
  <2>1. n \in insts /\ ModuleOf[n] = node
    BY DEF Uses
  <2> QED
    BY <1>0, <2>1, NotSelf DEF Uses, Whole
<1>3. i \in MoveableIns(n) /\ <<node, i>> \notin unused
  <2>1. i \notin Tagged(unused \cup option.ports, node)
    BY <1>1 DEF MoveableIns, Ignored
  <2> QED
    BY <1>1, <2>1 DEF Tagged
<1>4. drive' = Replace(drive, node, Arg(i), w)
  BY <1>1 DEF MoveIn
<1>5. /\ Valued(drive, node, w) /\ w # Arg(i)
      /\ w[1] # "const" => Used(node, w)
      /\ \A p \in C : \A s \in DOMAIN drive[node] :
           At(p) = node /\ drive[node][s] = Arg(i) => Fine(C, W, p, s, w)
  BY <1>3, SeenInside
<1> HIDE DEF w
<1>6. \A p \in Modules :
        /\ DOMAIN drive'[p] = DOMAIN drive[p]
        /\ \A s \in DOMAIN drive[p] :
             drive'[p][s] = IF p = node /\ drive[p][s] = Arg(i) THEN w ELSE drive[p][s]
  BY <1>0, <1>4, ReplaceFacts
<1>7. Whole(drive')
  <2>1. ASSUME NEW p \in mods, NEW s \in DOMAIN drive[p]
        PROVE  drive'[p][s] = drive[p][s] \/ (Valued(drive, p, drive'[p][s]) /\ ~Dummied(p, s))
    <3>1. p \in Modules
      BY <1>0
    <3>2. CASE p = node /\ drive[p][s] = Arg(i)
      <4>1. ~Dummied(p, s)
        BY <3>2, Kinds DEF Whole
      <4> QED
        BY <3>1, <3>2, <4>1, <1>5, <1>6
    <3> QED
      BY <3>1, <3>2, <1>6
  <2>2. \A k \in insts : ModuleOf[k] \in Modules /\ ParentOf[k] \in Modules
    BY <1>0 DEF Whole
  <2> QED
    BY <2>1, <2>2, <1>0, <1>6, Revalue
<1>8. Good(C, W, drive')
  <2>1. ASSUME NEW p \in C, NEW s \in DOMAIN drive[At(p)]
        PROVE  drive'[At(p)][s] = drive[At(p)][s] \/ Fine(C, W, p, s, drive'[At(p)][s])
    <3>1. At(p) \in Modules
      BY <1>0 DEF Good, Placed
    <3> QED
      BY <3>1, <1>5, <1>6
  <2> QED
    BY <2>1, <1>0, <1>6, StillGood
<1>9. Whole(drive)' /\ Good(C, W, drive)'
  BY <1>0, <1>7, <1>8, NextBodies
<1>10. Tags'
  BY <1>0 DEF Tags, Uses
<1>11. \A p \in Modules \ {node} : drive'[p] = drive[p]
  BY <1>0, <1>4 DEF Replace, Functional
<1>12. Uses(node)' = Uses(node)
  BY <1>0 DEF Uses
<1>13. Unreferenced'
  BY <1>0, <1>2, <1>11, <1>12 DEF Unreferenced, Moving, Used
<1>14. MoveableIns(n)' = MoveableIns(n)
  <2>1. \A k \in Uses(node) : \A j : Operand(k, j)' = Operand(k, j)
    BY <1>2, <1>11 DEF Operand
  <2>2. ins'[node'] \ Ignored(node)' = ins[node] \ Ignored(node)
    BY <1>0 DEF Ignored
  <2> QED
    BY <2>1, <2>2, <1>12 DEF MoveableIns
<1>15. \A j \in movedIns \ pending' : ~Used(node, Arg(j))'
  <2> SUFFICES ASSUME NEW j \in movedIns \ pending', NEW s \in DOMAIN drive'[node],
                      drive'[node][s] = Arg(j)
               PROVE  FALSE
    BY <1>0 DEF Used
  <2>1. s \in DOMAIN drive[node]
    BY <1>0, <1>6
  <2>2. CASE j = i
    BY <2>1, <2>2, <1>0, <1>5, <1>6
  <2>3. CASE j # i
    <3>1. ~Used(node, Arg(j))
      BY <2>3, <1>0, <1>1
    <3>2. drive[node][s] # Arg(j)
      BY <2>1, <3>1 DEF Used
    <3>3. w = Arg(j)
      BY <2>1, <3>2, <1>0, <1>6
    <3> QED
      BY <3>1, <3>3, <1>5, Kinds
  <2> QED
    BY <2>2, <2>3
<1>16. Moving'
  BY <1>0, <1>1, <1>12, <1>13, <1>14, <1>15 DEF Moving
<1> QED
  BY <1>9, <1>10, <1>16

----------------------------------------------------------------------------
(* Ports go. *)

\* updateNode, called or not, after a rewrite d.
LEMMA UpdateSound ==
  ASSUME IInv, Tags, NEW s \in {"unusedInsts", "rewireInsts", "combineInsts"},
         NEW d, d = [m \in Modules |-> d[m]], Whole(d),
         \A m \in Modules : DOMAIN d[m] = DOMAIN drive[m],
         NEW C, NEW W, Good(C, W, d),
         NEW inputs, inputs \subseteq ins[node],
         NEW outputs, outputs \subseteq Outs(node), Uses(node) = {} => outputs = {},
         \A i \in inputs : \A t \in DOMAIN d[node] : d[node][t] # Arg(i),
         \A n \in Uses(node), o \in outputs :
           \A t \in DOMAIN d[ParentOf[n]] : d[ParentOf[n]][t] # Res(n, o),
         Tagged(option.ports, node) \cap (inputs \cup outputs) = {},
         Update(s, inputs, outputs, d), UNCHANGED <<design, option, mods, insts, node>>,
         s = "rewireInsts" => movedOuts' = {}, s = "unusedInsts" => movedOuts' = movedOuts,
         s = "combineInsts" => movedOuts' = {}
  PROVE  /\ Whole(drive)' /\ Tags' /\ step' \notin {"moveOuts", "moveIns"}
         /\ step' = "combineIns" => FALSE
         /\ \E D, V : Good(D, V, drive)'
<1>0. /\ mods \subseteq Modules /\ insts \subseteq Insts /\ Functional /\ mods' = mods
      /\ insts' = insts /\ design' = design
  BY DEF IInv, TypeOK
<1>s. step' \in {s, After[s]}
  BY DEF Update
<1>1. step' \notin {"moveOuts", "moveIns", "combineIns"}
  BY <1>s DEF After
<1>u. Uses(node)' = Uses(node)
  BY <1>0 DEF Uses
<1>2. CASE inputs \cup outputs = {}
  <2>1. drive' = d /\ UNCHANGED <<ins, unused>>
    BY <1>2 DEF Update
  <2>2. Whole(drive') /\ Good(C, W, drive')
    BY <2>1
  <2>3. Whole(drive)' /\ Good(C, W, drive)'
    BY <2>1, <2>2, <1>0, NextBodies
  <2>4. Tags'
    BY <2>1, <1>u DEF Tags
  <2> QED
    BY <1>1, <2>3, <2>4
<1>3. CASE inputs \cup outputs # {}
  <2>1. UpdateNode(node, inputs, outputs, d)
    BY <1>3 DEF Update
  <2>2. /\ Whole(drive)' /\ unused \subseteq unused'
        /\ unused' \cap option'.ports = {}
        /\ \A x \in unused' : x[1] = Top => x[2] \in In[Top]
        /\ \A p \in Modules : \A t \in DOMAIN drive'[p] :
             /\ t \in DOMAIN d[p]
             /\ drive'[p][t] = d[p][t] \/ (drive'[p][t][1] = "const" /\ Dummied(p, t)')
    BY <2>1, UpdateWhole
  <2>3. Tags'
    BY <2>2, <1>u DEF Tags
  <2>4. Top \in mods'
    <3>1. <<>> \in C /\ \A p \in C : At(p) \in mods
      BY DEF Good, Placed
    <3> QED
      BY <3>1, <1>0, Root
  <2>5. \A n \in insts' : ParentOf[n] \in mods' /\ ModuleOf[n] \in mods'
    BY <1>0 DEF Whole
  <2>6. mods' \subseteq mods /\ insts' \subseteq insts
    BY <1>0
  <2>7. \E D, V : Good(D, V, drive)'
    BY <2>2, <2>4, <2>5, <2>6, <1>0, Shrinking
  <2> QED
    BY <1>1, <2>2, <2>3, <2>7
<1> QED
  BY <1>2, <1>3

----------------------------------------------------------------------------
(* The steps. *)

Driven == Whole(drive) /\ Moving /\ Tags /\ \E C, W : Good(C, W, drive)

LEMMA TopStays ==
  ASSUME NEW C, NEW W, NEW d, Good(C, W, d)
  PROVE  Top \in mods
BY Root DEF Good, Placed

LEMMA RemoveUnusedPortsSound ==
  ASSUME IInv, Driven, RemoveUnusedPorts
  PROVE  Driven'
<1> DEFINE inputs == {i \in ins[node] \ Ignored(node) : ~Used(node, Arg(i))}
           outputs == {o \in Outs(node) \ Ignored(node) :
                         Uses(node) # {} /\ \A n \in Uses(node) : ~Used(ParentOf[n], Res(n, o))}
<1>0. /\ Functional /\ UNCHANGED <<design, option, mods, insts, node, movedOuts>>
      /\ Whole(drive) /\ Tags
  BY DEF RemoveUnusedPorts, IInv, Driven
<1>1. PICK C, W : Good(C, W, drive)
  BY DEF Driven
<1>2. Update("unusedInsts", inputs, outputs, drive)
  BY DEF RemoveUnusedPorts
<1>3. /\ inputs \subseteq ins[node] /\ outputs \subseteq Outs(node)
      /\ Uses(node) = {} => outputs = {}
      /\ Tagged(option.ports, node) \cap (inputs \cup outputs) = {}
  BY DEF Ignored, Tagged
<1>4. \A i \in inputs : \A t \in DOMAIN drive[node] : drive[node][t] # Arg(i)
  BY DEF Used
<1>5. \A n \in Uses(node), o \in outputs :
        \A t \in DOMAIN drive[ParentOf[n]] : drive[ParentOf[n]][t] # Res(n, o)
  BY DEF Used
<1>6. drive = [m \in Modules |-> drive[m]]
  BY <1>0 DEF Functional
<1> HIDE DEF inputs, outputs
<1>7. /\ Whole(drive)' /\ Tags' /\ step' \notin {"moveOuts", "moveIns"}
      /\ step' = "combineIns" => FALSE
      /\ \E D, V : Good(D, V, drive)'
  BY <1>0, <1>1, <1>2, <1>3, <1>4, <1>5, <1>6, UpdateSound
<1> QED
  BY <1>7 DEF Driven, Moving

LEMMA RewiredSound ==
  ASSUME IInv, Driven, Rewired
  PROVE  Driven'
<1>0. /\ Functional /\ UNCHANGED <<design, option, mods, insts, node>> /\ movedOuts' = {}
      /\ step = "moveIns" /\ pending = {} /\ Whole(drive) /\ Tags /\ Moving
      /\ Update("rewireInsts", movedIns, movedOuts, drive)
  BY DEF Rewired, IInv, Driven
<1>1. PICK C, W : Good(C, W, drive)
  BY DEF Driven
<1>2. PICK n \in Uses(node) : /\ movedIns \subseteq MoveableIns(n)
                              /\ \A i \in movedIns \ pending : ~Used(node, Arg(i))
  BY <1>0 DEF Moving
<1>3. /\ movedIns \subseteq ins[node] /\ movedOuts \subseteq Outs(node)
      /\ Uses(node) = {} => movedOuts = {}
      /\ Tagged(option.ports, node) \cap (movedIns \cup movedOuts) = {}
  BY <1>2 DEF MoveableIns, IInv, TypeOK, NoneKept
<1>4. \A i \in movedIns : \A t \in DOMAIN drive[node] : drive[node][t] # Arg(i)
  BY <1>0, <1>2 DEF Used
<1>5. \A k \in Uses(node), o \in movedOuts :
        \A t \in DOMAIN drive[ParentOf[k]] : drive[ParentOf[k]][t] # Res(k, o)
  BY <1>0 DEF Moving, Unreferenced, Used
<1>6. drive = [m \in Modules |-> drive[m]]
  BY <1>0 DEF Functional
<1>7. /\ Whole(drive)' /\ Tags' /\ step' \notin {"moveOuts", "moveIns"}
      /\ step' = "combineIns" => FALSE
      /\ \E D, V : Good(D, V, drive)'
  BY <1>0, <1>1, <1>3, <1>4, <1>5, <1>6, UpdateSound
<1> QED
  BY <1>7 DEF Driven, Moving

\* Instances, sinks and modules go, and nothing else.
LEMMA LessSound ==
  ASSUME IInv, Driven, Whole(drive)', insts' \subseteq insts, mods' \subseteq mods,
         Top \in mods', UNCHANGED <<design, option, unused>>,
         \A p \in Modules : /\ DOMAIN drive'[p] \subseteq DOMAIN drive[p]
                            /\ \A s \in DOMAIN drive'[p] : drive'[p][s] = drive[p][s],
         movedOuts' = {}, step' \notin {"moveOuts", "moveIns", "combineIns"}
  PROVE  Driven'
<1>0. /\ mods \subseteq Modules /\ insts \subseteq Insts /\ Tags
  BY DEF IInv, TypeOK, Driven
<1>1. PICK C, W : Good(C, W, drive)
  BY DEF Driven
<1>2. \A n \in insts' : ParentOf[n] \in mods' /\ ModuleOf[n] \in mods'
  BY DEF Whole
<1>3. \A p \in Modules : \A s \in DOMAIN drive'[p] :
        /\ s \in DOMAIN drive[p]
        /\ drive'[p][s] = drive[p][s] \/ (drive'[p][s][1] = "const" /\ Dummied(p, s)')
  OBVIOUS
<1>4. \E D, V : Good(D, V, drive)'
  BY <1>0, <1>1, <1>2, <1>3, Shrinking
<1>5. Tags'
  BY <1>0 DEF Tags
<1> QED
  BY <1>4, <1>5 DEF Driven, Moving

LEMMA VisitSound ==
  ASSUME IInv, Driven, NEW m \in Modules, Visit(m)
  PROVE  Driven'
<1>0. /\ m \in mods /\ movedOuts' = {} /\ step' = "unused" /\ EraseUnused(m)
      /\ UNCHANGED <<design, option, mods, ins, unused>> /\ Whole(drive)
  BY DEF Visit, IInv, TypeOK, Places, Driven
<1>1. /\ Whole(drive)' /\ insts' \subseteq insts
      /\ \A p \in Modules : /\ DOMAIN drive'[p] \subseteq DOMAIN drive[p]
                            /\ \A s \in DOMAIN drive'[p] : drive'[p][s] = drive[p][s]
  BY <1>0, EraseWhole
<1>2. Top \in mods'
  BY <1>0, TopStays DEF Driven
<1> QED
  BY <1>0, <1>1, <1>2, LessSound

LEMMA ReplaceInstSound ==
  ASSUME IInv, Driven, NEW n \in Insts, ReplaceInst(n)
  PROVE  Driven'
<1>0. /\ step' \in {step, After[step]} /\ step \in DOMAIN After
      /\ UNCHANGED <<design, option, mods, ins, unused, movedOuts>> /\ Whole(drive)
  BY DEF ReplaceInst, Driven
<1>1. step' \notin {"moveOuts", "moveIns", "combineIns"} /\ movedOuts' = {}
  BY <1>0 DEF After, IInv, Places
<1>2. /\ Whole(drive)' /\ insts' \subseteq insts
      /\ \A p \in Modules : /\ DOMAIN drive'[p] \subseteq DOMAIN drive[p]
                            /\ \A s \in DOMAIN drive'[p] : drive'[p][s] = drive[p][s]
  BY <1>0, ReplaceWhole
<1>3. Top \in mods'
  BY <1>0, TopStays DEF Driven
<1> QED
  BY <1>0, <1>1, <1>2, <1>3, LessSound

LEMMA EndVisitSound ==
  ASSUME IInv, Driven, EndVisit
  PROVE  Driven'
<1>0. /\ node \in mods /\ movedOuts' = {} /\ step' = "next"
      /\ UNCHANGED <<design, option, mods, ins, unused>> /\ Whole(drive)
      /\ Top \in mods'
  BY TopStays DEF EndVisit, IInv, TypeOK, Places, Driven
<1>1. CASE here
  <2>1. EraseUnused(node)
    BY <1>1 DEF EndVisit
  <2>2. /\ Whole(drive)' /\ insts' \subseteq insts
        /\ \A p \in Modules : /\ DOMAIN drive'[p] \subseteq DOMAIN drive[p]
                              /\ \A s \in DOMAIN drive'[p] : drive'[p][s] = drive[p][s]
    BY <1>0, <2>1, EraseWhole
  <2> QED
    BY <1>0, <2>2, LessSound
<1>2. CASE ~here
  <2>1. UNCHANGED <<insts, drive>>
    BY <1>2 DEF EndVisit
  <2>2. Whole(drive)'
    BY <1>0, <2>1 DEF Whole, Valued, Dummied
  <2> QED
    BY <1>0, <2>1, <2>2, LessSound
<1> QED
  BY <1>1, <1>2

LEMMA EraseModuleSound ==
  ASSUME IInv, Driven, NEW m \in Modules, EraseModule(m)
  PROVE  Driven'
<1>0. /\ mods' = mods \ {m} /\ m # Top /\ UNCHANGED <<design, option, drive, unused, visit>>
      /\ Whole(drive)
  BY DEF EraseModule, Driven
<1>1. step' = "next" /\ movedOuts' = {}
  BY <1>0 DEF visit, EraseModule, IInv, Places
<1>2. Whole(drive)' /\ insts' \subseteq insts
  BY <1>0, ModuleWhole
<1>3. Top \in mods'
  BY <1>0, TopStays DEF Driven
<1> QED
  BY <1>0, <1>1, <1>2, <1>3, LessSound

\* Neither the design nor the visit.
LEMMA SameSound ==
  ASSUME Driven, UNCHANGED <<design, option, graph, visit>>
  PROVE  Driven'
<1>0. Whole(drive) /\ Tags /\ Moving /\ UNCHANGED <<mods, insts, ins, drive, unused>>
      /\ UNCHANGED <<node, step, first, pending, movedIns, movedOuts, here>>
  BY DEF Driven, graph, visit
<1>1. PICK C, W : Good(C, W, drive)
  BY DEF Driven
<1>2. Whole(drive') /\ Good(C, W, drive')
  BY <1>0, <1>1
<1>3. Whole(drive)' /\ Good(C, W, drive)'
  BY <1>0, <1>2, NextBodies
<1>4. /\ Uses(node)' = Uses(node) /\ MoveableOuts' = MoveableOuts
      /\ \A n : MoveableIns(n)' = MoveableIns(n)
  BY <1>0 DEF Uses, MoveableOuts, Outs, MoveableIns, Ignored, Operand
<1>5. Tags'
  BY <1>0, <1>4 DEF Tags
<1>6. Unreferenced' = Unreferenced
  BY <1>0, <1>4 DEF Unreferenced, Used
<1>7. Moving'
  BY <1>0, <1>4, <1>6 DEF Moving, Used
<1> QED
  BY <1>3, <1>5, <1>7 DEF Driven

----------------------------------------------------------------------------
(* Ports of one value. *)

\* T is the sink whose value the value v at p refers to.
Ahead(C, p, v, T) ==
  \/ \E n \in insts : ParentOf[n] = At(p) /\ v = Res(n, v[3]) /\ T = <<Append(p, n), OutSink(v[3])>>
  \/ \E q \in C, n \in insts : /\ ParentOf[n] = At(q) /\ p = Append(q, n) /\ v = Arg(v[2])
                               /\ T = <<q, OpdSink(n, v[2])>>

Price(C, W, p, v) ==
  LET T == CHOOSE x : Ahead(C, p, v, x) IN
  IF \E x : Ahead(C, p, v, x) THEN [rank |-> W[T].rank + 1, via |-> W[T].via \cup {p}]
                              ELSE [rank |-> 0, via |-> {p}]

LEMMA LinkedAhead ==
  ASSUME NEW C, NEW W, NEW p, NEW cost, NEW v
  PROVE  Linked(C, W, p, cost, v) <=> \A T : Ahead(C, p, v, T) => Under(W[T], cost)
<1>1. ASSUME Linked(C, W, p, cost, v), NEW T, Ahead(C, p, v, T)
      PROVE  Under(W[T], cost)
  BY <1>1 DEF Linked, Ahead
<1>2. ASSUME \A T : Ahead(C, p, v, T) => Under(W[T], cost)
      PROVE  Linked(C, W, p, cost, v)
  <2>1. ASSUME NEW n \in insts, ParentOf[n] = At(p), v = Res(n, v[3])
        PROVE  Under(W[<<Append(p, n), OutSink(v[3])>>], cost)
    <3>1. Ahead(C, p, v, <<Append(p, n), OutSink(v[3])>>)
      BY <2>1 DEF Ahead
    <3> QED
      BY <3>1, <1>2
  <2>2. ASSUME NEW q \in C, NEW n \in insts,
               ParentOf[n] = At(q), p = Append(q, n), v = Arg(v[2])
        PROVE  Under(W[<<q, OpdSink(n, v[2])>>], cost)
    <3>1. Ahead(C, p, v, <<q, OpdSink(n, v[2])>>)
      BY <2>2 DEF Ahead
    <3> QED
      BY <3>1, <1>2
  <2> QED
    BY <2>1, <2>2 DEF Linked
<1> QED
  BY <1>1, <1>2

LEMMA OneAhead ==
  ASSUME NEW C, C \subseteq Paths, insts \subseteq Insts, NEW p, NEW v,
         NEW T, Ahead(C, p, v, T), NEW U, Ahead(C, p, v, U)
  PROVE  T = U
<1>1. CASE v[1] = "res"
  <2>1. v # Arg(v[2])
    BY <1>1, Kinds
  <2>2. PICK n \in insts : v = Res(n, v[3]) /\ T = <<Append(p, n), OutSink(v[3])>>
    BY <2>1 DEF Ahead
  <2>3. PICK k \in insts : v = Res(k, v[3]) /\ U = <<Append(p, k), OutSink(v[3])>>
    BY <2>1 DEF Ahead
  <2>4. n = k
    BY <2>2, <2>3, Kinds
  <2> QED
    BY <2>2, <2>3, <2>4
<1>2. CASE v[1] # "res"
  <2>1. \A n : v # Res(n, v[3])
    BY <1>2, Kinds
  <2>2. PICK q \in C, n \in insts : /\ ParentOf[n] = At(q) /\ p = Append(q, n)
                                    /\ T = <<q, OpdSink(n, v[2])>>
    BY <2>1 DEF Ahead
  <2>3. PICK r \in C, k \in insts : /\ ParentOf[k] = At(r) /\ p = Append(r, k)
                                    /\ U = <<r, OpdSink(k, v[2])>>
    BY <2>1 DEF Ahead
  <2>4. q = r /\ n = k
    BY <2>2, <2>3, Apart
  <2> QED
    BY <2>2, <2>3, <2>4
<1> QED
  BY <1>1, <1>2

LEMMA AheadThere ==
  ASSUME IInv, NEW d, Whole(d), NEW C, Placed(C), NEW p \in C, NEW s \in DOMAIN d[At(p)],
         NEW T, Ahead(C, p, d[At(p)][s], T)
  PROVE  \E r \in C : \E t \in DOMAIN d[At(r)] : T = <<r, t>>
<1> DEFINE v == d[At(p)][s]
<1>0. /\ insts \subseteq Insts /\ p \in Paths /\ C \subseteq Paths /\ At(p) \in mods
      /\ Valued(d, At(p), v)
  BY DEF IInv, TypeOK, Placed, Whole
<1> HIDE DEF v
<1>1. ASSUME NEW n \in insts, ParentOf[n] = At(p), v = Res(n, v[3]),
             T = <<Append(p, n), OutSink(v[3])>>
      PROVE  \E r \in C : \E t \in DOMAIN d[At(r)] : T = <<r, t>>
  <2>1. Append(p, n) \in C /\ At(Append(p, n)) = ModuleOf[n]
    BY <1>0, <1>1, Below DEF Placed
  <2>2. v[1] = "res" /\ v[2] = n
    BY <1>1, Kinds
  <2>3. OutSink(v[3]) \in DOMAIN d[ModuleOf[n]]
    BY <1>0, <2>2 DEF Valued
  <2> QED
    BY <1>1, <2>1, <2>3
<1>2. ASSUME NEW q \in C, NEW n \in insts, ParentOf[n] = At(q), p = Append(q, n), v = Arg(v[2]),
             T = <<q, OpdSink(n, v[2])>>
      PROVE  \E r \in C : \E t \in DOMAIN d[At(r)] : T = <<r, t>>
  <2>1. At(p) = ModuleOf[n] /\ ModuleOf[n] \in Modules
    BY <1>0, <1>2, Below, HierarchyAssumption
  <2>2. v[2] \in ins[ModuleOf[n]]
    BY <1>0, <1>2, <2>1, Kinds DEF Valued
  <2>3. v[2] \in In[ModuleOf[n]]
    BY <2>1, <2>2 DEF IInv, TypeOK
  <2>4. OpdSink(n, v[2]) \in DOMAIN d[At(q)]
    BY <1>2, <2>2, <2>3 DEF Whole
  <2> QED
    BY <1>2, <2>4
<1> QED
  BY <1>1, <1>2 DEF Ahead, v

\* The cost can be chosen such that sinks of one value have one cost.
LEMMA Levelled ==
  ASSUME IInv, NEW d, Whole(d), NEW C, NEW W, Good(C, W, d)
  PROVE  \E V : /\ Good(C, V, d)
                /\ \A p \in C : \A s, t \in DOMAIN d[At(p)] :
                     d[At(p)][s] = d[At(p)][t] => V[<<p, s>>] = V[<<p, t>>]
<1> DEFINE X == UNION {{<<p, s>> : s \in DOMAIN d[At(p)]} : p \in C}
<1>1. PICK V : V = [x \in X |-> Price(C, W, x[1], d[At(x[1])][x[2]])]
  OBVIOUS
<1>2. \A p \in C : \A s \in DOMAIN d[At(p)] : V[<<p, s>>] = Price(C, W, p, d[At(p)][s])
  <2> SUFFICES ASSUME NEW p \in C, NEW s \in DOMAIN d[At(p)]
               PROVE  V[<<p, s>>] = Price(C, W, p, d[At(p)][s])
    OBVIOUS
  <2> DEFINE x == <<p, s>>
  <2>1. x \in X
    OBVIOUS
  <2>2. x[1] = p /\ x[2] = s
    OBVIOUS
  <2> HIDE DEF x, X
  <2>3. V[x] = Price(C, W, p, d[At(p)][s])
    BY <1>1, <2>1, <2>2
  <2> QED
    BY <2>3 DEF x
<1> HIDE DEF X
<1>3. Placed(C) /\ C \subseteq Paths /\ insts \subseteq Insts
  BY DEF Good, Placed, IInv, TypeOK
<1>4. ASSUME NEW p \in C, NEW s \in DOMAIN d[At(p)]
      PROVE  /\ V[<<p, s>>].rank \in Nat /\ p \in V[<<p, s>>].via
             /\ AtMost(V[<<p, s>>], W[<<p, s>>])
             /\ \A T : Ahead(C, p, d[At(p)][s], T) =>
                  /\ W[T].rank \in Nat /\ W[T].rank < V[<<p, s>>].rank
                  /\ W[T].via \subseteq V[<<p, s>>].via
  <2> DEFINE v == d[At(p)][s]
             c == W[<<p, s>>]
  <2>1. /\ V[<<p, s>>] = Price(C, W, p, v) /\ c.rank \in Nat /\ p \in c.via
        /\ \A T : Ahead(C, p, v, T) => Under(W[T], c)
    BY <1>2, LinkedAhead DEF Good, Fine, Priced
  <2> HIDE DEF v, c
  <2>2. CASE \E T : Ahead(C, p, v, T)
    <3>1. PICK T : T = CHOOSE x : Ahead(C, p, v, x)
      OBVIOUS
    <3>2. Ahead(C, p, v, T)
      BY <2>2, <3>1
    <3>3. Price(C, W, p, v) = [rank |-> W[T].rank + 1, via |-> W[T].via \cup {p}]
      BY <2>2, <3>1 DEF Price
    <3>4. Under(W[T], c)
      BY <2>1, <3>2
    <3>5. \A U : Ahead(C, p, v, U) => U = T
      BY <3>2, <1>3, OneAhead
    <3>6. W[T].rank \in Nat /\ W[T].rank < c.rank /\ W[T].via \subseteq c.via
      BY <3>4 DEF Under
    <3> DEFINE a == W[T].rank
    <3>7. V[<<p, s>>].rank = a + 1 /\ V[<<p, s>>].via = W[T].via \cup {p}
      BY <2>1, <3>3
    <3>8. a + 1 \in Nat /\ a + 1 <= c.rank /\ a < a + 1
      BY <3>6, <2>1
    <3>9. AtMost(V[<<p, s>>], c)
      BY <3>6, <3>7, <3>8, <2>1 DEF AtMost
    <3> QED
      BY <3>5, <3>6, <3>7, <3>8, <3>9 DEF c, v
  <2>3. CASE ~\E T : Ahead(C, p, v, T)
    <3>1. Price(C, W, p, v) = [rank |-> 0, via |-> {p}]
      BY <2>3 DEF Price
    <3>2. V[<<p, s>>].rank = 0 /\ V[<<p, s>>].via = {p}
      BY <2>1, <3>1
    <3>3. AtMost(V[<<p, s>>], c)
      BY <3>2, <2>1 DEF AtMost
    <3> QED
      BY <2>3, <3>2, <3>3 DEF c, v
  <2> QED
    BY <2>2, <2>3
<1>5. ASSUME NEW p \in C, NEW s \in DOMAIN d[At(p)]
      PROVE  Fine(C, V, p, s, d[At(p)][s])
  <2> DEFINE v == d[At(p)][s]
             c == V[<<p, s>>]
  <2>1. Fine(C, W, p, s, v)
    BY DEF Good
  <2>2. Priced(c, p, s)
    <3>1. AtMost(W[<<p, s>>], Cost(design, p, s))
      BY <2>1 DEF Fine, Priced
    <3>2. AtMost(c, Cost(design, p, s))
      BY <3>1, <1>4 DEF AtMost
    <3> QED
      BY <3>2, <1>4 DEF Priced
  <2>3. ASSUME NEW T, Ahead(C, p, v, T)
        PROVE  Under(V[T], c)
    <3>0. PICK r \in C : \E t \in DOMAIN d[At(r)] : T = <<r, t>>
      BY <2>3, <1>3, AheadThere
    <3>1. PICK t \in DOMAIN d[At(r)] : T = <<r, t>>
      BY <3>0
    <3>2. AtMost(V[T], W[T])
      BY <3>1, <1>4
    <3>3. W[T].rank < c.rank /\ W[T].via \subseteq c.via /\ c.rank \in Nat
      BY <2>3, <1>4
    <3> HIDE DEF c
    <3> QED
      BY <3>2, <3>3 DEF AtMost, Under
  <2>4. Linked(C, V, p, c, v)
    BY <2>3, LinkedAhead
  <2> QED
    BY <2>1, <2>2, <2>4 DEF Fine
<1>6. Good(C, V, d)
  BY <1>3, <1>5 DEF Good
<1>7. \A p \in C : \A s, t \in DOMAIN d[At(p)] :
        d[At(p)][s] = d[At(p)][t] => V[<<p, s>>] = V[<<p, t>>]
  BY <1>2
<1> QED
  BY <1>6, <1>7

LEMMA StaysFacts ==
  ASSUME NEW ports, NEW value, NEW x \in ports, NEW y, y = Stays(ports, value, x)
  PROVE  y \in ports /\ value[y] = value[x] /\ y \notin Twins(ports, value)
<1>1. y \in ports /\ value[y] = value[x]
  BY DEF Stays
<1>2. Stays(ports, value, y) = y
  BY <1>1 DEF Stays
<1> QED
  BY <1>1, <1>2 DEF Twins

LEMMA CombineOutsSound ==
  ASSUME IInv, Driven, NoWireLoop(design), CombineOuts
  PROVE  Driven'
<1> DEFINE value == [o \in Outs(node) |-> drive[node][OutSink(o)]]
           ports == IF Uses(node) = {} THEN {} ELSE Outs(node) \ Ignored(node)
           new(v) == IF v[1] = "res" /\ v[2] \in Uses(node) /\ v[3] \in movedOuts'
                     THEN Res(v[2], Stays(ports, value, v[3])) ELSE v
<1>0. /\ step' = "combineIns" /\ UNCHANGED <<design, option, mods, insts, ins, unused, node>>
      /\ movedOuts' = Twins(ports, value)
      /\ drive' = [p \in Modules |-> [s \in DOMAIN drive[p] |-> new(drive[p][s])]]
      /\ node \in Modules /\ mods \subseteq Modules /\ insts \subseteq Insts
      /\ Functional /\ design \in Designs /\ Whole(drive) /\ Tags
      /\ \A p \in Modules : DOMAIN drive[p] \subseteq DOMAIN design[p]
  BY DEF CombineOuts, IInv, TypeOK, Functional, Driven
<1>1. /\ \A o \in ports : /\ o \in Outs(node) /\ OutSink(o) \in DOMAIN drive[node]
                          /\ <<node, o>> \notin unused
                          /\ value[o] = drive[node][OutSink(o)]
      /\ Uses(node) = {} => ports = {}
  <2>1. ASSUME NEW o \in ports
        PROVE  OutSink(o) \in DOMAIN drive[node] /\ <<node, o>> \notin unused
    <3>1. o \in Outs(node) /\ o \notin Tagged(unused \cup option.ports, node)
      BY DEF Ignored
    <3>2. PICK s \in DOMAIN drive[node] : s[1] = "out" /\ s[2] = o
      BY <3>1 DEF Outs
    <3>3. s = OutSink(o)
      BY <3>2, <1>0, Sinks
    <3> QED
      BY <3>1, <3>2, <3>3 DEF Tagged
  <2> QED
    BY <2>1
<1> HIDE DEF ports, value
<1>2. \A v : \/ new(v) = v /\ ~(v[1] = "res" /\ v[2] \in Uses(node) /\ v[3] \in movedOuts')
             \/ /\ v[1] = "res" /\ v[2] \in Uses(node) /\ v[3] \in movedOuts'
                /\ new(v) = Res(v[2], Stays(ports, value, v[3]))
  OBVIOUS
<1>3. \A x \in movedOuts' : x \in ports
  BY <1>0 DEF Twins
<1>4. \A m \in Modules : /\ DOMAIN drive'[m] = DOMAIN drive[m]
                         /\ \A s \in DOMAIN drive[m] : drive'[m][s] = new(drive[m][s])
  BY <1>0
<1> HIDE DEF new
<1>5. PICK C, W : /\ Good(C, W, drive)
                  /\ \A p \in C : \A s, t \in DOMAIN drive[At(p)] :
                       drive[At(p)][s] = drive[At(p)][t] => W[<<p, s>>] = W[<<p, t>>]
  BY <1>0, Levelled DEF Driven
\* A value that is replaced, and the one it is replaced with.
<1>6. ASSUME NEW m \in mods, NEW s \in DOMAIN drive[m], drive'[m][s] # drive[m][s]
      PROVE  \E n \in Uses(node), x \in movedOuts' :
               /\ drive[m][s] = Res(n, x) /\ ParentOf[n] = m
               /\ drive'[m][s] = Res(n, Stays(ports, value, x))
  <2> DEFINE v == drive[m][s]
  <2>1. drive'[m][s] = new(v) /\ Valued(drive, m, v)
    BY <1>0, <1>4 DEF Whole
  <2> HIDE DEF v
  <2>2. /\ v[1] = "res" /\ v[2] \in Uses(node) /\ v[3] \in movedOuts'
        /\ new(v) = Res(v[2], Stays(ports, value, v[3]))
    BY <2>1, <1>2, <1>6 DEF v
  <2>3. v = Res(v[2], v[3]) /\ ParentOf[v[2]] = m
    BY <2>1, <2>2 DEF Valued
  <2> QED
    BY <2>1, <2>2, <2>3 DEF v
<1>7. ASSUME NEW n \in Uses(node), NEW x \in movedOuts', NEW y, y = Stays(ports, value, x)
      PROVE  /\ y \in ports /\ y \notin movedOuts'
             /\ OutSink(x) \in DOMAIN drive[node] /\ OutSink(y) \in DOMAIN drive[node]
             /\ ~Dummied(node, OutSink(x)) /\ ~Dummied(node, OutSink(y))
             /\ drive[node][OutSink(x)] = drive[node][OutSink(y)]
             /\ Valued(drive, ParentOf[n], Res(n, y))
  <2>1. y \in ports /\ value[y] = value[x] /\ y \notin movedOuts'
    BY <1>0, <1>3, <1>7, StaysFacts
  <2>2. ~Dummied(node, OutSink(x)) /\ ~Dummied(node, OutSink(y))
    BY <2>1, <1>1, <1>3, Kinds DEF Dummied
  <2>3. Valued(drive, ParentOf[n], Res(n, y))
    <3>1. n \in insts /\ ModuleOf[n] = node
      BY DEF Uses
    <3> QED
      BY <2>1, <3>1, <1>1, Kinds DEF Valued
  <2> QED
    BY <2>1, <2>2, <2>3, <1>1, <1>3
<1>8. Whole(drive')
  <2>1. ASSUME NEW p \in mods, NEW s \in DOMAIN drive[p]
        PROVE  drive'[p][s] = drive[p][s] \/ (Valued(drive, p, drive'[p][s]) /\ ~Dummied(p, s))
    <3> SUFFICES ASSUME drive'[p][s] # drive[p][s]
                 PROVE  Valued(drive, p, drive'[p][s]) /\ ~Dummied(p, s)
      OBVIOUS
    <3>1. PICK n \in Uses(node), x \in movedOuts' :
            /\ drive[p][s] = Res(n, x) /\ ParentOf[n] = p
            /\ drive'[p][s] = Res(n, Stays(ports, value, x))
      BY <1>6
    <3>2. ~Dummied(p, s)
      BY <3>1, <1>0, Kinds DEF Whole
    <3> QED
      BY <3>1, <3>2, <1>7
  <2>2. \A k \in insts : ModuleOf[k] \in Modules /\ ParentOf[k] \in Modules
    BY <1>0 DEF Whole
  <2> QED
    BY <2>1, <2>2, <1>0, <1>4, Revalue
<1>9. Good(C, W, drive')
  <2>1. ASSUME NEW q \in C, NEW s \in DOMAIN drive[At(q)]
        PROVE  drive'[At(q)][s] = drive[At(q)][s] \/ Fine(C, W, q, s, drive'[At(q)][s])
    <3> SUFFICES ASSUME drive'[At(q)][s] # drive[At(q)][s]
                 PROVE  Fine(C, W, q, s, drive'[At(q)][s])
      OBVIOUS
    <3>1. At(q) \in mods /\ q \in Paths
      BY <1>5 DEF Good, Placed
    <3>2. PICK n \in Uses(node), x \in movedOuts' :
            /\ drive[At(q)][s] = Res(n, x) /\ ParentOf[n] = At(q)
            /\ drive'[At(q)][s] = Res(n, Stays(ports, value, x))
      BY <3>1, <1>6
    <3> DEFINE y == Stays(ports, value, x)
               p == Append(q, n)
    <3>3. n \in insts /\ n \in Insts /\ ModuleOf[n] = node
      BY <1>0 DEF Uses
    <3>4. p \in C /\ At(p) = node /\ p \in Paths
      BY <3>1, <3>2, <3>3, <1>5, Below DEF Good, Placed
    <3>5. /\ y \in ports
          /\ OutSink(x) \in DOMAIN drive[node] /\ OutSink(y) \in DOMAIN drive[node]
          /\ ~Dummied(node, OutSink(x)) /\ ~Dummied(node, OutSink(y))
          /\ drive[node][OutSink(x)] = drive[node][OutSink(y)]
      BY <1>7
    <3> HIDE DEF y
    <3>6. W[<<p, OutSink(y)>>] = W[<<p, OutSink(x)>>]
      BY <3>4, <3>5, <1>5
    <3>7. Under(W[<<p, OutSink(x)>>], W[<<q, s>>])
      BY <3>2, <3>3, <1>5, LinkDown
    <3>8. Fine(C, W, q, s, Res(n, x))
      BY <3>2, <1>5 DEF Good
    <3>9. Linked(C, W, q, W[<<q, s>>], Res(n, y))
      <4>1. \A k : Res(n, y) = Res(k, y) => k = n
        BY Kinds
      <4>2. \A i : Res(n, y) # Arg(i)
        BY Kinds
      <4>3. Res(n, y)[3] = y
        BY Kinds
      <4>4. Under(W[<<Append(q, n), OutSink(y)>>], W[<<q, s>>])
        BY <3>6, <3>7
      <4> QED
        BY <4>1, <4>2, <4>3, <4>4 DEF Linked
    <3>10. Label(design, q, Res(n, x)) = Label(design, q, Res(n, y))
      <4>1. OutSink(x) \in DOMAIN design[ModuleOf[n]] /\ OutSink(y) \in DOMAIN design[ModuleOf[n]]
        BY <3>3, <3>5, <1>0
      <4>2. Label(design, q, Res(n, x)) = Label(design, p, design[ModuleOf[n]][OutSink(x)])
        BY <3>1, <3>2, <3>3, <4>1, LabelDown
      <4>3. Label(design, q, Res(n, y)) = Label(design, p, design[ModuleOf[n]][OutSink(y)])
        BY <3>1, <3>2, <3>3, <4>1, LabelDown
      <4> HIDE DEF p
      <4>4. Label(design, p, drive[node][OutSink(x)]) = Label(design, p, design[node][OutSink(x)])
        BY <3>4, <3>5, <1>5 DEF Good, Fine
      <4>5. Label(design, p, drive[node][OutSink(y)]) = Label(design, p, design[node][OutSink(y)])
        BY <3>4, <3>5, <1>5 DEF Good, Fine
      <4> QED
        BY <4>2, <4>3, <4>4, <4>5, <3>3, <3>5
    <3>11. Fine(C, W, q, s, Res(n, y))
      BY <3>8, <3>9, <3>10 DEF Fine
    <3> QED
      BY <3>2, <3>11 DEF y
  <2> QED
    BY <2>1, <1>0, <1>4, <1>5, StillGood
<1>10. Whole(drive)' /\ Good(C, W, drive)'
  BY <1>0, <1>8, <1>9, NextBodies
<1>11. Uses(node)' = Uses(node)
  BY <1>0 DEF Uses
<1>12. Tags'
  <2>1. Uses(node) = {} => movedOuts' = {}
    BY <1>1, <1>3
  <2> QED
    BY <2>1, <1>0, <1>11 DEF Tags
<1>13. Unreferenced'
  <2> SUFFICES ASSUME NEW n \in Uses(node), NEW x \in movedOuts',
                      NEW s \in DOMAIN drive'[ParentOf[n]],
                      drive'[ParentOf[n]][s] = Res(n, x)
               PROVE  FALSE
    BY <1>11 DEF Unreferenced, Used
  <2>1. ParentOf[n] \in mods /\ ParentOf[n] \in Modules
    BY <1>0 DEF Uses, Whole
  <2>2. s \in DOMAIN drive[ParentOf[n]]
    BY <2>1, <1>4
  <2>3. CASE drive[ParentOf[n]][s] = Res(n, x)
    <3>1. new(Res(n, x)) = Res(n, Stays(ports, value, x))
      BY <1>2, Kinds
    <3>2. Res(n, x) = Res(n, Stays(ports, value, x))
      BY <2>1, <2>2, <2>3, <3>1, <1>4
    <3>3. x = Stays(ports, value, x)
      BY <3>2, Kinds
    <3> QED
      BY <3>3, <1>7
  <2>4. CASE drive[ParentOf[n]][s] # Res(n, x)
    <3>1. PICK k \in Uses(node), z \in movedOuts' :
            Res(n, x) = Res(k, Stays(ports, value, z))
      BY <2>1, <2>2, <2>4, <1>6
    <3>2. x = Stays(ports, value, z)
      BY <3>1, Kinds
    <3> QED
      BY <3>2, <1>7
  <2> QED
    BY <2>3, <2>4
<1> QED
  BY <1>0, <1>10, <1>12, <1>13 DEF Driven, Moving

LEMMA CombineInsSound ==
  ASSUME IInv, Driven, NoWireLoop(design), CombineIns
  PROVE  Driven'
<1> DEFINE value == [i \in ins[node] |-> {Operand(n, i) : n \in Uses(node)}]
           ports == IF Cardinality(Uses(node)) = 1 THEN ins[node] \ Ignored(node) ELSE {}
           twins == Twins(ports, value)
           new(v) == IF v[1] = "arg" /\ v[2] \in twins
                     THEN Arg(Stays(ports, value, v[2])) ELSE v
           d == [drive EXCEPT ![node] = [s \in DOMAIN @ |-> new(@[s])]]
<1>0. /\ step = "combineIns" /\ UNCHANGED <<design, option, mods, insts, node>>
      /\ movedOuts' = {} /\ Update("combineInsts", twins, movedOuts, d)
      /\ node \in Modules /\ mods \subseteq Modules /\ insts \subseteq Insts
      /\ Functional /\ design \in Designs /\ Whole(drive) /\ Tags /\ Moving
      /\ \A p \in Modules : DOMAIN drive[p] \subseteq DOMAIN design[p]
  BY DEF CombineIns, IInv, TypeOK, Functional, Driven
<1>1. /\ \A i \in ports : i \in ins[node] /\ i \in In[node] /\ <<node, i>> \notin unused
      /\ Tagged(option.ports, node) \cap ports = {}
  BY <1>0 DEF Ignored, Tagged, IInv, TypeOK
<1>2. ports # {} => \E n \in insts : Uses(node) = {n} /\ ModuleOf[n] = node
  <2> SUFFICES ASSUME Cardinality(Uses(node)) = 1
               PROVE  \E n \in insts : Uses(node) = {n} /\ ModuleOf[n] = node
    OBVIOUS
  <2>1. IsFiniteSet(Uses(node))
    BY <1>0, HierarchyAssumption, FS_Subset DEF Uses
  <2>2. PICK n : Uses(node) = {n}
    BY <2>1, FS_Singleton
  <2> QED
    BY <2>2 DEF Uses
<1>v. \A n : Uses(node) = {n} => \A i \in ins[node] : value[i] = {Operand(n, i)}
  OBVIOUS
<1> HIDE DEF value, ports
<1>3. \A x \in twins : x \in ports
  BY DEF Twins
<1>t. twins = Twins(ports, value)
  OBVIOUS
<1> HIDE DEF twins
<1>4. \A v : \/ new(v) = v /\ ~(v[1] = "arg" /\ v[2] \in twins)
             \/ v[1] = "arg" /\ v[2] \in twins /\ new(v) = Arg(Stays(ports, value, v[2]))
  OBVIOUS
<1> HIDE DEF new
<1>5. d = [m \in Modules |-> IF m = node THEN [s \in DOMAIN drive[node] |-> new(drive[node][s])]
                             ELSE drive[m]]
  BY <1>0 DEF Functional
<1> HIDE DEF d
<1>6. /\ d = [m \in Modules |-> d[m]]
      /\ \A m \in Modules :
           /\ DOMAIN d[m] = DOMAIN drive[m]
           /\ \A s \in DOMAIN drive[m] :
                d[m][s] = IF m = node THEN new(drive[m][s]) ELSE drive[m][s]
      /\ \A m \in Modules \ {node} : d[m] = drive[m]
  BY <1>5
<1>7. PICK C, W : /\ Good(C, W, drive)
                  /\ \A p \in C : \A s, t \in DOMAIN drive[At(p)] :
                       drive[At(p)][s] = drive[At(p)][t] => W[<<p, s>>] = W[<<p, t>>]
  BY <1>0, Levelled DEF Driven
<1>8. ASSUME NEW m \in mods, NEW s \in DOMAIN drive[m], d[m][s] # drive[m][s]
      PROVE  \E x \in twins : /\ m = node /\ drive[m][s] = Arg(x)
                              /\ d[m][s] = Arg(Stays(ports, value, x))
  <2> DEFINE v == drive[m][s]
  <2>1. m = node /\ d[m][s] = new(v) /\ Valued(drive, m, v)
    BY <1>0, <1>6, <1>8 DEF Whole
  <2> HIDE DEF v
  <2>2. v[1] = "arg" /\ v[2] \in twins /\ new(v) = Arg(Stays(ports, value, v[2]))
    BY <2>1, <1>4, <1>8 DEF v
  <2>3. v = Arg(v[2])
    BY <2>1, <2>2 DEF Valued
  <2> QED
    BY <2>1, <2>2, <2>3 DEF v
<1>9. ASSUME NEW x \in twins, NEW y, y = Stays(ports, value, x)
      PROVE  /\ y \in ports /\ y \notin twins /\ x \in ports
             /\ \A n : Uses(node) = {n} => Operand(n, x) = Operand(n, y)
  <2>1. y \in ports /\ value[y] = value[x] /\ y \notin twins /\ x \in ports
    BY <1>3, <1>t, <1>9, StaysFacts
  <2>2. ASSUME NEW n, Uses(node) = {n}
        PROVE  Operand(n, x) = Operand(n, y)
    <3>1. {Operand(n, x)} = {Operand(n, y)}
      BY <2>1, <2>2, <1>1, <1>v
    <3> QED
      BY <3>1
  <2> QED
    BY <2>1, <2>2
<1>10. Whole(d)
  <2>1. ASSUME NEW p \in mods, NEW s \in DOMAIN drive[p]
        PROVE  d[p][s] = drive[p][s] \/ (Valued(drive, p, d[p][s]) /\ ~Dummied(p, s))
    <3> SUFFICES ASSUME d[p][s] # drive[p][s]
                 PROVE  Valued(drive, p, d[p][s]) /\ ~Dummied(p, s)
      OBVIOUS
    <3>1. PICK x \in twins : /\ p = node /\ drive[p][s] = Arg(x)
                             /\ d[p][s] = Arg(Stays(ports, value, x))
      BY <1>8
    <3>2. ~Dummied(p, s)
      BY <3>1, <1>0, Kinds DEF Whole
    <3> DEFINE y == Stays(ports, value, x)
    <3>3. y \in ins[node] /\ <<node, y>> \notin unused
      BY <1>1, <1>9
    <3> HIDE DEF y
    <3>4. Valued(drive, node, Arg(y))
      BY <3>3, Kinds DEF Valued
    <3> QED
      BY <3>1, <3>2, <3>4 DEF y
  <2>2. \A k \in insts : ModuleOf[k] \in Modules /\ ParentOf[k] \in Modules
    BY <1>0 DEF Whole
  <2> QED
    BY <2>1, <2>2, <1>0, <1>6, Revalue
<1>11. Good(C, W, d)
  <2>1. ASSUME NEW p \in C, NEW s \in DOMAIN drive[At(p)]
        PROVE  d[At(p)][s] = drive[At(p)][s] \/ Fine(C, W, p, s, d[At(p)][s])
    <3> SUFFICES ASSUME d[At(p)][s] # drive[At(p)][s]
                 PROVE  Fine(C, W, p, s, d[At(p)][s])
      OBVIOUS
    <3>1. At(p) \in mods /\ p \in Paths /\ C \subseteq Paths
      BY <1>7 DEF Good, Placed
    <3>2. PICK x \in twins : /\ At(p) = node /\ drive[At(p)][s] = Arg(x)
                             /\ d[At(p)][s] = Arg(Stays(ports, value, x))
      BY <3>1, <1>8
    <3> DEFINE y == Stays(ports, value, x)
    <3>3. x \in ports /\ y \in ports
      BY <1>9
    <3>4. PICK n \in insts : Uses(node) = {n} /\ ModuleOf[n] = node
      BY <3>3, <1>2
    <3>5. PICK q \in C, k \in insts : ParentOf[k] = At(q) /\ p = Append(q, k)
      BY <3>2, <3>4, <1>7 DEF Good, Placed
    <3>6. q \in Paths /\ k \in Insts /\ n \in Insts
      BY <3>1, <1>0
    <3>7. k = n
      <4>1. ModuleOf[k] = node
        BY <3>2, <3>5, <3>6, Below
      <4>2. k \in Uses(node)
        BY <4>1 DEF Uses
      <4> QED
        BY <4>2, <3>4
    <3>8. /\ Operand(n, x) = Operand(n, y)
          /\ x \in ins[node] /\ y \in ins[node] /\ x \in In[node] /\ y \in In[node]
          /\ <<node, x>> \notin unused /\ <<node, y>> \notin unused
      BY <3>3, <3>4, <1>1, <1>9
    <3> HIDE DEF y
    <3>9. /\ OpdSink(n, x) \in DOMAIN drive[At(q)] /\ OpdSink(n, y) \in DOMAIN drive[At(q)]
          /\ drive[At(q)][OpdSink(n, x)] = drive[At(q)][OpdSink(n, y)]
      BY <3>4, <3>5, <3>7, <3>8, <1>0 DEF Whole, Operand
    <3>10. W[<<q, OpdSink(n, y)>>] = W[<<q, OpdSink(n, x)>>]
      BY <3>9, <1>7
    <3>11. Under(W[<<q, OpdSink(n, x)>>], W[<<p, s>>])
      <4>1. /\ ParentOf[n] = At(q) /\ p = Append(q, n)
            /\ s \in DOMAIN drive[ModuleOf[n]] /\ drive[ModuleOf[n]][s] = Arg(x)
        BY <3>2, <3>4, <3>5, <3>7
      <4>2. insts \subseteq Insts /\ Good(C, W, drive)
        BY <1>0, <1>7
      <4>3. Under(W[<<q, OpdSink(n, x)>>], W[<<Append(q, n), s>>])
        BY <4>1, <4>2, LinkUp
      <4> QED
        BY <4>1, <4>3
    <3>12. Fine(C, W, p, s, Arg(x))
      BY <3>2, <1>7 DEF Good
    <3>13. Linked(C, W, p, W[<<p, s>>], Arg(y))
      <4>1. \A m, o : Arg(y) # Res(m, o)
        BY Kinds
      <4>2. Arg(y)[2] = y
        BY Kinds
      <4>3. \A r \in C, m \in insts : ParentOf[m] = At(r) /\ p = Append(r, m) => r = q /\ m = n
        BY <3>1, <3>5, <3>6, <3>7, <1>0, Apart
      <4>4. Under(W[<<q, OpdSink(n, y)>>], W[<<p, s>>])
        BY <3>10, <3>11
      <4> QED
        BY <4>1, <4>2, <4>3, <4>4 DEF Linked
    <3>14. Label(design, p, Arg(x)) = Label(design, p, Arg(y))
      <4>1. At(q) \in Modules
        BY <3>6, Root
      <4>2. OpdSink(n, x) \in DOMAIN design[At(q)] /\ OpdSink(n, y) \in DOMAIN design[At(q)]
        BY <3>9, <4>1, <1>0
      <4>3. Label(design, p, Arg(x)) = Label(design, q, design[At(q)][OpdSink(n, x)])
        BY <3>5, <3>6, <3>7, <4>2, LabelUp
      <4>4. Label(design, p, Arg(y)) = Label(design, q, design[At(q)][OpdSink(n, y)])
        BY <3>5, <3>6, <3>7, <4>2, LabelUp
      <4>5. ~Dummied(At(q), OpdSink(n, x)) /\ ~Dummied(At(q), OpdSink(n, y))
        BY <3>4, <3>8, Kinds DEF Dummied
      <4>6. Label(design, q, drive[At(q)][OpdSink(n, x)])
              = Label(design, q, design[At(q)][OpdSink(n, x)])
        BY <3>9, <4>5, <1>7 DEF Good, Fine
      <4>7. Label(design, q, drive[At(q)][OpdSink(n, y)])
              = Label(design, q, design[At(q)][OpdSink(n, y)])
        BY <3>9, <4>5, <1>7 DEF Good, Fine
      <4> QED
        BY <4>3, <4>4, <4>6, <4>7, <3>9
    <3>15. Fine(C, W, p, s, Arg(y))
      BY <3>12, <3>13, <3>14 DEF Fine
    <3> QED
      BY <3>2, <3>15 DEF y
  <2> QED
    BY <2>1, <1>0, <1>6, <1>7, StillGood
<1>12. \A i \in twins : \A t \in DOMAIN d[node] : d[node][t] # Arg(i)
  <2> SUFFICES ASSUME NEW i \in twins, NEW t \in DOMAIN d[node], d[node][t] = Arg(i)
               PROVE  FALSE
    OBVIOUS
  <2> DEFINE v == drive[node][t]
  <2>1. d[node][t] = new(v)
    BY <1>0, <1>6
  <2> HIDE DEF v
  <2>2. CASE v[1] = "arg" /\ v[2] \in twins
    <3>1. Arg(i) = Arg(Stays(ports, value, v[2]))
      BY <2>1, <2>2, <1>4
    <3>2. i = Stays(ports, value, v[2])
      BY <3>1, Kinds
    <3> QED
      BY <2>2, <3>2, <1>9
  <2>3. CASE ~(v[1] = "arg" /\ v[2] \in twins)
    <3>1. v = Arg(i)
      BY <2>1, <2>3, <1>4
    <3> QED
      BY <2>3, <3>1, Kinds
  <2> QED
    BY <2>2, <2>3
<1>13. \A n \in Uses(node), o \in movedOuts :
         \A t \in DOMAIN d[ParentOf[n]] : d[ParentOf[n]][t] # Res(n, o)
  <2> SUFFICES ASSUME NEW n \in Uses(node), NEW o \in movedOuts, NEW t \in DOMAIN d[ParentOf[n]]
               PROVE  d[ParentOf[n]][t] # Res(n, o)
    OBVIOUS
  <2>1. n \in Insts /\ ModuleOf[n] = node /\ ParentOf[n] \in Modules
    BY <1>0 DEF Uses, Whole
  <2>2. d[ParentOf[n]] = drive[ParentOf[n]]
    BY <2>1, <1>6, NotSelf
  <2> QED
    BY <2>2, <1>0 DEF Moving, Unreferenced, Used
<1>14. /\ twins \subseteq ins[node] /\ movedOuts \subseteq Outs(node)
       /\ Uses(node) = {} => movedOuts = {}
       /\ Tagged(option.ports, node) \cap (twins \cup movedOuts) = {}
  BY <1>0, <1>1, <1>3 DEF IInv, TypeOK, NoneKept, Tags
<1>15. /\ Whole(drive)' /\ Tags' /\ step' \notin {"moveOuts", "moveIns"}
       /\ step' = "combineIns" => FALSE
       /\ \E D, V : Good(D, V, drive)'
  <2>1. d = [m \in Modules |-> d[m]] /\ \A m \in Modules : DOMAIN d[m] = DOMAIN drive[m]
    BY <1>6
  <2>2. /\ Tags /\ movedOuts' = {} /\ Update("combineInsts", twins, movedOuts, d)
        /\ UNCHANGED <<design, option, mods, insts, node>>
    BY <1>0
  <2> QED
    BY <2>1, <2>2, <1>10, <1>11, <1>12, <1>13, <1>14, UpdateSound
<1> QED
  BY <1>15 DEF Driven, Moving

----------------------------------------------------------------------------
(* The design the pass is given. *)

\* Each module but the top has an instance.
Instantiated == \A m \in Modules \ {Top} : Instances(m) # {}

LEMMA Reached ==
  ASSUME Instantiated
  PROVE  \A m \in Modules : \E p \in Paths : At(p) = m
<1> DEFINE S == {m \in Modules : ~\E p \in Paths : At(p) = m}
<1>1. S \in SUBSET Modules
  OBVIOUS
<1>2. ASSUME NEW m \in S
      PROVE  \E n \in Instances(m) : ParentOf[n] \in S
  <2>1. m # Top
    BY Root
  <2>2. PICK n \in Instances(m) : TRUE
    BY <2>1 DEF Instantiated
  <2>3. n \in Insts /\ ModuleOf[n] = m /\ ParentOf[n] \in Modules
    BY HierarchyAssumption DEF Instances
  <2>4. ASSUME NEW q \in Paths, At(q) = ParentOf[n]
        PROVE  FALSE
    BY <2>3, <2>4, Below
  <2> QED
    BY <2>3, <2>4
<1>3. S = {}
  BY <1>1, <1>2, HierarchyAssumption
<1> QED
  BY <1>3

LEMMA InitialWhole ==
  ASSUME Init
  PROVE  Whole(drive)
<1>0. /\ design \in Designs /\ mods = Modules /\ insts = Insts /\ ins = In
      /\ drive = design /\ unused = {}
  BY DEF Init
<1>1. \A m \in Modules : \A s \in DOMAIN design[m] : ValueIn(design, m, design[m][s])
  BY <1>0, DesignsAssumption DEF Verified
<1>2. \A n \in Insts : \A i \in In[ModuleOf[n]] : OpdSink(n, i) \in DOMAIN design[ParentOf[n]]
  BY <1>0, DesignsAssumption DEF Verified
<1>3. ASSUME NEW m \in Modules, NEW v, ValueIn(design, m, v)
      PROVE  Valued(drive, m, v)
  <2>1. CASE \E i \in In[m] : v = Arg(i)
    BY <2>1, <1>0, Kinds DEF Valued
  <2>2. CASE v[1] = "reg" /\ v \in DOMAIN design[m]
    BY <2>2, <1>0 DEF Valued
  <2>3. CASE \E n \in Insts : /\ ParentOf[n] = m
                              /\ \E s \in DOMAIN design[ModuleOf[n]] :
                                   s[1] = "out" /\ v = Res(n, s[2])
    <3>1. PICK n \in Insts : /\ ParentOf[n] = m
                             /\ \E s \in DOMAIN design[ModuleOf[n]] :
                                  s[1] = "out" /\ v = Res(n, s[2])
      BY <2>3
    <3>2. PICK s \in DOMAIN design[ModuleOf[n]] : s[1] = "out" /\ v = Res(n, s[2])
      BY <3>1
    <3>3. s = OutSink(s[2])
      BY <3>2, <1>0, HierarchyAssumption, Sinks
    <3>4. v[1] = "res" /\ v[2] = n /\ v[3] = s[2]
      BY <3>2, Kinds
    <3> QED
      BY <3>1, <3>2, <3>3, <3>4, <1>0 DEF Valued
  <2>4. CASE v[1] = "const"
    BY <2>4 DEF Valued
  <2> QED
    BY <1>3, <2>1, <2>2, <2>3, <2>4 DEF ValueIn
<1>4. \A m \in mods : \A s \in DOMAIN drive[m] :
        /\ s[1] = "opd" => s[2] \in insts
        /\ Valued(drive, m, drive[m][s])
        /\ Dummied(m, s) => drive[m][s][1] = "const"
  BY <1>0, <1>1, <1>3, Sinks DEF Dummied
<1> QED
  BY <1>0, <1>2, <1>4, HierarchyAssumption DEF Whole

LEMMA InitialGood ==
  ASSUME Init, NoWireLoop(design), Instantiated
  PROVE  \E W : Good(Paths, W, drive)
<1>0. /\ design \in Designs /\ mods = Modules /\ insts = Insts /\ drive = design /\ Whole(design)
      /\ ins = In
  BY InitialWhole DEF Init
<1> DEFINE X == UNION {{<<p, s>> : s \in DOMAIN design[At(p)]} : p \in Paths}
<1>1. PICK W : W = [x \in X |-> Cost(design, x[1], x[2])]
  OBVIOUS
<1>2. \A p \in Paths : \A s \in DOMAIN design[At(p)] : W[<<p, s>>] = Cost(design, p, s)
  <2> SUFFICES ASSUME NEW p \in Paths, NEW s \in DOMAIN design[At(p)]
               PROVE  W[<<p, s>>] = Cost(design, p, s)
    OBVIOUS
  <2> DEFINE x == <<p, s>>
  <2>1. x \in X
    OBVIOUS
  <2>2. x[1] = p /\ x[2] = s
    OBVIOUS
  <2> HIDE DEF x, X
  <2>3. W[x] = Cost(design, p, s)
    BY <1>1, <2>1, <2>2
  <2> QED
    BY <2>3 DEF x
<1> HIDE DEF X
<1>3. Placed(Paths)
  <2>1. \A q \in Paths, n \in insts : ParentOf[n] = At(q) => Append(q, n) \in Paths
    BY <1>0, Below
  <2>2. ASSUME NEW p \in Paths
        PROVE  \/ Uses(At(p)) = {}
               \/ \E q \in Paths, n \in insts : ParentOf[n] = At(q) /\ p = Append(q, n)
    <3>1. CASE p = <<>>
      BY <3>1, <1>0, Root, HierarchyAssumption DEF Uses
    <3>2. CASE p # <<>>
      BY <3>2, <1>0, Last
    <3> QED
      BY <3>1, <3>2
  <2> QED
    BY <2>1, <2>2, <1>0, Root, Reached DEF Placed
<1>4. ASSUME NEW p \in Paths, NEW s \in DOMAIN design[At(p)]
      PROVE  Fine(Paths, W, p, s, design[At(p)][s])
  <2> DEFINE v == design[At(p)][s]
             c == W[<<p, s>>]
  <2>1. c = Cost(design, p, s)
    BY <1>2
  <2>2. Priced(c, p, s)
    <3>1. c.rank \in Nat /\ p \in c.via
      BY <2>1, CostOwn, HierarchyAssumption
    <3> HIDE DEF c
    <3> QED
      BY <2>1, <3>1 DEF Priced, AtMost
  <2>3. Valued(design, At(p), v)
    BY <1>0, Root DEF Whole
  <2>4. ASSUME NEW n \in insts, ParentOf[n] = At(p), v = Res(n, v[3])
        PROVE  Under(W[<<Append(p, n), OutSink(v[3])>>], c)
    <3>1. n \in Insts /\ v[1] = "res" /\ v[2] = n
      BY <1>0, <2>4, Kinds
    <3>2. OutSink(v[3]) \in DOMAIN design[ModuleOf[n]]
      BY <2>3, <3>1 DEF Valued
    <3>3. Append(p, n) \in Paths /\ At(Append(p, n)) = ModuleOf[n]
      BY <3>1, <2>4, Below
    <3>4. W[<<Append(p, n), OutSink(v[3])>>] = Cost(design, Append(p, n), OutSink(v[3]))
      BY <3>2, <3>3, <1>2
    <3> DEFINE o == v[3]
    <3>5. design[At(p)][s] = Res(n, o) /\ OutSink(o) \in DOMAIN design[ModuleOf[n]]
      BY <2>4, <3>2
    <3> HIDE DEF o
    <3>6. Under(Cost(design, Append(p, n), OutSink(o)), Cost(design, p, s))
      BY <3>1, <3>5, <2>4, CostDown
    <3> QED
      BY <3>4, <3>6, <2>1 DEF o
  <2>5. ASSUME NEW q \in Paths, NEW n \in insts, ParentOf[n] = At(q), p = Append(q, n),
               v = Arg(v[2])
        PROVE  Under(W[<<q, OpdSink(n, v[2])>>], c)
    <3> DEFINE i == v[2]
    <3>1. n \in Insts /\ v[1] = "arg"
      BY <1>0, <2>5, Kinds
    <3>2. At(p) = ModuleOf[n] /\ ModuleOf[n] \in Modules /\ At(q) \in Modules
      BY <3>1, <2>5, Below, Root, HierarchyAssumption
    <3>3. i \in In[ModuleOf[n]]
      BY <1>0, <2>3, <3>1, <3>2 DEF Valued
    <3>4. OpdSink(n, i) \in DOMAIN design[At(q)]
      BY <3>1, <3>3, <2>5, <1>0, DesignsAssumption DEF Verified
    <3>5. s \in DOMAIN design[ModuleOf[n]] /\ design[ModuleOf[n]][s] = Arg(i)
      BY <3>2, <2>5
    <3>6. W[<<q, OpdSink(n, i)>>] = Cost(design, q, OpdSink(n, i))
      BY <3>4, <1>2
    <3> HIDE DEF i
    <3>7. Under(Cost(design, q, OpdSink(n, i)), Cost(design, Append(q, n), s))
      BY <3>1, <3>4, <3>5, <2>5, CostUp
    <3> QED
      BY <3>6, <3>7, <2>1, <2>5 DEF i
  <2>6. Linked(Paths, W, p, c, v)
    BY <2>4, <2>5 DEF Linked
  <2> QED
    BY <2>2, <2>6 DEF Fine
<1>5. Good(Paths, W, drive)
  BY <1>0, <1>3, <1>4 DEF Good
<1> QED
  BY <1>5

LEMMA InitialSound ==
  ASSUME Init, NoWireLoop(design), Instantiated
  PROVE  Driven
<1>1. Whole(drive) /\ \E C, W : Good(C, W, drive)
  BY InitialWhole, InitialGood
<1> QED
  BY <1>1 DEF Init, Driven, Moving, Tags

----------------------------------------------------------------------------
(* Every step. *)

LEMMA NextSound ==
  ASSUME IInv, Driven, NoWireLoop(design), ~SharedFeedback(design), [Next]_vars
  PROVE  Driven'
<1>0. Whole(drive) /\ Moving /\ Tags
  BY DEF Driven
<1>c. PICK C, W : Good(C, W, drive)
  BY DEF Driven
<1>1. CASE UNCHANGED vars
  <2>1. UNCHANGED <<design, option, graph, visit>>
    BY <1>1 DEF vars
  <2> QED
    BY <2>1, SameSound
<1>2. CASE \E m \in Modules : Visit(m) \/ EraseModule(m)
  BY <1>2, VisitSound, EraseModuleSound
<1>3. CASE \E n \in Insts : ReplaceInst(n)
  BY <1>3, ReplaceInstSound
<1>4. CASE \E n \in Insts : FindMoveableIns(n)
  <2>1. PICK n \in Insts : FindMoveableIns(n)
    BY <1>4
  <2>2. Whole(drive)' /\ Moving' /\ Tags' /\ Good(C, W, drive)'
    BY <2>1, <1>0, <1>c, FindMoveableInsSound
  <2> QED
    BY <2>2 DEF Driven
<1>5. CASE \E n \in Insts, o \in movedOuts : MoveOut(n, o)
  <2>1. PICK n \in Insts, o \in movedOuts : MoveOut(n, o)
    BY <1>5
  <2>2. Whole(drive)' /\ Moving' /\ Tags' /\ Good(C, W, drive)'
    BY <2>1, <1>0, <1>c, MoveOutSound
  <2> QED
    BY <2>2 DEF Driven
<1>6. CASE \E i \in movedIns : MoveIn(i)
  <2>1. PICK i \in movedIns : MoveIn(i)
    BY <1>6
  <2>2. Whole(drive)' /\ Moving' /\ Tags' /\ Good(C, W, drive)'
    BY <2>1, <1>0, <1>c, MoveInSound
  <2> QED
    BY <2>2 DEF Driven
<1>7. CASE RewireModule
  <2>2. Whole(drive)' /\ Moving' /\ Tags' /\ Good(C, W, drive)'
    BY <1>7, <1>0, <1>c, RewireModuleSound
  <2> QED
    BY <2>2 DEF Driven
<1>8. CASE RemoveUnusedPorts \/ Rewired
  BY <1>8, RemoveUnusedPortsSound, RewiredSound
<1>9. CASE CombineOuts \/ CombineIns
  BY <1>9, CombineOutsSound, CombineInsSound
<1>10. CASE EndVisit
  BY <1>10, EndVisitSound
<1>11. CASE NextRound \/ EndCleanup
  <2>1. UNCHANGED <<design, option, graph, visit>>
    BY <1>11 DEF NextRound, EndCleanup
  <2> QED
    BY <2>1, SameSound
<1>12. CASE Finished
  BY <1>12, <1>1 DEF Finished
<1> QED
  BY <1>1, <1>2, <1>3, <1>4, <1>5, <1>6, <1>7, <1>8, <1>9, <1>10, <1>11, <1>12 DEF Next

----------------------------------------------------------------------------
(* What the invariant says of the bodies. *)

LEMMA WholeIsWellFormed ==
  ASSUME IInv, Whole(drive)
  PROVE  WellFormed
<1>0. /\ design \in Designs /\ mods \subseteq Modules /\ insts \subseteq Insts
      /\ \A m \in Modules : ins[m] \subseteq In[m] /\ DOMAIN drive[m] \subseteq DOMAIN design[m]
  BY DEF IInv, TypeOK, Functional
<1>1. ASSUME NEW n \in insts
      PROVE  {s \in DOMAIN drive[ParentOf[n]] : s[1] = "opd" /\ s[2] = n}
               = {OpdSink(n, i) : i \in ins[ModuleOf[n]]}
  <2>0. n \in Insts /\ ParentOf[n] \in Modules /\ ModuleOf[n] \in Modules
    BY <1>0, HierarchyAssumption
  <2>1. \A i \in In[ModuleOf[n]] :
          OpdSink(n, i) \in DOMAIN drive[ParentOf[n]] <=> i \in ins[ModuleOf[n]]
    BY DEF Whole
  <2>2. ASSUME NEW s \in DOMAIN drive[ParentOf[n]], s[1] = "opd", s[2] = n
        PROVE  s = OpdSink(n, s[3]) /\ s[3] \in ins[ModuleOf[n]]
    <3>1. s \in DOMAIN design[ParentOf[n]]
      BY <1>0, <2>0
    <3>2. s = OpdSink(n, s[3]) /\ s[3] \in In[ModuleOf[n]]
      BY <1>0, <2>0, <2>2, <3>1, Sinks
    <3> QED
      BY <2>1, <3>2
  <2>3. ASSUME NEW i \in ins[ModuleOf[n]]
        PROVE  OpdSink(n, i) \in DOMAIN drive[ParentOf[n]]
    BY <1>0, <2>0, <2>1
  <2>4. \A i : OpdSink(n, i)[1] = "opd" /\ OpdSink(n, i)[2] = n
    BY Kinds
  <2> QED
    BY <2>2, <2>3, <2>4
<1>2. ASSUME NEW m \in mods, NEW s \in DOMAIN drive[m]
      PROVE  LET v == drive[m][s] IN
             /\ v[1] = "arg" => v[2] \in ins[m]
             /\ v[1] = "reg" => v \in DOMAIN drive[m]
             /\ v[1] = "res" => v[2] \in insts /\ v[3] \in Outs(ModuleOf[v[2]])
             /\ s[1] = "opd" => s[2] \in insts
  <2> DEFINE v == drive[m][s]
  <2>1. Valued(drive, m, v) /\ (s[1] = "opd" => s[2] \in insts)
    BY DEF Whole
  <2> HIDE DEF v
  <2>2. v[1] = "arg" => v[2] \in ins[m]
    BY <2>1 DEF Valued
  <2>3. v[1] = "reg" => v \in DOMAIN drive[m]
    BY <2>1 DEF Valued
  <2>4. v[1] = "res" => v[2] \in insts /\ OutSink(v[3]) \in DOMAIN drive[ModuleOf[v[2]]]
    BY <2>1 DEF Valued
  <2>5. v[1] = "res" => v[3] \in Outs(ModuleOf[v[2]])
    BY <2>4, Kinds DEF Outs
  <2> QED
    BY <2>1, <2>2, <2>3, <2>4, <2>5 DEF v
<1>3. \A n \in insts : ModuleOf[n] \in mods /\ ParentOf[n] \in mods
  BY DEF Whole
<1> QED
  BY <1>1, <1>2, <1>3 DEF WellFormed

----------------------------------------------------------------------------
(* From a sink back to what drives it. *)

LEMMA LeftBelow ==
  ASSUME insts \subseteq Insts, NEW q \in LeftPaths, NEW n \in insts, ParentOf[n] = At(q)
  PROVE  Append(q, n) \in LeftPaths
<1> DEFINE r == Append(q, n)
<1>0. q \in Paths /\ n \in Insts /\ \A k \in 1..Len(q) : q[k] \in insts
  BY DEF LeftPaths
<1>1. q \in Seq(Insts)
  BY <1>0, PathShape
<1>2. r \in Paths
  BY <1>0, Below
<1>3. Len(r) = Len(q) + 1 /\ r[Len(q) + 1] = n /\ \A k \in 1..Len(q) : r[k] = q[k]
  BY <1>1, <1>0, AppendProperties
<1>4. Len(q) \in Nat
  BY <1>1, LenProperties
<1> HIDE DEF r
<1>5. ASSUME NEW k \in 1..Len(r)
      PROVE  r[k] \in insts
  <2>1. k \in 1..Len(q) \/ k = Len(q) + 1
    BY <1>3, <1>4
  <2> QED
    BY <2>1, <1>3, <1>0
<1>6. r \in LeftPaths
  BY <1>2, <1>5 DEF LeftPaths
<1> QED
  BY <1>6 DEF r

LEMMA LeftAbove ==
  ASSUME NEW p \in LeftPaths, p # <<>>
  PROVE  \E q \in LeftPaths, n \in insts : /\ ParentOf[n] = At(q) /\ p = Append(q, n)
                                           /\ n \in Insts /\ Len(q) < Len(p)
<1>0. p \in Paths /\ \A k \in 1..Len(p) : p[k] \in insts
  BY DEF LeftPaths
<1>1. PICK q \in Paths, n \in Insts : ParentOf[n] = At(q) /\ p = Append(q, n)
  BY <1>0, Last
<1>2. q \in Seq(Insts)
  BY PathShape
<1>3. Len(p) = Len(q) + 1 /\ p[Len(q) + 1] = n /\ \A k \in 1..Len(q) : p[k] = q[k]
  BY <1>1, <1>2, AppendProperties
<1>4. Len(q) \in Nat
  BY <1>2, LenProperties
<1>5. n \in insts /\ \A k \in 1..Len(q) : q[k] \in insts
  BY <1>0, <1>3, <1>4
<1>6. q \in LeftPaths
  BY <1>5 DEF LeftPaths
<1> QED
  BY <1>1, <1>3, <1>4, <1>5, <1>6

LEMMA LeftPlaced ==
  ASSUME NEW C, Placed(C)
  PROVE  LeftPaths \subseteq C
<1> DEFINE S == {l \in Nat : \E p \in LeftPaths : Len(p) = l /\ p \notin C}
<1> SUFFICES ASSUME NEW p \in LeftPaths, p \notin C
             PROVE  FALSE
  OBVIOUS
<1>0. \A q \in LeftPaths : Len(q) \in Nat
  BY PathShape, LenProperties DEF LeftPaths
<1>1. S \in SUBSET Nat /\ S # {}
  BY <1>0
<1>2. PICK l \in S : \A m \in S : l <= m
  BY <1>1, Least
<1>3. PICK r \in LeftPaths : Len(r) = l /\ r \notin C
  OBVIOUS
<1>4. r # <<>>
  BY <1>3 DEF Placed
<1>5. PICK q \in LeftPaths : \E n \in insts : /\ ParentOf[n] = At(q) /\ r = Append(q, n)
                                              /\ Len(q) < Len(r)
  BY <1>4, LeftAbove
<1>6. q \notin C
  BY <1>5, <1>3 DEF Placed
<1>7. Len(q) \in S
  BY <1>6, <1>0
<1>8. Len(q) < l /\ l <= Len(q) /\ Len(q) \in Nat /\ l \in Nat
  BY <1>7, <1>2, <1>5, <1>3, <1>0
<1> QED
  BY <1>8

\* The way of a sink leads through sinks with ports nearer to the end, all driven
\* by the same.
LEMMA OneHop ==
  ASSUME IInv, Whole(drive), NoWireLoop(design), NEW C, NEW W, Good(C, W, drive),
         NEW p \in LeftPaths, NEW s \in DOMAIN drive[At(p)], ~Dummied(At(p), s),
         NEW v, v = drive[At(p)][s]
  PROVE  \/ /\ Hop(drive, insts, <<p, v>>) = <<p, v>>
            /\ Label(design, p, v) = IF v[1] = "const" THEN <<<<>>, v>> ELSE <<p, v>>
         \/ \E q \in LeftPaths : \E t \in DOMAIN drive[At(q)] :
              /\ Hop(drive, insts, <<p, v>>) = <<q, drive[At(q)][t]>>
              /\ ~Dummied(At(q), t)
              /\ Label(design, q, drive[At(q)][t]) = Label(design, p, v)
              /\ Under(W[<<q, t>>], W[<<p, s>>])
<1>0. /\ design \in Designs /\ mods \subseteq Modules /\ insts \subseteq Insts
      /\ \A m \in Modules : DOMAIN drive[m] \subseteq DOMAIN design[m]
      /\ LeftPaths \subseteq C /\ C \subseteq Paths /\ p \in C /\ p \in Paths
      /\ At(p) \in mods /\ At(p) \in Modules
  BY LeftPlaced DEF IInv, TypeOK, Functional, Good, Placed
<1>1. Valued(drive, At(p), v)
  BY <1>0 DEF Whole
<1>2. ASSUME NEW q \in LeftPaths, NEW t \in DOMAIN drive[At(q)], ~Dummied(At(q), t)
      PROVE  Label(design, q, drive[At(q)][t]) = Label(design, q, design[At(q)][t])
  BY <1>2, <1>0 DEF Good, Fine
<1>3. CASE v[1] = "const"
  <2>1. Hop(drive, insts, <<p, v>>) = <<p, v>>
    BY <1>3, Hopping
  <2> QED
    BY <2>1, <1>3, LabelEnds
<1>4. CASE v[1] = "reg"
  <2>0. v \in DOMAIN drive[At(p)] /\ v \in DOMAIN design[At(p)]
    BY <1>1, <1>4, <1>0 DEF Valued
  <2>1. Hop(drive, insts, <<p, v>>) = <<p, v>>
    BY <1>4, <2>0, Hopping
  <2>2. Label(design, p, v) = <<p, v>>
    BY <1>4, <2>0, LabelEnds
  <2> QED
    BY <2>1, <2>2, <1>4
<1>5. CASE v[1] = "arg" /\ p = <<>>
  <2>1. Hop(drive, insts, <<p, v>>) = <<p, v>>
    BY <1>5, Hopping
  <2>2. Label(design, p, v) = <<p, v>>
    BY <1>5, LabelEnds
  <2> QED
    BY <2>1, <2>2, <1>5
<1>6. CASE v[1] = "arg" /\ p # <<>>
  <2>1. PICK q \in LeftPaths, n \in insts : ParentOf[n] = At(q) /\ p = Append(q, n)
    BY <1>6, LeftAbove
  <2>i. PICK i : i = v[2]
    OBVIOUS
  <2>2. v = Arg(i) /\ i \in ins[At(p)] /\ <<At(p), i>> \notin unused
    BY <1>1, <1>6, <2>i DEF Valued
  <2>3. q \in C /\ q \in Paths /\ n \in Insts /\ At(p) = ModuleOf[n] /\ At(q) \in Modules
    BY <1>0, <2>1, Below, Root
  <2>4. i \in In[ModuleOf[n]]
    BY <2>2, <2>3, <1>0 DEF IInv, TypeOK
  <2>p. PICK t : t = OpdSink(n, i)
    OBVIOUS
  <2>5. t \in DOMAIN drive[At(q)]
    BY <2>1, <2>2, <2>3, <2>4, <2>p DEF Whole
  <2>6. Hop(drive, insts, <<p, v>>) = <<q, drive[At(q)][t]>>
    <3>1. OpdSink(n, i) \in DOMAIN drive[At(q)]
      BY <2>5, <2>p
    <3>2. Hop(drive, insts, <<Append(q, n), Arg(i)>>) = <<q, drive[At(q)][OpdSink(n, i)]>>
      BY <2>1, <2>3, <3>1, HopOut
    <3> QED
      BY <2>1, <2>2, <2>p, <3>2
  <2>7. ~Dummied(At(q), t)
    BY <2>2, <2>3, <2>p, Kinds DEF Dummied
  <2>8. Label(design, p, v) = Label(design, q, design[At(q)][t])
    BY <2>1, <2>2, <2>3, <2>5, <2>p, <1>0, LabelUp
  <2>9. Under(W[<<q, t>>], W[<<p, s>>])
    BY <2>1, <2>2, <2>3, <2>p, <1>0, LinkUp
  <2> QED
    BY <2>5, <2>6, <2>7, <2>8, <2>9, <1>2
<1>7. CASE v[1] = "res"
  <2>n. PICK n, o : n = v[2] /\ o = v[3]
    OBVIOUS
  <2>1. /\ v = Res(n, o) /\ n \in insts /\ ParentOf[n] = At(p)
        /\ OutSink(o) \in DOMAIN drive[ModuleOf[n]] /\ <<ModuleOf[n], o>> \notin unused
    BY <1>1, <1>7, <2>n DEF Valued
  <2>q. PICK q : q = Append(p, n)
    OBVIOUS
  <2>p. PICK t : t = OutSink(o)
    OBVIOUS
  <2>2. n \in Insts /\ q \in LeftPaths /\ At(q) = ModuleOf[n] /\ ModuleOf[n] \in Modules
    BY <2>1, <2>q, <1>0, LeftBelow, Below, HierarchyAssumption
  <2>3. t \in DOMAIN drive[At(q)] /\ t \in DOMAIN design[ModuleOf[n]]
    BY <2>1, <2>2, <2>p, <1>0
  <2>4. Hop(drive, insts, <<p, v>>) = <<q, drive[At(q)][t]>>
    <3>1. Hop(drive, insts, <<p, Res(n, o)>>)
            = <<Append(p, n), drive[ModuleOf[n]][OutSink(o)]>>
      <4>1. p \in Paths /\ n \in Insts /\ n \in insts /\ ParentOf[n] = At(p)
            /\ OutSink(o) \in DOMAIN drive[ModuleOf[n]]
        BY <1>0, <2>1, <2>2
      <4> QED
        BY <4>1, HopDown
    <3> QED
      BY <2>1, <2>2, <2>p, <2>q, <3>1
  <2>5. ~Dummied(At(q), t)
    BY <2>1, <2>2, <2>p, Kinds DEF Dummied
  <2>6. Label(design, p, v) = Label(design, q, design[At(q)][t])
    BY <2>1, <2>2, <2>3, <2>p, <2>q, <1>0, LabelDown
  <2>7. Under(W[<<q, t>>], W[<<p, s>>])
    BY <2>1, <2>p, <2>q, <1>0, LinkDown
  <2> QED
    BY <2>2, <2>3, <2>4, <2>5, <2>6, <2>7, <1>2
<1>8. v[1] \in {"arg", "res", "reg", "const"}
  BY <1>1 DEF Valued
<1> QED
  BY <1>3, <1>4, <1>5, <1>6, <1>7, <1>8

\* So the way ends, at what drives the sink in the design the pass starts from.
LEMMA WholeWay ==
  ASSUME IInv, Whole(drive), NoWireLoop(design), NEW C, NEW W, Good(C, W, drive),
         NEW p \in LeftPaths, NEW s \in DOMAIN drive[At(p)], ~Dummied(At(p), s)
  PROVE  Source(drive, insts, <<p, drive[At(p)][s]>>) = Label(design, p, drive[At(p)][s])
<1> DEFINE x == <<p, drive[At(p)][s]>>
           L == Label(design, p, drive[At(p)][s])
           w == Way(drive, insts, x)
           End(y) == /\ Hop(drive, insts, y) = y
                     /\ L = IF y[2][1] = "const" THEN <<<<>>, y[2]>> ELSE y
           On(y, k) == \E q \in LeftPaths : \E t \in DOMAIN drive[At(q)] :
                         /\ y = <<q, drive[At(q)][t]>> /\ ~Dummied(At(q), t)
                         /\ Label(design, q, drive[At(q)][t]) = L
                         /\ W[<<q, t>>].rank \in Nat /\ W[<<q, t>>].rank + k <= Hops
           S == {k \in 0..Hops : End(w[k]) \/ On(w[k], k)}
<1>0. /\ Hops \in Nat
      /\ design \in Designs /\ mods \subseteq Modules /\ insts \subseteq Insts
      /\ \A m \in Modules : DOMAIN drive[m] \subseteq DOMAIN design[m]
      /\ p \in C /\ p \in Paths /\ At(p) \in Modules
  BY LeftPlaced, Root, HierarchyAssumption DEF IInv, TypeOK, Functional, Good, Placed
<1>1. w[0] = x /\ \A k \in 0..(Hops - 1) : w[k + 1] = Hop(drive, insts, w[k])
  BY WaySteps
<1>2. 0 \in S
  <2>1. Priced(W[<<p, s>>], p, s)
    BY <1>0 DEF Good, Fine
  <2>2. Cost(design, p, s).rank \in 0..Hops
    BY <1>0, CostOwn
  <2>3. W[<<p, s>>].rank \in Nat /\ W[<<p, s>>].rank + 0 <= Hops
    BY <2>1, <2>2, <1>0 DEF Priced, AtMost
  <2>4. On(x, 0)
    BY <2>3
  <2> QED
    BY <2>4, <1>0, <1>1
<1> HIDE DEF x
<1>3. ASSUME NEW k \in 0..Hops, On(w[k], k)
      PROVE  \/ End(w[k])
             \/ k < Hops /\ On(Hop(drive, insts, w[k]), k + 1)
  <2>1. PICK q \in LeftPaths : \E t \in DOMAIN drive[At(q)] :
               /\ w[k] = <<q, drive[At(q)][t]>> /\ ~Dummied(At(q), t)
               /\ Label(design, q, drive[At(q)][t]) = L
               /\ W[<<q, t>>].rank \in Nat /\ W[<<q, t>>].rank + k <= Hops
    BY <1>3
  <2>2. PICK t \in DOMAIN drive[At(q)] :
               /\ w[k] = <<q, drive[At(q)][t]>> /\ ~Dummied(At(q), t)
               /\ Label(design, q, drive[At(q)][t]) = L
               /\ W[<<q, t>>].rank \in Nat /\ W[<<q, t>>].rank + k <= Hops
    BY <2>1
  <2>v. PICK v : v = drive[At(q)][t]
    OBVIOUS
  <2> HIDE DEF w, L
  <2>3. \/ /\ Hop(drive, insts, <<q, v>>) = <<q, v>>
           /\ Label(design, q, v) = IF v[1] = "const" THEN <<<<>>, v>> ELSE <<q, v>>
        \/ \E r \in LeftPaths : \E u \in DOMAIN drive[At(r)] :
             /\ Hop(drive, insts, <<q, v>>) = <<r, drive[At(r)][u]>>
             /\ ~Dummied(At(r), u)
             /\ Label(design, r, drive[At(r)][u]) = Label(design, q, v)
             /\ Under(W[<<r, u>>], W[<<q, t>>])
    BY <2>2, <2>v, OneHop
  <2>4. CASE Hop(drive, insts, <<q, v>>) = <<q, v>>
             /\ Label(design, q, v) = IF v[1] = "const" THEN <<<<>>, v>> ELSE <<q, v>>
    BY <2>4, <2>2, <2>v
  <2>5. CASE \E r \in LeftPaths : \E u \in DOMAIN drive[At(r)] :
               /\ Hop(drive, insts, <<q, v>>) = <<r, drive[At(r)][u]>>
               /\ ~Dummied(At(r), u)
               /\ Label(design, r, drive[At(r)][u]) = Label(design, q, v)
               /\ Under(W[<<r, u>>], W[<<q, t>>])
    <3>1. PICK r \in LeftPaths : \E u \in DOMAIN drive[At(r)] :
                 /\ Hop(drive, insts, <<q, v>>) = <<r, drive[At(r)][u]>>
                 /\ ~Dummied(At(r), u)
                 /\ Label(design, r, drive[At(r)][u]) = Label(design, q, v)
                 /\ Under(W[<<r, u>>], W[<<q, t>>])
      BY <2>5
    <3>2. PICK u \in DOMAIN drive[At(r)] :
                 /\ Hop(drive, insts, <<q, v>>) = <<r, drive[At(r)][u]>>
                 /\ ~Dummied(At(r), u)
                 /\ Label(design, r, drive[At(r)][u]) = Label(design, q, v)
                 /\ Under(W[<<r, u>>], W[<<q, t>>])
      BY <3>1
    <3>3. W[<<r, u>>].rank \in Nat /\ W[<<r, u>>].rank < W[<<q, t>>].rank
      BY <3>2 DEF Under
    <3>4. k < Hops /\ W[<<r, u>>].rank + (k + 1) <= Hops
      BY <3>3, <2>2, <1>0
    <3>5. Hop(drive, insts, w[k]) = <<r, drive[At(r)][u]>>
      BY <3>2, <2>2, <2>v
    <3>6. Label(design, r, drive[At(r)][u]) = L
      BY <3>2, <2>2, <2>v
    <3> QED
      BY <3>2, <3>3, <3>4, <3>5, <3>6
  <2> QED
    BY <2>3, <2>4, <2>5
<1>4. ASSUME NEW k \in 0..(Hops - 1), k \in S
      PROVE  k + 1 \in S
  <2>1. k + 1 \in 0..Hops /\ k \in 0..Hops /\ w[k + 1] = Hop(drive, insts, w[k])
    BY <1>0, <1>1
  <2>2. End(w[k]) \/ On(w[k], k)
    BY <1>4
  <2> HIDE DEF On, w, L
  <2>3. End(w[k]) \/ On(w[k + 1], k + 1)
    BY <2>1, <2>2, <1>3
  <2>4. End(w[k]) => End(w[k + 1])
    BY <2>1
  <2> QED
    BY <2>1, <2>3, <2>4
<1> HIDE DEF S
<1>5. \A k \in 0..Hops : k \in S
  BY <1>0, <1>2, <1>4, Upwards
<1>6. Hops \in 0..Hops /\ Hops \in S
  BY <1>0, <1>5
<1>7. End(w[Hops])
  <2>1. End(w[Hops]) \/ On(w[Hops], Hops)
    BY <1>6 DEF S
  <2>2. ~(Hops < Hops)
    BY <1>0
  <2> HIDE DEF On, w, End
  <2> QED
    BY <2>1, <2>2, <1>3, <1>6
<1>8. Source(drive, insts, x) = L
  BY <1>7 DEF Source
<1> QED
  BY <1>8 DEF x

\* What can be observed has no dummy value.
LEMMA ObservedCounts ==
  ASSUME IInv, Tags, NEW p \in LeftPaths, NEW s \in Observed(p)
  PROVE  ~Dummied(At(p), s)
<1>0. /\ design \in Designs /\ p \in Paths /\ s \in DOMAIN drive[At(p)]
      /\ At(p) \in Modules /\ s \in DOMAIN design[At(p)]
  BY Root DEF IInv, TypeOK, Functional, LeftPaths, Observed
<1>1. CASE s[1] = "reg"
  BY <1>1 DEF Dummied
<1>2. CASE s[1] = "out" /\ p = <<>>
  <2>1. At(p) = Top /\ s[2] \notin In[Top]
    BY <1>0, <1>2, Root, Sinks
  <2>2. <<Top, s[2]>> \notin unused
    BY <2>1 DEF Tags
  <2> QED
    BY <1>2, <2>1, <2>2 DEF Dummied
<1>3. CASE s[1] = "out" /\ <<At(p), s[2]>> \in option.ports
  BY <1>3 DEF Tags, Dummied
<1>4. CASE s[1] = "opd" /\ <<ModuleOf[s[2]], s[3]>> \in option.ports
  BY <1>4 DEF Tags, Dummied
<1> QED
  BY <1>1, <1>2, <1>3, <1>4 DEF Observed

LEMMA DrivenKeepsDrivers ==
  ASSUME IInv, Driven, NoWireLoop(design)
  PROVE  SameDrivers
<1>0. Whole(drive) /\ Tags /\ design \in Designs
  BY DEF Driven, IInv, Functional
<1>1. PICK C, W : Good(C, W, drive)
  BY DEF Driven
<1>2. ASSUME NEW p \in LeftPaths, NEW s \in Observed(p)
      PROVE  Source(drive, insts, <<p, drive[At(p)][s]>>)
               = Source(design, Insts, <<p, design[At(p)][s]>>)
  <2>1. s \in DOMAIN drive[At(p)] /\ ~Dummied(At(p), s)
    BY <1>0, ObservedCounts DEF Observed
  <2>2. p \in C /\ p \in Paths
    BY <1>1, LeftPlaced DEF Good, Placed
  <2>3. s \in DOMAIN design[At(p)]
    BY <2>1, <2>2, Root DEF IInv, TypeOK
  <2>4. Source(drive, insts, <<p, drive[At(p)][s]>>) = Label(design, p, drive[At(p)][s])
    BY <1>0, <1>1, <2>1, WholeWay
  <2>5. Label(design, p, drive[At(p)][s]) = Label(design, p, design[At(p)][s])
    BY <1>1, <2>1, <2>2 DEF Good, Fine
  <2>6. Label(design, p, design[At(p)][s]) = Source(design, Insts, <<p, design[At(p)][s]>>)
    BY <2>2, <2>3, LabelSame
  <2> QED
    BY <2>4, <2>5, <2>6
<1> QED
  BY <1>2 DEF SameDrivers

----------------------------------------------------------------------------

\* Designs without a wire loop and without feedback shared by instances, and no
\* module but the top without an instance.
Sound ==
  /\ \A d \in Designs : NoWireLoop(d) /\ ~SharedFeedback(d)
  /\ Instantiated

\* The invariant of the bodies holds in every state of the pass.
THEOREM DrivenInvariance == Sound => (Spec => []Driven)
<1> SUFFICES ASSUME Sound
             PROVE  Spec => []Driven
  OBVIOUS
<1>1. Init => Driven
  BY InitialSound DEF Sound, Init
<1>2. IInv /\ Driven /\ [Next]_vars => Driven'
  BY NextSound DEF Sound, IInv, Functional
<1> QED
  BY <1>1, <1>2, Invariance, PTL DEF Spec

\* Through every operation, in the middle of its loops too, ports, operands and
\* results agree and nobody refers to a port, an instance or a module that is gone.
THEOREM AlwaysWellFormed == Sound => (Spec => []WellFormed)
<1> SUFFICES ASSUME Sound
             PROVE  Spec => []WellFormed
  OBVIOUS
<1>1. IInv /\ Driven => WellFormed
  BY WholeIsWellFormed DEF Driven
<1>2. Spec => []Driven
  BY DrivenInvariance
<1> QED
  BY <1>1, <1>2, Invariance, PTL

\* The pass never changes what a register, an output of the design or a kept port
\* is driven by, however deep the design and however its modules share bodies.
THEOREM DriversStay == Sound => (Spec => []SameDrivers)
<1> SUFFICES ASSUME Sound
             PROVE  Spec => []SameDrivers
  OBVIOUS
<1>1. IInv /\ Driven => SameDrivers
  BY DrivenKeepsDrivers DEF Sound, IInv, Functional
<1>2. Spec => []Driven
  BY DrivenInvariance
<1> QED
  BY <1>1, <1>2, Invariance, PTL
=============================================================================
