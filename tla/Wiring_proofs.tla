--------------------------- MODULE Wiring_proofs ---------------------------
(***************************************************************************)
(* Whatever the design, the declaration and the device tree: a port has    *)
(* one owner at any time, a Top that compiles binds every port once, and   *)
(* when a component is coupled, its simulation and its overlay mean the    *)
(* same bus, register window and interrupt by the same number.             *)
(*                                                                         *)
(* sim.cpp resolves a bus again, with its own ports only.  That it finds   *)
(* the same ones (BusAgain) rests on no two signals being spelled alike,   *)
(* and is why a port is bound to one signal (WholeBuses, SignalsApart).    *)
(*                                                                         *)
(* Which port an interface gets depends on the names: one that is called   *)
(* like the instance takes all of its ports.  Plain says which names keep  *)
(* apart; with those each port is with the interface that fits it best.    *)
(***************************************************************************)
EXTENDS Wiring, FiniteSetTheorems, FunctionTheorems, SequenceTheorems, WellFoundedInduction, TLAPS

----------------------------------------------------------------------------
(* Claims. *)

\* Nothing is claimed before the ports are there.
NothingEarly == phase \in {"config", "loaded"} => DOMAIN claim = {} /\ pending = {}

Claims == TypeOK /\ ClaimsPartition /\ NothingEarly

\* A resolve takes ports of the pool only.
LEMMA ResolveInPool ==
  ASSUME NEW d, NEW io, NEW p, NEW i
  PROVE  Resolve(d, io, p, i) \subseteq io
<1>1. Match(d, io, p, i) \subseteq io
  BY DEF Match
<1>2. ASSUME NEW q, NEW sig PROVE FindOne(d, io, q, sig) \subseteq io
  BY DEF FindOne
<1>3. ASSUME NEW s \in DOMAIN SlaveSignals PROVE BusIo(d, io, p, i)[s] \subseteq io
  BY <1>2 DEF BusIo
<1>4. DOMAIN BusIo(d, io, p, i) = DOMAIN SlaveSignals
  BY DEF BusIo
<1>5. UNION {BusIo(d, io, p, i)[s] : s \in DOMAIN BusIo(d, io, p, i)} \subseteq io
  BY <1>3, <1>4
<1>6. QED
  BY <1>1, <1>5 DEF Resolve

\* What one claim more covers.
LEMMA ClaimUnion ==
  ASSUME NEW c, NEW D, NEW i, NEW taken, i \notin D, NEW e,
         e = [j \in D \union {i} |-> IF j = i THEN taken ELSE c[j]]
  PROVE  UNION {e[j] : j \in DOMAIN e} = (UNION {c[j] : j \in D}) \union taken
<1> DEFINE All == UNION {e[j] : j \in DOMAIN e}
<1>1. ASSUME NEW p \in All PROVE p \in (UNION {c[j] : j \in D}) \union taken
  <2> PICK j \in DOMAIN e : p \in e[j]
    BY <1>1 DEF All
  <2>1. CASE j = i
    BY <2>1
  <2>2. CASE j # i
    BY <2>2
  <2>3. QED
    BY <2>1, <2>2
<1>2. ASSUME NEW p \in UNION {c[j] : j \in D} PROVE p \in All
  <2> PICK j \in D : p \in c[j]
    OBVIOUS
  <2>1. j \in DOMAIN e /\ p \in e[j]
    OBVIOUS
  <2>2. QED
    BY <2>1 DEF All
<1>3. taken \subseteq All
  <2>1. i \in DOMAIN e /\ e[i] = taken
    OBVIOUS
  <2>2. QED
    BY <2>1 DEF All
<1>4. QED
  BY <1>1, <1>2, <1>3 DEF All

LEMMA ClaimsInit == Init => Claims
BY DEF Init, Claims, TypeOK, ClaimsPartition, NothingEarly, Nothing

LEMMA ClaimsStart ==
  ASSUME Claims, NEW io, NEW is, NEW anchor, Start(io, is, anchor), DOMAIN claim = {},
         io \subseteq {k \in DOMAIN design : IsPort(design[k])}
  PROVE  Claims'
BY DEF Start, Claims, TypeOK, ClaimsPartition, NothingEarly

LEMMA ClaimsStep == Claims /\ [Next]_vars => Claims'
<1> SUFFICES ASSUME Claims, [Next]_vars PROVE Claims'
  OBVIOUS
<1>1. CASE Load
  BY <1>1 DEF Load, Claims, TypeOK, ClaimsPartition, NothingEarly
<1>2. CASE Fail
  BY <1>2 DEF Fail, matcher, Claims, TypeOK, ClaimsPartition, NothingEarly
<1>3. CASE Extract
  BY <1>3, ClaimsStart DEF Extract, Extracted, Claims, NothingEarly
<1>4. CASE Infer
  BY <1>4, ClaimsStart DEF Infer, Inferred, Claims, NothingEarly
<1>5. CASE ResolveNext
  <2> PICK i \in pending :
        /\ consume(Taken(i)) /\ Taken(i) # {}
        /\ claim' = [j \in DOMAIN claim \union {i} |-> IF j = i THEN Taken(i) ELSE claim[j]]
        /\ pending' = pending \ {i}
    BY <1>5 DEF ResolveNext
  <2>1. Taken(i) \subseteq pool
    BY ResolveInPool DEF Taken
  <2>2. pool' = pool \ Taken(i) /\ phase = "resolving"
    BY <1>5 DEF consume, ResolveNext
  <2>3. /\ DOMAIN claim' = DOMAIN claim \union {i} /\ claim'[i] = Taken(i)
        /\ \A j \in DOMAIN claim : claim'[j] = claim[j]
        /\ i \notin DOMAIN claim
    BY DEF Claims, TypeOK
  <2>4. UNCHANGED <<design, phase, ifaces, ports>>
    BY <1>5 DEF ResolveNext
  <2>5. TypeOK'
    BY <2>1, <2>2, <2>3, <2>4 DEF Claims, TypeOK
  <2>6. ports' = pool' \union UNION {claim'[j] : j \in DOMAIN claim'}
    <3>1. UNION {claim'[j] : j \in DOMAIN claim'} = (UNION {claim[j] : j \in DOMAIN claim}) \union Taken(i)
      BY <2>3, ClaimUnion
    <3>2. QED
      BY <2>1, <2>2, <2>4, <3>1 DEF Claims, ClaimsPartition
  <2>7. \A j \in DOMAIN claim' : claim'[j] \intersect pool' = {}
    BY <2>2, <2>3 DEF Claims, ClaimsPartition
  <2>8. \A j, k \in DOMAIN claim' : j # k => claim'[j] \intersect claim'[k] = {}
    BY <2>1, <2>3 DEF Claims, ClaimsPartition
  <2>9. QED
    BY <2>2, <2>4, <2>5, <2>6, <2>7, <2>8 DEF Claims, ClaimsPartition, NothingEarly
<1>6. CASE Skip
  BY <1>6 DEF Skip, Claims, TypeOK, ClaimsPartition, NothingEarly
<1>7. CASE Render \/ Compile \/ Overlay
  BY <1>7 DEF Render, Compile, Overlay, matcher, Claims, TypeOK, ClaimsPartition, NothingEarly
<1>8. CASE UNCHANGED vars
  BY <1>8 DEF vars, Claims, TypeOK, ClaimsPartition, NothingEarly
<1>9. QED
  BY <1>1, <1>2, <1>3, <1>4, <1>5, <1>6, <1>7, <1>8
  DEF Next, LoadFails, ExtractFails, InferFails, ResolveFails, RenderFails, CompileFails, OverlayFails

\* Whatever the names and the order: every variable keeps its type, and
\* every port is in the pool or with exactly one interface.
THEOREM PortsPartitioned == Spec => [](TypeOK /\ ClaimsPartition)
<1>1. Spec => []Claims
  BY ClaimsInit, ClaimsStep, PTL DEF Spec
<1>2. Claims => TypeOK /\ ClaimsPartition
  BY DEF Claims
<1>3. QED
  BY <1>1, <1>2, PTL

\* No step of the pipeline, failing ones included, leaves a port it does not know
\* of in the pool, or an interface that is both pending and claimed.
THEOREM TypeCorrect == Spec => []TypeOK
<1>1. TypeOK /\ ClaimsPartition => TypeOK
  OBVIOUS
<1>2. QED
  BY <1>1, PortsPartitioned, PTL

----------------------------------------------------------------------------
(* What is known of a component by the time it is coupled. *)

Done == {"rendered", "compiled", "coupled"}

\* The interfaces are those declared, and the declaration loads.
Known ==
  /\ decl \in Declarations \union {None} /\ design \in Designs
  /\ decl # None /\ phase \in {"loaded", "resolving"} \union Done =>
       /\ LoadsComponent(decl)
       /\ ifaces = [k \in DOMAIN decl.interfaces |-> Interface(decl.interfaces[k])]

\* None of them is left out.
AllResolved ==
  /\ decl # None /\ phase \in {"resolving"} \union Done => DOMAIN ifaces = DOMAIN claim \union pending
  /\ phase \in Done => pending = {}

\* What Render and Overlay write, of the claims.
Numbers == [i \in Of("tilelink") |-> BusIndex(i, Buses(ifaces[i].dir))]
Bindings == Signals \union BusSignals \union Wires
RemotePorts == [i \in Of("tilelink") |-> BusIndex(i, Buses(ifaces[i].dir))
                                           + IF ifaces[i].dir = "master" THEN Window ELSE 0]
Windows == [i \in Buses("slave") |-> RegWindows[BusIndex(i, Buses("slave")) + 1]]

\* What each step has written still holds of the claims.
Written ==
  /\ phase \in Done => sim.bind = Bindings /\ sim.number = Numbers
  /\ phase \in {"compiled", "coupled"} => Compiles
  /\ phase = "coupled" =>
       /\ decl # None /\ NeedsQemu /\ Overlays
       /\ dts = [rp |-> RemotePorts, reg |-> Windows, cells |-> Cells]

IInv == Claims /\ Known /\ AllResolved /\ Written

LEMMA IInvInit == Init => IInv
BY ClaimsInit DEF Init, IInv, Known, AllResolved, Written, Done

LEMMA KnownStep == Known /\ [Next]_vars => Known'
BY DEF Known, Done, Next, vars, matcher, Fail, Load, LoadFails, Extract, ExtractFails, Infer,
       InferFails, Start, ResolveNext, Skip, ResolveFails, Render, RenderFails, Compile,
       CompileFails, Overlay, OverlayFails

LEMMA AllResolvedStep == Claims /\ AllResolved /\ [Next]_vars => AllResolved'
<1> SUFFICES ASSUME Claims, AllResolved, [Next]_vars PROVE AllResolved'
  OBVIOUS
<1> USE DEF AllResolved, Done
<1>1. CASE Extract \/ Infer
  <2>1. DOMAIN claim' = {} /\ pending' = DOMAIN ifaces' /\ phase' = "resolving"
    BY <1>1 DEF Extract, Infer, Start, Claims, NothingEarly
  <2>2. QED
    BY <2>1
<1>2. CASE ResolveNext
  <2>1. DOMAIN claim' \union pending' = DOMAIN claim \union pending
    BY <1>2 DEF ResolveNext
  <2>2. QED
    BY <1>2, <2>1 DEF ResolveNext
<1>3. CASE Skip
  BY <1>3 DEF Skip
<1>4. CASE Load \/ Fail \/ Render \/ Compile \/ Overlay \/ UNCHANGED vars
  BY <1>4 DEF Load, Fail, Render, Compile, Overlay, vars, matcher
<1>5. QED
  BY <1>1, <1>2, <1>3, <1>4
  DEF Next, LoadFails, ExtractFails, InferFails, ResolveFails, RenderFails, CompileFails, OverlayFails

\* The claims do not change once they are written down.
LEMMA WrittenStays ==
  ASSUME UNCHANGED <<decl, design, matcher>>
  PROVE  /\ Bindings' = Bindings /\ Numbers' = Numbers
         /\ RemotePorts' = RemotePorts /\ Windows' = Windows /\ Cells' = Cells
         /\ sim' = sim => (Compiles' <=> Compiles)
         /\ NeedsQemu' <=> NeedsQemu
         /\ Overlays' <=> Overlays
BY DEF matcher, Bindings, Numbers, RemotePorts, Windows,
       Signals, BusSignals, Wires, WirePorts, WireIndex, PortIndex, Typed, PortsOf, Of, Io,
       Ahead, Owner, Before, Order, BusIndex, Buses, Compiles, NeedsQemu, Overlays, Cells,
       RegWindows, Node, Nodes, IsBound

LEMMA WrittenStep == Written /\ [Next]_vars => Written'
<1> SUFFICES ASSUME Written, [Next]_vars PROVE Written'
  OBVIOUS
<1> USE DEF Written, Done
<1>1. CASE Load \/ Fail \/ Extract \/ Infer \/ ResolveNext \/ Skip
  <2>1. phase' \notin Done
    BY <1>1 DEF Load, Fail, Extract, Infer, Start, ResolveNext, Skip
  <2>2. QED
    BY <2>1
<1>2. CASE Render
  <2>1. UNCHANGED <<decl, design, matcher>> /\ phase' = "rendered"
    BY <1>2 DEF Render
  <2>2. sim'.bind = Bindings /\ sim'.number = Numbers
    BY <1>2 DEF Render, Bindings, Numbers
  <2>3. QED
    BY <2>1, <2>2, WrittenStays
<1>3. CASE Compile
  <2>1. UNCHANGED <<decl, design, matcher>> /\ sim' = sim
    BY <1>3 DEF Compile
  <2>2. phase = "rendered" /\ phase' = "compiled" /\ Compiles
    BY <1>3 DEF Compile
  <2>3. QED
    BY <2>1, <2>2, WrittenStays
<1>4. CASE Overlay
  <2>1. UNCHANGED <<decl, design, matcher>> /\ sim' = sim
    BY <1>4 DEF Overlay
  <2>2. phase = "compiled" /\ phase' = "coupled" /\ decl # None /\ NeedsQemu /\ Overlays
    BY <1>4 DEF Overlay
  <2>3. dts' = [rp |-> RemotePorts, reg |-> Windows, cells |-> Cells]
    BY <1>4 DEF Overlay, RemotePorts, Windows
  <2>4. QED
    BY <2>1, <2>2, <2>3, WrittenStays
<1>5. CASE UNCHANGED vars
  <2>1. UNCHANGED <<decl, design, matcher>> /\ sim' = sim /\ dts' = dts /\ phase' = phase
    BY <1>5 DEF vars, matcher
  <2>2. QED
    BY <2>1, WrittenStays
<1>6. QED
  BY <1>1, <1>2, <1>3, <1>4, <1>5
  DEF Next, LoadFails, ExtractFails, InferFails, ResolveFails, RenderFails, CompileFails, OverlayFails

LEMMA IInvStep == IInv /\ [Next]_vars => IInv'
BY ClaimsStep, KnownStep, AllResolvedStep, WrittenStep DEF IInv

----------------------------------------------------------------------------
(* Places in a list. *)

LEMMA Fewer ==
  ASSUME NEW S, IsFiniteSet(S), NEW T \in SUBSET S, NEW x \in S, x \notin T
  PROVE  /\ Cardinality(T) \in Nat /\ Cardinality(S) \in Nat
         /\ Cardinality(T) < Cardinality(S)
<1>1. IsFiniteSet(T) /\ Cardinality(T) <= Cardinality(S) /\ Cardinality(T) # Cardinality(S)
  BY FS_Subset
<1>2. Cardinality(T) \in Nat /\ Cardinality(S) \in Nat
  BY <1>1, FS_CardinalityType
<1>3. QED
  BY <1>1, <1>2

\* A component that is coupled: every declared interface has its ports.
LEMMA Coupled ==
  ASSUME IInv, phase = "coupled"
  PROVE  /\ decl \in Declarations
         /\ DOMAIN ifaces = DOMAIN claim /\ DOMAIN claim \subseteq Int
         /\ IsFiniteSet(DOMAIN claim)
         /\ \A i \in Of("tilelink") : ifaces[i].dir \in {"slave", "master"}
         /\ DOMAIN design \subseteq Int /\ IsFiniteSet(DOMAIN design)
<1>1. decl \in Declarations /\ design \in Designs
  BY DEF IInv, Written, Known
<1>2. LoadsComponent(decl) /\ ifaces = [k \in DOMAIN decl.interfaces |-> Interface(decl.interfaces[k])]
  BY <1>1 DEF IInv, Known, Written, Done
<1>3. DOMAIN ifaces = DOMAIN claim
  BY <1>1 DEF IInv, AllResolved, Written, Done
<1>4. DOMAIN claim = 1 .. Len(decl.interfaces) /\ Len(decl.interfaces) \in Nat
  BY <1>1, <1>2, <1>3, DeclarationAssumption
<1>5. ASSUME NEW i \in Of("tilelink") PROVE ifaces[i].dir \in {"slave", "master"}
  <2>1. i \in DOMAIN decl.interfaces /\ ifaces[i] = Interface(decl.interfaces[i])
    BY <1>2, <1>3 DEF Of
  <2>2. decl.interfaces[i].kind = "tilelink"
    BY <2>1 DEF Of, Interface
  <2>3. LoadsBus(decl.interfaces[i])
    BY <1>2, <2>1, <2>2 DEF LoadsComponent, LoadsInterface
  <2>4. QED
    BY <2>1, <2>3 DEF Interface, LoadsBus, Get
<1>6. design \in Seq([inst : Seq(STRING), bare : Seq(STRING),
                      typ : {"input", "output", "register"}, bits : Nat])
  BY <1>1, DesignAssumption
<1>7. DOMAIN design = 1 .. Len(design) /\ Len(design) \in Nat
  BY <1>6
<1>8. QED
  BY <1>1, <1>3, <1>4, <1>5, <1>7, FS_Interval

LEMMA OwnerIs ==
  ASSUME ClaimsPartition, NEW i \in DOMAIN claim, NEW p \in claim[i]
  PROVE  Owner(p) = i
BY DEF Owner, ClaimsPartition

\* A bus comes before the end of the buses of its direction, and two of them
\* in the order of their declaration.
LEMMA BusPlaces ==
  ASSUME DOMAIN claim \subseteq Int, IsFiniteSet(DOMAIN claim),
         NEW dir, NEW i \in Buses(dir)
  PROVE  /\ BusIndex(i, Buses(dir)) \in Nat /\ Cardinality(Buses(dir)) \in Nat
         /\ BusIndex(i, Buses(dir)) < Cardinality(Buses(dir))
         /\ BusIndex(i, Buses(dir)) + 1 = Cardinality({j \in Buses(dir) : j <= i})
         /\ \A j \in Buses(dir) : i < j => BusIndex(i, Buses(dir)) < BusIndex(j, Buses(dir))
<1> DEFINE T(j) == {k \in Buses(dir) : Before(k, j)}
<1>1. IsFiniteSet(Buses(dir)) /\ Buses(dir) \subseteq Int
  BY FS_Subset DEF Buses, Of
<1>2. \A k, j \in Buses(dir) : Before(k, j) <=> k < j
  BY <1>1 DEF Before, Order, ORDER, Buses, Of
<1>3. i \notin T(i) /\ T(i) \subseteq Buses(dir)
  BY <1>1, <1>2
<1>4. /\ Cardinality(T(i)) \in Nat /\ Cardinality(Buses(dir)) \in Nat
      /\ Cardinality(T(i)) < Cardinality(Buses(dir))
  BY <1>1, <1>3, Fewer
<1>5. Cardinality(T(i)) + 1 = Cardinality({j \in Buses(dir) : j <= i})
  <2>1. {j \in Buses(dir) : j <= i} = T(i) \union {i}
    BY <1>1, <1>2
  <2>2. IsFiniteSet(T(i))
    BY <1>1, <1>3, FS_Subset
  <2>3. QED
    BY <1>3, <2>1, <2>2, FS_AddElement
<1>6. ASSUME NEW j \in Buses(dir), i < j PROVE Cardinality(T(i)) < Cardinality(T(j))
  <2>1. i \in T(j) /\ T(i) \subseteq T(j)
    BY <1>1, <1>2, <1>6
  <2>2. IsFiniteSet(T(j))
    BY <1>1, FS_Subset
  <2>3. QED
    BY <1>3, <2>1, <2>2, Fewer
<1>7. QED
  BY <1>4, <1>5, <1>6 DEF BusIndex

\* The buses of a component that is coupled have the same device on both
\* sides, and a window each.
LEMMA BusesAgree ==
  ASSUME IInv, phase = "coupled"
  PROVE  /\ \A i \in Of("tilelink") : dts.rp[i] = Device(i) /\ Device(i) < 2 * Window
         /\ \A i, j \in Of("tilelink") : i # j => Device(i) # Device(j)
         /\ \A i \in Buses("slave") :
              dts.reg[i] = Node.reg[Cardinality({j \in DOMAIN ifaces :
                             j <= i /\ ifaces[j].kind = "tilelink" /\ ifaces[j].dir = "slave"})]
<1>1. /\ sim.number = Numbers /\ Compiles /\ NeedsQemu /\ Overlays
      /\ dts = [rp |-> RemotePorts, reg |-> Windows, cells |-> Cells]
  BY DEF IInv, Written, Done
<1>2. DOMAIN claim \subseteq Int /\ IsFiniteSet(DOMAIN claim) /\ DOMAIN ifaces = DOMAIN claim
  BY Coupled
<1>3. ASSUME NEW i \in Of("tilelink")
      PROVE  /\ ifaces[i].dir \in {"slave", "master"} /\ i \in Buses(ifaces[i].dir) /\ i \in Int
             /\ sim.number[i] = BusIndex(i, Buses(ifaces[i].dir))
             /\ sim.number[i] \in Nat /\ sim.number[i] < Window
             /\ dts.rp[i] = Device(i)
  <2>1. ifaces[i].dir \in {"slave", "master"} /\ i \in Buses(ifaces[i].dir) /\ i \in Int
    BY <1>2, Coupled DEF Buses, Of
  <2>2. sim.number[i] = BusIndex(i, Buses(ifaces[i].dir))
    BY <1>1 DEF Numbers
  <2>3. Cardinality(Buses(ifaces[i].dir)) <= Window
    BY <1>1, <2>1 DEF Compiles
  <2>4. /\ BusIndex(i, Buses(ifaces[i].dir)) \in Nat /\ Cardinality(Buses(ifaces[i].dir)) \in Nat
        /\ BusIndex(i, Buses(ifaces[i].dir)) < Cardinality(Buses(ifaces[i].dir))
    BY <1>2, <2>1, BusPlaces
  <2>5. dts.rp[i] = sim.number[i] + IF ifaces[i].dir = "master" THEN Window ELSE 0
    BY <1>1, <2>2 DEF RemotePorts
  <2>6. dts.rp[i] = Device(i)
    BY <2>1, <2>2, <2>4, <2>5, WindowAssumption DEF Device
  <2>7. QED
    BY <2>1, <2>2, <2>3, <2>4, <2>6, WindowAssumption
<1>4. ASSUME NEW i \in Of("tilelink") PROVE dts.rp[i] = Device(i) /\ Device(i) < 2 * Window
  BY <1>3, WindowAssumption DEF Device
<1>5. ASSUME NEW i \in Of("tilelink"), NEW j \in Of("tilelink"), i < j
      PROVE  Device(i) # Device(j)
  <2>1. CASE ifaces[i].dir = ifaces[j].dir
    <3>1. BusIndex(i, Buses(ifaces[i].dir)) < BusIndex(j, Buses(ifaces[i].dir))
      BY <1>2, <1>3, <1>5, <2>1, BusPlaces
    <3>2. sim.number[i] < sim.number[j]
      BY <1>3, <2>1, <3>1
    <3>3. QED
      BY <1>3, <2>1, <3>2, WindowAssumption DEF Device
  <2>2. CASE ifaces[i].dir # ifaces[j].dir
    BY <1>3, <2>2, WindowAssumption DEF Device
  <2>3. QED
    BY <2>1, <2>2
<1>6. ASSUME NEW i \in Buses("slave")
      PROVE  dts.reg[i] = Node.reg[Cardinality({j \in DOMAIN ifaces :
                            j <= i /\ ifaces[j].kind = "tilelink" /\ ifaces[j].dir = "slave"})]
  <2>1. BusIndex(i, Buses("slave")) \in Nat /\ Cardinality(Buses("slave")) \in Nat
        /\ BusIndex(i, Buses("slave")) < Cardinality(Buses("slave"))
        /\ BusIndex(i, Buses("slave")) + 1 = Cardinality({j \in Buses("slave") : j <= i})
    BY <1>2, BusPlaces
  <2>2. Cardinality(Buses("slave")) <= Len(RegWindows)
    BY <1>1 DEF Overlays
  <2>3. IsBound
    BY <2>1, <2>2 DEF RegWindows
  <2>4. dts.reg[i] = Node.reg[Cardinality({j \in Buses("slave") : j <= i})]
    BY <1>1, <2>1, <2>3 DEF Windows, RegWindows
  <2>5. {j \in Buses("slave") : j <= i} =
          {j \in DOMAIN ifaces : j <= i /\ ifaces[j].kind = "tilelink" /\ ifaces[j].dir = "slave"}
    BY <1>2 DEF Buses, Of
  <2>6. QED
    BY <2>4, <2>5
<1>7. ASSUME NEW i \in Of("tilelink"), NEW j \in Of("tilelink"), i # j
      PROVE  Device(i) # Device(j)
  <2>1. i < j \/ j < i
    BY <1>3, <1>7
  <2>2. QED
    BY <1>5, <2>1
<1>8. QED
  BY <1>4, <1>6, <1>7

\* An output of the model that is a wire has its number: interrupts in the
\* order of their declaration, below the number of interrupt cells, and gpio
\* from there on.
LEMMA WiresAgree ==
  ASSUME IInv, phase = "coupled",
         NEW b \in sim.bind, NEW c \in sim.bind, b[2] = "output", c[2] = "output"
  PROVE  /\ b[1] \in PortsOf("gpio") <=> b[3] >= Len(dts.cells)
         /\ b[1] \in PortsOf("interrupt") /\ c[1] \in PortsOf("interrupt")
              /\ Owner(b[1]) < Owner(c[1]) => b[3] < c[3]
<1> DEFINE T == Typed("interrupt", "output")
<1> DEFINE A(p) == {q \in T : Ahead(q, p)}
<1>1. /\ sim.bind = Bindings /\ Overlays
      /\ dts = [rp |-> RemotePorts, reg |-> Windows, cells |-> Cells]
  BY DEF IInv, Written, Done
<1>2. Len(dts.cells) = Cardinality(T)
  BY <1>1 DEF Overlays
<1>3. ClaimsPartition /\ TypeOK
  BY DEF IInv, Claims
<1>4. DOMAIN claim \subseteq Int /\ DOMAIN design \subseteq Int /\ IsFiniteSet(DOMAIN design)
  BY Coupled
<1>5. \A i \in DOMAIN claim : claim[i] \subseteq DOMAIN design
  BY <1>3 DEF TypeOK
<1>6. ASSUME NEW kind, NEW typ
      PROVE  Typed(kind, typ) \subseteq DOMAIN design /\ IsFiniteSet(Typed(kind, typ))
  <2>1. Typed(kind, typ) \subseteq DOMAIN design
    BY <1>5 DEF Typed, PortsOf, Of
  <2>2. QED
    BY <1>4, <2>1, FS_Subset
<1>7. ASSUME NEW kind, NEW p \in PortsOf(kind)
      PROVE  Owner(p) \in Of(kind) /\ p \in claim[Owner(p)] /\ Owner(p) \in Int /\ p \in Int
  <2>1. PICK i \in Of(kind) : p \in claim[i]
    BY DEF PortsOf
  <2>2. Owner(p) = i
    BY <1>3, <2>1, OwnerIs DEF Of
  <2>3. QED
    BY <1>4, <1>5, <2>1, <2>2 DEF Of
<1>8. ASSUME NEW p \in PortsOf("interrupt"), NEW q \in PortsOf("interrupt")
      PROVE  Ahead(p, q) <=> Owner(p) < Owner(q) \/ (Owner(p) = Owner(q) /\ p < q)
  <2>1. ifaces[Owner(p)].kind = "interrupt" /\ ifaces[Owner(q)].kind = "interrupt"
    BY <1>7 DEF Of
  <2>2. QED
    BY <1>7, <2>1 DEF Ahead, Before, Order, ORDER
<1>9. \A p \in PortsOf("gpio") : p \notin PortsOf("interrupt")
  BY <1>7 DEF Of
<1>10. ASSUME NEW w \in sim.bind, w[2] = "output"
       PROVE  /\ w[1] \in PortsOf("interrupt") \union PortsOf("gpio")
              /\ design[w[1]].typ = "output" /\ w[3] = WireIndex(w[1])
  <2>1. w \notin Signals
    <3> SUFFICES ASSUME NEW p, w = <<p, "signal", p, "">> PROVE FALSE
      BY DEF Signals
    <3> QED
      BY <1>10
  <2>2. w \notin BusSignals
    <3> SUFFICES ASSUME NEW p, NEW i, NEW s, w = <<p, "bus", i, s>> PROVE FALSE
      BY DEF BusSignals
    <3> QED
      BY <1>10
  <2>3. w \in Wires
    BY <1>1, <2>1, <2>2 DEF Bindings
  <2>4. PICK p \in WirePorts : w = <<p, design[p].typ, WireIndex(p), "">>
    BY <2>3 DEF Wires
  <2>5. w[1] = p /\ w[2] = design[p].typ /\ w[3] = WireIndex(p)
    BY <2>4
  <2>6. QED
    BY <1>10, <2>5 DEF WirePorts
<1>11. ASSUME NEW w \in sim.bind, w[2] = "output", w[1] \in PortsOf("interrupt")
       PROVE  /\ w[1] \in T /\ w[3] = Cardinality(A(w[1]))
              /\ w[1] \notin A(w[1]) /\ A(w[1]) \subseteq T
              /\ w[3] \in Nat /\ w[3] < Cardinality(T)
  <2>1. w[1] \in T /\ w[3] = Cardinality(A(w[1]))
    BY <1>10, <1>11 DEF WireIndex, PortIndex, Typed
  <2>2. w[1] \notin A(w[1]) /\ A(w[1]) \subseteq T
    BY <1>7, <1>8, <1>11
  <2>3. IsFiniteSet(T)
    BY <1>6
  <2>4. Cardinality(A(w[1])) \in Nat /\ Cardinality(A(w[1])) < Cardinality(T)
    BY <2>1, <2>2, <2>3, Fewer
  <2>5. QED
    BY <2>1, <2>2, <2>4
<1>12. ASSUME NEW w \in sim.bind, w[2] = "output", w[1] \in PortsOf("gpio")
       PROVE  w[3] >= Cardinality(T)
  <2> DEFINE G == Typed("gpio", "output")
  <2>1. w[3] = Cardinality(T) + PortIndex(w[1], G)
    BY <1>9, <1>10, <1>12 DEF WireIndex
  <2>2. {q \in G : Ahead(q, w[1])} \subseteq G /\ IsFiniteSet(G) /\ IsFiniteSet(T)
    BY <1>6
  <2>3. PortIndex(w[1], G) \in Nat /\ Cardinality(T) \in Nat
    BY <2>2, FS_Subset, FS_CardinalityType DEF PortIndex
  <2>4. QED
    BY <2>1, <2>3
<1>13. b[1] \in PortsOf("gpio") <=> b[3] >= Len(dts.cells)
  <2>1. Cardinality(T) \in Nat
    BY <1>6, FS_CardinalityType
  <2>2. CASE b[1] \in PortsOf("gpio")
    BY <1>2, <1>12, <2>2
  <2>3. CASE b[1] \in PortsOf("interrupt")
    <3>1. b[3] \in Nat /\ b[3] < Cardinality(T)
      BY <1>11, <2>3
    <3>2. b[1] \notin PortsOf("gpio") /\ ~(b[3] >= Cardinality(T))
      BY <1>9, <2>1, <2>3, <3>1
    <3>3. QED
      BY <1>2, <3>2
  <2>4. QED
    BY <1>10, <2>2, <2>3
<1>14. ASSUME b[1] \in PortsOf("interrupt"), c[1] \in PortsOf("interrupt"), Owner(b[1]) < Owner(c[1])
       PROVE  b[3] < c[3]
  <2>1. b[1] \in T /\ T \subseteq PortsOf("interrupt")
    BY <1>11, <1>14 DEF Typed
  <2>2. b[1] \in A(c[1])
    BY <1>8, <1>14, <2>1
  <2>3. ASSUME NEW q \in A(b[1]) PROVE q \in A(c[1])
    BY <1>7, <1>8, <1>14, <2>1
  <2>4. A(b[1]) \subseteq A(c[1]) /\ b[1] \notin A(b[1])
    BY <1>11, <1>14, <2>3
  <2>5. IsFiniteSet(A(c[1]))
    BY <1>6, <1>11, <1>14, FS_Subset
  <2>6. Cardinality(A(b[1])) < Cardinality(A(c[1]))
    BY <2>2, <2>4, <2>5, Fewer
  <2>7. QED
    BY <1>11, <1>14, <2>6
<1>15. QED
  BY <1>13, <1>14

\* The two sides of the channel number the buses and the wires of every
\* component that is coupled alike.
THEOREM CoupledNumbersAgree == Spec => []SameNumbers
<1>1. IInv => SameNumbers
  BY BusesAgree, WiresAgree DEF SameNumbers
<1>2. QED
  BY IInvInit, IInvStep, <1>1, PTL DEF Spec

----------------------------------------------------------------------------
(* What is known of the names, whichever the declaration. *)

\* The words of the signals are strings, too, which no backend knows.
Words == STRING \union {"a", "d", "bits", "valid", "ready", "data", "param", "size", "sink"}
Names == Seq(Words)
Kinds == {"clock", "reset", "tilelink", "interrupt", "gpio"}

LEMMA StringNames == \A n \in Seq(STRING) : n \in Names
BY DEF Names, Words

LEMMA DesignNames ==
  ASSUME design \in Designs
  PROVE  /\ DOMAIN design = 1 .. Len(design) /\ Len(design) \in Nat
         /\ \A k \in DOMAIN design : Name(design[k]) \in Names
<1> DEFINE R == [inst : Seq(STRING), bare : Seq(STRING),
                 typ : {"input", "output", "register"}, bits : Nat]
<1>1. \A s \in R : s.inst \in Seq(STRING) /\ s.bare \in Seq(STRING)
  OBVIOUS
<1>2. design \in Seq(R)
  BY DesignAssumption
<1> HIDE DEF R
<1>3. DOMAIN design = 1 .. Len(design) /\ Len(design) \in Nat
  BY <1>2
<1>4. ASSUME NEW k \in DOMAIN design PROVE Name(design[k]) \in Names
  <2>1. design[k] \in R
    BY <1>2, <1>3, ElementOfSeq
  <2>2. design[k].inst \in Seq(STRING) /\ design[k].bare \in Seq(STRING)
    BY <1>1, <2>1
  <2>3. QED
    BY <2>2, ConcatProperties, StringNames DEF Name
<1>5. QED
  BY <1>3, <1>4

\* A set of numbers that is not empty has a least one.
LEMMA LeastIn ==
  ASSUME NEW S \in SUBSET Nat, S # {}
  PROVE  Least(S) \in S /\ \A l \in S : Least(S) <= l
<1> DEFINE R == OpToRel(<, Nat)
<1>1. \A i, j \in Nat : <<i, j>> \in R <=> i < j
  BY DEF OpToRel
<1>2. IsWellFoundedOn(R, Nat)
  BY NatLessThanWellFounded
<1> HIDE DEF R
<1>3. PICK l \in S : \A m \in S : ~(<<m, l>> \in R)
  BY <1>2, WFMin
<1>4. \A m \in S : l \in Nat /\ m \in Nat /\ ~(m < l)
  BY <1>1, <1>3
<1>5. \A m \in S : l <= m
  BY <1>4
<1>6. QED
  BY <1>5 DEF Least

LEMMA Front ==
  ASSUME NEW n \in Names, NEW m \in Nat, m <= Len(n)
  PROVE  SubSeq(n, 1, m) \in Names
<1>1. n \in Seq(Words) /\ Len(n) \in Nat
  BY DEF Names
<1>2. 1 \in 1 .. Len(n) + 1 /\ m \in 0 .. Len(n)
  BY <1>1
<1>3. SubSeq(n, 1, m) \in Seq(Words)
  BY <1>1, <1>2, SubSeqProperties
<1>4. QED
  BY <1>3 DEF Names

\* The prefix is the front of a port's name.
LEMMA PrefixIsName ==
  ASSUME design \in Designs, NEW io \in SUBSET DOMAIN design, NEW anchor \in Names
  PROVE  Prefix(design, io, anchor) \in Names
<1> DEFINE hits == {k \in io : Name(design[k]) = anchor \/ EndsWith(Name(design[k]), anchor)}
<1> DEFINE name == Name(design[Least(hits)])
<1>1. CASE anchor = <<>> \/ hits = {}
  <2>1. Prefix(design, io, anchor) = <<>>
    BY <1>1 DEF Prefix
  <2>2. <<>> \in Seq(Words)
    OBVIOUS
  <2>3. QED
    BY <2>1, <2>2 DEF Names
<1>2. CASE anchor # <<>> /\ hits # {}
  <2>1. hits \in SUBSET Nat
    BY DesignNames
  <2>2. Least(hits) \in hits
    BY <1>2, <2>1, LeastIn
  <2>3. name \in Names /\ (name = anchor \/ EndsWith(name, anchor))
    BY <2>2, DesignNames
  <2>4. Len(anchor) \in Nat /\ Len(name) \in Nat /\ Len(anchor) <= Len(name)
    BY <2>3 DEF EndsWith, Names
  <2>5. SubSeq(name, 1, Len(name) - Len(anchor)) \in Names
    BY <2>3, <2>4, Front
  <2>6. QED
    BY <1>2, <2>5 DEF Prefix
<1>3. QED
  BY <1>1, <1>2

\* The interfaces that are guessed.
LEMMA GuessShape ==
  ASSUME design \in Designs, NEW io, NEW k \in DOMAIN design, NEW g \in Guess(design, io, k)
  PROVE  g.kind \in Kinds /\ g.name \in Names
<1> DEFINE n == Name(design[k])
<1>1. n \in Names
  BY DesignNames
<1>2. EndsWith(n, <<"a", "valid">>) => SubSeq(n, 1, Len(n) - 2) \in Names
  <2>1. Len(<<"a", "valid">>) = 2
    OBVIOUS
  <2>2. EndsWith(n, <<"a", "valid">>) => Len(n) > 2
    BY <2>1 DEF EndsWith
  <2>3. QED
    BY <1>1, <2>2, Front DEF Names
<1> DEFINE guess == [kind |-> "clock", name |-> n, exact |-> TRUE, dir |-> "out",
                     freq |-> 0, clock |-> <<>>, reset |-> <<>>]
<1>3. \/ g = guess
      \/ g = [guess EXCEPT !.kind = "reset"]
      \/ \E dir \in {"in", "out"} : g = [guess EXCEPT !.kind = "interrupt", !.dir = dir]
      \/ /\ EndsWith(n, <<"a", "valid">>)
         /\ \E dir \in {"slave", "master"} :
              g = [guess EXCEPT !.kind = "tilelink", !.exact = FALSE,
                                !.name = SubSeq(n, 1, Len(n) - 2), !.dir = dir]
  BY DEF Guess
<1>4. CASE g = guess
  BY <1>1, <1>4 DEF Kinds
<1>5. CASE g = [guess EXCEPT !.kind = "reset"]
  BY <1>1, <1>5 DEF Kinds
<1>6. CASE \E dir \in {"in", "out"} : g = [guess EXCEPT !.kind = "interrupt", !.dir = dir]
  BY <1>1, <1>6 DEF Kinds
<1>7. ASSUME EndsWith(n, <<"a", "valid">>), NEW dir,
             g = [guess EXCEPT !.kind = "tilelink", !.exact = FALSE,
                               !.name = SubSeq(n, 1, Len(n) - 2), !.dir = dir]
      PROVE  g.kind \in Kinds /\ g.name \in Names
  <2>1. g.kind = "tilelink" /\ g.name = SubSeq(n, 1, Len(n) - 2)
    BY <1>7
  <2>2. QED
    BY <1>2, <1>7, <2>1 DEF Kinds
<1>8. QED
  BY <1>3, <1>4, <1>5, <1>6, <1>7

LEMMA InferShape ==
  ASSUME design \in Designs, NEW io \in SUBSET DOMAIN design
  PROVE  LET is == InferInterfaces(design, io) IN
         /\ DOMAIN is \subseteq Int
         /\ \A i \in DOMAIN is : is[i].kind \in Kinds /\ is[i].name \in Names
<1> DEFINE At(k) == CHOOSE g \in Guess(design, io, k) : TRUE
           slave == {k \in io : Guess(design, io, k) # {} /\ At(k).dir = "slave"}
           rest  == {k \in io : Guess(design, io, k) # {}} \ slave
           is == InferInterfaces(design, io)
<1>1. ASSUME NEW k \in slave \union rest PROVE At(k).kind \in Kinds /\ At(k).name \in Names
  <2>1. k \in DOMAIN design /\ At(k) \in Guess(design, io, k)
    OBVIOUS
  <2>2. QED
    BY <2>1, GuessShape
<1>2. slave \subseteq Int /\ rest \subseteq Int /\ Len(design) \in Int
  BY DesignNames
<1>3. DOMAIN is = rest \union {k + Len(design) : k \in slave}
  BY DEF InferInterfaces
<1>4. ASSUME NEW i \in DOMAIN is PROVE is[i] = At(IF i \in rest THEN i ELSE i - Len(design))
  BY <1>3, <1>4 DEF InferInterfaces
<1>5. ASSUME NEW i \in DOMAIN is PROVE (IF i \in rest THEN i ELSE i - Len(design)) \in slave \union rest
  BY <1>2, <1>3, <1>5
<1> HIDE DEF slave, rest, is, At
<1>6. DOMAIN is \subseteq Int
  <2>1. \A k \in slave : k + Len(design) \in Int
    BY <1>2
  <2>2. QED
    BY <1>2, <1>3, <2>1
<1>7. \A i \in DOMAIN is : is[i].kind \in Kinds /\ is[i].name \in Names
  BY <1>1, <1>4, <1>5
<1>8. QED
  BY <1>6, <1>7 DEF is

----------------------------------------------------------------------------
(* A bus resolved once more, with its own ports only, comes out the same.  *)

LEMMA Tuples ==
  ASSUME NEW S
  PROVE  /\ \A a, b \in S : <<a, b>> \in Seq(S) /\ Len(<<a, b>>) = 2
         /\ \A a, b, c \in S : <<a, b, c>> \in Seq(S) /\ Len(<<a, b, c>>) = 3
OBVIOUS

\* The signals a bus needs and the ways to spell them: no two share one.
LEMMA Spellings ==
  ASSUME NEW dir
  PROVE  /\ DOMAIN SIGNALS(dir) = DOMAIN SlaveSignals
         /\ \A s \in DOMAIN SlaveSignals : \A n \in SIGNALS(dir)[s].names : n \in Names /\ Len(n) > 0
         /\ \A s, u \in DOMAIN SlaveSignals :
              SIGNALS(dir)[s].names \intersect SIGNALS(dir)[u].names # {} => s = u
<1>1. DOMAIN SlaveSignals = {"a_valid", "a_data", "a_param", "a_ready", "d_size", "d_sink"}
  BY DEF SlaveSignals
<1>2. \A s \in DOMAIN SlaveSignals : SIGNALS(dir)[s].names = SlaveSignals[s].names
  <2>1. ASSUME NEW s \in DOMAIN SlaveSignals
        PROVE  [SlaveSignals[s] EXCEPT !.typ = flip(@)].names = SlaveSignals[s].names
    BY <1>1 DEF SlaveSignals
  <2>2. QED
    BY <2>1 DEF SIGNALS
<1>3. DOMAIN SIGNALS(dir) = DOMAIN SlaveSignals
  BY DEF SIGNALS
<1>4. /\ SlaveSignals["a_valid"].names = {<<"a", "valid">>}
      /\ SlaveSignals["a_data"].names = {<<"a", "data">>, <<"a", "bits", "data">>}
      /\ SlaveSignals["a_param"].names = {<<"a", "param">>, <<"a", "bits", "param">>}
      /\ SlaveSignals["a_ready"].names = {<<"a", "ready">>}
      /\ SlaveSignals["d_size"].names = {<<"d", "size">>, <<"d", "bits", "size">>}
      /\ SlaveSignals["d_sink"].names = {<<"d", "sink">>, <<"d", "bits", "sink">>}
  BY DEF SlaveSignals
<1>5. ASSUME NEW s \in DOMAIN SlaveSignals, NEW n \in SlaveSignals[s].names
      PROVE  n \in Names /\ Len(n) > 0
  <2>1. /\ "a" \in Words /\ "d" \in Words /\ "bits" \in Words
        /\ "valid" \in Words /\ "ready" \in Words /\ "data" \in Words
        /\ "param" \in Words /\ "size" \in Words /\ "sink" \in Words
    BY DEF Words
  <2>2. \/ n \in {<<"a", "valid">>, <<"a", "ready">>, <<"a", "data">>, <<"a", "param">>,
                  <<"d", "size">>, <<"d", "sink">>}
        \/ n \in {<<"a", "bits", "data">>, <<"a", "bits", "param">>,
                  <<"d", "bits", "size">>, <<"d", "bits", "sink">>}
    BY <1>1, <1>4
  <2>3. /\ <<"a", "valid">> \in Seq(Words) /\ <<"a", "ready">> \in Seq(Words)
        /\ <<"a", "data">> \in Seq(Words) /\ <<"a", "param">> \in Seq(Words)
        /\ <<"d", "size">> \in Seq(Words) /\ <<"d", "sink">> \in Seq(Words)
        /\ <<"a", "bits", "data">> \in Seq(Words) /\ <<"a", "bits", "param">> \in Seq(Words)
        /\ <<"d", "bits", "size">> \in Seq(Words) /\ <<"d", "bits", "sink">> \in Seq(Words)
    BY <2>1, Tuples
  <2>4. n \in Seq(Words)
    BY <2>2, <2>3
  <2>5. Len(n) \in {2, 3}
    BY <2>2
  <2>6. QED
    BY <2>4, <2>5 DEF Names
<1>8. \A s, u \in DOMAIN SlaveSignals :
        SlaveSignals[s].names \intersect SlaveSignals[u].names # {} => s = u
  <2>1. ASSUME NEW s \in DOMAIN SlaveSignals, NEW n \in SlaveSignals[s].names
        PROVE  s = CASE n[2] = "valid" -> "a_valid" [] n[2] = "ready" -> "a_ready"
                     [] n[Len(n)] = "data" -> "a_data" [] n[Len(n)] = "param" -> "a_param"
                     [] n[Len(n)] = "size" -> "d_size" [] n[Len(n)] = "sink" -> "d_sink"
    BY <1>1, <1>4
  <2>2. QED
    BY <2>1
<1>9. QED
  BY <1>2, <1>3, <1>5, <1>8

\* What a name starts with.
LEMMA StartsWithFront ==
  ASSUME NEW p \in Names, NEW n \in Names, Len(n) > 0
  PROVE  StartsWith(p \o n, p)
<1>1. p \in Seq(Words) /\ n \in Seq(Words) /\ Len(p) \in Nat /\ Len(n) \in Nat
  BY DEF Names
<1>2. /\ p \o n \in Seq(Words) /\ Len(p \o n) = Len(p) + Len(n)
      /\ \A i \in 1 .. Len(p) + Len(n) : (p \o n)[i] = IF i <= Len(p) THEN p[i] ELSE n[i - Len(p)]
  BY <1>1, ConcatProperties
<1>3. SubSeq(p \o n, 1, Len(p)) = SubSeq(p, 1, Len(p))
  BY <1>1, SubSeqOfConcat1
<1>4. SubSeq(p, 1, Len(p)) = p
  BY <1>1, SubSeqFull
<1>5. QED
  BY <1>1, <1>2, <1>3, <1>4 DEF StartsWith

LEMMA BusAgain ==
  ASSUME design \in Designs, NEW io \in SUBSET DOMAIN design, NEW p \in Names,
         NEW i, i.name \in Names, i.kind = "tilelink",
         NEW taken, taken = Resolve(design, io, p, i), taken # {}
  PROVE  BusIo(design, taken, p, i) = BusIo(design, io, p, i)
<1> DEFINE S == DOMAIN SlaveSignals
           bp == BusPrefix(design, io, p, i.name)
           sig(s) == SIGNALS(i.dir)[s]
           found(s) == FindOne(design, io, bp, sig(s))
           Carried(set, c) == \E k \in set : StartsWith(Name(design[k]), c)
           Spells(k, s) == (\E n \in sig(s).names : Name(design[k]) = bp \o n) /\ design[k].typ = sig(s).typ
<1>1. BusIo(design, io, p, i) = [s \in S |-> found(s)]
  BY DEF BusIo
<1>2. taken = UNION {found(s) : s \in S}
  BY <1>1 DEF Resolve
<1>3. bp = IF ~Carried(io, i.name) /\ Carried(io, p \o i.name) THEN p \o i.name ELSE i.name
  BY DEF BusPrefix
<1>4. bp \in Names
  BY <1>3, ConcatProperties DEF Names
<1>5. \A s \in S : found(s) = {k \in {l \in io : Spells(l, s)} : \A l \in {m \in io : Spells(m, s)} : k <= l}
  BY DEF FindOne
<1> HIDE DEF bp, found
<1>6. \A s \in S : \A k \in found(s) : k \in io /\ k \in Nat /\ Spells(k, s)
  BY <1>5, DesignNames
<1>7. ASSUME NEW k \in taken PROVE k \in io /\ StartsWith(Name(design[k]), bp)
  <2>1. PICK s \in S : k \in found(s)
    BY <1>2
  <2>2. PICK n \in sig(s).names : Name(design[k]) = bp \o n
    BY <1>6, <2>1
  <2>3. n \in Names /\ Len(n) > 0
    BY Spellings
  <2>4. QED
    BY <1>4, <1>6, <2>1, <2>2, <2>3, StartsWithFront
<1>8. BusPrefix(design, taken, p, i.name) = bp
  <2>1. Carried(taken, bp)
    BY <1>7
  <2>2. \A c : Carried(taken, c) => Carried(io, c)
    BY <1>7
  <2>3. BusPrefix(design, taken, p, i.name) =
          IF ~Carried(taken, i.name) /\ Carried(taken, p \o i.name) THEN p \o i.name ELSE i.name
    BY DEF BusPrefix
  <2>4. QED
    BY <1>3, <2>1, <2>2, <2>3
\* A taken port that spells a signal was found for that one.
<1>9. ASSUME NEW s \in S, NEW k \in taken, Spells(k, s) PROVE k \in found(s)
  <2>1. PICK u \in S : k \in found(u)
    BY <1>2
  <2>2. PICK n \in sig(s).names : Name(design[k]) = bp \o n
    BY <1>9
  <2>3. PICK m \in sig(u).names : Name(design[k]) = bp \o m
    BY <1>6, <2>1
  <2>4. n \in Seq(Words) /\ m \in Seq(Words) /\ bp \in Seq(Words)
    BY <1>4, Spellings DEF Names
  <2>5. n = m
    BY <2>2, <2>3, <2>4, ConcatSimplifications
  <2>6. s = u
    BY <2>5, Spellings
  <2>7. QED
    BY <2>1, <2>6
<1>10. ASSUME NEW s \in S PROVE FindOne(design, taken, bp, sig(s)) = found(s)
  <2>1. {k \in taken : Spells(k, s)} = found(s)
    BY <1>2, <1>6, <1>9
  <2>2. \A k, l \in found(s) : k <= l
    BY <1>5
  <2>3. FindOne(design, taken, bp, sig(s)) =
          {k \in {l \in taken : Spells(l, s)} : \A l \in {m \in taken : Spells(m, s)} : k <= l}
    BY DEF FindOne
  <2>4. QED
    BY <2>1, <2>2, <2>3
<1>11. BusIo(design, taken, p, i) = [s \in S |-> FindOne(design, taken, bp, sig(s))]
  BY <1>8 DEF BusIo
<1>12. BusIo(design, taken, p, i) = [s \in S |-> found(s)]
  BY <1>10, <1>11
<1>13. QED
  BY <1>1, <1>12

----------------------------------------------------------------------------
(* The ports of a bus are those of its signals, as long as they are claimed. *)

Shaped ==
  /\ phase = "loaded" => decl # None
  /\ DOMAIN ifaces \subseteq Int
  /\ \A i \in DOMAIN ifaces : ifaces[i].kind \in Kinds /\ ifaces[i].name \in Names
  /\ prefix \in Names

WholeBuses ==
  \A i \in Of("tilelink") : claim[i] = UNION {Io(i)[s] : s \in DOMAIN SlaveSignals}

LEMMA ShapedInit == Init => Shaped /\ WholeBuses
<1>1. <<>> \in Names
  BY DEF Names
<1>2. QED
  BY <1>1 DEF Init, Shaped, WholeBuses, Of, Nothing

\* What a declaration loads as.
LEMMA DeclaredShape ==
  ASSUME NEW c \in Declarations, LoadsComponent(c),
         NEW is, is = [k \in DOMAIN c.interfaces |-> Interface(c.interfaces[k])]
  PROVE  /\ DOMAIN is \subseteq Nat
         /\ \A i \in DOMAIN is : is[i].kind \in Kinds /\ is[i].name \in Names
         /\ \E i \in DOMAIN is : is[i].kind = "clock"
<1>1. DOMAIN is = DOMAIN c.interfaces /\ DOMAIN is \subseteq Nat
  BY DeclarationAssumption
<1>2. ASSUME NEW i \in DOMAIN is PROVE is[i].kind \in Kinds /\ is[i].name \in Names
  <2> DEFINE d == c.interfaces[i]
  <2>1. LoadsInterface(d) /\ is[i] = Interface(d)
    BY <1>1 DEF LoadsComponent
  <2>2. d.kind \in Kinds
    BY <2>1 DEF LoadsInterface, Keys, Kinds
  <2>3. is[i].kind = d.kind /\ is[i].name = IF "name" \in DOMAIN d THEN d.name ELSE d.prefix
    BY <2>1 DEF Interface
  <2>4. "name" \in DOMAIN d \/ "prefix" \in DOMAIN d
    BY <2>1, <2>2 DEF LoadsInterface, LoadsClock, LoadsReset, LoadsBus, LoadsWire, Kinds
  <2>5. /\ "name" \in DOMAIN d => d["name"] \in Seq(STRING)
        /\ "prefix" \in DOMAIN d => d["prefix"] \in Seq(STRING)
    BY <1>1, DeclarationAssumption
  <2>6. QED
    BY <2>2, <2>3, <2>4, <2>5, StringNames
<1>3. \E i \in DOMAIN is : is[i].kind = "clock"
  <2>1. "clock" \in {c.interfaces[k].kind : k \in DOMAIN c.interfaces}
    BY DEF LoadsComponent
  <2>2. PICK k \in DOMAIN c.interfaces : c.interfaces[k].kind = "clock"
    BY <2>1
  <2>3. QED
    BY <1>1, <2>2 DEF Interface
<1>4. QED
  BY <1>1, <1>2, <1>3

LEMMA ShapedStep == Claims /\ Known /\ Shaped /\ [Next]_vars => Shaped'
<1> SUFFICES ASSUME Claims, Known, Shaped, [Next]_vars PROVE Shaped'
  OBVIOUS
<1>1. CASE Load
  <2>1. decl \in Declarations /\ LoadsComponent(decl) /\ prefix' = prefix
        /\ ifaces' = [k \in DOMAIN decl.interfaces |-> Interface(decl.interfaces[k])]
    BY <1>1 DEF Load, Known
  <2>2. /\ DOMAIN ifaces' \subseteq Nat
        /\ \A i \in DOMAIN ifaces' : ifaces'[i].kind \in Kinds /\ ifaces'[i].name \in Names
    BY <2>1, DeclaredShape
  <2>3. DOMAIN ifaces' \subseteq Int
    BY <2>2
  <2>4. QED
    BY <1>1, <2>1, <2>2, <2>3 DEF Load, Shaped
<1>2. CASE Infer
  <2>1. /\ ifaces' = InferInterfaces(design, Inferred)
        /\ prefix' = Prefix(design, Inferred, <<>>)
    BY <1>2 DEF Infer, Start
  <2>2. design \in Designs /\ Inferred \subseteq DOMAIN design
    BY DEF Known, Inferred
  <2>3. <<>> \in Names
    BY DEF Names
  <2>4. prefix' \in Names
    BY <2>1, <2>2, <2>3, PrefixIsName
  <2>5. /\ DOMAIN ifaces' \subseteq Int
        /\ \A i \in DOMAIN ifaces' : ifaces'[i].kind \in Kinds /\ ifaces'[i].name \in Names
    BY <2>1, <2>2, InferShape
  <2>6. QED
    BY <1>2, <2>4, <2>5 DEF Infer, Start, Shaped
<1>3. CASE Extract /\ decl # None
  <2>1. ifaces' = ifaces /\ prefix' = Prefix(design, Extracted, ifaces[FirstClock].name)
        /\ phase = "loaded"
    BY <1>3 DEF Extract, Start
  <2>2. design \in Designs /\ Extracted \subseteq DOMAIN design
    BY DEF Known, Extracted
  <2>3. decl \in Declarations /\ LoadsComponent(decl)
        /\ ifaces = [k \in DOMAIN decl.interfaces |-> Interface(decl.interfaces[k])]
    BY <1>3, <2>1 DEF Known
  <2>4. /\ DOMAIN ifaces \subseteq Nat
        /\ \E i \in DOMAIN ifaces : ifaces[i].kind = "clock"
    BY <2>3, DeclaredShape
  <2>5. FirstClock \in {k \in DOMAIN ifaces : ifaces[k].kind = "clock"}
    BY <2>4, LeastIn DEF FirstClock
  <2>6. ifaces[FirstClock].name \in Names
    BY <2>5 DEF Shaped
  <2>7. prefix' \in Names
    BY <2>1, <2>2, <2>6, PrefixIsName
  <2>8. QED
    BY <1>3, <2>1, <2>7 DEF Extract, Start, Shaped
<1>4. CASE Fail \/ ResolveNext \/ Skip \/ Render \/ Compile \/ Overlay \/ UNCHANGED vars
  BY <1>4 DEF Fail, ResolveNext, Skip, Render, Compile, Overlay, vars, matcher, Shaped
<1>5. Extract => decl # None
  BY DEF Extract, Shaped
<1>6. QED
  BY <1>1, <1>2, <1>3, <1>4, <1>5
  DEF Next, LoadFails, ExtractFails, InferFails, ResolveFails, RenderFails, CompileFails, OverlayFails

LEMMA WholeBusesStep == Claims /\ Known /\ Shaped /\ WholeBuses /\ [Next]_vars => WholeBuses'
<1> SUFFICES ASSUME Claims, Known, Shaped, WholeBuses, [Next]_vars PROVE WholeBuses'
  OBVIOUS
<1>1. CASE Load \/ Extract \/ Infer
  <2>1. DOMAIN claim = {} /\ claim' = claim
    BY <1>1 DEF Load, Extract, Infer, Start, Claims, NothingEarly
  <2>2. QED
    BY <2>1 DEF WholeBuses, Of
<1>2. CASE ResolveNext
  <2> PICK i \in pending :
        /\ consume(Taken(i)) /\ Taken(i) # {}
        /\ claim' = [j \in DOMAIN claim \union {i} |-> IF j = i THEN Taken(i) ELSE claim[j]]
    BY <1>2 DEF ResolveNext
  <2>1. UNCHANGED <<design, ifaces, prefix>>
    BY <1>2 DEF ResolveNext
  <2>2. DOMAIN claim' = DOMAIN claim \union {i} /\ claim'[i] = Taken(i)
        /\ \A j \in DOMAIN claim \ {i} : claim'[j] = claim[j]
    OBVIOUS
  <2>3. /\ i \in DOMAIN ifaces /\ i \notin DOMAIN claim
        /\ design \in Designs /\ pool \subseteq DOMAIN design
    BY DEF Claims, TypeOK, Known
  <2> SUFFICES ASSUME NEW j \in Of("tilelink")'
               PROVE  claim'[j] = UNION {Io(j)'[s] : s \in DOMAIN SlaveSignals}
    BY DEF WholeBuses
  <2>4. Io(j)' = BusIo(design, claim'[j], prefix, ifaces[j])
    BY <2>1 DEF Io
  <2>5. CASE j = i
    <3> DEFINE face == ifaces[i]
               taken == Taken(i)
    <3>1. face.name \in Names /\ face.kind = "tilelink" /\ prefix \in Names
      BY <2>1, <2>3, <2>5 DEF Shaped, Of
    <3>2. taken = Resolve(design, pool, prefix, face) /\ taken # {}
      BY DEF Taken
    <3> HIDE DEF face, taken
    <3>3. BusIo(design, taken, prefix, face) = BusIo(design, pool, prefix, face)
      BY <2>3, <3>1, <3>2, BusAgain
    <3>4. taken = UNION {BusIo(design, pool, prefix, face)[s] : s \in DOMAIN SlaveSignals}
      <4>1. DOMAIN BusIo(design, pool, prefix, face) = DOMAIN SlaveSignals
        BY DEF BusIo
      <4>2. QED
        BY <3>1, <3>2, <4>1 DEF Resolve
    <3>5. claim'[j] = taken /\ Io(j)' = BusIo(design, taken, prefix, face)
      BY <2>2, <2>4, <2>5 DEF face, taken
    <3>6. QED
      BY <3>3, <3>4, <3>5
  <2>6. CASE j # i
    <3>1. j \in Of("tilelink") /\ claim'[j] = claim[j]
      BY <2>1, <2>2, <2>6 DEF Of
    <3>2. claim[j] = UNION {Io(j)[s] : s \in DOMAIN SlaveSignals} /\ Io(j)' = Io(j)
      BY <2>4, <3>1 DEF WholeBuses, Io
    <3>3. QED
      BY <3>1, <3>2
  <2>7. QED
    BY <2>5, <2>6
<1>3. CASE Fail \/ Skip \/ Render \/ Compile \/ Overlay \/ UNCHANGED vars
  BY <1>3 DEF Fail, Skip, Render, Compile, Overlay, vars, matcher, WholeBuses, Of, Io
<1>4. QED
  BY <1>1, <1>2, <1>3
  DEF Next, LoadFails, ExtractFails, InferFails, ResolveFails, RenderFails, CompileFails, OverlayFails

\* A port is that of one signal of its bus.
LEMMA SignalsApart ==
  ASSUME Known, Claims, Shaped, NEW i \in Of("tilelink"),
         NEW s \in DOMAIN SlaveSignals, NEW p \in Io(i)[s]
  PROVE  /\ p \in claim[i]
         /\ \A q \in Io(i)[s] : q = p
         /\ \A u \in DOMAIN SlaveSignals : p \in Io(i)[u] => u = s
<1> DEFINE bp == BusPrefix(design, claim[i], prefix, ifaces[i].name)
           sig(u) == SIGNALS(ifaces[i].dir)[u]
<1>1. \A u \in DOMAIN SlaveSignals : Io(i)[u] = FindOne(design, claim[i], bp, sig(u))
  BY DEF Io, BusIo
<1>2. bp \in Names
  <2>1. i \in DOMAIN ifaces
    BY DEF Of, Claims, TypeOK
  <2>2. ifaces[i].name \in Seq(Words) /\ prefix \in Seq(Words)
    BY <2>1 DEF Shaped, Names
  <2>3. prefix \o ifaces[i].name \in Seq(Words)
    BY <2>2, ConcatProperties
  <2>4. QED
    BY <2>2, <2>3 DEF BusPrefix, Names
<1> HIDE DEF bp
<1>3. claim[i] \subseteq Nat
  BY DesignNames DEF Claims, TypeOK, Of, Known
<1>4. ASSUME NEW u \in DOMAIN SlaveSignals, NEW k \in Io(i)[u]
      PROVE  /\ k \in claim[i] /\ \E n \in sig(u).names : Name(design[k]) = bp \o n
             /\ \A l \in Io(i)[u] : k <= l
  BY <1>1 DEF FindOne
<1>5. ASSUME NEW u \in DOMAIN SlaveSignals, p \in Io(i)[u] PROVE u = s
  <2>1. PICK n \in sig(s).names : Name(design[p]) = bp \o n
    BY <1>4
  <2>2. PICK m \in sig(u).names : Name(design[p]) = bp \o m
    BY <1>4, <1>5
  <2>3. n \in Seq(Words) /\ m \in Seq(Words) /\ bp \in Seq(Words)
    BY <1>2, Spellings DEF Names
  <2>4. n = m
    BY <2>1, <2>2, <2>3, ConcatSimplifications
  <2>5. QED
    BY <2>4, Spellings
<1>6. ASSUME NEW q \in Io(i)[s] PROVE q = p
  <2>1. p \in Nat /\ q \in Nat /\ p <= q /\ q <= p
    BY <1>3, <1>4
  <2>2. QED
    BY <2>1
<1>7. QED
  BY <1>4, <1>5, <1>6

----------------------------------------------------------------------------
(* What sim.cpp binds. *)

SignalPorts == PortsOf("clock") \union PortsOf("reset") \union pool
BusPorts == PortsOf("tilelink")

\* A port belongs to one of the lists that sim.cpp goes through.
LEMMA PortLists ==
  ASSUME IInv, Shaped, WholeBuses
  PROVE  /\ ports = SignalPorts \union BusPorts \union WirePorts
         /\ SignalPorts \intersect BusPorts = {} /\ SignalPorts \intersect WirePorts = {}
         /\ BusPorts \intersect WirePorts = {}
         /\ PortsOf("interrupt") \intersect PortsOf("gpio") = {}
<1>1. \A i \in DOMAIN claim : ifaces[i].kind \in Kinds
  BY DEF IInv, Claims, TypeOK, Shaped
<1>2. ClaimsPartition
  BY DEF IInv, Claims
<1>3. \A kind, p : p \in PortsOf(kind) <=> \E i \in DOMAIN claim : ifaces[i].kind = kind /\ p \in claim[i]
  BY DEF PortsOf, Of
<1>4. \A k, l, p : p \in PortsOf(k) /\ p \in PortsOf(l) => k = l
  BY <1>2, <1>3 DEF ClaimsPartition
<1>5. \A k, p : p \in PortsOf(k) => p \notin pool
  BY <1>2, <1>3 DEF ClaimsPartition
<1>6. \A p : p \in ports <=> p \in pool \/ \E i \in DOMAIN claim : p \in claim[i]
  BY <1>2 DEF ClaimsPartition
<1>7. \A p : p \in ports <=> p \in pool \/ \E k \in Kinds : p \in PortsOf(k)
  BY <1>1, <1>3, <1>6
<1>8. ports = SignalPorts \union BusPorts \union WirePorts
  BY <1>7 DEF Kinds, SignalPorts, BusPorts, WirePorts
<1>9. QED
  BY <1>4, <1>5, <1>8 DEF SignalPorts, BusPorts, WirePorts

\* What a binding looks like.
OfSignal(p) == <<p, "signal", p, "">>
OfBus(p, i, s) == <<p, "bus", i, s>>
OfWire(p) == <<p, design[p].typ, WireIndex(p), "">>

LEMMA BindingForms ==
  ASSUME WholeBuses, NEW b \in Bindings
  PROVE  \/ b[1] \in SignalPorts /\ b = OfSignal(b[1])
         \/ /\ b[1] \in BusPorts
            /\ \E i \in Of("tilelink"), s \in DOMAIN SlaveSignals : b[1] \in Io(i)[s] /\ b = OfBus(b[1], i, s)
         \/ b[1] \in WirePorts /\ b = OfWire(b[1])
<1>1. CASE b \in Signals
  <2>1. PICK p \in SignalPorts : b = <<p, "signal", p, "">>
    BY <1>1 DEF Signals, SignalPorts
  <2>2. QED
    BY <2>1 DEF OfSignal
<1>2. CASE b \in BusSignals
  <2>1. PICK i \in Of("tilelink"), s \in DOMAIN SlaveSignals : b \in {<<p, "bus", i, s>> : p \in Io(i)[s]}
    BY <1>2 DEF BusSignals
  <2>2. PICK p \in Io(i)[s] : b = <<p, "bus", i, s>>
    BY <2>1
  <2>3. p \in BusPorts
    BY <2>2 DEF WholeBuses, BusPorts, PortsOf
  <2>4. b[1] = p
    BY <2>2
  <2>5. QED
    BY <2>2, <2>3, <2>4 DEF OfBus
<1>3. CASE b \in Wires
  <2>1. PICK p \in WirePorts : b = <<p, design[p].typ, WireIndex(p), "">>
    BY <1>3 DEF Wires
  <2>2. b[1] = p
    BY <2>1
  <2>3. QED
    BY <2>1, <2>2 DEF OfWire
<1>4. QED
  BY <1>1, <1>2, <1>3 DEF Bindings

LEMMA Bound ==
  /\ \A p \in SignalPorts : OfSignal(p) \in Bindings /\ OfSignal(p)[1] = p
  /\ \A i \in Of("tilelink"), s \in DOMAIN SlaveSignals : \A p \in Io(i)[s] :
       OfBus(p, i, s) \in Bindings /\ OfBus(p, i, s)[1] = p
  /\ \A p \in WirePorts : OfWire(p) \in Bindings /\ OfWire(p)[1] = p
<1>1. ASSUME NEW p \in SignalPorts PROVE OfSignal(p) \in Bindings /\ OfSignal(p)[1] = p
  BY DEF Bindings, Signals, SignalPorts, OfSignal
<1>2. ASSUME NEW i \in Of("tilelink"), NEW s \in DOMAIN SlaveSignals, NEW p \in Io(i)[s]
      PROVE  OfBus(p, i, s) \in Bindings /\ OfBus(p, i, s)[1] = p
  <2>1. <<p, "bus", i, s>> \in {<<q, "bus", i, s>> : q \in Io(i)[s]}
    OBVIOUS
  <2>2. <<p, "bus", i, s>> \in BusSignals
    BY <2>1 DEF BusSignals
  <2>3. QED
    BY <2>2 DEF OfBus, Bindings
<1>3. ASSUME NEW p \in WirePorts PROVE OfWire(p) \in Bindings /\ OfWire(p)[1] = p
  BY DEF Bindings, Wires, OfWire
<1>4. QED
  BY <1>1, <1>2, <1>3

LEMMA BoundOnce ==
  ASSUME IInv, Shaped, WholeBuses, NEW p \in ports
  PROVE  Cardinality({b \in Bindings : b[1] = p}) = 1
<1> SUFFICES \E c \in Bindings : c[1] = p /\ \A b \in Bindings : b[1] = p => b = c
  <2>1. PICK c \in Bindings : c[1] = p /\ \A b \in Bindings : b[1] = p => b = c
    OBVIOUS
  <2>2. {b \in Bindings : b[1] = p} = {c}
    BY <2>1
  <2>3. QED
    BY <2>2, FS_Singleton
<1>1. CASE p \in SignalPorts
  <2>1. ASSUME NEW b \in Bindings, b[1] = p PROVE b = OfSignal(p)
    BY <1>1, <2>1, BindingForms, PortLists
  <2>2. QED
    BY <1>1, <2>1, Bound
<1>2. CASE p \in WirePorts
  <2>1. ASSUME NEW b \in Bindings, b[1] = p PROVE b = OfWire(p)
    BY <1>2, <2>1, BindingForms, PortLists
  <2>2. QED
    BY <1>2, <2>1, Bound
<1>3. CASE p \in BusPorts
  <2>1. PICK i \in Of("tilelink") : p \in claim[i]
    BY <1>3 DEF BusPorts, PortsOf
  <2>2. PICK s \in DOMAIN SlaveSignals : p \in Io(i)[s]
    BY <2>1 DEF WholeBuses
  <2>3. ASSUME NEW b \in Bindings, b[1] = p PROVE b = OfBus(p, i, s)
    <3>1. PICK j \in Of("tilelink"), u \in DOMAIN SlaveSignals : p \in Io(j)[u] /\ b = OfBus(p, j, u)
      BY <1>3, <2>3, BindingForms, PortLists
    <3>2. p \in claim[j]
      BY <3>1 DEF WholeBuses
    <3>3. j = i
      BY <2>1, <3>2 DEF IInv, Claims, ClaimsPartition, Of
    <3>4. u = s
      BY <2>2, <3>1, <3>3, SignalsApart DEF IInv
    <3>5. QED
      BY <3>1, <3>3, <3>4
  <2>4. QED
    BY <2>2, <2>3, Bound
<1>4. QED
  BY <1>1, <1>2, <1>3, PortLists

\* The wires of one kind and type are numbered from 0 on, each by its own number.
LEMMA PortPlaces ==
  ASSUME IInv, Shaped, NEW kind \in Kinds, NEW typ
  PROVE  LET T == Typed(kind, typ) IN
         /\ IsFiniteSet(T)
         /\ \A p \in T : PortIndex(p, T) \in Nat /\ PortIndex(p, T) < Cardinality(T)
         /\ \A p, q \in T : p # q => PortIndex(p, T) # PortIndex(q, T)
<1> DEFINE T == Typed(kind, typ)
           A(p) == {q \in T : Ahead(q, p)}
<1>1. DOMAIN claim \subseteq Int /\ ClaimsPartition /\ design \in Designs
  BY DEF IInv, Claims, TypeOK, Shaped, Known
<1>2. DOMAIN design \subseteq Int /\ IsFiniteSet(DOMAIN design)
  BY <1>1, DesignNames, FS_Interval
<1>3. ASSUME NEW p \in T
      PROVE  p \in DOMAIN design /\ p \in Int /\ Owner(p) \in Int /\ ifaces[Owner(p)].kind = kind
  <2>1. PICK i \in DOMAIN claim : p \in claim[i] /\ ifaces[i].kind = kind
    BY DEF Typed, PortsOf, Of
  <2>2. Owner(p) = i
    BY <1>1, <2>1, OwnerIs
  <2>3. p \in DOMAIN design
    BY <2>1 DEF IInv, Claims, TypeOK
  <2>4. QED
    BY <1>1, <1>2, <2>1, <2>2, <2>3
<1>4. IsFiniteSet(T)
  BY <1>2, <1>3, FS_Subset
<1>5. ASSUME NEW p \in T, NEW q \in T
      PROVE  Ahead(p, q) <=> Owner(p) < Owner(q) \/ (Owner(p) = Owner(q) /\ p < q)
  BY <1>3 DEF Ahead, Before, Order, ORDER, Kinds
<1>6. ASSUME NEW p \in T PROVE p \notin A(p) /\ A(p) \in SUBSET T
  BY <1>3, <1>5
<1>7. ASSUME NEW p \in T PROVE Cardinality(A(p)) \in Nat /\ Cardinality(A(p)) < Cardinality(T)
  BY <1>4, <1>6, Fewer
<1>8. ASSUME NEW p \in T, NEW q \in T, Ahead(p, q) PROVE Cardinality(A(p)) < Cardinality(A(q))
  <2>1. p \in A(q)
    BY <1>8
  <2>2. ASSUME NEW r \in A(p) PROVE r \in A(q)
    BY <1>3, <1>5, <1>8
  <2>3. IsFiniteSet(A(q))
    BY <1>4, <1>6, FS_Subset
  <2>4. A(p) \in SUBSET A(q) /\ p \notin A(p)
    BY <1>6, <2>2
  <2>5. QED
    BY <2>1, <2>3, <2>4, Fewer
<1>9. ASSUME NEW p \in T, NEW q \in T, p # q PROVE Cardinality(A(p)) # Cardinality(A(q))
  <2>1. Ahead(p, q) \/ Ahead(q, p)
    BY <1>3, <1>5, <1>9
  <2>2. Cardinality(A(p)) \in Nat /\ Cardinality(A(q)) \in Nat
    BY <1>7
  <2>3. QED
    BY <1>8, <2>1, <2>2
<1>10. \A p \in T : PortIndex(p, T) = Cardinality(A(p))
  BY DEF PortIndex
<1> HIDE DEF A, T
<1>11. /\ IsFiniteSet(T)
       /\ \A p \in T : PortIndex(p, T) \in Nat /\ PortIndex(p, T) < Cardinality(T)
       /\ \A p, q \in T : p # q => PortIndex(p, T) # PortIndex(q, T)
  BY <1>4, <1>7, <1>9, <1>10
<1>12. QED
  BY <1>11 DEF T

\* Interrupts, then gpio: no two wires of a type have one number.
LEMMA WireNumbers ==
  ASSUME IInv, Shaped, WholeBuses, NEW typ
  PROVE  LET I == Typed("interrupt", typ)
             G == Typed("gpio", typ)
         IN /\ IsFiniteSet(I) /\ IsFiniteSet(G) /\ I \intersect G = {}
            /\ \A p \in I \union G : /\ p \in WirePorts /\ design[p].typ = typ
                                    /\ WireIndex(p) \in Nat
                                    /\ WireIndex(p) < Cardinality(I) + Cardinality(G)
            /\ \A p, q \in I \union G : WireIndex(p) = WireIndex(q) => p = q
            /\ \A p \in WirePorts : design[p].typ = typ => p \in I \union G
<1> DEFINE I == Typed("interrupt", typ)
           G == Typed("gpio", typ)
<1>1. "interrupt" \in Kinds /\ "gpio" \in Kinds
  BY DEF Kinds
<1>2. IsFiniteSet(I) /\ IsFiniteSet(G) /\ Cardinality(I) \in Nat /\ Cardinality(G) \in Nat
  BY <1>1, PortPlaces, FS_CardinalityType
<1>3. /\ \A p \in I : p \in PortsOf("interrupt") /\ design[p].typ = typ
      /\ \A p \in G : p \in PortsOf("gpio") /\ p \notin PortsOf("interrupt") /\ design[p].typ = typ
  BY PortLists DEF Typed
<1>4. /\ \A p \in I : PortIndex(p, I) \in Nat /\ PortIndex(p, I) < Cardinality(I)
      /\ \A p, q \in I : PortIndex(p, I) = PortIndex(q, I) => p = q
      /\ \A p \in G : PortIndex(p, G) \in Nat /\ PortIndex(p, G) < Cardinality(G)
      /\ \A p, q \in G : PortIndex(p, G) = PortIndex(q, G) => p = q
  BY <1>1, PortPlaces
<1>5. /\ \A p \in I : WireIndex(p) = PortIndex(p, I)
      /\ \A p \in G : WireIndex(p) = Cardinality(I) + PortIndex(p, G)
  BY <1>3 DEF WireIndex
<1>6. \A p \in WirePorts : design[p].typ = typ => p \in I \union G
  BY DEF WirePorts, Typed
<1>7. I \intersect G = {} /\ \A p \in I \union G : p \in WirePorts /\ design[p].typ = typ
  BY <1>3 DEF WirePorts
<1> HIDE DEF I, G
<1>8. \A p \in I \union G : WireIndex(p) \in Nat /\ WireIndex(p) < Cardinality(I) + Cardinality(G)
  BY <1>2, <1>4, <1>5
<1>9. ASSUME NEW p \in I \union G, NEW q \in I \union G, WireIndex(p) = WireIndex(q)
      PROVE  p = q
  <2>1. CASE p \in I /\ q \in I
    BY <1>4, <1>5, <1>9, <2>1
  <2>2. CASE p \in G /\ q \in G
    <3>1. PortIndex(p, G) = PortIndex(q, G)
      BY <1>2, <1>4, <1>5, <1>9, <2>2
    <3>2. QED
      BY <1>4, <2>2, <3>1
  <2>3. CASE p \in I /\ q \in G
    BY <1>2, <1>4, <1>5, <1>9, <2>3
  <2>4. CASE p \in G /\ q \in I
    BY <1>2, <1>4, <1>5, <1>9, <2>4
  <2>5. QED
    BY <2>1, <2>2, <2>3, <2>4
<1>10. QED
  BY <1>2, <1>6, <1>7, <1>8, <1>9 DEF I, G

\* The wires of a type are as many as its bindings.
LEMMA WireCount ==
  ASSUME IInv, Shaped, WholeBuses, NEW typ \in {"input", "output"}
  PROVE  Cardinality({c \in Bindings : c[2] = typ})
           = Cardinality(Typed("interrupt", typ)) + Cardinality(Typed("gpio", typ))
<1> DEFINE I == Typed("interrupt", typ)
           G == Typed("gpio", typ)
           W == I \union G
           T == {c \in Bindings : c[2] = typ}
           f == [p \in W |-> OfWire(p)]
<1>1. /\ IsFiniteSet(I) /\ IsFiniteSet(G) /\ I \intersect G = {}
      /\ \A p \in W : p \in WirePorts /\ design[p].typ = typ
      /\ \A p \in WirePorts : design[p].typ = typ => p \in W
  BY WireNumbers
<1>2. IsFiniteSet(W) /\ Cardinality(W) = Cardinality(I) + Cardinality(G)
  <2> HIDE DEF I, G
  <2>1. IsFiniteSet(I \union G) /\ Cardinality(I \union G) = Cardinality(I) + Cardinality(G) - Cardinality(I \intersect G)
    BY <1>1, FS_Union
  <2>2. Cardinality(I \intersect G) = 0
    BY <1>1, FS_EmptySet
  <2>3. Cardinality(I) \in Nat /\ Cardinality(G) \in Nat
    BY <1>1, FS_CardinalityType
  <2>4. QED
    BY <2>1, <2>2, <2>3
<1> HIDE DEF I, G, W
<1>3. ASSUME NEW p \in W PROVE f[p] \in T /\ f[p][1] = p
  <2>1. OfWire(p) \in Bindings /\ OfWire(p)[1] = p
    BY <1>1, Bound
  <2>2. OfWire(p)[2] = design[p].typ
    BY DEF OfWire
  <2>3. QED
    BY <1>1, <2>1, <2>2
<1>4. ASSUME NEW c \in T PROVE \E p \in W : f[p] = c
  <2>1. /\ \A p : OfSignal(p)[2] = "signal" /\ OfWire(p)[2] = design[p].typ
        /\ \A p, i, s : OfBus(p, i, s)[2] = "bus"
    BY DEF OfSignal, OfBus, OfWire
  <2>2. c[1] \in WirePorts /\ c = OfWire(c[1]) /\ design[c[1]].typ = typ
    BY <2>1, BindingForms
  <2>3. QED
    BY <1>1, <2>2
<1>5. f \in [W -> T]
  BY <1>3
<1>6. \A p, q \in W : f[p] = f[q] => p = q
  BY <1>3
<1> HIDE DEF f, T
<1>7. f \in Surjection(W, T) /\ f \in Injection(W, T)
  BY <1>4, <1>5, <1>6, Fun_IsSurj, Fun_IsInj
<1>8. Cardinality(T) = Cardinality(W)
  BY <1>2, <1>7, FS_Surjection
<1>9. QED
  BY <1>2, <1>8 DEF T, I, G

\* What is bound in a binding.
To(b) == Tail(b)

LEMMA TailParts == ASSUME NEW a, NEW b, NEW c, NEW d, NEW t, t = Tail(<<a, b, c, d>>)
                   PROVE  t[1] = b /\ t[2] = c /\ t[3] = d
<1>1. Tail(<<a, b, c, d>>) = <<b, c, d>>
  OBVIOUS
<1>2. t = <<b, c, d>>
  BY <1>1
<1> HIDE <1>1
<1>3. QED
  BY <1>2

LEMMA ToParts ==
  /\ \A p : To(OfSignal(p))[1] = "signal" /\ To(OfSignal(p))[2] = p
  /\ \A p, i, s : /\ To(OfBus(p, i, s))[1] = "bus"
                  /\ To(OfBus(p, i, s))[2] = i /\ To(OfBus(p, i, s))[3] = s
  /\ \A p : To(OfWire(p))[1] = design[p].typ /\ To(OfWire(p))[2] = WireIndex(p)
<1>1. ASSUME NEW p PROVE To(OfSignal(p))[1] = "signal" /\ To(OfSignal(p))[2] = p
  <2> DEFINE none == ""
  <2>1. To(OfSignal(p)) = Tail(<<p, "signal", p, none>>)
    BY DEF To, OfSignal
  <2> HIDE DEF none
  <2>2. QED
    BY <2>1, TailParts
<1>2. ASSUME NEW p, NEW i, NEW s
      PROVE  To(OfBus(p, i, s))[1] = "bus" /\ To(OfBus(p, i, s))[2] = i /\ To(OfBus(p, i, s))[3] = s
  <2>1. To(OfBus(p, i, s)) = Tail(<<p, "bus", i, s>>)
    BY DEF To, OfBus
  <2>2. QED
    BY <2>1, TailParts
<1>3. ASSUME NEW p PROVE To(OfWire(p))[1] = design[p].typ /\ To(OfWire(p))[2] = WireIndex(p)
  <2> DEFINE none == ""
  <2>1. To(OfWire(p)) = Tail(<<p, design[p].typ, WireIndex(p), none>>)
    BY DEF To, OfWire
  <2> HIDE DEF none
  <2>2. QED
    BY <2>1, TailParts
<1>4. QED
  BY <1>1, <1>2, <1>3

\* Nothing is bound twice.
LEMMA BoundApart ==
  ASSUME IInv, Shaped, WholeBuses,
         NEW b \in Bindings, NEW c \in Bindings, To(b) = To(c)
  PROVE  b = c
<1>4. \A p \in WirePorts : design[p].typ \in {"input", "output"}
  <2>1. \A p \in ports : IsPort(design[p])
    BY DEF IInv, Claims, TypeOK
  <2>2. QED
    BY <2>1, PortLists DEF IsPort
<1>5. CASE b[1] \in SignalPorts /\ b = OfSignal(b[1])
  <2>1. To(b)[1] = "signal" /\ To(b)[2] = b[1]
    BY ToParts, <1>5
  <2>2. c = OfSignal(c[1])
    BY ToParts, <1>4, <2>1, BindingForms
  <2>3. To(c)[2] = c[1]
    BY ToParts, <2>2
  <2>4. QED
    BY <1>5, <2>1, <2>2, <2>3
<1>6. CASE b[1] \in WirePorts /\ b = OfWire(b[1])
  <2>1. To(b)[1] = design[b[1]].typ /\ To(b)[2] = WireIndex(b[1])
    BY ToParts, <1>6
  <2>2. c[1] \in WirePorts /\ c = OfWire(c[1])
    BY ToParts, <1>4, <1>6, <2>1, BindingForms
  <2>3. To(c)[1] = design[c[1]].typ /\ To(c)[2] = WireIndex(c[1])
    BY ToParts, <2>2
  <2>4. b[1] = c[1]
    BY <1>6, <2>1, <2>2, <2>3, WireNumbers
  <2>5. QED
    BY <1>6, <2>2, <2>4
<1>7. ASSUME NEW i \in Of("tilelink"), NEW s \in DOMAIN SlaveSignals, b[1] \in Io(i)[s], b = OfBus(b[1], i, s)
      PROVE  b = c
  <2>1. To(b)[1] = "bus" /\ To(b)[2] = i /\ To(b)[3] = s
    BY ToParts, <1>7
  <2>2. PICK j \in Of("tilelink"), u \in DOMAIN SlaveSignals : c[1] \in Io(j)[u] /\ c = OfBus(c[1], j, u)
    BY ToParts, <1>4, <2>1, BindingForms
  <2>3. j = i /\ u = s
    BY ToParts, <2>1, <2>2
  <2>4. c[1] = b[1]
    BY <1>7, <2>2, <2>3, SignalsApart DEF IInv
  <2>5. QED
    BY <1>7, <2>2, <2>3, <2>4
<1>8. QED
  BY <1>5, <1>6, <1>7, BindingForms

LEMMA Elaborates ==
  ASSUME IInv, Shaped, WholeBuses
  PROVE  TopIsComplete
<1> SUFFICES ASSUME phase \in {"compiled", "coupled"}
             PROVE  /\ \A p \in ports : Cardinality({b \in sim.bind : b[1] = p}) = 1
                    /\ \A b, c \in sim.bind : Tail(b) = Tail(c) => b = c
                    /\ \A b \in sim.bind : b[2] \in {"input", "output"} =>
                         design[b[1]].typ = b[2] /\ b[3] < Cardinality({c \in sim.bind : c[2] = b[2]})
  BY DEF TopIsComplete
<1>1. sim.bind = Bindings
  BY DEF IInv, Written, Done
<1>2. ASSUME NEW b \in Bindings, b[2] \in {"input", "output"}
      PROVE  design[b[1]].typ = b[2] /\ b[3] < Cardinality({c \in Bindings : c[2] = b[2]})
  <2>1. /\ \A p : OfSignal(p)[2] = "signal"
        /\ \A p : OfWire(p)[2] = design[p].typ /\ OfWire(p)[3] = WireIndex(p)
        /\ \A p, i, s : OfBus(p, i, s)[2] = "bus"
    BY DEF OfSignal, OfBus, OfWire
  <2>2. b[1] \in WirePorts /\ b = OfWire(b[1])
    BY <1>2, <2>1, BindingForms
  <2>3. design[b[1]].typ = b[2] /\ b[3] = WireIndex(b[1])
    BY <2>1, <2>2
  <2>4. b[3] < Cardinality(Typed("interrupt", b[2])) + Cardinality(Typed("gpio", b[2]))
    BY <2>2, <2>3, WireNumbers
  <2>5. QED
    BY <1>2, <2>3, <2>4, WireCount
<1>3. QED
  BY <1>1, <1>2, BoundOnce, BoundApart DEF To

\* Whatever is declared, in whatever order, for whatever design: the Top that
\* sim.cpp describes binds every port of the model once and nothing twice, and
\* numbers the wires of either direction without a gap at the end.
THEOREM TopElaborates == Spec => []TopIsComplete
<1>1. Init => IInv /\ Shaped /\ WholeBuses
  BY IInvInit, ShapedInit
<1>2. IInv /\ Shaped /\ WholeBuses /\ [Next]_vars => (IInv /\ Shaped /\ WholeBuses)'
  BY IInvStep, ShapedStep, WholeBusesStep DEF IInv
<1>3. IInv /\ Shaped /\ WholeBuses => TopIsComplete
  BY Elaborates
<1>4. QED
  BY <1>1, <1>2, <1>3, PTL DEF Spec

----------------------------------------------------------------------------
(* Names that begin alike. *)

Begins(n, x) == n = x \/ StartsWith(n, x)

LEMMA Fronts ==
  ASSUME NEW n \in Names, NEW x \in Names
  PROVE  /\ Len(n) \in Nat /\ Len(x) \in Nat
         /\ StartsWith(n, x) <=> Len(x) < Len(n) /\ \A i \in 1 .. Len(x) : n[i] = x[i]
         /\ Begins(n, x) <=> Len(x) <= Len(n) /\ \A i \in 1 .. Len(x) : n[i] = x[i]
<1>1. n \in Seq(Words) /\ x \in Seq(Words) /\ Len(n) \in Nat /\ Len(x) \in Nat
  BY DEF Names
<1>2. ASSUME Len(x) <= Len(n)
      PROVE  SubSeq(n, 1, Len(x)) = x <=> \A i \in 1 .. Len(x) : n[i] = x[i]
  <2> DEFINE f == SubSeq(n, 1, Len(x))
  <2>1. \A i \in 1 .. Len(x) : n[i] \in Words
    BY <1>1, <1>2, ElementOfSeq
  <2>2. /\ f \in Seq(Words) /\ Len(f) = (IF 1 <= Len(x) THEN Len(x) - 1 + 1 ELSE 0)
        /\ \A i \in 1 .. Len(x) - 1 + 1 : f[i] = n[1 + i - 1]
    BY <1>1, <2>1, SubSeqProperties
  <2> HIDE DEF f
  <2>3. Len(f) = Len(x) /\ \A i \in 1 .. Len(x) : f[i] = n[i]
    BY <1>1, <2>2
  <2>4. f = x <=> \A i \in 1 .. Len(x) : n[i] = x[i]
    BY <1>1, <2>2, <2>3, SeqEqual
  <2>5. QED
    BY <2>4 DEF f
<1>3. StartsWith(n, x) <=> Len(x) < Len(n) /\ \A i \in 1 .. Len(x) : n[i] = x[i]
  BY <1>1, <1>2 DEF StartsWith
<1>4. n = x <=> Len(n) = Len(x) /\ \A i \in 1 .. Len(x) : n[i] = x[i]
  BY <1>1, SeqEqual
<1>5. QED
  BY <1>1, <1>3, <1>4 DEF Begins

LEMMA Joined ==
  ASSUME NEW u \in Names, NEW b \in Names
  PROVE  /\ u \o b \in Names
         /\ Len(u) \in Nat /\ Len(b) \in Nat /\ Len(u \o b) = Len(u) + Len(b)
         /\ \A i \in 1 .. Len(u) + Len(b) : (u \o b)[i] = IF i <= Len(u) THEN u[i] ELSE b[i - Len(u)]
<1>1. u \in Seq(Words) /\ b \in Seq(Words)
  BY DEF Names
<1>2. QED
  BY <1>1, ConcatProperties DEF Names

\* The same words in front change nothing.
LEMMA SameFront ==
  ASSUME NEW u \in Names, NEW b \in Names, NEW x \in Names
  PROVE  /\ u \o b = u \o x <=> b = x
         /\ StartsWith(u \o b, u \o x) <=> StartsWith(b, x)
<1>1. u \in Seq(Words) /\ b \in Seq(Words) /\ x \in Seq(Words)
  BY DEF Names
<1>2. u \o b = u \o x <=> b = x
  BY <1>1, ConcatSimplifications
<1> DEFINE n == u \o b
           m == u \o x
<1>3. /\ n \in Names /\ Len(n) = Len(u) + Len(b) /\ m \in Names /\ Len(m) = Len(u) + Len(x)
      /\ \A i \in 1 .. Len(u) + Len(b) : n[i] = IF i <= Len(u) THEN u[i] ELSE b[i - Len(u)]
      /\ \A i \in 1 .. Len(u) + Len(x) : m[i] = IF i <= Len(u) THEN u[i] ELSE x[i - Len(u)]
      /\ Len(u) \in Nat /\ Len(b) \in Nat /\ Len(x) \in Nat
  BY Joined
<1> HIDE DEF n, m
<1>4. ASSUME Len(x) < Len(b)
      PROVE  (\A i \in 1 .. Len(m) : n[i] = m[i]) <=> (\A i \in 1 .. Len(x) : b[i] = x[i])
  <2>1. ASSUME \A i \in 1 .. Len(m) : n[i] = m[i], NEW i \in 1 .. Len(x) PROVE b[i] = x[i]
    <3>1. i + Len(u) \in 1 .. Len(m) /\ i + Len(u) \in 1 .. Len(u) + Len(b)
          /\ ~(i + Len(u) <= Len(u)) /\ i + Len(u) - Len(u) = i
      BY <1>3, <1>4
    <3>2. n[i + Len(u)] = b[i] /\ m[i + Len(u)] = x[i]
      BY <1>3, <3>1
    <3>3. QED
      BY <2>1, <3>1, <3>2
  <2>2. ASSUME \A i \in 1 .. Len(x) : b[i] = x[i], NEW i \in 1 .. Len(m) PROVE n[i] = m[i]
    <3>1. i \in 1 .. Len(u) + Len(b) /\ i \in 1 .. Len(u) + Len(x)
      BY <1>3, <1>4
    <3>2. CASE i <= Len(u)
      BY <1>3, <3>1, <3>2
    <3>3. CASE ~(i <= Len(u))
      <4>1. i - Len(u) \in 1 .. Len(x)
        BY <1>3, <3>1, <3>3
      <4>2. n[i] = b[i - Len(u)] /\ m[i] = x[i - Len(u)]
        BY <1>3, <3>1, <3>3
      <4>3. QED
        BY <2>2, <4>1, <4>2
    <3>4. QED
      BY <3>2, <3>3
  <2>3. QED
    BY <2>1, <2>2
<1>5. StartsWith(n, m) <=> StartsWith(b, x)
  <2>1. StartsWith(n, m) <=> Len(m) < Len(n) /\ \A i \in 1 .. Len(m) : n[i] = m[i]
    BY <1>3, Fronts
  <2>2. StartsWith(b, x) <=> Len(x) < Len(b) /\ \A i \in 1 .. Len(x) : b[i] = x[i]
    BY Fronts
  <2>3. Len(m) < Len(n) <=> Len(x) < Len(b)
    BY <1>3
  <2>4. QED
    BY <1>4, <2>1, <2>2, <2>3
<1>6. QED
  BY <1>2, <1>5 DEF n, m

\* Of two beginnings of a name, the shorter one begins the longer one.
LEMMA Shorter ==
  ASSUME NEW b \in Names, NEW x \in Names, NEW y \in Names, NEW q \in Names,
         Begins(b, x), Begins(b, y), Len(x) <= Len(y), Begins(q, y)
  PROVE  Begins(q, x)
<1>1. /\ Len(b) \in Nat /\ Len(x) \in Nat /\ Len(y) \in Nat /\ Len(q) \in Nat
      /\ Len(y) <= Len(q) /\ \A i \in 1 .. Len(y) : q[i] = y[i]
      /\ \A i \in 1 .. Len(x) : b[i] = x[i]
      /\ \A i \in 1 .. Len(y) : b[i] = y[i]
  BY Fronts
<1>2. ASSUME NEW i \in 1 .. Len(x) PROVE q[i] = x[i]
  <2>1. i \in 1 .. Len(y)
    BY <1>1
  <2>2. QED
    BY <1>1, <2>1
<1>3. Len(x) <= Len(q)
  BY <1>1
<1>4. QED
  BY <1>2, <1>3, Fronts

\* What is left of a name without its end.
LEMMA WithoutEnd ==
  ASSUME NEW u \in Names, NEW b \in Names
  PROVE  SubSeq(u \o b, 1, Len(u \o b) - Len(b)) = u
<1>1. u \in Seq(Words) /\ b \in Seq(Words) /\ Len(u) \in Nat
  BY DEF Names
<1> DEFINE n == u \o b
<1>2. /\ n \in Names /\ Len(b) \in Nat /\ Len(n) = Len(u) + Len(b)
      /\ \A i \in 1 .. Len(u) + Len(b) : n[i] = IF i <= Len(u) THEN u[i] ELSE b[i - Len(u)]
  BY Joined
<1> HIDE DEF n
<1>3. Len(n) - Len(b) = Len(u)
  BY <1>1, <1>2
<1>4. Begins(n, u)
  BY <1>1, <1>2, Fronts
<1>5. SubSeq(n, 1, Len(u)) = u
  <2>1. CASE n = u
    BY <1>1, <2>1, SubSeqFull
  <2>2. CASE StartsWith(n, u)
    BY <2>2 DEF StartsWith
  <2>3. QED
    BY <1>4, <2>1, <2>2 DEF Begins
<1>6. QED
  BY <1>3, <1>5 DEF n

----------------------------------------------------------------------------
(* Declarations whose names keep apart. *)

FirstKinds == {"clock", "reset", "tilelink"}

\* p is the signal s of bus i.
Spells(i, s, p) ==
  LET sig == SIGNALS(ifaces[i].dir)[s] IN
  design[p].typ = sig.typ /\ \E n \in sig.names : design[p].bare = ifaces[i].name \o n

\* The component is the instance u: no port of the boundary or of another instance
\* has a name that an interface could mean, with u in front or without.
OneInstance(u) ==
  \A p \in ports, i \in DOMAIN ifaces :
    /\ u # <<>> => ~Begins(Name(design[p]), ifaces[i].name)
    /\ design[p].inst # u => /\ ~Begins(Name(design[p]), u \o ifaces[i].name)
                             /\ ~Begins(design[p].bare, ifaces[i].name)

\* A clock, a reset and a bus share no port, no bus has a signal twice, and a wire
\* means a port that none of them means.
Disjoint ==
  /\ \A i, j \in DOMAIN ifaces : \A p \in ports :
       ifaces[i].kind \in FirstKinds /\ ifaces[j].kind \in FirstKinds /\ Means(i, p) /\ Means(j, p)
       => i = j
  /\ \A i \in DOMAIN ifaces : ifaces[i].kind = "tilelink" =>
       \A s \in DOMAIN SlaveSignals : \A p, q \in ports : Spells(i, s, p) /\ Spells(i, s, q) => p = q
  /\ \A i \in DOMAIN ifaces : \A p \in ports :
       ifaces[i].kind \notin FirstKinds /\ Means(i, p) =>
         \E q \in ports : /\ Means(i, q)
                          /\ \A j \in DOMAIN ifaces : ifaces[j].kind \in FirstKinds => ~Means(j, q)

Plain == Disjoint /\ \E u \in {design[p].inst : p \in ports} : OneInstance(u)

Meant(i, io) == {p \in io : Means(i, p)}

LEMMA PortNames ==
  ASSUME Known, Claims, NEW p \in ports
  PROVE  /\ p \in DOMAIN design /\ p \in Nat
         /\ design[p].inst \in Names /\ design[p].bare \in Names
         /\ Name(design[p]) = design[p].inst \o design[p].bare
         /\ Name(design[p]) \in Names
<1> DEFINE R == [inst : Seq(STRING), bare : Seq(STRING),
                 typ : {"input", "output", "register"}, bits : Nat]
<1>1. \A s \in R : s.inst \in Seq(STRING) /\ s.bare \in Seq(STRING)
  OBVIOUS
<1>2. design \in Designs /\ design \in Seq(R)
  BY DesignAssumption DEF Known
<1> HIDE DEF R
<1>3. p \in 1 .. Len(design) /\ p \in DOMAIN design /\ Len(design) \in Nat
  BY <1>2, DesignNames DEF Claims, TypeOK
<1>4. design[p] \in R
  BY <1>2, <1>3, ElementOfSeq
<1>5. design[p].inst \in Names /\ design[p].bare \in Names
  BY <1>1, <1>4, StringNames
<1>6. design[p].inst \o design[p].bare \in Names
  BY <1>5, Joined
<1>7. QED
  BY <1>3, <1>5, <1>6 DEF Name

\* A port of the component has its declared name behind the prefix, and no other
\* port has it anywhere.
LEMMA Reached ==
  ASSUME Known, Claims, Shaped, NEW u \in Names, OneInstance(u),
         NEW i \in DOMAIN ifaces, NEW p \in ports
  PROVE  LET x == ifaces[i].name
             n == Name(design[p])
             b == design[p].bare
         IN /\ n = u \o x <=> b = x
            /\ StartsWith(n, u \o x) <=> StartsWith(b, x)
            /\ Begins(b, x) => n = u \o b
            /\ Begins(n, u \o x) => n = u \o b
            /\ u = <<>> => u \o x = x
            /\ u # <<>> => ~Begins(n, x)
            /\ b \in Names /\ x \in Names
<1> DEFINE x == ifaces[i].name
           n == Name(design[p])
           b == design[p].bare
<1>1. /\ n = design[p].inst \o b /\ b \in Names /\ x \in Names /\ design[p].inst \in Names
      /\ u # <<>> => ~Begins(n, x)
      /\ design[p].inst # u => ~Begins(n, u \o x) /\ ~Begins(b, x)
  BY PortNames DEF Shaped, OneInstance
<1>2. u = <<>> => u \o x = x
  BY <1>1, ConcatEmptySeq DEF Names
<1> HIDE DEF x, n, b
<1>3. CASE design[p].inst # u
  <2>1. ~(n = u \o x) /\ ~(b = x) /\ ~StartsWith(n, u \o x) /\ ~StartsWith(b, x)
    BY <1>1, <1>3 DEF Begins
  <2>2. QED
    BY <1>1, <1>2, <1>3, <2>1 DEF x, n, b
<1>4. CASE design[p].inst = u
  <2>1. n = u \o b
    BY <1>1, <1>4
  <2>2. /\ u \o b = u \o x <=> b = x
        /\ StartsWith(u \o b, u \o x) <=> StartsWith(b, x)
    BY <1>1, SameFront
  <2>3. QED
    BY <1>1, <1>2, <2>1, <2>2 DEF x, n, b
<1>5. QED
  BY <1>3, <1>4

\* A clock, a reset or a wire gets what it means.
LEMMA MatchMeant ==
  ASSUME Known, Claims, Shaped, OneInstance(prefix), NEW i \in DOMAIN ifaces,
         ifaces[i].kind # "tilelink", NEW io \in SUBSET ports
  PROVE  Resolve(design, io, prefix, ifaces[i]) = Meant(i, io)
<1> DEFINE x == ifaces[i].name
           Hits(cand) == {k \in io : \/ Name(design[k]) = cand
                                     \/ ~ifaces[i].exact /\ StartsWith(Name(design[k]), cand)}
<1>1. prefix \in Names
  BY DEF Shaped
<1>2. ASSUME NEW p \in io
      PROVE  /\ Means(i, p) <=> design[p].bare = x \/ (~ifaces[i].exact /\ StartsWith(design[p].bare, x))
             /\ Name(design[p]) = prefix \o x <=> design[p].bare = x
             /\ StartsWith(Name(design[p]), prefix \o x) <=> StartsWith(design[p].bare, x)
             /\ prefix # <<>> => ~(Name(design[p]) = x) /\ ~StartsWith(Name(design[p]), x)
  BY <1>1, Reached DEF Means, Begins
<1>3. Hits(prefix \o x) = Meant(i, io)
  BY <1>2 DEF Meant
<1>4. prefix # <<>> => Hits(x) = {}
  BY <1>2
<1>5. prefix = <<>> => prefix \o x = x
  BY ConcatEmptySeq DEF Shaped, Names
<1>6. Resolve(design, io, prefix, ifaces[i]) = IF Hits(x) # {} THEN Hits(x) ELSE Hits(prefix \o x)
  BY DEF Resolve, Match
<1>7. QED
  BY <1>3, <1>4, <1>5, <1>6

\* A bus gets the ports that spell its signals.
LEMMA BusSpelled ==
  ASSUME Known, Claims, Shaped, OneInstance(prefix), Disjoint, NEW i \in DOMAIN ifaces,
         ifaces[i].kind = "tilelink", NEW io \in SUBSET ports
  PROVE  BusIo(design, io, prefix, ifaces[i]) = [s \in DOMAIN SlaveSignals |-> {p \in io : Spells(i, s, p)}]
<1> DEFINE x == ifaces[i].name
           sig(s) == SIGNALS(ifaces[i].dir)[s]
           bp == BusPrefix(design, io, prefix, x)
           Carried(cand) == \E k \in io : StartsWith(Name(design[k]), cand)
           hits(s) == {k \in io : /\ \E n \in sig(s).names : Name(design[k]) = bp \o n
                                  /\ design[k].typ = sig(s).typ}
<1>1. prefix \in Names /\ x \in Names /\ prefix \in Seq(Words) /\ x \in Seq(Words)
  BY DEF Shaped, Names
<1>2. bp = IF ~Carried(x) /\ Carried(prefix \o x) THEN prefix \o x ELSE x
  BY DEF BusPrefix
<1>3. ASSUME NEW p \in io
      PROVE  LET n == Name(design[p])
                 b == design[p].bare
             IN /\ Begins(b, x) => n = prefix \o b
                /\ Begins(n, prefix \o x) => n = prefix \o b
                /\ prefix # <<>> => ~Begins(n, x)
                /\ b \in Names
  BY <1>1, Reached
<1>4. prefix = <<>> => prefix \o x = x
  BY <1>1, ConcatEmptySeq
<1>5. ASSUME NEW s \in DOMAIN SlaveSignals, NEW n \in sig(s).names
      PROVE  /\ n \in Names /\ n \in Seq(Words) /\ x \o n \in Names /\ x \o n \in Seq(Words)
             /\ (prefix \o x) \o n = prefix \o (x \o n)
             /\ StartsWith(x \o n, x)
             /\ StartsWith((prefix \o x) \o n, prefix \o x)
  <2>1. n \in Names /\ Len(n) > 0 /\ n \in Seq(Words)
    BY Spellings DEF Names
  <2>2. prefix \o x \in Names /\ x \o n \in Names
    BY <1>1, <2>1, Joined
  <2>3. (prefix \o x) \o n = prefix \o (x \o n)
    <3> DEFINE m == n
    <3>1. m \in Seq(Words)
      BY <2>1
    <3> HIDE DEF x, m
    <3>2. (prefix \o x) \o m = prefix \o (x \o m)
      BY <1>1, <3>1, ConcatAssociative
    <3>3. QED
      BY <3>2 DEF m
  <2>4. StartsWith(x \o n, x) /\ StartsWith((prefix \o x) \o n, prefix \o x)
    BY <1>1, <2>1, <2>2, StartsWithFront
  <2>5. QED
    BY <2>1, <2>2, <2>3, <2>4 DEF Names
<1> HIDE DEF bp
\* With the declared name and the prefix in front of it, and only so.
<1>6. ASSUME NEW s \in DOMAIN SlaveSignals, NEW n \in sig(s).names, NEW p \in io
      PROVE  design[p].bare = x \o n <=> Name(design[p]) = prefix \o (x \o n)
  <2>1. CASE design[p].bare = x \o n
    BY <1>3, <1>5, <2>1 DEF Begins
  <2>2. CASE Name(design[p]) = prefix \o (x \o n)
    <3>1. Begins(Name(design[p]), prefix \o x)
      BY <1>5, <2>2 DEF Begins
    <3>2. prefix \o design[p].bare = prefix \o (x \o n)
      BY <1>3, <2>2, <3>1
    <3>3. design[p].bare \in Names /\ x \o n \in Names /\ prefix \in Names
      BY <1>1, <1>3, <1>5
    <3>4. design[p].bare = x \o n
      BY <3>2, <3>3, SameFront
    <3>5. QED
      BY <2>2, <3>4
  <2>3. QED
    BY <2>1, <2>2
<1>7. ASSUME NEW s \in DOMAIN SlaveSignals PROVE hits(s) = {p \in io : Spells(i, s, p)}
  <2>1. CASE bp = prefix \o x
    <3>1. \A n \in sig(s).names : bp \o n = prefix \o (x \o n)
      BY <1>5, <2>1
    <3>2. \A p \in io : (\E n \in sig(s).names : Name(design[p]) = bp \o n)
                          <=> \E n \in sig(s).names : design[p].bare = x \o n
      BY <1>6, <3>1
    <3>3. QED
      BY <3>2 DEF Spells
  <2>2. CASE bp # prefix \o x
    <3>1. bp = x /\ prefix # <<>>
      BY <1>2, <1>4, <2>2
    <3>2. \A p \in io : ~StartsWith(Name(design[p]), x)
      BY <1>3, <3>1 DEF Begins
    <3>3. \A p \in io : ~StartsWith(Name(design[p]), prefix \o x)
      BY <1>2, <2>2, <3>2
    <3>4. ASSUME NEW n \in sig(s).names, NEW p \in io
          PROVE  Name(design[p]) # bp \o n /\ design[p].bare # x \o n
      <4>1. StartsWith(bp \o n, x) /\ StartsWith(prefix \o (x \o n), prefix \o x)
        BY <1>5, <3>1
      <4>2. Name(design[p]) # bp \o n /\ Name(design[p]) # prefix \o (x \o n)
        BY <3>2, <3>3, <4>1
      <4>3. QED
        BY <1>6, <4>2
    <3>5. QED
      BY <3>4 DEF Spells
  <2>3. QED
    BY <2>1, <2>2
<1>8. ASSUME NEW s \in DOMAIN SlaveSignals
      PROVE  FindOne(design, io, bp, sig(s)) = {p \in io : Spells(i, s, p)}
  <2>1. FindOne(design, io, bp, sig(s)) = {k \in hits(s) : \A l \in hits(s) : k <= l}
    BY DEF FindOne
  <2>2. \A k, l \in hits(s) : k = l
    BY <1>7 DEF Disjoint
  <2>3. \A k \in hits(s) : k \in Nat
    BY PortNames
  <2> HIDE DEF hits
  <2>4. \A k, l \in hits(s) : k <= l
    BY <2>2, <2>3
  <2>5. QED
    BY <1>7, <2>1, <2>4
<1>9. BusIo(design, io, prefix, ifaces[i]) = [s \in DOMAIN SlaveSignals |-> FindOne(design, io, bp, sig(s))]
  BY DEF BusIo, bp
<1>10. QED
  BY <1>8, <1>9

\* What an interface gets is what it means, of the ports that are left, and all or
\* nothing; if all it means is left, it gets what it would have got first.
LEMMA ResolveMeant ==
  ASSUME Known, Claims, Shaped, OneInstance(prefix), Disjoint, NEW i \in DOMAIN ifaces,
         NEW io \in SUBSET ports
  PROVE  /\ Resolve(design, io, prefix, ifaces[i]) \in {{}, Meant(i, io)}
         /\ ifaces[i].kind # "tilelink" => Resolve(design, io, prefix, ifaces[i]) = Meant(i, io)
         /\ Meant(i, ports) \subseteq io =>
              Resolve(design, io, prefix, ifaces[i]) = Resolve(design, ports, prefix, ifaces[i])
<1> DEFINE found(set) == BusIo(design, set, prefix, ifaces[i])
<1>1. CASE ifaces[i].kind # "tilelink"
  BY <1>1, MatchMeant DEF Meant
<1>2. CASE ifaces[i].kind = "tilelink"
  <2>1. ASSUME NEW set \in SUBSET ports
        PROVE  found(set) = [s \in DOMAIN SlaveSignals |-> {p \in set : Spells(i, s, p)}]
    BY <1>2, BusSpelled
  <2> HIDE DEF found
  <2>2. ASSUME NEW set \in SUBSET ports
        PROVE  Resolve(design, set, prefix, ifaces[i]) =
                 IF \E s \in DOMAIN found(set) : found(set)[s] = {} /\ ~SIGNALS(ifaces[i].dir)[s].optional
                 THEN {} ELSE UNION {found(set)[s] : s \in DOMAIN found(set)}
    BY <1>2 DEF Resolve, found
  <2>3. \A p : Means(i, p) <=> \E s \in DOMAIN SlaveSignals : Spells(i, s, p)
    BY <1>2 DEF Means, Spells
  <2>4. UNION {found(io)[s] : s \in DOMAIN found(io)} = Meant(i, io)
    <3>1. DOMAIN found(io) = DOMAIN SlaveSignals
          /\ \A s \in DOMAIN SlaveSignals : found(io)[s] = {p \in io : Spells(i, s, p)}
      BY <2>1
    <3>2. QED
      BY <2>3, <3>1 DEF Meant
  <2>5. ASSUME Meant(i, ports) \subseteq io PROVE found(io) = found(ports)
    <3>1. ASSUME NEW s \in DOMAIN SlaveSignals
          PROVE  {p \in io : Spells(i, s, p)} = {p \in ports : Spells(i, s, p)}
      BY <2>3, <2>5 DEF Meant
    <3>2. QED
      BY <2>1, <3>1
  <2>6. QED
    BY <1>2, <2>2, <2>4, <2>5
<1>3. QED
  BY <1>1, <1>2

----------------------------------------------------------------------------
(* The clock that ends a port's name, and what the claims have in common.  *)

Anchor == ifaces[FirstClock].name
AnchorHits == {p \in ports : Name(design[p]) = Anchor \/ EndsWith(Name(design[p]), Anchor)}

\* What the resolved interfaces have and have not: the ports they mean and none in the
\* pool, before those that are pending; and of another one that means such a port, either
\* they are closer, or it is a wire that will find nothing.
Fitted ==
  /\ \A j \in DOMAIN claim : /\ \A p \in claim[j] : Means(j, p)
                             /\ \A p \in pool : ~Means(j, p)
  /\ \A j \in DOMAIN claim, i \in pending : Before(j, i)
  /\ \A i \in DOMAIN claim : \A p \in claim[i] : \A j \in DOMAIN ifaces \ {i} :
       Means(j, p) => \/ Closer(i, j)
                      \/ /\ j \in pending /\ ifaces[j].kind \notin FirstKinds
                         /\ \A q \in pool : ~Means(j, q)

Fit ==
  decl # None /\ phase \in {"resolving"} \union Done =>
    /\ prefix = Prefix(design, ports, Anchor)
    /\ AnchorHits = {} => DOMAIN claim = {}
    /\ AnchorHits # {} /\ AnchorIsClock /\ Plain => Fitted

\* Rendering has found a clock for each bus.
Clocked ==
  phase \in Done =>
    /\ sim.clock = [i \in Of("tilelink") |-> Domain("clock", ifaces[i].clock)]
    /\ \A i \in Of("tilelink") : Domain("clock", ifaces[i].clock) # None

\* The interfaces of a declaration, once they are loaded.
LEMMA Declared ==
  ASSUME Known, decl # None, phase \in {"loaded", "resolving"} \union Done
  PROVE  /\ DOMAIN ifaces \subseteq Nat
         /\ \A i \in DOMAIN ifaces : /\ ifaces[i].kind \in Kinds /\ ifaces[i].name \in Names
                                     /\ ifaces[i].exact \in BOOLEAN
                                     /\ ifaces[i].kind \in {"clock", "reset"} => ifaces[i].exact
         /\ FirstClock \in DOMAIN ifaces /\ ifaces[FirstClock].kind = "clock"
         /\ \A i \in DOMAIN ifaces \ {FirstClock} : Before(FirstClock, i)
         /\ \A i \in DOMAIN ifaces : ~Before(i, i)
         /\ \A i, j \in DOMAIN ifaces : Before(i, j) => ~Before(j, i) /\ Order(i) <= Order(j)
<1>1. /\ decl \in Declarations /\ LoadsComponent(decl)
      /\ ifaces = [k \in DOMAIN decl.interfaces |-> Interface(decl.interfaces[k])]
  BY DEF Known
<1>2. /\ DOMAIN ifaces \subseteq Nat
      /\ \A i \in DOMAIN ifaces : ifaces[i].kind \in Kinds /\ ifaces[i].name \in Names
      /\ \E i \in DOMAIN ifaces : ifaces[i].kind = "clock"
  BY <1>1, DeclaredShape
<1>3. ASSUME NEW i \in DOMAIN ifaces
      PROVE  /\ ifaces[i].exact \in BOOLEAN
             /\ ifaces[i].kind \in {"clock", "reset"} => ifaces[i].exact
  <2> DEFINE d == decl.interfaces[i]
  <2>1. LoadsInterface(d) /\ ifaces[i] = Interface(d)
    BY <1>1 DEF LoadsComponent
  <2>2. ifaces[i].kind = d.kind /\ ifaces[i].exact = ("name" \in DOMAIN d)
    BY <2>1 DEF Interface
  <2>3. d.kind \in {"clock", "reset"} => "name" \in DOMAIN d
    BY <2>1 DEF LoadsInterface, LoadsClock, LoadsReset
  <2>4. ifaces[i].exact \in BOOLEAN
    BY <2>2
  <2>5. ASSUME ifaces[i].kind \in {"clock", "reset"} PROVE ifaces[i].exact
    BY <2>2, <2>3, <2>5
  <2>6. QED
    BY <2>4, <2>5
<1> DEFINE S == {k \in DOMAIN ifaces : ifaces[k].kind = "clock"}
<1>4. S \in SUBSET Nat /\ S # {} /\ FirstClock = Least(S)
  BY <1>2 DEF FirstClock
<1>5. FirstClock \in S
  BY <1>4, LeastIn
<1>6. \A k \in S : FirstClock <= k
  BY <1>4, LeastIn
<1>7. \A i \in DOMAIN ifaces : /\ i \in Nat /\ Order(i) \in 0 .. 4
                               /\ Order(i) = 0 <=> ifaces[i].kind = "clock"
  BY <1>2 DEF Order, ORDER, Kinds
<1>8. \A i \in DOMAIN ifaces \ {FirstClock} : Before(FirstClock, i)
  <2> SUFFICES ASSUME NEW i \in DOMAIN ifaces \ {FirstClock} PROVE Before(FirstClock, i)
    OBVIOUS
  <2>1. Order(FirstClock) = 0 /\ FirstClock \in Nat /\ i \in Nat /\ Order(i) \in 0 .. 4
    BY <1>5, <1>7
  <2>2. CASE ifaces[i].kind = "clock"
    <3>1. FirstClock < i /\ Order(i) = 0
      BY <1>6, <1>7, <2>1, <2>2
    <3>2. QED
      BY <2>1, <3>1 DEF Before
  <2>3. CASE ifaces[i].kind # "clock"
    <3>1. 0 < Order(i)
      BY <1>7, <2>1, <2>3
    <3>2. QED
      BY <2>1, <3>1 DEF Before
  <2>4. QED
    BY <2>2, <2>3
<1>9. /\ \A i \in DOMAIN ifaces : ~Before(i, i)
      /\ \A i, j \in DOMAIN ifaces : Before(i, j) => ~Before(j, i) /\ Order(i) <= Order(j)
  BY <1>7 DEF Before
<1>10. QED
  BY <1>2, <1>3, <1>5, <1>8, <1>9

\* The prefix that the clock's port has is the one instance that the names mean.
LEMMA PrefixIsInstance ==
  ASSUME Known, Claims, decl # None, phase \in {"resolving"} \union Done,
         prefix = Prefix(design, ports, Anchor), AnchorHits # {}, AnchorIsClock, Plain
  PROVE  OneInstance(prefix)
<1>1. PICK r \in ports : OneInstance(design[r].inst)
  BY DEF Plain
<1> DEFINE u == design[r].inst
           a == Least(AnchorHits)
<1>2. u \in Names /\ OneInstance(u)
  BY <1>1, PortNames
<1>3. AnchorHits \in SUBSET Nat
  BY PortNames DEF AnchorHits
<1>4. a \in AnchorHits /\ a \in ports
  BY <1>3, LeastIn DEF AnchorHits
<1>5. FirstClock \in DOMAIN ifaces /\ Anchor \in Names
  BY Declared DEF Anchor
<1>6. design[a].bare = Anchor
  BY DEF AnchorIsClock, AnchorHits, Anchor
<1> HIDE DEF u, a
<1>7. /\ design[a].inst # u => ~Begins(design[a].bare, Anchor)
      /\ u # <<>> => ~Begins(Name(design[a]), Anchor)
  BY <1>2, <1>4, <1>5 DEF OneInstance, Anchor
<1>8. design[a].inst = u
  BY <1>6, <1>7 DEF Begins
<1>9. Name(design[a]) = u \o Anchor
  BY <1>4, <1>6, <1>8, PortNames
<1>10. CASE Anchor = <<>>
  <2>1. prefix = <<>>
    BY <1>10 DEF Prefix
  <2>2. \A k \in 1 .. Len(Anchor) : FALSE
    BY <1>10
  <2>3. Name(design[a]) \in Names /\ Len(Anchor) <= Len(Name(design[a]))
    <3>1. Name(design[a]) \in Names
      BY <1>4, PortNames
    <3>2. Len(Name(design[a])) \in Nat /\ Len(Anchor) = 0
      BY <1>10, <3>1 DEF Names
    <3>3. QED
      BY <3>1, <3>2
  <2>4. Begins(Name(design[a]), Anchor)
    BY <1>5, <2>2, <2>3, Fronts
  <2>5. QED
    BY <1>2, <1>7, <2>1, <2>4
<1>11. CASE Anchor # <<>>
  <2>1. prefix = SubSeq(Name(design[a]), 1, Len(Name(design[a])) - Len(Anchor))
    BY <1>11 DEF Prefix, AnchorHits, a
  <2>2. prefix = u
    BY <1>2, <1>5, <1>9, <2>1, WithoutEnd
  <2>3. QED
    BY <1>2, <2>2
<1>12. QED
  BY <1>10, <1>11

\* Without a port for the first clock, it is never resolved.
LEMMA ClockMissing ==
  ASSUME Known, Claims, decl # None, phase \in {"resolving"} \union Done,
         prefix = Prefix(design, ports, Anchor), AnchorHits = {}
  PROVE  Taken(FirstClock) = {}
<1>1. prefix = <<>>
  BY DEF Prefix, AnchorHits
<1>2. /\ FirstClock \in DOMAIN ifaces /\ ifaces[FirstClock].kind = "clock"
      /\ ifaces[FirstClock].exact /\ Anchor \in Names
  BY Declared DEF Anchor
<1>3. prefix \o Anchor = Anchor
  BY <1>1, <1>2, ConcatEmptySeq DEF Names
<1>4. pool \subseteq ports
  BY DEF Claims, TypeOK
<1>5. \A p \in pool : ~(Name(design[p]) = Anchor)
  BY <1>4 DEF AnchorHits
<1>6. Match(design, pool, prefix, ifaces[FirstClock]) = {}
  BY <1>2, <1>3, <1>5 DEF Match, Anchor
<1>7. QED
  BY <1>2, <1>6 DEF Taken, Resolve

----------------------------------------------------------------------------
(* A port that is claimed is claimed by the one that fits it best. *)

\* A wire that is resolved next takes what a longer name means, too.
LEMMA Covers ==
  ASSUME Known, Claims, Shaped, decl # None, phase = "resolving",
         NEW i \in DOMAIN ifaces, NEW j \in DOMAIN ifaces, NEW p \in ports,
         ifaces[i].kind # "tilelink", ifaces[j].kind # "tilelink",
         Means(i, p), Means(j, p), ~Closer(i, j), NEW q \in ports, Means(j, q)
  PROVE  Means(i, q)
<1> DEFINE x == ifaces[i].name
           y == ifaces[j].name
           b == design[p].bare
           c == design[q].bare
<1>1. x \in Names /\ y \in Names /\ b \in Names /\ c \in Names
  BY PortNames DEF Shaped
<1>2. ifaces[i].exact \in BOOLEAN
  BY Declared
<1>3. /\ Means(i, p) <=> b = x \/ (~ifaces[i].exact /\ StartsWith(b, x))
      /\ Means(i, q) <=> c = x \/ (~ifaces[i].exact /\ StartsWith(c, x))
      /\ Means(j, p) => b = y \/ StartsWith(b, y)
      /\ Means(j, q) => c = y \/ StartsWith(c, y)
  BY DEF Means
<1>4. ~(Len(x) > Len(y)) /\ (Len(x) = Len(y) => ~ifaces[i].exact)
  BY DEF Closer
<1> HIDE DEF x, y, b, c
<1>5. Begins(b, x) /\ Begins(b, y) /\ Begins(c, y)
  BY <1>3 DEF Begins
<1>6. Len(x) \in Nat /\ Len(y) \in Nat /\ Len(b) \in Nat /\ Len(x) <= Len(y) /\ Len(y) <= Len(b)
  BY <1>1, <1>4, <1>5, Fronts
<1>7. Begins(c, x)
  BY <1>1, <1>5, <1>6, Shorter
<1>8. ~ifaces[i].exact
  <2>1. CASE Len(x) = Len(y)
    BY <1>4, <2>1
  <2>2. CASE Len(x) # Len(y)
    <3>1. b # x
      BY <1>6, <2>2
    <3>2. QED
      BY <1>3, <3>1
  <2>3. QED
    BY <2>1, <2>2
<1>9. QED
  BY <1>3, <1>7, <1>8 DEF Begins

LEMMA FittedNext ==
  ASSUME Known, Claims, Shaped, AllResolved, decl # None, phase = "resolving",
         OneInstance(prefix), Disjoint, Fitted,
         NEW i \in pending, IsNext(i), Taken(i) # {}, consume(Taken(i)),
         claim' = [j \in DOMAIN claim \union {i} |-> IF j = i THEN Taken(i) ELSE claim[j]],
         pending' = pending \ {i},
         UNCHANGED <<decl, design, phase, ifaces, ports, prefix, sim, dts>>
  PROVE  Fitted'
<1>1. /\ pool \subseteq ports /\ i \in DOMAIN ifaces /\ i \notin DOMAIN claim
      /\ DOMAIN ifaces = DOMAIN claim \union pending
  BY DEF Claims, TypeOK, AllResolved
<1>2. Taken(i) = Meant(i, pool)
  BY <1>1, ResolveMeant DEF Taken
<1>3. \A p \in Taken(i) : p \in pool /\ p \in ports /\ Means(i, p)
  BY <1>1, <1>2 DEF Meant
<1>4. pool' = pool \ Taken(i) /\ \A p \in pool' : p \in pool /\ p \in ports /\ ~Means(i, p)
  BY <1>1, <1>2 DEF Meant, consume
<1>5. /\ DOMAIN claim' = DOMAIN claim \union {i} /\ claim'[i] = Taken(i)
      /\ \A j \in DOMAIN claim : claim'[j] = claim[j]
  BY <1>1
<1>6. /\ \A j, p : Means(j, p)' <=> Means(j, p)
      /\ \A j, k : (Before(j, k)' <=> Before(j, k)) /\ (Closer(j, k)' <=> Closer(j, k))
  BY DEF Means, Before, Order, Closer
\* Nothing in the pool is meant by one that was resolved before.
<1>7. \A j \in DOMAIN claim : \A p \in pool : ~Means(j, p)
  BY DEF Fitted
<1>8. \A j \in DOMAIN claim' : /\ \A p \in claim'[j] : Means(j, p)
                               /\ \A p \in pool' : ~Means(j, p)
  BY <1>3, <1>4, <1>5 DEF Fitted
<1>9. \A j \in DOMAIN claim', k \in pending' : Before(j, k)
  BY <1>5 DEF Fitted, IsNext
<1>10. ASSUME NEW k \in DOMAIN claim, NEW p \in claim[k], NEW j \in DOMAIN ifaces \ {k}, Means(j, p)
       PROVE  \/ Closer(k, j)
              \/ /\ j \in pending' /\ ifaces[j].kind \notin FirstKinds
                 /\ \A q \in pool' : ~Means(j, q)
  <2>1. \/ Closer(k, j)
        \/ /\ j \in pending /\ ifaces[j].kind \notin FirstKinds
           /\ \A q \in pool : ~Means(j, q)
    BY <1>10 DEF Fitted
  <2>2. CASE j \in pending /\ ifaces[j].kind \notin FirstKinds /\ \A q \in pool : ~Means(j, q)
    <3>1. j # i
      BY <1>3, <2>2
    <3>2. QED
      BY <1>4, <2>2, <3>1
  <2>3. QED
    BY <2>1, <2>2
<1>11. ASSUME NEW p \in Taken(i), NEW j \in DOMAIN ifaces \ {i}, Means(j, p), ~Closer(i, j)
       PROVE  /\ j \in pending' /\ ifaces[j].kind \notin FirstKinds
              /\ \A q \in pool' : ~Means(j, q)
  <2>1. j \in pending /\ j \in pending'
    BY <1>1, <1>3, <1>7, <1>11
  <2>2. ifaces[i].kind # "tilelink"
    BY <1>11 DEF Closer
  <2>3. ifaces[i].kind \in FirstKinds => ifaces[j].kind \notin FirstKinds
    BY <1>1, <1>3, <1>11 DEF Disjoint
  <2>4. ifaces[i].kind \notin FirstKinds => ifaces[j].kind \notin FirstKinds
    <3>1. Before(i, j)
      BY <1>11, <2>1 DEF IsNext
    <3>2. Order(i) <= Order(j)
      BY <1>1, <1>11, <3>1, Declared
    <3>3. ifaces[i].kind \in Kinds /\ ifaces[j].kind \in Kinds
      BY <1>1, <1>11 DEF Shaped
    <3>4. QED
      BY <3>2, <3>3 DEF Order, ORDER, Kinds, FirstKinds
  <2>5. ifaces[j].kind \notin FirstKinds
    BY <2>3, <2>4
  <2>6. ASSUME NEW q \in pool', Means(j, q) PROVE FALSE
    <3>1. ifaces[j].kind # "tilelink"
      BY <2>5 DEF FirstKinds
    <3>2. Means(i, q)
      BY <1>1, <1>3, <1>4, <1>11, <2>2, <2>6, <3>1, Covers
    <3>3. QED
      BY <1>4, <3>2
  <2>7. QED
    BY <2>1, <2>5, <2>6
<1>12. \A k \in DOMAIN claim' : \A p \in claim'[k] : \A j \in DOMAIN ifaces \ {k} :
         Means(j, p) => \/ Closer(k, j)
                        \/ /\ j \in pending' /\ ifaces[j].kind \notin FirstKinds
                           /\ \A q \in pool' : ~Means(j, q)
  BY <1>5, <1>10, <1>11
<1>13. /\ (\A j \in DOMAIN claim : (\A p \in claim[j] : Means(j, p)) /\ \A p \in pool : ~Means(j, p))'
       /\ (\A j \in DOMAIN claim, k \in pending : Before(j, k))'
  BY <1>6, <1>8, <1>9
<1>14. (\A k \in DOMAIN claim : \A p \in claim[k] : \A j \in DOMAIN ifaces \ {k} :
          Means(j, p) => \/ Closer(k, j)
                         \/ /\ j \in pending /\ ifaces[j].kind \notin FirstKinds
                            /\ \A q \in pool : ~Means(j, q))'
  <2>1. ifaces' = ifaces /\ \A j, p : Means(j, p)' <=> Means(j, p)
    BY <1>6
  <2>2. \A j, k : Closer(j, k)' <=> Closer(j, k)
    BY <1>6
  <2>3. QED
    BY <1>12, <2>1, <2>2
<1>15. QED
  BY <1>13, <1>14 DEF Fitted

\* What Fit says of what does not change while the ports are claimed.
LEMMA FitStays ==
  ASSUME UNCHANGED <<design, ifaces, ports, prefix>>
  PROVE  /\ Prefix(design, ports, Anchor)' = Prefix(design, ports, Anchor)
         /\ AnchorHits' = AnchorHits /\ (AnchorIsClock' <=> AnchorIsClock) /\ (Plain' <=> Plain)
<1>1. Anchor' = Anchor
  BY DEF Anchor, FirstClock
<1>2. AnchorHits' = AnchorHits
  BY <1>1 DEF AnchorHits
<1>3. AnchorIsClock' <=> AnchorIsClock
  BY DEF AnchorIsClock, FirstClock
<1>4. /\ \A i, p : Means(i, p)' <=> Means(i, p)
      /\ \A i, s, p : Spells(i, s, p)' <=> Spells(i, s, p)
  <2>1. \A i, p : Means(i, p)' <=> Means(i, p)
    BY DEF Means
  <2>2. ASSUME NEW i, NEW s, NEW p PROVE Spells(i, s, p)' <=> Spells(i, s, p)
    BY DEF Spells
  <2>3. QED
    BY <2>1, <2>2
<1>5. Disjoint' <=> Disjoint
  BY <1>4 DEF Disjoint
<1>6. \A u : OneInstance(u)' <=> OneInstance(u)
  BY DEF OneInstance
<1>7. QED
  BY <1>1, <1>2, <1>3, <1>5, <1>6 DEF Plain

LEMMA FitStep == Known /\ Claims /\ Shaped /\ AllResolved /\ Fit /\ [Next]_vars => Fit'
<1> SUFFICES ASSUME Known, Claims, Shaped, AllResolved, Fit, [Next]_vars PROVE Fit'
  OBVIOUS
<1>1. CASE Extract
  <2>1. /\ DOMAIN claim' = {} /\ ifaces' = ifaces /\ design' = design
        /\ prefix' = Prefix(design, ports', ifaces[FirstClock].name)
    BY <1>1 DEF Extract, Start, Claims, NothingEarly
  <2>2. FirstClock' = FirstClock
    BY <2>1 DEF FirstClock
  <2>3. Fitted'
    BY <2>1 DEF Fitted
  <2>4. QED
    BY <2>1, <2>2, <2>3 DEF Fit, Anchor
<1>2. CASE Infer
  BY <1>2 DEF Infer, Start, Fit
<1>3. CASE Load \/ Fail
  BY <1>3 DEF Load, Fail, Fit, Done
<1>4. CASE ResolveNext /\ decl # None
  <2> PICK i \in pending :
        /\ IsNext(i) /\ consume(Taken(i)) /\ Taken(i) # {}
        /\ claim' = [j \in DOMAIN claim \union {i} |-> IF j = i THEN Taken(i) ELSE claim[j]]
        /\ pending' = pending \ {i}
    BY <1>4 DEF ResolveNext
  <2>1. phase = "resolving" /\ UNCHANGED <<decl, design, phase, ifaces, ports, prefix, sim, dts>>
    BY <1>4 DEF ResolveNext
  <2>2. prefix = Prefix(design, ports, Anchor) /\ (AnchorHits = {} => DOMAIN claim = {})
        /\ (AnchorHits # {} /\ AnchorIsClock /\ Plain => Fitted)
    BY <1>4, <2>1 DEF Fit
  <2>3. AnchorHits # {}
    <3> SUFFICES ASSUME AnchorHits = {} PROVE FALSE
      OBVIOUS
    <3>1. Taken(FirstClock) = {} /\ FirstClock \in DOMAIN ifaces
      BY <1>4, <2>1, <2>2, ClockMissing, Declared
    <3>2. FirstClock \in pending /\ FirstClock # i /\ i \in DOMAIN ifaces
      BY <1>4, <2>1, <2>2, <3>1 DEF AllResolved
    <3>3. Before(i, FirstClock) /\ Before(FirstClock, i)
      BY <1>4, <2>1, <3>2, Declared DEF IsNext
    <3>4. QED
      BY <1>4, <2>1, <3>1, <3>2, <3>3, Declared
  <2>4. ASSUME AnchorIsClock, Plain PROVE Fitted'
    <3>1. OneInstance(prefix) /\ Disjoint /\ Fitted
      BY <1>4, <2>1, <2>2, <2>3, <2>4, PrefixIsInstance DEF Plain
    <3>2. QED
      BY <1>4, <2>1, <3>1, FittedNext
  <2>5. QED
    BY <1>4, <2>1, <2>2, <2>3, <2>4, FitStays DEF Fit
<1>5. CASE ResolveNext /\ decl = None
  BY <1>5 DEF ResolveNext, Fit
<1>6. CASE Skip
  BY <1>6 DEF Skip, Fit
<1>7. CASE Render \/ Compile \/ Overlay \/ UNCHANGED vars
  <2>1. UNCHANGED <<decl, design, ifaces, ports, prefix, pool, pending, claim>>
        /\ (phase' \in {"resolving"} \union Done => phase \in {"resolving"} \union Done)
    BY <1>7 DEF Render, Compile, Overlay, vars, matcher, Done
  <2>2. Fitted' <=> Fitted
    BY <2>1 DEF Fitted, Means, Before, Order, Closer
  <2>3. QED
    BY <2>1, <2>2, FitStays DEF Fit
<1>8. QED
  BY <1>1, <1>2, <1>3, <1>4, <1>5, <1>6, <1>7
  DEF Next, LoadFails, ExtractFails, InferFails, ResolveFails, RenderFails, CompileFails, OverlayFails

LEMMA ClockedStep == Clocked /\ [Next]_vars => Clocked'
<1> SUFFICES ASSUME Clocked, [Next]_vars PROVE Clocked'
  OBVIOUS
<1>1. CASE Load \/ Fail \/ Extract \/ Infer \/ ResolveNext \/ Skip
  <2>1. phase' \notin Done
    BY <1>1 DEF Load, Fail, Extract, Infer, Start, ResolveNext, Skip, Done
  <2>2. QED
    BY <2>1 DEF Clocked
<1>2. CASE Render \/ Compile \/ Overlay \/ UNCHANGED vars
  <2>1. UNCHANGED <<ifaces, claim>>
    BY <1>2 DEF Render, Compile, Overlay, vars, matcher
  <2>2. /\ Of("tilelink")' = Of("tilelink")
        /\ \A name : Domain("clock", name)' = Domain("clock", name)
    BY <2>1 DEF Of, Domain, Before, Order
  <2>3. CASE Render
    <3>1. /\ sim'.clock = [i \in Of("tilelink") |-> Domain("clock", ifaces[i].clock)]
          /\ \A i \in Of("tilelink") : Domain("clock", ifaces[i].clock) # None
      BY <2>3 DEF Render, Renders
    <3>2. QED
      BY <2>1, <2>2, <3>1 DEF Clocked
  <2>4. CASE Compile \/ Overlay \/ UNCHANGED vars
    <3>1. sim' = sim /\ (phase' \in Done => phase \in Done)
      BY <2>4 DEF Compile, Overlay, vars, Done
    <3>2. QED
      BY <2>1, <2>2, <3>1 DEF Clocked
  <2>5. QED
    BY <1>2, <2>3, <2>4
<1>3. QED
  BY <1>1, <1>2
  DEF Next, LoadFails, ExtractFails, InferFails, ResolveFails, RenderFails, CompileFails, OverlayFails

\* A port of the clock of that name, or of the first one.
LEMMA ClockOf ==
  ASSUME Known, Claims, AllResolved, decl # None, phase \in Done, Fitted,
         NEW name, Domain("clock", name) # None
  PROVE  design[Domain("clock", name)].bare = IF name = <<>> THEN Anchor ELSE name
<1> DEFINE named == {k \in Of("clock") : name = <<>> \/ ifaces[k].name = name}
           Foremost(k) == \A j \in named \ {k} : Before(k, j)
           k == CHOOSE m \in named : Foremost(m)
           c == Least(claim[k])
<1>1. named # {} /\ Domain("clock", name) = c
  BY DEF Domain
<1>2. DOMAIN ifaces = DOMAIN claim /\ DOMAIN claim \subseteq Nat
  <2>1. DOMAIN ifaces = DOMAIN claim
    BY DEF AllResolved, Done
  <2>2. QED
    BY <2>1, Declared
<1>3. named \in SUBSET Nat /\ \A m \in named : m \in DOMAIN ifaces /\ ifaces[m].kind = "clock"
  BY <1>2 DEF Of
<1>4. k \in named /\ Foremost(k)
  <2>1. Least(named) \in named /\ \A j \in named : Least(named) <= j
    BY <1>1, <1>3, LeastIn
  <2>2. ASSUME NEW j \in named \ {Least(named)} PROVE Before(Least(named), j)
    <3> DEFINE l == Least(named)
    <3>0. j \in Nat /\ l \in Nat /\ l <= j /\ j # l
      BY <1>3, <2>1
    <3>1. l < j
      <4> HIDE DEF l, named
      <4>1. QED
        BY <3>0
    <3>2. Order(Least(named)) = Order(j)
      BY <1>3, <2>1 DEF Order
    <3>3. QED
      BY <3>1, <3>2 DEF Before
  <2>3. Foremost(Least(named))
    BY <2>2
  <2> HIDE DEF Foremost, named
  <2>4. QED
    BY <2>1, <2>3
<1> HIDE DEF k
<1>5. claim[k] \in SUBSET Nat /\ claim[k] # {} /\ k \in DOMAIN claim
  <2>1. k \in DOMAIN claim /\ claim[k] \subseteq ports /\ claim[k] # {}
    BY <1>2, <1>3, <1>4 DEF Claims, TypeOK
  <2>2. QED
    BY <2>1, PortNames
<1>6. Means(k, c)
  BY <1>5, LeastIn DEF Fitted
<1>7. ifaces[k].kind = "clock" /\ ifaces[k].exact
  BY <1>3, <1>4, Declared
<1>8. design[c].bare = ifaces[k].name
  BY <1>6, <1>7 DEF Means
<1>9. CASE name = <<>>
  <2>1. FirstClock \in named
    BY <1>2, <1>9, Declared DEF Of
  <2>2. k = FirstClock
    <3> SUFFICES ASSUME k # FirstClock PROVE FALSE
      OBVIOUS
    <3>1. Before(k, FirstClock) /\ Before(FirstClock, k) /\ k \in DOMAIN ifaces
      BY <1>3, <1>4, <2>1, Declared
    <3>2. QED
      BY <3>1, Declared
  <2>3. QED
    BY <1>1, <1>8, <1>9, <2>2 DEF Anchor
<1>10. CASE name # <<>>
  <2>1. ifaces[k].name = name
    BY <1>4, <1>10
  <2>2. QED
    BY <1>1, <1>8, <1>10, <2>1
<1>11. QED
  BY <1>9, <1>10

\* Of a declaration that resolves: every port is with the interface that fits it best.
LEMMA PortsFit ==
  ASSUME Known, Claims, AllResolved, decl # None, phase \in Done, Fitted, NEW p \in ports
  PROVE  LET meant == {i \in DOMAIN ifaces : Means(i, p)} IN
         /\ p \in pool <=> meant = {}
         /\ \A i \in DOMAIN claim : p \in claim[i] =>
              i \in meant /\ \A j \in meant \ {i} : Closer(i, j)
<1> DEFINE meant == {i \in DOMAIN ifaces : Means(i, p)}
<1>1. pending = {} /\ DOMAIN ifaces = DOMAIN claim
  BY DEF AllResolved, Done
<1>2. p \in pool => meant = {}
  BY <1>1 DEF Fitted
<1>3. ASSUME NEW i \in DOMAIN claim, p \in claim[i]
      PROVE  i \in meant /\ \A j \in meant \ {i} : Closer(i, j)
  BY <1>1, <1>3 DEF Fitted
<1>4. ASSUME p \notin pool PROVE meant # {}
  <2>1. PICK i \in DOMAIN claim : p \in claim[i]
    BY <1>4 DEF Claims, ClaimsPartition
  <2>2. QED
    BY <1>3, <2>1
<1>5. QED
  BY <1>2, <1>3, <1>4

\* Of one that does not: a wire that finds nothing lost its ports to another wire.
LEMMA WiresOnly ==
  ASSUME Known, Claims, Shaped, AllResolved, decl # None, phase = "resolving",
         OneInstance(prefix), Disjoint, Fitted,
         NEW i \in pending, Taken(i) = {},
         NEW wanted, wanted = Resolve(design, ports, prefix, ifaces[i]), wanted # {}
  PROVE  \E j \in DOMAIN claim :
           /\ claim[j] \intersect wanted # {}
           /\ ifaces[i].kind \in {"interrupt", "gpio"}
           /\ ifaces[j].kind \in {"interrupt", ifaces[i].kind}
<1>1. /\ pool \subseteq ports /\ i \in DOMAIN ifaces /\ i \notin DOMAIN claim
      /\ DOMAIN claim \subseteq DOMAIN ifaces
  BY DEF Claims, TypeOK
<1>2. \A p \in ports \ pool : \E j \in DOMAIN claim : p \in claim[j]
  BY DEF Claims, ClaimsPartition
<1>3. ASSUME NEW p \in ports, Means(i, p), p \notin pool
      PROVE  \E j \in DOMAIN claim :
               p \in claim[j] /\ Means(j, p) /\ Order(j) <= Order(i)
  <2>1. PICK j \in DOMAIN claim : p \in claim[j]
    BY <1>2, <1>3
  <2>2. Means(j, p) /\ Before(j, i)
    BY <2>1 DEF Fitted
  <2>3. Order(j) <= Order(i)
    BY <1>1, <2>2, Declared
  <2>4. QED
    BY <2>1, <2>2, <2>3
<1>4. \A j \in DOMAIN ifaces : ifaces[j].kind \in Kinds
  BY DEF Shaped
\* It is none of those that share no port, as one of its own is with an earlier one.
<1>5. ifaces[i].kind \in {"interrupt", "gpio"}
  <2>1. PICK p \in ports : Means(i, p) /\ p \notin pool
    <3> SUFFICES ASSUME Meant(i, ports) \subseteq pool PROVE FALSE
      BY DEF Meant
    <3>1. Taken(i) = wanted
      BY <1>1, ResolveMeant DEF Taken
    <3>2. QED
      BY <3>1
  <2>2. PICK j \in DOMAIN claim : Means(j, p) /\ Order(j) <= Order(i)
    BY <1>3, <2>1
  <2>3. ifaces[i].kind \in FirstKinds => ifaces[j].kind \in FirstKinds
    BY <1>1, <1>4, <2>2 DEF Order, ORDER, Kinds, FirstKinds
  <2>4. ifaces[i].kind \notin FirstKinds
    BY <1>1, <2>1, <2>2, <2>3 DEF Disjoint
  <2>5. QED
    BY <1>1, <1>4, <2>4 DEF Kinds, FirstKinds
<1>6. wanted = Meant(i, ports) /\ Taken(i) = Meant(i, pool)
  BY <1>1, <1>5, ResolveMeant DEF Taken
<1>7. PICK p \in ports : Means(i, p)
  BY <1>6 DEF Meant
<1>8. PICK q \in ports : /\ Means(i, q)
                         /\ \A j \in DOMAIN ifaces : ifaces[j].kind \in FirstKinds => ~Means(j, q)
  BY <1>1, <1>5, <1>7 DEF Disjoint, FirstKinds
<1>9. q \notin pool
  BY <1>6, <1>8 DEF Meant
<1>10. PICK j \in DOMAIN claim : q \in claim[j] /\ Means(j, q) /\ Order(j) <= Order(i)
  BY <1>3, <1>8, <1>9
<1>11. ifaces[j].kind \in {"interrupt", "gpio"}
  BY <1>1, <1>4, <1>8, <1>10 DEF Kinds, FirstKinds
<1>12. ifaces[j].kind \in {"interrupt", ifaces[i].kind}
  BY <1>5, <1>10, <1>11 DEF Order, ORDER
<1>13. q \in claim[j] \intersect wanted
  BY <1>6, <1>8, <1>10 DEF Meant
<1>14. QED
  BY <1>5, <1>12, <1>13

LEMMA FitsEach ==
  ASSUME IInv, Shaped, Fit, Clocked, Plain
  PROVE  EachPortToItsInterface
<1> SUFFICES ASSUME decl # None, phase \in {"resolving"} \union Done, AnchorIsClock
             PROVE  /\ phase \in Done =>
                         \A p \in ports :
                           LET meant == {i \in DOMAIN ifaces : Means(i, p)} IN
                           /\ p \in pool <=> meant = {}
                           /\ \A i \in DOMAIN claim : p \in claim[i] =>
                                i \in meant /\ \A j \in meant \ {i} : Closer(i, j)
                    /\ phase \in Done => \A i \in Of("tilelink") :
                         design[sim.clock[i]].bare =
                           IF ifaces[i].clock = <<>> THEN Anchor ELSE ifaces[i].clock
                    /\ phase = "resolving" =>
                         \A i \in pending :
                           LET wanted == Resolve(design, ports, prefix, ifaces[i]) IN
                           IsNext(i) /\ Taken(i) = {} /\ wanted # {} =>
                             \E j \in DOMAIN claim :
                               /\ claim[j] \intersect wanted # {}
                               /\ ifaces[i].kind \in {"interrupt", "gpio"}
                               /\ ifaces[j].kind \in {"interrupt", ifaces[i].kind}
  BY DEF EachPortToItsInterface, Done, Anchor
<1>1. Known /\ Claims /\ AllResolved
  BY DEF IInv
<1>2. /\ prefix = Prefix(design, ports, Anchor)
      /\ AnchorHits = {} => DOMAIN claim = {}
      /\ AnchorHits # {} => Fitted
  BY DEF Fit
<1>3. CASE AnchorHits # {}
  <2>1. Fitted /\ Disjoint /\ OneInstance(prefix)
    BY <1>1, <1>2, <1>3, PrefixIsInstance DEF Plain
  <2>2. phase \in Done => \A p \in ports :
          LET meant == {i \in DOMAIN ifaces : Means(i, p)} IN
          /\ p \in pool <=> meant = {}
          /\ \A i \in DOMAIN claim : p \in claim[i] =>
               i \in meant /\ \A j \in meant \ {i} : Closer(i, j)
    BY <1>1, <2>1, PortsFit
  <2>3. ASSUME phase \in Done, NEW i \in Of("tilelink")
        PROVE  design[sim.clock[i]].bare = IF ifaces[i].clock = <<>> THEN Anchor ELSE ifaces[i].clock
    <3>1. sim.clock[i] = Domain("clock", ifaces[i].clock) /\ sim.clock[i] # None
      BY <2>3 DEF Clocked
    <3>2. QED
      BY <1>1, <2>1, <2>3, <3>1, ClockOf
  <2>4. ASSUME phase = "resolving", NEW i \in pending,
               NEW wanted, wanted = Resolve(design, ports, prefix, ifaces[i]),
               Taken(i) = {}, wanted # {}
        PROVE  \E j \in DOMAIN claim :
                 /\ claim[j] \intersect wanted # {}
                 /\ ifaces[i].kind \in {"interrupt", "gpio"}
                 /\ ifaces[j].kind \in {"interrupt", ifaces[i].kind}
    BY <1>1, <2>1, <2>4, WiresOnly
  <2>5. QED
    BY <2>2, <2>3, <2>4
\* Without a port for the first clock nothing is claimed, and nothing was lost.
<1>4. CASE AnchorHits = {}
  <2>1. DOMAIN claim = {} /\ pool = ports
    BY <1>1, <1>2, <1>4 DEF Claims, ClaimsPartition
  <2>2. phase \notin Done
    <3> SUFFICES ASSUME phase \in Done PROVE FALSE
      OBVIOUS
    <3>1. DOMAIN ifaces = {}
      BY <1>1, <2>1 DEF AllResolved, Done
    <3>2. QED
      BY <1>1, <3>1, Declared
  <2>3. \A i \in pending : Taken(i) = Resolve(design, ports, prefix, ifaces[i])
    BY <2>1 DEF Taken
  <2>4. QED
    BY <2>2, <2>3
<1>5. QED
  BY <1>3, <1>4

\* Whatever the order of the declaration, and whatever the ports: if the names of the
\* component's interfaces keep apart (Plain), every port goes to the interface that
\* fits it best, every bridge runs on the clock that its bus names, and an interface
\* that finds no port is a wire that another wire covers.
THEOREM PortsFitInterfaces == Spec => [](Plain => EachPortToItsInterface)
<1>1. Init => IInv /\ Shaped /\ Fit /\ Clocked
  <2>1. Init => Fit /\ Clocked
    BY DEF Init, Fit, Clocked, Done
  <2>2. QED
    BY <2>1, IInvInit, ShapedInit
<1>2. IInv /\ Shaped /\ Fit /\ Clocked /\ [Next]_vars => (IInv /\ Shaped /\ Fit /\ Clocked)'
  BY IInvStep, ShapedStep, FitStep, ClockedStep DEF IInv
<1>3. IInv /\ Shaped /\ Fit /\ Clocked => (Plain => EachPortToItsInterface)
  BY FitsEach
<1>4. QED
  BY <1>1, <1>2, <1>3, PTL DEF Spec

=============================================================================
