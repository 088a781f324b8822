------------------------------- MODULE Wiring -------------------------------
(***************************************************************************)
(* From the declaration of a component to what couples it with QEMU: the   *)
(* ports of the extracted design are claimed for the declared interfaces   *)
(* one after the other (codegen/typedio.py), sim.cpp binds them and        *)
(* numbers its buses and wires (codegen/sim_main.py), QemuTLM.h registers  *)
(* them, and the device tree numbers them again, on its own                *)
(* (codegen/dts_overlay.py).  Any step may end in an error, which ends the *)
(* pipeline.                                                               *)
(***************************************************************************)
EXTENDS Interfaces

CONSTANTS Declarations, \* components and soc_rtl's, as in cosim.json
          Designs,      \* designs: sequences of states
          Tree,         \* the base device tree: path -> node
          None,         \* no declaration, no port
          Window        \* QemuTLM's device numbers of a direction

ASSUME WindowAssumption == Window \in Nat

ASSUME DeclarationAssumption ==
  \A c \in Declarations :
    /\ DOMAIN c.interfaces = 1 .. Len(c.interfaces) /\ Len(c.interfaces) \in Nat
    /\ \A k \in DOMAIN c.interfaces : \A key \in {"name", "prefix"} \intersect DOMAIN c.interfaces[k] :
         c.interfaces[k][key] \in Seq(STRING)

ASSUME DesignAssumption ==
  \A d \in Designs : d \in Seq([inst : Seq(STRING), bare : Seq(STRING),
                                typ : {"input", "output", "register"}, bits : Nat])

VARIABLES decl,    \* what cosim.json declares, or None
          design,  \* the design the ports come from
          phase,   \* what is done: config, loaded, resolving, rendered, compiled, coupled; or failed
          ifaces,  \* position -> interface
          ports,   \* the ports of the extracted model
          prefix,  \* PortMatcher._prefix
          pool,    \* PortMatcher._io
          pending, \* positions of interfaces still to resolve
          claim,   \* position of a resolved interface -> its ports
          sim,     \* what sim.cpp says
          dts      \* what the overlay says

vars == <<decl, design, phase, ifaces, ports, prefix, pool, pending, claim, sim, dts>>
matcher == <<ifaces, ports, prefix, pool, pending, claim>>

Nothing == [x \in {} |-> None]

Init ==
  /\ decl \in Declarations \union {None} /\ design \in Designs
  /\ phase = "config"
  /\ ifaces = Nothing /\ ports = {} /\ prefix = <<>> /\ pool = {}
  /\ pending = {} /\ claim = Nothing /\ sim = Nothing /\ dts = Nothing

Fail == phase' = "failed" /\ UNCHANGED <<decl, design, matcher, sim, dts>>

----------------------------------------------------------------------------
(* Loading, extraction, and the PortMatcher of the extracted model.        *)

Load ==
  /\ phase = "config" /\ decl # None /\ LoadsComponent(decl)
  /\ ifaces' = [k \in DOMAIN decl.interfaces |-> Interface(decl.interfaces[k])]
  /\ phase' = "loaded"
  /\ UNCHANGED <<decl, design, ports, prefix, pool, pending, claim, sim, dts>>

LoadFails == phase = "config" /\ decl # None /\ ~LoadsComponent(decl) /\ Fail

\* A component is extracted with the regex of its interfaces, a whole design
\* is left as it is.  Mutant: an internal state is taken for a port.
ExtractedStates ==
  {k \in DOMAIN design :
     design[k].inst = <<>> \/ decl.soc_rtl \/ k \in Hoisted(design, ifaces)}

Extracted ==
  {k \in DOMAIN design :
     /\ IsPort(design[k])
     /\ design[k].inst = <<>> \/ decl.soc_rtl \/ k \in Hoisted(design, ifaces)}

FirstClock == Least({k \in DOMAIN ifaces : ifaces[k].kind = "clock"})

Start(io, is, anchor) ==
  /\ ports' = io /\ pool' = io /\ ifaces' = is
  /\ prefix' = Prefix(design, io, anchor)
  /\ pending' = DOMAIN is
  /\ phase' = "resolving"
  /\ UNCHANGED <<decl, design, claim, sim, dts>>

\* A component that is the design itself has no instance to hoist from.
IsTop == decl.soc_rtl \/ \A k \in DOMAIN design : design[k].inst = <<>>

Extract ==
  /\ phase = "loaded" /\ (IsTop \/ Hoisted(design, ifaces) # {})
  /\ Start(Extracted, ifaces, ifaces[FirstClock].name)

\* HWPropPorts2TLM found no port.
ExtractFails ==
  phase = "loaded" /\ ~IsTop /\ Hoisted(design, ifaces) = {} /\ Fail

\* No declaration: infer_typedIO, whose assertion wants a clock.
Inferred == {k \in DOMAIN design : IsPort(design[k])}
HasClock == \E k \in Inferred : Last(Name(design[k])) \in CLOCK_NAMES

Infer ==
  /\ phase = "config" /\ decl = None /\ HasClock
  /\ Start(Inferred, InferInterfaces(design, Inferred), <<>>)

InferFails == phase = "config" /\ decl = None /\ ~HasClock /\ Fail

----------------------------------------------------------------------------
(* resolve_interfaces.                                                     *)

Order(i) == ORDER[ifaces[i].kind]

\* Mutant: the order of the declaration.
BeforeDeclared(i, j) == i < j

\* sorted(ifaces, key=ORDER), which is stable.
Before(i, j) == Order(i) < Order(j) \/ (Order(i) = Order(j) /\ i < j)

Taken(i) == Resolve(design, pool, prefix, ifaces[i])

IsNext(i) == \A j \in pending \ {i} : Before(i, j)

\* Mutant: the ports that were taken stay in the pool.
ConsumeNothing(taken) == pool' = pool

consume(taken) == pool' = pool \ taken

ResolveNext ==
  /\ phase = "resolving"
  /\ \E i \in pending :
       /\ IsNext(i) /\ Taken(i) # {}
       /\ consume(Taken(i))
       /\ claim' = [j \in DOMAIN claim \union {i} |-> IF j = i THEN Taken(i) ELSE claim[j]]
       /\ pending' = pending \ {i}
  /\ UNCHANGED <<decl, design, phase, ifaces, ports, prefix, sim, dts>>

\* strict=False: a guess that does not resolve is no interface.
Skip ==
  /\ phase = "resolving" /\ decl = None
  /\ \E i \in pending : IsNext(i) /\ Taken(i) = {} /\ pending' = pending \ {i}
  /\ UNCHANGED <<decl, design, phase, ifaces, ports, prefix, pool, claim, sim, dts>>

\* strict=True
ResolveFails ==
  /\ phase = "resolving" /\ decl # None
  /\ \E i \in pending : IsNext(i) /\ Taken(i) = {}
  /\ Fail

----------------------------------------------------------------------------
(* sim.cpp.                                                                *)

Of(kind) == {i \in DOMAIN claim : ifaces[i].kind = kind}
PortsOf(kind) == UNION {claim[i] : i \in Of(kind)}
Buses(dir) == {i \in Of("tilelink") : ifaces[i].dir = dir}
NeedsQemu == \E i \in DOMAIN claim : ifaces[i].kind \in NEEDS_QEMU

\* The place of x in the list of S: io.intrs and the like are lists of the
\* ports of one interface after those of another.
Owner(p) == CHOOSE i \in DOMAIN claim : p \in claim[i]
Ahead(p, q) == Before(Owner(p), Owner(q)) \/ (Owner(p) = Owner(q) /\ p < q)
PortIndex(p, S) == Cardinality({q \in S : Ahead(q, p)})
BusIndex(i, S) == Cardinality({j \in S : Before(j, i)})

Typed(kind, typ) == {p \in PortsOf(kind) : design[p].typ = typ}

\* Mutant: the gpio wires come first.
GpioFirst(p) ==
  LET typ == design[p].typ IN
  IF p \in PortsOf("gpio") THEN PortIndex(p, Typed("gpio", typ))
  ELSE Cardinality(Typed("gpio", typ)) + PortIndex(p, Typed("interrupt", typ))

\* wire_out and wire_in: interrupts, then gpio.
WireIndex(p) ==
  LET typ == design[p].typ IN
  IF p \in PortsOf("interrupt") THEN PortIndex(p, Typed("interrupt", typ))
  ELSE Cardinality(Typed("interrupt", typ)) + PortIndex(p, Typed("gpio", typ))

\* A bus's own clock or reset, by its declared name, or the first one: None
\* is KeyError or IndexError.
Domain(kind, name) ==
  LET named == {i \in Of(kind) : name = <<>> \/ ifaces[i].name = name}
  IN IF named = {} THEN None
     ELSE LET i == CHOOSE i \in named : \A j \in named \ {i} : Before(i, j)
          IN Least(claim[i])

\* qemu_reset_name: the reset of the first bus, or the first reset.
QemuReset ==
  LET buses == Of("tilelink")
      first == CHOOSE i \in buses : \A j \in buses \ {i} : Before(i, j)
  IN Domain("reset", IF buses = {} THEN <<>> ELSE ifaces[first].reset)

Io(i) == BusIo(design, claim[i], prefix, ifaces[i])

\* The template arguments of a bridge and the types of the signals of Top.
TypedPorts ==
  PortsOf("reset") \union pool
    \union UNION {Io(i)[s] : i \in Of("tilelink"), s \in {"a_data", "d_sink"}}

Renders ==
  /\ Of("clock") # {} /\ \A i \in Of("clock") : ifaces[i].freq > 0
  /\ \A i \in Of("tilelink") : /\ Domain("clock", ifaces[i].clock) # None
                               /\ Domain("reset", ifaces[i].reset) # None
  /\ \A p \in TypedPorts : design[p].bits <= 64

\* What each port of the model is bound to: port, sort, number, signal.
Signals == {<<p, "signal", p, "">> : p \in PortsOf("clock") \union PortsOf("reset") \union pool}
BusSignals ==
  UNION {UNION {{<<p, "bus", i, s>> : p \in Io(i)[s]} : s \in DOMAIN SlaveSignals} :
           i \in Of("tilelink")}
WirePorts == PortsOf("interrupt") \union PortsOf("gpio")

\* Mutant: a wire is driven the way it was declared.
WiresAsDeclared ==
  {<<p, IF ifaces[Owner(p)].dir = "out" THEN "output" ELSE "input", WireIndex(p), "">> :
     p \in WirePorts}

\* qemu.wire_in for the outputs of the model, qemu.wire_out for its inputs.
Wires == {<<p, design[p].typ, WireIndex(p), "">> : p \in WirePorts}

Render ==
  /\ phase = "resolving" /\ pending = {} /\ Renders
  /\ sim' = [bind   |-> Signals \union BusSignals \union Wires,
             number |-> [i \in Of("tilelink") |-> BusIndex(i, Buses(ifaces[i].dir))],
             clock  |-> [i \in Of("tilelink") |-> Domain("clock", ifaces[i].clock)],
             reset  |-> IF NeedsQemu THEN QemuReset ELSE None]
  /\ phase' = "rendered"
  /\ UNCHANGED <<decl, design, matcher, dts>>

RenderFails == phase = "resolving" /\ pending = {} /\ ~Renders /\ Fail

\* QemuTLM is empty beyond its windows; a wire is an sc_signal<bool>.
Compiles ==
  NeedsQemu => /\ sim.reset # None
               /\ \A dir \in {"slave", "master"} : Cardinality(Buses(dir)) <= Window
               /\ \A p \in WirePorts : design[p].bits = 1

Compile ==
  /\ phase = "rendered" /\ Compiles /\ phase' = "compiled"
  /\ UNCHANGED <<decl, design, matcher, sim, dts>>

CompileFails == phase = "rendered" /\ ~Compiles /\ Fail

\* QemuTLM's register_dev: masters of QEMU first, slaves from Window on.
Device(i) == IF ifaces[i].dir = "slave" THEN sim.number[i] ELSE Window + sim.number[i]

----------------------------------------------------------------------------
(* The overlay of the device tree.                                         *)

\* resolve_component_node: the paths it may bind to, exactly one or none.
Nodes ==
  IF "dts_path" \in DOMAIN decl THEN {decl.dts_path} \intersect DOMAIN Tree
  ELSE {n \in DOMAIN Tree : Tree[n].compat = decl.compat}

IsBound == {"dts_path", "compat"} \intersect DOMAIN decl # {}
Node == Tree[CHOOSE n \in Nodes : TRUE]

\* _node_interrupts, _bus_reg_windows
Cells == IF IsBound THEN Node.interrupts ELSE <<>>
RegWindows == IF IsBound THEN Node.reg ELSE <<>>

Overlays ==
  /\ IsBound => Cardinality(Nodes) = 1 /\ Cardinality(Node.controllers) <= 1
  /\ Len(Cells) = Cardinality(Typed("interrupt", "output"))
  /\ Cardinality(Buses("slave")) <= Len(RegWindows)

\* _MasterBusView.rp_index and _SlaveNode.index; wire k interrupts at cell k.
Overlay ==
  /\ phase = "compiled" /\ decl # None /\ ~decl.soc_rtl /\ NeedsQemu /\ Overlays
  /\ dts' = [rp    |-> [i \in Of("tilelink") |->
                          BusIndex(i, Buses(ifaces[i].dir))
                            + IF ifaces[i].dir = "master" THEN Window ELSE 0],
             reg   |-> [i \in Buses("slave") |-> RegWindows[BusIndex(i, Buses("slave")) + 1]],
             cells |-> Cells]
  /\ phase' = "coupled"
  /\ UNCHANGED <<decl, design, matcher, sim>>

OverlayFails ==
  /\ phase = "compiled" /\ decl # None /\ ~decl.soc_rtl /\ NeedsQemu /\ ~Overlays
  /\ Fail

Next ==
  \/ Load \/ LoadFails \/ Extract \/ ExtractFails \/ Infer \/ InferFails
  \/ ResolveNext \/ Skip \/ ResolveFails
  \/ Render \/ RenderFails \/ Compile \/ CompileFails
  \/ Overlay \/ OverlayFails

Spec == Init /\ [][Next]_vars

----------------------------------------------------------------------------
(* Properties.                                                             *)

\* Types of the variables.
TypeOK ==
  /\ phase \in {"config", "loaded", "resolving", "rendered", "compiled", "coupled", "failed"}
  /\ ports \subseteq {k \in DOMAIN design : IsPort(design[k])} /\ pool \subseteq ports
  /\ pending \subseteq DOMAIN ifaces /\ DOMAIN claim \subseteq DOMAIN ifaces \ pending
  /\ \A i \in DOMAIN claim : claim[i] \subseteq ports /\ claim[i] # {}

\* A port has one owner: it is in the pool or with one interface, and no
\* port is lost.
ClaimsPartition ==
  /\ ports = pool \union UNION {claim[i] : i \in DOMAIN claim}
  /\ \A i \in DOMAIN claim : claim[i] \intersect pool = {}
  /\ \A i, j \in DOMAIN claim : i # j => claim[i] \intersect claim[j] = {}

\* What a reader of cosim.json takes i for, and which of two is closer.
Means(i, p) ==
  LET face == ifaces[i]
      bare == design[p].bare
  IN IF face.kind = "tilelink"
     THEN \E s \in DOMAIN SlaveSignals :
            LET sig == SIGNALS(face.dir)[s] IN
            design[p].typ = sig.typ /\ \E n \in sig.names : bare = face.name \o n
     ELSE bare = face.name \/ (~face.exact /\ StartsWith(bare, face.name))

Closer(i, j) ==
  \/ ifaces[i].kind = "tilelink"
  \/ Len(ifaces[i].name) > Len(ifaces[j].name)
  \/ Len(ifaces[i].name) = Len(ifaces[j].name) /\ ifaces[i].exact

\* The port from which PortMatcher takes the prefix, the first one whose name
\* ends in the clock's, is the clock: not so if "tx_clock" is hoisted with it
\* and listed in front of it, and then no declared name means what it says.
AnchorIsClock ==
  LET anchor == ifaces[FirstClock].name
      hits == {p \in ports : Name(design[p]) = anchor \/ EndsWith(Name(design[p]), anchor)}
  IN hits # {} => design[Least(hits)].bare = anchor

\* A declaration that resolves gives every port to the interface whose name
\* fits it best, in whichever order the interfaces are declared and whatever
\* their prefixes cover of each other, and leaves over what none of them
\* means; and a bridge runs on the clock that its bus names.  One that does not
\* resolve though it would have with all the ports lost them to a wire, as a
\* wire of the same kind or a gpio to an interrupt: nothing is stolen by a wider
\* prefix because it was listed first.
EachPortToItsInterface ==
  decl # None /\ phase \in {"resolving", "rendered", "compiled", "coupled"} /\ AnchorIsClock =>
    /\ phase \in {"rendered", "compiled", "coupled"} =>
         \A p \in ports :
           LET meant == {i \in DOMAIN ifaces : Means(i, p)} IN
           /\ p \in pool <=> meant = {}
           /\ \A i \in DOMAIN claim : p \in claim[i] =>
                i \in meant /\ \A j \in meant \ {i} : Closer(i, j)
    /\ phase \in {"rendered", "compiled", "coupled"} => \A i \in Of("tilelink") :
         design[sim.clock[i]].bare =
           IF ifaces[i].clock = <<>> THEN ifaces[FirstClock].name ELSE ifaces[i].clock
    /\ phase = "resolving" =>
         \A i \in pending :
           LET wanted == Resolve(design, ports, prefix, ifaces[i]) IN
           IsNext(i) /\ Taken(i) = {} /\ wanted # {} =>
             \E j \in DOMAIN claim :
               /\ claim[j] \intersect wanted # {}
               /\ ifaces[i].kind \in {"interrupt", "gpio"}
               /\ ifaces[j].kind \in {"interrupt", ifaces[i].kind}

\* A Top that compiles can be elaborated: each port of the model is bound
\* once, nothing is bound twice, and a wire is bound in its own direction.
TopIsComplete ==
  phase \in {"compiled", "coupled"} =>
    /\ \A p \in ports : Cardinality({b \in sim.bind : b[1] = p}) = 1
    /\ \A b, c \in sim.bind : Tail(b) = Tail(c) => b = c
    /\ \A b \in sim.bind : b[2] \in {"input", "output"} =>
         design[b[1]].typ = b[2] /\ b[3] < Cardinality({c \in sim.bind : c[2] = b[2]})

\* Both sides of the channel mean the same by a number: a bus has the same
\* device in the device tree and in QemuTLM and no other has it, the k-th
\* slave declared answers at the k-th register window, the wires with an
\* interrupt cell are the interrupts in the order of their declaration, and
\* no gpio is routed to the interrupt controller.
SameNumbers ==
  phase = "coupled" =>
    /\ \A i \in Of("tilelink") : dts.rp[i] = Device(i) /\ Device(i) < 2 * Window
    /\ \A i, j \in Of("tilelink") : i # j => Device(i) # Device(j)
    /\ \A i \in Buses("slave") :
         dts.reg[i] = Node.reg[Cardinality({j \in DOMAIN ifaces :
                        j <= i /\ ifaces[j].kind = "tilelink" /\ ifaces[j].dir = "slave"})]
    /\ \A b, c \in sim.bind : b[2] = "output" /\ c[2] = "output" =>
           /\ b[1] \in PortsOf("gpio") <=> b[3] >= Len(dts.cells)
           /\ b[1] \in PortsOf("interrupt") /\ c[1] \in PortsOf("interrupt")
                /\ Owner(b[1]) < Owner(c[1]) => b[3] < c[3]

=============================================================================
