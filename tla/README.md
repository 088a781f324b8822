# Verification of cosim-gen

cosim-gen takes an RTL design (FIRRTL or CIRCT HW), extracts the part that belongs to one
component, compiles it into a SystemC simulation and couples that simulation to QEMU.
This directory holds TLA+ specifications of the parts of the program whose
correctness depends on order, interleaving, failure or a fixpoint, the TLC configurations
that check them, and theorems about them that the TLA+ proof system checks.
Paths below are relative to the repository (`src/` in `PROJECT.json`).

    tlc -workers 2 -config MCHWTaint.cfg MCHWTaint.tla        model-check one run
    tlapm HWTaint_proofs.tla                                  check one proof module

`PROJECT.json` lists every run with its configuration, every property with a mutant
(a plausible bug of the code that the property catches), the source lines of every
definition, the hazards of the code, the findings and the theorems.

## 1. The system

| component | state | operations | interacts with |
|---|---|---|---|
| **TLM2TLBridge** (`cosim-gen-cli/include/TLM2TLBridge.h`) | TileLink wires of the initiator side, `aAcked`, `dAcked`, position in `b_transport` | one blocking TLM call, one resumption per rising clock edge | called by QEMU's remote port, drives a TileLink slave of the RTL |
| **TL2TLMBridge** (`include/TL2TLMBridge.h`) | TileLink wires of the target side, the request in hand, position in `processReq` | one SystemC thread, resumed at the edges of the clock or when QEMU returns | serves a TileLink master of the RTL, calls QEMU's memory |
| **arcilator wrapper, generated main** (`include/arcilator-wrapper.h`, `codegen/templates/*.j2`) | the view of the model, the place of the thread `eval`, the reset sequence | two evaluations at every change of a clock, each after a delta cycle; reset | the SystemC kernel, the bridges, the compiled design |
| **QemuTLM** (`include/QemuTLM.h`) | remote-port sockets with fixed device numbers (masters 0-9, slaves 10-19, wires 20) | binding at construction, `b_transport` through | QEMU, bridges |
| **interface resolution** (`cosim/interfaces`, `codegen/typedio.py`, `dts_overlay.py`, `codegen/sim_main.py`, `bus.py`) | the ports still unclaimed, the interfaces found | greedy claim by patterns, classification, numbering of buses and wires | reads the state json of a build, writes sim.cpp and the device tree |
| **cosim build** (`cosim/project.py`, `mk/*.mk`, `codegen/main.py`) | files with their modification times | edits, `make -j`, recipes, write-if-changed of generated files, `cosim clean` | runs firtool, cosim-extract, arcilator, verilator, the C++ compiler |
| **cosim run** (`cosim/project.py`) | manifest, device tree, child processes, socket directory | `run`, `run qemu`, start, wait, interrupt, clean up | simulations and QEMU, built files |
| **configuration, toolchain** (`config.py`, `toolchain.py`, `cli.py`, `statejson.py`) | none beyond one run | load, validate, look up | everything in the CLI |
| **extraction pipeline** (`cosim-gen-circt/cosim-extract`) | the HW module being rewritten | a fixed list of passes | the passes below |
| **HWTaint** (`lib/cosimGen/HWTaint.cpp`) | `taggedIO`, `unprocessedIO` of every instance, the calls of `taintModule` | sweep, recursion into children and parent, removal of unmarked ports | reads the instance graph |
| **HWPropPorts2TLM** | ports inserted into the modules above the component | recursive propagation of matching ports to the top | marks ports `keep` for the passes after it |
| **HWOptInterfaces, HWOpt** | ports tagged `unused` or `keep`, module bodies | remove unused, rewire, combine, to a fixpoint; delete modules without uses | before and after the two passes above |
| **HWMarkComb, HWMoveCombUp, HWSubGraph** | marks of operations | fixpoint over the instance graph, moving operations up | stand-alone passes of cosim-gen-opt |
| **small passes** (HWDme, HWKeepPath, HWReleaseKeep, HWInlineTrivial, HWRenameTop, ...) | none | one walk each | pipeline |

What is hard here, and the properties that make each part correct:

* The bridges translate between a blocking call and a clocked handshake. A value
  read before a `wait()` is used after it, and QEMU can return between any two
  edges. Correct means: every handshake that fires is seen by the bridge and no other, a
  beat is neither lost nor repeated, the link is quiet between transfers, memory
  behaves as if there were no bridge, and every call returns.
* A build is a parallel make over generated files that are only written if they change,
  with two generators that may write the same file. Correct means: a build that reports
  success leaves binaries made from the newest version of every source, of one design,
  also after failures in earlier builds; a build without edits does nothing.
* A run starts processes that can die at any point. Correct means: nothing outlives a run, QEMU
  waits only for simulations that were started, and both sides number the
  interfaces of a component alike.
* The names of ports are all that connects a declaration with an extracted design, and a
  device tree with sim.cpp. Correct means: every port goes to the interface that its name fits best, in whichever order
  interfaces are declared, nothing is bound twice or left open, and both sides number alike.
* The wrapper reads and writes signals in two delta cycles around a change of the clock, while bridges react
  to the same change. Correct means: no rise is missed or taken twice, and component and bridge see the same transfers.
* The passes change modules that are instantiated more than once, recursively and in an order
  given by the graph. Correct means: the recursion ends, nothing is left pending, and what the
  component depends on survives; a rewritten design computes what the given one did.

## 2. Modules

| module | models | EXTENDS / INSTANCE |
|---|---|---|
| `TileLink` | the channel: opcodes, beats, lanes (`tilelink.h`) | |
| `MemService` | abstract: a byte memory that serves one access at a time | |
| `TLM2TL`, `MCTLM2TL` | `b_transport` and every cooperative TileLink slave | TileLink, MemService as `Service` |
| `TLM2TL_proofs` | proofs | TLM2TL |
| `TL2TLM`, `MCTL2TLM` | `processReq`, a TileLink master, QEMU's memory | TileLink, MemService as `Service` |
| `TL2TLM_proofs` | proofs | TL2TLM |
| `Build`, `MCBuild` | `cosim build`: make rules, codegen, edits, failures | |
| `Build_proofs` | proofs | Build |
| `Coupled`, `MCCoupled` | `cosim run`, the manifest, processes | |
| `Coupled_proofs` | proofs | Coupled |
| `Interfaces` | an entry of `interfaces`, what it matches, what is guessed without one | |
| `Wiring`, `MCWiring` | from the declaration to sim.cpp and the overlay, and QemuTLM's numbers | Interfaces |
| `Wiring_proofs` | proofs | Wiring |
| `ArcWrapper`, `MCArcWrapper` | the thread `eval`, `sc_main`, a bridge, the kernel | |
| `ArcWrapper_proofs` | proofs | ArcWrapper |
| `HWTaint`, `MCHWTaint` | the pass hw-taint | |
| `HWTaint_proofs` | proofs | HWTaint |
| `HWOptInterfaces`, `MCHWOptInterfaces` | the pass hw-opt-interfaces | |
| `HWOptInterfaces_proofs` | proofs | HWOptInterfaces |

### The bridges

*Time.* Every read of a wire in `TLM2TLBridge::b_transport` happens when the thread is
resumed by a rising edge. A value written to an `sc_signal` becomes visible in
the next delta cycle, and both the Verilator and the arcilator model sample their inputs at the
rising edge and have settled their outputs before the next one. So one TLA+ step,
`Edge`, is one rising edge: the unprimed wires are those of the cycle that ends,
the primed ones those of the cycle that begins, and the RTL's new outputs may
depend on the bridge's new outputs, since the design may answer combinationally.
In `TL2TLMBridge` the level of the clock matters only when QEMU's `b_transport`
returns while the clock is high or low, which is a choice in `WriteReturns`.

*Correspondence.* `pc` is the place of the thread: in `TLM2TL` one value per `wait()`
of the read and write loops (`rd`, `rdD`, `rdA`, `wr`, `wrD`), in `TL2TLM` one per wait of `processReq`
and the helpers it calls. The actions are the pieces of code between two waits with each
branch an action of its own (`ReadBeat`, `WriteStall`, `WriteNext`, `WriteLast`, ...; `TopTake`,
`GetSend`, `GetNext`, `PutNext`, `PutPause`, `PutCollected`, ...). An `sc_assert` that fails leads to `pc = "abort"`.
`a_valid`, `d_ready` etc. are the wires of the same names. The RTL side is
specified as a TileLink agent that may stall as long as it likes, answer early and combinationally
(`kind.early`) and withdraw `a_ready`. `SlaveKinds` and `Cooperative` name what is assumed of the slave, `PartialBursts`,
`SubWordPartials`, `BackToBack` which messages the master sends, `Responses` what QEMU answers. `Supported` is exactly
what the `sc_assert`s of `processReq` let through.

*Assumptions about the RTL.* `TLM2TL`: a slave that answers in the cycle in which the request appears must hold `ready`
until the request is there, and `d_opcode` must be the one of the answer while `d_valid` is low
(`CooperativeOnly`). `TL2TLM`: requests do not follow a burst without an idle cycle
(`BackToBack = FALSE`), no sub-word PutPartial (`SubWordPartials = FALSE`), no PutPartial of several beats
(`PartialBursts = FALSE`), QEMU answers
`OK`. The first two of these are shown to be needed by the runs `tl2tlm_lost_request`
and `tl2tlm_sub_word_partial`. The third is needed as well: `sc_assert(beats == 1)` (`TL2TLMBridge.h:83`) stands inside
`if (beats == 1)` and never fails, so the bridge accepts a PutPartial burst, stores its first beat (line 169), and
hands all its bytes to QEMU (line 181). With `PartialBursts = TRUE` in `MCTL2TLM.cfg` TLC finds `HandshakeIsTaken`,
`AnswerIsOwed`, `ImplementsService` and `MessageFinishes` violated (`TypeOK` and `AnswerHeld` hold): the second beat is
accepted on the wires and lost, or taken for a message, and bytes the master never sent reach memory.

*Bounds.* `Bus = 2` bytes, `Lens = {1, 2, 4}`: less than a word, one word, a burst of two
beats. Two beats reach the first, the last and no middle iteration; the code treats
a middle iteration as a first one that is not the last. `MemSize = 4` bytes. The bridges copy bytes and never look at them, so one
payload with pairwise different bytes shows every byte that goes astray.

*Fairness.* The clock does not stop (`WF(Edge)`); the RTL is ready and answers again
and again (`WF(Edge /\ a_ready')`, `WF(Edge /\ d_valid')` and their mirror images);
QEMU returns from every call. Nothing is assumed of the side that makes requests.

### Build

`file[f]` is what the file was made from: per facet of the sources (`logic` and `ports` of the RTL,
`decl` and `freq` of cosim.json) the set of versions that went into it. `newer` is the order of the modification times between
a prerequisite and a target, which is all make looks at, and `due` keeps make's cached decision for a target.
`Start`, `Launch`, `Finish`, `Fail`, `End` are make with `Jobs` jobs; `EmitSame`, `EmitChanged`, `EmitOpen`, `EmitWrite` are
`codegen/main.py`, which writes wrapper and sim.cpp file by file, and only when the text differs.
`Edit`, `EditBackends` and `Clean` happen between two builds.
Bounds: one edit of each facet, one failing recipe, two jobs, all four lists of backends.
One edit is enough for a file to be current or stale, and two jobs for any two recipes to overlap.
`CodegenFails = FALSE` is an assumption that matters: when codegen fails between the wrapper and sim.cpp,
the next build finds sim.cpp newer than its prerequisites and keeps a wrapper of another design.

### Coupled

`pc` is the place in `run()` and `_run_coupled()`: `dtb`, `spawn`, `qemu`, `stop`, `reap`. `procs` are the Popen objects of the list that the
`finally` clause walks, `signalled` those it has sent SIGTERM to, `sim` and `qemu` the
real processes, `tree` the nodes of the device tree and the version of
cosim.json their numbers come from. `SpawnFails`, `SimFails`, `QemuFails`, `GenDtbFails`, `BuildFails` are the failures, an interrupt is a
failure of the place it hits. Three components (zero, one and several coupled ones), one
edit per component, two failures. `CHECK_DEADLOCK FALSE`, because QEMU waits forever for
the socket of a simulation that died before it connected; the property `RunEnds` is about runs without such
a death. Fairness: `run()` goes on by itself, processes are scheduled, a guest
ends, a signalled group ends.

### Interfaces and Wiring

A name is the sequence of its words, so that prefixes and suffixes are those of words, as
everywhere in the code (`_` is always part of what is compared). `Interfaces` has the pure part: what `load` accepts
(`LoadsInterface`, `LoadsComponent`), the regex of the extraction (`Matches`, `Hoisted`; it is not anchored, so it hoists more than is meant),
`PortMatcher` (`Prefix`, `Match`, `BusPrefix`, `FindOne`), the signals of a bus (`BusIo`) and the guesses without a declaration
(`InferInterfaces`).

`Wiring` is the pipeline over it. `phase` is what has been made so far, `pool` is `PortMatcher._io`, `claim` the ports of each interface, `sim`
what the generated Top binds, `dts` what the overlay says. `Load`, `Extract` or `Infer`, `ResolveNext` and `Skip` (one interface
each, in the order of `sorted(..., key=ORDER)`), `Render`, `Compile` and `Overlay` are the steps; each has a twin `...Fails` with the errors the code
raises there (in `Compile` those of the C++ compiler, since `QemuTLM` leaves out what is beyond a window). The list order that numbers ports and buses is
computed from positions (`PortIndex`, `BusIndex`), once for sim.cpp and once for the overlay, as the code does.

Bounds: eight designs, with ports hoisted from one and from two levels, buses with and without optional signals, masters and slaves
whose prefixes cover each other, ports wider than a word, two clocks, a design without a clock, and the port `tx_clock` in front of `clock` and
after it; declarations in all orders of up to four interfaces and ten orders or more of longer ones, most of them right for one
design and wrong for the others; a device tree with nodes that are missing, doubled, with two interrupt controllers
or too few windows. `Window = 2` instead of ten: three buses overflow it. Six of TileLink's 20 signals stand for the
kinds there are. `EachPortToItsInterface` holds only if the port that ends in the name of the clock and is listed first is the clock
(`AnchorIsClock`): `_derive_prefix` takes the first one, `tx_clock` as well. `CHECK_DEADLOCK FALSE`, because the
pipeline ends.

### ArcWrapper

SystemC is external and modelled as far as the code relies on it: `woken` are the processes of the delta cycle at hand, `new` what has been written to the signals and is seen
after `Update`, `Tick` goes on to the next change of a clock. Clocks that change at one time do so in one
delta cycle, and all of them rise at time 0, as `sc_clock` does by default; the constructor in sim_main.py:149-152 gives no start time.
`pc` is the place of the thread: `wait` for `clock_events`, `first` and `second` for the two `wait(SC_ZERO_TIME)` of
`arc_set_io`. `Wake`, `First` and `Second` are the code between two waits. `view` is `arc_model.view` with the last values of the clocks
(`old`), by which the model finds edges. The design is any one with a register `free` in the domain of its bus, whose `ack` depends on it
alone or on `req` as well (`rtl.mealy`); it may be the slave or the master (`rtl.master`: then its bridge is in `b_transport` between two rises, and
QEMU answers when it likes). `behind` counts rises that its registers have not seen, `lead` transfers that the bridge has counted and it has not. `Assert` and
`Release` are `sc_main`; `sc_start(SC_ZERO_TIME)` ends after the delta cycle in which the clocks rise, so reset is seen by the evaluations of that rise.

Bounds: two clocks of periods 4 and 6, which change at one time and apart, in each phase; reset held for two periods of the slowest (1000 in the code, which only
repeats them). The proofs are for any number of clocks, any periods and any hold. `InStep` excepts a master whose `ack` depends on `req`: when QEMU answers after the fall of the clock nobody
evaluates the model again before the next rise, and `ack` is stale there.

### HWTaint

An instance is its path from the top. A body is the relation `nets` of which source (input of the
module, output of a child) reaches which sink without passing through a child.
`stack` are the activations of the recursive `taintModule`; `FirstSweep`, `AcceptAll`
(external module), `SweepAgain` (the while loop), `LoopEnds`, `VisitChild`, `VisitParent`, `Return`
are its steps, `RemovePorts` is one module of `removeUntaintedPorts`. Children are taken in any order. The checked hierarchy
has seven instances in three levels, a module (`D`) with instances at two levels and two of them in one body, an external
module, and 1296 bodies for the top and the middle module, with feedback through parents and siblings.

*One record for two instances.* `initTaggedModule` looks a child's record up by the path of its parent and the module
(`HWTaint.cpp:159-166`), so two instances of one module in one body share the record of the one that comes first in `uses()`
(`First`). `Record` is that lookup; `Wires`, `Records` and `VisitChild` are what the pass makes of a body with it, while
`Flows` is the body itself. `Stands(r, q)` says that `r` is the path whose record the pass uses for `q`, and `Marked` are the
ports of the design whose tag is set where it is looked for. Marking an instance in the record of another one marks too
much, never too little, except for the component: if the component, or an instance on its path, is not the first of its
module, its tags are in a record that no sweep of the parent reads, and what drives it is removed. `ConeIntact` is
claimed for a component with `SeenComponent` (it stands for itself). With `Component = <<a, e>>`, the second `D` of `A`,
TLC finds `ConeIntact` violated; `test/cosim-gen/hw-taint.mlir:4` says that the pass "removes untainted ports from modules not
connected to the specified subdesign".

*Operations without a result.* The sweeps follow operands backwards from a result (260-286) and results forwards (212-235). What is
written to a memory (`seq.firmem.write_port`) or assigned to a wire (`sv.assign`) leaves no result to follow. `Netlists`
are therefore the flows over operands and results alone, and `Stores` those through such operations; `ConeIntact` asks
for the closure under both and is claimed under `NothingStored`. With a single store from an input of `A` to the component
TLC finds it violated. `InstanceAssumption` of `MCHWTaint` states both hypotheses.

Fairness: the pass is sequential, `WF(Next)`.

### HWOptInterfaces

`drive` are the bodies: for each module a function from sinks (its outputs, the operands of its
registers and instances) to the value that drives them (an input, a register, a result of an instance, a constant). Constants and extracts
are the value they take bits from; every other operation counts as a register, which ends all
paths, because `isMoveableOp` moves nothing else. `step` is the place in `optInterface`:
`unused` (removeUnusedPorts), `outs`, `moveOuts`, `moveIns` (rewireModule), `combineOuts`, `combineIns` (combinePorts), `end`; the places
`unusedInsts`, `rewireInsts` and `combineInsts` are `replaceNodeInsts` on behalf of the three. `pending` is what the loop at hand has not seen,
`unused` the ports with that tag, `todo` and `changed` belong to the loop of `optInterfaces`. `EraseModule` is `cleanup`. Modules, instances and ports are
taken in any order; the code's order is one of them.

`Options` are the three uses in cosim-extract.cpp: `keepPorts` with the modules of the path kept (line 110), the pass after
extraction with kept ports (line 137), and the whole design (line 94). `Source` resolves what drives a sink through all levels of the hierarchy,
step by step (`Way`, of at most `Hops` steps; `NoWireLoop` says that they are enough), and `SameDrivers` compares it in the design at hand with the design the pass was given, at every moment.

Bounds: a top module with two instances of `M`, which has one instance of `N`. Two instances are the least for which a port can move only
if both agree, and three levels let ports become unused above and below the visited module. `MCDesigns` are all 296 designs without a loop of wires and
without feedback that two instances share (`SharedFeedback`: two instances of a module in one body are driven alike at an input, and both ways back lead through the first of them); the run `opt_feedback` takes the others and shows why they are set apart.
Fairness: the pass is sequential, `WF(Next)`.

## 3. Runs

| run | configuration | properties | shows |
|---|---|---|---|
| `tlm2tl` | `MCTLM2TL.cfg` | `TypeOK`, `NoAssertFails`, `LinkQuiet`, `NoStrayBeat`, `RequestHeld`, `ImplementsService`, `CallReturns` | QEMU to RTL: with accesses of part of a word, a word and a burst, b_transport is an atomic-per-beat memory service in front of every cooperative slave, leaves the link quiet, and every call returns. |
| `tl2tlm` | `MCTL2TLM.cfg` | `TypeOK`, `HandshakeIsTaken`, `AnswerIsOwed`, `AnswerHeld`, `ImplementsService`, `MessageFinishes` | RTL to QEMU: whichever clock level QEMU answers at, no handshake is lost or doubled, no answer is withdrawn or repeated, and memory seen through the bridge is consistent although a Put is acknowledged before it is written. The master sends no PutPartial burst (PartialBursts = FALSE), no sub-word PutPartial and leaves an idle cycle behind a burst. |
| `tl2tlm_sub_word_partial` | `TL2TLMSubWordPartial.cfg` | `WriteCoversMask` | **violated.** A PutPartial shorter than a word at an odd lane is written past the bytes its mask enables. |
| `tl2tlm_lost_request` | `TL2TLMLostRequest.cfg` | `MessageFinishes` | **violated.** A request that follows a PutFull burst without an idle cycle is accepted on the wires and never answered. |
| `build` | `MCBuild.cfg` | `TypeOK`, `BuildIsCurrent`, `OneDesign`, `NoNeedlessWork` | After any edit of the design or of the declaration, failed and repeated builds and cleans, two jobs at a time: a build that succeeds leaves every sim binary made from the present sources, never from two designs, and repeats no extraction that is current. |
| `build_frequency` | `BuildFrequency.cfg` | `EditsTakeEffect` | **violated.** A changed freq_mhz changes no prerequisite: the build succeeds and keeps the old clock. |
| `coupled` | `MCCoupled.cfg` | `TypeOK`, `NothingLeft`, `EachNodeHasItsSim`, `SameNumbering`, `RunEnds` | Every run, however it ends, leaves no process and no socket directory; QEMU waits for no socket that nobody serves; both sides number alike if the last edit was built; and a run ends unless a simulation dies before QEMU has connected. |
| `taint` | `MCHWTaint.cfg` | `TypeOK`, `NothingPending`, `ConeIntact`, `Terminates` | For 1296 designs with a module that is instantiated three times, twice in one body, and an external one, and every order of children: the recursion of hw-taint ends, with nothing pending, and what drives the component is marked and survives, if the component is not the second instance of its module in a body and no memory lies in between (InstanceAssumption). |
| `opt_interfaces` | `MCHWOptInterfaces.cfg` | `TypeOK`, `SameDrivers`, `KeptPortsStay`, `WellFormed`, `InputsUsed`, `Terminates` | 296 designs with feedback around and between the instances of a module, three sets of options and tags, every order of modules, instances and ports: after every rewrite each register, output and kept port is driven by what drove it before; the rounds end with no unused input. |
| `opt_feedback` | `HWOptInterfacesFeedback.cfg` | `MovesKeepDesign` | **violated.** Two instances of a module are driven by an output of the first one: the pass moves the connection down and the second instance is then driven by its own output. |
| `wiring` | `MCWiring.cfg` | `TypeOK`, `ClaimsPartition`, `EachPortToItsInterface`, `TopIsComplete`, `SameNumbers` | Every declaration, in every order of its interfaces, on every design: each port goes to the interface that its name fits best and each bridge runs on its own clock if the prefix was taken from the clock, a Top that compiles binds each port once, and the overlay and QemuTLM give every bus and interrupt the same number. |
| `arc_wrapper` | `MCArcWrapper.cfg` | `EveryEdgeOnce`, `InStep`, `ResetReachesEveryDomain` | Two clocks of different periods, which change together and apart, either level of reset, any bus: no edge is missed or taken twice, component and bridge count the same transfers, and every domain has been reset when reset is released. |

## 4. Proofs

| module | theorem | property | establishes |
|---|---|---|---|
| `TLM2TL_proofs` | `AssertionsHold` | `NoAssertFails` | For every bus width, memory and set of lengths, in front of every cooperative slave no assertion of b_transport fails. |
| `TLM2TL_proofs` | `QuietBetweenCalls` | `LinkQuiet` | When no transfer is in progress the RTL has no beat outstanding and the handshake wires are down. |
| `TLM2TL_proofs` | `BeatsBelong` | `NoStrayBeat` | Every beat the RTL accepts belongs to the message in flight. |
| `TLM2TL_proofs` | `RequestStays` | `RequestHeld` | A request stays on channel A until it is accepted. |
| `TLM2TL_proofs` | `Invariance` |  | The inductive invariant that ties the beliefs of the thread (aAcked, dAcked, the loop counter) to the beats exchanged on the link. |
| `TL2TLM_proofs` | `BeatsTaken` | `HandshakeIsTaken` | For every bus width, memory and set of lengths that divide the bus width or are divided by it: wherever the answer of QEMU puts the thread, it takes a beat exactly when there is a handshake, as long as the master sends no PutPartial burst, QEMU answers OK and a burst is followed by an idle cycle. |
| `TL2TLM_proofs` | `AnswersOwed` | `AnswerIsOwed` | Under the same assumptions every answer is of the kind and size the master is owed, for a message whose first beat it has delivered. |
| `TL2TLM_proofs` | `AnswersHeld` | `AnswerHeld` | Under the same assumptions no answer is withdrawn or changed before it is taken. |
| `TLM2TL_proofs` | `DataInvariance` |  | The inductive invariant of the data: which bytes of the call the thread, the wires and the memory hold at each of its places. |
| `TLM2TL_proofs` | `TypeCorrect` | `TypeOK` | Type correctness, data included: every access the slave makes stays inside the memory. |
| `TLM2TL_proofs` | `Refinement` | `ImplementsService` | For every bus width, memory and set of lengths: a call of b_transport reads or writes exactly its bytes, each beat being a read or a write of the memory service or a stutter. |
| `TL2TLM_proofs` | `DataInvariance` |  | The inductive invariant of the data, under the hypotheses of Refinement: which bytes the bridge has fetched, holds back, presents and has stored. |
| `TL2TLM_proofs` | `TypeCorrect` | `TypeOK` | Type correctness, data included, under the hypotheses of Refinement: every transaction of the bridge stays inside the memory. |
| `TL2TLM_proofs` | `WritesCoverMask` |  | Without masks smaller than a word, what the bridge writes for a beat is what its mask selects. |
| `TL2TLM_proofs` | `Refinement` | `ImplementsService` | For every bus width, memory and set of lengths, if the master sends no PutPartial burst (which the code accepts and stores wrongly), no PutPartial shorter than a word and no message right behind a burst, and QEMU answers OK: a message reads or writes exactly its bytes. |
| `Build_proofs` | `TypeCorrect` | `TypeOK` | Type correctness for every number of edits, jobs and failures; what codegen writes for all backends never holds a version of the registers. |
| `Build_proofs` | `NeedlessNever` | `NoNeedlessWork` | Whatever is edited and whatever fails, for any number of edits, jobs and failures: an extraction that is current is not repeated. |
| `Build_proofs` | `Bookkeeping` |  | The first inductive invariant: a current output of an extraction was made from the present design and config.mk, and nothing was written since that would have it made again. |
| `Build_proofs` | `UpToDate` |  | The second inductive invariant: what is in time and has sound prerequisites is sound, together with what recipes have read and codegen has still to write. |
| `Build_proofs` | `Currency` | `BuildIsCurrent` | For any number of edits, jobs and failures: a build that succeeds leaves every sim binary made from the present sources, when no frequency is edited and codegen does not stop between two files. |
| `Build_proofs` | `OneDesignEach` | `OneDesign` | Under the same conditions no sim binary ever mixes two versions of a source. |
| `Coupled_proofs` | `Invariance` |  | The inductive invariant of a run: who owns which process, socket directory and device tree, at each place of run(). |
| `Coupled_proofs` | `Cleanup` | `NothingLeft` | For any number of components, failures and interrupts in the try block: no process, no QEMU and no directory outlives its run. |
| `Coupled_proofs` | `Served` | `EachNodeHasItsSim` | The nodes QEMU waits for are exactly those a simulation was started for. |
| `Coupled_proofs` | `Numbering` | `SameNumbering` | In a run whose last edit was built, tree and simulation number the interfaces of every component in the same way. |
| `Coupled_proofs` | `TypeCorrect` | `TypeOK` | Type correctness for any components, edits, failures and interrupts. |
| `HWTaint_proofs` | `Invariance` |  | For every hierarchy (instances of one module in one body share the first one's record, as in the code), netlist and order of children: every pending record is in the hands of a call on the stack, and every wire, as the pass sees it, that is not closed will be seen by one. |
| `HWTaint_proofs` | `NothingIsPending` | `NothingPending` | The assertions of taintModule and removeUntaintedPorts hold for every hierarchy, with shared records, netlist and order of children. |
| `HWTaint_proofs` | `ConeSurvives` | `ConeIntact` | If no instance on the path of the component has an earlier one of its module beside it (SeenComponent) and nothing passes through operations without a result (NothingStored): the marks contain everything that drives the component, through any number of modules, also through instances that share a record, and no marked port is removed. |
| `HWTaint_proofs` | `TypeCorrect` | `TypeOK` | Type correctness for every hierarchy, with shared records, netlist and order of children. |
| `HWOptInterfaces_proofs` | `Invariance` |  | The strengthened invariant: as long as a round has changed nothing, every module it is through with is clean, and the rewrites have picked no kept port. |
| `HWOptInterfaces_proofs` | `TypeCorrect` | `TypeOK` | Type correctness for every hierarchy, design, choice of tags and order of modules. |
| `HWOptInterfaces_proofs` | `KeptPortsSurvive` | `KeptPortsStay` | For every design: no rewrite of the pass removes a port that is tagged keep. |
| `HWOptInterfaces_proofs` | `NoUnusedInput` | `InputsUsed` | For every design and every order of modules: when the rounds end, no input without a tag is unused. |
| `HWOptInterfaces_proofs` | `DrivenInvariance` |  | The second invariant: there are paths to every module that is left on which every sink has a value that leads to what drove it, nearer to the end with each hop. |
| `HWOptInterfaces_proofs` | `AlwaysWellFormed` | `WellFormed` | For every design without a wire loop and without feedback shared by instances: ports, operands and results agree after every step, and nothing refers to what is gone. |
| `HWOptInterfaces_proofs` | `DriversStay` | `SameDrivers` | For every such design, of any depth: no step of the pass changes what a register, an output of the design or a kept port is driven by. |
| `Wiring_proofs` | `TypeCorrect` | `TypeOK` | Whatever is declared for whatever design: the ports that are taken are ports of the design, and an interface is pending or has its ports. |
| `Wiring_proofs` | `TopElaborates` | `TopIsComplete` | For every declaration and design: a Top that compiles binds each port once and nothing twice, and a wire in its own direction; a bus resolved again from its own ports is the same. |
| `Wiring_proofs` | `PortsFitInterfaces` | `EachPortToItsInterface` | For every design and every declaration whose names keep apart, in any order: each port is with the interface that fits it best, a bridge runs on the clock its bus names, and an interface that finds no port is a wire that another wire covers. |
| `Wiring_proofs` | `PortsPartitioned` | `ClaimsPartition` | Whatever is declared for whatever design: a port is in the pool of PortMatcher or with exactly one interface. |
| `Wiring_proofs` | `CoupledNumbersAgree` | `SameNumbers` | For every set of declarations, designs and device trees and every size of the window: what the overlay and sim.cpp number independently of each other agrees, for buses, register windows, interrupt cells and gpio. |
| `ArcWrapper_proofs` | `EdgesSeenOnce` | `EveryEdgeOnce` | For any number of clocks of any periods: the registers of each domain step once at each rise before time goes on, and the variables keep their types. |
| `ArcWrapper_proofs` | `BridgeInStep` | `InStep` | For any clocks and a bus on any of them: component and bridge count the same transfers and the wires show the last outputs. |
| `ArcWrapper_proofs` | `EveryDomainReset` | `ResetReachesEveryDomain` | For any clocks, either level and any length of reset: no domain leaves it before its registers were reset. |

Three kinds of results stay with TLC, because TLAPS has no means for them: liveness
under fairness, induction over data (what a recursive definition computes for every input), and RECURSIVE
operators. No module that is proved about uses the last one.

*TLM2TL* (`ASSUME CooperativeOnly`). None of the properties is inductive: whether `sc_assert(!aAcked)`
holds depends on how many beats the slave has taken. `IInv` adds, for every place of the thread, how the
thread's beliefs relate to the link: `Writing` (in the write loop the slave has taken `beat` beats, plus one
if `aAcked`), `AwaitingAck`, `Reading` (`sent = beat`, plus one if `dAcked`), `AwaitingAccept`, together with `LinkQuiet` between calls.
One lemma per action shows that it is kept; the actions of the slave are not analysed one by
one, but through the few facts about `Slave` that the bridge relies on.
`DInv` adds the bytes: `Progress` says which bytes of the message are through, `Words` what is on the wires, `Data_Typing` the types.
With it `TypeOK` and `ImplementsService` hold: a beat the slave takes or gives is one step of `MemService` or a part of an access
that shows when the last of it is through, everything else is a stutter. These three theorems also need `Fitting` (of a length and the bus
width one divides the other); that 2^k has it is an induction over k, which TLAPS cannot do, so it is a hypothesis.

*TL2TLM* (`~BackToBack`, `~PartialBursts`, `Responses \subseteq {"OK"}` and `Fitting`: of a length and the bus width, one divides the other, as powers of two do).
The theorems are about the same masters and answers as the run `tl2tlm`; without the idle cycle `BeatsTaken` is false, as `tl2tlm_lost_request` shows, and with PutPartial bursts the theorems
on handshakes, answers and memory are (section on the bridges): the code accepts such a burst and corrupts memory.
`Idle`, `Getting` and `Putting` say for every wait of `processReq` which of the answers and beats of the message the master has counted (`Serves`), `Fresh` that
at the head of the loop a message in flight is either over or untouched: so a request found there is a new one, although the master may not yet have noticed the end of the last.
The one case in which a message ends before the bridge is through with its burst (the early acknowledgement is taken first) needs the idle cycle, `pause`, to reach the
last edge of the burst. `LegalSupported` shows that no legal message fails an `sc_assert`. `MasterEdge` says once what an edge does to the master, whatever the bridge does in it.
For the bytes, `DInv` ties the request to the message (`Presented`), the data array to the beats taken (`Round`) and to what QEMU gave (`Fetched`). A burst is acknowledged before
QEMU has it, so the refinement of `MemService` looks at QEMU's memory with the bytes held back put over it: a Put becomes visible beat by beat as the bridge takes it, and handing it
to QEMU is a stutter. Lanes and words are a layout of their own (`BeatOf`, `Before`: each beat moves offsets of its own, together they move all of them). `WritesCoverMask`, the refinement and `TypeOK`
also need `~SubWordPartials`; `tl2tlm_sub_word_partial` shows that the first is false without.

*Build*. `TypeOK` also says that sim.cpp and the wrapper hold no version of the registers, so that an edit of the logic alone lets
write-if-changed leave them as they are (`NoLayoutKept`). `TInv` holds of every build, with any number of edits, jobs and failures: make's own state agrees with the files (`Phases`), nothing is ahead of the sources (`Dated`), and a current output of an
extraction was made from the present design and config.mk, neither of which is newer (`Extractions`); so it is not made again (`NeedlessNever`).
`CInv` is why make may trust a time stamp: a target none of whose prerequisites is newer, and all of whose prerequisites are `Sound`, is sound (`Trusted`), what a running recipe has
read is what it will be held to (`ReadWell`), and the wrapper header, which is nobody's target, comes with `gen-arc-<name>.cpp` (`Companion`).
That the prerequisites are sound when a rule is reached goes along the order of the rules (`Prepared`): each has what feeds it behind it.
`CInv` has two hypotheses (`Told`): no clock's frequency is edited, which no prerequisite tells (the finding of `build_frequency`), and codegen does not fail between two
files. Both are what the makefiles do not ensure; without either, `BuildIsCurrent` or `OneDesign` is false.

*Coupled*. `Ownership` says which processes, directories and tree belong to the run at each place of `run()`:
`Owned` (a live process is in `procs` or about to be), `Quiet`, `QemuPlaced`, `TreeOfRun`. `Cleanup` and `Served` need
no assumption beyond those on the constants, for any set of names and any number of edits and failures;
`Numbering` is about runs whose last edit was built (`current`): `Agreement` says that what is current is what cosim.json
declares, and that a tree is made from it. After an edit without a build the tree is newer than the simulation, although README.md:360-362 of cosim-gen-cli
says that such an edit takes effect at once; the model has these runs.

*Wiring*. `Claims` is the type invariant with the partition of the ports: `ResolveInPool` says that an interface takes ports of the pool only, and
`consume` removes them. For `SameNumbers`, `Written` keeps what each step has put down equal to what its definition says of the claims, which no later step changes; `Known` and
`AllResolved` say that the interfaces are the declared ones and all of them have their ports. Then it is arithmetic on finite sets: of two places in a list
the one in front has the smaller number (`Fewer`, `BusPlaces`), and as many interrupts as cells put every gpio behind them (`WiresAgree`).
`TopElaborates` is about sim.cpp alone. Codegen resolves each bus a second time, with the ports the first time has given it: `BusAgain` says that it finds the same ones, because two signals of a
bus are not spelled alike (`SignalsApart`); so every port is bound once (`BoundOnce`, `BoundApart`) and the wires are numbered without a gap (`WireNumbers`, `WireCount`).
Names are sequences of words; no backend knows that a string literal is in STRING, so `Words` is STRING with the words of the code.
The theorems hold for every set of declarations, designs and trees and every window.

`PortsFitInterfaces` has a hypothesis on the names of the declaration, `Plain`, which the state predicate `EachPortToItsInterface` needs because PortMatcher compares
whole names and a reader of cosim.json those inside the component: the names begin no port of the boundary or of another instance (`OneInstance`: an interface called like the instance would take
all of it), and clocks, resets and buses share no port, no bus spells a signal twice, and a wire has a port of its own (`Disjoint`: a gpio called like the clock never resolves).
Every component of the run that gets as far as its ports satisfies it. Then, if the prefix is taken from the clock, it is the name of the instance (`PrefixIsInstance`), and what an
interface takes is what it means of the ports that are left (`MatchMeant`, `BusSpelled`, from the lemmas about names that begin alike). `Fitted` is the invariant:
the resolved interfaces have what they mean and left nothing of it, they come before the pending ones, and whoever else means a claimed port is either less close or a wire
that will find nothing. The last part is what makes it inductive: a wide interrupt prefix takes the ports of a narrower one before that one fails (`Covers`).
Without a port for the first clock nothing is claimed at all (`ClockMissing`).

*ArcWrapper*. That no edge is lost is a matter of where the thread stands: `Clocking` says that it waits for clocks only with nothing left to take, that
no clock changes while it is in one of its waits, and that a rise is owed exactly if the clock is high and was low at the last evaluation. `Resetting` follows reset through the first
delta cycles. For `InStep`, `Counting` says who has counted the transfer of a rise: the bridge does in the delta cycle of the rise (`Present`), the component in the next one, with
inputs it has read in the former; `Showing` says which outputs are on the wires then. The theorems hold for all clocks, periods and phases.

*HWTaint*. The recursion visits a child once after its own loop, and a call higher up may make ports pending again, so it is
not obvious that nothing is left. `Pending` is the argument: a pending port is in the hands of
a call on the stack (`Scheduled`: its instance is a child that a caller still has in `todo`, or the instance a call works on;
`PassedOn`: or a parent a call will go on to), and a wire whose source is unmarked although its sink is marked
is owed by a pending sink or by a first sweep that has not happened (`Owed`). When the stack is empty, both say
that the tags are closed under what the pass sees (`Wires`). `Invariance`, `NothingIsPending` and `TypeCorrect` hold for every
hierarchy, every netlist and every order of the children; `HierarchyAssumption` only says that the paths form a tree,
that instances of one module have the same children, and that instances of one module in one body share a record of their module.
`ConeSurvives` is about the design and not about what the pass sees of it, and needs `SeenComponent` and `NothingStored`: a wire of a
body whose sink is marked has an image in the body of the path that stands for it (`ImageFacts`, `SeenMark`), which the
sweeps have closed, and what they tagged there stands for the wire's source (`ChildStands`, `ParentStands`).

*HWOptInterfaces*. A visit may make inputs of any module unused, so `InputsUsed` needs a reason why the last round has seen
them all. `Visited` is it: as long as a round is not `Dirty` (has changed nothing and is not about to) every module it is through with is `Clean`.
That a step which alters a body makes the round dirty is the lemma of each rewrite; with nothing to move or combine it leaves
the bodies as they are. `NoneKept` says that the rewrites pick no kept port, `Functional` and `Places` that bodies are functions and that the
sets of a loop are empty outside of it. The lemmas `Restricting`, `Mapping` and `Updating` say once what an update does to the ports.
The theorems hold for every hierarchy, every set of designs and tags (`DesignsAssumption`: bodies are what the verifier of CIRCT accepts, tags name ports) and every order.

`WellFormed` and `SameDrivers` need more, and need each other: that a moved value refers to a port that is still there depends on
its not being the port that moves, which is a matter of what drives what. `Driven` is the second invariant. `Whole` is well-formedness with the dummies of
`keepPorts` (a value never refers to a port tagged unused), `Moving` what the loops of `rewireModule` have done so far, `Tags` that outputs of the
design and kept ports are never tagged. `Good` is about the ways back. No path can be followed through bodies that
change, so it is local: each sink on a path of `C` has a value whose `Label`, what drives it in the design the pass
was given, is that of the sink's first value, and a cost, of which `W` tells the number of hops and the paths the way leads through; the sinks a value refers to have a smaller cost (`Linked`).
The first costs are those of the given design (`Cost`), so every way ends after `Hops` hops, and `WholeWay` reads `SameDrivers` off the labels.
A value that moves takes the place of one that referred to it: the label stays and the cost shrinks (`PassedOn` for outputs; `SeenInside` for inputs, where the value
must do for all instances: that it does not lead through the first one for another is what `~SharedFeedback` says). Combining equal ports keeps the labels but not the costs: `Levelled` first gives
sinks of equal values equal costs. Instances that go take their paths with them: `StillPlaced` finds a set of paths that still reaches each module, by the argument that no module is above itself.
The hypotheses (`Sound`): no design has a wire loop, none has shared feedback (without which the run `opt_feedback` shows the pass to be wrong), and each module but the top has an instance,
because `NoWireLoop` says nothing of a body that is on no path.

Only model-checked: the liveness properties `CallReturns`, `MessageFinishes`, `RunEnds` and `Terminates`, which rest on fairness and ENABLED, and `EachPortToItsInterface` for declarations that are not `Plain`.

## 5. Findings

* `cosim-gen-cli/include/TL2TLMBridge.h:180` (bug, run `tl2tlm_sub_word_partial`): The write of a PutPartial goes to address + byte_shift, where byte_shift is the number of the lowest enabled lane of the bus word: for an address that is not at the start of its word (a PutPartial of one byte at address 1 of a two-byte bus) the lane offset is counted twice. cosim-gen-cli/include/tilelink.h:84 says of a_mask: "w: buswidth/8", one bit per lane of the bus word, and line 140 of tilelink.h again: "a: address size (aligned to a_size)" of the address the lanes are relative to.
* `cosim-gen-cli/include/TL2TLMBridge.h:144` (bug, run `tl2tlm_lost_request`): The answer to a PutFull burst is offered with its first beat. When the master takes it before the last beat, line 144 skips the wait, and a_ready, lowered only in line 155, is still up in the cycle after the last beat: a request presented there is accepted on the wires and the bridge never reads it. cosim-gen-cli/include/tilelink.h:7-11 promises an answer to each: "TILELINK_OPCODE_AB_PUT_FULL_DATA = 0,    // -> AccessAck", "TILELINK_OPCODE_AB_GET = 4,              // -> AccessAckData".
* `cosim-gen-cli/cosim/project.py:182` (documentation and code differ, run `build_frequency`): config.mk does not hold freq_mhz and sim.cpp does not depend on cosim.json (component.mk:96), so a changed freq_mhz makes nothing out of date. cosim-gen-cli/cosim/project.py:156-158 says config.mk is "regenerated every `cosim build`, so cosim.json edits (a moved --path, a new bus, a different freq_mhz) always take effect".
* `cosim-gen-circt/lib/cosimGen/HWOptInterfaces.cpp:302` (bug, run `opt_feedback`): areEquivalentVals returns true as soon as two instances are driven by the same value, also when that value is an output of the first one. rewireModule then moves the connection into the module as "my own output": the second instance, driven by the first one before, now feeds itself (M.i = M.o, a.i = a.o, b.i = a.o becomes b.i = b.o). HWOptInterfaces.cpp:319-325 names the case that is meant, "/* Same inst uturn */", and asks in it that each instance is driven by itself: "(instL == lhsTgt) && (instR == rhsTgt)".

## 6. Not modelled

* **Extraction pipeline (driver)**: A fixed order of passes; each pass is modelled by its own module first.
* **Combinational marking and moving (HWMarkComb, HWMoveCombUp, HWSubGraph)**: Not on the path of cosim-extract.
* **Small passes**: Local rewrites without a fixpoint; HWDme could be had with the module hierarchy of HWTaint.
* **cosim build: make rules and codegen** is modelled in part: project.build, the rules of firtool.mk and component.mk for one unit and both backends, write-if-changed, codegen/main.py emit, failed recipes, cosim clean. Not modelled: several units (they share only the lowered design), libsystemctlm, the whole-design unit, hand-owned sim.cpp, editing during a build, extra sources, the text that codegen writes.
* **Interface optimisation (HWOptInterfaces, HWOpt)** is modelled in part: The rounds of optInterfaces, optInterface with removeUnusedPorts, rewireModule and combinePorts, updateNode with and without keepPorts, eraseUnused, cleanup. The tags of hw-keep-path and hw-prop-ports-to-tlm are an input of the pass. Not modelled: folding (tryConstFold), gates and concatenations of several values, memories whose users are kept with them, black boxes (optInterface skips them).
* **QemuTLM: remote-port sockets** is modelled in part: The index space (device numbers, sizes of the windows, wires) is in Wiring. The remote-port protocol is in a submodule that is not part of src/.
* **Arcilator SystemC wrapper and generated main** is modelled in part: The thread eval with its two waits and evaluations, the port lists of the generated readInputs and writeOutputs, the clocks and the reset sequence of sc_main, with a bridge on one of the clocks. Not modelled: the wrapper that Verilator generates, tracing, the bound on the number of cycles; the bindings of Top are in Wiring.
* **Configuration and toolchain** is modelled in part: Component.load, Component.io_regex and Component.clock with all their errors, and the reading of the state json, are in Interfaces and Wiring. Not modelled: the other keys of cosim.json, the search for tools and the commands that write cosim.json (add, remove, genconfig), which are sequential code without state.
* **Port propagation (HWPropPorts2TLM)** is modelled in part: Only the regex of its port list and what it leaves of the ports are modelled, in Interfaces. The recursive insertion of ports up to the top module is left, on the netlist of HWOptInterfaces.

## 7. Plan

Order of the work, most important behaviour first; 1 to 8 are done.

1. `TLM2TL` against `MemService`, proved.
2. `TL2TLM` against `MemService`, proved.
3. `Build`: staleness, failures, concurrent recipes, proved.
4. `Coupled`: runs and manifest, proved.
5. `HWTaint`, proved.
6. `HWOptInterfaces`: rewriting keeps, for every instance, what drives its registers, proved.
7. `Interfaces` and `Wiring`: claims of `PortMatcher`, bindings, equal numbers on both sides, proved.
8. `ArcWrapper`: delta cycles and reset, proved.
9. `HWPropPorts2TLM` on the netlist of 6: each top-level port is wired to the instance its name tells, also with two
   instances of the component; then the composition with the passes before and after it (the path resolves, kept ports reach the top).
10. The commands that write cosim.json, as a workspace whose `cosim.json` and generated files every command leaves consistent.
11. `HWDme`, `HWMarkComb`, `HWMoveCombUp` and `HWInlineTrivial`.

Abstract specifications worth stating besides `MemService`: the resolved netlist (what drives a register through any number
of modules), which `SameDrivers` states as an invariant, as a specification that 6 and 9 implement.
Theorem worth proving next: that the steps of `HWOptInterfaces` implement the resolved netlist.
