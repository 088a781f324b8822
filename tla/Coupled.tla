------------------------------ MODULE Coupled ------------------------------
(***************************************************************************)
(* `cosim run`: project.py's run() and _run_coupled().  A run generates the *)
(* device tree of the components it couples, starts one simulation process *)
(* per component and then QEMU, which waits for a connection from each     *)
(* node of its tree, and cleans up however the run ends.                   *)
(*                                                                         *)
(* A component's declaration is abstracted to whether cosim.json declares  *)
(* it with an interface that needs QEMU ("coupled"), without ("plain") or  *)
(* not at all ("undeclared"), and to a version, which stands for the       *)
(* numbers of its buses and wires.                                         *)
(***************************************************************************)
EXTENDS FiniteSets, Integers

CONSTANTS Names,        \* names of components
          None,         \* no value: not built, no manifest
          MaxEdits,     \* bound: edits of cosim.json
          MaxFailures   \* bound: processes that fail and interrupts

ASSUME CoupledAssumption ==
  /\ None \notin Nat
  /\ MaxEdits \in Nat /\ MaxFailures \in Nat

VARIABLES kind,      \* cosim.json: kind of each component
          version,   \* cosim.json: version of each component's interfaces
          built,     \* version its simulation and state json are made from
          current,   \* cosim.json was built since its last edit
          manifest,  \* build/cosim_components.json: a set of names, or None
          pc,        \* where run() is: idle, dtb, spawn, qemu, stop, reap
          comps,     \* comp_names
          tree,      \* the nodes of cosim.dtb: name -> version, or None
          procs,     \* Popen objects not waited for
          signalled, \* those whose group got SIGTERM
          sim,       \* simulation process of each component: off, up, failed, ended
          qemu,      \* QEMU: off, waiting, running
          dir,       \* does machine_path exist?
          failures   \* processes that failed

config == <<kind, version, built, current, manifest>>
processes == <<procs, signalled, sim, qemu>>
vars == <<kind, version, built, current, manifest, pc, comps, tree, procs,
          signalled, sim, qemu, dir, failures>>

Declared == {n \in Names : kind[n] # "undeclared"}

Init ==
  /\ kind \in [Names -> {"coupled", "plain"}]
  /\ version = [n \in Names |-> 0]
  /\ built = [n \in Names |-> None]
  /\ current = FALSE
  /\ manifest = None
  /\ pc = "idle" /\ comps = {}
  /\ tree = [n \in Names |-> None]
  /\ procs = {} /\ signalled = {}
  /\ sim = [n \in Names |-> "off"]
  /\ qemu = "off" /\ dir = FALSE
  /\ failures = 0

----------------------------------------------------------------------------
(* Between two runs. *)

NoRun == pc = "idle" /\ UNCHANGED <<pc, comps, tree, procs, signalled, sim, qemu, dir>>

Edit(n, k) ==
  /\ NoRun /\ version[n] < MaxEdits
  /\ kind' = [kind EXCEPT ![n] = k]
  /\ version' = [version EXCEPT ![n] = @ + 1]
  /\ current' = FALSE
  /\ UNCHANGED <<built, manifest, failures>>

\* Mutant: the manifest nests its list.
WriteManifestNested ==
  LET overlay == {n \in Names : kind[n] = "coupled"} IN
  manifest' = IF overlay # {} THEN {overlay} ELSE manifest

\* project.build, with a base device tree: the manifest comes before make.
WriteManifest ==
  LET overlay == {n \in Names : kind[n] = "coupled"} IN
  manifest' = IF overlay # {} THEN overlay ELSE manifest

\* Mutant: a simulation that exists is taken for current.
BuiltOnce(names) ==
  [n \in Names |-> IF n \in names /\ built[n] = None THEN version[n] ELSE built[n]]

\* make, and the state json that the tree is made from.
Built(names) == [n \in Names |-> IF n \in names THEN version[n] ELSE built[n]]

Build ==
  /\ NoRun /\ WriteManifest
  /\ built' = Built(Declared) /\ current' = TRUE
  /\ UNCHANGED <<kind, version, failures>>

BuildFails ==
  /\ NoRun /\ WriteManifest
  /\ failures < MaxFailures /\ failures' = failures + 1
  /\ \E done \in SUBSET Declared : built' = Built(done)
  /\ UNCHANGED <<kind, version, current>>

Clean ==
  /\ NoRun
  /\ built' = [n \in Names |-> None] /\ manifest' = None /\ current' = FALSE
  /\ UNCHANGED <<kind, version, failures>>

----------------------------------------------------------------------------
(* run(). *)

Choose(names) ==
  /\ pc = "idle"
  /\ comps' = names /\ pc' = "dtb"
  /\ UNCHANGED <<config, tree, processes, dir, failures>>

\* `cosim run`: the components of the manifest.
RunCosim == manifest # None /\ Choose(manifest)

\* `cosim run qemu <name>...`: it classifies the ports of what was built.
RunQemu(names) ==
  /\ names # {}
  /\ \A n \in names : kind[n] = "coupled" /\ built[n] # None
  /\ Choose(names)

\* Mutant: the tree of all coupled components.
NodesOfAll(names) == [n \in Names |-> IF kind[n] = "coupled" THEN version[n] ELSE None]

\* The nodes of the tree of this run.
Nodes(names) == [n \in Names |-> IF n \in names THEN version[n] ELSE None]

\* _gen_dtb reads every component's declaration and state json, and calls dtc.
GenDtb ==
  /\ pc = "dtb" /\ \A n \in comps : n \in Declared /\ built[n] # None
  /\ tree' = Nodes(comps)
  /\ pc' = "spawn" /\ dir' = TRUE
  /\ UNCHANGED <<config, comps, processes, failures>>

GenDtbFails ==
  /\ pc = "dtb"
  /\ \/ /\ \E n \in comps : n \notin Declared \/ built[n] = None
        /\ UNCHANGED failures
     \/ failures < MaxFailures /\ failures' = failures + 1
  /\ pc' = "idle" /\ comps' = {}
  /\ UNCHANGED <<config, tree, processes, dir>>

Spawn(n) ==
  /\ pc = "spawn" /\ n \in comps \ procs
  /\ procs' = procs \cup {n}
  /\ sim' = [sim EXCEPT ![n] = "up"]
  /\ UNCHANGED <<config, pc, comps, tree, signalled, qemu, dir, failures>>

\* A process cannot be started, or the user interrupts: on to the finally clause.
SpawnFails ==
  /\ pc = "spawn" /\ pc' = "stop"
  /\ failures < MaxFailures /\ failures' = failures + 1
  /\ UNCHANGED <<config, comps, tree, processes, dir>>

\* Mutant: QEMU is started beside the simulations.
AllSpawned(started) == TRUE

AllStarted(started) == comps \subseteq started

StartQemu ==
  /\ pc = "spawn" /\ AllStarted(procs)
  /\ pc' = "qemu" /\ qemu' = "waiting"
  /\ UNCHANGED <<config, comps, tree, procs, signalled, sim, dir, failures>>

\* Every node of the tree has its connection.
Connect ==
  /\ qemu = "waiting" /\ \A n \in Names : tree[n] # None => sim[n] = "up"
  /\ qemu' = "running"
  /\ UNCHANGED <<config, pc, comps, tree, procs, signalled, sim, dir, failures>>

\* A simulation reaches max_cycles.
SimEnds(n) ==
  /\ qemu = "running" /\ sim[n] = "up"
  /\ sim' = [sim EXCEPT ![n] = "ended"]
  /\ UNCHANGED <<config, pc, comps, tree, procs, signalled, qemu, dir, failures>>

\* make finds no simulation to run and none to build, or it crashes.
SimFails(n) ==
  /\ sim[n] = "up" /\ qemu # "running"
  /\ failures < MaxFailures /\ failures' = failures + 1
  /\ sim' = [sim EXCEPT ![n] = "failed"]
  /\ UNCHANGED <<config, pc, comps, tree, procs, signalled, qemu, dir>>

\* The guest powers off: _run returns.
QemuEnds ==
  /\ qemu = "running"
  /\ qemu' = "off" /\ pc' = "stop"
  /\ UNCHANGED <<config, comps, tree, procs, signalled, sim, dir, failures>>

\* QEMU crashes, or the user interrupts it: _run raises.
QemuFails ==
  /\ qemu # "off"
  /\ failures < MaxFailures /\ failures' = failures + 1
  /\ qemu' = "off" /\ pc' = "stop"
  /\ UNCHANGED <<config, comps, tree, procs, signalled, sim, dir>>

\* The first loop of the finally clause.
Signal(n) ==
  /\ pc = "stop" /\ n \in procs \ signalled
  /\ signalled' = signalled \cup {n}
  /\ UNCHANGED <<config, pc, comps, tree, procs, sim, qemu, dir, failures>>

EndSignals ==
  /\ pc = "stop" /\ procs \subseteq signalled
  /\ pc' = "reap"
  /\ UNCHANGED <<config, comps, tree, processes, dir, failures>>

\* A signalled process group ends.
SimStops(n) ==
  /\ n \in signalled /\ sim[n] = "up"
  /\ sim' = [sim EXCEPT ![n] = "ended"]
  /\ UNCHANGED <<config, pc, comps, tree, procs, signalled, qemu, dir, failures>>

\* The second loop: p.wait().
Wait(n) ==
  /\ pc = "reap" /\ n \in procs /\ sim[n] # "up"
  /\ procs' = procs \ {n}
  /\ UNCHANGED <<config, pc, comps, tree, signalled, sim, qemu, dir, failures>>

\* Mutant: the directory goes and the run ends after the signals.
AllSignalled(waiting) == TRUE

AllReaped(waiting) == waiting = {}

EndRun ==
  /\ pc = "reap" /\ AllReaped(procs)
  /\ pc' = "idle" /\ dir' = FALSE /\ comps' = {} /\ signalled' = {}
  /\ tree' = [n \in Names |-> None]
  /\ UNCHANGED <<config, procs, sim, qemu, failures>>

Next == \/ \E n \in Names, k \in {"coupled", "plain", "undeclared"} : Edit(n, k)
        \/ Build \/ BuildFails \/ Clean
        \/ RunCosim \/ \E names \in SUBSET Names : RunQemu(names)
        \/ GenDtb \/ GenDtbFails \/ SpawnFails \/ StartQemu \/ Connect
        \/ QemuEnds \/ QemuFails \/ EndSignals \/ EndRun
        \/ \E n \in Names : \/ Spawn(n) \/ SimEnds(n) \/ SimFails(n)
                            \/ Signal(n) \/ SimStops(n) \/ Wait(n)

\* run() goes on by itself, processes get to run, a guest ends, and a process
\* group ends after SIGTERM.
Fairness ==
  /\ WF_vars(GenDtb) /\ WF_vars(StartQemu) /\ WF_vars(EndSignals) /\ WF_vars(EndRun)
  /\ WF_vars(Connect) /\ WF_vars(QemuEnds)
  /\ \A n \in Names : WF_vars(Spawn(n)) /\ WF_vars(Signal(n))
                      /\ WF_vars(SimStops(n)) /\ WF_vars(Wait(n))

Spec == Init /\ [][Next]_vars /\ Fairness

----------------------------------------------------------------------------
TypeOK ==
  /\ kind \in [Names -> {"coupled", "plain", "undeclared"}]
  /\ version \in [Names -> 0..MaxEdits]
  /\ built \in [Names -> (0..MaxEdits) \cup {None}]
  /\ current \in BOOLEAN
  /\ manifest = None \/ manifest \subseteq Names
  /\ pc \in {"idle", "dtb", "spawn", "qemu", "stop", "reap"}
  /\ comps \subseteq Names
  /\ tree \in [Names -> (0..MaxEdits) \cup {None}]
  /\ procs \subseteq Names /\ signalled \subseteq Names
  /\ sim \in [Names -> {"off", "up", "failed", "ended"}]
  /\ qemu \in {"off", "waiting", "running"}
  /\ dir \in BOOLEAN
  /\ failures \in 0..MaxFailures

\* However a run ends, by the guest, a failed process or the user, no simulation
\* process, no QEMU and no socket directory outlives it.
NothingLeft ==
  pc = "idle" => /\ \A n \in Names : sim[n] # "up"
                 /\ procs = {} /\ qemu = "off" /\ ~dir

\* While QEMU runs or waits, each node of its tree has a process started for it,
\* and each process a node: no socket is waited for in vain.
EachNodeHasItsSim ==
  qemu # "off" => {n \in Names : tree[n] # None} = procs

\* Both sides of a connection number the buses and wires in the same way, if the
\* last edit was built.  If not, they do not: the tree is made from the new
\* cosim.json, and run-coupled starts the old simulation.
SameNumbering ==
  qemu = "running" /\ current => \A n \in Names : tree[n] # None => tree[n] = built[n]

\* A run that couples ends, unless a simulation dies before QEMU has connected
\* to it: nothing watches the simulations then.
RunEnds ==
  pc = "qemu" ~> (pc = "idle" \/ (qemu = "waiting" /\ \E n \in procs : sim[n] = "failed"))

=============================================================================
