--------------------------- MODULE Coupled_proofs ---------------------------
(***************************************************************************)
(* Whatever the components, and however many processes fail: a run leaves  *)
(* nothing behind, QEMU waits for no socket that nobody serves, and, when   *)
(* every edit is built before it is run, both sides of a connection agree. *)
(***************************************************************************)
EXTENDS Coupled, TLAPS

----------------------------------------------------------------------------
(* The inductive invariant: who owns which process, and when. *)

\* Every simulation that is up belongs to a Popen that is not waited for yet.
Owned == \A n \in Names : sim[n] = "up" => n \in procs

\* Before and after the processes of a run there is nothing.
Quiet ==
  pc \in {"idle", "dtb"} =>
    procs = {} /\ signalled = {} /\ ~dir /\ tree = [n \in Names |-> None]

\* QEMU belongs to one place of run().
QemuPlaced == qemu # "off" => pc = "qemu"

\* The tree is the one of the components that are started.
TreeOfRun ==
  pc \in {"spawn", "qemu"} =>
    /\ {n \in Names : tree[n] # None} = comps
    /\ procs \subseteq comps
    /\ pc = "qemu" => procs = comps

Ownership == Owned /\ Quiet /\ QemuPlaced /\ TreeOfRun

IInv == TypeOK /\ Ownership

----------------------------------------------------------------------------
(* Types. *)

LEMMA NoValues == [n \in Names |-> None] \in [Names -> (0..MaxEdits) \cup {None}]
OBVIOUS

LEMMA TypeInit == Init => TypeOK
<1> SUFFICES ASSUME Init
             PROVE  TypeOK
  OBVIOUS
<1>1. kind \in [Names -> {"coupled", "plain", "undeclared"}]
  BY DEF Init
<1>2. version \in [Names -> 0..MaxEdits]
  BY CoupledAssumption DEF Init
<1>3. built \in [Names -> (0..MaxEdits) \cup {None}] /\ tree \in [Names -> (0..MaxEdits) \cup {None}]
  BY NoValues DEF Init
<1>4. sim \in [Names -> {"off", "up", "failed", "ended"}]
  BY DEF Init
<1>5. failures \in 0..MaxFailures
  BY CoupledAssumption DEF Init
<1>6. QED
  BY <1>1, <1>2, <1>3, <1>4, <1>5 DEF Init, TypeOK

LEMMA TypeBetween ==
  ASSUME TypeOK,
         \/ \E n \in Names, k \in {"coupled", "plain", "undeclared"} : Edit(n, k)
         \/ Build \/ BuildFails \/ Clean
  PROVE  TypeOK'
<1> USE CoupledAssumption DEF TypeOK, NoRun
<1>1. ASSUME NEW n \in Names, NEW k \in {"coupled", "plain", "undeclared"}, Edit(n, k)
      PROVE  TypeOK'
  <2>1. version' \in [Names -> 0..MaxEdits]
    BY <1>1 DEF Edit
  <2>2. QED
    BY <1>1, <2>1 DEF Edit
<1>2. ASSUME NEW names \in SUBSET Names
      PROVE  Built(names) \in [Names -> (0..MaxEdits) \cup {None}]
  BY DEF Built
<1>3. WriteManifest => manifest' = None \/ manifest' \subseteq Names
  BY DEF WriteManifest
<1>4. CASE Build
  <2>1. built' \in [Names -> (0..MaxEdits) \cup {None}]
    BY <1>2, <1>4 DEF Build, Declared
  <2>2. QED
    BY <1>3, <1>4, <2>1 DEF Build
<1>5. CASE BuildFails
  <2>1. built' \in [Names -> (0..MaxEdits) \cup {None}]
    BY <1>2, <1>5 DEF BuildFails, Declared
  <2>2. QED
    BY <1>3, <1>5, <2>1 DEF BuildFails
<1>6. CASE Clean
  BY <1>6, NoValues DEF Clean
<1>7. QED
  BY <1>1, <1>4, <1>5, <1>6

LEMMA TypeRun ==
  ASSUME TypeOK,
         \/ RunCosim \/ \E names \in SUBSET Names : RunQemu(names)
         \/ GenDtb \/ GenDtbFails \/ SpawnFails \/ StartQemu \/ Connect
         \/ QemuEnds \/ QemuFails \/ EndSignals \/ EndRun
         \/ \E n \in Names : \/ Spawn(n) \/ SimEnds(n) \/ SimFails(n)
                             \/ Signal(n) \/ SimStops(n) \/ Wait(n)
  PROVE  TypeOK'
<1> USE CoupledAssumption DEF TypeOK, config, processes
<1>1. CASE RunCosim
  <2>1. comps' \subseteq Names
    BY <1>1 DEF RunCosim, Choose
  <2>2. QED
    BY <1>1, <2>1 DEF RunCosim, Choose
<1>2. CASE \E names \in SUBSET Names : RunQemu(names)
  BY <1>2 DEF RunQemu, Choose
<1>3. CASE GenDtb
  BY <1>3 DEF GenDtb, Nodes
<1>4. CASE GenDtbFails \/ SpawnFails \/ StartQemu \/ Connect
  BY <1>4 DEF GenDtbFails, SpawnFails, StartQemu, Connect
<1>5. CASE QemuEnds \/ QemuFails \/ EndSignals
  BY <1>5 DEF QemuEnds, QemuFails, EndSignals
<1>6. CASE EndRun
  <2>1. tree' \in [Names -> (0..MaxEdits) \cup {None}]
    BY <1>6, NoValues DEF EndRun
  <2>2. QED
    BY <1>6, <2>1 DEF EndRun
<1>7. ASSUME NEW n \in Names, Spawn(n) \/ SimEnds(n) \/ SimFails(n)
      PROVE  TypeOK'
  BY <1>7 DEF Spawn, SimEnds, SimFails
<1>8. ASSUME NEW n \in Names, Signal(n) \/ SimStops(n) \/ Wait(n)
      PROVE  TypeOK'
  BY <1>8 DEF Signal, SimStops, Wait
<1>9. QED
  BY <1>1, <1>2, <1>3, <1>4, <1>5, <1>6, <1>7, <1>8

LEMMA TypeStep == TypeOK /\ [Next]_vars => TypeOK'
<1>1. TypeOK /\ UNCHANGED vars => TypeOK'
  BY DEF TypeOK, vars
<1>2. QED
  BY <1>1, TypeBetween, TypeRun DEF Next

----------------------------------------------------------------------------
(* Ownership. *)

LEMMA OwnershipInit == Init => Ownership
BY DEF Init, Ownership, Owned, Quiet, QemuPlaced, TreeOfRun

LEMMA OwnershipBetween ==
  ASSUME IInv,
         \/ \E n \in Names, k \in {"coupled", "plain", "undeclared"} : Edit(n, k)
         \/ Build \/ BuildFails \/ Clean \/ UNCHANGED vars
  PROVE  Ownership'
<1>1. UNCHANGED <<pc, comps, tree, procs, signalled, sim, qemu, dir>>
  BY DEF Edit, Build, BuildFails, Clean, NoRun, vars
<1>2. QED
  BY <1>1 DEF IInv, Ownership, Owned, Quiet, QemuPlaced, TreeOfRun

\* A name has a node exactly if it is coupled: a version is not None.
LEMMA NodesOf ==
  ASSUME TypeOK, NEW names \in SUBSET Names
  PROVE  {n \in Names : Nodes(names)[n] # None} = names
<1>1. \A n \in Names : version[n] # None
  BY CoupledAssumption DEF TypeOK
<1>2. QED
  BY <1>1 DEF Nodes

\* The steps of run() itself.
LEMMA OwnershipRun ==
  ASSUME IInv,
         \/ RunCosim \/ \E names \in SUBSET Names : RunQemu(names)
         \/ GenDtb \/ GenDtbFails \/ SpawnFails \/ StartQemu \/ Connect
         \/ QemuEnds \/ QemuFails \/ EndSignals \/ EndRun
  PROVE  Ownership'
<1> USE DEF IInv, Ownership, Owned, Quiet, QemuPlaced, TreeOfRun, config, processes
<1>1. CASE RunCosim
  BY <1>1 DEF RunCosim, Choose
<1>2. CASE \E names \in SUBSET Names : RunQemu(names)
  BY <1>2 DEF RunQemu, Choose
<1>3. CASE GenDtb
  <2>1. {n \in Names : tree'[n] # None} = comps
    BY <1>3, NodesOf DEF GenDtb, TypeOK
  <2>2. procs = {} /\ comps' = comps /\ procs' = procs /\ pc' = "spawn"
    BY <1>3 DEF GenDtb
  <2>3. QED
    BY <1>3, <2>1, <2>2 DEF GenDtb
<1>4. CASE GenDtbFails
  BY <1>4 DEF GenDtbFails
<1>5. CASE SpawnFails
  BY <1>5 DEF SpawnFails
<1>6. CASE StartQemu
  BY <1>6 DEF StartQemu, AllStarted
<1>7. CASE Connect
  BY <1>7 DEF Connect
<1>8. CASE QemuEnds \/ QemuFails
  BY <1>8 DEF QemuEnds, QemuFails
<1>9. CASE EndSignals
  BY <1>9 DEF EndSignals
<1>10. CASE EndRun
  BY <1>10 DEF EndRun, AllReaped
<1>11. QED
  BY <1>1, <1>2, <1>3, <1>4, <1>5, <1>6, <1>7, <1>8, <1>9, <1>10

\* The steps that concern one simulation.
LEMMA OwnershipSim ==
  ASSUME IInv, NEW n \in Names,
         \/ Spawn(n) \/ SimEnds(n) \/ SimFails(n)
         \/ Signal(n) \/ SimStops(n) \/ Wait(n)
  PROVE  Ownership'
<1> USE DEF IInv, Ownership, Owned, Quiet, QemuPlaced, TreeOfRun, config, TypeOK
<1>1. CASE Spawn(n)
  BY <1>1 DEF Spawn
<1>2. CASE SimEnds(n) \/ SimFails(n) \/ SimStops(n)
  BY <1>2 DEF SimEnds, SimFails, SimStops
<1>3. CASE Signal(n)
  BY <1>3 DEF Signal
<1>4. CASE Wait(n)
  BY <1>4 DEF Wait
<1>5. QED
  BY <1>1, <1>2, <1>3, <1>4

\* Only the actions of run() have to keep Ownership; the others leave it alone.
THEOREM Invariance == Spec => []IInv
<1>1. Init => IInv
  BY TypeInit, OwnershipInit DEF IInv
<1>2. IInv /\ [Next]_vars => IInv'
  <2> SUFFICES ASSUME IInv, [Next]_vars
               PROVE  IInv'
    OBVIOUS
  <2>1. TypeOK'
    BY TypeStep DEF IInv
  <2>2. Ownership'
    BY OwnershipBetween, OwnershipRun, OwnershipSim DEF Next
  <2>3. QED
    BY <2>1, <2>2 DEF IInv
<1>3. QED
  BY <1>1, <1>2, PTL DEF Spec

\* What run() keeps has its type, whatever is edited, fails or is interrupted.
THEOREM TypeCorrect == Spec => []TypeOK
<1>1. IInv => TypeOK
  BY DEF IInv
<1>2. QED
  BY <1>1, Invariance, PTL

\* _run_coupled's finally clause: whatever was started is ended, waited for and
\* removed before run() returns.
THEOREM Cleanup == Spec => []NothingLeft
<1>1. IInv => NothingLeft
  BY DEF IInv, Ownership, Owned, Quiet, QemuPlaced, NothingLeft
<1>2. QED
  BY <1>1, Invariance, PTL

\* QEMU is started for the tree of the components that were spawned.
THEOREM Served == Spec => []EachNodeHasItsSim
<1>1. IInv => EachNodeHasItsSim
  BY DEF IInv, Ownership, QemuPlaced, TreeOfRun, EachNodeHasItsSim
<1>2. QED
  BY <1>1, Invariance, PTL

----------------------------------------------------------------------------
(* Numbering, in a run that is not started between an edit and the next     *)
(* build. *)

\* What is current is what cosim.json declares, and so is the tree of a run.
Agreement ==
  /\ current => \A n \in Declared : built[n] = version[n]
  /\ \A n \in Names : tree[n] # None => n \in Declared /\ tree[n] = version[n]

THEOREM Numbering == Spec => []SameNumbering
<1>1. Init => Agreement
  BY DEF Init, Agreement
<1>2. IInv /\ Agreement /\ [Next]_vars => Agreement'
  <2> SUFFICES ASSUME IInv, Agreement, [Next]_vars
               PROVE  Agreement'
    OBVIOUS
  <2> USE DEF Agreement, Declared
  <2>1. CASE \E n \in Names, k \in {"coupled", "plain", "undeclared"} : Edit(n, k)
    BY <2>1 DEF Edit, NoRun, IInv, Ownership, Quiet
  <2>2. CASE Build \/ BuildFails
    BY <2>2 DEF Build, BuildFails, Built, NoRun, IInv, TypeOK
  <2>3. CASE Clean
    BY <2>3 DEF Clean, NoRun
  <2>4. CASE RunCosim \/ \E names \in SUBSET Names : RunQemu(names)
    BY <2>4 DEF RunCosim, RunQemu, Choose, config
  <2>5. CASE GenDtb
    BY <2>5 DEF GenDtb, Nodes, config, IInv, TypeOK
  <2>6. CASE EndRun
    BY <2>6 DEF EndRun, config
  <2>7. CASE UNCHANGED <<config, tree>> /\ pc # "idle"
    BY <2>7 DEF config
  <2>8. CASE UNCHANGED <<config, tree, pc>>
    BY <2>8 DEF config
  <2>9. ASSUME \/ GenDtbFails \/ SpawnFails \/ StartQemu \/ QemuEnds \/ QemuFails \/ EndSignals
        PROVE  Agreement'
    BY <2>7, <2>9 DEF GenDtbFails, SpawnFails, StartQemu, QemuEnds, QemuFails, EndSignals,
       IInv, Ownership, QemuPlaced
  <2>10. ASSUME NEW n \in Names,
                \/ Spawn(n) \/ SimEnds(n) \/ SimFails(n)
                \/ Signal(n) \/ SimStops(n) \/ Wait(n)
         PROVE  Agreement'
    BY <2>8, <2>10 DEF Spawn, SimEnds, SimFails, Signal, SimStops, Wait
  <2>11. CASE Connect
    BY <2>8, <2>11 DEF Connect
  <2>12. CASE UNCHANGED vars
    BY <2>8, <2>12 DEF vars, config
  <2>13. QED
    BY <2>1, <2>2, <2>3, <2>4, <2>5, <2>6, <2>9, <2>10, <2>11, <2>12 DEF Next
<1>3. Agreement /\ IInv => SameNumbering
  BY DEF Agreement, IInv, Ownership, QemuPlaced, SameNumbering
<1>4. QED
  BY <1>1, <1>2, <1>3, Invariance, PTL DEF Spec

=============================================================================
