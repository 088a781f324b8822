----------------------------- MODULE ArcWrapper -----------------------------
(***************************************************************************)
(* An extracted component under SystemC with the arcilator backend: the    *)
(* thread eval of include/arcilator-wrapper.h with the readInputs and      *)
(* writeOutputs that codegen/arc_wrapper.py generates, the clocks and the  *)
(* reset sequence of the generated sc_main, and a bridge on one of the     *)
(* clocks.                                                                 *)
(*                                                                         *)
(* SystemC runs in delta cycles: what a process writes to a signal is seen *)
(* in the next one, and wait(SC_ZERO_TIME) ends there.  A bus is one       *)
(* handshake, req into the component and ack out of it, whichever of the   *)
(* two is the valid and which the ready.  rst stands for the inputs that   *)
(* are of no bus, irq for the outputs.                                     *)
(***************************************************************************)
EXTENDS Integers

CONSTANTS Clocks, \* the declared clocks
          Half,   \* half a period of each, in ticks
          Hold    \* periods of the slowest clock that reset is held (1000 in the code)

ASSUME HalfAssumption == Half \in [Clocks -> Nat \ {0}]
ASSUME HoldAssumption == Hold \in Nat \ {0}

VARIABLES rtl,    \* the component: the clock of its bus, the level of its reset, whether
                  \* ack depends on req, whether it is the master (its bridge calls QEMU)
          stage,  \* sc_main: zero (sc_start(SC_ZERO_TIME)), hold (reset), free
          held,   \* ticks that reset is still held
          due,    \* ticks until each clock changes
          sig,    \* the signals
          new,    \* what they become at the end of the delta cycle
          woken,  \* the processes to run in this delta cycle
          pc,     \* eval: wait(clock_events), or in one of its two arc_set_io
          call,   \* the bridge is in QEMU's b_transport
          view,   \* arc_model
          behind, \* edges of each clock that its registers have not seen
          lead    \* transfers that the bridge has counted and the component has not

vars == <<rtl, stage, held, due, sig, new, woken, pc, call, view, behind, lead>>

\* active_low
Asserted == ~rtl.low

\* Output of the bus: mealy components look at its input as well.
Ack(free, req) == free /\ (rtl.mealy => req)

Init ==
  /\ rtl \in [bus : Clocks, low : BOOLEAN, mealy : BOOLEAN, master : BOOLEAN]
  /\ stage = "zero"
  /\ \E slowest \in Clocks : /\ \A c \in Clocks : Half[c] <= Half[slowest]
                             /\ held = Hold * 2 * Half[slowest]
  /\ due = [c \in Clocks |-> 0]
  /\ sig = [clk |-> [c \in Clocks |-> FALSE], rst |-> FALSE, req |-> FALSE, ack |-> FALSE, irq |-> FALSE]
  /\ new = sig
  /\ woken = {} /\ pc = "wait" /\ call = FALSE
  /\ view = [slot |-> sig.clk, old |-> sig.clk, rst |-> FALSE, req |-> FALSE, ack |-> FALSE,
             free |-> FALSE, reset |-> {}]
  /\ behind = [c \in Clocks |-> 0] /\ lead = 0

----------------------------------------------------------------------------
(* The kernel.                                                             *)

Stable == woken = {} /\ new = sig /\ pc = "wait"

\* Time goes on to the next change of a clock.  Clocks that change at the
\* same time do it in the same delta cycle; the first rise is at time 0.
Tick ==
  /\ Stable /\ ~(stage = "hold" /\ held = 0)
  /\ \E t \in {due[c] : c \in Clocks} :
       /\ \A c \in Clocks : t <= due[c]
       /\ new' = [sig EXCEPT !.clk = [c \in Clocks |-> sig.clk[c] # (due[c] = t)]]
       /\ due' = [c \in Clocks |-> IF due[c] = t THEN Half[c] ELSE due[c] - t]
       /\ held' = IF held > t THEN held - t ELSE 0
  /\ UNCHANGED <<rtl, stage, sig, woken, pc, call, view, behind, lead>>

Rises == {c \in Clocks : new.clk[c] /\ ~sig.clk[c]}

\* Mutant: only the rising edges wake the thread.
ClockRises == Rises # {}

\* clock_events: value_changed_event of each clock.
ClockEvent == new.clk # sig.clk

\* The end of a delta cycle.
Update ==
  /\ woken = {} /\ (new # sig \/ pc # "wait")
  /\ sig' = new
  /\ woken' = {p \in {"rtl", "bridge"} :
                 IF p = "rtl" THEN pc # "wait" \/ ClockEvent ELSE ~call /\ rtl.bus \in Rises}
  /\ behind' = [c \in Clocks |-> behind[c] + IF c \in Rises THEN 1 ELSE 0]
  /\ UNCHANGED <<rtl, stage, held, due, new, pc, call, view, lead>>

----------------------------------------------------------------------------
(* sc_main.                                                                *)

\* Mutant: active_low is ignored.
AssertHigh ==
  /\ stage = "zero" /\ woken # {}
  /\ stage' = "hold" /\ new' = [new EXCEPT !.rst = TRUE]
  /\ UNCHANGED <<rtl, held, due, sig, woken, pc, call, view, behind, lead>>

\* sc_start(SC_ZERO_TIME) ends after one delta cycle, in which the clocks
\* have risen and nobody has run yet.
Assert ==
  /\ stage = "zero" /\ woken # {}
  /\ stage' = "hold" /\ new' = [new EXCEPT !.rst = Asserted]
  /\ UNCHANGED <<rtl, held, due, sig, woken, pc, call, view, behind, lead>>

\* sc_start(reset_hold_us) ends before the delta cycle of its last instant;
\* as times are rounded, that may be before or after a change of the clocks.
Release ==
  /\ stage = "hold" /\ held = 0 /\ woken = {} /\ pc = "wait"
  /\ stage' = "free" /\ new' = [new EXCEPT !.rst = ~Asserted]
  /\ UNCHANGED <<rtl, held, due, sig, woken, pc, call, view, behind, lead>>

----------------------------------------------------------------------------
(* The wrapper.                                                            *)

\* The clocks whose rise the model sees: high now, low at the last eval.
Edges(v) == {c \in Clocks : v.slot[c] /\ ~v.old[c]}

Takes(v) == rtl.bus \in Edges(v) /\ v.rst # Asserted /\ v.req /\ Ack(v.free, v.req)

\* arc_model.eval: the register of the bus's domain decides on its own whether
\* it is free next; of the other domains, only whether they have been reset.
evals(v) ==
  {[v EXCEPT !.old = v.slot, !.free = free, !.ack = Ack(free, v.req),
             !.reset = v.reset \union IF v.rst = Asserted THEN Edges(v) ELSE {}] :
     free \in IF rtl.bus \notin Edges(v) THEN {v.free}
              ELSE IF v.rst = Asserted THEN {TRUE} ELSE BOOLEAN}

\* One that is further ahead is out of step as well.
Clip(n) == IF n > 1 THEN 1 ELSE IF n < -1 THEN -1 ELSE n

Counts(v) ==
  /\ behind' = [c \in Clocks |-> behind[c] - IF c \in Edges(v) THEN 1 ELSE 0]
  /\ lead' = Clip(lead - IF Takes(v) THEN 1 ELSE 0)

mirrorClocks(v) == [v EXCEPT !.slot = sig.clk]

\* Mutant: the inputs of the buses are read after the wait, too.
readAllInputs(v) == [v EXCEPT !.rst = sig.rst, !.req = sig.req]

\* readInputs reads the inputs that are of no bus and writes the outputs of
\* the buses, writeOutputs does it the other way round.
readInputs(v) == [v EXCEPT !.rst = sig.rst]

WriteBuses(v, n) == [n EXCEPT !.ack = v.ack]

ReadBuses(v) == [v EXCEPT !.req = sig.req]

writeOutputs(v, n) == [n EXCEPT !.irq = ~v.free]

\* mirrorClocks, and the first arc_set_io up to its wait.
Wake ==
  /\ pc = "wait" /\ pc' = "first"
  /\ view' = ReadBuses(mirrorClocks(view))
  /\ new' = writeOutputs(view, new)
  /\ UNCHANGED <<behind, lead>>

\* The rest of it and an eval, then the second arc_set_io up to its wait.
First ==
  /\ pc = "first" /\ pc' = "second"
  /\ \E v \in evals(readInputs(view)) :
       /\ view' = ReadBuses(v)
       /\ new' = writeOutputs(v, WriteBuses(view, new))
  /\ Counts(readInputs(view))

\* The rest of that, and another eval.
Second ==
  /\ pc = "second" /\ pc' = "wait"
  /\ view' \in evals(readInputs(view))
  /\ new' = WriteBuses(view, new)
  /\ Counts(readInputs(view))

eval ==
  /\ stage # "zero" /\ "rtl" \in woken /\ woken' = woken \ {"rtl"}
  /\ Wake \/ First \/ Second
  /\ UNCHANGED <<rtl, stage, held, due, sig, call>>

----------------------------------------------------------------------------
(* The bridge.                                                             *)

\* At a rise of its clock it counts a transfer and drives the bus anew, or, if
\* the component is the master, calls QEMU.  There are no transfers in reset.
Bridge ==
  /\ stage # "zero" /\ "bridge" \in woken /\ woken' = woken \ {"bridge"}
  /\ lead' = Clip(lead + IF sig.rst # Asserted /\ sig.req /\ sig.ack THEN 1 ELSE 0)
  /\ \/ \E req \in BOOLEAN : new' = [new EXCEPT !.req = req] /\ UNCHANGED call
     \/ rtl.master /\ sig.rst # Asserted /\ new' = [new EXCEPT !.req = FALSE] /\ call' = TRUE
  /\ UNCHANGED <<rtl, stage, held, due, sig, pc, view, behind>>

\* QEMU answers at any time.
Answer ==
  /\ stage # "zero" /\ call /\ call' = FALSE
  /\ new' = [new EXCEPT !.req = TRUE]
  /\ UNCHANGED <<rtl, stage, held, due, sig, woken, pc, view, behind, lead>>

Next == Tick \/ Update \/ Assert \/ Release \/ eval \/ Bridge \/ Answer

Spec == Init /\ [][Next]_vars

----------------------------------------------------------------------------
(* Properties.                                                             *)

\* Types of the variables.
TypeOK ==
  /\ rtl \in [bus : Clocks, low : BOOLEAN, mealy : BOOLEAN, master : BOOLEAN]
  /\ stage \in {"zero", "hold", "free"} /\ held \in Nat /\ due \in [Clocks -> Nat]
  /\ {sig, new} \subseteq [clk : [Clocks -> BOOLEAN], rst : BOOLEAN, req : BOOLEAN,
                           ack : BOOLEAN, irq : BOOLEAN]
  /\ woken \subseteq {"rtl", "bridge"} /\ pc \in {"wait", "first", "second"} /\ call \in BOOLEAN
  /\ view \in [slot : [Clocks -> BOOLEAN], old : [Clocks -> BOOLEAN], rst : BOOLEAN,
               req : BOOLEAN, ack : BOOLEAN, free : BOOLEAN, reset : SUBSET Clocks]
  /\ behind \in [Clocks -> Int] /\ lead \in -1 .. 1

\* Although the thread waits twice in between and evaluates twice, the
\* registers of a domain step once at each rise of their clock, also when
\* several clocks change at once, and before time goes on.
EveryEdgeOnce ==
  \A c \in Clocks : behind[c] \in {0, 1} /\ (Stable => behind[c] = 0)

\* Whenever time goes on, QEMU's wires show the present outputs, and component
\* and bridge have counted the same transfers: the bus that the component acts
\* on is the one that the bridge has seen.  Not so if ack depends on a req that
\* comes with an answer of QEMU: after the last change of the clock nobody
\* computes ack again, and the next rise takes the transfer on one side only.
InStep ==
  Stable /\ stage # "zero" =>
    /\ sig.irq = ~view.free
    /\ ~(rtl.mealy /\ rtl.master) => lead = 0

\* No domain leaves reset before its registers were reset.
ResetReachesEveryDomain == stage = "free" => view.reset = Clocks
=============================================================================
