-------------------------- MODULE ArcWrapper_proofs --------------------------
(***************************************************************************)
(* For any number of clocks, of any periods and phases to each other: the  *)
(* invariants of ArcWrapper.                                               *)
(***************************************************************************)
EXTENDS ArcWrapper, TLAPS

\* Where the thread stands, what the model knows of the clocks and which of
\* their rises it has to take still.
Clocking ==
  /\ pc # "wait" => view.slot = sig.clk
  /\ pc # "wait" \/ woken # {} => new.clk = sig.clk
  /\ pc = "second" \/ (pc = "wait" /\ "rtl" \notin woken) => view.old = sig.clk
  /\ \A c \in Clocks : behind[c] = IF sig.clk[c] /\ ~view.old[c] THEN 1 ELSE 0

\* All clocks rise at time 0, and the model is evaluated with that only after
\* reset was asserted.
Risen(clk) == \A c \in Clocks : clk[c]
Low(clk) == \A c \in Clocks : ~clk[c]

Resetting ==
  /\ stage = "zero" =>
       /\ pc = "wait" /\ ~sig.req /\ ~new.req /\ ~call /\ Low(view.old)
       /\ ~new.ack /\ ~view.free /\ lead = 0
       /\ woken = {} => Low(sig.clk) /\ \/ new = sig /\ \A c \in Clocks : due[c] = 0
                                        \/ Risen(new.clk)
       /\ woken # {} => Risen(sig.clk) /\ "rtl" \in woken
  /\ stage = "hold" =>
       /\ new.rst = Asserted
       /\ \/ view.reset = Clocks
          \/ pc = "wait" /\ "rtl" \in woken /\ Risen(sig.clk) /\ Low(view.old)
          \/ /\ pc = "first" /\ Risen(view.slot) /\ Low(view.old)
             /\ "rtl" \in woken => sig.rst = Asserted
  /\ stage = "free" => view.reset = Clocks

\* What the outputs of the model are, and where.
Showing ==
  /\ stage # "zero" /\ (pc = "second" \/ (pc = "wait" /\ "rtl" \notin woken)) => new.irq = ~view.free
  /\ ~rtl.mealy => /\ view.ack = view.free
                   /\ pc = "wait" => new.ack = view.free
  /\ rtl.mealy /\ ~rtl.master =>
       /\ pc = "second" \/ behind[rtl.bus] = 0 => view.req = sig.req /\ new.req = sig.req
       /\ pc = "first" /\ "rtl" \in woken => new.req = sig.req
       /\ (pc # "second" \/ ~sig.clk[rtl.bus]) /\ behind[rtl.bus] = 0 =>
            view.ack = Ack(view.free, view.req)
       /\ (pc = "second" \/ (pc = "wait" /\ "rtl" \notin woken)) /\ ~sig.clk[rtl.bus] =>
            new.ack = Ack(view.free, new.req)

\* The transfer of a rise: counted by the bridge in the delta cycle of the rise,
\* by the component in the next one.
Present == pc = "wait" \/ (pc = "first" /\ "rtl" \notin woken)

Counting ==
  ~(rtl.mealy /\ rtl.master) =>
    /\ behind[rtl.bus] = 0 => lead = 0 /\ "bridge" \notin woken
    /\ pc = "first" /\ "rtl" \in woken => "bridge" \notin woken
    /\ behind[rtl.bus] = 1 /\ Present =>
         /\ sig.req => sig.ack = view.free
         /\ lead = IF "bridge" \notin woken /\ sig.rst # Asserted /\ sig.req /\ sig.ack
                   THEN 1 ELSE 0
         /\ new.rst # sig.rst => ~sig.req
         /\ pc = "first" => view.req = sig.req
    /\ behind[rtl.bus] = 1 /\ ~Present =>
         lead = IF sig.rst # Asserted /\ view.req /\ view.free THEN 1 ELSE 0

\* While QEMU is called, the bridge does nothing.
Calling == call => ~new.req /\ rtl.master /\ "bridge" \notin woken

IInv == TypeOK /\ Clocking /\ Resetting /\ Showing /\ Counting /\ Calling

----------------------------------------------------------------------------
(* What the steps of eval do, in terms of the edges not seen yet.          *)

Signals == [clk : [Clocks -> BOOLEAN], rst : BOOLEAN, req : BOOLEAN, ack : BOOLEAN, irq : BOOLEAN]
Views == [slot : [Clocks -> BOOLEAN], old : [Clocks -> BOOLEAN], rst : BOOLEAN,
          req : BOOLEAN, ack : BOOLEAN, free : BOOLEAN, reset : SUBSET Clocks]

\* One evaluation of the model.
LEMMA Evaluated ==
  ASSUME TypeOK, NEW v \in Views, NEW w \in evals(v)
  PROVE /\ w \in Views
        /\ w.slot = v.slot /\ w.old = v.slot /\ w.rst = v.rst /\ w.req = v.req
        /\ w.ack = Ack(w.free, v.req)
        /\ rtl.bus \notin Edges(v) => w.free = v.free
        /\ rtl.bus \in Edges(v) /\ v.rst = Asserted => w.free = TRUE
        /\ w.reset = v.reset \union IF v.rst = Asserted THEN Edges(v) ELSE {}
PROOF
<1>1. PICK free \in (IF rtl.bus \notin Edges(v) THEN {v.free}
                     ELSE IF v.rst = Asserted THEN {TRUE} ELSE BOOLEAN) :
        w = [v EXCEPT !.old = v.slot, !.free = free, !.ack = Ack(free, v.req),
               !.reset = v.reset \union IF v.rst = Asserted THEN Edges(v) ELSE {}]
  BY DEF evals
<1>2. free \in BOOLEAN /\ Ack(free, v.req) \in BOOLEAN
  BY <1>1 DEF Views, Ack
<1>3. Edges(v) \subseteq Clocks
  BY DEF Edges
<1>4. /\ w.slot = v.slot /\ w.old = v.slot /\ w.rst = v.rst /\ w.req = v.req /\ w.free = free
      /\ w.ack = Ack(free, v.req)
      /\ w.reset = v.reset \union IF v.rst = Asserted THEN Edges(v) ELSE {}
  BY <1>1 DEF Views
<1>5. w \in Views
  BY <1>1, <1>2, <1>3 DEF Views
<1>6. QED
  BY <1>1, <1>4, <1>5

\* The edges that an eval before its first evaluation still has to take.
LEMMA Untaken ==
  ASSUME TypeOK, Clocking, pc # "wait"
  PROVE /\ readInputs(view) \in Views
        /\ Edges(readInputs(view)) = {c \in Clocks : behind[c] = 1}
        /\ readInputs(view) = [view EXCEPT !.rst = sig.rst]
        /\ view.slot = sig.clk /\ readInputs(view).slot = sig.clk
        /\ readInputs(view).rst = sig.rst /\ readInputs(view).req = view.req
        /\ readInputs(view).reset = view.reset /\ readInputs(view).free = view.free
PROOF
<1>1. /\ view \in Views /\ sig \in Signals /\ view.slot = sig.clk
      /\ \A c \in Clocks : behind[c] = IF sig.clk[c] /\ ~view.old[c] THEN 1 ELSE 0
  BY DEF TypeOK, Clocking, Views, Signals
<1>2. sig.rst \in BOOLEAN
  BY <1>1 DEF Signals
<1>3. readInputs(view) \in Views /\ readInputs(view) = [view EXCEPT !.rst = sig.rst]
  BY <1>1, <1>2 DEF readInputs, Views
<1>4. /\ readInputs(view).slot = sig.clk /\ readInputs(view).old = view.old
      /\ readInputs(view).rst = sig.rst /\ readInputs(view).req = view.req
      /\ readInputs(view).reset = view.reset /\ readInputs(view).free = view.free
  BY <1>1, <1>3 DEF Views
<1>5. ASSUME NEW c \in Clocks
      PROVE c \in Edges(readInputs(view)) <=> behind[c] = 1
  BY <1>1, <1>4 DEF Edges
<1>6. Edges(readInputs(view)) \subseteq Clocks
  BY DEF Edges
<1>7. Edges(readInputs(view)) = {c \in Clocks : behind[c] = 1}
  BY <1>5, <1>6
<1>8. QED
  BY <1>1, <1>3, <1>4, <1>7

\* The component takes the transfer of a rise.
Taken == behind[rtl.bus] = 1 /\ sig.rst # Asserted /\ view.req /\ Ack(view.free, view.req)

\* First takes all rises, and nothing is left for Second.
LEMMA FirstDoes ==
  ASSUME TypeOK, Clocking, First
  PROVE /\ view' \in Views /\ view'.slot = sig.clk /\ view'.old = sig.clk
        /\ view'.req = sig.req /\ view'.ack = Ack(view'.free, view.req)
        /\ behind[rtl.bus] = 0 => view'.free = view.free
        /\ view'.reset = view.reset \union
             IF sig.rst = Asserted THEN {c \in Clocks : behind[c] = 1} ELSE {}
        /\ new' = [new EXCEPT !.ack = view.ack, !.irq = ~view'.free]
        /\ behind' = [c \in Clocks |-> 0]
        /\ lead' = Clip(lead - IF Taken THEN 1 ELSE 0)
PROOF
<1> DEFINE r == readInputs(view)
<1>1. pc = "first"
  BY DEF First
<1>2. /\ r \in Views /\ Edges(r) = {c \in Clocks : behind[c] = 1} /\ r.slot = sig.clk
      /\ r.rst = sig.rst /\ r.req = view.req /\ r.reset = view.reset /\ r.free = view.free
  BY <1>1, Untaken
<1>3. PICK v \in evals(r) : view' = ReadBuses(v) /\ new' = writeOutputs(v, WriteBuses(view, new))
  BY DEF First
<1>4. /\ v \in Views
      /\ v.slot = r.slot /\ v.old = r.slot /\ v.rst = r.rst /\ v.req = r.req
      /\ v.ack = Ack(v.free, r.req)
      /\ rtl.bus \notin Edges(r) => v.free = r.free
      /\ v.reset = r.reset \union IF r.rst = Asserted THEN Edges(r) ELSE {}
  BY <1>2, <1>3, Evaluated
<1>5. sig.req \in BOOLEAN /\ view' = [v EXCEPT !.req = sig.req]
  BY <1>3 DEF TypeOK, ReadBuses
<1>6. /\ view' \in Views /\ view'.slot = v.slot /\ view'.old = v.old /\ view'.req = sig.req
      /\ view'.ack = v.ack /\ view'.free = v.free /\ view'.reset = v.reset
  BY <1>4, <1>5 DEF Views
<1>7. new' = [new EXCEPT !.ack = view.ack, !.irq = ~view'.free]
  BY <1>3, <1>6 DEF TypeOK, writeOutputs, WriteBuses
<1>8. behind' = [c \in Clocks |-> 0]
  <2>1. behind' = [c \in Clocks |-> behind[c] - IF c \in Edges(r) THEN 1 ELSE 0]
    BY DEF First, Counts
  <2>2. ASSUME NEW c \in Clocks
        PROVE behind[c] - (IF c \in Edges(r) THEN 1 ELSE 0) = 0
    <3>1. behind[c] \in {0, 1} /\ (c \in Edges(r) <=> behind[c] = 1)
      BY <1>2 DEF Clocking
    <3> HIDE DEF r
    <3>2. QED
      BY <3>1
  <2>3. QED
    BY <2>1, <2>2
<1>9. lead' = Clip(lead - IF Taken THEN 1 ELSE 0)
  <2>1. lead' = Clip(lead - IF Takes(r) THEN 1 ELSE 0)
    BY DEF First, Counts
  <2>2. Takes(r) <=> Taken
    BY <1>2 DEF Takes, Taken, TypeOK
  <2>3. QED
    BY <2>1, <2>2
<1>10. rtl.bus \in Clocks /\ behind[rtl.bus] = 0 => view'.free = view.free
  BY <1>2, <1>4, <1>6
<1>11. QED
  BY <1>2, <1>4, <1>6, <1>7, <1>8, <1>9, <1>10 DEF TypeOK

LEMMA SecondDoes ==
  ASSUME TypeOK, Clocking, Second
  PROVE /\ view' \in Views /\ view'.slot = sig.clk /\ view'.old = sig.clk
        /\ view'.req = view.req /\ view'.free = view.free /\ view'.reset = view.reset
        /\ view'.ack = Ack(view.free, view.req)
        /\ new' = [new EXCEPT !.ack = view.ack]
        /\ behind = [c \in Clocks |-> 0] /\ behind' = behind
        /\ lead' = lead
PROOF
<1> DEFINE r == readInputs(view)
<1>1. pc = "second" /\ view' \in evals(r) /\ new' = WriteBuses(view, new)
  BY DEF Second
<1>2. behind = [c \in Clocks |-> 0]
  <2>1. \A c \in Clocks : behind[c] = 0
    BY <1>1 DEF Clocking
  <2>2. QED
    BY <2>1 DEF TypeOK
<1>3. /\ r \in Views /\ Edges(r) = {} /\ r.slot = sig.clk
      /\ r.rst = sig.rst /\ r.req = view.req /\ r.reset = view.reset /\ r.free = view.free
  BY <1>1, <1>2, Untaken
<1>4. /\ view' \in Views
      /\ view'.slot = r.slot /\ view'.old = r.slot /\ view'.req = r.req
      /\ view'.ack = Ack(view'.free, r.req)
      /\ view'.free = r.free
      /\ view'.reset = r.reset \union IF r.rst = Asserted THEN Edges(r) ELSE {}
  BY <1>1, <1>3, Evaluated
<1>5. new' = [new EXCEPT !.ack = view.ack]
  BY <1>1 DEF WriteBuses
<1>6. behind' = behind
  <2>1. behind' = [c \in Clocks |-> behind[c] - IF c \in Edges(r) THEN 1 ELSE 0]
    BY DEF Second, Counts
  <2>2. ASSUME NEW c \in Clocks
        PROVE behind[c] - (IF c \in Edges(r) THEN 1 ELSE 0) = behind[c]
    <3>1. behind[c] \in Int /\ c \notin Edges(r)
      BY <1>3 DEF TypeOK
    <3> HIDE DEF r
    <3>2. QED
      BY <3>1
  <2>3. QED
    BY <2>1, <2>2 DEF TypeOK
<1>7. lead' = lead
  <2>1. ~Takes(r)
    BY <1>3 DEF Takes
  <2>2. lead' = Clip(lead)
    BY <2>1 DEF Second, Counts, TypeOK
  <2>3. QED
    BY <2>2 DEF Clip, TypeOK
<1>8. QED
  BY <1>2, <1>3, <1>4, <1>5, <1>6, <1>7

----------------------------------------------------------------------------
(* Every step keeps every part of the invariant.                           *)

\* Counts stay between -1 and 1.
LEMMA Clipped ==
  ASSUME NEW n \in Int
  PROVE Clip(n) \in -1 .. 1 /\ (n \in -1 .. 1 => Clip(n) = n)
PROOF
  BY DEF Clip

LEMMA KeepsTypeOK ==
  ASSUME IInv, [Next]_vars
  PROVE TypeOK'
PROOF
<1>1. CASE Tick
  <2>1. PICK t \in {due[c] : c \in Clocks} :
          /\ \A c \in Clocks : t <= due[c]
          /\ new' = [sig EXCEPT !.clk = [c \in Clocks |-> sig.clk[c] # (due[c] = t)]]
          /\ due' = [c \in Clocks |-> IF due[c] = t THEN Half[c] ELSE due[c] - t]
          /\ held' = IF held > t THEN held - t ELSE 0
    BY <1>1 DEF Tick
  <2>2. t \in Nat
    BY <2>1 DEF IInv, TypeOK
  <2>3. due' \in [Clocks -> Nat]
    <3>1. \A c \in Clocks : due[c] \in Nat /\ Half[c] \in Nat /\ t <= due[c]
      BY <2>1, HalfAssumption DEF IInv, TypeOK
    <3>2. \A c \in Clocks : (IF due[c] = t THEN Half[c] ELSE due[c] - t) \in Nat
      BY <3>1, <2>2
    <3>3. QED
      BY <3>2, <2>1
  <2>4. held' \in Nat
    BY <2>1, <2>2 DEF IInv, TypeOK
  <2>5. new' \in Signals
    BY <2>1 DEF IInv, TypeOK, Signals
  <2>6. QED
    BY <1>1, <2>3, <2>4, <2>5 DEF IInv, TypeOK, Tick, Signals
<1>2. CASE Update
  BY <1>2
    DEF IInv, TypeOK, Clocking, Update, Rises, ClockEvent
<1>3. CASE Assert
  BY <1>3
    DEF IInv, TypeOK, Clocking, Assert, Asserted
<1>4. CASE Release
  BY <1>4
    DEF IInv, TypeOK, Clocking, Release, Asserted
<1>5. CASE eval /\ Wake
  BY <1>5
    DEF IInv, TypeOK, Clocking, eval, Wake, mirrorClocks, ReadBuses, writeOutputs
<1>6. CASE eval /\ First
  <2>1. new' \in Signals
    BY <1>6, FirstDoes DEF IInv, TypeOK, Signals
  <2>2. lead' \in -1 .. 1
    <3>1. lead - (IF Taken THEN 1 ELSE 0) \in Int
      BY DEF IInv, TypeOK
    <3>2. QED
      BY <1>6, <3>1, FirstDoes, Clipped DEF IInv
  <2>3. view' \in Views /\ behind' \in [Clocks -> Int]
    BY <1>6, FirstDoes DEF IInv
  <2>4. QED
    BY <1>6, <2>1, <2>2, <2>3 DEF IInv, TypeOK, eval, First, Signals, Views
<1>7. CASE eval /\ Second
  BY <1>7, SecondDoes
    DEF IInv, TypeOK, Clocking, eval, Second, Views
<1>8. CASE Bridge
  <2>1. new' \in Signals /\ call' \in BOOLEAN
    BY <1>8 DEF IInv, TypeOK, Bridge, Signals
  <2>2. lead' \in -1 .. 1
    <3>1. lead + (IF sig.rst # Asserted /\ sig.req /\ sig.ack THEN 1 ELSE 0) \in Int
      BY DEF IInv, TypeOK
    <3>2. QED
      BY <1>8, <3>1, Clipped DEF Bridge
  <2>3. QED
    BY <1>8, <2>1, <2>2 DEF IInv, TypeOK, Bridge, Signals
<1>9. CASE Answer
  BY <1>9
    DEF IInv, TypeOK, Clocking, Answer
<1>10. CASE UNCHANGED vars
  BY <1>10
    DEF IInv, TypeOK, Clocking, vars
<1>11. QED
  BY <1>1, <1>2, <1>3, <1>4, <1>5, <1>6, <1>7, <1>8, <1>9, <1>10 DEF Next, eval

LEMMA KeepsClocking ==
  ASSUME IInv, [Next]_vars
  PROVE Clocking'
PROOF
<1>1. CASE Tick
  BY <1>1, HalfAssumption
    DEF IInv, TypeOK, Clocking, Tick, Stable
<1>2. CASE Update
  BY <1>2
    DEF IInv, TypeOK, Clocking, Update, Rises, ClockEvent
<1>3. CASE Assert
  BY <1>3
    DEF IInv, TypeOK, Clocking, Assert, Asserted
<1>4. CASE Release
  BY <1>4
    DEF IInv, TypeOK, Clocking, Release, Asserted
<1>5. CASE eval /\ Wake
  BY <1>5
    DEF IInv, TypeOK, Clocking, eval, Wake, mirrorClocks, ReadBuses, writeOutputs
<1>6. CASE eval /\ First
  BY <1>6, FirstDoes
    DEF IInv, TypeOK, Clocking, eval, First, Clip, Views
<1>7. CASE eval /\ Second
  BY <1>7, SecondDoes
    DEF IInv, TypeOK, Clocking, eval, Second, Views
<1>8. CASE Bridge
  BY <1>8
    DEF IInv, TypeOK, Clocking, Bridge, Clip, Asserted
<1>9. CASE Answer
  BY <1>9
    DEF IInv, TypeOK, Clocking, Answer
<1>10. CASE UNCHANGED vars
  BY <1>10
    DEF IInv, TypeOK, Clocking, vars
<1>11. QED
  BY <1>1, <1>2, <1>3, <1>4, <1>5, <1>6, <1>7, <1>8, <1>9, <1>10 DEF Next, eval

LEMMA KeepsCalling ==
  ASSUME IInv, [Next]_vars
  PROVE Calling'
PROOF
<1>1. CASE Tick
  BY <1>1, HalfAssumption
    DEF IInv, TypeOK, Calling, Tick, Stable
<1>2. CASE Update
  BY <1>2
    DEF IInv, TypeOK, Calling, Update, Rises, ClockEvent
<1>3. CASE Assert
  BY <1>3
    DEF IInv, TypeOK, Calling, Assert, Asserted
<1>4. CASE Release
  BY <1>4
    DEF IInv, TypeOK, Calling, Release, Asserted
<1>5. CASE eval /\ Wake
  BY <1>5
    DEF IInv, TypeOK, Calling, eval, Wake, mirrorClocks, ReadBuses, writeOutputs
<1>6. CASE eval /\ First
  BY <1>6, FirstDoes
    DEF IInv, TypeOK, Calling, eval, First, Clip, Views
<1>7. CASE eval /\ Second
  BY <1>7, SecondDoes
    DEF IInv, TypeOK, Calling, eval, Second, Views
<1>8. CASE Bridge
  BY <1>8
    DEF IInv, TypeOK, Calling, Bridge, Clip, Asserted
<1>9. CASE Answer
  BY <1>9
    DEF IInv, TypeOK, Calling, Answer
<1>10. CASE UNCHANGED vars
  BY <1>10
    DEF IInv, TypeOK, Calling, vars
<1>11. QED
  BY <1>1, <1>2, <1>3, <1>4, <1>5, <1>6, <1>7, <1>8, <1>9, <1>10 DEF Next, eval

LEMMA KeepsResetting ==
  ASSUME IInv, [Next]_vars
  PROVE Resetting'
PROOF
<1>1. CASE Tick
  <2>1. Stable /\ woken = {} /\ new = sig /\ pc = "wait"
    BY <1>1 DEF Tick, Stable
  <2>2. CASE stage = "zero"
    <3>1. PICK t \in {due[c] : c \in Clocks} :
            new' = [sig EXCEPT !.clk = [c \in Clocks |-> sig.clk[c] # (due[c] = t)]]
      BY <1>1 DEF Tick
    <3>2. Low(sig.clk)
      BY <2>1, <2>2 DEF IInv, Resetting
    <3>3. \A c \in Clocks : due[c] = 0
      <4>1. ASSUME Risen(new.clk) PROVE FALSE
        BY <2>1, <3>2, <4>1 DEF IInv, TypeOK, Risen, Low
      <4>2. QED
        BY <2>1, <2>2, <4>1 DEF IInv, Resetting
    <3>4. t = 0
      BY <3>3
    <3>5. /\ new'.clk = [c \in Clocks |-> sig.clk[c] # (due[c] = t)]
          /\ new'.req = sig.req /\ new'.ack = sig.ack
      BY <3>1 DEF IInv, TypeOK
    <3>6. \A c \in Clocks : ~sig.clk[c] /\ due[c] = t
      BY <3>2, <3>3, <3>4 DEF Low
    <3>7. Risen(new'.clk)
      BY <3>5, <3>6 DEF Risen
    <3>8. QED
      BY <1>1, <2>1, <2>2, <3>2, <3>5, <3>7 DEF IInv, Resetting, Tick, Low
  <2>3. CASE stage # "zero"
    <3>1. new'.rst = sig.rst
      BY <1>1 DEF IInv, TypeOK, Tick
    <3>2. QED
      BY <1>1, <2>1, <2>3, <3>1 DEF IInv, Resetting, Tick, Asserted
  <2>4. QED
    BY <2>2, <2>3
<1>2. CASE Update
  <2>1. /\ woken = {} /\ sig' = new /\ new' = new /\ (new # sig \/ pc # "wait")
        /\ "rtl" \in woken' <=> pc # "wait" \/ new.clk # sig.clk
    BY <1>2 DEF Update, ClockEvent
  <2>2. CASE stage = "zero"
    <3>1. Low(sig.clk) /\ Risen(new.clk)
      BY <2>1, <2>2 DEF IInv, Resetting
    <3>2. new.clk # sig.clk
      BY <3>1 DEF Low, Risen, IInv, TypeOK
    <3>3. QED
      BY <1>2, <2>1, <2>2, <3>1, <3>2 DEF IInv, Resetting, Update
  <2>3. CASE stage # "zero"
    BY <1>2, <2>1, <2>3 DEF IInv, Resetting, Update, Asserted
  <2>4. QED
    BY <2>2, <2>3
<1>3. CASE Assert
  BY <1>3
    DEF IInv, TypeOK, Clocking, Resetting, Calling, Risen, Low, Asserted, Assert, Asserted
<1>4. CASE Release
  BY <1>4
    DEF IInv, TypeOK, Clocking, Resetting, Calling, Risen, Low, Asserted, Release, Asserted
<1>5. CASE eval /\ Wake
  BY <1>5
    DEF IInv, TypeOK, Clocking, Resetting, Calling, Risen, Low, Asserted, eval, Wake, mirrorClocks, ReadBuses, writeOutputs
<1>6. CASE eval /\ First
  <2>1. CASE view.reset = Clocks
    BY <1>6, <2>1, FirstDoes DEF IInv, Resetting, eval, First, Asserted, Views, TypeOK
  <2>2. CASE view.reset # Clocks /\ stage = "hold"
    <3>1. Risen(view.slot) /\ Low(view.old) /\ sig.rst = Asserted
      BY <1>6, <2>2 DEF IInv, Resetting, eval, First
    <3>2. \A c \in Clocks : behind[c] = 1
      BY <1>6, <3>1 DEF IInv, Clocking, Risen, Low, First
    <3>3. view'.reset = Clocks
      BY <1>6, <3>1, <3>2, FirstDoes DEF IInv, Views, TypeOK
    <3>4. QED
      BY <1>6, <2>2, <3>3, FirstDoes DEF IInv, Resetting, eval, Asserted, TypeOK
  <2>3. QED
    BY <1>6, <2>1, <2>2 DEF IInv, Resetting, eval, First, TypeOK
<1>7. CASE eval /\ Second
  BY <1>7, SecondDoes
    DEF IInv, TypeOK, Clocking, Resetting, Calling, Risen, Low, Asserted, eval, Second, Views
<1>8. CASE Bridge
  BY <1>8
    DEF IInv, TypeOK, Clocking, Resetting, Calling, Risen, Low, Asserted, Bridge, Clip, Asserted
<1>9. CASE Answer
  BY <1>9
    DEF IInv, TypeOK, Clocking, Resetting, Calling, Risen, Low, Asserted, Answer
<1>10. CASE UNCHANGED vars
  BY <1>10
    DEF IInv, TypeOK, Clocking, Resetting, Calling, Risen, Low, Asserted, vars
<1>11. QED
  BY <1>1, <1>2, <1>3, <1>4, <1>5, <1>6, <1>7, <1>8, <1>9, <1>10 DEF Next, eval

LEMMA KeepsShowing ==
  ASSUME IInv, [Next]_vars
  PROVE Showing'
PROOF
<1>1. CASE Tick
  BY <1>1, HalfAssumption
    DEF IInv, TypeOK, Clocking, Resetting, Showing, Counting, Calling, Ack, Tick, Stable
<1>2. CASE Update
  BY <1>2
    DEF IInv, TypeOK, Clocking, Resetting, Showing, Counting, Calling, Ack, Update, Rises, ClockEvent
<1>3. CASE Assert
  BY <1>3
    DEF IInv, TypeOK, Clocking, Resetting, Showing, Counting, Calling, Ack, Assert, Asserted
<1>4. CASE Release
  BY <1>4
    DEF IInv, TypeOK, Clocking, Resetting, Showing, Counting, Calling, Ack, Release, Asserted
<1>5. CASE eval /\ Wake
  BY <1>5
    DEF IInv, TypeOK, Clocking, Resetting, Showing, Counting, Calling, Ack, eval, Wake, mirrorClocks, ReadBuses, writeOutputs
<1>6. CASE eval /\ First
  BY <1>6, FirstDoes
    DEF IInv, TypeOK, Clocking, Resetting, Showing, Counting, Calling, Ack, eval, First, Clip, Views
<1>7. CASE eval /\ Second
  BY <1>7, SecondDoes
    DEF IInv, TypeOK, Clocking, Resetting, Showing, Counting, Calling, Ack, eval, Second, Views
<1>8. CASE Bridge
  BY <1>8
    DEF IInv, TypeOK, Clocking, Resetting, Showing, Counting, Calling, Ack, Bridge, Clip, Asserted
<1>9. CASE Answer
  BY <1>9
    DEF IInv, TypeOK, Clocking, Resetting, Showing, Counting, Calling, Ack, Answer
<1>10. CASE UNCHANGED vars
  BY <1>10
    DEF IInv, TypeOK, Clocking, Resetting, Showing, Counting, Calling, Ack, vars
<1>11. QED
  BY <1>1, <1>2, <1>3, <1>4, <1>5, <1>6, <1>7, <1>8, <1>9, <1>10 DEF Next, eval

LEMMA KeepsCounting ==
  ASSUME IInv, [Next]_vars
  PROVE Counting'
PROOF
<1>1. CASE Tick
  BY <1>1, HalfAssumption
    DEF IInv, TypeOK, Clocking, Resetting, Showing, Counting, Present, Calling, Ack, Asserted, Tick, Stable
<1>2. CASE Update
  <2>1. /\ woken = {} /\ sig' = new /\ new' = new
        /\ UNCHANGED <<rtl, stage, call, pc, view, lead>>
        /\ woken' = {p \in {"rtl", "bridge"} :
                      IF p = "rtl" THEN pc # "wait" \/ ClockEvent ELSE ~call /\ rtl.bus \in Rises}
        /\ behind' = [c \in Clocks |-> behind[c] + IF c \in Rises THEN 1 ELSE 0]
    BY <1>2 DEF Update
  <2>2. /\ rtl.bus \in Clocks /\ behind[rtl.bus] \in {0, 1}
        /\ behind'[rtl.bus] = behind[rtl.bus] + IF rtl.bus \in Rises THEN 1 ELSE 0
        /\ "bridge" \in woken' <=> ~call /\ rtl.bus \in Rises
        /\ "rtl" \in woken' <=> pc # "wait" \/ ClockEvent
    BY <2>1 DEF IInv, TypeOK, Clocking
  <2>3. CASE rtl.bus \in Rises
    <3>1. pc = "wait" /\ new.clk[rtl.bus] /\ ~sig.clk[rtl.bus]
      BY <2>1, <2>3 DEF IInv, Clocking, TypeOK, Rises
    <3>2. view.old = sig.clk /\ behind[rtl.bus] = 0
      BY <2>1, <2>2, <3>1 DEF IInv, Clocking
    <3>3. behind'[rtl.bus] = 1
      BY <2>2, <2>3, <3>2
    <3>4. QED
      BY <2>1, <2>2, <2>3, <3>1, <3>2, <3>3 DEF IInv, Counting, Showing, Present, Calling, TypeOK, Ack, Asserted
  <2>4. CASE rtl.bus \notin Rises
    <3>1. behind'[rtl.bus] = behind[rtl.bus] /\ "bridge" \notin woken'
      BY <2>2, <2>4
    <3>2. CASE behind[rtl.bus] = 0
      BY <2>1, <2>2, <2>4, <3>1, <3>2 DEF IInv, Counting, Present
    <3>3. CASE behind[rtl.bus] = 1
      <4>1. pc = "first"
        BY <2>1, <2>2, <3>3 DEF IInv, Clocking, TypeOK
      <4>2. "rtl" \in woken'
        BY <2>2, <4>1
      <4>3. /\ sig'.rst = new.rst /\ "bridge" \notin woken /\ Asserted' = Asserted
            /\ sig.rst \in BOOLEAN /\ new.rst \in BOOLEAN /\ rtl' = rtl
        BY <2>1 DEF IInv, TypeOK, Asserted
      <4>4. QED
        BY <2>1, <3>1, <3>3, <4>1, <4>2, <4>3 DEF IInv, Counting, Present
    <3>4. QED
      BY <2>2, <3>2, <3>3
  <2>5. QED
    BY <2>3, <2>4
<1>3. CASE Assert
  BY <1>3
    DEF IInv, TypeOK, Clocking, Resetting, Showing, Counting, Present, Calling, Ack, Asserted, Assert, Asserted
<1>4. CASE Release
  BY <1>4
    DEF IInv, TypeOK, Clocking, Resetting, Showing, Counting, Present, Calling, Ack, Asserted, Release, Asserted
<1>5. CASE eval /\ Wake
  BY <1>5
    DEF IInv, TypeOK, Clocking, Resetting, Showing, Counting, Present, Calling, Ack, Asserted, eval, Wake, mirrorClocks, ReadBuses, writeOutputs
<1>6. CASE eval /\ First
  <2>1. /\ pc = "first" /\ pc' = "second" /\ "rtl" \in woken /\ woken' = woken \ {"rtl"}
        /\ rtl' = rtl /\ sig' = sig
    BY <1>6 DEF eval, First
  <2>2. behind'[rtl.bus] = 0 /\ rtl.bus \in Clocks /\ lead' = Clip(lead - IF Taken THEN 1 ELSE 0)
    BY <1>6, FirstDoes DEF IInv, TypeOK
  <2>3. SUFFICES ASSUME ~(rtl.mealy /\ rtl.master) PROVE lead' = 0 /\ "bridge" \notin woken'
    BY <2>1, <2>2 DEF Counting, Present
  <2>4. behind[rtl.bus] \in {0, 1}
    BY <2>2 DEF IInv, Clocking
  <2>5. lead = IF Taken THEN 1 ELSE 0
    BY <2>1, <2>3, <2>4 DEF IInv, Counting, Present, Taken, Ack
  <2>6. "bridge" \notin woken
    BY <2>1, <2>3 DEF IInv, Counting
  <2>7. lead - (IF Taken THEN 1 ELSE 0) = 0
    BY <2>5
  <2>8. QED
    BY <2>1, <2>2, <2>6, <2>7 DEF Clip
<1>7. CASE eval /\ Second
  BY <1>7, SecondDoes
    DEF IInv, TypeOK, Clocking, Resetting, Showing, Counting, Present, Calling, Ack, Asserted, eval, Second, Views
<1>8. CASE Bridge
  BY <1>8
    DEF IInv, TypeOK, Clocking, Resetting, Showing, Counting, Present, Calling, Ack, Asserted, Bridge, Clip, Asserted
<1>9. CASE Answer
  BY <1>9
    DEF IInv, TypeOK, Clocking, Resetting, Showing, Counting, Present, Calling, Ack, Asserted, Answer
<1>10. CASE UNCHANGED vars
  BY <1>10
    DEF IInv, TypeOK, Clocking, Resetting, Showing, Counting, Present, Calling, Ack, Asserted, vars
<1>11. QED
  BY <1>1, <1>2, <1>3, <1>4, <1>5, <1>6, <1>7, <1>8, <1>9, <1>10 DEF Next, eval

----------------------------------------------------------------------------

LEMMA InitIInv == Init => IInv
PROOF
<1> SUFFICES ASSUME Init PROVE IInv
  OBVIOUS
<1>1. held \in Nat
  BY HalfAssumption, HoldAssumption DEF Init
<1>2. sig \in Signals /\ new \in Signals /\ view \in Views
  BY DEF Init, Signals, Views
<1>3. TypeOK
  <2>1. due \in [Clocks -> Nat] /\ behind \in [Clocks -> Int] /\ lead \in -1 .. 1
    BY DEF Init
  <2>2. {sig, new} \subseteq Signals
    BY <1>2
  <2>3. /\ rtl \in [bus : Clocks, low : BOOLEAN, mealy : BOOLEAN, master : BOOLEAN]
        /\ stage \in {"zero", "hold", "free"} /\ woken \subseteq {"rtl", "bridge"}
        /\ pc \in {"wait", "first", "second"} /\ call \in BOOLEAN
    BY DEF Init
  <2>4. QED
    BY <1>1, <1>2, <2>1, <2>2, <2>3 DEF TypeOK, Signals, Views
<1>4. Clocking /\ Calling
  BY DEF Init, Clocking, Calling
<1>5. Resetting
  BY DEF Init, Resetting, Low
<1>6. Showing /\ Counting
  BY DEF Init, Showing, Counting, Present, Ack
<1>7. QED
  BY <1>3, <1>4, <1>5, <1>6 DEF IInv

LEMMA Invariance == Spec => []IInv
PROOF
<1>1. IInv /\ [Next]_vars => IInv'
  BY KeepsTypeOK, KeepsClocking, KeepsResetting, KeepsShowing, KeepsCounting, KeepsCalling DEF IInv
<1>2. QED
  BY <1>1, InitIInv, PTL DEF Spec

\* The variables keep their types, and the registers of every domain step
\* exactly once at each rise of their clock before time goes on: eval's two
\* waits lose no event of the list and its second evaluation takes none again.
THEOREM EdgesSeenOnce == Spec => [](TypeOK /\ EveryEdgeOnce)
PROOF
<1>1. IInv => TypeOK /\ EveryEdgeOnce
  BY DEF IInv, Clocking, EveryEdgeOnce, Stable
<1>2. QED
  BY <1>1, Invariance, PTL

\* Component and bridge count the same transfers, although one acts a delta
\* cycle after the other on inputs read at different times, and the wires show
\* the outputs of the last evaluation, whatever the component's bus depends on
\* (a master with a combinational path from req to ack excepted).
THEOREM BridgeInStep == Spec => []InStep
PROOF
<1>1. IInv => InStep
  BY DEF IInv, TypeOK, Showing, Counting, Clocking, InStep, Stable
<1>2. QED
  BY <1>1, Invariance, PTL

\* sc_main resets every domain, whatever the periods and however short the
\* hold: all clocks rise in the delta cycle in which reset is asserted.
THEOREM EveryDomainReset == Spec => []ResetReachesEveryDomain
PROOF
<1>1. IInv => ResetReachesEveryDomain
  BY DEF IInv, Resetting, ResetReachesEveryDomain
<1>2. QED
  BY <1>1, Invariance, PTL
=============================================================================
