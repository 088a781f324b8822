------------------------------ MODULE MCWiring ------------------------------
(* Declarations in every order of their interfaces, most of them right for *)
(* one of the designs and wrong for the others.                            *)
EXTENDS Wiring, TLC

CONSTANT none

In(inst, bare, bits)  == [inst |-> inst, bare |-> bare, typ |-> "input", bits |-> bits]
Out(inst, bare, bits) == [inst |-> inst, bare |-> bare, typ |-> "output", bits |-> bits]
Reg == [inst |-> <<>>, bare |-> <<"r">>, typ |-> "register", bits |-> 8]

uart == <<"uart0">>
dma == <<"top", "dma0">>

\* A bus without its optional signals, and one with all and "_bits".
Bus(inst, n) ==
  <<Out(inst, n \o <<"a", "ready">>, 1), In(inst, n \o <<"a", "valid">>, 1),
    In(inst, n \o <<"a", "data">>, 64), Out(inst, n \o <<"d", "size">>, 3)>>
BitsBus(inst, n) ==
  <<Out(inst, n \o <<"a", "ready">>, 1), In(inst, n \o <<"a", "valid">>, 1),
    In(inst, n \o <<"a", "bits", "data">>, 64), In(inst, n \o <<"a", "bits", "param">>, 3),
    Out(inst, n \o <<"d", "bits", "size">>, 3), Out(inst, n \o <<"d", "bits", "sink">>, 2)>>
Turned(b) == [k \in DOMAIN b |-> [b[k] EXCEPT !.typ = flip(@)]]

Uart ==
  <<In(uart, <<"clock">>, 1), In(uart, <<"rx", "reset">>, 1), In(uart, <<"reset">>, 1), Reg>>
  \o BitsBus(uart, <<"in">>)
  \o <<Out(uart, <<"int", "sync", "0">>, 1), Out(uart, <<"int", "sync", "1">>, 1),
       Out(<<>>, <<"uart0", "txd">>, 1)>>
Dma ==
  <<In(dma, <<"clock">>, 1), In(dma, <<"reset">>, 1)>>
  \o Bus(dma, <<"ctl", "b">>) \o Bus(dma, <<"ctl">>) \o Turned(BitsBus(dma, <<"mem">>))
  \o Bus(dma, <<"back">>)
  \o Turned(Bus(dma, <<"aux">>)) \o <<In(dma, <<"tx", "clk">>, 1)>>
Gpio ==
  <<Out(<<>>, <<"io", "led">>, 1), In(<<>>, <<"reset">>, 1), In(<<>>, <<"clock">>, 1)>>
  \o Bus(<<>>, <<"io", "in">>)
  \o <<In(<<>>, <<"io", "pins", "0">>, 1), Out(<<>>, <<"io", "pins", "1">>, 1),
       Out(<<>>, <<"io", "irq">>, 1), Out(<<>>, <<"io", "irq", "ack">>, 1),
       In(<<>>, <<"wake">>, 1)>>
Wide == <<In(uart, <<"clock">>, 1), In(uart, <<"reset">>, 1), Out(uart, <<"int">>, 8),
          In(<<>>, <<"key">>, 128)>>
Soc == <<In(<<>>, <<"clk">>, 1), In(<<>>, <<"rst">>, 1), Out(<<>>, <<"x", "int", "0">>, 1),
         In(<<>>, <<"y", "a", "valid">>, 1), Reg>>
       \o BitsBus(<<>>, <<"per">>) \o Turned(Bus(<<>>, <<"mst">>))
Clockless == <<In(<<>>, <<"reset">>, 1), Out(<<>>, <<"q">>, 4)>>

\* The regex "clock$" hoists tx_clock too, in front of the clock or after it.
tx == In(uart, <<"tx", "clock">>, 1)
core == In(uart, <<"clock">>, 1)
Rest == <<In(uart, <<"reset">>, 1), Out(uart, <<"int">>, 1), Out(uart, <<"q">>, 8)>>

MCDesigns == {Uart, Dma, Gpio, Wide, Soc, Clockless, <<tx, core>> \o Rest, <<core, tx>> \o Rest}

clock == [kind |-> "clock", name |-> <<"clock">>, freq_mhz |-> 50]
txclk == [kind |-> "clock", name |-> <<"tx", "clk">>, freq_mhz |-> 125]
reset == [kind |-> "reset", name |-> <<"reset">>]
bus(n, d)  == [kind |-> "tilelink", prefix |-> n, dir |-> d]
wire(k, n) == [kind |-> k, prefix |-> n]

Unbound == [x \in {} |-> none]
At(path) == [dts_path |-> path]
By(compat) == [compat |-> compat]

\* In every order, with each of the bindings.
Good ==
  {<<<<clock, reset, bus(<<"in">>, "slave"), wire("interrupt", <<"int">>)>>,
     {At("/soc/two"), At("/none"), By("uart"), By("dma"), By("gic"), Unbound}>>,
   <<<<clock, reset, bus(<<"ctl">>, "slave"), bus(<<"ctl", "b">>, "slave")>>,
     {At("/soc/two"), By("dma"), By("io"), By("dup")}>>,
   <<<<clock, reset, bus(<<"mem">>, "master"), bus(<<"aux">>, "master")>>, {Unbound}>>,
   <<<<clock, reset, wire("interrupt", <<"io">>), wire("gpio", <<"io", "pins">>)>>, {Unbound}>>,
   <<<<clock, reset, wire("interrupt", <<"io", "irq">>), wire("gpio", <<"io", "pins">>)>>,
     {By("irq"), Unbound}>>,
   <<<<clock, reset, bus(<<"ctl">>, "slave") @@ [clock |-> <<"sys">>]>>, {By("io")}>>,
   <<<<clock, reset, wire("interrupt", <<"int">>)>>, {Unbound}>>,
   <<<<clock, reset>>, {Unbound}>>, <<<<clock>>, {Unbound}>>}

\* In some orders: from each interface on, forwards and backwards.
Long ==
  {<<<<clock, txclk, reset, bus(<<"ctl">>, "slave"), bus(<<"ctl", "b">>, "slave"),
       bus(<<"mem">>, "master") @@ [clock |-> <<"tx", "clk">>, reset |-> <<"reset">>]>>,
     {By("dma")}>>,
   <<<<clock, reset, bus(<<"io", "in">>, "slave"), [kind |-> "interrupt", name |-> <<"io", "irq">>],
       wire("gpio", <<"io">>), wire("gpio", <<"wake">>) @@ [dir |-> "in"]>>, {By("io")}>>,
   <<<<clock, reset, bus(<<"ctl">>, "slave"), bus(<<"ctl", "b">>, "slave"),
       bus(<<"back">>, "slave"), bus(<<"mem">>, "master")>>, {By("dma")}>>}

Wrong ==
  {<<clock, wire("interrupt", <<"io", "irq">>)>>, <<reset>>,
   <<[clock EXCEPT !.freq_mhz = 0], reset>>, <<[clock EXCEPT !.name = <<"osc">>]>>,
   <<[kind |-> "clock", name |-> <<"clock">>]>>,
   <<clock, [kind |-> "bus", prefix |-> <<"in">>]>>, <<clock, [kind |-> "reset"]>>,
   <<clock, reset, wire("gpio", <<"io">>) @@ [name |-> <<"io">>]>>,
   <<clock, reset, bus(<<"in">>, "both")>>, <<clock, reset, reset @@ [freq |-> 1]>>}

Orders(s) == {[k \in DOMAIN s |-> s[f[k]]] : f \in Permutations(DOMAIN s)}
Turns(s) ==
  LET from(n) == [k \in DOMAIN s |-> s[((k + n) % Len(s)) + 1]] IN
  UNION {{from(n), [k \in DOMAIN s |-> from(n)[Len(s) - k + 1]]} : n \in DOMAIN s}

Component(is) == [soc_rtl |-> FALSE, type |-> "T", path |-> "t", interfaces |-> is]
MCDeclarations ==
  (UNION {{Component(is) @@ b : is \in Orders(l[1]), b \in l[2]} : l \in Good})
    \union (UNION {{Component(is) @@ b : is \in Turns(l[1]), b \in l[2]} : l \in Long})
    \union {Component(is) : is \in Wrong}
    \union {[soc_rtl |-> TRUE, interfaces |-> <<clock, reset>>],
            [soc_rtl |-> TRUE, interfaces |-> <<clock, reset>>, compat |-> "io"],
            [soc_rtl |-> TRUE, interfaces |-> <<clock, wire("gpio", <<"io">>)>>],
            [soc_rtl |-> FALSE, interfaces |-> <<clock>>]}

node(c, to, cells, reg) == [compat |-> c, controllers |-> to, interrupts |-> cells, reg |-> reg]
MCTree ==
  ("/soc/two" :> node("uart", {"plic"}, <<7, 8>>, <<"w0", "w1">>)) @@
  ("/soc/io" :> node("io", {"plic"}, <<9>>, <<"w2">>)) @@
  ("/soc/dma0" :> node("dma", {}, <<>>, <<"w3", "w4", "w5">>)) @@
  ("/soc/gic" :> node("gic", {"plic", "aplic"}, <<3, 4>>, <<"w8">>)) @@
  ("/soc/dma1" :> node("dup", {}, <<>>, <<>>)) @@
  ("/soc/dma2" :> node("dup", {}, <<>>, <<"w6">>)) @@
  ("/soc/irq" :> node("irq", {"plic"}, <<6>>, <<>>))

=============================================================================
