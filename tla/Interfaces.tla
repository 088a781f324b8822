----------------------------- MODULE Interfaces -----------------------------
(***************************************************************************)
(* Which ports of an extracted design an entry of a component's            *)
(* `interfaces` list means: cosim/interfaces/ and the name guessing of     *)
(* codegen/typedio.py.                                                     *)
(*                                                                         *)
(* A name is the sequence of its words: "uart_0.in_a_valid" is             *)
(* <<"uart0", "in", "a", "valid">>.  processJson joins all words with "_", *)
(* so a prefix or a suffix is one of words.  A dict of cosim.json is a     *)
(* record whose DOMAIN is the keys that it has.  TileLink's 20 signals are *)
(* six: each direction with a required one of one spelling, a required one *)
(* of two spellings, and an optional one.                                  *)
(***************************************************************************)
EXTENDS Integers, Sequences, FiniteSets

----------------------------------------------------------------------------
(* Names and ports.                                                        *)

\* n.startswith(p + "_")
StartsWith(n, p) == Len(p) < Len(n) /\ SubSeq(n, 1, Len(p)) = p

\* n.endswith("_" + s)
EndsWith(n, s) == Len(s) < Len(n) /\ SubSeq(n, Len(n) - Len(s) + 1, Len(n)) = s

Contains(n, s) == \E k \in 1 .. Len(n) - Len(s) + 1 : SubSeq(n, k, k + Len(s) - 1) = s

Least(S) == CHOOSE k \in S : \A l \in S : k <= l

\* A state of the extracted model: inst is the instance a port was hoisted
\* from, <<>> for a port of the design's own boundary.
Name(s) == s.inst \o s.bare

\* model.io: the states that are ports.
IsPort(s) == s.typ \in {"input", "output"}

----------------------------------------------------------------------------
(* An entry of cosim.json and the interface it loads as.                   *)

Keys == [clock     |-> {"name", "freq_mhz"},
         reset     |-> {"name", "active_low"},
         tilelink  |-> {"prefix", "dir", "clock", "reset"},
         interrupt |-> {"name", "prefix", "dir"},
         gpio      |-> {"name", "prefix", "dir"}]

ORDER == [clock |-> 0, reset |-> 1, tilelink |-> 2, interrupt |-> 3, gpio |-> 4]

NEEDS_QEMU == {"tilelink", "interrupt", "gpio"}
SOC_RTL_OK == {"clock", "reset"}

Get(d, key, default) == IF key \in DOMAIN d THEN d[key] ELSE default

\* load() of each kind: one that raises accepts nothing.
LoadsClock(d) == {"name", "freq_mhz"} \subseteq DOMAIN d
LoadsReset(d) == "name" \in DOMAIN d
LoadsWire(d)  == /\ "prefix" \in DOMAIN d <=> "name" \notin DOMAIN d
                 /\ Get(d, "dir", "out") \in {"out", "in"}
LoadsBus(d)   == {"prefix", "dir"} \subseteq DOMAIN d /\ d.dir \in {"slave", "master"}

LoadsInterface(d) ==
  /\ "kind" \in DOMAIN d /\ d.kind \in DOMAIN Keys
  /\ DOMAIN d \subseteq {"kind"} \union Keys[d.kind]
  /\ d.kind = "clock" => LoadsClock(d)
  /\ d.kind = "reset" => LoadsReset(d)
  /\ d.kind = "tilelink" => LoadsBus(d)
  /\ d.kind \in {"interrupt", "gpio"} => LoadsWire(d)

Interface(d) ==
  [kind  |-> d.kind,
   name  |-> IF "name" \in DOMAIN d THEN d.name ELSE d.prefix,
   exact |-> "name" \in DOMAIN d,
   dir   |-> Get(d, "dir", "out"),
   freq  |-> Get(d, "freq_mhz", 0),
   clock |-> Get(d, "clock", <<>>),
   reset |-> Get(d, "reset", <<>>)]

\* Component.load
LoadsComponent(c) ==
  LET kinds == {c.interfaces[k].kind : k \in DOMAIN c.interfaces} IN
  /\ ~c.soc_rtl => {"type", "path"} \subseteq DOMAIN c
  /\ \A k \in DOMAIN c.interfaces : LoadsInterface(c.interfaces[k])
  /\ "clock" \in kinds
  /\ ~c.soc_rtl => (kinds \intersect NEEDS_QEMU # {} => "reset" \in kinds)
  /\ c.soc_rtl => kinds \subseteq SOC_RTL_OK /\ {"compat", "dts_path"} \intersect DOMAIN c = {}

----------------------------------------------------------------------------
(* The --port regex of cosim-extract.  LLVM's match is not anchored at the *)
(* front: "clock$" matches "tx_clock" and "in.*$" a name with "in" in it.  *)

\* port_patterns: a name that ends the port's, or one anywhere in it.
Matches(i, bare) ==
  IF i.exact THEN bare = i.name \/ EndsWith(bare, i.name) ELSE Contains(bare, i.name)

\* The states of d that the extraction leaves: internal ones, the ports of
\* the boundary and those hoisted from the instance.
Hoisted(d, ifaces) ==
  {k \in DOMAIN d : d[k].inst # <<>> /\ \E i \in DOMAIN ifaces : Matches(ifaces[i], d[k].bare)}

----------------------------------------------------------------------------
(* PortMatcher: d is the model's states, io the ports left in the pool.    *)

\* _derive_prefix
Prefix(d, io, anchor) ==
  LET hits == {k \in io : Name(d[k]) = anchor \/ EndsWith(Name(d[k]), anchor)}
      name == Name(d[Least(hits)])
  IN IF anchor = <<>> \/ hits = {} THEN <<>> ELSE SubSeq(name, 1, Len(name) - Len(anchor))

\* match: {} is its ValueError.
Match(d, io, prefix, i) ==
  LET Hits(cand) == {k \in io : \/ Name(d[k]) = cand
                                \/ ~i.exact /\ StartsWith(Name(d[k]), cand)}
  IN IF Hits(i.name) # {} THEN Hits(i.name) ELSE Hits(prefix \o i.name)

\* resolve_prefix
BusPrefix(d, io, prefix, name) ==
  LET Carried(cand) == \E k \in io : StartsWith(Name(d[k]), cand)
  IN IF ~Carried(name) /\ Carried(prefix \o name) THEN prefix \o name ELSE name

\* The signals of a TileLink slave: direction, optional, spellings.
SlaveSignals ==
  [a_valid |-> [typ |-> "input",  optional |-> FALSE, names |-> {<<"a", "valid">>}],
   a_data  |-> [typ |-> "input",  optional |-> FALSE,
                names |-> {<<"a", "data">>, <<"a", "bits", "data">>}],
   a_param |-> [typ |-> "input",  optional |-> TRUE,
                names |-> {<<"a", "param">>, <<"a", "bits", "param">>}],
   a_ready |-> [typ |-> "output", optional |-> FALSE, names |-> {<<"a", "ready">>}],
   d_size  |-> [typ |-> "output", optional |-> FALSE,
                names |-> {<<"d", "size">>, <<"d", "bits", "size">>}],
   d_sink  |-> [typ |-> "output", optional |-> TRUE,
                names |-> {<<"d", "sink">>, <<"d", "bits", "sink">>}]]

flip(typ) == IF typ = "output" THEN "input" ELSE "output"

SIGNALS(dir) ==
  IF dir = "slave" THEN SlaveSignals
  ELSE [s \in DOMAIN SlaveSignals |-> [SlaveSignals[s] EXCEPT !.typ = flip(@)]]

\* find_one: the first port that spells the signal, or none.
FindOne(d, io, prefix, sig) ==
  LET hits == {k \in io : /\ \E n \in sig.names : Name(d[k]) = prefix \o n
                          /\ d[k].typ = sig.typ}
  IN {k \in hits : \A l \in hits : k <= l}

\* BusInterface.resolve: the port of each signal; {} is its placeholder.
BusIo(d, io, prefix, i) ==
  [s \in DOMAIN SlaveSignals |->
     FindOne(d, io, BusPrefix(d, io, prefix, i.name), SIGNALS(i.dir)[s])]

\* resolve: the ports interface i takes, {} if it raises ValueError.
Resolve(d, io, prefix, i) ==
  IF i.kind = "tilelink"
  THEN LET found == BusIo(d, io, prefix, i) IN
       IF \E s \in DOMAIN found : found[s] = {} /\ ~SIGNALS(i.dir)[s].optional
       THEN {} ELSE UNION {found[s] : s \in DOMAIN found}
  ELSE Match(d, io, prefix, i)

----------------------------------------------------------------------------
(* infer_interfaces.  A guess stands at the position of the port it is     *)
(* made from; slaves come after the masters.                               *)

CLOCK_NAMES == {"clock", "clk"}
RESET_NAMES == {"reset", "rst"}

Last(n) == n[Len(n)]

Guess(d, io, k) ==
  LET n == Name(d[k])
      guess == [kind |-> "clock", name |-> n, exact |-> TRUE, dir |-> "out",
                freq |-> 0, clock |-> <<>>, reset |-> <<>>]
      anchor == <<"a", "valid">>
  IN IF Last(n) \in CLOCK_NAMES THEN {guess}
     ELSE IF Last(n) \in RESET_NAMES THEN {[guess EXCEPT !.kind = "reset"]}
     ELSE IF "int" \in {n[w] : w \in 2 .. Len(n) - 1}
          THEN {[guess EXCEPT !.kind = "interrupt",
                              !.dir = IF d[k].typ = "output" THEN "out" ELSE "in"]}
     ELSE IF EndsWith(n, anchor)
          THEN {[guess EXCEPT !.kind = "tilelink", !.exact = FALSE,
                              !.name = SubSeq(n, 1, Len(n) - 2),
                              !.dir = IF d[k].typ = "input" THEN "slave" ELSE "master"]}
     ELSE {}

\* The guesses, as a function of their positions.
InferInterfaces(d, io) ==
  LET At(k) == CHOOSE g \in Guess(d, io, k) : TRUE
      slave == {k \in io : Guess(d, io, k) # {} /\ At(k).dir = "slave"}
      rest  == {k \in io : Guess(d, io, k) # {}} \ slave
  IN [p \in rest \union {k + Len(d) : k \in slave} |->
        At(IF p \in rest THEN p ELSE p - Len(d))]
=============================================================================
