------------------------- MODULE MCHWOptInterfaces -------------------------
EXTENDS HWOptInterfaces, TLC

MCModules == {"Top", "M", "N"}
MCParentOf == [a |-> "Top", b |-> "Top", n |-> "M"]
MCModuleOf == [a |-> "M", b |-> "M", n |-> "N"]
MCIn == [Top |-> {"p"}, M |-> {"i", "j"}, N |-> {"k", "l"}]

\* All bodies in which each sink has one of the given values.
Bodies(choices) ==
  {f \in [DOMAIN choices -> UNION {choices[s] : s \in DOMAIN choices}] :
     \A s \in DOMAIN choices : f[s] \in choices[s]}

NBodies ==
  Bodies(OutSink("w") :> {Arg("k"), Reg("h")} @@ Reg("h") :> {Arg("l")})

MBodies ==
  Bodies(OutSink("o") :> {Arg("i"), Reg("g"), Const("1")} @@ OutSink("u") :> {Res("n", "w")}
         @@ Reg("g") :> {Arg("i")}
         @@ OpdSink("n", "k") :> {Arg("j"), Const("0")} @@ OpdSink("n", "l") :> {Arg("j")})
  \cup
  Bodies(OutSink("o") :> {Arg("i"), Reg("g")} @@ OutSink("u") :> {Reg("g")}
         @@ Reg("g") :> {Arg("i")}
         @@ OpdSink("n", "k") :> {Arg("j")} @@ OpdSink("n", "l") :> {Arg("j")})

\* The ways the instances of M are connected.
TopBodies(onB) ==
  Bodies(OutSink("q") :> {Res("a", "o")} @@ OutSink("r") :> {Res("b", "u"), Res("a", "u")}
         @@ OpdSink("a", "i") :> {Const("0"), Res("a", "o")} @@ OpdSink("b", "i") :> onB
         @@ OpdSink("a", "j") :> {Res("a", "u"), Arg("p")}
         @@ OpdSink("b", "j") :> {Res("b", "u"), Res("a", "o")})

AllDesigns(onB) ==
  {d \in {[Top |-> t, M |-> m, N |-> n] : t \in TopBodies(onB), m \in MBodies, n \in NBodies} :
     NoWireLoop(d)}

MCDesigns == {d \in AllDesigns({Const("0"), Res("b", "o")}) : ~SharedFeedback(d)}

\* Those the pass gets wrong.
SharingDesigns == {d \in AllDesigns({Res("a", "o")}) : SharedFeedback(d)}

\* The first pass of cosim-extract, for the component a/n; the later one; the only
\* one when the whole design is taken.
MCOptions ==
  {[keepPorts |-> TRUE,  ports |-> {}, modules |-> {"M", "N"}],
   [keepPorts |-> FALSE, ports |-> {<<"M", "u">>, <<"N", "k">>}, modules |-> {}],
   [keepPorts |-> FALSE, ports |-> {}, modules |-> {}]}
=============================================================================
