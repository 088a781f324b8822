------------------------------ MODULE MCBuild ------------------------------
(* Every list of backends, in either order. *)
EXTENDS Build

AllLists == {<<"arcilator">>, <<"verilator">>,
             <<"arcilator", "verilator">>, <<"verilator", "arcilator">>}
Extraction == {"logic", "ports", "decl"}
Frequency == {"freq"}
=============================================================================
