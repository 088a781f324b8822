---------------------------- MODULE MCArcWrapper ----------------------------
(* Two clocks that sometimes change together and sometimes apart.          *)
EXTENDS ArcWrapper

MCClocks == {"core", "phy"}
MCHalf == [c \in MCClocks |-> IF c = "core" THEN 2 ELSE 3]
=============================================================================
