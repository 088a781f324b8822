------------------------------- MODULE MCTLM2TL -------------------------------
(***************************************************************************)
(* Instances of TLM2TL: a two-byte bus, so that accesses of one byte use a   *)
(* part of a word, of two bytes a word and of four bytes a burst.            *)
(***************************************************************************)
EXTENDS TLM2TL

CooperativeSlaves == {k \in SlaveKind : Cooperative(k)}

\* The bridges copy bytes and never look at them, so it is enough that every byte
\* tells where it comes from.
AllBytes == 0 .. 13
OnePayload == {[k \in 0 .. 3 |-> 10 + k]}
OneContents == {[x \in 0 .. 3 |-> x]}

\* A memory of three bus words: a burst of two may start at the second one.
SixContents == {[x \in 0 .. 5 |-> x]}
===============================================================================
