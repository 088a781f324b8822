------------------------------- MODULE MCTL2TLM -------------------------------
(***************************************************************************)
(* Instances of TL2TLM: a two-byte bus, messages of one byte (part of a      *)
(* word), two bytes (a word) and four bytes (a burst of two beats).          *)
(***************************************************************************)
EXTENDS TL2TLM

\* The bridges copy bytes and never look at them, so it is enough that every byte
\* tells where it comes from.
AllBytes == 0 .. 13
OnePayload == {[k \in 0 .. 3 |-> 10 + k]}
OneContents == {[x \in 0 .. 3 |-> x]}
===============================================================================
