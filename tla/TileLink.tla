------------------------------- MODULE TileLink -------------------------------
(***************************************************************************)
(* The vocabulary the two TLM/TileLink bridges share: the opcodes of        *)
(* include/tilelink.h, and how a message of len bytes at address addr is    *)
(* laid out on a bus that is Bus bytes wide.  A bus word is a function from *)
(* byte lanes to bytes and a mask is the set of its enabled lanes, so that  *)
(* shifts and masks of the C++ code become arithmetic on lane numbers.      *)
(* Sizes are byte counts: a_size carries their logarithm, which loses       *)
(* nothing because both bridges reject a length that is no power of two.    *)
(***************************************************************************)
EXTENDS Integers, FiniteSets

CONSTANTS
  Bus,       \* sizeof(bussize_t): the bytes of one bus word
  MaxLen,    \* the longest message, in bytes (tlmMaxSize on the TL2TLM side)
  MemSize,   \* the bytes of the memory behind the link: addresses 0..MemSize-1
  Byte,      \* the values of one byte
  NoByte,    \* a byte nobody wrote: the content of a don't-care lane
  Payload,   \* the data arrays a client may send
  Contents   \* what the memory may hold in the beginning

ASSUME TileLinkAssumption ==
  /\ Bus \in Nat \ {0}
  /\ MaxLen \in Nat \ {0}
  /\ MemSize \in Nat \ {0}
  /\ NoByte \notin Byte
  /\ Payload \subseteq [0 .. MaxLen - 1 -> Byte]
  /\ Contents \subseteq [0 .. MemSize - 1 -> Byte]

-----------------------------------------------------------------------------
PutFull == "PutFullData"
PutPartial == "PutPartialData"
Get == "Get"
AccessAck == "AccessAck"
AccessAckData == "AccessAckData"

ReqOpcode == {PutFull, PutPartial, Get}
RespOpcode == {AccessAck, AccessAckData}

AnyByte == Byte \cup {NoByte}
Lane == 0 .. Bus - 1
Word == [Lane -> AnyByte]
Address == 0 .. MemSize - 1
Offset == 0 .. MaxLen - 1

-----------------------------------------------------------------------------
\* beats = (len + sizeof(bussize_t) - 1) / sizeof(bussize_t)
Beats(len) == (len + Bus - 1) \div Bus

\* The lane of the first byte: address & (sizeof(bussize_t) - 1).
ByteShift(addr) == addr % Bus

\* The address of the bus word that holds addr: address & ~(sizeof(bussize_t) - 1).
WordBase(addr) == addr - (addr % Bus)

\* sc_assert((len & (len - 1)) == 0), for the lengths a message may have.
IsPowerOfTwo(len) == \E k \in 0 .. len : len = 2^k

\* Mutant: the mask is shifted by the address, not by its position in the word.
LanesOfAddress(addr, n) == addr .. addr + n - 1

\* The lanes a contiguous run of n bytes starting at addr occupies in its word.
Lanes(addr, n) == {l \in Lane : ByteShift(addr) <= l /\ l < ByteShift(addr) + n}
===============================================================================
