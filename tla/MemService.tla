------------------------------ MODULE MemService ------------------------------
(***************************************************************************)
(* What a bridge promises its client, whichever direction it works in: one   *)
(* access at a time to a byte memory.  An access moves its bytes one group   *)
(* after another, each byte once, in any order; it completes when all of     *)
(* them have moved, and an access that is refused has moved none.  No step   *)
(* touches a byte outside the access in flight.                              *)
(***************************************************************************)
EXTENDS Integers

CONSTANTS
  Addresses,  \* the addresses of the memory
  Access,     \* the accesses a client may make: records of a command, an address
              \* and the offsets from that address that the access covers
  Values,     \* the values of a byte, a byte nobody wrote included
  Offsets,    \* the indices of the client's data array
  Keeps       \* does the client keep its access and its array when it is over?

VARIABLES
  memory,     \* the memory
  busy,       \* is an access in flight?
  access,     \* the access in flight, or the last one
  array,      \* the client's data array: source of a write, target of a read
  moved,      \* the offsets of the bytes moved so far
  result      \* the outcome the client sees

vars == <<memory, busy, access, array, moved, result>>

Init ==
  /\ memory \in [Addresses -> Values]
  /\ busy = FALSE
  /\ access \in Access
  /\ array \in [Offsets -> Values]
  /\ moved = {}
  /\ result = "OK"

Issue ==
  /\ ~busy
  /\ busy' = TRUE
  /\ access' \in Access
  /\ array' \in [Offsets -> Values]
  /\ moved' = {}
  /\ result' = "INCOMPLETE"
  /\ UNCHANGED memory

Move(S) ==
  /\ busy
  /\ S # {}
  /\ S \subseteq access.offsets \ moved
  /\ moved' = moved \cup S
  /\ \/ /\ access.cmd = "WRITE"
        /\ memory' = [x \in Addresses |-> IF x - access.addr \in S
                                          THEN array[x - access.addr] ELSE memory[x]]
        /\ UNCHANGED array
     \/ /\ access.cmd = "READ"
        /\ array' = [k \in Offsets |-> IF k \in S THEN memory[access.addr + k] ELSE array[k]]
        /\ UNCHANGED memory
  /\ UNCHANGED <<busy, access, result>>

Complete ==
  /\ busy
  /\ moved = access.offsets
  /\ busy' = FALSE
  /\ result' = "OK"
  /\ moved' = {}
  /\ Keeps => access' = access
  /\ access' \in Access
  /\ Keeps => array' = array
  /\ array' \in [Offsets -> Values]
  /\ UNCHANGED memory

Refuse ==
  /\ busy
  /\ moved = {}
  /\ busy' = FALSE
  /\ result' = "ADDRESS_ERROR"
  /\ UNCHANGED <<memory, access, array, moved>>

Next ==
  \/ Issue
  \/ \E S \in SUBSET Offsets : Move(S)
  \/ Complete
  \/ Refuse

Spec == Init /\ [][Next]_vars
===============================================================================
