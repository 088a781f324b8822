-------------------------------- MODULE TLM2TL --------------------------------
(***************************************************************************)
(* TLM2TLBridge (include/TLM2TLBridge.h): QEMU's memory accesses, TLM        *)
(* b_transport calls, become TileLink messages to the RTL.                   *)
(*                                                                         *)
(* b_transport is one SystemC thread that only ever runs at a rising clock   *)
(* edge; pc names the wait() it is suspended in.  An sc_signal keeps its old *)
(* value until the running threads suspend, so everything a step reads is    *)
(* an unprimed wire and everything it writes is a primed one: one step of    *)
(* Edge is one rising edge, in which the bridge and the RTL both act on the  *)
(* wires of the cycle that ends and drive those of the cycle that begins.    *)
(* An sc_assert that fails ends the simulation: pc becomes "abort".          *)
(***************************************************************************)
EXTENDS TileLink

CONSTANTS
  Lens,         \* the data lengths of the initiator's accesses
  RocketQuirk,  \* the template parameter rocketChipQuirk
  SlaveKinds    \* the TileLink slaves the RTL may be, see SlaveKind

(***************************************************************************)
(* How an RTL slave may behave.  early: it answers a request it sees         *)
(* (a_valid) before it accepts it (a_ready), as a combinational slave does;  *)
(* otherwise it answers after its first accepted beat at the earliest.       *)
(* holdsReady: it keeps a_ready up once raised, until a beat is taken.       *)
(* freeOpcode: its d_opcode is arbitrary while d_valid is down.              *)
(***************************************************************************)
SlaveKind == [early : BOOLEAN, holdsReady : BOOLEAN, freeOpcode : BOOLEAN]

\* The slaves the bridge works with: one that answers before it accepts keeps its
\* a_ready up, and d_opcode stays while d_valid is down.
Cooperative(k) == (k.early => k.holdsReady) /\ ~k.freeOpcode

ASSUME TLM2TLAssumption ==
  /\ Lens # {} /\ Lens \subseteq 1 .. MaxLen
  /\ \A n \in Lens : IsPowerOfTwo(n)
  /\ RocketQuirk \in BOOLEAN
  /\ SlaveKinds \subseteq SlaveKind

VARIABLES
  pc,         \* the wait() b_transport is suspended in
  trans,      \* the generic payload: command, address and length
  buf,        \* the payload's data array
  status,     \* the payload's response status
  beat,       \* the loop counter i
  aAcked, dAcked,                                      \* the thread's locals
  a_valid, a_ctl, a_data, a_corrupt, d_ready,          \* wires the bridge drives
  a_ready, d_valid, d_opcode, d_data,                  \* wires the RTL drives
  mem,        \* the RTL: the memory behind the slave
  got, sent,  \* the RTL: beats of the current message accepted and answered
  ctl,        \* the RTL: the control fields latched with its first beat
  kind        \* the RTL: which slave it is

bridgeVars == <<pc, trans, buf, status, beat, aAcked, dAcked,
                a_valid, a_ctl, a_data, a_corrupt, d_ready>>
slaveVars == <<a_ready, d_valid, d_opcode, d_data, mem, got, sent, ctl, kind>>
vars == <<bridgeVars, slaveVars>>

-----------------------------------------------------------------------------
Command == {"READ", "WRITE"}
Trans == [cmd : Command, addr : Address, len : Lens]
Control == [opcode : ReqOpcode, size : Lens, addr : Address, mask : SUBSET Lane]

PC == {"idle", "start", "err", "rd", "rdD", "rdA", "wr", "wrD", "fin", "abort"}

\* accessLen: the bytes of one beat.
AccessLen(len) == IF Beats(len) > 1 THEN Bus ELSE len

\* trans.get_address() & (accessLen - 1)
Unaligned(t) == t.addr % AccessLen(t.len) # 0

\* The request as it is put on channel A.
ControlOf(t) ==
  [opcode |-> IF t.cmd = "READ" THEN Get ELSE PutFull,
   size |-> t.len,
   addr |-> t.addr,
   mask |-> Lanes(t.addr, AccessLen(t.len))]

\* The source lane of lane l: with the quirk the access is replicated over the
\* word, without it it is shifted to its lanes and the others are zero (NoByte:
\* they are outside the mask).
GetData(t, i) ==
  LET n == AccessLen(t.len)
      s == ByteShift(t.addr)
  IN [l \in Lane |->
        IF RocketQuirk THEN buf[i * Bus + (l % n)]
        ELSE IF s <= l /\ l < s + n THEN buf[i * Bus + l - s]
        ELSE NoByte]

\* Mutant: the word is not shifted down.
SetDataUnshifted(t, i, word) ==
  [k \in Offset |-> IF i * Bus <= k /\ k < i * Bus + AccessLen(t.len)
                    THEN word[k - i * Bus] ELSE buf[k]]

\* The payload after beat i of a read: n bytes of the word, shifted down.
SetData(t, i, word) ==
  LET n == AccessLen(t.len)
      s == ByteShift(t.addr)
  IN [k \in Offset |-> IF i * Bus <= k /\ k < i * Bus + n
                       THEN word[k - i * Bus + s] ELSE buf[k]]

LastBeat(i) == i = Beats(trans.len) - 1

\* sc_assert(condition): the thread goes on, or the simulation is over.
Assert(condition, next) == IF condition THEN next ELSE "abort"

-----------------------------------------------------------------------------
(***************************************************************************)
(* The initiator: remote-port's memory master calls b_transport.  It is not  *)
(* tied to a clock edge; one access is in flight at a time.                  *)
(***************************************************************************)
PayloadOf(t, data) ==
  [k \in Offset |-> IF t.cmd = "WRITE" /\ k < t.len THEN data[k] ELSE NoByte]

Call(t) ==
  /\ pc = "idle"
  /\ t.addr + t.len <= MemSize
  /\ pc' = "start"
  /\ trans' = t
  /\ \E data \in Payload : buf' = PayloadOf(t, data)
  /\ status' = "INCOMPLETE"
  /\ beat' = 0
  /\ UNCHANGED <<aAcked, dAcked, a_valid, a_ctl, a_data, a_corrupt, d_ready>>
  /\ UNCHANGED slaveVars

-----------------------------------------------------------------------------
(***************************************************************************)
(* The bridge at a rising edge, one action per wait() it can resume from.    *)
(***************************************************************************)

\* Line 66: an address that is not a multiple of the beat's length is refused,
\* with a pulse on a_corrupt and no request.
StartUnaligned ==
  /\ pc = "start"
  /\ Unaligned(trans)
  /\ pc' = Assert(IsPowerOfTwo(trans.len), "err")
  /\ status' = "ADDRESS_ERROR"
  /\ a_corrupt' = TRUE
  /\ UNCHANGED <<trans, buf, beat, aAcked, dAcked, a_valid, a_ctl, a_data, d_ready>>

\* aAcked is taken from the a_ready of the cycle before the request is visible.
StartRead ==
  /\ pc = "start"
  /\ trans.cmd = "READ"
  /\ ~Unaligned(trans)
  /\ pc' = Assert(IsPowerOfTwo(trans.len), "rd")
  /\ a_valid' = TRUE
  /\ a_ctl' = ControlOf(trans)
  /\ d_ready' = TRUE
  /\ aAcked' = a_ready
  /\ dAcked' = TRUE
  /\ UNCHANGED <<trans, buf, status, beat, a_data, a_corrupt>>

\* Mutant: d_ready goes up with the first beat.
StartWriteReady ==
  /\ pc = "start"
  /\ trans.cmd = "WRITE"
  /\ ~Unaligned(trans)
  /\ pc' = Assert(IsPowerOfTwo(trans.len), "wr")
  /\ a_valid' = TRUE
  /\ a_ctl' = ControlOf(trans)
  /\ a_data' = GetData(trans, 0)
  /\ d_ready' = TRUE
  /\ dAcked' = d_valid
  /\ aAcked' = TRUE
  /\ UNCHANGED <<trans, buf, status, beat, a_corrupt>>

\* d_ready goes up with the last beat, and dAcked is then taken from the d_valid
\* of the cycle before d_ready is visible.
StartWrite ==
  /\ pc = "start"
  /\ trans.cmd = "WRITE"
  /\ ~Unaligned(trans)
  /\ pc' = Assert(IsPowerOfTwo(trans.len), "wr")
  /\ a_valid' = TRUE
  /\ a_ctl' = ControlOf(trans)
  /\ a_data' = GetData(trans, 0)
  /\ d_ready' = LastBeat(0)
  /\ dAcked' = (LastBeat(0) /\ d_valid)
  /\ aAcked' = TRUE
  /\ UNCHANGED <<trans, buf, status, beat, a_corrupt>>

EndError ==
  /\ pc = "err"
  /\ pc' = "idle"
  /\ a_corrupt' = FALSE
  /\ UNCHANGED <<trans, buf, status, beat, aAcked, dAcked, a_valid, a_ctl, a_data, d_ready>>

\* Mutant: a_valid stays up after the request is accepted.
ReadBeatKeepsValid(acked, next) ==
  /\ aAcked' = acked
  /\ IF ~d_valid
     THEN pc' = Assert(d_ready, next) /\ UNCHANGED <<a_valid, buf, beat, d_ready, status>>
     ELSE /\ buf' = SetData(trans, beat, d_data)
          /\ beat' = beat + 1
          /\ IF ~LastBeat(beat)
             THEN /\ pc' = Assert(d_ready /\ d_opcode = AccessAckData, "rd")
                  /\ UNCHANGED <<a_valid, d_ready, status>>
             ELSE /\ pc' = Assert(d_ready /\ d_opcode = AccessAckData,
                                  IF acked THEN "fin" ELSE "rdA")
                  /\ a_valid' = (a_valid /\ ~acked)
                  /\ d_ready' = FALSE
                  /\ status' = IF acked THEN "OK" ELSE status
  /\ UNCHANGED <<trans, dAcked, a_ctl, a_data, a_corrupt>>

\* Mutant: with the last word the call is over, accepted or not.
ReadBeatNoAccept(acked, next) ==
  /\ aAcked' = acked
  /\ IF ~d_valid
     THEN /\ pc' = Assert(d_ready, next)
          /\ a_valid' = (a_valid /\ ~a_ready)
          /\ UNCHANGED <<buf, beat, d_ready, status>>
     ELSE /\ buf' = SetData(trans, beat, d_data)
          /\ beat' = beat + 1
          /\ pc' = IF LastBeat(beat) THEN "fin" ELSE "rd"
          /\ a_valid' = (a_valid /\ ~a_ready /\ ~LastBeat(beat))
          /\ d_ready' = ~LastBeat(beat)
          /\ status' = IF LastBeat(beat) THEN "OK" ELSE status
  /\ UNCHANGED <<trans, dAcked, a_ctl, a_data, a_corrupt>>

\* The rest of a read beat once the A side of this edge is settled: acked is the
\* new aAcked and next the wait() the thread is in when no data has arrived.
ReadBeat(acked, next) ==
  /\ aAcked' = acked
  /\ IF ~d_valid
     THEN /\ pc' = Assert(d_ready, next)
          /\ a_valid' = (a_valid /\ ~a_ready)
          /\ UNCHANGED <<buf, beat, d_ready, status>>
     ELSE /\ buf' = SetData(trans, beat, d_data)
          /\ beat' = beat + 1
          /\ IF ~LastBeat(beat)
             THEN /\ pc' = Assert(d_ready /\ d_opcode = AccessAckData, "rd")
                  /\ a_valid' = (a_valid /\ ~a_ready)
                  /\ UNCHANGED <<d_ready, status>>
             ELSE /\ pc' = Assert(d_ready /\ d_opcode = AccessAckData,
                                  IF acked THEN "fin" ELSE "rdA")
                  /\ a_valid' = (a_valid /\ ~acked)
                  /\ d_ready' = FALSE
                  /\ status' = IF acked THEN "OK" ELSE status
  /\ UNCHANGED <<trans, dAcked, a_ctl, a_data, a_corrupt>>

\* Line 107: the first look at the wires of a beat.
ReadFirst ==
  /\ pc = "rd"
  /\ ReadBeat(aAcked \/ (a_ready /\ a_valid), "rdD")

\* Line 115: waiting for the data.
ReadWaitData ==
  /\ pc = "rdD"
  /\ ReadBeat(aAcked \/ a_ready, "rdD")

\* Line 153: all data is there, the request itself is still to be accepted.
ReadWaitAccept ==
  /\ pc = "rdA"
  /\ aAcked' = a_ready
  /\ pc' = Assert(a_valid /\ (a_ready => d_opcode = AccessAckData),
                  IF a_ready THEN "fin" ELSE "rdA")
  /\ a_valid' = (a_valid /\ ~a_ready)
  /\ status' = IF a_ready THEN "OK" ELSE status
  /\ UNCHANGED <<trans, buf, beat, dAcked, a_ctl, a_data, a_corrupt, d_ready>>

AckSeen == dAcked \/ (d_ready /\ d_valid)

\* Mutant: an answer seen during an earlier stalled cycle is forgotten.
WriteStallForgets ==
  /\ pc = "wr"
  /\ ~a_ready
  /\ pc' = Assert(a_valid, "wr")
  /\ dAcked' = (d_ready /\ d_valid)
  /\ UNCHANGED <<trans, buf, status, beat, aAcked, a_valid, a_ctl, a_data, a_corrupt, d_ready>>

\* Lines 134-139: the beat is not accepted at this edge.
WriteStall ==
  /\ pc = "wr"
  /\ ~a_ready
  /\ pc' = Assert(a_valid, "wr")
  /\ dAcked' = AckSeen
  /\ UNCHANGED <<trans, buf, status, beat, aAcked, a_valid, a_ctl, a_data, a_corrupt, d_ready>>

\* Lines 142-147 and 126-133: the beat is accepted and the next one is put out.
WriteNext ==
  /\ pc = "wr"
  /\ a_ready
  /\ ~LastBeat(beat)
  /\ pc' = Assert(a_valid /\ ~AckSeen, "wr")
  /\ beat' = beat + 1
  /\ a_data' = GetData(trans, beat + 1)
  /\ d_ready' = (d_ready \/ LastBeat(beat + 1))
  /\ dAcked' = IF LastBeat(beat + 1) THEN d_valid ELSE AckSeen
  /\ UNCHANGED <<trans, buf, status, aAcked, a_valid, a_ctl, a_corrupt>>

\* Mutant: the call does not wait for the answer.
WriteLastNoWait ==
  /\ pc = "wr"
  /\ a_ready
  /\ LastBeat(beat)
  /\ pc' = "fin"
  /\ beat' = beat + 1
  /\ a_valid' = FALSE
  /\ dAcked' = TRUE
  /\ d_ready' = FALSE
  /\ status' = "OK"
  /\ UNCHANGED <<trans, buf, aAcked, a_ctl, a_data, a_corrupt>>

\* Lines 142-147 and 162: the last beat is accepted; is its answer here already?
WriteLast ==
  /\ pc = "wr"
  /\ a_ready
  /\ LastBeat(beat)
  /\ pc' = Assert(a_valid /\ (AckSeen => d_opcode = AccessAck),
                  IF AckSeen THEN "fin" ELSE "wrD")
  /\ beat' = beat + 1
  /\ a_valid' = FALSE
  /\ dAcked' = AckSeen
  /\ d_ready' = (d_ready /\ ~AckSeen)
  /\ status' = IF AckSeen THEN "OK" ELSE status
  /\ UNCHANGED <<trans, buf, aAcked, a_ctl, a_data, a_corrupt>>

\* Line 164: waiting for the answer.
WriteWaitAck ==
  /\ pc = "wrD"
  /\ pc' = Assert(d_ready /\ (d_valid => d_opcode = AccessAck),
                  IF d_valid THEN "fin" ELSE "wrD")
  /\ dAcked' = d_valid
  /\ d_ready' = ~d_valid
  /\ status' = IF d_valid THEN "OK" ELSE status
  /\ UNCHANGED <<trans, buf, beat, aAcked, a_valid, a_ctl, a_data, a_corrupt>>

\* Line 177: the last wait(), after which b_transport returns.
Return ==
  /\ pc = "fin"
  /\ pc' = "idle"
  /\ UNCHANGED <<trans, buf, status, beat, aAcked, dAcked,
                 a_valid, a_ctl, a_data, a_corrupt, d_ready>>

\* No call in progress: the clock runs on.
NoCall ==
  /\ pc = "idle"
  /\ UNCHANGED bridgeVars

Bridge ==
  \/ StartUnaligned \/ StartRead \/ StartWrite \/ EndError
  \/ ReadFirst \/ ReadWaitData \/ ReadWaitAccept
  \/ WriteStall \/ WriteNext \/ WriteLast \/ WriteWaitAck
  \/ Return \/ NoCall

-----------------------------------------------------------------------------
(***************************************************************************)
(* The RTL at the same edge (external): a TileLink slave in front of a       *)
(* memory, with one message in flight.  Handshakes are those of the wires of *)
(* the cycle that ends.                                                      *)
(***************************************************************************)
AFire == a_valid /\ a_ready
DFire == d_valid /\ d_ready

\* The beats a message takes on channel A and on channel D.
ABeats(c) == IF c.opcode = Get THEN 1 ELSE Beats(c.size)
DBeats(c) == IF c.opcode = Get THEN Beats(c.size) ELSE 1

\* The control fields of the message in flight once this edge's beat is counted.
CtlNow == IF AFire /\ got = 0 THEN a_ctl ELSE ctl

GotNow == got + IF AFire THEN 1 ELSE 0
SentNow == sent + IF DFire THEN 1 ELSE 0
MessageDone == GotNow = ABeats(CtlNow) /\ SentNow = DBeats(CtlNow)

WordAt(m, base) == [l \in Lane |-> IF base + l \in Address THEN m[base + l] ELSE NoByte]

SlaveAccept ==
  /\ ctl' = CtlNow
  /\ got' = IF MessageDone THEN 0 ELSE GotNow
  /\ sent' = IF MessageDone THEN 0 ELSE SentNow
  /\ mem' = IF AFire /\ CtlNow.opcode = PutFull
            THEN LET base == WordBase(CtlNow.addr) + got * Bus
                 IN [x \in Address |-> IF x - base \in CtlNow.mask
                                       THEN a_data[x - base] ELSE mem[x]]
            ELSE mem
  /\ kind' = kind

\* The message an answer may be given to in the cycle that begins.
Answerable == got' > 0 \/ (kind.early /\ a_valid')
Answered == IF got' > 0 THEN ctl' ELSE a_ctl'

Offer ==
  /\ d_valid' = TRUE
  /\ Answerable
  /\ sent' < DBeats(Answered)
  /\ d_opcode' = IF Answered.opcode = Get THEN AccessAckData ELSE AccessAck
  /\ d_data' = IF Answered.opcode = Get
               THEN WordAt(mem, WordBase(Answered.addr) + sent' * Bus)
               ELSE [l \in Lane |-> NoByte]

\* An answer that was not taken is kept.
KeepOffer ==
  /\ d_valid /\ ~d_ready
  /\ UNCHANGED <<d_valid, d_opcode, d_data>>

NoOffer ==
  /\ ~(d_valid /\ ~d_ready)
  /\ d_valid' = FALSE
  /\ d_opcode' \in IF kind.freeOpcode THEN RespOpcode ELSE {d_opcode}
  /\ d_data' = [l \in Lane |-> NoByte]

SlaveReady ==
  /\ a_ready' \in BOOLEAN
  /\ kind.holdsReady /\ a_ready /\ ~a_valid => a_ready'

Slave ==
  /\ SlaveAccept
  /\ SlaveReady
  /\ \/ Offer /\ ~(d_valid /\ ~d_ready)
     \/ KeepOffer
     \/ NoOffer

-----------------------------------------------------------------------------
NoControl == [opcode |-> Get, size |-> CHOOSE n \in Lens : TRUE, addr |-> 0, mask |-> {}]

Init ==
  /\ pc = "idle"
  /\ trans = [cmd |-> "READ", addr |-> 0, len |-> CHOOSE n \in Lens : TRUE]
  /\ buf = [k \in Offset |-> NoByte]
  /\ status = "OK"
  /\ beat = 0
  /\ aAcked = TRUE
  /\ dAcked = TRUE
  /\ a_valid = FALSE
  /\ a_ctl = NoControl
  /\ a_data = [l \in Lane |-> NoByte]
  /\ a_corrupt = FALSE
  /\ d_ready = FALSE
  /\ a_ready \in BOOLEAN
  /\ d_valid = FALSE
  /\ d_opcode = AccessAck
  /\ d_data = [l \in Lane |-> NoByte]
  /\ mem \in Contents
  /\ got = 0
  /\ sent = 0
  /\ ctl = NoControl
  /\ kind \in SlaveKinds

Edge == Bridge /\ Slave

Next ==
  \/ \E t \in Trans : Call(t)
  \/ Edge

Spec == Init /\ [][Next]_vars

(***************************************************************************)
(* The clock never stops, the RTL is ready again and again and answers what  *)
(* it can answer; the initiator owes nothing.                                *)
(***************************************************************************)
Fairness ==
  /\ WF_vars(Edge)
  /\ WF_vars(Edge /\ a_ready')
  /\ WF_vars(Edge /\ d_valid')

FairSpec == Spec /\ Fairness

-----------------------------------------------------------------------------
TypeOK ==
  /\ pc \in PC
  /\ trans \in Trans
  /\ buf \in [Offset -> AnyByte]
  /\ status \in {"INCOMPLETE", "OK", "ADDRESS_ERROR"}
  /\ beat \in 0 .. MaxLen
  /\ aAcked \in BOOLEAN /\ dAcked \in BOOLEAN
  /\ a_valid \in BOOLEAN /\ a_corrupt \in BOOLEAN /\ d_ready \in BOOLEAN
  /\ a_ctl \in Control
  /\ a_data \in Word
  /\ a_ready \in BOOLEAN /\ d_valid \in BOOLEAN
  /\ d_opcode \in RespOpcode
  /\ d_data \in Word
  /\ mem \in [Address -> AnyByte]
  /\ got \in 0 .. MaxLen /\ sent \in 0 .. MaxLen
  /\ ctl \in Control
  /\ kind \in SlaveKinds

\* None of the bridge's sc_asserts ever fails: the acknowledgement bits agree with
\* the wires whenever b_transport tests them, and every answer it takes is of the
\* kind it waits for.
NoAssertFails == pc # "abort"

\* b_transport leaves the link as it found it.  Outside a transfer the RTL has no
\* beat left to accept or to answer and the bridge drives neither handshake, so
\* the next call cannot take over the rest of an earlier message.
LinkQuiet ==
  pc \in {"idle", "start", "err", "fin"} =>
    /\ got = 0 /\ sent = 0
    /\ ~a_valid /\ ~d_ready /\ ~d_valid

\* A beat the RTL accepts is one of the message in flight: the bridge lowers
\* a_valid, or moves on to the next beat, at the very edge of the handshake.
NoStrayBeat ==
  AFire => got < ABeats(CtlNow) /\ (got > 0 => a_ctl = ctl)

\* A request that is put on channel A is neither withdrawn nor changed before it
\* is accepted.
RequestHeld ==
  [][a_valid /\ ~a_ready => a_valid' /\ a_ctl' = a_ctl /\ a_data' = a_data]_vars

AccessOf(t) ==
  [cmd |-> t.cmd, addr |-> t.addr, offsets |-> {k \in Offset : k < t.len}]

\* The bridge is a memory service: the offsets moved are those of the beats the
\* loop has finished.
Service == INSTANCE MemService WITH
  Addresses <- Address, Access <- {AccessOf(t) : t \in Trans},
  Values <- AnyByte, Offsets <- Offset, Keeps <- TRUE,
  memory <- mem, busy <- pc # "idle", access <- AccessOf(trans), array <- buf,
  moved <- IF pc = "idle" THEN {} ELSE {k \in AccessOf(trans).offsets : k < beat * Bus},
  result <- IF pc = "idle" THEN status ELSE "INCOMPLETE"

ImplementsService == Service!Spec

\* Every call of b_transport returns.
CallReturns == pc = "start" ~> pc = "idle"

===============================================================================
