-------------------------------- MODULE TL2TLM --------------------------------
(***************************************************************************)
(* TL2TLMBridge (include/TL2TLMBridge.h): the TileLink messages of an RTL    *)
(* master become TLM accesses to QEMU's memory.                              *)
(*                                                                         *)
(* processReq is one SystemC thread.  Unlike the other bridge it does not    *)
(* only run at rising clock edges: QEMU's b_transport gives it back at any   *)
(* time, while the clock is high or while it is low, and the head of its     *)
(* loop depends on which.  pc names the wait() or the call it is suspended   *)
(* in; Edge is a rising edge.  A wire that is written and read back in one   *)
(* step still has its old value (an sc_signal), which the head of the loop   *)
(* and the end of a PutFull both rely on.                                    *)
(***************************************************************************)
EXTENDS TileLink

CONSTANTS
  Lens,             \* the sizes of the master's messages
  SubWordPartials,  \* may a PutPartial be shorter than a bus word?
  PartialBursts,    \* may a PutPartial be longer than a bus word?
  BackToBack,       \* may a message follow a PutFull burst without an idle cycle?
  Responses         \* the response statuses of the TLM target

ASSUME TL2TLMAssumption ==
  /\ Lens \subseteq 1 .. MaxLen
  /\ \A n \in Lens : IsPowerOfTwo(n)
  /\ MemSize % Bus = 0 /\ MaxLen % Bus = 0
  /\ SubWordPartials \in BOOLEAN
  /\ PartialBursts \in BOOLEAN
  /\ BackToBack \in BOOLEAN
  /\ Responses \subseteq {"OK", "ERROR"}

VARIABLES
  pc,                                    \* where processReq is suspended
  req,                                   \* the locals of one round of the loop: the request
  databuf,                               \* the data, from the first byte of the access on
  beat,                                  \* the loop counter i
  a_ready, d_valid, d_opcode, d_size, d_data,   \* wires the bridge drives
  a_valid, a_ctl, a_data, d_ready,       \* wires the RTL drives
  tmem,                                  \* QEMU: the memory behind the TLM socket
  msg, active,                           \* the RTL: its message, and is it in flight?
  got, sent,                             \* the RTL: its beats accepted and answered
  pause,                                 \* the RTL: it leaves this cycle idle
  rbuf                                   \* the RTL: what a Get has read so far

bridgeVars == <<pc, req, databuf, beat, a_ready, d_valid, d_opcode, d_size, d_data>>
masterVars == <<a_valid, a_ctl, a_data, d_ready, msg, active, got, sent, pause, rbuf>>
vars == <<bridgeVars, tmem, masterVars>>

-----------------------------------------------------------------------------
Control == [opcode : ReqOpcode, size : Lens, addr : Address, mask : SUBSET Lane]

NoControl == [opcode |-> Get, size |-> CHOOSE n \in Lens : TRUE, addr |-> 0, mask |-> {}]
NoData == [k \in Offset |-> NoByte]
NoWord == [l \in Lane |-> NoByte]
NoMessage == [ctl |-> NoControl, data |-> NoData]

PC == {"top", "waitA", "waitE", "getW", "tlmR", "getD",
       "putB", "putW", "putK", "putN", "parD", "putX", "tlmW", "abort"}

\* byte_shift: the lowest enabled lane of a message that fits a word.
MaskShift(c) ==
  IF Beats(c.size) = 1 THEN CHOOSE l \in c.mask : \A m \in c.mask : l <= m ELSE 0

\* The number of bytes of the TLM access; a PutPartial that fits a word shrinks
\* it to its mask.
Bytes(c) ==
  IF c.opcode = PutPartial /\ Beats(c.size) = 1 THEN Cardinality(c.mask) ELSE c.size

Contiguous(mask) == \A l, m \in mask : l .. m \subseteq mask

\* The sc_asserts on a request, lines 66-93.  The one of line 83, that a
\* PutPartial has one beat, stands in the branch for one beat and never fires: a
\* PutPartial burst with a full mask is accepted (see PartialAck).
Supported(c) ==
  /\ c.mask # {}
  /\ IF Beats(c.size) = 1
     THEN /\ Contiguous(c.mask)
          /\ IF c.opcode = PutPartial THEN Cardinality(c.mask) <= c.size
             ELSE Cardinality(c.mask) = c.size
     ELSE c.mask = Lane

\* The target's view of an access: where it starts and how many bytes it has.
\* A read covers whole bus words; a PutPartial starts at address + byte_shift.
TlmAddr(c) == IF c.opcode = Get THEN WordBase(c.addr)
              ELSE IF c.opcode = PutPartial THEN c.addr + MaskShift(c)
              ELSE c.addr
TlmLen(c) == IF c.opcode = Get THEN IF c.size < Bus THEN Bus ELSE c.size
             ELSE Bytes(c)

Assert(condition, next) == IF condition THEN next ELSE "abort"

\* Mutant: the word is not shifted down.
StoreUnshifted(c, i, word) ==
  [k \in Offset |-> IF k \div Bus # i THEN databuf[k] ELSE word[k % Bus]]

\* databuf after beat i of a write: the word, shifted down by bit_shift.
Store(c, i, word) ==
  [k \in Offset |-> IF k \div Bus # i THEN databuf[k]
                    ELSE IF (k % Bus) + MaskShift(c) \in Lane THEN word[(k % Bus) + MaskShift(c)]
                    ELSE NoByte]

\* databuf[i], the word of beat i of a read.
WordOf(data, i) == [l \in Lane |-> data[i * Bus + l]]

-----------------------------------------------------------------------------
(***************************************************************************)
(* The bridge at a rising edge.                                              *)
(***************************************************************************)

\* Lines 56-104, 128-139 and 167-171: a request is taken from channel A and the
\* thread goes to its first wait().  A Put is acknowledged right away: d_valid
\* goes up before its data is complete, let alone written.
TakeGet ==
  /\ a_ctl.opcode = Get
  /\ pc' = Assert(Supported(a_ctl), "getW")
  /\ a_ready' = FALSE
  /\ UNCHANGED <<databuf, beat, d_valid, d_opcode>>

TakePut ==
  /\ a_ctl.opcode \in {PutFull, PutPartial}
  /\ pc' = Assert(Supported(a_ctl), IF a_ctl.opcode = PutFull THEN "putB" ELSE "parD")
  /\ d_valid' = TRUE
  /\ d_opcode' = AccessAck
  /\ databuf' = Store(a_ctl, 0, a_data)
  /\ beat' = 0
  /\ UNCHANGED a_ready

Take ==
  /\ req' = a_ctl
  /\ d_size' = a_ctl.size
  /\ d_data' = d_data
  /\ TakeGet \/ TakePut

\* The head of the loop once the clock is high, lines 49-54, in a step that also
\* wrote a_ready: the old a_ready is still low, so a request that is already
\* there waits for the next edge.
Head(ready) ==
  IF ~a_valid THEN "waitA" ELSE IF ~ready THEN "waitE" ELSE "take"

\* At the end of a round its locals are gone, and so is all that databuf is good
\* for: what a later round reads there without having written it is NoByte.
EndRound ==
  /\ req' = NoControl
  /\ beat' = 0
  /\ databuf' = NoData

\* Line 47: a whole cycle after the end of the last request, a_ready has settled.
TopTake ==
  /\ pc = "top"
  /\ Head(a_ready) = "take"
  /\ Take

TopWait ==
  /\ pc = "top"
  /\ Head(a_ready) # "take"
  /\ pc' = Head(a_ready)
  /\ UNCHANGED <<req, databuf, beat, a_ready, d_valid, d_opcode, d_size, d_data>>

\* Lines 50-51: a_valid rose in the cycle that ends here.
WaitedTake ==
  /\ pc \in {"waitA", "waitE"}
  /\ pc = "waitE" \/ a_valid
  /\ Take

WaitedIdle ==
  /\ pc = "waitA"
  /\ ~a_valid
  /\ UNCHANGED bridgeVars

\* Line 100: the read is sent to QEMU one cycle later.
GetSend ==
  /\ pc = "getW"
  /\ pc' = "tlmR"
  /\ UNCHANGED <<req, databuf, beat, a_ready, d_valid, d_opcode, d_size, d_data>>

\* Lines 120-125: a beat of the answer, and with the last one the loop's head.
\* The last word stays on d_data with d_valid down, where it means nothing: NoWord.
GetStall ==
  /\ pc = "getD"
  /\ ~d_ready
  /\ UNCHANGED bridgeVars

GetNext ==
  /\ pc = "getD"
  /\ d_ready
  /\ beat + 1 < Beats(req.size)
  /\ beat' = beat + 1
  /\ d_data' = WordOf(databuf, beat + 1)
  /\ UNCHANGED <<pc, req, databuf, a_ready, d_valid, d_opcode, d_size>>

\* Mutant: a_ready is not raised again.
GetLastNotReady ==
  /\ pc = "getD"
  /\ d_ready
  /\ beat + 1 = Beats(req.size)
  /\ d_valid' = FALSE
  /\ pc' = Head(a_ready)
  /\ EndRound
  /\ d_data' = NoWord
  /\ UNCHANGED <<a_ready, d_opcode, d_size>>

GetLast ==
  /\ pc = "getD"
  /\ d_ready
  /\ beat + 1 = Beats(req.size)
  /\ d_valid' = FALSE
  /\ a_ready' = TRUE
  /\ pc' = Head(a_ready)
  /\ EndRound
  /\ d_data' = NoWord
  /\ UNCHANGED <<d_opcode, d_size>>

\* Mutant: an answer taken during the burst is offered again.
PutNextKeepsValid ==
  /\ pc = "putB"
  /\ beat + 1 < Beats(req.size)
  /\ beat' = beat + 1
  /\ IF a_valid
     THEN databuf' = Store(req, beat + 1, a_data) /\ pc' = "putB"
     ELSE pc' = "putW" /\ UNCHANGED databuf
  /\ UNCHANGED <<req, a_ready, d_valid, d_opcode, d_size, d_data>>

\* Lines 139-141 and 132: the next beat of a PutFull.
PutNext ==
  /\ pc = "putB"
  /\ beat + 1 < Beats(req.size)
  /\ beat' = beat + 1
  /\ d_valid' = (d_valid /\ ~d_ready)
  /\ IF a_valid
     THEN databuf' = Store(req, beat + 1, a_data) /\ pc' = "putB"
     ELSE pc' = "putW" /\ UNCHANGED databuf
  /\ UNCHANGED <<req, a_ready, d_opcode, d_size, d_data>>

\* Mutant: a pause of the master counts as a beat.
PutPauseCounts ==
  /\ pc = "putW"
  /\ d_valid' = (d_valid /\ ~d_ready)
  /\ IF a_valid
     THEN databuf' = Store(req, beat, a_data) /\ pc' = "putB" /\ UNCHANGED beat
     ELSE beat' = beat + 1 /\ UNCHANGED <<databuf, pc>>
  /\ UNCHANGED <<req, a_ready, d_opcode, d_size, d_data>>

\* Lines 132-138: the master pauses within its burst.
PutPause ==
  /\ pc = "putW"
  /\ d_valid' = (d_valid /\ ~d_ready)
  /\ IF a_valid
     THEN databuf' = Store(req, beat, a_data) /\ pc' = "putB"
     ELSE UNCHANGED <<databuf, pc>>
  /\ UNCHANGED <<req, beat, a_ready, d_opcode, d_size, d_data>>

\* Mutant: a_ready stays up while the answer is awaited and the write is done.
PutCollectedReady ==
  /\ pc = "putB"
  /\ beat + 1 = Beats(req.size)
  /\ d_valid' = (d_valid /\ ~d_ready)
  /\ pc' = IF ~d_valid THEN "putX" ELSE IF d_ready THEN "putN" ELSE "putK"
  /\ UNCHANGED <<req, databuf, beat, a_ready, d_opcode, d_size, d_data>>

\* Mutant: the answer is withdrawn once all beats are here.
PutCollectedUnacked ==
  /\ pc = "putB"
  /\ beat + 1 = Beats(req.size)
  /\ a_ready' = FALSE
  /\ d_valid' = FALSE
  /\ pc' = "putX"
  /\ UNCHANGED <<req, databuf, beat, d_opcode, d_size, d_data>>

\* Lines 144-156: all beats are here.  d_valid is read before the write of line
\* 141 takes effect, so an answer that is being taken at this very edge still
\* counts as not acknowledged.
PutCollected ==
  /\ pc = "putB"
  /\ beat + 1 = Beats(req.size)
  /\ a_ready' = FALSE
  /\ d_valid' = (d_valid /\ ~d_ready)
  /\ pc' = IF ~d_valid THEN "putX" ELSE IF d_ready THEN "putN" ELSE "putK"
  /\ UNCHANGED <<req, databuf, beat, d_opcode, d_size, d_data>>

PutAwaitAck ==
  /\ pc = "putK"
  /\ d_valid' = ~d_ready
  /\ pc' = IF d_ready THEN "putN" ELSE "putK"
  /\ UNCHANGED <<req, databuf, beat, a_ready, d_opcode, d_size, d_data>>

PutAcked ==
  /\ pc = "putN"
  /\ d_valid' = FALSE
  /\ a_ready' = FALSE
  /\ pc' = "putX"
  /\ UNCHANGED <<req, databuf, beat, d_opcode, d_size, d_data>>

\* Lines 170-177.  Nothing here asks for a second beat: of a PutPartial burst the
\* bridge has stored beat 0, loses the beat that fires before a_ready is down, and
\* takes a later one as a request of its own.
PartialAck ==
  /\ pc = "parD"
  /\ a_ready' = FALSE
  /\ d_valid' = ~d_ready
  /\ pc' = IF d_ready THEN "putX" ELSE "parD"
  /\ UNCHANGED <<req, databuf, beat, d_opcode, d_size, d_data>>

\* Lines 156-163 and 177-184: the write is sent to QEMU.
PutSend ==
  /\ pc = "putX"
  /\ pc' = "tlmW"
  /\ UNCHANGED <<req, databuf, beat, a_ready, d_valid, d_opcode, d_size, d_data>>

InTlm ==
  /\ pc \in {"tlmR", "tlmW"}
  /\ UNCHANGED bridgeVars

Bridge ==
  \/ TopTake \/ TopWait \/ WaitedTake \/ WaitedIdle
  \/ GetSend \/ GetStall \/ GetNext \/ GetLast
  \/ PutNext \/ PutPause \/ PutCollected \/ PutAwaitAck \/ PutAcked \/ PartialAck
  \/ PutSend \/ InTlm

-----------------------------------------------------------------------------
(***************************************************************************)
(* b_transport returns from QEMU (external), at any time.                    *)
(***************************************************************************)
ReadReturns(response) ==
  /\ pc = "tlmR"
  /\ pc' = Assert(response = "OK", "getD")
  /\ databuf' = [k \in Offset |-> IF k < TlmLen(req) THEN tmem[TlmAddr(req) + k]
                                  ELSE databuf[k]]
  /\ d_opcode' = AccessAckData
  /\ d_valid' = TRUE
  /\ d_data' = WordOf(databuf', 0)
  /\ beat' = 0
  /\ UNCHANGED <<req, a_ready, d_size, tmem, masterVars>>

\* The write has been done and the thread is back at the head of its loop: with
\* the clock low it waits for the next edge first (line 46).
WriteReturns(response) ==
  /\ pc = "tlmW"
  /\ tmem' = [x \in Address |->
                IF TlmAddr(req) <= x /\ x < TlmAddr(req) + TlmLen(req)
                THEN databuf[x - TlmAddr(req)] ELSE tmem[x]]
  /\ d_valid' = FALSE
  /\ a_ready' = TRUE
  /\ \E clockHigh \in BOOLEAN :
       pc' = Assert(response = "OK", IF clockHigh THEN Head(a_ready) ELSE "top")
  /\ EndRound
  /\ UNCHANGED <<d_opcode, d_size, d_data, masterVars>>

-----------------------------------------------------------------------------
(***************************************************************************)
(* The RTL (external): a TileLink master with one message in flight.  It      *)
(* counts handshakes at the edge; the next message may be on the wires in     *)
(* the cycle that begins with the handshake of the last answer.               *)
(***************************************************************************)
AFire == a_valid /\ a_ready
DFire == d_valid /\ d_ready

ABeats(c) == IF c.opcode = Get THEN 1 ELSE Beats(c.size)
DBeats(c) == IF c.opcode = Get THEN Beats(c.size) ELSE 1

FullMask(c) == Lanes(c.addr, IF Beats(c.size) > 1 THEN Bus ELSE c.size)

\* Addresses are aligned to the size, masks cover it, and a PutPartial enables a
\* contiguous part of it.  Two kinds of PutPartial are sent only where the
\* constants say so, because the bridge accepts them and corrupts memory: those
\* of less than a word and those of several beats.
Legal(c) ==
  /\ c.addr % c.size = 0
  /\ c.addr + c.size <= MemSize
  /\ IF c.opcode = PutPartial
     THEN /\ c.mask # {} /\ c.mask \subseteq FullMask(c) /\ Contiguous(c.mask)
          /\ c.size < Bus => SubWordPartials
          /\ c.size > Bus => PartialBursts /\ c.mask = Lane
     ELSE c.mask = FullMask(c)

\* The offsets, from the word that holds its address, that a message covers.
OffsetsOf(c) == {k \in Offset : \/ Beats(c.size) > 1 /\ k < c.size
                                \/ Beats(c.size) = 1 /\ k \in c.mask}

MessageOf(c, data) ==
  [ctl |-> c,
   data |-> [k \in Offset |-> IF c.opcode # Get /\ k \in OffsetsOf(c) THEN data[k] ELSE NoByte]]

Present(m, i) ==
  /\ a_valid' = TRUE
  /\ a_ctl' = m.ctl
  /\ a_data' = WordOf(m.data, i)

Withhold ==
  /\ a_valid' = FALSE
  /\ a_ctl' = NoControl
  /\ a_data' = NoWord

Begin(c) ==
  /\ ~active /\ ~pause
  /\ Legal(c)
  /\ active' = TRUE
  /\ \E data \in Payload : msg' = MessageOf(c, data)
  /\ rbuf' = NoData
  /\ Present(msg', 0) \/ Withhold
  /\ UNCHANGED <<bridgeVars, tmem, d_ready, got, sent, pause>>

MessageDone == got = ABeats(msg.ctl) /\ sent = DBeats(msg.ctl)

Finish ==
  /\ active
  /\ MessageDone
  /\ active' = FALSE
  /\ got' = 0
  /\ sent' = 0
  /\ pause' = (msg.ctl.opcode = PutFull /\ Beats(msg.ctl.size) > 1 /\ ~BackToBack)
  /\ msg' = NoMessage
  /\ rbuf' = NoData
  /\ UNCHANGED <<bridgeVars, tmem, a_valid, a_ctl, a_data, d_ready>>

\* At a rising edge: the handshakes of the cycle that ends ...
Account ==
  /\ got' = got + IF AFire THEN 1 ELSE 0
  /\ sent' = sent + IF DFire THEN 1 ELSE 0
  /\ rbuf' = [k \in Offset |->
                IF DFire /\ msg.ctl.opcode = Get /\ k \in OffsetsOf(msg.ctl)
                         /\ k \div Bus = sent
                THEN d_data[k % Bus] ELSE rbuf[k]]
  /\ pause' = FALSE
  /\ UNCHANGED <<msg, active>>

\* ... and the wires of the cycle that begins.
Drive ==
  /\ d_ready' \in BOOLEAN
  /\ IF a_valid /\ ~a_ready THEN UNCHANGED <<a_valid, a_ctl, a_data>>
     ELSE \/ active /\ got' < ABeats(msg.ctl) /\ Present(msg, got')
          \/ Withhold

-----------------------------------------------------------------------------
Init ==
  /\ pc = "top"
  /\ req = NoControl
  /\ databuf = NoData
  /\ beat = 0
  /\ a_ready = TRUE
  /\ d_valid = FALSE
  /\ d_opcode = AccessAck
  /\ d_size \in Lens
  /\ d_data = NoWord
  /\ a_valid = FALSE
  /\ a_ctl = NoControl
  /\ a_data = NoWord
  /\ d_ready \in BOOLEAN
  /\ tmem \in Contents
  /\ msg = NoMessage
  /\ active = FALSE
  /\ got = 0
  /\ sent = 0
  /\ pause = FALSE
  /\ rbuf = NoData

Edge ==
  /\ Bridge
  /\ Account
  /\ Drive
  /\ UNCHANGED tmem

Next ==
  \/ Edge
  \/ \E response \in Responses : ReadReturns(response) \/ WriteReturns(response)
  \/ \E c \in Control : Begin(c)
  \/ Finish

Spec == Init /\ [][Next]_vars

(***************************************************************************)
(* The clock never stops, QEMU answers every access, and the RTL presents    *)
(* the beats it owes and accepts answers again and again.                    *)
(***************************************************************************)
Fairness ==
  /\ WF_vars(Edge)
  /\ WF_vars(Edge /\ d_ready')
  /\ WF_vars(Edge /\ a_valid')
  /\ WF_vars(\E response \in Responses : ReadReturns(response) \/ WriteReturns(response))
  /\ WF_vars(Finish)

FairSpec == Spec /\ Fairness

-----------------------------------------------------------------------------
TypeOK ==
  /\ pc \in PC
  /\ req \in Control
  /\ databuf \in [Offset -> AnyByte]
  /\ beat \in 0 .. MaxLen
  /\ a_ready \in BOOLEAN /\ d_valid \in BOOLEAN
  /\ d_opcode \in RespOpcode
  /\ d_size \in Lens
  /\ d_data \in Word
  /\ a_valid \in BOOLEAN /\ d_ready \in BOOLEAN
  /\ a_ctl \in Control
  /\ a_data \in Word
  /\ tmem \in [Address -> AnyByte]
  /\ msg \in [ctl : Control, data : [Offset -> AnyByte]]
  /\ active \in BOOLEAN
  /\ got \in 0 .. MaxLen /\ sent \in 0 .. MaxLen
  /\ pause \in BOOLEAN
  /\ rbuf \in [Offset -> AnyByte]

\* The bridge looks at channel A exactly when a handshake happens there: whatever
\* way it comes to the head of its loop, and with the clock high or low, it takes
\* a beat at an edge if and only if a_valid and a_ready are both up.  A beat that
\* fires while the bridge looks elsewhere would be lost, one it takes without a
\* handshake would be taken twice.  (With PartialBursts the second beat of a
\* PutPartial is such a lost one; with BackToBack the request of TL2TLMLostRequest.)
Takes ==
  \/ pc \in {"top", "waitA", "putW"} /\ a_valid
  \/ pc = "waitE"
  \/ pc = "putB" /\ beat + 1 < Beats(req.size) /\ a_valid

HandshakeIsTaken == AFire <=> Takes

\* Every answer the master takes is the next one it is owed: of the right kind
\* and size, for a message whose first beat it has already delivered.  (With
\* PartialBursts a later beat is taken for a request and answered again.)
AnswerIsOwed ==
  DFire => /\ active /\ got > 0
           /\ sent < DBeats(msg.ctl)
           /\ d_opcode = IF msg.ctl.opcode = Get THEN AccessAckData ELSE AccessAck
           /\ d_size = msg.ctl.size

\* An answer on channel D stays until it is taken.
AnswerHeld ==
  [][d_valid /\ ~d_ready => d_valid' /\ d_opcode' = d_opcode /\ d_data' = d_data]_vars

\* The part of a Put the bridge holds back: acknowledged perhaps, not yet in
\* QEMU's memory.
HeldBack ==
  IF pc \in {"putB", "putK", "putN", "putX", "parD", "tlmW"}
  THEN {k \in OffsetsOf(req) : k < (beat + 1) * Bus}
  ELSE IF pc = "putW" THEN {k \in OffsetsOf(req) : k < beat * Bus}
  ELSE {}

\* Memory as the RTL may see it through the bridge.
SeenMemory ==
  [x \in Address |-> IF x - WordBase(req.addr) \in HeldBack
                     THEN databuf[x - WordBase(req.addr) - MaskShift(req)] ELSE tmem[x]]

\* Although it acknowledges a Put before the write is done, the bridge is a
\* memory service to the master: a Get that follows sees the write.  This holds of
\* the messages processReq serves: with PartialBursts it writes all the bytes of a
\* PutPartial of which it has stored one beat, with SubWordPartials it writes
\* elsewhere than the mask says.
Service == INSTANCE MemService WITH
  Addresses <- Address, Values <- AnyByte, Offsets <- Offset, Keeps <- FALSE,
  Access <- {[cmd |-> IF c.opcode = Get THEN "READ" ELSE "WRITE",
              addr |-> WordBase(c.addr), offsets |-> OffsetsOf(c)] : c \in Control},
  memory <- SeenMemory, busy <- active,
  access <- [cmd |-> IF msg.ctl.opcode = Get THEN "READ" ELSE "WRITE",
             addr |-> WordBase(msg.ctl.addr), offsets |-> OffsetsOf(msg.ctl)],
  array <- IF msg.ctl.opcode = Get THEN rbuf ELSE msg.data,
  moved <- {k \in OffsetsOf(msg.ctl) :
              k < Bus * (IF msg.ctl.opcode = Get THEN sent ELSE got)},
  result <- IF active THEN "INCOMPLETE" ELSE "OK"

ImplementsService == Service!Spec

\* The write a Put ends in covers the bytes its mask enables, and no others
\* (include/tilelink.h: the mask has one bit per byte of the bus).
WriteCoversMask ==
  pc = "tlmW" =>
    {x \in 0 .. MemSize + MaxLen : TlmAddr(req) <= x /\ x < TlmAddr(req) + TlmLen(req)}
      = {WordBase(req.addr) + k : k \in OffsetsOf(req)}

\* Every message is completed.
MessageFinishes == active ~> ~active
===============================================================================
