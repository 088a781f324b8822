---------------------------- MODULE TLM2TL_proofs ----------------------------
(***************************************************************************)
(* TLM2TL for every bus width, memory and set of lengths, with a cooperative *)
(* slave: b_transport's assertions hold, no beat is lost or repeated on the  *)
(* link, the link is quiet between two calls, and the bytes of every access  *)
(* go to and come from their own addresses (the refinement of MemService).   *)
(***************************************************************************)
EXTENDS TLM2TL, TLAPS

\* Where the message in flight stands, for each wait() of b_transport.  sent and
\* got count what has really happened on the link; aAcked and dAcked are what the
\* thread believes, which may run one cycle ahead.
Writing ==
  pc = "wr" =>
    /\ trans.cmd = "WRITE"
    /\ a_valid
    /\ a_ctl = ControlOf(trans)
    /\ beat < Beats(trans.len)
    /\ got = beat
    /\ got > 0 => ctl = a_ctl
    /\ d_ready <=> LastBeat(beat)
    /\ sent \in {0, 1}
    /\ sent = 1 => dAcked /\ d_ready /\ ~d_valid
    /\ dAcked => d_opcode = AccessAck
    /\ dAcked /\ sent = 0 => d_valid /\ d_ready
    /\ d_valid => d_opcode = AccessAck

AwaitingAck ==
  pc = "wrD" =>
    /\ trans.cmd = "WRITE"
    /\ ~a_valid /\ d_ready
    /\ ctl = ControlOf(trans)
    /\ got = Beats(trans.len) /\ sent = 0
    /\ d_valid => d_opcode = AccessAck

Reading ==
  pc \in {"rd", "rdD"} =>
    /\ trans.cmd = "READ"
    /\ a_ctl = ControlOf(trans)
    /\ d_ready
    /\ beat < Beats(trans.len)
    /\ sent = beat
    /\ got \in {0, 1}
    /\ a_valid <=> got = 0
    /\ got = 1 => aAcked /\ ctl = a_ctl
    /\ got = 0 /\ aAcked => a_ready \/ ~kind.early
    /\ d_valid => d_opcode = AccessAckData
    /\ d_valid => got = 1 \/ kind.early

AwaitingAccept ==
  pc = "rdA" =>
    /\ trans.cmd = "READ"
    /\ a_ctl = ControlOf(trans)
    /\ a_valid /\ ~d_ready /\ ~d_valid
    /\ d_opcode = AccessAckData
    /\ got = 0 /\ sent = Beats(trans.len)

Control_Typing ==
  /\ pc \in PC
  /\ trans \in Trans
  /\ beat \in Nat /\ got \in Nat /\ sent \in Nat
  /\ aAcked \in BOOLEAN /\ dAcked \in BOOLEAN
  /\ a_valid \in BOOLEAN /\ a_corrupt \in BOOLEAN /\ d_ready \in BOOLEAN
  /\ a_ready \in BOOLEAN /\ d_valid \in BOOLEAN
  /\ d_opcode \in RespOpcode
  /\ a_ctl \in Control /\ ctl \in Control
  /\ kind \in SlaveKinds /\ Cooperative(kind)

IInv ==
  /\ Control_Typing
  /\ NoAssertFails
  /\ pc = "start" => beat = 0
  /\ LinkQuiet
  /\ Writing
  /\ AwaitingAck
  /\ Reading
  /\ AwaitingAccept

-----------------------------------------------------------------------------
(***************************************************************************)
(* Lemmas about the operators.                                               *)
(***************************************************************************)

\* A message of at least one byte has at least one beat.
LEMMA BeatsPositive == ASSUME NEW n \in Nat \ {0} PROVE Beats(n) \in Nat \ {0}
<1>. DEFINE x == n + Bus - 1
            q == x \div Bus
<1>1. Bus \in Nat \ {0} BY TileLinkAssumption
<1>2. x \in Nat /\ x >= Bus BY <1>1
<1>. HIDE DEF x
<1>3. q \in Int /\ x = Bus * q + (x % Bus) /\ x % Bus < Bus /\ x % Bus \in Nat
  BY <1>1, <1>2
<1>4. ASSUME q <= 0 PROVE FALSE
  <2>. HIDE DEF q
  <2>1. Bus * q <= 0 BY <1>1, <1>3, <1>4
  <2>. QED BY <1>1, <1>2, <1>3, <2>1
<1>. QED BY <1>3, <1>4 DEF Beats, x

\* The lengths of the initiator's accesses are positive.
LEMMA LensPositive == \A n \in Lens : n \in Nat \ {0}
<1>1. Lens \subseteq 1 .. MaxLen BY TLM2TLAssumption
<1>2. MaxLen \in Nat BY TileLinkAssumption
<1>. QED BY <1>1, <1>2

\* How many beats a request takes on either channel.
LEMMA RequestBeats ==
  ASSUME NEW t \in Trans
  PROVE  /\ Beats(t.len) \in Nat \ {0}
         /\ ControlOf(t) \in Control
         /\ t.cmd = "READ" => /\ ControlOf(t).opcode = Get
                              /\ ABeats(ControlOf(t)) = 1
                              /\ DBeats(ControlOf(t)) = Beats(t.len)
         /\ t.cmd = "WRITE" => /\ ControlOf(t).opcode = PutFull
                               /\ ABeats(ControlOf(t)) = Beats(t.len)
                               /\ DBeats(ControlOf(t)) = 1
<1>1. Beats(t.len) \in Nat \ {0}
  <2>1. t.len \in Lens BY DEF Trans
  <2>2. t.len \in Nat \ {0} BY <2>1, LensPositive
  <2>. QED BY <2>2, BeatsPositive
<1>2. t.addr \in Address /\ t.len \in Lens BY DEF Trans
<1>3. Lanes(t.addr, AccessLen(t.len)) \in SUBSET Lane BY DEF Lanes
<1>4. ControlOf(t) \in Control BY <1>2, <1>3 DEF ControlOf, Control, ReqOpcode
<1>. QED BY <1>1, <1>4 DEF ControlOf, ABeats, DBeats, Get, PutFull

\* The same of any control fields on the link.
LEMMA ControlBeats ==
  ASSUME NEW c \in Control
  PROVE  ABeats(c) \in Nat \ {0} /\ DBeats(c) \in Nat \ {0}
<1>1. c.size \in Lens BY DEF Control
<1>2. c.size \in Nat \ {0} BY <1>1, LensPositive
<1>. QED BY <1>2, BeatsPositive DEF ABeats, DBeats

\* What an edge does to the wires a cooperative slave drives.
LEMMA SlaveDrives ==
  ASSUME Control_Typing, Slave
  PROVE  /\ kind' = kind /\ ctl' = CtlNow /\ ctl' \in Control
         /\ a_ready' \in BOOLEAN /\ d_valid' \in BOOLEAN /\ d_opcode' \in RespOpcode
         /\ got' = IF MessageDone THEN 0 ELSE GotNow
         /\ sent' = IF MessageDone THEN 0 ELSE SentNow
         /\ got' \in Nat /\ sent' \in Nat
         /\ d_valid /\ ~d_ready => d_valid' /\ d_opcode' = d_opcode
         /\ ~d_valid' => d_opcode' = d_opcode
         /\ d_valid' /\ ~(d_valid /\ ~d_ready) =>
              /\ Answerable
              /\ sent' < DBeats(Answered)
              /\ d_opcode' = IF Answered.opcode = Get THEN AccessAckData ELSE AccessAck
         /\ kind.holdsReady /\ a_ready /\ ~a_valid => a_ready'
<1>1. kind' = kind /\ ctl' = CtlNow /\ ctl' \in Control
  BY DEF Slave, SlaveAccept, CtlNow, Control_Typing
<1>2. a_ready' \in BOOLEAN BY DEF Slave, SlaveReady
<1>3. kind.holdsReady /\ a_ready /\ ~a_valid => a_ready' BY DEF Slave, SlaveReady
<1>4. /\ got' = IF MessageDone THEN 0 ELSE GotNow
      /\ sent' = IF MessageDone THEN 0 ELSE SentNow
  BY DEF Slave, SlaveAccept
<1>5. got' \in Nat /\ sent' \in Nat
  BY <1>4 DEF Control_Typing, GotNow, SentNow
<1>6. kind.freeOpcode = FALSE
  BY TLM2TLAssumption DEF Cooperative, Control_Typing, SlaveKind
<1>7. CASE Offer /\ ~(d_valid /\ ~d_ready)
  BY <1>1, <1>2, <1>3, <1>4, <1>5, <1>7 DEF Offer, RespOpcode
<1>8. CASE KeepOffer
  BY <1>1, <1>2, <1>3, <1>4, <1>5, <1>8 DEF KeepOffer, Control_Typing
<1>9. CASE NoOffer
  <2>1. ~d_valid' /\ d_opcode' = d_opcode BY <1>6, <1>9 DEF NoOffer
  <2>2. ~(d_valid /\ ~d_ready) BY <1>9 DEF NoOffer
  <2>3. d_valid' \in BOOLEAN BY <1>9 DEF NoOffer
  <2>. QED BY <1>1, <1>2, <1>3, <1>4, <1>5, <2>1, <2>2, <2>3 DEF Control_Typing
<1>. QED BY <1>7, <1>8, <1>9 DEF Slave

\* A power of two passes the first assertion.
LEMMA LenIsPowerOfTwo == ASSUME NEW t \in Trans PROVE IsPowerOfTwo(t.len)
<1>1. t.len \in Lens BY DEF Trans
<1>. QED BY <1>1, TLM2TLAssumption

-----------------------------------------------------------------------------
(***************************************************************************)
(* The steps, one lemma per wait() of b_transport.                           *)
(***************************************************************************)

\* On a quiet link an edge counts nothing, and nothing can be answered unless the
\* bridge raises a_valid.
LEMMA QuietEdge ==
  ASSUME Control_Typing, Slave, got = 0, sent = 0, ~a_valid, ~d_ready, ~d_valid
  PROVE  /\ got' = 0 /\ sent' = 0
         /\ d_valid' => kind.early /\ a_valid'
         /\ d_valid' => d_opcode' = IF a_ctl'.opcode = Get THEN AccessAckData ELSE AccessAck
<1>1. GotNow = 0 /\ SentNow = 0 BY DEF GotNow, SentNow, AFire, DFire
<1>2. got' = 0 /\ sent' = 0 BY <1>1, SlaveDrives
<1>. QED BY <1>2, SlaveDrives DEF Answerable, Answered

LEMMA StartReadStep == ASSUME IInv, StartRead, Slave PROVE IInv'
<1>. USE DEF IInv, StartRead
<1>1. trans \in Trans /\ trans.cmd = "READ" /\ trans' = trans BY DEF Control_Typing
<1>2. pc' = "rd" BY <1>1, LenIsPowerOfTwo DEF Assert
<1>3. Control_Typing /\ got = 0 /\ sent = 0 /\ ~a_valid /\ ~d_ready /\ ~d_valid
  BY DEF LinkQuiet
<1>4. /\ got' = 0 /\ sent' = 0
      /\ d_valid' => kind.early
      /\ d_valid' => d_opcode' = IF a_ctl'.opcode = Get THEN AccessAckData ELSE AccessAck
  BY <1>3, QuietEdge
<1>5. /\ Beats(trans.len) \in Nat \ {0}
      /\ a_ctl' = ControlOf(trans) /\ ControlOf(trans).opcode = Get
  BY <1>1, RequestBeats
<1>6. beat' = 0 /\ a_valid' /\ d_ready' /\ aAcked' = a_ready /\ dAcked' = TRUE /\ a_corrupt' = a_corrupt
  OBVIOUS
<1>7. kind.early => kind.holdsReady BY DEF Control_Typing, Cooperative
<1>8. kind.early /\ a_ready => a_ready' BY <1>3, <1>7, SlaveDrives
<1>9. Control_Typing'
  BY <1>1, <1>2, <1>3, <1>5, <1>6, RequestBeats, SlaveDrives DEF Control_Typing, PC
<1>10. Reading'
  BY <1>1, <1>2, <1>3, <1>4, <1>5, <1>6, <1>8, SlaveDrives DEF Reading
<1>. QED BY <1>2, <1>9, <1>10 DEF NoAssertFails, LinkQuiet, Writing, AwaitingAck, AwaitingAccept

LEMMA StartWriteStep == ASSUME IInv, StartWrite, Slave PROVE IInv'
<1>. USE DEF IInv, StartWrite
<1>1. trans \in Trans /\ trans.cmd = "WRITE" /\ trans' = trans BY DEF Control_Typing
<1>2. pc' = "wr" BY <1>1, LenIsPowerOfTwo DEF Assert
<1>3. Control_Typing /\ got = 0 /\ sent = 0 /\ ~a_valid /\ ~d_ready /\ ~d_valid
  BY DEF LinkQuiet
<1>4. /\ got' = 0 /\ sent' = 0
      /\ d_valid' => d_opcode' = IF a_ctl'.opcode = Get THEN AccessAckData ELSE AccessAck
  BY <1>3, QuietEdge
<1>5. /\ Beats(trans.len) \in Nat \ {0}
      /\ a_ctl' = ControlOf(trans) /\ ControlOf(trans).opcode = PutFull
  BY <1>1, RequestBeats
<1>6. /\ beat' = 0 /\ a_valid' /\ d_ready' = LastBeat(0) /\ dAcked' = FALSE /\ aAcked' = TRUE
      /\ a_corrupt' = a_corrupt
  BY <1>3
<1>7. Control_Typing'
  BY <1>1, <1>2, <1>3, <1>5, <1>6, RequestBeats, SlaveDrives DEF Control_Typing, PC, LastBeat
<1>8. d_ready' <=> LastBeat(beat)' BY <1>1, <1>6 DEF LastBeat
<1>9. Writing'
  <2>1. beat' < Beats(trans'.len) BY <1>1, <1>5, <1>6
  <2>2. a_ctl' = ControlOf(trans') BY <1>1, <1>5
  <2>3. d_valid' => d_opcode' = AccessAck BY <1>4, <1>5 DEF Get, PutFull
  <2>. QED BY <1>1, <1>4, <1>6, <1>8, <2>1, <2>2, <2>3 DEF Writing
<1>. QED BY <1>2, <1>7, <1>9 DEF NoAssertFails, LinkQuiet, Reading, AwaitingAck, AwaitingAccept

\* The steps outside a transfer: the link stays quiet.
LEMMA QuietStep ==
  ASSUME IInv, Slave, StartUnaligned \/ EndError \/ Return \/ NoCall
  PROVE  IInv'
<1>1. trans \in Trans /\ trans' = trans
  BY DEF IInv, Control_Typing, StartUnaligned, EndError, Return, NoCall, bridgeVars
<1>2. pc' \in {"idle", "err"}
  BY <1>1, LenIsPowerOfTwo DEF StartUnaligned, EndError, Return, NoCall, bridgeVars, Assert
<1>3. Control_Typing /\ got = 0 /\ sent = 0 /\ ~a_valid /\ ~d_ready /\ ~d_valid
  BY DEF IInv, LinkQuiet, StartUnaligned, EndError, Return, NoCall
<1>4. /\ a_valid' = a_valid /\ d_ready' = d_ready /\ beat' = beat
      /\ aAcked' = aAcked /\ dAcked' = dAcked /\ a_ctl' = a_ctl
      /\ a_corrupt' \in BOOLEAN
  BY <1>3 DEF Control_Typing, StartUnaligned, EndError, Return, NoCall, bridgeVars
<1>5. got' = 0 /\ sent' = 0 /\ ~d_valid' BY <1>3, <1>4, QuietEdge, SlaveDrives
<1>6. Control_Typing'
  BY <1>1, <1>2, <1>3, <1>4, SlaveDrives DEF Control_Typing, PC
<1>. QED BY <1>2, <1>3, <1>4, <1>5, <1>6
     DEF IInv, NoAssertFails, LinkQuiet, Writing, Reading, AwaitingAck, AwaitingAccept

\* A read beat, for either way to it.  acked agrees with the request's handshake
\* unless nothing can be answered yet.
LEMMA ReadBeatStep ==
  ASSUME IInv, Slave, pc \in {"rd", "rdD"}, NEW acked \in BOOLEAN,
         ReadBeat(acked, "rdD"),
         acked <=> (aAcked \/ a_ready)
  PROVE  IInv'
<1>. DEFINE B == Beats(trans.len)
<1>1. /\ Control_Typing /\ trans \in Trans /\ trans.cmd = "READ" /\ trans' = trans
      /\ a_ctl' = a_ctl /\ a_ctl = ControlOf(trans)
      /\ a_corrupt' = a_corrupt /\ dAcked' = dAcked /\ aAcked' = acked
  BY DEF IInv, Control_Typing, Reading, ReadBeat
<1>2. B \in Nat \ {0} /\ ABeats(a_ctl) = 1 /\ DBeats(a_ctl) = B /\ a_ctl.opcode = Get
  BY <1>1, RequestBeats
<1>3. /\ d_ready /\ beat < B /\ sent = beat /\ got \in {0, 1}
      /\ a_valid <=> got = 0
      /\ got = 1 => aAcked /\ ctl = a_ctl
      /\ got = 0 /\ aAcked => a_ready \/ ~kind.early
      /\ d_valid => d_opcode = AccessAckData
      /\ d_valid => got = 1 \/ kind.early
  BY DEF IInv, Reading
<1>. HIDE DEF B
<1>4. /\ GotNow = (IF got = 0 /\ ~a_ready THEN 0 ELSE 1)
      /\ SentNow = (IF d_valid THEN sent + 1 ELSE sent)
      /\ GotNow = 1 => CtlNow = a_ctl
  BY <1>1, <1>3 DEF GotNow, SentNow, AFire, DFire, CtlNow, Control_Typing
<1>5. MessageDone <=> GotNow = 1 /\ SentNow = B
  <2>1. CASE GotNow = 1 BY <1>2, <1>4, <2>1 DEF MessageDone
  <2>2. CASE GotNow = 0
    <3>1. CtlNow \in Control BY <1>1 DEF CtlNow, Control_Typing
    <3>. QED BY <2>2, <3>1, ControlBeats DEF MessageDone
  <2>. QED BY <1>4, <2>1, <2>2
<1>6. Control_Typing'
  <2>1. beat' \in Nat BY <1>1 DEF ReadBeat, Control_Typing
  <2>2. pc' \in PC BY <1>1 DEF ReadBeat, Assert, PC, LastBeat
  <2>3. a_valid' \in BOOLEAN /\ d_ready' \in BOOLEAN BY <1>1 DEF ReadBeat, Control_Typing
  <2>. QED BY <1>1, <2>1, <2>2, <2>3, SlaveDrives DEF Control_Typing
\* No data yet.
<1>7. CASE ~d_valid
  <2>1. pc' = "rdD" /\ a_valid' = (a_valid /\ ~a_ready) /\ beat' = beat /\ d_ready' = d_ready
    BY <1>3, <1>7 DEF ReadBeat, Assert
  <2>2. got' = GotNow /\ sent' = sent
    BY <1>1, <1>3, <1>4, <1>5, <1>7, SlaveDrives
  <2>3. Reading'
    BY <1>1, <1>2, <1>3, <1>4, <1>7, <2>1, <2>2, SlaveDrives
    DEF Reading, B, Control_Typing, Answerable, Answered
  <2>. QED BY <1>6, <2>1, <2>3
       DEF IInv, NoAssertFails, LinkQuiet, Writing, AwaitingAck, AwaitingAccept
\* A word that is not the last one.
<1>8. CASE d_valid /\ ~LastBeat(beat)
  <2>1. /\ pc' = "rd" /\ a_valid' = (a_valid /\ ~a_ready)
        /\ beat' = beat + 1 /\ d_ready' = d_ready
    BY <1>3, <1>8 DEF ReadBeat, Assert
  <2>2. beat + 1 < B BY <1>1, <1>2, <1>3, <1>8 DEF LastBeat, B, Control_Typing
  <2>3. got' = GotNow /\ sent' = sent + 1
    BY <1>1, <1>3, <1>4, <1>5, <1>8, <2>2, SlaveDrives DEF Control_Typing
  <2>4. d_valid' => d_opcode' = AccessAckData /\ (got' = 1 \/ kind'.early)
    <3>1. got' \in {0, 1} /\ (got' = 1 => ctl' = a_ctl)
      BY <1>1, <1>3, <1>4, <2>3, SlaveDrives
    <3>. QED BY <1>1, <1>2, <1>3, <3>1, SlaveDrives DEF Answerable, Answered
  <2>5. got' = 0 => (~a_ready /\ ~aAcked') \/ ~kind'.early
    BY <1>1, <1>3, <1>4, <2>3, SlaveDrives
  <2>6. got' \in {0, 1} /\ (a_valid' <=> got' = 0) /\ (got' = 1 => aAcked' /\ ctl' = a_ctl')
    <3>1. got' \in {0, 1} /\ (got' = 1 <=> got = 1 \/ a_ready) BY <1>3, <1>4, <2>3
    <3>2. a_valid' <=> got' = 0
      <4>1. got' = 0 <=> got = 0 /\ ~a_ready BY <1>3, <1>4, <2>3
      <4>2. a_valid' <=> a_valid /\ ~a_ready BY <2>1
      <4>. QED BY <1>3, <4>1, <4>2
    <3>3. got' = 1 => aAcked' BY <1>1, <1>3, <3>1
    <3>4. got' = 1 => ctl' = a_ctl' BY <1>1, <1>4, <2>3, SlaveDrives
    <3>. QED BY <3>1, <3>2, <3>3, <3>4
  <2>7. beat' < Beats(trans'.len) /\ sent' = beat'
    BY <1>1, <1>3, <2>1, <2>2, <2>3 DEF B
  <2>8. Reading'
    BY <1>1, <1>3, <2>1, <2>4, <2>5, <2>6, <2>7 DEF Reading
  <2>. QED BY <1>6, <2>1, <2>8
       DEF IInv, NoAssertFails, LinkQuiet, Writing, AwaitingAck, AwaitingAccept
\* The last word: the request has been accepted by now or a_valid stays.
<1>9. CASE d_valid /\ LastBeat(beat)
  <2>1. /\ pc' = IF acked THEN "fin" ELSE "rdA"
        /\ a_valid' = (a_valid /\ ~acked)
        /\ ~d_ready'
    BY <1>3, <1>9 DEF ReadBeat, Assert
  <2>2. SentNow = B BY <1>1, <1>2, <1>3, <1>4, <1>9 DEF LastBeat, B, Control_Typing
  <2>3. CASE acked
    <3>1. GotNow = 1 BY <1>3, <1>4, <1>9, <2>3
    <3>2. got' = 0 /\ sent' = 0 BY <1>1, <1>5, <2>2, <3>1, SlaveDrives
    <3>3. ~a_valid' BY <2>1, <2>3
    <3>4. ~d_valid' BY <1>1, <1>3, <3>2, <3>3, SlaveDrives DEF Answerable
    <3>. QED BY <1>6, <2>1, <2>3, <3>2, <3>3, <3>4
         DEF IInv, NoAssertFails, LinkQuiet, Writing, Reading, AwaitingAck, AwaitingAccept
  <2>4. CASE ~acked
    <3>1. got = 0 /\ ~a_ready /\ a_valid BY <1>3, <2>4
    <3>2. got' = 0 /\ sent' = B BY <1>1, <1>4, <1>5, <2>2, <3>1, SlaveDrives
    <3>3. ~d_valid' /\ d_opcode' = AccessAckData
      BY <1>1, <1>2, <1>3, <1>9, <3>2, SlaveDrives DEF Answerable, Answered
    <3>4. AwaitingAccept'
      BY <1>1, <2>1, <2>4, <3>1, <3>2, <3>3 DEF AwaitingAccept, B
    <3>. QED BY <1>6, <2>1, <2>4, <3>4
         DEF IInv, NoAssertFails, LinkQuiet, Writing, Reading, AwaitingAck
  <2>. QED BY <2>3, <2>4
<1>. QED BY <1>1, <1>7, <1>8, <1>9 DEF Control_Typing

LEMMA ReadStep == ASSUME IInv, Slave, ReadFirst \/ ReadWaitData PROVE IInv'
<1>1. Control_Typing /\ pc \in {"rd", "rdD"} /\ Reading
  BY DEF IInv, ReadFirst, ReadWaitData
<1>2. CASE ReadFirst
  <2>1. (aAcked \/ (a_ready /\ a_valid)) <=> (aAcked \/ a_ready)
    BY <1>1 DEF Reading
  <2>. QED BY <1>1, <1>2, <2>1, ReadBeatStep DEF ReadFirst, Control_Typing
<1>3. CASE ReadWaitData
  BY <1>1, <1>3, ReadBeatStep DEF ReadWaitData, Control_Typing
<1>. QED BY <1>2, <1>3

LEMMA ReadWaitAcceptStep == ASSUME IInv, Slave, ReadWaitAccept PROVE IInv'
<1>. DEFINE B == Beats(trans.len)
<1>1. /\ Control_Typing /\ trans \in Trans /\ trans.cmd = "READ" /\ trans' = trans
      /\ a_ctl' = a_ctl /\ a_ctl = ControlOf(trans)
      /\ a_valid /\ ~d_ready /\ ~d_valid /\ d_opcode = AccessAckData
      /\ got = 0 /\ sent = B /\ beat' = beat /\ d_ready' = d_ready
      /\ a_corrupt' = a_corrupt /\ dAcked' = dAcked /\ aAcked' = a_ready
      /\ a_valid' = (a_valid /\ ~a_ready)
      /\ pc' = IF a_ready THEN "fin" ELSE "rdA"
  BY DEF IInv, Control_Typing, AwaitingAccept, ReadWaitAccept, Assert
<1>2. B \in Nat \ {0} /\ ABeats(a_ctl) = 1 /\ DBeats(a_ctl) = B /\ a_ctl.opcode = Get
  BY <1>1, RequestBeats
<1>. HIDE DEF B
<1>3. Control_Typing' BY <1>1, SlaveDrives DEF Control_Typing, PC
<1>4. CASE a_ready
  <2>1. GotNow = 1 /\ SentNow = B /\ CtlNow = a_ctl
    BY <1>1, <1>2, <1>4 DEF GotNow, SentNow, AFire, DFire, CtlNow
  <2>2. got' = 0 /\ sent' = 0 BY <1>1, <1>2, <2>1, SlaveDrives DEF MessageDone
  <2>3. ~a_valid' BY <1>1, <1>4
  <2>4. ~d_valid' BY <1>1, <2>2, <2>3, SlaveDrives DEF Answerable
  <2>. QED BY <1>1, <1>3, <1>4, <2>2, <2>3, <2>4
       DEF IInv, NoAssertFails, LinkQuiet, Writing, Reading, AwaitingAck, AwaitingAccept
<1>5. CASE ~a_ready
  <2>1. GotNow = 0 /\ SentNow = B /\ CtlNow = ctl
    BY <1>1, <1>2, <1>5 DEF GotNow, SentNow, AFire, DFire, CtlNow
  <2>2. ~MessageDone BY <1>1, <2>1, ControlBeats DEF MessageDone, Control_Typing
  <2>3. got' = 0 /\ sent' = B BY <1>1, <2>1, <2>2, SlaveDrives
  <2>4. ~d_valid' /\ d_opcode' = AccessAckData
    BY <1>1, <1>2, <2>3, SlaveDrives DEF Answered
  <2>5. AwaitingAccept' BY <1>1, <1>5, <2>3, <2>4 DEF AwaitingAccept, B
  <2>. QED BY <1>1, <1>3, <1>5, <2>5
       DEF IInv, NoAssertFails, LinkQuiet, Writing, Reading, AwaitingAck
<1>. QED BY <1>1, <1>4, <1>5 DEF Control_Typing

\* The accounts of a write while its beats are being sent.
LEMMA WriteAccounts ==
  ASSUME IInv, Slave, pc = "wr"
  PROVE  /\ Control_Typing /\ trans \in Trans /\ trans.cmd = "WRITE"
         /\ Beats(trans.len) \in Nat \ {0}
         /\ a_ctl = ControlOf(trans) /\ a_ctl.opcode = PutFull
         /\ ABeats(a_ctl) = Beats(trans.len) /\ DBeats(a_ctl) = 1
         /\ a_valid /\ beat < Beats(trans.len) /\ got = beat
         /\ d_ready <=> LastBeat(beat)
         /\ GotNow = IF a_ready THEN got + 1 ELSE got
         /\ GotNow > 0 => CtlNow = a_ctl
         /\ MessageDone => GotNow = Beats(trans.len)
         /\ GotNow = Beats(trans.len) => (MessageDone <=> SentNow = 1)
         /\ SentNow = IF AckSeen /\ (d_ready \/ sent = 1) THEN 1 ELSE 0
         /\ AckSeen => d_ready /\ d_opcode = AccessAck
         /\ sent = 1 => ~d_valid
<1>1. Control_Typing /\ Writing BY DEF IInv
<1>2. /\ trans \in Trans /\ trans.cmd = "WRITE" /\ a_ctl = ControlOf(trans)
      /\ a_valid /\ beat < Beats(trans.len) /\ got = beat
      /\ d_ready <=> LastBeat(beat)
      /\ got > 0 => ctl = a_ctl
      /\ sent \in {0, 1}
  BY <1>1 DEF Control_Typing, Writing
<1>3. /\ Beats(trans.len) \in Nat \ {0} /\ a_ctl.opcode = PutFull
      /\ ABeats(a_ctl) = Beats(trans.len) /\ DBeats(a_ctl) = 1
  BY <1>2, RequestBeats
<1>4. /\ GotNow = IF a_ready THEN got + 1 ELSE got
      /\ GotNow > 0 => CtlNow = a_ctl
  BY <1>1, <1>2 DEF GotNow, AFire, CtlNow, Control_Typing
<1>5. /\ SentNow = IF AckSeen /\ (d_ready \/ sent = 1) THEN 1 ELSE 0
      /\ AckSeen => d_ready /\ d_opcode = AccessAck
      /\ sent = 1 => ~d_valid
  BY <1>1, <1>2 DEF SentNow, DFire, AckSeen, Writing, Control_Typing
<1>6. GotNow > 0 => (MessageDone <=> GotNow = Beats(trans.len) /\ SentNow = 1)
  BY <1>3, <1>4 DEF MessageDone
<1>7. GotNow = 0 => ~MessageDone
  <2>1. CtlNow \in Control BY <1>1 DEF CtlNow, Control_Typing
  <2>. QED BY <2>1, ControlBeats DEF MessageDone
<1>8. GotNow \in Nat BY <1>1, <1>4 DEF Control_Typing
<1>. QED BY <1>1, <1>2, <1>3, <1>4, <1>5, <1>6, <1>7, <1>8

LEMMA WriteStallStep == ASSUME IInv, Slave, WriteStall PROVE IInv'
<1>1. /\ pc = "wr" /\ ~a_ready /\ dAcked' = AckSeen
      /\ trans' = trans /\ beat' = beat /\ aAcked' = aAcked /\ a_valid' = a_valid
      /\ a_ctl' = a_ctl /\ a_corrupt' = a_corrupt /\ d_ready' = d_ready
  BY DEF WriteStall
<1>. DEFINE B == Beats(trans.len)
<1>2. /\ Control_Typing /\ trans \in Trans /\ trans.cmd = "WRITE"
      /\ B \in Nat \ {0} /\ a_ctl = ControlOf(trans) /\ a_ctl.opcode = PutFull
      /\ ABeats(a_ctl) = B /\ DBeats(a_ctl) = 1
      /\ a_valid /\ beat < B /\ got = beat
      /\ d_ready <=> LastBeat(beat)
      /\ GotNow = got
      /\ GotNow > 0 => CtlNow = a_ctl
      /\ ~MessageDone
      /\ SentNow = IF AckSeen /\ (d_ready \/ sent = 1) THEN 1 ELSE 0
      /\ AckSeen => d_ready /\ d_opcode = AccessAck
      /\ sent = 1 => ~d_valid
  BY <1>1, WriteAccounts DEF Control_Typing
<1>3. pc' = "wr" BY <1>2 DEF WriteStall, Assert
<1>4. got' = got /\ sent' = SentNow BY <1>2, SlaveDrives
<1>5. Control_Typing'
  <2>1. AckSeen \in BOOLEAN BY DEF AckSeen
  <2>. QED BY <1>1, <1>2, <1>3, <2>1, SlaveDrives DEF Control_Typing
<1>6. sent' \in {0, 1} /\ (sent' = 1 <=> AckSeen) BY <1>2, <1>4
<1>7. sent' = 1 => ~d_valid' /\ d_opcode' = AccessAck
  <2>1. ASSUME sent' = 1 PROVE ~d_valid'
    <3>1. AckSeen /\ d_ready BY <1>2, <1>6, <2>1
    <3>2. ~(sent' < DBeats(a_ctl)) BY <1>2, <2>1
    <3>3. a_ctl' = a_ctl BY <1>1
    <3>4. got' > 0 => ctl' = a_ctl BY <1>2, <1>4, SlaveDrives
    <3>. QED BY <1>2, <3>1, <3>2, <3>3, <3>4, SlaveDrives DEF Answered
  <2>. QED BY <1>2, <1>6, <2>1, SlaveDrives
<1>8. d_valid' => d_opcode' = AccessAck
  <2>1. CASE d_valid /\ ~d_ready
    BY <1>1, <2>1, SlaveDrives, <1>2 DEF IInv, Writing
  <2>2. CASE ~(d_valid /\ ~d_ready)
    <3>1. got' > 0 => ctl' = a_ctl BY <1>2, <1>4, SlaveDrives
    <3>. QED BY <1>1, <1>2, <2>2, <3>1, SlaveDrives DEF Answered, Get, PutFull
  <2>. QED BY <2>1, <2>2
<1>9. Writing'
  <2>1. LastBeat(beat)' <=> LastBeat(beat) BY <1>1 DEF LastBeat
  <2>2. got' > 0 => ctl' = a_ctl' BY <1>1, <1>2, <1>4, SlaveDrives
  <2>3. dAcked' <=> sent' = 1 BY <1>1, <1>6
  <2>4. beat' < Beats(trans'.len) /\ a_ctl' = ControlOf(trans') /\ got' = beat'
    BY <1>1, <1>2, <1>4
  <2>5. sent' = 1 => d_ready' BY <1>1, <1>2, <1>6
  <2>. QED BY <1>1, <1>2, <1>6, <1>7, <1>8, <2>1, <2>2, <2>3, <2>4, <2>5 DEF Writing
<1>. QED BY <1>3, <1>5, <1>9
     DEF IInv, NoAssertFails, LinkQuiet, Reading, AwaitingAck, AwaitingAccept

LEMMA WriteNextStep == ASSUME IInv, Slave, WriteNext PROVE IInv'
<1>1. /\ pc = "wr" /\ a_ready /\ ~LastBeat(beat)
      /\ trans' = trans /\ beat' = beat + 1 /\ aAcked' = aAcked /\ a_valid' = a_valid
      /\ a_ctl' = a_ctl /\ a_corrupt' = a_corrupt
      /\ d_ready' = (d_ready \/ LastBeat(beat + 1))
      /\ dAcked' = IF LastBeat(beat + 1) THEN d_valid ELSE AckSeen
  BY DEF WriteNext
<1>. DEFINE B == Beats(trans.len)
<1>2. /\ Control_Typing /\ trans \in Trans /\ trans.cmd = "WRITE"
      /\ B \in Nat \ {0} /\ a_ctl = ControlOf(trans) /\ a_ctl.opcode = PutFull
      /\ ABeats(a_ctl) = B /\ DBeats(a_ctl) = 1
      /\ a_valid /\ beat < B /\ got = beat
      /\ ~d_ready /\ ~AckSeen /\ SentNow = 0
      /\ GotNow = got + 1
      /\ CtlNow = a_ctl
      /\ MessageDone => GotNow = B
  BY <1>1, WriteAccounts DEF Control_Typing
<1>3. pc' = "wr" BY <1>2 DEF WriteNext, Assert
<1>4. beat + 1 < B BY <1>1, <1>2 DEF LastBeat, B, Control_Typing
<1>5. got' = beat + 1 /\ sent' = 0 /\ ctl' = a_ctl
  <2>1. ~MessageDone BY <1>2, <1>4
  <2>. QED BY <1>2, <2>1, SlaveDrives
<1>6. d_valid' => d_opcode' = AccessAck
  <2>1. CASE d_valid
    BY <1>1, <1>2, <2>1, SlaveDrives DEF IInv, Writing
  <2>2. CASE ~d_valid
    <3>1. got' > 0 BY <1>2, <1>5 DEF Control_Typing
    <3>. QED BY <1>2, <1>5, <2>2, <3>1, SlaveDrives DEF Answered, Get, PutFull
  <2>. QED BY <2>1, <2>2
<1>7. d_valid => d_valid' BY <1>2, SlaveDrives
<1>8. dAcked' => d_valid' /\ d_ready' BY <1>1, <1>2, <1>7
<1>9. dAcked' \in BOOLEAN /\ d_ready' \in BOOLEAN
  BY <1>1, <1>2 DEF Control_Typing, AckSeen
<1>10. Control_Typing'
  BY <1>1, <1>2, <1>3, <1>9, SlaveDrives DEF Control_Typing
<1>11. Writing'
  <2>1. d_ready' <=> LastBeat(beat)' BY <1>1, <1>2 DEF LastBeat
  <2>2. beat' < Beats(trans'.len) /\ a_ctl' = ControlOf(trans') /\ got' = beat' /\ ctl' = a_ctl'
    BY <1>1, <1>2, <1>4, <1>5
  <2>. QED BY <1>1, <1>2, <1>5, <1>6, <1>8, <2>1, <2>2 DEF Writing
<1>. QED BY <1>3, <1>10, <1>11
     DEF IInv, NoAssertFails, LinkQuiet, Reading, AwaitingAck, AwaitingAccept

LEMMA WriteLastStep == ASSUME IInv, Slave, WriteLast PROVE IInv'
<1>1. /\ pc = "wr" /\ a_ready /\ LastBeat(beat)
      /\ trans' = trans /\ beat' = beat + 1 /\ aAcked' = aAcked /\ a_valid' = FALSE
      /\ a_ctl' = a_ctl /\ a_corrupt' = a_corrupt
      /\ d_ready' = (d_ready /\ ~AckSeen)
      /\ dAcked' = AckSeen
  BY DEF WriteLast
<1>. DEFINE B == Beats(trans.len)
<1>2. /\ Control_Typing /\ trans \in Trans /\ trans.cmd = "WRITE"
      /\ B \in Nat \ {0} /\ a_ctl = ControlOf(trans) /\ a_ctl.opcode = PutFull
      /\ ABeats(a_ctl) = B /\ DBeats(a_ctl) = 1
      /\ a_valid /\ beat < B /\ got = beat /\ d_ready
      /\ GotNow = got + 1
      /\ CtlNow = a_ctl
      /\ GotNow = B => (MessageDone <=> SentNow = 1)
      /\ SentNow = IF AckSeen THEN 1 ELSE 0
      /\ AckSeen => d_opcode = AccessAck
  BY <1>1, WriteAccounts DEF Control_Typing
<1>3. pc' = IF AckSeen THEN "fin" ELSE "wrD" BY <1>2 DEF WriteLast, Assert
<1>4. GotNow = B BY <1>1, <1>2 DEF LastBeat, B, Control_Typing
<1>5. Control_Typing'
  <2>1. AckSeen \in BOOLEAN BY DEF AckSeen
  <2>2. d_ready' \in BOOLEAN BY <1>1
  <2>3. pc' \in PC BY <1>3 DEF PC
  <2>4. dAcked' \in BOOLEAN BY <1>1, <2>1
  <2>5. Control_Typing /\ a_valid' \in BOOLEAN BY <1>1, <1>2
  <2>6. trans' \in Trans /\ beat' \in Nat /\ aAcked' \in BOOLEAN /\ a_corrupt' \in BOOLEAN
        /\ a_ctl' \in Control
    BY <1>1, <2>5 DEF Control_Typing
  <2>. QED BY <2>2, <2>3, <2>4, <2>5, <2>6, SlaveDrives DEF Control_Typing
<1>6. CASE AckSeen
  <2>1. got' = 0 /\ sent' = 0 BY <1>2, <1>4, <1>6, SlaveDrives
  <2>2. ~d_ready' /\ ~a_valid' BY <1>1, <1>6
  <2>3. ~d_valid' BY <1>2, <2>1, <2>2, SlaveDrives DEF Answerable
  <2>. QED BY <1>3, <1>5, <1>6, <2>1, <2>2, <2>3
       DEF IInv, NoAssertFails, LinkQuiet, Writing, Reading, AwaitingAck, AwaitingAccept
<1>7. CASE ~AckSeen
  <2>1. got' = B /\ sent' = 0 /\ ctl' = a_ctl BY <1>2, <1>4, <1>7, SlaveDrives
  <2>2. d_ready' /\ ~a_valid' BY <1>1, <1>2, <1>7
  <2>3. d_valid' => d_opcode' = AccessAck
    BY <1>2, <2>1, SlaveDrives DEF Answered, Get, PutFull
  <2>4. AwaitingAck' BY <1>1, <1>2, <2>1, <2>2, <2>3 DEF AwaitingAck
  <2>. QED BY <1>3, <1>5, <1>7, <2>4
       DEF IInv, NoAssertFails, LinkQuiet, Writing, Reading, AwaitingAccept
<1>. QED BY <1>6, <1>7

LEMMA WriteWaitAckStep == ASSUME IInv, Slave, WriteWaitAck PROVE IInv'
<1>. DEFINE B == Beats(trans.len)
<1>1. /\ Control_Typing /\ trans \in Trans /\ trans.cmd = "WRITE" /\ trans' = trans
      /\ ctl = ControlOf(trans) /\ a_ctl' = a_ctl
      /\ ~a_valid /\ d_ready /\ got = B /\ sent = 0
      /\ d_valid => d_opcode = AccessAck
      /\ beat' = beat /\ aAcked' = aAcked /\ a_valid' = a_valid /\ a_corrupt' = a_corrupt
      /\ dAcked' = d_valid /\ d_ready' = ~d_valid
  BY DEF IInv, Control_Typing, AwaitingAck, WriteWaitAck
<1>2. pc' = IF d_valid THEN "fin" ELSE "wrD" BY <1>1 DEF WriteWaitAck, Assert
<1>3. B \in Nat \ {0} /\ ABeats(ctl) = B /\ DBeats(ctl) = 1 /\ ctl.opcode = PutFull
  BY <1>1, RequestBeats
<1>4. GotNow = B /\ CtlNow = ctl /\ SentNow = IF d_valid THEN 1 ELSE 0
  BY <1>1, <1>3 DEF GotNow, SentNow, AFire, DFire, CtlNow
<1>5. MessageDone <=> d_valid BY <1>3, <1>4 DEF MessageDone
<1>6. Control_Typing'
  <2>1. d_ready' \in BOOLEAN BY <1>1
  <2>2. pc' \in PC BY <1>2 DEF PC
  <2>3. dAcked' \in BOOLEAN BY <1>1 DEF Control_Typing
  <2>. QED BY <1>1, <2>1, <2>2, <2>3, SlaveDrives DEF Control_Typing
<1>7. CASE d_valid
  <2>1. got' = 0 /\ sent' = 0 /\ ~d_ready' /\ ~a_valid' BY <1>1, <1>5, <1>7, SlaveDrives
  <2>2. ~d_valid' BY <1>1, <2>1, SlaveDrives DEF Answerable
  <2>. QED BY <1>2, <1>6, <1>7, <2>1, <2>2
       DEF IInv, NoAssertFails, LinkQuiet, Writing, Reading, AwaitingAck, AwaitingAccept
<1>8. CASE ~d_valid
  <2>1. got' = B /\ sent' = 0 /\ ctl' = ctl /\ d_ready' /\ ~a_valid'
    BY <1>1, <1>4, <1>5, <1>8, SlaveDrives
  <2>2. d_valid' => d_opcode' = AccessAck
    BY <1>1, <1>3, <1>8, <2>1, SlaveDrives DEF Answered, Get, PutFull
  <2>3. AwaitingAck' BY <1>1, <2>1, <2>2 DEF AwaitingAck
  <2>. QED BY <1>2, <1>6, <1>8, <2>3
       DEF IInv, NoAssertFails, LinkQuiet, Writing, Reading, AwaitingAccept
<1>. QED BY <1>7, <1>8

-----------------------------------------------------------------------------
(***************************************************************************)
(* The invariant and what follows from it.                                   *)
(***************************************************************************)
CooperativeOnly == \A k \in SlaveKinds : Cooperative(k)

LEMMA Initially == ASSUME CooperativeOnly PROVE Init => IInv
<1>. SUFFICES ASSUME Init PROVE IInv OBVIOUS
<1>1. (CHOOSE n \in Lens : TRUE) \in Lens BY TLM2TLAssumption
<1>2. 0 \in Address BY TileLinkAssumption DEF Address
<1>3. trans \in Trans BY <1>1, <1>2 DEF Init, Trans, Command
<1>4. NoControl \in Control BY <1>1, <1>2 DEF NoControl, Control, ReqOpcode
<1>5. Control_Typing
  BY <1>3, <1>4 DEF Init, Control_Typing, PC, RespOpcode, CooperativeOnly
<1>. QED BY <1>5
     DEF Init, IInv, NoAssertFails, LinkQuiet, Writing, Reading, AwaitingAck, AwaitingAccept

\* A call only changes the payload of a link that is quiet.
LEMMA CallStep == ASSUME IInv, NEW t \in Trans, Call(t) PROVE IInv'
<1>1. /\ pc = "idle" /\ pc' = "start" /\ trans' = t /\ beat' = 0
      /\ UNCHANGED <<aAcked, dAcked, a_valid, a_ctl, a_corrupt, d_ready>>
      /\ UNCHANGED <<a_ready, d_valid, d_opcode, got, sent, ctl, kind>>
  BY DEF Call, slaveVars
<1>2. Control_Typing' BY <1>1 DEF IInv, Control_Typing, PC
<1>. QED BY <1>1, <1>2
     DEF IInv, NoAssertFails, LinkQuiet, Writing, Reading, AwaitingAck, AwaitingAccept

LEMMA EdgeStep == ASSUME IInv, Edge PROVE IInv'
BY StartReadStep, StartWriteStep, QuietStep, ReadStep, ReadWaitAcceptStep,
   WriteStallStep, WriteNextStep, WriteLastStep, WriteWaitAckStep
DEF Edge, Bridge

LEMMA Stuttering == ASSUME IInv, UNCHANGED vars PROVE IInv'
BY DEF vars, bridgeVars, slaveVars, IInv, Control_Typing, NoAssertFails, LinkQuiet,
       Writing, Reading, AwaitingAck, AwaitingAccept, LastBeat

LEMMA Inductive == IInv /\ [Next]_vars => IInv'
BY CallStep, EdgeStep, Stuttering DEF Next

\* The invariant that ties what the thread believes to what the link has done
\* holds in front of every slave of the cooperative kinds.
THEOREM Invariance == ASSUME CooperativeOnly PROVE Spec => []IInv
<1>1. Init => IInv BY Initially
<1>. QED BY <1>1, Inductive, PTL DEF Spec

\* No sc_assert of b_transport ever fails.
THEOREM AssertionsHold == ASSUME CooperativeOnly PROVE Spec => []NoAssertFails
<1>1. IInv => NoAssertFails BY DEF IInv
<1>. QED BY <1>1, Invariance, PTL

\* Whenever b_transport returns, the whole message has been exchanged and nothing
\* is left on the link.
THEOREM QuietBetweenCalls == ASSUME CooperativeOnly PROVE Spec => []LinkQuiet
<1>1. IInv => LinkQuiet BY DEF IInv
<1>. QED BY <1>1, Invariance, PTL

\* No beat is sent twice, and all beats of a message carry the same control fields.
THEOREM BeatsBelong == ASSUME CooperativeOnly PROVE Spec => []NoStrayBeat
<1>1. ASSUME IInv PROVE NoStrayBeat
  <2>. SUFFICES ASSUME AFire PROVE got < ABeats(CtlNow) /\ (got > 0 => a_ctl = ctl)
    BY DEF NoStrayBeat
  <2>1. a_valid /\ Control_Typing BY <1>1 DEF AFire, IInv
  <2>2. pc \in {"wr", "rd", "rdD", "rdA"}
    BY <1>1, <2>1 DEF IInv, Control_Typing, PC, LinkQuiet, AwaitingAck, NoAssertFails
  <2>3. CASE pc = "wr"
    <3>1. /\ trans \in Trans /\ trans.cmd = "WRITE" /\ a_ctl = ControlOf(trans)
          /\ got < Beats(trans.len) /\ (got > 0 => ctl = a_ctl)
      BY <1>1, <2>3 DEF IInv, Control_Typing, Writing
    <3>. QED BY <2>1, <3>1, RequestBeats DEF CtlNow, Control_Typing
  <2>4. CASE pc \in {"rd", "rdD", "rdA"}
    <3>1. trans \in Trans /\ trans.cmd = "READ" /\ a_ctl = ControlOf(trans) /\ got = 0
      BY <1>1, <2>1, <2>4 DEF IInv, Control_Typing, Reading, AwaitingAccept
    <3>. QED BY <3>1, RequestBeats DEF CtlNow
  <2>. QED BY <2>2, <2>3, <2>4
<1>. QED BY <1>1, Invariance, PTL

\* A request stays on channel A, unchanged, until the RTL accepts it: b_transport
\* never gives up a beat because it believed it accepted a cycle too early.
THEOREM RequestStays == ASSUME CooperativeOnly PROVE Spec => RequestHeld
<1>1. ASSUME IInv, [Next]_vars, a_valid, ~a_ready
      PROVE  a_valid' /\ a_ctl' = a_ctl /\ a_data' = a_data
  <2>1. pc \in {"wr", "rd", "rdD", "rdA"}
    BY <1>1 DEF IInv, Control_Typing, PC, LinkQuiet, AwaitingAck, NoAssertFails
  <2>2. CASE WriteStall BY <1>1, <2>2 DEF WriteStall
  <2>3. CASE ReadWaitAccept BY <1>1, <2>3 DEF ReadWaitAccept
  <2>4. ASSUME pc \in {"rd", "rdD"}, NEW acked \in BOOLEAN, ReadBeat(acked, "rdD"),
               acked => aAcked
        PROVE  a_valid' /\ a_ctl' = a_ctl /\ a_data' = a_data
    <3>1. d_valid => ~acked BY <1>1, <2>4 DEF IInv, Reading
    <3>. QED BY <1>1, <2>4, <3>1 DEF ReadBeat
  <2>5. CASE ReadFirst
    <3>1. (aAcked \/ (a_ready /\ a_valid)) \in BOOLEAN /\ pc \in {"rd", "rdD"}
      BY <2>5 DEF ReadFirst
    <3>. QED BY <1>1, <2>4, <2>5, <3>1 DEF ReadFirst
  <2>6. CASE ReadWaitData
    <3>1. (aAcked \/ a_ready) \in BOOLEAN /\ pc \in {"rd", "rdD"}
      BY <2>6 DEF ReadWaitData
    <3>. QED BY <1>1, <2>4, <2>6, <3>1 DEF ReadWaitData
  <2>7. CASE UNCHANGED vars BY <1>1, <2>7 DEF vars, bridgeVars
  <2>. QED BY <1>1, <2>1, <2>2, <2>3, <2>5, <2>6, <2>7
       DEF Next, Call, Edge, Bridge, StartUnaligned, StartRead, StartWrite, EndError,
           WriteNext, WriteLast, WriteWaitAck, Return, NoCall
<1>2. IInv /\ [Next]_vars
        => [a_valid /\ ~a_ready => a_valid' /\ a_ctl' = a_ctl /\ a_data' = a_data]_vars
  BY <1>1
<1>. QED BY <1>2, Invariance, PTL DEF Spec, RequestHeld

-----------------------------------------------------------------------------
(***************************************************************************)
(* The data: where the bytes of an access are on the bus.                    *)
(***************************************************************************)

\* Sizes and the bus width are powers of two: one divides the other.
Fitting == \A n \in Lens : IF n <= Bus THEN Bus % n = 0 ELSE n % Bus = 0

LEMMA Unique ==
  ASSUME NEW n \in Nat \ {0}, NEW q \in Int, NEW r \in 0 .. n - 1
  PROVE  (n * q + r) % n = r /\ (n * q + r) \div n = q
<1>. DEFINE x == n * q + r
            p == x \div n
            m == x % n
<1>1. x \in Int /\ x = n * q + r /\ r >= 0 /\ r < n OBVIOUS
<1>. HIDE DEF x
<1>2. p \in Int /\ m \in 0 .. n - 1 /\ x = n * p + m BY <1>1
<1>. HIDE DEF p, m
<1>3. n * (p - q) = r - m BY <1>1, <1>2
<1>4. ASSUME p - q >= 1 PROVE FALSE
  <2>1. n * (p - q) >= n BY <1>2, <1>4
  <2>. QED BY <1>1, <1>2, <1>3, <2>1
<1>5. ASSUME p - q <= -1 PROVE FALSE
  <2>1. n * (p - q) <= -n BY <1>2, <1>5
  <2>. QED BY <1>1, <1>2, <1>3, <2>1
<1>6. p = q BY <1>2, <1>4, <1>5
<1>7. m = r BY <1>1, <1>2, <1>6
<1>. QED BY <1>6, <1>7 DEF p, m, x

\* An aligned address has its lowest bits in the lane.
LEMMA LaneAligned ==
  ASSUME NEW a \in Nat, NEW n \in Nat \ {0}, a % n = 0, Bus % n = 0
  PROVE  (a % Bus) % n = 0 /\ (a % Bus) + n <= Bus
<1>1. Bus \in Nat \ {0} BY TileLinkAssumption
<1>. DEFINE r == a % Bus
            d == a \div Bus
            p == a \div n
            q == Bus \div n
            k == p - q * d
<1>2. r \in Nat /\ r < Bus /\ d \in Nat /\ a = Bus * d + r BY <1>1
<1>3. p \in Nat /\ a = n * p OBVIOUS
<1>4. q \in Nat /\ Bus = n * q BY <1>1
<1>. HIDE DEF r, d, p, q
<1>5. k \in Int /\ r = n * k
  <2>1. n * p = (n * q) * d + r BY <1>2, <1>3, <1>4
  <2>2. (n * q) * d = n * (q * d) BY <1>2, <1>4
  <2>3. n * (p - q * d) = n * p - n * (q * d) BY <1>2, <1>3, <1>4
  <2>. QED BY <2>1, <2>2, <2>3, <1>2, <1>3, <1>4
<1>. HIDE DEF k
<1>6. r % n = 0
  <2>1. (n * k + 0) % n = 0 BY <1>5, Unique
  <2>. QED BY <1>5, <2>1
<1>7. ASSUME k >= q PROVE FALSE
  <2>1. n * k >= n * q BY <1>4, <1>5, <1>7
  <2>. QED BY <1>2, <1>4, <1>5, <2>1
<1>8. n * (k + 1) <= n * q BY <1>4, <1>5, <1>7
<1>9. n * (k + 1) = n * k + n BY <1>5
<1>. QED BY <1>1, <1>2, <1>4, <1>5, <1>6, <1>8, <1>9 DEF r

\* A multiple of the word has as many beats as words.
LEMMA WholeWords ==
  ASSUME NEW n \in Nat \ {0}, n % Bus = 0
  PROVE  n = Beats(n) * Bus
<1>1. Bus \in Nat \ {0} BY TileLinkAssumption
<1>. DEFINE q == n \div Bus
<1>2. q \in Int /\ n = Bus * q BY <1>1
<1>. HIDE DEF q
<1>3. n + Bus - 1 = Bus * q + (Bus - 1) /\ Bus - 1 \in 0 .. Bus - 1 BY <1>1, <1>2
<1>4. Beats(n) = q BY <1>1, <1>2, <1>3, Unique DEF Beats
<1>. QED BY <1>1, <1>2, <1>4

\* How many beats there are at most, and when there is one.
LEMMA BeatsBounded ==
  ASSUME NEW n \in Nat \ {0}
  PROVE  Beats(n) <= n /\ (Beats(n) > 1 <=> n > Bus)
<1>1. Bus \in Nat \ {0} BY TileLinkAssumption
<1>. DEFINE x == n + Bus - 1
            q == x \div Bus
<1>2. q \in Int /\ x \in Nat /\ Bus * q <= x /\ x < Bus * q + Bus BY <1>1
<1>. HIDE DEF q
<1>3. x = n + Bus - 1 OBVIOUS
<1>. HIDE DEF x
<1>4. ASSUME q > n PROVE FALSE
  <2>1. Bus * q >= Bus * (n + 1) BY <1>1, <1>2, <1>4
  <2>2. Bus * (n + 1) = Bus * n + Bus /\ Bus * n >= n BY <1>1
  <2>. QED BY <1>1, <1>2, <1>3, <2>1, <2>2
<1>5. ASSUME q > 1 PROVE n > Bus
  <2>1. Bus * q >= Bus * 2 BY <1>1, <1>2, <1>5
  <2>. QED BY <1>1, <1>2, <1>3, <2>1
<1>6. ASSUME q <= 1 PROVE n <= Bus
  <2>1. Bus * q <= Bus * 1 BY <1>1, <1>2, <1>6
  <2>. QED BY <1>1, <1>2, <1>3, <2>1
<1>7. Beats(n) = q BY <1>3 DEF Beats, q, x
<1>. QED BY <1>1, <1>2, <1>4, <1>5, <1>6, <1>7

\* An access that is not refused: within a word, or whole words.
LEMMA Layout ==
  ASSUME Fitting, NEW t \in Trans, ~Unaligned(t)
  PROVE  /\ t.len \in Nat \ {0} /\ t.len <= MaxLen /\ t.addr \in Nat
         /\ t.addr % Bus \in 0 .. Bus - 1 /\ Bus \in Nat \ {0}
         /\ WordBase(t.addr) = t.addr - (t.addr % Bus)
         /\ \/ /\ Beats(t.len) = 1 /\ AccessLen(t.len) = t.len
               /\ (t.addr % Bus) % t.len = 0 /\ (t.addr % Bus) + t.len <= Bus
            \/ /\ Beats(t.len) > 1 /\ AccessLen(t.len) = Bus
               /\ t.addr % Bus = 0 /\ t.len = Beats(t.len) * Bus
<1>1. Bus \in Nat \ {0} /\ MaxLen \in Nat /\ MemSize \in Nat BY TileLinkAssumption
<1>2. t.len \in Lens /\ t.addr \in 0 .. MemSize - 1 BY DEF Trans, Address
<1>3. t.len \in 1 .. MaxLen BY <1>2, TLM2TLAssumption
<1>4. t.len \in Nat \ {0} /\ t.len <= MaxLen BY <1>1, <1>3
<1>5. t.addr \in Nat BY <1>1, <1>2
<1>6. t.addr % AccessLen(t.len) = 0 BY DEF Unaligned
<1>7. Beats(t.len) \in Nat \ {0} /\ (Beats(t.len) > 1 <=> t.len > Bus)
  BY <1>4, BeatsPositive, BeatsBounded
<1>8. CASE t.len <= Bus
  <2>1. Beats(t.len) = 1 /\ AccessLen(t.len) = t.len BY <1>1, <1>4, <1>7, <1>8 DEF AccessLen
  <2>2. Bus % t.len = 0 BY <1>2, <1>8 DEF Fitting
  <2>. QED BY <1>1, <1>4, <1>5, <1>6, <2>1, <2>2, LaneAligned DEF WordBase
<1>9. CASE t.len > Bus
  <2>1. Beats(t.len) > 1 /\ AccessLen(t.len) = Bus BY <1>7, <1>9 DEF AccessLen
  <2>2. t.len % Bus = 0 BY <1>1, <1>2, <1>4, <1>9 DEF Fitting
  <2>. QED BY <1>1, <1>4, <1>5, <1>6, <2>1, <2>2, WholeWords DEF WordBase
<1>. QED BY <1>1, <1>4, <1>8, <1>9

\* The offsets that beat i of an access moves.
BeatOffsets(t, i) == {k \in Offset : i * Bus <= k /\ k < (i + 1) * Bus /\ k < t.len}

\* For offset k of beat i: its byte is in lane k - i * Bus + shift of the word.
LEMMA BeatBytes ==
  ASSUME Fitting, NEW t \in Trans, ~Unaligned(t), NEW i \in Nat, i < Beats(t.len)
  PROVE  /\ i * Bus \in Nat /\ i * Bus \in BeatOffsets(t, i)
         /\ i * Bus + AccessLen(t.len) <= t.len
         /\ AccessLen(t.len) \in Nat /\ AccessLen(t.len) > 0
         /\ (t.addr % Bus) + AccessLen(t.len) <= Bus
         /\ (t.addr % Bus) % AccessLen(t.len) = 0
         /\ BeatOffsets(t, i) = {k \in Offset : i * Bus <= k /\ k < i * Bus + AccessLen(t.len)}
<1>. DEFINE B == Beats(t.len)
            n == AccessLen(t.len)
            s == t.addr % Bus
            o == i * Bus
<1>1. /\ t.len \in Nat \ {0} /\ t.len <= MaxLen /\ Bus \in Nat \ {0} /\ MaxLen \in Nat
      /\ s \in Nat /\ s < Bus
      /\ \/ B = 1 /\ n = t.len /\ s % t.len = 0 /\ s + t.len <= Bus
         \/ B > 1 /\ n = Bus /\ s = 0 /\ t.len = B * Bus
  BY Layout, TileLinkAssumption
<1>2. B \in Nat BY <1>1, BeatsPositive
<1>. HIDE DEF B, n, s
<1>3. i < B BY DEF B
<1>4. o \in Nat /\ (i + 1) * Bus = o + Bus BY <1>1
<1>. HIDE DEF o
<1>5. CASE B = 1 /\ n = t.len /\ s % t.len = 0 /\ s + t.len <= Bus
  <2>1. i = 0 BY <1>3, <1>5
  <2>2. o = 0 BY <1>1, <2>1 DEF o
  <2>3. BeatOffsets(t, i) = {k \in Offset : o <= k /\ k < o + n}
    BY <1>1, <1>4, <1>5, <2>2 DEF BeatOffsets, Offset, o
  <2>4. o \in BeatOffsets(t, i) BY <1>1, <1>5, <2>2, <2>3 DEF Offset
  <2>. QED BY <1>1, <1>5, <2>2, <2>3, <2>4 DEF B, n, s, o
<1>6. CASE B > 1 /\ n = Bus /\ s = 0 /\ t.len = B * Bus
  <2>1. (i + 1) * Bus <= B * Bus BY <1>1, <1>2, <1>3
  <2>2. o + n <= t.len BY <1>1, <1>4, <1>6, <2>1
  <2>3. BeatOffsets(t, i) = {k \in Offset : o <= k /\ k < o + n}
    BY <1>1, <1>4, <1>6, <2>2 DEF BeatOffsets, Offset, o
  <2>4. o \in BeatOffsets(t, i) BY <1>1, <1>4, <1>6, <2>2, <2>3 DEF Offset
  <2>5. 0 % Bus = 0 BY <1>1
  <2>. QED BY <1>1, <1>4, <1>6, <2>2, <2>3, <2>4, <2>5 DEF B, n, s, o
<1>. QED BY <1>1, <1>5, <1>6

\* The lanes of beat i carry its bytes of the payload, and no others.
LEMMA LanesWritten ==
  ASSUME Fitting, NEW t \in Trans, ~Unaligned(t), NEW i \in Nat, i < Beats(t.len), NEW x \in Int
  PROVE  LET l == x - (WordBase(t.addr) + i * Bus)
             k == x - t.addr
         IN /\ l \in Lanes(t.addr, AccessLen(t.len)) <=> k \in BeatOffsets(t, i)
            /\ k \in BeatOffsets(t, i) => GetData(t, i)[l] = buf[k]
<1>. DEFINE n == AccessLen(t.len)
            s == t.addr % Bus
            o == i * Bus
            l == x - (WordBase(t.addr) + o)
            k == x - t.addr
<1>1. /\ o \in Nat /\ o + n <= t.len /\ n \in Nat /\ n > 0 /\ s + n <= Bus /\ s % n = 0
      /\ BeatOffsets(t, i) = {j \in Offset : o <= j /\ j < o + n}
  BY BeatBytes
<1>2. /\ t.addr \in Nat /\ s \in Nat /\ Bus \in Nat \ {0} /\ WordBase(t.addr) = t.addr - s
      /\ t.len \in Nat /\ t.len <= MaxLen /\ MaxLen \in Nat
  BY Layout, TileLinkAssumption
<1>3. l = k + s - o /\ k \in Int /\ l \in Int BY <1>1, <1>2
<1>4. Lanes(t.addr, n) = {j \in Lane : s <= j /\ j < s + n} BY DEF Lanes, ByteShift
<1>. HIDE DEF n, s, o, l, k
<1>5. l \in Lanes(t.addr, n) <=> o <= k /\ k < o + n
  BY <1>1, <1>2, <1>3, <1>4 DEF Lane
<1>6. k \in BeatOffsets(t, i) <=> o <= k /\ k < o + n
  BY <1>1, <1>2, <1>3 DEF Offset
<1>7. ASSUME k \in BeatOffsets(t, i) PROVE GetData(t, i)[l] = buf[k]
  <2>1. l \in Lane /\ s <= l /\ l < s + n BY <1>4, <1>5, <1>6, <1>7
  <2>2. GetData(t, i)[l] = IF RocketQuirk THEN buf[o + (l % n)] ELSE buf[o + l - s]
    BY <2>1 DEF GetData, n, s, o, ByteShift
  <2>3. o + l - s = k BY <1>1, <1>2, <1>3
  <2>4. l % n = k - o
    <3>1. s = n * (s \div n) /\ s \div n \in Int BY <1>1, <1>2
    <3>2. k - o \in 0 .. n - 1 BY <1>1, <1>3, <1>6, <1>7
    <3>3. (n * (s \div n) + (k - o)) % n = k - o BY <1>1, <3>1, <3>2, Unique
    <3>. QED BY <1>1, <1>2, <1>3, <3>1, <3>3
  <2>5. o + (l % n) = k BY <1>1, <1>3, <2>4
  <2>. QED BY <2>2, <2>3, <2>5
<1>. QED BY <1>5, <1>6, <1>7 DEF n, o, l, k

\* The same for the word a read is answered with.
LEMMA LanesRead ==
  ASSUME Fitting, NEW t \in Trans, ~Unaligned(t), t.addr + t.len <= MemSize,
         NEW i \in Nat, i < Beats(t.len), NEW m
  PROVE  SetData(t, i, WordAt(m, WordBase(t.addr) + i * Bus))
           = [k \in Offset |-> IF k \in BeatOffsets(t, i) THEN m[t.addr + k] ELSE buf[k]]
<1>. DEFINE n == AccessLen(t.len)
            s == t.addr % Bus
            o == i * Bus
            base == WordBase(t.addr) + o
<1>1. /\ o \in Nat /\ o + n <= t.len /\ n \in Nat /\ n > 0 /\ s + n <= Bus
      /\ BeatOffsets(t, i) = {j \in Offset : o <= j /\ j < o + n}
  BY BeatBytes
<1>2. /\ t.addr \in Nat /\ s \in Nat /\ Bus \in Nat \ {0} /\ WordBase(t.addr) = t.addr - s
      /\ t.len \in Nat /\ t.len <= MaxLen /\ MaxLen \in Nat /\ MemSize \in Nat
  BY Layout, TileLinkAssumption
<1>3. SetData(t, i, WordAt(m, base))
        = [k \in Offset |-> IF o <= k /\ k < o + n THEN WordAt(m, base)[k - o + s] ELSE buf[k]]
  BY DEF SetData, ByteShift
<1>. HIDE DEF n, s, o
<1>4. base = t.addr - s + o BY <1>1, <1>2
<1>. HIDE DEF base
<1>5. ASSUME NEW k \in Offset, o <= k, k < o + n
      PROVE  WordAt(m, base)[k - o + s] = m[t.addr + k]
  <2>1. k \in Int BY DEF Offset
  <2>2. k - o + s \in Lane BY <1>1, <1>2, <1>5, <2>1 DEF Lane
  <2>3. base + (k - o + s) = t.addr + k BY <1>1, <1>2, <1>4, <2>1
  <2>4. t.addr + k \in Address BY <1>1, <1>2, <1>5, <2>1 DEF Address
  <2>. QED BY <2>2, <2>3, <2>4 DEF WordAt
<1>6. \A k \in Offset : k \in BeatOffsets(t, i) <=> o <= k /\ k < o + n BY <1>1
<1>. QED BY <1>3, <1>5, <1>6 DEF base, o

\* Both conversions give bytes.
LEMMA DataTyped ==
  ASSUME Fitting, NEW t \in Trans, ~Unaligned(t), NEW i \in Nat, i < Beats(t.len),
         buf \in [Offset -> AnyByte]
  PROVE  /\ GetData(t, i) \in Word
         /\ \A w \in Word : SetData(t, i, w) \in [Offset -> AnyByte]
<1>. DEFINE n == AccessLen(t.len)
            s == t.addr % Bus
            o == i * Bus
<1>1. /\ o \in Nat /\ o + n <= t.len /\ n \in Nat /\ n > 0 /\ s + n <= Bus
  BY BeatBytes
<1>2. s \in Nat /\ Bus \in Nat \ {0} /\ t.len \in Nat /\ t.len <= MaxLen /\ MaxLen \in Nat
  BY Layout, TileLinkAssumption
<1>3. GetData(t, i) = [l \in Lane |->
        IF RocketQuirk THEN buf[o + (l % n)]
        ELSE IF s <= l /\ l < s + n THEN buf[o + l - s] ELSE NoByte]
  BY DEF GetData, ByteShift
<1>4. \A w : SetData(t, i, w) =
        [k \in Offset |-> IF o <= k /\ k < o + n THEN w[k - o + s] ELSE buf[k]]
  BY DEF SetData, ByteShift
<1>. HIDE DEF n, s, o
<1>5. \A k \in Offset : buf[k] \in AnyByte OBVIOUS
<1>6. ASSUME NEW l \in Lane
      PROVE  o + (l % n) \in Offset /\ (s <= l /\ l < s + n => o + l - s \in Offset)
  <2>1. l \in Int /\ l % n \in 0 .. n - 1 BY <1>1 DEF Lane
  <2>. QED BY <1>1, <1>2, <2>1 DEF Offset
<1>7. ASSUME NEW w \in Word, NEW k \in Offset, o <= k, k < o + n PROVE w[k - o + s] \in AnyByte
  <2>1. k - o + s \in Lane BY <1>1, <1>2, <1>7 DEF Lane, Offset
  <2>. QED BY <2>1 DEF Word
<1>8. NoByte \in AnyByte BY DEF AnyByte
<1>9. GetData(t, i) \in [Lane -> AnyByte] BY <1>3, <1>5, <1>6, <1>8
<1>. QED BY <1>4, <1>5, <1>7, <1>9 DEF Word

-----------------------------------------------------------------------------
(***************************************************************************)
(* The invariant of the data, on top of IInv: where the call stands, and     *)
(* which bytes are on the wires.                                             *)
(***************************************************************************)
Data_Typing ==
  /\ buf \in [Offset -> AnyByte]
  /\ status \in {"INCOMPLETE", "OK", "ADDRESS_ERROR"}
  /\ a_data \in Word
  /\ d_data \in Word
  /\ mem \in [Address -> AnyByte]

Progress ==
  /\ pc # "idle" => trans.addr + trans.len <= MemSize
  /\ pc \in {"rd", "rdD", "wr"} => ~Unaligned(trans)
  /\ pc \in {"start", "err"} => beat = 0
  /\ pc \in {"rdA", "wrD", "fin"} => beat = Beats(trans.len)
  /\ pc = "err" => status = "ADDRESS_ERROR"
  /\ pc = "fin" => status = "OK"
  /\ beat <= Beats(trans.len)

Words ==
  /\ pc = "wr" => a_data = GetData(trans, beat)
  /\ pc \in {"rd", "rdD"} /\ d_valid =>
       d_data = WordAt(mem, WordBase(trans.addr) + beat * Bus)

DInv == Data_Typing /\ Progress /\ Words

\* Outside the write loop an edge leaves the memory alone.
LEMMA MemoryKept ==
  ASSUME IInv, Slave, pc # "wr" \/ ~a_ready
  PROVE  mem' = mem
<1>. SUFFICES ASSUME AFire PROVE CtlNow.opcode # PutFull
  BY DEF Slave, SlaveAccept
<1>1. a_valid /\ a_ready /\ Control_Typing BY DEF AFire, IInv
<1>2. pc \in {"rd", "rdD", "rdA"}
  BY <1>1 DEF IInv, Control_Typing, PC, LinkQuiet, AwaitingAck, NoAssertFails
<1>3. trans \in Trans /\ trans.cmd = "READ" /\ a_ctl = ControlOf(trans) /\ got = 0
  BY <1>1, <1>2 DEF IInv, Control_Typing, Reading, AwaitingAccept
<1>. QED BY <1>3, RequestBeats DEF CtlNow, Get, PutFull

\* In it, an accepted beat writes its bytes of the payload.
LEMMA MemoryWritten ==
  ASSUME Fitting, IInv, DInv, Slave, pc = "wr", a_ready
  PROVE  mem' = [x \in Address |-> IF x - trans.addr \in BeatOffsets(trans, beat)
                                   THEN buf[x - trans.addr] ELSE mem[x]]
<1>1. /\ trans \in Trans /\ a_ctl = ControlOf(trans) /\ a_ctl.opcode = PutFull
      /\ a_valid /\ beat \in Nat /\ beat < Beats(trans.len) /\ got = beat /\ GotNow = got + 1
      /\ GotNow > 0 => CtlNow = a_ctl
  BY WriteAccounts DEF Control_Typing
<1>2. CtlNow = a_ctl BY <1>1
<1>3. ~Unaligned(trans) /\ a_data = GetData(trans, beat) BY DEF DInv, Progress, Words
<1>4. a_ctl.addr = trans.addr /\ a_ctl.mask = Lanes(trans.addr, AccessLen(trans.len))
  BY <1>1 DEF ControlOf
<1>. DEFINE base == WordBase(trans.addr) + beat * Bus
<1>5. mem' = [x \in Address |-> IF x - base \in Lanes(trans.addr, AccessLen(trans.len))
                                THEN GetData(trans, beat)[x - base] ELSE mem[x]]
  BY <1>1, <1>2, <1>3, <1>4 DEF Slave, SlaveAccept, AFire
<1>6. ASSUME NEW x \in Address
      PROVE  /\ x - base \in Lanes(trans.addr, AccessLen(trans.len))
                  <=> x - trans.addr \in BeatOffsets(trans, beat)
             /\ x - trans.addr \in BeatOffsets(trans, beat)
                  => GetData(trans, beat)[x - base] = buf[x - trans.addr]
  <2>1. x \in Int BY DEF Address
  <2>. QED BY <1>1, <1>3, <2>1, LanesWritten
<1>. HIDE DEF base
<1>. QED BY <1>5, <1>6

\* What the slave puts on channel D is bytes, and for a read the word it waits for.
LEMMA WordOffered ==
  ASSUME IInv, DInv, Slave
  PROVE  d_data' \in Word
<1>1. [l \in Lane |-> NoByte] \in Word BY DEF Word, AnyByte
<1>2. \A base : WordAt(mem, base) \in Word BY DEF WordAt, Word, AnyByte, DInv, Data_Typing
<1>3. CASE Offer BY <1>1, <1>2, <1>3 DEF Offer
<1>4. CASE KeepOffer BY <1>4 DEF KeepOffer, DInv, Data_Typing
<1>5. CASE NoOffer BY <1>1, <1>5 DEF NoOffer
<1>. QED BY <1>3, <1>4, <1>5 DEF Slave

LEMMA WordAnswered ==
  ASSUME IInv', Slave, pc' \in {"rd", "rdD"}, d_valid', ~(d_valid /\ ~d_ready)
  PROVE  d_data' = WordAt(mem, WordBase(trans'.addr) + beat' * Bus)
<1>1. /\ trans' \in Trans /\ trans'.cmd = "READ" /\ a_ctl' = ControlOf(trans') /\ sent' = beat'
      /\ got' \in {0, 1} /\ (got' = 1 => ctl' = a_ctl')
  BY DEF IInv, Control_Typing, Reading
<1>2. Answered = a_ctl' BY <1>1 DEF Answered
<1>3. Answered.opcode = Get /\ Answered.addr = trans'.addr BY <1>1, <1>2 DEF ControlOf
<1>4. Offer BY DEF Slave, KeepOffer, NoOffer
<1>. QED BY <1>1, <1>3, <1>4 DEF Offer

\* A step that leaves the access and the counter alone, outside the loops.
LEMMA StartData ==
  ASSUME Fitting, IInv, IInv', DInv, Slave, StartUnaligned \/ StartRead \/ StartWrite
  PROVE  DInv'
<1>. USE DEF DInv
<1>1. /\ pc = "start" /\ trans \in Trans /\ ~d_valid /\ beat = 0 /\ beat' = beat
      /\ trans' = trans /\ buf' = buf
  BY DEF IInv, LinkQuiet, Control_Typing, StartUnaligned, StartRead, StartWrite
<1>2. mem' = mem /\ d_data' \in Word BY <1>1, MemoryKept, WordOffered
<1>3. Beats(trans.len) \in Nat \ {0} BY <1>1, RequestBeats
<1>4. pc' # "abort" BY DEF IInv, NoAssertFails
<1>5. CASE StartUnaligned
  <2>1. pc' = "err" BY <1>4, <1>5 DEF StartUnaligned, Assert
  <2>2. status' = "ADDRESS_ERROR" /\ a_data' = a_data BY <1>5 DEF StartUnaligned
  <2>. QED BY <1>1, <1>2, <1>3, <2>1, <2>2 DEF Data_Typing, Progress, Words
<1>6. CASE StartRead
  <2>1. pc' = "rd" BY <1>4, <1>6 DEF StartRead, Assert
  <2>2. status' = status /\ a_data' = a_data /\ ~Unaligned(trans) BY <1>6 DEF StartRead
  <2>3. Words' BY <1>1, <1>2, <2>1, WordAnswered DEF Words
  <2>. QED BY <1>1, <1>2, <1>3, <2>1, <2>2, <2>3 DEF Data_Typing, Progress, Unaligned
<1>7. CASE StartWrite
  <2>1. pc' = "wr" BY <1>4, <1>7 DEF StartWrite, Assert
  <2>2. status' = status /\ a_data' = GetData(trans, 0) /\ ~Unaligned(trans) BY <1>7 DEF StartWrite
  <2>3. a_data' \in Word BY <1>1, <1>3, <2>2, DataTyped DEF Data_Typing
  <2>4. GetData(trans, beat)' = GetData(trans, 0) BY <1>1 DEF GetData
  <2>. QED BY <1>1, <1>2, <1>3, <2>1, <2>2, <2>3, <2>4
       DEF Data_Typing, Progress, Words, Unaligned
<1>. QED BY <1>5, <1>6, <1>7

LEMMA EndData ==
  ASSUME IInv, IInv', DInv, Slave, EndError \/ Return \/ NoCall
  PROVE  DInv'
<1>1. pc \in {"err", "fin", "idle"} /\ pc' = "idle" /\ UNCHANGED <<trans, buf, status, beat, a_data>>
  BY DEF EndError, Return, NoCall, bridgeVars
<1>2. mem' = mem /\ d_data' \in Word BY <1>1, MemoryKept, WordOffered
<1>. QED BY <1>1, <1>2 DEF DInv, Data_Typing, Progress, Words

\* A read beat takes the bytes of the word it has waited for.
LEMMA ReadData ==
  ASSUME Fitting, IInv, IInv', DInv, Slave, pc \in {"rd", "rdD"},
         NEW acked, ReadBeat(acked, "rdD")
  PROVE  DInv'
<1>. USE DEF DInv
<1>1. /\ trans \in Trans /\ trans' = trans /\ a_data' = a_data
      /\ beat \in Nat /\ beat < Beats(trans.len) /\ d_ready /\ ~Unaligned(trans)
      /\ trans.addr + trans.len <= MemSize
  BY DEF IInv, Control_Typing, Reading, ReadBeat, Progress
<1>2. mem' = mem /\ d_data' \in Word BY MemoryKept, WordOffered
<1>3. Beats(trans.len) \in Nat BY <1>1, RequestBeats
<1>4. pc' # "abort" BY DEF IInv, NoAssertFails
<1>5. buf' \in [Offset -> AnyByte] /\ status' \in {"INCOMPLETE", "OK", "ADDRESS_ERROR"}
  BY <1>1, DataTyped DEF ReadBeat, Data_Typing
<1>6. pc' \in {"rd", "rdD"} => Words'
  BY <1>1, <1>2, WordAnswered DEF Words
<1>7. CASE ~d_valid
  <2>1. pc' = "rdD" /\ beat' = beat BY <1>4, <1>7 DEF ReadBeat, Assert
  <2>. QED BY <1>1, <1>2, <1>5, <1>6, <2>1 DEF Data_Typing, Progress, Unaligned
<1>8. CASE d_valid /\ ~LastBeat(beat)
  <2>1. pc' = "rd" /\ beat' = beat + 1 BY <1>4, <1>8 DEF ReadBeat, Assert
  <2>2. beat' <= Beats(trans.len) BY <1>1, <1>3, <2>1
  <2>. QED BY <1>1, <1>2, <1>5, <1>6, <2>1, <2>2 DEF Data_Typing, Progress, Unaligned
<1>9. CASE d_valid /\ LastBeat(beat)
  <2>1. /\ pc' \in {"fin", "rdA"} /\ beat' = beat + 1 /\ (pc' = "fin" => status' = "OK")
    BY <1>4, <1>9 DEF ReadBeat, Assert
  <2>2. beat' = Beats(trans.len) BY <1>1, <1>3, <1>9, <2>1 DEF LastBeat
  <2>. QED BY <1>1, <1>2, <1>3, <1>5, <2>1, <2>2 DEF Data_Typing, Progress, Words
<1>. QED BY <1>7, <1>8, <1>9

\* The waits after the last beat.
LEMMA WaitData ==
  ASSUME IInv, IInv', DInv, Slave, ReadWaitAccept \/ WriteWaitAck
  PROVE  DInv'
<1>1. /\ pc \in {"rdA", "wrD"} /\ UNCHANGED <<trans, buf, beat, a_data>>
      /\ pc' \in {"rdA", "wrD", "fin", "abort"}
      /\ status' = IF pc' = "fin" THEN "OK" ELSE status
      /\ status' \in {status, "OK"}
  BY DEF ReadWaitAccept, WriteWaitAck, Assert, IInv, NoAssertFails
<1>2. mem' = mem /\ d_data' \in Word BY <1>1, MemoryKept, WordOffered
<1>3. pc' # "abort" BY DEF IInv, NoAssertFails
<1>. QED BY <1>1, <1>2, <1>3 DEF DInv, Data_Typing, Progress, Words

\* A write beat that is accepted has written its bytes, and the next one is put out.
LEMMA WriteData ==
  ASSUME Fitting, IInv, IInv', DInv, Slave, WriteStall \/ WriteNext \/ WriteLast
  PROVE  DInv'
<1>. USE DEF DInv
<1>1. /\ pc = "wr" /\ trans' = trans /\ buf' = buf
      /\ trans \in Trans /\ beat \in Nat /\ beat < Beats(trans.len)
      /\ ~Unaligned(trans) /\ buf \in [Offset -> AnyByte]
  BY DEF IInv, Control_Typing, Writing, Progress, Data_Typing, WriteStall, WriteNext, WriteLast
<1>2. Beats(trans.len) \in Nat BY <1>1, RequestBeats
<1>3. pc' # "abort" BY DEF IInv, NoAssertFails
<1>4. d_data' \in Word BY WordOffered
<1>5. mem' \in [Address -> AnyByte]
  <2>1. CASE a_ready
    <3>1. \A x \in Address : x - trans.addr \in BeatOffsets(trans, beat) => buf[x - trans.addr] \in AnyByte
      BY <1>1 DEF BeatOffsets
    <3>2. \A x \in Address : mem[x] \in AnyByte BY DEF Data_Typing
    <3>. QED BY <1>1, <2>1, <3>1, <3>2, MemoryWritten
  <2>2. CASE ~a_ready BY <2>2, MemoryKept DEF Data_Typing
  <2>. QED BY <2>1, <2>2
<1>6. CASE WriteStall
  <2>1. pc' = "wr" /\ beat' = beat /\ a_data' = a_data /\ status' = status
    BY <1>3, <1>6 DEF WriteStall, Assert
  <2>2. GetData(trans, beat)' = GetData(trans, beat) BY <1>1, <2>1 DEF GetData
  <2>. QED BY <1>1, <1>4, <1>5, <2>1, <2>2 DEF Data_Typing, Progress, Words, Unaligned
<1>7. CASE WriteNext
  <2>1. /\ pc' = "wr" /\ beat' = beat + 1 /\ a_data' = GetData(trans, beat + 1) /\ status' = status
        /\ ~LastBeat(beat)
    BY <1>3, <1>7 DEF WriteNext, Assert
  <2>2. beat + 1 \in Nat /\ beat + 1 < Beats(trans.len) BY <1>1, <1>2, <2>1 DEF LastBeat
  <2>3. a_data' \in Word BY <1>1, <2>1, <2>2, DataTyped
  <2>4. GetData(trans, beat)' = GetData(trans, beat + 1) BY <1>1, <2>1 DEF GetData
  <2>. QED BY <1>1, <1>2, <1>4, <1>5, <2>1, <2>2, <2>3, <2>4 DEF Data_Typing, Progress, Words, Unaligned
<1>8. CASE WriteLast
  <2>1. /\ pc' \in {"fin", "wrD"} /\ beat' = beat + 1 /\ a_data' = a_data /\ LastBeat(beat)
        /\ (pc' = "fin" => status' = "OK") /\ status' \in {status, "OK"}
    BY <1>3, <1>8 DEF WriteLast, Assert
  <2>2. beat' = Beats(trans.len) BY <1>1, <1>2, <2>1 DEF LastBeat
  <2>. QED BY <1>1, <1>2, <1>4, <1>5, <2>1, <2>2 DEF Data_Typing, Progress, Words
<1>. QED BY <1>6, <1>7, <1>8

LEMMA CallData ==
  ASSUME IInv, IInv', DInv, NEW t \in Trans, Call(t)
  PROVE  DInv'
<1>1. /\ pc' = "start" /\ trans' = t /\ beat' = 0 /\ status' = "INCOMPLETE"
      /\ t.addr + t.len <= MemSize /\ UNCHANGED <<a_data, d_data, mem>>
  BY DEF Call, slaveVars
<1>2. PICK data \in Payload : buf' = PayloadOf(t, data) BY DEF Call
<1>3. buf' \in [Offset -> AnyByte]
  <2>1. data \in [Offset -> Byte] BY TileLinkAssumption DEF Offset
  <2>. QED BY <1>2, <2>1 DEF PayloadOf, AnyByte
<1>4. Beats(t.len) \in Nat BY RequestBeats
<1>. QED BY <1>1, <1>3, <1>4 DEF DInv, Data_Typing, Progress, Words

LEMMA InitData == Init => DInv
<1>. SUFFICES ASSUME Init PROVE DInv OBVIOUS
<1>1. trans.len \in Lens BY TLM2TLAssumption DEF Init
<1>2. Beats(trans.len) \in Nat BY <1>1, LensPositive, BeatsPositive
<1>3. mem \in [Address -> AnyByte]
  <2>1. mem \in [Address -> Byte] BY TileLinkAssumption DEF Init, Address
  <2>. QED BY <2>1 DEF AnyByte
<1>4. Data_Typing BY <1>3 DEF Init, Data_Typing, Word, AnyByte
<1>5. Progress BY <1>2 DEF Init, Progress
<1>. QED BY <1>4, <1>5 DEF Init, DInv, Words

LEMMA DataStep == ASSUME Fitting, IInv, IInv', DInv, [Next]_vars PROVE DInv'
<1>1. ASSUME NEW t \in Trans, Call(t) PROVE DInv' BY <1>1, CallData
<1>2. CASE Edge
  <2>1. CASE StartUnaligned \/ StartRead \/ StartWrite BY <1>2, <2>1, StartData DEF Edge
  <2>2. CASE EndError \/ Return \/ NoCall BY <1>2, <2>2, EndData DEF Edge
  <2>3. CASE ReadFirst \/ ReadWaitData BY <1>2, <2>3, ReadData DEF Edge, ReadFirst, ReadWaitData
  <2>4. CASE ReadWaitAccept \/ WriteWaitAck BY <1>2, <2>4, WaitData DEF Edge
  <2>5. CASE WriteStall \/ WriteNext \/ WriteLast BY <1>2, <2>5, WriteData DEF Edge
  <2>. QED BY <1>2, <2>1, <2>2, <2>3, <2>4, <2>5 DEF Edge, Bridge
<1>3. CASE UNCHANGED vars
  <2>1. UNCHANGED <<pc, trans, buf, status, beat, a_data, d_valid, d_data, mem>>
    BY <1>3 DEF vars, bridgeVars, slaveVars
  <2>. QED BY <2>1 DEF DInv, Data_Typing, Progress, Words, Unaligned, GetData, WordAt
<1>. QED BY <1>1, <1>2, <1>3 DEF Next

\* The bytes b_transport has moved so far are the ones its counters say: those of
\* the beats that are through are where they belong, the others untouched.
THEOREM DataInvariance == ASSUME CooperativeOnly, Fitting PROVE Spec => [](IInv /\ DInv)
<1>1. Init => IInv /\ DInv BY Initially, InitData
<1>2. IInv /\ DInv /\ [Next]_vars => (IInv /\ DInv)'
  <2>1. IInv /\ [Next]_vars => IInv' BY Inductive
  <2>. QED BY <2>1, DataStep
<1>. QED BY <1>1, <1>2, PTL DEF Spec

\* All the bridge and the slave keep has its type; the counters stay below the
\* longest message.
THEOREM TypeCorrect == ASSUME CooperativeOnly, Fitting PROVE Spec => []TypeOK
<1>1. ASSUME IInv, DInv PROVE TypeOK
  <2>1. trans \in Trans /\ Control_Typing BY <1>1 DEF IInv, Control_Typing
  <2>2. Beats(trans.len) \in Nat /\ Beats(trans.len) <= MaxLen /\ MaxLen \in Nat /\ MaxLen >= 1
    <3>1. trans.len \in 1 .. MaxLen BY <2>1, TLM2TLAssumption DEF Trans
    <3>2. MaxLen \in Nat \ {0} BY TileLinkAssumption
    <3>3. trans.len \in Nat \ {0} /\ trans.len <= MaxLen BY <3>1, <3>2
    <3>. QED BY <3>2, <3>3, BeatsPositive, BeatsBounded
  <2>3. beat \in 0 .. MaxLen BY <1>1, <2>1, <2>2 DEF DInv, Progress, Control_Typing
  <2>4. got \in 0 .. MaxLen /\ sent \in 0 .. MaxLen
    <3>1. CASE pc = "wr" BY <1>1, <2>2, <2>3, <3>1 DEF IInv, Writing
    <3>2. CASE pc = "wrD" BY <1>1, <2>2, <3>2 DEF IInv, AwaitingAck
    <3>3. CASE pc \in {"rd", "rdD"} BY <1>1, <2>2, <2>3, <3>3 DEF IInv, Reading
    <3>4. CASE pc = "rdA" BY <1>1, <2>2, <3>4 DEF IInv, AwaitingAccept
    <3>5. CASE pc \in {"idle", "start", "err", "fin"} BY <1>1, <2>2, <3>5 DEF IInv, LinkQuiet
    <3>. QED BY <1>1, <2>1, <3>1, <3>2, <3>3, <3>4, <3>5
         DEF IInv, NoAssertFails, Control_Typing, PC
  <2>. QED BY <1>1, <2>1, <2>3, <2>4 DEF TypeOK, DInv, Data_Typing, Control_Typing
<1>. QED BY <1>1, DataInvariance, PTL

-----------------------------------------------------------------------------
(***************************************************************************)
(* The bridge is a memory service.                                           *)
(***************************************************************************)

\* The offsets the first j beats move.
MovedBy(t, j) == {k \in AccessOf(t).offsets : k < j * Bus}

\* Beat i moves offsets that no earlier beat has moved.
LEMMA MovedByBeat ==
  ASSUME Fitting, NEW t \in Trans, ~Unaligned(t), NEW i \in Nat, i < Beats(t.len)
  PROVE  /\ BeatOffsets(t, i) # {}
         /\ BeatOffsets(t, i) \subseteq AccessOf(t).offsets \ MovedBy(t, i)
         /\ MovedBy(t, i + 1) = MovedBy(t, i) \cup BeatOffsets(t, i)
<1>. DEFINE o == i * Bus
            p == (i + 1) * Bus
<1>1. o \in BeatOffsets(t, i) BY BeatBytes
<1>2. o \in Nat /\ p \in Nat /\ o <= p
  <2>1. Bus \in Nat \ {0} BY TileLinkAssumption
  <2>2. p = o + Bus BY <2>1
  <2>. QED BY <2>1, <2>2
<1>3. Offset \subseteq Int /\ t.len \in Int BY LensPositive DEF Offset, Trans
<1>. HIDE DEF o, p
<1>4. /\ BeatOffsets(t, i) = {k \in Offset : o <= k /\ k < p /\ k < t.len}
      /\ MovedBy(t, i) = {k \in Offset : k < t.len /\ k < o}
      /\ MovedBy(t, i + 1) = {k \in Offset : k < t.len /\ k < p}
      /\ AccessOf(t).offsets = {k \in Offset : k < t.len}
  BY DEF BeatOffsets, MovedBy, AccessOf, o, p
<1>5. BeatOffsets(t, i) # {} BY <1>1
<1>6. BeatOffsets(t, i) \subseteq AccessOf(t).offsets \ MovedBy(t, i)
  <2>1. \A k \in Offset : o <= k => ~(k < o) BY <1>2, <1>3
  <2>. QED BY <1>4, <2>1
<1>7. \A k \in Offset : k < p <=> (k < o \/ (o <= k /\ k < p)) BY <1>2, <1>3
<1>8. MovedBy(t, i + 1) = MovedBy(t, i) \cup BeatOffsets(t, i) BY <1>4, <1>7
<1>. QED BY <1>5, <1>6, <1>8

\* The beats of an access cover it, and none of them has moved a byte before the first.
LEMMA MovedByAll ==
  ASSUME NEW t \in Trans
  PROVE  MovedBy(t, Beats(t.len)) = AccessOf(t).offsets /\ MovedBy(t, 0) = {}
<1>1. Bus \in Nat \ {0} /\ t.len \in Nat \ {0}
  BY TileLinkAssumption, LensPositive DEF Trans
<1>. DEFINE x == t.len + Bus - 1
            q == x \div Bus
<1>2. x \in Nat /\ q \in Int /\ x < Bus * q + Bus
  <2>1. x \in Nat BY <1>1
  <2>. HIDE DEF x
  <2>. QED BY <1>1, <2>1
<1>3. t.len <= Bus * q BY <1>1, <1>2
<1>4. Beats(t.len) = q BY DEF Beats
<1>. HIDE DEF q
<1>5. Bus * q = q * Bus BY <1>1, <1>2
<1>6. \A k \in Offset : k \in Int /\ k >= 0 BY DEF Offset
<1>7. 0 * Bus = 0 BY <1>1
<1>. QED BY <1>1, <1>2, <1>3, <1>4, <1>5, <1>6, <1>7 DEF MovedBy, AccessOf

\* An edge that moves nothing cannot be seen.
LEMMA Unseen ==
  ASSUME mem' = mem, UNCHANGED <<trans, buf, beat>>,
         \/ pc # "idle" /\ pc' # "idle"
         \/ pc = "idle" /\ pc' = "idle" /\ status' = status
  PROVE  [Service!Next]_Service!vars
BY DEF Service!vars, AccessOf

\* An accepted beat of a write moves its bytes into the memory, one of a read into
\* the payload.
LEMMA BeatMoves ==
  ASSUME Fitting, IInv, DInv, pc # "idle", pc' # "idle", ~Unaligned(trans),
         trans' = trans, beat < Beats(trans.len), beat' = beat + 1,
         \/ /\ trans.cmd = "WRITE" /\ buf' = buf
            /\ mem' = [x \in Address |-> IF x - trans.addr \in BeatOffsets(trans, beat)
                                         THEN buf[x - trans.addr] ELSE mem[x]]
         \/ /\ trans.cmd = "READ" /\ mem' = mem
            /\ buf' = [k \in Offset |-> IF k \in BeatOffsets(trans, beat)
                                        THEN mem[trans.addr + k] ELSE buf[k]]
  PROVE  Service!Next
<1>1. trans \in Trans /\ beat \in Nat BY DEF IInv, Control_Typing
<1>2. PICK S \in SUBSET Offset : S = BeatOffsets(trans, beat) BY DEF BeatOffsets
<1>3. /\ S # {} /\ S \subseteq AccessOf(trans).offsets \ MovedBy(trans, beat)
      /\ MovedBy(trans, beat + 1) = MovedBy(trans, beat) \cup S
  BY <1>1, <1>2, MovedByBeat
<1>4. AccessOf(trans).cmd = trans.cmd /\ AccessOf(trans).addr = trans.addr BY DEF AccessOf
<1>5. AccessOf(trans)' = AccessOf(trans) BY DEF AccessOf
<1>6. {k \in AccessOf(trans).offsets : k < beat * Bus}' = MovedBy(trans, beat + 1)
  BY DEF MovedBy, AccessOf
<1>7. {k \in AccessOf(trans).offsets : k < beat * Bus} = MovedBy(trans, beat) BY DEF MovedBy
<1>8. Service!Move(S)
  <2>1. CASE /\ trans.cmd = "WRITE" /\ buf' = buf
             /\ mem' = [x \in Address |-> IF x - trans.addr \in S
                                          THEN buf[x - trans.addr] ELSE mem[x]]
    BY <1>3, <1>4, <1>5, <1>6, <1>7, <2>1 DEF Service!Move
  <2>2. CASE /\ trans.cmd = "READ" /\ mem' = mem
             /\ buf' = [k \in Offset |-> IF k \in S THEN mem[trans.addr + k] ELSE buf[k]]
    BY <1>3, <1>4, <1>5, <1>6, <1>7, <2>2 DEF Service!Move
  <2>. QED BY <1>2, <2>1, <2>2
<1>. QED BY <1>2, <1>8 DEF Service!Next

LEMMA InitServes == Init => Service!Init
<1>. SUFFICES ASSUME Init PROVE Service!Init OBVIOUS
<1>1. DInv BY InitData
<1>2. trans \in Trans
  <2>1. 0 \in Address BY TileLinkAssumption DEF Address
  <2>. QED BY <2>1, TLM2TLAssumption DEF Init, Trans, Command
<1>. QED BY <1>1, <1>2 DEF Service!Init, Init, DInv, Data_Typing

LEMMA CallServes ==
  ASSUME DInv', NEW t \in Trans, Call(t)
  PROVE  Service!Issue
<1>1. pc = "idle" /\ pc' = "start" /\ trans' = t /\ beat' = 0 /\ mem' = mem
  BY DEF Call, slaveVars
<1>2. buf' \in [Offset -> AnyByte] BY DEF DInv, Data_Typing
<1>3. AccessOf(trans)' = AccessOf(t) BY <1>1 DEF AccessOf
<1>4. {k \in AccessOf(trans).offsets : k < beat * Bus}' = {}
  <2>1. MovedBy(t, 0) = {} BY MovedByAll
  <2>. QED BY <1>1, <2>1 DEF MovedBy, AccessOf
<1>. QED BY <1>1, <1>2, <1>3, <1>4 DEF Service!Issue

LEMMA ReadServes ==
  ASSUME Fitting, IInv, IInv', DInv, Slave, pc \in {"rd", "rdD"},
         NEW acked, ReadBeat(acked, "rdD")
  PROVE  [Service!Next]_Service!vars
<1>1. /\ trans \in Trans /\ trans' = trans /\ trans.cmd = "READ"
      /\ beat \in Nat /\ beat < Beats(trans.len) /\ ~Unaligned(trans)
      /\ trans.addr + trans.len <= MemSize
  BY DEF IInv, Control_Typing, Reading, ReadBeat, DInv, Progress
<1>2. mem' = mem BY MemoryKept
<1>3. pc' # "idle" BY DEF ReadBeat, Assert
<1>4. CASE ~d_valid
  <2>1. UNCHANGED <<trans, buf, beat>> BY <1>1, <1>4 DEF ReadBeat
  <2>. QED BY <1>2, <1>3, <2>1, Unseen
<1>5. CASE d_valid
  <2>1. beat' = beat + 1 /\ buf' = SetData(trans, beat, d_data) BY <1>5 DEF ReadBeat
  <2>2. d_data = WordAt(mem, WordBase(trans.addr) + beat * Bus) BY <1>5 DEF DInv, Words
  <2>3. buf' = [k \in Offset |-> IF k \in BeatOffsets(trans, beat)
                                 THEN mem[trans.addr + k] ELSE buf[k]]
    BY <1>1, <2>1, <2>2, LanesRead
  <2>. QED BY <1>1, <1>2, <1>3, <2>1, <2>3, BeatMoves
<1>. QED BY <1>4, <1>5

LEMMA WriteServes ==
  ASSUME Fitting, IInv, IInv', DInv, Slave, WriteStall \/ WriteNext \/ WriteLast
  PROVE  [Service!Next]_Service!vars
<1>1. /\ pc = "wr" /\ pc' # "idle" /\ trans' = trans /\ buf' = buf /\ trans.cmd = "WRITE"
      /\ beat < Beats(trans.len) /\ ~Unaligned(trans)
  BY DEF IInv, Writing, DInv, Progress, WriteStall, WriteNext, WriteLast, Assert
<1>2. CASE WriteStall
  <2>1. ~a_ready /\ beat' = beat BY <1>2 DEF WriteStall
  <2>. QED BY <1>1, <2>1, MemoryKept, Unseen
<1>3. CASE WriteNext \/ WriteLast
  <2>1. a_ready /\ beat' = beat + 1 BY <1>3 DEF WriteNext, WriteLast
  <2>. QED BY <1>1, <2>1, MemoryWritten, BeatMoves
<1>. QED BY <1>2, <1>3

\* A refused call has moved nothing, one that returns has moved all of it.
LEMMA EndServes ==
  ASSUME IInv, DInv, mem' = mem, EndError \/ Return
  PROVE  Service!Next
<1>1. /\ pc # "idle" /\ pc' = "idle" /\ UNCHANGED <<trans, buf, status, beat>>
      /\ trans \in Trans
  BY DEF EndError, Return, IInv, Control_Typing
<1>2. AccessOf(trans)' = AccessOf(trans) BY <1>1 DEF AccessOf
<1>3. {k \in AccessOf(trans).offsets : k < beat * Bus} = MovedBy(trans, beat) BY DEF MovedBy
<1>4. CASE EndError
  <2>1. beat = 0 /\ status = "ADDRESS_ERROR" BY <1>4 DEF EndError, DInv, Progress
  <2>2. MovedBy(trans, beat) = {} BY <1>1, <2>1, MovedByAll
  <2>. QED BY <1>1, <1>2, <1>3, <2>1, <2>2 DEF Service!Next, Service!Refuse
<1>5. CASE Return
  <2>1. beat = Beats(trans.len) /\ status = "OK" BY <1>5 DEF Return, DInv, Progress
  <2>2. MovedBy(trans, beat) = AccessOf(trans).offsets BY <1>1, <2>1, MovedByAll
  <2>. QED BY <1>1, <1>2, <1>3, <2>1, <2>2
       DEF Service!Next, Service!Complete, DInv, Data_Typing
<1>. QED BY <1>4, <1>5

\* Every edge is a step of the service or leaves it alone.
LEMMA StepServes ==
  ASSUME Fitting, IInv, IInv', DInv, DInv', [Next]_vars
  PROVE  [Service!Next]_Service!vars
<1>1. ASSUME NEW t \in Trans, Call(t) PROVE Service!Next
  BY <1>1, CallServes DEF Service!Next
<1>2. CASE Edge
  <2>1. CASE StartUnaligned \/ StartRead \/ StartWrite \/ ReadWaitAccept \/ WriteWaitAck
    <3>1. /\ pc \in {"start", "rdA", "wrD"} /\ pc' # "idle" /\ UNCHANGED <<trans, buf, beat>>
      BY <2>1 DEF StartUnaligned, StartRead, StartWrite, ReadWaitAccept, WriteWaitAck, Assert
    <3>2. mem' = mem BY <1>2, <3>1, MemoryKept DEF Edge
    <3>. QED BY <3>1, <3>2, Unseen
  <2>2. CASE NoCall
    <3>1. pc = "idle" /\ UNCHANGED <<pc, status, trans, buf, beat>>
      BY <2>2 DEF NoCall, bridgeVars
    <3>2. mem' = mem BY <1>2, <3>1, MemoryKept DEF Edge
    <3>. QED BY <3>1, <3>2, Unseen
  <2>3. CASE EndError \/ Return
    <3>1. mem' = mem BY <1>2, <2>3, MemoryKept DEF Edge, EndError, Return
    <3>. QED BY <2>3, <3>1, EndServes
  <2>4. CASE ReadFirst \/ ReadWaitData
    BY <1>2, <2>4, ReadServes DEF Edge, ReadFirst, ReadWaitData
  <2>5. CASE WriteStall \/ WriteNext \/ WriteLast
    BY <1>2, <2>5, WriteServes DEF Edge
  <2>. QED BY <1>2, <2>1, <2>2, <2>3, <2>4, <2>5 DEF Edge, Bridge
<1>3. CASE UNCHANGED vars
  <2>1. UNCHANGED <<pc, trans, buf, status, beat, mem>>
    BY <1>3 DEF vars, bridgeVars, slaveVars
  <2>. QED BY <2>1, Unseen
<1>. QED BY <1>1, <1>2, <1>3 DEF Next

\* With a cooperative slave the bridge is the memory service: the initiator sees
\* each access move its bytes once, to and from their own addresses, and end as
\* refused with none of them moved or as done with all of them.
THEOREM Refinement == ASSUME CooperativeOnly, Fitting PROVE Spec => ImplementsService
<1>1. Init => Service!Init BY InitServes
<1>2. (IInv /\ DInv) /\ (IInv /\ DInv)' /\ [Next]_vars => [Service!Next]_Service!vars
  BY StepServes
<1>. QED BY <1>1, <1>2, DataInvariance, PTL DEF Spec, ImplementsService, Service!Spec
===============================================================================
