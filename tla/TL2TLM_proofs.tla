---------------------------- MODULE TL2TLM_proofs ----------------------------
(***************************************************************************)
(* TL2TLM for every bus width, memory and set of lengths, as long as QEMU    *)
(* answers OK and the master stays clear of what processReq accepts and does *)
(* not serve.  Every theorem assumes that no message follows a burst without *)
(* an idle cycle (~BackToBack) and that no PutPartial is longer than a word   *)
(* (~PartialBursts): then a beat is taken from channel A exactly when there  *)
(* is a handshake, and the answers are the ones the master is owed.  As long *)
(* as no PutPartial is shorter than a word either (~SubWordPartials), every  *)
(* byte goes where it belongs (the refinement of MemService).                *)
(***************************************************************************)
EXTENDS TL2TLM, FiniteSetTheorems, WellFoundedInduction, TLAPS

\* Sizes and the bus width are powers of two: one divides the other.
Fitting == \A n \in Lens : IF n <= Bus THEN Bus % n = 0 ELSE n % Bus = 0

\* The master's side: what it presents is the next beat of its message.
Link ==
  /\ got \in Nat /\ sent \in Nat
  /\ {a_valid, d_ready, active, pause} \subseteq BOOLEAN
  /\ active => /\ msg.ctl \in Control /\ Legal(msg.ctl)
               /\ got <= ABeats(msg.ctl) /\ sent <= DBeats(msg.ctl)
  /\ ~active => got = 0 /\ sent = 0
  /\ a_valid => active /\ got < ABeats(msg.ctl) /\ a_ctl = msg.ctl
  /\ pause => ~active

\* The bridge's side: what the message in flight has got of it, for each wait()
\* of processReq.  Fresh: nothing of it is under way.
Fresh == active => MessageDone \/ (got = 0 /\ sent = 0)

Idle ==
  pc \in {"top", "waitA", "waitE"} => a_ready /\ ~d_valid /\ Fresh /\ (pc = "waitE" => a_valid)

Serves(opcode, g, s) ==
  active /\ msg.ctl = req /\ req.opcode = opcode /\ d_size = req.size /\ got = g /\ sent = s

Getting ==
  /\ pc \in {"getW", "tlmR"} => ~a_ready /\ ~d_valid /\ Serves(Get, 1, 0)
  /\ pc = "getD" => /\ ~a_ready /\ d_valid /\ d_opcode = AccessAckData
                    /\ beat \in Nat /\ beat < Beats(req.size) /\ Serves(Get, 1, beat)

\* An answer taken before the last beat may have ended the message already; then
\* the master pauses.
Putting ==
  /\ pc \in {"putB", "putW"} =>
       /\ a_ready /\ d_opcode = AccessAck
       /\ beat \in Nat /\ beat < Beats(req.size)
       /\ beat = 0 => pc = "putB" /\ d_valid
       /\ \/ Serves(PutFull, beat + (IF pc = "putB" THEN 1 ELSE 0), IF d_valid THEN 0 ELSE 1)
          \/ pc = "putB" /\ beat + 1 = Beats(req.size) /\ ~active /\ pause /\ ~d_valid
  /\ pc = "putK" => /\ ~a_ready /\ d_valid /\ d_opcode = AccessAck
                    /\ Serves(PutFull, Beats(req.size), 0)
  /\ pc = "parD" => /\ d_valid /\ d_opcode = AccessAck
                    /\ Serves(PutPartial, 1, 0) /\ Beats(req.size) = 1
  /\ pc \in {"putN", "putX", "tlmW"} => ~a_ready /\ ~d_valid /\ Fresh

Wires == pc \in PC \ {"abort"} /\ {a_ready, d_valid} \subseteq BOOLEAN

IInv == Link /\ Wires /\ Idle /\ Getting /\ Putting

-----------------------------------------------------------------------------
(***************************************************************************)
(* Messages.                                                                 *)
(***************************************************************************)

\* A message of at least one byte has at least one beat, and one beat exactly if
\* it fits a word.
LEMMA BeatsPositive ==
  ASSUME NEW n \in Nat \ {0}
  PROVE  Beats(n) \in Nat \ {0} /\ (Beats(n) = 1 <=> n <= Bus)
<1> DEFINE x == n + Bus - 1
           q == x \div Bus
<1>1. Bus \in Nat \ {0}
  BY TileLinkAssumption
<1>2. x \in Nat /\ x >= Bus
  BY <1>1
<1> HIDE DEF x
<1>3. q \in Int /\ x = Bus * q + (x % Bus) /\ x % Bus < Bus /\ x % Bus \in Nat
  BY <1>1, <1>2
<1> HIDE DEF q
<1>4. ASSUME q <= 0 PROVE FALSE
  <2>1. Bus * q <= 0
    BY <1>1, <1>3, <1>4
  <2>2. QED
    BY <1>1, <1>2, <1>3, <2>1
<1>5. ASSUME q >= 2 PROVE x >= 2 * Bus
  <2>1. Bus * q >= 2 * Bus
    BY <1>1, <1>3, <1>5
  <2>2. QED
    BY <1>1, <1>2, <1>3, <2>1
<1>6. ASSUME q = 1 PROVE x < 2 * Bus
  BY <1>1, <1>2, <1>3, <1>6
<1>7. n <= Bus <=> x < 2 * Bus
  BY <1>1 DEF x
<1>8. q \in Nat \ {0} /\ (q = 1 <=> n <= Bus)
  BY <1>1, <1>2, <1>3, <1>4, <1>5, <1>6, <1>7
<1>9. QED
  BY <1>8 DEF Beats, q, x

LEMMA MessageBeats ==
  ASSUME NEW c \in Control
  PROVE  /\ c.size \in Nat \ {0} /\ c.addr \in Nat
         /\ Beats(c.size) \in Nat \ {0} /\ (Beats(c.size) = 1 <=> c.size <= Bus)
         /\ ABeats(c) \in Nat \ {0} /\ DBeats(c) \in Nat \ {0}
<1>1. c.size \in Lens /\ c.addr \in Address
  BY DEF Control
<1>2. c.size \in Nat \ {0} /\ c.addr \in Nat
  <2>1. Lens \subseteq 1 .. MaxLen
    BY TL2TLMAssumption
  <2>2. c.size \in 1 .. MaxLen /\ c.addr \in 0 .. MemSize - 1
    BY <1>1, <2>1 DEF Address
  <2>3. MaxLen \in Nat /\ MemSize \in Nat
    BY TileLinkAssumption
  <2>4. c.size \in Nat \ {0}
    BY <2>2, <2>3
  <2>5. c.addr \in Nat
    BY <2>2, <2>3
  <2>6. QED
    BY <2>4, <2>5
<1>3. QED
  BY <1>2, BeatsPositive DEF ABeats, DBeats

\* An aligned access that fits a word does not leave it.
LEMMA InWord ==
  ASSUME NEW a \in Nat, NEW n \in Nat \ {0}, a % n = 0, Bus % n = 0
  PROVE  (a % Bus) + n <= Bus
<1>1. Bus \in Nat \ {0}
  BY TileLinkAssumption
<1> DEFINE r == a % Bus
           d == a \div Bus
           p == a \div n
           q == Bus \div n
<1>2. r \in Nat /\ r < Bus /\ d \in Nat /\ a = Bus * d + r
  BY <1>1
<1>3. p \in Nat /\ a = n * p
  BY <1>1
<1>4. q \in Nat /\ Bus = n * q
  BY <1>1
<1> HIDE DEF r, d, p, q
<1> DEFINE k == p - q * d
<1>5. k \in Int /\ r = n * k
  <2>1. n * p = (n * q) * d + r
    BY <1>2, <1>3, <1>4
  <2>2. (n * q) * d = n * (q * d)
    BY <1>2, <1>4
  <2>3. n * (p - q * d) = n * p - n * (q * d)
    BY <1>2, <1>3, <1>4
  <2>4. QED
    BY <2>1, <2>2, <2>3, <1>2, <1>3, <1>4
<1> HIDE DEF k
<1>6. ASSUME k >= q PROVE FALSE
  <2>1. n * k >= n * q
    BY <1>4, <1>5, <1>6
  <2>2. QED
    BY <1>2, <1>4, <1>5, <2>1
<1>7. n * (k + 1) <= n * q
  BY <1>4, <1>5, <1>6
<1>8. n * (k + 1) = n * k + n
  BY <1>5
<1>9. QED
  BY <1>1, <1>2, <1>4, <1>5, <1>7, <1>8 DEF r

LEMMA Multiple ==
  ASSUME NEW a \in Nat, NEW n \in Nat \ {0}, a % n = 0, n % Bus = 0
  PROVE  a % Bus = 0
<1>1. Bus \in Nat \ {0}
  BY TileLinkAssumption
<1> DEFINE p == a \div n
           q == n \div Bus
<1>2. p \in Nat /\ a = n * p /\ q \in Nat /\ n = Bus * q
  BY <1>1
<1> HIDE DEF p, q
<1>3. a = Bus * (q * p) /\ q * p \in Nat
  BY <1>1, <1>2
<1> DEFINE m == q * p
<1> HIDE DEF m
<1>4. m \in Nat /\ a = Bus * m
  BY <1>3 DEF m
<1> DEFINE r == a % Bus
           e == a \div Bus
<1>5. r \in Nat /\ r < Bus /\ e \in Nat /\ a = Bus * e + r
  BY <1>1
<1> HIDE DEF r, e
<1>6. r = Bus * (m - e)
  BY <1>1, <1>4, <1>5
<1>7. ASSUME m - e >= 1 PROVE FALSE
  <2>1. Bus * (m - e) >= Bus
    BY <1>1, <1>4, <1>5, <1>7
  <2>2. QED
    BY <1>1, <1>5, <1>6, <2>1
<1>8. ASSUME m - e <= -1 PROVE FALSE
  <2>1. Bus * (m - e) <= -Bus
    BY <1>1, <1>4, <1>5, <1>8
  <2>2. QED
    BY <1>1, <1>5, <1>6, <2>1
<1>9. m - e = 0
  BY <1>4, <1>5, <1>7, <1>8
<1>10. QED
  BY <1>1, <1>6, <1>9 DEF r

\* The sc_asserts let every legal message pass.
LEMMA LegalSupported ==
  ASSUME ~PartialBursts, Fitting, NEW c \in Control, Legal(c)
  PROVE  Supported(c)
<1>1. /\ c.size \in Lens /\ c.size \in Nat \ {0} /\ c.addr \in Nat /\ Bus \in Nat \ {0}
      /\ c.addr % c.size = 0 /\ c.mask \subseteq Lane
      /\ Beats(c.size) = 1 <=> c.size <= Bus
  BY MessageBeats, TileLinkAssumption DEF Control, Legal
<1>2. CASE c.size <= Bus
  <2> DEFINE s == c.addr % Bus
             n == c.size
  <2>1. s \in Nat /\ s + n <= Bus
    <3>1. Bus % n = 0
      BY <1>1, <1>2 DEF Fitting
    <3>2. (c.addr % Bus) + n <= Bus
      BY <1>1, <3>1, InWord
    <3>3. QED
      BY <1>1, <3>2
  <2> HIDE DEF s
  <2>2. FullMask(c) = s .. (s + n - 1)
    BY <1>1, <1>2, <2>1 DEF FullMask, Lanes, ByteShift, Lane, s
  <2>3. IsFiniteSet(FullMask(c)) /\ Cardinality(FullMask(c)) = n
    <3>1. s \in Int /\ s + n - 1 \in Int /\ s <= s + n - 1 /\ (s + n - 1) - s + 1 = n
      BY <1>1, <2>1
    <3>2. QED
      BY <2>2, <3>1, FS_Interval
  <2>4. CASE c.opcode = PutPartial
    <3>1. c.mask # {} /\ c.mask \subseteq FullMask(c) /\ Contiguous(c.mask)
      BY <2>4 DEF Legal
    <3>2. Cardinality(c.mask) <= n
      BY <2>3, <3>1, FS_Subset
    <3>3. QED
      BY <1>1, <1>2, <2>4, <3>1, <3>2 DEF Supported
  <2>5. CASE c.opcode # PutPartial
    <3>1. c.mask = s .. (s + n - 1)
      BY <2>2, <2>5 DEF Legal
    <3>2. c.mask # {} /\ Contiguous(c.mask)
      <4>1. s \in c.mask
        BY <1>1, <2>1, <3>1
      <4>2. ASSUME NEW l \in c.mask, NEW m \in c.mask PROVE l .. m \subseteq c.mask
        BY <1>1, <2>1, <3>1
      <4>3. QED
        BY <4>1, <4>2 DEF Contiguous
    <3>3. Cardinality(c.mask) = n
      BY <2>3, <2>5 DEF Legal
    <3>4. QED
      BY <1>1, <1>2, <2>5, <3>2, <3>3 DEF Supported
  <2>6. QED
    BY <2>4, <2>5
<1>3. CASE c.size > Bus
  <2>1. c.opcode # PutPartial
    BY <1>1, <1>3 DEF Legal
  <2>2. c.addr % Bus = 0
    BY <1>1, <1>3, Multiple DEF Fitting
  <2>3. Beats(c.size) > 1
    BY <1>1, <1>3, MessageBeats
  <2>4. c.mask = Lane
    <3>1. c.mask = {l \in Lane : 0 <= l /\ l < 0 + Bus}
      BY <2>1, <2>2, <2>3 DEF Legal, FullMask, Lanes, ByteShift
    <3>2. QED
      BY <1>1, <3>1 DEF Lane
  <2>5. c.mask # {} /\ Beats(c.size) # 1
    <3>1. 0 \in Lane
      BY <1>1 DEF Lane
    <3>2. QED
      BY <1>1, <1>3, <2>4, <3>1
  <2>6. QED
    BY <2>1, <2>4, <2>5 DEF Supported
<1>4. QED
  BY <1>1, <1>2, <1>3

\* Without PutPartial bursts a PutPartial is one beat.
LEMMA OneWord ==
  ASSUME ~PartialBursts, NEW c \in Control, Legal(c), c.opcode = PutPartial
  PROVE  Beats(c.size) = 1
<1>1. ~(c.size > Bus)
  BY DEF Legal
<1>2. c.size \in Nat \ {0} /\ Bus \in Nat \ {0} /\ (Beats(c.size) = 1 <=> c.size <= Bus)
  BY MessageBeats, TileLinkAssumption
<1>3. QED
  BY <1>1, <1>2

-----------------------------------------------------------------------------
(***************************************************************************)
(* What the invariant says of the wires, and what an edge does to the master.*)
(***************************************************************************)

LEMMA Handshake == IInv => HandshakeIsTaken
<1> SUFFICES ASSUME IInv PROVE HandshakeIsTaken
  OBVIOUS
<1> USE DEF IInv, Wires
<1>1. active => /\ msg.ctl \in Control /\ ABeats(msg.ctl) \in Nat \ {0}
                /\ Beats(msg.ctl.size) \in Nat \ {0}
  BY MessageBeats DEF Link
<1>2. CASE pc \in {"top", "waitA", "waitE"}
  BY <1>2 DEF Idle, HandshakeIsTaken, AFire, Takes
<1>3. CASE pc \in {"getW", "tlmR", "getD", "putK", "putN", "putX", "tlmW"}
  BY <1>3 DEF Getting, Putting, HandshakeIsTaken, AFire, Takes
<1>4. CASE pc = "parD"
  <2>1. active /\ msg.ctl = req /\ req.opcode = PutPartial /\ got = 1 /\ Beats(req.size) = 1
    BY <1>4 DEF Putting, Serves
  <2>2. ABeats(msg.ctl) = 1
    BY <2>1 DEF ABeats, Get, PutPartial
  <2>3. QED
    BY <1>4, <2>1, <2>2 DEF Link, HandshakeIsTaken, AFire, Takes
<1>5. CASE pc = "putW"
  BY <1>5 DEF Putting, HandshakeIsTaken, AFire, Takes
<1>6. CASE pc = "putB"
  <2>1. a_ready /\ beat \in Nat /\ beat < Beats(req.size)
    BY <1>6 DEF Putting
  <2>2. beat + 1 < Beats(req.size) \/ ~a_valid
    <3>1. CASE Serves(PutFull, beat + 1, IF d_valid THEN 0 ELSE 1)
      <4>1. active /\ msg.ctl = req /\ got = beat + 1 /\ ABeats(msg.ctl) = Beats(req.size)
        BY <3>1 DEF Serves, ABeats, Get, PutFull
      <4>2. QED
        BY <4>1 DEF Link
    <3>2. CASE ~active
      BY <3>2 DEF Link
    <3>3. QED
      BY <1>6, <3>1, <3>2 DEF Putting
  <2>3. beat + 1 < Beats(req.size) \/ beat + 1 = Beats(req.size)
    <3>1. CASE active /\ msg.ctl = req
      BY <1>1, <2>1, <3>1
    <3>2. CASE beat + 1 = Beats(req.size)
      BY <3>2
    <3>3. QED
      BY <1>6, <3>1, <3>2 DEF Putting, Serves
  <2>4. QED
    BY <1>6, <2>1, <2>2, <2>3 DEF HandshakeIsTaken, AFire, Takes
<1>7. QED
  BY <1>2, <1>3, <1>4, <1>5, <1>6 DEF PC

LEMMA Owed == IInv => AnswerIsOwed
<1> SUFFICES ASSUME IInv, d_valid, d_ready
             PROVE  /\ active /\ got > 0
                    /\ sent < DBeats(msg.ctl)
                    /\ d_opcode = IF msg.ctl.opcode = Get THEN AccessAckData ELSE AccessAck
                    /\ d_size = msg.ctl.size
  BY DEF AnswerIsOwed, DFire
<1> USE DEF IInv, Wires
<1>1. active => /\ msg.ctl \in Control /\ Beats(msg.ctl.size) \in Nat \ {0}
  BY MessageBeats DEF Link
<1>2. CASE pc = "getD"
  BY <1>2 DEF Getting, Serves, DBeats
<1>3. CASE pc \in {"putB", "putW"}
  BY <1>3 DEF Putting, Serves, DBeats, Get, PutFull
<1>4. CASE pc = "putK"
  BY <1>1, <1>4 DEF Putting, Serves, DBeats, Get, PutFull
<1>5. CASE pc = "parD"
  BY <1>5 DEF Putting, Serves, DBeats, Get, PutPartial
<1>6. QED
  BY <1>2, <1>3, <1>4, <1>5 DEF PC, Idle, Getting, Putting

\* What an edge leaves of the master's side, whatever the bridge does.
Counted ==
  /\ Link' /\ active' = active /\ msg' = msg /\ pause' = FALSE
  /\ got' = IF AFire THEN got + 1 ELSE got
  /\ sent' = IF DFire THEN sent + 1 ELSE sent
  /\ a_valid /\ ~a_ready => a_valid'

LEMMA MasterEdge ==
  ASSUME IInv, Account, Drive
  PROVE  Counted
<1> USE DEF IInv
<1>1. AnswerIsOwed /\ Link
  BY Owed
<1>2. active => ABeats(msg.ctl) \in Nat \ {0} /\ DBeats(msg.ctl) \in Nat \ {0}
  BY <1>1, MessageBeats DEF Link
<1>3. /\ active' = active /\ msg' = msg /\ pause' = FALSE
      /\ got' = IF AFire THEN got + 1 ELSE got
      /\ sent' = IF DFire THEN sent + 1 ELSE sent
  BY <1>1 DEF Account, Link
<1>4. got' \in Nat /\ sent' \in Nat
  BY <1>1, <1>3 DEF Link
<1>5. ~active => got' = 0 /\ sent' = 0
  BY <1>1, <1>3 DEF Link, AFire, AnswerIsOwed
<1>6. active => got' <= ABeats(msg.ctl) /\ sent' <= DBeats(msg.ctl)
  BY <1>1, <1>2, <1>3 DEF Link, AFire, AnswerIsOwed
<1>7. a_valid' \in BOOLEAN /\ d_ready' \in BOOLEAN /\ (a_valid /\ ~a_ready => a_valid')
  BY <1>1 DEF Link, Drive, Present, Withhold
<1>8. a_valid' => active /\ got' < ABeats(msg.ctl) /\ a_ctl' = msg.ctl
  BY <1>1, <1>3 DEF Link, Drive, Present, Withhold, AFire
<1>9. Link'
  BY <1>1, <1>3, <1>4, <1>5, <1>6, <1>7, <1>8 DEF Link, ABeats, DBeats, Legal
<1>10. QED
  BY <1>3, <1>7, <1>9 DEF Counted

-----------------------------------------------------------------------------
(***************************************************************************)
(* Every action preserves the invariant and keeps an answer until it is taken.*)
(***************************************************************************)
Held == d_valid /\ ~d_ready => d_valid' /\ d_opcode' = d_opcode /\ d_data' = d_data

\* What the steps below use of the message in flight.
LEMMA InFlight ==
  ASSUME IInv, active
  PROVE  /\ msg.ctl \in Control /\ Legal(msg.ctl)
         /\ Beats(msg.ctl.size) \in Nat \ {0}
         /\ ABeats(msg.ctl) = IF msg.ctl.opcode = Get THEN 1 ELSE Beats(msg.ctl.size)
         /\ DBeats(msg.ctl) = IF msg.ctl.opcode = Get THEN Beats(msg.ctl.size) ELSE 1
BY MessageBeats DEF IInv, Link, ABeats, DBeats

\* A request is only there if none of its message has been handled yet.
LEMMA TakePreserves ==
  ASSUME ~PartialBursts, Fitting, IInv, Counted, Take, pc \in {"top", "waitA", "waitE"}, a_valid
  PROVE  IInv' /\ Held
<1> USE DEF IInv, Wires
<1>1. a_ready /\ ~d_valid /\ active /\ a_ctl = msg.ctl /\ got < ABeats(msg.ctl) /\ Fresh
  BY DEF Idle, Link
<1>2. /\ msg.ctl \in Control /\ Legal(msg.ctl) /\ Beats(msg.ctl.size) \in Nat \ {0}
      /\ ABeats(msg.ctl) \in Nat
  BY <1>1, InFlight
<1>3. got = 0 /\ sent = 0
  BY <1>1, <1>2 DEF Fresh, MessageDone
<1>4. /\ got' = 1 /\ sent' = 0 /\ active' /\ Link' /\ msg' = msg
      /\ req' = msg.ctl /\ d_size' = msg.ctl.size
  BY <1>1, <1>3 DEF Counted, AFire, DFire, Take
<1>5. Supported(a_ctl)
  BY <1>1, <1>2, LegalSupported
<1>6. CASE TakeGet
  <2>1. pc' = "getW" /\ ~a_ready' /\ a_ready' \in BOOLEAN /\ d_valid' = d_valid
    BY <1>5, <1>6 DEF TakeGet, Assert
  <2>2. Serves(Get, 1, 0)'
    BY <1>1, <1>4, <1>6 DEF Serves, TakeGet
  <2>3. QED
    BY <1>1, <1>4, <2>1, <2>2 DEF PC, Idle, Getting, Putting, Held
<1>7. CASE TakePut
  <2>1. /\ pc' = IF msg.ctl.opcode = PutFull THEN "putB" ELSE "parD"
        /\ a_ready' = a_ready /\ d_valid' = TRUE /\ d_opcode' = AccessAck /\ beat' = 0
    BY <1>1, <1>5, <1>7 DEF TakePut, Assert
  <2>2. CASE msg.ctl.opcode = PutFull
    <3>1. Serves(PutFull, 1, 0)'
      BY <1>4, <2>2 DEF Serves
    <3>2. QED
      BY <1>1, <1>2, <1>4, <2>1, <2>2, <3>1 DEF PC, Idle, Getting, Putting, Held
  <2>3. CASE msg.ctl.opcode = PutPartial
    <3>1. Serves(PutPartial, 1, 0)'
      BY <1>4, <2>3 DEF Serves
    <3>2. Beats(msg.ctl.size) = 1
      BY <1>2, <2>3, OneWord
    <3>3. QED
      BY <1>1, <1>2, <1>4, <2>1, <2>3, <3>1, <3>2
      DEF PC, Idle, Getting, Putting, Held, PutFull, PutPartial
  <2>4. QED
    BY <1>1, <1>7, <2>2, <2>3 DEF TakePut
<1>8. QED
  BY <1>6, <1>7 DEF Take

\* No request: the thread waits for one, and nothing happens on the link.
LEMMA WaitPreserves ==
  ASSUME IInv, Counted, TopWait \/ WaitedIdle
  PROVE  IInv' /\ Held
<1> USE DEF IInv, Wires
<1>1. pc \in {"top", "waitA"} /\ a_ready /\ ~d_valid /\ Fresh /\ ~a_valid
  BY DEF TopWait, WaitedIdle, Head, Idle, Link
<1>2. /\ pc' = "waitA"
      /\ UNCHANGED <<req, databuf, beat, a_ready, d_valid, d_opcode, d_size, d_data>>
  BY <1>1 DEF TopWait, WaitedIdle, Head, bridgeVars
<1>3. UNCHANGED <<got, sent, active, msg>> /\ Link'
  BY <1>1 DEF Counted, AFire, DFire
<1>4. Fresh'
  BY <1>1, <1>3 DEF Fresh, MessageDone, ABeats, DBeats
<1>5. QED
  BY <1>1, <1>2, <1>3, <1>4 DEF PC, Idle, Getting, Putting, Held

LEMMA GetPreserves ==
  ASSUME IInv, Counted, GetSend \/ GetStall \/ GetNext \/ GetLast \/ (pc = "tlmR" /\ InTlm)
  PROVE  IInv' /\ Held
<1> USE DEF IInv, Wires
<1>1. CASE pc \in {"getW", "tlmR"}
  <2>1. ~a_ready /\ ~d_valid /\ Serves(Get, 1, 0)
    BY <1>1 DEF Getting
  <2>2. pc' = "tlmR" /\ UNCHANGED <<req, beat, a_ready, d_valid, d_opcode, d_size, d_data>>
    BY <1>1 DEF GetSend, GetStall, GetNext, GetLast, InTlm, bridgeVars
  <2>3. UNCHANGED <<got, sent, active, msg>> /\ Link'
    BY <2>1 DEF Counted, AFire, DFire
  <2>4. Serves(Get, 1, 0)'
    BY <2>1, <2>2, <2>3 DEF Serves
  <2>5. QED
    BY <2>1, <2>2, <2>3, <2>4 DEF PC, Idle, Getting, Putting, Held
<1>2. CASE pc = "getD"
  <2>1. /\ ~a_ready /\ d_valid /\ d_opcode = AccessAckData
        /\ beat \in Nat /\ beat < Beats(req.size) /\ Serves(Get, 1, beat)
    BY <1>2 DEF Getting
  <2>2. active /\ got = 1 /\ sent = beat /\ req = msg.ctl /\ req.opcode = Get
    BY <2>1 DEF Serves
  <2>3. /\ UNCHANGED <<got, active, msg>> /\ Link'
        /\ sent' = IF d_ready THEN beat + 1 ELSE beat
    BY <2>1, <2>2 DEF Counted, AFire, DFire
  <2>4. CASE GetStall
    <3>1. UNCHANGED bridgeVars /\ ~d_ready
      BY <2>4 DEF GetStall
    <3>2. Serves(Get, 1, beat)'
      BY <2>1, <2>2, <2>3, <3>1 DEF Serves, bridgeVars
    <3>3. QED
      BY <1>2, <2>1, <2>3, <3>1, <3>2 DEF bridgeVars, PC, Idle, Getting, Putting, Held
  <2>5. CASE GetNext
    <3>1. /\ UNCHANGED <<pc, req, a_ready, d_valid, d_opcode, d_size>>
          /\ d_ready /\ beat' = beat + 1 /\ beat + 1 < Beats(req.size)
      BY <2>5 DEF GetNext
    <3>2. Serves(Get, 1, beat)'
      BY <2>1, <2>2, <2>3, <3>1 DEF Serves
    <3>3. QED
      BY <1>2, <2>1, <2>3, <3>1, <3>2 DEF PC, Idle, Getting, Putting, Held
  <2>6. CASE GetLast
    <3>1. ~a_valid /\ Beats(msg.ctl.size) \in Nat
      BY <2>2, InFlight DEF Link
    <3>2. /\ d_ready /\ beat + 1 = Beats(req.size) /\ pc' = "waitA"
          /\ a_ready' = TRUE /\ d_valid' = FALSE
      BY <3>1, <2>6 DEF GetLast, Head
    <3>3. MessageDone'
      BY <2>2, <2>3, <3>2 DEF MessageDone, ABeats, DBeats
    <3>4. QED
      BY <2>3, <3>2, <3>3 DEF PC, Idle, Getting, Putting, Fresh, Held
  <2>7. QED
    BY <1>2, <2>4, <2>5, <2>6 DEF GetSend
<1>3. QED
  BY <1>1, <1>2 DEF GetSend, GetStall, GetNext, GetLast

\* Within a burst of a PutFull.
LEMMA BurstPreserves ==
  ASSUME IInv, Counted, PutNext \/ PutPause
  PROVE  IInv' /\ Held
<1> USE DEF IInv, Wires
<1> DEFINE b == IF pc = "putB" THEN beat + 1 ELSE beat
<1>1. /\ a_ready /\ d_opcode = AccessAck
      /\ beat \in Nat /\ beat < Beats(req.size)
      /\ pc \in {"putB", "putW"} /\ (beat = 0 => pc = "putB")
      /\ Serves(PutFull, b, IF d_valid THEN 0 ELSE 1)
      /\ b < Beats(req.size)
  <2>1. CASE PutNext
    BY <2>1 DEF PutNext, Putting
  <2>2. CASE PutPause
    BY <2>2 DEF PutPause, Putting
  <2>3. QED
    BY <2>1, <2>2
<1>2. /\ b \in Nat /\ b > 0 /\ beat' = b
      /\ UNCHANGED <<req, a_ready, d_opcode, d_size, d_data>>
      /\ d_valid' = (d_valid /\ ~d_ready)
      /\ pc' = IF a_valid THEN "putB" ELSE "putW"
  <2>1. CASE PutNext
    <3>1. b = beat + 1 /\ pc = "putB"
      BY <2>1 DEF PutNext
    <3>2. b \in Nat /\ b > 0
      BY <1>1, <3>1
    <3>3. QED
      BY <2>1, <3>1, <3>2 DEF PutNext
  <2>2. CASE PutPause
    <3>1. b = beat /\ pc = "putW"
      BY <2>2 DEF PutPause
    <3>2. b \in Nat /\ b > 0
      BY <1>1, <3>1
    <3>3. QED
      BY <2>2, <3>1, <3>2 DEF PutPause
  <2>3. QED
    BY <2>1, <2>2
<1>3. /\ active /\ msg.ctl = req /\ req.opcode = PutFull /\ d_size = req.size
      /\ got = b /\ sent = IF d_valid THEN 0 ELSE 1
  BY <1>1 DEF Serves
<1> HIDE DEF b
<1>4. /\ active' /\ msg' = msg /\ Link'
      /\ got' = IF a_valid THEN b + 1 ELSE b
      /\ sent' = IF d_valid' THEN 0 ELSE 1
  <2>1. active' /\ msg' = msg /\ Link'
    BY <1>3 DEF Counted
  <2>2. got' = IF a_valid THEN b + 1 ELSE b
    BY <1>1, <1>3 DEF Counted, AFire
  <2>3. sent' = IF DFire THEN sent + 1 ELSE sent
    BY DEF Counted
  <2>4. d_valid' <=> d_valid /\ ~d_ready
    BY <1>2
  <2>5. CASE d_valid
    <3>1. sent = 0 /\ sent' = IF d_ready THEN 1 ELSE 0
      BY <1>3, <2>3, <2>5 DEF DFire
    <3>2. QED
      BY <2>1, <2>2, <2>4, <2>5, <3>1
  <2>6. CASE ~d_valid
    <3>1. sent' = 1
      BY <1>3, <2>3, <2>6 DEF DFire
    <3>2. QED
      BY <2>1, <2>2, <2>4, <2>6, <3>1
  <2>7. QED
    BY <2>5, <2>6
<1>5. Serves(PutFull, beat + (IF pc = "putB" THEN 1 ELSE 0), IF d_valid THEN 0 ELSE 1)'
  BY <1>2, <1>3, <1>4 DEF Serves
<1>6. QED
  BY <1>1, <1>2, <1>4, <1>5 DEF PC, Idle, Getting, Putting, Held

\* The last beat of a burst.
LEMMA CollectedPreserves ==
  ASSUME IInv, Counted, PutCollected
  PROVE  IInv' /\ Held
<1> USE DEF IInv, Wires
<1>1. /\ pc = "putB" /\ a_ready /\ d_opcode = AccessAck /\ beat \in Nat
      /\ beat + 1 = Beats(req.size)
      /\ UNCHANGED <<req, databuf, beat, d_opcode, d_size, d_data>>
      /\ a_ready' = FALSE /\ d_valid' = (d_valid /\ ~d_ready)
      /\ pc' = IF ~d_valid THEN "putX" ELSE IF d_ready THEN "putN" ELSE "putK"
  BY DEF PutCollected, Putting
<1>2. /\ active' = active /\ msg' = msg /\ Link'
      /\ sent' = IF DFire THEN sent + 1 ELSE sent
  BY DEF Counted
<1>3. CASE Serves(PutFull, beat + 1, IF d_valid THEN 0 ELSE 1)
  <2>1. /\ active /\ msg.ctl = req /\ req.opcode = PutFull /\ d_size = req.size
        /\ got = Beats(req.size) /\ sent = IF d_valid THEN 0 ELSE 1
    BY <1>1, <1>3 DEF Serves
  <2>2. ~a_valid
    BY <2>1, <1>1 DEF Link, ABeats, Get, PutFull
  <2>3. got' = Beats(req.size)
    BY <2>1, <2>2 DEF Counted, AFire
  <2>4. CASE d_valid /\ ~d_ready
    <3>1. Serves(PutFull, Beats(req.size), 0)'
      BY <1>1, <1>2, <2>1, <2>3, <2>4 DEF Serves, DFire
    <3>2. QED
      BY <1>1, <1>2, <2>4, <3>1 DEF PC, Idle, Getting, Putting, Held
  <2>5. CASE ~(d_valid /\ ~d_ready)
    <3>1. sent' = 1
      BY <1>2, <2>1, <2>5 DEF DFire
    <3>2. MessageDone'
      BY <1>1, <1>2, <2>1, <2>3, <3>1 DEF MessageDone, ABeats, DBeats, Get, PutFull
    <3>3. QED
      BY <1>1, <1>2, <2>5, <3>2 DEF PC, Idle, Getting, Putting, Fresh, Held
  <2>6. QED
    BY <2>4, <2>5
<1>4. CASE ~active /\ ~d_valid
  BY <1>1, <1>2, <1>4 DEF PC, Idle, Getting, Putting, Fresh, Held
<1>5. QED
  BY <1>1, <1>3, <1>4 DEF Putting

\* The answer is awaited, and the write is sent.
LEMMA WritePreserves ==
  ASSUME IInv, Counted, PutAwaitAck \/ PutAcked \/ PartialAck \/ PutSend \/ (pc = "tlmW" /\ InTlm)
  PROVE  IInv' /\ Held
<1> USE DEF IInv, Wires
<1>1. CASE PutAwaitAck \/ PartialAck
  <2>1. /\ d_valid /\ d_opcode = AccessAck /\ ~a_valid
        /\ active /\ msg.ctl = req /\ sent = 0 /\ d_size = req.size
        /\ got = ABeats(msg.ctl) /\ DBeats(msg.ctl) = 1
    <3>1. CASE PutAwaitAck
      BY <3>1 DEF PutAwaitAck, Putting, Serves, Link, ABeats, DBeats, Get, PutFull
    <3>2. CASE PartialAck
      BY <3>2 DEF PartialAck, Putting, Serves, Link, ABeats, DBeats, Get, PutPartial
    <3>3. QED
      BY <1>1, <3>1, <3>2
  <2>2. /\ UNCHANGED <<got, active, msg>> /\ Link'
        /\ sent' = IF d_ready THEN 1 ELSE 0
    BY <2>1 DEF Counted, AFire, DFire
  <2>3. /\ UNCHANGED <<req, beat, d_opcode, d_size, d_data>>
        /\ d_valid' = ~d_ready /\ a_ready' = FALSE
    BY <1>1 DEF PutAwaitAck, PartialAck, Putting
  <2>4. CASE d_ready
    <3>1. MessageDone'
      BY <2>1, <2>2, <2>4 DEF MessageDone, ABeats, DBeats
    <3>2. pc' \in {"putN", "putX"}
      BY <1>1, <2>4 DEF PutAwaitAck, PartialAck
    <3>3. QED
      BY <2>2, <2>3, <2>4, <3>1, <3>2 DEF PC, Idle, Getting, Putting, Fresh, Held
  <2>5. CASE ~d_ready
    <3>1. pc' = pc /\ pc \in {"putK", "parD"} /\ UNCHANGED <<got, sent>>
      BY <1>1, <2>1, <2>2, <2>5 DEF PutAwaitAck, PartialAck
    <3>2. Putting'
      BY <2>2, <2>3, <2>5, <3>1 DEF Putting, Serves
    <3>3. QED
      BY <2>1, <2>2, <2>3, <2>5, <3>1, <3>2 DEF PC, Idle, Getting, Held
  <2>6. QED
    BY <2>4, <2>5
<1>2. CASE PutAcked \/ PutSend \/ (pc = "tlmW" /\ InTlm)
  <2>1. ~a_ready /\ ~d_valid /\ Fresh
    BY <1>2 DEF PutAcked, PutSend, Putting
  <2>2. UNCHANGED <<got, sent, active, msg>> /\ Link'
    BY <2>1 DEF Counted, AFire, DFire
  <2>3. /\ pc' \in {"putX", "tlmW"} /\ ~d_valid' /\ ~a_ready'
        /\ {a_ready', d_valid'} \subseteq BOOLEAN
    <3>1. CASE PutAcked
      BY <3>1 DEF PutAcked
    <3>2. CASE PutSend
      BY <2>1, <3>2 DEF PutSend
    <3>3. CASE pc = "tlmW" /\ InTlm
      BY <2>1, <3>3 DEF InTlm, bridgeVars
    <3>4. QED
      BY <1>2, <3>1, <3>2, <3>3
  <2>4. Fresh'
    BY <2>1, <2>2 DEF Fresh, MessageDone, ABeats, DBeats
  <2>5. QED
    BY <2>1, <2>2, <2>3, <2>4 DEF PC, Idle, Getting, Putting, Held
<1>3. QED
  BY <1>1, <1>2

\* QEMU answers OK.
LEMMA ReadReturnsPreserves ==
  ASSUME IInv, ReadReturns("OK")
  PROVE  IInv' /\ Held
<1> USE DEF IInv, Wires
<1>1. /\ ~a_ready /\ ~d_valid /\ Serves(Get, 1, 0)
      /\ pc' = "getD" /\ d_opcode' = AccessAckData /\ d_valid' = TRUE /\ beat' = 0
      /\ UNCHANGED <<req, a_ready, d_size>> /\ UNCHANGED masterVars
  BY DEF ReadReturns, Assert, Getting
<1>2. UNCHANGED <<a_valid, a_ctl, d_ready, msg, active, got, sent, pause>>
  BY <1>1 DEF masterVars
<1>3. Link' /\ Serves(Get, 1, 0)'
  BY <1>1, <1>2 DEF Link, Serves, ABeats, DBeats, Legal
<1>4. Beats(req'.size) \in Nat \ {0}
  BY <1>1, InFlight DEF Serves
<1>5. QED
  BY <1>1, <1>3, <1>4 DEF PC, Idle, Getting, Putting, Held

LEMMA WriteReturnsPreserves ==
  ASSUME IInv, WriteReturns("OK")
  PROVE  IInv' /\ Held
<1> USE DEF IInv, Wires
<1>1. /\ ~a_ready /\ ~d_valid /\ Fresh
      /\ a_ready' = TRUE /\ d_valid' = FALSE /\ UNCHANGED masterVars
  BY DEF WriteReturns, Putting
<1>2. UNCHANGED <<a_valid, a_ctl, d_ready, msg, active, got, sent, pause>>
  BY <1>1 DEF masterVars
<1>3. pc' \in {"top", "waitA", "waitE"} /\ (pc' = "waitE" => a_valid')
  BY <1>1, <1>2 DEF WriteReturns, Assert, Head
<1>4. Link' /\ Fresh'
  BY <1>1, <1>2 DEF Link, Fresh, MessageDone, ABeats, DBeats, Legal
<1>5. QED
  BY <1>1, <1>3, <1>4 DEF PC, Idle, Getting, Putting, Held

\* A message begins only after the cycle a burst leaves idle.
LEMMA BeginPreserves ==
  ASSUME IInv, NEW c \in Control, Begin(c)
  PROVE  IInv' /\ Held
<1> USE DEF IInv, Wires
<1>1. ~active /\ ~pause /\ got = 0 /\ sent = 0 /\ ~a_valid
  BY DEF Begin, Link
<1>2. /\ active' = TRUE /\ msg'.ctl = c /\ Legal(c)
      /\ UNCHANGED <<pc, req, beat, a_ready, d_valid, d_opcode, d_size, d_data,
                     d_ready, got, sent, pause>>
  BY DEF Begin, MessageOf, bridgeVars
<1>3. ABeats(c) \in Nat \ {0} /\ DBeats(c) \in Nat \ {0}
  BY MessageBeats
<1>4. a_valid' \in BOOLEAN /\ (a_valid' => a_ctl' = c)
  BY <1>2 DEF Begin, Present, Withhold
<1>5. Link'
  BY <1>1, <1>2, <1>3, <1>4 DEF Link, ABeats, DBeats, Legal
<1>6. Fresh'
  BY <1>1, <1>2 DEF Fresh
<1>7. pc \in {"top", "waitA", "putN", "putX", "tlmW"}
  BY <1>1 DEF Idle, Getting, Putting, Serves, PC
<1>8. QED
  BY <1>2, <1>5, <1>6, <1>7 DEF PC, Idle, Getting, Putting, Held

\* A message that ends within its burst leaves the next cycle idle.
LEMMA FinishPreserves ==
  ASSUME ~BackToBack, IInv, Finish
  PROVE  IInv' /\ Held
<1> USE DEF IInv, Wires
<1>1. /\ active /\ MessageDone /\ active' = FALSE /\ got' = 0 /\ sent' = 0
      /\ pause' = (msg.ctl.opcode = PutFull /\ Beats(msg.ctl.size) > 1)
      /\ UNCHANGED <<pc, req, beat, a_ready, d_valid, d_opcode, d_size, d_data, a_valid, d_ready>>
  BY DEF Finish, bridgeVars
<1>2. /\ Beats(msg.ctl.size) \in Nat \ {0}
      /\ ABeats(msg.ctl) = IF msg.ctl.opcode = Get THEN 1 ELSE Beats(msg.ctl.size)
      /\ DBeats(msg.ctl) = IF msg.ctl.opcode = Get THEN Beats(msg.ctl.size) ELSE 1
  BY <1>1, InFlight
<1>3. ~a_valid /\ got = ABeats(msg.ctl) /\ sent = DBeats(msg.ctl)
  BY <1>1, <1>2 DEF Link, MessageDone
<1>4. Link'
  BY <1>1, <1>3 DEF Link
<1>5. Fresh'
  BY <1>1 DEF Fresh
<1>6. pc \notin {"getW", "tlmR", "getD", "putK", "parD", "waitE"}
  BY <1>2, <1>3 DEF Getting, Putting, Idle, Serves, Get, PutFull, PutPartial
<1>7. CASE pc \in {"putB", "putW"}
  <2>1. /\ a_ready /\ d_opcode = AccessAck /\ beat \in Nat /\ (beat = 0 => pc = "putB" /\ d_valid)
        /\ Serves(PutFull, beat + (IF pc = "putB" THEN 1 ELSE 0), IF d_valid THEN 0 ELSE 1)
        /\ beat < Beats(req.size)
    BY <1>1, <1>7 DEF Putting
  <2>2. msg.ctl = req /\ req.opcode = PutFull /\ got = Beats(req.size) /\ sent = 1
    BY <1>2, <1>3, <2>1 DEF Serves, Get, PutFull
  <2>3. ~d_valid
    BY <2>1, <2>2 DEF Serves
  <2>4. pc = "putB" /\ beat + 1 = Beats(req.size) /\ beat # 0
    BY <1>7, <2>1, <2>2, <2>3 DEF Serves
  <2>5. pause'
    <3>1. msg.ctl.opcode = PutFull /\ Beats(msg.ctl.size) > 1
      BY <2>1, <2>2, <2>4
    <3>2. QED
      BY <1>1, <3>1
  <2>6. QED
    BY <1>1, <1>4, <2>1, <2>3, <2>4, <2>5 DEF PC, Idle, Getting, Putting, Held
<1>8. CASE pc \in {"top", "waitA", "putN", "putX", "tlmW"}
  BY <1>1, <1>4, <1>5, <1>8 DEF PC, Idle, Getting, Putting, Held
<1>9. QED
  BY <1>6, <1>7, <1>8 DEF PC

-----------------------------------------------------------------------------
(***************************************************************************)
(* The theorems.                                                             *)
(***************************************************************************)

LEMMA InitIInv == Init => IInv
<1> SUFFICES ASSUME Init PROVE IInv
  OBVIOUS
<1>1. pc = "top" /\ a_ready = TRUE /\ d_valid = FALSE /\ active = FALSE /\ pause = FALSE
  BY DEF Init
<1>2. a_valid = FALSE /\ d_ready \in BOOLEAN /\ got = 0 /\ sent = 0
  BY DEF Init
<1>3. Link
  BY <1>1, <1>2 DEF Link
<1>4. Wires /\ Idle
  BY <1>1 DEF Wires, Idle, Fresh, PC
<1>5. QED
  BY <1>1, <1>3, <1>4 DEF IInv, Getting, Putting

LEMMA EdgePreserves ==
  ASSUME ~PartialBursts, Fitting, IInv, Edge
  PROVE  IInv' /\ Held
<1>1. Counted
  BY MasterEdge DEF Edge
<1>2. CASE TopTake \/ WaitedTake
  <2>1. Take /\ pc \in {"top", "waitA", "waitE"} /\ a_valid
    BY <1>2 DEF TopTake, WaitedTake, Head, IInv, Idle
  <2>2. QED
    BY <1>1, <2>1, TakePreserves
<1>3. CASE TopWait \/ WaitedIdle
  BY <1>1, <1>3, WaitPreserves
<1>4. CASE GetSend \/ GetStall \/ GetNext \/ GetLast \/ (pc = "tlmR" /\ InTlm)
  BY <1>1, <1>4, GetPreserves
<1>5. CASE PutNext \/ PutPause
  BY <1>1, <1>5, BurstPreserves
<1>6. CASE PutCollected
  BY <1>1, <1>6, CollectedPreserves
<1>7. CASE PutAwaitAck \/ PutAcked \/ PartialAck \/ PutSend \/ (pc = "tlmW" /\ InTlm)
  BY <1>1, <1>7, WritePreserves
<1>8. QED
  BY <1>2, <1>3, <1>4, <1>5, <1>6, <1>7 DEF Edge, Bridge, InTlm

LEMMA StepPreserves ==
  ASSUME ~BackToBack, ~PartialBursts, Responses \subseteq {"OK"}, Fitting, IInv, [Next]_vars
  PROVE  IInv' /\ Held
<1>1. CASE Edge
  BY <1>1, EdgePreserves
<1>2. CASE \E response \in Responses : ReadReturns(response) \/ WriteReturns(response)
  BY <1>2, ReadReturnsPreserves, WriteReturnsPreserves
<1>3. CASE \E c \in Control : Begin(c)
  BY <1>3, BeginPreserves
<1>4. CASE Finish
  BY <1>4, FinishPreserves
<1>5. CASE UNCHANGED vars
  <2>1. UNCHANGED <<pc, req, beat, a_ready, d_valid, d_opcode, d_size, d_data>>
    BY <1>5 DEF vars, bridgeVars
  <2>2. UNCHANGED <<a_valid, a_ctl, d_ready, msg, active, got, sent, pause>>
    BY <1>5 DEF vars, masterVars
  <2>3. QED
    BY <2>1, <2>2 DEF IInv, Wires, Link, Idle, Fresh, MessageDone, ABeats, DBeats, Getting,
                      Putting, Serves, Legal, Held
<1>6. QED
  BY <1>1, <1>2, <1>3, <1>4, <1>5 DEF Next

\* As long as no PutPartial has several beats and a burst is followed by an idle
\* cycle, processReq takes a beat from channel A exactly when there is a handshake,
\* wherever in its loop QEMU's answer puts it.
THEOREM BeatsTaken ==
  ASSUME ~BackToBack, ~PartialBursts, Responses \subseteq {"OK"}, Fitting
  PROVE  Spec => []HandshakeIsTaken
<1>1. Init => IInv
  BY InitIInv
<1>2. IInv /\ [Next]_vars => IInv'
  BY StepPreserves
<1>3. IInv => HandshakeIsTaken
  BY Handshake
<1>4. QED
  BY <1>1, <1>2, <1>3, PTL DEF Spec

\* Under the same conditions every answer the bridge gives is one its master is
\* owed.
THEOREM AnswersOwed ==
  ASSUME ~BackToBack, ~PartialBursts, Responses \subseteq {"OK"}, Fitting
  PROVE  Spec => []AnswerIsOwed
<1>1. Init => IInv
  BY InitIInv
<1>2. IInv /\ [Next]_vars => IInv'
  BY StepPreserves
<1>3. IInv => AnswerIsOwed
  BY Owed
<1>4. QED
  BY <1>1, <1>2, <1>3, PTL DEF Spec

\* The bridge never withdraws or changes an answer that has not been taken, in
\* spite of everything else it does to d_valid between two messages.
THEOREM AnswersHeld ==
  ASSUME ~BackToBack, ~PartialBursts, Responses \subseteq {"OK"}, Fitting
  PROVE  Spec => AnswerHeld
<1>1. Init => IInv
  BY InitIInv
<1>2. IInv /\ [Next]_vars => IInv' /\ Held
  BY StepPreserves
<1>3. IInv /\ [Next]_vars
      => [d_valid /\ ~d_ready => d_valid' /\ d_opcode' = d_opcode /\ d_data' = d_data]_vars
  BY <1>2 DEF Held
<1>4. QED
  BY <1>1, <1>2, <1>3, PTL DEF Spec, AnswerHeld

-----------------------------------------------------------------------------
(***************************************************************************)
(* Where the bytes of a message are.                                         *)
(***************************************************************************)

\* A set of numbers that is not empty has a least one.
LEMMA Least ==
  ASSUME NEW S \in SUBSET Nat, S # {}
  PROVE  \E l \in S : \A m \in S : l <= m
<1> DEFINE R == OpToRel(<, Nat)
<1>1. \A i, j \in Nat : <<i, j>> \in R <=> i < j
  BY DEF OpToRel
<1>2. IsWellFoundedOn(R, Nat)
  BY NatLessThanWellFounded
<1> HIDE DEF R
<1>3. PICK l \in S : \A m \in S : ~(<<m, l>> \in R)
  BY <1>2, WFMin
<1>4. \A m \in S : l \in Nat /\ m \in Nat /\ ~(m < l)
  BY <1>1, <1>3
<1>5. \A m \in S : l <= m
  BY <1>4
<1>6. QED
  BY <1>5

\* A contiguous set of lanes is an interval.
LEMMA MaskInterval ==
  ASSUME NEW S \in SUBSET Lane, S # {}, Contiguous(S)
  PROVE  \E a, b \in Lane :
           /\ a <= b /\ S = a .. b /\ Cardinality(S) = b - a + 1
           /\ a = CHOOSE l \in S : \A m \in S : l <= m
<1>1. Bus \in Nat \ {0} /\ S \in SUBSET Nat /\ \A l \in S : l < Bus
  BY TileLinkAssumption DEF Lane
<1>2. \E l \in S : \A m \in S : l <= m
  BY <1>1, Least
<1> DEFINE a == CHOOSE l \in S : \A m \in S : l <= m
<1>3. a \in S /\ \A m \in S : a <= m
  BY <1>2
<1> HIDE DEF a
<1> DEFINE T == {n \in Nat : Bus - n \in S}
<1>4. \A l \in S : Bus - l \in T
  BY <1>1
<1>5. PICK t \in T : \A n \in T : t <= n
  <2>1. T \in SUBSET Nat /\ T # {}
    BY <1>4
  <2> HIDE DEF T
  <2>2. QED
    BY <2>1, Least
<1>6. PICK b \in S : t \in Nat /\ b = Bus - t
  OBVIOUS
<1>7. \A m \in S : m <= b
  <2>1. TAKE m \in S
  <2>2. t <= Bus - m
    BY <1>4, <1>5
  <2>3. m \in Nat /\ Bus \in Nat
    BY <1>1
  <2>4. QED
    BY <1>6, <2>2, <2>3
<1>8. a .. b \subseteq S
  BY <1>3, <1>6 DEF Contiguous
<1>9. S = a .. b
  <2>1. \A l \in S : l \in Int /\ a <= l /\ l <= b
    BY <1>1, <1>3, <1>7
  <2>2. a \in Int /\ b \in Int
    BY <1>1, <1>3
  <2>3. S \subseteq a .. b
    BY <2>1, <2>2
  <2>4. QED
    BY <1>8, <2>3
<1>10. a \in Int /\ b \in Int /\ a <= b /\ a \in Lane /\ b \in Lane
  BY <1>1, <1>3, <1>6, <1>7
<1>11. Cardinality(S) = b - a + 1
  BY <1>9, <1>10, FS_Interval
<1>12. QED
  BY <1>9, <1>10, <1>11 DEF a

\* Memory and data array are whole bus words.
LEMMA WholeWords ==
  /\ Bus \in Nat \ {0} /\ MaxLen \in Nat \ {0} /\ MemSize \in Nat \ {0} /\ Bus <= MaxLen
  /\ \A a \in Address : WordBase(a) \in Nat /\ WordBase(a) <= a /\ WordBase(a) + Bus <= MemSize
<1>1. /\ Bus \in Nat \ {0} /\ MaxLen \in Nat \ {0} /\ MemSize \in Nat \ {0}
      /\ MemSize % Bus = 0 /\ MaxLen % Bus = 0
  BY TileLinkAssumption, TL2TLMAssumption
<1>2. Bus <= MaxLen
  BY <1>1
<1>3. ASSUME NEW a \in Address
      PROVE  WordBase(a) \in Nat /\ WordBase(a) <= a /\ WordBase(a) + Bus <= MemSize
  <2> DEFINE d == a \div Bus
             r == a % Bus
             q == MemSize \div Bus
  <2>1. a \in Nat /\ a < MemSize
    BY <1>1 DEF Address
  <2>2. d \in Nat /\ r \in Nat /\ r < Bus /\ a = Bus * d + r
    BY <1>1, <2>1
  <2>3. q \in Nat /\ MemSize = Bus * q
    BY <1>1
  <2>4. WordBase(a) = a - r
    BY DEF WordBase
  <2> HIDE DEF d, r, q
  <2>5. WordBase(a) = Bus * d /\ Bus * d \in Nat
    BY <1>1, <2>2, <2>4
  <2>6. ASSUME d >= q PROVE FALSE
    <3>1. Bus * d >= Bus * q
      BY <1>1, <2>2, <2>3, <2>6
    <3>2. QED
      BY <1>1, <2>1, <2>2, <2>3, <2>5, <3>1
  <2>7. Bus * (d + 1) <= Bus * q
    BY <1>1, <2>2, <2>3, <2>6
  <2>8. Bus * (d + 1) = Bus * d + Bus
    BY <1>1, <2>2
  <2>9. QED
    BY <1>1, <2>2, <2>3, <2>5, <2>7, <2>8
<1>4. QED
  BY <1>1, <1>2, <1>3

\* The word of a byte, and its lane.
LEMMA ByteOfWord ==
  ASSUME NEW k \in Nat, NEW i \in Nat
  PROVE  /\ k \div Bus = i <=> i * Bus <= k /\ k < i * Bus + Bus
         /\ k \div Bus = i => k % Bus = k - i * Bus /\ k - i * Bus \in Lane
<1> DEFINE d == k \div Bus
           r == k % Bus
           o == i * Bus
<1>1. Bus \in Nat \ {0}
  BY TileLinkAssumption
<1>2. d \in Nat /\ r \in Nat /\ r < Bus /\ k = Bus * d + r
  BY <1>1
<1>3. o \in Nat /\ o = Bus * i
  BY <1>1
<1> HIDE DEF d, r, o
<1>4. d = i => o <= k /\ k < o + Bus /\ r = k - o
  BY <1>1, <1>2, <1>3
<1>5. ASSUME o <= k, k < o + Bus PROVE d = i
  <2>1. Bus * (d - i) = k - o - r /\ d - i \in Int
    BY <1>1, <1>2, <1>3
  <2>2. ASSUME d - i >= 1 PROVE FALSE
    <3>1. Bus * (d - i) >= Bus
      BY <1>1, <2>1, <2>2
    <3>2. QED
      BY <1>1, <1>2, <1>3, <1>5, <2>1, <3>1
  <2>3. ASSUME d - i <= -1 PROVE FALSE
    <3>1. Bus * (d - i) <= -Bus
      BY <1>1, <2>1, <2>3
    <3>2. QED
      BY <1>1, <1>2, <1>3, <1>5, <2>1, <3>1
  <2>4. QED
    BY <1>2, <2>1, <2>2, <2>3
<1>6. r \in Lane
  BY <1>1, <1>2 DEF Lane
<1>7. QED
  BY <1>4, <1>5, <1>6 DEF d, r, o

\* The beats of a message cover it.  Only the last one may go past its end, and
\* none past the end of the data array.
LEMMA BeatRoom ==
  ASSUME NEW n \in Nat \ {0}
  PROVE  /\ n <= Beats(n) * Bus /\ Beats(n) <= n
         /\ n % Bus = 0 => n = Beats(n) * Bus
         /\ n <= MaxLen => \A i \in Nat : i < Beats(n) => i * Bus < n /\ i * Bus + Bus <= MaxLen
<1> DEFINE x == n + Bus - 1
           q == x \div Bus
           w == MaxLen \div Bus
           u == n \div Bus
<1>1. Bus \in Nat \ {0} /\ MaxLen \in Nat \ {0} /\ MaxLen % Bus = 0
  BY TileLinkAssumption, TL2TLMAssumption
<1>2. x \in Nat /\ x = n + Bus - 1
  BY <1>1
<1>3. w \in Nat /\ MaxLen = Bus * w
  BY <1>1
<1>4. u \in Nat /\ (n % Bus = 0 => n = Bus * u)
  BY <1>1
<1> HIDE DEF x, w, u
<1>5. q \in Nat /\ Bus * q <= x /\ x < Bus * q + Bus
  BY <1>1, <1>2
<1>6. Beats(n) = q
  BY DEF Beats, x
<1> HIDE DEF q
<1>7. q * Bus = Bus * q /\ Bus * q \in Nat
  BY <1>1, <1>5
<1>8. n <= Bus * q
  BY <1>1, <1>2, <1>5, <1>7
<1>9. q <= n
  <2>1. ASSUME q >= n + 1 PROVE FALSE
    <3>1. Bus * q >= Bus * (n + 1)
      BY <1>1, <1>5, <2>1
    <3>2. Bus * (n + 1) = Bus * n + Bus /\ Bus * n >= n
      BY <1>1
    <3>3. QED
      BY <1>1, <1>2, <1>5, <1>7, <3>1, <3>2
  <2>2. QED
    BY <1>5, <2>1
<1>10. ASSUME n % Bus = 0 PROVE n = Bus * q
  <2>1. n = Bus * u
    BY <1>4, <1>10
  <2>2. ASSUME q >= u + 1 PROVE FALSE
    <3>1. Bus * q >= Bus * (u + 1) /\ Bus * (u + 1) = Bus * u + Bus
      BY <1>1, <1>4, <1>5, <2>2
    <3>2. QED
      BY <1>1, <1>2, <1>5, <1>7, <2>1, <3>1
  <2>3. ASSUME q <= u - 1 PROVE FALSE
    <3>1. Bus * q <= Bus * (u - 1) /\ Bus * (u - 1) = Bus * u - Bus
      BY <1>1, <1>4, <1>5, <2>3
    <3>2. QED
      BY <1>1, <1>7, <1>8, <2>1, <3>1
  <2>4. q = u
    BY <1>4, <1>5, <2>2, <2>3
  <2>5. QED
    BY <2>1, <2>4
<1>11. ASSUME n <= MaxLen, NEW i \in Nat, i < q
       PROVE  i * Bus < n /\ i * Bus + Bus <= MaxLen
  <2>1. Bus * (i + 1) <= Bus * q /\ Bus * (i + 1) = Bus * i + Bus
    BY <1>1, <1>5, <1>11
  <2>2. i * Bus = Bus * i /\ Bus * i \in Nat
    BY <1>1
  <2>3. Bus * i < n
    BY <1>1, <1>2, <1>5, <1>7, <2>1, <2>2
  <2>4. ASSUME i >= w PROVE FALSE
    <3>1. Bus * i >= Bus * w
      BY <1>1, <1>3, <2>4
    <3>2. QED
      BY <1>1, <1>3, <1>11, <2>2, <2>3, <3>1
  <2>5. Bus * (i + 1) <= Bus * w
    BY <1>1, <1>3, <2>4
  <2>6. QED
    BY <1>3, <2>1, <2>2, <2>3, <2>5
<1>12. QED
  BY <1>6, <1>7, <1>8, <1>9, <1>10, <1>11

\* What every message has: it is in the memory and in the data array.
LEMMA MessageRoom ==
  ASSUME ~PartialBursts, Fitting, NEW c \in Control, Legal(c)
  PROVE  /\ c.addr \in Address /\ c.size \in Nat \ {0} /\ c.size <= MaxLen
         /\ Beats(c.size) \in Nat \ {0}
         /\ c.size > Bus => /\ c.addr % Bus = 0 /\ WordBase(c.addr) = c.addr
                            /\ c.size = Beats(c.size) * Bus /\ Beats(c.size) # 1
         /\ c.size <= Bus => Beats(c.size) = 1
         /\ OffsetsOf(c) = IF c.size > Bus THEN {k \in Offset : k < c.size} ELSE c.mask
         /\ OffsetsOf(c) \subseteq Offset
         /\ c.mask \subseteq Lane /\ c.mask # {} /\ Contiguous(c.mask)
<1>1. /\ c.size \in Lens /\ c.size \in Nat \ {0} /\ c.addr \in Address /\ c.addr \in Nat
      /\ c.mask \subseteq Lane
      /\ Beats(c.size) \in Nat \ {0} /\ (Beats(c.size) = 1 <=> c.size <= Bus)
  BY MessageBeats DEF Control
<1>2. Bus \in Nat \ {0} /\ MaxLen \in Nat \ {0} /\ Bus <= MaxLen
  BY WholeWords
<1>3. c.size <= MaxLen
  <2>1. c.size \in 1 .. MaxLen
    BY <1>1, TL2TLMAssumption
  <2>2. QED
    BY <1>2, <2>1
<1>4. ASSUME c.size > Bus
      PROVE  /\ c.addr % Bus = 0 /\ WordBase(c.addr) = c.addr
             /\ c.size = Beats(c.size) * Bus /\ Beats(c.size) # 1
  <2>1. c.size % Bus = 0 /\ c.addr % c.size = 0
    BY <1>1, <1>2, <1>4 DEF Fitting, Legal
  <2>2. c.addr % Bus = 0
    BY <1>1, <2>1, Multiple
  <2>3. c.size = Beats(c.size) * Bus
    BY <1>1, <2>1, BeatRoom
  <2>4. QED
    BY <1>1, <1>2, <1>4, <2>2, <2>3 DEF WordBase
<1>5. Lane \subseteq Offset
  BY <1>2 DEF Lane, Offset
<1>6. OffsetsOf(c) = IF c.size > Bus THEN {k \in Offset : k < c.size} ELSE c.mask
  <2>1. CASE c.size <= Bus
    <3>1. Beats(c.size) = 1 /\ ~(Beats(c.size) > 1) /\ ~(c.size > Bus)
      BY <1>1, <1>2, <2>1
    <3>2. QED
      BY <1>1, <1>5, <3>1 DEF OffsetsOf
  <2>2. CASE c.size > Bus
    <3>1. Beats(c.size) > 1 /\ Beats(c.size) # 1
      BY <1>1, <1>2, <2>2
    <3>2. QED
      BY <2>2, <3>1 DEF OffsetsOf
  <2>3. QED
    BY <1>1, <1>2, <2>1, <2>2
<1>7. OffsetsOf(c) \subseteq Offset
  BY DEF OffsetsOf
<1>8. c.mask # {} /\ Contiguous(c.mask)
  <2>1. CASE Beats(c.size) = 1
    BY <2>1, LegalSupported DEF Supported
  <2>2. CASE Beats(c.size) # 1
    <3>1. c.mask = Lane
      BY <2>2, LegalSupported DEF Supported
    <3>2. 0 \in Lane /\ \A l, m \in Lane : l .. m \subseteq Lane
      BY <1>2 DEF Lane
    <3>3. QED
      BY <3>1, <3>2 DEF Contiguous
  <2>3. QED
    BY <2>1, <2>2
<1>9. QED
  BY <1>1, <1>2, <1>3, <1>4, <1>6, <1>7, <1>8

\* Where a message is in its word: the lowest lane of its mask and the rest.
LEMMA MessageLanes ==
  ASSUME ~PartialBursts, Fitting, NEW c \in Control, Legal(c), c.size <= Bus
  PROVE  /\ MaskShift(c) \in Lane /\ Cardinality(c.mask) \in Nat
         /\ MaskShift(c) + Cardinality(c.mask) <= Bus
         /\ c.mask = {l \in Lane : MaskShift(c) <= l /\ l < MaskShift(c) + Cardinality(c.mask)}
         /\ c.opcode # PutPartial => /\ Cardinality(c.mask) = c.size
                                     /\ WordBase(c.addr) + MaskShift(c) = c.addr
<1>1. /\ c.addr \in Nat /\ c.size \in Nat \ {0} /\ Beats(c.size) = 1
      /\ c.mask \subseteq Lane /\ c.mask # {} /\ Contiguous(c.mask)
  BY MessageRoom, MessageBeats
<1>2. Bus \in Nat \ {0}
  BY WholeWords
<1>3. PICK a, b \in Lane : /\ a <= b /\ c.mask = a .. b /\ Cardinality(c.mask) = b - a + 1
                           /\ a = CHOOSE l \in c.mask : \A m \in c.mask : l <= m
  BY <1>1, MaskInterval
<1>4. MaskShift(c) = a
  BY <1>1, <1>3 DEF MaskShift
<1>5. a \in Nat /\ b \in Nat /\ b < Bus
  BY <1>2 DEF Lane
<1>6. c.mask = {l \in Lane : a <= l /\ l < a + (b - a + 1)}
  <2>1. \A l \in Lane : l \in a .. b <=> a <= l /\ l < a + (b - a + 1)
    BY <1>5 DEF Lane
  <2>2. QED
    BY <1>1, <1>3, <2>1
<1>7. ASSUME c.opcode # PutPartial
      PROVE  Cardinality(c.mask) = c.size /\ WordBase(c.addr) + a = c.addr
  <2>1. Supported(c) /\ c.mask = FullMask(c)
    BY <1>7, LegalSupported DEF Legal
  <2>2. Cardinality(c.mask) = c.size
    BY <1>1, <1>7, <2>1 DEF Supported
  <2> DEFINE s == c.addr % Bus
  <2>3. s \in Nat /\ WordBase(c.addr) = c.addr - s
    BY <1>1, <1>2 DEF WordBase
  <2>4. c.mask = {l \in Lane : s <= l /\ l < s + c.size}
    BY <1>1, <2>1 DEF FullMask, Lanes, ByteShift
  <2> HIDE DEF s
  <2>5. a \in c.mask /\ b \in c.mask /\ \A l \in c.mask : a <= l
    BY <1>3, <1>5
  <2>6. s <= a /\ b < s + c.size
    BY <2>4, <2>5
  <2>7. a = s
    BY <1>1, <1>3, <1>5, <2>2, <2>3, <2>6
  <2>8. QED
    BY <1>1, <2>2, <2>3, <2>7
<1>8. b - a + 1 \in Nat /\ a + (b - a + 1) <= Bus
  BY <1>2, <1>3, <1>5
<1>9. QED
  BY <1>3, <1>4, <1>6, <1>7, <1>8

\* A TLM write covers the bytes of the message; with a PutPartial of less than a
\* word it would start at the wrong address.
LEMMA WriteLayout ==
  ASSUME Fitting, ~SubWordPartials, ~PartialBursts, NEW c \in Control, Legal(c), c.opcode # Get
  PROVE  /\ MaskShift(c) \in Nat /\ TlmLen(c) \in Nat /\ TlmAddr(c) \in Nat
         /\ TlmAddr(c) = WordBase(c.addr) + MaskShift(c)
         /\ MaskShift(c) + TlmLen(c) <= MaxLen
         /\ OffsetsOf(c) = {k \in Offset : MaskShift(c) <= k /\ k < MaskShift(c) + TlmLen(c)}
<1>1. /\ c.addr \in Address /\ c.addr \in Nat
      /\ Bus \in Nat \ {0} /\ MaxLen \in Nat \ {0} /\ Bus <= MaxLen
      /\ c.size \in Nat \ {0} /\ c.size <= MaxLen /\ WordBase(c.addr) \in Nat
  BY MessageRoom, MessageBeats, WholeWords
<1>2. TlmLen(c) = Bytes(c)
  BY DEF TlmLen
<1>3. CASE c.size <= Bus
  <2> DEFINE n == Cardinality(c.mask)
             s == MaskShift(c)
  <2>1. /\ s \in Nat /\ n \in Nat /\ s + n <= Bus
        /\ c.mask = {l \in Lane : s <= l /\ l < s + n}
        /\ c.opcode # PutPartial => n = c.size /\ WordBase(c.addr) + s = c.addr
    BY <1>3, MessageLanes DEF Lane
  <2>2. OffsetsOf(c) = c.mask
    BY <1>1, <1>3, MessageRoom
  <2>3. Bytes(c) = n
    BY <1>3, <2>1, MessageBeats DEF Bytes
  <2>4. TlmAddr(c) = WordBase(c.addr) + s
    <3>1. CASE c.opcode = PutPartial
      <4>1. c.size = Bus /\ c.addr % c.size = 0
        BY <1>1, <1>3, <3>1 DEF Legal
      <4>2. WordBase(c.addr) = c.addr
        BY <1>1, <4>1 DEF WordBase
      <4>3. QED
        BY <3>1, <4>2 DEF TlmAddr, PutPartial, Get
    <3>2. CASE c.opcode # PutPartial
      BY <2>1, <3>2 DEF TlmAddr
    <3>3. QED
      BY <3>1, <3>2
  <2> HIDE DEF n, s
  <2>5. c.mask = {k \in Offset : s <= k /\ k < s + n}
    BY <1>1, <2>1 DEF Lane, Offset
  <2>6. s + n <= MaxLen /\ WordBase(c.addr) + s \in Nat
    BY <1>1, <2>1
  <2>7. TlmLen(c) = n /\ OffsetsOf(c) = {k \in Offset : s <= k /\ k < s + n}
    BY <1>2, <2>2, <2>3, <2>5
  <2>8. QED
    BY <2>1, <2>4, <2>6, <2>7 DEF s
<1>4. CASE c.size > Bus
  <2>1. /\ WordBase(c.addr) = c.addr /\ Beats(c.size) # 1
        /\ OffsetsOf(c) = {k \in Offset : k < c.size}
    BY <1>4, MessageRoom
  <2>2. c.opcode # PutPartial
    BY <1>1, <1>4 DEF Legal
  <2>3. MaskShift(c) = 0 /\ Bytes(c) = c.size /\ TlmAddr(c) = c.addr
    BY <2>1, <2>2 DEF MaskShift, Bytes, TlmAddr
  <2>4. OffsetsOf(c) = {k \in Offset : 0 <= k /\ k < 0 + c.size}
    BY <1>1, <2>1 DEF Offset
  <2>5. QED
    BY <1>1, <1>2, <2>1, <2>3, <2>4
<1>5. QED
  BY <1>1, <1>3, <1>4

\* A TLM read covers whole words, which are in the memory and in the data array.
LEMMA ReadLayout ==
  ASSUME ~PartialBursts, Fitting, NEW c \in Control, Legal(c), c.opcode = Get
  PROVE  /\ TlmAddr(c) = WordBase(c.addr) /\ TlmLen(c) \in Nat
         /\ \A k \in Offset : k < TlmLen(c) => WordBase(c.addr) + k \in Address
         /\ \A k \in OffsetsOf(c) : k < TlmLen(c)
<1>1. /\ c.addr \in Address /\ c.addr \in Nat /\ MemSize \in Nat \ {0}
      /\ Bus \in Nat \ {0} /\ MaxLen \in Nat \ {0} /\ Bus <= MaxLen
      /\ c.size \in Nat \ {0} /\ c.size <= MaxLen
      /\ WordBase(c.addr) \in Nat /\ WordBase(c.addr) + Bus <= MemSize
      /\ c.mask \subseteq Lane
  BY MessageRoom, MessageBeats, WholeWords
<1>2. TlmAddr(c) = WordBase(c.addr) /\ TlmLen(c) = IF c.size < Bus THEN Bus ELSE c.size
  BY DEF TlmAddr, TlmLen
<1>3. \A k \in Offset : k \in Int /\ k >= 0
  BY DEF Offset
<1>4. CASE c.size <= Bus
  <2>1. TlmLen(c) = Bus
    BY <1>1, <1>2, <1>4
  <2>2. OffsetsOf(c) = c.mask
    BY <1>1, <1>4, MessageRoom
  <2>3. \A k \in OffsetsOf(c) : k < Bus
    BY <1>1, <2>2 DEF Lane
  <2>4. QED
    BY <1>1, <1>2, <1>3, <2>1, <2>3 DEF Address
<1>5. CASE c.size > Bus
  <2>1. WordBase(c.addr) = c.addr /\ OffsetsOf(c) = {k \in Offset : k < c.size}
    BY <1>5, MessageRoom
  <2>2. TlmLen(c) = c.size
    BY <1>1, <1>2, <1>5
  <2>3. c.addr + c.size <= MemSize
    BY DEF Legal
  <2>4. QED
    BY <1>1, <1>2, <1>3, <2>1, <2>2, <2>3 DEF Address
<1>6. QED
  BY <1>1, <1>4, <1>5

\* The offsets of beat i of a message, and those of the beats before it.
BeatOf(c, i) == {k \in OffsetsOf(c) : k \div Bus = i}
Before(c, i) == {k \in OffsetsOf(c) : k < i * Bus}

\* Each beat moves offsets of its own, and all beats together move all of them.
LEMMA MovedByBeat ==
  ASSUME ~PartialBursts, Fitting, NEW c \in Control, Legal(c), NEW i \in Nat, i < Beats(c.size)
  PROVE  /\ BeatOf(c, i) # {}
         /\ BeatOf(c, i) \subseteq OffsetsOf(c) \ Before(c, i)
         /\ Before(c, i + 1) = Before(c, i) \cup BeatOf(c, i)
<1>1. /\ c.size \in Nat \ {0} /\ c.size <= MaxLen /\ Beats(c.size) \in Nat \ {0}
      /\ OffsetsOf(c) = IF c.size > Bus THEN {k \in Offset : k < c.size} ELSE c.mask
      /\ OffsetsOf(c) \subseteq Offset /\ c.mask # {} /\ c.mask \subseteq Lane
      /\ c.size <= Bus => Beats(c.size) = 1
      /\ Bus \in Nat \ {0} /\ MaxLen \in Nat
  BY MessageRoom, WholeWords
<1> DEFINE o == i * Bus
           p == (i + 1) * Bus
<1>2. o \in Nat /\ p = o + Bus /\ o < c.size
  BY <1>1, BeatRoom
<1>3. \A k \in Offset : k \in Nat /\ (k \div Bus = i <=> o <= k /\ k < o + Bus)
  BY ByteOfWord DEF Offset
<1>4. BeatOf(c, i) # {}
  <2>1. CASE c.size <= Bus
    <3>1. OffsetsOf(c) = c.mask /\ i = 0
      BY <1>1, <2>1
    <3>2. o = 0
      BY <1>1, <3>1
    <3>3. PICK l \in c.mask : l \in Offset /\ l \in Lane
      BY <1>1, <3>1
    <3>4. l \div Bus = i
      BY <1>1, <1>3, <3>2, <3>3 DEF Lane
    <3>5. QED
      BY <3>1, <3>3, <3>4 DEF BeatOf
  <2>2. CASE c.size > Bus
    <3>1. o \in Offset /\ o < c.size
      BY <1>1, <1>2 DEF Offset
    <3>2. o \div Bus = i
      BY <1>1, <1>2, <1>3, <3>1
    <3>3. o \in OffsetsOf(c)
      BY <1>1, <2>2, <3>1
    <3>4. QED
      BY <3>2, <3>3 DEF BeatOf
  <2>3. QED
    BY <1>1, <2>1, <2>2
<1> HIDE DEF o, p
<1>5. BeatOf(c, i) = {k \in OffsetsOf(c) : o <= k /\ k < p}
  BY <1>1, <1>2, <1>3 DEF BeatOf
<1>6. Before(c, i) = {k \in OffsetsOf(c) : k < o} /\ Before(c, i + 1) = {k \in OffsetsOf(c) : k < p}
  BY DEF Before, o, p
<1>7. \A k \in OffsetsOf(c) : /\ o <= k => ~(k < o)
                              /\ k < p <=> (k < o \/ (o <= k /\ k < p))
  BY <1>1, <1>2, <1>3
<1>8. QED
  BY <1>4, <1>5, <1>6, <1>7

LEMMA MovedByAll ==
  ASSUME ~PartialBursts, Fitting, NEW c \in Control, Legal(c)
  PROVE  Before(c, Beats(c.size)) = OffsetsOf(c) /\ Before(c, 0) = {}
<1>1. /\ c.size \in Nat \ {0} /\ Bus \in Nat \ {0}
      /\ OffsetsOf(c) = IF c.size > Bus THEN {k \in Offset : k < c.size} ELSE c.mask
      /\ OffsetsOf(c) \subseteq Offset /\ c.mask \subseteq Lane
      /\ c.size <= Bus => Beats(c.size) = 1
      /\ c.size > Bus => c.size = Beats(c.size) * Bus
  BY MessageRoom, WholeWords
<1>2. \A k \in Offset : k \in Int /\ k >= 0
  BY DEF Offset
<1>3. 0 * Bus = 0 /\ 1 * Bus = Bus
  BY <1>1
<1>4. \A k \in OffsetsOf(c) : k < Beats(c.size) * Bus
  BY <1>1, <1>3 DEF Lane
<1>5. QED
  BY <1>1, <1>2, <1>3, <1>4 DEF Before

\* Storing a beat gives its bytes their place in databuf and keeps the others.
LEMMA StoredBytes ==
  ASSUME ~PartialBursts, Fitting, NEW c \in Control, Legal(c), NEW i \in Nat, i < Beats(c.size), NEW w,
         NEW k \in OffsetsOf(c)
  PROVE  Store(c, i, w)[k - MaskShift(c)]
           = IF k \in BeatOf(c, i) THEN w[k % Bus] ELSE databuf[k - MaskShift(c)]
<1> DEFINE s == MaskShift(c)
<1>1. /\ c.size \in Nat \ {0} /\ Beats(c.size) \in Nat
      /\ OffsetsOf(c) = IF c.size > Bus THEN {j \in Offset : j < c.size} ELSE c.mask
      /\ OffsetsOf(c) \subseteq Offset /\ c.mask \subseteq Lane
      /\ c.size <= Bus => Beats(c.size) = 1
      /\ c.size > Bus => Beats(c.size) # 1
      /\ Bus \in Nat \ {0} /\ MaxLen \in Nat /\ Bus <= MaxLen
  BY MessageRoom, WholeWords
<1>2. \A j \in Offset : j \in Nat
  BY DEF Offset
<1>3. CASE c.size <= Bus
  <2>1. i = 0 /\ k \in c.mask /\ 0 * Bus = 0
    BY <1>1, <1>3
  <2>2. s \in Nat /\ s <= k /\ k \in Nat /\ k < Bus
    BY <1>1, <1>3, <2>1, MessageLanes DEF Lane
  <2> HIDE DEF s
  <2>3. k - s \in Nat /\ k - s < Bus /\ k - s \in Offset
    BY <1>1, <2>2 DEF Offset
  <2>4. (k - s) \div Bus = 0 /\ (k - s) % Bus = k - s
    BY <1>1, <2>1, <2>3, ByteOfWord
  <2>5. k \div Bus = 0 /\ k % Bus = k
    BY <1>1, <2>1, <2>2, ByteOfWord
  <2>6. ((k - s) % Bus) + s = k /\ k \in Lane
    BY <1>1, <2>2, <2>4 DEF Lane
  <2>7. Store(c, i, w)[k - s] = w[k]
    BY <2>1, <2>3, <2>4, <2>6 DEF Store, s
  <2>8. QED
    BY <2>1, <2>5, <2>7 DEF BeatOf, s
<1>4. CASE c.size > Bus
  <2>1. s = 0
    BY <1>1, <1>4 DEF MaskShift
  <2>2. k \in Offset /\ k - s = k
    BY <1>1, <1>2, <2>1
  <2>3. (k % Bus) + s = k % Bus /\ k % Bus \in Lane
    BY <1>1, <1>2, <2>1, <2>2 DEF Lane
  <2> HIDE DEF s
  <2>4. Store(c, i, w)[k] = IF k \div Bus # i THEN databuf[k] ELSE w[k % Bus]
    BY <2>2, <2>3 DEF Store, s
  <2>5. QED
    BY <2>2, <2>4 DEF BeatOf, s
<1>5. QED
  BY <1>1, <1>3, <1>4

LEMMA StoreTyped ==
  ASSUME NEW c, NEW i, NEW w \in Word, databuf \in [Offset -> AnyByte]
  PROVE  Store(c, i, w) \in [Offset -> AnyByte]
BY DEF Store, Word, AnyByte

LEMMA WordTyped ==
  ASSUME Fitting, NEW data \in [Offset -> AnyByte], NEW n \in Nat \ {0}, n <= MaxLen,
         NEW i \in Nat, i < Beats(n)
  PROVE  WordOf(data, i) \in Word
<1>1. i * Bus \in Nat /\ i * Bus + Bus <= MaxLen /\ Bus \in Nat \ {0} /\ MaxLen \in Nat
  BY BeatRoom, WholeWords
<1>2. \A l \in Lane : i * Bus + l \in Offset
  <2> DEFINE o == i * Bus
  <2> HIDE DEF o
  <2>1. o \in Nat /\ o + Bus <= MaxLen
    BY <1>1 DEF o
  <2>2. \A l \in Lane : o + l \in Offset
    BY <1>1, <2>1 DEF Lane, Offset
  <2>3. QED
    BY <2>2 DEF o
<1>3. QED
  BY <1>2 DEF WordOf, Word

\* Byte k of a word of the data array.
LEMMA ByteInWord ==
  ASSUME NEW data, NEW k \in Offset, NEW i \in Nat, k \div Bus = i
  PROVE  WordOf(data, i)[k % Bus] = data[k]
<1>1. k \in Nat
  BY WholeWords DEF Offset
<1>2. k % Bus = k - i * Bus /\ k - i * Bus \in Lane
  BY <1>1, ByteOfWord
<1>3. i * Bus + (k - i * Bus) = k
  <2> DEFINE o == i * Bus
  <2>1. o \in Nat
    BY WholeWords
  <2> HIDE DEF o
  <2>2. o + (k - o) = k
    BY <1>1, <2>1
  <2>3. QED
    BY <2>2 DEF o
<1>4. QED
  BY <1>2, <1>3 DEF WordOf

-----------------------------------------------------------------------------
(***************************************************************************)
(* The invariant of the data, on top of IInv: the master presents the bytes  *)
(* of its message beat by beat, and the bridge answers a Get with those it   *)
(* has read.                                                                 *)
(***************************************************************************)
Presented ==
  /\ a_ctl \in Control
  /\ msg \in [ctl : Control, data : [Offset -> AnyByte]]
  /\ rbuf \in [Offset -> AnyByte]
  /\ a_data \in Word
  /\ a_valid => a_data = WordOf(msg.data, got)

Bridge_Typing ==
  /\ req \in Control
  /\ d_size \in Lens /\ d_opcode \in RespOpcode
  /\ databuf \in [Offset -> AnyByte]
  /\ d_data \in Word
  /\ tmem \in [Address -> AnyByte]

Round ==
  /\ beat \in Nat /\ beat < Beats(req.size)
  /\ pc \in {"top", "waitA", "waitE", "getW", "tlmR"} => beat = 0
  /\ pc \notin {"top", "waitA", "waitE"} => Legal(req)
  /\ pc \in {"putB", "putW", "putK", "putN", "putX", "parD", "tlmW"} => req.opcode # Get
  /\ pc \in {"putK", "putN", "putX", "parD", "tlmW"} => beat + 1 = Beats(req.size)

Fetched ==
  pc = "getD" =>
    /\ d_data = WordOf(databuf, beat)
    /\ \A k \in Offset : k < TlmLen(req) => databuf[k] = tmem[TlmAddr(req) + k]

BInv == Bridge_Typing /\ Round /\ Fetched
DInv == Presented /\ BInv

\* The locals of no round.
LEMMA NothingTyped ==
  ASSUME Lens # {}
  PROVE  /\ NoControl \in Control /\ NoData \in [Offset -> AnyByte] /\ NoWord \in Word
         /\ Beats(NoControl.size) \in Nat \ {0}
<1>1. 0 \in Address
  BY WholeWords DEF Address
<1>2. NoControl \in Control
  BY <1>1 DEF NoControl, Control, ReqOpcode
<1>3. QED
  BY <1>2, MessageBeats DEF NoData, NoWord, Word, AnyByte

\* Whatever the bridge does, an edge keeps the master's side.
LEMMA MasterData ==
  ASSUME ~PartialBursts, Fitting, IInv, IInv', DInv, Account, Drive
  PROVE  Presented'
<1>1. msg' = msg /\ active' = active
  BY DEF Account
<1>2. /\ a_valid' => active' /\ got' < ABeats(msg'.ctl) /\ a_ctl' = msg'.ctl
      /\ got' \in Nat /\ {a_valid, a_ready} \subseteq BOOLEAN
  BY DEF IInv, Link, Wires
<1>3. rbuf' \in [Offset -> AnyByte]
  <2>1. \A k \in Offset : k % Bus \in Lane
    BY WholeWords DEF Offset, Lane
  <2>2. QED
    BY <2>1 DEF Account, DInv, Presented, BInv, Bridge_Typing, Word
<1>4. /\ a_ctl \in Control /\ a_data \in Word /\ (a_valid => a_data = WordOf(msg.data, got))
      /\ msg \in [ctl : Control, data : [Offset -> AnyByte]] /\ Lens # {}
  BY DEF DInv, BInv, Presented, Bridge_Typing
<1>5. CASE a_valid /\ ~a_ready
  <2>1. UNCHANGED <<a_valid, a_ctl, a_data>>
    BY <1>5 DEF Drive
  <2>2. got' = got
    BY <1>5 DEF Account, AFire, IInv, Link
  <2>3. QED
    BY <1>1, <1>3, <1>4, <2>1, <2>2 DEF Presented
<1>6. CASE active /\ got' < ABeats(msg.ctl) /\ Present(msg, got')
  <2>1. a_ctl' = msg.ctl /\ a_data' = WordOf(msg.data, got')
    BY <1>6 DEF Present
  <2>2. msg.ctl \in Control /\ Legal(msg.ctl)
    BY <1>6 DEF IInv, Link
  <2>3. /\ msg.ctl.size \in Nat \ {0} /\ msg.ctl.size <= MaxLen
        /\ Beats(msg.ctl.size) \in Nat \ {0}
    BY <2>2, MessageRoom
  <2>4. got' < Beats(msg.ctl.size)
    BY <1>2, <1>6, <2>3 DEF ABeats
  <2>5. a_data' \in Word
    BY <1>2, <1>4, <2>1, <2>3, <2>4, WordTyped
  <2>6. QED
    BY <1>1, <1>3, <1>4, <2>1, <2>5 DEF Presented
<1>7. CASE Withhold
  <2>1. ~a_valid' /\ a_ctl' = NoControl /\ a_data' = NoWord
    BY <1>7 DEF Withhold
  <2>2. QED
    BY <1>1, <1>3, <1>4, <2>1, NothingTyped DEF Presented
<1>8. QED
  BY <1>5, <1>6, <1>7 DEF Drive

\* A request is taken with the first beat of its message.
LEMMA TakeData ==
  ASSUME ~PartialBursts, Fitting, IInv, IInv', DInv, tmem' = tmem, Take,
         pc \in {"top", "waitA", "waitE"}, a_valid
  PROVE  BInv'
<1> USE DEF DInv, BInv
<1>1. a_ctl \in Control /\ Legal(a_ctl) /\ beat = 0
  BY DEF IInv, Link, Round
<1>2. Beats(a_ctl.size) \in Nat \ {0} /\ a_ctl.size \in Lens /\ Supported(a_ctl)
  BY <1>1, MessageBeats, LegalSupported DEF Control
<1>3. req' = a_ctl /\ d_size' = a_ctl.size /\ d_data' = d_data /\ beat' = 0
  BY <1>1 DEF Take, TakeGet, TakePut
<1>4. CASE TakeGet
  <2>1. pc' = "getW" /\ UNCHANGED <<databuf, d_opcode>>
    BY <1>2, <1>4 DEF TakeGet, Assert
  <2>2. QED
    BY <1>1, <1>2, <1>3, <2>1 DEF Bridge_Typing, Round, Fetched
<1>5. CASE TakePut
  <2>1. /\ a_ctl.opcode # Get /\ d_opcode' = AccessAck /\ databuf' = Store(a_ctl, 0, a_data)
        /\ pc' = IF a_ctl.opcode = PutFull THEN "putB" ELSE "parD"
    BY <1>2, <1>5 DEF TakePut, Assert, Get, PutFull, PutPartial
  <2>2. databuf' \in [Offset -> AnyByte]
    BY <2>1, StoreTyped DEF Presented, Bridge_Typing
  <2>3. pc' = "parD" => Beats(a_ctl.size) = 1
    BY <1>1, <1>5, <2>1, OneWord DEF TakePut
  <2>4. d_opcode' \in RespOpcode
    BY <2>1 DEF RespOpcode
  <2>5. QED
    BY <1>1, <1>2, <1>3, <2>1, <2>2, <2>3, <2>4 DEF Bridge_Typing, Round, Fetched
<1>6. QED
  BY <1>4, <1>5 DEF Take

LEMMA WaitData ==
  ASSUME IInv, DInv, tmem' = tmem, TopWait \/ WaitedIdle
  PROVE  BInv'
<1>1. /\ pc \in {"top", "waitA"} /\ pc' \in {"waitA", "waitE"}
      /\ UNCHANGED <<req, databuf, beat, d_opcode, d_size, d_data>>
  BY DEF TopWait, WaitedIdle, Head, bridgeVars, IInv, Idle
<1>2. QED
  BY <1>1 DEF DInv, BInv, Bridge_Typing, Round, Fetched

LEMMA GetData ==
  ASSUME ~PartialBursts, Fitting, IInv, DInv, tmem' = tmem,
         GetSend \/ GetStall \/ GetNext \/ GetLast \/ (pc = "tlmR" /\ InTlm)
  PROVE  BInv'
<1> USE DEF DInv, BInv
<1>1. CASE GetSend
  BY <1>1 DEF GetSend, Bridge_Typing, Round, Fetched
<1>2. CASE GetStall \/ (pc = "tlmR" /\ InTlm)
  <2>1. UNCHANGED <<pc, req, databuf, beat, d_opcode, d_size, d_data>>
    BY <1>2 DEF GetStall, InTlm, bridgeVars
  <2>2. QED
    BY <2>1 DEF Bridge_Typing, Round, Fetched
<1>3. CASE GetNext
  <2>1. /\ pc = "getD" /\ beat' = beat + 1 /\ beat + 1 < Beats(req.size)
        /\ d_data' = WordOf(databuf, beat + 1)
        /\ UNCHANGED <<pc, req, databuf, d_opcode, d_size>>
    BY <1>3 DEF GetNext
  <2>2. req \in Control /\ Legal(req) /\ beat + 1 \in Nat
    BY <2>1 DEF Bridge_Typing, Round
  <2>3. d_data' \in Word
    BY <2>1, <2>2, MessageRoom, WordTyped DEF Bridge_Typing
  <2>4. QED
    BY <2>1, <2>2, <2>3 DEF Bridge_Typing, Round, Fetched
<1>4. CASE GetLast
  <2>1. ~a_ready
    BY <1>4 DEF GetLast, IInv, Getting
  <2>2. /\ pc' \in {"waitA", "waitE"} /\ req' = NoControl /\ beat' = 0 /\ databuf' = NoData
        /\ d_data' = NoWord /\ UNCHANGED <<d_opcode, d_size>>
    BY <1>4, <2>1 DEF GetLast, Head, EndRound
  <2>3. Lens # {}
    BY DEF Bridge_Typing
  <2>4. QED
    BY <2>2, <2>3, NothingTyped DEF Bridge_Typing, Round, Fetched
<1>5. QED
  BY <1>1, <1>2, <1>3, <1>4

\* The beats of a PutFull.
LEMMA BurstData ==
  ASSUME ~PartialBursts, Fitting, IInv, DInv, tmem' = tmem, PutNext \/ PutPause
  PROVE  BInv'
<1> USE DEF DInv, BInv
<1>1. /\ pc \in {"putB", "putW"} /\ pc' \in {"putB", "putW"}
      /\ UNCHANGED <<req, d_opcode, d_size, d_data>>
      /\ beat' \in Nat /\ beat' < Beats(req.size)
  BY DEF PutNext, PutPause, Round
<1>2. databuf' \in [Offset -> AnyByte]
  BY StoreTyped DEF PutNext, PutPause, Presented, Bridge_Typing
<1>3. QED
  BY <1>1, <1>2 DEF Bridge_Typing, Round, Fetched

LEMMA CollectedData ==
  ASSUME IInv, DInv, tmem' = tmem,
         \/ PutCollected \/ PutAwaitAck \/ PutAcked \/ PartialAck \/ PutSend
         \/ pc = "tlmW" /\ InTlm
  PROVE  BInv'
<1>1. /\ pc \in {"putB", "putK", "putN", "putX", "parD", "tlmW"}
      /\ pc' \in {"putK", "putN", "putX", "parD", "tlmW"}
      /\ pc = "putB" => beat + 1 = Beats(req.size)
      /\ UNCHANGED <<req, databuf, beat, d_size, d_opcode, d_data>>
  BY DEF PutCollected, PutAwaitAck, PutAcked, PartialAck, PutSend, InTlm, bridgeVars
<1>2. QED
  BY <1>1 DEF DInv, BInv, Bridge_Typing, Round, Fetched

\* QEMU's answers.
LEMMA ReadReturnsData ==
  ASSUME ~PartialBursts, Fitting, IInv, DInv, ReadReturns("OK")
  PROVE  DInv'
<1> USE DEF DInv, BInv
<1>1. /\ pc = "tlmR" /\ pc' = "getD" /\ beat' = 0 /\ UNCHANGED <<req, d_size, tmem>>
      /\ d_opcode' = AccessAckData /\ d_data' = WordOf(databuf', 0)
      /\ databuf' = [k \in Offset |-> IF k < TlmLen(req) THEN tmem[TlmAddr(req) + k]
                                      ELSE databuf[k]]
      /\ UNCHANGED <<a_valid, a_ctl, a_data, msg, rbuf, got>>
  BY DEF ReadReturns, Assert, masterVars
<1>2. req \in Control /\ Legal(req) /\ req.opcode = Get
  BY <1>1 DEF Bridge_Typing, Round, IInv, Getting, Serves
<1>3. databuf' \in [Offset -> AnyByte]
  <2>1. \A k \in Offset : k < TlmLen(req) => TlmAddr(req) + k \in Address
    BY <1>2, ReadLayout
  <2>2. QED
    BY <1>1, <2>1 DEF Bridge_Typing
<1>4. /\ req.size \in Nat \ {0} /\ req.size <= MaxLen /\ Beats(req.size) \in Nat \ {0}
  BY <1>2, MessageRoom
<1>5. d_data' \in Word /\ d_opcode' \in RespOpcode
  BY <1>1, <1>3, <1>4, WordTyped DEF RespOpcode
<1>6. BInv'
  BY <1>1, <1>2, <1>3, <1>4, <1>5 DEF Bridge_Typing, Round, Fetched
<1>7. Presented'
  BY <1>1 DEF Presented
<1>8. QED
  BY <1>6, <1>7

LEMMA WriteReturnsData ==
  ASSUME Fitting, ~SubWordPartials, ~PartialBursts, IInv, DInv, WriteReturns("OK")
  PROVE  DInv'
<1> USE DEF DInv, BInv
<1>1. /\ pc = "tlmW" /\ ~a_ready
      /\ UNCHANGED <<d_opcode, d_size, d_data, a_valid, a_ctl, a_data, msg, rbuf, got>>
      /\ req' = NoControl /\ beat' = 0 /\ databuf' = NoData
  BY DEF WriteReturns, EndRound, masterVars, IInv, Putting
<1>2. pc' \in {"top", "waitA", "waitE"}
  BY <1>1 DEF WriteReturns, Assert, Head
<1>3. req \in Control /\ Legal(req) /\ req.opcode # Get
  BY <1>1 DEF Bridge_Typing, Round
<1>4. tmem' \in [Address -> AnyByte]
  <2>1. /\ TlmAddr(req) \in Nat /\ TlmLen(req) \in Nat /\ TlmLen(req) <= MaxLen
        /\ MaxLen \in Nat /\ MemSize \in Nat
    BY <1>3, WriteLayout, WholeWords
  <2>2. ASSUME NEW x \in Address, TlmAddr(req) <= x, x < TlmAddr(req) + TlmLen(req)
        PROVE  x - TlmAddr(req) \in Offset
    BY <2>1, <2>2 DEF Address, Offset
  <2>3. QED
    BY <2>2 DEF WriteReturns, Bridge_Typing
<1>5. Lens # {}
  BY DEF Bridge_Typing
<1>6. BInv'
  BY <1>1, <1>2, <1>4, <1>5, NothingTyped DEF Bridge_Typing, Round, Fetched
<1>7. Presented'
  BY <1>1 DEF Presented
<1>8. QED
  BY <1>6, <1>7

\* The master begins and ends a message.
LEMMA BeginData ==
  ASSUME ~PartialBursts, Fitting, IInv, DInv, NEW c \in Control, Begin(c)
  PROVE  DInv'
<1> USE DEF DInv, BInv
<1>1. /\ Legal(c) /\ got' = 0
      /\ UNCHANGED <<pc, req, databuf, beat, d_opcode, d_size, d_data, tmem>>
  BY DEF Begin, bridgeVars, IInv, Link
<1>2. BInv'
  BY <1>1 DEF Bridge_Typing, Round, Fetched
<1>3. PICK data \in Payload : msg' = MessageOf(c, data)
  BY DEF Begin
<1>4. msg'.ctl = c /\ msg' \in [ctl : Control, data : [Offset -> AnyByte]]
  <2>1. data \in [Offset -> Byte]
    BY TileLinkAssumption DEF Offset
  <2>2. QED
    BY <1>3, <2>1 DEF MessageOf, AnyByte
<1>5. c.size \in Nat \ {0} /\ c.size <= MaxLen /\ Beats(c.size) \in Nat \ {0}
  BY <1>1, MessageRoom
<1>6. Lens # {} /\ rbuf' = NoData
  BY DEF Begin, Bridge_Typing
<1>7. CASE Present(msg', 0)
  <2>1. a_ctl' = c /\ a_data' = WordOf(msg'.data, 0)
    BY <1>4, <1>7 DEF Present
  <2>2. a_data' \in Word
    BY <1>4, <1>5, <2>1, WordTyped
  <2>3. QED
    BY <1>1, <1>2, <1>4, <1>6, <2>1, <2>2, NothingTyped DEF Presented
<1>8. CASE Withhold
  BY <1>1, <1>2, <1>4, <1>6, <1>8, NothingTyped DEF Withhold, Presented
<1>9. QED
  BY <1>7, <1>8 DEF Begin

LEMMA FinishData ==
  ASSUME IInv, DInv, Finish
  PROVE  DInv'
<1> USE DEF DInv, BInv
<1>1. /\ UNCHANGED <<pc, req, databuf, beat, d_opcode, d_size, d_data, tmem, a_valid, a_ctl, a_data>>
      /\ msg' = NoMessage /\ rbuf' = NoData
  BY DEF Finish, bridgeVars
<1>2. ~a_valid
  BY InFlight DEF Finish, MessageDone, IInv, Link
<1>3. Lens # {}
  BY DEF Bridge_Typing
<1>4. QED
  BY <1>1, <1>2, <1>3, NothingTyped DEF Presented, Bridge_Typing, Round, Fetched, NoMessage

LEMMA InitData == Init => DInv
<1> SUFFICES ASSUME Init PROVE DInv
  OBVIOUS
<1>1. d_size \in Lens /\ d_opcode \in RespOpcode
  BY DEF Init, RespOpcode
<1>2. tmem \in [Address -> AnyByte]
  <2>1. tmem \in [Address -> Byte]
    BY TileLinkAssumption DEF Init, Address
  <2>2. QED
    BY <2>1 DEF AnyByte
<1>3. QED
  BY <1>1, <1>2, NothingTyped
  DEF Init, DInv, BInv, Presented, Bridge_Typing, Round, Fetched, NoMessage

LEMMA DataStep ==
  ASSUME ~SubWordPartials, ~PartialBursts, Responses \subseteq {"OK"}, Fitting,
         IInv, IInv', DInv, [Next]_vars
  PROVE  DInv'
<1>1. CASE Edge
  <2>1. Presented' /\ tmem' = tmem
    BY <1>1, MasterData DEF Edge
  <2>2. CASE TopTake \/ WaitedTake
    <3>1. Take /\ pc \in {"top", "waitA", "waitE"} /\ a_valid
      BY <2>2 DEF TopTake, WaitedTake, Head, IInv, Idle
    <3>2. QED
      BY <2>1, <3>1, TakeData DEF DInv
  <2>3. CASE TopWait \/ WaitedIdle
    BY <2>1, <2>3, WaitData DEF DInv
  <2>4. CASE GetSend \/ GetStall \/ GetNext \/ GetLast \/ (pc = "tlmR" /\ InTlm)
    BY <2>1, <2>4, GetData DEF DInv
  <2>5. CASE PutNext \/ PutPause
    BY <2>1, <2>5, BurstData DEF DInv
  <2>6. CASE \/ PutCollected \/ PutAwaitAck \/ PutAcked \/ PartialAck \/ PutSend
             \/ pc = "tlmW" /\ InTlm
    BY <2>1, <2>6, CollectedData DEF DInv
  <2>7. QED
    BY <1>1, <2>2, <2>3, <2>4, <2>5, <2>6 DEF Edge, Bridge, InTlm
<1>2. CASE \E response \in Responses : ReadReturns(response) \/ WriteReturns(response)
  BY <1>2, ReadReturnsData, WriteReturnsData
<1>3. CASE \E c \in Control : Begin(c)
  BY <1>3, BeginData
<1>4. CASE Finish
  BY <1>4, FinishData
<1>5. CASE UNCHANGED vars
  <2>1. UNCHANGED <<pc, req, databuf, beat, d_opcode, d_size, d_data, tmem,
                    a_valid, a_ctl, a_data, msg, rbuf, got>>
    BY <1>5 DEF vars, bridgeVars, masterVars
  <2>2. QED
    BY <2>1 DEF DInv, BInv, Presented, Bridge_Typing, Round, Fetched
<1>6. QED
  BY <1>1, <1>2, <1>3, <1>4, <1>5 DEF Next

\* The data array of processReq holds the beats it has taken or fetched, each at
\* its place, and the request it works on is the message the master has in flight.
THEOREM DataInvariance ==
  ASSUME ~BackToBack, ~SubWordPartials, ~PartialBursts, Responses \subseteq {"OK"}, Fitting
  PROVE  Spec => [](IInv /\ DInv)
<1>1. Init => IInv /\ DInv
  BY InitIInv, InitData
<1>2. IInv /\ DInv /\ [Next]_vars => (IInv /\ DInv)'
  <2>1. IInv /\ [Next]_vars => IInv'
    BY StepPreserves
  <2>2. QED
    BY <2>1, DataStep
<1>3. QED
  BY <1>1, <1>2, PTL DEF Spec

\* All the bridge and its master keep has its type; the counters stay below the
\* longest message.
THEOREM TypeCorrect ==
  ASSUME ~BackToBack, ~SubWordPartials, ~PartialBursts, Responses \subseteq {"OK"}, Fitting
  PROVE  Spec => []TypeOK
<1>1. ASSUME IInv, DInv PROVE TypeOK
  <2> USE <1>1 DEF IInv, DInv, BInv
  <2>1. MaxLen \in Nat \ {0}
    BY WholeWords
  <2>2. beat \in 0 .. MaxLen
    <3>1. req \in Control /\ beat \in Nat /\ beat < Beats(req.size)
      BY DEF Bridge_Typing, Round
    <3>2. req.size \in Nat \ {0} /\ Beats(req.size) \in Nat
      BY <3>1, MessageBeats
    <3>3. req.size \in 1 .. MaxLen
      BY <3>1, TL2TLMAssumption DEF Control
    <3>4. Beats(req.size) <= MaxLen
      BY <2>1, <3>2, <3>3, BeatRoom
    <3>5. QED
      BY <2>1, <3>1, <3>2, <3>4
  <2>3. got \in 0 .. MaxLen /\ sent \in 0 .. MaxLen
    <3>1. CASE ~active
      BY <2>1, <3>1 DEF Link
    <3>2. CASE active
      <4>1. /\ msg.ctl \in Control /\ Legal(msg.ctl) /\ got \in Nat /\ sent \in Nat
            /\ got <= ABeats(msg.ctl) /\ sent <= DBeats(msg.ctl)
        BY <3>2 DEF Link
      <4>2. msg.ctl.size \in Nat \ {0} /\ msg.ctl.size <= MaxLen /\ Beats(msg.ctl.size) \in Nat
        BY <4>1, MessageRoom
      <4>3. Beats(msg.ctl.size) <= msg.ctl.size
        BY <4>2, BeatRoom
      <4>4. ABeats(msg.ctl) \in Nat /\ DBeats(msg.ctl) \in Nat
        BY <4>2 DEF ABeats, DBeats
      <4>5. ABeats(msg.ctl) <= MaxLen /\ DBeats(msg.ctl) <= MaxLen
        BY <2>1, <4>2, <4>3 DEF ABeats, DBeats
      <4>6. QED
        BY <2>1, <4>1, <4>4, <4>5
    <3>3. QED
      BY <3>1, <3>2 DEF Link
  <2>4. pc \in PC /\ {a_ready, d_valid, a_valid, d_ready, active, pause} \subseteq BOOLEAN
    BY DEF Wires, Link
  <2>5. QED
    BY <2>2, <2>3, <2>4 DEF TypeOK, Presented, Bridge_Typing
<1>2. QED
  BY <1>1, DataInvariance, PTL

\* The write a Put ends in covers the bytes its mask enables, and no others, as
\* long as no PutPartial is shorter than a bus word.
THEOREM WritesCoverMask ==
  ASSUME ~BackToBack, ~SubWordPartials, ~PartialBursts, Responses \subseteq {"OK"}, Fitting
  PROVE  Spec => []WriteCoversMask
<1>1. ASSUME IInv, DInv, pc = "tlmW"
      PROVE  {x \in 0 .. MemSize + MaxLen : TlmAddr(req) <= x /\ x < TlmAddr(req) + TlmLen(req)}
               = {WordBase(req.addr) + k : k \in OffsetsOf(req)}
  <2>1. req \in Control /\ Legal(req) /\ req.opcode # Get
    BY <1>1 DEF DInv, BInv, Bridge_Typing, Round
  <2> DEFINE w == WordBase(req.addr)
             s == MaskShift(req)
             n == TlmLen(req)
             O == OffsetsOf(req)
  <2>2. /\ s \in Nat /\ n \in Nat /\ TlmAddr(req) = w + s /\ s + n <= MaxLen
        /\ O = {k \in Offset : s <= k /\ k < s + n}
    BY <2>1, WriteLayout
  <2>3. w \in Nat /\ w <= MemSize /\ MemSize \in Nat /\ MaxLen \in Nat
    <3>1. req.addr \in Address /\ Bus \in Nat /\ MemSize \in Nat /\ MaxLen \in Nat
      BY <2>1, WholeWords DEF Control
    <3>2. w \in Nat /\ w + Bus <= MemSize
      BY <3>1, WholeWords
    <3>3. QED
      BY <3>1, <3>2
  <2> HIDE DEF w, s, n, O
  <2>4. ASSUME NEW x \in 0 .. MemSize + MaxLen, w + s <= x, x < w + s + n
        PROVE  x \in {w + k : k \in O}
    <3>1. x - w \in O /\ x = w + (x - w)
      BY <2>2, <2>3, <2>4 DEF Offset
    <3>2. QED
      BY <3>1
  <2>5. ASSUME NEW k \in O
        PROVE  w + k \in 0 .. MemSize + MaxLen /\ w + s <= w + k /\ w + k < w + s + n
    BY <2>2, <2>3 DEF Offset
  <2>6. {x \in 0 .. MemSize + MaxLen : w + s <= x /\ x < w + s + n} = {w + k : k \in O}
    BY <2>4, <2>5
  <2>7. QED
    BY <2>2, <2>6 DEF w, n, O
<1>2. IInv /\ DInv => WriteCoversMask
  BY <1>1 DEF WriteCoversMask
<1>3. QED
  BY <1>2, DataInvariance, PTL

-----------------------------------------------------------------------------
(***************************************************************************)
(* The bridge is a memory service, although it acknowledges a Put before the *)
(* write is done: the bytes it holds back are part of the memory the master  *)
(* sees.                                                                     *)
(***************************************************************************)
LEMMA MovedSoFar ==
  ASSUME NEW c, NEW i \in Nat
  PROVE  {k \in OffsetsOf(c) : k < Bus * i} = Before(c, i)
<1>1. Bus * i = i * Bus
  BY WholeWords
<1>2. QED
  BY <1>1 DEF Before

\* With nothing held back the master sees QEMU's memory.
LEMMA NothingHeld ==
  ASSUME tmem \in [Address -> AnyByte],
         pc \notin {"putB", "putW", "putK", "putN", "putX", "parD", "tlmW"}
  PROVE  HeldBack = {} /\ SeenMemory = tmem
BY DEF HeldBack, SeenMemory

\* A beat that is stored is seen at once, and nothing else changes.
LEMMA SeenStored ==
  ASSUME ~PartialBursts, Fitting, NEW c \in Control, Legal(c), NEW i \in Nat, i < Beats(c.size), NEW data,
         req' = c, tmem' = tmem, databuf' = Store(c, i, WordOf(data, i)),
         HeldBack' = Before(c, i + 1),
         (i = 0 /\ HeldBack = {}) \/ (req = c /\ HeldBack = Before(c, i))
  PROVE  SeenMemory' = [x \in Address |-> IF x - WordBase(c.addr) \in BeatOf(c, i)
                                          THEN data[x - WordBase(c.addr)] ELSE SeenMemory[x]]
<1>1. Before(c, i + 1) = Before(c, i) \cup BeatOf(c, i) /\ Before(c, 0) = {}
  BY MovedByBeat, MovedByAll
<1>2. ASSUME NEW k \in BeatOf(c, i)
      PROVE  databuf'[k - MaskShift(c)] = data[k]
  <2>1. k \in OffsetsOf(c) /\ k \in Offset /\ k \div Bus = i
    BY DEF BeatOf, OffsetsOf
  <2>2. databuf'[k - MaskShift(c)] = WordOf(data, i)[k % Bus]
    BY <2>1, StoredBytes
  <2>3. QED
    BY <2>1, <2>2, ByteInWord
<1>3. ASSUME NEW k \in Before(c, i), k \notin BeatOf(c, i)
      PROVE  databuf'[k - MaskShift(c)] = databuf[k - MaskShift(c)]
  BY <1>3, StoredBytes DEF Before
<1>4. SeenMemory' = [x \in Address |-> IF x - WordBase(c.addr) \in Before(c, i + 1)
                                       THEN databuf'[x - WordBase(c.addr) - MaskShift(c)]
                                       ELSE tmem[x]]
  BY DEF SeenMemory
<1>5. SeenMemory = [x \in Address |-> IF x - WordBase(c.addr) \in Before(c, i)
                                      THEN databuf[x - WordBase(c.addr) - MaskShift(c)]
                                      ELSE tmem[x]]
  BY <1>1 DEF SeenMemory
<1>6. QED
  BY <1>1, <1>2, <1>3, <1>4, <1>5

\* A step the master cannot see.
LEMMA Unseen ==
  ASSUME SeenMemory' = SeenMemory, UNCHANGED <<active, msg>>,
         msg.ctl.opcode = Get => UNCHANGED <<rbuf, sent>>,
         msg.ctl.opcode # Get => UNCHANGED got
  PROVE  [Service!Next]_Service!vars
BY DEF Service!vars

LEMMA WriteMoves ==
  ASSUME ~PartialBursts, Fitting, IInv, active, UNCHANGED <<active, msg>>, msg.ctl.opcode # Get,
         got < Beats(msg.ctl.size), got' = got + 1,
         SeenMemory' = [x \in Address |->
                          IF x - WordBase(msg.ctl.addr) \in BeatOf(msg.ctl, got)
                          THEN msg.data[x - WordBase(msg.ctl.addr)] ELSE SeenMemory[x]]
  PROVE  Service!Next
<1>1. msg.ctl \in Control /\ Legal(msg.ctl) /\ got \in Nat /\ got + 1 \in Nat
  BY DEF IInv, Link
<1>2. PICK S \in SUBSET Offset : S = BeatOf(msg.ctl, got)
  BY DEF BeatOf, OffsetsOf
<1>3. /\ S # {} /\ S \subseteq OffsetsOf(msg.ctl) \ Before(msg.ctl, got)
      /\ Before(msg.ctl, got + 1) = Before(msg.ctl, got) \cup S
  BY <1>1, <1>2, MovedByBeat
<1>4. {k \in OffsetsOf(msg.ctl) : k < Bus * got} = Before(msg.ctl, got)
  BY <1>1, MovedSoFar
<1>5. {k \in OffsetsOf(msg.ctl) : k < Bus * (got + 1)} = Before(msg.ctl, got + 1)
  BY <1>1, MovedSoFar
<1>6. Service!Move(S)
  BY <1>2, <1>3, <1>4, <1>5 DEF Service!Move
<1>7. QED
  BY <1>2, <1>6 DEF Service!Next

LEMMA ReadMoves ==
  ASSUME ~PartialBursts, Fitting, IInv, active, UNCHANGED <<active, msg>>, msg.ctl.opcode = Get,
         sent < Beats(msg.ctl.size), sent' = sent + 1,
         SeenMemory' = SeenMemory,
         rbuf' = [k \in Offset |-> IF k \in BeatOf(msg.ctl, sent)
                                   THEN SeenMemory[WordBase(msg.ctl.addr) + k] ELSE rbuf[k]]
  PROVE  Service!Next
<1>1. msg.ctl \in Control /\ Legal(msg.ctl) /\ sent \in Nat /\ sent + 1 \in Nat
  BY DEF IInv, Link
<1>2. PICK S \in SUBSET Offset : S = BeatOf(msg.ctl, sent)
  BY DEF BeatOf, OffsetsOf
<1>3. /\ S # {} /\ S \subseteq OffsetsOf(msg.ctl) \ Before(msg.ctl, sent)
      /\ Before(msg.ctl, sent + 1) = Before(msg.ctl, sent) \cup S
  BY <1>1, <1>2, MovedByBeat
<1>4. {k \in OffsetsOf(msg.ctl) : k < Bus * sent} = Before(msg.ctl, sent)
  BY <1>1, MovedSoFar
<1>5. {k \in OffsetsOf(msg.ctl) : k < Bus * (sent + 1)} = Before(msg.ctl, sent + 1)
  BY <1>1, MovedSoFar
<1>6. Service!Move(S)
  BY <1>2, <1>3, <1>4, <1>5 DEF Service!Move
<1>7. QED
  BY <1>2, <1>6 DEF Service!Next

\* Without a handshake on a channel an edge leaves that side of the master alone.
LEMMA NoHandshake ==
  ASSUME IInv, DInv, Account
  PROVE  /\ ~AFire => got' = got
         /\ ~DFire => sent' = sent /\ rbuf' = rbuf
         /\ UNCHANGED <<active, msg>>
BY DEF Account, IInv, Link, DInv, Presented

LEMMA TakeServes ==
  ASSUME ~PartialBursts, Fitting, IInv, IInv', DInv, Account, tmem' = tmem, Take,
         pc \in {"top", "waitA", "waitE"}, a_valid
  PROVE  [Service!Next]_Service!vars
<1>1. /\ active /\ a_ready /\ ~d_valid /\ a_ctl = msg.ctl /\ got \in Nat /\ got < ABeats(msg.ctl)
      /\ a_data = WordOf(msg.data, got)
  BY DEF IInv, Link, Idle, DInv, Presented
<1>2. /\ msg.ctl \in Control /\ Legal(msg.ctl)
      /\ Beats(msg.ctl.size) \in Nat \ {0} /\ ABeats(msg.ctl) \in Nat
  BY <1>1, InFlight
<1>3. got = 0 /\ got' = 1
  BY <1>1, <1>2 DEF IInv, Idle, Fresh, MessageDone, Account, AFire
<1>4. UNCHANGED <<active, msg, rbuf, sent>>
  BY <1>1, NoHandshake DEF DFire
<1>5. HeldBack = {} /\ SeenMemory = tmem
  BY NothingHeld DEF DInv, BInv, Bridge_Typing
<1>6. Supported(a_ctl) /\ req' = msg.ctl
  BY <1>1, <1>2, LegalSupported DEF Take
<1>7. CASE TakeGet
  <2>1. pc' = "getW" /\ msg.ctl.opcode = Get
    BY <1>1, <1>6, <1>7 DEF TakeGet, Assert
  <2>2. SeenMemory' = tmem'
    <3>1. HeldBack' = {}
      BY <2>1 DEF HeldBack
    <3>2. tmem' \in [Address -> AnyByte]
      BY DEF DInv, BInv, Bridge_Typing
    <3>3. QED
      BY <3>1, <3>2 DEF SeenMemory
  <2>3. QED
    BY <1>4, <1>5, <2>1, <2>2, Unseen
<1>8. CASE TakePut
  <2>1. /\ pc' \in {"putB", "parD"} /\ beat' = 0 /\ msg.ctl.opcode # Get
        /\ databuf' = Store(msg.ctl, 0, WordOf(msg.data, 0))
    BY <1>1, <1>3, <1>6, <1>8 DEF TakePut, Assert, Get, PutFull, PutPartial
  <2>2. HeldBack' = Before(msg.ctl, 0 + 1)
    BY <1>6, <2>1 DEF HeldBack, Before
  <2>3. SeenMemory' = [x \in Address |-> IF x - WordBase(msg.ctl.addr) \in BeatOf(msg.ctl, 0)
                                         THEN msg.data[x - WordBase(msg.ctl.addr)]
                                         ELSE SeenMemory[x]]
    <3>1. 0 < Beats(msg.ctl.size) /\ 0 \in Nat
      BY <1>2
    <3>2. QED
      BY <1>2, <1>5, <1>6, <2>1, <2>2, <3>1, SeenStored
  <2>4. QED
    BY <1>1, <1>2, <1>3, <1>4, <2>1, <2>3, WriteMoves
<1>9. QED
  BY <1>7, <1>8 DEF Take

\* Nothing is held back, and nothing is transferred.
LEMMA WaitServes ==
  ASSUME IInv, IInv', DInv, DInv', Account, tmem' = tmem,
         TopWait \/ WaitedIdle \/ (pc \in {"getW", "tlmR"} /\ pc' = "tlmR")
  PROVE  [Service!Next]_Service!vars
<1>1. /\ ~d_valid /\ ~AFire /\ pc \in {"top", "waitA", "getW", "tlmR"}
      /\ pc' \in {"waitA", "waitE", "tlmR"}
  BY DEF TopWait, WaitedIdle, Head, bridgeVars, IInv, Idle, Getting, AFire
<1>2. UNCHANGED <<active, msg, got, sent, rbuf>>
  BY <1>1, NoHandshake DEF DFire
<1>3. SeenMemory = tmem
  BY <1>1, NothingHeld DEF DInv, BInv, Bridge_Typing
<1>4. SeenMemory' = tmem'
  <2>1. HeldBack' = {}
    BY <1>1 DEF HeldBack
  <2>2. tmem' \in [Address -> AnyByte]
    BY DEF DInv, BInv, Bridge_Typing
  <2>3. QED
    BY <2>1, <2>2 DEF SeenMemory
<1>5. QED
  BY <1>2, <1>3, <1>4, Unseen

\* A beat of the answer to a Get.
LEMMA AnswerServes ==
  ASSUME ~PartialBursts, Fitting, IInv, IInv', DInv, DInv', Account, tmem' = tmem,
         GetStall \/ GetNext \/ GetLast
  PROVE  [Service!Next]_Service!vars
<1>1. pc = "getD"
  BY DEF GetStall, GetNext, GetLast
<1>2. /\ active /\ msg.ctl = req /\ req.opcode = Get /\ sent = beat /\ d_valid /\ ~a_ready
      /\ beat \in Nat /\ beat < Beats(req.size)
  BY <1>1 DEF IInv, Getting, Serves
<1>3. pc' \in {"getD", "waitA", "waitE"}
  BY <1>1, <1>2 DEF GetStall, GetNext, GetLast, Head, bridgeVars
<1>4. SeenMemory = tmem
  BY <1>1, NothingHeld DEF DInv, BInv, Bridge_Typing
<1>5. SeenMemory' = tmem'
  <2>1. HeldBack' = {}
    BY <1>3 DEF HeldBack
  <2>2. tmem' \in [Address -> AnyByte]
    BY DEF DInv, BInv, Bridge_Typing
  <2>3. QED
    BY <2>1, <2>2 DEF SeenMemory
<1>6. CASE d_ready
  <2>1. sent' = sent + 1 /\ UNCHANGED <<active, msg>>
    BY <1>2, <1>6 DEF Account, DFire
  <2>2. req \in Control /\ Legal(req)
    BY <1>1 DEF DInv, BInv, Bridge_Typing, Round
  <2>3. ASSUME NEW k \in OffsetsOf(req), k \div Bus = sent
        PROVE  d_data[k % Bus] = tmem[WordBase(req.addr) + k]
    <3>1. k \in Offset
      BY DEF OffsetsOf
    <3>2. d_data = WordOf(databuf, beat) /\ (k < TlmLen(req) => databuf[k] = tmem[TlmAddr(req) + k])
      BY <1>1, <3>1 DEF DInv, BInv, Fetched
    <3>3. k < TlmLen(req) /\ TlmAddr(req) = WordBase(req.addr)
      BY <1>2, <2>2, ReadLayout
    <3>4. d_data[k % Bus] = databuf[k]
      BY <1>2, <2>3, <3>1, <3>2, ByteInWord
    <3>5. QED
      BY <3>2, <3>3, <3>4
  <2>4. rbuf' = [k \in Offset |-> IF k \in BeatOf(msg.ctl, sent)
                                  THEN SeenMemory[WordBase(msg.ctl.addr) + k] ELSE rbuf[k]]
    <3>1. rbuf' = [k \in Offset |-> IF k \in BeatOf(req, sent) THEN d_data[k % Bus] ELSE rbuf[k]]
      BY <1>2, <1>6 DEF Account, DFire, BeatOf
    <3>2. \A k \in BeatOf(req, sent) : d_data[k % Bus] = tmem[WordBase(req.addr) + k]
      BY <2>3 DEF BeatOf
    <3>3. QED
      BY <1>2, <1>4, <3>1, <3>2
  <2>5. QED
    BY <1>2, <1>4, <1>5, <2>1, <2>4, ReadMoves
<1>7. CASE ~d_ready
  BY <1>2, <1>4, <1>5, <1>7, NoHandshake, Unseen DEF DFire
<1>8. QED
  BY <1>6, <1>7 DEF IInv, Link

\* A beat of a burst, or a pause in it.
LEMMA BurstServes ==
  ASSUME ~PartialBursts, Fitting, IInv, DInv, Account, tmem' = tmem, PutNext \/ PutPause
  PROVE  [Service!Next]_Service!vars
<1> DEFINE b == IF pc = "putB" THEN beat + 1 ELSE beat
<1>1. /\ active /\ a_ready /\ msg.ctl = req /\ req.opcode = PutFull /\ got = b
      /\ beat \in Nat /\ b \in Nat /\ b < Beats(req.size) /\ b > 0
      /\ pc \in {"putB", "putW"} /\ beat' = b /\ UNCHANGED req
  <2>1. CASE PutNext
    BY <2>1 DEF PutNext, IInv, Putting, Serves
  <2>2. CASE PutPause
    BY <2>2 DEF PutPause, IInv, Putting, Serves
  <2>3. QED
    BY <2>1, <2>2
<1>2. req \in Control /\ Legal(req) /\ req.opcode # Get
  BY <1>1 DEF DInv, BInv, Bridge_Typing, Round
<1>3. HeldBack = Before(req, b)
  BY <1>1 DEF HeldBack, Before
<1>4. UNCHANGED <<active, msg>>
  BY DEF Account
<1> HIDE DEF b
<1>5. CASE a_valid
  <2>1. got' = got + 1 /\ a_data = WordOf(msg.data, got)
    BY <1>1, <1>5 DEF Account, AFire, DInv, Presented
  <2>2. pc' = "putB" /\ databuf' = Store(req, b, WordOf(msg.data, b))
    BY <1>1, <1>5, <2>1 DEF PutNext, PutPause, b
  <2>3. HeldBack' = Before(req, b + 1)
    BY <1>1, <2>2 DEF HeldBack, Before
  <2>4. SeenMemory' = [x \in Address |-> IF x - WordBase(req.addr) \in BeatOf(req, b)
                                         THEN msg.data[x - WordBase(req.addr)]
                                         ELSE SeenMemory[x]]
    BY <1>1, <1>2, <1>3, <2>2, <2>3, SeenStored
  <2>5. QED
    BY <1>1, <1>2, <1>4, <2>1, <2>4, WriteMoves
<1>6. CASE ~a_valid
  <2>1. got' = got
    BY <1>6, NoHandshake DEF AFire
  <2>2. pc' = "putW" /\ databuf' = databuf
    BY <1>6 DEF PutNext, PutPause
  <2>3. HeldBack' = Before(req, b)
    BY <1>1, <2>2 DEF HeldBack, Before
  <2>4. SeenMemory' = SeenMemory
    BY <1>1, <1>3, <2>2, <2>3 DEF SeenMemory
  <2>5. QED
    BY <1>1, <1>2, <1>4, <2>1, <2>4, Unseen
<1>7. QED
  BY <1>5, <1>6 DEF IInv, Link

\* Everything is here: answers are still taken, but no data moves.
LEMMA CollectedServes ==
  ASSUME IInv, DInv, Account, tmem' = tmem,
         \/ PutCollected \/ PutAwaitAck \/ PutAcked \/ PartialAck \/ PutSend
         \/ pc = "tlmW" /\ InTlm
  PROVE  [Service!Next]_Service!vars
<1>1. /\ pc \in {"putB", "putK", "putN", "putX", "parD", "tlmW"}
      /\ pc' \in {"putK", "putN", "putX", "parD", "tlmW"}
      /\ pc = "putB" => beat + 1 = Beats(req.size)
      /\ UNCHANGED <<req, databuf, beat>>
  BY DEF PutCollected, PutAwaitAck, PutAcked, PartialAck, PutSend, InTlm, bridgeVars
<1>2. SeenMemory' = SeenMemory
  BY <1>1 DEF SeenMemory, HeldBack
<1>3. ~AFire
  <2>1. HandshakeIsTaken
    BY Handshake
  <2>2. ~Takes
    <3>1. beat \in Nat /\ Beats(req.size) \in Nat
      BY MessageBeats DEF DInv, BInv, Bridge_Typing, Round
    <3>2. QED
      BY <1>1, <3>1 DEF Takes
  <2>3. QED
    BY <2>1, <2>2 DEF HandshakeIsTaken
<1>4. DFire => msg.ctl.opcode # Get
  BY <1>1 DEF DFire, IInv, Putting, Serves, Get, PutFull, PutPartial
<1>5. QED
  BY <1>2, <1>3, <1>4, NoHandshake, Unseen

\* QEMU has the write: what was held back is in its memory.
LEMMA WriteReturnsServes ==
  ASSUME Fitting, ~SubWordPartials, ~PartialBursts, IInv, DInv, WriteReturns("OK")
  PROVE  [Service!Next]_Service!vars
<1>1. /\ pc = "tlmW" /\ ~a_ready
      /\ UNCHANGED <<active, msg, got, sent, rbuf>>
  BY DEF WriteReturns, masterVars, IInv, Putting
<1>2. pc' \in {"top", "waitA", "waitE"}
  BY <1>1 DEF WriteReturns, Assert, Head
<1>3. req \in Control /\ Legal(req) /\ req.opcode # Get /\ beat + 1 = Beats(req.size)
  BY <1>1 DEF DInv, BInv, Bridge_Typing, Round
<1>4. HeldBack = OffsetsOf(req)
  <2>1. HeldBack = Before(req, beat + 1)
    BY <1>1 DEF HeldBack, Before
  <2>2. QED
    BY <1>3, <2>1, MovedByAll
<1> DEFINE w == WordBase(req.addr)
           s == MaskShift(req)
           n == TlmLen(req)
<1>5. /\ s \in Nat /\ n \in Nat /\ TlmAddr(req) = w + s /\ s + n <= MaxLen
      /\ OffsetsOf(req) = {k \in Offset : s <= k /\ k < s + n}
      /\ w \in Nat /\ MaxLen \in Nat /\ MemSize \in Nat
  BY <1>3, WriteLayout, WholeWords DEF Control
<1>6. SeenMemory = [x \in Address |-> IF x - w \in OffsetsOf(req) THEN databuf[x - w - s]
                                      ELSE tmem[x]]
  BY <1>4 DEF SeenMemory
<1>7. tmem' = [x \in Address |-> IF w + s <= x /\ x < w + s + n THEN databuf[x - (w + s)]
                                 ELSE tmem[x]]
  BY <1>5 DEF WriteReturns
<1> HIDE DEF w, s, n
<1>8. \A x \in Address : /\ x - w \in OffsetsOf(req) <=> w + s <= x /\ x < w + s + n
                         /\ x - w - s = x - (w + s)
  BY <1>5 DEF Address, Offset
<1>9. SeenMemory = tmem'
  BY <1>6, <1>7, <1>8
<1>10. SeenMemory' = tmem'
  <2>1. HeldBack' = {}
    BY <1>2 DEF HeldBack
  <2>2. tmem' = [x \in Address |-> tmem'[x]]
    BY <1>7
  <2>3. QED
    BY <2>1, <2>2 DEF SeenMemory
<1>11. QED
  BY <1>1, <1>9, <1>10, Unseen

LEMMA ReadReturnsServes ==
  ASSUME IInv, DInv, ReadReturns("OK")
  PROVE  [Service!Next]_Service!vars
<1>1. /\ pc = "tlmR" /\ pc' = "getD" /\ tmem' = tmem
      /\ UNCHANGED <<active, msg, got, sent, rbuf>>
  BY DEF ReadReturns, Assert, masterVars
<1>2. tmem \in [Address -> AnyByte]
  BY DEF DInv, BInv, Bridge_Typing
<1>3. SeenMemory = tmem
  BY <1>1, <1>2, NothingHeld
<1>4. SeenMemory' = tmem
  <2>1. HeldBack' = {}
    BY <1>1 DEF HeldBack
  <2>2. QED
    BY <1>1, <1>2, <2>1 DEF SeenMemory
<1>5. QED
  BY <1>1, <1>3, <1>4, Unseen

\* The access of a message.
LEMMA MessageAccess ==
  ASSUME NEW c \in Control
  PROVE  [cmd |-> IF c.opcode = Get THEN "READ" ELSE "WRITE",
          addr |-> WordBase(c.addr), offsets |-> OffsetsOf(c)]
           \in {[cmd |-> IF d.opcode = Get THEN "READ" ELSE "WRITE",
                 addr |-> WordBase(d.addr), offsets |-> OffsetsOf(d)] : d \in Control}
OBVIOUS

LEMMA BeginServes ==
  ASSUME ~PartialBursts, Fitting, IInv, IInv', DInv, DInv', NEW c \in Control, Begin(c)
  PROVE  Service!Next
<1>1. /\ ~active /\ active' = TRUE /\ Legal(c) /\ got' = 0 /\ sent' = 0
      /\ UNCHANGED <<pc, req, databuf, beat, tmem>>
  BY DEF Begin, bridgeVars, IInv, Link
<1>2. SeenMemory' = SeenMemory
  BY <1>1 DEF SeenMemory, HeldBack
<1>3. msg'.ctl = c
  BY DEF Begin, MessageOf
<1>4. rbuf' \in [Offset -> AnyByte] /\ msg'.data \in [Offset -> AnyByte]
  BY DEF DInv, Presented
<1>5. {k \in OffsetsOf(c) : k < Bus * 0} = {}
  BY <1>1, MovedSoFar, MovedByAll
<1>6. Service!Issue
  BY <1>1, <1>2, <1>3, <1>4, <1>5, MessageAccess DEF Service!Issue
<1>7. QED
  BY <1>6 DEF Service!Next

LEMMA FinishServes ==
  ASSUME ~PartialBursts, Fitting, IInv, DInv, DInv', Finish
  PROVE  Service!Next
<1>1. /\ active /\ active' = FALSE /\ got' = 0 /\ sent' = 0 /\ MessageDone
      /\ msg' = NoMessage /\ rbuf' = NoData
      /\ UNCHANGED <<pc, req, databuf, beat, tmem>>
  BY DEF Finish, bridgeVars
<1>2. SeenMemory' = SeenMemory
  BY <1>1 DEF SeenMemory, HeldBack
<1>3. msg.ctl \in Control /\ Legal(msg.ctl) /\ Beats(msg.ctl.size) \in Nat
  BY <1>1, InFlight
<1>4. IF msg.ctl.opcode = Get THEN sent = Beats(msg.ctl.size) ELSE got = Beats(msg.ctl.size)
  BY <1>1 DEF MessageDone, ABeats, DBeats
<1>5. {k \in OffsetsOf(msg.ctl) : k < Bus * (IF msg.ctl.opcode = Get THEN sent ELSE got)}
        = OffsetsOf(msg.ctl)
  BY <1>3, <1>4, MovedSoFar, MovedByAll
<1>6. NoControl \in Control /\ NoData \in [Offset -> AnyByte]
  BY NothingTyped DEF DInv, BInv, Bridge_Typing
<1>7. {k \in OffsetsOf(NoControl) : k < Bus * 0} = {}
  <2>1. \A k \in Offset : k >= 0
    BY DEF Offset
  <2>2. Bus * 0 = 0 /\ OffsetsOf(NoControl) \subseteq Offset
    BY WholeWords DEF OffsetsOf
  <2>3. \A k \in Offset : ~(k < 0)
    BY DEF Offset
  <2>4. QED
    BY <2>2, <2>3
<1>8. msg'.ctl = NoControl /\ NoControl.opcode = Get
  BY <1>1 DEF NoMessage, NoControl
<1>9. Service!Complete
  BY <1>1, <1>2, <1>5, <1>6, <1>7, <1>8, MessageAccess DEF Service!Complete
<1>10. QED
  BY <1>9 DEF Service!Next

LEMMA InitServes == Init => Service!Init
<1> SUFFICES ASSUME Init PROVE Service!Init
  OBVIOUS
<1>1. DInv
  BY InitData
<1>2. /\ pc = "top" /\ active = FALSE /\ got = 0 /\ sent = 0 /\ msg = NoMessage /\ rbuf = NoData
  BY DEF Init
<1>3. tmem \in [Address -> AnyByte] /\ Lens # {}
  BY <1>1 DEF DInv, BInv, Bridge_Typing
<1>4. SeenMemory = tmem
  BY <1>2, <1>3, NothingHeld
<1>5. NoControl \in Control /\ NoData \in [Offset -> AnyByte]
  BY <1>3, NothingTyped
<1>6. {k \in OffsetsOf(NoControl) : k < Bus * 0} = {}
  <2>1. Bus * 0 = 0 /\ OffsetsOf(NoControl) \subseteq Offset
    BY WholeWords DEF OffsetsOf
  <2>2. \A k \in Offset : ~(k < 0)
    BY DEF Offset
  <2>3. QED
    BY <2>1, <2>2
<1>7. msg.ctl = NoControl /\ NoControl.opcode = Get
  BY <1>2 DEF NoMessage, NoControl
<1>8. QED
  BY <1>2, <1>3, <1>4, <1>5, <1>6, <1>7, MessageAccess DEF Service!Init

LEMMA StepServes ==
  ASSUME ~SubWordPartials, ~PartialBursts, Responses \subseteq {"OK"}, Fitting,
         IInv, IInv', DInv, DInv', [Next]_vars
  PROVE  [Service!Next]_Service!vars
<1>1. CASE Edge
  <2>1. Account /\ tmem' = tmem
    BY <1>1 DEF Edge
  <2>2. CASE TopTake \/ WaitedTake
    <3>1. Take /\ pc \in {"top", "waitA", "waitE"} /\ a_valid
      BY <2>2 DEF TopTake, WaitedTake, Head, IInv, Idle
    <3>2. QED
      BY <2>1, <3>1, TakeServes
  <2>3. CASE TopWait \/ WaitedIdle \/ GetSend \/ (pc = "tlmR" /\ InTlm)
    <3>1. TopWait \/ WaitedIdle \/ (pc \in {"getW", "tlmR"} /\ pc' = "tlmR")
      BY <2>3 DEF GetSend, InTlm, bridgeVars
    <3>2. QED
      BY <2>1, <3>1, WaitServes
  <2>4. CASE GetStall \/ GetNext \/ GetLast
    BY <2>1, <2>4, AnswerServes
  <2>5. CASE PutNext \/ PutPause
    BY <2>1, <2>5, BurstServes
  <2>6. CASE \/ PutCollected \/ PutAwaitAck \/ PutAcked \/ PartialAck \/ PutSend
             \/ pc = "tlmW" /\ InTlm
    BY <2>1, <2>6, CollectedServes
  <2>7. QED
    BY <1>1, <2>2, <2>3, <2>4, <2>5, <2>6 DEF Edge, Bridge, InTlm
<1>2. CASE \E response \in Responses : ReadReturns(response) \/ WriteReturns(response)
  BY <1>2, ReadReturnsServes, WriteReturnsServes
<1>3. CASE \E c \in Control : Begin(c)
  BY <1>3, BeginServes
<1>4. CASE Finish
  BY <1>4, FinishServes
<1>5. CASE UNCHANGED vars
  <2>1. UNCHANGED <<pc, req, databuf, beat, tmem, active, msg, got, sent, rbuf>>
    BY <1>5 DEF vars, bridgeVars, masterVars
  <2>2. SeenMemory' = SeenMemory
    BY <2>1 DEF SeenMemory, HeldBack
  <2>3. QED
    BY <2>1, <2>2, Unseen
<1>6. QED
  BY <1>1, <1>2, <1>3, <1>4, <1>5 DEF Next

\* To a master whose PutPartials are whole words, and that leaves a cycle idle
\* after a burst, the bridge is the memory service: its messages move every byte
\* once, to and from their own addresses, and a Get sees every Put before it,
\* the acknowledged but unwritten ones included.  Of a PutPartial of several beats
\* only the first is stored, one of less than a word goes to the wrong address.
THEOREM Refinement ==
  ASSUME ~BackToBack, ~SubWordPartials, ~PartialBursts, Responses \subseteq {"OK"}, Fitting
  PROVE  Spec => ImplementsService
<1>1. Init => Service!Init
  BY InitServes
<1>2. (IInv /\ DInv) /\ (IInv /\ DInv)' /\ [Next]_vars => [Service!Next]_Service!vars
  BY StepServes
<1>3. QED
  BY <1>1, <1>2, DataInvariance, PTL DEF Spec, ImplementsService, Service!Spec
===============================================================================
