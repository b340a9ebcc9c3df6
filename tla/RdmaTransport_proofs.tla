----------------------- MODULE RdmaTransport_proofs -----------------------
(***************************************************************************)
(* Proofs about the transport on one path: for flows, chunks, windows and  *)
(* networks of every size, the two ends agree, and the transport implements*)
(* what Delivery promises.                                                 *)
(***************************************************************************)
EXTENDS RdmaTransport, Library_proofs

Expected == RxQp.expected

(* Packets end within the flow, which bounds the receiver's counters.      *)
Fitting == {d \in Data : d.seq + d.size <= FlowSize}

(* AckedIsDelivered, with what is said of an answer said of the channel's  *)
(* type; the acknowledged mark is always one the rounding leaves alone, so *)
(* that the receiver's going back does not undercut it.                    *)
Covered(e) == {a \in Answer : RoundDown(a.seq) <= e}
AnswersCovered ==
    /\ RoundDown(qp.snd_una) = qp.snd_una
    /\ qp.active => qp.snd_una <= Expected /\ answers \in Seq(Covered(Expected))

(* The bytes taken are all those before some offset, which is the          *)
(* receiver's next byte or, after it went back or was created anew, lies   *)
(* beyond it.                                                              *)
TakenBefore(h) ==
    /\ taken = 0 .. h - 1
    /\ Expected <= h
    /\ ~ qp.active => h = FlowSize

TransportInv ==
    /\ TransportTypeOK
    /\ data \in Seq(Fitting)
    /\ AnswersCovered
    /\ \E h \in Offsets : TakenBefore(h)

-----------------------------------------------------------------------------
(* Rounding down to a chunk: of offsets to offsets, no larger, and keeping *)
(* the order between a rounded and any other one.                          *)

LEMMA Quotient ==
    ASSUME NEW c \in Nat \ {0}, NEW x \in Nat
    PROVE  x \div c \in Nat /\ (x \div c) * c <= x /\ x < (x \div c) * c + c
  OBVIOUS

LEMMA MultipleBelow ==
    ASSUME NEW c \in Nat \ {0}, NEW m \in Nat, NEW n \in Nat, NEW y \in Nat,
           m * c <= y, y < n * c + c
    PROVE  m * c <= n * c
<1>1. m <= n
  <2>. SUFFICES ASSUME m >= n + 1 PROVE FALSE
    OBVIOUS
  <2>1. m * c >= (n + 1) * c
    OBVIOUS
  <2>. QED  BY <2>1
<1>. QED  BY <1>1

LEMMA RoundDownBelow ==
    ASSUME NEW x \in Offsets
    PROVE  RoundDown(x) \in Offsets /\ RoundDown(x) <= x
<1>1. x \div Chunk \in Nat /\ (x \div Chunk) * Chunk <= x /\ x < (x \div Chunk) * Chunk + Chunk
  BY Quotient, TransportAssumption DEF Offsets
<1>2. (x \div Chunk) * Chunk \in Nat
  BY <1>1, TransportAssumption
<1>. QED  BY <1>1, <1>2, TransportAssumption DEF RoundDown, Offsets

LEMMA RoundDownKeeps ==
    ASSUME NEW x \in Offsets, NEW y \in Offsets, RoundDown(x) <= y
    PROVE  RoundDown(x) <= RoundDown(y)
<1>1. CASE BackToZero
  <2>1. x \div Chunk \in Nat
    BY Quotient, TransportAssumption DEF Offsets
  <2>2. y \div Chunk \in Nat /\ y < (y \div Chunk) * Chunk + Chunk
    BY Quotient, TransportAssumption DEF Offsets
  <2>. QED  BY <1>1, <2>1, <2>2, MultipleBelow, TransportAssumption DEF RoundDown, Offsets
<1>2. CASE ~ BackToZero
  BY <1>2 DEF RoundDown
<1>. QED  BY <1>1, <1>2

LEMMA RoundDownTwice ==
    ASSUME NEW x \in Offsets PROVE RoundDown(RoundDown(x)) = RoundDown(x)
<1>1. RoundDown(x) \in Offsets /\ RoundDown(RoundDown(x)) \in Offsets
      /\ RoundDown(RoundDown(x)) <= RoundDown(x)
  BY RoundDownBelow
<1>2. RoundDown(x) <= RoundDown(RoundDown(x))
  BY <1>1, RoundDownKeeps DEF Offsets
<1>. QED  BY <1>1, <1>2 DEF Offsets

-----------------------------------------------------------------------------
LEMMA RxQpType == ASSUME TransportTypeOK PROVE RxQp \in Receiver
<1>1. NewRxQp \in Receiver
  BY TransportAssumption DEF NewRxQp, Receiver, Offsets
<1>. QED  BY <1>1 DEF RxQp, TransportTypeOK

(* The receiver, given a packet that fits: its counters stay within the    *)
(* flow, its answer is covered, and what covered an answer or a rounded    *)
(* mark before still does.                                                 *)
LEMMA ReceiverSteps ==
    ASSUME NEW r \in Receiver, NEW pkt \in Fitting
    PROVE  /\ AfterPacket(r, pkt) \in Receiver
           /\ AnswerTo(r, pkt) \in Seq(Covered(AfterPacket(r, pkt).expected))
           /\ \A x \in Offsets :
                 RoundDown(x) <= r.expected => RoundDown(x) <= AfterPacket(r, pkt).expected
<1>. USE TransportAssumption DEF Receiver, Fitting, Data, Offsets
<1>1. CASE InOrder(r, pkt)
  <2>. DEFINE e == r.expected + pkt.size
  <2>1. AfterPacket(r, pkt) = [r EXCEPT !.expected = e]
    BY <1>1 DEF AfterPacket, Taken
  <2>2. e \in Offsets /\ e >= r.expected
    BY <1>1 DEF InOrder
  <2>3. AfterPacket(r, pkt) \in Receiver /\ AfterPacket(r, pkt).expected = e
    BY <2>1, <2>2
  <2>4. [kind |-> "ack", seq |-> e] \in Covered(e)
    BY <2>2, RoundDownBelow DEF Covered, Answer
  <2>5. AnswerTo(r, pkt) = <<[kind |-> "ack", seq |-> e]>> \/ AnswerTo(r, pkt) = <<>>
    BY <1>1, <2>3 DEF AnswerTo
  <2>6. \A x \in Offsets : RoundDown(x) <= r.expected => RoundDown(x) <= e
    BY <2>2, RoundDownBelow
  <2>. HIDE DEF e
  <2>7. <<[kind |-> "ack", seq |-> e]>> \in Seq(Covered(e)) /\ <<>> \in Seq(Covered(e))
    BY ONLY <2>4
  <2>8. AnswerTo(r, pkt) \in Seq(Covered(e))
    BY ONLY <2>5, <2>7
  <2>. QED  BY <2>3, <2>6, <2>8
<1>2. CASE ~ InOrder(r, pkt) /\ NackDue(r, pkt)
  <2>. DEFINE e == RoundDown(r.expected)
  <2>1. AfterPacket(r, pkt) = [expected |-> e, lastNACK |-> r.expected, nackTimer |-> TRUE]
    BY <1>2 DEF AfterPacket, Nacked
  <2>2. e \in Offsets /\ RoundDown(e) = e
    BY RoundDownBelow, RoundDownTwice
  <2>3. AfterPacket(r, pkt) \in Receiver /\ AfterPacket(r, pkt).expected = e
    BY <2>1, <2>2
  <2>4. [kind |-> "nack", seq |-> e] \in Covered(e)
    BY <2>2 DEF Covered, Answer
  <2>5. AnswerTo(r, pkt) = <<[kind |-> "nack", seq |-> e]>>
    BY <1>2, <2>3 DEF AnswerTo
  <2>6. \A x \in Offsets : RoundDown(x) <= r.expected => RoundDown(x) <= e
    BY RoundDownKeeps
  <2>. HIDE DEF e
  <2>7. AnswerTo(r, pkt) \in Seq(Covered(e))
    BY <2>4, <2>5
  <2>. QED  BY <2>3, <2>6, <2>7
<1>3. CASE ~ InOrder(r, pkt) /\ ~ NackDue(r, pkt)
  BY <1>3 DEF AfterPacket, AnswerTo
<1>. QED  BY <1>1, <1>2, <1>3

-----------------------------------------------------------------------------
LEMMA SendSteps == ASSUME TransportInv, Send PROVE TransportInv'
<1>. DEFINE size == IF Mtu < BytesLeft THEN Mtu ELSE BytesLeft
            pkt  == [seq |-> qp.snd_nxt, size |-> size]
<1>1. qp \in Sender
  BY DEF TransportInv, TransportTypeOK
<1>2. size \in 1 .. Mtu /\ qp.snd_nxt + size <= FlowSize
  BY <1>1, TransportAssumption DEF Send, CanSend, BytesLeft, Sender, Offsets
<1>. HIDE DEF size
<1>3. pkt \in Fitting /\ qp.snd_nxt + size \in Offsets
  BY <1>1, <1>2, TransportAssumption DEF Fitting, Data, Sender, Offsets
<1>. HIDE DEF pkt
<1>4. data' = Append(data, pkt) /\ qp' = [qp EXCEPT !.snd_nxt = @ + size]
      /\ UNCHANGED <<rx, answers, lost, taken>>
  BY DEF Send, size, pkt
<1>5. data' \in Seq(Fitting)
  BY <1>3, <1>4, AppendProperties DEF TransportInv
<1>6. data' \in Seq(Data)
  BY <1>5, SeqMonotone DEF Fitting
<1>7. qp' \in Sender /\ qp'.snd_una = qp.snd_una /\ qp'.active = qp.active
  BY <1>1, <1>3, <1>4 DEF Sender
<1>. QED  BY <1>4, <1>5, <1>6, <1>7
          DEF TransportInv, TransportTypeOK, AnswersCovered, TakenBefore, Expected, RxQp

(* What a packet adds to the bytes taken: all up to a later offset, if it  *)
(* is in order.                                                            *)
LEMMA TakenSteps ==
    ASSUME NEW r \in Receiver, NEW pkt \in Fitting, NEW h \in Offsets,
           taken = 0 .. h - 1, r.expected <= h
    PROVE  \E g \in Offsets : /\ taken \cup Bytes(r, pkt) = 0 .. g - 1
                              /\ h <= g /\ AfterPacket(r, pkt).expected <= g
<1>. USE TransportAssumption DEF Receiver, Fitting, Data, Offsets
<1>1. CASE InOrder(r, pkt)
  <2>. DEFINE e == r.expected + pkt.size
              g == IF e > h THEN e ELSE h
  <2>1. AfterPacket(r, pkt).expected = e
    BY <1>1 DEF AfterPacket, Taken
  <2>2. Bytes(r, pkt) = r.expected .. e - 1 /\ e \in Offsets
    BY <1>1 DEF Bytes, InOrder
  <2>3. taken \cup Bytes(r, pkt) = 0 .. g - 1 /\ g \in Offsets
    BY <2>2
  <2>. QED  BY <2>1, <2>2, <2>3
<1>2. CASE ~ InOrder(r, pkt)
  <2>1. Bytes(r, pkt) = {}
    BY <1>2 DEF Bytes
  <2>2. AfterPacket(r, pkt).expected <= h
    <3>1. AfterPacket(r, pkt).expected \in {RoundDown(r.expected), r.expected}
      BY <1>2 DEF AfterPacket, Nacked
    <3>2. RoundDown(r.expected) \in Offsets /\ RoundDown(r.expected) <= r.expected
      BY RoundDownBelow
    <3>. QED  BY <3>1, <3>2
  <2>. QED  BY <2>1, <2>2
<1>. QED  BY <1>1, <1>2

LEMMA ReceiveUdpSteps == ASSUME TransportInv, ReceiveUdp PROVE TransportInv'
<1>1. PICK k \in Arriving(data) :
          /\ rx' = AfterPacket(RxQp, data[k])
          /\ answers' = answers \o AnswerTo(RxQp, data[k])
          /\ data' = RemoveAt(data, k)
          /\ taken' = taken \cup Bytes(RxQp, data[k])
  BY DEF ReceiveUdp
<1>. DEFINE r   == RxQp
            pkt == data[k]
            r2  == AfterPacket(r, pkt)
            ans == AnswerTo(r, pkt)
<1>2. UNCHANGED <<qp, lost>>
  BY DEF ReceiveUdp
<1>3. k \in DOMAIN data
  BY DEF Arriving
<1>4. r \in Receiver /\ pkt \in Fitting
  BY <1>3, RxQpType DEF TransportInv
<1>5. /\ r2 \in Receiver /\ ans \in Seq(Covered(r2.expected))
      /\ \A x \in Offsets : RoundDown(x) <= r.expected => RoundDown(x) <= r2.expected
  BY <1>4, ReceiverSteps
<1>6. PICK h \in Offsets : TakenBefore(h)
  BY DEF TransportInv
<1>7. \E g \in Offsets : taken' = 0 .. g - 1 /\ h <= g /\ r2.expected <= g
  BY <1>1, <1>4, <1>6, TakenSteps DEF TakenBefore, Expected
<1>. HIDE DEF r2, ans
<1>8. rx' = r2 /\ answers' = answers \o ans /\ data' = RemoveAt(data, k)
  BY <1>1 DEF r2, ans
<1>9. RxQp' = r2
  BY <1>5, <1>8, NoQpAssumption DEF RxQp
<1>10. data' \in Seq(Fitting)
  BY <1>3, <1>8, RemoveAtType DEF TransportInv
<1>11. data' \in Seq(Data)
  BY <1>10, SeqMonotone DEF Fitting
<1>12. answers' \in Seq(Answer)
  <2>1. ans \in Seq(Answer)
    BY <1>5, SeqMonotone DEF Covered
  <2>. QED  BY <1>8, <2>1, ConcatType DEF TransportInv, TransportTypeOK
<1>13. qp \in Sender
  BY DEF TransportInv, TransportTypeOK
<1>14. AnswersCovered'
  <2>. SUFFICES ASSUME qp.active
                PROVE  qp.snd_una <= r2.expected /\ answers' \in Seq(Covered(r2.expected))
    BY <1>2, <1>9 DEF AnswersCovered, Expected, TransportInv
  <2>1. qp.snd_una <= r.expected /\ answers \in Seq(Covered(r.expected))
        /\ RoundDown(qp.snd_una) = qp.snd_una
    BY DEF TransportInv, AnswersCovered, Expected
  <2>2. qp.snd_una <= r2.expected
    BY <2>1, <1>5, <1>13 DEF Sender
  <2>3. Covered(r.expected) \subseteq Covered(r2.expected)
    BY <1>5 DEF Covered, Answer
  <2>. QED  BY <2>1, <2>2, <2>3, <1>5, <1>8, SeqMonotone, ConcatType
<1>15. \E g \in Offsets : TakenBefore(g)'
  <2>1. PICK g \in Offsets : taken' = 0 .. g - 1 /\ h <= g /\ r2.expected <= g
    BY <1>7
  <2>2. ~ qp.active => g = FlowSize
    BY <2>1, <1>6 DEF TakenBefore, Offsets
  <2>. QED  BY <2>1, <2>2, <1>2, <1>9 DEF TakenBefore, Expected
<1>16. taken' \subseteq Offsets
  BY <1>7, TransportAssumption DEF Offsets
<1>. QED  BY <1>2, <1>5, <1>8, <1>10, <1>11, <1>12, <1>13, <1>14, <1>15, <1>16
          DEF TransportInv, TransportTypeOK

LEMMA NackTimerSteps == ASSUME TransportInv, NackTimerExpires PROVE TransportInv'
<1>1. rx \in Receiver /\ rx # NoQp
  BY DEF TransportInv, TransportTypeOK, NackTimerExpires
<1>2. rx' = [rx EXCEPT !.nackTimer = FALSE] /\ UNCHANGED <<qp, data, answers, lost, taken>>
  BY DEF NackTimerExpires
<1>3. rx' \in Receiver /\ rx'.expected = rx.expected
  BY <1>1, <1>2 DEF Receiver
<1>4. Expected' = Expected
  BY <1>1, <1>3, NoQpAssumption DEF Expected, RxQp
<1>. QED  BY <1>2, <1>3, <1>4 DEF TransportInv, TransportTypeOK, AnswersCovered, TakenBefore

(* An acknowledgement leaves the mark or moves it to a rounded one that    *)
(* the answer covers.                                                      *)
LEMMA AckedType ==
    ASSUME TransportInv, NEW a \in Answer
    PROVE  /\ Acked(a) \in Sender /\ Acked(a).active = qp.active
           /\ RoundDown(Acked(a).snd_una) = Acked(a).snd_una
           /\ Acked(a).snd_una = qp.snd_una \/ Acked(a).snd_una = RoundDown(a.seq)
<1>1. qp \in Sender /\ RoundDown(qp.snd_una) = qp.snd_una
  BY DEF TransportInv, TransportTypeOK, AnswersCovered
<1>2. RoundDown(a.seq) \in Offsets /\ RoundDown(RoundDown(a.seq)) = RoundDown(a.seq)
  BY RoundDownBelow, RoundDownTwice DEF Answer
<1>3. Acked(a) = qp \/ Acked(a) = [qp EXCEPT !.snd_una = RoundDown(a.seq)]
  <2>1. CASE AckInterval = 0 \/ ~ RoundDown(a.seq) > qp.snd_una
    BY <1>1, <2>1 DEF Acked, Acknowledge, Sender
  <2>2. CASE AckInterval # 0 /\ RoundDown(a.seq) > qp.snd_una
    BY <1>1, <2>2 DEF Acked, Acknowledge, Sender
  <2>. QED  BY <2>1, <2>2
<1>. QED  BY <1>1, <1>2, <1>3 DEF Sender

(* What the sender has been told has been taken; in particular all of it,  *)
(* when it finishes.                                                       *)
LEMMA AckedTaken ==
    ASSUME TransportInv, qp.active, NEW k \in DOMAIN answers
    PROVE  /\ answers[k] \in Answer
           /\ Acked(answers[k]).snd_una <= Expected
           /\ Finishes(answers[k]) => TakenBefore(FlowSize)
<1>. DEFINE a == answers[k]
<1>1. a \in Answer /\ RoundDown(a.seq) <= Expected /\ qp.snd_una <= Expected
  BY DEF TransportInv, TransportTypeOK, AnswersCovered, Covered
<1>. HIDE DEF a
<1>2. Acked(a).snd_una <= Expected /\ Acked(a) \in Sender
  BY <1>1, AckedType
<1>3. ASSUME Finishes(a) PROVE TakenBefore(FlowSize)
  <2>1. PICK h \in Offsets : TakenBefore(h)
    BY DEF TransportInv
  <2>2. RxQp \in Receiver
    BY RxQpType DEF TransportInv
  <2>3. h = FlowSize
    BY <1>2, <1>3, <2>1, <2>2, TransportAssumption
       DEF TakenBefore, Finishes, Expected, Receiver, Sender, Offsets
  <2>. QED  BY <2>1, <2>3
<1>. QED  BY <1>1, <1>2, <1>3 DEF a

LEMMA ReceiveAckSteps == ASSUME TransportInv, ReceiveAck PROVE TransportInv'
<1>1. PICK k \in Arriving(answers) :
          LET a == answers[k]
              q == [Acked(a) EXCEPT !.active = ~ Finishes(a)]
          IN  /\ answers' = RemoveAt(answers, k)
              /\ IF qp.active
                 THEN /\ qp' = IF a.kind = "nack" THEN RecoverQueue(q) ELSE q
                      /\ rx' = IF Finishes(a) THEN NoQp ELSE rx
                 ELSE UNCHANGED <<qp, rx>>
  BY DEF ReceiveAck
<1>. DEFINE a == answers[k]
            q == [Acked(a) EXCEPT !.active = ~ Finishes(a)]
<1>2. k \in DOMAIN answers /\ UNCHANGED <<data, lost, taken>>
  BY DEF Arriving, ReceiveAck
<1>3. answers' = RemoveAt(answers, k) /\ answers' \in Seq(Answer)
  BY <1>1, <1>2, RemoveAtType DEF TransportInv, TransportTypeOK
<1>4. CASE ~ qp.active
  BY <1>1, <1>2, <1>3, <1>4
     DEF TransportInv, TransportTypeOK, AnswersCovered, TakenBefore, Expected, RxQp
<1>5. CASE qp.active
  <2>1. a \in Answer /\ Acked(a).snd_una <= Expected /\ (Finishes(a) => TakenBefore(FlowSize))
    BY <1>2, <1>5, AckedTaken
  <2>. HIDE DEF a
  <2>2. Acked(a) \in Sender /\ RoundDown(Acked(a).snd_una) = Acked(a).snd_una
    BY <2>1, AckedType
  <2>3. /\ qp' = IF a.kind = "nack" THEN RecoverQueue(q) ELSE q
        /\ rx' = IF Finishes(a) THEN NoQp ELSE rx
    BY <1>1, <1>5 DEF a
  <2>4. Finishes(a) \in BOOLEAN
    BY DEF Finishes
  <2>5. q \in Sender /\ q.snd_una = Acked(a).snd_una /\ q.active = ~ Finishes(a)
    BY <2>2, <2>4 DEF Sender
  <2>. HIDE DEF q
  <2>6. RecoverQueue(q) \in Sender /\ RecoverQueue(q).snd_una = q.snd_una
        /\ RecoverQueue(q).active = q.active
    BY <2>5 DEF RecoverQueue, Sender
  <2>7. qp' \in Sender /\ qp'.snd_una = Acked(a).snd_una /\ qp'.active = ~ Finishes(a)
    BY <2>3, <2>5, <2>6
  <2>8. CASE Finishes(a)
    <3>1. rx' = NoQp /\ Expected' = 0 /\ ~ qp'.active
      BY <2>3, <2>7, <2>8 DEF Expected, RxQp, NewRxQp
    <3>2. TakenBefore(FlowSize)' /\ FlowSize \in Offsets
      BY <3>1, <2>1, <2>8, <1>2, TransportAssumption DEF TakenBefore, Offsets
    <3>. QED  BY <3>1, <3>2, <2>2, <2>7, <1>2, <1>3
              DEF TransportInv, TransportTypeOK, AnswersCovered
  <2>9. CASE ~ Finishes(a)
    <3>1. rx' = rx /\ Expected' = Expected /\ qp'.active
      BY <2>3, <2>7, <2>9 DEF Expected, RxQp
    <3>2. \E h \in Offsets : TakenBefore(h)'
      BY <3>1, <1>2 DEF TransportInv, TakenBefore
    <3>3. answers' \in Seq(Covered(Expected))
      BY <1>2, <1>3, <1>5, RemoveAtType DEF TransportInv, AnswersCovered
    <3>. QED  BY <3>1, <3>2, <3>3, <2>1, <2>2, <2>7, <1>2, <1>3
              DEF TransportInv, TransportTypeOK, AnswersCovered
  <2>. QED  BY <2>8, <2>9
<1>. QED  BY <1>4, <1>5

LEMMA LoseSteps == ASSUME TransportInv, Lose PROVE TransportInv'
<1>1. lost' \in 0 .. MaxLost /\ UNCHANGED <<qp, rx, taken>>
  BY TransportAssumption DEF Lose, TransportInv, TransportTypeOK
<1>2. CASE \E k \in DOMAIN data : data' = RemoveAt(data, k) /\ UNCHANGED answers
  <2>1. data' \in Seq(Fitting)
    BY <1>2, RemoveAtType DEF TransportInv
  <2>2. data' \in Seq(Data)
    BY <2>1, SeqMonotone DEF Fitting
  <2>. QED  BY <1>1, <1>2, <2>1, <2>2
            DEF TransportInv, TransportTypeOK, AnswersCovered, TakenBefore, Expected, RxQp
<1>3. CASE \E k \in DOMAIN answers : answers' = RemoveAt(answers, k) /\ UNCHANGED data
  <2>1. answers' \in Seq(Answer)
    BY <1>3, RemoveAtType DEF TransportInv, TransportTypeOK
  <2>2. qp.active => answers' \in Seq(Covered(Expected))
    BY <1>3, RemoveAtType DEF TransportInv, AnswersCovered
  <2>. QED  BY <1>1, <1>3, <2>1, <2>2
            DEF TransportInv, TransportTypeOK, AnswersCovered, TakenBefore, Expected, RxQp
<1>. QED  BY <1>2, <1>3 DEF Lose

-----------------------------------------------------------------------------
LEMMA TransportInductive == TransportInv /\ [TransportNext]_transportVars => TransportInv'
<1>. SUFFICES ASSUME TransportInv, [TransportNext]_transportVars
              PROVE  TransportInv'
  OBVIOUS
<1>1. CASE Send
  BY <1>1, SendSteps
<1>2. CASE ReceiveUdp
  BY <1>2, ReceiveUdpSteps
<1>3. CASE NackTimerExpires
  BY <1>3, NackTimerSteps
<1>4. CASE ReceiveAck
  BY <1>4, ReceiveAckSteps
<1>5. CASE Lose
  BY <1>5, LoseSteps
<1>6. CASE UNCHANGED transportVars
  BY <1>6 DEF transportVars, TransportInv, TransportTypeOK, AnswersCovered, TakenBefore,
              Expected, RxQp
<1>. QED  BY <1>1, <1>2, <1>3, <1>4, <1>5, <1>6 DEF TransportNext

(* In every reachable state the bytes taken have no gap, packets end within*)
(* the flow, and answers claim no more than the receiver still has, even   *)
(* when it goes back to the start of a chunk.                              *)
THEOREM TransportInvariant == TransportSpec => []TransportInv
<1>1. TransportInit => TransportInv
  <2>. SUFFICES ASSUME TransportInit PROVE TransportInv
    OBVIOUS
  <2>1. 0 \in Offsets /\ Expected = 0
    BY TransportAssumption DEF TransportInit, Offsets, Expected, RxQp, NewRxQp
  <2>2. TransportTypeOK
    BY <2>1, TransportAssumption DEF TransportInit, TransportTypeOK, Sender
  <2>3. RoundDown(0) = 0
    BY <2>1, RoundDownBelow DEF Offsets
  <2>4. AnswersCovered
    BY <2>1, <2>3 DEF TransportInit, AnswersCovered
  <2>5. TakenBefore(0)
    BY <2>1 DEF TransportInit, TakenBefore
  <2>. QED  BY <2>1, <2>2, <2>4, <2>5 DEF TransportInit, TransportInv
<1>. QED  BY <1>1, TransportInductive, PTL DEF TransportSpec

(* TransportTypeOK holds for every size of flow, packet, chunk and window. *)
THEOREM TransportTypes == TransportSpec => []TransportTypeOK
<1>1. TransportInv => TransportTypeOK
  BY DEF TransportInv
<1>. QED  BY <1>1, TransportInvariant, PTL

(* AckedIsDelivered holds: an active sender never runs ahead of a receiver *)
(* that goes back.                                                         *)
THEOREM TransportAgrees == TransportSpec => []AckedIsDelivered
<1>1. TransportInv => AckedIsDelivered
  <2>. SUFFICES ASSUME TransportInv, qp.active, NEW k \in DOMAIN answers
                PROVE  qp.snd_una <= Expected /\ RoundDown(answers[k].seq) <= Expected
    BY DEF AckedIsDelivered, TransportInv, AnswersCovered, Expected
  <2>1. answers[k] \in Covered(Expected)
    BY DEF TransportInv, AnswersCovered
  <2>. QED  BY <2>1 DEF TransportInv, AnswersCovered, Covered
<1>. QED  BY <1>1, TransportInvariant, PTL

(* ImplementsDelivery holds: the transport is an implementation of         *)
(* Delivery.  A packet in order takes bytes, the answer that finishes the  *)
(* flow reports, and nothing else changes what Delivery sees.              *)
THEOREM TransportImplements == TransportSpec => ImplementsDelivery
<1>1. TransportInit => Promise!DeliveryInit
  BY DEF TransportInit, Promise!DeliveryInit
<1>2. ASSUME TransportInv, [TransportNext]_transportVars
      PROVE  [Promise!Take \/ Promise!Report]_Promise!deliveryVars
  <2>1. CASE ReceiveUdp
    <3>1. PICK k \in DOMAIN data : taken' = taken \cup Bytes(RxQp, data[k])
      BY <2>1 DEF ReceiveUdp, Arriving
    <3>2. data[k] \in Fitting /\ RxQp \in Receiver
      BY <1>2, <3>1, RxQpType DEF TransportInv
    <3>3. PICK h \in Offsets : TakenBefore(h)
      BY <1>2 DEF TransportInv
    <3>4. PICK g \in Offsets : taken' = 0 .. g - 1 /\ h <= g
      BY <3>1, <3>2, <3>3, TakenSteps DEF TakenBefore, Expected
    <3>5. UNCHANGED qp
      BY <2>1 DEF ReceiveUdp
    <3>6. CASE h = g
      BY <3>3, <3>4, <3>5, <3>6 DEF TakenBefore, Promise!deliveryVars
    <3>7. CASE h < g
      <4>1. g \in 1 .. FlowSize /\ h \in 0 .. g - 1
        BY <3>7, TransportAssumption DEF Offsets
      <4>. QED  BY <3>3, <3>4, <3>5, <4>1 DEF TakenBefore, Promise!Take
    <3>. QED  BY <3>4, <3>6, <3>7 DEF Offsets
  <2>2. CASE ReceiveAck
    <3>1. UNCHANGED taken
      BY <2>2 DEF ReceiveAck
    <3>2. CASE (~ qp.active)' = ~ qp.active
      BY <3>1, <3>2 DEF Promise!deliveryVars
    <3>3. CASE (~ qp.active)' # ~ qp.active
      <4>1. PICK k \in DOMAIN answers :
               LET a == answers[k]
                   q == [Acked(a) EXCEPT !.active = ~ Finishes(a)]
               IN  IF qp.active THEN qp' = IF a.kind = "nack" THEN RecoverQueue(q) ELSE q
                                ELSE UNCHANGED qp
        BY <2>2 DEF ReceiveAck, Arriving
      <4>2. qp.active /\ answers[k] \in Answer
        BY <1>2, <3>3, <4>1 DEF TransportInv, TransportTypeOK
      <4>3. Acked(answers[k]) \in Sender /\ Finishes(answers[k]) \in BOOLEAN
        BY <1>2, <4>2, AckedType DEF Finishes
      <4>4. qp'.active = ~ Finishes(answers[k])
        BY <4>1, <4>2, <4>3 DEF RecoverQueue, Sender
      <4>5. Finishes(answers[k])
        BY <3>3, <4>2, <4>4
      <4>6. taken = 0 .. FlowSize - 1
        BY <1>2, <4>1, <4>2, <4>5, AckedTaken DEF TakenBefore
      <4>. QED  BY <3>1, <4>2, <4>4, <4>5, <4>6 DEF Promise!Report
    <3>. QED  BY <3>2, <3>3
  <2>3. CASE Send
    <3>1. qp'.active = qp.active /\ UNCHANGED taken
      BY <2>3, <1>2 DEF Send, TransportInv, TransportTypeOK, Sender
    <3>. QED  BY <3>1 DEF Promise!deliveryVars
  <2>4. CASE NackTimerExpires \/ Lose \/ UNCHANGED transportVars
    <3>1. UNCHANGED <<qp, taken>>
      BY <2>4 DEF NackTimerExpires, Lose, transportVars
    <3>. QED  BY <3>1 DEF Promise!deliveryVars
  <2>. QED  BY <1>2, <2>1, <2>2, <2>3, <2>4 DEF TransportNext
<1>. QED  BY <1>1, <1>2, TransportInvariant, PTL
          DEF TransportSpec, ImplementsDelivery, Promise!DeliverySpec

-----------------------------------------------------------------------------
(* NoStraddling: everything either end counts to, and every packet, starts *)
(* at the start of a full packet of the flow or at its end.                *)

(* With L2BackToZero, chunks are made of full packets (the configurations  *)
(* have chunks of four).  Otherwise the receiver, having gone back to the  *)
(* middle of what was a packet, is sent packets that begin elsewhere.      *)
ChunksOfPackets == BackToZero => \E m \in Nat : Chunk = m * Mtu

Boundaries == {x \in Offsets : x = FlowSize \/ \E m \in Nat : x = m * Mtu}
Whole      == {d \in Data : /\ d.seq \in Boundaries
                            /\ d.seq + d.size = IF d.seq + Mtu < FlowSize THEN d.seq + Mtu ELSE FlowSize}
OnBoundary == {a \in Answer : a.seq \in Boundaries}

BoundaryInv ==
    /\ qp.snd_nxt \in Boundaries /\ qp.snd_una \in Boundaries
    /\ Expected \in Boundaries
    /\ data \in Seq(Whole) /\ answers \in Seq(OnBoundary)

LEMMA NextMultiple == ASSUME NEW m \in Nat PROVE m * Mtu + Mtu = (m + 1) * Mtu /\ m * Mtu \in Nat
  BY TransportAssumption

LEMMA MultiplesInOrder ==
    ASSUME NEW m \in Nat, NEW n \in Nat, n <= m
    PROVE  n * Mtu <= m * Mtu /\ n * Mtu \in Nat /\ m * Mtu \in Nat
<1>1. PICK j \in Nat : m = n + j
  BY m - n \in Nat
<1>2. m * Mtu = n * Mtu + j * Mtu /\ j * Mtu \in Nat /\ n * Mtu \in Nat
  BY <1>1, TransportAssumption
<1>. QED  BY <1>2

LEMMA ZeroIsBoundary == 0 \in Boundaries
<1>1. 0 = 0 * Mtu /\ 0 \in Offsets
  BY TransportAssumption DEF Offsets
<1>. QED  BY <1>1 DEF Boundaries

(* A packet ends where the next may begin.                                 *)
LEMMA WholeEnds == ASSUME NEW d \in Whole PROVE d.seq + d.size \in Boundaries
<1>1. d.seq \in Offsets /\ d.size \in 1 .. Mtu /\ d.seq \in Boundaries
      /\ d.seq + d.size = IF d.seq + Mtu < FlowSize THEN d.seq + Mtu ELSE FlowSize
  BY DEF Whole, Data
<1>2. CASE d.seq + Mtu < FlowSize
  <2>1. PICK m \in Nat : d.seq = m * Mtu
    BY <1>1, <1>2, TransportAssumption DEF Boundaries, Offsets
  <2>2. d.seq + Mtu = (m + 1) * Mtu /\ m + 1 \in Nat
    BY <2>1, NextMultiple
  <2>3. d.seq + Mtu \in Offsets
    BY <1>1, <1>2, TransportAssumption DEF Offsets
  <2>. QED  BY <1>1, <1>2, <2>2, <2>3 DEF Boundaries
<1>3. CASE ~ (d.seq + Mtu < FlowSize)
  BY <1>1, <1>3, TransportAssumption DEF Boundaries, Offsets
<1>. QED  BY <1>2, <1>3

(* No boundary lies inside a packet.                                       *)
LEMMA WholeOrAhead ==
    ASSUME NEW d \in Whole, NEW e \in Boundaries
    PROVE  d.seq + d.size <= e \/ d.seq >= e
<1>1. d.seq \in Offsets /\ d.size \in 1 .. Mtu /\ d.seq \in Boundaries /\ e \in Offsets
      /\ d.seq + d.size = IF d.seq + Mtu < FlowSize THEN d.seq + Mtu ELSE FlowSize
  BY DEF Whole, Data, Boundaries
<1>2. d.seq < FlowSize
  BY <1>1, TransportAssumption DEF Offsets
<1>3. CASE e = FlowSize
  BY <1>1, <1>3, TransportAssumption DEF Offsets
<1>4. CASE e # FlowSize
  <2>1. PICK n \in Nat : e = n * Mtu
    BY <1>4 DEF Boundaries
  <2>2. PICK m \in Nat : d.seq = m * Mtu
    BY <1>1, <1>2, TransportAssumption DEF Boundaries, Offsets
  <2>3. CASE n <= m
    BY <2>1, <2>2, <2>3, MultiplesInOrder
  <2>4. CASE m + 1 <= n
    <3>1. (m + 1) * Mtu <= n * Mtu
      BY <2>4, MultiplesInOrder
    <3>2. d.seq + Mtu <= e
      BY <3>1, <2>1, <2>2, NextMultiple, TransportAssumption
    <3>. QED  BY <3>2, <1>1, TransportAssumption DEF Offsets
  <2>. QED  BY <2>3, <2>4
<1>. QED  BY <1>3, <1>4

LEMMA RoundDownToBoundary ==
    ASSUME ChunksOfPackets, NEW x \in Boundaries PROVE RoundDown(x) \in Boundaries
<1>1. x \in Offsets
  BY DEF Boundaries
<1>2. RoundDown(x) \in Offsets
  BY <1>1, RoundDownBelow
<1>3. CASE ~ BackToZero
  BY <1>3 DEF RoundDown
<1>4. CASE BackToZero
  <2>1. PICK m \in Nat : Chunk = m * Mtu
    BY <1>4 DEF ChunksOfPackets
  <2>2. x \div Chunk \in Nat
    BY <1>1, Quotient, TransportAssumption DEF Offsets
  <2>. DEFINE q == x \div Chunk
  <2>3. q \in Nat
    BY <2>2
  <2>. HIDE DEF q
  <2>4. q * (m * Mtu) = (q * m) * Mtu /\ q * m \in Nat
    BY <2>3, TransportAssumption
  <2>5. RoundDown(x) = q * Chunk
    BY <1>4 DEF RoundDown, q
  <2>. QED  BY <1>2, <2>1, <2>4, <2>5 DEF Boundaries
<1>. QED  BY <1>3, <1>4

LEMMA SendKeepsBoundaries ==
    ASSUME TransportInv, BoundaryInv, Send PROVE BoundaryInv'
<1>. DEFINE size == IF Mtu < BytesLeft THEN Mtu ELSE BytesLeft
            pkt  == [seq |-> qp.snd_nxt, size |-> size]
<1>1. qp \in Sender /\ qp.snd_nxt \in Offsets /\ qp.snd_nxt \in Boundaries
  BY DEF TransportInv, TransportTypeOK, BoundaryInv, Boundaries
<1>2. /\ size \in 1 .. Mtu
      /\ qp.snd_nxt + size = IF qp.snd_nxt + Mtu < FlowSize THEN qp.snd_nxt + Mtu ELSE FlowSize
  BY <1>1, TransportAssumption DEF Send, CanSend, BytesLeft, Offsets
<1>. HIDE DEF size
<1>3. pkt \in Whole
  BY <1>1, <1>2 DEF Whole, Data
<1>4. qp.snd_nxt + size \in Boundaries
  BY <1>3, WholeEnds
<1>. HIDE DEF pkt
<1>5. data' = Append(data, pkt) /\ qp' = [qp EXCEPT !.snd_nxt = @ + size]
      /\ UNCHANGED <<rx, answers, lost, taken>>
  BY DEF Send, size, pkt
<1>6. data' \in Seq(Whole)
  BY <1>3, <1>5, AppendProperties DEF BoundaryInv
<1>7. qp'.snd_nxt = qp.snd_nxt + size /\ qp'.snd_una = qp.snd_una
  BY <1>1, <1>5 DEF Sender
<1>. QED  BY <1>4, <1>5, <1>6, <1>7 DEF BoundaryInv, Expected, RxQp

(* The receiver counts from boundary to boundary, and answers with them.   *)
LEMMA ReceiverOnBoundary ==
    ASSUME ChunksOfPackets, NEW r \in Receiver, r.expected \in Boundaries, NEW pkt \in Whole
    PROVE  /\ AfterPacket(r, pkt).expected \in Boundaries
           /\ \A k \in DOMAIN AnswerTo(r, pkt) :
                 AnswerTo(r, pkt)[k].seq = AfterPacket(r, pkt).expected
<1>1. AfterPacket(r, pkt).expected \in Boundaries
  <2>1. CASE InOrder(r, pkt)
    <3>1. AfterPacket(r, pkt).expected = pkt.seq + pkt.size
      BY <2>1 DEF AfterPacket, Taken, InOrder, Receiver
    <3>. QED  BY <3>1, WholeEnds
  <2>2. CASE ~ InOrder(r, pkt)
    <3>1. AfterPacket(r, pkt).expected \in {RoundDown(r.expected), r.expected}
      BY <2>2 DEF AfterPacket, Nacked
    <3>. QED  BY <3>1, RoundDownToBoundary
  <2>. QED  BY <2>1, <2>2
<1>2. ASSUME NEW k \in DOMAIN AnswerTo(r, pkt)
      PROVE  AnswerTo(r, pkt)[k].seq = AfterPacket(r, pkt).expected
  BY <1>2 DEF AnswerTo
<1>. QED  BY <1>1, <1>2

LEMMA ReceiveUdpKeepsBoundaries ==
    ASSUME ChunksOfPackets, TransportInv, BoundaryInv, ReceiveUdp PROVE BoundaryInv'
<1>1. PICK k \in Arriving(data) :
          /\ rx' = AfterPacket(RxQp, data[k])
          /\ answers' = answers \o AnswerTo(RxQp, data[k])
          /\ data' = RemoveAt(data, k)
  BY DEF ReceiveUdp
<1>. DEFINE r2  == AfterPacket(RxQp, data[k])
            ans == AnswerTo(RxQp, data[k])
<1>2. k \in DOMAIN data /\ UNCHANGED qp
  BY DEF Arriving, ReceiveUdp
<1>3. RxQp \in Receiver /\ data[k] \in Fitting /\ data[k] \in Whole /\ RxQp.expected \in Boundaries
  BY <1>2, RxQpType DEF TransportInv, BoundaryInv, Expected
<1>4. r2 \in Receiver /\ ans \in Seq(Covered(r2.expected))
  BY <1>3, ReceiverSteps
<1>5. r2.expected \in Boundaries /\ \A j \in DOMAIN ans : ans[j].seq = r2.expected
  BY <1>3, ReceiverOnBoundary
<1>. HIDE DEF r2, ans
<1>6. ans \in Seq(OnBoundary)
  <2>1. \A j \in DOMAIN ans : ans[j] \in OnBoundary
    BY <1>4, <1>5 DEF OnBoundary, Covered
  <2>. QED  BY <1>4, <2>1
<1>7. rx' = r2 /\ answers' = answers \o ans /\ data' = RemoveAt(data, k)
  BY <1>1 DEF r2, ans
<1>8. Expected' = r2.expected
  BY <1>4, <1>7, NoQpAssumption DEF Expected, RxQp
<1>9. data' \in Seq(Whole)
  BY <1>2, <1>7, RemoveAtType DEF BoundaryInv
<1>10. answers' \in Seq(OnBoundary)
  BY <1>6, <1>7, ConcatType DEF BoundaryInv
<1>. QED  BY <1>2, <1>5, <1>8, <1>9, <1>10 DEF BoundaryInv

LEMMA ReceiveAckKeepsBoundaries ==
    ASSUME ChunksOfPackets, TransportInv, BoundaryInv, ReceiveAck PROVE BoundaryInv'
<1>1. PICK k \in Arriving(answers) :
          LET a == answers[k]
              q == [Acked(a) EXCEPT !.active = ~ Finishes(a)]
          IN  /\ answers' = RemoveAt(answers, k)
              /\ IF qp.active
                 THEN /\ qp' = IF a.kind = "nack" THEN RecoverQueue(q) ELSE q
                      /\ rx' = IF Finishes(a) THEN NoQp ELSE rx
                 ELSE UNCHANGED <<qp, rx>>
  BY DEF ReceiveAck
<1>. DEFINE a == answers[k]
            q == [Acked(a) EXCEPT !.active = ~ Finishes(a)]
<1>2. k \in DOMAIN answers /\ UNCHANGED data
  BY DEF Arriving, ReceiveAck
<1>3. answers' \in Seq(OnBoundary) /\ a \in Answer /\ a.seq \in Boundaries
  BY <1>1, <1>2, RemoveAtType DEF BoundaryInv, OnBoundary
<1>4. /\ IF qp.active
         THEN /\ qp' = IF a.kind = "nack" THEN RecoverQueue(q) ELSE q
              /\ rx' = IF Finishes(a) THEN NoQp ELSE rx
         ELSE UNCHANGED <<qp, rx>>
  BY <1>1
<1>. HIDE DEF a
<1>5. qp.snd_una \in Boundaries /\ qp.snd_nxt \in Boundaries /\ qp \in Sender
  BY DEF BoundaryInv, TransportInv, TransportTypeOK
<1>6. Acked(a) \in Sender /\ Acked(a).snd_una \in Boundaries
  BY <1>3, <1>5, AckedType, RoundDownToBoundary
<1>7. Acked(a).snd_nxt = qp.snd_nxt
  BY <1>5 DEF Acked, Acknowledge, Sender
<1>8. q.snd_nxt = qp.snd_nxt /\ q.snd_una = Acked(a).snd_una
      /\ RecoverQueue(q).snd_nxt = Acked(a).snd_una /\ RecoverQueue(q).snd_una = Acked(a).snd_una
  BY <1>6, <1>7 DEF RecoverQueue, Sender
<1>. HIDE DEF q
<1>9. qp'.snd_nxt \in Boundaries /\ qp'.snd_una \in Boundaries
  BY <1>4, <1>5, <1>6, <1>8
<1>10. Expected' \in Boundaries
  <2>1. rx' = NoQp => Expected' = 0
    BY DEF Expected, RxQp, NewRxQp
  <2>2. rx' = rx => Expected' = Expected
    BY DEF Expected, RxQp
  <2>. QED  BY <1>4, <2>1, <2>2, ZeroIsBoundary DEF BoundaryInv
<1>. QED  BY <1>2, <1>3, <1>9, <1>10 DEF BoundaryInv

LEMMA OtherStepsKeepBoundaries ==
    ASSUME TransportInv, BoundaryInv, NackTimerExpires \/ Lose \/ UNCHANGED transportVars
    PROVE  BoundaryInv'
<1>1. CASE NackTimerExpires
  <2>1. rx \in Receiver /\ rx' = [rx EXCEPT !.nackTimer = FALSE] /\ UNCHANGED <<qp, data, answers>>
    BY <1>1 DEF TransportInv, TransportTypeOK, NackTimerExpires
  <2>2. Expected' = Expected
    BY <2>1, NoQpAssumption DEF Expected, RxQp, Receiver
  <2>. QED  BY <2>1, <2>2 DEF BoundaryInv
<1>2. CASE Lose
  <2>1. UNCHANGED <<qp, rx>>
    BY <1>2 DEF Lose
  <2>2. \/ UNCHANGED answers /\ \E k \in DOMAIN data : data' = RemoveAt(data, k)
        \/ UNCHANGED data /\ \E k \in DOMAIN answers : answers' = RemoveAt(answers, k)
    BY <1>2 DEF Lose
  <2>3. data' \in Seq(Whole) /\ answers' \in Seq(OnBoundary)
    BY <2>2, RemoveAtType DEF BoundaryInv
  <2>. QED  BY <2>1, <2>3 DEF BoundaryInv, Expected, RxQp
<1>3. CASE UNCHANGED transportVars
  BY <1>3 DEF transportVars, BoundaryInv, Expected, RxQp
<1>. QED  BY <1>1, <1>2, <1>3

(* NoStraddling holds when chunks are made of full packets: both ends and  *)
(* all packets keep to the same boundaries, whatever is lost, reordered or *)
(* sent again.                                                             *)
THEOREM TransportNeverStraddles == ChunksOfPackets => (TransportSpec => []NoStraddling)
<1>. SUFFICES ASSUME ChunksOfPackets PROVE TransportSpec => []NoStraddling
  OBVIOUS
<1>1. TransportInit => BoundaryInv
  <2>. SUFFICES ASSUME TransportInit PROVE BoundaryInv
    OBVIOUS
  <2>1. Expected = 0
    BY DEF TransportInit, Expected, RxQp, NewRxQp
  <2>. QED  BY <2>1, ZeroIsBoundary DEF TransportInit, BoundaryInv
<1>2. TransportInv /\ BoundaryInv /\ [TransportNext]_transportVars => BoundaryInv'
  BY SendKeepsBoundaries, ReceiveUdpKeepsBoundaries, ReceiveAckKeepsBoundaries,
     OtherStepsKeepBoundaries DEF TransportNext
<1>3. TransportInv /\ BoundaryInv => NoStraddling
  <2>. SUFFICES ASSUME BoundaryInv, NEW k \in DOMAIN data
                PROVE  data[k].seq + data[k].size <= Expected \/ data[k].seq >= Expected
    BY DEF NoStraddling, Expected
  <2>1. data[k] \in Whole /\ Expected \in Boundaries
    BY DEF BoundaryInv
  <2>. QED  BY <2>1, WholeOrAhead
<1>. QED  BY <1>1, <1>2, <1>3, TransportInvariant, PTL DEF TransportSpec
=============================================================================
