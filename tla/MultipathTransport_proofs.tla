--------------------- MODULE MultipathTransport_proofs ---------------------
(***************************************************************************)
(* Proofs about the multipath transport: for flows, windows and networks of*)
(* every size, the two ends agree on each path and a flow that completes   *)
(* has been taken; and until a byte is asked for twice, the two paths      *)
(* together implement Delivery.                                            *)
(***************************************************************************)
EXTENDS MultipathTransport, Library_proofs

(* The packets of a path end within the flow.  This is what bounds the     *)
(* receiver's counters, and so the acknowledgements.                       *)
Fitting == {d \in Data : d.seq + d.size <= FlowSize}
PacketsFit == data \in [Paths -> Seq(Fitting)]

(* PathsAgree, with what is said of an answer said of the channel's type.  *)
Covered(e) == {a \in Answer : a.seq <= e}
AnswersCovered ==
    active => \A p \in Paths : /\ qp[p].una <= Expected(p)
                               /\ answers[p] \in Seq(Covered(Expected(p)))

MultipathInv == MultipathTypeOK /\ PacketsFit /\ AnswersCovered

LEMMA RxQpType == ASSUME MultipathTypeOK PROVE RxQp \in [Paths -> Receiver]
<1>1. NewRxQp \in [Paths -> Receiver]
  BY MultipathAssumption DEF NewRxQp, Receiver, Offsets
<1>. QED  BY <1>1 DEF RxQp, MultipathTypeOK

(* The receiver of a path, given a packet that fits: its counters stay     *)
(* within the flow, never go back, and cover its answer.                   *)
LEMMA ReceiverSteps ==
    ASSUME NEW r \in Receiver, NEW pkt \in Fitting
    PROVE  /\ AfterPacket(r, pkt) \in Receiver
           /\ AfterPacket(r, pkt).expected >= r.expected
           /\ AnswerTo(r, pkt) \in Seq(Covered(AfterPacket(r, pkt).expected))
<1>. USE MultipathAssumption DEF Receiver, Fitting, Data, Answer, Offsets, Covered
<1>1. CASE InOrder(r, pkt)
  <2>1. AfterPacket(r, pkt) = [r EXCEPT !.expected = @ + pkt.size]
        /\ AnswerTo(r, pkt) = <<[kind |-> "ack", seq |-> r.expected + pkt.size]>>
    BY <1>1 DEF AfterPacket, AnswerTo
  <2>2. r.expected + pkt.size \in Offsets /\ r.expected + pkt.size >= r.expected
    BY <1>1 DEF InOrder
  <2>. QED  BY <2>1, <2>2
<1>2. CASE ~ InOrder(r, pkt) /\ NackDue(r, pkt)
  <2>1. AfterPacket(r, pkt) = [r EXCEPT !.lastNACK = r.expected, !.nackTimer = TRUE]
        /\ AnswerTo(r, pkt) = <<[kind |-> "nack", seq |-> r.expected]>>
    BY <1>2 DEF AfterPacket, AnswerTo
  <2>2. AfterPacket(r, pkt) \in Receiver /\ AfterPacket(r, pkt).expected = r.expected
    BY <2>1
  <2>3. [kind |-> "nack", seq |-> r.expected] \in Covered(r.expected)
    OBVIOUS
  <2>. QED  BY <2>1, <2>2, <2>3
<1>3. CASE ~ InOrder(r, pkt) /\ ~ NackDue(r, pkt)
  BY <1>3 DEF AfterPacket, AnswerTo
<1>. QED  BY <1>1, <1>2, <1>3

LEMMA SendSteps ==
    ASSUME MultipathInv, NEW p \in Paths, Send(p)
    PROVE  MultipathInv'
<1>. DEFINE size == IF Mtu < BytesLeft THEN Mtu ELSE BytesLeft
            pkt  == [seq |-> qp[p].nxt, size |-> size]
<1>1. qp \in [Paths -> Sender] /\ 0 \in Paths /\ 1 \in Paths /\ p \in {0, 1}
  BY DEF MultipathInv, MultipathTypeOK, Paths
<1>2. size \in 1 .. Mtu /\ qp[p].nxt + size <= FlowSize
  <2>1. BytesLeft > 0
    BY DEF Send, CanSend
  <2>2. BytesLeft = FlowSize - (qp[0].nxt + qp[1].nxt)
    BY <2>1, <1>1, MultipathAssumption DEF BytesLeft, Minus, Sender, Offsets
  <2>. QED  BY <2>1, <2>2, <1>1, MultipathAssumption DEF Sender, Offsets
<1>. HIDE DEF size
<1>3. pkt \in Fitting /\ qp[p].nxt + size \in Offsets
  BY <1>1, <1>2, MultipathAssumption DEF Fitting, Data, Sender, Offsets
<1>. HIDE DEF pkt
<1>4. data' = [data EXCEPT ![p] = Append(@, pkt)] /\ qp' = [qp EXCEPT ![p].nxt = @ + size]
      /\ UNCHANGED <<active, rx, answers, lost, overtakes, late, cut>>
  BY DEF Send, size, pkt
<1>5. data' \in [Paths -> Seq(Fitting)]
  BY <1>3, <1>4, AppendProperties DEF MultipathInv, PacketsFit
<1>6. data' \in [Paths -> Seq(Data)]
  BY <1>5, SeqMonotone DEF Fitting
<1>7. qp' \in [Paths -> Sender] /\ \A q \in Paths : qp'[q].una = qp[q].una
  BY <1>1, <1>3, <1>4 DEF Sender
<1>. QED  BY <1>4, <1>5, <1>6, <1>7
          DEF MultipathInv, MultipathTypeOK, PacketsFit, AnswersCovered, Expected, RxQp

LEMMA ReceiveUdpSteps ==
    ASSUME MultipathInv, NEW p \in Paths, ReceiveUdp(p)
    PROVE  MultipathInv'
<1>1. PICK k \in Arriving(p) :
          LET r == RxQp[p]
              pkt == data[p][k]
          IN  /\ rx' = [RxQp EXCEPT ![p] = AfterPacket(r, pkt)]
              /\ answers' = [answers EXCEPT ![p] = @ \o AnswerTo(r, pkt)]
              /\ data' = [data EXCEPT ![p] = RemoveAt(@, k)]
              /\ overtakes' = overtakes + (k - 1)
              /\ late' = (late \/ k # 1)
  BY DEF ReceiveUdp
<1>. DEFINE r   == RxQp[p]
            pkt == data[p][k]
            r2  == AfterPacket(r, pkt)
            ans == AnswerTo(r, pkt)
<1>2. UNCHANGED <<qp, active, lost, cut>>
  BY DEF ReceiveUdp
<1>3. k \in DOMAIN data[p] /\ overtakes' \in 0 .. MaxOvertakes
  BY <1>1, MultipathAssumption DEF Arriving, MultipathInv, MultipathTypeOK
<1>4. RxQp \in [Paths -> Receiver]
  BY RxQpType DEF MultipathInv
<1>5. pkt \in Fitting
  BY <1>3 DEF MultipathInv, PacketsFit
<1>6. r2 \in Receiver /\ r2.expected >= r.expected /\ ans \in Seq(Covered(r2.expected))
  BY <1>4, <1>5, ReceiverSteps
<1>. HIDE DEF r2, ans
<1>7. rx' = [RxQp EXCEPT ![p] = r2] /\ answers' = [answers EXCEPT ![p] = @ \o ans]
      /\ data' = [data EXCEPT ![p] = RemoveAt(@, k)]
  BY <1>1 DEF r2, ans
<1>8. rx' \in [Paths -> Receiver] /\ RxQp' = rx'
  BY <1>4, <1>6, <1>7, NoQpAssumption DEF RxQp
<1>9. data' \in [Paths -> Seq(Fitting)]
  BY <1>3, <1>7, RemoveAtType DEF MultipathInv, PacketsFit
<1>10. data' \in [Paths -> Seq(Data)]
  BY <1>9, SeqMonotone DEF Fitting
<1>11. answers' \in [Paths -> Seq(Answer)]
  <2>1. ans \in Seq(Answer)
    BY <1>6, SeqMonotone DEF Covered
  <2>2. answers[p] \o ans \in Seq(Answer)
    BY <2>1, ConcatType DEF MultipathInv, MultipathTypeOK
  <2>. QED  BY <1>7, <2>2 DEF MultipathInv, MultipathTypeOK
<1>12. AnswersCovered'
  <2>. SUFFICES ASSUME active, NEW q \in Paths
                PROVE  qp[q].una <= rx'[q].expected /\ answers'[q] \in Seq(Covered(rx'[q].expected))
    BY <1>2, <1>8 DEF AnswersCovered, Expected
  <2>1. qp[q].una <= RxQp[q].expected /\ answers[q] \in Seq(Covered(RxQp[q].expected))
    BY DEF MultipathInv, AnswersCovered, Expected
  <2>2. CASE q # p
    BY <2>1, <2>2, <1>4, <1>7 DEF MultipathInv, MultipathTypeOK
  <2>3. CASE q = p
    <3>1. rx'[q] = r2 /\ answers'[q] = answers[p] \o ans
      BY <2>3, <1>4, <1>7 DEF MultipathInv, MultipathTypeOK
    <3>2. Covered(r.expected) \subseteq Covered(r2.expected)
      BY <1>4, <1>6 DEF Covered, Answer, Receiver, Offsets
    <3>3. answers[p] \in Seq(Covered(r2.expected))
      BY <2>1, <2>3, <3>2, SeqMonotone
    <3>4. answers[p] \o ans \in Seq(Covered(r2.expected))
      BY <3>3, <1>6, ConcatType
    <3>5. qp[p] \in Sender
      BY DEF MultipathInv, MultipathTypeOK
    <3>. QED  BY <3>1, <3>4, <3>5, <2>1, <2>3, <1>4, <1>6 DEF Sender, Receiver, Offsets
  <2>. QED  BY <2>2, <2>3
<1>13. late' \in BOOLEAN
  BY <1>1
<1>. QED  BY <1>2, <1>3, <1>8, <1>9, <1>10, <1>11, <1>12, <1>13
          DEF MultipathInv, MultipathTypeOK, PacketsFit

LEMMA NackTimerSteps ==
    ASSUME MultipathInv, NEW p \in Paths, NackTimerExpires(p)
    PROVE  MultipathInv'
<1>1. rx \in [Paths -> Receiver] /\ rx # NoQp
  BY DEF MultipathInv, MultipathTypeOK, NackTimerExpires
<1>2. rx' = [rx EXCEPT ![p].nackTimer = FALSE] /\ late' \in BOOLEAN
      /\ UNCHANGED <<qp, active, data, answers, lost, overtakes, cut>>
  BY DEF NackTimerExpires, MultipathInv, MultipathTypeOK
<1>3. rx' \in [Paths -> Receiver] /\ \A q \in Paths : rx'[q].expected = rx[q].expected
  BY <1>1, <1>2 DEF Receiver
<1>4. \A q \in Paths : Expected(q)' = Expected(q)
  BY <1>1, <1>3, NoQpAssumption DEF Expected, RxQp
<1>. QED  BY <1>2, <1>3, <1>4 DEF MultipathInv, MultipathTypeOK, PacketsFit, AnswersCovered

(* Without L2BackToZero as with it, an acknowledgement raises the mark of  *)
(* the path it names to no more than it says.                              *)
LEMMA AckedType ==
    ASSUME MultipathInv, NEW p \in Paths, NEW a \in Answer
    PROVE  /\ Acked(p, a) \in [Paths -> Sender]
           /\ \A q \in Paths : q # p => Acked(p, a)[q] = qp[q]
           /\ Acked(p, a)[p].una = qp[p].una \/ Acked(p, a)[p].una = a.seq
  BY DEF Acked, Acknowledge, MultipathInv, MultipathTypeOK, Sender, Answer

LEMMA ReceiveAckSteps ==
    ASSUME MultipathInv, NEW p \in Paths, ReceiveAck(p)
    PROVE  MultipathInv'
<1>. DEFINE a == Head(answers[p])
<1>1. /\ answers[p] \in Seq(Answer) /\ answers[p] # <<>>
      /\ answers' = [answers EXCEPT ![p] = Tail(@)]
      /\ UNCHANGED <<data, lost, overtakes, late, cut>>
  BY DEF ReceiveAck, MultipathInv, MultipathTypeOK
<1>2. a \in Answer /\ answers' \in [Paths -> Seq(Answer)]
  BY <1>1, HeadTailProperties DEF MultipathInv, MultipathTypeOK
<1>. HIDE DEF a
<1>3. CASE active
  <2>1. /\ qp' = IF a.kind = "nack" THEN RecoverQueue(Acked(p, a), p) ELSE Acked(p, a)
        /\ active' = ~ Completes(p, a)
        /\ rx' = IF Completes(p, a) THEN NoQp ELSE rx
    BY <1>3 DEF ReceiveAck, a
  <2>2. qp' \in [Paths -> Sender] /\ \A q \in Paths : qp'[q].una = Acked(p, a)[q].una
    <3>1. Acked(p, a) \in [Paths -> Sender]
      BY <1>2, AckedType
    <3>2. RecoverQueue(Acked(p, a), p) \in [Paths -> Sender]
          /\ \A q \in Paths : RecoverQueue(Acked(p, a), p)[q].una = Acked(p, a)[q].una
      BY <3>1 DEF RecoverQueue, Sender
    <3>. QED  BY <2>1, <3>1, <3>2
  <2>3. active' \in BOOLEAN /\ rx' \in [Paths -> Receiver] \cup {NoQp}
    BY <2>1 DEF MultipathInv, MultipathTypeOK
  <2>4. AnswersCovered'
    <3>. SUFFICES ASSUME active', NEW q \in Paths
                  PROVE  qp'[q].una <= Expected(q) /\ answers'[q] \in Seq(Covered(Expected(q)))
      BY <2>1 DEF AnswersCovered, Expected, RxQp
    <3>1. qp[q].una <= Expected(q) /\ answers[q] \in Seq(Covered(Expected(q)))
      BY <1>3 DEF MultipathInv, AnswersCovered
    <3>2. CASE q # p
      BY <3>1, <3>2, <2>2, <1>1, <1>2, AckedType DEF MultipathInv, MultipathTypeOK
    <3>3. CASE q = p
      <4>1. a \in Covered(Expected(q)) /\ Tail(answers[q]) \in Seq(Covered(Expected(q)))
        BY <3>1, <3>3, <1>1, HeadTailProperties DEF a
      <4>2. qp'[q].una <= Expected(q)
        BY <4>1, <3>1, <3>3, <2>2, <1>2, AckedType DEF Covered
      <4>. QED  BY <4>1, <4>2, <3>3, <1>1 DEF MultipathInv, MultipathTypeOK
    <3>. QED  BY <3>2, <3>3
  <2>. QED  BY <1>1, <1>2, <2>2, <2>3, <2>4 DEF MultipathInv, MultipathTypeOK, PacketsFit
<1>4. CASE ~ active
  BY <1>1, <1>2, <1>4 DEF ReceiveAck, MultipathInv, MultipathTypeOK, PacketsFit, AnswersCovered
<1>. QED  BY <1>3, <1>4

LEMMA LoseSteps ==
    ASSUME MultipathInv, NEW p \in Paths, Lose(p)
    PROVE  MultipathInv'
<1>1. lost' \in 0 .. MaxLost /\ UNCHANGED <<qp, active, rx, overtakes, late>>
  BY MultipathAssumption DEF Lose, MultipathInv, MultipathTypeOK
<1>2. CASE LoseData(p)
  <2>1. PICK k \in DOMAIN data[p] : data' = [data EXCEPT ![p] = RemoveAt(@, k)]
    BY <1>2 DEF LoseData
  <2>2. data' \in [Paths -> Seq(Fitting)]
    BY <2>1, RemoveAtType DEF MultipathInv, PacketsFit
  <2>3. data' \in [Paths -> Seq(Data)]
    BY <2>2, SeqMonotone DEF Fitting
  <2>4. answers' = answers /\ cut' \in BOOLEAN
    BY <1>2 DEF LoseData
  <2>. QED  BY <1>1, <2>2, <2>3, <2>4
            DEF MultipathInv, MultipathTypeOK, PacketsFit, AnswersCovered, Expected, RxQp
<1>3. CASE LoseAnswer(p)
  <2>1. PICK k \in DOMAIN answers[p] : answers' = [answers EXCEPT ![p] = RemoveAt(@, k)]
    BY <1>3 DEF LoseAnswer
  <2>2. answers' \in [Paths -> Seq(Answer)]
    BY <2>1, RemoveAtType DEF MultipathInv, MultipathTypeOK
  <2>3. ASSUME active, NEW q \in Paths  PROVE answers'[q] \in Seq(Covered(Expected(q)))
    BY <2>1, <2>3, RemoveAtType DEF MultipathInv, MultipathTypeOK, AnswersCovered
  <2>4. data' = data /\ cut' \in BOOLEAN
    BY <1>3 DEF LoseAnswer
  <2>. QED  BY <1>1, <2>2, <2>3, <2>4
            DEF MultipathInv, MultipathTypeOK, PacketsFit, AnswersCovered, Expected, RxQp
<1>. QED  BY <1>2, <1>3 DEF Lose

-----------------------------------------------------------------------------
LEMMA MultipathInductive == MultipathInv /\ [MultipathNext]_multipathVars => MultipathInv'
<1>. SUFFICES ASSUME MultipathInv, [MultipathNext]_multipathVars
              PROVE  MultipathInv'
  OBVIOUS
<1>1. ASSUME NEW p \in Paths, Send(p)  PROVE MultipathInv'
  BY <1>1, SendSteps
<1>2. ASSUME NEW p \in Paths, ReceiveUdp(p)  PROVE MultipathInv'
  BY <1>2, ReceiveUdpSteps
<1>3. ASSUME NEW p \in Paths, NackTimerExpires(p)  PROVE MultipathInv'
  BY <1>3, NackTimerSteps
<1>4. ASSUME NEW p \in Paths, ReceiveAck(p)  PROVE MultipathInv'
  BY <1>4, ReceiveAckSteps
<1>5. ASSUME NEW p \in Paths, Lose(p)  PROVE MultipathInv'
  BY <1>5, LoseSteps
<1>6. CASE UNCHANGED multipathVars
  BY <1>6 DEF multipathVars, MultipathInv, MultipathTypeOK, PacketsFit, AnswersCovered,
              Expected, RxQp
<1>. QED  BY <1>1, <1>2, <1>3, <1>4, <1>5, <1>6 DEF MultipathNext

(* In every reachable state the counters are in range, packets end within  *)
(* the flow, and answers claim no more than the receiver of their path has *)
(* taken.                                                                  *)
THEOREM MultipathInvariant == MultipathSpec => []MultipathInv
<1>1. MultipathInit => MultipathInv
  <2>. SUFFICES ASSUME MultipathInit PROVE MultipathInv
    OBVIOUS
  <2>. USE MultipathAssumption DEF MultipathInit
  <2>1. MultipathTypeOK
    <3>1. [nxt |-> 0, una |-> 0] \in Sender
      BY DEF Sender, Offsets
    <3>2. qp \in [Paths -> Sender] /\ data \in [Paths -> Seq(Data)]
          /\ answers \in [Paths -> Seq(Answer)]
      BY <3>1
    <3>3. active \in BOOLEAN /\ late \in BOOLEAN /\ cut \in BOOLEAN
      OBVIOUS
    <3>4. rx = NoQp /\ lost \in 0 .. MaxLost /\ overtakes \in 0 .. MaxOvertakes
      OBVIOUS
    <3>. HIDE DEF MultipathInit
    <3>. QED  BY ONLY <3>2, <3>3, <3>4 DEF MultipathTypeOK
  <2>2. PacketsFit
    BY DEF PacketsFit
  <2>3. \A p \in Paths : Expected(p) = 0
    BY DEF Expected, RxQp, NewRxQp
  <2>4. AnswersCovered
    BY <2>3 DEF AnswersCovered
  <2>. QED  BY <2>1, <2>2, <2>4 DEF MultipathInv
<1>. QED  BY <1>1, MultipathInductive, PTL DEF MultipathSpec

(* MultipathTypeOK holds, for every flow size, MTU, window and network.    *)
THEOREM MultipathTypes == MultipathSpec => []MultipathTypeOK
<1>1. MultipathInv => MultipathTypeOK
  BY DEF MultipathInv
<1>. QED  BY <1>1, MultipathInvariant, PTL

(* PathsAgree holds: on neither path does an active sender run ahead of    *)
(* its receiver, whatever is lost, overtaken or asked for twice.           *)
THEOREM MultipathAgrees == MultipathSpec => []PathsAgree
<1>1. MultipathInv => PathsAgree
  <2>. SUFFICES ASSUME MultipathInv, active, NEW p \in Paths,
                       NEW k \in DOMAIN answers[p]
                PROVE  qp[p].una <= Expected(p) /\ answers[p][k].seq <= Expected(p)
    BY DEF PathsAgree, MultipathInv, AnswersCovered
  <2>1. answers[p][k] \in Covered(Expected(p))
    BY DEF MultipathInv, AnswersCovered
  <2>. QED  BY <2>1 DEF MultipathInv, AnswersCovered, Covered
<1>. QED  BY <1>1, MultipathInvariant, PTL

LEMMA CompletesTaken ==
    ASSUME MultipathInv, [MultipathNext]_multipathVars, active, ~ active'
    PROVE  Expected(0) + Expected(1) >= FlowSize
<1>1. PICK p \in Paths : ReceiveAck(p)
  BY DEF MultipathNext, Send, ReceiveUdp, NackTimerExpires, Lose, multipathVars
<1>. DEFINE a == Head(answers[p])
<1>2. a \in Answer /\ a \in Covered(Expected(p))
  BY <1>1, HeadTailProperties
     DEF ReceiveAck, MultipathInv, MultipathTypeOK, AnswersCovered
<1>. HIDE DEF a
<1>3. IsFinished(Acked(p, a))
  BY <1>1 DEF ReceiveAck, Completes, a
<1>4. \A q \in Paths : Acked(p, a)[q].una <= Expected(q)
  <2>1. \A q \in Paths : qp[q].una <= Expected(q)
    BY DEF MultipathInv, AnswersCovered
  <2>2. a.seq <= Expected(p)
    BY <1>2 DEF Covered
  <2>. QED  BY <2>1, <2>2, <1>2, AckedType
<1>5. \A q \in Paths : Expected(q) \in Nat /\ Acked(p, a)[q].una \in Nat
  BY <1>2, AckedType, RxQpType, MultipathAssumption
     DEF MultipathInv, Expected, Receiver, Sender, Offsets
<1>. QED  BY <1>3, <1>4, <1>5, MultipathAssumption DEF IsFinished, Paths

(* CompletedIsTaken holds: qp_finish runs only when the two receivers have *)
(* taken the size of the flow.                                             *)
THEOREM MultipathCompletion == MultipathSpec => CompletedIsTaken
<1>1. MultipathInv /\ [MultipathNext]_multipathVars
          => [active /\ ~ active' => Expected(0) + Expected(1) >= FlowSize]_multipathVars
  BY CompletesTaken
<1>. QED  BY <1>1, MultipathInvariant, PTL DEF MultipathSpec, CompletedIsTaken

-----------------------------------------------------------------------------
(* No more is taken than the flow has, which is what DeliversUntilLate     *)
(* needs, because no more is sent.  Of one path: D and A are its channels, *)
(* e the byte its receiver expects next, n the sender's next, and asked    *)
(* says whether the receiver has asked for e and will not ask again by     *)
(* itself.                                                                 *)

Nacks(A) == {i \in DOMAIN A : A[i].kind = "nack"}

(* The first j packets come too late for their gap, which has been asked   *)
(* for; the others have been sent since the sender last went back.         *)
Split(D, e, n, j) ==
    /\ \A k \in 1 .. j : D[k].seq > e
    /\ \A k \in j + 1 .. Len(D) : D[k].seq + D[k].size <= n
    /\ \A k, l \in j + 1 .. Len(D) : k < l => D[k].seq < D[l].seq

(* The sender is never behind the receiver, nor will it be: a NACK on its  *)
(* way is the only one and sends it back to what the receiver expects, and *)
(* all packets that it has sent beyond are too late.                       *)
OnePath(D, A, e, n, asked) ==
    /\ e <= n
    /\ \E j \in 0 .. Len(D) : Split(D, e, n, j) /\ (j > 0 => asked)
    /\ Nacks(A) # {} => asked /\ e < n /\ \A k \in 1 .. Len(D) : D[k].seq > e
    /\ \A i \in Nacks(A) : A[i].seq = e /\ \A h \in Nacks(A) : h = i

SentOnce ==
    active /\ ~ late =>
        /\ qp[0].nxt + qp[1].nxt <= FlowSize
        /\ \A p \in Paths : OnePath(data[p], answers[p], Expected(p), qp[p].nxt, Asked(p))

LEMMA PacketType ==
    ASSUME NEW D \in Seq(Data), NEW k \in 1 .. Len(D)
    PROVE  D[k] \in Data /\ D[k].seq \in Nat /\ D[k].size \in Nat /\ D[k].size > 0
<1>1. D[k] \in Data
  OBVIOUS
<1>. QED  BY <1>1, MultipathAssumption DEF Data, Offsets

LEMMA SplitWithout ==
    ASSUME NEW D \in Seq(Data), NEW k \in 1 .. Len(D), NEW E \in Seq(Data), Without(D, k, E),
           NEW e \in Nat, NEW n \in Nat, NEW j \in 0 .. Len(D), Split(D, e, n, j)
    PROVE  \E i \in 0 .. Len(E) : Split(E, e, n, i) /\ (i > 0 => j > 0)
<1>. DEFINE i == IF k <= j THEN j - 1 ELSE j
<1>1. Len(D) \in Nat /\ Len(E) = Len(D) - 1 /\ i \in 0 .. Len(E) /\ (i > 0 => j > 0)
  BY DEF Without
<1>2. \A m \in 1 .. Len(E) : E[m] = IF m < k THEN D[m] ELSE D[m + 1]
  BY DEF Without
<1>3. \A m \in 1 .. i : E[m].seq > e
  <2>. SUFFICES ASSUME NEW m \in 1 .. i PROVE E[m].seq > e
    OBVIOUS
  <2>1. m \in 1 .. Len(E) /\ (m < k => m \in 1 .. j) /\ (~ (m < k) => m + 1 \in 1 .. j)
    BY <1>1
  <2>. QED  BY <2>1, <1>2 DEF Split
<1>. DEFINE up(m) == IF m < k THEN m ELSE m + 1
<1>4. \A m \in i + 1 .. Len(E) : m \in 1 .. Len(E) /\ up(m) \in j + 1 .. Len(D) /\ E[m] = D[up(m)]
  <2>. SUFFICES ASSUME NEW m \in i + 1 .. Len(E)
                PROVE  m \in 1 .. Len(E) /\ up(m) \in j + 1 .. Len(D) /\ E[m] = D[up(m)]
    OBVIOUS
  <2>1. m \in 1 .. Len(E) /\ up(m) \in j + 1 .. Len(D)
    BY <1>1
  <2>. QED  BY <2>1, <1>2
<1>5. \A m, l \in i + 1 .. Len(E) : m < l => up(m) < up(l)
  BY <1>1
<1>. HIDE DEF up
<1>6. \A m \in i + 1 .. Len(E) : E[m].seq + E[m].size <= n
  BY <1>4 DEF Split
<1>7. \A m, l \in i + 1 .. Len(E) : m < l => E[m].seq < E[l].seq
  BY <1>4, <1>5 DEF Split
<1>. HIDE DEF i
<1>. QED  BY <1>1, <1>3, <1>6, <1>7 DEF Split

(* A packet is sent.                                                       *)
LEMMA PathSends ==
    ASSUME NEW D \in Seq(Data), NEW A \in Seq(Answer), NEW e \in Nat, NEW n \in Nat, NEW asked,
           OnePath(D, A, e, n, asked), NEW d \in Data, d.seq = n
    PROVE  OnePath(Append(D, d), A, e, n + d.size, asked)
<1>. DEFINE E == Append(D, d)
            m == n + d.size
<1>1. Len(D) \in Nat /\ Len(E) = Len(D) + 1 /\ E[Len(D) + 1] = d
      /\ \A k \in 1 .. Len(D) : E[k] = D[k] /\ D[k] \in Data
  OBVIOUS
<1>2. m \in Nat /\ n < m /\ d.seq + d.size = m /\ d.seq = n
  BY MultipathAssumption DEF Data
<1>3. \A k \in 1 .. Len(D) : D[k].seq \in Nat /\ D[k].seq < D[k].seq + D[k].size
      /\ D[k].size \in Nat
  BY PacketType
<1>4. PICK j \in 0 .. Len(D) : Split(D, e, n, j) /\ (j > 0 => asked)
  BY DEF OnePath
<1>. HIDE DEF E, m
<1>5. Split(E, e, m, j) /\ j \in 0 .. Len(E)
  <2>1. \A k \in 1 .. j : E[k].seq > e
    BY <1>1, <1>4 DEF Split
  <2>2. \A k \in j + 1 .. Len(E) : E[k].seq + E[k].size <= m
    <3>. SUFFICES ASSUME NEW k \in j + 1 .. Len(E) PROVE E[k].seq + E[k].size <= m
      OBVIOUS
    <3>1. CASE k = Len(D) + 1
      BY <3>1, <1>1, <1>2
    <3>2. CASE k # Len(D) + 1
      <4>1. k \in j + 1 .. Len(D) /\ k \in 1 .. Len(D)
        BY <3>2, <1>1
      <4>2. E[k] = D[k] /\ D[k].seq + D[k].size <= n
        BY <4>1, <1>1, <1>4 DEF Split
      <4>. QED  BY <4>1, <4>2, <1>2, <1>3
    <3>. QED  BY <3>1, <3>2
  <2>3. \A k, l \in j + 1 .. Len(E) : k < l => E[k].seq < E[l].seq
    <3>. SUFFICES ASSUME NEW k \in j + 1 .. Len(E), NEW l \in j + 1 .. Len(E), k < l
                  PROVE  E[k].seq < E[l].seq
      OBVIOUS
    <3>1. k \in j + 1 .. Len(D) /\ k \in 1 .. Len(D) /\ E[k] = D[k]
      BY <1>1
    <3>2. CASE l = Len(D) + 1
      <4>1. D[k].seq + D[k].size <= n
        BY <3>1, <1>4 DEF Split
      <4>. QED  BY <4>1, <3>1, <3>2, <1>1, <1>2, <1>3
    <3>3. CASE l # Len(D) + 1
      <4>1. l \in j + 1 .. Len(D) /\ E[l] = D[l]
        BY <3>3, <1>1
      <4>. QED  BY <4>1, <3>1, <1>4 DEF Split
    <3>. QED  BY <3>2, <3>3
  <2>. QED  BY <2>1, <2>2, <2>3, <1>1 DEF Split
<1>6. ASSUME Nacks(A) # {} PROVE asked /\ e < m /\ \A k \in 1 .. Len(E) : E[k].seq > e
  <2>1. asked /\ e < n /\ \A k \in 1 .. Len(D) : D[k].seq > e
    BY <1>6 DEF OnePath
  <2>2. ASSUME NEW k \in 1 .. Len(E) PROVE E[k].seq > e
    <3>1. CASE k = Len(D) + 1
      BY <3>1, <2>1, <1>1, <1>2
    <3>2. CASE k # Len(D) + 1
      BY <3>2, <2>1, <1>1
    <3>. QED  BY <3>1, <3>2
  <2>. QED  BY <2>1, <2>2, <1>2
<1>7. e <= m /\ \A i \in Nacks(A) : A[i].seq = e /\ \A h \in Nacks(A) : h = i
  BY <1>2 DEF OnePath
<1>8. OnePath(E, A, e, m, asked)
  BY <1>4, <1>5, <1>6, <1>7 DEF OnePath
<1>. QED  BY <1>8 DEF E, m

(* A packet is lost, or comes and changes nothing.                         *)
LEMMA PathDrops ==
    ASSUME NEW D \in Seq(Data), NEW A \in Seq(Answer), NEW e \in Nat, NEW n \in Nat, NEW asked,
           OnePath(D, A, e, n, asked),
           NEW k \in 1 .. Len(D), NEW E \in Seq(Data), Without(D, k, E)
    PROVE  OnePath(E, A, e, n, asked)
<1>1. PICK j \in 0 .. Len(D) : Split(D, e, n, j) /\ (j > 0 => asked)
  BY DEF OnePath
<1>2. \E i \in 0 .. Len(E) : Split(E, e, n, i) /\ (i > 0 => j > 0)
  BY <1>1, SplitWithout
<1>3. \A m \in 1 .. Len(E) : \E l \in 1 .. Len(D) : E[m] = D[l]
  <2>. SUFFICES ASSUME NEW m \in 1 .. Len(E) PROVE \E l \in 1 .. Len(D) : E[m] = D[l]
    OBVIOUS
  <2>1. Len(E) = Len(D) - 1 /\ E[m] = IF m < k THEN D[m] ELSE D[m + 1]
    BY DEF Without
  <2>2. m \in 1 .. Len(D) /\ m + 1 \in 1 .. Len(D)
    BY <2>1
  <2>. QED  BY <2>1, <2>2
<1>. QED  BY <1>1, <1>2, <1>3 DEF OnePath

(* The packet expected is taken, and acknowledged.                         *)
LEMMA PathTakes ==
    ASSUME NEW D \in Seq(Data), NEW A \in Seq(Answer), NEW e \in Nat, NEW n \in Nat, NEW asked,
           OnePath(D, A, e, n, asked), 1 \in 1 .. Len(D), D[1].seq = e,
           NEW E \in Seq(Data), Without(D, 1, E), NEW B \in Seq(Answer), Nacks(B) = Nacks(A),
           NEW asked2
    PROVE  OnePath(E, B, e + D[1].size, n, asked2)
<1>1. PICK j \in 0 .. Len(D) : Split(D, e, n, j)
  BY DEF OnePath
<1>2. j = 0
  <2>. SUFFICES ASSUME j > 0 PROVE FALSE
    OBVIOUS
  <2>1. 1 \in 1 .. j
    OBVIOUS
  <2>. QED  BY <2>1, <1>1 DEF Split
<1>3. e + D[1].size <= n
  BY <1>1, <1>2 DEF Split
<1>4. PICK i \in 0 .. Len(E) : Split(E, e, n, i) /\ (i > 0 => j > 0)
  BY <1>1, SplitWithout
<1>5. Split(E, e + D[1].size, n, 0) /\ 0 \in 0 .. Len(E)
  <2>1. Split(E, e, n, 0)
    BY <1>2, <1>4
  <2>. QED  BY <2>1 DEF Split
<1>6. Nacks(A) = {}
  BY DEF OnePath
<1>. QED  BY <1>3, <1>5, <1>6 DEF OnePath

(* A packet reveals a gap, for which the receiver asks.                    *)
LEMMA PathAsks ==
    ASSUME NEW D \in Seq(Data), NEW A \in Seq(Answer), NEW e \in Nat, NEW n \in Nat,
           OnePath(D, A, e, n, FALSE), 1 \in 1 .. Len(D), D[1].seq > e,
           NEW E \in Seq(Data), Without(D, 1, E),
           NEW B \in Seq(Answer), NEW i, Nacks(B) = Nacks(A) \cup {i}, B[i].seq = e
    PROVE  OnePath(E, B, e, n, TRUE)
<1>1. Split(D, e, n, 0) /\ Nacks(A) = {}
  BY DEF OnePath
<1>2. Len(D) \in Nat /\ Len(E) = Len(D) - 1 /\ \A k \in 1 .. Len(E) : E[k] = D[k + 1]
  BY DEF Without
<1>3. \A k \in 1 .. Len(D) : D[k].seq \in Nat /\ D[k].size \in Nat /\ D[k].size > 0
  BY PacketType
<1>4. e < n
  <2>1. D[1].seq + D[1].size <= n
    BY <1>1 DEF Split
  <2>. QED  BY <2>1, <1>3
<1>5. \A k \in 1 .. Len(E) : E[k].seq > e
  <2>. SUFFICES ASSUME NEW k \in 1 .. Len(E) PROVE E[k].seq > e
    OBVIOUS
  <2>1. k + 1 \in 1 .. Len(D) /\ 1 < k + 1
    BY <1>2
  <2>2. D[1].seq < D[k + 1].seq
    BY <1>1, <2>1 DEF Split
  <2>. QED  BY <2>1, <2>2, <1>2, <1>3
<1>6. Split(E, e, n, Len(E)) /\ Len(E) \in 0 .. Len(E)
  BY <1>2, <1>5 DEF Split
<1>. QED  BY <1>1, <1>4, <1>5, <1>6 DEF OnePath

(* An ACK arrives, or an answer is lost.                                   *)
LEMMA PathLosesAnswer ==
    ASSUME NEW D \in Seq(Data), NEW A \in Seq(Answer), NEW e \in Nat, NEW n \in Nat, NEW asked,
           OnePath(D, A, e, n, asked),
           NEW k \in 1 .. Len(A), NEW B \in Seq(Answer), Without(A, k, B)
    PROVE  OnePath(D, B, e, n, asked)
<1>1. Len(B) = Len(A) - 1 /\ \A i \in 1 .. Len(B) : B[i] = IF i < k THEN A[i] ELSE A[i + 1]
  BY DEF Without
<1>. DEFINE up(i) == IF i < k THEN i ELSE i + 1
<1>2. \A i \in 1 .. Len(B) : up(i) \in 1 .. Len(A) /\ B[i] = A[up(i)]
  BY <1>1
<1>3. \A i, h \in 1 .. Len(B) : up(i) = up(h) => i = h
  OBVIOUS
<1>. HIDE DEF up
<1>4. \A i \in Nacks(B) : up(i) \in Nacks(A) /\ i \in 1 .. Len(B) /\ B[i] = A[up(i)]
  BY <1>2 DEF Nacks
<1>5. \A i \in Nacks(B) : B[i].seq = e /\ \A h \in Nacks(B) : h = i
  BY <1>3, <1>4 DEF OnePath
<1>. QED  BY <1>4, <1>5 DEF OnePath

(* The NACK arrives, and the sender goes back to what is expected.         *)
LEMMA PathGoesBack ==
    ASSUME NEW D \in Seq(Data), NEW A \in Seq(Answer), NEW e \in Nat, NEW n \in Nat, NEW asked,
           OnePath(D, A, e, n, asked), 1 \in Nacks(A),
           NEW B \in Seq(Answer), Without(A, 1, B)
    PROVE  A[1].seq = e /\ e < n /\ OnePath(D, B, e, e, asked)
<1>1. A[1].seq = e /\ e < n /\ asked /\ \A k \in 1 .. Len(D) : D[k].seq > e
  BY DEF OnePath
<1>2. Split(D, e, e, Len(D)) /\ Len(D) \in 0 .. Len(D)
  BY <1>1 DEF Split
<1>3. Nacks(B) = {}
  <2>. SUFFICES ASSUME NEW i \in Nacks(B) PROVE FALSE
    OBVIOUS
  <2>1. i \in 1 .. Len(B) /\ B[i] = A[i + 1] /\ i + 1 \in 1 .. Len(A) /\ B[i].kind = "nack"
    BY DEF Without, Nacks
  <2>2. i + 1 \in Nacks(A)
    BY <2>1 DEF Nacks
  <2>. QED  BY <2>1, <2>2 DEF OnePath
<1>. QED  BY <1>1, <1>2, <1>3 DEF OnePath

LEMMA NacksAppend ==
    ASSUME NEW A \in Seq(Answer), NEW a \in Answer
    PROVE  /\ Nacks(A \o <<>>) = Nacks(A)
           /\ a.kind # "nack" => Nacks(A \o <<a>>) = Nacks(A)
           /\ a.kind = "nack" => /\ Nacks(A \o <<a>>) = Nacks(A) \cup {Len(A) + 1}
                                 /\ (A \o <<a>>)[Len(A) + 1] = a
<1>1. A \o <<>> = A
  OBVIOUS
<1>. DEFINE B == A \o <<a>>
<1>2. B \in Seq(Answer) /\ Len(A) \in Nat /\ Len(B) = Len(A) + 1 /\ B[Len(A) + 1] = a
      /\ \A i \in 1 .. Len(A) : B[i] = A[i]
  OBVIOUS
<1>3. DOMAIN A = 1 .. Len(A) /\ DOMAIN B = 1 .. Len(A) + 1
  BY <1>2
<1>. HIDE DEF B
<1>4. a.kind # "nack" => Nacks(B) = Nacks(A)
  BY <1>2, <1>3 DEF Nacks
<1>5. a.kind = "nack" => Nacks(B) = Nacks(A) \cup {Len(A) + 1}
  BY <1>2, <1>3 DEF Nacks
<1>. QED  BY <1>1, <1>2, <1>4, <1>5 DEF B

(* Where an acknowledgement moves the sender's mark, a NACK moves it to    *)
(* what the receiver expects, not to something before it.                  *)
AcksCount == AckInterval # 0 /\ ~ BackToZero

LEMMA OnePathTypes ==
    ASSUME MultipathInv, NEW p \in Paths
    PROVE  /\ Expected(p) \in Nat /\ qp[p].nxt \in Nat /\ qp[p].una \in Nat
           /\ data[p] \in Seq(Data) /\ answers[p] \in Seq(Answer) /\ Asked(p) \in BOOLEAN
<1>1. RxQp \in [Paths -> Receiver]
  BY RxQpType DEF MultipathInv
<1>2. Asked(p) \in BOOLEAN
  BY DEF Asked
<1>. QED  BY <1>1, <1>2, MultipathAssumption
          DEF MultipathInv, MultipathTypeOK, Expected, Receiver, Sender, Offsets

LEMMA SendKeepsOnce ==
    ASSUME MultipathInv, SentOnce, NEW p \in Paths, Send(p)
    PROVE  SentOnce'
<1>. SUFFICES ASSUME active', ~ late'
              PROVE  /\ qp'[0].nxt + qp'[1].nxt <= FlowSize
                     /\ \A q \in Paths :
                           OnePath(data[q], answers[q], Expected(q), qp[q].nxt, Asked(q))'
  BY DEF SentOnce
<1>. DEFINE size == IF Mtu < BytesLeft THEN Mtu ELSE BytesLeft
            pkt  == [seq |-> qp[p].nxt, size |-> size]
<1>1. data' = [data EXCEPT ![p] = Append(@, pkt)] /\ qp' = [qp EXCEPT ![p].nxt = @ + size]
      /\ UNCHANGED <<active, rx, answers, lost, overtakes, late, cut>>
  BY DEF Send
<1>2. qp \in [Paths -> Sender] /\ data \in [Paths -> Seq(Data)]
      /\ 0 \in Paths /\ 1 \in Paths /\ p \in {0, 1}
  BY DEF MultipathInv, MultipathTypeOK, Paths
<1>3. BytesLeft > 0 /\ BytesLeft = FlowSize - (qp[0].nxt + qp[1].nxt)
  <2>1. BytesLeft > 0
    BY DEF Send, CanSend
  <2>. QED  BY <2>1, <1>2, MultipathAssumption DEF BytesLeft, Minus, Sender, Offsets
<1>4. size \in 1 .. Mtu /\ size <= BytesLeft
  BY <1>2, <1>3, MultipathAssumption DEF Sender, Offsets
<1>5. pkt \in Data /\ pkt.seq = qp[p].nxt /\ pkt.size = size
  BY <1>2, <1>4 DEF Data, Sender
<1>. HIDE DEF size, pkt
<1>6. qp'[p].nxt = qp[p].nxt + size /\ \A q \in Paths : q # p => qp'[q].nxt = qp[q].nxt
  BY <1>1, <1>2 DEF Sender
<1>7. qp'[0].nxt + qp'[1].nxt <= FlowSize
  <2>1. qp[0].nxt \in Nat /\ qp[1].nxt \in Nat /\ size \in Nat
    BY <1>2, <1>4, OnePathTypes, MultipathAssumption
  <2>2. qp[0].nxt + qp[1].nxt + size <= FlowSize
    BY <2>1, <1>3, <1>4, MultipathAssumption
  <2>3. CASE p = 0
    BY <2>1, <2>2, <2>3, <1>2, <1>6
  <2>4. CASE p = 1
    BY <2>1, <2>2, <2>4, <1>2, <1>6
  <2>. QED  BY <2>3, <2>4, <1>2
<1>8. \A q \in Paths : Expected(q)' = Expected(q) /\ Asked(q)' = Asked(q)
  BY <1>1 DEF Expected, Asked, RxQp
<1>9. ASSUME NEW q \in Paths
      PROVE  OnePath(data'[q], answers[q], Expected(q), qp'[q].nxt, Asked(q))
  <2>1. OnePath(data[q], answers[q], Expected(q), qp[q].nxt, Asked(q))
    BY <1>1 DEF SentOnce
  <2>2. CASE q = p
    <3>1. data'[q] = Append(data[q], pkt) /\ qp'[q].nxt = qp[q].nxt + pkt.size
      BY <2>2, <1>1, <1>2, <1>5, <1>6
    <3>. QED  BY <3>1, <2>1, <2>2, <1>5, PathSends, OnePathTypes
  <2>3. CASE q # p
    <3>1. data'[q] = data[q] /\ qp'[q].nxt = qp[q].nxt
      BY <2>3, <1>1, <1>2, <1>6
    <3>. QED  BY <3>1, <2>1
  <2>. QED  BY <2>2, <2>3
<1>. QED  BY <1>1, <1>7, <1>8, <1>9

LEMMA ReceiveUdpKeepsOnce ==
    ASSUME MultipathInv, SentOnce, NEW p \in Paths, ReceiveUdp(p)
    PROVE  SentOnce'
<1>. SUFFICES ASSUME active', ~ late'
              PROVE  /\ qp'[0].nxt + qp'[1].nxt <= FlowSize
                     /\ \A q \in Paths :
                           OnePath(data[q], answers[q], Expected(q), qp[q].nxt, Asked(q))'
  BY DEF SentOnce
<1>. DEFINE r   == RxQp[p]
            pkt == data[p][1]
            r2  == AfterPacket(r, pkt)
            ans == AnswerTo(r, pkt)
<1>1. /\ 1 \in DOMAIN data[p]
      /\ rx' = [RxQp EXCEPT ![p] = r2]
      /\ answers' = [answers EXCEPT ![p] = @ \o ans]
      /\ data' = [data EXCEPT ![p] = RemoveAt(@, 1)]
      /\ UNCHANGED <<qp, active>> /\ ~ late
  <2>1. PICK k \in Arriving(p) :
          /\ rx' = [RxQp EXCEPT ![p] = AfterPacket(RxQp[p], data[p][k])]
          /\ answers' = [answers EXCEPT ![p] = @ \o AnswerTo(RxQp[p], data[p][k])]
          /\ data' = [data EXCEPT ![p] = RemoveAt(@, k)]
          /\ late' = (late \/ k # 1)
    BY DEF ReceiveUdp
  <2>2. k = 1 /\ ~ late
    BY <2>1
  <2>. QED  BY <2>1, <2>2 DEF Arriving, ReceiveUdp
<1>2. RxQp \in [Paths -> Receiver] /\ r \in Receiver /\ pkt \in Fitting
      /\ data \in [Paths -> Seq(Data)] /\ answers \in [Paths -> Seq(Answer)]
  BY <1>1, RxQpType DEF MultipathInv, MultipathTypeOK, PacketsFit
<1>3. r2 \in Receiver /\ ans \in Seq(Covered(r2.expected))
  BY <1>2, ReceiverSteps
<1>. HIDE DEF r2, ans
<1>4. rx' \in [Paths -> Receiver] /\ rx' # NoQp /\ RxQp' = rx' /\ rx'[p] = r2
      /\ \A q \in Paths : q # p => rx'[q] = RxQp[q]
  BY <1>1, <1>2, <1>3, NoQpAssumption DEF RxQp
<1>5. ASSUME NEW q \in Paths
      PROVE  Asked(q) <=> RxQp[q].nackTimer /\ RxQp[q].lastNACK = RxQp[q].expected
  BY <1>2 DEF Asked, RxQp, NewRxQp
<1>6. ASSUME NEW q \in Paths
      PROVE  /\ Expected(q)' = rx'[q].expected
             /\ Asked(q)' <=> rx'[q].nackTimer /\ rx'[q].lastNACK = rx'[q].expected
  BY <1>4 DEF Asked, Expected
<1>7. qp[0].nxt + qp[1].nxt <= FlowSize
      /\ \A q \in Paths : OnePath(data[q], answers[q], Expected(q), qp[q].nxt, Asked(q))
  BY <1>1 DEF SentOnce
<1>. DEFINE D == data[p]
            E == RemoveAt(D, 1)
            A == answers[p]
            B == A \o ans
            n == qp[p].nxt
            e == Expected(p)
<1>8. D \in Seq(Data) /\ A \in Seq(Answer) /\ e \in Nat /\ n \in Nat /\ Asked(p) \in BOOLEAN
  BY OnePathTypes
<1>9. E \in Seq(Data) /\ Without(D, 1, E) /\ 1 \in 1 .. Len(D)
  BY <1>1, <1>8, RemoveAtType, RemoveAtElements
<1>10. data'[p] = E /\ answers'[p] = B /\ B \in Seq(Answer)
  <2>1. ans \in Seq(Answer)
    BY <1>3, SeqMonotone DEF Covered
  <2>. QED  BY <2>1, <1>1, <1>2, <1>8, ConcatType
<1>11. OnePath(D, A, e, n, Asked(p)) /\ e = r.expected /\ pkt = D[1] /\ pkt \in Data
  BY <1>7, <1>2 DEF Expected, Fitting
<1>. HIDE DEF D, E, A, n, e, r, pkt
<1>12. OnePath(E, B, rx'[p].expected, n, Asked(p)')
  <2>1. CASE InOrder(r, pkt)
    <3>1. r2.expected = e + D[1].size /\ ans = <<[kind |-> "ack", seq |-> r.expected + pkt.size]>>
      BY <2>1, <1>2, <1>11 DEF r2, ans, AfterPacket, AnswerTo, Receiver
    <3>2. pkt.seq = e
      BY <2>1, <1>11 DEF InOrder
    <3>3. [kind |-> "ack", seq |-> r.expected + pkt.size] \in Answer
      BY <1>3, <3>1 DEF Covered
    <3>4. Nacks(B) = Nacks(A)
      BY <3>1, <3>3, <1>8, NacksAppend
    <3>5. OnePath(E, B, e + D[1].size, n, Asked(p)')
      BY <3>2, <3>4, <1>8, <1>9, <1>10, <1>11, PathTakes
    <3>. QED  BY <3>1, <3>5, <1>4
  <2>2. CASE ~ InOrder(r, pkt) /\ NackDue(r, pkt)
    <3>1. r2 = [r EXCEPT !.lastNACK = r.expected, !.nackTimer = TRUE]
          /\ ans = <<[kind |-> "nack", seq |-> r.expected]>>
      BY <2>2 DEF r2, ans, AfterPacket, AnswerTo
    <3>2. r2.expected = e /\ r2.lastNACK = e /\ r2.nackTimer
      BY <3>1, <1>2, <1>11 DEF Receiver
    <3>3. Asked(p)' = TRUE
      BY <3>2, <1>4, <1>6
    <3>4. Asked(p) = FALSE
      BY <2>2, <1>5, <1>8 DEF NackDue, r
    <3>5. D[1].seq > e
      BY <2>2, <1>11 DEF NackDue
    <3>6. [kind |-> "nack", seq |-> e] \in Answer
      BY <1>3, <3>1, <1>11 DEF Covered
    <3>7. Nacks(B) = Nacks(A) \cup {Len(A) + 1} /\ B[Len(A) + 1].seq = e
      BY <3>1, <3>6, <1>8, <1>11, NacksAppend
    <3>8. OnePath(D, A, e, n, FALSE)
      BY <3>4, <1>11
    <3>9. OnePath(E, B, e, n, TRUE)
      BY <3>5, <3>7, <3>8, <1>8, <1>9, <1>10, PathAsks
    <3>. QED  BY <3>2, <3>3, <3>9, <1>4
  <2>3. CASE ~ InOrder(r, pkt) /\ ~ NackDue(r, pkt)
    <3>1. r2 = r /\ ans = <<>>
      BY <2>3 DEF r2, ans, AfterPacket, AnswerTo
    <3>2. B = A
      BY <3>1, <1>8
    <3>3. Asked(p)' = Asked(p) /\ rx'[p].expected = e
      <4>1. Asked(p)' <=> Asked(p)
        BY <3>1, <1>4, <1>5, <1>6 DEF r
      <4>2. Asked(p)' \in BOOLEAN /\ Asked(p) \in BOOLEAN
        BY DEF Asked
      <4>. QED  BY <4>1, <4>2, <3>1, <1>4, <1>11
    <3>4. OnePath(E, A, e, n, Asked(p))
      BY <1>8, <1>9, <1>11, PathDrops
    <3>. QED  BY <3>2, <3>3, <3>4
  <2>. QED  BY <2>1, <2>2, <2>3
<1>13. ASSUME NEW q \in Paths
       PROVE  OnePath(data[q], answers[q], Expected(q), qp[q].nxt, Asked(q))'
  <2>1. CASE q = p
    BY <2>1, <1>1, <1>6, <1>10, <1>12 DEF n
  <2>2. CASE q # p
    <3>1. Expected(q)' = Expected(q) /\ Asked(q)' = Asked(q)
      <4>1. Asked(q)' \in BOOLEAN /\ Asked(q) \in BOOLEAN
        BY DEF Asked
      <4>2. Asked(q)' <=> Asked(q)
        BY <2>2, <1>4, <1>5, <1>6
      <4>3. Expected(q)' = Expected(q)
        BY <2>2, <1>4, <1>6 DEF Expected
      <4>. QED  BY <4>1, <4>2, <4>3
    <3>2. data'[q] = data[q] /\ answers'[q] = answers[q] /\ qp'[q].nxt = qp[q].nxt
      BY <2>2, <1>1, <1>2
    <3>. QED  BY <3>1, <3>2, <1>7
  <2>. QED  BY <2>1, <2>2
<1>. QED  BY <1>1, <1>7, <1>13

LEMMA NackTimerKeepsOnce ==
    ASSUME MultipathInv, SentOnce, NEW p \in Paths, NackTimerExpires(p)
    PROVE  SentOnce'
<1>. SUFFICES ASSUME active', ~ late'
              PROVE  /\ qp'[0].nxt + qp'[1].nxt <= FlowSize
                     /\ \A q \in Paths :
                           OnePath(data[q], answers[q], Expected(q), qp[q].nxt, Asked(q))'
  BY DEF SentOnce
<1>1. rx \in [Paths -> Receiver] /\ rx # NoQp
  BY DEF MultipathInv, MultipathTypeOK, NackTimerExpires
<1>2. rx' = [rx EXCEPT ![p].nackTimer = FALSE] /\ UNCHANGED <<qp, active, data, answers>>
      /\ ~ late /\ rx[p].lastNACK # rx[p].expected
  BY DEF NackTimerExpires
<1>3. /\ rx' \in [Paths -> Receiver]
      /\ \A q \in Paths : rx'[q].expected = rx[q].expected /\ rx'[q].lastNACK = rx[q].lastNACK
      /\ \A q \in Paths : q # p => rx'[q] = rx[q]
  BY <1>1, <1>2 DEF Receiver
<1>4. rx' # NoQp
  BY <1>3, NoQpAssumption
<1>5. ASSUME NEW q \in Paths PROVE Expected(q)' = Expected(q) /\ Asked(q)' = Asked(q)
  <2>1. Expected(q)' = Expected(q)
    <3>1. RxQp' = rx' /\ RxQp = rx
      BY <1>1, <1>4 DEF RxQp
    <3>. QED  BY <3>1, <1>3 DEF Expected
  <2>2. Asked(q)' <=> Asked(q)
    BY <1>1, <1>2, <1>3, <1>4 DEF Asked
  <2>3. Asked(q)' \in BOOLEAN /\ Asked(q) \in BOOLEAN
    BY DEF Asked
  <2>. QED  BY <2>1, <2>2, <2>3
<1>. QED  BY <1>2, <1>5 DEF SentOnce

LEMMA ReceiveAckKeepsOnce ==
    ASSUME AcksCount, MultipathInv, SentOnce, NEW p \in Paths, ReceiveAck(p)
    PROVE  SentOnce'
<1>. SUFFICES ASSUME active', ~ late'
              PROVE  /\ qp'[0].nxt + qp'[1].nxt <= FlowSize
                     /\ \A q \in Paths :
                           OnePath(data[q], answers[q], Expected(q), qp[q].nxt, Asked(q))'
  BY DEF SentOnce
<1>. DEFINE a == Head(answers[p])
            B == Tail(answers[p])
<1>1. /\ answers[p] # <<>> /\ answers' = [answers EXCEPT ![p] = B]
      /\ UNCHANGED <<data, late>> /\ active
      /\ qp' = IF a.kind = "nack" THEN RecoverQueue(Acked(p, a), p) ELSE Acked(p, a)
      /\ active' = ~ Completes(p, a)
      /\ rx' = IF Completes(p, a) THEN NoQp ELSE rx
  BY DEF ReceiveAck
<1>2. UNCHANGED rx
  BY <1>1
<1>3. qp \in [Paths -> Sender] /\ answers \in [Paths -> Seq(Answer)]
      /\ 0 \in Paths /\ 1 \in Paths /\ p \in {0, 1}
  BY DEF MultipathInv, MultipathTypeOK, Paths
<1>4. /\ 1 \in 1 .. Len(answers[p]) /\ a = answers[p][1] /\ a \in Answer
      /\ B \in Seq(Answer) /\ Without(answers[p], 1, B)
  BY <1>1, <1>3, TailElements, HeadTailProperties
<1>5. /\ qp[0].nxt + qp[1].nxt <= FlowSize
      /\ \A q \in Paths : OnePath(data[q], answers[q], Expected(q), qp[q].nxt, Asked(q))
      /\ qp[p].una <= Expected(p) /\ a.seq <= Expected(p)
  <2>1. a \in Covered(Expected(p)) /\ qp[p].una <= Expected(p)
    BY <1>1, <1>4 DEF MultipathInv, AnswersCovered
  <2>. QED  BY <2>1, <1>1, <1>2 DEF SentOnce, Covered
<1>. HIDE DEF a, B
<1>6. \A q \in Paths : Expected(q)' = Expected(q) /\ Asked(q)' = Asked(q)
  BY <1>2 DEF Expected, Asked, RxQp
<1>7. Acked(p, a) = [qp EXCEPT ![p].una = IF a.seq > @ THEN a.seq ELSE @]
  BY DEF Acked, Acknowledge, AcksCount
<1>8. /\ Acked(p, a) \in [Paths -> Sender]
      /\ \A q \in Paths : Acked(p, a)[q].nxt = qp[q].nxt
      /\ Acked(p, a)[p].una = IF a.seq > qp[p].una THEN a.seq ELSE qp[p].una
  BY <1>3, <1>4, <1>7 DEF Sender, Answer
<1>9. \A q \in Paths : q # p => qp'[q].nxt = qp[q].nxt /\ answers'[q] = answers[q]
  BY <1>1, <1>3, <1>8 DEF RecoverQueue, Sender
<1>10. answers'[p] = B
  BY <1>1, <1>3
<1>11. OnePath(data[p], B, Expected(p), qp'[p].nxt, Asked(p)) /\ qp'[p].nxt <= qp[p].nxt
  <2>1. CASE a.kind = "nack"
    <3>1. 1 \in Nacks(answers[p])
      BY <2>1, <1>4 DEF Nacks
    <3>2. a.seq = Expected(p) /\ Expected(p) < qp[p].nxt
          /\ OnePath(data[p], B, Expected(p), Expected(p), Asked(p))
      BY <3>1, <1>4, <1>5, OnePathTypes, PathGoesBack
    <3>3. Acked(p, a)[p].una = Expected(p)
      BY <3>2, <1>5, <1>8, OnePathTypes
    <3>4. qp'[p].nxt = Expected(p)
      BY <3>3, <2>1, <1>1, <1>8 DEF RecoverQueue, Sender
    <3>. QED  BY <3>2, <3>4, OnePathTypes
  <2>2. CASE a.kind # "nack"
    <3>1. qp'[p].nxt = qp[p].nxt
      BY <2>2, <1>1, <1>8
    <3>2. OnePath(data[p], B, Expected(p), qp[p].nxt, Asked(p))
      BY <1>4, <1>5, OnePathTypes, PathLosesAnswer
    <3>. QED  BY <3>1, <3>2, OnePathTypes
  <2>. QED  BY <2>1, <2>2
<1>12. qp'[0].nxt + qp'[1].nxt <= FlowSize
  <2>1. qp' \in [Paths -> Sender]
    BY <1>1, <1>8 DEF RecoverQueue, Sender
  <2>2. qp'[0].nxt <= qp[0].nxt /\ qp'[1].nxt <= qp[1].nxt
    BY <1>3, <1>9, <1>11, OnePathTypes
  <2>3. qp'[0].nxt \in Nat /\ qp'[1].nxt \in Nat /\ qp[0].nxt \in Nat /\ qp[1].nxt \in Nat
    BY <2>1, <1>3, OnePathTypes, MultipathAssumption DEF Sender, Offsets
  <2>. QED  BY <2>2, <2>3, <1>5, MultipathAssumption
<1>13. ASSUME NEW q \in Paths
       PROVE  OnePath(data[q], answers[q], Expected(q), qp[q].nxt, Asked(q))'
  BY <1>1, <1>5, <1>6, <1>9, <1>10, <1>11
<1>. QED  BY <1>12, <1>13

LEMMA LoseKeepsOnce ==
    ASSUME MultipathInv, SentOnce, NEW p \in Paths, Lose(p)
    PROVE  SentOnce'
<1>1. UNCHANGED <<qp, active, rx, late>>
  BY DEF Lose
<1>2. \A q \in Paths : Expected(q)' = Expected(q) /\ Asked(q)' = Asked(q)
  BY <1>1 DEF Expected, Asked, RxQp
<1>. SUFFICES ASSUME active, ~ late, NEW q \in Paths
              PROVE  OnePath(data'[q], answers'[q], Expected(q), qp[q].nxt, Asked(q))
  BY <1>1, <1>2 DEF SentOnce
<1>3. OnePath(data[q], answers[q], Expected(q), qp[q].nxt, Asked(q))
  BY DEF SentOnce
<1>4. data \in [Paths -> Seq(Data)] /\ answers \in [Paths -> Seq(Answer)]
  BY DEF MultipathInv, MultipathTypeOK
<1>5. CASE LoseData(p)
  <2>1. PICK k \in DOMAIN data[p] : data' = [data EXCEPT ![p] = RemoveAt(@, k)]
    BY <1>5 DEF LoseData
  <2>2. answers' = answers
    BY <1>5 DEF LoseData
  <2>3. CASE q # p
    BY <2>1, <2>2, <2>3, <1>3, <1>4
  <2>4. CASE q = p
    <3>1. k \in 1 .. Len(data[q]) /\ data'[q] \in Seq(Data) /\ Without(data[q], k, data'[q])
      BY <2>1, <2>4, <1>4, RemoveAtType, RemoveAtElements
    <3>. QED  BY <3>1, <2>2, <1>3, PathDrops, OnePathTypes
  <2>. QED  BY <2>3, <2>4
<1>6. CASE LoseAnswer(p)
  <2>1. PICK k \in DOMAIN answers[p] : answers' = [answers EXCEPT ![p] = RemoveAt(@, k)]
    BY <1>6 DEF LoseAnswer
  <2>2. data' = data
    BY <1>6 DEF LoseAnswer
  <2>3. CASE q # p
    BY <2>1, <2>2, <2>3, <1>3, <1>4
  <2>4. CASE q = p
    <3>1. k \in 1 .. Len(answers[q]) /\ answers'[q] \in Seq(Answer)
          /\ Without(answers[q], k, answers'[q])
      BY <2>1, <2>4, <1>4, RemoveAtType, RemoveAtElements
    <3>. QED  BY <3>1, <2>2, <1>3, PathLosesAnswer, OnePathTypes
  <2>. QED  BY <2>3, <2>4
<1>. QED  BY <1>5, <1>6 DEF Lose

LEMMA SentOnceInductive ==
    ASSUME AcksCount
    PROVE  MultipathInv /\ SentOnce /\ [MultipathNext]_multipathVars => SentOnce'
<1>. SUFFICES ASSUME MultipathInv, SentOnce, [MultipathNext]_multipathVars PROVE SentOnce'
  OBVIOUS
<1>1. CASE UNCHANGED multipathVars
  BY <1>1 DEF multipathVars, SentOnce, Expected, Asked, RxQp
<1>2. ASSUME NEW p \in Paths,
             Send(p) \/ ReceiveUdp(p) \/ NackTimerExpires(p) \/ ReceiveAck(p) \/ Lose(p)
      PROVE  SentOnce'
  BY <1>2, SendKeepsOnce, ReceiveUdpKeepsOnce, NackTimerKeepsOnce, ReceiveAckKeepsOnce,
     LoseKeepsOnce
<1>. QED  BY <1>1, <1>2 DEF MultipathNext

(* While the flow is active and no byte has been asked for twice, each     *)
(* path's sender is never behind its receiver nor sent back behind it,     *)
(* and the two paths together send the flow's bytes once.                  *)
THEOREM MultipathSendsOnce == AcksCount => (MultipathSpec => []SentOnce)
<1>. SUFFICES ASSUME AcksCount PROVE MultipathSpec => []SentOnce
  OBVIOUS
<1>1. MultipathInit => SentOnce
  <2>. SUFFICES ASSUME MultipathInit PROVE SentOnce
    OBVIOUS
  <2>1. \A p \in Paths : Expected(p) = 0 /\ qp[p].nxt = 0 /\ data[p] = <<>> /\ answers[p] = <<>>
    BY DEF MultipathInit, Expected, RxQp, NewRxQp
  <2>2. qp[0].nxt + qp[1].nxt <= FlowSize
    BY <2>1, MultipathAssumption DEF Paths
  <2>3. ASSUME NEW asked PROVE OnePath(<<>>, <<>>, 0, 0, asked)
    <3>1. Split(<<>>, 0, 0, 0) /\ Nacks(<<>>) = {}
      BY DEF Split, Nacks
    <3>2. 0 \in 0 .. Len(<<>>)
      OBVIOUS
    <3>. QED  BY <3>1, <3>2 DEF OnePath
  <2>. QED  BY <2>1, <2>2, <2>3 DEF SentOnce
<1>. QED  BY <1>1, SentOnceInductive, MultipathInvariant, PTL DEF MultipathSpec

(* Until a byte is asked for twice, the receiver of an active flow has     *)
(* never taken more than the flow's size over the two paths together.      *)
NothingTakenTwice == active /\ ~ late => Expected(0) + Expected(1) <= FlowSize

(* NothingTakenTwice holds, where acknowledgements count.                  *)
THEOREM MultipathTakesOnce == AcksCount => (MultipathSpec => []NothingTakenTwice)
<1>. SUFFICES ASSUME AcksCount PROVE MultipathSpec => []NothingTakenTwice
  OBVIOUS
<1>1. MultipathInv /\ SentOnce => NothingTakenTwice
  <2>. SUFFICES ASSUME MultipathInv, SentOnce, active, ~ late
                PROVE  Expected(0) + Expected(1) <= FlowSize
    BY DEF NothingTakenTwice
  <2>1. \A p \in Paths : Expected(p) <= qp[p].nxt /\ Expected(p) \in Nat /\ qp[p].nxt \in Nat
    BY OnePathTypes DEF SentOnce, OnePath
  <2>. QED  BY <2>1, MultipathAssumption DEF SentOnce, Paths
<1>. QED  BY <1>1, MultipathInvariant, MultipathSendsOnce, PTL

(* The window's difference does not wrap: until a byte is asked for twice, *)
(* no path has more acknowledged than sent.                                *)
AckedIsSent == active /\ ~ late => \A p \in Paths : qp[p].una <= qp[p].nxt

(* AckedIsSent holds, where acknowledgements count: an active flow stops   *)
(* at its window only for bytes that are in flight.                        *)
THEOREM MultipathWindow == AcksCount => (MultipathSpec => []AckedIsSent)
<1>. SUFFICES ASSUME AcksCount PROVE MultipathSpec => []AckedIsSent
  OBVIOUS
<1>1. MultipathInv /\ SentOnce => AckedIsSent
  <2>. SUFFICES ASSUME MultipathInv, SentOnce, active, ~ late, NEW p \in Paths
                PROVE  qp[p].una <= qp[p].nxt
    BY DEF AckedIsSent
  <2>1. qp[p].una <= Expected(p) /\ Expected(p) <= qp[p].nxt
    BY DEF MultipathInv, AnswersCovered, SentOnce, OnePath
  <2>. QED  BY <2>1, OnePathTypes
<1>. QED  BY <1>1, MultipathInvariant, MultipathSendsOnce, PTL

-----------------------------------------------------------------------------
(* DeliversUntilLate.                                                      *)

LEMMA ExpectedType ==
    ASSUME MultipathTypeOK
    PROVE  \A p \in Paths : Expected(p) \in Nat
BY RxQpType DEF Expected, Receiver, Offsets

(* While the flow is active, what is expected of a path only grows, and    *)
(* only with a packet that arrives there.                                  *)
LEMMA ExpectedGrows ==
    ASSUME MultipathInv, MultipathInv', [MultipathNext]_multipathVars, active, active'
    PROVE  \A p \in Paths : Expected(p)' >= Expected(p)
<1>1. /\ \A p \in Paths : Expected(p) \in Nat
      /\ RxQp \in [Paths -> Receiver]
      /\ rx = NoQp \/ rx \in [Paths -> Receiver]
  BY ExpectedType, RxQpType DEF MultipathInv, MultipathTypeOK
<1>2. CASE UNCHANGED rx
  BY <1>1, <1>2 DEF Expected, RxQp
<1>3. ASSUME NEW p \in Paths, ReceiveUdp(p) PROVE \A q \in Paths : Expected(q)' >= Expected(q)
  <2>1. PICK k \in DOMAIN data[p] : rx' = [RxQp EXCEPT ![p] = AfterPacket(RxQp[p], data[p][k])]
    BY <1>3 DEF ReceiveUdp, Arriving
  <2>2. data[p][k] \in Fitting
    BY DEF MultipathInv, PacketsFit
  <2>3. RxQp[p] \in Receiver
    BY <1>1
  <2>4. /\ AfterPacket(RxQp[p], data[p][k]) \in Receiver
        /\ AfterPacket(RxQp[p], data[p][k]).expected >= RxQp[p].expected
    BY <2>2, <2>3, ReceiverSteps
  <2>. DEFINE r == AfterPacket(RxQp[p], data[p][k])
              old == RxQp
  <2>5. rx' = [old EXCEPT ![p] = r] /\ old \in [Paths -> Receiver] /\ r \in Receiver
        /\ r.expected >= old[p].expected
    BY <1>1, <2>1, <2>4
  <2>6. \A q \in Paths : old[q].expected \in Nat
    BY <1>1 DEF Expected
  <2>. HIDE DEF r, old
  <2>7. rx' \in [Paths -> Receiver] /\ rx' # NoQp
    BY ONLY <2>5, NoQpAssumption
  <2>8. \A q \in Paths : rx'[q].expected >= old[q].expected
    <3>. SUFFICES ASSUME NEW q \in Paths PROVE rx'[q].expected >= old[q].expected
      OBVIOUS
    <3>1. CASE q = p
      BY ONLY <2>5, <3>1, p \in Paths
    <3>2. CASE q # p
      <4>1. rx'[q] = old[q]
        BY ONLY <2>5, <3>2, q \in Paths
      <4>. QED  BY <2>6, <4>1
    <3>. QED  BY <3>1, <3>2
  <2>. QED  BY <2>7, <2>8 DEF Expected, RxQp, old
<1>4. ASSUME NEW p \in Paths, NackTimerExpires(p)
      PROVE  \A q \in Paths : Expected(q)' >= Expected(q)
  <2>1. rx # NoQp /\ rx' = [rx EXCEPT ![p].nackTimer = FALSE] /\ rx \in [Paths -> Receiver]
    BY <1>1, <1>4 DEF NackTimerExpires
  <2>2. \A q \in Paths : rx'[q].expected = rx[q].expected
    BY <2>1 DEF Receiver
  <2>3. rx' # NoQp
    BY <2>1, NoQpAssumption DEF Receiver
  <2>. QED  BY <1>1, <2>1, <2>2, <2>3 DEF Expected, RxQp
<1>5. ASSUME NEW p \in Paths, ReceiveAck(p) PROVE UNCHANGED rx
  BY <1>5 DEF ReceiveAck
<1>. QED  BY <1>2, <1>3, <1>4, <1>5 DEF MultipathNext, Send, Lose, multipathVars

(* DeliversUntilLate holds, where acknowledgements count: until a byte is  *)
(* asked for twice, the multipath transport keeps the promise of the       *)
(* single-path one.  A packet in order takes bytes, the answer that        *)
(* finishes the flow reports, and nothing else changes what is promised.   *)
THEOREM MultipathDelivers == AcksCount => (MultipathSpec => DeliversUntilLate)
<1>. SUFFICES ASSUME AcksCount PROVE MultipathSpec => DeliversUntilLate
  OBVIOUS
<1>1. MultipathInit => Promise!DeliveryInit
  <2>. SUFFICES ASSUME MultipathInit PROVE Promise!DeliveryInit
    OBVIOUS
  <2>1. active /\ Expected(0) = 0 /\ Expected(1) = 0
    BY DEF MultipathInit, Expected, RxQp, NewRxQp, Paths
  <2>. QED  BY <2>1 DEF Promise!DeliveryInit
<1>2. ASSUME MultipathInv, MultipathInv', NothingTakenTwice, NothingTakenTwice',
             [MultipathNext]_multipathVars
      PROVE  [late' \/ Promise!Take \/ Promise!Report]_Promise!deliveryVars
  <2>. DEFINE sum == Expected(0) + Expected(1)
              new == Expected(0)' + Expected(1)'
  <2>. SUFFICES ASSUME ~ late'
                PROVE  Promise!Take \/ Promise!Report \/ UNCHANGED Promise!deliveryVars
    OBVIOUS
  <2>1. Expected(0) \in Nat /\ Expected(1) \in Nat /\ Expected(0)' \in Nat /\ Expected(1)' \in Nat
    <3>1. \A p \in Paths : Expected(p) \in Nat
      BY <1>2, ExpectedType DEF MultipathInv
    <3>2. rx' \in [Paths -> Receiver] \/ rx' = NoQp
      BY <1>2 DEF MultipathInv, MultipathTypeOK
    <3>3. \A p \in Paths : Expected(p)' \in Nat
      BY <3>2 DEF Expected, RxQp, NewRxQp, Receiver, Offsets
    <3>. QED  BY <3>1, <3>3 DEF Paths
  <2>2. ~ late
    BY <1>2 DEF MultipathNext, Send, ReceiveUdp, NackTimerExpires, ReceiveAck, Lose,
                multipathVars
  <2>3. ~ active => ~ active'
    BY <1>2 DEF MultipathNext, Send, ReceiveUdp, NackTimerExpires, ReceiveAck, Lose,
                multipathVars
  <2>4. CASE ~ active
    BY <2>3, <2>4 DEF Promise!deliveryVars
  <2>5. CASE active /\ active'
    <3>1. new >= sum /\ new <= FlowSize /\ sum \in Nat /\ new \in Nat
      BY <1>2, <2>1, <2>2, <2>5, ExpectedGrows DEF NothingTakenTwice, Paths
    <3>. HIDE DEF sum, new
    <3>2. CASE new = sum
      BY <2>5, <3>2 DEF Promise!deliveryVars, sum, new
    <3>3. CASE new > sum
      <4>1. new \in 1 .. FlowSize /\ sum \in 0 .. new - 1
        BY <3>1, <3>3, MultipathAssumption
      <4>. QED  BY <2>5, <4>1 DEF Promise!Take, sum, new
    <3>. QED  BY <3>1, <3>2, <3>3
  <2>6. CASE active /\ ~ active'
    <3>1. sum = FlowSize
      BY <1>2, <2>1, <2>2, <2>6, CompletesTaken, MultipathAssumption DEF NothingTakenTwice
    <3>. QED  BY <2>6, <3>1 DEF Promise!Report
  <2>. QED  BY <2>4, <2>5, <2>6
<1>. QED  BY <1>1, <1>2, MultipathInvariant, MultipathTakesOnce, PTL
          DEF MultipathSpec, DeliversUntilLate
=============================================================================
