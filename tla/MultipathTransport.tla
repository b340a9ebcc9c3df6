------------------------ MODULE MultipathTransport ------------------------
(***************************************************************************)
(* The multipath mode of the transport (m_mp_mode of RdmaHw): one flow over*)
(* two paths, 0 through the optical switches and 1 through the electric    *)
(* ones.  Each path has its own sequence numbers at both ends; the window, *)
(* what is left to send and completion count the two paths together.  What *)
(* a path loses is sent again on whichever path is next.                   *)
(*                                                                         *)
(* The network is a pair of FIFO channels per path, from which messages    *)
(* may be lost; on a path of Reordering a packet may overtake the one      *)
(* before it, an answer never does. An answer takes the path of the packet *)
(* it answers.                                                             *)
(***************************************************************************)
EXTENDS Integers, SequencesExt

CONSTANTS
    FlowSize,       \* m_size
    Mtu,            \* payload of a full packet
    AckInterval,    \* L2AckInterval
    BackToZero,     \* L2BackToZero
    Window,         \* m_win, 0 when the window is off
    Uint64,         \* 2^64 in the code: the range of the bytes on the fly
    Reordering,     \* the paths that may reorder packets
    MaxLost,        \* bound on the number of messages lost
    MaxOvertakes,   \* bound on the number of packets that overtake another
    MaxInFlight,    \* bound on the messages in a channel
    NoQp            \* no receiver queue pair in m_rxQpMap

Paths == {0, 1}

ASSUME MultipathAssumption ==
    /\ FlowSize \in Nat \ {0} /\ Mtu \in Nat \ {0}
    /\ AckInterval \in Nat /\ BackToZero \in BOOLEAN
    /\ Window \in Nat
    /\ Uint64 \in Nat /\ 2 * FlowSize < Uint64
    /\ Reordering \subseteq Paths
    /\ MaxLost \in Nat /\ MaxOvertakes \in Nat /\ MaxInFlight \in Nat \ {0}

VARIABLES
    qp,         \* per path path_snd_nxt and path_snd_una
    active,     \* m_qpMap still has the sender's queue pair
    rx,         \* per path the receiver's counters, or NoQp
    data,       \* per path, data packets on their way
    answers,    \* per path, ACKs and NACKs on their way
    lost,       \* messages lost so far
    overtakes,  \* packets that overtook another so far
    late,       \* history: a NACK timer expired before its gap was filled, or a packet was
                \* overtaken: in both cases a byte may be asked for twice
    cut         \* history: a loss nothing behind it can reveal

multipathVars == <<qp, active, rx, data, answers, lost, overtakes, late, cut>>

Offsets == 0 .. FlowSize
Data    == [seq : Offsets, size : 1 .. Mtu]
Answer  == [kind : {"ack", "nack"}, seq : Offsets]

(* nackTimer: path_nackTimer still lies ahead.                             *)
Sender   == [nxt : Offsets, una : Offsets]
Receiver == [expected : Offsets, lastNACK : Offsets, nackTimer : BOOLEAN]

ASSUME NoQpAssumption == NoQp \notin [Paths -> Receiver]

MultipathTypeOK ==
    /\ qp \in [Paths -> Sender] /\ active \in BOOLEAN
    /\ rx \in [Paths -> Receiver] \cup {NoQp}
    /\ data \in [Paths -> Seq(Data)] /\ answers \in [Paths -> Seq(Answer)]
    /\ lost \in 0 .. MaxLost /\ overtakes \in 0 .. MaxOvertakes
    /\ late \in BOOLEAN /\ cut \in BOOLEAN

MultipathInit ==
    /\ qp = [p \in Paths |-> [nxt |-> 0, una |-> 0]] /\ active = TRUE
    /\ rx = NoQp
    /\ data = [p \in Paths |-> <<>>] /\ answers = [p \in Paths |-> <<>>]
    /\ lost = 0 /\ overtakes = 0 /\ late = FALSE /\ cut = FALSE

-----------------------------------------------------------------------------
(* The sender.                                                             *)

Minus(a, b) == IF a >= b THEN a - b ELSE 0

(* An operator marked (mutant) is a mistaken version of one below it, which*)
(* the run must tell apart: here a path, and the bytes in flight, are      *)
(* forgotten.                                                              *)
LeftOfOnePath == Minus(FlowSize, qp[1].nxt)                             \* (mutant)
LeftUnacked   == Minus(FlowSize, qp[0].una + qp[1].una)                 \* (mutant)

BytesLeft == Minus(FlowSize, qp[0].nxt + qp[1].nxt)

OnTheFly == ((qp[0].nxt - qp[0].una) + (qp[1].nxt - qp[1].una)) % Uint64
(* GetWin with m_var_win off, the default, as in RdmaTransport.            *)
WinBound == Window # 0 /\ OnTheFly >= Window

FinishedSent(s) == s[0].nxt + s[1].nxt >= FlowSize                      \* (mutant)
IsFinished(s)   == s[0].una + s[1].una >= FlowSize

CanSend == BytesLeft > 0 /\ ~ WinBound

(* GetNxtPacket.  GetNxtPathId compares the delays last measured on the    *)
(* two paths, and alternates when they are close: either may be next.      *)
Send(p) ==
    /\ CanSend /\ Len(data[p]) < MaxInFlight
    /\ LET size == IF Mtu < BytesLeft THEN Mtu ELSE BytesLeft
       IN  /\ data' = [data EXCEPT ![p] = Append(@, [seq |-> qp[p].nxt, size |-> size])]
           /\ qp' = [qp EXCEPT ![p].nxt = @ + size]
    /\ UNCHANGED <<active, rx, answers, lost, overtakes, late, cut>>

(* With L2BackToZero the whole flow's counters are acknowledged, which the *)
(* multipath mode does not use.                                            *)
Acknowledge(s, p, ack) ==
    IF BackToZero THEN s ELSE [s EXCEPT ![p].una = IF ack > @ THEN ack ELSE @]

(* (mutant) The answer is taken for one of the other path.                 *)
RecoverOther(s, p) == [s EXCEPT ![1 - p].nxt = s[1 - p].una]
RecoverQueue(s, p) == [s EXCEPT ![p].nxt = s[p].una]

-----------------------------------------------------------------------------
(* The receiver.                                                           *)

NewRxQp == [p \in Paths |-> [expected |-> 0, lastNACK |-> 0, nackTimer |-> FALSE]]
RxQp    == IF rx = NoQp THEN NewRxQp ELSE rx

InOrder(r, pkt)  == pkt.seq = r.expected
NackDue(r, pkt)  == pkt.seq > r.expected /\ (~ r.nackTimer \/ r.lastNACK # r.expected)

(* ReceiverCheckSeq of a path: what becomes of the path's counters r ...   *)
AfterPacket(r, pkt) ==
    IF InOrder(r, pkt) THEN [r EXCEPT !.expected = @ + pkt.size]
    ELSE IF NackDue(r, pkt) THEN [r EXCEPT !.lastNACK = r.expected, !.nackTimer = TRUE]
    ELSE r

(* (mutant) The NACK names the packet that came.                           *)
AnswerWithSeq(r, pkt) ==
    IF InOrder(r, pkt) THEN <<[kind |-> "ack", seq |-> r.expected + pkt.size]>>
    ELSE IF NackDue(r, pkt) THEN <<[kind |-> "nack", seq |-> pkt.seq]>>
    ELSE <<>>

(* ... and the answer: every packet taken is acknowledged.                 *)
AnswerTo(r, pkt) ==
    IF InOrder(r, pkt) THEN <<[kind |-> "ack", seq |-> r.expected + pkt.size]>>
    ELSE IF NackDue(r, pkt) THEN <<[kind |-> "nack", seq |-> r.expected]>>
    ELSE <<>>

-----------------------------------------------------------------------------
Arriving(p) ==
    DOMAIN data[p] \cap IF p \in Reordering /\ overtakes < MaxOvertakes THEN {1, 2} ELSE {1}

ReceiveUdp(p) ==
    /\ Len(answers[p]) < MaxInFlight
    /\ \E k \in Arriving(p) :
          LET r   == RxQp[p]
              pkt == data[p][k]
          IN  /\ rx' = [RxQp EXCEPT ![p] = AfterPacket(r, pkt)]
              /\ answers' = [answers EXCEPT ![p] = @ \o AnswerTo(r, pkt)]
              /\ data' = [data EXCEPT ![p] = RemoveAt(@, k)]
              /\ overtakes' = overtakes + (k - 1)
              /\ late' = (late \/ k # 1)
    /\ UNCHANGED <<qp, active, lost, cut>>

NackTimerExpires(p) ==
    /\ rx # NoQp /\ rx[p].nackTimer
    /\ rx' = [rx EXCEPT ![p].nackTimer = FALSE]
    /\ late' = (late \/ rx[p].lastNACK = rx[p].expected)
    /\ UNCHANGED <<qp, active, data, answers, lost, overtakes, cut>>

(* ReceiveAck.  Completing (QpComplete, qp_finish) deletes both queue      *)
(* pairs, after which answers find none.                                   *)
Acked(p, a)    == IF AckInterval = 0 THEN qp ELSE Acknowledge(qp, p, a.seq)
Completes(p, a) == AckInterval # 0 /\ IsFinished(Acked(p, a))

ReceiveAck(p) ==
    /\ answers[p] # <<>>
    /\ answers' = [answers EXCEPT ![p] = Tail(@)]
    /\ LET a == Head(answers[p])
       IN  IF active
           THEN /\ qp' = IF a.kind = "nack" THEN RecoverQueue(Acked(p, a), p) ELSE Acked(p, a)
                /\ active' = ~ Completes(p, a)
                /\ rx' = IF Completes(p, a) THEN NoQp ELSE rx
           ELSE UNCHANGED <<qp, active, rx>>
    /\ UNCHANGED <<data, lost, overtakes, late, cut>>

(* What comes behind a lost message tells of the loss: a packet, of the    *)
(* gap, if the gap has not been asked for already; an answer, of what the  *)
(* lost one acknowledged.  Nothing else does, as no timer resends.         *)
Asked(p) == rx # NoQp /\ rx[p].nackTimer /\ rx[p].lastNACK = rx[p].expected

LoseData(p) ==
    \E k \in DOMAIN data[p] :
        /\ data' = [data EXCEPT ![p] = RemoveAt(@, k)]
        /\ cut' = (cut \/ k = Len(data[p]) \/ Asked(p))
        /\ UNCHANGED answers

LoseAnswer(p) ==
    \E k \in DOMAIN answers[p] :
        /\ answers' = [answers EXCEPT ![p] = RemoveAt(@, k)]
        /\ cut' = (cut \/ k = Len(answers[p]) \/ answers[p][k].kind = "nack")
        /\ UNCHANGED data

Lose(p) ==
    /\ lost < MaxLost /\ lost' = lost + 1
    /\ \/ LoseData(p)
       \/ LoseAnswer(p)
    /\ UNCHANGED <<qp, active, rx, overtakes, late>>

MultipathNext ==
    \E p \in Paths : \/ Send(p) \/ ReceiveUdp(p) \/ NackTimerExpires(p)
                     \/ ReceiveAck(p) \/ Lose(p)

MultipathSpec == MultipathInit /\ [][MultipathNext]_multipathVars

(* The NIC asks for packets as long as there are any, and the network      *)
(* delivers what it does not lose.                                         *)
FairMultipathSpec ==
    /\ MultipathSpec
    /\ WF_multipathVars(\E p \in Paths : Send(p))
    /\ \A p \in Paths : WF_multipathVars(ReceiveUdp(p)) /\ WF_multipathVars(ReceiveAck(p))

-----------------------------------------------------------------------------
Expected(p) == RxQp[p].expected

(* On neither path does an active sender believe that more has been taken  *)
(* than has, nor will an answer on its way make it believe so: the two     *)
(* paths' counters are never mixed up, whatever is lost or overtaken, and  *)
(* qp_finish finds the receiver's queue pair.                              *)
PathsAgree ==
    active => \A p \in Paths :
        /\ qp[p].una <= Expected(p)
        /\ \A k \in DOMAIN answers[p] : answers[p][k].seq <= Expected(p)

(* A flow completes only when the receiver has taken as many bytes as the  *)
(* flow has, over the two paths together.                                  *)
CompletedIsTaken ==
    [][active /\ ~ active' => Expected(0) + Expected(1) >= FlowSize]_multipathVars

(* The two paths together are one reliable transport, as Delivery          *)
(* specifies it of a single one: however lost bytes are sent again, on the *)
(* one path or the other, what the receiver has taken, counted over both,  *)
(* only grows, to the size of the flow and no further, and completion is   *)
(* reported once it is all there.  That is until a NACK is sent a second   *)
(* time or packets change order: then a stale NACK makes the sender forget *)
(* what the path has delivered, and it sends it again on the other.        *)
(* (After qp_finish a stale packet makes a receiver that counts anew.)     *)
Promise == INSTANCE Delivery WITH
    received <- 0 .. (IF active THEN Expected(0) + Expected(1) ELSE FlowSize) - 1,
    complete <- ~ active

DeliversUntilLate ==
    /\ Promise!DeliveryInit
    /\ [][late' \/ Promise!Take \/ Promise!Report]_Promise!deliveryVars

(* A flow whose losses are all told of by what comes behind them completes,*)
(* whichever paths its bytes take, unless a NACK is sent twice or packets  *)
(* change order (then snd_nxt may fall behind snd_una and the window, or   *)
(* the NACK timer, stops the flow for good).                               *)
FlowEnds == <>(~ active \/ cut \/ late)
=============================================================================
