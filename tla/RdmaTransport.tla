--------------------------- MODULE RdmaTransport ---------------------------
(***************************************************************************)
(* Go-back-N between two hosts (RdmaHw, RdmaQueuePair, RdmaRxQueuePair):   *)
(* one flow on one path.  The sender transmits what its window allows; the *)
(* receiver takes packets in order, answers with cumulative ACKs, and      *)
(* answers a gap with a NACK, which sends the sender back.  There is no    *)
(* retransmission timer.                                                   *)
(*                                                                         *)
(* The network is two channels, from which messages may be lost (corrupt   *)
(* frames, full buffers) and, when paths change under way (optical         *)
(* switches), taken out of order.  Rates, pauses and the NIC's scheduling  *)
(* only decide when Send happens.                                          *)
(***************************************************************************)
EXTENDS Integers, SequencesExt

CONSTANTS
    FlowSize,       \* m_size
    Mtu,            \* payload of a full packet
    Chunk,          \* L2ChunkSize
    AckInterval,    \* L2AckInterval
    BackToZero,     \* L2BackToZero
    Window,         \* m_win, 0 when the window is off
    Uint64,         \* 2^64 in the code: the range of snd_nxt - snd_una
    MayReorder,     \* the network may reorder messages
    Losable,        \* offsets: a data packet or an answer with such a seq may be lost
    MaxLost,        \* bound on the number of messages lost
    MaxInFlight,    \* bound on the messages in a channel
    NoQp            \* no receiver queue pair in m_rxQpMap

ASSUME TransportAssumption ==
    /\ FlowSize \in Nat \ {0} /\ Mtu \in Nat \ {0}
    /\ Chunk \in Nat \ {0}           \* ReceiverCheckSeq divides by it (rdma-hw.cc:546)
    /\ AckInterval \in Nat /\ Window \in Nat
    /\ Uint64 \in Nat /\ FlowSize < Uint64
    /\ BackToZero \in BOOLEAN /\ MayReorder \in BOOLEAN
    /\ Losable \subseteq 0 .. FlowSize
    /\ MaxLost \in Nat /\ MaxInFlight \in Nat \ {0}

VARIABLES
    qp,         \* the sender's queue pair; active: m_qpMap still has it
    rx,         \* the receiver's queue pair, or NoQp
    data,       \* data packets on their way
    answers,    \* ACKs and NACKs on their way
    lost,       \* messages lost so far
    taken       \* history: the bytes the receiver has taken

transportVars == <<qp, rx, data, answers, lost, taken>>

Offsets == 0 .. FlowSize

Data   == [seq : Offsets, size : 1 .. Mtu]
Answer == [kind : {"ack", "nack"}, seq : Offsets]

(* nackTimer: m_nackTimer still lies ahead.                                *)
Sender   == [snd_nxt : Offsets, snd_una : Offsets, active : BOOLEAN]
Receiver == [expected : Offsets, lastNACK : Offsets, nackTimer : BOOLEAN]

ASSUME NoQpAssumption == NoQp \notin Receiver

(* The queue pairs and the channels have their types.                      *)
TransportTypeOK ==
    /\ qp \in Sender /\ rx \in Receiver \cup {NoQp}
    /\ data \in Seq(Data) /\ answers \in Seq(Answer)
    /\ lost \in 0 .. MaxLost
    /\ taken \subseteq Offsets

TransportInit ==
    /\ qp = [snd_nxt |-> 0, snd_una |-> 0, active |-> TRUE]
    /\ rx = NoQp
    /\ data = <<>> /\ answers = <<>> /\ lost = 0 /\ taken = {}

-----------------------------------------------------------------------------
(* The sender.                                                             *)

BytesLeft == FlowSize - qp.snd_nxt
OnTheFly  == (qp.snd_nxt - qp.snd_una) % Uint64

(* GetWin with m_var_win off, the default; a window that shrinks with the  *)
(* rate only forbids more.                                                 *)
WinBound == Window # 0 /\ OnTheFly >= Window

(* An operator marked (mutant) is a mistaken version of the one below it,  *)
(* which a run must tell apart: a queue pair with nothing left is taken.   *)
CanSendEmpty == BytesLeft >= 0 /\ Len(data) < MaxInFlight

(* The NIC takes the queue pair's next packet.  A finished queue pair      *)
(* leaves the NIC's group only once it could not send anyway.              *)
CanSend == BytesLeft > 0 /\ ~ WinBound /\ Len(data) < MaxInFlight

Send ==
    /\ CanSend
    /\ LET size == IF Mtu < BytesLeft THEN Mtu ELSE BytesLeft
       IN  /\ data' = Append(data, [seq |-> qp.snd_nxt, size |-> size])
           /\ qp' = [qp EXCEPT !.snd_nxt = @ + size]
    /\ UNCHANGED <<rx, answers, lost, taken>>

(* (mutant) Rounded the wrong way.                                         *)
RoundUp(seq) == IF BackToZero THEN ((seq + Chunk - 1) \div Chunk) * Chunk ELSE seq

(* backto0: a sequence number counts only up to its chunk.                 *)
RoundDown(seq) == IF BackToZero THEN (seq \div Chunk) * Chunk ELSE seq

Acknowledge(q, ack) == [q EXCEPT !.snd_una = IF ack > @ THEN ack ELSE @]
RecoverNothing(q)   == q                              \* (mutant)
RecoverQueue(q)     == [q EXCEPT !.snd_nxt = q.snd_una]

-----------------------------------------------------------------------------
(* The receiver.                                                           *)

NewRxQp == [expected |-> 0, lastNACK |-> 0, nackTimer |-> FALSE]
RxQp    == IF rx = NoQp THEN NewRxQp ELSE rx

(* ReceiverCheckSeq.  ReceiveUdp sets the milestone to AckInterval anew    *)
(* for every packet.                                                       *)
InOrderOrAhead(r, pkt) == pkt.seq >= r.expected                          \* (mutant)
InOrder(r, pkt)        == pkt.seq = r.expected

TakenAsOne(r, pkt) == [r EXCEPT !.expected = @ + 1]                      \* (mutant)
Taken(r, pkt)      == [r EXCEPT !.expected = @ + pkt.size]

AckDue(r) == r.expected >= AckInterval \/ r.expected % Chunk = 0

NackDue(r, pkt) == pkt.seq > r.expected /\ (~ r.nackTimer \/ r.lastNACK # r.expected)

Nacked(r) == [expected |-> RoundDown(r.expected), lastNACK |-> r.expected, nackTimer |-> TRUE]

(* What the receiver becomes and what it answers.                          *)
AfterPacket(r, pkt) ==
    IF InOrder(r, pkt) THEN Taken(r, pkt) ELSE IF NackDue(r, pkt) THEN Nacked(r) ELSE r

(* (mutant) The NACK names the packet that came, not the one missing.      *)
AnswerWithSeq(r, pkt) ==
    IF InOrder(r, pkt) THEN <<[kind |-> "ack", seq |-> Taken(r, pkt).expected]>>
    ELSE IF NackDue(r, pkt) THEN <<[kind |-> "nack", seq |-> pkt.seq]>> ELSE <<>>

AnswerTo(r, pkt) ==
    LET seq == AfterPacket(r, pkt).expected
    IN  IF InOrder(r, pkt)
        THEN IF AckDue(Taken(r, pkt)) THEN <<[kind |-> "ack", seq |-> seq]>> ELSE <<>>
        ELSE IF NackDue(r, pkt) THEN <<[kind |-> "nack", seq |-> seq]>> ELSE <<>>

Bytes(r, pkt) == IF InOrder(r, pkt) THEN pkt.seq .. pkt.seq + pkt.size - 1 ELSE {}

-----------------------------------------------------------------------------
(* Without reordering the first message of a channel is the next to arrive.*)
Arriving(channel) == IF MayReorder THEN DOMAIN channel ELSE DOMAIN channel \cap {1}

ReceiveUdp ==
    /\ Len(answers) < MaxInFlight
    /\ \E k \in Arriving(data) :
          /\ rx' = AfterPacket(RxQp, data[k])
          /\ answers' = answers \o AnswerTo(RxQp, data[k])
          /\ data' = RemoveAt(data, k)
          /\ taken' = taken \cup Bytes(RxQp, data[k])
    /\ UNCHANGED <<qp, lost>>

NackTimerExpires ==
    /\ rx # NoQp /\ rx.nackTimer
    /\ rx' = [rx EXCEPT !.nackTimer = FALSE]
    /\ UNCHANGED <<qp, data, answers, lost, taken>>

(* ReceiveAck.  A sender that has completed no longer finds the queue      *)
(* pair.  Completing (QpComplete, qp_finish) deletes both queue pairs, and *)
(* a NACK still sends the deleted one back.                                *)
Acked(a)    == IF AckInterval = 0 THEN qp ELSE Acknowledge(qp, RoundDown(a.seq))
Finishes(a) == AckInterval # 0 /\ Acked(a).snd_una >= FlowSize

ReceiveAck ==
    /\ \E k \in Arriving(answers) :
          LET a == answers[k]
              q == [Acked(a) EXCEPT !.active = ~ Finishes(a)]
          IN  /\ answers' = RemoveAt(answers, k)
              /\ IF qp.active
                 THEN /\ qp' = IF a.kind = "nack" THEN RecoverQueue(q) ELSE q
                      /\ rx' = IF Finishes(a) THEN NoQp ELSE rx
                 ELSE UNCHANGED <<qp, rx>>
    /\ UNCHANGED <<data, lost, taken>>

Lose ==
    /\ lost < MaxLost
    /\ \/ \E k \in DOMAIN data : data[k].seq \in Losable /\ data' = RemoveAt(data, k)
          /\ UNCHANGED answers
       \/ \E k \in DOMAIN answers : answers[k].seq \in Losable /\ answers' = RemoveAt(answers, k)
          /\ UNCHANGED data
    /\ lost' = lost + 1
    /\ UNCHANGED <<qp, rx, taken>>

TransportNext == Send \/ ReceiveUdp \/ NackTimerExpires \/ ReceiveAck \/ Lose

TransportSpec == TransportInit /\ [][TransportNext]_transportVars

(* The NIC asks for packets as long as there are any (TriggerTransmit      *)
(* after every answer, and the next-send event of the rate), and the       *)
(* network delivers what it does not lose.                                 *)
FairTransportSpec ==
    /\ TransportSpec
    /\ WF_transportVars(Send)
    /\ WF_transportVars(ReceiveUdp)
    /\ WF_transportVars(ReceiveAck)

-----------------------------------------------------------------------------
Promise == INSTANCE Delivery WITH
    received <- taken,
    complete <- ~ qp.active

(* Whatever is lost, reordered or sent twice, bytes are taken in order     *)
(* without a gap, and qp_finish runs once and only when the receiver has   *)
(* all of them.                                                            *)
ImplementsDelivery == Promise!DeliverySpec

(* While a flow is active the sender never believes that the receiver has  *)
(* more than it has, and no answer on its way will make it believe so,     *)
(* although the receiver itself may go back (to the start of a chunk); so  *)
(* qp_finish finds the receiver's queue pair, which it dereferences.       *)
AckedIsDelivered ==
    qp.active => /\ qp.snd_una <= RxQp.expected
                 /\ \A k \in DOMAIN answers : RoundDown(answers[k].seq) <= RxQp.expected

(* A packet on its way is wholly old or starts at or after the next byte   *)
(* the receiver wants: going back never cuts a packet across the boundary, *)
(* where the receiver would take neither half.                             *)
NoStraddling ==
    qp.active => \A k \in DOMAIN data :
        \/ data[k].seq + data[k].size <= RxQp.expected
        \/ data[k].seq >= RxQp.expected

(* A flow completes.                                                       *)
Completes == <>(~ qp.active)

(* The comments on m_win, "bound of on-the-fly packets", and on snd_nxt,   *)
(* snd_una, "next seq to send, the highest unacked seq": a sender held     *)
(* back by its window has sent what it waits for.                          *)
WindowBlocksOnFlight == qp.active /\ WinBound => qp.snd_nxt > qp.snd_una
=============================================================================
