---------------------------- MODULE NicScheduler ----------------------------
(***************************************************************************)
(* The transmitter of a host's NIC: RdmaEgressQueue over its group of      *)
(* queue pairs, the host side of QbbNetDevice, and the part of RdmaHw that *)
(* moves a queue pair's sequence numbers, rate and next-available time.    *)
(* All packets have one size; sequence numbers count packets, times count  *)
(* transmission times of a packet at line rate.  The network and the peers *)
(* are an environment that answers what has been sent.                     *)
(***************************************************************************)
EXTENDS Integers, FiniteSets, SequencesExt, FiniteSetsExt

CONSTANTS
    N,              \* number of flows, which start in the order of the flow file
    Pg,             \* Pg[f]: priority group of a flow
    AckPg,          \* ack_q_idx: the queue whose pause holds answers back
    Size,           \* Size[f]: packets of a flow
    Window,         \* Window[f]: m_win, if windows are on
    Gaps,           \* Gaps[f]: the times from one packet of a flow to its next, one per
                    \* rate it may get; the least is the line rate's
    Uint64,         \* 2^64 in the code
    Settings,       \* the configurations to consider: see setting
    MaxAnswers,     \* bound: answers this host sends to flows it receives
    MaxPauses,      \* bound: PFC pauses that arrive
    MaxNacks,       \* bound: NACKs that arrive
    None

Flows == 1 .. N

ASSUME NicAssumption ==
    /\ N \in Nat \ {0}
    /\ Size \in [Flows -> Nat \ {0}] /\ Window \in [Flows -> Nat \ {0}]
    /\ \A f \in Flows : Gaps[f] \subseteq Nat \ {0} /\ IsFiniteSet(Gaps[f]) /\ Gaps[f] # {}
    /\ Settings \subseteq [windows : BOOLEAN, shifts : BOOLEAN, lateNacks : BOOLEAN]
    /\ Uint64 \in Nat /\ \A f \in Flows : Size[f] < Uint64 /\ Window[f] < Uint64 - Size[f]
    /\ MaxAnswers \in Nat /\ MaxPauses \in Nat /\ MaxNacks \in Nat

(* Nothing that is scheduled is told from a time, and from an index.       *)
ASSUME NoTimeAssumption == None \notin Int

VARIABLES
    nic,        \* the device with its queue pairs
    net,        \* what the environment has seen and may still do
    setting     \* chosen once: are windows on (HAS_WIN), does the rate law use
                \* ChangeRate (CC_MODE 3 and 10), may a NACK be late

nicVars == <<nic, net, setting>>

Pgs    == {Pg[f] : f \in Flows} \cup {AckPg}
MaxGap(f) == Max(Gaps[f])
Longest   == Max({MaxGap(f) : f \in Flows})

(* The queue pairs' fields snd_nxt, snd_una, m_rate (as a gap) and         *)
(* m_nextAvail (relative to now).  grp: m_qpGrp.  txEnd, nextSend: time to *)
(* TransmitComplete and to the m_nextSend event.  skipped (history):       *)
(* packets of others sent in a row while the flow was ready, since the     *)
(* group was last compacted; strayed (history): the index of GetNextQindex *)
(* named another queue pair than the one it had chosen.                    *)
NicTypeOK ==
    /\ \A f \in Flows :
          nic.qp[f] \in [snd_nxt : 0 .. Size[f], snd_una : 0 .. Size[f], gap : Gaps[f],
                        nextAvail : -MaxGap(f) .. MaxGap(f)]
    /\ nic.grp \in Seq(Flows) /\ IsInjective(nic.grp)
    /\ nic.rrlast \in 0 .. N /\ nic.ackQ \in 0 .. MaxAnswers
    /\ nic.paused \in [Pgs -> BOOLEAN]
    /\ nic.txEnd \in {None, 0, 1} /\ nic.nextSend \in {None} \cup 0 .. Longest
    /\ nic.skipped \in [Flows -> Nat] /\ nic.strayed \in BOOLEAN
    /\ net.started \in 0 .. N

-----------------------------------------------------------------------------
(* Queue pairs, of a device state s.                                       *)

BytesLeft(s, f) == Size[f] - s.qp[f].snd_nxt
Finished(s, f)  == s.qp[f].snd_una >= Size[f]

OnTheFlySigned(s, f) == s.qp[f].snd_nxt - s.qp[f].snd_una             \* (mutant)
OnTheFly(s, f)       == (s.qp[f].snd_nxt - s.qp[f].snd_una) % Uint64

(* GetWin with m_var_win off, the default: see RdmaTransport.              *)
WinBound(s, f) == setting.windows /\ OnTheFly(s, f) >= Window[f]
Blocked(s, f)  == s.paused[Pg[f]] \/ WinBound(s, f)
Sendable(s, f) == BytesLeft(s, f) > 0 /\ ~ Blocked(s, f)
Due(s, f)      == s.qp[f].nextAvail <= 0

-----------------------------------------------------------------------------
(* The device.  Operators from device states to device states.             *)

Index(s, k) == (k + s.rrlast) % Len(s.grp)
FlowAt(s, i) == s.grp[i + 1]

(* (mutant) The scan starts at the front.                                  *)
ScanFromFront(s) ==
    LET n    == Len(s.grp)
        hits == {k \in 1 .. n : Sendable(s, FlowAt(s, k - 1)) /\ Due(s, FlowAt(s, k - 1))}
    IN  IF hits = {} THEN [res |-> None, seen |-> 0 .. n - 1]
        ELSE [res |-> Min(hits) - 1, seen |-> 0 .. Min(hits) - 2]

(* The round-robin scan: the index of the first queue pair that can send   *)
(* now, and the indices passed before it.                                  *)
Scan(s) ==
    LET n    == Len(s.grp)
        hits == {k \in 1 .. n : Sendable(s, FlowAt(s, Index(s, k))) /\ Due(s, FlowAt(s, Index(s, k)))}
    IN  IF hits = {} THEN [res |-> None, seen |-> 0 .. n - 1]
        ELSE [res |-> Index(s, Min(hits)), seen |-> {Index(s, k) : k \in 1 .. Min(hits) - 1}]

(* The finished queue pairs that the scan passed.  From the first of them  *)
(* on, the group is compacted: all finished ones go, passed or not.        *)
Passed(s, seen) == {i \in seen : ~ Sendable(s, FlowAt(s, i)) /\ Finished(s, FlowAt(s, i))}

(* The group as the loop of the compaction has rebuilt it up to index i.   *)
Kept(s, from) ==
    LET kept[i \in from .. Len(s.grp) - 1] ==
            IF i = from THEN SubSeq(s.grp, 1, from)
            ELSE IF Finished(s, FlowAt(s, i)) THEN kept[i - 1]
            ELSE Append(kept[i - 1], FlowAt(s, i))
    IN  kept

Compact(s, from) ==
    [s EXCEPT !.grp = Kept(s, from)[Len(s.grp) - 1], !.skipped = [f \in Flows |-> 0]]

(* (mutant) The result keeps its old index.                                *)
NotRenumbered(s, from, res) == res

(* The loop renumbers the result when it meets it among those it keeps.    *)
Renumber(s, from, res) ==
    IF res > from /\ ~ Finished(s, FlowAt(s, res)) THEN Len(Kept(s, from)[res - 1]) ELSE res

TransmitStart(s) == [s EXCEPT !.txEnd = 1]

SendAnswer(s) == TransmitStart([s EXCEPT !.ackQ = @ - 1])

Skipped(s, f) ==
    [g \in Flows |-> IF g # f /\ g \in ToSet(s.grp) /\ Sendable(s, g) /\ Due(s, g)
                     THEN s.skipped[g] + 1 ELSE 0]

(* DequeueQindex, GetNxtPacket, PktSent.  A queue pair reached by a wrong  *)
(* index may have nothing left: its packet is empty.                       *)
SendPacket(s, i) ==
    LET f  == FlowAt(s, i)
        qp == s.qp[f]
    IN  TransmitStart([s EXCEPT !.rrlast = i,
                                !.qp[f] = [qp EXCEPT !.snd_nxt = qp.snd_nxt + (IF BytesLeft(s, f) > 0 THEN 1 ELSE 0),
                                                     !.nextAvail = qp.gap],
                                !.skipped = Skipped(s, f)])

(* An index behind the end of the compacted group: what the vector then    *)
(* returns is undefined, and the model sends nothing more.                 *)
Stray(s) == [s EXCEPT !.strayed = TRUE, !.grp = <<>>]

TimesLeft(s) == {s.qp[f].nextAvail : f \in {g \in ToSet(s.grp) : BytesLeft(s, g) > 0}}

NoNextSend(s) == s                                                    \* (mutant)
(* (mutant) Also for a time already past.                                  *)
NextSendInThePast(s) ==
    IF s.nextSend = None /\ TimesLeft(s) # {} THEN [s EXCEPT !.nextSend = Min(TimesLeft(s))] ELSE s

(* Nothing to send: the event of the earliest m_nextAvail, if none is      *)
(* pending and that time is still to come.                                 *)
ScheduleNextSend(s) ==
    IF s.nextSend = None /\ TimesLeft(s) # {} /\ Min(TimesLeft(s)) > 0
    THEN [s EXCEPT !.nextSend = Min(TimesLeft(s))] ELSE s

(* The queue pair at index res of the group, where the scan chose another  *)
(* if the index has become wrong.                                          *)
Serve(s, res, chosen) ==
    IF res >= Len(s.grp) THEN Stray(s)
    ELSE LET t == SendPacket(s, res) IN [t EXCEPT !.strayed = @ \/ FlowAt(s, res) # chosen]

(* QbbNetDevice::DequeueAndTransmit, of the device state s a handler has   *)
(* reached.  Every handler ends with it.                                   *)
DequeueAndTransmit(s) ==
    \/ s.txEnd # None /\ nic' = s
    \/ s.txEnd = None /\ ~ s.paused[AckPg] /\ s.ackQ > 0 /\ nic' = SendAnswer(s)
    \/ /\ s.txEnd = None /\ (s.paused[AckPg] \/ s.ackQ = 0)
       /\ \E scan \in {Scan(s)} : \E passed \in {Passed(s, scan.seen)} :
          \E t \in {IF passed = {} THEN s ELSE Compact(s, Min(passed))} :
             nic' = IF scan.res = None THEN ScheduleNextSend(t)
                    ELSE Serve(t, IF passed = {} THEN scan.res ELSE Renumber(s, Min(passed), scan.res),
                               FlowAt(s, scan.res))

(* QbbNetDevice::UpdateNextAvail: an earlier time pulls the event forward. *)
UpdateNextAvail(s, t) ==
    IF s.nextSend # None /\ t < s.nextSend
    THEN [s EXCEPT !.nextSend = IF t < 0 THEN 0 ELSE t] ELSE s

(* A time so long past that no change of the rate makes it a future one is *)
(* not told from an earlier one.                                           *)
Past(t, f, gap) ==
    LET long == IF setting.shifts THEN gap - MaxGap(f) ELSE 0 IN IF t < long THEN long ELSE t

(* RdmaHw::ChangeRate shifts the next-available time.  DCQCN, TIMELY,      *)
(* DCTCP and NewCC assign m_rate and leave that time alone.                *)
ChangeRate(s, f, gap) ==
    LET t == Past(s.qp[f].nextAvail + gap - s.qp[f].gap, f, gap)
    IN  UpdateNextAvail([s EXCEPT !.qp[f].nextAvail = t, !.qp[f].gap = gap], t)

NewRate(s, f, gap) ==
    IF setting.shifts THEN ChangeRate(s, f, gap) ELSE [s EXCEPT !.qp[f].gap = gap]

Acknowledge(s, f, seq) == [s EXCEPT !.qp[f].snd_una = IF seq > @ THEN seq ELSE @]
RecoverQueue(s, f)     == [s EXCEPT !.qp[f].snd_nxt = s.qp[f].snd_una]

-----------------------------------------------------------------------------
(* Events.                                                                 *)

NicInit ==
    /\ setting \in Settings
    /\ nic = [qp |-> [f \in Flows |-> [snd_nxt |-> 0, snd_una |-> 0, gap |-> Min(Gaps[f]),
                                       nextAvail |-> 0]],
              grp |-> <<>>, rrlast |-> 0, ackQ |-> 0, paused |-> [q \in Pgs |-> FALSE],
              txEnd |-> None, nextSend |-> None,
              skipped |-> [f \in Flows |-> 0], strayed |-> FALSE]
    /\ net = [started |-> 0, sent |-> [f \in Flows |-> 0], answers |-> 0, pauses |-> 0, nacks |-> 0]

(* RdmaHw::AddQueuePair.                                                   *)
NewQp ==
    /\ net.started < N
    /\ DequeueAndTransmit([nic EXCEPT !.grp = Append(@, net.started + 1)])
    /\ net' = [net EXCEPT !.started = @ + 1]
    /\ UNCHANGED setting

(* What the peer may have received: with late NACKs also what was sent     *)
(* before the sender went back.                                            *)
Sent(f) == IF setting.lateNacks THEN Max({net.sent[f], nic.qp[f].snd_nxt})
                                ELSE nic.qp[f].snd_nxt

(* ReceiveAck, of a queue pair still in m_qpMap: the answer's sequence     *)
(* number, the rate law, TriggerTransmit. Answers behind snd_una are left  *)
(* out: they acknowledge nothing, change the rate and make the NIC look    *)
(* again.                                                                  *)
ReceiveAck(f, seq, gap) ==
    /\ ~ Finished(nic, f) /\ seq \in nic.qp[f].snd_una + 1 .. Sent(f)
    /\ \E s \in {NewRate(Acknowledge(nic, f, seq), f, gap)} : DequeueAndTransmit(s)
    /\ UNCHANGED <<net, setting>>

ReceiveNack(f, seq, gap) ==
    /\ ~ Finished(nic, f) /\ seq \in nic.qp[f].snd_una .. nic.qp[f].snd_nxt - 1
    /\ net.nacks < MaxNacks
    /\ \E s \in {NewRate(RecoverQueue(Acknowledge(nic, f, seq), f), f, gap)} : DequeueAndTransmit(s)
    /\ net' = [net EXCEPT !.nacks = @ + 1, !.sent[f] = Sent(f)]
    /\ UNCHANGED setting

(* ReceiveUdp of another host's flow: the answer is queued.                *)
RdmaEnqueueHighPrioQ ==
    /\ net.answers < MaxAnswers
    /\ DequeueAndTransmit([nic EXCEPT !.ackQ = @ + 1])
    /\ net' = [net EXCEPT !.answers = @ + 1]
    /\ UNCHANGED setting

PauseQueue(q) ==
    /\ net.pauses < MaxPauses /\ ~ nic.paused[q]
    /\ nic' = [nic EXCEPT !.paused[q] = TRUE]
    /\ net' = [net EXCEPT !.pauses = @ + 1]
    /\ UNCHANGED setting

Resume(q) ==
    /\ nic.paused[q]
    /\ DequeueAndTransmit([nic EXCEPT !.paused[q] = FALSE])
    /\ UNCHANGED <<net, setting>>

TransmitComplete ==
    /\ nic.txEnd = 0
    /\ DequeueAndTransmit([nic EXCEPT !.txEnd = None])
    /\ UNCHANGED <<net, setting>>

NextSend ==
    /\ nic.nextSend = 0
    /\ DequeueAndTransmit([nic EXCEPT !.nextSend = None])
    /\ UNCHANGED <<net, setting>>

Later(t) == IF t = None THEN None ELSE t - 1

(* Time passes when no event is due.                                       *)
Tick ==
    /\ nic.txEnd # 0 /\ nic.nextSend # 0
    /\ nic' = [nic EXCEPT !.txEnd = Later(@), !.nextSend = Later(@),
                          !.qp = [f \in Flows |-> LET qp == nic.qp[f] IN
                                     [qp EXCEPT !.nextAvail = Past(qp.nextAvail - 1, f, qp.gap)]]]
    /\ UNCHANGED <<net, setting>>

NicNext ==
    \/ \E f \in Flows : \E gap \in Gaps[f], seq \in 0 .. Size[f] :
          ReceiveAck(f, seq, gap) \/ ReceiveNack(f, seq, gap)
    \/ \E q \in Pgs : PauseQueue(q) \/ Resume(q)
    \/ NewQp \/ RdmaEnqueueHighPrioQ \/ TransmitComplete \/ NextSend \/ Tick

NicSpec == NicInit /\ [][NicNext]_nicVars

(* What the simulator and the peers do in any case: flows start, due       *)
(* events run, time passes, peers answer what was sent, PFC pauses end.    *)
Progress ==
    \/ Tick \/ TransmitComplete \/ NextSend
    \/ NewQp
    \/ \E f \in Flows : \E gap \in Gaps[f] : ReceiveAck(f, Sent(f), gap)
    \/ \E q \in Pgs : Resume(q)

FairNicSpec == NicSpec /\ WF_nicVars(Progress)

-----------------------------------------------------------------------------
(* The device idles though the flow has a packet that may be sent, and     *)
(* nothing is scheduled that would serve it.                               *)
Stalled(f) ==
    /\ f \in ToSet(nic.grp) /\ Sendable(nic, f)
    /\ nic.txEnd = None /\ nic.nextSend = None

(* The NIC lets a packet wait that could be sent, with nothing scheduled   *)
(* to send it, only behind another queue pair of the group that has bytes  *)
(* left, is held back by a pause or its window, and whose time has come:   *)
(* the minimum over m_nextAvail then lies in the past and no event is set. *)
(* (While an event is pending it may be another flow's, and come later     *)
(* than this one's time: only a change of rate pulls it forward.)          *)
StallsOnlyBehindABlockedFlow ==
    \A f \in Flows : Stalled(f) =>
        \E g \in ToSet(nic.grp) \ {f} : BytesLeft(nic, g) > 0 /\ Blocked(nic, g) /\ Due(nic, g)

(* A ready flow sees at most N - 1 packets of others sent in a row before  *)
(* its own, as many as there are other flows, counted anew when finished   *)
(* queue pairs are cleared: clearing moves the queue pairs but not         *)
(* m_rrlast, and may cost another round.                                   *)
RoundRobinWait ==
    \A f \in Flows : nic.skipped[f] <= N - 1

(* With windows on, or with NACKs that are never late, clearing finished   *)
(* queue pairs never makes the NIC serve another queue pair than the one   *)
(* it chose.                                                               *)
ServesItsChoice == setting.windows \/ ~ setting.lateNacks => ~ nic.strayed

(* With windows on, or with NACKs that are never late, a queue pair whose  *)
(* completion has been reported sends nothing more.                        *)
CompletedIsSilent ==
    [][setting.windows \/ ~ setting.lateNacks =>
         \A f \in Flows : Finished(nic, f) => nic'.qp[f].snd_nxt = nic.qp[f].snd_nxt]_nicVars

(* Every flow completes, whatever is paused, paced and cleared meanwhile,  *)
(* unless a late NACK may strand its window or the NIC's scan.             *)
FlowsComplete ==
    ~ setting.lateNacks => \A f \in Flows : <>Finished(nic, f)
=============================================================================
