----------------------------- MODULE ConWeave -----------------------------
(***************************************************************************)
(* ConWeave load balancing of one flow between its two leaf switches       *)
(* (ConWeaveRouting::RouteInput, ConWeaveVOQ): TxToR tags each packet with *)
(* an epoch, a phase and a path, and may reroute the flow once per epoch;  *)
(* RxToR holds the packets of the new path (phase 1) in a queue until the  *)
(* last one of the old path (TAIL) has come or ought to have come.         *)
(*                                                                         *)
(* The network keeps the order of the packets of one path and loses none.  *)
(* ECN marks, NOTIFY packets and the table of paths they pause are         *)
(* abstracted to the choice they lead to: a path, or no good path.         *)
(***************************************************************************)
EXTENDS Integers, Sequences, FiniteSetsExt

CONSTANTS
    Paths,              \* m_ConWeaveRoutingTable[dstToRId]
    BaseRTT,            \* m_rxToRId2BaseRTT[dstToRId]
    ExtraReplyDeadline, ExtraVOQFlushTime, TxExpiryTime, DefaultVOQWaitingTime, AgingTime,
    MinDelay,           \* MinDelay[path]: the least time a packet takes
    Jitter,             \* how much longer than that it may take
    ReplyDelay,         \* the most a REPLY takes
    Phases,             \* bound: when the switches' first aging events may come
    MaxPackets,         \* bound: packets of the flow
    MaxTime,            \* CW_MAX_TIME, a time that does not come
    None

ASSUME ConWeaveAssumption ==
    /\ {BaseRTT, ExtraReplyDeadline, ExtraVOQFlushTime, TxExpiryTime, DefaultVOQWaitingTime,
        AgingTime, Jitter, ReplyDelay, MaxPackets, MaxTime} \subseteq Nat
    /\ MinDelay \in [Paths -> Nat] /\ Phases \subseteq 1 .. AgingTime /\ None \notin Paths

VARIABLES
    now,
    tx,             \* m_conweaveTxTable[flowkey] of TxToR, or None
    rx,             \* m_conweaveRxTable[flowkey] of RxToR, or None
    voq,            \* m_voqMap[flowkey] of RxToR: m_FIFO, m_checkFlushEvent and (history)
                    \* since when it holds packets, or None
    wire,           \* wire[path]: the data packets under way
    replies,        \* the REPLY packets under way
    aging,          \* the times of the two switches' aging events
    sent,           \* how many packets the host has sent
    delivered,      \* (history) the packets RxToR has passed on to the host
    failed,         \* (history) an assertion has failed, or exit(1) was called
    outlived        \* (history) TxToR began anew while RxToR had an entry

conWeaveVars == <<now, tx, rx, voq, wire, replies, aging, sent, delivered, failed, outlived>>

NewTx == [stabilized |-> TRUE, active |-> 0, timer |-> 0, epoch |-> 0, phase |-> 0,
          path |-> None, tail |-> 0]
NewRx == [active |-> 0, epoch |-> 1, phase |-> 0, phase0Tx |-> 0, phase0Rx |-> 0,
          cache |-> FALSE, tail |-> 0, reordering |-> FALSE]

Flags  == {"INIT", "TAIL", "DATA"}
Packet == [id : 1 .. MaxPackets, path : Paths, epoch : Nat, phase : 0 .. 1, tx : Nat,
           tail : Nat, flag : Flags]

TxType    == [stabilized : BOOLEAN, active : Nat, timer : Nat, epoch : Nat, phase : 0 .. 1,
              path : Paths \cup {None}, tail : Nat]
RxType    == [active : Nat, epoch : Nat, phase : 0 .. 1, phase0Tx : Nat, phase0Rx : Nat,
              cache : BOOLEAN, tail : Nat, reordering : BOOLEAN]
VoqType   == [queue : Seq(Packet), since : Nat, flushAt : Nat]
ReplyType == [flag : Flags, epoch : Nat, phase : 0 .. 1, since : Nat]

(* A table without the flow's entry is told from any entry.                *)
ASSUME NoEntryAssumption == None \notin TxType /\ None \notin RxType /\ None \notin VoqType

(* The entries, the queue and the packets have their types, and RxToR      *)
(* holds packets exactly while it thinks it is reordering: its entry is    *)
(* never aged away from under them.                                        *)
ConWeaveTypeOK ==
    /\ now \in Nat /\ sent \in 0 .. MaxPackets
    /\ tx = None \/ tx \in TxType
    /\ rx = None \/ rx \in RxType
    /\ voq = None \/ voq \in VoqType
    /\ wire \in [Paths -> Seq(Packet)]
    /\ replies \subseteq ReplyType
    /\ delivered \in Seq(1 .. MaxPackets)
    /\ (voq # None) <=> (rx # None /\ rx.reordering)

Entry(entry, new) == IF entry = None THEN new ELSE entry

-----------------------------------------------------------------------------
(* TxToR.  old: the flow's entry; good: the path found, or None.           *)

Expired(old)    == old.active + TxExpiryTime < now
NewEpoch(old)   == Expired(old) \/ old.stabilized
Timeout(old)    == ~ NewEpoch(old) /\ old.timer < now
NextPath(old, good) ==
    IF good # None /\ (Expired(old) \/ Timeout(old) \/ old.path = None) THEN good ELSE old.path

NextPhase(old) == IF NewEpoch(old) THEN 0 ELSE IF Timeout(old) THEN 1 ELSE old.phase

TxEntry(old, good) ==
    [stabilized |-> FALSE,
     active     |-> now,
     timer      |-> CASE NewEpoch(old) -> now + BaseRTT + ExtraReplyDeadline
                      [] Timeout(old)  -> MaxTime
                      [] OTHER         -> old.timer,
     epoch      |-> IF NewEpoch(old) THEN old.epoch + 1 ELSE old.epoch,
     phase      |-> NextPhase(old),
     path       |-> NextPath(old, good),
     tail       |-> IF NewEpoch(old) THEN 0 ELSE IF Timeout(old) THEN now ELSE old.tail]

(* The TAIL is the last packet of phase 0 and of the old path.             *)
Tagged(old, new) ==
    [id    |-> sent + 1,
     path  |-> IF Timeout(old) THEN old.path ELSE new.path,
     epoch |-> new.epoch,
     phase |-> IF Timeout(old) THEN 0 ELSE new.phase,
     tx    |-> now,
     tail  |-> new.tail,
     flag  |-> IF NewEpoch(old) THEN "INIT" ELSE IF Timeout(old) THEN "TAIL" ELSE "DATA"]

(* The host sends the next packet.                                         *)
SendData ==
    /\ sent < MaxPackets
    /\ LET old   == Entry(tx, NewTx)
           isNew == old.path = None
       IN  \E good \in IF isNew THEN Paths ELSE Paths \cup {None} :
              LET new == TxEntry(old, good)
                  p   == Tagged(old, new)
              IN  /\ tx' = new
                  /\ wire' = [wire EXCEPT ![p.path] = Append(@, p)]
                  /\ failed' = (failed \/ (isNew /\ ~ Expired(old)) \/ (Timeout(old) /\ old.phase # 0))
                  /\ outlived' = (outlived \/ (isNew /\ rx # None))
    /\ sent' = sent + 1
    /\ UNCHANGED <<now, rx, voq, replies, aging, delivered>>

(* (mutant) The phase of a REPLY is not looked at.                         *)
StabilizesInAnyPhase(r, old) ==
    /\ r.epoch = old.epoch
    /\ r.flag = "INIT" => now < old.timer

(* A REPLY counts only in the epoch and phase it answers.                  *)
Stabilizes(r, old) ==
    /\ r.epoch = old.epoch /\ r.phase = old.phase
    /\ r.flag = "INIT" => now < old.timer /\ old.timer # MaxTime

ReceiveReply ==
    \E r \in replies :
        /\ r.since < now
        /\ tx' = IF Stabilizes(r, Entry(tx, NewTx))
                 THEN [tx EXCEPT !.stabilized = TRUE, !.timer = MaxTime] ELSE Entry(tx, NewTx)
        /\ replies' = replies \ {r}
        /\ UNCHANGED <<now, rx, voq, wire, aging, sent, delivered, failed, outlived>>

-----------------------------------------------------------------------------
(* RxToR.  old: the flow's entry; p: the packet.                           *)

IsTail(p) == p.flag = "TAIL"

(* (mutant) A TAIL of the current epoch sets the phase at once.            *)
RxPhaseAtOnce(old, p) ==
    IF IsTail(p) THEN 1 ELSE IF p.epoch > old.epoch THEN 0 ELSE old.phase

(* The TAIL does not set the phase while its queue has yet to be flushed.  *)
RxPhase(old, p) ==
    IF p.epoch > old.epoch THEN (IF IsTail(p) THEN 1 ELSE 0)
    ELSE IF IsTail(p) /\ ~ old.reordering THEN 1 ELSE old.phase

OutOfOrder(old, p) ==
    IF p.epoch > old.epoch THEN p.phase > RxPhase(old, p)
    ELSE ~ IsTail(p) /\ old.phase < p.phase

RxEntry(old, p) ==
    [old EXCEPT !.active   = now,
                !.epoch    = p.epoch,
                !.phase    = RxPhase(old, p),
                !.phase0Tx = IF p.phase = 0 THEN p.tx ELSE @,
                !.phase0Rx = IF p.phase = 0 THEN now ELSE @,
                !.cache    = p.phase = 0 \/ (@ /\ p.epoch = old.epoch),
                !.tail     = IF IsTail(p) \/ p.phase = 1 THEN p.tail ELSE @,
                !.reordering = @ \/ (p.phase = 1 /\ OutOfOrder(old, p))]

(* When the TAIL is expected: as long after the last packet of phase 0 as  *)
(* it was sent after it.  In the same nanosecond is the same instant.      *)
TimegapAtTx(new) ==
    IF ~ new.cache THEN DefaultVOQWaitingTime
    ELSE IF new.tail > new.phase0Tx THEN new.tail - new.phase0Tx ELSE 0

(* (mutant) The gap is counted without the extra time.                     *)
ExpectedNoExtra(new, p) ==
    IF IsTail(p) THEN now
    ELSE (IF new.cache THEN new.phase0Rx ELSE now) + TimegapAtTx(new)

TimeExpectedToFlush(new, p) ==
    IF IsTail(p) THEN now
    ELSE (IF new.cache THEN new.phase0Rx ELSE now) + TimegapAtTx(new) + ExtraVOQFlushTime

(* The assertions on the way, and the exit(1) on a TAIL before phase 0.    *)
AssertionFails(old, new, p) ==
    \/ p.epoch > old.epoch /\ old.reordering # (voq # None)
    \/ old.reordering /\ voq = None /\ (p.phase = 0 \/ OutOfOrder(old, p))
    \/ p.phase = 1 /\ ~ OutOfOrder(old, p) /\ (old.reordering \/ voq # None)
    \/ (p.phase = 1 \/ IsTail(p)) /\ new.cache /\ new.tail < new.phase0Tx

(* (mutant) The flush is put off by the default waiting time.              *)
PutOff(old, new, p) ==
    IF old.reordering THEN [voq EXCEPT !.flushAt = now + DefaultVOQWaitingTime + ExtraVOQFlushTime] ELSE voq

(* The VOQ after a packet of phase 0, or one to be held.                   *)
Rescheduled(old, new, p) ==
    IF old.reordering THEN [voq EXCEPT !.flushAt = Max({now, TimeExpectedToFlush(new, p)})] ELSE voq
Held(old, new, p) ==
    IF old.reordering THEN [voq EXCEPT !.queue = Append(@, p)]
    ELSE [queue   |-> Append(IF voq = None THEN << >> ELSE voq.queue, p),
          since   |-> IF voq = None THEN now ELSE voq.since,
          flushAt |-> Max({now, TimeExpectedToFlush(new, p)})]

SendReply(p) ==
    IF p.flag = "DATA" THEN {}
    ELSE {[flag |-> p.flag, epoch |-> p.epoch, phase |-> IF IsTail(p) THEN 1 ELSE 0, since |-> now]}

PassOn(p) == delivered' = Append(delivered, p.id)

(* A packet of an epoch gone by is passed on; no reply, no reordering.     *)
PreviousEpoch(old, p) ==
    /\ p.epoch < old.epoch
    /\ rx' = [old EXCEPT !.active = now]
    /\ PassOn(p)
    /\ UNCHANGED <<voq, replies, failed>>

CurrentOrNewEpoch(old, p) ==
    /\ p.epoch >= old.epoch
    /\ LET new  == RxEntry(old, p)
           hold == p.phase = 1 /\ OutOfOrder(old, p)
       IN  /\ rx' = new
           /\ failed' = (failed \/ AssertionFails(old, new, p))
           /\ voq' = CASE hold        -> Held(old, new, p)
                       [] p.phase = 0 -> Rescheduled(old, new, p)
                       [] OTHER       -> voq
           /\ IF hold THEN UNCHANGED delivered ELSE PassOn(p)
           /\ replies' = replies \cup SendReply(p)

ReceiveData ==
    \E path \in Paths :
        /\ wire[path] # << >> /\ now >= Head(wire[path]).tx + MinDelay[path]
        /\ LET old == Entry(rx, NewRx)
               p   == Head(wire[path])
           IN  PreviousEpoch(old, p) \/ CurrentOrNewEpoch(old, p)
        /\ wire' = [wire EXCEPT ![path] = Tail(@)]
        /\ UNCHANGED <<now, tx, aging, sent, outlived>>

(* EnforceFlushAll: the callback first, then the packets, in their order.  *)
FlushVOQ ==
    /\ voq # None /\ voq.flushAt <= now
    /\ rx' = [Entry(rx, NewRx) EXCEPT !.reordering = FALSE, !.phase = 1]
    /\ failed' = (failed \/ rx = None \/ ~ rx.reordering)
    /\ delivered' = delivered \o [k \in DOMAIN voq.queue |-> voq.queue[k].id]
    /\ voq' = None
    /\ UNCHANGED <<now, tx, wire, replies, aging, sent, outlived>>

-----------------------------------------------------------------------------
(* Aging: every AgingTime, each switch erases the entries idle for longer. *)

AgedUnlessNow(entry) == IF entry # None /\ now > entry.active THEN None ELSE entry \* (mutant)
Aged(entry) == IF entry # None /\ now - entry.active > AgingTime THEN None ELSE entry

AgingEventTx ==
    /\ aging.tx = now
    /\ tx' = Aged(tx) /\ aging' = [aging EXCEPT !.tx = now + AgingTime]
    /\ UNCHANGED <<now, rx, voq, wire, replies, sent, delivered, failed, outlived>>

AgingEventRx ==
    /\ aging.rx = now
    /\ rx' = Aged(rx) /\ aging' = [aging EXCEPT !.rx = now + AgingTime]
    /\ UNCHANGED <<now, tx, voq, wire, replies, sent, delivered, failed, outlived>>

(* Time does not pass what is due.                                         *)
NothingDue ==
    /\ \A path \in Paths : \A k \in DOMAIN wire[path] :
          now < wire[path][k].tx + MinDelay[path] + Jitter
    /\ \A r \in replies : now < r.since + ReplyDelay
    /\ voq # None => voq.flushAt > now
    /\ aging.tx > now /\ aging.rx > now

(* When nothing is under way and no reply is waited for, the clock goes on *)
(* to the next time that matters.                                          *)
Quiet ==
    /\ \A path \in Paths : wire[path] = << >>
    /\ replies = {} /\ voq = None
    /\ tx = None \/ tx.timer < now \/ tx.timer = MaxTime

Instants ==
    {aging.tx, aging.rx} \cup
        IF tx = None THEN {} ELSE {tx.active + TxExpiryTime + 1, tx.active + AgingTime + 1}

Tick ==
    /\ NothingDue
    /\ now' = IF Quiet THEN Min({t \in Instants : t > now}) ELSE now + 1
    /\ Quiet => sent < MaxPackets
    /\ UNCHANGED <<tx, rx, voq, wire, replies, aging, sent, delivered, failed, outlived>>

(* The first packet is sent later than TxExpiryTime (flows start at 2 s).  *)
(* Other flows have started the switches' aging events.                    *)
ConWeaveInit ==
    /\ now = TxExpiryTime + 1
    /\ tx = None /\ rx = None /\ voq = None
    /\ wire = [path \in Paths |-> << >>] /\ replies = {}
    /\ aging \in [tx : {now + d : d \in Phases}, rx : {now + d : d \in Phases}]
    /\ sent = 0 /\ delivered = << >> /\ failed = FALSE /\ outlived = FALSE

ConWeaveNext ==
    SendData \/ ReceiveReply \/ ReceiveData \/ FlushVOQ \/ AgingEventTx \/ AgingEventRx \/ Tick

ConWeaveSpec == ConWeaveInit /\ [][ConWeaveNext]_conWeaveVars

-----------------------------------------------------------------------------
(* No assertion of the code fails.                                         *)
AssertionsHold == ~ failed

(* The host gets the packets of the flow in their order, however the two   *)
(* paths' delays differ, while no path's own delay changes by more than    *)
(* the extra time; but for a flow that TxToR forgot and RxToR did not.     *)
InOrder ==
    ~ outlived => \A j, k \in DOMAIN delivered : j < k => delivered[j] < delivered[k]

(* A stabilized flow, which may be rerouted again, has all its packets on  *)
(* its current path: never do packets of it travel on three.               *)
StableOnOnePath ==
    tx # None /\ tx.stabilized =>
        \A path \in Paths : wire[path] # << >> => path = tx.path

(* No packet is held for longer than the default waiting time and the      *)
(* extra time, counted from when the first one was: however often packets  *)
(* of phase 0 reschedule the flush (RescheduleFlush), they do not put it   *)
(* off beyond that.                                                        *)
HoldBounded ==
    voq # None =>
        /\ now <= voq.flushAt
        /\ voq.flushAt <= voq.since + DefaultVOQWaitingTime + ExtraVOQFlushTime
=============================================================================
