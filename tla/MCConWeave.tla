----------------------------- MODULE MCConWeave -----------------------------
(* A fast path and a slow one, on times in the proportions of the driver's *)
(* (the deadline of a reply, the extra time of the queue, its default      *)
(* waiting time, the expiry and the aging time, each far longer).          *)
EXTENDS ConWeave

MCMinDelay == [path \in Paths |-> IF path = "fast" THEN 1 ELSE 4]

(* States that differ by a shift of all times are one state: the actions   *)
(* only compare times with each other and with now.  A time that is long   *)
(* past, as those are that an entry begins with, is before all others.     *)
Relative(t) == IF t = MaxTime THEN t ELSE Max({t - now, -3 * AgingTime})

MCView ==
    <<IF tx = None THEN None
      ELSE [tx EXCEPT !.active = Relative(@), !.timer = Relative(@), !.tail = Relative(@)],
      IF rx = None THEN None
      ELSE [rx EXCEPT !.active = Relative(@), !.phase0Tx = Relative(@), !.phase0Rx = Relative(@),
                      !.tail = Relative(@)],
      IF voq = None THEN None
      ELSE <<[k \in DOMAIN voq.queue |-> voq.queue[k].id], Relative(voq.since), Relative(voq.flushAt)>>,
      [path \in Paths |-> [k \in DOMAIN wire[path] |->
          [wire[path][k] EXCEPT !.tx = Relative(@), !.tail = Relative(@)]]],
      {[r EXCEPT !.since = Relative(@)] : r \in replies},
      [aging EXCEPT !.tx = Relative(@), !.rx = Relative(@)],
      sent, delivered, failed, outlived>>
=============================================================================
