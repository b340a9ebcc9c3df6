------------------------------ MODULE Delivery ------------------------------
(***************************************************************************)
(* What a reliable transport promises for one flow: the receiver takes the *)
(* flow's bytes in order and without a gap, and the sender reports         *)
(* completion once, and only when the receiver has every byte.             *)
(***************************************************************************)
EXTENDS Naturals

CONSTANT FlowSize   \* bytes of the flow, at least one

VARIABLES
    received,   \* the bytes the receiver has taken
    complete    \* the sender has reported completion

deliveryVars == <<received, complete>>

DeliveryInit == received = {} /\ complete = FALSE

Take == \E n \in 1 .. FlowSize :
            /\ \E m \in 0 .. n - 1 : received = 0 .. m - 1
            /\ received' = 0 .. n - 1
            /\ UNCHANGED complete

Report == /\ ~ complete /\ received = 0 .. FlowSize - 1
          /\ complete' = TRUE
          /\ UNCHANGED received

DeliverySpec == DeliveryInit /\ [][Take \/ Report]_deliveryVars
=============================================================================
