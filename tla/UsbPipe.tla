------------------------------ MODULE UsbPipe ------------------------------
(* What a pipe between the host and an endpoint promises: packets move only *)
(* while a transfer is active, each of them once and in order, although the *)
(* side that sends may have to wait to learn that its packet arrived.       *)
EXTENDS Naturals

CONSTANT Names

VARIABLES active,    \* is there a transfer on the pipe?
          arrived,   \* packets the receiving side has taken
          confirmed  \* packets the sending side knows to have arrived

vars == <<active, arrived, confirmed>>

Init == /\ active    = [n \in Names |-> FALSE]
        /\ arrived   = [n \in Names |-> 0]
        /\ confirmed = [n \in Names |-> 0]

Start(n) == /\ ~active[n]
            /\ active' = [active EXCEPT ![n] = TRUE]
            /\ UNCHANGED <<arrived, confirmed>>

End(n) == /\ active[n]
          /\ active' = [active EXCEPT ![n] = FALSE]
          /\ UNCHANGED <<arrived, confirmed>>

(* One packet arrives, is confirmed, or both; the transfer may be over with it. *)
Move(n) == /\ active[n]
           /\ \E over \in BOOLEAN : active' = [active EXCEPT ![n] = ~over]
           /\ \/ /\ arrived[n] = confirmed[n]
                 /\ arrived' = [arrived EXCEPT ![n] = @ + 1]
                 /\ \/ confirmed' = [confirmed EXCEPT ![n] = @ + 1]
                    \/ UNCHANGED confirmed
              \/ /\ confirmed[n] + 1 = arrived[n]
                 /\ confirmed' = [confirmed EXCEPT ![n] = @ + 1]
                 /\ UNCHANGED arrived

(* A device that is new on the bus starts over.                             *)
Reset == /\ active'    = [n \in Names |-> FALSE]
         /\ arrived'   = [n \in Names |-> 0]
         /\ confirmed' = [n \in Names |-> 0]

(* The cable takes every transfer with it.                                  *)
Unplug == /\ active' = [n \in Names |-> FALSE]
          /\ UNCHANGED <<arrived, confirmed>>

Next == Reset \/ Unplug \/ \E n \in Names : Start(n) \/ End(n) \/ Move(n)

Spec == Init /\ [][Next]_vars
=============================================================================
