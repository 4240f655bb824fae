---------------------------- MODULE UsbHost_proofs ----------------------------
(* For every number of endpoints and slots: no transfer the stack waits for *)
(* is ever forgotten, whether the frame interrupt and the task share a core *)
(* or not; on one core a transfer has one outcome; a device that comes back *)
(* a frame later is never taken for the one before; and with both, the      *)
(* controller implements the pipes.  The first part proves the types and    *)
(* what is kept of a transfer; the second, what each step writes; the rest  *)
(* adds an inductive invariant for each of the other properties.            *)
EXTENDS UsbHost, SequenceTheorems, TLAPS

(* A slot, with the identifiers this pool uses (SETUP is a control pipe's). *)
Slot == {e \in Endpoint({0, MAX_SIZE}, Int, {0}) : e.data_id \in Pids}

(* Every slot in use, and every slot a call or the interrupt is at, has an  *)
(* endpoint.                                                                *)
Owned == /\ ep \in [Slots -> Slot]
         /\ \A s \in Slots : ep[s].size > 0 => who[s] \in Names
         /\ isr.at \in {"start", "bus"} => who[isr.slot] \in Names
         /\ task.op # "idle" => task.slot \in Slots
         /\ task.op \in {"open", "mark", "abort", "aborted"} => who[task.slot] \in Names

(* The strengthening of NoTransferForgotten: the slot is also still open,   *)
(* so that nobody else can be given it.                                     *)
Flagged == ints.complete \cup ints.stalled \cup ints.error
Kept == \A n \in due : \E s \in Slots :
           who[s] = n /\ ep[s].size > 0 /\ (ep[s].has_transfer \/ s \in Flagged)

HostInv == TypeOK /\ Owned /\ Kept

-----------------------------------------------------------------------------
(* The transfer functions keep a slot a slot, and its size what it was.     *)

(* An assignment to a field leaves a slot a slot.                           *)
LEMMA SlotFields ==
    ASSUME NEW e \in Slot, NEW b \in BOOLEAN, NEW p \in Pids, NEW size \in {0, MAX_SIZE}
    PROVE  /\ [e EXCEPT !.transfer_started = b] \in Slot
           /\ [e EXCEPT !.transfer_aborted = b] \in Slot
           /\ [e EXCEPT !.has_transfer = b] \in Slot
           /\ [e EXCEPT !.has_transfer = b, !.transfer_aborted = FALSE] \in Slot
           /\ [e EXCEPT !.size = size, !.data_id = p] \in Slot
           /\ [e EXCEPT !.size = size, !.has_transfer = b] \in Slot
           /\ [e EXCEPT !.is_tx = b] \in Slot
BY DEF Slot, Endpoint, Pids

(* Preparing the next OUT packet changes neither size nor transfer.         *)
LEMMA PrepareTxSlot == ASSUME NEW e \in Slot
                       PROVE  PrepareTx(e) \in Slot /\ PrepareTx(e).size = e.size
                              /\ PrepareTx(e).has_transfer = e.has_transfer
<1>1. TransactionLen(e) \in Int
  BY PoolAssumption DEF Slot, Endpoint, TransactionLen
<1>2. DataPid(e) \in Pids
  BY DEF DataPid, Pids
<1> HIDE DEF TransactionLen, DataPid
<1> QED BY <1>1, <1>2 DEF Slot, Endpoint, PrepareTx

(* A transfer that is started is there.                                     *)
LEMMA StartSlot == ASSUME NEW e \in Slot, NEW len \in Int
                   PROVE  /\ TransferStart(e, 0, len) \in Slot
                          /\ TransferStart(e, 0, len).size = e.size
                          /\ TransferStart(e, 0, len).has_transfer = TRUE
<1> DEFINE fresh == [e EXCEPT !.app_buf = 0, !.total_len = len, !.actual_len = 0,
                              !.transfer_started = FALSE, !.transfer_aborted = FALSE,
                              !.has_transfer = TRUE]
<1>1. fresh \in Slot
  <2> DEFINE sized == [e EXCEPT !.total_len = len]
             reset == [sized EXCEPT !.actual_len = 0]
             named == [reset EXCEPT !.app_buf = 0]
             free  == [named EXCEPT !.transfer_started = FALSE, !.transfer_aborted = FALSE]
  <2>1. fresh = [free EXCEPT !.has_transfer = TRUE]
    BY DEF Slot, Endpoint
  <2>2. sized \in Slot
    BY DEF Slot, Endpoint
  <2> HIDE DEF fresh, sized
  <2>3. reset \in Slot
    BY <2>2 DEF Slot, Endpoint
  <2> HIDE DEF reset
  <2>4. named \in Slot
    BY <2>3 DEF Slot, Endpoint
  <2> HIDE DEF named
  <2>5. free \in Slot
    BY <2>4 DEF Slot, Endpoint
  <2> HIDE DEF free
  <2> QED BY <2>1, <2>5 DEF Slot, Endpoint
<1>2. fresh.size = e.size
  BY DEF Slot, Endpoint
<1>3. fresh.has_transfer = TRUE
  BY DEF Slot, Endpoint
<1>4. e.has_transfer \in BOOLEAN
  BY DEF Slot, Endpoint
<1>5. TransferStart(e, 0, len) = IF e.has_transfer THEN e ELSE IF e.is_tx THEN PrepareTx(fresh) ELSE fresh
  BY DEF TransferStart
<1> HIDE DEF fresh
<1> QED BY <1>1, <1>2, <1>3, <1>4, <1>5, PrepareTxSlot

(* A packet that is not the last leaves the transfer in the slot.           *)
LEMMA ContinueSlot == ASSUME NEW e \in Slot, NEW len \in Int
                      PROVE  /\ TransferContinue(e, len) \in Slot
                             /\ TransferContinue(e, len).size = e.size
                             /\ ~LastPacket(e, len) => TransferContinue(e, len).has_transfer = e.has_transfer
<1> DEFINE moved == [e EXCEPT !.actual_len = @ + len, !.data_id = Flip(@)]
<1>1. moved \in Slot /\ moved.size = e.size /\ moved.has_transfer = e.has_transfer
  <2>1. Flip(e.data_id) \in Pids /\ Pids \subseteq {0, 1, SETUP}
    BY DEF Slot, Pids, Flip
  <2>2. e.actual_len + len \in Int
    BY DEF Slot, Endpoint
  <2> HIDE DEF Flip, Pids
  <2> QED BY <2>1, <2>2 DEF Slot, Endpoint
<1>2. TransferComplete(moved) \in Slot /\ TransferComplete(moved).size = moved.size
  <2> HIDE DEF moved
  <2> QED BY <1>1 DEF TransferComplete, Slot, Endpoint
<1>3. TransferContinue(e, len) = IF LastPacket(e, len) THEN TransferComplete(moved)
                                 ELSE IF e.is_tx THEN PrepareTx(moved) ELSE moved
  BY DEF TransferContinue
<1> HIDE DEF moved, TransferComplete, LastPacket
<1> QED BY <1>1, <1>2, <1>3, PrepareTxSlot

(* A transfer that is over leaves its slot open.                            *)
LEMMA CompleteSlot == ASSUME NEW e \in Slot
                      PROVE  TransferComplete(e) \in Slot /\ TransferComplete(e).size = e.size
BY DEF TransferComplete, Slot, Endpoint

-----------------------------------------------------------------------------
(* The start.                                                               *)
LEMMA InitInv == Init => HostInv
<1> SUFFICES ASSUME Init PROVE HostInv
  OBVIOUS
<1>1. FreeEndpoint(0) \in Slot /\ FreeEndpoint(0).size = 0
  BY DEF FreeEndpoint, Slot, Endpoint, Pids
<1>2. ep \in [Slots -> Slot] /\ \A s \in Slots : ep[s].size = 0
  BY <1>1 DEF Init
<1>3. 1 \in Slots
  BY PoolAssumption DEF Slots
<1>4. TypeOK
  <2>1. ep \in [Slots -> Endpoint({0, MAX_SIZE}, Int, {0})]
    BY <1>2 DEF Slot
  <2>2. events \in Seq({"attach", "remove"})
    BY EmptySeq DEF Init
  <2> QED BY <1>3, <2>1, <2>2 DEF Init, TypeOK, PoolOK, FrameOK, TaskOK, BusOK, NoInts, Idle
<1>5. Owned /\ Kept
  BY <1>2 DEF Init, Owned, Kept, Idle
<1> QED BY <1>4, <1>5 DEF HostInv

(* Steps that leave the transfers alone keep Kept if they raise no less.    *)
LEMMA KeptSame == ASSUME Kept, UNCHANGED <<ep, who>>, due' \subseteq due, Flagged \subseteq Flagged'
                  PROVE  Kept'
BY DEF Kept

(* What a step leaves alone keeps its type.                                 *)
LEMMA SameType ==
    /\ PoolOK /\ UNCHANGED <<who, counter>> /\ ep' \in [Slots -> Slot] => PoolOK'
    /\ FrameOK /\ UNCHANGED <<root, ints, isr>> => FrameOK'
    /\ TaskOK /\ UNCHANGED <<task, drv, events, due>> => TaskOK'
    /\ BusOK /\ UNCHANGED <<plugged, ready, plugs, sent, got>> => BusOK'
<1>1. ep' \in [Slots -> Slot] => ep' \in [Slots -> Endpoint({0, MAX_SIZE}, Int, {0})]
  BY DEF Slot
<1> QED BY <1>1 DEF PoolOK, FrameOK, TaskOK, BusOK

(* The walk stays within the pool.                                          *)
LEMMA NextSlotType == ASSUME TypeOK, NextSlot
                      PROVE  /\ isr' \in [at : {"idle", "slot", "start", "bus", "port", "irq"}, slot : Slots]
                             /\ isr'.at \in {"slot", "port"}
<1>1. 1 \in Slots
  BY PoolAssumption DEF Slots
<1> QED BY <1>1 DEF NextSlot, Goto, TypeOK, PoolOK, FrameOK, TaskOK, BusOK

-----------------------------------------------------------------------------
(* The frame interrupt.                                                     *)

(* A disconnection ends every transfer and flags each in the same step.     *)
LEMMA FrameBeginInv == ASSUME HostInv, FrameBegin PROVE HostInv'
<1>1. /\ UNCHANGED <<who, counter, task, drv, events, plugged, ready, plugs, sent, got, due>>
      /\ TypeOK /\ Owned /\ Kept /\ 1 \in Slots
  BY PoolAssumption DEF FrameBegin, HostInv, Slots
<1>2. isr' \in [at : {"idle", "slot", "start", "bus", "port", "irq"}, slot : Slots] /\ isr'.at \in {"slot", "port"}
  BY <1>1 DEF FrameBegin, Goto
<1>3. CASE Disconnect
  <2>1. /\ \A s \in Slots : ep'[s] = IF Active(s) THEN TransferComplete(ep[s]) ELSE ep[s]
        /\ DOMAIN ep' = Slots /\ ep' = [s \in Slots |-> ep'[s]]
        /\ root' = [connected |-> FALSE, suspended |-> TRUE]
        /\ ints' = [ints EXCEPT !.disconnect = TRUE, !.error = @ \cup {s \in Slots : Active(s)}]
    BY <1>3 DEF Disconnect
  <2>2. \A s \in Slots : ep'[s] \in Slot /\ ep'[s].size = ep[s].size
    BY <1>1, <2>1, CompleteSlot DEF Owned
  <2>3. ep' \in [Slots -> Slot]
    BY <2>1, <2>2
  <2>4. ints \in [connect : BOOLEAN, disconnect : BOOLEAN, complete : SUBSET Slots,
                  error : SUBSET Slots, stalled : SUBSET Slots]
    BY <1>1 DEF TypeOK, PoolOK, FrameOK, TaskOK, BusOK
  <2>5. /\ ints' \in [connect : BOOLEAN, disconnect : BOOLEAN, complete : SUBSET Slots,
                      error : SUBSET Slots, stalled : SUBSET Slots]
        /\ Flagged' = Flagged \cup {s \in Slots : Active(s)}
    BY <2>1, <2>4 DEF Flagged
  <2>6. TypeOK'
    <3>1. ep' \in [Slots -> Endpoint({0, MAX_SIZE}, Int, {0})]
      BY <2>3 DEF Slot
    <3> QED BY <1>1, <1>2, <2>1, <2>5, <3>1 DEF TypeOK, PoolOK, FrameOK, TaskOK, BusOK
  <2>7. Owned'
    BY <1>1, <1>2, <2>2, <2>3 DEF Owned
  <2>8. Kept'
    <3> SUFFICES ASSUME NEW n \in due
                 PROVE  \E s \in Slots : who[s] = n /\ ep'[s].size > 0 /\ (ep'[s].has_transfer \/ s \in Flagged')
      BY <1>1 DEF Kept
    <3>1. PICK s \in Slots : who[s] = n /\ ep[s].size > 0 /\ (ep[s].has_transfer \/ s \in Flagged)
      BY <1>1 DEF Kept
    <3>2. ep'[s].size > 0 /\ s \in Flagged'
      BY <2>2, <2>5, <3>1 DEF Active
    <3> QED BY <3>1, <3>2
  <2> QED BY <2>6, <2>7, <2>8 DEF HostInv
<1>4. CASE UNCHANGED <<root, ints, ep>>
  <2>1. Flagged' = Flagged
    BY <1>4 DEF Flagged
  <2>2. TypeOK'
    <3>1. FrameOK'
      BY <1>1, <1>2, <1>4 DEF TypeOK, FrameOK
    <3> QED BY <1>1, <1>4, <3>1, SameType DEF TypeOK, Owned
  <2>3. Owned'
    BY <1>1, <1>2, <1>4 DEF Owned
  <2> QED BY <1>1, <1>4, <2>1, <2>2, <2>3, KeptSame DEF HostInv
<1> QED BY <1>3, <1>4 DEF FrameBegin

(* The walk itself touches no transfer.                                     *)
LEMMA SlotVisitInv == ASSUME HostInv, SlotVisit PROVE HostInv'
<1>1. /\ UNCHANGED <<ep, who, root, ints, task, drv, events, plugged, ready, plugs, sent, got, due>>
      /\ TypeOK /\ Owned /\ Kept /\ isr.slot \in Slots
  BY DEF SlotVisit, HostInv, TypeOK, PoolOK, FrameOK, TaskOK, BusOK
<1>2. counter' \in [Slots -> Nat]
  <2>1. counter \in [Slots -> Nat]
    BY <1>1 DEF TypeOK, PoolOK, FrameOK, TaskOK, BusOK
  <2>2. Waiting(isr.slot) => counter[isr.slot] - 1 \in Nat
    BY <1>1, <2>1 DEF Waiting
  <2> QED BY <2>1, <2>2, <1>1 DEF SlotVisit
<1>3. /\ isr' \in [at : {"idle", "slot", "start", "bus", "port", "irq"}, slot : Slots]
      /\ isr'.at \in {"start", "bus"} => who[isr'.slot] \in Names
  <2>1. CASE NextSlot
    BY <1>1, <2>1, NextSlotType
  <2>2. CASE Due(isr.slot) /\ Goto("start", isr.slot)
    BY <1>1, <2>2 DEF Goto, Due, Active, Owned
  <2> QED BY <2>1, <2>2 DEF SlotVisit
<1>4. Kept'
  BY <1>1, KeptSame DEF Flagged
<1>5. TypeOK'
  <2>1. FrameOK'
    BY <1>1, <1>3 DEF TypeOK, FrameOK
  <2>2. PoolOK'
    BY <1>1, <1>2 DEF TypeOK, PoolOK
  <2> QED BY <1>1, <2>1, <2>2, SameType DEF TypeOK
<1>6. Owned'
  BY <1>1, <1>3 DEF Owned
<1> QED BY <1>4, <1>5, <1>6 DEF HostInv

(* The start of a transaction marks the slot and no more.                   *)
LEMMA SlotStartInv == ASSUME HostInv, SlotStart PROVE HostInv'
<1>1. /\ UNCHANGED <<who, counter, root, ints, task, drv, events, plugged, ready, plugs, sent, got, due>>
      /\ TypeOK /\ Owned /\ Kept /\ isr.slot \in Slots /\ isr.at = "start"
      /\ ep' = [ep EXCEPT ![isr.slot].transfer_started = TRUE]
      /\ ep \in [Slots -> Slot]
  BY DEF SlotStart, HostInv, TypeOK, PoolOK, FrameOK, TaskOK, BusOK, Owned
<1>2. /\ isr' \in [at : {"idle", "slot", "start", "bus", "port", "irq"}, slot : Slots]
      /\ isr'.slot = isr.slot
  BY <1>1 DEF SlotStart, Goto
<1>3. /\ ep' \in [Slots -> Slot]
      /\ \A s \in Slots : ep'[s].size = ep[s].size /\ ep'[s].has_transfer = ep[s].has_transfer
  <2>1. [ep[isr.slot] EXCEPT !.transfer_started = TRUE] \in Slot
    BY <1>1, SlotFields DEF Pids
  <2>2. /\ [ep[isr.slot] EXCEPT !.transfer_started = TRUE].size = ep[isr.slot].size
        /\ [ep[isr.slot] EXCEPT !.transfer_started = TRUE].has_transfer = ep[isr.slot].has_transfer
    <3>1. ep[isr.slot] \in Slot
      BY <1>1
    <3> QED BY <3>1 DEF Slot, Endpoint
  <2> QED BY <1>1, <2>1, <2>2
<1>4. TypeOK'
  <2>1. FrameOK'
    BY <1>1, <1>2 DEF TypeOK, FrameOK
  <2> QED BY <1>1, <1>3, <2>1, SameType DEF TypeOK
<1>5. Owned' /\ Kept'
  BY <1>1, <1>2, <1>3 DEF Owned, Kept, Flagged
<1> QED BY <1>4, <1>5 DEF HostInv

(* The end of a transaction: what is over is flagged in the same step.      *)
LEMMA SlotEndInv ==
    ASSUME HostInv, isr.at = "bus", NEW e \in Slot, e.size = ep[isr.slot].size,
           NEW flag \in {"none", "complete", "error", "stalled"},
           flag = "none" /\ ep[isr.slot].has_transfer => e.has_transfer,
           SlotEnd(e, flag), BusOK',
           UNCHANGED <<who, root, task, drv, events, due>>
    PROVE  HostInv'
<1> DEFINE s == isr.slot
           f == [e EXCEPT !.transfer_started = FALSE]
<1>1. /\ TypeOK /\ Owned /\ Kept /\ s \in Slots /\ who[s] \in Names
      /\ ep \in [Slots -> Slot]
      /\ ints \in [connect : BOOLEAN, disconnect : BOOLEAN, complete : SUBSET Slots,
                   error : SUBSET Slots, stalled : SUBSET Slots]
  BY DEF HostInv, TypeOK, FrameOK, Owned
<1>2. f \in Slot /\ f.size = ep[s].size /\ f.has_transfer = e.has_transfer
  <2>1. f \in Slot
    BY SlotFields DEF Pids
  <2> QED BY <2>1 DEF Slot, Endpoint
<1>3. ep' = [ep EXCEPT ![s] = f]
  BY DEF SlotEnd
<1>4. /\ ints' \in [connect : BOOLEAN, disconnect : BOOLEAN, complete : SUBSET Slots,
                    error : SUBSET Slots, stalled : SUBSET Slots]
      /\ Flagged \subseteq Flagged' /\ (flag # "none" => s \in Flagged')
  <2>1. CASE flag = "none"
    BY <1>1, <2>1 DEF SlotEnd, Flagged
  <2>2. CASE flag = "complete"
    <3>1. ints' = [ints EXCEPT !.complete = @ \cup {s}]
      BY <2>2 DEF SlotEnd
    <3> QED BY <1>1, <2>2, <3>1 DEF Flagged
  <2>3. CASE flag = "error"
    <3>1. ints' = [ints EXCEPT !.error = @ \cup {s}]
      BY <2>3 DEF SlotEnd
    <3> QED BY <1>1, <2>3, <3>1 DEF Flagged
  <2>4. CASE flag = "stalled"
    <3>1. ints' = [ints EXCEPT !.stalled = @ \cup {s}]
      BY <2>4 DEF SlotEnd
    <3> QED BY <1>1, <2>4, <3>1 DEF Flagged
  <2> QED BY <2>1, <2>2, <2>3, <2>4
<1>5. /\ isr' \in [at : {"idle", "slot", "start", "bus", "port", "irq"}, slot : Slots]
      /\ isr'.at \in {"slot", "port"}
  BY <1>1, NextSlotType DEF SlotEnd
<1>6. counter' \in [Slots -> Nat]
  <2>1. counter \in [Slots -> Nat] /\ Interval[who[s]] \in Nat
    BY <1>1, PoolAssumption DEF TypeOK, PoolOK
  <2>2. (IF Interval[who[s]] > 0 THEN Interval[who[s]] - 1 ELSE counter[s]) \in Nat
    BY <2>1, <1>1
  <2>3. counter' = [counter EXCEPT ![s] = IF Interval[who[s]] > 0 THEN Interval[who[s]] - 1 ELSE @]
    BY DEF SlotEnd
  <2> QED BY <2>1, <2>2, <2>3
<1> HIDE DEF f
<1>7. ep' \in [Slots -> Slot] /\ ep'[s] = f /\ \A t \in Slots \ {s} : ep'[t] = ep[t]
  BY <1>1, <1>2, <1>3
<1>8. TypeOK'
  <2>1. PoolOK'
    <3>1. ep' \in [Slots -> Endpoint({0, MAX_SIZE}, Int, {0})]
      BY <1>7 DEF Slot
    <3> QED BY <1>1, <1>6, <3>1 DEF TypeOK, PoolOK
  <2>2. FrameOK'
    BY <1>1, <1>4, <1>5 DEF TypeOK, FrameOK
  <2> QED BY <1>1, <2>1, <2>2, SameType DEF TypeOK
<1>9. Owned'
  BY <1>1, <1>2, <1>5, <1>7 DEF Owned
<1>10. Kept'
  <2> SUFFICES ASSUME NEW n \in due
               PROVE  \E t \in Slots : who[t] = n /\ ep'[t].size > 0 /\ (ep'[t].has_transfer \/ t \in Flagged')
    BY DEF Kept
  <2>1. PICK t \in Slots : who[t] = n /\ ep[t].size > 0 /\ (ep[t].has_transfer \/ t \in Flagged)
    BY <1>1 DEF Kept
  <2>2. CASE t = s
    BY <1>2, <1>4, <1>7, <2>1, <2>2
  <2>3. CASE t # s
    BY <1>4, <1>7, <2>1, <2>3
  <2> QED BY <2>2, <2>3
<1> QED BY <1>8, <1>9, <1>10 DEF HostInv

(* A counter of packets stays one.                                          *)
LEMMA CountType == ASSUME NEW f \in [Names -> Nat], NEW n \in Names, NEW hit \in BOOLEAN, NEW g,
                          g = IF hit THEN [f EXCEPT ![n] = @ + 1] ELSE f
                   PROVE  g \in [Names -> Nat]
OBVIOUS

(* Whatever a device answers, or does not.                                  *)
LEMMA TransactionInv == ASSUME HostInv, Transaction PROVE HostInv'
<1> DEFINE e == ep[isr.slot]
           n == who[isr.slot]
<1>1. /\ isr.at = "bus" /\ e \in Slot /\ n \in Names /\ BusOK
      /\ UNCHANGED <<who, root, task, drv, events, plugged, ready, plugs, due>>
      /\ sent \in [Names -> Nat] /\ got \in [Names -> Nat]
  BY DEF Transaction, HostInv, TypeOK, BusOK, FrameOK, Owned
<1>2. ASSUME sent' \in [Names -> Nat], got' \in [Names -> Nat] PROVE BusOK'
  BY <1>1, <1>2 DEF BusOK
<1>3. TransferComplete(e) \in Slot /\ TransferComplete(e).size = e.size
  BY <1>1, CompleteSlot
<1>4. ASSUME UNCHANGED <<sent, got>>,
             \/ SlotEnd(e, "none") \/ SlotEnd(TransferComplete(e), "stalled")
             \/ SlotEnd(TransferComplete(e), "error")
      PROVE  HostInv'
  <2>1. BusOK'
    BY <1>1, <1>2, <1>4
  <2>2. CASE SlotEnd(e, "none")
    BY <1>1, <2>1, <2>2, SlotEndInv
  <2>3. CASE SlotEnd(TransferComplete(e), "stalled")
    BY <1>1, <1>3, <2>1, <2>3, SlotEndInv
  <2>4. CASE SlotEnd(TransferComplete(e), "error")
    BY <1>1, <1>3, <2>1, <2>4, SlotEndInv
  <2> QED BY <1>4, <2>2, <2>3, <2>4
<1>5. ASSUME NEW len \in Int, Continue(e, len), BusOK' PROVE HostInv'
  <2> DEFINE flag == IF LastPacket(e, len) THEN "complete" ELSE "none"
             after == TransferContinue(e, len)
  <2>1. after \in Slot /\ after.size = e.size /\ (~LastPacket(e, len) => after.has_transfer = e.has_transfer)
    BY <1>1, ContinueSlot
  <2>2. SlotEnd(after, flag) /\ flag \in {"none", "complete", "error", "stalled"}
    BY <1>5 DEF Continue
  <2>3. flag = "none" => ~LastPacket(e, len)
    OBVIOUS
  <2> HIDE DEF after, flag
  <2> QED BY <1>1, <1>5, <2>1, <2>2, <2>3, SlotEndInv
<1>6. ASSUME NEW len \in {MAX_SIZE - 1, MAX_SIZE}, NEW confirmed \in BOOLEAN, InData(len, confirmed)
      PROVE  HostInv'
  <2> DEFINE fresh == Fresh(sent[n] % 2, e)
  <2>1. /\ Count(got, n, fresh) /\ Count(sent, n, confirmed)
        /\ IF fresh THEN Continue(e, len) ELSE SlotEnd(e, "none")
    BY <1>6 DEF InData
  <2>2. fresh \in BOOLEAN
    BY DEF Fresh
  <2>3. BusOK'
    <3> HIDE DEF fresh
    <3>1. sent' \in [Names -> Nat] /\ got' \in [Names -> Nat]
      BY <1>1, <2>1, <2>2, CountType DEF Count
    <3> QED BY <1>2, <3>1
  <2>4. len \in Int
    BY PoolAssumption
  <2>5. CASE fresh
    BY <1>5, <2>1, <2>3, <2>4, <2>5
  <2>6. CASE ~fresh
    BY <1>1, <2>1, <2>3, <2>6, SlotEndInv
  <2> QED BY <2>5, <2>6
<1>7. ASSUME NEW confirmed \in BOOLEAN, OutData(confirmed) PROVE HostInv'
  <2> DEFINE hit == e.buffer.pid = got[n] % 2
  <2>1. /\ Count(got, n, hit) /\ Count(sent, n, confirmed)
        /\ IF confirmed THEN Continue(e, TransactionLen(e)) ELSE SlotEnd(TransferComplete(e), "error")
    BY <1>7 DEF OutData
  <2>2. BusOK'
    <3>1. hit \in BOOLEAN
      OBVIOUS
    <3> HIDE DEF hit
    <3>2. sent' \in [Names -> Nat] /\ got' \in [Names -> Nat]
      BY <1>1, <2>1, <3>1, CountType DEF Count
    <3> QED BY <1>2, <3>2
  <2>3. TransactionLen(e) \in Int
    BY <1>1, PoolAssumption DEF TransactionLen, Slot, Endpoint
  <2>4. CASE confirmed
    BY <1>5, <2>1, <2>2, <2>3, <2>4
  <2>5. CASE ~confirmed
    BY <1>1, <1>3, <2>1, <2>2, <2>5, SlotEndInv
  <2> QED BY <2>4, <2>5
<1>8. CASE usb_in_transaction
  BY <1>4, <1>6, <1>8 DEF usb_in_transaction
<1>9. CASE usb_out_transaction
  BY <1>4, <1>7, <1>9 DEF usb_out_transaction
<1> QED BY <1>8, <1>9 DEF Transaction

(* A connection is noticed without a change to the pool.                    *)
LEMMA PortCheckInv == ASSUME HostInv, PortCheck PROVE HostInv'
<1>1. /\ UNCHANGED <<ep, who, counter, task, drv, events, plugged, ready, plugs, sent, got, due>>
      /\ TypeOK /\ Owned /\ Kept /\ ep \in [Slots -> Slot] /\ 1 \in Slots
  BY PoolAssumption DEF PortCheck, HostInv, Owned, Slots
<1>2. isr' \in [at : {"idle", "slot", "start", "bus", "port", "irq"}, slot : Slots] /\ isr'.at = "irq"
  BY <1>1 DEF PortCheck, Goto
<1>3. FrameOK' /\ Flagged' = Flagged
  <2>1. CASE UNCHANGED <<root, ints>>
    BY <1>1, <1>2, <2>1 DEF TypeOK, FrameOK, Flagged
  <2>2. CASE /\ root' = [connected |-> TRUE, suspended |-> TRUE]
             /\ ints' = [ints EXCEPT !.connect = TRUE]
    BY <1>1, <1>2, <2>2 DEF TypeOK, FrameOK, Flagged
  <2> QED BY <2>1, <2>2 DEF PortCheck
<1>4. TypeOK'
  BY <1>1, <1>3, SameType DEF TypeOK
<1>5. Owned'
  BY <1>1, <1>2 DEF Owned
<1> QED BY <1>1, <1>3, <1>4, <1>5, KeptSame DEF HostInv

(* The stack is told of every slot flagged; what is still due goes on.      *)
LEMMA FrameEndInv == ASSUME HostInv, FrameEnd PROVE HostInv'
<1>1. /\ UNCHANGED <<ep, who, counter, root, task, drv, plugged, ready, plugs, sent, got>>
      /\ TypeOK /\ Owned /\ Kept /\ ep \in [Slots -> Slot] /\ 1 \in Slots
      /\ events' = Deliver(events) /\ due' = due \ Reported /\ ints' = NoInts
  BY PoolAssumption DEF FrameEnd, HostInv, Owned, Slots
<1>2. isr' \in [at : {"idle", "slot", "start", "bus", "port", "irq"}, slot : Slots] /\ isr'.at = "idle"
  BY <1>1 DEF FrameEnd, Goto
<1>3. FrameOK'
  BY <1>1, <1>2 DEF NoInts, TypeOK, FrameOK
<1>4. TaskOK'
  <2> DEFINE E == {"attach", "remove"}
             a == IF ints.connect THEN <<"attach">> ELSE <<>>
             b == IF ints.disconnect THEN <<"remove">> ELSE <<>>
  <2>1. events \in Seq(E) /\ a \in Seq(E) /\ b \in Seq(E)
    <3>1. events \in Seq(E)
      BY <1>1 DEF TypeOK, TaskOK
    <3>2. <<>> \in Seq(E) /\ <<"attach">> \in Seq(E) /\ <<"remove">> \in Seq(E)
      OBVIOUS
    <3> QED BY <3>1, <3>2
  <2>2. events' = (events \o a) \o b
    BY <1>1 DEF Deliver
  <2> HIDE DEF E, a, b
  <2>3. events' \in Seq(E)
    BY <2>1, <2>2, ConcatProperties
  <2> QED BY <1>1, <2>3 DEF TypeOK, TaskOK, E
<1>5. TypeOK'
  BY <1>1, <1>3, <1>4, SameType DEF TypeOK
<1>6. Owned'
  BY <1>1, <1>2 DEF Owned
<1>7. Kept'
  <2> SUFFICES ASSUME NEW n \in due, n \notin Reported
               PROVE  \E s \in Slots : who[s] = n /\ ep[s].size > 0 /\ ep[s].has_transfer
    BY <1>1 DEF Kept
  <2>1. PICK s \in Slots : who[s] = n /\ ep[s].size > 0 /\ (ep[s].has_transfer \/ s \in Flagged)
    BY <1>1 DEF Kept
  <2>2. s \notin Flagged
    BY <2>1 DEF Reported, Flagged
  <2> QED BY <2>1, <2>2
<1> QED BY <1>5, <1>6, <1>7 DEF HostInv

-----------------------------------------------------------------------------
(* The task.  Its steps may fall between any two steps of the interrupt.    *)

TaskType == [op : {"idle", "open", "mark", "abort", "aborted", "close"}, slot : Slots \cup {0}, still : BOOLEAN]

(* Steps that touch neither the pool nor the transfers due.                 *)
LEMMA AsideInv == ASSUME HostInv, UNCHANGED <<ep, who, counter, ints, isr, due>>,
                         root' \in [connected : BOOLEAN, suspended : BOOLEAN], TaskOK', BusOK',
                         task'.op # "idle" => task'.slot \in Slots,
                         task'.op \in {"open", "mark", "abort", "aborted"} => who[task'.slot] \in Names
                  PROVE  HostInv'
<1>1. FrameOK'
  BY DEF HostInv, TypeOK, FrameOK
<1>2. TypeOK'
  BY <1>1, SameType DEF HostInv, TypeOK, Owned
<1>3. Owned'
  BY DEF HostInv, Owned
<1>4. Kept'
  BY KeptSame DEF HostInv, Flagged
<1> QED BY <1>2, <1>3, <1>4 DEF HostInv

(* The stack takes the next event, and may begin to close the pool.         *)
LEMMA TakeEventInv == ASSUME HostInv, TakeEvent PROVE HostInv'
<1>1. /\ UNCHANGED <<ep, who, counter, ints, isr, plugged, ready, plugs, sent, got, due>>
      /\ TypeOK /\ 1 \in Slots /\ events' = Tail(events) /\ events # <<>> /\ task.op = "idle"
  BY PoolAssumption DEF TakeEvent, TaskIs, HostInv, Slots
<1>2. events' \in Seq({"attach", "remove"}) /\ task \in TaskType /\ due \subseteq Names
  BY <1>1, HeadTailProperties DEF TypeOK, TaskOK, TaskType
<1>3. BusOK'
  BY <1>1, SameType DEF TypeOK
<1>4. CASE Head(events) = "attach"
  <2>1. drv' = "reset" /\ task' = task /\ root' = [root EXCEPT !.suspended = TRUE]
    BY <1>4 DEF TakeEvent
  <2>2. root' \in [connected : BOOLEAN, suspended : BOOLEAN]
    BY <1>1, <2>1 DEF TypeOK, FrameOK
  <2>3. TaskOK'
    BY <1>1, <1>2, <2>1 DEF TaskOK, TaskType
  <2> QED BY <1>1, <1>3, <2>1, <2>2, <2>3, AsideInv
<1>5. CASE Head(events) # "attach"
  <2>1. drv' = "none" /\ task' = [op |-> "close", slot |-> 1, still |-> FALSE] /\ root' = root
    BY <1>5 DEF TakeEvent, Call
  <2>2. TaskOK' /\ task'.op = "close" /\ task'.slot = 1
    BY <1>1, <1>2, <2>1 DEF TaskOK
  <2>3. root' \in [connected : BOOLEAN, suspended : BOOLEAN]
    BY <1>1, <2>1 DEF TypeOK, FrameOK
  <2> QED BY <1>1, <1>3, <2>2, <2>3, AsideInv
<1> QED BY <1>4, <1>5

(* The reset ends: the port runs.                                           *)
LEMMA ResetEndInv == ASSUME HostInv, pio_usb_host_port_reset_end PROVE HostInv'
<1>1. /\ UNCHANGED <<ep, who, counter, ints, isr, task, events, plugged, ready, plugs, sent, got, due>>
      /\ TypeOK /\ drv' = "enumerate" /\ root' = [root EXCEPT !.suspended = FALSE] /\ task.op = "idle"
  BY DEF pio_usb_host_port_reset_end, TaskIs, HostInv
<1>2. root' \in [connected : BOOLEAN, suspended : BOOLEAN] /\ TaskOK' /\ BusOK'
  BY <1>1, SameType DEF TypeOK, FrameOK, TaskOK
<1> QED BY <1>1, <1>2, AsideInv

(* The device is configured.                                                *)
LEMMA EnumeratedInv == ASSUME HostInv, Enumerated PROVE HostInv'
<1>1. /\ UNCHANGED <<ep, who, counter, root, ints, isr, task, events, plugged, plugs, due>>
      /\ TypeOK /\ drv' = "attached" /\ ready' = TRUE /\ task.op = "idle"
      /\ sent' = [n \in Names |-> 0] /\ got' = [n \in Names |-> 0]
  BY DEF Enumerated, TaskIs, HostInv
<1>2. TaskOK'
  BY <1>1 DEF TypeOK, TaskOK
<1>3. BusOK'
  BY <1>1 DEF TypeOK, BusOK
<1>4. root' \in [connected : BOOLEAN, suspended : BOOLEAN]
  BY <1>1 DEF TypeOK, FrameOK
<1> QED BY <1>1, <1>2, <1>3, <1>4, AsideInv

(* The cable.                                                               *)
LEMMA CableInv == ASSUME HostInv, Plug \/ Unplug PROVE HostInv'
<1>1. /\ UNCHANGED <<ep, who, counter, root, ints, isr, task, drv, events, sent, got, due>>
      /\ TypeOK /\ Owned /\ BusOK
  BY DEF Plug, Unplug, HostInv, TypeOK
<1>4. plugged' \in BOOLEAN /\ ready' \in BOOLEAN /\ plugs' \in Nat
  <2>1. CASE Plug
    BY <1>1, <2>1 DEF Plug, BusOK
  <2>2. CASE Unplug
    BY <1>1, <2>2 DEF Unplug, BusOK
  <2> QED BY <2>1, <2>2
<1>2. TaskOK' /\ BusOK'
  BY <1>1, <1>4, SameType DEF TypeOK, BusOK
<1>3. root' \in [connected : BOOLEAN, suspended : BOOLEAN]
  BY <1>1 DEF TypeOK, FrameOK
<1> QED BY <1>1, <1>2, <1>3, AsideInv DEF Owned
-----------------------------------------------------------------------------
(* What the task does to one slot of the pool.                              *)

(* A slot that stays in use and keeps its transfer loses nothing.           *)
LEMMA PoolInv ==
    ASSUME HostInv, NEW s \in Slots, NEW e \in Slot, ep' = [ep EXCEPT ![s] = e],
           PoolOK', TaskOK', UNCHANGED <<root, ints, isr, plugged, ready, plugs, sent, got>>,
           \A t \in Slots \ {s} : who'[t] = who[t],
           e.size > 0 => who'[s] \in Names,
           who[s] \in Names => who'[s] \in Names,
           task'.op # "idle" => task'.slot \in Slots,
           task'.op \in {"open", "mark", "abort", "aborted"} => who'[task'.slot] \in Names,
           \A n \in due' : \/ e.size > 0 /\ who'[s] = n /\ e.has_transfer
                           \/ /\ n \in due /\ (ep[s].size > 0 => who[s] # n)
                           \/ /\ n \in due /\ who'[s] = who[s] /\ (ep[s].size > 0 => e.size > 0)
                              /\ ep[s].has_transfer => e.has_transfer
    PROVE  HostInv'
<1>1. TypeOK /\ Owned /\ Kept /\ ep \in [Slots -> Slot] /\ FrameOK' /\ BusOK'
  BY SameType DEF HostInv, Owned, TypeOK
<1>2. TypeOK'
  BY <1>1 DEF TypeOK
<1>3. ep' \in [Slots -> Slot] /\ ep'[s] = e /\ \A t \in Slots \ {s} : ep'[t] = ep[t]
  BY <1>1
<1>4. Owned'
  <2>1. \A t \in Slots : ep'[t].size > 0 => who'[t] \in Names
    BY <1>1, <1>3 DEF Owned
  <2>2. isr'.at \in {"start", "bus"} => who'[isr'.slot] \in Names
    <3>1. isr.slot \in Slots
      BY <1>1 DEF TypeOK, FrameOK
    <3> QED BY <1>1, <3>1 DEF Owned
  <2> QED BY <1>3, <2>1, <2>2 DEF Owned
<1>5. Flagged' = Flagged
  BY DEF Flagged
<1>6. Kept'
  <2> SUFFICES ASSUME NEW n \in due'
               PROVE  \E t \in Slots : who'[t] = n /\ ep'[t].size > 0 /\ (ep'[t].has_transfer \/ t \in Flagged)
    BY <1>5 DEF Kept
  <2>1. CASE e.size > 0 /\ who'[s] = n /\ e.has_transfer
    BY <1>3, <2>1
  <2>2. CASE n \in due /\ (ep[s].size > 0 => who[s] # n)
    <3>1. PICK t \in Slots : who[t] = n /\ ep[t].size > 0 /\ (ep[t].has_transfer \/ t \in Flagged)
      BY <1>1, <2>2 DEF Kept
    <3> QED BY <1>3, <2>2, <3>1
  <2>3. CASE /\ n \in due /\ who'[s] = who[s] /\ (ep[s].size > 0 => e.size > 0)
             /\ ep[s].has_transfer => e.has_transfer
    <3>1. PICK t \in Slots : who[t] = n /\ ep[t].size > 0 /\ (ep[t].has_transfer \/ t \in Flagged)
      BY <1>1, <2>3 DEF Kept
    <3>2. CASE t = s
      BY <1>3, <2>3, <3>1, <3>2
    <3>3. CASE t # s
      BY <1>3, <3>1, <3>3
    <3> QED BY <3>2, <3>3
  <2> QED BY <2>1, <2>2, <2>3
<1> QED BY <1>2, <1>4, <1>6 DEF HostInv

(* A pool with one slot changed has its type.                               *)
LEMMA PoolType == ASSUME HostInv, NEW s \in Slots, NEW e \in Slot, ep' = [ep EXCEPT ![s] = e],
                         who' \in [Slots -> Names \cup {NoName}], counter' \in [Slots -> Nat]
                  PROVE  PoolOK'
<1>1. ep' \in [Slots -> Slot]
  BY DEF HostInv, Owned
<1> QED BY <1>1 DEF PoolOK, Slot

(* A free slot is nobody's: giving it away forgets no transfer.             *)
LEMMA OpenBeginInv == ASSUME HostInv, NEW n \in Names, OpenBegin(n) PROVE HostInv'
<1>1. PICK s \in Slots : /\ ep[s].size = 0
                         /\ ep' = [ep EXCEPT ![s].size = MAX_SIZE, ![s].data_id = 0]
                         /\ counter' = [counter EXCEPT ![s] = 0]
                         /\ task' = [op |-> "open", slot |-> s, still |-> n \in Ins]
                         /\ who' = [who EXCEPT ![s] = n]
  BY DEF OpenBegin
<1>2. /\ TypeOK /\ ep \in [Slots -> Slot] /\ who \in [Slots -> Names \cup {NoName}]
      /\ counter \in [Slots -> Nat]
      /\ UNCHANGED <<root, ints, isr, drv, events, plugged, ready, plugs, sent, got, due>>
  BY DEF OpenBegin, HostInv, Owned, TypeOK, PoolOK
<1> DEFINE e == [ep[s] EXCEPT !.size = MAX_SIZE, !.data_id = 0]
<1>3. e \in Slot
  BY <1>2, SlotFields DEF Pids
<1>4. ep' = [ep EXCEPT ![s] = e]
  BY <1>1, <1>2
<1>5. who' \in [Slots -> Names \cup {NoName}] /\ who'[s] = n /\ counter' \in [Slots -> Nat]
  BY <1>1, <1>2
<1>6. TaskOK' /\ task'.op = "open" /\ task'.slot = s
  <2>1. (n \in Ins) \in BOOLEAN
    OBVIOUS
  <2>2. task' \in TaskType /\ task'.op = "open" /\ task'.slot = s
    BY <1>1, <2>1 DEF TaskType
  <2> QED BY <1>2, <2>2 DEF TypeOK, TaskOK, TaskType
<1>7. \A t \in Slots \ {s} : who'[t] = who[t]
  BY <1>1, <1>2
<1>8. \A m \in due' : m \in due /\ (ep[s].size > 0 => who[s] # m)
  BY <1>1, <1>2
<1> HIDE DEF e
<1>9. PoolOK'
  BY <1>3, <1>4, <1>5, PoolType
<1>10. /\ e.size > 0 => who'[s] \in Names
       /\ who[s] \in Names => who'[s] \in Names
       /\ task'.op # "idle" => task'.slot \in Slots
       /\ task'.op \in {"open", "mark", "abort", "aborted"} => who'[task'.slot] \in Names
  BY <1>5, <1>6
<1>11. TaskOK' /\ UNCHANGED <<root, ints, isr, plugged, ready, plugs, sent, got>>
  BY <1>2, <1>6
<1> QED BY <1>3, <1>4, <1>7, <1>8, <1>9, <1>10, <1>11, PoolInv

(* A change to one slot that leaves its owner and its transfer alone.       *)
LEMMA SameTransferInv ==
    ASSUME HostInv, NEW s \in Slots, NEW e \in Slot, ep' = [ep EXCEPT ![s] = e],
           e.size = ep[s].size, ep[s].has_transfer => e.has_transfer, due' \subseteq due, TaskOK',
           UNCHANGED <<who, counter, root, ints, isr, plugged, ready, plugs, sent, got>>,
           task'.op # "idle" => task'.slot \in Slots,
           task'.op \in {"open", "mark", "abort", "aborted"} => who[task'.slot] \in Names
    PROVE  HostInv'
<1>1. who' \in [Slots -> Names \cup {NoName}] /\ counter' \in [Slots -> Nat]
  BY DEF HostInv, TypeOK, PoolOK
<1>2. PoolOK'
  BY <1>1, PoolType
<1>3. e.size > 0 => who'[s] \in Names
  BY DEF HostInv, Owned
<1>4. \A n \in due' : /\ n \in due /\ who'[s] = who[s] /\ (ep[s].size > 0 => e.size > 0)
                      /\ ep[s].has_transfer => e.has_transfer
  OBVIOUS
<1> QED BY <1>1, <1>2, <1>3, <1>4, PoolInv

(* The direction is set last.                                               *)
LEMMA OpenEndInv == ASSUME HostInv, OpenEnd PROVE HostInv'
<1> DEFINE s == task.slot
           e == [ep[s] EXCEPT !.is_tx = ~task.still]
<1>1. /\ TypeOK /\ ep \in [Slots -> Slot] /\ task.op = "open" /\ s \in Slots
      /\ UNCHANGED <<who, counter, root, ints, isr, drv, events, plugged, ready, plugs, sent, got, due>>
      /\ task' = Idle /\ ep' = [ep EXCEPT ![s].is_tx = ~task.still]
  BY DEF OpenEnd, TaskIs, HostInv, Owned
<1>2. (~task.still) \in BOOLEAN /\ ep[s] \in Slot
  BY <1>1 DEF TypeOK, TaskOK
<1>3. e \in Slot /\ e.size = ep[s].size /\ e.has_transfer = ep[s].has_transfer
  <2>1. e \in Slot
    BY <1>2, SlotFields DEF Pids
  <2>2. e.size = ep[s].size /\ e.has_transfer = ep[s].has_transfer
    BY <1>2 DEF Slot, Endpoint
  <2> QED BY <2>1, <2>2
<1>4. ep' = [ep EXCEPT ![s] = e]
  BY <1>1
<1>5. TaskOK' /\ task'.op = "idle"
  BY <1>1 DEF TypeOK, TaskOK, Idle
<1> HIDE DEF e
<1> QED BY <1>1, <1>3, <1>4, <1>5, SameTransferInv

(* The stack waits for a transfer from the step that puts it in the slot.   *)
LEMMA TransferInv == ASSUME HostInv, NEW n \in Names, pio_usb_host_endpoint_transfer(n) PROVE HostInv'
<1>1. PICK s \in Open(n), len \in Lens[n] : ep' = [ep EXCEPT ![s] = TransferStart(@, 0, len)]
  BY DEF pio_usb_host_endpoint_transfer
<1>2. /\ TypeOK /\ Owned /\ ep \in [Slots -> Slot] /\ task.op = "idle" /\ due' = due \cup {n}
      /\ UNCHANGED <<who, counter, root, ints, isr, task, drv, events, plugged, ready, plugs, sent, got>>
      /\ s \in Slots /\ ep[s].size > 0 /\ who[s] = n
  BY DEF pio_usb_host_endpoint_transfer, TaskIs, HostInv, Owned, Open
<1>3. len \in Int
  BY PoolAssumption
<1> DEFINE e == TransferStart(ep[s], 0, len)
<1>4. e \in Slot /\ e.size = ep[s].size /\ e.has_transfer
  BY <1>2, <1>3, StartSlot
<1>5. ep' = [ep EXCEPT ![s] = e]
  BY <1>1
<1>6. TaskOK'
  BY <1>2 DEF TypeOK, TaskOK
<1>7. who' \in [Slots -> Names \cup {NoName}] /\ counter' \in [Slots -> Nat]
  BY <1>2 DEF TypeOK, PoolOK
<1> HIDE DEF e
<1>8. \A m \in due' : \/ e.size > 0 /\ who'[s] = m /\ e.has_transfer
                      \/ /\ m \in due /\ who'[s] = who[s] /\ (ep[s].size > 0 => e.size > 0)
                         /\ ep[s].has_transfer => e.has_transfer
  BY <1>2, <1>4
<1>9. PoolOK'
  BY <1>2, <1>4, <1>5, <1>7, PoolType
<1> QED BY <1>2, <1>4, <1>5, <1>6, <1>8, <1>9, PoolInv

(* An abort begins with no write.                                           *)
LEMMA AbortBeginInv == ASSUME HostInv, NEW n \in Names, AbortBegin(n) PROVE HostInv'
<1>1. PICK s \in Open(n) : task' = [op |-> "mark", slot |-> s, still |-> FALSE]
  BY DEF AbortBegin, Call
<1>2. /\ UNCHANGED <<ep, who, counter, root, ints, isr, drv, events, plugged, ready, plugs, sent, got, due>>
      /\ TypeOK /\ s \in Slots /\ who[s] \in Names
  BY DEF AbortBegin, HostInv, Open
<1>3. TaskOK' /\ task'.op = "mark" /\ task'.slot = s
  BY <1>1, <1>2 DEF TypeOK, TaskOK
<1>4. BusOK' /\ root' \in [connected : BOOLEAN, suspended : BOOLEAN]
  BY <1>2, SameType DEF TypeOK, FrameOK
<1> QED BY <1>2, <1>3, <1>4, AsideInv

(* The mark keeps the interrupt from starting it again.                     *)
LEMMA AbortMarkInv == ASSUME HostInv, AbortMark PROVE HostInv'
<1> DEFINE s == task.slot
           e == [ep[s] EXCEPT !.transfer_aborted = TRUE]
<1>1. /\ TypeOK /\ Owned /\ ep \in [Slots -> Slot] /\ task.op = "mark" /\ s \in Slots /\ who[s] \in Names
      /\ UNCHANGED <<who, counter, root, ints, isr, drv, events, plugged, ready, plugs, sent, got, due>>
      /\ ep' = [ep EXCEPT ![s].transfer_aborted = TRUE]
      /\ task' = [op |-> "abort", slot |-> s, still |-> FALSE]
  BY DEF AbortMark, TaskIs, Call, HostInv, Owned
<1>2. ep[s] \in Slot
  BY <1>1
<1>3. e \in Slot /\ e.size = ep[s].size /\ e.has_transfer = ep[s].has_transfer
  <2>1. e \in Slot
    BY <1>2, SlotFields DEF Pids
  <2>2. e.size = ep[s].size /\ e.has_transfer = ep[s].has_transfer
    BY <1>2 DEF Slot, Endpoint
  <2> QED BY <2>1, <2>2
<1>4. ep' = [ep EXCEPT ![s] = e]
  BY <1>1
<1>5. TaskOK' /\ task'.op = "abort" /\ task'.slot = s
  BY <1>1 DEF TypeOK, TaskOK
<1> HIDE DEF e
<1>6. /\ task'.op # "idle" => task'.slot \in Slots
      /\ task'.op \in {"open", "mark", "abort", "aborted"} => who[task'.slot] \in Names
  BY <1>1, <1>5
<1>7. TaskOK' /\ due' \subseteq due /\ UNCHANGED <<who, counter, root, ints, isr, plugged, ready, plugs, sent, got>>
  BY <1>1, <1>5
<1>8. s \in Slots
  BY <1>1
<1> HIDE DEF s
<1> QED BY <1>3, <1>4, <1>6, <1>7, <1>8, SameTransferInv

(* has_transfer is read, and may be stale when it is used.                  *)
LEMMA AbortReadInv == ASSUME HostInv, AbortRead PROVE HostInv'
<1> DEFINE s == task.slot
<1>1. /\ UNCHANGED <<ep, who, counter, root, ints, isr, drv, events, plugged, ready, plugs, sent, got, due>>
      /\ TypeOK /\ Owned /\ task.op = "abort" /\ s \in Slots /\ who[s] \in Names /\ ep[s] \in Slot
      /\ task' = [op |-> "aborted", slot |-> s, still |-> ep[s].has_transfer]
  BY DEF AbortRead, TaskIs, HostInv, Owned
<1>2. ep[s].has_transfer \in BOOLEAN
  BY <1>1 DEF Slot, Endpoint
<1>3. task' \in TaskType /\ task'.op = "aborted" /\ task'.slot = s
  BY <1>1, <1>2 DEF TaskType
<1>4. TaskOK'
  BY <1>1, <1>3 DEF TypeOK, TaskOK, TaskType
<1>5. BusOK' /\ root' \in [connected : BOOLEAN, suspended : BOOLEAN]
  BY <1>1, SameType DEF TypeOK, FrameOK
<1> QED BY <1>1, <1>3, <1>4, <1>5, AsideInv

(* An aborted transfer leaves the pool when the stack stops waiting for it. *)
LEMMA AbortEndInv == ASSUME HostInv, AbortEnd PROVE HostInv'
<1> DEFINE s == task.slot
           has == ep[s].has_transfer /\ ~task.still
           e == [ep[s] EXCEPT !.has_transfer = has, !.transfer_aborted = FALSE]
<1>1. /\ TypeOK /\ Owned /\ ep \in [Slots -> Slot] /\ task.op = "aborted" /\ s \in Slots /\ who[s] \in Names
      /\ UNCHANGED <<who, counter, root, ints, isr, drv, events, plugged, ready, plugs, sent, got>>
      /\ ep' = [ep EXCEPT ![s].has_transfer = @ /\ ~task.still, ![s].transfer_aborted = FALSE]
      /\ due' = IF task.still THEN due \ {who[s]} ELSE due
      /\ task' = Idle /\ task.still \in BOOLEAN
  BY DEF AbortEnd, TaskIs, HostInv, Owned, TypeOK, TaskOK
<1>2. ep[s] \in Slot
  BY <1>1
<1>3. has \in BOOLEAN /\ (~task.still => has = ep[s].has_transfer)
  BY <1>2 DEF Slot, Endpoint
<1>4. e \in Slot /\ e.size = ep[s].size /\ e.has_transfer = has
  <2> HIDE DEF has
  <2>1. e \in Slot
    BY <1>2, <1>3, SlotFields DEF Pids
  <2>2. e.size = ep[s].size /\ e.has_transfer = has
    BY <1>2 DEF Slot, Endpoint
  <2> QED BY <2>1, <2>2
<1>5. ep' = [ep EXCEPT ![s] = e]
  BY <1>1
<1>6. TaskOK' /\ task'.op = "idle"
  BY <1>1 DEF TypeOK, TaskOK, Idle
<1>7. who' \in [Slots -> Names \cup {NoName}] /\ counter' \in [Slots -> Nat]
  BY <1>1 DEF TypeOK, PoolOK
<1> HIDE DEF e, has
<1>8. \A n \in due' : \/ /\ n \in due /\ (ep[s].size > 0 => who[s] # n)
                      \/ /\ n \in due /\ who'[s] = who[s] /\ (ep[s].size > 0 => e.size > 0)
                         /\ ep[s].has_transfer => e.has_transfer
  <2>1. CASE task.still
    BY <1>1, <2>1
  <2>2. CASE ~task.still
    BY <1>1, <1>3, <1>4, <2>2
  <2> QED BY <1>1, <2>1, <2>2
<1>9. PoolOK'
  BY <1>1, <1>4, <1>5, <1>7, PoolType
<1>10. /\ e.size > 0 => who'[s] \in Names
       /\ who[s] \in Names => who'[s] \in Names
       /\ task'.op # "idle" => task'.slot \in Slots
       /\ task'.op \in {"open", "mark", "abort", "aborted"} => who'[task'.slot] \in Names
       /\ \A t \in Slots \ {s} : who'[t] = who[t]
  BY <1>1, <1>6
<1>11. TaskOK' /\ UNCHANGED <<root, ints, isr, plugged, ready, plugs, sent, got>>
  BY <1>1, <1>6
<1>12. s \in Slots
  BY <1>1
<1> HIDE DEF s
<1> QED BY <1>4, <1>5, <1>8, <1>9, <1>10, <1>11, <1>12, PoolInv

(* A device that is gone: its slots are freed, and nothing of it is due.    *)
LEMMA CloseSlotInv == ASSUME HostInv, CloseSlot PROVE HostInv'
<1> DEFINE s == task.slot
           e == [ep[s] EXCEPT !.size = 0, !.has_transfer = FALSE]
<1>1. /\ TypeOK /\ Owned /\ ep \in [Slots -> Slot] /\ task.op = "close" /\ s \in Slots
      /\ UNCHANGED <<who, counter, root, ints, isr, drv, events, plugged, ready, plugs, sent, got>>
      /\ IF ep[s].size > 0
         THEN ep' = [ep EXCEPT ![s].size = 0, ![s].has_transfer = FALSE] /\ due' = due \ {who[s]}
         ELSE UNCHANGED <<ep, due>>
      /\ IF s + 1 \in Slots THEN Call("close", s + 1) ELSE task' = Idle
  BY DEF CloseSlot, TaskIs, HostInv, Owned
<1>2. ep[s] \in Slot
  BY <1>1
<1>3. TaskOK' /\ (task'.op # "idle" => task'.slot \in Slots)
      /\ task'.op \notin {"open", "mark", "abort", "aborted"}
  <2>1. due' \subseteq Names
    <3>1. due \subseteq Names
      BY <1>1 DEF TypeOK, TaskOK
    <3> QED BY <1>1, <3>1
  <2>2. CASE s + 1 \in Slots
    <3>1. task' = [op |-> "close", slot |-> s + 1, still |-> FALSE]
      BY <1>1, <2>2 DEF Call
    <3> QED BY <1>1, <2>1, <2>2, <3>1 DEF TypeOK, TaskOK
  <2>3. CASE s + 1 \notin Slots
    <3>1. task' = [op |-> "idle", slot |-> 0, still |-> FALSE]
      BY <1>1, <2>3 DEF Idle
    <3> QED BY <1>1, <2>1, <3>1 DEF TypeOK, TaskOK
  <2> QED BY <2>2, <2>3
<1>4. who' \in [Slots -> Names \cup {NoName}] /\ counter' \in [Slots -> Nat]
  BY <1>1 DEF TypeOK, PoolOK
<1>5. CASE ep[s].size > 0
  <2>1. e \in Slot /\ e.size = 0
    <3>1. e \in Slot
      BY <1>2, SlotFields DEF Pids
    <3>2. e.size = 0
      BY <1>2 DEF Slot, Endpoint
    <3> QED BY <3>1, <3>2
  <2>2. ep' = [ep EXCEPT ![s] = e]
    BY <1>1, <1>5
  <2>3. \A n \in due' : n \in due /\ (ep[s].size > 0 => who[s] # n)
    BY <1>1, <1>5
  <2> HIDE DEF e
  <2>4. PoolOK'
    BY <1>1, <1>4, <2>1, <2>2, PoolType
  <2>5. /\ e.size > 0 => who'[s] \in Names
        /\ who[s] \in Names => who'[s] \in Names
        /\ task'.op # "idle" => task'.slot \in Slots
        /\ task'.op \in {"open", "mark", "abort", "aborted"} => who'[task'.slot] \in Names
        /\ \A t \in Slots \ {s} : who'[t] = who[t]
    BY <1>1, <1>3, <2>1
  <2>6. TaskOK' /\ UNCHANGED <<root, ints, isr, plugged, ready, plugs, sent, got>>
    BY <1>1, <1>3
  <2>7. s \in Slots
    BY <1>1
  <2> HIDE DEF s
  <2> QED BY <2>1, <2>2, <2>3, <2>4, <2>5, <2>6, <2>7, PoolInv
<1>6. CASE ~(ep[s].size > 0)
  <2>1. UNCHANGED <<ep, due>>
    BY <1>1, <1>6
  <2>2. ep' = [ep EXCEPT ![s] = ep[s]]
    BY <1>1, <2>1
  <2> QED BY <1>1, <1>2, <1>3, <2>1, <2>2, SameTransferInv
<1> QED BY <1>5, <1>6

-----------------------------------------------------------------------------
(* The whole host.                                                          *)

(* Every step of the interrupt, the task and the cable keeps HostInv.       *)
LEMMA StepInv == ASSUME HostInv, [Next]_vars PROVE HostInv'
<1>1. CASE Frame
  BY <1>1, FrameBeginInv, SlotVisitInv, SlotStartInv, TransactionInv, PortCheckInv, FrameEndInv DEF Frame
<1>2. CASE Ongoing
  BY <1>2, TakeEventInv, ResetEndInv, OpenEndInv, AbortMarkInv, AbortReadInv, AbortEndInv, CloseSlotInv
     DEF Ongoing
<1>3. CASE Enumerated
  BY <1>3, EnumeratedInv
<1>4. CASE Asked
  BY <1>4, OpenBeginInv, TransferInv, AbortBeginInv DEF Asked
<1>5. CASE Plug \/ Unplug
  BY <1>5, CableInv
<1>6. CASE UNCHANGED vars
  <2>1. UNCHANGED <<ep, who, counter, root, ints, isr, task, drv, events,
                    plugged, ready, plugs, sent, got, due>>
    BY <1>6 DEF vars
  <2>2. TaskOK' /\ BusOK' /\ root' \in [connected : BOOLEAN, suspended : BOOLEAN]
    BY <2>1, SameType DEF HostInv, TypeOK, FrameOK
  <2>3. /\ task'.op # "idle" => task'.slot \in Slots
        /\ task'.op \in {"open", "mark", "abort", "aborted"} => who[task'.slot] \in Names
    BY <2>1 DEF HostInv, Owned
  <2> QED BY <2>1, <2>2, <2>3, AsideInv
<1> QED BY <1>1, <1>2, <1>3, <1>4, <1>5, <1>6 DEF Next, Task

(* The inductive invariant of the host controller.                          *)
THEOREM HostInvariant == Spec => []HostInv
<1>1. Init => HostInv
  BY InitInv
<1>2. HostInv /\ [Next]_vars => HostInv'
  BY StepInv
<1> QED BY <1>1, <1>2, PTL DEF Spec

(* The pool, the interrupt, the task's calls and the counters of the device *)
(* keep their types, however the interrupt falls between the task's steps.  *)
THEOREM HostTypeCorrect == Spec => []TypeOK
<1>1. HostInv => TypeOK
  BY DEF HostInv
<1> QED BY <1>1, HostInvariant, PTL

(* A transfer the stack waits for is still in the pool or flagged to be     *)
(* reported at the end of the frame, for every pool and every device: a     *)
(* frame, an abort, a disconnection or a slot given to another endpoint     *)
(* never makes one vanish.                                                  *)
THEOREM TransfersTheorem == Spec => []NoTransferForgotten
<1>1. HostInv => NoTransferForgotten
  BY DEF HostInv, Kept, Flagged, NoTransferForgotten, Active
<1> QED BY <1>1, HostInvariant, PTL

-----------------------------------------------------------------------------
(* What each step writes of the fields that the properties read.            *)

(* Two values of a slot that differ in transfer_started and lengths only.   *)
Same(e, f) == /\ f.size = e.size /\ f.is_tx = e.is_tx /\ f.data_id = e.data_id
              /\ f.buffer = e.buffer /\ f.has_transfer = e.has_transfer
              /\ f.transfer_aborted = e.transfer_aborted

(* The types of these fields.                                               *)
LEMMA SlotTypes ==
    ASSUME NEW e \in Slot
    PROVE  /\ e.size \in {0, MAX_SIZE} /\ e.is_tx \in BOOLEAN /\ e.data_id \in Pids
           /\ e.has_transfer \in BOOLEAN /\ e.transfer_aborted \in BOOLEAN
           /\ e.buffer.pid \in Pids
BY DEF Slot, Endpoint

(* An assignment to one field leaves the others.                            *)
LEMMA StartedFields == ASSUME NEW e \in Slot, NEW b
                       PROVE  Same(e, [e EXCEPT !.transfer_started = b])
BY DEF Slot, Endpoint, Same

(* The mark of an abort changes nothing else.                               *)
LEMMA AbortedFields == ASSUME NEW e \in Slot, NEW b
                       PROVE  LET f == [e EXCEPT !.transfer_aborted = b] IN
                              /\ f.transfer_aborted = b
                              /\ f.size = e.size /\ f.is_tx = e.is_tx /\ f.data_id = e.data_id
                              /\ f.buffer = e.buffer /\ f.has_transfer = e.has_transfer
BY DEF Slot, Endpoint, Same

(* The end of a transfer keeps the identifier for the next.                 *)
LEMMA CompleteFields == ASSUME NEW e \in Slot
                        PROVE  LET f == TransferComplete(e) IN
                               /\ f.size = e.size /\ f.is_tx = e.is_tx /\ f.data_id = e.data_id
                               /\ f.buffer = e.buffer /\ f.has_transfer = FALSE
                               /\ f.transfer_aborted = e.transfer_aborted
BY DEF Slot, Endpoint, TransferComplete

(* A packet is prepared with the identifier of its endpoint.                *)
LEMMA PrepareFields == ASSUME NEW e \in Slot
                       PROVE  LET f == PrepareTx(e) IN
                              /\ f.size = e.size /\ f.is_tx = e.is_tx /\ f.data_id = e.data_id
                              /\ f.buffer.pid = DataPid(e) /\ f.has_transfer = e.has_transfer
                              /\ f.transfer_aborted = e.transfer_aborted
<1> HIDE DEF TransactionLen, DataPid
<1> QED BY DEF Slot, Endpoint, PrepareTx

(* A transfer that starts is not aborted, and its first packet carries the  *)
(* identifier of the endpoint.                                              *)
LEMMA StartFields ==
    ASSUME NEW e \in Slot, ~e.has_transfer, NEW len \in Int
    PROVE  LET f == TransferStart(e, 0, len) IN
           /\ f.size = e.size /\ f.is_tx = e.is_tx /\ f.data_id = e.data_id
           /\ f.has_transfer = TRUE /\ f.transfer_aborted = FALSE
           /\ e.is_tx => f.buffer.pid = DataPid(e)
<1> DEFINE fresh == [e EXCEPT !.app_buf = 0, !.total_len = len, !.actual_len = 0,
                              !.transfer_started = FALSE, !.transfer_aborted = FALSE,
                              !.has_transfer = TRUE]
<1>1. TransferStart(e, 0, len) = IF e.is_tx THEN PrepareTx(fresh) ELSE fresh
  BY DEF TransferStart
<1>2. /\ fresh.size = e.size /\ fresh.is_tx = e.is_tx /\ fresh.data_id = e.data_id
      /\ fresh.has_transfer = TRUE /\ fresh.transfer_aborted = FALSE
  BY DEF Slot, Endpoint
<1>3. fresh \in [DOMAIN e -> UNION {{fresh[x]} : x \in DOMAIN e}] /\ DOMAIN fresh = DOMAIN e
  OBVIOUS
<1>4. DOMAIN e = {"size", "is_tx", "data_id", "has_transfer", "transfer_started", "transfer_aborted",
                  "total_len", "actual_len", "app_buf", "buffer"}
  BY DEF Slot, Endpoint
<1>5. LET f == PrepareTx(fresh) IN
      /\ f.size = fresh.size /\ f.is_tx = fresh.is_tx /\ f.data_id = fresh.data_id
      /\ f.has_transfer = fresh.has_transfer /\ f.transfer_aborted = fresh.transfer_aborted
      /\ f.buffer.pid = DataPid(fresh)
  <2> DEFINE b == [pid |-> DataPid(fresh), data |-> fresh.app_buf, from |-> fresh.actual_len,
                   len |-> TransactionLen(fresh)]
  <2>1. PrepareTx(fresh) = [fresh EXCEPT !.buffer = b]
    BY DEF PrepareTx
  <2>2. b.pid = DataPid(fresh)
    BY DEF DataPid
  <2> HIDE DEF fresh, b
  <2> QED BY <1>3, <1>4, <2>1, <2>2
<1>6. DataPid(fresh) = DataPid(e)
  BY <1>2 DEF DataPid
<1> HIDE DEF fresh
<1> QED BY <1>1, <1>2, <1>5, <1>6

(* The identifier flips with every packet that counts.                      *)
LEMMA ContinueFields ==
    ASSUME NEW e \in Slot, NEW len \in Int
    PROVE  LET f == TransferContinue(e, len) IN
           /\ f.size = e.size /\ f.is_tx = e.is_tx /\ f.data_id = Flip(e.data_id)
           /\ f.has_transfer = (e.has_transfer /\ ~LastPacket(e, len))
           /\ f.transfer_aborted = e.transfer_aborted
           /\ f.has_transfer /\ f.is_tx => f.buffer.pid = DataPid(f)
<1> DEFINE moved == [e EXCEPT !.actual_len = @ + len, !.data_id = Flip(@)]
<1>1. /\ moved.size = e.size /\ moved.has_transfer = e.has_transfer /\ moved.is_tx = e.is_tx
      /\ moved.data_id = Flip(e.data_id) /\ moved.transfer_aborted = e.transfer_aborted
  <2> HIDE DEF Flip
  <2> QED BY DEF Slot, Endpoint
<1>2. moved \in Slot
  <2>1. Flip(e.data_id) \in Pids /\ Pids \subseteq {0, 1, SETUP}
    BY DEF Slot, Pids, Flip
  <2>2. e.actual_len + len \in Int
    BY DEF Slot, Endpoint
  <2> HIDE DEF Flip, Pids
  <2> QED BY <2>1, <2>2 DEF Slot, Endpoint
<1>3. TransferContinue(e, len) = IF LastPacket(e, len) THEN TransferComplete(moved)
                                 ELSE IF e.is_tx THEN PrepareTx(moved) ELSE moved
  BY DEF TransferContinue
<1>4. e.has_transfer \in BOOLEAN /\ LastPacket(e, len) \in BOOLEAN
  BY DEF Slot, Endpoint, LastPacket
<1> HIDE DEF moved
<1>5. CASE LastPacket(e, len)
  BY <1>1, <1>2, <1>3, <1>4, <1>5, CompleteFields
<1>6. CASE ~LastPacket(e, len) /\ e.is_tx
  <2>1. DataPid(PrepareTx(moved)) = DataPid(moved)
    BY <1>2, PrepareFields DEF DataPid
  <2> HIDE DEF DataPid, PrepareTx, TransferContinue
  <2> QED BY <1>1, <1>2, <1>3, <1>4, <1>6, <2>1, PrepareFields
<1>7. CASE ~LastPacket(e, len) /\ ~e.is_tx
  BY <1>1, <1>3, <1>4, <1>7
<1> QED BY <1>5, <1>6, <1>7

-----------------------------------------------------------------------------

FlagNames == {"none", "complete", "error", "stalled"}
Reports == ints.complete \cup ints.stalled

(* The end of a transaction writes one slot and raises one flag.            *)
LEMMA SlotEndEffect ==
    ASSUME HostInv, NEW e \in Slot, NEW flag \in FlagNames, SlotEnd(e, flag)
    PROVE  /\ Same(e, ep'[isr.slot])
           /\ \A t \in Slots \ {isr.slot} : ep'[t] = ep[t]
           /\ isr'.at \in {"slot", "port"}
           /\ Flagged' = Flagged \cup (IF flag = "none" THEN {} ELSE {isr.slot})
           /\ Reports' = Reports \cup (IF flag \in {"complete", "stalled"} THEN {isr.slot} ELSE {})
           /\ ints'.connect = ints.connect /\ ints'.disconnect = ints.disconnect
<1>1. /\ isr.slot \in Slots /\ ep \in [Slots -> Slot] /\ TypeOK
      /\ ints \in [connect : BOOLEAN, disconnect : BOOLEAN, complete : SUBSET Slots,
                   error : SUBSET Slots, stalled : SUBSET Slots]
  BY DEF HostInv, TypeOK, FrameOK, Owned
<1>2. /\ Same(e, ep'[isr.slot])
      /\ \A t \in Slots \ {isr.slot} : ep'[t] = ep[t]
  <2> DEFINE f == [e EXCEPT !.transfer_started = FALSE]
  <2>1. ep' = [ep EXCEPT ![isr.slot] = f]
    BY DEF SlotEnd
  <2>2. Same(e, f)
    BY StartedFields
  <2> HIDE DEF f
  <2> QED BY <1>1, <2>1, <2>2
<1>3. isr'.at \in {"slot", "port"}
  BY <1>1, NextSlotType DEF SlotEnd
<1>4. ints' = IF flag = "none" THEN ints ELSE [ints EXCEPT ![flag] = @ \cup {isr.slot}]
  BY DEF SlotEnd
<1>5. CASE flag = "none"
  BY <1>2, <1>3, <1>4, <1>5 DEF Flagged, Reports
<1>6. CASE flag = "complete"
  <2>1. ints' = [ints EXCEPT !.complete = @ \cup {isr.slot}]
    BY <1>4, <1>6
  <2> QED BY <1>1, <1>2, <1>3, <1>6, <2>1 DEF Flagged, Reports
<1>7. CASE flag = "error"
  <2>1. ints' = [ints EXCEPT !.error = @ \cup {isr.slot}]
    BY <1>4, <1>7
  <2> QED BY <1>1, <1>2, <1>3, <1>7, <2>1 DEF Flagged, Reports
<1>8. CASE flag = "stalled"
  <2>1. ints' = [ints EXCEPT !.stalled = @ \cup {isr.slot}]
    BY <1>4, <1>8
  <2> QED BY <1>1, <1>2, <1>3, <1>8, <2>1 DEF Flagged, Reports
<1> QED BY <1>5, <1>6, <1>7, <1>8 DEF FlagNames

(* What a transaction makes of the slot o of endpoint n, with what the      *)
(* device counted: it ends a transfer if and only if it raises a flag, and  *)
(* the identifier flips with a packet that the host takes for done.         *)
Outcome(e, flag, o, n) ==
    /\ e.size = o.size /\ e.is_tx = o.is_tx /\ e.transfer_aborted = o.transfer_aborted
    /\ e.has_transfer = (o.has_transfer /\ flag = "none")
    /\ \/ UNCHANGED <<sent, got>> /\ e.data_id = o.data_id /\ e.buffer = o.buffer
       \/ /\ ready /\ n \in Ins /\ Fresh(sent[n] % 2, o) /\ e.data_id = Flip(o.data_id)
          /\ Count(got, n, TRUE) /\ \E confirmed \in BOOLEAN : Count(sent, n, confirmed)
       \/ /\ ready /\ n \in Ins /\ ~Fresh(sent[n] % 2, o) /\ e.data_id = o.data_id
          /\ Count(got, n, FALSE) /\ \E confirmed \in BOOLEAN : Count(sent, n, confirmed)
       \/ /\ ready /\ n \notin Ins /\ e.data_id = Flip(o.data_id)
          /\ e.has_transfer /\ e.is_tx => e.buffer.pid = DataPid(e)
          /\ Count(got, n, o.buffer.pid = got[n] % 2) /\ Count(sent, n, TRUE)
       \/ /\ ready /\ n \notin Ins /\ flag = "error" /\ e.data_id = o.data_id
          /\ Count(got, n, o.buffer.pid = got[n] % 2) /\ Count(sent, n, FALSE)

(* Whatever the device answers is such an outcome.                          *)
LEMMA TransactionEffect ==
    ASSUME HostInv, Transaction
    PROVE  \E e \in Slot, flag \in FlagNames :
              SlotEnd(e, flag) /\ Outcome(e, flag, ep[isr.slot], who[isr.slot])
<1> DEFINE o == ep[isr.slot]
           n == who[isr.slot]
           Ended(e, flag) == SlotEnd(e, flag) /\ Outcome(e, flag, o, n)
<1> SUFFICES \E e \in Slot, flag \in FlagNames : Ended(e, flag)
  OBVIOUS
<1>1. o \in Slot
  BY DEF Transaction, HostInv, TypeOK, FrameOK, Owned
<1>2. o.has_transfer \in BOOLEAN
  BY <1>1, SlotTypes
<1>3. TransferComplete(o) \in Slot
  BY <1>1, CompleteSlot
<1> HIDE DEF o, n
<1>4. ASSUME UNCHANGED <<sent, got>>
      PROVE  /\ Outcome(o, "none", o, n)
             /\ Outcome(TransferComplete(o), "stalled", o, n)
             /\ Outcome(TransferComplete(o), "error", o, n)
  BY <1>1, <1>2, <1>4, CompleteFields DEF Outcome
<1>5. ASSUME UNCHANGED <<sent, got>>,
             \/ SlotEnd(o, "none") \/ SlotEnd(TransferComplete(o), "stalled")
             \/ SlotEnd(TransferComplete(o), "error")
      PROVE  \E e \in Slot, flag \in FlagNames : Ended(e, flag)
  <2>1. {"none", "stalled", "error"} \subseteq FlagNames
    BY DEF FlagNames
  <2> HIDE DEF FlagNames, SlotEnd, TransferComplete, Outcome
  <2> QED BY <1>1, <1>3, <1>4, <1>5, <2>1
<1>6. ASSUME NEW len \in Int, Continue(o, len),
             \/ /\ ready /\ n \in Ins /\ Fresh(sent[n] % 2, o)
                /\ Count(got, n, TRUE) /\ \E confirmed \in BOOLEAN : Count(sent, n, confirmed)
             \/ /\ ready /\ n \notin Ins
                /\ Count(got, n, o.buffer.pid = got[n] % 2) /\ Count(sent, n, TRUE)
      PROVE  \E e \in Slot, flag \in FlagNames : Ended(e, flag)
  <2> DEFINE flag == IF LastPacket(o, len) THEN "complete" ELSE "none"
             e == TransferContinue(o, len)
  <2>1. flag \in FlagNames /\ (flag = "none") = ~LastPacket(o, len)
    BY DEF FlagNames, LastPacket
  <2>2. e \in Slot
    BY <1>1, ContinueSlot
  <2>3. SlotEnd(e, flag)
    BY <1>6 DEF Continue
  <2>4. /\ e.size = o.size /\ e.is_tx = o.is_tx /\ e.data_id = Flip(o.data_id)
        /\ e.has_transfer = (o.has_transfer /\ ~LastPacket(o, len))
        /\ e.transfer_aborted = o.transfer_aborted
        /\ e.has_transfer /\ e.is_tx => e.buffer.pid = DataPid(e)
    BY <1>1, ContinueFields
  <2> HIDE DEF e, flag
  <2>5. Outcome(e, flag, o, n)
    BY <1>6, <2>1, <2>4 DEF Outcome
  <2> QED BY <2>1, <2>2, <2>3, <2>5
<1>7. CASE usb_in_transaction /\ n \in Ins
  <2>1. ASSUME ready, NEW len \in {MAX_SIZE - 1, MAX_SIZE}, NEW confirmed \in BOOLEAN, InData(len, confirmed)
        PROVE  \E e \in Slot, flag \in FlagNames : Ended(e, flag)
    <3>1. len \in Int
      BY PoolAssumption
    <3>2. /\ Count(got, n, Fresh(sent[n] % 2, o)) /\ Count(sent, n, confirmed)
          /\ IF Fresh(sent[n] % 2, o) THEN Continue(o, len) ELSE SlotEnd(o, "none")
      BY <2>1 DEF InData, o, n
    <3>3. CASE Fresh(sent[n] % 2, o)
      <4>1. Count(got, n, TRUE)
        BY <3>2, <3>3 DEF Count
      <4> QED BY <1>6, <1>7, <2>1, <3>1, <3>2, <3>3, <4>1
    <3>4. CASE ~Fresh(sent[n] % 2, o)
      <4>1. Count(got, n, FALSE)
        BY <3>2, <3>4 DEF Count
      <4>2. Outcome(o, "none", o, n) /\ "none" \in FlagNames
        BY <1>2, <1>7, <2>1, <3>2, <3>4, <4>1 DEF Outcome, FlagNames
      <4> QED BY <1>1, <3>2, <3>4, <4>2
    <3> QED BY <3>3, <3>4
  <2>2. \/ ready /\ \E len \in {MAX_SIZE - 1, MAX_SIZE}, confirmed \in BOOLEAN : InData(len, confirmed)
        \/ /\ UNCHANGED <<sent, got>>
           /\ SlotEnd(o, "none") \/ SlotEnd(TransferComplete(o), "stalled") \/ SlotEnd(TransferComplete(o), "error")
    BY <1>7, ZenonT(30) DEF usb_in_transaction, o
  <2> HIDE DEF Ended
  <2> QED BY <1>5, <2>1, <2>2
<1>8. CASE usb_out_transaction /\ n \notin Ins
  <2>1. ASSUME ready, NEW confirmed \in BOOLEAN, OutData(confirmed)
        PROVE  \E e \in Slot, flag \in FlagNames : Ended(e, flag)
    <3>1. TransactionLen(o) \in Int
      BY <1>1, PoolAssumption DEF TransactionLen, Slot, Endpoint
    <3>2. /\ Count(got, n, o.buffer.pid = got[n] % 2) /\ Count(sent, n, confirmed)
          /\ IF confirmed THEN Continue(o, TransactionLen(o)) ELSE SlotEnd(TransferComplete(o), "error")
      BY <2>1 DEF OutData, o, n
    <3>3. CASE confirmed
      <4>1. Count(sent, n, TRUE)
        BY <3>2, <3>3
      <4> HIDE DEF TransactionLen
      <4> QED BY <1>6, <1>8, <2>1, <3>1, <3>2, <3>3, <4>1
    <3>4. CASE ~confirmed
      <4>1. Count(sent, n, FALSE)
        BY <3>2, <3>4 DEF Count
      <4>2. Outcome(TransferComplete(o), "error", o, n) /\ "error" \in FlagNames
        BY <1>1, <1>2, <1>8, <2>1, <3>2, <4>1, CompleteFields DEF Outcome, FlagNames
      <4> QED BY <1>3, <3>2, <3>4, <4>2
    <3> QED BY <3>3, <3>4
  <2>2. \/ ready /\ \E confirmed \in BOOLEAN : OutData(confirmed)
        \/ /\ UNCHANGED <<sent, got>>
           /\ SlotEnd(o, "none") \/ SlotEnd(TransferComplete(o), "stalled") \/ SlotEnd(TransferComplete(o), "error")
    BY <1>8, ZenonT(30) DEF usb_out_transaction, o
  <2> HIDE DEF Ended
  <2> QED BY <1>5, <2>1, <2>2
<1> QED BY <1>7, <1>8 DEF Transaction, o, n

(* What the task and the disconnection write.                               *)
LEMMA DisconnectEffect ==
    ASSUME HostInv, Disconnect
    PROVE  \A t \in Slots :
              LET e == ep[t]  f == ep'[t] IN
              /\ f.size = e.size /\ f.is_tx = e.is_tx /\ f.data_id = e.data_id
              /\ f.buffer = e.buffer /\ f.transfer_aborted = e.transfer_aborted
              /\ f.has_transfer = (e.has_transfer /\ ~Active(t))
<1> SUFFICES ASSUME NEW t \in Slots
             PROVE  LET e == ep[t]  f == ep'[t] IN
                    /\ f.size = e.size /\ f.is_tx = e.is_tx /\ f.data_id = e.data_id
                    /\ f.buffer = e.buffer /\ f.transfer_aborted = e.transfer_aborted
                    /\ f.has_transfer = (e.has_transfer /\ ~Active(t))
  OBVIOUS
<1>1. ep[t] \in Slot /\ ep'[t] = IF Active(t) THEN TransferComplete(ep[t]) ELSE ep[t]
  BY DEF HostInv, Owned, Disconnect
<1>2. ep[t].has_transfer \in BOOLEAN
  BY <1>1, SlotTypes
<1>3. CASE Active(t)
  BY <1>1, <1>3, CompleteFields
<1>4. CASE ~Active(t)
  BY <1>1, <1>2, <1>4
<1> QED BY <1>3, <1>4

(* The start of a transaction is seen in no field that counts.              *)
LEMMA SlotStartEffect ==
    ASSUME HostInv, SlotStart
    PROVE  \A t \in Slots : Same(ep[t], ep'[t])
<1>1. ep \in [Slots -> Slot] /\ isr.slot \in Slots /\ ep' = [ep EXCEPT ![isr.slot].transfer_started = TRUE]
  BY DEF HostInv, Owned, TypeOK, FrameOK, SlotStart
<1>2. Same(ep[isr.slot], [ep[isr.slot] EXCEPT !.transfer_started = TRUE])
  BY <1>1, StartedFields
<1>3. \A t \in Slots : t # isr.slot => ep'[t] = ep[t]
  BY <1>1
<1>4. ep'[isr.slot] = [ep[isr.slot] EXCEPT !.transfer_started = TRUE]
  BY <1>1
<1> QED BY <1>2, <1>3, <1>4 DEF Same

(* An endpoint gets a free slot, and DATA0.                                 *)
LEMMA OpenBeginEffect ==
    ASSUME HostInv, NEW n \in Names, OpenBegin(n)
    PROVE  \E s \in Slots :
              /\ ep[s].size = 0 /\ ep'[s].size = MAX_SIZE /\ ep'[s].data_id = 0
              /\ ep'[s].has_transfer = ep[s].has_transfer
              /\ \A t \in Slots \ {s} : ep'[t] = ep[t] /\ who'[t] = who[t]
              /\ who'[s] = n /\ task' = [op |-> "open", slot |-> s, still |-> n \in Ins]
<1>1. PICK s \in Slots : /\ ep[s].size = 0
                         /\ ep' = [ep EXCEPT ![s].size = MAX_SIZE, ![s].data_id = 0]
                         /\ task' = [op |-> "open", slot |-> s, still |-> n \in Ins]
                         /\ who' = [who EXCEPT ![s] = n]
  BY DEF OpenBegin
<1>2. ep \in [Slots -> Slot] /\ who \in [Slots -> Names \cup {NoName}]
  BY DEF HostInv, Owned, TypeOK, PoolOK
<1> DEFINE e == [ep[s] EXCEPT !.size = MAX_SIZE, !.data_id = 0]
<1>3. ep'[s] = e
  BY <1>1, <1>2
<1>4. e.size = MAX_SIZE /\ e.data_id = 0 /\ e.has_transfer = ep[s].has_transfer
  BY <1>2 DEF Slot, Endpoint
<1>5. \A t \in Slots \ {s} : ep'[t] = ep[t] /\ who'[t] = who[t]
  BY <1>1, <1>2
<1>6. who'[s] = n
  BY <1>1, <1>2
<1> HIDE DEF e
<1> QED BY <1>1, <1>3, <1>4, <1>5, <1>6

(* Its direction is set last.                                               *)
LEMMA OpenEndEffect ==
    ASSUME HostInv, OpenEnd
    PROVE  LET s == task.slot  e == ep[s]  f == ep'[s] IN
           /\ s \in Slots /\ \A t \in Slots \ {s} : ep'[t] = ep[t]
           /\ f.size = e.size /\ f.is_tx = ~task.still /\ f.data_id = e.data_id
           /\ f.has_transfer = e.has_transfer /\ f.transfer_aborted = e.transfer_aborted
<1>1. ep \in [Slots -> Slot] /\ task.slot \in Slots /\ ep' = [ep EXCEPT ![task.slot].is_tx = ~task.still]
  BY DEF HostInv, Owned, OpenEnd, TaskIs
<1>2. ep'[task.slot] = [ep[task.slot] EXCEPT !.is_tx = ~task.still]
  BY <1>1
<1>3. \A t \in Slots \ {task.slot} : ep'[t] = ep[t]
  BY <1>1
<1>4. ep[task.slot] \in Slot
  BY <1>1
<1> QED BY <1>1, <1>2, <1>3, <1>4 DEF Slot, Endpoint

(* A transfer is started where there is none.                               *)
LEMMA TransferEffect ==
    ASSUME HostInv, NEW n \in Names, pio_usb_host_endpoint_transfer(n)
    PROVE  \E s \in Open(n) :
              /\ ~ep[s].has_transfer /\ \A t \in Slots \ {s} : ep'[t] = ep[t]
              /\ ep'[s].size = ep[s].size /\ ep'[s].is_tx = ep[s].is_tx
              /\ ep'[s].data_id = ep[s].data_id
              /\ ep'[s].has_transfer = TRUE /\ ep'[s].transfer_aborted = FALSE
              /\ ep[s].is_tx => ep'[s].buffer.pid = DataPid(ep[s])
<1>1. PICK s \in Open(n), len \in Lens[n] :
           ~ep[s].has_transfer /\ ep' = [ep EXCEPT ![s] = TransferStart(@, 0, len)]
  BY DEF pio_usb_host_endpoint_transfer
<1>2. ep \in [Slots -> Slot] /\ s \in Slots /\ len \in Int
  BY PoolAssumption DEF HostInv, Owned, Open
<1>3. ep'[s] = TransferStart(ep[s], 0, len) /\ \A t \in Slots \ {s} : ep'[t] = ep[t]
  BY <1>1, <1>2
<1> DEFINE e == ep[s]
           f == TransferStart(e, 0, len)
<1>4. e \in Slot /\ ~e.has_transfer
  BY <1>1, <1>2
<1> HIDE DEF e
<1>5. /\ f.size = e.size /\ f.is_tx = e.is_tx /\ f.data_id = e.data_id
      /\ f.has_transfer = TRUE /\ f.transfer_aborted = FALSE
      /\ e.is_tx => f.buffer.pid = DataPid(e)
  BY <1>2, <1>4, StartFields
<1> HIDE DEF f
<1>6. ep[s] = e /\ ep'[s] = f
  BY <1>3 DEF e, f
<1> HIDE DEF DataPid
<1> QED BY <1>1, <1>3, <1>5, <1>6

(* An abort marks the slot,                                                 *)
LEMMA AbortMarkEffect ==
    ASSUME HostInv, AbortMark
    PROVE  LET s == task.slot  e == ep[s]  f == ep'[s] IN
           /\ s \in Slots /\ \A t \in Slots \ {s} : ep'[t] = ep[t]
           /\ f.size = e.size /\ f.is_tx = e.is_tx /\ f.data_id = e.data_id
           /\ f.buffer = e.buffer /\ f.has_transfer = e.has_transfer
           /\ f.transfer_aborted = TRUE
<1>1. ep \in [Slots -> Slot] /\ task.slot \in Slots /\ ep' = [ep EXCEPT ![task.slot].transfer_aborted = TRUE]
  BY DEF HostInv, Owned, AbortMark, TaskIs
<1>2. ep'[task.slot] = [ep[task.slot] EXCEPT !.transfer_aborted = TRUE]
  BY <1>1
<1>3. \A t \in Slots \ {task.slot} : ep'[t] = ep[t]
  BY <1>1
<1> QED BY <1>1, <1>2, <1>3, AbortedFields

(* and ends the transfer only if it saw one.                                *)
LEMMA AbortEndEffect ==
    ASSUME HostInv, AbortEnd
    PROVE  LET s == task.slot  e == ep[s]  f == ep'[s] IN
           /\ s \in Slots /\ \A t \in Slots \ {s} : ep'[t] = ep[t]
           /\ f.size = e.size /\ f.is_tx = e.is_tx /\ f.data_id = e.data_id
           /\ f.buffer = e.buffer /\ f.has_transfer = (e.has_transfer /\ ~task.still)
           /\ f.transfer_aborted = FALSE
<1> DEFINE s == task.slot
           has == ep[s].has_transfer /\ ~task.still
<1>1. /\ ep \in [Slots -> Slot] /\ s \in Slots
      /\ ep' = [ep EXCEPT ![s].has_transfer = @ /\ ~task.still, ![s].transfer_aborted = FALSE]
  BY DEF HostInv, Owned, AbortEnd, TaskIs
<1>2. ep'[s] = [ep[s] EXCEPT !.has_transfer = has, !.transfer_aborted = FALSE]
  BY <1>1
<1>3. \A t \in Slots \ {s} : ep'[t] = ep[t]
  BY <1>1
<1>4. ep[s] \in Slot
  BY <1>1
<1>5. has = (ep[s].has_transfer /\ ~task.still)
  OBVIOUS
<1> HIDE DEF has
<1> QED BY <1>1, <1>2, <1>3, <1>4, <1>5 DEF Slot, Endpoint

(* A slot that is closed has no transfer, and nobody waits for it.          *)
LEMMA CloseSlotEffect ==
    ASSUME HostInv, CloseSlot
    PROVE  LET s == task.slot IN
           /\ s \in Slots /\ \A t \in Slots \ {s} : ep'[t] = ep[t]
           /\ ep'[s].size = 0
           /\ ep'[s].has_transfer = (ep[s].has_transfer /\ ep[s].size = 0)
           /\ due' = IF ep[s].size > 0 THEN due \ {who[s]} ELSE due
<1> DEFINE s == task.slot
<1>1. /\ ep \in [Slots -> Slot] /\ s \in Slots
      /\ IF ep[s].size > 0
         THEN ep' = [ep EXCEPT ![s].size = 0, ![s].has_transfer = FALSE] /\ due' = due \ {who[s]}
         ELSE UNCHANGED <<ep, due>>
  BY DEF HostInv, Owned, CloseSlot, TaskIs
<1>2. ep[s] \in Slot
  BY <1>1
<1>3. ep[s].size \in {0, MAX_SIZE} /\ ep[s].has_transfer \in BOOLEAN /\ MAX_SIZE > 0
  BY <1>2, SlotTypes, PoolAssumption
<1>4. CASE ep[s].size > 0
  <2>1. ep'[s] = [ep[s] EXCEPT !.size = 0, !.has_transfer = FALSE] /\ \A t \in Slots \ {s} : ep'[t] = ep[t]
    BY <1>1, <1>4
  <2>2. ep'[s].size = 0 /\ ep'[s].has_transfer = FALSE
    BY <1>2, <2>1 DEF Slot, Endpoint
  <2>3. ep[s].size # 0 /\ due' = due \ {who[s]}
    BY <1>1, <1>3, <1>4
  <2> QED BY <1>1, <1>4, <2>1, <2>2, <2>3
<1>5. CASE ~(ep[s].size > 0)
  BY <1>1, <1>3, <1>5
<1> QED BY <1>4, <1>5

-----------------------------------------------------------------------------
(* One outcome for a transfer.  The interrupt carries out transactions only *)
(* of transfers that are there and not aborted, a flag means that the       *)
(* transfer is over, and no two slots serve the same endpoint: so what is   *)
(* reported is waited for, and an abort that read has_transfer still sees   *)
(* it, if nothing disconnected the device since.                            *)
Quiet       == isr.at = "idle" => ints = NoInts
Walking     == isr.at \in {"start", "bus"} => Active(isr.slot) /\ ~ep[isr.slot].transfer_aborted
FlagOver    == \A s \in Flagged : ep[s].size > 0 /\ ~ep[s].has_transfer
Single      == \A s, t \in Slots : ep[s].size > 0 /\ ep[t].size > 0 /\ who[s] = who[t] => s = t
Free        == \A s \in Slots : ep[s].size = 0 => ~ep[s].has_transfer
ActiveDue   == \A s \in Slots : Active(s) => who[s] \in due
ReportedDue == \A s \in Reports : who[s] \in due

RemoveTold == ints.disconnect \/ \E i \in DOMAIN events : events[i] = "remove"

CallOpen == /\ task.op \in {"open", "mark", "abort", "aborted"} => ep[task.slot].size > 0
            /\ task.op = "open" => ~ep[task.slot].has_transfer
            /\ task.op \in {"abort", "aborted"} => ep[task.slot].transfer_aborted
            /\ task.op = "aborted" /\ task.still => ep[task.slot].has_transfer \/ RemoveTold

OutcomeInv == /\ HostInv
              /\ Quiet /\ Walking /\ FlagOver /\ Single /\ Free /\ ActiveDue /\ ReportedDue /\ CallOpen

(* Nothing is open at the start.                                            *)
LEMMA OutcomeInit == ASSUME Init PROVE OutcomeInv
<1>1. \A s \in Slots : ep[s].size = 0 /\ ~ep[s].has_transfer
  BY DEF Init, FreeEndpoint
<1>2. HostInv
  BY InitInv
<1> QED BY <1>1, <1>2 DEF Init, OutcomeInv, Quiet, Walking, FlagOver, Single, Free, ActiveDue, ReportedDue,
           CallOpen, Flagged, Reports, NoInts, Idle, Active

(* The types that the steps below use.                                      *)
LEMMA HostTypes ==
    ASSUME HostInv
    PROVE  /\ isr.slot \in Slots /\ (task.op # "idle" => task.slot \in Slots)
           /\ Flagged \subseteq Slots /\ Reports \subseteq Flagged
           /\ task.still \in BOOLEAN /\ MAX_SIZE > 0 /\ due \subseteq Names
           /\ events \in Seq({"attach", "remove"})
           /\ \A s \in Slots : /\ ep[s] \in Slot
                               /\ ep[s].size \in {0, MAX_SIZE} /\ ep[s].has_transfer \in BOOLEAN
                               /\ ep[s].transfer_aborted \in BOOLEAN
                               /\ ep[s].size > 0 => who[s] \in Names
BY PoolAssumption, SlotTypes DEF HostInv, TypeOK, FrameOK, TaskOK, Owned, Flagged, Reports

-----------------------------------------------------------------------------
(* The frame interrupt.                                                     *)

(* A disconnection ends each transfer that it flags, and no other.          *)
LEMMA FrameBeginOut == ASSUME OutcomeInv, HostInv', FrameBegin PROVE OutcomeInv'
<1>1. /\ UNCHANGED <<who, counter, task, drv, events, plugged, ready, plugs, sent, got, due>>
      /\ isr'.at \in {"slot", "port"} /\ ints = NoInts
  BY DEF FrameBegin, OutcomeInv, Quiet, Goto
<1>2. Flagged = {} /\ Reports = {}
  BY <1>1 DEF Flagged, Reports, NoInts
<1>3. Quiet' /\ Walking'
  BY <1>1 DEF Quiet, Walking
<1>4. CASE Disconnect
  <2>1. \A t \in Slots : /\ ep'[t].size = ep[t].size
                         /\ ep'[t].transfer_aborted = ep[t].transfer_aborted
                         /\ ep'[t].has_transfer = (ep[t].has_transfer /\ ~Active(t))
    BY <1>4, DisconnectEffect DEF OutcomeInv
  <2>2. /\ Flagged' = {s \in Slots : Active(s)} /\ Reports' = {}
        /\ ints'.disconnect = TRUE
    BY <1>1, <1>4 DEF Disconnect, NoInts, Flagged, Reports
  <2>3. FlagOver'
    BY <2>1, <2>2, HostTypes DEF FlagOver, Active, OutcomeInv
  <2>4. Single' /\ Free'
    BY <1>1, <2>1, HostTypes DEF Single, Free, OutcomeInv
  <2>5. ActiveDue' /\ ReportedDue'
    BY <1>1, <2>1, <2>2 DEF ActiveDue, ReportedDue, Active, OutcomeInv
  <2>6. CallOpen'
    BY <1>1, <2>1, <2>2, HostTypes DEF CallOpen, RemoveTold, OutcomeInv
  <2> QED BY <1>3, <2>3, <2>4, <2>5, <2>6 DEF OutcomeInv
<1>5. CASE UNCHANGED <<root, ints, ep>>
  <2>1. Flagged' = {} /\ Reports' = {}
    BY <1>2, <1>5 DEF Flagged, Reports
  <2> QED BY <1>1, <1>3, <1>5, <2>1 DEF OutcomeInv, FlagOver, Single, Free, ActiveDue, ReportedDue,
             CallOpen, RemoveTold, Active
<1> QED BY <1>4, <1>5 DEF FrameBegin

(* A step of the walk that leaves the pool alone, or marks its slot.        *)
LEMMA WalkOut ==
    ASSUME OutcomeInv, HostInv', isr'.at # "idle", Walking', UNCHANGED <<who, task, events, due>>,
           ints'.complete = ints.complete, ints'.stalled = ints.stalled, ints'.error = ints.error,
           ints'.disconnect = ints.disconnect, \A t \in Slots : Same(ep[t], ep'[t])
    PROVE  OutcomeInv'
<1>1. /\ Flagged' = Flagged /\ Reports' = Reports
      /\ \A t \in Slots : /\ ep'[t].size = ep[t].size /\ ep'[t].has_transfer = ep[t].has_transfer
                          /\ ep'[t].transfer_aborted = ep[t].transfer_aborted
  BY DEF Flagged, Reports, Same
<1>2. Quiet'
  BY DEF Quiet
<1>3. FlagOver' /\ Single' /\ Free'
  BY <1>1, HostTypes DEF FlagOver, Single, Free, OutcomeInv
<1>4. ActiveDue' /\ ReportedDue'
  BY <1>1 DEF ActiveDue, ReportedDue, Active, OutcomeInv
<1>5. CallOpen'
  BY <1>1, HostTypes DEF CallOpen, RemoveTold, OutcomeInv
<1> QED BY <1>2, <1>3, <1>4, <1>5 DEF OutcomeInv

(* The walk stops only at a transfer that is there and not aborted.         *)
LEMMA SlotVisitOut == ASSUME OutcomeInv, HostInv', SlotVisit PROVE OutcomeInv'
<1>1. isr'.at # "idle" /\ Walking'
  <2>1. CASE NextSlot
    BY <2>1 DEF NextSlot, Goto, Walking
  <2>2. CASE Due(isr.slot) /\ Goto("start", isr.slot)
    <3>1. ep' = ep
      BY DEF SlotVisit
    <3> QED BY <2>2, <3>1 DEF Goto, Walking, Due, Active
  <2> QED BY <2>1, <2>2 DEF SlotVisit
<1>2. \A t \in Slots : Same(ep[t], ep'[t])
  BY DEF SlotVisit, Same
<1> QED BY <1>1, <1>2, WalkOut DEF SlotVisit

(* The mark of the start changes nothing of that.                           *)
LEMMA SlotStartOut == ASSUME OutcomeInv, HostInv', SlotStart PROVE OutcomeInv'
<1>1. isr'.at = "bus" /\ isr'.slot = isr.slot /\ isr.at = "start"
  BY DEF SlotStart, Goto
<1>2. \A t \in Slots : Same(ep[t], ep'[t])
  BY SlotStartEffect DEF OutcomeInv
<1>3. Walking'
  BY <1>1, <1>2, HostTypes DEF Walking, Active, Same, OutcomeInv
<1> QED BY <1>1, <1>2, <1>3, WalkOut DEF SlotStart

(* The flag of a transaction is of a transfer the stack waits for.          *)
LEMMA TransactionOut == ASSUME OutcomeInv, HostInv', Transaction PROVE OutcomeInv'
<1> DEFINE s == isr.slot
<1>1. /\ isr.at = "bus" /\ UNCHANGED <<who, root, task, drv, events, plugged, ready, plugs, due>>
      /\ HostInv
  BY DEF Transaction, OutcomeInv
<1>2. /\ s \in Slots /\ Active(s) /\ ~ep[s].transfer_aborted /\ who[s] \in due
      /\ \A t \in Slots : t # s /\ ep[t].size > 0 => who[t] # who[s]
  BY <1>1, HostTypes DEF OutcomeInv, Walking, ActiveDue, Single, Active
<1>3. PICK e \in Slot, flag \in FlagNames : SlotEnd(e, flag) /\ Outcome(e, flag, ep[s], who[s])
  BY <1>1, TransactionEffect
<1>4. /\ Same(e, ep'[s]) /\ \A t \in Slots \ {s} : ep'[t] = ep[t]
      /\ isr'.at \in {"slot", "port"}
      /\ Flagged' = Flagged \cup (IF flag = "none" THEN {} ELSE {s})
      /\ Reports' = Reports \cup (IF flag \in {"complete", "stalled"} THEN {s} ELSE {})
      /\ ints'.disconnect = ints.disconnect
  BY <1>1, <1>3, SlotEndEffect
<1>5. /\ e.size = ep[s].size /\ e.transfer_aborted = ep[s].transfer_aborted
      /\ e.has_transfer = (ep[s].has_transfer /\ flag = "none")
  BY <1>3 DEF Outcome
<1>6. /\ ep'[s].size = ep[s].size /\ ep'[s].transfer_aborted = ep[s].transfer_aborted
      /\ ep'[s].has_transfer = (ep[s].has_transfer /\ flag = "none")
  BY <1>4, <1>5 DEF Same
<1> HIDE DEF s
<1>7. Quiet' /\ Walking'
  BY <1>4 DEF Quiet, Walking
<1>8. FlagOver'
  BY <1>2, <1>4, <1>6, HostTypes DEF FlagOver, Active, OutcomeInv
<1>9. Single' /\ Free'
  BY <1>1, <1>2, <1>4, <1>6, HostTypes DEF Single, Free, Active, OutcomeInv
<1>10. ActiveDue' /\ ReportedDue'
  BY <1>1, <1>2, <1>4, <1>6, HostTypes DEF ActiveDue, ReportedDue, Active, OutcomeInv
<1>11. CallOpen'
  <2>1. task.op \in {"abort", "aborted"} => task.slot # s
    BY <1>2 DEF CallOpen, OutcomeInv
  <2>2. task.op # "idle" => task.slot \in Slots
    BY HostTypes DEF OutcomeInv
  <2>3. task.op = "open" => task.slot # s
    BY <1>2 DEF CallOpen, OutcomeInv, Active
  <2> QED BY <1>1, <1>2, <1>4, <1>6, <2>1, <2>2, <2>3 DEF CallOpen, RemoveTold, Active, OutcomeInv
<1> QED BY <1>7, <1>8, <1>9, <1>10, <1>11 DEF OutcomeInv

(* A connection touches no transfer.                                        *)
LEMMA PortCheckOut == ASSUME OutcomeInv, HostInv', PortCheck PROVE OutcomeInv'
<1>1. isr'.at = "irq" /\ Walking'
  BY DEF PortCheck, Goto, Walking
<1>2. \A t \in Slots : Same(ep[t], ep'[t])
  BY DEF PortCheck, Same
<1>3. /\ ints'.complete = ints.complete /\ ints'.stalled = ints.stalled /\ ints'.error = ints.error
      /\ ints'.disconnect = ints.disconnect
  BY DEF PortCheck, OutcomeInv, HostInv, TypeOK, FrameOK
<1> QED BY <1>1, <1>2, <1>3, WalkOut DEF PortCheck

(* What is told stays told.                                                 *)
LEMMA DeliverTells ==
    ASSUME events \in Seq({"attach", "remove"}), RemoveTold
    PROVE  \E i \in DOMAIN Deliver(events) : Deliver(events)[i] = "remove"
<1> DEFINE E == {"attach", "remove"}
           a == IF ints.connect THEN <<"attach">> ELSE <<>>
           b == IF ints.disconnect THEN <<"remove">> ELSE <<>>
           first == events \o a
           all == first \o b
<1>1. a \in Seq(E) /\ b \in Seq(E) /\ events \in Seq(E)
  <2>1. <<>> \in Seq(E) /\ <<"attach">> \in Seq(E) /\ <<"remove">> \in Seq(E)
    OBVIOUS
  <2> QED BY <2>1
<1>2. Deliver(events) = all
  BY DEF Deliver
<1>3. ints.disconnect => Len(b) = 1 /\ b[1] = "remove"
  OBVIOUS
<1> HIDE DEF a, b, E
<1>4. /\ first \in Seq(E) /\ Len(first) = Len(events) + Len(a)
      /\ \A i \in 1 .. Len(events) : first[i] = events[i]
  BY <1>1
<1> HIDE DEF first
<1>5. /\ all \in Seq(E) /\ Len(all) = Len(first) + Len(b)
      /\ \A i \in 1 .. Len(first) : all[i] = first[i]
      /\ \A i \in 1 .. Len(b) : all[Len(first) + i] = b[i]
  BY <1>1, <1>4
<1> HIDE DEF all
<1>6. Len(events) \in Nat /\ Len(a) \in Nat /\ Len(b) \in Nat /\ DOMAIN events = 1 .. Len(events)
      /\ DOMAIN all = 1 .. Len(all)
  BY <1>1, <1>5
<1>7. CASE ints.disconnect
  <2>1. Len(b) = 1 /\ b[1] = "remove" /\ 1 \in 1 .. Len(b)
    BY <1>3, <1>7
  <2>2. all[Len(first) + 1] = "remove"
    BY <1>5, <2>1
  <2>3. Len(first) + 1 \in 1 .. Len(all)
    BY <1>4, <1>5, <1>6, <2>1
  <2> QED BY <1>2, <1>6, <2>2, <2>3
<1>8. CASE \E i \in DOMAIN events : events[i] = "remove"
  <2>1. PICK i \in DOMAIN events : events[i] = "remove"
    BY <1>8
  <2>2. i \in DOMAIN all /\ all[i] = "remove"
    BY <1>4, <1>5, <1>6, <2>1
  <2> QED BY <1>2, <2>2
<1> QED BY <1>7, <1>8 DEF RemoveTold

(* What is told is over, so what is active is still waited for.             *)
LEMMA FrameEndOut == ASSUME OutcomeInv, HostInv', FrameEnd PROVE OutcomeInv'
<1>1. /\ UNCHANGED <<ep, who, counter, root, task, drv, plugged, ready, plugs, sent, got>>
      /\ events' = Deliver(events) /\ due' = due \ Reported /\ ints' = NoInts /\ isr'.at = "idle"
  BY DEF FrameEnd, Goto
<1>2. Flagged' = {} /\ Reports' = {}
  BY <1>1 DEF Flagged, Reports, NoInts
<1>3. Quiet' /\ Walking' /\ FlagOver' /\ Single' /\ Free' /\ ReportedDue'
  BY <1>1, <1>2 DEF Quiet, Walking, FlagOver, Single, Free, ReportedDue, OutcomeInv
<1>4. ActiveDue'
  <2> SUFFICES ASSUME NEW s \in Slots, Active(s), who[s] \in Reported
               PROVE  FALSE
    BY <1>1 DEF ActiveDue, Active, OutcomeInv
  <2>1. PICK t \in Flagged : who[t] = who[s]
    BY DEF Reported, Flagged
  <2>2. ep[t].size > 0 /\ ~ep[t].has_transfer /\ t \in Slots
    BY HostTypes DEF OutcomeInv, FlagOver
  <2> QED BY <2>1, <2>2 DEF Active, Single, OutcomeInv
<1>5. CallOpen'
  <2>1. RemoveTold => RemoveTold'
    BY <1>1, DeliverTells, HostTypes DEF RemoveTold, OutcomeInv
  <2> QED BY <1>1, <2>1 DEF CallOpen, OutcomeInv
<1> QED BY <1>3, <1>4, <1>5 DEF OutcomeInv

-----------------------------------------------------------------------------
(* The task, which runs between frames.                                     *)

(* Between frames nothing is flagged.                                       *)
LEMMA TaskOut ==
    ASSUME OneCore, OutcomeInv, HostInv', TaskRuns, UNCHANGED <<ints, isr>>,
           Single', Free', ActiveDue', CallOpen'
    PROVE  OutcomeInv'
<1>1. isr'.at = "idle" /\ ints' = NoInts
  BY DEF TaskRuns, OutcomeInv, Quiet
<1>2. Flagged' = {} /\ Reports' = {}
  BY <1>1 DEF Flagged, Reports, NoInts
<1> QED BY <1>1, <1>2 DEF OutcomeInv, Quiet, Walking, FlagOver, ReportedDue

(* Steps that leave the pool and the transfers alone.                       *)
LEMMA AsideOut ==
    ASSUME OneCore, OutcomeInv, HostInv', TaskRuns, UNCHANGED <<ep, who, ints, isr, due>>, CallOpen'
    PROVE  OutcomeInv'
<1>1. Single' /\ Free' /\ ActiveDue'
  BY DEF Single, Free, ActiveDue, Active, OutcomeInv
<1> QED BY <1>1, TaskOut

(* The stack's own view is no part of this.                                 *)
LEMMA StackOut == ASSUME OneCore, OutcomeInv, HostInv',
                         TakeEvent \/ pio_usb_host_port_reset_end \/ Enumerated
                  PROVE  OutcomeInv'
<1>1. TaskRuns /\ UNCHANGED <<ep, who, ints, isr, due>> /\ task.op = "idle" /\ task'.op \in {"idle", "close"}
  BY DEF TakeEvent, pio_usb_host_port_reset_end, Enumerated, TaskIs, Call
<1>2. CallOpen'
  BY <1>1 DEF CallOpen
<1> QED BY <1>1, <1>2, AsideOut

(* Nor is the cable.                                                        *)
LEMMA CableOut == ASSUME OutcomeInv, HostInv', Plug \/ Unplug PROVE OutcomeInv'
<1>1. UNCHANGED <<ep, who, ints, isr, task, events, due>>
  BY DEF Plug, Unplug
<1> QED BY <1>1 DEF OutcomeInv, Quiet, Walking, FlagOver, Single, Free, ActiveDue, ReportedDue,
           CallOpen, RemoveTold, Active, Flagged, Reports

(* Only an endpoint that has no slot is given one, and a free one.          *)
LEMMA OpenBeginOut == ASSUME OneCore, OutcomeInv, HostInv', NEW n \in Names, OpenBegin(n) PROVE OutcomeInv'
<1>1. /\ UNCHANGED <<root, ints, isr, drv, events, plugged, ready, plugs, sent, got, due>>
      /\ TaskRuns /\ \A t \in Slots : ep[t].size > 0 => who[t] # n
  BY DEF OpenBegin, TaskIs, Open
<1>2. PICK s \in Slots : /\ ep[s].size = 0 /\ ep'[s].size = MAX_SIZE
                         /\ ep'[s].has_transfer = ep[s].has_transfer
                         /\ \A t \in Slots \ {s} : ep'[t] = ep[t] /\ who'[t] = who[t]
                         /\ who'[s] = n /\ task' = [op |-> "open", slot |-> s, still |-> n \in Ins]
  BY OpenBeginEffect DEF OutcomeInv
<1>3. ~ep'[s].has_transfer
  BY <1>2 DEF OutcomeInv, Free
<1>4. Single' /\ Free' /\ ActiveDue'
  BY <1>1, <1>2, <1>3 DEF Single, Free, ActiveDue, Active, OutcomeInv
<1>5. CallOpen'
  BY <1>2, <1>3, HostTypes DEF CallOpen, OutcomeInv
<1> QED BY <1>1, <1>4, <1>5, TaskOut

(* Setting the direction touches no transfer.                               *)
LEMMA OpenEndOut == ASSUME OneCore, OutcomeInv, HostInv', OpenEnd PROVE OutcomeInv'
<1> DEFINE s == task.slot
<1>1. /\ UNCHANGED <<who, counter, root, ints, isr, drv, events, plugged, ready, plugs, sent, got, due>>
      /\ TaskRuns /\ task'.op = "idle"
  BY DEF OpenEnd, TaskIs, Idle
<1>2. /\ s \in Slots /\ \A t \in Slots \ {s} : ep'[t] = ep[t]
      /\ ep'[s].size = ep[s].size /\ ep'[s].has_transfer = ep[s].has_transfer
  BY OpenEndEffect DEF OutcomeInv
<1> HIDE DEF s
<1>3. Single' /\ Free' /\ ActiveDue'
  BY <1>1, <1>2 DEF Single, Free, ActiveDue, Active, OutcomeInv
<1>4. CallOpen'
  BY <1>1 DEF CallOpen
<1> QED BY <1>1, <1>3, <1>4, TaskOut

(* A transfer is waited for from its start.                                 *)
LEMMA TransferOut == ASSUME OneCore, OutcomeInv, HostInv', NEW n \in Names, pio_usb_host_endpoint_transfer(n)
                     PROVE  OutcomeInv'
<1>1. /\ UNCHANGED <<who, counter, root, ints, isr, task, drv, events, plugged, ready, plugs, sent, got>>
      /\ TaskRuns /\ due' = due \cup {n} /\ task.op = "idle"
  BY DEF pio_usb_host_endpoint_transfer, TaskIs
<1>2. PICK s \in Open(n) : /\ \A t \in Slots \ {s} : ep'[t] = ep[t]
                           /\ ep'[s].size = ep[s].size /\ ep'[s].has_transfer = TRUE
  BY TransferEffect DEF OutcomeInv
<1>3. s \in Slots /\ ep[s].size > 0 /\ who[s] = n
  BY DEF Open
<1>4. Single' /\ Free' /\ ActiveDue'
  BY <1>1, <1>2, <1>3, HostTypes DEF Single, Free, ActiveDue, Active, OutcomeInv
<1>5. CallOpen'
  BY <1>1 DEF CallOpen
<1> QED BY <1>1, <1>4, <1>5, TaskOut

(* An abort is of an open slot,                                             *)
LEMMA AbortBeginOut == ASSUME OneCore, OutcomeInv, HostInv', NEW n \in Names, AbortBegin(n) PROVE OutcomeInv'
<1>1. /\ UNCHANGED <<ep, who, counter, root, ints, isr, drv, events, plugged, ready, plugs, sent, got, due>>
      /\ TaskRuns
  BY DEF AbortBegin, TaskIs
<1>2. PICK s \in Open(n) : task' = [op |-> "mark", slot |-> s, still |-> FALSE]
  BY DEF AbortBegin, Call
<1>3. CallOpen'
  BY <1>1, <1>2 DEF CallOpen, Open
<1> QED BY <1>1, <1>3, AsideOut

(* which stays open while it is marked,                                     *)
LEMMA AbortMarkOut == ASSUME OneCore, OutcomeInv, HostInv', AbortMark PROVE OutcomeInv'
<1> DEFINE s == task.slot
<1>1. /\ UNCHANGED <<who, counter, root, ints, isr, drv, events, plugged, ready, plugs, sent, got, due>>
      /\ TaskRuns /\ task.op = "mark" /\ task' = [op |-> "abort", slot |-> s, still |-> FALSE]
  BY DEF AbortMark, TaskIs, Call
<1>2. /\ s \in Slots /\ \A t \in Slots \ {s} : ep'[t] = ep[t]
      /\ ep'[s].size = ep[s].size /\ ep'[s].has_transfer = ep[s].has_transfer
      /\ ep'[s].transfer_aborted = TRUE
  BY AbortMarkEffect DEF OutcomeInv
<1>3. ep[s].size > 0
  BY <1>1 DEF CallOpen, OutcomeInv
<1> HIDE DEF s
<1>4. Single' /\ Free' /\ ActiveDue'
  BY <1>1, <1>2 DEF Single, Free, ActiveDue, Active, OutcomeInv
<1>5. CallOpen'
  BY <1>1, <1>2, <1>3 DEF CallOpen
<1> QED BY <1>1, <1>4, <1>5, TaskOut

(* which has the transfer that the abort reads,                             *)
LEMMA AbortReadOut == ASSUME OneCore, OutcomeInv, HostInv', AbortRead PROVE OutcomeInv'
<1> DEFINE s == task.slot
<1>1. /\ UNCHANGED <<ep, who, counter, root, ints, isr, drv, events, plugged, ready, plugs, sent, got, due>>
      /\ TaskRuns /\ task.op = "abort"
      /\ task' = [op |-> "aborted", slot |-> s, still |-> ep[s].has_transfer]
  BY DEF AbortRead, TaskIs
<1>2. CallOpen'
  BY <1>1 DEF CallOpen, OutcomeInv
<1> QED BY <1>1, <1>2, AsideOut

(* and the only one of that endpoint: no other transfer loses its owner.    *)
LEMMA AbortEndOut == ASSUME OneCore, OutcomeInv, HostInv', AbortEnd PROVE OutcomeInv'
<1> DEFINE s == task.slot
<1>1. /\ UNCHANGED <<who, counter, root, ints, isr, drv, events, plugged, ready, plugs, sent, got>>
      /\ TaskRuns /\ task.op = "aborted" /\ task'.op = "idle"
      /\ due' = IF task.still THEN due \ {who[s]} ELSE due
  BY DEF AbortEnd, TaskIs, Idle
<1>2. /\ s \in Slots /\ \A t \in Slots \ {s} : ep'[t] = ep[t]
      /\ ep'[s].size = ep[s].size
      /\ ep'[s].has_transfer = (ep[s].has_transfer /\ ~task.still)
  BY AbortEndEffect DEF OutcomeInv
<1>3. ep[s].size > 0
  BY <1>1 DEF CallOpen, OutcomeInv
<1> HIDE DEF s
<1>4. Single' /\ Free'
  <2>1. Single'
    BY <1>1, <1>2 DEF Single, OutcomeInv
  <2>2. Free'
    <3>1. Free
      BY DEF OutcomeInv
    <3>2. ep'[s].size = 0 => ~ep'[s].has_transfer
      BY <1>2, <3>1 DEF Free
    <3> QED BY <1>2, <3>1, <3>2 DEF Free
  <2> QED BY <2>1, <2>2
<1>5. ActiveDue'
  <2> SUFFICES ASSUME NEW t \in Slots, ep'[t].size > 0, ep'[t].has_transfer
               PROVE  who[t] \in due'
    BY <1>1 DEF ActiveDue, Active
  <2>1. CASE t = s
    BY <1>1, <1>2, <1>3, <2>1 DEF ActiveDue, Active, OutcomeInv
  <2>2. CASE t # s
    <3>1. who[t] # who[s] /\ who[t] \in due
      BY <1>2, <1>3, <2>2 DEF Single, ActiveDue, Active, OutcomeInv
    <3> QED BY <1>1, <3>1
  <2> QED BY <2>1, <2>2
<1>6. CallOpen'
  BY <1>1 DEF CallOpen
<1> QED BY <1>1, <1>4, <1>5, <1>6, TaskOut

(* Closing a slot takes its endpoint's only transfer.                       *)
LEMMA CloseSlotOut == ASSUME OneCore, OutcomeInv, HostInv', CloseSlot PROVE OutcomeInv'
<1> DEFINE s == task.slot
<1>1. /\ UNCHANGED <<who, counter, root, ints, isr, drv, events, plugged, ready, plugs, sent, got>>
      /\ TaskRuns /\ task'.op \in {"idle", "close"}
  BY DEF CloseSlot, TaskIs, Idle, Call
<1>2. /\ s \in Slots /\ \A t \in Slots \ {s} : ep'[t] = ep[t]
      /\ ep'[s].size = 0 /\ ep'[s].has_transfer = (ep[s].has_transfer /\ ep[s].size = 0)
      /\ due' = IF ep[s].size > 0 THEN due \ {who[s]} ELSE due
  BY CloseSlotEffect DEF OutcomeInv
<1> HIDE DEF s
<1>3. Single' /\ Free'
  <2>1. ~ep'[s].has_transfer
    BY <1>2 DEF Free, OutcomeInv
  <2> QED BY <1>1, <1>2, <2>1 DEF Single, Free, OutcomeInv
<1>4. ActiveDue'
  <2> SUFFICES ASSUME NEW t \in Slots, t # s, ep[t].size > 0, ep[t].has_transfer
               PROVE  who[t] \in due'
    BY <1>1, <1>2 DEF ActiveDue, Active
  <2>1. who[t] \in due /\ (ep[s].size > 0 => who[t] # who[s])
    BY <1>2 DEF ActiveDue, Active, Single, OutcomeInv
  <2> QED BY <1>2, <2>1
<1>5. CallOpen'
  BY <1>1 DEF CallOpen
<1> QED BY <1>1, <1>3, <1>4, <1>5, TaskOut

-----------------------------------------------------------------------------

(* Every step keeps it.                                                     *)
LEMMA OutcomeStep == ASSUME OneCore, OutcomeInv, [Next]_vars PROVE OutcomeInv'
<1>1. HostInv'
  BY StepInv DEF OutcomeInv
<1>2. CASE Frame
  BY <1>1, <1>2, FrameBeginOut, SlotVisitOut, SlotStartOut, TransactionOut, PortCheckOut, FrameEndOut DEF Frame
<1>3. CASE Ongoing
  BY <1>1, <1>3, StackOut, OpenEndOut, AbortMarkOut, AbortReadOut, AbortEndOut, CloseSlotOut DEF Ongoing
<1>4. CASE Enumerated
  BY <1>1, <1>4, StackOut
<1>5. CASE Asked
  BY <1>1, <1>5, OpenBeginOut, TransferOut, AbortBeginOut DEF Asked
<1>6. CASE Plug \/ Unplug
  BY <1>1, <1>6, CableOut
<1>7. CASE UNCHANGED vars
  BY <1>1, <1>7 DEF vars, OutcomeInv, Quiet, Walking, FlagOver, Single, Free, ActiveDue, ReportedDue,
     CallOpen, RemoveTold, Active, Flagged, Reports
<1> QED BY <1>2, <1>3, <1>4, <1>5, <1>6, <1>7 DEF Next, Task

(* Where interrupt and task share a core, a transfer has one outcome, for   *)
(* every pool and every device: success and STALL are reported only of      *)
(* transfers the stack waits for, and an abort returns TRUE only of one     *)
(* that has no other outcome, unless the device was removed meanwhile.      *)
THEOREM OutcomeTheorem == ASSUME OneCore PROVE Spec => []OneOutcome
<1>1. Init => OutcomeInv
  BY OutcomeInit
<1>2. OutcomeInv /\ [Next]_vars => OutcomeInv'
  BY OutcomeStep
<1>3. OutcomeInv => OneOutcome
  <2> SUFFICES ASSUME OutcomeInv PROVE OneOutcome
    OBVIOUS
  <2>1. {who[s] : s \in ints.complete \cup ints.stalled} \subseteq due
    BY DEF OutcomeInv, ReportedDue, Reports
  <2>2. ASSUME task.op = "aborted", task.still, isr.at = "idle"
        PROVE  who[task.slot] \in due \/ \E i \in DOMAIN events : events[i] = "remove"
    <3>1. ep[task.slot].size > 0 /\ (ep[task.slot].has_transfer \/ RemoveTold) /\ task.slot \in Slots
      BY <2>2, HostTypes DEF OutcomeInv, CallOpen
    <3>2. ~ints.disconnect
      BY <2>2 DEF OutcomeInv, Quiet, NoInts
    <3> QED BY <3>1, <3>2 DEF OutcomeInv, ActiveDue, Active, RemoveTold
  <2> QED BY <2>1, <2>2 DEF OneOutcome
<1> QED BY <1>1, <1>2, <1>3, PTL DEF Spec

-----------------------------------------------------------------------------
(* The device on the cable and the device the stack knows.  What the stack  *)
(* has still to be told of, in its queue or flagged for the end of the      *)
(* frame, is exactly what lies between the port and its view of the device. *)
Pending(queue, connect, disconnect) ==
    events = queue /\ ints.connect = connect /\ ints.disconnect = disconnect

Waits == root.connected /\ root.suspended      \* for a reset

Known ==
    \/ Pending(<<>>, FALSE, FALSE) /\ drv = "none" /\ ~root.connected
    \/ /\ Pending(<<>>, TRUE, FALSE) \/ Pending(<<"attach">>, FALSE, FALSE)
       /\ drv = "none" /\ Waits
    \/ Pending(<<>>, FALSE, FALSE) /\ drv = "reset" /\ Waits
    \/ Pending(<<>>, FALSE, FALSE) /\ drv \in {"enumerate", "attached"} /\ Operating
    \/ /\ Pending(<<>>, FALSE, TRUE) \/ Pending(<<"remove">>, FALSE, FALSE)
       /\ drv \in {"enumerate", "attached"} /\ ~root.connected
    \/ /\ Pending(<<"remove">>, TRUE, FALSE) \/ Pending(<<"remove", "attach">>, FALSE, FALSE)
       /\ drv \in {"enumerate", "attached"} /\ Waits

(* A device that is gone comes back only after the frame that noticed.      *)
DiscOut == ints.disconnect => ~plugged

Ready == ready <=> drv = "attached" /\ plugged /\ Operating

DeviceInv == HostInv /\ Quiet /\ Known /\ DiscOut /\ Ready

(* The queues that occur.                                                   *)
LEMMA Queues ==
    /\ <<>> # <<"attach">> /\ <<>> # <<"remove">> /\ <<>> # <<"remove", "attach">>
    /\ Head(<<"attach">>) = "attach" /\ Tail(<<"attach">>) = <<>>
    /\ Head(<<"remove">>) = "remove" /\ Tail(<<"remove">>) = <<>>
    /\ Head(<<"remove", "attach">>) = "remove" /\ Tail(<<"remove", "attach">>) = <<"attach">>
    /\ (<<>> \o <<>>) \o <<>> = <<>>
    /\ (<<>> \o <<"attach">>) \o <<>> = <<"attach">>
    /\ (<<>> \o <<>>) \o <<"remove">> = <<"remove">>
    /\ (<<"attach">> \o <<>>) \o <<>> = <<"attach">>
    /\ (<<"remove">> \o <<>>) \o <<>> = <<"remove">>
    /\ (<<"remove">> \o <<"attach">>) \o <<>> = <<"remove", "attach">>
    /\ (<<"remove", "attach">> \o <<>>) \o <<>> = <<"remove", "attach">>
<1>1. <<>> # <<"attach">> /\ <<>> # <<"remove">> /\ <<>> # <<"remove", "attach">>
  OBVIOUS
<1>2. Head(<<"attach">>) = "attach" /\ Tail(<<"attach">>) = <<>>
  OBVIOUS
<1>3. Head(<<"remove">>) = "remove" /\ Tail(<<"remove">>) = <<>>
  OBVIOUS
<1>4. Head(<<"remove", "attach">>) = "remove" /\ Tail(<<"remove", "attach">>) = <<"attach">>
  OBVIOUS
<1>5. (<<>> \o <<>>) \o <<>> = <<>>
  OBVIOUS
<1>6. (<<>> \o <<"attach">>) \o <<>> = <<"attach">>
  OBVIOUS
<1>7. (<<>> \o <<>>) \o <<"remove">> = <<"remove">>
  OBVIOUS
<1>8. (<<"attach">> \o <<>>) \o <<>> = <<"attach">>
  OBVIOUS
<1>9. (<<"remove">> \o <<>>) \o <<>> = <<"remove">>
  OBVIOUS
<1>10. (<<"remove">> \o <<"attach">>) \o <<>> = <<"remove", "attach">>
  <2> DEFINE E == {"attach", "remove"}
             both == <<"remove">> \o <<"attach">>
  <2>1. <<"remove">> \in Seq(E) /\ <<"attach">> \in Seq(E) /\ <<"remove", "attach">> \in Seq(E)
    OBVIOUS
  <2>2. both \in Seq(E) /\ Len(both) = 2 /\ both[1] = "remove" /\ both[2] = "attach"
    BY <2>1
  <2>3. both = <<"remove", "attach">>
    <3> DEFINE queue == <<"remove", "attach">>
    <3>1. Len(queue) = 2 /\ queue[1] = "remove" /\ queue[2] = "attach"
      OBVIOUS
    <3>2. \A i \in 1 .. Len(both) : both[i] = queue[i]
      BY <2>2, <3>1
    <3> HIDE DEF both, queue, E
    <3>3. both \in Seq(E) /\ queue \in Seq(E) /\ Len(both) = Len(queue)
      BY <2>1, <2>2, <3>1 DEF queue
    <3> QED BY <3>2, <3>3, SeqEqual DEF queue
  <2>4. both \o <<>> = both
    BY <2>2, ConcatEmptySeq
  <2> QED BY <2>3, <2>4
<1>11. (<<"remove", "attach">> \o <<>>) \o <<>> = <<"remove", "attach">>
  OBVIOUS
<1> QED BY <1>1, <1>2, <1>3, <1>4, <1>5, <1>6, <1>7, <1>8, <1>9, <1>10, <1>11

(* There is no device at the start.                                         *)
LEMMA DeviceInit == ASSUME Init PROVE DeviceInv
BY InitInv DEF Init, DeviceInv, Quiet, Known, DiscOut, Ready, Pending, NoInts, Operating

(* The types that the steps below use.                                      *)
LEMMA DeviceTypes == ASSUME HostInv
                     PROVE  /\ root \in [connected : BOOLEAN, suspended : BOOLEAN]
                            /\ ints.connect \in BOOLEAN /\ ints.disconnect \in BOOLEAN
                            /\ plugged \in BOOLEAN /\ ready \in BOOLEAN
BY DEF HostInv, TypeOK, FrameOK, BusOK

(* Steps of the walk and of the task that have no part in it.               *)
LEMMA AsideDevice ==
    ASSUME DeviceInv, HostInv', Quiet', UNCHANGED <<root, drv, events, plugged, ready>>,
           ints'.connect = ints.connect, ints'.disconnect = ints.disconnect
    PROVE  DeviceInv'
<1>1. Operating' = Operating /\ Waits' = Waits
  BY DEF Operating, Waits
<1>2. Known'
  BY <1>1 DEF DeviceInv, Known, Pending
<1>3. DiscOut' /\ Ready'
  BY <1>1 DEF DeviceInv, DiscOut, Ready
<1> QED BY <1>2, <1>3 DEF DeviceInv

(* The frame notices that the cable is out.                                 *)
LEMMA FrameBeginDevice == ASSUME DeviceInv, HostInv', FrameBegin PROVE DeviceInv'
<1>1. /\ UNCHANGED <<task, drv, events, plugged, ready>> /\ Quiet' /\ ints = NoInts
  BY DEF FrameBegin, DeviceInv, Quiet, Goto
<1>2. CASE Operating /\ ~plugged /\ Disconnect
  <2>1. /\ root' = [connected |-> FALSE, suspended |-> TRUE]
        /\ ints'.disconnect = TRUE /\ ints'.connect = FALSE
    BY <1>1, <1>2 DEF Disconnect, NoInts
  <2>2. events = <<>> /\ drv \in {"enumerate", "attached"}
    BY <1>1, <1>2, Queues DEF DeviceInv, Known, Operating, Waits, Pending
  <2>3. ~Operating' /\ ~ready
    BY <1>2, <2>1 DEF Operating, DeviceInv, Ready
  <2> QED BY <1>1, <1>2, <2>1, <2>2, <2>3 DEF DeviceInv, Known, Pending, DiscOut, Ready
<1>3. CASE UNCHANGED <<root, ints, ep>>
  BY <1>1, <1>3, AsideDevice
<1> QED BY <1>2, <1>3 DEF FrameBegin

(* A transaction raises no flag of the port.                                *)
LEMMA TransactionDevice == ASSUME DeviceInv, HostInv', Transaction PROVE DeviceInv'
<1>1. PICK e \in Slot, flag \in FlagNames : SlotEnd(e, flag)
  BY TransactionEffect DEF DeviceInv
<1>2. isr'.at \in {"slot", "port"} /\ ints'.connect = ints.connect /\ ints'.disconnect = ints.disconnect
  BY <1>1, SlotEndEffect DEF DeviceInv
<1>3. Quiet'
  BY <1>2 DEF Quiet
<1> QED BY <1>2, <1>3, AsideDevice DEF Transaction

(* A connection is noticed, never over one that is not told yet.            *)
LEMMA PortCheckDevice == ASSUME DeviceInv, HostInv', PortCheck PROVE DeviceInv'
<1>1. UNCHANGED <<task, drv, events, plugged, ready>> /\ Quiet'
  BY DEF PortCheck, Quiet, Goto
<1>2. CASE /\ ~root.connected /\ plugged
           /\ root' = [connected |-> TRUE, suspended |-> TRUE]
           /\ ints' = [ints EXCEPT !.connect = TRUE]
  <2>1. ints'.connect = TRUE /\ ints'.disconnect = ints.disconnect
    BY <1>2 DEF DeviceInv, HostInv, TypeOK, FrameOK
  <2>2. ~ints.disconnect /\ ~ready
    BY <1>2 DEF DeviceInv, DiscOut, Ready, Operating
  <2>3. Waits' /\ ~Operating'
    BY <1>2 DEF Waits, Operating
  <2>4. \/ Pending(<<>>, FALSE, FALSE) /\ drv = "none"
        \/ Pending(<<"remove">>, FALSE, FALSE) /\ drv \in {"enumerate", "attached"}
    BY <1>2, <2>2 DEF DeviceInv, Known, Waits, Operating, Pending
  <2>5. \/ Pending(<<>>, TRUE, FALSE)' /\ drv' = "none"
        \/ Pending(<<"remove">>, TRUE, FALSE)' /\ drv' \in {"enumerate", "attached"}
    BY <1>1, <2>1, <2>4 DEF Pending
  <2>6. DiscOut' /\ Ready'
    BY <1>1, <2>1, <2>2, <2>3 DEF DiscOut, Ready
  <2> QED BY <1>1, <2>3, <2>5, <2>6 DEF DeviceInv, Known
<1>3. CASE UNCHANGED <<root, ints>>
  BY <1>1, <1>3, AsideDevice
<1> QED BY <1>2, <1>3 DEF PortCheck

(* The end of the frame tells what it flagged.                              *)
LEMMA FrameEndDevice == ASSUME DeviceInv, HostInv', FrameEnd PROVE DeviceInv'
<1>1. /\ UNCHANGED <<root, drv, plugged, ready>> /\ events' = Deliver(events)
      /\ ints'.connect = FALSE /\ ints'.disconnect = FALSE /\ Quiet'
  BY DEF FrameEnd, Quiet, NoInts, Goto
<1>2. /\ Pending(<<>>, FALSE, FALSE) => events' = <<>>
      /\ Pending(<<>>, TRUE, FALSE) \/ Pending(<<"attach">>, FALSE, FALSE) => events' = <<"attach">>
      /\ Pending(<<>>, FALSE, TRUE) \/ Pending(<<"remove">>, FALSE, FALSE) => events' = <<"remove">>
      /\ Pending(<<"remove">>, TRUE, FALSE) \/ Pending(<<"remove", "attach">>, FALSE, FALSE)
         => events' = <<"remove", "attach">>
  BY <1>1, Queues DEF Pending, Deliver
<1>3. Operating' = Operating /\ Waits' = Waits
  BY <1>1 DEF Operating, Waits
<1>4. Known'
  BY <1>1, <1>2, <1>3 DEF DeviceInv, Known, Pending
<1>5. DiscOut' /\ Ready'
  BY <1>1, <1>3 DEF DeviceInv, DiscOut, Ready
<1> QED BY <1>1, <1>4, <1>5 DEF DeviceInv

(* The stack takes what it is told in order.                                *)
LEMMA TakeEventDevice == ASSUME DeviceInv, HostInv', TakeEvent PROVE DeviceInv'
<1>1. /\ UNCHANGED <<ints, isr, plugged, ready>> /\ events' = Tail(events) /\ events # <<>>
      /\ IF Head(events) = "attach"
         THEN drv' = "reset" /\ root' = [root EXCEPT !.suspended = TRUE]
         ELSE drv' = "none" /\ root' = root
  BY DEF TakeEvent
<1>2. root' \in [connected : BOOLEAN, suspended : BOOLEAN] /\ root'.connected = root.connected
      /\ Quiet' /\ DiscOut'
  BY <1>1, DeviceTypes DEF DeviceInv, Quiet, DiscOut
<1>3. ~ready
  BY <1>1 DEF DeviceInv, Ready, Known, Operating, Waits, Pending
<1>4. CASE Pending(<<"attach">>, FALSE, FALSE) /\ drv = "none" /\ Waits
  <2>1. drv' = "reset" /\ root'.suspended = TRUE
    BY <1>1, <1>4, Queues, DeviceTypes DEF Pending, DeviceInv
  <2>2. Pending(<<>>, FALSE, FALSE)' /\ Waits'
    BY <1>1, <1>2, <1>4, <2>1, Queues DEF Pending, Waits
  <2> QED BY <1>1, <1>2, <1>3, <2>1, <2>2 DEF DeviceInv, Known, Ready
<1>5. CASE Pending(<<"remove">>, FALSE, FALSE) /\ ~root.connected
  <2>1. drv' = "none" /\ ~root'.connected /\ Pending(<<>>, FALSE, FALSE)'
    BY <1>1, <1>2, <1>5, Queues DEF Pending
  <2> QED BY <1>1, <1>2, <1>3, <2>1 DEF DeviceInv, Known, Ready
<1>6. CASE /\ Pending(<<"remove">>, TRUE, FALSE) \/ Pending(<<"remove", "attach">>, FALSE, FALSE)
           /\ Waits
  <2>1. /\ drv' = "none" /\ Waits'
        /\ Pending(<<>>, TRUE, FALSE)' \/ Pending(<<"attach">>, FALSE, FALSE)'
    BY <1>1, <1>6, Queues DEF Pending, Waits
  <2> QED BY <1>1, <1>2, <1>3, <2>1 DEF DeviceInv, Known, Ready
<1>7. \/ Pending(<<"attach">>, FALSE, FALSE) /\ drv = "none" /\ Waits
      \/ Pending(<<"remove">>, FALSE, FALSE) /\ ~root.connected
      \/ /\ Pending(<<"remove">>, TRUE, FALSE) \/ Pending(<<"remove", "attach">>, FALSE, FALSE)
         /\ Waits
  BY <1>1 DEF DeviceInv, Known, Pending
<1> QED BY <1>4, <1>5, <1>6, <1>7

(* The reset and the enumeration that follow an attachment.                 *)
LEMMA ResetEndDevice == ASSUME DeviceInv, HostInv', pio_usb_host_port_reset_end PROVE DeviceInv'
<1>1. /\ UNCHANGED <<events, ints, isr, plugged, ready>> /\ drv = "reset" /\ drv' = "enumerate"
      /\ root' = [root EXCEPT !.suspended = FALSE]
  BY DEF pio_usb_host_port_reset_end
<1>2. Pending(<<>>, FALSE, FALSE) /\ root.connected
  BY <1>1 DEF DeviceInv, Known, Waits
<1>3. Operating' /\ Pending(<<>>, FALSE, FALSE)'
  BY <1>1, <1>2, DeviceTypes DEF Operating, Pending, DeviceInv
<1>4. Known' /\ DiscOut' /\ Ready' /\ Quiet'
  BY <1>1, <1>3 DEF DeviceInv, Known, DiscOut, Ready, Quiet
<1> QED BY <1>4 DEF DeviceInv

(* The device that is enumerated is the one on the cable.                   *)
LEMMA EnumeratedDevice == ASSUME DeviceInv, HostInv', Enumerated PROVE DeviceInv'
<1>1. /\ UNCHANGED <<root, events, ints, isr, plugged>> /\ drv = "enumerate" /\ drv' = "attached"
      /\ Operating /\ plugged /\ ready' = TRUE
  BY DEF Enumerated
<1>2. Pending(<<>>, FALSE, FALSE)
  BY <1>1 DEF DeviceInv, Known, Waits, Operating
<1>3. Operating' /\ Pending(<<>>, FALSE, FALSE)'
  BY <1>1, <1>2 DEF Operating, Pending
<1>4. Known' /\ DiscOut' /\ Ready' /\ Quiet'
  BY <1>1, <1>3 DEF DeviceInv, Known, DiscOut, Ready, Quiet
<1> QED BY <1>4 DEF DeviceInv

(* The cable.                                                               *)
LEMMA CableDevice == ASSUME ~FastReplug, DeviceInv, HostInv', Plug \/ Unplug PROVE DeviceInv'
<1>1. UNCHANGED <<root, events, ints, isr, drv>>
  BY DEF Plug, Unplug
<1>2. Known' /\ Quiet' /\ Operating' = Operating
  BY <1>1 DEF DeviceInv, Known, Quiet, Pending, Waits, Operating
<1>3. CASE Plug
  <2>1. plugged' = TRUE /\ ready' = ready /\ ints.disconnect = FALSE /\ ~Operating /\ ~ready
    BY <1>3 DEF Plug, DeviceInv, Quiet, NoInts, Operating, Ready
  <2> QED BY <1>1, <1>2, <2>1 DEF DeviceInv, DiscOut, Ready
<1>4. CASE Unplug
  <2>1. plugged' = FALSE /\ ready' = FALSE
    BY <1>4 DEF Unplug
  <2> QED BY <1>1, <1>2, <2>1 DEF DeviceInv, DiscOut, Ready
<1> QED BY <1>3, <1>4

(* Every step keeps it.                                                     *)
LEMMA DeviceStep == ASSUME ~FastReplug, DeviceInv, [Next]_vars PROVE DeviceInv'
<1>1. HostInv'
  BY StepInv DEF DeviceInv
<1>2. CASE SlotVisit \/ SlotStart
  <2>1. Quiet' /\ UNCHANGED <<root, drv, events, plugged, ready, ints>>
    BY <1>2 DEF SlotVisit, SlotStart, Quiet, NextSlot, Goto
  <2> QED BY <1>1, <2>1, AsideDevice
<1>3. CASE Frame
  BY <1>1, <1>2, <1>3, FrameBeginDevice, TransactionDevice, PortCheckDevice, FrameEndDevice DEF Frame
<1>4. CASE OpenEnd \/ AbortMark \/ AbortRead \/ AbortEnd \/ CloseSlot \/ Asked \/ UNCHANGED vars
  <2>1. UNCHANGED <<root, drv, events, plugged, ready, ints, isr>>
    BY <1>4 DEF OpenEnd, AbortMark, AbortRead, AbortEnd, CloseSlot, Asked, OpenBegin,
                pio_usb_host_endpoint_transfer, AbortBegin, vars
  <2>2. Quiet'
    BY <2>1 DEF DeviceInv, Quiet
  <2> QED BY <1>1, <2>1, <2>2, AsideDevice
<1>5. CASE Ongoing
  BY <1>1, <1>4, <1>5, TakeEventDevice, ResetEndDevice DEF Ongoing
<1>6. CASE Enumerated
  BY <1>1, <1>6, EnumeratedDevice
<1>7. CASE Plug \/ Unplug
  BY <1>1, <1>7, CableDevice
<1> QED BY <1>3, <1>4, <1>5, <1>6, <1>7 DEF Next, Task

(* A device that is plugged in again no sooner than a frame after it was    *)
(* pulled is never taken for the one before, on one core or two: with       *)
(* nothing left to be told, the stack is attached to the device that is     *)
(* there, or on the way to that.                                            *)
THEOREM DeviceTheorem == ASSUME ~FastReplug PROVE Spec => []DeviceKnown
<1>1. Init => DeviceInv
  BY DeviceInit
<1>2. DeviceInv /\ [Next]_vars => DeviceInv'
  BY DeviceStep
<1>3. DeviceInv => DeviceKnown
  <2> SUFFICES ASSUME DeviceInv, isr.at = "idle", plugged, root.connected, events = <<>>
               PROVE  drv # "none" /\ (drv = "attached" => ready)
    BY DEF DeviceKnown
  <2>1. Pending(<<>>, FALSE, FALSE)
    BY DEF DeviceInv, Quiet, NoInts, Pending
  <2> QED BY <2>1, Queues DEF DeviceInv, Known, Pending, Ready, Waits
<1> QED BY <1>1, <1>2, <1>3, PTL DEF Spec

-----------------------------------------------------------------------------
(* The pipe.  A device that is configured has counted what the host has:    *)
(* the identifier of an open endpoint is that of the packets its receiving  *)
(* side has taken or its sending side knows to have arrived, and a closed   *)
(* one has moved none.                                                      *)
Attached == /\ task.op \in {"open", "mark", "abort", "aborted"} => drv = "attached"
            /\ task.op = "close" => drv = "none"
            /\ task.op = "open" => (task.still <=> who[task.slot] \in Ins)

Closed == drv # "attached" =>
             \A s \in Slots : ep[s].size > 0 => task.op = "close" /\ s >= task.slot

Direction == \A s \in Slots : ep[s].size > 0 /\ ~(task.op = "open" /\ task.slot = s)
                              => (ep[s].is_tx <=> who[s] \notin Ins)

Counted == ready => \A n \in Names : \/ got[n] = sent[n] \/ got[n] = sent[n] + 1

Unused == ready => \A n \in Names : Open(n) = {} => got[n] = 0 /\ sent[n] = 0

InStep(s) == /\ ep[s].data_id = (IF who[s] \in Ins THEN got[who[s]] ELSE sent[who[s]]) % 2
             /\ ep[s].has_transfer /\ who[s] \notin Ins => ep[s].buffer.pid = ep[s].data_id

InSync == ready => \A s \in Slots : ep[s].size > 0 => InStep(s)

PipeInv == /\ OutcomeInv /\ DeviceInv
           /\ Attached /\ Closed /\ Direction /\ Counted /\ Unused /\ InSync

(* Nothing is open and nothing configured at the start.                     *)
LEMMA PipeInit == ASSUME Init PROVE PipeInv
<1>1. \A s \in Slots : ep[s].size = 0
  BY DEF Init, FreeEndpoint
<1>2. task.op = "idle" /\ ~ready
  BY DEF Init, Idle
<1>3. Attached /\ Closed /\ Direction
  BY <1>1, <1>2 DEF Attached, Closed, Direction
<1>4. Counted /\ Unused /\ InSync
  BY <1>2 DEF Counted, Unused, InSync
<1> QED BY <1>3, <1>4, OutcomeInit, DeviceInit DEF PipeInv

(* Every packet flips the identifier.                                       *)
LEMMA Parity == /\ \A k \in Nat : k % 2 \in {0, 1} /\ Flip(k % 2) = (k + 1) % 2
                /\ \A k \in Nat : k % 2 # (k + 1) % 2
BY DEF Flip

(* A data identifier is its packet identifier.                              *)
LEMMA PidIsId == ASSUME NEW e, e.data_id \in {0, 1} PROVE DataPid(e) = e.data_id
BY DEF DataPid

(* A step is over for this invariant if it leaves these fields alone.       *)
LEMMA AsidePipe ==
    ASSUME PipeInv, OutcomeInv', DeviceInv', UNCHANGED <<who, ready, sent, got>>, Attached', Closed',
           Direction',
           ready => \A t \in Slots : /\ ep'[t].size = ep[t].size
                                     /\ ep'[t].data_id = ep[t].data_id
                                     /\ ep'[t].has_transfer => ep[t].has_transfer /\ ep'[t].buffer = ep[t].buffer
    PROVE  PipeInv'
<1>1. Counted'
  BY DEF PipeInv, Counted
<1>2. Unused'
  <2> SUFFICES ASSUME ready, NEW n \in Names, Open(n)' = {} PROVE Open(n) = {}
    BY DEF PipeInv, Unused
  <2> QED BY DEF Open
<1>3. InSync'
  BY DEF PipeInv, InSync, InStep
<1> QED BY <1>1, <1>2, <1>3 DEF PipeInv

-----------------------------------------------------------------------------
(* The frame interrupt.                                                     *)

(* Steps of the interrupt that touch no identifier.                         *)
LEMMA FramePipe == ASSUME PipeInv, OutcomeInv', DeviceInv',
                          FrameBegin \/ SlotVisit \/ SlotStart \/ PortCheck \/ FrameEnd
                   PROVE  PipeInv'
<1>1. UNCHANGED <<who, ready, sent, got, task, drv>>
  BY DEF FrameBegin, SlotVisit, SlotStart, PortCheck, FrameEnd
<1>2. \A t \in Slots : /\ ep'[t].size = ep[t].size /\ ep'[t].is_tx = ep[t].is_tx
                       /\ ep'[t].data_id = ep[t].data_id /\ ep'[t].buffer = ep[t].buffer
                       /\ ep'[t].has_transfer => ep[t].has_transfer
  <2>1. CASE Disconnect
    BY <2>1, DisconnectEffect, HostTypes DEF PipeInv, OutcomeInv
  <2>2. CASE SlotStart
    BY <2>2, SlotStartEffect DEF PipeInv, OutcomeInv, Same
  <2>3. CASE UNCHANGED ep
    BY <2>3
  <2> QED BY <2>1, <2>2, <2>3 DEF FrameBegin, SlotVisit, PortCheck, FrameEnd
<1>3. Attached' /\ Closed' /\ Direction'
  BY <1>1, <1>2 DEF PipeInv, Attached, Closed, Direction
<1> QED BY <1>1, <1>2, <1>3, AsidePipe

(* What a transaction does to its slot, which is open and not being opened, *)
(* and to both counts of its endpoint.                                      *)
LEMMA TransactionCounts ==
    ASSUME PipeInv, Transaction
    PROVE  LET s == isr.slot  n == who[s]  f == ep'[s] IN
           /\ s \in Slots /\ n \in Names /\ Active(s) /\ (task.op = "open" => task.slot # s)
           /\ f.size = ep[s].size /\ f.is_tx = ep[s].is_tx /\ \A t \in Slots \ {s} : ep'[t] = ep[t]
           /\ ready => /\ f.data_id = (IF n \in Ins THEN got'[n] ELSE sent'[n]) % 2
                       /\ f.has_transfer /\ n \notin Ins => f.buffer.pid = f.data_id
                       /\ got'[n] = sent'[n] \/ got'[n] = sent'[n] + 1
           /\ \A m \in Names \ {n} : got'[m] = got[m] /\ sent'[m] = sent[m]
           /\ \/ UNCHANGED <<sent, got>>
              \/ /\ got[n] = sent[n] /\ got' = [got EXCEPT ![n] = @ + 1]
                 /\ sent' = sent \/ sent' = [sent EXCEPT ![n] = @ + 1]
              \/ /\ got[n] = sent[n] + 1 /\ got' = got
                 /\ sent' = [sent EXCEPT ![n] = @ + 1]
<1> DEFINE s == isr.slot
           n == who[s]
           o == ep[s]
           f == ep'[s]
<1>1. /\ HostInv /\ s \in Slots /\ n \in Names /\ who[s] = n /\ Active(s)
      /\ task.op = "open" => task.slot # s
  <2>1. isr.at = "bus" /\ HostInv
    BY DEF Transaction, PipeInv, OutcomeInv
  <2> QED BY <2>1, HostTypes DEF PipeInv, OutcomeInv, Walking, CallOpen, Active
<1>2. PICK e \in Slot, flag \in FlagNames : SlotEnd(e, flag) /\ Outcome(e, flag, o, n)
  BY <1>1, TransactionEffect
<1>3. /\ f.size = o.size /\ f.is_tx = o.is_tx /\ \A t \in Slots \ {s} : ep'[t] = ep[t]
      /\ f.data_id = e.data_id /\ f.has_transfer = e.has_transfer /\ f.buffer = e.buffer
  BY <1>1, <1>2, SlotEndEffect DEF Same, Outcome
<1> SUFFICES
       /\ ready => /\ e.data_id = (IF n \in Ins THEN got'[n] ELSE sent'[n]) % 2
                   /\ e.has_transfer /\ n \notin Ins => e.buffer.pid = e.data_id
                   /\ got'[n] = sent'[n] \/ got'[n] = sent'[n] + 1
       /\ \A m \in Names \ {n} : got'[m] = got[m] /\ sent'[m] = sent[m]
       /\ \/ UNCHANGED <<sent, got>>
          \/ /\ got[n] = sent[n] /\ got' = [got EXCEPT ![n] = @ + 1]
             /\ sent' = sent \/ sent' = [sent EXCEPT ![n] = @ + 1]
          \/ /\ got[n] = sent[n] + 1 /\ got' = got
             /\ sent' = [sent EXCEPT ![n] = @ + 1]
  <2> HIDE DEF s, n, o, f
  <2> QED BY <1>1, <1>3 DEF s, n, o, f
<1> HIDE DEF f, n, s
<1>4. /\ HostInv /\ o \in Slot /\ o.size > 0 /\ o.has_transfer
      /\ sent \in [Names -> Nat] /\ got \in [Names -> Nat]
      /\ sent[n] \in Nat /\ got[n] \in Nat /\ n \in Names
  BY <1>1, HostTypes DEF HostInv, TypeOK, BusOK, Active
<1>5. /\ ready => /\ got[n] = sent[n] \/ got[n] = sent[n] + 1
                  /\ o.data_id = (IF n \in Ins THEN got[n] ELSE sent[n]) % 2
                  /\ n \notin Ins => o.buffer.pid = o.data_id
      /\ o.is_tx <=> n \notin Ins
  BY <1>1, <1>4 DEF PipeInv, Counted, InSync, InStep, Direction
<1>6. o.data_id \in {0, 1} /\ e.data_id \in {0, 1}
  BY <1>4, SlotTypes DEF Pids
<1>7. DataPid(o) = o.data_id /\ DataPid(e) = e.data_id
  BY <1>6, PidIsId
<1> HIDE DEF o
<1>8. CASE UNCHANGED <<sent, got>> /\ e.data_id = o.data_id /\ e.buffer = o.buffer
  <2>1. ready /\ e.has_transfer /\ n \notin Ins => e.buffer.pid = e.data_id
    BY <1>5, <1>8
  <2> QED BY <1>5, <1>8, <2>1
<1>9. CASE /\ ready /\ n \in Ins /\ Fresh(sent[n] % 2, o) /\ e.data_id = Flip(o.data_id)
           /\ Count(got, n, TRUE) /\ \E confirmed \in BOOLEAN : Count(sent, n, confirmed)
  <2>1. got[n] = sent[n]
    BY <1>4, <1>5, <1>7, <1>9, Parity DEF Fresh
  <2>2. got' = [got EXCEPT ![n] = @ + 1] /\ (sent' = sent \/ sent' = [sent EXCEPT ![n] = @ + 1])
    BY <1>9 DEF Count
  <2>3. got'[n] = got[n] + 1 /\ (sent'[n] = sent[n] \/ sent'[n] = sent[n] + 1)
    BY <1>4, <2>2
  <2>4. e.data_id = got'[n] % 2
    BY <1>4, <1>5, <1>9, <2>3, Parity
  <2>5. \A m \in Names \ {n} : got'[m] = got[m] /\ sent'[m] = sent[m]
    BY <1>4, <2>2
  <2>6. got'[n] = sent'[n] \/ got'[n] = sent'[n] + 1
    BY <1>4, <2>1, <2>3
  <2> QED BY <1>9, <2>1, <2>2, <2>4, <2>5, <2>6
<1>10. CASE /\ ready /\ n \in Ins /\ ~Fresh(sent[n] % 2, o) /\ e.data_id = o.data_id
            /\ Count(got, n, FALSE) /\ \E confirmed \in BOOLEAN : Count(sent, n, confirmed)
  <2>1. got[n] = sent[n] + 1
    BY <1>4, <1>5, <1>7, <1>10 DEF Fresh
  <2>2. got' = got /\ (sent' = sent \/ sent' = [sent EXCEPT ![n] = @ + 1])
    BY <1>10 DEF Count
  <2>3. sent'[n] = sent[n] \/ sent'[n] = sent[n] + 1
    BY <1>4, <2>2
  <2>4. \A m \in Names \ {n} : got'[m] = got[m] /\ sent'[m] = sent[m]
    BY <1>4, <2>2
  <2>5. got'[n] = sent'[n] \/ got'[n] = sent'[n] + 1
    BY <1>4, <2>1, <2>2, <2>3
  <2> QED BY <1>5, <1>10, <2>1, <2>2, <2>4, <2>5
<1>11. CASE /\ ready /\ n \notin Ins /\ e.data_id = Flip(o.data_id)
            /\ e.has_transfer /\ e.is_tx => e.buffer.pid = DataPid(e)
            /\ Count(got, n, o.buffer.pid = got[n] % 2) /\ Count(sent, n, TRUE)
  <2>1. sent' = [sent EXCEPT ![n] = @ + 1] /\ sent'[n] = sent[n] + 1
    BY <1>4, <1>11 DEF Count
  <2>2. e.data_id = sent'[n] % 2
    BY <1>4, <1>5, <1>11, <2>1, Parity
  <2>3. e.is_tx
    BY <1>5, <1>11, <1>2 DEF Outcome
  <2>4. e.has_transfer => e.buffer.pid = e.data_id
    BY <1>7, <1>11, <2>3
  <2>5. CASE got[n] = sent[n]
    <3>1. got' = [got EXCEPT ![n] = @ + 1] /\ got'[n] = got[n] + 1
      BY <1>4, <1>5, <1>11, <2>5 DEF Count
    <3> QED BY <1>4, <1>11, <2>1, <2>2, <2>4, <2>5, <3>1
  <2>6. CASE got[n] = sent[n] + 1
    <3>1. got' = got
      BY <1>4, <1>5, <1>11, <2>6, Parity DEF Count
    <3> QED BY <1>4, <1>11, <2>1, <2>2, <2>4, <2>6, <3>1
  <2> QED BY <1>5, <1>11, <2>5, <2>6
<1>12. CASE /\ ready /\ n \notin Ins /\ flag = "error" /\ e.data_id = o.data_id
            /\ Count(got, n, o.buffer.pid = got[n] % 2) /\ Count(sent, n, FALSE)
  <2>1. sent' = sent /\ ~e.has_transfer
    BY <1>12, <1>2 DEF Count, Outcome
  <2>2. CASE got[n] = sent[n]
    <3>1. got' = [got EXCEPT ![n] = @ + 1] /\ got'[n] = got[n] + 1
      BY <1>4, <1>5, <1>12, <2>2 DEF Count
    <3> QED BY <1>4, <1>5, <1>12, <2>1, <2>2, <3>1
  <2>3. CASE got[n] = sent[n] + 1
    <3>1. got' = got
      BY <1>4, <1>5, <1>12, <2>3, Parity DEF Count
    <3> QED BY <1>5, <1>12, <2>1, <2>3, <3>1
  <2> QED BY <1>5, <1>12, <2>2, <2>3
<1> QED BY <1>8, <1>9, <1>10, <1>11, <1>12, <1>2 DEF Outcome

(* The counts and the identifier move together.                             *)
LEMMA TransactionPipe == ASSUME PipeInv, OutcomeInv', DeviceInv', Transaction PROVE PipeInv'
<1> DEFINE s == isr.slot
           n == who[s]
           f == ep'[s]
<1>1. /\ s \in Slots /\ n \in Names /\ Active(s) /\ (task.op = "open" => task.slot # s)
      /\ UNCHANGED <<who, root, task, drv, events, plugged, ready, plugs, due>> /\ HostInv
  BY TransactionCounts DEF Transaction, PipeInv, OutcomeInv
<1>4. f.size = ep[s].size /\ f.is_tx = ep[s].is_tx /\ \A t \in Slots \ {s} : ep'[t] = ep[t]
  BY TransactionCounts
<1>5. /\ ready => /\ f.data_id = (IF n \in Ins THEN got'[n] ELSE sent'[n]) % 2
                  /\ f.has_transfer /\ n \notin Ins => f.buffer.pid = f.data_id
                  /\ got'[n] = sent'[n] \/ got'[n] = sent'[n] + 1
      /\ \A m \in Names \ {n} : got'[m] = got[m] /\ sent'[m] = sent[m]
  BY TransactionCounts
<1> HIDE DEF s, n, f
<1>6. Attached' /\ Closed' /\ Direction'
  BY <1>1, <1>4 DEF PipeInv, Attached, Closed, Direction, f
<1>7. Counted'
  BY <1>1, <1>5 DEF PipeInv, Counted
<1>8. Unused'
  <2> SUFFICES ASSUME ready, NEW m \in Names, Open(m)' = {} PROVE got'[m] = 0 /\ sent'[m] = 0
    BY <1>1 DEF Unused
  <2>1. Open(m) = {}
    BY <1>1, <1>4 DEF Open, f
  <2>2. m # n
    BY <1>1, <2>1 DEF Open, Active, n
  <2> QED BY <1>5, <2>1, <2>2 DEF PipeInv, Unused
<1>9. InSync'
  <2> SUFFICES ASSUME ready, NEW t \in Slots, ep'[t].size > 0 PROVE InStep(t)'
    BY <1>1 DEF InSync
  <2>1. CASE t = s
    BY <1>1, <1>4, <1>5, <2>1 DEF InStep, f, n
  <2>2. CASE t # s
    <3>1. ep'[t] = ep[t] /\ ep[t].size > 0
      BY <1>4, <2>2
    <3>2. who[t] \in Names /\ who[t] # n
      BY <1>1, <2>2, <3>1, HostTypes DEF PipeInv, OutcomeInv, Single, Active, n
    <3>3. InStep(t)
      BY <3>1 DEF PipeInv, InSync
    <3> QED BY <1>1, <1>5, <3>1, <3>2, <3>3 DEF InStep
  <2> QED BY <2>1, <2>2
<1> QED BY <1>6, <1>7, <1>8, <1>9 DEF PipeInv

-----------------------------------------------------------------------------
(* The task and the cable.                                                  *)

(* With no device configured there is nothing to agree on.                  *)
LEMMA NotReadyPipe == ASSUME OutcomeInv', DeviceInv', Attached', Closed', Direction', ~ready'
                      PROVE  PipeInv'
BY DEF PipeInv, Counted, Unused, InSync

(* A new device is told of only when all slots are closed.                  *)
LEMMA StackPipe == ASSUME PipeInv, OutcomeInv', DeviceInv', TakeEvent \/ pio_usb_host_port_reset_end
                   PROVE  PipeInv'
<1>1. UNCHANGED <<ep, who, ready, sent, got>> /\ task.op = "idle" /\ 1 \in Slots
  BY PoolAssumption DEF TakeEvent, pio_usb_host_port_reset_end, TaskIs, Slots
<1>2. Direction'
  <2>1. task'.op # "open"
    BY <1>1 DEF TakeEvent, pio_usb_host_port_reset_end, Call
  <2> QED BY <1>1, <2>1 DEF PipeInv, Direction
<1>3. CASE TakeEvent
  <2>1. events # <<>> /\ drv # "reset"
    BY <1>3 DEF TakeEvent
  <2>2. CASE Head(events) = "attach"
    <3>1. drv' = "reset" /\ task' = task
      BY <1>3, <2>2 DEF TakeEvent
    <3>2. drv # "attached"
      BY <2>1, <2>2, Queues DEF PipeInv, DeviceInv, Known, Pending
    <3>3. Attached' /\ Closed'
      BY <1>1, <3>1, <3>2 DEF PipeInv, Attached, Closed
    <3>4. ~ready'
      BY <1>1, <3>2 DEF PipeInv, DeviceInv, Ready
    <3> QED BY <1>2, <3>3, <3>4, NotReadyPipe
  <2>3. CASE Head(events) # "attach"
    <3>1. drv' = "none" /\ task'.op = "close" /\ task'.slot = 1
      BY <1>3, <2>3 DEF TakeEvent, Call
    <3>2. Attached' /\ Closed'
      BY <3>1, PoolAssumption DEF Attached, Closed, Slots
    <3>3. ~ready'
      BY <3>1 DEF DeviceInv, Ready
    <3> QED BY <1>2, <3>2, <3>3, NotReadyPipe
  <2> QED BY <2>2, <2>3
<1>4. CASE pio_usb_host_port_reset_end
  <2>1. drv = "reset" /\ drv' = "enumerate" /\ task' = task
    BY <1>4 DEF pio_usb_host_port_reset_end
  <2>2. Attached' /\ Closed'
    BY <1>1, <2>1 DEF PipeInv, Attached, Closed
  <2>3. ~ready'
    BY <2>1 DEF DeviceInv, Ready
  <2> QED BY <1>2, <2>2, <2>3, NotReadyPipe
<1> QED BY <1>3, <1>4

(* A device that was just enumerated has no endpoint open.                  *)
LEMMA NothingOpen == ASSUME PipeInv, Enumerated PROVE \A s \in Slots : ~(ep[s].size > 0)
BY DEF PipeInv, Closed, Enumerated, TaskIs

(* Both counts start over with every slot closed.                           *)
LEMMA EnumeratedPipe == ASSUME PipeInv, OutcomeInv', DeviceInv', Enumerated PROVE PipeInv'
<1>1. /\ UNCHANGED <<ep, who, task>> /\ task.op = "idle" /\ drv' = "attached"
      /\ sent' = [n \in Names |-> 0] /\ got' = [n \in Names |-> 0]
  BY DEF Enumerated, TaskIs
<1>2. Attached' /\ Closed' /\ Direction'
  BY <1>1 DEF PipeInv, Attached, Closed, Direction
<1>3. Counted' /\ Unused'
  BY <1>1 DEF Counted, Unused
<1>4. InSync'
  BY <1>1, NothingOpen DEF InSync
<1> QED BY <1>2, <1>3, <1>4 DEF PipeInv

(* A cable pulled leaves nothing to agree on.                               *)
LEMMA CablePipe == ASSUME PipeInv, OutcomeInv', DeviceInv', Plug \/ Unplug PROVE PipeInv'
<1>1. UNCHANGED <<ep, who, task, drv, sent, got>> /\ (ready' = ready \/ ~ready')
  BY DEF Plug, Unplug
<1>2. Attached' /\ Closed' /\ Direction'
  BY <1>1 DEF PipeInv, Attached, Closed, Direction
<1>3. CASE ready' = ready
  BY <1>1, <1>2, <1>3, AsidePipe
<1>4. CASE ~ready'
  BY <1>2, <1>4, NotReadyPipe
<1> QED BY <1>1, <1>3, <1>4

(* An endpoint is opened with DATA0, before its first packet.               *)
LEMMA OpenBeginPipe == ASSUME PipeInv, OutcomeInv', DeviceInv', NEW n \in Names, OpenBegin(n) PROVE PipeInv'
<1>1. /\ UNCHANGED <<root, ints, isr, drv, events, plugged, ready, plugs, sent, got, due>>
      /\ task.op = "idle" /\ drv = "attached" /\ Open(n) = {}
  BY DEF OpenBegin, TaskIs
<1>2. PICK s \in Slots : /\ ep[s].size = 0 /\ ep'[s].size = MAX_SIZE /\ ep'[s].data_id = 0
                         /\ ep'[s].has_transfer = ep[s].has_transfer
                         /\ \A t \in Slots \ {s} : ep'[t] = ep[t] /\ who'[t] = who[t]
                         /\ who'[s] = n /\ task' = [op |-> "open", slot |-> s, still |-> n \in Ins]
  BY OpenBeginEffect DEF PipeInv, OutcomeInv
<1>3. ~ep'[s].has_transfer
  BY <1>2 DEF PipeInv, OutcomeInv, Free
<1>4. Attached' /\ Closed' /\ Direction'
  <2>1. task'.op = "open" /\ task'.slot = s /\ (task'.still <=> n \in Ins)
    BY <1>2
  <2> QED BY <1>1, <1>2, <2>1 DEF PipeInv, Attached, Closed, Direction
<1>5. Counted'
  BY <1>1 DEF PipeInv, Counted
<1>6. Unused'
  <2> SUFFICES ASSUME ready, NEW m \in Names, Open(m)' = {} PROVE Open(m) = {}
    BY <1>1 DEF PipeInv, Unused
  <2> QED BY <1>2 DEF Open
<1>7. InSync'
  <2> SUFFICES ASSUME ready, NEW t \in Slots, ep'[t].size > 0 PROVE InStep(t)'
    BY <1>1 DEF InSync
  <2>1. CASE t = s
    <3>1. got[n] = 0 /\ sent[n] = 0
      BY <1>1 DEF PipeInv, Unused
    <3> QED BY <1>1, <1>2, <1>3, <2>1, <3>1 DEF InStep
  <2>2. CASE t # s
    <3>1. ep'[t] = ep[t] /\ who'[t] = who[t]
      BY <1>2, <2>2
    <3> QED BY <1>1, <3>1 DEF PipeInv, InSync, InStep
  <2> QED BY <2>1, <2>2
<1> QED BY <1>4, <1>5, <1>6, <1>7 DEF PipeInv

(* From here on the direction is the endpoint's.                            *)
LEMMA OpenEndPipe == ASSUME PipeInv, OutcomeInv', DeviceInv', OpenEnd PROVE PipeInv'
<1> DEFINE s == task.slot
<1>1. /\ UNCHANGED <<who, counter, root, ints, isr, drv, events, plugged, ready, plugs, sent, got, due>>
      /\ task.op = "open" /\ task'.op = "idle" /\ drv = "attached" /\ (task.still <=> who[s] \in Ins)
      /\ ~ep[s].has_transfer
  BY DEF OpenEnd, TaskIs, Idle, PipeInv, Attached, OutcomeInv, CallOpen
<1>2. /\ s \in Slots /\ \A t \in Slots \ {s} : ep'[t] = ep[t]
      /\ ep'[s].size = ep[s].size /\ ep'[s].is_tx = ~task.still /\ ep'[s].data_id = ep[s].data_id
      /\ ep'[s].has_transfer = ep[s].has_transfer
  BY OpenEndEffect DEF PipeInv, OutcomeInv
<1> HIDE DEF s
<1>3. Attached' /\ Closed'
  BY <1>1 DEF Attached, Closed
<1>4. Direction'
  <2> SUFFICES ASSUME NEW t \in Slots, ep'[t].size > 0 PROVE ep'[t].is_tx <=> who[t] \notin Ins
    BY <1>1 DEF Direction
  <2> QED BY <1>1, <1>2 DEF PipeInv, Direction, s
<1>5. \A t \in Slots : /\ ep'[t].size = ep[t].size /\ ep'[t].data_id = ep[t].data_id
                       /\ ep'[t].has_transfer => ep[t].has_transfer /\ ep'[t].buffer = ep[t].buffer
  BY <1>1, <1>2
<1> QED BY <1>1, <1>3, <1>4, <1>5, AsidePipe

(* The first packet of a transfer carries the identifier of the endpoint.   *)
LEMMA TransferPipe == ASSUME PipeInv, OutcomeInv', DeviceInv', NEW n \in Names, pio_usb_host_endpoint_transfer(n)
                      PROVE  PipeInv'
<1>1. /\ UNCHANGED <<who, counter, root, ints, isr, task, drv, events, plugged, ready, plugs, sent, got>>
      /\ task.op = "idle"
  BY DEF pio_usb_host_endpoint_transfer, TaskIs
<1>2. PICK s \in Open(n) : /\ \A t \in Slots \ {s} : ep'[t] = ep[t]
                           /\ ep'[s].size = ep[s].size /\ ep'[s].is_tx = ep[s].is_tx
                           /\ ep'[s].data_id = ep[s].data_id
                           /\ ep[s].is_tx => ep'[s].buffer.pid = DataPid(ep[s])
  BY TransferEffect DEF PipeInv, OutcomeInv
<1>3. s \in Slots /\ ep[s].size > 0 /\ who[s] = n /\ ep[s] \in Slot
  BY HostTypes DEF Open, PipeInv, OutcomeInv
<1>4. DataPid(ep[s]) = ep[s].data_id
  <2>1. ep[s].data_id \in {0, 1}
    BY <1>3, SlotTypes DEF Pids
  <2> QED BY <2>1, PidIsId
<1>5. Attached' /\ Closed' /\ Direction'
  BY <1>1, <1>2, <1>3 DEF PipeInv, Attached, Closed, Direction
<1>6. Counted'
  BY <1>1 DEF PipeInv, Counted
<1>7. Unused'
  <2> SUFFICES ASSUME ready, NEW m \in Names, Open(m)' = {} PROVE Open(m) = {}
    BY <1>1 DEF PipeInv, Unused
  <2> QED BY <1>1, <1>2, <1>3 DEF Open
<1>8. InSync'
  <2> SUFFICES ASSUME ready, NEW t \in Slots, ep'[t].size > 0 PROVE InStep(t)'
    BY <1>1 DEF InSync
  <2>1. CASE t = s
    <3>1. n \notin Ins => ep[s].is_tx
      BY <1>1, <1>3 DEF PipeInv, Direction
    <3>2. InStep(s)
      BY <1>3 DEF PipeInv, InSync
    <3> QED BY <1>1, <1>2, <1>3, <1>4, <2>1, <3>1, <3>2 DEF InStep
  <2>2. CASE t # s
    <3>1. ep'[t] = ep[t]
      BY <1>2, <2>2
    <3> QED BY <1>1, <3>1 DEF PipeInv, InSync, InStep
  <2> QED BY <2>1, <2>2
<1> QED BY <1>5, <1>6, <1>7, <1>8 DEF PipeInv

(* An abort touches neither identifier nor count.                           *)
LEMMA AbortPipe == ASSUME PipeInv, OutcomeInv', DeviceInv',
                          AbortMark \/ AbortRead \/ AbortEnd \/ \E n \in Names : AbortBegin(n)
                   PROVE  PipeInv'
<1>1. /\ UNCHANGED <<who, counter, root, ints, isr, drv, events, plugged, ready, plugs, sent, got>>
      /\ task'.op \in {"idle", "mark", "abort", "aborted"} /\ drv = "attached" /\ task.op # "open"
  BY DEF AbortBegin, AbortMark, AbortRead, AbortEnd, TaskIs, Call, Idle, PipeInv, Attached
<1>2. \A t \in Slots : /\ ep'[t].size = ep[t].size /\ ep'[t].is_tx = ep[t].is_tx
                       /\ ep'[t].data_id = ep[t].data_id /\ ep'[t].buffer = ep[t].buffer
                       /\ ep'[t].has_transfer => ep[t].has_transfer
  <2>1. CASE AbortMark
    BY <2>1, AbortMarkEffect DEF PipeInv, OutcomeInv
  <2>2. CASE AbortEnd
    BY <2>2, AbortEndEffect, HostTypes DEF PipeInv, OutcomeInv
  <2>3. CASE AbortRead \/ \E n \in Names : AbortBegin(n)
    BY <2>3 DEF AbortRead, AbortBegin
  <2> QED BY <2>1, <2>2, <2>3
<1>3. Attached' /\ Closed' /\ Direction'
  BY <1>1, <1>2 DEF PipeInv, Attached, Closed, Direction
<1> QED BY <1>1, <1>2, <1>3, AsidePipe

(* The slots are closed from the first to the last.                         *)
LEMMA CloseSlotPipe == ASSUME PipeInv, OutcomeInv', DeviceInv', CloseSlot PROVE PipeInv'
<1> DEFINE s == task.slot
<1>1. /\ UNCHANGED <<who, counter, root, ints, isr, drv, events, plugged, ready, plugs, sent, got>>
      /\ task.op = "close" /\ drv = "none"
      /\ IF s + 1 \in Slots THEN task'.op = "close" /\ task'.slot = s + 1 ELSE task'.op = "idle"
  BY DEF CloseSlot, TaskIs, Idle, Call, PipeInv, Attached
<1>2. s \in Slots /\ ep'[s].size = 0 /\ \A t \in Slots \ {s} : ep'[t] = ep[t]
  BY CloseSlotEffect DEF PipeInv, OutcomeInv
<1>3. ~ready'
  BY <1>1 DEF DeviceInv, Ready
<1> HIDE DEF s
<1>4. Attached' /\ Direction'
  BY <1>1, <1>2 DEF PipeInv, Attached, Direction
<1>5. Closed'
  <2> SUFFICES ASSUME NEW t \in Slots, ep'[t].size > 0 PROVE task'.op = "close" /\ t >= task'.slot
    BY DEF Closed
  <2>1. t # s /\ t >= s /\ s \in Int /\ t \in Int
    BY <1>1, <1>2 DEF PipeInv, Closed, s, Slots
  <2>2. s + 1 \in Slots
    BY <1>2, <2>1, PoolAssumption DEF Slots
  <2> QED BY <1>1, <2>1, <2>2
<1> QED BY <1>3, <1>4, <1>5, NotReadyPipe

(* Every step keeps it.                                                     *)
LEMMA PipeStep == ASSUME OneCore, ~FastReplug, PipeInv, [Next]_vars PROVE PipeInv'
<1>1. OutcomeInv' /\ DeviceInv'
  BY OutcomeStep, DeviceStep DEF PipeInv
<1>2. CASE Frame
  BY <1>1, <1>2, FramePipe, TransactionPipe DEF Frame
<1>3. CASE Ongoing
  BY <1>1, <1>3, StackPipe, OpenEndPipe, AbortPipe, CloseSlotPipe DEF Ongoing
<1>4. CASE Enumerated
  BY <1>1, <1>4, EnumeratedPipe
<1>5. CASE Asked
  BY <1>1, <1>5, OpenBeginPipe, TransferPipe, AbortPipe DEF Asked
<1>6. CASE Plug \/ Unplug
  BY <1>1, <1>6, CablePipe
<1>7. CASE UNCHANGED vars
  <2>1. UNCHANGED <<ep, who, task, drv, ready, sent, got>>
    BY <1>7 DEF vars
  <2>2. Attached' /\ Closed' /\ Direction'
    BY <2>1 DEF PipeInv, Attached, Closed, Direction
  <2> QED BY <1>1, <2>1, <2>2, AsidePipe
<1> QED BY <1>2, <1>3, <1>4, <1>5, <1>6, <1>7 DEF Next, Task

-----------------------------------------------------------------------------
(* The refinement.                                                          *)
BusyAt(n) == \E s \in Open(n) : ep[s].has_transfer
Busy == [n \in Names |-> BusyAt(n)]

(* The steps of the pipe, read in the state of the host.                    *)
LEMMA PipeSteps ==
    /\ UNCHANGED Pipe!vars <=> UNCHANGED <<Busy, got, sent>>
    /\ Pipe!Init <=> /\ Busy = [n \in Names |-> FALSE] /\ got = [n \in Names |-> 0]
                     /\ sent = [n \in Names |-> 0]
    /\ Pipe!Reset <=> /\ Busy' = [n \in Names |-> FALSE] /\ got' = [n \in Names |-> 0]
                      /\ sent' = [n \in Names |-> 0]
    /\ Pipe!Unplug <=> Busy' = [n \in Names |-> FALSE] /\ UNCHANGED <<got, sent>>
    /\ \A n \in Names :
          /\ Pipe!Start(n) <=> /\ ~Busy[n] /\ Busy' = [Busy EXCEPT ![n] = TRUE]
                               /\ UNCHANGED <<got, sent>>
          /\ Pipe!End(n) <=> /\ Busy[n] /\ Busy' = [Busy EXCEPT ![n] = FALSE]
                             /\ UNCHANGED <<got, sent>>
          /\ Pipe!Move(n) <=>
                /\ Busy[n]
                /\ \E over \in BOOLEAN : Busy' = [Busy EXCEPT ![n] = ~over]
                /\ \/ /\ got[n] = sent[n]
                      /\ got' = [got EXCEPT ![n] = @ + 1]
                      /\ \/ sent' = [sent EXCEPT ![n] = @ + 1]
                         \/ UNCHANGED sent
                   \/ /\ sent[n] + 1 = got[n]
                      /\ sent' = [sent EXCEPT ![n] = @ + 1]
                      /\ UNCHANGED got
BY DEF Pipe!vars, Pipe!Init, Pipe!Reset, Pipe!Unplug, Pipe!Start, Pipe!End, Pipe!Move, Busy, BusyAt

(* The pipes are as busy as before, or one of them changes.                 *)
LEMMA BusySame == ASSUME \A n \in Names : BusyAt(n)' <=> BusyAt(n) PROVE Busy' = Busy
BY DEF Busy, BusyAt

(* One pipe changes.                                                        *)
LEMMA BusyOne == ASSUME NEW m \in Names, \A n \in Names \ {m} : BusyAt(n)' <=> BusyAt(n),
                        NEW b \in BOOLEAN, BusyAt(m)' <=> b
                 PROVE  Busy' = [Busy EXCEPT ![m] = b]
BY DEF Busy, BusyAt

(* All become idle.                                                         *)
LEMMA BusyNone == ASSUME \A n \in Names : ~BusyAt(n)' PROVE Busy' = [n \in Names |-> FALSE]
BY DEF Busy, BusyAt

(* A pipe is busy if its slot is.                                           *)
LEMMA BusySlot == ASSUME Single, NEW s \in Slots, ep[s].size > 0, who[s] \in Names
                  PROVE  BusyAt(who[s]) <=> ep[s].has_transfer
BY DEF BusyAt, Open, Single

(* A slot that goes on, or is freed, changes no pipe but its own.           *)
LEMMA BusyOthers ==
    ASSUME NEW s \in Slots, UNCHANGED who, \A t \in Slots \ {s} : ep'[t] = ep[t]
    PROVE  \A n \in Names \ {who[s]} : BusyAt(n)' <=> BusyAt(n)
<1> SUFFICES ASSUME NEW n \in Names \ {who[s]} PROVE BusyAt(n)' <=> BusyAt(n)
  OBVIOUS
<1>1. Open(n)' = Open(n) /\ s \notin Open(n) /\ Open(n) \subseteq Slots
  BY DEF Open
<1> QED BY <1>1 DEF BusyAt

(* Steps that keep the transfers of the slots in use keep the pipes.        *)
LEMMA BusyKept ==
    ASSUME \A t \in Slots : /\ ep'[t].size > 0 /\ ep'[t].has_transfer <=> ep[t].size > 0 /\ ep[t].has_transfer
                            /\ ep[t].size > 0 => who'[t] = who[t]
    PROVE  Busy' = Busy
<1>1. \A n \in Names : BusyAt(n)' <=> BusyAt(n)
  BY DEF BusyAt, Open
<1> QED BY <1>1, BusySame

-----------------------------------------------------------------------------

(* A transaction moves a packet, ends the transfer, or does neither.        *)
LEMMA TransactionPipes == ASSUME PipeInv, PipeInv', Transaction PROVE Pipe!Next \/ UNCHANGED Pipe!vars
<1>0. PICK s \in Slots, n \in Names : s = isr.slot /\ n = who[s]
  BY TransactionCounts
<1> DEFINE b == ep'[s].has_transfer
<1>1. /\ s \in Slots /\ n \in Names /\ who[s] = n /\ Active(s) /\ UNCHANGED who
      /\ ep'[s].size = ep[s].size /\ \A t \in Slots \ {s} : ep'[t] = ep[t]
  BY <1>0, TransactionCounts DEF Transaction
<1>2. \/ UNCHANGED <<sent, got>>
      \/ /\ got[n] = sent[n] /\ got' = [got EXCEPT ![n] = @ + 1]
         /\ sent' = sent \/ sent' = [sent EXCEPT ![n] = @ + 1]
      \/ /\ got[n] = sent[n] + 1 /\ got' = got
         /\ sent' = [sent EXCEPT ![n] = @ + 1]
  BY <1>0, TransactionCounts
<1>3. Single /\ Single' /\ b \in BOOLEAN
  <2>1. HostInv' /\ s \in Slots
    BY <1>1 DEF PipeInv, OutcomeInv
  <2>2. b \in BOOLEAN
    BY <2>1, SlotTypes DEF HostInv, Owned
  <2> QED BY <2>2 DEF PipeInv, OutcomeInv
<1>4. ep[s].size > 0 /\ ep[s].has_transfer
  BY <1>1 DEF Active
<1>5. BusyAt(n) /\ (BusyAt(n)' <=> b)
  BY <1>1, <1>3, <1>4 DEF BusyAt, Open, Single
<1>6. \A m \in Names \ {n} : BusyAt(m)' <=> BusyAt(m)
  BY <1>1, BusyOthers
<1> HIDE DEF b
<1>7. Busy[n] /\ Busy \in [Names -> BOOLEAN]
  BY <1>1, <1>5 DEF Busy, BusyAt
<1>8. Busy' = [Busy EXCEPT ![n] = b]
  BY <1>1, <1>3, <1>5, <1>6, BusyOne
<1>9. CASE UNCHANGED <<sent, got>>
  <2>1. CASE b
    <3>1. Busy' = Busy
      BY <1>7, <1>8, <2>1
    <3> QED BY <1>9, <3>1, PipeSteps
  <2>2. CASE ~b
    <3>1. Busy' = [Busy EXCEPT ![n] = FALSE]
      BY <1>3, <1>8, <2>2
    <3>2. Pipe!End(n)
      BY <1>1, <1>7, <1>9, <3>1, PipeSteps
    <3> QED BY <1>1, <3>2 DEF Pipe!Next
  <2> QED BY <2>1, <2>2
<1>10. CASE ~UNCHANGED <<sent, got>>
  <2>1. \E over \in BOOLEAN : Busy' = [Busy EXCEPT ![n] = ~over]
    <3>1. (~b) \in BOOLEAN /\ b = ~(~b)
      BY <1>3
    <3> QED BY <1>8, <3>1
  <2>2. \/ /\ got[n] = sent[n] /\ got' = [got EXCEPT ![n] = @ + 1]
           /\ sent' = [sent EXCEPT ![n] = @ + 1] \/ UNCHANGED sent
        \/ /\ sent[n] + 1 = got[n] /\ UNCHANGED got
           /\ sent' = [sent EXCEPT ![n] = @ + 1]
    BY <1>2, <1>10
  <2>3. Pipe!Move(n)
    BY <1>1, <1>7, <2>1, <2>2, PipeSteps
  <2> QED BY <1>1, <2>3 DEF Pipe!Next
<1> QED BY <1>9, <1>10

(* A disconnection takes every transfer, an enumeration finds none.         *)
LEMMA AllPipes == ASSUME PipeInv, (Disconnect /\ UNCHANGED <<who, sent, got>>) \/ Enumerated
                  PROVE  Pipe!Next
<1>1. CASE Disconnect /\ UNCHANGED <<who, sent, got>>
  <2>1. \A t \in Slots : /\ ep'[t].size = ep[t].size
                         /\ ep'[t].has_transfer = (ep[t].has_transfer /\ ~Active(t))
    BY <1>1, DisconnectEffect DEF PipeInv, OutcomeInv
  <2>2. \A n \in Names : ~BusyAt(n)'
    BY <1>1, <2>1 DEF BusyAt, Open, Active
  <2>3. Pipe!Unplug
    BY <1>1, <2>2, BusyNone, PipeSteps
  <2> QED BY <2>3 DEF Pipe!Next
<1>2. CASE Enumerated
  <2>1. /\ UNCHANGED <<ep, who>>
        /\ sent' = [n \in Names |-> 0] /\ got' = [n \in Names |-> 0]
    BY <1>2 DEF Enumerated
  <2>2. \A n \in Names : ~BusyAt(n)'
    BY <1>2, <2>1, NothingOpen DEF BusyAt, Open
  <2>3. Pipe!Reset
    BY <2>1, <2>2, BusyNone, PipeSteps
  <2> QED BY <2>3 DEF Pipe!Next
<1> QED BY <1>1, <1>2

(* The stack starts a transfer on a pipe that has none.                     *)
LEMMA TransferPipes == ASSUME PipeInv, PipeInv', NEW n \in Names, pio_usb_host_endpoint_transfer(n)
                       PROVE  Pipe!Next
<1>1. UNCHANGED <<who, sent, got>> /\ Single /\ Single'
  BY DEF pio_usb_host_endpoint_transfer, PipeInv, OutcomeInv
<1>2. PICK s \in Open(n) : /\ ~ep[s].has_transfer /\ \A t \in Slots \ {s} : ep'[t] = ep[t]
                           /\ ep'[s].size = ep[s].size /\ ep'[s].has_transfer = TRUE
  BY TransferEffect DEF PipeInv, OutcomeInv
<1>3. s \in Slots /\ ep[s].size > 0 /\ who[s] = n
  BY DEF Open
<1>4. ~BusyAt(n) /\ BusyAt(n)'
  BY <1>1, <1>2, <1>3 DEF BusyAt, Open, Single
<1>5. \A m \in Names \ {n} : BusyAt(m)' <=> BusyAt(m)
  BY <1>1, <1>2, <1>3, BusyOthers
<1>6. ~Busy[n] /\ Busy' = [Busy EXCEPT ![n] = TRUE]
  <2>1. ~Busy[n]
    BY <1>4 DEF Busy
  <2> QED BY <1>4, <1>5, <2>1, BusyOne
<1>7. Pipe!Start(n)
  BY <1>1, <1>6, PipeSteps
<1> QED BY <1>7 DEF Pipe!Next

(* The stack ends one with an abort or by closing the slot.                 *)
LEMMA EndPipes == ASSUME PipeInv, PipeInv', NEW s \in Slots, UNCHANGED <<who, sent, got>>,
                         ep[s].size > 0, ep'[s].size \in {0, ep[s].size},
                         ep'[s].has_transfer => ep[s].has_transfer /\ ep'[s].size > 0,
                         \A t \in Slots \ {s} : ep'[t] = ep[t]
                  PROVE  Pipe!Next \/ UNCHANGED Pipe!vars
<1>0. PICK n \in Names : n = who[s]
  BY HostTypes DEF PipeInv, OutcomeInv
<1>1. who[s] = n /\ Single /\ Single'
  BY <1>0 DEF PipeInv, OutcomeInv
<1>2. BusyAt(n) <=> ep[s].has_transfer
  BY <1>1 DEF BusyAt, Open, Single
<1>3. BusyAt(n)' <=> ep'[s].has_transfer
  BY <1>1 DEF BusyAt, Open, Single
<1>4. \A m \in Names \ {n} : BusyAt(m)' <=> BusyAt(m)
  BY <1>1, BusyOthers
<1>5. CASE ep'[s].has_transfer <=> ep[s].has_transfer
  <2>1. Busy' = Busy
    BY <1>2, <1>3, <1>4, <1>5, BusySame
  <2> QED BY <2>1, PipeSteps
<1>6. CASE ep[s].has_transfer /\ ~ep'[s].has_transfer
  <2>1. Busy[n]
    BY <1>1, <1>2, <1>6 DEF Busy
  <2>2. Busy' = [Busy EXCEPT ![n] = FALSE]
    BY <1>1, <1>3, <1>4, <1>6, BusyOne
  <2>3. Pipe!End(n)
    BY <1>1, <2>1, <2>2, PipeSteps
  <2> QED BY <1>1, <2>3 DEF Pipe!Next
<1> QED BY <1>5, <1>6

(* No other step is seen on a pipe.                                         *)
LEMMA QuietPipes ==
    ASSUME PipeInv, \/ (FrameBegin /\ ~Disconnect) \/ SlotVisit \/ SlotStart \/ PortCheck \/ FrameEnd
                    \/ TakeEvent \/ pio_usb_host_port_reset_end \/ OpenEnd \/ AbortMark \/ AbortRead
                    \/ (\E n \in Names : OpenBegin(n) \/ AbortBegin(n))
                    \/ Plug \/ Unplug \/ UNCHANGED vars
    PROVE  UNCHANGED Pipe!vars
<1>1. UNCHANGED <<sent, got>>
  BY DEF FrameBegin, SlotVisit, SlotStart, PortCheck, FrameEnd, TakeEvent, pio_usb_host_port_reset_end,
         OpenEnd, AbortMark, AbortRead, OpenBegin, AbortBegin, Plug, Unplug, vars
<1>2. CASE \E n \in Names : OpenBegin(n)
  <2>1. PICK n \in Names : OpenBegin(n)
    BY <1>2
  <2>2. PICK s \in Slots : /\ ep[s].size = 0 /\ ep'[s].has_transfer = ep[s].has_transfer
                           /\ \A t \in Slots \ {s} : ep'[t] = ep[t] /\ who'[t] = who[t]
    BY <2>1, OpenBeginEffect DEF PipeInv, OutcomeInv
  <2>3. ~ep[s].has_transfer
    BY <2>2 DEF PipeInv, OutcomeInv, Free
  <2>4. Busy' = Busy
    BY <2>2, <2>3, BusyKept
  <2> QED BY <1>1, <2>4, PipeSteps
<1>3. CASE OpenEnd \/ AbortMark \/ SlotStart
  <2>1. \A t \in Slots : ep'[t].size = ep[t].size /\ ep'[t].has_transfer = ep[t].has_transfer
    BY <1>3, OpenEndEffect, AbortMarkEffect, SlotStartEffect DEF PipeInv, OutcomeInv, Same
  <2>2. who' = who
    BY <1>3 DEF OpenEnd, AbortMark, SlotStart
  <2>3. Busy' = Busy
    BY <2>1, <2>2, BusyKept
  <2> QED BY <1>1, <2>3, PipeSteps
<1>4. CASE UNCHANGED <<ep, who>>
  <2>1. Busy' = Busy
    BY <1>4, BusyKept
  <2> QED BY <1>1, <2>1, PipeSteps
<1> QED BY <1>2, <1>3, <1>4 DEF FrameBegin, SlotVisit, PortCheck, FrameEnd, TakeEvent,
           pio_usb_host_port_reset_end, AbortRead, AbortBegin, Plug, Unplug, vars

(* Every step of the host is a step of the pipes, or none.                  *)
LEMMA NextPipes == ASSUME PipeInv, PipeInv', [Next]_vars PROVE Pipe!Next \/ UNCHANGED Pipe!vars
<1>1. CASE Frame
  <2>1. CASE FrameBegin /\ Disconnect
    <3>1. UNCHANGED <<who, sent, got>>
      BY <2>1 DEF FrameBegin
    <3> QED BY <2>1, <3>1, AllPipes
  <2> QED BY <1>1, <2>1, QuietPipes, TransactionPipes DEF Frame
<1>2. CASE AbortEnd
  <2>1. UNCHANGED <<who, sent, got>> /\ task.op = "aborted"
    BY <1>2 DEF AbortEnd, TaskIs
  <2>2. ep[task.slot].size > 0
    BY <2>1 DEF PipeInv, OutcomeInv, CallOpen
  <2> QED BY <1>2, <2>1, <2>2, AbortEndEffect, EndPipes, HostTypes DEF PipeInv, OutcomeInv
<1>3. CASE CloseSlot
  <2> DEFINE s == task.slot
  <2>1. UNCHANGED <<who, sent, got>>
    BY <1>3 DEF CloseSlot
  <2>2. /\ s \in Slots /\ \A t \in Slots \ {s} : ep'[t] = ep[t]
        /\ ep'[s].size = 0 /\ ep'[s].has_transfer = (ep[s].has_transfer /\ ep[s].size = 0)
    BY <1>3, CloseSlotEffect DEF PipeInv, OutcomeInv
  <2>3. ~ep'[s].has_transfer /\ ep[s].size \in {0, MAX_SIZE}
    BY <2>2, HostTypes DEF PipeInv, OutcomeInv, Free
  <2> HIDE DEF s
  <2>4. CASE ep[s].size > 0
    BY <2>1, <2>2, <2>3, <2>4, EndPipes
  <2>5. CASE ~(ep[s].size > 0)
    <3>1. Busy' = Busy
      BY <2>1, <2>2, <2>3, <2>5, BusyKept
    <3> QED BY <2>1, <3>1, PipeSteps
  <2> QED BY <2>4, <2>5
<1>4. CASE Ongoing
  BY <1>2, <1>3, <1>4, QuietPipes DEF Ongoing
<1>5. CASE Enumerated
  BY <1>5, AllPipes
<1>6. CASE Asked
  BY <1>6, QuietPipes, TransferPipes DEF Asked
<1> QED BY <1>1, <1>4, <1>5, <1>6, QuietPipes DEF Next, Task

(* Where interrupt and task share a core and a device comes back no sooner  *)
(* than a frame after it was pulled, the controller implements the pipes,   *)
(* for every pool and every device: every packet is taken once and in       *)
(* order, whatever is lost, repeated, aborted or pulled.                    *)
THEOREM PipeTheorem == ASSUME OneCore, ~FastReplug PROVE Spec => ImplementsPipe
<1>1. Init => PipeInv /\ Pipe!Init
  <2> SUFFICES ASSUME Init PROVE PipeInv /\ Pipe!Init
    OBVIOUS
  <2>1. \A n \in Names : ~BusyAt(n)
    BY DEF Init, FreeEndpoint, BusyAt, Open
  <2>2. Busy = [n \in Names |-> FALSE]
    BY <2>1 DEF Busy, BusyAt
  <2>3. got = [n \in Names |-> 0] /\ sent = [n \in Names |-> 0]
    BY DEF Init
  <2> QED BY <2>2, <2>3, PipeInit, PipeSteps
<1>2. PipeInv /\ [Next]_vars => PipeInv'
  BY PipeStep
<1>3. PipeInv /\ PipeInv' /\ [Next]_vars => [Pipe!Next]_(Pipe!vars)
  BY NextPipes
<1> QED BY <1>1, <1>2, <1>3, PTL DEF Spec, ImplementsPipe, Pipe!Spec
==============================================================================
