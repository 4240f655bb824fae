-------------------------- MODULE UsbControl_proofs --------------------------
(* Control transfers, for every size of endpoint 0, every length of the     *)
(* data stage and every number of requests: as long as no call times out,   *)
(* the pipe is at rest between calls, a call that returns 0 has had its     *)
(* request executed, and a call that fails has lost a packet.               *)
EXTENDS UsbControl, TLAPS

PipeType == [operation : {"NONE", "IN", "OUT", "COMPLETE", "ERROR"},
             stage : {"SETUP", "IN", "OUT", "STATUS"}, req : Requested]

(* All that the argument needs to know of a slot.                           *)
Slot(e) == "has_transfer" \in DOMAIN e /\ e.has_transfer \in BOOLEAN

(* The caller waits exactly as long as a transfer is in the pool or its end *)
(* is there to be read.                                                     *)
AtRest   == pipe.operation = "NONE" /\ pipe.stage = "SETUP" /\ ~ep.has_transfer
Prepared == pipe.operation = Operation(pipe.req) /\ pipe.stage = "SETUP" /\ ~ep.has_transfer
UnderWay == pipe.operation = Operation(pipe.req) /\ ep.has_transfer
Over     == pipe.operation \in {"COMPLETE", "ERROR"} /\ pipe.stage = "SETUP" /\ ~ep.has_transfer

InStep == /\ task # "timeout"
          /\ task = "idle" => AtRest
          /\ task \in {"setup", "start"} => Prepared
          /\ task = "wait" => UnderWay \/ Over

ControlInv == /\ Slot(ep) /\ pipe \in PipeType
              /\ task \in {"idle", "setup", "start", "wait", "timeout"}
              /\ late \in BOOLEAN
              /\ ~late => InStep

(* What a transaction may do to a request under way.                        *)
Carried == /\ Slot(ep') /\ pipe' \in PipeType
           /\ UnderWay => (UnderWay \/ Over)'

-----------------------------------------------------------------------------
(* The transfer functions.                                                  *)

(* A transfer that is started is in the slot.                               *)
LEMMA StartSlot == ASSUME NEW e, Slot(e), NEW data, NEW len
                   PROVE  Slot(TransferStart(e, data, len)) /\ TransferStart(e, data, len).has_transfer
<1> DEFINE fresh == [e EXCEPT !.app_buf = data, !.total_len = len, !.actual_len = 0,
                              !.transfer_started = FALSE, !.transfer_aborted = FALSE,
                              !.has_transfer = TRUE]
<1>1. Slot(fresh) /\ fresh.has_transfer = TRUE
  BY DEF Slot
<1>2. ASSUME NEW f, Slot(f) PROVE Slot(PrepareTx(f)) /\ PrepareTx(f).has_transfer = f.has_transfer
  BY <1>2 DEF Slot, PrepareTx
<1>3. TransferStart(e, data, len) = IF e.has_transfer THEN e ELSE IF e.is_tx THEN PrepareTx(fresh) ELSE fresh
  BY DEF TransferStart
<1>4. e.has_transfer \in BOOLEAN
  BY DEF Slot
<1> HIDE DEF fresh
<1> QED BY <1>1, <1>2, <1>3, <1>4

(* A transfer that is over is not.                                          *)
LEMMA CompleteSlot == ASSUME NEW e, Slot(e)
                      PROVE  Slot(TransferComplete(e)) /\ ~TransferComplete(e).has_transfer
BY DEF Slot, TransferComplete

(* A packet leaves the transfer in the slot or ends it.                     *)
LEMMA ContinueSlot == ASSUME NEW e, Slot(e), NEW len PROVE Slot(TransferContinue(e, len))
<1> DEFINE moved == [e EXCEPT !.actual_len = @ + len, !.data_id = Flip(@)]
<1>1. Slot(moved)
  BY DEF Slot
<1>2. Slot(TransferComplete(moved))
  BY <1>1, CompleteSlot
<1>3. Slot(PrepareTx(moved))
  <2> HIDE DEF moved
  <2> QED BY <1>1 DEF Slot, PrepareTx
<1>4. TransferContinue(e, len) = IF LastPacket(e, len) THEN TransferComplete(moved)
                                 ELSE IF e.is_tx THEN PrepareTx(moved) ELSE moved
  BY DEF TransferContinue
<1> HIDE DEF moved
<1> QED BY <1>1, <1>2, <1>3, <1>4

-----------------------------------------------------------------------------
(* The frame.                                                               *)

(* The next stage begins with a transfer of its own.                        *)
LEMMA StageCarried == ASSUME pipe \in PipeType, NEW e, Slot(e),
                             NEW stage \in {"SETUP", "IN", "OUT", "STATUS"}, NEW num, NEW data, NEW len,
                             Stage(e, stage, num, data, len)
                      PROVE  Carried
<1>1. pipe' = [pipe EXCEPT !.stage = stage]
  BY DEF Stage
<1>2. pipe' \in PipeType /\ pipe'.operation = pipe.operation /\ pipe'.req = pipe.req
  BY <1>1 DEF PipeType
<1> DEFINE f == [e EXCEPT !.data_id = 1, !.is_tx = (num = "out")]
<1>3. Slot(f)
  BY DEF Slot
<1>4. ep' = TransferStart(f, data, len)
  BY DEF Stage
<1> HIDE DEF f
<1>5. Slot(ep') /\ ep'.has_transfer
  BY <1>3, <1>4, StartSlot
<1> QED BY <1>2, <1>5 DEF Carried, UnderWay, Operation

(* The end of a stage: the next one, or the end of the request.             *)
LEMMA CompletedCarried == ASSUME pipe \in PipeType, NEW e, Slot(e), ~e.has_transfer, Completed(e)
                          PROVE  Carried
<1>1. ASSUME NEW num, Status(e, num) PROVE Carried
  BY <1>1, StageCarried DEF Status
<1>2. CASE pipe.stage = "SETUP" /\ pipe.operation = "IN"
  <2>1. Stage(e, "IN", "in", Data(pipe.req), pipe.req.len)
    BY <1>2 DEF Completed
  <2> QED BY <2>1, StageCarried
<1>3. CASE pipe.stage = "SETUP" /\ pipe.operation = "OUT"
  <2>1. Stage(e, "OUT", "out", Data(pipe.req), pipe.req.len) \/ Status(e, "in")
    BY <1>3 DEF Completed
  <2> QED BY <1>1, <2>1, StageCarried
<1>4. CASE pipe.stage = "SETUP" /\ pipe.operation \notin {"IN", "OUT"}
  <2>1. ep' = [e EXCEPT !.data_id = 1] /\ pipe' = pipe
    BY <1>4 DEF Completed
  <2>2. Slot(ep')
    BY <2>1 DEF Slot
  <2>3. ~UnderWay
    BY <1>4 DEF UnderWay, Operation
  <2> QED BY <2>1, <2>2, <2>3 DEF Carried
<1>5. CASE pipe.stage \in {"IN", "OUT"}
  <2>1. Status(e, "out") \/ Status(e, "in")
    BY <1>5 DEF Completed
  <2> QED BY <1>1, <2>1
<1>6. CASE pipe.stage = "STATUS"
  <2>1. /\ pipe' = [pipe EXCEPT !.stage = "SETUP", !.operation = "COMPLETE"]
        /\ ep' = [e EXCEPT !.data_id = 1]
    BY <1>6 DEF Completed
  <2>2. Slot(ep') /\ ~ep'.has_transfer
    BY <2>1 DEF Slot
  <2>3. pipe' \in PipeType /\ pipe'.operation = "COMPLETE" /\ pipe'.stage = "SETUP"
    BY <2>1 DEF PipeType
  <2> QED BY <2>2, <2>3 DEF Carried, Over
<1> QED BY <1>2, <1>3, <1>4, <1>5, <1>6 DEF PipeType

(* An error ends the request.                                               *)
LEMMA FailedCarried == ASSUME pipe \in PipeType, NEW e, Slot(e), ~e.has_transfer, Failed(e)
                       PROVE  Carried
<1>1. pipe' \in PipeType /\ pipe'.operation = "ERROR" /\ pipe'.stage = "SETUP" /\ ep' = e
  BY DEF Failed, PipeType
<1> QED BY <1>1 DEF Carried, Over

(* Whatever happens on the bus, a request under way stays so or is over.    *)
LEMMA FrameCarried == ASSUME ControlInv, Frame PROVE Carried /\ UNCHANGED <<task, late>>
<1>1. Slot(ep) /\ pipe \in PipeType /\ UNCHANGED <<task, late>>
  BY DEF ControlInv, Frame
<1>2. Slot(TransferComplete(ep)) /\ ~TransferComplete(ep).has_transfer
  BY <1>1, CompleteSlot
<1>3. ASSUME Again PROVE Carried
  <2>1. UNCHANGED <<ep, pipe>>
    BY <1>3 DEF Again
  <2> QED BY <1>1, <2>1 DEF Carried, UnderWay, Operation
<1>4. ASSUME Failed(TransferComplete(ep)) PROVE Carried
  BY <1>1, <1>2, <1>4, FailedCarried
<1>5. ASSUME NEW len, Continue(len) PROVE Carried
  <2> DEFINE e == TransferContinue(ep, len)
  <2>1. Slot(e)
    BY <1>1, ContinueSlot
  <2>2. IF e.has_transfer THEN ep' = e /\ UNCHANGED <<pipe, ep_num>> ELSE Completed(e)
    BY <1>5 DEF Continue
  <2> HIDE DEF e
  <2>3. CASE e.has_transfer
    BY <1>1, <2>1, <2>2, <2>3 DEF Carried, UnderWay, Operation
  <2>4. CASE ~e.has_transfer
    BY <1>1, <2>1, <2>2, <2>4, CompletedCarried
  <2> QED BY <2>3, <2>4
<1>6. ASSUME NEW pid, NEW bytes, Receive(pid, bytes) PROVE Carried
  BY <1>3, <1>5, <1>6 DEF Receive
<1>7. ASSUME NEW answered, Answer(answered) PROVE Carried
  BY <1>4, <1>5, <1>7 DEF Answer, Abandon
<1>8. ASSUME usb_setup_transaction PROVE Carried
  <2> DEFINE e == [ep EXCEPT !.data_id = 0, !.actual_len = 8]
  <2>1. Completed(TransferComplete(e)) \/ Failed(TransferComplete(e))
    BY <1>8 DEF usb_setup_transaction
  <2>2. Slot(e)
    BY <1>1 DEF Slot
  <2> HIDE DEF e
  <2>3. Slot(TransferComplete(e)) /\ ~TransferComplete(e).has_transfer
    BY <2>2, CompleteSlot
  <2> QED BY <1>1, <2>1, <2>3, CompletedCarried, FailedCarried
<1>9. ASSUME usb_in_transaction PROVE Carried
  <2>1. CASE InData
    BY <1>6, <2>1 DEF InData
  <2>2. CASE InStatus
    BY <1>6, <2>2 DEF InStatus
  <2>3. CASE Busy
    BY <1>3, <2>3 DEF Busy
  <2>4. CASE Unheard
    BY <1>4, <2>4 DEF Unheard, Abandon
  <2>5. CASE Failed(TransferComplete(ep))
    BY <1>4, <2>5
  <2> QED BY <1>9, <2>1, <2>2, <2>3, <2>4, <2>5 DEF usb_in_transaction, Stalled
<1>10. ASSUME usb_out_transaction PROVE Carried
  <2>1. CASE OutData
    BY <1>7, <2>1 DEF OutData
  <2>2. CASE OutStatus
    BY <1>7, <2>2 DEF OutStatus
  <2>3. CASE Busy
    BY <1>3, <2>3 DEF Busy
  <2>4. CASE Unheard
    BY <1>4, <2>4 DEF Unheard, Abandon
  <2>5. CASE Failed(TransferComplete(ep))
    BY <1>4, <2>5
  <2> QED BY <1>10, <2>1, <2>2, <2>3, <2>4, <2>5 DEF usb_out_transaction, Stalled
<1> QED BY <1>1, <1>8, <1>9, <1>10 DEF Frame

-----------------------------------------------------------------------------
(* The task.                                                                *)

(* At the start there is no request.                                        *)
LEMMA InitInv == Init => ControlInv
<1> SUFFICES ASSUME Init PROVE ControlInv
  OBVIOUS
<1>1. Slot(ep) /\ ~ep.has_transfer
  BY DEF Init, FreeEndpoint, Slot
<1>2. pipe \in PipeType /\ AtRest
  BY <1>1 DEF Init, PipeType, Requested, AtRest
<1> QED BY <1>1, <1>2 DEF Init, ControlInv, InStep

(* A frame interrupts the task wherever it is.                              *)
LEMMA FrameInv == ASSUME ControlInv, Frame PROVE ControlInv'
<1>1. Carried /\ UNCHANGED <<task, late>>
  BY FrameCarried
<1>2. ep.has_transfer
  BY DEF Frame
<1>3. ~late => task = "wait" /\ UnderWay
  BY <1>2 DEF ControlInv, InStep, AtRest, Prepared, Over
<1>4. ~late' => InStep'
  BY <1>1, <1>3 DEF Carried, InStep
<1> QED BY <1>1, <1>4 DEF ControlInv, Carried

(* A request is made of a pipe at rest.                                     *)
LEMMA BeginInv == ASSUME ControlInv, NEW r \in Requests, Begin(r) PROVE ControlInv'
<1>1. task = "idle" /\ UNCHANGED <<ep, late>>
  BY DEF Begin
<1>2. CASE pipe.operation = "NONE"
  <2>1. pipe' = [pipe EXCEPT !.operation = Operation(r), !.req = r] /\ task' = "setup"
    BY <1>2 DEF Begin
  <2>2. /\ pipe' \in PipeType /\ pipe'.operation = Operation(pipe'.req)
        /\ pipe'.stage = pipe.stage
    <3>1. Operation(r) \in {"IN", "OUT"} /\ r \in Requested
      BY DEF Operation, Requested
    <3> QED BY <2>1, <3>1 DEF ControlInv, PipeType
  <2> QED BY <1>1, <2>1, <2>2 DEF ControlInv, InStep, AtRest, Prepared
<1>3. CASE pipe.operation # "NONE"
  <2>1. UNCHANGED <<pipe, task>>
    BY <1>3 DEF Begin
  <2> QED BY <1>1, <1>3, <2>1 DEF ControlInv, InStep, AtRest
<1> QED BY <1>2, <1>3

(* The setup packet is put in the slot of endpoint 0.                       *)
LEMMA SetupInv == ASSUME ControlInv, SetupBegin \/ SetupStart PROVE ControlInv'
<1>1. CASE SetupBegin
  <2>1. /\ UNCHANGED <<pipe, late>> /\ task = "setup" /\ task' = "start"
        /\ ep' = [ep EXCEPT !.data_id = SETUP, !.is_tx = TRUE]
    BY <1>1 DEF SetupBegin
  <2>2. Slot(ep') /\ ep'.has_transfer = ep.has_transfer
    BY <2>1 DEF ControlInv, Slot
  <2>3. ~late => Prepared'
    BY <2>1, <2>2 DEF ControlInv, InStep, Prepared, Operation
  <2> QED BY <2>1, <2>2, <2>3 DEF ControlInv, InStep
<1>2. CASE SetupStart
  <2>1. /\ UNCHANGED <<pipe, late>> /\ task = "start" /\ task' = "wait"
        /\ ep' = TransferStart(ep, Setup(pipe.req), 8)
    BY <1>2 DEF SetupStart
  <2>2. Slot(ep') /\ ep'.has_transfer
    BY <2>1, StartSlot DEF ControlInv
  <2>3. ~late => UnderWay'
    BY <2>1, <2>2 DEF ControlInv, InStep, Prepared, UnderWay, Operation
  <2> QED BY <2>1, <2>2, <2>3 DEF ControlInv, InStep
<1> QED BY <1>1, <1>2

(* The call returns once the pipe has left the operation it was asked for.  *)
LEMMA ReturnInv == ASSUME ControlInv, Return \/ TimedOut PROVE ControlInv'
<1>1. /\ UNCHANGED <<ep, late>> /\ task' = "idle"
      /\ pipe' = [pipe EXCEPT !.operation = "NONE"]
  BY DEF Return, TimedOut
<1>2. pipe' \in PipeType /\ pipe'.operation = "NONE" /\ pipe'.stage = pipe.stage
  BY <1>1 DEF ControlInv, PipeType
<1>3. ~late => Over
  BY DEF Return, TimedOut, ControlInv, InStep, UnderWay
<1>4. ~late => AtRest'
  BY <1>1, <1>2, <1>3 DEF Over, AtRest
<1> QED BY <1>1, <1>2, <1>4 DEF ControlInv, InStep

(* Every step keeps the caller in step with the pipe.                       *)
LEMMA StepInv == ASSUME ControlInv, [Next]_vars PROVE ControlInv'
<1>1. CASE Timeout
  BY <1>1 DEF Timeout, ControlInv
<1>2. CASE UNCHANGED vars
  BY <1>2 DEF vars, ControlInv, InStep, AtRest, Prepared, UnderWay, Over, Operation
<1> QED BY <1>1, <1>2, FrameInv, BeginInv, SetupInv, ReturnInv DEF Next, Task, Done

(* The inductive invariant of the control pipe.                             *)
THEOREM ControlInvariant == Spec => []ControlInv
<1>1. Init => ControlInv
  BY InitInv
<1>2. ControlInv /\ [Next]_vars => ControlInv'
  BY StepInv
<1> QED BY <1>1, <1>2, PTL DEF Spec

(* Between calls the pipe is at rest, as long as none has timed out,        *)
(* whatever the bus loses, the device answers and the lengths are.          *)
THEOREM QuietTheorem == Spec => []QuietBetween
<1>1. ControlInv => QuietBetween
  BY DEF ControlInv, InStep, AtRest, QuietBetween, Returned
<1> QED BY <1>1, ControlInvariant, PTL

-----------------------------------------------------------------------------
(* Agreement: what caller, pipe, slot and device know of a request fits     *)
(* together at every stage of it.                                           *)

Packets == [what : {"setup", "data"}, of : Requested]
Ep == Endpoint({EP0_SIZE}, Nat, Packets)

(* A request that may be made.                                              *)
Legal(r) == r \in Requests /\ (r.dir = "in" => r.len > 0)

(* The device works on the request of the pipe, and has moved so many of    *)
(* its bytes.                                                               *)
Works(stage, pid, from) ==
    dev = [req |-> pipe.req, stage |-> stage, pid |-> pid,
           data |-> Bytes(pipe.req, 0, from), has |-> dev.has]

(* The length of the packet an IN transfer goes on with after so many bytes. *)
Size(from) == IF Total - from < EP0_SIZE THEN Total - from ELSE EP0_SIZE

(* Setup stage: the setup packet is in the buffer, nothing is read yet.     *)
AtSetup == /\ pipe.stage = "SETUP" /\ ep_num = "out" /\ ep.data_id = SETUP
           /\ ep.buffer.pid = 0 /\ ep.buffer.data = Setup(pipe.req)
           /\ rx_buffer = <<>>

(* IN stage: the device is at the byte the host is at, or behind by the one *)
(* packet whose confirmation it missed.                                     *)
AtIn == /\ pipe.stage = "IN" /\ pipe.req.dir = "in" /\ ep_num = "in"
        /\ ~ep.is_tx /\ ep.data_id \in Pids
        /\ ep.app_buf = Data(pipe.req) /\ ep.total_len = pipe.req.len
        /\ ep.actual_len < pipe.req.len
        /\ rx_buffer = Bytes(pipe.req, 0, ep.actual_len)
        /\ dev.has \in Nat
        /\ \E from \in 0 .. Total :
              \/ Works("data", ep.data_id, from) /\ from = ep.actual_len
              \/ /\ Works("data", 1 - ep.data_id, from)
                 /\ Size(from) = EP0_SIZE /\ ep.actual_len = from + EP0_SIZE

(* OUT stage: the device has taken what the host counts as sent.            *)
AtOut == /\ pipe.stage = "OUT" /\ pipe.req.dir = "out" /\ ep_num = "out"
         /\ ep.is_tx /\ ep.data_id \in Pids
         /\ ep.app_buf = Data(pipe.req) /\ ep.total_len = pipe.req.len
         /\ ep.actual_len < pipe.req.len
         /\ ep.buffer = [pid |-> ep.data_id, data |-> Data(pipe.req), from |-> ep.actual_len,
                         len |-> TransactionLen(ep)]
         /\ Works("data", ep.data_id, ep.actual_len)

(* Status stage: all that is to be moved is moved.                          *)
AtStatus == /\ pipe.stage = "STATUS" /\ ep.data_id = 1
            /\ ep.total_len = 0 /\ ep.actual_len = 0
            /\ dev.req = pipe.req
            /\ \/ /\ pipe.req.dir = "in" /\ ep_num = "out"
                  /\ ep.buffer.pid = 1 /\ ep.buffer.len = 0
                  /\ dev.stage \in {"data", "status"} /\ dev.has \in Nat
                  /\ rx_buffer = Bytes(pipe.req, 0, Total)
               \/ /\ pipe.req.dir = "out" /\ ep_num = "in"
                  /\ dev.stage = "status"
                  /\ dev.data = Bytes(pipe.req, 0, pipe.req.len)

(* The request has been executed with every byte in place.                  *)
Honest == /\ executed.req = pipe.req
          /\ executed.data = IF pipe.req.dir = "in" THEN rx_buffer
                             ELSE Bytes(pipe.req, 0, pipe.req.len)

(* The request in progress. *)
Going == /\ Legal(pipe.req)
         /\ ep.has_transfer => AtSetup \/ AtIn \/ AtOut \/ AtStatus
         /\ ~ep.has_transfer => IF pipe.operation = "COMPLETE" THEN Honest ELSE fault

Agreement ==
    /\ ep \in Ep
    /\ task = "idle" /\ pipe.req.id > 0 => IF res = 0 THEN Honest ELSE fault
    /\ task \in {"setup", "start"} => Legal(pipe.req) /\ rx_buffer = <<>>
    /\ task = "start" => ep_num = "out" /\ ep.data_id = SETUP /\ ep.is_tx
    /\ task = "wait" => Going

AgreedInv == ~late => Agreement

-----------------------------------------------------------------------------

(* The bytes of a request are a sequence of the length asked for.           *)
LEMMA BytesSeq == ASSUME NEW r, NEW from \in Nat, NEW n \in Nat
                  PROVE  /\ Bytes(r, from, n) \in Seq({r.id} \X Nat) /\ Len(Bytes(r, from, n)) = n
                         /\ \A i \in 1 .. n : Bytes(r, from, n)[i] = <<r.id, from + i>>
BY DEF Bytes

(* What arrives in packets, one after the other, is what was sent.          *)
LEMMA BytesJoin == ASSUME NEW r, NEW n \in Nat, NEW m \in Nat
                   PROVE  /\ Bytes(r, 0, n) \o Bytes(r, n, m) = Bytes(r, 0, n + m)
                          /\ SubSeq(Bytes(r, 0, n), 1, n) = Bytes(r, 0, n)
<1>1. Bytes(r, 0, n) \o Bytes(r, n, m) = Bytes(r, 0, n + m)
  BY SMT DEF Bytes
<1>2. SubSeq(Bytes(r, 0, n), 1, n) = Bytes(r, 0, n)
  BY DEF Bytes
<1> QED BY <1>1, <1>2

(* Nothing is moved yet.                                                    *)
LEMMA BytesNone == ASSUME NEW r PROVE <<>> = Bytes(r, 0, 0)
BY DEF Bytes
-----------------------------------------------------------------------------

(* What the caller puts into the slot.                                      *)
LEMMA PacketTypes == ASSUME NEW r \in Requested PROVE Data(r) \in Packets /\ Setup(r) \in Packets
BY DEF Data, Setup, Packets

(* Requests are numbered from 1, and what is not a request has number 0.    *)
LEMMA RequestTypes == /\ NoRequest = [id |-> 0, dir |-> "out", len |-> 0]
                      /\ NoRequest \in Requested
                      /\ \A r \in Requested : r.id \in Nat /\ r.len \in Nat /\ r.dir \in {"in", "out"}
                      /\ \A r \in Requests : r.id # 0
<1>1. ASSUME NEW r \in Requests
      PROVE  r.id \in Nat /\ r.id # 0 /\ r.len \in Nat /\ r.dir \in {"in", "out"}
  <2>1. r.id \in 1 .. MaxRequests /\ r.len \in Asks /\ r.dir \in {"in", "out"}
    BY DEF Requests
  <2>2. Asks \subseteq Nat /\ MaxRequests \in Nat
    BY ControlAssumption
  <2>3. r.len \in Nat
    BY <2>1, <2>2
  <2>4. \A i \in 1 .. MaxRequests : i \in Nat /\ i # 0
    BY <2>2
  <2> QED BY <2>1, <2>3, <2>4
<1>2. \A r \in Requests : r.id \in Nat /\ r.id # 0 /\ r.len \in Nat /\ r.dir \in {"in", "out"}
  BY <1>1
<1> QED BY <1>2 DEF Requested, NoRequest

(* The fields of the slot.                                                  *)
LEMMA EpTypes == ASSUME NEW e \in Ep
                 PROVE  /\ e.size = EP0_SIZE /\ e.is_tx \in BOOLEAN /\ e.data_id \in {0, 1, SETUP}
                        /\ e.has_transfer \in BOOLEAN /\ e.total_len \in Nat /\ e.actual_len \in Nat
                        /\ e.app_buf \in Packets
                        /\ e.buffer \in [pid : Pids, data : Packets, from : Nat, len : Nat]
BY DEF Ep, Endpoint

(* A transfer starts at its first byte; a tx transfer has its packet ready. *)
LEMMA StartFields ==
    ASSUME NEW e \in Ep, ~e.has_transfer, NEW data \in Packets, NEW len \in Nat,
           NEW f, f = TransferStart(e, data, len)
    PROVE  /\ f \in Ep /\ f.has_transfer /\ f.data_id = e.data_id /\ f.is_tx = e.is_tx
           /\ f.total_len = len /\ f.actual_len = 0 /\ f.app_buf = data
           /\ e.is_tx => f.buffer = [pid |-> DataPid(e), data |-> data, from |-> 0,
                                     len |-> TransactionLen(f)]
<1> DEFINE fresh == [e EXCEPT !.app_buf = data, !.total_len = len, !.actual_len = 0,
                              !.transfer_started = FALSE, !.transfer_aborted = FALSE,
                              !.has_transfer = TRUE]
<1>1. /\ fresh \in Ep /\ fresh.has_transfer /\ fresh.data_id = e.data_id /\ fresh.is_tx = e.is_tx
      /\ fresh.total_len = len /\ fresh.actual_len = 0 /\ fresh.app_buf = data
      /\ fresh.size = EP0_SIZE
  BY DEF Ep, Endpoint
<1>2. f = IF e.is_tx THEN PrepareTx(fresh) ELSE fresh
  BY DEF TransferStart
<1> HIDE DEF fresh
<1> DEFINE b == [pid |-> DataPid(e), data |-> data, from |-> 0, len |-> TransactionLen(fresh)]
<1>3. PrepareTx(fresh) = [fresh EXCEPT !.buffer = b]
  BY <1>1 DEF PrepareTx, DataPid
<1>4. TransactionLen(fresh) \in Nat
  BY <1>1, ControlAssumption DEF TransactionLen
<1>5. b \in [pid : Pids, data : Packets, from : Nat, len : Nat]
  BY <1>4 DEF DataPid, Pids
<1> HIDE DEF b
<1>6. e.is_tx \in BOOLEAN
  BY EpTypes
<1>7. CASE ~e.is_tx
  BY <1>1, <1>2, <1>7
<1>8. CASE e.is_tx
  <2>1. f = [fresh EXCEPT !.buffer = b]
    BY <1>2, <1>3, <1>8
  <2>2. /\ f \in Ep /\ f.has_transfer /\ f.data_id = e.data_id /\ f.is_tx = e.is_tx
        /\ f.total_len = len /\ f.actual_len = 0 /\ f.app_buf = data /\ f.buffer = b /\ f.size = EP0_SIZE
    BY <1>1, <1>5, <2>1 DEF Ep, Endpoint
  <2>3. TransactionLen(f) = TransactionLen(fresh)
    BY <1>1, <2>2 DEF TransactionLen
  <2> QED BY <2>2, <2>3 DEF b
<1> QED BY <1>6, <1>7, <1>8

(* A transfer that is over keeps the rest of the slot.                      *)
LEMMA CompleteFields ==
    ASSUME NEW e \in Ep, NEW f, f = TransferComplete(e)
    PROVE  f \in Ep /\ ~f.has_transfer
BY DEF TransferComplete, Ep, Endpoint

(* What a packet does to the slot of a transfer. *)
Continued(e, len, f) ==
    /\ f \in Ep
    /\ f.has_transfer <=> ~LastPacket(e, len)
    /\ f.has_transfer =>
         /\ f.data_id = 1 - e.data_id /\ (f.is_tx <=> e.is_tx)
         /\ f.total_len = e.total_len /\ f.actual_len = e.actual_len + len /\ f.app_buf = e.app_buf
         /\ f.is_tx => f.buffer = [pid |-> f.data_id, data |-> f.app_buf, from |-> f.actual_len,
                                   len |-> TransactionLen(f)]

(* A packet that is not the last moves the count on and flips the toggle.   *)
LEMMA ContinueFields ==
    ASSUME NEW e \in Ep, e.has_transfer, e.data_id \in Pids, NEW len \in Nat
    PROVE  Continued(e, len, TransferContinue(e, len))
<1> DEFINE f == TransferContinue(e, len)
<1> SUFFICES Continued(e, len, f)
  OBVIOUS
<1> DEFINE moved == [e EXCEPT !.actual_len = @ + len, !.data_id = Flip(@)]
<1>0. e.data_id \in {0, 1} /\ Flip(e.data_id) = 1 - e.data_id /\ 1 - e.data_id \in {0, 1}
  BY DEF Pids, Flip
<1>1. /\ moved \in Ep /\ moved.has_transfer /\ moved.data_id = 1 - e.data_id /\ moved.is_tx = e.is_tx
      /\ moved.total_len = e.total_len /\ moved.actual_len = e.actual_len + len /\ moved.app_buf = e.app_buf
      /\ moved.size = EP0_SIZE
  <2>1. moved = [e EXCEPT !.actual_len = e.actual_len + len, !.data_id = 1 - e.data_id]
    BY <1>0
  <2>2. e.actual_len + len \in Nat /\ 1 - e.data_id \in {0, 1, SETUP}
    BY <1>0, EpTypes
  <2> HIDE DEF moved
  <2> QED BY <2>1, <2>2 DEF Ep, Endpoint
<1>2. f = IF LastPacket(e, len) THEN TransferComplete(moved)
          ELSE IF e.is_tx THEN PrepareTx(moved) ELSE moved
  BY DEF TransferContinue
<1> HIDE DEF moved, f
<1>3. CASE LastPacket(e, len)
  BY <1>1, <1>2, <1>3, CompleteFields DEF Continued
<1>4. CASE ~LastPacket(e, len) /\ ~e.is_tx
  BY <1>0, <1>1, <1>2, <1>4 DEF Continued
<1>5. CASE ~LastPacket(e, len) /\ e.is_tx
  <2> DEFINE b == [pid |-> moved.data_id, data |-> moved.app_buf, from |-> moved.actual_len,
                   len |-> TransactionLen(moved)]
  <2>1. f = [moved EXCEPT !.buffer = b]
    BY <1>0, <1>1, <1>2, <1>5 DEF PrepareTx, DataPid
  <2>2. TransactionLen(moved) \in Nat
    BY <1>1, <1>5, EpTypes, ControlAssumption DEF TransactionLen, LastPacket
  <2>3. b \in [pid : Pids, data : Packets, from : Nat, len : Nat]
    BY <1>0, <1>1, <2>2, EpTypes DEF Pids
  <2>4. b = [pid |-> moved.data_id, data |-> moved.app_buf, from |-> moved.actual_len,
             len |-> TransactionLen(moved)]
    OBVIOUS
  <2> HIDE DEF b
  <2>5. /\ f \in Ep /\ f.has_transfer /\ f.data_id = moved.data_id /\ f.is_tx = e.is_tx
        /\ f.total_len = moved.total_len /\ f.actual_len = moved.actual_len
        /\ f.app_buf = moved.app_buf /\ f.buffer = b /\ f.size = moved.size
    BY <1>1, <2>1, <2>3 DEF Ep, Endpoint
  <2>6. TransactionLen(f) = TransactionLen(moved)
    BY <2>5 DEF TransactionLen
  <2> QED BY <1>0, <1>1, <1>5, <2>4, <2>5, <2>6 DEF Continued
<1> QED BY <1>3, <1>4, <1>5

-----------------------------------------------------------------------------
(* A request is under way and caller, pipe and device agree about it.       *)
Running == /\ ep \in Ep /\ pipe \in PipeType /\ Legal(pipe.req)
           /\ ep.has_transfer /\ pipe.operation = Operation(pipe.req)
           /\ AtSetup \/ AtIn \/ AtOut \/ AtStatus

Goes == Going' /\ ep' \in Ep

(* The fields of the request in progress.                                   *)
LEMMA LegalRequest == ASSUME Legal(pipe.req)
                      PROVE  /\ pipe.req \in Requested /\ pipe.req.id \in Nat /\ pipe.req.id # 0
                             /\ pipe.req.len \in Nat /\ pipe.req.dir \in {"in", "out"}
                             /\ pipe.req.dir = "in" => pipe.req.len > 0
<1>1. pipe.req \in Requests /\ (pipe.req.dir = "in" => pipe.req.len > 0)
  BY DEF Legal
<1>2. pipe.req \in Requested
  BY <1>1 DEF Requested
<1> QED BY <1>1, <1>2, RequestTypes

(* A stage has begun with a transfer of so many bytes of data.              *)
StageBegun(stage, num, data, len) ==
    /\ ep' \in Ep /\ ep'.has_transfer /\ ep'.data_id = 1 /\ (ep'.is_tx <=> num = "out")
    /\ ep'.total_len = len /\ ep'.actual_len = 0 /\ ep'.app_buf = data
    /\ ep_num' = num /\ pipe'.stage = stage /\ pipe'.req = pipe.req
    /\ pipe'.operation = pipe.operation
    /\ num = "out" => ep'.buffer = [pid |-> 1, data |-> data, from |-> 0, len |-> TransactionLen(ep')]

(* A stage starts with DATA1 and a transfer of its own.                     *)
LEMMA StageFields ==
    ASSUME NEW e \in Ep, ~e.has_transfer, pipe \in PipeType, NEW stage, NEW num \in {"in", "out"},
           NEW data \in Packets, NEW len \in Nat, Stage(e, stage, num, data, len)
    PROVE  StageBegun(stage, num, data, len)
<1> DEFINE f == [e EXCEPT !.data_id = 1, !.is_tx = (num = "out")]
<1>1. f \in Ep /\ ~f.has_transfer /\ f.data_id = 1 /\ (f.is_tx <=> num = "out")
  BY DEF Ep, Endpoint
<1>2. ep' = TransferStart(f, data, len) /\ ep_num' = num /\ pipe' = [pipe EXCEPT !.stage = stage]
  BY DEF Stage
<1>3. pipe'.stage = stage /\ pipe'.req = pipe.req /\ pipe'.operation = pipe.operation
  BY <1>2 DEF PipeType
<1> HIDE DEF f
<1>4. DataPid(f) = 1
  BY <1>1 DEF DataPid
<1>5. /\ ep' \in Ep /\ ep'.has_transfer /\ ep'.data_id = f.data_id /\ ep'.is_tx = f.is_tx
      /\ ep'.total_len = len /\ ep'.actual_len = 0 /\ ep'.app_buf = data
      /\ f.is_tx => ep'.buffer = [pid |-> DataPid(f), data |-> data, from |-> 0,
                                  len |-> TransactionLen(ep')]
  BY <1>1, <1>2, StartFields
<1> QED BY <1>1, <1>2, <1>3, <1>4, <1>5 DEF StageBegun

(* A request that failed has a fault to show for it.                        *)
LEMMA FailedGoes == ASSUME Running, NEW e \in Ep, ~e.has_transfer, Failed(e), fault' = TRUE
                    PROVE  Goes
<1>1. pipe'.operation = "ERROR" /\ pipe'.req = pipe.req /\ ep' = e
  BY DEF Failed, Running, PipeType
<1>2. Legal(pipe.req)'
  BY <1>1 DEF Running, Legal
<1> QED BY <1>1, <1>2 DEF Goes, Going

(* A NAK or a repeated packet the device did not confirm changes nothing.   *)
LEMMA AgainGoes == ASSUME Running, Again, UNCHANGED <<dev, rx_buffer>> PROVE Goes
<1>1. UNCHANGED <<ep, ep_num, pipe, dev, rx_buffer>>
  BY DEF Again
<1>2. (AtSetup \/ AtIn \/ AtOut \/ AtStatus)'
  BY <1>1 DEF Running, AtSetup, AtIn, AtOut, AtStatus, Works, Size, Total
<1> QED BY <1>1, <1>2 DEF Goes, Going, Running, Legal

(* The status stage ends a request that is executed.                        *)
LEMMA EndGoes == ASSUME Running, pipe.stage = "STATUS", NEW e \in Ep, ~e.has_transfer, Completed(e), Honest'
                 PROVE  Goes
<1>1. pipe'.operation = "COMPLETE" /\ pipe'.req = pipe.req /\ ep' = [e EXCEPT !.data_id = 1]
  BY DEF Completed, Running, PipeType
<1>2. ep' \in Ep /\ ~ep'.has_transfer
  BY <1>1 DEF Ep, Endpoint
<1>3. Legal(pipe.req)'
  BY <1>1 DEF Running, Legal
<1> QED BY <1>1, <1>2, <1>3 DEF Goes, Going

(* The status stage: an empty packet the other way.                         *)
LEMMA StatusFields == ASSUME Running, NEW e \in Ep, ~e.has_transfer, NEW num \in {"in", "out"}, Status(e, num)
                      PROVE  /\ ep' \in Ep /\ ep'.has_transfer /\ ep'.data_id = 1
                             /\ ep'.total_len = 0 /\ ep'.actual_len = 0
                             /\ ep_num' = num /\ pipe'.stage = "STATUS" /\ pipe'.req = pipe.req
                             /\ num = "out" => ep'.buffer.pid = 1 /\ ep'.buffer.len = 0
<1>1. Data(NoRequest) \in Packets
  BY PacketTypes, RequestTypes
<1>2. PICK len \in Nat : len = 0
  OBVIOUS
<1>3. Stage(e, "STATUS", num, Data(NoRequest), len) /\ pipe \in PipeType
  BY <1>2 DEF Status, Running
<1>4. StageBegun("STATUS", num, Data(NoRequest), len)
  BY <1>1, <1>3, StageFields
<1>5. ep'.size = EP0_SIZE
  BY <1>4, EpTypes DEF StageBegun
<1>6. TransactionLen(ep') = 0
  BY <1>2, <1>4, <1>5, ControlAssumption DEF TransactionLen, StageBegun
<1> QED BY <1>2, <1>4, <1>6 DEF StageBegun

(* A setup packet the device takes begins its request and the next stage;   *)
(* one whose answer is lost fails the request.                              *)
LEMMA SetupGoes == ASSUME Running, usb_setup_transaction PROVE Goes
<1>1. AtSetup
  <2>1. ep.data_id = SETUP /\ SETUP = 45
    BY DEF usb_setup_transaction, SETUP
  <2> QED BY <2>1 DEF Running, AtIn, AtOut, AtStatus, Pids
<1> DEFINE e == TransferComplete([ep EXCEPT !.data_id = 0, !.actual_len = 8])
<1>2. e \in Ep /\ ~e.has_transfer
  <2>1. [ep EXCEPT !.data_id = 0, !.actual_len = 8] \in Ep
    BY DEF Running, Ep, Endpoint
  <2> QED BY <2>1, CompleteFields
<1>3. \/ /\ \E has \in Has :
              dev' = [req |-> pipe.req, pid |-> 1, data |-> <<>>, has |-> has,
                      stage |-> IF pipe.req.len = 0 THEN "status" ELSE "data"]
         /\ Completed(e) /\ UNCHANGED rx_buffer
      \/ Failed(e) /\ fault' = TRUE
  BY <1>1 DEF usb_setup_transaction, AtSetup, Setup
<1> HIDE DEF e
<1>4. CASE Failed(e) /\ fault' = TRUE
  BY <1>2, <1>4, FailedGoes
<1>5. ASSUME NEW has \in Has,
             dev' = [req |-> pipe.req, pid |-> 1, data |-> <<>>, has |-> has,
                     stage |-> IF pipe.req.len = 0 THEN "status" ELSE "data"],
             Completed(e), UNCHANGED rx_buffer
      PROVE  Goes
  <2> DEFINE r == pipe.req
  <2>1. /\ r \in Requested /\ r.len \in Nat /\ r.dir \in {"in", "out"}
        /\ r.dir = "in" => r.len > 0
    BY LegalRequest DEF Running
  <2>2. Data(r) \in Packets /\ has \in Nat /\ pipe \in PipeType
    BY <2>1, PacketTypes, ControlAssumption DEF Running
  <2>3. <<>> = Bytes(r, 0, 0)
    BY BytesNone
  <2>4. pipe.stage = "SETUP" /\ pipe.operation = Operation(r) /\ rx_buffer' = <<>>
    BY <1>1, <1>5 DEF AtSetup, Running
  <2>5. CASE r.dir = "in"
    <3>1. Stage(e, "IN", "in", Data(r), r.len)
      BY <1>5, <2>4, <2>5 DEF Completed, Operation
    <3>2. /\ ep' \in Ep /\ ep'.has_transfer /\ ep'.data_id = 1 /\ ~ep'.is_tx
          /\ ep'.total_len = r.len /\ ep'.actual_len = 0 /\ ep'.app_buf = Data(r)
          /\ ep_num' = "in" /\ pipe'.stage = "IN" /\ pipe'.req = r
      <4>1. StageBegun("IN", "in", Data(r), r.len)
        BY <1>2, <2>1, <2>2, <3>1, StageFields
      <4> QED BY <4>1 DEF StageBegun
    <3>3. dev' = [req |-> r, stage |-> "data", pid |-> 1, data |-> Bytes(r, 0, 0), has |-> has]
      BY <1>5, <2>1, <2>3, <2>5
    <3>4. 0 \in 0 .. Total'
      BY <2>1, <2>2, <3>3 DEF Total
    <3>5. Works("data", ep.data_id, 0)'
      BY <3>2, <3>3 DEF Works
    <3>6. AtIn'
      BY <2>1, <2>2, <2>3, <2>4, <2>5, <3>2, <3>3, <3>4, <3>5 DEF AtIn, Pids
    <3> QED BY <3>2, <3>6 DEF Goes, Going, Running, Legal
  <2>6. CASE r.dir = "out" /\ r.len > 0
    <3>1. Stage(e, "OUT", "out", Data(r), r.len)
      BY <1>5, <2>4, <2>6 DEF Completed, Operation
    <3>2. /\ ep' \in Ep /\ ep'.has_transfer /\ ep'.data_id = 1 /\ ep'.is_tx
          /\ ep'.total_len = r.len /\ ep'.actual_len = 0 /\ ep'.app_buf = Data(r)
          /\ ep_num' = "out" /\ pipe'.stage = "OUT" /\ pipe'.req = r
          /\ ep'.buffer = [pid |-> 1, data |-> Data(r), from |-> 0, len |-> TransactionLen(ep')]
      <4>1. StageBegun("OUT", "out", Data(r), r.len)
        BY <1>2, <2>1, <2>2, <3>1, StageFields
      <4> QED BY <4>1 DEF StageBegun
    <3>3. dev' = [req |-> r, stage |-> "data", pid |-> 1, data |-> Bytes(r, 0, 0), has |-> has]
      BY <1>5, <2>1, <2>3, <2>6
    <3>4. Works("data", ep.data_id, ep.actual_len)'
      BY <3>2, <3>3 DEF Works
    <3>5. TransactionLen(ep)' = TransactionLen(ep')
      BY DEF TransactionLen
    <3>6. AtOut'
      BY <2>6, <3>2, <3>4, <3>5 DEF AtOut, Pids
    <3> QED BY <3>2, <3>6 DEF Goes, Going, Running, Legal
  <2>7. CASE r.dir = "out" /\ r.len = 0
    <3>1. Status(e, "in")
      BY <1>5, <2>4, <2>7 DEF Completed, Operation
    <3>2. /\ ep' \in Ep /\ ep'.has_transfer /\ ep'.data_id = 1
          /\ ep'.total_len = 0 /\ ep'.actual_len = 0
          /\ ep_num' = "in" /\ pipe'.stage = "STATUS" /\ pipe'.req = r
      BY <1>2, <3>1, StatusFields
    <3>3. AtStatus'
      BY <1>5, <2>3, <2>7, <3>2 DEF AtStatus
    <3> QED BY <3>2, <3>3 DEF Goes, Going, Running, Legal
  <2> QED BY <2>1, <2>5, <2>6, <2>7
<1> QED BY <1>3, <1>4, <1>5

(* The host takes a packet once: if the device misses its confirmation it   *)
(* sends it again with the identifier the host no longer expects.           *)
LEMMA InDataGoes == ASSUME Running, ep_num = "in", InData PROVE Goes
<1> DEFINE r == pipe.req
<1>1. /\ r \in Requested /\ r.id \in Nat /\ r.id # 0
      /\ r.len \in Nat /\ r.dir \in {"in", "out"} /\ (r.dir = "in" => r.len > 0)
  BY LegalRequest DEF Running
<1>2. AtIn
  BY DEF Running, AtSetup, AtOut, AtStatus, InData
<1>3. /\ ep \in Ep /\ ep.size = EP0_SIZE /\ ep.actual_len \in Nat /\ ep.data_id \in {0, 1} /\ ep.has_transfer
      /\ EP0_SIZE \in Nat /\ EP0_SIZE >= 8
  BY <1>2, EpTypes, ControlAssumption DEF Running, AtIn, Pids
<1>4. PICK from \in 0 .. Total :
        \/ Works("data", ep.data_id, from) /\ from = ep.actual_len
        \/ /\ Works("data", 1 - ep.data_id, from)
           /\ Size(from) = EP0_SIZE /\ ep.actual_len = from + EP0_SIZE
  BY <1>2 DEF AtIn
<1>5. PICK has \in Nat : has = dev.has
  BY <1>2 DEF AtIn
<1>6. PICK total \in Nat : total = Total /\ total = (IF has < r.len THEN has ELSE r.len) /\ total <= r.len
  <2>1. dev.req = r
    BY <1>4 DEF Works
  <2> QED BY <1>1, <1>5, <2>1 DEF Total
<1>7. PICK pid \in {0, 1} :
        /\ dev = [req |-> r, stage |-> "data", pid |-> pid, data |-> Bytes(r, 0, from), has |-> has]
        /\ \/ pid = ep.data_id /\ from = ep.actual_len
           \/ pid = 1 - ep.data_id /\ Size(from) = EP0_SIZE /\ ep.actual_len = from + EP0_SIZE
  BY <1>3, <1>4, <1>5 DEF Works
<1>8. from \in Nat /\ from <= total
  BY <1>6
<1>9. PICK len \in Nat : /\ len = Size(from) /\ len <= EP0_SIZE /\ from + len <= total
                         /\ len < EP0_SIZE => from + len = total
  BY <1>3, <1>6, <1>8 DEF Size
<1>10. Len(dev.data) = from
  BY <1>7, <1>8, BytesSeq
<1>11. PICK bytes : bytes = Bytes(r, from, len) /\ Len(bytes) = len
  <2>1. Len(Bytes(r, from, len)) = len
    BY <1>8, BytesSeq
  <2> QED BY <2>1
<1>12. /\ Receive(pid, bytes)
       /\ \E confirmed \in BOOLEAN :
             dev' = IF confirmed
                    THEN [dev EXCEPT !.data = @ \o bytes, !.pid = 1 - @,
                                     !.stage = IF len < EP0_SIZE \/ from + len = r.len
                                               THEN "status" ELSE @]
                    ELSE dev
  <2>1. dev.req = r /\ dev.pid = pid
    BY <1>7
  <2>2. len = IF Total - from < EP0_SIZE THEN Total - from ELSE EP0_SIZE
    BY <1>9 DEF Size
  <2> HIDE DEF r
  <2> QED BY <1>10, <1>11, <2>1, <2>2 DEF InData
<1>13. Bytes(r, 0, from) \o bytes = Bytes(r, 0, from + len)
  BY <1>8, <1>11, BytesJoin
<1>14. \/ dev' = dev
       \/ dev' = [req |-> r, pid |-> 1 - pid, data |-> Bytes(r, 0, from + len), has |-> has,
                  stage |-> IF len < EP0_SIZE \/ from + len = r.len THEN "status" ELSE "data"]
  BY <1>7, <1>12, <1>13
<1>15. DataPid(ep) = ep.data_id
  BY <1>3 DEF DataPid
<1>16. Total' = total /\ dev'.has = has /\ dev'.req = r /\ dev'.stage \in {"data", "status"}
  <2>1. dev'.has = has /\ dev'.req = r /\ dev'.stage \in {"data", "status"}
    BY <1>7, <1>14
  <2> QED BY <1>6, <2>1 DEF Total
<1>17. CASE pid # ep.data_id
  <2>1. UNCHANGED <<ep, ep_num, pipe, rx_buffer>>
    BY <1>12, <1>15, <1>17 DEF Receive, Again
  <2>2. /\ pid = 1 - ep.data_id /\ len = EP0_SIZE /\ ep.actual_len = from + len
        /\ from + len < r.len
    BY <1>3, <1>7, <1>9, <1>17, <1>2 DEF AtIn
  <2>3. CASE dev' = dev
    BY <2>1, <2>3, AgainGoes DEF Again
  <2>4. CASE dev' # dev
    <3>1. dev' = [req |-> r, stage |-> "data", pid |-> ep.data_id, data |-> Bytes(r, 0, from + len), has |-> has]
      BY <1>1, <1>3, <1>8, <1>14, <2>2, <2>4
    <3>2. Works("data", ep.data_id, from + len)' /\ from + len = ep'.actual_len
      BY <2>1, <2>2, <3>1 DEF Works
    <3>3. from + len \in 0 .. Total'
      BY <1>8, <1>9, <1>16
    <3>4. AtIn'
      BY <1>2, <1>16, <2>1, <3>2, <3>3 DEF AtIn
    <3> QED BY <2>1, <3>4 DEF Goes, Going, Running, Legal
  <2> QED BY <2>3, <2>4
<1>18. CASE pid = ep.data_id
  <2>1. from = ep.actual_len
    BY <1>3, <1>7, <1>18
  <2>2. rx_buffer' = Bytes(r, 0, from + len)
    <3>1. rx_buffer' = SubSeq(rx_buffer, 1, ep.actual_len) \o bytes
      BY <1>2, <1>12, <1>15, <1>18 DEF Receive, AtIn
    <3>2. rx_buffer = Bytes(r, 0, from) /\ SubSeq(rx_buffer, 1, from) = rx_buffer
      BY <1>2, <1>8, <2>1, BytesJoin DEF AtIn
    <3> QED BY <1>13, <2>1, <3>1, <3>2
  <2>3. PICK e : e = TransferContinue(ep, len)
    OBVIOUS
  <2>4. IF e.has_transfer THEN ep' = e /\ UNCHANGED <<pipe, ep_num>> ELSE Completed(e)
    BY <1>11, <1>12, <1>15, <1>18, <2>3 DEF Receive, Continue
  <2>5. /\ e \in Ep
        /\ e.has_transfer <=> ~LastPacket(ep, len)
        /\ e.has_transfer =>
             /\ e.data_id = 1 - ep.data_id /\ (e.is_tx <=> ep.is_tx)
             /\ e.total_len = ep.total_len /\ e.actual_len = ep.actual_len + len /\ e.app_buf = ep.app_buf
    <3>1. ep.data_id \in Pids
      BY <1>3 DEF Pids
    <3>2. Continued(ep, len, e)
      BY <1>3, <2>3, <3>1, ContinueFields
    <3> QED BY <3>2 DEF Continued
  <2>6. LastPacket(ep, len) <=> len < EP0_SIZE \/ from + len >= r.len
    BY <1>2, <1>3, <2>1 DEF LastPacket, AtIn
  <2>7. CASE ~LastPacket(ep, len)
    <3>1. /\ len = EP0_SIZE /\ from + len < r.len
          /\ ep' = e /\ UNCHANGED <<pipe, ep_num>>
      BY <1>1, <1>3, <1>8, <1>9, <2>4, <2>5, <2>6, <2>7
    <3>2. /\ ep' \in Ep /\ ep'.has_transfer /\ ep'.data_id = 1 - ep.data_id /\ ~ep'.is_tx
          /\ ep'.total_len = r.len /\ ep'.actual_len = from + len /\ ep'.app_buf = Data(r)
      BY <1>2, <2>1, <2>5, <2>7, <3>1 DEF AtIn
    <3>3. PICK now \in 0 .. Total' :
             \/ Works("data", ep.data_id, now)' /\ now = ep'.actual_len
             \/ /\ Works("data", 1 - ep.data_id, now)'
                /\ Size(now)' = EP0_SIZE /\ ep'.actual_len = now + EP0_SIZE
      <4>1. CASE dev' = dev
        <5>1. Works("data", 1 - ep.data_id, from)'
          BY <1>3, <1>7, <1>18, <3>1, <3>2, <4>1 DEF Works
        <5>2. Size(from)' = EP0_SIZE /\ ep'.actual_len = from + EP0_SIZE /\ from \in 0 .. Total'
          BY <1>6, <1>8, <1>9, <1>16, <3>1, <3>2 DEF Size
        <5> QED BY <5>1, <5>2
      <4>2. CASE dev' # dev
        <5>1. dev' = [req |-> r, stage |-> "data", pid |-> 1 - pid, data |-> Bytes(r, 0, from + len), has |-> has]
          BY <1>1, <1>3, <1>8, <1>14, <3>1, <4>2
        <5>2. Works("data", ep.data_id, from + len)'
          BY <1>3, <1>18, <3>1, <3>2, <5>1 DEF Works
        <5>3. from + len = ep'.actual_len /\ from + len \in 0 .. Total'
          BY <1>8, <1>9, <1>16, <3>2
        <5> QED BY <5>2, <5>3
      <4> QED BY <4>1, <4>2
    <3>4. 1 - ep.data_id \in Pids
      BY <1>3 DEF Pids
    <3>5. AtIn'
      BY <1>2, <1>16, <2>2, <3>1, <3>2, <3>3, <3>4 DEF AtIn
    <3> QED BY <3>1, <3>2, <3>5 DEF Goes, Going, Running, Legal
  <2>8. CASE LastPacket(ep, len)
    <3>1. Status(e, "out") /\ e \in Ep /\ ~e.has_transfer
      BY <1>2, <2>4, <2>5, <2>8 DEF Completed, AtIn
    <3>2. /\ ep' \in Ep /\ ep'.has_transfer /\ ep'.data_id = 1
          /\ ep'.total_len = 0 /\ ep'.actual_len = 0
          /\ ep_num' = "out" /\ pipe'.stage = "STATUS" /\ pipe'.req = r
          /\ ep'.buffer.pid = 1 /\ ep'.buffer.len = 0
      BY <3>1, StatusFields
    <3>3. from + len = total
      BY <1>1, <1>3, <1>6, <1>8, <1>9, <2>6, <2>8
    <3>4. AtStatus'
      BY <1>2, <1>16, <2>2, <3>2, <3>3 DEF AtStatus, AtIn
    <3> QED BY <3>2, <3>4 DEF Goes, Going, Running, Legal
  <2> QED BY <2>7, <2>8
<1> QED BY <1>17, <1>18

(* The device confirms an OUT request with all its bytes taken.             *)
LEMMA InStatusGoes == ASSUME Running, ep_num = "in", InStatus PROVE Goes
<1> DEFINE r == pipe.req
<1>1. AtStatus /\ r.dir = "out"
  BY DEF Running, AtSetup, AtIn, AtOut, AtStatus, InStatus, Works
<1>2. ep \in Ep /\ ep.has_transfer /\ ep.data_id \in Pids /\ DataPid(ep) = 1
  BY <1>1 DEF Running, AtStatus, DataPid, Pids
<1>3. PICK len \in Nat : len = 0
  OBVIOUS
<1>4. PICK e : e = TransferContinue(ep, len)
  OBVIOUS
<1>5. LastPacket(ep, len)
  BY <1>2, <1>3, EpTypes, ControlAssumption DEF LastPacket
<1>6. e \in Ep /\ ~e.has_transfer
  <2>1. Continued(ep, len, e)
    BY <1>2, <1>4, ContinueFields
  <2> QED BY <1>5, <2>1 DEF Continued
<1>7. Completed(e)
  <2>1. Len(<<>>) = len
    BY <1>3
  <2> QED BY <1>2, <1>4, <1>6, <2>1 DEF InStatus, Receive, Continue
<1>8. pipe'.req = r
  BY <1>1, <1>7 DEF Completed, AtStatus, Running, PipeType
<1>9. executed' = [req |-> r, data |-> Bytes(r, 0, r.len)]
  BY <1>1 DEF InStatus, Finish, AtStatus
<1>10. Honest'
  BY <1>1, <1>8, <1>9 DEF Honest
<1> QED BY <1>1, <1>6, <1>7, <1>10, EndGoes DEF AtStatus

(* An OUT packet the device took and the host saw confirmed moves both on.  *)
LEMMA OutDataGoes == ASSUME Running, ep_num = "out", ep.data_id # SETUP, OutData PROVE Goes
<1> DEFINE r == pipe.req
<1>1. /\ r \in Requested /\ r.id \in Nat /\ r.id # 0
      /\ r.len \in Nat /\ r.dir \in {"in", "out"}
  BY LegalRequest DEF Running
<1>2. AtOut
  BY DEF Running, AtSetup, AtIn, AtStatus, OutData
<1>3. /\ ep \in Ep /\ ep.size = EP0_SIZE /\ ep.actual_len \in Nat /\ ep.data_id \in {0, 1} /\ ep.has_transfer
      /\ EP0_SIZE \in Nat /\ EP0_SIZE >= 8
  BY <1>2, EpTypes, ControlAssumption DEF Running, AtOut, Pids
<1>4. PICK from \in Nat : from = ep.actual_len /\ from < r.len
  BY <1>2, <1>3 DEF AtOut
<1>5. PICK len \in Nat : /\ len = TransactionLen(ep) /\ len = ep.buffer.len /\ from + len <= r.len
                         /\ len < EP0_SIZE => from + len = r.len
  BY <1>1, <1>2, <1>3, <1>4 DEF TransactionLen, AtOut
<1>6. /\ ep.buffer.pid = ep.data_id /\ ep.buffer.data = Data(r) /\ ep.buffer.from = from
      /\ ep.buffer.data.of = r
  BY <1>2, <1>4 DEF AtOut, Data
<1>7. PICK has : dev = [req |-> r, stage |-> "data", pid |-> ep.data_id, data |-> Bytes(r, 0, from), has |-> has]
  BY <1>2, <1>4 DEF AtOut, Works
<1>8. Bytes(r, 0, from) \o Bytes(r, from, len) = Bytes(r, 0, from + len) /\ Len(Bytes(r, 0, from + len)) = from + len
  <2>1. Bytes(r, 0, from) \o Bytes(r, from, len) = Bytes(r, 0, from + len)
    BY BytesJoin
  <2>2. from + len \in Nat /\ 0 \in Nat
    OBVIOUS
  <2>3. Len(Bytes(r, 0, from + len)) = from + len
    BY <2>2, BytesSeq
  <2> QED BY <2>1, <2>3
<1>9. dev' = [req |-> r, pid |-> 1 - ep.data_id, data |-> Bytes(r, 0, from + len), has |-> has,
              stage |-> IF from + len >= r.len THEN "status" ELSE "data"]
  <2> DEFINE bytes == Bytes(ep.buffer.data.of, ep.buffer.from, ep.buffer.len)
             taken == IF ep.buffer.pid = dev.pid THEN dev.data \o bytes ELSE dev.data
  <2>1. dev' = [dev EXCEPT !.data = taken,
                           !.pid = IF ep.buffer.pid = @ THEN 1 - @ ELSE @,
                           !.stage = IF Len(taken) >= dev.req.len THEN "status" ELSE @]
    BY DEF OutData
  <2>2. bytes = Bytes(r, from, len)
    BY <1>5, <1>6
  <2>3. dev.pid = ep.data_id /\ dev.data = Bytes(r, 0, from) /\ dev.req = r
    BY <1>7
  <2>4. taken = Bytes(r, 0, from + len)
    BY <1>6, <1>8, <2>2, <2>3
  <2> HIDE DEF taken, bytes, r
  <2> QED BY <1>6, <1>7, <1>8, <2>1, <2>3, <2>4
<1>10. UNCHANGED rx_buffer /\ \E answered \in BOOLEAN : Answer(answered)
  BY DEF OutData
<1>11. CASE Abandon
  <2>1. TransferComplete(ep) \in Ep /\ ~TransferComplete(ep).has_transfer
    BY <1>3, CompleteFields
  <2> QED BY <1>11, <2>1, FailedGoes DEF Abandon
<1>12. CASE Continue(len)
  <2>1. PICK e : e = TransferContinue(ep, len)
    OBVIOUS
  <2>2. IF e.has_transfer THEN ep' = e /\ UNCHANGED <<pipe, ep_num>> ELSE Completed(e)
    BY <1>12, <2>1 DEF Continue
  <2>3. Continued(ep, len, e)
    BY <1>3, <2>1, ContinueFields DEF Pids
  <2>4. LastPacket(ep, len) <=> len < EP0_SIZE \/ from + len >= r.len
    BY <1>2, <1>3, <1>4 DEF LastPacket, AtOut
  <2>5. CASE e.has_transfer
    <3>1. ep' = e /\ UNCHANGED <<pipe, ep_num>> /\ from + len < r.len
      BY <1>1, <1>5, <2>2, <2>3, <2>4, <2>5 DEF Continued
    <3>2. /\ ep' \in Ep /\ ep'.has_transfer /\ ep'.data_id = 1 - ep.data_id /\ ep'.is_tx
          /\ ep'.total_len = r.len /\ ep'.actual_len = from + len /\ ep'.app_buf = Data(r)
          /\ ep'.buffer = [pid |-> ep'.data_id, data |-> Data(r), from |-> ep'.actual_len,
                           len |-> TransactionLen(ep')]
      BY <1>2, <1>4, <2>3, <2>5, <3>1 DEF Continued, AtOut
    <3>3. dev' = [req |-> r, stage |-> "data", pid |-> 1 - ep.data_id, data |-> Bytes(r, 0, from + len), has |-> has]
      BY <1>1, <1>9, <3>1
    <3>4. Works("data", ep.data_id, ep.actual_len)'
      BY <3>1, <3>2, <3>3 DEF Works
    <3>5. TransactionLen(ep)' = TransactionLen(ep')
      BY DEF TransactionLen
    <3>6. ep'.data_id \in Pids
      BY <1>3, <3>2 DEF Pids
    <3>7. AtOut'
      BY <1>2, <3>1, <3>2, <3>4, <3>5, <3>6 DEF AtOut
    <3> QED BY <3>1, <3>2, <3>7 DEF Goes, Going, Running, Legal
  <2>6. CASE ~e.has_transfer
    <3>1. Status(e, "in") /\ e \in Ep
      BY <1>2, <2>2, <2>3, <2>6 DEF Completed, AtOut, Continued
    <3>2. /\ ep' \in Ep /\ ep'.has_transfer /\ ep'.data_id = 1
          /\ ep'.total_len = 0 /\ ep'.actual_len = 0
          /\ ep_num' = "in" /\ pipe'.stage = "STATUS" /\ pipe'.req = r
      BY <2>6, <3>1, StatusFields
    <3>3. from + len = r.len
      BY <1>1, <1>5, <2>3, <2>4, <2>6 DEF Continued
    <3>4. dev'.req = r /\ dev'.stage = "status" /\ dev'.data = Bytes(r, 0, r.len)
      BY <1>1, <1>9, <3>3
    <3>5. AtStatus'
      BY <1>2, <3>2, <3>4 DEF AtStatus, AtOut
    <3> QED BY <3>2, <3>5 DEF Goes, Going, Running, Legal
  <2> QED BY <2>5, <2>6
<1> QED BY <1>5, <1>10, <1>11, <1>12 DEF Answer

(* The host confirms an IN request it has read to the end.                  *)
LEMMA OutStatusGoes == ASSUME Running, ep_num = "out", ep.data_id # SETUP, OutStatus PROVE Goes
<1> DEFINE r == pipe.req
<1>1. AtStatus /\ r.dir = "in"
  BY DEF Running, AtSetup, AtIn, AtOut, AtStatus, OutStatus, Works
<1>2. ep \in Ep /\ ep.has_transfer /\ ep.data_id \in Pids /\ ep.size = EP0_SIZE
  BY <1>1, EpTypes DEF Running, AtStatus, Pids
<1>3. PICK len \in Nat : len = 0
  OBVIOUS
<1>4. PICK e : e = TransferContinue(ep, len)
  OBVIOUS
<1>5. LastPacket(ep, len)
  BY <1>2, <1>3, ControlAssumption DEF LastPacket
<1>6. e \in Ep /\ ~e.has_transfer
  <2>1. Continued(ep, len, e)
    BY <1>2, <1>4, ContinueFields
  <2> QED BY <1>5, <2>1 DEF Continued
<1>7. TransactionLen(ep) = len
  BY <1>1, <1>2, <1>3, ControlAssumption DEF TransactionLen, AtStatus
<1>8. Completed(e) \/ Abandon
  BY <1>4, <1>6, <1>7 DEF OutStatus, Answer, Continue
<1>9. CASE Abandon
  <2>1. TransferComplete(ep) \in Ep /\ ~TransferComplete(ep).has_transfer
    BY <1>2, CompleteFields
  <2> QED BY <1>9, <2>1, FailedGoes DEF Abandon
<1>10. CASE Completed(e)
  <2>1. pipe'.req = r
    BY <1>1, <1>10 DEF Completed, AtStatus, Running, PipeType
  <2>2. executed' = [req |-> r, data |-> Bytes(r, 0, Total)] /\ rx_buffer' = Bytes(r, 0, Total)
    BY <1>1 DEF OutStatus, Finish, AtStatus
  <2>3. Honest'
    BY <1>1, <2>1, <2>2 DEF Honest
  <2> QED BY <1>1, <1>6, <1>10, <2>3, EndGoes DEF AtStatus
<1> QED BY <1>8, <1>9, <1>10

(* Whatever the bus does to a packet, the three stay agreed.                *)
LEMMA TransactionGoes == ASSUME Running, Frame PROVE Goes
<1>1. TransferComplete(ep) \in Ep /\ ~TransferComplete(ep).has_transfer
  BY CompleteFields DEF Running
<1>2. ASSUME Busy PROVE Goes
  BY <1>2, AgainGoes DEF Busy
<1>3. ASSUME Unheard PROVE Goes
  BY <1>1, <1>3, FailedGoes DEF Unheard, Abandon
<1>4. CASE usb_in_transaction
  <2>1. ep_num = "in"
    BY <1>4 DEF usb_in_transaction
  <2>2. \/ dev.stage = "data" /\ dev.req.dir = "in"
        \/ dev.stage = "status" /\ dev.req.dir = "out"
    BY <2>1 DEF Running, AtSetup, AtIn, AtOut, AtStatus, Works
  <2>3. InData \/ InStatus \/ Busy \/ Unheard
    BY <1>4, <2>2 DEF usb_in_transaction, Stalled
  <2> QED BY <1>2, <1>3, <2>1, <2>3, InDataGoes, InStatusGoes
<1>5. CASE usb_out_transaction
  <2>1. ep_num = "out" /\ ep.data_id # SETUP
    BY <1>5 DEF usb_out_transaction
  <2>2. \/ dev.stage = "data" /\ dev.req.dir = "out"
        \/ /\ dev.stage \in {"data", "status"} /\ dev.req.dir = "in"
           /\ ep.buffer.pid = 1 /\ ep.buffer.len = 0
    BY <2>1 DEF Running, AtSetup, AtIn, AtOut, AtStatus, Works
  <2>3. OutData \/ OutStatus \/ Busy \/ Unheard
    BY <1>5, <2>2 DEF usb_out_transaction, Stalled
  <2> QED BY <1>2, <1>3, <2>1, <2>3, OutDataGoes, OutStatusGoes
<1> QED BY <1>4, <1>5, SetupGoes DEF Frame

-----------------------------------------------------------------------------

(* At the start there is no request.                                        *)
LEMMA AgreedInit == Init => AgreedInv
<1> SUFFICES ASSUME Init PROVE Agreement
  BY DEF AgreedInv
<1>1. Data(NoRequest) \in Packets
  BY PacketTypes, RequestTypes
<1>2. FreeEndpoint(Data(NoRequest)) \in Endpoint({0}, Nat, Packets)
  BY <1>1 DEF FreeEndpoint, Endpoint, Pids
<1>3. EP0_SIZE \in Nat
  BY ControlAssumption
<1>4. ep \in Ep
  BY <1>2, <1>3 DEF Init, Endpoint, Ep
<1>5. task = "idle" /\ pipe.req.id = 0
  BY DEF Init, NoRequest
<1> QED BY <1>4, <1>5 DEF Agreement

(* A frame is a transaction of the request under way.                       *)
LEMMA AgreedFrame == ASSUME ControlInv, AgreedInv, Frame PROVE AgreedInv'
<1> SUFFICES ASSUME ~late' PROVE Agreement'
  BY DEF AgreedInv
<1>1. ep.has_transfer /\ UNCHANGED <<task, late>>
  BY DEF Frame
<1>2. task = "wait" /\ UnderWay
  BY <1>1 DEF ControlInv, InStep, AtRest, Prepared, Over
<1>3. Running
  BY <1>1, <1>2 DEF AgreedInv, Agreement, Going, Running, ControlInv, UnderWay
<1>4. Going' /\ ep' \in Ep
  BY <1>3, TransactionGoes DEF Goes
<1> QED BY <1>1, <1>2, <1>4 DEF Agreement

(* A new request forgets what the last one read.                            *)
LEMMA AgreedBegin == ASSUME ControlInv, AgreedInv, NEW r \in Requests, Begin(r) PROVE AgreedInv'
<1> SUFFICES ASSUME ~late' PROVE Agreement'
  BY DEF AgreedInv
<1>1. task = "idle" /\ UNCHANGED <<ep, late>> /\ (r.dir = "in" => r.len > 0)
  BY DEF Begin
<1>2. pipe.operation = "NONE"
  BY <1>1 DEF ControlInv, InStep, AtRest
<1>3. task' = "setup" /\ rx_buffer' = <<>> /\ pipe' = [pipe EXCEPT !.operation = Operation(r), !.req = r]
  BY <1>2 DEF Begin
<1>4. Legal(pipe.req)'
  BY <1>1, <1>3 DEF Legal, ControlInv, PipeType
<1> QED BY <1>1, <1>3, <1>4 DEF AgreedInv, Agreement

(* The setup packet of the request is put in the slot.                      *)
LEMMA AgreedSetup == ASSUME ControlInv, AgreedInv, SetupBegin \/ SetupStart PROVE AgreedInv'
<1> SUFFICES ASSUME ~late' PROVE Agreement'
  BY DEF AgreedInv
<1>1. UNCHANGED <<late, pipe, rx_buffer>> /\ ep \in Ep /\ Legal(pipe.req) /\ rx_buffer = <<>>
      /\ ~ep.has_transfer /\ pipe.stage = "SETUP"
  BY DEF SetupBegin, SetupStart, AgreedInv, Agreement, ControlInv, InStep, Prepared
<1>2. Legal(pipe.req)'
  BY <1>1 DEF Legal
<1>3. CASE SetupBegin
  <2>1. ep' = [ep EXCEPT !.data_id = SETUP, !.is_tx = TRUE] /\ ep_num' = "out" /\ task' = "start"
    BY <1>3 DEF SetupBegin
  <2>2. ep' \in Ep /\ ep'.data_id = SETUP /\ ep'.is_tx
    BY <1>1, <2>1 DEF Ep, Endpoint
  <2> QED BY <1>1, <1>2, <2>1, <2>2 DEF Agreement
<1>4. CASE SetupStart
  <2>1. PICK len \in Nat : len = 8
    OBVIOUS
  <2>2. ep' = TransferStart(ep, Setup(pipe.req), len) /\ ep_num' = ep_num /\ task = "start" /\ task' = "wait"
    BY <1>4, <2>1 DEF SetupStart
  <2>3. ep_num = "out" /\ ep.data_id = SETUP /\ ep.is_tx
    BY <1>1, <2>2 DEF AgreedInv, Agreement
  <2>4. Setup(pipe.req) \in Packets
    BY <1>1, LegalRequest, PacketTypes
  <2>5. /\ ep' \in Ep /\ ep'.has_transfer /\ ep'.data_id = ep.data_id
        /\ ep.is_tx => ep'.buffer = [pid |-> DataPid(ep), data |-> Setup(pipe.req), from |-> 0,
                                     len |-> TransactionLen(ep')]
    BY <1>1, <2>2, <2>4, StartFields
  <2>6. DataPid(ep) = 0
    BY <2>3 DEF DataPid, SETUP
  <2>7. AtSetup'
    BY <1>1, <2>2, <2>3, <2>5, <2>6 DEF AtSetup
  <2> QED BY <1>2, <2>2, <2>5, <2>7 DEF Agreement, Going
<1> QED BY <1>3, <1>4

(* The result is what the pipe says of the request.                         *)
LEMMA AgreedReturn == ASSUME ControlInv, AgreedInv, Return \/ TimedOut PROVE AgreedInv'
<1> SUFFICES ASSUME ~late' PROVE Agreement'
  BY DEF AgreedInv
<1>1. Return
  BY DEF TimedOut, ControlInv, InStep
<1>2. /\ UNCHANGED <<ep, rx_buffer, executed, fault, late>> /\ task = "wait" /\ task' = "idle"
      /\ res' = Result /\ pipe' = [pipe EXCEPT !.operation = "NONE"]
      /\ pipe.operation # Operation(pipe.req)
  BY <1>1 DEF Return
<1>3. pipe'.req = pipe.req /\ ep \in Ep /\ Going /\ Over
  BY <1>2 DEF ControlInv, PipeType, InStep, UnderWay, AgreedInv, Agreement
<1>4. IF res' = 0 THEN Honest ELSE fault
  BY <1>2, <1>3 DEF Going, Over, Result
<1>5. Honest => Honest'
  BY <1>2, <1>3 DEF Honest
<1> QED BY <1>2, <1>3, <1>4, <1>5 DEF Agreement

(* Every step keeps the agreement.                                          *)
LEMMA AgreedStep == ASSUME ControlInv, AgreedInv, [Next]_vars PROVE AgreedInv'
<1>1. CASE Timeout
  BY <1>1 DEF Timeout, AgreedInv
<1>2. CASE UNCHANGED vars
  <2>1. UNCHANGED <<ep, ep_num, pipe, task, res, rx_buffer, dev, executed, fault, late>>
    BY <1>2 DEF vars
  <2>2. UNCHANGED <<AtSetup, AtIn, AtOut, AtStatus, Honest>>
    BY <2>1 DEF AtSetup, AtIn, AtOut, AtStatus, Honest, Works, Size, Total
  <2>3. Going => Going'
    BY <2>1, <2>2 DEF Going, Legal
  <2> QED BY <2>1, <2>2, <2>3 DEF AgreedInv, Agreement, Legal
<1> QED BY <1>1, <1>2, AgreedFrame, AgreedBegin, AgreedSetup, AgreedReturn DEF Next, Task, Done

(* The second inductive invariant of the control pipe: without it neither   *)
(* an honest result nor an explained error could be carried over a step.    *)
THEOREM AgreedInvariant == Spec => []AgreedInv
<1>1. Init => AgreedInv
  BY AgreedInit
<1>2. ControlInv /\ ControlInv' /\ AgreedInv /\ [Next]_vars => AgreedInv'
  BY AgreedStep
<1> QED BY <1>1, <1>2, ControlInvariant, PTL DEF Spec

(* A call that returns 0 has had its own request executed, byte for byte,   *)
(* however many packets are lost, repeated or refused on the way.           *)
THEOREM HonestTheorem == Spec => []HonestResult
<1>1. AgreedInv => HonestResult
  BY DEF AgreedInv, Agreement, HonestResult, Returned, Honest
<1> QED BY <1>1, AgreedInvariant, PTL

(* A call that fails has lost a packet: host and device never disagree      *)
(* about what comes next, so that no packet is stalled.                     *)
THEOREM ErrorsTheorem == Spec => []ErrorsExplained
<1>1. AgreedInv => ErrorsExplained
  BY DEF AgreedInv, Agreement, ErrorsExplained, Returned
<1> QED BY <1>1, AgreedInvariant, PTL
==============================================================================
