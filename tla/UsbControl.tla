----------------------------- MODULE UsbControl -----------------------------
(* Control transfers of the library's own host stack: control_in_protocol   *)
(* and control_out_protocol in the task, which start a request and wait up  *)
(* to five seconds for it, and the frame interrupt, which carries out one   *)
(* transaction of endpoint 0 a frame and moves the pipe from stage to stage *)
(* in handle_endpoint_irq.  A frame preempts the task, so it is one step.   *)
(* The device is external: it follows the USB protocol on a bus that loses  *)
(* packets.                                                                 *)
EXTENDS UsbEndpoint, Sequences

CONSTANTS EP0_SIZE,     \* bMaxPacketSize0
          Asks,         \* lengths of the data stage
          Has,          \* lengths of what a device may have to send
          MaxRequests   \* bound: requests made

ASSUME ControlAssumption == /\ EP0_SIZE \in Nat /\ EP0_SIZE >= 8
                            /\ Asks \subseteq Nat /\ Has \subseteq Nat
                            /\ MaxRequests \in Nat

VARIABLES ep, ep_num,   \* the slot of endpoint 0, and the direction it has now
          pipe,         \* control_pipe_t
          task,         \* where the caller is
          res,          \* what the last call returned
          rx_buffer,    \* what the request in progress has read
          dev,          \* the device: request, stage, identifier, bytes moved
          executed,     \* the request the device has finished last
          fault,        \* has the bus or the device failed this request?
          late          \* has any request timed out?

vars == <<ep, ep_num, pipe, task, res, rx_buffer, dev, executed, fault, late>>

Requests == [id : 1 .. MaxRequests, dir : {"in", "out"}, len : Asks]
NoRequest == [id |-> 0, dir |-> "out", len |-> 0]

Setup(r) == [what |-> "setup", of |-> r]       \* the setup packet
Data(r)  == [what |-> "data", of |-> r]        \* what the caller sends

Bytes(r, from, len) == [i \in 1 .. len |-> <<r.id, from + i>>]

Init == /\ ep = [FreeEndpoint(Data(NoRequest)) EXCEPT !.size = EP0_SIZE, !.is_tx = TRUE]
        /\ ep_num = "out"
        /\ pipe = [operation |-> "NONE", stage |-> "SETUP", req |-> NoRequest]
        /\ task = "idle" /\ res = 0
        /\ rx_buffer = <<>>
        /\ dev = [req |-> NoRequest, stage |-> "idle", pid |-> 1, data |-> <<>>, has |-> 0]
        /\ executed = [req |-> NoRequest, data |-> <<>>]
        /\ fault = FALSE /\ late = FALSE

-----------------------------------------------------------------------------
(* handle_endpoint_irq: what the end of a transfer does to the pipe.        *)

Stage_pid(e, stage, num, data, len) ==
    /\ pipe' = [pipe EXCEPT !.stage = stage]
    /\ ep_num' = num
    /\ ep' = TransferStart([e EXCEPT !.is_tx = (num = "out")], data, len)

Stage(e, stage, num, data, len) ==
    /\ pipe' = [pipe EXCEPT !.stage = stage]
    /\ ep_num' = num
    /\ ep' = TransferStart([e EXCEPT !.data_id = 1, !.is_tx = (num = "out")], data, len)

Failed_stage(e) == /\ pipe' = [pipe EXCEPT !.operation = "ERROR"]
                   /\ ep' = e /\ UNCHANGED ep_num

Failed(e) == /\ pipe' = [pipe EXCEPT !.stage = "SETUP", !.operation = "ERROR"]
             /\ ep' = e /\ UNCHANGED ep_num

Status(e, num) == Stage(e, "STATUS", num, Data(NoRequest), 0)

Completed_hasty(e) ==
    \/ /\ pipe.stage = "SETUP" /\ pipe.operation = "IN"
       /\ Stage(e, "IN", "in", Data(pipe.req), pipe.req.len)
    \/ /\ pipe.stage = "SETUP" /\ pipe.operation = "OUT"
       /\ Stage(e, "OUT", "out", Data(pipe.req), pipe.req.len)
    \/ /\ pipe.stage = "SETUP" /\ pipe.operation \notin {"IN", "OUT"}
       /\ ep' = [e EXCEPT !.data_id = 1] /\ UNCHANGED <<pipe, ep_num>>
    \/ /\ pipe.stage \in {"IN", "OUT", "STATUS"}
       /\ pipe' = [pipe EXCEPT !.stage = "SETUP", !.operation = "COMPLETE"]
       /\ ep' = [e EXCEPT !.data_id = 1] /\ UNCHANGED ep_num

Completed(e) ==
    \/ /\ pipe.stage = "SETUP" /\ pipe.operation = "IN"
       /\ Stage(e, "IN", "in", Data(pipe.req), pipe.req.len)
    \/ /\ pipe.stage = "SETUP" /\ pipe.operation = "OUT"
       /\ IF pipe.req.len > 0
          THEN Stage(e, "OUT", "out", Data(pipe.req), pipe.req.len)
          ELSE Status(e, "in")
    \/ /\ pipe.stage = "SETUP" /\ pipe.operation \notin {"IN", "OUT"}
       /\ ep' = [e EXCEPT !.data_id = 1] /\ UNCHANGED <<pipe, ep_num>>
    \/ pipe.stage = "IN" /\ Status(e, "out")
    \/ pipe.stage = "OUT" /\ Status(e, "in")
    \/ /\ pipe.stage = "STATUS"
       /\ pipe' = [pipe EXCEPT !.stage = "SETUP", !.operation = "COMPLETE"]
       /\ ep' = [e EXCEPT !.data_id = 1] /\ UNCHANGED ep_num

(* pio_usb_ll_transfer_continue, and the interrupt if the transfer is over. *)
Continue(len) == LET e == TransferContinue(ep, len)
                 IN  IF e.has_transfer THEN ep' = e /\ UNCHANGED <<pipe, ep_num>>
                     ELSE Completed(e)

Again == UNCHANGED <<ep, ep_num, pipe>>         \* NAK, or a repeated packet

(* The host hears nothing it can use, or a STALL.                           *)
Abandon == Failed(TransferComplete(ep)) /\ fault' = TRUE

-----------------------------------------------------------------------------
(* Transactions.  Unless the device ignores it or is not done yet, what the *)
(* device does and what the host makes of the answer are chosen together.   *)

Unheard == Abandon /\ UNCHANGED <<dev, executed, rx_buffer>>

Busy == Again /\ UNCHANGED <<dev, executed, rx_buffer, fault>>

(* A setup packet always begins a request anew.                             *)
usb_setup_transaction ==
    /\ ep.data_id = SETUP /\ ep_num = "out"
    /\ LET e == [ep EXCEPT !.data_id = 0, !.actual_len = 8] IN
       \/ /\ ep.buffer.data.what = "setup" /\ ep.buffer.pid = 0
          /\ \E has \in Has, answered \in BOOLEAN :
                /\ LET r == ep.buffer.data.of IN
                   dev' = [req |-> r, pid |-> 1, data |-> <<>>, has |-> has,
                           stage |-> IF r.len = 0 THEN "status" ELSE "data"]
                /\ IF answered THEN Completed(TransferComplete(e)) /\ UNCHANGED fault
                               ELSE Failed(TransferComplete(e)) /\ fault' = TRUE
          /\ UNCHANGED <<executed, rx_buffer>>
       \/ Failed(TransferComplete(e)) /\ fault' = TRUE /\ UNCHANGED <<dev, executed, rx_buffer>>

Finish(data) == executed' = [req |-> dev.req, data |-> data]

Total == IF dev.has < dev.req.len THEN dev.has ELSE dev.req.len

(* What the host makes of a whole packet: it confirms it in any case, the   *)
(* device may not hear that, and takes it if its identifier is the expected *)
(* one.                                                                     *)
Receive(pid, bytes) ==
    IF pid = DataPid(ep)
    THEN /\ rx_buffer' = IF ep.app_buf = Data(pipe.req)
                         THEN SubSeq(rx_buffer, 1, ep.actual_len) \o bytes ELSE rx_buffer
         /\ Continue(Len(bytes))
    ELSE Again /\ UNCHANGED rx_buffer

InData == /\ dev.stage = "data" /\ dev.req.dir = "in"
          /\ LET from  == Len(dev.data)
                 len   == IF Total - from < EP0_SIZE THEN Total - from ELSE EP0_SIZE
                 bytes == Bytes(dev.req, from, len)
                 over  == len < EP0_SIZE \/ from + len = dev.req.len
             IN  /\ Receive(dev.pid, bytes)
                 /\ \E confirmed \in BOOLEAN :
                       /\ dev' = IF confirmed
                                 THEN [dev EXCEPT !.data = @ \o bytes, !.pid = 1 - @,
                                                  !.stage = IF over THEN "status" ELSE @]
                                 ELSE dev
                       /\ fault' = (fault \/ ~confirmed)
          /\ UNCHANGED executed

InStatus == /\ dev.stage = "status" /\ dev.req.dir = "out"
            /\ Finish(dev.data)
            /\ Receive(1, <<>>)
            /\ \E confirmed \in BOOLEAN :
                  /\ dev' = [dev EXCEPT !.stage = IF confirmed THEN "idle" ELSE @]
                  /\ fault' = (fault \/ ~confirmed)

(* A packet the device cannot make sense of in its stage is stalled.        *)
Stalled(understood) == ~understood /\ Failed(TransferComplete(ep))
                       /\ UNCHANGED <<dev, executed, rx_buffer, fault>>

usb_in_transaction ==
    LET understood == \/ dev.stage = "data" /\ dev.req.dir = "in"
                      \/ dev.stage = "status" /\ dev.req.dir = "out"
    IN  ep_num = "in" /\ (InData \/ InStatus \/ Busy \/ Unheard \/ Stalled(understood))

Answer(answered) == IF answered THEN Continue(TransactionLen(ep)) /\ UNCHANGED fault
                                ELSE Abandon

OutData == /\ dev.stage = "data" /\ dev.req.dir = "out"
           /\ LET bytes == Bytes(ep.buffer.data.of, ep.buffer.from, ep.buffer.len)
                  taken == IF ep.buffer.pid = dev.pid THEN dev.data \o bytes ELSE dev.data
              IN  dev' = [dev EXCEPT !.data = taken,
                                     !.pid = IF ep.buffer.pid = @ THEN 1 - @ ELSE @,
                                     !.stage = IF Len(taken) >= dev.req.len THEN "status" ELSE @]
           /\ \E answered \in BOOLEAN : Answer(answered)
           /\ UNCHANGED <<executed, rx_buffer>>

(* The host may end a data stage early by going to the status stage.        *)
OutStatus == /\ dev.stage \in {"data", "status"} /\ dev.req.dir = "in"
             /\ ep.buffer.pid = 1 /\ ep.buffer.len = 0
             /\ Finish(Bytes(dev.req, 0, Total))
             /\ dev' = [dev EXCEPT !.stage = "idle"]
             /\ \E answered \in BOOLEAN : Answer(answered)
             /\ UNCHANGED rx_buffer

usb_out_transaction ==
    LET understood == \/ dev.stage = "data" /\ dev.req.dir = "out"
                      \/ /\ dev.stage \in {"data", "status"} /\ dev.req.dir = "in"
                         /\ ep.buffer.pid = 1 /\ ep.buffer.len = 0
    IN  /\ ep_num = "out" /\ ep.data_id # SETUP
        /\ OutData \/ OutStatus \/ Busy \/ Unheard \/ Stalled(understood)

Frame == /\ ep.has_transfer
         /\ usb_setup_transaction \/ usb_in_transaction \/ usb_out_transaction
         /\ UNCHANGED <<task, res, late>>

-----------------------------------------------------------------------------
(* The task.                                                                *)

Operation(r) == IF r.dir = "in" THEN "IN" ELSE "OUT"

(* A pipe in use refuses the request.                                       *)
Begin(r) ==
    /\ task = "idle" /\ r.id = pipe.req.id + 1 /\ (r.dir = "in" => r.len > 0)
    /\ IF pipe.operation = "NONE"
       THEN /\ pipe' = [pipe EXCEPT !.operation = Operation(r), !.req = r]
            /\ task' = "setup" /\ fault' = FALSE /\ rx_buffer' = <<>>
            /\ UNCHANGED res
       ELSE res' = -1 /\ UNCHANGED <<pipe, task, fault, rx_buffer>>
    /\ UNCHANGED <<ep, ep_num, dev, executed, late>>

(* pio_usb_host_send_setup.                                                 *)
SetupBegin == /\ task = "setup"
              /\ ep_num' = "out"
              /\ ep' = [ep EXCEPT !.data_id = SETUP, !.is_tx = TRUE]
              /\ task' = "start"
              /\ UNCHANGED <<pipe, res, rx_buffer, dev, executed, fault, late>>

SetupStart == /\ task = "start"
              /\ ep' = TransferStart(ep, Setup(pipe.req), 8)
              /\ task' = "wait"
              /\ UNCHANGED <<ep_num, pipe, res, rx_buffer, dev, executed, fault, late>>

Result == IF pipe.operation = "ERROR" THEN -1 ELSE 0

Return == /\ task = "wait" /\ pipe.operation # Operation(pipe.req)
          /\ res' = Result
          /\ pipe' = [pipe EXCEPT !.operation = "NONE"]
          /\ task' = "idle"
          /\ UNCHANGED <<ep, ep_num, rx_buffer, dev, executed, fault, late>>

Timeout == /\ task = "wait" /\ pipe.operation = Operation(pipe.req)
           /\ task' = "timeout" /\ late' = TRUE
           /\ UNCHANGED <<ep, ep_num, pipe, res, rx_buffer, dev, executed, fault>>

TimedOut == /\ task = "timeout"
            /\ res' = -2
            /\ pipe' = [pipe EXCEPT !.operation = "NONE"]
            /\ task' = "idle"
            /\ UNCHANGED <<ep, ep_num, rx_buffer, dev, executed, fault, late>>

Task == \/ \E r \in Requests : Begin(r)
        \/ SetupBegin \/ SetupStart \/ Return \/ Timeout \/ TimedOut

(* All requests made.                                                       *)
Done == task = "idle" /\ ~ep.has_transfer /\ pipe.req.id = MaxRequests /\ UNCHANGED vars

Next == Frame \/ Task \/ Done

Spec == Init /\ [][Next]_vars

-----------------------------------------------------------------------------

Requested == Requests \cup {NoRequest}

TypeOK == /\ ep \in Endpoint({EP0_SIZE}, Nat, [what : {"setup", "data"}, of : Requested])
          /\ ~late => ep.actual_len <= ep.total_len
          /\ ep_num \in {"out", "in"}
          /\ pipe \in [operation : {"NONE", "IN", "OUT", "COMPLETE", "ERROR"},
                       stage : {"SETUP", "IN", "OUT", "STATUS"}, req : Requested]
          /\ task \in {"idle", "setup", "start", "wait", "timeout"}
          /\ res \in {0, -1, -2}
          /\ dev.req \in Requested /\ dev.stage \in {"idle", "data", "status"}
          /\ executed.req \in Requested
          /\ fault \in BOOLEAN /\ late \in BOOLEAN

Returned == task = "idle" /\ pipe.req.id > 0 /\ ~late

(* A call that returns 0 has had its own request executed, with every byte  *)
(* in place: packets lost or repeated never shorten a transfer or pass an   *)
(* earlier request's success off as this one's.                             *)
HonestResult ==
    Returned /\ res = 0 =>
        /\ executed.req = pipe.req
        /\ executed.data = IF pipe.req.dir = "in" THEN rx_buffer
                           ELSE Bytes(pipe.req, 0, pipe.req.len)

(* A call that fails has lost a packet: with none lost the host sends what  *)
(* the device expects through all stages, whatever happened to the requests *)
(* before.                                                                  *)
ErrorsExplained == Returned /\ res # 0 => fault

(* Between calls the pipe is at rest.  After a time-out it may not be: the  *)
(* transfer is still in the pool and its late end takes the pipe out of     *)
(* NONE, after which every call is refused.                                 *)
QuietBetween == Returned => /\ pipe.operation = "NONE" /\ pipe.stage = "SETUP"
                            /\ ~ep.has_transfer
=============================================================================
