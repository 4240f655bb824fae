------------------------------ MODULE UsbDevice ------------------------------
(* The device mode of the library: usb_device_packet_handler, which a token *)
(* of the host starts as an interrupt and which runs to its end, and the    *)
(* task it interrupts, whose loads and stores of the shared registers are   *)
(* steps of their own.  Endpoint 0 in both directions, and an interrupt     *)
(* endpoint with reports of the application.  The host is external, and no  *)
(* packet is lost on the bus: the library takes every packet for arrived.   *)
EXTENDS UsbEndpoint

CONSTANTS Reads,         \* read requests the host makes: [kind, ask]
          Lens,          \* [kinds -> length of the descriptor]
          MaxRequests,   \* bound: control requests
          MaxReports,    \* bound: reports of the application
          MaxResets,     \* bound: bus resets
          Prompt,        \* has the task always caught up before a setup or a reset?
          Apart,         \* are reports never polled during a control request?
          WholeAddress   \* is SET_ADDRESS never cut short by a bus reset?

EP0_SIZE   == 64
REPORT_LEN == 8

(* How many bytes the library sends: the length that was asked for counts   *)
(* in two cases only.                                                       *)
Length(r) == CASE r.kind = "config" -> (IF Lens[r.kind] < r.ask THEN Lens[r.kind] ELSE r.ask)
               [] r.kind = "hid"    -> r.ask
               [] OTHER             -> Lens[r.kind]

(* The host asks for enough, and for no read that would need an empty       *)
(* packet at its end, which the library does not send.                      *)
ASSUME DeviceAssumption ==
    /\ Reads \subseteq [kind : {"device", "config", "string", "hid"}, ask : 1 .. 255]
    /\ \A r \in Reads : Length(r) \in 1 .. r.ask
    /\ \A r \in Reads : Length(r) = r.ask \/ Length(r) % EP0_SIZE # 0
    /\ MaxRequests \in Nat /\ MaxReports \in Nat /\ MaxResets \in Nat
    /\ Prompt \in BOOLEAN /\ Apart \in BOOLEAN /\ WholeAddress \in BOOLEAN

VARIABLES ep,                       \* pio_usb_ep_pool
          dev_addr, new_devaddr,
          ints, ep_complete, ep_continue,    \* registers of the root port
          setup_packet,             \* what usb_rx_buffer holds of the last one
          stage,                    \* control_pipe.stage
          desc,                     \* ep0_desc_request: a read put off, or none
          task,                     \* pc, its snapshot of ints, endpoint, register
          host,                     \* the host: address, request, stage, data so far
          line,                     \* "idle", or "SE0" in a bus reset
          requests, resets,
          handed, heard             \* reports handed over, reports the host has

registers == <<ints, ep_complete, ep_continue>>
outside   == <<dev_addr, host, line, requests, resets, handed, heard>>
vars == <<ep, new_devaddr, registers, setup_packet, stage, desc, task, outside>>

Endpoints == {"out0", "in0", "key"}
NoRequest == [kind |-> "none", ask |-> 0]
Requests  == Reads \cup {[kind |-> "report", ask |-> REPORT_LEN]}
                   \cup [kind : {"address", "configure", "unit"}, ask : {0}]

NewHost == [addr |-> 0, req |-> NoRequest, stage |-> "idle", pid |-> 1,
            got |-> 0, key |-> 0, ready |-> FALSE]

(* The device is plugged in, which begins with a bus reset.                 *)
Init == /\ ep = [e \in Endpoints |-> FreeEndpoint(NoRequest)]
        /\ dev_addr = 0 /\ new_devaddr = 0
        /\ ints = {} /\ ep_complete = {} /\ ep_continue = {}
        /\ setup_packet = NoRequest /\ stage = "NONE" /\ desc = NoRequest
        /\ task = [pc |-> "loop", ints |-> {}, e |-> "in0", reg |-> {}]
        /\ host = NewHost /\ line = "SE0"
        /\ requests = 0 /\ resets = 0 /\ handed = 0 /\ heard = 0

-----------------------------------------------------------------------------
(* The packet handler, together with what the host does of its side.  A     *)
(* packet the device answers with NAK changes nothing.                      *)

Answers == line = "idle" /\ dev_addr = host.addr /\ ep["in0"].size > 0

Idle == task.pc = "loop" /\ ints = {}

(* Mutant: a transfer left over from the last request is not cancelled.     *)
Rearmed_kept(e) == [e EXCEPT !.data_id = 1]

Rearmed(e) == [e EXCEPT !.data_id = 1, !.has_transfer = FALSE]

SetupToken ==
    /\ Answers /\ host.stage = "idle" /\ requests < MaxRequests
    /\ Prompt => Idle
    /\ \E r \in Requests :
          /\ r.kind = "configure" => ~host.ready
          /\ setup_packet' = r
          /\ host' = [host EXCEPT !.req = r, !.pid = 1, !.got = 0,
                                  !.stage = IF r \in Reads THEN "data-in"
                                            ELSE IF r.kind = "report" THEN "data-out" ELSE "status-in"]
    /\ ints' = ints \cup {"setup"}
    /\ ep' = [ep EXCEPT !["in0"] = Rearmed(@), !["out0"] = Rearmed(@)]
    /\ requests' = requests + 1
    /\ UNCHANGED <<dev_addr, new_devaddr, ep_complete, ep_continue, stage, desc, task,
                   line, resets, handed, heard>>

(* A packet that is sent while the task encodes the next one into the same  *)
(* buffer fails its checksum.                                               *)
Torn(e) == task.pc = "encode" /\ task.e = e

(* The host confirms every packet and takes those with the identifier it    *)
(* expects.                                                                 *)
HostIn(p) ==
    LET got  == host.got + p.len
        over == p.len < EP0_SIZE \/ got >= host.req.ask
        bad  == p.len > 0 /\ (host.stage = "status-in" \/ p.data # host.req \/ p.from # host.got)
    IN  IF Torn("in0") \/ p.pid # host.pid THEN host
        ELSE IF bad THEN [host EXCEPT !.stage = "broken"]
        ELSE IF host.stage = "data-in"
        THEN [host EXCEPT !.got = got, !.pid = 1 - @, !.stage = IF over THEN "status-out" ELSE @]
        ELSE [host EXCEPT !.stage = "idle",
                          !.addr  = IF host.req.kind = "address" THEN 1 ELSE @,
                          !.ready = @ \/ host.req.kind = "configure"]

(* The handler waits for the host's ACK and goes on as if it had come.      *)
InToken(e) == /\ Answers /\ ep[e].has_transfer
              /\ ints' = ints \cup {"continue"}
              /\ ep_continue' = ep_continue \cup {e}
              /\ UNCHANGED <<ep, ep_complete, setup_packet, stage, desc, task,
                             line, requests, resets, handed>>

(* A new address takes effect with the first packet sent after the request. *)
InToken0 == /\ host.stage \in {"data-in", "status-in"} /\ InToken("in0")
            /\ host' = HostIn(ep["in0"].buffer)
            /\ dev_addr' = IF new_devaddr > 0 THEN new_devaddr ELSE dev_addr
            /\ new_devaddr' = 0
            /\ UNCHANGED heard

InTokenKey == /\ host.ready /\ InToken("key")
              /\ Apart => host.stage = "idle"
              /\ LET new == ep["key"].buffer.pid = host.key IN
                 /\ host' = [host EXCEPT !.key = IF new THEN 1 - @ ELSE @]
                 /\ heard' = IF new THEN heard + 1 ELSE heard
              /\ UNCHANGED <<dev_addr, new_devaddr>>

(* Data of the host are taken without a look at their identifier.           *)
OutToken0 ==
    /\ Answers /\ host.stage \in {"data-out", "status-out"} /\ ep["out0"].has_transfer
    /\ LET len == IF host.stage = "data-out" THEN host.req.ask ELSE 0 IN
       /\ ep' = [ep EXCEPT !["out0"] = TransferContinue(@, len)]
       /\ LastPacket(ep["out0"], len)
    /\ ints' = ints \cup {"complete"} /\ ep_complete' = ep_complete \cup {"out0"}
    /\ host' = [host EXCEPT !.stage = IF @ = "data-out" THEN "status-in" ELSE "idle"]
    /\ UNCHANGED <<dev_addr, new_devaddr, ep_continue, setup_packet, stage, desc, task,
                   line, requests, resets, handed, heard>>

PacketHandler == SetupToken \/ InToken0 \/ InTokenKey \/ OutToken0

-----------------------------------------------------------------------------
(* The task: pio_usb_device_irq_handler in the order of its text.           *)

At(pc) == task.pc = pc
Goto(pc, register) == task' = [task EXCEPT !.pc = pc, !.reg = register]

TaskBegin == /\ At("loop") /\ ints # {}
             /\ task' = [task EXCEPT !.pc = "setup", !.ints = ints]
             /\ UNCHANGED <<ep, new_devaddr, registers, setup_packet, stage, desc, outside>>

(* prepare_ep0_data and prepare_ep0_rx: the status stage with the data.     *)
prepare_ep0_data(data, len) ==
    [ep EXCEPT !["in0"]  = TransferStart(@, data, len),
               !["out0"] = IF len > 0 THEN TransferStart(@, NoRequest, 0) ELSE @]

prepare_ep0_rx(data, len) ==
    [ep EXCEPT !["out0"] = TransferStart(@, data, len),
               !["in0"]  = TransferStart(@, NoRequest, 0)]

(* configure_all_endpoints, for the one endpoint of the configuration.      *)
configure_all_endpoints(pool) ==
    [pool EXCEPT !["key"].size = REPORT_LEN, !["key"].data_id = 0, !["key"].is_tx = TRUE]

(* Mutant: the new address is used at once, as the request asks for it.     *)
set_address_now(r) ==
    r.kind = "address" /\ dev_addr' = 1 /\ ep' = prepare_ep0_data(r, 0)
    /\ UNCHANGED <<desc, new_devaddr, host, line, requests, resets, handed, heard>>

set_address(r) ==
    /\ r.kind = "address"
    /\ new_devaddr' = 1
    /\ ep' = prepare_ep0_data(r, 0)
    /\ UNCHANGED <<desc, outside>>

(* The device descriptor is sent at once, other reads are put off to the    *)
(* end of pio_usb_device_task.                                              *)
process_device_setup_stage(r) ==
    \/ /\ r.kind = "device"
       /\ ep' = prepare_ep0_data(r, Length(r)) /\ UNCHANGED <<desc, new_devaddr, outside>>
    \/ /\ r.kind \in {"config", "string", "hid"}
       /\ desc' = r /\ UNCHANGED <<ep, new_devaddr, outside>>
    \/ set_address(r)
    \/ /\ r.kind = "configure"
       /\ ep' = configure_all_endpoints(prepare_ep0_data(r, 0))
       /\ UNCHANGED <<desc, new_devaddr, outside>>
    \/ /\ r.kind = "report"
       /\ ep' = prepare_ep0_rx(r, REPORT_LEN) /\ UNCHANGED <<desc, new_devaddr, outside>>
    \/ /\ r.kind = "unit"                 \* SET_IDLE, SET_PROTOCOL, to an endpoint
       /\ ep' = prepare_ep0_data(r, 0) /\ UNCHANGED <<desc, new_devaddr, outside>>

TaskSetup == /\ At("setup")
             /\ IF "setup" \in task.ints
                THEN process_device_setup_stage(setup_packet) /\ stage' = "DATA"
                ELSE /\ stage' = IF "reset" \in task.ints THEN "NONE" ELSE stage
                     /\ UNCHANGED <<ep, desc, new_devaddr, outside>>
             /\ task' = [task EXCEPT !.e = "in0",
                                     !.pc = IF "complete" \in task.ints THEN "complete" ELSE "continue"]
             /\ UNCHANGED <<registers, setup_packet>>

(* ep_all = ep_complete: control out, then control in.                      *)
TaskComplete ==
    /\ At("complete")
    /\ LET after0 == IF "out0" \notin ep_complete THEN stage
                     ELSE IF stage = "STATUS" THEN "COMPLETE"
                     ELSE IF stage = "DATA" THEN "STATUS" ELSE stage
       IN  stage' = IF "in0" \in ep_complete /\ after0 = "STATUS" THEN "COMPLETE" ELSE after0
    /\ ep' = IF "out0" \in ep_complete /\ stage = "DATA" THEN prepare_ep0_data(NoRequest, 0) ELSE ep
    /\ Goto("completed", ep_complete)
    /\ UNCHANGED <<new_devaddr, registers, setup_packet, desc, outside>>

(* Loads and stores of registers; the interrupt may come before the store.  *)
TaskLoad == /\ \/ At("completed") /\ Goto("store-complete", ep_complete \ task.reg)
               \/ At("raise")     /\ Goto("store-raised", ints \cup {"complete"})
               \/ At("mark")      /\ Goto("store-marked", ep_complete \cup {task.e})
               \/ At("clear")     /\ Goto("store-continue", ep_continue \ {task.e})
               \/ At("end")       /\ Goto("store-ints", ints \ task.ints)
            /\ UNCHANGED <<ep, new_devaddr, registers, setup_packet, stage, desc, outside>>

NextEndpoint == IF task.e = "in0" THEN [task EXCEPT !.pc = "continue", !.e = "key"]
                                  ELSE [task EXCEPT !.pc = "end"]

TaskStore == /\ \/ /\ At("store-complete") /\ ep_complete' = task.reg
                   /\ task' = [task EXCEPT !.pc = "continue"] /\ UNCHANGED <<ints, ep_continue>>
                \/ /\ At("store-raised") /\ ints' = task.reg
                   /\ task' = [task EXCEPT !.pc = "mark"] /\ UNCHANGED <<ep_complete, ep_continue>>
                \/ /\ At("store-continue") /\ ep_continue' = task.reg
                   /\ task' = NextEndpoint /\ UNCHANGED <<ints, ep_complete>>
                \/ /\ At("store-ints") /\ ints' = task.reg
                   /\ task' = [task EXCEPT !.pc = "desc"] /\ UNCHANGED <<ep_complete, ep_continue>>
             /\ UNCHANGED <<ep, new_devaddr, setup_packet, stage, desc, outside>>

(* Mutant: every endpoint with a transfer is taken to have sent a packet.   *)
Flagged_any(e) == ep[e].has_transfer

Flagged(e) == e \in ep_continue

TaskContinue ==
    /\ At("continue")
    /\ task' = IF ~("continue" \in task.ints /\ Flagged(task.e)) THEN NextEndpoint
               ELSE IF LastPacket(ep[task.e], TransactionLen(ep[task.e]))
               THEN [task EXCEPT !.pc = "raise"] ELSE [task EXCEPT !.pc = "encode"]
    /\ UNCHANGED <<ep, new_devaddr, registers, setup_packet, stage, desc, outside>>

Continued(e) == [ep EXCEPT ![e] = TransferContinue(@, TransactionLen(@))]

(* pio_usb_ll_transfer_continue: the next packet is encoded, or the         *)
(* transfer is complete.                                                    *)
TaskContinued ==
    /\ \/ At("encode") /\ UNCHANGED ep_complete
       \/ At("store-marked") /\ ep_complete' = task.reg
    /\ ep' = Continued(task.e)
    /\ task' = [task EXCEPT !.pc = "clear"]
    /\ UNCHANGED <<new_devaddr, ints, ep_continue, setup_packet, stage, desc, outside>>

(* pio_usb_device_task after the handler, and where it begins when there    *)
(* was nothing to handle.                                                   *)
TaskDescriptor == /\ At("desc") \/ (At("loop") /\ ints = {} /\ line = "SE0")
                  /\ ep' = IF desc # NoRequest THEN prepare_ep0_data(desc, Length(desc)) ELSE ep
                  /\ desc' = NoRequest
                  /\ task' = [task EXCEPT !.pc = "line"]
                  /\ UNCHANGED <<new_devaddr, registers, setup_packet, stage, outside>>

ControlEndpoint(tx) == [FreeEndpoint(NoRequest) EXCEPT !.size = EP0_SIZE, !.is_tx = tx]

ResetPool == [out0 |-> ControlEndpoint(FALSE), in0 |-> ControlEndpoint(TRUE),
              key  |-> FreeEndpoint(NoRequest)]

(* 1 ms of SE0 is a bus reset, which ends the reports handed over before.   *)
(* new_devaddr and ep_continue stay.                                        *)
TaskLine == /\ At("line")
            /\ IF line = "SE0"
               THEN /\ ep' = ResetPool
                    /\ dev_addr' = 0 /\ ep_complete' = {} /\ ints' = ints \cup {"reset"}
                    /\ line' = "idle" /\ handed' = 0 /\ heard' = 0
               ELSE UNCHANGED <<ep, dev_addr, ep_complete, ints, line, handed, heard>>
            /\ task' = [pc |-> "loop", ints |-> {}, e |-> "in0", reg |-> {}]
            /\ UNCHANGED <<new_devaddr, ep_continue, setup_packet, stage, desc, host,
                           requests, resets>>

Task == \/ TaskBegin \/ TaskSetup \/ TaskComplete \/ TaskLoad \/ TaskStore
        \/ TaskContinue \/ TaskContinued \/ TaskDescriptor \/ TaskLine

(* pio_usb_device_transfer: the application, in the same loop.              *)
pio_usb_device_transfer ==
    /\ At("loop") /\ ep["key"].size > 0 /\ ~ep["key"].has_transfer /\ handed < MaxReports
    /\ ep' = [ep EXCEPT !["key"] = TransferStart(@, NoRequest, REPORT_LEN)]
    /\ handed' = handed + 1
    /\ UNCHANGED <<new_devaddr, registers, setup_packet, stage, desc, task,
                   dev_addr, host, line, requests, resets, heard>>

-----------------------------------------------------------------------------
(* The host resets the bus and forgets what it was doing.                   *)
HostReset == /\ line = "idle" /\ resets < MaxResets
             /\ Prompt => Idle /\ ep_continue = {}
             /\ WholeAddress => host.req.kind # "address" \/ host.stage = "idle"
             /\ line' = "SE0" /\ host' = NewHost
             /\ resets' = resets + 1
             /\ UNCHANGED <<ep, dev_addr, new_devaddr, registers, setup_packet, stage, desc,
                            task, requests, handed, heard>>

(* Nothing is left to be done.                                              *)
Done == Idle /\ line = "idle" /\ UNCHANGED vars

Next == PacketHandler \/ Task \/ pio_usb_device_transfer \/ HostReset \/ Done

(* The main loop goes round, and the host polls for what it has asked for.  *)
Spec == Init /\ [][Next]_vars /\ WF_vars(Task) /\ WF_vars(InToken0) /\ WF_vars(OutToken0)

-----------------------------------------------------------------------------

TypeOK == /\ ep \in [Endpoints -> Endpoint({0, REPORT_LEN, EP0_SIZE}, Nat, Requests \cup {NoRequest})]
          /\ dev_addr \in {0, 1} /\ new_devaddr \in {0, 1}
          /\ ints \subseteq {"reset", "setup", "complete", "continue"}
          /\ ep_complete \subseteq Endpoints /\ ep_continue \subseteq {"in0", "key"}
          /\ setup_packet \in Requests \cup {NoRequest} /\ desc \in Reads \cup {NoRequest}
          /\ stage \in {"NONE", "DATA", "STATUS", "COMPLETE"}
          /\ host.stage \in {"idle", "data-in", "data-out", "status-in", "status-out", "broken"}
          /\ line \in {"idle", "SE0"}
          /\ handed \in 0 .. MaxReports /\ heard \in Nat

(* A read ends with all of its bytes and no others, however often the host  *)
(* polls while the task still handles the packet before, also when that     *)
(* packet is being overwritten.                                             *)
ReadsHonest == /\ host.stage # "broken"
               /\ host.stage = "status-out" => host.got = Length(host.req)

(* Host and device change the address with the same packet: none is lost    *)
(* to an address that nobody listens on.                                    *)
AddressAgreed == line = "idle" => dev_addr = host.addr

(* Every report handed over is taken by the host once: it is not given up   *)
(* before that, nor heard again, although the host may poll it twice.       *)
ReportsOnce == /\ heard \in {handed - 1, handed}
               /\ ~ep["key"].has_transfer => heard = handed

(* Every request comes to its end.                                          *)
RequestsEnd == (host.stage # "idle") ~> (host.stage = "idle")
=============================================================================
