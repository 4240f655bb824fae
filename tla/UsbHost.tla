------------------------------ MODULE UsbHost ------------------------------
(* The host controller of pico-pio-usb under a USB stack: the 1 ms frame    *)
(* interrupt walks the endpoint pool and carries out transactions, while    *)
(* the stack's task opens, starts, aborts and closes.  One root port; one   *)
(* device, external, on a bus that loses packets.  Control transfers are in *)
(* UsbControl.  Core 0 runs both interrupt and task in the firmware;        *)
(* OneCore = FALSE puts them on different cores.                            *)
EXTENDS UsbEndpoint, Sequences, FiniteSets

CONSTANTS Names,       \* endpoints of the device
          Ins,         \* those that send to the host
          NoName,
          EP_POOL_CNT, \* slots of the endpoint pool
          MAX_SIZE,    \* wMaxPacketSize
          Lens,        \* [Names -> transfer lengths the stack asks for]
          Interval,    \* [Names -> Nat], 0 for an endpoint that is not periodic
          MaxPackets,  \* bound: packets per endpoint and connection
          MaxPlugs,    \* bound: times the device is plugged in
          OneCore,     \* does the frame interrupt preempt the task on one core?
          FastReplug   \* may the cable be out for less than a frame?

ASSUME PoolAssumption == /\ Ins \subseteq Names /\ NoName \notin Names
                         /\ EP_POOL_CNT \in Nat \ {0} /\ MAX_SIZE \in Nat \ {0}
                         /\ Lens \in [Names -> SUBSET Nat]
                         /\ Interval \in [Names -> Nat]
                         /\ OneCore \in BOOLEAN /\ FastReplug \in BOOLEAN

(* An OUT transfer that failed can only be repeated as a whole, which the   *)
(* device recognizes when it is a single packet.                            *)
ASSUME OutAssumption == \A n \in Names \ Ins : \A l \in Lens[n] : l <= MAX_SIZE

VARIABLES ep, who, counter,   \* the pool: transfer, endpoint, interval_counter
          root,               \* connected, suspended
          ints,               \* interrupt status of the root port
          isr,                \* the frame interrupt: where it is, and the slot
          task, drv,          \* the task's call, and its view of the device
          events,             \* the stack's queue of attach and remove events
          plugged, ready,     \* the cable, and whether the device is configured
          plugs,
          sent, got,          \* packets confirmed to their sender, packets taken
          due                 \* endpoints whose transfer has no outcome yet

Slots == 1 .. EP_POOL_CNT

vars == <<ep, who, counter, root, ints, isr, task, drv, events,
          plugged, ready, plugs, sent, got, due>>

NoInts == [connect |-> FALSE, disconnect |-> FALSE,
           complete |-> {}, error |-> {}, stalled |-> {}]

Idle == [op |-> "idle", slot |-> 0, still |-> FALSE]

Init == /\ ep = [s \in Slots |-> FreeEndpoint(0)]
        /\ who = [s \in Slots |-> NoName]
        /\ counter = [s \in Slots |-> 0]
        /\ root = [connected |-> FALSE, suspended |-> FALSE]
        /\ ints = NoInts
        /\ isr = [at |-> "idle", slot |-> 1]
        /\ task = Idle /\ drv = "none" /\ events = <<>>
        /\ plugged = FALSE /\ ready = FALSE /\ plugs = 0
        /\ sent = [n \in Names |-> 0] /\ got = [n \in Names |-> 0]
        /\ due = {}

Active(s) == ep[s].size > 0 /\ ep[s].has_transfer
Open(n)   == {s \in Slots : ep[s].size > 0 /\ who[s] = n}      \* _find_ep

-----------------------------------------------------------------------------
(* The frame interrupt.                                                     *)

Goto(at, slot) == isr' = [at |-> at, slot |-> slot]
NextSlot == IF isr.slot + 1 \in Slots THEN Goto("slot", isr.slot + 1) ELSE Goto("port", 1)

Operating == root.connected /\ ~root.suspended

(* connection_check sees SE0: every transfer of the port fails.             *)
Disconnect_silent == /\ root' = [connected |-> FALSE, suspended |-> TRUE]
                     /\ ints' = [ints EXCEPT !.disconnect = TRUE]
                     /\ ep' = [s \in Slots |-> TransferComplete(ep[s])]

Disconnect == /\ root' = [connected |-> FALSE, suspended |-> TRUE]
              /\ ints' = [ints EXCEPT !.disconnect = TRUE,
                                      !.error = @ \cup {s \in Slots : Active(s)}]
              /\ ep' = [s \in Slots |-> IF Active(s) THEN TransferComplete(ep[s]) ELSE ep[s]]

FrameBegin == /\ isr.at = "idle"
              /\ IF Operating /\ ~plugged
                 THEN Disconnect /\ Goto("port", 1)
                 ELSE /\ UNCHANGED <<root, ints, ep>>
                      /\ IF Operating THEN Goto("slot", 1) ELSE Goto("port", 1)
              /\ UNCHANGED <<who, counter, task, drv, events, plugged, ready, plugs, sent, got, due>>

Waiting(s) == Interval[who[s]] > 0 /\ counter[s] > 0

Due_unmarked(s) == Active(s)

Due(s) == Active(s) /\ ~ep[s].transfer_aborted

SlotVisit == /\ isr.at = "slot"
             /\ LET s == isr.slot IN
                IF ep[s].size > 0 /\ who[s] # NoName /\ Waiting(s)
                THEN counter' = [counter EXCEPT ![s] = @ - 1] /\ NextSlot
                ELSE /\ UNCHANGED counter
                     /\ IF Due(s) THEN Goto("start", s) ELSE NextSlot
             /\ UNCHANGED <<ep, who, root, ints, task, drv, events, plugged, ready, plugs, sent, got, due>>

SlotStart == /\ isr.at = "start"
             /\ ep' = [ep EXCEPT ![isr.slot].transfer_started = TRUE]
             /\ Goto("bus", isr.slot)
             /\ UNCHANGED <<who, counter, root, ints, task, drv, events, plugged, ready, plugs, sent, got, due>>

(* The end of a transaction that left e in the slot, and its flag.          *)
SlotEnd(e, flag) ==
    LET s == isr.slot IN
    /\ ep' = [ep EXCEPT ![s] = [e EXCEPT !.transfer_started = FALSE]]
    /\ ints' = IF flag = "none" THEN ints ELSE [ints EXCEPT ![flag] = @ \cup {s}]
    /\ counter' = [counter EXCEPT ![s] = IF Interval[who[s]] > 0 THEN Interval[who[s]] - 1 ELSE @]
    /\ NextSlot

(* pio_usb_ll_transfer_continue with the flag it raises.                    *)
Continue(e, len) == SlotEnd(TransferContinue(e, len),
                            IF LastPacket(e, len) THEN "complete" ELSE "none")

Count(f, n, hit) == f' = IF hit THEN [f EXCEPT ![n] = @ + 1] ELSE f

Fresh_any(pid, e) == TRUE

Fresh(pid, e) == pid = DataPid(e)

(* The device has sent a packet that was received whole: the host confirms  *)
(* it, and the confirmation may be lost, before it looks at the packet's    *)
(* identifier.  A repeated packet is not taken.                             *)
InData(len, confirmed) ==
    LET e == ep[isr.slot]  n == who[isr.slot]
        fresh == Fresh(sent[n] % 2, e)
    IN  /\ Count(got, n, fresh)
        /\ Count(sent, n, confirmed)
        /\ IF fresh THEN Continue(e, len) ELSE SlotEnd(e, "none")

usb_in_transaction ==
    LET e == ep[isr.slot]  n == who[isr.slot] IN
    \/ /\ ready /\ sent[n] < MaxPackets
       /\ \E len \in {MAX_SIZE - 1, MAX_SIZE}, confirmed \in BOOLEAN : InData(len, confirmed)
    \/ /\ ready                                          \* NAK
       /\ SlotEnd(e, "none") /\ UNCHANGED <<sent, got>>
    \/ /\ ready                                          \* STALL
       /\ SlotEnd(TransferComplete(e), "stalled") /\ UNCHANGED <<sent, got>>
    \/ /\ SlotEnd(TransferComplete(e), "error") /\ UNCHANGED <<sent, got>>

(* The device takes a packet with the identifier it expects, confirms every *)
(* packet, and the confirmation may be lost.                                *)
OutData(confirmed) ==
    LET e == ep[isr.slot]  n == who[isr.slot] IN
    /\ Count(got, n, e.buffer.pid = got[n] % 2)
    /\ Count(sent, n, confirmed)
    /\ IF confirmed THEN Continue(e, TransactionLen(e))
                    ELSE SlotEnd(TransferComplete(e), "error")

usb_out_transaction ==
    LET e == ep[isr.slot]  n == who[isr.slot] IN
    \/ /\ ready /\ got[n] < MaxPackets
       /\ \E confirmed \in BOOLEAN : OutData(confirmed)
    \/ /\ ready
       /\ SlotEnd(e, "none") /\ UNCHANGED <<sent, got>>
    \/ /\ ready
       /\ SlotEnd(TransferComplete(e), "stalled") /\ UNCHANGED <<sent, got>>
    \/ /\ SlotEnd(TransferComplete(e), "error") /\ UNCHANGED <<sent, got>>

Transaction == /\ isr.at = "bus"
               /\ IF who[isr.slot] \in Ins THEN usb_in_transaction ELSE usb_out_transaction
               /\ UNCHANGED <<who, root, task, drv, events, plugged, ready, plugs, due>>

(* A new connection is noticed at the end of a frame and needs a reset.     *)
PortCheck == /\ isr.at = "port"
             /\ IF ~root.connected /\ plugged
                THEN /\ root' = [connected |-> TRUE, suspended |-> TRUE]
                     /\ ints' = [ints EXCEPT !.connect = TRUE]
                ELSE UNCHANGED <<root, ints>>
             /\ Goto("irq", 1)
             /\ UNCHANGED <<ep, who, counter, task, drv, events, plugged, ready, plugs, sent, got, due>>

Reported == {who[s] : s \in ints.complete \cup ints.stalled \cup ints.error}

(* The handler passes everything on to the stack, connections before        *)
(* disconnections.                                                          *)
Deliver_full(queue) == IF queue # <<>> THEN queue
                       ELSE IF ints.connect THEN <<"attach">>
                       ELSE IF ints.disconnect THEN <<"remove">> ELSE queue

Deliver(queue) == queue \o (IF ints.connect THEN <<"attach">> ELSE <<>>)
                        \o (IF ints.disconnect THEN <<"remove">> ELSE <<>>)

FrameEnd == /\ isr.at = "irq"
            /\ events' = Deliver(events)
            /\ due' = due \ Reported
            /\ ints' = NoInts
            /\ Goto("idle", 1)
            /\ UNCHANGED <<ep, who, counter, root, task, drv, plugged, ready, plugs, sent, got>>

Frame == FrameBegin \/ SlotVisit \/ SlotStart \/ Transaction \/ PortCheck \/ FrameEnd

-----------------------------------------------------------------------------
(* The task.  On one core it stands still while the interrupt runs.         *)

TaskRuns == OneCore => isr.at = "idle"
TaskIs(op) == TaskRuns /\ task.op = op
Call(op, slot) == task' = [op |-> op, slot |-> slot, still |-> FALSE]

(* The stack takes an event: an attached device is reset, a removed one has *)
(* all its endpoints closed.                                                *)
TakeEvent == /\ TaskIs("idle") /\ events # <<>> /\ drv # "reset"
             /\ events' = Tail(events)
             /\ IF Head(events) = "attach"
                THEN /\ drv' = "reset" /\ UNCHANGED task           \* port_reset_start
                     /\ root' = [root EXCEPT !.suspended = TRUE]
                ELSE /\ drv' = "none" /\ Call("close", 1)
                     /\ UNCHANGED root
             /\ UNCHANGED <<ep, who, counter, ints, isr, plugged, ready, plugs, sent, got, due>>

port_reset_end_suspended ==
    /\ TaskIs("idle") /\ drv = "reset"
    /\ drv' = "enumerate"
    /\ UNCHANGED <<ep, who, counter, root, ints, isr, task, events, plugged, ready, plugs, sent, got, due>>

pio_usb_host_port_reset_end ==
    /\ TaskIs("idle") /\ drv = "reset"
    /\ root' = [root EXCEPT !.suspended = FALSE]
    /\ drv' = "enumerate"
    /\ UNCHANGED <<ep, who, counter, ints, isr, task, events, plugged, ready, plugs, sent, got, due>>

(* Enumeration configures the device: all its endpoints start with DATA0.   *)
Enumerated == /\ TaskIs("idle") /\ drv = "enumerate" /\ Operating /\ plugged
              /\ drv' = "attached" /\ ready' = TRUE
              /\ sent' = [n \in Names |-> 0] /\ got' = [n \in Names |-> 0]
              /\ UNCHANGED <<ep, who, counter, root, ints, isr, task, events, plugged, plugs, due>>

(* pio_usb_ll_configure_endpoint makes the slot valid before all of it is   *)
(* set.                                                                     *)
OpenBegin(n) ==
    /\ TaskIs("idle") /\ drv = "attached" /\ Open(n) = {}
    /\ \E s \in Slots :
          /\ ep[s].size = 0 /\ \A t \in Slots : t < s => ep[t].size > 0
          /\ ep' = [ep EXCEPT ![s].size = MAX_SIZE, ![s].data_id = 0]
          /\ counter' = [counter EXCEPT ![s] = 0]
          /\ task' = [op |-> "open", slot |-> s, still |-> n \in Ins]
          /\ who' = [who EXCEPT ![s] = n]
    /\ UNCHANGED <<root, ints, isr, drv, events, plugged, ready, plugs, sent, got, due>>

OpenEnd == /\ TaskIs("open")
           /\ ep' = [ep EXCEPT ![task.slot].is_tx = ~task.still]
           /\ task' = Idle
           /\ UNCHANGED <<who, counter, root, ints, isr, drv, events, plugged, ready, plugs, sent, got, due>>

pio_usb_host_endpoint_transfer(n) ==
    /\ TaskIs("idle") /\ drv = "attached"
    /\ \E s \in Open(n), len \in Lens[n] :
          /\ ~ep[s].has_transfer
          /\ ep' = [ep EXCEPT ![s] = TransferStart(@, 0, len)]
    /\ due' = due \cup {n}
    /\ UNCHANGED <<who, counter, root, ints, isr, task, drv, events, plugged, ready, plugs, sent, got>>

(* pio_usb_host_endpoint_abort_transfer, in four steps.                     *)
AbortBegin(n) == /\ TaskIs("idle") /\ drv = "attached"
                 /\ \E s \in Open(n) : ep[s].has_transfer /\ Call("mark", s)
                 /\ UNCHANGED <<ep, who, counter, root, ints, isr, drv, events, plugged, ready, plugs, sent, got, due>>

AbortMark == /\ TaskIs("mark")
             /\ ep' = [ep EXCEPT ![task.slot].transfer_aborted = TRUE]
             /\ Call("abort", task.slot)
             /\ UNCHANGED <<who, counter, root, ints, isr, drv, events, plugged, ready, plugs, sent, got, due>>

InTransaction_held(s) == ep[s].has_transfer

InTransaction(s) == ep[s].has_transfer /\ ep[s].transfer_started

(* Waits for a transaction in progress, then reads has_transfer.            *)
AbortRead == /\ TaskIs("abort") /\ ~InTransaction(task.slot)
             /\ task' = [op |-> "aborted", slot |-> task.slot,
                         still |-> ep[task.slot].has_transfer]
             /\ UNCHANGED <<ep, who, counter, root, ints, isr, drv, events, plugged, ready, plugs, sent, got, due>>

AbortEnd == /\ TaskIs("aborted")
            /\ ep' = [ep EXCEPT ![task.slot].has_transfer = @ /\ ~task.still,
                                ![task.slot].transfer_aborted = FALSE]
            /\ due' = IF task.still THEN due \ {who[task.slot]} ELSE due
            /\ task' = Idle
            /\ UNCHANGED <<who, counter, root, ints, isr, drv, events, plugged, ready, plugs, sent, got>>

(* pio_usb_host_close_device, one slot at a time.                           *)
CloseSlot == /\ TaskIs("close")
             /\ LET s == task.slot IN
                /\ IF ep[s].size > 0
                   THEN /\ ep' = [ep EXCEPT ![s].size = 0, ![s].has_transfer = FALSE]
                        /\ due' = due \ {who[s]}
                   ELSE UNCHANGED <<ep, due>>
                /\ IF s + 1 \in Slots THEN Call("close", s + 1) ELSE task' = Idle
             /\ UNCHANGED <<who, counter, root, ints, isr, drv, events, plugged, ready, plugs, sent, got>>

(* What the task does of itself, and what the driver on top of it asks for. *)
Ongoing == \/ TakeEvent \/ pio_usb_host_port_reset_end
           \/ OpenEnd \/ AbortMark \/ AbortRead \/ AbortEnd \/ CloseSlot

Asked == \E n \in Names : OpenBegin(n) \/ pio_usb_host_endpoint_transfer(n) \/ AbortBegin(n)

Task == Ongoing \/ Enumerated \/ Asked

-----------------------------------------------------------------------------
(* The cable.  Unless FastReplug, a device that was pulled out comes back   *)
(* only after the frame that noticed; with it, the host may never notice.   *)
Plug == /\ ~plugged /\ plugs < MaxPlugs
        /\ FastReplug \/ (~root.connected /\ isr.at = "idle")
        /\ plugged' = TRUE /\ plugs' = plugs + 1
        /\ UNCHANGED <<ep, who, counter, root, ints, isr, task, drv, events, ready, sent, got, due>>

Unplug == /\ plugged
          /\ plugged' = FALSE /\ ready' = FALSE
          /\ UNCHANGED <<ep, who, counter, root, ints, isr, task, drv, events, plugs, sent, got, due>>

Next == Frame \/ Task \/ Plug \/ Unplug

Spec == Init /\ [][Next]_vars

(* No endpoint of the device answers NAK to everything for ever.            *)
Answered(s) == isr.slot = s /\ Transaction /\ ints' # ints

(* The timer keeps raising its interrupt, and the interrupt leaves the      *)
(* processor to the task between frames.                                    *)
FairSpec == /\ Spec
            /\ WF_vars(Frame) /\ \A s \in Slots : SF_vars(Answered(s))
            /\ SF_vars(Ongoing) /\ SF_vars(Enumerated)

-----------------------------------------------------------------------------

PoolOK == /\ ep \in [Slots -> Endpoint({0, MAX_SIZE}, Int, {0})]
          /\ who \in [Slots -> Names \cup {NoName}]
          /\ counter \in [Slots -> Nat]

FrameOK == /\ root \in [connected : BOOLEAN, suspended : BOOLEAN]
           /\ ints \in [connect : BOOLEAN, disconnect : BOOLEAN, complete : SUBSET Slots,
                        error : SUBSET Slots, stalled : SUBSET Slots]
           /\ isr \in [at : {"idle", "slot", "start", "bus", "port", "irq"}, slot : Slots]

TaskOK == /\ task \in [op : {"idle", "open", "mark", "abort", "aborted", "close"},
                       slot : Slots \cup {0}, still : BOOLEAN]
          /\ drv \in {"none", "reset", "enumerate", "attached"}
          /\ events \in Seq({"attach", "remove"})
          /\ due \subseteq Names

BusOK == /\ plugged \in BOOLEAN /\ ready \in BOOLEAN /\ plugs \in Nat
         /\ sent \in [Names -> Nat] /\ got \in [Names -> Nat]

(* The pool, the interrupt, the task and the device keep their types.       *)
TypeOK == PoolOK /\ FrameOK /\ TaskOK /\ BusOK

(* A transfer the stack waits for is still in the pool or about to be       *)
(* reported: no frame, abort or disconnection makes one vanish.             *)
NoTransferForgotten ==
    \A n \in due : \E s \in Slots :
        who[s] = n /\ (Active(s) \/ s \in ints.complete \cup ints.stalled \cup ints.error)

(* A transfer has one outcome: success and STALL are reported of transfers  *)
(* the stack waits for, never of one it has aborted, and an abort is about  *)
(* to return TRUE only of a transfer with no outcome yet, or with the error *)
(* that a disconnection in the last moment gave it.                         *)
OneOutcome == /\ {who[s] : s \in ints.complete \cup ints.stalled} \subseteq due
              /\ task.op = "aborted" /\ task.still /\ isr.at = "idle"
                 => who[task.slot] \in due \/ \E i \in DOMAIN events : events[i] = "remove"

(* With a device on the port and nothing left to be told, the stack has it  *)
(* attached or is on the way to that, and does not take it for the device   *)
(* that was there before.                                                   *)
DeviceKnown == isr.at = "idle" /\ plugged /\ root.connected /\ events = <<>>
               => drv # "none" /\ (drv = "attached" => ready)

(* Every transfer comes to an end, whatever its interval, and the stack     *)
(* hears of it or has aborted it.                                           *)
TransferEnds == \A n \in Names : n \in due ~> n \notin due

(* A device that is plugged in is attached, if it is left there.            *)
DeviceServed == plugged ~> (drv = "attached" \/ ~plugged)

Pipe == INSTANCE UsbPipe WITH
          active    <- [n \in Names |-> \E s \in Open(n) : ep[s].has_transfer],
          arrived   <- got,
          confirmed <- sent

(* Packets lost, repeated or confirmed in vain, transfers aborted and       *)
(* cables pulled: every packet is still taken once and in order.            *)
ImplementsPipe == Pipe!Spec
=============================================================================
