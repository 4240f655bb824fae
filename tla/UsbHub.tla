------------------------------- MODULE UsbHub -------------------------------
(* The library's own host stack around its device pool: pio_usb_host_task   *)
(* takes the events of the root port and of the devices, enumerates, and    *)
(* runs the ports of a hub on the root port.  A control request, whose      *)
(* transfer is the subject of UsbControl, is one step that works or fails,  *)
(* and a device that is there may have done what a failed request asked for;*)
(* between two of them the frame interrupt and the bus move on.  External:  *)
(* the cable of the root port, the hub, and the devices on its ports.       *)
EXTENDS Integers, FiniteSets, Functions

CONSTANTS DEVICE_CNT,   \* PIO_USB_DEVICE_CNT
          EP_POOL_CNT,  \* PIO_USB_EP_POOL_CNT
          Ports,        \* ports of the hub
          MaxPlugs,     \* bound: devices plugged in
          MaxFaults     \* bound: requests to a device that is there that fail

ASSUME HubAssumption == /\ DEVICE_CNT \in Nat \ {0} /\ EP_POOL_CNT \in Nat
                        /\ Ports \subseteq Nat /\ MaxPlugs \in Nat /\ MaxFaults \in Nat

VARIABLES root,         \* root_port_t
          devs,         \* pio_usb_device
          ep0,          \* slots of the endpoint pool with endpoint 0 of an address
          task,         \* where the task is: the device, the port in hand, the ports left
          cable, raddr, \* what is on the root port, and its address
          port,         \* the ports of the hub
          plugs, faults,
          mishaps       \* what has happened that the task does not recover from

vars == <<root, devs, ep0, task, cable, raddr, port, plugs, faults, mishaps>>

Idx       == 0 .. DEVICE_CNT - 1
Addresses == 0 .. DEVICE_CNT
None      == -1                    \* NULL, no address, or a port not enabled

ZeroDevice == [connected |-> FALSE, enumerated |-> FALSE, event |-> "NONE", address |-> 0,
               hub |-> FALSE, is_root |-> FALSE, child |-> [p \in Ports |-> 0],
               parent |-> None, parent_port |-> 0,
               armed |-> FALSE, new_data |-> FALSE, bitmap |-> {}]

EmptyPort == [present |-> FALSE, address |-> None, resetting |-> FALSE,
              c_connection |-> FALSE, c_reset |-> FALSE]

At(where, idx) == [at |-> where, idx |-> idx, port |-> 0, left |-> {}]
AtPort(where, p) == [task EXCEPT !.at = where, !.port = p]

Init == /\ root = [connected |-> FALSE, suspended |-> FALSE, event |-> "NONE",
                   device |-> None, addr0_exists |-> FALSE]
        /\ devs = [i \in Idx |-> ZeroDevice]
        /\ ep0 = [a \in Addresses |-> 0]
        /\ task = At("root", 0)
        /\ cable = "none" /\ raddr = None
        /\ port = [p \in Ports |-> EmptyPort]
        /\ plugs = 0 /\ faults = 0 /\ mishaps = {}

-----------------------------------------------------------------------------
(* The bus.                                                                 *)

Listeners(a) == (IF cable # "none" /\ raddr = a THEN {None} ELSE {})
                \cup {p \in Ports : port[p].address = a}

External == UNCHANGED <<cable, raddr, port, plugs>>

(* missed: a change at the root port that the task never saw; rootless: the *)
(* root port connected without a root device; unlocked: address 0 free while*)
(* a device has it; stuck: a device on the hub that will not be tried again;*)
(* pulled: a device pulled out of the hub.                                  *)
Mishaps == {"missed", "rootless", "unlocked", "stuck", "pulled"}
Note(kind, happened) == mishaps' = IF happened THEN mishaps \cup {kind} ELSE mishaps
History == UNCHANGED <<faults, mishaps>>

(* A request to a device of the pool: endpoint 0 of its address is open and *)
(* somebody listens.  It may fail all the same, and only the device knows   *)
(* whether it acted on it.                                                  *)
Answered(i)  == ep0[devs[i].address] > 0 /\ Listeners(devs[i].address) # {}
Reachable(i) == Answered(i) /\ Cardinality(Listeners(devs[i].address)) = 1

Request(i, works, acted) ==
    /\ (works => acted) /\ (acted => Answered(i))
    /\ IF works \/ ~Reachable(i) THEN UNCHANGED faults
                                ELSE faults < MaxFaults /\ faults' = faults + 1

Works(i) == Request(i, TRUE, TRUE)
Fails(i) == Request(i, FALSE, FALSE)

(* The frame interrupt finds the root port connected or disconnected, and   *)
(* overwrites an event the task has not taken yet.                          *)
RootPort ==
    /\ \/ /\ ~root.connected /\ cable # "none"
          /\ root' = [root EXCEPT !.connected = TRUE, !.suspended = TRUE, !.event = "CONNECT"]
       \/ /\ root.connected /\ ~root.suspended /\ cable = "none"
          /\ root' = [root EXCEPT !.connected = FALSE, !.suspended = TRUE, !.event = "DISCONNECT"]
    /\ Note("missed", root.event \notin {"NONE", root'.event})
    /\ UNCHANGED <<devs, ep0, task, faults>> /\ External

Changed == {p \in Ports : port[p].c_connection \/ port[p].c_reset}

(* The hub's interrupt endpoint reports the ports that have changed.        *)
HubReport == /\ cable = "hub" /\ Changed # {} /\ ~root.suspended
             /\ \E i \in Idx : /\ devs[i].connected /\ devs[i].hub /\ devs[i].armed
                               /\ devs[i].address = raddr
                               /\ devs' = [devs EXCEPT ![i].armed = FALSE, ![i].new_data = TRUE,
                                                       ![i].bitmap = Changed,
                                                       ![i].event = "HUB_PORT_CHANGE"]
             /\ UNCHANGED <<root, ep0, task>> /\ External /\ History

(* pio_usb_get_in_data: the application reads the report, and only that     *)
(* starts the next transfer of the endpoint.                                *)
pio_usb_get_in_data ==
    /\ \E i \in Idx : /\ devs[i].new_data /\ ~devs[i].armed
                      /\ devs' = [devs EXCEPT ![i].new_data = FALSE, ![i].armed = TRUE]
    /\ UNCHANGED <<root, ep0, task>> /\ External /\ History

-----------------------------------------------------------------------------
(* The pool.                                                                *)

Vacant == {i \in Idx : ~devs[i].connected}
device_pool_vacant == IF Vacant = {} THEN None ELSE CHOOSE i \in Vacant : \A j \in Vacant : i <= j

Slots == FoldFunction(+, 0, ep0)
Open(pool, a)  == IF Slots < EP_POOL_CNT THEN [pool EXCEPT ![a] = @ + 1] ELSE pool

Close(pool, a) == [pool EXCEPT ![a] = 0]

(* The devices that device_disconnect frees: one, and all below it.         *)
Children(i) == {devs[i].child[p] : p \in Ports} \ {0}
Below(i) == {j \in Idx : \A S \in SUBSET Idx : i \in S /\ (\A k \in S : Children(k) \subseteq S) => j \in S}

(* The slots of endpoint 0 stay, the lock on address 0 may be released.     *)
(* Mutant: the devices below a hub are kept.                                *)
Disconnected_alone(pool, i) == [j \in Idx |-> IF j = i THEN ZeroDevice ELSE pool[j]]

Disconnected(pool, i) == [j \in Idx |-> IF j \in Below(i) THEN ZeroDevice ELSE pool[j]]

HasParent(i)  == devs[i].is_root \/ devs[i].parent # None     \* device->root # NULL
Unlocked(i)   == \E j \in Below(i) : HasParent(j) /\ devs[j].address = 0
Unlock(r, i)  == IF Unlocked(i) THEN [r EXCEPT !.addr0_exists = FALSE] ELSE r

-----------------------------------------------------------------------------
(* pio_usb_host_task: the root port, then the devices in turn.              *)

NextDevice == task' = IF task.idx + 1 \in Idx THEN At("device", task.idx + 1) ELSE At("root", 0)

NewDevice(event, hub_dev, p) ==
    [ZeroDevice EXCEPT !.connected = TRUE, !.event = event,
                       !.is_root = (hub_dev = None), !.parent = hub_dev, !.parent_port = p]

(* The bus in reset: a hub forgets its ports, and sees what is on them when *)
(* it is configured.                                                        *)
BusReset == /\ raddr' = IF cable = "none" THEN None ELSE 0
            /\ port' = [p \in Ports |-> [EmptyPort EXCEPT !.present = port[p].present,
                                                          !.c_connection = port[p].present]]

(* on_device_connect resets the bus; the port operates before it returns.   *)
RootConnect ==
    /\ task.at = "root" /\ root.event = "CONNECT" /\ device_pool_vacant # None
    /\ BusReset
    /\ LET i == device_pool_vacant IN
       IF cable # "none"
       THEN /\ devs' = [devs EXCEPT ![i] = NewDevice("CONNECT", None, 0)]
            /\ root' = [root EXCEPT !.device = i, !.suspended = FALSE]
       ELSE root' = [root EXCEPT !.suspended = FALSE] /\ UNCHANGED devs
    /\ Note("rootless", cable = "none")
    /\ ep0' = Open(ep0, 0)
    /\ task' = At("connected", 0)
    /\ UNCHANGED <<cable, plugs, faults>>

(* Without a place in the pool the root port is left as it is.              *)
RootConnected ==
    /\ \/ /\ task.at = "connected" /\ root' = [root EXCEPT !.addr0_exists = TRUE, !.event = "NONE"]
          /\ UNCHANGED mishaps
       \/ /\ task.at = "root" /\ root.event = "CONNECT" /\ device_pool_vacant = None
          /\ root' = [root EXCEPT !.event = "NONE"]
          /\ Note("rootless", TRUE)
    /\ task' = At("device", 0)
    /\ UNCHANGED <<devs, ep0, faults>> /\ External

(* Mutant: the event is left pending.                                       *)
OffRoot_pending(r) == [r EXCEPT !.device = None, !.suspended = FALSE]

OffRoot(r) == [r EXCEPT !.device = None, !.suspended = FALSE, !.event = "NONE"]

(* The device may be there still, if its enumeration has failed.            *)
RootDisconnect ==
    /\ task.at = "root" /\ root.event = "DISCONNECT" /\ root.device # None
    /\ ep0' = Close(ep0, devs[root.device].address)
    /\ devs' = [devs EXCEPT ![root.device].connected = FALSE, ![root.device].event = "DISCONNECT"]
    /\ root' = OffRoot(root)
    /\ BusReset
    /\ Note("rootless", root.connected)
    /\ task' = At("device", 0)
    /\ UNCHANGED <<cable, plugs, faults>>

(* Or follows root_device when it is NULL, and what happens then is open.   *)
RootFault == /\ \/ task.at = "root" /\ root.event = "DISCONNECT" /\ root.device = None
                \/ task.at = "fault"
             /\ task' = At("fault", 0)
             /\ UNCHANGED <<root, devs, ep0>> /\ External /\ History

RootQuiet == /\ task.at = "root" /\ root.event = "NONE"
             /\ task' = At("device", 0)
             /\ UNCHANGED <<root, devs, ep0>> /\ External /\ History

(* process_hub_event goes by the ports of the report as it is now.          *)
DeviceEvent ==
    /\ task.at = "device"
    /\ LET i == task.idx  event == devs[task.idx].event IN
       \/ event = "NONE" /\ NextDevice /\ UNCHANGED <<root, devs>>
       \/ /\ event = "CONNECT"
          /\ devs' = [devs EXCEPT ![i].event = "NONE"]
          /\ task' = At("descriptor", i) /\ UNCHANGED root
       \/ /\ event = "DISCONNECT"
          /\ devs' = Disconnected(devs, i) /\ root' = Unlock(root, i)
          /\ NextDevice
       \/ /\ event = "HUB_PORT_CHANGE"
          /\ task' = [At("hub", i) EXCEPT !.left = devs[i].bitmap] /\ UNCHANGED <<root, devs>>
    /\ UNCHANGED ep0 /\ External /\ History

-----------------------------------------------------------------------------
(* enumerate_device, at address 0 first.                                    *)

Descriptor ==
    /\ task.at = "descriptor"
    /\ LET i == task.idx IN
       \/ /\ Works(i) /\ task' = At("address", i)
          /\ devs' = [devs EXCEPT ![i].hub = (cable = "hub" /\ Listeners(devs[i].address) = {None})]
          /\ UNCHANGED ep0
       \/ Fails(i) /\ task' = At("failed", i) /\ ep0' = Close(ep0, 0) /\ UNCHANGED devs
    /\ UNCHANGED <<root, mishaps>> /\ External

Readdress(a, b) == /\ raddr' = IF None \in Listeners(a) THEN b ELSE raddr
                   /\ port' = [p \in Ports |-> IF p \in Listeners(a) THEN [port[p] EXCEPT !.address = b]
                                               ELSE port[p]]

SetAddress ==
    /\ task.at = "address"
    /\ \E works, acted \in BOOLEAN :
       LET i == task.idx  a == task.idx + 1 IN
       /\ Request(i, works, acted)
       /\ IF acted THEN Readdress(0, a) ELSE UNCHANGED <<raddr, port>>
       /\ IF works THEN /\ devs' = [devs EXCEPT ![i].address = a]
                        /\ ep0' = Open(Close(ep0, 0), a)
                        /\ task' = At("configure", i)
                   ELSE ep0' = Close(ep0, 0) /\ task' = At("failed", i) /\ UNCHANGED devs
    /\ UNCHANGED <<root, cable, plugs, mishaps>>

(* The rest of the enumeration, and initialize_hub.                         *)
Configure ==
    /\ task.at = "configure"
    /\ LET i == task.idx IN
       \/ /\ Works(i)
          /\ devs' = [devs EXCEPT ![i].enumerated = TRUE, ![i].armed = devs[i].hub]
          /\ root' = [root EXCEPT !.addr0_exists = FALSE]
          /\ NextDevice
       \/ Fails(i) /\ task' = At("failed", i) /\ UNCHANGED <<devs, root>>
       \/ /\ Fails(i) /\ devs[i].hub            \* in initialize_hub
          /\ devs' = [devs EXCEPT ![i].enumerated = TRUE, ![i].armed = TRUE]
          /\ root' = [root EXCEPT !.addr0_exists = FALSE]
          /\ task' = At("failed", i)
    /\ UNCHANGED <<ep0, mishaps>> /\ External

ResetPort(p) == port' = [port EXCEPT ![p].resetting = port[p].present]

(* The retry: a root device is taken off; the port of another is reset, and *)
(* whether or not that worked the device is taken off, with the lock if it  *)
(* had not got its address.                                                 *)
RootFailed ==
    /\ task.at = "failed" /\ devs[task.idx].is_root
    /\ root' = [root EXCEPT !.event = "DISCONNECT"]
    /\ NextDevice
    /\ UNCHANGED <<devs, ep0>> /\ External /\ History

PortFailed ==
    /\ task.at = "failed" /\ ~devs[task.idx].is_root
    /\ \E works, acted \in BOOLEAN :
       LET i == task.idx  p == devs[task.idx].parent_port IN
       /\ Request(devs[i].parent, works, acted)
       /\ IF acted THEN ResetPort(p) ELSE UNCHANGED port
       /\ devs' = Disconnected(devs, i) /\ root' = Unlock(root, i)
       /\ mishaps' = mishaps \cup (IF port[p].present /\ devs[i].address = 0 THEN {"unlocked"} ELSE {})
                             \cup (IF port[p].present /\ ~acted THEN {"stuck"} ELSE {})
    /\ NextDevice
    /\ UNCHANGED <<ep0, cable, raddr, plugs>>

-----------------------------------------------------------------------------
(* process_hub_event: the ports of the bitmap in turn.                      *)

Skip(p) == task' = [task EXCEPT !.at = "hub", !.left = task.left \ {p}]

(* Mutant: the change of a port that has to wait is cleared.                *)
Postpone_cleared(p) == task' = AtPort("clear-connection", p)

Postpone(p) == Skip(p)

HubDone == /\ task.at = "hub" /\ task.left = {}
           /\ devs' = [devs EXCEPT ![task.idx].event = "NONE"]
           /\ NextDevice
           /\ UNCHANGED <<root, ep0>> /\ External /\ History

(* Mutant: a port is reset whoever has address 0.                           *)
Locked_never(r) == FALSE

Locked(r) == r.addr0_exists

(* get_hub_port_status, and what is done without a further request: the     *)
(* device that was on the port is taken off; address 0 in use puts a new    *)
(* one off, with its change left pending.                                   *)
HubStatus ==
    /\ task.at = "hub"
    /\ \E p \in task.left :
       LET h == task.idx
           c == devs[h].child[p]
       IN  /\ \A q \in task.left : p <= q
           /\ \/ Fails(h) /\ Skip(p) /\ UNCHANGED <<root, devs>>
              \/ /\ Works(h) /\ port[p].c_connection
                 /\ IF c # 0 THEN devs' = Disconnected(devs, c) /\ root' = Unlock(root, c)
                             ELSE UNCHANGED <<root, devs>>
                 /\ IF ~port[p].present THEN task' = AtPort("clear-connection", p)
                    ELSE IF Locked(root') THEN Postpone(p)
                    ELSE task' = AtPort("reset", p)
              \/ /\ Works(h) /\ ~port[p].c_connection
                 /\ IF port[p].c_reset THEN task' = AtPort("clear-reset", p) ELSE Skip(p)
                 /\ UNCHANGED <<root, devs>>
    /\ UNCHANGED <<ep0, mishaps>> /\ External

(* The lock is taken whether the request worked or not.  Without a place in *)
(* the pool the device is left alone.                                       *)
HubReset ==
    /\ task.at = "reset"
    /\ LET p == task.port IN
       /\ IF device_pool_vacant # None
          THEN /\ root' = [root EXCEPT !.addr0_exists = TRUE]
               /\ \E works, acted \in BOOLEAN :
                     /\ Request(task.idx, works, acted)
                     /\ IF acted THEN ResetPort(p) ELSE UNCHANGED port
                     /\ Note("stuck", ~acted /\ port[p].present)
          ELSE Note("stuck", port[p].present) /\ UNCHANGED <<root, port, faults>>
       /\ task' = AtPort("clear-connection", p)
    /\ UNCHANGED <<devs, ep0, cable, raddr, plugs>>

(* A change that was not cleared hides the end of the reset from HubStatus. *)
HubClearConnection ==
    /\ task.at = "clear-connection"
    /\ \E works, acted \in BOOLEAN :
          /\ Request(task.idx, works, acted)
          /\ port' = [port EXCEPT ![task.port].c_connection = @ /\ ~acted]
          /\ Note("stuck", ~acted /\ port[task.port].present)
    /\ Skip(task.port)
    /\ UNCHANGED <<root, devs, ep0, cable, raddr, plugs>>

(* assign_new_device_to_port.                                               *)
Assign(h, p) ==
    LET i == device_pool_vacant IN
    IF i # None
    THEN /\ devs' = [devs EXCEPT ![h].child[p] = i,
                                 ![i].parent = h, ![i].parent_port = p,
                                 ![i].connected = TRUE, ![i].event = "CONNECT"]
         /\ ep0' = Open(ep0, 0)
    ELSE UNCHANGED <<devs, ep0>>

HubClearReset ==
    /\ task.at = "clear-reset"
    /\ \E works, acted \in BOOLEAN :
       LET h == task.idx  p == task.port IN
       /\ Request(h, works, acted)
       /\ port' = [port EXCEPT ![p].c_reset = @ /\ ~acted]
       /\ IF works THEN Assign(h, p) ELSE UNCHANGED <<devs, ep0>>
       /\ Note("stuck", acted /\ (works => device_pool_vacant = None))
    /\ Skip(task.port)
    /\ UNCHANGED <<root, cable, raddr, plugs>>

-----------------------------------------------------------------------------
(* The hub finishes the reset of a port; cables.                            *)
HubPort == /\ \E p \in Ports :
                 /\ port[p].resetting
                 /\ port' = [port EXCEPT ![p].resetting = FALSE, ![p].c_reset = TRUE,
                                         ![p].address = 0]
           /\ UNCHANGED <<root, devs, ep0, task, cable, raddr, plugs>> /\ History

(* A cable put back before the frame interrupt has seen it out.             *)
PlugRoot == /\ cable = "none" /\ plugs < MaxPlugs
            /\ cable' \in {"device", "hub"} /\ raddr' = None
            /\ plugs' = plugs + 1
            /\ Note("missed", root.connected)
            /\ UNCHANGED <<root, devs, ep0, task, port, faults>>

PlugPort == /\ cable = "hub" /\ plugs < MaxPlugs
            /\ \E p \in Ports : /\ ~port[p].present
                                /\ port' = [port EXCEPT ![p].present = TRUE, ![p].c_connection = TRUE]
            /\ plugs' = plugs + 1
            /\ UNCHANGED <<root, devs, ep0, task, cable, raddr>> /\ History

(* Everything on the root port goes with its cable.                         *)
UnplugRoot == /\ cable # "none"
              /\ cable' = "none" /\ raddr' = None /\ port' = [p \in Ports |-> EmptyPort]
              /\ UNCHANGED <<root, devs, ep0, task, plugs>> /\ History

UnplugPort == /\ \E p \in Ports :
                    /\ port[p].present
                    /\ port' = [port EXCEPT ![p] = [EmptyPort EXCEPT !.c_connection = TRUE,
                                                                     !.c_reset = port[p].c_reset]]
              /\ Note("pulled", TRUE)
              /\ UNCHANGED <<root, devs, ep0, task, cable, raddr, plugs, faults>>

Enumeration == Descriptor \/ SetAddress \/ Configure \/ RootFailed \/ PortFailed
Hub == HubDone \/ HubStatus \/ HubReset \/ HubClearConnection \/ HubClearReset
Root == RootConnect \/ RootConnected \/ RootDisconnect \/ RootFault \/ RootQuiet
Task == Root \/ DeviceEvent \/ Enumeration \/ Hub
Cable == PlugRoot \/ PlugPort \/ UnplugRoot \/ UnplugPort

Next == Task \/ RootPort \/ HubReport \/ pio_usb_get_in_data \/ HubPort \/ Cable

Spec == Init /\ [][Next]_vars

(* The main loop calls the task and reads the reports of the hub, the frame *)
(* interrupt runs, and the hub answers.                                     *)
FairSpec == /\ Spec /\ WF_vars(Task) /\ WF_vars(RootPort) /\ WF_vars(HubReport)
            /\ WF_vars(pio_usb_get_in_data) /\ WF_vars(HubPort)

-----------------------------------------------------------------------------

Places == {"root", "fault", "connected", "device", "descriptor", "address", "configure", "failed",
           "hub", "reset", "clear-connection", "clear-reset"}

TypeOK == /\ root.device \in Idx \cup {None} /\ root.event \in {"NONE", "CONNECT", "DISCONNECT"}
          /\ \A i \in Idx : /\ devs[i].address \in {0, i + 1}
                            /\ devs[i].parent \in Idx \cup {None}
                            /\ devs[i].event \in {"NONE", "CONNECT", "DISCONNECT", "HUB_PORT_CHANGE"}
          /\ mishaps \subseteq Mishaps /\ faults \in 0 .. MaxFaults
          /\ ep0 \in [Addresses -> Nat] /\ Slots <= EP_POOL_CNT
          /\ task.at \in Places /\ task.idx \in Idx
          /\ raddr \in Addresses \cup {None}

Spared(kinds) == mishaps \cap kinds = {}

(* The lock on address 0 works: one device at most listens on it, with      *)
(* several plugged in at once and requests that fail, as long as the task   *)
(* sees every change at the root port, no device is pulled out of the hub   *)
(* and none fails before it has its address, for then the lock is released  *)
(* while its port is reset.                                                 *)
Address0Alone == Spared({"missed", "unlocked", "pulled"}) => Cardinality(Listeners(0)) <= 1

(* root_device is not NULL when a disconnection is handled.                 *)
RootDeviceKnown == Spared({"rootless"}) => task.at # "fault"

Handled == /\ task.at = "root" /\ root.event = "NONE"
           /\ \A i \in Idx : devs[i].event = "NONE"

(* When the device of the root port has been taken off, no device of the    *)
(* pool is left.                                                            *)
AllFreed == Spared({"missed", "unlocked"}) /\ Handled /\ root.device = None => Vacant = Idx

Served(p) == \E i \in Idx : /\ devs[i].enumerated /\ devs[i].parent # None
                            /\ devs[i].parent_port = p /\ devs[i].address = port[p].address

RootServed == root.device # None /\ devs[root.device].enumerated /\ devs[root.device].address = raddr

(* Every device that stays plugged in, on the root port or on the hub, is   *)
(* enumerated in the end, also if it had to wait for address 0 or failed to *)
(* be configured the first time.                                            *)
DevicesServed ==
    /\ cable # "none" ~> RootServed \/ cable = "none" \/ ~Spared({"missed", "rootless"})
    /\ \A p \in Ports : port[p].present ~> Served(p) \/ ~port[p].present \/ ~Spared(Mishaps)
=============================================================================
