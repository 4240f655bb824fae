---------------------------- MODULE UsbBus_proofs ----------------------------
(* The pool of the host, the ports of a hub and the lock on address 0 agree *)
(* for any number of places, ports, cables and failing requests; and on the *)
(* wire the encoder and the decoder agree on every bit of a stream of any   *)
(* length.                                                                  *)
EXTENDS UsbHub, UsbNrzi, FiniteSetTheorems, SequenceTheorems, WellFoundedInduction, TLAPS

-----------------------------------------------------------------------------
(* The invariants of the host's task, the pool and the hub.                 *)

(* Every value has its type.                                                *)
RootType   == [connected : BOOLEAN, suspended : BOOLEAN, event : {"NONE", "CONNECT", "DISCONNECT"},
               device : Idx \cup {None}, addr0_exists : BOOLEAN]
DeviceType == [connected : BOOLEAN, enumerated : BOOLEAN,
               event : {"NONE", "CONNECT", "DISCONNECT", "HUB_PORT_CHANGE"},
               address : Addresses, hub : BOOLEAN, is_root : BOOLEAN,
               child : [Ports -> Idx], parent : Idx \cup {None}, parent_port : Nat,
               armed : BOOLEAN, new_data : BOOLEAN, bitmap : SUBSET Ports]
PortType   == [present : BOOLEAN, address : Addresses \cup {None}, resetting : BOOLEAN,
               c_connection : BOOLEAN, c_reset : BOOLEAN]
TaskType   == [at : Places, idx : Idx, port : Nat, left : SUBSET Ports]

HubTypes == /\ root \in RootType /\ devs \in [Idx -> DeviceType] /\ port \in [Ports -> PortType]
            /\ task \in TaskType /\ mishaps \in SUBSET Mishaps
            /\ cable \in {"none", "device", "hub"} /\ raddr \in Addresses \cup {None}
            /\ \A i \in Idx : devs[i].address \in {0, i + 1}

HubTask == {"hub", "reset", "clear-connection", "clear-reset"}

(* The task's pass over the devices comes to place i yet.                   *)
Ahead(i) == /\ task.at \notin {"root", "connected", "fault"}
            /\ task.idx < i \/ (task.idx = i /\ task.at = "device")

(* The highest address that a pass may have given out so far.               *)
Given == IF task.at \in {"configure", "failed"} THEN task.idx + 1 ELSE task.idx

(* A root device that was disconnected is freed in the same pass, and until *)
(* then no hub answers: a place is never taken with the flag of its former  *)
(* device.                                                                  *)
Pass ==
    /\ \A i \in Idx : ~devs[i].connected => ~devs[i].is_root \/ devs[i].event = "DISCONNECT"
    /\ \A i \in Idx : devs[i].event = "DISCONNECT" =>
          /\ Ahead(i) /\ \A a \in Addresses : a > Given => Listeners(a) = {}
          /\ task.at \in HubTask => devs[task.idx].address = task.idx + 1
    /\ \A i \in Idx : devs[i].armed \/ devs[i].new_data \/ devs[i].event = "HUB_PORT_CHANGE"
          => devs[i].address = i + 1
    /\ task.at = "configure" => devs[task.idx].address = task.idx + 1

(* Until the root port is connected without a root device.                  *)
Current == task.at \in {"descriptor", "address", "configure", "failed"}

RootOk ==
    /\ task.at # "fault"
    /\ root.event = "DISCONNECT" => root.device # None
    /\ root.device = None /\ root.connected => root.event = "CONNECT" /\ root.suspended
    /\ task.at = "connected" => root.device # None
    /\ Current /\ devs[task.idx].is_root => root.device # None
    /\ \A i \in Idx : devs[i].event = "CONNECT" /\ devs[i].is_root =>
          root.device # None /\ (task.at = "connected" \/ Ahead(i))

RootInv == Pass /\ (Spared({"rootless"}) => RootOk)

(* As long as the task sees every change of the root port and no lock is    *)
(* released too early, only the first place holds a root device, ...        *)
Freeing == task.at = "device" /\ task.idx = 0 /\ devs[0].event = "DISCONNECT"

RootKnown ==
    /\ root.device \in {0, None}
    /\ root.event = "CONNECT" => root.connected /\ (root.device = None \/ task.at = "connected")
    /\ task.at = "connected" => /\ root.event = "CONNECT"
                                /\ root.device = None \/ devs[0].event = "CONNECT"
    /\ ~root.connected => root.event = "DISCONNECT" \/ root.device = None

(* ... the pool is the device of the root port and those on its ports, ...  *)
Forest ==
    /\ root.device = 0 <=> devs[0].connected
    /\ root.device = None => (\A i \in Idx : ~devs[i].connected) \/ Freeing
    /\ devs[0].event = "DISCONNECT" => root.device = None
    /\ devs[0].connected => devs[0].is_root
    /\ \A i \in Idx \ {0} : devs[i].connected =>
          /\ devs[i].parent = 0 /\ ~devs[i].is_root
          /\ devs[i].parent_port \in Ports /\ devs[0].child[devs[i].parent_port] = i
          /\ devs[i].child = [p \in Ports |-> 0] /\ devs[i].event \in {"NONE", "CONNECT"}
          /\ ~devs[i].hub /\ ~devs[i].armed /\ ~devs[i].new_data
          /\ devs[0].address # 0
    /\ \A i \in Idx : ~devs[i].connected => devs[i] = ZeroDevice \/ (i = 0 /\ Freeing)

(* ... only the root device is a hub, and its ports are at rest before it   *)
(* has its own address.                                                     *)
Quiet(p) == ~port[p].resetting /\ ~port[p].c_reset /\ port[p].address = None

HubKnown ==
    /\ devs[0].armed \/ devs[0].new_data \/ devs[0].event = "HUB_PORT_CHANGE"
          => devs[0].hub /\ devs[0].address # 0
    /\ task.at \in HubTask => task.idx = 0 /\ devs[0].event = "HUB_PORT_CHANGE"
    /\ task.at \in HubTask \ {"hub"} => task.port \in Ports
    /\ task.at = "clear-reset" => port[task.port].c_reset \/ raddr \in {0, None}
    /\ raddr \in {0, None} => \A p \in Ports : Quiet(p)
    /\ cable = "none" => raddr = None
    /\ raddr = 0 => root.device = None \/ devs[0].address = 0
    /\ \A p \in Ports : port[p].present => cable = "hub"

(* Who may answer at address 0: the device behind a port that is being or   *)
(* was reset, and a device of the pool without an address.                  *)
Resets  == {p \in Ports : port[p].resetting \/ port[p].c_reset}
Unnamed == {i \in Idx : devs[i].connected /\ devs[i].address = 0}
Naming  == task.at = "configure" \/ (task.at = "failed" /\ ~devs[task.idx].is_root)

(* The device that the task enumerates; ...                                 *)
Stages ==
    /\ Current => devs[task.idx].connected /\ devs[task.idx].event \in {"NONE", "HUB_PORT_CHANGE"}
    /\ task.at \in {"descriptor", "address"} => devs[task.idx].address = 0
    /\ task.at = "configure" => devs[task.idx].address # 0
    /\ \A i \in Idx : devs[i].event = "CONNECT" => i \in Unnamed

(* ... there is one without an address at a time, ...                       *)
Alone == /\ \A p, q \in Resets : p = q
         /\ \A i, j \in Unnamed : i = j
         /\ Resets = {} \/ Unnamed = {}
         /\ \A p \in Ports : ~(port[p].resetting /\ port[p].c_reset)
         /\ Naming => Resets = {}
         /\ Naming /\ devs[task.idx].address # 0 => Unnamed = {}

(* ... the lock is held as long as there is one, ...                        *)
Lock == /\ Resets # {} \/ Unnamed # {} \/ Naming => root.addr0_exists \/ task.at = "connected"
        /\ task.at = "reset" => ~root.addr0_exists

(* ... and a port that is reset has no device yet.                          *)
Waiting == \A i \in Idx \ {0} : devs[i].connected =>
              /\ devs[i].parent_port \notin Resets
              /\ (task.at = "reset" => devs[i].parent_port # task.port)

PoolOk == RootKnown /\ Forest /\ HubKnown /\ Stages /\ Alone /\ Lock /\ Waiting

(* And as long as no device is pulled out of the hub, the lock is held for  *)
(* every port that listens on address 0.                                    *)
Busy == {p \in Ports : port[p].resetting \/ port[p].c_reset \/ port[p].address = 0}

Held ==
    /\ \A p, q \in Busy : p = q
    /\ Busy # {} => root.addr0_exists
    /\ Naming /\ devs[task.idx].address # 0 => Busy = {}
    /\ root.device # None /\ raddr \notin {0, None} =>
          \A p \in Ports : port[p].c_connection \/ ~port[p].present => devs[0].child[p] = 0
    /\ root.device # None /\ devs[0].address = 0 => \A p \in Ports : devs[0].child[p] = 0
    /\ task.at = "clear-reset" /\ raddr \notin {0, None} => ~port[task.port].c_connection
    /\ \A p \in Resets : port[p].present

HubInv == /\ HubTypes /\ RootInv
          /\ Spared({"missed", "unlocked"}) => PoolOk
          /\ Spared({"missed", "unlocked", "pulled"}) => Held

-----------------------------------------------------------------------------
(* What the steps below lean on.                                            *)

(* The indices, the addresses and NULL.                                     *)
LEMMA Numbers == /\ Idx \subseteq Nat /\ 0 \in Idx /\ None \notin Idx /\ None # 0
                 /\ None \notin Addresses /\ 0 \in Addresses
                 /\ \A i \in Idx : i + 1 \in Addresses /\ i + 1 # 0
BY HubAssumption DEF Idx, Addresses, None

(* device_pool_vacant finds the first place that is free, if there is one.  *)
LEMMA FirstVacant == /\ Vacant # {} => device_pool_vacant \in Vacant
                     /\ 0 \in Vacant => device_pool_vacant = 0
                     /\ Vacant = {} => device_pool_vacant = None
                     /\ device_pool_vacant # None => device_pool_vacant \in Vacant
<1>1. Vacant \subseteq Nat
  BY Numbers DEF Vacant
<1>2. ASSUME Vacant # {} PROVE \E i \in Vacant : \A j \in Vacant : i <= j
  <2> DEFINE R == {ss \in Nat \X Nat : ss[1] < ss[2]}
  <2>1. IsWellFoundedOn(R, Nat)
    <3>1. R = OpToRel(<, Nat)
      BY Zenon DEF OpToRel
    <3> QED BY <3>1, NatLessThanWellFounded, Zenon
  <2>2. PICK x \in Vacant : \A y \in Vacant : ~ (<<y, x>> \in R)
    <3> HIDE DEF R
    <3> QED BY <1>1, <1>2, <2>1, WFMin, Zenon
  <2>3. \A y \in Vacant : ~ (y < x)
    BY <1>1, <2>2
  <2> QED BY <1>1, <2>3
<1>3. Vacant # {} => /\ device_pool_vacant \in Vacant
                     /\ \A j \in Vacant : device_pool_vacant <= j
  BY <1>2 DEF device_pool_vacant
<1>4. ASSUME 0 \in Vacant PROVE device_pool_vacant = 0
  <2>1. device_pool_vacant \in Vacant /\ device_pool_vacant <= 0
    BY <1>3, <1>4
  <2>2. device_pool_vacant \in Nat
    BY <1>1, <2>1
  <2> QED BY <2>1, <2>2
<1>5. Vacant = {} => device_pool_vacant = None
  BY DEF device_pool_vacant
<1> QED BY <1>3, <1>4, <1>5

(* A device with nothing on its ports is alone below itself.                *)
LEMMA BelowAlone == ASSUME NEW i \in Idx, \A p \in Ports : devs[i].child[p] = 0
                    PROVE  Below(i) = {i}
<1>1. Children(i) = {}
  BY DEF Children
<1>2. Below(i) \subseteq {i}
  <2> SUFFICES ASSUME NEW j \in Below(i) PROVE j = i
    OBVIOUS
  <2>1. {i} \in SUBSET Idx /\ i \in {i} /\ (\A k \in {i} : Children(k) \subseteq {i})
    BY <1>1
  <2>2. \A S \in SUBSET Idx : i \in S /\ (\A k \in S : Children(k) \subseteq S) => j \in S
    BY DEF Below
  <2> QED BY <2>1, <2>2
<1>3. i \in Below(i)
  BY DEF Below
<1> QED BY <1>2, <1>3

(* What is on a port of a device is below it.                               *)
LEMMA BelowChildren == ASSUME NEW i \in Idx
                       PROVE  /\ i \in Below(i) /\ Below(i) \subseteq Idx
                              /\ \A p \in Ports : devs[i].child[p] \in Idx \ {0} => devs[i].child[p] \in Below(i)
<1>1. i \in Below(i) /\ Below(i) \subseteq Idx
  BY DEF Below
<1>2. ASSUME NEW p \in Ports, devs[i].child[p] \in Idx \ {0}
      PROVE  devs[i].child[p] \in Below(i)
  <2>1. devs[i].child[p] \in Children(i)
    BY <1>2 DEF Children
  <2> QED BY <1>2, <2>1 DEF Below
<1> QED BY <1>1, <1>2

(* One device of the pool changes.                                          *)
LEMMA OneChanged == ASSUME devs \in [Idx -> DeviceType], NEW i \in Idx, NEW d \in DeviceType,
                           devs' = [devs EXCEPT ![i] = d]
                    PROVE  /\ devs' \in [Idx -> DeviceType] /\ devs'[i] = d
                           /\ \A j \in Idx : j # i => devs'[j] = devs[j]
OBVIOUS


(* What a note leaves of the history.                                       *)
LEMMA Noted == ASSUME mishaps \in SUBSET Mishaps, NEW kind \in Mishaps, NEW happened, Note(kind, happened)
               PROVE  /\ mishaps' \in SUBSET Mishaps /\ mishaps \subseteq mishaps'
                      /\ (happened => kind \in mishaps')
BY DEF Note

(* Without a note of these kinds now there was none before.                 *)
LEMMA SparedBefore == ASSUME mishaps \subseteq mishaps', NEW kinds, Spared(kinds)' PROVE Spared(kinds)
BY DEF Spared

(* A request is acted on by somebody who listens.                           *)
LEMMA Heard == ASSUME NEW i, NEW works \in BOOLEAN, NEW acted \in BOOLEAN, Request(i, works, acted)
               PROVE  (works => acted) /\ (acted => Listeners(devs[i].address) # {})
BY DEF Request, Answered

(* A request that works is heard by somebody.                               *)
LEMMA HeardWorks == ASSUME NEW i, Works(i) PROVE Listeners(devs[i].address) # {}
BY Heard DEF Works

(* The next device, or the root port again.                                 *)
LEMMA NextPlace == ASSUME task \in TaskType, NextDevice
                   PROVE  /\ task' \in TaskType /\ task'.at \in {"root", "device"}
                          /\ task'.at = "device" => task'.idx = task.idx + 1
                          /\ \A i \in Idx : i > task.idx => task'.at = "device"
<1>1. CASE task.idx + 1 \in Idx
  BY <1>1, Numbers DEF NextDevice, At, Places, TaskType
<1>2. CASE task.idx + 1 \notin Idx
  <2>1. task' = At("root", 0)
    BY <1>2 DEF NextDevice
  <2>2. task.idx \in 0 .. DEVICE_CNT - 1 /\ DEVICE_CNT \in Nat
    BY HubAssumption DEF TaskType, Idx
  <2>3. ~ (\E i \in Idx : i > task.idx)
    BY <1>2, <2>2 DEF Idx
  <2> QED BY <2>1, <2>3, Numbers DEF At, Places, TaskType
<1> QED BY <1>1, <1>2

(* The next port of the report.                                             *)
LEMMA NextPort == ASSUME task \in TaskType, NEW p, Skip(p)
                  PROVE  task' \in TaskType /\ task'.at = "hub" /\ task'.idx = task.idx
BY DEF Skip, TaskType, Places

(* Another step for a port.                                                 *)
LEMMA PortPlace == ASSUME task \in TaskType, NEW p \in Nat, NEW w \in Places, task' = AtPort(w, p)
                   PROVE  task' \in TaskType /\ task'.at = w /\ task'.idx = task.idx /\ task'.port = p
BY DEF AtPort, TaskType

(* The place a task begins at.                                              *)
LEMMA NewPlace == ASSUME NEW w \in Places, NEW i \in Idx, task' = At(w, i)
                  PROVE  task' \in TaskType /\ task'.at = w /\ task'.idx = i
BY Numbers DEF At, TaskType

(* What an event leaves of a device.                                        *)
SameTree == \A i \in Idx : /\ devs'[i].connected <=> devs[i].connected
                           /\ devs'[i].address = devs[i].address
                           /\ devs'[i].is_root <=> devs[i].is_root
                           /\ devs'[i].hub <=> devs[i].hub
                           /\ devs'[i].child = devs[i].child
                           /\ devs'[i].parent = devs[i].parent
                           /\ devs'[i].parent_port = devs[i].parent_port

(* What a new event of one device leaves as it is.                          *)
LEMMA EventSet ==
    ASSUME devs \in [Idx -> DeviceType], NEW i \in Idx,
           NEW e \in {"NONE", "CONNECT", "DISCONNECT", "HUB_PORT_CHANGE"},
           devs' = [devs EXCEPT ![i].event = e]
    PROVE  /\ devs' \in [Idx -> DeviceType] /\ SameTree /\ devs'[i].event = e
           /\ \A j \in Idx : /\ devs'[j].armed <=> devs[j].armed
                             /\ devs'[j].new_data <=> devs[j].new_data
                             /\ j # i => devs'[j] = devs[j]
<1> DEFINE d == [devs[i] EXCEPT !.event = e]
<1>1. devs[i] \in DeviceType
  OBVIOUS
<1>2. /\ d \in DeviceType /\ d.event = e /\ d.connected = devs[i].connected
      /\ d.address = devs[i].address /\ d.is_root = devs[i].is_root /\ d.hub = devs[i].hub
      /\ d.child = devs[i].child /\ d.parent_port = devs[i].parent_port /\ d.parent = devs[i].parent
      /\ d.armed = devs[i].armed /\ d.new_data = devs[i].new_data
  BY <1>1 DEF DeviceType
<1>3. devs' = [devs EXCEPT ![i] = d]
  OBVIOUS
<1> HIDE DEF d
<1>4. /\ devs' \in [Idx -> DeviceType] /\ devs'[i] = d
      /\ \A j \in Idx : j # i => devs'[j] = devs[j]
  BY <1>2, <1>3, OneChanged
<1>5. ASSUME NEW j \in Idx
      PROVE /\ devs'[j].connected <=> devs[j].connected
            /\ devs'[j].address = devs[j].address
            /\ devs'[j].is_root <=> devs[j].is_root
            /\ devs'[j].hub <=> devs[j].hub
            /\ devs'[j].child = devs[j].child
            /\ devs'[j].parent = devs[j].parent
            /\ devs'[j].parent_port = devs[j].parent_port
            /\ devs'[j].armed <=> devs[j].armed
            /\ devs'[j].new_data <=> devs[j].new_data
  <2>1. CASE j = i
    BY <2>1, <1>2, <1>4
  <2>2. CASE j # i
    BY <2>2, <1>4
  <2> QED BY <2>1, <2>2
<1>6. SameTree
  BY <1>5 DEF SameTree
<1> QED BY <1>2, <1>4, <1>5, <1>6

(* The devices that a disconnection frees.                                  *)
LEMMA Frees == ASSUME devs \in [Idx -> DeviceType], NEW i \in Idx, devs' = Disconnected(devs, i)
               PROVE  /\ devs' \in [Idx -> DeviceType]
                      /\ \A j \in Idx : \/ j \in Below(i) /\ devs'[j] = ZeroDevice
                                        \/ j \notin Below(i) /\ devs'[j] = devs[j]
                      /\ devs'[i] = ZeroDevice
<1>1. ZeroDevice \in DeviceType
  BY Numbers, HubAssumption DEF ZeroDevice, DeviceType
<1>2. i \in Below(i)
  BY BelowChildren
<1> QED BY <1>1, <1>2 DEF Disconnected

(* A place of the pool that is free.                                        *)
LEMMA Zero == /\ ZeroDevice \in DeviceType /\ ~ZeroDevice.connected /\ ZeroDevice.event = "NONE"
              /\ ZeroDevice.address = 0 /\ ~ZeroDevice.hub /\ ~ZeroDevice.is_root
              /\ ~ZeroDevice.armed /\ ~ZeroDevice.new_data /\ ZeroDevice.child = [p \in Ports |-> 0]
BY Numbers, HubAssumption DEF ZeroDevice, DeviceType

(* What the lock is after a disconnection.                                  *)
LEMMA Releases == ASSUME root \in RootType, NEW i, root' = Unlock(root, i)
                  PROVE  /\ root' \in RootType /\ root'.event = root.event /\ root'.device = root.device
                         /\ root'.connected <=> root.connected
                         /\ root'.suspended <=> root.suspended
                         /\ root'.addr0_exists => root.addr0_exists
                         /\ ~Unlocked(i) => root' = root
<1>1. CASE Unlocked(i)
  <2>1. root' = [root EXCEPT !.addr0_exists = FALSE]
    BY <1>1 DEF Unlock
  <2> QED BY <1>1, <2>1 DEF RootType
<1>2. CASE ~Unlocked(i)
  BY <1>2 DEF Unlock
<1> QED BY <1>1, <1>2

(* A bus in reset.                                                          *)
LEMMA BusRests == ASSUME port \in [Ports -> PortType], cable \in {"none", "device", "hub"}, BusReset
                  PROVE  /\ port' \in [Ports -> PortType] /\ raddr' \in {0, None}
                         /\ raddr' \in Addresses \cup {None}
                         /\ (cable = "none" => raddr' = None)
                         /\ \A p \in Ports : Quiet(p)' /\ (port'[p].present <=> port[p].present)
<1>1. raddr' \in {0, None} /\ (cable = "none" => raddr' = None) /\ 0 \in Addresses
  BY Numbers DEF BusReset
<1>2. ASSUME NEW p \in Ports
      PROVE port'[p] \in PortType /\ Quiet(p)' /\ (port'[p].present <=> port[p].present)
  <2>1. port[p] \in PortType
    OBVIOUS
  <2>2. port'[p] = [EmptyPort EXCEPT !.present = port[p].present, !.c_connection = port[p].present]
    BY DEF BusReset
  <2> QED BY <2>1, <2>2, Numbers DEF EmptyPort, PortType, Quiet
<1>3. port' = [p \in Ports |-> port'[p]]
  BY DEF BusReset
<1> QED BY <1>1, <1>2, <1>3

(* One port of the hub changes.                                             *)
LEMMA OnePort == ASSUME port \in [Ports -> PortType], NEW p \in Ports, NEW q \in PortType,
                        port' = [port EXCEPT ![p] = q]
                 PROVE  /\ port' \in [Ports -> PortType] /\ port'[p] = q
                        /\ \A r \in Ports : r # p => port'[r] = port[r]
OBVIOUS

(* All of a port but its reset.                                             *)
SamePort(r) == /\ port'[r].address = port[r].address
               /\ port'[r].present <=> port[r].present
               /\ port'[r].c_reset <=> port[r].c_reset
               /\ port'[r].c_connection <=> port[r].c_connection

(* A port of the hub is reset if something is on it.                        *)
LEMMA ResetPortDoes == ASSUME port \in [Ports -> PortType], NEW p, ResetPort(p)
                       PROVE  /\ port' \in [Ports -> PortType]
                              /\ \A r \in Ports :
                                 /\ r # p => port'[r] = port[r]
                                 /\ SamePort(r)
                                 /\ port'[r].resetting => port[r].resetting \/ (r = p /\ port[p].present)
<1>1. CASE p \in Ports
  <2> DEFINE q == [port[p] EXCEPT !.resetting = port[p].present]
  <2>1. port[p] \in PortType
    BY <1>1
  <2>2. /\ q \in PortType /\ q.address = port[p].address /\ q.present = port[p].present
        /\ q.c_reset = port[p].c_reset /\ q.c_connection = port[p].c_connection
        /\ q.resetting = port[p].present
    BY <2>1 DEF PortType
  <2>3. port' = [port EXCEPT ![p] = q]
    BY <1>1 DEF ResetPort
  <2> HIDE DEF q
  <2>4. port' \in [Ports -> PortType] /\ port'[p] = q /\ \A r \in Ports : r # p => port'[r] = port[r]
    BY <1>1, <2>2, <2>3, OnePort
  <2> QED BY <1>1, <2>2, <2>4 DEF SamePort
<1>2. CASE p \notin Ports
  <2>1. port' = port
    BY <1>2 DEF ResetPort
  <2> QED BY <2>1 DEF SamePort
<1> QED BY <1>1, <1>2

(* And only if the hub has acted on the request.                            *)
LEMMA PortResets == ASSUME port \in [Ports -> PortType], NEW p, NEW acted \in BOOLEAN,
                           IF acted THEN ResetPort(p) ELSE UNCHANGED port
                    PROVE  /\ port' \in [Ports -> PortType]
                           /\ \A r \in Ports : port'[r].address = port[r].address
<1>1. CASE acted
  <2>1. ResetPort(p)
    BY <1>1
  <2> QED BY <2>1, ResetPortDoes DEF SamePort
<1>2. CASE ~acted
  BY <1>2
<1> QED BY <1>1, <1>2


-----------------------------------------------------------------------------
(* What each step does to the fields that the invariants speak of.          *)

(* The frame interrupt finds a connection or a disconnection.               *)
LEMMA RootPortDoes ==
    ASSUME HubTypes, RootPort
    PROVE  /\ UNCHANGED <<devs, task, cable, raddr, port>> /\ root' \in RootType
           /\ root'.device = root.device /\ root'.suspended
           /\ root'.addr0_exists <=> root.addr0_exists
           /\ \/ /\ ~root.connected /\ cable # "none" /\ root'.connected /\ root'.event = "CONNECT"
              \/ /\ root.connected /\ ~root.suspended /\ cable = "none"
                 /\ ~root'.connected /\ root'.event = "DISCONNECT"
           /\ mishaps' \in SUBSET Mishaps /\ mishaps \subseteq mishaps'
           /\ root.event \notin {"NONE", root'.event} => "missed" \in mishaps'
<1>1. root \in RootType
  BY DEF HubTypes
<1>2. /\ root' \in RootType
      /\ root'.device = root.device /\ root'.addr0_exists = root.addr0_exists /\ root'.suspended
      /\ \/ /\ ~root.connected /\ cable # "none" /\ root'.connected /\ root'.event = "CONNECT"
         \/ /\ root.connected /\ ~root.suspended /\ cable = "none"
            /\ ~root'.connected /\ root'.event = "DISCONNECT"
  <2> USE DEF RootType
  <2>2. CASE /\ ~root.connected /\ cable # "none"
             /\ root' = [root EXCEPT !.connected = TRUE, !.suspended = TRUE, !.event = "CONNECT"]
    BY <1>1, <2>2
  <2>3. CASE /\ root.connected /\ ~root.suspended /\ cable = "none"
             /\ root' = [root EXCEPT !.connected = FALSE, !.suspended = TRUE, !.event = "DISCONNECT"]
    BY <1>1, <2>3
  <2> QED BY <2>2, <2>3 DEF RootPort
<1>3. Note("missed", root.event \notin {"NONE", root'.event})
  BY DEF RootPort
<1>4. /\ mishaps' \in SUBSET Mishaps /\ mishaps \subseteq mishaps'
      /\ root.event \notin {"NONE", root'.event} => "missed" \in mishaps'
  BY <1>3, Noted DEF HubTypes, Mishaps
<1> QED BY <1>2, <1>4 DEF RootPort, External

(* A report of the hub.                                                     *)
LEMMA HubReportDoes ==
    ASSUME HubTypes, HubReport
    PROVE  /\ UNCHANGED <<root, task, cable, raddr, port, mishaps>> /\ cable = "hub" /\ ~root.suspended
           /\ devs' \in [Idx -> DeviceType] /\ SameTree
           /\ \E i \in Idx : /\ devs[i].connected /\ devs[i].hub /\ devs[i].armed
                             /\ devs'[i].event = "HUB_PORT_CHANGE"
                             /\ \A j \in Idx \ {i} : devs'[j] = devs[j]
<1>1. PICK i \in Idx : /\ devs[i].connected /\ devs[i].hub /\ devs[i].armed
                       /\ devs' = [devs EXCEPT ![i].armed = FALSE, ![i].new_data = TRUE,
                                               ![i].bitmap = Changed, ![i].event = "HUB_PORT_CHANGE"]
  BY DEF HubReport
<1> DEFINE d == [devs[i] EXCEPT !.armed = FALSE, !.new_data = TRUE, !.bitmap = Changed,
                                !.event = "HUB_PORT_CHANGE"]
<1>2. devs \in [Idx -> DeviceType] /\ devs[i] \in DeviceType /\ Changed \in SUBSET Ports
  BY DEF HubTypes, Changed
<1>3. /\ d \in DeviceType /\ d.event = "HUB_PORT_CHANGE" /\ d.connected = devs[i].connected
      /\ d.address = devs[i].address /\ d.is_root = devs[i].is_root /\ d.hub = devs[i].hub
      /\ d.child = devs[i].child /\ d.parent_port = devs[i].parent_port /\ d.parent = devs[i].parent
  BY <1>2 DEF DeviceType
<1>4. devs' = [devs EXCEPT ![i] = d]
  BY <1>1, <1>2
<1> HIDE DEF d
<1>5. devs' \in [Idx -> DeviceType] /\ devs'[i] = d /\ \A j \in Idx : j # i => devs'[j] = devs[j]
  BY <1>2, <1>3, <1>4, OneChanged
<1>6. ASSUME NEW j \in Idx
      PROVE /\ devs'[j].connected <=> devs[j].connected
            /\ devs'[j].address = devs[j].address
            /\ devs'[j].is_root <=> devs[j].is_root
            /\ devs'[j].hub <=> devs[j].hub
            /\ devs'[j].child = devs[j].child
            /\ devs'[j].parent = devs[j].parent
            /\ devs'[j].parent_port = devs[j].parent_port
  BY <1>3, <1>5
<1> QED BY <1>1, <1>3, <1>5, <1>6 DEF HubReport, External, History, SameTree

(* The next report of the hub is asked for.                                 *)
LEMMA GetInDataDoes ==
    ASSUME HubTypes, pio_usb_get_in_data
    PROVE  /\ UNCHANGED <<root, task, cable, raddr, port, mishaps>>
           /\ devs' \in [Idx -> DeviceType] /\ SameTree
           /\ \E i \in Idx : /\ devs[i].new_data /\ devs'[i].event = devs[i].event
                             /\ \A j \in Idx \ {i} : devs'[j] = devs[j]
<1>1. PICK i \in Idx : /\ devs[i].new_data
                       /\ devs' = [devs EXCEPT ![i].new_data = FALSE, ![i].armed = TRUE]
  BY DEF pio_usb_get_in_data
<1> DEFINE d == [devs[i] EXCEPT !.new_data = FALSE, !.armed = TRUE]
<1>2. devs \in [Idx -> DeviceType] /\ devs[i] \in DeviceType
  BY DEF HubTypes
<1>3. /\ d \in DeviceType /\ d.event = devs[i].event /\ d.connected = devs[i].connected
      /\ d.address = devs[i].address /\ d.is_root = devs[i].is_root /\ d.hub = devs[i].hub
      /\ d.child = devs[i].child /\ d.parent_port = devs[i].parent_port /\ d.parent = devs[i].parent
  BY <1>2 DEF DeviceType
<1>4. devs' = [devs EXCEPT ![i] = d]
  BY <1>1, <1>2
<1> HIDE DEF d
<1>5. devs' \in [Idx -> DeviceType] /\ devs'[i] = d /\ \A j \in Idx : j # i => devs'[j] = devs[j]
  BY <1>2, <1>3, <1>4, OneChanged
<1>6. ASSUME NEW j \in Idx
      PROVE /\ devs'[j].connected <=> devs[j].connected
            /\ devs'[j].address = devs[j].address
            /\ devs'[j].is_root <=> devs[j].is_root
            /\ devs'[j].hub <=> devs[j].hub
            /\ devs'[j].child = devs[j].child
            /\ devs'[j].parent = devs[j].parent
            /\ devs'[j].parent_port = devs[j].parent_port
  BY <1>3, <1>5
<1> QED BY <1>1, <1>3, <1>5, <1>6 DEF pio_usb_get_in_data, External, History, SameTree

(* A connection of the root port takes a place of the pool, unless the      *)
(* device has gone.                                                         *)
LEMMA RootConnectDoes ==
    ASSUME HubTypes, RootConnect
    PROVE  /\ task.at = "root" /\ root.event = "CONNECT" /\ device_pool_vacant \in Vacant
           /\ UNCHANGED cable /\ BusReset
           /\ root' \in RootType /\ root'.event = root.event /\ ~root'.suspended
           /\ root'.connected <=> root.connected
           /\ root'.addr0_exists <=> root.addr0_exists
           /\ devs' \in [Idx -> DeviceType]
           /\ \A j \in Idx : \/ devs'[j] = devs[j]
                             \/ j = device_pool_vacant /\ cable # "none"
           /\ cable # "none" =>
                 LET d == devs'[device_pool_vacant]
                 IN  /\ root'.device = device_pool_vacant
                     /\ d.connected /\ d.is_root /\ d.address = 0 /\ d.event = "CONNECT"
                     /\ ~d.hub /\ ~d.armed /\ ~d.new_data /\ d.child = [p \in Ports |-> 0]
           /\ cable = "none" => root'.device = root.device /\ "rootless" \in mishaps'
           /\ task' \in TaskType /\ task'.at = "connected" /\ task'.idx = 0
           /\ mishaps' \in SUBSET Mishaps /\ mishaps \subseteq mishaps'
<1>1. /\ task.at = "root" /\ root.event = "CONNECT" /\ device_pool_vacant # None
      /\ BusReset /\ UNCHANGED cable /\ task' = At("connected", 0) /\ Note("rootless", cable = "none")
  BY DEF RootConnect
<1>2. device_pool_vacant \in Vacant /\ device_pool_vacant \in Idx
  BY <1>1, FirstVacant DEF Vacant
<1>3. /\ mishaps' \in SUBSET Mishaps /\ mishaps \subseteq mishaps'
      /\ cable = "none" => "rootless" \in mishaps'
  BY <1>1, Noted DEF HubTypes, Mishaps
<1>4. task' \in TaskType /\ task'.at = "connected" /\ task'.idx = 0
  BY <1>1, Numbers, NewPlace DEF Places
<1>5. root \in RootType /\ devs \in [Idx -> DeviceType]
  BY DEF HubTypes
<1>6. CASE cable # "none"
  <2> DEFINE d == NewDevice("CONNECT", None, 0)
  <2>1. /\ d \in DeviceType /\ d.connected /\ d.is_root /\ d.address = 0 /\ d.event = "CONNECT"
        /\ ~d.hub /\ ~d.armed /\ ~d.new_data /\ d.child = [p \in Ports |-> 0]
    BY Numbers, HubAssumption DEF NewDevice, ZeroDevice, DeviceType
  <2>2. /\ devs' = [devs EXCEPT ![device_pool_vacant] = d]
        /\ root' = [root EXCEPT !.device = device_pool_vacant, !.suspended = FALSE]
    BY <1>6 DEF RootConnect
  <2>3. /\ root' \in RootType /\ root'.event = root.event /\ ~root'.suspended
        /\ root'.connected <=> root.connected
        /\ root'.addr0_exists <=> root.addr0_exists
        /\ root'.device = device_pool_vacant
    BY <1>2, <1>5, <2>2 DEF RootType
  <2> HIDE DEF d
  <2>4. /\ devs' \in [Idx -> DeviceType] /\ devs'[device_pool_vacant] = d
        /\ \A j \in Idx : j # device_pool_vacant => devs'[j] = devs[j]
    BY <1>2, <1>5, <2>1, <2>2, OneChanged
  <2> QED BY <1>1, <1>2, <1>3, <1>4, <1>6, <2>1, <2>3, <2>4
<1>7. CASE cable = "none"
  <2>1. root' = [root EXCEPT !.suspended = FALSE] /\ UNCHANGED devs
    BY <1>7 DEF RootConnect
  <2>2. /\ root' \in RootType /\ root'.event = root.event /\ ~root'.suspended
        /\ root'.connected <=> root.connected
        /\ root'.addr0_exists <=> root.addr0_exists
        /\ root'.device = root.device
    BY <1>5, <2>1 DEF RootType
  <2> QED BY <1>1, <1>2, <1>3, <1>4, <1>5, <1>7, <2>1, <2>2
<1> QED BY <1>6, <1>7

(* The task has dealt with a connection.                                    *)
LEMMA RootConnectedDoes ==
    ASSUME HubTypes, RootConnected
    PROVE  /\ UNCHANGED <<devs, cable, raddr, port>>
           /\ root' \in RootType /\ root'.event = "NONE" /\ root'.device = root.device
           /\ root'.connected <=> root.connected
           /\ root'.suspended <=> root.suspended
           /\ \/ task.at = "connected" /\ root'.addr0_exists
              \/ /\ task.at = "root" /\ root.event = "CONNECT" /\ Vacant = {} /\ "rootless" \in mishaps'
                 /\ root'.addr0_exists <=> root.addr0_exists
           /\ task' \in TaskType /\ task'.at = "device" /\ task'.idx = 0
           /\ mishaps' \in SUBSET Mishaps /\ mishaps \subseteq mishaps'
<1>1. root \in RootType /\ mishaps \in SUBSET Mishaps
  BY DEF HubTypes
<1>2. /\ task' \in TaskType /\ task'.at = "device" /\ task'.idx = 0
      /\ UNCHANGED <<devs, cable, raddr, port>>
  BY Numbers, NewPlace DEF RootConnected, External, Places
<1>3. CASE /\ task.at = "connected" /\ root' = [root EXCEPT !.addr0_exists = TRUE, !.event = "NONE"]
           /\ UNCHANGED mishaps
  BY <1>1, <1>2, <1>3 DEF RootType
<1>4. CASE /\ task.at = "root" /\ root.event = "CONNECT" /\ device_pool_vacant = None
           /\ root' = [root EXCEPT !.event = "NONE"] /\ Note("rootless", TRUE)
  <2>1. Vacant = {}
    BY <1>4, FirstVacant, Numbers DEF Vacant
  <2>2. mishaps' \in SUBSET Mishaps /\ mishaps \subseteq mishaps' /\ "rootless" \in mishaps'
    BY <1>1, <1>4, Noted DEF Mishaps
  <2> QED BY <1>1, <1>2, <1>4, <2>1, <2>2 DEF RootType
<1> QED BY <1>3, <1>4 DEF RootConnected

(* A disconnection of the root port: the pool is freed later.               *)
LEMMA RootDisconnectDoes ==
    ASSUME HubTypes, RootDisconnect
    PROVE  /\ task.at = "root" /\ root.event = "DISCONNECT" /\ root.device \in Idx
           /\ UNCHANGED cable /\ BusReset
           /\ root' \in RootType /\ root'.event = "NONE" /\ root'.device = None /\ ~root'.suspended
           /\ root'.connected <=> root.connected
           /\ root'.addr0_exists <=> root.addr0_exists
           /\ devs' \in [Idx -> DeviceType]
           /\ \A j \in Idx \ {root.device} : devs'[j] = devs[j]
           /\ LET i == root.device
              IN  /\ ~devs'[i].connected /\ devs'[i].event = "DISCONNECT"
                  /\ devs'[i].child = devs[i].child /\ devs'[i].address = devs[i].address
                  /\ devs'[i].hub <=> devs[i].hub
                  /\ devs'[i].is_root <=> devs[i].is_root
                  /\ devs'[i].armed <=> devs[i].armed
                  /\ devs'[i].new_data <=> devs[i].new_data
           /\ task' \in TaskType /\ task'.at = "device" /\ task'.idx = 0
           /\ mishaps' \in SUBSET Mishaps /\ mishaps \subseteq mishaps'
           /\ root.connected => "rootless" \in mishaps'
<1>1. root \in RootType /\ devs \in [Idx -> DeviceType]
  BY DEF HubTypes
<1>2. /\ task.at = "root" /\ root.event = "DISCONNECT" /\ root.device # None
      /\ BusReset /\ UNCHANGED cable /\ Note("rootless", root.connected)
      /\ task' = At("device", 0) /\ root' = OffRoot(root)
      /\ devs' = [devs EXCEPT ![root.device].connected = FALSE, ![root.device].event = "DISCONNECT"]
  BY DEF RootDisconnect
<1>3. root.device \in Idx
  BY <1>1, <1>2 DEF RootType
<1>4. /\ root' \in RootType /\ root'.event = "NONE" /\ root'.device = None /\ ~root'.suspended
      /\ root'.connected <=> root.connected
      /\ root'.addr0_exists <=> root.addr0_exists
  BY <1>1, <1>2 DEF OffRoot, RootType
<1> DEFINE i == root.device
           d == [devs[i] EXCEPT !.connected = FALSE, !.event = "DISCONNECT"]
<1>5. /\ d \in DeviceType /\ ~d.connected /\ d.event = "DISCONNECT" /\ d.child = devs[i].child
      /\ d.address = devs[i].address /\ d.hub = devs[i].hub /\ d.is_root = devs[i].is_root
      /\ d.armed = devs[i].armed /\ d.new_data = devs[i].new_data
  <2>1. devs[i] \in DeviceType
    BY <1>1, <1>3
  <2> HIDE DEF i
  <2> QED BY <2>1 DEF DeviceType
<1>6. devs' = [devs EXCEPT ![i] = d]
  BY <1>1, <1>2, <1>3
<1> HIDE DEF d
<1>7. devs' \in [Idx -> DeviceType] /\ devs'[i] = d /\ \A j \in Idx : j # i => devs'[j] = devs[j]
  BY <1>1, <1>3, <1>5, <1>6, OneChanged
<1>8. task' \in TaskType /\ task'.at = "device" /\ task'.idx = 0
  BY <1>2, Numbers, NewPlace DEF Places
<1>9. /\ mishaps' \in SUBSET Mishaps /\ mishaps \subseteq mishaps'
      /\ root.connected => "rootless" \in mishaps'
  BY <1>2, Noted DEF HubTypes, Mishaps
<1> QED BY <1>2, <1>3, <1>4, <1>5, <1>7, <1>8, <1>9

(* The task looks at the next device.                                       *)
LEMMA RootQuietDoes ==
    ASSUME HubTypes, RootQuiet
    PROVE  /\ UNCHANGED <<root, devs, cable, raddr, port, mishaps>> /\ task.at = "root"
           /\ root.event = "NONE" /\ task' \in TaskType /\ task'.at = "device" /\ task'.idx = 0
BY Numbers, NewPlace DEF RootQuiet, External, History, Places

(* root_device is followed.                                                 *)
LEMMA RootFaultDoes ==
    ASSUME HubTypes, RootFault
    PROVE  /\ UNCHANGED <<root, devs, cable, raddr, port, mishaps>>
           /\ task.at = "fault" \/ (task.at = "root" /\ root.event = "DISCONNECT" /\ root.device = None)
           /\ task' \in TaskType /\ task'.at = "fault" /\ task'.idx = 0
BY Numbers, NewPlace DEF RootFault, External, History, Places

(* The event of a device.                                                   *)
LEMMA DeviceEventDoes ==
    ASSUME HubTypes, DeviceEvent
    PROVE  /\ UNCHANGED <<cable, raddr, port, mishaps>> /\ task.at = "device" /\ task' \in TaskType
           /\ LET i == task.idx IN
              \/ devs[i].event = "NONE" /\ NextDevice /\ UNCHANGED <<root, devs>>
              \/ /\ devs[i].event = "CONNECT" /\ devs' = [devs EXCEPT ![i].event = "NONE"]
                 /\ task'.at = "descriptor" /\ task'.idx = i /\ UNCHANGED root
              \/ /\ devs[i].event = "DISCONNECT"
                 /\ devs' = Disconnected(devs, i) /\ root' = Unlock(root, i)
                 /\ NextDevice
              \/ /\ devs[i].event = "HUB_PORT_CHANGE" /\ UNCHANGED <<root, devs>>
                 /\ task'.at = "hub" /\ task'.idx = i
<1>1. task.idx \in Idx /\ devs[task.idx].bitmap \in SUBSET Ports /\ task \in TaskType
  BY DEF HubTypes, TaskType, DeviceType
<1>2. UNCHANGED <<cable, raddr, port, mishaps>> /\ task.at = "device"
  BY DEF DeviceEvent, External, History
<1> DEFINE i == task.idx
<1>3. CASE devs[i].event = "NONE" /\ NextDevice /\ UNCHANGED <<root, devs>>
  BY <1>1, <1>2, <1>3, NextPlace
<1>4. CASE /\ devs[i].event = "CONNECT" /\ devs' = [devs EXCEPT ![i].event = "NONE"]
           /\ task' = At("descriptor", i) /\ UNCHANGED root
  BY <1>1, <1>2, <1>4, NewPlace DEF Places
<1>5. CASE /\ devs[i].event = "DISCONNECT"
           /\ devs' = Disconnected(devs, i) /\ root' = Unlock(root, i) /\ NextDevice
  BY <1>1, <1>2, <1>5, NextPlace
<1>6. CASE /\ devs[i].event = "HUB_PORT_CHANGE"
           /\ task' = [At("hub", i) EXCEPT !.left = devs[i].bitmap] /\ UNCHANGED <<root, devs>>
  <2>1. task' \in TaskType /\ task'.at = "hub" /\ task'.idx = i
    BY <1>1, <1>6, Numbers DEF At, TaskType, Places
  <2> QED BY <1>2, <1>6, <2>1
<1> QED BY <1>3, <1>4, <1>5, <1>6 DEF DeviceEvent

(* The descriptor is read, or not.                                          *)
LEMMA DescriptorDoes ==
    ASSUME HubTypes, Descriptor
    PROVE  /\ UNCHANGED <<root, cable, raddr, port, mishaps>> /\ task.at = "descriptor"
           /\ task' \in TaskType /\ task'.at \in {"address", "failed"} /\ task'.idx = task.idx
           /\ devs' \in [Idx -> DeviceType]
           /\ \A j \in Idx : /\ devs'[j].connected <=> devs[j].connected
                             /\ devs'[j].address = devs[j].address
                             /\ devs'[j].is_root <=> devs[j].is_root
                             /\ devs'[j].child = devs[j].child
                             /\ devs'[j].parent = devs[j].parent
                             /\ devs'[j].parent_port = devs[j].parent_port
                             /\ devs'[j].event = devs[j].event
                             /\ devs'[j].armed <=> devs[j].armed
                             /\ devs'[j].new_data <=> devs[j].new_data
                             /\ j # task.idx => devs'[j] = devs[j]
           /\ devs'[task.idx].hub => devs[task.idx].hub \/ None \in Listeners(devs[task.idx].address)
           /\ task'.at = "address" => Listeners(devs[task.idx].address) # {}
           /\ task'.at = "failed" => UNCHANGED devs
<1> DEFINE i == task.idx
<1>1. i \in Idx /\ devs \in [Idx -> DeviceType] /\ devs[i] \in DeviceType
  BY DEF HubTypes, TaskType
<1>2. UNCHANGED <<root, cable, raddr, port, mishaps>> /\ task.at = "descriptor"
  BY DEF Descriptor, External
<1>3. CASE /\ Works(i) /\ task' = At("address", i)
           /\ devs' = [devs EXCEPT ![i].hub = (cable = "hub" /\ Listeners(devs[i].address) = {None})]
  <2> DEFINE b == (cable = "hub" /\ Listeners(devs[i].address) = {None})
             d == [devs[i] EXCEPT !.hub = b]
  <2>1. task' \in TaskType /\ task'.at = "address" /\ task'.idx = i /\ Listeners(devs[i].address) # {}
    BY <1>1, <1>3, NewPlace, HeardWorks DEF Places
  <2>2. b \in BOOLEAN /\ (b => None \in Listeners(devs[i].address))
    OBVIOUS
  <2> HIDE DEF b
  <2>3. /\ d \in DeviceType /\ d.hub = b /\ d.connected = devs[i].connected
        /\ d.address = devs[i].address /\ d.is_root = devs[i].is_root /\ d.event = devs[i].event
        /\ d.child = devs[i].child /\ d.parent_port = devs[i].parent_port /\ d.parent = devs[i].parent
        /\ d.armed = devs[i].armed /\ d.new_data = devs[i].new_data
    BY <1>1, <2>2 DEF DeviceType
  <2>4. devs' = [devs EXCEPT ![i] = d]
    BY <1>3 DEF b
  <2> HIDE DEF d
  <2>5. devs' \in [Idx -> DeviceType] /\ devs'[i] = d /\ \A j \in Idx : j # i => devs'[j] = devs[j]
    BY <1>1, <2>3, <2>4, OneChanged
  <2> QED BY <1>1, <1>2, <2>1, <2>2, <2>3, <2>5
<1>4. CASE Fails(i) /\ task' = At("failed", i) /\ UNCHANGED devs
  <2>1. task' \in TaskType /\ task'.at = "failed" /\ task'.idx = i
    BY <1>1, <1>4, NewPlace DEF Places
  <2> QED BY <1>1, <1>2, <1>4, <2>1
<1> QED BY <1>3, <1>4 DEF Descriptor

(* A device that acts on SET_ADDRESS leaves address 0.                      *)
LEMMA SetAddressDoes ==
    ASSUME HubTypes, SetAddress
    PROVE  \E acted \in BOOLEAN :
           /\ UNCHANGED <<root, cable, mishaps>> /\ task.at = "address"
           /\ task' \in TaskType /\ task'.at \in {"configure", "failed"} /\ task'.idx = task.idx
           /\ acted => Listeners(devs[task.idx].address) # {}
           /\ raddr' = IF acted /\ cable # "none" /\ raddr = 0 THEN task.idx + 1 ELSE raddr
           /\ port' \in [Ports -> PortType]
           /\ \A p \in Ports : /\ port'[p].present <=> port[p].present
                               /\ port'[p].c_reset <=> port[p].c_reset
                               /\ port'[p].c_connection <=> port[p].c_connection
                               /\ port'[p].resetting <=> port[p].resetting
                               /\ port'[p].address = IF acted /\ port[p].address = 0 THEN task.idx + 1
                                                     ELSE port[p].address
           /\ devs' \in [Idx -> DeviceType]
           /\ \A j \in Idx : /\ devs'[j].connected <=> devs[j].connected
                             /\ devs'[j].is_root <=> devs[j].is_root
                             /\ devs'[j].hub <=> devs[j].hub
                             /\ devs'[j].child = devs[j].child
                             /\ devs'[j].parent = devs[j].parent
                             /\ devs'[j].parent_port = devs[j].parent_port
                             /\ devs'[j].event = devs[j].event
                             /\ devs'[j].armed <=> devs[j].armed
                             /\ devs'[j].new_data <=> devs[j].new_data
                             /\ j # task.idx => devs'[j] = devs[j]
           /\ task'.at = "configure" => acted /\ devs'[task.idx].address = task.idx + 1
           /\ task'.at = "failed" => UNCHANGED devs
<1> DEFINE i == task.idx
<1>1. i \in Idx /\ devs \in [Idx -> DeviceType] /\ devs[i] \in DeviceType /\ port \in [Ports -> PortType]
      /\ i + 1 \in Addresses
  BY Numbers DEF HubTypes, TaskType
<1>7. None \notin Ports
  BY HubAssumption DEF None
<1>2. PICK works \in BOOLEAN, acted \in BOOLEAN :
          /\ Request(i, works, acted)
          /\ IF acted THEN Readdress(0, i + 1) ELSE UNCHANGED <<raddr, port>>
          /\ IF works THEN /\ devs' = [devs EXCEPT ![i].address = i + 1] /\ task' = At("configure", i)
                      ELSE task' = At("failed", i) /\ UNCHANGED devs
  BY DEF SetAddress
<1>3. (works => acted) /\ (acted => Listeners(devs[i].address) # {})
  BY <1>2, Heard
<1>4. /\ raddr' = IF acted /\ cable # "none" /\ raddr = 0 THEN i + 1 ELSE raddr
      /\ port' \in [Ports -> PortType]
      /\ \A p \in Ports : /\ port'[p].present <=> port[p].present
                          /\ port'[p].c_reset <=> port[p].c_reset
                          /\ port'[p].c_connection <=> port[p].c_connection
                          /\ port'[p].resetting <=> port[p].resetting
                          /\ port'[p].address = IF acted /\ port[p].address = 0 THEN i + 1
                                                ELSE port[p].address
  <2>1. CASE ~acted
    BY <1>1, <1>2, <2>1
  <2>2. CASE acted
    <3>1. /\ raddr' = IF None \in Listeners(0) THEN i + 1 ELSE raddr
          /\ port' = [p \in Ports |-> IF p \in Listeners(0) THEN [port[p] EXCEPT !.address = i + 1]
                                      ELSE port[p]]
      BY <1>2, <2>2 DEF Readdress
    <3>2. None \in Listeners(0) <=> cable # "none" /\ raddr = 0
      BY <1>1, <1>7 DEF Listeners
    <3>3. \A p \in Ports : p \in Listeners(0) <=> port[p].address = 0
      BY <1>1, <1>7 DEF Listeners
    <3>4. ASSUME NEW p \in Ports
          PROVE  /\ port'[p] \in PortType
                 /\ port'[p].present <=> port[p].present
                 /\ port'[p].c_reset <=> port[p].c_reset
                 /\ port'[p].c_connection <=> port[p].c_connection
                 /\ port'[p].resetting <=> port[p].resetting
                 /\ port'[p].address = IF port[p].address = 0 THEN i + 1 ELSE port[p].address
      <4>1. port[p] \in PortType
        BY <1>1
      <4>2. port'[p] = IF port[p].address = 0 THEN [port[p] EXCEPT !.address = i + 1] ELSE port[p]
        BY <3>1, <3>3
      <4> QED BY <1>1, <4>1, <4>2 DEF PortType
    <3>5. port' \in [Ports -> PortType]
      BY <3>1, <3>4
    <3> QED BY <2>2, <3>1, <3>2, <3>4, <3>5
  <2> QED BY <2>1, <2>2
<1>5. CASE ~works
  <2>1. task' \in TaskType /\ task'.at = "failed" /\ task'.idx = i /\ UNCHANGED devs
    BY <1>1, <1>2, <1>5, NewPlace DEF Places
  <2> QED BY <1>1, <1>3, <1>4, <2>1 DEF SetAddress
<1>6. CASE works
  <2>1. task' \in TaskType /\ task'.at = "configure" /\ task'.idx = i
    BY <1>1, <1>2, <1>6, NewPlace DEF Places
  <2> DEFINE d == [devs[i] EXCEPT !.address = i + 1]
  <2>3. /\ d \in DeviceType /\ d.hub = devs[i].hub /\ d.connected = devs[i].connected
        /\ d.address = i + 1 /\ d.is_root = devs[i].is_root /\ d.event = devs[i].event
        /\ d.child = devs[i].child /\ d.parent_port = devs[i].parent_port /\ d.parent = devs[i].parent
        /\ d.armed = devs[i].armed /\ d.new_data = devs[i].new_data
    BY <1>1 DEF DeviceType
  <2>4. devs' = [devs EXCEPT ![i] = d]
    BY <1>2, <1>6
  <2> HIDE DEF d
  <2>5. devs' \in [Idx -> DeviceType] /\ devs'[i] = d /\ \A j \in Idx : j # i => devs'[j] = devs[j]
    BY <1>1, <2>3, <2>4, OneChanged
  <2>6. UNCHANGED <<root, cable, mishaps>> /\ task.at = "address"
    BY DEF SetAddress
  <2> QED BY <1>1, <1>3, <1>4, <1>6, <2>1, <2>3, <2>5, <2>6
<1> QED BY <1>5, <1>6

(* The lock is released.                                                    *)
LEMMA LockOpens == ASSUME root \in RootType, root' = [root EXCEPT !.addr0_exists = FALSE]
                   PROVE  /\ root' \in RootType /\ root'.event = root.event /\ root'.device = root.device
                          /\ root'.connected <=> root.connected
                          /\ root'.suspended <=> root.suspended
                          /\ ~root'.addr0_exists
BY DEF RootType

(* The device is configured, or not.                                        *)
LEMMA ConfigureDoes ==
    ASSUME HubTypes, Configure
    PROVE  /\ UNCHANGED <<cable, raddr, port, mishaps>> /\ task.at = "configure" /\ task' \in TaskType
           /\ devs' \in [Idx -> DeviceType] /\ SameTree
           /\ \A j \in Idx : /\ devs'[j].event = devs[j].event
                             /\ devs'[j].armed => devs[j].armed \/ (j = task.idx /\ devs[j].hub)
                             /\ devs'[j].new_data <=> devs[j].new_data
                             /\ j # task.idx => devs'[j] = devs[j]
           /\ root' \in RootType /\ root'.event = root.event /\ root'.device = root.device
           /\ root'.connected <=> root.connected
           /\ root'.suspended <=> root.suspended
           /\ \/ NextDevice /\ Listeners(devs[task.idx].address) # {}
              \/ /\ task'.at = "failed" /\ task'.idx = task.idx
                 /\ devs[task.idx].hub \/ UNCHANGED <<root, devs>>
<1> DEFINE i == task.idx
<1>1. i \in Idx /\ devs \in [Idx -> DeviceType] /\ devs[i] \in DeviceType /\ root \in RootType
      /\ task \in TaskType
  BY DEF HubTypes, TaskType
<1>2. UNCHANGED <<cable, raddr, port, mishaps>> /\ task.at = "configure"
  BY DEF Configure, External
<1>3. ASSUME NEW b \in BOOLEAN, devs' = [devs EXCEPT ![i].enumerated = TRUE, ![i].armed = b],
             b => devs[i].hub
      PROVE  /\ devs' \in [Idx -> DeviceType] /\ SameTree
             /\ \A j \in Idx : /\ devs'[j].event = devs[j].event
                               /\ devs'[j].armed => devs[j].armed \/ (j = i /\ devs[j].hub)
                               /\ devs'[j].new_data <=> devs[j].new_data
                               /\ j # i => devs'[j] = devs[j]
  <2> DEFINE d == [devs[i] EXCEPT !.enumerated = TRUE, !.armed = b]
  <2>1. /\ d \in DeviceType /\ d.hub = devs[i].hub /\ d.connected = devs[i].connected
        /\ d.address = devs[i].address /\ d.is_root = devs[i].is_root /\ d.event = devs[i].event
        /\ d.child = devs[i].child /\ d.parent_port = devs[i].parent_port /\ d.parent = devs[i].parent
        /\ d.armed = b /\ d.new_data = devs[i].new_data
    BY <1>1 DEF DeviceType
  <2>2. devs' = [devs EXCEPT ![i] = d]
    BY <1>1, <1>3
  <2> HIDE DEF d
  <2>3. devs' \in [Idx -> DeviceType] /\ devs'[i] = d /\ \A j \in Idx : j # i => devs'[j] = devs[j]
    BY <1>1, <2>1, <2>2, OneChanged
  <2>4. ASSUME NEW j \in Idx
        PROVE  /\ devs'[j].connected <=> devs[j].connected
               /\ devs'[j].address = devs[j].address
               /\ devs'[j].is_root <=> devs[j].is_root
               /\ devs'[j].hub <=> devs[j].hub
               /\ devs'[j].child = devs[j].child
               /\ devs'[j].parent = devs[j].parent
               /\ devs'[j].parent_port = devs[j].parent_port
               /\ devs'[j].event = devs[j].event
               /\ devs'[j].armed => devs[j].armed \/ (j = i /\ devs[j].hub)
               /\ devs'[j].new_data <=> devs[j].new_data
    BY <1>3, <2>1, <2>3
  <2> QED BY <2>3, <2>4 DEF SameTree
<1>4. CASE /\ Works(i) /\ devs' = [devs EXCEPT ![i].enumerated = TRUE, ![i].armed = devs[i].hub]
           /\ root' = [root EXCEPT !.addr0_exists = FALSE] /\ NextDevice
  <2>1. devs[i].hub \in BOOLEAN /\ Listeners(devs[i].address) # {}
    BY <1>1, <1>4, HeardWorks DEF DeviceType
  <2>2. task' \in TaskType
    BY <1>1, <1>4, NextPlace
  <2> QED BY <1>1, <1>2, <1>3, <1>4, <2>1, <2>2, LockOpens
<1>5. CASE Fails(i) /\ task' = At("failed", i) /\ UNCHANGED <<devs, root>>
  <2>1. task' \in TaskType /\ task'.at = "failed" /\ task'.idx = i
    BY <1>1, <1>5, NewPlace DEF Places
  <2> QED BY <1>1, <1>2, <1>5, <2>1 DEF SameTree
<1>6. CASE /\ devs[i].hub /\ devs' = [devs EXCEPT ![i].enumerated = TRUE, ![i].armed = TRUE]
           /\ root' = [root EXCEPT !.addr0_exists = FALSE] /\ task' = At("failed", i)
  <2>1. task' \in TaskType /\ task'.at = "failed" /\ task'.idx = i
    BY <1>1, <1>6, NewPlace DEF Places
  <2> QED BY <1>1, <1>2, <1>3, <1>6, <2>1, LockOpens
<1> QED BY <1>4, <1>5, <1>6 DEF Configure

(* A root device that failed is to be disconnected.                         *)
LEMMA RootFailedDoes ==
    ASSUME HubTypes, RootFailed
    PROVE  /\ UNCHANGED <<devs, cable, raddr, port, mishaps>> /\ NextDevice /\ task' \in TaskType
           /\ task.at = "failed" /\ devs[task.idx].is_root
           /\ root' \in RootType /\ root'.event = "DISCONNECT" /\ root'.device = root.device
           /\ root'.connected <=> root.connected
           /\ root'.suspended <=> root.suspended
           /\ root'.addr0_exists <=> root.addr0_exists
<1>1. task' \in TaskType
  BY NextPlace DEF RootFailed, HubTypes
<1> QED BY <1>1 DEF RootFailed, External, History, HubTypes, RootType

(* Another device that failed is taken off, and its port may be reset.      *)
LEMMA PortFailedDoes ==
    ASSUME HubTypes, PortFailed
    PROVE  \E acted \in BOOLEAN :
           LET i == task.idx  p == devs[task.idx].parent_port IN
           /\ UNCHANGED <<cable, raddr>> /\ NextDevice /\ task' \in TaskType
           /\ task.at = "failed" /\ ~devs[i].is_root
           /\ devs' = Disconnected(devs, i) /\ root' = Unlock(root, i)
           /\ acted => Listeners(devs[devs[i].parent].address) # {}
           /\ IF acted THEN ResetPort(p) ELSE UNCHANGED port
           /\ mishaps' \in SUBSET Mishaps /\ mishaps \subseteq mishaps'
           /\ port[p].present /\ devs[i].address = 0 => "unlocked" \in mishaps'
<1>1. task' \in TaskType
  BY NextPlace DEF PortFailed, HubTypes
<1>2. PICK works \in BOOLEAN, acted \in BOOLEAN :
          LET i == task.idx  p == devs[task.idx].parent_port IN
          /\ Request(devs[i].parent, works, acted)
          /\ IF acted THEN ResetPort(p) ELSE UNCHANGED port
          /\ devs' = Disconnected(devs, i) /\ root' = Unlock(root, i)
          /\ mishaps' = mishaps \cup (IF port[p].present /\ devs[i].address = 0 THEN {"unlocked"} ELSE {})
                                \cup (IF port[p].present /\ ~acted THEN {"stuck"} ELSE {})
  BY DEF PortFailed
<1>3. acted => Listeners(devs[devs[task.idx].parent].address) # {}
  BY <1>2, Heard
<1>4. LET i == task.idx  p == devs[task.idx].parent_port IN
      /\ mishaps' \in SUBSET Mishaps /\ mishaps \subseteq mishaps'
      /\ port[p].present /\ devs[i].address = 0 => "unlocked" \in mishaps'
  BY <1>2 DEF HubTypes, Mishaps
<1>5. /\ UNCHANGED <<cable, raddr>> /\ NextDevice /\ task.at = "failed" /\ ~devs[task.idx].is_root
  BY DEF PortFailed
<1> QED BY <1>1, <1>2, <1>3, <1>4, <1>5

(* The hub's report is done with.                                           *)
LEMMA HubDoneDoes ==
    ASSUME HubTypes, HubDone
    PROVE  /\ UNCHANGED <<root, cable, raddr, port, mishaps>> /\ task.at = "hub" /\ NextDevice
           /\ task' \in TaskType /\ devs' \in [Idx -> DeviceType] /\ SameTree
           /\ \A j \in Idx : /\ devs'[j].event \in {devs[j].event, "NONE"}
                             /\ devs'[j].armed <=> devs[j].armed
                             /\ devs'[j].new_data <=> devs[j].new_data
                             /\ j # task.idx => devs'[j] = devs[j]
<1>1. /\ devs' = [devs EXCEPT ![task.idx].event = "NONE"] /\ NextDevice
      /\ UNCHANGED <<root, cable, raddr, port, mishaps>> /\ task.at = "hub"
  BY DEF HubDone, External, History
<1>2. task.idx \in Idx /\ devs \in [Idx -> DeviceType] /\ task' \in TaskType
  BY <1>1, NextPlace DEF HubTypes, TaskType
<1> QED BY <1>1, <1>2, EventSet

(* The status of a port is read, and the device that was on it taken off.   *)
LEMMA HubStatusDoes ==
    ASSUME HubTypes, HubStatus
    PROVE  /\ UNCHANGED <<cable, raddr, port, mishaps>> /\ task.at = "hub"
           /\ task' \in TaskType /\ task'.idx = task.idx
           /\ \/ task'.at = "hub" /\ UNCHANGED <<root, devs>>
              \/ /\ Listeners(devs[task.idx].address) # {}
                 /\ \E p \in Ports :
                    /\ port[p].c_connection
                    /\ LET c == devs[task.idx].child[p]
                       IN  \/ c # 0 /\ devs' = Disconnected(devs, c) /\ root' = Unlock(root, c)
                           \/ c = 0 /\ UNCHANGED <<root, devs>>
                    /\ \/ task'.at = "hub"
                       \/ task'.at = "clear-connection" /\ task'.port = p
                       \/ task'.at = "reset" /\ task'.port = p /\ ~root'.addr0_exists
              \/ /\ Listeners(devs[task.idx].address) # {} /\ UNCHANGED <<root, devs>>
                 /\ task'.at = "clear-reset" /\ task'.port \in Ports
                 /\ port[task'.port].c_reset /\ ~port[task'.port].c_connection
<1> DEFINE h == task.idx
<1>1. UNCHANGED <<cable, raddr, port>> /\ task.at = "hub" /\ task \in TaskType
  BY DEF HubStatus, External, HubTypes
<1>2. PICK p \in task.left :
         LET c == devs[h].child[p] IN
           \/ Fails(h) /\ Skip(p) /\ UNCHANGED <<root, devs>>
           \/ /\ Works(h) /\ port[p].c_connection
              /\ IF c # 0 THEN devs' = Disconnected(devs, c) /\ root' = Unlock(root, c)
                          ELSE UNCHANGED <<root, devs>>
              /\ IF ~port[p].present THEN task' = AtPort("clear-connection", p)
                 ELSE IF Locked(root') THEN Postpone(p)
                 ELSE task' = AtPort("reset", p)
           \/ /\ Works(h) /\ ~port[p].c_connection
              /\ IF port[p].c_reset THEN task' = AtPort("clear-reset", p) ELSE Skip(p)
              /\ UNCHANGED <<root, devs>>
  BY DEF HubStatus
<1>3. p \in Ports /\ p \in Nat /\ UNCHANGED mishaps
  BY <1>1, HubAssumption DEF TaskType, HubStatus
<1> DEFINE c == devs[h].child[p]
<1>4. CASE Skip(p) /\ UNCHANGED <<root, devs>>
  BY <1>1, <1>3, <1>4, NextPort
<1>5. CASE /\ Works(h) /\ port[p].c_connection
           /\ IF c # 0 THEN devs' = Disconnected(devs, c) /\ root' = Unlock(root, c)
                       ELSE UNCHANGED <<root, devs>>
           /\ IF ~port[p].present THEN task' = AtPort("clear-connection", p)
              ELSE IF Locked(root') THEN Postpone(p)
              ELSE task' = AtPort("reset", p)
  <2>1. Listeners(devs[h].address) # {}
    BY <1>5, HeardWorks
  <2>2. \/ c # 0 /\ devs' = Disconnected(devs, c) /\ root' = Unlock(root, c)
        \/ c = 0 /\ UNCHANGED <<root, devs>>
    BY <1>5
  <2>3. /\ task' \in TaskType /\ task'.idx = h
        /\ \/ task'.at = "hub"
           \/ task'.at = "clear-connection" /\ task'.port = p
           \/ task'.at = "reset" /\ task'.port = p /\ ~root'.addr0_exists
    <3>1. CASE task' = AtPort("clear-connection", p)
      BY <1>1, <1>3, <3>1, PortPlace DEF Places
    <3>2. CASE Postpone(p)
      BY <1>1, <1>3, <3>2, NextPort DEF Postpone
    <3>3. CASE ~Locked(root') /\ task' = AtPort("reset", p)
      BY <1>1, <1>3, <3>3, PortPlace DEF Places, Locked
    <3> QED BY <1>5, <3>1, <3>2, <3>3
  <2> HIDE DEF h
  <2> QED BY <1>1, <1>3, <1>5, <2>1, <2>2, <2>3 DEF h
<1>6. CASE /\ Works(h) /\ ~port[p].c_connection /\ port[p].c_reset
           /\ task' = AtPort("clear-reset", p) /\ UNCHANGED <<root, devs>>
  <2>1. Listeners(devs[h].address) # {}
    BY <1>6, HeardWorks
  <2>2. task' \in TaskType /\ task'.idx = h /\ task'.at = "clear-reset" /\ task'.port = p
    BY <1>1, <1>3, <1>6, PortPlace DEF Places
  <2> QED BY <1>1, <1>3, <1>6, <2>1, <2>2
<1> QED BY <1>2, <1>4, <1>5, <1>6

(* A port is reset with the lock, or left alone.                            *)
LEMMA HubResetDoes ==
    ASSUME HubTypes, HubReset
    PROVE  /\ UNCHANGED <<devs, cable, raddr>> /\ task.at = "reset"
           /\ task' \in TaskType /\ task'.at = "clear-connection"
           /\ task'.idx = task.idx /\ task'.port = task.port
           /\ root' \in RootType /\ root'.event = root.event /\ root'.device = root.device
           /\ root'.connected <=> root.connected
           /\ root'.suspended <=> root.suspended
           /\ \/ /\ root'.addr0_exists
                 /\ \E acted \in BOOLEAN : /\ acted => Listeners(devs[task.idx].address) # {}
                                           /\ IF acted THEN ResetPort(task.port) ELSE UNCHANGED port
              \/ UNCHANGED <<root, port>>
           /\ mishaps' \in SUBSET Mishaps /\ mishaps \subseteq mishaps'
<1>1. /\ UNCHANGED <<devs, cable, raddr>> /\ task.at = "reset" /\ task' = AtPort("clear-connection", task.port)
      /\ task \in TaskType /\ root \in RootType /\ mishaps \in SUBSET Mishaps
  BY DEF HubReset, HubTypes
<1>2. /\ task' \in TaskType /\ task'.at = "clear-connection"
      /\ task'.idx = task.idx /\ task'.port = task.port
  <2>1. task.port \in Nat
    BY <1>1 DEF TaskType
  <2> QED BY <1>1, <2>1, PortPlace DEF Places
<1>3. CASE device_pool_vacant # None
  <2>1. PICK works \in BOOLEAN, acted \in BOOLEAN :
           /\ Request(task.idx, works, acted)
           /\ IF acted THEN ResetPort(task.port) ELSE UNCHANGED port
           /\ Note("stuck", ~acted /\ port[task.port].present)
    BY <1>3 DEF HubReset
  <2>2. acted => Listeners(devs[task.idx].address) # {}
    BY <2>1, Heard
  <2>3. mishaps' \in SUBSET Mishaps /\ mishaps \subseteq mishaps'
    BY <1>1, <2>1, Noted DEF Mishaps
  <2>4. root' = [root EXCEPT !.addr0_exists = TRUE]
    BY <1>3 DEF HubReset
  <2>5. /\ root' \in RootType /\ root'.event = root.event /\ root'.device = root.device
        /\ root'.connected <=> root.connected
        /\ root'.suspended <=> root.suspended
        /\ root'.addr0_exists
    BY <1>1, <2>4 DEF RootType
  <2> QED BY <1>1, <1>2, <2>1, <2>2, <2>3, <2>5
<1>4. CASE device_pool_vacant = None
  <2>1. Note("stuck", port[task.port].present) /\ UNCHANGED <<root, port>>
    BY <1>4 DEF HubReset
  <2>2. mishaps' \in SUBSET Mishaps /\ mishaps \subseteq mishaps'
    BY <1>1, <2>1, Noted DEF Mishaps
  <2> QED BY <1>1, <1>2, <2>1, <2>2
<1> QED BY <1>3, <1>4

(* The connection change is cleared, or not.                                *)
LEMMA HubClearConnectionDoes ==
    ASSUME HubTypes, HubClearConnection
    PROVE  /\ UNCHANGED <<root, devs, cable, raddr>> /\ task.at = "clear-connection"
           /\ task' \in TaskType /\ task'.at = "hub" /\ task'.idx = task.idx
           /\ port' \in [Ports -> PortType]
           /\ \A p \in Ports : /\ port'[p].address = port[p].address
                               /\ port'[p].present <=> port[p].present
                               /\ port'[p].c_reset <=> port[p].c_reset
                               /\ port'[p].resetting <=> port[p].resetting
                               /\ port'[p].c_connection => port[p].c_connection
           /\ mishaps' \in SUBSET Mishaps /\ mishaps \subseteq mishaps'
<1>1. /\ UNCHANGED <<root, devs, cable, raddr>> /\ task.at = "clear-connection" /\ Skip(task.port)
      /\ task \in TaskType /\ port \in [Ports -> PortType] /\ mishaps \in SUBSET Mishaps
  BY DEF HubClearConnection, HubTypes
<1>2. task' \in TaskType /\ task'.at = "hub" /\ task'.idx = task.idx
  BY <1>1, NextPort
<1>3. PICK acted \in BOOLEAN :
         /\ port' = [port EXCEPT ![task.port].c_connection = @ /\ ~acted]
         /\ Note("stuck", ~acted /\ port[task.port].present)
  BY DEF HubClearConnection
<1>4. mishaps' \in SUBSET Mishaps /\ mishaps \subseteq mishaps'
  BY <1>1, <1>3, Noted DEF Mishaps
<1>5. CASE task.port \in Ports
  <2> DEFINE q == [port[task.port] EXCEPT !.c_connection = @ /\ ~acted]
  <2>1. port[task.port] \in PortType
    BY <1>1, <1>5
  <2>2. /\ q \in PortType /\ q.address = port[task.port].address /\ q.present = port[task.port].present
        /\ q.c_reset = port[task.port].c_reset /\ q.resetting = port[task.port].resetting
        /\ q.c_connection => port[task.port].c_connection
    BY <2>1 DEF PortType
  <2>3. port' = [port EXCEPT ![task.port] = q]
    BY <1>1, <1>3, <1>5
  <2> HIDE DEF q
  <2>4. /\ port' \in [Ports -> PortType] /\ port'[task.port] = q
        /\ \A r \in Ports : r # task.port => port'[r] = port[r]
    BY <1>1, <1>5, <2>2, <2>3, OnePort
  <2> QED BY <1>1, <1>2, <1>4, <2>2, <2>4
<1>6. CASE task.port \notin Ports
  <2>1. port' = port
    BY <1>1, <1>3, <1>6
  <2> QED BY <1>1, <1>2, <1>4, <2>1
<1> QED BY <1>5, <1>6

(* The reset change is cleared, and the new device gets a place.            *)
LEMMA HubClearResetDoes ==
    ASSUME HubTypes, HubClearReset
    PROVE  /\ UNCHANGED <<root, cable, raddr>> /\ task.at = "clear-reset"
           /\ task' \in TaskType /\ task'.at = "hub" /\ task'.idx = task.idx
           /\ \E acted \in BOOLEAN :
              /\ acted => Listeners(devs[task.idx].address) # {}
              /\ port' \in [Ports -> PortType]
              /\ \A p \in Ports : /\ port'[p].address = port[p].address
                                  /\ port'[p].present <=> port[p].present
                                  /\ port'[p].c_connection <=> port[p].c_connection
                                  /\ port'[p].resetting <=> port[p].resetting
                                  /\ port'[p].c_reset <=> port[p].c_reset /\ ~(p = task.port /\ acted)
              /\ UNCHANGED devs \/ (acted /\ device_pool_vacant # None /\ Assign(task.idx, task.port))
           /\ mishaps' \in SUBSET Mishaps /\ mishaps \subseteq mishaps'
<1>1. /\ UNCHANGED <<root, cable, raddr>> /\ task.at = "clear-reset" /\ Skip(task.port)
      /\ task \in TaskType /\ port \in [Ports -> PortType] /\ mishaps \in SUBSET Mishaps
  BY DEF HubClearReset, HubTypes
<1>2. task' \in TaskType /\ task'.at = "hub" /\ task'.idx = task.idx
  BY <1>1, NextPort
<1>3. PICK works \in BOOLEAN, acted \in BOOLEAN :
         /\ Request(task.idx, works, acted)
         /\ port' = [port EXCEPT ![task.port].c_reset = @ /\ ~acted]
         /\ IF works THEN Assign(task.idx, task.port) ELSE UNCHANGED <<devs, ep0>>
         /\ Note("stuck", acted /\ (works => device_pool_vacant = None))
  BY DEF HubClearReset
<1>4. mishaps' \in SUBSET Mishaps /\ mishaps \subseteq mishaps'
  BY <1>1, <1>3, Noted DEF Mishaps
<1>5. (works => acted) /\ (acted => Listeners(devs[task.idx].address) # {})
  BY <1>3, Heard
<1>6. UNCHANGED devs \/ (acted /\ device_pool_vacant # None /\ Assign(task.idx, task.port))
  BY <1>3, <1>5 DEF Assign
<1>7. /\ port' \in [Ports -> PortType]
      /\ \A p \in Ports : /\ port'[p].address = port[p].address
                          /\ port'[p].present <=> port[p].present
                          /\ port'[p].c_connection <=> port[p].c_connection
                          /\ port'[p].resetting <=> port[p].resetting
                          /\ port'[p].c_reset <=> port[p].c_reset /\ ~(p = task.port /\ acted)
  <2>5. CASE task.port \in Ports
    <3> DEFINE q == [port[task.port] EXCEPT !.c_reset = @ /\ ~acted]
    <3>1. port[task.port] \in PortType
      BY <1>1, <2>5
    <3>2. /\ q \in PortType /\ q.address = port[task.port].address /\ q.present = port[task.port].present
          /\ q.c_connection = port[task.port].c_connection /\ q.resetting = port[task.port].resetting
          /\ q.c_reset <=> port[task.port].c_reset /\ ~acted
      BY <3>1 DEF PortType
    <3>3. port' = [port EXCEPT ![task.port] = q]
      BY <1>1, <1>3, <2>5
    <3> HIDE DEF q
    <3>4. /\ port' \in [Ports -> PortType] /\ port'[task.port] = q
          /\ \A r \in Ports : r # task.port => port'[r] = port[r]
      BY <1>1, <2>5, <3>2, <3>3, OnePort
    <3> QED BY <2>5, <3>2, <3>4
  <2>6. CASE task.port \notin Ports
    <3>1. port' = port
      BY <1>1, <1>3, <2>6
    <3> QED BY <1>1, <2>6, <3>1
  <2> QED BY <2>5, <2>6
<1> QED BY <1>1, <1>2, <1>4, <1>5, <1>6, <1>7

(* A place for the device on a port of a hub.                               *)
LEMMA Assigned ==
    ASSUME devs \in [Idx -> DeviceType], NEW h \in Idx, NEW p \in Nat,
           device_pool_vacant # None, Assign(h, p), ~devs[device_pool_vacant].connected
    PROVE  LET i == device_pool_vacant IN
           /\ i \in Idx /\ devs' \in [Idx -> DeviceType]
           /\ devs'[i].connected /\ devs'[i].event = "CONNECT"
           /\ devs'[i].parent = h /\ devs'[i].parent_port = p
           /\ \A j \in Idx : /\ devs'[j].address = devs[j].address
                             /\ devs'[j].is_root <=> devs[j].is_root
                             /\ devs'[j].hub <=> devs[j].hub
                             /\ devs'[j].armed <=> devs[j].armed
                             /\ devs'[j].new_data <=> devs[j].new_data
                             /\ j # h => devs'[j].child = devs[j].child
                             /\ j # i => /\ devs'[j].connected <=> devs[j].connected
                                         /\ devs'[j].event = devs[j].event
                                         /\ devs'[j].parent = devs[j].parent
                                         /\ devs'[j].parent_port = devs[j].parent_port
                             /\ j # h /\ j # i => devs'[j] = devs[j]
           /\ \A q \in Ports : devs'[h].child[q] = IF q = p THEN i ELSE devs[h].child[q]
<1> DEFINE i == device_pool_vacant
<1>1. i \in Idx
  BY FirstVacant DEF Vacant
<1>2. devs' = [devs EXCEPT ![h].child[p] = i, ![i].parent = h, ![i].parent_port = p,
                           ![i].connected = TRUE, ![i].event = "CONNECT"]
  BY DEF Assign
<1> HIDE DEF i
<1> DEFINE dh == [devs[h] EXCEPT !.child[p] = i]
           mid == [devs EXCEPT ![h] = dh]
           di == [mid[i] EXCEPT !.parent = h, !.parent_port = p, !.connected = TRUE, !.event = "CONNECT"]
<1>3. /\ dh \in DeviceType /\ dh.address = devs[h].address /\ dh.is_root = devs[h].is_root
      /\ dh.hub = devs[h].hub /\ dh.armed = devs[h].armed /\ dh.new_data = devs[h].new_data
      /\ dh.connected = devs[h].connected /\ dh.event = devs[h].event
      /\ dh.parent = devs[h].parent /\ dh.parent_port = devs[h].parent_port
      /\ \A q \in Ports : dh.child[q] = IF q = p THEN i ELSE devs[h].child[q]
  <2>1. devs[h] \in DeviceType
    OBVIOUS
  <2> QED BY <1>1, <2>1 DEF DeviceType
<1>4. devs' = [mid EXCEPT ![i] = di]
  BY <1>1, <1>2
<1>5. /\ mid \in [Idx -> DeviceType] /\ mid[h] = dh /\ \A j \in Idx : j # h => mid[j] = devs[j]
  <2> HIDE DEF dh
  <2> QED BY <1>3
<1> HIDE DEF mid, dh
<1>6. /\ di \in DeviceType /\ di.address = mid[i].address /\ di.is_root = mid[i].is_root
      /\ di.hub = mid[i].hub /\ di.armed = mid[i].armed /\ di.new_data = mid[i].new_data
      /\ di.connected /\ di.event = "CONNECT" /\ di.parent = h /\ di.parent_port = p
      /\ di.child = mid[i].child
  <2>1. mid[i] \in DeviceType
    BY <1>1, <1>5
  <2> QED BY <2>1 DEF DeviceType
<1> HIDE DEF di
<1>7. devs' \in [Idx -> DeviceType] /\ devs'[i] = di /\ \A j \in Idx : j # i => devs'[j] = mid[j]
  BY <1>1, <1>4, <1>5, <1>6
<1>8. ASSUME NEW j \in Idx
      PROVE  /\ devs'[j].address = devs[j].address
             /\ devs'[j].is_root <=> devs[j].is_root
             /\ devs'[j].hub <=> devs[j].hub
             /\ devs'[j].armed <=> devs[j].armed
             /\ devs'[j].new_data <=> devs[j].new_data
             /\ j # h => devs'[j].child = devs[j].child
             /\ j # i => /\ devs'[j].connected <=> devs[j].connected
                         /\ devs'[j].event = devs[j].event
                         /\ devs'[j].parent = devs[j].parent
                         /\ devs'[j].parent_port = devs[j].parent_port
             /\ j # h /\ j # i => devs'[j] = devs[j]
  BY <1>3, <1>5, <1>6, <1>7
<1>9. devs'[h].child = dh.child
  BY <1>5, <1>6, <1>7
<1> QED BY <1>1, <1>3, <1>6, <1>7, <1>8, <1>9 DEF i

(* A port comes out of reset and listens on address 0.                      *)
LEMMA HubPortDoes ==
    ASSUME HubTypes, HubPort
    PROVE  /\ UNCHANGED <<root, devs, task, cable, raddr, mishaps>> /\ port' \in [Ports -> PortType]
           /\ \E p \in Ports : /\ port[p].resetting /\ ~port'[p].resetting
                               /\ port'[p].c_reset /\ port'[p].address = 0
                               /\ port'[p].present <=> port[p].present
                               /\ port'[p].c_connection <=> port[p].c_connection
                               /\ \A r \in Ports \ {p} : port'[r] = port[r]
<1>1. PICK p \in Ports : /\ port[p].resetting
                         /\ port' = [port EXCEPT ![p].resetting = FALSE, ![p].c_reset = TRUE, ![p].address = 0]
  BY DEF HubPort
<1> DEFINE q == [port[p] EXCEPT !.resetting = FALSE, !.c_reset = TRUE, !.address = 0]
<1>2. port \in [Ports -> PortType] /\ port[p] \in PortType
  BY DEF HubTypes
<1>3. /\ q \in PortType /\ ~q.resetting /\ q.c_reset /\ q.address = 0
      /\ q.present = port[p].present /\ q.c_connection = port[p].c_connection
  BY <1>2, Numbers DEF PortType
<1>4. port' = [port EXCEPT ![p] = q]
  BY <1>1, <1>2
<1> HIDE DEF q
<1>5. port' \in [Ports -> PortType] /\ port'[p] = q /\ \A r \in Ports : r # p => port'[r] = port[r]
  BY <1>2, <1>3, <1>4, OnePort
<1> QED BY <1>1, <1>3, <1>5 DEF HubPort, History

(* A device on the root port.                                               *)
LEMMA PlugRootDoes ==
    ASSUME HubTypes, PlugRoot
    PROVE  /\ UNCHANGED <<root, devs, task, port>> /\ cable = "none" /\ cable' \in {"device", "hub"}
           /\ raddr' = None
           /\ mishaps' \in SUBSET Mishaps /\ mishaps \subseteq mishaps'
           /\ root.connected => "missed" \in mishaps'
<1>1. Note("missed", root.connected)
  BY DEF PlugRoot
<1> QED BY <1>1, Noted DEF PlugRoot, HubTypes, Mishaps

(* A device on a port of the hub.                                           *)
LEMMA PlugPortDoes ==
    ASSUME HubTypes, PlugPort
    PROVE  /\ UNCHANGED <<root, devs, task, cable, raddr, mishaps>> /\ cable = "hub"
           /\ port' \in [Ports -> PortType]
           /\ \E p \in Ports : /\ ~port[p].present /\ port'[p].present /\ port'[p].c_connection
                               /\ port'[p].address = port[p].address
                               /\ port'[p].c_reset <=> port[p].c_reset
                               /\ port'[p].resetting <=> port[p].resetting
                               /\ \A r \in Ports \ {p} : port'[r] = port[r]
<1>1. PICK p \in Ports : /\ ~port[p].present
                         /\ port' = [port EXCEPT ![p].present = TRUE, ![p].c_connection = TRUE]
  BY DEF PlugPort
<1> DEFINE q == [port[p] EXCEPT !.present = TRUE, !.c_connection = TRUE]
<1>2. port \in [Ports -> PortType] /\ port[p] \in PortType
  BY DEF HubTypes
<1>3. /\ q \in PortType /\ q.present /\ q.c_connection /\ q.address = port[p].address
      /\ q.c_reset = port[p].c_reset /\ q.resetting = port[p].resetting
  BY <1>2 DEF PortType
<1>4. port' = [port EXCEPT ![p] = q]
  BY <1>1, <1>2
<1> HIDE DEF q
<1>5. port' \in [Ports -> PortType] /\ port'[p] = q /\ \A r \in Ports : r # p => port'[r] = port[r]
  BY <1>2, <1>3, <1>4, OnePort
<1> QED BY <1>1, <1>3, <1>5 DEF PlugPort, History

(* A port with nothing on it.                                               *)
LEMMA Empty == /\ EmptyPort \in PortType /\ EmptyPort.address = None /\ ~EmptyPort.resetting
               /\ ~EmptyPort.c_reset /\ ~EmptyPort.present /\ ~EmptyPort.c_connection
BY DEF EmptyPort, PortType

(* Everything is pulled out of the root port.                               *)
LEMMA UnplugRootDoes ==
    ASSUME HubTypes, UnplugRoot
    PROVE  /\ UNCHANGED <<root, devs, task, mishaps>> /\ cable' = "none" /\ raddr' = None
           /\ port' \in [Ports -> PortType] /\ \A p \in Ports : Quiet(p)' /\ ~port'[p].present
<1>1. \A p \in Ports : port'[p] = EmptyPort
  BY DEF UnplugRoot
<1>2. port' \in [Ports -> PortType]
  BY Empty DEF UnplugRoot
<1> QED BY <1>1, <1>2, Empty DEF UnplugRoot, History, Quiet

(* A device is pulled out of the hub.                                       *)
LEMMA UnplugPortDoes ==
    ASSUME HubTypes, UnplugPort
    PROVE  /\ UNCHANGED <<root, devs, task, cable, raddr>> /\ port' \in [Ports -> PortType]
           /\ \E p \in Ports : /\ ~port'[p].present /\ port'[p].address = None /\ ~port'[p].resetting
                               /\ port'[p].c_reset <=> port[p].c_reset
                               /\ \A r \in Ports \ {p} : port'[r] = port[r]
           /\ mishaps' \in SUBSET Mishaps /\ mishaps \subseteq mishaps' /\ "pulled" \in mishaps'
<1>1. PICK p \in Ports : port' = [port EXCEPT ![p] = [EmptyPort EXCEPT !.c_connection = TRUE,
                                                                      !.c_reset = port[p].c_reset]]
  BY DEF UnplugPort
<1> DEFINE q == [EmptyPort EXCEPT !.c_connection = TRUE, !.c_reset = port[p].c_reset]
<1>2. port \in [Ports -> PortType] /\ port[p].c_reset \in BOOLEAN
  BY DEF HubTypes, PortType
<1>3. /\ q \in PortType /\ ~q.present /\ q.address = None /\ ~q.resetting /\ q.c_reset = port[p].c_reset
  BY <1>2 DEF PortType, EmptyPort
<1>4. port' = [port EXCEPT ![p] = q]
  BY <1>1
<1> HIDE DEF q
<1>5. port' \in [Ports -> PortType] /\ port'[p] = q /\ \A r \in Ports : r # p => port'[r] = port[r]
  BY <1>2, <1>3, <1>4, OnePort
<1>6. Note("pulled", TRUE)
  BY DEF UnplugPort
<1>7. mishaps' \in SUBSET Mishaps /\ mishaps \subseteq mishaps' /\ "pulled" \in mishaps'
  BY <1>6, Noted DEF HubTypes, Mishaps
<1> QED BY <1>3, <1>5, <1>7 DEF UnplugPort

-----------------------------------------------------------------------------
(* The types, step by step.                                                 *)

(* A disconnection keeps the types.                                         *)
LEMMA FreesTypes ==
    ASSUME HubTypes, NEW i \in Idx, devs' = Disconnected(devs, i), root' = Unlock(root, i)
    PROVE  /\ root' \in RootType /\ devs' \in [Idx -> DeviceType]
           /\ \A j \in Idx : devs'[j].address \in {0, j + 1}
<1>1. root \in RootType /\ devs \in [Idx -> DeviceType] /\ \A j \in Idx : devs[j].address \in {0, j + 1}
  BY DEF HubTypes
<1>2. root' \in RootType /\ devs' \in [Idx -> DeviceType]
  BY <1>1, Releases, Frees
<1>3. \A j \in Idx : devs'[j] = ZeroDevice \/ devs'[j] = devs[j]
  BY <1>1, Frees
<1> QED BY <1>1, <1>2, <1>3, Zero

(* The steps of the task that begin with an event.                          *)
LEMMA RootTypesStep == ASSUME HubTypes, Root PROVE HubTypes'
<1>1. CASE RootConnect
  <2>1. \A j \in Idx : devs'[j].address \in {0, j + 1}
    BY <1>1, RootConnectDoes DEF HubTypes
  <2> QED BY <1>1, <2>1, RootConnectDoes, BusRests DEF HubTypes
<1>2. CASE RootConnected
  BY <1>2, RootConnectedDoes DEF HubTypes
<1>3. CASE RootDisconnect
  <2>1. \A j \in Idx : devs'[j].address \in {0, j + 1}
    BY <1>3, RootDisconnectDoes DEF HubTypes
  <2> QED BY <1>3, <2>1, RootDisconnectDoes, BusRests DEF HubTypes
<1>4. CASE RootFault
  BY <1>4, RootFaultDoes DEF HubTypes
<1>5. CASE RootQuiet
  BY <1>5, RootQuietDoes DEF HubTypes
<1> QED BY <1>1, <1>2, <1>3, <1>4, <1>5 DEF Root

(* The types, for the events of the devices, ...                            *)
LEMMA DeviceEventTypes == ASSUME HubTypes, DeviceEvent PROVE HubTypes'
<1> DEFINE i == task.idx
<1>1. i \in Idx /\ devs \in [Idx -> DeviceType]
  BY DEF HubTypes, TaskType
<1>2. UNCHANGED <<cable, raddr, port, mishaps>> /\ task' \in TaskType
  BY DeviceEventDoes
<1>3. CASE UNCHANGED <<root, devs>>
  BY <1>2, <1>3 DEF HubTypes
<1>4. CASE devs' = [devs EXCEPT ![i].event = "NONE"] /\ UNCHANGED root
  <2>1. devs' \in [Idx -> DeviceType] /\ \A j \in Idx : devs'[j].address = devs[j].address
    BY <1>1, <1>4, EventSet DEF SameTree
  <2> QED BY <1>2, <1>4, <2>1 DEF HubTypes
<1>5. CASE devs' = Disconnected(devs, i) /\ root' = Unlock(root, i)
  BY <1>1, <1>2, <1>5, FreesTypes DEF HubTypes
<1> QED BY <1>3, <1>4, <1>5, DeviceEventDoes

(* ... for the enumeration, ...                                             *)
LEMMA EnumerationTypes == ASSUME HubTypes, Enumeration PROVE HubTypes'
<1>1. CASE Descriptor
  BY <1>1, DescriptorDoes DEF HubTypes
<1>2. CASE SetAddress
  <2>1. PICK acted \in BOOLEAN : raddr' = IF acted /\ cable # "none" /\ raddr = 0 THEN task.idx + 1 ELSE raddr
    BY <1>2, SetAddressDoes
  <2>2. raddr' \in Addresses \cup {None}
    BY <2>1, Numbers DEF HubTypes, TaskType
  <2>3. \A j \in Idx : devs'[j].address \in {0, j + 1}
    BY <1>2, SetAddressDoes DEF HubTypes
  <2> QED BY <1>2, <2>2, <2>3, SetAddressDoes DEF HubTypes
<1>3. CASE Configure
  BY <1>3, ConfigureDoes DEF HubTypes, SameTree
<1>4. CASE RootFailed
  BY <1>4, RootFailedDoes DEF HubTypes
<1>5. CASE PortFailed
  <2>1. PICK acted \in BOOLEAN :
           /\ devs' = Disconnected(devs, task.idx) /\ root' = Unlock(root, task.idx)
           /\ IF acted THEN ResetPort(devs[task.idx].parent_port) ELSE UNCHANGED port
           /\ UNCHANGED <<cable, raddr>> /\ task' \in TaskType /\ mishaps' \in SUBSET Mishaps
    BY <1>5, PortFailedDoes
  <2>2. port' \in [Ports -> PortType]
    BY <2>1, PortResets DEF HubTypes
  <2>3. task.idx \in Idx
    BY DEF HubTypes, TaskType
  <2> QED BY <2>1, <2>2, <2>3, FreesTypes DEF HubTypes
<1> QED BY <1>1, <1>2, <1>3, <1>4, <1>5 DEF Enumeration

(* ... and for the ports of a hub.                                          *)
LEMMA HubStepTypes == ASSUME HubTypes, Hub PROVE HubTypes'
<1>0. task.idx \in Idx /\ devs \in [Idx -> DeviceType] /\ task.port \in Nat
  BY DEF HubTypes, TaskType
<1>1. CASE HubDone
  BY <1>1, HubDoneDoes DEF HubTypes, SameTree
<1>2. CASE HubStatus
  <2>1. UNCHANGED <<cable, raddr, port, mishaps>> /\ task' \in TaskType
    BY <1>2, HubStatusDoes
  <2>2. CASE UNCHANGED <<root, devs>>
    BY <2>1, <2>2 DEF HubTypes
  <2>3. ASSUME NEW p \in Ports, devs' = Disconnected(devs, devs[task.idx].child[p]),
               root' = Unlock(root, devs[task.idx].child[p])
        PROVE  HubTypes'
    <3>1. devs[task.idx].child[p] \in Idx
      <4>1. devs[task.idx] \in DeviceType
        BY <1>0
      <4> QED BY <4>1 DEF DeviceType
    <3> QED BY <2>1, <2>3, <3>1, FreesTypes DEF HubTypes
  <2> QED BY <1>2, <2>2, <2>3, HubStatusDoes
<1>3. CASE HubReset
  <2>1. port' \in [Ports -> PortType]
    BY <1>3, HubResetDoes, PortResets DEF HubTypes
  <2> QED BY <1>3, <2>1, HubResetDoes DEF HubTypes
<1>4. CASE HubClearConnection
  BY <1>4, HubClearConnectionDoes DEF HubTypes
<1>5. CASE HubClearReset
  <2>1. CASE UNCHANGED devs
    BY <1>5, <2>1, HubClearResetDoes DEF HubTypes
  <2>2. CASE device_pool_vacant # None /\ Assign(task.idx, task.port)
    <3>1. ~devs[device_pool_vacant].connected
      BY <2>2, FirstVacant DEF Vacant
    <3>2. devs' \in [Idx -> DeviceType] /\ \A j \in Idx : devs'[j].address = devs[j].address
      BY <1>0, <2>2, <3>1, Assigned
    <3> QED BY <1>5, <3>2, HubClearResetDoes DEF HubTypes
  <2> QED BY <1>5, <2>1, <2>2, HubClearResetDoes
<1> QED BY <1>1, <1>2, <1>3, <1>4, <1>5 DEF Hub

(* Every step keeps the types.                                              *)
LEMMA TypesStep == ASSUME HubTypes, Next PROVE HubTypes'
<1>1. CASE Task
  BY <1>1, RootTypesStep, DeviceEventTypes, EnumerationTypes, HubStepTypes DEF Task
<1>2. CASE RootPort
  BY <1>2, RootPortDoes DEF HubTypes
<1>3. CASE HubReport
  BY <1>3, HubReportDoes DEF HubTypes, SameTree
<1>4. CASE pio_usb_get_in_data
  BY <1>4, GetInDataDoes DEF HubTypes, SameTree
<1>5. CASE HubPort
  BY <1>5, HubPortDoes DEF HubTypes
<1>6. CASE Cable
  <2>1. CASE PlugRoot
    BY <2>1, PlugRootDoes DEF HubTypes
  <2>2. CASE PlugPort
    BY <2>2, PlugPortDoes DEF HubTypes
  <2>3. CASE UnplugRoot
    BY <2>3, UnplugRootDoes DEF HubTypes
  <2>4. CASE UnplugPort
    BY <2>4, UnplugPortDoes DEF HubTypes
  <2> QED BY <1>6, <2>1, <2>2, <2>3, <2>4 DEF Cable
<1> QED BY <1>1, <1>2, <1>3, <1>4, <1>5, <1>6 DEF Next

(* Nothing that was noted is forgotten.                                     *)
LEMMA Grows == ASSUME HubTypes, Next PROVE mishaps \subseteq mishaps'
<1>1. CASE Root
  BY <1>1, RootConnectDoes, RootConnectedDoes, RootDisconnectDoes, RootFaultDoes, RootQuietDoes DEF Root
<1>2. CASE DeviceEvent
  BY <1>2, DeviceEventDoes
<1>3. CASE Enumeration
  BY <1>3, DescriptorDoes, SetAddressDoes, ConfigureDoes, RootFailedDoes, PortFailedDoes DEF Enumeration
<1>4. CASE Hub
  BY <1>4, HubDoneDoes, HubStatusDoes, HubResetDoes, HubClearConnectionDoes, HubClearResetDoes DEF Hub
<1>5. CASE RootPort \/ HubReport \/ pio_usb_get_in_data \/ HubPort
  BY <1>5, RootPortDoes, HubReportDoes, GetInDataDoes, HubPortDoes
<1>6. CASE Cable
  BY <1>6, PlugRootDoes, PlugPortDoes, UnplugRootDoes, UnplugPortDoes DEF Cable
<1> QED BY <1>1, <1>2, <1>3, <1>4, <1>5, <1>6 DEF Next, Task

-----------------------------------------------------------------------------
(* The root device, step by step.                                           *)

(* Nobody begins to listen on an address.                                   *)
LEMMA StillSilent ==
    ASSUME NEW a, Listeners(a) = {},
           cable' # "none" /\ raddr' = a => cable # "none" /\ raddr = a,
           \A p \in Ports : port'[p].address = a => port[p].address = a
    PROVE  Listeners(a)' = {}
<1>1. ~(cable # "none" /\ raddr = a) /\ \A p \in Ports : port[p].address # a
  BY DEF Listeners
<1> QED BY <1>1 DEF Listeners

(* A device that the pass has not come to is ahead of it still.             *)
LEMMA NextAhead == ASSUME task \in TaskType, NextDevice, NEW i \in Idx, i > task.idx
                   PROVE  Ahead(i)' /\ task'.at = "device" /\ task'.idx = task.idx + 1
<1>1. task'.at = "device" /\ task'.idx = task.idx + 1
  BY NextPlace
<1>2. i \in Nat /\ task.idx \in Nat
  BY Numbers DEF TaskType
<1> QED BY <1>1, <1>2 DEF Ahead

(* Given is an address.                                                     *)
LEMMA GivenNat == ASSUME task \in TaskType PROVE Given \in Nat
<1>1. task.idx \in Nat
  BY Numbers DEF TaskType
<1> QED BY <1>1 DEF Given

(* What a step does to the pass when no disconnection is new.               *)
LEMMA PassGoesOn ==
    ASSUME HubTypes, task' \in TaskType, Pass,
           \A i \in Idx : ~devs'[i].connected => ~devs'[i].is_root \/ devs'[i].event = "DISCONNECT",
           \A i \in Idx : devs'[i].armed \/ devs'[i].new_data \/ devs'[i].event = "HUB_PORT_CHANGE"
                             => devs'[i].address = i + 1,
           task'.at = "configure" => devs'[task'.idx].address = task'.idx + 1,
           \A i \in Idx : devs'[i].event = "DISCONNECT" =>
              /\ devs[i].event = "DISCONNECT" /\ Ahead(i)' /\ Given' >= Given
              /\ task'.at \in HubTask => devs'[task'.idx].address = task'.idx + 1
              /\ \A a \in Addresses : a > Given' =>
                    /\ cable' # "none" /\ raddr' = a => cable # "none" /\ raddr = a
                    /\ \A p \in Ports : port'[p].address = a => port[p].address = a
    PROVE  Pass'
<1>1. ASSUME NEW i \in Idx, devs'[i].event = "DISCONNECT", NEW a \in Addresses, a > Given'
      PROVE  Listeners(a)' = {}
  <2>1. task.idx \in Nat /\ task'.idx \in Nat /\ a \in Nat
    <3>1. a \in Nat
      BY HubAssumption DEF Addresses
    <3> QED BY <3>1, Numbers DEF HubTypes, TaskType
  <2>2. a > Given
    <3>1. Given \in Nat /\ Given' \in Nat
      BY <2>1 DEF Given
    <3> QED BY <1>1, <2>1, <3>1
  <2>3. Listeners(a) = {}
    BY <1>1, <2>2 DEF Pass
  <2> QED BY <1>1, <2>3, StillSilent
<1> QED BY <1>1 DEF Pass

(* No root device is disconnected while the task looks at the root port.    *)
LEMMA PassRoot == ASSUME HubTypes, Pass, Root PROVE Pass'
<1>1. \A i \in Idx : devs[i].event # "DISCONNECT"
  BY DEF Pass, Ahead, Root, RootConnect, RootConnected, RootDisconnect, RootFault, RootQuiet
<1>2. task' \in TaskType
  BY RootTypesStep DEF HubTypes
<1>3. CASE RootDisconnect
  <2>0. PICK i \in Idx : i = root.device
    BY <1>3, RootDisconnectDoes
  <2>1. /\ i \in Idx /\ devs'[i].event = "DISCONNECT" /\ \A j \in Idx \ {i} : devs'[j] = devs[j]
        /\ task'.at = "device" /\ task'.idx = 0
        /\ devs'[i].address = devs[i].address
        /\ devs'[i].armed <=> devs[i].armed
        /\ devs'[i].new_data <=> devs[i].new_data
    BY <1>3, <2>0, RootDisconnectDoes
  <2>2. Ahead(i)' /\ Given' = 0 /\ task'.at \notin HubTask \cup {"configure"}
    <3>1. i \in Nat
      BY <2>1, Numbers
    <3>2. 0 < i \/ 0 = i
      BY <3>1
    <3> QED BY <2>1, <3>2 DEF Ahead, Given, HubTask
  <2>3. raddr' \in {0, None} /\ \A p \in Ports : port'[p].address = None
    BY <1>3, RootDisconnectDoes, BusRests DEF HubTypes, Quiet
  <2>4. ASSUME NEW a \in Addresses, a > 0 PROVE Listeners(a)' = {}
    <3>1. a # 0 /\ a # None
      <4>1. a \in Nat
        BY HubAssumption DEF Addresses
      <4> QED BY <2>4, <4>1 DEF None
    <3> QED BY <2>3, <3>1 DEF Listeners
  <2>5. ASSUME NEW j \in Idx, devs'[j].event = "DISCONNECT" PROVE j = i
    BY <1>1, <2>1, <2>5
  <2>6. ASSUME NEW j \in Idx
        PROVE  /\ ~devs'[j].connected => ~devs'[j].is_root \/ devs'[j].event = "DISCONNECT"
               /\ devs'[j].armed \/ devs'[j].new_data \/ devs'[j].event = "HUB_PORT_CHANGE"
                     => devs'[j].address = j + 1
    <3>1. CASE j = i
      BY <2>1, <3>1 DEF Pass
    <3>2. CASE j # i
      BY <2>1, <3>2, <1>1 DEF Pass
    <3> QED BY <3>1, <3>2
  <2> QED BY <2>2, <2>4, <2>5, <2>6 DEF Pass
<1>4. CASE RootConnect
  <2>1. \A j \in Idx : \/ devs'[j] = devs[j]
                       \/ devs'[j].connected /\ ~devs'[j].armed /\ ~devs'[j].new_data /\ devs'[j].event = "CONNECT"
    BY <1>4, RootConnectDoes
  <2>2. \A j \in Idx : devs'[j].event # "DISCONNECT"
    BY <1>1, <2>1
  <2>3. ASSUME NEW j \in Idx
        PROVE  /\ ~devs'[j].connected => ~devs'[j].is_root
               /\ devs'[j].armed \/ devs'[j].new_data \/ devs'[j].event = "HUB_PORT_CHANGE"
                     => devs'[j].address = j + 1
    BY <1>1, <2>1 DEF Pass
  <2>4. task'.at = "connected"
    BY <1>4, RootConnectDoes
  <2> QED BY <2>2, <2>3, <2>4 DEF Pass
<1>5. CASE RootConnected \/ RootFault \/ RootQuiet
  <2>1. UNCHANGED devs /\ task'.at # "configure"
    BY <1>5, RootConnectedDoes, RootFaultDoes, RootQuietDoes
  <2> QED BY <1>1, <2>1 DEF Pass
<1> QED BY <1>3, <1>4, <1>5 DEF Root

(* The pass goes on with the next event.                                    *)
LEMMA PassDeviceEvent == ASSUME HubTypes, Pass, DeviceEvent PROVE Pass'
<1> DEFINE i == task.idx
<1>1. /\ i \in Idx /\ i \in Nat /\ devs \in [Idx -> DeviceType] /\ task \in TaskType /\ task' \in TaskType
      /\ task.at = "device" /\ UNCHANGED <<cable, raddr, port>>
  BY DeviceEventDoes, Numbers DEF HubTypes, TaskType
<1>2. ASSUME NEW j \in Idx, devs[j].event = "DISCONNECT", j # i PROVE j > i /\ j \in Nat
  BY <1>1, <1>2, Numbers DEF Pass, Ahead
<1>3. ASSUME NextDevice, NEW j \in Idx, j > i
      PROVE  Ahead(j)' /\ Given' >= Given /\ task'.at \notin HubTask
  BY <1>1, <1>3, NextAhead DEF Given, HubTask
<1>8. NextDevice => task'.at # "configure"
  BY <1>1, NextPlace
<1>4. CASE devs[i].event = "NONE" /\ NextDevice /\ UNCHANGED <<root, devs>>
  BY <1>1, <1>2, <1>3, <1>4, <1>8, PassGoesOn DEF Pass
<1>5. CASE /\ devs[i].event = "CONNECT" /\ devs' = [devs EXCEPT ![i].event = "NONE"]
           /\ task'.at = "descriptor" /\ task'.idx = i
  <2>1. /\ SameTree /\ devs'[i].event = "NONE"
        /\ \A j \in Idx : /\ devs'[j].armed <=> devs[j].armed
                          /\ devs'[j].new_data <=> devs[j].new_data
                          /\ j # i => devs'[j] = devs[j]
    BY <1>1, <1>5, EventSet
  <2>2. ASSUME NEW j \in Idx, devs'[j].event = "DISCONNECT"
        PROVE  devs[j].event = "DISCONNECT" /\ Ahead(j)'
    <3>1. j # i /\ devs[j].event = "DISCONNECT"
      BY <2>1, <2>2
    <3> QED BY <1>2, <1>5, <3>1 DEF Ahead
  <2>3. Given' >= Given /\ task'.at \notin HubTask
    BY <1>1, <1>5 DEF Given, HubTask
  <2>4. ASSUME NEW j \in Idx
        PROVE  /\ ~devs'[j].connected => ~devs'[j].is_root \/ devs'[j].event = "DISCONNECT"
               /\ devs'[j].armed \/ devs'[j].new_data \/ devs'[j].event = "HUB_PORT_CHANGE"
                     => devs'[j].address = j + 1
    <3>1. CASE j = i
      BY <1>5, <2>1, <3>1 DEF Pass, SameTree
    <3>2. CASE j # i
      BY <2>1, <3>2 DEF Pass
    <3> QED BY <3>1, <3>2
  <2> HIDE DEF i
  <2> QED BY <1>1, <1>5, <2>2, <2>3, <2>4, PassGoesOn
<1>6. CASE devs[i].event = "DISCONNECT" /\ devs' = Disconnected(devs, i) /\ NextDevice
  <2>1. /\ devs'[i] = ZeroDevice
        /\ \A j \in Idx : devs'[j] = ZeroDevice \/ devs'[j] = devs[j]
    BY <1>1, <1>6, Frees
  <2>2. ASSUME NEW j \in Idx, devs'[j].event = "DISCONNECT"
        PROVE  devs[j].event = "DISCONNECT" /\ j > i
    <3>1. devs'[j] = devs[j] /\ j # i
      BY <2>1, <2>2, Zero
    <3> QED BY <1>2, <2>2, <3>1
  <2>3. ASSUME NEW j \in Idx
        PROVE  /\ ~devs'[j].connected => ~devs'[j].is_root \/ devs'[j].event = "DISCONNECT"
               /\ devs'[j].armed \/ devs'[j].new_data \/ devs'[j].event = "HUB_PORT_CHANGE"
                     => devs'[j].address = j + 1
    BY <2>1, Zero DEF Pass
  <2> HIDE DEF i
  <2> QED BY <1>1, <1>3, <1>6, <1>8, <2>2, <2>3, PassGoesOn
<1>7. CASE devs[i].event = "HUB_PORT_CHANGE" /\ UNCHANGED <<root, devs>> /\ task'.at = "hub" /\ task'.idx = i
  <2>1. devs[i].address = i + 1
    BY <1>1, <1>7 DEF Pass
  <2>2. ASSUME NEW j \in Idx, devs[j].event = "DISCONNECT" PROVE Ahead(j)'
    BY <1>2, <1>7, <2>2 DEF Ahead
  <2>3. Given' >= Given
    BY <1>1, <1>7 DEF Given
  <2> QED BY <1>1, <1>7, <2>1, <2>2, <2>3, PassGoesOn DEF Pass
<1> QED BY <1>4, <1>5, <1>6, <1>7, DeviceEventDoes

(* An enumeration gives out the address of its own place.                   *)
LEMMA PassEnumeration == ASSUME HubTypes, Pass, Enumeration PROVE Pass'
<1> DEFINE i == task.idx
<1>1. i \in Idx /\ i \in Nat /\ devs \in [Idx -> DeviceType] /\ task \in TaskType /\ task' \in TaskType
  BY EnumerationTypes, Numbers DEF HubTypes, TaskType
<1>2. task.at \in {"descriptor", "address", "configure", "failed"}
  BY DEF Enumeration, Descriptor, SetAddress, Configure, RootFailed, PortFailed
<1>3. ASSUME NEW j \in Idx, devs[j].event = "DISCONNECT" PROVE j > i /\ j \in Nat
  BY <1>1, <1>2, <1>3, Numbers DEF Pass, Ahead
<1>4. ASSUME NextDevice, task.at \in {"configure", "failed"}, NEW j \in Idx, j > i
      PROVE  Ahead(j)' /\ Given' >= Given /\ task'.at \notin HubTask
  BY <1>1, <1>4, NextAhead DEF Given, HubTask
<1>5. ASSUME task'.idx = i, task'.at \in {"address", "configure", "failed"},
             task.at \in {"descriptor", "address"} \/ task'.at = "failed", NEW j \in Idx, j > i
      PROVE  Ahead(j)' /\ Given' >= Given /\ task'.at \notin HubTask
  BY <1>1, <1>2, <1>5 DEF Given, HubTask, Ahead
<1>6. CASE Descriptor
  BY <1>1, <1>3, <1>5, <1>6, DescriptorDoes, PassGoesOn DEF Pass
<1>7. CASE SetAddress
  <2>1. /\ task.at = "address" /\ task'.idx = i /\ task'.at \in {"configure", "failed"}
        /\ UNCHANGED cable /\ raddr' \in {raddr, i + 1}
        /\ \A p \in Ports : port'[p].address \in {port[p].address, i + 1}
    BY <1>7, SetAddressDoes
  <2>2. Given' = i + 1
    BY <2>1 DEF Given
  <2>3. ASSUME NEW a \in Addresses, a > Given'
        PROVE  /\ cable' # "none" /\ raddr' = a => cable # "none" /\ raddr = a
               /\ \A p \in Ports : port'[p].address = a => port[p].address = a
    <3>1. a # i + 1
      BY <1>1, <2>2, <2>3 DEF Addresses
    <3> QED BY <2>1, <3>1
  <2>4. ASSUME NEW j \in Idx
        PROVE  /\ ~devs'[j].connected => ~devs'[j].is_root \/ devs'[j].event = "DISCONNECT"
               /\ devs'[j].armed \/ devs'[j].new_data \/ devs'[j].event = "HUB_PORT_CHANGE"
                     => devs'[j].address = j + 1
               /\ devs'[j].event = devs[j].event
    <3>1. /\ devs'[j].connected <=> devs[j].connected
          /\ devs'[j].is_root <=> devs[j].is_root
          /\ devs'[j].event = devs[j].event
          /\ devs'[j].armed <=> devs[j].armed
          /\ devs'[j].new_data <=> devs[j].new_data
          /\ j # i => devs'[j] = devs[j]
          /\ devs'[i].address = i + 1 \/ devs'[i] = devs[i]
      BY <1>7, SetAddressDoes
    <3> QED BY <3>1 DEF Pass
  <2>5. task'.at = "configure" => devs'[i].address = i + 1
    BY <1>7, SetAddressDoes
  <2> HIDE DEF i
  <2> QED BY <1>1, <1>3, <1>5, <2>1, <2>3, <2>4, <2>5, PassGoesOn
<1>8. CASE Configure
  <2>1. /\ task.at = "configure" /\ UNCHANGED <<cable, raddr, port>> /\ SameTree
        /\ \A j \in Idx : /\ devs'[j].event = devs[j].event
                          /\ devs'[j].new_data <=> devs[j].new_data
                          /\ j # i => devs'[j] = devs[j]
        /\ NextDevice \/ (task'.at = "failed" /\ task'.idx = i)
    BY <1>8, ConfigureDoes
  <2>2. devs[i].address = i + 1
    BY <2>1 DEF Pass
  <2>3. ASSUME NEW j \in Idx
        PROVE  /\ ~devs'[j].connected => ~devs'[j].is_root \/ devs'[j].event = "DISCONNECT"
               /\ devs'[j].armed \/ devs'[j].new_data \/ devs'[j].event = "HUB_PORT_CHANGE"
                     => devs'[j].address = j + 1
    BY <2>1, <2>2 DEF Pass, SameTree
  <2>4. ASSUME NEW j \in Idx, j > i PROVE Ahead(j)' /\ Given' >= Given /\ task'.at \notin HubTask
    BY <1>4, <1>5, <2>1, <2>4
  <2>5. task'.at # "configure"
    BY <1>1, <2>1, NextPlace
  <2> HIDE DEF i
  <2> QED BY <1>1, <1>3, <2>1, <2>3, <2>4, <2>5, PassGoesOn
<1>9. NextDevice => task'.at # "configure"
  BY <1>1, NextPlace
<1>10. CASE RootFailed
  BY <1>1, <1>3, <1>4, <1>9, <1>10, RootFailedDoes, PassGoesOn DEF Pass
<1>11. CASE PortFailed
  <2>1. PICK acted \in BOOLEAN :
           /\ devs' = Disconnected(devs, i) /\ UNCHANGED <<cable, raddr>> /\ NextDevice
           /\ IF acted THEN ResetPort(devs[i].parent_port) ELSE UNCHANGED port
           /\ task.at = "failed"
    BY <1>11, PortFailedDoes
  <2>2. \A p \in Ports : port'[p].address = port[p].address
    BY <2>1, PortResets DEF HubTypes
  <2>3. \A j \in Idx : devs'[j] = ZeroDevice \/ devs'[j] = devs[j]
    BY <1>1, <2>1, Frees
  <2>4. ASSUME NEW j \in Idx
        PROVE  /\ ~devs'[j].connected => ~devs'[j].is_root \/ devs'[j].event = "DISCONNECT"
               /\ devs'[j].armed \/ devs'[j].new_data \/ devs'[j].event = "HUB_PORT_CHANGE"
                     => devs'[j].address = j + 1
               /\ devs'[j].event = "DISCONNECT" => devs[j].event = "DISCONNECT"
    BY <2>3, Zero DEF Pass
  <2> HIDE DEF i
  <2> QED BY <1>1, <1>3, <1>4, <1>9, <2>1, <2>2, <2>4, PassGoesOn
<1> QED BY <1>6, <1>7, <1>8, <1>10, <1>11 DEF Enumeration

(* No hub answers until the root device has been freed.                     *)
LEMMA PassHub == ASSUME HubTypes, Pass, Hub PROVE Pass'
<1> DEFINE h == task.idx
<1>1. h \in Idx /\ h \in Nat /\ devs \in [Idx -> DeviceType] /\ task \in TaskType /\ task' \in TaskType
      /\ task.port \in Nat
  BY HubStepTypes, Numbers DEF HubTypes, TaskType
<1>2. task.at \in HubTask
  BY DEF HubTask, Hub, HubDone, HubStatus, HubReset, HubClearConnection, HubClearReset
<1>3. ASSUME NEW j \in Idx, devs[j].event = "DISCONNECT"
      PROVE  j > h /\ j \in Nat /\ Listeners(devs[h].address) = {} /\ devs[h].address = h + 1
  <2>1. j > h /\ j \in Nat /\ devs[h].address = h + 1
    BY <1>1, <1>2, <1>3, Numbers DEF Pass, Ahead, HubTask
  <2>2. devs[h].address \in Addresses /\ devs[h].address > Given
    BY <1>1, <1>2, <2>1, Numbers DEF HubTask, Given
  <2> QED BY <1>3, <2>1, <2>2 DEF Pass
<1>4. ASSUME task'.at \in HubTask, task'.idx = h, NEW j \in Idx, j > h
      PROVE  Ahead(j)' /\ Given' >= Given
  BY <1>1, <1>2, <1>4 DEF Ahead, Given, HubTask
<1>5. task'.at # "configure"
  BY <1>1, NextPlace, HubDoneDoes, HubStatusDoes, HubResetDoes, HubClearConnectionDoes, HubClearResetDoes DEF Hub
<1>6. CASE HubDone
  <2>1. /\ UNCHANGED <<root, cable, raddr, port>> /\ NextDevice /\ SameTree
        /\ \A j \in Idx : /\ devs'[j].event \in {devs[j].event, "NONE"}
                          /\ devs'[j].armed <=> devs[j].armed
                          /\ devs'[j].new_data <=> devs[j].new_data
                          /\ j # task.idx => devs'[j] = devs[j]
    BY <1>6, HubDoneDoes
  <2>2. ASSUME NEW j \in Idx
        PROVE  /\ ~devs'[j].connected => ~devs'[j].is_root \/ devs'[j].event = "DISCONNECT"
               /\ devs'[j].armed \/ devs'[j].new_data \/ devs'[j].event = "HUB_PORT_CHANGE"
                     => devs'[j].address = j + 1
               /\ devs'[j].event = "DISCONNECT" => devs[j].event = "DISCONNECT"
    <3>1. CASE j # h
      BY <2>1, <3>1 DEF Pass
    <3>2. CASE j = h
      <4>1. devs[h].event # "DISCONNECT"
        BY <1>1, <1>3
      <4> QED BY <1>1, <2>1, <3>2, <4>1 DEF Pass, SameTree
    <3> QED BY <3>1, <3>2
  <2>3. ASSUME NEW j \in Idx, j > h PROVE Ahead(j)' /\ Given' >= Given /\ task'.at \notin HubTask
    BY <1>1, <1>2, <2>1, <2>3, NextAhead DEF Given, HubTask
  <2> HIDE DEF h
  <2> QED BY <1>1, <1>3, <1>5, <2>1, <2>2, <2>3, PassGoesOn
<1>7. CASE HubStatus
  <2>1. /\ UNCHANGED <<cable, raddr, port>> /\ task'.idx = h /\ task'.at \in HubTask
        /\ \/ UNCHANGED devs
           \/ /\ Listeners(devs[h].address) # {}
              /\ \E p \in Ports : devs' = Disconnected(devs, devs[h].child[p])
    BY <1>7, HubStatusDoes DEF HubTask
  <2>2. CASE UNCHANGED devs
    BY <1>1, <1>3, <1>4, <1>5, <2>1, <2>2, PassGoesOn DEF Pass
  <2>3. ASSUME Listeners(devs[h].address) # {}, NEW p \in Ports, devs' = Disconnected(devs, devs[h].child[p])
        PROVE  Pass'
    <3>1. devs[h].child[p] \in Idx
      <4>1. devs[h] \in DeviceType
        BY <1>1
      <4> QED BY <4>1 DEF DeviceType
    <3>2. \A j \in Idx : devs'[j] = ZeroDevice \/ devs'[j] = devs[j]
      BY <1>1, <2>3, <3>1, Frees
    <3>3. \A j \in Idx : devs[j].event # "DISCONNECT"
      BY <1>3, <2>3
    <3>4. ASSUME NEW j \in Idx
          PROVE  /\ ~devs'[j].connected => ~devs'[j].is_root
                 /\ devs'[j].armed \/ devs'[j].new_data \/ devs'[j].event = "HUB_PORT_CHANGE"
                       => devs'[j].address = j + 1
                 /\ devs'[j].event # "DISCONNECT"
      BY <3>2, <3>3, Zero DEF Pass
    <3> QED BY <1>5, <3>4 DEF Pass
  <2> QED BY <2>1, <2>2, <2>3
<1>8. CASE HubReset \/ HubClearConnection
  <2>1. /\ UNCHANGED <<devs, cable, raddr>> /\ task'.idx = h /\ task'.at \in HubTask
    BY <1>8, HubResetDoes, HubClearConnectionDoes DEF HubTask
  <2>2. \A p \in Ports : port'[p].address = port[p].address
    BY <1>8, HubResetDoes, PortResets, HubClearConnectionDoes DEF HubTypes
  <2> QED BY <1>1, <1>3, <1>4, <1>5, <2>1, <2>2, PassGoesOn DEF Pass
<1>9. CASE HubClearReset
  <2>1. /\ UNCHANGED <<cable, raddr>> /\ task'.idx = h /\ task'.at \in HubTask
        /\ \A p \in Ports : port'[p].address = port[p].address
        /\ \/ UNCHANGED devs
           \/ /\ Listeners(devs[h].address) # {}
              /\ device_pool_vacant # None /\ Assign(h, task.port)
    BY <1>9, HubClearResetDoes DEF HubTask
  <2>2. CASE UNCHANGED devs
    BY <1>1, <1>3, <1>4, <1>5, <2>1, <2>2, PassGoesOn DEF Pass
  <2>3. ASSUME Listeners(devs[h].address) # {}, device_pool_vacant # None, Assign(h, task.port)
        PROVE  Pass'
    <3>1. ~devs[device_pool_vacant].connected
      BY <2>3, FirstVacant DEF Vacant
    <3>2. \A j \in Idx : devs[j].event # "DISCONNECT"
      BY <1>3, <2>3
    <3>3. \A j \in Idx : /\ devs'[j].address = devs[j].address
                         /\ devs'[j].is_root <=> devs[j].is_root
                         /\ devs'[j].armed <=> devs[j].armed
                         /\ devs'[j].new_data <=> devs[j].new_data
                         /\ \/ devs'[j].connected /\ devs'[j].event = "CONNECT"
                            \/ /\ devs'[j].connected <=> devs[j].connected
                               /\ devs'[j].event = devs[j].event
      BY <1>1, <2>3, <3>1, Assigned
    <3> QED BY <1>5, <3>2, <3>3 DEF Pass
  <2> QED BY <2>1, <2>2, <2>3
<1> QED BY <1>6, <1>7, <1>8, <1>9 DEF Hub

(* The rest of the system leaves the pass alone.                            *)
LEMMA PassBus == ASSUME HubTypes, Pass, RootPort \/ HubReport \/ pio_usb_get_in_data \/ HubPort \/ Cable
                 PROVE  Pass'
<1>0. /\ UNCHANGED task /\ task \in TaskType /\ Given' = Given /\ task' \in TaskType
      /\ \A a \in Addresses : a > Given => a # 0 /\ a # None
  <2>1. UNCHANGED task
    BY RootPortDoes, HubReportDoes, GetInDataDoes, HubPortDoes, PlugRootDoes, PlugPortDoes, UnplugRootDoes,
       UnplugPortDoes DEF Cable
  <2>2. ASSUME NEW a \in Addresses, a > Given PROVE a # 0 /\ a # None
    <3>1. a \in Nat
      BY HubAssumption DEF Addresses
    <3>2. Given \in Nat
      BY GivenNat DEF HubTypes
    <3> QED BY <2>2, <3>1, <3>2 DEF None
  <2> QED BY <2>1, <2>2 DEF HubTypes, Given
<1>1. ASSUME NEW i \in Idx, devs[i].event = "DISCONNECT", UNCHANGED task PROVE Ahead(i)'
  BY <1>1 DEF Pass, Ahead
<1>2. Given' >= Given
  <2>1. Given \in Nat
    BY GivenNat DEF HubTypes
  <2> QED BY <1>0, <2>1
<1>3. ASSUME UNCHANGED devs,
             \A a \in Addresses : a > Given =>
                /\ cable' # "none" /\ raddr' = a => cable # "none" /\ raddr = a
                /\ \A p \in Ports : port'[p].address = a => port[p].address = a
      PROVE  Pass'
  BY <1>0, <1>1, <1>2, <1>3, PassGoesOn DEF Pass
<1>4. ASSUME UNCHANGED <<cable, raddr, port>>, SameTree, NEW i \in Idx,
             \A j \in Idx \ {i} : devs'[j] = devs[j],
             \/ devs'[i].event = "HUB_PORT_CHANGE" /\ devs[i].connected
             \/ devs'[i].event = devs[i].event,
             devs[i].address = i + 1
      PROVE  Pass'
  <2>1. ASSUME NEW j \in Idx
        PROVE  /\ ~devs'[j].connected => ~devs'[j].is_root \/ devs'[j].event = "DISCONNECT"
               /\ devs'[j].armed \/ devs'[j].new_data \/ devs'[j].event = "HUB_PORT_CHANGE"
                     => devs'[j].address = j + 1
               /\ devs'[j].event = "DISCONNECT" => devs[j].event = "DISCONNECT"
    <3>1. CASE j = i
      BY <1>4, <3>1 DEF Pass, SameTree
    <3>2. CASE j # i
      BY <1>4, <3>2 DEF Pass
    <3> QED BY <3>1, <3>2
  <2>2. \A j \in Idx : devs'[j].address = devs[j].address
    BY <1>4 DEF SameTree
  <2>3. task.idx \in Idx
    BY <1>0 DEF TaskType
  <2> QED BY <1>0, <1>1, <1>2, <1>4, <2>1, <2>2, <2>3, PassGoesOn DEF Pass
<1>5. CASE RootPort
  BY <1>3, <1>5, RootPortDoes
<1>6. CASE HubReport
  <2>1. PICK i \in Idx : /\ devs[i].connected /\ devs[i].armed
                         /\ devs'[i].event = "HUB_PORT_CHANGE"
                         /\ \A j \in Idx \ {i} : devs'[j] = devs[j]
    BY <1>6, HubReportDoes
  <2>2. devs[i].address = i + 1
    BY <2>1 DEF Pass
  <2> QED BY <1>4, <1>6, <2>1, <2>2, HubReportDoes
<1>7. CASE pio_usb_get_in_data
  <2>1. PICK i \in Idx : /\ devs[i].new_data /\ devs'[i].event = devs[i].event
                         /\ \A j \in Idx \ {i} : devs'[j] = devs[j]
    BY <1>7, GetInDataDoes
  <2>2. devs[i].address = i + 1
    BY <2>1 DEF Pass
  <2> QED BY <1>4, <1>7, <2>1, <2>2, GetInDataDoes
<1>8. CASE HubPort
  <2>1. PICK p \in Ports : port'[p].address = 0 /\ \A r \in Ports \ {p} : port'[r] = port[r]
    BY <1>8, HubPortDoes
  <2>2. \A a \in Addresses : a > Given => \A r \in Ports : port'[r].address = a => port[r].address = a
    BY <1>0, <2>1
  <2> QED BY <1>3, <1>8, <2>2, HubPortDoes
<1>9. CASE PlugRoot
  BY <1>0, <1>3, <1>9, PlugRootDoes
<1>10. CASE PlugPort
  <2>1. PICK p \in Ports : port'[p].address = port[p].address /\ \A r \in Ports \ {p} : port'[r] = port[r]
    BY <1>10, PlugPortDoes
  <2>2. \A r \in Ports : port'[r].address = port[r].address
    BY <2>1
  <2> QED BY <1>3, <1>10, <2>2, PlugPortDoes
<1>11. CASE UnplugRoot
  <2>1. \A r \in Ports : port'[r].address = None
    BY <1>11, UnplugRootDoes DEF Quiet
  <2> QED BY <1>0, <1>3, <1>11, <2>1, UnplugRootDoes
<1>12. CASE UnplugPort
  <2>1. PICK p \in Ports : port'[p].address = None /\ \A r \in Ports \ {p} : port'[r] = port[r]
    BY <1>12, UnplugPortDoes
  <2>2. \A a \in Addresses : a > Given => \A r \in Ports : port'[r].address = a => port[r].address = a
    BY <1>0, <2>1
  <2> QED BY <1>3, <1>12, <2>2, UnplugPortDoes
<1> QED BY <1>5, <1>6, <1>7, <1>8, <1>9, <1>10, <1>11, <1>12 DEF Cable

(* The pass over the devices frees every device in order.                   *)
LEMMA PassStep == ASSUME HubTypes, Pass, Next PROVE Pass'
BY PassRoot, PassDeviceEvent, PassEnumeration, PassHub, PassBus DEF Next, Task

(* The root device is known as long as the root port is not connected       *)
(* without one.                                                             *)
LEMMA RootOkRoot == ASSUME HubTypes, RootOk, Root, "rootless" \notin mishaps' PROVE RootOk'
<1>1. task.at = "root" => \A i \in Idx : ~(devs[i].event = "CONNECT" /\ devs[i].is_root)
  BY DEF RootOk, Ahead
<1>2. CASE RootConnect
  <2>1. cable # "none" /\ task.at = "root" /\ task'.at = "connected" /\ root'.event = "CONNECT"
    BY <1>2, RootConnectDoes
  <2>2. root'.device # None
    <3>1. device_pool_vacant \in Idx /\ root'.device = device_pool_vacant
      BY <1>2, <2>1, RootConnectDoes DEF Vacant
    <3> QED BY <3>1, Numbers
  <2> QED BY <2>1, <2>2 DEF RootOk, Current
<1>3. CASE RootConnected
  <2>1. /\ task.at = "connected" /\ root'.event = "NONE" /\ root'.device = root.device
        /\ task'.at = "device" /\ task'.idx = 0 /\ UNCHANGED devs
    BY <1>3, RootConnectedDoes
  <2>2. ASSUME NEW i \in Idx PROVE Ahead(i)'
    <3>1. i \in Nat
      BY Numbers
    <3>2. 0 < i \/ 0 = i
      BY <3>1
    <3> QED BY <2>1, <3>2 DEF Ahead
  <2> QED BY <2>1, <2>2 DEF RootOk, Current
<1>4. CASE RootDisconnect
  <2>0. PICK i \in Idx : i = root.device
    BY <1>4, RootDisconnectDoes
  <2>1. /\ task.at = "root" /\ root'.event = "NONE" /\ ~root'.connected /\ task'.at = "device"
        /\ devs'[i].event = "DISCONNECT" /\ \A j \in Idx \ {i} : devs'[j] = devs[j]
    BY <1>4, <2>0, RootDisconnectDoes
  <2>2. \A j \in Idx : ~(devs'[j].event = "CONNECT" /\ devs'[j].is_root)
    BY <1>1, <2>1
  <2> QED BY <2>1, <2>2 DEF RootOk, Current
<1>5. CASE RootFault
  BY <1>5, RootFaultDoes DEF RootOk
<1>6. CASE RootQuiet
  <2>1. UNCHANGED <<root, devs>> /\ task.at = "root" /\ task'.at = "device"
    BY <1>6, RootQuietDoes
  <2> QED BY <1>1, <2>1 DEF RootOk, Current
<1> QED BY <1>2, <1>3, <1>4, <1>5, <1>6 DEF Root

(* No event of a device touches what is known of the root port.             *)
LEMMA RootOkDeviceEvent == ASSUME HubTypes, RootOk, DeviceEvent PROVE RootOk'
<1> DEFINE i == task.idx
<1>1. /\ i \in Idx /\ i \in Nat /\ devs \in [Idx -> DeviceType] /\ task \in TaskType /\ task.at = "device"
      /\ root \in RootType
  BY DeviceEventDoes, Numbers DEF HubTypes, TaskType
<1>2. ASSUME NEW j \in Idx, devs[j].event = "CONNECT" /\ devs[j].is_root, j # i PROVE j > i /\ j \in Nat
  BY <1>1, <1>2, Numbers DEF RootOk, Ahead
<1>3. CASE devs[i].event = "NONE" /\ NextDevice /\ UNCHANGED <<root, devs>>
  <2>1. task'.at \in {"root", "device"}
    BY <1>1, <1>3, NextPlace
  <2> QED BY <1>1, <1>2, <1>3, <2>1, NextAhead DEF RootOk, Current
<1>4. CASE /\ devs[i].event = "CONNECT" /\ devs' = [devs EXCEPT ![i].event = "NONE"]
           /\ task'.at = "descriptor" /\ task'.idx = i /\ UNCHANGED root
  <2>1. /\ SameTree /\ devs'[i].event = "NONE" /\ \A j \in Idx : j # i => devs'[j] = devs[j]
    BY <1>1, <1>4, EventSet
  <2>2. ASSUME NEW j \in Idx, devs'[j].event = "CONNECT" /\ devs'[j].is_root
        PROVE  devs[j].event = "CONNECT" /\ devs[j].is_root /\ Ahead(j)'
    <3>1. j # i /\ devs[j].event = "CONNECT" /\ devs[j].is_root
      BY <2>1, <2>2
    <3> QED BY <1>2, <1>4, <3>1 DEF Ahead
  <2>3. devs'[i].is_root => devs[i].is_root
    BY <1>1, <2>1 DEF SameTree
  <2> HIDE DEF i
  <2> QED BY <1>1, <1>4, <2>2, <2>3 DEF RootOk, Current
<1>5. CASE devs[i].event = "DISCONNECT" /\ devs' = Disconnected(devs, i) /\ root' = Unlock(root, i) /\ NextDevice
  <2>1. \A j \in Idx : devs'[j] = ZeroDevice \/ (devs'[j] = devs[j] /\ j # i)
    BY <1>1, <1>5, Frees
  <2>2. ASSUME NEW j \in Idx, devs'[j].event = "CONNECT" /\ devs'[j].is_root
        PROVE  devs[j].event = "CONNECT" /\ devs[j].is_root /\ Ahead(j)'
    <3>1. j # i /\ devs[j].event = "CONNECT" /\ devs[j].is_root
      BY <2>1, <2>2, Zero
    <3> QED BY <1>1, <1>2, <1>5, <3>1, NextAhead
  <2>3. /\ root'.event = root.event /\ root'.device = root.device
        /\ root'.connected <=> root.connected
        /\ root'.suspended <=> root.suspended
    BY <1>1, <1>5, Releases
  <2>4. task'.at \in {"root", "device"}
    BY <1>1, <1>5, NextPlace
  <2> HIDE DEF i
  <2> QED BY <1>1, <2>2, <2>3, <2>4 DEF RootOk, Current
<1>6. CASE devs[i].event = "HUB_PORT_CHANGE" /\ UNCHANGED <<root, devs>> /\ task'.at = "hub" /\ task'.idx = i
  <2>1. ASSUME NEW j \in Idx, devs[j].event = "CONNECT" /\ devs[j].is_root PROVE Ahead(j)'
    BY <1>2, <1>6, <2>1 DEF Ahead
  <2> QED BY <1>1, <1>6, <2>1 DEF RootOk, Current
<1> QED BY <1>3, <1>4, <1>5, <1>6, DeviceEventDoes

(* What a step does to the root device when the root port has no event.     *)
LEMMA RootOkGoesOn ==
    ASSUME RootOk, root'.event = root.event, root'.device = root.device,
           root'.connected <=> root.connected, root'.suspended <=> root.suspended,
           task'.at \notin {"fault", "connected"},
           Current' /\ devs'[task'.idx].is_root => Current /\ devs[task.idx].is_root,
           \A i \in Idx : devs'[i].event = "CONNECT" /\ devs'[i].is_root =>
              devs[i].event = "CONNECT" /\ devs[i].is_root /\ Ahead(i)'
    PROVE  RootOk'
BY DEF RootOk

(* The device that is enumerated may be the root device.                    *)
LEMMA RootOkEnumeration == ASSUME HubTypes, RootOk, Enumeration PROVE RootOk'
<1>1. /\ task.idx \in Idx /\ task.idx \in Nat /\ devs \in [Idx -> DeviceType] /\ task \in TaskType
      /\ root \in RootType /\ task.at \notin {"root", "connected", "fault", "device"}
  BY Numbers DEF HubTypes, TaskType, Enumeration, Descriptor, SetAddress, Configure, RootFailed, PortFailed
<1>2. ASSUME NEW j \in Idx, devs[j].event = "CONNECT", devs[j].is_root PROVE j > task.idx /\ j \in Nat
  BY <1>1, <1>2, Numbers DEF RootOk, Ahead
<1>3. ASSUME NextDevice, NEW j \in Idx, j > task.idx
      PROVE  Ahead(j)'
  BY <1>1, <1>3, NextAhead
<1>4. NextDevice => task'.at \in {"root", "device"} /\ ~Current'
  BY <1>1, NextPlace DEF Current
<1>5. ASSUME task'.at \in {"address", "configure", "failed"}, task'.idx = task.idx, NEW j \in Idx, j > task.idx
      PROVE  Ahead(j)'
  BY <1>5 DEF Ahead
<1>6. CASE Descriptor \/ SetAddress
  <2>1. /\ UNCHANGED root /\ task'.at \in {"address", "configure", "failed"} /\ task'.idx = task.idx
        /\ \A j \in Idx : /\ devs'[j].is_root <=> devs[j].is_root
                          /\ devs'[j].event = devs[j].event
        /\ Current
    BY <1>6, DescriptorDoes, SetAddressDoes DEF Current
  <2> QED BY <1>1, <1>2, <1>5, <2>1, RootOkGoesOn
<1>7. CASE Configure
  <2>1. /\ root'.event = root.event /\ root'.device = root.device
        /\ root'.connected <=> root.connected
        /\ root'.suspended <=> root.suspended
        /\ \A j \in Idx : /\ devs'[j].is_root <=> devs[j].is_root
                          /\ devs'[j].event = devs[j].event
        /\ NextDevice \/ (task'.at = "failed" /\ task'.idx = task.idx)
        /\ Current
    BY <1>7, ConfigureDoes DEF Current, SameTree
  <2>2. CASE NextDevice
    BY <1>2, <1>3, <1>4, <2>1, <2>2, RootOkGoesOn
  <2>3. CASE task'.at = "failed" /\ task'.idx = task.idx
    BY <1>1, <1>2, <1>5, <2>1, <2>3, RootOkGoesOn
  <2> QED BY <2>1, <2>2, <2>3
<1>8. CASE RootFailed
  <2>1. /\ UNCHANGED devs /\ NextDevice /\ root'.event = "DISCONNECT" /\ root'.device = root.device
        /\ Current /\ devs[task.idx].is_root
    BY <1>8, RootFailedDoes DEF Current
  <2>2. root.device # None
    BY <2>1 DEF RootOk
  <2> QED BY <1>2, <1>3, <1>4, <2>1, <2>2 DEF RootOk
<1>9. CASE PortFailed
  <2>1. devs' = Disconnected(devs, task.idx) /\ root' = Unlock(root, task.idx) /\ NextDevice
    BY <1>9, PortFailedDoes
  <2>2. \A j \in Idx : devs'[j] = ZeroDevice \/ devs'[j] = devs[j]
    BY <1>1, <2>1, Frees
  <2>3. ASSUME NEW j \in Idx, devs'[j].event = "CONNECT", devs'[j].is_root
        PROVE  devs[j].event = "CONNECT" /\ devs[j].is_root /\ Ahead(j)'
    <3>1. devs'[j] = devs[j]
      BY <2>2, <2>3, Zero
    <3> QED BY <1>2, <1>3, <2>1, <2>3, <3>1
  <2>4. /\ root'.event = root.event /\ root'.device = root.device
        /\ root'.connected <=> root.connected
        /\ root'.suspended <=> root.suspended
    BY <1>1, <2>1, Releases
  <2> QED BY <1>4, <2>1, <2>3, <2>4, RootOkGoesOn
<1> QED BY <1>6, <1>7, <1>8, <1>9 DEF Enumeration

(* A place of the pool that a hub's device takes is not of a root device.   *)
LEMMA RootOkHub == ASSUME HubTypes, Pass, RootOk, Hub PROVE RootOk'
<1> DEFINE h == task.idx
<1>1. /\ h \in Idx /\ h \in Nat /\ devs \in [Idx -> DeviceType] /\ task \in TaskType
      /\ root \in RootType /\ task.port \in Nat
  BY Numbers DEF HubTypes, TaskType
<1>2. task.at \in HubTask
  BY DEF HubTask, Hub, HubDone, HubStatus, HubReset, HubClearConnection, HubClearReset
<1>3. ASSUME NEW j \in Idx, devs[j].event = "CONNECT", devs[j].is_root PROVE j > h /\ j \in Nat
  BY <1>1, <1>2, <1>3, Numbers DEF RootOk, Ahead, HubTask
<1>4. ASSUME task'.at \in HubTask, task'.idx = h, NEW j \in Idx, j > h PROVE Ahead(j)' /\ ~Current'
  BY <1>4 DEF Ahead, HubTask, Current
<1>5. HubTask \cap {"fault", "connected", "descriptor", "address", "configure", "failed"} = {}
  BY DEF HubTask
<1>6. CASE HubDone
  <2>1. /\ UNCHANGED root /\ NextDevice
        /\ \A j \in Idx : devs'[j].event \in {devs[j].event, "NONE"} /\ (devs'[j].is_root <=> devs[j].is_root)
    BY <1>6, HubDoneDoes DEF SameTree
  <2>2. task'.at \in {"root", "device"} /\ ~Current'
    BY <1>1, <2>1, NextPlace DEF Current
  <2>3. ASSUME NEW j \in Idx, devs'[j].event = "CONNECT", devs'[j].is_root
        PROVE  devs[j].event = "CONNECT" /\ devs[j].is_root /\ Ahead(j)'
    BY <1>1, <1>3, <2>1, <2>3, NextAhead
  <2> QED BY <2>1, <2>2, <2>3, RootOkGoesOn
<1>7. ASSUME task'.at \in HubTask, task'.idx = h,
             root'.event = root.event, root'.device = root.device,
             root'.connected <=> root.connected, root'.suspended <=> root.suspended,
             \A j \in Idx : devs'[j].event = "CONNECT" /\ devs'[j].is_root =>
                devs[j].event = "CONNECT" /\ devs[j].is_root
      PROVE  RootOk'
  <2>1. task'.at \notin {"fault", "connected"} /\ ~Current'
    BY <1>5, <1>7 DEF Current
  <2> QED BY <1>3, <1>4, <1>7, <2>1, RootOkGoesOn
<1>8. CASE HubStatus
  <2>1. /\ task'.idx = h /\ task'.at \in HubTask
        /\ \/ UNCHANGED <<root, devs>>
           \/ \E p \in Ports : devs' = Disconnected(devs, devs[h].child[p]) /\ root' = Unlock(root, devs[h].child[p])
    BY <1>8, HubStatusDoes DEF HubTask
  <2>2. ASSUME NEW p \in Ports, devs' = Disconnected(devs, devs[h].child[p]), root' = Unlock(root, devs[h].child[p])
        PROVE  RootOk'
    <3>1. devs[h].child[p] \in Idx
      <4>1. devs[h] \in DeviceType
        BY <1>1
      <4> QED BY <4>1 DEF DeviceType
    <3>2. \A j \in Idx : devs'[j] = ZeroDevice \/ devs'[j] = devs[j]
      BY <1>1, <2>2, <3>1, Frees
    <3>3. /\ root'.event = root.event /\ root'.device = root.device
          /\ root'.connected <=> root.connected
          /\ root'.suspended <=> root.suspended
      BY <1>1, <2>2, Releases
    <3>4. \A j \in Idx : devs'[j].event = "CONNECT" /\ devs'[j].is_root =>
                devs[j].event = "CONNECT" /\ devs[j].is_root
      BY <3>2, Zero
    <3> HIDE DEF h
    <3> QED BY <1>7, <2>1, <3>3, <3>4
  <2> QED BY <1>7, <2>1, <2>2
<1>9. CASE HubReset \/ HubClearConnection
  <2>1. /\ UNCHANGED devs /\ task'.idx = h /\ task'.at \in HubTask
        /\ root'.event = root.event /\ root'.device = root.device
        /\ root'.connected <=> root.connected
        /\ root'.suspended <=> root.suspended
    BY <1>9, HubResetDoes, HubClearConnectionDoes DEF HubTask
  <2> QED BY <1>7, <2>1
<1>10. CASE HubClearReset
  <2>1. /\ UNCHANGED root /\ task'.idx = h /\ task'.at \in HubTask
        /\ \/ UNCHANGED devs
           \/ /\ Listeners(devs[h].address) # {}
              /\ device_pool_vacant # None /\ Assign(h, task.port)
    BY <1>10, HubClearResetDoes DEF HubTask
  <2>2. ASSUME Listeners(devs[h].address) # {}, device_pool_vacant # None, Assign(h, task.port)
        PROVE  RootOk'
    <3>1. PICK i \in Idx : i = device_pool_vacant /\ ~devs[i].connected
      BY <2>2, FirstVacant DEF Vacant
    <3>2. ~devs[i].is_root
      <4>1. SUFFICES ASSUME devs[i].event = "DISCONNECT" PROVE FALSE
        BY <3>1 DEF Pass
      <4>2. i > h /\ devs[h].address = h + 1
        BY <1>1, <1>2, <4>1, Numbers DEF Pass, Ahead, HubTask
      <4>3. devs[h].address \in Addresses /\ devs[h].address > Given
        BY <1>1, <1>2, <4>2, Numbers DEF HubTask, Given
      <4> QED BY <2>2, <4>1, <4>3 DEF Pass
    <3>3. \A j \in Idx : /\ devs'[j].is_root <=> devs[j].is_root
                         /\ j # i => devs'[j].event = devs[j].event
      BY <1>1, <2>2, <3>1, Assigned
    <3> HIDE DEF h
    <3> QED BY <1>7, <2>1, <3>2, <3>3
  <2> QED BY <1>7, <2>1, <2>2
<1> QED BY <1>6, <1>8, <1>9, <1>10 DEF Hub

(* A disconnection is found only with a root device: without one the port   *)
(* is suspended.                                                            *)
LEMMA RootOkBus == ASSUME HubTypes, RootOk, RootPort \/ HubReport \/ pio_usb_get_in_data \/ HubPort \/ Cable
                   PROVE  RootOk'
<1>1. UNCHANGED task
  BY RootPortDoes, HubReportDoes, GetInDataDoes, HubPortDoes, PlugRootDoes, PlugPortDoes, UnplugRootDoes,
     UnplugPortDoes DEF Cable
<1>2. \A i \in Idx : Ahead(i)' <=> Ahead(i)
  BY <1>1 DEF Ahead
<1>3. Current' <=> Current
  BY <1>1 DEF Current
<1>4. CASE RootPort
  <2>1. /\ UNCHANGED devs /\ root'.device = root.device /\ root'.suspended
        /\ \/ root'.connected /\ root'.event = "CONNECT"
           \/ /\ root.connected /\ ~root.suspended /\ ~root'.connected /\ root'.event = "DISCONNECT"
    BY <1>4, RootPortDoes
  <2> QED BY <1>1, <1>2, <1>3, <2>1 DEF RootOk
<1>5. CASE HubReport \/ pio_usb_get_in_data
  <2>1. /\ UNCHANGED root
        /\ \A j \in Idx : /\ devs'[j].event \in {devs[j].event, "HUB_PORT_CHANGE"}
                          /\ devs'[j].is_root <=> devs[j].is_root
    <3>1. UNCHANGED root /\ SameTree
      BY <1>5, HubReportDoes, GetInDataDoes
    <3>2. \E i \in Idx : /\ devs'[i].event \in {devs[i].event, "HUB_PORT_CHANGE"}
                         /\ \A j \in Idx \ {i} : devs'[j] = devs[j]
      BY <1>5, HubReportDoes, GetInDataDoes
    <3> QED BY <3>1, <3>2 DEF SameTree
  <2>2. task.idx \in Idx
    BY DEF HubTypes, TaskType
  <2> QED BY <1>1, <1>2, <1>3, <2>1, <2>2 DEF RootOk
<1>6. CASE HubPort \/ Cable
  <2>1. UNCHANGED <<root, devs>>
    BY <1>6, HubPortDoes, PlugRootDoes, PlugPortDoes, UnplugRootDoes, UnplugPortDoes DEF Cable
  <2> QED BY <1>1, <1>2, <1>3, <2>1 DEF RootOk
<1> QED BY <1>4, <1>5, <1>6

(* The pass over the pool and the root device.                              *)
LEMMA RootStep == ASSUME HubTypes, RootInv, Next PROVE RootInv'
<1>1. Pass'
  BY PassStep DEF RootInv
<1>2. ASSUME Spared({"rootless"})' PROVE RootOk'
  <2>1. "rootless" \notin mishaps' /\ RootOk /\ Pass
    BY <1>2, Grows, SparedBefore DEF RootInv, Spared
  <2> QED BY <2>1, RootOkRoot, RootOkDeviceEvent, RootOkEnumeration, RootOkHub, RootOkBus DEF Next, Task
<1> QED BY <1>1, <1>2 DEF RootInv

-----------------------------------------------------------------------------
(* The pool and the hub, step by step.                                      *)

(* What the pool is like while the task serves the hub.                     *)
LEMMA HubPlace == ASSUME HubTypes, PoolOk, task.at \in HubTask
                  PROVE  /\ task.idx = 0 /\ devs[0].connected /\ devs[0].hub /\ devs[0].address # 0
                         /\ devs[0].event = "HUB_PORT_CHANGE" /\ root.device = 0 /\ ~Freeing /\ ~Current
                         /\ task.at \notin {"root", "connected", "fault", "device"}
                         /\ ~Naming
<1>1. task.idx = 0 /\ devs[0].event = "HUB_PORT_CHANGE" /\ devs[0].hub /\ devs[0].address # 0
  BY DEF PoolOk, HubKnown
<1>2. ~Freeing /\ ~Current /\ task.at \notin {"root", "connected", "fault", "device"} /\ ~Naming
  BY DEF Freeing, Current, HubTask, Naming
<1>3. devs[0].connected
  BY <1>1, <1>2, Zero, Numbers DEF PoolOk, Forest
<1> QED BY <1>1, <1>2, <1>3 DEF PoolOk, Forest

(* A request that the hub acts on finds its ports in use.                   *)
LEMMA HubAnswers == ASSUME HubTypes, HubKnown, devs[0].address # 0, Listeners(devs[0].address) # {}
                    PROVE  raddr \notin {0, None}
<1>1. devs[0].address # None
  <2>1. devs[0] \in DeviceType
    BY Numbers DEF HubTypes
  <2> QED BY <2>1, Numbers DEF DeviceType
<1>2. raddr = devs[0].address \/ \E p \in Ports : port[p].address = devs[0].address
  BY DEF Listeners
<1> QED BY <1>1, <1>2 DEF HubKnown, Quiet

(* A device that enumerates has a place with a root device.                 *)
LEMMA CurrentPlace == ASSUME HubTypes, PoolOk, Current
                      PROVE  /\ task.idx \in Idx /\ devs[task.idx].connected /\ root.device = 0 /\ ~Freeing
                             /\ devs[0].connected /\ devs[0].is_root
                             /\ task.at \notin HubTask \cup {"root", "connected", "fault", "device"}
                             /\ root.event # "CONNECT"
                             /\ devs[task.idx].is_root <=> task.idx = 0
<1>1. task.idx \in Idx /\ devs[task.idx].connected
  BY DEF HubTypes, TaskType, PoolOk, Stages
<1>2. ~Freeing /\ task.at \notin HubTask \cup {"root", "connected", "fault", "device"}
  BY DEF Freeing, Current, HubTask
<1>3. root.device = 0
  BY <1>1, <1>2, Numbers DEF PoolOk, Forest, RootKnown
<1>4. devs[0].connected /\ devs[0].is_root /\ root.event # "CONNECT"
  BY <1>2, <1>3, Numbers DEF PoolOk, Forest, RootKnown
<1> QED BY <1>1, <1>2, <1>3, <1>4 DEF PoolOk, Forest

(* What keeps the tree.                                                     *)
LEMMA ForestKept ==
    ASSUME Forest, SameTree, root'.device = root.device, Freeing => Freeing',
           \A j \in Idx \ {0} : \/ devs'[j] = devs[j]
                                \/ /\ devs[j].connected /\ devs'[j].event \in {"NONE", "CONNECT"}
                                   /\ devs'[j].armed <=> devs[j].armed
                                   /\ devs'[j].new_data <=> devs[j].new_data,
           devs'[0] = devs[0] \/ devs[0].connected \/ Freeing,
           devs'[0].event = "DISCONNECT" => devs[0].event = "DISCONNECT"
    PROVE  Forest'
<1>1. 0 \in Idx
  BY Numbers
<1>2. ASSUME NEW i \in Idx, ~devs'[i].connected PROVE devs'[i] = ZeroDevice \/ (i = 0 /\ Freeing')
  <2>1. ~devs[i].connected
    BY <1>2 DEF SameTree
  <2>2. CASE i = 0
    BY <1>1, <2>1, <2>2 DEF Forest
  <2>3. CASE i # 0
    BY <2>1, <2>3 DEF Forest
  <2> QED BY <2>2, <2>3
<1>3. ASSUME NEW i \in Idx \ {0}, devs'[i].connected
      PROVE  /\ devs'[i].parent = 0 /\ ~devs'[i].is_root
             /\ devs'[i].parent_port \in Ports /\ devs'[0].child[devs'[i].parent_port] = i
             /\ devs'[i].child = [p \in Ports |-> 0] /\ devs'[i].event \in {"NONE", "CONNECT"}
             /\ ~devs'[i].hub /\ ~devs'[i].armed /\ ~devs'[i].new_data
             /\ devs'[0].address # 0
  <2>1. devs[i].connected
    BY <1>3 DEF SameTree
  <2> QED BY <1>1, <1>3, <2>1 DEF Forest, SameTree
<1>4. devs'[0].connected => devs'[0].is_root
  BY <1>1 DEF Forest, SameTree
<1>5. /\ root'.device = 0 <=> devs'[0].connected
      /\ root'.device = None => (\A i \in Idx : ~devs'[i].connected) \/ Freeing'
      /\ devs'[0].event = "DISCONNECT" => root'.device = None
  BY <1>1 DEF Forest, SameTree
<1> QED BY <1>2, <1>3, <1>4, <1>5 DEF Forest

(* Nothing but the task and the root port changes, and the task has nothing *)
(* in hand.                                                                 *)
LEMMA PoolMoves ==
    ASSUME HubTypes, PoolOk, UNCHANGED <<devs, port, cable, raddr>>, root'.device = root.device,
           task'.at \in {"root", "device", "fault"}, Freeing => Freeing', RootKnown',
           root'.addr0_exists \/ ((root'.addr0_exists <=> root.addr0_exists) /\ task.at # "connected")
    PROVE  PoolOk'
<1>1. task'.at \notin HubTask /\ ~Naming' /\ ~Current'
  BY DEF HubTask, Naming, Current
<1>2. Resets' = Resets /\ Unnamed' = Unnamed
  BY DEF Resets, Unnamed
<1>3. Forest'
  BY DEF PoolOk, Forest
<1>4. HubKnown'
  BY <1>1, Numbers DEF PoolOk, HubKnown, HubTask, Quiet
<1>5. Stages'
  BY <1>1, <1>2 DEF PoolOk, Stages, Current
<1>6. Alone'
  BY <1>1, <1>2 DEF PoolOk, Alone
<1>7. Lock'
  BY <1>1, <1>2 DEF PoolOk, Lock
<1>8. Waiting'
  BY <1>1, <1>2 DEF PoolOk, Waiting
<1> QED BY <1>3, <1>4, <1>5, <1>6, <1>7, <1>8 DEF PoolOk

(* A change of the root port that the task gets to see.                     *)
LEMMA RootPortPool == ASSUME HubTypes, PoolOk, RootPort, "missed" \notin mishaps' PROVE PoolOk'
<1>1. /\ UNCHANGED <<devs, task, cable, raddr, port>> /\ root'.device = root.device
      /\ root'.addr0_exists <=> root.addr0_exists
      /\ root.event \in {"NONE", root'.event}
      /\ \/ /\ ~root.connected /\ cable # "none" /\ root'.connected /\ root'.event = "CONNECT"
         \/ /\ root.connected /\ ~root.suspended /\ cable = "none"
            /\ ~root'.connected /\ root'.event = "DISCONNECT"
  BY RootPortDoes
<1>2. RootKnown'
  <2>1. CASE root'.event = "CONNECT"
    <3>1. ~root.connected /\ root'.connected /\ root.event = "NONE"
      BY <1>1, <2>1 DEF PoolOk, RootKnown
    <3> QED BY <1>1, <2>1, <3>1 DEF PoolOk, RootKnown
  <2>2. CASE root'.event = "DISCONNECT"
    <3>1. root.event # "CONNECT" /\ task.at # "connected"
      BY <1>1, <2>2 DEF PoolOk, RootKnown
    <3> QED BY <1>1, <2>2, <3>1 DEF PoolOk, RootKnown
  <2> QED BY <1>1, <2>1, <2>2
<1>3. Resets' = Resets /\ Unnamed' = Unnamed /\ (Naming' <=> Naming) /\ (Current' <=> Current)
      /\ (Freeing' <=> Freeing)
  BY <1>1 DEF Resets, Unnamed, Naming, Current, Freeing
<1>4. Forest'
  BY <1>1, <1>3 DEF PoolOk, Forest
<1>5. HubKnown'
  BY <1>1 DEF PoolOk, HubKnown, HubTask, Quiet
<1>6. Stages' /\ Alone' /\ Waiting'
  BY <1>1, <1>3 DEF PoolOk, Stages, Alone, Waiting
<1>7. Lock'
  BY <1>1, <1>3 DEF PoolOk, Lock
<1> QED BY <1>2, <1>4, <1>5, <1>6, <1>7 DEF PoolOk

(* The reports of the hub: only the first place has any.                    *)
LEMMA ReportPool == ASSUME HubTypes, PoolOk, HubReport \/ pio_usb_get_in_data PROVE PoolOk'
<1>0. 0 \in Idx /\ \A p \in Ports : Quiet(p)' <=> Quiet(p)
  <2>1. UNCHANGED port
    BY HubReportDoes, GetInDataDoes
  <2> QED BY <2>1, Numbers DEF Quiet
<1>1. /\ UNCHANGED <<root, task, cable, raddr, port>> /\ SameTree
      /\ devs' \in [Idx -> DeviceType]
  BY HubReportDoes, GetInDataDoes
<1>2. PICK i \in Idx : /\ devs[i].armed \/ devs[i].new_data
                       /\ \/ devs'[i].event = devs[i].event
                          \/ devs'[i].event = "HUB_PORT_CHANGE" /\ devs[i].connected
                       /\ \A j \in Idx \ {i} : devs'[j] = devs[j]
  BY HubReportDoes, GetInDataDoes
<1>3. i = 0 /\ (devs[0].connected \/ Freeing)
  BY <1>2, Zero DEF PoolOk, Forest
<1>4. devs[0].hub /\ devs[0].address # 0
  BY <1>2, <1>3 DEF PoolOk, HubKnown
<1>5. devs[0].event # "CONNECT"
  BY <1>0, <1>4 DEF PoolOk, Stages, Unnamed
<1>6. Resets' = Resets /\ Unnamed' = Unnamed /\ (Current' <=> Current)
      /\ (Naming' <=> Naming)
  <2>1. task.idx \in Idx
    BY DEF HubTypes, TaskType
  <2> QED BY <1>1, <2>1 DEF Resets, Unnamed, Current, Naming, SameTree
<1>7. Freeing => devs'[0].event = "DISCONNECT"
  BY <1>2, <1>3, Numbers DEF Freeing, PoolOk, Forest
<1>8. Freeing => Freeing'
  BY <1>1, <1>7 DEF Freeing
<1>9. Forest'
  BY <1>1, <1>2, <1>3, <1>8, ForestKept DEF PoolOk
<1>10. RootKnown'
  <2>1. task.at = "connected" => root.device = None \/ devs'[0].event = "CONNECT"
    BY <1>5 DEF PoolOk, RootKnown
  <2> QED BY <1>1, <2>1 DEF PoolOk, RootKnown
<1>11. HubKnown'
  <2>1. devs'[0].hub /\ devs'[0].address # 0 /\ devs'[0].address = devs[0].address
    BY <1>0, <1>1, <1>4 DEF SameTree
  <2>2. task.at \in HubTask => devs'[0].event = "HUB_PORT_CHANGE"
    BY <1>2, <1>3 DEF PoolOk, HubKnown
  <2> QED BY <1>0, <1>1, <2>1, <2>2 DEF PoolOk, HubKnown, HubTask
<1>12. Stages'
  <2>1. task.idx \in Idx
    BY DEF HubTypes, TaskType
  <2>2. Current' => devs'[task.idx].connected /\ devs'[task.idx].event \in {"NONE", "HUB_PORT_CHANGE"}
    BY <1>1, <1>2, <1>6, <2>1 DEF PoolOk, Stages, SameTree
  <2>3. \A j \in Idx : devs'[j].event = "CONNECT" => j \in Unnamed'
    BY <1>2, <1>3, <1>5, <1>6 DEF PoolOk, Stages
  <2> QED BY <1>1, <2>1, <2>2, <2>3 DEF PoolOk, Stages, SameTree
<1>13. Alone'
  <2>1. task.idx \in Idx
    BY DEF HubTypes, TaskType
  <2> QED BY <1>1, <1>6, <2>1 DEF PoolOk, Alone, SameTree
<1>14. Lock'
  BY <1>1, <1>6 DEF PoolOk, Lock
<1>15. Waiting'
  BY <1>1, <1>6 DEF PoolOk, Waiting, SameTree
<1> QED BY <1>9, <1>10, <1>11, <1>12, <1>13, <1>14, <1>15 DEF PoolOk

(* A connection: the pool is empty, and the device gets the first place.    *)
LEMMA RootConnectPool == ASSUME HubTypes, PoolOk, RootConnect PROVE PoolOk'
<1>1. /\ task.at = "root" /\ root.event = "CONNECT" /\ device_pool_vacant \in Vacant
      /\ UNCHANGED cable
      /\ root'.event = root.event /\ (root'.connected <=> root.connected)
      /\ \A j \in Idx : devs'[j] = devs[j] \/ (j = device_pool_vacant /\ cable # "none")
      /\ cable = "none" => root'.device = root.device
      /\ task'.at = "connected" /\ task'.idx = 0
  BY RootConnectDoes
<1>2. root.device = None /\ root.connected
  BY <1>1 DEF PoolOk, RootKnown
<1>3. \A i \in Idx : ~devs[i].connected /\ devs[i] = ZeroDevice
  BY <1>1, <1>2 DEF PoolOk, Forest, Freeing
<1>4. device_pool_vacant = 0 /\ 0 \in Idx
  BY <1>3, FirstVacant, Numbers DEF Vacant
<1>5. cable # "none" =>
         /\ root'.device = 0
         /\ devs'[0].connected /\ devs'[0].is_root /\ devs'[0].address = 0 /\ devs'[0].event = "CONNECT"
         /\ ~devs'[0].hub /\ ~devs'[0].armed /\ ~devs'[0].new_data /\ devs'[0].child = [p \in Ports |-> 0]
  BY <1>4, RootConnectDoes
<1>6. \A j \in Idx \ {0} : devs'[j] = ZeroDevice
  BY <1>1, <1>3, <1>4
<1>7. cable = "none" => devs'[0] = ZeroDevice /\ root'.device = None
  BY <1>1, <1>2, <1>3, <1>4
<1>8. /\ raddr' \in {0, None} /\ (cable = "none" => raddr' = None)
      /\ \A p \in Ports : Quiet(p)' /\ (port'[p].present <=> port[p].present)
  BY RootConnectDoes, BusRests DEF HubTypes
<1>9. Resets' = {} /\ Unnamed' \subseteq {0} /\ ~Naming' /\ ~Current' /\ ~Freeing'
  <2>1. Resets' = {}
    BY <1>8 DEF Resets, Quiet
  <2>2. Unnamed' \subseteq {0}
    BY <1>6, Zero DEF Unnamed
  <2> QED BY <1>1, <2>1, <2>2 DEF Naming, Current, Freeing
<1>10. RootKnown'
  BY <1>1, <1>2, <1>5, <1>7, Numbers DEF RootKnown
<1>11. Forest'
  <2>1. \A i \in Idx \ {0} : ~devs'[i].connected
    BY <1>6, Zero
  <2>2. cable = "none" => ~devs'[0].connected /\ devs'[0].event = "NONE"
    BY <1>7, Zero
  <2> QED BY <1>4, <1>5, <1>6, <1>7, <2>1, <2>2, Numbers DEF Forest
<1>12. HubKnown'
  <2>1. ~devs'[0].armed /\ ~devs'[0].new_data /\ devs'[0].event # "HUB_PORT_CHANGE" /\ devs'[0].address = 0
    BY <1>5, <1>7, Zero
  <2>2. \A p \in Ports : port'[p].present => cable' = "hub"
    BY <1>1, <1>8 DEF PoolOk, HubKnown
  <2>3. task'.at \notin HubTask
    BY <1>1 DEF HubTask
  <2> QED BY <1>1, <1>8, <2>1, <2>2, <2>3 DEF HubKnown, HubTask
<1>13. Stages'
  <2>1. \A i \in Idx : devs'[i].event = "CONNECT" => i \in Unnamed'
    BY <1>4, <1>5, <1>6, <1>7, Zero DEF Unnamed
  <2> QED BY <1>1, <1>9, <2>1 DEF Stages
<1>14. Alone'
  BY <1>8, <1>9 DEF Alone, Quiet
<1>15. Lock' /\ Waiting'
  BY <1>1, <1>9 DEF Lock, Waiting
<1> QED BY <1>10, <1>11, <1>12, <1>13, <1>14, <1>15 DEF PoolOk

(* The connection has been dealt with: there is always a place.             *)
LEMMA RootConnectedPool == ASSUME HubTypes, PoolOk, RootConnected PROVE PoolOk'
<1>1. /\ UNCHANGED <<devs, cable, raddr, port>> /\ root'.event = "NONE" /\ root'.device = root.device
      /\ root'.connected <=> root.connected
      /\ \/ task.at = "connected" /\ root'.addr0_exists
         \/ task.at = "root" /\ root.event = "CONNECT" /\ Vacant = {}
      /\ task'.at = "device" /\ task'.idx = 0
  BY RootConnectedDoes
<1>2. ~Freeing
  BY <1>1 DEF Freeing
<1>3. task.at = "connected"
  <2>1. SUFFICES ASSUME task.at = "root", root.event = "CONNECT", Vacant = {} PROVE FALSE
    BY <1>1
  <2>2. root.device = None
    BY <2>1 DEF PoolOk, RootKnown
  <2>3. \A i \in Idx : ~devs[i].connected
    BY <1>2, <2>2 DEF PoolOk, Forest
  <2> QED BY <2>1, <2>3, Numbers DEF Vacant
<1>4. RootKnown'
  BY <1>1, <1>3 DEF PoolOk, RootKnown
<1> QED BY <1>1, <1>2, <1>3, <1>4, PoolMoves

(* A disconnection: the first place is to be freed in this pass.            *)
LEMMA RootDisconnectPool == ASSUME HubTypes, PoolOk, RootDisconnect PROVE PoolOk'
<1>1. /\ task.at = "root" /\ root.event = "DISCONNECT" /\ root.device \in Idx
      /\ UNCHANGED cable /\ root'.event = "NONE" /\ root'.device = None
      /\ root'.addr0_exists <=> root.addr0_exists
      /\ \A j \in Idx \ {root.device} : devs'[j] = devs[j]
      /\ task'.at = "device" /\ task'.idx = 0
  BY RootDisconnectDoes
<1>2. root.device = 0 /\ 0 \in Idx /\ None # 0
  BY <1>1, Numbers DEF PoolOk, RootKnown
<1>3. /\ ~devs'[0].connected /\ devs'[0].event = "DISCONNECT"
      /\ devs'[0].child = devs[0].child /\ devs'[0].address = devs[0].address
      /\ devs'[0].hub <=> devs[0].hub
      /\ devs'[0].armed <=> devs[0].armed
      /\ devs'[0].new_data <=> devs[0].new_data
  BY <1>2, RootDisconnectDoes
<1>4. /\ raddr' \in {0, None} /\ (cable = "none" => raddr' = None)
      /\ \A p \in Ports : Quiet(p)' /\ (port'[p].present <=> port[p].present)
  BY RootDisconnectDoes, BusRests DEF HubTypes
<1>5. Freeing' /\ ~Current' /\ ~Naming' /\ task'.at \notin HubTask /\ Resets' = {}
  <2>1. Resets' = {}
    BY <1>4 DEF Resets, Quiet
  <2> QED BY <1>1, <1>3, <2>1 DEF Freeing, Current, Naming, HubTask
<1>6. Unnamed' \subseteq Unnamed
  <2>1. ASSUME NEW j \in Unnamed' PROVE j \in Unnamed
    <3>1. j \in Idx /\ j # 0 /\ devs'[j].connected /\ devs'[j].address = 0
      BY <1>3, <2>1 DEF Unnamed
    <3> QED BY <1>1, <1>2, <3>1 DEF Unnamed
  <2> QED BY <2>1
<1>7. RootKnown'
  BY <1>1 DEF RootKnown
<1>8. Forest'
  <2>1. ASSUME NEW i \in Idx \ {0} PROVE devs'[i] = devs[i]
    BY <1>1, <1>2
  <2> QED BY <1>1, <1>2, <1>3, <1>5, <2>1 DEF PoolOk, Forest
<1>9. HubKnown'
  <2>1. \A p \in Ports : port'[p].present => cable' = "hub"
    BY <1>1, <1>4 DEF PoolOk, HubKnown
  <2> QED BY <1>1, <1>3, <1>4, <1>5, <2>1 DEF PoolOk, HubKnown, HubTask
<1>10. Stages'
  <2>1. ASSUME NEW i \in Idx, devs'[i].event = "CONNECT" PROVE i \in Unnamed'
    <3>1. i # 0 /\ devs'[i] = devs[i]
      BY <1>1, <1>2, <1>3, <2>1
    <3>2. i \in Unnamed
      BY <2>1, <3>1 DEF PoolOk, Stages
    <3> QED BY <3>1, <3>2 DEF Unnamed
  <2> QED BY <1>1, <1>5, <2>1 DEF Stages
<1>11. Alone'
  BY <1>4, <1>5, <1>6 DEF PoolOk, Alone, Quiet
<1>12. Lock' /\ Waiting'
  BY <1>1, <1>5, <1>6 DEF PoolOk, Lock, Waiting
<1> QED BY <1>7, <1>8, <1>9, <1>10, <1>11, <1>12 DEF PoolOk

(* Nothing for the root port.                                               *)
LEMMA RootQuietPool == ASSUME HubTypes, PoolOk, RootFault \/ RootQuiet PROVE PoolOk'
<1>1. /\ UNCHANGED <<root, devs, cable, raddr, port>> /\ task.at \in {"root", "fault"}
      /\ task'.at \in {"device", "fault"}
  BY RootFaultDoes, RootQuietDoes
<1>2. ~Freeing
  BY <1>1 DEF Freeing
<1>3. RootKnown'
  BY <1>1 DEF PoolOk, RootKnown
<1> QED BY <1>1, <1>2, <1>3, PoolMoves

(* The bus has been reset when the first place is to be freed.              *)
LEMMA FreeingRests == ASSUME HubTypes, Pass, PoolOk, task.at = "device", task.idx = 0,
                             devs[0].event = "DISCONNECT"
                      PROVE  raddr \in {0, None}
<1>1. Given = 0 /\ 0 \in Idx
  BY Numbers DEF Given
<1>2. \A a \in Addresses : a > 0 => Listeners(a) = {}
  BY <1>1 DEF Pass
<1>3. ASSUME raddr \in Addresses, raddr # 0 PROVE FALSE
  <2>1. raddr > 0
    BY <1>3, HubAssumption DEF Addresses
  <2>2. Listeners(raddr) = {}
    BY <1>2, <1>3, <2>1
  <2>3. cable = "none"
    BY <2>2 DEF Listeners
  <2> QED BY <1>3, <2>3, Numbers DEF PoolOk, HubKnown
<1> QED BY <1>3 DEF HubTypes

(* Only the first place can be freed here, and then nobody is left: the bus *)
(* has been reset since.                                                    *)
LEMMA FreeingPool == ASSUME HubTypes, Pass, PoolOk, DeviceEvent, devs[task.idx].event = "DISCONNECT"
                     PROVE  PoolOk'
<1>1. /\ task.idx \in Idx /\ devs \in [Idx -> DeviceType] /\ root \in RootType /\ task \in TaskType
      /\ task.at = "device" /\ 0 \in Idx
      /\ UNCHANGED <<cable, raddr, port>>
      /\ devs' = Disconnected(devs, task.idx) /\ root' = Unlock(root, task.idx) /\ NextDevice
  BY DeviceEventDoes, Numbers DEF HubTypes, TaskType
<1>2. task.idx = 0
  <2>1. CASE devs[task.idx].connected
    BY <1>1, <2>1 DEF PoolOk, Forest
  <2>2. CASE ~devs[task.idx].connected
    BY <1>1, <2>2, Zero DEF PoolOk, Forest
  <2> QED BY <2>1, <2>2
<1>3. root.device = None
  BY <1>2 DEF PoolOk, Forest
<1>4. \A j \in Idx : devs'[j] = ZeroDevice
  <2> SUFFICES ASSUME NEW j \in Idx PROVE devs'[j] = ZeroDevice
    OBVIOUS
  <2>1. \/ j \in Below(0) /\ devs'[j] = ZeroDevice
        \/ j \notin Below(0) /\ devs'[j] = devs[j]
    BY <1>1, <1>2, Frees
  <2>2. CASE j = 0 \/ ~devs[j].connected
    <3>1. 0 \in Below(0)
      BY <1>1, BelowChildren
    <3> QED BY <2>1, <2>2, <3>1 DEF PoolOk, Forest
  <2>3. CASE j # 0 /\ devs[j].connected
    <3>1. devs[j].parent_port \in Ports /\ devs[0].child[devs[j].parent_port] = j
      BY <2>3 DEF PoolOk, Forest
    <3>2. j \in Below(0)
      BY <1>1, <2>3, <3>1, BelowChildren
    <3> QED BY <2>1, <3>2
  <2> QED BY <2>2, <2>3
<1>5. raddr \in {0, None}
  BY <1>1, <1>2, FreeingRests
<1>6. /\ Resets' = {} /\ Unnamed' = {} /\ ~Naming' /\ ~Current' /\ task'.at \notin HubTask
      /\ task'.at \in {"root", "device"}
  <2>1. Resets' = {}
    BY <1>1, <1>5 DEF Resets, PoolOk, HubKnown, Quiet
  <2>2. Unnamed' = {}
    BY <1>4, Zero DEF Unnamed
  <2>3. task'.at \in {"root", "device"}
    BY <1>1, NextPlace
  <2> QED BY <2>1, <2>2, <2>3 DEF Naming, Current, HubTask
<1>7. /\ root'.event = root.event /\ root'.device = None
      /\ root'.connected <=> root.connected
  BY <1>1, <1>3, Releases
<1>8. RootKnown'
  BY <1>1, <1>6, <1>7 DEF PoolOk, RootKnown
<1>9. Forest'
  BY <1>1, <1>4, <1>7, Zero, Numbers DEF Forest
<1>10. HubKnown'
  <2>1. \A p \in Ports : Quiet(p)'
    BY <1>1, <1>5 DEF PoolOk, HubKnown, Quiet
  <2> QED BY <1>1, <1>4, <1>6, <1>7, <2>1, Zero DEF PoolOk, HubKnown, HubTask
<1>11. Stages'
  BY <1>4, <1>6, Zero DEF Stages
<1>12. Alone'
  BY <1>1, <1>6 DEF PoolOk, Alone
<1>13. Lock' /\ Waiting'
  BY <1>4, <1>6, Zero DEF Lock, Waiting
<1> QED BY <1>8, <1>9, <1>10, <1>11, <1>12, <1>13 DEF PoolOk

(* The other events of a device.                                            *)
LEMMA DeviceEventPool == ASSUME HubTypes, Pass, PoolOk, DeviceEvent PROVE PoolOk'
<1> DEFINE i == task.idx
<1>1. /\ i \in Idx /\ devs \in [Idx -> DeviceType] /\ root \in RootType /\ task \in TaskType
      /\ task.at = "device" /\ 0 \in Idx
      /\ UNCHANGED <<cable, raddr, port>>
  BY DeviceEventDoes, Numbers DEF HubTypes, TaskType
<1>2. CASE devs[i].event = "NONE" /\ NextDevice /\ UNCHANGED <<root, devs>>
  <2>1. task'.at \in {"root", "device"}
    BY <1>1, <1>2, NextPlace
  <2>2. RootKnown'
    BY <1>1, <1>2, <2>1 DEF PoolOk, RootKnown
  <2>3. ~Freeing
    BY <1>2 DEF Freeing
  <2> QED BY <1>1, <1>2, <2>1, <2>2, <2>3, PoolMoves
<1>3. CASE /\ devs[i].event = "CONNECT" /\ devs' = [devs EXCEPT ![i].event = "NONE"]
           /\ task'.at = "descriptor" /\ task'.idx = i /\ UNCHANGED root
  <2>1. /\ SameTree /\ devs'[i].event = "NONE"
        /\ \A j \in Idx : /\ devs'[j].armed <=> devs[j].armed
                          /\ devs'[j].new_data <=> devs[j].new_data
                          /\ j # i => devs'[j] = devs[j]
    BY <1>1, <1>3, EventSet
  <2>2. i \in Unnamed /\ devs[i].connected /\ devs[i].address = 0
    BY <1>1, <1>3 DEF PoolOk, Stages, Unnamed
  <2>3. /\ Resets' = Resets /\ Unnamed' = Unnamed /\ ~Naming' /\ Current' /\ task'.at \notin HubTask /\ ~Freeing
    BY <1>1, <1>3, <2>1 DEF Resets, Unnamed, Naming, Current, Freeing, HubTask, SameTree
  <2> HIDE DEF i
  <2>4. RootKnown'
    BY <1>1, <1>3 DEF PoolOk, RootKnown
  <2>5. Forest'
    BY <1>1, <1>3, <2>1, <2>2, <2>3, ForestKept DEF PoolOk
  <2>6. HubKnown'
    <3>1. /\ devs'[0].armed \/ devs'[0].new_data \/ devs'[0].event = "HUB_PORT_CHANGE"
                => devs[0].armed \/ devs[0].new_data \/ devs[0].event = "HUB_PORT_CHANGE"
          /\ devs'[0].hub <=> devs[0].hub
          /\ devs'[0].address = devs[0].address
      BY <1>1, <2>1 DEF SameTree
    <3> QED BY <1>1, <1>3, <2>3, <3>1 DEF PoolOk, HubKnown, HubTask, Quiet
  <2>7. Stages'
    <3>1. \A j \in Idx : devs'[j].event = "CONNECT" => j \in Unnamed'
      BY <2>1, <2>3 DEF PoolOk, Stages
    <3>2. devs'[i].connected /\ devs'[i].address = 0
      BY <1>1, <2>1, <2>2 DEF SameTree
    <3> QED BY <1>3, <2>1, <3>1, <3>2 DEF Stages
  <2>8. Alone' /\ Lock'
    BY <1>1, <1>3, <2>3 DEF PoolOk, Alone, Lock
  <2>9. Waiting'
    BY <1>3, <2>1, <2>3 DEF PoolOk, Waiting, SameTree
  <2> QED BY <2>4, <2>5, <2>6, <2>7, <2>8, <2>9 DEF PoolOk
<1>4. CASE devs[i].event = "DISCONNECT"
  BY <1>4, FreeingPool
<1>5. CASE devs[i].event = "HUB_PORT_CHANGE" /\ UNCHANGED <<root, devs>> /\ task'.at = "hub" /\ task'.idx = i
  <2>1. i = 0
    <3>1. CASE devs[i].connected
      BY <1>1, <1>5, <3>1 DEF PoolOk, Forest
    <3>2. CASE ~devs[i].connected
      BY <1>1, <1>5, <3>2, Zero DEF PoolOk, Forest
    <3> QED BY <3>1, <3>2
  <2>2. /\ Resets' = Resets /\ Unnamed' = Unnamed /\ ~Naming' /\ ~Current' /\ ~Freeing
    BY <1>1, <1>5, <2>1 DEF Resets, Unnamed, Naming, Current, Freeing
  <2> HIDE DEF i
  <2>4. RootKnown' /\ Forest'
    BY <1>1, <1>5, <2>2 DEF PoolOk, RootKnown, Forest
  <2>6. HubKnown'
    BY <1>1, <1>5, <2>1 DEF PoolOk, HubKnown, HubTask, Quiet
  <2>7. Stages' /\ Alone' /\ Lock' /\ Waiting'
    BY <1>1, <1>5, <2>2 DEF PoolOk, Stages, Alone, Lock, Waiting, Current
  <2> QED BY <2>4, <2>6, <2>7 DEF PoolOk
<1> QED BY <1>2, <1>3, <1>4, <1>5, DeviceEventDoes

(* The descriptor: no device on the hub is taken for a hub.                 *)
LEMMA DescriptorPool == ASSUME HubTypes, PoolOk, Descriptor PROVE PoolOk'
<1>0. PICK i \in Idx : i = task.idx
  BY DEF HubTypes, TaskType
<1>1. /\ UNCHANGED <<root, cable, raddr, port>> /\ task.at = "descriptor"
      /\ task'.at \in {"address", "failed"} /\ task'.idx = i
      /\ \A j \in Idx : /\ devs'[j].connected <=> devs[j].connected
                        /\ devs'[j].address = devs[j].address
                        /\ devs'[j].is_root <=> devs[j].is_root
                        /\ devs'[j].child = devs[j].child
                        /\ devs'[j].parent = devs[j].parent
                        /\ devs'[j].parent_port = devs[j].parent_port
                        /\ devs'[j].event = devs[j].event
                        /\ devs'[j].armed <=> devs[j].armed
                        /\ devs'[j].new_data <=> devs[j].new_data
                        /\ j # i => devs'[j] = devs[j]
      /\ devs'[i].hub => devs[i].hub \/ None \in Listeners(devs[i].address)
  BY <1>0, DescriptorDoes
<1>2. Current /\ 0 \in Idx
  BY <1>1, Numbers DEF Current
<1>3. /\ devs[i].connected /\ devs[i].address = 0 /\ root.device = 0 /\ devs[0].connected
      /\ ~Freeing /\ (devs[i].is_root <=> i = 0) /\ root.event # "CONNECT"
  BY <1>0, <1>1, <1>2, CurrentPlace DEF PoolOk, Stages
<1>4. i # 0 => ~devs'[i].hub
  <2>1. SUFFICES ASSUME i # 0, None \in Listeners(0) PROVE FALSE
    BY <1>1, <1>3 DEF PoolOk, Forest
  <2>2. raddr = 0 /\ devs[0].address # 0
    <3>1. None \notin Ports
      BY HubAssumption DEF None
    <3>2. raddr = 0
      BY <2>1, <3>1 DEF Listeners
    <3> QED BY <1>3, <2>1, <3>2 DEF PoolOk, Forest
  <2> QED BY <1>3, <2>2, Numbers DEF PoolOk, HubKnown
<1>5. /\ Resets' = Resets /\ Unnamed' = Unnamed /\ i \in Unnamed /\ Resets = {}
      /\ ~Freeing' /\ task'.at \notin HubTask \cup {"connected"}
  BY <1>1, <1>3 DEF Resets, Unnamed, Freeing, HubTask, PoolOk, Alone
<1>6. RootKnown'
  BY <1>1, <1>3 DEF PoolOk, RootKnown
<1>7. Forest'
  <2>1. ASSUME NEW j \in Idx \ {0}, devs'[j].connected
        PROVE  /\ devs'[j].parent = 0 /\ ~devs'[j].is_root
               /\ devs'[j].parent_port \in Ports /\ devs'[0].child[devs'[j].parent_port] = j
               /\ devs'[j].child = [p \in Ports |-> 0] /\ devs'[j].event \in {"NONE", "CONNECT"}
               /\ ~devs'[j].hub /\ ~devs'[j].armed /\ ~devs'[j].new_data
               /\ devs'[0].address # 0
    <3>1. devs[j].connected /\ (~devs[j].hub => ~devs'[j].hub)
      BY <1>1, <1>4, <2>1
    <3> QED BY <1>1, <1>2, <2>1, <3>1 DEF PoolOk, Forest
  <2>2. ASSUME NEW j \in Idx, ~devs'[j].connected PROVE devs'[j] = ZeroDevice
    <3>1. j # i /\ ~devs[j].connected /\ devs'[j] = devs[j]
      BY <1>1, <1>3, <2>2
    <3> QED BY <1>3, <3>1 DEF PoolOk, Forest
  <2>3. devs'[0].connected /\ devs'[0].is_root /\ devs'[0].event = devs[0].event
    BY <1>1, <1>2, <1>3 DEF PoolOk, Forest
  <2> QED BY <1>1, <1>3, <2>1, <2>2, <2>3, Numbers DEF PoolOk, Forest
<1>8. HubKnown'
  <2>1. devs'[0].armed \/ devs'[0].new_data \/ devs'[0].event = "HUB_PORT_CHANGE"
          => devs'[0].hub /\ devs'[0].address # 0
    <3>1. CASE i = 0
      BY <1>1, <1>2, <1>3, <3>1 DEF PoolOk, HubKnown
    <3>2. CASE i # 0
      BY <1>1, <1>2, <3>2 DEF PoolOk, HubKnown
    <3> QED BY <3>1, <3>2
  <2>2. task'.at \notin HubTask /\ task'.at # "clear-reset" /\ devs'[0].address = devs[0].address
    BY <1>1, <1>2, <1>5
  <2> QED BY <1>1, <2>1, <2>2 DEF PoolOk, HubKnown, HubTask, Quiet
<1>9. Stages'
  BY <1>0, <1>1, <1>2, <1>3, <1>5 DEF PoolOk, Stages
<1>10. Alone'
  BY <1>1, <1>3, <1>5 DEF PoolOk, Alone
<1>11. Lock'
  BY <1>1, <1>5 DEF PoolOk, Lock
<1>12. Waiting'
  BY <1>1, <1>5 DEF PoolOk, Waiting
<1> QED BY <1>6, <1>7, <1>8, <1>9, <1>10, <1>11, <1>12 DEF PoolOk

(* The address: everything that listens on address 0 has it then.           *)
LEMMA SetAddressPool == ASSUME HubTypes, PoolOk, SetAddress PROVE PoolOk'
<1>0. PICK i \in Idx : i = task.idx
  BY DEF HubTypes, TaskType
<1>1. PICK acted \in BOOLEAN :
      /\ UNCHANGED <<root, cable>> /\ task.at = "address"
      /\ task'.at \in {"configure", "failed"} /\ task'.idx = i
      /\ raddr' = IF acted /\ cable # "none" /\ raddr = 0 THEN i + 1 ELSE raddr
      /\ \A p \in Ports : /\ port'[p].present <=> port[p].present
                          /\ port'[p].c_reset <=> port[p].c_reset
                          /\ port'[p].resetting <=> port[p].resetting
                          /\ port'[p].address = IF acted /\ port[p].address = 0 THEN i + 1
                                                ELSE port[p].address
      /\ \A j \in Idx : /\ devs'[j].connected <=> devs[j].connected
                        /\ devs'[j].is_root <=> devs[j].is_root
                        /\ devs'[j].hub <=> devs[j].hub
                        /\ devs'[j].child = devs[j].child
                        /\ devs'[j].parent = devs[j].parent
                        /\ devs'[j].parent_port = devs[j].parent_port
                        /\ devs'[j].event = devs[j].event
                        /\ devs'[j].armed <=> devs[j].armed
                        /\ devs'[j].new_data <=> devs[j].new_data
                        /\ j # i => devs'[j] = devs[j]
      /\ task'.at = "configure" => acted /\ devs'[i].address = i + 1
      /\ task'.at = "failed" => UNCHANGED devs
  BY <1>0, SetAddressDoes
<1>2. Current /\ 0 \in Idx /\ i + 1 # 0 /\ i + 1 # None
  <2>1. i + 1 # 0 /\ i + 1 # None
    BY Numbers
  <2> QED BY <1>1, <2>1, Numbers DEF Current
<1>3. /\ devs[i].connected /\ devs[i].address = 0 /\ root.device = 0 /\ devs[0].connected
      /\ ~Freeing /\ (devs[i].is_root <=> i = 0) /\ root.event # "CONNECT"
  BY <1>0, <1>1, <1>2, CurrentPlace DEF PoolOk, Stages
<1>4. /\ Resets' = Resets /\ i \in Unnamed /\ Resets = {} /\ Unnamed = {i}
      /\ ~Freeing' /\ task'.at \notin HubTask \cup {"connected"}
  BY <1>1, <1>3 DEF Resets, Unnamed, Freeing, HubTask, PoolOk, Alone
<1>5. CASE task'.at = "configure"
  <2>1. /\ acted /\ devs'[i].address = i + 1 /\ devs'[i].address # 0
        /\ \A j \in Idx : devs[j].address # 0 => devs'[j].address # 0
    BY <1>1, <1>2, <1>5
  <2>2. Unnamed' = {}
    <3>1. \A j \in Unnamed' : j \in Unnamed /\ j # i
      BY <1>1, <2>1 DEF Unnamed
    <3> QED BY <1>4, <3>1
  <2>3. RootKnown'
    BY <1>1, <1>3 DEF PoolOk, RootKnown
  <2>4. Forest'
    <3>1. ASSUME NEW j \in Idx \ {0}, devs'[j].connected
          PROVE  /\ devs'[j].parent = 0 /\ ~devs'[j].is_root
                 /\ devs'[j].parent_port \in Ports /\ devs'[0].child[devs'[j].parent_port] = j
                 /\ devs'[j].child = [p \in Ports |-> 0] /\ devs'[j].event \in {"NONE", "CONNECT"}
                 /\ ~devs'[j].hub /\ ~devs'[j].armed /\ ~devs'[j].new_data
                 /\ devs'[0].address # 0
      BY <1>1, <1>2, <2>1, <3>1 DEF PoolOk, Forest
    <3>2. ASSUME NEW j \in Idx, ~devs'[j].connected PROVE devs'[j] = ZeroDevice
      <4>1. j # i /\ ~devs[j].connected /\ devs'[j] = devs[j]
        BY <1>1, <1>3, <3>2
      <4> QED BY <1>3, <4>1 DEF PoolOk, Forest
    <3>3. devs'[0].connected /\ devs'[0].is_root /\ devs'[0].event = devs[0].event
      BY <1>1, <1>2, <1>3 DEF PoolOk, Forest
    <3> QED BY <1>1, <1>3, <3>1, <3>2, <3>3, Numbers DEF PoolOk, Forest
  <2>5. HubKnown'
    <3>1. devs'[0].armed \/ devs'[0].new_data \/ devs'[0].event = "HUB_PORT_CHANGE"
            => devs'[0].hub /\ devs'[0].address # 0
      BY <1>1, <1>2, <2>1 DEF PoolOk, HubKnown
    <3>2. raddr' \in {0, None} => raddr \in {0, None} /\ raddr' = raddr
      BY <1>1, <1>2
    <3>3. raddr' \in {0, None} => \A p \in Ports : Quiet(p)'
      BY <1>1, <3>2, Numbers DEF PoolOk, HubKnown, Quiet
    <3>4. raddr' # 0
      <4>1. SUFFICES ASSUME raddr' = 0, raddr = 0 PROVE FALSE
        BY <3>2
      <4>2. cable # "none"
        BY <4>1, Numbers DEF PoolOk, HubKnown
      <4> QED BY <1>1, <1>2, <2>1, <4>1, <4>2
    <3>5. cable' = "none" => raddr' = None
      BY <1>1 DEF PoolOk, HubKnown
    <3>6. \A p \in Ports : port'[p].present => cable' = "hub"
      BY <1>1 DEF PoolOk, HubKnown
    <3> QED BY <1>4, <1>5, <3>1, <3>3, <3>4, <3>5, <3>6 DEF HubKnown, HubTask
  <2>6. Stages'
    <3>1. \A j \in Idx : devs'[j].event = "CONNECT" => j \in Unnamed'
      BY <1>0, <1>1, <1>2, <1>4 DEF PoolOk, Stages
    <3> QED BY <1>0, <1>1, <1>2, <1>3, <1>5, <2>1, <3>1 DEF PoolOk, Stages
  <2>7. Alone'
    BY <1>1, <1>4, <2>2 DEF PoolOk, Alone
  <2>8. Lock'
    BY <1>1, <1>4, <1>5, <2>2 DEF PoolOk, Lock
  <2>9. Waiting'
    BY <1>1, <1>4, <1>5 DEF PoolOk, Waiting
  <2> QED BY <2>3, <2>4, <2>5, <2>6, <2>7, <2>8, <2>9 DEF PoolOk
<1>6. CASE task'.at = "failed"
  <2>1. UNCHANGED devs /\ Unnamed' = Unnamed
    BY <1>1, <1>6 DEF Unnamed
  <2>2. RootKnown'
    BY <1>1, <1>3, <1>6, <2>1 DEF PoolOk, RootKnown
  <2>3. Forest'
    BY <1>1, <1>3, <1>4, <2>1 DEF PoolOk, Forest
  <2>4. HubKnown'
    <3>2. raddr' \in {0, None} => raddr \in {0, None} /\ raddr' = raddr
      BY <1>1, <1>2
    <3>3. raddr' \in {0, None} => \A p \in Ports : Quiet(p)'
      BY <1>1, <3>2, Numbers DEF PoolOk, HubKnown, Quiet
    <3>4. raddr' = 0 => root'.device = None \/ devs'[0].address = 0
      BY <1>1, <2>1, <3>2 DEF PoolOk, HubKnown
    <3>5. cable' = "none" => raddr' = None
      BY <1>1 DEF PoolOk, HubKnown
    <3>6. \A p \in Ports : port'[p].present => cable' = "hub"
      BY <1>1 DEF PoolOk, HubKnown
    <3>7. devs'[0].armed \/ devs'[0].new_data \/ devs'[0].event = "HUB_PORT_CHANGE"
            => devs'[0].hub /\ devs'[0].address # 0
      BY <2>1 DEF PoolOk, HubKnown
    <3> QED BY <1>4, <1>6, <3>3, <3>4, <3>5, <3>6, <3>7 DEF HubKnown, HubTask
  <2>5. Stages'
    BY <1>0, <1>1, <1>2, <1>6, <2>1 DEF PoolOk, Stages
  <2>6. Alone'
    BY <1>1, <1>3, <1>4, <2>1 DEF PoolOk, Alone
  <2>7. Lock'
    BY <1>1, <1>4, <1>6, <2>1 DEF PoolOk, Lock
  <2>8. Waiting'
    BY <1>1, <1>4, <1>6, <2>1 DEF PoolOk, Waiting
  <2> QED BY <2>2, <2>3, <2>4, <2>5, <2>6, <2>7, <2>8 DEF PoolOk
<1> QED BY <1>1, <1>5, <1>6

(* The configuration: the lock is released when nobody has address 0.       *)
LEMMA ConfigurePool == ASSUME HubTypes, PoolOk, Configure PROVE PoolOk'
<1>0. PICK i \in Idx : i = task.idx
  BY DEF HubTypes, TaskType
<1>1. /\ UNCHANGED <<cable, raddr, port>> /\ task.at = "configure" /\ SameTree /\ task \in TaskType
      /\ \A j \in Idx : /\ devs'[j].event = devs[j].event
                        /\ devs'[j].armed => devs[j].armed \/ (j = i /\ devs[j].hub)
                        /\ devs'[j].new_data <=> devs[j].new_data
                        /\ j # i => devs'[j] = devs[j]
      /\ root'.event = root.event /\ root'.device = root.device
      /\ root'.connected <=> root.connected
      /\ \/ NextDevice
         \/ /\ task'.at = "failed" /\ task'.idx = i
            /\ devs[i].hub \/ UNCHANGED <<root, devs>>
  BY <1>0, ConfigureDoes DEF HubTypes
<1>2. Current /\ Naming /\ 0 \in Idx
  BY <1>1, Numbers DEF Current, Naming
<1>3. /\ devs[i].connected /\ devs[i].address # 0 /\ root.device = 0 /\ devs[0].connected
      /\ ~Freeing /\ (devs[i].is_root <=> i = 0) /\ root.event # "CONNECT"
  BY <1>0, <1>1, <1>2, CurrentPlace DEF PoolOk, Stages
<1>4. /\ Resets' = {} /\ Unnamed' = {} /\ task'.at \notin HubTask \cup {"connected", "configure", "descriptor", "address"}
  <2>1. Resets' = Resets /\ Unnamed' = Unnamed
    BY <1>1 DEF Resets, Unnamed, SameTree
  <2>2. Resets = {} /\ Unnamed = {}
    BY <1>0, <1>2, <1>3 DEF PoolOk, Alone
  <2>3. task'.at \in {"root", "device", "failed"}
    BY <1>1, NextPlace
  <2> QED BY <2>1, <2>2, <2>3 DEF HubTask
<1>5. task'.at = "failed" => task'.idx = i
  <2>1. NextDevice => task'.at # "failed"
    BY <1>1, NextPlace
  <2> QED BY <1>1, <2>1
<1>6. RootKnown'
  BY <1>1, <1>3, <1>4 DEF PoolOk, RootKnown
<1>7. Forest'
  <2>1. ASSUME NEW j \in Idx \ {0}
        PROVE \/ devs'[j] = devs[j]
              \/ /\ devs[j].connected /\ devs'[j].event \in {"NONE", "CONNECT"}
                 /\ devs'[j].armed <=> devs[j].armed
                 /\ devs'[j].new_data <=> devs[j].new_data
    <3>1. CASE j # i
      BY <1>1, <3>1
    <3>2. CASE j = i
      <4>1. ~devs[i].hub /\ ~devs[i].armed /\ devs[i].event \in {"NONE", "CONNECT"}
        BY <1>3, <2>1, <3>2 DEF PoolOk, Forest
      <4> QED BY <1>1, <1>3, <3>2, <4>1
    <3> QED BY <3>1, <3>2
  <2> QED BY <1>1, <1>2, <1>3, <2>1, ForestKept DEF PoolOk
<1>8. HubKnown'
  <2>1. devs'[0].armed \/ devs'[0].new_data \/ devs'[0].event = "HUB_PORT_CHANGE"
          => devs'[0].hub /\ devs'[0].address # 0
    BY <1>1, <1>2, <1>3 DEF PoolOk, HubKnown, SameTree
  <2>2. devs'[0].address = devs[0].address
    BY <1>1, <1>2 DEF SameTree
  <2> QED BY <1>1, <1>4, <2>1, <2>2 DEF PoolOk, HubKnown, HubTask, Quiet
<1>9. Stages'
  <2>1. \A j \in Idx : devs'[j].event # "CONNECT"
    <3>1. Unnamed = {}
      BY <1>0, <1>2, <1>3 DEF PoolOk, Alone
    <3> QED BY <1>1, <3>1 DEF PoolOk, Stages
  <2>2. Current' => task'.at = "failed"
    BY <1>4 DEF Current
  <2>3. devs'[i].connected /\ devs'[i].event \in {"NONE", "HUB_PORT_CHANGE"}
    BY <1>0, <1>1, <1>2, <1>3 DEF PoolOk, Stages, SameTree
  <2> QED BY <1>4, <1>5, <2>1, <2>2, <2>3 DEF Stages
<1>10. Alone'
  BY <1>1, <1>4 DEF PoolOk, Alone
<1>11. Lock'
  <2>1. ASSUME Naming' PROVE root'.addr0_exists
    <3>1. task'.at = "failed" /\ task'.idx = i /\ ~devs'[i].is_root
      BY <1>4, <1>5, <2>1 DEF Naming
    <3>2. ~devs[i].hub
      BY <1>1, <1>3, <3>1 DEF PoolOk, Forest, SameTree
    <3>3. UNCHANGED root
      <4>1. NextDevice => task'.at # "failed"
        BY <1>1, NextPlace
      <4> QED BY <1>1, <3>1, <3>2, <4>1
    <3> QED BY <1>1, <1>2, <3>3 DEF PoolOk, Lock
  <2> QED BY <1>4, <2>1 DEF Lock, HubTask
<1>12. Waiting'
  BY <1>4 DEF Waiting, HubTask
<1> QED BY <1>6, <1>7, <1>8, <1>9, <1>10, <1>11, <1>12 DEF PoolOk

(* The root device is given up.                                             *)
LEMMA RootFailedPool == ASSUME HubTypes, PoolOk, RootFailed PROVE PoolOk'
<1>1. /\ UNCHANGED <<devs, cable, raddr, port>> /\ NextDevice /\ task.at = "failed" /\ task \in TaskType
      /\ root'.event = "DISCONNECT" /\ root'.device = root.device
      /\ root'.connected <=> root.connected
      /\ root'.addr0_exists <=> root.addr0_exists
  BY RootFailedDoes DEF HubTypes
<1>2. task'.at \in {"root", "device"}
  BY <1>1, NextPlace
<1>3. ~Freeing
  BY <1>1 DEF Freeing
<1>4. RootKnown'
  BY <1>1, <1>2 DEF PoolOk, RootKnown
<1> QED BY <1>1, <1>2, <1>3, <1>4, PoolMoves

(* A device of the hub is freed.                                            *)
LEMMA ChildFreed ==
    ASSUME HubTypes, PoolOk, ~Freeing, NEW c \in Idx \ {0},
           devs' = Disconnected(devs, c), root' = Unlock(root, c)
    PROVE  /\ devs'[c] = ZeroDevice /\ \A j \in Idx \ {c} : devs'[j] = devs[j]
           /\ devs'[0] = devs[0]
           /\ Unnamed' = Unnamed \ {c}
           /\ root'.event = root.event /\ root'.device = root.device
           /\ root'.connected <=> root.connected
           /\ root'.addr0_exists => root.addr0_exists
           /\ root' = root \/ (Resets = {} /\ Unnamed' = {} /\ devs[c].connected /\ devs[c].address = 0)
           /\ Forest'
<1>1. devs \in [Idx -> DeviceType] /\ root \in RootType /\ 0 \in Idx /\ c \in Idx
  BY Numbers DEF HubTypes
<1>2. \A p \in Ports : devs[c].child[p] = 0
  <2>1. CASE devs[c].connected
    BY <2>1 DEF PoolOk, Forest
  <2>2. CASE ~devs[c].connected
    <3>1. devs[c] = ZeroDevice
      BY <2>2 DEF PoolOk, Forest
    <3> QED BY <3>1, Zero
  <2> QED BY <2>1, <2>2
<1>3. Below(c) = {c}
  BY <1>1, <1>2, BelowAlone
<1>4. devs'[c] = ZeroDevice /\ \A j \in Idx \ {c} : devs'[j] = devs[j]
  BY <1>1, <1>3, Frees
<1>5. Unnamed' = Unnamed \ {c}
  BY <1>1, <1>4, Zero DEF Unnamed
<1>6. /\ root'.event = root.event /\ root'.device = root.device
      /\ root'.connected <=> root.connected
      /\ root'.addr0_exists => root.addr0_exists
      /\ ~Unlocked(c) => root' = root
  BY <1>1, Releases
<1>7. Unlocked(c) => devs[c].connected /\ devs[c].address = 0
  <2>1. SUFFICES ASSUME HasParent(c), devs[c].address = 0, ~devs[c].connected PROVE FALSE
    BY <1>3 DEF Unlocked
  <2>2. devs[c] = ZeroDevice
    BY <2>1 DEF PoolOk, Forest
  <2> QED BY <2>1, <2>2 DEF HasParent, ZeroDevice
<1>8. devs[c].connected /\ devs[c].address = 0 => Resets = {} /\ Unnamed' = {}
  <2>1. devs[c].connected /\ devs[c].address = 0 => c \in Unnamed
    BY DEF Unnamed
  <2> QED BY <1>5, <2>1 DEF PoolOk, Alone
<1>9. Forest'
  <2>1. ASSUME NEW j \in Idx \ {0}, devs'[j].connected
        PROVE  /\ devs'[j].parent = 0 /\ ~devs'[j].is_root
               /\ devs'[j].parent_port \in Ports /\ devs'[0].child[devs'[j].parent_port] = j
               /\ devs'[j].child = [p \in Ports |-> 0] /\ devs'[j].event \in {"NONE", "CONNECT"}
               /\ ~devs'[j].hub /\ ~devs'[j].armed /\ ~devs'[j].new_data
               /\ devs'[0].address # 0
    <3>1. j # c /\ devs'[j] = devs[j] /\ devs'[0] = devs[0]
      BY <1>1, <1>4, <2>1, Zero
    <3> QED BY <2>1, <3>1 DEF PoolOk, Forest
  <2>2. devs'[0] = devs[0]
    BY <1>1, <1>4
  <2>3. \A j \in Idx : ~devs'[j].connected => devs'[j] = ZeroDevice
    BY <1>4 DEF PoolOk, Forest
  <2>4. root'.device = None => \A j \in Idx : ~devs'[j].connected
    BY <1>4, <1>6, Zero DEF PoolOk, Forest
  <2> QED BY <1>1, <1>6, <2>1, <2>2, <2>3, <2>4 DEF PoolOk, Forest
<1> QED BY <1>1, <1>4, <1>5, <1>6, <1>7, <1>8, <1>9

(* A device on the hub is given up, and its port reset with the lock held.  *)
LEMMA PortFailedPool == ASSUME HubTypes, PoolOk, PortFailed, "unlocked" \notin mishaps' PROVE PoolOk'
<1>0. PICK i \in Idx : i = task.idx
  BY DEF HubTypes, TaskType
<1>1. PICK acted \in BOOLEAN :
           /\ UNCHANGED <<cable, raddr>> /\ NextDevice
           /\ task.at = "failed" /\ ~devs[i].is_root
           /\ devs' = Disconnected(devs, i) /\ root' = Unlock(root, i)
           /\ acted => Listeners(devs[devs[i].parent].address) # {}
           /\ IF acted THEN ResetPort(devs[i].parent_port) ELSE UNCHANGED port
           /\ port[devs[i].parent_port].present /\ devs[i].address = 0 => "unlocked" \in mishaps'
  BY <1>0, PortFailedDoes
<1>2. Current /\ Naming /\ 0 \in Idx
  BY <1>0, <1>1, Numbers DEF Current, Naming
<1>3. /\ devs[i].connected /\ root.device = 0 /\ devs[0].connected /\ i # 0
      /\ ~Freeing /\ root.event # "CONNECT"
  BY <1>0, <1>1, <1>2, CurrentPlace
<1> DEFINE p == devs[i].parent_port
<1>4. devs[i].parent = 0 /\ p \in Ports /\ devs[0].child[p] = i /\ devs[0].address # 0
  BY <1>3 DEF PoolOk, Forest
<1>5. task'.at \in {"root", "device"} /\ ~Current' /\ ~Naming' /\ task'.at \notin HubTask
  <2>1. task'.at \in {"root", "device"}
    BY <1>1, NextPlace DEF HubTypes
  <2> QED BY <2>1 DEF Current, Naming, HubTask
<1>6. /\ devs'[i] = ZeroDevice /\ \A j \in Idx \ {i} : devs'[j] = devs[j]
      /\ devs'[0] = devs[0]
      /\ Unnamed' = Unnamed \ {i}
      /\ root'.event = root.event /\ root'.device = root.device
      /\ root'.connected <=> root.connected
      /\ root' = root \/ (Resets = {} /\ Unnamed' = {} /\ devs[i].address = 0)
      /\ Forest'
  BY <1>1, <1>3, ChildFreed
<1>7. acted => raddr \notin {0, None}
  BY <1>1, <1>4, HubAnswers DEF PoolOk
<1>8. \A r \in Ports : /\ SamePort(r)
                       /\ r # p => port'[r] = port[r]
                       /\ port'[r].resetting => port[r].resetting \/ (r = p /\ acted /\ port[p].present)
  <2>1. port \in [Ports -> PortType]
    BY DEF HubTypes
  <2>2. IF acted THEN ResetPort(p) ELSE UNCHANGED port
    BY <1>1
  <2> HIDE DEF p
  <2>3. \A r \in Ports : /\ r # p => port'[r] = port[r]
                         /\ SamePort(r)
                         /\ port'[r].resetting => port[r].resetting \/ (r = p /\ acted /\ port[p].present)
    <3>1. CASE acted
      <4>1. ResetPort(p)
        BY <2>2, <3>1
      <4> QED BY <2>1, <3>1, <4>1, ResetPortDoes
    <3>2. CASE ~acted
      BY <2>2, <3>2 DEF SamePort
    <3> QED BY <3>1, <3>2
  <2> QED BY <2>3
<1>9. Resets = {} /\ Resets' \subseteq {p} /\ (Resets' # {} => devs[i].address # 0)
  <2>1. Resets = {}
    BY <1>2 DEF PoolOk, Alone
  <2>2. \A r \in Ports : ~port[r].resetting /\ ~port[r].c_reset
    BY <2>1 DEF Resets
  <2>3. ASSUME NEW r \in Resets' PROVE r = p /\ devs[i].address # 0
    <3>1. r \in Ports /\ (port'[r].resetting \/ port'[r].c_reset)
      BY <2>3 DEF Resets
    <3>2. port'[r].resetting /\ r = p /\ port[p].present
      BY <1>8, <2>2, <3>1 DEF SamePort
    <3> QED BY <1>1, <3>2
  <2> HIDE DEF p
  <2> QED BY <2>1, <2>3
<1>10. Resets' # {} => Unnamed' = {}
  <2>1. devs[i].address # 0 => Unnamed = {}
    BY <1>0, <1>2 DEF PoolOk, Alone
  <2> QED BY <1>6, <1>9, <2>1
<1>11. RootKnown'
  BY <1>3, <1>5, <1>6 DEF PoolOk, RootKnown
<1>12. HubKnown'
  <2>1. raddr' \in {0, None} => \A r \in Ports : Quiet(r)'
    <3>1. ASSUME raddr \in {0, None}, NEW r \in Ports PROVE Quiet(r)'
      <4>1. ~acted /\ Quiet(r)
        BY <1>7, <3>1 DEF PoolOk, HubKnown
      <4> QED BY <1>8, <4>1 DEF SamePort, Quiet
    <3> QED BY <1>1, <3>1
  <2>2. \A r \in Ports : port'[r].present => cable' = "hub"
    BY <1>1, <1>8 DEF PoolOk, HubKnown, SamePort
  <2> QED BY <1>1, <1>5, <1>6, <2>1, <2>2 DEF PoolOk, HubKnown, HubTask
<1>13. Stages'
  <2>1. ASSUME NEW j \in Idx, devs'[j].event = "CONNECT" PROVE j \in Unnamed'
    <3>1. j # i /\ devs'[j] = devs[j]
      BY <1>6, <2>1, Zero
    <3>2. j \in Unnamed
      BY <2>1, <3>1 DEF PoolOk, Stages
    <3> QED BY <1>6, <3>1, <3>2
  <2> QED BY <1>5, <2>1 DEF Stages, Current
<1>14. Alone'
  <2>1. \A r \in Ports : ~port'[r].c_reset
    BY <1>8, <1>9 DEF SamePort, Resets
  <2>2. \A q, r \in Resets' : q = r
    <3> HIDE DEF p
    <3> QED BY <1>9
  <2>3. \A j, k \in Unnamed' : j = k
    BY <1>6 DEF PoolOk, Alone
  <2> QED BY <1>5, <1>10, <2>1, <2>2, <2>3 DEF Alone
<1>15. Lock'
  <2>1. root.addr0_exists
    BY <1>1, <1>2 DEF PoolOk, Lock
  <2>2. ASSUME Resets' # {} \/ Unnamed' # {} PROVE root'.addr0_exists
    BY <1>6, <1>9, <2>1, <2>2
  <2> QED BY <1>5, <2>2 DEF Lock, HubTask
<1>16. Waiting'
  <2>1. ASSUME NEW j \in Idx \ {0}, devs'[j].connected PROVE devs'[j].parent_port # p
    <3>1. j # i /\ devs'[j] = devs[j]
      BY <1>6, <2>1, Zero
    <3>2. devs[0].child[devs[j].parent_port] = j
      BY <2>1, <3>1 DEF PoolOk, Forest
    <3> QED BY <1>4, <3>1, <3>2
  <2> HIDE DEF p
  <2> QED BY <1>5, <1>9, <2>1 DEF Waiting, HubTask
<1> QED BY <1>6, <1>11, <1>12, <1>13, <1>14, <1>15, <1>16 DEF PoolOk

(* The hub's task keeps to the ports of the hub.                            *)
LEMMA HubDonePool == ASSUME HubTypes, PoolOk, HubDone PROVE PoolOk'
<1>1. /\ UNCHANGED <<root, cable, raddr, port>> /\ task.at = "hub" /\ NextDevice /\ task \in TaskType
      /\ SameTree /\ 0 \in Idx
      /\ \A j \in Idx : /\ devs'[j].event \in {devs[j].event, "NONE"}
                        /\ devs'[j].armed <=> devs[j].armed
                        /\ devs'[j].new_data <=> devs[j].new_data
                        /\ j # task.idx => devs'[j] = devs[j]
  BY HubDoneDoes, Numbers DEF HubTypes
<1>2. /\ task.idx = 0 /\ devs[0].connected /\ devs[0].hub /\ devs[0].address # 0 /\ root.device = 0
      /\ devs[0].event = "HUB_PORT_CHANGE" /\ ~Freeing
  BY <1>1, HubPlace DEF HubTask
<1>3. /\ Resets' = Resets /\ Unnamed' = Unnamed /\ ~Naming' /\ ~Current' /\ task'.at \notin HubTask
      /\ task'.at \in {"root", "device"}
  <2>1. task'.at \in {"root", "device"}
    BY <1>1, NextPlace
  <2> QED BY <1>1, <2>1 DEF Resets, Unnamed, Naming, Current, HubTask, SameTree
<1>4. RootKnown'
  BY <1>1, <1>3 DEF PoolOk, RootKnown
<1>5. Forest'
  BY <1>1, <1>2, ForestKept DEF PoolOk
<1>6. HubKnown'
  <2>1. devs'[0].hub /\ devs'[0].address # 0
    BY <1>1, <1>2 DEF SameTree
  <2> QED BY <1>1, <1>2, <1>3, <2>1 DEF PoolOk, HubKnown, HubTask, Quiet
<1>7. Stages'
  BY <1>1, <1>3 DEF PoolOk, Stages, Current
<1>8. Alone' /\ Lock'
  BY <1>1, <1>3 DEF PoolOk, Alone, Lock
<1>9. Waiting'
  BY <1>1, <1>3 DEF PoolOk, Waiting, SameTree
<1> QED BY <1>4, <1>5, <1>6, <1>7, <1>8, <1>9 DEF PoolOk

(* What the steps of the hub have in common.                                *)
LEMMA HubGoesOn ==
    ASSUME HubTypes, PoolOk, task.at \in HubTask, UNCHANGED <<devs, cable, raddr>>,
           root'.event = root.event, root'.device = root.device, root'.connected <=> root.connected,
           task'.at \in HubTask, task'.idx = task.idx,
           task'.at # "hub" => task'.port \in Ports,
           task'.at = "clear-reset" => port'[task'.port].c_reset \/ raddr \in {0, None},
           task'.at # "reset",
           \A p \in Ports : port'[p].present <=> port[p].present,
           raddr \in {0, None} => \A p \in Ports : Quiet(p)',
           Resets' \subseteq Resets \/ (~root.addr0_exists /\ Resets' \subseteq {task.port}),
           \A p \in Ports : port'[p].c_reset => port[p].c_reset /\ ~port'[p].resetting,
           task.at = "reset" \/ Resets' \subseteq Resets,
           root'.addr0_exists \/ (Resets' \subseteq Resets /\ (root'.addr0_exists <=> root.addr0_exists))
    PROVE  PoolOk'
<1>1. /\ task.idx = 0 /\ devs[0].connected /\ devs[0].hub /\ devs[0].address # 0 /\ root.device = 0
      /\ devs[0].event = "HUB_PORT_CHANGE" /\ ~Freeing
      /\ task.at \notin {"root", "connected", "fault", "device"}
  BY HubPlace
<1>2. Unnamed' = Unnamed /\ ~Naming' /\ ~Current' /\ ~Freeing'
      /\ task'.at \notin {"root", "connected", "fault", "device"}
  BY DEF Unnamed, Naming, Current, Freeing, HubTask
<1>3. ~root.addr0_exists => Resets = {} /\ Unnamed = {}
  BY <1>1 DEF PoolOk, Lock
<1>4. RootKnown'
  BY <1>1, <1>2 DEF PoolOk, RootKnown
<1>5. Forest'
  BY <1>1, <1>2 DEF PoolOk, Forest
<1>6. HubKnown'
  BY <1>1 DEF PoolOk, HubKnown, HubTask
<1>7. Stages'
  BY <1>2 DEF PoolOk, Stages, Current
<1>8. Alone'
  <2>1. \A p, q \in Resets' : p = q
    BY DEF PoolOk, Alone
  <2>2. Resets' = {} \/ Unnamed' = {}
    BY <1>2, <1>3 DEF PoolOk, Alone
  <2> QED BY <1>2, <2>1, <2>2 DEF PoolOk, Alone
<1>9. Lock'
  BY <1>1, <1>2 DEF PoolOk, Lock
<1>10. Waiting'
  BY DEF PoolOk, Waiting
<1> QED BY <1>4, <1>5, <1>6, <1>7, <1>8, <1>9, <1>10 DEF PoolOk

(* A port is reset when nobody has address 0, and with the lock.            *)
LEMMA HubResetPool == ASSUME HubTypes, PoolOk, HubReset PROVE PoolOk'
<1>1. /\ UNCHANGED <<devs, cable, raddr>> /\ task.at = "reset"
      /\ task'.at = "clear-connection" /\ task'.idx = task.idx /\ task'.port = task.port
      /\ root'.event = root.event /\ root'.device = root.device
      /\ root'.connected <=> root.connected
      /\ \/ /\ root'.addr0_exists
            /\ \E acted \in BOOLEAN : /\ acted => Listeners(devs[task.idx].address) # {}
                                      /\ IF acted THEN ResetPort(task.port) ELSE UNCHANGED port
         \/ UNCHANGED <<root, port>>
  BY HubResetDoes
<1>2. /\ task.at \in HubTask /\ task'.at \in HubTask /\ task.port \in Ports /\ ~root.addr0_exists
      /\ port \in [Ports -> PortType]
  BY <1>1 DEF HubTask, HubTypes, PoolOk, HubKnown, Lock
<1>3. task.idx = 0 /\ devs[0].address # 0 /\ Resets = {}
  <2>1. task.idx = 0 /\ devs[0].address # 0
    BY <1>2, HubPlace
  <2> QED BY <1>1, <1>2, <2>1 DEF PoolOk, Lock
<1>4. \A p \in Ports : ~port[p].resetting /\ ~port[p].c_reset
  BY <1>3 DEF Resets
<1>5. CASE UNCHANGED port
  <2>1. Resets' = {} /\ \A p \in Ports : Quiet(p)' <=> Quiet(p)
    BY <1>4, <1>5 DEF Resets, Quiet
  <2>2. raddr \in {0, None} => \A p \in Ports : Quiet(p)'
    BY <2>1 DEF PoolOk, HubKnown
  <2>3. root'.addr0_exists \/ (root'.addr0_exists <=> root.addr0_exists)
    BY <1>1
  <2> QED BY <1>1, <1>2, <1>3, <1>4, <1>5, <2>1, <2>2, <2>3, HubGoesOn
<1>6. CASE root'.addr0_exists /\ Listeners(devs[0].address) # {} /\ ResetPort(task.port)
  <2>1. \A r \in Ports : /\ SamePort(r)
                         /\ port'[r].resetting => port[r].resetting \/ r = task.port
    BY <1>2, <1>6, ResetPortDoes
  <2>2. raddr \notin {0, None}
    BY <1>3, <1>6, HubAnswers DEF PoolOk
  <2>3. Resets' \subseteq {task.port}
    BY <1>4, <2>1 DEF Resets, SamePort
  <2>4. \A r \in Ports : (port'[r].present <=> port[r].present) /\ ~port'[r].c_reset
    BY <1>4, <2>1 DEF SamePort
  <2> QED BY <1>1, <1>2, <1>6, <2>2, <2>3, <2>4, HubGoesOn
<1> QED BY <1>1, <1>3, <1>5, <1>6

(* The changes of a port are cleared.                                       *)
LEMMA HubClearConnectionPool == ASSUME HubTypes, PoolOk, HubClearConnection PROVE PoolOk'
<1>1. /\ UNCHANGED <<root, devs, cable, raddr>> /\ task.at = "clear-connection"
      /\ task'.at = "hub" /\ task'.idx = task.idx
      /\ \A p \in Ports : /\ port'[p].address = port[p].address
                          /\ port'[p].present <=> port[p].present
                          /\ port'[p].c_reset <=> port[p].c_reset
                          /\ port'[p].resetting <=> port[p].resetting
  BY HubClearConnectionDoes
<1>2. /\ Resets' = Resets /\ task.at \in HubTask /\ task'.at \in HubTask
      /\ \A p \in Ports : Quiet(p)' <=> Quiet(p)
  BY <1>1 DEF Resets, HubTask, Quiet
<1>3. \A p \in Ports : port'[p].c_reset => port[p].c_reset /\ ~port'[p].resetting
  BY <1>1 DEF PoolOk, Alone
<1>4. raddr \in {0, None} => \A p \in Ports : Quiet(p)'
  BY <1>2 DEF PoolOk, HubKnown
<1> QED BY <1>1, <1>2, <1>3, <1>4, HubGoesOn

(* The new device of a port has its place when the port is out of reset.    *)
LEMMA HubClearResetPool == ASSUME HubTypes, PoolOk, HubClearReset PROVE PoolOk'
<1>1. PICK acted \in BOOLEAN :
      /\ UNCHANGED <<root, cable, raddr>> /\ task.at = "clear-reset"
      /\ task'.at = "hub" /\ task'.idx = task.idx
      /\ acted => Listeners(devs[task.idx].address) # {}
      /\ \A p \in Ports : /\ port'[p].address = port[p].address
                          /\ port'[p].present <=> port[p].present
                          /\ port'[p].resetting <=> port[p].resetting
                          /\ port'[p].c_reset <=> port[p].c_reset /\ ~(p = task.port /\ acted)
      /\ UNCHANGED devs \/ (acted /\ device_pool_vacant # None /\ Assign(task.idx, task.port))
  BY HubClearResetDoes
<1>2. /\ task.at \in HubTask /\ task'.at \in HubTask /\ task.port \in Ports /\ 0 \in Idx
      /\ Resets' \subseteq Resets
      /\ \A p \in Ports : Quiet(p) => Quiet(p)'
      /\ \A p \in Ports : port'[p].c_reset => port[p].c_reset /\ ~port'[p].resetting
  <2>1. task.at \in HubTask /\ task'.at \in HubTask /\ task.port \in Ports
    BY <1>1 DEF HubTask, PoolOk, HubKnown
  <2>2. Resets' \subseteq Resets /\ \A p \in Ports : Quiet(p) => Quiet(p)'
    BY <1>1 DEF Resets, Quiet
  <2>3. \A p \in Ports : port'[p].c_reset => port[p].c_reset /\ ~port'[p].resetting
    BY <1>1 DEF PoolOk, Alone
  <2> QED BY <2>1, <2>2, <2>3, Numbers
<1>3. raddr \in {0, None} => \A p \in Ports : Quiet(p)'
  BY <1>2 DEF PoolOk, HubKnown
<1>4. CASE UNCHANGED devs
  BY <1>1, <1>2, <1>3, <1>4, HubGoesOn
<1>5. CASE acted /\ device_pool_vacant # None /\ Assign(task.idx, task.port)
  <2>1. /\ task.idx = 0 /\ devs[0].connected /\ devs[0].hub /\ devs[0].address # 0 /\ root.device = 0
        /\ devs[0].event = "HUB_PORT_CHANGE" /\ ~Freeing
    BY <1>2, HubPlace
  <2>2. raddr \notin {0, None}
    BY <1>1, <1>5, <2>1, HubAnswers DEF PoolOk
  <2>3. task.port \in Resets /\ port[task.port].c_reset
    BY <1>1, <1>2, <2>2 DEF PoolOk, HubKnown, Resets
  <2>4. Unnamed = {} /\ Resets = {task.port} /\ Resets' = {}
    <3>1. Unnamed = {} /\ Resets = {task.port}
      BY <2>3 DEF PoolOk, Alone
    <3>2. ~port'[task.port].resetting /\ ~port'[task.port].c_reset
      BY <1>1, <1>2, <1>5, <2>3 DEF PoolOk, Alone
    <3> QED BY <1>2, <3>1, <3>2 DEF Resets
  <2>5. PICK i \in Idx : i = device_pool_vacant /\ ~devs[i].connected
    BY <1>5, FirstVacant DEF Vacant
  <2>6. i # 0 /\ devs[i] = ZeroDevice
    BY <2>1, <2>5 DEF PoolOk, Forest
  <2>7. devs \in [Idx -> DeviceType] /\ task.port \in Nat
    BY DEF HubTypes, TaskType
  <2>8. /\ devs'[i].connected /\ devs'[i].event = "CONNECT"
        /\ devs'[i].parent = 0 /\ devs'[i].parent_port = task.port
        /\ \A j \in Idx : /\ devs'[j].address = devs[j].address
                          /\ devs'[j].is_root <=> devs[j].is_root
                          /\ devs'[j].hub <=> devs[j].hub
                          /\ devs'[j].armed <=> devs[j].armed
                          /\ devs'[j].new_data <=> devs[j].new_data
                          /\ j # 0 => devs'[j].child = devs[j].child
                          /\ j # i => /\ devs'[j].connected <=> devs[j].connected
                                      /\ devs'[j].event = devs[j].event
                                      /\ devs'[j].parent = devs[j].parent
                                      /\ devs'[j].parent_port = devs[j].parent_port
                          /\ j # 0 /\ j # i => devs'[j] = devs[j]
        /\ \A q \in Ports : devs'[0].child[q] = IF q = task.port THEN i ELSE devs[0].child[q]
    BY <1>2, <1>5, <2>1, <2>5, <2>7, Assigned
  <2>9. Unnamed' = {i} /\ ~Naming' /\ ~Current' /\ ~Freeing'
    <3>1. Unnamed' = {i}
      BY <2>4, <2>6, <2>8, Zero DEF Unnamed
    <3> QED BY <1>1, <3>1 DEF Naming, Current, Freeing
  <2>10. RootKnown'
    BY <1>1, <2>1 DEF PoolOk, RootKnown
  <2>11. Forest'
    <3>1. ASSUME NEW j \in Idx \ {0}, devs'[j].connected
          PROVE  /\ devs'[j].parent = 0 /\ ~devs'[j].is_root
                 /\ devs'[j].parent_port \in Ports /\ devs'[0].child[devs'[j].parent_port] = j
                 /\ devs'[j].child = [p \in Ports |-> 0] /\ devs'[j].event \in {"NONE", "CONNECT"}
                 /\ ~devs'[j].hub /\ ~devs'[j].armed /\ ~devs'[j].new_data
                 /\ devs'[0].address # 0
      <4>1. CASE j = i
        BY <1>2, <2>1, <2>6, <2>8, <4>1, Zero
      <4>2. CASE j # i
        <5>1. devs'[j] = devs[j] /\ devs[j].connected
          BY <2>8, <3>1, <4>2
        <5>2. devs[j].parent_port # task.port
          BY <2>3, <5>1 DEF PoolOk, Waiting
        <5> QED BY <1>2, <2>1, <2>8, <5>1, <5>2 DEF PoolOk, Forest
      <4> QED BY <4>1, <4>2
    <3>2. ASSUME NEW j \in Idx, ~devs'[j].connected PROVE devs'[j] = ZeroDevice
      <4>1. j # i /\ j # 0 /\ devs'[j] = devs[j]
        BY <2>1, <2>6, <2>8, <3>2
      <4> QED BY <3>2, <4>1 DEF PoolOk, Forest
    <3>3. devs'[0].connected /\ devs'[0].is_root /\ devs'[0].event = "HUB_PORT_CHANGE"
      BY <1>2, <2>1, <2>6, <2>8 DEF PoolOk, Forest
    <3> QED BY <1>1, <2>1, <3>1, <3>2, <3>3, Numbers DEF Forest
  <2>12. HubKnown'
    <3>1. devs'[0].hub /\ devs'[0].address # 0 /\ devs'[0].event = "HUB_PORT_CHANGE"
      BY <1>2, <2>1, <2>6, <2>8
    <3>2. \A p \in Ports : port'[p].present => cable' = "hub"
      BY <1>1 DEF PoolOk, HubKnown
    <3> QED BY <1>1, <2>1, <2>2, <3>1, <3>2 DEF PoolOk, HubKnown, HubTask
  <2>13. Stages'
    <3>1. \A j \in Idx : devs'[j].event = "CONNECT" => j \in Unnamed'
      BY <2>4, <2>8, <2>9 DEF PoolOk, Stages
    <3> QED BY <1>1, <2>9, <3>1 DEF Stages
  <2>14. Alone'
    BY <1>1, <1>2, <2>4, <2>9 DEF Alone
  <2>15. Lock'
    <3>1. root.addr0_exists
      BY <1>1, <2>3 DEF PoolOk, Lock
    <3> QED BY <1>1, <2>9, <3>1 DEF Lock
  <2>16. Waiting'
    BY <1>1, <2>4 DEF Waiting
  <2> QED BY <2>10, <2>11, <2>12, <2>13, <2>14, <2>15, <2>16 DEF PoolOk
<1> QED BY <1>1, <1>4, <1>5

(* The status of a port: the device that was on it has no place any more.   *)
LEMMA HubStatusPool == ASSUME HubTypes, PoolOk, HubStatus PROVE PoolOk'
<1>0. /\ UNCHANGED <<cable, raddr, port>> /\ task.at = "hub" /\ task'.idx = task.idx
      /\ task'.at \in HubTask /\ 0 \in Idx
  BY HubStatusDoes, Numbers DEF HubTask
<1>1. /\ task.idx = 0 /\ devs[0].connected /\ devs[0].hub /\ devs[0].address # 0 /\ root.device = 0
      /\ devs[0].event = "HUB_PORT_CHANGE" /\ ~Freeing /\ task.at \in HubTask
  BY <1>0, HubPlace DEF HubTask
<1>2. /\ Resets' = Resets /\ ~Naming' /\ ~Current' /\ ~Freeing' /\ \A p \in Ports : Quiet(p)' <=> Quiet(p)
      /\ task'.at \notin {"root", "connected", "fault", "device"}
  BY <1>0 DEF Resets, Naming, Current, Freeing, Quiet, HubTask
<1>3. /\ raddr \in {0, None} => \A p \in Ports : Quiet(p)'
      /\ \A p \in Ports : port'[p].c_reset => port[p].c_reset /\ ~port'[p].resetting
  BY <1>0, <1>2 DEF PoolOk, HubKnown, Alone
<1>4. ASSUME UNCHANGED <<root, devs>>, task'.at # "reset", task'.at # "hub" => task'.port \in Ports,
             task'.at = "clear-reset" => port[task'.port].c_reset
      PROVE  PoolOk'
  BY <1>0, <1>1, <1>2, <1>3, <1>4, HubGoesOn
<1>5. ASSUME NEW p \in Ports, NEW c \in Idx, c = devs[0].child[p],
             \/ c # 0 /\ devs' = Disconnected(devs, c) /\ root' = Unlock(root, c)
             \/ c = 0 /\ UNCHANGED <<root, devs>>,
             \/ task'.at = "hub"
             \/ task'.at = "clear-connection" /\ task'.port = p
             \/ task'.at = "reset" /\ task'.port = p /\ ~root'.addr0_exists
      PROVE  PoolOk'
  <2>1. /\ \A j \in Idx : devs'[j] = devs[j] \/ (j = c /\ j # 0 /\ devs'[j] = ZeroDevice)
        /\ devs'[0] = devs[0]
        /\ root'.event = root.event /\ root'.device = root.device
        /\ root'.connected <=> root.connected
        /\ root' = root \/ (Resets = {} /\ Unnamed' = {})
        /\ Unnamed' \subseteq Unnamed
        /\ c # 0 => Forest' /\ devs'[c] = ZeroDevice
    <3>1. CASE c # 0 /\ devs' = Disconnected(devs, c) /\ root' = Unlock(root, c)
      BY <1>0, <1>1, <3>1, ChildFreed
    <3>2. CASE c = 0 /\ UNCHANGED <<root, devs>>
      BY <1>0, <3>2 DEF Unnamed
    <3> QED BY <1>5, <3>1, <3>2
  <2>2. Forest'
    <3>1. CASE c = 0
      <4>1. UNCHANGED <<root, devs>>
        BY <1>5, <3>1
      <4> QED BY <1>1, <1>2, <4>1 DEF PoolOk, Forest
    <3> QED BY <2>1, <3>1
  <2>3. RootKnown'
    BY <1>0, <1>1, <1>2, <2>1 DEF PoolOk, RootKnown
  <2>4. HubKnown'
    <3>1. task'.at # "hub" => task'.port \in Ports /\ task'.at # "clear-reset"
      BY <1>5
    <3>2. \A q \in Ports : port'[q].present => cable' = "hub"
      BY <1>0 DEF PoolOk, HubKnown
    <3>3. cable' = "none" => raddr' = None
      BY <1>0 DEF PoolOk, HubKnown
    <3>4. raddr' = 0 => root'.device = None \/ devs'[0].address = 0
      BY <1>0, <2>1 DEF PoolOk, HubKnown
    <3>5. task'.at = "clear-reset" => FALSE
      BY <1>5
    <3> QED BY <1>0, <1>1, <1>3, <2>1, <3>1, <3>2, <3>3, <3>4, <3>5 DEF HubKnown
  <2>5. Stages'
    <3>1. ASSUME NEW j \in Idx, devs'[j].event = "CONNECT" PROVE j \in Unnamed'
      <4>1. devs'[j] = devs[j]
        BY <2>1, <3>1, Zero
      <4>2. j \in Unnamed
        BY <3>1, <4>1 DEF PoolOk, Stages
      <4> QED BY <4>1, <4>2 DEF Unnamed
    <3> QED BY <1>2, <3>1 DEF Stages, Current
  <2>6. Alone'
    <3>1. \A j, k \in Unnamed' : j = k
      BY <2>1 DEF PoolOk, Alone
    <3>2. Resets' = {} \/ Unnamed' = {}
      BY <1>2, <2>1 DEF PoolOk, Alone
    <3> QED BY <1>0, <1>2, <3>1, <3>2 DEF PoolOk, Alone
  <2>7. Lock'
    <3>1. CASE root' = root
      BY <1>0, <1>2, <1>5, <2>1, <3>1 DEF PoolOk, Lock
    <3>2. CASE Resets = {} /\ Unnamed' = {}
      BY <1>2, <1>5, <3>2 DEF Lock
    <3> QED BY <2>1, <3>1, <3>2
  <2>8. Waiting'
    <3>1. ASSUME NEW j \in Idx \ {0}, devs'[j].connected
          PROVE  devs'[j].parent_port \notin Resets /\ devs'[j].parent_port # p
      <4>1. devs'[j] = devs[j] /\ (c # 0 => j # c)
        BY <2>1, <3>1, Zero
      <4>2. devs[0].child[devs[j].parent_port] = j /\ devs[j].parent_port \notin Resets
        BY <3>1, <4>1 DEF PoolOk, Forest, Waiting
      <4> QED BY <1>5, <4>1, <4>2
    <3>2. task'.at = "reset" => task'.port = p
      BY <1>5
    <3> QED BY <1>2, <3>1, <3>2 DEF Waiting
  <2> QED BY <2>2, <2>3, <2>4, <2>5, <2>6, <2>7, <2>8 DEF PoolOk
<1>6. CASE task'.at = "hub" /\ UNCHANGED <<root, devs>>
  BY <1>4, <1>6
<1>7. CASE /\ UNCHANGED <<root, devs>> /\ task'.at = "clear-reset" /\ task'.port \in Ports
           /\ port[task'.port].c_reset
  BY <1>4, <1>7
<1>8. ASSUME NEW p \in Ports,
             LET c == devs[task.idx].child[p]
             IN  \/ c # 0 /\ devs' = Disconnected(devs, c) /\ root' = Unlock(root, c)
                 \/ c = 0 /\ UNCHANGED <<root, devs>>,
             \/ task'.at = "hub"
             \/ task'.at = "clear-connection" /\ task'.port = p
             \/ task'.at = "reset" /\ task'.port = p /\ ~root'.addr0_exists
      PROVE  PoolOk'
  <2>1. devs[0].child[p] \in Idx
    <3>1. devs[0] \in DeviceType
      BY <1>0 DEF HubTypes
    <3> QED BY <3>1 DEF DeviceType
  <2> QED BY <1>1, <1>5, <1>8, <2>1
<1> QED BY <1>6, <1>7, <1>8, HubStatusDoes

-----------------------------------------------------------------------------
(* The hub's ports, and the cables.                                         *)

(* What leaves the task, the pool and the root port alone.                  *)
LEMMA PoolStays ==
    ASSUME HubTypes, PoolOk, UNCHANGED <<root, devs, task>>,
           Resets' \subseteq Resets,
           \A p \in Ports : ~(port'[p].resetting /\ port'[p].c_reset),
           task.at = "clear-reset" =>
              (port[task.port].c_reset /\ task.port \in Ports
                 => port'[task.port].c_reset \/ raddr' \in {0, None}),
           raddr' \in {0, None} \/ raddr' = raddr,
           raddr' \in {0, None} => \A p \in Ports : Quiet(p)',
           cable' = "none" => raddr' = None,
           raddr' = 0 => raddr = 0,
           \A p \in Ports : port'[p].present => cable' = "hub"
    PROVE  PoolOk'
<1>1. Unnamed' = Unnamed /\ (Naming' <=> Naming) /\ (Current' <=> Current) /\ (Freeing' <=> Freeing)
  BY DEF Unnamed, Naming, Current, Freeing
<1>2. RootKnown' /\ Forest' /\ Stages'
  BY <1>1 DEF PoolOk, RootKnown, Forest, Stages
<1>3. HubKnown'
  BY DEF PoolOk, HubKnown, HubTask
<1>4. Alone' /\ Lock' /\ Waiting'
  BY <1>1 DEF PoolOk, Alone, Lock, Waiting
<1> QED BY <1>2, <1>3, <1>4 DEF PoolOk

(* The ports of the hub, and the cables.                                    *)
LEMMA CablePool == ASSUME HubTypes, PoolOk, HubPort \/ Cable PROVE PoolOk'
<1>1. CASE HubPort
  <2>1. PICK p \in Ports : /\ port[p].resetting /\ ~port'[p].resetting /\ port'[p].c_reset
                           /\ port'[p].present <=> port[p].present
                           /\ \A r \in Ports \ {p} : port'[r] = port[r]
    BY <1>1, HubPortDoes
  <2>2. UNCHANGED <<root, devs, task, cable, raddr>>
    BY <1>1, HubPortDoes
  <2>3. Resets' \subseteq Resets
    BY <2>1 DEF Resets
  <2>4. raddr \notin {0, None}
    BY <2>1 DEF PoolOk, HubKnown, Quiet
  <2>5. /\ \A r \in Ports : ~(port'[r].resetting /\ port'[r].c_reset)
        /\ \A r \in Ports : port[r].c_reset => port'[r].c_reset
        /\ \A r \in Ports : port'[r].present => cable = "hub"
        /\ cable = "none" => raddr = None
    BY <2>1 DEF PoolOk, Alone, HubKnown
  <2> QED BY <2>2, <2>3, <2>4, <2>5, PoolStays
<1>2. CASE PlugRoot
  <2>1. /\ UNCHANGED <<root, devs, task, port>> /\ cable = "none" /\ cable' \in {"device", "hub"}
        /\ raddr' = None
    BY <1>2, PlugRootDoes
  <2>2. raddr = None
    BY <2>1 DEF PoolOk, HubKnown
  <2>3. /\ \A r \in Ports : Quiet(r)' /\ ~port[r].present
        /\ \A r \in Ports : ~(port[r].resetting /\ port[r].c_reset)
    BY <2>1, <2>2 DEF PoolOk, HubKnown, Alone, Quiet
  <2>4. Resets' \subseteq Resets
    BY <2>1 DEF Resets
  <2> QED BY <2>1, <2>3, <2>4, Numbers, PoolStays
<1>3. CASE PlugPort
  <2>1. PICK p \in Ports : /\ port'[p].address = port[p].address
                           /\ port'[p].c_reset <=> port[p].c_reset
                           /\ port'[p].resetting <=> port[p].resetting
                           /\ \A r \in Ports \ {p} : port'[r] = port[r]
    BY <1>3, PlugPortDoes
  <2>2. UNCHANGED <<root, devs, task, cable, raddr>> /\ cable = "hub"
    BY <1>3, PlugPortDoes
  <2>3. Resets' \subseteq Resets /\ \A r \in Ports : Quiet(r) => Quiet(r)'
    BY <2>1 DEF Resets, Quiet
  <2>4. /\ \A r \in Ports : ~(port'[r].resetting /\ port'[r].c_reset)
        /\ \A r \in Ports : port[r].c_reset => port'[r].c_reset
        /\ raddr \in {0, None} => \A r \in Ports : Quiet(r)'
    BY <2>1, <2>3 DEF PoolOk, Alone, HubKnown
  <2> QED BY <2>2, <2>3, <2>4, PoolStays
<1>4. CASE UnplugRoot
  <2>1. /\ UNCHANGED <<root, devs, task>> /\ raddr' = None
        /\ \A p \in Ports : Quiet(p)' /\ ~port'[p].present
    BY <1>4, UnplugRootDoes
  <2>2. Resets' \subseteq Resets /\ \A r \in Ports : ~(port'[r].resetting /\ port'[r].c_reset)
    BY <2>1 DEF Resets, Quiet
  <2> QED BY <2>1, <2>2, Numbers, PoolStays
<1>5. CASE UnplugPort
  <2>1. PICK p \in Ports : /\ ~port'[p].present /\ port'[p].address = None /\ ~port'[p].resetting
                           /\ port'[p].c_reset <=> port[p].c_reset
                           /\ \A r \in Ports \ {p} : port'[r] = port[r]
    BY <1>5, UnplugPortDoes
  <2>2. UNCHANGED <<root, devs, task, cable, raddr>>
    BY <1>5, UnplugPortDoes
  <2>3. Resets' \subseteq Resets /\ \A r \in Ports : Quiet(r) => Quiet(r)'
    BY <2>1 DEF Resets, Quiet
  <2>4. /\ \A r \in Ports : ~(port'[r].resetting /\ port'[r].c_reset)
        /\ \A r \in Ports : port[r].c_reset => port'[r].c_reset
        /\ \A r \in Ports : port'[r].present => cable = "hub"
        /\ raddr \in {0, None} => \A r \in Ports : Quiet(r)'
        /\ cable = "none" => raddr = None
    BY <2>1, <2>3 DEF PoolOk, Alone, HubKnown
  <2> QED BY <2>2, <2>3, <2>4, PoolStays
<1> QED BY <1>1, <1>2, <1>3, <1>4, <1>5 DEF Cable

(* Every step keeps the pool, the hub and the lock in order, unless a change*)
(* of the root port is missed or address 0 is given up too early.           *)
LEMMA PoolStep == ASSUME HubTypes, Pass, PoolOk, Next, Spared({"missed", "unlocked"})' PROVE PoolOk'
<1>1. "missed" \notin mishaps' /\ "unlocked" \notin mishaps'
  BY DEF Spared
<1>2. CASE Root
  BY <1>2, RootConnectPool, RootConnectedPool, RootDisconnectPool, RootQuietPool DEF Root
<1>3. CASE DeviceEvent
  BY <1>3, DeviceEventPool
<1>4. CASE Enumeration
  BY <1>1, <1>4, DescriptorPool, SetAddressPool, ConfigurePool, RootFailedPool, PortFailedPool DEF Enumeration
<1>5. CASE Hub
  BY <1>5, HubDonePool, HubStatusPool, HubResetPool, HubClearConnectionPool, HubClearResetPool DEF Hub
<1>6. CASE RootPort
  BY <1>1, <1>6, RootPortPool
<1>7. CASE HubReport \/ pio_usb_get_in_data
  BY <1>7, ReportPool
<1>8. CASE HubPort \/ Cable
  BY <1>8, CablePool
<1> QED BY <1>2, <1>3, <1>4, <1>5, <1>6, <1>7, <1>8 DEF Next, Task

-----------------------------------------------------------------------------
(* The lock, step by step, as long as nothing is pulled out of the hub.     *)

(* Nobody new is busy, and the hub stays as it is.                          *)
LEMMA HeldGoesOn ==
    ASSUME Held, Busy' \subseteq Busy, Resets' \subseteq Resets,
           Busy' = {} \/ (root.addr0_exists => root'.addr0_exists),
           Naming' /\ devs'[task'.idx].address # 0 => Busy' = {},
           root'.device # None => root.device # None /\ devs'[0].address = devs[0].address
                                  /\ \A p \in Ports : devs'[0].child[p] = devs[0].child[p],
           raddr' \notin {0, None} =>
              /\ raddr \notin {0, None}
              /\ \A p \in Ports : /\ port'[p].c_connection => port[p].c_connection
                                  /\ port'[p].present <=> port[p].present,
           task'.at = "clear-reset" /\ raddr' \notin {0, None} => ~port'[task'.port].c_connection,
           \A p \in Ports : (port'[p].present <=> port[p].present) \/ p \notin Resets'
    PROVE  Held'
<1>1. \A p, q \in Busy' : p = q
  BY DEF Held
<1>2. Busy' # {} => root'.addr0_exists
  BY DEF Held
<1>3. root'.device # None /\ raddr' \notin {0, None} =>
          \A p \in Ports : port'[p].c_connection \/ ~port'[p].present => devs'[0].child[p] = 0
  BY DEF Held
<1>4. root'.device # None /\ devs'[0].address = 0 => \A p \in Ports : devs'[0].child[p] = 0
  BY DEF Held
<1>5. \A p \in Resets' : port'[p].present
  BY DEF Held, Resets
<1> QED BY <1>1, <1>2, <1>3, <1>4, <1>5 DEF Held

(* What leaves the ports alone, and the lock held.                          *)
LEMMA HeldRests ==
    ASSUME HubTypes, Held, UNCHANGED <<cable, raddr, port>>, SameTree,
           root'.device = root.device, root.addr0_exists => root'.addr0_exists,
           Naming' => ~(devs'[task'.idx].address # 0) \/ (Naming /\ task'.idx = task.idx),
           task'.at = "clear-reset" => (task.at = "clear-reset" /\ UNCHANGED task) \/ ~port[task'.port].c_connection
    PROVE  Held'
<1>1. Busy' = Busy /\ Resets' = Resets /\ 0 \in Idx /\ task.idx \in Idx
  BY Numbers DEF Busy, Resets, HubTypes, TaskType
<1>2. Naming' /\ devs'[task'.idx].address # 0 => Busy' = {}
  BY <1>1 DEF Held, SameTree
<1>3. task'.at = "clear-reset" /\ raddr' \notin {0, None} => ~port'[task'.port].c_connection
  BY DEF Held
<1> QED BY <1>1, <1>2, <1>3, HeldGoesOn DEF SameTree

(* A bus at rest.                                                           *)
LEMMA HeldQuiet ==
    ASSUME \A p \in Ports : Quiet(p)', raddr' \in {0, None},
           root'.device # None /\ devs'[0].address = 0 => \A p \in Ports : devs'[0].child[p] = 0
    PROVE  Held'
<1>1. Busy' = {} /\ Resets' = {}
  BY Numbers DEF Busy, Resets, Quiet
<1> QED BY <1>1 DEF Held

(* The root port, and the events of the devices.                            *)
LEMMA HeldRoot == ASSUME HubTypes, PoolOk, Held, Root PROVE Held'
<1>1. CASE RootConnect
  <2>1. /\ task.at = "root" /\ root.event = "CONNECT"
        /\ device_pool_vacant \in Vacant
        /\ cable # "none" => devs'[device_pool_vacant].child = [p \in Ports |-> 0]
        /\ cable = "none" => root'.device = root.device
        /\ raddr' \in {0, None} /\ \A p \in Ports : Quiet(p)'
    BY <1>1, RootConnectDoes, BusRests DEF HubTypes
  <2>2. root.device = None
    BY <2>1 DEF PoolOk, RootKnown
  <2>3. \A i \in Idx : ~devs[i].connected
    BY <2>1, <2>2 DEF PoolOk, Forest, Freeing
  <2>4. device_pool_vacant = 0
    BY <2>3, FirstVacant, Numbers DEF Vacant
  <2> QED BY <2>1, <2>2, <2>4, HeldQuiet
<1>2. CASE RootDisconnect
  BY <1>2, RootDisconnectDoes, BusRests, HeldQuiet DEF HubTypes
<1>3. CASE RootConnected
  <2>1. /\ UNCHANGED <<devs, cable, raddr, port>> /\ root'.device = root.device
        /\ root.addr0_exists => root'.addr0_exists
        /\ task'.at = "device"
    BY <1>3, RootConnectedDoes
  <2>2. SameTree /\ ~Naming'
    BY <2>1 DEF SameTree, Naming
  <2> QED BY <2>1, <2>2, HeldRests
<1>4. CASE RootFault \/ RootQuiet
  <2>1. /\ UNCHANGED <<root, devs, cable, raddr, port>> /\ task'.at \in {"device", "fault"}
    BY <1>4, RootFaultDoes, RootQuietDoes
  <2>2. SameTree /\ ~Naming'
    BY <2>1 DEF SameTree, Naming
  <2> QED BY <2>1, <2>2, HeldRests
<1> QED BY <1>1, <1>2, <1>3, <1>4 DEF Root

(* A device that is freed leaves no port that waits for it.                 *)
LEMMA HeldDeviceEvent == ASSUME HubTypes, Pass, PoolOk, Held, DeviceEvent PROVE Held'
<1> DEFINE i == task.idx
<1>1. /\ i \in Idx /\ devs \in [Idx -> DeviceType] /\ root \in RootType /\ task \in TaskType
      /\ task.at = "device" /\ UNCHANGED <<cable, raddr, port>>
  BY DeviceEventDoes DEF HubTypes, TaskType
<1>2. CASE devs[i].event = "NONE" /\ NextDevice /\ UNCHANGED <<root, devs>>
  <2>1. task'.at \in {"root", "device"}
    BY <1>1, <1>2, NextPlace
  <2>2. SameTree /\ ~Naming'
    BY <1>2, <2>1 DEF SameTree, Naming
  <2> QED BY <1>1, <1>2, <2>1, <2>2, HeldRests
<1>3. CASE devs[i].event = "CONNECT" /\ devs' = [devs EXCEPT ![i].event = "NONE"]
           /\ task'.at = "descriptor" /\ UNCHANGED root
  <2>1. SameTree /\ ~Naming'
    BY <1>1, <1>3, EventSet DEF Naming
  <2> QED BY <1>1, <1>3, <2>1, HeldRests
<1>4. CASE devs[i].event = "DISCONNECT" /\ root' = Unlock(root, i)
  <2>1. i = 0
    <3>1. CASE devs[i].connected
      BY <1>1, <1>4, <3>1 DEF PoolOk, Forest
    <3>2. CASE ~devs[i].connected
      BY <1>1, <1>4, <3>2, Zero DEF PoolOk, Forest
    <3> QED BY <3>1, <3>2
  <2>2. root'.device = None
    BY <1>1, <1>4, <2>1, Releases DEF PoolOk, Forest
  <2>3. raddr \in {0, None} /\ \A p \in Ports : Quiet(p)
    BY <1>1, <1>4, <2>1, FreeingRests DEF PoolOk, HubKnown
  <2>4. \A p \in Ports : Quiet(p)'
    BY <1>1, <2>3 DEF Quiet
  <2> QED BY <1>1, <2>2, <2>3, <2>4, HeldQuiet
<1>5. CASE devs[i].event = "HUB_PORT_CHANGE" /\ UNCHANGED <<root, devs>> /\ task'.at = "hub"
  <2>1. SameTree /\ ~Naming'
    BY <1>5 DEF SameTree, Naming
  <2> QED BY <1>1, <1>5, <2>1, HeldRests
<1> QED BY <1>2, <1>3, <1>4, <1>5, DeviceEventDoes

(* An enumeration ends with nobody on address 0.                            *)
LEMMA HeldEnumeration == ASSUME HubTypes, PoolOk, Held, Enumeration, "unlocked" \notin mishaps' PROVE Held'
<1>0. PICK i \in Idx : i = task.idx
  BY DEF HubTypes, TaskType
<1>1. 0 \in Idx /\ Current
  BY Numbers DEF Current, Enumeration, Descriptor, SetAddress, Configure, RootFailed, PortFailed
<1>2. /\ devs[i].connected /\ root.device = 0 /\ devs[0].connected /\ root.device # None
      /\ devs[i].is_root <=> i = 0
  BY <1>0, <1>1, CurrentPlace, Numbers
<1>3. CASE Descriptor
  <2>1. /\ UNCHANGED <<root, cable, raddr, port>> /\ task.at = "descriptor" /\ task'.at \in {"address", "failed"}
        /\ task'.idx = i
        /\ \A j \in Idx : devs'[j].address = devs[j].address /\ devs'[j].child = devs[j].child
    BY <1>0, <1>3, DescriptorDoes
  <2>2. devs'[i].address = 0
    BY <1>0, <2>1 DEF PoolOk, Stages
  <2>3. Busy' = Busy /\ Resets' = Resets
    BY <2>1 DEF Busy, Resets
  <2> QED BY <1>1, <2>1, <2>2, <2>3, HeldGoesOn
<1>4. CASE SetAddress
  <2>1. PICK acted \in BOOLEAN :
        /\ UNCHANGED <<root, cable>> /\ task.at = "address"
        /\ task'.at \in {"configure", "failed"} /\ task'.idx = i
        /\ raddr' = IF acted /\ cable # "none" /\ raddr = 0 THEN i + 1 ELSE raddr
        /\ \A p \in Ports : /\ port'[p].present <=> port[p].present
                            /\ port'[p].c_reset <=> port[p].c_reset
                            /\ port'[p].c_connection <=> port[p].c_connection
                            /\ port'[p].resetting <=> port[p].resetting
                            /\ port'[p].address = IF acted /\ port[p].address = 0 THEN i + 1
                                                  ELSE port[p].address
        /\ \A j \in Idx : /\ devs'[j].child = devs[j].child
                          /\ j # i => devs'[j] = devs[j]
        /\ task'.at = "configure" => acted /\ devs'[i].address = i + 1
        /\ task'.at = "failed" => UNCHANGED devs
    BY <1>0, <1>4, SetAddressDoes
  <2>2. devs[i].address = 0 /\ i \in Unnamed /\ Resets = {} /\ i + 1 # 0 /\ i + 1 # None
    <3>1. devs[i].address = 0 /\ i \in Unnamed /\ Resets = {}
      BY <1>0, <1>2, <2>1 DEF PoolOk, Stages, Unnamed, Alone
    <3> QED BY <3>1, Numbers
  <2>3. Resets' = {} /\ Busy' \subseteq Busy /\ (acted => Busy' = {})
    <3>1. Resets' = {}
      BY <2>1, <2>2 DEF Resets
    <3>2. \A p \in Busy' : port'[p].address = 0 /\ ~acted /\ port[p].address = 0
      BY <2>1, <2>2, <3>1 DEF Busy, Resets
    <3> QED BY <3>1, <3>2 DEF Busy
  <2>4. Naming' /\ devs'[task'.idx].address # 0 => Busy' = {}
    BY <2>1, <2>2, <2>3 DEF Naming
  <2>5. raddr' \notin {0, None} =>
            \/ raddr \notin {0, None}
            \/ \A p \in Ports : devs[0].child[p] = 0
    <3>1. SUFFICES ASSUME raddr' \notin {0, None}, raddr \in {0, None} PROVE \A p \in Ports : devs[0].child[p] = 0
      OBVIOUS
    <3>2. raddr = 0
      BY <2>1, <3>1
    <3>3. devs[0].address = 0
      BY <1>2, <3>2 DEF PoolOk, HubKnown
    <3> QED BY <1>2, <3>3 DEF Held
  <2>6. root'.device # None /\ raddr' \notin {0, None} =>
          \A p \in Ports : port'[p].c_connection \/ ~port'[p].present => devs'[0].child[p] = 0
    BY <1>1, <1>2, <2>1, <2>5 DEF Held
  <2>7. root'.device # None /\ devs'[0].address = 0 => \A p \in Ports : devs'[0].child[p] = 0
    <3>1. devs'[0].address = 0 => devs[0].address = 0
      BY <1>1, <2>1, <2>2
    <3> QED BY <1>1, <1>2, <2>1, <3>1 DEF Held
  <2>8. \A p, q \in Busy' : p = q
    BY <2>3 DEF Held
  <2>9. Busy' # {} => root'.addr0_exists
    BY <2>1, <2>3 DEF Held
  <2>10. task'.at # "clear-reset"
    BY <2>1
  <2> QED BY <2>3, <2>4, <2>6, <2>7, <2>8, <2>9, <2>10 DEF Held
<1>5. CASE Configure
  <2>1. /\ UNCHANGED <<cable, raddr, port>> /\ task.at = "configure" /\ SameTree /\ root'.device = root.device
        /\ NextDevice \/ (task'.at = "failed" /\ task'.idx = i)
    BY <1>0, <1>5, ConfigureDoes
  <2>2. task'.at \in {"root", "device", "failed"}
    BY <2>1, NextPlace DEF HubTypes
  <2>3. Busy' = Busy /\ Resets' = Resets
    BY <2>1 DEF Busy, Resets
  <2>4. Busy = {}
    BY <1>0, <2>1 DEF Naming, Held, PoolOk, Stages, Current
  <2> QED BY <1>1, <2>1, <2>2, <2>3, <2>4, HeldGoesOn DEF SameTree
<1>6. CASE RootFailed
  <2>1. /\ UNCHANGED <<devs, cable, raddr, port>> /\ NextDevice /\ root'.device = root.device
        /\ root'.addr0_exists <=> root.addr0_exists
    BY <1>6, RootFailedDoes
  <2>2. SameTree /\ task'.at \in {"root", "device"}
    BY <2>1, NextPlace DEF SameTree, HubTypes
  <2>3. ~Naming'
    BY <2>2 DEF Naming
  <2> QED BY <2>1, <2>2, <2>3, HeldRests
<1>7. CASE PortFailed
  <2> DEFINE p == devs[i].parent_port
  <2>1. PICK acted \in BOOLEAN :
           /\ UNCHANGED <<cable, raddr>> /\ NextDevice
           /\ task.at = "failed" /\ ~devs[i].is_root
           /\ devs' = Disconnected(devs, i) /\ root' = Unlock(root, i)
           /\ acted => Listeners(devs[devs[i].parent].address) # {}
           /\ IF acted THEN ResetPort(p) ELSE UNCHANGED port
           /\ port[p].present /\ devs[i].address = 0 => "unlocked" \in mishaps'
    BY <1>0, <1>7, PortFailedDoes
  <2>2. i # 0 /\ ~Freeing /\ Naming
    BY <1>0, <1>1, <1>2, <2>1, CurrentPlace DEF Naming
  <2>3. devs[i].parent = 0 /\ p \in Ports /\ devs[0].child[p] = i /\ devs[0].address # 0
    BY <1>2, <2>2 DEF PoolOk, Forest
  <2>4. /\ devs'[0] = devs[0] /\ root'.device = root.device
        /\ root' = root \/ devs[i].address = 0
    BY <2>1, <2>2, ChildFreed
  <2>5. task'.at \in {"root", "device"} /\ ~Naming'
    <3>1. task'.at \in {"root", "device"}
      BY <2>1, NextPlace DEF HubTypes
    <3> QED BY <3>1 DEF Naming
  <2>6. Resets = {} /\ root.addr0_exists
    BY <2>1, <2>2 DEF PoolOk, Alone, Lock
  <2>7. acted => raddr \notin {0, None}
    BY <2>1, <2>3, HubAnswers DEF PoolOk
  <2>8. \A r \in Ports : /\ port'[r].address = port[r].address
                         /\ port'[r].present <=> port[r].present
                         /\ port'[r].c_reset <=> port[r].c_reset
                         /\ port'[r].c_connection <=> port[r].c_connection
                         /\ port'[r].resetting => port[r].resetting \/ (r = p /\ acted /\ port[p].present)
    <3>1. CASE acted
      <4>1. ResetPort(p) /\ port \in [Ports -> PortType]
        BY <2>1, <3>1 DEF HubTypes
      <4> HIDE DEF p
      <4> QED BY <3>1, <4>1, ResetPortDoes DEF SamePort
    <3>2. CASE ~acted
      BY <2>1, <3>2
    <3> QED BY <3>1, <3>2
  <2> HIDE DEF p
  <2>9. root'.device # None /\ raddr' \notin {0, None} =>
            \A r \in Ports : port'[r].c_connection \/ ~port'[r].present => devs'[0].child[r] = 0
    BY <2>1, <2>4, <2>8 DEF Held
  <2>10. root'.device # None /\ devs'[0].address = 0 => \A r \in Ports : devs'[0].child[r] = 0
    BY <2>3, <2>4
  <2>11. \A r \in Resets' : r = p /\ acted /\ port'[r].present /\ port[p].present
    BY <2>6, <2>8 DEF Resets
  <2>12. CASE devs[i].address = 0
    <3>1. ~port[p].present
      BY <2>1, <2>12
    <3>2. raddr \in {0, None}
      BY <1>2, <2>2, <2>3, <3>1 DEF Held
    <3>3. ~acted /\ \A r \in Ports : Quiet(r)
      BY <2>7, <3>2 DEF PoolOk, HubKnown
    <3>4. \A r \in Ports : Quiet(r)'
      BY <2>8, <3>3 DEF Quiet
    <3> QED BY <2>1, <2>10, <3>2, <3>4, HeldQuiet
  <2>13. CASE devs[i].address # 0
    <3>1. Busy = {} /\ root' = root
      BY <1>0, <2>2, <2>4, <2>13 DEF Held
    <3>2. Busy' \subseteq {p}
      BY <2>8, <3>1 DEF Busy
    <3>3. task'.at # "clear-reset"
      BY <2>5
    <3> QED BY <2>5, <2>6, <2>9, <2>10, <2>11, <3>1, <3>2, <3>3 DEF Held
  <2> QED BY <2>12, <2>13
<1> QED BY <1>3, <1>4, <1>5, <1>6, <1>7 DEF Enumeration

(* The hub: a device is taken off its port before the port is reset.        *)
LEMMA HeldHub == ASSUME HubTypes, PoolOk, Held, Hub PROVE Held'
<1>1. task.at \in HubTask /\ 0 \in Idx
  BY Numbers DEF Hub, HubTask, HubDone, HubStatus, HubReset, HubClearConnection, HubClearReset
<1>2. task.idx = 0 /\ devs[0].connected /\ devs[0].address # 0 /\ root.device = 0 /\ root.device # None
  BY <1>1, HubPlace, Numbers
<1>3. CASE HubDone
  <2>1. /\ UNCHANGED <<root, cable, raddr, port>> /\ NextDevice /\ SameTree
    BY <1>3, HubDoneDoes
  <2>2. task'.at \in {"root", "device"}
    BY <2>1, NextPlace DEF HubTypes
  <2>3. ~Naming'
    BY <2>2 DEF Naming
  <2> QED BY <2>1, <2>2, <2>3, HeldRests
<1>4. CASE HubStatus
  <2>1. UNCHANGED <<cable, raddr, port>> /\ task'.at \in HubTask
    BY <1>4, HubStatusDoes DEF HubTask
  <2>2. ~Naming'
    BY <2>1 DEF Naming, HubTask
  <2>3. ASSUME UNCHANGED <<root, devs>>,
               task'.at = "clear-reset" => ~port[task'.port].c_connection
        PROVE  Held'
    <3>1. SameTree
      BY <2>3 DEF SameTree
    <3> QED BY <2>1, <2>2, <2>3, <3>1, HeldRests
  <2>4. ASSUME Listeners(devs[0].address) # {}, NEW p \in Ports, port[p].c_connection
        PROVE  devs[0].child[p] = 0
    <3>1. raddr \notin {0, None}
      BY <1>2, <2>4, HubAnswers DEF PoolOk
    <3> QED BY <1>2, <2>4, <3>1 DEF Held
  <2>5. CASE task'.at = "hub" /\ UNCHANGED <<root, devs>>
    BY <2>3, <2>5
  <2>6. CASE UNCHANGED <<root, devs>> /\ task'.at = "clear-reset" /\ ~port[task'.port].c_connection
    BY <2>3, <2>6
  <2>7. ASSUME Listeners(devs[0].address) # {}, NEW p \in Ports, port[p].c_connection,
               devs[0].child[p] = 0 => UNCHANGED <<root, devs>>,
               task'.at \in {"hub", "clear-connection", "reset"}
        PROVE  Held'
    BY <2>3, <2>4, <2>7
  <2> QED BY <1>2, <1>4, <2>5, <2>6, <2>7, HubStatusDoes
<1>5. CASE HubReset
  <2>1. /\ UNCHANGED <<devs, cable, raddr>> /\ task.at = "reset"
        /\ task'.at = "clear-connection" /\ root'.device = root.device
        /\ \/ /\ root'.addr0_exists
              /\ \E acted \in BOOLEAN : /\ acted => Listeners(devs[task.idx].address) # {}
                                        /\ IF acted THEN ResetPort(task.port) ELSE UNCHANGED port
           \/ UNCHANGED <<root, port>>
    BY <1>5, HubResetDoes
  <2>2. Busy = {} /\ Resets = {}
    BY <2>1 DEF Held, PoolOk, Lock
  <2>3. ~Naming'
    BY <2>1 DEF Naming
  <2>4. CASE UNCHANGED port
    <3>1. Busy' = Busy /\ Resets' = Resets
      BY <2>4 DEF Busy, Resets
    <3> QED BY <2>1, <2>2, <2>3, <2>4, <3>1, HeldGoesOn
  <2>5. CASE root'.addr0_exists /\ ResetPort(task.port)
    <3>1. \A r \in Ports : /\ port'[r].address = port[r].address
                           /\ port'[r].present <=> port[r].present
                           /\ port'[r].c_reset <=> port[r].c_reset
                           /\ port'[r].c_connection <=> port[r].c_connection
                           /\ port'[r].resetting => port[r].resetting \/ (r = task.port /\ port[task.port].present)
      <4>1. port \in [Ports -> PortType]
        BY DEF HubTypes
      <4> QED BY <2>5, <4>1, ResetPortDoes DEF SamePort
    <3>2. Busy' \subseteq {task.port}
      BY <2>2, <3>1 DEF Busy
    <3>3. \A r \in Resets' : port'[r].present
      BY <2>2, <3>1 DEF Resets
    <3>4. \A r \in Ports : port'[r].c_connection \/ ~port'[r].present => port[r].c_connection \/ ~port[r].present
      BY <3>1
    <3>5. root'.device # None /\ raddr' \notin {0, None} =>
            \A r \in Ports : port'[r].c_connection \/ ~port'[r].present => devs'[0].child[r] = 0
      BY <2>1, <3>4 DEF Held
    <3> QED BY <1>2, <2>1, <2>3, <2>5, <3>2, <3>3, <3>5 DEF Held
  <2> QED BY <2>1, <2>4, <2>5
<1>6. CASE HubClearConnection
  <2>1. /\ UNCHANGED <<root, devs, cable, raddr>> /\ task'.at = "hub"
        /\ \A p \in Ports : /\ port'[p].address = port[p].address
                            /\ port'[p].present <=> port[p].present
                            /\ port'[p].c_reset <=> port[p].c_reset
                            /\ port'[p].resetting <=> port[p].resetting
                            /\ port'[p].c_connection => port[p].c_connection
    BY <1>6, HubClearConnectionDoes
  <2>2. Busy' = Busy /\ Resets' = Resets /\ ~Naming'
    BY <2>1 DEF Busy, Resets, Naming
  <2> QED BY <2>1, <2>2, HeldGoesOn
<1>7. CASE HubClearReset
  <2>1. PICK acted \in BOOLEAN :
        /\ UNCHANGED <<root, cable, raddr>> /\ task.at = "clear-reset" /\ task'.at = "hub"
        /\ acted => Listeners(devs[0].address) # {}
        /\ \A p \in Ports : /\ port'[p].address = port[p].address
                            /\ port'[p].present <=> port[p].present
                            /\ port'[p].c_connection <=> port[p].c_connection
                            /\ port'[p].resetting <=> port[p].resetting
                            /\ port'[p].c_reset => port[p].c_reset
        /\ UNCHANGED devs \/ (acted /\ device_pool_vacant # None /\ Assign(0, task.port))
    BY <1>2, <1>7, HubClearResetDoes
  <2>2. Busy' \subseteq Busy /\ Resets' \subseteq Resets /\ ~Naming' /\ task.port \in Ports
    BY <1>1, <2>1 DEF Busy, Resets, Naming, PoolOk, HubKnown
  <2>3. CASE UNCHANGED devs
    BY <2>1, <2>2, <2>3, HeldGoesOn
  <2>4. CASE acted /\ device_pool_vacant # None /\ Assign(0, task.port)
    <3>1. raddr \notin {0, None}
      BY <1>2, <2>1, <2>4, HubAnswers DEF PoolOk
    <3>2. task.port \in Resets
      BY <2>1, <2>2, <3>1 DEF PoolOk, HubKnown, Resets
    <3>3. ~port[task.port].c_connection /\ port[task.port].present
      BY <2>1, <3>1, <3>2 DEF Held
    <3>4. \A q \in Ports : devs'[0].child[q] = IF q = task.port THEN device_pool_vacant ELSE devs[0].child[q]
      <4>1. ~devs[device_pool_vacant].connected /\ devs \in [Idx -> DeviceType] /\ task.port \in Nat
        BY <2>4, FirstVacant DEF Vacant, HubTypes, TaskType
      <4> QED BY <1>1, <2>4, <4>1, Assigned
    <3>5. devs'[0].address = devs[0].address
      <4>1. ~devs[device_pool_vacant].connected /\ devs \in [Idx -> DeviceType] /\ task.port \in Nat
        BY <2>4, FirstVacant DEF Vacant, HubTypes, TaskType
      <4> QED BY <1>1, <2>4, <4>1, Assigned
    <3>6. root'.device # None /\ raddr' \notin {0, None} =>
            \A r \in Ports : port'[r].c_connection \/ ~port'[r].present => devs'[0].child[r] = 0
      BY <1>2, <2>1, <3>1, <3>3, <3>4 DEF Held
    <3>7. \A r \in Resets' : port'[r].present
      BY <2>1, <2>2 DEF Held, Resets
    <3>8. (\A p, q \in Busy' : p = q) /\ (Busy' # {} => root'.addr0_exists)
      BY <2>1, <2>2 DEF Held
    <3> QED BY <1>2, <2>1, <2>2, <3>5, <3>6, <3>7, <3>8 DEF Held
  <2> QED BY <2>1, <2>3, <2>4
<1> QED BY <1>3, <1>4, <1>5, <1>6, <1>7 DEF Hub

(* The bus, and the cables but for one pulled out of the hub.               *)
LEMMA HeldBus == ASSUME HubTypes, PoolOk, Held, "pulled" \notin mishaps',
                        RootPort \/ HubReport \/ pio_usb_get_in_data \/ HubPort \/ Cable
                 PROVE  Held'
<1>1. CASE RootPort
  <2>1. /\ UNCHANGED <<devs, task, cable, raddr, port>> /\ root'.device = root.device
        /\ root'.addr0_exists <=> root.addr0_exists
    BY <1>1, RootPortDoes
  <2>2. SameTree /\ (Naming' <=> Naming)
    BY <2>1 DEF SameTree, Naming
  <2> QED BY <2>1, <2>2, HeldRests
<1>2. CASE HubReport \/ pio_usb_get_in_data
  <2>1. UNCHANGED <<root, task, cable, raddr, port>> /\ SameTree
    BY <1>2, HubReportDoes, GetInDataDoes
  <2>2. task.idx \in Idx
    BY DEF HubTypes, TaskType
  <2>3. Naming' <=> Naming
    BY <2>1, <2>2 DEF SameTree, Naming
  <2> QED BY <2>1, <2>3, HeldRests
<1>3. CASE HubPort
  <2>1. PICK p \in Ports : /\ port[p].resetting /\ ~port'[p].resetting /\ port'[p].c_reset
                           /\ port'[p].present <=> port[p].present
                           /\ port'[p].c_connection <=> port[p].c_connection
                           /\ \A r \in Ports \ {p} : port'[r] = port[r]
    BY <1>3, HubPortDoes
  <2>2. UNCHANGED <<root, devs, task, cable, raddr>>
    BY <1>3, HubPortDoes
  <2>3. Busy' \subseteq Busy /\ Resets' \subseteq Resets /\ (Naming' <=> Naming)
    BY <2>1, <2>2 DEF Busy, Resets, Naming
  <2>4. \A r \in Ports : /\ port'[r].present <=> port[r].present
                         /\ port'[r].c_connection <=> port[r].c_connection
    BY <2>1
  <2>5. task.at = "clear-reset" => task.port \in Ports
    BY DEF PoolOk, HubKnown, HubTask
  <2>6. /\ Naming' /\ devs'[task'.idx].address # 0 => Busy' = {}
        /\ task'.at = "clear-reset" /\ raddr' \notin {0, None} => ~port'[task'.port].c_connection
    BY <2>2, <2>3, <2>4, <2>5 DEF Held
  <2> QED BY <2>2, <2>3, <2>4, <2>6, HeldGoesOn
<1>4. CASE PlugRoot
  <2>1. UNCHANGED <<root, devs, task, port>> /\ raddr' = None
    BY <1>4, PlugRootDoes
  <2>2. Busy' = Busy /\ Resets' = Resets /\ (Naming' <=> Naming)
    BY <2>1 DEF Busy, Resets, Naming
  <2>3. Naming' /\ devs'[task'.idx].address # 0 => Busy' = {}
    BY <2>1, <2>2 DEF Held
  <2> QED BY <2>1, <2>2, <2>3, HeldGoesOn
<1>5. CASE PlugPort
  <2>1. PICK p \in Ports : /\ ~port[p].present
                           /\ port'[p].present
                           /\ port'[p].address = port[p].address
                           /\ port'[p].c_reset <=> port[p].c_reset
                           /\ port'[p].resetting <=> port[p].resetting
                           /\ \A r \in Ports \ {p} : port'[r] = port[r]
    BY <1>5, PlugPortDoes
  <2>2. UNCHANGED <<root, devs, task, cable, raddr>>
    BY <1>5, PlugPortDoes
  <2>3. Busy' = Busy /\ Resets' = Resets /\ (Naming' <=> Naming) /\ p \notin Resets
    <3>1. p \notin Resets
      BY <2>1 DEF Held
    <3> QED BY <2>1, <2>2, <3>1 DEF Busy, Resets, Naming
  <2>4. root'.device # None /\ raddr' \notin {0, None} =>
            \A r \in Ports : port'[r].c_connection \/ ~port'[r].present => devs'[0].child[r] = 0
    BY <2>1, <2>2 DEF Held
  <2>5. task.at = "clear-reset" /\ raddr \notin {0, None} => ~port'[task.port].c_connection
    <3>1. SUFFICES ASSUME task.at = "clear-reset", raddr \notin {0, None} PROVE ~port'[task.port].c_connection
      OBVIOUS
    <3>2. task.port \in Ports /\ port[task.port].c_reset
      BY <3>1 DEF PoolOk, HubKnown, HubTask
    <3>3. task.port # p
      BY <2>3, <3>2 DEF Resets
    <3> QED BY <2>1, <3>1, <3>2, <3>3 DEF Held
  <2>6. \A r \in Resets' : port'[r].present
    BY <2>1, <2>3 DEF Held, Resets
  <2> QED BY <2>2, <2>3, <2>4, <2>5, <2>6 DEF Held
<1>6. CASE UnplugRoot
  <2>1. UNCHANGED <<root, devs>> /\ raddr' = None /\ \A p \in Ports : Quiet(p)'
    BY <1>6, UnplugRootDoes
  <2> QED BY <2>1, HeldQuiet DEF Held
<1>7. CASE UnplugPort
  BY <1>7, UnplugPortDoes
<1> QED BY <1>1, <1>2, <1>3, <1>4, <1>5, <1>6, <1>7 DEF Cable

(* The lock is held, step by step.                                          *)
LEMMA HeldStep == ASSUME HubTypes, Pass, PoolOk, Held, Next, Spared({"missed", "unlocked", "pulled"})' PROVE Held'
<1>1. "unlocked" \notin mishaps' /\ "pulled" \notin mishaps'
  BY DEF Spared
<1> QED BY <1>1, HeldRoot, HeldDeviceEvent, HeldEnumeration, HeldHub, HeldBus DEF Next, Task

-----------------------------------------------------------------------------
(* The invariant, and what it says of the properties that the runs check.   *)

(* The start: nothing plugged in, every place of the pool free.             *)
LEMMA InitHub == Init => HubInv
<1> SUFFICES ASSUME Init PROVE HubInv
  OBVIOUS
<1>1. /\ \A i \in Idx : devs[i] = ZeroDevice
      /\ \A p \in Ports : port[p] = EmptyPort
      /\ task = At("root", 0) /\ task.at = "root" /\ task.idx = 0
      /\ cable = "none" /\ raddr = None /\ mishaps = {}
  BY DEF Init, At
<1>2. /\ root.device = None /\ root.event = "NONE" /\ ~root.connected /\ ~root.addr0_exists
      /\ root \in RootType /\ 0 \in Idx /\ None # 0 /\ None \notin Idx
  BY Numbers DEF Init, RootType
<1>3. /\ ZeroDevice \in DeviceType /\ ~ZeroDevice.connected /\ ZeroDevice.event = "NONE"
      /\ ~ZeroDevice.armed /\ ~ZeroDevice.new_data /\ ~ZeroDevice.is_root /\ ZeroDevice.address = 0
  BY Numbers, HubAssumption DEF ZeroDevice, DeviceType, Addresses
<1>4. /\ EmptyPort \in PortType /\ EmptyPort.address = None /\ ~EmptyPort.resetting /\ ~EmptyPort.c_reset
      /\ ~EmptyPort.present
  BY DEF EmptyPort, PortType
<1>5. HubTypes
  <2>1. devs \in [Idx -> DeviceType] /\ port \in [Ports -> PortType]
    BY <1>3, <1>4 DEF Init
  <2>2. task \in TaskType
    BY <1>1, <1>2 DEF At, Places, TaskType
  <2>3. \A i \in Idx : devs[i].address \in {0, i + 1}
    BY <1>1, <1>3
  <2> QED BY <1>1, <1>2, <2>1, <2>2, <2>3 DEF HubTypes
<1>6. Pass
  BY <1>1, <1>2, <1>3 DEF Pass
<1>7. RootOk
  BY <1>1, <1>2, <1>3 DEF RootOk, Current
<1>8. Resets = {} /\ Unnamed = {} /\ Busy = {} /\ ~Naming /\ ~Freeing
  BY <1>1, <1>2, <1>3, <1>4 DEF Resets, Unnamed, Busy, Naming, Freeing
<1>9. RootKnown /\ Forest /\ HubKnown
  BY <1>1, <1>2, <1>3, <1>4, <1>8 DEF RootKnown, Forest, HubKnown, HubTask, Quiet
<1>10. Stages /\ Alone /\ Lock /\ Waiting
  BY <1>1, <1>2, <1>3, <1>4, <1>8 DEF Stages, Alone, Lock, Waiting, Current
<1>11. Held
  BY <1>1, <1>2, <1>8 DEF Held
<1> QED BY <1>5, <1>6, <1>7, <1>9, <1>10, <1>11 DEF HubInv, RootInv, PoolOk

(* A step that changes nothing.                                             *)
LEMMA StutterHub == ASSUME HubInv, UNCHANGED vars PROVE HubInv'
<1>1. UNCHANGED <<root, devs, task, cable, raddr, port, mishaps>>
  BY DEF vars
<1>2. Resets' = Resets /\ Unnamed' = Unnamed /\ Busy' = Busy
  BY <1>1 DEF Resets, Unnamed, Busy
<1>3. (Naming' <=> Naming) /\ (Current' <=> Current) /\ (Freeing' <=> Freeing)
  BY <1>1 DEF Naming, Current, Freeing
<1>4. /\ \A i : Ahead(i)' <=> Ahead(i)
      /\ \A a : Listeners(a)' = Listeners(a)
      /\ Given' = Given
      /\ \A p : Quiet(p)' <=> Quiet(p)
      /\ \A kinds : Spared(kinds)' <=> Spared(kinds)
  BY <1>1 DEF Ahead, Listeners, Given, Quiet, Spared
<1>5. HubTypes'
  BY <1>1 DEF HubInv, HubTypes
<1>6. Pass'
  BY <1>1, <1>4 DEF HubInv, RootInv, Pass
<1>7. Spared({"rootless"})' => RootOk'
  BY <1>1, <1>3, <1>4 DEF HubInv, RootInv, RootOk
<1>8. ASSUME PoolOk PROVE PoolOk'
  <2>1. RootKnown' /\ Forest' /\ HubKnown'
    BY <1>1, <1>3, <1>4, <1>8 DEF PoolOk, RootKnown, Forest, HubKnown
  <2>2. Stages' /\ Alone' /\ Lock' /\ Waiting'
    BY <1>1, <1>2, <1>3, <1>8 DEF PoolOk, Stages, Alone, Lock, Waiting
  <2> QED BY <2>1, <2>2 DEF PoolOk
<1>9. ASSUME Held PROVE Held'
  BY <1>1, <1>2, <1>3, <1>9 DEF Held
<1> QED BY <1>4, <1>5, <1>6, <1>7, <1>8, <1>9 DEF HubInv, RootInv

(* Every step keeps the pool, the ports and the lock in order.              *)
LEMMA StepHub == ASSUME HubInv, Next PROVE HubInv'
<1>1. HubTypes /\ RootInv /\ Pass
  BY DEF HubInv, RootInv
<1>2. HubTypes' /\ RootInv' /\ mishaps \subseteq mishaps'
  BY <1>1, TypesStep, RootStep, Grows
<1>3. ASSUME Spared({"missed", "unlocked"})' PROVE PoolOk'
  <2>1. PoolOk
    BY <1>2, <1>3, SparedBefore DEF HubInv
  <2> QED BY <1>1, <1>3, <2>1, PoolStep
<1>4. ASSUME Spared({"missed", "unlocked", "pulled"})' PROVE Held'
  <2>1. Spared({"missed", "unlocked", "pulled"})
    BY <1>2, <1>4, SparedBefore
  <2>2. Spared({"missed", "unlocked"})
    BY <2>1 DEF Spared
  <2>3. PoolOk /\ Held
    BY <2>1, <2>2 DEF HubInv
  <2> QED BY <1>1, <1>4, <2>3, HeldStep
<1> QED BY <1>2, <1>3, <1>4 DEF HubInv

(* The pool of the host, the ports of the hub and the lock on address 0     *)
(* agree, with requests that fail and cables that are moved at any time: in *)
(* every part up to the mishap that breaks it.                              *)
THEOREM HubInvariant == Spec => []HubInv
<1>1. Init => HubInv
  BY InitHub
<1>2. HubInv /\ [Next]_vars => HubInv'
  BY StepHub, StutterHub
<1> QED BY <1>1, <1>2, PTL DEF Spec

(* When a disconnection of the root port is handled, its device is known:   *)
(* the NULL pointer is not followed, until the port was connected without a *)
(* device once.                                                             *)
THEOREM RootDeviceTheorem == Spec => []RootDeviceKnown
<1>1. HubInv => RootDeviceKnown
  BY DEF HubInv, RootInv, RootOk, RootDeviceKnown
<1> QED BY <1>1, HubInvariant, PTL

(* When the root device has been taken off, whether it was pulled out or    *)
(* its enumeration failed, every place of the pool is free.                 *)
THEOREM AllFreedTheorem == Spec => []AllFreed
<1>1. HubInv => AllFreed
  <2> SUFFICES ASSUME PoolOk, task.at = "root", root.device = None PROVE Vacant = Idx
    BY DEF HubInv, AllFreed, Handled
  <2>1. ~Freeing
    BY DEF Freeing
  <2> QED BY <2>1 DEF PoolOk, Forest, Vacant
<1> QED BY <1>1, HubInvariant, PTL

(* Whoever listens on address 0 is the root device, with every port at      *)
(* rest, or the device behind the one port that is reset or enumerated.     *)
LEMMA OneListener == ASSUME HubTypes, PoolOk, Held, NEW x \in Listeners(0), NEW y \in Listeners(0)
                     PROVE  x = y
<1>1. ASSUME NEW z \in Listeners(0) PROVE (z = None /\ raddr = 0) \/ (z \in Ports /\ port[z].address = 0)
  <2>1. z \in {p \in Ports : port[p].address = 0} \/ (z = None /\ raddr = 0)
    <3>1. CASE cable # "none" /\ raddr = 0
      BY <1>1, <3>1 DEF Listeners
    <3>2. CASE ~(cable # "none" /\ raddr = 0)
      <4>1. Listeners(0) = {} \cup {p \in Ports : port[p].address = 0}
        BY <3>2 DEF Listeners
      <4> QED BY <1>1, <4>1
    <3> QED BY <3>1, <3>2
  <2> QED BY <2>1
<1>2. CASE raddr = 0
  <2>1. \A p \in Ports : port[p].address # 0
    BY <1>2, Numbers DEF PoolOk, HubKnown, Quiet
  <2> QED BY <1>1, <2>1
<1>3. CASE raddr # 0
  <2>1. x \in Busy /\ y \in Busy
    BY <1>1, <1>3 DEF Busy
  <2> QED BY <2>1 DEF Held
<1> QED BY <1>2, <1>3

(* One device at most listens on address 0.                                 *)
THEOREM Address0Theorem == Spec => []Address0Alone
<1>1. HubInv => Address0Alone
  <2> SUFFICES ASSUME HubInv, Spared({"missed", "unlocked", "pulled"}) PROVE Cardinality(Listeners(0)) <= 1
    BY DEF Address0Alone
  <2>1. HubTypes /\ PoolOk /\ Held
    BY DEF HubInv, Spared
  <2>2. Listeners(0) = {} \/ \E x \in Listeners(0) : Listeners(0) = {x}
    BY <2>1, OneListener
  <2>3. CASE Listeners(0) = {}
    BY <2>3, FS_EmptySet
  <2>4. ASSUME NEW x \in Listeners(0), Listeners(0) = {x} PROVE Cardinality(Listeners(0)) = 1
    BY <2>4, FS_Singleton
  <2> QED BY <2>2, <2>3, <2>4
<1> QED BY <1>1, HubInvariant, PTL

-----------------------------------------------------------------------------
(* The encoder and the decoder of the bus.                                  *)

USE DEF Symbol, usb_tx_dpdm, Level, AfterStuffing

(* The start: nothing sent, nothing received.                               *)
LEMMA InitInv == NrziInit => NrziInv
<1> SUFFICES ASSUME NrziInit PROVE NrziInv
  OBVIOUS
<1>1. NrziTypeOK
  <2>1. enc \in [current_state : {0, 1}, bit_stuffing : 0 .. 6] /\ dec \in [x : {0, 1}, y : 0 .. 6]
    BY DEF NrziInit
  <2>2. sent \in Seq({0, 1}) /\ received \in Seq({0, 1})
    BY EmptySeq DEF NrziInit
  <2> QED BY <2>1, <2>2 DEF NrziInit, NrziTypeOK
<1>2. Mirrored /\ Unsent /\ OnTheLine
  <2>1. lost \o received = << >>
    BY ConcatEmptySeq, EmptySeq DEF NrziInit
  <2> QED BY <2>1 DEF NrziInit, Mirrored, Unsent, OnTheLine
<1>3. StuffingPaid
  BY DEF NrziInit, StuffingPaid
<1> QED BY <1>1, <1>2, <1>3 DEF NrziInv

(* At most one bit is ever lost.                                            *)
LEMMA LostType == ASSUME NEW s \in {<< >>, << 0 >>} PROVE s \in Seq({0, 1})
<1>1. << >> \in Seq({0, 1}) /\ <<0>> \in Seq({0, 1})
  OBVIOUS
<1> QED BY <1>1

(* A bit goes on the line only when the decoder has caught up; for the first*)
(* one it may not be ready.                                                 *)
LEMMA EncodeBitInv == ASSUME NrziInv, NEW b \in {0, 1}, EncodeBit(b)
                      PROVE  NrziInv'
<1> USE DEF EncodeBit, Emit
<1>1. /\ enc.current_state \in {0, 1} /\ enc.bit_stuffing \in 1 .. 6
      /\ line = "sampled" /\ sent \in Seq({0, 1}) /\ emitted \in Nat
      /\ received \in Seq({0, 1}) /\ dec \in [x : {0, 1}, y : 0 .. 6] /\ noise \in BOOLEAN
      /\ lost \in {<< >>, <<0>>} /\ lost \in Seq({0, 1})
  <2>1. lost \in {<< >>, <<0>>}
    BY DEF NrziInv, NrziTypeOK
  <2>2. lost \in Seq({0, 1})
    BY ONLY <2>1, LostType
  <2> QED BY <2>1, <2>2 DEF NrziInv, NrziTypeOK
<1>2. /\ sent' = Append(sent, b) /\ emitted' = emitted + 1
      /\ UNCHANGED <<dec, received, lost, noise>>
      /\ b = 1 => /\ enc'.current_state = enc.current_state
                  /\ enc'.bit_stuffing = enc.bit_stuffing - 1
      /\ b = 0 => enc'.current_state = 1 - enc.current_state /\ enc'.bit_stuffing = 6
      /\ line' = (IF enc'.current_state = 1 THEN "J" ELSE "K")
      /\ enc' \in [current_state : {0, 1}, bit_stuffing : 0 .. 6]
  BY <1>1
<1>3. sent' \in Seq({0, 1}) /\ Len(sent') = Len(sent) + 1 /\ Len(sent) \in Nat
  BY <1>1, <1>2
<1>4. NrziTypeOK'
  BY <1>1, <1>2, <1>3 DEF NrziTypeOK
<1>5. ~noise' => Mirrored' /\ Unsent' /\ OnTheLine'
  <2> SUFFICES ASSUME ~noise PROVE Mirrored' /\ Unsent' /\ OnTheLine'
    BY <1>2
  <2>1. /\ dec.x = 1 - enc.current_state /\ sent = lost \o received
        /\ emitted > 0 => dec.y = enc.bit_stuffing
    BY <1>1 DEF NrziInv, Mirrored
  <2>2. CASE emitted = 0
    <3>1. sent = << >> /\ lost = << >> /\ received = << >> /\ b = 0
      <4>1. sent = << >> /\ lost = << >>
        BY <2>2 DEF NrziInv, Unsent
      <4>2. << >> \o received = received
        BY <1>1, ConcatEmptySeq
      <4> QED BY <2>1, <4>1, <4>2
    <3>2. /\ sent' = <<0>> /\ lost' = << >> /\ received' = << >>
          /\ dec'.x = enc'.current_state /\ enc'.bit_stuffing = 6 /\ emitted' = 1
          /\ dec' = dec
      BY <1>1, <1>2, <2>1, <2>2, <3>1
    <3>3. CASE dec.y = 0
      BY <1>2, <3>2, <3>3 DEF FirstDue, Mirrored, Unsent, OnTheLine
    <3>4. CASE dec.y # 0
      <4>1. dec'.y > 0
        BY <1>1, <3>2, <3>4
      <4>2. sent' = lost' \o Append(received', 0)
        <5>1. Append(<< >>, 0) = <<0>> /\ << >> \o <<0>> = <<0>>
          OBVIOUS
        <5> QED BY <3>2, <5>1
      <4>3. BitDue'
        BY <3>2, <4>1, <4>2 DEF BitDue
      <4> QED BY <1>2, <3>2, <4>3 DEF Mirrored, Unsent, OnTheLine
    <3> QED BY <3>3, <3>4
  <2>3. CASE emitted # 0
    <3>1. dec'.y > 0
      BY <1>1, <1>2, <2>1, <2>3
    <3>2. sent' = lost' \o Append(received', b)
      <4>1. Append(lost \o received, b) = (lost \o received) \o <<b>>
        BY <1>1, AppendIsConcat, ConcatProperties
      <4>2. (lost \o received) \o <<b>> = lost \o (received \o <<b>>)
        <5>1. <<b>> \in Seq({0, 1})
          OBVIOUS
        <5> QED BY <1>1, <5>1, ConcatAssociative
      <4>3. Append(received, b) = received \o <<b>>
        BY <1>1, AppendIsConcat
      <4> QED BY <1>2, <2>1, <4>1, <4>2, <4>3
    <3>3. b = 1 => dec'.x = 1 - enc'.current_state /\ dec'.y = enc'.bit_stuffing + 1
      BY <1>1, <1>2, <2>1, <2>3
    <3>4. b = 0 => dec'.x = enc'.current_state /\ enc'.bit_stuffing = 6
      BY <1>1, <1>2, <2>1
    <3>5. BitDue'
      BY <3>1, <3>2, <3>3, <3>4 DEF BitDue
    <3>6. emitted' > 0
      BY <1>1, <1>2
    <3> QED BY <1>2, <3>5, <3>6 DEF Mirrored, Unsent, OnTheLine
  <2> QED BY <2>2, <2>3
<1>6. StuffingPaid'
  <2>1. 6 * emitted + (6 - enc.bit_stuffing) <= 7 * Len(sent)
    BY DEF NrziInv, StuffingPaid
  <2>2. enc'.bit_stuffing >= enc.bit_stuffing - 1 /\ enc'.bit_stuffing \in 0 .. 6
    BY <1>1, <1>2
  <2>3. 6 * emitted' + (6 - enc'.bit_stuffing) <= 7 * Len(sent')
    BY <1>1, <1>2, <1>3, <2>1, <2>2, SMTT(30)
  <2> QED BY <2>3 DEF StuffingPaid
<1> QED BY <1>4, <1>5, <1>6 DEF NrziInv

(* A stuffed level: the decoder expects it, having counted the same ones.   *)
LEMMA EncodeStuffingInv == ASSUME NrziInv, EncodeStuffing PROVE NrziInv'
<1> USE DEF EncodeStuffing, Emit
<1>1. /\ enc.current_state \in {0, 1} /\ enc.bit_stuffing = 0 /\ line = "sampled"
      /\ sent \in Seq({0, 1}) /\ emitted \in Nat /\ Len(sent) \in Nat
      /\ received \in Seq({0, 1}) /\ dec \in [x : {0, 1}, y : 0 .. 6] /\ noise \in BOOLEAN
      /\ lost \in {<< >>, <<0>>}
  BY DEF NrziInv, NrziTypeOK
<1>2. /\ enc'.current_state = 1 - enc.current_state /\ enc'.bit_stuffing = 6
      /\ emitted' = emitted + 1 /\ UNCHANGED <<dec, received, sent, lost, noise>>
      /\ line' = (IF enc'.current_state = 1 THEN "J" ELSE "K")
      /\ enc' \in [current_state : {0, 1}, bit_stuffing : 0 .. 6]
  BY <1>1
<1>3. NrziTypeOK'
  BY <1>1, <1>2 DEF NrziTypeOK
<1>4. ~noise' => Mirrored' /\ Unsent' /\ OnTheLine'
  <2> SUFFICES ASSUME ~noise PROVE Mirrored' /\ Unsent' /\ OnTheLine'
    BY <1>2
  <2>1. emitted > 0
    BY <1>1 DEF NrziInv, Unsent
  <2>2. emitted' > 1
    BY <1>1, <1>2, <2>1
  <2>3. StuffingDue'
    BY <1>1, <1>2, <2>1, <2>2 DEF NrziInv, Mirrored, StuffingDue
  <2> QED BY <1>2, <2>2, <2>3 DEF Mirrored, Unsent, OnTheLine
<1>5. StuffingPaid'
  BY <1>1, <1>2 DEF NrziInv, StuffingPaid
<1> QED BY <1>3, <1>4, <1>5 DEF NrziInv

(* What the decoder makes of a level.                                       *)
LEMMA DecodedType == ASSUME NEW d \in [x : {0, 1}, y : 0 .. 6], NEW high \in BOOLEAN
                     PROVE  /\ Decoded(d, high).x \in {0, 1} /\ Decoded(d, high).y \in 0 .. 6
                            /\ Decoded(d, high).bit \in Seq({0, 1})
<1>1. CASE d.y = 0
  BY <1>1 DEF Decoded
<1>2. CASE d.y # 0 /\ (high <=> d.x = 0)
  <2>1. Decoded(d, high) = [x |-> 1 - d.x, y |-> 6, bit |-> <<0>>]
    BY <1>2 DEF Decoded
  <2>2. 1 - d.x \in {0, 1} /\ <<0>> \in Seq({0, 1})
    OBVIOUS
  <2> QED BY <2>1, <2>2
<1>3. CASE d.y # 0 /\ ~(high <=> d.x = 0)
  <2>1. Decoded(d, high) = [x |-> d.x, y |-> d.y - 1, bit |-> <<1>>]
    BY <1>3 DEF Decoded
  <2>2. d.x \in {0, 1} /\ d.y - 1 \in 0 .. 6 /\ <<1>> \in Seq({0, 1})
    BY <1>3
  <2> QED BY <2>1, <2>2
<1> QED BY <1>1, <1>2, <1>3

(* A level is sampled: the stuffed one is dropped, and the first one if the *)
(* decoder was left at 0; the others are bits.                              *)
LEMMA SampleInv == ASSUME NrziInv, Sample PROVE NrziInv'
<1> DEFINE d == Decoded(dec, line # "J")
<1>1. /\ enc \in [current_state : {0, 1}, bit_stuffing : 0 .. 6]
      /\ dec \in [x : {0, 1}, y : 0 .. 6] /\ line \in {"J", "K", "SE0"}
      /\ sent \in Seq({0, 1}) /\ received \in Seq({0, 1})
      /\ emitted \in Nat /\ noise \in BOOLEAN
      /\ lost \in {<< >>, <<0>>} /\ lost \in Seq({0, 1})
  BY LostType DEF NrziInv, NrziTypeOK, Sample
<1>2. /\ dec' = [x |-> d.x, y |-> d.y] /\ received' = received \o d.bit
      /\ line' = (IF line = "SE0" THEN "end" ELSE "sampled")
      /\ lost' = (IF emitted = 1 /\ dec.y = 0 THEN <<0>> ELSE lost)
      /\ UNCHANGED <<enc, sent, emitted, noise>>
  BY DEF Sample
<1>3. d.x \in {0, 1} /\ d.y \in 0 .. 6 /\ d.bit \in Seq({0, 1})
  BY <1>1, DecodedType
<1>4. NrziTypeOK'
  BY <1>1, <1>2, <1>3 DEF NrziTypeOK
<1>5. ~noise' => Mirrored' /\ Unsent' /\ OnTheLine'
  <2> SUFFICES ASSUME ~noise PROVE Mirrored' /\ Unsent' /\ OnTheLine'
    BY <1>2
  <2>1. CASE line = "SE0"
    BY <1>2, <2>1 DEF NrziInv, Mirrored, Unsent, OnTheLine
  <2>2. CASE line # "SE0"
    <3>1. line = Level(enc.current_state) /\ (StuffingDue \/ BitDue \/ FirstDue)
      BY <1>1, <2>2 DEF NrziInv, OnTheLine
    <3>2. (line # "J") <=> enc.current_state = 0
      BY <1>1, <3>1
    <3>3. emitted > 0
      BY <1>1, <2>2 DEF NrziInv, Unsent
    <3>4. CASE StuffingDue
      <4>1. d = [x |-> 1 - dec.x, y |-> 6, bit |-> << >>] /\ lost' = lost
        BY <1>2, <3>4 DEF StuffingDue, Decoded
      <4>2. received' = received
        BY <1>1, <1>2, <4>1
      <4>3. sent' = lost' \o received' /\ dec'.x = 1 - enc'.current_state /\ dec'.y = enc'.bit_stuffing
        <5>1. sent' = lost' \o received'
          BY <1>2, <3>4, <4>1, <4>2 DEF StuffingDue
        <5>2. dec'.x = d.x /\ dec'.y = d.y /\ enc' = enc
          BY <1>2
        <5>3. d.x = 1 - enc.current_state /\ d.y = enc.bit_stuffing
          BY <3>4, <4>1 DEF StuffingDue
        <5> HIDE DEF d
        <5> QED BY <5>1, <5>2, <5>3
      <4> QED BY <1>2, <2>2, <3>3, <4>3 DEF Mirrored, Unsent, OnTheLine
    <3>5. CASE BitDue
      <4>1. PICK b \in {0, 1} : /\ sent = lost \o Append(received, b)
                                /\ b = 1 => /\ dec.x = 1 - enc.current_state
                                            /\ dec.y = enc.bit_stuffing + 1
                                /\ b = 0 => /\ dec.x = enc.current_state
                                            /\ enc.bit_stuffing = 6
        BY <3>5 DEF BitDue
      <4>2. dec.y # 0 /\ lost' = lost
        BY <1>1, <1>2, <3>5 DEF BitDue
      <4>3. d = [x |-> IF b = 0 THEN 1 - dec.x ELSE dec.x,
                 y |-> IF b = 0 THEN 6 ELSE dec.y - 1, bit |-> <<b>>]
        <5>1. CASE b = 0
          <6>1. line # "J" <=> dec.x = 0
            BY <1>1, <3>2, <4>1, <5>1
          <6> QED BY <4>2, <5>1, <6>1 DEF Decoded
        <5>2. CASE b = 1
          <6>1. ~(line # "J" <=> dec.x = 0)
            BY <1>1, <3>2, <4>1, <5>2
          <6> QED BY <4>2, <5>2, <6>1 DEF Decoded
        <5> QED BY <5>1, <5>2
      <4>4. sent' = lost' \o received'
        <5>1. Append(received, b) = received \o <<b>>
          BY <1>1, AppendIsConcat
        <5>2. d.bit = <<b>>
          BY <4>3
        <5>3. received' = received \o d.bit /\ sent' = sent
          BY <1>2
        <5> HIDE DEF d
        <5> QED BY <4>1, <4>2, <5>1, <5>2, <5>3
      <4>5. dec'.x = 1 - enc'.current_state /\ dec'.y = enc'.bit_stuffing
        <5>1. dec'.x = d.x /\ dec'.y = d.y /\ enc' = enc
          BY <1>2
        <5> QED BY <1>1, <4>1, <4>3, <5>1
      <4> QED BY <1>2, <2>2, <3>3, <4>4, <4>5 DEF Mirrored, Unsent, OnTheLine
    <3>6. CASE FirstDue
      <4>1. d = [x |-> 1 - dec.x, y |-> 6, bit |-> << >>] /\ lost' = <<0>>
        BY <1>2, <3>6 DEF FirstDue, Decoded
      <4>2. received' = << >>
        BY <1>1, <1>2, <3>6, <4>1 DEF FirstDue
      <4>3. <<0>> \o << >> = <<0>>
        OBVIOUS
      <4>4. sent' = lost' \o received'
        BY <1>2, <3>6, <4>1, <4>2, <4>3 DEF FirstDue
      <4> QED BY <1>1, <1>2, <2>2, <3>3, <3>6, <4>1, <4>4 DEF FirstDue, Mirrored, Unsent, OnTheLine
    <3> QED BY <3>1, <3>4, <3>5, <3>6
  <2> QED BY <2>1, <2>2
<1>6. StuffingPaid'
  BY <1>2 DEF NrziInv, StuffingPaid
<1> QED BY <1>4, <1>5, <1>6 DEF NrziInv

(* The end of the packet, and noise, touch the line only.                   *)
LEMMA LineInv == ASSUME NrziInv, EncodeSE0 \/ Noise PROVE NrziInv'
  BY DEF NrziInv, EncodeSE0, Noise, NrziTypeOK, Mirrored, Unsent, OnTheLine, StuffingPaid

(* A step that changes nothing.                                             *)
LEMMA StutterInv == ASSUME NrziInv, UNCHANGED nrziVars PROVE NrziInv'
  BY DEF NrziInv, nrziVars, NrziTypeOK, Mirrored, Unsent, OnTheLine, StuffingDue, BitDue, FirstDue,
         StuffingPaid

(* The mirror of encoder and decoder is kept by every step of the bus.      *)
THEOREM NrziInvariant == NrziSpec => []NrziInv
<1>1. NrziInv /\ [NrziNext]_nrziVars => NrziInv'
  BY EncodeBitInv, EncodeStuffingInv, SampleInv, LineInv, StutterInv DEF NrziNext
<1> QED BY InitInv, <1>1, PTL DEF NrziSpec

(* Every register of the encoder and the decoder stays in range.            *)
THEOREM NrziTypeCorrect == NrziSpec => []NrziTypeOK
  BY NrziInvariant, PTL DEF NrziInv

(* On a clean line all the bits sent arrive, whatever they are, but for a   *)
(* first one that a decoder left at 0 drops: the stuffed ones are recognised*)
(* at both ends by the same count.                                          *)
THEOREM BitsTheorem == NrziSpec => []BitsArrive
<1>1. NrziInv => BitsArrive
  BY DEF NrziInv, Mirrored, BitsArrive
<1> QED BY NrziInvariant, <1>1, PTL

(* No packet overruns a buffer of bytes * 2 * 7 / 6 + 2.                     *)
THEOREM FitsTheorem == NrziSpec => []EncodedFits
<1>1. NrziInv => EncodedFits
  <2> SUFFICES ASSUME NrziInv, Len(sent) % 8 = 0 PROVE EncodedBytes <= (Bytes * 14) \div 6 + 2
    BY DEF EncodedFits
  <2>1. Len(sent) \in Nat /\ emitted \in Nat /\ enc.bit_stuffing \in 0 .. 6
    BY DEF NrziInv, NrziTypeOK
  <2>2. 6 * emitted <= 7 * Len(sent)
    BY <2>1 DEF NrziInv, StuffingPaid
  <2>3. Bytes \in Nat /\ Len(sent) = 8 * Bytes
    BY <2>1 DEF Bytes
  <2>4. 3 * emitted <= 28 * Bytes
    BY <2>1, <2>2, <2>3
  <2>5. EncodedBytes \in Nat /\ 4 * EncodedBytes <= emitted + 6
    BY <2>1 DEF EncodedBytes
  <2>6. 12 * EncodedBytes <= 28 * Bytes + 18
    BY <2>1, <2>3, <2>4, <2>5
  <2>7. 6 * ((Bytes * 14) \div 6) >= Bytes * 14 - 5 /\ (Bytes * 14) \div 6 \in Nat
    BY <2>3
  <2> QED BY <2>3, <2>5, <2>6, <2>7
<1> QED BY NrziInvariant, <1>1, PTL
=============================================================================
