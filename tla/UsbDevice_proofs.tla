-------------------------- MODULE UsbDevice_proofs --------------------------
(* Device mode, for every set of reads whose ends the library can show and  *)
(* any number of requests, reports and resets, in four layers: the types,   *)
(* without a condition; the reports, while the task has caught up before    *)
(* each setup and reset; the reads, while also no report is polled during a *)
(* request; the address, while also no reset falls into SET_ADDRESS.        *)
EXTENDS UsbDevice, TLAPS

Ints   == {"reset", "setup", "complete", "continue"}
Asked  == Requests \cup {NoRequest}
Stages == {"idle", "data-in", "data-out", "status-in", "status-out", "broken"}

(* Where the task has decided to go on with the next packet, and where it   *)
(* has done so and still has the flag that told it to.                      *)
Moving   == {"raise", "store-raised", "mark", "store-marked", "encode"}
Clearing == {"clear", "store-continue"}
Pcs == {"loop", "setup", "complete", "completed", "store-complete", "continue",
        "end", "store-ints", "desc", "line"} \cup Moving \cup Clearing

Ep     == Endpoint({0, REPORT_LEN, EP0_SIZE}, Nat, Asked)
TaskTypes == [pc : Pcs, ints : SUBSET Ints, e : {"in0", "key"}, reg : SUBSET (Ints \cup Endpoints)]
HostTypes == [addr : {0, 1}, req : Asked, stage : Stages, pid : {0, 1},
              got : Nat, key : {0, 1}, ready : BOOLEAN]

in0  == ep["in0"]
out0 == ep["out0"]
key  == ep["key"]

-----------------------------------------------------------------------------
(* The inductive invariants.                                                *)

Typed == /\ TypeOK /\ task \in TaskTypes /\ host \in HostTypes
         /\ \A e \in Endpoints : ep[e].data_id \in Pids
         /\ in0.actual_len <= in0.total_len /\ key.actual_len <= key.total_len

(* Which register the task holds a copy of.                                 *)
Held == /\ task.pc \in {"completed", "store-complete", "store-marked"} => task.reg \subseteq Endpoints
        /\ task.pc \in {"store-raised", "store-ints"} => task.reg \subseteq Ints
        /\ At("store-continue") => task.reg \subseteq {"in0", "key"}

TypesInv == Typed /\ Held

(* What the copies have to do with the registers, and the pass with the     *)
(* interrupts it began with.                                                *)
Pass == /\ At("loop") => task.ints = {}
        /\ "setup" \in ints => At("loop") \/ "setup" \in task.ints
        /\ task.pc \in {"desc", "line"} => "setup" \notin ints
        /\ task.pc \in Moving \cup Clearing => "continue" \in task.ints
        /\ At("store-raised") => task.reg \subseteq ints \cup {"complete"}
        /\ At("store-ints") => task.reg \subseteq ints \ task.ints
        /\ At("store-continue") => task.reg \subseteq ep_continue \ {task.e}
        /\ desc # NoRequest => task.pc \notin {"loop", "setup", "line"}

(* In a bus reset nothing is under way; after it endpoint 0 is there.       *)
Down == line = "SE0" => /\ host = NewHost /\ task.pc \in {"loop", "line"}
                        /\ ints = {} /\ ep_continue = {}

Up == line = "idle" => /\ in0.size = EP0_SIZE /\ in0.is_tx
                       /\ out0.size = EP0_SIZE /\ ~out0.is_tx

Kinds == /\ host.stage \in {"data-in", "status-out"} => host.req \in Reads
         /\ host.stage = "data-out" => host.req.kind = "report"
         /\ host.stage = "status-in" =>
               host.req.kind \in {"report", "address", "configure", "unit"}

(* A request the task has not seen yet, and a read it has put off.          *)
Pending  == \/ At("loop") /\ "setup" \in ints
            \/ At("setup") /\ "setup" \in task.ints
Deferred == desc # NoRequest

PendingInv == Pending => /\ host.stage \in {"data-in", "data-out", "status-in"}
                         /\ host.stage = "status-in" => host.req.kind # "report"
                         /\ setup_packet = host.req
                         /\ ~in0.has_transfer /\ ~out0.has_transfer

(* The status the host waits for is an empty packet, and never a read.      *)
Empty == host.stage \in {"data-out", "status-in"} =>
            /\ ~Deferred
            /\ in0.has_transfer => in0.total_len = 0 /\ in0.buffer.len = 0

(* The endpoint of the reports is there from the end of SET_CONFIGURATION,  *)
(* and follows the identifiers of the host.                                 *)
Configured == host.stage = "status-in" /\ host.req.kind = "configure" /\ ~Pending

KeyFresh == key.buffer.pid = host.key /\ heard = handed - 1
KeyTaken == key.buffer.pid # host.key /\ heard = handed

Configuration ==
    /\ host.stage # "idle" /\ host.req.kind = "configure" => ~host.ready
    /\ ~host.ready => host.key = 0
    /\ key.size = 0 => key = FreeEndpoint(NoRequest) /\ handed = 0 /\ heard = 0
    /\ key.size # 0 => key.size = REPORT_LEN /\ key.is_tx
    /\ line = "idle" => (key.size # 0 <=> host.ready \/ Configured)

(* Its flag is set, and its transfer moved on, only when the host has the   *)
(* report.                                                                  *)
Reports ==
    /\ line = "idle" =>
         IF key.has_transfer
         THEN /\ key.buffer.pid = DataPid(key) /\ key.total_len = REPORT_LEN
              /\ key.actual_len = 0 /\ (KeyFresh \/ KeyTaken)
         ELSE DataPid(key) = host.key /\ heard = handed
    /\ "key" \in ep_continue =>
         (key.has_transfer /\ KeyTaken) \/ (task.e = "key" /\ task.pc \in Clearing)
    /\ task.e = "key" /\ task.pc \in Moving => key.has_transfer /\ KeyTaken

ReportInv == /\ Pass /\ Down /\ Up /\ Kinds /\ PendingInv /\ Empty
             /\ Configuration /\ Reports /\ ReportsOnce

(* While a request waits for the task, which may put it off, endpoint 0 is  *)
(* silent.                                                                  *)
Waiting    == Pending \/ Deferred
Continuing == "continue" \in ints \cup task.ints

QuietInv == Pending => ints = {"setup"} /\ (At("setup") => task.ints = {"setup"})

Winding == {"continue", "end", "store-ints", "desc"}

DeferredInv == Deferred => host.stage = "data-in" /\ desc = host.req /\ task.pc \in Winding

WaitingInv == Waiting => /\ host.pid = 1 /\ host.got = 0 /\ in0.data_id = 1
                         /\ ~in0.has_transfer /\ ~out0.has_transfer /\ ~Continuing

(* The packet of a read that endpoint 0 has ready: the host waits for it,   *)
(* or has it and waits for the next.                                        *)
Serving == /\ in0.has_transfer /\ in0.total_len = Length(host.req)
           /\ in0.actual_len % EP0_SIZE = 0 /\ in0.app_buf = host.req
           /\ in0.buffer = [pid  |-> DataPid(in0), data |-> host.req,
                            from |-> in0.actual_len, len |-> TransactionLen(in0)]

Fresh == host.pid = in0.buffer.pid /\ host.got = in0.actual_len
Taken == /\ host.pid # in0.buffer.pid /\ host.got = in0.actual_len + in0.buffer.len
         /\ ~LastPacket(in0, TransactionLen(in0))

DataIn == host.stage = "data-in" => Waiting \/ (Serving /\ (Fresh \/ Taken))

Moved == host.stage = "data-in" =>
           /\ task.e = "in0" /\ task.pc \in Moving => Serving /\ Taken
           /\ "in0" \in ep_continue /\ Continuing =>
                 (Serving /\ Taken) \/ (task.e = "in0" /\ task.pc \in Clearing)

(* Until the host polls for the status, the packet there is empty.          *)
Status == host.stage \in {"data-out", "status-in"} =>
            /\ host.pid = 1 /\ in0.data_id = 1 /\ ~Continuing
            /\ in0.has_transfer => in0.buffer.pid = 1

ReadInv == /\ QuietInv /\ DeferredInv /\ WaitingInv /\ DataIn /\ Moved /\ Status
           /\ ReadsHonest

(* The address is noted from the handling of SET_ADDRESS to its status.     *)
AddressInv == /\ AddressAgreed
              /\ new_devaddr = 1 =>
                    host.stage = "status-in" /\ host.req.kind = "address" /\ ~Pending
              /\ host.stage = "status-in" /\ host.req.kind = "address" /\ ~Pending =>
                    new_devaddr = 1 /\ in0.has_transfer

-----------------------------------------------------------------------------
(* The transfer functions, as far as the argument needs them.               *)

Slots == {e \in Ep : e.data_id \in Pids}

(* What a slot holds once a transfer of data has begun in it.               *)
Begun(e, f, data, len) ==
    /\ f \in Slots /\ f.has_transfer /\ f.data_id = e.data_id /\ f.size = e.size
    /\ f.is_tx = e.is_tx /\ f.total_len = len /\ f.actual_len = 0 /\ f.app_buf = data
    /\ e.is_tx => f.buffer = [pid |-> DataPid(e), data |-> data, from |-> 0,
                              len |-> IF len < e.size THEN len ELSE e.size]

(* A transfer begins in an idle slot, with its first packet encoded.        *)
LEMMA StartIdle == ASSUME NEW e \in Slots, ~e.has_transfer, NEW data \in Asked, NEW len \in Nat
                   PROVE  Begun(e, TransferStart(e, data, len), data, len)
<1> DEFINE fresh == [e EXCEPT !.app_buf = data, !.total_len = len, !.actual_len = 0,
                              !.transfer_started = FALSE, !.transfer_aborted = FALSE,
                              !.has_transfer = TRUE]
<1>1. /\ fresh \in Ep /\ fresh.has_transfer /\ fresh.data_id = e.data_id /\ fresh.size = e.size
      /\ fresh.is_tx = e.is_tx /\ fresh.total_len = len /\ fresh.actual_len = 0 /\ fresh.app_buf = data
  BY DEF Slots, Ep, Endpoint
<1>2. TransferStart(e, data, len) = IF e.is_tx THEN PrepareTx(fresh) ELSE fresh
  BY DEF TransferStart
<1> HIDE DEF fresh
<1>3. e.data_id \in Pids /\ e.size \in {0, REPORT_LEN, EP0_SIZE} /\ e.is_tx \in BOOLEAN
  BY DEF Slots, Ep, Endpoint
<1>4. DataPid(fresh) = DataPid(e) /\ DataPid(e) \in Pids
  BY <1>1 DEF DataPid, Pids
<1>5. TransactionLen(fresh) = IF len < e.size THEN len ELSE e.size
  BY <1>1, <1>3 DEF TransactionLen, EP0_SIZE, REPORT_LEN
<1>6. TransactionLen(fresh) \in Nat
  BY <1>3, <1>5 DEF EP0_SIZE, REPORT_LEN
<1> DEFINE packet == [pid |-> DataPid(e), data |-> data, from |-> 0, len |-> TransactionLen(fresh)]
<1>7. packet \in [pid : Pids, data : Asked, from : Nat, len : Nat]
  BY <1>4, <1>6
<1>8. PrepareTx(fresh) = [fresh EXCEPT !.buffer = packet]
  BY <1>1, <1>4 DEF PrepareTx
<1> HIDE DEF packet
<1>9. /\ PrepareTx(fresh) \in Ep /\ PrepareTx(fresh).has_transfer
      /\ PrepareTx(fresh).data_id = e.data_id /\ PrepareTx(fresh).size = e.size
      /\ PrepareTx(fresh).is_tx = e.is_tx /\ PrepareTx(fresh).total_len = len
      /\ PrepareTx(fresh).actual_len = 0 /\ PrepareTx(fresh).app_buf = data
      /\ PrepareTx(fresh).buffer = packet
  BY <1>1, <1>7, <1>8 DEF Ep, Endpoint
<1>10. packet = [pid |-> DataPid(e), data |-> data, from |-> 0,
                 len |-> IF len < e.size THEN len ELSE e.size]
  BY <1>5 DEF packet
<1> QED BY <1>1, <1>2, <1>3, <1>9, <1>10 DEF Begun, Slots

(* A transfer under way is left alone.                                      *)
LEMMA StartBusy == ASSUME NEW e, e.has_transfer = TRUE, NEW data, NEW len
                   PROVE  TransferStart(e, data, len) = e
BY DEF TransferStart

(* Where the next packet begins, with the other identifier; the last packet *)
(* ends the transfer.                                                       *)
Advanced(e, f, len) ==
    /\ f \in Slots /\ f.data_id = 1 - e.data_id /\ f.size = e.size /\ f.is_tx = e.is_tx
    /\ f.total_len = e.total_len /\ f.actual_len = e.actual_len + len /\ f.app_buf = e.app_buf
    /\ f.has_transfer = IF LastPacket(e, len) THEN FALSE ELSE e.has_transfer
    /\ ~LastPacket(e, len) /\ e.is_tx =>
          f.buffer = [pid |-> DataPid(f), data |-> f.app_buf, from |-> f.actual_len,
                      len |-> TransactionLen(f)]

(* A transfer goes on by one packet.                                        *)
LEMMA ContinueSlot == ASSUME NEW e \in Slots, NEW len \in Nat
                      PROVE  Advanced(e, TransferContinue(e, len), len)
<1> DEFINE moved == [e EXCEPT !.actual_len = @ + len, !.data_id = Flip(@)]
<1>1. Flip(e.data_id) = 1 - e.data_id /\ Flip(e.data_id) \in Pids
  BY DEF Flip, Slots, Pids
<1>2. /\ moved \in Ep /\ moved.data_id = 1 - e.data_id /\ moved.data_id \in Pids
      /\ moved.size = e.size /\ moved.is_tx = e.is_tx /\ moved.total_len = e.total_len
      /\ moved.actual_len = e.actual_len + len /\ moved.app_buf = e.app_buf
      /\ moved.has_transfer = e.has_transfer
  <2>1. moved = [e EXCEPT !.actual_len = e.actual_len + len, !.data_id = Flip(e.data_id)]
    BY DEF Slots, Ep, Endpoint
  <2>2. e.actual_len + len \in Nat /\ Flip(e.data_id) \in {0, 1, SETUP}
    BY <1>1 DEF Slots, Ep, Endpoint, Pids
  <2>3. moved \in Ep /\ moved.data_id = Flip(e.data_id)
    BY <2>1, <2>2 DEF Slots, Ep, Endpoint
  <2> QED BY <1>1, <2>1, <2>3 DEF Slots, Ep, Endpoint
<1>3. TransferContinue(e, len) = IF LastPacket(e, len) THEN TransferComplete(moved)
                                 ELSE IF e.is_tx THEN PrepareTx(moved) ELSE moved
  BY DEF TransferContinue
<1> HIDE DEF moved
<1>4. /\ moved.actual_len \in Nat /\ moved.total_len \in Nat /\ moved.app_buf \in Asked
      /\ moved.size \in {0, REPORT_LEN, EP0_SIZE} /\ moved.is_tx \in BOOLEAN
      /\ moved.has_transfer \in BOOLEAN
  BY <1>2 DEF Ep, Endpoint
<1>5. CASE LastPacket(e, len)
  <2> DEFINE f == TransferComplete(moved)
  <2>1. /\ f \in Ep /\ f.data_id = moved.data_id /\ f.size = moved.size /\ f.is_tx = moved.is_tx
        /\ f.total_len = moved.total_len /\ f.actual_len = moved.actual_len
        /\ f.app_buf = moved.app_buf /\ f.has_transfer = FALSE
    BY <1>2 DEF TransferComplete, Ep, Endpoint
  <2>2. TransferContinue(e, len) = f
    BY <1>3, <1>5
  <2> HIDE DEF f
  <2> QED BY <1>2, <1>5, <2>1, <2>2 DEF Advanced, Slots
<1>6. CASE ~LastPacket(e, len) /\ e.is_tx
  <2> DEFINE packet == [pid |-> DataPid(moved), data |-> moved.app_buf, from |-> moved.actual_len,
                        len |-> TransactionLen(moved)]
             f == [moved EXCEPT !.buffer = packet]
  <2>1. TransactionLen(moved) \in Nat
    <3>1. moved.actual_len < moved.total_len
      BY <1>2, <1>6 DEF LastPacket, Slots, Ep, Endpoint
    <3> QED BY <1>4, <3>1 DEF TransactionLen, EP0_SIZE, REPORT_LEN
  <2>2. packet \in [pid : Pids, data : Asked, from : Nat, len : Nat]
    BY <1>4, <2>1 DEF DataPid, Pids
  <2>3. TransferContinue(e, len) = f
    BY <1>3, <1>6 DEF PrepareTx
  <2> HIDE DEF packet
  <2>4. /\ f \in Ep /\ f.data_id = moved.data_id /\ f.size = moved.size /\ f.is_tx = moved.is_tx
        /\ f.total_len = moved.total_len /\ f.actual_len = moved.actual_len
        /\ f.app_buf = moved.app_buf /\ f.has_transfer = moved.has_transfer /\ f.buffer = packet
    BY <1>2, <2>2 DEF Ep, Endpoint
  <2> HIDE DEF f
  <2>5. packet = [pid |-> DataPid(f), data |-> f.app_buf, from |-> f.actual_len,
                  len |-> TransactionLen(f)]
    BY <2>4 DEF packet, DataPid, TransactionLen
  <2> QED BY <1>2, <1>6, <2>3, <2>4, <2>5 DEF Advanced, Slots
<1>7. CASE ~LastPacket(e, len) /\ ~e.is_tx
  BY <1>2, <1>3, <1>4, <1>7 DEF Advanced, Slots
<1> QED BY <1>5, <1>6, <1>7

(* A slot without a transfer, as a setup leaves it.                         *)
LEMMA RearmedSlot == ASSUME NEW e \in Slots
                     PROVE  /\ Rearmed(e) \in Slots /\ Rearmed(e).data_id = 1 /\ ~Rearmed(e).has_transfer
                            /\ Rearmed(e).size = e.size /\ Rearmed(e).is_tx = e.is_tx
                            /\ Rearmed(e).actual_len = e.actual_len /\ Rearmed(e).total_len = e.total_len
BY DEF Rearmed, Slots, Ep, Endpoint, Pids

(* Slots after memset.                                                      *)
LEMMA FreeSlot == /\ FreeEndpoint(NoRequest) \in Slots
                  /\ ControlEndpoint(TRUE) \in Slots /\ ControlEndpoint(FALSE) \in Slots
BY DEF FreeEndpoint, ControlEndpoint, Slots, Ep, Endpoint, Pids, Asked, EP0_SIZE, REPORT_LEN

(* What is read is within what the host asks for.                           *)
LEMMA ReadLength == ASSUME NEW r \in Reads
                    PROVE  /\ r.ask \in Nat /\ Length(r) \in Nat /\ 0 < Length(r) /\ Length(r) <= r.ask
                           /\ Length(r) = r.ask \/ Length(r) % EP0_SIZE # 0
                           /\ r.kind \in {"device", "config", "string", "hid"} /\ r \in Asked
<1>1. r.ask \in 1 .. 255 /\ r.kind \in {"device", "config", "string", "hid"}
  BY DeviceAssumption
<1>2. Length(r) \in 1 .. r.ask /\ (Length(r) = r.ask \/ Length(r) % EP0_SIZE # 0)
  BY DeviceAssumption
<1> QED BY <1>1, <1>2 DEF Asked, Requests

-----------------------------------------------------------------------------
(* The types.                                                               *)

(* The types of everything but the endpoint pool, and of the pool.          *)
Others == /\ dev_addr \in {0, 1} /\ new_devaddr \in {0, 1}
          /\ ints \subseteq Ints /\ ep_complete \subseteq Endpoints /\ ep_continue \subseteq {"in0", "key"}
          /\ setup_packet \in Asked /\ desc \in Reads \cup {NoRequest}
          /\ stage \in {"NONE", "DATA", "STATUS", "COMPLETE"}
          /\ line \in {"idle", "SE0"} /\ handed \in 0 .. MaxReports /\ heard \in Nat
          /\ task \in TaskTypes /\ host \in HostTypes

Pool == /\ ep \in [Endpoints -> Slots]
        /\ in0.actual_len <= in0.total_len /\ key.actual_len <= key.total_len

(* The types in these two parts, before and after a step.                   *)
LEMMA TypesSplit == TypesInv <=> Pool /\ Others /\ Held
<1>1. TypesInv => Pool /\ Others /\ Held
  <2> SUFFICES ASSUME TypesInv PROVE Pool /\ Others /\ Held
    OBVIOUS
  <2>1. ep \in [Endpoints -> Slots]
    BY DEF TypesInv, Typed, TypeOK, Slots, Ep, Asked
  <2> QED BY <2>1 DEF Pool, Others, TypesInv, Typed, TypeOK, Ints, Asked
<1>2. ASSUME Pool, Others, Held PROVE TypesInv
  <2>1. ep \in [Endpoints -> Ep] /\ \A e \in Endpoints : ep[e].data_id \in Pids
    BY <1>2 DEF Pool, Slots
  <2>2. host.stage \in Stages
    BY <1>2 DEF Others, HostTypes
  <2> QED BY <1>2, <2>1, <2>2 DEF TypesInv, Typed, TypeOK, Pool, Others, Ep, Asked, Ints, Stages
<1> QED BY <1>1, <1>2

LEMMA TypesSplitNext == TypesInv' <=> Pool' /\ Others' /\ Held'
<1>1. TypesInv' => Pool' /\ Others' /\ Held'
  <2> SUFFICES ASSUME TypesInv' PROVE Pool' /\ Others' /\ Held'
    OBVIOUS
  <2>1. ep' \in [Endpoints -> Slots]
    BY DEF TypesInv, Typed, TypeOK, Slots, Ep, Asked
  <2> QED BY <2>1 DEF Pool, Others, TypesInv, Typed, TypeOK, Ints, Asked
<1>2. ASSUME Pool', Others', Held' PROVE TypesInv'
  <2>1. ep' \in [Endpoints -> Ep] /\ \A e \in Endpoints : ep'[e].data_id \in Pids
    BY <1>2 DEF Pool, Slots
  <2>2. host'.stage \in Stages
    BY <1>2 DEF Others, HostTypes
  <2> QED BY <1>2, <2>1, <2>2 DEF TypesInv, Typed, TypeOK, Pool, Others, Ep, Asked, Ints, Stages
<1> QED BY <1>1, <1>2

(* Every slot has its type, however it is reached.                          *)
LEMMA SlotTypes == ASSUME Pool PROVE in0 \in Slots /\ out0 \in Slots /\ key \in Slots
BY DEF Pool, Endpoints, in0, out0, key

(* At first nothing is known, on either side.                               *)
LEMMA TypesInit == Init => TypesInv
<1> SUFFICES ASSUME Init PROVE TypesInv
  OBVIOUS
<1>1. \A e \in Endpoints : ep[e] = FreeEndpoint(NoRequest)
  BY DEF Init
<1>2. in0 = FreeEndpoint(NoRequest) /\ key = FreeEndpoint(NoRequest)
  BY <1>1 DEF in0, key, Endpoints
<1>3. FreeEndpoint(NoRequest).actual_len = 0 /\ FreeEndpoint(NoRequest).total_len = 0
  BY DEF FreeEndpoint
<1>4. ep \in [Endpoints -> Slots]
  BY FreeSlot DEF Init
<1>5. Pool
  BY <1>2, <1>3, <1>4 DEF Pool
<1>6. host \in HostTypes /\ task \in TaskTypes
  BY DEF Init, HostTypes, NewHost, Asked, Stages, TaskTypes, Pcs, Ints
<1>7. Others
  BY <1>6, DeviceAssumption DEF Init, Others, Asked
<1>8. Held
  BY DEF Init, Held, At
<1> QED BY <1>5, <1>7, <1>8, TypesSplit

(* The task at another place, with another register.                        *)
LEMMA TaskUpdate == ASSUME task \in TaskTypes, NEW pc \in Pcs, NEW reg \in SUBSET (Ints \cup Endpoints)
                    PROVE  LET t == [task EXCEPT !.pc = pc, !.reg = reg]
                           IN  /\ t \in TaskTypes /\ t.pc = pc /\ t.reg = reg
                               /\ t.ints = task.ints /\ t.e = task.e
BY DEF TaskTypes

(* Loads: what the register holds is loaded.                                *)
LEMMA LoadTypes == ASSUME Others, Held, TaskLoad PROVE Others' /\ Held'
<1>1. UNCHANGED <<ints, ep_complete, ep_continue, setup_packet, stage, desc, dev_addr, new_devaddr,
                  host, line, handed, heard>>
  BY DEF TaskLoad, registers, outside
<1>2. /\ task \in TaskTypes /\ task.e \in {"in0", "key"} /\ ints \subseteq Ints
      /\ ep_complete \subseteq Endpoints /\ ep_continue \subseteq {"in0", "key"}
  BY DEF Others, TaskTypes
<1>3. ASSUME NEW pc \in Pcs, NEW reg \in SUBSET (Ints \cup Endpoints), Goto(pc, reg),
             pc \in {"store-complete", "store-marked"} => reg \subseteq Endpoints,
             pc \in {"store-raised", "store-ints"} => reg \subseteq Ints,
             pc = "store-continue" => reg \subseteq {"in0", "key"}, pc # "completed"
      PROVE  Others' /\ Held'
  <2>1. task' \in TaskTypes /\ task'.pc = pc /\ task'.reg = reg
    BY <1>2, <1>3, TaskUpdate DEF Goto
  <2> QED BY <1>1, <1>3, <2>1 DEF Others, Held, At
<1>4. CASE At("completed") /\ Goto("store-complete", ep_complete \ task.reg)
  BY <1>2, <1>3, <1>4 DEF Pcs
<1>5. CASE At("raise") /\ Goto("store-raised", ints \cup {"complete"})
  BY <1>2, <1>3, <1>5 DEF Pcs, Moving, Ints
<1>6. CASE At("mark") /\ Goto("store-marked", ep_complete \cup {task.e})
  BY <1>2, <1>3, <1>6 DEF Pcs, Moving, Endpoints
<1>7. CASE At("clear") /\ Goto("store-continue", ep_continue \ {task.e})
  BY <1>2, <1>3, <1>7 DEF Pcs, Clearing, Endpoints
<1>8. CASE At("end") /\ Goto("store-ints", ints \ task.ints)
  BY <1>2, <1>3, <1>8 DEF Pcs
<1> QED BY <1>4, <1>5, <1>6, <1>7, <1>8 DEF TaskLoad

(* The other steps on registers.                                            *)
LEMMA RegisterTypes == ASSUME TypesInv, TaskBegin \/ TaskLoad \/ TaskStore \/ TaskContinue
                       PROVE  TypesInv'
<1>1. UNCHANGED <<ep, setup_packet, stage, desc, dev_addr, new_devaddr, host, line, handed, heard>>
  BY DEF TaskBegin, TaskLoad, TaskStore, TaskContinue, outside
<1>2. Pool /\ Others /\ Held
  BY TypesSplit
<1>3. Pool'
  BY <1>1, <1>2 DEF Pool, in0, key
<1>4. task \in TaskTypes /\ task.reg \subseteq Ints \cup Endpoints
  BY <1>2 DEF Others, TaskTypes
<1>5. CASE TaskBegin
  <2>1. task' = [task EXCEPT !.pc = "setup", !.ints = ints] /\ UNCHANGED <<ints, ep_complete, ep_continue>>
    BY <1>5 DEF TaskBegin, registers
  <2>2. task' \in TaskTypes /\ task'.pc = "setup"
    BY <1>2, <2>1 DEF Others, TaskTypes, Pcs
  <2> QED BY <1>1, <1>2, <1>3, <2>1, <2>2, TypesSplitNext DEF Others, Held, At
<1>6. CASE TaskLoad
  BY <1>2, <1>3, <1>6, LoadTypes, TypesSplitNext
<1>7. CASE TaskStore
  <2>1. \/ task' = [task EXCEPT !.pc = "continue"]
        \/ task' = [task EXCEPT !.pc = "mark"]
        \/ task' = NextEndpoint
        \/ task' = [task EXCEPT !.pc = "desc"]
    BY <1>7 DEF TaskStore
  <2>2. task' \in TaskTypes /\ task'.pc \in {"continue", "mark", "desc", "end"}
    BY <1>4, <2>1 DEF NextEndpoint, TaskTypes, Pcs, Moving
  <2>3. /\ ints' = ints \/ ints' \subseteq Ints
        /\ ep_complete' = ep_complete \/ ep_complete' \subseteq Endpoints
        /\ ep_continue' = ep_continue \/ ep_continue' \subseteq {"in0", "key"}
    BY <1>2, <1>7 DEF TaskStore, Held, At
  <2> QED BY <1>1, <1>2, <1>3, <2>2, <2>3, TypesSplitNext DEF Others, Held, At
<1>8. CASE TaskContinue
  <2>1. /\ UNCHANGED <<ints, ep_complete, ep_continue>>
        /\ \/ task' = NextEndpoint
           \/ task' = [task EXCEPT !.pc = "raise"]
           \/ task' = [task EXCEPT !.pc = "encode"]
    BY <1>8 DEF TaskContinue, registers
  <2>2. task' \in TaskTypes /\ task'.pc \in {"continue", "end", "raise", "encode"}
    BY <1>4, <2>1 DEF NextEndpoint, TaskTypes, Pcs, Moving
  <2> QED BY <1>1, <1>2, <1>3, <2>1, <2>2, TypesSplitNext DEF Others, Held, At
<1> QED BY <1>5, <1>6, <1>7, <1>8

-----------------------------------------------------------------------------
(* The types where transfers begin and go on.                               *)

(* A transfer on the IN side of endpoint 0: one under way stays.            *)
Started(data, len) == IF in0.has_transfer THEN in0' = in0 ELSE Begun(in0, in0', data, len)

(* The OUT side: left alone, or begun.                                      *)
OutSide(f) == f = out0 \/ \E data \in Asked, len \in Nat : f = TransferStart(out0, data, len)

(* What both functions that prepare endpoint 0 have in common.              *)
Prepared(data, len) == /\ Pool' /\ Started(data, len) /\ key' = key
                       /\ out0'.size = out0.size /\ out0'.is_tx = out0.is_tx

(* They begin transfers on both sides and leave the other endpoint alone.   *)
LEMMA PrepareBoth ==
    ASSUME Pool, NEW data \in Asked, NEW len \in Nat, NEW f, OutSide(f),
           ep' = [ep EXCEPT !["in0"] = TransferStart(in0, data, len), !["out0"] = f]
    PROVE  Prepared(data, len)
<1>1. in0 \in Slots /\ out0 \in Slots /\ key \in Slots
  BY DEF Pool, Endpoints, in0, out0, key
<1>2. /\ in0' = TransferStart(in0, data, len) /\ key' = key /\ out0' = f
      /\ DOMAIN ep' = Endpoints /\ ep' = [e \in Endpoints |-> ep'[e]]
  BY DEF Pool, Endpoints, in0, out0, key
<1>3. in0.has_transfer \in BOOLEAN /\ out0.has_transfer \in BOOLEAN
  BY <1>1 DEF Slots, Ep, Endpoint
<1>4. Started(data, len) /\ in0' \in Slots /\ in0'.actual_len <= in0'.total_len
  <2>1. CASE in0.has_transfer = TRUE
    BY <1>1, <1>2, <2>1, StartBusy DEF Started, Pool
  <2>2. CASE ~in0.has_transfer
    BY <1>1, <1>2, <2>2, StartIdle DEF Started, Begun
  <2> QED BY <1>3, <2>1, <2>2
<1>5. out0' \in Slots /\ out0'.size = out0.size /\ out0'.is_tx = out0.is_tx
  <2>1. CASE f = out0
    BY <1>1, <1>2, <2>1
  <2>2. ASSUME NEW d \in Asked, NEW n \in Nat, f = TransferStart(out0, d, n)
        PROVE  f \in Slots /\ f.size = out0.size /\ f.is_tx = out0.is_tx
    <3>1. CASE out0.has_transfer = TRUE
      BY <1>1, <2>2, <3>1, StartBusy
    <3>2. CASE ~out0.has_transfer
      <4>1. Begun(out0, f, d, n)
        BY <1>1, <2>2, <3>2, StartIdle
      <4> QED BY <4>1 DEF Begun
    <3> QED BY <1>3, <3>1, <3>2
  <2> QED BY <1>2, <2>1, <2>2 DEF OutSide
<1>6. \A e \in Endpoints : ep'[e] \in Slots
  BY <1>1, <1>2, <1>4, <1>5 DEF Endpoints, in0, out0, key
<1>7. ep' \in [Endpoints -> Slots]
  BY <1>2, <1>6
<1> QED BY <1>2, <1>4, <1>5, <1>7 DEF Pool, Prepared

(* Data for the host, with the status that ends it.                         *)
LEMMA PrepareData ==
    ASSUME Pool, NEW data \in Asked, NEW len \in Nat, ep' = prepare_ep0_data(data, len)
    PROVE  Prepared(data, len)
<1> DEFINE f == IF len > 0 THEN TransferStart(out0, NoRequest, 0) ELSE out0
<1>1. OutSide(f)
  BY DEF OutSide, Asked
<1>2. ep' = [ep EXCEPT !["in0"] = TransferStart(in0, data, len), !["out0"] = f]
  BY DEF Pool, Endpoints, prepare_ep0_data, in0, out0
<1> HIDE DEF f
<1> QED BY <1>1, <1>2, PrepareBoth

(* Data of the host: the status is prepared first.                          *)
LEMMA PrepareRx ==
    ASSUME Pool, NEW data \in Asked, NEW len \in Nat, ep' = prepare_ep0_rx(data, len)
    PROVE  Prepared(NoRequest, 0)
<1> DEFINE f == TransferStart(out0, data, len)
<1>1. OutSide(f) /\ NoRequest \in Asked
  BY DEF OutSide, Asked
<1>2. ep' = [ep EXCEPT !["in0"] = TransferStart(in0, NoRequest, 0), !["out0"] = f]
  BY DEF Pool, Endpoints, prepare_ep0_rx, in0, out0
<1> HIDE DEF f
<1> QED BY <1>1, <1>2, PrepareBoth

(* What endpoint 0 does about a request, and which one opens the endpoint   *)
(* of the reports.                                                          *)
Sizes == /\ in0'.size = in0.size /\ in0'.is_tx = in0.is_tx
         /\ out0'.size = out0.size /\ out0'.is_tx = out0.is_tx

Staged(r) ==
    \/ r \in Reads /\ Started(r, Length(r)) /\ UNCHANGED <<desc, new_devaddr>>
    \/ r \in Reads /\ desc' = r /\ UNCHANGED <<ep, new_devaddr>>
    \/ /\ r.kind \in {"address", "configure", "unit", "report"}
       /\ \E data \in Asked : Started(data, 0)
       /\ UNCHANGED desc
       /\ new_devaddr' = IF r.kind = "address" THEN 1 ELSE new_devaddr

Opened(r) == IF r.kind = "configure"
             THEN key' = [key EXCEPT !.size = REPORT_LEN, !.data_id = 0, !.is_tx = TRUE]
             ELSE key' = key

(* A request for a descriptor is among the reads of the host.               *)
LEMMA ReadRequest == ASSUME NEW r \in Asked, r.kind \in {"device", "config", "string", "hid"}
                     PROVE  r \in Reads /\ Length(r) \in Nat
<1>1. r \in Reads
  BY DEF Asked, Requests, NoRequest
<1> QED BY <1>1, ReadLength

(* The branches of process_device_setup_stage.                              *)
LEMMA SetupStage ==
    ASSUME Pool, Others, process_device_setup_stage(setup_packet)
    PROVE  Staged(setup_packet) /\ Opened(setup_packet) /\ Pool' /\ Sizes /\ UNCHANGED outside
<1> DEFINE r == setup_packet
<1>1. r \in Asked /\ NoRequest \in Asked /\ 0 \in Nat /\ REPORT_LEN \in Nat
  BY DEF Others, Asked, REPORT_LEN
<1>2. UNCHANGED outside
  BY DEF process_device_setup_stage, set_address
<1>3. ASSUME NEW data \in Asked, NEW len \in Nat, Prepared(data, len)
      PROVE  Started(data, len) /\ key' = key /\ Pool' /\ Sizes
  BY <1>3 DEF Prepared, Started, Begun, Sizes
<1>4. CASE r.kind = "device"
  <2>1. ep' = prepare_ep0_data(r, Length(r)) /\ UNCHANGED <<desc, new_devaddr>>
    BY <1>4 DEF process_device_setup_stage, set_address
  <2>2. r \in Reads /\ Length(r) \in Nat
    BY <1>1, <1>4, ReadRequest
  <2>3. Prepared(r, Length(r))
    BY <1>1, <2>1, <2>2, PrepareData
  <2> QED BY <1>1, <1>2, <1>3, <1>4, <2>1, <2>2, <2>3 DEF Staged, Opened
<1>5. CASE r.kind \in {"config", "string", "hid"}
  <2>1. desc' = r /\ UNCHANGED <<ep, new_devaddr>>
    BY <1>5 DEF process_device_setup_stage, set_address
  <2>2. r \in Reads
    BY <1>1, <1>5, ReadRequest
  <2> QED BY <1>2, <1>5, <2>1, <2>2 DEF Staged, Opened, Pool, Sizes, in0, out0, key
<1>6. CASE r.kind \in {"address", "unit"}
  <2>1. /\ ep' = prepare_ep0_data(r, 0) /\ UNCHANGED desc
        /\ new_devaddr' = IF r.kind = "address" THEN 1 ELSE new_devaddr
    BY <1>6 DEF process_device_setup_stage, set_address
  <2>2. Prepared(r, 0)
    BY <1>1, <2>1, PrepareData
  <2> QED BY <1>1, <1>2, <1>3, <1>6, <2>1, <2>2 DEF Staged, Opened
<1>7. CASE r.kind = "report"
  <2>1. ep' = prepare_ep0_rx(r, REPORT_LEN) /\ UNCHANGED <<desc, new_devaddr>>
    BY <1>7 DEF process_device_setup_stage, set_address
  <2>2. Prepared(NoRequest, 0)
    BY <1>1, <2>1, PrepareRx
  <2> QED BY <1>1, <1>2, <1>3, <1>7, <2>1, <2>2 DEF Staged, Opened
<1>8. CASE r.kind = "configure"
  <2> DEFINE pool == prepare_ep0_data(r, 0)
  <2>1. ep' = configure_all_endpoints(pool) /\ UNCHANGED <<desc, new_devaddr>>
    BY <1>8 DEF process_device_setup_stage, set_address
  <2>2. in0 \in Slots /\ key \in Slots /\ out0 \in Slots /\ ep \in [Endpoints -> Slots]
    BY SlotTypes DEF Pool
  <2>3. /\ pool["in0"] = TransferStart(in0, r, 0) /\ pool["out0"] = out0 /\ pool["key"] = key
        /\ DOMAIN pool = Endpoints /\ pool = [e \in Endpoints |-> pool[e]]
    <3>1. pool = [ep EXCEPT !["in0"] = TransferStart(in0, r, 0), !["out0"] = out0]
      BY <2>2 DEF prepare_ep0_data, Endpoints, in0, out0
    <3> HIDE DEF pool
    <3> QED BY <2>2, <3>1 DEF Endpoints, in0, out0, key
  <2> HIDE DEF pool
  <2>4. /\ in0' = TransferStart(in0, r, 0) /\ out0' = out0
        /\ key' = [key EXCEPT !.size = REPORT_LEN, !.data_id = 0, !.is_tx = TRUE]
        /\ DOMAIN ep' = Endpoints /\ ep' = [e \in Endpoints |-> ep'[e]]
    BY <2>1, <2>2, <2>3 DEF configure_all_endpoints, Endpoints, in0, out0, key
  <2>5. /\ Started(r, 0) /\ in0' \in Slots /\ in0'.actual_len <= in0'.total_len
        /\ in0'.size = in0.size /\ in0'.is_tx = in0.is_tx
    <3>1. CASE in0.has_transfer = TRUE
      BY <2>2, <2>4, <3>1, StartBusy DEF Started, Pool
    <3>2. CASE ~in0.has_transfer
      BY <1>1, <2>2, <2>4, <3>2, StartIdle DEF Started, Begun
    <3> QED BY <2>2, <3>1, <3>2 DEF Slots, Ep, Endpoint
  <2>6. key' \in Slots /\ key'.actual_len <= key'.total_len
    BY <2>2, <2>4 DEF Slots, Ep, Endpoint, Pids, REPORT_LEN, Pool
  <2>7. \A e \in Endpoints : ep'[e] \in Slots
    BY <2>2, <2>4, <2>5, <2>6 DEF Endpoints, in0, out0, key
  <2>8. Pool' /\ Sizes
    BY <2>4, <2>5, <2>6, <2>7 DEF Pool, Sizes
  <2> QED BY <1>1, <1>2, <1>8, <2>1, <2>4, <2>5, <2>8 DEF Staged, Opened
<1> QED BY <1>4, <1>5, <1>6, <1>7, <1>8 DEF process_device_setup_stage, set_address

(* The task sees the interrupts of the pass, and among them a request.      *)
Setup == IF "setup" \in task.ints THEN Staged(setup_packet) /\ Opened(setup_packet)
                                  ELSE UNCHANGED <<ep, desc, new_devaddr>>

LEMMA SetupTypes ==
    ASSUME TypesInv, TaskSetup
    PROVE  /\ TypesInv' /\ Setup /\ Sizes
           /\ UNCHANGED <<ints, ep_complete, ep_continue, setup_packet, dev_addr, host, line, handed, heard>>
           /\ task.pc = "setup" /\ task'.ints = task.ints /\ task'.reg = task.reg /\ task'.e = "in0"
           /\ task'.pc = IF "complete" \in task.ints THEN "complete" ELSE "continue"
<1>1. /\ At("setup") /\ UNCHANGED <<ints, ep_complete, ep_continue, setup_packet>>
      /\ task' = [task EXCEPT !.e = "in0",
                              !.pc = IF "complete" \in task.ints THEN "complete" ELSE "continue"]
  BY DEF TaskSetup, registers
<1>2. Pool /\ Others /\ Held
  BY TypesSplit
<1>3. /\ task' \in TaskTypes /\ task'.ints = task.ints /\ task'.reg = task.reg /\ task'.e = "in0"
      /\ task'.pc = IF "complete" \in task.ints THEN "complete" ELSE "continue"
      /\ task.pc = "setup"
  BY <1>1, <1>2 DEF Others, TaskTypes, Pcs, At
<1>4. UNCHANGED outside /\ Pool' /\ Setup /\ Sizes
  <2>1. CASE "setup" \in task.ints
    BY <1>2, <2>1, SetupStage DEF TaskSetup, Setup
  <2>2. CASE "setup" \notin task.ints
    BY <1>2, <2>2 DEF TaskSetup, Setup, Sizes, Pool, in0, out0, key
  <2> QED BY <2>1, <2>2
<1>5. UNCHANGED <<dev_addr, host, line, handed, heard>>
  BY <1>4 DEF outside
<1>6. /\ desc' \in Reads \cup {NoRequest} /\ new_devaddr' \in {0, 1}
      /\ stage' \in {"NONE", "DATA", "STATUS", "COMPLETE"}
  BY <1>2, <1>4 DEF TaskSetup, Setup, Staged, Others
<1>7. Others' /\ Held'
  BY <1>1, <1>2, <1>3, <1>5, <1>6 DEF Others, Held, At
<1> QED BY <1>1, <1>3, <1>4, <1>5, <1>7, TypesSplitNext

(* The end of a control stage: endpoint 0 answers with an empty packet if   *)
(* it has nothing else to say.                                              *)
LEMMA CompleteTypes ==
    ASSUME TypesInv, TaskComplete
    PROVE  /\ TypesInv' /\ Sizes /\ key' = key
           /\ in0' = in0 \/ (~in0.has_transfer /\ Begun(in0, in0', NoRequest, 0))
           /\ UNCHANGED <<ints, ep_complete, ep_continue, setup_packet, desc, new_devaddr,
                          dev_addr, host, line, handed, heard>>
           /\ task.pc = "complete" /\ task'.pc = "completed" /\ task'.ints = task.ints
           /\ task'.reg = ep_complete /\ task'.e = task.e
<1>1. /\ At("complete") /\ task' = [task EXCEPT !.pc = "completed", !.reg = ep_complete]
      /\ ep' = ep \/ ep' = prepare_ep0_data(NoRequest, 0)
      /\ UNCHANGED <<ints, ep_complete, ep_continue, setup_packet, desc, new_devaddr,
                     dev_addr, host, line, handed, heard>>
  BY DEF TaskComplete, Goto, registers, outside
<1>2. Pool /\ Others /\ Held /\ NoRequest \in Asked /\ 0 \in Nat
  BY TypesSplit DEF Asked
<1>3. /\ task' \in TaskTypes /\ task'.pc = "completed" /\ task'.ints = task.ints
      /\ task'.reg = ep_complete /\ task'.e = task.e /\ task.pc = "complete"
  BY <1>1, <1>2 DEF Others, TaskTypes, Pcs, At
<1>4. /\ Pool' /\ key' = key /\ Sizes
      /\ in0' = in0 \/ (~in0.has_transfer /\ Begun(in0, in0', NoRequest, 0))
  <2>1. CASE ep' = ep
    BY <1>2, <2>1 DEF Pool, Sizes, in0, out0, key
  <2>2. CASE ep' = prepare_ep0_data(NoRequest, 0)
    <3>1. Prepared(NoRequest, 0)
      BY <1>2, <2>2, PrepareData
    <3> QED BY <3>1 DEF Prepared, Started, Sizes, Begun
  <2> QED BY <1>1, <2>1, <2>2
<1>5. stage' \in {"NONE", "DATA", "STATUS", "COMPLETE"}
  BY <1>2 DEF TaskComplete, Others
<1>6. Others' /\ Held'
  BY <1>1, <1>2, <1>3, <1>5 DEF Others, Held, At
<1> QED BY <1>1, <1>3, <1>4, <1>6, TypesSplitNext

(* A read that was put off is answered at the end of the pass.              *)
LEMMA DescriptorTypes ==
    ASSUME TypesInv, TaskDescriptor
    PROVE  /\ TypesInv' /\ Sizes /\ key' = key
           /\ IF desc = NoRequest THEN ep' = ep ELSE desc \in Reads /\ Started(desc, Length(desc))
           /\ UNCHANGED <<ints, ep_complete, ep_continue, setup_packet, new_devaddr,
                          dev_addr, host, line, handed, heard>>
           /\ desc' = NoRequest /\ (task.pc = "desc" \/ (task.pc = "loop" /\ ints = {}))
           /\ task'.pc = "line" /\ task'.ints = task.ints /\ task'.e = task.e /\ task'.reg = task.reg
<1>1. /\ At("desc") \/ (At("loop") /\ ints = {})
      /\ ep' = (IF desc # NoRequest THEN prepare_ep0_data(desc, Length(desc)) ELSE ep)
      /\ desc' = NoRequest /\ task' = [task EXCEPT !.pc = "line"]
      /\ UNCHANGED <<ints, ep_complete, ep_continue, setup_packet, stage, new_devaddr,
                     dev_addr, host, line, handed, heard>>
  BY DEF TaskDescriptor, registers, outside
<1>2. Pool /\ Others /\ Held
  BY TypesSplit
<1>3. /\ task' \in TaskTypes /\ task'.pc = "line" /\ task'.ints = task.ints
      /\ task'.e = task.e /\ task'.reg = task.reg
  BY <1>1, <1>2 DEF Others, TaskTypes, Pcs
<1>4. /\ Pool' /\ key' = key /\ Sizes
      /\ IF desc = NoRequest THEN ep' = ep ELSE desc \in Reads /\ Started(desc, Length(desc))
  <2>1. CASE desc = NoRequest
    BY <1>1, <1>2, <2>1 DEF Pool, Sizes, in0, out0, key
  <2>2. CASE desc # NoRequest
    <3>1. desc \in Reads /\ desc \in Asked /\ Length(desc) \in Nat
      BY <1>2, <2>2, ReadLength DEF Others
    <3>2. Prepared(desc, Length(desc))
      BY <1>1, <1>2, <2>2, <3>1, PrepareData
    <3> QED BY <2>2, <3>1, <3>2 DEF Prepared, Started, Sizes, Begun
  <2> QED BY <2>1, <2>2
<1>5. Others' /\ Held'
  BY <1>1, <1>2, <1>3 DEF Others, Held, At
<1> QED BY <1>1, <1>3, <1>4, <1>5, TypesSplitNext DEF At

(* The next packet of a transfer, or its end.                               *)
LEMMA ContinuedTypes ==
    ASSUME TypesInv, TaskContinued
    PROVE  /\ TypesInv' /\ out0' = out0
           /\ \/ task.e = "in0" /\ Advanced(in0, in0', TransactionLen(in0)) /\ key' = key
              \/ task.e = "key" /\ Advanced(key, key', TransactionLen(key)) /\ in0' = in0
           /\ UNCHANGED <<ints, ep_continue, setup_packet, desc, new_devaddr,
                          dev_addr, host, line, handed, heard>>
           /\ task.pc \in {"encode", "store-marked"}
           /\ task'.pc = "clear" /\ task'.ints = task.ints /\ task'.e = task.e /\ task'.reg = task.reg
<1>1. /\ At("encode") \/ At("store-marked")
      /\ ep_complete' = ep_complete \/ (At("store-marked") /\ ep_complete' = task.reg)
      /\ ep' = Continued(task.e) /\ task' = [task EXCEPT !.pc = "clear"]
      /\ UNCHANGED <<ints, ep_continue, setup_packet, stage, desc, new_devaddr,
                     dev_addr, host, line, handed, heard>>
  BY DEF TaskContinued, outside
<1>2. Pool /\ Others /\ Held
  BY TypesSplit
<1>3. /\ task' \in TaskTypes /\ task'.pc = "clear" /\ task'.ints = task.ints /\ task'.e = task.e
      /\ task'.reg = task.reg /\ task.e \in {"in0", "key"} /\ task.pc \in {"encode", "store-marked"}
  BY <1>1, <1>2 DEF Others, TaskTypes, Pcs, At, Clearing
<1>4. Others' /\ Held'
  BY <1>1, <1>2, <1>3 DEF Others, Held, At
<1>5. ASSUME NEW e \in {"in0", "key"}, e = task.e, ep[e].actual_len <= ep[e].total_len
      PROVE  /\ Advanced(ep[e], ep'[e], TransactionLen(ep[e]))
             /\ ep' \in [Endpoints -> Slots] /\ ep'[e].actual_len <= ep'[e].total_len
             /\ \A d \in Endpoints \ {e} : ep'[d] = ep[d]
  <2>1. ep[e] \in Slots /\ e \in Endpoints
    BY <1>2 DEF Pool, Endpoints
  <2>2. /\ ep[e].total_len \in Nat /\ ep[e].actual_len \in Nat /\ ep[e].size \in {0, REPORT_LEN, EP0_SIZE}
    BY <2>1 DEF Slots, Ep, Endpoint
  <2>3. /\ TransactionLen(ep[e]) \in Nat
        /\ ep[e].actual_len + TransactionLen(ep[e]) <= ep[e].total_len
    BY <1>5, <2>2 DEF TransactionLen, REPORT_LEN, EP0_SIZE
  <2>4. ep' = [ep EXCEPT ![e] = TransferContinue(ep[e], TransactionLen(ep[e]))]
    BY <1>1, <1>5 DEF Continued
  <2>5. Advanced(ep[e], TransferContinue(ep[e], TransactionLen(ep[e])), TransactionLen(ep[e]))
    BY <2>1, <2>3, ContinueSlot
  <2>6. ep'[e] = TransferContinue(ep[e], TransactionLen(ep[e])) /\ \A d \in Endpoints \ {e} : ep'[d] = ep[d]
    BY <1>2, <2>1, <2>4 DEF Pool
  <2>7. ep'[e] \in Slots /\ ep'[e].actual_len <= ep'[e].total_len
    BY <2>3, <2>5, <2>6 DEF Advanced
  <2>8. ep' \in [Endpoints -> Slots]
    BY <1>2, <2>1, <2>4, <2>6, <2>7 DEF Pool
  <2> QED BY <2>5, <2>6, <2>7, <2>8
<1>6. CASE task.e = "in0"
  <2>1. Advanced(in0, in0', TransactionLen(in0)) /\ Pool' /\ key' = key /\ out0' = out0
    BY <1>2, <1>5, <1>6 DEF Pool, Endpoints, in0, out0, key
  <2> QED BY <1>1, <1>3, <1>4, <1>6, <2>1, TypesSplitNext
<1>7. CASE task.e = "key"
  <2>1. Advanced(key, key', TransactionLen(key)) /\ Pool' /\ in0' = in0 /\ out0' = out0
    BY <1>2, <1>5, <1>7 DEF Pool, Endpoints, in0, out0, key
  <2> QED BY <1>1, <1>3, <1>4, <1>7, <2>1, TypesSplitNext
<1> QED BY <1>3, <1>6, <1>7

(* What a bus reset leaves.                                                 *)
Reset == /\ in0' = ControlEndpoint(TRUE) /\ out0' = ControlEndpoint(FALSE)
         /\ key' = FreeEndpoint(NoRequest)
         /\ dev_addr' = 0 /\ ints' = ints \cup {"reset"} /\ line' = "idle"
         /\ handed' = 0 /\ heard' = 0

(* The end of the loop: a bus reset takes effect.                           *)
LEMMA LineTypes ==
    ASSUME TypesInv, TaskLine
    PROVE  /\ TypesInv'
           /\ IF line = "SE0" THEN Reset
                              ELSE UNCHANGED <<ep, dev_addr, ep_complete, ints, line, handed, heard>>
           /\ UNCHANGED <<ep_continue, setup_packet, desc, new_devaddr, host>>
           /\ task.pc = "line" /\ task'.pc = "loop" /\ task'.ints = {} /\ task'.e = "in0"
<1>1. /\ At("line") /\ task' = [pc |-> "loop", ints |-> {}, e |-> "in0", reg |-> {}]
      /\ UNCHANGED <<new_devaddr, ep_continue, setup_packet, stage, desc, host>>
  BY DEF TaskLine
<1>2. Pool /\ Others
  BY TypesSplit
<1>3. task' \in TaskTypes /\ task'.pc = "loop" /\ task'.ints = {} /\ task'.e = "in0" /\ task.pc = "line"
  BY <1>1 DEF TaskTypes, Pcs, At
<1>4. Held'
  BY <1>3 DEF Held, At
<1>5. CASE line # "SE0"
  <2>1. UNCHANGED <<ep, dev_addr, ep_complete, ints, line, handed, heard>>
    BY <1>5 DEF TaskLine
  <2>2. Pool' /\ Others'
    BY <1>1, <1>2, <1>3, <2>1 DEF Pool, Others, in0, key
  <2> QED BY <1>1, <1>3, <1>4, <1>5, <2>1, <2>2, TypesSplitNext
<1>6. CASE line = "SE0"
  <2>1. /\ ep' = ResetPool /\ dev_addr' = 0 /\ ep_complete' = {} /\ ints' = ints \cup {"reset"}
        /\ line' = "idle" /\ handed' = 0 /\ heard' = 0
    BY <1>6 DEF TaskLine
  <2>2. Reset
    BY <2>1 DEF Reset, ResetPool, in0, out0, key
  <2>3. ep' \in [Endpoints -> Slots]
    <3>1. ResetPool \in [out0 : Slots, in0 : Slots, key : Slots]
      BY FreeSlot DEF ResetPool
    <3>2. [out0 : Slots, in0 : Slots, key : Slots] \subseteq [Endpoints -> Slots]
      BY DEF Endpoints
    <3> QED BY <2>1, <3>1, <3>2
  <2>4. in0'.actual_len = 0 /\ in0'.total_len = 0 /\ key'.actual_len = 0 /\ key'.total_len = 0
    BY <2>2 DEF Reset, ControlEndpoint, FreeEndpoint
  <2>5. Pool' /\ Others'
    BY <1>1, <1>2, <1>3, <2>1, <2>3, <2>4, DeviceAssumption DEF Pool, Others, Ints
  <2> QED BY <1>1, <1>3, <1>4, <1>6, <2>2, <2>5, TypesSplitNext
<1> QED BY <1>5, <1>6

(* The task as a whole.                                                     *)
LEMMA TaskTypesKept == ASSUME TypesInv, Task PROVE TypesInv'
<1>1. CASE TaskBegin \/ TaskLoad \/ TaskStore \/ TaskContinue
  BY <1>1, RegisterTypes
<1>2. CASE TaskSetup \/ TaskComplete \/ TaskContinued
  BY <1>2, SetupTypes, CompleteTypes, ContinuedTypes
<1>3. CASE TaskDescriptor \/ TaskLine
  BY <1>3, DescriptorTypes, LineTypes
<1> QED BY <1>1, <1>2, <1>3 DEF Task

(* A report is handed over when the one before has been taken.              *)
LEMMA TransferTypes ==
    ASSUME TypesInv, pio_usb_device_transfer
    PROVE  /\ TypesInv' /\ Begun(key, key', NoRequest, REPORT_LEN) /\ in0' = in0 /\ out0' = out0
           /\ task.pc = "loop" /\ key.size > 0 /\ ~key.has_transfer /\ handed' = handed + 1
           /\ UNCHANGED <<ints, ep_complete, ep_continue, setup_packet, desc, task, new_devaddr,
                          dev_addr, host, line, heard>>
<1>1. /\ At("loop") /\ key.size > 0 /\ ~key.has_transfer /\ handed < MaxReports
      /\ ep' = [ep EXCEPT !["key"] = TransferStart(key, NoRequest, REPORT_LEN)]
      /\ handed' = handed + 1
      /\ UNCHANGED <<ints, ep_complete, ep_continue, setup_packet, stage, desc, task, new_devaddr,
                     dev_addr, host, line, heard>>
  BY DEF pio_usb_device_transfer, registers, key
<1>2. Pool /\ Others /\ Held
  BY TypesSplit
<1>3. /\ key \in Slots /\ in0 \in Slots /\ NoRequest \in Asked /\ REPORT_LEN \in Nat
      /\ ep \in [Endpoints -> Slots]
  BY <1>2, SlotTypes DEF Pool, Asked, REPORT_LEN
<1>4. key' = TransferStart(key, NoRequest, REPORT_LEN) /\ in0' = in0 /\ out0' = out0
  BY <1>1, <1>3 DEF Endpoints, key, in0, out0
<1>5. Begun(key, key', NoRequest, REPORT_LEN)
  BY <1>1, <1>3, <1>4, StartIdle
<1>6. ep' \in [Endpoints -> Slots] /\ key'.actual_len <= key'.total_len
  BY <1>1, <1>3, <1>4, <1>5 DEF Begun, Endpoints
<1>7. Pool'
  BY <1>2, <1>4, <1>6 DEF Pool
<1>8. handed' \in 0 .. MaxReports
  BY <1>1, <1>2, DeviceAssumption DEF Others
<1>9. Others' /\ Held'
  BY <1>1, <1>2, <1>8 DEF Others, Held, At
<1> QED BY <1>1, <1>4, <1>5, <1>7, <1>9, TypesSplitNext DEF At

(* A setup cancels what endpoint 0 was doing.                               *)
LEMMA SetupTokenTypes ==
    ASSUME TypesInv, SetupToken
    PROVE  /\ TypesInv' /\ Sizes /\ key' = key
           /\ in0'.data_id = 1 /\ ~in0'.has_transfer /\ ~out0'.has_transfer
           /\ line = "idle" /\ host.stage = "idle" /\ (Prompt => Idle)
           /\ ints' = ints \cup {"setup"} /\ setup_packet' \in Requests
           /\ setup_packet'.kind = "configure" => ~host.ready
           /\ host'.req = setup_packet' /\ host'.pid = 1 /\ host'.got = 0
           /\ host'.addr = host.addr /\ host'.key = host.key /\ host'.ready = host.ready
           /\ host'.stage = IF setup_packet' \in Reads THEN "data-in"
                            ELSE IF setup_packet'.kind = "report" THEN "data-out" ELSE "status-in"
           /\ UNCHANGED <<ep_complete, ep_continue, desc, task, new_devaddr,
                          dev_addr, line, handed, heard>>
<1>1. /\ line = "idle" /\ host.stage = "idle" /\ (Prompt => Idle)
      /\ ints' = ints \cup {"setup"}
      /\ ep' = [ep EXCEPT !["in0"] = Rearmed(in0), !["out0"] = Rearmed(out0)]
      /\ UNCHANGED <<dev_addr, new_devaddr, ep_complete, ep_continue, stage, desc, task,
                     line, handed, heard>>
  BY DEF SetupToken, Answers, in0, out0
<1>2. PICK r \in Requests :
         /\ r.kind = "configure" => ~host.ready
         /\ setup_packet' = r
         /\ host' = [host EXCEPT !.req = r, !.pid = 1, !.got = 0,
                                 !.stage = IF r \in Reads THEN "data-in"
                                           ELSE IF r.kind = "report" THEN "data-out" ELSE "status-in"]
  BY DEF SetupToken
<1>3. Pool /\ Others /\ Held
  BY TypesSplit
<1>4. /\ host' \in HostTypes /\ host'.req = r /\ host'.pid = 1 /\ host'.got = 0
      /\ host'.addr = host.addr /\ host'.key = host.key /\ host'.ready = host.ready
      /\ host'.stage = IF r \in Reads THEN "data-in"
                       ELSE IF r.kind = "report" THEN "data-out" ELSE "status-in"
  BY <1>2, <1>3 DEF Others, HostTypes, Asked, Stages
<1>5. in0 \in Slots /\ out0 \in Slots /\ key \in Slots /\ ep \in [Endpoints -> Slots]
  BY <1>3, SlotTypes DEF Pool
<1>6. in0' = Rearmed(in0) /\ out0' = Rearmed(out0) /\ key' = key
  BY <1>1, <1>5 DEF Endpoints, in0, out0, key
<1>7. /\ in0' \in Slots /\ in0'.data_id = 1 /\ ~in0'.has_transfer /\ Sizes
      /\ in0'.actual_len = in0.actual_len /\ in0'.total_len = in0.total_len
      /\ out0' \in Slots /\ ~out0'.has_transfer
  BY <1>5, <1>6, RearmedSlot DEF Sizes
<1>8. ep' \in [Endpoints -> Slots]
  BY <1>1, <1>5, <1>6, <1>7 DEF Endpoints
<1>9. Pool'
  BY <1>3, <1>6, <1>7, <1>8 DEF Pool
<1>10. Others' /\ Held'
  BY <1>1, <1>2, <1>3, <1>4 DEF Others, Held, At, Ints, Asked
<1> QED BY <1>1, <1>2, <1>4, <1>6, <1>7, <1>9, <1>10, TypesSplitNext

(* The host after a packet of endpoint 0.                                   *)
LEMMA HostInTypes == ASSUME host \in HostTypes, in0 \in Slots
                     PROVE  HostIn(in0.buffer) \in HostTypes
<1>1. in0.buffer.len \in Nat /\ host.got \in Nat /\ host.pid \in {0, 1}
  BY DEF Slots, Ep, Endpoint, HostTypes
<1>2. host.got + in0.buffer.len \in Nat /\ 1 - host.pid \in {0, 1}
  BY <1>1
<1> DEFINE got == host.got + in0.buffer.len
           over == in0.buffer.len < EP0_SIZE \/ got >= host.req.ask
           h1 == [host EXCEPT !.stage = "broken"]
           h2 == [host EXCEPT !.got = got, !.pid = 1 - host.pid,
                              !.stage = IF over THEN "status-out" ELSE host.stage]
           h3 == [host EXCEPT !.stage = "idle",
                              !.addr  = IF host.req.kind = "address" THEN 1 ELSE host.addr,
                              !.ready = host.ready \/ host.req.kind = "configure"]
<1>3. HostIn(in0.buffer) \in {host, h1, h2, h3}
  BY DEF HostIn, HostTypes
<1>4. h1 \in HostTypes /\ h3 \in HostTypes
  BY DEF HostTypes, Stages
<1>5. h2 \in HostTypes
  <2> HIDE DEF got, over
  <2>1. got \in Nat
    BY <1>2 DEF got
  <2> QED BY <1>2, <2>1 DEF HostTypes, Stages
<1> HIDE DEF h1, h2, h3
<1> QED BY <1>3, <1>4, <1>5

(* A packet of endpoint 0 goes out, and with it a new address comes up.     *)
LEMMA InToken0Types ==
    ASSUME TypesInv, InToken0
    PROVE  /\ TypesInv' /\ in0' = in0 /\ out0' = out0 /\ key' = key
           /\ host.stage \in {"data-in", "status-in"} /\ line = "idle" /\ dev_addr = host.addr
           /\ in0.has_transfer /\ host' = HostIn(in0.buffer)
           /\ ints' = ints \cup {"continue"} /\ ep_continue' = ep_continue \cup {"in0"}
           /\ dev_addr' = (IF new_devaddr = 1 THEN 1 ELSE dev_addr) /\ new_devaddr' = 0
           /\ UNCHANGED <<ep_complete, setup_packet, desc, task, line, handed, heard>>
<1>1. /\ host.stage \in {"data-in", "status-in"} /\ line = "idle" /\ dev_addr = host.addr
      /\ in0.has_transfer
      /\ ints' = ints \cup {"continue"} /\ ep_continue' = ep_continue \cup {"in0"}
      /\ host' = HostIn(in0.buffer)
      /\ dev_addr' = (IF new_devaddr > 0 THEN new_devaddr ELSE dev_addr) /\ new_devaddr' = 0
      /\ UNCHANGED <<ep, ep_complete, setup_packet, stage, desc, task, line, handed, heard>>
  BY DEF InToken0, InToken, Answers, in0
<1>2. Pool /\ Others /\ Held
  BY TypesSplit
<1>3. in0' = in0 /\ out0' = out0 /\ key' = key
  BY <1>1 DEF in0, out0, key
<1>4. host' \in HostTypes
  BY <1>1, <1>2, SlotTypes, HostInTypes DEF Others
<1>5. dev_addr' = (IF new_devaddr = 1 THEN 1 ELSE dev_addr) /\ dev_addr' \in {0, 1}
  BY <1>1, <1>2 DEF Others
<1>6. Pool' /\ Others' /\ Held'
  BY <1>1, <1>2, <1>3, <1>4, <1>5 DEF Pool, Others, Held, At, Ints
<1> QED BY <1>1, <1>3, <1>5, <1>6, TypesSplitNext

(* A report goes out.                                                       *)
LEMMA InTokenKeyTypes ==
    ASSUME TypesInv, InTokenKey
    PROVE  /\ TypesInv' /\ in0' = in0 /\ out0' = out0 /\ key' = key
           /\ host.ready /\ (Apart => host.stage = "idle") /\ line = "idle" /\ key.has_transfer
           /\ ints' = ints \cup {"continue"} /\ ep_continue' = ep_continue \cup {"key"}
           /\ host'.key = (IF key.buffer.pid = host.key THEN 1 - host.key ELSE host.key)
           /\ heard' = (IF key.buffer.pid = host.key THEN heard + 1 ELSE heard)
           /\ host'.addr = host.addr /\ host'.req = host.req /\ host'.stage = host.stage
           /\ host'.pid = host.pid /\ host'.got = host.got /\ host'.ready = host.ready
           /\ UNCHANGED <<ep_complete, setup_packet, desc, task, new_devaddr, dev_addr, line, handed>>
<1>1. /\ host.ready /\ (Apart => host.stage = "idle") /\ line = "idle" /\ key.has_transfer
      /\ ints' = ints \cup {"continue"} /\ ep_continue' = ep_continue \cup {"key"}
      /\ host' = [host EXCEPT !.key = IF key.buffer.pid = host.key THEN 1 - host.key ELSE host.key]
      /\ heard' = (IF key.buffer.pid = host.key THEN heard + 1 ELSE heard)
      /\ UNCHANGED <<ep, ep_complete, setup_packet, stage, desc, task, dev_addr, new_devaddr,
                     line, handed>>
  BY DEF InTokenKey, InToken, Answers, key
<1>2. Pool /\ Others /\ Held
  BY TypesSplit
<1>3. in0' = in0 /\ out0' = out0 /\ key' = key
  BY <1>1 DEF in0, out0, key
<1>4. /\ host' \in HostTypes
      /\ host'.key = (IF key.buffer.pid = host.key THEN 1 - host.key ELSE host.key)
      /\ host'.addr = host.addr /\ host'.req = host.req /\ host'.stage = host.stage
      /\ host'.pid = host.pid /\ host'.got = host.got /\ host'.ready = host.ready
  <2>1. (IF key.buffer.pid = host.key THEN 1 - host.key ELSE host.key) \in {0, 1}
    BY <1>2 DEF Others, HostTypes
  <2> QED BY <1>1, <1>2, <2>1 DEF Others, HostTypes
<1>5. Pool' /\ Others' /\ Held'
  BY <1>1, <1>2, <1>3, <1>4 DEF Pool, Others, Held, At, Ints
<1> QED BY <1>1, <1>3, <1>4, <1>5, TypesSplitNext

(* Data of the host, or the status of a read.                               *)
LEMMA OutToken0Types ==
    ASSUME TypesInv, OutToken0
    PROVE  /\ TypesInv' /\ Sizes /\ in0' = in0 /\ key' = key
           /\ host.stage \in {"data-out", "status-out"} /\ line = "idle" /\ out0.has_transfer
           /\ ints' = ints \cup {"complete"}
           /\ host'.req = host.req /\ host'.addr = host.addr /\ host'.pid = host.pid
           /\ host'.got = host.got /\ host'.key = host.key /\ host'.ready = host.ready
           /\ host'.stage = (IF host.stage = "data-out" THEN "status-in" ELSE "idle")
           /\ UNCHANGED <<ep_continue, setup_packet, desc, task, new_devaddr,
                          dev_addr, line, handed, heard>>
<1> DEFINE len == IF host.stage = "data-out" THEN host.req.ask ELSE 0
<1>1. /\ host.stage \in {"data-out", "status-out"} /\ line = "idle" /\ out0.has_transfer
      /\ ep' = [ep EXCEPT !["out0"] = TransferContinue(out0, len)]
      /\ ints' = ints \cup {"complete"} /\ ep_complete' = ep_complete \cup {"out0"}
      /\ host' = [host EXCEPT !.stage = IF host.stage = "data-out" THEN "status-in" ELSE "idle"]
      /\ UNCHANGED <<dev_addr, new_devaddr, ep_continue, setup_packet, stage, desc, task,
                     line, handed, heard>>
  BY DEF OutToken0, Answers, out0
<1>2. Pool /\ Others /\ Held
  BY TypesSplit
<1>3. len \in Nat
  <2>1. \A r \in Asked : r.ask \in Nat
    BY DeviceAssumption DEF Asked, Requests, REPORT_LEN, NoRequest
  <2> QED BY <1>2, <2>1 DEF Others, HostTypes
<1> HIDE DEF len
<1>4. ep \in [Endpoints -> Slots] /\ out0 \in Slots
  BY <1>2, SlotTypes DEF Pool
<1>5. Advanced(out0, TransferContinue(out0, len), len)
  BY <1>3, <1>4, ContinueSlot
<1>6. out0' = TransferContinue(out0, len) /\ in0' = in0 /\ key' = key
  BY <1>1, <1>4 DEF Endpoints, in0, out0, key
<1>7. out0' \in Slots /\ Sizes
  BY <1>5, <1>6 DEF Advanced, Sizes
<1>8. /\ host' \in HostTypes /\ host'.req = host.req /\ host'.addr = host.addr /\ host'.pid = host.pid
      /\ host'.got = host.got /\ host'.key = host.key /\ host'.ready = host.ready
      /\ host'.stage = (IF host.stage = "data-out" THEN "status-in" ELSE "idle")
  BY <1>1, <1>2 DEF Others, HostTypes, Stages
<1>9. ep' \in [Endpoints -> Slots]
  BY <1>1, <1>4, <1>6, <1>7 DEF Endpoints
<1>10. Pool' /\ Others' /\ Held'
  BY <1>1, <1>2, <1>6, <1>8, <1>9 DEF Pool, Others, Held, At, Ints, Endpoints
<1> QED BY <1>1, <1>6, <1>7, <1>8, <1>10, TypesSplitNext

(* The host resets the bus.                                                 *)
LEMMA HostResetTypes ==
    ASSUME TypesInv, HostReset
    PROVE  /\ TypesInv' /\ in0' = in0 /\ out0' = out0 /\ key' = key
           /\ line = "idle" /\ (Prompt => Idle /\ ep_continue = {})
           /\ (WholeAddress => host.req.kind # "address" \/ host.stage = "idle")
           /\ line' = "SE0" /\ host' = NewHost
           /\ UNCHANGED <<ep, ints, ep_complete, ep_continue, setup_packet, desc, task, new_devaddr,
                          dev_addr, handed, heard>>
<1>1. /\ line = "idle" /\ (Prompt => Idle /\ ep_continue = {})
      /\ (WholeAddress => host.req.kind # "address" \/ host.stage = "idle")
      /\ line' = "SE0" /\ host' = NewHost
      /\ UNCHANGED <<ep, dev_addr, new_devaddr, ints, ep_complete, ep_continue, setup_packet, stage, desc,
                     task, handed, heard>>
  BY DEF HostReset, registers
<1>2. Pool /\ Others /\ Held
  BY TypesSplit
<1>3. host' \in HostTypes
  BY <1>1 DEF NewHost, HostTypes, Asked, Stages
<1>4. in0' = in0 /\ out0' = out0 /\ key' = key
  BY <1>1 DEF in0, out0, key
<1>5. Pool' /\ Others' /\ Held'
  BY <1>1, <1>2, <1>3, <1>4 DEF Pool, Others, Held, At
<1> QED BY <1>1, <1>4, <1>5, TypesSplitNext

(* Every step keeps the types, whatever the host does.                      *)
LEMMA TypesStep == TypesInv /\ [Next]_vars => TypesInv'
<1> SUFFICES ASSUME TypesInv, [Next]_vars PROVE TypesInv'
  OBVIOUS
<1>1. CASE PacketHandler
  BY <1>1, SetupTokenTypes, InToken0Types, InTokenKeyTypes, OutToken0Types DEF PacketHandler
<1>2. CASE Task \/ pio_usb_device_transfer \/ HostReset
  BY <1>2, TaskTypesKept, TransferTypes, HostResetTypes
<1>3. CASE UNCHANGED vars
  <2>1. Pool' /\ Others' /\ Held'
    <3>1. Pool /\ Others /\ Held
      BY TypesSplit
    <3> QED BY <1>3, <3>1 DEF Pool, Others, Held, At, vars, registers, outside, in0, key
  <2> QED BY <2>1, TypesSplitNext
<1> QED BY <1>1, <1>2, <1>3 DEF Next, Done

-----------------------------------------------------------------------------
(* The steps of the task that leave the pool alone.                         *)

(* The task begins to move an endpoint only when it finds its flag, and a   *)
(* flag is only dropped.                                                    *)
Carried(e) ==
    /\ task'.e = e /\ task'.pc \in Moving =>
          \/ task.e = e /\ task.pc \in Moving
          \/ At("continue") /\ task.e = e /\ "continue" \in task.ints /\ e \in ep_continue
    /\ e \in ep_continue' /\ task.e = e /\ task.pc \in Clearing =>
          task'.e = e /\ task'.pc \in Clearing

Still == /\ UNCHANGED <<ep, new_devaddr, setup_packet, desc, dev_addr, host, line, handed, heard>>
         /\ line = "idle" \/ (task'.pc = "line" /\ UNCHANGED <<ints, ep_continue>>)
         /\ Pass'
         /\ Pending' <=> Pending
         /\ Pending => ints' = ints /\ (At("setup")' => task'.ints = ints)
         /\ Deferred /\ task.pc \in Winding => task'.pc \in Winding \/ "continue" \in task.ints
         /\ Continuing' => Continuing
         /\ ep_continue' \subseteq ep_continue
         /\ Carried("in0") /\ Carried("key")

(* The pass begins with a copy of the interrupts.                           *)
LEMMA BeginStill == ASSUME TypesInv, ReportInv, TaskBegin PROVE Still
<1>1. /\ At("loop") /\ ints # {} /\ task' = [task EXCEPT !.pc = "setup", !.ints = ints]
      /\ UNCHANGED <<ep, new_devaddr, setup_packet, desc, dev_addr, host, line, handed, heard>>
      /\ UNCHANGED <<ints, ep_complete, ep_continue>>
  BY DEF TaskBegin, registers, outside
<1>2. Others /\ Pass
  BY TypesSplit DEF ReportInv
<1>3. task'.pc = "setup" /\ task'.ints = ints /\ task'.e = task.e /\ task.pc = "loop"
  BY <1>1, <1>2 DEF Others, TaskTypes, At
<1>4. line = "idle"
  BY <1>1, <1>2 DEF ReportInv, Down, Others
<1>5. Pass'
  BY <1>1, <1>2, <1>3 DEF Pass, At, Moving, Clearing
<1>6. (Pending' <=> Pending) /\ (Continuing' => Continuing)
  BY <1>1, <1>3 DEF Pending, Continuing, At
<1>7. Carried("in0") /\ Carried("key")
  BY <1>1, <1>3 DEF Carried, Moving, Clearing
<1> QED BY <1>1, <1>3, <1>4, <1>5, <1>6, <1>7 DEF Still, Winding

(* The task is in the middle of a pass before and after the step, and moves *)
(* or clears after it what it did before.                                   *)
Onward == /\ task'.ints = task.ints
          /\ task.pc \notin {"loop", "setup", "line"} /\ task'.pc \notin {"loop", "setup", "line"}
          /\ task'.pc \in Moving => task'.e = task.e /\ task.pc \in Moving
          /\ At("clear") => task'.pc = "store-continue" /\ task'.e = task.e
          /\ At("store-continue") => ep_continue' \subseteq ep_continue \ {task.e}
          /\ task.pc \in Winding => task'.pc \in Winding

(* Such a step is still.                                                    *)
LEMMA OnwardStill ==
    ASSUME TypesInv, ReportInv, Onward, Pass',
           UNCHANGED <<ep, new_devaddr, setup_packet, desc, dev_addr, host, line, handed, heard>>,
           ints' \subseteq ints \cup {"complete"}, ep_continue' \subseteq ep_continue
    PROVE  Still
<1>1. line = "idle"
  <2>1. Others
    BY TypesSplit
  <2> QED BY <2>1 DEF ReportInv, Down, Onward, Others
<1>2. ~Pending /\ ~Pending'
  BY DEF Onward, Pending, At
<1>3. Continuing' => Continuing
  BY DEF Continuing, Onward
<1>4. ASSUME NEW e \in {"in0", "key"} PROVE Carried(e)
  BY DEF Carried, Onward, Moving, Clearing, At
<1> QED BY <1>1, <1>2, <1>3, <1>4 DEF Still, Onward

(* A load: what was read goes into the register.                            *)
LEMMA LoadStill == ASSUME TypesInv, ReportInv, TaskLoad PROVE Still
<1>1. /\ UNCHANGED <<ep, new_devaddr, setup_packet, desc, dev_addr, host, line, handed, heard>>
      /\ UNCHANGED <<ints, ep_complete, ep_continue>>
  BY DEF TaskLoad, registers, outside
<1>2. /\ task \in TaskTypes /\ ints \subseteq Ints /\ ep_complete \subseteq Endpoints
      /\ ep_continue \subseteq Endpoints /\ Pass /\ task.e \in Endpoints
  BY TypesSplit DEF ReportInv, Others, Endpoints, TaskTypes
<1>3. ASSUME NEW pc \in Pcs, NEW reg \in SUBSET (Ints \cup Endpoints), Goto(pc, reg)
      PROVE  task'.pc = pc /\ task'.reg = reg /\ task'.ints = task.ints /\ task'.e = task.e
  BY <1>2, <1>3 DEF Goto, TaskTypes
<1>4. Onward /\ Pass' => Still
  BY <1>1, OnwardStill
<1>5. CASE At("completed") /\ Goto("store-complete", ep_complete \ task.reg)
  <2>1. /\ task'.pc = "store-complete" /\ task'.ints = task.ints /\ task'.e = task.e
    BY <1>2, <1>3, <1>5 DEF Pcs
  <2> QED BY <1>1, <1>2, <1>4, <1>5, <2>1 DEF Onward, Pass, At, Moving, Clearing, Winding
<1>6. CASE At("raise") /\ Goto("store-raised", ints \cup {"complete"})
  <2>1. /\ task'.pc = "store-raised" /\ task'.ints = task.ints /\ task'.e = task.e
        /\ task'.reg = ints \cup {"complete"}
    BY <1>2, <1>3, <1>6 DEF Pcs, Moving, Ints
  <2> QED BY <1>1, <1>2, <1>4, <1>6, <2>1 DEF Onward, Pass, At, Moving, Clearing, Winding
<1>7. CASE At("mark") /\ Goto("store-marked", ep_complete \cup {task.e})
  <2>1. /\ task'.pc = "store-marked" /\ task'.ints = task.ints /\ task'.e = task.e
    BY <1>2, <1>3, <1>7 DEF Pcs, Moving
  <2> QED BY <1>1, <1>2, <1>4, <1>7, <2>1 DEF Onward, Pass, At, Moving, Clearing, Winding
<1>8. CASE At("clear") /\ Goto("store-continue", ep_continue \ {task.e})
  <2>1. /\ task'.pc = "store-continue" /\ task'.ints = task.ints /\ task'.e = task.e
        /\ task'.reg = ep_continue \ {task.e}
    BY <1>2, <1>3, <1>8 DEF Pcs, Clearing
  <2>2. Onward
    BY <1>1, <1>8, <2>1 DEF Onward, At, Moving, Clearing, Winding
  <2>3. Pass'
    BY <1>1, <1>2, <1>8, <2>1 DEF Pass, At, Moving, Clearing
  <2> QED BY <1>4, <2>2, <2>3
<1>9. CASE At("end") /\ Goto("store-ints", ints \ task.ints)
  <2>1. /\ task'.pc = "store-ints" /\ task'.ints = task.ints /\ task'.e = task.e
        /\ task'.reg = ints \ task.ints
    BY <1>2, <1>3, <1>9 DEF Pcs
  <2> QED BY <1>1, <1>2, <1>4, <1>9, <2>1 DEF Onward, Pass, At, Moving, Clearing, Winding
<1> QED BY <1>5, <1>6, <1>7, <1>8, <1>9 DEF TaskLoad

(* A store: the register goes back, over what the interrupt has set since.  *)
LEMMA StoreStill == ASSUME TypesInv, ReportInv, TaskStore PROVE Still
<1>1. UNCHANGED <<ep, new_devaddr, setup_packet, desc, dev_addr, host, line, handed, heard>>
  BY DEF TaskStore, outside
<1>2. task \in TaskTypes /\ Pass
  BY TypesSplit DEF ReportInv, Others
<1>3. ASSUME NEW pc \in Pcs, task' = [task EXCEPT !.pc = pc]
      PROVE  task'.pc = pc /\ task'.reg = task.reg /\ task'.ints = task.ints /\ task'.e = task.e
  BY <1>2, <1>3 DEF TaskTypes
<1>4. CASE /\ At("store-complete") /\ ep_complete' = task.reg
           /\ task' = [task EXCEPT !.pc = "continue"] /\ UNCHANGED <<ints, ep_continue>>
  <2>1. "continue" \in Pcs
    BY DEF Pcs
  <2>2. Onward /\ Pass'
    BY <1>1, <1>2, <1>3, <1>4, <2>1 DEF Onward, Pass, At, Moving, Clearing, Winding
  <2> QED BY <1>1, <1>4, <2>2, OnwardStill
<1>5. CASE /\ At("store-raised") /\ ints' = task.reg
           /\ task' = [task EXCEPT !.pc = "mark"] /\ UNCHANGED <<ep_complete, ep_continue>>
  <2>1. "mark" \in Pcs
    BY DEF Pcs, Moving
  <2>2. Onward /\ Pass' /\ ints' \subseteq ints \cup {"complete"}
    BY <1>1, <1>2, <1>3, <1>5, <2>1 DEF Onward, Pass, At, Moving, Clearing, Winding
  <2> QED BY <1>1, <1>5, <2>2, OnwardStill
<1>6. CASE /\ At("store-continue") /\ ep_continue' = task.reg
           /\ task' = NextEndpoint /\ UNCHANGED <<ints, ep_complete>>
  <2>1. task'.pc \in {"continue", "end"} /\ task'.ints = task.ints /\ task'.reg = task.reg
    BY <1>2, <1>6 DEF NextEndpoint, TaskTypes, Pcs
  <2>2. Onward /\ Pass' /\ ep_continue' \subseteq ep_continue
    BY <1>1, <1>2, <1>6, <2>1 DEF Onward, Pass, At, Moving, Clearing, Winding
  <2> QED BY <1>1, <1>6, <2>2, OnwardStill
<1>7. CASE /\ At("store-ints") /\ ints' = task.reg
           /\ task' = [task EXCEPT !.pc = "desc"] /\ UNCHANGED <<ep_complete, ep_continue>>
  <2>1. "desc" \in Pcs
    BY DEF Pcs
  <2>2. Onward /\ Pass' /\ ints' \subseteq ints
    BY <1>1, <1>2, <1>3, <1>7, <2>1 DEF Onward, Pass, At, Moving, Clearing, Winding
  <2> QED BY <1>1, <1>7, <2>2, OnwardStill
<1> QED BY <1>4, <1>5, <1>6, <1>7 DEF TaskStore

(* An endpoint is taken up when its flag is set, or passed over.            *)
LEMMA ContinueStill == ASSUME TypesInv, ReportInv, TaskContinue PROVE Still
<1>1. /\ UNCHANGED <<ep, new_devaddr, setup_packet, desc, dev_addr, host, line, handed, heard>>
      /\ UNCHANGED <<ints, ep_complete, ep_continue>> /\ At("continue")
  BY DEF TaskContinue, registers, outside
<1>2. task \in TaskTypes /\ Pass /\ line \in {"idle", "SE0"}
  BY TypesSplit DEF ReportInv, Others
<1>3. CASE ~("continue" \in task.ints /\ Flagged(task.e))
  <2>1. task' = NextEndpoint
    BY <1>3 DEF TaskContinue
  <2>2. task'.pc \in {"continue", "end"} /\ task'.ints = task.ints /\ task'.reg = task.reg
    BY <1>1, <1>2, <2>1 DEF NextEndpoint, TaskTypes, Pcs, At
  <2>3. Onward /\ Pass'
    BY <1>1, <1>2, <2>2 DEF Onward, Pass, At, Moving, Clearing, Winding
  <2> QED BY <1>1, <2>3, OnwardStill
<1>4. CASE "continue" \in task.ints /\ Flagged(task.e)
  <2>1. \/ task' = [task EXCEPT !.pc = "raise"]
        \/ task' = [task EXCEPT !.pc = "encode"]
    BY <1>4 DEF TaskContinue
  <2>2. /\ task'.pc \in {"raise", "encode"} /\ task'.ints = task.ints
        /\ task'.reg = task.reg /\ task'.e = task.e
    BY <1>2, <2>1 DEF TaskTypes, Pcs, Moving
  <2>3. Pass' /\ task.e \in ep_continue
    BY <1>1, <1>2, <1>4, <2>2 DEF Pass, At, Moving, Clearing, Flagged
  <2>4. ASSUME NEW e \in {"in0", "key"} PROVE Carried(e)
    BY <1>1, <1>4, <2>2, <2>3 DEF Carried, Moving, Clearing, At
  <2>5. line = "idle" /\ ~Pending /\ ~Pending'
    BY <1>1, <1>2, <2>2 DEF ReportInv, Down, Pending, At
  <2>6. Continuing' => Continuing
    BY <1>1, <2>2 DEF Continuing
  <2> QED BY <1>1, <1>4, <2>3, <2>4, <2>5, <2>6 DEF Still
<1> QED BY <1>3, <1>4

(* No request in the pass.                                                  *)
LEMMA SetupStill == ASSUME TypesInv, ReportInv, TaskSetup, "setup" \notin task.ints PROVE Still
<1>1. /\ UNCHANGED <<ints, ep_complete, ep_continue, setup_packet, dev_addr, host, line, handed, heard>>
      /\ UNCHANGED <<ep, desc, new_devaddr>>
      /\ task.pc = "setup" /\ task'.ints = task.ints /\ task'.reg = task.reg /\ task'.e = "in0"
      /\ task'.pc = IF "complete" \in task.ints THEN "complete" ELSE "continue"
  BY SetupTypes DEF Setup
<1>2. line = "idle"
  BY <1>1, TypesSplit DEF Others, ReportInv, Down
<1>3. Pass'
  BY <1>1 DEF ReportInv, Pass, At, Moving, Clearing
<1>4. ~Pending /\ ~Pending' /\ (Continuing' <=> Continuing)
  BY <1>1 DEF Pending, Continuing, At
<1>5. Carried("in0") /\ Carried("key")
  BY <1>1 DEF Carried, Moving, Clearing
<1> QED BY <1>1, <1>2, <1>3, <1>4, <1>5 DEF Still, Winding

(* No read was put off.                                                     *)
LEMMA DescriptorStill == ASSUME TypesInv, ReportInv, TaskDescriptor, ~Deferred PROVE Still
<1>1. /\ UNCHANGED <<ints, ep_complete, ep_continue, setup_packet, new_devaddr,
                     dev_addr, host, line, handed, heard>>
      /\ UNCHANGED <<ep, desc>> /\ (task.pc = "desc" \/ (task.pc = "loop" /\ ints = {}))
      /\ task'.pc = "line" /\ task'.ints = task.ints /\ task'.e = task.e /\ task'.reg = task.reg
  BY DescriptorTypes DEF Deferred
<1>2. Pass'
  BY <1>1 DEF ReportInv, Pass, At, Moving, Clearing, Deferred
<1>3. ~Pending /\ ~Pending' /\ (Continuing' <=> Continuing)
  BY <1>1 DEF Pending, Continuing, At
<1>4. Carried("in0") /\ Carried("key")
  BY <1>1 DEF Carried, Moving, Clearing
<1> QED BY <1>1, <1>2, <1>3, <1>4 DEF Still

(* No reset at the end of the loop.                                         *)
LEMMA LineStill == ASSUME TypesInv, ReportInv, TaskLine, line # "SE0" PROVE Still
<1>1. /\ UNCHANGED <<ints, ep_continue, setup_packet, desc, new_devaddr, dev_addr, host, line, handed, heard>>
      /\ UNCHANGED ep /\ line = "idle"
      /\ task.pc = "line" /\ task'.pc = "loop" /\ task'.ints = {} /\ task'.e = "in0"
  BY LineTypes, TypesSplit DEF Others
<1>2. "setup" \notin ints /\ ~Deferred
  BY <1>1 DEF ReportInv, Pass, Deferred
<1>3. Pass'
  BY <1>1, <1>2 DEF Pass, At, Moving, Clearing, Deferred
<1>4. ~Pending /\ ~Pending' /\ (Continuing' => Continuing)
  BY <1>1, <1>2 DEF Pending, Continuing, At
<1>5. Carried("in0") /\ Carried("key")
  BY <1>1 DEF Carried, Moving, Clearing
<1> QED BY <1>1, <1>2, <1>3, <1>4, <1>5 DEF Still

-----------------------------------------------------------------------------
(* The reports, while the task has caught up before each setup and reset.   *)

(* At first the bus is reset and nothing has been handed over.              *)
LEMMA ReportInit == Init => ReportInv
<1> SUFFICES ASSUME Init PROVE ReportInv
  OBVIOUS
<1>1. key = FreeEndpoint(NoRequest)
  BY DEF Init, key, Endpoints
<1>2. host.stage = "idle" /\ ~host.ready /\ host.key = 0
  BY DEF Init, NewHost
<1>3. Pass /\ Down /\ Up /\ Kinds /\ PendingInv /\ Empty
  BY <1>2 DEF Init, Pass, Down, Up, Kinds, PendingInv, Pending, Empty, At, Moving, Clearing
<1>4. Configuration /\ Reports /\ ReportsOnce
  BY <1>1, <1>2 DEF Init, Configuration, Reports, ReportsOnce, Moving, FreeEndpoint, key
<1> QED BY <1>3, <1>4 DEF ReportInv

(* A step that leaves the pool and the host alone.                          *)
LEMMA StillReport == ASSUME ReportInv, Still PROVE ReportInv'
<1>1. /\ in0' = in0 /\ out0' = out0 /\ key' = key
      /\ UNCHANGED <<ep, setup_packet, desc, host, line, handed, heard>>
  BY DEF Still, in0, out0, key
<1>2. KeyFresh' = KeyFresh /\ KeyTaken' = KeyTaken /\ Deferred' = Deferred /\ Pending' = Pending
  BY <1>1 DEF KeyFresh, KeyTaken, Deferred, Still, Pending
<1>3. Pass' /\ Down' /\ Up' /\ Kinds'
  BY <1>1 DEF Still, ReportInv, Down, Up, Kinds
<1>4. PendingInv' /\ Empty' /\ Configuration'
  BY <1>1, <1>2 DEF ReportInv, PendingInv, Empty, Configuration, Configured
<1>5. ASSUME task'.e = "key", task'.pc \in Moving PROVE key.has_transfer /\ KeyTaken
  <2>1. Reports /\ Carried("key") /\ (At("continue") => task.pc \notin Clearing)
    BY DEF ReportInv, Still, At, Clearing
  <2> QED BY <1>5, <2>1 DEF Reports, Carried
<1>6. ASSUME "key" \in ep_continue'
      PROVE  (key.has_transfer /\ KeyTaken) \/ (task'.e = "key" /\ task'.pc \in Clearing)
  BY <1>6 DEF Still, ReportInv, Reports, Carried
<1>7. Reports'
  BY <1>1, <1>2, <1>5, <1>6 DEF ReportInv, Reports
<1>8. ReportsOnce'
  BY <1>1 DEF ReportInv, ReportsOnce, key
<1> QED BY <1>3, <1>4, <1>7, <1>8 DEF ReportInv

(* SET_CONFIGURATION opens the endpoint of the reports, others leave it.    *)
LEMMA SetupReport == ASSUME TypesInv, ReportInv, TaskSetup PROVE ReportInv'
<1>1. CASE "setup" \notin task.ints
  BY <1>1, SetupStill, StillReport
<1>2. CASE "setup" \in task.ints
  <2>1. /\ Staged(setup_packet) /\ Opened(setup_packet) /\ Sizes
        /\ UNCHANGED <<ints, ep_complete, ep_continue, setup_packet, dev_addr, host, line, handed, heard>>
        /\ task.pc = "setup" /\ task'.ints = task.ints /\ task'.reg = task.reg /\ task'.e = "in0"
        /\ task'.pc = IF "complete" \in task.ints THEN "complete" ELSE "continue"
    BY <1>2, SetupTypes DEF Setup
  <2>2. /\ Pending /\ ~Pending' /\ setup_packet = host.req /\ ~in0.has_transfer
        /\ host.stage \in {"data-in", "data-out", "status-in"}
        /\ host.stage = "status-in" => host.req.kind # "report"
    BY <1>2, <2>1 DEF Pending, At, ReportInv, PendingInv
  <2>3. line = "idle" /\ ~Deferred /\ host \in HostTypes
    BY <2>1, TypesSplit DEF Others, ReportInv, Down, Pass, Deferred
  <2>4. Pass'
    <3>1. desc' # NoRequest => task'.pc \notin {"loop", "setup", "line"}
      BY <2>1
    <3> QED BY <2>1, <3>1 DEF ReportInv, Pass, At, Moving, Clearing
  <2>5. Down' /\ Up' /\ Kinds' /\ PendingInv'
    BY <2>1, <2>2, <2>3 DEF ReportInv, Down, Up, Kinds, PendingInv, Sizes
  <2>6. Empty'
    <3>1. ASSUME host.stage \in {"data-out", "status-in"} PROVE host.req \notin Reads
      BY <3>1, ReadLength DEF ReportInv, Kinds
    <3>2. ASSUME NEW data, Started(data, 0) PROVE in0'.total_len = 0 /\ in0'.buffer.len = 0
      <4>1. Begun(in0, in0', data, 0) /\ in0.is_tx /\ in0.size = EP0_SIZE
        BY <2>2, <2>3, <3>2 DEF Started, ReportInv, Up
      <4> QED BY <4>1 DEF Begun, EP0_SIZE
    <3>3. ASSUME host.stage \in {"data-out", "status-in"}
          PROVE  /\ ~Deferred' /\ in0'.total_len = 0 /\ in0'.buffer.len = 0
      <4>1. (\E data \in Asked : Started(data, 0)) /\ desc' = desc
        BY <2>1, <2>2, <3>1, <3>3 DEF Staged
      <4> QED BY <2>3, <3>2, <4>1 DEF Deferred
    <3> QED BY <2>1, <3>3 DEF Empty
  <2>7. CASE host.req.kind # "configure"
    <3>1. key' = key /\ ~Configured /\ ~Configured'
      BY <2>1, <2>2, <2>7 DEF Opened, Configured
    <3>2. Configuration' /\ ReportsOnce'
      BY <2>1, <3>1 DEF ReportInv, Configuration, ReportsOnce, key
    <3>3. Reports'
      BY <2>1, <3>1 DEF ReportInv, Reports, KeyFresh, KeyTaken, Moving, Clearing
    <3> QED BY <2>4, <2>5, <2>6, <3>2, <3>3 DEF ReportInv
  <2>8. CASE host.req.kind = "configure"
    <3>1. host.stage = "status-in" /\ ~host.ready /\ host.key = 0
      BY <2>2, <2>8, ReadLength DEF ReportInv, Kinds, Configuration
    <3>2. key = FreeEndpoint(NoRequest) /\ handed = 0 /\ heard = 0
      BY <2>2, <2>3, <3>1 DEF ReportInv, Configuration, Configured
    <3>3. key'.size = REPORT_LEN /\ key'.is_tx /\ key'.data_id = 0 /\ ~key'.has_transfer
      BY <2>1, <2>2, <2>8, <3>2 DEF Opened, FreeEndpoint
    <3>4. Configured' /\ DataPid(key') = 0 /\ REPORT_LEN # 0
      <4>1. Configured'
        BY <2>1, <2>2, <2>8, <3>1 DEF Configured
      <4> QED BY <3>3, <4>1 DEF DataPid, REPORT_LEN
    <3>5. "key" \notin ep_continue
      BY <2>1, <3>2 DEF ReportInv, Reports, FreeEndpoint, Clearing
    <3>6. Configuration'
      BY <2>1, <2>3, <3>1, <3>2, <3>3, <3>4 DEF Configuration
    <3>7. Reports' /\ ReportsOnce'
      BY <2>1, <3>1, <3>2, <3>3, <3>4, <3>5 DEF Reports, ReportsOnce, Moving, key
    <3> QED BY <2>4, <2>5, <2>6, <3>6, <3>7 DEF ReportInv
  <2> QED BY <2>7, <2>8
<1> QED BY <1>1, <1>2

(* What keeps the reports: the same endpoint and the same host.             *)
LEMMA SameReports ==
    ASSUME ReportInv, key' = key, UNCHANGED <<line, handed, heard, ep_continue>>,
           host'.key = host.key, host'.ready = host.ready,
           host'.stage # "idle" /\ host'.req.kind = "configure" =>
               host.stage # "idle" /\ host.req.kind = "configure",
           Configured' <=> Configured,
           task'.e = "key" /\ task'.pc \in Moving => task.e = "key" /\ task.pc \in Moving,
           task.e = "key" /\ task.pc \in Clearing => task'.e = "key" /\ task'.pc \in Clearing
    PROVE  Configuration' /\ Reports' /\ ReportsOnce'
<1>1. KeyFresh' = KeyFresh /\ KeyTaken' = KeyTaken
  BY DEF KeyFresh, KeyTaken
<1>2. Configuration' /\ ReportsOnce'
  BY DEF ReportInv, Configuration, ReportsOnce, key
<1>3. Reports'
  BY <1>1 DEF ReportInv, Reports
<1> QED BY <1>2, <1>3

(* The end of a control stage.                                              *)
LEMMA CompleteReport == ASSUME TypesInv, ReportInv, TaskComplete PROVE ReportInv'
<1>1. /\ Sizes /\ key' = key
      /\ in0' = in0 \/ (~in0.has_transfer /\ Begun(in0, in0', NoRequest, 0))
      /\ UNCHANGED <<ints, ep_complete, ep_continue, setup_packet, desc, new_devaddr,
                     dev_addr, host, line, handed, heard>>
      /\ task.pc = "complete" /\ task'.pc = "completed" /\ task'.ints = task.ints
      /\ task'.reg = ep_complete /\ task'.e = task.e
  BY CompleteTypes
<1>2. line = "idle" /\ ~Pending /\ ~Pending' /\ Deferred' = Deferred
  BY <1>1, TypesSplit DEF Others, ReportInv, Down, Pending, Deferred, At
<1>3. Pass' /\ Down' /\ Up' /\ Kinds' /\ PendingInv'
  BY <1>1, <1>2 DEF ReportInv, Pass, Down, Up, Kinds, PendingInv, Sizes, At, Moving, Clearing
<1>4. Empty'
  <2>1. in0.size = EP0_SIZE /\ in0.is_tx
    BY <1>2 DEF ReportInv, Up
  <2>2. Begun(in0, in0', NoRequest, 0) => in0'.total_len = 0 /\ in0'.buffer.len = 0
    BY <2>1 DEF Begun, EP0_SIZE
  <2> QED BY <1>1, <1>2, <2>2 DEF ReportInv, Empty
<1>5. Configured' <=> Configured
  BY <1>1, <1>2 DEF Configured
<1>6. Configuration' /\ Reports' /\ ReportsOnce'
  BY <1>1, <1>5, SameReports DEF Moving, Clearing
<1> QED BY <1>3, <1>4, <1>6 DEF ReportInv

(* A read that was put off is answered.                                     *)
LEMMA DescriptorReport == ASSUME TypesInv, ReportInv, TaskDescriptor PROVE ReportInv'
<1>1. CASE ~Deferred
  BY <1>1, DescriptorStill, StillReport
<1>2. CASE Deferred
  <2>1. /\ Sizes /\ key' = key
        /\ UNCHANGED <<ints, ep_complete, ep_continue, setup_packet, new_devaddr,
                       dev_addr, host, line, handed, heard>>
        /\ desc' = NoRequest /\ (task.pc = "desc" \/ (task.pc = "loop" /\ ints = {}))
        /\ task'.pc = "line" /\ task'.ints = task.ints /\ task'.e = task.e /\ task'.reg = task.reg
    BY DescriptorTypes
  <2>2. ~Pending /\ ~Pending' /\ ~Deferred' /\ host.stage \notin {"data-out", "status-in"}
    BY <1>2, <2>1 DEF ReportInv, Pending, Deferred, Empty, At
  <2>3. Pass' /\ Down' /\ Up' /\ Kinds' /\ PendingInv' /\ Empty'
    BY <2>1, <2>2 DEF ReportInv, Pass, Down, Up, Kinds, PendingInv, Empty, Sizes, At, Moving, Clearing
  <2>4. Configured' <=> Configured
    BY <2>1, <2>2 DEF Configured
  <2>5. Configuration' /\ Reports' /\ ReportsOnce'
    BY <2>1, <2>4, SameReports DEF Moving, Clearing
  <2> QED BY <2>3, <2>5 DEF ReportInv
<1> QED BY <1>1, <1>2

(* A transfer goes on.  The report was taken before, and it is the only     *)
(* packet of its transfer.                                                  *)
LEMMA ContinuedReport == ASSUME TypesInv, ReportInv, TaskContinued PROVE ReportInv'
<1>1. /\ out0' = out0
      /\ \/ task.e = "in0" /\ Advanced(in0, in0', TransactionLen(in0)) /\ key' = key
         \/ task.e = "key" /\ Advanced(key, key', TransactionLen(key)) /\ in0' = in0
      /\ UNCHANGED <<ints, ep_continue, setup_packet, desc, new_devaddr,
                     dev_addr, host, line, handed, heard>>
      /\ task.pc \in {"encode", "store-marked"} /\ task.pc \in Moving
      /\ task'.pc = "clear" /\ task'.ints = task.ints /\ task'.e = task.e /\ task'.reg = task.reg
  BY ContinuedTypes DEF Moving
<1>2. line = "idle" /\ ~Pending /\ ~Pending' /\ (Deferred' <=> Deferred) /\ (Configured' <=> Configured)
  BY <1>1, TypesSplit DEF Others, ReportInv, Down, Pending, Deferred, Configured, At
<1>3. Pass' /\ Down' /\ Kinds' /\ PendingInv'
  BY <1>1, <1>2 DEF ReportInv, Pass, Down, Kinds, PendingInv, At, Moving, Clearing
<1>4. Up'
  BY <1>1 DEF ReportInv, Up, Advanced
<1>5. Empty'
  <2>1. ASSUME task.e = "in0", Advanced(in0, in0', TransactionLen(in0)), in0'.has_transfer
        PROVE  in0.has_transfer /\ in0.total_len # 0
    <3>1. in0.has_transfer /\ ~LastPacket(in0, TransactionLen(in0))
      BY <2>1 DEF Advanced
    <3>2. in0 \in Slots /\ in0.actual_len <= in0.total_len
      BY TypesSplit, SlotTypes DEF Pool
    <3>3. in0.size \in {0, 8, 64} /\ in0.actual_len \in Nat /\ in0.total_len \in Nat
      BY <3>2 DEF Slots, Ep, Endpoint, REPORT_LEN, EP0_SIZE
    <3> QED BY <3>1, <3>2, <3>3 DEF LastPacket, TransactionLen
  <2> QED BY <1>1, <1>2, <2>1 DEF ReportInv, Empty
<1>6. CASE task.e = "in0"
  <2>1. Configuration' /\ Reports' /\ ReportsOnce'
    BY <1>1, <1>2, <1>6, SameReports
  <2> QED BY <1>3, <1>4, <1>5, <2>1 DEF ReportInv
<1>7. CASE task.e = "key"
  <2>1. /\ key.has_transfer /\ KeyTaken /\ key.buffer.pid = DataPid(key)
        /\ key.total_len = REPORT_LEN /\ key.actual_len = 0
    BY <1>1, <1>2, <1>7 DEF ReportInv, Reports
  <2>2. key.size = REPORT_LEN /\ key.is_tx
    BY <2>1 DEF ReportInv, Configuration, FreeEndpoint
  <2>3. LastPacket(key, TransactionLen(key))
    BY <2>1, <2>2 DEF LastPacket, TransactionLen, REPORT_LEN
  <2>4. /\ ~key'.has_transfer /\ key'.size = REPORT_LEN /\ key'.is_tx
        /\ key'.data_id = 1 - key.data_id
    BY <1>1, <1>7, <2>2, <2>3 DEF Advanced
  <2>5. DataPid(key') = host.key
    <3>1. key.data_id \in Pids /\ host.key \in {0, 1}
      BY TypesSplit, SlotTypes DEF Slots, Others, HostTypes
    <3> QED BY <2>1, <2>4, <3>1 DEF DataPid, Pids, KeyTaken
  <2>6. REPORT_LEN # 0 /\ heard = handed
    BY <2>1 DEF REPORT_LEN, KeyTaken
  <2>7. Configuration'
    BY <1>1, <1>2, <2>2, <2>4, <2>6 DEF ReportInv, Configuration
  <2>8. Reports' /\ ReportsOnce'
    BY <1>1, <1>2, <1>7, <2>4, <2>5, <2>6 DEF Reports, ReportsOnce, Moving, Clearing, key
  <2> QED BY <1>3, <1>4, <1>5, <2>7, <2>8 DEF ReportInv
<1> QED BY <1>1, <1>6, <1>7

(* A bus reset ends the reports.                                            *)
LEMMA LineReport == ASSUME TypesInv, ReportInv, TaskLine PROVE ReportInv'
<1>1. CASE line # "SE0"
  BY <1>1, LineStill, StillReport
<1>2. CASE line = "SE0"
  <2>1. /\ Reset /\ UNCHANGED <<ep_continue, setup_packet, desc, new_devaddr, host>>
        /\ task.pc = "line" /\ task'.pc = "loop" /\ task'.ints = {} /\ task'.e = "in0"
    BY <1>2, LineTypes
  <2>2. host = NewHost /\ ints' = {"reset"} /\ ep_continue' = {} /\ line' = "idle" /\ ~Deferred
    BY <1>2, <2>1 DEF ReportInv, Down, Reset, Pass, Deferred
  <2>3. host'.stage = "idle" /\ ~host'.ready /\ host'.key = 0
    BY <2>1, <2>2 DEF NewHost
  <2>4. /\ in0'.size = EP0_SIZE /\ in0'.is_tx /\ out0'.size = EP0_SIZE /\ ~out0'.is_tx
        /\ key'.size = 0 /\ ~key'.has_transfer /\ key'.data_id = 0 /\ key' = FreeEndpoint(NoRequest)
    BY <2>1 DEF Reset, ControlEndpoint, FreeEndpoint
  <2>5. ~Pending' /\ ~Deferred'
    BY <2>1, <2>2 DEF Pending, Deferred, At
  <2>6. Pass' /\ Down' /\ Up' /\ Kinds' /\ PendingInv' /\ Empty'
    BY <2>1, <2>2, <2>3, <2>4, <2>5
       DEF Pass, Down, Up, Kinds, PendingInv, Empty, Deferred, At, Moving, Clearing
  <2>7. Configuration' /\ Reports' /\ ReportsOnce'
    BY <2>1, <2>2, <2>3, <2>4, <2>5
       DEF Reset, Configuration, Configured, Reports, ReportsOnce, DataPid, Moving, key
  <2> QED BY <2>6, <2>7 DEF ReportInv
<1> QED BY <1>1, <1>2

(* A report is handed over.                                                 *)
LEMMA TransferReport == ASSUME TypesInv, ReportInv, pio_usb_device_transfer PROVE ReportInv'
<1>1. /\ Begun(key, key', NoRequest, REPORT_LEN) /\ in0' = in0 /\ out0' = out0
      /\ task.pc = "loop" /\ key.size > 0 /\ ~key.has_transfer /\ handed' = handed + 1
      /\ UNCHANGED <<ints, ep_complete, ep_continue, setup_packet, desc, task, new_devaddr,
                     dev_addr, host, line, heard>>
  BY TransferTypes
<1>2. /\ key'.has_transfer /\ key'.data_id = key.data_id /\ key'.size = key.size
      /\ key'.is_tx = key.is_tx /\ key'.total_len = REPORT_LEN /\ key'.actual_len = 0
      /\ key.is_tx => key'.buffer.pid = DataPid(key)
  BY <1>1 DEF Begun
<1>3. Pending' = Pending /\ Deferred' = Deferred /\ Configured' = Configured
  BY <1>1 DEF Pending, Deferred, Configured, At
<1>4. Pass' /\ Down' /\ Up' /\ Kinds'
  BY <1>1 DEF ReportInv, Pass, Down, Up, Kinds, At
<1>5. PendingInv' /\ Empty'
  BY <1>1, <1>3 DEF ReportInv, PendingInv, Empty
<1>6. handed \in Nat /\ heard \in Nat /\ heard = handed
  BY <1>1, TypesSplit, DeviceAssumption DEF Others, ReportInv, ReportsOnce, key
<1>7. "key" \notin ep_continue /\ ~(task.pc \in Moving)
  BY <1>1 DEF ReportInv, Reports, Moving, Clearing
<1>8. Configuration' /\ ReportsOnce'
  BY <1>1, <1>2, <1>3, <1>6 DEF ReportInv, Configuration, ReportsOnce, key
<1>9. Reports'
  <2>1. line = "idle" => DataPid(key) = host.key
    BY <1>1 DEF ReportInv, Reports
  <2>2. key.is_tx /\ DataPid(key') = DataPid(key)
    BY <1>1, <1>2 DEF ReportInv, Configuration, DataPid
  <2>3. key'.buffer.pid = DataPid(key') /\ (line = "idle" => KeyFresh')
    BY <1>1, <1>2, <1>6, <2>1, <2>2 DEF KeyFresh
  <2> QED BY <1>1, <1>2, <1>7, <2>3 DEF Reports
<1> QED BY <1>4, <1>5, <1>8, <1>9 DEF ReportInv

(* A setup finds the task at rest.                                          *)
LEMMA SetupTokenReport == ASSUME Prompt, TypesInv, ReportInv, SetupToken PROVE ReportInv'
<1>1. /\ Sizes /\ key' = key /\ ~in0'.has_transfer /\ ~out0'.has_transfer
      /\ line = "idle" /\ host.stage = "idle" /\ Idle
      /\ ints' = ints \cup {"setup"} /\ setup_packet' \in Requests
      /\ setup_packet'.kind = "configure" => ~host.ready
      /\ host'.req = setup_packet' /\ host'.key = host.key /\ host'.ready = host.ready
      /\ host'.stage = IF setup_packet' \in Reads THEN "data-in"
                       ELSE IF setup_packet'.kind = "report" THEN "data-out" ELSE "status-in"
      /\ UNCHANGED <<ep_continue, desc, task, line, handed, heard>>
  BY SetupTokenTypes
<1>2. task.pc = "loop" /\ ints' = {"setup"} /\ task.ints = {} /\ ~Deferred
  BY <1>1 DEF Idle, At, ReportInv, Pass, Deferred
<1>3. Pending' /\ ~Deferred' /\ ~Configured /\ ~Configured'
  BY <1>1, <1>2 DEF Pending, Deferred, Configured, At
<1>4. Pass' /\ Down' /\ Up'
  BY <1>1, <1>2 DEF ReportInv, Pass, Down, Up, Sizes, At, Moving, Clearing, Deferred
<1>5. Kinds'
  <2>1. setup_packet' \notin Reads => setup_packet'.kind \in {"report", "address", "configure", "unit"}
    BY <1>1 DEF Requests
  <2> QED BY <1>1, <2>1 DEF Kinds
<1>6. PendingInv' /\ Empty'
  BY <1>1, <1>3 DEF PendingInv, Empty
<1>7. KeyFresh' = KeyFresh /\ KeyTaken' = KeyTaken
  BY <1>1 DEF KeyFresh, KeyTaken
<1>8. Configuration' /\ ReportsOnce'
  BY <1>1, <1>3 DEF ReportInv, Configuration, ReportsOnce, key
<1>9. Reports'
  BY <1>1, <1>7 DEF ReportInv, Reports
<1> QED BY <1>4, <1>5, <1>6, <1>8, <1>9 DEF ReportInv

(* What the interrupt may add to the registers the task works on.           *)
LEMMA InterruptPass ==
    ASSUME Pass, UNCHANGED <<task, desc>>, ints \subseteq ints', "setup" \in ints' => "setup" \in ints,
           ep_continue \subseteq ep_continue'
    PROVE  Pass'
BY DEF Pass, At

(* A packet of endpoint 0 leaves the reports alone, and SET_CONFIGURATION   *)
(* ends with an empty one.                                                  *)
LEMMA InToken0Report == ASSUME TypesInv, ReportInv, InToken0 PROVE ReportInv'
<1>1. /\ in0' = in0 /\ out0' = out0 /\ key' = key
      /\ host.stage \in {"data-in", "status-in"} /\ line = "idle"
      /\ in0.has_transfer /\ host' = HostIn(in0.buffer)
      /\ ints' = ints \cup {"continue"} /\ ep_continue' = ep_continue \cup {"in0"}
      /\ UNCHANGED <<setup_packet, desc, task, line, handed, heard>>
  BY InToken0Types
<1>2. ~Pending /\ ~Pending' /\ Deferred' = Deferred
  BY <1>1 DEF ReportInv, PendingInv, Pending, Deferred, At
<1>3. Pass' /\ Down' /\ Up' /\ PendingInv'
  BY <1>1, <1>2, InterruptPass DEF ReportInv, Down, Up, PendingInv
<1>4. host \in HostTypes
  BY TypesSplit DEF Others
<1>5. CASE host.stage = "status-in"
  <2>1. in0.buffer.len = 0 /\ host.req.kind \in {"report", "address", "configure", "unit"}
    BY <1>1, <1>5 DEF ReportInv, Empty, Kinds
  <2>2. \/ host' = host
        \/ host' = [host EXCEPT !.stage = "idle",
                                !.addr  = IF host.req.kind = "address" THEN 1 ELSE host.addr,
                                !.ready = host.ready \/ host.req.kind = "configure"]
    BY <1>1, <1>4, <1>5, <2>1 DEF HostIn, HostTypes
  <2>3. /\ host'.key = host.key /\ host'.req = host.req
        /\ \/ host'.stage = host.stage /\ host'.ready = host.ready
           \/ host'.stage = "idle" /\ host'.ready = (host.ready \/ host.req.kind = "configure")
    BY <1>4, <2>2 DEF HostTypes
  <2>4. Kinds' /\ Empty'
    BY <1>1, <1>2, <1>5, <2>1, <2>3 DEF ReportInv, Kinds, Empty
  <2>5. KeyFresh' = KeyFresh /\ KeyTaken' = KeyTaken
    BY <1>1, <2>3 DEF KeyFresh, KeyTaken
  <2>6. Configuration'
    BY <1>1, <1>2, <1>5, <2>3 DEF ReportInv, Configuration, Configured
  <2>7. Reports' /\ ReportsOnce'
    BY <1>1, <2>3, <2>5 DEF ReportInv, Reports, ReportsOnce, key
  <2> QED BY <1>3, <2>4, <2>6, <2>7 DEF ReportInv
<1>6. CASE host.stage = "data-in"
  <2>1. host.req \in Reads /\ host.req.kind # "configure"
    BY <1>6, ReadLength DEF ReportInv, Kinds
  <2>2. /\ host'.key = host.key /\ host'.req = host.req /\ host'.ready = host.ready
        /\ host'.stage \in {"data-in", "status-out", "broken"}
    BY <1>1, <1>4, <1>6 DEF HostIn, HostTypes
  <2>3. Kinds' /\ Empty'
    BY <2>1, <2>2 DEF Kinds, Empty
  <2>4. KeyFresh' = KeyFresh /\ KeyTaken' = KeyTaken /\ ~Configured /\ ~Configured'
    BY <1>1, <1>6, <2>2 DEF KeyFresh, KeyTaken, Configured
  <2>5. Configuration'
    BY <1>1, <2>1, <2>2, <2>4 DEF ReportInv, Configuration
  <2>6. Reports' /\ ReportsOnce'
    BY <1>1, <2>2, <2>4 DEF ReportInv, Reports, ReportsOnce, key
  <2> QED BY <1>3, <2>3, <2>5, <2>6 DEF ReportInv
<1> QED BY <1>1, <1>5, <1>6

(* A report is taken the first time it is heard.                            *)
LEMMA InTokenKeyReport == ASSUME TypesInv, ReportInv, InTokenKey PROVE ReportInv'
<1>1. /\ in0' = in0 /\ out0' = out0 /\ key' = key
      /\ host.ready /\ line = "idle" /\ key.has_transfer
      /\ ints' = ints \cup {"continue"} /\ ep_continue' = ep_continue \cup {"key"}
      /\ host'.key = (IF key.buffer.pid = host.key THEN 1 - host.key ELSE host.key)
      /\ heard' = (IF key.buffer.pid = host.key THEN heard + 1 ELSE heard)
      /\ host'.req = host.req /\ host'.stage = host.stage /\ host'.ready = host.ready
      /\ UNCHANGED <<setup_packet, desc, task, line, handed>>
  BY InTokenKeyTypes
<1>2. Pending' = Pending /\ Deferred' = Deferred /\ Configured' = Configured
  BY <1>1 DEF Pending, Deferred, Configured, At
<1>3. Pass' /\ Down' /\ Up' /\ Kinds'
  BY <1>1, InterruptPass DEF ReportInv, Down, Up, Kinds
<1>4. PendingInv' /\ Empty'
  BY <1>1, <1>2 DEF ReportInv, PendingInv, Empty
<1>5. Configuration'
  BY <1>1, <1>2 DEF ReportInv, Configuration, FreeEndpoint
<1>6. key.buffer.pid \in {0, 1} /\ host.key \in {0, 1} /\ handed \in Nat /\ heard \in Nat
  BY TypesSplit, SlotTypes, DeviceAssumption DEF Slots, Ep, Endpoint, Pids, Others, HostTypes
<1>7. KeyTaken'
  BY <1>1, <1>6 DEF ReportInv, Reports, KeyFresh, KeyTaken
<1>8. Reports' /\ ReportsOnce'
  BY <1>1, <1>7 DEF ReportInv, Reports, ReportsOnce, KeyTaken, key
<1> QED BY <1>3, <1>4, <1>5, <1>8 DEF ReportInv

(* Data of the host, or the status of a read.                               *)
LEMMA OutToken0Report == ASSUME TypesInv, ReportInv, OutToken0 PROVE ReportInv'
<1>1. /\ Sizes /\ in0' = in0 /\ key' = key
      /\ host.stage \in {"data-out", "status-out"} /\ line = "idle" /\ out0.has_transfer
      /\ ints' = ints \cup {"complete"}
      /\ host'.req = host.req /\ host'.key = host.key /\ host'.ready = host.ready
      /\ host'.stage = (IF host.stage = "data-out" THEN "status-in" ELSE "idle")
      /\ UNCHANGED <<ep_continue, setup_packet, desc, task, line, handed, heard>>
  BY OutToken0Types
<1>2. ~Pending /\ ~Pending' /\ Deferred' = Deferred
  BY <1>1 DEF ReportInv, PendingInv, Pending, Deferred, At
<1>3. Pass' /\ Down' /\ Up' /\ Kinds' /\ PendingInv' /\ Empty'
  <2>1. Pass'
    BY <1>1, InterruptPass DEF ReportInv
  <2> QED BY <1>1, <1>2, <2>1 DEF ReportInv, Down, Up, Kinds, PendingInv, Empty, Sizes
<1>4. ~Configured /\ ~Configured'
  BY <1>1 DEF ReportInv, Kinds, Configured
<1>5. Configuration' /\ Reports' /\ ReportsOnce'
  BY <1>1, <1>4, SameReports
<1> QED BY <1>3, <1>5 DEF ReportInv

(* A reset finds nothing under way.                                         *)
LEMMA HostResetReport == ASSUME Prompt, TypesInv, ReportInv, HostReset PROVE ReportInv'
<1>1. /\ in0' = in0 /\ out0' = out0 /\ key' = key /\ line = "idle" /\ Idle /\ ep_continue = {}
      /\ line' = "SE0" /\ host' = NewHost
      /\ UNCHANGED <<ep, ints, ep_continue, setup_packet, desc, task, handed, heard>>
  BY HostResetTypes
<1>2. task.pc = "loop" /\ ints = {} /\ ~Pending'
  BY <1>1 DEF Idle, At, Pending
<1>3. host'.stage = "idle" /\ ~host'.ready /\ host'.key = 0
  BY <1>1 DEF NewHost
<1>4. Pass' /\ Down' /\ Up' /\ Kinds' /\ PendingInv' /\ Empty'
  BY <1>1, <1>2, <1>3 DEF ReportInv, Pass, Down, Up, Kinds, PendingInv, Empty, At
<1>5. Configuration' /\ Reports' /\ ReportsOnce'
  BY <1>1, <1>2, <1>3 DEF ReportInv, Configuration, Reports, ReportsOnce, Moving, key
<1> QED BY <1>4, <1>5 DEF ReportInv

(* Every step keeps the reports.                                            *)
LEMMA ReportStep == ASSUME Prompt, TypesInv, ReportInv, [Next]_vars PROVE ReportInv'
<1>1. CASE PacketHandler
  BY <1>1, SetupTokenReport, InToken0Report, InTokenKeyReport, OutToken0Report DEF PacketHandler
<1>2. CASE TaskBegin \/ TaskLoad \/ TaskStore \/ TaskContinue
  BY <1>2, BeginStill, LoadStill, StoreStill, ContinueStill, StillReport
<1>3. CASE TaskSetup \/ TaskComplete \/ TaskContinued \/ TaskDescriptor \/ TaskLine
  BY <1>3, SetupReport, CompleteReport, ContinuedReport, DescriptorReport, LineReport
<1>4. CASE pio_usb_device_transfer \/ HostReset
  BY <1>4, TransferReport, HostResetReport
<1>5. CASE UNCHANGED vars
  <2>1. /\ UNCHANGED <<ep, ints, ep_complete, ep_continue, setup_packet, desc, task, host, line,
                       handed, heard>>
        /\ in0' = in0 /\ out0' = out0 /\ key' = key
    BY <1>5 DEF vars, registers, outside, in0, out0, key
  <2>2. Pending' = Pending /\ Deferred' = Deferred /\ Configured' = Configured
    BY <2>1 DEF Pending, Deferred, Configured, At
  <2>3. Pass' /\ Down' /\ Up' /\ Kinds'
    BY <2>1 DEF ReportInv, Pass, Down, Up, Kinds, At
  <2>4. PendingInv' /\ Empty'
    BY <2>1, <2>2 DEF ReportInv, PendingInv, Empty
  <2>5. Configuration' /\ Reports' /\ ReportsOnce'
    BY <2>1, <2>2, SameReports
  <2> QED BY <2>3, <2>4, <2>5 DEF ReportInv
<1> QED BY <1>1, <1>2, <1>3, <1>4, <1>5 DEF Next, Done, Task

-----------------------------------------------------------------------------
(* The reads, while also no report is polled during a request.              *)

(* At first there is no request.                                            *)
LEMMA ReadInit == Init => ReadInv
<1> SUFFICES ASSUME Init PROVE ReadInv
  OBVIOUS
<1>1. host.stage = "idle" /\ ~Pending /\ ~Deferred
  BY DEF Init, NewHost, Pending, Deferred, At
<1> QED BY <1>1 DEF ReadInv, QuietInv, DeferredInv, WaitingInv, Waiting, DataIn, Moved, Status, ReadsHonest

(* A step that leaves the pool and the host alone.                          *)
LEMMA StillRead == ASSUME ReadInv, Still PROVE ReadInv'
<1>1. in0' = in0 /\ out0' = out0 /\ UNCHANGED <<desc, host>>
  BY DEF Still, in0, out0
<1>2. /\ Serving' = Serving /\ Fresh' = Fresh /\ Taken' = Taken /\ Deferred' = Deferred
      /\ (Waiting' <=> Waiting) /\ (Continuing' => Continuing)
  BY <1>1 DEF Serving, Fresh, Taken, Deferred, Waiting, Still
<1>3. QuietInv'
  BY DEF ReadInv, QuietInv, Still
<1>4. DeferredInv'
  <2>1. Deferred => ~Continuing
    BY DEF ReadInv, WaitingInv, Waiting
  <2> QED BY <1>1, <1>2, <2>1 DEF ReadInv, DeferredInv, Still, Continuing
<1>5. WaitingInv' /\ DataIn' /\ Status' /\ ReadsHonest'
  BY <1>1, <1>2 DEF ReadInv, WaitingInv, DataIn, Status, ReadsHonest
<1>6. Moved'
  <2>1. Moved /\ Carried("in0")
    BY DEF ReadInv, Still
  <2>2. At("continue") => task.pc \notin Clearing
    BY DEF At, Clearing
  <2>3. ASSUME host.stage = "data-in", task'.e = "in0", task'.pc \in Moving PROVE Serving /\ Taken
    <3>1. At("continue") /\ "continue" \in task.ints => Continuing
      BY DEF Continuing
    <3> QED BY <2>1, <2>2, <2>3, <3>1 DEF Moved, Carried
  <2>4. ASSUME host.stage = "data-in", "in0" \in ep_continue', Continuing
        PROVE  (Serving /\ Taken) \/ (task'.e = "in0" /\ task'.pc \in Clearing)
    BY <2>1, <2>4 DEF Moved, Carried, Still
  <2> QED BY <1>1, <1>2, <2>3, <2>4 DEF Moved
<1> QED BY <1>3, <1>4, <1>5, <1>6 DEF ReadInv

(* The first packet of a read, which the host waits for.                    *)
LEMMA ReadStarted ==
    ASSUME host' = host, host.req \in Reads, Started(host.req, Length(host.req)), ~in0.has_transfer,
           in0.size = EP0_SIZE, in0.is_tx, in0.data_id = 1, host.pid = 1, host.got = 0
    PROVE  Serving' /\ Fresh'
<1>1. Begun(in0, in0', host.req, Length(host.req))
  BY DEF Started
<1>2. Length(host.req) \in Nat
  BY ReadLength
<1>3. /\ in0'.has_transfer /\ in0'.data_id = 1 /\ in0'.size = EP0_SIZE /\ in0'.actual_len = 0
      /\ in0'.total_len = Length(host.req) /\ in0'.app_buf = host.req
      /\ in0'.buffer = [pid |-> 1, data |-> host.req, from |-> 0,
                         len |-> IF Length(host.req) < EP0_SIZE THEN Length(host.req) ELSE EP0_SIZE]
  BY <1>1 DEF Begun, DataPid
<1>4. DataPid(in0') = 1 /\ 0 % EP0_SIZE = 0
  BY <1>3 DEF DataPid, EP0_SIZE
<1>5. TransactionLen(in0') = IF Length(host.req) < EP0_SIZE THEN Length(host.req) ELSE EP0_SIZE
  BY <1>2, <1>3 DEF TransactionLen
<1> QED BY <1>3, <1>4, <1>5 DEF Serving, Fresh

(* The request is answered: the first packet of a read, nothing yet, or the *)
(* status.                                                                  *)
LEMMA SetupRead == ASSUME TypesInv, ReportInv, ReadInv, TaskSetup PROVE ReadInv'
<1>1. CASE "setup" \notin task.ints
  BY <1>1, SetupStill, StillRead
<1>2. CASE "setup" \in task.ints
  <2>1. /\ Staged(setup_packet)
        /\ UNCHANGED <<ints, host>>
        /\ task.pc = "setup" /\ task'.ints = task.ints
        /\ task'.pc = IF "complete" \in task.ints THEN "complete" ELSE "continue"
    BY <1>2, SetupTypes DEF Setup
  <2>2. /\ Pending /\ ~Pending' /\ setup_packet = host.req
        /\ host.stage \in {"data-in", "data-out", "status-in"}
        /\ ints = {"setup"} /\ task.ints = {"setup"}
    BY <1>2, <2>1 DEF Pending, At, ReportInv, PendingInv, ReadInv, QuietInv
  <2>3. /\ host.pid = 1 /\ host.got = 0 /\ in0.data_id = 1 /\ ~in0.has_transfer /\ ~out0.has_transfer
    BY <2>2 DEF ReadInv, WaitingInv, Waiting
  <2>4. ~Deferred /\ in0.size = EP0_SIZE /\ in0.is_tx
    BY <2>1, TypesSplit DEF Others, ReportInv, Down, Up, Pass, Deferred
  <2>5. task'.pc = "continue" /\ ~Continuing' /\ QuietInv' /\ ReadsHonest'
    BY <2>1, <2>2 DEF Continuing, QuietInv, ReadInv, ReadsHonest
  <2>6. Moved'
    BY <2>5 DEF Moved, Moving
  <2>7. CASE setup_packet \in Reads
    <3>1. host.stage = "data-in"
      BY <2>2, <2>7, ReadLength DEF ReportInv, Kinds
    <3>2. Status'
      BY <2>1, <3>1 DEF Status
    <3>3. CASE Started(setup_packet, Length(setup_packet)) /\ UNCHANGED desc
      <4>1. Serving' /\ Fresh'
        BY <2>1, <2>2, <2>3, <2>4, <2>7, <3>3, ReadStarted
      <4>2. ~Deferred'
        BY <2>4, <3>3 DEF Deferred
      <4>3. DeferredInv' /\ WaitingInv' /\ DataIn'
        BY <2>2, <4>1, <4>2 DEF DeferredInv, WaitingInv, Waiting, DataIn
      <4> QED BY <2>5, <2>6, <3>2, <4>3 DEF ReadInv
    <3>4. CASE desc' = setup_packet /\ UNCHANGED ep
      <4>1. in0' = in0 /\ out0' = out0 /\ Deferred'
        <5>1. desc' # NoRequest
          BY <2>7, <3>4, ReadLength DEF NoRequest
        <5> QED BY <3>4, <5>1 DEF in0, out0, Deferred
      <4>2. DeferredInv' /\ WaitingInv' /\ DataIn'
        BY <2>1, <2>2, <2>3, <2>5, <3>1, <3>4, <4>1 DEF DeferredInv, WaitingInv, Waiting, DataIn, Winding
      <4> QED BY <2>5, <2>6, <3>2, <4>2 DEF ReadInv
    <3>5. setup_packet.kind \in {"device", "config", "string", "hid"}
      BY <2>7, ReadLength
    <3> QED BY <2>1, <3>3, <3>4, <3>5 DEF Staged
  <2>8. CASE setup_packet \notin Reads
    <3>1. host.stage # "data-in" /\ desc' = desc /\ \E data \in Asked : Started(data, 0)
      BY <2>1, <2>2, <2>8 DEF ReportInv, Kinds, Staged
    <3>2. ~Deferred'
      BY <2>4, <3>1 DEF Deferred
    <3>3. ASSUME NEW data, Started(data, 0) PROVE in0'.data_id = 1 /\ in0'.buffer.pid = 1
      BY <2>3, <2>4, <3>3 DEF Started, Begun, DataPid
    <3>4. Status'
      BY <2>1, <2>3, <2>5, <3>1, <3>3 DEF Status
    <3>5. DeferredInv' /\ WaitingInv' /\ DataIn'
      BY <2>1, <2>2, <3>1, <3>2 DEF DeferredInv, WaitingInv, Waiting, DataIn
    <3> QED BY <2>5, <2>6, <3>4, <3>5 DEF ReadInv
  <2> QED BY <2>7, <2>8
<1> QED BY <1>1, <1>2

(* The end of a control stage leaves a read alone, and gives a status the   *)
(* identifier the host waits for.                                           *)
LEMMA CompleteRead == ASSUME TypesInv, ReportInv, ReadInv, TaskComplete PROVE ReadInv'
<1>1. /\ in0' = in0 \/ (~in0.has_transfer /\ Begun(in0, in0', NoRequest, 0))
      /\ UNCHANGED <<ints, ep_continue, desc, host, line>>
      /\ task.pc = "complete" /\ task'.pc = "completed" /\ task'.ints = task.ints
  BY CompleteTypes
<1>2. /\ in0.size = EP0_SIZE /\ in0.is_tx /\ ~Pending /\ ~Pending' /\ ~Deferred /\ ~Deferred'
      /\ Continuing' = Continuing
  BY <1>1, TypesSplit DEF Others, ReportInv, Down, Up, Pending, ReadInv, DeferredInv, Winding, Deferred,
                          Continuing, At
<1>3. QuietInv' /\ DeferredInv' /\ WaitingInv' /\ ReadsHonest'
  BY <1>1, <1>2 DEF ReadInv, QuietInv, DeferredInv, WaitingInv, Waiting, ReadsHonest
<1>4. DataIn' /\ Moved'
  <2>1. ASSUME host.stage = "data-in" PROVE in0' = in0
    <3>1. Serving
      BY <1>2, <2>1 DEF ReadInv, DataIn, Waiting
    <3> QED BY <1>1, <3>1 DEF Serving
  <2>2. host.stage = "data-in" => Serving' = Serving /\ Fresh' = Fresh /\ Taken' = Taken
    BY <1>1, <2>1 DEF Serving, Fresh, Taken
  <2> QED BY <1>1, <1>2, <2>2 DEF ReadInv, DataIn, Moved, Waiting, Moving, Clearing
<1>5. Status'
  <2>1. Begun(in0, in0', NoRequest, 0) /\ in0.data_id = 1 => in0'.data_id = 1 /\ in0'.buffer.pid = 1
    BY <1>2 DEF Begun, DataPid
  <2> QED BY <1>1, <1>2, <2>1 DEF ReadInv, Status
<1> QED BY <1>3, <1>4, <1>5 DEF ReadInv

(* A read that was put off gets its first packet.                           *)
LEMMA DescriptorRead == ASSUME TypesInv, ReportInv, ReadInv, TaskDescriptor PROVE ReadInv'
<1>1. CASE ~Deferred
  BY <1>1, DescriptorStill, StillRead
<1>2. CASE Deferred
  <2>1. /\ desc \in Reads /\ Started(desc, Length(desc))
        /\ UNCHANGED <<ints, ep_continue, host, line>>
        /\ desc' = NoRequest /\ (task.pc = "desc" \/ (task.pc = "loop" /\ ints = {}))
        /\ task'.pc = "line" /\ task'.ints = task.ints
    BY <1>2, DescriptorTypes DEF Deferred
  <2>2. /\ host.stage = "data-in" /\ desc = host.req /\ task.pc = "desc"
        /\ host.pid = 1 /\ host.got = 0 /\ in0.data_id = 1 /\ ~in0.has_transfer
        /\ ~Pending' /\ ~Deferred' /\ ~Continuing'
    BY <1>2, <2>1 DEF ReadInv, DeferredInv, WaitingInv, Waiting, Winding, Pending, Deferred, Continuing, At
  <2>3. in0.size = EP0_SIZE /\ in0.is_tx
    BY <2>2, TypesSplit DEF Others, ReportInv, Down, Up
  <2>4. Serving' /\ Fresh'
    BY <2>1, <2>2, <2>3, ReadStarted
  <2>5. QuietInv' /\ DeferredInv' /\ WaitingInv' /\ DataIn' /\ Moved' /\ Status' /\ ReadsHonest'
    BY <2>1, <2>2, <2>4 DEF ReadInv, QuietInv, DeferredInv, WaitingInv, Waiting, DataIn, Moved, Status,
                            ReadsHonest, Moving
  <2> QED BY <2>5 DEF ReadInv
<1> QED BY <1>1, <1>2

(* The next packet is made when the host has the one before.                *)
LEMMA ContinuedRead == ASSUME TypesInv, ReportInv, ReadInv, TaskContinued PROVE ReadInv'
<1>1. /\ out0' = out0
      /\ \/ task.e = "in0" /\ Advanced(in0, in0', TransactionLen(in0))
         \/ task.e = "key" /\ in0' = in0
      /\ UNCHANGED <<ints, ep_continue, desc, host, line>>
      /\ task.pc \in {"encode", "store-marked"} /\ task.pc \in Moving
      /\ task'.pc = "clear" /\ task'.ints = task.ints /\ task'.e = task.e
  BY ContinuedTypes DEF Moving
<1>2. /\ Continuing /\ Continuing' /\ ~Pending /\ ~Pending' /\ ~Deferred /\ ~Deferred'
      /\ host.stage \notin {"data-out", "status-in"}
  <2>1. Continuing /\ Continuing'
    BY <1>1 DEF ReportInv, Pass, Continuing
  <2> QED BY <1>1, <2>1 DEF ReadInv, WaitingInv, Waiting, Status, Pending, Deferred, At
<1>3. QuietInv' /\ DeferredInv' /\ WaitingInv' /\ Status' /\ ReadsHonest'
  BY <1>1, <1>2 DEF ReadInv, QuietInv, DeferredInv, WaitingInv, Waiting, Status, ReadsHonest
<1>4. CASE task.e = "in0"
  <2>1. ASSUME host.stage = "data-in" PROVE Serving' /\ Fresh'
    <3>1. Serving /\ Taken /\ Advanced(in0, in0', TransactionLen(in0))
      BY <1>1, <1>4, <2>1 DEF ReadInv, Moved
    <3>2. in0 \in Slots /\ in0.actual_len <= in0.total_len /\ host \in HostTypes /\ line = "idle"
      BY <1>1, TypesSplit, SlotTypes DEF Pool, Others, ReportInv, Down, Moving
    <3>3. /\ in0.total_len \in Nat /\ in0.actual_len \in Nat /\ in0.data_id \in Pids
          /\ in0.size = EP0_SIZE /\ in0.is_tx
      BY <3>2 DEF Slots, Ep, Endpoint, ReportInv, Up
    <3>4. TransactionLen(in0) = EP0_SIZE
      BY <3>1, <3>2, <3>3 DEF Taken, LastPacket, TransactionLen, EP0_SIZE
    <3>5. (in0.actual_len + EP0_SIZE) % EP0_SIZE = 0
      BY <3>1, <3>3 DEF Serving, EP0_SIZE
    <3>6. /\ in0'.has_transfer /\ in0'.total_len = in0.total_len /\ in0'.app_buf = in0.app_buf
          /\ in0'.actual_len = in0.actual_len + EP0_SIZE /\ in0'.data_id = 1 - in0.data_id
          /\ in0'.buffer = [pid |-> DataPid(in0'), data |-> in0'.app_buf,
                            from |-> in0'.actual_len, len |-> TransactionLen(in0')]
      BY <3>1, <3>3, <3>4 DEF Advanced, Serving, Taken
    <3>7. DataPid(in0') # DataPid(in0) /\ DataPid(in0') \in Pids /\ DataPid(in0) \in Pids
      BY <3>3, <3>6 DEF DataPid, Pids
    <3>8. host.pid = DataPid(in0')
      <4>1. host.pid # DataPid(in0) /\ host.pid \in {0, 1}
        BY <3>1, <3>2 DEF Serving, Taken, HostTypes
      <4> QED BY <3>7, <4>1 DEF Pids
    <3>9. Serving'
      BY <1>1, <3>1, <3>5, <3>6 DEF Serving
    <3>10. host.got = in0'.actual_len
      BY <3>1, <3>4, <3>6 DEF Taken, Serving
    <3> QED BY <1>1, <3>6, <3>8, <3>9, <3>10 DEF Fresh
  <2>2. DataIn' /\ Moved'
    BY <1>1, <1>4, <2>1 DEF DataIn, Moved, Moving, Clearing
  <2> QED BY <1>3, <2>2 DEF ReadInv
<1>5. CASE task.e = "key"
  <2>1. in0' = in0
    BY <1>1, <1>5
  <2>2. Serving' = Serving /\ Fresh' = Fresh /\ Taken' = Taken
    BY <1>1, <2>1 DEF Serving, Fresh, Taken
  <2>3. DataIn' /\ Moved'
    BY <1>1, <1>2, <1>5, <2>2 DEF ReadInv, DataIn, Moved, Waiting, Moving, Clearing
  <2> QED BY <1>3, <2>3 DEF ReadInv
<1> QED BY <1>1, <1>4, <1>5

(* No read is under way in a bus reset.                                     *)
LEMMA LineRead == ASSUME TypesInv, ReportInv, ReadInv, TaskLine PROVE ReadInv'
<1>1. CASE line # "SE0"
  BY <1>1, LineStill, StillRead
<1>2. CASE line = "SE0"
  <2>1. /\ ints' = {"reset"} /\ UNCHANGED <<desc, host>> /\ task.pc = "line" /\ task'.pc = "loop"
        /\ host = NewHost
    BY <1>2, LineTypes DEF Reset, ReportInv, Down
  <2>2. host'.stage = "idle" /\ ~Pending' /\ ~Deferred'
    BY <2>1 DEF NewHost, ReportInv, Pass, Pending, Deferred, At
  <2> QED BY <2>2 DEF ReadInv, QuietInv, DeferredInv, WaitingInv, Waiting, DataIn, Moved, Status, ReadsHonest
<1> QED BY <1>1, <1>2

(* A setup finds the task at rest, and endpoint 0 silent from then on.      *)
LEMMA SetupTokenRead == ASSUME Prompt, TypesInv, ReportInv, SetupToken PROVE ReadInv'
<1>1. /\ in0'.data_id = 1 /\ ~in0'.has_transfer /\ ~out0'.has_transfer
      /\ Idle /\ ints' = ints \cup {"setup"}
      /\ host'.pid = 1 /\ host'.got = 0
      /\ host'.stage = IF setup_packet' \in Reads THEN "data-in"
                       ELSE IF setup_packet'.kind = "report" THEN "data-out" ELSE "status-in"
      /\ UNCHANGED <<desc, task>>
  BY SetupTokenTypes
<1>2. task.pc = "loop" /\ ints' = {"setup"} /\ task.ints = {} /\ ~Deferred'
  BY <1>1 DEF Idle, At, ReportInv, Pass, Deferred
<1>3. Pending' /\ ~Continuing'
  BY <1>1, <1>2 DEF Pending, Continuing, At
<1>4. QuietInv' /\ DeferredInv' /\ WaitingInv' /\ DataIn'
  BY <1>1, <1>2, <1>3 DEF QuietInv, DeferredInv, WaitingInv, DataIn, Waiting, At
<1>5. Moved' /\ Status' /\ ReadsHonest'
  BY <1>1, <1>2, <1>3 DEF Moved, Status, ReadsHonest, Moving
<1> QED BY <1>4, <1>5 DEF ReadInv

(* The host takes an empty packet for the status it waits for.              *)
LEMMA StatusTaken ==
    ASSUME TypesInv, ReportInv, ReadInv, InToken0, host.stage = "status-in"
    PROVE  /\ host'.stage = "idle" /\ host'.req = host.req
           /\ host'.addr = IF host.req.kind = "address" THEN 1 ELSE host.addr
<1>1. in0.has_transfer /\ host' = HostIn(in0.buffer) /\ host \in HostTypes
  BY InToken0Types, TypesSplit DEF Others
<1>2. host.pid = 1 /\ in0.buffer.pid = 1 /\ in0.buffer.len = 0 /\ ~Continuing
  BY <1>1 DEF ReadInv, Status, ReportInv, Empty
<1>3. ~Torn("in0")
  BY <1>2 DEF ReportInv, Pass, Continuing, Torn, Moving
<1>4. host' = [host EXCEPT !.stage = "idle",
                           !.addr  = IF host.req.kind = "address" THEN 1 ELSE host.addr,
                           !.ready = host.ready \/ host.req.kind = "configure"]
  BY <1>1, <1>2, <1>3 DEF HostIn, HostTypes
<1> QED BY <1>1, <1>4 DEF HostTypes

(* The host takes the packet it waits for, which is the last one when it    *)
(* has what it asked for, and ignores the one it has.                       *)
LEMMA PacketTaken ==
    ASSUME TypesInv, ReportInv, ReadInv, InToken0, host.stage = "data-in"
    PROVE  /\ host'.stage \in {"data-in", "status-out"} /\ host'.req = host.req
           /\ host'.addr = host.addr
           /\ host'.stage = "data-in" => Serving' /\ Taken'
           /\ host'.stage = "status-out" => host'.got = Length(host.req)
<1>1. /\ in0' = in0 /\ line = "idle" /\ in0.has_transfer /\ host' = HostIn(in0.buffer)
  BY InToken0Types
<1>2. host \in HostTypes /\ host.req \in Reads /\ host.got \in Nat /\ host.pid \in {0, 1}
  BY TypesSplit DEF Others, HostTypes, ReportInv, Kinds
<1>3. Serving /\ (Fresh \/ Taken)
  BY <1>1 DEF ReadInv, DataIn, Waiting, WaitingInv
<1> DEFINE len  == in0.buffer.len
           got  == host.got + len
           over == len < EP0_SIZE \/ got >= host.req.ask
<1>4. /\ in0.buffer.data = host.req /\ in0.buffer.from = in0.actual_len
      /\ len = TransactionLen(in0) /\ in0.total_len = Length(host.req)
  BY <1>3 DEF Serving
<1>5. in0 \in Slots /\ in0.actual_len <= in0.total_len
  BY TypesSplit, SlotTypes DEF Pool
<1>6. /\ in0.total_len \in Nat /\ in0.actual_len \in Nat /\ len \in Nat
      /\ in0.size = EP0_SIZE /\ in0.actual_len % EP0_SIZE = 0
  BY <1>1, <1>3, <1>5 DEF Slots, Ep, Endpoint, ReportInv, Up, Serving
<1>7. /\ host.req.ask \in Nat /\ Length(host.req) <= host.req.ask
      /\ Length(host.req) = host.req.ask \/ Length(host.req) % EP0_SIZE # 0
  BY <1>2, ReadLength
<1>8. CASE Taken
  <2>1. host' = host
    BY <1>1, <1>8 DEF Taken, HostIn
  <2> QED BY <1>1, <1>3, <1>8, <2>1 DEF Serving, Taken
<1>9. CASE Fresh
  <2>1. host.pid = in0.buffer.pid /\ host.got = in0.actual_len
    BY <1>9 DEF Fresh
  <2>2. ~Torn("in0")
    BY <2>1 DEF ReadInv, Moved, Torn, Moving, Taken
  <2>3. host' = [host EXCEPT !.got = got, !.pid = 1 - host.pid,
                             !.stage = IF over THEN "status-out" ELSE "data-in"]
    BY <1>1, <1>2, <1>4, <2>1, <2>2 DEF HostIn, HostTypes
  <2>4. got \in Nat
    BY <1>2, <1>6
  <2>5. /\ host'.got = got /\ host'.pid = 1 - host.pid /\ host'.req = host.req
        /\ host'.stage = (IF over THEN "status-out" ELSE "data-in") /\ host'.addr = host.addr
    <3> HIDE DEF got, over
    <3> QED BY <1>2, <2>3 DEF HostTypes
  <2>6. /\ len <= EP0_SIZE /\ got <= in0.total_len
        /\ len < EP0_SIZE => got = in0.total_len
    <3> HIDE DEF len
    <3> QED BY <1>4, <1>5, <1>6, <2>1 DEF TransactionLen, EP0_SIZE
  <2>7. over => got = Length(host.req)
    <3> HIDE DEF len
    <3> QED BY <1>4, <1>6, <1>7, <2>4, <2>6
  <2>8. ASSUME ~over PROVE Serving' /\ Taken'
    <3>1. len = EP0_SIZE /\ got < host.req.ask
      BY <1>6, <1>7, <2>4, <2>6, <2>8 DEF EP0_SIZE
    <3>2. got % EP0_SIZE = 0
      BY <1>6, <2>1, <3>1 DEF EP0_SIZE
    <3>3. got < in0.total_len
      BY <1>4, <1>6, <1>7, <2>4, <2>6, <3>1, <3>2
    <3>4. ~LastPacket(in0, TransactionLen(in0))
      BY <1>4, <1>6, <2>1, <3>1, <3>3 DEF LastPacket, EP0_SIZE
    <3>5. host'.pid # in0.buffer.pid
      BY <1>2, <2>1, <2>5
    <3> QED BY <1>1, <1>3, <2>1, <2>5, <3>4, <3>5 DEF Serving, Taken
  <2> QED BY <2>5, <2>7, <2>8
<1> QED BY <1>3, <1>8, <1>9

(* A packet of endpoint 0.                                                  *)
LEMMA InToken0Read == ASSUME TypesInv, ReportInv, ReadInv, InToken0 PROVE ReadInv'
<1>1. /\ host.stage \in {"data-in", "status-in"} /\ in0.has_transfer
      /\ UNCHANGED <<desc, task>> /\ ints' = ints \cup {"continue"}
  BY InToken0Types
<1>2. ~Pending' /\ ~Deferred'
  BY <1>1 DEF ReadInv, WaitingInv, Waiting, Pending, Deferred, At
<1>3. \/ host'.stage = "idle"
      \/ /\ host'.stage \in {"data-in", "status-out"} /\ host'.req = host.req
         /\ host'.stage = "data-in" => Serving' /\ Taken'
         /\ host'.stage = "status-out" => host'.got = Length(host.req)
  BY <1>1, StatusTaken, PacketTaken
<1>4. QuietInv' /\ DeferredInv' /\ WaitingInv' /\ DataIn' /\ Moved' /\ Status' /\ ReadsHonest'
  BY <1>2, <1>3 DEF QuietInv, DeferredInv, WaitingInv, Waiting, DataIn, Moved, Status, ReadsHonest
<1> QED BY <1>4 DEF ReadInv

(* A report is polled when there is no request.                             *)
LEMMA InTokenKeyRead == ASSUME Apart, TypesInv, ReportInv, ReadInv, InTokenKey PROVE ReadInv'
<1>1. host.stage = "idle" /\ host'.stage = "idle" /\ UNCHANGED <<desc, task>> /\ ints' = ints \cup {"continue"}
  BY InTokenKeyTypes
<1>2. ~Pending' /\ ~Deferred'
  BY <1>1 DEF ReportInv, PendingInv, ReadInv, DeferredInv, Pending, Deferred, At
<1> QED BY <1>1, <1>2 DEF ReadInv, QuietInv, DeferredInv, WaitingInv, Waiting, DataIn, Moved, Status, ReadsHonest

(* The end of a request, or of its data.                                    *)
LEMMA OutToken0Read == ASSUME TypesInv, ReportInv, ReadInv, OutToken0 PROVE ReadInv'
<1>1. /\ in0' = in0 /\ host.stage \in {"data-out", "status-out"} /\ out0.has_transfer
      /\ ints' = ints \cup {"complete"} /\ UNCHANGED <<desc, task>> /\ host'.pid = host.pid
      /\ host'.stage = (IF host.stage = "data-out" THEN "status-in" ELSE "idle")
  BY OutToken0Types
<1>2. ~Pending' /\ ~Deferred'
  BY <1>1 DEF ReadInv, WaitingInv, Waiting, Pending, Deferred, At
<1>3. Status'
  BY <1>1 DEF ReadInv, Status, Continuing
<1>4. QuietInv' /\ DeferredInv' /\ WaitingInv' /\ DataIn' /\ Moved' /\ ReadsHonest'
  BY <1>1, <1>2 DEF QuietInv, DeferredInv, WaitingInv, Waiting, DataIn, Moved, ReadsHonest
<1> QED BY <1>3, <1>4 DEF ReadInv

(* A reset finds no read put off.                                           *)
LEMMA HostResetRead == ASSUME Prompt, TypesInv, ReportInv, HostReset PROVE ReadInv'
<1>1. Idle /\ host' = NewHost /\ UNCHANGED <<ints, desc, task>>
  BY HostResetTypes
<1>2. host'.stage = "idle" /\ ~Pending' /\ ~Deferred'
  BY <1>1 DEF NewHost, Idle, At, ReportInv, Pass, Pending, Deferred
<1> QED BY <1>2 DEF ReadInv, QuietInv, DeferredInv, WaitingInv, Waiting, DataIn, Moved, Status, ReadsHonest

(* What leaves endpoint 0, the task and the host's side of it alone.        *)
LEMMA SameReads ==
    ASSUME ReadInv, in0' = in0, out0' = out0, UNCHANGED <<ints, ep_continue, desc, task, host>>
    PROVE  ReadInv'
<1>1. /\ Pending' = Pending /\ Deferred' = Deferred /\ Waiting' = Waiting /\ Continuing' = Continuing
      /\ Serving' = Serving /\ Fresh' = Fresh /\ Taken' = Taken
  BY DEF Pending, Deferred, Waiting, Continuing, Serving, Fresh, Taken, At
<1>2. QuietInv' /\ DeferredInv' /\ WaitingInv' /\ DataIn' /\ Moved' /\ Status' /\ ReadsHonest'
  BY <1>1 DEF ReadInv, QuietInv, DeferredInv, WaitingInv, DataIn, Moved, Status, ReadsHonest, At
<1> QED BY <1>2 DEF ReadInv

(* Every step keeps the reads.                                              *)
LEMMA ReadStep == ASSUME Prompt, Apart, TypesInv, ReportInv, ReadInv, [Next]_vars PROVE ReadInv'
<1>1. CASE PacketHandler
  BY <1>1, SetupTokenRead, InToken0Read, InTokenKeyRead, OutToken0Read DEF PacketHandler
<1>2. CASE TaskBegin \/ TaskLoad \/ TaskStore \/ TaskContinue
  BY <1>2, BeginStill, LoadStill, StoreStill, ContinueStill, StillRead
<1>3. CASE TaskSetup \/ TaskComplete \/ TaskContinued \/ TaskDescriptor \/ TaskLine
  BY <1>3, SetupRead, CompleteRead, ContinuedRead, DescriptorRead, LineRead
<1>4. CASE pio_usb_device_transfer
  BY <1>4, TransferTypes, SameReads
<1>5. CASE HostReset
  BY <1>5, HostResetRead
<1>6. CASE UNCHANGED vars
  BY <1>6, SameReads DEF vars, registers, outside, in0, out0
<1> QED BY <1>1, <1>2, <1>3, <1>4, <1>5, <1>6 DEF Next, Done, Task

-----------------------------------------------------------------------------
(* The address, while also no reset falls into SET_ADDRESS.                 *)

(* At first the bus is reset, and no address is noted.                      *)
LEMMA AddressInit == Init => AddressInv
<1> SUFFICES ASSUME Init PROVE AddressInv
  OBVIOUS
<1>1. line = "SE0" /\ new_devaddr = 0 /\ host.stage = "idle"
  BY DEF Init, NewHost
<1> QED BY <1>1 DEF AddressInv, AddressAgreed

(* What leaves the addresses and the stage of the request alone.            *)
LEMMA SameAddress ==
    ASSUME AddressInv, UNCHANGED <<dev_addr, new_devaddr, line>>,
           host'.addr = host.addr, host'.stage = host.stage, host'.req = host.req,
           Pending' <=> Pending, host.stage = "status-in" /\ in0.has_transfer => in0'.has_transfer
    PROVE  AddressInv'
BY DEF AddressInv, AddressAgreed

(* A step that leaves the pool and the host alone.                          *)
LEMMA StillAddress == ASSUME AddressInv, Still PROVE AddressInv'
BY SameAddress DEF Still, in0

(* SET_ADDRESS notes the address and prepares its status.                   *)
LEMMA SetupAddress == ASSUME TypesInv, ReportInv, AddressInv, TaskSetup PROVE AddressInv'
<1>1. CASE "setup" \notin task.ints
  BY <1>1, SetupStill, StillAddress
<1>2. CASE "setup" \in task.ints
  <2>1. /\ Staged(setup_packet) /\ UNCHANGED <<dev_addr, host, line>> /\ task.pc = "setup"
        /\ task'.pc = IF "complete" \in task.ints THEN "complete" ELSE "continue"
    BY <1>2, SetupTypes DEF Setup
  <2>2. /\ Pending /\ ~Pending' /\ setup_packet = host.req /\ ~in0.has_transfer
        /\ host.stage \in {"data-in", "data-out", "status-in"} /\ new_devaddr # 1
    BY <1>2, <2>1 DEF Pending, At, ReportInv, PendingInv, AddressInv
  <2>3. AddressAgreed'
    BY <2>1 DEF AddressInv, AddressAgreed
  <2>4. CASE host.req.kind = "address"
    <3>1. host.stage = "status-in"
      BY <2>2, <2>4, ReadLength DEF ReportInv, Kinds
    <3>2. host.req \notin Reads
      BY <2>4, ReadLength
    <3>3. new_devaddr' = 1 /\ \E data \in Asked : Started(data, 0)
      BY <2>1, <2>2, <2>4, <3>2 DEF Staged
    <3>4. in0'.has_transfer
      BY <2>2, <3>3 DEF Started, Begun
    <3> QED BY <2>1, <2>2, <2>3, <2>4, <3>1, <3>3, <3>4 DEF AddressInv
  <2>5. CASE host.req.kind # "address"
    <3>1. new_devaddr' = new_devaddr
      BY <2>1, <2>2, <2>5 DEF Staged
    <3> QED BY <2>1, <2>2, <2>3, <2>5, <3>1 DEF AddressInv
  <2> QED BY <2>4, <2>5
<1> QED BY <1>1, <1>2

(* The other steps of the task keep a status that is ready.                 *)
LEMMA TaskAddress ==
    ASSUME TypesInv, ReportInv, ReadInv, AddressInv, TaskComplete \/ TaskContinued \/ TaskDescriptor
    PROVE  AddressInv'
<1>1. /\ UNCHANGED <<dev_addr, new_devaddr, line, host>>
      /\ task.pc \in {"complete", "encode", "store-marked", "desc"} \/ (task.pc = "loop" /\ ints = {})
      /\ task'.pc \notin {"loop", "setup"}
  BY CompleteTypes, ContinuedTypes, DescriptorTypes
<1>2. ~Pending /\ ~Pending'
  BY <1>1 DEF Pending, At
<1>3. ASSUME host.stage = "status-in", in0.has_transfer PROVE in0' = in0
  <2>1. CASE TaskComplete
    BY <1>3, <2>1, CompleteTypes
  <2>2. CASE TaskContinued
    <3>1. task.pc \in Moving
      BY <2>2, ContinuedTypes DEF Moving
    <3> QED BY <1>3, <3>1 DEF ReportInv, Pass, ReadInv, Status, Continuing
  <2>3. CASE TaskDescriptor
    BY <1>3, <2>3, DescriptorTypes DEF Started, ReportInv, Empty, Deferred, in0
  <2> QED BY <2>1, <2>2, <2>3
<1> QED BY <1>1, <1>2, <1>3, SameAddress

(* A bus reset takes both sides back to address 0.                          *)
LEMMA LineAddress == ASSUME TypesInv, ReportInv, AddressInv, TaskLine PROVE AddressInv'
<1>1. CASE line # "SE0"
  BY <1>1, LineStill, StillAddress
<1>2. CASE line = "SE0"
  <2>1. host' = host /\ new_devaddr' = new_devaddr /\ dev_addr' = 0 /\ host = NewHost
    BY <1>2, LineTypes DEF Reset, ReportInv, Down
  <2> QED BY <2>1 DEF NewHost, AddressInv, AddressAgreed
<1> QED BY <1>1, <1>2

(* A new request.                                                           *)
LEMMA SetupTokenAddress == ASSUME Prompt, TypesInv, AddressInv, SetupToken PROVE AddressInv'
<1>1. /\ host.stage = "idle" /\ Idle /\ ints' = ints \cup {"setup"} /\ host'.addr = host.addr
      /\ UNCHANGED <<task, new_devaddr, dev_addr, line>>
  BY SetupTokenTypes
<1>2. Pending' /\ new_devaddr # 1
  BY <1>1 DEF Idle, Pending, At, AddressInv
<1> QED BY <1>1, <1>2 DEF AddressInv, AddressAgreed

(* Both sides change with the status of SET_ADDRESS.                        *)
LEMMA InToken0Address ==
    ASSUME TypesInv, ReportInv, ReadInv, AddressInv, InToken0 PROVE AddressInv'
<1>1. /\ host.stage \in {"data-in", "status-in"} /\ line = "idle" /\ dev_addr = host.addr
      /\ in0.has_transfer /\ new_devaddr' = 0
      /\ dev_addr' = (IF new_devaddr = 1 THEN 1 ELSE dev_addr)
  BY InToken0Types
<1>2. ~Pending
  BY <1>1 DEF ReportInv, PendingInv
<1>3. CASE host.stage = "status-in"
  <2>1. host'.stage = "idle" /\ host'.addr = IF host.req.kind = "address" THEN 1 ELSE host.addr
    BY <1>3, StatusTaken
  <2>2. new_devaddr = 1 <=> host.req.kind = "address"
    BY <1>2, <1>3 DEF AddressInv
  <2> QED BY <1>1, <2>1, <2>2 DEF AddressInv, AddressAgreed
<1>4. CASE host.stage = "data-in"
  <2>1. host'.stage # "status-in" /\ host'.addr = host.addr
    BY <1>4, PacketTaken
  <2>2. new_devaddr # 1
    BY <1>4 DEF AddressInv
  <2> QED BY <1>1, <2>1, <2>2 DEF AddressInv, AddressAgreed
<1> QED BY <1>1, <1>3, <1>4

(* Data of the host, or the status of a read: not a request for an address. *)
LEMMA OutToken0Address == ASSUME TypesInv, ReportInv, AddressInv, OutToken0 PROVE AddressInv'
<1>1. /\ host.stage \in {"data-out", "status-out"}
      /\ host'.req = host.req /\ host'.addr = host.addr
      /\ host'.stage = (IF host.stage = "data-out" THEN "status-in" ELSE "idle")
      /\ UNCHANGED <<new_devaddr, dev_addr, line>>
  BY OutToken0Types
<1>2. host.stage = "data-out" => host.req.kind # "address"
  BY DEF ReportInv, Kinds
<1> QED BY <1>1, <1>2 DEF AddressInv, AddressAgreed

(* A reset while no address is noted.                                       *)
LEMMA HostResetAddress == ASSUME WholeAddress, TypesInv, AddressInv, HostReset PROVE AddressInv'
<1>1. /\ host.req.kind # "address" \/ host.stage = "idle"
      /\ line' = "SE0" /\ host' = NewHost /\ new_devaddr' = new_devaddr
  BY HostResetTypes
<1>2. host'.stage = "idle"
  BY <1>1 DEF NewHost
<1> QED BY <1>1, <1>2 DEF AddressInv, AddressAgreed

(* Every step keeps the address.                                            *)
LEMMA AddressStep ==
    ASSUME Prompt, WholeAddress, TypesInv, ReportInv, ReadInv, AddressInv, [Next]_vars
    PROVE  AddressInv'
<1>1. CASE SetupToken \/ InToken0 \/ OutToken0
  BY <1>1, SetupTokenAddress, InToken0Address, OutToken0Address
<1>2. CASE InTokenKey
  <2>1. Pending' = Pending
    BY <1>2, InTokenKeyTypes DEF Pending, At
  <2> QED BY <1>2, <2>1, InTokenKeyTypes, SameAddress
<1>3. CASE TaskBegin \/ TaskLoad \/ TaskStore \/ TaskContinue
  BY <1>3, BeginStill, LoadStill, StoreStill, ContinueStill, StillAddress
<1>4. CASE TaskSetup \/ TaskComplete \/ TaskContinued \/ TaskDescriptor \/ TaskLine
  BY <1>4, SetupAddress, TaskAddress, LineAddress
<1>5. CASE pio_usb_device_transfer
  <2>1. Pending' = Pending
    BY <1>5, TransferTypes DEF Pending, At
  <2> QED BY <1>5, <2>1, TransferTypes, SameAddress
<1>6. CASE HostReset
  BY <1>6, HostResetAddress
<1>7. CASE UNCHANGED vars
  <2>1. Pending' = Pending
    BY <1>7 DEF Pending, At, vars, registers
  <2> QED BY <1>7, <2>1, SameAddress DEF vars, registers, outside, in0
<1> QED BY <1>1, <1>2, <1>3, <1>4, <1>5, <1>6, <1>7 DEF Next, Done, Task, PacketHandler

-----------------------------------------------------------------------------
(* The theorems.                                                            *)

(* The variables keep their types, whatever the host does: what the pool    *)
(* pio_usb_ep_pool and the registers of the root port may hold, and which   *)
(* register the task has a copy of.                                         *)
THEOREM DeviceTypes == Spec => []TypeOK
<1>1. TypesInv => TypeOK
  BY DEF TypesInv, Typed
<1> QED BY <1>1, TypesInit, TypesStep, PTL DEF Spec

(* Every report handed to pio_usb_device_transfer is taken by the host      *)
(* once, also when the host polls it in the middle of a request.            *)
THEOREM ReportsTheorem == ASSUME Prompt PROVE Spec => []ReportsOnce
<1> DEFINE Inv == TypesInv /\ ReportInv
<1>1. Init => Inv
  BY TypesInit, ReportInit
<1>2. Inv /\ [Next]_vars => Inv'
  BY TypesStep, ReportStep
<1>3. Inv => ReportsOnce
  BY DEF ReportInv
<1> QED BY <1>1, <1>2, <1>3, PTL DEF Spec

(* A read ends with all of its bytes and no others, also after a bus reset  *)
(* in the middle of SET_ADDRESS (process_device_setup_stage,                *)
(* pio_usb_ll_transfer_continue).                                           *)
THEOREM ReadsTheorem == ASSUME Prompt, Apart PROVE Spec => []ReadsHonest
<1> DEFINE Inv == TypesInv /\ ReportInv /\ ReadInv
<1>1. Init => Inv
  BY TypesInit, ReportInit, ReadInit
<1>2. Inv /\ [Next]_vars => Inv'
  BY TypesStep, ReportStep, ReadStep
<1>3. Inv => ReadsHonest
  BY DEF ReadInv
<1> QED BY <1>1, <1>2, <1>3, PTL DEF Spec

(* Host and device change the address with the same packet (new_devaddr).   *)
THEOREM AddressTheorem == ASSUME Prompt, Apart, WholeAddress PROVE Spec => []AddressAgreed
<1> DEFINE Inv == TypesInv /\ ReportInv /\ ReadInv /\ AddressInv
<1>1. Init => Inv
  BY TypesInit, ReportInit, ReadInit, AddressInit
<1>2. Inv /\ [Next]_vars => Inv'
  BY TypesStep, ReportStep, ReadStep, AddressStep
<1>3. Inv => AddressAgreed
  BY DEF AddressInv
<1> QED BY <1>1, <1>2, <1>3, PTL DEF Spec
=============================================================================
