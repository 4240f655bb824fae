------------------------------ MODULE I2cLink ------------------------------
(***************************************************************************)
(* The I2C host and the firmware's end of the bus.  famikb-i2chost.py      *)
(* reads evdev events in batches and writes one SMBus block per batch;     *)
(* i2c_slave_handler takes it a byte per interrupt and acts on it at the   *)
(* stop condition.  Events are numbered, and a message's bytes carry the   *)
(* number of the event they come from, so that it shows which event the    *)
(* firmware ends up acting on.  The bus and the SDK's slave driver are     *)
(* external.  A fault cuts the host's write short, or is traffic of        *)
(* another process on the bus: a read, or a write to another register.     *)
(***************************************************************************)
EXTENDS Integers, Sequences, SequencesExt

CONSTANTS
    MaxEvents,      \* bound on the events of a behaviour
    MaxBatch,       \* bound on the events waiting when the host reads
    MaxFaults,      \* bound on the faults of a behaviour
    hold_repeat     \* host option: send key repeats

ASSUME LinkAssumption ==
    /\ MaxEvents \in Nat /\ MaxBatch \in Nat /\ MaxFaults \in Nat
    /\ hold_repeat \in BOOLEAN

ComboKeys == {"KEY_LEFTSHIFT", "KEY_LEFTCTRL", "KEY_ESC"}
Keys == ComboKeys \cup {"KEY_A"}

VARIABLES
    down,               \* keys the user holds
    queue,              \* evdev events not yet read
    events,             \* events so far
    host,               \* "select", "write" or "exited"
    message,            \* bytes left to write, the register address first
    capture_combo,      \* combo keys the host thinks are down
    captured, cooldown, \* capture toggle
    mem, mem_address, mem_address_written, garbage_message,     \* hostmsg
    read,               \* history: numbers of the key events read to be sent
    transfer,           \* the driver's transfer_in_progress
    faults,             \* faults so far
    handled             \* history: numbers passed to keycode_handler

user  == <<down, queue, events>>
hostv == <<host, message, capture_combo, captured, cooldown, read>>
slave == <<mem, mem_address, mem_address_written, garbage_message, transfer, handled>>
vars  == <<user, hostv, slave, faults>>

Init ==
    /\ down = {} /\ queue = <<>> /\ events = 0 /\ faults = 0
    /\ host = "exited" /\ message = <<>>
    /\ capture_combo = {} /\ captured = FALSE /\ cooldown = FALSE
    /\ mem = [i \in 0 .. 5 |-> 0] /\ mem_address = 0
    /\ mem_address_written = FALSE /\ garbage_message = FALSE
    /\ transfer = FALSE
    /\ read = {} /\ handled = <<>>

-----------------------------------------------------------------------------
(* The user, through evdev: value 1 is a press, 0 a release, 2 a repeat.   *)
Key(k, value) ==
    /\ events < MaxEvents /\ Len(queue) < MaxBatch
    /\ CASE value = 1 -> k \notin down /\ down' = down \cup {k}
         [] value = 0 -> k \in down /\ down' = down \ {k}
         [] value = 2 -> k \in down /\ down' = down
    /\ events' = events + 1
    /\ queue' = Append(queue, [key |-> k, value |-> value, n |-> events'])
    /\ UNCHANGED <<hostv, slave, faults>>

-----------------------------------------------------------------------------
(* The host.  It writes when the bus is free.                              *)

(* The script starts: a message with no key, then it grabs its devices.    *)
HostStart ==
    /\ host = "exited" /\ ~transfer
    /\ host' = "write" /\ message' = [i \in 1 .. 7 |-> 0]
    /\ capture_combo' = {} /\ cooldown' = FALSE /\ captured' = TRUE
    /\ queue' = <<>>
    /\ UNCHANGED <<down, events, read, slave, faults>>

(* The effect of one key event on the combo. *)
Combo(held, e) ==
    IF e.key \notin ComboKeys THEN held
    ELSE IF e.value > 0 THEN held \cup {e.key} ELSE held \ {e.key}

(* The waiting events that are sent on, and the one whose key is left in    *)
(* msg[0], the last.  Mutant: the first.                                   *)
Sends == {i \in DOMAIN queue : hold_repeat \/ queue[i].value < 2}
KeySent_first == queue[CHOOSE i \in Sends : \A j \in Sends : i <= j].n

KeySent == queue[CHOOSE i \in Sends : \A j \in Sends : j <= i].n

(* Read all waiting events.  A batch of repeats that are not sent makes no *)
(* message.                                                                *)
HostRead ==
    /\ host = "select" /\ ~transfer /\ queue # <<>>
    /\ queue' = <<>>
    /\ capture_combo' = FoldLeft(Combo, capture_combo, queue)
    /\ read' = read \cup {queue[i].n : i \in Sends}
    /\ host' = "write"
    /\ message' = IF Sends = {} THEN <<>> ELSE [i \in 1 .. 7 |-> IF i = 1 THEN 0 ELSE KeySent]
    /\ UNCHANGED <<down, events, captured, cooldown, slave, faults>>

(* Mouse motion: a batch of the other device, a message with no key.       *)
HostReadMotion ==
    /\ host = "select" /\ ~transfer /\ events < MaxEvents
    /\ events' = events + 1
    /\ host' = "write"
    /\ message' = [i \in 1 .. 7 |-> IF i \in {1, 3} THEN 0 ELSE events']
    /\ UNCHANGED <<down, queue, capture_combo, captured, cooldown, read, slave, faults>>

(* After the write, the capture toggle; cooldown skips the next batch only. *)
Toggle ==
    IF capture_combo = ComboKeys /\ ~cooldown
    THEN captured' = ~captured /\ cooldown' = TRUE
    ELSE cooldown' = FALSE /\ UNCHANGED captured

-----------------------------------------------------------------------------
(* The slave: one operator per event of i2c_slave_handler.  The driver     *)
(* signals FINISH at a stop or restart if a byte was moved before it.      *)

(* Mutants: the address wraps elsewhere, or the bytes of a garbage message *)
(* are kept.                                                               *)
ReceiveInto(byte, next, keep) ==
    /\ transfer' = TRUE
    /\ mem_address_written' = TRUE
    /\ IF ~mem_address_written
       THEN mem_address' = byte /\ garbage_message' = (byte # 0) /\ mem' = mem
       ELSE /\ garbage_message' = garbage_message
            /\ IF garbage_message /\ ~keep THEN UNCHANGED <<mem, mem_address>>
               ELSE mem' = [mem EXCEPT ![mem_address] = byte] /\ mem_address' = next
    /\ UNCHANGED handled

Receive_short(byte) == ReceiveInto(byte, (mem_address + 1) % 5, FALSE)
Receive_garbage(byte) == ReceiveInto(byte, (mem_address + 1) % 6, TRUE)

Receive(byte) ==
    /\ transfer' = TRUE
    /\ mem_address_written' = TRUE
    /\ IF ~mem_address_written
       THEN mem_address' = byte /\ garbage_message' = (byte # 0) /\ mem' = mem
       ELSE /\ garbage_message' = garbage_message
            /\ IF garbage_message THEN UNCHANGED <<mem, mem_address>>
               ELSE /\ mem' = [mem EXCEPT ![mem_address] = byte]
                    /\ mem_address' = (mem_address + 1) % 6
    /\ UNCHANGED handled

Request ==
    /\ transfer' = TRUE
    /\ mem_address' = (mem_address + 1) % 6
    /\ UNCHANGED <<mem, mem_address_written, garbage_message, handled>>

Finish ==
    /\ transfer' = FALSE
    /\ handled' = IF ~garbage_message /\ mem[1] # 0 THEN Append(handled, mem[1]) ELSE handled
    /\ mem_address_written' = FALSE
    /\ UNCHANGED <<mem, mem_address, garbage_message>>

-----------------------------------------------------------------------------
(* The bus. *)

WriteByte ==
    /\ host = "write" /\ message # <<>>
    /\ Receive(Head(message))
    /\ message' = Tail(message)
    /\ UNCHANGED <<user, host, capture_combo, captured, cooldown, read, faults>>

(* The stop condition, if anything was written, and the end of the batch.  *)
WriteStop ==
    /\ host = "write" /\ message = <<>>
    /\ host' = "select"
    /\ Toggle
    /\ IF transfer THEN Finish ELSE UNCHANGED slave
    /\ UNCHANGED <<user, message, capture_combo, read, faults>>

Fault == faults < MaxFaults /\ faults' = faults + 1

(* A write fails: the controller sends a stop, smbus2 raises, the host     *)
(* lets go of its devices and exits.                                       *)
WriteAbort ==
    /\ Fault
    /\ host = "write" /\ message # <<>>
    /\ IF transfer THEN Finish ELSE UNCHANGED slave
    /\ host' = "exited" /\ message' = <<>> /\ captured' = FALSE
    /\ UNCHANGED <<user, capture_combo, cooldown, read>>

(* Another process writes one byte to register 1, or reads one byte.       *)
ForeignValue == MaxEvents + 1

ForeignByte ==
    /\ host # "write"
    /\ \/ ~transfer /\ Fault /\ (Receive(1) \/ Request)
       \/ transfer /\ mem_address_written /\ Receive(ForeignValue) /\ UNCHANGED faults
    /\ UNCHANGED <<user, hostv>>

ForeignStop ==
    /\ host # "write" /\ transfer
    /\ Finish
    /\ UNCHANGED <<user, hostv, faults>>

-----------------------------------------------------------------------------
Next ==
    \/ \E k \in Keys, value \in 0 .. 2 : Key(k, value)
    \/ HostStart \/ HostRead \/ HostReadMotion
    \/ WriteByte \/ WriteStop \/ WriteAbort
    \/ ForeignByte \/ ForeignStop

Spec == Init /\ [][Next]_vars

-----------------------------------------------------------------------------
Numbers == 0 .. ForeignValue

(* The variables of both ends keep their types.                            *)
TypeOK ==
    /\ down \subseteq Keys
    /\ queue \in Seq([key : Keys, value : 0 .. 2, n : 1 .. MaxEvents])
    /\ events \in 0 .. MaxEvents /\ faults \in 0 .. MaxFaults
    /\ host \in {"exited", "select", "write"} /\ message \in Seq(Numbers)
    /\ captured \in BOOLEAN /\ cooldown \in BOOLEAN /\ transfer \in BOOLEAN
    /\ mem_address_written \in BOOLEAN /\ garbage_message \in BOOLEAN
    /\ mem \in [0 .. 5 -> Numbers] /\ mem_address \in 0 .. 5
    /\ read \subseteq 1 .. MaxEvents /\ handled \in Seq(1 .. MaxEvents)

(* With no fault on the bus, whenever the host is back in select the last  *)
(* key event it read is the last one the firmware acted on: a press or a   *)
(* release that ends a batch is never lost (famikb-i2chost.py:162,214).    *)
NewestKeyDelivered ==
    faults = 0 /\ host = "select" /\ read # {} =>
        handled # <<>> /\ Last(handled) \in read /\ \A n \in read : n <= Last(handled)

(* With no fault on the bus, all fields the firmware acts on together come *)
(* from one message: key, buttons, motion and wheel of the same batch.     *)
WholeMessage ==
    [][faults' = 0 /\ handled' # handled => \A i \in 2 .. 5 : mem[i] = mem[1]]_vars

(* Whatever faults occur, the firmware acts on the host's key events only, *)
(* never on a byte meant for another register, and never on an older one   *)
(* after a newer one; with no fault it acts on none twice, although mem[1] *)
(* still holds it when the next messages arrive.                           *)
KeysInOrder ==
    /\ Range(handled) \subseteq read
    /\ \A i, j \in DOMAIN handled : i < j => /\ handled[i] <= handled[j]
                                            /\ (faults = 0 => handled[i] # handled[j])
=============================================================================
