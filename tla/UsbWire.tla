------------------------------- MODULE UsbWire ------------------------------
(* Packets on the bus: what the library sends, bit by bit through UsbNrzi,  *)
(* what the polling loops of a receiver make of it while the bits still     *)
(* arrive, and the checksums that decide.  Handshakes are received as by    *)
(* pio_usb_host.c, tokens as by a device of pio_usb_device.c, data as by    *)
(* either, which use the same loop.                                         *)
EXTENDS UsbNrzi, Bitwise, SequencesExt

CONSTANTS Payloads,     \* payloads of data packets, sequences of bytes
          Tokens,       \* device addresses and endpoints that tokens go to
          DevAddr,      \* address of the device that receives tokens
          MaxNoise      \* bound: lengths of the packets that meet noise

(* With these payloads no packet fills the FIFO of 8 bytes.                 *)
ASSUME WireAssumption == /\ Payloads \subseteq Seq(0 .. 255)
                         /\ \A p \in Payloads : Len(p) <= 4
                         /\ Tokens \subseteq (0 .. 127) \X (0 .. 15)
                         /\ DevAddr \in 0 .. 127

VARIABLES packet,       \* kind, bytes, and for a token addr and ep
          buf,          \* usb_rx_buffer up to idx
          crc,          \* crc, crc_prev, crc_prev2, crc_receive of the loop
          cpu,          \* what the loop does next
          result,       \* what the receiver returns
          late          \* did the receiver give up, or miss a byte?

vars == <<nrziVars, packet, buf, crc, cpu, result, late>>

SYNC == 128
PIDs == [DATA0 |-> 195, DATA1 |-> 75, ACK |-> 210, NAK |-> 90, STALL |-> 30,
         PID_IN |-> 105, PID_OUT |-> 225, PID_SETUP |-> 45]
TokenPIDs == {"PID_IN", "PID_OUT", "PID_SETUP"}

-----------------------------------------------------------------------------
(* Checksums: the tables of usb_crc.c, and the polynomials they stand for.  *)

crc5_tbl == [i \in 0 .. 31 |-> <<
       0, 11, 22, 29,  5, 14, 19, 24, 10,  1, 28, 23, 15,  4, 25, 18,
      20, 31,  2,  9, 17, 26,  7, 12, 30, 21,  8,  3, 27, 16, 13,  6>>[i + 1]]

crc16_tbl == [i \in 0 .. 255 |-> <<
          0, 49345, 49537,   320, 49921,   960,   640, 49729, 50689,  1728,  1920, 51009,
       1280, 50625, 50305,  1088, 52225,  3264,  3456, 52545,  3840, 53185, 52865,  3648,
       2560, 51905, 52097,  2880, 51457,  2496,  2176, 51265, 55297,  6336,  6528, 55617,
       6912, 56257, 55937,  6720,  7680, 57025, 57217,  8000, 56577,  7616,  7296, 56385,
       5120, 54465, 54657,  5440, 55041,  6080,  5760, 54849, 53761,  4800,  4992, 54081,
       4352, 53697, 53377,  4160, 61441, 12480, 12672, 61761, 13056, 62401, 62081, 12864,
      13824, 63169, 63361, 14144, 62721, 13760, 13440, 62529, 15360, 64705, 64897, 15680,
      65281, 16320, 16000, 65089, 64001, 15040, 15232, 64321, 14592, 63937, 63617, 14400,
      10240, 59585, 59777, 10560, 60161, 11200, 10880, 59969, 60929, 11968, 12160, 61249,
      11520, 60865, 60545, 11328, 58369,  9408,  9600, 58689,  9984, 59329, 59009,  9792,
       8704, 58049, 58241,  9024, 57601,  8640,  8320, 57409, 40961, 24768, 24960, 41281,
      25344, 41921, 41601, 25152, 26112, 42689, 42881, 26432, 42241, 26048, 25728, 42049,
      27648, 44225, 44417, 27968, 44801, 28608, 28288, 44609, 43521, 27328, 27520, 43841,
      26880, 43457, 43137, 26688, 30720, 47297, 47489, 31040, 47873, 31680, 31360, 47681,
      48641, 32448, 32640, 48961, 32000, 48577, 48257, 31808, 46081, 29888, 30080, 46401,
      30464, 47041, 46721, 30272, 29184, 45761, 45953, 29504, 45313, 29120, 28800, 45121,
      20480, 37057, 37249, 20800, 37633, 21440, 21120, 37441, 38401, 22208, 22400, 38721,
      21760, 38337, 38017, 21568, 39937, 23744, 23936, 40257, 24320, 40897, 40577, 24128,
      23040, 39617, 39809, 23360, 39169, 22976, 22656, 38977, 34817, 18624, 18816, 35137,
      19200, 35777, 35457, 19008, 19968, 36545, 36737, 20288, 36097, 19904, 19584, 35905,
      17408, 33985, 34177, 17728, 34561, 18368, 18048, 34369, 33281, 17088, 17280, 33601,
      16640, 33217, 32897, 16448>>[i + 1]]

(* Mutant: the first bit does not select the start of the table walk.       *)
calc_usb_crc5_even(data) ==
    LET d == data ^^ 31 IN crc5_tbl[((d \div 64) % 32) ^^ crc5_tbl[(d \div 2) % 32]] ^^ 31

calc_usb_crc5(data) ==
    LET d == data ^^ 31
        first == IF d % 2 = 1 THEN 20 ELSE 0
    IN  crc5_tbl[((d \div 64) % 32) ^^ crc5_tbl[((d \div 2) % 32) ^^ first]] ^^ 31

XorBytes == [i \in 0 .. 255 |-> [j \in 0 .. 255 |-> i ^^ j]]    \* a table, evaluated once

update_usb_crc16(c, byte) ==
    LET entry == crc16_tbl[XorBytes[c % 256][byte]] IN
    256 * (entry \div 256) + XorBytes[c \div 256][entry % 256]

calc_usb_crc16(bytes) == FoldLeft(update_usb_crc16, 65535, bytes) ^^ 65535

Bit(byte, k) == (byte \div 2 ^ k) % 2
BitsOf(bytes) == [i \in 1 .. 8 * Len(bytes) |-> Bit(bytes[(i + 7) \div 8], (i - 1) % 8)]

(* The register of a checksum after one more bit, and the checksum of bits. *)
Shift(poly, c, b) == IF c % 2 = b THEN c \div 2 ELSE (c \div 2) ^^ poly
Crc(poly, ones, bits) ==
    FoldLeft(LAMBDA c, b : Shift(poly, c, b), ones, bits) ^^ ones

Crc5(dat)    == Crc(20, 31, [k \in 1 .. 11 |-> Bit(dat, k - 1)])
Crc16(bytes) == Crc(40961, 65535, BitsOf(bytes))

-----------------------------------------------------------------------------
(* Packets.                                                                 *)

TokenData(addr, ep) == (ep % 16) * 128 + (addr % 128)

(* pio_usb_bus_send_token.                                                  *)
Token(pid, addr, ep) ==
    LET dat == TokenData(addr, ep) IN
    <<SYNC, PIDs[pid], dat % 256, ((calc_usb_crc5(dat) * 8) % 256) + ((dat \div 256) % 32)>>

(* prepare_tx_data.                                                         *)
Data(pid, payload) ==
    LET crc16 == calc_usb_crc16(payload) IN
    <<SYNC, PIDs[pid]>> \o payload \o <<crc16 % 256, crc16 \div 256>>

(* The packets, each with the loop that waits for it: an IN transaction     *)
(* waits for data or a handshake, an OUT or SETUP transaction for a         *)
(* handshake, a device for a token.                                         *)
Packet(kind, loop, pid, bytes, addr, ep) ==
    [kind |-> kind, loop |-> loop, pid |-> pid, bytes |-> bytes, addr |-> addr, ep |-> ep]

SentPackets ==
    {Packet("data", "in", pid, Data(pid, p), 0, 0) : pid \in {"DATA0", "DATA1"}, p \in Payloads}
    \cup {Packet("handshake", l, pid, <<SYNC, PIDs[pid]>>, 0, 0) :
              l \in {"in", "out", "setup"}, pid \in {"ACK", "NAK", "STALL"}}
    \cup {Packet("token", "device", pid, Token(pid, t[1], t[2]), t[1], t[2]) :
              pid \in TokenPIDs, t \in Tokens}

Result(is, ep) == [is |-> is, ep |-> ep]
Waiting == result.is = "none"

(* The packet is built and then sent; the receiver has been reset, by a host*)
(* altogether.                                                              *)
Init == /\ packet \in SentPackets
        /\ NrziInit /\ (packet.kind = "handshake" => dec.y = 6)
        /\ buf = << >>
        /\ crc = [now |-> 65535, prev |-> 65535, prev2 |-> 65535, receive |-> 65535]
        /\ cpu = "check" /\ result = Result("none", -1) /\ late = FALSE

Receiver == UNCHANGED <<buf, crc, cpu, result, late>>

BitsToSend == 8 * Len(packet.bytes)

Send == /\ \/ /\ Len(sent) < BitsToSend
              /\ EncodeBit(Bit(packet.bytes[Len(sent) \div 8 + 1], Len(sent) % 8))
           \/ EncodeStuffing
           \/ Len(sent) = BitsToSend /\ EncodeSE0
        /\ Receiver /\ UNCHANGED packet

Arrive == Sample /\ Receiver /\ UNCHANGED packet

OneNoise == /\ ~noise /\ Len(packet.bytes) <= MaxNoise
            /\ Noise /\ Receiver /\ UNCHANGED packet

-----------------------------------------------------------------------------
(* The receiver.  Eight bits make a byte in the FIFO of the state machine;  *)
(* "end" on the line is the IRQ flag of the end of a packet.                *)

(* Mutant: the loops look at the line, which is low for a moment only.      *)
EOP_passing == line = "SE0"

EOP == line = "end"
Arrived == Len(received) \div 8
Fifo == Arrived > Len(buf)
NextByte == LET b(k) == received[8 * Len(buf) + k] IN
            b(1) + 2 * b(2) + 4 * b(3) + 8 * b(4) + 16 * b(5) + 32 * b(6) + 64 * b(7) + 128 * b(8)

Wire == UNCHANGED <<nrziVars, packet>>

(* The first two bytes, for a number of polls only.                         *)
TakeFirst ==
    /\ Waiting /\ packet.loop # "device" /\ Len(buf) < 2
    /\ Fifo /\ buf' = Append(buf, NextByte)
    /\ UNCHANGED <<crc, cpu, result, late>> /\ Wire

(* while ((irq & IRQ_RX_COMP_MASK) == 0): the flag, then the FIFO.          *)
Poll == /\ Waiting /\ cpu = "check" /\ ~EOP /\ ~(packet.loop = "device" /\ Len(buf) = 4)
        /\ packet.loop = "device" \/ (packet.loop = "in" /\ Len(buf) >= 2)
        /\ cpu' = "read" /\ UNCHANGED <<buf, crc, result, late>> /\ Wire

(* Mutant: the checksum of the data includes one of its own bytes.          *)
Received_short(c, byte) == [now |-> update_usb_crc16(c.now, byte), prev |-> c.now, prev2 |-> c.now,
                            receive |-> (c.receive \div 256) + byte * 256]

Received(c, byte) == [now |-> update_usb_crc16(c.now, byte), prev |-> c.now, prev2 |-> c.prev,
                      receive |-> (c.receive \div 256) + byte * 256]

Read == /\ Waiting /\ cpu = "read"
        /\ cpu' = "check"
        /\ IF Fifo THEN /\ buf' = Append(buf, NextByte)
                        /\ crc' = IF packet.loop = "in" THEN Received(crc, NextByte) ELSE crc
                   ELSE UNCHANGED <<buf, crc>>
        /\ UNCHANGED <<result, late>> /\ Wire


Match == crc.prev2 = 65535 - crc.receive

(* What the transactions make of the bytes in usb_rx_buffer, which they     *)
(* leave zeroed: usb_in_transaction, for an endpoint that expects DATA0,    *)
(* usb_out_transaction and usb_setup_transaction.                           *)
Second(b) == IF Len(b) >= 2 THEN b[2] ELSE 0

InResult(b) == IF Len(b) >= 4 /\ Match THEN IF b[2] = PIDs.DATA0 THEN "accepted" ELSE "mismatch"
               ELSE IF Second(b) = PIDs.NAK THEN "NAK"
               ELSE IF Second(b) = PIDs.STALL THEN "STALL" ELSE "error"

OutResult(b) == IF \E p \in {"ACK", "NAK", "STALL"} : Second(b) = PIDs[p]
                THEN CHOOSE p \in {"ACK", "NAK", "STALL"} : Second(b) = PIDs[p]
                ELSE "error"

SetupResult(b) == IF Second(b) = PIDs.ACK /\ b[1] = SYNC THEN "ACK" ELSE "error"

Outcome(b) == \/ packet.loop = "in" /\ result' = Result(InResult(b), -1)
              \/ packet.loop = "out" /\ result' = Result(OutResult(b), -1)
              \/ packet.loop = "setup" /\ result' = Result(SetupResult(b), -1)

(* The polls for the first two bytes are over.  A second byte at the last of*)
(* them is too late to wait for the end, but the transaction looks at it.   *)
TimeOut ==
    /\ Waiting /\ packet.loop # "device" /\ Len(buf) < 2
    /\ buf' = buf \/ (Fifo /\ Len(buf) = 1 /\ buf' = Append(buf, NextByte))
    /\ Outcome(buf') /\ late' = TRUE
    /\ UNCHANGED <<crc, cpu>> /\ Wire

Missed == late' = (late \/ Fifo)

(* The end of the packet has been seen.                                     *)
Finish == /\ Waiting /\ Len(buf) >= 2 /\ EOP /\ cpu = "check"
          /\ Outcome(buf) /\ Missed
          /\ UNCHANGED <<buf, crc, cpu>> /\ Wire

(* update_ep0_crc5_lut: what the last byte of a token to each endpoint is.  *)
ep0_crc5_lut == [ep \in 0 .. 15 |-> ((calc_usb_crc5(DevAddr + ep * 128) * 8) % 256) + ((ep \div 2) % 8)]

(* device_receive_token and device_receive_ep_address: a device goes by the *)
(* bytes it has when the fourth one is in or the end of the packet is seen. *)
Addressed(ep_num) ==
    LET ep == 2 * (ep_num % 8) + (buf[3] \div 128) IN
    IF /\ \E pid \in TokenPIDs : buf[2] = PIDs[pid]
       /\ buf[3] % 128 = DevAddr /\ ep0_crc5_lut[ep] = ep_num
    THEN Result("addressed", ep) ELSE Result("ignored", -1)

DeviceFinish ==
    /\ Waiting /\ packet.loop = "device" /\ cpu = "check"
    /\ \/ Len(buf) = 4 /\ result' = Addressed(buf[4]) /\ UNCHANGED late
       \/ Len(buf) = 3 /\ EOP /\ result' = Addressed(0) /\ late' = TRUE
       \/ Len(buf) < 3 /\ EOP /\ result' = Result("ignored", -1) /\ late' = TRUE
    /\ UNCHANGED <<buf, crc, cpu>> /\ Wire

(* wait_handshake has its two bytes and waits; or all is over.              *)
Spin == /\ \/ Waiting /\ packet.loop \in {"out", "setup"} /\ Len(buf) = 2 /\ ~EOP
           \/ ~Waiting /\ line = "end"
        /\ UNCHANGED vars

Receive == TakeFirst \/ TimeOut \/ Poll \/ Read \/ Finish \/ DeviceFinish

Next == Send \/ Arrive \/ OneNoise \/ Receive \/ Spin

(* The line and the processor go on.                                        *)
Spec == Init /\ [][Next]_vars /\ WF_vars(Send) /\ WF_vars(Arrive) /\ WF_vars(Receive)

-----------------------------------------------------------------------------

TypeOK == /\ NrziTypeOK
          /\ Len(sent) <= BitsToSend /\ Len(buf) <= Arrived
          /\ buf \in Seq(0 .. 255) /\ \A k \in DOMAIN crc : crc[k] \in 0 .. 65535
          /\ cpu \in {"check", "read"} /\ late \in BOOLEAN
          /\ result.is \in {"none", "accepted", "mismatch", "ACK", "NAK", "STALL",
                            "error", "addressed", "ignored"}
          /\ result.ep \in -1 .. 15

Payload(bytes) == SubSeq(bytes, 3, Len(bytes) - 2)
Checksum(bytes) == bytes[Len(bytes) - 1] + bytes[Len(bytes)] * 256

(* Every entry of the tables, and the checksums made of them, are those of  *)
(* the polynomials that any other USB device computes with: of the tokens   *)
(* and the data that are sent and of the data that came in.                 *)
ChecksumsStandard ==
    /\ sent = << >> => /\ \A i \in 0 .. 31  : crc5_tbl[i]  = Crc(20, 0, [k \in 1 .. 5 |-> Bit(i, k - 1)])
                      /\ \A i \in 0 .. 255 : crc16_tbl[i] = Crc(40961, 0, BitsOf(<<i>>))
    /\ sent = << >> /\ packet.kind = "token" =>
          packet.bytes[4] \div 8 = Crc5(TokenData(packet.addr, packet.ep))
    /\ sent = << >> /\ packet.kind = "data" =>
          Checksum(packet.bytes) = Crc16(Payload(packet.bytes))
    /\ result.is = "accepted" => crc.now ^^ 65535 = Crc16(SubSeq(buf, 3, Len(buf)))

(* Every packet fits the array it is encoded to: the library reserves that  *)
(* of EncodedFits in general, and five bytes for the handshakes.            *)
BuffersFit == EncodedFits /\ (packet.kind = "handshake" => EncodedBytes <= 5)


(* On a clean line and in time, every packet is taken for what it is, those *)
(* without data and those that need bits stuffed up to the end included,    *)
(* whatever count of ones the packet before left behind, but one: after a   *)
(* full run of ones at its end the first bit is lost.                       *)
AllUnderstood ==
    ~noise /\ ~late /\ lost = << >> /\ ~Waiting =>
       CASE packet.kind = "data"  -> result.is = (IF packet.pid = "DATA0" THEN "accepted" ELSE "mismatch")
         [] packet.kind = "token" -> IF packet.addr = DevAddr THEN result = Result("addressed", packet.ep)
                                                              ELSE result.is = "ignored"
         [] OTHER -> result.is = IF \/ packet.loop = "in" /\ packet.pid = "ACK"
                                    \/ packet.loop = "setup" /\ packet.pid # "ACK"
                                 THEN "error" ELSE packet.pid

(* The loops that wait for the end of a packet have no bound of their own,  *)
(* and run with interrupts held off: the end always comes.                  *)
ReceiverReturns == <>~Waiting
=============================================================================
