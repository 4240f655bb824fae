------------------------------- MODULE UsbNrzi ------------------------------
(* Bits on the bus: the NRZI encoder with bit stuffing that prepares what   *)
(* the TX program shifts out, and the PIO program that decodes the line.    *)
(* The encoder runs ahead of the line in the code; here it is one symbol    *)
(* ahead, because only the order of the symbols matters.                    *)
EXTENDS Integers, Sequences

VARIABLES enc,        \* pio_usb_ll_encode_tx_data: current_state, bit_stuffing
          line,       \* the level driven and not sampled yet, or "sampled"
          dec,        \* usb_nrzi_decoder: x (0, or 1 for ~0) and y
          sent, received, emitted,  \* bits in, bits out, symbols so far
          lost,       \* the first bit, if the decoder drops it
          noise       \* was a level ever sampled wrong?

nrziVars == <<enc, line, dec, sent, received, emitted, lost, noise>>

(* pio_usb_bus_prepare_receive sets x and y of the decoder and so does a    *)
(* host before each packet; a device's restart_usb_receiver sets x only, and*)
(* y goes on from what the packet before left.                              *)
NrziInit == /\ enc = [current_state |-> 1, bit_stuffing |-> 6]
            /\ line = "sampled"
            /\ dec \in [x : {0}, y : 0 .. 6]
            /\ sent = << >> /\ received = << >> /\ emitted = 0
            /\ lost = << >> /\ noise = FALSE

(* The symbol for a state is the address in the TX program of the           *)
(* instruction that drives the level: at full speed "K" is the J level.     *)
Symbol(s) == IF s = 1 THEN "K" ELSE "J"
usb_tx_dpdm(symbol) == IF symbol = "K" THEN "J" ELSE IF symbol = "J" THEN "K" ELSE "SE0"

Emit(s, stuffing) == /\ line = "sampled"
                     /\ enc' = [current_state |-> s, bit_stuffing |-> stuffing]
                     /\ line' = usb_tx_dpdm(Symbol(s))
                     /\ emitted' = emitted + 1
                     /\ UNCHANGED <<dec, received, lost, noise>>

(* A one keeps the level, a zero changes it.  The first bit of every packet *)
(* is a zero, of USB_SYNC.                                                  *)
EncodeBit(b) == /\ enc.bit_stuffing > 0 /\ (sent = << >> => b = 0)
                /\ \/ b = 1 /\ Emit(enc.current_state, enc.bit_stuffing - 1)
                   \/ b = 0 /\ Emit(1 - enc.current_state, 6)
                /\ sent' = Append(sent, b)

(* Mutant: a stuffed bit counts as a first one of the next six.             *)
AfterStuffing_one == 5

AfterStuffing == 6

(* After six ones in a row, a level change that carries no bit.             *)
EncodeStuffing == /\ enc.bit_stuffing = 0
                  /\ Emit(1 - enc.current_state, AfterStuffing)
                  /\ UNCHANGED sent

(* End of packet: both lines low, once the stuffed bit is out.              *)
EncodeSE0 == /\ line = "sampled" /\ enc.bit_stuffing > 0
             /\ line' = usb_tx_dpdm("SE0")
             /\ UNCHANGED <<enc, dec, sent, received, emitted, lost, noise>>

(* usb_nrzi_decoder at a trigger; the pin is inverted, high is the K level  *)
(* or SE0.                                                                  *)
Decoded(d, high) ==
    IF d.y = 0              THEN [x |-> 1 - d.x, y |-> 6,       bit |-> << >>]
    ELSE IF high <=> d.x = 0 THEN [x |-> 1 - d.x, y |-> 6,       bit |-> <<0>>]
                            ELSE [x |-> d.x,     y |-> d.y - 1, bit |-> <<1>>]

(* usb_edge_detector: one trigger per bit time.  The SE0 triggers it once   *)
(* more before the end of the packet is flagged.  With y left at 0 the first*)
(* bit is taken for a stuffed one.                                          *)
Sample == /\ line \in {"J", "K", "SE0"}
          /\ LET d == Decoded(dec, line # "J") IN
             /\ dec' = [x |-> d.x, y |-> d.y]
             /\ received' = received \o d.bit
          /\ lost' = IF emitted = 1 /\ dec.y = 0 THEN <<0>> ELSE lost
          /\ line' = IF line = "SE0" THEN "end" ELSE "sampled"
          /\ UNCHANGED <<enc, sent, emitted, noise>>

(* External: one level is sampled wrong, or the cable breaks.               *)
Noise == /\ \/ line = "J" /\ line' = "K"
            \/ line = "K" /\ line' = "J"
            \/ line \in {"J", "K"} /\ line' = "SE0"
         /\ noise' = TRUE
         /\ UNCHANGED <<enc, dec, sent, received, emitted, lost>>

NrziNext == \/ \E b \in {0, 1} : EncodeBit(b)
            \/ EncodeStuffing \/ EncodeSE0 \/ Sample \/ Noise

NrziSpec == NrziInit /\ [][NrziNext]_nrziVars

-----------------------------------------------------------------------------

(* The registers stay in range; y is never 0 where the program counts it    *)
(* down, which its comment relies on.                                       *)
NrziTypeOK == /\ enc \in [current_state : {0, 1}, bit_stuffing : 0 .. 6]
              /\ line \in {"sampled", "J", "K", "SE0", "end"}
              /\ dec \in [x : {0, 1}, y : 0 .. 6]
              /\ sent \in Seq({0, 1}) /\ received \in Seq({0, 1})
              /\ emitted \in Nat /\ lost \in {<< >>, <<0>>} /\ noise \in BOOLEAN

(* On a clean line the receiver has every bit that was sent, in order, and  *)
(* none of the stuffed ones, although nobody tells it which they are; only a*)
(* decoder that was left at the end of a run of ones misses the first bit.  *)
BitsArrive == ~noise /\ line = "sampled" => sent = lost \o received

Bytes == Len(sent) \div 8

(* Mutant: the encoded packet is filled up to whole words.                  *)
EncodedBytes_words == 4 * ((emitted + 18) \div 16)

EncodedBytes == (emitted + 6) \div 4   \* with SE0, COMP and the K that fill the last byte

(* The encoded packet fits the buffers, which are sized by                  *)
(* bytes * 2 * 7 / 6 + 2, however many bits have to be stuffed.             *)
EncodedFits == Len(sent) % 8 = 0 => EncodedBytes <= (Bytes * 14) \div 6 + 2

-----------------------------------------------------------------------------
(* What the steps preserve.                                                 *)

(* Between two symbols the decoder mirrors the encoder, but for what y was  *)
(* before the packet.                                                       *)
Level(s) == IF s = 1 THEN "J" ELSE "K"

Mirrored == line = "sampled" => /\ dec.x = 1 - enc.current_state
                                /\ emitted > 0 => dec.y = enc.bit_stuffing
                                /\ sent = lost \o received

(* Nothing has been sent yet.                                               *)
Unsent == emitted = 0 => /\ sent = << >> /\ lost = << >> /\ enc.bit_stuffing = 6
                         /\ line \in {"sampled", "SE0", "end"}

(* A stuffed level is on the line, or the level of a bit, or that of a first*)
(* bit that is dropped.                                                     *)
StuffingDue == /\ dec.y = 0 /\ enc.bit_stuffing = 6 /\ emitted > 1
               /\ dec.x = enc.current_state /\ sent = lost \o received

BitDue == /\ dec.y > 0
          /\ \E b \in {0, 1} : /\ sent = lost \o Append(received, b)
                               /\ b = 1 => /\ dec.x = 1 - enc.current_state
                                           /\ dec.y = enc.bit_stuffing + 1
                               /\ b = 0 => /\ dec.x = enc.current_state
                                           /\ enc.bit_stuffing = 6

FirstDue == /\ dec.y = 0 /\ enc.bit_stuffing = 6 /\ emitted = 1
            /\ dec.x = enc.current_state /\ sent = <<0>> /\ lost = << >> /\ received = << >>

OnTheLine == line \in {"J", "K"} => /\ line = Level(enc.current_state)
                                    /\ StuffingDue \/ BitDue \/ FirstDue

(* Each stuffed bit has been paid for by six ones.                          *)
StuffingPaid == 6 * emitted + (6 - enc.bit_stuffing) <= 7 * Len(sent)

NrziInv == /\ NrziTypeOK
           /\ ~noise => Mirrored /\ Unsent /\ OnTheLine
           /\ StuffingPaid
=============================================================================
