------------------------------ MODULE NesPort ------------------------------
(***************************************************************************)
(* The console port: nes_handler_thread on core 1, the OE interrupt that   *)
(* runs on the same core (pio_IRQ_handler), and the PIO programs between   *)
(* them and the NES.  Core 1 polls the OUT lines, selects a matrix row or  *)
(* latches a serial word, and puts row and next serial bit on the data     *)
(* pins, for ever; each end of a NES read interrupts it, anywhere, to move *)
(* the word by a bit.  What a word holds is left to KeyBuffer and          *)
(* MouseReport: here a word is [n, k], the n-th latched (modulo 2) after k *)
(* shifts, so that a bit on the pins tells which bit of which word it is.  *)
(***************************************************************************)
EXTENDS Integers, Sequences

CONSTANTS
    Modes,          \* values of usb2kbmode
    Rows,           \* half rows of the matrix (18 or 26)
    RowSize,        \* cells in one (4)
    Cells,          \* cells whose keys the user presses
    Bits,           \* bits of a word
    Lag,            \* OUT lines that may lag behind the others in a sample
    LagModes,       \* values of usb2kbmode where they may
    Patience        \* core 1 iterations the NES leaves between accesses

ASSUME PortAssumption ==
    /\ Modes \subseteq 0 .. 3
    /\ Rows \in Nat \ {0, 1} /\ RowSize \in Nat \ {0}
    /\ Cells \subseteq 0 .. Rows * RowSize - 1
    /\ Bits \in Nat \ {0} /\ Patience \in Nat

Lines == {"OUT0", "OUT1", "OUT2"}

VARIABLES
    usb2kbmode,
    lines, before,          \* the OUT lines, and what they were before
    fresh,                  \* no sample since the lines changed
    oe,                     \* nesoe waits for its interrupt to be cleared
    keymatrix,
    pc, instrobe, enable, toggle, select,   \* core 1
    words, sbmouseindex, sbmouselength,     \* kbword, horitrack: words[0]
    output, pins,           \* being built, and on the data lines
    calm, quiet,            \* half iterations since the NES's access and
                            \*   its interrupt, since a key change
    row, next               \* history: row and serial bit the NES expects

nes   == <<lines, before, fresh, row>>
scan  == <<instrobe, enable, toggle, select>>
mouse == <<sbmouseindex, sbmouselength>>
vars  == <<usb2kbmode, nes, oe, keymatrix, pc, scan, words, mouse, output,
           pins, calm, quiet, next>>

NoCells == [j \in 1 .. RowSize |-> FALSE]
Row(r) == [j \in 1 .. RowSize |-> keymatrix[r * RowSize + j - 1]]
NoWord == [n |-> 0, k |-> 0]
NoBit  == [n |-> 0, byte |-> 0, k |-> 0]
Settled == ~oe /\ calm = 2 * Patience
Shift(k) == IF k < Bits THEN k + 1 ELSE Bits

Init ==
    /\ usb2kbmode \in Modes
    /\ lines = [l \in Lines |-> FALSE] /\ before = lines /\ fresh = FALSE
    /\ oe = FALSE
    /\ keymatrix = [i \in 0 .. Rows * RowSize - 1 |-> FALSE]
    /\ pc = "sample" /\ instrobe = FALSE /\ enable = FALSE
    /\ toggle = FALSE /\ select = 0
    /\ words = [i \in 0 .. 2 |-> NoWord]
    /\ sbmouseindex = 0 /\ sbmouselength = 0
    /\ output = <<>>
    /\ pins = [cells |-> NoCells, bit |-> NoBit]
    /\ calm = 0 /\ quiet = 0
    /\ row = 0 /\ next = [valid |-> FALSE, bit |-> NoBit]

-----------------------------------------------------------------------------
(* The NES.  It leaves Patience iterations between its accesses, and in    *)
(* Subor mode it reads a mouse packet to its end before it strobes the     *)
(* keyboard, whose strobe moves the packet on as well.                     *)

PacketOver == ~next.valid \/ next.bit.byte + 1 >= sbmouselength

(* What a rising OUT0 makes the next serial bit. *)
Strobed(o) ==
    LET fresher == [n |-> 1 - next.bit.n, byte |-> 0, k |-> 0]
    IN  IF usb2kbmode = 1 THEN next
        ELSE IF usb2kbmode # 2 THEN [valid |-> TRUE, bit |-> fresher]
        ELSE IF o["OUT2"] THEN [next EXCEPT !.valid = FALSE]
        ELSE IF PacketOver THEN [valid |-> TRUE, bit |-> fresher]
        ELSE [next EXCEPT !.bit.byte = @ + 1, !.bit.k = 0]

(* $4016 is written.  OUT0 selects the first half row, OUT1 changing moves *)
(* to the next; after a strobe OUT1 counts from low.                       *)
NesWrite(o) ==
    LET rises == o["OUT0"] /\ ~lines["OUT0"]
    IN  /\ Settled /\ o # lines
        /\ usb2kbmode = 2 /\ rises /\ o["OUT2"] => PacketOver
        /\ lines' = o /\ before' = lines /\ fresh' = TRUE
        /\ row' = IF rises THEN (IF o["OUT1"] THEN 1 ELSE 0)
                  ELSE IF o["OUT1"] # lines["OUT1"] THEN (row + 1) % Rows ELSE row
        /\ next' = IF rises THEN Strobed(o) ELSE next
        /\ calm' = 0
        /\ UNCHANGED <<usb2kbmode, oe, keymatrix, pc, scan, words, mouse, output, pins, quiet>>

(* The joypad port whose OE moves the serial word: $4016 for Hori Track.   *)
SerialPort == IF usb2kbmode = 3 THEN 1 ELSE 2

(* $4016 or $4017 is read; at the end of the read nesoe raises interrupt 3, *)
(* which mode 1 leaves disabled.                                           *)
NesRead(port) ==
    /\ Settled
    /\ IF port = SerialPort /\ usb2kbmode # 1
       THEN oe' = TRUE /\ next' = [next EXCEPT !.bit.k = Shift(@)]
       ELSE UNCHANGED <<oe, next>>
    /\ calm' = 0
    /\ UNCHANGED <<usb2kbmode, nes, keymatrix, pc, scan, words, mouse, output, pins, quiet>>

(* Core 0 changes a key (keycode_handler). *)
KeyChange(i) ==
    /\ keymatrix' = [keymatrix EXCEPT ![i] = ~@]
    /\ quiet' = 0
    /\ UNCHANGED <<usb2kbmode, nes, oe, pc, scan, words, mouse, output, pins, calm, next>>

-----------------------------------------------------------------------------
(* Core 1. *)

(* Mutant: in Subor mode the first byte is shifted, whichever is read.     *)
pio_IRQ_handler_first ==
    /\ oe /\ oe' = FALSE
    /\ words' = [words EXCEPT ![0].k = Shift(@)]
    /\ calm' = 0
    /\ UNCHANGED <<usb2kbmode, nes, keymatrix, pc, scan, mouse, output, pins, quiet, next>>

(* pio_IRQ_handler interrupts the loop and shifts the word being read. *)
pio_IRQ_handler ==
    /\ oe /\ oe' = FALSE
    /\ LET i == IF usb2kbmode = 2 THEN sbmouseindex ELSE 0
       IN  words' = [words EXCEPT ![i].k = Shift(@)]
    /\ calm' = 0
    /\ UNCHANGED <<usb2kbmode, nes, keymatrix, pc, scan, mouse, output, pins, quiet, next>>

(* The flags of the PIO programs, one per line; the sample that falls on a *)
(* write may find one line changed and another not yet.                    *)
Samples ==
    IF fresh
    THEN {o \in [Lines -> BOOLEAN] :
            \A l \in Lines :
                \/ o[l] = lines[l]
                \/ l \in Lag /\ usb2kbmode \in LagModes /\ o[l] = before[l]}
    ELSE {lines}

Began(count, full) == IF count % 2 = 0 /\ count < full THEN count + 1 ELSE count
Ended(count) == IF count % 2 = 1 THEN count + 1 ELSE count

(* Mutant: toggle is not reset by a strobe.                                *)
Sample_keeptoggle ==
    /\ pc = "sample"
    /\ \E o \in Samples :
        LET rises == o["OUT0"] /\ ~instrobe
            moves == usb2kbmode > 0 /\ ~rises /\ o["OUT1"] # toggle
        IN  /\ instrobe' = o["OUT0"]
            /\ enable' = (usb2kbmode > 0 /\ o["OUT2"])
            /\ select' = IF rises THEN 0
                         ELSE IF moves THEN (select + 1) % Rows ELSE select
            /\ toggle' = IF moves THEN o["OUT1"] ELSE toggle
            /\ pc' = IF rises /\ usb2kbmode # 1 THEN "latch" ELSE "output"
    /\ fresh' = FALSE /\ before' = lines
    /\ output' = <<>>
    /\ calm' = Began(calm, 2 * Patience) /\ quiet' = Began(quiet, 2)
    /\ UNCHANGED <<usb2kbmode, lines, row, oe, keymatrix, words, mouse, pins, next>>

(* A new iteration: strobe starts, or OUT1 has changed, or neither.        *)
Sample ==
    /\ pc = "sample"
    /\ \E o \in Samples :
        LET rises == o["OUT0"] /\ ~instrobe
            moves == usb2kbmode > 0 /\ ~rises /\ o["OUT1"] # toggle
        IN  /\ instrobe' = o["OUT0"]
            /\ enable' = (usb2kbmode > 0 /\ o["OUT2"])
            /\ select' = IF rises THEN 0
                         ELSE IF moves THEN (select + 1) % Rows ELSE select
            /\ toggle' = IF rises THEN FALSE ELSE IF moves THEN o["OUT1"] ELSE toggle
            /\ pc' = IF rises /\ usb2kbmode # 1 THEN "latch" ELSE "output"
    /\ fresh' = FALSE /\ before' = lines
    /\ output' = <<>>
    /\ calm' = Began(calm, 2 * Patience) /\ quiet' = Began(quiet, 2)
    /\ UNCHANGED <<usb2kbmode, lines, row, oe, keymatrix, words, mouse, pins, next>>

(* The packet moves on by a byte; at its end a new one is due, unless the  *)
(* keyboard is enabled.  The other modes latch a word at every strobe.     *)
Latch ==
    /\ pc = "latch"
    /\ IF usb2kbmode # 2
       THEN pc' = "build" /\ UNCHANGED mouse
       ELSE LET i == IF sbmouseindex < sbmouselength THEN sbmouseindex + 1 ELSE sbmouseindex
            IN  IF i = sbmouselength
                THEN /\ sbmouseindex' = 0 /\ sbmouselength' = 0
                     /\ pc' = IF enable THEN "output" ELSE "build"
                ELSE /\ sbmouseindex' = i /\ UNCHANGED sbmouselength
                     /\ pc' = "output"
    /\ UNCHANGED <<usb2kbmode, nes, oe, keymatrix, scan, words, output, pins,
                   calm, quiet, next>>

(* The word, or the one or three bytes of a packet, are written. *)
Build ==
    /\ pc = "build"
    /\ words' = [i \in 0 .. 2 |-> [n |-> 1 - words[0].n, k |-> 0]]
    /\ IF usb2kbmode = 2 THEN sbmouselength' \in {1, 3} ELSE UNCHANGED sbmouselength
    /\ pc' = "output"
    /\ UNCHANGED <<usb2kbmode, nes, oe, keymatrix, scan, sbmouseindex, output, pins,
                   calm, quiet, next>>

(* One cell of the selected row after the other, nothing if not enabled. *)
OutputCell ==
    /\ pc = "output" /\ usb2kbmode > 0 /\ Len(output) < RowSize
    /\ output' = IF enable THEN Append(output, Row(select)[Len(output) + 1]) ELSE NoCells
    /\ UNCHANGED <<usb2kbmode, nes, oe, keymatrix, pc, scan, words, mouse, pins,
                   calm, quiet, next>>

(* The top bit of the word joins it, and usb2famikb_putkb forces the value *)
(* on the pins whatever the nesoe program is doing.                        *)
OutputBit ==
    /\ pc = "output" /\ (usb2kbmode = 0 \/ Len(output) = RowSize)
    /\ LET i == IF usb2kbmode = 2 THEN sbmouseindex ELSE 0
       IN  output' = [cells |-> IF usb2kbmode = 0 THEN NoCells ELSE output,
                      bit |-> IF usb2kbmode = 1 THEN NoBit
                              ELSE [n |-> words[i].n, byte |-> i, k |-> words[i].k]]
    /\ pc' = "put"
    /\ UNCHANGED <<usb2kbmode, nes, oe, keymatrix, scan, words, mouse, pins,
                   calm, quiet, next>>

usb2famikb_putkb ==
    /\ pc = "put"
    /\ pins' = output /\ output' = <<>>
    /\ pc' = "sample"
    /\ calm' = Ended(calm) /\ quiet' = Ended(quiet)
    /\ UNCHANGED <<usb2kbmode, nes, oe, keymatrix, scan, words, mouse, next>>

-----------------------------------------------------------------------------
Loop == Sample \/ Latch \/ Build \/ OutputCell \/ OutputBit \/ usb2famikb_putkb

Next ==
    \/ \E o \in [Lines -> BOOLEAN] : NesWrite(o)
    \/ \E port \in {1, 2} : NesRead(port)
    \/ \E i \in Cells : KeyChange(i)
    \/ pio_IRQ_handler
    \/ Loop

Spec == Init /\ [][Next]_vars

-----------------------------------------------------------------------------
Words == [n : 0 .. 1, k : 0 .. Bits]
BitsOf == [n : 0 .. 1, byte : 0 .. 2, k : 0 .. Bits]

(* The variables keep their types; in particular sbmouseindex stays an     *)
(* index of subormouse and select one of the matrix.                       *)
TypeOK ==
    /\ usb2kbmode \in Modes
    /\ {lines, before} \subseteq [Lines -> BOOLEAN]
    /\ {fresh, oe, instrobe, enable, toggle} \subseteq BOOLEAN
    /\ pc \in {"sample", "latch", "build", "output", "put"}
    /\ select \in 0 .. Rows - 1 /\ row \in 0 .. Rows - 1
    /\ words \in [0 .. 2 -> Words]
    /\ sbmouselength \in {0, 1, 3} /\ sbmouseindex \in 0 .. 2
    /\ pins \in [cells : [1 .. RowSize -> BOOLEAN], bit : BitsOf]
    /\ next \in [valid : BOOLEAN, bit : BitsOf]

(* Once a quiet iteration has passed, the pins show the half row the NES   *)
(* selected, counting its strobe and every change of OUT1, and nothing     *)
(* while it has the keyboard off: no poll misses a change or counts one    *)
(* twice, even when a sample falls into the middle of a write.             *)
RowShown ==
    usb2kbmode > 0 /\ Settled /\ quiet = 2 =>
        pins.cells = IF lines["OUT2"] THEN Row(row) ELSE NoCells

(* The i-th read after a strobe finds bit i of the word that strobe        *)
(* latched, and a Subor packet comes byte by byte: no bit is skipped,      *)
(* shown twice or put from a word already shifted, wherever the interrupt  *)
(* cut into the loop.                                                      *)
NextBitShown == next.valid /\ Settled => pins.bit = next.bit
=============================================================================
