--------------------------- MODULE NesPort_proofs ---------------------------
(* The console port, for every size of the matrix and of a word: with three *)
(* iterations of core 1 between two accesses of the NES, the pins show the  *)
(* row the NES counts to and the bit it is to read next.                    *)
EXTENDS NesPort, TLAPS

Wires == [Lines -> BOOLEAN]

(* The words, pins and counters keep their types.                           *)
Typed ==
    /\ TypeOK
    /\ calm \in 0 .. 2 * Patience /\ quiet \in 0 .. 2
    /\ keymatrix \in [0 .. Rows * RowSize - 1 -> BOOLEAN]
    /\ pc \in {"latch", "build"} => output = <<>>
    /\ pc = "output" => output \in Seq(BOOLEAN) /\ Len(output) <= RowSize
    /\ pc = "put" => output \in [cells : [1 .. RowSize -> BOOLEAN], bit : BitsOf]

(* The constants as numbers.                                                *)
LEMMA PortNumbers == /\ Modes \subseteq 0 .. 3
                     /\ Rows \in Nat /\ Rows > 1 /\ RowSize \in Nat /\ RowSize > 0
                     /\ Bits \in Nat /\ Bits > 0 /\ Patience \in Nat
BY PortAssumption

(* A half row of the matrix lies within it.                                 *)
LEMMA RowTyped == ASSUME keymatrix \in [0 .. Rows * RowSize - 1 -> BOOLEAN], NEW r \in 0 .. Rows - 1
                  PROVE  Row(r) \in [1 .. RowSize -> BOOLEAN]
<1>1. ASSUME NEW j \in 1 .. RowSize PROVE r * RowSize + j - 1 \in 0 .. Rows * RowSize - 1
  <2>1. r \in Nat /\ r + 1 <= Rows /\ j \in Nat /\ 1 <= j /\ j <= RowSize
    BY PortNumbers
  <2>2. (r + 1) * RowSize <= Rows * RowSize
    BY <2>1, PortNumbers
  <2>3. (r + 1) * RowSize = r * RowSize + RowSize /\ r * RowSize \in Nat
    BY <2>1, PortNumbers
  <2>4. Rows * RowSize \in Nat
    BY PortNumbers
  <2> QED BY <2>1, <2>2, <2>3, <2>4, PortNumbers
<1> QED BY <1>1 DEF Row

(* Nothing pressed is a row as well.                                        *)
LEMMA NoCellsTyped == /\ NoCells \in [1 .. RowSize -> BOOLEAN]
                      /\ NoCells \in Seq(BOOLEAN) /\ Len(NoCells) = RowSize
<1>1. NoCells \in [1 .. RowSize -> BOOLEAN] /\ NoCells = [j \in 1 .. RowSize |-> FALSE]
  BY DEF NoCells
<1> QED BY <1>1, PortNumbers

(* A word is shifted at most through.                                       *)
LEMMA ShiftTyped == ASSUME NEW k \in 0 .. Bits PROVE Shift(k) \in 0 .. Bits
BY PortNumbers DEF Shift

(* A sample differs from the lines only if it falls on a write, and then    *)
(* shows what they were before.                                             *)
LEMMA SampleLines == ASSUME Typed, NEW o \in Samples
                     PROVE  /\ o \in Wires
                            /\ ~fresh => o = lines
                            /\ \A l \in Lines : o[l] \in {lines[l], before[l]}
                            /\ usb2kbmode \notin LagModes => o = lines
<1>1. lines \in Wires
  BY DEF Typed, TypeOK, Wires
<1>2. CASE fresh
  <2>1. /\ o \in Wires
        /\ \A l \in Lines : \/ o[l] = lines[l]
                            \/ l \in Lag /\ usb2kbmode \in LagModes /\ o[l] = before[l]
    BY <1>2 DEF Samples, Wires
  <2>2. ASSUME usb2kbmode \notin LagModes PROVE o = lines
    BY <1>1, <2>1, <2>2 DEF Wires
  <2> QED BY <1>2, <2>1, <2>2
<1>3. CASE ~fresh
  BY <1>1, <1>3 DEF Samples
<1> QED BY <1>2, <1>3

(* The counters of iterations stay within their bound.                      *)
LEMMA Calmed == ASSUME NEW count \in Nat, NEW full \in Nat, count <= full, full % 2 = 0
                PROVE  /\ Began(count, full) \in 0 .. full
                       /\ Ended(count) \in 0 .. full
                       /\ Began(count, full) >= count /\ Ended(count) >= count
                       /\ Began(count, full) <= count + 1 /\ Ended(count) <= count + 1
BY DEF Began, Ended

(* Both counters do.                                                        *)
LEMMA CountsTyped == ASSUME Typed
                     PROVE  /\ Began(calm, 2 * Patience) \in 0 .. 2 * Patience /\ Began(quiet, 2) \in 0 .. 2
                            /\ Ended(calm) \in 0 .. 2 * Patience /\ Ended(quiet) \in 0 .. 2
<1>1. calm \in Nat /\ quiet \in Nat /\ calm <= 2 * Patience /\ quiet <= 2
      /\ 2 * Patience \in Nat /\ 2 \in Nat
  BY PortNumbers DEF Typed
<1>2. (2 * Patience) % 2 = 0 /\ 2 % 2 = 0
  BY PortNumbers
<1>3. Began(calm, 2 * Patience) \in 0 .. 2 * Patience /\ Ended(calm) \in 0 .. 2 * Patience
  BY <1>1, <1>2, Calmed
<1>4. Began(quiet, 2) \in 0 .. 2 /\ Ended(quiet) \in 0 .. 2
  BY <1>1, <1>2, Calmed
<1> QED BY <1>3, <1>4

-----------------------------------------------------------------------------

(* At the start everything has its type.                                    *)
LEMMA TypedInit == Init => Typed
<1> SUFFICES ASSUME Init PROVE Typed
  OBVIOUS
<1>1. /\ lines \in Wires /\ before \in Wires /\ fresh \in BOOLEAN /\ oe \in BOOLEAN
      /\ instrobe \in BOOLEAN /\ enable \in BOOLEAN /\ toggle \in BOOLEAN
  BY DEF Init, Wires
<1>2. select \in 0 .. Rows - 1 /\ row \in 0 .. Rows - 1 /\ calm \in 0 .. 2 * Patience /\ quiet \in 0 .. 2
  BY PortNumbers DEF Init
<1>3. NoWord \in Words /\ NoBit \in BitsOf
  BY PortNumbers DEF NoWord, NoBit, Words, BitsOf
<1>4. words \in [0 .. 2 -> Words] /\ pins \in [cells : [1 .. RowSize -> BOOLEAN], bit : BitsOf]
      /\ next \in [valid : BOOLEAN, bit : BitsOf]
  BY <1>3, NoCellsTyped DEF Init
<1>5. keymatrix \in [0 .. Rows * RowSize - 1 -> BOOLEAN]
  BY DEF Init
<1> QED BY <1>1, <1>2, <1>4, <1>5 DEF Init, Typed, TypeOK, Wires

(* So it has after an access of the NES or a key.                           *)
LEMMA TypedNes == ASSUME Typed, \/ \E o \in [Lines -> BOOLEAN] : NesWrite(o)
                                \/ \E port \in {1, 2} : NesRead(port)
                                \/ \E i \in Cells : KeyChange(i)
                  PROVE  Typed'
<1>1. ASSUME NEW o \in [Lines -> BOOLEAN], NesWrite(o) PROVE Typed'
  <2>1. /\ lines' = o /\ before' = lines /\ fresh' = TRUE /\ calm' = 0
        /\ UNCHANGED <<usb2kbmode, oe, keymatrix, pc, scan, words, mouse, output, pins, quiet>>
        /\ row' \in {0, 1, (row + 1) % Rows, row}
        /\ next' = next \/ next' = Strobed(o)
    BY <1>1 DEF NesWrite
  <2>2. row' \in 0 .. Rows - 1
    BY <2>1, PortNumbers DEF Typed, TypeOK
  <2>3. next \in [valid : BOOLEAN, bit : [n : 0 .. 1, byte : 0 .. 2, k : 0 .. Bits]]
        /\ sbmouselength \in {0, 1, 3}
    BY DEF Typed, TypeOK, BitsOf
  <2>4. Strobed(o) \in [valid : BOOLEAN, bit : [n : 0 .. 1, byte : 0 .. 2, k : 0 .. Bits]]
    <3>1. 1 - next.bit.n \in 0 .. 1 /\ 0 \in 0 .. Bits /\ 0 \in 0 .. 2
      BY <2>3, PortNumbers
    <3>2. [n |-> 1 - next.bit.n, byte |-> 0, k |-> 0] \in [n : 0 .. 1, byte : 0 .. 2, k : 0 .. Bits]
      BY <3>1
    <3>3. ASSUME ~PacketOver PROVE next.bit.byte + 1 \in 0 .. 2
      BY <2>3, <3>3 DEF PacketOver
    <3>4. [next EXCEPT !.valid = FALSE] \in [valid : BOOLEAN, bit : [n : 0 .. 1, byte : 0 .. 2, k : 0 .. Bits]]
      BY <2>3
    <3>5. ASSUME ~PacketOver
          PROVE [next EXCEPT !.bit.byte = @ + 1, !.bit.k = 0]
                  \in [valid : BOOLEAN, bit : [n : 0 .. 1, byte : 0 .. 2, k : 0 .. Bits]]
      BY <2>3, <3>1, <3>3, <3>5
    <3> QED BY <2>3, <3>2, <3>4, <3>5 DEF Strobed
  <2>5. next' \in [valid : BOOLEAN, bit : BitsOf]
    BY <2>1, <2>3, <2>4 DEF BitsOf
  <2>6. calm' \in 0 .. 2 * Patience
    BY <2>1, PortNumbers
  <2> QED BY <2>1, <2>2, <2>5, <2>6 DEF Typed, TypeOK, scan, mouse
<1>2. ASSUME NEW port \in {1, 2}, NesRead(port) PROVE Typed'
  <2>1. /\ calm' = 0
        /\ UNCHANGED <<usb2kbmode, nes, keymatrix, pc, scan, words, mouse, output, pins, quiet>>
        /\ oe' = oe \/ oe' = TRUE
        /\ next' = next \/ next' = [next EXCEPT !.bit.k = Shift(@)]
    BY <1>2 DEF NesRead
  <2>2. next \in [valid : BOOLEAN, bit : [n : 0 .. 1, byte : 0 .. 2, k : 0 .. Bits]]
    BY DEF Typed, TypeOK, BitsOf
  <2>3. Shift(next.bit.k) \in 0 .. Bits
    BY <2>2, ShiftTyped
  <2>4. next' \in [valid : BOOLEAN, bit : BitsOf]
    BY <2>1, <2>2, <2>3 DEF BitsOf
  <2>5. calm' \in 0 .. 2 * Patience
    BY <2>1, PortNumbers
  <2> QED BY <2>1, <2>4, <2>5 DEF Typed, TypeOK, nes, scan, mouse
<1>3. ASSUME NEW i \in Cells, KeyChange(i) PROVE Typed'
  <2>1. /\ keymatrix' = [keymatrix EXCEPT ![i] = ~@] /\ quiet' = 0
        /\ UNCHANGED <<usb2kbmode, nes, oe, pc, scan, words, mouse, output, pins, calm, next>>
    BY <1>3 DEF KeyChange
  <2>2. keymatrix' \in [0 .. Rows * RowSize - 1 -> BOOLEAN]
    BY <2>1 DEF Typed
  <2> QED BY <2>1, <2>2 DEF Typed, TypeOK, nes, scan, mouse
<1> QED BY <1>1, <1>2, <1>3

(* So it has after each step of core 1; sbmouseindex is raised only below   *)
(* sbmouselength.                                                           *)
LEMMA TypedLoop == ASSUME Typed, pio_IRQ_handler \/ Loop PROVE Typed'
<1>0. words \in [0 .. 2 -> [n : 0 .. 1, k : 0 .. Bits]] /\ sbmouseindex \in 0 .. 2
      /\ sbmouselength \in {0, 1, 3}
  BY DEF Typed, TypeOK, Words
<1>1. ASSUME pio_IRQ_handler PROVE Typed'
  <2> DEFINE i == IF usb2kbmode = 2 THEN sbmouseindex ELSE 0
  <2>1. /\ oe' = FALSE /\ words' = [words EXCEPT ![i].k = Shift(@)] /\ calm' = 0
        /\ UNCHANGED <<usb2kbmode, nes, keymatrix, pc, scan, mouse, output, pins, quiet, next>>
    BY <1>1 DEF pio_IRQ_handler
  <2>2. i \in 0 .. 2
    BY <1>0
  <2> HIDE DEF i
  <2>3. Shift(words[i].k) \in 0 .. Bits
    BY <1>0, <2>2, ShiftTyped
  <2>4. words' \in [0 .. 2 -> Words]
    BY <1>0, <2>1, <2>2, <2>3 DEF Words
  <2>5. calm' \in 0 .. 2 * Patience
    BY <2>1, PortNumbers
  <2> QED BY <2>1, <2>4, <2>5 DEF Typed, TypeOK, nes, scan, mouse
<1>2. ASSUME Sample PROVE Typed'
  <2>1. PICK o \in Samples :
          /\ instrobe' = o["OUT0"]
          /\ enable' = (usb2kbmode > 0 /\ o["OUT2"])
          /\ select' \in {0, (select + 1) % Rows, select}
          /\ toggle' \in {FALSE, o["OUT1"], toggle}
          /\ pc' \in {"latch", "output"}
    BY <1>2 DEF Sample
  <2>2. /\ fresh' = FALSE /\ before' = lines /\ output' = <<>>
        /\ calm' = Began(calm, 2 * Patience) /\ quiet' = Began(quiet, 2)
        /\ UNCHANGED <<usb2kbmode, lines, row, oe, keymatrix, words, mouse, pins, next>>
    BY <1>2 DEF Sample
  <2>3. o \in [Lines -> BOOLEAN]
    BY SampleLines DEF Wires
  <2>4. instrobe' \in BOOLEAN /\ enable' \in BOOLEAN /\ toggle' \in BOOLEAN
    BY <2>1, <2>3 DEF Lines, Typed, TypeOK
  <2>5. select' \in 0 .. Rows - 1
    BY <2>1, PortNumbers DEF Typed, TypeOK
  <2>6. calm' \in 0 .. 2 * Patience /\ quiet' \in 0 .. 2
    BY <2>2, CountsTyped
  <2>7. output' \in Seq(BOOLEAN) /\ Len(output') <= RowSize
    BY <2>2, PortNumbers
  <2> QED BY <2>1, <2>2, <2>4, <2>5, <2>6, <2>7 DEF Typed, TypeOK, mouse
<1>3. ASSUME Latch PROVE Typed'
  <2>1. /\ pc' \in {"build", "output"} /\ pc = "latch"
        /\ UNCHANGED <<usb2kbmode, nes, oe, keymatrix, scan, words, output, pins, calm, quiet, next>>
        /\ sbmouselength' \in {0, sbmouselength}
        /\ sbmouseindex' \in {0, sbmouseindex, sbmouseindex + 1}
        /\ sbmouseindex' = sbmouseindex + 1 =>
              sbmouseindex < sbmouselength /\ sbmouseindex + 1 # sbmouselength
    BY <1>0, <1>3 DEF Latch, mouse
  <2>2. sbmouseindex' \in 0 .. 2
    BY <1>0, <2>1
  <2>3. output' \in Seq(BOOLEAN) /\ Len(output') <= RowSize /\ output' = <<>>
    BY <2>1, PortNumbers DEF Typed
  <2> QED BY <1>0, <2>1, <2>2, <2>3 DEF Typed, TypeOK, nes, scan
<1>4. ASSUME Build PROVE Typed'
  <2>1. /\ words' = [i \in 0 .. 2 |-> [n |-> 1 - words[0].n, k |-> 0]]
        /\ sbmouselength' \in {1, 3, sbmouselength}
        /\ pc = "build" /\ pc' = "output"
        /\ UNCHANGED <<usb2kbmode, nes, oe, keymatrix, scan, sbmouseindex, output, pins,
                       calm, quiet, next>>
    BY <1>4 DEF Build
  <2>2. words' \in [0 .. 2 -> Words]
    BY <1>0, <2>1, PortNumbers DEF Words
  <2>3. output' \in Seq(BOOLEAN) /\ Len(output') <= RowSize /\ output' = <<>>
    BY <2>1, PortNumbers DEF Typed
  <2> QED BY <1>0, <2>1, <2>2, <2>3 DEF Typed, TypeOK, nes, scan
<1>5. ASSUME OutputCell PROVE Typed'
  <2>1. /\ output' = IF enable THEN Append(output, Row(select)[Len(output) + 1]) ELSE NoCells
        /\ pc = "output" /\ Len(output) < RowSize
        /\ UNCHANGED <<usb2kbmode, nes, oe, keymatrix, pc, scan, words, mouse, pins,
                       calm, quiet, next>>
    BY <1>5 DEF OutputCell
  <2>2. output \in Seq(BOOLEAN) /\ Len(output) \in Nat
    BY <2>1 DEF Typed
  <2>3. Row(select)[Len(output) + 1] \in BOOLEAN
    <3>1. Row(select) \in [1 .. RowSize -> BOOLEAN]
      BY RowTyped DEF Typed, TypeOK
    <3> QED BY <2>1, <2>2, <3>1, PortNumbers
  <2>4. output' \in Seq(BOOLEAN) /\ Len(output') <= RowSize
    <3>1. CASE enable
      <4>1. PICK x \in BOOLEAN : x = Row(select)[Len(output) + 1]
        BY <2>3
      <4>2. output' = Append(output, x)
        BY <2>1, <3>1, <4>1
      <4>3. output' \in Seq(BOOLEAN) /\ Len(output') = Len(output) + 1
        BY <2>2, <4>2
      <4> QED BY <2>1, <2>2, <4>3, PortNumbers
    <3>2. CASE ~enable
      BY <2>1, <3>2, NoCellsTyped, PortNumbers
    <3> QED BY <3>1, <3>2
  <2> QED BY <2>1, <2>4 DEF Typed, TypeOK, nes, scan, mouse
<1>6. ASSUME OutputBit PROVE Typed'
  <2> DEFINE i == IF usb2kbmode = 2 THEN sbmouseindex ELSE 0
  <2>1. /\ pc = "output" /\ (usb2kbmode = 0 \/ Len(output) = RowSize)
        /\ output' = [cells |-> IF usb2kbmode = 0 THEN NoCells ELSE output,
                      bit |-> IF usb2kbmode = 1 THEN NoBit
                              ELSE [n |-> words[i].n, byte |-> i, k |-> words[i].k]]
        /\ pc' = "put"
        /\ UNCHANGED <<usb2kbmode, nes, oe, keymatrix, scan, words, mouse, pins,
                       calm, quiet, next>>
    BY <1>6 DEF OutputBit
  <2>2. i \in 0 .. 2
    BY <1>0
  <2>3. NoBit \in BitsOf /\ [n |-> words[i].n, byte |-> i, k |-> words[i].k] \in BitsOf
    BY <1>0, <2>2, PortNumbers DEF BitsOf, NoBit
  <2>4. (IF usb2kbmode = 0 THEN NoCells ELSE output) \in [1 .. RowSize -> BOOLEAN]
    BY <2>1, NoCellsTyped DEF Typed
  <2> HIDE DEF i
  <2>5. output' \in [cells : [1 .. RowSize -> BOOLEAN], bit : BitsOf]
    BY <2>1, <2>3, <2>4
  <2> QED BY <2>1, <2>5 DEF Typed, TypeOK, nes, scan, mouse
<1>7. ASSUME usb2famikb_putkb PROVE Typed'
  <2>1. /\ pc = "put" /\ pins' = output /\ output' = <<>> /\ pc' = "sample"
        /\ calm' = Ended(calm) /\ quiet' = Ended(quiet)
        /\ UNCHANGED <<usb2kbmode, nes, oe, keymatrix, scan, words, mouse, next>>
    BY <1>7 DEF usb2famikb_putkb
  <2>2. calm' \in 0 .. 2 * Patience /\ quiet' \in 0 .. 2
    BY <2>1, CountsTyped
  <2> QED BY <2>1, <2>2 DEF Typed, TypeOK, nes, scan, mouse
<1> QED BY <1>1, <1>2, <1>3, <1>4, <1>5, <1>6, <1>7 DEF Loop

(* Every step keeps the types.                                              *)
LEMMA TypedStep == ASSUME Typed, [Next]_vars PROVE Typed'
<1>1. CASE UNCHANGED vars
  BY <1>1 DEF vars, nes, scan, mouse, Typed, TypeOK
<1> QED BY <1>1, TypedNes, TypedLoop DEF Next

(* The variables keep their types: no word beyond subormouse's three is     *)
(* shifted and no row beyond the matrix shown, in any mode and under any lag. *)
THEOREM PortTypes == Spec => []TypeOK
<1>1. Typed => TypeOK
  BY DEF Typed
<1> QED BY <1>1, TypedInit, TypedStep, PTL DEF Spec

-----------------------------------------------------------------------------
(* Core 1 has still to see OUT0 rise.                                       *)
RiseDue == lines["OUT0"] /\ ~instrobe

(* A strobe is on its way to the word.                                      *)
StrobeDue == RiseDue \/ pc \in {"latch", "build"}

(* The poll that falls on a write may see some lines late, the next sees    *)
(* them all.                                                                *)
Polled ==
    /\ fresh => calm = 0 /\ ~oe /\ instrobe = before["OUT0"]
    /\ calm >= 3 => instrobe = lines["OUT0"]
    /\ oe => ~StrobeDue /\ usb2kbmode # 1
    /\ pc \in {"latch", "build"} => instrobe /\ calm \in 1 .. 3 /\ usb2kbmode # 1

(* Core 1 is idle when the NES comes.                                       *)
LEMMA PolledSettled == ASSUME Patience >= 3, Typed, Polled, Settled
                       PROVE  /\ calm >= 6 /\ ~oe /\ ~fresh /\ instrobe = lines["OUT0"]
                              /\ pc \notin {"latch", "build"} /\ ~StrobeDue
<1>1. calm = 2 * Patience /\ ~oe
  BY DEF Settled
<1>2. calm >= 6
  BY <1>1, PortNumbers
<1>3. calm \in Nat /\ calm >= 3 /\ ~(calm \in 1 .. 3) /\ calm # 0
  BY <1>1, <1>2, PortNumbers
<1> QED BY <1>1, <1>2, <1>3 DEF Polled, StrobeDue, RiseDue

(* Lines and flags are Boolean.                                             *)
LEMMA Wired == ASSUME Typed
               PROVE  /\ lines \in Wires /\ before \in Wires /\ \A w \in Wires : \A l \in Lines : w[l] \in BOOLEAN
                      /\ {"OUT0", "OUT1", "OUT2"} = Lines
                      /\ lines["OUT0"] \in BOOLEAN /\ lines["OUT1"] \in BOOLEAN /\ lines["OUT2"] \in BOOLEAN
                      /\ instrobe \in BOOLEAN /\ toggle \in BOOLEAN /\ enable \in BOOLEAN
                      /\ oe \in BOOLEAN /\ fresh \in BOOLEAN
                      /\ usb2kbmode \in 0 .. 3 /\ calm \in Nat /\ quiet \in Nat
BY PortNumbers DEF Typed, TypeOK, Wires, Lines

(* What a poll does.                                                        *)
Polls(o) ==
    /\ pc = "sample"
    /\ o \in Wires /\ (~fresh => o = lines) /\ (usb2kbmode \notin LagModes => o = lines)
    /\ \A l \in Lines : o[l] \in {lines[l], before[l]}
    /\ instrobe' = o["OUT0"]
    /\ enable' = (usb2kbmode > 0 /\ o["OUT2"])
    /\ IF o["OUT0"] /\ ~instrobe
       THEN select' = 0 /\ toggle' = FALSE /\ pc' = IF usb2kbmode # 1 THEN "latch" ELSE "output"
       ELSE /\ IF usb2kbmode > 0 /\ o["OUT1"] # toggle
               THEN select' = (select + 1) % Rows /\ toggle' = o["OUT1"]
               ELSE UNCHANGED <<select, toggle>>
            /\ pc' = "output"
    /\ fresh' = FALSE /\ output' = <<>>
    /\ calm' = Began(calm, 2 * Patience) /\ quiet' = Began(quiet, 2)
    /\ UNCHANGED <<usb2kbmode, lines, row, oe, keymatrix, words, sbmouseindex, sbmouselength, pins, next>>

(* Sample is such a poll.                                                   *)
LEMMA SamplePolls == ASSUME Typed, Sample PROVE \E o : Polls(o)
<1>1. PICK o \in Samples :
        LET rises == o["OUT0"] /\ ~instrobe
            moves == usb2kbmode > 0 /\ ~rises /\ o["OUT1"] # toggle
        IN  /\ instrobe' = o["OUT0"]
            /\ enable' = (usb2kbmode > 0 /\ o["OUT2"])
            /\ select' = IF rises THEN 0
                         ELSE IF moves THEN (select + 1) % Rows ELSE select
            /\ toggle' = IF rises THEN FALSE ELSE IF moves THEN o["OUT1"] ELSE toggle
            /\ pc' = IF rises /\ usb2kbmode # 1 THEN "latch" ELSE "output"
  BY DEF Sample
<1>2. /\ pc = "sample" /\ fresh' = FALSE /\ output' = <<>>
      /\ calm' = Began(calm, 2 * Patience) /\ quiet' = Began(quiet, 2)
      /\ UNCHANGED <<usb2kbmode, lines, row, oe, keymatrix, words, sbmouseindex, sbmouselength, pins, next>>
  BY DEF Sample, mouse
<1>3. /\ o \in Wires /\ (~fresh => o = lines) /\ (usb2kbmode \notin LagModes => o = lines)
      /\ \A l \in Lines : o[l] \in {lines[l], before[l]}
  BY SampleLines
<1>4. Polls(o)
  BY <1>1, <1>2, <1>3 DEF Polls
<1> QED BY <1>4

(* How an iteration's begin counts.                                         *)
LEMMA BeganSteps == ASSUME NEW count \in Nat, NEW full \in Nat
                    PROVE  /\ Began(count, full) \in {count, count + 1}
                           /\ count = 0 /\ full > 0 => Began(count, full) = 1
                           /\ count = 2 /\ full > 2 => Began(count, full) = 3
                           /\ Began(count, full) >= 3 => count >= 2
                           /\ Began(count, full) >= 5 => count >= 4
                           /\ Began(count, full) >= 1 => full > 0 \/ count >= 1
BY DEF Began

(* How its end counts.                                                      *)
LEMMA EndedSteps == ASSUME NEW count \in Nat
                    PROVE  /\ Ended(count) \in Nat
                           /\ Ended(count) >= 3 => count >= 3
                           /\ Ended(count) >= 4 => count >= 3
                           /\ Ended(count) >= 5 => count >= 5
                           /\ Ended(count) >= 6 => count >= 5
                           /\ Ended(count) >= 1 => count >= 1
                           /\ Ended(count) = 2 => count >= 1
BY DEF Ended

-----------------------------------------------------------------------------

(* At the start no line is up.                                              *)
LEMMA PolledInit == Init => Polled
<1> SUFFICES ASSUME Init PROVE Polled
  OBVIOUS
<1>1. ~fresh /\ calm = 0 /\ ~oe /\ pc = "sample"
  BY DEF Init
<1>2. ~(calm >= 3)
  BY <1>1
<1> QED BY <1>1, <1>2 DEF Polled

(* The NES moves only when core 1 has seen all it did before.               *)
LEMMA PolledNes == ASSUME Patience >= 3, Typed, Polled,
                          \/ \E o \in [Lines -> BOOLEAN] : NesWrite(o)
                          \/ \E port \in {1, 2} : NesRead(port)
                          \/ \E i \in Cells : KeyChange(i)
                   PROVE  Polled'
<1>1. ASSUME NEW o \in [Lines -> BOOLEAN], NesWrite(o) PROVE Polled'
  <2>1. Settled /\ before' = lines /\ calm' = 0 /\ UNCHANGED <<oe, instrobe, pc>>
    BY <1>1 DEF NesWrite, scan
  <2> QED BY <2>1, PolledSettled DEF Polled
<1>2. ASSUME NEW port \in {1, 2}, NesRead(port) PROVE Polled'
  <2>1. Settled /\ calm' = 0 /\ UNCHANGED <<fresh, before, lines, instrobe, pc, usb2kbmode>>
        /\ (oe' = oe \/ (oe' = TRUE /\ usb2kbmode # 1))
    BY <1>2 DEF NesRead, scan, nes
  <2>2. ~StrobeDue'
    BY <2>1, PolledSettled DEF StrobeDue, RiseDue
  <2> QED BY <2>1, <2>2, PolledSettled DEF Polled
<1>3. ASSUME NEW i \in Cells, KeyChange(i) PROVE Polled'
  <2>1. UNCHANGED <<fresh, before, lines, instrobe, pc, usb2kbmode, calm, oe>>
    BY <1>3 DEF KeyChange, scan, nes
  <2> QED BY <2>1 DEF Polled, StrobeDue, RiseDue
<1> QED BY <1>1, <1>2, <1>3

(* Core 1 sees a rise in the first or second poll after it.                 *)
LEMMA PolledLoop == ASSUME Patience >= 3, Typed, Polled, pio_IRQ_handler \/ Loop PROVE Polled'
<1>0. calm \in Nat /\ 2 * Patience \in Nat /\ 2 * Patience >= 6
  BY PortNumbers DEF Typed
<1>1. ASSUME pio_IRQ_handler PROVE Polled'
  <2>1. oe /\ oe' = FALSE /\ calm' = 0 /\ UNCHANGED <<fresh, before, lines, instrobe, pc, usb2kbmode>>
    BY <1>1 DEF pio_IRQ_handler, scan, nes
  <2> QED BY <2>1 DEF Polled, StrobeDue, RiseDue
<1>2. ASSUME Sample PROVE Polled'
  <2>1. PICK o : Polls(o)
    BY <1>2, SamplePolls
  <2>2. calm' \in Nat /\ calm' \in {calm, calm + 1} /\ (calm = 0 => calm' = 1) /\ (calm' >= 3 => calm >= 2)
    BY <1>0, <2>1, BeganSteps DEF Polls
  <2>3. (calm >= 1 \/ oe) => o = lines
    BY <2>1 DEF Polled, Polls
  <2>4. o["OUT0"] /\ ~instrobe => lines["OUT0"]
    BY <2>1, Wired DEF Polls, Polled
  <2>5. ASSUME pc' \in {"latch", "build"} PROVE instrobe' /\ calm' \in 1 .. 3 /\ usb2kbmode' # 1 /\ ~oe
    <3>1. o["OUT0"] /\ ~instrobe /\ usb2kbmode # 1
      BY <2>1, <2>5 DEF Polls
    <3>2. RiseDue /\ ~(calm >= 3) /\ ~oe
      BY <2>4, <3>1 DEF RiseDue, Polled, StrobeDue
    <3>3. calm \in {0, 1, 2} /\ calm' \in 1 .. 3
      BY <1>0, <2>2, <3>2
    <3> QED BY <2>1, <3>1, <3>2, <3>3 DEF Polls
  <2>6. ASSUME calm' >= 3 PROVE instrobe' = lines'["OUT0"]
    BY <1>0, <2>1, <2>2, <2>3, <2>6 DEF Polls
  <2>7. ASSUME oe' PROVE ~StrobeDue' /\ usb2kbmode' # 1
    BY <2>1, <2>3, <2>5, <2>7 DEF Polls, Polled, StrobeDue, RiseDue
  <2>8. fresh' = FALSE
    BY <2>1 DEF Polls
  <2> QED BY <2>5, <2>6, <2>7, <2>8 DEF Polled
<1>3. ASSUME Latch \/ Build PROVE Polled'
  <2>1. pc \in {"latch", "build"} /\ UNCHANGED <<fresh, before, lines, instrobe, usb2kbmode, calm, oe>>
    BY <1>3 DEF Latch, Build, nes, scan
  <2> QED BY <2>1 DEF Polled, StrobeDue, RiseDue
<1>4. ASSUME OutputCell \/ OutputBit PROVE Polled'
  <2>1. pc' \notin {"latch", "build"} /\ UNCHANGED <<fresh, before, lines, instrobe, usb2kbmode, calm, oe>>
    BY <1>4 DEF OutputCell, OutputBit, nes, scan
  <2> QED BY <2>1 DEF Polled, StrobeDue, RiseDue
<1>5. ASSUME usb2famikb_putkb PROVE Polled'
  <2>1. pc' = "sample" /\ calm' = Ended(calm) /\ UNCHANGED <<fresh, before, lines, instrobe, usb2kbmode, oe>>
    BY <1>5 DEF usb2famikb_putkb, nes, scan
  <2>2. (calm = 0 => calm' = 0) /\ (calm' >= 3 => calm >= 3)
    BY <1>0, <2>1, EndedSteps DEF Ended
  <2> QED BY <2>1, <2>2 DEF Polled, StrobeDue, RiseDue
<1> QED BY <1>1, <1>2, <1>3, <1>4, <1>5 DEF Loop

(* Every step keeps the polls in order.                                     *)
LEMMA PolledStep == ASSUME Patience >= 3, Typed, Polled, [Next]_vars PROVE Polled'
<1>1. CASE UNCHANGED vars
  BY <1>1 DEF vars, nes, scan, Polled, StrobeDue, RiseDue
<1> QED BY <1>1, PolledNes, PolledLoop DEF Next

-----------------------------------------------------------------------------
(* All bytes belong to one packet, and those to come are whole.             *)
Packet == /\ \A i \in 0 .. 2 : words[i].n = words[0].n
          /\ \A i \in 1 .. 2 : sbmouseindex < i /\ i < sbmouselength => words[i].k = 0
          /\ usb2kbmode # 2 => sbmouseindex = 0 /\ sbmouselength = 0
          /\ sbmouseindex < sbmouselength \/ (sbmouseindex = 0 /\ sbmouselength = 0)
          /\ usb2kbmode = 1 => ~next.valid

(* The first bit of a word to be latched.                                   *)
Anew == [n |-> 1 - words[0].n, byte |-> 0, k |-> 0]

(* The next strobe finds no byte left.                                      *)
LastByte == sbmouselength = 0 \/ sbmouseindex + 1 = sbmouselength

(* What the strobe that is due makes of the word.                           *)
Due(keyboard) ==
    IF usb2kbmode # 2 THEN next.valid /\ next.bit = Anew
    ELSE IF keyboard THEN ~next.valid /\ next.bit.n = words[0].n /\ LastByte
    ELSE /\ next.valid
         /\ next.bit = IF LastByte THEN Anew
                       ELSE [n |-> words[0].n, byte |-> sbmouseindex + 1, k |-> 0]

(* The bit core 1 is at.                                                    *)
InStep ==
    /\ next.bit.n = words[0].n
    /\ usb2kbmode = 2 => (next.valid <=> sbmouselength # 0)
    /\ next.valid =>
         next.bit = [n |-> words[0].n, byte |-> sbmouseindex,
                     k |-> IF oe THEN Shift(words[sbmouseindex].k) ELSE words[sbmouseindex].k]

Latched ==
    usb2kbmode # 1 =>
        /\ RiseDue => Due(lines["OUT2"])
        /\ pc = "latch" => Due(enable)
        /\ pc = "build" => next.valid /\ next.bit = Anew /\ sbmouseindex = 0 /\ sbmouselength = 0
        /\ ~StrobeDue => InStep

(* The bit on its way to the pins, and on them.                             *)
BitBuilt ==
    next.valid /\ ~oe =>
        /\ calm >= 3 /\ pc = "put" => output.bit = next.bit
        /\ calm >= 4 => pins.bit = next.bit

WordInv == Packet /\ Latched /\ BitBuilt

(* The fields of words and bits.                                            *)
LEMMA WordTyped == ASSUME Typed
                   PROVE  /\ words \in [0 .. 2 -> [n : 0 .. 1, k : 0 .. Bits]]
                          /\ sbmouseindex \in 0 .. 2 /\ sbmouselength \in {0, 1, 3}
                          /\ next \in [valid : BOOLEAN, bit : [n : 0 .. 1, byte : 0 .. 2, k : 0 .. Bits]]
                          /\ usb2kbmode \in 0 .. 3
BY PortNumbers DEF Typed, TypeOK, Words, BitsOf

(* A step that leaves word and strobe alone.                                *)
LEMMA WordKept == ASSUME Packet, Latched, pc' = pc \/ {pc, pc'} \cap {"latch", "build"} = {},
                         UNCHANGED <<usb2kbmode, lines, instrobe, enable, oe, words, sbmouseindex, sbmouselength, next>>
                  PROVE  Packet' /\ Latched'
<1>1. Packet'
  BY DEF Packet
<1>2. UNCHANGED <<Anew, LastByte, InStep, RiseDue>>
  BY DEF Anew, LastByte, InStep, RiseDue, Shift
<1>3. ASSUME NEW keyboard PROVE Due(keyboard) => Due(keyboard)'
  BY <1>2 DEF Due
<1>4. (pc = "latch" <=> pc' = "latch") /\ (pc = "build" <=> pc' = "build")
  OBVIOUS
<1>5. Latched'
  BY <1>2, <1>3, <1>4 DEF Latched, StrobeDue
<1> QED BY <1>1, <1>5

(* At the start no strobe has been made.                                    *)
LEMMA WordInit == Init => WordInv
<1> SUFFICES ASSUME Init PROVE WordInv
  OBVIOUS
<1>1. /\ words = [i \in 0 .. 2 |-> NoWord] /\ sbmouseindex = 0 /\ sbmouselength = 0
      /\ next = [valid |-> FALSE, bit |-> NoBit] /\ pc = "sample" /\ lines = [l \in Lines |-> FALSE]
  BY DEF Init
<1>2. ~RiseDue /\ ~next.valid /\ next.bit.n = words[0].n
  BY <1>1 DEF RiseDue, Lines, NoBit, NoWord
<1>3. Packet
  BY <1>1, <1>2 DEF Packet, NoWord
<1>4. Latched
  BY <1>1, <1>2 DEF Latched, InStep
<1>5. BitBuilt
  BY <1>2 DEF BitBuilt
<1> QED BY <1>3, <1>4, <1>5 DEF WordInv

(* A strobe makes a word, a byte or the end of the packet due.              *)
LEMMA WordWrite == ASSUME Patience >= 3, Typed, Polled, WordInv,
                          NEW o \in [Lines -> BOOLEAN], NesWrite(o)
                   PROVE  WordInv'
<1>1. /\ calm' = 0 /\ lines' = o /\ Settled
      /\ UNCHANGED <<usb2kbmode, oe, pc, instrobe, enable, words, sbmouseindex, sbmouselength>>
  BY DEF NesWrite, scan, mouse
<1>2. BitBuilt'
  BY <1>1 DEF BitBuilt
<1>3. ~oe /\ instrobe = lines["OUT0"] /\ pc \notin {"latch", "build"} /\ ~StrobeDue
  BY <1>1, PolledSettled
<1>4. CASE ~(o["OUT0"] /\ ~lines["OUT0"])
  <2>1. next' = next
    BY <1>4 DEF NesWrite
  <2>2. Packet'
    BY <1>1, <2>1 DEF WordInv, Packet
  <2>3. ~RiseDue' /\ ~StrobeDue'
    BY <1>1, <1>3, <1>4 DEF RiseDue, StrobeDue
  <2>4. Latched'
    BY <1>1, <1>3, <2>1, <2>3 DEF WordInv, Latched, InStep, Shift
  <2> QED BY <1>2, <2>2, <2>4 DEF WordInv
<1>5. CASE o["OUT0"] /\ ~lines["OUT0"]
  <2>1. next' = Strobed(o) /\ (usb2kbmode = 2 /\ o["OUT2"] => PacketOver)
    BY <1>5 DEF NesWrite
  <2>2. RiseDue' /\ pc' \notin {"latch", "build"} /\ StrobeDue'
    BY <1>1, <1>3, <1>5 DEF RiseDue, StrobeDue
  <2>3. o["OUT2"] \in BOOLEAN
    BY DEF Lines
  <2>4. CASE usb2kbmode = 1
    <3>1. next' = next
      BY <2>1, <2>4 DEF Strobed
    <3> QED BY <1>1, <1>2, <2>4, <3>1 DEF WordInv, Packet, Latched
  <2>5. CASE usb2kbmode # 1
    <3>1. InStep /\ Packet
      BY <1>3, <2>5 DEF WordInv, Latched
    <3>2. next.bit.n = words[0].n /\ next.valid \in BOOLEAN
      BY <3>1, WordTyped DEF InStep
    <3>3. UNCHANGED <<Anew, LastByte>>
      BY <1>1 DEF Anew, LastByte
    <3>4. Packet'
      BY <1>1, <2>5, <3>1 DEF Packet
    <3>5. Due(o["OUT2"])'
      <4>1. CASE usb2kbmode # 2
        <5>1. next' = [valid |-> TRUE, bit |-> Anew]
          BY <2>1, <2>5, <3>2, <4>1 DEF Strobed, Anew
        <5> QED BY <1>1, <3>3, <4>1, <5>1 DEF Due
      <4>2. CASE usb2kbmode = 2
        <5>1. PacketOver <=> LastByte
          <6>1. CASE next.valid
            <7>1. next.bit.byte = sbmouseindex /\ sbmouselength # 0
              BY <3>1, <4>2, <6>1 DEF InStep
            <7>2. sbmouseindex < sbmouselength
              BY <3>1, <7>1 DEF Packet
            <7> QED BY <6>1, <7>1, <7>2, WordTyped DEF PacketOver, LastByte
          <6>2. CASE ~next.valid
            BY <3>1, <4>2, <6>2 DEF InStep, PacketOver, LastByte
          <6> QED BY <6>1, <6>2
        <5>2. CASE o["OUT2"]
          <6>1. next' = [next EXCEPT !.valid = FALSE]
            BY <2>1, <4>2, <5>2 DEF Strobed
          <6>2. ~next'.valid /\ next'.bit = next.bit
            BY <6>1, WordTyped
          <6> QED BY <1>1, <2>1, <3>2, <3>3, <4>2, <5>1, <5>2, <6>2 DEF Due
        <5>3. CASE ~o["OUT2"] /\ LastByte
          <6>1. next' = [valid |-> TRUE, bit |-> Anew]
            BY <2>1, <3>2, <4>2, <5>1, <5>3 DEF Strobed, Anew
          <6> QED BY <1>1, <3>3, <4>2, <5>3, <6>1 DEF Due
        <5>4. CASE ~o["OUT2"] /\ ~LastByte
          <6>1. next' = [next EXCEPT !.bit.byte = @ + 1, !.bit.k = 0]
            BY <2>1, <4>2, <5>1, <5>4 DEF Strobed
          <6>2. next.valid /\ next.bit.byte = sbmouseindex
            BY <3>1, <5>1, <5>4 DEF InStep, PacketOver
          <6>3. next'.valid /\ next'.bit = [n |-> words[0].n, byte |-> sbmouseindex + 1, k |-> 0]
            BY <3>2, <6>1, <6>2, WordTyped
          <6> QED BY <1>1, <3>3, <4>2, <5>4, <6>3 DEF Due
        <5> QED BY <2>3, <5>2, <5>3, <5>4
      <4> QED BY <4>1, <4>2
    <3>6. Latched'
      BY <1>1, <2>2, <3>5 DEF Latched, Due
    <3> QED BY <1>2, <3>4, <3>6 DEF WordInv
  <2> QED BY <2>4, <2>5
<1> QED BY <1>4, <1>5

(* A read moves the NES on by a bit, and makes the interrupt due.           *)
LEMMA WordRead == ASSUME Patience >= 3, Typed, Polled, WordInv,
                         NEW port \in {1, 2}, NesRead(port)
                  PROVE  WordInv'
<1>1. /\ calm' = 0 /\ Settled
      /\ UNCHANGED <<usb2kbmode, lines, pc, instrobe, enable, words, sbmouseindex, sbmouselength>>
  BY DEF NesRead, scan, mouse, nes
<1>2. BitBuilt'
  BY <1>1 DEF BitBuilt
<1>3. ~oe /\ pc \notin {"latch", "build"} /\ ~StrobeDue
  BY <1>1, PolledSettled
<1>4. CASE UNCHANGED <<oe, next>>
  BY <1>1, <1>2, <1>3, <1>4, WordKept DEF WordInv
<1>5. CASE usb2kbmode # 1 /\ oe' = TRUE /\ next' = [next EXCEPT !.bit.k = Shift(@)]
  <2>1. InStep /\ Packet
    BY <1>3, <1>5 DEF WordInv, Latched
  <2>2. /\ next'.valid = next.valid
        /\ next'.bit = [n |-> next.bit.n, byte |-> next.bit.byte, k |-> Shift(next.bit.k)]
    BY <1>5, WordTyped
  <2>3. Packet'
    BY <1>1, <2>1, <2>2 DEF Packet
  <2>4. next.valid => next.bit = [n |-> words[0].n, byte |-> sbmouseindex, k |-> words[sbmouseindex].k]
    BY <1>3, <2>1 DEF InStep
  <2>5. next'.valid => next'.bit = [n |-> words[0].n, byte |-> sbmouseindex, k |-> Shift(words[sbmouseindex].k)]
    BY <2>2, <2>4
  <2>6. next'.bit.n = words[0].n
    BY <2>1, <2>2 DEF InStep
  <2>7. usb2kbmode = 2 => (next'.valid <=> sbmouselength # 0)
    BY <2>1, <2>2 DEF InStep
  <2>8. InStep'
    BY <1>1, <1>5, <2>5, <2>6, <2>7 DEF InStep, Shift
  <2>9. ~RiseDue'
    BY <1>1, <1>3 DEF StrobeDue, RiseDue
  <2> QED BY <1>1, <1>2, <1>3, <2>3, <2>8, <2>9 DEF WordInv, Latched
<1> QED BY <1>4, <1>5 DEF NesRead

-----------------------------------------------------------------------------

(* The interrupt shifts the byte the NES reads.                             *)
LEMMA WordIRQ == ASSUME Typed, Polled, WordInv, pio_IRQ_handler PROVE WordInv'
<1>1. /\ oe /\ oe' = FALSE /\ calm' = 0
      /\ words' = [words EXCEPT ![IF usb2kbmode = 2 THEN sbmouseindex ELSE 0].k = Shift(@)]
      /\ UNCHANGED <<usb2kbmode, lines, pc, instrobe, enable, sbmouseindex, sbmouselength, next>>
  BY DEF pio_IRQ_handler, scan, mouse, nes
<1>2. BitBuilt'
  BY <1>1 DEF BitBuilt
<1>3. ~StrobeDue /\ usb2kbmode # 1 /\ Packet /\ InStep
  BY <1>1 DEF Polled, WordInv, Latched
<1>4. PICK i \in 0 .. 2 : i = sbmouseindex /\ i = (IF usb2kbmode = 2 THEN sbmouseindex ELSE 0)
  BY <1>3, WordTyped DEF Packet
<1>5. /\ \A j \in 0 .. 2 : words'[j].n = words[j].n /\ (j # i => words'[j].k = words[j].k)
      /\ words'[i].k = Shift(words[i].k)
  BY <1>1, <1>4, WordTyped
<1>6. words'[0].n = words[0].n
  BY <1>5
<1>7. Packet'
  <2>1. \A j \in 0 .. 2 : words'[j].n = words'[0].n
    BY <1>3, <1>5, <1>6 DEF Packet
  <2>2. \A j \in 1 .. 2 : sbmouseindex < j /\ j < sbmouselength => words'[j].k = 0
    BY <1>3, <1>4, <1>5 DEF Packet
  <2> QED BY <1>1, <1>3, <2>1, <2>2 DEF Packet
<1>8. next.valid => next.bit = [n |-> words[0].n, byte |-> i, k |-> Shift(words[i].k)]
  BY <1>1, <1>3, <1>4 DEF InStep
<1>9. InStep'
  BY <1>1, <1>3, <1>4, <1>5, <1>6, <1>8 DEF InStep
<1>10. ~RiseDue' /\ pc' \notin {"latch", "build"}
  BY <1>1, <1>3 DEF StrobeDue, RiseDue
<1> QED BY <1>2, <1>7, <1>9, <1>10 DEF WordInv, Latched

(* A poll takes the strobe over, with the keyboard line it was made with.   *)
LEMMA WordSample == ASSUME Patience >= 3, 2 \notin LagModes, Typed, Polled, WordInv, Sample PROVE WordInv'
<1>1. PICK o : Polls(o)
  BY SamplePolls
<1>2. /\ UNCHANGED <<usb2kbmode, lines, oe, words, sbmouseindex, sbmouselength, pins, next>>
      /\ instrobe' = o["OUT0"] /\ pc = "sample" /\ pc' \in {"latch", "output"}
      /\ calm' = Began(calm, 2 * Patience)
      /\ o["OUT0"] \in {lines["OUT0"], before["OUT0"]}
  BY <1>1 DEF Polls, Lines
<1>3. Packet' /\ UNCHANGED <<Anew, LastByte>> /\ (InStep => InStep')
  BY <1>2 DEF WordInv, Packet, Anew, LastByte, InStep, Shift
<1>4. BitBuilt'
  <2>1. calm' >= 4 => calm >= 3
    BY <1>2, PortNumbers, BeganSteps DEF Typed
  <2>2. calm' >= 4 => calm >= 4
    <3>1. calm \in Nat /\ (calm = 3 => calm' = 3)
      BY <1>2 DEF Began, Typed
    <3> QED BY <2>1, <3>1
  <2> QED BY <1>2, <2>2 DEF WordInv, BitBuilt
<1>5. o["OUT0"] /\ ~instrobe => RiseDue
  BY <1>1, <1>2, Wired DEF Polls, Polled, RiseDue
<1>6. ASSUME usb2kbmode # 1 PROVE Latched'
  <2>1. ASSUME RiseDue' PROVE Due(lines["OUT2"])'
    <3>1. RiseDue
      BY <1>1, <1>2, <2>1, Wired DEF RiseDue, Polls, Polled
    <3>2. Due(lines["OUT2"])
      BY <1>6, <3>1 DEF WordInv, Latched
    <3> QED BY <1>2, <1>3, <3>2 DEF Due
  <2>2. ASSUME pc' = "latch" PROVE Due(enable)'
    <3>1. RiseDue
      BY <1>1, <1>5, <2>2 DEF Polls
    <3>2. Due(lines["OUT2"])
      BY <1>6, <3>1 DEF WordInv, Latched
    <3>3. usb2kbmode = 2 => enable' = lines["OUT2"]
      BY <1>1, Wired DEF Polls
    <3> QED BY <1>2, <1>3, <3>2, <3>3 DEF Due
  <2>3. ASSUME ~StrobeDue' PROVE InStep'
    <3>1. ~RiseDue
      <4>1. ~(o["OUT0"] /\ ~instrobe)
        BY <1>1, <1>2, <1>6, <2>3 DEF Polls, StrobeDue
      <4>2. ~(lines["OUT0"] /\ ~o["OUT0"])
        BY <1>2, <2>3 DEF StrobeDue, RiseDue
      <4> QED BY <4>1, <4>2, Wired DEF RiseDue
    <3>2. InStep
      BY <1>2, <1>6, <3>1 DEF WordInv, Latched, StrobeDue
    <3> QED BY <1>3, <3>2
  <2> QED BY <1>2, <2>1, <2>2, <2>3 DEF Latched
<1>7. Latched'
  BY <1>2, <1>6 DEF Latched
<1> QED BY <1>3, <1>4, <1>7 DEF WordInv

(* The packet moves on by a byte, or is over.                               *)
LEMMA WordLatch == ASSUME Typed, Polled, WordInv, Latch PROVE WordInv'
<1>1. /\ UNCHANGED <<usb2kbmode, lines, instrobe, enable, oe, words, output, pins, calm, next>>
      /\ pc = "latch" /\ pc' \in {"build", "output"}
  BY DEF Latch, scan, nes
<1>2. instrobe /\ usb2kbmode # 1 /\ ~oe /\ ~RiseDue'
  BY <1>1 DEF Polled, StrobeDue, RiseDue
<1>3. Due(enable) /\ Packet /\ BitBuilt
  BY <1>1, <1>2 DEF WordInv, Latched
<1>4. UNCHANGED Anew
  BY <1>1 DEF Anew
<1>5. BitBuilt'
  BY <1>1, <1>3 DEF BitBuilt
<1>6. CASE usb2kbmode # 2
  <2>1. pc' = "build" /\ UNCHANGED <<sbmouseindex, sbmouselength>>
    BY <1>6 DEF Latch, mouse
  <2>2. Packet'
    BY <1>1, <1>3, <2>1 DEF Packet
  <2>3. Latched'
    BY <1>1, <1>2, <1>3, <1>4, <1>6, <2>1 DEF Latched, Due, Packet, StrobeDue
  <2> QED BY <1>5, <2>2, <2>3 DEF WordInv
<1>7. CASE usb2kbmode = 2
  <2> DEFINE i == IF sbmouseindex < sbmouselength THEN sbmouseindex + 1 ELSE sbmouseindex
  <2>1. IF i = sbmouselength
        THEN /\ sbmouseindex' = 0 /\ sbmouselength' = 0
             /\ pc' = IF enable THEN "output" ELSE "build"
        ELSE sbmouseindex' = i /\ sbmouselength' = sbmouselength /\ pc' = "output"
    BY <1>7 DEF Latch
  <2>2. i = sbmouselength <=> LastByte
    BY <1>3, WordTyped DEF LastByte, Packet
  <2>3. CASE LastByte
    <3>1. sbmouseindex' = 0 /\ sbmouselength' = 0 /\ pc' = IF enable THEN "output" ELSE "build"
      BY <2>1, <2>2, <2>3
    <3>2. Packet'
      BY <1>1, <1>3, <1>7, <3>1 DEF Packet
    <3>3. CASE enable
      <4>1. ~next.valid /\ next.bit.n = words[0].n
        BY <1>3, <1>7, <3>3 DEF Due
      <4>2. InStep'
        BY <1>1, <3>1, <4>1 DEF InStep
      <4> QED BY <1>1, <1>2, <1>5, <3>1, <3>2, <3>3, <4>2 DEF WordInv, Latched
    <3>4. CASE ~enable
      <4>1. next.valid /\ next.bit = Anew
        BY <1>3, <1>7, <2>3, <3>4 DEF Due
      <4>2. pc' = "build"
        BY <3>1, <3>4
      <4> QED BY <1>1, <1>2, <1>4, <1>5, <3>1, <3>2, <4>1, <4>2 DEF WordInv, Latched, StrobeDue
    <3> QED BY <3>3, <3>4
  <2>4. CASE ~LastByte
    <3>1. sbmouseindex' = sbmouseindex + 1 /\ sbmouselength' = sbmouselength /\ pc' = "output"
          /\ sbmouseindex + 1 < sbmouselength /\ sbmouseindex + 1 \in 1 .. 2
      BY <1>3, <2>1, <2>2, <2>4, WordTyped DEF LastByte, Packet
    <3>2. Packet'
      <4>1. \A j \in 1 .. 2 : sbmouseindex + 1 < j /\ j < sbmouselength => words[j].k = 0
        BY <1>3, WordTyped DEF Packet
      <4> QED BY <1>1, <1>3, <1>7, <3>1, <4>1 DEF Packet
    <3>3. next.valid /\ next.bit = [n |-> words[0].n, byte |-> sbmouseindex + 1, k |-> 0]
      BY <1>3, <1>7, <2>4 DEF Due
    <3>4. words[sbmouseindex + 1].k = 0
      BY <1>3, <3>1, WordTyped DEF Packet
    <3>5. sbmouselength # 0
      BY <3>1, WordTyped
    <3>6. InStep'
      BY <1>1, <1>2, <3>1, <3>3, <3>4, <3>5 DEF InStep
    <3> QED BY <1>1, <1>2, <1>5, <3>1, <3>2, <3>6 DEF WordInv, Latched
  <2> QED BY <2>3, <2>4
<1> QED BY <1>6, <1>7

(* All bytes of a new packet are whole.                                     *)
LEMMA WordBuild == ASSUME Typed, Polled, WordInv, Build PROVE WordInv'
<1>1. /\ UNCHANGED <<usb2kbmode, lines, instrobe, enable, oe, output, pins, calm, next, sbmouseindex>>
      /\ pc = "build" /\ pc' = "output"
      /\ words' = [i \in 0 .. 2 |-> [n |-> 1 - words[0].n, k |-> 0]]
      /\ IF usb2kbmode = 2 THEN sbmouselength' \in {1, 3} ELSE UNCHANGED sbmouselength
  BY DEF Build, scan, nes
<1>2. instrobe /\ usb2kbmode # 1 /\ ~oe /\ ~RiseDue' /\ calm \in 1 .. 3
  BY <1>1 DEF Polled, StrobeDue, RiseDue
<1>3. next.valid /\ next.bit = Anew /\ sbmouseindex = 0 /\ sbmouselength = 0
  BY <1>1, <1>2 DEF WordInv, Latched
<1>4. BitBuilt'
  BY <1>1, <1>2 DEF BitBuilt
<1>5. \A i \in 0 .. 2 : words'[i].n = 1 - words[0].n /\ words'[i].k = 0
  BY <1>1
<1>6. Packet'
  <2>1. \A i \in 0 .. 2 : words'[i].n = words'[0].n
    BY <1>5
  <2>2. \A i \in 1 .. 2 : words'[i].k = 0
    BY <1>5
  <2>3. usb2kbmode = 2 => 0 < sbmouselength'
    BY <1>1
  <2> QED BY <1>1, <1>2, <1>3, <2>1, <2>2, <2>3 DEF Packet
<1>7. next.bit = [n |-> words'[0].n, byte |-> 0, k |-> words'[0].k]
  BY <1>3, <1>5 DEF Anew
<1>8. next.bit.n = words'[0].n
  BY <1>7
<1>9. InStep'
  BY <1>1, <1>2, <1>3, <1>7, <1>8 DEF InStep
<1>10. Latched'
  BY <1>1, <1>2, <1>9 DEF Latched
<1> QED BY <1>4, <1>6, <1>10 DEF WordInv

(* The bit put on the pins was taken after the last access.                 *)
LEMMA WordOutput == ASSUME Typed, Polled, WordInv, \/ OutputCell \/ OutputBit \/ usb2famikb_putkb
                                                   \/ \E i \in Cells : KeyChange(i)
                    PROVE  WordInv'
<1>1. /\ pc' = pc \/ {pc, pc'} \cap {"latch", "build"} = {}
      /\ UNCHANGED <<usb2kbmode, lines, instrobe, enable, oe, words, sbmouseindex, sbmouselength, next>>
  BY DEF OutputCell, OutputBit, usb2famikb_putkb, KeyChange, scan, mouse, nes
<1>2. Packet' /\ Latched'
  BY <1>1, WordKept DEF WordInv
<1>3. CASE OutputCell \/ \E i \in Cells : KeyChange(i)
  <2>1. UNCHANGED <<calm, pins, pc>> /\ (pc # "put" \/ output' = output)
    BY <1>3 DEF OutputCell, KeyChange
  <2> QED BY <1>1, <1>2, <2>1 DEF WordInv, BitBuilt
<1>4. CASE OutputBit
  <2> DEFINE i == IF usb2kbmode = 2 THEN sbmouseindex ELSE 0
  <2>1. /\ pc = "output" /\ pc' = "put" /\ UNCHANGED <<calm, pins>>
        /\ output'.bit = IF usb2kbmode = 1 THEN NoBit
                         ELSE [n |-> words[i].n, byte |-> i, k |-> words[i].k]
    BY <1>4 DEF OutputBit
  <2>2. ASSUME next.valid, ~oe, calm >= 3 PROVE output'.bit = next.bit
    <3>1. ~StrobeDue /\ usb2kbmode # 1 /\ Packet
      BY <2>1, <2>2 DEF Polled, WordInv, Packet, StrobeDue, RiseDue
    <3>2. i = sbmouseindex /\ i \in 0 .. 2
      BY <3>1, WordTyped DEF Packet
    <3>3. next.bit = [n |-> words[0].n, byte |-> sbmouseindex, k |-> words[sbmouseindex].k]
      BY <2>2, <3>1 DEF WordInv, Latched, InStep
    <3>4. words[i].n = words[0].n
      BY <3>1, <3>2 DEF Packet
    <3> HIDE DEF i
    <3> QED BY <2>1, <3>1, <3>2, <3>3, <3>4
  <2>3. BitBuilt'
    BY <1>1, <2>1, <2>2 DEF WordInv, BitBuilt
  <2> QED BY <1>2, <2>3 DEF WordInv
<1>5. CASE usb2famikb_putkb
  <2>1. pc = "put" /\ pc' = "sample" /\ pins' = output /\ calm' = Ended(calm)
    BY <1>5 DEF usb2famikb_putkb
  <2>2. calm' >= 4 => calm >= 3
    BY <2>1, EndedSteps DEF Typed
  <2>3. BitBuilt'
    BY <1>1, <2>1, <2>2 DEF WordInv, BitBuilt
  <2> QED BY <1>2, <2>3 DEF WordInv
<1> QED BY <1>3, <1>4, <1>5

(* Every step keeps word and bit together.                                  *)
LEMMA WordStep == ASSUME Patience >= 3, 2 \notin LagModes, Typed, Polled, WordInv, [Next]_vars PROVE WordInv'
<1>1. CASE UNCHANGED vars
  <2>1. UNCHANGED <<usb2kbmode, lines, instrobe, enable, oe, words, sbmouseindex, sbmouselength, next,
                    pc, calm, pins, output>>
    BY <1>1 DEF vars, nes, scan, mouse
  <2> QED BY <2>1, WordKept DEF WordInv, BitBuilt
<1> QED BY <1>1, WordWrite, WordRead, WordIRQ, WordSample, WordLatch, WordBuild, WordOutput DEF Next, Loop

(* The i-th read after a strobe finds bit i of the word it latched, wherever *)
(* the interrupt cuts into core 1's loop, whatever lags outside Subor mode.  *)
THEOREM BitTheorem == ASSUME Patience >= 3, 2 \notin LagModes PROVE Spec => []NextBitShown
<1>1. Init => Typed /\ Polled /\ WordInv
  BY TypedInit, PolledInit, WordInit
<1>2. (Typed /\ Polled /\ WordInv) /\ [Next]_vars => (Typed /\ Polled /\ WordInv)'
  BY TypedStep, PolledStep, WordStep
<1>3. Typed /\ Polled /\ WordInv => NextBitShown
  <2> SUFFICES ASSUME Typed, Polled, WordInv, next.valid, Settled PROVE pins.bit = next.bit
    BY DEF NextBitShown
  <2>1. calm >= 6 /\ ~oe
    BY PolledSettled
  <2>2. calm >= 4
    BY <2>1 DEF Typed
  <2> QED BY <2>1, <2>2 DEF WordInv, BitBuilt
<1> QED BY <1>1, <1>2, <1>3, PTL DEF Spec

-----------------------------------------------------------------------------
(* The row the next polls lead to is the one the NES has selected.          *)
RowDue ==
    row = IF RiseDue THEN (IF lines["OUT1"] THEN 1 ELSE 0)
          ELSE IF lines["OUT1"] = toggle THEN select ELSE (select + 1) % Rows

Rowed ==
    usb2kbmode > 0 =>
        /\ RowDue
        /\ fresh => toggle = before["OUT1"]
        /\ calm >= 5 => /\ toggle = lines["OUT1"] /\ select = row
                        /\ enable = lines["OUT2"]

(* What the pins are to show.                                               *)
Shown == IF lines["OUT2"] THEN Row(row) ELSE NoCells

(* What of the row has been put together since the keys rest.               *)
Built ==
    usb2kbmode > 0 /\ calm >= 5 =>
        /\ quiet >= 1 /\ pc = "output" =>
              IF enable THEN \A j \in 1 .. Len(output) : output[j] = Row(row)[j]
              ELSE output \in {<<>>, NoCells}
        /\ quiet >= 1 /\ pc = "put" => output.cells = Shown
        /\ quiet = 2 /\ calm >= 6 => pins.cells = Shown

RowInv == Rowed /\ Built

(* Rows with the same cells are the same.                                   *)
LEMMA SameCells ==
    ASSUME NEW f \in [1 .. RowSize -> BOOLEAN], NEW g \in [1 .. RowSize -> BOOLEAN],
           \A j \in 1 .. RowSize : f[j] = g[j]
    PROVE  f = g
<1>1. ASSUME NEW S, NEW u \in [S -> BOOLEAN], NEW v \in [S -> BOOLEAN], \A j \in S : u[j] = v[j]
      PROVE  u = v
  BY <1>1
<1> QED BY <1>1

(* The row numbers.                                                         *)
LEMMA RowTypes == ASSUME Typed
                  PROVE  /\ select \in 0 .. Rows - 1 /\ row \in 0 .. Rows - 1
                         /\ 1 % Rows = 1 /\ (0 + 1) % Rows = 1
                         /\ usb2kbmode \in Nat /\ calm \in Nat /\ quiet \in Nat
<1>1. /\ select \in 0 .. Rows - 1 /\ row \in 0 .. Rows - 1
      /\ usb2kbmode \in Nat /\ calm \in Nat /\ quiet \in Nat
  BY PortNumbers DEF Typed, TypeOK
<1>2. 1 % Rows = 1
  <2>1. Rows \in Nat /\ Rows > 1
    BY PortNumbers
  <2> QED BY <2>1
<1> QED BY <1>1, <1>2

(* At the start the first row is selected.                                  *)
LEMMA RowInit == Init => RowInv
<1> SUFFICES ASSUME Init PROVE RowInv
  OBVIOUS
<1>1. /\ ~lines["OUT0"] /\ ~lines["OUT1"] /\ toggle = FALSE /\ lines["OUT1"] = FALSE /\ select = 0 /\ row = 0
      /\ ~fresh /\ calm = 0
  BY DEF Init, Lines
<1>2. ~(calm >= 5)
  BY <1>1
<1>3. ~RiseDue
  BY <1>1 DEF RiseDue
<1> QED BY <1>1, <1>2, <1>3 DEF RowInv, Rowed, RowDue, Built

(* A write makes a move of the row due, at most one.                        *)
LEMMA RowWrite == ASSUME Patience >= 3, Typed, Polled, RowInv,
                         NEW o \in [Lines -> BOOLEAN], NesWrite(o)
                  PROVE  RowInv'
<1>1. /\ calm' = 0 /\ lines' = o /\ before' = lines /\ Settled
      /\ UNCHANGED <<usb2kbmode, instrobe, toggle, select>>
      /\ row' = IF o["OUT0"] /\ ~lines["OUT0"] THEN (IF o["OUT1"] THEN 1 ELSE 0)
                ELSE IF o["OUT1"] # lines["OUT1"] THEN (row + 1) % Rows ELSE row
  BY DEF NesWrite, scan
<1>2. ~(calm' >= 5)
  BY <1>1
<1>3. calm >= 5 /\ instrobe = lines["OUT0"]
  <2>1. calm \in Nat
    BY RowTypes
  <2> QED BY <1>1, <2>1, PolledSettled
<1>4. RiseDue' <=> o["OUT0"] /\ ~lines["OUT0"]
  BY <1>1, <1>3 DEF RiseDue
<1>5. ASSUME usb2kbmode > 0 PROVE RowDue' /\ toggle' = before'["OUT1"]
  <2>1. toggle = lines["OUT1"] /\ select = row
    BY <1>3, <1>5 DEF RowInv, Rowed
  <2> QED BY <1>1, <1>4, <2>1 DEF RowDue
<1> QED BY <1>1, <1>2, <1>5 DEF RowInv, Rowed, Built

(* A read, its interrupt, a key: no line moves.                             *)
LEMMA RowAside == ASSUME RowInv, \/ \E port \in {1, 2} : NesRead(port)
                                 \/ \E i \in Cells : KeyChange(i)
                                 \/ pio_IRQ_handler
                  PROVE  RowInv'
<1>1. UNCHANGED <<usb2kbmode, lines, before, fresh, row, instrobe, toggle, select, enable, pins, pc, output>>
      /\ \/ calm' = 0
         \/ calm' = calm /\ quiet' = 0
  <2>1. CASE \E port \in {1, 2} : NesRead(port)
    BY <2>1 DEF NesRead, nes, scan
  <2>2. CASE \E i \in Cells : KeyChange(i)
    BY <2>2 DEF KeyChange, nes, scan
  <2>3. CASE pio_IRQ_handler
    BY <2>3 DEF pio_IRQ_handler, nes, scan
  <2> QED BY <2>1, <2>2, <2>3
<1>2. RowDue' = RowDue
  BY <1>1 DEF RowDue, RiseDue
<1>3. CASE calm' = 0
  <2>1. ~(calm' >= 5)
    BY <1>3
  <2> QED BY <1>1, <1>2, <2>1 DEF RowInv, Rowed, Built
<1>4. CASE calm' = calm /\ quiet' = 0
  <2>1. ~(quiet' >= 1) /\ quiet' # 2
    BY <1>4
  <2> QED BY <1>1, <1>2, <1>4, <2>1 DEF RowInv, Rowed, Built
<1> QED BY <1>1, <1>3, <1>4

(* A poll makes the move that is due, or leaves it to the next.             *)
LEMMA RowSample == ASSUME Patience >= 3, Typed, Polled, RowInv, Sample PROVE RowInv'
<1>1. PICK o : Polls(o)
  BY SamplePolls
<1>2. /\ UNCHANGED <<usb2kbmode, lines, keymatrix, pins, row>> /\ fresh' = FALSE
      /\ instrobe' = o["OUT0"] /\ output' = <<>> /\ pc' # "put"
      /\ calm' = Began(calm, 2 * Patience) /\ quiet' = Began(quiet, 2)
      /\ o["OUT0"] \in {lines["OUT0"], before["OUT0"]}
      /\ o["OUT1"] \in {lines["OUT1"], before["OUT1"]}
      /\ o["OUT0"] \in BOOLEAN /\ o["OUT1"] \in BOOLEAN
      /\ (~fresh => o = lines)
  BY <1>1, Wired DEF Polls, Lines
<1>3. calm \in Nat /\ quiet \in Nat /\ 2 * Patience \in Nat /\ 2 * Patience > 2 /\ usb2kbmode \in Nat
  BY PortNumbers, RowTypes
<1>4. calm' \in {calm, calm + 1} /\ (calm' >= 5 => calm >= 4)
  BY <1>2, <1>3, BeganSteps
<1>5. quiet' \in {quiet, quiet + 1} /\ (quiet' = 2 => quiet = 2)
  BY <1>2, <1>3 DEF Began
<1>6. ASSUME usb2kbmode > 0 PROVE RowDue'
  <2>1. RowDue /\ (fresh => toggle = before["OUT1"] /\ instrobe = before["OUT0"])
    BY <1>6 DEF RowInv, Rowed, Polled
  <2>2. CASE o["OUT0"] /\ ~instrobe
    <3>1. select' = 0 /\ toggle' = FALSE
      BY <1>1, <2>2 DEF Polls
    <3>2. RiseDue /\ ~RiseDue'
      BY <1>2, <2>1, <2>2, Wired DEF RiseDue
    <3>3. row = IF lines["OUT1"] THEN 1 ELSE 0
      BY <2>1, <3>2 DEF RowDue
    <3> QED BY <1>2, <3>1, <3>2, <3>3, RowTypes, Wired DEF RowDue
  <2>3. CASE ~(o["OUT0"] /\ ~instrobe) /\ RiseDue
    <3>1. ~o["OUT0"] /\ RiseDue'
      BY <1>2, <2>3 DEF RiseDue
    <3> QED BY <1>2, <2>1, <2>3, <3>1 DEF RowDue
  <2>4. CASE ~(o["OUT0"] /\ ~instrobe) /\ ~RiseDue
    <3>1. ~RiseDue'
      BY <1>2, <2>1, <2>4, Wired DEF RiseDue
    <3>2. row = IF lines["OUT1"] = toggle THEN select ELSE (select + 1) % Rows
      BY <2>1, <2>4 DEF RowDue
    <3>3. IF o["OUT1"] # toggle THEN select' = (select + 1) % Rows /\ toggle' = o["OUT1"]
          ELSE UNCHANGED <<select, toggle>>
      BY <1>1, <1>6, <2>4 DEF Polls
    <3>4. CASE o["OUT1"] # toggle
      <4>1. o["OUT1"] = lines["OUT1"]
        BY <1>2, <2>1, <3>4
      <4> QED BY <1>2, <3>1, <3>2, <3>3, <3>4, <4>1 DEF RowDue
    <3>5. CASE o["OUT1"] = toggle
      BY <1>2, <3>1, <3>2, <3>3, <3>5 DEF RowDue
    <3> QED BY <3>4, <3>5
  <2> QED BY <2>2, <2>3, <2>4
<1>7. ASSUME usb2kbmode > 0, calm' >= 5
      PROVE  toggle' = lines["OUT1"] /\ select' = row /\ enable' = lines["OUT2"]
  <2>1. calm >= 4
    BY <1>4, <1>7
  <2>2. ~fresh /\ instrobe = lines["OUT0"]
    BY <1>3, <2>1 DEF Polled
  <2>3. o = lines
    BY <1>2, <2>2
  <2>4. enable' = lines["OUT2"]
    BY <1>1, <1>7, <2>3, Wired DEF Polls
  <2>5. ~RiseDue /\ ~(o["OUT0"] /\ ~instrobe)
    BY <2>2, <2>3 DEF RiseDue
  <2>6. row = IF lines["OUT1"] = toggle THEN select ELSE (select + 1) % Rows
    BY <1>7, <2>5 DEF RowInv, Rowed, RowDue
  <2> QED BY <1>1, <1>7, <2>3, <2>4, <2>5, <2>6 DEF Polls
<1>8. Rowed'
  BY <1>2, <1>6, <1>7 DEF Rowed
<1>9. Built'
  <2>1. UNCHANGED Shown
    BY <1>2 DEF Shown, Row
  <2>2. ASSUME calm' >= 6 PROVE calm >= 6
    <3>1. calm = 5 => calm' = 5
      BY <1>2, <1>3 DEF Began
    <3> QED BY <1>3, <1>4, <2>2, <3>1
  <2>3. calm >= 6 => calm >= 5
    BY <1>3
  <2>4. \A j \in 1 .. Len(output') : output'[j] = Row(row)'[j]
    BY <1>2
  <2> QED BY <1>2, <1>5, <2>1, <2>2, <2>3, <2>4 DEF RowInv, Built
<1> QED BY <1>8, <1>9 DEF RowInv

(* The cells come from the row the last poll left selected.                 *)
LEMMA RowLoop == ASSUME Patience >= 3, Typed, Polled, RowInv, Loop, ~Sample PROVE RowInv'
<1>0. calm \in Nat /\ quiet \in Nat /\ usb2kbmode \in 0 .. 3
  BY RowTypes, Wired
<1>1. /\ UNCHANGED <<usb2kbmode, lines, before, fresh, row, instrobe, toggle, select, enable, keymatrix>>
      /\ (UNCHANGED calm \/ usb2famikb_putkb)
  BY DEF Loop, Latch, Build, OutputCell, OutputBit, usb2famikb_putkb, nes, scan
<1>2. UNCHANGED <<RowDue, Shown>>
  BY <1>1 DEF RowDue, RiseDue, Shown, Row
<1>3. Rowed'
  <2>1. calm' >= 5 => calm >= 5
    BY <1>0, <1>1, EndedSteps DEF usb2famikb_putkb
  <2> QED BY <1>1, <1>2, <2>1 DEF RowInv, Rowed
<1>4. CASE Latch \/ Build
  <2>1. UNCHANGED <<pins, quiet, calm, output>> /\ pc \in {"latch", "build"} /\ pc' # "put"
    BY <1>4 DEF Latch, Build
  <2>2. ~(calm' >= 5)
    BY <1>0, <2>1 DEF Polled
  <2> QED BY <1>3, <2>2 DEF RowInv, Built
<1>5. CASE OutputCell
  <2>1. /\ pc = "output" /\ pc' = "output" /\ Len(output) < RowSize
        /\ output' = IF enable THEN Append(output, Row(select)[Len(output) + 1]) ELSE NoCells
        /\ UNCHANGED <<pins, quiet, calm>>
    BY <1>5 DEF OutputCell
  <2>2. ASSUME usb2kbmode > 0, calm >= 5, quiet >= 1
        PROVE  IF enable THEN \A j \in 1 .. Len(output') : output'[j] = Row(row)[j]
               ELSE output' \in {<<>>, NoCells}
    <3>1. CASE enable
      <4>1. select = row /\ \A j \in 1 .. Len(output) : output[j] = Row(row)[j]
        BY <2>1, <2>2, <3>1 DEF RowInv, Rowed, Built
      <4>2. PICK x : x = Row(row)[Len(output) + 1]
        OBVIOUS
      <4>3. output' = Append(output, x) /\ output \in Seq(BOOLEAN) /\ Len(output) \in Nat
        BY <2>1, <3>1, <4>1, <4>2 DEF Typed
      <4>4. /\ Len(output') = Len(output) + 1
            /\ \A j \in 1 .. Len(output) : output'[j] = output[j]
            /\ output'[Len(output) + 1] = x
        BY <4>3
      <4>5. \A j \in 1 .. Len(output') : j \in 1 .. Len(output) \/ j = Len(output) + 1
        BY <4>3, <4>4
      <4> QED BY <3>1, <4>1, <4>2, <4>4, <4>5
    <3>2. CASE ~enable
      BY <2>1, <3>2
    <3> QED BY <3>1, <3>2
  <2>3. UNCHANGED Row(row)
    BY <1>1 DEF Row
  <2>4. Built'
    BY <1>1, <1>2, <2>1, <2>2, <2>3 DEF RowInv, Built
  <2> QED BY <1>3, <2>4 DEF RowInv
<1>6. CASE OutputBit
  <2>1. /\ pc = "output" /\ pc' = "put" /\ UNCHANGED <<pins, quiet, calm>>
        /\ (usb2kbmode = 0 \/ Len(output) = RowSize)
        /\ output'.cells = IF usb2kbmode = 0 THEN NoCells ELSE output
    BY <1>6 DEF OutputBit
  <2>2. ASSUME usb2kbmode > 0, calm >= 5, quiet >= 1 PROVE output'.cells = Shown
    <3>1. output'.cells = output /\ Len(output) = RowSize /\ output \in Seq(BOOLEAN)
      BY <1>0, <2>1, <2>2 DEF Typed
    <3>2. enable = lines["OUT2"]
      BY <2>2 DEF RowInv, Rowed
    <3>3. CASE enable
      <4>1. \A j \in 1 .. RowSize : output[j] = Row(row)[j]
        BY <2>1, <2>2, <3>1, <3>3 DEF RowInv, Built
      <4>2. output \in [1 .. RowSize -> BOOLEAN] /\ Row(row) \in [1 .. RowSize -> BOOLEAN]
        BY <3>1, RowTyped, RowTypes DEF Typed
      <4>3. output = Row(row)
        BY <4>1, <4>2, SameCells
      <4> QED BY <3>1, <3>2, <3>3, <4>3 DEF Shown
    <3>4. CASE ~enable
      <4>1. output \in {<<>>, NoCells}
        BY <2>1, <2>2, <3>4 DEF RowInv, Built
      <4>2. output = NoCells
        BY <3>1, <4>1, PortNumbers
      <4> QED BY <3>1, <3>2, <3>4, <4>2 DEF Shown
    <3> QED BY <3>3, <3>4
  <2>3. Built'
    BY <1>1, <1>2, <2>1, <2>2 DEF RowInv, Built
  <2> QED BY <1>3, <2>3 DEF RowInv
<1>7. CASE usb2famikb_putkb
  <2>1. pc = "put" /\ pc' = "sample" /\ pins' = output /\ calm' = Ended(calm) /\ quiet' = Ended(quiet)
    BY <1>7 DEF usb2famikb_putkb
  <2>2. (calm' >= 6 => calm >= 5) /\ (quiet' = 2 => quiet >= 1)
    BY <1>0, <2>1, EndedSteps
  <2>3. Built'
    BY <1>1, <1>2, <2>1, <2>2 DEF RowInv, Built
  <2> QED BY <1>3, <2>3 DEF RowInv
<1> QED BY <1>4, <1>5, <1>6, <1>7 DEF Loop

(* Every step keeps the row.                                                *)
LEMMA RowStep == ASSUME Patience >= 3, Typed, Polled, RowInv, [Next]_vars PROVE RowInv'
<1>1. CASE UNCHANGED vars
  <2>1. UNCHANGED <<usb2kbmode, lines, before, fresh, row, instrobe, toggle, select, enable, keymatrix,
                    pins, pc, output, calm, quiet>>
    BY <1>1 DEF vars, nes, scan
  <2> QED BY <2>1 DEF RowInv, Rowed, RowDue, RiseDue, Built, Shown, Row
<1> QED BY <1>1, RowWrite, RowAside, RowSample, RowLoop DEF Next, Loop

(* Once the keys rest for an iteration the pins show the half row the NES   *)
(* has counted to, in every mode, whatever lags behind in a sample.         *)
THEOREM RowTheorem == ASSUME Patience >= 3 PROVE Spec => []RowShown
<1>1. Init => Typed /\ Polled /\ RowInv
  BY TypedInit, PolledInit, RowInit
<1>2. (Typed /\ Polled /\ RowInv) /\ [Next]_vars => (Typed /\ Polled /\ RowInv)'
  BY TypedStep, PolledStep, RowStep
<1>3. Typed /\ Polled /\ RowInv => RowShown
  <2> SUFFICES ASSUME Typed, Polled, RowInv, usb2kbmode > 0, Settled, quiet = 2
               PROVE  pins.cells = IF lines["OUT2"] THEN Row(row) ELSE NoCells
    BY DEF RowShown
  <2>1. calm >= 6 /\ calm >= 5
    BY PolledSettled, RowTypes
  <2> QED BY <2>1 DEF RowInv, Built, Shown
<1> QED BY <1>1, <1>2, <1>3, PTL DEF Spec
=============================================================================
