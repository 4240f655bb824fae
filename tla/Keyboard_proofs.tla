-------------------------- MODULE Keyboard_proofs --------------------------
(***************************************************************************)
(* A keyboard's keys on their way to the console, for every size of report,*)
(* buffer and layout.                                                      *)
(*                                                                         *)
(* KbdReport: ShownTheorem (the console sees exactly the keys that are     *)
(* down) and AlternateTheorem (presses and releases alternate), for        *)
(* keyboards used as OrdinaryUse says.                                     *)
(*                                                                         *)
(* KeyBuffer: BoundsTheorem (no index leaves the buffer, however the two   *)
(* cores interleave) and FifoTheorem (with the handlers not overlapping    *)
(* and the last WORD_SIZE slots kept free, it implements KeyFifo).         *)
(***************************************************************************)
EXTENDS KeyBuffer, KbdReport, FiniteSetTheorems, SequenceTheorems, TLAPS

-----------------------------------------------------------------------------
(* The buffer of the host mode.                                            *)

(* The empty buffer of main satisfies the bounds.                          *)
LEMMA InitBounds == Init => BoundsInv
BY SizesAssumption DEF Init, BoundsInv, TypeOK, PutLoaded, LatchLoaded, Slots, KEY_NONE

(* What a NES program takes from a word is a prefix of it.                 *)
LEMMA KeyCountType ==
    ASSUME NEW w \in Seq(Nat)
    PROVE  KeyCount(w) \in 0 .. Len(w)
<1> DEFINE T == {n \in DOMAIN w : \A j \in 1 .. n : w[j] # KEY_NONE}
<1>1. Len(w) \in Nat /\ DOMAIN w = 1 .. Len(w)
  OBVIOUS
<1>2. IsFiniteSet(1 .. Len(w)) /\ Cardinality(1 .. Len(w)) = Len(w)
  <2>1. /\ IsFiniteSet(1 .. Len(w))
        /\ Cardinality(1 .. Len(w)) = IF 1 > Len(w) THEN 0 ELSE Len(w) - 1 + 1
    BY <1>1, FS_Interval
  <2> QED BY <1>1, <2>1
<1>3. T \in SUBSET (1 .. Len(w))
  BY <1>1
<1>4. IsFiniteSet(T) /\ Cardinality(T) <= Len(w)
  BY <1>2, <1>3, FS_Subset
<1>5. Cardinality(T) \in Nat
  BY <1>4, FS_CardinalityType
<1>6. KeyCount(w) = Cardinality(T)
  BY DEF KeyCount
<1> QED BY <1>1, <1>4, <1>5, <1>6

(* The keys a NES program takes are a sequence of scancodes.               *)
LEMMA KeysInType ==
    ASSUME NEW w \in Seq(Nat)
    PROVE  KeysIn(w) \in Seq(Nat)
BY KeyCountType DEF KeysIn

(* An index that stays below MAX_BUFFER fits the byte that holds it.       *)
LEMMA ByteIndex == \A n \in Slots : n % 256 = n
BY SizesAssumption DEF Slots

(* Core 0's steps: it alone raises bufferindex, to one more than a value   *)
(* that was at least as large.                                             *)
LEMMA PutBounds == BoundsInv /\ Core0 => BoundsInv'
<1> SUFFICES ASSUME BoundsInv, Core0 PROVE BoundsInv'
  OBVIOUS
<1> USE SizesAssumption DEF BoundsInv, TypeOK, PutLoaded, LatchLoaded, Slots, core1
<1>1. CASE PutBegin
  BY <1>1, SMTT(30) DEF PutBegin
<1>2. CASE PutShiftLoad
  BY <1>2 DEF PutShiftLoad
<1>3. CASE PutShiftStore
  BY <1>3 DEF PutShiftStore
<1>4. CASE PutReload
  <2>1. r0' \in 0 .. MAX_BUFFER - 1 /\ bufferindex <= r0' /\ r0' <= r0
    <3>1. CASE r0' = r0
      BY <1>4, <3>1 DEF PutReload
    <3>2. CASE r0' = bufferindex
      BY <1>4, <3>2 DEF PutReload
    <3> QED BY <1>4, <3>1, <3>2 DEF PutReload
  <2>2. r0 + 1 < MAX_BUFFER => r0' + 1 < MAX_BUFFER
    <3>1. \A m, n, k \in Int : m <= n /\ n + 1 < k => m + 1 < k
      OBVIOUS
    <3>2. r0' \in Int /\ r0 \in Int /\ MAX_BUFFER \in Int
      BY <2>1
    <3> QED BY <2>1, <3>1, <3>2
  <2> QED BY <1>4, <2>1, <2>2 DEF PutReload
<1>5. CASE PutFull
  BY <1>5 DEF PutFull, PutReturn
<1>6. CASE PutSlot
  BY <1>6 DEF PutSlot
<1>7. CASE PutIncrement
  <2>1. r0 + 1 \in Slots
    BY <1>7 DEF PutIncrement
  <2>2. bufferindex' = r0 + 1
    BY <1>7, <2>1, ByteIndex DEF PutIncrement
  <2> QED BY <1>7, <2>1, <2>2 DEF PutIncrement, PutReturn
<1> QED
  BY <1>1, <1>2, <1>3, <1>4, <1>5, <1>6, <1>7 DEF Core0, PutStep

(* Core 1's steps: it alone lowers bufferindex, by no more than a value it *)
(* loaded of it.                                                           *)
LEMMA LatchBounds == BoundsInv /\ Core1 => BoundsInv'
<1> SUFFICES ASSUME BoundsInv, Core1 PROVE BoundsInv'
  OBVIOUS
<1> USE SizesAssumption DEF BoundsInv, TypeOK, PutLoaded, LatchLoaded, Slots, core0
<1>1. CASE LatchBegin
  <2>1. kbword' \in Seq(Nat) /\ Len(kbword') = 0
    BY <1>1 DEF LatchBegin
  <2> QED BY <1>1, <2>1 DEF LatchBegin
<1>2. CASE LatchWord
  <2>1. keybuffer[Len(kbword)] \in Nat
    BY <1>2 DEF LatchWord
  <2>2. kbword' \in Seq(Nat) /\ Len(kbword') = Len(kbword) + 1
    BY <1>2, <2>1 DEF LatchWord
  <2> QED BY <1>2, <2>2 DEF LatchWord
<1>3. CASE LatchTest
  BY <1>3, SMTT(30) DEF LatchTest
<1>4. CASE LatchCount
  BY <1>4 DEF LatchCount
<1>5. CASE LatchShiftLoad
  BY <1>5 DEF LatchShiftLoad
<1>6. CASE LatchShiftStore
  BY <1>6 DEF LatchShiftStore
<1>7. CASE LatchReload
  BY <1>7 DEF LatchReload
<1>8. CASE LatchEnd
  <2>1. r1 - c \in Slots
    BY <1>8 DEF LatchEnd
  <2>2. bufferindex' = r1 - c
    BY <1>8, <2>1, ByteIndex DEF LatchEnd
  <2>3. got' \in Seq(Nat)
    BY <1>8, KeysInType DEF LatchEnd
  <2> QED BY <1>8, <2>1, <2>2, <2>3 DEF LatchEnd
<1> QED
  BY <1>1, <1>2, <1>3, <1>4, <1>5, <1>6, <1>7, <1>8 DEF Core1, LatchStep

(* A step that changes nothing keeps the bounds.                           *)
LEMMA StutterBounds == BoundsInv /\ UNCHANGED vars => BoundsInv'
BY DEF vars, core0, core1, BoundsInv, TypeOK, PutLoaded, LatchLoaded

(* The bounds are an invariant, under every interleaving and reload.       *)
LEMMA BoundsInvariant == Spec => []BoundsInv
<1>1. BoundsInv /\ [Next]_vars => BoundsInv'
  BY PutBounds, LatchBounds, StutterBounds DEF Next
<1> QED BY InitBounds, <1>1, PTL DEF Spec

(* The variables keep their types: bufferindex never leaves the buffer.    *)
THEOREM TypeTheorem == Spec => []TypeOK
<1>1. BoundsInv => TypeOK
  BY DEF BoundsInv
<1> QED BY BoundsInvariant, <1>1, PTL

(* Every index the two cores are about to use is a slot of keybuffer, the  *)
(* increment stays below MAX_BUFFER and the subtraction does not wrap,     *)
(* for every size and every interleaving of keycode_handler and the strobe *)
(* branch of nes_handler_thread.                                           *)
THEOREM BoundsTheorem == Spec => []IndexInBounds
<1>1. BoundsInv => IndexInBounds
  BY SizesAssumption
     DEF BoundsInv, TypeOK, PutLoaded, LatchLoaded, IndexInBounds, Slots
<1> QED BY BoundsInvariant, <1>1, PTL

-----------------------------------------------------------------------------
(* The condition under which the buffer is a FIFO: the handlers exclude    *)
(* each other and a put starts only with WORD_SIZE slots left to spare.    *)
Uncrowded == ~Overlap /\ PutLimit + WORD_SIZE <= MAX_BUFFER

(* The empty buffer holds nothing but 0x00.                                *)
LEMMA InitFifo == Init => FifoInv
<1> SUFFICES ASSUME Init PROVE FifoInv
  OBVIOUS
<1>1. BoundsInv
  BY InitBounds
<1> QED
  BY <1>1, SizesAssumption
     DEF Init, FifoInv, PutInv, LatchInv, SlotValue, Queued, Slots, KEY_NONE

(* A put adds its key behind the pending ones.                             *)
LEMMA PutFifo == Uncrowded /\ FifoInv /\ Core0 => FifoInv'
<1> SUFFICES ASSUME Uncrowded, FifoInv, Core0 PROVE FifoInv'
  OBVIOUS
<1>0. BoundsInv' /\ BoundsInv /\ TypeOK
  BY PutBounds DEF FifoInv, BoundsInv
<1>a. /\ MAX_BUFFER \in Int /\ WORD_SIZE \in Int /\ 0 < WORD_SIZE
      /\ PutLimit \in Int /\ MaxKeys \in Int /\ PutLimit + WORD_SIZE <= MAX_BUFFER
  BY SizesAssumption DEF Uncrowded
<1>b. /\ bufferindex \in Nat /\ sent \in Seq(Nat) /\ Len(sent) \in Nat
      /\ got \in Seq(Nat) /\ Len(got) \in Nat
  BY <1>0 DEF TypeOK, Slots
<1> USE <1>0, SizesAssumption
    DEF Uncrowded, FifoInv, PutInv, LatchInv, SlotValue, Queued, Slots, TypeOK,
        KEY_NONE, core1
<1>1. CASE PutBegin
  <2>1. pc0 = "idle" /\ pc1 = "idle" /\ pc1' = "idle"
    BY <1>1 DEF PutBegin
  <2>2. bufferindex + 1 # MAX_BUFFER
    <3>1. bufferindex < PutLimit
      BY <1>1 DEF PutBegin
    <3> HIDE <1>0, SizesAssumption DEF Uncrowded, FifoInv, PutInv, LatchInv, Slots, TypeOK
    <3> QED BY <3>1, <1>a, <1>b
  <2>3. pc0' = "reload_slot" /\ r0' = bufferindex /\ bufferindex < PutLimit
    BY <1>1, <2>2 DEF PutBegin
  <2>4. ascii' \in 1 .. MaxKeys
    <3>1. ascii' = Len(sent) + 1 /\ Len(sent) < MaxKeys
      BY <1>1 DEF PutBegin
    <3> HIDE <1>0, SizesAssumption DEF Uncrowded, FifoInv, PutInv, LatchInv, Slots, TypeOK
    <3> QED BY <3>1, <1>a, <1>b
  <2>5. UNCHANGED <<keybuffer, bufferindex, core1, sent, got>>
    BY <1>1 DEF PutBegin
  <2>6. \A j \in Slots : SlotValue(j)' = SlotValue(j)
    BY <2>1, <2>3, <2>5
  <2> QED
    <3>1. PutInv'
      BY <2>1, <2>3, <2>4, <2>5
    <3>2. LatchInv'
      BY <2>1, <2>5
    <3>3. \A j \in Slots : keybuffer'[j] = SlotValue(j)'
      BY <2>5, <2>6
    <3> QED BY <2>5, <3>1, <3>2, <3>3
<1>2. CASE PutShiftLoad
  BY <1>2 DEF PutShiftLoad
<1>3. CASE PutShiftStore
  BY <1>3 DEF PutShiftStore
<1>4. CASE PutReload
  BY <1>4 DEF PutReload
<1>5. CASE PutFull
  BY <1>5 DEF PutFull
<1>6. CASE PutSlot
  BY <1>6 DEF PutSlot
<1>7. CASE PutIncrement
  <2>1. pc0 = "inc" /\ pc1 = "idle" /\ pc0' = "idle" /\ UNCHANGED <<keybuffer, core1, got>>
    BY <1>7 DEF PutIncrement, PutReturn
  <2>2. r0 + 1 \in Slots /\ r0 = bufferindex /\ bufferindex < PutLimit
    <3>1. r0 = bufferindex /\ bufferindex < PutLimit
      BY <2>1
    <3>2. bufferindex + 1 \in Slots
      <4> HIDE <1>0, SizesAssumption DEF Uncrowded, FifoInv, PutInv, LatchInv, TypeOK
      <4> QED BY <3>1, <1>a, <1>b
    <3> QED BY <3>1, <3>2
  <2>3. bufferindex' = bufferindex + 1
    BY <1>7, <2>2, ByteIndex DEF PutIncrement
  <2>4. sent' = Append(sent, ascii) /\ ascii \in 1 .. MaxKeys
    BY <1>7, <2>1 DEF PutIncrement, PutReturn
  <2>5. /\ Len(sent') = Len(sent) + 1
        /\ sent'[Len(sent) + 1] = ascii
        /\ \A k \in 1 .. Len(sent) : sent'[k] = sent[k]
    BY <2>4
  <2>a. Len(got) + bufferindex = Len(sent) /\ (\A k \in DOMAIN sent : sent[k] \in 1 .. MaxKeys)
    OBVIOUS
  <2>6. Len(got') + bufferindex' = Len(sent') /\ bufferindex' + WORD_SIZE <= MAX_BUFFER
    <3> HIDE <1>0, SizesAssumption DEF Uncrowded, FifoInv, PutInv, LatchInv, Slots, TypeOK
    <3> QED BY <2>1, <2>2, <2>3, <2>5, <2>a, <1>a, <1>b
  <2>7. \A k \in DOMAIN sent' : sent'[k] \in 1 .. MaxKeys
    <3> HIDE <1>0, SizesAssumption DEF Uncrowded, FifoInv, PutInv, LatchInv, Slots, TypeOK
    <3> QED BY <2>4, <2>5, <2>a, <1>b
  <2>8. PutInv' /\ LatchInv'
    BY <2>1
  <2>9. ASSUME NEW j \in Slots PROVE keybuffer'[j] = SlotValue(j)'
    <3>1. SlotValue(j)' = IF j < bufferindex + 1 THEN sent'[Len(got) + 1 + j] ELSE KEY_NONE
      BY <2>1, <2>3
    <3>2. keybuffer[j] = IF j = bufferindex THEN ascii ELSE Queued(j)
      BY <2>1
    <3>a. j \in Nat
      OBVIOUS
    <3> HIDE <1>0, SizesAssumption DEF Uncrowded, FifoInv, PutInv, LatchInv, Slots, TypeOK, SlotValue
    <3>3. CASE j < bufferindex
      BY <2>1, <2>5, <2>a, <3>1, <3>2, <3>3, <3>a, <1>b
    <3>4. CASE j = bufferindex
      BY <2>1, <2>5, <2>a, <3>1, <3>2, <3>4, <3>a, <1>b
    <3>5. CASE j > bufferindex
      BY <2>1, <2>5, <2>a, <3>1, <3>2, <3>5, <3>a, <1>b
    <3> QED BY <3>3, <3>4, <3>5, <3>a, <1>b
  <2> QED BY <2>6, <2>7, <2>8, <2>9
<1> QED
  BY <1>1, <1>2, <1>3, <1>4, <1>5, <1>6, <1>7 DEF Core0, PutStep

(* Inside the latch no put is going on.                                    *)
LEMMA LatchAlone ==
    ASSUME Uncrowded, FifoInv, Core1
    PROVE  pc0 = "idle" /\ pc0' = "idle"
BY DEF Uncrowded, FifoInv, PutInv, Core1, LatchStep, core0, LatchBegin, LatchWord,
       LatchTest, LatchCount, LatchShiftLoad, LatchShiftStore, LatchReload, LatchEnd

(* Before it ends, the latch leaves sent, got and bufferindex alone; it    *)
(* copies the first keys into the word and then moves the slots down.      *)
LEMMA LatchFifo == Uncrowded /\ FifoInv /\ Core1 /\ ~LatchEnd => FifoInv'
<1> SUFFICES ASSUME Uncrowded, FifoInv, Core1, ~LatchEnd PROVE FifoInv'
  OBVIOUS
<1>0. BoundsInv' /\ BoundsInv /\ TypeOK /\ TypeOK'
  BY LatchBounds DEF FifoInv, BoundsInv
<1>a. pc0 = "idle" /\ pc0' = "idle"
  BY LatchAlone
<1>b. /\ bufferindex \in Nat /\ MAX_BUFFER \in Nat /\ WORD_SIZE \in Nat /\ 0 < WORD_SIZE
      /\ c \in Nat /\ i1 \in Nat /\ bufferindex + WORD_SIZE <= MAX_BUFFER
  BY <1>0, SizesAssumption DEF TypeOK, Slots, FifoInv
<1> USE DEF FifoInv, LatchInv, PutInv, SlotValue, Queued, Slots, core0
<1>1. CASE LatchBegin
  BY <1>0, <1>a, <1>1 DEF LatchBegin
<1>2. CASE LatchWord
  <2>1. /\ pc1 = "word" /\ pc1' \in {"word", "test"}
        /\ UNCHANGED <<keybuffer, bufferindex, core0, sent, got, r1, c, i1, t1>>
    BY <1>2 DEF LatchWord
  <2>2. kbword' = Append(kbword, keybuffer[Len(kbword)])
    BY <1>2 DEF LatchWord
  <2>3. Len(kbword) \in Slots /\ Len(kbword) < WORD_SIZE /\ kbword \in Seq(Nat)
    <3>1. Len(kbword) < WORD_SIZE /\ kbword \in Seq(Nat) /\ Len(kbword) \in Nat
      BY <1>0, <2>1 DEF BoundsInv, LatchLoaded, TypeOK
    <3> QED BY <1>b, <3>1
  <2>4. keybuffer[Len(kbword)] = Queued(Len(kbword))
    BY <1>a, <2>1, <2>3
  <2>5. ASSUME NEW k \in DOMAIN kbword' PROVE kbword'[k] = Queued(k - 1)
    <3>1. CASE k \in DOMAIN kbword
      BY <2>2, <2>3, <3>1 DEF TypeOK
    <3>2. CASE k = Len(kbword) + 1
      BY <2>2, <2>3, <2>4, <3>2
    <3> QED BY <2>2, <2>3, <3>1, <3>2
  <2>6. pc1' = "test" => Len(kbword') = WORD_SIZE
    BY <1>2, <1>b, <2>2, <2>3 DEF LatchWord
  <2>7. LatchInv'
    BY <2>1, <2>5, <2>6
  <2> QED BY <1>0, <1>a, <2>1, <2>7
<1>3. CASE LatchTest
  BY <1>0, <1>a, <1>b, <1>3 DEF LatchTest, Taken
<1>4. CASE LatchCount
  BY <1>0, <1>a, <1>b, <1>4 DEF LatchCount, Taken
<1>5. CASE LatchShiftLoad
  BY <1>0, <1>a, <1>b, <1>5, SMTT(30) DEF LatchShiftLoad, Taken, BoundsInv, LatchLoaded
<1>6. CASE LatchShiftStore
  <2>1. /\ pc1 = "shifted" /\ i1' = i1 + 1
        /\ keybuffer' = [keybuffer EXCEPT ![i1 - c] = t1]
        /\ pc1' = IF i1 + 1 < MAX_BUFFER THEN "shift" ELSE "reload"
        /\ UNCHANGED <<bufferindex, core0, kbword, r1, c, t1, sent, got>>
    BY <1>6 DEF LatchShiftStore
  <2>2. c <= i1 /\ i1 < MAX_BUFFER /\ t1 = Queued(i1)
    BY <1>0, <2>1 DEF BoundsInv, LatchLoaded
  <2>3. ASSUME NEW j \in Slots PROVE keybuffer'[j] = SlotValue(j)'
    <3>1. j \in Nat /\ j < MAX_BUFFER /\ keybuffer \in [Slots -> Nat]
      <4>1. keybuffer \in [Slots -> Nat]
        BY <1>0 DEF TypeOK
      <4>2. j \in Nat /\ j < MAX_BUFFER
        BY <1>b
      <4> QED BY <4>1, <4>2
    <3>2. SlotValue(j)' = IF j + c < i1 + 1 THEN Queued(j + c) ELSE Queued(j)
      <4>1. CASE i1 + 1 < MAX_BUFFER
        BY <1>a, <2>1, <4>1
      <4>2. CASE ~(i1 + 1 < MAX_BUFFER)
        <5>1. i1 + 1 = MAX_BUFFER
          BY <1>b, <2>2, <4>2
        <5> QED BY <1>a, <2>1, <4>2, <5>1
      <4> QED BY <4>1, <4>2
    <3>3. keybuffer[j] = IF j + c < i1 THEN Queued(j + c) ELSE Queued(j)
      BY <1>a, <2>1
    <3> HIDE DEF FifoInv, LatchInv, PutInv, SlotValue, Queued
    <3>4. CASE j = i1 - c
      <4>1. j + c = i1 /\ i1 < i1 + 1
        BY <1>b, <3>1, <3>4
      <4>2. keybuffer'[j] = t1
        BY <2>1, <3>1, <3>4
      <4> QED BY <2>2, <3>2, <4>1, <4>2
    <3>5. CASE j # i1 - c
      <4>1. keybuffer'[j] = keybuffer[j]
        BY <2>1, <3>1, <3>5
      <4>2. j + c < i1 + 1 <=> j + c < i1
        BY <1>b, <3>1, <3>5
      <4> QED BY <3>2, <3>3, <4>1, <4>2
    <3> QED BY <3>4, <3>5
  <2>4. LatchInv' /\ PutInv'
    BY <1>a, <2>1 DEF Taken
  <2> QED BY <1>0, <1>b, <2>1, <2>3, <2>4
<1>7. CASE LatchReload
  BY <1>0, <1>a, <1>b, <1>7 DEF LatchReload, Taken
<1> QED
  BY <1>1, <1>2, <1>3, <1>4, <1>5, <1>6, <1>7 DEF Core1, LatchStep

(* The word at the end of the latch holds the oldest pending keys, as many *)
(* as Taken, and then zeros.                                               *)
LEMMA WordKeys ==
    ASSUME FifoInv, pc1 = "sub"
    PROVE  /\ c \in Nat /\ c <= Len(kbword) /\ kbword \in Seq(Nat)
           /\ Len(got) + c <= Len(sent)
           /\ KeyCount(kbword) = c
           /\ \A k \in 1 .. c : kbword[k] = sent[Len(got) + k]
<1>1. /\ bufferindex \in Nat /\ MAX_BUFFER \in Nat /\ WORD_SIZE \in Nat /\ 0 < WORD_SIZE
      /\ c \in Nat /\ kbword \in Seq(Nat) /\ Len(got) \in Nat /\ Len(sent) \in Nat
      /\ DOMAIN sent = 1 .. Len(sent) /\ MaxKeys \in Nat
  BY SizesAssumption DEF FifoInv, BoundsInv, TypeOK, Slots
<1>2. c = Taken /\ Len(kbword) = WORD_SIZE /\ DOMAIN kbword = 1 .. WORD_SIZE
  BY <1>1 DEF FifoInv, LatchInv
<1>3. c <= bufferindex /\ c <= WORD_SIZE /\ (c < WORD_SIZE => c = bufferindex)
  BY <1>1, <1>2 DEF Taken
<1>4. /\ Len(got) + bufferindex = Len(sent)
      /\ \A k \in 1 .. Len(sent) : sent[k] # KEY_NONE
  BY <1>1 DEF FifoInv, KEY_NONE
<1>5. \A k \in 1 .. WORD_SIZE : kbword[k] = Queued(k - 1)
  BY <1>2 DEF FifoInv, LatchInv
<1>6. ASSUME NEW k \in 1 .. c
      PROVE  kbword[k] = sent[Len(got) + k] /\ kbword[k] # KEY_NONE
  <2>1. k \in 1 .. WORD_SIZE /\ k - 1 < bufferindex /\ Len(got) + k \in 1 .. Len(sent)
    BY <1>1, <1>3, <1>4
  <2>2. Len(got) + 1 + (k - 1) = Len(got) + k
    BY <1>1
  <2> QED BY <1>4, <1>5, <2>1, <2>2 DEF Queued
<1>7. ASSUME c < WORD_SIZE PROVE kbword[c + 1] = KEY_NONE
  <2>1. c + 1 \in 1 .. WORD_SIZE /\ ~((c + 1) - 1 < bufferindex)
    BY <1>1, <1>3, <1>7
  <2> QED BY <1>5, <2>1 DEF Queued
<1>8. {n \in DOMAIN kbword : \A j \in 1 .. n : kbword[j] # KEY_NONE} = 1 .. c
  <2>1. ASSUME NEW n \in 1 .. WORD_SIZE, n > c
        PROVE  \E j \in 1 .. n : kbword[j] = KEY_NONE
    <3>1. c < WORD_SIZE /\ c + 1 \in 1 .. n
      BY <1>1, <2>1
    <3> QED BY <1>7, <3>1
  <2>2. ASSUME NEW n \in 1 .. c
        PROVE  n \in 1 .. WORD_SIZE /\ \A j \in 1 .. n : kbword[j] # KEY_NONE
    BY <1>1, <1>3, <1>6
  <2>3. \A n \in 1 .. WORD_SIZE : n \in 1 .. c \/ n > c
    BY <1>1
  <2> QED BY <1>2, <2>1, <2>2, <2>3
<1>9. Cardinality(1 .. c) = c
  <2>1. Cardinality(1 .. c) = IF 1 > c THEN 0 ELSE c - 1 + 1
    BY <1>1, FS_Interval
  <2> QED BY <1>1, <2>1
<1> QED
  <2>1. KeyCount(kbword) = c
    BY <1>8, <1>9 DEF KeyCount
  <2>2. Len(got) + c <= Len(sent) /\ c <= Len(kbword)
    BY <1>1, <1>2, <1>3, <1>4
  <2> QED BY <1>1, <1>6, <2>1, <2>2

(* The NES is given the oldest pending keys, and the buffer keeps the rest.*)
LEMMA LatchEndFifo ==
    ASSUME Uncrowded, FifoInv, LatchEnd
    PROVE  /\ FifoInv'
           /\ got' = got \o SubSeq(sent, Len(got) + 1, Len(got) + Taken)
<1>0. BoundsInv' /\ BoundsInv /\ TypeOK
  BY LatchBounds DEF FifoInv, BoundsInv, Core1, LatchStep
<1>a. pc0 = "idle" /\ pc0' = "idle"
  BY LatchAlone DEF Core1, LatchStep
<1>b. /\ bufferindex \in Nat /\ MAX_BUFFER \in Nat /\ WORD_SIZE \in Nat /\ 0 < WORD_SIZE
      /\ c \in Nat /\ bufferindex + WORD_SIZE <= MAX_BUFFER
      /\ got \in Seq(Nat) /\ sent \in Seq(Nat) /\ Len(got) \in Nat /\ Len(sent) \in Nat
  BY <1>0, SizesAssumption DEF TypeOK, Slots, FifoInv
<1>1. /\ pc1 = "sub" /\ pc1' = "idle" /\ kbword' = <<>>
      /\ got' = got \o KeysIn(kbword)
      /\ UNCHANGED <<keybuffer, core0, sent>>
  BY DEF LatchEnd
<1>2. c = Taken /\ r1 = bufferindex
  BY <1>1 DEF FifoInv, LatchInv
<1>3. c <= bufferindex /\ c <= WORD_SIZE /\ (c < WORD_SIZE => c = bufferindex)
  BY <1>b, <1>2 DEF Taken
<1>4. bufferindex' = bufferindex - c
  <2>1. r1 - c \in Slots
    <3>1. bufferindex < MAX_BUFFER
      BY <1>b
    <3> QED BY <1>b, <1>2, <1>3, <3>1 DEF Slots
  <2> QED BY <1>2, <2>1, ByteIndex DEF LatchEnd
<1>5. /\ KeysIn(kbword) = SubSeq(sent, Len(got) + 1, Len(got) + c)
      /\ KeysIn(kbword) \in Seq(Nat) /\ Len(KeysIn(kbword)) = c
  <2> DEFINE s == SubSeq(kbword, 1, c)
             t == SubSeq(sent, Len(got) + 1, Len(got) + c)
  <2>1. KeysIn(kbword) = s
    BY <1>1, WordKeys DEF KeysIn
  <2>2. s \in Seq(Nat) /\ Len(s) = c /\ \A i \in 1 .. c : s[i] = kbword[i]
    BY <1>1, WordKeys
  <2>3. t \in Seq(Nat) /\ Len(t) = c /\ \A i \in 1 .. c : t[i] = sent[Len(got) + i]
    <3> DEFINE a == Len(got) + 1
               b == Len(got) + c
    <3>1. a \in Int /\ b \in Int /\ \A i \in a .. b : sent[i] \in Nat
      <4> HIDE DEF s, t
      <4>1. Len(got) + c <= Len(sent)
        BY <1>1, WordKeys
      <4>2. \A i \in 1 .. Len(sent) : sent[i] \in Nat
        BY <1>b
      <4> QED BY <1>b, <4>1, <4>2
    <3>2. /\ t \in Seq(Nat)
          /\ Len(t) = IF a <= b THEN b - a + 1 ELSE 0
          /\ \A i \in 1 .. b - a + 1 : t[i] = sent[a + i - 1]
      <4>1. t = SubSeq(sent, a, b)
        OBVIOUS
      <4> HIDE DEF a, b, t
      <4> QED BY ONLY <3>1, <4>1, SubSeqProperties
    <3>3. Len(got) + c - (Len(got) + 1) + 1 = c
      BY <1>b
    <3>4. Len(t) = c
      BY <1>b, <3>2, <3>3
    <3>5. \A i \in 1 .. c : Len(got) + 1 + i - 1 = Len(got) + i
      <4> HIDE DEF s, t
      <4> QED BY <1>b
    <3> QED BY <3>2, <3>3, <3>4, <3>5, SMTT(30)
  <2>4. \A i \in 1 .. c : s[i] = t[i]
    <3>1. \A i \in 1 .. c : kbword[i] = sent[Len(got) + i]
      BY <1>1, WordKeys
    <3> HIDE DEF s, t
    <3> QED BY <2>2, <2>3, <3>1
  <2>5. s = t
    <3> HIDE DEF s, t
    <3> QED BY <2>2, <2>3, <2>4, SeqEqual
  <2> QED BY <2>1, <2>2, <2>5
<1>6. Len(got') = Len(got) + c
  BY <1>1, <1>5, <1>b
<1>7. Len(got') + bufferindex' = Len(sent') /\ bufferindex' + WORD_SIZE <= MAX_BUFFER
  <2>1. Len(got) + bufferindex = Len(sent) /\ sent' = sent
    BY <1>1 DEF FifoInv
  <2> QED BY <1>b, <1>3, <1>4, <1>6, <2>1, SMTT(30)
<1>8. ASSUME NEW j \in Slots PROVE keybuffer'[j] = SlotValue(j)'
  <2>1. keybuffer[j] = IF j + c < MAX_BUFFER THEN Queued(j + c) ELSE Queued(j)
    BY <1>a, <1>1 DEF FifoInv, SlotValue
  <2>2. SlotValue(j)' = IF j < bufferindex - c THEN sent[Len(got) + c + 1 + j] ELSE KEY_NONE
    BY <1>a, <1>1, <1>4, <1>6 DEF SlotValue, Queued, KEY_NONE
  <2>3. j \in Nat /\ j < MAX_BUFFER
    BY <1>b DEF Slots
  <2>4. CASE j < bufferindex - c
    <3>1. j + c < MAX_BUFFER /\ j + c < bufferindex /\ Len(got) + 1 + (j + c) = Len(got) + c + 1 + j
      BY <1>b, <1>3, <2>3, <2>4
    <3> QED BY <1>1, <2>1, <2>2, <2>4, <3>1 DEF Queued
  <2>5. CASE ~(j < bufferindex - c)
    <3>1. ~(j + c < bufferindex) /\ (~(j + c < MAX_BUFFER) => ~(j < bufferindex))
      BY <1>b, <1>3, <2>3, <2>5
    <3> QED BY <1>1, <2>1, <2>2, <2>5, <3>1 DEF Queued
  <2> QED BY <2>4, <2>5
<1>9. PutInv' /\ LatchInv'
  BY <1>a, <1>1 DEF PutInv, LatchInv
<1> QED
  BY <1>0, <1>1, <1>2, <1>5, <1>7, <1>8, <1>9 DEF FifoInv

(* With the handlers not overlapping and WORD_SIZE slots to spare, between *)
(* handlers the buffer holds exactly the pending keys, in order, and 0x00  *)
(* after them; inside a handler, what SlotValue says.                      *)
THEOREM FifoInvariant == Uncrowded => (Spec => []FifoInv)
<1>1. Uncrowded /\ FifoInv /\ [Next]_vars => FifoInv'
  <2> SUFFICES ASSUME Uncrowded, FifoInv, [Next]_vars PROVE FifoInv'
    OBVIOUS
  <2>1. CASE Core0
    BY <2>1, PutFifo
  <2>2. CASE Core1
    BY <2>2, LatchFifo, LatchEndFifo
  <2>3. CASE UNCHANGED vars
    BY <2>3, StutterBounds
       DEF vars, core0, core1, FifoInv, PutInv, LatchInv, SlotValue, Queued, Taken
  <2> QED BY <2>1, <2>2, <2>3 DEF Next
<1>2. Uncrowded \in BOOLEAN
  BY DEF Uncrowded
<1> QED
  <2> SUFFICES ASSUME Uncrowded PROVE Spec => []FifoInv
    OBVIOUS
  <2>1. FifoInv /\ [Next]_vars => FifoInv'
    BY <1>1
  <2> QED BY InitFifo, <2>1, PTL DEF Spec

(* With the handlers not overlapping and WORD_SIZE slots to spare, the     *)
(* buffer keycode_handler and the strobe branch share behaves as KeyFifo:  *)
(* every key once, in order, WORD_SIZE of them per strobe.                 *)
THEOREM FifoTheorem == Uncrowded => (Spec => ImplementsFifo)
<1> SUFFICES ASSUME Uncrowded PROVE Spec => Fifo!Spec
  BY DEF ImplementsFifo
<1>1. Init => Fifo!Init
  BY DEF Init, Fifo!Init
<1>2. FifoInv /\ [Next]_vars => [Fifo!Next]_(Fifo!vars)
  <2> SUFFICES ASSUME FifoInv, Next PROVE Fifo!Next \/ UNCHANGED Fifo!vars
    BY DEF vars, Fifo!vars
  <2>1. CASE PutFull \/ PutIncrement
    <3>1. ascii \in 1 .. MaxKeys /\ sent' = Append(sent, ascii) /\ got' = got
      BY <2>1 DEF FifoInv, PutInv, PutFull, PutIncrement, PutReturn
    <3> QED BY <3>1 DEF Fifo!Next, Fifo!Put
  <2>2. CASE LatchEnd
    <3>1. /\ got' = got \o SubSeq(sent, Len(got) + 1, Len(got) + Taken)
          /\ sent' = sent
      BY <2>2, LatchEndFifo DEF LatchEnd
    <3>2. bufferindex = Fifo!Pending
      BY SizesAssumption DEF FifoInv, BoundsInv, TypeOK, Slots, Fifo!Pending
    <3>3. Taken = IF Fifo!Pending < WORD_SIZE THEN Fifo!Pending ELSE WORD_SIZE
      BY <3>2 DEF Taken
    <3> QED BY <3>1, <3>3 DEF Fifo!Next, Fifo!Latch
  <2>3. CASE ~(PutFull \/ PutIncrement \/ LatchEnd)
    BY <2>3 DEF Next, Core0, PutStep, Core1, LatchStep, Fifo!vars,
       PutBegin, PutShiftLoad, PutShiftStore, PutReload, PutSlot,
       LatchBegin, LatchWord, LatchTest, LatchCount, LatchShiftLoad,
       LatchShiftStore, LatchReload
  <2> QED BY <2>1, <2>2, <2>3
<1>3. Spec => []FifoInv
  BY FifoInvariant
<1> QED BY <1>1, <1>2, <1>3, PTL DEF Spec, Fifo!Spec

-----------------------------------------------------------------------------
(* The reports.                                                            *)

(* One keyboard has keys down at a time, lists them as they were pressed,  *)
(* reports every release, and has no more of them down than a report holds.*)
(* Its usages leave the release bit free and are no modifier's scancode.   *)
OrdinaryUse ==
    /\ ~ScanOrder /\ OneAtATime /\ MaxReleases <= 1 /\ MaxHeld <= ReportSlots
    /\ Usages \subseteq 4 .. 127 /\ \A b \in DOMAIN modkeys : modkeys[b] \notin Usages

(* What a report may hold.                                                 *)
Reports == [keycode : [KeySlots -> Usages \cup {0}], modifier : SUBSET DOMAIN modkeys]

(* The keys a report names, as scancodes.                                  *)
Named(r) == ({r.keycode[i] : i \in KeySlots} \ {0}) \cup {modkeys[b] : b \in r.modifier}

(* The types of the state.                                                 *)
KbdTyped ==
    /\ usb2kbmode \in 0 .. 3
    /\ keys \in [Keyboards -> Seq(Usages)] /\ mods \in [Keyboards -> SUBSET DOMAIN modkeys]
    /\ released \in [Keyboards -> SUBSET Usages] /\ missed \in [Keyboards -> SUBSET Usages]
    /\ last \in [Keyboards -> Reports] /\ prev_report \in Reports
    /\ keymatrix \in [DOMAIN Layout -> BOOLEAN] /\ neskeys \subseteq 1 .. 127

(* The keys held are few enough, and each is held once; what is missed is  *)
(* still reported.                                                         *)
Holding(k) ==
    /\ Len(keys[k]) <= ReportSlots
    /\ \A i, j \in 1 .. Len(keys[k]) : keys[k][i] = keys[k][j] => i = j
    /\ missed[k] \subseteq ToSet(last[k].keycode)

(* The first n slots of a report have keys, no two the same.               *)
Filled(f, n) == /\ n \in 0 .. ReportSlots
                /\ \A i \in KeySlots : f[i] # 0 <=> i <= n
                /\ \A i, j \in 1 .. n : f[i] = f[j] => i = j

(* What is held now begins with the keys of the last report, but for one   *)
(* that was released; that one may be down again, as one of the keys after *)
(* them.                                                                   *)
Kept(s, f, n) == n <= Len(s) /\ \A i \in 1 .. n : s[i] = f[i]
Gone(s, f, n, j) == /\ n - 1 <= Len(s)
                    /\ \A i \in 1 .. j - 1 : s[i] = f[i]
                    /\ \A i \in j .. n - 1 : s[i] = f[i + 1]

FollowsOn(s, f, gone) ==
    \E n \in 0 .. ReportSlots :
        /\ Filled(f, n)
        /\ \/ Kept(s, f, n)
           \/ \E j \in 1 .. n : gone = {f[j]} /\ Gone(s, f, n, j)

Follows(k) == FollowsOn(keys[k], last[k].keycode, released[k])

(* The other keyboards have nothing down and nothing to report.            *)
OneInUse == \A k, l \in Keyboards : k # l => Untouched(k) \/ Untouched(l)

(* prev_report is the last report of whichever keyboard has keys down.     *)
Compared == /\ \A k \in Keyboards : last[k] # NoReport => prev_report = last[k]
            /\ (\A k \in Keyboards : last[k] = NoReport) => prev_report = NoReport

(* The inductive invariant: find_releases_in_report looks for one release  *)
(* only, and all keyboards share prev_report, but here that suffices.      *)
KbdInv == /\ KbdTyped /\ \A k \in Keyboards : Holding(k) /\ Follows(k)
          /\ OneInUse /\ Compared /\ ShownKeysAreReported

-----------------------------------------------------------------------------
(* The constants, as the proofs use them.                                  *)
LEMMA KbdNumbers ==
    ASSUME OrdinaryUse
    PROVE  /\ ReportSlots \in Nat /\ ReportSlots > 0 /\ Len(modkeys) \in Nat
           /\ DOMAIN modkeys = 1 .. Len(modkeys)
           /\ \A b \in DOMAIN modkeys : modkeys[b] \in 1 .. 127 /\ modkeys[b] \notin Usages
           /\ \A b, d \in DOMAIN modkeys : modkeys[b] = modkeys[d] => b = d
           /\ \A u \in Usages : u \in 4 .. 127
<1>1. modkeys \in Seq(1 .. 127) /\ ReportSlots \in Nat \ {0}
  BY KeyboardAssumption
<1>2. Len(modkeys) \in Nat /\ modkeys \in [1 .. Len(modkeys) -> 1 .. 127]
  BY <1>1, LenProperties
<1>3. \A b, d \in DOMAIN modkeys : modkeys[b] = modkeys[d] => b = d
  BY KeyboardAssumption
<1> QED BY <1>1, <1>2, <1>3 DEF OrdinaryUse

(* Each call of a report's handling and its scancode.                      *)
LEMMA CallCodes ==
    ASSUME OrdinaryUse, NEW p \in Reports, NEW r \in Reports
    PROVE  /\ \A n \in DOMAIN Scancodes(p, r) :
                 \/ n \in ReleaseSlots(p, r)
                 \/ \E b \in ModifierBits(p, r) : n = ModifierCall(b)
                 \/ \E i \in PressSlots(p, r) : n = PressCall(i)
           /\ \A i \in ReleaseSlots(p, r) :
                 /\ i \in DOMAIN Scancodes(p, r)
                 /\ Scancodes(p, r)[i] = p.keycode[i] + 128
           /\ \A b \in ModifierBits(p, r) :
                 /\ ModifierCall(b) \in DOMAIN Scancodes(p, r)
                 /\ Scancodes(p, r)[ModifierCall(b)] =
                       modkeys[b] + (IF b \in r.modifier THEN 0 ELSE 128)
           /\ \A i \in PressSlots(p, r) :
                 /\ PressCall(i) \in DOMAIN Scancodes(p, r)
                 /\ Scancodes(p, r)[PressCall(i)] = r.keycode[i]
           /\ DOMAIN Scancodes(p, r) \subseteq Nat
<1> DEFINE places == ReleaseSlots(p, r) \cup {ModifierCall(b) : b \in ModifierBits(p, r)}
                                        \cup {PressCall(i) : i \in PressSlots(p, r)}
<1>1. Scancodes(p, r) = [n \in places |-> Scancode(p, r, n)]
  BY DEF Scancodes
<1>2. DOMAIN Scancodes(p, r) = places /\ \A n \in places : Scancodes(p, r)[n] = Scancode(p, r, n)
  BY <1>1
<1>3. /\ ReleaseSlots(p, r) \subseteq KeySlots /\ PressSlots(p, r) \subseteq KeySlots
      /\ ModifierBits(p, r) \subseteq DOMAIN modkeys
  BY DEF ReleaseSlots, PressSlots, ModifierBits
<1>4. ASSUME NEW i \in ReleaseSlots(p, r) PROVE Scancode(p, r, i) = p.keycode[i] + 128
  <2>1. i \in KeySlots /\ p.keycode[i] \in Usages \cup {0}
    BY <1>3 DEF Reports
  <2>2. p.keycode[i] \in 0 .. 127
    BY <2>1, KbdNumbers
  <2>3. Scancode(p, r, i) = (p.keycode[i] + 128) % 256
    BY <2>1 DEF Scancode, RELEASE
  <2> QED BY <2>2, <2>3
<1>5. ASSUME NEW b \in ModifierBits(p, r)
      PROVE  Scancode(p, r, ModifierCall(b)) = modkeys[b] + (IF b \in r.modifier THEN 0 ELSE 128)
  <2>1. b \in DOMAIN modkeys /\ b \in Nat /\ b > 0
    BY <1>3, KbdNumbers
  <2>2. ModifierCall(b) \notin KeySlots /\ ModifierCall(b) - ReportSlots = b
    BY <2>1, KbdNumbers DEF ModifierCall, KeySlots
  <2> QED BY <2>1, <2>2 DEF Scancode, RELEASE
<1>6. ASSUME NEW i \in PressSlots(p, r) PROVE Scancode(p, r, PressCall(i)) = r.keycode[i]
  <2>1. i \in KeySlots /\ i \in Nat /\ i > 0
    BY <1>3, KbdNumbers DEF KeySlots
  <2>2. /\ PressCall(i) \notin KeySlots /\ PressCall(i) - ReportSlots - Len(modkeys) = i
        /\ PressCall(i) - ReportSlots \notin DOMAIN modkeys
    BY <2>1, KbdNumbers DEF PressCall, KeySlots
  <2> QED BY <2>2 DEF Scancode
<1>7. places \subseteq Nat
  BY <1>3, KbdNumbers DEF PressCall, ModifierCall, KeySlots
<1> QED BY <1>2, <1>4, <1>5, <1>6, <1>7

(* The keys that the handling of a report releases.                        *)
Freed(p, r) == {p.keycode[i] : i \in ReleaseSlots(p, r)}

(* Two reports of which the handling notices every key that is gone.       *)
Distinct(r) == \A i, j \in KeySlots : r.keycode[i] = r.keycode[j] /\ r.keycode[i] # 0 => i = j

Noticed(p, r) ==
    \A i \in KeySlots : p.keycode[i] # 0 /\ (\A j \in KeySlots : r.keycode[j] # p.keycode[i])
                        => i \in ReleaseSlots(p, r)

(* The scancodes say what has changed: a key that was not named is pressed,*)
(* one that is no longer named, or named again in another slot, is released*)
(* (788-790).                                                              *)
LEMMA CodesTell ==
    ASSUME OrdinaryUse, NEW p \in Reports, NEW r \in Reports, Noticed(p, r),
           NEW n \in DOMAIN Scancodes(p, r)
    PROVE  LET s == Scancodes(p, r)[n] IN
           /\ s \in 1 .. 255 /\ s % 128 \in 1 .. 127
           /\ s < 128  => s % 128 = s /\ s \notin Named(p) /\ s \in Named(r)
           /\ s >= 128 => s % 128 = s - 128 /\ s - 128 \in Named(p) /\ (s - 128 \in Named(r) => s - 128 \in Freed(p, r))
<1> DEFINE s == Scancodes(p, r)[n]
<1>0. /\ \A i \in KeySlots : p.keycode[i] \in Usages \cup {0} /\ r.keycode[i] \in Usages \cup {0}
      /\ p.modifier \subseteq DOMAIN modkeys /\ r.modifier \subseteq DOMAIN modkeys
  BY DEF Reports
<1>1. CASE n \in ReleaseSlots(p, r)
  <2>1. /\ n \in KeySlots /\ p.keycode[n] # 0 /\ n \in 1 .. n
    BY <1>1, KbdNumbers DEF ReleaseSlots, KeySlots
  <2>2. p.keycode[n] \in Usages /\ p.keycode[n] \in 4 .. 127
    BY <1>0, <2>1, KbdNumbers
  <2>5. s = p.keycode[n] + 128
    BY <1>1, CallCodes
  <2>6. s % 128 = p.keycode[n] /\ s - 128 = p.keycode[n] /\ s >= 128 /\ s \in 1 .. 255
    BY <2>2, <2>5
  <2>3. p.keycode[n] \in Named(p)
    BY <2>1 DEF Named
  <2>4. p.keycode[n] \in Freed(p, r)
    BY <1>1 DEF Freed
  <2> QED BY <2>2, <2>3, <2>4, <2>6
<1>2. ASSUME NEW b \in ModifierBits(p, r), n = ModifierCall(b)
      PROVE  /\ s \in 1 .. 255 /\ s % 128 \in 1 .. 127
             /\ s < 128  => s % 128 = s /\ s \notin Named(p) /\ s \in Named(r)
             /\ s >= 128 => s % 128 = s - 128 /\ s - 128 \in Named(p) /\ (s - 128 \in Named(r) => s - 128 \in Freed(p, r))
  <2>1. b \in DOMAIN modkeys /\ (b \in p.modifier) # (b \in r.modifier)
    BY DEF ModifierBits
  <2>2. modkeys[b] \in 1 .. 127 /\ modkeys[b] \notin Usages
    BY <2>1, KbdNumbers
  <2>3. \A d \in DOMAIN modkeys : modkeys[d] = modkeys[b] => d = b
    BY <2>1, KbdNumbers
  <2>4. s = modkeys[b] + (IF b \in r.modifier THEN 0 ELSE 128)
    BY <1>2, CallCodes
  <2>5. modkeys[b] \in Named(p) <=> b \in p.modifier
    BY <1>0, <2>2, <2>3 DEF Named
  <2>6. modkeys[b] \in Named(r) <=> b \in r.modifier
    BY <1>0, <2>2, <2>3 DEF Named
  <2>7. CASE b \in r.modifier
    <3>1. s = modkeys[b]
      BY <2>2, <2>4, <2>7
    <3> QED BY <2>1, <2>2, <2>5, <2>6, <2>7, <3>1
  <2>8. CASE b \notin r.modifier
    <3>1. s = modkeys[b] + 128
      BY <2>2, <2>4, <2>8
    <3>2. s % 128 = modkeys[b] /\ s - 128 = modkeys[b] /\ s >= 128 /\ s \in 1 .. 255
      BY <2>2, <3>1
    <3> QED BY <2>1, <2>2, <2>5, <2>6, <2>8, <3>2
  <2> QED BY <2>7, <2>8
<1>3. ASSUME NEW i \in PressSlots(p, r), n = PressCall(i)
      PROVE  /\ s \in 1 .. 127 /\ s % 128 = s /\ s \notin Named(p) /\ s \in Named(r)
  <2>1. i \in KeySlots /\ r.keycode[i] # 0 /\ \A j \in KeySlots : p.keycode[j] # r.keycode[i]
    BY DEF PressSlots
  <2>2. s = r.keycode[i] /\ s \in Usages /\ s \in 4 .. 127
    <3>1. s = r.keycode[i]
      BY <1>3, CallCodes
    <3>2. r.keycode[i] \in Usages
      BY <1>0, <2>1
    <3> HIDE DEF s
    <3> QED BY <3>1, <3>2, KbdNumbers
  <2>3. s \in Named(r)
    BY <2>1, <2>2 DEF Named
  <2>4. s \notin Named(p)
    BY <1>0, <2>1, <2>2, KbdNumbers DEF Named
  <2> QED BY <2>2, <2>3, <2>4
<1> HIDE DEF s
<1>4. CASE \E i \in PressSlots(p, r) : n = PressCall(i)
  <2>1. s \in 1 .. 127 /\ s % 128 = s /\ s \notin Named(p) /\ s \in Named(r)
    BY <1>3, <1>4
  <2> QED BY <2>1 DEF s
<1>5. CASE \E b \in ModifierBits(p, r) : n = ModifierCall(b)
  BY <1>2, <1>5 DEF s
<1> QED BY <1>1, <1>4, <1>5, CallCodes

(* Each change is told.                                                    *)
LEMMA ChangesTold ==
    ASSUME OrdinaryUse, NEW p \in Reports, NEW r \in Reports, Noticed(p, r), NEW u,
           (u \in Named(p)) # (u \in Named(r))
    PROVE  \E n \in DOMAIN Scancodes(p, r) : Scancodes(p, r)[n] % 128 = u
<1>0. /\ \A i \in KeySlots : p.keycode[i] \in Usages \cup {0} /\ r.keycode[i] \in Usages \cup {0}
      /\ p.modifier \subseteq DOMAIN modkeys /\ r.modifier \subseteq DOMAIN modkeys
  BY DEF Reports
<1>1. ASSUME NEW b \in p.modifier \cup r.modifier, u = modkeys[b]
      PROVE  \E n \in DOMAIN Scancodes(p, r) : Scancodes(p, r)[n] % 128 = u
  <2>1. b \in DOMAIN modkeys /\ u \in 1 .. 127
    BY <1>0, <1>1, KbdNumbers
  <2>2. b \in ModifierBits(p, r)
    BY <1>1, <2>1 DEF ModifierBits, Named
  <2>3. /\ ModifierCall(b) \in DOMAIN Scancodes(p, r)
        /\ Scancodes(p, r)[ModifierCall(b)] = u + (IF b \in r.modifier THEN 0 ELSE 128)
    BY <1>1, <2>2, CallCodes
  <2>4. Scancodes(p, r)[ModifierCall(b)] % 128 = u
    <3>1. (u + 128) % 128 = u /\ (u + 0) % 128 = u
      BY <2>1
    <3> QED BY <2>3, <3>1
  <2> QED BY <2>3, <2>4
<1>2. ASSUME NEW i \in KeySlots, p.keycode[i] = u, u # 0, u \notin Named(r)
      PROVE  \E n \in DOMAIN Scancodes(p, r) : Scancodes(p, r)[n] % 128 = u
  <2>1. i \in ReleaseSlots(p, r)
    BY <1>2 DEF Noticed, Named
  <2>2. i \in DOMAIN Scancodes(p, r) /\ Scancodes(p, r)[i] = u + 128
    BY <1>2, <2>1, CallCodes
  <2>3. u \in 4 .. 127
    BY <1>0, <1>2, KbdNumbers
  <2>4. (u + 128) % 128 = u
    BY <2>3
  <2> QED BY <2>2, <2>4
<1>3. ASSUME NEW i \in KeySlots, r.keycode[i] = u, u # 0, u \notin Named(p)
      PROVE  \E n \in DOMAIN Scancodes(p, r) : Scancodes(p, r)[n] % 128 = u
  <2>1. i \in PressSlots(p, r)
    BY <1>3 DEF PressSlots, Named
  <2>2. PressCall(i) \in DOMAIN Scancodes(p, r) /\ Scancodes(p, r)[PressCall(i)] = u
    BY <1>3, <2>1, CallCodes
  <2>3. u \in 4 .. 127
    BY <1>0, <1>3, KbdNumbers
  <2>4. u % 128 = u
    BY <2>3
  <2> QED BY <2>2, <2>4
<1>4. CASE u \in Named(p) /\ u \notin Named(r)
  BY <1>1, <1>2, <1>4 DEF Named
<1>5. CASE u \in Named(r) /\ u \notin Named(p)
  BY <1>1, <1>3, <1>5 DEF Named
<1> QED BY <1>4, <1>5

(* No key is told of twice.                                                *)
LEMMA ToldOnce ==
    ASSUME OrdinaryUse, NEW p \in Reports, NEW r \in Reports, Noticed(p, r), Distinct(p), Distinct(r),
           NEW m \in DOMAIN Scancodes(p, r), NEW n \in DOMAIN Scancodes(p, r),
           Scancodes(p, r)[m] % 128 = Scancodes(p, r)[n] % 128
    PROVE  m = n
<1> DEFINE s(x) == Scancodes(p, r)[x]
<1>0. /\ \A i \in KeySlots : p.keycode[i] \in Usages \cup {0} /\ r.keycode[i] \in Usages \cup {0}
  BY DEF Reports
<1>1. s(m) = s(n)
  <2>1. ~(s(m) < 128) \/ s(n) < 128
    BY CodesTell
  <2>2. ~(s(n) < 128) \/ s(m) < 128
    BY CodesTell
  <2> QED BY <2>1, <2>2, CodesTell
<1>2. ASSUME NEW x \in DOMAIN Scancodes(p, r)
      PROVE  \/ x \in ReleaseSlots(p, r) /\ s(x) - 128 \in Usages /\ s(x) >= 128
                /\ p.keycode[x] = s(x) - 128 /\ x \in KeySlots /\ p.keycode[x] # 0
             \/ \E b \in DOMAIN modkeys : /\ x = ModifierCall(b)
                                          /\ s(x) = modkeys[b] \/ s(x) = modkeys[b] + 128
             \/ \E i \in KeySlots : /\ x = PressCall(i) /\ r.keycode[i] = s(x) /\ s(x) \in Usages
                                    /\ r.keycode[i] # 0
  <2>1. CASE x \in ReleaseSlots(p, r)
    <3>1. x \in KeySlots /\ p.keycode[x] # 0 /\ s(x) = p.keycode[x] + 128
      BY <2>1, CallCodes, KbdNumbers DEF ReleaseSlots, KeySlots
    <3>2. p.keycode[x] \in Usages /\ p.keycode[x] \in 4 .. 127
      BY <1>0, <3>1, KbdNumbers
    <3>3. s(x) - 128 = p.keycode[x] /\ s(x) >= 128
      BY <3>1, <3>2
    <3> QED BY <2>1, <3>1, <3>2, <3>3
  <2>2. CASE \E b \in ModifierBits(p, r) : x = ModifierCall(b)
    <3>1. PICK b \in ModifierBits(p, r) : x = ModifierCall(b)
      BY <2>2
    <3>2. b \in DOMAIN modkeys /\ modkeys[b] \in 1 .. 127
      BY KbdNumbers DEF ModifierBits
    <3>3. s(x) = modkeys[b] + (IF b \in r.modifier THEN 0 ELSE 128)
      BY <3>1, CallCodes
    <3>4. s(x) = modkeys[b] \/ s(x) = modkeys[b] + 128
      BY <3>2, <3>3
    <3> QED BY <3>1, <3>2, <3>4
  <2>3. CASE \E i \in PressSlots(p, r) : x = PressCall(i)
    <3>1. PICK i \in PressSlots(p, r) : x = PressCall(i)
      BY <2>3
    <3>2. i \in KeySlots /\ r.keycode[i] # 0 /\ s(x) = r.keycode[i]
      BY <3>1, CallCodes DEF PressSlots
    <3> QED BY <1>0, <3>1, <3>2
  <2> QED BY <2>1, <2>2, <2>3, CallCodes
<1>3. s(m) \in 1 .. 255
  BY CodesTell
<1> HIDE DEF s
<1>4. CASE m \in ReleaseSlots(p, r) /\ s(m) - 128 \in Usages /\ s(m) >= 128
                /\ p.keycode[m] = s(m) - 128 /\ m \in KeySlots /\ p.keycode[m] # 0
  <2>1. ASSUME NEW b \in DOMAIN modkeys, s(n) = modkeys[b] \/ s(n) = modkeys[b] + 128 PROVE FALSE
    <3>1. modkeys[b] \in 1 .. 127 /\ modkeys[b] \notin Usages
      BY KbdNumbers
    <3> QED BY <1>1, <1>4, <2>1, <3>1
  <2>2. s(n) \notin Usages
    <3>1. s(n) >= 128 /\ s(n) \in 1 .. 255
      BY <1>1, <1>3, <1>4
    <3>2. s(n) \notin 4 .. 127
      BY <3>1
    <3> QED BY <3>2, KbdNumbers
  <2>3. n \in KeySlots /\ p.keycode[n] = p.keycode[m]
    BY <1>1, <1>2, <1>4, <2>1, <2>2
  <2> QED BY <1>4, <2>3 DEF Distinct
<1>5. ASSUME NEW b \in DOMAIN modkeys, m = ModifierCall(b), s(m) = modkeys[b] \/ s(m) = modkeys[b] + 128
      PROVE  m = n
  <2>1. modkeys[b] \in 1 .. 127 /\ modkeys[b] \notin Usages
    BY KbdNumbers
  <2>2. s(n) \notin Usages /\ (s(n) >= 128 => s(n) - 128 \notin Usages)
    <3>1. CASE s(m) = modkeys[b]
      <4>1. ~(s(n) >= 128) /\ s(n) = modkeys[b]
        BY <1>1, <2>1, <3>1
      <4> QED BY <2>1, <4>1
    <3>2. CASE s(m) = modkeys[b] + 128
      <4>1. s(n) >= 128 /\ s(n) \in 1 .. 255 /\ s(n) - 128 = modkeys[b]
        BY <1>1, <1>3, <2>1, <3>2
      <4>2. s(n) \notin 4 .. 127
        BY <4>1
      <4> QED BY <2>1, <4>1, <4>2, KbdNumbers
    <3> QED BY <1>5, <3>1, <3>2
  <2>3. PICK d \in DOMAIN modkeys : n = ModifierCall(d) /\ (s(n) = modkeys[d] \/ s(n) = modkeys[d] + 128)
    BY <1>2, <2>2
  <2>4. modkeys[d] \in 1 .. 127
    BY KbdNumbers
  <2>5. modkeys[b] = modkeys[d]
    <3>1. \A x, y \in 1 .. 127 : (x = y \/ x = y + 128 \/ x + 128 = y \/ x + 128 = y + 128) => x = y
      OBVIOUS
    <3>2. s(m) = modkeys[d] \/ s(m) = modkeys[d] + 128
      BY <1>1, <2>3
    <3> QED BY <1>5, <2>1, <2>4, <3>1, <3>2
  <2>6. b = d
    BY <2>5, KbdNumbers
  <2> QED BY <1>5, <2>3, <2>6
<1>6. ASSUME NEW i \in KeySlots, m = PressCall(i), r.keycode[i] = s(m), s(m) \in Usages, r.keycode[i] # 0
      PROVE  m = n
  <2>1. ASSUME NEW b \in DOMAIN modkeys, s(n) = modkeys[b] \/ s(n) = modkeys[b] + 128 PROVE FALSE
    <3>1. modkeys[b] \in 1 .. 127 /\ modkeys[b] \notin Usages /\ s(m) \in 4 .. 127
      BY <1>6, KbdNumbers
    <3> QED BY <1>1, <1>6, <2>1, <3>1
  <2>2. ~(s(n) >= 128)
    <3>1. s(m) \in 4 .. 127
      BY <1>6, KbdNumbers
    <3> QED BY <1>1, <3>1
  <2>3. PICK j \in KeySlots : n = PressCall(j) /\ r.keycode[j] = s(n)
    BY <1>2, <2>1, <2>2
  <2>4. i = j
    BY <1>1, <1>6, <2>3 DEF Distinct
  <2> QED BY <1>6, <2>3, <2>4
<1> QED BY <1>2, <1>4, <1>5, <1>6

-----------------------------------------------------------------------------
(* Whatever number of calls touch a key or cell, the last of them counts;  *)
(* here there is one at most.                                              *)
LEMMA AfterOne ==
    ASSUME NEW codes, NEW calls, NEW before \in BOOLEAN,
           calls \subseteq Nat, \A m, n \in calls : m = n
    PROVE  /\ calls = {} => (After(calls, codes, before) <=> before)
           /\ \A n \in calls : After(calls, codes, before) <=> codes[n] < 128
<1>1. ASSUME NEW n \in calls PROVE After(calls, codes, before) <=> codes[n] < 128
  <2>1. calls = {n}
    BY <1>1
  <2>6. n <= n
    BY <1>1
  <2>2. \E x \in calls : \A m \in calls : m <= x
    BY <2>1, <2>6
  <2>3. (CHOOSE x \in calls : \A m \in calls : m <= x) \in calls
    BY <2>2
  <2>4. (CHOOSE x \in calls : \A m \in calls : m <= x) = n
    BY <2>1, <2>3
  <2>5. calls # {}
    BY <1>1
  <2> QED BY <2>4, <2>5 DEF After, RELEASE
<1> QED BY <1>1 DEF After

(* What is shown: nothing that is not named, and all of it but the missed. *)
Fits(shown, named, out) == shown \subseteq named /\ named \ out \subseteq shown

(* The calls that tell of a key, and what they make of it.                 *)
LEMMA AfterReport ==
    ASSUME OrdinaryUse, NEW p \in Reports, NEW r \in Reports, Noticed(p, r), Distinct(p), Distinct(r),
           NEW u \in 1 .. 127, NEW calls, NEW before \in BOOLEAN, NEW out,
           before => u \in Named(p), u \in Named(p) \ out => before,
           calls = {n \in DOMAIN Scancodes(p, r) : Scancodes(p, r)[n] % 128 = u}
    PROVE  /\ After(calls, Scancodes(p, r), before) => u \in Named(r)
           /\ u \in Named(r) \ (out \cup Freed(p, r)) => After(calls, Scancodes(p, r), before)
<1> DEFINE codes == Scancodes(p, r)
           after == After(calls, codes, before)
           told == /\ after => u \in Named(r)
                   /\ u \in Named(r) \ (out \cup Freed(p, r)) => after
<1>1. calls \subseteq Nat
  BY CallCodes
<1>2. \A m, n \in calls : m = n
  BY ToldOnce
<1>3. CASE calls = {}
  <2>1. u \in Named(p) <=> u \in Named(r)
    BY <1>3, ChangesTold
  <2>2. after <=> before
    BY <1>1, <1>2, <1>3, AfterOne
  <2> QED BY <2>1, <2>2
<1>4. ASSUME NEW n \in calls PROVE told
  <2>1. n \in DOMAIN codes /\ codes[n] % 128 = u
    BY <1>4
  <2>2. /\ codes[n] \in 1 .. 255
        /\ codes[n] < 128  => codes[n] % 128 = codes[n] /\ codes[n] \in Named(r)
        /\ codes[n] >= 128 => /\ codes[n] % 128 = codes[n] - 128
                              /\ codes[n] - 128 \in Named(r) => codes[n] - 128 \in Freed(p, r)
    BY <2>1, CodesTell
  <2>3. after <=> codes[n] < 128
    BY <1>1, <1>2, <1>4, AfterOne
  <2> HIDE DEF codes, after
  <2>4. CASE codes[n] < 128
    BY <2>1, <2>2, <2>3, <2>4
  <2>5. CASE codes[n] >= 128
    <3>1. ~(codes[n] < 128)
      BY <2>2, <2>5
    <3>2. u \in Named(r) => u \in Freed(p, r)
      BY <2>1, <2>2, <2>5
    <3> QED BY <2>3, <3>1, <3>2
  <2> QED BY <2>2, <2>4, <2>5
<1> QED BY <1>3, <1>4

(* A set of scancodes is what the console shows, the missed aside.         *)
ShownAs(S, out) ==
    IF usb2kbmode = 0 THEN Fits(neskeys, S, out)
    ELSE \A i \in DOMAIN Layout : Layout[i] # 0 =>
            /\ keymatrix[i] => Layout[i] \in S
            /\ Layout[i] \in S \ out => keymatrix[i]

(* A report names scancodes without the release bit.                       *)
LEMMA NamedTyped == ASSUME OrdinaryUse, NEW r \in Reports PROVE Named(r) \subseteq 1 .. 127
<1>1. \A i \in KeySlots : r.keycode[i] # 0 => r.keycode[i] \in 1 .. 127
  BY KbdNumbers DEF Reports
<1>2. \A b \in r.modifier : modkeys[b] \in 1 .. 127
  BY KbdNumbers DEF Reports
<1> QED BY <1>1, <1>2 DEF Named

(* A NES program in mode 0 follows.                                        *)
LEMMA NesFollows ==
    ASSUME OrdinaryUse, NEW p \in Reports, NEW r \in Reports, Noticed(p, r), Distinct(p), Distinct(r),
           NEW down, NEW out, Fits(down, Named(p), out)
    PROVE  Fits(NesKeys(down, Scancodes(p, r)), Named(r), out \cup Freed(p, r))
<1> DEFINE codes == Scancodes(p, r)
           all == down \cup {codes[n] % 128 : n \in DOMAIN codes}
           about(u) == {n \in DOMAIN codes : codes[n] % 128 = u}
<1>1. NesKeys(down, codes) = {u \in all : After(about(u), codes, u \in down)}
  BY DEF NesKeys, RELEASE
<1>2. down \subseteq Named(p) /\ Named(p) \ out \subseteq down
  BY DEF Fits
<1>3. ASSUME NEW u \in 1 .. 127
      PROVE  /\ After(about(u), codes, u \in down) => u \in Named(r)
             /\ u \in Named(r) \ (out \cup Freed(p, r)) => After(about(u), codes, u \in down)
  <2> DEFINE before == u \in down
  <2>1. before \in BOOLEAN /\ (before => u \in Named(p)) /\ (u \in Named(p) \ out => before)
    BY <1>2
  <2>2. about(u) = {n \in DOMAIN Scancodes(p, r) : Scancodes(p, r)[n] % 128 = u}
    OBVIOUS
  <2> HIDE DEF before, about
  <2>3. /\ After(about(u), codes, before) => u \in Named(r)
        /\ u \in Named(r) \ (out \cup Freed(p, r)) => After(about(u), codes, before)
    BY <2>1, <2>2, AfterReport
  <2> QED BY <2>3 DEF before
<1>4. all \subseteq 1 .. 127 /\ Named(r) \subseteq 1 .. 127
  BY <1>2, NamedTyped, CodesTell
<1>5. Named(r) \ out \subseteq all
  <2> SUFFICES ASSUME NEW u \in Named(r) \ out, u \notin down PROVE u \in all
    OBVIOUS
  <2>1. u \notin Named(p)
    BY <1>2
  <2>2. PICK n \in DOMAIN codes : codes[n] % 128 = u
    BY <2>1, ChangesTold
  <2> QED BY <2>2
<1> HIDE DEF codes, all, about
<1>6. NesKeys(down, codes) \subseteq Named(r)
  BY <1>1, <1>3, <1>4
<1>7. Named(r) \ (out \cup Freed(p, r)) \subseteq NesKeys(down, codes)
  BY <1>1, <1>3, <1>4, <1>5
<1> QED BY <1>6, <1>7 DEF codes, Fits

(* The matrix in the other modes follows.                                  *)
LEMMA MatrixFollows ==
    ASSUME OrdinaryUse, NEW p \in Reports, NEW r \in Reports, Noticed(p, r), Distinct(p), Distinct(r),
           usb2kbmode \in 1 .. 3, keymatrix \in [DOMAIN Layout -> BOOLEAN],
           NEW out, ShownAs(Named(p), out), NEW i \in DOMAIN Layout, Layout[i] # 0
    PROVE  LET shown == keycode_handler(keymatrix, Scancodes(p, r))[i] IN
           /\ shown => Layout[i] \in Named(r)
           /\ Layout[i] \in Named(r) \ (out \cup Freed(p, r)) => shown
<1> DEFINE codes == Scancodes(p, r)
           calls == {n \in DOMAIN codes : i \in Cells(codes[n])}
<1>1. Layout[i] \in 1 .. 127 /\ (usb2kbmode # 2 => \A j \in DOMAIN Layout : Layout[j] = Layout[i] => j = i)
  <2>1. /\ famikey \in [1 .. Len(famikey) -> 1 .. 127] /\ Len(famikey) \in Nat
        /\ suborkey \in [1 .. Len(suborkey) -> 0 .. 127] /\ Len(suborkey) \in Nat
    BY KeyboardAssumption, LenProperties
  <2>2. \A j, l \in DOMAIN famikey : famikey[j] = famikey[l] => j = l
    BY KeyboardAssumption
  <2> QED BY <2>1, <2>2 DEF Layout
<1>2. i \in Nat /\ \A j \in 1 .. i - 1 : j \in DOMAIN Layout /\ j # i
  <2>1. DOMAIN Layout = 1 .. Len(Layout) /\ Len(Layout) \in Nat
    BY KeyboardAssumption, LenProperties DEF Layout
  <2> QED BY <2>1
<1>3. \A s : i \in Cells(s) <=> Layout[i] = s % 128
  BY <1>1, <1>2 DEF Cells, RELEASE
<1>4. calls = {n \in DOMAIN codes : codes[n] % 128 = Layout[i]}
  BY <1>3
<1>5. /\ keymatrix[i] \in BOOLEAN /\ (keymatrix[i] => Layout[i] \in Named(p))
      /\ Layout[i] \in Named(p) \ out => keymatrix[i]
  <2>1. usb2kbmode # 0 /\ keymatrix[i] \in BOOLEAN
    OBVIOUS
  <2>2. /\ keymatrix[i] => Layout[i] \in Named(p)
        /\ Layout[i] \in Named(p) \ out => keymatrix[i]
    BY <2>1 DEF ShownAs
  <2> QED BY <2>1, <2>2
<1>6. keycode_handler(keymatrix, codes)[i] = After(calls, codes, keymatrix[i])
  BY DEF keycode_handler
<1>7. /\ After(calls, codes, keymatrix[i]) => Layout[i] \in Named(r)
      /\ Layout[i] \in Named(r) \ (out \cup Freed(p, r)) => After(calls, codes, keymatrix[i])
  BY <1>1, <1>4, <1>5, AfterReport
<1> QED BY <1>6, <1>7

(* The matrix keeps its type, whatever is written to it.                   *)
LEMMA MatrixTyped ==
    ASSUME OrdinaryUse, NEW p \in Reports, NEW r \in Reports, Noticed(p, r),
           keymatrix \in [DOMAIN Layout -> BOOLEAN]
    PROVE  keycode_handler(keymatrix, Scancodes(p, r)) \in [DOMAIN Layout -> BOOLEAN]
<1> DEFINE codes == Scancodes(p, r)
<1>1. \A n \in DOMAIN codes : codes[n] \in Int
  BY CodesTell
<1>2. ASSUME NEW calls, NEW b \in BOOLEAN PROVE After(calls, codes, b) \in BOOLEAN
  <2>1. CASE calls = {}
    BY <2>1 DEF After
  <2>2. CASE calls # {}
    <3>1. After(calls, codes, b) = (codes[CHOOSE n \in calls : \A m \in calls : m <= n] < RELEASE)
      BY <2>2 DEF After
    <3> QED BY <3>1
  <2> QED BY <2>1, <2>2
<1>3. keycode_handler(keymatrix, codes) =
        [i \in DOMAIN Layout |-> After({n \in DOMAIN codes : i \in Cells(codes[n])}, codes, keymatrix[i])]
  BY DEF keycode_handler
<1> HIDE DEF codes
<1>4. ASSUME NEW i \in DOMAIN Layout
      PROVE  After({n \in DOMAIN codes : i \in Cells(codes[n])}, codes, keymatrix[i]) \in BOOLEAN
  BY <1>2
<1> QED BY <1>3, <1>4 DEF codes

-----------------------------------------------------------------------------
(* One key gone and some new: the handling notices.                        *)
LEMMA FollowNoticed ==
    ASSUME OrdinaryUse, NEW p \in Reports, NEW r \in Reports, NEW n, NEW m, NEW gone,
           Filled(p.keycode, n), Filled(r.keycode, m),
           \/ \A i \in 1 .. n : r.keycode[i] = p.keycode[i]
           \/ \E j \in 1 .. n : /\ gone = {p.keycode[j]}
                                /\ \A i \in 1 .. j - 1 : r.keycode[i] = p.keycode[i]
                                /\ \A i \in j .. n - 1 : r.keycode[i] = p.keycode[i + 1]
    PROVE  Noticed(p, r) /\ Distinct(p) /\ Distinct(r) /\ Freed(p, r) \subseteq gone
<1> DEFINE f == p.keycode
           g == r.keycode
<1>1. /\ n \in 0 .. ReportSlots /\ m \in 0 .. ReportSlots /\ KeySlots = 1 .. ReportSlots
      /\ ReportSlots \in Nat
      /\ \A i \in 1 .. ReportSlots : (f[i] # 0 <=> i <= n) /\ (g[i] # 0 <=> i <= m)
      /\ \A i, j \in 1 .. n : f[i] = f[j] => i = j
      /\ \A i, j \in 1 .. m : g[i] = g[j] => i = j
  BY KbdNumbers DEF Filled, KeySlots
<1>2. ReleaseSlots(p, r) = {i \in 1 .. ReportSlots : /\ f[i] # g[i] /\ \A j \in 1 .. i : f[j] # 0
                                                    /\ \A j \in 1 .. i - 1 : f[j] = g[j]}
  BY DEF ReleaseSlots, KeySlots
<1>3. Distinct(p) /\ Distinct(r)
  <2>1. \A i, j \in 1 .. ReportSlots : f[i] = f[j] /\ f[i] # 0 => i = j
    BY <1>1
  <2>2. \A i, j \in 1 .. ReportSlots : g[i] = g[j] /\ g[i] # 0 => i = j
    BY <1>1
  <2> QED BY <1>1, <2>1, <2>2 DEF Distinct
<1> HIDE DEF f, g
<1>4. CASE \A i \in 1 .. n : g[i] = f[i]
  <2>1. ReleaseSlots(p, r) = {}
    <3> SUFFICES ASSUME NEW i \in ReleaseSlots(p, r) PROVE FALSE
      OBVIOUS
    <3>1. i \in 1 .. ReportSlots /\ f[i] # g[i] /\ f[i] # 0
      BY <1>1, <1>2
    <3> QED BY <1>1, <1>4, <3>1
  <2>2. ASSUME NEW i \in 1 .. ReportSlots, f[i] # 0 PROVE g[i] = f[i]
    BY <1>1, <1>4, <2>2
  <2> QED BY <1>1, <1>3, <2>1, <2>2 DEF Noticed, Freed, f, g
<1>5. ASSUME NEW j \in 1 .. n, gone = {f[j]}, \A i \in 1 .. j - 1 : g[i] = f[i],
             \A i \in j .. n - 1 : g[i] = f[i + 1]
      PROVE  Noticed(p, r) /\ Freed(p, r) \subseteq gone
  <2>0. j \in 1 .. ReportSlots /\ \A i \in 1 .. j : i \in 1 .. ReportSlots /\ f[i] # 0
    BY <1>1
  <2>1. ASSUME \A i \in 1 .. ReportSlots : g[i] # f[j] PROVE j \in ReleaseSlots(p, r)
    <3>1. f[j] # g[j]
      BY <2>0, <2>1
    <3>2. \A i \in 1 .. j - 1 : f[i] = g[i]
      BY <1>5
    <3> QED BY <1>2, <2>0, <3>1, <3>2
  <2>2. ASSUME NEW i \in ReleaseSlots(p, r) PROVE i = j
    <3>1. /\ i \in 1 .. ReportSlots /\ f[i] # g[i] /\ i \in 1 .. i
          /\ \A x \in 1 .. i : f[x] # 0
          /\ \A x \in 1 .. i - 1 : f[x] = g[x]
      BY <1>1, <1>2
    <3>0. i <= n
      BY <1>1, <3>1
    <3>2. ~(i < j)
      BY <1>5, <3>1
    <3>3. ~(j < i)
      <4> SUFFICES ASSUME j < i PROVE FALSE
        OBVIOUS
      <4>1. j \in 1 .. i - 1
        BY <1>1, <3>1
      <4>2. f[j] = g[j]
        BY <3>1, <4>1
      <4>3. j \in j .. n - 1 /\ j + 1 \in 1 .. n /\ j \in 1 .. n /\ j # j + 1
        BY <1>1, <3>0, <3>1, <4>1
      <4>4. f[j] = f[j + 1]
        BY <1>5, <4>2, <4>3
      <4> QED BY <1>1, <4>3, <4>4
    <3> QED BY <1>1, <3>1, <3>2, <3>3
  <2>3. ASSUME NEW i \in 1 .. ReportSlots, f[i] # 0, i # j PROVE \E x \in 1 .. ReportSlots : g[x] = f[i]
    <3>1. i \in 1 .. n
      BY <1>1, <2>3
    <3>2. CASE i < j
      <4>1. i \in 1 .. j - 1
        BY <1>1, <3>1, <3>2
      <4> QED BY <1>5, <2>3, <4>1
    <3>3. CASE i > j
      <4>1. i - 1 \in j .. n - 1 /\ (i - 1) + 1 = i /\ i - 1 \in 1 .. ReportSlots
        BY <1>1, <3>1, <3>3
      <4>2. g[i - 1] = f[(i - 1) + 1]
        BY <1>5, <4>1
      <4> QED BY <4>1, <4>2
    <3> QED BY <1>1, <2>3, <3>1, <3>2, <3>3
  <2>4. Freed(p, r) \subseteq gone
    BY <1>5, <2>2 DEF Freed, f
  <2>5. \A i \in 1 .. ReportSlots : f[i] # 0 /\ (\A x \in 1 .. ReportSlots : g[x] # f[i])
                                    => i \in ReleaseSlots(p, r)
    BY <2>1, <2>3
  <2> QED BY <1>1, <2>4, <2>5 DEF Noticed, f, g
<1> QED BY <1>1, <1>3, <1>4, <1>5 DEF f, g
(* A sequence less the element at a place.                                 *)
LEMMA RemoveProperties ==
    ASSUME NEW S, NEW s \in Seq(S), NEW i \in 1 .. Len(s)
    PROVE  /\ RemoveAt(s, i) \in Seq(S) /\ Len(RemoveAt(s, i)) = Len(s) - 1
           /\ \A x \in 1 .. Len(s) - 1 : RemoveAt(s, i)[x] = IF x < i THEN s[x] ELSE s[x + 1]
<1> DEFINE front == SubSeq(s, 1, i - 1)
           back == SubSeq(s, i + 1, Len(s))
<1>1. Len(s) \in Nat /\ i \in Nat /\ 1 <= i /\ i <= Len(s) /\ \A x \in 1 .. Len(s) : s[x] \in S
  BY LenProperties, ElementOfSeq
<1>2. /\ front \in Seq(S) /\ Len(front) = i - 1
      /\ \A x \in 1 .. i - 1 : front[x] = s[x]
  <2>1. \A x \in 1 .. i - 1 : s[x] \in S
    BY <1>1
  <2>2. /\ front \in Seq(S) /\ Len(front) = IF 1 <= i - 1 THEN (i - 1) - 1 + 1 ELSE 0
        /\ \A x \in 1 .. (i - 1) - 1 + 1 : front[x] = s[1 + x - 1]
    BY <1>1, <2>1, SubSeqProperties
  <2> HIDE DEF front
  <2>3. ASSUME NEW x \in 1 .. i - 1 PROVE front[x] = s[x]
    <3>1. x \in 1 .. (i - 1) - 1 + 1 /\ 1 + x - 1 = x
      BY <1>1
    <3> QED BY <2>2, <3>1
  <2>4. Len(front) = i - 1
    BY <1>1, <2>2
  <2> QED BY <2>2, <2>3, <2>4
<1>3. /\ back \in Seq(S) /\ Len(back) = Len(s) - i
      /\ \A x \in 1 .. Len(s) - i : back[x] = s[i + x]
  <2>1. \A x \in i + 1 .. Len(s) : s[x] \in S
    BY <1>1
  <2>2. /\ back \in Seq(S) /\ Len(back) = IF i + 1 <= Len(s) THEN Len(s) - (i + 1) + 1 ELSE 0
        /\ \A x \in 1 .. Len(s) - (i + 1) + 1 : back[x] = s[(i + 1) + x - 1]
    BY <1>1, <2>1, SubSeqProperties
  <2> HIDE DEF back
  <2>3. ASSUME NEW x \in 1 .. Len(s) - i PROVE back[x] = s[i + x]
    <3>1. x \in 1 .. Len(s) - (i + 1) + 1 /\ (i + 1) + x - 1 = i + x
      BY <1>1
    <3> QED BY <2>2, <3>1
  <2>4. Len(back) = Len(s) - i
    BY <1>1, <2>2
  <2> QED BY <2>2, <2>3, <2>4
<1> HIDE DEF front, back
<1>4. /\ front \o back \in Seq(S) /\ Len(front \o back) = Len(front) + Len(back)
      /\ \A x \in 1 .. Len(front) + Len(back) :
            (front \o back)[x] = IF x <= Len(front) THEN front[x] ELSE back[x - Len(front)]
  BY <1>2, <1>3, ConcatProperties
<1>5. RemoveAt(s, i) = front \o back
  BY DEF RemoveAt, front, back
<1>6. Len(front) + Len(back) = Len(s) - 1
  BY <1>1, <1>2, <1>3
<1>7. ASSUME NEW x \in 1 .. Len(s) - 1
      PROVE  (front \o back)[x] = IF x < i THEN s[x] ELSE s[x + 1]
  <2>1. (front \o back)[x] = IF x <= Len(front) THEN front[x] ELSE back[x - Len(front)]
    BY <1>4, <1>6
  <2>2. CASE x < i
    <3>1. x <= Len(front) /\ x \in 1 .. i - 1
      BY <1>1, <1>2, <2>2
    <3> QED BY <1>2, <2>1, <2>2, <3>1
  <2>3. CASE ~(x < i)
    <3>1. /\ ~(x <= Len(front)) /\ x - Len(front) = x - i + 1 /\ x - i + 1 \in 1 .. Len(s) - i
          /\ i + (x - i + 1) = x + 1
      BY <1>1, <1>2, <2>3
    <3> QED BY <1>3, <2>1, <2>3, <3>1
  <2> QED BY <2>2, <2>3
<1> QED BY <1>4, <1>5, <1>6, <1>7

(* A keyboard's report lists the keys held.                                *)
LEMMA ReportFilled ==
    ASSUME OrdinaryUse, KbdTyped, NEW k \in Keyboards, Holding(k)
    PROVE  /\ Report(k) \in Reports /\ Report(k).modifier = mods[k]
           /\ Filled(Report(k).keycode, Len(keys[k]))
           /\ \A i \in 1 .. Len(keys[k]) : Report(k).keycode[i] = keys[k][i]
<1> DEFINE s == keys[k]
<1>1. s \in Seq(Usages) /\ Len(s) \in 0 .. ReportSlots /\ \A i \in 1 .. Len(s) : s[i] \in Usages
  <2>1. s \in Seq(Usages)
    BY DEF KbdTyped
  <2> QED BY <2>1, LenProperties, ElementOfSeq, KbdNumbers DEF Holding
<1>2. ReportSlots \in Nat /\ KeySlots = 1 .. ReportSlots /\ \A u \in Usages : u # 0
  <2>1. 0 \notin 4 .. 127 /\ \A u \in Usages : u \in 4 .. 127
    BY KbdNumbers
  <2> QED BY <2>1, KbdNumbers DEF KeySlots
<1>3. Report(k) = [keycode |-> [i \in KeySlots |-> IF i <= Len(s) THEN s[i] ELSE 0], modifier |-> mods[k]]
  <2>1. ~(Len(s) > ReportSlots)
    BY <1>1, <1>2
  <2>2. Order(k) = s
    BY DEF Order, OrdinaryUse
  <2> HIDE DEF s
  <2> QED BY <2>1, <2>2 DEF Report, s
<1>4. mods[k] \in SUBSET DOMAIN modkeys
  BY DEF KbdTyped
<1> HIDE DEF s
<1>5. ASSUME NEW i \in KeySlots
      PROVE  (IF i <= Len(s) THEN s[i] ELSE 0) \in Usages \cup {0}
  BY <1>1, <1>2
<1>6. Report(k) \in Reports
  BY <1>3, <1>4, <1>5 DEF Reports
<1>7. \A i \in KeySlots : Report(k).keycode[i] = IF i <= Len(s) THEN s[i] ELSE 0
  BY <1>3
<1>8. \A i \in 1 .. Len(s) : i \in KeySlots /\ i <= Len(s)
  BY <1>1, <1>2
<1>9. \A i \in 1 .. Len(s) : Report(k).keycode[i] = s[i]
  BY <1>7, <1>8
<1>10. Filled(Report(k).keycode, Len(s))
  <2>1. \A i \in KeySlots : Report(k).keycode[i] # 0 <=> i <= Len(s)
    BY <1>1, <1>2, <1>7
  <2>2. \A i, j \in 1 .. Len(s) : Report(k).keycode[i] = Report(k).keycode[j] => i = j
    BY <1>9 DEF Holding, s
  <2> QED BY <1>1, <2>1, <2>2 DEF Filled
<1> QED BY <1>3, <1>6, <1>9, <1>10 DEF s

(* A keyboard that has not reported says that nothing is down.             *)
LEMMA NoReportTyped ==
    ASSUME OrdinaryUse
    PROVE  NoReport \in Reports /\ Filled(NoReport.keycode, 0) /\ Named(NoReport) = {}
<1>1. NoReport \in Reports /\ NoReport.modifier = {} /\ \A i \in KeySlots : NoReport.keycode[i] = 0
  BY DEF NoReport, Reports
<1>2. Filled(NoReport.keycode, 0)
  <2>1. KeySlots = 1 .. ReportSlots /\ ReportSlots \in Nat
    BY KbdNumbers DEF KeySlots
  <2> QED BY <1>1, <2>1 DEF Filled
<1>3. Named(NoReport) = {}
  BY <1>1 DEF Named
<1> QED BY <1>1, <1>2, <1>3

(* The handling of a keyboard's next report notices every key that is gone.*)
LEMMA NextNoticed ==
    ASSUME OrdinaryUse, KbdTyped, NEW k \in Keyboards, Holding(k), Follows(k)
    PROVE  /\ last[k] \in Reports
           /\ Noticed(last[k], Report(k)) /\ Distinct(last[k]) /\ Distinct(Report(k))
           /\ Freed(last[k], Report(k)) \subseteq released[k]
<1> DEFINE f == last[k].keycode
           g == Report(k).keycode
           m == Len(keys[k])
<1>1. last[k] \in Reports
  BY DEF KbdTyped
<1>2. Report(k) \in Reports /\ Filled(g, m) /\ \A i \in 1 .. m : g[i] = keys[k][i]
  BY ReportFilled
<1>3. PICK n \in 0 .. ReportSlots :
        /\ Filled(f, n)
        /\ \/ Kept(keys[k], f, n)
           \/ \E j \in 1 .. n : released[k] = {f[j]} /\ Gone(keys[k], f, n, j)
  BY DEF Follows, FollowsOn
<1>4. n \in Nat /\ m \in Nat /\ KeySlots = 1 .. ReportSlots /\ ReportSlots \in Nat /\ m <= ReportSlots
  BY <1>2, KbdNumbers DEF Filled, KeySlots
<1>5. CASE Kept(keys[k], f, n)
  <2>1. \A i \in 1 .. n : g[i] = f[i]
    <3>1. n <= m /\ \A i \in 1 .. n : keys[k][i] = f[i]
      BY <1>5 DEF Kept
    <3> QED BY <1>2, <1>4, <3>1
  <2> HIDE DEF f, g, m
  <2> QED BY <1>1, <1>2, <1>3, <2>1, FollowNoticed DEF f, g
<1>6. ASSUME NEW j \in 1 .. n, released[k] = {f[j]}, Gone(keys[k], f, n, j)
      PROVE  /\ Noticed(last[k], Report(k)) /\ Distinct(last[k]) /\ Distinct(Report(k))
             /\ Freed(last[k], Report(k)) \subseteq released[k]
  <2>1. /\ n - 1 <= m
        /\ \A i \in 1 .. j - 1 : keys[k][i] = f[i]
        /\ \A i \in j .. n - 1 : keys[k][i] = f[i + 1]
    BY <1>6 DEF Gone
  <2>2. \A i \in 1 .. j - 1 : g[i] = f[i]
    BY <1>2, <1>4, <2>1
  <2>3. \A i \in j .. n - 1 : g[i] = f[i + 1]
    BY <1>2, <1>4, <2>1
  <2> HIDE DEF f, g, m
  <2> QED BY <1>1, <1>2, <1>3, <1>6, <2>2, <2>3, FollowNoticed DEF f, g
<1> QED BY <1>1, <1>3, <1>5, <1>6

(* All keyboards' reports together name what the one last handled names.   *)
LEMMA NamedReported ==
    ASSUME OrdinaryUse, KbdTyped, Compared
    PROVE  prev_report \in Reports /\ Reported \ {0} = Named(prev_report)
<1>1. ASSUME NEW k \in Keyboards
      PROVE  /\ last[k] \in Reports
             /\ Named(last[k]) =
                  ({last[k].keycode[i] : i \in KeySlots} \cup {modkeys[b] : b \in last[k].modifier}) \ {0}
  <2>1. last[k] \in Reports
    BY DEF KbdTyped
  <2>2. \A b \in last[k].modifier : modkeys[b] # 0
    <3>1. 0 \notin 1 .. 127 /\ last[k].modifier \subseteq DOMAIN modkeys
      BY <2>1 DEF Reports
    <3> QED BY <3>1, KbdNumbers
  <2> QED BY <2>1, <2>2 DEF Named
<1>2. \A k \in Keyboards : Named(last[k]) \subseteq Named(prev_report)
  <2> SUFFICES ASSUME NEW k \in Keyboards PROVE Named(last[k]) \subseteq Named(prev_report)
    OBVIOUS
  <2>1. CASE last[k] = NoReport
    BY <2>1, NoReportTyped
  <2>2. CASE last[k] # NoReport
    BY <2>2 DEF Compared
  <2> QED BY <2>1, <2>2
<1>3. Named(prev_report) \subseteq Reported \ {0}
  <2>1. CASE \E k \in Keyboards : last[k] # NoReport
    <3>1. PICK k \in Keyboards : prev_report = last[k]
      BY <2>1 DEF Compared
    <3> QED BY <1>1, <3>1 DEF Reported
  <2>2. CASE \A k \in Keyboards : last[k] = NoReport
    BY <2>2, NoReportTyped DEF Compared
  <2> QED BY <2>1, <2>2
<1>4. Reported \ {0} \subseteq Named(prev_report)
  BY <1>1, <1>2 DEF Reported
<1>5. prev_report \in Reports
  BY DEF KbdTyped
<1> QED BY <1>3, <1>4, <1>5

(* What is to be shown is what the report last handled names.              *)
LEMMA ShownIs ==
    OrdinaryUse /\ KbdTyped /\ Compared
        => (ShownKeysAreReported <=> ShownAs(Named(prev_report), Missed))
<1> SUFFICES ASSUME OrdinaryUse, KbdTyped, Compared
             PROVE  ShownKeysAreReported <=> ShownAs(Named(prev_report), Missed)
  OBVIOUS
<1>1. Reported \ {0} = Named(prev_report)
  BY NamedReported
<1>2. 0 \notin neskeys
  <2>1. 0 \notin 1 .. 127 /\ neskeys \subseteq 1 .. 127
    BY DEF KbdTyped
  <2> QED BY <2>1
<1> QED BY <1>1, <1>2 DEF ShownKeysAreReported, ShownAs, Fits

(* ShownIs in the state after a step.                                      *)
LEMMA ShownIsNext ==
    (OrdinaryUse /\ KbdTyped /\ Compared
        => (ShownKeysAreReported <=> ShownAs(Named(prev_report), Missed)))'
BY ShownIs, PTL
-----------------------------------------------------------------------------
(* The steps.                                                              *)

(* No report is handled.                                                   *)
KbdSame == UNCHANGED <<usb2kbmode, prev_report, keymatrix, neskeys, last, missed>>

(* Reports list the keys as they were pressed, before a step and after.    *)
LEMMA OrderKept == ASSUME OrdinaryUse, NEW k PROVE Order(k) = keys[k] /\ Order(k)' = keys'[k]
BY Zenon DEF Order, OrdinaryUse

(* Of what KbdInv says, a key or modifier changes only what is about the   *)
(* keyboard it is on.                                                      *)
LEMMA Elsewhere ==
    ASSUME OrdinaryUse, KbdInv, KbdSame, NEW k \in Keyboards, KbdTyped',
           \A l \in Keyboards \ {k} : keys'[l] = keys[l] /\ mods'[l] = mods[l] /\ released'[l] = released[l],
           \A l \in Keyboards \ {k} : Untouched(l), Holding(k)', Follows(k)'
    PROVE  KbdInv'
<1>1. ASSUME NEW l \in Keyboards \ {k} PROVE Untouched(l)' /\ Holding(l)' /\ Follows(l)'
  <2>1. Report(l)' = Report(l)
    BY OrderKept DEF Report, KbdSame
  <2>2. Untouched(l)'
    BY <2>1 DEF Untouched, Changed, KbdSame, NoReport
  <2>3. Holding(l) /\ Follows(l)
    BY DEF KbdInv
  <2>4. Holding(l)'
    BY <2>3 DEF Holding, KbdSame
  <2>5. Follows(l)'
    BY <2>3 DEF Follows, KbdSame
  <2> QED BY <2>2, <2>4, <2>5
<1>2. OneInUse'
  BY <1>1 DEF OneInUse
<1>3. Compared' /\ ShownKeysAreReported'
  <2>1. Compared /\ ShownKeysAreReported
    BY DEF KbdInv
  <2>2. Compared'
    BY <2>1 DEF Compared, KbdSame
  <2>3. ShownKeysAreReported'
    BY <2>1 DEF ShownKeysAreReported, Reported, Missed, Layout, KbdSame
  <2> QED BY <2>2, <2>3
<1> QED BY <1>1, <1>2, <1>3 DEF KbdInv

(* A key goes down: it is last among the keys held.                        *)
LEMMA DownStep ==
    ASSUME OrdinaryUse, KbdInv, NEW k \in Keyboards, NEW u \in Usages, KeyDown(k, u)
    PROVE  KbdInv'
<1> DEFINE s == keys[k]
           t == keys'[k]
<1>1. /\ keys' = [keys EXCEPT ![k] = Append(s, u)] /\ u \notin ToSet(s)
      /\ Len(s) < MaxHeld /\ UNCHANGED <<mounted, mods, released, last, missed, firmware>> /\ InUse(k)
  BY DEF KeyDown
<1>2. KbdSame /\ released' = released /\ mods' = mods
  BY <1>1 DEF KbdSame, firmware
<1>3. KbdTyped /\ Holding(k) /\ Follows(k)
  BY DEF KbdInv
<1>4. s \in Seq(Usages) /\ keys \in [Keyboards -> Seq(Usages)]
  BY <1>3 DEF KbdTyped
<1>5. /\ Len(s) \in Nat /\ DOMAIN s = 1 .. Len(s) /\ t = Append(s, u) /\ t \in Seq(Usages)
      /\ Len(t) = Len(s) + 1 /\ t[Len(s) + 1] = u /\ \A i \in 1 .. Len(s) : t[i] = s[i]
  BY <1>1, <1>4, AppendProperties, LenProperties
<1>6. KbdTyped'
  <2>1. keys' \in [Keyboards -> Seq(Usages)]
    BY <1>1, <1>4, <1>5
  <2> QED BY <1>2, <1>3, <2>1 DEF KbdTyped, KbdSame, Layout
<1>7. \A l \in Keyboards \ {k} : keys'[l] = keys[l] /\ Untouched(l)
  BY <1>1, <1>4 DEF InUse, OrdinaryUse
<1>8. ReportSlots \in Nat /\ Len(t) <= ReportSlots
  <2>1. ReportSlots \in Nat /\ MaxHeld \in Nat /\ MaxHeld <= ReportSlots
    BY KbdNumbers, KeyboardAssumption DEF OrdinaryUse
  <2> QED BY <1>1, <1>5, <2>1
<1> HIDE DEF t
<1>9. Holding(k)'
  <2>1. \A i \in 1 .. Len(t) : i \in 1 .. Len(s) \/ i = Len(s) + 1
    BY <1>5
  <2>2. \A i \in 1 .. Len(s) : s[i] # u
    BY <1>1, <1>5 DEF ToSet
  <2>3. \A i, j \in 1 .. Len(s) : s[i] = s[j] => i = j
    BY <1>3 DEF Holding
  <2>4. missed[k] \subseteq ToSet(last[k].keycode)
    BY <1>3 DEF Holding
  <2>5. \A i, j \in 1 .. Len(t) : t[i] = t[j] => i = j
    BY <1>5, <2>1, <2>2, <2>3
  <2> QED BY <1>2, <1>8, <2>4, <2>5 DEF Holding, KbdSame, t
<1>10. Follows(k)'
  <2>1. PICK n \in 0 .. ReportSlots :
          /\ Filled(last[k].keycode, n)
          /\ \/ Kept(s, last[k].keycode, n)
             \/ \E j \in 1 .. n : released[k] = {last[k].keycode[j]} /\ Gone(s, last[k].keycode, n, j)
    BY <1>3 DEF Follows, FollowsOn
  <2> DEFINE f == last[k].keycode
  <2> HIDE DEF f, s
  <2>2. Kept(s, f, n) => Kept(t, f, n)
    BY <1>5, <1>8, <2>1 DEF Kept
  <2>3. \A j \in 1 .. n : Gone(s, f, n, j) => Gone(t, f, n, j)
    BY <1>5, <1>8, <2>1 DEF Gone
  <2>4. /\ Filled(f, n)
        /\ Kept(t, f, n) \/ \E j \in 1 .. n : released[k] = {f[j]} /\ Gone(t, f, n, j)
    BY <2>1, <2>2, <2>3 DEF f, s
  <2>5. FollowsOn(t, f, released[k])
    BY <2>1, <2>4 DEF FollowsOn
  <2> QED BY <1>2, <2>5 DEF Follows, KbdSame, f, t
<1> QED BY <1>2, <1>6, <1>7, <1>9, <1>10, Elsewhere

(* A key goes up: it is the only one released since the last report, so    *)
(* the keys held still follow that report but for it.                      *)
LEMMA UpStep ==
    ASSUME OrdinaryUse, KbdInv, NEW k \in Keyboards, NEW u \in Usages, KeyUp(k, u)
    PROVE  KbdInv'
<1> DEFINE s == keys[k]
           t == keys'[k]
<1>1. PICK i \in DOMAIN s : s[i] = u /\ keys' = [keys EXCEPT ![k] = RemoveAt(s, i)]
  BY DEF KeyUp
<1>2. /\ Cardinality(released[k] \cup {u}) <= MaxReleases
      /\ released' = [released EXCEPT ![k] = released[k] \cup {u}]
      /\ UNCHANGED <<mounted, mods, last, missed, firmware>>
  BY DEF KeyUp
<1>3. KbdSame /\ mods' = mods
  BY <1>2 DEF KbdSame, firmware
<1>4. KbdTyped /\ Holding(k) /\ Follows(k) /\ OneInUse
  BY DEF KbdInv
<1>5. s \in Seq(Usages) /\ keys \in [Keyboards -> Seq(Usages)] /\ released \in [Keyboards -> SUBSET Usages]
  BY <1>4 DEF KbdTyped
<1>6. i \in 1 .. Len(s) /\ Len(s) \in Nat /\ s # <<>> /\ s[i] = u
  BY <1>1, <1>5, LenProperties
<1>7. /\ t = RemoveAt(s, i) /\ t \in Seq(Usages) /\ Len(t) = Len(s) - 1
      /\ \A x \in 1 .. Len(s) - 1 : t[x] = IF x < i THEN s[x] ELSE s[x + 1]
  BY <1>1, <1>5, <1>6, RemoveProperties
<1>8. (released[k] = {} \/ released[k] = {u}) /\ released'[k] = {u}
  <2>1. SUFFICES ASSUME NEW v \in released[k], v # u PROVE FALSE
    BY <1>2, <1>5
  <2>2. MaxReleases \in Nat /\ MaxReleases <= 1
    BY KeyboardAssumption DEF OrdinaryUse
  <2>3. IsFiniteSet(released[k] \cup {u})
    <3>1. \A w \in released[k] \cup {u} : w \in Usages /\ w \in 4 .. 127
      BY <1>5, KbdNumbers
    <3>2. released[k] \cup {u} \in SUBSET Nat /\ \A w \in released[k] \cup {u} : w <= 127
      BY <3>1
    <3>3. 127 \in Nat
      OBVIOUS
    <3> QED BY <3>2, <3>3, FS_BoundedSetOfNaturals
  <2>4. Cardinality({u, v}) <= Cardinality(released[k] \cup {u}) /\ Cardinality(released[k] \cup {u}) \in Nat
    BY <2>1, <2>3, FS_Subset, FS_CardinalityType
  <2>5. Cardinality({u, v}) = 2
    <3>1. IsFiniteSet({u}) /\ Cardinality({u}) = 1
      BY FS_Singleton
    <3>2. {u, v} = {u} \cup {v} /\ v \notin {u}
      BY <2>1
    <3> QED BY <3>1, <3>2, FS_AddElement
  <2> QED BY <1>2, <2>2, <2>4, <2>5
<1>9. KbdTyped'
  <2>1. keys' \in [Keyboards -> Seq(Usages)]
    BY <1>1, <1>5, <1>7
  <2>2. released' \in [Keyboards -> SUBSET Usages]
    BY <1>2, <1>5
  <2> QED BY <1>3, <1>4, <2>1, <2>2 DEF KbdTyped, KbdSame, Layout
<1>10. ASSUME NEW l \in Keyboards \ {k}
       PROVE  keys'[l] = keys[l] /\ released'[l] = released[l] /\ Untouched(l)
  <2>1. ~Untouched(k)
    BY <1>6 DEF Untouched
  <2> QED BY <1>1, <1>2, <1>4, <1>5, <2>1 DEF OneInUse
<1> HIDE DEF t
<1>11. Holding(k)'
  <2>1. \A x, y \in 1 .. Len(s) : s[x] = s[y] => x = y
    BY <1>4 DEF Holding
  <2>2. ASSUME NEW x \in 1 .. Len(t)
        PROVE  \E z \in 1 .. Len(s) : t[x] = s[z] /\ z # i /\ z = IF x < i THEN x ELSE x + 1
    BY <1>6, <1>7
  <2>3. \A x, y \in 1 .. Len(t) : t[x] = t[y] => x = y
    BY <1>6, <1>7, <2>1, <2>2
  <2>4. missed[k] \subseteq ToSet(last[k].keycode)
    BY <1>4 DEF Holding
  <2>5. Len(t) <= ReportSlots
    <3>1. Len(s) <= ReportSlots /\ ReportSlots \in Nat
      BY <1>4, KbdNumbers DEF Holding
    <3> QED BY <1>6, <1>7, <3>1
  <2> QED BY <1>3, <2>3, <2>4, <2>5 DEF Holding, KbdSame, t
<1>12. Follows(k)'
  <2> DEFINE f == last[k].keycode
  <2>1. PICK n \in 0 .. ReportSlots :
          /\ Filled(f, n)
          /\ Kept(s, f, n) \/ \E j \in 1 .. n : released[k] = {f[j]} /\ Gone(s, f, n, j)
    BY <1>4 DEF Follows, FollowsOn
  <2>2. n \in Nat /\ \A x, y \in 1 .. n : f[x] = f[y] => x = y
    BY <2>1, KbdNumbers DEF Filled
  <2> HIDE DEF f, s
  <2>3. CASE Kept(s, f, n)
    <3>1. n <= Len(s) /\ \A x \in 1 .. n : s[x] = f[x]
      BY <2>3 DEF Kept
    <3>2. CASE i <= n
      <4>1. i \in 1 .. n /\ f[i] = u
        BY <1>6, <2>2, <3>1, <3>2
      <4>2. n - 1 <= Len(t)
        BY <1>6, <1>7, <2>2, <3>1
      <4>3. \A x \in 1 .. i - 1 : t[x] = f[x]
        BY <1>6, <1>7, <2>2, <3>1, <3>2
      <4>4. ASSUME NEW x \in i .. n - 1 PROVE t[x] = f[x + 1]
        <5>1. x \in 1 .. Len(s) - 1 /\ ~(x < i) /\ x + 1 \in 1 .. n
          BY <1>6, <2>2, <3>1, <3>2
        <5> QED BY <1>7, <2>2, <3>1, <5>1
      <4>5. Gone(t, f, n, i)
        BY <4>2, <4>3, <4>4 DEF Gone
      <4>6. FollowsOn(t, f, {u})
        BY <2>1, <4>1, <4>5 DEF FollowsOn
      <4> QED BY <1>3, <1>8, <4>6 DEF Follows, KbdSame, f, t
    <3>3. CASE ~(i <= n)
      <4>1. n <= Len(t)
        BY <1>6, <1>7, <2>2, <3>1, <3>3
      <4>2. \A x \in 1 .. n : t[x] = f[x]
        BY <1>6, <1>7, <2>2, <3>1, <3>3
      <4>3. Kept(t, f, n)
        BY <4>1, <4>2 DEF Kept
      <4>4. FollowsOn(t, f, {u})
        BY <2>1, <4>3 DEF FollowsOn
      <4> QED BY <1>3, <1>8, <4>4 DEF Follows, KbdSame, f, t
    <3> QED BY <3>2, <3>3
  <2>4. ASSUME NEW j \in 1 .. n, released[k] = {f[j]}, Gone(s, f, n, j) PROVE Follows(k)'
    <3>1. /\ n - 1 <= Len(s) /\ \A x \in 1 .. j - 1 : s[x] = f[x]
          /\ \A x \in j .. n - 1 : s[x] = f[x + 1]
      BY <2>4 DEF Gone
    <3>2. f[j] = u /\ j \in Nat /\ j > 0 /\ j <= n
      BY <1>8, <2>2, <2>4
    <3>3. ~(i <= n - 1)
      <4> SUFFICES ASSUME i <= n - 1 PROVE FALSE
        OBVIOUS
      <4>1. CASE i < j
        <5>1. i \in 1 .. j - 1 /\ i \in 1 .. n
          BY <1>6, <2>2, <3>2, <4>1
        <5>2. f[i] = f[j]
          BY <1>6, <3>1, <3>2, <5>1
        <5> QED BY <2>2, <2>4, <4>1, <5>1, <5>2
      <4>2. CASE ~(i < j)
        <5>1. i \in j .. n - 1 /\ i + 1 \in 1 .. n /\ i + 1 # j
          BY <1>6, <2>2, <3>2, <4>2
        <5>2. f[i + 1] = f[j]
          BY <1>6, <3>1, <3>2, <5>1
        <5> QED BY <2>2, <2>4, <5>1, <5>2
      <4> QED BY <4>1, <4>2
    <3>4. n - 1 <= Len(t) /\ \A x \in 1 .. n - 1 : t[x] = s[x]
      BY <1>6, <1>7, <2>2, <3>1, <3>3
    <3>5. Gone(t, f, n, j)
      <4>1. \A x \in 1 .. j - 1 : x \in 1 .. n - 1
        BY <2>2, <3>2
      <4>2. \A x \in j .. n - 1 : x \in 1 .. n - 1
        BY <2>2, <3>2
      <4> QED BY <3>1, <3>4, <4>1, <4>2 DEF Gone
    <3>6. FollowsOn(t, f, {u})
      BY <2>1, <2>4, <3>2, <3>5 DEF FollowsOn
    <3> QED BY <1>3, <1>8, <3>6 DEF Follows, KbdSame, f, t
  <2> QED BY <2>1, <2>3, <2>4
<1> QED BY <1>3, <1>9, <1>10, <1>11, <1>12, Elsewhere

(* A modifier changes: the keys held are as they were.                     *)
LEMMA ModifierStep ==
    ASSUME OrdinaryUse, KbdInv, NEW k \in Keyboards, NEW b \in DOMAIN modkeys, ModifierChange(k, b)
    PROVE  KbdInv'
<1>1. InUse(k) /\ UNCHANGED <<mounted, keys, released, last, missed, firmware>>
  BY DEF ModifierChange
<1>2. KbdSame /\ keys' = keys /\ released' = released
  BY <1>1 DEF KbdSame, firmware
<1>3. KbdTyped /\ Holding(k) /\ Follows(k) /\ mods \in [Keyboards -> SUBSET DOMAIN modkeys]
  BY DEF KbdInv, KbdTyped
<1>4. mods' \in [Keyboards -> SUBSET DOMAIN modkeys] /\ \A l \in Keyboards \ {k} : mods'[l] = mods[l]
  BY <1>3 DEF ModifierChange
<1>5. KbdTyped'
  BY <1>2, <1>3, <1>4 DEF KbdTyped, KbdSame, Layout
<1>6. Holding(k)' /\ Follows(k)'
  BY <1>2, <1>3 DEF Holding, Follows, KbdSame
<1>7. \A l \in Keyboards \ {k} : Untouched(l)
  BY <1>1 DEF InUse, OrdinaryUse
<1> QED BY <1>2, <1>4, <1>5, <1>6, <1>7, Elsewhere

(* A mount or unmount changes nothing else: who is pulled out had nothing  *)
(* down and nothing to report.                                             *)
LEMMA StillStep ==
    ASSUME OrdinaryUse, KbdInv, KbdSame, keys' = keys, mods' = mods, released' = released
    PROVE  KbdInv'
<1>1. ASSUME NEW k \in Keyboards PROVE Untouched(k)' <=> Untouched(k)
  <2>1. Report(k)' = Report(k)
    BY OrderKept DEF Report, KbdSame
  <2> QED BY <2>1 DEF Untouched, Changed, KbdSame
<1>2. OneInUse'
  BY <1>1 DEF OneInUse, KbdInv
<1>3. KbdTyped'
  BY DEF KbdInv, KbdTyped, Layout, KbdSame
<1>5. \A k \in Keyboards : Holding(k)' /\ Follows(k)'
  BY DEF KbdInv, Holding, Follows, KbdSame
<1>4. Compared' /\ ShownKeysAreReported'
  BY DEF KbdInv, Compared, ShownKeysAreReported, Reported, Missed, Layout, KbdSame
<1> QED BY <1>2, <1>3, <1>4, <1>5 DEF KbdInv

LEMMA MountSteps ==
    ASSUME OrdinaryUse, KbdInv, NEW k \in Keyboards, tuh_hid_mount_cb(k) \/ tuh_hid_umount_cb(k)
    PROVE  KbdInv'
<1>1. CASE tuh_hid_mount_cb(k)
  BY <1>1, StillStep DEF tuh_hid_mount_cb, KbdSame, firmware
<1>2. CASE tuh_hid_umount_cb(k)
  <2>1. keys[k] = <<>> /\ mods[k] = {} /\ last[k] = NoReport /\ released[k] = {}
    BY <1>2 DEF tuh_hid_umount_cb, OrdinaryUse, Untouched, Changed
  <2>2. KbdTyped
    BY DEF KbdInv
  <2>4. missed[k] = {}
    <3>1. missed[k] \subseteq ToSet(NoReport.keycode) /\ missed[k] \subseteq Usages
      BY <2>1, <2>2 DEF KbdInv, Holding, KbdTyped
    <3>2. ToSet(NoReport.keycode) \subseteq {0}
      BY DEF ToSet, NoReport
    <3>3. 0 \notin Usages
      <4>1. 0 \notin 4 .. 127
        OBVIOUS
      <4> QED BY <4>1, KbdNumbers
    <3> QED BY <3>1, <3>2, <3>3
  <2>3. keys' = keys /\ mods' = mods /\ released' = released /\ last' = last /\ missed' = missed
    BY <1>2, <2>1, <2>2, <2>4 DEF tuh_hid_umount_cb, KbdTyped
  <2> QED BY <1>2, <2>3, StillStep DEF tuh_hid_umount_cb, KbdSame, firmware
<1> QED BY <1>1, <1>2

(* The report the firmware compares with is the keyboard's own last one.   *)
LEMMA ComparedOwn ==
    ASSUME OrdinaryUse, KbdInv, NEW k \in Keyboards, Changed(k)
    PROVE  /\ prev_report = last[k] /\ \A l \in Keyboards \ {k} : Untouched(l)
           /\ prev_report \in Reports /\ Report(k) \in Reports
           /\ Noticed(prev_report, Report(k)) /\ Distinct(prev_report) /\ Distinct(Report(k))
           /\ Freed(prev_report, Report(k)) \subseteq released[k]
<1>1. KbdTyped /\ Compared /\ OneInUse /\ Holding(k) /\ Follows(k)
  BY DEF KbdInv
<1>2. \A l \in Keyboards \ {k} : Untouched(l)
  BY <1>1 DEF OneInUse, Untouched
<1>3. \A l \in Keyboards \ {k} : last[l] = NoReport
  BY <1>2 DEF Untouched
<1>4. prev_report = last[k]
  BY <1>1, <1>3 DEF Compared
<1> QED BY <1>1, <1>2, <1>4, NextNoticed, ReportFilled

(* A report: what it names is shown, the missed aside, and it is the one to*)
(* compare with.                                                           *)
LEMMA ReportStep ==
    ASSUME OrdinaryUse, KbdInv, NEW k \in Keyboards, process_kbd_report(k)
    PROVE  KbdInv'
<1> DEFINE p == prev_report
           r == Report(k)
<1>1. KbdTyped /\ Compared /\ ShownKeysAreReported /\ Holding(k)
  BY DEF KbdInv
<1>2. /\ p = last[k] /\ \A l \in Keyboards \ {k} : Untouched(l)
      /\ p \in Reports /\ r \in Reports /\ Noticed(p, r) /\ Distinct(p) /\ Distinct(r)
      /\ Freed(p, r) \subseteq released[k]
  BY ComparedOwn DEF process_kbd_report
<1>3. /\ prev_report' = r /\ last' = [last EXCEPT ![k] = r] /\ released' = [released EXCEPT ![k] = {}]
      /\ usb2kbmode' = usb2kbmode /\ keys' = keys /\ mods' = mods
  BY DEF process_kbd_report
<1>4. ShownAs(Named(p), Missed)
  BY <1>1, ShownIs
<1>14. missed' = [missed EXCEPT ![k] = (missed[k] \cup (released[k] \cap ToSet(keys[k])))
                                           \cap ToSet(r.keycode)]
  BY DEF process_kbd_report
<1>15. /\ Filled(r.keycode, Len(keys[k])) /\ \A i \in 1 .. Len(keys[k]) : r.keycode[i] = keys[k][i]
       /\ DOMAIN keys[k] = 1 .. Len(keys[k])
  <2>1. keys[k] \in Seq(Usages)
    BY <1>1 DEF KbdTyped
  <2> QED BY <1>1, <2>1, LenProperties, ReportFilled
<1> HIDE DEF p, r
<1>16. ASSUME NEW u \in Named(r), u \in Missed \cup Freed(p, r) PROVE u \in Missed'
  <2>1. u \in Usages
    <3>1. released[k] \subseteq Usages /\ \A l \in Keyboards : missed[l] \subseteq Usages
      BY <1>1 DEF KbdTyped
    <3> QED BY <1>2, <1>16, <3>1 DEF Missed
  <2>2. PICK i \in KeySlots : r.keycode[i] = u /\ u # 0
    <3>1. r.modifier \subseteq DOMAIN modkeys
      BY <1>2 DEF Reports
    <3>2. \A b \in r.modifier : modkeys[b] # u
      BY <2>1, <3>1, KbdNumbers
    <3> QED BY <3>2 DEF Named
  <2>3. u \in ToSet(r.keycode)
    <3>1. DOMAIN r.keycode = KeySlots
      BY <1>2 DEF Reports
    <3> QED BY <2>2, <3>1 DEF ToSet
  <2>4. u \in ToSet(keys[k])
    <3>1. i \in 1 .. Len(keys[k])
      BY <1>15, <2>2, KbdNumbers DEF Filled, KeySlots
    <3> QED BY <1>15, <2>2, <3>1 DEF ToSet
  <2>5. CASE \E l \in Keyboards \ {k} : u \in missed[l]
    <3>1. PICK l \in Keyboards \ {k} : u \in missed[l]
      BY <2>5
    <3>2. missed'[l] = missed[l]
      BY <1>1, <1>14 DEF KbdTyped
    <3> QED BY <3>1, <3>2 DEF Missed
  <2>6. CASE u \in missed[k] \/ u \in released[k]
    <3>1. u \in missed'[k]
      BY <1>1, <1>14, <2>3, <2>4, <2>6 DEF KbdTyped
    <3> QED BY <3>1 DEF Missed
  <2> QED BY <1>2, <1>16, <2>5, <2>6 DEF Missed
<1>5. /\ usb2kbmode = 0 => neskeys' = NesKeys(neskeys, Scancodes(p, r)) /\ keymatrix' = keymatrix
      /\ usb2kbmode # 0 => keymatrix' = keycode_handler(keymatrix, Scancodes(p, r)) /\ neskeys' = neskeys
  BY DEF process_kbd_report, p, r
<1>6. keymatrix \in [DOMAIN Layout -> BOOLEAN] /\ neskeys \subseteq 1 .. 127 /\ usb2kbmode \in 0 .. 3
  BY <1>1 DEF KbdTyped
<1>7. IF usb2kbmode = 0 THEN Fits(neskeys', Named(r), Missed \cup Freed(p, r))
      ELSE \A i \in DOMAIN Layout : Layout[i] # 0 =>
             /\ keymatrix'[i] => Layout[i] \in Named(r)
             /\ Layout[i] \in Named(r) \ (Missed \cup Freed(p, r)) => keymatrix'[i]
  <2>1. CASE usb2kbmode = 0
    BY <1>2, <1>4, <1>5, <2>1, NesFollows DEF ShownAs
  <2>2. CASE usb2kbmode # 0
    <3>1. usb2kbmode \in 1 .. 3
      BY <1>6, <2>2
    <3> QED BY <1>2, <1>4, <1>5, <1>6, <2>2, <3>1, MatrixFollows
  <2> QED BY <2>1, <2>2
<1>8. KbdTyped'
  <2>1. last' \in [Keyboards -> Reports] /\ prev_report' \in Reports
    BY <1>1, <1>2, <1>3 DEF KbdTyped
  <2>2. released' \in [Keyboards -> SUBSET Usages] /\ missed' \in [Keyboards -> SUBSET Usages]
    BY <1>1, <1>3, <1>14 DEF KbdTyped
  <2>3. neskeys' \subseteq 1 .. 127
    BY <1>2, <1>5, <1>6, <1>7, NamedTyped DEF Fits
  <2>4. keymatrix' \in [DOMAIN Layout -> BOOLEAN]
    BY <1>2, <1>5, <1>6, MatrixTyped
  <2>5. Layout' = Layout
    BY <1>3 DEF Layout
  <2> QED BY <1>1, <1>3, <2>1, <2>2, <2>3, <2>4, <2>5 DEF KbdTyped
<1>9. last'[k] = r /\ released'[k] = {} /\ \A l \in Keyboards \ {k} : last'[l] = NoReport /\ Untouched(l)
  BY <1>1, <1>2, <1>3 DEF KbdTyped, Untouched
<1>10. Compared'
  <2>1. \A l \in Keyboards : last'[l] # NoReport => prev_report' = last'[l]
    BY <1>3, <1>9
  <2>2. (\A l \in Keyboards : last'[l] = NoReport) => prev_report' = NoReport
    BY <1>3, <1>9
  <2>3. NoReport' = NoReport
    BY DEF NoReport
  <2> QED BY <2>1, <2>2 DEF Compared
<1>11. ShownKeysAreReported'
  <2>1. ShownAs(Named(prev_report), Missed)'
    <3>1. usb2kbmode' = usb2kbmode /\ Layout' = Layout /\ prev_report' = r
      BY <1>3 DEF Layout
    <3>2. CASE usb2kbmode = 0
      BY <1>7, <1>16, <3>1, <3>2 DEF ShownAs, Fits
    <3>3. CASE usb2kbmode # 0
      BY <1>7, <1>16, <3>1, <3>3 DEF ShownAs
    <3> QED BY <3>2, <3>3
  <2>2. OrdinaryUse'
    BY DEF OrdinaryUse
  <2> QED BY <1>8, <1>10, <2>1, <2>2, ShownIsNext
<1>12. OneInUse'
  <2>1. ASSUME NEW l \in Keyboards \ {k} PROVE Untouched(l)'
    <3>1. last'[l] = last[l] /\ released'[l] = released[l]
      BY <1>1, <1>3 DEF KbdTyped
    <3>2. Report(l)' = Report(l)
      BY <1>3, OrderKept DEF Report
    <3>3. Untouched(l)
      BY <1>9
    <3> QED BY <1>3, <3>1, <3>2, <3>3 DEF Untouched, Changed
  <2> QED BY <2>1 DEF OneInUse
<1>13. ASSUME NEW l \in Keyboards PROVE Holding(l)' /\ Follows(l)'
  <2>1. CASE l = k
    <3>0. missed'[k] \subseteq ToSet(r.keycode)
      BY <1>1, <1>14 DEF KbdTyped
    <3>1. Holding(k)'
      BY <1>1, <1>3, <1>9, <3>0 DEF Holding
    <3>3. Kept(keys[k], r.keycode, Len(keys[k])) /\ Len(keys[k]) \in 0 .. ReportSlots
      BY <1>15 DEF Kept, Filled
    <3>4. FollowsOn(keys[k], r.keycode, {})
      BY <1>15, <3>3 DEF FollowsOn
    <3>5. Follows(k)'
      BY <1>3, <1>9, <3>4 DEF Follows
    <3> QED BY <2>1, <3>1, <3>5
  <2>2. CASE l # k
    <3>1. last'[l] = last[l] /\ released'[l] = released[l] /\ missed'[l] = missed[l]
      BY <1>1, <1>3, <1>14, <2>2 DEF KbdTyped
    <3>2. Holding(l) /\ Follows(l)
      BY DEF KbdInv
    <3> QED BY <1>3, <3>1, <3>2 DEF Holding, Follows
  <2> QED BY <2>1, <2>2
<1> QED BY <1>8, <1>10, <1>11, <1>12, <1>13 DEF KbdInv

-----------------------------------------------------------------------------
(* No keyboard, no report, nothing shown.                                  *)
LEMMA KbdStarts == OrdinaryUse /\ KbdInit => KbdInv
<1> SUFFICES ASSUME OrdinaryUse, KbdInit PROVE KbdInv
  OBVIOUS
<1>1. NoReport \in Reports /\ Filled(NoReport.keycode, 0) /\ Named(NoReport) = {} /\ ReportSlots \in Nat
  BY NoReportTyped, KbdNumbers
<1>2. KbdTyped
  BY <1>1 DEF KbdInit, KbdTyped
<1>3. ASSUME NEW k \in Keyboards PROVE Holding(k) /\ Follows(k) /\ Untouched(k)
  <2>1. keys[k] = <<>> /\ Len(keys[k]) = 0 /\ mods[k] = {} /\ released[k] = {} /\ last[k] = NoReport
    BY DEF KbdInit
  <2>2. Holding(k)
    BY <1>1, <2>1 DEF Holding, KbdInit
  <2>3. FollowsOn(<<>>, NoReport.keycode, {})
    <3>1. Kept(<<>>, NoReport.keycode, 0)
      BY DEF Kept
    <3> QED BY <1>1, <3>1 DEF FollowsOn
  <2>4. Report(k) = NoReport
    <3>1. ~(Len(keys[k]) > ReportSlots) /\ \A i \in KeySlots : ~(i <= Len(keys[k]))
      BY <1>1, <2>1 DEF KeySlots
    <3>2. [i \in KeySlots |-> IF Len(keys[k]) > ReportSlots THEN KEY_ERR_OVF
                              ELSE IF i <= Len(keys[k]) THEN Order(k)[i] ELSE 0] =
          [i \in KeySlots |-> 0]
      <4> DEFINE n == Len(keys[k])
      <4> HIDE DEF n
      <4> QED BY <3>1 DEF n
    <3> QED BY <2>1, <3>2, Zenon DEF Report, NoReport
  <2> QED BY <2>1, <2>2, <2>3, <2>4 DEF Follows, Untouched, Changed
<1>4. Compared
  BY DEF KbdInit, Compared
<1>5. ShownAs(Named(prev_report), Missed)
  BY <1>1 DEF ShownAs, Fits, KbdInit
<1> QED BY <1>2, <1>3, <1>4, <1>5, ShownIs DEF KbdInv, OneInUse

(* KbdInv is inductive.                                                    *)
LEMMA KbdSteps == OrdinaryUse /\ KbdInv /\ [KbdNext]_kbdVars => KbdInv'
<1> SUFFICES ASSUME OrdinaryUse, KbdInv, [KbdNext]_kbdVars PROVE KbdInv'
  OBVIOUS
<1>1. ASSUME NEW k \in Keyboards, NEW u \in Usages, KeyDown(k, u) \/ KeyUp(k, u) PROVE KbdInv'
  BY <1>1, DownStep, UpStep
<1>2. ASSUME NEW k \in Keyboards, NEW b \in DOMAIN modkeys, ModifierChange(k, b) PROVE KbdInv'
  BY <1>2, ModifierStep
<1>3. ASSUME NEW k \in Keyboards, tuh_hid_mount_cb(k) \/ tuh_hid_umount_cb(k) PROVE KbdInv'
  BY <1>3, MountSteps
<1>4. ASSUME NEW k \in Keyboards, process_kbd_report(k) PROVE KbdInv'
  BY <1>4, ReportStep
<1>5. CASE UNCHANGED kbdVars
  BY <1>5, StillStep DEF kbdVars, board, firmware, KbdSame
<1> QED BY <1>1, <1>2, <1>3, <1>4, <1>5 DEF KbdNext

(* KbdInv holds in every state.                                            *)
LEMMA KbdAlways == ASSUME OrdinaryUse PROVE KbdSpec => []KbdInv
<1>1. OrdinaryUse /\ KbdInit => KbdInv
  BY KbdStarts
<1>2. OrdinaryUse /\ KbdInv /\ [KbdNext]_kbdVars => KbdInv'
  BY KbdSteps
<1>3. KbdInit => KbdInv
  BY <1>1
<1>4. KbdInv /\ [KbdNext]_kbdVars => KbdInv'
  BY <1>2
<1> QED BY <1>3, <1>4, PTL DEF KbdSpec

(* The console sees the keys that are down: no cell of the matrix (modes 1 *)
(* to 3) and no key of a NES program (mode 0) is stuck, and none is missing*)
(* but one released and pressed again between two reports.                 *)
THEOREM ShownTheorem == ASSUME OrdinaryUse PROVE KbdSpec => []ShownKeysAreReported
<1>1. KbdInv => ShownKeysAreReported
  BY DEF KbdInv
<1> QED BY <1>1, KbdAlways, PTL

(* Each scancode presses a key that was up or releases one that was down,  *)
(* one scancode per key and report.                                        *)
THEOREM AlternateTheorem == ASSUME OrdinaryUse PROVE KbdSpec => ScancodesAlternate
<1> DEFINE A == \A i \in DOMAIN scancodes' :
         prev_report' # prev_report =>
           /\ (scancodes'[i] < RELEASE) <=> (scancodes'[i] % RELEASE \notin Reported)
           /\ \A j \in DOMAIN scancodes' :
                scancodes'[i] % RELEASE = scancodes'[j] % RELEASE => i = j
<1>1. KbdInv /\ [KbdNext]_kbdVars => [A]_kbdVars
  <2> SUFFICES ASSUME KbdInv, [KbdNext]_kbdVars, prev_report' # prev_report PROVE A
    BY DEF kbdVars
  <2>1. PICK k \in Keyboards : process_kbd_report(k)
    BY DEF KbdNext, KeyDown, KeyUp, ModifierChange, tuh_hid_mount_cb, tuh_hid_umount_cb,
           firmware, board, kbdVars
  <2> DEFINE p == prev_report
             r == Report(k)
  <2>2. /\ p \in Reports /\ r \in Reports /\ Noticed(p, r) /\ Distinct(p) /\ Distinct(r)
    BY <2>1, ComparedOwn DEF process_kbd_report
  <2>3. scancodes' = Scancodes(p, r)
    BY <2>1 DEF process_kbd_report
  <2>4. Reported \ {0} = Named(p)
    BY NamedReported DEF KbdInv
  <2> HIDE DEF p, r
  <2>5. ASSUME NEW i \in DOMAIN Scancodes(p, r)
        PROVE  (Scancodes(p, r)[i] < 128) <=> (Scancodes(p, r)[i] % 128 \notin Reported)
    <3> DEFINE s == Scancodes(p, r)[i]
    <3>1. /\ s \in 1 .. 255 /\ s % 128 \in 1 .. 127
          /\ s < 128  => s % 128 = s /\ s \notin Named(p)
          /\ s >= 128 => s % 128 = s - 128 /\ s - 128 \in Named(p)
      BY <2>2, CodesTell
    <3> HIDE DEF s
    <3>2. s % 128 \in Reported <=> s % 128 \in Named(p)
      BY <2>4, <3>1
    <3>3. CASE s < 128
      BY <3>1, <3>2, <3>3 DEF s
    <3>4. CASE ~(s < 128)
      <4>1. s >= 128
        BY <3>1, <3>4
      <4> QED BY <3>1, <3>2, <3>4, <4>1 DEF s
    <3> QED BY <3>3, <3>4
  <2>6. \A i, j \in DOMAIN Scancodes(p, r) :
           Scancodes(p, r)[i] % 128 = Scancodes(p, r)[j] % 128 => i = j
    BY <2>2, ToldOnce
  <2> QED BY <2>3, <2>5, <2>6 DEF RELEASE
<1> QED BY <1>1, KbdAlways, PTL DEF KbdSpec, ScancodesAlternate
=============================================================================
