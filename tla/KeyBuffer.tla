----------------------------- MODULE KeyBuffer -----------------------------
(***************************************************************************)
(* The key FIFO of the keyboard/mouse host mode (usb2kbmode = 0).          *)
(*                                                                         *)
(* Core 0 runs keycode_handler (from the I2C interrupt or the USB task)    *)
(* and appends to keybuffer; core 1 runs nes_handler_thread and, at each   *)
(* strobe, copies the oldest WORD_SIZE entries into kbword, moves the rest *)
(* down and lowers bufferindex.  Nothing locks the two, so each load and   *)
(* each store of a shared byte is a step.  The C objects are not volatile: *)
(* wherever the source names bufferindex again, the build may use the      *)
(* value last loaded or load it once more (the Reload actions).            *)
(***************************************************************************)
EXTENDS Integers, Sequences, FiniteSets

CONSTANTS
    MAX_BUFFER,     \* slots of keybuffer
    WORD_SIZE,      \* keys per serial word
    Overlap,        \* TRUE: the two cores interleave freely
    PutLimit,       \* a key arrives only while bufferindex < PutLimit
    MaxKeys,        \* bound on the number of keys put in a behaviour
    MaxGot          \* the NES strobes until it was given this many keys

ASSUME SizesAssumption ==
    /\ MAX_BUFFER \in Nat /\ WORD_SIZE \in Nat
    /\ 0 < WORD_SIZE /\ WORD_SIZE < MAX_BUFFER /\ MAX_BUFFER <= 256
    /\ Overlap \in BOOLEAN
    /\ PutLimit \in Nat /\ MaxKeys \in Nat /\ MaxGot \in Nat

VARIABLES
    keybuffer,      \* keybuffer[]; 0x00 where no key was ever stored
    bufferindex,    \* number of keys buffered
    pc0, ascii,     \* core 0: where it is, and the scancode being put
    r0, i0, t0,     \*   last value loaded of bufferindex, loop index, byte
    pc1, kbword,    \* core 1: where it is, and the word built so far
    r1, c, i1, t1,  \*   last value loaded, count taken, loop index, byte
    sent, got       \* history: keys put, and keys given to the NES

core0 == <<pc0, ascii, r0, i0, t0>>
core1 == <<pc1, kbword, r1, c, i1, t1>>
vars  == <<keybuffer, bufferindex, core0, core1, sent, got>>

KEY_NONE == 0
Slots == 0 .. MAX_BUFFER - 1

Init ==
    /\ keybuffer = [i \in Slots |-> KEY_NONE]
    /\ bufferindex = 0
    /\ pc0 = "idle" /\ ascii = 0 /\ r0 = 0 /\ i0 = 0 /\ t0 = 0
    /\ pc1 = "idle" /\ kbword = <<>> /\ r1 = 0 /\ c = 0 /\ i1 = 0 /\ t1 = 0
    /\ sent = <<>> /\ got = <<>>

-----------------------------------------------------------------------------
(* Core 0: keycode_handler, host-mode branch. *)

(* Mutant: the test for a full buffer is one too late.                     *)
PutBegin_late ==
    /\ pc0 = "idle"
    /\ Overlap \/ pc1 = "idle"
    /\ bufferindex < PutLimit /\ Len(sent) < MaxKeys
    /\ ascii' = Len(sent) + 1 /\ r0' = bufferindex
    /\ IF bufferindex = MAX_BUFFER
       THEN pc0' = "shift" /\ i0' = 1
       ELSE pc0' = "reload_slot" /\ i0' = 0
    /\ UNCHANGED <<keybuffer, bufferindex, t0, core1, sent, got>>

(* A scancode arrives and the test for a full buffer loads bufferindex.    *)
(* Keys are numbered, so two keys are never equal.                         *)
PutBegin ==
    /\ pc0 = "idle"
    /\ Overlap \/ pc1 = "idle"
    /\ bufferindex < PutLimit
    /\ Len(sent) < MaxKeys
    /\ ascii' = Len(sent) + 1
    /\ r0' = bufferindex
    /\ IF bufferindex + 1 = MAX_BUFFER
       THEN pc0' = "shift" /\ i0' = 1
       ELSE pc0' = "reload_slot" /\ i0' = 0
    /\ UNCHANGED <<keybuffer, bufferindex, t0, core1, sent, got>>

(* Full: every entry moves down one slot, dropping the oldest. *)
PutShiftLoad ==
    /\ pc0 = "shift"
    /\ t0' = keybuffer[i0]
    /\ pc0' = "shifted"
    /\ UNCHANGED <<keybuffer, bufferindex, ascii, r0, i0, core1, sent, got>>

PutShiftStore ==
    /\ pc0 = "shifted"
    /\ keybuffer' = [keybuffer EXCEPT ![i0 - 1] = t0]
    /\ i0' = i0 + 1
    /\ pc0' = IF i0 + 1 < MAX_BUFFER THEN "shift" ELSE "reload_full"
    /\ UNCHANGED <<bufferindex, ascii, r0, t0, core1, sent, got>>

(* The source names bufferindex again: the build may load it again. *)
PutReload ==
    /\ \/ pc0 = "reload_full" /\ pc0' = "full"
       \/ pc0 = "reload_slot" /\ pc0' = "slot"
       \/ pc0 = "reload_inc"  /\ pc0' = "inc"
    /\ r0' \in {r0, bufferindex}
    /\ UNCHANGED <<keybuffer, bufferindex, ascii, i0, t0, core1, sent, got>>

PutReturn ==
    /\ pc0' = "idle" /\ ascii' = 0 /\ r0' = 0 /\ i0' = 0 /\ t0' = 0
    /\ sent' = Append(sent, ascii)

(* Full: the new key goes to keybuffer[bufferindex]; the index stays. *)
PutFull ==
    /\ pc0 = "full"
    /\ keybuffer' = [keybuffer EXCEPT ![r0] = ascii]
    /\ PutReturn
    /\ UNCHANGED <<bufferindex, core1, got>>

(* Not full: the new key goes to keybuffer[bufferindex] ... *)
PutSlot ==
    /\ pc0 = "slot"
    /\ keybuffer' = [keybuffer EXCEPT ![r0] = ascii]
    /\ pc0' = "reload_inc"
    /\ UNCHANGED <<bufferindex, ascii, r0, i0, t0, core1, sent, got>>

(* ... and bufferindex++ stores one more than the value it loaded. *)
PutIncrement ==
    /\ pc0 = "inc"
    /\ bufferindex' = (r0 + 1) % 256
    /\ PutReturn
    /\ UNCHANGED <<keybuffer, core1, got>>

-----------------------------------------------------------------------------
(* Core 1: the strobe branch of nes_handler_thread. *)

(* The NES strobes OUT0 and the latch begins. *)
LatchBegin ==
    /\ pc1 = "idle"
    /\ Overlap \/ pc0 = "idle"
    /\ Len(got) < MaxGot
    /\ pc1' = "word" /\ kbword' = <<>>
    /\ UNCHANGED <<keybuffer, bufferindex, core0, r1, c, i1, t1, sent, got>>

(* Mutant: the word takes the slots in the other byte order.               *)
LatchWord_reversed ==
    /\ pc1 = "word"
    /\ kbword' = Append(kbword, keybuffer[WORD_SIZE - 1 - Len(kbword)])
    /\ pc1' = IF Len(kbword) + 1 < WORD_SIZE THEN "word" ELSE "test"
    /\ UNCHANGED <<keybuffer, bufferindex, core0, r1, c, i1, t1, sent, got>>

(* The first WORD_SIZE slots become the serial word, whatever bufferindex  *)
(* says.                                                                   *)
LatchWord ==
    /\ pc1 = "word"
    /\ kbword' = Append(kbword, keybuffer[Len(kbword)])
    /\ pc1' = IF Len(kbword) + 1 < WORD_SIZE THEN "word" ELSE "test"
    /\ UNCHANGED <<keybuffer, bufferindex, core0, r1, c, i1, t1, sent, got>>

(* Mutant: a whole word is taken although fewer keys are buffered.         *)
LatchTest_wordonly ==
    /\ pc1 = "test"
    /\ r1' = bufferindex
    /\ pc1' = "shift" /\ c' = WORD_SIZE /\ i1' = WORD_SIZE
    /\ UNCHANGED <<keybuffer, bufferindex, core0, kbword, t1, sent, got>>

(* c = WORD_SIZE unless bufferindex < WORD_SIZE. *)
LatchTest ==
    /\ pc1 = "test"
    /\ r1' = bufferindex
    /\ IF bufferindex < WORD_SIZE
       THEN pc1' = "count" /\ UNCHANGED <<c, i1>>
       ELSE pc1' = "shift" /\ c' = WORD_SIZE /\ i1' = WORD_SIZE
    /\ UNCHANGED <<keybuffer, bufferindex, core0, kbword, t1, sent, got>>

(* c = bufferindex, loaded again or not. *)
LatchCount ==
    /\ pc1 = "count"
    /\ \E v \in {r1, bufferindex} : r1' = v /\ c' = v /\ i1' = v
    /\ pc1' = "shift"
    /\ UNCHANGED <<keybuffer, bufferindex, core0, kbword, t1, sent, got>>

(* Every entry from c on moves down c slots. *)
LatchShiftLoad ==
    /\ pc1 = "shift"
    /\ t1' = keybuffer[i1]
    /\ pc1' = "shifted"
    /\ UNCHANGED <<keybuffer, bufferindex, core0, kbword, r1, c, i1,
                   sent, got>>

(* Mutant: only the buffered keys are moved, and no 0x00 after them.       *)
LatchShiftStore_keysonly ==
    /\ pc1 = "shifted"
    /\ keybuffer' = [keybuffer EXCEPT ![i1 - c] = t1]
    /\ i1' = i1 + 1
    /\ pc1' = IF i1 + 1 < r1 THEN "shift" ELSE "reload"
    /\ UNCHANGED <<bufferindex, core0, kbword, r1, c, t1, sent, got>>

LatchShiftStore ==
    /\ pc1 = "shifted"
    /\ keybuffer' = [keybuffer EXCEPT ![i1 - c] = t1]
    /\ i1' = i1 + 1
    /\ pc1' = IF i1 + 1 < MAX_BUFFER THEN "shift" ELSE "reload"
    /\ UNCHANGED <<bufferindex, core0, kbword, r1, c, t1, sent, got>>

LatchReload ==
    /\ pc1 = "reload"
    /\ r1' \in {r1, bufferindex}
    /\ pc1' = "sub"
    /\ UNCHANGED <<keybuffer, bufferindex, core0, kbword, c, i1, t1,
                   sent, got>>

(* The keys a NES program takes from a word: it reads until a 0x00, which   *)
(* means "there is no further keyboard data" (neskbdinter.h:10).           *)
KeyCount(w) == Cardinality({n \in DOMAIN w : \A j \in 1 .. n : w[j] # KEY_NONE})

KeysIn(w) == SubSeq(w, 1, KeyCount(w))

(* Mutant: the buffer is taken to be empty after a strobe.                 *)
LatchEnd_reset ==
    /\ pc1 = "sub"
    /\ bufferindex' = 0
    /\ got' = got \o KeysIn(kbword)
    /\ pc1' = "idle" /\ kbword' = <<>>
    /\ r1' = 0 /\ c' = 0 /\ i1' = 0 /\ t1' = 0
    /\ UNCHANGED <<keybuffer, core0, sent>>

(* bufferindex = bufferindex - c, and the word is out. *)
LatchEnd ==
    /\ pc1 = "sub"
    /\ bufferindex' = (r1 - c) % 256
    /\ got' = got \o KeysIn(kbword)
    /\ pc1' = "idle" /\ kbword' = <<>>
    /\ r1' = 0 /\ c' = 0 /\ i1' = 0 /\ t1' = 0
    /\ UNCHANGED <<keybuffer, core0, sent>>

-----------------------------------------------------------------------------
PutStep ==
    \/ PutShiftLoad \/ PutShiftStore \/ PutReload
    \/ PutFull \/ PutSlot \/ PutIncrement

Core0 == PutBegin \/ PutStep

LatchStep ==
    \/ LatchWord \/ LatchTest \/ LatchCount
    \/ LatchShiftLoad \/ LatchShiftStore \/ LatchReload \/ LatchEnd

Core1 == LatchBegin \/ LatchStep

Next == Core0 \/ Core1

Spec == Init /\ [][Next]_vars

(* Neither core stops inside a handler, and the NES keeps strobing. *)
FairSpec ==
    /\ Spec
    /\ WF_vars(PutStep)
    /\ WF_vars(LatchStep)
    /\ WF_vars(LatchBegin)

-----------------------------------------------------------------------------
TypeOK ==
    /\ keybuffer \in [Slots -> Nat]
    /\ bufferindex \in Slots
    /\ pc0 \in {"idle", "shift", "shifted", "reload_full", "full",
                "reload_slot", "slot", "reload_inc", "inc"}
    /\ ascii \in Nat /\ t0 \in Nat
    /\ r0 \in Slots /\ i0 \in 0 .. MAX_BUFFER
    /\ pc1 \in {"idle", "word", "test", "count", "shift", "shifted",
                "reload", "sub"}
    /\ kbword \in Seq(Nat) /\ t1 \in Nat
    /\ r1 \in Slots /\ c \in Slots /\ i1 \in 0 .. MAX_BUFFER
    /\ sent \in Seq(Nat) /\ got \in Seq(Nat)

(* Under every interleaving of the two cores and every choice of reloads,  *)
(* each index either core is about to use is a slot of keybuffer, the      *)
(* increment leaves bufferindex below MAX_BUFFER and the subtraction does  *)
(* not wrap below zero (keycode_handler and the strobe branch share these  *)
(* bytes with no lock).                                                    *)
IndexInBounds ==
    /\ pc0 \in {"shift", "shifted"} => i0 \in Slots /\ i0 - 1 \in Slots
    /\ pc0 \in {"full", "slot"} => r0 \in Slots
    /\ pc0 = "inc" => r0 + 1 \in Slots
    /\ pc1 = "word" => Len(kbword) \in Slots
    /\ pc1 \in {"shift", "shifted"} => i1 \in Slots /\ i1 - c \in Slots
    /\ pc1 = "sub" => r1 - c \in Slots

(* The strengthening of IndexInBounds that every step preserves.  Core 0   *)
(* alone raises bufferindex and core 1 alone lowers it, so what core 0 has *)
(* loaded is never too small and what core 1 has loaded never too large.   *)
PutLoaded ==
    /\ pc0 # "idle" => bufferindex <= r0
    /\ pc0 \in {"reload_slot", "slot", "reload_inc", "inc"} => r0 + 1 < MAX_BUFFER
    /\ pc0 \in {"shift", "shifted"} => 1 <= i0 /\ i0 < MAX_BUFFER

LatchLoaded ==
    /\ pc1 = "word" => Len(kbword) < WORD_SIZE
    /\ pc1 \in {"count", "shift", "shifted", "reload", "sub"} => r1 <= bufferindex
    /\ pc1 \in {"shift", "shifted", "reload", "sub"} => c <= r1
    /\ pc1 \in {"shift", "shifted"} => c <= i1 /\ i1 < MAX_BUFFER

BoundsInv == TypeOK /\ PutLoaded /\ LatchLoaded

(* When the cores' handlers do not overlap and no key arrives while        *)
(* MAX_BUFFER - WORD_SIZE are pending, the buffer is the FIFO of KeyFifo:  *)
(* no key lost, repeated, reordered or invented.                           *)
Fifo == INSTANCE KeyFifo WITH Keys <- 1 .. MaxKeys
ImplementsFifo == Fifo!Spec

(* Why it is one.  Queued(j) is what slot j holds between handlers: the    *)
(* j-th pending key, then 0x00 to the end.  The zeros matter: the latch    *)
(* copies the last c slots down and leaves them in place as well, which    *)
(* repeats nothing only while those slots are zero.                        *)
Queued(j) == IF j < bufferindex THEN sent[Len(got) + 1 + j] ELSE KEY_NONE

Taken == IF bufferindex < WORD_SIZE THEN bufferindex ELSE WORD_SIZE

(* Slot j, in the middle of a put or of the latch's shift. *)
SlotValue(j) ==
    CASE pc0 \in {"reload_inc", "inc"} /\ j = bufferindex -> ascii
      [] pc1 \in {"shift", "shifted"} /\ j + c < i1 -> Queued(j + c)
      [] pc1 \in {"reload", "sub"} /\ j + c < MAX_BUFFER -> Queued(j + c)
      [] OTHER -> Queued(j)

PutInv ==
    pc0 # "idle" =>
        /\ pc1 = "idle"
        /\ pc0 \in {"reload_slot", "slot", "reload_inc", "inc"}
        /\ r0 = bufferindex /\ bufferindex < PutLimit
        /\ ascii \in 1 .. MaxKeys

LatchInv ==
    /\ pc1 = "idle" => kbword = <<>>
    /\ pc1 \notin {"idle", "word"} => Len(kbword) = WORD_SIZE
    /\ \A k \in DOMAIN kbword : kbword[k] = Queued(k - 1)
    /\ pc1 = "count" => bufferindex < WORD_SIZE
    /\ pc1 \in {"count", "shift", "shifted", "reload", "sub"} => r1 = bufferindex
    /\ pc1 \in {"shift", "shifted", "reload", "sub"} => c = Taken
    /\ pc1 = "shifted" => t1 = Queued(i1)

FifoInv ==
    /\ BoundsInv
    /\ Len(got) + bufferindex = Len(sent)
    /\ bufferindex + WORD_SIZE <= MAX_BUFFER
    /\ \A k \in DOMAIN sent : sent[k] \in 1 .. MaxKeys
    /\ PutInv
    /\ LatchInv
    /\ \A j \in Slots : keybuffer[j] = SlotValue(j)

(* As long as the NES strobes, every key put is delivered. *)
EveryKeyDelivered ==
    \A k \in 1 .. MaxKeys : (Len(sent) >= k) ~> (\E i \in DOMAIN got : got[i] = k)
=============================================================================
