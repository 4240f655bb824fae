------------------------------ MODULE KeyFifo ------------------------------
(***************************************************************************)
(* What the keyboard/mouse host mode promises a NES program about keys:    *)
(* every scancode handed to keycode_handler reaches the NES once, in       *)
(* order, up to WORD_SIZE of them per strobe.  No buffer, no index and no  *)
(* core appears here; KeyBuffer implements this when its two handlers do   *)
(* not overlap and keys do not outrun the strobes.                         *)
(***************************************************************************)
EXTENDS Integers, Sequences

CONSTANTS
    WORD_SIZE,          \* keys carried by one serial word
    Keys                \* scancodes

VARIABLES
    sent,               \* scancodes handed to keycode_handler, oldest first
    got                 \* scancodes the NES has been given, oldest first

vars == <<sent, got>>

Pending == Len(sent) - Len(got)

Init == sent = <<>> /\ got = <<>>

(* keycode_handler accepts one more scancode. *)
Put == \E k \in Keys : sent' = Append(sent, k) /\ got' = got

(* A strobe hands over the oldest pending scancodes, at most a word. *)
Latch ==
    LET n == IF Pending < WORD_SIZE THEN Pending ELSE WORD_SIZE
    IN  /\ got' = got \o SubSeq(sent, Len(got) + 1, Len(got) + n)
        /\ sent' = sent

Next == Put \/ Latch

Spec == Init /\ [][Next]_vars
=============================================================================
