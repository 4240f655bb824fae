---------------------------- MODULE MouseReport ----------------------------
(***************************************************************************)
(* The mouse: core 0 adds each report to msebuffer (process_mouse_report   *)
(* for USB, i2c_slave_handler for the I2C host), core 1 shows msebuffer to *)
(* the NES at a strobe and then calls update_mouse_data.  The two share    *)
(* msebuffer, the latest report and new_input_msg without a lock, so each  *)
(* load and each store of them is a step.  One axis is modelled, y being   *)
(* treated as x, and the button bits of msebuffer[0]; msebuffer[3] is      *)
(* merged and copied as msebuffer[0] is.                                   *)
(***************************************************************************)
EXTENDS Integers

CONSTANTS
    Modes,          \* values of usb2kbmode: 0 host, 2 subor, 3 Hori Track
    I2CHosts,       \* values of i2chostmode
    Buttons,        \* buttons of the mouse
    Moves,          \* motions a report can carry, within -128 .. 127
    MaxReports,     \* bound on the number of reports
    Overlap,        \* TRUE: the two cores' handlers interleave freely
    MountModes      \* modes in which devices are mounted and unmounted (USB)

ASSUME MouseAssumption ==
    /\ Modes \subseteq {0, 2, 3} /\ I2CHosts \subseteq BOOLEAN
    /\ Moves \subseteq -128 .. 127 /\ MaxReports \in Nat
    /\ Overlap \in BOOLEAN /\ MountModes \subseteq Modes

VARIABLES
    usb2kbmode, i2chostmode,
    msebtn, msex,           \* msebuffer[0], msebuffer[1]
    instbtn, instx,         \* mseinstbuf[0], [1]; with I2C mem[2], mem[3]
    new_input_msg,
    pc0, report, b0, x0,    \* core 0: where it is, its report, bytes loaded
    pc1, enable, mousex,    \* core 1: where it is, OUT2, motion to show
    b1, x1,                 \*   bytes loaded
    sbmouseindex, sbmouselength,    \* Subor packet being read
    reports,                        \* reports taken so far
    devbtn, clicked, moved,         \* history: buttons as last reported,
                                    \*   pressed since shown, motion reported
    shownbtn, shown, clamped        \* history: buttons and motion shown (the
                                    \*   sum; host mode: the last), motion
                                    \*   cut off to fit a packet

config  == <<usb2kbmode, i2chostmode>>
inst    == <<instbtn, instx>>
mse     == <<msebtn, msex>>
put     == <<pc0, report, b0, x0, reports>>
given   == <<devbtn, moved>>
latch   == <<pc1, enable, mousex, b1, x1>>
packet  == <<sbmouseindex, sbmouselength>>
seen    == <<shownbtn, shown, clamped>>
core0   == <<put, given>>
core1   == <<latch, packet, seen>>
vars    == <<config, mse, inst, new_input_msg, clicked, core0, core1>>

Int16(n) == ((n + 32768) % 65536) - 32768
Int8(n)  == ((n + 128) % 256) - 128
Clamp(n, lo, hi) == IF n < lo THEN lo ELSE IF n > hi THEN hi ELSE n

Init ==
    /\ usb2kbmode \in Modes /\ i2chostmode \in I2CHosts
    /\ msebtn = {} /\ msex = 0 /\ instbtn = {} /\ instx = 0
    /\ new_input_msg = FALSE
    /\ pc0 = "idle" /\ report = [btn |-> {}, x |-> 0] /\ b0 = {} /\ x0 = 0
    /\ pc1 = "idle" /\ enable = FALSE /\ mousex = 0 /\ b1 = {} /\ x1 = 0
    /\ sbmouseindex = 0 /\ sbmouselength = 0
    /\ reports = 0 /\ devbtn = {} /\ clicked = {} /\ moved = 0
    /\ shownbtn = {} /\ shown = 0 /\ clamped = 0

-----------------------------------------------------------------------------
(* Core 0. *)

(* Where core 0 runs no handler: idle, or between two bytes of a message.  *)
Waiting == pc0 \in {"idle", "byte"}
HandlerMayStart == Waiting /\ (Overlap \/ pc1 = "idle")

(* USB: a report arrives; its buttons go to mseinstbuf.  I2C: the bytes of *)
(* a message arrive, the buttons (mem[2]) first.                           *)
ReportBegin(r) ==
    /\ pc0 = "idle" /\ HandlerMayStart
    /\ reports < MaxReports /\ reports' = reports + 1
    /\ report' = r
    /\ instbtn' = r.btn
    /\ pc0' = IF i2chostmode THEN "byte" ELSE "or_load"
    /\ UNCHANGED <<config, mse, instx, new_input_msg, b0, x0, clicked, given, core1>>

(* I2C: the motion byte (mem[3]), and later the stop condition. *)
ReceiveMotion ==
    /\ pc0 = "byte" /\ HandlerMayStart
    /\ instx' = report.x
    /\ pc0' = "or_load"
    /\ UNCHANGED <<config, mse, instbtn, new_input_msg, report, b0, x0, reports,
                   clicked, given, core1>>

(* msebuffer[0] |= the report's buttons. *)
OrLoad ==
    /\ pc0 = "or_load"
    /\ b0' = msebtn
    /\ pc0' = "or_store"
    /\ UNCHANGED <<config, mse, inst, new_input_msg, report, x0, reports,
                   clicked, given, core1>>

(* Mutant: the report's buttons replace those gathered.                    *)
OrStore_replace ==
    /\ pc0 = "or_store"
    /\ msebtn' = report.btn
    /\ pc0' = "test"
    /\ UNCHANGED <<config, msex, inst, new_input_msg, report, b0, x0, reports,
                   clicked, given, core1>>

OrStore ==
    /\ pc0 = "or_store"
    /\ msebtn' = b0 \cup report.btn
    /\ pc0' = "test"
    /\ UNCHANGED <<config, msex, inst, new_input_msg, report, b0, x0, reports,
                   clicked, given, core1>>

(* Mutant: each motion replaces the one before.                            *)
TestNew_set ==
    /\ pc0 = "test"
    /\ pc0' = "set"
    /\ UNCHANGED <<config, mse, inst, new_input_msg, report, b0, x0, reports,
                   clicked, given, core1>>

(* A relative motion is added while the last one has not been shown. *)
TestNew ==
    /\ pc0 = "test"
    /\ pc0' = IF new_input_msg THEN "add_load" ELSE "set"
    /\ UNCHANGED <<config, mse, inst, new_input_msg, report, b0, x0, reports,
                   clicked, given, core1>>

AddLoad ==
    /\ pc0 = "add_load"
    /\ x0' = msex
    /\ pc0' = "add_store"
    /\ UNCHANGED <<config, mse, inst, new_input_msg, report, b0, reports,
                   clicked, given, core1>>

(* The sum, or the motion alone, goes to msebuffer[1]; USB keeps the motion *)
(* in mseinstbuf[1] too.                                                   *)
StoreMotion ==
    /\ \/ pc0 = "add_store" /\ msex' = Int16(x0 + report.x)
       \/ pc0 = "set" /\ msex' = report.x
    /\ pc0' = IF i2chostmode THEN "flag" ELSE "inst"
    /\ UNCHANGED <<config, msebtn, inst, new_input_msg, report, b0, x0, reports,
                   clicked, given, core1>>

StoreInst ==
    /\ pc0 = "inst"
    /\ instx' = report.x
    /\ pc0' = "flag"
    /\ UNCHANGED <<config, mse, instbtn, new_input_msg, report, b0, x0, reports,
                   clicked, given, core1>>

SetNew ==
    /\ pc0 = "flag"
    /\ new_input_msg' = TRUE
    /\ devbtn' = report.btn
    /\ clicked' = clicked \cup report.btn
    /\ moved' = moved + report.x
    /\ pc0' = "idle" /\ b0' = {} /\ x0' = 0 /\ report' = [btn |-> {}, x |-> 0]
    /\ UNCHANGED <<config, mse, inst, reports, core1>>

(* tuh_hid_mount_cb and tuh_hid_umount_cb change the presence bit, which   *)
(* is not modelled, and set new_input_msg.                                 *)
MountChange ==
    /\ usb2kbmode \in MountModes /\ ~i2chostmode
    /\ pc0 = "idle" /\ HandlerMayStart
    /\ new_input_msg' = TRUE
    /\ UNCHANGED <<config, mse, inst, clicked, core0, core1>>

-----------------------------------------------------------------------------
(* Core 1: the strobe branch of nes_handler_thread. *)

LatchBegin ==
    /\ pc1 = "idle" /\ (Overlap \/ Waiting)
    /\ enable' \in BOOLEAN
    /\ pc1' = IF usb2kbmode = 0 THEN "word" ELSE "test"
    /\ UNCHANGED <<config, mse, inst, new_input_msg, clicked, core0,
                   mousex, b1, x1, packet, seen>>

(* Matrix modes: with nothing new the motion shown is 0. *)
LatchTest ==
    /\ pc1 = "test"
    /\ mousex' = 0
    /\ pc1' = IF new_input_msg THEN "motion" ELSE "packet"
    /\ UNCHANGED <<config, mse, inst, new_input_msg, clicked, core0, enable,
                   b1, x1, packet, seen>>

(* Mutant: the sum is not clamped.                                         *)
LatchMotion_unclamped ==
    /\ pc1 = "motion"
    /\ mousex' = msex /\ x1' = msex
    /\ pc1' = "packet"
    /\ UNCHANGED <<config, mse, inst, new_input_msg, clicked, core0, enable,
                   b1, packet, seen>>

LatchMotion ==
    /\ pc1 = "motion"
    /\ mousex' = Clamp(msex, -128, 127)
    /\ x1' = msex
    /\ pc1' = "packet"
    /\ UNCHANGED <<config, mse, inst, new_input_msg, clicked, core0, enable,
                   b1, packet, seen>>

Show(btn, x) ==
    /\ shownbtn' = btn /\ clicked' = {}
    /\ shown' = shown + x

(* Subor: a new packet of one or three bytes once the last one is read,    *)
(* unless the keyboard is enabled.                                         *)
LatchSubor ==
    /\ pc1 = "packet" /\ usb2kbmode = 2
    /\ LET index == IF sbmouseindex < sbmouselength THEN sbmouseindex + 1 ELSE sbmouseindex
           x == Clamp(mousex, -32, 31)
       IN  \/ /\ index # sbmouselength
              /\ sbmouseindex' = index
              /\ pc1' = "idle"
              /\ UNCHANGED <<sbmouselength, clicked, seen>>
           \/ /\ index = sbmouselength /\ enable
              /\ sbmouseindex' = 0 /\ sbmouselength' = 0
              /\ pc1' = "idle"
              /\ UNCHANGED <<clicked, seen>>
           \/ /\ index = sbmouselength /\ ~enable
              /\ sbmouseindex' = 0
              /\ sbmouselength' = IF mousex \in -1 .. 1 THEN 1 ELSE 3
              /\ Show(msebtn, x) /\ clamped' = clamped + (x1 - x)
              /\ pc1' = "update"
    /\ mousex' = 0 /\ x1' = 0
    /\ UNCHANGED <<config, mse, inst, new_input_msg, core0, enable, b1>>

(* Hori Track: four bits of motion in every packet. *)
LatchHoriTrack ==
    /\ pc1 = "packet" /\ usb2kbmode = 3
    /\ LET x == Clamp(mousex, -8, 7)
       IN  Show(msebtn, x) /\ clamped' = clamped + (x1 - x)
    /\ pc1' = "update" /\ mousex' = 0 /\ x1' = 0
    /\ UNCHANGED <<config, mse, inst, new_input_msg, core0, enable, b1, packet>>

(* Host mode: mseword takes the low byte of msebuffer[0], then of [1].     *)
LatchWordButtons ==
    /\ pc1 = "word"
    /\ b1' = msebtn
    /\ pc1' = "wordx"
    /\ UNCHANGED <<config, mse, inst, new_input_msg, clicked, core0, enable,
                   mousex, x1, packet, seen>>

LatchWordMotion ==
    /\ pc1 = "wordx"
    /\ shownbtn' = b1 /\ clicked' = {}
    /\ shown' = Int8(msex) /\ UNCHANGED clamped
    /\ pc1' = "update" /\ b1' = {}
    /\ UNCHANGED <<config, mse, inst, new_input_msg, core0, enable, mousex, x1, packet>>

(* Mutant: update_mouse_data finds nothing new.                            *)
UpdateTest_never ==
    /\ pc1 = "update"
    /\ pc1' = "idle"
    /\ UNCHANGED <<config, mse, inst, new_input_msg, clicked, core0, enable,
                   mousex, b1, x1, packet, seen>>

(* update_mouse_data: take the latest report's buttons, for USB also its   *)
(* motion, and clear new_input_msg.                                        *)
UpdateTest ==
    /\ pc1 = "update"
    /\ pc1' = IF new_input_msg THEN "upd_btn" ELSE "idle"
    /\ UNCHANGED <<config, mse, inst, new_input_msg, clicked, core0, enable,
                   mousex, b1, x1, packet, seen>>

UpdateButtonsLoad ==
    /\ pc1 = "upd_btn"
    /\ b1' = instbtn
    /\ pc1' = "upd_btn_store"
    /\ UNCHANGED <<config, mse, inst, new_input_msg, clicked, core0, enable,
                   mousex, x1, packet, seen>>

(* Mutant: the buttons gathered stay.                                      *)
UpdateButtonsStore_keep ==
    /\ pc1 = "upd_btn_store"
    /\ b1' = {}
    /\ pc1' = IF i2chostmode THEN "upd_flag" ELSE "upd_x"
    /\ UNCHANGED <<config, mse, inst, new_input_msg, clicked, core0, enable,
                   mousex, x1, packet, seen>>

UpdateButtonsStore ==
    /\ pc1 = "upd_btn_store"
    /\ msebtn' = b1 /\ b1' = {}
    /\ pc1' = IF i2chostmode THEN "upd_flag" ELSE "upd_x"
    /\ UNCHANGED <<config, msex, inst, new_input_msg, clicked, core0, enable,
                   mousex, x1, packet, seen>>

UpdateMotionLoad ==
    /\ pc1 = "upd_x"
    /\ x1' = instx
    /\ pc1' = "upd_x_store"
    /\ UNCHANGED <<config, mse, inst, new_input_msg, clicked, core0, enable,
                   mousex, b1, packet, seen>>

UpdateMotionStore ==
    /\ pc1 = "upd_x_store"
    /\ msex' = x1 /\ x1' = 0
    /\ pc1' = "upd_flag"
    /\ UNCHANGED <<config, msebtn, inst, new_input_msg, clicked, core0, enable,
                   mousex, b1, packet, seen>>

ClearNew ==
    /\ pc1 = "upd_flag"
    /\ new_input_msg' = FALSE
    /\ pc1' = "idle"
    /\ UNCHANGED <<config, mse, inst, clicked, core0, enable, mousex, b1, x1,
                   packet, seen>>

-----------------------------------------------------------------------------
PutStep ==
    \/ OrLoad \/ OrStore \/ TestNew \/ AddLoad \/ StoreMotion \/ StoreInst \/ SetNew

Reports == [btn : SUBSET Buttons, x : Moves]

Core0 ==
    \/ \E r \in Reports : ReportBegin(r)
    \/ ReceiveMotion \/ PutStep \/ MountChange

LatchStep ==
    \/ LatchTest \/ LatchMotion \/ LatchSubor \/ LatchHoriTrack
    \/ LatchWordButtons \/ LatchWordMotion
    \/ UpdateTest \/ UpdateButtonsLoad \/ UpdateButtonsStore
    \/ UpdateMotionLoad \/ UpdateMotionStore \/ ClearNew

Core1 == LatchBegin \/ LatchStep

Next == Core0 \/ Core1

Spec == Init /\ [][Next]_vars

(* Handlers run to their end, a begun message is finished, and the NES     *)
(* keeps strobing, with the Subor keyboard off infinitely often.           *)
FairSpec ==
    /\ Spec
    /\ WF_vars(PutStep) /\ SF_vars(ReceiveMotion)
    /\ WF_vars(LatchStep) /\ SF_vars(LatchBegin /\ ~enable')

-----------------------------------------------------------------------------
Fits16(n) == n \in Int /\ -32768 <= n /\ n <= 32767

(* The variables keep their types: the sum keeps sixteen bits, what is      *)
(* shown eight.                                                             *)
TypeOK ==
    /\ usb2kbmode \in Modes /\ i2chostmode \in I2CHosts
    /\ msebtn \subseteq Buttons /\ instbtn \subseteq Buttons
    /\ Fits16(msex) /\ instx \in -128 .. 127
    /\ new_input_msg \in BOOLEAN
    /\ pc0 \in {"idle", "byte", "or_load", "or_store", "test", "add_load",
                "add_store", "set", "inst", "flag"}
    /\ b0 \subseteq Buttons /\ Fits16(x0)
    /\ pc1 \in {"idle", "test", "motion", "packet", "word", "wordx", "update",
                "upd_btn", "upd_btn_store", "upd_x", "upd_x_store", "upd_flag"}
    /\ enable \in BOOLEAN /\ mousex \in -128 .. 127
    /\ b1 \subseteq Buttons /\ Fits16(x1)
    /\ sbmouselength \in {0, 1, 3} /\ sbmouseindex \in 0 .. 2

Quiet == pc0 = "idle" /\ pc1 = "idle"

(* Subor and Hori Track: every motion reported is shown once, still to be  *)
(* shown, or was cut off to fit a packet.  "If multiple updates come       *)
(* inbetween a frame, we want to put them together"                        *)
(* (pico-usb2famikb.c:172-173).                                            *)
MotionConserved ==
    usb2kbmode # 0 /\ Quiet => shown + clamped + (IF new_input_msg THEN msex ELSE 0) = moved

(* Once a strobe has taken the latest report, the buttons that the next    *)
(* strobe will show are the buttons of that report: none stays pressed,    *)
(* none is forgotten (update_mouse_data, pico-usb2famikb.c:311-314).       *)
ButtonsSettled == Quiet /\ ~new_input_msg => msebtn = devbtn

(* A click shorter than a frame is still shown: whatever was pressed in a  *)
(* report since the last strobe is shown by this one ("it will stay        *)
(* "pressed" until the NES polls it", pico-usb2famikb.c:313-314).          *)
ClicksShown ==
    [][pc1 # "update" /\ pc1' = "update" => clicked \subseteq shownbtn']_vars

(* The buttons shown become the buttons reported unless they change again. *)
ButtonsShownEventually ==
    \A b \in SUBSET Buttons : (devbtn = b) ~> (shownbtn = b \/ devbtn # b)
=============================================================================
