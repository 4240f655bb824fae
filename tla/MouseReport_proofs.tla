-------------------------- MODULE MouseReport_proofs --------------------------
(* What the mouse never loses while the handlers of the two cores take      *)
(* turns (Overlap = FALSE), for every set of buttons and motions: clicks,   *)
(* the buttons of the last report, and, if all the reports fit the 16-bit   *)
(* sum, motion.                                                             *)
EXTENDS MouseReport, TLAPS

Bytes == -128 .. 127

MouseType == /\ TypeOK
             /\ report \in [btn : SUBSET Buttons, x : Bytes]
             /\ reports \in 0 .. MaxReports
             /\ shown \in Int /\ clamped \in Int /\ moved \in Int
             /\ devbtn \subseteq Buttons /\ clicked \subseteq Buttons

(* The handler of core 1 runs only while core 0 runs none.                  *)
Turns == pc1 # "idle" => Waiting

Updating == {"update", "upd_btn", "upd_btn_store", "upd_x", "upd_x_store", "upd_flag"}

(* The strengthening of ButtonsSettled: mseinstbuf holds the report that    *)
(* comes or came last, and the strobe's update copies it.                   *)
ButtonsInv == /\ instbtn = IF pc0 = "idle" THEN devbtn ELSE report.btn
              /\ pc1 = "upd_btn_store" => b1 = instbtn
              /\ pc1 \in {"upd_x", "upd_x_store", "upd_flag"} => msebtn = instbtn
              /\ pc0 = "idle" /\ ~new_input_msg => msebtn = devbtn

(* The strengthening of ClicksShown: nothing pressed leaves msebuffer[0]    *)
(* before it has been shown.                                                *)
ClicksInv == /\ clicked \subseteq msebtn
             /\ pc0 = "or_store" => b0 = msebtn
             /\ pc0 \in {"test", "add_load", "add_store", "set", "inst", "flag"} => report.btn \subseteq msebtn
             /\ pc1 = "wordx" => b1 = msebtn
             /\ pc1 \in Updating => clicked = {}

(* The sum stays within 128 for each report taken, so that it never wraps.  *)
Gathering == {"byte", "or_load", "or_store", "test", "add_load", "add_store", "set"}
Within(n, k) == -128 * k <= n /\ n <= 128 * k
RangeInv == /\ pc0 # "idle" => reports > 0
            /\ Within(msex, IF pc0 \in Gathering THEN reports - 1 ELSE reports)
            /\ Within(instx, IF pc0 = "byte" THEN reports - 1 ELSE reports)
            /\ pc0 = "add_store" => x0 = msex
            /\ pc1 = "upd_x_store" => x1 = instx

(* When there is motion to be shown, and what core 1 holds of it.           *)
FlagsInv == /\ pc0 = "set" => ~new_input_msg
            /\ pc0 \in {"add_load", "add_store"} => new_input_msg
            /\ pc1 \in {"motion", "upd_btn", "upd_btn_store", "upd_x", "upd_x_store", "upd_flag"} => new_input_msg
            /\ pc1 = "packet" => x1 = IF new_input_msg THEN msex ELSE 0
            /\ pc1 \notin {"packet", "upd_x_store"} => x1 = 0
            /\ usb2kbmode # 0 => pc1 \notin {"word", "wordx"}

(* The strengthening of MotionConserved, at every step of either core.      *)
Pending == IF pc0 \in {"inst", "flag"} THEN msex - report.x
           ELSE IF pc1 \in Updating \/ ~new_input_msg THEN 0 ELSE msex
SumInv == usb2kbmode # 0 => shown + clamped + Pending = moved

-----------------------------------------------------------------------------
(* Two's complement of sixteen and of eight bits.                           *)
LEMMA Int16Fits == ASSUME NEW n \in Int PROVE Fits16(Int16(n)) /\ (Fits16(n) => Int16(n) = n)
<1>1. ASSUME NEW k \in Int PROVE k % 65536 \in Int /\ 0 <= k % 65536 /\ k % 65536 < 65536
  OBVIOUS
<1>2. Fits16(Int16(n))
  <2> DEFINE m == (n + 32768) % 65536
  <2>1. m \in Int /\ 0 <= m /\ m < 65536
    <3>1. n + 32768 \in Int
      OBVIOUS
    <3> QED BY <1>1, <3>1
  <2>3. Int16(n) = m - 32768
    BY DEF Int16
  <2> HIDE DEF m
  <2> QED BY <2>1, <2>3 DEF Fits16
<1>3. ASSUME Fits16(n) PROVE Int16(n) = n
  <2>1. 0 <= n + 32768 /\ n + 32768 < 65536
    BY <1>3 DEF Fits16
  <2>2. (n + 32768) % 65536 = n + 32768
    BY <2>1
  <2> QED BY <2>2 DEF Int16
<1> QED BY <1>2, <1>3

(* The motion of host mode is the low byte of the sum.                      *)
LEMMA Int8Fits == ASSUME NEW n \in Int PROVE Int8(n) \in Bytes
BY DEF Int8, Bytes

(* A clamped sum fits a byte.                                               *)
LEMMA ClampFits == ASSUME NEW n \in Int PROVE Clamp(n, -128, 127) \in Bytes
BY DEF Clamp, Bytes

(* The strobe's update is over.                                             *)
LEMMA Cleared == ASSUME ClearNew PROVE ~new_input_msg' /\ new_input_msg' \in BOOLEAN /\ pc1' = "idle"
BY DEF ClearNew

-----------------------------------------------------------------------------
(* Every step keeps the types, whether handlers overlap or not.             *)
LEMMA TypeStep == ASSUME MouseType, [Next]_vars
                  PROVE  MouseType'
<1> USE DEF config, inst, mse, put, given, latch, packet, seen, core0, core1, Waiting, HandlerMayStart
<1> USE DEF MouseType, TypeOK, Bytes, Fits16, Show
<1>1. ASSUME NEW r \in Reports, ReportBegin(r) PROVE MouseType'
  <2>1. r.btn \subseteq Buttons /\ r \in [btn : SUBSET Buttons, x : Bytes]
    <3>1. r.btn \in SUBSET Buttons /\ r.x \in Moves /\ r = [btn |-> r.btn, x |-> r.x]
      BY DEF Reports
    <3>2. Moves \subseteq Bytes
      BY MouseAssumption
    <3> QED BY <3>1, <3>2
  <2>2. reports' \in 0 .. MaxReports
    BY <1>1, MouseAssumption DEF ReportBegin
  <2>3. pc0' \in {"byte", "or_load"}
    BY <1>1 DEF ReportBegin
  <2> QED BY <1>1, <2>1, <2>2, <2>3 DEF ReportBegin
<1>2. CASE ReceiveMotion
  BY <1>2 DEF ReceiveMotion
<1>3. CASE OrLoad
  BY <1>3 DEF OrLoad
<1>4. CASE OrStore
  BY <1>4 DEF OrStore
<1>5. CASE TestNew
  BY <1>5 DEF TestNew
<1>6. CASE AddLoad
  BY <1>6 DEF AddLoad
<1>7. CASE StoreMotion
  BY <1>7, Int16Fits DEF StoreMotion
<1>8. CASE StoreInst
  BY <1>8 DEF StoreInst
<1>9. CASE SetNew
  BY <1>9 DEF SetNew
<1>10. CASE MountChange
  BY <1>10 DEF MountChange
<1>11. CASE LatchBegin
  BY <1>11 DEF LatchBegin
<1>12. CASE LatchTest
  BY <1>12 DEF LatchTest
<1>13. CASE LatchMotion
  BY <1>13, ClampFits DEF LatchMotion
<1>14. CASE LatchSubor
  <2>1. sbmouselength' \in {0, 1, 3} /\ sbmouseindex' \in 0 .. 2
    BY <1>14 DEF LatchSubor
  <2>2. shown' \in Int /\ clamped' \in Int
    BY <1>14 DEF LatchSubor, Clamp
  <2>3. /\ UNCHANGED <<config, mse, inst, new_input_msg, core0, enable, b1>>
        /\ pc1' \in {"idle", "update"} /\ mousex' = 0 /\ x1' = 0
        /\ clicked' = {} \/ clicked' = clicked
    BY <1>14 DEF LatchSubor
  <2> QED BY <2>1, <2>2, <2>3
<1>15. CASE LatchHoriTrack
  BY <1>15 DEF LatchHoriTrack
<1>16. CASE LatchWordButtons
  BY <1>16 DEF LatchWordButtons
<1>17. CASE LatchWordMotion
  BY <1>17, Int8Fits DEF LatchWordMotion
<1>18. CASE UpdateTest
  BY <1>18 DEF UpdateTest
<1>19. CASE UpdateButtonsLoad
  BY <1>19 DEF UpdateButtonsLoad
<1>20. CASE UpdateButtonsStore
  BY <1>20 DEF UpdateButtonsStore
<1>21. CASE UpdateMotionLoad
  BY <1>21 DEF UpdateMotionLoad
<1>22. CASE UpdateMotionStore
  BY <1>22 DEF UpdateMotionStore
<1>23. CASE ClearNew
  <2>1. new_input_msg' \in BOOLEAN /\ pc1' = "idle"
    BY <1>23, Cleared
  <2>2. /\ UNCHANGED <<usb2kbmode, i2chostmode, msebtn, msex, instbtn, instx, pc0, report, b0, x0>>
        /\ UNCHANGED <<reports, devbtn, clicked, moved, enable, mousex, b1, x1>>
        /\ UNCHANGED <<sbmouseindex, sbmouselength, shownbtn, shown, clamped>>
    BY <1>23 DEF ClearNew
  <2> QED BY <2>1, <2>2
<1>24. CASE UNCHANGED vars
  BY <1>24 DEF vars
<1> QED BY <1>1, <1>2, <1>3, <1>4, <1>5, <1>6, <1>7, <1>8, <1>9, <1>10, <1>11, <1>12, <1>13, <1>14, <1>15, <1>16, <1>17, <1>18, <1>19, <1>20, <1>21, <1>22, <1>23, <1>24 DEF Next, Core0, Core1, PutStep, LatchStep

(* Neither core begins a handler while the other runs one.                  *)
LEMMA TurnStep == ASSUME ~Overlap, MouseType, Turns, [Next]_vars
                  PROVE  Turns'
<1> USE DEF config, inst, mse, put, given, latch, packet, seen, core0, core1, Waiting, HandlerMayStart
<1> USE DEF Turns
<1>1. ASSUME NEW r \in Reports, ReportBegin(r) PROVE Turns'
  BY <1>1 DEF ReportBegin, Reports
<1>2. CASE ReceiveMotion
  BY <1>2 DEF ReceiveMotion
<1>3. CASE OrLoad
  BY <1>3 DEF OrLoad
<1>4. CASE OrStore
  BY <1>4 DEF OrStore
<1>5. CASE TestNew
  BY <1>5 DEF TestNew
<1>6. CASE AddLoad
  BY <1>6 DEF AddLoad
<1>7. CASE StoreMotion
  BY <1>7 DEF StoreMotion
<1>8. CASE StoreInst
  BY <1>8 DEF StoreInst
<1>9. CASE SetNew
  BY <1>9 DEF SetNew
<1>10. CASE MountChange
  BY <1>10 DEF MountChange
<1>11. CASE LatchBegin
  BY <1>11 DEF LatchBegin
<1>12. CASE LatchTest
  BY <1>12 DEF LatchTest
<1>13. CASE LatchMotion
  BY <1>13 DEF LatchMotion
<1>14. CASE LatchSubor
  BY <1>14 DEF LatchSubor
<1>15. CASE LatchHoriTrack
  BY <1>15 DEF LatchHoriTrack
<1>16. CASE LatchWordButtons
  BY <1>16 DEF LatchWordButtons
<1>17. CASE LatchWordMotion
  BY <1>17 DEF LatchWordMotion
<1>18. CASE UpdateTest
  BY <1>18 DEF UpdateTest
<1>19. CASE UpdateButtonsLoad
  BY <1>19 DEF UpdateButtonsLoad
<1>20. CASE UpdateButtonsStore
  BY <1>20 DEF UpdateButtonsStore
<1>21. CASE UpdateMotionLoad
  BY <1>21 DEF UpdateMotionLoad
<1>22. CASE UpdateMotionStore
  BY <1>22 DEF UpdateMotionStore
<1>23. CASE ClearNew
  BY <1>23 DEF ClearNew
<1>24. CASE UNCHANGED vars
  BY <1>24 DEF vars
<1> QED BY <1>1, <1>2, <1>3, <1>4, <1>5, <1>6, <1>7, <1>8, <1>9, <1>10, <1>11, <1>12, <1>13, <1>14, <1>15, <1>16, <1>17, <1>18, <1>19, <1>20, <1>21, <1>22, <1>23, <1>24 DEF Next, Core0, Core1, PutStep, LatchStep

(* The buttons of the last report are kept for the strobe that comes.       *)
LEMMA ButtonsStep == ASSUME ~Overlap, MouseType, Turns, ButtonsInv, [Next]_vars
                     PROVE  ButtonsInv'
<1> USE DEF config, inst, mse, put, given, latch, packet, seen, core0, core1, Waiting, HandlerMayStart
<1> USE DEF Turns, ButtonsInv, MouseType, TypeOK, Show
<1>1. ASSUME NEW r \in Reports, ReportBegin(r) PROVE ButtonsInv'
  BY <1>1 DEF ReportBegin, Reports
<1>2. CASE ReceiveMotion
  BY <1>2 DEF ReceiveMotion
<1>3. CASE OrLoad
  BY <1>3 DEF OrLoad
<1>4. CASE OrStore
  BY <1>4 DEF OrStore
<1>5. CASE TestNew
  BY <1>5 DEF TestNew
<1>6. CASE AddLoad
  BY <1>6 DEF AddLoad
<1>7. CASE StoreMotion
  BY <1>7 DEF StoreMotion
<1>8. CASE StoreInst
  BY <1>8 DEF StoreInst
<1>9. CASE SetNew
  BY <1>9 DEF SetNew
<1>10. CASE MountChange
  BY <1>10 DEF MountChange
<1>11. CASE LatchBegin
  BY <1>11 DEF LatchBegin
<1>12. CASE LatchTest
  BY <1>12 DEF LatchTest
<1>13. CASE LatchMotion
  BY <1>13 DEF LatchMotion
<1>14. CASE LatchSubor
  BY <1>14 DEF LatchSubor
<1>15. CASE LatchHoriTrack
  BY <1>15 DEF LatchHoriTrack
<1>16. CASE LatchWordButtons
  BY <1>16 DEF LatchWordButtons
<1>17. CASE LatchWordMotion
  BY <1>17 DEF LatchWordMotion
<1>18. CASE UpdateTest
  BY <1>18 DEF UpdateTest
<1>19. CASE UpdateButtonsLoad
  BY <1>19 DEF UpdateButtonsLoad
<1>20. CASE UpdateButtonsStore
  BY <1>20 DEF UpdateButtonsStore
<1>21. CASE UpdateMotionLoad
  BY <1>21 DEF UpdateMotionLoad
<1>22. CASE UpdateMotionStore
  BY <1>22 DEF UpdateMotionStore
<1>23. CASE ClearNew
  BY <1>23 DEF ClearNew
<1>24. CASE UNCHANGED vars
  BY <1>24 DEF vars
<1> QED BY <1>1, <1>2, <1>3, <1>4, <1>5, <1>6, <1>7, <1>8, <1>9, <1>10, <1>11, <1>12, <1>13, <1>14, <1>15, <1>16, <1>17, <1>18, <1>19, <1>20, <1>21, <1>22, <1>23, <1>24 DEF Next, Core0, Core1, PutStep, LatchStep

(* A click is kept until it is shown.                                       *)
LEMMA ClicksStep == ASSUME ~Overlap, MouseType, Turns, ClicksInv, [Next]_vars
                    PROVE  ClicksInv'
<1> USE DEF config, inst, mse, put, given, latch, packet, seen, core0, core1, Waiting, HandlerMayStart
<1> USE DEF Turns, ClicksInv, Updating, MouseType, TypeOK, Show
<1>1. ASSUME NEW r \in Reports, ReportBegin(r) PROVE ClicksInv'
  BY <1>1 DEF ReportBegin, Reports
<1>2. CASE ReceiveMotion
  BY <1>2 DEF ReceiveMotion
<1>3. CASE OrLoad
  BY <1>3 DEF OrLoad
<1>4. CASE OrStore
  BY <1>4 DEF OrStore
<1>5. CASE TestNew
  BY <1>5 DEF TestNew
<1>6. CASE AddLoad
  BY <1>6 DEF AddLoad
<1>7. CASE StoreMotion
  BY <1>7 DEF StoreMotion
<1>8. CASE StoreInst
  BY <1>8 DEF StoreInst
<1>9. CASE SetNew
  BY <1>9 DEF SetNew
<1>10. CASE MountChange
  BY <1>10 DEF MountChange
<1>11. CASE LatchBegin
  BY <1>11 DEF LatchBegin
<1>12. CASE LatchTest
  BY <1>12 DEF LatchTest
<1>13. CASE LatchMotion
  BY <1>13 DEF LatchMotion
<1>14. CASE LatchSubor
  BY <1>14 DEF LatchSubor
<1>15. CASE LatchHoriTrack
  BY <1>15 DEF LatchHoriTrack
<1>16. CASE LatchWordButtons
  BY <1>16 DEF LatchWordButtons
<1>17. CASE LatchWordMotion
  BY <1>17 DEF LatchWordMotion
<1>18. CASE UpdateTest
  BY <1>18 DEF UpdateTest
<1>19. CASE UpdateButtonsLoad
  BY <1>19 DEF UpdateButtonsLoad
<1>20. CASE UpdateButtonsStore
  BY <1>20 DEF UpdateButtonsStore
<1>21. CASE UpdateMotionLoad
  BY <1>21 DEF UpdateMotionLoad
<1>22. CASE UpdateMotionStore
  BY <1>22 DEF UpdateMotionStore
<1>23. CASE ClearNew
  BY <1>23 DEF ClearNew
<1>24. CASE UNCHANGED vars
  BY <1>24 DEF vars
<1> QED BY <1>1, <1>2, <1>3, <1>4, <1>5, <1>6, <1>7, <1>8, <1>9, <1>10, <1>11, <1>12, <1>13, <1>14, <1>15, <1>16, <1>17, <1>18, <1>19, <1>20, <1>21, <1>22, <1>23, <1>24 DEF Next, Core0, Core1, PutStep, LatchStep

(* A sum that does not wrap.                                                *)
LEMMA StoreSum == ASSUME 128 * MaxReports <= 32767, MouseType, RangeInv, StoreMotion
                  PROVE  msex' = IF pc0 = "set" THEN report.x ELSE msex + report.x
<1>1. /\ msex \in Int /\ report.x \in Int /\ -128 <= report.x /\ report.x <= 127
      /\ reports \in Int /\ reports <= MaxReports /\ MaxReports \in Int
  BY MouseAssumption DEF MouseType, TypeOK, Fits16, Bytes
<1>2. CASE pc0 = "set"
  BY <1>2 DEF StoreMotion
<1>3. CASE pc0 = "add_store"
  <2>1. x0 = msex /\ -128 * (reports - 1) <= msex /\ msex <= 128 * (reports - 1)
    BY <1>3 DEF RangeInv, Within, Gathering
  <2>2. Fits16(msex + report.x)
    BY <1>1, <2>1 DEF Fits16
  <2>3. msex' = Int16(msex + report.x)
    BY <1>3, <2>1 DEF StoreMotion
  <2>4. msex + report.x \in Int
    BY <1>1
  <2> QED BY <1>3, <2>2, <2>3, <2>4, Int16Fits
<1> QED BY <1>2, <1>3 DEF StoreMotion

(* A report adds at most 128 to the sum.                                    *)
LEMMA RangeStep == ASSUME ~Overlap, 128 * MaxReports <= 32767, MouseType, Turns, RangeInv, [Next]_vars
                   PROVE  RangeInv'
<1> USE DEF config, inst, mse, put, given, latch, packet, seen, core0, core1, Waiting, HandlerMayStart
<1> USE DEF Turns, RangeInv, Within, Gathering, MouseType, TypeOK, Bytes, Fits16, Show
<1>1. ASSUME NEW r \in Reports, ReportBegin(r) PROVE RangeInv'
  BY <1>1 DEF ReportBegin, Reports
<1>2. CASE ReceiveMotion
  BY <1>2 DEF ReceiveMotion
<1>3. CASE OrLoad
  BY <1>3 DEF OrLoad
<1>4. CASE OrStore
  BY <1>4 DEF OrStore
<1>5. CASE TestNew
  BY <1>5 DEF TestNew
<1>6. CASE AddLoad
  BY <1>6 DEF AddLoad
<1>7. CASE StoreMotion
  <2>1. msex' = IF pc0 = "set" THEN report.x ELSE msex + report.x
    BY <1>7, StoreSum
  <2>2. pc0 \in Gathering /\ pc0 # "byte" /\ pc0' \in {"flag", "inst"} /\ UNCHANGED <<reports, instx, pc1, x1>>
    BY <1>7 DEF StoreMotion
  <2>3. Within(msex', reports)
    BY <2>1, <2>2
  <2> QED BY <2>2, <2>3
<1>8. CASE StoreInst
  BY <1>8 DEF StoreInst
<1>9. CASE SetNew
  BY <1>9 DEF SetNew
<1>10. CASE MountChange
  BY <1>10 DEF MountChange
<1>11. CASE LatchBegin
  BY <1>11 DEF LatchBegin
<1>12. CASE LatchTest
  BY <1>12 DEF LatchTest
<1>13. CASE LatchMotion
  BY <1>13 DEF LatchMotion
<1>14. CASE LatchSubor
  BY <1>14 DEF LatchSubor
<1>15. CASE LatchHoriTrack
  BY <1>15 DEF LatchHoriTrack
<1>16. CASE LatchWordButtons
  BY <1>16 DEF LatchWordButtons
<1>17. CASE LatchWordMotion
  BY <1>17 DEF LatchWordMotion
<1>18. CASE UpdateTest
  BY <1>18 DEF UpdateTest
<1>19. CASE UpdateButtonsLoad
  BY <1>19 DEF UpdateButtonsLoad
<1>20. CASE UpdateButtonsStore
  BY <1>20 DEF UpdateButtonsStore
<1>21. CASE UpdateMotionLoad
  BY <1>21 DEF UpdateMotionLoad
<1>22. CASE UpdateMotionStore
  BY <1>22 DEF UpdateMotionStore
<1>23. CASE ClearNew
  BY <1>23 DEF ClearNew
<1>24. CASE UNCHANGED vars
  BY <1>24 DEF vars
<1> QED BY <1>1, <1>2, <1>3, <1>4, <1>5, <1>6, <1>7, <1>8, <1>9, <1>10, <1>11, <1>12, <1>13, <1>14, <1>15, <1>16, <1>17, <1>18, <1>19, <1>20, <1>21, <1>22, <1>23, <1>24 DEF Next, Core0, Core1, PutStep, LatchStep

(* There is something to show from the report until the strobe is over.     *)
LEMMA FlagsStep == ASSUME ~Overlap, MouseType, Turns, FlagsInv, [Next]_vars
                   PROVE  FlagsInv'
<1> USE DEF config, inst, mse, put, given, latch, packet, seen, core0, core1, Waiting, HandlerMayStart
<1> USE DEF Turns, FlagsInv, MouseType, TypeOK, Show
<1>1. ASSUME NEW r \in Reports, ReportBegin(r) PROVE FlagsInv'
  BY <1>1 DEF ReportBegin, Reports
<1>2. CASE ReceiveMotion
  BY <1>2 DEF ReceiveMotion
<1>3. CASE OrLoad
  BY <1>3 DEF OrLoad
<1>4. CASE OrStore
  BY <1>4 DEF OrStore
<1>5. CASE TestNew
  BY <1>5 DEF TestNew
<1>6. CASE AddLoad
  BY <1>6 DEF AddLoad
<1>7. CASE StoreMotion
  BY <1>7 DEF StoreMotion
<1>8. CASE StoreInst
  BY <1>8 DEF StoreInst
<1>9. CASE SetNew
  BY <1>9 DEF SetNew
<1>10. CASE MountChange
  BY <1>10 DEF MountChange
<1>11. CASE LatchBegin
  BY <1>11 DEF LatchBegin
<1>12. CASE LatchTest
  BY <1>12 DEF LatchTest
<1>13. CASE LatchMotion
  BY <1>13 DEF LatchMotion
<1>14. CASE LatchSubor
  BY <1>14 DEF LatchSubor
<1>15. CASE LatchHoriTrack
  BY <1>15 DEF LatchHoriTrack
<1>16. CASE LatchWordButtons
  BY <1>16 DEF LatchWordButtons
<1>17. CASE LatchWordMotion
  BY <1>17 DEF LatchWordMotion
<1>18. CASE UpdateTest
  BY <1>18 DEF UpdateTest
<1>19. CASE UpdateButtonsLoad
  BY <1>19 DEF UpdateButtonsLoad
<1>20. CASE UpdateButtonsStore
  BY <1>20 DEF UpdateButtonsStore
<1>21. CASE UpdateMotionLoad
  BY <1>21 DEF UpdateMotionLoad
<1>22. CASE UpdateMotionStore
  BY <1>22 DEF UpdateMotionStore
<1>23. CASE ClearNew
  BY <1>23 DEF ClearNew
<1>24. CASE UNCHANGED vars
  BY <1>24 DEF vars
<1> QED BY <1>1, <1>2, <1>3, <1>4, <1>5, <1>6, <1>7, <1>8, <1>9, <1>10, <1>11, <1>12, <1>13, <1>14, <1>15, <1>16, <1>17, <1>18, <1>19, <1>20, <1>21, <1>22, <1>23, <1>24 DEF Next, Core0, Core1, PutStep, LatchStep

(* What is added to the sum is reported, what leaves it is shown or cut off.*)
LEMMA SumStep == ASSUME ~Overlap, 128 * MaxReports <= 32767, MountModes \subseteq {0}, MouseType, Turns, RangeInv, FlagsInv, SumInv, [Next]_vars
                 PROVE  SumInv'
<1> USE DEF config, inst, mse, put, given, latch, packet, seen, core0, core1, Waiting, HandlerMayStart
<1> USE DEF Turns, FlagsInv, SumInv, Pending, Updating, MouseType, TypeOK, Fits16, Bytes, Show
<1>1. ASSUME NEW r \in Reports, ReportBegin(r) PROVE SumInv'
  BY <1>1 DEF ReportBegin, Reports
<1>2. CASE ReceiveMotion
  BY <1>2 DEF ReceiveMotion
<1>3. CASE OrLoad
  BY <1>3 DEF OrLoad
<1>4. CASE OrStore
  BY <1>4 DEF OrStore
<1>5. CASE TestNew
  BY <1>5 DEF TestNew
<1>6. CASE AddLoad
  BY <1>6 DEF AddLoad
<1>7. CASE StoreMotion
  <2>1. msex' = IF pc0 = "set" THEN report.x ELSE msex + report.x
    BY <1>7, StoreSum
  <2>2. /\ pc0 \in {"set", "add_store"} /\ pc0' \in {"flag", "inst"}
        /\ UNCHANGED <<usb2kbmode, report, pc1, shown, clamped, moved, new_input_msg>>
    BY <1>7 DEF StoreMotion
  <2>3. pc1 \notin Updating /\ Pending = IF pc0 = "set" THEN 0 ELSE msex
    BY <2>2
  <2>4. Pending' = IF pc0 = "set" THEN 0 ELSE msex
    BY <2>1, <2>2
  <2> HIDE DEF Pending
  <2> QED BY <2>2, <2>3, <2>4
<1>8. CASE StoreInst
  BY <1>8 DEF StoreInst
<1>9. CASE SetNew
  BY <1>9 DEF SetNew
<1>10. CASE MountChange
  BY <1>10 DEF MountChange
<1>11. CASE LatchBegin
  BY <1>11 DEF LatchBegin
<1>12. CASE LatchTest
  BY <1>12 DEF LatchTest
<1>13. CASE LatchMotion
  BY <1>13 DEF LatchMotion
<1>14. CASE LatchSubor
  <2> DEFINE x == Clamp(mousex, -32, 31)
  <2>1. x \in Int
    BY DEF Clamp
  <2>2. /\ pc1 = "packet" /\ UNCHANGED <<usb2kbmode, pc0, moved, msex, new_input_msg>>
    BY <1>14 DEF LatchSubor
  <2>3. pc0 \notin {"inst", "flag"}
    BY <2>2
  <2>4. \/ pc1' = "idle" /\ UNCHANGED <<shown, clamped>>
        \/ shown' = shown + x /\ clamped' = clamped + (x1 - x) /\ pc1' = "update"
    BY <1>14 DEF LatchSubor
  <2> HIDE DEF x
  <2>5. CASE pc1' = "idle" /\ UNCHANGED <<shown, clamped>>
    <3>1. Pending' = Pending
      BY <2>2, <2>3, <2>5
    <3> HIDE DEF Pending
    <3> QED BY <2>2, <2>5, <3>1
  <2>6. CASE shown' = shown + x /\ clamped' = clamped + (x1 - x) /\ pc1' = "update"
    <3>1. shown' + clamped' = shown + clamped + x1
      BY <2>1, <2>6
    <3>2. usb2kbmode # 0 => Pending = x1 /\ Pending' = 0
      BY <2>2, <2>3, <2>6
    <3> HIDE DEF Pending
    <3> QED BY <2>2, <3>1, <3>2
  <2> QED BY <2>4, <2>5, <2>6
<1>15. CASE LatchHoriTrack
  <2> DEFINE x == Clamp(mousex, -8, 7)
  <2>1. x \in Int
    BY DEF Clamp
  <2>2. /\ shown' = shown + x /\ clamped' = clamped + (x1 - x)
        /\ pc1 = "packet" /\ pc1' = "update" /\ UNCHANGED <<usb2kbmode, pc0, moved>>
    BY <1>15 DEF LatchHoriTrack
  <2>3. pc0 \notin {"inst", "flag"}
    BY <2>2
  <2> HIDE DEF x
  <2>4. shown' + clamped' = shown + clamped + x1
    BY <2>1, <2>2
  <2>5. usb2kbmode # 0 => Pending = x1 /\ Pending' = 0
    BY <2>2, <2>3
  <2> HIDE DEF Pending
  <2> QED BY <2>2, <2>4, <2>5
<1>16. CASE LatchWordButtons
  BY <1>16 DEF LatchWordButtons
<1>17. CASE LatchWordMotion
  BY <1>17 DEF LatchWordMotion
<1>18. CASE UpdateTest
  BY <1>18 DEF UpdateTest
<1>19. CASE UpdateButtonsLoad
  BY <1>19 DEF UpdateButtonsLoad
<1>20. CASE UpdateButtonsStore
  BY <1>20 DEF UpdateButtonsStore
<1>21. CASE UpdateMotionLoad
  BY <1>21 DEF UpdateMotionLoad
<1>22. CASE UpdateMotionStore
  BY <1>22 DEF UpdateMotionStore
<1>23. CASE ClearNew
  BY <1>23 DEF ClearNew
<1>24. CASE UNCHANGED vars
  BY <1>24 DEF vars
<1> QED BY <1>1, <1>2, <1>3, <1>4, <1>5, <1>6, <1>7, <1>8, <1>9, <1>10, <1>11, <1>12, <1>13, <1>14, <1>15, <1>16, <1>17, <1>18, <1>19, <1>20, <1>21, <1>22, <1>23, <1>24 DEF Next, Core0, Core1, PutStep, LatchStep

-----------------------------------------------------------------------------
(* The start.                                                               *)
LEMMA InitInv == Init => MouseType /\ Turns /\ ButtonsInv /\ ClicksInv /\ RangeInv /\ FlagsInv /\ SumInv
<1> SUFFICES ASSUME Init PROVE MouseType /\ Turns /\ ButtonsInv /\ ClicksInv /\ RangeInv /\ FlagsInv /\ SumInv
  OBVIOUS
<1>1. MouseType
  <2>1. TypeOK
    <3>1. {} \subseteq Buttons /\ new_input_msg \in BOOLEAN /\ enable \in BOOLEAN
      BY DEF Init
    <3> QED BY <3>1 DEF Init, TypeOK, Fits16
  <2>2. report \in [btn : SUBSET Buttons, x : Bytes]
    BY DEF Init, Bytes
  <2>3. reports \in 0 .. MaxReports
    BY MouseAssumption DEF Init
  <2>4. /\ shown \in Int /\ clamped \in Int /\ moved \in Int
        /\ devbtn \subseteq Buttons /\ clicked \subseteq Buttons
    BY DEF Init
  <2> QED BY <2>1, <2>2, <2>3, <2>4 DEF MouseType
<1>2. Turns /\ ButtonsInv /\ ClicksInv
  BY DEF Init, Turns, ButtonsInv, ClicksInv, Updating
<1>3. RangeInv /\ FlagsInv /\ SumInv
  BY DEF Init, RangeInv, Within, Gathering, FlagsInv, SumInv, Pending, Updating
<1> QED BY <1>1, <1>2, <1>3

(* Sixteen bits hold the sum and eight what is shown, and the packet index  *)
(* stays in the packet, even when handlers overlap.                         *)
THEOREM MouseTypeCorrect == Spec => []TypeOK
<1>1. MouseType /\ [Next]_vars => MouseType'
  BY TypeStep
<1>2. Init => MouseType
  BY InitInv
<1>3. MouseType => TypeOK
  BY DEF MouseType
<1> QED BY <1>1, <1>2, <1>3, PTL DEF Spec

(* While handlers take turns, the buttons the next strobe shows are those   *)
(* of the last report once that has been taken.                             *)
THEOREM ButtonsTheorem == ASSUME ~Overlap PROVE Spec => []ButtonsSettled
<1> DEFINE Inv == MouseType /\ Turns /\ ButtonsInv
<1>1. Inv /\ [Next]_vars => Inv'
  BY TypeStep, TurnStep, ButtonsStep
<1>2. Init => Inv
  BY InitInv
<1>3. Inv => ButtonsSettled
  BY DEF ButtonsInv, ButtonsSettled, Quiet
<1> QED BY <1>1, <1>2, <1>3, PTL DEF Spec

(* While handlers take turns, a click shorter than a frame is shown by the  *)
(* strobe after it.                                                         *)
THEOREM ClicksTheorem == ASSUME ~Overlap PROVE Spec => ClicksShown
<1> DEFINE Inv == MouseType /\ Turns /\ ClicksInv
<1>1. Inv /\ [Next]_vars => Inv'
  BY TypeStep, TurnStep, ClicksStep
<1>2. Init => Inv
  BY InitInv
<1>3. Inv /\ [Next]_vars => [pc1 # "update" /\ pc1' = "update" => clicked \subseteq shownbtn']_vars
  <2> SUFFICES ASSUME Inv, Next, pc1 # "update", pc1' = "update" PROVE clicked \subseteq shownbtn'
    OBVIOUS
  <2>1. CASE Core0
    <3>1. pc1' = pc1
      BY <2>1 DEF Core0, PutStep, ReportBegin, ReceiveMotion, OrLoad, OrStore, TestNew, AddLoad,
                  StoreMotion, StoreInst, SetNew, MountChange, core1, core0, latch
    <3> QED BY <3>1
  <2>2. CASE Core1
    <3>1. LatchSubor \/ LatchHoriTrack \/ LatchWordMotion
      BY <2>2 DEF Core1, LatchStep, LatchBegin, LatchTest, LatchMotion, LatchWordButtons, UpdateTest,
                  UpdateButtonsLoad, UpdateButtonsStore, UpdateMotionLoad, UpdateMotionStore, ClearNew
    <3>2. shownbtn' = IF usb2kbmode # 0 /\ pc1 = "packet" THEN msebtn ELSE b1
      BY <3>1 DEF LatchSubor, LatchHoriTrack, LatchWordMotion, Show
    <3>3. pc1 \in {"packet", "wordx"} /\ (pc1 = "packet" => usb2kbmode # 0)
      BY <3>1 DEF LatchSubor, LatchHoriTrack, LatchWordMotion
    <3> QED BY <3>2, <3>3 DEF ClicksInv
  <2> QED BY <2>1, <2>2 DEF Next
<1> HIDE DEF Inv
<1>4. Init /\ [][Next]_vars => [][pc1 # "update" /\ pc1' = "update" => clicked \subseteq shownbtn']_vars
  BY <1>1, <1>2, <1>3, PTL
<1> QED BY <1>4 DEF Spec, ClicksShown

(* While handlers take turns, no device comes or goes in matrix mode and    *)
(* there are no more than 255 reports, whose sum sixteen bits hold in any   *)
(* case, every motion is shown once, still to be shown or cut off to fit a  *)
(* packet (pico-usb2famikb.c:410-446).                                      *)
THEOREM MotionTheorem == ASSUME ~Overlap, MountModes \subseteq {0}, 128 * MaxReports <= 32767
                         PROVE  Spec => []MotionConserved
<1> DEFINE Inv == MouseType /\ Turns /\ RangeInv /\ FlagsInv /\ SumInv
<1>1. Inv /\ [Next]_vars => Inv'
  BY TypeStep, TurnStep, RangeStep, FlagsStep, SumStep
<1>2. Init => Inv
  BY InitInv
<1>3. Inv => MotionConserved
  BY DEF SumInv, Pending, Updating, MotionConserved, Quiet
<1> QED BY <1>1, <1>2, <1>3, PTL DEF Spec
==============================================================================
