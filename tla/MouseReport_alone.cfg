SPECIFICATION FairSpec
CONSTANTS
  Modes = {0, 2, 3}
  I2CHosts = {TRUE, FALSE}
  Buttons = {"left"}
  Moves <- MC_Moves
  MaxReports = 3
  Overlap = FALSE
  MountModes = {0}
INVARIANTS TypeOK MotionConserved ButtonsSettled
PROPERTIES ClicksShown ButtonsShownEventually
