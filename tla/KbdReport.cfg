SPECIFICATION KbdSpec
CONSTANTS
  Keyboards = {k1, k2}
  Usages = {4, 5, 6}
  modkeys <- MC_modkeys
  famikey <- MC_famikey
  suborkey <- MC_suborkey
  ReportSlots = 3
  MaxHeld = 3
  MaxReleases = 1
  ScanOrder = FALSE
  OneAtATime = TRUE
INVARIANTS ShownKeysAreReported
PROPERTY ScancodesAlternate
SYMMETRY MC_Symmetry
VIEW MC_View
