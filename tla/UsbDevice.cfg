SPECIFICATION Spec
CONSTANTS
  Reads <- MC_Reads
  Lens <- MC_Lens
  MaxRequests = 4
  MaxReports = 2
  MaxResets = 1
  Prompt = TRUE
  Apart = TRUE
  WholeAddress = TRUE
INVARIANTS ReadsHonest AddressAgreed ReportsOnce
PROPERTY RequestsEnd
