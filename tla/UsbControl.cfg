SPECIFICATION Spec
CONSTANTS
  EP0_SIZE = 8
  Asks = {0, 8, 10}
  Has = {3, 8, 12}
  MaxRequests = 3
INVARIANTS HonestResult ErrorsExplained QuietBetween
