SPECIFICATION Spec
CONSTANTS
  Payloads <- MC_Payloads
  Tokens <- MC_Tokens
  DevAddr = 5
  MaxNoise = 6
INVARIANTS BitsArrive BuffersFit ChecksumsStandard  AllUnderstood
PROPERTY ReceiverReturns
