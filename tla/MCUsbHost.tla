----------------------------- MODULE MCUsbHost -----------------------------
(* A keyboard's interrupt endpoint and a bulk OUT endpoint.                 *)
EXTENDS UsbHost

MC_Names    == {"key", "led"}
MC_Ins      == {"key"}
MC_Lens     == [n \in MC_Names |-> IF n = "key" THEN {1, 2} ELSE {1}]
MC_Interval == [n \in MC_Names |-> IF n = "key" THEN 2 ELSE 0]

(* The keyboard alone.                                                      *)
MC_Key         == {"key"}
MC_KeyLens     == [n \in MC_Key |-> {1, 2}]
MC_KeyInterval == [n \in MC_Key |-> 2]
=============================================================================
