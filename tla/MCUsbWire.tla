----------------------------- MODULE MCUsbWire -----------------------------
(* No data, data and checksums that need stuffing within and across bytes,  *)
(* data that begin as a packet without data would,                          *)
(* and tokens to two endpoints of three devices.                            *)
EXTENDS UsbWire

MC_Payloads == {<< >>, <<0>>, <<255>>, <<255, 63>>, <<0, 0>>}
MC_Tokens   == {0, 5, 127} \X {0, 15}
=============================================================================
