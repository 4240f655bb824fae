---------------------------- MODULE MCUsbDevice ----------------------------
(* One read of each kind; the configuration takes two packets.              *)
EXTENDS UsbDevice

MC_Lens  == [device |-> 18, config |-> 100, string |-> 10]
MC_Reads == {[kind |-> "device", ask |-> 64], [kind |-> "config", ask |-> 255],
             [kind |-> "string", ask |-> 255], [kind |-> "hid", ask |-> 63]}
=============================================================================
