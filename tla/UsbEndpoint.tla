---------------------------- MODULE UsbEndpoint ----------------------------
(* The endpoint of pico-pio-usb as a record, and the low level transfer     *)
(* functions as operators from one value of it to the next.  They serve the *)
(* host controller, the control pipe and the device mode alike.  Lengths    *)
(* are in bytes; what the bytes are is a value named by the caller.         *)
EXTENDS Integers

SETUP == 45        \* USB_PID_SETUP, also used as a data_id

Pids == {0, 1}     \* DATA0 and DATA1

(* What a slot of the endpoint pool holds; size 0 marks a free one.         *)
Endpoint(Sizes, Lens, Data) ==
    [size : Sizes, is_tx : BOOLEAN, data_id : {0, 1, SETUP},
     has_transfer : BOOLEAN, transfer_started : BOOLEAN, transfer_aborted : BOOLEAN,
     total_len : Lens, actual_len : Lens, app_buf : Data,
     buffer : [pid : Pids, data : Data, from : Lens, len : Lens]]

(* A slot after memset or before first use.                                 *)
FreeEndpoint(data) ==
    [size |-> 0, is_tx |-> FALSE, data_id |-> 0,
     has_transfer |-> FALSE, transfer_started |-> FALSE, transfer_aborted |-> FALSE,
     total_len |-> 0, actual_len |-> 0, app_buf |-> data,
     buffer |-> [pid |-> 0, data |-> data, from |-> 0, len |-> 0]]

DataPid(ep) == IF ep.data_id = 1 THEN 1 ELSE 0

Flip(data_id) == IF data_id % 2 = 0 THEN data_id + 1 ELSE data_id - 1

TransactionLen(ep) ==
    LET remaining == ep.total_len - ep.actual_len
    IN  IF remaining < ep.size THEN remaining ELSE ep.size

PrepareTx(ep) ==
    [ep EXCEPT !.buffer = [pid  |-> DataPid(ep),
                           data |-> ep.app_buf,
                           from |-> ep.actual_len,
                           len  |-> TransactionLen(ep)]]

(* A transfer in progress is left alone and the call returns false.         *)
TransferStart(ep, data, len) ==
    LET fresh == [ep EXCEPT !.app_buf = data, !.total_len = len, !.actual_len = 0,
                            !.transfer_started = FALSE, !.transfer_aborted = FALSE,
                            !.has_transfer = TRUE]
    IN  IF ep.has_transfer THEN ep
        ELSE IF ep.is_tx THEN PrepareTx(fresh) ELSE fresh

TransferComplete(ep) == [ep EXCEPT !.has_transfer = FALSE]

(* A short packet ends a transfer as well as the last byte does.            *)
LastPacket(ep, len) == len < ep.size \/ ep.actual_len + len >= ep.total_len

TransferContinue(ep, len) ==
    LET moved == [ep EXCEPT !.actual_len = @ + len, !.data_id = Flip(@)]
    IN  IF LastPacket(ep, len) THEN TransferComplete(moved)
        ELSE IF ep.is_tx THEN PrepareTx(moved) ELSE moved
=============================================================================
