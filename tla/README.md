# A TLA+ model of pico-usb2famikb

The firmware turns a Raspberry Pi Pico into a Family BASIC keyboard, a Subor
keyboard and mouse, a Hori Track, or a serialized keyboard and mouse host for a
Famicom or NES.  Input comes from USB devices on the Pico itself, through the
software USB controller `pico-pio-usb`, or over I2C from a host that runs
`i2chost/famikb-i2chost.py`.  This directory models the parts where several
actors meet: two cores that share buffers without a lock, interrupts that fall
between the steps of a task, a polled console port, a byte-wise bus, a USB bus
that loses packets, and devices that come, go and report at their own pace.

Line numbers are those of `src/pico-usb2famikb.c` unless a file is named;
`host.c`, `device.c` and `pio_usb.c` are `pico-pio-usb/pio_usb_host.c`,
`pio_usb_device.c` and `pio_usb.c`.

## The system

| part | state | operations | runs in |
|---|---|---|---|
| Key FIFO (mode 0) | `keybuffer`, `bufferindex`, `kbword` | put (`keycode_handler`), latch (strobe branch) | core 0, core 1 |
| USB keyboard reports | `prev_report`, `keymatrix` | mount, unmount, `process_kbd_report` and its helpers | core 0, `tuh_task` |
| Mouse buffer | `msebuffer`, `mseinstbuf`, `new_input_msg` | `process_mouse_report`, I2C FINISH, mount, unmount; strobe, `update_mouse_data` | core 0, core 1 |
| I2C slave | `hostmsg` | RECEIVE, REQUEST, FINISH | core 0, I2C interrupt |
| I2C host script | `msg`, `capture_combo`, `captured`, `cooldown` | read a batch of events, write a block, toggle capture, exit | Linux host |
| Console port | `instrobe`, `enable`, `toggle`, `select`, `subormouse`, `horitrack`, `kbword`, `mseword`, `output` | polling loops, OE interrupt, `usb2famikb_putkb` | core 1 |
| PIO programs | irq flags 0 to 3, data pins | follow OUT0 to OUT2, signal the end of a read | PIO 0 |
| USB host: frames and transfers | `pio_usb_ep_pool`, root port and its interrupt status | frame, transactions, open, transfer, abort, close, port reset, connection check | frame timer, `tuh_task` |
| USB host: control requests | `control_pipe_t`, endpoint 0 | `control_in_protocol`, `control_out_protocol`, stages, time-out | task, frame timer |
| USB host: enumeration and hubs | `pio_usb_device`, `addr0_exists`, hub status | `pio_usb_host_task`, `enumerate_device`, `process_hub_event` | task |
| USB device mode | endpoint pool, `dev_addr`, `new_devaddr`, `ints`, `ep_complete`, `ep_continue`, `stage` | packet handler, task, `pio_usb_device_transfer` | interrupt, task |
| USB bit level | encoder, line, decoder, receive buffer | encode, decode, receive loops, checksums | core and PIO |

Interactions: reports and messages call `keycode_handler` or add to `msebuffer`;
core 1 takes both at a strobe of the console; the console reads the data pins
and each end of a read interrupts core 1, which shifts the word being read.
Nothing between the cores is locked or `volatile`.  Below that, the USB stack
opens endpoints and starts transfers in the pool of `pico-pio-usb`; the frame
interrupt carries them out, sets bits in the root port's status and calls the
handler that reports them.  The device mode is the mirror image: the host's
tokens interrupt, the task polls the bits they set.

What is hard here, and what makes each part correct:

* **Key FIFO.** Both cores read, change and store `bufferindex` and move
  entries. Every index must stay inside the buffer, whatever the interleaving;
  the NES should get each key once, in order.
* **Keyboard reports.** A report says which keys are down; the handler turns
  the difference of two reports into scancodes. After any sequence of reports,
  of one keyboard or several, the console should see exactly the keys that are
  down.
* **Mouse.** Reports between two strobes are put together; no motion may be
  lost or shown twice, no click be missed, no button stay pressed.
* **I2C link.** The firmware acts at each stop condition on whatever is in
  `mem`; a key must be acted on once, and never out of order.
* **Console port.** Rows are counted and bits are shifted by polling and by an
  interrupt; what the NES reads must be the row it selected and the next bit.
* **USB transfers.** A frame falls between any two steps of an open, start,
  abort or close, and the cable is pulled at any time; the transfer must have
  exactly one outcome, and each packet be taken once although the packet or its
  handshake is lost.
* **Control requests.** Three stages with identifiers and directions of their
  own; the result the caller gets must be what the device did.
* **Enumeration.** All new devices answer at address 0, so one at a time may be
  out of reset; devices of a hub must be freed with it, and each that stays be
  served.
* **Device mode.** The task reads, changes and writes back registers in which
  the interrupt sets bits; no packet may be sent again or given up, and the
  address must change when the host's does.
* **Bit level.** Stuffed bits, checksums over tables and loops that receive
  while they check: what is accepted was sent.

## Modules

| module | models | notes |
|---|---|---|
| `KeyFifo` | the promise of the key FIFO | abstract; `Put`, `Latch` |
| `KeyBuffer` | lines 229-266 (mode 0), 564-604 | implements `KeyFifo` |
| `KbdReport`, `MCKbdReport` | 229-252, 729-836 | small layouts in the MC module |
| `MouseReport`, `MCMouseReport` | 304-355, 410-529, 584-601, 729-770, 839-880 | motions in the MC module |
| `I2cLink` | 273-337, `famikb-i2chost.py` 116-242 | both ends and the bus |
| `NesPort` | 357-616, `usb2famikb.c`, `pio-usb2famikb.pio` | core 1, its interrupt, the NES |
| `UsbEndpoint` | `pio_usb_ll.h`, the `pio_usb_ll_transfer_*` functions of `pio_usb.c` | operators on an endpoint record, used by the next four |
| `UsbPipe` | the promise of a pipe | abstract; `Start`, `Move`, `End` |
| `UsbHost`, `MCUsbHost` | frame, transactions, endpoints, port of `host.c` | implements `UsbPipe`; the stack above is external |
| `UsbControl` | control transfers of `host.c` | endpoint 0 and its caller |
| `UsbHub` | `pio_usb_host_task` and what it calls | task, root port, a hub with its ports |
| `UsbDevice`, `MCUsbDevice` | `device.c` | interrupt, task, an external host |
| `UsbNrzi` | the encoder of `pio_usb.c`, `usb_tx.pio`, `usb_rx.pio` | bits only |
| `UsbWire`, `MCUsbWire` | `usb_crc.*`, packets and receive loops of `pio_usb.c`, `host.c`, `device.c` | extends `UsbNrzi` |
| `I2cLink_proofs`, `MouseReport_proofs`, `NesPort_proofs`, `UsbHost_proofs`, `UsbControl_proofs`, `UsbDevice_proofs` | theorems about the module they are named after | |
| `Keyboard_proofs` | theorems about `KeyBuffer` and `KbdReport` | |
| `UsbBus_proofs` | theorems about `UsbHub` and `UsbNrzi` | |

### How state and actions correspond to the code

`KeyBuffer` takes one step per load and store of a shared byte. The C objects
are not `volatile`, so wherever the source names `bufferindex` again the build
may keep the value it has or load it again; the `Reload` actions choose. Keys
are numbered as they arrive, so a duplicate or a loss shows in `got`. `KeysIn`
is the NES program that reads a word until a 0x00, as neskbdinter.h says.
`PutBegin` to `PutIncrement` are `keycode_handler`, `LatchBegin` to `LatchEnd`
the strobe branch. `Overlap` FALSE lets a handler start only when the other core
is outside its own.

`KbdReport` handles a report in one action, since on core 0 nothing interleaves
with `tuh_task` and core 1 only reads `keymatrix`. The keyboards are external:
each keeps the keys held and lists them as pressed (`ScanOrder` FALSE) or in scan
order, and sends the roll-over error when too many are held; it may be mounted
and unmounted. They share the one `prev_report` and the one `keymatrix`, as in
the code. `neskeys` is what a mode-0 program makes of the scancodes. The scancodes
of a report are a function from the place in the code of the call that hands one
on to its code (`ReleaseSlots`, `ModifierCall`, `PressCall`); the places are in the
order of the calls, and of the calls that touch a key or a cell the last counts. `missed` is history: the
keys of the last report that went up and down again since the one before.

`MouseReport` takes one step per load and store. One axis is modelled, the other
being the same code, and `msebuffer[0]`'s button bits as a set; `msebuffer[3]`
is merged and copied like it. `shown`, `clamped`, `moved` and `clicked` are
history.

`I2cLink` gives each event a number and lets the bytes of a message carry it, so
`handled` says which event the firmware acted on. The SDK's slave driver is
external: it signals FINISH at a stop if a byte was moved. A fault is a
write cut short (the script exits and may be started again) or traffic of
another process on the bus.

`NesPort` replaces a word by the pair [n, k], the n-th latched (modulo 2) after k
shifts; what a word holds is in the modules above. `Sample` is the read of
the PIO flags with the branches on them, up to 537; a sample that falls into a
write may find some lines (`Lag`) unchanged yet. `Latch` and `Build` prepare a
word or a packet, `OutputCell` reads one matrix cell, `OutputBit` and
`usb2famikb_putkb` end the iteration; `pio_IRQ_handler` may come between any two.
`row` and `next` are what the NES expects.

`UsbEndpoint` is `endpoint_t` as a record. `PrepareTx`, `TransferStart`,
`TransferContinue`, `TransferComplete` and the rest map one value of it to the
next; the caller says what its data is, so contents are a name and lengths are
numbers.

`UsbHost` walks the pool slot by slot: `FrameBegin`, `SlotVisit`, `SlotStart`,
`Transaction`, `PortCheck` and `FrameEnd` are the parts of `pio_usb_host_frame`
between which the flags of an endpoint can be seen in different states, and the
outcome of a transaction (lost packet, lost handshake, NAK, STALL, data) is
chosen in it. `AbortMark`, `AbortRead`, `AbortEnd` are
`pio_usb_host_endpoint_abort_transfer` with its waiting loop; `OpenBegin` and
`OpenEnd`, `CloseSlot` the endpoint calls. With `OneCore`, as in the firmware,
the task takes no step inside a frame but frames fall between its steps. The
stack above (TinyUSB) is external: it enumerates when told of a device, uses
endpoints of the one attached, and closes them at a removal. `due` are the
endpoints whose outcome it waits for, `sent` and `got` count packets at both
ends. `Deliver` is TinyUSB's handler, which overrides the library's weak one
(1338-1364 of `host.c`) and queues the events; the library's own, which
overwrites them, is `UsbHub`'s `RootPort`.

`UsbControl` has the frame interrupt as one step (the task is preempted for all
of it) and the caller in steps between which a frame may come: prepare, start,
wait, time out. The device follows chapter 8 of USB; its answers may be lost.
`late` is set when a request times out, and for good.

`UsbHub` takes one step per device of the pool the task's loop visits and per
control request it makes there, since a request takes many frames and the cables
may change meanwhile. Requests are whole here, their insides being
`UsbControl`: one works, or it fails, and a device that is there may have acted
on a request that fails, its status stage being lost (`Request`). `faults` bounds
how many requests fail that could have worked; those to a device that is gone, or
whose endpoint 0 is not open, always fail. `task.left` is the bitmap of the hub's
report as `process_hub_event` copies it at 1128. `mishaps` is history, of five
kinds after which the task does not recover, and each property names those it
excludes:

* `missed`: an event of the root port is overwritten before the task takes it, or
  the cable is out and in again before the frame looks.
* `rootless`: the root port is connected without a device: the cable was gone
  when the port came out of reset, the pool was full, or the enumeration of the
  device failed.
* `unlocked`: a device behind the hub fails before it has its address, and the lock
  on address 0 is released while its port is reset.
* `stuck`: a request to the hub fails, or the pool is full, and leaves a port that
  nothing will try again.
* `pulled`: a device is pulled out of the hub.

`UsbDevice` runs a token's interrupt in one step and the task in one step per
load or store of the shared registers. `host` is what the host has asked for and
got; `handed` and `heard` count reports given to the library and received.

`UsbNrzi` is the encoder one symbol ahead of the line, and the decoding PIO
program as its two counters. A packet finds the counter of ones as the packet
before left it, since `restart_usb_receiver` of a device (44-48 of `device.c`)
sets only the other; `pio_usb_bus_prepare_receive` of a host sets both. `lost` is
the first bit of a packet, if the decoder takes it for a stuffed one. `UsbWire`
sends whole packets through it to one of the receive loops, which run at a speed
of their own: a step of the loop may come before or after any bit, and the
transaction goes by the bytes in `usb_rx_buffer` even if the loop gave up
(`TimeOut`). `crc5_tbl` and `crc16_tbl` are the tables of
the source, checked against the polynomials.

Definitions named after another with a suffix (`LatchEnd_reset`, ...) are
mutants: deliberate mistakes, used only to see that a property notices them.

## Runs

| run | bounds | shows |
|---|---|---|
| `buffer_bounds` | 4 slots, words of 2, 4 keys, free interleaving | no index leaves the buffer; full and empty are both reached |
| `buffer_fifo` | 16 slots, words of 4, 14 keys, at most 12 pending at a put, no overlap | the buffer implements `KeyFifo`; every key is delivered |
| `kbd` | 2 keyboards that come and go, 3 usages, 3 slots, 2 modifiers, all modes, one release per report, one keyboard at a time; keyboards are symmetric, `scancodes` is out of the VIEW | the console sees no key that is up and every key that is down, but one up and down again between two reports; scancodes of a key alternate |
| `mouse` | modes 0, 2 and 3, USB and I2C, 1 button, motions -1, 0, 100, 3 reports, no overlap, mounts in mode 0 | clicks shown, buttons settle; modes 2 and 3: motion conserved |
| `link` | 3 events, batches of 2, 2 faults, with key repeat | until a fault: last key of each batch acted on, once, with fields of one message; always: only the host's keys, never an older after a newer |
| `port` | all modes, 3 half rows of one cell, words of 2 bits, lag except in mode 2, 3 iterations of patience | the selected row and the next bit are shown |
| `usb_host` | an interrupt IN and a bulk OUT endpoint, 2 slots, packets of 1 byte, 2 packets each, 2 devices in turn | one outcome per transfer, none forgotten; implements `UsbPipe`; a new device is noticed |
| `usb_live` | a keyboard's endpoint, as above | transfers and aborts end; a device that stays is attached |
| `usb_control` | endpoint 0 of 8 bytes, asking 0, 8 or 10, device has 3, 8 or 12, 3 requests | without time-outs: result and data are the device's; between calls the pipe is at rest |
| `usb_hub` | 3 devices, 8 slots, 2 ports, 3 times something is plugged in, 1 request fails that could have worked | but for the mishaps each names: one listener on address 0; `root_device` known when it is used; the pool emptied with the root device; each that stays is enumerated |
| `usb_wire` | data of 0, 1 and 2 bytes, one as a boot report begins (0, 0), tokens to addresses 0, 5, 127 and endpoints 0, 15; one disturbed level in packets up to 6 bytes | what is accepted was sent, or begins what was sent and has a checksum of its own; what arrives in time is accepted, but for a first bit lost by the decoder; buffers large enough; checksums as USB defines them |
| `usb_device` | reads of 18, 100, 10 and 63 bytes, 4 requests, 2 reports, 1 bus reset | reads complete and right; both sides agree on the address; each report once; requests end |

The bounds are enough for the cases that matter: buffers fill, wrap and empty;
the sum of two motions leaves eight bits and every packet's range; a batch has
two keys; three half rows tell one step from two and from none, and they wrap;
three-byte and one-byte packets follow each other. Two packets use both data
identifiers, a second device meets what the first left behind, two endpoints
fill the pool and take turns in a frame. Asking for 8 and 10 of 3, 8 and 12 gives short
answers, whole packets and two packets; three requests let the
second meet what the first left and the third what that left. Two ports and a
pool of three devices exhaust the pool and contend for address 0. 255 and 63
need stuffing inside a byte and across bytes; data 0, 0 cut short are a packet
without data. A request that fails once, wherever it is made, takes each of the
error paths of the task; the proof allows any number. The keyboards of `kbd` are
interchangeable, and neither a guard nor an invariant reads `scancodes`, which the
action property sees in every step. Reads of 100 bytes take two
packets and of 63 almost one.

In `buffer_bounds` and `link` the system may stop when the bounds are used up,
so deadlock is not checked there; it is everywhere else.

### What the constants reach

Most runs state a condition under which the code is right. Changing one constant
shows what happens without it, and where the code departs from what it says:

* `KeyBuffer`: `Overlap = TRUE` loses or repeats keys (599). `PutLimit = 16` with
  `MaxKeys = 20` sends phantom keys from the last slots (596), and a put into
  the full buffer goes behind the last entry counted (254-261).
* `KbdReport`: a key that goes up and down again between two reports, as in [a,b]
  then [b,a], is released (788-790) and, being in the report before, not pressed
  (827): the console does not see it until it goes up and comes down once more.
  `ShownKeysAreReported` excepts such keys (`missed`). `MaxReleases = 2` leaves a
  key stuck, for the search of a release ends at the first slot that differs (790,
  against the comment at 817).
  `ScanOrder = TRUE`: a key that changes its slot counts as released (782).
  `MaxHeld` above `ReportSlots`: the roll-over error is passed on as a key; a
  usage from 0x80 on is taken for a release (789), both against
  neskbdinter.h:8-9. `OneAtATime = FALSE`: a report of one keyboard releases a
  key of the other (815), and a key down at unmount stays (763).
* `MouseReport`: `Overlap = TRUE` leaves stale buttons (353, against 313-314);
  modes 2 or 3 in `MountModes` show the last motion again (against 412-413). Host
  mode sends the low byte of the sum (590), so two fast movements reverse, and
  keeps the last USB motion after a strobe (349).
* `I2cLink`: holding the capture combination toggles the capture again and again
  (famikb-i2chost.py:216, against :42); no property is about it.
* `UsbHost`: `OneCore = FALSE` violates `OneOutcome`, an aborted transfer still
  reports. `FastReplug = TRUE` violates `DeviceKnown`: a device replaced between
  two frames is not noticed (319) and taken for the old one.
* `UsbControl`: after a time-out (701, 745 of `host.c`) the transfer stays in the pool; its
  late end leaves the pipe in COMPLETE or ERROR and every later call is refused.
  `late` excludes this from the properties.
* `UsbHub`: without the exception of a mishap the property that names it fails,
  `Address0Alone` without `pulled` only from `MaxPlugs = 4` on, and without `missed`
  in no run up to four plugs; there it is the proof that needs it.
  `missed`: `root->event` is overwritten (1343-1349 of `host.c`), so a device is
  taken for the one before, or the one before keeps its place in the pool. `rootless`:
  the comment at 1225 says "retry", but 1227 and 1194-1205 take the root device
  off and nothing enumerates it again, since the port stays connected and no
  event comes; `root_device` stays NULL, and the next time the cable is pulled
  1197 follows it. `unlocked`: of a device behind the hub that fails at address 0,
  1229 resets the port, which will answer at 0, and `device_disconnect` releases
  the lock (1082-1084), so a second port may be reset and two devices answer
  there. `stuck`: the lock is taken although the reset of the port failed (1158);
  a connection change that could not be cleared (1168) hides the end of the reset;
  a reset change cleared by a request that failed all the same (1171) is never
  reported again; the reset of the retry (1229) fails; or the pool is full (1160,
  1120). `pulled`: a device pulled out of the hub after its port was reset leaves
  the lock set for a device that never comes, or its number in `child_devices`.
  Two things are lost without a property that forbids it: the slot of endpoint 0
  at the address of a device behind the hub that fails or goes (1074 frees the others),
  and the lock, which a root device that fails after it has its address leaves set
  until the next device on the root port is enumerated.
* `UsbDevice`: `Prompt = FALSE` or `Apart = FALSE` violates `ReadsHonest`: a
  `continue` flag that outlives its request gives up the first packet of the
  next. A report is lost in this way too (`ReportsOnce`) without `Prompt`, but
  not without `Apart`. `AddressAgreed` fails without any one of `Prompt`,
  `Apart` and `WholeAddress`.
* `UsbWire`: `late` excludes a last byte that arrives between the look at the FIFO
  and the look at the end-of-packet flag (195-206 of `pio_usb.c`). The checksum is
  compared after each byte with the one of two bytes before (198-208), so DATA0
  with 0, 0, cut short behind them by noise, is taken for a packet without data
  and acknowledged; a CRC cannot tell. `lost`: a packet that
  ends in a run of ones leaves a device's decoder with its count used up (after
  five at the K level the SE0 is taken for the sixth); it drops the first bit of
  the next packet, which is misread.

Read in the code while modelling, and outside every property: the receive loops
have no time-out after the second byte (161, 195, 215) and no bound on `idx`
(201 of `pio_usb.c`); `host.c` answers an IN packet with ACK before it compares its identifier. The
device goes on after an IN packet whether it was acknowledged or not (165),
takes OUT data whatever their identifier (212), sends no empty packet at the end
of data that fills packets, ignores most lengths asked for (386, 452) and
answers NAK for ever to a request it does not know.

### Fairness and timing

`KeyBuffer.FairSpec` and `MouseReport.FairSpec`: weak fairness of the steps of
a handler, since neither core stops inside one (no lock, no wait, bounded
loops), and of the strobe, since a NES program polls every frame. A begun I2C
message is finished, and in Subor mode the keyboard is off at infinitely many
strobes; these two compete with other actions for the idle core and get strong
fairness. Nothing else is assumed: the user may stop, the keyboard need not
report.

`UsbHost.FairSpec`: weak fairness of the frame, a repeating timer. Strong
fairness of an endpoint's answering something else than NAK (`Answered`): a
device that says NAK for ever is legal and keeps its transfer for ever. Strong
fairness of what the stack has begun and of enumeration, since on one core they
are enabled only between frames: the interrupt takes a fraction of the
millisecond and leaves the rest to the task. Calls that the stack need not make
have none.

`UsbHub.FairSpec`: weak fairness of the task and of reading the hub's reports
(the main loop calls both), of the root port's check in the frame, and of the
hub, which reports and resets as told. `UsbDevice.Spec`: the main loop goes
round, and the host polls for what it has begun; no resets or requests are
promised. `UsbWire.Spec`: the packet is sent to its end, bits arrive, the loop
runs; noise and idle spins are not promised.

`NesPort.Patience` is the time between two accesses of the NES, in iterations of
core 1's loop. An access of the 1.79 MHz CPU takes at least four cycles, more
than 400 cycles of the Pico at 216 MHz, and an iteration takes a fraction of
that. When lines lag in a sample, two iterations are enough for a bit (one is
not) and three for a row, for the sample may fall into the write that both
strobes and moves OUT1; with two, TLC finds a read of the wrong row. In Subor mode a sample that misses OUT2 at a strobe builds or
skips a packet wrongly, so that mode is not in `LagModes`.

## What is proved

`Keyboard_proofs`, about `KeyBuffer`, for every `MAX_BUFFER` up to 256 and every `WORD_SIZE` from 1 to
below it (`SizesAssumption`), any number of keys and strobes:

* `TypeTheorem`, `BoundsTheorem`: under every interleaving of the two cores and
  every reload, the variables keep their types and no access leaves the
  buffer. `IndexInBounds` is not inductive. What makes it true is that core 0
  alone raises `bufferindex` and core 1 alone lowers it, so the value core 0 has
  loaded is never too small and the one core 1 has loaded never too large:
  `PutLoaded` and `LatchLoaded`, which with `TypeOK` make `BoundsInv`.
* `FifoInvariant`, `FifoTheorem`: if the handlers do not overlap and a put
  starts only with `WORD_SIZE` slots to spare (`Uncrowded`), the buffer implements
  `KeyFifo`. `FifoInv` says what every slot holds in the middle of every
  handler (`SlotValue`); the zeros behind the pending keys are what keeps the
  latch, which copies the last slots without clearing them, from repeating a
  key. `WordKeys` shows the word holds the oldest keys and then zeros, and
  `LatchEndFifo` that this is `KeyFifo`'s `Latch`. Both conditions are needed,
  as above.

`Keyboard_proofs`, about `KbdReport`, for any number of keyboards, any layout that
`KeyboardAssumption` admits, any number of slots, and every mode:

* `ShownTheorem`: after every report the console sees no key that the keyboard in
  use does not have down, so none is stuck, and every key it has down but those
  that went up and down again between two reports. `AlternateTheorem`: the scancodes of a key
  alternate between press and release.
* Both under `OrdinaryUse`: reports list keys as they were pressed, one keyboard
  at a time, at most one key released between two reports, no more keys held
  than a report has slots, usages from 4 to 127 that are no modifier's scancode.
  What happens without each of the first four, and with usages above 127, is said
  above; that a usage is 4 at least and no modifier's scancode is how
  `neskbdinter.h` numbers the keys.
* The invariant `KbdInv`: a report has keys in its first slots and zeros behind
  them, none twice (`Filled`); what is held begins with the keys of the last
  report but for one that was released since (`Follows`), so the search for a
  release, which looks at one slot, finds it; only the keyboard in use has
  anything to report (`OneInUse`), and `prev_report` is its last (`Compared`).
* `CodesTell`, `ChangesTold` and `ToldOnce`, the lemmas under the step of a report:
  its scancodes are the differences between two reports, each of them once.

`I2cLink_proofs`, for any number of events, faults and any batch size:
`LinkTypeCorrect`, `KeysTheorem`, `NewestTheorem` and `MessageTheorem`. The
invariant `LinkInv` adds to the types what the registers hold while a message is
under way (`Shape`), that events are numbered as read (`Numbered`), that every
byte of `mem` is of an event not older than the one acted on last (`InOrder`),
and, until the first fault, that the newest key of the batch is in the message,
in `mem` or handled (`NewestOnItsWay`).

`UsbHost_proofs`, for every set of endpoints, pool size, packet size and
interval:

* On one core or two, `HostTypeCorrect` and `TransfersTheorem`. `Kept`
  strengthens `NoTransferForgotten` with the fact that the slot stays open, and
  `Owned` with who has which slot at each point of frame and task; together they
  say that a slot with a transfer is never given to another endpoint.
* `OutcomeTheorem`, with interrupt and task on one core (`OneCore`, as in the
  firmware; on two the property fails). `OutcomeInv` says that the transaction
  in progress is of a transfer that is there and not aborted, that a flag means
  the transfer is over, that no two slots serve one endpoint, and that an abort
  that read `has_transfer` still sees it unless the device was removed.
* `DeviceTheorem`, if a device comes back no sooner than a frame after it was
  pulled (`~FastReplug`; otherwise the property fails). `Known` lists how the flags
  of the interrupt, the queue of events, the state of the stack and the root
  port fit together: six ways, and a step goes from one to another.
* `PipeTheorem`, under both conditions: the refinement of `UsbPipe`. `InSync`
  relates the identifier of a slot to the packets counted at both ends, and
  `Counted` lets the receiver be ahead by the one packet whose handshake was
  lost. Each step maps to a step of the pipes or to a stutter.

`UsbControl_proofs`, for every packet size and data length: `QuietTheorem`. `ControlInv`
puts the caller in step with the pipe: at rest, prepared, under way or over,
unless a request has timed out. `HonestTheorem` and `ErrorsTheorem` need what
host and device make of the request besides (`AgreedInv`): in each stage the
bytes the host has are those the device has sent, but for one packet whose
confirmation the device missed, and the identifiers say which of the two it is.
The device is external and follows chapter 8 of USB, so these theorems are
about the host against such a device.

`MouseReport_proofs`: `MouseTypeCorrect` without a condition; while handlers take
turns (`~Overlap`) `ButtonsTheorem` and `ClicksTheorem`, for every set of buttons
and every mode; `MotionTheorem`, for mounts in host mode only and behaviours of
at most 255 reports. That bound is the code's: each report moves by at most 128,
and the sum has 16 bits whose wrapping nothing prevents if the NES does not
strobe. `Turns` says which core is inside a handler, `FlagsInv` and `SumInv`
follow the motion through the copies of `update_mouse_data`.

`NesPort_proofs`, for every size of the matrix, of a half row and of a word:
`PortTypes` without a condition; `BitTheorem` and `RowTheorem` if the NES leaves
core 1 three iterations between two accesses (the time it takes is under
Fairness and timing), the bit also if no sample lags in Subor mode. `Polled`
says how much of an access core 1 has seen, by the half iterations since: the
first sample may have fallen into it, the second has not. `WordInv` puts the word
and the byte index where the next bit is, between a strobe and its latch and
between the end of a read and its interrupt too; `RowInv` says which row the
edges not yet seen lead to, and which cells of it are built.

`UsbDevice_proofs`, for every set of reads `DeviceAssumption` admits and any number
of requests, reports and resets. The argument has four layers, each on those
below and under the conditions its property needs:

* `DeviceTypes`: none. `Held` says which register the task has a copy of.
* `ReportsTheorem`: `Prompt`. `Pass` relates the copies to the registers, in which
  the interrupt sets bits meanwhile; `Reports` says that the flag of the
  endpoint is set, and its transfer moved on, only when the host has the report.
* `ReadsTheorem`: also `Apart`. While a request waits for the task, or is put off
  by it, endpoint 0 is silent (`PendingInv`, `DeferredInv`, `WaitingInv`);
  then the packet in its buffer is the one the host waits for or has just taken
  (`DataIn`), and only in the second case does the task go on (`Moved`).
* `AddressTheorem`: also `WholeAddress`. The new address is noted from the handling
  of SET_ADDRESS to its status, and at no other time.

The conditions are the host's and nothing in the code enforces them: that the
task, which the main loop calls for ever, gets round between two requests; that
reports are polled between requests; and that no reset falls into SET_ADDRESS.
Each is shown above to be needed.

`UsbBus_proofs`, about `UsbHub`, for every size of the device pool and of the
endpoint pool, every set of ports, any number of cables and of requests that
fail: `HubInvariant`, `RootDeviceTheorem`, `AllFreedTheorem` and `Address0Theorem`. `HubInv`
has four layers, each on those before and each with fewer mishaps behind it:

* Always: `HubTypes`, and `Pass`, which says that a device whose cable is gone is
  freed in the same pass over the pool, and that until then nobody answers at an
  address the pass has not come to. A place is so never taken with a stale event.
* Until `rootless`: `RootOk`, which says when `root_device` may be NULL: only while
  nothing is connected, or while the connection waits to be taken up.
* Until `missed` or `unlocked`: `PoolOk`. `RootKnown`, `Forest` and `HubKnown`: the pool
  is the root device and what hangs on its ports, each listed in `child_devices`
  under its port, and only the root device is a hub. `Alone`, `Stages`, `Lock`: at
  most one port is in reset or one device without an address, it is the one the
  task enumerates or will enumerate, and `addr0_exists` is set as long as there is
  one. `Waiting`: a port in reset has no device in the pool yet.
* Until `pulled` too: `Held`. The lock is held for any port that listens on 0
  (`Busy`), whether or not the pool has a device for it yet, and a port whose
  connection changed has none.

Failing requests are what makes `Naming` necessary: a device that has taken its
address although SET_ADDRESS failed no longer listens on 0, and one that has
not still does while the task gives it up. The three properties follow from
`HubInv` without a further induction. The theorems are of `Spec`, without
fairness, and so of `FairSpec`, which the run checks.

`UsbBus_proofs`, about `UsbNrzi`: `NrziTypeCorrect`, `BitsTheorem` and `FitsTheorem`, for bits of
any number and value. The decoder's level and count mirror the encoder's
(`Mirrored`), off by the symbol on the line (`OnTheLine`), from the first symbol on,
which absorbs whatever count the packet before has left (`FirstDue`); for the size, six bits
pay for one stuffed bit (`StuffingPaid`). `BitsArrive` is checked in `usb_wire`
for the packets there.

The assumptions are those named in the modules and, where said, in the
theorems.

Only model-checked: all liveness (out of the prover's reach, as is ENABLED);
the properties of `UsbWire`, which uses bitwise operators on integers the prover
does not reason about. `TypeOK` of `NesPort` and `UsbDevice` is proved and in no run,
and that of `UsbControl`, `UsbHub` and `UsbWire` documents the types: the properties
there fail sooner than the types would (`HubTypes` is proved of `UsbHub`'s variables).

## What is not modelled

* The loop of `main` at 678-690: nothing changes its indices, its body never runs.
* Absolute mouse motion (compiled out for USB), the wheel, the second axis.
* Device selection, mouse buttons and wheel of the I2C host script.
* Low speed and PRE packets, more than one root port, stopping and restarting
  the frame timer, what descriptors say (lengths and kinds only).
* The layout of bits within words; hardware set-up; cycles of the PIO programs.
* TinyUSB, external: what it may call is in `UsbHost`.
* A device-mode bus that loses packets: the library takes every packet for
  arrived and has nothing to recover with.
* What a device's packet handler leaves in the receiver: after an IN packet of its
  own (160-170 of `device.c`) nothing is restarted; after a token for somebody
  else (137-139) it returns with the flag that raised the interrupt still set, so
  it runs again at once, takes token 0 and restarts the receiver at 245-247; after a
  SETUP for somebody else (220) it restarts before the packet has ended. `UsbWire`
  starts each packet with a receiver that was restarted between packets. Its data
  never fill the 8 bytes of the receive FIFO (`WireAssumption`).
* The power of a hub's ports, and that `initialize_hub` uses the number of ports
  uninitialised if the hub's descriptor could not be read (788-791).
* `kblayout.c`, `layouts/` (not compiled), test programs (binaries), PCB.

## What could follow

1. Theorems about `UsbWire`: the checksums as functions on sequences of bits, and
   that a receive loop takes a byte from the decoder of `UsbNrzi` in time.
2. The layout of the Subor and Hori Track words and of the script's message as
   functions, against what a NES program decodes, over all motions.
3. `KbdReport` over `I2cLink`: the matrix after a restart of the host.
