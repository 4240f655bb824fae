----------------------------- MODULE KbdReport -----------------------------
(***************************************************************************)
(* USB boot keyboards and the code that turns their reports into scancodes:*)
(* process_kbd_report, find_releases_in_report, update_modifiers and the   *)
(* matrix branches of keycode_handler.  A report arrives in tuh_task on    *)
(* core 0, which runs the whole callback before anything else touches this *)
(* state; core 1 only reads keymatrix.  The keyboards are external: each   *)
(* keeps the keys held and, when they have changed, sends them in its own  *)
(* order.  All of them share one prev_report, and unmounting one leaves    *)
(* prev_report and the keys shown as they are.                             *)
(***************************************************************************)
EXTENDS Integers, FiniteSets, SequencesExt

CONSTANTS
    Keyboards,
    Usages,         \* key usages a keyboard can send
    modkeys,        \* scancodes of the modifier keys, in bit order
    famikey,        \* scancode of each cell of the Family BASIC matrix
    suborkey,       \* scancode of each cell of the Subor matrix
    ReportSlots,    \* keycodes in a report (6 on a boot keyboard)
    MaxHeld,        \* keys the user holds at once on a keyboard
    MaxReleases,    \* keys released between two reports
    ScanOrder,      \* TRUE: reports list keys in scan order, not as pressed
    OneAtATime      \* TRUE: a keyboard is used, or pulled out, when no other
                    \* (or, pulled out, none at all) has keys down

(* As in the tables of the source, no key is twice in famikey or modkeys.  *)
ASSUME KeyboardAssumption ==
    /\ Usages \subseteq 4 .. 255
    /\ modkeys \in Seq(1 .. 127) /\ famikey \in Seq(1 .. 127) /\ suborkey \in Seq(0 .. 127)
    /\ \A b, c \in DOMAIN modkeys : modkeys[b] = modkeys[c] => b = c
    /\ \A i, j \in DOMAIN famikey : famikey[i] = famikey[j] => i = j
    /\ ReportSlots \in Nat \ {0} /\ MaxHeld \in Nat /\ MaxReleases \in Nat
    /\ ScanOrder \in BOOLEAN /\ OneAtATime \in BOOLEAN

VARIABLES
    usb2kbmode,     \* 0 host, 1 famikb, 2 subor, 3 famikb with Hori Track
    mounted,        \* keyboards plugged in
    keys,           \* usages held down, in the order they were pressed
    mods,           \* modifier bits held down
    released,       \* usages released since the last report
    last,           \* the last report of each keyboard
    missed,         \* history: usages in it that went up and down again
                    \*   between two reports and have been down since
    prev_report,    \* the last report handled
    keymatrix,      \* pressed cells, modes 1 to 3
    scancodes,      \* the calls of keycode_handler for it: their scancodes,
                    \*   by the place of the call in the code
    neskeys         \* mode 0: keys down for a NES program reading them

board    == <<mounted, keys, mods, released, last, missed>>
firmware == <<usb2kbmode, prev_report, keymatrix, scancodes, neskeys>>
kbdVars  == <<board, firmware>>

RELEASE == 128
KEY_ERR_OVF == 1
KeySlots == 1 .. ReportSlots

Layout == IF usb2kbmode = 2 THEN suborkey ELSE famikey

-----------------------------------------------------------------------------
(* The keyboards. *)

NoReport == [keycode |-> [i \in KeySlots |-> 0], modifier |-> {}]

Order(k) == IF ScanOrder THEN SetToSortSeq(ToSet(keys[k]), <) ELSE keys[k]

(* Too many keys: every slot holds the roll-over error. *)
Report(k) ==
    [keycode |-> [i \in KeySlots |->
        IF Len(keys[k]) > ReportSlots THEN KEY_ERR_OVF
        ELSE IF i <= Len(keys[k]) THEN Order(k)[i] ELSE 0],
     modifier |-> mods[k]]

Changed(k) == Report(k) # last[k] \/ released[k] # {}

Untouched(k) == keys[k] = <<>> /\ mods[k] = {} /\ last[k] = NoReport /\ ~Changed(k)

InUse(k) == k \in mounted /\ (OneAtATime => \A l \in Keyboards \ {k} : Untouched(l))

KeyDown(k, u) ==
    /\ InUse(k)
    /\ u \notin ToSet(keys[k])
    /\ Len(keys[k]) < MaxHeld
    /\ keys' = [keys EXCEPT ![k] = Append(@, u)]
    /\ UNCHANGED <<mounted, mods, released, last, missed, firmware>>

KeyUp(k, u) ==
    /\ \E i \in DOMAIN keys[k] : /\ keys[k][i] = u
                               /\ keys' = [keys EXCEPT ![k] = RemoveAt(@, i)]
    /\ Cardinality(released[k] \cup {u}) <= MaxReleases
    /\ released' = [released EXCEPT ![k] = @ \cup {u}]
    /\ UNCHANGED <<mounted, mods, last, missed, firmware>>

ModifierChange(k, b) ==
    /\ InUse(k)
    /\ mods' = [mods EXCEPT ![k] = IF b \in @ THEN @ \ {b} ELSE @ \cup {b}]
    /\ UNCHANGED <<mounted, keys, released, last, missed, firmware>>

(* A keyboard comes and goes without a report. *)
tuh_hid_mount_cb(k) ==
    /\ k \notin mounted /\ mounted' = mounted \cup {k}
    /\ UNCHANGED <<keys, mods, released, last, missed, firmware>>

tuh_hid_umount_cb(k) ==
    /\ k \in mounted /\ (OneAtATime => Untouched(k))
    /\ mounted'  = mounted \ {k}
    /\ keys'     = [keys EXCEPT ![k] = <<>>] /\ mods' = [mods EXCEPT ![k] = {}]
    /\ released' = [released EXCEPT ![k] = {}] /\ last' = [last EXCEPT ![k] = NoReport]
    /\ missed'   = [missed EXCEPT ![k] = {}]
    /\ UNCHANGED firmware

-----------------------------------------------------------------------------
(* The firmware. *)

(* Mutant: every slot that differs counts as a release.                    *)
ReleaseSlots_nobreak(prev, report) ==
    {i \in KeySlots : prev.keycode[i] # report.keycode[i] /\ prev.keycode[i] # 0}

(* find_releases_in_report stops at the first slot that differs, or at the *)
(* first empty slot of the previous report.                                *)
ReleaseSlots(prev, report) ==
    {i \in KeySlots : /\ prev.keycode[i] # report.keycode[i]
                      /\ \A j \in 1 .. i : prev.keycode[j] # 0
                      /\ \A j \in 1 .. i - 1 : prev.keycode[j] = report.keycode[j]}

(* Mutant: a modifier that is held is sent with every report.              *)
ModifierBits_held(prev, report) == report.modifier \cup prev.modifier

(* update_modifiers: the bits that changed.                                *)
ModifierBits(prev, report) ==
    {b \in DOMAIN modkeys : (b \in prev.modifier) # (b \in report.modifier)}

(* The slots with a key that is in none of the previous report.            *)
PressSlots(prev, report) ==
    {i \in KeySlots : /\ report.keycode[i] # 0
                      /\ \A j \in KeySlots : prev.keycode[j] # report.keycode[i]}

(* The calls for a report in their order: a release, the modifiers in bit  *)
(* order, the presses in slot order.                                       *)
ModifierCall(b) == ReportSlots + b
PressCall(i)    == ReportSlots + Len(modkeys) + i

Scancode(prev, report, n) ==
    IF n \in KeySlots THEN (prev.keycode[n] + RELEASE) % 256
    ELSE IF n - ReportSlots \in DOMAIN modkeys
         THEN LET b == n - ReportSlots IN modkeys[b] + (IF b \in report.modifier THEN 0 ELSE RELEASE)
    ELSE report.keycode[n - ReportSlots - Len(modkeys)]

Scancodes(prev, report) ==
    [n \in ReleaseSlots(prev, report) \cup {ModifierCall(b) : b \in ModifierBits(prev, report)}
                                      \cup {PressCall(i) : i \in PressSlots(prev, report)} |->
        Scancode(prev, report, n)]

(* The top bit says release, the rest names the key; what was released and *)
(* pressed by some of the calls is in the end as the last of them says.    *)
After(calls, codes, before) ==
    IF calls = {} THEN before
    ELSE codes[CHOOSE n \in calls : \A m \in calls : m <= n] < RELEASE

(* keycode_handler in the matrix modes: the cells it writes.  famikey      *)
(* writes the first cell of the key, suborkey all.                         *)
Cells(ascii) ==
    {i \in DOMAIN Layout : /\ Layout[i] = ascii % RELEASE
                           /\ usb2kbmode = 2 \/ \A j \in 1 .. i - 1 : Layout[j] # Layout[i]}

keycode_handler(matrix, codes) ==
    [i \in DOMAIN matrix |-> After({n \in DOMAIN codes : i \in Cells(codes[n])}, codes, matrix[i])]

(* What a NES program makes of the same scancodes (neskbdinter.h:8-9).     *)
NesKeys(down, codes) ==
    {u \in down \cup {codes[n] % RELEASE : n \in DOMAIN codes} :
        After({n \in DOMAIN codes : codes[n] % RELEASE = u}, codes, u \in down)}

process_kbd_report(k) ==
    /\ k \in mounted /\ Changed(k)
    /\ scancodes' = Scancodes(prev_report, Report(k))
    /\ IF usb2kbmode = 0
       THEN neskeys' = NesKeys(neskeys, scancodes') /\ UNCHANGED keymatrix
       ELSE keymatrix' = keycode_handler(keymatrix, scancodes') /\ UNCHANGED neskeys
    /\ prev_report' = Report(k)
    /\ last' = [last EXCEPT ![k] = Report(k)]
    /\ released' = [released EXCEPT ![k] = {}]
    /\ missed' = [missed EXCEPT ![k] = (@ \cup (released[k] \cap ToSet(keys[k])))
                                          \cap ToSet(Report(k).keycode)]
    /\ UNCHANGED <<usb2kbmode, mounted, keys, mods>>

-----------------------------------------------------------------------------
KbdInit ==
    /\ usb2kbmode \in 0 .. 3
    /\ mounted = {}
    /\ keys = [k \in Keyboards |-> <<>>]
    /\ mods = [k \in Keyboards |-> {}] /\ released = [k \in Keyboards |-> {}]
    /\ last = [k \in Keyboards |-> NoReport] /\ missed = [k \in Keyboards |-> {}]
    /\ prev_report = NoReport
    /\ keymatrix = [i \in DOMAIN Layout |-> FALSE]
    /\ scancodes = <<>> /\ neskeys = {}

KbdNext == \E k \in Keyboards :
    \/ \E u \in Usages : KeyDown(k, u) \/ KeyUp(k, u)
    \/ \E b \in DOMAIN modkeys : ModifierChange(k, b)
    \/ tuh_hid_mount_cb(k) \/ tuh_hid_umount_cb(k)
    \/ process_kbd_report(k)

KbdSpec == KbdInit /\ [][KbdNext]_kbdVars

-----------------------------------------------------------------------------
(* The keys that the last reports of all keyboards said are down, as       *)
(* scancodes.                                                              *)
Reported == UNION {{last[k].keycode[i] : i \in KeySlots} \cup {modkeys[b] : b \in last[k].modifier} :
                      k \in Keyboards}

Missed == UNION {missed[k] : k \in Keyboards}

(* After every report, mount and unmount, the console sees no key that is  *)
(* not down, so none is ever stuck, and every key that is down, except one *)
(* that went up and came down again between two reports: then the release  *)
(* is sent (788-790) and the press is not (827), until it goes up again.   *)
(* It holds only because each report's scancodes undo and redo exactly what*)
(* changed since the report before, which may be another keyboard's        *)
(* (find_releases_in_report, find_key_in_report, update_modifiers).        *)
ShownKeysAreReported ==
    IF usb2kbmode = 0
    THEN neskeys \subseteq Reported /\ Reported \ (Missed \cup {0}) \subseteq neskeys
    ELSE \A i \in DOMAIN Layout : Layout[i] # 0 =>
            /\ keymatrix[i] => Layout[i] \in Reported
            /\ Layout[i] \in Reported \ Missed => keymatrix[i]

(* A scancode is a press of a key that was not reported or a release of one*)
(* that was, at most one per key and report: no key is pressed twice and   *)
(* none released that was never pressed.  A key up and down again between  *)
(* two reports gets a release, and a second one when it goes up.           *)
ScancodesAlternate ==
    [][\A i \in DOMAIN scancodes' :
         prev_report' # prev_report =>
           /\ (scancodes'[i] < RELEASE) <=> (scancodes'[i] % RELEASE \notin Reported)
           /\ \A j \in DOMAIN scancodes' :
                scancodes'[i] % RELEASE = scancodes'[j] % RELEASE => i = j]_kbdVars
=============================================================================
