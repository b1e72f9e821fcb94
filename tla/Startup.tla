------------------------------- MODULE Startup -------------------------------
(***************************************************************************)
(* c_main, main.c, with the interrupts of traps.c: the initialisation calls *)
(* in their order and with their failures, while devices raise the lines of *)
(* the master PIC.  boot.s has cleared the interrupt flag, but the disk     *)
(* calls of the BIOS after that may return with it set.  The PIC starts     *)
(* with the BIOS's vectors, and writing its first command word clears its   *)
(* mask and what it remembers of the lines.  The BIOS calls of c_main       *)
(* restore flag and mask.                                                  *)
(*                                                                         *)
(* Definitions named Bad... are seeded faults, as in Tty.                   *)
(***************************************************************************)
EXTENDS Integers, Sequences

CONSTANTS
  Raised   \* the lines that devices raise; COM1 and COM2 are polled (uart.c:31)

Lines == 0..7
ASSUME StartupAssumption == Raised \subseteq Lines

VARIABLES
  next,          \* how many steps of c_main are done
  panicked,
  flag,          \* the interrupt flag
  base,          \* the vector of line 0
  mask,          \* the lines the PIC does not pass on
  requested, in_service,   \* what the PIC remembers of the lines
  vectors,       \* the lines with a kernel stub in the vector table
  handler,       \* the line whose handler runs, or None
  taken          \* the lines and bases of the interrupts that were taken

pic == <<base, mask, requested, in_service>>
startupVars == <<next, panicked, flag, pic, vectors, handler, taken>>

None == -1
BIOS_VECTOR == 8
PIC_REMAP_OFFSET == 32

(* c_main.  The steps of traps_init, main.c:95, are those from "cli" to the *)
(* first "sti".                                                            *)
BadSteps ==
  <<"console", "uart", "serial", "speaker", "lpt", "rtc",
    "remap", "mask", "vectors", "line_0", "line_1", "line_3", "line_4", "open", "sti",
    "mm", "tty_io", "hd", "fdc", "fs", "pkg", "sti", "sched", "shell", "start">>
Steps ==
  <<"console", "uart", "serial", "speaker", "lpt", "rtc",
    "cli", "remap", "mask", "vectors", "line_0", "line_1", "line_3", "line_4", "open", "sti",
    "mm", "tty_io", "hd", "fdc", "fs", "pkg", "sti", "sched", "shell", "start">>

Step == Steps[next + 1]
Effects == {"cli", "remap", "mask", "vectors", "line_0", "line_1", "line_3", "line_4", "open", "sti"}

(* What traps_init leaves open at the end, and for a moment before.         *)
Opened ==
  CASE Step = "open" -> 0..4
    [] Step = "line_0" -> {0} [] Step = "line_1" -> {1}
    [] Step = "line_3" -> {3} [] Step = "line_4" -> {4}
    [] OTHER -> {}

StartupInit ==
  /\ next = 0 /\ panicked = FALSE /\ flag \in BOOLEAN
  /\ base = BIOS_VECTOR /\ mask \in SUBSET Lines
  /\ requested = {} /\ in_service = {}
  /\ vectors = {} /\ handler = None /\ taken = {}

Running == handler = None /\ ~panicked /\ next < Len(Steps)

(* Calls that leave the interrupts alone.  The failures of the ports and    *)
(* disks are printed, and a failed uart_init_port skips serial_init.        *)
Initialise ==
  /\ Running /\ Step \notin Effects
  /\ \/ next' = next + 1
     \/ Step = "uart" /\ next' = next + 2
  /\ UNCHANGED <<panicked, flag, pic, vectors, handler, taken>>

(* panic, panic.c: the flag is cleared first, and nothing follows. *)
panic ==
  /\ Running /\ Step = "fs"
  /\ panicked' = TRUE /\ flag' = FALSE
  /\ UNCHANGED <<next, pic, vectors, handler, taken>>

SetFlag ==
  /\ Running /\ Step \in {"cli", "sti"}
  /\ flag' = (Step = "sti") /\ next' = next + 1
  /\ UNCHANGED <<panicked, pic, vectors, handler, taken>>

Remap ==
  /\ Running /\ Step = "remap"
  /\ base' = PIC_REMAP_OFFSET /\ mask' = {} /\ requested' = {} /\ in_service' = {}
  /\ next' = next + 1
  /\ UNCHANGED <<panicked, flag, vectors, handler, taken>>

WriteMask ==
  /\ Running /\ Step \in {"mask", "line_0", "line_1", "line_3", "line_4", "open"}
  /\ mask' = Lines \ Opened /\ next' = next + 1
  /\ UNCHANGED <<panicked, flag, base, requested, in_service, vectors, handler, taken>>

WriteVectors ==
  /\ Running /\ Step = "vectors"
  /\ vectors' = {0, 1} /\ next' = next + 1
  /\ UNCHANGED <<panicked, flag, pic, handler, taken>>

Raise(l) ==
  /\ l \notin requested
  /\ requested' = requested \cup {l}
  /\ UNCHANGED <<next, panicked, flag, base, mask, in_service, vectors, handler, taken>>

(* The processor takes the first line that is not masked nor held back by   *)
(* one in service.  A BIOS handler acknowledges and returns.                *)
TakeInterrupt(l) ==
  /\ flag /\ handler = None
  /\ l \in requested \ mask
  /\ \A k \in in_service : l < k
  /\ \A k \in requested \ mask : l <= k
  /\ requested' = requested \ {l}
  /\ taken' = taken \cup {<<l, base>>}
  /\ IF base = BIOS_VECTOR
       THEN UNCHANGED <<flag, in_service, handler>>
       ELSE flag' = FALSE /\ in_service' = in_service \cup {l} /\ handler' = l
  /\ UNCHANGED <<next, panicked, base, mask, vectors>>

(* c_interrupt_handler ends with the end-of-interrupt command, which clears *)
(* the first line in service; then the stub returns.                       *)
BadEndOfInterrupt == in_service
EndOfInterrupt == {l \in in_service : \E k \in in_service : k < l}

c_interrupt_handler ==
  /\ handler # None
  /\ in_service' = EndOfInterrupt
  /\ handler' = None /\ flag' = TRUE
  /\ UNCHANGED <<next, panicked, base, mask, requested, vectors, taken>>

StartupNext ==
  \/ Initialise \/ panic \/ SetFlag \/ Remap \/ WriteMask \/ WriteVectors
  \/ c_interrupt_handler
  \/ \E l \in Raised : Raise(l) \/ TakeInterrupt(l)

StartupSpec == StartupInit /\ [][StartupNext]_startupVars
-----------------------------------------------------------------------------
StartupTypeOK ==
  /\ next \in 0..Len(Steps) /\ panicked \in BOOLEAN /\ flag \in BOOLEAN
  /\ base \in {BIOS_VECTOR, PIC_REMAP_OFFSET} /\ mask \subseteq Lines
  /\ requested \subseteq Raised /\ in_service \subseteq Raised /\ vectors \subseteq Lines
  /\ handler \in Raised \cup {None}
  /\ taken \subseteq Raised \X {BIOS_VECTOR, PIC_REMAP_OFFSET}

(* No interrupt goes through a vector the kernel has not written, whenever  *)
(* a device raises its line during start-up: the lines 2 to 4 that are      *)
(* opened without a stub stay silent as long as the serial ports are        *)
(* polled.                                                                 *)
KnownVector == \A t \in taken : t[2] = PIC_REMAP_OFFSET => t[1] \in vectors

(* Outside a handler no line is left in service, which would hold back the  *)
(* lines behind it for good: an interrupt at any step of the start-up finds *)
(* the PIC as free as the one before.  After a panic none is taken.         *)
LinesFree == (handler = None => in_service = {}) /\ (panicked => ~flag /\ handler = None)
=============================================================================
