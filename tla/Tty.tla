-------------------------------- MODULE Tty --------------------------------
(***************************************************************************)
(* One terminal of tty_io.c: the circular input buffer of struct tty, the  *)
(* input side tty_input, and a task inside tty_read or tty_getc.           *)
(*                                                                         *)
(* Characters arrive in one of two ways, fixed by the driver attached with *)
(* tty_init_device: a "poll" driver is asked by the reader's own waiting   *)
(* loop (has_data_dev, getc_dev), an "irq" driver calls tty_input from its *)
(* interrupt handler (tty_io.h:93-97), between any two steps of the        *)
(* reader.  A handler runs to completion, so tty_input is one step; the    *)
(* reader is cut where a handler can observe it.                           *)
(*                                                                         *)
(* Nothing else runs while a task is inside tty_read or tty_getc: the      *)
(* calls to schedule() in their loops are commented out.                   *)
(*                                                                         *)
(* Definitions named Bad... are seeded faults: each replaces the definition *)
(* after it in a run that must then find a property violated.               *)
(***************************************************************************)
EXTENDS Naturals, Sequences

CONSTANTS
  N,          \* TTY_BUF_SIZE
  Plain,      \* ordinary characters
  NL, CR, BS, \* '\n', '\r', '\b'
  NUL,        \* what tty_read leaves in a cell it has read
  Feeds,      \* kinds of driver that get attached: {"poll"}, {"irq"} or both
  PollInput,  \* characters a polled driver can yield
  IrqInput,   \* characters an interrupt handler can pass to tty_input
  MaxCount    \* bound on the byte count of a tty_read call

Text  == Plain \cup {NL, CR}
Input == Text \cup {BS}

ASSUME SizeAssumption == N \in Nat /\ N >= 1 /\ N < 65535 /\ MaxCount \in Nat
ASSUME CharAssumption ==
  /\ BS \notin Text
  /\ NL # CR
  /\ NUL \notin Input
  /\ PollInput \subseteq Input
  /\ IrqInput \subseteq Input
  /\ Feeds \subseteq {"poll", "irq"}

VARIABLES
  state,      \* "unused" or "inited"
  canonical,  \* TTY_MODE_CANONICAL is set in the mode
  feed,       \* the kind of driver attached
  in_buffer,
  in_buf_head,
  in_buf_tail,
  in_buf_count,
  pc,         \* where the reading task is: "idle", "wait", "take", "dec"
  op,         \* the function it is in: "read" or "getc"
  want,       \* the count argument (1 for tty_getc)
  got         \* the characters stored in the caller's buffer

ring   == <<in_buffer, in_buf_head, in_buf_tail, in_buf_count>>
config == <<state, canonical, feed>>
reader == <<pc, op, want, got>>
ttyVars   == <<config, ring, reader>>
-----------------------------------------------------------------------------
(* Index arithmetic of the ring, and the 16-bit in_buf_count--. *)
Cell(i, k) == (i + k) % N
Succ(i) == Cell(i, 1)
BadPred(i) == IF i = 0 THEN N ELSE i - 1
Pred(i) == IF i = 0 THEN N - 1 ELSE i - 1
Down(n) == IF n = 0 THEN 65535 ELSE n - 1

NewestChar == in_buffer[Cell(in_buf_head, in_buf_count - 1)]

TtyInit ==
  /\ state = "unused" /\ canonical = FALSE /\ feed \in Feeds
  /\ in_buffer = [i \in 0..(N - 1) |-> NUL]
  /\ in_buf_head = 0 /\ in_buf_tail = 0 /\ in_buf_count = 0
  /\ pc = "idle" /\ op = "read" /\ want = 0 /\ got = << >>

(***************************************************************************)
(* Configuration calls, made while no task is inside a read.  A device     *)
(* already in use is initialised again: the refusal is commented out.      *)
(***************************************************************************)
tty_init_device(f) ==
  /\ pc = "idle"
  /\ state' = "inited" /\ canonical' = TRUE /\ feed' = f
  /\ in_buf_head' = 0 /\ in_buf_tail' = 0 /\ in_buf_count' = 0
  /\ UNCHANGED <<in_buffer, reader>>

tty_set_mode(canon) ==
  /\ pc = "idle"
  /\ state = "inited"
  /\ canonical' = canon
  /\ UNCHANGED <<state, feed, ring, reader>>

(***************************************************************************)
(* tty_input: a full buffer drops the character, an erase included; an     *)
(* erase moves the tail back over the newest character, whatever it is;    *)
(* every other character, '\r' included, is stored as it came.             *)
(***************************************************************************)
BadUnput ==                     \* the tail is not moved back
  /\ in_buf_count > 0
  /\ in_buf_count' = Down(in_buf_count)
  /\ UNCHANGED <<in_buffer, in_buf_head, in_buf_tail>>

Unput ==
  /\ in_buf_count > 0
  /\ in_buf_tail' = Pred(in_buf_tail)
  /\ in_buf_count' = Down(in_buf_count)
  /\ UNCHANGED <<in_buffer, in_buf_head>>

Store(c) ==
  /\ in_buffer' = [in_buffer EXCEPT ![in_buf_tail] = c]
  /\ in_buf_tail' = Succ(in_buf_tail)
  /\ in_buf_count' = in_buf_count + 1
  /\ UNCHANGED in_buf_head

tty_input(c) ==
  /\ in_buf_count < N
  /\ IF c = BS THEN Unput ELSE Store(c)

Interrupt(c) ==
  /\ state = "inited" /\ feed = "irq"
  /\ tty_input(c)
  /\ UNCHANGED <<config, reader>>

(***************************************************************************)
(* The reading task.  tty_read and tty_getc wait in a loop that polls the  *)
(* device and evaluates its condition before every turn.                   *)
(***************************************************************************)
Call(o, n) ==
  /\ pc = "idle"
  /\ state = "inited"
  /\ pc' = "wait" /\ op' = o /\ want' = n /\ got' = << >>
  /\ UNCHANGED <<config, ring>>

tty_read(n) == Call("read", n)
tty_getc    == Call("getc", 1)

(* The loop conditions, negated: raw mode waits for any character,          *)
(* canonical tty_read for a '\n' at the end of what is buffered, canonical  *)
(* tty_getc for a '\n' at its front.                                        *)
BadInputReady ==                \* tty_read looks at the front, as tty_getc does
  /\ in_buf_count > 0
  /\ ~canonical \/ NL = in_buffer[in_buf_head]

InputReady ==
  /\ in_buf_count > 0
  /\ ~canonical \/ NL = IF op = "read" THEN NewestChar ELSE in_buffer[in_buf_head]

WaitOver ==
  /\ pc = "wait"
  /\ InputReady
  /\ pc' = "take"
  /\ UNCHANGED <<config, ring, op, want, got>>

Poll(c) ==
  /\ pc = "wait"
  /\ ~InputReady
  /\ feed = "poll"
  /\ tty_input(c)
  /\ UNCHANGED <<config, reader>>

(* One turn of the copying loop up to the update of in_buf_head; the update *)
(* of in_buf_count is a step of its own (Settle).                           *)
BadTake ==                      \* the cell is emptied before it is copied
  /\ pc = "take"
  /\ op = "read" => Len(got) < want /\ in_buf_count > 0
  /\ in_buffer' = IF op = "read" THEN [in_buffer EXCEPT ![in_buf_head] = NUL] ELSE in_buffer
  /\ got' = Append(got, in_buffer'[in_buf_head])
  /\ in_buf_head' = Succ(in_buf_head)
  /\ pc' = "dec"
  /\ UNCHANGED <<config, in_buf_tail, in_buf_count, op, want>>

Take ==
  /\ pc = "take"
  /\ op = "read" => Len(got) < want /\ in_buf_count > 0
  /\ got' = Append(got, in_buffer[in_buf_head])
  /\ in_buffer' = IF op = "read" THEN [in_buffer EXCEPT ![in_buf_head] = NUL] ELSE in_buffer
  /\ in_buf_head' = Succ(in_buf_head)
  /\ pc' = "dec"
  /\ UNCHANGED <<config, in_buf_tail, in_buf_count, op, want>>

BadSettle ==                    \* no break after '\n'
  /\ pc = "dec"
  /\ in_buf_count' = Down(in_buf_count)
  /\ pc' = IF op = "getc" THEN "idle" ELSE "take"
  /\ UNCHANGED <<config, in_buffer, in_buf_head, in_buf_tail, op, want, got>>

Settle ==
  /\ pc = "dec"
  /\ in_buf_count' = Down(in_buf_count)
  /\ pc' = IF op = "getc" \/ (canonical /\ got[Len(got)] = NL) THEN "idle" ELSE "take"
  /\ UNCHANGED <<config, in_buffer, in_buf_head, in_buf_tail, op, want, got>>

(* The copying loop ends because the caller's buffer is full or the ring is *)
(* empty.                                                                   *)
BadReturn ==                    \* no exit when the ring is empty
  /\ pc = "take" /\ op = "read"
  /\ Len(got) = want
  /\ pc' = "idle"
  /\ UNCHANGED <<config, ring, op, want, got>>

Return ==
  /\ pc = "take" /\ op = "read"
  /\ Len(got) = want \/ in_buf_count = 0
  /\ pc' = "idle"
  /\ UNCHANGED <<config, ring, op, want, got>>

Reader == WaitOver \/ Take \/ Settle \/ Return

TtyNext ==
  \/ \E f \in Feeds : tty_init_device(f)
  \/ \E canon \in BOOLEAN : tty_set_mode(canon)
  \/ \E c \in IrqInput : Interrupt(c)
  \/ \E n \in 1..MaxCount : tty_read(n)
  \/ tty_getc
  \/ \E c \in PollInput : Poll(c)
  \/ Reader

(* A task that has entered a read keeps executing it; no one has to type.   *)
TtySpec == TtyInit /\ [][TtyNext]_ttyVars /\ WF_ttyVars(Reader)
-----------------------------------------------------------------------------
(* Characters in the ring that no reader has taken: in_buf_count runs one   *)
(* behind in_buf_head between Take and Settle.                              *)
Live == IF pc = "dec" THEN in_buf_count - 1 ELSE in_buf_count

(* The queue a terminal stands for, oldest character first.                 *)
Queue == [i \in 1..Live |-> in_buffer[Cell(in_buf_head, i - 1)]]
-----------------------------------------------------------------------------
TtyTypeOK ==
  /\ state \in {"unused", "inited"} /\ canonical \in BOOLEAN /\ feed \in Feeds
  /\ in_buffer \in [0..(N - 1) -> Text \cup {NUL}]
  /\ in_buf_head \in 0..(N - 1)
  /\ in_buf_tail \in 0..(N - 1)
  /\ in_buf_count \in 0..N
  /\ pc \in {"idle", "wait", "take", "dec"}
  /\ op \in {"read", "getc"}
  /\ want \in 0..(MaxCount + 1)
  /\ got \in Seq(Text \cup {NUL})

(* The three ring variables, which tty_input and the reader update in       *)
(* different places and orders (tty_io.c:110-111, 167-168, 260-267), agree: *)
(* the tail is in_buf_count cells ahead of the head, and while the reader   *)
(* has advanced the head but not yet the count, the count is not zero.      *)
RingConsistent ==
  /\ pc = "dec" => in_buf_count > 0
  /\ in_buf_tail = Cell(in_buf_head, Live)

(* No cell that tty_read has emptied is ever handed to a reader: what a     *)
(* reader stores was typed (the '\0' left by tty_io.c:166 stays outside the *)
(* queued part of the ring).                                                *)
OnlyTyped ==
  /\ \A i \in 1..Live : Queue[i] \in Text
  /\ \A i \in 1..Len(got) : got[i] \in Text

(* The terminal behaves as a bounded FIFO of typed characters with erase,   *)
(* and every tty_read and tty_getc returns at a point its mode allows.      *)
AbstractCall ==
  IF pc = "idle" THEN "none"
  ELSE IF op = "getc" THEN "char"
  ELSE IF canonical THEN "line" ELSE "raw"

LQ == INSTANCE LineQueue WITH Capacity <- N, q <- Queue, call <- AbstractCall

ImplementsLineQueue == LQ!Spec

(* Copying ends: once a wait is over the call returns, however fast an      *)
(* interrupt handler refills the ring behind the reader.                    *)
CopyFinishes == (pc \in {"take", "dec"}) ~> (pc = "idle")

(* With a polled driver, a task waiting in tty_read for a line gets it as   *)
(* soon as the newest buffered character is '\n'.                           *)
PolledLineReturned ==
  (/\ pc = "wait" /\ op = "read" /\ feed = "poll"
   /\ in_buf_count > 0 /\ NewestChar = NL) ~> (pc = "idle")

(* tty_io.c:271: a line end, "Enter or \n", wakes the task that waits to    *)
(* read in canonical mode.                                                  *)
EnterWakesReader ==
  (/\ pc = "wait" /\ op = "read" /\ canonical /\ feed = "poll"
   /\ in_buf_count > 0 /\ NewestChar = CR) ~> (pc = "idle")
=============================================================================
