----------------------------- MODULE TtyProofs -----------------------------
(***************************************************************************)
(* Theorems about Tty for every buffer size, character set and read count. *)
(*                                                                         *)
(* They rest on one assumption about the driver, NoEraseFromIrq: no        *)
(* interrupt handler passes '\b' to tty_input.  Without it the ring breaks: *)
(* an erase between Take and Settle empties a ring whose head has already  *)
(* moved, and in_buf_count-- wraps to 65535.                               *)
(***************************************************************************)
EXTENDS Tty, SequenceTheorems, TLAPS

NoEraseFromIrq == BS \notin IrqInput

(* The invariant is inductive once it says that tty_getc, which takes a     *)
(* character without looking at in_buf_count again, finds one.              *)
GetcHasInput == (pc = "take" /\ op = "getc") => in_buf_count > 0

IInv == TtyTypeOK /\ RingConsistent /\ OnlyTyped /\ GetcHasInput
-----------------------------------------------------------------------------
(* Index arithmetic of the ring; Cell is not expanded anywhere else.        *)
LEMMA Wrap ==
  ASSUME NEW M \in Nat, M >= 1, NEW x \in Nat, x < 2 * M
  PROVE  /\ x < M => x % M = x
         /\ x >= M => x % M = x - M
  BY SMT

LEMMA CellValue ==
  ASSUME NEW i \in 0..(N - 1), NEW k \in 0..N
  PROVE  /\ Cell(i, k) \in 0..(N - 1)
         /\ Cell(i, k) = IF i + k < N THEN i + k ELSE i + k - N
<1>1. N \in Nat /\ N >= 1
  BY SizeAssumption
<1>2. i + k \in Nat /\ i + k < 2 * N
  BY <1>1
<1>3. (i + k) % N = IF i + k < N THEN i + k ELSE i + k - N
  <2> DEFINE x == i + k
  <2>1. x \in Nat /\ x < 2 * N
    BY <1>2
  <2> HIDE DEF x
  <2>2. /\ x < N => x % N = x
        /\ x >= N => x % N = x - N
    BY <1>1, <2>1, Wrap
  <2>3. CASE x < N
    BY <2>2, <2>3 DEF x
  <2>4. CASE ~(x < N)
    BY <1>1, <2>1, <2>2, <2>4 DEF x
  <2> QED BY <2>3, <2>4
<1> QED BY <1>1, <1>2, <1>3 DEF Cell

LEMMA SuccValue ==
  ASSUME NEW i \in 0..(N - 1)
  PROVE  /\ Succ(i) \in 0..(N - 1)
         /\ Succ(i) = IF i = N - 1 THEN 0 ELSE i + 1
<1>1. N \in Nat /\ N >= 1 /\ 1 \in 0..N
  BY SizeAssumption
<1>2. /\ Cell(i, 1) \in 0..(N - 1)
      /\ Cell(i, 1) = IF i + 1 < N THEN i + 1 ELSE i + 1 - N
  BY <1>1, CellValue
<1> QED BY <1>1, <1>2 DEF Succ

LEMMA PredValue ==
  ASSUME NEW i \in 0..(N - 1)
  PROVE  /\ Pred(i) \in 0..(N - 1)
         /\ Pred(i) = IF i = 0 THEN N - 1 ELSE i - 1
  BY SizeAssumption DEF Pred

(* Moving along the ring: one cell further, one cell back, and off the head. *)
LEMMA CellNext ==
  ASSUME NEW i \in 0..(N - 1), NEW k \in 0..(N - 1)
  PROVE  /\ Cell(i, k + 1) = Succ(Cell(i, k))
         /\ Cell(Succ(i), k) = Cell(i, k + 1)
<1>1. N \in Nat /\ N >= 1 /\ k \in 0..N /\ k + 1 \in 0..N
  BY SizeAssumption
<1>2. Cell(i, k) = IF i + k < N THEN i + k ELSE i + k - N
  BY <1>1, CellValue
<1>3. Cell(i, k + 1) = IF i + (k + 1) < N THEN i + (k + 1) ELSE i + (k + 1) - N
  BY <1>1, CellValue
<1>4. Cell(i, k) \in 0..(N - 1) /\ Succ(i) \in 0..(N - 1)
  BY <1>1, CellValue, SuccValue
<1>5. Succ(Cell(i, k)) = IF Cell(i, k) = N - 1 THEN 0 ELSE Cell(i, k) + 1
  BY <1>4, SuccValue
<1>6. Succ(i) = IF i = N - 1 THEN 0 ELSE i + 1
  BY SuccValue
<1>7. Cell(Succ(i), k) = IF Succ(i) + k < N THEN Succ(i) + k ELSE Succ(i) + k - N
  BY <1>1, <1>4, CellValue
<1> QED BY <1>1, <1>2, <1>3, <1>5, <1>6, <1>7

LEMMA CellBack ==
  ASSUME NEW i \in 0..(N - 1), NEW k \in 1..N
  PROVE  /\ Cell(i, k - 1) = Pred(Cell(i, k))
         /\ k < N => Cell(i, k) # i
<1>1. N \in Nat /\ N >= 1 /\ k \in 0..N /\ k - 1 \in 0..N
  BY SizeAssumption
<1>2. Cell(i, k) = IF i + k < N THEN i + k ELSE i + k - N
  BY <1>1, CellValue
<1>3. Cell(i, k - 1) = IF i + (k - 1) < N THEN i + (k - 1) ELSE i + (k - 1) - N
  BY <1>1, CellValue
<1>4. Cell(i, k) \in 0..(N - 1)
  BY <1>1, CellValue
<1>5. Pred(Cell(i, k)) = IF Cell(i, k) = 0 THEN N - 1 ELSE Cell(i, k) - 1
  BY <1>4, PredValue
<1> QED BY <1>1, <1>2, <1>3, <1>5

LEMMA CellZero ==
  ASSUME NEW i \in 0..(N - 1)
  PROVE  Cell(i, 0) = i
<1>1. N \in Nat /\ N >= 1 /\ 0 \in 0..N
  BY SizeAssumption
<1>2. Cell(i, 0) = IF i + 0 < N THEN i + 0 ELSE i + 0 - N
  BY <1>1, CellValue
<1> QED BY <1>1, <1>2
-----------------------------------------------------------------------------
LEMMA InitIInv == TtyInit => IInv
<1> SUFFICES ASSUME TtyInit PROVE IInv
  OBVIOUS
<1> USE SizeAssumption DEF TtyInit
<1>1. TtyTypeOK
  BY DEF TtyTypeOK
<1>2. RingConsistent
  BY CellZero DEF RingConsistent, Live
<1>3. OnlyTyped
  BY DEF OnlyTyped, Live
<1>4. GetcHasInput
  BY DEF GetcHasInput
<1> QED BY <1>1, <1>2, <1>3, <1>4 DEF IInv

LEMMA LiveRange ==
  ASSUME IInv
  PROVE  /\ Live \in 0..N
         /\ pc = "dec" => Live \in 0..(N - 1)
         /\ in_buf_count \in 0..N
         /\ in_buf_head \in 0..(N - 1)
         /\ in_buf_tail \in 0..(N - 1)
         /\ in_buf_tail = Cell(in_buf_head, Live)
         /\ N \in Nat /\ N >= 1
  BY SizeAssumption DEF IInv, TtyTypeOK, RingConsistent, Live

(* The queued part of OnlyTyped, cell by cell.                              *)
LEMMA QueueTyped ==
  ASSUME IInv, NEW i \in 1..Live
  PROVE  /\ Cell(in_buf_head, i - 1) \in 0..(N - 1)
         /\ Queue[i] = in_buffer[Cell(in_buf_head, i - 1)]
         /\ in_buffer[Cell(in_buf_head, i - 1)] \in Text
<1>1. i - 1 \in 0..N
  BY LiveRange
<1>2. Cell(in_buf_head, i - 1) \in 0..(N - 1)
  BY <1>1, LiveRange, CellValue
<1> QED BY <1>2 DEF IInv, OnlyTyped, Queue

(* tty_input keeps the ring consistent whenever it may erase safely.        *)
LEMMA InputKeepsIInv ==
  ASSUME IInv, NEW c \in Input, tty_input(c), UNCHANGED <<config, reader>>,
         c = BS => pc = "wait"
  PROVE  IInv'
<1>1. /\ state' = state /\ canonical' = canonical /\ feed' = feed
      /\ pc' = pc /\ op' = op /\ want' = want /\ got' = got
  BY DEF config, reader
<1>2. CASE c = BS
  <2>1. /\ pc = "wait" /\ in_buf_count \in 1..N /\ Live = in_buf_count
        /\ in_buf_count' = in_buf_count - 1 /\ Live' = Live - 1
        /\ in_buf_tail' = Pred(in_buf_tail)
        /\ in_buffer' = in_buffer /\ in_buf_head' = in_buf_head
    BY <1>1, <1>2, LiveRange DEF tty_input, Unput, Down, Live
  <2>2. TtyTypeOK'
    BY <1>1, <2>1, LiveRange, PredValue DEF IInv, TtyTypeOK
  <2>3. RingConsistent'
    <3>1. Cell(in_buf_head, Live - 1) = Pred(Cell(in_buf_head, Live))
      BY <2>1, LiveRange, CellBack
    <3> QED BY <1>1, <2>1, <3>1, LiveRange DEF RingConsistent
  <2>4. OnlyTyped'
    <3>1. ASSUME NEW i \in 1..Live' PROVE Queue'[i] \in Text
      <4>1. i \in 1..Live
        BY <2>1
      <4>2. Queue'[i] = in_buffer[Cell(in_buf_head, i - 1)]
        BY <2>1 DEF Queue
      <4> QED BY <4>1, <4>2, QueueTyped
    <3> QED BY <1>1, <3>1 DEF IInv, OnlyTyped
  <2>5. GetcHasInput'
    BY <1>1, <2>1 DEF GetcHasInput
  <2> QED BY <2>2, <2>3, <2>4, <2>5 DEF IInv
<1>3. CASE c # BS
  <2>1. /\ c \in Text /\ in_buf_count \in 0..(N - 1) /\ Live \in 0..(N - 1)
        /\ in_buf_count' = in_buf_count + 1 /\ Live' = Live + 1
        /\ in_buf_tail' = Succ(in_buf_tail)
        /\ in_buffer' = [in_buffer EXCEPT ![in_buf_tail] = c]
        /\ in_buf_head' = in_buf_head
    BY <1>1, <1>3, LiveRange DEF tty_input, Store, Live, Input
  <2>2. TtyTypeOK'
    <3>1. in_buffer' \in [0..(N - 1) -> Text \cup {NUL}]
      BY <2>1 DEF IInv, TtyTypeOK
    <3>2. in_buf_tail' \in 0..(N - 1)
      BY <2>1, LiveRange, SuccValue
    <3> QED BY <1>1, <2>1, <3>1, <3>2, LiveRange DEF IInv, TtyTypeOK
  <2>3. RingConsistent'
    <3>1. Cell(in_buf_head, Live + 1) = Succ(Cell(in_buf_head, Live))
      BY <2>1, LiveRange, CellNext
    <3> QED BY <1>1, <2>1, <3>1, LiveRange DEF RingConsistent
  <2>4. OnlyTyped'
    <3>1. ASSUME NEW i \in 1..Live' PROVE Queue'[i] \in Text
      <4>1. Queue'[i] = in_buffer'[Cell(in_buf_head, i - 1)]
        BY <2>1 DEF Queue
      <4>2. in_buffer \in [0..(N - 1) -> Text \cup {NUL}]
        BY DEF IInv, TtyTypeOK
      <4>3. CASE i = Live + 1
        <5>1. Cell(in_buf_head, i - 1) = in_buf_tail
          BY <4>3, <2>1, LiveRange
        <5> QED BY <4>1, <4>2, <5>1, <2>1, LiveRange
      <4>4. CASE i # Live + 1
        <5>1. i \in 1..Live
          BY <4>4, <2>1
        <5>2. /\ Cell(in_buf_head, i - 1) \in 0..(N - 1)
              /\ in_buffer[Cell(in_buf_head, i - 1)] \in Text
          BY <5>1, QueueTyped
        <5> QED BY <4>1, <4>2, <5>2, <2>1
      <4> QED BY <4>3, <4>4
    <3> QED BY <1>1, <3>1 DEF IInv, OnlyTyped
  <2>5. GetcHasInput'
    BY <1>1, <2>1 DEF GetcHasInput
  <2> QED BY <2>2, <2>3, <2>4, <2>5 DEF IInv
<1> QED BY <1>2, <1>3

(* The head moves over a queued character and the reader keeps a copy.      *)
LEMMA TakeKeepsIInv ==
  ASSUME IInv, Take
  PROVE  IInv'
<1> DEFINE c == in_buffer[in_buf_head]
<1>1. /\ pc = "take" /\ pc' = "dec" /\ op' = op /\ want' = want
      /\ state' = state /\ canonical' = canonical /\ feed' = feed
      /\ got' = Append(got, c)
      /\ in_buf_head' = Succ(in_buf_head) /\ in_buf_tail' = in_buf_tail
      /\ in_buf_count' = in_buf_count
      /\ \A j \in 0..(N - 1) : j # in_buf_head => in_buffer'[j] = in_buffer[j]
      /\ in_buffer' \in [0..(N - 1) -> Text \cup {NUL}]
  BY DEF Take, config, IInv, TtyTypeOK
<1>2. /\ in_buf_count \in 1..N /\ Live = in_buf_count /\ Live' = Live - 1
      /\ got \in Seq(Text \cup {NUL})
  BY <1>1, LiveRange DEF Take, Live, IInv, TtyTypeOK, GetcHasInput
<1>3. c \in Text
  <2>1. 1 \in 1..Live
    BY <1>2
  <2>2. Cell(in_buf_head, 1 - 1) = in_buf_head
    BY LiveRange, CellZero
  <2> QED BY <2>1, <2>2, QueueTyped
<1>4. TtyTypeOK'
  <2>1. got' \in Seq(Text \cup {NUL})
    BY <1>1, <1>2, <1>3
  <2>2. in_buf_head' \in 0..(N - 1)
    BY <1>1, LiveRange, SuccValue
  <2> QED BY <1>1, <2>1, <2>2 DEF IInv, TtyTypeOK
<1>5. RingConsistent'
  <2>1. Cell(Succ(in_buf_head), Live - 1) = Cell(in_buf_head, (Live - 1) + 1)
    BY <1>2, LiveRange, CellNext
  <2> QED BY <1>1, <1>2, <2>1, LiveRange DEF RingConsistent
<1>6. OnlyTyped'
  <2>1. ASSUME NEW i \in 1..Live' PROVE Queue'[i] \in Text
    <3>1. Queue'[i] = in_buffer'[Cell(Succ(in_buf_head), i - 1)]
      BY <1>1, <2>1 DEF Queue
    <3>2. Cell(Succ(in_buf_head), i - 1) = Cell(in_buf_head, i)
      <4>1. i - 1 \in 0..(N - 1) /\ (i - 1) + 1 = i
        BY <1>2, LiveRange
      <4> QED BY <4>1, LiveRange, CellNext
    <3>3. Cell(in_buf_head, i) # in_buf_head
      <4>1. i \in 1..N /\ i < N
        BY <1>2, LiveRange
      <4> QED BY <4>1, LiveRange, CellBack
    <3>4. /\ Cell(in_buf_head, i) \in 0..(N - 1)
          /\ in_buffer[Cell(in_buf_head, i)] \in Text
      <4>1. i + 1 \in 1..Live /\ (i + 1) - 1 = i
        BY <1>2
      <4> QED BY <4>1, QueueTyped
    <3> QED BY <1>1, <3>1, <3>2, <3>3, <3>4
  <2>2. ASSUME NEW i \in 1..Len(got') PROVE got'[i] \in Text
    <3>1. \A j \in 1..Len(got) : got[j] \in Text
      BY DEF IInv, OnlyTyped
    <3> QED BY <1>1, <1>2, <1>3, <2>2, <3>1
  <2> QED BY <2>1, <2>2 DEF OnlyTyped
<1>7. GetcHasInput'
  BY <1>1 DEF GetcHasInput
<1> QED BY <1>4, <1>5, <1>6, <1>7 DEF IInv

(* in_buf_count catches up with the head.                                   *)
LEMMA SettleKeepsIInv ==
  ASSUME IInv, Settle
  PROVE  IInv'
<1>1. /\ pc = "dec" /\ pc' \in {"idle", "take"} /\ op' = op /\ want' = want
      /\ pc' = "take" => op = "read"
      /\ state' = state /\ canonical' = canonical /\ feed' = feed /\ got' = got
      /\ in_buffer' = in_buffer /\ in_buf_head' = in_buf_head
      /\ in_buf_tail' = in_buf_tail
  BY DEF Settle, config, IInv, TtyTypeOK
<1>2. in_buf_count \in 1..N /\ in_buf_count' = in_buf_count - 1 /\ Live' = Live
  BY <1>1, LiveRange DEF Settle, Down, Live, IInv, RingConsistent
<1>3. Queue' = Queue
  BY <1>1, <1>2 DEF Queue
<1> QED BY <1>1, <1>2, <1>3, LiveRange
      DEF IInv, TtyTypeOK, RingConsistent, OnlyTyped, GetcHasInput

(* Attaching a driver empties the ring.                                     *)
LEMMA InitDeviceKeepsIInv ==
  ASSUME IInv, NEW f \in Feeds, tty_init_device(f)
  PROVE  IInv'
<1>1. /\ state' = "inited" /\ canonical' = TRUE /\ feed' = f
      /\ in_buffer' = in_buffer /\ in_buf_head' = 0 /\ in_buf_tail' = 0
      /\ in_buf_count' = 0 /\ Live' = 0
      /\ pc = "idle" /\ pc' = "idle" /\ op' = op /\ want' = want /\ got' = got
  BY DEF tty_init_device, reader, Live
<1>2. 0 \in 0..(N - 1)
  BY SizeAssumption
<1>3. RingConsistent'
  BY <1>1, <1>2, CellZero DEF RingConsistent
<1> QED BY <1>1, <1>2, <1>3, LiveRange DEF IInv, TtyTypeOK, OnlyTyped, GetcHasInput

(* The steps that leave the ring alone.                                     *)
LEMMA ControlKeepsIInv ==
  ASSUME IInv,
         \/ \E canon \in BOOLEAN : tty_set_mode(canon)
         \/ \E n \in 1..MaxCount : tty_read(n)
         \/ tty_getc
         \/ WaitOver
         \/ Return
         \/ UNCHANGED ttyVars
  PROVE  IInv'
<1>1. /\ in_buffer' = in_buffer /\ in_buf_head' = in_buf_head
      /\ in_buf_tail' = in_buf_tail /\ in_buf_count' = in_buf_count
      /\ feed' = feed
  BY DEF tty_set_mode, tty_read, tty_getc, Call, WaitOver, Return, ttyVars, ring, config
<1>2. /\ state' \in {"unused", "inited"} /\ canonical' \in BOOLEAN
      /\ pc' \in {"idle", "wait", "take", "dec"} /\ op' \in {"read", "getc"}
      /\ want' \in 0..(MaxCount + 1)
      /\ got' = got \/ got' = << >>
      /\ pc = "dec" <=> pc' = "dec"
      /\ (pc' = "take" /\ op' = "getc") => in_buf_count > 0
  BY SizeAssumption DEF tty_set_mode, tty_read, tty_getc, Call, WaitOver, InputReady, Return,
     ttyVars, config, reader, IInv, TtyTypeOK, GetcHasInput
<1>3. Live' = Live /\ Queue' = Queue
  BY <1>1, <1>2 DEF Live, Queue
<1>4. TtyTypeOK'
  <2>1. got' \in Seq(Text \cup {NUL})
    <3>1. << >> \in Seq(Text \cup {NUL})
      BY EmptySeq
    <3> QED BY <1>2, <3>1 DEF IInv, TtyTypeOK
  <2> QED BY <1>1, <1>2, <2>1 DEF IInv, TtyTypeOK
<1>5. RingConsistent'
  BY <1>1, <1>2, <1>3 DEF IInv, RingConsistent
<1>6. OnlyTyped'
  BY <1>1, <1>2, <1>3 DEF IInv, OnlyTyped
<1>7. GetcHasInput'
  BY <1>1, <1>2 DEF GetcHasInput
<1> QED BY <1>4, <1>5, <1>6, <1>7 DEF IInv

LEMMA NextKeepsIInv ==
  ASSUME NoEraseFromIrq, IInv, [TtyNext]_ttyVars
  PROVE  IInv'
<1>1. ASSUME NEW f \in Feeds, tty_init_device(f) PROVE IInv'
  BY <1>1, InitDeviceKeepsIInv
<1>2. ASSUME NEW c \in IrqInput, Interrupt(c) PROVE IInv'
  <2>1. c \in Input /\ c # BS
    BY CharAssumption DEF NoEraseFromIrq
  <2> QED BY <1>2, <2>1, InputKeepsIInv DEF Interrupt
<1>3. ASSUME NEW c \in PollInput, Poll(c) PROVE IInv'
  <2>1. c \in Input /\ pc = "wait"
    BY <1>3, CharAssumption DEF Poll
  <2> QED BY <1>3, <2>1, InputKeepsIInv DEF Poll
<1>4. CASE Take
  BY <1>4, TakeKeepsIInv
<1>5. CASE Settle
  BY <1>5, SettleKeepsIInv
<1> QED BY <1>1, <1>2, <1>3, <1>4, <1>5, ControlKeepsIInv DEF TtyNext, Reader
-----------------------------------------------------------------------------
(* The ring variables stay in their ranges and in agreement, and only typed *)
(* characters reach a reader, for every ring size, whatever the interleaving *)
(* of the reader with a driver that never erases from its interrupt handler. *)
THEOREM RingSafe ==
  ASSUME NoEraseFromIrq
  PROVE  TtySpec => [](TtyTypeOK /\ RingConsistent /\ OnlyTyped)
<1>1. IInv /\ [TtyNext]_ttyVars => IInv'
  BY NextKeepsIInv
<1>2. IInv => TtyTypeOK /\ RingConsistent /\ OnlyTyped
  BY DEF IInv
<1> QED BY InitIInv, <1>1, <1>2, PTL DEF TtySpec
-----------------------------------------------------------------------------
(* The queue of the abstract terminal, as a sequence, now and after a step. *)
QueueIsSeq == Queue \in Seq(Text) /\ Len(Queue) = Live /\ Live \in 0..N

LEMMA QueueSeq == IInv => QueueIsSeq
<1> SUFFICES ASSUME IInv PROVE QueueIsSeq
  OBVIOUS
<1>1. Live \in Nat /\ \A i \in 1..Live : Queue[i] \in Text
  BY LiveRange DEF IInv, OnlyTyped
<1>2. Queue = [i \in 1..Live |-> Queue[i]]
  BY <1>1 DEF Queue
<1>3. Queue \in [1..Live -> Text]
  BY <1>1, <1>2
<1> QED BY <1>1, <1>3, LiveRange DEF QueueIsSeq

LEMMA QueueSeqNext == IInv' => QueueIsSeq'
  BY QueueSeq, PTL

(* What the refinement needs to know of the call in progress: the caller's  *)
(* buffer starts empty; a copying loop has a character to take on its first *)
(* turn; and a line read that is still copying has a '\n' ahead of it, and  *)
(* none behind it.                                                          *)
LineAhead ==
  (/\ pc \in {"take", "dec"} /\ op = "read" /\ canonical
   /\ pc = "dec" => got[Len(got)] # NL) => \E i \in 1..Live : Queue[i] = NL

CallInv ==
  /\ pc = "wait" => got = << >>
  /\ pc # "idle" => want \in Nat \ {0} /\ (op = "getc" => want = 1)
  /\ pc = "take" /\ op = "getc" => got = << >>
  /\ pc = "take" /\ got = << >> => in_buf_count > 0
  /\ pc = "take" /\ op = "read" /\ canonical /\ got # << >> => got[Len(got)] # NL
  /\ pc = "dec" => got # << >> /\ (op = "getc" => Len(got) = 1)
  /\ LineAhead

RInv == IInv /\ CallInv
-----------------------------------------------------------------------------
(* What tty_input does to the queue: it appends the character, or removes    *)
(* the newest one.                                                          *)
LEMMA InputOnQueue ==
  ASSUME IInv, IInv', NEW c \in Input, tty_input(c), UNCHANGED <<config, reader>>,
         c = BS => pc = "wait"
  PROVE  \/ c \in Text /\ Len(Queue) < N /\ Queue' = Append(Queue, c)
         \/ c = BS /\ Queue # << >> /\ Queue' = SubSeq(Queue, 1, Len(Queue) - 1)
<1>1. pc' = pc
  BY DEF reader
<1>2. /\ Queue \in Seq(Text) /\ Len(Queue) = Live /\ Live \in 0..N
      /\ Queue' \in Seq(Text) /\ Len(Queue') = Live' /\ Live' \in 0..N
  BY QueueSeq, QueueSeqNext DEF QueueIsSeq
<1>3. CASE c = BS
  <2>1. /\ Live' = Live - 1 /\ Live \in 1..N
        /\ in_buffer' = in_buffer /\ in_buf_head' = in_buf_head
    BY <1>1, <1>3, LiveRange DEF tty_input, Unput, Down, Live
  <2> DEFINE shorter == SubSeq(Queue, 1, Len(Queue) - 1)
  <2>2. /\ shorter \in Seq(Text) /\ Len(shorter) = Live - 1
        /\ \A i \in 1..(Live - 1) : shorter[i] = Queue[i]
    <3>1. \A i \in 1..(Live - 1) : Queue[i] \in Text
      BY <1>2, <2>1, ElementOfSeq
    <3>2. Len(Queue) - 1 = Live - 1 /\ Live - 1 \in Int /\ Live - 1 \in Nat
      BY <1>2, <2>1
    <3>3. /\ shorter \in Seq(Text)
          /\ Len(shorter) = IF 1 <= Live - 1 THEN (Live - 1) - 1 + 1 ELSE 0
          /\ \A i \in 1..((Live - 1) - 1 + 1) : shorter[i] = Queue[1 + i - 1]
      BY <3>1, <3>2, SubSeqProperties
    <3> QED BY <3>2, <3>3
  <2>3. \A i \in 1..(Live - 1) : Queue'[i] = Queue[i]
    BY <2>1 DEF Queue
  <2>4. Queue' = shorter
    <3> HIDE DEF shorter
    <3>1. \A i \in 1..Len(Queue') : Queue'[i] = shorter[i]
      BY <1>2, <2>1, <2>2, <2>3
    <3> QED BY <1>2, <2>1, <2>2, <3>1, SeqEqual
  <2> QED BY <1>2, <1>3, <2>1, <2>4
<1>4. CASE c # BS
  <2>1. /\ c \in Text /\ Live' = Live + 1 /\ Live \in 0..(N - 1)
        /\ in_buffer' = [in_buffer EXCEPT ![in_buf_tail] = c]
        /\ in_buf_head' = in_buf_head
    BY <1>1, <1>4, LiveRange DEF tty_input, Store, Live, Input
  <2>2. in_buffer \in [0..(N - 1) -> Text \cup {NUL}]
    BY DEF IInv, TtyTypeOK
  <2> DEFINE longer == Append(Queue, c)
  <2>3. /\ longer \in Seq(Text) /\ Len(longer) = Live + 1
        /\ \A i \in 1..Live : longer[i] = Queue[i]
        /\ longer[Live + 1] = c
    BY <1>2, <2>1, AppendProperties
  <2>4. \A i \in 1..(Live + 1) : Queue'[i] = in_buffer'[Cell(in_buf_head, i - 1)]
    BY <2>1 DEF Queue
  <2>5. Queue'[Live + 1] = c
    <3>1. Cell(in_buf_head, (Live + 1) - 1) = in_buf_tail
      BY <2>1, LiveRange
    <3> QED BY <2>1, <2>2, <2>4, <3>1, LiveRange
  <2>6. ASSUME NEW i \in 1..Live PROVE Queue'[i] = Queue[i]
    <3>1. /\ Cell(in_buf_head, i - 1) \in 0..(N - 1)
          /\ Queue[i] = in_buffer[Cell(in_buf_head, i - 1)]
      BY QueueTyped
    <3>2. Cell(in_buf_head, i - 1) # Cell(in_buf_head, Live)
      <4>1. /\ N \in Nat /\ i - 1 \in 0..N /\ i - 1 < Live /\ Live < N
            /\ in_buf_head \in 0..(N - 1)
        BY <2>1, LiveRange
      <4>2. Cell(in_buf_head, i - 1) = IF in_buf_head + (i - 1) < N
              THEN in_buf_head + (i - 1) ELSE in_buf_head + (i - 1) - N
        BY <4>1, CellValue
      <4>3. Cell(in_buf_head, Live) = IF in_buf_head + Live < N
              THEN in_buf_head + Live ELSE in_buf_head + Live - N
        BY <1>2, <4>1, CellValue
      <4>4. CASE in_buf_head + Live < N
        BY <4>1, <4>2, <4>3, <4>4, <1>2
      <4>5. CASE ~(in_buf_head + Live < N)
        BY <4>1, <4>2, <4>3, <4>5, <1>2
      <4> QED BY <4>4, <4>5
    <3> QED BY <2>1, <2>2, <2>4, <3>1, <3>2, LiveRange
  <2>7. Queue' = longer
    <3> HIDE DEF longer
    <3>1. \A i \in 1..Len(Queue') : Queue'[i] = longer[i]
      BY <1>2, <2>1, <2>3, <2>5, <2>6
    <3> QED BY <1>2, <2>1, <2>3, <3>1, SeqEqual
  <2> QED BY <1>2, <2>1, <2>7, SizeAssumption
<1> QED BY <1>3, <1>4

(* What Take does to it: the front moves to the caller's buffer.            *)
LEMMA TakeOnQueue ==
  ASSUME IInv, IInv', Take
  PROVE  /\ Queue # << >> /\ Queue' = Tail(Queue)
         /\ got' = Append(got, Head(Queue))
         /\ \A i \in 1..Live' : Queue'[i] = Queue[i + 1]
         /\ Live' = Live - 1 /\ Live \in 1..N /\ Queue[1] = Head(Queue)
<1>1. /\ pc = "take" /\ pc' = "dec"
      /\ got' = Append(got, in_buffer[in_buf_head])
      /\ in_buf_head' = Succ(in_buf_head) /\ in_buf_count' = in_buf_count
      /\ \A j \in 0..(N - 1) : j # in_buf_head => in_buffer'[j] = in_buffer[j]
  BY DEF Take, IInv, TtyTypeOK
<1>2. /\ Queue \in Seq(Text) /\ Len(Queue) = Live /\ Live \in 0..N
      /\ Queue' \in Seq(Text) /\ Len(Queue') = Live' /\ Live' \in 0..N
  BY QueueSeq, QueueSeqNext DEF QueueIsSeq
<1>3. Live \in 1..N /\ Live' = Live - 1
  BY <1>1, LiveRange DEF Take, Live, IInv, GetcHasInput, TtyTypeOK
<1>4. Queue # << >>
  BY <1>2, <1>3
<1>5. in_buffer[in_buf_head] = Head(Queue) /\ Queue[1] = Head(Queue)
  <2>1. 1 \in 1..Live
    BY <1>3
  <2>2. Cell(in_buf_head, 1 - 1) = in_buf_head
    BY LiveRange, CellZero
  <2>3. Queue[1] = in_buffer[in_buf_head]
    BY <2>1, <2>2, QueueTyped
  <2>4. Head(Queue) = Queue[1]
    BY <1>2, <1>4
  <2> QED BY <2>3, <2>4
<1>6. ASSUME NEW i \in 1..Live' PROVE Queue'[i] = Queue[i + 1]
  <2>1. Queue'[i] = in_buffer'[Cell(Succ(in_buf_head), i - 1)]
    BY <1>1, <1>6 DEF Queue
  <2>2. Cell(Succ(in_buf_head), i - 1) = Cell(in_buf_head, i)
    <3>1. i - 1 \in 0..(N - 1) /\ (i - 1) + 1 = i
      BY <1>3, LiveRange
    <3> QED BY <3>1, LiveRange, CellNext
  <2>3. Cell(in_buf_head, i) # in_buf_head
    <3>1. i \in 1..N /\ i < N
      BY <1>3, LiveRange
    <3> QED BY <3>1, LiveRange, CellBack
  <2>4. /\ Cell(in_buf_head, i) \in 0..(N - 1)
        /\ Queue[i + 1] = in_buffer[Cell(in_buf_head, i)]
    <3>1. i + 1 \in 1..Live /\ (i + 1) - 1 = i
      BY <1>3
    <3> QED BY <3>1, QueueTyped
  <2> QED BY <1>1, <2>1, <2>2, <2>3, <2>4
<1>7. Queue' = Tail(Queue)
  <2>1. /\ Tail(Queue) \in Seq(Text) /\ Len(Tail(Queue)) = Live - 1
        /\ \A i \in 1..(Live - 1) : Tail(Queue)[i] = Queue[i + 1]
    BY <1>2, <1>4, HeadTailProperties
  <2>2. \A i \in 1..Len(Queue') : Queue'[i] = Tail(Queue)[i]
    BY <1>2, <1>3, <1>6, <2>1
  <2> QED BY <1>2, <1>3, <2>1, <2>2, SeqEqual
<1> QED BY <1>1, <1>3, <1>4, <1>5, <1>6, <1>7
-----------------------------------------------------------------------------
(* Every step keeps RInv and is a step of LineQueue or leaves it alone.     *)
AbstractStep == [LQ!Next]_LQ!vars

LEMMA InputRefines ==
  ASSUME RInv, IInv', NEW c \in Input, tty_input(c), UNCHANGED <<config, reader>>,
         c = BS => pc = "wait"
  PROVE  CallInv' /\ AbstractStep
<1>1. /\ pc' = pc /\ op' = op /\ canonical' = canonical /\ want' = want /\ got' = got
  BY DEF config, reader
<1>2. IInv /\ CallInv
  BY DEF RInv
<1>3. \/ c \in Text /\ Len(Queue) < N /\ Queue' = Append(Queue, c)
      \/ c = BS /\ Queue # << >> /\ Queue' = SubSeq(Queue, 1, Len(Queue) - 1)
  BY <1>2, InputOnQueue
<1>4. AbstractStep
  <2>1. (c \in Text /\ LQ!Put(c)) \/ LQ!Erase
    <3>1. AbstractCall' = AbstractCall
      BY <1>1 DEF AbstractCall
    <3> QED BY <1>1, <1>3, <3>1 DEF LQ!Put, LQ!Erase
  <2> QED BY <2>1 DEF AbstractStep, LQ!Next
<1>5. CallInv'
  <2>1. pc = "take" /\ got = << >> => in_buf_count' > 0
    BY <1>2, LiveRange DEF CallInv, tty_input, Store
  <2>2. LineAhead'
    <3> SUFFICES ASSUME pc \in {"take", "dec"}, op = "read", canonical,
                        pc = "dec" => got[Len(got)] # NL
                 PROVE  \E i \in 1..Live' : Queue'[i] = NL
      BY <1>1 DEF LineAhead
    <3>1. PICK i \in 1..Live : Queue[i] = NL
      BY <1>2 DEF CallInv, LineAhead
    <3>2. Queue' = Append(Queue, c) /\ c \in Text
      BY <1>3
    <3>3. /\ Queue \in Seq(Text) /\ Len(Queue) = Live /\ Live \in 0..N
          /\ Len(Queue') = Live'
      BY <1>2, QueueSeq, QueueSeqNext DEF QueueIsSeq
    <3>4. Live' = Live + 1 /\ Queue'[i] = Queue[i]
      BY <3>2, <3>3, AppendProperties
    <3> QED BY <3>1, <3>3, <3>4
  <2> QED BY <1>1, <1>2, <2>1, <2>2 DEF CallInv
<1> QED BY <1>4, <1>5

LEMMA TakeRefines ==
  ASSUME RInv, IInv', Take
  PROVE  CallInv' /\ AbstractStep
<1>1. IInv /\ CallInv
  BY DEF RInv
<1>2. /\ Queue # << >> /\ Queue' = Tail(Queue)
      /\ got' = Append(got, Head(Queue))
      /\ \A i \in 1..Live' : Queue'[i] = Queue[i + 1]
      /\ Live' = Live - 1 /\ Live \in 1..N /\ Queue[1] = Head(Queue)
  BY <1>1, TakeOnQueue
<1>3. /\ pc = "take" /\ pc' = "dec" /\ op' = op /\ canonical' = canonical
      /\ want' = want /\ op \in {"read", "getc"} /\ want \in Nat \ {0}
      /\ op = "read" => Len(got) < want
      /\ op = "getc" => want = 1 /\ got = << >>
  BY <1>1 DEF Take, config, IInv, TtyTypeOK, CallInv
<1>4. got \in Seq(Text \cup {NUL}) /\ Head(Queue) \in Text
  BY <1>1, <1>2, QueueSeq, ElementOfSeq DEF IInv, TtyTypeOK, QueueIsSeq
<1>5. /\ got' # << >> /\ Len(got') = Len(got) + 1 /\ got'[Len(got')] = Head(Queue)
  BY <1>2, <1>4, AppendProperties
<1>6. AbstractStep
  <2>1. Len(got) < want
    BY <1>3
  <2>2. op = "read" /\ canonical /\ got # << >> => got[Len(got)] # NL
    BY <1>1, <1>3 DEF CallInv
  <2>3. /\ AbstractCall # "none" /\ AbstractCall' = AbstractCall
        /\ AbstractCall = "line" => op = "read" /\ canonical
    <3>1. CASE op = "getc"
      BY <1>3, <3>1 DEF AbstractCall
    <3>2. CASE op = "read" /\ canonical
      BY <1>3, <3>2 DEF AbstractCall
    <3>3. CASE op = "read" /\ ~canonical
      BY <1>3, <3>3 DEF AbstractCall
    <3> QED BY <1>3, <3>1, <3>2, <3>3
  <2>4. LQ!Take
    BY <1>2, <1>3, <2>1, <2>2, <2>3 DEF LQ!Take, AbstractCall
  <2> QED BY <2>4 DEF AbstractStep, LQ!Next
<1>7. CallInv'
  <2>1. op = "getc" => Len(got') = 1
    BY <1>3, <1>5
  <2>2. LineAhead'
    <3> SUFFICES ASSUME op = "read", canonical, got'[Len(got')] # NL
                 PROVE  \E i \in 1..Live' : Queue'[i] = NL
      BY <1>3 DEF LineAhead
    <3>1. PICK i \in 1..Live : Queue[i] = NL
      BY <1>1, <1>3 DEF CallInv, LineAhead
    <3>2. i # 1
      BY <1>2, <1>5, <3>1
    <3>3. i - 1 \in 1..Live' /\ (i - 1) + 1 = i
      BY <1>2, <3>2
    <3>4. Queue'[i - 1] = NL
      BY <1>2, <3>1, <3>3
    <3> QED BY <3>3, <3>4
  <2> QED BY <1>3, <1>5, <2>1, <2>2 DEF CallInv
<1> QED BY <1>6, <1>7

LEMMA SettleRefines ==
  ASSUME RInv, IInv', Settle
  PROVE  CallInv' /\ AbstractStep
<1>1. IInv /\ CallInv
  BY DEF RInv
<1>2. /\ pc = "dec" /\ op' = op /\ canonical' = canonical /\ want' = want /\ got' = got
      /\ op \in {"read", "getc"} /\ canonical \in BOOLEAN
      /\ in_buffer' = in_buffer /\ in_buf_head' = in_buf_head
      /\ pc' = IF op = "getc" \/ (canonical /\ got[Len(got)] = NL) THEN "idle" ELSE "take"
  BY <1>1 DEF Settle, config, IInv, TtyTypeOK
<1>3. Live' = Live /\ in_buf_count' = Live
  BY <1>1, <1>2, LiveRange DEF Settle, Down, Live, IInv, RingConsistent
<1>4. Queue' = Queue
  BY <1>2, <1>3 DEF Queue
<1>5. CASE pc' = "idle"
  <2>1. CallInv'
    BY <1>5 DEF CallInv, LineAhead
  <2>2. /\ got # << >> /\ got \in Seq(Text \cup {NUL})
        /\ op = "getc" \/ (op = "read" /\ canonical /\ got[Len(got)] = NL)
    BY <1>1, <1>2, <1>5 DEF CallInv, IInv, TtyTypeOK
  <2>3. /\ AbstractCall # "none" /\ AbstractCall' = "none"
        /\ AbstractCall = "line" => got[Len(got)] = NL
    BY <1>2, <1>5, <2>2 DEF AbstractCall
  <2>4. LQ!End
    BY <1>2, <1>4, <2>2, <2>3 DEF LQ!End
  <2> QED BY <2>1, <2>4 DEF AbstractStep, LQ!Next
<1>6. CASE pc' = "take"
  <2>1. /\ op = "read" /\ (canonical => got[Len(got)] # NL) /\ got # << >>
        /\ want \in Nat \ {0}
    BY <1>1, <1>2, <1>6 DEF CallInv
  <2>2. canonical => \E i \in 1..Live : Queue[i] = NL
    BY <1>1, <1>2, <2>1 DEF CallInv, LineAhead
  <2>3. CallInv'
    BY <1>2, <1>3, <1>4, <1>6, <2>1, <2>2 DEF CallInv, LineAhead
  <2>4. AbstractCall' = AbstractCall
    BY <1>2, <1>6 DEF AbstractCall
  <2> QED BY <1>2, <1>4, <2>3, <2>4 DEF AbstractStep, LQ!vars
<1> QED BY <1>2, <1>5, <1>6

LEMMA ReturnRefines ==
  ASSUME RInv, IInv', Return
  PROVE  CallInv' /\ AbstractStep
<1>1. IInv /\ CallInv
  BY DEF RInv
<1>2. /\ pc = "take" /\ pc' = "idle" /\ op = "read" /\ canonical \in BOOLEAN
      /\ want' = want /\ got' = got
      /\ Live' = Live /\ Queue' = Queue
      /\ Len(got) = want \/ Live = 0
  BY <1>1 DEF Return, config, ring, IInv, TtyTypeOK, Live, Queue
<1>3. CallInv'
  BY <1>2 DEF CallInv, LineAhead
<1>4. got # << >>
  <2>1. CASE Len(got) = want
    BY <1>1, <1>2, <2>1 DEF CallInv
  <2>2. CASE Live = 0
    BY <1>1, <1>2, <2>2 DEF CallInv, Live
  <2> QED BY <1>2, <2>1, <2>2
<1>5. canonical => Len(got) = want
  BY <1>1, <1>2, LiveRange DEF CallInv, LineAhead
<1>6. /\ AbstractCall # "none" /\ AbstractCall' = "none"
      /\ AbstractCall = "line" => Len(got) = want
  BY <1>2, <1>5 DEF AbstractCall
<1>7. LQ!End
  BY <1>2, <1>4, <1>6 DEF LQ!End
<1> QED BY <1>3, <1>7 DEF AbstractStep, LQ!Next

LEMMA WaitOverRefines ==
  ASSUME RInv, IInv', WaitOver
  PROVE  CallInv' /\ AbstractStep
<1>1. IInv /\ CallInv
  BY DEF RInv
<1>2. /\ pc = "wait" /\ pc' = "take" /\ op' = op /\ canonical' = canonical
      /\ want' = want /\ got' = got /\ got = << >>
      /\ in_buffer' = in_buffer /\ in_buf_head' = in_buf_head
      /\ in_buf_count' = in_buf_count
      /\ Live' = Live /\ Live = in_buf_count /\ Queue' = Queue
  BY <1>1 DEF WaitOver, config, ring, CallInv, Live, Queue
<1>3. /\ Live \in 1..N
      /\ op = "read" /\ canonical => NL = NewestChar
  BY <1>1, <1>2, LiveRange DEF WaitOver, InputReady
<1>4. op = "read" /\ canonical => Queue[Live] = NL
  <2>1. Queue[Live] = in_buffer[Cell(in_buf_head, Live - 1)]
    BY <1>1, <1>3, QueueTyped
  <2> QED BY <1>2, <1>3, <2>1 DEF NewestChar
<1>5. CallInv'
  BY <1>1, <1>2, <1>3, <1>4 DEF CallInv, LineAhead
<1>6. AbstractCall' = AbstractCall
  BY <1>2 DEF AbstractCall
<1> QED BY <1>2, <1>5, <1>6 DEF AbstractStep, LQ!vars

LEMMA CallRefines ==
  ASSUME RInv, IInv', NEW o \in {"read", "getc"}, NEW n \in Nat \ {0}, n <= MaxCount,
         o = "getc" => n = 1, Call(o, n)
  PROVE  CallInv' /\ AbstractStep
<1>1. IInv
  BY DEF RInv
<1>2. /\ pc = "idle" /\ pc' = "wait" /\ op' = o /\ want' = n /\ got' = << >>
      /\ canonical' = canonical /\ canonical \in BOOLEAN
      /\ Live' = Live /\ Queue' = Queue
  BY <1>1 DEF Call, config, ring, IInv, TtyTypeOK, Live, Queue
<1>3. CallInv'
  BY <1>2 DEF CallInv, LineAhead
<1>4. AbstractCall = "none" /\ AbstractCall' \in {"line", "raw", "char"}
  BY <1>2 DEF AbstractCall
<1>5. n \in 1..MaxCount
  BY SizeAssumption
<1>6. LQ!Begin(AbstractCall', n)
  BY <1>2, <1>4 DEF LQ!Begin
<1> QED BY <1>3, <1>4, <1>5, <1>6 DEF AbstractStep, LQ!Next

LEMMA ConfigRefines ==
  ASSUME RInv, IInv',
         \/ \E f \in Feeds : tty_init_device(f)
         \/ \E canon \in BOOLEAN : tty_set_mode(canon)
  PROVE  CallInv' /\ AbstractStep
<1>1. IInv
  BY DEF RInv
<1>2. pc = "idle" /\ pc' = "idle" /\ want' = want /\ got' = got
  BY DEF tty_init_device, tty_set_mode, reader
<1>3. CallInv'
  BY <1>2 DEF CallInv, LineAhead
<1>4. AbstractCall = "none" /\ AbstractCall' = "none"
  BY <1>2 DEF AbstractCall
<1>5. ASSUME NEW f \in Feeds, tty_init_device(f) PROVE AbstractStep
  <2>1. Live' = 0
    BY <1>2, <1>5 DEF tty_init_device, Live
  <2>2. Queue' = << >>
    <3>1. Queue' \in Seq(Text) /\ Len(Queue') = 0
      BY <2>1, QueueSeqNext DEF QueueIsSeq
    <3> QED BY <3>1, EmptySeq
  <2>3. LQ!Reset
    BY <1>2, <1>4, <2>2 DEF LQ!Reset
  <2> QED BY <2>3 DEF AbstractStep, LQ!Next
<1>6. ASSUME NEW canon \in BOOLEAN, tty_set_mode(canon) PROVE AbstractStep
  <2>1. Live' = Live /\ Queue' = Queue
    BY <1>2, <1>6 DEF tty_set_mode, ring, Live, Queue
  <2> QED BY <1>2, <1>4, <2>1 DEF AbstractStep, LQ!vars
<1> QED BY <1>3, <1>5, <1>6
-----------------------------------------------------------------------------
LEMMA NextRefines ==
  ASSUME NoEraseFromIrq, MaxCount >= 1, RInv, [TtyNext]_ttyVars
  PROVE  RInv' /\ AbstractStep
<1>1. IInv /\ CallInv
  BY DEF RInv
<1>2. IInv'
  BY <1>1, NextKeepsIInv
<1> SUFFICES CallInv' /\ AbstractStep
  BY <1>2 DEF RInv
<1>3. ASSUME NEW c \in IrqInput, Interrupt(c) PROVE CallInv' /\ AbstractStep
  <2>1. c \in Input /\ c # BS
    BY CharAssumption DEF NoEraseFromIrq
  <2> QED BY <1>2, <1>3, <2>1, InputRefines DEF Interrupt
<1>4. ASSUME NEW c \in PollInput, Poll(c) PROVE CallInv' /\ AbstractStep
  <2>1. c \in Input /\ pc = "wait"
    BY <1>4, CharAssumption DEF Poll
  <2> QED BY <1>2, <1>4, <2>1, InputRefines DEF Poll
<1>5. ASSUME NEW n \in 1..MaxCount, tty_read(n) PROVE CallInv' /\ AbstractStep
  <2>1. n \in Nat \ {0} /\ n <= MaxCount
    BY SizeAssumption
  <2> QED BY <1>2, <1>5, <2>1, CallRefines DEF tty_read
<1>6. CASE tty_getc
  <2>1. 1 \in Nat \ {0} /\ 1 <= MaxCount
    BY SizeAssumption
  <2> QED BY <1>2, <1>6, <2>1, CallRefines DEF tty_getc
<1>7. CASE UNCHANGED ttyVars
  <2>1. /\ pc' = pc /\ op' = op /\ canonical' = canonical /\ want' = want /\ got' = got
        /\ in_buf_count' = in_buf_count /\ in_buf_head' = in_buf_head
        /\ in_buffer' = in_buffer
    BY <1>7 DEF ttyVars, config, ring, reader
  <2>2. Live' = Live /\ Queue' = Queue /\ AbstractCall' = AbstractCall
    BY <2>1 DEF Live, Queue, AbstractCall
  <2> QED BY <1>1, <2>1, <2>2 DEF CallInv, LineAhead, AbstractStep, LQ!vars
<1> QED BY <1>2, <1>3, <1>4, <1>5, <1>6, <1>7, TakeRefines, SettleRefines,
        ReturnRefines, WaitOverRefines, ConfigRefines DEF TtyNext, Reader

LEMMA InitRefines == TtyInit => RInv /\ LQ!Init
<1> SUFFICES ASSUME TtyInit PROVE RInv /\ LQ!Init
  OBVIOUS
<1>1. pc = "idle" /\ want = 0 /\ got = << >> /\ in_buf_count = 0
  BY DEF TtyInit
<1>2. IInv
  BY InitIInv
<1>3. CallInv
  BY <1>1 DEF CallInv, LineAhead
<1>4. Queue = << >>
  <2>1. Queue \in Seq(Text) /\ Len(Queue) = 0
    BY <1>1, <1>2, QueueSeq DEF QueueIsSeq, Live
  <2> QED BY <2>1, EmptySeq
<1> QED BY <1>1, <1>2, <1>3, <1>4 DEF RInv, LQ!Init, AbstractCall

(* The terminal implements the bounded FIFO with erase: what a reader gets   *)
(* is what was typed, in order, minus what was erased, and a line read      *)
(* returns a whole line or a full buffer.                                   *)
THEOREM TtyImplementsLineQueue ==
  ASSUME NoEraseFromIrq, MaxCount >= 1
  PROVE  TtySpec => ImplementsLineQueue
<1>1. RInv /\ [TtyNext]_ttyVars => RInv' /\ [LQ!Next]_LQ!vars
  BY NextRefines DEF AbstractStep
<1> QED BY InitRefines, <1>1, PTL DEF TtySpec, ImplementsLineQueue, LQ!Spec
=============================================================================
