------------------------------- MODULE Switch -------------------------------
(***************************************************************************)
(* What the instructions of context_switch (asm.s:171-304) do to the       *)
(* registers and to memory, and what sched_create_task (sched.c:109-155)   *)
(* leaves for them: one call of schedule by the boot flow, with idle_task  *)
(* in tasks[0] and test_task in tasks[1].                                  *)
(*                                                                         *)
(* Memory is the kernel's segment; an address, a register or a cell holds  *)
(* a number of Words and all arithmetic wraps there.  Cells are 16-bit     *)
(* words, so the offsets of the source are halved here.  A read through a  *)
(* segment register with another value finds any word.  Flags are neither  *)
(* saved nor loaded by the code and are left out.                          *)
(*                                                                         *)
(* Taken as meant, because no 8086 has them: moves from memory to memory   *)
(* and the operand [sp + n].  context_switch_corrected (asm.s:343) is      *)
(* called by nothing.                                                      *)
(***************************************************************************)
EXTENDS Naturals, FiniteSets, SequencesExt

CONSTANTS
  Words,                  \* 0..n: the values of a word, and the offsets of the segment
  KERNEL_DATA_SEGMENT,
  Context,                \* <<&tasks[0].context, &tasks[1].context>>
  StackTop,               \* <<top of the idle task's stack, of the test task's>>
  Entry,                  \* <<idle_task, test_task>>: their offsets in the code
  BootStack,              \* sp of the boot flow when it has entered schedule
  BOOT_RETURN,            \* the place in schedule behind the call, sched.c:220
  Leftover                \* what general registers may hold at the call

VARIABLES
  mem,
  reg,                    \* the registers but for cs and ip
  jump,                   \* <<cs, ip>> after the far return at the end, else <<>>
  pc,                     \* how far the call has come
  target                  \* the task that is switched to: 1 (idle_task) or 2

vars == <<mem, reg, jump, pc, target>>

Above(a, n) == (a + n) % Cardinality(Words)
Below(a, n) == (a + Cardinality(Words) - n) % Cardinality(Words)
-----------------------------------------------------------------------------
(* struct task_context, in words: a field's offset is its index less 1.     *)
Fields == <<"di", "si", "bp", "sp", "bx", "dx", "cx", "ax",
            "es", "ds", "flags", "ip", "cs", "ss">>
Field(ctx, f) == Above(ctx, (CHOOSE i \in DOMAIN Fields : Fields[i] = f) - 1)

(* m with the words of seq from address a on, and with seq pushed below sp. *)
Store(m, a, seq) ==
  [x \in Words |-> LET i == Below(x, a) + 1 IN IF i \in DOMAIN seq THEN seq[i] ELSE m[x]]
Push(m, sp, seq) == Store(m, Below(sp, Len(seq)), Reverse(seq))

(* What a read at seg:off may find. *)
Found(seg, off) == IF seg = KERNEL_DATA_SEGMENT THEN {mem[off]} ELSE Words

(* The frame sched_create_task pushes (FLAGS, IP and CS lowest) and the     *)
(* context it fills in; task and stack are given by their number t.         *)
FLAGS == 2
Frame(t) ==
  LET sp == Below(StackTop[t], Len(Fields))             \* initial_stack_top - sizeof
  IN  <<KERNEL_DATA_SEGMENT, KERNEL_DATA_SEGMENT, 0, 0, 0, 0, sp, sp, 0, 0,
        KERNEL_DATA_SEGMENT, Entry[t], FLAGS>>
NewContext(t) ==
  [i \in DOMAIN Fields |->
     CASE Fields[i] \in {"es", "ds", "cs", "ss"} -> KERNEL_DATA_SEGMENT
       [] Fields[i] = "ip"    -> Entry[t]
       [] Fields[i] = "sp"    -> StackTop[t]
       [] Fields[i] = "flags" -> FLAGS
       [] OTHER               -> 0]

Created(m, t) == Store(Push(m, StackTop[t], Frame(t)), Context[t], NewContext(t))
-----------------------------------------------------------------------------
(* The boot flow is in schedule, in the small memory model: data, stack and *)
(* code are reached through one value of the segment registers.             *)
Init ==
  /\ mem = Created(Created([a \in Words |-> 0], 1), 2)
  /\ \E general \in [{"ax", "bx", "cx", "dx", "si", "di", "bp"} -> Leftover] :
       reg = general @@ [sp |-> BootStack, ds |-> KERNEL_DATA_SEGMENT,
                         es |-> KERNEL_DATA_SEGMENT, ss |-> KERNEL_DATA_SEGMENT]
  /\ jump = <<>>
  /\ pc = "call"
  /\ target \in {1, 2}

(* sched.c:219: current_task was idle_task's slot; the call is a near one,  *)
(* or [bp+4] and [bp+6] would not be the arguments.                         *)
Call ==
  /\ pc = "call" /\ pc' = "save"
  /\ mem' = Push(mem, reg.sp, <<Context[target], Context[1], BOOT_RETURN>>)
  /\ reg' = [reg EXCEPT !.sp = Below(@, 3)]
  /\ UNCHANGED <<jump, target>>

(* The frame, the ten pushes, and the fields of old_ctx in the state the    *)
(* last move to each of them leaves: At(n) is [bp-2n].  PUSH SP stores its  *)
(* old value on an 80286 and later, its new one before.                     *)
Save ==
  LET bp == Below(reg.sp, 1)
      sp == Below(bp, 10)
      old_ctx == mem[Above(bp, 2)]
  IN  /\ pc = "save" /\ pc' = "load"
      /\ \E pushed_sp \in {Below(bp, 6), Below(bp, 7)} :
           LET m == Push(mem, reg.sp,
                         <<reg.bp, reg.es, reg.ds, reg.ax, reg.cx, reg.dx, old_ctx,
                           pushed_sp, bp, reg.si, reg.di>>)
               At(n) == m[Below(bp, n)]
           IN  mem' = Store(m, old_ctx,
                            <<At(3), At(4), m[Above(sp, 2)], sp, At(7), At(8), At(9), At(10),
                              At(11), At(12), m[Field(old_ctx, "flags")],
                              At(2), At(1), reg.ss>>)
      /\ reg' = [reg EXCEPT !.bp = bp, !.sp = sp, !.bx = old_ctx]
      /\ UNCHANGED <<jump, target>>

(* The new stack, and the pops in the order of the pushes; the seventh,     *)
(* POP SP, moves the last three elsewhere.  (ss is the kernel's in every    *)
(* context.)                                                                *)
Load ==
  LET new_ctx == mem[Above(reg.bp, 3)]
      sp == mem[Field(new_ctx, "sp")]
      popped_sp == mem[Above(sp, 6)]
  IN  /\ pc = "load" /\ pc' = "jump"
      /\ reg' = [es |-> mem[sp], ds |-> mem[Above(sp, 1)], ax |-> mem[Above(sp, 2)],
                 cx |-> mem[Above(sp, 3)], dx |-> mem[Above(sp, 4)], bx |-> mem[Above(sp, 5)],
                 bp |-> mem[popped_sp], si |-> mem[Above(popped_sp, 1)],
                 di |-> mem[Above(popped_sp, 2)], sp |-> Above(popped_sp, 3),
                 ss |-> mem[Field(new_ctx, "ss")]]
      /\ UNCHANGED <<mem, jump, target>>

(* cs and ip are pushed from [bx+..] after bx and ds have been popped, and  *)
(* popped again by retf.                                                    *)
Jump ==
  /\ pc = "jump" /\ pc' = "running"
  /\ \E cs \in Found(reg.ds, Field(reg.bx, "cs")), ip \in Found(reg.ds, Field(reg.bx, "ip")) :
       /\ mem' = Push(mem, reg.sp, <<cs, ip>>)
       /\ jump' = <<cs, ip>>
  /\ UNCHANGED <<reg, target>>

Next == Call \/ Save \/ Load \/ Jump

Spec == Init /\ [][Next]_vars
-----------------------------------------------------------------------------
(* Where a call of context_switch is to arrive.  For the caller's own task: *)
(* sched.c:211, "context_switch'e ayni iki pointeri gonderecegiz, bu da     *)
(* effectively donus yapar", the call comes back to where it was made.  For *)
(* a new one: sched.c:110-111, a context prepared so that context_switch    *)
(* jumps to the right place with the stack in order when it first runs.     *)
SwitchArrives ==
  pc = "running" =>
    IF target = 1 THEN jump = <<KERNEL_DATA_SEGMENT, BOOT_RETURN>>
    ELSE jump = <<KERNEL_DATA_SEGMENT, Entry[2]>> /\ reg.sp = StackTop[2]
=============================================================================
