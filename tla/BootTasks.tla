----------------------------- MODULE BootTasks -----------------------------
(***************************************************************************)
(* The last steps of the kernel's start-up, sys_init of sys.c, composed    *)
(* with the scheduler: the flow that came from head.s sets up the          *)
(* scheduler, creates one task if there is memory for its stack, and calls *)
(* schedule, from which it does not expect to come back.  Here a context   *)
(* that is loaded goes on with what was saved in it: where the boot flow   *)
(* is, given that context_switch does its work (Switch is about whether).  *)
(***************************************************************************)
EXTENDS Sched

VARIABLE at     \* where the boot flow is in sys_init

bootVars == <<schedVars, at>>

BootInit == SchedInit /\ at = "sched_init"

StartScheduler ==
  /\ at = "sched_init" /\ at' = "create"
  /\ sched_init

(* mm_alloc_stack may return NULL: then test_task is not created. *)
CreateTestTask ==
  /\ at = "create" /\ at' = "schedule"
  /\ sched_create_task \/ UNCHANGED schedVars

LeaveBoot ==
  /\ at = "schedule" /\ at' = "left"
  /\ schedule

(* The boot flow was saved in slot 0 by its call of schedule; when that      *)
(* context is loaded the call has returned: panic() masks interrupts, halts. *)
panic ==
  /\ at = "left" /\ context[0] = "loaded" /\ at' = "panic"
  /\ UNCHANGED schedVars

(* The loops of idle_task and test_task. *)
TaskYields ==
  /\ at = "left" /\ context[0] # "loaded"
  /\ schedule
  /\ UNCHANGED at

BootNext == StartScheduler \/ CreateTestTask \/ LeaveBoot \/ panic \/ TaskYields

BootSpec == BootInit /\ [][BootNext]_bootVars /\ WF_bootVars(BootNext)
-----------------------------------------------------------------------------
(* sys.c:69-72 and sched.h:79: once sys_init has called schedule, control   *)
(* belongs to the scheduler and its tasks (to idle_task when there is no    *)
(* other, sys.c:71) and the call does not return.                           *)
BootNeverReturns == at # "panic"
=============================================================================
