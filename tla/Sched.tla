------------------------------- MODULE Sched -------------------------------
(***************************************************************************)
(* The cooperative scheduler of sched.c: the task table, sched_init,       *)
(* sched_create_task and schedule with the context switch at its end.      *)
(*                                                                         *)
(* There is one processor and no preemption (the timer interrupt handler   *)
(* of traps.c does not schedule), so a call of these functions is one      *)
(* step.  Of a struct task_context only the last use made of it counts:    *)
(* whether sched_create_task prepared it, or schedule gave it to           *)
(* context_switch to save into or to load from.  What the instructions of  *)
(* context_switch do to the registers is the subject of Switch.            *)
(*                                                                         *)
(* Definitions named Bad... are seeded faults, as in Tty.                   *)
(***************************************************************************)
EXTENDS Naturals, FiniteSets

CONSTANTS
  MAX_TASKS,
  NoTask      \* the null struct task pointer

Slots == 0..(MAX_TASKS - 1)

ASSUME SlotsAssumption == MAX_TASKS \in Nat \ {0}
ASSUME NamesAssumption == NoTask \notin Slots

VARIABLES
  task_state,       \* the state field of each tasks[i]
  context,          \* the last use made of each tasks[i].context
  current_task,     \* index of the task current_task points to, or NoTask
  next_task_index,
  task_count,
  passedBy          \* history: the tasks dispatched since tasks[i] last became
                    \* READY, while it is READY

table   == <<task_state, context, task_count>>
pointer == <<current_task, next_task_index>>
schedVars    == <<table, pointer, passedBy>>
-----------------------------------------------------------------------------
Ring(i) == i % MAX_TASKS

(* tasks[] and the other statics are zero (head.s clears the BSS). *)
SchedInit ==
  /\ task_state = [i \in Slots |-> "unused"]
  /\ context = [i \in Slots |-> "blank"]
  /\ current_task = NoTask
  /\ next_task_index = 0
  /\ task_count = 0
  /\ passedBy = [i \in Slots |-> {}]

(* Every slot is emptied and idle_task created in the first of them, which  *)
(* is then called the running task, although its context is not loaded.     *)
sched_init ==
  /\ current_task = NoTask
  /\ task_state' = [i \in Slots |-> IF i = 0 THEN "running" ELSE "unused"]
  /\ context' = [context EXCEPT ![0] = "prepared"]
  /\ task_count' = 1
  /\ current_task' = 0
  /\ next_task_index' = Ring(1)
  /\ UNCHANGED passedBy

FirstUnused(i) == task_state[i] = "unused" /\ \A j \in 0..(i - 1) : task_state[j] # "unused"

(* With no UNUSED slot left the call returns -1 and changes nothing. *)
BadCreate ==                    \* any slot that is not running is taken for free
  /\ current_task # NoTask
  /\ \E i \in Slots :
       /\ task_state[i] # "running"
       /\ task_state' = [task_state EXCEPT ![i] = "ready"]
       /\ context' = [context EXCEPT ![i] = "prepared"]
  /\ task_count' = task_count + 1
  /\ UNCHANGED <<pointer, passedBy>>

sched_create_task ==
  /\ current_task # NoTask
  /\ \E i \in Slots :
       /\ FirstUnused(i)
       /\ task_state' = [task_state EXCEPT ![i] = "ready"]
       /\ context' = [context EXCEPT ![i] = "prepared"]
  /\ task_count' = task_count + 1
  /\ UNCHANGED <<pointer, passedBy>>

(* The k-th slot looked at by the loop of schedule, whether it is taken, and *)
(* whether it is the first that is.                                          *)
Candidate(k) == Ring(next_task_index + k)
BadEligible(i) == task_state[i] = "running" /\ i # current_task   \* READY is forgotten
Eligible(i) == task_state[i] \in {"ready", "running"} /\ i # current_task
FirstEligible(k) ==
  /\ Eligible(Candidate(k))
  /\ \A j \in 0..(k - 1) : ~Eligible(Candidate(j))

(* schedule's call context_switch(&old->context, &new->context).            *)
BadContextSwitch(old, new) ==   \* the arguments are swapped
  context' = [context EXCEPT ![new] = "saved", ![old] = "loaded"]

context_switch(old, new) ==
  context' = [context EXCEPT ![old] = "saved", ![new] = "loaded"]

UnwrappedIndex(k) == next_task_index + k + 1
StuckIndex(k) == 0              \* every search starts at the first slot
NextIndex(k) == Ring(next_task_index + k + 1)

Dispatch(k) ==
  LET old == current_task
      new == Candidate(k)
  IN  /\ current_task' = new
      /\ next_task_index' = NextIndex(k)
      /\ task_state' = [task_state EXCEPT ![old] = IF @ = "running" THEN "ready" ELSE @,
                                ![new] = "running"]
      /\ context_switch(old, new)
      /\ passedBy' = [i \in Slots |-> IF i \in {old, new} \/ task_state[i] # "ready"
                                      THEN {} ELSE passedBy[i] \cup {new}]

(* A whole turn found no other task: the caller's context is the one saved  *)
(* and the one loaded.                                                       *)
Resume ==
  /\ \A k \in Slots : ~Eligible(Candidate(k))
  /\ context_switch(current_task, current_task)
  /\ UNCHANGED <<task_state, task_count, pointer, passedBy>>

schedule ==
  /\ current_task # NoTask
  /\ \/ \E k \in Slots : FirstEligible(k) /\ Dispatch(k) /\ UNCHANGED task_count
     \/ Resume

SchedNext == sched_init \/ sched_create_task \/ schedule

(* Every task calls schedule again and again, as the loops of idle_task     *)
(* (sched.c:28) and test_task (sys.c:60) do.                                *)
SchedSpec == SchedInit /\ [][SchedNext]_schedVars /\ WF_schedVars(schedule)
-----------------------------------------------------------------------------
SchedTypeOK ==
  /\ task_state \in [Slots -> {"unused", "ready", "running"}]
  /\ context \in [Slots -> {"blank", "prepared", "saved", "loaded"}]
  /\ current_task \in Slots \cup {NoTask}
  /\ next_task_index \in Slots
  /\ task_count \in 0..MAX_TASKS
  /\ passedBy \in [Slots -> SUBSET Slots]

(* The table, the two static counters and current_task agree: the task that *)
(* current_task points to is RUNNING and no other is (schedule would also   *)
(* dispatch a RUNNING one, sched.c:177), and task_count slots are in use.   *)
OneRunning ==
  /\ \A i \in Slots : task_state[i] = "running" <=> i = current_task
  /\ task_count = Cardinality({i \in Slots : task_state[i] # "unused"})

(* Round robin: no task is dispatched a second time while another one that  *)
(* was READY all along still waits, whatever is created in between          *)
(* (next_task_index moves past every task that schedule dispatches).        *)
NotPassedTwice ==
  [][\A i \in Slots :
       task_state[i] = "ready" /\ task_state'[i] = "ready" /\ current_task' # current_task
         => current_task' \notin passedBy[i]]_schedVars

(* Every READY task gets the processor as long as the tasks keep yielding.  *)
ReadyRuns == \A i \in Slots : task_state[i] = "ready" ~> current_task = i

(* No saved context is lost and none is continued twice: a switch goes to a *)
(* context that was prepared or saved and not loaded since, and saves into  *)
(* the one that was loaded last.  The one exception is the first switch     *)
(* away from slot 0: it saves into what sched_init prepared for idle_task   *)
(* and never loaded.  This is about which structure schedule uses for what; *)
(* that context_switch keeps its half of the bargain is not implied.        *)
NoContextLost ==
  [][current_task # NoTask /\ current_task' # current_task
       => /\ context[current_task'] \in {"prepared", "saved"}
          /\ \/ context[current_task] = "loaded"
             \/ current_task = 0 /\ context[0] = "prepared"]_schedVars
=============================================================================
