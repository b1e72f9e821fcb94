---------------------------- MODULE SchedProofs ----------------------------
(***************************************************************************)
(* Theorems about Sched for a task table of any size.                      *)
(*                                                                         *)
(* One inductive invariant carries them all.  Its two ideas: the context   *)
(* of a READY task waits to be loaded and that of the running task is the  *)
(* last one loaded (but for slot 0 before the first switch), and the tasks *)
(* that went past a READY one lie further than it from next_task_index in  *)
(* the order of the search.                                                *)
(***************************************************************************)
EXTENDS Sched, FiniteSetTheorems, TLAPS

Used == {i \in Slots : task_state[i] # "unused"}

(* How many turns of schedule's loop come before it looks at slot i. *)
Distance(i) == IF next_task_index <= i THEN i - next_task_index
               ELSE i + MAX_TASKS - next_task_index

BeforeInit ==
  current_task = NoTask => \A i \in Slots : task_state[i] = "unused" /\ passedBy[i] = {}

AfterInit == current_task # NoTask => task_state[0] # "unused"

(* The context that was loaded last, or the one nobody has loaded yet. *)
Live(i) == context[i] = "loaded" \/ (i = 0 /\ context[0] = "prepared")

ContextsMatch ==
  /\ \A i \in Slots : task_state[i] = "ready" => context[i] \in {"prepared", "saved"}
  /\ current_task # NoTask => Live(current_task)

PassedAreBehind ==
  \A i \in Slots :
    /\ task_state[i] # "ready" => passedBy[i] = {}
    /\ \A j \in passedBy[i] : Distance(j) > Distance(i)

IInv == /\ SchedTypeOK /\ OneRunning
        /\ BeforeInit /\ AfterInit /\ ContextsMatch /\ PassedAreBehind
-----------------------------------------------------------------------------
(* Arithmetic of the search order; Ring is not expanded anywhere else.      *)
LEMMA Wrap ==
  ASSUME NEW M \in Nat, M >= 1, NEW x \in Nat, x < 2 * M
  PROVE  /\ x < M => x % M = x
         /\ x >= M => x % M = x - M
  BY SMT

LEMMA RingValue ==
  ASSUME NEW i \in Nat, i < 2 * MAX_TASKS
  PROVE  /\ Ring(i) \in Slots
         /\ i < MAX_TASKS => Ring(i) = i
         /\ i >= MAX_TASKS => Ring(i) = i - MAX_TASKS
<1>1. MAX_TASKS \in Nat /\ MAX_TASKS >= 1
  BY SlotsAssumption
<1>2. /\ i < MAX_TASKS => i % MAX_TASKS = i
      /\ i >= MAX_TASKS => i % MAX_TASKS = i - MAX_TASKS
  BY <1>1, Wrap
<1>3. i % MAX_TASKS \in Slots
  BY <1>1, <1>2 DEF Slots
<1> QED BY <1>2, <1>3 DEF Ring

(* The distances, as two cases without overlap. *)
LEMMA DistanceValue ==
  ASSUME next_task_index \in Slots, NEW i \in Slots
  PROVE  /\ Distance(i) \in Slots
         /\ next_task_index <= i => Distance(i) = i - next_task_index
         /\ next_task_index > i => Distance(i) = i + MAX_TASKS - next_task_index
<1>1. /\ MAX_TASKS \in Nat /\ next_task_index \in Nat /\ next_task_index < MAX_TASKS
      /\ i \in Nat /\ i < MAX_TASKS
  BY SlotsAssumption DEF Slots
<1>2. next_task_index <= i => Distance(i) = i - next_task_index
  BY DEF Distance
<1>3. next_task_index > i => Distance(i) = i + MAX_TASKS - next_task_index
  BY <1>1 DEF Distance
<1>4. Distance(i) \in Slots
  BY <1>1, <1>2, <1>3 DEF Slots
<1> QED BY <1>2, <1>3, <1>4

LEMMA DistanceOfSlot ==
  ASSUME next_task_index \in Slots, NEW i \in Slots
  PROVE  Distance(i) \in Slots /\ Candidate(Distance(i)) = i
<1>1. /\ MAX_TASKS \in Nat /\ next_task_index \in Nat /\ next_task_index < MAX_TASKS
      /\ i \in Nat /\ i < MAX_TASKS
  BY SlotsAssumption DEF Slots
<1>2. CASE next_task_index <= i
  <2>1. next_task_index + Distance(i) = i
    BY <1>1, <1>2, DistanceValue
  <2>2. Ring(i) = i
    BY <1>1, RingValue
  <2> QED BY <2>1, <2>2, DistanceValue DEF Candidate
<1>3. CASE next_task_index > i
  <2>1. next_task_index + Distance(i) = i + MAX_TASKS
    BY <1>1, <1>3, DistanceValue
  <2>2. Ring(i + MAX_TASKS) = i
    BY <1>1, RingValue
  <2> QED BY <2>1, <2>2, DistanceValue DEF Candidate
<1> QED BY <1>1, <1>2, <1>3

LEMMA DistanceOfCandidate ==
  ASSUME next_task_index \in Slots, NEW k \in Slots
  PROVE  Candidate(k) \in Slots /\ Distance(Candidate(k)) = k
<1>1. /\ MAX_TASKS \in Nat /\ next_task_index \in Nat /\ next_task_index < MAX_TASKS
      /\ k \in Nat /\ k < MAX_TASKS
  BY SlotsAssumption DEF Slots
<1>2. next_task_index + k \in Nat /\ next_task_index + k < 2 * MAX_TASKS
  BY <1>1
<1>3. Candidate(k) \in Slots
  BY <1>2, RingValue DEF Candidate
<1>4. CASE next_task_index + k < MAX_TASKS
  <2>1. Candidate(k) = next_task_index + k
    BY <1>2, <1>4, RingValue DEF Candidate
  <2> QED BY <1>1, <1>3, <2>1, DistanceValue
<1>5. CASE next_task_index + k >= MAX_TASKS
  <2> DEFINE x == next_task_index + k
  <2>1. Candidate(k) = x - MAX_TASKS
    <3>1. x \in Nat /\ x < 2 * MAX_TASKS /\ x >= MAX_TASKS
      BY <1>2, <1>5
    <3> HIDE DEF x
    <3>2. Ring(x) = x - MAX_TASKS
      BY <3>1, RingValue
    <3> QED BY <3>2 DEF Candidate, x
  <2> QED BY <1>1, <1>3, <2>1, DistanceValue
<1> QED BY <1>1, <1>4, <1>5

(* When the search resumes after the slot it took, the slots looked at so   *)
(* far move to the end of the order and the others come k + 1 turns sooner. *)
LEMMA DistanceAfter ==
  ASSUME next_task_index \in Slots, NEW k \in Slots, NEW i \in Slots,
         next_task_index' = NextIndex(k)
  PROVE  /\ next_task_index' \in Slots
         /\ Distance(i) > k => Distance(i)' = Distance(i) - (k + 1)
         /\ Distance(i) <= k => Distance(i)' = Distance(i) + MAX_TASKS - (k + 1)
<1>1. /\ MAX_TASKS \in Nat /\ next_task_index \in Nat /\ next_task_index < MAX_TASKS
      /\ k \in Nat /\ k < MAX_TASKS /\ i \in Nat /\ i < MAX_TASKS
  BY SlotsAssumption DEF Slots
<1>2. next_task_index + k + 1 \in Nat /\ next_task_index + k + 1 < 2 * MAX_TASKS
  BY <1>1
<1>3. next_task_index' \in Slots
  BY <1>2, RingValue DEF NextIndex
<1>4. /\ next_task_index' <= i => Distance(i)' = i - next_task_index'
      /\ next_task_index' > i => Distance(i)' = i + MAX_TASKS - next_task_index'
  BY <1>1, <1>3, SlotsAssumption DEF Distance, Slots
<1>5. CASE next_task_index + k + 1 < MAX_TASKS
  <2>1. next_task_index' = next_task_index + k + 1
    BY <1>2, <1>5, RingValue DEF NextIndex
  <2>2. CASE next_task_index <= i
    BY <1>1, <1>3, <1>4, <1>5, <2>1, <2>2, DistanceValue
  <2>3. CASE next_task_index > i
    BY <1>1, <1>3, <1>4, <1>5, <2>1, <2>3, DistanceValue
  <2> QED BY <1>1, <2>2, <2>3
<1>6. CASE next_task_index + k + 1 >= MAX_TASKS
  <2> DEFINE x == next_task_index + k + 1
  <2>1. next_task_index' = x - MAX_TASKS
    <3>1. x \in Nat /\ x < 2 * MAX_TASKS /\ x >= MAX_TASKS
      BY <1>2, <1>6
    <3> HIDE DEF x
    <3>2. Ring(x) = x - MAX_TASKS
      BY <3>1, RingValue
    <3> QED BY <3>2 DEF NextIndex, x
  <2>2. CASE next_task_index <= i
    BY <1>1, <1>3, <1>4, <1>6, <2>1, <2>2, DistanceValue
  <2>3. CASE next_task_index > i
    BY <1>1, <1>3, <1>4, <1>6, <2>1, <2>3, DistanceValue
  <2> QED BY <1>1, <2>2, <2>3
<1> QED BY <1>1, <1>5, <1>6
-----------------------------------------------------------------------------
LEMMA SlotsFinite == IsFiniteSet(Slots) /\ Cardinality(Slots) = MAX_TASKS
<1>1. MAX_TASKS \in Nat /\ MAX_TASKS >= 1 /\ MAX_TASKS - 1 \in Int /\ 0 \in Int
  BY SlotsAssumption
<1>2. /\ IsFiniteSet(0..(MAX_TASKS - 1))
      /\ Cardinality(0..(MAX_TASKS - 1)) =
           IF 0 > MAX_TASKS - 1 THEN 0 ELSE (MAX_TASKS - 1) - 0 + 1
  BY <1>1, FS_Interval
<1> QED BY <1>1, <1>2 DEF Slots

LEMMA InitIInv == SchedInit => IInv
<1> SUFFICES ASSUME SchedInit PROVE IInv
  OBVIOUS
<1>1. 0 \in Slots /\ 0 \in 0..MAX_TASKS
  BY SlotsAssumption DEF Slots
<1>2. SchedTypeOK
  BY <1>1 DEF SchedInit, SchedTypeOK
<1>3. OneRunning
  <2>1. {i \in Slots : task_state[i] # "unused"} = {}
    BY DEF SchedInit
  <2>2. \A i \in Slots : task_state[i] = "unused" /\ i # current_task
    BY NamesAssumption DEF SchedInit
  <2> QED BY <2>1, <2>2, FS_EmptySet DEF SchedInit, OneRunning
<1>4. BeforeInit /\ AfterInit /\ ContextsMatch /\ PassedAreBehind
  BY DEF SchedInit, BeforeInit, AfterInit, ContextsMatch, PassedAreBehind
<1> QED BY <1>2, <1>3, <1>4 DEF IInv

LEMMA SchedInitKeepsIInv ==
  ASSUME IInv, sched_init
  PROVE  IInv'
<1>1. /\ task_state' = [i \in Slots |-> IF i = 0 THEN "running" ELSE "unused"]
      /\ context' = [context EXCEPT ![0] = "prepared"]
      /\ task_count' = 1 /\ current_task' = 0 /\ next_task_index' = Ring(1)
      /\ passedBy' = passedBy /\ current_task = NoTask
  BY DEF sched_init
<1>2. SchedTypeOK
  BY DEF IInv
<1>3. MAX_TASKS \in Nat /\ MAX_TASKS >= 1 /\ 0 \in Slots
  BY SlotsAssumption DEF Slots
<1>4. Ring(1) \in Slots
  BY <1>3, RingValue
<1>5. SchedTypeOK'
  <2>1. 1 \in 0..MAX_TASKS
    BY <1>3
  <2>2. context' \in [Slots -> {"blank", "prepared", "saved", "loaded"}]
    BY <1>1, <1>2, <1>3 DEF SchedTypeOK
  <2> QED BY <1>1, <1>2, <1>3, <1>4, <2>1, <2>2 DEF SchedTypeOK
<1>6. OneRunning'
  <2>1. {i \in Slots : task_state'[i] # "unused"} = {0}
    BY <1>1, <1>3
  <2>2. \A i \in Slots : task_state'[i] = "running" <=> i = 0
    BY <1>1
  <2> QED BY <1>1, <2>1, <2>2, FS_Singleton DEF OneRunning
<1>7. BeforeInit' /\ AfterInit'
  BY <1>1, <1>3, NamesAssumption DEF BeforeInit, AfterInit
<1>8. ContextsMatch'
  BY <1>1, <1>2, <1>3 DEF ContextsMatch, Live, SchedTypeOK
<1>9. PassedAreBehind'
  BY <1>1 DEF IInv, BeforeInit, PassedAreBehind
<1> QED BY <1>5, <1>6, <1>7, <1>8, <1>9 DEF IInv

LEMMA CreateKeepsIInv ==
  ASSUME IInv, sched_create_task
  PROVE  IInv'
<1>1. PICK i \in Slots : /\ FirstUnused(i)
                         /\ task_state' = [task_state EXCEPT ![i] = "ready"]
                         /\ context' = [context EXCEPT ![i] = "prepared"]
  BY DEF sched_create_task
<1>2. /\ task_count' = task_count + 1 /\ current_task' = current_task
      /\ next_task_index' = next_task_index /\ passedBy' = passedBy
      /\ current_task # NoTask
  BY DEF sched_create_task, pointer
<1>3. /\ SchedTypeOK /\ OneRunning /\ task_state[i] = "unused"
      /\ \A j \in Slots : j # i => task_state'[j] = task_state[j] /\ context'[j] = context[j]
      /\ task_state'[i] = "ready" /\ context'[i] = "prepared"
  BY <1>1 DEF IInv, SchedTypeOK, FirstUnused
<1>4. i # 0
  BY <1>2, <1>3 DEF IInv, AfterInit
<1>5. OneRunning'
  <2> DEFINE S == {j \in Slots : task_state[j] # "unused"}
  <2>1. {j \in Slots : task_state'[j] # "unused"} = S \cup {i}
    BY <1>3
  <2>2. IsFiniteSet(S)
    BY SlotsFinite, FS_Subset
  <2>3. Cardinality(S \cup {i}) = Cardinality(S) + 1
    <3>1. i \notin S
      BY <1>3
    <3> HIDE DEF S
    <3> QED BY <2>2, <3>1, FS_AddElement
  <2>4. task_count' = Cardinality({j \in Slots : task_state'[j] # "unused"})
    BY <1>2, <1>3, <2>1, <2>3 DEF OneRunning
  <2>5. \A j \in Slots : task_state'[j] = "running" <=> j = current_task'
    <3>1. i # current_task
      BY <1>3 DEF OneRunning
    <3> QED BY <1>2, <1>3, <3>1 DEF OneRunning
  <2> QED BY <2>4, <2>5 DEF OneRunning
<1>6. SchedTypeOK'
  <2>1. task_count' \in 0..MAX_TASKS
    <3> DEFINE S == {j \in Slots : task_state'[j] # "unused"}
    <3>1. S \in SUBSET Slots /\ task_count' = Cardinality(S)
      BY <1>5 DEF OneRunning
    <3> HIDE DEF S
    <3>2. Cardinality(S) \in Nat /\ Cardinality(S) <= MAX_TASKS
      BY <3>1, SlotsFinite, FS_Subset, FS_CardinalityType
    <3> QED BY <3>1, <3>2, SlotsAssumption
  <2>2. task_state' \in [Slots -> {"unused", "ready", "running"}]
    BY <1>1, <1>3 DEF SchedTypeOK
  <2>3. context' \in [Slots -> {"blank", "prepared", "saved", "loaded"}]
    BY <1>1, <1>3 DEF SchedTypeOK
  <2> QED BY <1>2, <1>3, <2>1, <2>2, <2>3 DEF SchedTypeOK
<1>7. BeforeInit' /\ AfterInit'
  BY <1>2, <1>3, <1>4, SlotsAssumption DEF IInv, BeforeInit, AfterInit, Slots
<1>8. ContextsMatch'
  <2>1. ASSUME NEW j \in Slots, task_state'[j] = "ready"
        PROVE  context'[j] \in {"prepared", "saved"}
    BY <1>3, <2>1 DEF IInv, ContextsMatch
  <2>2. Live(current_task)'
    <3>1. current_task \in Slots /\ current_task # i
      BY <1>2, <1>3 DEF SchedTypeOK, OneRunning
    <3> QED BY <1>2, <1>3, <1>4, <3>1, SlotsAssumption DEF IInv, ContextsMatch, Live, Slots
  <2> QED BY <2>1, <2>2 DEF ContextsMatch
<1>9. PassedAreBehind'
  <2>1. \A j : Distance(j)' = Distance(j)
    BY <1>2 DEF Distance
  <2>2. passedBy[i] = {}
    BY <1>3 DEF IInv, PassedAreBehind
  <2> QED BY <1>2, <1>3, <2>1, <2>2 DEF IInv, PassedAreBehind
<1> QED BY <1>5, <1>6, <1>7, <1>8, <1>9 DEF IInv

(* What a dispatch does, as values. *)
LEMMA DispatchValues ==
  ASSUME IInv, current_task # NoTask, NEW k \in Slots, FirstEligible(k), Dispatch(k)
  PROVE  /\ current_task \in Slots /\ Candidate(k) \in Slots
         /\ Candidate(k) # current_task
         /\ task_state[current_task] = "running" /\ task_state[Candidate(k)] = "ready"
         /\ current_task' = Candidate(k)
         /\ \A j \in Slots : task_state'[j] = IF j = Candidate(k) THEN "running"
                                         ELSE IF j = current_task THEN "ready" ELSE task_state[j]
         /\ \A j \in Slots : context'[j] = IF j = Candidate(k) THEN "loaded"
                                           ELSE IF j = current_task THEN "saved" ELSE context[j]
         /\ next_task_index' = NextIndex(k)
         /\ \A j \in Slots : passedBy'[j] =
              IF j \in {current_task, Candidate(k)} \/ task_state[j] # "ready"
              THEN {} ELSE passedBy[j] \cup {Candidate(k)}
         /\ \A j \in Slots : task_state[j] = "ready" /\ j # Candidate(k) => Distance(j) > k
<1>1. /\ SchedTypeOK /\ OneRunning /\ current_task \in Slots /\ next_task_index \in Slots
  BY DEF IInv, SchedTypeOK
<1>2. Candidate(k) \in Slots /\ Distance(Candidate(k)) = k
  BY <1>1, DistanceOfCandidate
<1>3. Candidate(k) # current_task /\ task_state[Candidate(k)] \in {"ready", "running"}
  BY DEF FirstEligible, Eligible
<1>4. task_state[current_task] = "running" /\ task_state[Candidate(k)] = "ready"
  BY <1>1, <1>2, <1>3 DEF OneRunning
<1>5. /\ current_task' = Candidate(k) /\ next_task_index' = NextIndex(k)
      /\ passedBy' = [j \in Slots |->
            IF j \in {current_task, Candidate(k)} \/ task_state[j] # "ready"
            THEN {} ELSE passedBy[j] \cup {Candidate(k)}]
  BY DEF Dispatch
<1>6. task_state' = [task_state EXCEPT
                  ![current_task] = IF @ = "running" THEN "ready" ELSE @,
                  ![Candidate(k)] = "running"]
  BY DEF Dispatch
<1>7. context' = [context EXCEPT ![current_task] = "saved", ![Candidate(k)] = "loaded"]
  BY DEF Dispatch, context_switch
<1>8. \A j \in Slots : task_state'[j] = IF j = Candidate(k) THEN "running"
                                   ELSE IF j = current_task THEN "ready" ELSE task_state[j]
  BY <1>1, <1>2, <1>3, <1>4, <1>6 DEF SchedTypeOK
<1>9. \A j \in Slots : context'[j] = IF j = Candidate(k) THEN "loaded"
                                     ELSE IF j = current_task THEN "saved" ELSE context[j]
  BY <1>1, <1>2, <1>3, <1>7 DEF SchedTypeOK
<1>10. ASSUME NEW j \in Slots, task_state[j] = "ready", j # Candidate(k)
       PROVE  Distance(j) > k
  <2>1. Distance(j) \in Slots /\ Candidate(Distance(j)) = j
    BY <1>1, DistanceOfSlot
  <2>2. Eligible(j)
    BY <1>4, <1>10 DEF Eligible
  <2>3. ~(Distance(j) \in 0..(k - 1))
    BY <2>1, <2>2 DEF FirstEligible
  <2>4. Distance(j) # k
    BY <1>10, <2>1
  <2> QED BY <2>1, <2>3, <2>4, SlotsAssumption DEF Slots
<1> QED BY <1>1, <1>2, <1>3, <1>4, <1>5, <1>8, <1>9, <1>10

LEMMA DispatchKeepsIInv ==
  ASSUME IInv, current_task # NoTask, NEW k \in Slots, FirstEligible(k), Dispatch(k),
         UNCHANGED task_count
  PROVE  IInv'
<1> DEFINE old == current_task
           new == Candidate(k)
<1>1. /\ old \in Slots /\ new \in Slots /\ new # old
      /\ task_state[old] = "running" /\ task_state[new] = "ready"
      /\ current_task' = new
      /\ \A j \in Slots : task_state'[j] = IF j = new THEN "running"
                                      ELSE IF j = old THEN "ready" ELSE task_state[j]
      /\ \A j \in Slots : context'[j] = IF j = new THEN "loaded"
                                        ELSE IF j = old THEN "saved" ELSE context[j]
      /\ next_task_index' = NextIndex(k)
  BY DispatchValues
<1>2. /\ \A j \in Slots : passedBy'[j] =
            IF j \in {old, new} \/ task_state[j] # "ready" THEN {} ELSE passedBy[j] \cup {new}
      /\ \A j \in Slots : task_state[j] = "ready" /\ j # new => Distance(j) > k
  BY DispatchValues
<1> HIDE DEF old, new
<1>3. SchedTypeOK /\ OneRunning /\ ContextsMatch /\ AfterInit /\ PassedAreBehind
  BY DEF IInv
<1>5. SchedTypeOK'
  <2>1. task_state' \in [Slots -> {"unused", "ready", "running"}]
    BY <1>3 DEF Dispatch, SchedTypeOK
  <2>2. context' \in [Slots -> {"blank", "prepared", "saved", "loaded"}]
    BY <1>3 DEF Dispatch, context_switch, SchedTypeOK
  <2>4. next_task_index' \in Slots
    BY <1>1, <1>3, DistanceAfter DEF SchedTypeOK
  <2>5. passedBy' \in [Slots -> SUBSET Slots]
    BY <1>1, <1>3 DEF Dispatch, SchedTypeOK, new
  <2> QED BY <1>1, <1>3, <2>1, <2>2, <2>4, <2>5 DEF SchedTypeOK
<1>6. OneRunning'
  <2>1. {j \in Slots : task_state'[j] # "unused"} = {j \in Slots : task_state[j] # "unused"}
    BY <1>1
  <2>2. \A j \in Slots : task_state'[j] = "running" <=> j = current_task'
    BY <1>1, <1>3 DEF OneRunning, old
  <2> QED BY <1>3, <2>1, <2>2 DEF OneRunning
<1>7. BeforeInit' /\ AfterInit'
  <2>1. 0 \in Slots /\ task_state[0] # "unused"
    BY <1>3, SlotsAssumption DEF AfterInit, Slots
  <2>2. current_task' # NoTask /\ task_state'[0] # "unused"
    BY <1>1, <2>1, NamesAssumption
  <2> QED BY <2>2 DEF BeforeInit, AfterInit
<1>8. ContextsMatch'
  <2>1. Live(current_task)'
    BY <1>1 DEF Live
  <2>2. ASSUME NEW j \in Slots, task_state'[j] = "ready"
        PROVE  context'[j] \in {"prepared", "saved"}
    BY <1>1, <1>3, <2>2 DEF ContextsMatch
  <2> QED BY <2>1, <2>2 DEF ContextsMatch
<1>9. PassedAreBehind'
  <2>1. ASSUME NEW i \in Slots, task_state'[i] # "ready" PROVE passedBy'[i] = {}
    BY <1>1, <1>2, <2>1
  <2>2. ASSUME NEW i \in Slots, NEW j \in passedBy'[i]
        PROVE  Distance(j)' > Distance(i)'
    <3>1. /\ i # new /\ i # old /\ task_state[i] = "ready"
          /\ j \in passedBy[i] \cup {new}
      BY <1>2, <2>2
    <3>2. /\ next_task_index \in Slots /\ passedBy[i] \subseteq Slots
          /\ MAX_TASKS \in Nat /\ k \in 0..(MAX_TASKS - 1)
      BY <1>3, SlotsAssumption DEF SchedTypeOK, Slots
    <3>3. Distance(i) > k /\ Distance(i) \in 0..(MAX_TASKS - 1)
      BY <1>2, <3>1, <3>2, DistanceValue DEF Slots
    <3>4. Distance(i)' = Distance(i) - (k + 1)
      BY <1>1, <3>2, <3>3, DistanceAfter
    <3>5. CASE j = new
      <4>1. Distance(j) = k
        BY <3>2, <3>5, DistanceOfCandidate DEF new
      <4>2. Distance(j)' = Distance(j) + MAX_TASKS - (k + 1)
        <5>1. Distance(j) <= k
          BY <3>2, <4>1
        <5> QED BY <1>1, <3>2, <3>5, <5>1, DistanceAfter
      <4> QED BY <3>2, <3>3, <3>4, <4>1, <4>2
    <3>6. CASE j \in passedBy[i]
      <4>1. Distance(j) > Distance(i)
        BY <1>3, <3>6 DEF PassedAreBehind
      <4>2. j \in Slots /\ Distance(j) \in 0..(MAX_TASKS - 1)
        BY <3>2, <3>6, DistanceValue DEF Slots
      <4>3. Distance(j)' = Distance(j) - (k + 1)
        <5>1. Distance(j) > k
          BY <3>2, <3>3, <4>1, <4>2
        <5> QED BY <1>1, <3>2, <4>2, <5>1, DistanceAfter
      <4> QED BY <3>2, <3>3, <3>4, <4>1, <4>2, <4>3
    <3> QED BY <3>1, <3>5, <3>6
  <2> QED BY <2>1, <2>2 DEF PassedAreBehind
<1> QED BY <1>5, <1>6, <1>7, <1>8, <1>9 DEF IInv

(* A context switch of a task to itself ends with its context loaded.       *)
LEMMA ResumeKeepsIInv ==
  ASSUME IInv, current_task # NoTask, Resume
  PROVE  IInv'
<1>1. /\ SchedTypeOK /\ current_task \in Slots /\ task_state[current_task] = "running"
  BY DEF IInv, SchedTypeOK, OneRunning
<1>2. /\ task_state' = task_state /\ task_count' = task_count /\ current_task' = current_task
      /\ next_task_index' = next_task_index /\ passedBy' = passedBy
      /\ context' = [context EXCEPT ![current_task] = "saved", ![current_task] = "loaded"]
  BY DEF Resume, context_switch, pointer
<1>3. context'[current_task] = "loaded"
  BY <1>1, <1>2 DEF SchedTypeOK
<1>4. \A j \in Slots : task_state[j] = "ready" => context'[j] = context[j]
  BY <1>1, <1>2 DEF SchedTypeOK
<1>5. SchedTypeOK'
  <2>1. context' \in [Slots -> {"blank", "prepared", "saved", "loaded"}]
    BY <1>1, <1>2 DEF SchedTypeOK
  <2> QED BY <1>1, <1>2, <2>1 DEF SchedTypeOK
<1>6. OneRunning' /\ BeforeInit' /\ AfterInit'
  BY <1>2 DEF IInv, OneRunning, BeforeInit, AfterInit
<1>7. ContextsMatch'
  BY <1>2, <1>3, <1>4 DEF IInv, ContextsMatch, Live
<1>8. PassedAreBehind'
  BY <1>2 DEF IInv, PassedAreBehind, Distance
<1> QED BY <1>5, <1>6, <1>7, <1>8 DEF IInv

LEMMA NextKeepsIInv ==
  ASSUME IInv, [SchedNext]_schedVars
  PROVE  IInv'
<1>1. CASE sched_init
  BY <1>1, SchedInitKeepsIInv
<1>2. CASE sched_create_task
  BY <1>2, CreateKeepsIInv
<1>3. CASE schedule
  BY <1>3, DispatchKeepsIInv, ResumeKeepsIInv DEF schedule
<1>4. CASE UNCHANGED schedVars
  <2>1. /\ task_state' = task_state /\ context' = context /\ task_count' = task_count
        /\ current_task' = current_task /\ next_task_index' = next_task_index
        /\ passedBy' = passedBy
    BY <1>4 DEF schedVars, table, pointer
  <2> QED BY <2>1 DEF IInv, SchedTypeOK, OneRunning, BeforeInit, AfterInit, ContextsMatch,
                      Live, PassedAreBehind, Distance
<1> QED BY <1>1, <1>2, <1>3, <1>4 DEF SchedNext
-----------------------------------------------------------------------------
(* For every table size: the task table, its counters and current_task      *)
(* agree at every step of sched.c, and exactly the task current_task points *)
(* to is RUNNING.                                                           *)
THEOREM SchedSafe == SchedSpec => [](SchedTypeOK /\ OneRunning)
<1>1. IInv /\ [SchedNext]_schedVars => IInv'
  BY NextKeepsIInv
<1>2. IInv => SchedTypeOK /\ OneRunning
  BY DEF IInv
<1> QED BY InitIInv, <1>1, <1>2, PTL DEF SchedSpec

(* Round robin for every table size: while a task is READY, schedule        *)
(* dispatches every other task at most once before it.                      *)
THEOREM RoundRobin == SchedSpec => NotPassedTwice
<1> DEFINE Fair == \A i \in Slots :
             task_state[i] = "ready" /\ task_state'[i] = "ready" /\ current_task' # current_task
               => current_task' \notin passedBy[i]
<1>1. ASSUME IInv, [SchedNext]_schedVars PROVE [Fair]_schedVars
  <2> SUFFICES ASSUME SchedNext, NEW i \in Slots, task_state[i] = "ready", task_state'[i] = "ready",
                      current_task' # current_task, current_task' \in passedBy[i]
               PROVE  FALSE
    BY <1>1
  <2>1. CASE sched_init
    BY <1>1, <2>1 DEF sched_init, IInv, BeforeInit
  <2>2. CASE sched_create_task
    BY <2>2 DEF sched_create_task, pointer
  <2>3. CASE schedule
    <3>1. current_task # NoTask
      BY <2>3 DEF schedule
    <3>2. PICK k \in Slots : FirstEligible(k) /\ Dispatch(k)
      BY <2>3 DEF schedule, Resume, pointer
    <3>3. /\ current_task' = Candidate(k) /\ Candidate(k) \in Slots
          /\ i # Candidate(k) => Distance(i) > k
      BY <1>1, <3>1, <3>2, DispatchValues
    <3>4. i # Candidate(k)
      BY <1>1, <3>1, <3>2, DispatchValues
    <3>5. Distance(Candidate(k)) = k /\ next_task_index \in Slots
      BY <1>1, DistanceOfCandidate DEF IInv, SchedTypeOK
    <3>6. Distance(Candidate(k)) > Distance(i)
      BY <1>1, <3>3 DEF IInv, PassedAreBehind
    <3>7. Distance(i) \in Slots
      BY <3>5, DistanceValue
    <3> QED BY <3>3, <3>4, <3>5, <3>6, <3>7, SlotsAssumption DEF Slots
  <2> QED BY <2>1, <2>2, <2>3 DEF SchedNext
<1>2. IInv /\ [SchedNext]_schedVars => IInv'
  BY NextKeepsIInv
<1>3. IInv /\ [SchedNext]_schedVars => [Fair]_schedVars
  BY <1>1
<1> QED BY InitIInv, <1>2, <1>3, PTL DEF SchedSpec, NotPassedTwice
-----------------------------------------------------------------------------
(* For every table size: schedule never loads a context that was loaded     *)
(* already, and never saves into one that still waits to be loaded, except  *)
(* what sched_init prepared for idle_task.                                  *)
THEOREM SchedLosesNoContext == SchedSpec => NoContextLost
<1> DEFINE Kept ==
             current_task # NoTask /\ current_task' # current_task
               => /\ context[current_task'] \in {"prepared", "saved"}
                  /\ \/ context[current_task] = "loaded"
                     \/ current_task = 0 /\ context[0] = "prepared"
<1>1. ASSUME IInv, [SchedNext]_schedVars PROVE [Kept]_schedVars
  <2> SUFFICES ASSUME SchedNext, current_task # NoTask, current_task' # current_task
               PROVE  /\ context[current_task'] \in {"prepared", "saved"}
                      /\ Live(current_task)
    BY <1>1 DEF Live
  <2>1. schedule
    BY DEF SchedNext, sched_init, sched_create_task, pointer
  <2>2. PICK k \in Slots : FirstEligible(k) /\ Dispatch(k)
    BY <2>1 DEF schedule, Resume, pointer
  <2>3. /\ current_task' = Candidate(k) /\ Candidate(k) \in Slots
        /\ task_state[Candidate(k)] = "ready"
    BY <1>1, <2>2, DispatchValues
  <2> QED BY <1>1, <2>3 DEF IInv, ContextsMatch
<1>2. IInv /\ [SchedNext]_schedVars => IInv'
  BY NextKeepsIInv
<1>3. IInv /\ [SchedNext]_schedVars => [Kept]_schedVars
  BY <1>1
<1> QED BY InitIInv, <1>2, <1>3, PTL DEF SchedSpec, NoContextLost
=============================================================================
