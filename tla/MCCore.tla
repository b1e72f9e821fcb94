-------------------------------- MODULE MCCore --------------------------------
(***************************************************************************)
(* The terminal, the scheduler, the memory manager and the installer.  They *)
(* share no state with one another: each behaviour runs one of them, chosen *)
(* by part, and leaves the others in a first state of theirs.  The table of *)
(* tasks has five slots, so that tasks are created while others wait on     *)
(* both sides of next_task_index, and the table fills up.                   *)
(***************************************************************************)
EXTENDS MCTty, Sched, MCMm, MCInstall

VARIABLE part

coreVars == <<ttyVars, schedVars, mmVars, installVars, part>>

(* The terminal's drivers and the installer's disks vary in their own part. *)
Init ==
  /\ part \in {"tty", "sched", "mm", "install"}
  /\ TtyInit /\ SchedInit /\ MmInit
  /\ part = "tty" \/ feed = CHOOSE f \in Feeds : TRUE
  /\ \/ part = "install" /\ InstallInit
     \/ part # "install" /\ Medium(PlainSource, Usual) /\ reboots = 0

ButTty     == UNCHANGED <<schedVars, mmVars, installVars, part>>
ButSched   == UNCHANGED <<ttyVars, mmVars, installVars, part>>
ButMm      == UNCHANGED <<ttyVars, schedVars, installVars, part>>
ButInstall == UNCHANGED <<ttyVars, schedVars, mmVars, part>>

Next ==
  \/ part = "tty"     /\ TtyNext     /\ ButTty
  \/ part = "sched"   /\ SchedNext   /\ ButSched
  \/ part = "mm"      /\ MmNext      /\ ButMm
  \/ part = "install" /\ InstallNext /\ ButInstall

(* What each part's own specification is fair to: part never changes, so    *)
(* fairness to the whole is fairness to the one that runs.                  *)
Goes ==
  \/ part = "tty"     /\ Reader   /\ ButTty
  \/ part = "sched"   /\ schedule /\ ButSched
  \/ part = "install" /\ Program  /\ ButInstall

Spec == Init /\ [][Next]_coreVars /\ WF_coreVars(Goes)
=============================================================================
