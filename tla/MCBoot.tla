------------------------------- MODULE MCBoot -------------------------------
(* The scheduler with one task beside idle_task, as sys_init creates it.    *)
EXTENDS BootTasks
=============================================================================
