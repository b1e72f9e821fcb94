------------------------------ MODULE MCSwitch ------------------------------
(* A segment of 96 words: two contexts, the stacks of idle_task and of      *)
(* test_task and that of the boot flow, none of which meet.                 *)
EXTENDS Switch

SegmentWords == 0..95
Contexts == <<0, 14>>
StackTops == <<48, 64>>
Entries == <<91, 92>>
=============================================================================
