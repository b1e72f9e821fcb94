-------------------------------- MODULE Heap --------------------------------
(***************************************************************************)
(* What a memory allocator promises, without headers, lists or block       *)
(* sizes: the bytes it gives to one caller lie in the pool and belong to   *)
(* no other caller until they are given back.                              *)
(*                                                                         *)
(* Mm implements this module (see the refinement mapping there).           *)
(***************************************************************************)
EXTENDS Integers

CONSTANT Requests   \* the lengths callers ask for

VARIABLES
  pool,       \* the addresses managed
  live        \* what callers hold: records of a first address and a length

vars == <<pool, live>>

Bytes(l) == l.ptr..(l.ptr + l.len - 1)

Init == pool = {} /\ live = {}

(* The pool is chosen before anything is allocated from it. *)
Manage ==
  /\ pool = {} /\ live = {} /\ live' = {}
  /\ pool' \in SUBSET Nat

Alloc(l) ==
  /\ Bytes(l) \subseteq pool
  /\ \A other \in live : Bytes(l) \cap Bytes(other) = {}
  /\ live' = live \cup {l}
  /\ UNCHANGED pool

Free(l) ==
  /\ l \in live
  /\ live' = live \ {l}
  /\ UNCHANGED pool

Next ==
  \/ Manage
  \/ \E l \in [ptr : pool, len : Requests] : Alloc(l)
  \/ \E l \in live : Free(l)

Spec == Init /\ [][Next]_vars
=============================================================================
