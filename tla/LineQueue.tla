----------------------------- MODULE LineQueue -----------------------------
(***************************************************************************)
(* What a LI-DOS terminal promises to the task that reads from it, with    *)
(* the circular buffer, its indices and the polling loops left out: typed  *)
(* characters form one bounded first-in first-out queue; the erase key     *)
(* removes the newest character still queued; a reader takes characters    *)
(* from the front, and its call returns only at a point its mode allows.   *)
(*                                                                         *)
(* Tty implements this module (see the refinement mapping there).          *)
(***************************************************************************)
EXTENDS Naturals, Sequences

CONSTANTS
  Capacity,   \* most characters queued at a time
  Text,       \* the characters that can be queued
  NL,         \* the line terminator
  MaxCount    \* largest byte count a reader asks for

VARIABLES
  q,          \* characters typed and not yet taken, oldest first
  call,       \* the reader's call: "none", "line", "raw" or "char"
  want,       \* how many characters the call may take
  got         \* the characters taken by the current or latest call

vars == <<q, call, want, got>>

Init ==
  /\ q = << >>
  /\ call = "none"
  /\ want = 0
  /\ got = << >>

(* The driver hands over one character and there is room for it. *)
Put(c) ==
  /\ Len(q) < Capacity
  /\ q' = Append(q, c)
  /\ UNCHANGED <<call, want, got>>

(* The erase key takes back the newest queued character. *)
Erase ==
  /\ q # << >>
  /\ q' = SubSeq(q, 1, Len(q) - 1)
  /\ UNCHANGED <<call, want, got>>

(* Attaching a driver to the terminal forgets what was typed before. *)
Reset ==
  /\ call = "none"
  /\ q' = << >>
  /\ UNCHANGED <<call, want, got>>

(* A task starts a read. *)
Begin(kind, n) ==
  /\ call = "none"
  /\ call' = kind
  /\ want' = n
  /\ got' = << >>
  /\ UNCHANGED q

(* A read never takes more than it asked for, and a line read takes nothing *)
(* after the end of the first line.                                         *)
Take ==
  /\ call # "none"
  /\ q # << >>
  /\ Len(got) < want
  /\ call = "line" /\ got # << >> => got[Len(got)] # NL
  /\ got' = Append(got, Head(q))
  /\ q' = Tail(q)
  /\ UNCHANGED <<call, want>>

(* A line read ends with a whole line or a full buffer, a raw read with at *)
(* least one character.                                                    *)
End ==
  /\ call # "none"
  /\ got # << >>
  /\ call = "line" => Len(got) = want \/ got[Len(got)] = NL
  /\ call' = "none"
  /\ UNCHANGED <<q, want, got>>

Next ==
  \/ \E c \in Text : Put(c)
  \/ Erase
  \/ Reset
  \/ \E kind \in {"line", "raw", "char"}, n \in 1..MaxCount : Begin(kind, n)
  \/ Take
  \/ End

Spec == Init /\ [][Next]_vars
=============================================================================
