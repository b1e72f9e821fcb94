-------------------------------- MODULE Files --------------------------------
(***************************************************************************)
(* What a program expects of read-only files: a handle stands for a file   *)
(* and a position in its content, and a read hands out the bytes from the  *)
(* position on, in order, whatever is done with other handles.             *)
(*                                                                         *)
(* Fs implements this module as long as positions are moved by reading and *)
(* by returning to the start (see the refinement mapping there).           *)
(***************************************************************************)
EXTENDS Naturals, Sequences

CONSTANTS
  Handles,
  Content,    \* the bytes of each file, by name
  Closed      \* what a handle stands for when it is not open

VARIABLES
  file,       \* the file each handle stands for
  position,   \* the number of bytes before the next one to be read
  reader,     \* the handle being read from, if any
  got         \* what the read has handed out so far

vars == <<file, position, reader, got>>

Idle == reader \notin Handles

Init ==
  /\ file = [h \in Handles |-> Closed]
  /\ position = [h \in Handles |-> 0]
  /\ Idle /\ got = << >>

Open(h, name) ==
  /\ Idle /\ file[h] = Closed
  /\ file' = [file EXCEPT ![h] = name]
  /\ position' = [position EXCEPT ![h] = 0]
  /\ UNCHANGED <<reader, got>>

Close(h) ==
  /\ Idle /\ file[h] # Closed
  /\ file' = [file EXCEPT ![h] = Closed]
  /\ UNCHANGED <<position, reader, got>>

Seek(h) ==
  /\ Idle /\ file[h] # Closed
  /\ position'[h] \in Nat
  /\ position' = [position EXCEPT ![h] = position'[h]]
  /\ UNCHANGED <<file, reader, got>>

StartRead(h) ==
  /\ Idle /\ file[h] # Closed
  /\ reader' = h
  /\ UNCHANGED <<file, position, got>>

(* The next few bytes of the content. *)
Fetch(h) ==
  LET bytes == Content[file[h]]
  IN  /\ reader = h
      /\ \E n \in 1..(Len(bytes) - position[h]) :
           /\ got' = got \o SubSeq(bytes, position[h] + 1, position[h] + n)
           /\ position' = [position EXCEPT ![h] = position[h] + n]
      /\ UNCHANGED <<file, reader>>

EndRead ==
  /\ ~Idle
  /\ reader' \notin Handles /\ got' = << >>
  /\ UNCHANGED <<file, position>>

Next ==
  \/ \E h \in Handles :
       \/ \E name \in DOMAIN Content : Open(h, name)
       \/ Close(h) \/ Seek(h) \/ StartRead(h) \/ Fetch(h)
  \/ EndRead

Spec == Init /\ [][Next]_vars
=============================================================================
