-------------------------------- MODULE Shell --------------------------------
(***************************************************************************)
(* The shell, shell.c: a loop of a prompt, a line read from the terminal,   *)
(* its words, and one of the built-in commands.  The terminal is polled:    *)
(* characters arrive while tty_read waits, into a bounded buffer with       *)
(* erase, and tty_read returns once the newest is a '\n' (module Tty).      *)
(* fs_open may answer any path with a file, a directory or nothing.  The    *)
(* name of a command is one character here; printing is left out.           *)
(*                                                                         *)
(* Definitions named Bad... are seeded faults, as in Tty.                   *)
(***************************************************************************)
EXTENDS Integers, Sequences, Ascending
LOCAL INSTANCE SequencesExt

CONSTANTS
  TTY_BUF_SIZE, SHELL_CMD_BUF_SIZE, SHELL_MAX_ARGS, SHELL_CMD_NAME_MAX,
  SHELL_CURRENT_DIR_MAX_LEN,
  SPACE, RETURN, LINE_FEED, ERASE, SLASH,  \* ' ' and '\t', '\r', '\n', '\b', '\\'
  LS, CD, CAT, EXIT,                       \* the commands
  Letters,                                 \* other characters
  Answers(_)                               \* what fs_open may answer for a path

Keys == {SPACE, RETURN, LINE_FEED, ERASE, SLASH, LS, CD, CAT, EXIT} \cup Letters

ASSUME ShellAssumption ==
  /\ TTY_BUF_SIZE \in Nat /\ SHELL_CMD_BUF_SIZE \in 2..TTY_BUF_SIZE
  /\ SHELL_MAX_ARGS \in Nat /\ SHELL_CMD_NAME_MAX \in Nat
  /\ SHELL_CURRENT_DIR_MAX_LEN \in Nat \ {0}

VARIABLES
  shell_at,            \* where the shell is
  tty_buf,             \* the characters the terminal holds
  entered, submitted,  \* the line being typed, and the last one ended by '\n'
  fresh,               \* that line was ended during the current read
  shell_cmd_buf,       \* the line read
  cmd,                 \* struct command_line: the name and the arguments
  path, kind,          \* the path opened last and what it was
  shell_current_dir,
  handles              \* how many files the shell holds open

terminal == <<tty_buf, entered, submitted, fresh>>
opening == <<path, kind>>
shellVars == <<shell_at, terminal, shell_cmd_buf, cmd, opening, shell_current_dir, handles>>

Root == <<SLASH>>
NoCommand == [name |-> << >>, args |-> << >>]

ShellInit ==
  /\ shell_at = "prompt" /\ tty_buf = << >> /\ entered = << >> /\ submitted = << >>
  /\ fresh = FALSE /\ shell_cmd_buf = << >> /\ cmd = NoCommand
  /\ path = Root /\ kind = "none" /\ shell_current_dir = Root /\ handles = 0

(* The locals of the last command are gone. *)
display_prompt ==
  /\ shell_at = "prompt"
  /\ shell_at' = "read" /\ fresh' = FALSE /\ submitted' = << >>
  /\ shell_cmd_buf' = << >> /\ cmd' = NoCommand /\ path' = Root /\ kind' = "none"
  /\ UNCHANGED <<tty_buf, entered, shell_current_dir, handles>>

EndsWith(l, c) == l # << >> /\ Last(l) = c

(* What tty_input does with a key; a full buffer drops it. *)
Waiting == shell_at = "read" /\ ~EndsWith(tty_buf, LINE_FEED)

Type(c) ==
  /\ Waiting /\ Len(tty_buf) < TTY_BUF_SIZE
  /\ IF c = ERASE
       THEN /\ tty_buf # << >>
            /\ tty_buf' = Front(tty_buf) /\ entered' = Front(entered)
            /\ UNCHANGED <<submitted, fresh>>
       ELSE /\ tty_buf' = Append(tty_buf, c)
            /\ entered' = IF c = LINE_FEED THEN << >> ELSE Append(entered, c)
            /\ submitted' = IF c = LINE_FEED THEN entered ELSE submitted
            /\ fresh' = (c = LINE_FEED)
  /\ UNCHANGED <<shell_at, shell_cmd_buf, cmd, opening, shell_current_dir, handles>>

(* read_command: the line end is taken off, with a '\r' before it. *)
Chopped(l, c) == IF EndsWith(l, c) THEN Front(l) ELSE l
BadStrip(l) == Chopped(l, LINE_FEED)
Strip(l) == Chopped(Chopped(l, LINE_FEED), RETURN)

read_command ==
  LET n == IF Len(tty_buf) < SHELL_CMD_BUF_SIZE THEN Len(tty_buf) ELSE SHELL_CMD_BUF_SIZE - 1
  IN  /\ shell_at = "read" /\ EndsWith(tty_buf, LINE_FEED)
      /\ shell_cmd_buf' = Strip(SubSeq(tty_buf, 1, n))
      /\ tty_buf' = SubSeq(tty_buf, n + 1, Len(tty_buf))
      /\ shell_at' = "parse"
      /\ UNCHANGED <<entered, submitted, fresh, cmd, opening, shell_current_dir, handles>>

(* parse_command, over a line with its '\0': the first position from i on   *)
(* that is, or is not, part of a word.                                      *)
InWord(l, i) == i <= Len(l) /\ l[i] # SPACE
FirstFrom(l, i, inside) ==
  CHOOSE j \in i..(Len(l) + 1) :
    /\ j = Len(l) + 1 \/ InWord(l, j) = inside
    /\ \A k \in i..(j - 1) : InWord(l, k) # inside

NextWord(l, e) == FirstFrom(l, e, TRUE)

ArgsFrom(l) ==
  LET args[at \in (1..(Len(l) + 1)) \X (0..SHELL_MAX_ARGS)] ==
        IF at[1] > Len(l) \/ at[2] = SHELL_MAX_ARGS THEN << >>
        ELSE LET e == FirstFrom(l, at[1], FALSE)
             IN  <<SubSeq(l, at[1], e - 1)>> \o args[<<NextWord(l, e), at[2] + 1>>]
  IN  args

parse_command ==
  LET start == FirstFrom(shell_cmd_buf, 1, TRUE)
      end   == FirstFrom(shell_cmd_buf, start, FALSE)
      name  == SubSeq(shell_cmd_buf, start, end - 1)
      n     == IF Len(name) > SHELL_CMD_NAME_MAX THEN SHELL_CMD_NAME_MAX ELSE Len(name)
  IN  /\ shell_at = "parse"
      /\ cmd' = [name |-> SubSeq(name, 1, n),
                 args |-> ArgsFrom(shell_cmd_buf)[<<NextWord(shell_cmd_buf, end), 0>>]]
      /\ shell_at' = "run"
      /\ UNCHANGED <<terminal, shell_cmd_buf, opening, shell_current_dir, handles>>

(***************************************************************************)
(* execute_command: ls opens the current directory, cd and cat the path     *)
(* that their argument makes with it.                                      *)
(***************************************************************************)
BadTooLong(a) == Len(shell_current_dir) + Len(a) > SHELL_CURRENT_DIR_MAX_LEN
TooLong(a) ==
  IF a[1] = SLASH THEN Len(a) > SHELL_CURRENT_DIR_MAX_LEN
  ELSE Len(shell_current_dir) + 1 + Len(a) + 1 > SHELL_CURRENT_DIR_MAX_LEN

FullPath(a) ==
  IF a[1] = SLASH THEN a
  ELSE IF shell_current_dir = Root THEN Root \o a
  ELSE shell_current_dir \o <<SLASH>> \o a

argc == Len(cmd.args)

Opens(p) ==
  \/ cmd.name = <<LS>> /\ p = shell_current_dir
  \/ cmd.name = <<CD>> /\ argc = 0 /\ p = Root
  \/ cmd.name \in {<<CD>>, <<CAT>>} /\ argc = 1 /\ ~TooLong(cmd.args[1]) /\ p = FullPath(cmd.args[1])

Targets == {p \in {shell_current_dir, Root} \cup {FullPath(cmd.args[i]) : i \in 1..argc} : Opens(p)}

execute_command ==
  /\ shell_at = "run"
  /\ \/ path' \in Targets /\ shell_at' = "open"
     \/ cmd.name = <<EXIT>> /\ shell_at' = "halted" /\ UNCHANGED path
     \/ Targets = {} /\ cmd.name # <<EXIT>> /\ shell_at' = "prompt" /\ UNCHANGED path
  /\ UNCHANGED <<terminal, shell_cmd_buf, cmd, kind, shell_current_dir, handles>>

Open ==
  /\ shell_at = "open"
  /\ \/ shell_at' = "prompt" /\ UNCHANGED <<kind, handles>>
     \/ /\ kind' \in Answers(path)
        /\ handles' = handles + 1 /\ shell_at' = "check"
  /\ UNCHANGED <<terminal, shell_cmd_buf, cmd, path, shell_current_dir>>

(* ls and cd want a directory, and cat a file; cd moves there.  What is not *)
(* wanted is closed before the command returns.                             *)
BadRefused == "prompt"
Refused == "close"

Check ==
  /\ shell_at = "check"
  /\ \/ cmd.name = <<CAT>> /\ kind = "file" /\ shell_at' = "list"
     \/ cmd.name = <<LS>> /\ kind = "dir" /\ shell_at' = "list"
     \/ cmd.name = <<CD>> /\ kind = "dir" /\ shell_at' = "close"
     \/ cmd.name = <<CAT>> /\ kind = "dir" /\ shell_at' = Refused
     \/ cmd.name \in {<<LS>>, <<CD>>} /\ kind = "file" /\ shell_at' = Refused
  /\ shell_current_dir' = IF cmd.name = <<CD>> /\ kind = "dir" THEN path ELSE shell_current_dir
  /\ UNCHANGED <<terminal, shell_cmd_buf, cmd, opening, handles>>

(* The loops of ls and cat, which print what they read until there is none. *)
List ==
  /\ shell_at = "list"
  /\ shell_at' = "close"
  /\ UNCHANGED <<terminal, shell_cmd_buf, cmd, opening, shell_current_dir, handles>>

Close ==
  /\ shell_at = "close"
  /\ handles' = handles - 1 /\ shell_at' = "prompt"
  /\ UNCHANGED <<terminal, shell_cmd_buf, cmd, opening, shell_current_dir>>

ShellNext ==
  \/ display_prompt \/ read_command \/ parse_command \/ execute_command
  \/ Open \/ Check \/ List \/ Close
  \/ \E c \in Keys : Type(c)

ShellSpec == ShellInit /\ [][ShellNext]_shellVars
-----------------------------------------------------------------------------
ShellTypeOK ==
  /\ shell_at \in {"prompt", "read", "parse", "run", "open", "check", "list", "close", "halted"}
  /\ tty_buf \in Seq(Keys) /\ Len(tty_buf) <= TTY_BUF_SIZE
  /\ shell_cmd_buf \in Seq(Keys) /\ Len(shell_cmd_buf) < SHELL_CMD_BUF_SIZE
  /\ cmd.name \in Seq(Keys) /\ cmd.args \in Seq(Seq(Keys) \ {<< >>})
  /\ Len(cmd.args) <= SHELL_MAX_ARGS
  /\ fresh \in BOOLEAN /\ handles \in Nat

(* The words of a line: its longest stretches without a blank, in order. *)
Words(l) ==
  LET starts == {i \in DOMAIN l : InWord(l, i) /\ ~(i > 1 /\ InWord(l, i - 1))}
      WordAt(i) ==
        CHOOSE w \in {SubSeq(l, i, j) : j \in i..Len(l)} :
          /\ \A k \in 1..Len(w) : w[k] # SPACE
          /\ ~InWord(l, i + Len(w))
      order == InOrder(starts)
  IN  [n \in DOMAIN order |-> WordAt(order[n])]

Cut(s, n) == SubSeq(s, 1, IF Len(s) < n THEN Len(s) ELSE n)

(* What the shell runs is the line that was typed, its corrections made:    *)
(* the first word and the following ones, up to the limits of struct        *)
(* command_line.  A line that fills the buffer of the terminal to the last  *)
(* character leaves its '\n' behind, and that is read as an empty command   *)
(* and nothing else.                                                        *)
LineIsCommand ==
  shell_at = "run" =>
    LET w == Words(Chopped(submitted, RETURN))
    IN  IF fresh /\ w # << >>
          THEN cmd = [name |-> Cut(w[1], SHELL_CMD_NAME_MAX), args |-> Cut(Tail(w), SHELL_MAX_ARGS)]
          ELSE cmd = NoCommand

(* A command holds at most one of the eight slots of the table of open      *)
(* files, and gives it back on every one of its paths: a shell that kept    *)
(* one per failed cd would leave no slot to any task after eight of them.   *)
HandlesReturned == handles = IF shell_at \in {"check", "list", "close"} THEN 1 ELSE 0

(* However cd is used, with names below names and absolute paths, the       *)
(* current directory starts at the root, so that it names one place, and    *)
(* fits its buffer with the final '\0'.                                     *)
CwdFits ==
  /\ Len(shell_current_dir) \in 1..SHELL_CURRENT_DIR_MAX_LEN
  /\ shell_current_dir[1] = SLASH
=============================================================================
