------------------------------- MODULE MCKernel -------------------------------
(***************************************************************************)
(* The parts of the kernel that share no state with one another: the        *)
(* console, the shell, the package manager, the clock and the start-up.     *)
(* Each behaviour runs one of them, chosen by part, and leaves the others   *)
(* in their first state.                                                   *)
(***************************************************************************)
EXTENDS Console, Shell, Pkg, Clock, Startup

VARIABLES part, budget, echoes

(* A directory's name is even in length here, so that cd meets both kinds.  *)
MCAnswers(p) == IF Len(p) % 2 = 0 \/ p = Root THEN {"dir"} ELSE {"file", "dir"}

PackageOf(n, f, s) ==
  [name |-> n, version |-> <<"1">>,
   files |-> [j \in DOMAIN f |-> [filename |-> f[j], file_size |-> s[j]]]]

(* Two that share a file, one name beginning the other; one without files. *)
MCPackages ==
  {PackageOf(<<"a">>, <<"f", "g">>, <<3, 1>>), PackageOf(<<"a", "b">>, <<"g">>, <<2>>),
   PackageOf(<<"c">>, << >>, << >>)}

On(y, m, d, n) == [date |-> [year |-> y, month |-> m, day |-> d], days |-> n]

(* The ends of months, of years that are leap years, and of centuries. *)
MCMornings ==
  {On(1969, 12, 31, -1), On(1970, 1, 31, 30), On(1971, 4, 30, 484), On(1972, 2, 28, 788),
   On(1972, 12, 31, 1095), On(1999, 12, 31, 10956), On(2000, 2, 28, 11015),
   On(2000, 2, 29, 11016), On(2000, 6, 30, 11138), On(2000, 8, 31, 11200),
   On(2000, 10, 31, 11261), On(2099, 12, 31, 47481), On(2100, 2, 28, 47540)}

(* Calls of the console and echoes into them, packages, ticks of the clock. *)
BudgetOf == [console |-> 5, shell |-> 0, pkg |-> 4, clock |-> 1, startup |-> 0]

(* The clock and the start-up have many initial states, each of which is    *)
(* one for that part only.                                                 *)
Init ==
  /\ part \in DOMAIN BudgetOf /\ budget = BudgetOf[part] /\ echoes = 1
  /\ \/ part = "startup" /\ mask \in SUBSET Lines /\ flag \in BOOLEAN
     \/ part # "startup" /\ mask = Lines /\ flag = FALSE
  /\ \/ part = "clock" /\ second \in 0..(DAY - 1) /\ mode \in [bcd : BOOLEAN, twelve : BOOLEAN]
     \/ part # "clock" /\ second = 0 /\ days = 30 /\ mode = [bcd |-> FALSE, twelve |-> FALSE]
  /\ ConsoleInit /\ ShellInit /\ PkgInit /\ ClockInit /\ StartupInit

Spend == budget > 0 /\ budget' = budget - 1 /\ UNCHANGED echoes
Free == UNCHANGED <<budget, echoes>>

ConsolePart ==
  /\ part = "console" /\ UNCHANGED part
  /\ \/ Spend /\ \E c \in Glyphs \cup {NL, CR, BS, HT} : console_putc(c)
     \/ Spend /\ console_clear
     \/ /\ echoes > 0 /\ echoes' = echoes - 1 /\ UNCHANGED budget
        /\ \E c \in (Glyphs \ {BLANK}) \cup {NL, BS} : Interrupt(c)
     \/ Free /\ ConsoleStep
  /\ UNCHANGED <<shellVars, pkgVars, clockVars, startupVars>>

(* The names of the commands that no directory has are typed in front only. *)
ShellPart ==
  /\ part = "shell" /\ UNCHANGED part
  /\ Free
  /\ \/ display_prompt \/ read_command \/ parse_command \/ execute_command
     \/ Open \/ Check \/ List \/ Close
     \/ \E c \in Keys : (c \in {LS, CAT, EXIT} => entered = << >>) /\ Type(c)
  /\ UNCHANGED <<consoleVars, pkgVars, clockVars, startupVars>>

(* Nothing is claimed of what follows a trouble, but that the files close. *)
PkgPart ==
  /\ part = "pkg" /\ UNCHANGED part
  /\ \/ Spend /\ ~trouble /\ \E p \in Packages : pkg_install(p)
     \/ Free /\ ~trouble /\ pkg_init
     \/ Free /\ PkgStep
  /\ UNCHANGED <<consoleVars, shellVars, clockVars, startupVars>>

ClockPart ==
  /\ part = "clock" /\ UNCHANGED part
  /\ \/ Spend /\ Tick
     \/ Free /\ (Call("time") \/ Call("date") \/ rtc_read_register \/ rtc_get_time \/ rtc_get_date)
  /\ UNCHANGED <<consoleVars, shellVars, pkgVars, startupVars>>

StartupPart ==
  /\ part = "startup" /\ UNCHANGED part
  /\ Free /\ StartupNext
  /\ UNCHANGED <<consoleVars, shellVars, pkgVars, clockVars>>

Next == ConsolePart \/ ShellPart \/ PkgPart \/ ClockPart \/ StartupPart

kernelVars == <<consoleVars, shellVars, pkgVars, clockVars, startupVars, part, budget, echoes>>

Spec == Init /\ [][Next]_kernelVars
-----------------------------------------------------------------------------
(* The state of every part keeps its type, widths and lengths included: the *)
(* cursor that is decremented stays a 16-bit number, the line read and the  *)
(* arguments fit their buffers, and the clock's registers are bytes.        *)
TypeOK == ConsoleTypeOK /\ ShellTypeOK /\ PkgTypeOK /\ ClockTypeOK /\ StartupTypeOK
=============================================================================
