------------------------------- MODULE Console -------------------------------
(***************************************************************************)
(* The text console, console.c.  A task prints a character statement by     *)
(* statement; the echo of a typed character (tty_input, tty_io.c:236-250)   *)
(* prints from an interrupt handler between any two of its statements, on   *)
(* the same cursor.  The attribute byte of a cell is left out, and a row    *)
(* of the screen is copied in one step.                                     *)
(*                                                                         *)
(* Definitions named Bad... are seeded faults, as in Tty.                   *)
(***************************************************************************)
EXTENDS Integers, Sequences

CONSTANTS
  WIDTH, HEIGHT,   \* CONSOLE_WIDTH, CONSOLE_HEIGHT
  TAB,             \* distance of the tabulator stops, 8 in the code
  WORD, BYTE,      \* 2^16 and 2^8
  Glyphs, BLANK,   \* printable characters, ' ' among them
  NL, CR, BS, HT

ASSUME ConsoleAssumption ==
  /\ WIDTH \in Nat \ {0} /\ HEIGHT \in Nat \ {0} /\ TAB \in Nat \ {0} /\ BYTE \in Nat \ {0}
  /\ WORD \in Nat /\ WORD % 2 = 0 /\ WIDTH + TAB < WORD
  /\ 2 * (WIDTH * HEIGHT) <= WORD  \* the address of a cell, of two bytes, fits
  /\ WIDTH < WORD /\ HEIGHT < WORD
  /\ BLANK \in Glyphs
  /\ NL \notin Glyphs /\ CR \notin Glyphs /\ BS \notin Glyphs /\ HT \notin Glyphs
  /\ NL # CR /\ NL # BS /\ NL # HT /\ CR # BS /\ CR # HT /\ BS # HT
  /\ "clear" \notin Glyphs \cup {NL, CR, BS, HT}

VARIABLES
  cursor_x, cursor_y,
  screen,       \* what each cell of the video memory shows
  crt,          \* the registers of the cursor in the CRT controller
  at,           \* the statement the task is at, "idle" outside a call
  ch,           \* the argument of console_putc, or "clear"
  offset, row, location,  \* locals of console_putc, scroll and update_cursor
  raced,        \* a handler has printed during the task's last call
  stray,        \* that call, or one of those handlers, wrote outside the screen
  before        \* screen and cursor when that call began

cursor == <<cursor_x, cursor_y>>
locals == <<offset, row, location>>
ghosts == <<raced, stray, before>>
consoleVars == <<cursor, screen, crt, at, ch, locals, ghosts>>

Cells == 0..(WIDTH * HEIGHT - 1)
CellAt(x, y) == ((y * WIDTH + x) % WORD) % (WORD \div 2)
Inc(n) == (n + 1) % WORD
BadDec(n) == n - 1
Dec(n) == (n + WORD - 1) % WORD
NextTab(x) == (((x + TAB) % WORD) \div TAB) * TAB
Drawn(scr, c, g) == [scr EXCEPT ![c] = g]
RowUp(scr, r) ==
  [c \in Cells |-> IF c \div WIDTH = r THEN scr[c + WIDTH] ELSE scr[c]]
Scrolled(scr) ==
  [c \in Cells |-> IF c \div WIDTH < HEIGHT - 1 THEN scr[c + WIDTH] ELSE BLANK]

ConsoleInit ==
  /\ cursor_x = 0 /\ cursor_y = 0 /\ screen = [c \in Cells |-> BLANK]
  /\ crt = [index |-> "low", high |-> 0, low |-> 0]
  /\ at = "idle" /\ ch = BLANK /\ offset = 0 /\ row = 0 /\ location = 0
  /\ raced = FALSE /\ stray = FALSE
  /\ before = [text |-> screen, pos |-> 0]

(***************************************************************************)
(* console_putc in one piece, as a handler runs it.                        *)
(***************************************************************************)
Stored(s, c, g) ==
  [s EXCEPT !.screen = IF c \in Cells THEN Drawn(@, c, g) ELSE @, !.stray = @ \/ c \notin Cells]

Wrapped(s) == IF s.x >= WIDTH THEN [s EXCEPT !.x = 0, !.y = Inc(@)] ELSE s
Fitted(s) ==
  IF s.y >= HEIGHT
    THEN [s EXCEPT !.x = 0, !.y = HEIGHT - 1, !.screen = Scrolled(@)] ELSE s

Left(s) ==
  IF s.x > 0 THEN [s EXCEPT !.x = @ - 1]
  ELSE IF s.y > 0 THEN [s EXCEPT !.x = WIDTH - 1, !.y = @ - 1] ELSE s

Printed(s, c) ==
  CASE c = NL -> [s EXCEPT !.x = 0, !.y = Inc(@)]
    [] c = CR -> [s EXCEPT !.x = 0]
    [] c = BS -> Stored(Left(s), CellAt(Left(s).x, Left(s).y), BLANK)
    [] c = HT -> Wrapped([s EXCEPT !.x = NextTab(@)])
    [] OTHER  -> [Stored(s, CellAt(s.x, s.y), c) EXCEPT !.x = Inc(@)]

Put(s, c) == Fitted(Wrapped(Printed(s, c)))

Echo(s, c) ==
  CASE c \in {NL, CR} -> Put(Put(s, CR), NL)
    [] c = BS         -> Put(Put(Put(s, BS), BLANK), BS)
    [] OTHER          -> Put(s, c)

CrtAt(l) == [index |-> "low", high |-> (l \div BYTE) % BYTE, low |-> l % BYTE]

Interrupt(c) ==
  LET s == Echo([x |-> cursor_x, y |-> cursor_y, screen |-> screen, stray |-> stray], c)
  IN  /\ cursor_x' = s.x /\ cursor_y' = s.y /\ screen' = s.screen /\ stray' = s.stray
      /\ crt' = CrtAt((s.y * WIDTH + s.x) % WORD)
      /\ raced' = (raced \/ at # "idle")
      /\ UNCHANGED <<at, ch, locals, before>>
-----------------------------------------------------------------------------
(***************************************************************************)
(* The task, one statement at a time.                                      *)
(***************************************************************************)
Begin(label) ==
  /\ at = "idle"
  /\ at' = label
  /\ raced' = FALSE /\ stray' = FALSE
  /\ before' = [text |-> screen, pos |-> cursor_y * WIDTH + cursor_x]
  /\ UNCHANGED <<cursor, screen, crt>>

Case(c) ==
  CASE c = NL -> "nl_home" [] c = CR -> "cr_home" [] c = BS -> "erase" [] c = HT -> "tab"
    [] OTHER -> "cell"

console_putc(c) == Begin(Case(c)) /\ ch' = c /\ UNCHANGED locals
console_clear   == Begin("fill") /\ ch' = "clear" /\ row' = 0 /\ UNCHANGED <<offset, location>>

(* cursor_x = 0, cursor_y++ and the other assignments of a constant: where  *)
(* each stands and what is next.                                            *)
HomeNext == [nl_home |-> "nl_row", cr_home |-> "wrap", tab_home |-> "tab_row",
             wrap_home |-> "wrap_row", bottom_home |-> "location", clear_home |-> "clear_top"]
DownNext == [nl_row |-> "wrap", tab_row |-> "wrap", wrap_row |-> "full"]

Home ==
  /\ at \in DOMAIN HomeNext
  /\ cursor_x' = 0 /\ at' = HomeNext[at]
  /\ UNCHANGED <<cursor_y, screen, crt, ch, locals, ghosts>>
Down ==
  /\ at \in DOMAIN DownNext
  /\ cursor_y' = Inc(cursor_y) /\ at' = DownNext[at]
  /\ UNCHANGED <<cursor_x, screen, crt, ch, locals, ghosts>>
ToRow ==
  /\ at \in {"bottom", "clear_top"}
  /\ cursor_y' = IF at = "bottom" THEN HEIGHT - 1 ELSE 0
  /\ at' = IF at = "bottom" THEN "bottom_home" ELSE "location"
  /\ UNCHANGED <<cursor_x, screen, crt, ch, locals, ghosts>>

(* The tests. *)
BadWraps == cursor_x > WIDTH
Wraps == cursor_x >= WIDTH
Test ==
  /\ \/ /\ at = "erase"
        /\ at' = IF cursor_x > 0 THEN "left" ELSE IF cursor_y > 0 THEN "up" ELSE "erase_cell"
     \/ at = "tab_test" /\ at' = IF cursor_x >= WIDTH THEN "tab_home" ELSE "wrap"
     \/ at = "wrap" /\ at' = IF Wraps THEN "wrap_home" ELSE "full"
     \/ at = "full" /\ at' = IF cursor_y >= HEIGHT THEN "scroll" ELSE "location"
  /\ row' = 0
  /\ UNCHANGED <<cursor, screen, crt, ch, offset, location, ghosts>>

(* Backspace and tabulator. *)
BadEndOfRow == WIDTH
EndOfRow == WIDTH - 1
MoveLeft ==
  /\ at \in {"left", "up_end", "right", "tab"}
  /\ cursor_x' = CASE at = "left" -> Dec(cursor_x) [] at = "up_end" -> EndOfRow
                   [] at = "right" -> Inc(cursor_x) [] at = "tab" -> NextTab(cursor_x)
  /\ at' = CASE at = "right" -> "wrap" [] at = "tab" -> "tab_test" [] OTHER -> "erase_cell"
  /\ UNCHANGED <<cursor_y, screen, crt, ch, locals, ghosts>>
MoveUp ==
  /\ at = "up"
  /\ cursor_y' = Dec(cursor_y) /\ at' = "up_end"
  /\ UNCHANGED <<cursor_x, screen, crt, ch, locals, ghosts>>

(* The cell is found, and then written. *)
FindCell ==
  /\ at \in {"cell", "erase_cell"}
  /\ offset' = CellAt(cursor_x, cursor_y)
  /\ at' = IF at = "cell" THEN "store" ELSE "erase_store"
  /\ UNCHANGED <<cursor, screen, crt, ch, row, location, ghosts>>
WriteCell ==
  /\ at \in {"store", "erase_store"}
  /\ screen' = IF offset \in Cells THEN Drawn(screen, offset, IF at = "store" THEN ch ELSE BLANK)
                                   ELSE screen
  /\ stray' = (stray \/ offset \notin Cells)
  /\ at' = IF at = "store" THEN "right" ELSE "wrap"
  /\ UNCHANGED <<cursor, crt, ch, locals, raced, before>>

(* scroll: the rows move up, the last one is blanked; console_clear.        *)
scroll ==
  /\ at = "scroll"
  /\ IF row < HEIGHT - 1
       THEN screen' = RowUp(screen, row) /\ row' = row + 1 /\ UNCHANGED at
       ELSE /\ screen' = [c \in Cells |-> IF c \div WIDTH = row THEN BLANK ELSE screen[c]]
            /\ at' = "bottom" /\ UNCHANGED row
  /\ UNCHANGED <<cursor, crt, ch, offset, location, ghosts>>
Fill ==
  /\ at = "fill"
  /\ IF row < HEIGHT
       THEN /\ screen' = [c \in Cells |-> IF c \div WIDTH = row THEN BLANK ELSE screen[c]]
            /\ row' = row + 1 /\ UNCHANGED at
       ELSE at' = "clear_home" /\ UNCHANGED <<screen, row>>
  /\ UNCHANGED <<cursor, crt, ch, offset, location, ghosts>>

(* update_cursor: a register is selected and then written. *)
FindLocation ==
  /\ at = "location"
  /\ location' = (cursor_y * WIDTH + cursor_x) % WORD /\ at' = "high_index"
  /\ UNCHANGED <<cursor, screen, crt, ch, offset, row, ghosts>>
Data == [high |-> (location \div BYTE) % BYTE, low |-> location % BYTE]
update_cursor ==
  /\ \/ at = "high_index" /\ at' = "high" /\ crt' = [crt EXCEPT !.index = "high"]
     \/ at = "high" /\ at' = "low_index" /\ crt' = [crt EXCEPT ![crt.index] = Data.high]
     \/ at = "low_index" /\ at' = "low" /\ crt' = [crt EXCEPT !.index = "low"]
     \/ at = "low" /\ at' = "idle" /\ crt' = [crt EXCEPT ![crt.index] = Data.low]
  /\ UNCHANGED <<cursor, screen, ch, locals, ghosts>>

ConsoleStep ==
  \/ Home \/ Down \/ ToRow \/ Test \/ MoveLeft \/ MoveUp \/ FindCell \/ WriteCell
  \/ scroll \/ Fill \/ FindLocation \/ update_cursor

ConsoleNext ==
  \/ \E c \in Glyphs \cup {NL, CR, BS, HT} : console_putc(c) \/ Interrupt(c)
  \/ console_clear
  \/ ConsoleStep

ConsoleSpec == ConsoleInit /\ [][ConsoleNext]_consoleVars
-----------------------------------------------------------------------------
ConsoleTypeOK ==
  /\ cursor_x \in 0..(WORD - 1) /\ cursor_y \in 0..(WORD - 1)
  /\ screen \in [Cells -> Glyphs]
  /\ crt \in [index : {"high", "low"}, high : 0..(BYTE - 1), low : 0..(BYTE - 1)]
  /\ offset \in Nat /\ location \in 0..(WORD - 1) /\ row \in 0..HEIGHT
  /\ raced \in BOOLEAN /\ stray \in BOOLEAN

(* However handlers print into the statements of a task, the cursor is on   *)
(* the screen whenever no call is under way, so that what is printed next   *)
(* is seen: every path of console_putc ends with the tests that bring the   *)
(* cursor back, after the last statement a handler can have disturbed.      *)
OnScreen == at = "idle" => cursor_x < WIDTH /\ cursor_y < HEIGHT

(* A call no handler has printed into does to the screen what a terminal    *)
(* does: the cells form one line of text with a position, the character     *)
(* goes there, '\b' takes back the cell before, across the end of a row     *)
(* too, and a full screen moves up by a row.  Nothing outside the screen    *)
(* is written, and the hardware cursor is where the next character goes,    *)
(* wherever an earlier call that was disturbed has left it.                 *)
Advanced(t, c) ==
  LET back == IF t.pos = 0 THEN 0 ELSE t.pos - 1
      col  == t.pos % WIDTH
      stop == (col \div TAB + 1) * TAB
  IN  CASE c = NL -> [t EXCEPT !.pos = @ - col + WIDTH]
        [] c = CR -> [t EXCEPT !.pos = @ - col]
        [] c = BS -> [text |-> [t.text EXCEPT ![back] = BLANK], pos |-> back]
        [] c = HT -> [t EXCEPT !.pos = @ - col + (IF stop < WIDTH THEN stop ELSE WIDTH)]
        [] OTHER  -> [text |-> [t.text EXCEPT ![t.pos] = c], pos |-> t.pos + 1]
Terminal(t, c) ==
  LET a == Advanced(t, c)
  IN  IF a.pos < WIDTH * HEIGHT THEN a
      ELSE [pos  |-> WIDTH * (HEIGHT - 1),
            text |-> [p \in Cells |-> IF p + WIDTH \in Cells THEN a.text[p + WIDTH] ELSE BLANK]]
Cleared == [text |-> [p \in Cells |-> BLANK], pos |-> 0]
Shown == [text |-> screen, pos |-> cursor_y * WIDTH + cursor_x]

OneCharacter ==
  [][at # "idle" /\ at' = "idle" /\ ~raced =>
       /\ Shown' = IF ch = "clear" THEN Cleared ELSE Terminal(before, ch)
       /\ ~stray /\ crt' = CrtAt(cursor_y * WIDTH + cursor_x)]_consoleVars
=============================================================================
