---------------------------- MODULE KernelProofs ----------------------------
(***************************************************************************)
(* Theorems about Console, Clock and Startup, and about the types of the    *)
(* parts of MCKernel together.                                             *)
(*                                                                         *)
(* Console, for any screen and any number of handlers: the cursor is on     *)
(* the screen between the calls, and a call that no handler prints into     *)
(* does what a terminal does.                                              *)
(* Clock: the days of the chip have numbers, in which mktime counts; the    *)
(* registers a call has read are those of the moment it began, followed by  *)
(* those of now.                                                           *)
(* Startup, for any lines that devices raise: the position in c_main        *)
(* decides what the processor and the PIC can be; interrupts are off from   *)
(* the "cli" of traps_init to its "sti", and in between the vectors and the *)
(* mask are written.                                                       *)
(***************************************************************************)
EXTENDS MCKernel, ShellPkgProofs

-----------------------------------------------------------------------------
(***************************************************************************)
(* The console.                                                             *)
(***************************************************************************)
Coordinates == 0..(WORD - 1)
Screens == [Cells -> Glyphs]
Typeable == Glyphs \cup {NL, CR, BS, HT}

(* The sizes, without the arithmetic of the assumption. *)
LEMMA ConsoleSizes ==
  /\ WIDTH \in Nat /\ WIDTH > 0 /\ HEIGHT \in Nat /\ HEIGHT > 0 /\ TAB \in Nat /\ TAB > 0
  /\ BYTE \in Nat /\ BYTE > 0 /\ WORD \in Nat /\ WORD > WIDTH /\ WORD > HEIGHT
  /\ BLANK \in Glyphs
  BY ConsoleAssumption

(* The keys, without the sizes. *)
LEMMA Marks ==
  /\ NL \notin Glyphs /\ CR \notin Glyphs /\ BS \notin Glyphs /\ HT \notin Glyphs
  /\ NL # CR /\ NL # BS /\ NL # HT /\ CR # BS /\ CR # HT /\ BS # HT
  BY ConsoleAssumption

LEMMA Divide ==
  ASSUME NEW d \in Nat, d > 0, NEW x \in Nat
  PROVE  x \div d \in Nat /\ x % d \in 0..(d - 1) /\ x = d * (x \div d) + (x % d)
  BY SMT

LEMMA IncIn == \A n \in Coordinates : Inc(n) \in Coordinates
<1> SUFFICES ASSUME NEW n \in Coordinates PROVE Inc(n) \in Coordinates
  OBVIOUS
<1>1. n + 1 \in Nat
  BY ConsoleSizes DEF Coordinates
<1> QED BY <1>1, ConsoleSizes, Divide DEF Inc, Coordinates

LEMMA DecIn == \A n \in Coordinates : Dec(n) \in Coordinates
<1> SUFFICES ASSUME NEW n \in Coordinates PROVE Dec(n) \in Coordinates
  OBVIOUS
<1>1. n + WORD - 1 \in Nat
  BY ConsoleSizes DEF Coordinates
<1> QED BY <1>1, ConsoleSizes, Divide DEF Dec, Coordinates

LEMMA NextTabIn == \A n \in Coordinates : NextTab(n) \in Coordinates
<1> SUFFICES ASSUME NEW n \in Coordinates PROVE NextTab(n) \in Coordinates
  OBVIOUS
<1> DEFINE m == (n + TAB) % WORD
<1>1. n + TAB \in Nat
  BY ConsoleSizes DEF Coordinates
<1>2. m \in Coordinates
  BY <1>1, ConsoleSizes, Divide DEF Coordinates
<1> HIDE DEF m
<1>3. m \in Nat /\ m \div TAB \in Nat /\ m % TAB \in Nat /\ m = TAB * (m \div TAB) + (m % TAB)
  <2>1. m \in Nat
    BY <1>2, ConsoleSizes DEF Coordinates
  <2>2. m \div TAB \in Nat /\ m % TAB \in 0..(TAB - 1) /\ m = TAB * (m \div TAB) + (m % TAB)
    BY <2>1, ConsoleSizes, Divide
  <2> QED BY <2>1, <2>2, ConsoleSizes
<1>4. (m \div TAB) * TAB \in Nat /\ (m \div TAB) * TAB <= m
  BY <1>3, ConsoleSizes, SMT
<1>5. NextTab(n) = (m \div TAB) * TAB
  BY DEF NextTab, m
<1> QED BY <1>2, <1>4, <1>5, ConsoleSizes DEF Coordinates

LEMMA ProductIn == \A a, b \in Nat : a * b \in Nat
  OBVIOUS

LEMMA CellAtIn == \A x, y \in Nat : CellAt(x, y) \in Nat
<1> SUFFICES ASSUME NEW x \in Nat, NEW y \in Nat PROVE CellAt(x, y) \in Nat
  OBVIOUS
<1> DEFINE n == (y * WIDTH + x) % WORD
<1>1. y * WIDTH + x \in Nat
  BY ProductIn, ConsoleSizes
<1>2. n \in Nat
  BY <1>1, ConsoleSizes, Divide
<1>3. WORD \div 2 \in Nat /\ WORD \div 2 > 0
  BY ConsoleAssumption, ConsoleSizes
<1> HIDE DEF n
<1>4. n % (WORD \div 2) \in Nat
  BY <1>2, <1>3, Divide
<1> QED BY <1>4 DEF CellAt, n

LEMMA PlaceIn == \A x, y \in Nat : (y * WIDTH + x) % WORD \in Coordinates
<1> SUFFICES ASSUME NEW x \in Nat, NEW y \in Nat PROVE (y * WIDTH + x) % WORD \in Coordinates
  OBVIOUS
<1>1. y * WIDTH + x \in Nat
  BY ProductIn, ConsoleSizes
<1> QED BY <1>1, ConsoleSizes, Divide DEF Coordinates

(* The cell below one that is not on the last row. *)
LEMMA BelowIn == \A c \in Cells : c \div WIDTH < HEIGHT - 1 => c + WIDTH \in Cells
<1> SUFFICES ASSUME NEW c \in Cells, c \div WIDTH < HEIGHT - 1 PROVE c + WIDTH \in Cells
  OBVIOUS
<1>1. WIDTH * HEIGHT \in Nat
  BY ProductIn, ConsoleSizes
<1>2. c \in Nat
  BY <1>1 DEF Cells
<1>3. PICK q \in Nat, r \in 0..(WIDTH - 1) : q = c \div WIDTH /\ c = WIDTH * q + r
  BY <1>2, ConsoleSizes, Divide
<1>4. q + 2 <= HEIGHT
  BY <1>3, ConsoleSizes
<1>5. WIDTH * (q + 2) <= WIDTH * HEIGHT
  BY <1>4, ConsoleSizes, SMT
<1>6. WIDTH * (q + 2) = WIDTH * q + WIDTH + WIDTH
  BY ConsoleSizes, SMT
<1>7. WIDTH * q \in Nat
  BY ProductIn, ConsoleSizes
<1> QED BY <1>1, <1>2, <1>3, <1>5, <1>6, <1>7, ConsoleSizes DEF Cells
-----------------------------------------------------------------------------
(***************************************************************************)
(* console_putc in one piece: from wherever it finds the cursor, it leaves  *)
(* it on the screen.                                                       *)
(***************************************************************************)
State == [x : Coordinates, y : Coordinates, screen : Screens, stray : BOOLEAN]
Shows(s) == s.x < WIDTH /\ s.y < HEIGHT

LEMMA RowUpIn == \A scr \in Screens, r \in 0..(HEIGHT - 2) : RowUp(scr, r) \in Screens
<1> SUFFICES ASSUME NEW scr \in Screens, NEW r \in 0..(HEIGHT - 2), NEW c \in Cells
             PROVE  (IF c \div WIDTH = r THEN scr[c + WIDTH] ELSE scr[c]) \in Glyphs
  BY DEF RowUp, Screens
<1>1. CASE c \div WIDTH = r
  <2>1. r < HEIGHT - 1
    BY ConsoleSizes
  <2>2. c + WIDTH \in Cells
    BY <1>1, <2>1, BelowIn
  <2> QED BY <1>1, <2>2 DEF Screens
<1>2. CASE c \div WIDTH # r
  BY <1>2 DEF Screens
<1> QED BY <1>1, <1>2

LEMMA ScrolledIn == \A scr \in Screens : Scrolled(scr) \in Screens
<1> SUFFICES ASSUME NEW scr \in Screens, NEW c \in Cells
             PROVE  (IF c \div WIDTH < HEIGHT - 1 THEN scr[c + WIDTH] ELSE BLANK) \in Glyphs
  BY DEF Scrolled, Screens
<1>1. CASE c \div WIDTH < HEIGHT - 1
  BY <1>1, BelowIn DEF Screens
<1>2. CASE ~(c \div WIDTH < HEIGHT - 1)
  BY <1>2, ConsoleSizes
<1> QED BY <1>1, <1>2

LEMMA DrawnIn == \A scr \in Screens, c \in Cells, g \in Glyphs : Drawn(scr, c, g) \in Screens
  BY DEF Drawn, Screens

LEMMA StoredIn ==
  ASSUME NEW s \in State, NEW c \in Nat, NEW g \in Glyphs
  PROVE  Stored(s, c, g) \in State /\ Stored(s, c, g).x = s.x /\ Stored(s, c, g).y = s.y
<1>1. CASE c \in Cells
  <2>1. Drawn(s.screen, c, g) \in Screens
    BY <1>1, DrawnIn DEF State
  <2>2. Stored(s, c, g) = [s EXCEPT !.screen = Drawn(s.screen, c, g), !.stray = s.stray]
    BY <1>1 DEF Stored, State
  <2> QED BY <2>1, <2>2 DEF State
<1>2. CASE c \notin Cells
  <2>1. Stored(s, c, g) = [s EXCEPT !.screen = s.screen, !.stray = TRUE]
    BY <1>2 DEF Stored, State
  <2> QED BY <2>1 DEF State
<1> QED BY <1>1, <1>2

LEMMA WordRange ==
  /\ 0 \in Coordinates /\ WIDTH - 1 \in Coordinates /\ HEIGHT - 1 \in Coordinates
  /\ WIDTH - 1 < WIDTH /\ HEIGHT - 1 < HEIGHT /\ 0 < WIDTH /\ 0 < HEIGHT
  /\ \A n \in Coordinates : n \in Nat /\ (n > 0 => n - 1 \in Coordinates)
  BY ConsoleSizes DEF Coordinates

LEMMA WrappedIn == \A s \in State : Wrapped(s) \in State /\ Wrapped(s).x < WIDTH
<1> SUFFICES ASSUME NEW s \in State PROVE Wrapped(s) \in State /\ Wrapped(s).x < WIDTH
  OBVIOUS
<1>1. CASE s.x >= WIDTH
  <2>1. Wrapped(s) = [s EXCEPT !.x = 0, !.y = Inc(s.y)]
    BY <1>1 DEF Wrapped, State
  <2>2. Inc(s.y) \in Coordinates
    BY IncIn DEF State
  <2> QED BY <2>1, <2>2, WordRange DEF State
<1>2. CASE ~(s.x >= WIDTH)
  BY <1>2, WordRange, ConsoleSizes DEF Wrapped, State
<1> QED BY <1>1, <1>2

LEMMA FittedIn ==
  ASSUME NEW s \in State, s.x < WIDTH
  PROVE  Fitted(s) \in State /\ Shows(Fitted(s))
<1>1. CASE s.y >= HEIGHT
  <2>1. Fitted(s) = [s EXCEPT !.x = 0, !.y = HEIGHT - 1, !.screen = Scrolled(s.screen)]
    BY <1>1 DEF Fitted, State
  <2>2. Scrolled(s.screen) \in Screens
    BY ScrolledIn DEF State
  <2> QED BY <2>1, <2>2, WordRange DEF State, Shows
<1>2. CASE ~(s.y >= HEIGHT)
  BY <1>2, WordRange, ConsoleSizes DEF Fitted, State, Shows
<1> QED BY <1>1, <1>2

LEMMA LeftIn == \A s \in State : Left(s) \in State
<1> SUFFICES ASSUME NEW s \in State PROVE Left(s) \in State
  OBVIOUS
<1>1. CASE s.x > 0
  <2>1. Left(s) = [s EXCEPT !.x = s.x - 1]
    BY <1>1 DEF Left, State
  <2> QED BY <1>1, <2>1, WordRange DEF State
<1>2. CASE ~(s.x > 0) /\ s.y > 0
  <2>1. Left(s) = [s EXCEPT !.x = WIDTH - 1, !.y = s.y - 1]
    BY <1>2 DEF Left, State
  <2> QED BY <1>2, <2>1, WordRange DEF State
<1>3. CASE ~(s.x > 0) /\ ~(s.y > 0)
  BY <1>3 DEF Left
<1> QED BY <1>1, <1>2, <1>3

LEMMA PrintedIn == \A s \in State, c \in Typeable : Printed(s, c) \in State
<1> SUFFICES ASSUME NEW s \in State, NEW c \in Typeable PROVE Printed(s, c) \in State
  OBVIOUS
<1>1. CASE c = NL
  <2>1. Printed(s, c) = [s EXCEPT !.x = 0, !.y = Inc(@)]
    BY <1>1, Marks, Zenon DEF Printed
  <2>2. Printed(s, c) = [s EXCEPT !.x = 0, !.y = Inc(s.y)]
    BY <2>1 DEF State
  <2>3. Inc(s.y) \in Coordinates
    BY IncIn DEF State
  <2> QED BY <2>2, <2>3, WordRange DEF State
<1>2. CASE c = CR
  <2>1. Printed(s, c) = [s EXCEPT !.x = 0]
    BY <1>2, Marks, Zenon DEF Printed
  <2> QED BY <2>1, WordRange DEF State
<1>3. CASE c = BS
  <2>1. Printed(s, c) = Stored(Left(s), CellAt(Left(s).x, Left(s).y), BLANK)
    BY <1>3, Marks, Zenon DEF Printed
  <2>2. Left(s) \in State
    BY LeftIn
  <2>3. CellAt(Left(s).x, Left(s).y) \in Nat
    BY <2>2, WordRange, CellAtIn DEF State
  <2> QED BY <2>1, <2>2, <2>3, StoredIn, ConsoleSizes
<1>4. CASE c = HT
  <2>1. Printed(s, c) = Wrapped([s EXCEPT !.x = NextTab(@)])
    BY <1>4, Marks, Zenon DEF Printed
  <2>2. [s EXCEPT !.x = NextTab(@)] \in State
    BY NextTabIn DEF State
  <2> QED BY <2>1, <2>2, WrappedIn
<1>5. CASE c \in Glyphs
  <2>1. Printed(s, c) = [Stored(s, CellAt(s.x, s.y), c) EXCEPT !.x = Inc(@)]
    BY <1>5, Marks, Zenon DEF Printed
  <2>2. CellAt(s.x, s.y) \in Nat
    BY WordRange, CellAtIn DEF State
  <2>3. Stored(s, CellAt(s.x, s.y), c) \in State
    BY <1>5, <2>2, StoredIn
  <2>4. \A t \in State : [t EXCEPT !.x = Inc(@)] \in State
    BY IncIn DEF State
  <2> QED BY <2>1, <2>3, <2>4
<1> QED BY <1>1, <1>2, <1>3, <1>4, <1>5 DEF Typeable

LEMMA PutShows == \A s \in State, c \in Typeable : Put(s, c) \in State /\ Shows(Put(s, c))
<1> SUFFICES ASSUME NEW s \in State, NEW c \in Typeable
             PROVE  Put(s, c) \in State /\ Shows(Put(s, c))
  OBVIOUS
<1>1. Wrapped(Printed(s, c)) \in State /\ Wrapped(Printed(s, c)).x < WIDTH
  BY PrintedIn, WrappedIn
<1> QED BY <1>1, FittedIn DEF Put

LEMMA EchoShows == \A s \in State, c \in Typeable : Echo(s, c) \in State /\ Shows(Echo(s, c))
<1> SUFFICES ASSUME NEW s \in State, NEW c \in Typeable
             PROVE  Echo(s, c) \in State /\ Shows(Echo(s, c))
  OBVIOUS
<1>1. BLANK \in Typeable /\ NL \in Typeable /\ CR \in Typeable /\ BS \in Typeable
  BY ConsoleSizes DEF Typeable
<1>2. CASE c \in {NL, CR}
  <2>1. c # BS
    BY <1>2, Marks
  <2>2. Echo(s, c) = Put(Put(s, CR), NL)
    BY <1>2, <2>1, Zenon DEF Echo
  <2> QED BY <1>1, <2>2, PutShows
<1>3. CASE c = BS
  <2>1. c \notin {NL, CR}
    BY <1>3, Marks
  <2>2. Echo(s, c) = Put(Put(Put(s, BS), BLANK), BS)
    BY <1>3, <2>1, Zenon DEF Echo
  <2> QED BY <1>1, <2>2, PutShows
<1>4. CASE c \notin {NL, CR, BS}
  <2>1. c \notin {NL, CR} /\ c # BS
    BY <1>4
  <2>2. Echo(s, c) = Put(s, c)
    BY <2>1, Zenon DEF Echo
  <2> QED BY <2>2, PutShows
<1> QED BY <1>2, <1>3, <1>4
-----------------------------------------------------------------------------
(***************************************************************************)
(* The statements of a task: which of the two coordinates is known to be on *)
(* the screen where.  A handler makes both so, at every one of them.        *)
(***************************************************************************)
AfterWrap == {"full", "wrap_row", "clear_top"}
AfterTests == {"idle", "location", "high_index", "high", "low_index", "low"}
Labels ==
  AfterWrap \cup AfterTests \cup
  {"nl_home", "nl_row", "cr_home", "erase", "left", "up", "up_end", "erase_cell", "erase_store",
   "tab", "tab_test", "tab_home", "tab_row", "cell", "store", "right", "wrap", "wrap_home",
   "scroll", "bottom", "bottom_home", "fill", "clear_home"}

Where ==
  /\ at \in Labels
  /\ at \in AfterWrap \cup AfterTests => cursor_x < WIDTH
  /\ at \in AfterTests \cup {"bottom_home"} => cursor_y < HEIGHT
  /\ at \in {"cell", "store"} => ch \in Glyphs

ConsoleInv == ConsoleTypeOK /\ Where

(* A register of the controller takes a byte. *)
Crts == [index : {"high", "low"}, high : 0..(BYTE - 1), low : 0..(BYTE - 1)]
Bytes == 0..(BYTE - 1)

LEMMA BytesIn == \A l \in Coordinates : (l \div BYTE) % BYTE \in Bytes /\ l % BYTE \in Bytes
<1> SUFFICES ASSUME NEW l \in Coordinates PROVE (l \div BYTE) % BYTE \in Bytes /\ l % BYTE \in Bytes
  OBVIOUS
<1>1. l \in Nat
  BY WordRange
<1>2. l \div BYTE \in Nat /\ l % BYTE \in Bytes
  BY <1>1, ConsoleSizes, Divide DEF Bytes
<1>3. (l \div BYTE) % BYTE \in Bytes
  BY <1>2, ConsoleSizes, Divide DEF Bytes
<1> QED BY <1>2, <1>3

LEMMA InterruptKeeps ==
  ASSUME ConsoleInv, NEW c \in Typeable, Interrupt(c)
  PROVE  ConsoleInv'
<1> DEFINE s == [x |-> cursor_x, y |-> cursor_y, screen |-> screen, stray |-> stray]
<1>1. s \in State
  BY DEF ConsoleInv, ConsoleTypeOK, State, Coordinates, Screens
<1> HIDE DEF s
<1>2. PICK t \in State : t = Echo(s, c) /\ Shows(t)
  BY <1>1, EchoShows
<1>3. /\ cursor_x' = t.x /\ cursor_y' = t.y /\ screen' = t.screen /\ stray' = t.stray
      /\ crt' = CrtAt((t.y * WIDTH + t.x) % WORD)
      /\ raced' = (raced \/ at # "idle")
      /\ UNCHANGED <<at, ch, locals, before>>
  BY <1>2 DEF Interrupt, s
<1>4. crt' \in Crts
  <2>1. (t.y * WIDTH + t.x) % WORD \in Coordinates
    BY PlaceIn, WordRange DEF State
  <2> QED BY <1>3, <2>1, BytesIn DEF CrtAt, Crts, Bytes
<1>5. ConsoleTypeOK'
  BY <1>3, <1>4 DEF ConsoleInv, ConsoleTypeOK, State, Coordinates, Screens, Crts, locals
<1>6. Where'
  BY <1>3, <1>2 DEF ConsoleInv, Where, Shows
<1> QED BY <1>5, <1>6 DEF ConsoleInv

LEMMA BeginKeeps ==
  ASSUME ConsoleInv,
         (\E c \in Typeable : console_putc(c)) \/ console_clear
  PROVE  ConsoleInv'
<1>1. CASE console_clear
  <2>1. /\ at' = "fill" /\ row' = 0 /\ raced' = FALSE /\ stray' = FALSE
        /\ UNCHANGED <<cursor, screen, crt, offset, location>>
    BY <1>1 DEF console_clear, Begin
  <2>2. ConsoleTypeOK'
    <3>1. row' \in 0..HEIGHT
      BY <2>1, ConsoleSizes
    <3>2. UNCHANGED <<cursor_x, cursor_y, screen, crt, offset, location>>
      BY <2>1 DEF cursor
    <3> QED BY <2>1, <3>1, <3>2 DEF ConsoleInv, ConsoleTypeOK
  <2>3. Where'
    BY <2>1 DEF Where, Labels, AfterWrap, AfterTests
  <2> QED BY <2>2, <2>3 DEF ConsoleInv
<1>2. ASSUME NEW c \in Typeable, console_putc(c) PROVE ConsoleInv'
  <2>1. /\ at' = Case(c) /\ ch' = c /\ raced' = FALSE /\ stray' = FALSE
        /\ UNCHANGED <<cursor, screen, crt, locals>>
    BY <1>2 DEF console_putc, Begin
  <2>2. Case(c) \in {"nl_home", "cr_home", "erase", "tab", "cell"}
        /\ (Case(c) = "cell" => c \in Glyphs)
    <3>1. CASE c = NL
      BY <3>1, Marks, Zenon DEF Case
    <3>2. CASE c = CR
      <4>1. Case(c) = "cr_home"
        BY <3>2, Marks, Zenon DEF Case
      <4> QED BY <4>1
    <3>3. CASE c = BS
      <4>1. Case(c) = "erase"
        BY <3>3, Marks, Zenon DEF Case
      <4> QED BY <4>1
    <3>4. CASE c = HT
      <4>1. Case(c) = "tab"
        BY <3>4, Marks, Zenon DEF Case
      <4> QED BY <4>1
    <3>5. CASE c \in Glyphs
      <4>1. Case(c) = "cell"
        BY <3>5, Marks, Zenon DEF Case
      <4> QED BY <3>5, <4>1
    <3> QED BY <3>1, <3>2, <3>3, <3>4, <3>5 DEF Typeable
  <2>3. ConsoleTypeOK'
    BY <2>1 DEF ConsoleInv, ConsoleTypeOK, cursor, locals
  <2>4. Where'
    BY <2>1, <2>2 DEF ConsoleInv, Where, cursor, Labels, AfterWrap, AfterTests
  <2> QED BY <2>3, <2>4 DEF ConsoleInv
<1> QED BY <1>1, <1>2
(* A row of the screen made blank. *)
Blanked(r) == [c \in Cells |-> IF c \div WIDTH = r THEN BLANK ELSE screen[c]]

LEMMA BlankedIn == ASSUME ConsoleTypeOK PROVE Blanked(row) \in Screens
  BY ConsoleSizes DEF ConsoleTypeOK, Blanked, Screens

LEMMA StepKeeps ==
  ASSUME ConsoleInv, ConsoleStep
  PROVE  ConsoleInv'
<1>1. CASE Home
  <2>1. ConsoleTypeOK'
    BY <1>1, ConsoleSizes
    DEF ConsoleInv, ConsoleTypeOK, Home, cursor, locals, ghosts, HomeNext
  <2>2. Where'
    BY <1>1, ConsoleSizes
    DEF ConsoleInv, ConsoleTypeOK, Where, Labels, AfterWrap, AfterTests,
        Home, cursor, locals, ghosts, HomeNext
  <2> QED BY <2>1, <2>2 DEF ConsoleInv
<1>2. CASE Down
  <2>1. ConsoleTypeOK'
    BY <1>2, IncIn
    DEF ConsoleInv, ConsoleTypeOK, Down, cursor, locals, ghosts, Coordinates
  <2>2. Where'
    BY <1>2
    DEF ConsoleInv, ConsoleTypeOK, Where, Labels, AfterWrap, AfterTests,
        Down, cursor, locals, ghosts, DownNext
  <2> QED BY <2>1, <2>2 DEF ConsoleInv
<1>3. CASE ToRow
  <2>1. ConsoleTypeOK'
    BY <1>3, ConsoleSizes
    DEF ConsoleInv, ConsoleTypeOK, ToRow, cursor, locals, ghosts
  <2>2. Where'
    BY <1>3, ConsoleSizes
    DEF ConsoleInv, ConsoleTypeOK, Where, Labels, AfterWrap, AfterTests,
        ToRow, cursor, locals, ghosts
  <2> QED BY <2>1, <2>2 DEF ConsoleInv
<1>4. CASE Test
  <2>1. ConsoleTypeOK'
    BY <1>4, ConsoleSizes
    DEF ConsoleInv, ConsoleTypeOK, Test, cursor, locals, ghosts
  <2>2. Where'
    BY <1>4, ConsoleSizes
    DEF ConsoleInv, ConsoleTypeOK, Where, Labels, AfterWrap, AfterTests,
        Test, cursor, locals, ghosts, Wraps
  <2> QED BY <2>1, <2>2 DEF ConsoleInv
<1>5. CASE MoveLeft
  <2>1. ConsoleTypeOK'
    BY <1>5, IncIn, DecIn, NextTabIn, WordRange
    DEF ConsoleInv, ConsoleTypeOK, MoveLeft, cursor, locals, ghosts, Coordinates, EndOfRow
  <2>2. Where'
    BY <1>5
    DEF ConsoleInv, ConsoleTypeOK, Where, Labels, AfterWrap, AfterTests,
        MoveLeft, cursor, locals, ghosts
  <2> QED BY <2>1, <2>2 DEF ConsoleInv
<1>6. CASE MoveUp
  <2>1. ConsoleTypeOK'
    BY <1>6, DecIn
    DEF ConsoleInv, ConsoleTypeOK, MoveUp, cursor, locals, ghosts, Coordinates
  <2>2. Where'
    BY <1>6
    DEF ConsoleInv, ConsoleTypeOK, Where, Labels, AfterWrap, AfterTests,
        MoveUp, cursor, locals, ghosts
  <2> QED BY <2>1, <2>2 DEF ConsoleInv
<1>7. CASE FindCell
  <2>1. ConsoleTypeOK'
    BY <1>7, CellAtIn
    DEF ConsoleInv, ConsoleTypeOK, FindCell, cursor, locals, ghosts
  <2>2. Where'
    BY <1>7
    DEF ConsoleInv, ConsoleTypeOK, Where, Labels, AfterWrap, AfterTests,
        FindCell, cursor, locals, ghosts
  <2> QED BY <2>1, <2>2 DEF ConsoleInv
<1>8. CASE WriteCell
  <2>1. ConsoleTypeOK'
    <3>1. screen' \in Screens
      <4>1. CASE offset \in Cells /\ at = "store"
        BY <1>8, <4>1, DrawnIn DEF ConsoleInv, ConsoleTypeOK, Where, WriteCell, Screens
      <4>2. CASE offset \in Cells /\ at # "store"
        BY <1>8, <4>2, DrawnIn, ConsoleSizes DEF ConsoleInv, ConsoleTypeOK, WriteCell, Screens
      <4>3. CASE offset \notin Cells
        BY <1>8, <4>3 DEF ConsoleInv, ConsoleTypeOK, WriteCell, Screens
      <4> QED BY <4>1, <4>2, <4>3
    <3>2. stray' \in BOOLEAN
      BY <1>8 DEF WriteCell
    <3>3. UNCHANGED <<cursor_x, cursor_y, crt, offset, row, location, raced>>
      BY <1>8 DEF WriteCell, cursor, locals
    <3> QED BY <3>1, <3>2, <3>3 DEF ConsoleInv, ConsoleTypeOK, Screens
  <2>2. Where'
    BY <1>8
    DEF ConsoleInv, ConsoleTypeOK, Where, Labels, AfterWrap, AfterTests,
        WriteCell, cursor, locals, ghosts
  <2> QED BY <2>1, <2>2 DEF ConsoleInv
<1>9. CASE scroll
  <2>1. ConsoleTypeOK'
    <3>1. UNCHANGED <<cursor_x, cursor_y, crt, offset, location, raced, stray>>
      BY <1>9 DEF scroll, cursor, ghosts
    <3>2. CASE row < HEIGHT - 1
      <4>1. row \in 0..(HEIGHT - 2) /\ row + 1 \in 0..HEIGHT
        BY <3>2, ConsoleSizes DEF ConsoleInv, ConsoleTypeOK
      <4>2. screen' \in Screens /\ row' \in 0..HEIGHT
        BY <1>9, <3>2, <4>1, RowUpIn DEF ConsoleInv, ConsoleTypeOK, scroll, Screens
      <4> QED BY <3>1, <4>2 DEF ConsoleInv, ConsoleTypeOK, Screens
    <3>3. CASE ~(row < HEIGHT - 1)
      <4>1. screen' = Blanked(row) /\ row' = row
        BY <1>9, <3>3 DEF scroll, Blanked
      <4> QED BY <3>1, <4>1, BlankedIn DEF ConsoleInv, ConsoleTypeOK, Screens
    <3> QED BY <3>2, <3>3
  <2>2. Where'
    BY <1>9
    DEF ConsoleInv, ConsoleTypeOK, Where, Labels, AfterWrap, AfterTests,
        scroll, cursor, locals, ghosts
  <2> QED BY <2>1, <2>2 DEF ConsoleInv
<1>10. CASE Fill
  <2>1. ConsoleTypeOK'
    <3>1. UNCHANGED <<cursor_x, cursor_y, crt, offset, location, raced, stray>>
      BY <1>10 DEF Fill, cursor, ghosts
    <3>2. CASE row < HEIGHT
      <4>1. row + 1 \in 0..HEIGHT
        BY <3>2, ConsoleSizes DEF ConsoleInv, ConsoleTypeOK
      <4>2. screen' = Blanked(row) /\ row' = row + 1
        BY <1>10, <3>2 DEF Fill, Blanked
      <4> QED BY <3>1, <4>1, <4>2, BlankedIn DEF ConsoleInv, ConsoleTypeOK, Screens
    <3>3. CASE ~(row < HEIGHT)
      BY <1>10, <3>1, <3>3 DEF ConsoleInv, ConsoleTypeOK, Fill
    <3> QED BY <3>2, <3>3
  <2>2. Where'
    BY <1>10
    DEF ConsoleInv, ConsoleTypeOK, Where, Labels, AfterWrap, AfterTests,
        Fill, cursor, locals, ghosts
  <2> QED BY <2>1, <2>2 DEF ConsoleInv
<1>11. CASE FindLocation
  <2>1. ConsoleTypeOK'
    BY <1>11, PlaceIn
    DEF ConsoleInv, ConsoleTypeOK, FindLocation, cursor, locals, ghosts, Coordinates
  <2>2. Where'
    BY <1>11
    DEF ConsoleInv, ConsoleTypeOK, Where, Labels, AfterWrap, AfterTests,
        FindLocation, cursor, locals, ghosts
  <2> QED BY <2>1, <2>2 DEF ConsoleInv
<1>12. CASE update_cursor
  <2>1. ConsoleTypeOK'
    BY <1>12, BytesIn
    DEF ConsoleInv, ConsoleTypeOK, update_cursor, cursor, locals, ghosts, Data, Coordinates, Bytes
  <2>2. Where'
    BY <1>12
    DEF ConsoleInv, ConsoleTypeOK, Where, Labels, AfterWrap, AfterTests,
        update_cursor, cursor, locals, ghosts
  <2> QED BY <2>1, <2>2 DEF ConsoleInv
<1> QED
  BY <1>1, <1>2, <1>3, <1>4, <1>5, <1>6, <1>7, <1>8, <1>9, <1>10, <1>11, <1>12 DEF ConsoleStep

LEMMA ConsoleInductive == ConsoleInv /\ [ConsoleNext]_consoleVars => ConsoleInv'
<1> SUFFICES ASSUME ConsoleInv, [ConsoleNext]_consoleVars PROVE ConsoleInv'
  OBVIOUS
<1>1. CASE \E c \in Typeable : console_putc(c)
  BY <1>1, BeginKeeps
<1>2. CASE \E c \in Typeable : Interrupt(c)
  BY <1>2, InterruptKeeps
<1>3. CASE console_clear
  BY <1>3, BeginKeeps
<1>4. CASE ConsoleStep
  BY <1>4, StepKeeps
<1>5. CASE UNCHANGED consoleVars
  <2>1. UNCHANGED <<cursor_x, cursor_y, screen, crt, at, ch, offset, row, location, raced, stray>>
    BY <1>5 DEF consoleVars, cursor, locals, ghosts
  <2> QED BY <2>1 DEF ConsoleInv, ConsoleTypeOK, Where
<1> QED BY <1>1, <1>2, <1>3, <1>4, <1>5 DEF ConsoleNext, Typeable

LEMMA ConsoleStarts == ConsoleInit => ConsoleInv
<1> SUFFICES ASSUME ConsoleInit PROVE ConsoleInv
  OBVIOUS
<1>1. screen \in [Cells -> Glyphs]
  BY ConsoleSizes DEF ConsoleInit
<1>2. crt \in Crts
  BY ConsoleSizes DEF ConsoleInit, Crts
<1>3. /\ cursor_x = 0 /\ cursor_y = 0 /\ at = "idle" /\ offset = 0 /\ row = 0 /\ location = 0
      /\ raced = FALSE /\ stray = FALSE
  BY DEF ConsoleInit
<1>4. ConsoleTypeOK
  <2>1. /\ 0 \in 0..(WORD - 1) /\ 0 \in 0..HEIGHT /\ 0 \in Nat
    BY ConsoleSizes
  <2>2. /\ cursor_x \in 0..(WORD - 1) /\ cursor_y \in 0..(WORD - 1) /\ row \in 0..HEIGHT
        /\ offset \in Nat /\ location \in 0..(WORD - 1) /\ raced \in BOOLEAN /\ stray \in BOOLEAN
    BY <1>3, <2>1
  <2> QED BY <1>1, <1>2, <2>2 DEF ConsoleTypeOK, Crts
<1>5. Where
  BY <1>3, ConsoleSizes DEF Where, Labels, AfterWrap, AfterTests
<1> QED BY <1>4, <1>5 DEF ConsoleInv

(* For every size of the screen and every number of handlers: the cursor is *)
(* on the screen whenever no call is under way.                             *)
THEOREM CursorOnScreen == ConsoleSpec => [](ConsoleTypeOK /\ OnScreen)
<1>1. ConsoleInv => ConsoleTypeOK /\ OnScreen
  BY DEF ConsoleInv, Where, OnScreen, AfterTests
<1> QED BY <1>1, ConsoleStarts, ConsoleInductive, PTL DEF ConsoleSpec
-----------------------------------------------------------------------------
(***************************************************************************)
(* A call that no handler prints into does what a terminal does. The cells  *)
(* in the order of the text: CellNo(x, y) is the position of column x of    *)
(* row y, and every sum and quotient the code takes of the two coordinates  *)
(* is reduced to it here.                                                   *)
(***************************************************************************)
CellNo(x, y) == y * WIDTH + x
Area == WIDTH * HEIGHT

LEMMA Unique ==
  ASSUME NEW d \in Nat, d > 0, NEW q \in Nat, NEW r \in 0..(d - 1)
  PROVE  (d * q + r) \div d = q /\ (d * q + r) % d = r
<1> DEFINE n == d * q + r
<1>0. n \in Nat
  BY SMT
<1>1. n \div d \in Nat /\ n % d \in 0..(d - 1) /\ n = d * (n \div d) + (n % d)
  BY <1>0, Divide
<1> DEFINE k == n \div d
           m == n % d
<1>2. k \in Nat /\ m \in 0..(d - 1) /\ d * q + r = d * k + m
  BY <1>1
<1> HIDE DEF n, k, m
<1>3. ~(q < k)
  <2> SUFFICES ASSUME q < k PROVE FALSE
    OBVIOUS
  <2>1. d * (q + 1) <= d * k
    BY <1>2, SMT
  <2>2. d * (q + 1) = d * q + d
    BY SMT
  <2> QED BY <1>2, <2>1, <2>2, ProductIn
<1>4. ~(k < q)
  <2> SUFFICES ASSUME k < q PROVE FALSE
    OBVIOUS
  <2>1. d * (k + 1) <= d * q
    BY <1>2, SMT
  <2>2. d * (k + 1) = d * k + d
    BY <1>2, SMT
  <2> QED BY <1>2, <2>1, <2>2, ProductIn
<1>5. k = q /\ m = r
  BY <1>2, <1>3, <1>4, ProductIn
<1> QED BY <1>5 DEF k, m, n

LEMMA AreaIn ==
  /\ Area \in Nat /\ Area > 0 /\ Cells = 0..(Area - 1)
  /\ 2 * Area <= WORD /\ WIDTH + TAB < WORD
<1>1. WIDTH * HEIGHT \in Nat /\ WIDTH * HEIGHT > 0
  BY ConsoleSizes, SMT
<1>2. 2 * (WIDTH * HEIGHT) <= WORD /\ WIDTH + TAB < WORD
  BY ConsoleAssumption
<1> QED BY <1>1, <1>2 DEF Area, Cells

(* Cells in the order of the text: along a row, and on to the next. *)
LEMMA CellNos ==
  ASSUME NEW x \in Nat, NEW y \in Nat
  PROVE  /\ CellNo(x, y) \in Nat /\ CellNo(x, y) = CellNo(0, y) + x
         /\ CellNo(0, y) \in Nat /\ CellNo(0, y + 1) = CellNo(0, y) + WIDTH
         /\ CellNo(0, 0) = 0 /\ CellNo(0, HEIGHT) = Area
<1>1. y * WIDTH \in Nat
  BY ProductIn, ConsoleSizes
<1>2. (y + 1) * WIDTH = y * WIDTH + WIDTH
  BY ConsoleSizes, SMT
<1>3. 0 * WIDTH = 0 /\ HEIGHT * WIDTH = WIDTH * HEIGHT
  BY ConsoleSizes, SMT
<1>4. CellNo(x, y) = y * WIDTH + x /\ CellNo(0, y) = y * WIDTH + 0
      /\ CellNo(0, y + 1) = (y + 1) * WIDTH + 0
  BY DEF CellNo
<1>5. CellNo(x, y) \in Nat /\ CellNo(x, y) = CellNo(0, y) + x /\ CellNo(0, y) \in Nat
  BY <1>1, <1>4
<1>6. CellNo(0, y + 1) = CellNo(0, y) + WIDTH
  BY <1>1, <1>2, <1>4, ConsoleSizes
<1>7. CellNo(0, 0) = 0 /\ CellNo(0, HEIGHT) = Area
  BY <1>3, ConsoleSizes, ProductIn, SMT DEF CellNo, Area
<1> QED BY <1>5, <1>6, <1>7

LEMMA RowsOrdered ==
  ASSUME NEW y \in Nat, NEW z \in Nat, y <= z
  PROVE  CellNo(0, y) <= CellNo(0, z)
<1>1. y * WIDTH <= z * WIDTH
  BY ConsoleSizes, SMT
<1> QED BY <1>1, ProductIn, ConsoleSizes DEF CellNo

LEMMA CellNoOnScreen ==
  ASSUME NEW x \in Nat, NEW y \in Nat
  PROVE  /\ x < WIDTH /\ y < HEIGHT => CellNo(x, y) < Area
         /\ y >= HEIGHT => CellNo(x, y) >= Area
<1>1. ASSUME x < WIDTH, y < HEIGHT PROVE CellNo(x, y) < Area
  <2>1. y + 1 <= HEIGHT
    BY <1>1, ConsoleSizes
  <2>2. CellNo(0, y + 1) <= CellNo(0, HEIGHT)
    BY <2>1, RowsOrdered, ConsoleSizes
  <2>3. /\ CellNo(x, y) = CellNo(0, y) + x /\ CellNo(0, y) \in Nat
        /\ CellNo(0, y + 1) = CellNo(0, y) + WIDTH /\ CellNo(0, HEIGHT) = Area
    BY CellNos
  <2> QED BY <1>1, <2>2, <2>3, AreaIn, ConsoleSizes
<1>2. ASSUME y >= HEIGHT PROVE CellNo(x, y) >= Area
  <2>1. CellNo(0, HEIGHT) <= CellNo(0, y)
    BY <1>2, RowsOrdered, ConsoleSizes
  <2>2. CellNo(x, y) = CellNo(0, y) + x /\ CellNo(0, y) \in Nat /\ CellNo(0, HEIGHT) = Area
    BY CellNos
  <2> QED BY <2>1, <2>2, AreaIn
<1> QED BY <1>1, <1>2

LEMMA Coordinated ==
  ASSUME NEW x \in 0..(WIDTH - 1), NEW y \in Nat
  PROVE  CellNo(x, y) % WIDTH = x /\ CellNo(x, y) \div WIDTH = y
<1>1. x \in Nat /\ CellNo(x, y) = WIDTH * y + x
  BY ConsoleSizes, ProductIn DEF CellNo
<1> QED BY <1>1, Unique, ConsoleSizes

LEMMA CellAtIsNo ==
  ASSUME NEW x \in Nat, NEW y \in Nat, x < WIDTH, y < HEIGHT
  PROVE  /\ CellAt(x, y) = CellNo(x, y) /\ CellNo(x, y) \in Cells
         /\ (y * WIDTH + x) % WORD = CellNo(x, y)
<1>1. CellNo(x, y) \in Nat /\ CellNo(x, y) < Area
  BY CellNos, CellNoOnScreen
<1>2. \A n \in Nat, d \in Nat : n < d => n % d = n
  BY SMT
<1>3. WORD \div 2 \in Nat /\ WORD = 2 * (WORD \div 2)
  BY ConsoleAssumption
<1>4. CellNo(x, y) < WORD /\ CellNo(x, y) < WORD \div 2
  BY <1>1, <1>3, AreaIn, ConsoleSizes
<1>5. CellNo(x, y) % WORD = CellNo(x, y) /\ CellNo(x, y) % (WORD \div 2) = CellNo(x, y)
  BY <1>1, <1>2, <1>3, <1>4, ConsoleSizes
<1>6. (y * WIDTH + x) % WORD = CellNo(x, y)
  BY <1>5 DEF CellNo
<1> QED BY <1>1, <1>5, <1>6, AreaIn DEF CellAt

LEMMA NextStop ==
  ASSUME NEW x \in Nat, x < WIDTH
  PROVE  NextTab(x) = (x \div TAB + 1) * TAB /\ NextTab(x) \in Nat /\ NextTab(x) > x
<1>1. PICK q \in Nat, r \in 0..(TAB - 1) : q = x \div TAB /\ x = TAB * q + r
  BY ConsoleSizes, Divide
<1>2. r \in Nat /\ r < TAB
  BY <1>1, ConsoleSizes
<1>3. TAB * (q + 1) = TAB * q + TAB /\ TAB * q \in Nat
  BY ConsoleSizes, SMT
<1>4. x + TAB = TAB * (q + 1) + r
  BY <1>1, <1>2, <1>3, ConsoleSizes
<1>5. (x + TAB) % WORD = x + TAB
  <2>1. \A n \in Nat, d \in Nat : n < d => n % d = n
    BY SMT
  <2>2. x + TAB \in Nat /\ x + TAB < WORD
    BY AreaIn, ConsoleSizes
  <2> QED BY <2>1, <2>2, ConsoleSizes
<1>6. (TAB * (q + 1) + r) \div TAB = q + 1
  BY <1>1, Unique, ConsoleSizes
<1>7. NextTab(x) = (q + 1) * TAB
  BY <1>4, <1>5, <1>6 DEF NextTab
<1>8. (q + 1) * TAB = TAB * q + TAB
  BY ConsoleSizes, SMT
<1> QED BY <1>1, <1>2, <1>3, <1>7, <1>8, ConsoleSizes

(* The row of a cell. *)
LEMMA RowOf ==
  ASSUME NEW c \in Cells
  PROVE  /\ c \in Nat /\ c \div WIDTH \in 0..(HEIGHT - 1)
         /\ (c + WIDTH) \div WIDTH = c \div WIDTH + 1
         /\ c + WIDTH \in Cells <=> c \div WIDTH < HEIGHT - 1
<1>1. c \in Nat /\ c < Area
  BY AreaIn
<1>2. PICK q \in Nat, r \in 0..(WIDTH - 1) : q = c \div WIDTH /\ c = WIDTH * q + r
  BY <1>1, ConsoleSizes, Divide
<1>3. r \in Nat /\ WIDTH * q \in Nat /\ WIDTH * q = CellNo(0, q) /\ r < WIDTH
  BY <1>2, ConsoleSizes, ProductIn DEF CellNo
<1>4. q < HEIGHT
  <2> SUFFICES ASSUME q >= HEIGHT PROVE FALSE
    BY ConsoleSizes
  <2>1. CellNo(0, q) >= Area
    BY CellNoOnScreen
  <2> QED BY <1>1, <1>2, <1>3, <2>1, AreaIn
<1>5. c + WIDTH = WIDTH * (q + 1) + r
  <2>1. WIDTH * (q + 1) = WIDTH * q + WIDTH
    BY ConsoleSizes, SMT
  <2> QED BY <1>2, <1>3, <2>1, ConsoleSizes
<1>6. (c + WIDTH) \div WIDTH = q + 1
  BY <1>5, <1>2, Unique, ConsoleSizes
<1>7. ASSUME c + WIDTH \in Cells PROVE q < HEIGHT - 1
  <2> SUFFICES ASSUME q + 1 >= HEIGHT PROVE FALSE
    BY ConsoleSizes
  <2>1. CellNo(0, q + 1) >= Area
    BY CellNoOnScreen
  <2>2. CellNo(0, q + 1) = CellNo(0, q) + WIDTH
    BY CellNos
  <2> QED BY <1>7, <1>2, <1>3, <2>1, <2>2, AreaIn, ConsoleSizes
<1> QED BY <1>1, <1>2, <1>4, <1>6, <1>7, BelowIn, ConsoleSizes
-----------------------------------------------------------------------------
(***************************************************************************)
(* The inductive invariant. Undisturbed says of every statement of a call   *)
(* that has not been disturbed what has been done of its character: nothing *)
(* is said of a call a handler has printed into, and nothing between calls. *)
(***************************************************************************)
(* Where the call began, and what the terminal makes of it. *)
Origin == before \in [text : Screens, pos : Nat] /\ before.pos < Area
X0 == before.pos % WIDTH
Y0 == before.pos \div WIDTH
Same == screen = before.text
(* What a statement may have changed of it so far. *)
Untouched == cursor_x = X0 /\ cursor_y = Y0 /\ Same
Back == IF before.pos = 0 THEN 0 ELSE before.pos - 1
Target == Advanced(before, ch)
Result == IF ch = "clear" THEN Cleared ELSE Terminal(before, ch)
Reached == screen = Target.text /\ CellNo(cursor_x, cursor_y) = Target.pos
(* The screen scr with the first r rows replaced by those below them. *)
Above(scr, r) == [c \in Cells |-> IF c \div WIDTH < r THEN scr[c + WIDTH] ELSE scr[c]]
Blank == [c \in Cells |-> BLANK]

(* Which argument leads to which statement. *)
Keyed ==
  /\ at \in {"nl_home", "nl_row"} => ch = NL
  /\ at = "cr_home" => ch = CR
  /\ at \in {"erase", "left", "up", "up_end", "erase_cell", "erase_store"} => ch = BS
  /\ at \in {"tab", "tab_test", "tab_home", "tab_row"} => ch = HT
  /\ at \in {"cell", "store", "right"} => ch \in Glyphs
  /\ at \in {"wrap", "wrap_home", "wrap_row", "full", "scroll", "bottom", "bottom_home"} =>
       ch \in Typeable
  /\ at \in {"fill", "clear_home", "clear_top"} => ch = "clear"

(* The statements of each case: how much of the character is done. *)
Printing ==
  /\ at \in {"nl_home", "cr_home", "erase", "left", "up", "tab", "cell", "store"} => Untouched
  /\ at = "nl_row" => cursor_x = 0 /\ cursor_y = Y0 /\ Same
  /\ at = "left" => X0 > 0
  /\ at \in {"up", "up_end"} => X0 = 0 /\ Y0 > 0
  /\ at = "up_end" => cursor_y = Y0 - 1 /\ Same
  /\ at \in {"erase_cell", "erase_store"} =>
       /\ cursor_x < WIDTH /\ cursor_y < HEIGHT
       /\ CellNo(cursor_x, cursor_y) = Back /\ Same
  /\ at = "erase_store" => offset = Back
  /\ at \in {"tab_test", "tab_home", "tab_row"} => cursor_y = Y0 /\ Same
  /\ at = "tab_test" => cursor_x = NextTab(X0)
  /\ at \in {"tab_home", "tab_row"} => NextTab(X0) >= WIDTH
  /\ at = "tab_row" => cursor_x = 0
  /\ at = "store" => offset = before.pos
  /\ at = "right" => cursor_x = X0 /\ cursor_y = Y0 /\ screen = Drawn(before.text, before.pos, ch)

(* The tests that bring the cursor back, the scroll, and console_clear. *)
Fitting ==
  /\ at \in {"wrap", "wrap_home", "full"} => Reached
  /\ at = "wrap" => cursor_x <= WIDTH
  /\ at = "wrap_home" => cursor_x = WIDTH
  /\ at \in {"wrap", "full"} => cursor_y <= HEIGHT /\ (cursor_y = HEIGHT => cursor_x = 0)
  /\ at \in {"wrap_home", "wrap_row"} => cursor_y < HEIGHT
  /\ at = "wrap_row" => cursor_x = 0 /\ screen = Target.text /\ CellNo(0, cursor_y + 1) = Target.pos
  /\ at = "scroll" => row <= HEIGHT - 1 /\ screen = Above(Target.text, row)
  /\ at \in {"bottom", "bottom_home"} => screen = Scrolled(Target.text)
  /\ at \in {"scroll", "bottom", "bottom_home"} => Target.pos >= Area
  /\ at = "bottom_home" => cursor_y = HEIGHT - 1
  /\ at = "fill" => \A c \in Cells : c \div WIDTH < row => screen[c] = BLANK
  /\ at \in {"clear_home", "clear_top"} => screen = Blank
  /\ at = "clear_top" => cursor_x = 0

(* update_cursor: the screen is final, and the registers follow. *)
Telling ==
  /\ at \in AfterTests => Shown = Result
  /\ at \in AfterTests \ {"idle", "location"} => location = CellNo(cursor_x, cursor_y)
  /\ at = "high" => crt.index = "high"
  /\ at = "low" => crt.index = "low"
  /\ at \in {"low_index", "low"} => crt.high = Data.high

Calm == stray = FALSE /\ Origin /\ Keyed /\ Printing /\ Fitting /\ Telling
Undisturbed == at # "idle" /\ raced = FALSE => Calm

LEMMA Origins ==
  ASSUME Origin
  PROVE  /\ X0 \in 0..(WIDTH - 1) /\ X0 \in Nat /\ X0 < WIDTH
         /\ Y0 \in Nat /\ Y0 < HEIGHT /\ CellNo(X0, Y0) = before.pos
         /\ before.pos \in Nat /\ before.pos < Area /\ before.text \in Screens
<1>1. before.pos \in Nat /\ before.pos < Area /\ before.text \in Screens
  BY DEF Origin
<1>2. Y0 \in Nat /\ X0 \in 0..(WIDTH - 1) /\ before.pos = WIDTH * Y0 + X0
  BY <1>1, ConsoleSizes, Divide DEF X0, Y0
<1>3. X0 \in Nat /\ X0 < WIDTH
  BY <1>2, ConsoleSizes
<1>4. CellNo(X0, Y0) = before.pos
  BY <1>2, <1>3, ConsoleSizes, ProductIn DEF CellNo
<1>5. Y0 < HEIGHT
  BY <1>1, <1>2, <1>3, <1>4, CellNoOnScreen, AreaIn, ConsoleSizes
<1> QED BY <1>1, <1>2, <1>3, <1>4, <1>5

(* The terminal, key by key. *)
Moved(p) == [before EXCEPT !.pos = p]
Stop == (X0 \div TAB + 1) * TAB

LEMMA AdvancedCases ==
  /\ ch = NL => Target = Moved(before.pos - X0 + WIDTH)
  /\ ch = CR => Target = Moved(before.pos - X0)
  /\ ch = BS => Target = [text |-> [before.text EXCEPT ![Back] = BLANK], pos |-> Back]
  /\ ch = HT => Target = Moved(before.pos - X0 + (IF Stop < WIDTH THEN Stop ELSE WIDTH))
  /\ ch \in Glyphs =>
       Target = [text |-> [before.text EXCEPT ![before.pos] = ch], pos |-> before.pos + 1]
<1>1. ASSUME ch = NL PROVE Target = Moved(before.pos - X0 + WIDTH)
  <2>1. Target = [before EXCEPT !.pos = @ - (before.pos % WIDTH) + WIDTH]
    BY <1>1, Marks, Zenon DEF Target, Advanced
  <2> QED BY <2>1 DEF Moved, X0
<1>2. ASSUME ch = CR PROVE Target = Moved(before.pos - X0)
  <2>1. Target = [before EXCEPT !.pos = @ - (before.pos % WIDTH)]
    BY <1>2, Marks, Zenon DEF Target, Advanced
  <2> QED BY <2>1 DEF Moved, X0
<1>3. ASSUME ch = BS
      PROVE  Target = [text |-> [before.text EXCEPT ![Back] = BLANK], pos |-> Back]
  BY <1>3, Marks, Zenon DEF Target, Advanced, Back
<1>4. ASSUME ch = HT
      PROVE  Target = Moved(before.pos - X0 + (IF Stop < WIDTH THEN Stop ELSE WIDTH))
  <2>1. Target = [before EXCEPT !.pos = @ - (before.pos % WIDTH) +
                   (IF ((before.pos % WIDTH) \div TAB + 1) * TAB < WIDTH
                      THEN ((before.pos % WIDTH) \div TAB + 1) * TAB ELSE WIDTH)]
    BY <1>4, Marks, Zenon DEF Target, Advanced
  <2> QED BY <2>1 DEF Moved, X0, Stop
<1>5. ASSUME ch \in Glyphs
      PROVE  Target = [text |-> [before.text EXCEPT ![before.pos] = ch], pos |-> before.pos + 1]
  BY <1>5, Marks, Zenon DEF Target, Advanced
<1> QED BY <1>1, <1>2, <1>3, <1>4, <1>5

LEMMA MovedTo ==
  ASSUME Origin, NEW p
  PROVE  Moved(p) = [text |-> before.text, pos |-> p]
  BY DEF Origin, Moved

LEMMA BackIn == ASSUME Origin PROVE Back \in Cells /\ Back \in Nat /\ Back < Area
  BY Origins, AreaIn DEF Back

LEMMA AdvancedIs ==
  ASSUME Origin, ch \in Typeable
  PROVE  /\ Target \in [text : Screens, pos : Nat]
         /\ ch = NL => Target.pos = CellNo(0, Y0 + 1) /\ Target.text = before.text
         /\ ch = CR => Target.pos = CellNo(0, Y0) /\ Target.text = before.text
         /\ ch = BS => Target.pos = Back /\ Target.text = Drawn(before.text, Back, BLANK)
         /\ ch = HT /\ NextTab(X0) < WIDTH =>
              Target.pos = CellNo(NextTab(X0), Y0) /\ Target.text = before.text
         /\ ch = HT /\ NextTab(X0) >= WIDTH =>
              Target.pos = CellNo(0, Y0 + 1) /\ Target.text = before.text
         /\ ch \in Glyphs =>
              /\ Target.pos = CellNo(X0 + 1, Y0)
              /\ Target.text = Drawn(before.text, before.pos, ch)
<1> DEFINE start == CellNo(0, Y0)
<1>1. before.pos = start + X0 /\ start \in Nat /\ CellNo(0, Y0 + 1) = start + WIDTH
  BY Origins, CellNos
<1>2. \A x \in Nat : CellNo(x, Y0) = start + x
  BY Origins, CellNos
<1>3. before.pos - X0 = start /\ before.pos - X0 + WIDTH = start + WIDTH
      /\ before.pos + 1 = start + (X0 + 1)
  BY <1>1, Origins, ConsoleSizes
<1>4. before.text \in Screens /\ start + WIDTH \in Nat
  BY <1>1, Origins, ConsoleSizes
<1> HIDE DEF start
<1>5. CASE ch = NL
  <2>1. Target = [text |-> before.text, pos |-> start + WIDTH]
    BY <1>3, <1>5, AdvancedCases, MovedTo
  <2> QED BY <1>1, <1>4, <1>5, <2>1, Marks
<1>6. CASE ch = CR
  <2>1. Target = [text |-> before.text, pos |-> start]
    BY <1>3, <1>6, AdvancedCases, MovedTo
  <2> QED BY <1>1, <1>4, <1>6, <2>1, Marks DEF start
<1>7. CASE ch = BS
  <2>1. Target = [text |-> Drawn(before.text, Back, BLANK), pos |-> Back]
    BY <1>7, AdvancedCases DEF Drawn
  <2>2. Drawn(before.text, Back, BLANK) \in Screens
    BY <1>4, BackIn, DrawnIn, ConsoleSizes
  <2> QED BY <1>7, <2>1, <2>2, BackIn, Marks
<1>8. CASE ch = HT
  <2> DEFINE n == NextTab(X0)
  <2>1. n = Stop /\ n \in Nat
    BY Origins, NextStop DEF Stop
  <2> HIDE DEF n
  <2>2. Target = [text |-> before.text, pos |-> start + (IF n < WIDTH THEN n ELSE WIDTH)]
    BY <1>3, <1>8, <2>1, AdvancedCases, MovedTo
  <2>3. start + (IF n < WIDTH THEN n ELSE WIDTH) \in Nat
    BY <1>1, <2>1, ConsoleSizes
  <2>4. Target \in [text : Screens, pos : Nat]
    BY <1>4, <2>2, <2>3
  <2>5. CellNo(n, Y0) = start + n
    BY <1>2, <2>1
  <2>6. n < WIDTH => Target.pos = CellNo(n, Y0) /\ Target.text = before.text
    BY <2>2, <2>5
  <2>7. n >= WIDTH => Target.pos = CellNo(0, Y0 + 1) /\ Target.text = before.text
    BY <1>1, <2>1, <2>2, ConsoleSizes
  <2> QED BY <1>8, <2>4, <2>6, <2>7, Marks DEF n
<1>9. CASE ch \in Glyphs
  <2>1. Target = [text |-> Drawn(before.text, before.pos, ch), pos |-> start + (X0 + 1)]
    BY <1>3, <1>9, AdvancedCases DEF Drawn
  <2>2. before.pos \in Cells
    BY Origins, AreaIn
  <2>3. Drawn(before.text, before.pos, ch) \in Screens
    BY <1>4, <1>9, <2>2, DrawnIn
  <2>4. X0 + 1 \in Nat /\ start + (X0 + 1) \in Nat /\ CellNo(X0 + 1, Y0) = start + (X0 + 1)
    BY <1>1, <1>2, Origins
  <2> QED BY <1>9, <2>1, <2>3, <2>4, Marks
<1> QED BY <1>5, <1>6, <1>7, <1>8, <1>9 DEF Typeable

LEMMA Results ==
  ASSUME Origin
  PROVE  /\ ch = "clear" => Result = [text |-> Blank, pos |-> 0]
         /\ ch \in Typeable /\ Target.pos < Area =>
              Result = [text |-> Target.text, pos |-> Target.pos]
         /\ ch \in Typeable /\ Target.pos >= Area =>
              Result = [text |-> Scrolled(Target.text), pos |-> CellNo(0, HEIGHT - 1)]
<1>1. ASSUME ch = "clear" PROVE Result = [text |-> Blank, pos |-> 0]
  BY <1>1 DEF Result, Cleared, Blank
<1>2. ASSUME ch \in Typeable PROVE Result = Terminal(before, ch)
  BY <1>2, ConsoleAssumption DEF Typeable, Result
<1>3. ASSUME ch \in Typeable, Target.pos < Area
      PROVE  Result = [text |-> Target.text, pos |-> Target.pos]
  <2>1. Result = Target
    BY <1>2, <1>3 DEF Terminal, Target, Area
  <2> QED BY <1>3, <2>1, AdvancedIs
<1>4. ASSUME ch \in Typeable, Target.pos >= Area
      PROVE  Result = [text |-> Scrolled(Target.text), pos |-> CellNo(0, HEIGHT - 1)]
  <2>1. ~(Target.pos < Area)
    BY <1>4, AdvancedIs, AreaIn
  <2>2. Result = [pos |-> WIDTH * (HEIGHT - 1),
                  text |-> [p \in Cells |-> IF p + WIDTH \in Cells
                                              THEN Target.text[p + WIDTH] ELSE BLANK]]
    BY <1>2, <1>4, <2>1, Zenon DEF Terminal, Target, Area
  <2>3. [p \in Cells |-> IF p + WIDTH \in Cells THEN Target.text[p + WIDTH] ELSE BLANK]
          = Scrolled(Target.text)
    BY RowOf DEF Scrolled
  <2>4. WIDTH * (HEIGHT - 1) = CellNo(0, HEIGHT - 1)
    BY ConsoleSizes, ProductIn, SMT DEF CellNo
  <2> QED BY <2>2, <2>3, <2>4
<1> QED BY <1>1, <1>3, <1>4

(* The copying of the rows, one at a time. *)
LEMMA AboveStarts == \A scr \in Screens : Above(scr, 0) = scr
<1> SUFFICES ASSUME NEW scr \in Screens PROVE Above(scr, 0) = scr
  OBVIOUS
<1>1. \A c \in Cells : ~(c \div WIDTH < 0)
  BY RowOf, ConsoleSizes
<1>2. Above(scr, 0) = [c \in Cells |-> scr[c]]
  BY <1>1 DEF Above
<1> QED BY <1>2 DEF Screens

LEMMA AboveGrows ==
  ASSUME NEW scr \in Screens, NEW r \in Nat, r < HEIGHT - 1
  PROVE  RowUp(Above(scr, r), r) = Above(scr, r + 1)
<1> DEFINE now == Above(scr, r)
<1>1. \A c \in Cells : now[c] = IF c \div WIDTH < r THEN scr[c + WIDTH] ELSE scr[c]
  BY DEF Above
<1> HIDE DEF now
<1>2. ASSUME NEW c \in Cells
      PROVE  (IF c \div WIDTH = r THEN now[c + WIDTH] ELSE now[c])
               = IF c \div WIDTH < r + 1 THEN scr[c + WIDTH] ELSE scr[c]
  <2>1. c \div WIDTH \in Nat
    BY RowOf, ConsoleSizes
  <2>2. CASE c \div WIDTH = r
    <3>1. c + WIDTH \in Cells /\ (c + WIDTH) \div WIDTH = r + 1
      BY <2>2, RowOf
    <3>2. now[c + WIDTH] = scr[c + WIDTH]
      BY <1>1, <3>1
    <3> QED BY <2>2, <3>2
  <2>3. CASE c \div WIDTH # r
    BY <1>1, <2>1, <2>3
  <2> QED BY <2>2, <2>3
<1> QED BY <1>2 DEF RowUp, Above, now

LEMMA AboveEnds ==
  ASSUME NEW scr \in Screens
  PROVE  [c \in Cells |-> IF c \div WIDTH = HEIGHT - 1 THEN BLANK ELSE Above(scr, HEIGHT - 1)[c]]
           = Scrolled(scr)
<1>1. ASSUME NEW c \in Cells
      PROVE  (IF c \div WIDTH = HEIGHT - 1 THEN BLANK ELSE Above(scr, HEIGHT - 1)[c])
               = IF c \div WIDTH < HEIGHT - 1 THEN scr[c + WIDTH] ELSE BLANK
  <2>1. c \div WIDTH \in 0..(HEIGHT - 1)
    BY RowOf
  <2>2. Above(scr, HEIGHT - 1)[c] = IF c \div WIDTH < HEIGHT - 1 THEN scr[c + WIDTH] ELSE scr[c]
    BY DEF Above
  <2> QED BY <2>1, <2>2, ConsoleSizes
<1> QED BY <1>1 DEF Scrolled
-----------------------------------------------------------------------------
(***************************************************************************)
(* Each statement takes the call to what Calm says of the next one.         *)
(***************************************************************************)
LEMMA CursorTypes ==
  ASSUME ConsoleTypeOK
  PROVE  /\ cursor_x \in Nat /\ cursor_y \in Nat /\ cursor_x < WORD /\ cursor_y < WORD
         /\ screen \in Screens /\ row \in Nat
  BY ConsoleSizes DEF ConsoleTypeOK, Screens

LEMMA CallStays ==
  ASSUME UNCHANGED <<ch, before>>, Calm
  PROVE  /\ X0' = X0 /\ Y0' = Y0 /\ Back' = Back /\ Target' = Target /\ Result' = Result
         /\ before' = before /\ ch' = ch /\ Origin'
  BY DEF X0, Y0, Back, Target, Result, Origin, Calm

LEMMA IncNext == \A n \in Nat : n + 1 < WORD => Inc(n) = n + 1
<1> SUFFICES ASSUME NEW n \in Nat, n + 1 < WORD PROVE Inc(n) = n + 1
  OBVIOUS
<1>1. \A m \in Nat, d \in Nat : m < d => m % d = m
  BY SMT
<1> QED BY <1>1, ConsoleSizes DEF Inc

LEMMA DecPrevious == \A n \in Nat : 0 < n /\ n <= WORD => Dec(n) = n - 1
<1> SUFFICES ASSUME NEW n \in Nat, 0 < n, n <= WORD PROVE Dec(n) = n - 1
  OBVIOUS
<1>1. n + WORD - 1 = WORD * 1 + (n - 1) /\ n - 1 \in 0..(WORD - 1)
  BY ConsoleSizes
<1>2. (WORD * 1 + (n - 1)) % WORD = n - 1
  BY <1>1, ConsoleSizes, Unique
<1> QED BY <1>1, <1>2 DEF Dec

LEMMA HomeCalm ==
  ASSUME ConsoleInv, Calm, Home
  PROVE  Calm'
<1>1. /\ X0' = X0 /\ Y0' = Y0 /\ Back' = Back /\ Target' = Target /\ Result' = Result
      /\ before' = before /\ ch' = ch /\ Origin'
  BY CallStays DEF Home, ghosts
<1>2. /\ cursor_x' = 0 /\ UNCHANGED <<cursor_y, screen, crt, offset, row, location, stray>>
  BY DEF Home, locals, ghosts
<1>3. /\ X0 \in Nat /\ Y0 \in Nat /\ Y0 < HEIGHT /\ cursor_y \in Nat
      /\ WIDTH \in Nat /\ HEIGHT \in Nat /\ WIDTH > 0
  BY Origins, CursorTypes, ConsoleSizes DEF Calm, ConsoleInv
<1>4. CASE at = "nl_home" \/ at = "tab_home" \/ at = "clear_home"
  <2>1. at' = HomeNext[at] /\ HomeNext[at] \in {"nl_row", "tab_row", "clear_top"}
        /\ (HomeNext[at] = "nl_row" <=> at = "nl_home")
        /\ (HomeNext[at] = "tab_row" <=> at = "tab_home")
        /\ (HomeNext[at] = "clear_top" <=> at = "clear_home")
    BY <1>4 DEF Home, HomeNext
  <2> QED
    BY <1>1, <1>2, <1>4, <2>1
    DEF Calm, Keyed, Printing, Fitting, Telling, Untouched, Same, AfterTests
<1>5. CASE at = "cr_home"
  <2>1. at' = "wrap"
    BY <1>5 DEF Home, HomeNext
  <2>2. ch = CR /\ screen = before.text /\ cursor_y = Y0
    BY <1>5 DEF Calm, Keyed, Printing, Untouched, Same
  <2>3. Target.pos = CellNo(0, Y0) /\ Target.text = before.text
    BY <2>2, AdvancedIs DEF Calm, Typeable
  <2>4. Reached'
    BY <1>1, <1>2, <2>2, <2>3 DEF Reached
  <2> QED
    BY <1>1, <1>2, <1>3, <2>1, <2>2, <2>4
    DEF Calm, Keyed, Printing, Fitting, Telling, AfterTests, Typeable
<1>6. CASE at = "wrap_home"
  <2>1. at' = "wrap_row"
    BY <1>6 DEF Home, HomeNext
  <2>2. ch \in Typeable /\ Reached /\ cursor_x = WIDTH /\ cursor_y < HEIGHT
    BY <1>6 DEF Calm, Keyed, Fitting
  <2>3. CellNo(WIDTH, cursor_y) = CellNo(0, cursor_y + 1)
    BY <1>3, CellNos
  <2>4. screen' = Target.text /\ CellNo(0, cursor_y + 1) = Target.pos
    BY <1>2, <2>2, <2>3 DEF Reached
  <2> QED
    BY <1>1, <1>2, <1>3, <2>1, <2>2, <2>4
    DEF Calm, Keyed, Printing, Fitting, Telling, AfterTests
<1>7. CASE at = "bottom_home"
  <2>1. at' = "location"
    BY <1>7 DEF Home, HomeNext
  <2>2. /\ ch \in Typeable /\ screen = Scrolled(Target.text) /\ Target.pos >= Area
        /\ cursor_y = HEIGHT - 1
    BY <1>7 DEF Calm, Keyed, Fitting
  <2>3. Result = [text |-> Scrolled(Target.text), pos |-> CellNo(0, HEIGHT - 1)]
    BY <2>2, Results DEF Calm
  <2>4. Shown' = Result
    BY <1>2, <2>2, <2>3 DEF Shown, CellNo
  <2> QED
    BY <1>1, <1>2, <1>3, <2>1, <2>2, <2>4
    DEF Calm, Keyed, Printing, Fitting, Telling, AfterTests
<1> QED BY <1>4, <1>5, <1>6, <1>7 DEF Home, HomeNext

LEMMA DownCalm ==
  ASSUME ConsoleInv, Calm, Down
  PROVE  Calm'
<1>1. /\ X0' = X0 /\ Y0' = Y0 /\ Back' = Back /\ Target' = Target /\ Result' = Result
      /\ before' = before /\ ch' = ch /\ Origin'
  BY CallStays DEF Down, ghosts
<1>2. /\ cursor_y' = Inc(cursor_y)
      /\ UNCHANGED <<cursor_x, screen, crt, offset, row, location, stray>>
  BY DEF Down, locals, ghosts
<1>3. /\ X0 \in Nat /\ Y0 \in Nat /\ Y0 < HEIGHT /\ cursor_y \in Nat /\ cursor_x \in Nat
      /\ WIDTH \in Nat /\ HEIGHT \in Nat /\ WIDTH > 0
  BY Origins, CursorTypes, ConsoleSizes DEF Calm, ConsoleInv
<1>4. cursor_y < HEIGHT => cursor_y' = cursor_y + 1
  BY <1>2, <1>3, IncNext, ConsoleSizes
<1>5. CASE at = "nl_row" \/ at = "tab_row"
  <2>1. at' = "wrap"
    BY <1>5 DEF Down, DownNext
  <2>2. cursor_x = 0 /\ cursor_y = Y0 /\ screen = before.text
    BY <1>5 DEF Calm, Keyed, Printing, Same
  <2>3. ch \in Typeable /\ (ch = NL \/ (ch = HT /\ NextTab(X0) >= WIDTH))
    BY <1>5 DEF Calm, Keyed, Printing, Typeable
  <2>4. Target.pos = CellNo(0, Y0 + 1) /\ Target.text = before.text
    BY <2>3, AdvancedIs DEF Calm
  <2>5. cursor_y' = Y0 + 1
    BY <1>3, <1>4, <2>2
  <2>6. Reached'
    BY <1>1, <1>2, <2>2, <2>4, <2>5 DEF Reached
  <2> QED
    BY <1>1, <1>2, <1>3, <2>1, <2>2, <2>3, <2>5, <2>6
    DEF Calm, Keyed, Printing, Fitting, Telling, AfterTests
<1>6. CASE at = "wrap_row"
  <2>1. at' = "full"
    BY <1>6 DEF Down, DownNext
  <2>2. /\ ch \in Typeable /\ cursor_y < HEIGHT
        /\ cursor_x = 0 /\ screen = Target.text /\ CellNo(0, cursor_y + 1) = Target.pos
    BY <1>6 DEF Calm, Keyed, Fitting
  <2>3. cursor_y' = cursor_y + 1
    BY <1>4, <2>2
  <2>4. Reached'
    BY <1>1, <1>2, <2>2, <2>3 DEF Reached
  <2> QED
    BY <1>1, <1>2, <1>3, <2>1, <2>2, <2>3, <2>4
    DEF Calm, Keyed, Printing, Fitting, Telling, AfterTests
<1> QED BY <1>5, <1>6 DEF Down, DownNext

LEMMA ToRowCalm ==
  ASSUME ConsoleInv, Calm, ToRow
  PROVE  Calm'
<1>1. /\ X0' = X0 /\ Y0' = Y0 /\ Back' = Back /\ Target' = Target /\ Result' = Result
      /\ before' = before /\ ch' = ch /\ Origin'
  BY CallStays DEF ToRow, ghosts
<1>2. UNCHANGED <<cursor_x, screen, crt, offset, row, location, stray>>
  BY DEF ToRow, locals, ghosts
<1>3. CASE at = "bottom"
  <2>1. at' = "bottom_home" /\ cursor_y' = HEIGHT - 1
    BY <1>3 DEF ToRow
  <2>2. ch \in Typeable /\ screen = Scrolled(Target.text) /\ Target.pos >= Area
    BY <1>3 DEF Calm, Keyed, Fitting
  <2> QED
    BY <1>1, <1>2, <2>1, <2>2
    DEF Calm, Keyed, Printing, Fitting, Telling, AfterTests
<1>4. CASE at = "clear_top"
  <2>1. at' = "location" /\ cursor_y' = 0
    BY <1>4 DEF ToRow
  <2>2. ch = "clear" /\ screen = Blank /\ cursor_x = 0
    BY <1>4 DEF Calm, Keyed, Fitting
  <2>3. CellNo(0, 0) = 0
    BY CellNos
  <2>4. Shown' = Result
    BY <1>2, <2>1, <2>2, <2>3, Results DEF Calm, Shown, CellNo
  <2> QED
    BY <1>1, <1>2, <2>1, <2>2, <2>4
    DEF Calm, Keyed, Printing, Fitting, Telling, AfterTests
<1> QED BY <1>3, <1>4 DEF ToRow

LEMMA TestCalm ==
  ASSUME ConsoleInv, Calm, Test
  PROVE  Calm'
<1>1. /\ X0' = X0 /\ Y0' = Y0 /\ Back' = Back /\ Target' = Target /\ Result' = Result
      /\ before' = before /\ ch' = ch /\ Origin'
  BY CallStays DEF Test, ghosts
<1>2. row' = 0 /\ UNCHANGED <<cursor_x, cursor_y, screen, crt, offset, location, stray>>
  BY DEF Test, cursor, ghosts
<1>3. /\ X0 \in Nat /\ X0 < WIDTH /\ Y0 \in Nat /\ Y0 < HEIGHT
      /\ cursor_y \in Nat /\ cursor_x \in Nat
      /\ WIDTH \in Nat /\ HEIGHT \in Nat /\ WIDTH > 0 /\ HEIGHT > 0
      /\ CellNo(X0, Y0) = before.pos
  BY Origins, CursorTypes, ConsoleSizes DEF Calm, ConsoleInv
<1>4. CASE at = "erase"
  <2>1. ch = BS /\ cursor_x = X0 /\ cursor_y = Y0 /\ screen = before.text
    BY <1>4 DEF Calm, Keyed, Printing, Untouched, Same
  <2>2. at' = IF X0 > 0 THEN "left" ELSE IF Y0 > 0 THEN "up" ELSE "erase_cell"
    BY <1>4, <2>1 DEF Test
  <2>3. at' = "erase_cell" => CellNo(cursor_x, cursor_y) = Back
    <3> SUFFICES ASSUME at' = "erase_cell" PROVE CellNo(cursor_x, cursor_y) = Back
      OBVIOUS
    <3>1. X0 = 0 /\ Y0 = 0
      BY <1>3, <2>2
    <3>2. before.pos = 0
      BY <1>3, <3>1, CellNos
    <3> QED BY <1>3, <2>1, <3>2 DEF Back
  <2>4. at' \in {"left", "up", "erase_cell"} /\ (at' = "left" => X0 > 0)
        /\ (at' = "up" => X0 = 0 /\ Y0 > 0)
    BY <1>3, <2>2
  <2> QED
    BY <1>1, <1>2, <1>3, <2>1, <2>3, <2>4
    DEF Calm, Keyed, Printing, Fitting, Telling, AfterTests, Untouched, Same
<1>5. CASE at = "tab_test"
  <2>1. ch = HT /\ cursor_x = NextTab(X0) /\ cursor_y = Y0 /\ screen = before.text
    BY <1>5 DEF Calm, Keyed, Printing, Same
  <2>2. at' = IF cursor_x >= WIDTH THEN "tab_home" ELSE "wrap"
    BY <1>5 DEF Test
  <2>3. CASE cursor_x >= WIDTH
    <3>1. at' = "tab_home"
      BY <2>2, <2>3
    <3> QED
      BY <1>1, <1>2, <2>1, <2>3, <3>1
      DEF Calm, Keyed, Printing, Fitting, Telling, AfterTests, Same
  <2>4. CASE cursor_x < WIDTH
    <3>1. at' = "wrap"
      BY <1>3, <2>2, <2>4
    <3>2. Reached'
      BY <1>1, <1>2, <2>1, <2>4, AdvancedIs DEF Reached, Calm, Typeable
    <3> QED
      BY <1>1, <1>2, <1>3, <2>1, <2>4, <3>1, <3>2
      DEF Calm, Keyed, Printing, Fitting, Telling, AfterTests, Typeable
  <2> QED BY <1>3, <2>3, <2>4
<1>6. CASE at = "wrap"
  <2>1. /\ ch \in Typeable /\ Reached /\ cursor_x <= WIDTH
        /\ cursor_y <= HEIGHT /\ (cursor_y = HEIGHT => cursor_x = 0)
    BY <1>6 DEF Calm, Keyed, Fitting
  <2>2. at' = IF cursor_x >= WIDTH THEN "wrap_home" ELSE "full"
    BY <1>6 DEF Test, Wraps
  <2>3. Reached'
    BY <1>1, <1>2, <2>1 DEF Reached
  <2>4. at' \in {"wrap_home", "full"}
        /\ (at' = "wrap_home" => cursor_x = WIDTH /\ cursor_y < HEIGHT)
    BY <1>3, <2>1, <2>2
  <2> QED
    BY <1>1, <1>2, <2>1, <2>3, <2>4
    DEF Calm, Keyed, Printing, Fitting, Telling, AfterTests
<1>7. CASE at = "full"
  <2>1. ch \in Typeable /\ Reached
    BY <1>7 DEF Calm, Keyed, Fitting
  <2>2. at' = IF cursor_y >= HEIGHT THEN "scroll" ELSE "location"
    BY <1>7 DEF Test
  <2>3. CASE cursor_y >= HEIGHT
    <3>1. at' = "scroll"
      BY <2>2, <2>3
    <3>2. Target.pos >= Area
      BY <1>3, <2>1, <2>3, CellNoOnScreen DEF Reached
    <3>3. screen = Above(Target.text, 0)
      BY <2>1, CursorTypes, AboveStarts DEF ConsoleInv, Reached
    <3>4. row' <= HEIGHT - 1 /\ screen' = Above(Target.text, row')
      BY <1>1, <1>2, <1>3, <3>3
    <3> QED
      BY <1>1, <1>2, <2>1, <3>1, <3>2, <3>4
      DEF Calm, Keyed, Printing, Fitting, Telling, AfterTests
  <2>4. CASE cursor_y < HEIGHT
    <3>1. at' = "location"
      BY <1>3, <2>2, <2>4
    <3>2. cursor_x < WIDTH
      BY <1>7 DEF ConsoleInv, Where, AfterWrap
    <3>3. Target.pos < Area
      BY <1>3, <2>1, <2>4, <3>2, CellNoOnScreen DEF Reached
    <3>4. Result = [text |-> Target.text, pos |-> Target.pos]
      BY <2>1, <3>3, Results DEF Calm
    <3>5. Shown' = Result
      BY <1>2, <2>1, <3>4 DEF Shown, Reached, CellNo
    <3> QED
      BY <1>1, <1>2, <2>1, <3>1, <3>5
      DEF Calm, Keyed, Printing, Fitting, Telling, AfterTests
  <2> QED BY <1>3, <2>3, <2>4
<1> QED BY <1>4, <1>5, <1>6, <1>7 DEF Test

LEMMA MoveLeftCalm ==
  ASSUME ConsoleInv, Calm, MoveLeft
  PROVE  Calm'
<1>1. /\ X0' = X0 /\ Y0' = Y0 /\ Back' = Back /\ Target' = Target /\ Result' = Result
      /\ before' = before /\ ch' = ch /\ Origin'
  BY CallStays DEF MoveLeft, ghosts
<1>2. UNCHANGED <<cursor_y, screen, crt, offset, row, location, stray>>
  BY DEF MoveLeft, locals, ghosts
<1>3. /\ X0 \in Nat /\ X0 < WIDTH /\ Y0 \in Nat /\ Y0 < HEIGHT
      /\ WIDTH \in Nat /\ HEIGHT \in Nat /\ WIDTH > 0 /\ HEIGHT > 0 /\ WORD \in Nat /\ WIDTH < WORD
      /\ CellNo(X0, Y0) = before.pos
  BY Origins, ConsoleSizes DEF Calm
<1>4. CASE at = "left"
  <2>1. ch = BS /\ cursor_x = X0 /\ cursor_y = Y0 /\ screen = before.text /\ X0 > 0
    BY <1>4 DEF Calm, Keyed, Printing, Untouched, Same
  <2>2. at' = "erase_cell" /\ cursor_x' = Dec(X0)
    BY <1>4, <2>1, Zenon DEF MoveLeft
  <2>3. Dec(X0) = X0 - 1
    BY <1>3, <2>1, DecPrevious
  <2>4. CellNo(X0 - 1, Y0) = Back
    <3>1. CellNo(X0 - 1, Y0) = CellNo(0, Y0) + (X0 - 1)
      BY <1>3, <2>1, CellNos
    <3>2. CellNo(X0, Y0) = CellNo(0, Y0) + X0 /\ CellNo(0, Y0) \in Nat
      BY <1>3, CellNos
    <3> QED BY <1>3, <2>1, <3>1, <3>2 DEF Back
  <2> QED
    BY <1>1, <1>2, <1>3, <2>1, <2>2, <2>3, <2>4
    DEF Calm, Keyed, Printing, Fitting, Telling, AfterTests, Same
<1>5. CASE at = "up_end"
  <2>1. ch = BS /\ X0 = 0 /\ Y0 > 0 /\ cursor_y = Y0 - 1 /\ screen = before.text
    BY <1>5 DEF Calm, Keyed, Printing, Same
  <2>2. at' = "erase_cell" /\ cursor_x' = WIDTH - 1
    <3>1. at' = "erase_cell" /\ cursor_x' = EndOfRow
      BY <1>5, Zenon DEF MoveLeft
    <3> QED BY <3>1 DEF EndOfRow
  <2>3. CellNo(WIDTH - 1, Y0 - 1) = Back
    <3>1. Y0 - 1 \in Nat /\ WIDTH - 1 \in Nat /\ Y0 - 1 + 1 = Y0
      BY <1>3, <2>1
    <3>2. CellNo(0, Y0 - 1 + 1) = CellNo(0, Y0 - 1) + WIDTH /\ CellNo(0, Y0 - 1) \in Nat
          /\ CellNo(WIDTH - 1, Y0 - 1) = CellNo(0, Y0 - 1) + (WIDTH - 1)
      BY <3>1, CellNos
    <3>3. CellNo(0, Y0) = CellNo(0, Y0 - 1) + WIDTH
      BY <3>1, <3>2
    <3>4. before.pos = CellNo(0, Y0)
      BY <1>3, <2>1
    <3> QED BY <1>3, <3>2, <3>3, <3>4 DEF Back
  <2> QED
    BY <1>1, <1>2, <1>3, <2>1, <2>2, <2>3
    DEF Calm, Keyed, Printing, Fitting, Telling, AfterTests, Same
<1>6. CASE at = "right"
  <2>1. /\ ch \in Glyphs /\ cursor_x = X0 /\ cursor_y = Y0
        /\ screen = Drawn(before.text, before.pos, ch)
    BY <1>6 DEF Calm, Keyed, Printing
  <2>2. at' = "wrap" /\ cursor_x' = Inc(X0)
    BY <1>6, <2>1, Zenon DEF MoveLeft
  <2>3. Inc(X0) = X0 + 1
    BY <1>3, IncNext
  <2>4. Reached'
    BY <1>1, <1>2, <2>1, <2>2, <2>3, AdvancedIs DEF Reached, Calm, Typeable
  <2> QED
    BY <1>1, <1>2, <1>3, <2>1, <2>2, <2>3, <2>4
    DEF Calm, Keyed, Printing, Fitting, Telling, AfterTests, Typeable
<1>7. CASE at = "tab"
  <2>1. ch = HT /\ cursor_x = X0 /\ cursor_y = Y0 /\ screen = before.text
    BY <1>7 DEF Calm, Keyed, Printing, Untouched, Same
  <2>2. at' = "tab_test" /\ cursor_x' = NextTab(X0)
    BY <1>7, <2>1, Zenon DEF MoveLeft
  <2> QED
    BY <1>1, <1>2, <1>3, <2>1, <2>2
    DEF Calm, Keyed, Printing, Fitting, Telling, AfterTests, Same
<1> QED BY <1>4, <1>5, <1>6, <1>7 DEF MoveLeft

LEMMA MoveUpCalm ==
  ASSUME ConsoleInv, Calm, MoveUp
  PROVE  Calm'
<1>1. /\ X0' = X0 /\ Y0' = Y0 /\ Back' = Back /\ Target' = Target /\ Result' = Result
      /\ before' = before /\ ch' = ch /\ Origin'
  BY CallStays DEF MoveUp, ghosts
<1>2. /\ at = "up" /\ at' = "up_end" /\ cursor_y' = Dec(cursor_y)
      /\ UNCHANGED <<cursor_x, screen, crt, offset, row, location, stray>>
  BY DEF MoveUp, locals, ghosts
<1>3. ch = BS /\ cursor_y = Y0 /\ screen = before.text /\ X0 = 0 /\ Y0 > 0
  BY <1>2 DEF Calm, Keyed, Printing, Untouched, Same
<1>4. Y0 \in Nat /\ Y0 <= WORD
  BY Origins, ConsoleSizes DEF Calm
<1>5. cursor_y' = Y0 - 1
  BY <1>2, <1>3, <1>4, DecPrevious
<1> QED
  BY <1>1, <1>2, <1>3, <1>5
  DEF Calm, Keyed, Printing, Fitting, Telling, AfterTests, Same

LEMMA FindCellCalm ==
  ASSUME ConsoleInv, Calm, FindCell
  PROVE  Calm'
<1>1. /\ X0' = X0 /\ Y0' = Y0 /\ Back' = Back /\ Target' = Target /\ Result' = Result
      /\ before' = before /\ ch' = ch /\ Origin'
  BY CallStays DEF FindCell, ghosts
<1>2. /\ offset' = CellAt(cursor_x, cursor_y)
      /\ UNCHANGED <<cursor_x, cursor_y, screen, crt, row, location, stray>>
  BY DEF FindCell, cursor, ghosts
<1>3. /\ X0 \in Nat /\ X0 < WIDTH /\ Y0 \in Nat /\ Y0 < HEIGHT
      /\ cursor_x \in Nat /\ cursor_y \in Nat /\ CellNo(X0, Y0) = before.pos
  BY Origins, CursorTypes DEF Calm, ConsoleInv
<1>4. CASE at = "cell"
  <2>1. at' = "store" /\ ch \in Glyphs /\ Untouched
    BY <1>4 DEF FindCell, Calm, Keyed, Printing
  <2>2. offset' = before.pos
    BY <1>2, <1>3, <2>1, CellAtIsNo DEF Untouched
  <2> QED
    BY <1>1, <1>2, <2>1, <2>2
    DEF Calm, Keyed, Printing, Fitting, Telling, AfterTests, Untouched, Same
<1>5. CASE at = "erase_cell"
  <2>1. /\ at' = "erase_store" /\ ch = BS /\ cursor_x < WIDTH /\ cursor_y < HEIGHT
        /\ CellNo(cursor_x, cursor_y) = Back /\ Same
    BY <1>5 DEF FindCell, Calm, Keyed, Printing
  <2>2. offset' = Back
    BY <1>2, <1>3, <2>1, CellAtIsNo
  <2>3. CellNo(cursor_x, cursor_y)' = CellNo(cursor_x, cursor_y)
    BY <1>2 DEF CellNo
  <2> QED
    BY <1>1, <1>2, <2>1, <2>2, <2>3
    DEF Calm, Keyed, Printing, Fitting, Telling, AfterTests, Same
<1> QED BY <1>4, <1>5 DEF FindCell

LEMMA WriteCellCalm ==
  ASSUME ConsoleInv, Calm, WriteCell
  PROVE  Calm'
<1>1. /\ X0' = X0 /\ Y0' = Y0 /\ Back' = Back /\ Target' = Target /\ Result' = Result
      /\ before' = before /\ ch' = ch /\ Origin'
  BY CallStays DEF WriteCell
<1>2. UNCHANGED <<cursor_x, cursor_y, crt, offset, row, location>>
  BY DEF WriteCell, cursor, locals
<1>3. /\ cursor_x \in Nat /\ cursor_y \in Nat /\ HEIGHT \in Nat /\ WIDTH \in Nat
      /\ before.pos \in Cells /\ Back \in Cells
  BY Origins, AreaIn, BackIn, CursorTypes, ConsoleSizes DEF Calm, ConsoleInv
<1>4. CASE at = "store"
  <2>1. ch \in Glyphs /\ Untouched /\ offset = before.pos
    BY <1>4 DEF Calm, Keyed, Printing
  <2>2. /\ at' = "right" /\ stray' = FALSE /\ screen' = Drawn(before.text, before.pos, ch)
    BY <1>3, <1>4, <2>1 DEF WriteCell, Untouched, Same, Calm
  <2> QED
    BY <1>1, <1>2, <2>1, <2>2
    DEF Calm, Keyed, Printing, Fitting, Telling, AfterTests, Untouched
<1>5. CASE at = "erase_store"
  <2>1. /\ ch = BS /\ cursor_x < WIDTH /\ cursor_y < HEIGHT
        /\ CellNo(cursor_x, cursor_y) = Back /\ screen = before.text /\ offset = Back
    BY <1>5 DEF Calm, Keyed, Printing, Same
  <2>2. /\ at' = "wrap" /\ stray' = FALSE /\ screen' = Drawn(before.text, Back, BLANK)
    BY <1>3, <1>5, <2>1 DEF WriteCell, Calm
  <2>3. Target.pos = Back /\ Target.text = Drawn(before.text, Back, BLANK)
    BY <2>1, AdvancedIs DEF Calm, Typeable
  <2>4. Reached'
    BY <1>1, <1>2, <2>1, <2>2, <2>3 DEF Reached
  <2> QED
    BY <1>1, <1>2, <1>3, <2>1, <2>2, <2>4
    DEF Calm, Keyed, Printing, Fitting, Telling, AfterTests, Typeable
<1> QED BY <1>4, <1>5 DEF WriteCell

LEMMA ScrollCalm ==
  ASSUME ConsoleInv, Calm, scroll
  PROVE  Calm'
<1>1. /\ X0' = X0 /\ Y0' = Y0 /\ Back' = Back /\ Target' = Target /\ Result' = Result
      /\ before' = before /\ ch' = ch /\ Origin'
  BY CallStays DEF scroll, ghosts
<1>2. UNCHANGED <<cursor_x, cursor_y, crt, offset, location, stray>>
  BY DEF scroll, cursor, ghosts
<1>3. /\ at = "scroll" /\ ch \in Typeable /\ Target.pos >= Area
      /\ row <= HEIGHT - 1 /\ screen = Above(Target.text, row)
  BY DEF scroll, Calm, Keyed, Fitting
<1>4. row \in Nat /\ HEIGHT \in Nat /\ Target.text \in Screens
  BY <1>3, CursorTypes, ConsoleSizes, AdvancedIs DEF ConsoleInv, Calm
<1>5. CASE row < HEIGHT - 1
  <2>1. screen' = RowUp(screen, row) /\ row' = row + 1 /\ at' = "scroll"
    BY <1>3, <1>5 DEF scroll
  <2>2. screen' = Above(Target.text, row + 1)
    BY <1>3, <1>4, <1>5, <2>1, AboveGrows
  <2> QED
    BY <1>1, <1>2, <1>3, <1>4, <1>5, <2>1, <2>2
    DEF Calm, Keyed, Printing, Fitting, Telling, AfterTests
<1>6. CASE ~(row < HEIGHT - 1)
  <2>1. row = HEIGHT - 1
    BY <1>3, <1>4, <1>6
  <2>2. at' = "bottom"
        /\ screen' = [c \in Cells |-> IF c \div WIDTH = row THEN BLANK ELSE screen[c]]
    BY <1>6 DEF scroll
  <2>3. screen' = Scrolled(Target.text)
    BY <1>3, <1>4, <2>1, <2>2, AboveEnds
  <2> QED
    BY <1>1, <1>2, <1>3, <2>2, <2>3
    DEF Calm, Keyed, Printing, Fitting, Telling, AfterTests
<1> QED BY <1>5, <1>6

LEMMA FillCalm ==
  ASSUME ConsoleInv, Calm, Fill
  PROVE  Calm'
<1>1. /\ X0' = X0 /\ Y0' = Y0 /\ Back' = Back /\ Target' = Target /\ Result' = Result
      /\ before' = before /\ ch' = ch /\ Origin'
  BY CallStays DEF Fill, ghosts
<1>2. UNCHANGED <<cursor_x, cursor_y, crt, offset, location, stray>>
  BY DEF Fill, cursor, ghosts
<1>3. at = "fill" /\ ch = "clear" /\ \A c \in Cells : c \div WIDTH < row => screen[c] = BLANK
  BY DEF Fill, Calm, Keyed, Fitting
<1>4. row \in Nat /\ row <= HEIGHT /\ HEIGHT \in Nat /\ screen \in Screens
  BY CursorTypes, ConsoleSizes DEF ConsoleInv, ConsoleTypeOK
<1>5. \A c \in Cells : c \div WIDTH \in Nat /\ c \div WIDTH < HEIGHT
  BY <1>4, RowOf
<1>6. CASE row < HEIGHT
  <2>1. /\ screen' = [c \in Cells |-> IF c \div WIDTH = row THEN BLANK ELSE screen[c]]
        /\ row' = row + 1 /\ at' = "fill"
    BY <1>3, <1>6 DEF Fill
  <2>2. \A c \in Cells : c \div WIDTH < row' => screen'[c] = BLANK
    BY <1>3, <1>4, <1>5, <2>1
  <2> QED
    BY <1>1, <1>2, <1>3, <2>1, <2>2
    DEF Calm, Keyed, Printing, Fitting, Telling, AfterTests
<1>7. CASE ~(row < HEIGHT)
  <2>1. at' = "clear_home" /\ screen' = screen
    BY <1>7 DEF Fill
  <2>2. screen = Blank
    <3>1. \A c \in Cells : screen[c] = BLANK
      BY <1>3, <1>4, <1>5, <1>7
    <3> QED BY <1>4, <3>1 DEF Blank, Screens
  <2>3. Blank' = Blank
    BY DEF Blank
  <2> QED
    BY <1>1, <1>2, <1>3, <2>1, <2>2, <2>3
    DEF Calm, Keyed, Printing, Fitting, Telling, AfterTests
<1> QED BY <1>6, <1>7

LEMMA FindLocationCalm ==
  ASSUME ConsoleInv, Calm, FindLocation
  PROVE  Calm'
<1>1. /\ X0' = X0 /\ Y0' = Y0 /\ Back' = Back /\ Target' = Target /\ Result' = Result
      /\ before' = before /\ ch' = ch /\ Origin'
  BY CallStays DEF FindLocation, ghosts
<1>2. /\ at = "location" /\ at' = "high_index"
      /\ location' = (cursor_y * WIDTH + cursor_x) % WORD
      /\ UNCHANGED <<cursor_x, cursor_y, screen, crt, offset, row, stray>>
  BY DEF FindLocation, cursor, ghosts
<1>3. cursor_x \in Nat /\ cursor_y \in Nat /\ cursor_x < WIDTH /\ cursor_y < HEIGHT
  BY <1>2, CursorTypes DEF ConsoleInv, Where, AfterTests
<1>4. location' = CellNo(cursor_x', cursor_y')
  BY <1>2, <1>3, CellAtIsNo
<1>5. Shown' = Result
  BY <1>2 DEF Calm, Telling, AfterTests, Shown
<1> QED
  BY <1>1, <1>2, <1>4, <1>5
  DEF Calm, Keyed, Printing, Fitting, Telling, AfterTests

LEMMA UpdateCalm ==
  ASSUME ConsoleInv, Calm, update_cursor, at' # "idle"
  PROVE  Calm'
<1>1. /\ X0' = X0 /\ Y0' = Y0 /\ Back' = Back /\ Target' = Target /\ Result' = Result
      /\ before' = before /\ ch' = ch /\ Origin'
  BY CallStays DEF update_cursor, ghosts
<1>2. /\ at \in {"high_index", "high", "low_index"}
      /\ UNCHANGED <<cursor_x, cursor_y, screen, offset, row, location, stray>>
  BY DEF update_cursor, cursor, locals, ghosts
<1>3. Shown' = Result /\ location' = CellNo(cursor_x', cursor_y')
  BY <1>2 DEF Calm, Telling, AfterTests, Shown
<1>4. Data' = Data
  BY <1>2 DEF Data
<1>5. crt \in Crts
  BY DEF ConsoleInv, ConsoleTypeOK, Crts
<1>6. CASE at = "high_index"
  <2>1. at' = "high" /\ crt' = [crt EXCEPT !.index = "high"]
    BY <1>6 DEF update_cursor
  <2>2. crt'.index = "high"
    BY <1>5, <2>1 DEF Crts
  <2> QED
    BY <1>1, <1>2, <1>3, <2>1, <2>2
    DEF Calm, Keyed, Printing, Fitting, Telling, AfterTests
<1>7. CASE at = "high"
  <2>1. at' = "low_index" /\ crt' = [crt EXCEPT ![crt.index] = Data.high] /\ crt.index = "high"
    BY <1>7 DEF update_cursor, Calm, Telling
  <2>2. crt'.high = Data.high
    BY <1>5, <2>1 DEF Crts
  <2> QED
    BY <1>1, <1>2, <1>3, <1>4, <2>1, <2>2
    DEF Calm, Keyed, Printing, Fitting, Telling, AfterTests
<1>8. CASE at = "low_index"
  <2>1. at' = "low" /\ crt' = [crt EXCEPT !.index = "low"] /\ crt.high = Data.high
    BY <1>8 DEF update_cursor, Calm, Telling
  <2>2. crt'.index = "low" /\ crt'.high = Data.high
    BY <1>5, <2>1 DEF Crts
  <2> QED
    BY <1>1, <1>2, <1>3, <1>4, <2>1, <2>2
    DEF Calm, Keyed, Printing, Fitting, Telling, AfterTests
<1> QED BY <1>2, <1>6, <1>7, <1>8

LEMMA CallStarts ==
  ASSUME ConsoleInv, (\E c \in Typeable : console_putc(c)) \/ console_clear
  PROVE  Calm'
<1>1. /\ at = "idle" /\ stray' = FALSE
      /\ before' = [text |-> screen, pos |-> CellNo(cursor_x, cursor_y)]
      /\ UNCHANGED <<cursor_x, cursor_y, screen, crt>>
  BY DEF console_putc, console_clear, Begin, cursor, CellNo
<1>2. /\ cursor_x \in Nat /\ cursor_y \in Nat /\ cursor_x < WIDTH /\ cursor_y < HEIGHT
      /\ screen \in Screens
  BY <1>1, CursorTypes DEF ConsoleInv, Where, AfterTests
<1>3. CellNo(cursor_x, cursor_y) \in Nat /\ CellNo(cursor_x, cursor_y) < Area
  BY <1>2, CellNos, CellNoOnScreen
<1>4. Origin'
  BY <1>1, <1>2, <1>3 DEF Origin, Screens
<1>5. X0' = cursor_x /\ Y0' = cursor_y
  <2>1. cursor_x \in 0..(WIDTH - 1)
    BY <1>2, ConsoleSizes
  <2> QED BY <1>1, <1>2, <2>1, Coordinated DEF X0, Y0
<1>6. Untouched'
  BY <1>1, <1>5 DEF Untouched, Same
<1>7. CASE console_clear
  <2>1. at' = "fill" /\ ch' = "clear" /\ row' = 0
    BY <1>7 DEF console_clear, Begin
  <2>2. \A c \in Cells : ~(c \div WIDTH < 0)
    BY RowOf, ConsoleSizes
  <2> QED
    BY <1>1, <1>4, <2>1, <2>2
    DEF Calm, Keyed, Printing, Fitting, Telling, AfterTests
<1>8. ASSUME NEW c \in Typeable, console_putc(c) PROVE Calm'
  <2>1. at' = Case(c) /\ ch' = c
    BY <1>8 DEF console_putc, Begin
  <2>2. \/ c = NL /\ Case(c) = "nl_home"
        \/ c = CR /\ Case(c) = "cr_home"
        \/ c = BS /\ Case(c) = "erase"
        \/ c = HT /\ Case(c) = "tab"
        \/ c \in Glyphs /\ Case(c) = "cell"
    <3>1. CASE c = NL
      <4>1. Case(c) = "nl_home"
        BY <3>1, Marks, Zenon DEF Case
      <4> QED BY <3>1, <4>1
    <3>2. CASE c = CR
      <4>1. Case(c) = "cr_home"
        BY <3>2, Marks, Zenon DEF Case
      <4> QED BY <3>2, <4>1
    <3>3. CASE c = BS
      <4>1. Case(c) = "erase"
        BY <3>3, Marks, Zenon DEF Case
      <4> QED BY <3>3, <4>1
    <3>4. CASE c = HT
      <4>1. Case(c) = "tab"
        BY <3>4, Marks, Zenon DEF Case
      <4> QED BY <3>4, <4>1
    <3>5. CASE c \in Glyphs
      <4>1. Case(c) = "cell"
        BY <3>5, Marks, Zenon DEF Case
      <4> QED BY <3>5, <4>1
    <3> QED BY <3>1, <3>2, <3>3, <3>4, <3>5 DEF Typeable
  <2> QED
    BY <1>1, <1>4, <1>6, <2>1, <2>2
    DEF Calm, Keyed, Printing, Fitting, Telling, AfterTests
<1> QED BY <1>7, <1>8

(* A call that ends is one that no handler has printed into, or nothing is  *)
(* said of it.                                                             *)
LEMMA CallEnds ==
  ASSUME ConsoleInv, Undisturbed, ConsoleStep, at' = "idle", ~raced
  PROVE  /\ Shown' = Result /\ ~stray /\ crt' = CrtAt(cursor_y * WIDTH + cursor_x)
<1>1. update_cursor /\ at = "low" /\ crt' = [crt EXCEPT ![crt.index] = Data.low]
  BY DEF ConsoleStep, Home, HomeNext, Down, DownNext, ToRow, Test, MoveLeft, MoveUp, FindCell,
         WriteCell, scroll, Fill, FindLocation, update_cursor
<1>2. Calm
  <2>1. raced = FALSE
    BY DEF ConsoleInv, ConsoleTypeOK
  <2> QED BY <1>1, <2>1 DEF Undisturbed
<1>3. /\ Shown = Result /\ location = CellNo(cursor_x, cursor_y)
      /\ crt.index = "low" /\ crt.high = Data.high /\ ~stray
  BY <1>1, <1>2 DEF Calm, Telling, AfterTests
<1>4. Shown' = Shown
  BY <1>1 DEF update_cursor, Shown, cursor
<1>5. crt \in Crts
  BY DEF ConsoleInv, ConsoleTypeOK, Crts
<1>6. crt' = [index |-> "low", high |-> Data.high, low |-> Data.low]
  BY <1>1, <1>3, <1>5 DEF Crts
<1>7. location = cursor_y * WIDTH + cursor_x
  BY <1>3 DEF CellNo
<1>8. crt' = CrtAt(location)
  BY <1>6 DEF CrtAt, Data
<1> QED BY <1>3, <1>4, <1>7, <1>8

LEMMA StepUndisturbed ==
  ASSUME ConsoleInv, Undisturbed, ConsoleStep
  PROVE  Undisturbed'
<1> SUFFICES ASSUME at' # "idle", raced' = FALSE PROVE Calm'
  BY DEF Undisturbed
<1>1. at # "idle" /\ raced = FALSE
  BY DEF ConsoleStep, Home, HomeNext, Down, DownNext, ToRow, Test, MoveLeft, MoveUp, FindCell,
         WriteCell, scroll, Fill, FindLocation, update_cursor, ghosts
<1>2. Calm
  BY <1>1 DEF Undisturbed
<1> QED
  BY <1>2, HomeCalm, DownCalm, ToRowCalm, TestCalm, MoveLeftCalm, MoveUpCalm, FindCellCalm,
     WriteCellCalm, ScrollCalm, FillCalm, FindLocationCalm, UpdateCalm
  DEF ConsoleStep

LEMMA UndisturbedInductive ==
  ConsoleInv /\ Undisturbed /\ [ConsoleNext]_consoleVars => Undisturbed'
<1> SUFFICES ASSUME ConsoleInv, Undisturbed, [ConsoleNext]_consoleVars PROVE Undisturbed'
  OBVIOUS
<1>1. CASE (\E c \in Typeable : console_putc(c)) \/ console_clear
  BY <1>1, CallStarts DEF Undisturbed
<1>2. ASSUME NEW c \in Typeable, Interrupt(c) PROVE Undisturbed'
  <2>1. at' = at /\ (at # "idle" => raced' = TRUE)
    BY <1>2 DEF Interrupt, ConsoleInv, ConsoleTypeOK
  <2> QED BY <2>1 DEF Undisturbed
<1>3. CASE ConsoleStep
  BY <1>3, StepUndisturbed
<1>4. CASE UNCHANGED consoleVars
  <2>1. UNCHANGED <<cursor_x, cursor_y, screen, crt, at, ch, offset, row, location,
                    raced, stray, before>>
    BY <1>4 DEF consoleVars, cursor, locals, ghosts
  <2> QED
    BY <2>1
    DEF Undisturbed, Calm, Origin, Keyed, Printing, Fitting, Telling, Untouched, Same, Reached,
        X0, Y0, Back, Target, Result, Shown, Data, Blank
<1> QED BY <1>1, <1>2, <1>3, <1>4 DEF ConsoleNext, Typeable

(* For every size of the screen and every character: a call that no handler *)
(* has printed into leaves the text, the cursor and the registers of the    *)
(* cursor as a terminal would, and writes nothing outside the screen,       *)
(* whatever earlier disturbed calls have left.                             *)
THEOREM CharacterLikeTerminal == ConsoleSpec => OneCharacter
<1>1. ConsoleInit => Undisturbed
  BY DEF ConsoleInit, Undisturbed
<1>2. ConsoleInv /\ Undisturbed /\ [ConsoleNext]_consoleVars =>
        [at # "idle" /\ at' = "idle" /\ ~raced =>
           /\ Shown' = IF ch = "clear" THEN Cleared ELSE Terminal(before, ch)
           /\ ~stray /\ crt' = CrtAt(cursor_y * WIDTH + cursor_x)]_consoleVars
  <2> SUFFICES ASSUME ConsoleInv, Undisturbed, [ConsoleNext]_consoleVars,
                      at # "idle", at' = "idle", ~raced
               PROVE  UNCHANGED consoleVars \/
                      (Shown' = Result /\ ~stray /\ crt' = CrtAt(cursor_y * WIDTH + cursor_x))
    BY DEF Result
  <2>1. ConsoleStep \/ UNCHANGED consoleVars
    BY DEF ConsoleNext, console_putc, console_clear, Begin, Interrupt
  <2> QED BY <2>1, CallEnds
<1> QED
  BY <1>1, <1>2, ConsoleStarts, ConsoleInductive, UndisturbedInductive, PTL
  DEF ConsoleSpec, OneCharacter
-----------------------------------------------------------------------------
(***************************************************************************)
(* The clock.                                                               *)
(***************************************************************************)
(***************************************************************************)
(* The loops of mktime.                                                    *)
(***************************************************************************)
Sums(f, a, b, s) == s = [n \in a..b |-> IF n = a THEN 0 ELSE s[n - 1] + f[n - 1]]

LEMMA SumsExist ==
  ASSUME NEW f, NEW a \in Nat, NEW k \in Nat
  PROVE  \E s : Sums(f, a, a + k, s)
<1> DEFINE S == {n \in Nat : \E s : Sums(f, a, a + n, s)}
<1>1. 0 \in S
  <2> DEFINE s == [n \in a..(a + 0) |-> 0]
  <2>1. \A n \in a..(a + 0) : n = a
    OBVIOUS
  <2>2. s = [n \in a..(a + 0) |-> IF n = a THEN 0 ELSE s[n - 1] + f[n - 1]]
    BY <2>1
  <2> HIDE DEF s
  <2>3. Sums(f, a, a + 0, s)
    BY <2>2, Zenon DEF Sums
  <2> QED BY <2>3
<1>2. ASSUME NEW n \in Nat, n \in S PROVE n + 1 \in S
  <2>1. PICK s : Sums(f, a, a + n, s)
    BY <1>2
  <2> DEFINE b == a + n
             t == [m \in a..(a + (n + 1)) |-> IF m = b + 1 THEN s[b] + f[b] ELSE s[m]]
  <2>2. b \in Nat /\ a <= b /\ a + (n + 1) = b + 1
    OBVIOUS
  <2>d. s = [m \in a..b |-> IF m = a THEN 0 ELSE s[m - 1] + f[m - 1]]
    BY <2>1 DEF Sums
  <2>t. t = [m \in a..(b + 1) |-> IF m = b + 1 THEN s[b] + f[b] ELSE s[m]]
    BY <2>2
  <2> HIDE DEF b, t
  <2>3. t[b + 1] = s[b] + f[b]
    BY <2>2, <2>t
  <2>4. ASSUME NEW m \in a..b PROVE t[m] = s[m]
    <3>1. m \in a..(b + 1) /\ m # b + 1
      BY <2>2
    <3> QED BY <2>t, <3>1
  <2>5. ASSUME NEW m \in a..(b + 1)
        PROVE  t[m] = IF m = a THEN 0 ELSE t[m - 1] + f[m - 1]
    <3>1. CASE m = b + 1
      <4>1. m # a /\ m - 1 = b /\ b \in a..b
        BY <2>2, <3>1
      <4>2. t[m - 1] = s[b]
        BY <2>4, <4>1
      <4> QED BY <2>3, <3>1, <4>1, <4>2
    <3>2. CASE m # b + 1 /\ m = a
      <4>1. m \in a..b
        BY <2>2, <3>2
      <4>2. s[m] = 0
        BY <2>d, <3>2, <4>1
      <4> QED BY <2>4, <3>2, <4>1, <4>2
    <3>3. CASE m # b + 1 /\ m # a
      <4>1. m \in a..b /\ m - 1 \in a..b
        BY <2>2, <3>3
      <4>2. s[m] = s[m - 1] + f[m - 1]
        BY <2>d, <3>3, <4>1
      <4> QED BY <2>4, <3>3, <4>1, <4>2
    <3> QED BY <3>1, <3>2, <3>3
  <2>6. t = [m \in a..(b + 1) |-> t[m]]
    BY <2>t
  <2>7. t = [m \in a..(b + 1) |-> IF m = a THEN 0 ELSE t[m - 1] + f[m - 1]]
    BY <2>5, <2>6
  <2>8. Sums(f, a, b + 1, t)
    BY <2>7, Zenon DEF Sums
  <2> QED BY <2>2, <2>8
<1> HIDE DEF S
<1>3. k \in S
  BY <1>1, <1>2, Induction
<1> QED BY <1>3 DEF S

LEMMA SumsAgree ==
  ASSUME NEW f, NEW a \in Nat, NEW b \in Nat, NEW c \in Nat, b <= c, NEW s, NEW t,
         Sums(f, a, b, s), Sums(f, a, c, t), a <= b
  PROVE  s[b] = t[b]
<1> DEFINE S == {n \in Nat : a + n <= b => s[a + n] = t[a + n]}
<1>s. \A m \in a..b : s[m] = IF m = a THEN 0 ELSE s[m - 1] + f[m - 1]
  BY DEF Sums
<1>t. \A m \in a..c : t[m] = IF m = a THEN 0 ELSE t[m - 1] + f[m - 1]
  BY DEF Sums
<1>1. 0 \in S
  <2>1. a \in a..b /\ a \in a..c /\ a + 0 = a
    OBVIOUS
  <2> QED BY <1>s, <1>t, <2>1
<1>2. ASSUME NEW n \in Nat, n \in S PROVE n + 1 \in S
  <2> SUFFICES ASSUME a + (n + 1) <= b PROVE s[a + (n + 1)] = t[a + (n + 1)]
    OBVIOUS
  <2>1. /\ a + (n + 1) \in a..b /\ a + (n + 1) \in a..c /\ a + (n + 1) - 1 = a + n
        /\ a + (n + 1) # a /\ a + n <= b
    OBVIOUS
  <2>2. s[a + n] = t[a + n]
    BY <1>2, <2>1
  <2>3. PICK m : m = a + (n + 1)
    OBVIOUS
  <2>4. s[m] = s[m - 1] + f[m - 1] /\ t[m] = t[m - 1] + f[m - 1] /\ m - 1 = a + n
    BY <1>s, <1>t, <2>1, <2>3
  <2> QED BY <2>2, <2>3, <2>4
<1> HIDE DEF S
<1>3. Nat \subseteq S
  BY <1>1, <1>2, Induction
<1>4. b - a \in Nat /\ a + (b - a) = b
  OBVIOUS
<1>5. b - a \in S
  BY <1>3, <1>4
<1> QED BY <1>4, <1>5 DEF S

LEMMA SummedIs ==
  ASSUME NEW f, NEW a \in Nat, NEW b \in Nat, a <= b, NEW s, Sums(f, a, b, s)
  PROVE  Summed(f, a, b) = s[b]
<1>1. PICK t : Sums(f, a, b, t) /\ Summed(f, a, b) = t[b]
  <2> DEFINE t == CHOOSE u : Sums(f, a, b, u)
  <2>1. Sums(f, a, b, t)
    OBVIOUS
  <2>2. Summed(f, a, b) = t[b]
    BY Zenon DEF Summed, Sums
  <2> HIDE DEF t
  <2> QED BY <2>1, <2>2
<1>2. b <= b
  OBVIOUS
<1>3. t[b] = s[b]
  BY <1>1, <1>2, SumsAgree
<1> QED BY <1>1, <1>3

LEMMA SumStep ==
  ASSUME NEW f, NEW a \in Nat, NEW b \in Nat, a <= b
  PROVE  Summed(f, a, a) = 0 /\ Summed(f, a, b + 1) = Summed(f, a, b) + f[b]
<1>1. \A c \in Nat : a <= c => \E s : Sums(f, a, c, s)
  <2> SUFFICES ASSUME NEW c \in Nat, a <= c PROVE \E s : Sums(f, a, c, s)
    OBVIOUS
  <2>1. c - a \in Nat /\ a + (c - a) = c
    OBVIOUS
  <2> QED BY <2>1, SumsExist
<1>2. b + 1 \in Nat /\ a <= b + 1 /\ a <= a /\ b <= b + 1 /\ b <= b
  OBVIOUS
<1>3. PICK s : Sums(f, a, b + 1, s)
  BY <1>1, <1>2
<1>4. PICK t : Sums(f, a, b, t)
  BY <1>1
<1>5. PICK u : Sums(f, a, a, u)
  BY <1>1, <1>2
<1>6. Summed(f, a, b + 1) = s[b + 1] /\ Summed(f, a, b) = t[b] /\ Summed(f, a, a) = u[a]
  <2>1. Summed(f, a, b + 1) = s[b + 1]
    BY <1>2, <1>3, SummedIs
  <2>2. Summed(f, a, b) = t[b]
    BY <1>4, SummedIs
  <2>3. Summed(f, a, a) = u[a]
    BY <1>2, <1>5, SummedIs
  <2> QED BY <2>1, <2>2, <2>3
<1>7. t[b] = s[b]
  BY <1>2, <1>3, <1>4, SumsAgree
<1>8. u[a] = 0
  <2>1. \A n \in a..a : u[n] = IF n = a THEN 0 ELSE u[n - 1] + f[n - 1]
    BY <1>5 DEF Sums
  <2> QED BY <2>1
<1>9. s[b + 1] = s[b] + f[b]
  <2>1. \A n \in a..(b + 1) : s[n] = IF n = a THEN 0 ELSE s[n - 1] + f[n - 1]
    BY <1>3 DEF Sums
  <2>2. b + 1 \in a..(b + 1) /\ b + 1 # a /\ b + 1 - 1 = b
    BY <1>2
  <2>3. PICK m : m = b + 1
    OBVIOUS
  <2>4. s[m] = s[m - 1] + f[m - 1] /\ m - 1 = b
    BY <2>1, <2>2, <2>3
  <2> QED BY <2>3, <2>4
<1> QED BY <1>6, <1>7, <1>8, <1>9

LEMMA SummedIn ==
  ASSUME NEW f, NEW a \in Nat, NEW b \in Nat, a <= b, \A n \in a..(b - 1) : f[n] \in Nat
  PROVE  Summed(f, a, b) \in Nat
<1> DEFINE S == {n \in Nat : a + n <= b => Summed(f, a, a + n) \in Nat}
<1>1. 0 \in S
  <2>1. a + 0 = a /\ Summed(f, a, a) = 0
    BY SumStep
  <2> QED BY <2>1
<1>2. ASSUME NEW n \in Nat, n \in S PROVE n + 1 \in S
  <2> SUFFICES ASSUME a + (n + 1) <= b PROVE Summed(f, a, a + (n + 1)) \in Nat
    OBVIOUS
  <2>1. PICK m \in Nat : m = a + n
    OBVIOUS
  <2>2. a + (n + 1) = m + 1 /\ m \in a..(b - 1) /\ a <= m /\ m <= b
    BY <2>1
  <2>3. Summed(f, a, m) \in Nat /\ f[m] \in Nat
    BY <1>2, <2>1, <2>2
  <2>4. Summed(f, a, m + 1) = Summed(f, a, m) + f[m]
    BY <2>2, SumStep
  <2>5. Summed(f, a, m + 1) \in Nat
    BY <2>3, <2>4
  <2> QED BY <2>2, <2>5
<1> HIDE DEF S
<1>3. b - a \in S /\ a + (b - a) = b
  <2>1. Nat \subseteq S
    BY <1>1, <1>2, Induction
  <2> QED BY <2>1
<1> QED BY <1>3 DEF S

(***************************************************************************)
(* The calendar: the days since 1 January 1970, of any year.               *)
(***************************************************************************)
Month(y, m) == LastDay([year |-> y, month |-> m])
Months(y) == [m \in 1..12 |-> Month(y, m)]
Years == [y \in Nat |-> 337 + Month(y, 2)]
Numbered(y, m, n) ==
  Summed(Years, 0, y) - Summed(Years, 0, 1970) + Summed(Months(y), 1, m) + (n - 1)
DayNumber(d) == Numbered(d.year, d.month, d.day)

MorningsRight == \A m \in Mornings : m.days = DayNumber(m.date)

LEMMA MonthIs ==
  ASSUME NEW y \in Nat, NEW m \in 1..12
  PROVE  /\ Month(y, m) \in 28..31
         /\ m = 2 => Month(y, m) = IF is_leap_year(y) THEN 29 ELSE 28
         /\ m # 2 => Month(y, m) = days_in_month[m]
<1> DEFINE d == [year |-> y, month |-> m]
<1>0. d.year = y /\ d.month = m
  OBVIOUS
<1> HIDE DEF d
<1>1. CASE m = 2 /\ is_leap_year(y)
  <2>1. d.month = 2 /\ d.year % 4 = 0 /\ (d.year % 100 = 0 => d.year % 400 = 0)
    BY <1>0, <1>1 DEF is_leap_year
  <2>2. LastDay(d) = 29
    <3>1. d.month \notin {4, 6, 9, 11}
      BY <2>1
    <3> QED BY <2>1, <3>1, Zenon DEF LastDay
  <2> QED BY <1>1, <2>2 DEF Month, d
<1>2. CASE m = 2 /\ ~is_leap_year(y)
  <2>1. d.month = 2 /\ ~(d.year % 4 = 0 /\ (d.year % 100 = 0 => d.year % 400 = 0))
    BY <1>0, <1>2 DEF is_leap_year
  <2>2. LastDay(d) = 28
    <3>1. d.month \notin {4, 6, 9, 11}
      BY <2>1
    <3> QED BY <2>1, <3>1, Zenon DEF LastDay
  <2> QED BY <1>2, <2>2 DEF Month, d
<1>3. CASE m \in {4, 6, 9, 11}
  <2>1. d.month # 2 /\ d.month \in {4, 6, 9, 11}
    BY <1>0, <1>3
  <2>2. LastDay(d) = 30
    BY <2>1, Zenon DEF LastDay
  <2>3. days_in_month[m] = 30
    BY <1>3 DEF days_in_month
  <2> QED BY <1>3, <2>2, <2>3 DEF Month, d
<1>4. CASE m \in {1, 3, 5, 7, 8, 10, 12}
  <2>1. d.month # 2 /\ d.month \notin {4, 6, 9, 11}
    BY <1>0, <1>4
  <2>2. LastDay(d) = 31
    BY <2>1, Zenon DEF LastDay
  <2>3. days_in_month[m] = 31
    BY <1>4 DEF days_in_month
  <2> QED BY <1>4, <2>2, <2>3 DEF Month, d
<1>5. m = 2 \/ m \in {4, 6, 9, 11} \/ m \in {1, 3, 5, 7, 8, 10, 12}
  OBVIOUS
<1> QED BY <1>1, <1>2, <1>3, <1>4, <1>5

LEMMA LastDayIs ==
  ASSUME NEW d, NEW y, NEW m, d.year = y, d.month = m
  PROVE  LastDay(d) = Month(y, m)
  BY Zenon DEF LastDay, Month

(* What mktime takes for the lengths of years and months. *)
LEMMA SameLengths == YearDays = Years /\ \A y \in Nat : MonthDays(y) = Months(y)
<1>1. ASSUME NEW y \in Nat PROVE YearDays[y] = 337 + Month(y, 2)
  <2>1. YearDays[y] = IF is_leap_year(y) THEN 366 ELSE 365
    BY DEF YearDays
  <2>2. Month(y, 2) = IF is_leap_year(y) THEN 29 ELSE 28
    BY MonthIs
  <2> QED BY <2>1, <2>2
<1>2. ASSUME NEW y \in Nat, NEW m \in 1..12
      PROVE  (IF m = 2 /\ is_leap_year(y) THEN 29 ELSE days_in_month[m]) = Month(y, m)
  <2>1. CASE m = 2
    <3>1. days_in_month[2] = 28
      BY DEF days_in_month
    <3>2. Month(y, m) = IF is_leap_year(y) THEN 29 ELSE 28
      BY <2>1, MonthIs
    <3> QED BY <2>1, <3>1, <3>2
  <2>2. CASE m # 2
    <3>1. Month(y, m) = days_in_month[m]
      BY <2>2, MonthIs
    <3> QED BY <2>2, <3>1
  <2> QED BY <2>1, <2>2
<1>3. YearDays = Years
  <2>1. YearDays = [y \in Nat |-> YearDays[y]]
    BY DEF YearDays
  <2> QED BY <1>1, <2>1 DEF Years
<1>4. ASSUME NEW y \in Nat PROVE MonthDays(y) = Months(y)
  BY <1>2 DEF MonthDays, Months
<1> QED BY <1>3, <1>4

LEMMA SumSplit ==
  ASSUME NEW f, NEW a \in Nat, NEW b \in Nat, NEW c \in Nat, a <= b, b <= c,
         \A n \in Nat : f[n] \in Nat
  PROVE  Summed(f, b, c) = Summed(f, a, c) - Summed(f, a, b)
<1> DEFINE S == {n \in Nat : Summed(f, b, b + n) = Summed(f, a, b + n) - Summed(f, a, b)}
<1>0. \A k, l \in Nat : k <= l => Summed(f, k, l) \in Nat
  <2> SUFFICES ASSUME NEW k \in Nat, NEW l \in Nat, k <= l PROVE Summed(f, k, l) \in Nat
    OBVIOUS
  <2>1. \A n \in k..(l - 1) : f[n] \in Nat
    OBVIOUS
  <2> QED BY <2>1, SummedIn
<1>1. 0 \in S
  <2>1. Summed(f, b, b) = 0 /\ b + 0 = b
    BY SumStep
  <2>2. Summed(f, a, b) \in Nat
    BY <1>0
  <2> QED BY <2>1, <2>2
<1>2. ASSUME NEW n \in Nat, n \in S PROVE n + 1 \in S
  <2>1. PICK m \in Nat : m = b + n
    OBVIOUS
  <2>2. b + (n + 1) = m + 1 /\ b <= m /\ a <= m
    BY <2>1
  <2>3. /\ Summed(f, b, m + 1) = Summed(f, b, m) + f[m]
        /\ Summed(f, a, m + 1) = Summed(f, a, m) + f[m]
    BY <2>2, SumStep
  <2>4. /\ Summed(f, b, m) \in Nat /\ Summed(f, a, m) \in Nat /\ Summed(f, a, b) \in Nat
        /\ f[m] \in Nat
    BY <1>0, <2>2
  <2>5. Summed(f, b, m) = Summed(f, a, m) - Summed(f, a, b)
    BY <1>2, <2>1
  <2>6. Summed(f, b, m + 1) = Summed(f, a, m + 1) - Summed(f, a, b)
    BY <2>3, <2>4, <2>5
  <2> QED BY <2>2, <2>6
<1> HIDE DEF S
<1>3. c - b \in S /\ b + (c - b) = c
  <2>1. Nat \subseteq S
    BY <1>1, <1>2, Induction
  <2> QED BY <2>1
<1> QED BY <1>3 DEF S

LEMMA YearsIn == \A y \in Nat : Years[y] \in 365..366 /\ Years[y] = 337 + Month(y, 2)
<1> SUFFICES ASSUME NEW y \in Nat PROVE Years[y] \in 365..366 /\ Years[y] = 337 + Month(y, 2)
  OBVIOUS
<1>1. Month(y, 2) = IF is_leap_year(y) THEN 29 ELSE 28
  BY MonthIs
<1>2. Years[y] = 337 + Month(y, 2)
  BY DEF Years
<1> QED BY <1>1, <1>2

LEMMA MonthSums ==
  ASSUME NEW y \in Nat
  PROVE  /\ \A m \in 1..12 : Summed(Months(y), 1, m) \in Nat
         /\ \A m \in 1..11 : Summed(Months(y), 1, m + 1) = Summed(Months(y), 1, m) + Month(y, m)
         /\ Summed(Months(y), 1, 1) = 0
         /\ Summed(Months(y), 1, 12) + Month(y, 12) = Years[y]
<1> DEFINE f == Months(y)
           S(m) == Summed(f, 1, m)
<1>1. \A m \in 1..12 : f[m] = Month(y, m) /\ f[m] \in Nat
  BY MonthIs DEF Months
<1> HIDE DEF f
<1>2. \A m \in 1..12 : S(m) \in Nat
  <2> SUFFICES ASSUME NEW m \in 1..12 PROVE S(m) \in Nat
    OBVIOUS
  <2>1. \A n \in 1..(m - 1) : f[n] \in Nat
    BY <1>1
  <2>2. 1 \in Nat /\ m \in Nat /\ 1 <= m
    OBVIOUS
  <2> QED BY <2>1, <2>2, SummedIn
<1>3. \A m \in 1..11 : S(m + 1) = S(m) + Month(y, m)
  <2> SUFFICES ASSUME NEW m \in 1..11 PROVE S(m + 1) = S(m) + Month(y, m)
    OBVIOUS
  <2>1. 1 \in Nat /\ m \in Nat /\ 1 <= m /\ f[m] = Month(y, m)
    BY <1>1
  <2>2. Summed(f, 1, m + 1) = Summed(f, 1, m) + f[m]
    BY <2>1, SumStep
  <2> QED BY <2>1, <2>2
<1>4. S(1) = 0
  <2>1. 1 \in Nat /\ 1 <= 1
    OBVIOUS
  <2> QED BY <2>1, SumStep
<1>5. /\ Month(y, 1) = 31 /\ Month(y, 3) = 31 /\ Month(y, 4) = 30 /\ Month(y, 5) = 31
      /\ Month(y, 6) = 30 /\ Month(y, 7) = 31 /\ Month(y, 8) = 31 /\ Month(y, 9) = 30
      /\ Month(y, 10) = 31 /\ Month(y, 11) = 30 /\ Month(y, 12) = 31
  <2>1. \A m \in 1..12 : m # 2 => Month(y, m) = days_in_month[m]
    BY MonthIs
  <2>2. /\ days_in_month[1] = 31 /\ days_in_month[3] = 31 /\ days_in_month[4] = 30
        /\ days_in_month[5] = 31 /\ days_in_month[6] = 30 /\ days_in_month[7] = 31
        /\ days_in_month[8] = 31 /\ days_in_month[9] = 30 /\ days_in_month[10] = 31
        /\ days_in_month[11] = 30 /\ days_in_month[12] = 31
    BY DEF days_in_month
  <2> QED BY <2>1, <2>2
<1>6. /\ S(2) = S(1) + Month(y, 1) /\ S(3) = S(2) + Month(y, 2) /\ S(4) = S(3) + Month(y, 3)
      /\ S(5) = S(4) + Month(y, 4) /\ S(6) = S(5) + Month(y, 5) /\ S(7) = S(6) + Month(y, 6)
      /\ S(8) = S(7) + Month(y, 7) /\ S(9) = S(8) + Month(y, 8) /\ S(10) = S(9) + Month(y, 9)
      /\ S(11) = S(10) + Month(y, 10) /\ S(12) = S(11) + Month(y, 11)
  <2>1. \A m, n \in 1..12 : n = m + 1 => S(n) = S(m) + Month(y, m)
    BY <1>3
  <2> HIDE DEF S
  <2> QED BY <2>1
<1>7. Month(y, 2) \in Nat /\ Years[y] = 337 + Month(y, 2)
  BY MonthIs, YearsIn
<1>8. S(12) + Month(y, 12) = Years[y]
  <2> HIDE DEF S
  <2> QED BY <1>4, <1>5, <1>6, <1>7
<1> QED BY <1>2, <1>3, <1>4, <1>8 DEF f

Dates == [year : Nat, month : 1..12, day : 1..31]
Valid(d) == d \in Dates /\ d.day <= LastDay(d)

LEMMA MonthSumIn ==
  ASSUME NEW d, Valid(d)
  PROVE  Summed(Months(d.year), 1, d.month) \in Nat
<1>1. d.year \in Nat /\ d.month \in 1..12
  BY DEF Valid, Dates
<1> QED BY <1>1, MonthSums

LEMMA NumberIn ==
  ASSUME NEW d, Valid(d)
  PROVE  /\ DayNumber(d) \in Int
         /\ LastDay(d) = Month(d.year, d.month) /\ LastDay(d) \in 28..31
<1>1. d.year \in Nat /\ d.month \in 1..12 /\ d.day \in 1..31
  BY DEF Valid, Dates
<1>2. LastDay(d) = Month(d.year, d.month) /\ LastDay(d) \in 28..31
  <2>1. LastDay(d) = Month(d.year, d.month)
    BY LastDayIs
  <2> QED BY <1>1, <2>1, MonthIs
<1>3. Summed(Years, 0, d.year) \in Nat /\ Summed(Years, 0, 1970) \in Nat
  <2>1. \A y \in Nat : Years[y] \in Nat
    BY YearsIn
  <2>2. \A y \in Nat : Summed(Years, 0, y) \in Nat
    <3> SUFFICES ASSUME NEW y \in Nat PROVE Summed(Years, 0, y) \in Nat
      OBVIOUS
    <3>1. 0 \in Nat /\ 0 <= y /\ \A n \in 0..(y - 1) : Years[n] \in Nat
      BY <2>1
    <3> QED BY <3>1, SummedIn
  <2> QED BY <1>1, <2>2
<1>4. Summed(Months(d.year), 1, d.month) \in Nat
  BY MonthSumIn
<1> QED BY <1>1, <1>2, <1>3, <1>4 DEF DayNumber, Numbered

(* The chip goes through the days of the calendar one by one. *)
LEMMA DayAfterDay ==
  ASSUME NEW d, Valid(d)
  PROVE  /\ Valid(Tomorrow(d))
         /\ DayNumber(Tomorrow(d)) = DayNumber(d) + 1
<1> DEFINE t == Tomorrow(d)
<1>1. /\ d.year \in Nat /\ d.month \in 1..12 /\ d.day \in 1..31 /\ d.day <= LastDay(d)
      /\ LastDay(d) = Month(d.year, d.month) /\ LastDay(d) \in 28..31
      /\ d = [year |-> d.year, month |-> d.month, day |-> d.day]
  <2>1. d \in Dates /\ d.day <= LastDay(d)
    BY DEF Valid
  <2>2. d = [year |-> d.year, month |-> d.month, day |-> d.day]
    BY <2>1 DEF Dates
  <2> QED BY <2>1, <2>2, NumberIn DEF Dates
<1>2. \A x \in Nat : Summed(Years, 0, x) \in Int
  <2> SUFFICES ASSUME NEW x \in Nat PROVE Summed(Years, 0, x) \in Int
    OBVIOUS
  <2>1. 0 \in Nat /\ 0 <= x /\ \A n \in 0..(x - 1) : Years[n] \in Nat
    BY YearsIn
  <2>2. Summed(Years, 0, x) \in Nat
    BY <2>1, SummedIn
  <2> QED BY <2>2
<1>3. CASE d.day < LastDay(d)
  <2>1. t = [d EXCEPT !.day = @ + 1]
    BY <1>3 DEF Tomorrow
  <2>2. t.year = d.year /\ t.month = d.month /\ t.day = d.day + 1 /\ t \in Dates
    BY <1>1, <1>3, <2>1 DEF Dates
  <2>3. LastDay(t) = LastDay(d)
    BY <1>1, <2>2, LastDayIs
  <2>4. Valid(t)
    BY <1>1, <1>3, <2>2, <2>3 DEF Valid
  <2>5. /\ Summed(Years, 0, d.year) \in Int /\ Summed(Years, 0, 1970) \in Int
        /\ Summed(Months(d.year), 1, d.month) \in Int
    BY <1>1, <1>2, MonthSums
  <2>6. DayNumber(t) = DayNumber(d) + 1
    <3>1. DayNumber(t) = Numbered(d.year, d.month, d.day + 1)
      BY <2>2 DEF DayNumber
    <3>2. PICK n \in Nat : n = d.day
      BY <1>1
    <3>3. Numbered(d.year, d.month, n + 1) = Numbered(d.year, d.month, n) + 1
      BY <2>5 DEF Numbered
    <3> QED BY <3>1, <3>2, <3>3 DEF DayNumber
  <2> QED BY <2>4, <2>6
<1>4. CASE d.day = LastDay(d) /\ d.month < 12
  <2>1. t = [d EXCEPT !.day = 1, !.month = @ + 1]
    BY <1>1, <1>4 DEF Tomorrow
  <2>2. t.year = d.year /\ t.month = d.month + 1 /\ t.day = 1 /\ t \in Dates
    <3>1. PICK u \in Dates : u = d
      BY DEF Valid
    <3>2. t = [[u EXCEPT !.day = 1] EXCEPT !.month = d.month + 1]
      BY <2>1, <3>1
    <3>3. [u EXCEPT !.day = 1] \in Dates /\ d.month + 1 \in 1..12
      BY <1>1, <1>4 DEF Dates
    <3>4. PICK v \in Dates : v = [u EXCEPT !.day = 1]
      BY <3>3
    <3>5. v.year = d.year /\ v.day = 1
      BY <3>1, <3>4 DEF Dates
    <3>6. t = [v EXCEPT !.month = d.month + 1]
      BY <3>2, <3>4
    <3> HIDE DEF t
    <3> QED BY <3>3, <3>5, <3>6 DEF Dates
  <2>3. LastDay(t) \in 28..31
    <3>1. LastDay(t) = Month(t.year, t.month)
      BY LastDayIs
    <3> QED BY <1>1, <2>2, <3>1, MonthIs DEF Dates
  <2>4. Valid(t)
    BY <2>2, <2>3 DEF Valid
  <2>5. d.month \in 1..11
    BY <1>1, <1>4
  <2>6. /\ Summed(Years, 0, d.year) \in Int /\ Summed(Years, 0, 1970) \in Int
        /\ Summed(Months(d.year), 1, d.month) \in Int
        /\ Summed(Months(d.year), 1, d.month + 1)
             = Summed(Months(d.year), 1, d.month) + Month(d.year, d.month)
    BY <1>1, <1>2, <2>5, MonthSums
  <2>7. DayNumber(t) = DayNumber(d) + 1
    <3>1. DayNumber(t) = Numbered(d.year, d.month + 1, 1)
      BY <2>2 DEF DayNumber
    <3>2. PICK n \in Int : n = Month(d.year, d.month)
      BY <1>1
    <3>3. DayNumber(d) = Numbered(d.year, d.month, n)
      BY <1>1, <1>4, <3>2 DEF DayNumber
    <3>4. Numbered(d.year, d.month + 1, 1) = Numbered(d.year, d.month, n) + 1
      BY <2>6, <3>2 DEF Numbered
    <3> QED BY <3>1, <3>3, <3>4
  <2> QED BY <2>4, <2>7
<1>5. CASE d.day = LastDay(d) /\ d.month = 12
  <2>1. t = [day |-> 1, month |-> 1, year |-> d.year + 1]
    BY <1>1, <1>5 DEF Tomorrow
  <2>2. t.year = d.year + 1 /\ t.month = 1 /\ t.day = 1 /\ t \in Dates
    BY <1>1, <2>1 DEF Dates
  <2>3. LastDay(t) \in 28..31
    <3>1. LastDay(t) = Month(t.year, t.month)
      BY LastDayIs
    <3> QED BY <1>1, <2>2, <3>1, MonthIs DEF Dates
  <2>4. Valid(t)
    BY <2>2, <2>3 DEF Valid
  <2>5. PICK y \in Nat : y = d.year
    BY <1>1
  <2>6. Summed(Years, 0, y + 1) = Summed(Years, 0, y) + Years[y]
    <3>1. 0 \in Nat /\ 0 <= y
      OBVIOUS
    <3> QED BY <3>1, SumStep
  <2>7. /\ Summed(Years, 0, y) \in Int /\ Summed(Years, 0, 1970) \in Int
        /\ Summed(Months(y), 1, 12) \in Int /\ Month(y, 12) \in Int /\ Years[y] \in Int
        /\ Summed(Months(y), 1, 12) + Month(y, 12) = Years[y]
        /\ Summed(Months(y + 1), 1, 1) = 0
    <3>1. Summed(Years, 0, y) \in Int /\ Summed(Years, 0, 1970) \in Int
      BY <1>2
    <3>2. /\ Summed(Months(y), 1, 12) \in Nat
          /\ Summed(Months(y), 1, 12) + Month(y, 12) = Years[y]
      BY MonthSums
    <3>3. y + 1 \in Nat
      OBVIOUS
    <3>4. Summed(Months(y + 1), 1, 1) = 0
      BY <3>3, MonthSums
    <3>5. Month(y, 12) \in 28..31 /\ Years[y] \in 365..366
      <4>1. 12 \in 1..12
        OBVIOUS
      <4> QED BY <4>1, MonthIs, YearsIn
    <3> QED BY <3>1, <3>2, <3>4, <3>5
  <2>8. DayNumber(t) = Numbered(y + 1, 1, 1)
    BY <2>2, <2>5 DEF DayNumber
  <2>9. DayNumber(d) = Numbered(y, 12, Month(y, 12))
    BY <1>1, <1>5, <2>5 DEF DayNumber
  <2>10. Numbered(y + 1, 1, 1) = Numbered(y, 12, Month(y, 12)) + 1
    BY <2>6, <2>7 DEF Numbered
  <2> QED BY <2>4, <2>8, <2>9, <2>10
<1> QED BY <1>1, <1>3, <1>4, <1>5

LEMMA SplitSecond ==
  ASSUME NEW s \in Nat
  PROVE  (s \div 3600) * 3600 + ((s % 3600) \div 60) * 60 + (s % 60) = s
  OBVIOUS

LEMMA MktimeIs ==
  ASSUME SECS = 60, MINS = 60, NEW d, Valid(d), d.year >= 1970, NEW s \in Nat
  PROVE  mktime(d, s) = (DayNumber(d) * DAY + s) % TIME_MODULUS
<1> DEFINE total_days == Summed(YearDays, 1970, d.year) + Summed(MonthDays(d.year), 1, d.month)
                           + (d.day - 1)
<1>1. d.year \in Nat /\ d.month \in 1..12 /\ d.day \in 1..31
  BY DEF Valid, Dates
<1>2. total_days = DayNumber(d)
  <2>1. YearDays = Years /\ MonthDays(d.year) = Months(d.year)
    BY <1>1, SameLengths
  <2>2. Summed(Years, 1970, d.year) = Summed(Years, 0, d.year) - Summed(Years, 0, 1970)
    <3>1. \A n \in Nat : Years[n] \in Nat
      BY YearsIn
    <3>2. 0 \in Nat /\ 1970 \in Nat /\ 0 <= 1970
      OBVIOUS
    <3> QED BY <1>1, <3>1, <3>2, SumSplit
  <2>3. Summed(Years, 0, d.year) - Summed(Years, 0, 1970) \in Int
    <3>1. \A x \in Nat : Summed(Years, 0, x) \in Nat
      <4> SUFFICES ASSUME NEW x \in Nat PROVE Summed(Years, 0, x) \in Nat
        OBVIOUS
      <4>1. 0 \in Nat /\ 0 <= x /\ \A n \in 0..(x - 1) : Years[n] \in Nat
        BY YearsIn
      <4> QED BY <4>1, SummedIn
    <3> QED BY <1>1, <3>1
  <2>4. Summed(Months(d.year), 1, d.month) \in Nat
    BY MonthSumIn
  <2>5. PICK a \in Int : a = Summed(Years, 0, d.year) - Summed(Years, 0, 1970)
    BY <2>3
  <2>6. PICK b \in Nat : b = Summed(Months(d.year), 1, d.month)
    BY <2>4
  <2>7. total_days = a + b + (d.day - 1)
    <3>1. Summed(YearDays, 1970, d.year) = a
      BY <2>1, <2>2, <2>5
    <3>2. Summed(MonthDays(d.year), 1, d.month) = b
      BY <2>1, <2>6
    <3> QED BY <3>1, <3>2
  <2>8. DayNumber(d) = a + b + (d.day - 1)
    BY <2>5, <2>6 DEF DayNumber, Numbered
  <2> QED BY <2>7, <2>8
<1>3. HOUR = 3600 /\ DAY = 86400
  BY DEF HOUR, DAY
<1>4. DayNumber(d) \in Int
  BY NumberIn
<1>5. mktime(d, s) = (total_days * DAY + (s \div HOUR) * HOUR + ((s % HOUR) \div SECS) * SECS
                        + (s % SECS)) % TIME_MODULUS
  <2>1. ~(d.year < 1970)
    BY <1>1
  <2> QED BY <2>1 DEF mktime
<1> HIDE DEF total_days
<1>6. total_days * DAY + (s \div HOUR) * HOUR + ((s % HOUR) \div SECS) * SECS + (s % SECS)
        = DayNumber(d) * DAY + s
  <2>1. PICK h : h = (s \div 3600) * 3600
    OBVIOUS
  <2>2. PICK m : m = ((s % 3600) \div 60) * 60
    OBVIOUS
  <2>3. PICK r : r = s % 60
    OBVIOUS
  <2>4. h \in Nat /\ m \in Nat /\ r \in Nat /\ h + m + r = s
    BY <2>1, <2>2, <2>3, SplitSecond
  <2>5. DayNumber(d) * 86400 \in Int
    BY <1>4
  <2>6. PICK n \in Int : n = DayNumber(d) * 86400
    BY <2>5
  <2>7. total_days * DAY = n
    BY <1>2, <1>3, <2>6
  <2>8. (s \div HOUR) * HOUR = h /\ ((s % HOUR) \div SECS) * SECS = m /\ s % SECS = r
    BY <1>3, <2>1, <2>2, <2>3
  <2>9. n + h + m + r = n + s
    BY <2>4, <2>6
  <2> QED BY <1>3, <2>6, <2>7, <2>8, <2>9
<1> QED BY <1>5, <1>6

(***************************************************************************)
(* Types: the chip, and the call under way.                                *)
(***************************************************************************)
ChipInv ==
  /\ Valid(date) /\ second \in 0..(DAY - 1) /\ days \in Int
  /\ mode \in [bcd : BOOLEAN, twelve : BOOLEAN]

CallInv ==
  /\ reading \in {"none", "time", "date"} /\ ticked \in BOOLEAN
  /\ raw \in Seq(0..255) /\ Len(raw) <= Len(Order)
  /\ reading = "none" => raw = << >> /\ ticked = FALSE

LEMMA Units ==
  /\ SECS \in 1..60 /\ MINS \in 1..60 /\ HOUR \in Nat /\ HOUR > 0
  /\ HOUR = SECS * MINS /\ DAY = 24 * HOUR /\ DAY \in Nat /\ DAY > 0
<1>1. SECS \in 1..60 /\ MINS \in 1..60
  BY ClockAssumption
<1>2. \A a, b \in 1..60 : a * b \in Nat /\ a * b > 0
  <2> SUFFICES ASSUME NEW a \in 1..60, NEW b \in 1..60 PROVE a * b \in Nat /\ a * b > 0
    OBVIOUS
  <2> QED BY SMT
<1> QED BY <1>1, <1>2 DEF HOUR, DAY

LEMMA Quotient ==
  ASSUME NEW a \in Nat, a > 0, NEW b \in Nat, b > 0, NEW x \in Nat, x < a * b
  PROVE  x \div a \in 0..(b - 1)
<1> DEFINE q == x \div a
           r == x % a
<1>1. q \in Nat /\ r \in Nat /\ x = a * q + r
  BY SMT
<1> HIDE DEF q, r
<1>2. ASSUME q >= b PROVE FALSE
  <2>1. a * q \in Nat /\ a * b \in Nat /\ a * q >= a * b
    <3>1. PICK k \in Nat : q = b + k
      <4>1. q - b \in Nat /\ q = b + (q - b)
        BY <1>1, <1>2
      <4> QED BY <4>1
    <3>2. a * q = a * b + a * k
      BY <3>1, SMT
    <3>3. a * k \in Nat /\ a * b \in Nat
      BY <3>1, SMT
    <3> QED BY <3>2, <3>3
  <2> QED BY <1>1, <2>1
<1>3. q \in 0..(b - 1)
  BY <1>1, <1>2
<1> QED BY <1>3 DEF q

LEMMA EncodedIn == \A v \in 0..99 : Encoded(v) \in 0..153 /\ (v <= 12 => Encoded(v) <= 18)
<1> SUFFICES ASSUME NEW v \in 0..99 PROVE Encoded(v) \in 0..153 /\ (v <= 12 => Encoded(v) <= 18)
  OBVIOUS
<1>1. (v \div 10) * 16 + (v % 10) \in 0..153
  OBVIOUS
<1>2. v <= 12 => (v \div 10) * 16 + (v % 10) <= 18
  OBVIOUS
<1> QED BY <1>1, <1>2 DEF Encoded

RegisterNames == {"seconds", "minutes", "hours", "year", "month", "day", "weekday"}

LEMMA RegisterIs ==
  /\ Register("seconds") = Encoded(second % SECS)
  /\ Register("minutes") = Encoded((second % HOUR) \div SECS)
  /\ Register("hours") = IF mode.twelve
        THEN Encoded(OnTwelve(HourOf(second))) + (IF HourOf(second) >= 12 THEN 128 ELSE 0)
        ELSE Encoded(HourOf(second))
  /\ Register("year") = Encoded(date.year % 100)
  /\ Register("month") = Encoded(date.month)
  /\ Register("day") = Encoded(date.day)
  /\ Register("weekday") = Encoded(((days + 4) % 7) + 1)
<1>1. /\ Register("seconds") = Encoded(second % SECS)
      /\ Register("minutes") = Encoded((second % HOUR) \div SECS)
  BY DEF Register
<1>2. Register("hours") = IF mode.twelve
        THEN Encoded(OnTwelve(HourOf(second))) + (IF HourOf(second) >= 12 THEN 128 ELSE 0)
        ELSE Encoded(HourOf(second))
  BY DEF Register
<1>3. /\ Register("year") = Encoded(date.year % 100)
      /\ Register("month") = Encoded(date.month)
      /\ Register("day") = Encoded(date.day)
      /\ Register("weekday") = Encoded(((days + 4) % 7) + 1)
  BY DEF Register
<1> QED BY <1>1, <1>2, <1>3

LEMMA HourIn == ASSUME ChipInv PROVE HourOf(second) \in 0..23
<1>1. second \in Nat /\ second < HOUR * 24
  BY Units DEF ChipInv
<1> QED BY <1>1, Units, Quotient DEF HourOf

(* A register holds a byte. *)
LEMMA RegisterIn ==
  ASSUME ChipInv, NEW r \in RegisterNames
  PROVE  Register(r) \in 0..255
<1>1. CASE r = "seconds"
  <2>1. second % SECS \in 0..99
    BY Units DEF ChipInv
  <2> QED BY <1>1, <2>1, RegisterIs, EncodedIn
<1>2. CASE r = "minutes"
  <2>1. PICK x \in Nat : x = second % HOUR /\ x < SECS * MINS
    <3>1. second \in Nat
      BY Units DEF ChipInv
    <3>2. \A m, n \in Nat : n > 0 => m % n \in Nat /\ m % n < n
      OBVIOUS
    <3> QED BY <3>1, <3>2, Units
  <2>2. x \div SECS \in 0..(MINS - 1)
    BY <2>1, Units, Quotient
  <2>3. x \div SECS \in 0..99
    BY <2>2, Units
  <2> QED BY <1>2, <2>1, <2>3, RegisterIs, EncodedIn
<1>3. CASE r = "hours"
  <2>1. HourOf(second) \in 0..23
    BY HourIn
  <2>2. OnTwelve(HourOf(second)) \in 1..12
    BY <2>1 DEF OnTwelve
  <2>3. Encoded(OnTwelve(HourOf(second))) \in 0..18
    <3>1. PICK h \in 0..99 : h = OnTwelve(HourOf(second)) /\ h <= 12
      BY <2>2
    <3>2. Encoded(h) \in 0..153 /\ Encoded(h) <= 18
      BY <3>1, EncodedIn
    <3> QED BY <3>1, <3>2
  <2>4. Encoded(HourOf(second)) \in 0..153
    BY <2>1, EncodedIn
  <2> QED BY <1>3, <2>3, <2>4, RegisterIs
<1>4. CASE r = "year"
  <2>1. date.year % 100 \in 0..99
    BY DEF ChipInv, Valid, Dates
  <2>2. Register("year") = Encoded(date.year % 100)
    BY RegisterIs
  <2>3. Encoded(date.year % 100) \in 0..153
    BY <2>1, EncodedIn
  <2> QED BY <1>4, <2>2, <2>3
<1>5. CASE r = "month"
  <2>1. date.month \in 0..99
    BY DEF ChipInv, Valid, Dates
  <2>2. Register("month") = Encoded(date.month)
    BY RegisterIs
  <2>3. Encoded(date.month) \in 0..153
    BY <2>1, EncodedIn
  <2> QED BY <1>5, <2>2, <2>3
<1>6. CASE r = "day"
  <2>1. date.day \in 0..99
    BY DEF ChipInv, Valid, Dates
  <2>2. Register("day") = Encoded(date.day)
    BY RegisterIs
  <2>3. Encoded(date.day) \in 0..153
    BY <2>1, EncodedIn
  <2> QED BY <1>6, <2>2, <2>3
<1>7. CASE r = "weekday"
  <2>1. ((days + 4) % 7) + 1 \in 0..99
    BY DEF ChipInv
  <2>2. Register("weekday") = Encoded(((days + 4) % 7) + 1)
    BY RegisterIs
  <2>3. Encoded(((days + 4) % 7) + 1) \in 0..153
    BY <2>1, EncodedIn
  <2> QED BY <1>7, <2>2, <2>3
<1> QED BY <1>1, <1>2, <1>3, <1>4, <1>5, <1>6, <1>7 DEF RegisterNames

LEMMA OrderIs ==
  /\ reading = "time" => Order = TimeOrder
  /\ reading # "time" => Order = DateOrder
  /\ Len(TimeOrder) = 3 /\ Len(DateOrder) = 4
  /\ TimeOrder[1] = "seconds" /\ TimeOrder[2] = "minutes" /\ TimeOrder[3] = "hours"
  /\ DateOrder[1] = "year" /\ DateOrder[2] = "month" /\ DateOrder[3] = "day"
  /\ DateOrder[4] = "weekday"
  /\ DOMAIN TimeOrder = 1..3 /\ DOMAIN DateOrder = 1..4
  BY DEF Order, TimeOrder, DateOrder

LEMMA OrderIn == \A n \in 1..Len(Order) : Order[n] \in RegisterNames
<1> SUFFICES ASSUME NEW n \in 1..Len(Order) PROVE Order[n] \in RegisterNames
  OBVIOUS
<1>1. CASE reading = "time"
  <2>1. Order = TimeOrder /\ Len(TimeOrder) = 3
    BY <1>1, OrderIs
  <2>2. n \in {1, 2, 3}
    BY <2>1
  <2> QED BY <2>1, <2>2, OrderIs DEF RegisterNames
<1>2. CASE reading # "time"
  <2>1. Order = DateOrder /\ Len(DateOrder) = 4
    BY <1>2, OrderIs
  <2>2. n \in {1, 2, 3, 4}
    BY <2>1
  <2> QED BY <2>1, <2>2, OrderIs DEF RegisterNames
<1> QED BY <1>1, <1>2

LEMMA ChipInductive == ChipInv /\ [ClockNext]_clockVars => ChipInv'
<1> SUFFICES ASSUME ChipInv, [ClockNext]_clockVars PROVE ChipInv'
  OBVIOUS
<1>1. CASE Tick
  <2>1. second' \in 0..(DAY - 1)
    <3>1. second \in Nat /\ second' = (second + 1) % DAY
      BY <1>1, Units DEF Tick, ChipInv
    <3>2. \A m, n \in Nat : n > 0 => m % n \in 0..(n - 1)
      OBVIOUS
    <3>3. second + 1 \in Nat
      BY <3>1
    <3> QED BY <3>1, <3>2, <3>3, Units
  <2>2. date' = Tomorrow(date) \/ date' = date
    BY <1>1 DEF Tick
  <2>3. Valid(date')
    BY <2>2, DayAfterDay DEF ChipInv
  <2>4. days' \in Int /\ mode' = mode
    BY <1>1 DEF Tick, ChipInv
  <2> QED BY <2>1, <2>3, <2>4 DEF ChipInv
<1>2. ASSUME UNCHANGED <<chip, mode>> PROVE ChipInv'
  <2>1. UNCHANGED <<date, second, days, mode>>
    BY <1>2 DEF chip
  <2>2. Valid(date')
    BY <2>1 DEF ChipInv
  <2> QED BY <2>1, <2>2 DEF ChipInv
<1>3. CASE Call("time") \/ Call("date") \/ rtc_read_register
  BY <1>2, <1>3 DEF Call, rtc_read_register
<1>4. CASE rtc_get_time \/ rtc_get_date
  BY <1>2, <1>4 DEF rtc_get_time, rtc_get_date, Return
<1>5. CASE UNCHANGED clockVars
  BY <1>2, <1>5 DEF clockVars
<1> QED BY <1>1, <1>3, <1>4, <1>5 DEF ClockNext

LEMMA CallInductive == ChipInv /\ CallInv /\ [ClockNext]_clockVars => CallInv'
<1> SUFFICES ASSUME ChipInv, CallInv, [ClockNext]_clockVars PROVE CallInv'
  OBVIOUS
<1>0. Len(TimeOrder) = 3 /\ Len(DateOrder) = 4
  BY OrderIs
<1>1. CASE Tick
  <2>1. UNCHANGED <<reading, raw>> /\ ticked' = (reading # "none")
    BY <1>1 DEF Tick
  <2>2. Order' = Order
    BY <2>1 DEF Order
  <2> QED BY <2>1, <2>2 DEF CallInv
<1>2. ASSUME NEW what \in {"time", "date"}, Call(what) PROVE CallInv'
  <2>1. reading = "none" /\ reading' = what /\ raw' = raw /\ ticked' = ticked
    BY <1>2 DEF Call
  <2>2. raw' = << >> /\ ticked' = FALSE
    BY <2>1 DEF CallInv
  <2>3. Len(raw') = 0 /\ Len(Order') \in {3, 4} /\ raw' \in Seq(0..255)
    BY <1>0, <2>2 DEF Order
  <2> QED BY <2>1, <2>2, <2>3 DEF CallInv
<1>3. CASE rtc_read_register
  <2>1. /\ reading # "none" /\ Len(raw) < Len(Order)
        /\ raw' = Append(raw, Register(Order[Len(raw) + 1])) /\ UNCHANGED <<reading, ticked>>
    BY <1>3 DEF rtc_read_register
  <2>2. Len(Order) \in Nat /\ Len(raw) \in Nat
    BY <1>0 DEF Order, CallInv
  <2>3. Len(raw) + 1 \in 1..Len(Order)
    BY <2>1, <2>2
  <2>4. Register(Order[Len(raw) + 1]) \in 0..255
    BY <2>3, OrderIn, RegisterIn
  <2>5. PICK b \in 0..255 : raw' = Append(raw, b)
    BY <2>1, <2>4
  <2>6. raw' \in Seq(0..255) /\ Len(raw') = Len(raw) + 1
    BY <2>5 DEF CallInv
  <2>7. Order' = Order
    BY <2>1 DEF Order
  <2> QED BY <2>1, <2>2, <2>6, <2>7 DEF CallInv
<1>4. CASE rtc_get_time \/ rtc_get_date
  <2>1. reading' = "none" /\ raw' = << >> /\ ticked' = FALSE
    BY <1>4 DEF rtc_get_time, rtc_get_date, Return
  <2>2. Len(raw') <= Len(Order') /\ raw' \in Seq(0..255)
    <3>1. Len(raw') = 0 /\ raw' \in Seq(0..255)
      BY <2>1
    <3>2. Len(Order') \in {3, 4}
      BY <1>0 DEF Order
    <3> QED BY <3>1, <3>2
  <2> QED BY <2>1, <2>2 DEF CallInv
<1>5. CASE UNCHANGED clockVars
  <2>1. UNCHANGED <<reading, raw, ticked>>
    BY <1>5 DEF clockVars, call
  <2>2. Order' = Order
    BY <2>1 DEF Order
  <2> QED BY <2>1, <2>2 DEF CallInv
<1> QED BY <1>1, <1>2, <1>3, <1>4, <1>5 DEF ClockNext

ClockInv == ChipInv /\ CallInv

LEMMA MorningsValid == \A m \in Mornings : Valid(m.date) /\ m.days \in Int
<1> SUFFICES ASSUME NEW m \in Mornings PROVE Valid(m.date) /\ m.days \in Int
  OBVIOUS
<1>1. /\ m.date \in [year : 1900..2155, month : 1..12, day : 1..31]
      /\ m.date.day <= LastDay(m.date) /\ m.days \in Int
  BY ClockAssumption
<1>2. m.date \in Dates
  BY <1>1 DEF Dates
<1> QED BY <1>1, <1>2 DEF Valid

LEMMA ClockStarts == ClockInit => ClockInv
<1> SUFFICES ASSUME ClockInit PROVE ClockInv
  OBVIOUS
<1>1. PICK m \in Mornings : date = m.date /\ days = m.days
  BY DEF ClockInit
<1>2. Valid(date) /\ days \in Int
  BY <1>1, MorningsValid
<1>3. second \in 0..(DAY - 1) /\ mode \in [bcd : BOOLEAN, twelve : BOOLEAN]
  BY DEF ClockInit
<1>4. ChipInv
  BY <1>2, <1>3 DEF ChipInv
<1>5. reading = "none" /\ raw = << >> /\ ticked = FALSE
  BY DEF ClockInit
<1>6. Len(raw) = 0 /\ raw \in Seq(0..255) /\ Len(Order) \in {3, 4}
  <2>1. Len(raw) = 0 /\ raw \in Seq(0..255)
    BY <1>5
  <2>2. Len(Order) \in {3, 4}
    BY OrderIs DEF Order
  <2> QED BY <2>1, <2>2
<1>7. CallInv
  <2>1. Len(raw) <= Len(Order)
    BY <1>6
  <2>2. reading \in {"none", "time", "date"} /\ ticked \in BOOLEAN
    BY <1>5
  <2> QED BY <1>5, <1>6, <2>1, <2>2 DEF CallInv
<1> QED BY <1>4, <1>7 DEF ClockInv

LEMMA ClockInductive == ClockInv /\ [ClockNext]_clockVars => ClockInv'
  BY ChipInductive, CallInductive DEF ClockInv

LEMMA ClockTyped == ClockInv => ClockTypeOK
<1> SUFFICES ASSUME ClockInv PROVE ClockTypeOK
  OBVIOUS
<1>1. /\ date.month \in 1..12 /\ date.day \in 1..31
      /\ date.day <= LastDay(date) /\ LastDay(date) \in 28..31
  BY NumberIn DEF ClockInv, ChipInv, Valid, Dates
<1>2. date.day \in 1..LastDay(date)
  BY <1>1
<1> QED BY <1>1, <1>2 DEF ClockInv, ChipInv, CallInv, ClockTypeOK

(* The registers read are bytes, as many as the call has to read, and the   *)
(* chip keeps a date of the calendar.                                       *)
THEOREM ClockTypesHold == ClockSpec => []ClockTypeOK
  BY ClockStarts, ClockInductive, ClockTyped, PTL DEF ClockSpec
-----------------------------------------------------------------------------
(***************************************************************************)
(* The days, counted midnight by midnight, are those of the calendar.      *)
(***************************************************************************)
Counted == days = DayNumber(date)

LEMMA CountedKept == ClockInv /\ Counted /\ [ClockNext]_clockVars => Counted'
<1> SUFFICES ASSUME ClockInv, Counted, [ClockNext]_clockVars PROVE Counted'
  OBVIOUS
<1>1. CASE Tick
  <2>1. \/ date' = Tomorrow(date) /\ days' = days + 1
        \/ UNCHANGED <<date, days>>
    BY <1>1 DEF Tick
  <2>2. DayNumber(Tomorrow(date)) = DayNumber(date) + 1
    BY DayAfterDay DEF ClockInv, ChipInv
  <2>3. CASE date' = Tomorrow(date) /\ days' = days + 1
    BY <2>2, <2>3 DEF Counted
  <2>4. CASE UNCHANGED <<date, days>>
    BY <2>4 DEF Counted
  <2> QED BY <2>1, <2>3, <2>4
<1>2. ASSUME UNCHANGED chip PROVE Counted'
  BY <1>2 DEF Counted, chip
<1>3. CASE Call("time") \/ Call("date") \/ rtc_read_register
  BY <1>2, <1>3 DEF Call, rtc_read_register
<1>4. CASE rtc_get_time \/ rtc_get_date
  BY <1>2, <1>4 DEF rtc_get_time, rtc_get_date, Return
<1>5. CASE UNCHANGED clockVars
  BY <1>2, <1>5 DEF clockVars
<1> QED BY <1>1, <1>3, <1>4, <1>5 DEF ClockNext

(* With minutes of 60 seconds and hours of 60 minutes, and whatever day the *)
(* chip begins with, as long as that day is numbered right: mktime numbers  *)
(* the seconds of the calendar without a gap or a repetition.               *)
THEOREM MktimeNumbersSeconds ==
  ASSUME SECS = 60, MINS = 60, MorningsRight
  PROVE  ClockSpec => []MktimeCounts
<1>1. ClockInit => Counted
  <2> SUFFICES ASSUME ClockInit PROVE Counted
    OBVIOUS
  <2>1. PICK m \in Mornings : date = m.date /\ days = m.days
    BY DEF ClockInit
  <2> QED BY <2>1 DEF Counted, MorningsRight
<1>2. ClockInv /\ Counted => MktimeCounts
  <2> SUFFICES ASSUME ClockInv, Counted PROVE MktimeCounts
    OBVIOUS
  <2>1. Valid(date) /\ second \in Nat /\ date.year \in Nat
    <3>1. Valid(date) /\ second \in 0..(DAY - 1)
      BY DEF ClockInv, ChipInv
    <3>2. date.year \in Nat
      BY <3>1 DEF Valid, Dates
    <3>3. second \in Nat
      BY <3>1
    <3> QED BY <3>1, <3>2, <3>3
  <2>2. CASE date.year < 1970
    <3>1. mktime(date, second) = TIME_MODULUS - 1
      BY <2>2 DEF mktime
    <3>2. (IF date.year < 1970 THEN TIME_MODULUS - 1 ELSE (days * DAY + second) % TIME_MODULUS)
            = TIME_MODULUS - 1
      BY <2>2
    <3> QED BY <3>1, <3>2 DEF MktimeCounts
  <2>3. CASE ~(date.year < 1970)
    <3>1. date.year >= 1970
      BY <2>1, <2>3
    <3>2. mktime(date, second) = (DayNumber(date) * DAY + second) % TIME_MODULUS
      BY <2>1, <3>1, MktimeIs
    <3> QED BY <2>3, <3>2 DEF MktimeCounts, Counted
  <2> QED BY <2>2, <2>3
<1> QED BY <1>1, <1>2, ClockStarts, ClockInductive, CountedKept, PTL DEF ClockSpec

(***************************************************************************)
(* A call reads its registers at one moment or the other: those before the  *)
(* tick of the chip at the second it began with, those after it at the      *)
(* second of now.                                                          *)
(***************************************************************************)
SecondsAt(s) == Encoded(s % SECS)
MinutesAt(s) == Encoded((s % HOUR) \div SECS)
HoursAt(s) ==
  IF mode.twelve
    THEN Encoded(OnTwelve(HourOf(s))) + (IF HourOf(s) >= 12 THEN 128 ELSE 0)
    ELSE Encoded(HourOf(s))
WeekdayAt(n) == ((n + 4) % 7) + 1

TimeSoFar(s, m, h) ==
  /\ {s, m, h} \subseteq {began.second, second}
  /\ s = began.second \/ m = second
  /\ m = began.second \/ h = second
  /\ Len(raw) >= 1 => raw[1] = SecondsAt(s)
  /\ Len(raw) >= 2 => raw[2] = MinutesAt(m)
  /\ Len(raw) >= 3 => raw[3] = HoursAt(h)

TimeInv ==
  reading = "time" =>
    /\ began.second \in 0..(DAY - 1)
    /\ ticked = FALSE => second = began.second
    /\ ticked = TRUE => second = (began.second + 1) % DAY
    /\ \E s, m, h : TimeSoFar(s, m, h)

DateSoFar(y, m, d, w) ==
  /\ {y, m, d} \subseteq {began.date, date}
  /\ y = began.date \/ m = date
  /\ m = began.date \/ d = date
  /\ w = days \/ (ticked = TRUE /\ w = days - 1)
  /\ Len(raw) >= 1 => raw[1] = Encoded(y.year % 100)
  /\ Len(raw) >= 2 => raw[2] = Encoded(m.month)
  /\ Len(raw) >= 3 => raw[3] = Encoded(d.day)
  /\ Len(raw) >= 4 => raw[4] = Encoded(WeekdayAt(w))

DateInv ==
  reading = "date" =>
    /\ Valid(began.date)
    /\ ticked = FALSE => date = began.date
    /\ ticked = TRUE => date \in {began.date, Tomorrow(began.date)}
    /\ \E y, m, d, w : DateSoFar(y, m, d, w)

LEMMA SameCode ==
  ASSUME mode' = mode
  PROVE  /\ \A v : Encoded(v)' = Encoded(v)
         /\ \A s : SecondsAt(s)' = SecondsAt(s)
         /\ \A s : MinutesAt(s)' = MinutesAt(s)
         /\ \A s : HoursAt(s)' = HoursAt(s)
<1>1. ASSUME NEW v PROVE Encoded(v)' = Encoded(v)
  BY DEF Encoded
<1>2. ASSUME NEW s PROVE SecondsAt(s)' = SecondsAt(s)
  BY DEF SecondsAt, Encoded
<1>3. ASSUME NEW s PROVE MinutesAt(s)' = MinutesAt(s)
  BY DEF MinutesAt, Encoded
<1>4. ASSUME NEW s PROVE HoursAt(s)' = HoursAt(s)
  BY DEF HoursAt, Encoded
<1> QED BY <1>1, <1>2, <1>3, <1>4

LEMMA TimeKept == ClockInv /\ TimeInv /\ [ClockNext]_clockVars => TimeInv'
<1> SUFFICES ASSUME ClockInv, TimeInv, [ClockNext]_clockVars, reading' = "time"
             PROVE  TimeInv'
  BY DEF TimeInv
<1>0. ChipInv /\ CallInv
  BY DEF ClockInv
<1>1. CASE Tick
  <2>1. /\ ticked = FALSE /\ reading = "time" /\ ticked' = TRUE
        /\ UNCHANGED <<mode, reading, raw, began>> /\ second' = (second + 1) % DAY
    BY <1>0, <1>1 DEF Tick, CallInv
  <2>2. second = began.second /\ began.second \in 0..(DAY - 1)
    BY <2>1 DEF TimeInv
  <2>3. PICK s, m, h : TimeSoFar(s, m, h)
    BY <2>1 DEF TimeInv
  <2>4. s = began.second /\ m = began.second /\ h = began.second
    BY <2>2, <2>3 DEF TimeSoFar
  <2>5. TimeSoFar(s, m, h)'
    BY <2>1, <2>3, <2>4, SameCode DEF TimeSoFar
  <2>6. \E a, b, c : TimeSoFar(a, b, c)'
    BY <2>5
  <2> QED BY <2>1, <2>2, <2>6 DEF TimeInv
<1>2. ASSUME NEW what \in {"time", "date"}, Call(what) PROVE TimeInv'
  <2>1. /\ began' = [date |-> date, second |-> second] /\ second' = second /\ raw' = raw
        /\ ticked' = ticked /\ reading = "none"
    BY <1>2 DEF Call, chip
  <2>2. raw = << >> /\ ticked = FALSE
    BY <1>0, <2>1 DEF CallInv
  <2>3. began'.second = second /\ second \in 0..(DAY - 1)
    BY <1>0, <2>1 DEF ChipInv
  <2>4. Len(raw') = 0
    BY <2>1, <2>2
  <2>5. TimeSoFar(second, second, second)'
    BY <2>1, <2>3, <2>4 DEF TimeSoFar
  <2>6. \E a, b, c : TimeSoFar(a, b, c)'
    <3>1. PICK a : a = second
      OBVIOUS
    <3>2. TimeSoFar(a, a, a)'
      BY <2>1, <2>3, <2>4, <3>1 DEF TimeSoFar
    <3> QED BY <3>2
  <2> QED BY <2>1, <2>2, <2>3, <2>6 DEF TimeInv
<1>3. CASE rtc_read_register
  <2>1. /\ reading = "time" /\ Len(raw) < Len(Order)
        /\ raw' = Append(raw, Register(Order[Len(raw) + 1]))
        /\ UNCHANGED <<second, mode, reading, began, ticked>>
    BY <1>3 DEF rtc_read_register, chip
  <2>2. Order = TimeOrder /\ Len(TimeOrder) = 3
    BY <2>1, OrderIs
  <2>3. PICK k : k = Len(raw) /\ k \in {0, 1, 2} /\ raw \in Seq(0..255)
    <3>1. Len(raw) \in Nat /\ raw \in Seq(0..255)
      BY <1>0 DEF CallInv
    <3>2. Len(raw) < 3
      BY <2>1, <2>2
    <3> QED BY <3>1, <3>2
  <2>4. PICK b \in 0..255 : b = Register(TimeOrder[k + 1])
    <3>0. k + 1 \in 1..3
      <4>1. PICK j \in 0..2 : j = k
        BY <2>3
      <4>2. j + 1 \in 1..3
        OBVIOUS
      <4> QED BY <4>1, <4>2
    <3>1. k + 1 \in 1..Len(Order)
      BY <2>2, <3>0, Zenon
    <3>2. Order[k + 1] \in RegisterNames
      BY <3>1, OrderIn
    <3> QED BY <1>0, <2>2, <3>2, RegisterIn
  <2>5. /\ Len(raw') = k + 1 /\ raw'[k + 1] = b
        /\ \A n \in 1..k : raw'[n] = raw[n]
    <3>1. raw' = Append(raw, b)
      BY <2>1, <2>2, <2>3, <2>4
    <3>2. PICK S : S = 0..255
      OBVIOUS
    <3>3. raw \in Seq(S) /\ b \in S /\ k = Len(raw)
      BY <2>3, <2>4, <3>2
    <3>4. PICK t, r : t = raw' /\ r = raw
      OBVIOUS
    <3>5. t = Append(r, b) /\ r \in Seq(S) /\ b \in S /\ k = Len(r)
      BY <3>1, <3>3, <3>4, Zenon
    <3>6. Len(t) = k + 1 /\ t[k + 1] = b /\ \A n \in 1..k : t[n] = r[n]
      BY <3>5, SMT
    <3> QED BY <3>4, <3>6, Zenon
  <2>6. PICK s, m, h : TimeSoFar(s, m, h)
    BY <2>1 DEF TimeInv
  <2>7. PICK now : now = second
    OBVIOUS
  <2>8. CASE k = 0
    <3>1. Len(raw') = 1 /\ raw'[1] = SecondsAt(now)
      BY <2>4, <2>5, <2>7, <2>8, OrderIs, RegisterIs DEF SecondsAt
    <3>2. TimeSoFar(now, now, now)'
      BY <2>1, <2>7, <3>1, SameCode DEF TimeSoFar
    <3> QED BY <2>1, <3>2 DEF TimeInv
  <2>9. CASE k = 1
    <3>1. Len(raw') = 2 /\ raw'[2] = MinutesAt(now) /\ raw'[1] = raw[1] /\ Len(raw) = 1
      BY <2>3, <2>4, <2>5, <2>7, <2>9, OrderIs, RegisterIs DEF MinutesAt
    <3>2. raw[1] = SecondsAt(s) /\ s \in {began.second, second}
      BY <2>6, <3>1 DEF TimeSoFar
    <3>3. TimeSoFar(s, now, now)'
      BY <2>1, <2>7, <3>1, <3>2, SameCode DEF TimeSoFar
    <3> QED BY <2>1, <3>3 DEF TimeInv
  <2>10. CASE k = 2
    <3>1. /\ Len(raw') = 3 /\ raw'[3] = HoursAt(now) /\ raw'[1] = raw[1] /\ raw'[2] = raw[2]
          /\ Len(raw) = 2
      BY <2>3, <2>4, <2>5, <2>7, <2>10, OrderIs, RegisterIs DEF HoursAt
    <3>2. /\ raw[1] = SecondsAt(s) /\ s \in {began.second, second}
          /\ raw[2] = MinutesAt(m) /\ m \in {began.second, second}
          /\ s = began.second \/ m = second
      BY <2>6, <3>1 DEF TimeSoFar
    <3>3. TimeSoFar(s, m, now)'
      BY <2>1, <2>7, <3>1, <3>2, SameCode DEF TimeSoFar
    <3> QED BY <2>1, <3>3 DEF TimeInv
  <2> QED BY <2>3, <2>8, <2>9, <2>10
<1>4. CASE rtc_get_time \/ rtc_get_date
  BY <1>4 DEF rtc_get_time, rtc_get_date, Return
<1>5. CASE UNCHANGED clockVars
  <2>1. UNCHANGED <<second, mode, reading, raw, began, ticked>>
    BY <1>5 DEF clockVars, chip, call
  <2>2. PICK s, m, h : TimeSoFar(s, m, h)
    BY <2>1 DEF TimeInv
  <2>3. TimeSoFar(s, m, h)'
    BY <2>1, <2>2, SameCode DEF TimeSoFar
  <2> QED BY <2>1, <2>3 DEF TimeInv
<1> QED BY <1>1, <1>2, <1>3, <1>4, <1>5 DEF ClockNext

LEMMA DateKept == ClockInv /\ DateInv /\ [ClockNext]_clockVars => DateInv'
<1> SUFFICES ASSUME ClockInv, DateInv, [ClockNext]_clockVars, reading' = "date"
             PROVE  DateInv'
  BY DEF DateInv
<1>0. ChipInv /\ CallInv
  BY DEF ClockInv
<1>1. CASE Tick
  <2>1. /\ ticked = FALSE /\ reading = "date" /\ ticked' = TRUE
        /\ UNCHANGED <<mode, reading, raw, began>>
        /\ date' \in {date, Tomorrow(date)} /\ days' \in {days, days + 1} /\ days \in Int
    BY <1>0, <1>1 DEF Tick, CallInv, ChipInv
  <2>2. date = began.date /\ Valid(began.date)
    BY <2>1 DEF DateInv
  <2>3. PICK y, m, d, w : DateSoFar(y, m, d, w)
    BY <2>1 DEF DateInv
  <2>4. /\ y = began.date /\ m = began.date /\ d = began.date /\ w = days
        /\ w = days' \/ w = days' - 1
    <3>1. y = began.date /\ m = began.date /\ d = began.date
      BY <2>2, <2>3 DEF DateSoFar
    <3>3. w = days
      BY <2>1, <2>3 DEF DateSoFar
    <3>2. days = days' \/ days = days' - 1
      <4>1. PICK n \in Int : n = days
        BY <2>1
      <4>2. (n + 1) - 1 = n
        OBVIOUS
      <4> QED BY <2>1, <4>1, <4>2
    <3> QED BY <3>1, <3>2, <3>3
  <2>5. DateSoFar(y, m, d, w)'
    <3>1. /\ Len(raw) >= 1 => raw[1] = Encoded(y.year % 100)
          /\ Len(raw) >= 2 => raw[2] = Encoded(m.month)
          /\ Len(raw) >= 3 => raw[3] = Encoded(d.day)
          /\ Len(raw) >= 4 => raw[4] = Encoded(WeekdayAt(w))
      BY <2>3 DEF DateSoFar
    <3> QED BY <2>1, <2>4, <3>1, SameCode DEF DateSoFar
  <2> QED BY <2>1, <2>2, <2>5 DEF DateInv
<1>2. ASSUME NEW what \in {"time", "date"}, Call(what) PROVE DateInv'
  <2>1. /\ began' = [date |-> date, second |-> second] /\ date' = date /\ raw' = raw
        /\ ticked' = ticked /\ reading = "none" /\ days' = days
    BY <1>2 DEF Call, chip
  <2>2. raw = << >> /\ ticked = FALSE
    BY <1>0, <2>1 DEF CallInv
  <2>3. began'.date = date /\ Valid(date)
    BY <1>0, <2>1 DEF ChipInv
  <2>4. Len(raw') = 0
    BY <2>1, <2>2
  <2>5. PICK a, w : a = date /\ w = days
    OBVIOUS
  <2>6. DateSoFar(a, a, a, w)'
    BY <2>1, <2>3, <2>4, <2>5 DEF DateSoFar
  <2> QED BY <2>1, <2>2, <2>3, <2>6 DEF DateInv
<1>3. CASE rtc_read_register
  <2>1. /\ reading = "date" /\ Len(raw) < Len(Order)
        /\ raw' = Append(raw, Register(Order[Len(raw) + 1]))
        /\ UNCHANGED <<date, days, mode, reading, began, ticked>>
    BY <1>3 DEF rtc_read_register, chip
  <2>2. Order = DateOrder /\ Len(DateOrder) = 4
    BY <2>1, OrderIs
  <2>3. PICK k : k = Len(raw) /\ k \in {0, 1, 2, 3} /\ raw \in Seq(0..255)
    <3>1. Len(raw) \in Nat /\ raw \in Seq(0..255)
      BY <1>0 DEF CallInv
    <3>2. Len(raw) < 4
      BY <2>1, <2>2
    <3> QED BY <3>1, <3>2
  <2>4. PICK b \in 0..255 : b = Register(DateOrder[k + 1])
    <3>0. k + 1 \in 1..4
      <4>1. PICK j \in 0..3 : j = k
        BY <2>3
      <4>2. j + 1 \in 1..4
        OBVIOUS
      <4> QED BY <4>1, <4>2
    <3>1. k + 1 \in 1..Len(Order)
      BY <2>2, <3>0, Zenon
    <3>2. Order[k + 1] \in RegisterNames
      BY <3>1, OrderIn
    <3> QED BY <1>0, <2>2, <3>2, RegisterIn
  <2>5. /\ Len(raw') = k + 1 /\ raw'[k + 1] = b
        /\ \A n \in 1..k : raw'[n] = raw[n]
    <3>1. raw' = Append(raw, b)
      BY <2>1, <2>2, <2>3, <2>4
    <3>2. PICK S : S = 0..255
      OBVIOUS
    <3>3. raw \in Seq(S) /\ b \in S /\ k = Len(raw)
      BY <2>3, <2>4, <3>2
    <3>4. PICK t, r : t = raw' /\ r = raw
      OBVIOUS
    <3>5. t = Append(r, b) /\ r \in Seq(S) /\ b \in S /\ k = Len(r)
      BY <3>1, <3>3, <3>4, Zenon
    <3>6. Len(t) = k + 1 /\ t[k + 1] = b /\ \A n \in 1..k : t[n] = r[n]
      BY <3>5, SMT
    <3> QED BY <3>4, <3>6, Zenon
  <2>6. PICK y, m, d, w : DateSoFar(y, m, d, w)
    BY <2>1 DEF DateInv
  <2>7. PICK now, n : now = date /\ n = days
    OBVIOUS
  <2>8. CASE k = 0
    <3>1. Len(raw') = 1 /\ raw'[1] = Encoded(now.year % 100)
      BY <2>4, <2>5, <2>7, <2>8, OrderIs, RegisterIs
    <3>2. DateSoFar(now, now, now, n)'
      BY <2>1, <2>7, <3>1, SameCode DEF DateSoFar
    <3> QED BY <2>1, <3>2 DEF DateInv
  <2>9. CASE k = 1
    <3>1. Len(raw') = 2 /\ raw'[2] = Encoded(now.month) /\ raw'[1] = raw[1] /\ Len(raw) = 1
      BY <2>3, <2>4, <2>5, <2>7, <2>9, OrderIs, RegisterIs
    <3>2. raw[1] = Encoded(y.year % 100) /\ y \in {began.date, date}
      BY <2>6, <3>1 DEF DateSoFar
    <3>3. DateSoFar(y, now, now, n)'
      BY <2>1, <2>7, <3>1, <3>2, SameCode DEF DateSoFar
    <3> QED BY <2>1, <3>3 DEF DateInv
  <2>10. CASE k = 2
    <3>1. /\ Len(raw') = 3 /\ raw'[3] = Encoded(now.day) /\ raw'[1] = raw[1] /\ raw'[2] = raw[2]
          /\ Len(raw) = 2
      BY <2>3, <2>4, <2>5, <2>7, <2>10, OrderIs, RegisterIs
    <3>2. /\ raw[1] = Encoded(y.year % 100) /\ y \in {began.date, date}
          /\ raw[2] = Encoded(m.month) /\ m \in {began.date, date}
          /\ y = began.date \/ m = date
      BY <2>6, <3>1 DEF DateSoFar
    <3>3. DateSoFar(y, m, now, n)'
      BY <2>1, <2>7, <3>1, <3>2, SameCode DEF DateSoFar
    <3> QED BY <2>1, <3>3 DEF DateInv
  <2>11. CASE k = 3
    <3>1. /\ Len(raw') = 4 /\ raw'[4] = Encoded(WeekdayAt(n)) /\ raw'[1] = raw[1]
          /\ raw'[2] = raw[2] /\ raw'[3] = raw[3] /\ Len(raw) = 3
      <4>1. raw'[4] = Register("weekday")
        BY <2>4, <2>5, <2>11, OrderIs
      <4>2. Register("weekday") = Encoded(WeekdayAt(n))
        BY <2>7, RegisterIs DEF WeekdayAt
      <4>3. raw'[1] = raw[1] /\ raw'[2] = raw[2] /\ raw'[3] = raw[3]
        BY <2>5, <2>11
      <4> QED BY <2>3, <2>5, <2>11, <4>1, <4>2, <4>3
    <3>2. /\ raw[1] = Encoded(y.year % 100) /\ y \in {began.date, date}
          /\ raw[2] = Encoded(m.month) /\ m \in {began.date, date}
          /\ raw[3] = Encoded(d.day) /\ d \in {began.date, date}
          /\ y = began.date \/ m = date
          /\ m = began.date \/ d = date
      BY <2>6, <3>1 DEF DateSoFar
    <3>3. DateSoFar(y, m, d, n)'
      BY <2>1, <2>7, <3>1, <3>2, SameCode DEF DateSoFar
    <3> QED BY <2>1, <3>3 DEF DateInv
  <2> QED BY <2>3, <2>8, <2>9, <2>10, <2>11
<1>4. CASE rtc_get_time \/ rtc_get_date
  BY <1>4 DEF rtc_get_time, rtc_get_date, Return
<1>5. CASE UNCHANGED clockVars
  <2>1. UNCHANGED <<date, days, mode, reading, raw, began, ticked>>
    BY <1>5 DEF clockVars, chip, call
  <2>2. PICK y, m, d, w : DateSoFar(y, m, d, w)
    BY <2>1 DEF DateInv
  <2>3. DateSoFar(y, m, d, w)'
    BY <2>1, <2>2, SameCode DEF DateSoFar
  <2> QED BY <2>1, <2>3 DEF DateInv
<1> QED BY <1>1, <1>2, <1>3, <1>4, <1>5 DEF ClockNext

(* What a call gets out of the registers. *)
LEMMA DecodedIs == \A v \in 0..99 : Decoded(Encoded(v)) = v
<1> SUFFICES ASSUME NEW v \in 0..99 PROVE Decoded(Encoded(v)) = v
  OBVIOUS
<1>1. CASE mode.bcd
  <2>1. PICK b \in Nat : b = (v \div 10) * 16 + (v % 10)
    OBVIOUS
  <2>2. b \div 16 = v \div 10 /\ b % 16 = v % 10
    BY <2>1
  <2>3. ((b \div 16) * 10 + (b % 16)) % 256 = v
    BY <2>2
  <2> QED BY <1>1, <2>1, <2>3 DEF Decoded, Encoded, bcd_to_binary
<1>2. CASE ~mode.bcd
  BY <1>2 DEF Decoded, Encoded
<1> QED BY <1>1, <1>2

LEMMA NamedIs ==
  /\ reading = "time" =>
       /\ Named("seconds") = Decoded(raw[1]) /\ Named("minutes") = Decoded(raw[2])
       /\ Named("hours") = Decoded(raw[3])
  /\ reading = "date" =>
       /\ Named("year") = Decoded(raw[1]) /\ Named("month") = Decoded(raw[2])
       /\ Named("day") = Decoded(raw[3]) /\ Named("weekday") = Decoded(raw[4])
<1>1. ASSUME NEW n \in DOMAIN Order, NEW r, Order[n] = r,
             \A k \in DOMAIN Order : Order[k] = r => k = n
      PROVE  Named(r) = Decoded(raw[n])
  <2> DEFINE c == CHOOSE k \in DOMAIN Order : Order[k] = r
  <2>1. c \in DOMAIN Order /\ Order[c] = r
    BY <1>1, Zenon
  <2>2. c = n
    BY <1>1, <2>1
  <2> QED BY <2>2 DEF Named
<1>2. CASE reading = "time"
  <2>1. Order = TimeOrder /\ DOMAIN Order = 1..3
    BY <1>2, OrderIs
  <2>2. /\ Order[1] = "seconds" /\ Order[2] = "minutes" /\ Order[3] = "hours"
        /\ \A k \in DOMAIN Order : k = 1 \/ k = 2 \/ k = 3
    BY <2>1, OrderIs
  <2>3. 1 \in DOMAIN Order /\ 2 \in DOMAIN Order /\ 3 \in DOMAIN Order
    BY <2>1
  <2>4. Named("seconds") = Decoded(raw[1])
    <3>1. \A k \in DOMAIN Order : Order[k] = "seconds" => k = 1
      BY <2>2
    <3> QED BY <1>1, <2>2, <2>3, <3>1
  <2>5. Named("minutes") = Decoded(raw[2])
    <3>1. \A k \in DOMAIN Order : Order[k] = "minutes" => k = 2
      BY <2>2
    <3> QED BY <1>1, <2>2, <2>3, <3>1
  <2>6. Named("hours") = Decoded(raw[3])
    <3>1. \A k \in DOMAIN Order : Order[k] = "hours" => k = 3
      BY <2>2
    <3> QED BY <1>1, <2>2, <2>3, <3>1
  <2> QED BY <1>2, <2>4, <2>5, <2>6
<1>3. CASE reading = "date"
  <2>1. Order = DateOrder /\ DOMAIN Order = 1..4
    BY <1>3, OrderIs
  <2>2. /\ Order[1] = "year" /\ Order[2] = "month" /\ Order[3] = "day" /\ Order[4] = "weekday"
        /\ \A k \in DOMAIN Order : k = 1 \/ k = 2 \/ k = 3 \/ k = 4
    BY <2>1, OrderIs
  <2>3. 1 \in DOMAIN Order /\ 2 \in DOMAIN Order /\ 3 \in DOMAIN Order /\ 4 \in DOMAIN Order
    BY <2>1
  <2>4. Named("year") = Decoded(raw[1])
    <3>1. \A k \in DOMAIN Order : Order[k] = "year" => k = 1
      BY <2>2
    <3> QED BY <1>1, <2>2, <2>3, <3>1
  <2>5. Named("month") = Decoded(raw[2])
    <3>1. \A k \in DOMAIN Order : Order[k] = "month" => k = 2
      BY <2>2
    <3> QED BY <1>1, <2>2, <2>3, <3>1
  <2>6. Named("day") = Decoded(raw[3])
    <3>1. \A k \in DOMAIN Order : Order[k] = "day" => k = 3
      BY <2>2
    <3> QED BY <1>1, <2>2, <2>3, <3>1
  <2>7. Named("weekday") = Decoded(raw[4])
    <3>1. \A k \in DOMAIN Order : Order[k] = "weekday" => k = 4
      BY <2>2
    <3> QED BY <1>1, <2>2, <2>3, <3>1
  <2> QED BY <1>3, <2>4, <2>5, <2>6, <2>7
<1> QED BY <1>2, <1>3

LEMMA OfTwelveIs ==
  ASSUME NEW h \in 0..23
  PROVE  /\ OnTwelve(h) \in 1..12
         /\ h < 12 => OfTwelve(OnTwelve(h)) = h
         /\ h >= 12 => OfTwelve(OnTwelve(h) + 128) = IF h = 12 THEN 24 ELSE h
         /\ OfTwelve(OnTwelve(h) + 80) = OnTwelve(h) + 80
<1>1. CASE h = 0
  BY <1>1 DEF OnTwelve, OfTwelve
<1>2. CASE h = 12
  BY <1>2 DEF OnTwelve, OfTwelve
<1>3. CASE h \in 1..11
  <2>1. OnTwelve(h) = h
    BY <1>3 DEF OnTwelve
  <2> QED BY <1>3, <2>1 DEF OfTwelve
<1>4. CASE h \in 13..23
  <2>1. OnTwelve(h) = h - 12
    BY <1>4 DEF OnTwelve
  <2>2. PICK t \in 1..11 : t = h - 12 /\ h = t + 12
    BY <1>4
  <2>3. OfTwelve(t + 128) = t + 12 /\ OfTwelve(t + 80) = t + 80
    BY DEF OfTwelve
  <2> QED BY <1>4, <2>1, <2>2, <2>3
<1> QED BY <1>1, <1>2, <1>3, <1>4

(* The hours that a call returns, of the register read at a second. *)
Hours(s) == IF mode.twelve THEN OfTwelve(Decoded(HoursAt(s))) ELSE Decoded(HoursAt(s))

LEMMA HoursIs ==
  ASSUME mode \in [bcd : BOOLEAN, twelve : BOOLEAN], NEW s, HourOf(s) \in 0..23
  PROVE  /\ ~mode.twelve => Hours(s) = HourOf(s)
         /\ mode.twelve => /\ Hours(s) \in Nat
                           /\ Hours(s) = HourOf(s) <=>
                                HourOf(s) < 12 \/ (~mode.bcd /\ HourOf(s) # 12)
<1>1. PICK h \in 0..23 : h = HourOf(s)
  OBVIOUS
<1>2. CASE ~mode.twelve
  <2>1. HoursAt(s) = Encoded(h)
    BY <1>1, <1>2 DEF HoursAt
  <2>2. Decoded(Encoded(h)) = h
    BY DecodedIs
  <2> QED BY <1>1, <1>2, <2>1, <2>2 DEF Hours
<1>3. CASE mode.twelve
  <2>1. PICK t \in 1..12 : t = OnTwelve(h)
    BY OfTwelveIs
  <2>2. CASE h < 12
    <3>1. HoursAt(s) = Encoded(t) + 0
      BY <1>1, <1>3, <2>1, <2>2 DEF HoursAt
    <3>0. t \in 0..99
      BY SMT
    <3>2. Encoded(t) \in 0..153 /\ Decoded(Encoded(t)) = t
      BY <3>0, EncodedIn, DecodedIs, Zenon
    <3>3. HoursAt(s) = Encoded(t)
      BY <3>1, <3>2
    <3>4. Hours(s) = OfTwelve(t)
      BY <1>3, <3>2, <3>3 DEF Hours
    <3>5. OfTwelve(t) = h
      BY <2>1, <2>2, OfTwelveIs
    <3> QED BY <1>1, <1>3, <2>2, <3>4, <3>5
  <2>3. CASE h >= 12 /\ mode.bcd
    <3>1. HoursAt(s) = Encoded(t) + 128
      BY <1>1, <1>3, <2>1, <2>3 DEF HoursAt
    <3>2. Encoded(t) = (t \div 10) * 16 + (t % 10)
      BY <2>3 DEF Encoded
    <3>3. bcd_to_binary((t \div 10) * 16 + (t % 10) + 128) = t + 80
      BY DEF bcd_to_binary
    <3>4. Decoded(HoursAt(s)) = t + 80
      BY <2>3, <3>1, <3>2, <3>3 DEF Decoded
    <3>5. Hours(s) = t + 80
      BY <1>3, <2>1, <3>4, OfTwelveIs DEF Hours
    <3>6. t + 80 # h
      OBVIOUS
    <3> QED BY <1>1, <1>3, <2>3, <3>5, <3>6
  <2>4. CASE h >= 12 /\ ~mode.bcd
    <3>1. HoursAt(s) = t + 128
      BY <1>1, <1>3, <2>1, <2>4 DEF HoursAt, Encoded
    <3>2. Decoded(HoursAt(s)) = t + 128
      BY <2>4, <3>1 DEF Decoded
    <3>3. Hours(s) = OfTwelve(t + 128)
      BY <1>3, <3>2 DEF Hours
    <3>4. OfTwelve(t + 128) = IF h = 12 THEN 24 ELSE h
      BY <2>1, <2>4, OfTwelveIs
    <3>5. Hours(s) \in Nat /\ (Hours(s) = h <=> h # 12)
      BY <3>3, <3>4
    <3> QED BY <1>1, <1>3, <2>4, <3>5
  <2> QED BY <2>2, <2>3, <2>4
<1> QED BY <1>2, <1>3

(***************************************************************************)
(* The seconds of a day, digit by digit.                                   *)
(***************************************************************************)
Clocked(s, m, h) == h * 3600 + m * 60 + s
(* x is q times d, and r. *)
Parts(x, d, q, r) == x = q * d + r
LEMMA PartsAre ==
  ASSUME NEW d \in Nat, d > 0, NEW q \in Int, NEW r \in Nat, r < d, NEW x, Parts(x, d, q, r)
  PROVE  x \div d = q /\ x % d = r
  BY SMT DEF Parts

(* The digits of a clock. *)
Digits(s, m, h) == s \in Nat /\ s < 60 /\ m \in Nat /\ m < 60 /\ h \in Nat /\ h < 24

Hour(x) == x \div 3600
Minute(x) == (x % 3600) \div 60
Second(x) == x % 60

LEMMA ClockedParts ==
  ASSUME NEW h, NEW m, NEW s, Digits(s, m, h), NEW x, x = Clocked(s, m, h)
  PROVE  Hour(x) = h /\ Minute(x) = m /\ Second(x) = s
<1>0. s \in Nat /\ s < 60 /\ m \in Nat /\ m < 60 /\ h \in Nat /\ h < 24
  BY DEF Digits
<1>1. PICK y \in Nat : y = m * 60 + s /\ y < 3600
  <2>1. m * 60 + s \in Nat /\ m * 60 + s < 3600
    BY <1>0, SMT
  <2> QED BY <2>1, SMT
<1>2. PICK z \in Nat : z = h * 60 + m
  BY <1>0, SMT
<1>3. Parts(x, 3600, h, y) /\ Parts(y, 60, m, s) /\ Parts(x, 60, z, s)
  BY <1>0, <1>1, <1>2, SMT DEF Parts, Clocked
<1>4. x \div 3600 = h /\ x % 3600 = y
  <2>1. 3600 \in Nat /\ 3600 > 0
    BY SMT
  <2> QED BY <1>0, <1>1, <1>3, <2>1, PartsAre, SMT
<1>5. y \div 60 = m /\ x % 60 = s
  <2>1. 60 \in Nat /\ 60 > 0
    BY SMT
  <2> QED BY <1>0, <1>2, <1>3, <2>1, PartsAre, SMT
<1>6. Hour(x) = h
  BY <1>4, SMT DEF Hour
<1>7. Minute(x) = m
  BY <1>4, <1>5, SMT DEF Minute
<1>8. Second(x) = s
  BY <1>5, SMT DEF Second
<1> QED BY <1>6, <1>7, <1>8, SMT

InDay(o) == o \in Nat /\ o < 86400
Ticked(o) == (o + 1) % 86400

LEMMA HasDigits ==
  ASSUME NEW o, InDay(o)
  PROVE  \E s, m, h : Digits(s, m, h) /\ o = Clocked(s, m, h)
<1>0. o \in Nat /\ o < 86400
  BY SMT DEF InDay
<1>1. PICK h \in Nat : h = o \div 3600
  BY <1>0, SMT
<1>2. PICK x \in Nat : x = o % 3600
  BY <1>0, SMT
<1>3. h < 24 /\ x < 3600 /\ o = h * 3600 + x
  BY <1>0, <1>1, <1>2, SMT
<1>4. PICK m \in Nat : m = x \div 60
  BY SMT
<1>5. PICK s \in Nat : s = x % 60
  BY SMT
<1>6. m < 60 /\ s < 60 /\ x = m * 60 + s
  BY <1>3, <1>4, <1>5, SMT
<1>7. o = h * 3600 + m * 60 + s
  BY <1>3, <1>6, SMT
<1>8. Digits(s, m, h) /\ o = Clocked(s, m, h)
  BY <1>3, <1>6, <1>7, SMT DEF Digits, Clocked
<1> QED BY <1>8, Zenon

(* The second after one, digit by digit. *)
Follows(h, m, s, hh, mm, ss) ==
  \/ s < 59 /\ ss = s + 1 /\ mm = m /\ hh = h
  \/ s = 59 /\ m < 59 /\ ss = 0 /\ mm = m + 1 /\ hh = h
  \/ s = 59 /\ m = 59 /\ h < 23 /\ ss = 0 /\ mm = 0 /\ hh = h + 1
  \/ s = 59 /\ m = 59 /\ h = 23 /\ ss = 0 /\ mm = 0 /\ hh = 0

LEMMA NextDigits ==
  ASSUME NEW h, NEW m, NEW s, Digits(s, m, h),
         NEW o, o = Clocked(s, m, h)
  PROVE  \E hh, mm, ss :
           Follows(h, m, s, hh, mm, ss) /\ Digits(ss, mm, hh) /\ Ticked(o) = Clocked(ss, mm, hh)
<1>0. s \in Nat /\ s < 60 /\ m \in Nat /\ m < 60 /\ h \in Nat /\ h < 24
  BY DEF Digits
<1>a. \A x \in Nat : x < 86400 => x % 86400 = x
  BY SMT
<1>b. o = h * 3600 + m * 60 + s
  BY SMT DEF Clocked
<1>1. CASE s < 59
  <2>1. o + 1 \in Nat /\ o + 1 < 86400 /\ o + 1 = h * 3600 + m * 60 + (s + 1)
    BY <1>0, <1>b, <1>1, SMT
  <2>2. Ticked(o) = Clocked(s + 1, m, h)
    BY <1>a, <2>1, SMT DEF Clocked, Ticked
  <2>3. Digits(s + 1, m, h)
    BY <1>0, <1>1, SMT DEF Digits
  <2> QED BY <1>1, <2>2, <2>3, Zenon DEF Follows
<1>2. CASE s = 59 /\ m < 59
  <2>1. o + 1 \in Nat /\ o + 1 < 86400 /\ o + 1 = h * 3600 + (m + 1) * 60 + 0
    BY <1>0, <1>b, <1>2, SMT
  <2>2. Ticked(o) = Clocked(0, m + 1, h)
    BY <1>a, <2>1, SMT DEF Clocked, Ticked
  <2>3. Digits(0, m + 1, h)
    BY <1>0, <1>2, SMT DEF Digits
  <2> QED BY <1>2, <2>2, <2>3, Zenon DEF Follows
<1>3. CASE s = 59 /\ m = 59 /\ h < 23
  <2>1. o + 1 \in Nat /\ o + 1 < 86400 /\ o + 1 = (h + 1) * 3600 + 0 * 60 + 0
    BY <1>0, <1>b, <1>3, SMT
  <2>2. Ticked(o) = Clocked(0, 0, h + 1)
    BY <1>a, <2>1, SMT DEF Clocked, Ticked
  <2>3. Digits(0, 0, h + 1)
    BY <1>0, <1>3, SMT DEF Digits
  <2> QED BY <1>3, <2>2, <2>3, Zenon DEF Follows
<1>4. CASE s = 59 /\ m = 59 /\ h = 23
  <2>1. o + 1 = 86400 /\ 86400 % 86400 = 0
    BY <1>0, <1>b, <1>4, SMT
  <2>2. Ticked(o) = Clocked(0, 0, 0)
    BY <2>1, SMT DEF Clocked, Ticked
  <2>3. Digits(0, 0, 0)
    BY SMT DEF Digits
  <2> QED BY <1>4, <2>2, <2>3, Zenon DEF Follows
<1>5. s < 59 \/ (s = 59 /\ m < 59) \/ (s = 59 /\ m = 59 /\ h < 23) \/ (s = 59 /\ m = 59 /\ h = 23)
  BY <1>0, SMT
<1> QED BY <1>1, <1>2, <1>3, <1>4, <1>5, Zenon

(* At the moment o of a day or in the hour after it. *)
Near(c, o) == (c - o) % 86400 \in Nat /\ (c - o) % 86400 <= 3600

LEMMA NearIs ==
  ASSUME NEW o, InDay(o), NEW c \in Nat,
         \/ c = o \/ c = o + 1 \/ c = o + 60 \/ c = o + 3600
         \/ o = 86399 /\ c \in {3599, 59, 0}
  PROVE  Near(c, o)
<1>0. o \in Nat /\ o < 86400
  BY SMT DEF InDay
<1>1. CASE c = o \/ c = o + 1 \/ c = o + 60 \/ c = o + 3600
  <2>1. PICK k \in Nat : k = c - o /\ k <= 3600
    BY <1>0, <1>1, SMT
  <2>2. k % 86400 = k
    BY <2>1, SMT
  <2>3. (c - o) % 86400 = k
    BY <2>1, <2>2, SMT
  <2> QED BY <2>1, <2>3, SMT DEF Near
<1>2. CASE o = 86399 /\ c \in {3599, 59, 0}
  <2>1. PICK k \in Nat : k = c - o + 86400 /\ k <= 3600
    BY <1>0, <1>2, SMT
  <2>2. 86400 \in Nat /\ 86400 > 0 /\ k < 86400 /\ -1 \in Int /\ Parts(c - o, 86400, -1, k)
    BY <1>0, <2>1, SMT DEF Parts
  <2>3. (c - o) % 86400 = k
    BY <2>2, PartsAre, SMT
  <2> QED BY <2>1, <2>3, SMT DEF Near
<1> QED BY <1>1, <1>2, SMT

LEMMA Mixed ==
  ASSUME NEW h, NEW m, NEW s, Digits(s, m, h),
         NEW hh, NEW mm, NEW ss, Follows(h, m, s, hh, mm, ss),
         NEW o, o = Clocked(s, m, h)
  PROVE  /\ Near(Clocked(s, m, h), o)
         /\ Near(Clocked(s, m, hh), o)
         /\ Near(Clocked(s, mm, hh), o)
         /\ Near(Clocked(ss, mm, hh), o)
<1>0. s \in Nat /\ s < 60 /\ m \in Nat /\ m < 60 /\ h \in Nat /\ h < 24
  BY DEF Digits
<1>a. o = h * 3600 + m * 60 + s
  BY SMT DEF Clocked
<1>b. InDay(o) /\ o \in Nat
  BY <1>0, <1>a, SMT DEF InDay
<1>n. \A c \in Nat : c = o \/ c = o + 1 \/ c = o + 60 \/ c = o + 3600 => Near(c, o)
  BY <1>b, NearIs, SMT
<1>1. CASE s < 59 /\ ss = s + 1 /\ mm = m /\ hh = h
  <2>1. Clocked(ss, mm, hh) = o + 1
    BY <1>0, <1>a, <1>1, SMT DEF Clocked
  <2>2. Near(o, o) /\ Near(o + 1, o)
    BY <1>b, <1>n, SMT
  <2> QED BY <1>1, <2>1, <2>2, Zenon
<1>2. CASE s = 59 /\ m < 59 /\ ss = 0 /\ mm = m + 1 /\ hh = h
  <2>1. Clocked(s, mm, hh) = o + 60 /\ Clocked(ss, mm, hh) = o + 1
    BY <1>0, <1>a, <1>2, SMT DEF Clocked
  <2>2. Near(o, o) /\ Near(o + 1, o) /\ Near(o + 60, o)
    BY <1>b, <1>n, SMT
  <2> QED BY <1>2, <2>1, <2>2, Zenon
<1>3. CASE s = 59 /\ m = 59 /\ h < 23 /\ ss = 0 /\ mm = 0 /\ hh = h + 1
  <2>1. /\ Clocked(s, m, hh) = o + 3600 /\ Clocked(s, mm, hh) = o + 60
        /\ Clocked(ss, mm, hh) = o + 1
    BY <1>0, <1>a, <1>3, SMT DEF Clocked
  <2>2. Near(o, o) /\ Near(o + 1, o) /\ Near(o + 60, o) /\ Near(o + 3600, o)
    BY <1>b, <1>n, SMT
  <2> QED BY <2>1, <2>2, SMT
<1>4. CASE s = 59 /\ m = 59 /\ h = 23 /\ ss = 0 /\ mm = 0 /\ hh = 0
  <2>1. /\ Clocked(s, m, hh) = 3599 /\ Clocked(s, mm, hh) = 59 /\ Clocked(ss, mm, hh) = 0
        /\ o = 86399
    BY <1>0, <1>a, <1>4, SMT DEF Clocked
  <2>2. Near(o, o)
    BY <1>b, <1>n, SMT
  <2>3. \A c \in Nat : c \in {3599, 59, 0} => Near(c, o)
    BY <1>b, <2>1, NearIs, SMT
  <2> QED BY <2>1, <2>2, <2>3, SMT
<1> QED BY <1>1, <1>2, <1>3, <1>4, Zenon DEF Follows

LEMMA Between ==
  ASSUME NEW o, InDay(o), NEW n, n = Ticked(o),
         NEW s \in {o, n}, NEW m \in {o, n}, NEW h \in {o, n}, s = o \/ m = n, m = o \/ h = n
  PROVE  Near(Clocked(Second(s), Minute(m), Hour(h)), o)
<1>0. \A a, b, c, x : Digits(c, b, a) /\ x = Clocked(c, b, a) =>
                         Hour(x) = a /\ Minute(x) = b /\ Second(x) = c
  BY ClockedParts, Zenon
<1>1. PICK c, b, a : Digits(c, b, a) /\ o = Clocked(c, b, a)
  BY HasDigits, Zenon
<1>2. PICK aa, bb, cc :
        Follows(a, b, c, aa, bb, cc) /\ Digits(cc, bb, aa) /\ n = Clocked(cc, bb, aa)
  <2>1. \E aa, bb, cc :
          Follows(a, b, c, aa, bb, cc) /\ Digits(cc, bb, aa) /\ Ticked(o) = Clocked(cc, bb, aa)
    BY <1>1, NextDigits, SMT
  <2> QED BY <2>1, Zenon
<1>3. /\ Hour(o) = a /\ Minute(o) = b /\ Second(o) = c
      /\ Hour(n) = aa /\ Minute(n) = bb /\ Second(n) = cc
  BY <1>0, <1>1, <1>2, Zenon
<1>4. /\ Near(Clocked(c, b, a), o) /\ Near(Clocked(c, b, aa), o)
      /\ Near(Clocked(c, bb, aa), o) /\ Near(Clocked(cc, bb, aa), o)
  BY <1>1, <1>2, Mixed, Zenon
<1>5. \/ s = o /\ m = o /\ h = o
      \/ s = o /\ m = o /\ h = n
      \/ s = o /\ m = n /\ h = n
      \/ s = n /\ m = n /\ h = n
  BY Zenon
<1> QED BY <1>3, <1>4, <1>5, Zenon

(* A day of the chip in mktime's units. *)
LEMMA UnitsAre ==
  ASSUME SECS = 60, MINS = 60
  PROVE  HOUR = 3600 /\ DAY = 86400
  BY SMT DEF HOUR, DAY

LEMMA DayHas == ASSUME NEW s \in Nat, NEW d, d = 86400, s < d PROVE InDay(s)
  BY SMT DEF InDay

LEMMA DayIs ==
  ASSUME SECS = 60, MINS = 60, NEW s \in Nat, s < DAY
  PROVE  InDay(s)
<1>1. PICK d : d = DAY
  OBVIOUS
<1>2. d = 86400
  BY <1>1, UnitsAre, SMT
<1>3. s < d
  BY <1>1
<1> QED BY <1>2, <1>3, DayHas, SMT

LEMMA UnitNames ==
  ASSUME SECS = 60, MINS = 60
  PROVE  /\ \A s \in 0..(DAY - 1) : InDay(s)
         /\ \A s : s % SECS = Second(s) /\ (s % HOUR) \div SECS = Minute(s) /\ HourOf(s) = Hour(s)
         /\ \A s : (s + 1) % DAY = Ticked(s)
         /\ \A s, m, h : h * HOUR + m * SECS + s = Clocked(s, m, h)
<1>1. HOUR = 3600 /\ DAY = 86400
  BY UnitsAre
<1>2. ASSUME NEW s \in 0..(DAY - 1) PROVE InDay(s)
  <2>1. s \in Nat /\ s < DAY
    <3>1. DAY \in Nat
      BY Units, Zenon
    <3> QED BY <3>1, SMT
  <2> QED BY <2>1, DayIs, Zenon
<1>3. ASSUME NEW s PROVE s % SECS = Second(s)
  BY SMT DEF Second
<1>4. ASSUME NEW s PROVE (s % HOUR) \div SECS = Minute(s)
  BY <1>1, SMT DEF Minute
<1>5. ASSUME NEW s PROVE HourOf(s) = Hour(s)
  BY <1>1, SMT DEF HourOf, Hour
<1>6. ASSUME NEW s PROVE (s + 1) % DAY = Ticked(s)
  BY <1>1, SMT DEF Ticked
<1>7. ASSUME NEW s, NEW m, NEW h PROVE h * HOUR + m * SECS + s = Clocked(s, m, h)
  BY <1>1, SMT DEF Clocked
<1> QED BY <1>2, <1>3, <1>4, <1>5, <1>6, <1>7, SMT

LEMMA DigitsOf ==
  ASSUME NEW o, InDay(o)
  PROVE  /\ o \in Nat /\ Digits(Second(o), Minute(o), Hour(o))
         /\ o = Clocked(Second(o), Minute(o), Hour(o))
<1>1. PICK s, m, h : Digits(s, m, h) /\ o = Clocked(s, m, h)
  BY HasDigits, Zenon
<1>2. Hour(o) = h /\ Minute(o) = m /\ Second(o) = s
  BY <1>1, ClockedParts, Zenon
<1>3. o \in Nat
  BY SMT DEF InDay
<1> QED BY <1>1, <1>2, <1>3, Zenon

LEMMA TickedIn == ASSUME NEW o, InDay(o) PROVE InDay(Ticked(o))
<1>1. o + 1 \in Nat
  BY SMT DEF InDay
<1>2. \A x \in Nat : x % 86400 \in Nat /\ x % 86400 < 86400
  BY SMT
<1> QED BY <1>1, <1>2, SMT DEF InDay, Ticked

(* What rtc_get_time answers. *)
LEMMA Answered ==
  ASSUME SECS = 60, MINS = 60, NEW s, NEW m, NEW h, InDay(s), InDay(m), InDay(h),
         TimeSoFar(s, m, h), Len(raw) = 3, rtc_get_time
  PROVE  Told(answer') = Clocked(Second(s), Minute(m), Hours(h))
<1>1. raw[1] = Encoded(Second(s)) /\ raw[2] = Encoded(Minute(m)) /\ raw[3] = HoursAt(h)
  <2>1. raw[1] = SecondsAt(s) /\ raw[2] = MinutesAt(m) /\ raw[3] = HoursAt(h)
    <3>1. Len(raw) >= 1 /\ Len(raw) >= 2 /\ Len(raw) >= 3
      BY SMT
    <3> QED BY <3>1, Zenon DEF TimeSoFar
  <2> QED BY <2>1, UnitNames, Zenon DEF SecondsAt, MinutesAt
<1>2. Second(s) \in 0..99 /\ Minute(m) \in 0..99
  BY DigitsOf, SMT DEF Digits
<1>3. reading = "time"
  BY DEF rtc_get_time
<1>4. Named("seconds") = Second(s) /\ Named("minutes") = Minute(m)
  BY <1>1, <1>2, <1>3, NamedIs, DecodedIs, Zenon
<1>5. (IF mode.twelve THEN OfTwelve(Named("hours")) ELSE Named("hours")) = Hours(h)
  <2>1. Named("hours") = Decoded(HoursAt(h))
    BY <1>1, <1>3, NamedIs, Zenon
  <2> QED BY <2>1, Zenon DEF Hours
<1>6. answer' = [seconds |-> Second(s), minutes |-> Minute(m), hours |-> Hours(h)]
  BY <1>4, <1>5, Zenon DEF rtc_get_time, Return
<1>7. answer'.seconds = Second(s) /\ answer'.minutes = Minute(m) /\ answer'.hours = Hours(h)
  BY <1>6, SMT
<1>8. Told(answer') = Hours(h) * HOUR + Minute(m) * SECS + Second(s)
  BY <1>7, Zenon DEF Told
<1> QED BY <1>8, UnitNames, Zenon

TimeTold ==
  reading = "time" /\ reading' = "none"
    /\ Sound(HourOf(began.second)) /\ Sound(HourOf(second)) =>
      (Told(answer') - began.second) % DAY \in 0..(IF ticked THEN HOUR ELSE 0)

LEMMA TimeStep ==
  ASSUME SECS = 60, MINS = 60, ClockInv, TimeInv, [ClockNext]_clockVars
  PROVE  TimeTold
<1> SUFFICES ASSUME reading = "time", reading' = "none",
                    Sound(HourOf(began.second)), Sound(HourOf(second))
    PROVE  (Told(answer') - began.second) % DAY \in 0..(IF ticked THEN HOUR ELSE 0)
  BY Zenon DEF TimeTold
<1>0. ChipInv /\ CallInv
  BY DEF ClockInv
<1>1. rtc_get_time
  <2>1. reading' # reading
    OBVIOUS
  <2>2. ~Tick /\ ~rtc_read_register
    BY <2>1 DEF Tick, rtc_read_register
  <2>3. ~Call("time") /\ ~Call("date")
    BY DEF Call
  <2>4. ~rtc_get_date
    BY DEF rtc_get_date
  <2>5. ~UNCHANGED clockVars
    BY <2>1 DEF clockVars, call
  <2> QED BY <2>2, <2>3, <2>4, <2>5 DEF ClockNext
<1>2. Len(raw) = 3
  <2>1. Order = TimeOrder /\ Len(TimeOrder) = 3
    BY OrderIs
  <2> QED BY <1>1, <2>1, Zenon DEF rtc_get_time
<1>3. PICK o : o = began.second
  OBVIOUS
<1>4. PICK n : n = second
  OBVIOUS
<1>5. /\ InDay(o) /\ ticked \in BOOLEAN
      /\ ticked = FALSE => n = o
      /\ ticked = TRUE => n = Ticked(o)
  <2>1. /\ o \in 0..(DAY - 1) /\ ticked \in BOOLEAN
        /\ ticked = FALSE => n = o
        /\ ticked = TRUE => n = (o + 1) % DAY
    BY <1>0, <1>3, <1>4, Zenon DEF TimeInv, CallInv
  <2> QED BY <2>1, UnitNames, Zenon
<1>6. PICK s, m, h : TimeSoFar(s, m, h)
  BY Zenon DEF TimeInv
<1>7. s \in {o, n} /\ m \in {o, n} /\ h \in {o, n} /\ (s = o \/ m = n) /\ (m = o \/ h = n)
  BY <1>3, <1>4, <1>6, Zenon DEF TimeSoFar
<1>8. InDay(n)
  BY <1>5, TickedIn, Zenon
<1>9. InDay(s) /\ InDay(m) /\ InDay(h)
  BY <1>5, <1>7, <1>8, Zenon
<1>10. Told(answer') = Clocked(Second(s), Minute(m), Hours(h))
  BY <1>1, <1>2, <1>6, <1>9, Answered, Zenon
<1>11. HourOf(h) = Hour(h) /\ HourOf(o) = Hour(o) /\ HourOf(h) \in 0..23
  <2>1. HourOf(h) = Hour(h) /\ HourOf(o) = Hour(o)
    BY UnitNames, Zenon
  <2>2. Digits(Second(h), Minute(h), Hour(h))
    BY <1>9, DigitsOf, Zenon
  <2>3. Hour(h) \in 0..23
    BY <2>2, SMT DEF Digits
  <2> QED BY <2>1, <2>3, Zenon
<1>12. mode \in [bcd : BOOLEAN, twelve : BOOLEAN]
  BY <1>0 DEF ChipInv
<1>13. Hours(h) = Hour(h)
  <2>1. Sound(HourOf(h))
    BY <1>3, <1>4, <1>7, Zenon
  <2>2. /\ ~mode.twelve => Hours(h) = HourOf(h)
        /\ mode.twelve =>
             (Hours(h) = HourOf(h) <=> HourOf(h) < 12 \/ (~mode.bcd /\ HourOf(h) # 12))
    BY <1>11, <1>12, HoursIs, Zenon
  <2>3. Hours(h) = HourOf(h)
    BY <2>1, <2>2, Zenon DEF Sound
  <2> QED BY <1>11, <2>3, Zenon
<1>14. (Told(answer') - o) % DAY \in 0..(IF ticked THEN HOUR ELSE 0)
  <2>2. Told(answer') = Clocked(Second(s), Minute(m), Hour(h))
    BY <1>10, <1>13, Zenon
  <2>3. CASE ticked = FALSE
    <3>1. s = o /\ m = o /\ h = o
      BY <1>5, <1>7, <2>3, Zenon
    <3>2. Told(answer') = o /\ o \in Nat
      BY <1>5, <2>2, <3>1, DigitsOf, Zenon
    <3>3. (o - o) % DAY = 0
      <4>1. DAY \in Nat /\ DAY > 0
        BY Units, Zenon
      <4>2. \A d \in Nat : d > 0 => 0 % d = 0
        BY SMT
      <4>3. o - o = 0
        BY <3>2, SMT
      <4> QED BY <4>1, <4>2, <4>3, Zenon
    <3>4. (Told(answer') - o) % DAY = 0
      BY <3>2, <3>3, Zenon
    <3> QED BY <2>3, <3>4, SMT
  <2>4. CASE ticked = TRUE
    <3>1. Near(Clocked(Second(s), Minute(m), Hour(h)), o)
      BY <1>5, <1>7, <2>4, Between, Zenon
    <3>2. PICK x : x = Told(answer') - o
      OBVIOUS
    <3>3. Near(Told(answer'), o)
      BY <2>2, <3>1, Zenon
    <3>4. x % DAY \in Nat /\ x % DAY <= HOUR
      BY <3>2, <3>3, UnitsAre, SMT DEF Near
    <3>5. x % DAY \in 0..HOUR
      <4>1. \A a, b \in Nat : a <= b => a \in 0..b
        BY SMT
      <4>2. HOUR \in Nat
        BY Units, Zenon
      <4> QED BY <3>4, <4>1, <4>2, Zenon
    <3> QED BY <2>4, <3>2, <3>5, Zenon
  <2> QED BY <1>5, <2>3, <2>4, Zenon
<1> QED BY <1>3, <1>14, Zenon

LEMMA TimeStarts == ClockInit => TimeInv /\ DateInv
  BY DEF ClockInit, TimeInv, DateInv

(* With minutes of 60 seconds and hours of 60 minutes: a time that is read  *)
(* while the chip ticks is never behind the moment the call began, nor      *)
(* ahead of it by more than an hour, a 12-hour clock's in its sound hours.  *)
THEOREM TimeNeverBehind ==
  ASSUME SECS = 60, MINS = 60
  PROVE  ClockSpec => TimeRead
<1>1. ClockInv /\ TimeInv /\ [ClockNext]_clockVars => [TimeTold]_clockVars
  BY TimeStep
<1>2. ClockSpec => [][TimeTold]_clockVars
  BY <1>1, ClockStarts, ClockInductive, TimeStarts, TimeKept, PTL DEF ClockSpec
<1> QED BY <1>2, Zenon DEF TimeRead, TimeTold

(* The parts of a date that are read, y before m before d, at b or at e.    *)
InTurn(b, e, y, m, d) ==
  {y, m, d} \subseteq {b, e} /\ (y = b \/ m = e) /\ (m = b \/ d = e)

LEMMA Turns ==
  ASSUME NEW b, NEW e, NEW y, NEW m, NEW d, InTurn(b, e, y, m, d)
  PROVE  \/ y = b /\ m = b /\ d = b
         \/ y = b /\ m = b /\ d = e
         \/ y = b /\ m = e /\ d = e
         \/ y = e /\ m = e /\ d = e
  BY Zenon DEF InTurn

NumberOf(y, m, d) == (y * 12 + m) * 31 + d
LEMMA NextNumber ==
  ASSUME NEW y \in Nat, NEW m \in 1..12, NEW d \in 1..31
  PROVE  /\ NumberOf(y, m, d) < NumberOf(y, m, d + 1)
         /\ NumberOf(y, m, 1) <= NumberOf(y, m + 1, 1) /\ NumberOf(y, m, d) <= NumberOf(y, m + 1, 1)
         /\ NumberOf(y, m, 1) <= NumberOf(y + 1, 1, 1) /\ NumberOf(y, m, d) <= NumberOf(y + 1, 1, 1)
         /\ NumberOf(y, 1, 1) <= NumberOf(y + 1, 1, 1)
  BY SMT DEF NumberOf

LEMMA NumbersIn ==
  ASSUME NEW y \in Nat, NEW m \in Nat, NEW d \in Nat
  PROVE  NumberOf(y, m, d) \in Nat
  BY SMT DEF NumberOf

LEMMA DatesIn ==
  ASSUME NEW b, Valid(b)
  PROVE  /\ b.year \in Nat /\ b.month \in 1..12 /\ b.day \in 1..31
         /\ NumberOf(b.year, b.month, b.day) \in Nat
<1>1. b.year \in Nat /\ b.month \in 1..12 /\ b.day \in 1..31
  BY DEF Valid, Dates
<1>2. b.month \in Nat /\ b.day \in Nat
  BY <1>1, SMT
<1> QED BY <1>1, <1>2, NumbersIn, Zenon

LEMMA TomorrowIs ==
  ASSUME NEW b, Valid(b), NEW e, e = Tomorrow(b)
  PROVE  \/ e.year = b.year /\ e.month = b.month /\ e.day = b.day + 1
         \/ e.year = b.year /\ e.month = b.month + 1 /\ e.day = 1
         \/ e.year = b.year + 1 /\ e.month = 1 /\ e.day = 1
<1>1. b = [year |-> b.year, month |-> b.month, day |-> b.day]
  BY DEF Valid, Dates
<1>2. CASE b.day < LastDay(b)
  <2>1. e = [b EXCEPT !.day = b.day + 1]
    BY <1>2 DEF Tomorrow
  <2> QED BY <1>1, <2>1
<1>3. CASE ~(b.day < LastDay(b)) /\ b.month < 12
  <2>1. e = [b EXCEPT !.day = 1, !.month = b.month + 1]
    BY <1>3 DEF Tomorrow
  <2> QED BY <1>1, <2>1
<1>4. CASE ~(b.day < LastDay(b)) /\ ~(b.month < 12)
  <2>1. e = [day |-> 1, month |-> 1, year |-> b.year + 1]
    BY <1>4 DEF Tomorrow
  <2> QED BY <2>1
<1> QED BY <1>2, <1>3, <1>4

(* What is told, y, m and d, is not after e, and not before b unless it is  *)
(* the first of a month of b's year.                                       *)
Told3(b, e, y, m, d) ==
  /\ NumberOf(y, m, d) <= NumberOf(e.year, e.month, e.day)
  /\ \/ NumberOf(y, m, d) >= NumberOf(b.year, b.month, b.day)
     \/ d = 1 /\ y = b.year

(* Over a midnight. *)
LEMMA NotAhead ==
  ASSUME NEW b, Valid(b), NEW e, e = Tomorrow(b), NEW y, NEW m, NEW d, InTurn(b, e, y, m, d)
  PROVE  Told3(b, e, y.year, m.month, d.day)
<1>1. b.year \in Nat /\ b.month \in 1..12 /\ b.day \in 1..31
  BY DatesIn
<1>2. Valid(e)
  BY DayAfterDay
<1>3. e.year \in Nat /\ e.month \in 1..12 /\ e.day \in 1..31
  BY <1>2, DatesIn
<1>4. NumberOf(b.year, b.month, b.day) \in Nat /\ NumberOf(e.year, e.month, e.day) \in Nat
  BY <1>2, DatesIn
<1>5. PICK by, bm, bd, ey, em, ed : /\ by = b.year /\ bm = b.month /\ bd = b.day
                                    /\ ey = e.year /\ em = e.month /\ ed = e.day
  OBVIOUS
<1>6. by \in Nat /\ bm \in 1..12 /\ bd \in 1..31 /\ ey \in Nat /\ em \in 1..12 /\ ed \in 1..31
  BY <1>1, <1>3, <1>5
<1>7. \/ ey = by /\ em = bm /\ ed = bd + 1
      \/ ey = by /\ em = bm + 1 /\ ed = 1
      \/ ey = by + 1 /\ em = 1 /\ ed = 1
  BY <1>5, TomorrowIs
<1>8. NumberOf(by, bm, bd) <= NumberOf(ey, em, ed)
  BY <1>6, <1>7, SMT DEF NumberOf
<1>9. /\ NumberOf(by, bm, ed) <= NumberOf(ey, em, ed)
      /\ NumberOf(by, bm, ed) >= NumberOf(by, bm, bd) \/ ed = 1
  BY <1>6, <1>7, SMT DEF NumberOf
<1>10. /\ NumberOf(by, em, ed) <= NumberOf(ey, em, ed)
       /\ NumberOf(by, em, ed) >= NumberOf(by, bm, bd) \/ ed = 1
  BY <1>6, <1>7, SMT DEF NumberOf
<1>11. NumberOf(by, bm, bd) >= NumberOf(by, bm, bd) /\ NumberOf(ey, em, ed) <= NumberOf(ey, em, ed)
       /\ NumberOf(ey, em, ed) >= NumberOf(by, bm, bd)
  BY <1>6, <1>7, SMT DEF NumberOf
<1>12. CASE y = b /\ m = b /\ d = b
  BY <1>5, <1>8, <1>11, <1>12, Zenon DEF Told3
<1>13. CASE y = b /\ m = b /\ d = e
  BY <1>5, <1>9, <1>13, Zenon DEF Told3
<1>14. CASE y = b /\ m = e /\ d = e
  BY <1>5, <1>10, <1>14, Zenon DEF Told3
<1>15. CASE y = e /\ m = e /\ d = e
  BY <1>5, <1>11, <1>15, Zenon DEF Told3
<1>16. \/ y = b /\ m = b /\ d = b
       \/ y = b /\ m = b /\ d = e
       \/ y = b /\ m = e /\ d = e
       \/ y = e /\ m = e /\ d = e
  BY Turns
<1> QED BY <1>12, <1>13, <1>14, <1>15, <1>16

(* What rtc_get_date answers. *)
LEMMA DateAnswered ==
  ASSUME NEW y, NEW m, NEW d, NEW w \in Int, Valid(y), Valid(m), Valid(d),
         DateSoFar(y, m, d, w), Len(raw) = 4, rtc_get_date
  PROVE  /\ answer'.year = y.year % 100 /\ answer'.month = m.month /\ answer'.day = d.day
         /\ answer'.weekday = WeekdayAt(w)
<1>1. /\ raw[1] = Encoded(y.year % 100) /\ raw[2] = Encoded(m.month)
      /\ raw[3] = Encoded(d.day) /\ raw[4] = Encoded(WeekdayAt(w))
  <2>1. Len(raw) >= 1 /\ Len(raw) >= 2 /\ Len(raw) >= 3 /\ Len(raw) >= 4
    BY SMT
  <2> QED BY <2>1, Zenon DEF DateSoFar
<1>2. y.year % 100 \in 0..99 /\ m.month \in 0..99 /\ d.day \in 0..99 /\ WeekdayAt(w) \in 0..99
  <2>1. y.year \in Nat /\ m.month \in 1..12 /\ d.day \in 1..31
    BY DatesIn
  <2>2. y.year % 100 \in 0..99 /\ m.month \in 0..99 /\ d.day \in 0..99
    BY <2>1, SMT
  <2>3. WeekdayAt(w) \in 0..99
    BY SMT DEF WeekdayAt
  <2> QED BY <2>2, <2>3
<1>3. reading = "date"
  BY DEF rtc_get_date
<1>4. /\ Named("year") = y.year % 100 /\ Named("month") = m.month
      /\ Named("day") = d.day /\ Named("weekday") = WeekdayAt(w)
  BY <1>1, <1>2, <1>3, NamedIs, DecodedIs, Zenon
<1>5. answer' = [r \in {"year", "month", "day", "weekday"} |-> Named(r)]
  BY Zenon DEF rtc_get_date, Return
<1>6. /\ answer'.year = Named("year") /\ answer'.month = Named("month")
      /\ answer'.day = Named("day") /\ answer'.weekday = Named("weekday")
  BY <1>5, SMT
<1> QED BY <1>4, <1>6, Zenon

DateTold ==
  reading = "date" /\ reading' = "none" =>
       \E y \in {began.date.year, date.year} :
         /\ answer'.year = y % 100
         /\ Number(y, answer') <= Number(date.year, date)
         /\ \/ Number(y, answer') >= Number(began.date.year, began.date)
            \/ ticked /\ answer'.day = 1 /\ y = began.date.year
         /\ answer'.weekday \in {((days + 4 - n) % 7) + 1 : n \in 0..(IF ticked THEN 1 ELSE 0)}

LEMMA DateStep ==
  ASSUME ClockInv, DateInv, [ClockNext]_clockVars
  PROVE  DateTold
<1> SUFFICES ASSUME reading = "date", reading' = "none"
    PROVE  \E y \in {began.date.year, date.year} :
             /\ answer'.year = y % 100
             /\ Number(y, answer') <= Number(date.year, date)
             /\ \/ Number(y, answer') >= Number(began.date.year, began.date)
                \/ ticked /\ answer'.day = 1 /\ y = began.date.year
             /\ answer'.weekday \in {((days + 4 - n) % 7) + 1 : n \in 0..(IF ticked THEN 1 ELSE 0)}
  BY Zenon DEF DateTold
<1>0. ChipInv /\ CallInv
  BY DEF ClockInv
<1>1. rtc_get_date
  <2>1. reading' # reading
    OBVIOUS
  <2>2. ~Tick /\ ~rtc_read_register
    BY <2>1 DEF Tick, rtc_read_register
  <2>3. ~Call("time") /\ ~Call("date")
    BY DEF Call
  <2>4. ~rtc_get_time
    BY DEF rtc_get_time
  <2>5. ~UNCHANGED clockVars
    BY <2>1 DEF clockVars, call
  <2> QED BY <2>2, <2>3, <2>4, <2>5 DEF ClockNext
<1>2. Len(raw) = 4
  <2>1. Order = DateOrder /\ Len(DateOrder) = 4
    BY OrderIs
  <2> QED BY <1>1, <2>1, Zenon DEF rtc_get_date
<1>3. PICK b : b = began.date
  OBVIOUS
<1>4. /\ Valid(b) /\ ticked \in BOOLEAN /\ days \in Int
      /\ date = b \/ (ticked = TRUE /\ date = Tomorrow(b))
  BY <1>0, <1>3 DEF DateInv, ChipInv, CallInv
<1>5. PICK y, m, d, w : DateSoFar(y, m, d, w)
  BY Zenon DEF DateInv
<1>6. InTurn(b, date, y, m, d) /\ (w = days \/ (ticked = TRUE /\ w = days - 1))
  BY <1>3, <1>5, Zenon DEF DateSoFar, InTurn
<1>7. Valid(y) /\ Valid(m) /\ Valid(d) /\ w \in Int
  <2>1. Valid(date)
    BY <1>0 DEF ChipInv
  <2>2. Valid(y) /\ Valid(m) /\ Valid(d)
    BY <1>4, <1>6, <2>1, Zenon DEF InTurn
  <2>3. w \in Int
    BY <1>4, <1>6
  <2> QED BY <2>2, <2>3
<1>8. /\ answer'.year = y.year % 100 /\ answer'.month = m.month /\ answer'.day = d.day
      /\ answer'.weekday = WeekdayAt(w)
  BY <1>1, <1>2, <1>5, <1>7, DateAnswered, Zenon
<1>9. y.year \in {began.date.year, date.year}
  BY <1>3, <1>6, Zenon DEF InTurn
<1>10. /\ Number(y.year, answer') = NumberOf(y.year, m.month, d.day)
       /\ Number(date.year, date) = NumberOf(date.year, date.month, date.day)
       /\ Number(began.date.year, began.date) = NumberOf(b.year, b.month, b.day)
  BY <1>3, <1>8, Zenon DEF Number, NumberOf
<1>11. /\ NumberOf(y.year, m.month, d.day) <= NumberOf(date.year, date.month, date.day)
       /\ \/ NumberOf(y.year, m.month, d.day) >= NumberOf(b.year, b.month, b.day)
          \/ ticked /\ d.day = 1 /\ y.year = b.year
  <2>1. CASE date = b
    <3>1. y = b /\ m = b /\ d = b
      BY <1>6, <2>1, Zenon DEF InTurn
    <3>2. \A n \in Nat : n <= n /\ n >= n
      BY SMT
    <3>3. NumberOf(b.year, b.month, b.day) \in Nat
      BY <1>4, DatesIn
    <3> QED BY <2>1, <3>1, <3>2, <3>3, Zenon
  <2>2. CASE ticked = TRUE /\ date = Tomorrow(b)
    <3>1. Told3(b, date, y.year, m.month, d.day)
      BY <1>4, <1>6, <2>2, NotAhead, Zenon
    <3> QED BY <2>2, <3>1, Zenon DEF Told3
  <2> QED BY <1>4, <2>1, <2>2, Zenon
<1>12. answer'.weekday \in {((days + 4 - n) % 7) + 1 : n \in 0..(IF ticked THEN 1 ELSE 0)}
  <2>1. CASE w = days
    <3>1. WeekdayAt(w) = ((days + 4 - 0) % 7) + 1
      BY <1>4, <2>1, SMT DEF WeekdayAt
    <3>2. 0 \in 0..(IF ticked THEN 1 ELSE 0)
      BY <1>4, SMT
    <3> QED BY <1>8, <3>1, <3>2, Zenon
  <2>2. CASE ticked = TRUE /\ w = days - 1
    <3>1. WeekdayAt(w) = ((days + 4 - 1) % 7) + 1
      <4>1. w + 4 = days + 4 - 1
        BY <1>4, <2>2, SMT
      <4> QED BY <4>1 DEF WeekdayAt
    <3>2. 1 \in 0..(IF ticked THEN 1 ELSE 0)
      BY <2>2, SMT
    <3> QED BY <1>8, <3>1, <3>2, Zenon
  <2> QED BY <1>6, <2>1, <2>2, Zenon
<1>13. /\ answer'.year = y.year % 100
       /\ Number(y.year, answer') <= Number(date.year, date)
       /\ \/ Number(y.year, answer') >= Number(began.date.year, began.date)
          \/ ticked /\ answer'.day = 1 /\ y.year = began.date.year
  BY <1>3, <1>8, <1>10, <1>11, Zenon
<1> QED BY <1>9, <1>12, <1>13, Zenon

(* A date that is read over midnight is never a day to come: it lies        *)
(* between the dates of the call, or is the first of the month or of the    *)
(* year that has just ended.                                               *)
THEOREM DateNeverAhead == ClockSpec => DateRead
<1>1. ClockInv /\ DateInv /\ [ClockNext]_clockVars => [DateTold]_clockVars
  BY DateStep
<1>2. ClockSpec => [][DateTold]_clockVars
  BY <1>1, ClockStarts, ClockInductive, TimeStarts, DateKept, PTL DEF ClockSpec
<1> QED BY <1>2, Zenon DEF DateRead, DateTold
-----------------------------------------------------------------------------
(***************************************************************************)
(* The start-up.                                                            *)
(***************************************************************************)
(* Where traps_init stands in c_main. *)
CLI == 6
REMAP == 7
VECTORS == 9
OPEN == 14
STI == 15

Placed ==
  /\ next \in 0..Len(Steps)
  /\ next <= REMAP => base = BIOS_VECTOR
  /\ base \in {BIOS_VECTOR, PIC_REMAP_OFFSET}
  /\ next > CLI /\ next <= STI => ~flag
  /\ next > VECTORS => vectors = {0, 1}
  /\ next > OPEN => mask = Lines \ (0..4)

Handled ==
  /\ handler # None => next > STI /\ in_service = {handler} /\ handler \in Lines
  /\ handler = None => in_service = {}
  /\ panicked => ~flag /\ handler = None
  /\ flag \in BOOLEAN

StartupInv == Placed /\ Handled
-----------------------------------------------------------------------------
LEMMA StepAt ==
  ASSUME Placed, Running
  PROVE  /\ next \in 0..25 /\ Len(Steps) = 26
         /\ Step = "cli" => next = CLI
         /\ Step = "remap" => next = REMAP
         /\ Step = "vectors" => next = VECTORS
         /\ Step = "sti" => next = STI \/ next > STI
         /\ Step \in {"mask", "line_0", "line_1", "line_3", "line_4"} =>
              next > REMAP /\ next # VECTORS /\ next < OPEN
         /\ Step = "open" => next = OPEN
         /\ Step \notin Effects => next < CLI \/ next > STI
         /\ Step = "uart" => next = 1
         /\ Step = "fs" => next > STI
<1>1. Len(Steps) = 26
  BY DEF Steps
<1>2. next \in 0..25
  BY <1>1 DEF Placed, Running
<1>3. /\ Steps[1] = "console" /\ Steps[2] = "uart" /\ Steps[3] = "serial" /\ Steps[4] = "speaker"
      /\ Steps[5] = "lpt" /\ Steps[6] = "rtc" /\ Steps[7] = "cli" /\ Steps[8] = "remap"
      /\ Steps[9] = "mask" /\ Steps[10] = "vectors" /\ Steps[11] = "line_0"
      /\ Steps[12] = "line_1" /\ Steps[13] = "line_3" /\ Steps[14] = "line_4"
      /\ Steps[15] = "open" /\ Steps[16] = "sti" /\ Steps[17] = "mm" /\ Steps[18] = "tty_io"
      /\ Steps[19] = "hd" /\ Steps[20] = "fdc" /\ Steps[21] = "fs" /\ Steps[22] = "pkg"
      /\ Steps[23] = "sti" /\ Steps[24] = "sched" /\ Steps[25] = "shell" /\ Steps[26] = "start"
  BY DEF Steps
<1>4. \/ next < CLI /\ Step \in {"console", "uart", "serial", "speaker", "lpt", "rtc"}
                    /\ (Step = "uart" => next = 1)
      \/ next = CLI /\ Step = "cli"
      \/ next = REMAP /\ Step = "remap"
      \/ next = REMAP + 1 /\ Step = "mask"
      \/ next = VECTORS /\ Step = "vectors"
      \/ next > VECTORS /\ next < OPEN /\ Step \in {"line_0", "line_1", "line_3", "line_4"}
      \/ next = OPEN /\ Step = "open"
      \/ next = STI /\ Step = "sti"
      \/ next > STI /\ Step \in {"mm", "tty_io", "hd", "fdc", "fs", "pkg", "sti", "sched",
                                 "shell", "start"}
  <2>1. CASE next \in {0, 1, 2, 3, 4, 5}
    BY <1>3, <2>1 DEF Step, CLI
  <2>2. CASE next \in {6, 7, 8, 9, 14, 15}
    BY <1>3, <2>2 DEF Step, CLI, REMAP, VECTORS, OPEN, STI
  <2>3. CASE next \in {10, 11, 12, 13}
    BY <1>3, <2>3 DEF Step, VECTORS, OPEN
  <2>4. CASE next \in {16, 17, 18, 19, 20, 21, 22, 23, 24, 25}
    BY <1>3, <2>4 DEF Step, STI
  <2> QED BY <1>2, <2>1, <2>2, <2>3, <2>4
<1> QED
  BY <1>1, <1>2, <1>4 DEF Effects, CLI, REMAP, VECTORS, OPEN, STI
-----------------------------------------------------------------------------
LEMMA InitPlaced == StartupInit => StartupInv
  BY DEF StartupInit, StartupInv, Placed, Handled, Steps, None, BIOS_VECTOR, REMAP, CLI,
         VECTORS, OPEN

(* A step of c_main moves on and does not touch a handler. *)
LEMMA CMainSteps ==
  ASSUME StartupInv,
         Initialise \/ panic \/ SetFlag \/ Remap \/ WriteMask \/ WriteVectors
  PROVE  StartupInv'
<1>1. /\ next \in 0..25 /\ Len(Steps) = 26 /\ handler = None /\ ~panicked /\ Running
  BY StepAt DEF StartupInv, Initialise, panic, SetFlag, Remap, WriteMask, WriteVectors, Running
<1>2. CASE Initialise
  <2>1. next < CLI \/ next > STI
    BY <1>1, <1>2, StepAt DEF StartupInv, Initialise
  <2>2. next' = next + 1 \/ (next = 1 /\ next' = 3)
    BY <1>1, <1>2, StepAt DEF StartupInv, Initialise
  <2>3. Placed'
    BY <1>1, <1>2, <2>1, <2>2
    DEF StartupInv, Placed, Initialise, pic, CLI, REMAP, VECTORS, OPEN, STI
  <2> QED BY <1>1, <1>2, <2>3 DEF StartupInv, Handled, Initialise, pic
<1>3. CASE panic
  BY <1>1, <1>3 DEF StartupInv, Placed, Handled, panic, pic, None
<1>4. CASE SetFlag
  <2>1. next' = next + 1 /\ UNCHANGED <<base, mask, vectors, in_service, handler, panicked>>
    BY <1>4 DEF SetFlag, pic
  <2>2. \/ next = CLI /\ flag' = FALSE
        \/ next = STI \/ next > STI
    BY <1>1, <1>4, StepAt DEF StartupInv, SetFlag
  <2>3. flag' \in BOOLEAN
    BY <1>4 DEF SetFlag
  <2>4. Placed'
    BY <1>1, <2>1, <2>2 DEF StartupInv, Placed, CLI, REMAP, VECTORS, OPEN, STI
  <2> QED BY <1>1, <2>1, <2>3, <2>4 DEF StartupInv, Handled, CLI, STI
<1>5. CASE Remap
  <2>1. next = REMAP
    BY <1>1, <1>5, StepAt DEF StartupInv, Remap
  <2>2. Placed'
    BY <1>1, <1>5, <2>1 DEF StartupInv, Placed, Remap, CLI, REMAP, VECTORS, OPEN, STI
  <2> QED BY <1>1, <1>5, <2>2 DEF StartupInv, Handled, Remap
<1>6. CASE WriteMask
  <2>1. /\ next > REMAP /\ next # VECTORS /\ next <= OPEN
        /\ next = OPEN => Step = "open"
    BY <1>1, <1>6, StepAt DEF StartupInv, WriteMask, REMAP, VECTORS, OPEN
  <2>2. Step = "open" => mask' = Lines \ (0..4)
    BY <1>6 DEF WriteMask, Opened
  <2>3. next' = next + 1 /\ UNCHANGED <<flag, base, vectors>>
    BY <1>6 DEF WriteMask
  <2>4. next' > OPEN => mask' = Lines \ (0..4)
    BY <1>1, <2>1, <2>2, <2>3 DEF OPEN, REMAP
  <2>5. Placed'
    BY <1>1, <2>1, <2>3, <2>4 DEF StartupInv, Placed, CLI, REMAP, VECTORS, OPEN, STI
  <2> QED BY <1>1, <1>6, <2>5 DEF StartupInv, Handled, WriteMask
<1>7. CASE WriteVectors
  <2>1. next = VECTORS
    BY <1>1, <1>7, StepAt DEF StartupInv, WriteVectors
  <2>2. Placed'
    BY <1>1, <1>7, <2>1 DEF StartupInv, Placed, WriteVectors, pic, CLI, REMAP, VECTORS, OPEN, STI
  <2> QED BY <1>1, <1>7, <2>2 DEF StartupInv, Handled, WriteVectors, pic
<1> QED BY <1>2, <1>3, <1>4, <1>5, <1>6, <1>7

(* An interrupt through a kernel vector comes after traps_init. *)
LEMMA Interrupts ==
  ASSUME StartupInv, NEW l \in Raised, TakeInterrupt(l)
  PROVE  /\ StartupInv'
         /\ base = PIC_REMAP_OFFSET => vectors = {0, 1} /\ l \in 0..4
<1>1. l \in Lines /\ l # None
  BY StartupAssumption DEF Lines, None
<1>2. /\ flag /\ handler = None /\ l \notin mask
      /\ UNCHANGED <<next, panicked, base, mask, vectors>>
  BY DEF TakeInterrupt
<1>3. base = PIC_REMAP_OFFSET => next > STI
  BY <1>2 DEF StartupInv, Placed, BIOS_VECTOR, PIC_REMAP_OFFSET, CLI, REMAP, STI
<1>4. base = PIC_REMAP_OFFSET => vectors = {0, 1} /\ l \in 0..4
  BY <1>1, <1>2, <1>3 DEF StartupInv, Placed, VECTORS, OPEN, STI
<1>5. CASE base = BIOS_VECTOR
  BY <1>2, <1>4, <1>5 DEF StartupInv, Placed, Handled, TakeInterrupt
<1>6. CASE base = PIC_REMAP_OFFSET
  <2>1. flag' = FALSE /\ in_service' = {l} /\ handler' = l
    BY <1>2, <1>6 DEF StartupInv, Handled, TakeInterrupt, BIOS_VECTOR, PIC_REMAP_OFFSET
  <2> QED BY <1>1, <1>2, <1>3, <1>4, <1>6, <2>1 DEF StartupInv, Placed, Handled
<1> QED BY <1>4, <1>5, <1>6 DEF StartupInv, Placed

(* The handler acknowledges the one line in service, its own. *)
LEMMA HandlerEnds == StartupInv /\ c_interrupt_handler => StartupInv'
<1> SUFFICES ASSUME StartupInv, c_interrupt_handler PROVE StartupInv'
  OBVIOUS
<1>1. /\ handler # None /\ in_service = {handler} /\ handler \in Lines /\ next > STI
      /\ ~panicked
  BY DEF StartupInv, Handled, c_interrupt_handler
<1>2. in_service' = {}
  BY <1>1 DEF c_interrupt_handler, EndOfInterrupt, Lines
<1>3. Placed'
  BY <1>1 DEF StartupInv, Placed, c_interrupt_handler, STI
<1> QED BY <1>1, <1>2, <1>3 DEF StartupInv, Handled, c_interrupt_handler

LEMMA StartupInductive == StartupInv /\ [StartupNext]_startupVars => StartupInv'
<1> SUFFICES ASSUME StartupInv, [StartupNext]_startupVars PROVE StartupInv'
  OBVIOUS
<1>1. CASE Initialise \/ panic \/ SetFlag \/ Remap \/ WriteMask \/ WriteVectors
  BY <1>1, CMainSteps
<1>2. CASE c_interrupt_handler
  BY <1>2, HandlerEnds
<1>3. ASSUME NEW l \in Raised, Raise(l) PROVE StartupInv'
  BY <1>3 DEF StartupInv, Placed, Handled, Raise
<1>4. ASSUME NEW l \in Raised, TakeInterrupt(l) PROVE StartupInv'
  BY <1>4, Interrupts
<1>5. CASE UNCHANGED startupVars
  BY <1>5 DEF StartupInv, Placed, Handled, startupVars, pic
<1> QED BY <1>1, <1>2, <1>3, <1>4, <1>5 DEF StartupNext

(* However devices raise their lines while c_main runs, the PIC is free     *)
(* again when a handler has returned, and after a panic none runs.          *)
THEOREM StartupFree == StartupSpec => []LinesFree
<1>1. StartupInv => LinesFree
  BY DEF StartupInv, Handled, LinesFree
<1> QED BY <1>1, InitPlaced, StartupInductive, PTL DEF StartupSpec

(* If no device raises the lines 2 to 4, every interrupt the kernel takes   *)
(* has a stub, at every step of c_main.                                     *)
THEOREM StubThere ==
  ASSUME Raised \cap (2..4) = {}
  PROVE  StartupSpec => []KnownVector
<1> DEFINE Early == next <= STI => \A t \in taken : t[2] # PIC_REMAP_OFFSET
           Known == KnownVector /\ Early
<1>1. StartupInit => Known
  BY DEF StartupInit, KnownVector
<1>2. StartupInv /\ Known /\ [StartupNext]_startupVars => Known'
  <2> SUFFICES ASSUME StartupInv, Known, [StartupNext]_startupVars PROVE Known'
    OBVIOUS
  <2>1. ASSUME NEW l \in Raised, TakeInterrupt(l) PROVE Known'
    <3>1. taken' = taken \cup {<<l, base>>} /\ vectors' = vectors /\ next' = next
      BY <2>1 DEF TakeInterrupt
    <3>2. base = PIC_REMAP_OFFSET => vectors = {0, 1} /\ l \in 0..4
      BY <2>1, Interrupts
    <3>3. base = PIC_REMAP_OFFSET => l \in vectors
      BY <3>2
    <3>4. base = PIC_REMAP_OFFSET => next > STI
      BY <2>1 DEF StartupInv, Placed, TakeInterrupt, BIOS_VECTOR, PIC_REMAP_OFFSET, CLI, REMAP, STI
    <3> QED BY <3>1, <3>3, <3>4 DEF KnownVector, StartupInv, Placed, STI
  <2>2. CASE WriteVectors
    <3>1. next = VECTORS /\ taken' = taken
      BY <2>2, StepAt DEF StartupInv, WriteVectors
    <3>2. \A t \in taken : t[2] # PIC_REMAP_OFFSET
      BY <3>1 DEF VECTORS, STI
    <3> QED BY <3>1, <3>2 DEF KnownVector
  <2>3. ASSUME UNCHANGED <<taken, vectors>>, next' >= next PROVE Known'
    <3>1. next \in Nat /\ next' \in Nat
      BY <2>3, StartupInductive DEF StartupInv, Placed
    <3>2. next' <= STI => next <= STI
      BY <2>3, <3>1 DEF STI
    <3> QED BY <2>3, <3>2 DEF KnownVector
  <2>4. CASE UNCHANGED startupVars \/ c_interrupt_handler \/ \E l \in Raised : Raise(l)
    BY <2>3, <2>4 DEF startupVars, c_interrupt_handler, Raise, StartupInv, Placed
  <2>5. CASE Initialise \/ panic \/ SetFlag \/ Remap \/ WriteMask
    BY <2>3, <2>5 DEF Initialise, panic, SetFlag, Remap, WriteMask, StartupInv, Placed
  <2> QED BY <2>1, <2>2, <2>4, <2>5 DEF StartupNext
<1> QED BY <1>1, <1>2, InitPlaced, StartupInductive, PTL DEF StartupSpec

LEMMA StartupTypesInductive ==
  StartupInv /\ StartupTypeOK /\ [StartupNext]_startupVars => StartupTypeOK'
<1> SUFFICES ASSUME StartupInv, StartupTypeOK, [StartupNext]_startupVars PROVE StartupTypeOK'
  OBVIOUS
<1>1. next' \in 0..Len(Steps)'
  BY StartupInductive DEF StartupInv, Placed
<1>2. Len(Steps)' = Len(Steps)
  BY DEF Steps
<1>3. CASE Initialise
  BY <1>1, <1>2, <1>3 DEF StartupTypeOK, Initialise, pic
<1>4. CASE panic
  BY <1>1, <1>2, <1>4 DEF StartupTypeOK, panic, pic
<1>5. CASE SetFlag
  BY <1>1, <1>2, <1>5 DEF StartupTypeOK, SetFlag, pic
<1>6. CASE Remap
  BY <1>1, <1>2, <1>6 DEF StartupTypeOK, Remap
<1>7. CASE WriteMask
  BY <1>1, <1>2, <1>7 DEF StartupTypeOK, WriteMask
<1>8. CASE WriteVectors
  BY <1>1, <1>2, <1>8 DEF StartupTypeOK, WriteVectors, pic, Lines
<1>9. CASE c_interrupt_handler
  BY <1>1, <1>2, <1>9 DEF StartupTypeOK, c_interrupt_handler, EndOfInterrupt
<1>10. ASSUME NEW l \in Raised, Raise(l) PROVE StartupTypeOK'
  BY <1>1, <1>2, <1>10 DEF StartupTypeOK, Raise
<1>11. ASSUME NEW l \in Raised, TakeInterrupt(l) PROVE StartupTypeOK'
  <2>1. /\ requested' = requested \ {l} /\ taken' = taken \cup {<<l, base>>}
        /\ UNCHANGED <<next, panicked, base, mask, vectors>>
    BY <1>11 DEF TakeInterrupt
  <2>2. flag' \in BOOLEAN /\ in_service' \subseteq Raised /\ handler' \in Raised \cup {None}
    BY <1>11 DEF TakeInterrupt, StartupTypeOK
  <2> QED BY <1>1, <1>2, <2>1, <2>2 DEF StartupTypeOK
<1>12. CASE UNCHANGED startupVars
  BY <1>1, <1>2, <1>12 DEF StartupTypeOK, startupVars, pic
<1> QED
  BY <1>3, <1>4, <1>5, <1>6, <1>7, <1>8, <1>9, <1>10, <1>11, <1>12 DEF StartupNext

LEMMA StartupTypesAtStart == StartupInit => StartupTypeOK
<1> SUFFICES ASSUME StartupInit PROVE StartupTypeOK
  OBVIOUS
<1>1. next \in 0..Len(Steps)
  BY InitPlaced DEF StartupInv, Placed
<1> QED BY <1>1 DEF StartupInit, StartupTypeOK

(* The places and lines of start-up keep their ranges. *)
THEOREM StartupTypesHold == StartupSpec => []StartupTypeOK
  BY InitPlaced, StartupInductive, StartupTypesAtStart, StartupTypesInductive, PTL DEF StartupSpec
-----------------------------------------------------------------------------
(***************************************************************************)
(* The parts together.                                                     *)
(***************************************************************************)
KernelInv ==
  ConsoleInv /\ ShellTypes /\ PkgInstalls /\ ClockInv /\ StartupInv /\ StartupTypeOK

LEMMA PartSteps ==
  ASSUME [Next]_kernelVars
  PROVE  /\ [ConsoleNext]_consoleVars /\ [ShellNext]_shellVars /\ [PkgNext]_pkgVars
         /\ [ClockNext]_clockVars /\ [StartupNext]_startupVars
<1>1. CASE ConsolePart
  <2>1. ConsoleNext
    BY <1>1 DEF ConsolePart, ConsoleNext
  <2>2. UNCHANGED <<shellVars, pkgVars, clockVars, startupVars>>
    BY <1>1 DEF ConsolePart
  <2> QED BY <2>1, <2>2
<1>2. CASE ShellPart
  <2>1. ShellNext
    BY <1>2 DEF ShellPart, ShellNext
  <2>2. UNCHANGED <<consoleVars, pkgVars, clockVars, startupVars>>
    BY <1>2 DEF ShellPart
  <2> QED BY <2>1, <2>2
<1>3. CASE PkgPart
  <2>1. PkgNext
    BY <1>3 DEF PkgPart, PkgNext
  <2>2. UNCHANGED <<consoleVars, shellVars, clockVars, startupVars>>
    BY <1>3 DEF PkgPart
  <2> QED BY <2>1, <2>2
<1>4. CASE ClockPart
  <2>1. ClockNext
    BY <1>4 DEF ClockPart, ClockNext
  <2>2. UNCHANGED <<consoleVars, shellVars, pkgVars, startupVars>>
    BY <1>4 DEF ClockPart
  <2> QED BY <2>1, <2>2
<1>5. CASE StartupPart
  BY <1>5 DEF StartupPart
<1>6. CASE UNCHANGED kernelVars
  BY <1>6 DEF kernelVars
<1> QED BY <1>1, <1>2, <1>3, <1>4, <1>5, <1>6 DEF Next

LEMMA KernelStarts == Init => KernelInv
<1>1. Init => ConsoleInit /\ ShellInit /\ PkgInit /\ ClockInit /\ StartupInit
  BY DEF Init
<1> QED
  BY <1>1, ConsoleStarts, ShellTypesAtStart, PkgInstallsAtStart, ClockStarts, InitPlaced,
     StartupTypesAtStart DEF KernelInv

(* Whatever the sizes, packages, days and devices: every part keeps its     *)
(* types, widths and lengths.                                              *)
THEOREM KernelTypesHold == Spec => []TypeOK
<1>1. KernelInv /\ [Next]_kernelVars => KernelInv'
  BY PartSteps, ConsoleInductive, ShellTypesInductive, PkgInstallsInductive, ClockInductive,
     StartupInductive, StartupTypesInductive DEF KernelInv
<1>2. KernelInv => TypeOK
  BY ClockTyped DEF KernelInv, TypeOK, ConsoleInv, ShellTypes, PkgInstalls
<1> QED BY <1>1, <1>2, KernelStarts, PTL DEF Spec
=============================================================================
