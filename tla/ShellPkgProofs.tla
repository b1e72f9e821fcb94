--------------------------- MODULE ShellPkgProofs ---------------------------
(***************************************************************************)
(* Theorems about the callers of the file system, Shell and Pkg: what they  *)
(* open they close; the line a user types becomes the command that runs,    *)
(* and fits the buffers on its way, as the current directory does; and what *)
(* the database of packages says is true of the disk.                       *)
(***************************************************************************)
EXTENDS Shell, Pkg, SequenceTheorems, AscendingProofs, TLAPS
LOCAL INSTANCE SequencesExt

(***************************************************************************)
(* The shell.                                                              *)
(***************************************************************************)
(* What the two proofs need of parse_command. *)
LEMMA Parsed ==
  parse_command => /\ shell_at = "parse" /\ shell_at' = "run"
                   /\ UNCHANGED <<shell_current_dir, handles>>
  BY Zenon DEF parse_command

ShellHolds ==
  /\ shell_at \in {"check", "list", "close"} => handles = 1
  /\ shell_at \notin {"check", "list", "close"} => handles = 0

LEMMA ShellHoldsInductive == ShellHolds /\ [ShellNext]_shellVars => ShellHolds'
<1> SUFFICES ASSUME ShellHolds, [ShellNext]_shellVars PROVE ShellHolds'
  OBVIOUS
<1>1. CASE display_prompt
  BY <1>1 DEF ShellHolds, display_prompt
<1>2. CASE read_command
  BY <1>2 DEF ShellHolds, read_command
<1>3. CASE parse_command
  BY <1>3, Parsed DEF ShellHolds
<1>4. CASE execute_command
  BY <1>4 DEF ShellHolds, execute_command
<1>5. CASE Open
  BY <1>5 DEF ShellHolds, Open
<1>6. CASE Check
  BY <1>6 DEF ShellHolds, Check, Refused
<1>7. CASE List
  BY <1>7 DEF ShellHolds, List
<1>8. CASE Close
  BY <1>8 DEF ShellHolds, Close
<1>9. CASE \E c \in Keys : Type(c)
  BY <1>9 DEF ShellHolds, Type
<1>10. CASE UNCHANGED shellVars
  BY <1>10 DEF ShellHolds, shellVars
<1> QED
  BY <1>1, <1>2, <1>3, <1>4, <1>5, <1>6, <1>7, <1>8, <1>9, <1>10 DEF ShellNext

(* For every size of the buffers, set of commands and directory tree: every *)
(* path through ls, cd and cat gives its slot of the table of open files    *)
(* back, the failing ones too.                                              *)
THEOREM ShellReturnsHandles == ShellSpec => []HandlesReturned
<1>1. ShellInit => ShellHolds
  BY DEF ShellInit, ShellHolds
<1>2. ShellHolds => HandlesReturned
  BY DEF ShellHolds, HandlesReturned
<1> QED BY <1>1, <1>2, ShellHoldsInductive, PTL DEF ShellSpec
-----------------------------------------------------------------------------
(* The positions at which parse_command looks for the start or the end of a *)
(* word: the first one that is what is looked for, or the end of the line.  *)
LEMMA FirstFromIs ==
  ASSUME NEW l \in Seq(Keys), NEW p \in 1..(Len(l) + 1), NEW inside \in BOOLEAN
  PROVE  /\ FirstFrom(l, p, inside) \in p..(Len(l) + 1)
         /\ FirstFrom(l, p, inside) = Len(l) + 1 \/ InWord(l, FirstFrom(l, p, inside)) = inside
         /\ \A k \in p..(FirstFrom(l, p, inside) - 1) : InWord(l, k) # inside
<1> DEFINE T == {j \in p..(Len(l) + 1) : j = Len(l) + 1 \/ InWord(l, j) = inside}
           Is(j) == /\ j = Len(l) + 1 \/ InWord(l, j) = inside
                    /\ \A k \in p..(j - 1) : InWord(l, k) # inside
<1>1. Len(l) \in Nat /\ T \subseteq Nat /\ Len(l) + 1 \in T
  OBVIOUS
<1>2. PICK j \in T : \A k \in T : j <= k
  <2> HIDE DEF T
  <2> QED BY <1>1, LeastNumber
<1>3. j \in p..(Len(l) + 1) /\ Is(j)
  <2>1. j \in p..(Len(l) + 1) /\ (j = Len(l) + 1 \/ InWord(l, j) = inside)
    OBVIOUS
  <2>2. ASSUME NEW k \in p..(j - 1) PROVE InWord(l, k) # inside
    <3>1. k \in p..(Len(l) + 1) /\ ~(j <= k)
      BY <1>1, <2>1
    <3>2. k \notin T
      BY <1>2, <3>1
    <3> QED BY <3>1, <3>2
  <2> QED BY <2>1, <2>2
<1> HIDE DEF T
<1>4. FirstFrom(l, p, inside) = CHOOSE k \in p..(Len(l) + 1) : Is(k)
  BY DEF FirstFrom
<1> HIDE DEF Is
<1>5. FirstFrom(l, p, inside) \in p..(Len(l) + 1) /\ Is(FirstFrom(l, p, inside))
  BY <1>3, <1>4
<1> QED BY <1>5 DEF Is

LEMMA Later == \A b \in Nat : \A q \in 1..(b + 1) : \A r \in q..(b + 1) : r \in 1..(b + 1)
OBVIOUS

LEMMA Before == \A b \in Nat : \A r \in 1..(b + 1) : r # b + 1 => r \in 1..b
OBVIOUS

(* A function on positions and counts that is defined, as the arguments of  *)
(* a line are, from its values at the next count.                           *)
ArgsOf(f, at, L, M, word, next) ==
  IF at[1] > L \/ at[2] = M THEN << >>
  ELSE <<word[at[1]]>> \o f[<<next[at[1]], at[2] + 1>>]

AreArgs(f, L, M, word, next) ==
  f = [at \in (1..(L + 1)) \X (0..M) |-> ArgsOf(f, at, L, M, word, next)]

LEMMA ArgsExist ==
  ASSUME NEW L \in Nat, NEW M \in Nat, NEW word, NEW next \in [1..(L + 1) -> 1..(L + 1)]
  PROVE  \E f : AreArgs(f, L, M, word, next)
<1> DEFINE P == 1..(L + 1)
           D(m) == P \X ((M - m)..M)
           Good(m) == \E f : f = [at \in D(m) |-> ArgsOf(f, at, L, M, word, next)]
           S == {m \in Nat : m <= M => Good(m)}
<1>1. 0 \in S
  <2> DEFINE f == [at \in D(0) |-> << >>]
  <2>1. \A at \in D(0) : at[2] = M
    OBVIOUS
  <2>2. \A at \in D(0) : ArgsOf(f, at, L, M, word, next) = << >>
    BY <2>1 DEF ArgsOf
  <2>3. f = [at \in D(0) |-> ArgsOf(f, at, L, M, word, next)]
    <3> HIDE DEF D
    <3> QED BY <2>2
  <2> QED BY <2>3
<1>2. ASSUME NEW m \in Nat, m \in S PROVE m + 1 \in S
  <2> SUFFICES ASSUME m + 1 <= M PROVE Good(m + 1)
    <3> HIDE DEF Good
    <3> QED OBVIOUS
  <2>g. Good(m)
    <3> HIDE DEF Good
    <3>1. m <= M
      OBVIOUS
    <3> QED BY <1>2, <3>1
  <2>1. PICK f : f = [at \in D(m) |-> ArgsOf(f, at, L, M, word, next)]
    BY <2>g
  <2> DEFINE g == [at \in D(m + 1) |-> ArgsOf(f, at, L, M, word, next)]
  <2>2. D(m) \subseteq D(m + 1)
    OBVIOUS
  <2>3. \A at \in D(m) : g[at] = f[at]
    <3> HIDE DEF D
    <3> QED BY <2>1, <2>2
  <2>4. ASSUME NEW at \in D(m + 1)
        PROVE  ArgsOf(g, at, L, M, word, next) = ArgsOf(f, at, L, M, word, next)
    <3>1. CASE at[1] > L \/ at[2] = M
      BY <3>1, Zenon DEF ArgsOf
    <3>2. CASE ~(at[1] > L \/ at[2] = M)
      <4>1. at[1] \in P /\ at[2] \in (M - (m + 1))..M /\ at[2] # M
        BY <3>2
      <4>2. next[at[1]] \in P /\ at[2] + 1 \in (M - m)..M
        BY <4>1
      <4>3. <<next[at[1]], at[2] + 1>> \in D(m)
        BY <4>2
      <4> HIDE DEF D, g
      <4>4. g[<<next[at[1]], at[2] + 1>>] = f[<<next[at[1]], at[2] + 1>>]
        BY <2>3, <4>3
      <4> QED BY <3>2, <4>4, Zenon DEF ArgsOf
    <3> QED BY <3>1, <3>2
  <2>5. g = [at \in D(m + 1) |-> ArgsOf(g, at, L, M, word, next)]
    <3> HIDE DEF D
    <3> QED BY <2>4
  <2> QED BY <2>5
<1> HIDE DEF S
<1>3. M \in S
  BY <1>1, <1>2, Induction
<1>4. Good(M)
  <2> HIDE DEF Good
  <2> QED BY <1>3 DEF S
<1>5. D(M) = (1..(L + 1)) \X (0..M)
  OBVIOUS
<1> QED BY <1>4, <1>5, Zenon DEF AreArgs

(* The arguments from a position, the first one and the rest of them. *)
LEMMA ArgsUnfold ==
  ASSUME NEW l \in Seq(Keys), NEW p \in 1..(Len(l) + 1), NEW n \in 0..SHELL_MAX_ARGS
  PROVE  LET e == FirstFrom(l, p, FALSE)
         IN  /\ p > Len(l) \/ n = SHELL_MAX_ARGS => ArgsFrom(l)[<<p, n>>] = << >>
             /\ ~(p > Len(l) \/ n = SHELL_MAX_ARGS) =>
                  ArgsFrom(l)[<<p, n>>] =
                    <<SubSeq(l, p, e - 1)>> \o ArgsFrom(l)[<<NextWord(l, e), n + 1>>]
<1> DEFINE L == Len(l)
           D == (1..(L + 1)) \X (0..SHELL_MAX_ARGS)
           word == [q \in 1..(L + 1) |-> SubSeq(l, q, FirstFrom(l, q, FALSE) - 1)]
           next == [q \in 1..(L + 1) |-> NextWord(l, FirstFrom(l, q, FALSE))]
           Body(f, at) == ArgsOf(f, at, L, SHELL_MAX_ARGS, word, next)
<1>1. L \in Nat /\ SHELL_MAX_ARGS \in Nat
  BY ShellAssumption
<1>2. \A q \in 1..(L + 1) : NextWord(l, FirstFrom(l, q, FALSE)) \in 1..(L + 1)
  <2> SUFFICES ASSUME NEW q \in 1..(L + 1)
               PROVE  NextWord(l, FirstFrom(l, q, FALSE)) \in 1..(L + 1)
    OBVIOUS
  <2>1. FirstFrom(l, q, FALSE) \in q..(L + 1)
    BY FirstFromIs
  <2>2. PICK e \in 1..(L + 1) : e = FirstFrom(l, q, FALSE)
    BY <1>1, <2>1, Later
  <2>3. FirstFrom(l, e, TRUE) \in e..(L + 1)
    BY FirstFromIs
  <2>4. FirstFrom(l, e, TRUE) \in 1..(L + 1)
    BY <1>1, <2>3, Later
  <2> QED BY <2>2, <2>4 DEF NextWord
<1>3. next \in [1..(L + 1) -> 1..(L + 1)]
  BY <1>2
<1>4. PICK f : f = [at \in D |-> Body(f, at)]
  <2> HIDE DEF word, next, L
  <2>1. \E f : AreArgs(f, L, SHELL_MAX_ARGS, word, next)
    BY <1>1, <1>3, ArgsExist
  <2> QED BY <2>1, Zenon DEF AreArgs
<1> DEFINE Arg(g, at) ==
             IF at[1] > L \/ at[2] = SHELL_MAX_ARGS THEN << >>
             ELSE <<SubSeq(l, at[1], FirstFrom(l, at[1], FALSE) - 1)>>
                    \o g[<<NextWord(l, FirstFrom(l, at[1], FALSE)), at[2] + 1>>]
<1>5. ArgsFrom(l) = CHOOSE g : g = [at \in D |-> Arg(g, at)]
  BY Zenon DEF ArgsFrom
<1>6. \A g : \A at \in D : Body(g, at) = Arg(g, at)
  <2> SUFFICES ASSUME NEW g, NEW at \in D PROVE Body(g, at) = Arg(g, at)
    OBVIOUS
  <2>1. at[1] \in 1..(L + 1)
    OBVIOUS
  <2>2. /\ word[at[1]] = SubSeq(l, at[1], FirstFrom(l, at[1], FALSE) - 1)
        /\ next[at[1]] = NextWord(l, FirstFrom(l, at[1], FALSE))
    BY <2>1
  <2> HIDE DEF word, next
  <2> QED BY <2>2, Zenon DEF ArgsOf
<1>7. ArgsFrom(l) = [at \in D |-> Arg(ArgsFrom(l), at)]
  <2> HIDE DEF Body, Arg, D
  <2>1. f = [at \in D |-> Arg(f, at)]
    BY <1>4, <1>6
  <2> QED BY <1>5, <2>1
<1>8. <<p, n>> \in D /\ <<p, n>>[1] = p /\ <<p, n>>[2] = n
  OBVIOUS
<1>9. ArgsFrom(l)[<<p, n>>] = Arg(ArgsFrom(l), <<p, n>>)
  <2> HIDE DEF Arg, D
  <2> QED BY <1>7, <1>8
<1> QED BY <1>8, <1>9, Zenon

LEMMA WordEnd ==
  ASSUME NEW l \in Seq(Keys), NEW q \in 1..(Len(l) + 1)
  PROVE  \E e \in q..(Len(l) + 1) :
           e = FirstFrom(l, q, FALSE) /\ ~InWord(l, e) /\ \A k \in q..(e - 1) : InWord(l, k)
<1> DEFINE f == FirstFrom(l, q, FALSE)
<1>1. /\ f \in q..(Len(l) + 1) /\ (f = Len(l) + 1 \/ InWord(l, f) = FALSE)
      /\ \A k \in q..(f - 1) : InWord(l, k) # FALSE
  BY FirstFromIs
<1>2. Len(l) \in Nat
  OBVIOUS
<1> HIDE DEF f
<1>3. ~InWord(l, f)
  BY <1>1, <1>2 DEF InWord
<1>4. \A k \in q..(f - 1) : InWord(l, k)
  BY <1>1 DEF InWord
<1> QED BY <1>1, <1>3, <1>4 DEF f

LEMMA WordStart ==
  ASSUME NEW l \in Seq(Keys), NEW q \in 1..(Len(l) + 1)
  PROVE  \E r \in q..(Len(l) + 1) :
           /\ r = FirstFrom(l, q, TRUE) /\ (r = Len(l) + 1 \/ InWord(l, r))
           /\ \A k \in q..(r - 1) : ~InWord(l, k)
<1> DEFINE f == FirstFrom(l, q, TRUE)
<1>1. /\ f \in q..(Len(l) + 1) /\ (f = Len(l) + 1 \/ InWord(l, f) = TRUE)
      /\ \A k \in q..(f - 1) : InWord(l, k) # TRUE
  BY FirstFromIs
<1> HIDE DEF f
<1>2. f = Len(l) + 1 \/ InWord(l, f)
  BY <1>1
<1>3. \A k \in q..(f - 1) : ~InWord(l, k)
  BY <1>1 DEF InWord
<1> QED BY <1>1, <1>2, <1>3 DEF f

(* The words of a line by the positions at which they start. *)
Starts(l) == {j \in DOMAIN l : InWord(l, j) /\ ~(j > 1 /\ InWord(l, j - 1))}
WordFrom(l, q) == SubSeq(l, q, FirstFrom(l, q, FALSE) - 1)
WordSet(l, q) == {SubSeq(l, q, j) : j \in q..Len(l)}
IsWord(l, q, w) == (\A k \in 1..Len(w) : w[k] # SPACE) /\ ~InWord(l, q + Len(w))

LEMMA WordAtStart ==
  ASSUME NEW l \in Seq(Keys), NEW q \in 1..Len(l), InWord(l, q)
  PROVE  /\ WordFrom(l, q) \in Seq(Keys) \ {<< >>}
         /\ (CHOOSE w \in WordSet(l, q) : IsWord(l, q, w)) = WordFrom(l, q)
<1>1. Len(l) \in Nat /\ q \in 1..(Len(l) + 1)
  OBVIOUS
<1>2. PICK e \in q..(Len(l) + 1) :
        e = FirstFrom(l, q, FALSE) /\ ~InWord(l, e) /\ \A k \in q..(e - 1) : InWord(l, k)
  BY <1>1, WordEnd
<1>3. e \in Nat /\ e > q /\ e - 1 \in q..Len(l)
  <2>1. e # q
    BY <1>2
  <2> QED BY <1>1, <2>1
<1>4. ASSUME NEW j \in q..Len(l)
      PROVE  /\ SubSeq(l, q, j) \in Seq(Keys) /\ Len(SubSeq(l, q, j)) = j - q + 1
             /\ \A k \in 1..(j - q + 1) : SubSeq(l, q, j)[k] = l[q + k - 1]
  <2>1. \A k \in q..j : l[k] \in Keys
    <3>1. \A k \in q..j : k \in 1..Len(l)
      BY <1>1
    <3> QED BY <3>1
  <2>2. q \in Int /\ j \in Int /\ q <= j
    OBVIOUS
  <2>3. j - q + 1 = j - q + 1
    OBVIOUS
  <2> QED BY <2>1, <2>2, SubSeqProperties
<1>5. WordFrom(l, q) = SubSeq(l, q, e - 1)
  BY <1>2 DEF WordFrom
<1>6. WordFrom(l, q) \in Seq(Keys) \ {<< >>} /\ WordFrom(l, q) \in WordSet(l, q)
  <2>1. SubSeq(l, q, e - 1) \in Seq(Keys) /\ Len(SubSeq(l, q, e - 1)) = e - q
    BY <1>3, <1>4
  <2>2. SubSeq(l, q, e - 1) # << >>
    BY <1>3, <2>1
  <2> QED BY <1>3, <1>5, <2>1, <2>2 DEF WordSet
<1>7. IsWord(l, q, WordFrom(l, q))
  <2>1. Len(SubSeq(l, q, e - 1)) = e - q /\ q + (e - q) = e
    BY <1>3, <1>4
  <2>2. ASSUME NEW k \in 1..(e - q) PROVE SubSeq(l, q, e - 1)[k] # SPACE
    <3>1. k \in 1..(e - 1 - q + 1) /\ q + k - 1 \in q..(e - 1)
      BY <1>3
    <3>2. SubSeq(l, q, e - 1)[k] = l[q + k - 1]
      BY <1>3, <1>4, <3>1
    <3>3. InWord(l, q + k - 1)
      BY <1>2, <3>1
    <3> QED BY <3>2, <3>3 DEF InWord
  <2> QED BY <1>2, <1>5, <2>1, <2>2 DEF IsWord
<1>8. ASSUME NEW w \in WordSet(l, q), IsWord(l, q, w) PROVE w = WordFrom(l, q)
  <2>1. PICK j \in q..Len(l) : w = SubSeq(l, q, j)
    BY DEF WordSet
  <2>2. Len(w) = j - q + 1 /\ \A k \in 1..(j - q + 1) : w[k] = l[q + k - 1]
    BY <1>4, <2>1
  <2>3. ~InWord(l, j + 1)
    <3>1. q + Len(w) = j + 1
      BY <1>1, <2>2
    <3> QED BY <1>8, <3>1 DEF IsWord
  <2>4. ~(j + 1 < e)
    <3> SUFFICES ASSUME j + 1 < e PROVE FALSE
      OBVIOUS
    <3>1. j + 1 \in q..(e - 1)
      BY <1>3
    <3> QED BY <1>2, <2>3, <3>1
  <2>5. ~(e < j + 1)
    <3> SUFFICES ASSUME e < j + 1 PROVE FALSE
      OBVIOUS
    <3>1. e - q + 1 \in 1..(j - q + 1) /\ q + (e - q + 1) - 1 = e /\ e <= Len(l)
      BY <1>1, <1>3
    <3>2. w[e - q + 1] = l[e]
      BY <2>2, <3>1
    <3>3. w[e - q + 1] # SPACE
      BY <1>8, <2>2, <3>1 DEF IsWord
    <3> QED BY <1>2, <3>1, <3>2, <3>3 DEF InWord
  <2>6. j = e - 1
    BY <1>3, <2>4, <2>5
  <2> QED BY <1>5, <2>1, <2>6
<1> QED BY <1>6, <1>7, <1>8

LEMMA WordsAre ==
  ASSUME NEW l \in Seq(Keys)
  PROVE  Words(l) = [n \in DOMAIN InOrder(Starts(l)) |-> WordFrom(l, InOrder(Starts(l))[n])]
<1> DEFINE o == InOrder(Starts(l))
<1>1. Len(l) \in Nat /\ DOMAIN l = 1..Len(l)
  OBVIOUS
<1>2. Cardinality(Starts(l)) \in Nat /\ Lists(o, Cardinality(Starts(l)), Starts(l))
  <2>1. Starts(l) \in SUBSET (1..Len(l))
    BY <1>1 DEF Starts
  <2> QED BY <1>1, <2>1, InOrderLists
<1>3. \A n \in DOMAIN o : o[n] \in Starts(l)
  BY <1>2 DEF Lists
<1> DEFINE At(q) == CHOOSE w \in WordSet(l, q) : IsWord(l, q, w)
<1>4. Words(l) = [n \in DOMAIN o |-> At(o[n])]
  BY Zenon DEF Words, Starts, WordSet, IsWord
<1>5. \A q \in Starts(l) : At(q) = WordFrom(l, q)
  <2>1. \A q \in Starts(l) : q \in 1..Len(l) /\ InWord(l, q)
    BY <1>1 DEF Starts
  <2> QED BY <2>1, WordAtStart
<1> HIDE DEF At, o
<1>6. [n \in DOMAIN o |-> At(o[n])] = [n \in DOMAIN o |-> WordFrom(l, o[n])]
  BY <1>3, <1>5
<1> QED BY <1>4, <1>6 DEF o

(* Where the n-th word starts, and the end of the line after the last one. *)
Count(l) == Cardinality(Starts(l))
Place(l, n) == IF n <= Count(l) THEN InOrder(Starts(l))[n] ELSE Len(l) + 1

LEMMA PlacesAre ==
  ASSUME NEW l \in Seq(Keys)
  PROVE  /\ Len(l) \in Nat /\ Starts(l) \in SUBSET (1..Len(l)) /\ Count(l) \in Nat
         /\ \A n \in 1..Count(l) : Place(l, n) \in Starts(l) /\ Place(l, n) = InOrder(Starts(l))[n]
         /\ \A m, n \in 1..Count(l) : m < n => Place(l, m) < Place(l, n)
         /\ \A q \in Starts(l) : \E n \in 1..Count(l) : Place(l, n) = q
         /\ Place(l, Count(l) + 1) = Len(l) + 1
         /\ DOMAIN InOrder(Starts(l)) = 1..Count(l)
<1>1. Len(l) \in Nat /\ Starts(l) \in SUBSET (1..Len(l))
  BY DEF Starts
<1>2. Count(l) \in Nat /\ Lists(InOrder(Starts(l)), Count(l), Starts(l))
  BY <1>1, InOrderLists DEF Count
<1>3. \A n \in 1..Count(l) : Place(l, n) = InOrder(Starts(l))[n]
  BY <1>2 DEF Place
<1>4. Place(l, Count(l) + 1) = Len(l) + 1
  BY <1>2 DEF Place
<1>5. DOMAIN InOrder(Starts(l)) = 1..Count(l)
  BY <1>2 DEF Lists
<1>6. \A n \in 1..Count(l) : Place(l, n) \in Starts(l)
  BY <1>2, <1>3 DEF Lists
<1>7. \A m, n \in 1..Count(l) : m < n => Place(l, m) < Place(l, n)
  BY <1>2, <1>3 DEF Lists
<1>8. \A q \in Starts(l) : \E n \in 1..Count(l) : Place(l, n) = q
  BY <1>2, <1>3 DEF Lists
<1> QED BY <1>1, <1>2, <1>3, <1>4, <1>5, <1>6, <1>7, <1>8

(* A start, or the end, that has the first n starts before it and no other. *)
LEMMA PlaceIs ==
  ASSUME NEW l \in Seq(Keys), NEW n \in 0..Count(l), NEW r \in 1..(Len(l) + 1),
         r = Len(l) + 1 \/ r \in Starts(l),
         \A m \in 1..n : Place(l, m) < r,
         \A q \in Starts(l) : q < r => \E m \in 1..n : q = Place(l, m)
  PROVE  r = Place(l, n + 1)
<1>1. Len(l) \in Nat /\ Count(l) \in Nat /\ n \in Nat
  BY PlacesAre
<1>2. ASSUME n + 1 \in 1..Count(l) PROVE ~(Place(l, n + 1) < r)
  <2> SUFFICES ASSUME Place(l, n + 1) < r PROVE FALSE
    OBVIOUS
  <2>1. Place(l, n + 1) \in Starts(l)
    BY <1>2, PlacesAre
  <2>2. PICK m \in 1..n : Place(l, n + 1) = Place(l, m)
    BY <2>1
  <2>3. m \in 1..Count(l) /\ m < n + 1
    BY <1>1
  <2>4. Place(l, m) < Place(l, n + 1)
    BY <1>2, <2>3, PlacesAre
  <2>5. Place(l, m) \in Nat
    BY <2>3, PlacesAre
  <2> QED BY <2>2, <2>4, <2>5
<1>3. CASE r \in Starts(l)
  <2>1. PICK m \in 1..Count(l) : Place(l, m) = r
    BY <1>3, PlacesAre
  <2>2. r \in Nat
    OBVIOUS
  <2>3. m > n
    BY <1>1, <2>1, <2>2
  <2>4. n + 1 \in 1..Count(l)
    BY <1>1, <2>3
  <2>5. ~(n + 1 < m)
    BY <1>2, <2>1, <2>4, PlacesAre
  <2>6. m = n + 1
    BY <1>1, <2>3, <2>5
  <2> QED BY <2>1, <2>6
<1>4. CASE r = Len(l) + 1
  <2>1. n + 1 \notin 1..Count(l)
    <3> SUFFICES ASSUME n + 1 \in 1..Count(l) PROVE FALSE
      OBVIOUS
    <3>1. Place(l, n + 1) \in 1..Len(l)
      BY PlacesAre
    <3> QED BY <1>1, <1>2, <1>4, <3>1
  <2>2. n = Count(l)
    BY <1>1, <2>1
  <2> QED BY <1>4, <2>2, PlacesAre
<1> QED BY <1>3, <1>4

LEMMA FirstPlace ==
  ASSUME NEW l \in Seq(Keys)
  PROVE  FirstFrom(l, 1, TRUE) = Place(l, 1)
<1>1. Len(l) \in Nat /\ 1 \in 1..(Len(l) + 1) /\ 0 \in 0..Count(l) /\ 0 + 1 = 1
      /\ Starts(l) \in SUBSET (1..Len(l)) /\ DOMAIN l = 1..Len(l)
  BY PlacesAre
<1>2. PICK r \in 1..(Len(l) + 1) :
        /\ r = FirstFrom(l, 1, TRUE) /\ (r = Len(l) + 1 \/ InWord(l, r))
        /\ \A k \in 1..(r - 1) : ~InWord(l, k)
  BY <1>1, WordStart
<1>3. \A q \in Starts(l) : InWord(l, q) /\ q \in 1..Len(l)
  BY <1>1 DEF Starts
<1>4. ASSUME NEW q \in Starts(l) PROVE ~(q < r)
  <2> SUFFICES ASSUME q < r PROVE FALSE
    OBVIOUS
  <2>1. q \in 1..Len(l) /\ InWord(l, q)
    BY <1>3
  <2>2. q \in 1..(r - 1)
    BY <2>1
  <2> QED BY <1>2, <2>1, <2>2
<1>5. r = Len(l) + 1 \/ r \in Starts(l)
  <2> SUFFICES ASSUME r # Len(l) + 1 PROVE r \in Starts(l)
    OBVIOUS
  <2>1. r \in 1..Len(l) /\ InWord(l, r)
    BY <1>2, PlacesAre, Before
  <2>2. ~(r > 1 /\ InWord(l, r - 1))
    <3> SUFFICES ASSUME r > 1 PROVE ~InWord(l, r - 1)
      OBVIOUS
    <3>1. r - 1 \in 1..(r - 1)
      BY <1>1
    <3> QED BY <1>2, <3>1
  <2> QED BY <1>1, <2>1, <2>2 DEF Starts
<1>6. \A m \in 1..0 : Place(l, m) < r
  OBVIOUS
<1>7. r = Place(l, 0 + 1)
  BY <1>1, <1>4, <1>5, <1>6, PlaceIs
<1> QED BY <1>1, <1>2, <1>7

LEMMA NextPlace ==
  ASSUME NEW l \in Seq(Keys), NEW n \in 1..Count(l)
  PROVE  NextWord(l, FirstFrom(l, Place(l, n), FALSE)) = Place(l, n + 1)
<1>1. /\ Len(l) \in Nat /\ Count(l) \in Nat /\ DOMAIN l = 1..Len(l)
      /\ \A s \in Starts(l) : s \in 1..Len(l)
  BY PlacesAre
<1>2. PICK q \in 1..Len(l) : q = Place(l, n) /\ q \in Starts(l)
  <2>1. Place(l, n) \in Starts(l)
    BY PlacesAre
  <2> QED BY <1>1, <2>1
<1>3. PICK e \in q..(Len(l) + 1) :
        e = FirstFrom(l, q, FALSE) /\ ~InWord(l, e) /\ \A k \in q..(e - 1) : InWord(l, k)
  <2>1. q \in 1..(Len(l) + 1)
    BY <1>1
  <2> QED BY <2>1, WordEnd
<1>4. PICK r \in e..(Len(l) + 1) :
        /\ r = FirstFrom(l, e, TRUE) /\ (r = Len(l) + 1 \/ InWord(l, r))
        /\ \A k \in e..(r - 1) : ~InWord(l, k)
  <2>1. e \in 1..(Len(l) + 1)
    BY <1>1
  <2> QED BY <2>1, WordStart
<1>5. InWord(l, q) /\ e > q /\ r > q /\ r \in 1..(Len(l) + 1)
  <2>1. InWord(l, q)
    BY <1>2 DEF Starts
  <2>2. e # q
    BY <1>3, <2>1
  <2> QED BY <1>1, <2>1, <2>2
<1>6. r = Len(l) + 1 \/ r \in Starts(l)
  <2> SUFFICES ASSUME r # Len(l) + 1 PROVE r \in Starts(l)
    OBVIOUS
  <2>1. r \in 1..Len(l) /\ InWord(l, r)
    BY <1>4, <1>5, PlacesAre, Before
  <2>2. ~InWord(l, r - 1)
    <3>1. r # e
      BY <1>3, <2>1
    <3>2. r - 1 \in e..(r - 1)
      BY <1>1, <3>1
    <3> QED BY <1>4, <3>2
  <2> QED BY <1>1, <2>1, <2>2 DEF Starts
<1>7. ASSUME NEW s \in Starts(l), s < r PROVE s <= q
  <2> SUFFICES ASSUME q < s PROVE FALSE
    BY <1>1
  <2>1. s \in 1..Len(l) /\ InWord(l, s) /\ ~(s > 1 /\ InWord(l, s - 1))
    BY <1>1 DEF Starts
  <2>2. CASE s < e
    <3>1. s - 1 \in q..(e - 1) /\ s > 1
      BY <1>1, <2>1, <2>2
    <3> QED BY <1>3, <2>1, <3>1
  <2>3. CASE e <= s
    <3>1. s \in e..(r - 1)
      BY <1>1, <1>7, <2>1, <2>3
    <3> QED BY <1>4, <2>1, <3>1
  <2> QED BY <1>1, <2>1, <2>2, <2>3
<1>8. \A m \in 1..n : Place(l, m) < r
  <2> SUFFICES ASSUME NEW m \in 1..n PROVE Place(l, m) < r
    OBVIOUS
  <2>1. m \in 1..Count(l) /\ (m = n \/ m < n)
    BY <1>1
  <2>2. Place(l, m) \in Nat
    <3>1. Place(l, m) \in Starts(l)
      BY <2>1, PlacesAre
    <3> QED BY <1>1, <3>1
  <2>3. CASE m = n
    BY <1>2, <1>5, <2>3
  <2>4. CASE m < n
    <3>1. Place(l, m) < q
      BY <1>2, <2>1, <2>4, PlacesAre
    <3> QED BY <1>5, <2>2, <3>1
  <2> QED BY <2>1, <2>3, <2>4
<1>9. ASSUME NEW s \in Starts(l), s < r PROVE \E m \in 1..n : s = Place(l, m)
  <2>1. PICK m \in 1..Count(l) : Place(l, m) = s
    BY PlacesAre
  <2>2. s \in Nat /\ s <= q
    BY <1>1, <1>7, <1>9
  <2>3. ~(n < m)
    <3> SUFFICES ASSUME n < m PROVE FALSE
      OBVIOUS
    <3>1. q < s
      BY <1>2, <2>1, PlacesAre
    <3> QED BY <2>2, <3>1
  <2>4. m \in 1..n
    BY <1>1, <2>3
  <2> QED BY <2>1, <2>4
<1>10. n \in 0..Count(l)
  BY <1>1
<1>11. r = Place(l, n + 1)
  BY <1>5, <1>6, <1>8, <1>9, <1>10, PlaceIs
<1> QED BY <1>2, <1>3, <1>4, <1>11 DEF NextWord

LEMMA PickedOff ==
  ASSUME NEW S, NEW s \in Seq(S), NEW n \in 1..Len(s), NEW j \in n..Len(s)
  PROVE  <<s[n]>> \o SubSeq(s, n + 1, j) = SubSeq(s, n, j)
<1>1. Len(s) \in Nat /\ n \in Nat /\ j \in Nat /\ n <= j /\ j <= Len(s) /\ n >= 1
  OBVIOUS
<1>2. \A k \in n..j : s[k] \in S
  <2>1. \A k \in n..j : k \in 1..Len(s)
    BY <1>1
  <2> QED BY <2>1
<1>3. /\ SubSeq(s, n, j) \in Seq(S) /\ Len(SubSeq(s, n, j)) = j - n + 1
      /\ \A k \in 1..(j - n + 1) : SubSeq(s, n, j)[k] = s[n + k - 1]
  BY <1>1, <1>2, SubSeqProperties
<1>4. /\ SubSeq(s, n + 1, j) \in Seq(S) /\ Len(SubSeq(s, n + 1, j)) = j - n
      /\ \A k \in 1..(j - n) : SubSeq(s, n + 1, j)[k] = s[n + 1 + k - 1]
  <2>1. \A k \in (n + 1)..j : s[k] \in S
    BY <1>1, <1>2
  <2>2. n + 1 \in Int /\ j \in Int /\ j - (n + 1) + 1 = j - n
    BY <1>1
  <2>3. /\ SubSeq(s, n + 1, j) \in Seq(S)
        /\ Len(SubSeq(s, n + 1, j)) = IF n + 1 <= j THEN j - (n + 1) + 1 ELSE 0
        /\ \A k \in 1..(j - (n + 1) + 1) : SubSeq(s, n + 1, j)[k] = s[n + 1 + k - 1]
    BY <2>1, <2>2, SubSeqProperties
  <2>4. (IF n + 1 <= j THEN j - (n + 1) + 1 ELSE 0) = j - n
    BY <1>1
  <2> QED BY <2>2, <2>3, <2>4
<1> DEFINE h == <<s[n]>>
           t == SubSeq(s, n + 1, j)
           u == SubSeq(s, n, j)
<1>5. h \in Seq(S) /\ Len(h) = 1 /\ h[1] = s[n]
  BY <1>1, <1>2
<1>6. Len(u) = 1 + Len(t) /\ Len(u) = j - n + 1 /\ Len(t) = j - n
  BY <1>1, <1>3, <1>4
<1>7. /\ h \o t \in Seq(S) /\ Len(h \o t) = j - n + 1
      /\ \A k \in 1..(j - n + 1) : (h \o t)[k] = IF k <= 1 THEN h[k] ELSE t[k - 1]
  <2> HIDE DEF h, t, u
  <2>1. t \in Seq(S) /\ 1 + (j - n) = j - n + 1
    BY <1>1, <1>4 DEF t
  <2>2. /\ h \o t \in Seq(S) /\ Len(h \o t) = Len(h) + Len(t)
        /\ \A k \in 1..(Len(h) + Len(t)) : (h \o t)[k] = IF k <= Len(h) THEN h[k] ELSE t[k - Len(h)]
    BY <1>5, <2>1, ConcatProperties
  <2> QED BY <1>5, <1>6, <2>1, <2>2
<1>8. ASSUME NEW k \in 1..(j - n + 1) PROVE (h \o t)[k] = u[k]
  <2>1. u[k] = s[n + k - 1]
    BY <1>3
  <2>2. CASE k = 1
    <3>1. (h \o t)[k] = h[1] /\ n + k - 1 = n
      BY <1>1, <1>7, <2>2
    <3> QED BY <1>5, <2>1, <3>1
  <2>3. CASE k # 1
    <3>1. k - 1 \in 1..(j - n) /\ ~(k <= 1) /\ n + 1 + (k - 1) - 1 = n + k - 1
      BY <1>1, <2>3
    <3>2. (h \o t)[k] = t[k - 1]
      <4> HIDE DEF h, t
      <4> QED BY <1>7, <3>1
    <3>3. t[k - 1] = s[n + 1 + (k - 1) - 1]
      BY <1>4, <3>1
    <3> QED BY <2>1, <3>1, <3>2, <3>3
  <2> QED BY <2>2, <2>3
<1>9. h \o t = u
  <2>1. u \in Seq(S) /\ Len(u) = j - n + 1
    BY <1>3
  <2> HIDE DEF h, t, u
  <2> QED BY <1>7, <1>8, <2>1, SeqEqual
<1> QED BY <1>9

LEMMA WordsTyped ==
  ASSUME NEW l \in Seq(Keys)
  PROVE  /\ Words(l) \in Seq(Seq(Keys) \ {<< >>}) /\ Len(Words(l)) = Count(l) /\ Count(l) \in Nat
         /\ \A n \in 1..Count(l) : Words(l)[n] = WordFrom(l, Place(l, n))
<1> DEFINE S == Seq(Keys) \ {<< >>}
           o == InOrder(Starts(l))
<1>1. Words(l) = [n \in 1..Count(l) |-> WordFrom(l, o[n])] /\ Count(l) \in Nat
  BY WordsAre, PlacesAre
<1>2. \A n \in 1..Count(l) : o[n] = Place(l, n)
  BY PlacesAre
<1>3. ASSUME NEW n \in 1..Count(l) PROVE WordFrom(l, o[n]) \in S
  <2>1. o[n] \in Starts(l)
    BY PlacesAre
  <2>2. o[n] \in 1..Len(l) /\ InWord(l, o[n])
    BY <2>1, PlacesAre DEF Starts
  <2> QED BY <2>2, WordAtStart
<1> DEFINE W(n) == WordFrom(l, o[n])
<1>4. [n \in 1..Count(l) |-> W(n)] \in Seq(S) /\ Len([n \in 1..Count(l) |-> W(n)]) = Count(l)
  <2> HIDE DEF S, o, W
  <2>1. \A n \in 1..Count(l) : W(n) \in S
    BY <1>3 DEF W
  <2> QED BY <1>1, <2>1
<1>5. \A n \in 1..Count(l) : Words(l)[n] = WordFrom(l, Place(l, n))
  <2> HIDE DEF o
  <2> QED BY <1>1, <1>2
<1> QED BY <1>1, <1>4, <1>5

(* The arguments from the n-th word on, with c of them read already: the    *)
(* words from there, as many as there is room for.                          *)
RoomTo(l, n, c) ==
  IF Count(l) < n + (SHELL_MAX_ARGS - c) - 1 THEN Count(l) ELSE n + (SHELL_MAX_ARGS - c) - 1

LEMMA ArgsAt ==
  ASSUME NEW l \in Seq(Keys)
  PROVE  \A n \in 1..(Count(l) + 1) : \A c \in 0..SHELL_MAX_ARGS :
           ArgsFrom(l)[<<Place(l, n), c>>] = SubSeq(Words(l), n, RoomTo(l, n, c))
<1> DEFINE W == Words(l)
           T == Seq(Keys) \ {<< >>}
           Holds(n, c) == ArgsFrom(l)[<<Place(l, n), c>>] = SubSeq(W, n, RoomTo(l, n, c))
           S == {m \in Nat : m <= SHELL_MAX_ARGS =>
                               \A n \in 1..(Count(l) + 1) : Holds(n, SHELL_MAX_ARGS - m)}
<1>1. /\ SHELL_MAX_ARGS \in Nat /\ Len(l) \in Nat /\ Count(l) \in Nat /\ W \in Seq(T)
      /\ Len(W) = Count(l)
  BY ShellAssumption, PlacesAre, WordsTyped
<1>2. ASSUME NEW n \in 1..Count(l)
      PROVE  Place(l, n) \in 1..(Len(l) + 1) /\ ~(Place(l, n) > Len(l))
  <2>1. Place(l, n) \in 1..Len(l)
    BY PlacesAre
  <2> QED BY <1>1, <2>1
<1>3. Place(l, Count(l) + 1) = Len(l) + 1 /\ Len(l) + 1 \in 1..(Len(l) + 1) /\ Len(l) + 1 > Len(l)
  BY <1>1, PlacesAre
<1>4. ASSUME NEW n \in 1..(Count(l) + 1), NEW c \in 0..SHELL_MAX_ARGS,
             n = Count(l) + 1 \/ c = SHELL_MAX_ARGS
      PROVE  Holds(n, c)
  <2>1. Place(l, n) \in 1..(Len(l) + 1) /\ (Place(l, n) > Len(l) \/ c = SHELL_MAX_ARGS)
    <3>1. CASE n = Count(l) + 1
      BY <1>3, <3>1
    <3>2. CASE n # Count(l) + 1
      <4>1. n \in 1..Count(l)
        BY <1>1, <3>2, Before
      <4> QED BY <1>2, <1>4, <3>2, <4>1
    <3> QED BY <3>1, <3>2
  <2>2. ArgsFrom(l)[<<Place(l, n), c>>] = << >>
    BY <2>1, ArgsUnfold, Zenon
  <2>3. RoomTo(l, n, c) \in Int /\ RoomTo(l, n, c) < n /\ n \in Int
    BY <1>1, <1>4 DEF RoomTo
  <2>4. SubSeq(W, n, RoomTo(l, n, c)) = << >>
    <3> HIDE DEF W
    <3> QED BY <2>3, SubSeqEmpty
  <2> QED BY <2>2, <2>4
<1>5. 0 \in S
  <2>1. SHELL_MAX_ARGS - 0 = SHELL_MAX_ARGS /\ SHELL_MAX_ARGS \in 0..SHELL_MAX_ARGS
    BY <1>1
  <2>2. \A n \in 1..(Count(l) + 1) : Holds(n, SHELL_MAX_ARGS - 0)
    <3> HIDE DEF Holds
    <3> QED BY <1>4, <2>1
  <2> HIDE DEF Holds
  <2> QED BY <2>2
<1>6. ASSUME NEW m \in Nat, m \in S PROVE m + 1 \in S
  <2> SUFFICES ASSUME m + 1 <= SHELL_MAX_ARGS, NEW n \in 1..(Count(l) + 1)
               PROVE  Holds(n, SHELL_MAX_ARGS - (m + 1))
    <3> HIDE DEF Holds
    <3> QED OBVIOUS
  <2>1. PICK c \in 0..SHELL_MAX_ARGS :
          /\ c = SHELL_MAX_ARGS - (m + 1) /\ c + 1 = SHELL_MAX_ARGS - m /\ c # SHELL_MAX_ARGS
          /\ c + 1 \in 0..SHELL_MAX_ARGS
    BY <1>1
  <2>2. CASE n = Count(l) + 1
    <3> HIDE DEF Holds
    <3> QED BY <1>4, <2>1, <2>2
  <2>3. CASE n # Count(l) + 1
    <3>1. n \in 1..Count(l) /\ n + 1 \in 1..(Count(l) + 1)
      BY <1>1, <2>3
    <3>2. Holds(n + 1, c + 1)
      <4>1. m <= SHELL_MAX_ARGS
        BY <1>1
      <4> HIDE DEF Holds
      <4> QED BY <1>6, <2>1, <3>1, <4>1
    <3>3. ArgsFrom(l)[<<Place(l, n), c>>] =
            <<WordFrom(l, Place(l, n))>> \o ArgsFrom(l)[<<Place(l, n + 1), c + 1>>]
      <4>1. Place(l, n) \in 1..(Len(l) + 1) /\ ~(Place(l, n) > Len(l) \/ c = SHELL_MAX_ARGS)
        BY <1>2, <2>1, <3>1
      <4>2. ArgsFrom(l)[<<Place(l, n), c>>] =
              <<WordFrom(l, Place(l, n))>>
                \o ArgsFrom(l)[<<NextWord(l, FirstFrom(l, Place(l, n), FALSE)), c + 1>>]
        BY <4>1, ArgsUnfold, Zenon DEF WordFrom
      <4> QED BY <3>1, <4>2, NextPlace
    <3>4. RoomTo(l, n, c) \in n..Len(W) /\ RoomTo(l, n + 1, c + 1) = RoomTo(l, n, c)
      BY <1>1, <2>1, <3>1 DEF RoomTo
    <3>5. <<W[n]>> \o SubSeq(W, n + 1, RoomTo(l, n, c)) = SubSeq(W, n, RoomTo(l, n, c))
      <4> HIDE DEF W, T
      <4> QED BY <1>1, <3>1, <3>4, PickedOff
    <3>6. W[n] = WordFrom(l, Place(l, n))
      BY <3>1, WordsTyped
    <3> QED BY <2>1, <3>2, <3>3, <3>4, <3>5, <3>6
  <2> QED BY <2>2, <2>3
<1> HIDE DEF S, Holds
<1>7. \A m \in Nat : m \in S
  BY <1>5, <1>6, Induction
<1>8. ASSUME NEW n \in 1..(Count(l) + 1), NEW c \in 0..SHELL_MAX_ARGS PROVE Holds(n, c)
  <2>1. PICK m \in Nat : m = SHELL_MAX_ARGS - c /\ SHELL_MAX_ARGS - m = c /\ m <= SHELL_MAX_ARGS
    BY <1>1
  <2>2. Holds(n, SHELL_MAX_ARGS - m)
    BY <1>7, <2>1 DEF S
  <2> QED BY <2>1, <2>2
<1> QED BY <1>8 DEF Holds

(* What parse_command makes of a line, and what that is in words. *)
Command(l) ==
  LET start == FirstFrom(l, 1, TRUE)
      end   == FirstFrom(l, start, FALSE)
      name  == SubSeq(l, start, end - 1)
      n     == IF Len(name) > SHELL_CMD_NAME_MAX THEN SHELL_CMD_NAME_MAX ELSE Len(name)
  IN  [name |-> SubSeq(name, 1, n), args |-> ArgsFrom(l)[<<NextWord(l, end), 0>>]]

InWords(w) ==
  IF w # << >>
    THEN [name |-> Cut(w[1], SHELL_CMD_NAME_MAX), args |-> Cut(Tail(w), SHELL_MAX_ARGS)]
    ELSE NoCommand

LEMMA CutTyped ==
  ASSUME NEW S, NEW s \in Seq(S), NEW n \in Nat
  PROVE  Cut(s, n) \in Seq(S) /\ Len(Cut(s, n)) <= n /\ Len(Cut(s, n)) <= Len(s)
<1>1. PICK m \in Nat : m = (IF Len(s) < n THEN Len(s) ELSE n) /\ m <= n /\ m <= Len(s)
  OBVIOUS
<1>2. \A k \in 1..m : s[k] \in S
  BY <1>1
<1>3. SubSeq(s, 1, m) \in Seq(S) /\ Len(SubSeq(s, 1, m)) = IF 1 <= m THEN m - 1 + 1 ELSE 0
  BY <1>1, <1>2, SubSeqProperties
<1>4. Len(SubSeq(s, 1, m)) = m
  BY <1>1, <1>3
<1> QED BY <1>1, <1>3, <1>4 DEF Cut

LEMMA TailRoom ==
  ASSUME NEW L \in Nat, L > 0, NEW n \in Nat
  PROVE  \E m \in Nat : /\ m = (IF L - 1 < n THEN L - 1 ELSE n)
                        /\ m + 1 = (IF L < 2 + n - 1 THEN L ELSE 2 + n - 1)
                        /\ m <= L - 1
                        /\ \A k \in 1..m : k \in 1..(L - 1)
                        /\ \A k \in 2..(m + 1) : k \in 1..L
<1>1. CASE L - 1 < n
  <2>1. /\ L - 1 \in Nat /\ (IF L < 2 + n - 1 THEN L ELSE 2 + n - 1) = L - 1 + 1
        /\ \A k \in 2..(L - 1 + 1) : k \in 1..L
    BY <1>1
  <2> QED BY <1>1, <2>1
<1>2. CASE ~(L - 1 < n)
  <2>1. /\ n <= L - 1 /\ (IF L < 2 + n - 1 THEN L ELSE 2 + n - 1) = n + 1
        /\ \A k \in 2..(n + 1) : k \in 1..L
        /\ \A k \in 1..n : k \in 1..(L - 1)
    BY <1>2
  <2> QED BY <1>2, <2>1
<1> QED BY <1>1, <1>2

LEMMA CutTail ==
  ASSUME NEW S, NEW w \in Seq(S), w # << >>, NEW n \in Nat
  PROVE  Tail(w) \in Seq(S)
         /\ Cut(Tail(w), n) = SubSeq(w, 2, IF Len(w) < 2 + n - 1 THEN Len(w) ELSE 2 + n - 1)
<1>1. /\ Tail(w) \in Seq(S) /\ Len(w) \in Nat /\ Len(w) > 0 /\ Len(Tail(w)) = Len(w) - 1
      /\ \A k \in 1..(Len(w) - 1) : Tail(w)[k] = w[k + 1]
  OBVIOUS
<1>2. PICK m \in Nat : /\ m = (IF Len(Tail(w)) < n THEN Len(Tail(w)) ELSE n)
                       /\ m + 1 = (IF Len(w) < 2 + n - 1 THEN Len(w) ELSE 2 + n - 1)
                       /\ \A k \in 1..m : k \in 1..(Len(w) - 1)
                       /\ \A k \in 2..(m + 1) : k \in 1..Len(w)
  <2>1. PICK L \in Nat : L = Len(w) /\ L > 0 /\ Len(Tail(w)) = L - 1
    BY <1>1
  <2>2. PICK m \in Nat : /\ m = (IF L - 1 < n THEN L - 1 ELSE n)
                         /\ m + 1 = (IF L < 2 + n - 1 THEN L ELSE 2 + n - 1)
                         /\ m <= L - 1
                         /\ \A k \in 1..m : k \in 1..(L - 1)
                         /\ \A k \in 2..(m + 1) : k \in 1..L
    BY <2>1, TailRoom
  <2> QED BY <2>1, <2>2, Zenon
<1>3. /\ \A k \in 1..m : Tail(w)[k] \in S /\ Tail(w)[k] = w[k + 1]
      /\ \A k \in 2..(m + 1) : w[k] \in S
  <2>1. \A k \in 1..(Len(w) - 1) : Tail(w)[k] \in S
    BY <1>1
  <2>2. \A k \in 1..Len(w) : w[k] \in S
    OBVIOUS
  <2> QED BY <1>1, <1>2, <2>1, <2>2, Zenon
<1> DEFINE a == SubSeq(Tail(w), 1, m)
           b == SubSeq(w, 2, m + 1)
<1>4. a \in Seq(S) /\ Len(a) = m /\ \A k \in 1..m : a[k] = Tail(w)[k]
  <2>1. /\ a \in Seq(S) /\ Len(a) = IF 1 <= m THEN m - 1 + 1 ELSE 0
        /\ \A k \in 1..(m - 1 + 1) : a[k] = Tail(w)[1 + k - 1]
    BY <1>2, <1>3, SubSeqProperties
  <2>2. (IF 1 <= m THEN m - 1 + 1 ELSE 0) = m /\ m - 1 + 1 = m /\ \A k \in 1..m : 1 + k - 1 = k
    OBVIOUS
  <2> HIDE DEF a
  <2> QED BY <2>1, <2>2
<1>5. b \in Seq(S) /\ Len(b) = m /\ \A k \in 1..m : b[k] = w[k + 1]
  <2>1. /\ b \in Seq(S) /\ Len(b) = IF 2 <= m + 1 THEN m + 1 - 2 + 1 ELSE 0
        /\ \A k \in 1..(m + 1 - 2 + 1) : b[k] = w[2 + k - 1]
    BY <1>2, <1>3, SubSeqProperties
  <2>2. /\ (IF 2 <= m + 1 THEN m + 1 - 2 + 1 ELSE 0) = m /\ m + 1 - 2 + 1 = m
        /\ \A k \in 1..m : 2 + k - 1 = k + 1
    OBVIOUS
  <2> HIDE DEF b
  <2> QED BY <2>1, <2>2
<1>6. a = b
  <2> HIDE DEF a, b
  <2> QED BY <1>3, <1>4, <1>5, SeqEqual
<1> QED BY <1>1, <1>2, <1>6, Zenon DEF Cut

LEMMA CommandIs ==
  ASSUME NEW l \in Seq(Keys)
  PROVE  Command(l) = InWords(Words(l))
<1> DEFINE W == Words(l)
           T == Seq(Keys) \ {<< >>}
<1>1. W \in Seq(T) /\ Len(W) = Count(l) /\ Count(l) \in Nat /\ SHELL_MAX_ARGS \in Nat
      /\ Len(l) \in Nat /\ SHELL_CMD_NAME_MAX \in Nat
  BY WordsTyped, PlacesAre, ShellAssumption
<1>2. PICK p : p = FirstFrom(l, 1, TRUE) /\ p = Place(l, 1)
  BY FirstPlace
<1>3. CASE Count(l) = 0
  <2>1. p = Len(l) + 1
    <3>1. Place(l, Count(l) + 1) = Len(l) + 1 /\ Count(l) + 1 = 1
      BY <1>3, PlacesAre
    <3> QED BY <1>2, <3>1
  <2>2. p \in 1..(Len(l) + 1)
    BY <1>1, <2>1
  <2>3. \A q \in p..(Len(l) + 1) : q = Len(l) + 1
    BY <1>1, <2>1
  <2>4. FirstFrom(l, p, FALSE) = Len(l) + 1
    BY <2>2, <2>3, FirstFromIs
  <2>5. NextWord(l, Len(l) + 1) = Len(l) + 1
    BY <2>1, <2>2, <2>3, FirstFromIs DEF NextWord
  <2>7. /\ Len(<< >>) = 0 /\ SubSeq(<< >>, 1, 0) = << >>
        /\ (IF 0 > SHELL_CMD_NAME_MAX THEN SHELL_CMD_NAME_MAX ELSE 0) = 0
    BY <1>1
  <2>8. ArgsFrom(l)[<<Len(l) + 1, 0>>] = << >>
    <3>1. 0 \in 0..SHELL_MAX_ARGS /\ Len(l) + 1 > Len(l)
      BY <1>1
    <3> QED BY <2>1, <2>2, <3>1, ArgsUnfold, Zenon
  <2>9. Command(l) = [name |-> << >>, args |-> << >>]
    <3>1. /\ FirstFrom(l, FirstFrom(l, 1, TRUE), FALSE) = Len(l) + 1
          /\ SubSeq(l, FirstFrom(l, 1, TRUE), FirstFrom(l, FirstFrom(l, 1, TRUE), FALSE) - 1)
               = << >>
      <4>0. Len(l) \in Nat
        BY <1>1
      <4>1. PICK f : f = FirstFrom(l, p, FALSE)
        OBVIOUS
      <4>2. f = Len(l) + 1
        BY <2>4, <4>1
      <4>3. f - 1 \in Int /\ f - 1 < p /\ p \in Int
        BY <2>1, <4>0, <4>2
      <4>4. SubSeq(l, p, f - 1) = << >>
        BY <4>3, SubSeqEmpty
      <4> QED BY <1>2, <2>4, <4>1, <4>4
    <3> DEFINE e == << >>
    <3>2. e = << >>
      OBVIOUS
    <3> HIDE DEF e
    <3>3. Command(l) =
            [name |-> SubSeq(e, 1, IF Len(e) > SHELL_CMD_NAME_MAX THEN SHELL_CMD_NAME_MAX
                                   ELSE Len(e)),
             args |-> ArgsFrom(l)[<<Len(l) + 1, 0>>]]
      BY <2>5, <3>1, <3>2, Zenon DEF Command
    <3>4. SubSeq(e, 1, IF Len(e) > SHELL_CMD_NAME_MAX THEN SHELL_CMD_NAME_MAX ELSE Len(e)) = << >>
      BY <2>7, <3>2
    <3> QED BY <2>8, <3>3, <3>4, Zenon
  <2>10. W = << >>
    BY <1>1, <1>3
  <2> QED BY <2>9, <2>10, Zenon DEF InWords, NoCommand
<1>4. CASE Count(l) # 0
  <2>1. 1 \in 1..Count(l) /\ 2 \in 1..(Count(l) + 1) /\ 1 + 1 = 2 /\ 0 \in 0..SHELL_MAX_ARGS
        /\ SHELL_MAX_ARGS - 0 = SHELL_MAX_ARGS
    BY <1>1, <1>4
  <2>2. W # << >>
    BY <1>1, <1>4
  <2>3. NextWord(l, FirstFrom(l, p, FALSE)) = Place(l, 2)
    BY <1>2, <2>1, NextPlace
  <2>4. SubSeq(l, p, FirstFrom(l, p, FALSE) - 1) = W[1]
    BY <1>2, <2>1, WordsTyped DEF WordFrom
  <2>5. ArgsFrom(l)[<<Place(l, 2), 0>>] = SubSeq(W, 2, RoomTo(l, 2, 0))
    BY <2>1, ArgsAt
  <2>6. SubSeq(W, 2, RoomTo(l, 2, 0)) = Cut(Tail(W), SHELL_MAX_ARGS)
    <3>1. RoomTo(l, 2, 0) = IF Len(W) < 2 + SHELL_MAX_ARGS - 1 THEN Len(W)
                            ELSE 2 + SHELL_MAX_ARGS - 1
      BY <1>1, <2>1, Zenon DEF RoomTo
    <3> HIDE DEF W, T
    <3> QED BY <1>1, <2>2, <3>1, CutTail
  <2>7. W[1] \in Seq(Keys) /\ Len(W[1]) \in Nat
    <3>1. W[1] \in T
      <4> HIDE DEF T, W
      <4> QED BY <1>1, <2>1
    <3> QED BY <3>1
  <2>8. (IF Len(W[1]) > SHELL_CMD_NAME_MAX THEN SHELL_CMD_NAME_MAX ELSE Len(W[1]))
          = (IF Len(W[1]) < SHELL_CMD_NAME_MAX THEN Len(W[1]) ELSE SHELL_CMD_NAME_MAX)
    BY <1>1, <2>7
  <2>9. Command(l) = [name |-> Cut(W[1], SHELL_CMD_NAME_MAX), args |-> Cut(Tail(W), SHELL_MAX_ARGS)]
    <3> HIDE DEF W
    <3>1. Command(l) =
            [name |-> SubSeq(W[1], 1, IF Len(W[1]) > SHELL_CMD_NAME_MAX THEN SHELL_CMD_NAME_MAX
                                      ELSE Len(W[1])),
             args |-> ArgsFrom(l)[<<Place(l, 2), 0>>]]
      BY <1>2, <2>3, <2>4, Zenon DEF Command
    <3> QED BY <2>5, <2>6, <2>8, <3>1, Zenon DEF Cut
  <2> QED BY <2>2, <2>9, Zenon DEF InWords
<1> QED BY <1>3, <1>4

LEMMA CommandTyped ==
  ASSUME NEW l \in Seq(Keys)
  PROVE  /\ Command(l).name \in Seq(Keys) /\ Command(l).args \in Seq(Seq(Keys) \ {<< >>})
         /\ Len(Command(l).args) <= SHELL_MAX_ARGS
<1> DEFINE W == Words(l)
           T == Seq(Keys) \ {<< >>}
<1>1. W \in Seq(T) /\ SHELL_MAX_ARGS \in Nat /\ SHELL_CMD_NAME_MAX \in Nat
  BY WordsTyped, ShellAssumption
<1>2. CASE W = << >>
  <2>1. Command(l) = NoCommand
    BY <1>2, CommandIs, Zenon DEF InWords
  <2>2. NoCommand.name = << >> /\ NoCommand.args = << >>
    BY DEF NoCommand
  <2>3. << >> \in Seq(Keys) /\ << >> \in Seq(T) /\ Len(<< >>) <= SHELL_MAX_ARGS
    BY <1>1
  <2> QED BY <2>1, <2>2, <2>3
<1>3. CASE W # << >>
  <2> DEFINE a == Cut(W[1], SHELL_CMD_NAME_MAX)
             b == Cut(Tail(W), SHELL_MAX_ARGS)
  <2>1. Command(l) = [name |-> a, args |-> b]
    BY <1>3, CommandIs, Zenon DEF InWords
  <2>2. W[1] \in T /\ Tail(W) \in Seq(T)
    <3> HIDE DEF W, T
    <3> QED BY <1>1, <1>3
  <2>3. a \in Seq(Keys)
    BY <1>1, <2>2, CutTyped
  <2>4. b \in Seq(T) /\ Len(b) <= SHELL_MAX_ARGS
    <3> HIDE DEF W, T
    <3> QED BY <1>1, <2>2, CutTyped
  <2> HIDE DEF a, b
  <2>5. Command(l).name = a /\ Command(l).args = b
    BY <2>1
  <2> QED BY <2>3, <2>4, <2>5
<1> QED BY <1>2, <1>3

-----------------------------------------------------------------------------
(* The shell's variables keep their types, and so do its buffers. *)
LEMMA FrontOf ==
  ASSUME NEW S, NEW s \in Seq(S), s # << >>
  PROVE  Front(s) \in Seq(S) /\ Len(Front(s)) = Len(s) - 1
<1>1. PICK n \in Nat : n = Len(s) - 1 /\ Len(s) = n + 1
  OBVIOUS
<1>2. \A k \in 1..n : s[k] \in S
  BY <1>1
<1>3. SubSeq(s, 1, n) \in Seq(S) /\ Len(SubSeq(s, 1, n)) = IF 1 <= n THEN n - 1 + 1 ELSE 0
  BY <1>1, <1>2, SubSeqProperties
<1>4. Len(SubSeq(s, 1, n)) = n
  BY <1>1, <1>3
<1> QED BY <1>1, <1>3, <1>4 DEF Front

LEMMA ChoppedOf ==
  ASSUME NEW S, NEW s \in Seq(S), NEW c
  PROVE  Chopped(s, c) \in Seq(S) /\ Len(Chopped(s, c)) <= Len(s)
<1>1. CASE EndsWith(s, c)
  <2>1. s # << >> /\ Len(s) \in Nat
    BY <1>1 DEF EndsWith
  <2>2. Front(s) \in Seq(S) /\ Len(Front(s)) = Len(s) - 1
    BY <2>1, FrontOf
  <2>3. Chopped(s, c) = Front(s)
    BY <1>1, Zenon DEF Chopped
  <2> QED BY <2>1, <2>2, <2>3
<1>2. CASE ~EndsWith(s, c)
  <2>1. Chopped(s, c) = s /\ Len(s) \in Nat
    BY <1>2 DEF Chopped
  <2> QED BY <2>1
<1> QED BY <1>1, <1>2

LEMMA StripOf ==
  ASSUME NEW S, NEW s \in Seq(S)
  PROVE  Strip(s) \in Seq(S) /\ Len(Strip(s)) <= Len(s)
<1> DEFINE t == Chopped(s, LINE_FEED)
<1>1. t \in Seq(S) /\ Len(t) <= Len(s)
  BY ChoppedOf
<1> HIDE DEF t
<1>2. Chopped(t, RETURN) \in Seq(S) /\ Len(Chopped(t, RETURN)) <= Len(t)
  BY <1>1, ChoppedOf
<1>3. Len(s) \in Nat /\ Len(t) \in Nat /\ Len(Chopped(t, RETURN)) \in Nat
  BY <1>1, <1>2
<1> QED BY <1>1, <1>2, <1>3 DEF Strip, t

LEMMA PieceOf ==
  ASSUME NEW S, NEW s \in Seq(S), NEW a \in Nat \ {0}, NEW b \in 0..Len(s)
  PROVE  SubSeq(s, a, b) \in Seq(S) /\ Len(SubSeq(s, a, b)) = IF a <= b THEN b - a + 1 ELSE 0
<1>1. \A k \in a..b : s[k] \in S
  <2>1. \A k \in a..b : k \in 1..Len(s)
    OBVIOUS
  <2> QED BY <2>1
<1> QED BY <1>1, SubSeqProperties

(* The number of characters that read_command takes. *)
Taken(l) == IF Len(l) < SHELL_CMD_BUF_SIZE THEN Len(l) ELSE SHELL_CMD_BUF_SIZE - 1

LEMMA TakenIs ==
  ASSUME NEW l \in Seq(Keys)
  PROVE  Taken(l) \in 0..Len(l) /\ Taken(l) < SHELL_CMD_BUF_SIZE /\ Taken(l) + 1 \in Nat \ {0}
BY ShellAssumption DEF Taken

Reads ==
  /\ shell_at = "read" /\ EndsWith(tty_buf, LINE_FEED)
  /\ shell_cmd_buf' = Strip(SubSeq(tty_buf, 1, Taken(tty_buf)))
  /\ tty_buf' = SubSeq(tty_buf, Taken(tty_buf) + 1, Len(tty_buf))
  /\ shell_at' = "parse"
  /\ UNCHANGED <<entered, submitted, fresh, cmd, opening, shell_current_dir, handles>>

LEMMA ReadIs == read_command => Reads
BY Zenon DEF read_command, Reads, Taken

LEMMA ParseIs == parse_command => cmd' = Command(shell_cmd_buf)
BY Zenon DEF parse_command, Command

LEMMA NoCommandTyped ==
  /\ NoCommand.name \in Seq(Keys) /\ NoCommand.args \in Seq(Seq(Keys) \ {<< >>})
  /\ Len(NoCommand.args) <= SHELL_MAX_ARGS
<1> DEFINE T == Seq(Keys) \ {<< >>}
<1>1. NoCommand.name = << >> /\ NoCommand.args = << >>
  BY DEF NoCommand
<1> HIDE DEF T
<1>2. << >> \in Seq(Keys) /\ << >> \in Seq(T) /\ Len(<< >>) <= SHELL_MAX_ARGS
  BY ShellAssumption
<1> QED BY <1>1, <1>2 DEF T

LEMMA NoLine == << >> \in Seq(Keys) /\ Len(<< >>) <= TTY_BUF_SIZE /\ Len(<< >>) < SHELL_CMD_BUF_SIZE
BY ShellAssumption

ShellTypes == ShellTypeOK /\ ShellHolds

LEMMA ShellTypesInductive == ShellTypes /\ [ShellNext]_shellVars => ShellTypes'
<1> SUFFICES ASSUME ShellTypes, [ShellNext]_shellVars PROVE ShellTypeOK'
  BY ShellHoldsInductive DEF ShellTypes
<1> USE DEF ShellTypes, ShellTypeOK
<1>0. /\ TTY_BUF_SIZE \in Nat /\ SHELL_CMD_BUF_SIZE \in Nat /\ SHELL_CMD_BUF_SIZE >= 2
      /\ SHELL_MAX_ARGS \in Nat
  BY ShellAssumption
<1>1. CASE execute_command
  <2>1. shell_at' \in {"open", "halted", "prompt"}
    BY <1>1 DEF execute_command
  <2> QED BY <1>1, <2>1 DEF execute_command, terminal
<1>2. CASE Check
  BY <1>2 DEF Check, Refused, terminal
<1>3. CASE display_prompt
  <2> QED BY <1>3, NoLine, NoCommandTyped DEF display_prompt
<1>4. CASE read_command
  <2> DEFINE n == Taken(tty_buf)
             s == SubSeq(tty_buf, 1, n)
  <2>1. Reads
    BY <1>4, ReadIs
  <2>2. n \in 0..Len(tty_buf) /\ n < SHELL_CMD_BUF_SIZE /\ n + 1 \in Nat \ {0}
    BY TakenIs
  <2> HIDE DEF n
  <2>3. s \in Seq(Keys) /\ Len(s) = IF 1 <= n THEN n - 1 + 1 ELSE 0
    BY <2>2, PieceOf
  <2>4. Len(s) = n
    BY <2>2, <2>3
  <2> HIDE DEF s
  <2>5. Strip(s) \in Seq(Keys) /\ Len(Strip(s)) <= n
    BY <2>3, <2>4, StripOf
  <2>6. Len(Strip(s)) < SHELL_CMD_BUF_SIZE
    BY <1>0, <2>2, <2>5
  <2>7. Len(tty_buf) \in 0..Len(tty_buf) /\ Len(tty_buf) \in Nat
    OBVIOUS
  <2>8. /\ SubSeq(tty_buf, n + 1, Len(tty_buf)) \in Seq(Keys)
        /\ Len(SubSeq(tty_buf, n + 1, Len(tty_buf))) =
             IF n + 1 <= Len(tty_buf) THEN Len(tty_buf) - (n + 1) + 1 ELSE 0
    BY <2>2, <2>7, PieceOf
  <2>9. Len(SubSeq(tty_buf, n + 1, Len(tty_buf))) <= TTY_BUF_SIZE
    BY <1>0, <2>2, <2>7, <2>8
  <2>10. shell_cmd_buf' = Strip(s) /\ tty_buf' = SubSeq(tty_buf, n + 1, Len(tty_buf))
    BY <2>1 DEF Reads, n, s
  <2>11. shell_at' = "parse" /\ UNCHANGED <<cmd, fresh, handles>>
    BY <2>1 DEF Reads
  <2> QED BY <2>5, <2>6, <2>8, <2>9, <2>10, <2>11
<1>5. CASE parse_command
  <2>1. /\ cmd'.name \in Seq(Keys) /\ cmd'.args \in Seq(Seq(Keys) \ {<< >>})
        /\ Len(cmd'.args) <= SHELL_MAX_ARGS
    BY <1>5, ParseIs, CommandTyped
  <2>2. shell_at' = "run" /\ UNCHANGED <<tty_buf, fresh, shell_cmd_buf, handles>>
    BY <1>5, Zenon DEF parse_command, terminal
  <2> QED BY <2>1, <2>2
<1>6. CASE Open
  BY <1>6 DEF Open, terminal
<1>7. CASE List
  BY <1>7 DEF List, terminal
<1>8. CASE Close
  BY <1>8 DEF Close, terminal, ShellHolds
<1>9. ASSUME NEW c \in Keys, Type(c) PROVE ShellTypeOK'
  <2>1. Len(tty_buf) < TTY_BUF_SIZE /\ UNCHANGED <<shell_at, shell_cmd_buf, cmd, handles>>
    BY <1>9 DEF Type
  <2>2. CASE c = ERASE
    <3>1. tty_buf # << >> /\ tty_buf' = Front(tty_buf) /\ UNCHANGED fresh
      BY <1>9, <2>2 DEF Type
    <3>2. Front(tty_buf) \in Seq(Keys) /\ Len(Front(tty_buf)) = Len(tty_buf) - 1
      BY <3>1, FrontOf
    <3> QED BY <1>0, <2>1, <3>1, <3>2
  <2>3. CASE c # ERASE
    <3>1. tty_buf' = Append(tty_buf, c) /\ fresh' = (c = LINE_FEED)
      BY <1>9, <2>3 DEF Type
    <3>2. Append(tty_buf, c) \in Seq(Keys) /\ Len(Append(tty_buf, c)) = Len(tty_buf) + 1
      OBVIOUS
    <3>3. fresh' \in BOOLEAN
      BY <3>1
    <3>4. Len(tty_buf') <= TTY_BUF_SIZE
      BY <1>0, <2>1, <3>1, <3>2
    <3> QED BY <2>1, <3>1, <3>2, <3>3, <3>4
  <2> QED BY <2>2, <2>3
<1>10. CASE UNCHANGED shellVars
  BY <1>10 DEF shellVars, terminal
<1> QED
  BY <1>1, <1>2, <1>3, <1>4, <1>5, <1>6, <1>7, <1>8, <1>9, <1>10 DEF ShellNext

LEMMA ShellTypesAtStart == ShellInit => ShellTypes
<1> SUFFICES ASSUME ShellInit PROVE ShellTypes
  OBVIOUS
<1>1. shell_at = "prompt" /\ fresh = FALSE /\ handles = 0
  BY DEF ShellInit
<1>2. tty_buf = << >> /\ shell_cmd_buf = << >> /\ cmd = NoCommand
  BY DEF ShellInit
<1>3. tty_buf \in Seq(Keys) /\ Len(tty_buf) <= TTY_BUF_SIZE
  BY <1>2, NoLine, Zenon
<1>4. shell_cmd_buf \in Seq(Keys) /\ Len(shell_cmd_buf) < SHELL_CMD_BUF_SIZE
  BY <1>2, NoLine, Zenon
<1> QED BY <1>1, <1>2, <1>3, <1>4, NoCommandTyped DEF ShellTypes, ShellTypeOK, ShellHolds

(* For every size of the buffers and every set of keys: the line read fits  *)
(* its buffer, and parse_command finds words, none of them empty, no more   *)
(* than the command line has room for.                                      *)
THEOREM ShellTypesHold == ShellSpec => []ShellTypeOK
<1>1. ShellTypes => ShellTypeOK
  BY DEF ShellTypes
<1> QED BY <1>1, ShellTypesAtStart, ShellTypesInductive, PTL DEF ShellSpec

-----------------------------------------------------------------------------
(***************************************************************************)
(* The line.  While the shell reads, the terminal holds what is being typed,*)
(* or the line just ended, or the '\n' that a full line left behind; what   *)
(* the shell takes of it is the line without its end.                       *)
(***************************************************************************)
Others == Keys \ {LINE_FEED}
TheLine == IF fresh THEN Chopped(submitted, RETURN) ELSE << >>

Held ==
  \/ tty_buf = entered /\ ~fresh /\ submitted = << >>
  \/ fresh /\ tty_buf = Append(submitted, LINE_FEED) /\ entered = << >>
  \/ ~fresh /\ tty_buf = <<LINE_FEED>> /\ entered = << >> /\ submitted = << >>

LineInv ==
  /\ entered \in Seq(Others) /\ submitted \in Seq(Others)
  /\ Len(tty_buf) <= SHELL_CMD_BUF_SIZE
  /\ shell_at = "read" => Held
  /\ shell_at # "read" => entered = << >> /\ tty_buf \in {<< >>, <<LINE_FEED>>}
  /\ shell_at = "parse" => shell_cmd_buf = TheLine
  /\ shell_at = "run" => cmd = InWords(Words(TheLine))

LEMMA NotEnded ==
  ASSUME NEW s \in Seq(Others)
  PROVE  ~EndsWith(s, LINE_FEED) /\ Strip(s) = Chopped(s, RETURN)
<1>1. ~EndsWith(s, LINE_FEED)
  <2> SUFFICES ASSUME s # << >> PROVE Last(s) # LINE_FEED
    BY DEF EndsWith
  <2>1. Len(s) \in 1..Len(s)
    OBVIOUS
  <2>2. s[Len(s)] \in Others
    BY <2>1
  <2> QED BY <2>2 DEF Last, Others
<1>2. Chopped(s, LINE_FEED) = s
  BY <1>1 DEF Chopped
<1> QED BY <1>1, <1>2, Zenon DEF Strip

LEMMA Ending ==
  ASSUME NEW s \in Seq(Others)
  PROVE  LET t == Append(s, LINE_FEED)
         IN  /\ t \in Seq(Keys) /\ Len(t) = Len(s) + 1 /\ EndsWith(t, LINE_FEED)
             /\ SubSeq(t, 1, Len(s) + 1) = t /\ SubSeq(t, 1, Len(s)) = s
             /\ SubSeq(t, Len(s) + 1, Len(s) + 1) = <<LINE_FEED>>
             /\ SubSeq(t, Len(s) + 2, Len(s) + 1) = << >>
<1> DEFINE t == Append(s, LINE_FEED)
           n == Len(s)
<1>1. s \in Seq(Keys) /\ LINE_FEED \in Keys /\ n \in Nat
  <2>1. Others \subseteq Keys /\ LINE_FEED \in Keys
    BY DEF Others, Keys
  <2>2. s \in Seq(Keys)
    BY <2>1
  <2> QED BY <2>1, <2>2
<1>2. /\ t \in Seq(Keys) /\ t # << >> /\ Len(t) = n + 1
      /\ \A k \in 1..n : t[k] = s[k]
      /\ t[n + 1] = LINE_FEED
  BY <1>1, AppendProperties
<1>3. /\ SubSeq(t, 1, n + 1) \in Seq(Keys) /\ Len(SubSeq(t, 1, n + 1)) = n + 1
      /\ \A k \in 1..(n + 1) : SubSeq(t, 1, n + 1)[k] = t[k]
  <2>1. \A k \in 1..(n + 1) : t[k] \in Keys
    <3> HIDE DEF t
    <3> QED BY <1>1, <1>2
  <2>2. /\ SubSeq(t, 1, n + 1) \in Seq(Keys)
        /\ Len(SubSeq(t, 1, n + 1)) = IF 1 <= n + 1 THEN n + 1 - 1 + 1 ELSE 0
        /\ \A k \in 1..(n + 1 - 1 + 1) : SubSeq(t, 1, n + 1)[k] = t[1 + k - 1]
    <3> HIDE DEF t, n
    <3> QED BY <1>1, <2>1, SubSeqProperties
  <2>3. /\ (IF 1 <= n + 1 THEN n + 1 - 1 + 1 ELSE 0) = n + 1 /\ n + 1 - 1 + 1 = n + 1
        /\ \A k \in 1..(n + 1) : 1 + k - 1 = k
    BY <1>1
  <2> HIDE DEF t, n
  <2> QED BY <2>2, <2>3
<1>4. /\ SubSeq(t, 1, n) \in Seq(Keys) /\ Len(SubSeq(t, 1, n)) = n
      /\ \A k \in 1..n : SubSeq(t, 1, n)[k] = t[k]
  <2>1. \A k \in 1..n : t[k] \in Keys
    <3> HIDE DEF t
    <3>1. \A k \in 1..n : k \in 1..(n + 1)
      BY <1>1
    <3> QED BY <1>1, <1>2, <3>1
  <2>2. /\ SubSeq(t, 1, n) \in Seq(Keys)
        /\ Len(SubSeq(t, 1, n)) = IF 1 <= n THEN n - 1 + 1 ELSE 0
        /\ \A k \in 1..(n - 1 + 1) : SubSeq(t, 1, n)[k] = t[1 + k - 1]
    <3> HIDE DEF t, n
    <3> QED BY <1>1, <2>1, SubSeqProperties
  <2>3. /\ (IF 1 <= n THEN n - 1 + 1 ELSE 0) = n /\ n - 1 + 1 = n
        /\ \A k \in 1..n : 1 + k - 1 = k
    BY <1>1
  <2> HIDE DEF t, n
  <2> QED BY <2>2, <2>3
<1>5. SubSeq(t, n + 1, n + 1) = <<LINE_FEED>>
  <2> DEFINE u == SubSeq(t, n + 1, n + 1)
  <2>1. /\ u \in Seq(Keys) /\ Len(u) = IF n + 1 <= n + 1 THEN n + 1 - (n + 1) + 1 ELSE 0
        /\ \A k \in 1..(n + 1 - (n + 1) + 1) : u[k] = t[n + 1 + k - 1]
    <3>1. \A k \in (n + 1)..(n + 1) : t[k] \in Keys
      BY <1>1, <1>2
    <3> HIDE DEF t, n
    <3> QED BY <1>1, <3>1, SubSeqProperties
  <2>2. /\ (IF n + 1 <= n + 1 THEN n + 1 - (n + 1) + 1 ELSE 0) = 1 /\ n + 1 - (n + 1) + 1 = 1
        /\ n + 1 + 1 - 1 = n + 1
    BY <1>1
  <2> HIDE DEF u, t, n
  <2>3. Len(u) = 1 /\ u[1] = LINE_FEED
    BY <1>2, <2>1, <2>2
  <2>4. <<LINE_FEED>> \in Seq(Keys) /\ Len(<<LINE_FEED>>) = 1 /\ <<LINE_FEED>>[1] = LINE_FEED
    BY <1>1
  <2>5. \A k \in 1..Len(u) : u[k] = <<LINE_FEED>>[k]
    BY <2>3, <2>4
  <2>6. u = <<LINE_FEED>>
    BY <2>1, <2>3, <2>4, <2>5, SeqEqual
  <2> QED BY <2>6 DEF u
<1>6. SubSeq(t, n + 2, n + 1) = << >>
  <2> HIDE DEF t, n
  <2> QED BY <1>1, SubSeqEmpty
<1>7. SubSeq(t, 1, n + 1) = t /\ SubSeq(t, 1, n) = s
  <2> HIDE DEF t
  <2>1. SubSeq(t, 1, n + 1) = t
    BY <1>2, <1>3, SeqEqual
  <2>2. SubSeq(t, 1, n) = s
    BY <1>1, <1>2, <1>4, SeqEqual
  <2> QED BY <2>1, <2>2
<1>8. EndsWith(t, LINE_FEED)
  <2> HIDE DEF t
  <2> QED BY <1>2 DEF EndsWith, Last
<1> QED BY <1>2, <1>5, <1>6, <1>7, <1>8

LEMMA TheLineTyped ==
  ASSUME submitted \in Seq(Others)
  PROVE  TheLine \in Seq(Keys)
<1>1. Others \subseteq Keys
  BY DEF Others
<1>2. submitted \in Seq(Keys)
  BY <1>1
<1>3. Chopped(submitted, RETURN) \in Seq(Keys) /\ << >> \in Seq(Keys)
  BY <1>2, ChoppedOf
<1> QED BY <1>3 DEF TheLine

(* What the reader takes is the line, and it leaves nothing or the '\n'. *)
LEMMA TakesTheLine ==
  ASSUME LineInv, shell_at = "read", EndsWith(tty_buf, LINE_FEED)
  PROVE  /\ Strip(SubSeq(tty_buf, 1, Taken(tty_buf))) = TheLine
         /\ SubSeq(tty_buf, Taken(tty_buf) + 1, Len(tty_buf)) \in {<< >>, <<LINE_FEED>>}
         /\ entered = << >>
<1>1. Held /\ entered \in Seq(Others) /\ submitted \in Seq(Others)
      /\ Len(tty_buf) <= SHELL_CMD_BUF_SIZE
  BY DEF LineInv
<1>2. tty_buf # entered
  BY <1>1, NotEnded
<1>3. SHELL_CMD_BUF_SIZE \in Nat /\ SHELL_CMD_BUF_SIZE >= 2
  BY ShellAssumption
<1>4. CASE fresh /\ tty_buf = Append(submitted, LINE_FEED) /\ entered = << >>
  <2>1. PICK n \in Nat : n = Len(submitted)
    BY <1>1
  <2>2. /\ tty_buf \in Seq(Keys) /\ Len(tty_buf) = n + 1
        /\ SubSeq(tty_buf, 1, n + 1) = tty_buf /\ SubSeq(tty_buf, 1, n) = submitted
        /\ SubSeq(tty_buf, n + 1, n + 1) = <<LINE_FEED>>
        /\ SubSeq(tty_buf, n + 2, n + 1) = << >>
    BY <1>1, <1>4, <2>1, Ending
  <2>3. TheLine = Chopped(submitted, RETURN)
    BY <1>4 DEF TheLine
  <2>4. CASE n + 1 < SHELL_CMD_BUF_SIZE
    <3>1. Taken(tty_buf) = n + 1 /\ n + 1 + 1 = n + 2
      BY <2>2, <2>4 DEF Taken
    <3>2. Chopped(tty_buf, LINE_FEED) = submitted
      <4>1. Front(tty_buf) = SubSeq(tty_buf, 1, n + 1 - 1) /\ n + 1 - 1 = n
        BY <2>2 DEF Front
      <4>2. Front(tty_buf) = submitted
        BY <2>2, <4>1
      <4> QED BY <4>2 DEF Chopped
    <3>3. Strip(tty_buf) = TheLine
      BY <2>3, <3>2, Zenon DEF Strip
    <3> QED BY <1>4, <2>2, <3>1, <3>3
  <2>5. CASE ~(n + 1 < SHELL_CMD_BUF_SIZE)
    <3>1. Taken(tty_buf) = n
      BY <1>1, <1>3, <2>2, <2>5 DEF Taken
    <3>2. Strip(submitted) = TheLine
      BY <1>1, <2>3, NotEnded
    <3> QED BY <1>4, <2>2, <3>1, <3>2
  <2> QED BY <2>4, <2>5
<1>5. CASE ~fresh /\ tty_buf = <<LINE_FEED>> /\ entered = << >>
  <2>1. /\ tty_buf = Append(<< >>, LINE_FEED) /\ << >> \in Seq(Others) /\ Len(<< >>) = 0
    BY <1>5
  <2>2. /\ Len(tty_buf) = 0 + 1 /\ SubSeq(tty_buf, 1, 0 + 1) = tty_buf
        /\ SubSeq(tty_buf, 1, 0) = << >> /\ SubSeq(tty_buf, 0 + 2, 0 + 1) = << >>
    BY <2>1, Ending
  <2>3. /\ Len(tty_buf) = 1 /\ SubSeq(tty_buf, 1, 1) = tty_buf
        /\ SubSeq(tty_buf, 1, 0) = << >> /\ SubSeq(tty_buf, 2, 1) = << >>
    BY <2>2
  <2>4. Taken(tty_buf) = 1
    BY <1>3, <2>3 DEF Taken
  <2>5. Chopped(tty_buf, LINE_FEED) = << >>
    <3>1. Front(tty_buf) = SubSeq(tty_buf, 1, 1 - 1) /\ 1 - 1 = 0
      BY <2>3 DEF Front
    <3>2. Front(tty_buf) = << >>
      BY <2>3, <3>1
    <3> QED BY <3>2 DEF Chopped
  <2>6. Chopped(<< >>, RETURN) = << >>
    BY Zenon DEF Chopped, EndsWith
  <2>7. Strip(tty_buf) = << >>
    BY <2>5, <2>6, Zenon DEF Strip
  <2>8. TheLine = << >>
    BY <1>5 DEF TheLine
  <2>9. 1 + 1 = 2
    OBVIOUS
  <2> QED BY <1>5, <2>3, <2>4, <2>7, <2>8, <2>9
<1> QED BY <1>1, <1>2, <1>4, <1>5 DEF Held

(* The code gives the buffer of the terminal and the line buffer one size. *)
OneSize == TTY_BUF_SIZE = SHELL_CMD_BUF_SIZE

LEMMA LineTyped ==
  ASSUME NEW c \in Keys, Type(c), shell_at = "read", Held, ~EndsWith(tty_buf, LINE_FEED),
         entered \in Seq(Others), submitted \in Seq(Others)
  PROVE  entered' \in Seq(Others) /\ submitted' \in Seq(Others) /\ Held'
<1>1. tty_buf = entered /\ ~fresh /\ submitted = << >>
  <2>1. ~(tty_buf = <<LINE_FEED>>)
    <3>1. <<LINE_FEED>> = Append(<< >>, LINE_FEED) /\ << >> \in Seq(Others)
      OBVIOUS
    <3> QED BY <3>1, Ending
  <2>2. ~(tty_buf = Append(submitted, LINE_FEED))
    BY Ending
  <2> QED BY <2>1, <2>2 DEF Held
<1>2. CASE c = ERASE
  <2>1. tty_buf' = Front(tty_buf) /\ entered' = Front(entered) /\ tty_buf # << >>
        /\ UNCHANGED <<submitted, fresh>>
    BY <1>2 DEF Type
  <2>2. Front(entered) \in Seq(Others)
    BY <1>1, <2>1, FrontOf
  <2> QED BY <1>1, <2>1, <2>2 DEF Held
<1>3. CASE c # ERASE /\ c = LINE_FEED
  <2>1. /\ tty_buf' = Append(tty_buf, LINE_FEED) /\ entered' = << >> /\ submitted' = entered
        /\ fresh' = TRUE
    BY <1>3 DEF Type
  <2> QED BY <1>1, <2>1 DEF Held
<1>4. CASE c # ERASE /\ c # LINE_FEED
  <2>1. /\ tty_buf' = Append(tty_buf, c) /\ entered' = Append(entered, c)
        /\ submitted' = submitted /\ fresh' = FALSE
    BY <1>4 DEF Type
  <2>2. c \in Others
    BY <1>4 DEF Others
  <2>3. Append(entered, c) \in Seq(Others)
    BY <2>2
  <2> QED BY <1>1, <2>1, <2>3 DEF Held
<1> QED BY <1>2, <1>3, <1>4

LEMMA LineInductive ==
  OneSize /\ ShellTypes /\ LineInv /\ [ShellNext]_shellVars => LineInv'
<1> SUFFICES ASSUME OneSize, ShellTypes, LineInv, [ShellNext]_shellVars PROVE LineInv'
  OBVIOUS
<1>0. Len(tty_buf)' <= SHELL_CMD_BUF_SIZE
  <2>1. ShellTypes'
    BY ShellTypesInductive
  <2> QED BY <2>1 DEF ShellTypes, ShellTypeOK, OneSize
<1>1. CASE execute_command
  <2>1. shell_at = "run" /\ shell_at' \in {"open", "halted", "prompt"}
        /\ UNCHANGED <<tty_buf, entered, submitted>>
    BY <1>1 DEF execute_command, terminal
  <2> QED BY <1>0, <2>1 DEF LineInv
<1>2. CASE Check
  BY <1>0, <1>2 DEF Check, Refused, terminal, LineInv
<1>3. CASE display_prompt
  <2>1. /\ shell_at = "prompt" /\ shell_at' = "read" /\ fresh' = FALSE /\ submitted' = << >>
        /\ UNCHANGED <<tty_buf, entered>>
    BY <1>3 DEF display_prompt
  <2>2. << >> \in Seq(Others) /\ entered = << >> /\ tty_buf \in {<< >>, <<LINE_FEED>>}
    BY <2>1 DEF LineInv
  <2>3. Held'
    BY <2>1, <2>2 DEF Held
  <2> QED BY <1>0, <2>1, <2>2, <2>3 DEF LineInv
<1>4. CASE read_command
  <2>1. Reads
    BY <1>4, ReadIs
  <2>2. shell_at = "read" /\ EndsWith(tty_buf, LINE_FEED) /\ shell_at' = "parse"
        /\ UNCHANGED <<entered, submitted, fresh>>
    BY <2>1 DEF Reads
  <2>3. /\ shell_cmd_buf' = Strip(SubSeq(tty_buf, 1, Taken(tty_buf)))
        /\ tty_buf' = SubSeq(tty_buf, Taken(tty_buf) + 1, Len(tty_buf))
    BY <2>1 DEF Reads
  <2>4. shell_cmd_buf' = TheLine /\ tty_buf' \in {<< >>, <<LINE_FEED>>} /\ entered = << >>
    BY <2>2, <2>3, TakesTheLine
  <2>5. TheLine' = TheLine
    BY <2>2 DEF TheLine
  <2> QED BY <1>0, <2>2, <2>4, <2>5 DEF LineInv
<1>5. CASE parse_command
  <2>1. shell_at = "parse" /\ shell_at' = "run" /\ UNCHANGED <<tty_buf, entered, submitted, fresh>>
    BY <1>5, Zenon DEF parse_command, terminal
  <2>2. shell_cmd_buf = TheLine /\ TheLine \in Seq(Keys)
    BY <2>1, TheLineTyped DEF LineInv
  <2>3. cmd' = InWords(Words(TheLine))
    BY <1>5, <2>2, ParseIs, CommandIs
  <2>4. TheLine' = TheLine
    BY <2>1 DEF TheLine
  <2>5. InWords(Words(TheLine')) = InWords(Words(TheLine))
    BY <2>4
  <2> QED BY <1>0, <2>1, <2>3, <2>4 DEF LineInv
<1>6. CASE Open
  BY <1>0, <1>6 DEF Open, terminal, LineInv
<1>7. CASE List
  BY <1>0, <1>7 DEF List, terminal, LineInv
<1>8. CASE Close
  BY <1>0, <1>8 DEF Close, terminal, LineInv
<1>9. ASSUME NEW c \in Keys, Type(c) PROVE LineInv'
  <2>1. shell_at = "read" /\ ~EndsWith(tty_buf, LINE_FEED) /\ shell_at' = "read"
    BY <1>9 DEF Type, Waiting
  <2>2. Held /\ entered \in Seq(Others) /\ submitted \in Seq(Others)
    BY <2>1 DEF LineInv
  <2>3. entered' \in Seq(Others) /\ submitted' \in Seq(Others) /\ Held'
    BY <1>9, <2>1, <2>2, LineTyped
  <2> QED BY <1>0, <2>1, <2>3 DEF LineInv
<1>10. CASE UNCHANGED shellVars
  <2>1. UNCHANGED <<shell_at, tty_buf, entered, submitted, fresh, shell_cmd_buf, cmd>>
    BY <1>10 DEF shellVars, terminal
  <2>2. TheLine' = TheLine
    BY <2>1 DEF TheLine
  <2>3. Held' <=> Held
    BY <2>1 DEF Held
  <2> QED BY <1>0, <2>1, <2>2, <2>3 DEF LineInv
<1> QED
  BY <1>1, <1>2, <1>3, <1>4, <1>5, <1>6, <1>7, <1>8, <1>9, <1>10 DEF ShellNext

LEMMA NoWords == Words(<< >>) = << >>
<1> DEFINE e == << >>
           T == Seq(Keys) \ {<< >>}
<1>1. e \in Seq(Keys) /\ Len(e) = 0 /\ DOMAIN e = {}
  OBVIOUS
<1>2. Starts(e) = {}
  BY <1>1 DEF Starts
<1>3. Count(e) = 0
  BY <1>2, FS_EmptySet DEF Count
<1>4. Words(e) \in Seq(T) /\ Len(Words(e)) = 0
  <2> HIDE DEF e
  <2> QED BY <1>1, <1>3, WordsTyped
<1>5. Words(e) = << >>
  <2> HIDE DEF e, T
  <2> QED BY <1>4, EmptySeq
<1> QED BY <1>5

(* For every size that the two buffers share and every set of keys: what    *)
(* the shell runs is what was typed, corrected and in words, a full line    *)
(* that leaves its '\n' behind included.                                    *)
THEOREM LineBecomesCommand == OneSize /\ ShellSpec => []LineIsCommand
<1> SUFFICES ASSUME OneSize PROVE ShellSpec => []LineIsCommand
  OBVIOUS
<1>1. ShellInit => LineInv
  <2>1. << >> \in Seq(Others)
    OBVIOUS
  <2>2. << >> \in {<< >>, <<LINE_FEED>>} /\ Len(<< >>) <= SHELL_CMD_BUF_SIZE
    BY ShellAssumption
  <2> SUFFICES ASSUME ShellInit PROVE LineInv
    OBVIOUS
  <2>3. shell_at = "prompt" /\ tty_buf = << >> /\ entered = << >> /\ submitted = << >>
    BY DEF ShellInit
  <2>4. Len(tty_buf) <= SHELL_CMD_BUF_SIZE /\ tty_buf \in {<< >>, <<LINE_FEED>>}
    BY <2>2, <2>3, Zenon
  <2> QED BY <2>1, <2>3, <2>4 DEF LineInv
<1>2. LineInv => LineIsCommand
  <2> SUFFICES ASSUME LineInv, shell_at = "run"
               PROVE  LET w == Words(Chopped(submitted, RETURN))
                      IN  IF fresh /\ w # << >>
                            THEN cmd = [name |-> Cut(w[1], SHELL_CMD_NAME_MAX),
                                        args |-> Cut(Tail(w), SHELL_MAX_ARGS)]
                            ELSE cmd = NoCommand
    BY Zenon DEF LineIsCommand
  <2>1. cmd = InWords(Words(TheLine))
    BY DEF LineInv
  <2>2. CASE fresh
    <3>1. TheLine = Chopped(submitted, RETURN)
      BY <2>2 DEF TheLine
    <3> QED BY <2>1, <2>2, <3>1, Zenon DEF InWords
  <2>3. CASE ~fresh
    <3>1. TheLine = << >>
      BY <2>3 DEF TheLine
    <3>2. cmd = NoCommand
      BY <2>1, <3>1, NoWords, Zenon DEF InWords
    <3> QED BY <2>3, <3>2, Zenon
  <2> QED BY <2>2, <2>3
<1>3. ShellInit => ShellTypes
  BY ShellTypesAtStart
<1>4. ShellTypes /\ LineInv /\ [ShellNext]_shellVars => LineInv'
  BY LineInductive
<1> QED BY <1>1, <1>2, <1>3, <1>4, ShellTypesInductive, PTL DEF ShellSpec
-----------------------------------------------------------------------------
(* The current directory. *)
PathFits(p) ==
  p \in Seq(Keys) /\ Len(p) \in 1..SHELL_CURRENT_DIR_MAX_LEN /\ p[1] = SLASH

CwdInv ==
  /\ PathFits(shell_current_dir)
  /\ shell_at \in {"open", "check"} /\ cmd.name = <<CD>> => PathFits(path)

LEMMA RootFits == PathFits(Root)
<1>1. SHELL_CURRENT_DIR_MAX_LEN \in Nat /\ SHELL_CURRENT_DIR_MAX_LEN >= 1
  BY ShellAssumption
<1>2. Root \in Seq(Keys) /\ Len(Root) = 1 /\ Root[1] = SLASH
  BY DEF Root, Keys
<1> QED BY <1>1, <1>2 DEF PathFits

(* A path that is not too long by the test of shell_cmd_cd. *)
LEMMA FullPathFits ==
  ASSUME PathFits(shell_current_dir), NEW a \in Seq(Keys) \ {<< >>}, ~TooLong(a)
  PROVE  PathFits(FullPath(a))
<1>1. /\ SHELL_CURRENT_DIR_MAX_LEN \in Nat /\ a \in Seq(Keys) /\ Len(a) \in Nat /\ Len(a) >= 1
      /\ SLASH \in Keys
  BY ShellAssumption DEF Keys
<1>2. CASE a[1] = SLASH
  BY <1>1, <1>2 DEF TooLong, FullPath, PathFits
<1>3. CASE a[1] # SLASH
  <2>1. Len(shell_current_dir) + 1 + Len(a) + 1 <= SHELL_CURRENT_DIR_MAX_LEN
    BY <1>1, <1>3 DEF TooLong, PathFits
  <2>2. CASE shell_current_dir = Root
    <3>1. Root \o a \in Seq(Keys) /\ Len(Root \o a) = 1 + Len(a) /\ (Root \o a)[1] = SLASH
      BY <1>1 DEF Root
    <3> QED BY <1>1, <1>3, <2>1, <2>2, <3>1 DEF FullPath, PathFits, Root
  <2>3. CASE shell_current_dir # Root
    <3> DEFINE p == shell_current_dir \o <<SLASH>> \o a
    <3>1. /\ p \in Seq(Keys) /\ Len(p) = Len(shell_current_dir) + 1 + Len(a)
          /\ p[1] = shell_current_dir[1]
      BY <1>1 DEF PathFits
    <3>2. FullPath(a) = p
      BY <1>3, <2>3 DEF FullPath
    <3> QED BY <1>1, <2>1, <3>1, <3>2 DEF PathFits
  <2> QED BY <2>2, <2>3
<1> QED BY <1>2, <1>3

LEMMA CwdInductive == CwdInv /\ ShellTypeOK /\ [ShellNext]_shellVars => CwdInv'
<1> SUFFICES ASSUME CwdInv, ShellTypeOK, [ShellNext]_shellVars PROVE CwdInv'
  OBVIOUS
<1>1. CASE execute_command
  <2>1. UNCHANGED <<cmd, shell_current_dir>>
    BY <1>1 DEF execute_command
  <2>2. CASE path' \in Targets /\ cmd.name = <<CD>>
    <3>1. Opens(path')
      BY <2>2 DEF Targets
    <3>2. CASE path' = shell_current_dir \/ path' = Root
      BY <2>1, <3>2, RootFits DEF CwdInv, PathFits
    <3>3. CASE argc = 1 /\ ~TooLong(cmd.args[1]) /\ path' = FullPath(cmd.args[1])
      <4>1. cmd.args[1] \in Seq(Keys) \ {<< >>}
        BY <3>3 DEF ShellTypeOK, argc
      <4>2. PathFits(FullPath(cmd.args[1]))
        BY <3>3, <4>1, FullPathFits DEF CwdInv
      <4> QED BY <2>1, <3>3, <4>2 DEF CwdInv, PathFits
    <3> QED BY <3>1, <3>2, <3>3 DEF Opens
  <2>3. CASE ~(path' \in Targets /\ cmd.name = <<CD>>)
    BY <1>1, <2>1, <2>3 DEF execute_command, CwdInv, PathFits
  <2> QED BY <2>2, <2>3
<1>2. CASE Check
  BY <1>2 DEF CwdInv, PathFits, Check, Refused, opening
<1>3. CASE display_prompt
  BY <1>3 DEF CwdInv, PathFits, display_prompt
<1>4. CASE read_command
  BY <1>4 DEF CwdInv, PathFits, read_command
<1>5. CASE parse_command
  BY <1>5, Parsed DEF CwdInv, PathFits
<1>6. CASE Open
  BY <1>6 DEF CwdInv, PathFits, Open
<1>7. CASE List
  BY <1>7 DEF CwdInv, PathFits, List
<1>8. CASE Close
  BY <1>8 DEF CwdInv, PathFits, Close
<1>9. CASE \E c \in Keys : Type(c)
  BY <1>9 DEF CwdInv, PathFits, Type, Waiting, opening
<1>10. CASE UNCHANGED shellVars
  BY <1>10 DEF CwdInv, PathFits, shellVars, opening
<1> QED
  BY <1>1, <1>2, <1>3, <1>4, <1>5, <1>6, <1>7, <1>8, <1>9, <1>10 DEF ShellNext

(* For every size of the buffers: however cd is repeated, the current       *)
(* directory is an absolute path that fits its buffer.                      *)
THEOREM CwdAlwaysFits == ShellSpec => []CwdFits
<1>1. ShellInit => CwdInv
  BY RootFits DEF ShellInit, CwdInv
<1>2. CwdInv => CwdFits
  BY DEF CwdInv, PathFits, CwdFits
<1> QED BY <1>1, <1>2, CwdInductive, ShellTypesHold, PTL DEF ShellSpec
-----------------------------------------------------------------------------
(***************************************************************************)
(* The package manager.                                                    *)
(***************************************************************************)
PkgHolds ==
  /\ pkg_at = "idle" => pkg_handles = 0
  /\ pkg_at \in {"copy", "line"} => pkg_handles = 2
  /\ pkg_at \notin {"idle", "copy", "line"} => pkg_handles = 1

LEMMA PkgHoldsInductive == PkgHolds /\ [PkgNext]_pkgVars => PkgHolds'
<1> SUFFICES ASSUME PkgHolds, [PkgNext]_pkgVars PROVE PkgHolds'
  OBVIOUS
<1>1. CASE ReadHeader \/ CheckInstalled \/ ReadEntry
  BY <1>1 DEF PkgHolds, ReadHeader, CheckInstalled, ReadEntry, Fail, Leave
<1>2. CASE OpenDest
  BY <1>2 DEF PkgHolds, OpenDest, Fail, Leave
<1>3. CASE CopySector
  BY <1>3 DEF PkgHolds, CopySector, AfterFailure, Fail, Leave
<1>4. CASE CloseDest
  BY <1>4 DEF PkgHolds, CloseDest
<1>5. CASE OpenDb
  BY <1>5 DEF PkgHolds, OpenDb, Fail, Leave
<1>6. CASE WriteLine
  BY <1>6 DEF PkgHolds, WriteLine
<1>7. CASE CloseDb
  BY <1>7 DEF PkgHolds, CloseDb, Leave
<1>8. CASE Cleanup
  BY <1>8 DEF PkgHolds, Cleanup, Leave
<1>9. CASE PowerCut
  BY <1>9 DEF PkgHolds, PowerCut
<1>10. CASE pkg_init
  BY <1>10 DEF PkgHolds, pkg_init
<1>11. CASE \E p \in Packages : pkg_install(p)
  BY <1>11 DEF PkgHolds, pkg_install
<1>12. CASE UNCHANGED pkgVars
  BY <1>12 DEF PkgHolds, pkgVars
<1> QED
  BY <1>1, <1>2, <1>3, <1>4, <1>5, <1>6, <1>7, <1>8, <1>9, <1>10, <1>11, <1>12
  DEF PkgNext, PkgStep

(* For all packages, whatever call of the file system fails: pkg_install    *)
(* closes what it has opened, and holds two handles at most.                *)
THEOREM PkgClosesHandles == PkgSpec => []PkgHandlesClosed
<1>1. PkgInit => PkgHolds
  BY DEF PkgInit, PkgHolds
<1>2. PkgHolds => PkgHandlesClosed
  BY DEF PkgHolds, PkgHandlesClosed
<1> QED BY <1>1, <1>2, PkgHoldsInductive, PTL DEF PkgSpec
-----------------------------------------------------------------------------
(***************************************************************************)
(* The database.  Where a line and a name in it stop, and what a text that  *)
(* ends with a line end becomes when a line, or the beginning of one, is    *)
(* added to it.                                                            *)
(***************************************************************************)
LEMMA LineStops ==
  ASSUME NEW d, NEW j \in Nat, NEW e \in j..(Len(d) + 1),
         Ended(d, e), \A k \in j..(e - 1) : ~Ended(d, k), Len(d) \in Nat
  PROVE  LineAt(d, j) = SubSeq(d, j, e - 1)
<1> DEFINE Is(f) == Ended(d, f) /\ \A k \in j..(f - 1) : ~Ended(d, k)
<1>1. ASSUME NEW f \in j..(Len(d) + 1), Is(f) PROVE f = e
  <2>1. ~(f < e)
    <3> SUFFICES ASSUME f < e PROVE FALSE
      OBVIOUS
    <3>1. f \in j..(e - 1)
      OBVIOUS
    <3> QED BY <1>1, <3>1
  <2>2. ~(e < f)
    <3> SUFFICES ASSUME e < f PROVE FALSE
      OBVIOUS
    <3>1. e \in j..(f - 1)
      OBVIOUS
    <3> QED BY <1>1, <3>1
  <2> QED BY <2>1, <2>2
<1>2. Is(e)
  OBVIOUS
<1>3. LineAt(d, j) = SubSeq(d, j, (CHOOSE f \in j..(Len(d) + 1) : Is(f)) - 1)
  BY Zenon DEF LineAt, UpTo
<1> HIDE DEF Is
<1>4. (CHOOSE f \in j..(Len(d) + 1) : Is(f)) = e
  BY <1>1, <1>2
<1> QED BY <1>3, <1>4, Zenon

NameEnds(d, e) == Ended(d, e) \/ d[e] = BLANK_CHAR

LEMMA NameStops ==
  ASSUME NEW d, NEW j \in Nat, NEW e \in j..(Len(d) + 1),
         NameEnds(d, e), \A k \in j..(e - 1) : ~NameEnds(d, k), Len(d) \in Nat
  PROVE  NameAt(d, j) = SubSeq(d, j, e - 1)
<1> DEFINE Is(f) == NameEnds(d, f) /\ \A k \in j..(f - 1) : ~NameEnds(d, k)
<1>1. ASSUME NEW f \in j..(Len(d) + 1), Is(f) PROVE f = e
  <2>1. ~(f < e)
    <3> SUFFICES ASSUME f < e PROVE FALSE
      OBVIOUS
    <3>1. f \in j..(e - 1)
      OBVIOUS
    <3> QED BY <1>1, <3>1
  <2>2. ~(e < f)
    <3> SUFFICES ASSUME e < f PROVE FALSE
      OBVIOUS
    <3>1. e \in j..(f - 1)
      OBVIOUS
    <3> QED BY <1>1, <3>1
  <2> QED BY <2>1, <2>2
<1>2. Is(e)
  OBVIOUS
<1>3. NameAt(d, j) = SubSeq(d, j, (CHOOSE f \in j..(Len(d) + 1) : Is(f)) - 1)
  BY Zenon DEF NameAt, UpTo, NameEnds
<1> HIDE DEF Is
<1>4. (CHOOSE f \in j..(Len(d) + 1) : Is(f)) = e
  BY <1>1, <1>2
<1> QED BY <1>3, <1>4, Zenon

(* A text that is empty or ends with a line end. *)
Closed(d) == d = << >> \/ d[Len(d)] \in {CR_CHAR, LF_CHAR}

(* In a closed text both stops are in the text. *)
LEMMA ClosedStops ==
  ASSUME NEW C, NEW d \in Seq(C), Closed(d), NEW j \in 1..Len(d)
  PROVE  /\ \E e \in j..Len(d) : Ended(d, e) /\ \A k \in j..(e - 1) : ~Ended(d, k)
         /\ \E e \in j..Len(d) : NameEnds(d, e) /\ \A k \in j..(e - 1) : ~NameEnds(d, k)
<1>1. Len(d) \in Nat /\ Len(d) \in j..Len(d) /\ d # << >>
  OBVIOUS
<1>2. Ended(d, Len(d)) /\ NameEnds(d, Len(d))
  BY <1>1 DEF Closed, Ended, NameEnds
<1> DEFINE T == {e \in j..Len(d) : Ended(d, e)}
           U == {e \in j..Len(d) : NameEnds(d, e)}
<1>3. \E e \in j..Len(d) : Ended(d, e) /\ \A k \in j..(e - 1) : ~Ended(d, k)
  <2>1. T \subseteq Nat /\ Len(d) \in T
    BY <1>1, <1>2
  <2>2. PICK e \in T : \A k \in T : e <= k
    <3> HIDE DEF T
    <3> QED BY <2>1, LeastNumber
  <2>3. ASSUME NEW k \in j..(e - 1) PROVE ~Ended(d, k)
    <3>1. k \in j..Len(d) /\ ~(e <= k)
      BY <1>1
    <3>2. k \notin T
      BY <2>2, <3>1
    <3> QED BY <3>1, <3>2
  <2> QED BY <2>3
<1>4. \E e \in j..Len(d) : NameEnds(d, e) /\ \A k \in j..(e - 1) : ~NameEnds(d, k)
  <2>1. U \subseteq Nat /\ Len(d) \in U
    BY <1>1, <1>2
  <2>2. PICK e \in U : \A k \in U : e <= k
    <3> HIDE DEF U
    <3> QED BY <2>1, LeastNumber
  <2>3. ASSUME NEW k \in j..(e - 1) PROVE ~NameEnds(d, k)
    <3>1. k \in j..Len(d) /\ ~(e <= k)
      BY <1>1
    <3>2. k \notin U
      BY <2>2, <3>1
    <3> QED BY <3>1, <3>2
  <2> QED BY <2>3
<1> QED BY <1>3, <1>4

(* b characters of a line, the first m of them its name, then the line end  *)
(* as far as it has been written.                                          *)
LineOf(x, m, b) ==
  /\ b \in 1..Len(x) /\ m \in 1..b
  /\ \A k \in 1..b : x[k] \notin {CR_CHAR, LF_CHAR}
  /\ \A k \in (b + 1)..Len(x) : x[k] \in {CR_CHAR, LF_CHAR}
  /\ \A k \in 1..m : x[k] # BLANK_CHAR
  /\ m = b \/ x[m + 1] = BLANK_CHAR

LEMMA Joined ==
  ASSUME NEW C, NEW d \in Seq(C), NEW x \in Seq(C)
  PROVE  /\ d \o x \in Seq(C) /\ Len(d \o x) = Len(d) + Len(x)
         /\ Len(d) \in Nat /\ Len(x) \in Nat
         /\ \A k \in 1..Len(d) : (d \o x)[k] = d[k]
         /\ \A k \in 1..Len(x) : (d \o x)[Len(d) + k] = x[k]
<1>1. Len(d) \in Nat /\ Len(x) \in Nat
  OBVIOUS
<1>2. /\ d \o x \in Seq(C) /\ Len(d \o x) = Len(d) + Len(x)
      /\ \A k \in 1..(Len(d) + Len(x)) : (d \o x)[k] = IF k <= Len(d) THEN d[k] ELSE x[k - Len(d)]
  BY ConcatProperties
<1>3. ASSUME NEW k \in 1..Len(d) PROVE (d \o x)[k] = d[k]
  <2>1. k \in 1..(Len(d) + Len(x)) /\ k <= Len(d)
    BY <1>1
  <2> QED BY <1>2, <2>1
<1>4. ASSUME NEW k \in 1..Len(x) PROVE (d \o x)[Len(d) + k] = x[k]
  <2>1. Len(d) + k \in 1..(Len(d) + Len(x)) /\ ~(Len(d) + k <= Len(d)) /\ Len(d) + k - Len(d) = k
    BY <1>1
  <2> QED BY <1>2, <2>1
<1> QED BY <1>1, <1>2, <1>3, <1>4

(* The stops of the old lines stay, whatever is added. *)
LEMMA OldLines ==
  ASSUME NEW C, NEW d \in Seq(C), NEW x \in Seq(C), Closed(d), NEW j \in 1..Len(d)
  PROVE  /\ LineAt(d \o x, j) = LineAt(d, j) /\ NameAt(d \o x, j) = NameAt(d, j)
         /\ Ended(d \o x, j) <=> Ended(d, j)
<1> DEFINE e == d \o x
           L == Len(d)
<1>1. /\ e \in Seq(C) /\ Len(e) = L + Len(x) /\ L \in Nat /\ Len(x) \in Nat
      /\ \A k \in 1..L : e[k] = d[k]
  BY Joined
<1> HIDE DEF e
<1>2. ASSUME NEW k \in 1..L
      PROVE  /\ Ended(e, k) <=> Ended(d, k)
             /\ NameEnds(e, k) <=> NameEnds(d, k)
  <2>1. ~(k > L) /\ ~(k > Len(e)) /\ e[k] = d[k]
    BY <1>1
  <2> QED BY <2>1 DEF Ended, NameEnds
<1>3. PICK s \in j..L : Ended(d, s) /\ \A k \in j..(s - 1) : ~Ended(d, k)
  BY ClosedStops
<1>4. PICK t \in j..L : NameEnds(d, t) /\ \A k \in j..(t - 1) : ~NameEnds(d, k)
  BY ClosedStops
<1>5. /\ s \in 1..L /\ t \in 1..L /\ j \in Nat
      /\ \A k \in j..(s - 1) : k \in 1..L
      /\ \A k \in j..(t - 1) : k \in 1..L
  BY <1>1
<1>6. s \in j..(L + 1) /\ t \in j..(L + 1) /\ s \in j..(Len(e) + 1) /\ t \in j..(Len(e) + 1)
      /\ Len(e) \in Nat
  BY <1>1
<1>7. Ended(e, s) /\ (\A k \in j..(s - 1) : ~Ended(e, k))
  BY <1>2, <1>3, <1>5
<1>8. NameEnds(e, t) /\ (\A k \in j..(t - 1) : ~NameEnds(e, k))
  BY <1>2, <1>4, <1>5
<1>9. LineAt(e, j) = SubSeq(e, j, s - 1) /\ LineAt(d, j) = SubSeq(d, j, s - 1)
  <2>1. LineAt(e, j) = SubSeq(e, j, s - 1)
    BY <1>5, <1>6, <1>7, LineStops
  <2>2. LineAt(d, j) = SubSeq(d, j, s - 1)
    BY <1>1, <1>3, <1>5, <1>6, LineStops
  <2> QED BY <2>1, <2>2
<1>10. NameAt(e, j) = SubSeq(e, j, t - 1) /\ NameAt(d, j) = SubSeq(d, j, t - 1)
  <2>1. NameAt(e, j) = SubSeq(e, j, t - 1)
    BY <1>5, <1>6, <1>8, NameStops
  <2>2. NameAt(d, j) = SubSeq(d, j, t - 1)
    BY <1>1, <1>4, <1>5, <1>6, NameStops
  <2> QED BY <2>1, <2>2
<1>11. ASSUME NEW r \in 1..L PROVE SubSeq(e, j, r - 1) = SubSeq(d, j, r - 1)
  <2>1. CASE r - 1 < j
    <3>1. r - 1 \in Int /\ j \in Int
      OBVIOUS
    <3> QED BY <2>1, <3>1, SubSeqEmpty
  <2>2. CASE ~(r - 1 < j)
    <3>1. j \in 1..Len(d) /\ r - 1 \in 1..Len(d)
      BY <1>1, <2>2
    <3> QED BY <3>1, SubSeqOfConcat1 DEF e
  <2> QED BY <2>1, <2>2
<1>12. LineAt(e, j) = LineAt(d, j) /\ NameAt(e, j) = NameAt(d, j)
  BY <1>5, <1>9, <1>10, <1>11
<1> QED BY <1>2, <1>12 DEF e

(* What has been written of a line grows from its name to its line end. *)
FirstOf(x, r) == SubSeq(x, 1, r)
LineEnd(t) == t = <<CR_CHAR>> \/ t = <<LF_CHAR>>

LEMMA LineEnds ==
  ASSUME NEW C, NEW x \in Seq(C), NEW m \in Nat, NEW b \in Nat, LineOf(x, m, b),
         NEW t \in Seq(C), LineEnd(t)
  PROVE  /\ LineOf(x \o t, m, b) /\ Closed(x \o t) /\ x \o t \in Seq(C)
         /\ FirstOf(x \o t, m) = FirstOf(x, m) /\ FirstOf(x \o t, b) = FirstOf(x, b)
<1> DEFINE e == x \o t
           L == Len(x)
<1>0. Len(t) = 1 /\ t[1] \in {CR_CHAR, LF_CHAR}
  BY DEF LineEnd
<1>1. /\ e \in Seq(C) /\ Len(e) = L + 1 /\ L \in Nat
      /\ \A k \in 1..L : e[k] = x[k]
      /\ e[L + 1] = t[1]
  <2>1. /\ e \in Seq(C) /\ Len(e) = L + Len(t) /\ L \in Nat
        /\ \A k \in 1..L : e[k] = x[k]
        /\ \A k \in 1..Len(t) : e[L + k] = t[k]
    BY Joined
  <2> HIDE DEF e, L
  <2> QED BY <1>0, <2>1
<1> HIDE DEF e
<1>2. b \in 1..L /\ m \in 1..b /\ b \in 1..(L + 1) /\ m \in 1..L
  BY <1>1 DEF LineOf
<1>3. \A k \in 1..b : e[k] \notin {CR_CHAR, LF_CHAR}
  BY <1>1, <1>2 DEF LineOf
<1>4. \A k \in (b + 1)..(L + 1) : e[k] \in {CR_CHAR, LF_CHAR}
  <2> SUFFICES ASSUME NEW k \in (b + 1)..(L + 1) PROVE e[k] \in {CR_CHAR, LF_CHAR}
    OBVIOUS
  <2>1. CASE k = L + 1
    BY <1>0, <1>1, <2>1
  <2>2. CASE k # L + 1
    <3>0. L \in Nat
      BY <1>1
    <3>1. k \in (b + 1)..L /\ k \in 1..L
      BY <2>2, <3>0
    <3>2. e[k] = x[k]
      BY <1>1, <3>1
    <3>3. x[k] \in {CR_CHAR, LF_CHAR}
      BY <3>1 DEF LineOf
    <3> QED BY <3>2, <3>3
  <2> QED BY <2>1, <2>2
<1>5. \A k \in 1..m : e[k] # BLANK_CHAR
  BY <1>1, <1>2 DEF LineOf
<1>6. m = b \/ e[m + 1] = BLANK_CHAR
  <2>1. m = b \/ m + 1 \in 1..L
    BY <1>1, <1>2
  <2> QED BY <1>1, <2>1 DEF LineOf
<1>7. LineOf(e, m, b)
  BY <1>1, <1>2, <1>3, <1>4, <1>5, <1>6 DEF LineOf
<1>8. Closed(e)
  BY <1>0, <1>1 DEF Closed
<1>9. ASSUME NEW r \in 1..L PROVE FirstOf(e, r) = FirstOf(x, r)
  <2>1. 1 \in 1..Len(x) /\ r \in 1..Len(x)
    BY <1>1
  <2> QED BY <2>1, SubSeqOfConcat1 DEF e, FirstOf
<1> QED BY <1>1, <1>2, <1>7, <1>8, <1>9 DEF e

(* A closed text and a line after it. *)
LEMMA Grown ==
  ASSUME NEW C, NEW d \in Seq(C), Closed(d), NEW x \in Seq(C),
         NEW m \in Nat, NEW b \in Nat, LineOf(x, m, b)
  PROVE  /\ LineStarts(d \o x) = LineStarts(d) \cup {Len(d) + 1}
         /\ NameAt(d \o x, Len(d) + 1) = SubSeq(x, 1, m)
         /\ LineAt(d \o x, Len(d) + 1) = SubSeq(x, 1, b)
         /\ Closed(x) => Closed(d \o x)
<1> DEFINE e == d \o x
           L == Len(d)
           X == Len(x)
<1>1. /\ e \in Seq(C) /\ Len(e) = L + X /\ L \in Nat /\ X \in Nat
      /\ \A k \in 1..L : e[k] = d[k]
      /\ \A k \in 1..X : e[L + k] = x[k]
  BY Joined
<1>d. L = Len(d) /\ DOMAIN d = 1..L /\ X = Len(x)
  OBVIOUS
<1>c. L = 0 \/ d[L] \in {CR_CHAR, LF_CHAR}
  BY DEF Closed
<1> HIDE DEF e, L, X
<1>e. DOMAIN e = 1..(L + X)
  BY <1>1
<1>t. L \in Nat /\ X \in Nat
  BY <1>1
<1>2. b \in 1..X /\ m \in 1..b /\ m \in 1..X /\ b \in Nat /\ m \in Nat
  BY <1>1, <1>d DEF LineOf
<1>3. \A k \in 1..L : Ended(e, k) <=> Ended(d, k)
  <2> SUFFICES ASSUME NEW k \in 1..L PROVE Ended(e, k) <=> Ended(d, k)
    OBVIOUS
  <2>1. ~(k > L) /\ ~(k > Len(e)) /\ e[k] = d[k]
    BY <1>1
  <2> QED BY <1>d, <2>1 DEF Ended
<1>4. ASSUME NEW k \in 1..b PROVE ~Ended(e, L + k)
  <2>1. k \in 1..X /\ ~(L + k > Len(e))
    BY <1>1, <1>2
  <2>2. e[L + k] = x[k] /\ x[k] \notin {CR_CHAR, LF_CHAR}
    BY <1>1, <2>1 DEF LineOf
  <2> QED BY <2>1, <2>2 DEF Ended
<1>5. ASSUME NEW k \in (b + 1)..(X + 1) PROVE Ended(e, L + k)
  <2>1. CASE k = X + 1
    <3>1. L + k > Len(e)
      BY <1>1, <2>1
    <3> QED BY <3>1 DEF Ended
  <2>2. CASE k # X + 1
    <3>1. k \in 1..X /\ k \in (b + 1)..X
      BY <1>1, <1>2, <2>2
    <3>2. e[L + k] = x[k] /\ x[k] \in {CR_CHAR, LF_CHAR}
      BY <1>1, <1>d, <3>1 DEF LineOf
    <3> QED BY <3>2 DEF Ended
  <2> QED BY <2>1, <2>2
<1>6. ASSUME NEW j \in (L + 1)..(L + X + 1)
      PROVE  j - L \in 1..(X + 1) /\ L + (j - L) = j
  BY <1>1
<1>7. LineAt(e, L + 1) = SubSeq(e, L + 1, L + b)
  <2>1. L + 1 \in Nat /\ L + b + 1 \in (L + 1)..(Len(e) + 1) /\ Len(e) \in Nat
        /\ L + b + 1 - 1 = L + b /\ b + 1 \in (b + 1)..(X + 1) /\ L + b + 1 = L + (b + 1)
    BY <1>1, <1>2
  <2>q. PICK q \in Nat : q = L + 1
    BY <1>t
  <2>s. PICK s \in Nat : s = L + b + 1
    BY <1>2, <1>t
  <2>0. q = L + 1 /\ s = L + b + 1 /\ s - 1 = L + b
    BY <1>2, <1>t, <2>q, <2>s
  <2>2. Ended(e, s)
    <3>1. s = L + (b + 1) /\ b + 1 \in (b + 1)..(X + 1)
      BY <2>0, <2>1
    <3> QED BY <1>5, <3>1
  <2>3. ASSUME NEW j \in q..(s - 1) PROVE ~Ended(e, j)
    <3>1. j - L \in 1..b /\ L + (j - L) = j
      BY <1>2, <1>t, <2>0
    <3>2. PICK k \in 1..b : L + k = j
      BY <3>1
    <3> QED BY <1>4, <3>2
  <2>4. s \in q..(Len(e) + 1) /\ Len(e) \in Nat
    BY <2>0, <2>1
  <2>5. LineAt(e, q) = SubSeq(e, q, s - 1)
    BY <2>2, <2>3, <2>4, LineStops
  <2> QED BY <2>0, <2>5
<1>8. NameAt(e, L + 1) = SubSeq(e, L + 1, L + m)
  <2>1. L + 1 \in Nat /\ L + m + 1 \in (L + 1)..(Len(e) + 1) /\ Len(e) \in Nat
        /\ L + m + 1 - 1 = L + m /\ b + 1 \in (b + 1)..(X + 1) /\ L + m + 1 = L + (m + 1)
    BY <1>1, <1>2
  <2>q. PICK q \in Nat : q = L + 1
    BY <1>t
  <2>s. PICK s \in Nat : s = L + m + 1
    BY <1>2, <1>t
  <2>0. q = L + 1 /\ s = L + m + 1 /\ s - 1 = L + m
    BY <1>2, <1>t, <2>q, <2>s
  <2>2. NameEnds(e, s)
    <3>1. CASE m = b
      BY <1>5, <2>0, <2>1, <3>1 DEF NameEnds
    <3>2. CASE m # b
      <4>1. m + 1 \in 1..X /\ x[m + 1] = BLANK_CHAR
        BY <1>1, <1>2, <3>2 DEF LineOf
      <4>2. e[L + (m + 1)] = x[m + 1]
        BY <1>1, <4>1
      <4> QED BY <2>0, <2>1, <4>1, <4>2 DEF NameEnds
    <3> QED BY <3>1, <3>2
  <2>3. ASSUME NEW j \in q..(s - 1) PROVE ~NameEnds(e, j)
    <3>1. j - L \in 1..m /\ L + (j - L) = j /\ \A k \in 1..m : k \in 1..b /\ k \in 1..X
      BY <1>2, <1>t, <2>0
    <3>2. PICK k \in 1..m : L + k = j
      BY <3>1
    <3>3. e[L + k] = x[k] /\ x[k] # BLANK_CHAR /\ ~Ended(e, L + k)
      BY <1>1, <1>4, <3>1 DEF LineOf
    <3> QED BY <3>2, <3>3 DEF NameEnds
  <2>4. s \in q..(Len(e) + 1) /\ Len(e) \in Nat
    BY <2>0, <2>1
  <2>5. NameAt(e, q) = SubSeq(e, q, s - 1)
    BY <2>2, <2>3, <2>4, NameStops
  <2> QED BY <2>0, <2>5
<1>9. ASSUME NEW r \in 1..X PROVE SubSeq(e, L + 1, L + r) = SubSeq(x, 1, r)
  <2>1. /\ L + 1 \in (Len(d) + 1)..(Len(d) + Len(x)) /\ L + r \in (Len(d) + 1)..(Len(d) + Len(x))
        /\ L + 1 - Len(d) = 1 /\ L + r - Len(d) = r
    BY <1>1, <1>d
  <2>s. PICK s \in (Len(d) + 1)..(Len(d) + Len(x)) : s = L + 1
    BY <2>1
  <2>t. PICK t \in (Len(d) + 1)..(Len(d) + Len(x)) : t = L + r
    BY <2>1
  <2>2. SubSeq(e, s, t) = SubSeq(x, s - Len(d), t - Len(d))
    BY SubSeqOfConcat2 DEF e
  <2>3. s - Len(d) = 1 /\ t - Len(d) = r
    BY <1>d, <1>t, <2>1, <2>s, <2>t
  <2> QED BY <2>2, <2>3, <2>s, <2>t
<1>10. LineStarts(e) = LineStarts(d) \cup {L + 1}
  <2>1. ASSUME NEW j \in 1..L PROVE j \in LineStarts(e) <=> j \in LineStarts(d)
    <3>1. j \in 1..(L + X) /\ (j = 1 \/ j - 1 \in 1..L)
      BY <1>1
    <3> QED BY <1>3, <1>d, <1>e, <3>1 DEF LineStarts
  <2>2. L + 1 \in LineStarts(e)
    <3>1. L + 1 \in 1..(L + X) /\ 1 \in 1..b /\ L + 1 - 1 = L /\ (L = 0 \/ L \in 1..L)
      BY <1>1, <1>2
    <3>2. ~Ended(e, L + 1)
      BY <1>4, <3>1
    <3>3. L + 1 = 1 \/ Ended(e, L)
      <4>1. CASE L = 0
        BY <4>1
      <4>2. CASE L # 0
        <5>1. e[L] = d[L] /\ d[L] \in {CR_CHAR, LF_CHAR}
          BY <1>1, <1>c, <3>1, <4>2
        <5> QED BY <5>1 DEF Ended
      <4> QED BY <4>1, <4>2
    <3> QED BY <1>e, <3>1, <3>2, <3>3 DEF LineStarts
  <2>3. ASSUME NEW j \in (L + 2)..(L + X) PROVE j \notin LineStarts(e)
    <3>1. j - L \in 2..X /\ L + (j - L) = j /\ j # 1 /\ L + (j - L - 1) = j - 1
      BY <1>1
    <3>2. CASE j - L <= b
      <4>1. j - L - 1 \in 1..b
        BY <1>1, <1>2, <3>1, <3>2
      <4>2. ~Ended(e, j - 1)
        BY <1>4, <3>1, <4>1
      <4> QED BY <3>1, <4>2 DEF LineStarts
    <3>3. CASE ~(j - L <= b)
      <4>1. j - L \in (b + 1)..(X + 1)
        BY <1>1, <1>2, <3>1, <3>3
      <4>2. Ended(e, j)
        BY <1>5, <3>1, <4>1
      <4> QED BY <4>2 DEF LineStarts
    <3> QED BY <3>2, <3>3
  <2>4. \A j \in 1..(L + X) : j \in 1..L \/ j = L + 1 \/ j \in (L + 2)..(L + X)
    BY <1>1
  <2>5. LineStarts(e) \subseteq 1..(L + X) /\ LineStarts(d) \subseteq 1..L
    BY <1>d, <1>e DEF LineStarts
  <2> QED BY <2>1, <2>2, <2>3, <2>4, <2>5
<1>11. ASSUME Closed(x) PROVE Closed(e)
  <2>1. x # << >> /\ X \in 1..X /\ x[X] \in {CR_CHAR, LF_CHAR}
    BY <1>1, <1>2, <1>11, <1>d DEF Closed
  <2>2. e[L + X] = x[X]
    BY <1>1, <2>1
  <2> QED BY <1>1, <2>1, <2>2 DEF Closed
<1>12. LineAt(e, L + 1) = SubSeq(x, 1, b) /\ NameAt(e, L + 1) = SubSeq(x, 1, m)
  BY <1>2, <1>7, <1>8, <1>9
<1> QED BY <1>10, <1>11, <1>12 DEF e, L

-----------------------------------------------------------------------------
(* The line of a package, and how it is written, call after call. *)
LineFor(p) == p.name \o <<BLANK_CHAR>> \o p.version
Partial(x, p, k) ==
  /\ k = 0 => x = << >>
  /\ k = 1 => x = p.name
  /\ k = 2 => x = p.name \o <<BLANK_CHAR>>
  /\ k = 3 => x = LineFor(p)
  /\ k = 4 => x = LineFor(p) \o <<CR_CHAR>>
  /\ k = 5 => x = (LineFor(p) \o <<CR_CHAR>>) \o <<LF_CHAR>>

Alphabet == Characters \cup {BLANK_CHAR, CR_CHAR, LF_CHAR}

LEMMA Written ==
  ASSUME NEW p \in Packages, NEW k \in 1..5, NEW x, Partial(x, p, k)
  PROVE  \E m, b \in Nat :
                   /\ LineOf(x, m, b) /\ x \in Seq(Alphabet)
                   /\ SubSeq(x, 1, m) = p.name
                   /\ k = 5 => SubSeq(x, 1, b) = LineFor(p) /\ Closed(x)
<1> DEFINE A == Alphabet
           N == Alphabet \ {BLANK_CHAR, CR_CHAR, LF_CHAR}
           V == Alphabet \ {CR_CHAR, LF_CHAR}
           n == p.name
           v == p.version
           B == <<BLANK_CHAR>>
<1>1. n \in Seq(N) /\ n # << >> /\ v \in Seq(V) /\ N \subseteq A /\ V \subseteq A /\ N \subseteq V
  <2>1. /\ n \in Seq(Characters \ {BLANK_CHAR, CR_CHAR, LF_CHAR}) /\ n # << >>
        /\ v \in Seq(Characters \ {CR_CHAR, LF_CHAR})
    BY PackagesAssumption
  <2>2. /\ Characters \ {BLANK_CHAR, CR_CHAR, LF_CHAR} \subseteq N
        /\ Characters \ {CR_CHAR, LF_CHAR} \subseteq V
    BY DEF Alphabet
  <2>3. N \subseteq A /\ V \subseteq A /\ N \subseteq V
    OBVIOUS
  <2> HIDE DEF A, N, V
  <2> QED BY <2>1, <2>2, <2>3
<1>2. BLANK_CHAR \in V /\ BLANK_CHAR \in A /\ CR_CHAR \in A /\ LF_CHAR \in A
  BY PackagesAssumption DEF Alphabet
<1>3. \A c \in V : c \notin {CR_CHAR, LF_CHAR}
  OBVIOUS
<1>4. \A c \in N : c # BLANK_CHAR
  OBVIOUS
<1> HIDE DEF A, N, V, n, v
<1>5. B \in Seq(V) /\ Len(B) = 1 /\ B[1] = BLANK_CHAR /\ B \in Seq(A)
  BY <1>2
<1> HIDE DEF B
<1>6. n \in Seq(V) /\ n \in Seq(A) /\ v \in Seq(A) /\ Len(n) \in Nat \ {0} /\ Len(v) \in Nat
  BY <1>1
<1>7. \A j \in 1..Len(n) : n[j] # BLANK_CHAR
  BY <1>1, <1>4
<1> DEFINE y == n \o B
           z == y \o v
<1>8. /\ y \in Seq(V) /\ Len(y) = Len(n) + 1
      /\ (\A j \in 1..Len(n) : y[j] = n[j]) /\ y[Len(n) + 1] = BLANK_CHAR
  <2>1. /\ y \in Seq(V) /\ Len(y) = Len(n) + Len(B)
        /\ \A j \in 1..Len(n) : y[j] = n[j]
        /\ \A j \in 1..Len(B) : y[Len(n) + j] = B[j]
    <3>1. n \in Seq(V) /\ B \in Seq(V)
      BY <1>5, <1>6
    <3> QED BY <3>1, Joined
  <2> HIDE DEF y
  <2> QED BY <1>5, <2>1
<1> HIDE DEF y
<1>y. y \in Seq(V)
  BY <1>8
<1>v. v \in Seq(V)
  BY <1>1
<1>9. /\ z \in Seq(V) /\ Len(z) = Len(y) + Len(v) /\ \A j \in 1..Len(y) : z[j] = y[j]
  BY <1>v, <1>y, Joined
<1> HIDE DEF z
<1>10. y \in Seq(A) /\ z \in Seq(A) /\ Len(y) \in Nat
  BY <1>1, <1>6, <1>8, <1>9
<1>11. LineOf(n, Len(n), Len(n)) /\ SubSeq(n, 1, Len(n)) = n
  <2>1. /\ Len(n) \in 1..Len(n)
        /\ \A j \in (Len(n) + 1)..Len(n) : n[j] \in {CR_CHAR, LF_CHAR}
    BY <1>6
  <2>2. \A j \in 1..Len(n) : n[j] \notin {CR_CHAR, LF_CHAR}
    BY <1>3, <1>6
  <2>3. SubSeq(n, 1, Len(n)) = n
    BY <1>6, SubSeqFull
  <2> QED BY <1>7, <2>1, <2>2, <2>3 DEF LineOf
<1>12. LineOf(y, Len(n), Len(y)) /\ SubSeq(y, 1, Len(n)) = n
  <2>1. /\ Len(y) \in 1..Len(y) /\ Len(n) \in 1..Len(y)
        /\ \A j \in (Len(y) + 1)..Len(y) : y[j] \in {CR_CHAR, LF_CHAR}
    BY <1>6, <1>8
  <2>2. \A j \in 1..Len(y) : y[j] \notin {CR_CHAR, LF_CHAR}
    BY <1>3, <1>8
  <2>3. SubSeq(y, 1, Len(n)) = SubSeq(n, 1, Len(n))
    <3>1. PICK r \in 1..Len(n) : r = Len(n)
      BY <1>6
    <3>2. 1 \in 1..Len(n)
      BY <1>6
    <3>3. SubSeq(n \o B, 1, r) = SubSeq(n, 1, r)
      BY <1>5, <1>6, <3>2, SubSeqOfConcat1
    <3> QED BY <3>1, <3>3 DEF y
  <2>4. \A j \in 1..Len(n) : y[j] # BLANK_CHAR
    BY <1>7, <1>8
  <2> QED BY <1>8, <1>11, <2>1, <2>2, <2>3, <2>4 DEF LineOf
<1>13. LineOf(z, Len(n), Len(z)) /\ SubSeq(z, 1, Len(n)) = n
  <2>1. /\ Len(z) \in 1..Len(z) /\ Len(n) \in 1..Len(z) /\ Len(n) + 1 \in 1..Len(y)
        /\ \A j \in (Len(z) + 1)..Len(z) : z[j] \in {CR_CHAR, LF_CHAR}
        /\ \A j \in 1..Len(n) : j \in 1..Len(y)
    BY <1>6, <1>8, <1>9
  <2>2. \A j \in 1..Len(z) : z[j] \notin {CR_CHAR, LF_CHAR}
    BY <1>3, <1>9
  <2>3. SubSeq(z, 1, Len(n)) = SubSeq(y, 1, Len(n))
    <3>1. PICK r \in 1..Len(y) : r = Len(n)
      BY <1>6, <1>8
    <3>2. 1 \in 1..Len(y)
      BY <2>1
    <3>3. SubSeq(y \o v, 1, r) = SubSeq(y, 1, r)
      BY <1>6, <1>10, <3>2, SubSeqOfConcat1
    <3> QED BY <3>1, <3>3 DEF z
  <2>4. \A j \in 1..Len(n) : z[j] # BLANK_CHAR
    BY <1>7, <1>8, <1>9, <2>1
  <2>5. z[Len(n) + 1] = BLANK_CHAR
    BY <1>8, <1>9, <2>1
  <2> QED BY <1>12, <2>1, <2>2, <2>3, <2>4, <2>5 DEF LineOf
<1>14. LineFor(p) = z /\ SubSeq(z, 1, Len(z)) = z
  <2>1. SubSeq(z, 1, Len(z)) = z
    BY <1>9, SubSeqFull
  <2> QED BY <2>1 DEF LineFor, z, y, n, v, B
<1> DEFINE R == <<CR_CHAR>>
           F == <<LF_CHAR>>
           c == z \o R
           f == c \o F
<1>e. R \in Seq(A) /\ F \in Seq(A)
  BY <1>2
<1>15. /\ LineOf(c, Len(n), Len(z)) /\ c \in Seq(A)
       /\ SubSeq(c, 1, Len(n)) = n /\ SubSeq(c, 1, Len(z)) = z
  <2>1. LineEnd(R) /\ R \in Seq(A) /\ z \in Seq(A)
    BY <1>10, <1>e DEF LineEnd
  <2>2. LineOf(z, Len(n), Len(z)) /\ Len(n) \in Nat /\ Len(z) \in Nat
    BY <1>6, <1>10, <1>13
  <2>3. /\ LineOf(c, Len(n), Len(z)) /\ c \in Seq(A)
        /\ FirstOf(c, Len(n)) = FirstOf(z, Len(n)) /\ FirstOf(c, Len(z)) = FirstOf(z, Len(z))
    <3> HIDE DEF R, F
    <3> QED BY <2>1, <2>2, LineEnds
  <2> HIDE DEF c
  <2> QED BY <1>13, <1>14, <2>3 DEF FirstOf
<1> HIDE DEF c
<1>16. /\ LineOf(f, Len(n), Len(z)) /\ f \in Seq(A) /\ Closed(f)
       /\ SubSeq(f, 1, Len(n)) = n /\ SubSeq(f, 1, Len(z)) = z
  <2>1. LineEnd(F) /\ F \in Seq(A) /\ c \in Seq(A)
    BY <1>15, <1>e DEF LineEnd
  <2>2. LineOf(c, Len(n), Len(z)) /\ Len(n) \in Nat /\ Len(z) \in Nat
    BY <1>6, <1>10, <1>15
  <2>3. /\ LineOf(f, Len(n), Len(z)) /\ f \in Seq(A) /\ Closed(f)
        /\ FirstOf(f, Len(n)) = FirstOf(c, Len(n)) /\ FirstOf(f, Len(z)) = FirstOf(c, Len(z))
    <3> HIDE DEF R, F
    <3> QED BY <2>1, <2>2, LineEnds
  <2> HIDE DEF f
  <2> QED BY <1>15, <2>3 DEF FirstOf
<1> HIDE DEF f
<1>17. CASE k = 1
  <2>1. x = n
    BY <1>17 DEF Partial, n
  <2> QED BY <1>6, <1>11, <1>17, <2>1 DEF n, A
<1>18. CASE k = 2
  <2>1. x = y
    BY <1>18 DEF Partial, n, y, B
  <2> QED BY <1>10, <1>12, <1>18, <2>1 DEF n, A
<1>19. CASE k = 3
  <2>1. x = z
    BY <1>14, <1>19 DEF Partial
  <2> QED BY <1>10, <1>13, <1>19, <2>1 DEF n, A
<1>20. CASE k = 4
  <2>1. x = c
    BY <1>14, <1>20 DEF Partial, c
  <2> QED BY <1>15, <1>20, <2>1 DEF n, A
<1>21. CASE k = 5
  <2>1. x = f
    BY <1>14, <1>21 DEF Partial, c, f
  <2>2. Len(n) \in Nat /\ Len(z) \in Nat
    BY <1>6, <1>10
  <2>3. /\ LineOf(x, Len(n), Len(z)) /\ x \in Seq(Alphabet) /\ Closed(x)
        /\ SubSeq(x, 1, Len(n)) = p.name /\ SubSeq(x, 1, Len(z)) = LineFor(p)
    BY <1>14, <1>16, <2>1 DEF n, A
  <2> HIDE DEF n
  <2> QED BY <2>2, <2>3
<1>22. k = 1 \/ k = 2 \/ k = 3 \/ k = 4 \/ k = 5
  OBVIOUS
<1> QED BY <1>17, <1>18, <1>19, <1>20, <1>21, <1>22

(* d is the text of the packages ps: a line for each, in their order. *)
TextOf(d, ps, o) ==
  /\ d \in Seq(Alphabet) /\ Closed(d)
  /\ Lists(o, Len(ps), LineStarts(d))
  /\ \A n \in 1..Len(ps) : NameAt(d, o[n]) = ps[n].name /\ LineAt(d, o[n]) = LineFor(ps[n])
IsNamed(d, name) == \E j \in LineStarts(d) : NameAt(d, j) = name

LEMMA NoText == TextOf(<< >>, << >>, << >>)
<1>1. LineStarts(<< >>) = {} /\ Len(<< >>) = 0
  BY DEF LineStarts
<1>2. << >> \in Seq(Alphabet) /\ Closed(<< >>)
  BY DEF Closed
<1>3. << >> \in [1..0 -> {}] /\ \A n \in 1..0 : FALSE
  OBVIOUS
<1>4. Lists(<< >>, 0, {})
  BY <1>3 DEF Lists
<1> QED BY <1>1, <1>2, <1>3, <1>4 DEF TextOf

LEMMA StartsIn == ASSUME NEW d \in Seq(Alphabet) PROVE LineStarts(d) \subseteq 1..Len(d)
  BY DEF LineStarts

(* The names of a text, and of a text with a line begun after it. *)
LEMMA TextNames ==
  ASSUME NEW d, NEW ps \in Seq(Packages), NEW o, TextOf(d, ps, o), NEW name
  PROVE  IsNamed(d, name) <=> \E n \in 1..Len(ps) : ps[n].name = name
<1>1. ASSUME NEW j \in LineStarts(d), NameAt(d, j) = name
      PROVE  \E n \in 1..Len(ps) : ps[n].name = name
  <2>1. PICK n \in 1..Len(ps) : o[n] = j
    BY DEF TextOf, Lists
  <2>2. NameAt(d, o[n]) = ps[n].name
    BY DEF TextOf
  <2> QED BY <1>1, <2>1, <2>2
<1>2. ASSUME NEW n \in 1..Len(ps), ps[n].name = name
      PROVE  o[n] \in LineStarts(d) /\ NameAt(d, o[n]) = name
  BY <1>2 DEF TextOf, Lists
<1> QED BY <1>1, <1>2 DEF IsNamed

LEMMA LongerNames ==
  ASSUME NEW d \in Seq(Alphabet), Closed(d), NEW p \in Packages, NEW k \in 1..5,
         NEW x, Partial(x, p, k), NEW name
  PROVE  IsNamed(d \o x, name) <=> IsNamed(d, name) \/ p.name = name
<1>1. PICK m, b \in Nat :
        /\ LineOf(x, m, b) /\ x \in Seq(Alphabet)
        /\ SubSeq(x, 1, m) = p.name
        /\ k = 5 => SubSeq(x, 1, b) = LineFor(p) /\ Closed(x)
  BY Written
<1>x. LineOf(x, m, b) /\ x \in Seq(Alphabet) /\ SubSeq(x, 1, m) = p.name
  BY <1>1
<1>2. /\ LineStarts(d \o x) = LineStarts(d) \cup {Len(d) + 1}
      /\ NameAt(d \o x, Len(d) + 1) = p.name
  BY <1>x, Grown
<1>3. ASSUME NEW j \in LineStarts(d) PROVE NameAt(d \o x, j) = NameAt(d, j)
  <2>1. j \in 1..Len(d)
    BY StartsIn
  <2> QED BY <1>x, <2>1, OldLines
<1> QED BY <1>2, <1>3 DEF IsNamed

LEMMA OneMore ==
  ASSUME NEW d, NEW ps \in Seq(Packages), NEW o, TextOf(d, ps, o),
         NEW p \in Packages, NEW x, Partial(x, p, 5)
  PROVE  \E q : TextOf(d \o x, Append(ps, p), q)
<1>1. PICK m, b \in Nat :
        /\ LineOf(x, m, b) /\ x \in Seq(Alphabet)
        /\ SubSeq(x, 1, m) = p.name /\ SubSeq(x, 1, b) = LineFor(p) /\ Closed(x)
  <2>1. 5 \in 1..5
    OBVIOUS
  <2> QED BY <2>1, Written
<1>x. LineOf(x, m, b) /\ x \in Seq(Alphabet)
  BY <1>1
<1>d. d \in Seq(Alphabet) /\ Closed(d) /\ Len(d) \in Nat
  BY DEF TextOf
<1> DEFINE e == d \o x
           L == Len(d) + 1
           N == Len(ps)
           S == LineStarts(d)
           T == LineStarts(e)
           q == [n \in 1..(N + 1) |-> IF n = N + 1 THEN L ELSE o[n]]
<1>2. /\ T = S \cup {L} /\ NameAt(e, L) = p.name /\ LineAt(e, L) = LineFor(p) /\ Closed(e)
  <2>1. /\ T = S \cup {L} /\ NameAt(e, L) = SubSeq(x, 1, m) /\ LineAt(e, L) = SubSeq(x, 1, b)
        /\ Closed(x) => Closed(e)
    BY <1>x, <1>d, Grown
  <2> HIDE DEF e, T, S, L
  <2> QED BY <1>1, <2>1
<1>e. e \in Seq(Alphabet)
  BY <1>x, <1>d, Joined
<1>3. N \in Nat /\ Len(Append(ps, p)) = N + 1 /\ Append(ps, p)[N + 1] = p
      /\ \A n \in 1..N : Append(ps, p)[n] = ps[n]
  <2>1. \A n \in 1..Len(Append(ps, p)) :
          Append(ps, p)[n] = IF n <= Len(ps) THEN ps[n] ELSE p
    BY AppendProperties
  <2>2. N \in Nat /\ Len(Append(ps, p)) = N + 1
    OBVIOUS
  <2>3. \A n \in 1..N : n \in 1..(N + 1) /\ n <= Len(ps)
    OBVIOUS
  <2>4. N + 1 \in 1..(N + 1) /\ ~(N + 1 <= Len(ps))
    OBVIOUS
  <2> QED BY <2>1, <2>2, <2>3, <2>4
<1>4. /\ o \in [1..N -> S] /\ (\A a, c \in 1..N : a < c => o[a] < o[c])
      /\ \A s \in S : \E a \in 1..N : o[a] = s
  BY DEF TextOf, Lists
<1>5. \A n \in 1..N : NameAt(d, o[n]) = ps[n].name /\ LineAt(d, o[n]) = LineFor(ps[n])
  BY DEF TextOf
<1>s. S \subseteq 1..Len(d)
  BY <1>d, StartsIn
<1>6. q[N + 1] = L /\ N + 1 \in 1..(N + 1)
  BY <1>3
<1>7. \A n \in 1..N : q[n] = o[n] /\ n \in 1..(N + 1) /\ o[n] \in S /\ o[n] \in 1..Len(d)
  <2>1. \A n \in 1..N : n \in 1..(N + 1) /\ n # N + 1
    BY <1>3
  <2>2. \A n \in 1..N : q[n] = o[n]
    BY <2>1
  <2>3. \A n \in 1..N : o[n] \in S
    BY <1>4
  <2> HIDE DEF q, N, S
  <2> QED BY <1>s, <2>1, <2>2, <2>3
<1>8. q \in [1..(N + 1) -> T]
  <2>1. \A n \in 1..(N + 1) : n = N + 1 \/ n \in 1..N
    BY <1>3
  <2>2. \A n \in 1..(N + 1) : q[n] \in T
    <3> HIDE DEF q, T, S, L, N
    <3> QED BY <1>2, <1>6, <1>7, <2>1
  <2>3. q = [n \in 1..(N + 1) |-> q[n]]
    OBVIOUS
  <2> HIDE DEF q, T, N
  <2> QED BY <2>2, <2>3
<1>9. ASSUME NEW a \in 1..(N + 1), NEW c \in 1..(N + 1), a < c PROVE q[a] < q[c]
  <2>1. a \in 1..N /\ (c = N + 1 \/ c \in 1..N)
    BY <1>3, <1>9
  <2> HIDE DEF q
  <2>2. CASE c = N + 1
    <3>1. q[a] \in 1..Len(d) /\ q[c] = Len(d) + 1
      BY <1>6, <1>7, <2>1, <2>2
    <3> QED BY <1>d, <3>1
  <2>3. CASE c \in 1..N
    BY <1>4, <1>7, <1>9, <2>1, <2>3
  <2> QED BY <2>1, <2>2, <2>3
<1> HIDE DEF q, e, T, S, L
<1>10. \A s \in T : \E a \in 1..(N + 1) : q[a] = s
  BY <1>2, <1>4, <1>6, <1>7
<1>11. Lists(q, N + 1, T)
  BY <1>8, <1>9, <1>10 DEF Lists
<1>12. ASSUME NEW n \in 1..(N + 1)
       PROVE  /\ NameAt(e, q[n]) = Append(ps, p)[n].name
              /\ LineAt(e, q[n]) = LineFor(Append(ps, p)[n])
  <2>1. CASE n = N + 1
    BY <1>2, <1>3, <1>6, <2>1
  <2>2. CASE n # N + 1
    <3>1. n \in 1..N
      BY <1>3, <2>2
    <3>2. q[n] = o[n] /\ o[n] \in 1..Len(d) /\ Append(ps, p)[n] = ps[n]
      BY <1>3, <1>7, <3>1
    <3>3. NameAt(e, o[n]) = NameAt(d, o[n]) /\ LineAt(e, o[n]) = LineAt(d, o[n])
      BY <1>x, <1>d, <3>2, OldLines DEF e
    <3> QED BY <1>5, <3>1, <3>2, <3>3
  <2> QED BY <2>1, <2>2
<1>13. TextOf(e, Append(ps, p), q)
  BY <1>2, <1>3, <1>11, <1>12, <1>e DEF TextOf, T
<1> QED BY <1>13 DEF e

(* What the package manager lists of a text. *)
LEMMA TextList ==
  ASSUME NEW d, NEW ps \in Seq(Packages), NEW o, TextOf(d, ps, o)
  PROVE  LET starts == InOrder(LineStarts(d))
         IN  [n \in DOMAIN starts |-> LineAt(d, starts[n])]
               = [n \in DOMAIN ps |-> LineFor(ps[n])]
<1>1. d \in Seq(Alphabet) /\ Len(ps) \in Nat /\ DOMAIN ps = 1..Len(ps)
  BY DEF TextOf
<1>2. LineStarts(d) \in SUBSET Nat
  BY <1>1, StartsIn
<1>3. Lists(o, Len(ps), LineStarts(d))
  BY DEF TextOf
<1>4. InOrder(LineStarts(d)) = o
  BY <1>1, <1>2, <1>3, InOrderIs
<1>5. DOMAIN o = 1..Len(ps) /\ \A n \in 1..Len(ps) : LineAt(d, o[n]) = LineFor(ps[n])
  BY <1>3 DEF Lists, TextOf
<1>6. [n \in DOMAIN o |-> LineAt(d, o[n])] = [n \in DOMAIN ps |-> LineFor(ps[n])]
  BY <1>1, <1>5
<1> QED BY <1>4, <1>6

-----------------------------------------------------------------------------
(* A file of a package is whole, unless another package has written it. *)
Whole(fs, p, f) ==
  fs[p.files[f].filename].by = p => fs[p.files[f].filename].amount = p.files[f].file_size

Going == pkg_at \in {"entry", "dest", "copy", "append", "line"} \/ status = "ok"

(* While pkg_install runs: the files before the i-th are whole, the i-th   *)
(* holds what is copied.                                                   *)
PkgInstalls ==
  /\ PkgTypeOK /\ PkgHolds
  /\ status = "ok" => pkg_at = Leave
  /\ pkg_at # Leave => status = "error"
  /\ pkg_at # "idle" => package \in Packages
  /\ pkg_at = "line" => copied \in 0..5
  /\ pkg_at \in {"header", "check"} => i = 1
  /\ pkg_at \in {"dest", "copy"} => i \in DOMAIN package.files
  /\ (pkg_at \in {"append", "line"} \/ status = "ok") => i = Len(package.files) + 1
  /\ pkg_at = "copy" =>
       /\ files[entry.filename] = [by |-> package, amount |-> copied]
       /\ copied <= entry.file_size
  /\ Going => \A f \in 1..(i - 1) : Whole(files, package, f)

FileState == [by : Packages \cup {NoPackage}, amount : Nat]

LEMMA FilesOf ==
  ASSUME NEW p \in Packages
  PROVE  /\ Len(p.files) \in Nat /\ DOMAIN p.files = 1..Len(p.files)
         /\ \A f \in 1..Len(p.files) : p.files[f].filename \in Files /\ p.files[f].file_size \in Nat
         /\ \A f, g \in 1..Len(p.files) : p.files[f].filename = p.files[g].filename => f = g
<1>1. /\ p.files \in Seq([filename : Files, file_size : Nat])
      /\ \A f, g \in DOMAIN p.files : p.files[f].filename = p.files[g].filename => f = g
  BY PackagesAssumption
<1> DEFINE R == [filename : Files, file_size : Nat]
<1>2. \A r \in R : r.filename \in Files /\ r.file_size \in Nat
  OBVIOUS
<1> HIDE DEF R
<1>3. p.files \in Seq(R)
  BY <1>1 DEF R
<1>4. Len(p.files) \in Nat /\ DOMAIN p.files = 1..Len(p.files)
  BY <1>3
<1>5. \A f \in 1..Len(p.files) : p.files[f] \in R
  BY <1>3
<1> QED BY <1>1, <1>2, <1>4, <1>5

LEMMA NoFiles == NoPackage.files = << >> /\ Len(NoPackage.files) = 0
  BY DEF NoPackage

(* Writing the i-th file leaves those before it whole. *)
LEMMA OthersWhole ==
  ASSUME NEW p \in Packages, NEW g \in 1..Len(p.files), NEW fs, NEW ft,
         \A h \in Files : h # p.files[g].filename => ft[h] = fs[h],
         NEW f \in 1..(g - 1), Whole(fs, p, f)
  PROVE  Whole(ft, p, f)
<1>1. f \in 1..Len(p.files) /\ f # g
  BY FilesOf
<1>2. p.files[f].filename \in Files /\ p.files[f].filename # p.files[g].filename
  BY <1>1, FilesOf
<1>3. ft[p.files[f].filename] = fs[p.files[f].filename]
  BY <1>2
<1> QED BY <1>3 DEF Whole

LEMMA PkgInstallsAtStart == PkgInit => PkgInstalls
<1> SUFFICES ASSUME PkgInit PROVE PkgInstalls
  OBVIOUS
<1>h. PkgHolds
  BY DEF PkgInit, PkgHolds
<1>1. /\ pkg_at = "idle" /\ package = NoPackage /\ i = 1 /\ copied = 0 /\ status = "error"
      /\ files = [f \in Files |-> [by |-> NoPackage, amount |-> 0]]
      /\ pkg_handles = 0 /\ installed = << >> /\ trouble = FALSE
  BY DEF PkgInit
<1>2. [by |-> NoPackage, amount |-> 0] \in FileState
  BY DEF FileState
<1>3. files \in [Files -> FileState]
  <2> HIDE DEF FileState
  <2> QED BY <1>1, <1>2
<1>4. installed \in Seq(Packages)
  BY <1>1
<1>5. i \in 1..(Len(package.files) + 1)
  BY <1>1, NoFiles
<1>6. PkgTypeOK
  BY <1>1, <1>3, <1>4, <1>5 DEF PkgTypeOK, FileState
<1> QED BY <1>1, <1>6, <1>h DEF PkgInstalls, Going, Leave

LEMMA PkgInstallsInductive == PkgInstalls /\ [PkgNext]_pkgVars => PkgInstalls'
<1> SUFFICES ASSUME PkgInstalls, [PkgNext]_pkgVars PROVE PkgInstalls'
  OBVIOUS
<1> USE DEF Leave
<1>h. PkgHolds /\ PkgHolds'
  BY PkgHoldsInductive DEF PkgInstalls
<1>1. /\ PkgTypeOK
      /\ package \in Packages \cup {NoPackage} /\ i \in 1..(Len(package.files) + 1)
      /\ copied \in Nat /\ pkg_handles \in Nat /\ trouble \in BOOLEAN
      /\ files \in [Files -> FileState] /\ installed \in Seq(Packages)
      /\ pkg_at \in {"idle", "header", "check", "entry", "dest", "copy", "append", "line", Leave}
      /\ status \in {"error", "invalid", "already", "file", "db", "ok"}
  BY DEF PkgInstalls, PkgTypeOK, FileState
<1>2. /\ pkg_at # "idle" => package \in Packages
      /\ status = "ok" => pkg_at = Leave
      /\ pkg_at # Leave => status = "error"
      /\ pkg_at = "line" => copied \in 0..5
      /\ pkg_at \in {"dest", "copy"} => i \in DOMAIN package.files
      /\ pkg_at \in {"header", "check"} => i = 1
      /\ (pkg_at \in {"append", "line"} \/ status = "ok") => i = Len(package.files) + 1
  BY DEF PkgInstalls
<1>g. Going => \A f \in 1..(i - 1) : Whole(files, package, f)
  BY DEF PkgInstalls
<1>l. Len(package.files) \in Nat /\ i \in Nat
  <2>1. Len(package.files) \in Nat
    BY <1>1, FilesOf, NoFiles
  <2> QED BY <1>1, <2>1
<1>n. pkg_handles' \in Nat
  <2>2. pkg_at' = "idle" \/ pkg_at' \in {"copy", "line"} \/ pkg_at' \notin {"idle", "copy", "line"}
    OBVIOUS
  <2>3. pkg_handles' = 0 \/ pkg_handles' = 1 \/ pkg_handles' = 2
    BY <1>h, <2>2 DEF PkgHolds
  <2> QED BY <2>3
<1>t. ASSUME package' \in Packages \cup {NoPackage}, i' \in 1..(Len(package'.files) + 1),
             copied' \in Nat, trouble' \in BOOLEAN,
             files' \in [Files -> FileState], installed' \in Seq(Packages),
             pkg_at' \in {"idle", "header", "check", "entry", "dest", "copy", "append", "line",
                          Leave},
             status' \in {"error", "invalid", "already", "file", "db", "ok"}
      PROVE  PkgTypeOK'
  BY <1>n, <1>t DEF PkgTypeOK, FileState
<1>s. ASSUME UNCHANGED <<package, i, files, installed>>, copied' \in Nat, trouble' \in BOOLEAN,
             pkg_at' \in {"idle", "header", "check", "entry", "dest", "copy", "append", "line",
                          Leave},
             status' \in {"error", "invalid", "already", "file", "db", "ok"}
      PROVE  PkgTypeOK'
  BY <1>1, <1>s, <1>t
<1>3. CASE ReadHeader
  <2>1. /\ pkg_at = "header" /\ UNCHANGED <<package, i, files, installed>> /\ copied' = copied
        /\ trouble' = trouble
        /\ \/ pkg_at' = "check" /\ status' = status
           \/ pkg_at' = Leave /\ status' = "invalid"
    BY <1>3 DEF ReadHeader, Fail, pkgDisk
  <2>2. PkgTypeOK'
    BY <1>1, <1>s, <2>1
  <2>3. ~Going' /\ package' \in Packages /\ i' = 1
    BY <1>2, <2>1 DEF Going
  <2> QED BY <1>2, <1>h, <2>1, <2>2, <2>3 DEF PkgInstalls
<1>4. CASE CheckInstalled
  <2>1. /\ pkg_at = "check" /\ UNCHANGED <<package, i, files, installed>> /\ copied' = copied
        /\ trouble' = trouble \/ trouble' = TRUE
        /\ \/ pkg_at' = "entry" /\ status' = status
           \/ pkg_at' = Leave /\ status' = "already"
    BY <1>4 DEF CheckInstalled, Fail, pkgDisk
  <2>2. PkgTypeOK'
    BY <1>1, <1>s, <2>1
  <2>3. package' \in Packages /\ i' = 1 /\ \A f \in 1..(i' - 1) : FALSE
    BY <1>2, <2>1
  <2> QED BY <1>2, <1>h, <2>1, <2>2, <2>3 DEF PkgInstalls
<1>5. CASE ReadEntry
  <2>1. /\ pkg_at = "entry" /\ UNCHANGED <<package, i, files, installed>> /\ copied' = copied
        /\ trouble' = trouble
        /\ \/ i > Len(package.files) /\ pkg_at' = "append" /\ status' = status
           \/ i <= Len(package.files) /\ pkg_at' = "dest" /\ status' = status
           \/ pkg_at' = Leave /\ status' = "invalid"
    BY <1>5 DEF ReadEntry, Fail, pkgDisk
  <2>2. PkgTypeOK'
    BY <1>1, <1>s, <2>1
  <2>3. package \in Packages /\ status = "error"
    BY <1>2, <2>1
  <2>4. \A f \in 1..(i - 1) : Whole(files, package, f)
    BY <1>g, <2>1 DEF Going
  <2>5. i > Len(package.files) => i = Len(package.files) + 1
    BY <1>1, <1>l
  <2>6. i <= Len(package.files) => i \in DOMAIN package.files
    <3>1. DOMAIN package.files = 1..Len(package.files)
      BY <2>3, FilesOf
    <3> QED BY <1>1, <1>l, <3>1
  <2>7. \A f \in 1..(i' - 1) : Whole(files', package', f)
    BY <2>1, <2>4
  <2> QED BY <1>h, <2>1, <2>2, <2>3, <2>5, <2>6, <2>7 DEF PkgInstalls
<1>6. CASE OpenDb \/ WriteLine \/ CloseDb
  <2>1. /\ pkg_at \in {"append", "line"} /\ UNCHANGED <<package, i, files, installed>>
        /\ trouble' \in BOOLEAN /\ copied' \in Nat
        /\ pkg_at' \in {"line", Leave}
        /\ pkg_at' # Leave => status' = "error"
        /\ status' \in {"error", "db", "ok"}
        /\ pkg_at' = "line" => copied' \in 0..5
    <3>1. CASE OpenDb
      BY <1>1, <1>2, <3>1 DEF OpenDb, Fail, pkgDisk
    <3>2. CASE WriteLine
      <4>1. Len(Line) = 5
        BY DEF Line
      <4>2. /\ pkg_at = "line" /\ UNCHANGED <<package, i, files, installed>> /\ copied < 5
            /\ copied' = copied + 1 /\ pkg_at' = pkg_at /\ status' = status
            /\ \E w \in 0..Len(Line[copied + 1]) :
                 trouble' = (trouble \/ w < Len(Line[copied + 1]))
        BY <3>2, <4>1 DEF WriteLine
      <4>3. trouble' \in BOOLEAN
        BY <4>2
      <4>4. copied' \in Nat /\ copied' \in 0..5
        BY <1>1, <4>2
      <4> QED BY <1>2, <4>2, <4>3, <4>4
    <3>3. CASE CloseDb
      BY <1>1, <1>2, <3>3 DEF CloseDb, pkgDisk
    <3> QED BY <1>6, <3>1, <3>2, <3>3
  <2>2. PkgTypeOK'
    BY <1>s, <2>1
  <2>3. package \in Packages /\ i = Len(package.files) + 1
    BY <1>2, <2>1
  <2>4. \A f \in 1..(i - 1) : Whole(files, package, f)
    BY <1>g, <2>1 DEF Going
  <2>5. \A f \in 1..(i' - 1) : Whole(files', package', f)
    BY <2>1, <2>4
  <2> QED BY <1>h, <2>1, <2>2, <2>3, <2>5 DEF PkgInstalls
<1>7. CASE pkg_init \/ UNCHANGED pkgVars
  <2>1. /\ UNCHANGED <<package, i, files, installed, copied, pkg_at, status>>
        /\ trouble' \in BOOLEAN
    BY <1>1, <1>7 DEF pkg_init, pkgVars, pkgDisk
  <2>2. PkgTypeOK'
    BY <1>1, <1>s, <2>1
  <2>3. Going' = Going /\ entry' = entry
    BY <2>1 DEF Going, entry
  <2> QED BY <1>h, <2>1, <2>2, <2>3 DEF PkgInstalls
<1>8. CASE \E p \in Packages : pkg_install(p)
  <2>1. PICK p \in Packages : pkg_install(p)
    BY <1>8
  <2>2. /\ pkg_at' = "header" /\ package' = p /\ i' = 1 /\ copied' = 0 /\ status' = "error"
        /\ UNCHANGED <<files, installed, trouble>>
    BY <2>1 DEF pkg_install, pkgDisk
  <2>3. i' \in 1..(Len(package'.files) + 1)
    BY <2>2, FilesOf
  <2>4. PkgTypeOK'
    BY <1>1, <1>t, <2>2, <2>3
  <2> QED BY <1>h, <2>2, <2>4 DEF PkgInstalls, Going
<1>9. CASE Cleanup \/ PowerCut
  <2>1. /\ pkg_at' = "idle" /\ package' = NoPackage /\ i' = 1 /\ copied' = 0 /\ status' = "error"
        /\ files' = files
    BY <1>9 DEF Cleanup, PowerCut, pkgDisk
  <2>2. trouble' \in BOOLEAN
    BY <1>1, <1>9 DEF Cleanup, PowerCut
  <2>3. installed' \in Seq(Packages)
    <3>1. CASE Cleanup
      <4>1. package \in Packages
        BY <1>2, <3>1 DEF Cleanup
      <4>2. Append(installed, package) \in Seq(Packages)
        BY <1>1, <4>1, AppendProperties
      <4> QED BY <1>1, <3>1, <4>2 DEF Cleanup
    <3>2. CASE PowerCut
      BY <1>1, <3>2 DEF PowerCut
    <3> QED BY <1>9, <3>1, <3>2
  <2>4. i' \in 1..(Len(package'.files) + 1)
    BY <2>1, NoFiles
  <2>5. PkgTypeOK'
    BY <1>1, <1>t, <2>1, <2>2, <2>3, <2>4
  <2> QED BY <1>h, <2>1, <2>5 DEF PkgInstalls, Going
<1>10. CASE OpenDest
  <2>1. /\ pkg_at = "dest" /\ UNCHANGED <<package, i, installed, trouble>>
        /\ \/ /\ pkg_at' = "copy" /\ copied' = 0 /\ status' = status
              /\ files' = [files EXCEPT ![entry.filename] = [by |-> package, amount |-> 0]]
           \/ pkg_at' = Leave /\ status' = "file" /\ UNCHANGED <<copied, files>>
    BY <1>10 DEF OpenDest, Fail
  <2>2. package \in Packages /\ status = "error" /\ i \in 1..Len(package.files)
    BY <1>2, <2>1, FilesOf
  <2>3. entry.filename \in Files /\ entry.file_size \in Nat
    BY <2>2, FilesOf DEF entry
  <2>4. CASE pkg_at' = Leave
    <3>1. UNCHANGED <<copied, files>> /\ status' = "file"
      BY <2>1, <2>4
    <3>2. PkgTypeOK'
      BY <1>1, <1>s, <2>1, <2>4, <3>1
    <3> QED BY <1>h, <2>1, <2>2, <2>4, <3>1, <3>2 DEF PkgInstalls, Going
  <2>5. CASE pkg_at' = "copy"
    <3> DEFINE new == [by |-> package, amount |-> 0]
    <3>1. copied' = 0 /\ status' = "error" /\ files' = [files EXCEPT ![entry.filename] = new]
      BY <2>1, <2>2, <2>5
    <3>2. new \in FileState
      BY <2>2 DEF FileState
    <3>3. files' \in [Files -> FileState] /\ files'[entry.filename] = new
          /\ \A h \in Files : h # entry.filename => files'[h] = files[h]
      <4> HIDE DEF new, FileState
      <4> QED BY <1>1, <2>3, <3>1, <3>2
    <3>4. PkgTypeOK'
      BY <1>1, <1>t, <2>1, <2>5, <3>1, <3>3
    <3>5. entry' = entry /\ package' = package /\ i' = i
      BY <2>1 DEF entry
    <3>6. /\ files'[entry'.filename] = [by |-> package', amount |-> copied']
          /\ copied' <= entry'.file_size
      BY <2>3, <3>1, <3>3, <3>5
    <3>7. ASSUME NEW f \in 1..(i - 1) PROVE Whole(files', package, f)
      <4>1. Whole(files, package, f)
        BY <1>g, <2>1 DEF Going
      <4> QED BY <2>2, <3>3, <4>1, OthersWhole DEF entry
    <3>8. i' \in DOMAIN package'.files
      BY <2>2, <3>5, FilesOf
    <3>9. \A f \in 1..(i' - 1) : Whole(files', package', f)
      BY <3>5, <3>7
    <3> QED BY <1>h, <2>2, <2>5, <3>1, <3>4, <3>5, <3>6, <3>8, <3>9 DEF PkgInstalls
  <2> QED BY <2>1, <2>4, <2>5
<1>11. CASE CopySector
  <2>1. PICK n \in 0..ReadLength : \E w \in 0..n :
          /\ pkg_at = "copy" /\ Rest > 0 /\ UNCHANGED <<package, i, installed, trouble>>
          /\ files' = [files EXCEPT ![entry.filename].amount = @ + w]
          /\ \/ Copied(n, w) /\ copied' = copied + n /\ pkg_at' = pkg_at /\ status' = status
             \/ /\ pkg_at' = Leave /\ copied' = copied
                /\ status' = (IF n = 0 THEN "invalid" ELSE "file")
    BY <1>11 DEF CopySector, Fail
  <2>w. PICK w \in 0..n :
          /\ pkg_at = "copy" /\ Rest > 0 /\ UNCHANGED <<package, i, installed, trouble>>
          /\ files' = [files EXCEPT ![entry.filename].amount = @ + w]
          /\ \/ Copied(n, w) /\ copied' = copied + n /\ pkg_at' = pkg_at /\ status' = status
             \/ /\ pkg_at' = Leave /\ copied' = copied
                /\ status' = (IF n = 0 THEN "invalid" ELSE "file")
    BY <2>1
  <2>2. package \in Packages /\ status = "error" /\ i \in 1..Len(package.files)
    BY <1>2, <2>w, FilesOf
  <2>3. entry.filename \in Files /\ entry.file_size \in Nat
    BY <2>2, FilesOf DEF entry
  <2>4. files[entry.filename] = [by |-> package, amount |-> copied] /\ copied <= entry.file_size
    BY <2>w DEF PkgInstalls
  <2>5. n \in Nat /\ w \in Nat /\ copied + n <= entry.file_size
    <3>1. ReadLength \in Nat /\ ReadLength <= Rest /\ Rest = entry.file_size - copied
      BY <1>1, <2>3, <2>w, PkgAssumption DEF ReadLength, Rest
    <3> QED BY <1>1, <2>3, <3>1
  <2> DEFINE new == [by |-> package, amount |-> copied + w]
  <2>6. new \in FileState
    BY <1>1, <2>2, <2>5 DEF FileState
  <2>7. files' = [files EXCEPT ![entry.filename] = new]
    <3>1. files' = [files EXCEPT ![entry.filename] =
                      [files[entry.filename] EXCEPT !.amount = @ + w]]
      BY <2>w
    <3>2. [files[entry.filename] EXCEPT !.amount = @ + w] = new
      BY <2>4
    <3> QED BY <3>1, <3>2
  <2>8. files' \in [Files -> FileState] /\ files'[entry.filename] = new
        /\ \A h \in Files : h # entry.filename => files'[h] = files[h]
    <3> HIDE DEF new, FileState
    <3> QED BY <1>1, <2>3, <2>6, <2>7
  <2>9. /\ entry' = entry /\ package' = package /\ i' = i
        /\ installed' = installed /\ trouble' = trouble
    BY <2>w DEF entry
  <2>10. CASE pkg_at' = Leave
    <3>1. copied' = copied /\ status' \in {"invalid", "file"}
      BY <2>w, <2>10
    <3>2. PkgTypeOK'
      BY <1>1, <1>t, <2>8, <2>9, <2>10, <3>1
    <3> QED BY <1>h, <2>2, <2>9, <2>10, <3>1, <3>2 DEF PkgInstalls, Going
  <2>11. CASE pkg_at' # Leave
    <3>1. Copied(n, w) /\ copied' = copied + n /\ pkg_at' = "copy" /\ status' = "error"
      BY <2>2, <2>w, <2>11
    <3>2. w = n /\ copied' \in Nat
      BY <1>1, <2>5, <3>1 DEF Copied
    <3>3. PkgTypeOK'
      BY <1>1, <1>t, <2>8, <2>9, <3>1, <3>2
    <3>4. files'[entry'.filename] = [by |-> package', amount |-> copied']
          /\ copied' <= entry'.file_size
      BY <2>5, <2>8, <2>9, <3>1, <3>2
    <3>5. ASSUME NEW f \in 1..(i - 1) PROVE Whole(files', package, f)
      <4>1. Whole(files, package, f)
        BY <1>g, <2>w DEF Going
      <4> QED BY <2>2, <2>8, <4>1, OthersWhole DEF entry
    <3>6. i' \in DOMAIN package'.files
      BY <2>2, <2>9, FilesOf
    <3>7. \A f \in 1..(i' - 1) : Whole(files', package', f)
      BY <2>9, <3>5
    <3> QED BY <1>h, <2>2, <2>9, <3>1, <3>3, <3>4, <3>6, <3>7 DEF PkgInstalls
  <2> QED BY <2>10, <2>11
<1>12. CASE CloseDest
  <2>1. /\ pkg_at = "copy" /\ Rest = 0 /\ pkg_at' = "entry" /\ i' = i + 1 /\ copied' = 0
        /\ UNCHANGED <<package, status, files, installed, trouble>>
    BY <1>12 DEF CloseDest, pkgDisk
  <2>2. package \in Packages /\ status = "error" /\ i \in 1..Len(package.files)
    BY <1>2, <2>1, FilesOf
  <2>3. entry.filename \in Files /\ entry.file_size \in Nat
    BY <2>2, FilesOf DEF entry
  <2>4. files[entry.filename] = [by |-> package, amount |-> copied]
    BY <2>1 DEF PkgInstalls
  <2>5. copied = entry.file_size
    BY <1>1, <2>1, <2>3 DEF Rest
  <2>6. Whole(files, package, i)
    BY <2>4, <2>5 DEF Whole, entry
  <2>7. ASSUME NEW f \in 1..i PROVE Whole(files, package, f)
    <3>1. CASE f = i
      BY <2>6, <3>1
    <3>2. CASE f # i
      <4>1. f \in 1..(i - 1)
        BY <2>2, <3>2
      <4> QED BY <1>g, <2>1, <4>1 DEF Going
    <3> QED BY <3>1, <3>2
  <2>8. i' \in 1..(Len(package'.files) + 1) /\ i' - 1 = i
    BY <1>l, <2>1, <2>2
  <2>9. PkgTypeOK'
    BY <1>1, <1>t, <2>1, <2>8
  <2>10. \A f \in 1..(i' - 1) : Whole(files', package', f)
    BY <2>1, <2>7, <2>8
  <2> QED BY <1>h, <2>1, <2>2, <2>9, <2>10 DEF PkgInstalls
<1> QED
  BY <1>3, <1>4, <1>5, <1>6, <1>7, <1>8, <1>9, <1>10, <1>11, <1>12 DEF PkgNext, PkgStep

(* For all packages, disks and windows, whatever call fails and whenever    *)
(* the power goes: the state of the package manager keeps its type, the     *)
(* file it is at and the part it has copied included.                      *)
THEOREM PkgTypesHold == PkgSpec => []PkgTypeOK
<1>1. PkgInstalls => PkgTypeOK
  BY DEF PkgInstalls
<1> QED BY <1>1, PkgInstallsAtStart, PkgInstallsInductive, PTL DEF PkgSpec

-----------------------------------------------------------------------------
(* While no access has failed, the database is the text of the packages     *)
(* installed and as much as is written of the line of the next one.         *)
Pending(x) ==
  /\ pkg_at = "line" => Partial(x, package, copied)
  /\ status = "ok" => Partial(x, package, 5)
  /\ pkg_at # "line" /\ status # "ok" => x = << >>
DbIs(d, x, o) == db = d \o x /\ TextOf(d, installed, o) /\ Pending(x)
TextKept == ~trouble => \E d, x, o : DbIs(d, x, o)

LEMMA Typed ==
  ASSUME NEW p \in Packages, NEW k \in 0..5, NEW x, Partial(x, p, k)
  PROVE  x \in Seq(Alphabet)
<1>1. CASE k = 0
  BY <1>1 DEF Partial
<1>2. CASE k # 0
  <2>1. k \in 1..5
    BY <1>2
  <2> QED BY <2>1, Written
<1> QED BY <1>1, <1>2

PartsOf(p) == <<p.name, <<BLANK_CHAR>>, p.version, <<CR_CHAR>>, <<LF_CHAR>>>>

(* Each call that comes through writes the next part of the line. *)
LEMMA NextPart ==
  ASSUME NEW p \in Packages, NEW k \in 0..4, NEW x, Partial(x, p, k)
  PROVE  /\ PartsOf(p)[k + 1] \in Seq(Alphabet)
         /\ Partial(x \o PartsOf(p)[k + 1], p, k + 1)
<1>1. p.name \in Seq(Alphabet) /\ p.version \in Seq(Alphabet)
  <2>1. /\ p.name \in Seq(Characters \ {BLANK_CHAR, CR_CHAR, LF_CHAR})
        /\ p.version \in Seq(Characters \ {CR_CHAR, LF_CHAR})
    BY PackagesAssumption
  <2>2. /\ Characters \ {BLANK_CHAR, CR_CHAR, LF_CHAR} \subseteq Alphabet
        /\ Characters \ {CR_CHAR, LF_CHAR} \subseteq Alphabet
    BY DEF Alphabet
  <2> QED BY <2>1, <2>2
<1>2. /\ <<BLANK_CHAR>> \in Seq(Alphabet) /\ <<CR_CHAR>> \in Seq(Alphabet)
      /\ <<LF_CHAR>> \in Seq(Alphabet)
  <2>1. BLANK_CHAR \in Alphabet /\ CR_CHAR \in Alphabet /\ LF_CHAR \in Alphabet
    BY DEF Alphabet
  <2> QED BY <2>1
<1>3. CASE k = 0
  <2>1. x = << >> /\ PartsOf(p)[k + 1] = p.name
    BY <1>3 DEF Partial, PartsOf
  <2>2. << >> \o p.name = p.name
    BY <1>1, ConcatEmptySeq
  <2> QED BY <1>1, <1>3, <2>1, <2>2 DEF Partial
<1>4. CASE k = 1
  <2>1. x = p.name /\ PartsOf(p)[k + 1] = <<BLANK_CHAR>>
    BY <1>4 DEF Partial, PartsOf
  <2> QED BY <1>2, <1>4, <2>1 DEF Partial
<1>5. CASE k = 2
  <2>1. x = p.name \o <<BLANK_CHAR>> /\ PartsOf(p)[k + 1] = p.version
    BY <1>5 DEF Partial, PartsOf
  <2>2. x \o PartsOf(p)[k + 1] = LineFor(p)
    BY <2>1 DEF LineFor
  <2>3. PICK y : y = x \o PartsOf(p)[k + 1]
    OBVIOUS
  <2>4. y = LineFor(p) /\ k + 1 = 3 /\ PartsOf(p)[k + 1] \in Seq(Alphabet)
    BY <1>1, <1>5, <2>1, <2>2, <2>3
  <2>5. Partial(y, p, k + 1)
    BY <2>4 DEF Partial
  <2> QED BY <2>3, <2>4, <2>5
<1>6. CASE k = 3
  <2>1. x = LineFor(p) /\ PartsOf(p)[k + 1] = <<CR_CHAR>>
    BY <1>6 DEF Partial, PartsOf
  <2> QED BY <1>2, <1>6, <2>1 DEF Partial
<1>7. CASE k = 4
  <2>1. x = LineFor(p) \o <<CR_CHAR>> /\ PartsOf(p)[k + 1] = <<LF_CHAR>>
    BY <1>7 DEF Partial, PartsOf
  <2> QED BY <1>2, <1>7, <2>1 DEF Partial
<1>8. k = 0 \/ k = 1 \/ k = 2 \/ k = 3 \/ k = 4
  OBVIOUS
<1> QED BY <1>3, <1>4, <1>5, <1>6, <1>7, <1>8

LEMMA DbTyped ==
  ASSUME PkgInstalls, NEW d, NEW x, NEW o, DbIs(d, x, o)
  PROVE  /\ d \in Seq(Alphabet) /\ x \in Seq(Alphabet) /\ db \in Seq(Alphabet)
         /\ Closed(d) /\ installed \in Seq(Packages)
<1>1. d \in Seq(Alphabet) /\ Closed(d)
  BY DEF DbIs, TextOf
<1>2. x \in Seq(Alphabet)
  <2>1. CASE pkg_at = "line"
    <3>1. package \in Packages /\ copied \in 0..5 /\ Partial(x, package, copied)
      BY <2>1 DEF PkgInstalls, DbIs, Pending
    <3> QED BY <3>1, Typed
  <2>2. CASE status = "ok"
    <3>1. package \in Packages /\ 5 \in 0..5 /\ Partial(x, package, 5)
      BY <2>2 DEF PkgInstalls, DbIs, Pending, Leave
    <3> QED BY <3>1, Typed
  <2>3. CASE pkg_at # "line" /\ status # "ok"
    BY <2>3 DEF DbIs, Pending
  <2> QED BY <2>1, <2>2, <2>3
<1>3. db \in Seq(Alphabet)
  <2>1. db = d \o x
    BY DEF DbIs
  <2> QED BY <1>1, <1>2, <2>1, ConcatProperties
<1> QED BY <1>1, <1>2, <1>3 DEF PkgInstalls, PkgTypeOK

LEMMA TextKeptInductive == PkgInstalls /\ TextKept /\ [PkgNext]_pkgVars => TextKept'
<1> SUFFICES ASSUME PkgInstalls, TextKept, [PkgNext]_pkgVars, ~trouble'
             PROVE  \E d, x, o : DbIs(d, x, o)'
  BY DEF TextKept
<1> USE DEF Leave
<1>1. /\ pkg_at # Leave => status = "error"
      /\ status = "ok" => pkg_at = Leave
      /\ pkg_at # "idle" => package \in Packages
      /\ pkg_at = "line" => copied \in 0..5
  BY DEF PkgInstalls
<1>q. /\ db' = db /\ installed' = installed /\ ~trouble /\ pkg_at # "line" /\ status # "ok"
      /\ pkg_at' # "line" /\ status' # "ok"
      => \E d, x, o : DbIs(d, x, o)'
  <2> SUFFICES ASSUME db' = db, installed' = installed, ~trouble, pkg_at # "line", status # "ok",
                      pkg_at' # "line", status' # "ok"
               PROVE  \E d, x, o : DbIs(d, x, o)'
    OBVIOUS
  <2>1. PICK d, x, o : DbIs(d, x, o)
    BY DEF TextKept
  <2>2. DbIs(d, x, o)'
    BY <2>1 DEF DbIs, Pending, TextOf
  <2> QED BY <2>2
<1>2. CASE ReadHeader \/ CheckInstalled \/ ReadEntry \/ OpenDest \/ CopySector \/ CloseDest
  <2>1. db' = db /\ installed' = installed /\ ~trouble
    BY <1>2 DEF ReadHeader, CheckInstalled, ReadEntry, OpenDest, CopySector, CloseDest, pkgDisk
  <2>2. pkg_at # Leave /\ pkg_at # "line"
    BY <1>2 DEF ReadHeader, CheckInstalled, ReadEntry, OpenDest, CopySector, CloseDest
  <2>3. pkg_at' # "line" /\ (status' = status \/ status' # "ok")
    <3>1. CASE ReadHeader \/ CheckInstalled \/ ReadEntry
      BY <3>1 DEF ReadHeader, CheckInstalled, ReadEntry, Fail
    <3>2. CASE OpenDest \/ CloseDest
      BY <3>2 DEF OpenDest, CloseDest, Fail
    <3>3. CASE CopySector
      <4>1. pkg_at = "copy" /\ \E n \in 0..ReadLength :
              \/ pkg_at' = pkg_at /\ status' = status
              \/ pkg_at' = Leave /\ status' = (IF n = 0 THEN "invalid" ELSE "file")
        BY <3>3 DEF CopySector, Fail
      <4> QED BY <4>1
    <3> QED BY <1>2, <3>1, <3>2, <3>3
  <2> QED BY <1>1, <1>q, <2>1, <2>2, <2>3
<1>3. CASE pkg_init
  <2>1. db' = db /\ installed' = installed /\ ~trouble /\ pkg_at = "idle" /\ pkg_at' = "idle"
        /\ status' = status
    BY <1>3 DEF pkg_init
  <2> QED BY <1>1, <1>q, <2>1
<1>4. CASE \E p \in Packages : pkg_install(p)
  <2>1. db' = db /\ installed' = installed /\ ~trouble /\ pkg_at = "idle" /\ pkg_at' = "header"
        /\ status' = "error"
    BY <1>4 DEF pkg_install, pkgDisk
  <2> QED BY <1>1, <1>q, <2>1
<1>5. CASE PowerCut
  <2>1. db' = db /\ installed' = installed /\ ~trouble /\ pkg_at # "line" /\ status # "ok"
        /\ pkg_at' = "idle" /\ status' = "error"
    BY <1>5 DEF PowerCut, pkgDisk
  <2> QED BY <1>q, <2>1
<1>6. CASE OpenDb
  <2>1. pkg_at = "append" /\ db' = db /\ installed' = installed /\ ~trouble /\ status = "error"
    BY <1>1, <1>6 DEF OpenDb, pkgDisk
  <2>2. CASE pkg_at' = "line"
    <3>1. copied' = 0 /\ status' # "ok"
      BY <1>6, <2>1, <2>2 DEF OpenDb, Fail
    <3>2. PICK d, x, o : DbIs(d, x, o)
      BY <2>1 DEF TextKept
    <3>3. x = << >>
      BY <2>1, <3>2 DEF DbIs, Pending
    <3>4. Pending(x)'
      BY <2>2, <3>1, <3>3 DEF Pending, Partial
    <3>5. DbIs(d, x, o)'
      BY <2>1, <3>2, <3>4 DEF DbIs, TextOf
    <3> QED BY <3>5
  <2>3. CASE pkg_at' # "line"
    <3>1. status' # "ok"
      BY <1>6, <2>1, <2>3 DEF OpenDb, Fail
    <3> QED BY <1>q, <2>1, <2>3, <3>1
  <2> QED BY <2>2, <2>3
<1>7. CASE WriteLine
  <2>1. Len(Line) = 5 /\ Line = PartsOf(package)
    BY DEF Line, PartsOf
  <2>2. /\ pkg_at = "line" /\ copied < 5 /\ copied' = copied + 1
        /\ pkg_at' = "line" /\ status' = status /\ package' = package /\ installed' = installed
        /\ ~trouble
        /\ \E w \in 0..Len(Line[copied + 1]) :
             /\ db' = db \o SubSeq(Line[copied + 1], 1, w)
             /\ ~(w < Len(Line[copied + 1]))
    BY <1>7, <2>1 DEF WriteLine
  <2>3. package \in Packages /\ copied \in 0..4
    BY <1>1, <2>2
  <2>4. PICK d, x, o : DbIs(d, x, o)
    BY <2>2 DEF TextKept
  <2>5. PICK part : part = PartsOf(package)[copied + 1]
    OBVIOUS
  <2>6. Partial(x, package, copied)
    BY <2>2, <2>4 DEF DbIs, Pending
  <2>7. part \in Seq(Alphabet) /\ Partial(x \o part, package, copied + 1)
    BY <2>3, <2>5, <2>6, NextPart
  <2>8. db' = db \o part
    <3>1. PICK w \in 0..Len(part) : db' = db \o SubSeq(part, 1, w) /\ ~(w < Len(part))
      BY <2>1, <2>2, <2>5
    <3>2. Len(part) \in Nat
      BY <2>7
    <3>3. w = Len(part)
      BY <3>1, <3>2
    <3>4. SubSeq(part, 1, Len(part)) = part
      BY <2>7, SubSeqFull
    <3> QED BY <3>1, <3>3, <3>4
  <2>9. d \in Seq(Alphabet) /\ x \in Seq(Alphabet) /\ db = d \o x
    BY <2>4, DbTyped DEF DbIs
  <2>10. db' = d \o (x \o part)
    BY <2>7, <2>8, <2>9, ConcatAssociative
  <2>11. status' # "ok"
    BY <1>1, <2>2
  <2>12. Pending(x \o part)'
    BY <2>2, <2>7, <2>11 DEF Pending
  <2>13. DbIs(d, x \o part, o)'
    BY <2>2, <2>4, <2>10, <2>12 DEF DbIs, TextOf
  <2> QED BY <2>13
<1>8. CASE CloseDb
  <2>1. Len(Line) = 5
    BY DEF Line
  <2>2. /\ pkg_at = "line" /\ copied = 5 /\ pkg_at' = Leave /\ status' = "ok" /\ ~trouble
        /\ package' = package /\ installed' = installed /\ db' = db
    BY <1>8, <2>1 DEF CloseDb, pkgDisk
  <2>3. PICK d, x, o : DbIs(d, x, o)
    BY <2>2 DEF TextKept
  <2>4. Pending(x)'
    BY <2>2, <2>3 DEF DbIs, Pending
  <2>5. DbIs(d, x, o)'
    BY <2>2, <2>3, <2>4 DEF DbIs, TextOf
  <2> QED BY <2>5
<1>9. CASE Cleanup
  <2>1. /\ pkg_at = Leave /\ pkg_at' = "idle" /\ status' = "error" /\ db' = db /\ ~trouble
        /\ status = "ok" => installed' = Append(installed, package)
        /\ status # "ok" => installed' = installed
    BY <1>9 DEF Cleanup, pkgDisk
  <2>2. CASE status # "ok"
    BY <1>q, <2>1, <2>2
  <2>3. CASE status = "ok"
    <3>1. PICK d, x, o : DbIs(d, x, o)
      BY <2>1 DEF TextKept
    <3>2. TextOf(d, installed, o) /\ Partial(x, package, 5) /\ db = d \o x
      BY <2>3, <3>1 DEF DbIs, Pending
    <3>3. package \in Packages /\ installed \in Seq(Packages)
      BY <1>1, <2>1, <3>1, DbTyped
    <3>4. PICK q : TextOf(db, Append(installed, package), q)
      BY <3>2, <3>3, OneMore
    <3>5. db \o << >> = db
      <4>1. db \in Seq(Alphabet)
        BY <3>1, DbTyped
      <4> QED BY <4>1, ConcatEmptySeq
    <3>6. Pending(<< >>)'
      BY <2>1 DEF Pending
    <3>7. \E d2, x2, o2 : DbIs(d2, x2, o2)'
      <4>1. PICK e : e = db
        OBVIOUS
      <4>2. DbIs(e, << >>, q)'
        BY <2>1, <2>3, <3>4, <3>5, <3>6, <4>1 DEF DbIs, TextOf
      <4> QED BY <4>2
    <3> QED BY <3>7
  <2> QED BY <2>2, <2>3
<1>10. CASE UNCHANGED pkgVars
  <2>1. UNCHANGED <<db, installed, trouble, pkg_at, status, package, copied>>
    BY <1>10 DEF pkgVars, pkgDisk
  <2>2. PICK d, x, o : DbIs(d, x, o)
    BY <2>1 DEF TextKept
  <2>3. DbIs(d, x, o)'
    BY <2>1, <2>2 DEF DbIs, Pending, TextOf
  <2> QED BY <2>3
<1> QED
  BY <1>2, <1>3, <1>4, <1>5, <1>6, <1>7, <1>8, <1>9, <1>10 DEF PkgNext, PkgStep

-----------------------------------------------------------------------------
(* Where the database fits what is read of it, what is installed is whole,  *)
(* installed once, and not what is being installed.                         *)
InFullKept ==
  InFull =>
    /\ \A n \in 1..Len(installed) : \A f \in 1..Len(installed[n].files) :
         Whole(files, installed[n], f)
    /\ \A m, n \in 1..Len(installed) : installed[m] = installed[n] => m = n
    /\ Going => \A n \in 1..Len(installed) : installed[n] # package

PkgInv == PkgInstalls /\ TextKept /\ InFullKept

(* The line of the package being installed has been begun. *)
Begun == (pkg_at = "line" /\ copied # 0) \/ status = "ok"

LEMMA WindowIs == ASSUME PkgInstalls, TextKept, InFull PROVE Window = db
<1>1. PICK d, x, o : DbIs(d, x, o)
  BY DEF TextKept, InFull
<1>2. db \in Seq(Alphabet)
  BY <1>1, DbTyped
<1>3. Len(db) \in Nat /\ Len(db) <= DB_WINDOW /\ DB_WINDOW \in Nat
  BY <1>2, PkgAssumption DEF InFull
<1>4. (IF Len(db) < DB_WINDOW THEN Len(db) ELSE DB_WINDOW) = Len(db)
  BY <1>3
<1>5. SubSeq(db, 1, Len(db)) = db
  BY <1>2, SubSeqFull
<1> QED BY <1>4, <1>5 DEF Window

(* The names that the database answers for. *)
LEMMA NamesInDb ==
  ASSUME PkgInstalls, TextKept, InFull, NEW name
  PROVE  pkg_is_installed(name)
           <=> \/ \E n \in 1..Len(installed) : installed[n].name = name
               \/ Begun /\ package.name = name
<1>1. PICK d, x, o : DbIs(d, x, o)
  BY DEF TextKept, InFull
<1>2. /\ d \in Seq(Alphabet) /\ x \in Seq(Alphabet) /\ db = d \o x /\ Closed(d)
      /\ installed \in Seq(Packages) /\ TextOf(d, installed, o)
  BY <1>1, DbTyped DEF DbIs
<1>3. pkg_is_installed(name) <=> IsNamed(db, name)
  BY WindowIs DEF pkg_is_installed, IsNamed
<1>4. IsNamed(d, name) <=> \E n \in 1..Len(installed) : installed[n].name = name
  BY <1>2, TextNames
<1>5. CASE Begun
  <2>1. PICK k \in 1..5 : Partial(x, package, k)
    <3>1. CASE status = "ok"
      <4>1. Partial(x, package, 5) /\ 5 \in 1..5
        BY <1>1, <3>1 DEF DbIs, Pending
      <4> QED BY <4>1
    <3>2. CASE pkg_at = "line" /\ copied # 0
      <4>1. Partial(x, package, copied) /\ copied \in 0..5
        BY <1>1, <3>2 DEF DbIs, Pending, PkgInstalls
      <4>2. copied \in 1..5
        BY <3>2, <4>1
      <4> QED BY <4>1, <4>2
    <3> QED BY <1>5, <3>1, <3>2 DEF Begun
  <2>2. package \in Packages
    BY <1>5 DEF Begun, PkgInstalls, Leave
  <2>3. IsNamed(d \o x, name) <=> IsNamed(d, name) \/ package.name = name
    BY <1>2, <2>1, <2>2, LongerNames
  <2> QED BY <1>2, <1>3, <1>4, <1>5, <2>3
<1>6. CASE ~Begun
  <2>1. x = << >>
    <3>1. CASE pkg_at = "line"
      <4>1. copied = 0 /\ Partial(x, package, copied)
        BY <1>1, <1>6, <3>1 DEF DbIs, Pending, Begun
      <4> QED BY <4>1 DEF Partial
    <3>2. CASE pkg_at # "line"
      BY <1>1, <1>6, <3>2 DEF DbIs, Pending, Begun
    <3> QED BY <3>1, <3>2
  <2>2. db = d
    BY <1>2, <2>1, ConcatEmptySeq
  <2> QED BY <1>3, <1>4, <1>6, <2>2
<1> QED BY <1>5, <1>6

(* The database has fitted all the time, if it fits now. *)
LEMMA InFullBefore ==
  ASSUME PkgInstalls, TextKept, [PkgNext]_pkgVars, InFull'
  PROVE  InFull
<1>1. ~trouble' /\ Len(db') <= DB_WINDOW /\ DB_WINDOW \in Nat
  BY PkgAssumption DEF InFull
<1>2. CASE WriteLine
  <2>1. ~trouble /\ pkg_at = "line" /\ copied < 5 /\ Line = PartsOf(package)
        /\ \E w \in 0..Len(Line[copied + 1]) :
             db' = db \o SubSeq(Line[copied + 1], 1, w) /\ ~(w < Len(Line[copied + 1]))
    <3>1. Len(Line) = 5
      BY DEF Line
    <3> QED BY <1>1, <1>2, <3>1 DEF WriteLine, Line, PartsOf
  <2>2. PICK d, x, o : DbIs(d, x, o)
    BY <2>1 DEF TextKept
  <2>3. db \in Seq(Alphabet)
    BY <2>2, DbTyped
  <2>4. PICK part : part = PartsOf(package)[copied + 1]
    OBVIOUS
  <2>5. part \in Seq(Alphabet)
    <3>1. package \in Packages /\ copied \in 0..5
      BY <2>1 DEF PkgInstalls
    <3>2. copied \in 0..4
      BY <2>1, <3>1
    <3>3. Partial(x, package, copied)
      BY <2>1, <2>2 DEF DbIs, Pending
    <3> QED BY <2>4, <3>1, <3>2, <3>3, NextPart
  <2>6. db' = db \o part
    <3>1. PICK w \in 0..Len(part) : db' = db \o SubSeq(part, 1, w) /\ ~(w < Len(part))
      BY <2>1, <2>4
    <3>2. Len(part) \in Nat
      BY <2>5
    <3>3. w = Len(part)
      BY <3>1, <3>2
    <3>4. SubSeq(part, 1, Len(part)) = part
      BY <2>5, SubSeqFull
    <3> QED BY <3>1, <3>3, <3>4
  <2>7. Len(db') = Len(db) + Len(part) /\ Len(db) \in Nat /\ Len(part) \in Nat
    BY <2>3, <2>5, <2>6, Joined
  <2>8. Len(db) <= DB_WINDOW
    BY <1>1, <2>7
  <2> QED BY <2>1, <2>8 DEF InFull
<1>3. CASE ~WriteLine
  <2>1. db' = db
    BY <1>1, <1>3 DEF PkgNext, PkgStep, ReadHeader, CheckInstalled, ReadEntry, OpenDest,
      CopySector, CloseDest, OpenDb, CloseDb, Cleanup, PowerCut, pkg_init, pkg_install, pkgVars,
      pkgDisk
  <2>2. ~trouble
    BY <1>1, <1>3 DEF PkgNext, PkgStep, ReadHeader, CheckInstalled, ReadEntry, OpenDest,
      CopySector, CloseDest, OpenDb, CloseDb, Cleanup, PowerCut, pkg_init, pkg_install, pkgVars,
      pkgDisk
  <2> QED BY <1>1, <2>1, <2>2 DEF InFull
<1> QED BY <1>2, <1>3

LEMMA InFullKeptInductive == PkgInv /\ [PkgNext]_pkgVars => InFullKept'
<1> SUFFICES ASSUME PkgInv, [PkgNext]_pkgVars, InFull' PROVE InFullKept'
  BY DEF InFullKept
<1> USE DEF Leave
<1>1. PkgInstalls /\ TextKept /\ InFull /\ PkgInstalls'
  BY InFullBefore, PkgInstallsInductive DEF PkgInv
<1> DEFINE All(fs, ps) ==
             \A n \in 1..Len(ps) : \A f \in 1..Len(ps[n].files) : Whole(fs, ps[n], f)
           Once(ps) == \A m, n \in 1..Len(ps) : ps[m] = ps[n] => m = n
           New(ps, p) == \A n \in 1..Len(ps) : ps[n] # p
<1>2. All(files, installed) /\ Once(installed) /\ (Going => New(installed, package))
  BY <1>1 DEF PkgInv, InFullKept
<1>3. /\ All(files', installed') /\ Once(installed') /\ (Going' => New(installed', package'))
      => InFullKept'
  BY DEF InFullKept
<1> HIDE DEF All, Once, New
<1>i. installed \in Seq(Packages) /\ Len(installed) \in Nat
      /\ \A n \in 1..Len(installed) : installed[n] \in Packages
  BY <1>1 DEF PkgInstalls, PkgTypeOK
<1>p. /\ pkg_at # Leave => status = "error"
      /\ pkg_at # "idle" => package \in Packages
      /\ pkg_at \in {"dest", "copy"} => i \in DOMAIN package.files
  BY <1>1 DEF PkgInstalls
<1>4. CASE UNCHANGED <<files, installed, package>> /\ (Going' => Going)
  BY <1>2, <1>3, <1>4
<1>5. CASE UNCHANGED <<files, installed>> /\ ~Going'
  BY <1>2, <1>3, <1>5
<1>6. CASE ReadHeader
  <2>1. UNCHANGED <<files, installed>> /\ ~Going'
    BY <1>6, <1>p DEF ReadHeader, Fail, pkgDisk, Going
  <2> QED BY <1>5, <2>1
<1>7. CASE CheckInstalled
  <2>1. UNCHANGED <<files, installed, package>> /\ pkg_at = "check"
    BY <1>7 DEF CheckInstalled, pkgDisk
  <2>2. Going' => ~pkg_is_installed(package.name)
    <3>1. ~trouble'
      BY DEF InFull
    <3> QED BY <1>7, <1>p, <3>1 DEF CheckInstalled, Fail, Going
  <2>3. ASSUME Going', NEW n \in 1..Len(installed) PROVE installed[n] # package
    <3>1. ~(\E k \in 1..Len(installed) : installed[k].name = package.name)
      BY <1>1, <2>2, <2>3, NamesInDb
    <3> QED BY <3>1
  <2>4. Going' => New(installed, package)
    BY <2>3 DEF New
  <2> QED BY <1>2, <1>3, <2>1, <2>4
<1>8. CASE ReadEntry
  <2>1. UNCHANGED <<files, installed, package>> /\ Going
    BY <1>8 DEF ReadEntry, pkgDisk, Going
  <2> QED BY <1>4, <2>1
<1>9. CASE OpenDest \/ CopySector
  <2>1. /\ pkg_at \in {"dest", "copy"} /\ UNCHANGED <<installed, package>> /\ Going
    BY <1>9 DEF OpenDest, CopySector, Going
  <2>2. package \in Packages /\ i \in 1..Len(package.files)
    BY <1>p, <2>1, FilesOf
  <2>3. entry.filename \in Files
    BY <2>2, FilesOf DEF entry
  <2>4. files \in [Files -> FileState] /\ files' \in [Files -> FileState]
    BY <1>1 DEF PkgInstalls, PkgTypeOK, FileState
  <2>5. \A h \in Files : h # entry.filename => files'[h] = files[h]
    <3>1. \/ files' = files
          \/ \E new : files' = [files EXCEPT ![entry.filename] = new]
      <4>1. CASE OpenDest
        BY <4>1 DEF OpenDest, Fail
      <4>2. CASE CopySector
        <5>1. PICK w : files' = [files EXCEPT ![entry.filename].amount = @ + w]
          BY <4>2 DEF CopySector
        <5>2. files' = [files EXCEPT ![entry.filename] =
                          [files[entry.filename] EXCEPT !.amount = @ + w]]
          BY <5>1
        <5> QED BY <5>2
      <4> QED BY <1>9, <4>1, <4>2
    <3> QED BY <2>4, <3>1
  <2>6. files'[entry.filename].by = package \/ files' = files
    <3>1. CASE OpenDest
      <4>1. \/ files' = files
            \/ files' = [files EXCEPT ![entry.filename] = [by |-> package, amount |-> 0]]
        BY <3>1 DEF OpenDest, Fail
      <4>2. \A new : [files EXCEPT ![entry.filename] = new][entry.filename] = new
        <5> HIDE DEF FileState
        <5> QED BY <2>3, <2>4
      <4>3. [by |-> package, amount |-> 0].by = package
        OBVIOUS
      <4> QED BY <4>1, <4>2, <4>3
    <3>2. CASE CopySector
      <4>1. files[entry.filename] = [by |-> package, amount |-> copied]
        BY <1>1, <3>2 DEF CopySector, PkgInstalls
      <4>2. PICK w : files' = [files EXCEPT ![entry.filename].amount = @ + w]
        BY <3>2 DEF CopySector
      <4>3. files' = [files EXCEPT ![entry.filename] = [by |-> package, amount |-> copied + w]]
        <5>1. files' = [files EXCEPT ![entry.filename] =
                          [files[entry.filename] EXCEPT !.amount = @ + w]]
          BY <4>2
        <5>2. [files[entry.filename] EXCEPT !.amount = @ + w] =
                [by |-> package, amount |-> copied + w]
          BY <4>1
        <5> QED BY <5>1, <5>2
      <4>4. \A new : [files EXCEPT ![entry.filename] = new][entry.filename] = new
        <5> HIDE DEF FileState
        <5> QED BY <2>3, <2>4
      <4>5. [by |-> package, amount |-> copied + w].by = package
        OBVIOUS
      <4> QED BY <4>3, <4>4, <4>5
    <3> QED BY <1>9, <3>1, <3>2
  <2>7. New(installed, package)
    BY <1>2, <2>1
  <2>8. ASSUME NEW n \in 1..Len(installed), NEW f \in 1..Len(installed[n].files)
        PROVE  Whole(files', installed[n], f)
    <3>1. Whole(files, installed[n], f)
      BY <1>2 DEF All
    <3>2. CASE files' = files
      BY <3>1, <3>2
    <3>3. CASE files' # files
      <4>1. installed[n].files[f].filename \in Files /\ installed[n] # package
        BY <1>i, <2>7, FilesOf DEF New
      <4>2. CASE installed[n].files[f].filename = entry.filename
        BY <2>6, <3>3, <4>1, <4>2 DEF Whole
      <4>3. CASE installed[n].files[f].filename # entry.filename
        <5>1. files'[installed[n].files[f].filename] = files[installed[n].files[f].filename]
          BY <2>5, <4>1, <4>3
        <5> QED BY <3>1, <5>1 DEF Whole
      <4> QED BY <4>2, <4>3
    <3> QED BY <3>2, <3>3
  <2>9. All(files', installed)
    BY <2>8 DEF All
  <2> QED BY <1>2, <1>3, <2>1, <2>7, <2>9
<1>10. CASE CloseDest \/ OpenDb \/ WriteLine \/ CloseDb
  <2>1. UNCHANGED <<files, installed, package>> /\ Going
    BY <1>10 DEF CloseDest, OpenDb, WriteLine, CloseDb, pkgDisk, Going
  <2> QED BY <1>4, <2>1
<1>11. CASE PowerCut
  <2>1. UNCHANGED <<files, installed>> /\ ~Going'
    BY <1>11 DEF PowerCut, pkgDisk, Going
  <2> QED BY <1>5, <2>1
<1>12. CASE Cleanup
  <2>1. /\ pkg_at = Leave /\ files' = files /\ ~Going'
        /\ status = "ok" => installed' = Append(installed, package)
        /\ status # "ok" => installed' = installed
    BY <1>12 DEF Cleanup, pkgDisk, Going
  <2>2. CASE status # "ok"
    BY <1>5, <2>1, <2>2
  <2>3. CASE status = "ok"
    <3> DEFINE N == Len(installed)
    <3>1. /\ package \in Packages /\ i = Len(package.files) + 1 /\ Going
          /\ \A f \in 1..(i - 1) : Whole(files, package, f)
      BY <1>1, <1>p, <2>1, <2>3 DEF PkgInstalls, Going
    <3>2. \A f \in 1..Len(package.files) : Whole(files, package, f)
      <4>1. Len(package.files) \in Nat
        BY <3>1, FilesOf
      <4>2. i - 1 = Len(package.files)
        BY <3>1, <4>1
      <4> QED BY <3>1, <4>2
    <3>3. /\ Len(installed') = N + 1 /\ installed'[N + 1] = package
          /\ \A n \in 1..N : installed'[n] = installed[n]
      <4>1. \A n \in 1..Len(installed') :
              installed'[n] = IF n <= N THEN installed[n] ELSE package
        BY <1>i, <2>1, <2>3, <3>1, AppendProperties
      <4>2. Len(installed') = N + 1
        BY <1>i, <2>1, <2>3, <3>1, AppendProperties
      <4>3. N + 1 \in 1..(N + 1) /\ ~(N + 1 <= N) /\ \A n \in 1..N : n \in 1..(N + 1) /\ n <= N
        BY <1>i
      <4> QED BY <4>1, <4>2, <4>3
    <3>4. \A n \in 1..(N + 1) : n \in 1..N \/ n = N + 1
      BY <1>i
    <3> HIDE DEF N
    <3>5. All(files', installed')
      <4>1. ASSUME NEW n \in 1..(N + 1), NEW f \in 1..Len(installed'[n].files)
            PROVE  Whole(files', installed'[n], f)
        <5>1. CASE n = N + 1
          BY <2>1, <3>2, <3>3, <5>1
        <5>2. CASE n \in 1..N
          BY <1>2, <2>1, <3>3, <5>2 DEF All, N
        <5> QED BY <3>4, <5>1, <5>2
      <4> QED BY <3>3, <4>1 DEF All
    <3>6. Once(installed')
      <4>1. New(installed, package)
        BY <1>2, <3>1
      <4>2. ASSUME NEW m \in 1..(N + 1), NEW n \in 1..(N + 1), installed'[m] = installed'[n]
            PROVE  m = n
        <5>1. CASE m \in 1..N /\ n \in 1..N
          BY <1>2, <3>3, <4>2, <5>1 DEF Once, N
        <5>2. CASE m \in 1..N /\ n = N + 1
          BY <3>3, <4>1, <4>2, <5>2 DEF New, N
        <5>3. CASE m = N + 1 /\ n \in 1..N
          BY <3>3, <4>1, <4>2, <5>3 DEF New, N
        <5>4. CASE m = N + 1 /\ n = N + 1
          BY <5>4
        <5> QED BY <3>4, <5>1, <5>2, <5>3, <5>4
      <4> QED BY <3>3, <4>2 DEF Once
    <3> QED BY <1>3, <2>1, <3>5, <3>6
  <2> QED BY <2>2, <2>3
<1>13. CASE pkg_init \/ UNCHANGED pkgVars
  <2>1. UNCHANGED <<files, installed, package>> /\ (Going' => Going)
    BY <1>13 DEF pkg_init, pkgVars, pkgDisk, Going
  <2> QED BY <1>4, <2>1
<1>14. CASE \E p \in Packages : pkg_install(p)
  <2>1. UNCHANGED <<files, installed>> /\ ~Going'
    BY <1>14 DEF pkg_install, pkgDisk, Going
  <2> QED BY <1>5, <2>1
<1> QED
  BY <1>6, <1>7, <1>8, <1>9, <1>10, <1>11, <1>12, <1>13, <1>14 DEF PkgNext, PkgStep

LEMMA PkgInvHolds == PkgSpec => []PkgInv
<1>1. PkgInit => PkgInv
  <2> SUFFICES ASSUME PkgInit PROVE PkgInv
    OBVIOUS
  <2>1. db = << >> /\ installed = << >> /\ pkg_at = "idle" /\ status = "error"
    BY DEF PkgInit
  <2>2. DbIs(<< >>, << >>, << >>)
    <3>1. << >> \o << >> = << >>
      BY ConcatEmptySeq
    <3> QED BY <2>1, <3>1, NoText DEF DbIs, Pending
  <2>3. Len(installed) = 0 /\ \A n \in 1..0 : FALSE
    BY <2>1
  <2>4. InFullKept
    BY <2>1, <2>3 DEF InFullKept, Going
  <2> QED BY <2>2, <2>4, PkgInstallsAtStart DEF PkgInv, TextKept
<1>2. PkgInv /\ [PkgNext]_pkgVars => PkgInv'
  BY PkgInstallsInductive, TextKeptInductive, InFullKeptInductive DEF PkgInv
<1> QED BY <1>1, <1>2, PTL DEF PkgSpec

(* For all packages, sectors and windows, whatever call fails, and whenever *)
(* the power goes: each file of a package that the database lists is        *)
(* complete, or another package has written it since.                       *)
THEOREM ListedPackagesWhole == PkgSpec => []ListedIsComplete
<1>1. PkgInv => ListedIsComplete
  <2> SUFFICES ASSUME PkgInv, InFull, NEW p \in Packages, pkg_is_installed(p.name),
                      NEW f \in DOMAIN p.files
               PROVE  files[p.files[f].filename].by = p
                        => files[p.files[f].filename].amount = p.files[f].file_size
    BY DEF ListedIsComplete
  <2>1. f \in 1..Len(p.files) /\ Len(p.files) \in Nat
    BY FilesOf
  <2>2. \/ \E n \in 1..Len(installed) : installed[n].name = p.name
        \/ Begun /\ package.name = p.name
    BY NamesInDb DEF PkgInv
  <2>3. CASE \E n \in 1..Len(installed) : installed[n].name = p.name
    <3>1. PICK n \in 1..Len(installed) : installed[n].name = p.name
      BY <2>3
    <3>2. installed[n] \in Packages
      BY DEF PkgInv, PkgInstalls, PkgTypeOK
    <3>3. installed[n] = p
      BY <3>1, <3>2, PackagesAssumption
    <3>4. Whole(files, p, f)
      BY <2>1, <3>3 DEF PkgInv, InFullKept
    <3> QED BY <3>4 DEF Whole
  <2>4. CASE Begun /\ package.name = p.name
    <3>1. package \in Packages /\ Going /\ i = Len(package.files) + 1
      BY <2>4 DEF Begun, PkgInv, PkgInstalls, Going, Leave
    <3>2. package = p
      BY <2>4, <3>1, PackagesAssumption
    <3>3. f \in 1..(i - 1)
      BY <2>1, <3>1, <3>2
    <3>4. Whole(files, p, f)
      BY <3>1, <3>2, <3>3 DEF PkgInv, PkgInstalls
    <3> QED BY <3>4 DEF Whole
  <2> QED BY <2>2, <2>3, <2>4
<1> QED BY <1>1, PkgInvHolds, PTL

(* For all packages, sectors and windows, as long as the database fits what *)
(* is read and no access to it has failed: it answers for the installed     *)
(* packages and no other, each is installed once, and the list shows their  *)
(* lines in the order they came.                                           *)
THEOREM DatabaseAnswers == PkgSpec => []FoundOnce
<1>1. PkgInv => FoundOnce
  <2> SUFFICES ASSUME PkgInv, InFull, pkg_at = "idle" PROVE
        /\ \A p \in Packages :
             pkg_is_installed(p.name) <=> p \in {installed[n] : n \in DOMAIN installed}
        /\ \A m, n \in DOMAIN installed : installed[m] = installed[n] => m = n
        /\ pkg_list_installed =
             [n \in DOMAIN installed |->
                 installed[n].name \o <<BLANK_CHAR>> \o installed[n].version]
    BY DEF FoundOnce
  <2>1. PICK d, x, o : DbIs(d, x, o)
    BY DEF PkgInv, TextKept, InFull
  <2>2. d \in Seq(Alphabet) /\ installed \in Seq(Packages) /\ DOMAIN installed = 1..Len(installed)
        /\ \A n \in 1..Len(installed) : installed[n] \in Packages
    BY <2>1, DbTyped DEF PkgInv
  <2>3. status = "error"
    BY DEF PkgInv, PkgInstalls, Leave
  <2>4. db = d /\ TextOf(d, installed, o)
    <3>1. db = d \o x /\ x = << >> /\ TextOf(d, installed, o)
      BY <2>1, <2>3 DEF DbIs, Pending
    <3> QED BY <2>2, <3>1, ConcatEmptySeq
  <2>5. ASSUME NEW p \in Packages
        PROVE  pkg_is_installed(p.name) <=> p \in {installed[n] : n \in DOMAIN installed}
    <3>1. ~Begun
      BY <2>3 DEF Begun
    <3>2. pkg_is_installed(p.name) <=> \E n \in 1..Len(installed) : installed[n].name = p.name
      BY <3>1, NamesInDb DEF PkgInv
    <3>3. \A n \in 1..Len(installed) : installed[n].name = p.name <=> installed[n] = p
      BY <2>2, PackagesAssumption
    <3> QED BY <2>2, <3>2, <3>3
  <2>6. \A m, n \in DOMAIN installed : installed[m] = installed[n] => m = n
    BY <2>2 DEF PkgInv, InFullKept
  <2>7. Window = d
    BY <2>4, WindowIs DEF PkgInv
  <2>8. pkg_list_installed = [n \in DOMAIN installed |-> LineFor(installed[n])]
    BY <2>2, <2>4, <2>7, TextList DEF pkg_list_installed
  <2> QED BY <2>5, <2>6, <2>8 DEF LineFor
<1> QED BY <1>1, PkgInvHolds, PTL
=============================================================================
