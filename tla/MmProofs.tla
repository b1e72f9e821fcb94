------------------------------ MODULE MmProofs ------------------------------
(***************************************************************************)
(* Theorems about Mm for every width, pool and set of requested sizes that *)
(* satisfies the assumptions of that module.                               *)
(*                                                                         *)
(* MmTypeOK, NoOverlap and NoLeak together are inductive.  The work is in    *)
(* the three ways the list changes: a block replaced by its tail, a block  *)
(* taken out, and a block put in front.                                    *)
(***************************************************************************)
EXTENDS Mm, SequenceTheorems, TLAPS

IInv == MmTypeOK /\ NoOverlap /\ NoLeak
-----------------------------------------------------------------------------
(* A part of a block is apart from whatever the block is apart from. *)
LEMMA PartApart ==
  ASSUME NEW a, NEW b, NEW c,
         a.addr \in Nat, a.size \in Nat, b.addr \in Nat, b.size \in Nat,
         c.addr \in Nat, c.size \in Nat,
         a.addr <= c.addr, c.addr + c.size <= a.addr + a.size,
         Apart(a, b)
  PROVE  Apart(c, b) /\ Apart(b, c)
  BY DEF Apart

LEMMA ApartSymmetric ==
  ASSUME NEW a, NEW b, Apart(a, b)
  PROVE  Apart(b, a)
  BY DEF Apart

(* No wrap-around happens in the size computation of mm_alloc. *)
LEMMA Below ==
  ASSUME NEW M \in Nat, NEW x \in Nat, x < M
  PROVE  x % M = x
  BY SMT

LEMMA TotalSizeFits ==
  ASSUME NEW n \in Requests
  PROVE  /\ n \in Nat /\ n > 0
         /\ TotalSize(n) \in Nat
         /\ n + BLOCK_OVERHEAD <= TotalSize(n)
         /\ TotalSize(n) < W
<1>1. /\ n \in Nat /\ n > 0 /\ n + 7 < W /\ W \in Nat
  BY RequestAssumption, WidthAssumption DEF BLOCK_OVERHEAD
<1>2. (n + 1) % W = n + 1
  <2>1. n + 1 \in Nat /\ n + 1 < W
    BY <1>1
  <2> QED BY <1>1, <2>1, Below
<1>3. align_size(n) = (n + 1) - ((n + 1) % 2)
  BY <1>2 DEF align_size
<1>4. (n + 1) % 2 \in 0..1
  BY <1>1
<1>5. align_size(n) \in Nat /\ n <= align_size(n) /\ align_size(n) <= n + 1
  BY <1>1, <1>3, <1>4
<1>6. (align_size(n) + 6) % W = align_size(n) + 6
  <2>1. align_size(n) + 6 \in Nat /\ align_size(n) + 6 < W
    BY <1>1, <1>5
  <2> QED BY <1>1, <2>1, Below
<1> QED BY <1>1, <1>5, <1>6 DEF TotalSize, BLOCK_OVERHEAD

(* The invariant in terms of list positions. *)
LEMMA Unfolded ==
  ASSUME IInv
  PROVE  /\ W \in Nat
         /\ mem_pool.start \in Nat /\ mem_pool.size \in Nat
         /\ mem_pool.start + mem_pool.size <= W
         /\ free_list \in Seq(Block) /\ Len(free_list) \in Nat
         /\ \A i \in 1..Len(free_list) :
              /\ free_list[i] \in Block /\ free_list[i] \in FreeBlocks
              /\ free_list[i].addr \in Nat /\ free_list[i].size \in Nat
              /\ free_list[i].size >= 6 /\ InsidePool(free_list[i])
         /\ \A h \in held :
              /\ h.addr \in Nat /\ h.addr >= 1 /\ h.size \in Nat /\ h.want \in Requests
              /\ h.size \in Size
              /\ h.want + 6 <= h.size /\ InsidePool(h)
         /\ \A i \in 1..Len(free_list), h \in held :
              Apart(free_list[i], h) /\ Apart(h, free_list[i])
<1>1. W \in Nat /\ BLOCK_OVERHEAD = 6
  BY WidthAssumption DEF BLOCK_OVERHEAD
<1>2. /\ mem_pool.start \in Nat /\ mem_pool.size \in Nat
      /\ mem_pool.start + mem_pool.size <= W
  BY <1>1, PoolAssumption DEF IInv, MmTypeOK, NoPool
<1>3. free_list \in Seq(Block) /\ Len(free_list) \in Nat
  BY DEF IInv, MmTypeOK
<1>4. ASSUME NEW i \in 1..Len(free_list)
      PROVE  /\ free_list[i] \in Block /\ free_list[i] \in FreeBlocks
             /\ free_list[i].addr \in Nat /\ free_list[i].size \in Nat
             /\ free_list[i].size >= 6 /\ InsidePool(free_list[i])
  <2>1. free_list[i] \in Block /\ free_list[i] \in FreeBlocks
    BY <1>3, ElementOfSeq DEF FreeBlocks
  <2>2. /\ free_list[i].addr \in Nat /\ free_list[i].size \in Nat
        /\ free_list[i].size >= 6
    BY <1>1, <2>1 DEF Block, Address, Size
  <2>3. InsidePool(free_list[i])
    BY <2>1 DEF IInv, NoOverlap
  <2> QED BY <2>1, <2>2, <2>3
<1>5. ASSUME NEW h \in held
      PROVE  /\ h.addr \in Nat /\ h.addr >= 1 /\ h.size \in Nat /\ h.want \in Requests
             /\ h.size \in Size
             /\ h.want + 6 <= h.size /\ InsidePool(h)
  <2>1. h \in [addr : Address, size : Size, want : Requests]
    BY DEF IInv, MmTypeOK
  <2>2. /\ h.addr \in Nat /\ h.addr >= 1 /\ h.size \in Nat /\ h.want \in Requests
        /\ h.size \in Size
    BY <1>1, <2>1 DEF Address, Size
  <2>3. h.want + 6 <= h.size /\ InsidePool(h)
    BY <1>1 DEF IInv, NoOverlap
  <2> QED BY <2>2, <2>3
<1>6. ASSUME NEW i \in 1..Len(free_list), NEW h \in held
      PROVE  Apart(free_list[i], h) /\ Apart(h, free_list[i])
  BY <1>4, ApartSymmetric DEF IInv, NoOverlap
<1> QED BY <1>1, <1>2, <1>3, <1>4, <1>5, <1>6

LEMMA InitIInv == MmInit => IInv
<1> SUFFICES ASSUME MmInit PROVE IInv
  OBVIOUS
<1>1. /\ mem_pool = NoPool /\ free_list = << >> /\ held = {} /\ Len(free_list) = 0
  BY DEF MmInit
<1>2. FreeBlocks = {}
  BY <1>1 DEF FreeBlocks
<1>3. MmTypeOK
  BY <1>1 DEF MmTypeOK
<1>4. NoOverlap
  BY <1>1, <1>2 DEF NoOverlap
<1>5. NoLeak
  <2>1. mem_pool.start..(mem_pool.start + mem_pool.size - 1) = {}
    BY <1>1 DEF NoPool
  <2> QED BY <2>1 DEF NoLeak
<1> QED BY <1>3, <1>4, <1>5 DEF IInv

LEMMA NoneHeldAtFirst ==
  ASSUME IInv, mem_pool = NoPool
  PROVE  held = {}
<1>1. ASSUME NEW h \in held PROVE FALSE
  <2>1. h.addr + h.size <= 0 /\ h.addr \in Nat /\ h.addr >= 1 /\ h.size \in Nat
    BY Unfolded DEF InsidePool, NoPool
  <2> QED BY <2>1
<1> QED BY <1>1

LEMMA MmInitKeepsIInv ==
  ASSUME IInv, NEW p \in Pools, mm_init(p)
  PROVE  IInv'
<1> DEFINE b == [addr |-> p.start, size |-> p.size]
<1>1. /\ mem_pool = NoPool /\ mem_pool' = p /\ free_list' = <<b>> /\ held' = held
      /\ p.start # 0 /\ p.size >= 6
  BY DEF mm_init, BLOCK_OVERHEAD
<1>2. /\ p.start \in Nat /\ p.size \in Nat /\ p.start + p.size <= W /\ W \in Nat
      /\ p.start <= W - 1 /\ p.size <= W - 1
  BY PoolAssumption, WidthAssumption
<1>3. held = {}
  BY <1>1, NoneHeldAtFirst
<1>4. /\ b \in Block /\ b.addr = p.start /\ b.size = p.size
  BY <1>1, <1>2 DEF Block, Address, Size, BLOCK_OVERHEAD
<1> HIDE DEF b
<1>5. Len(free_list') = 1 /\ free_list'[1] = b /\ FreeBlocks' = {b}
  BY <1>1 DEF FreeBlocks
<1>6. MmTypeOK'
  <2>1. free_list' \in Seq(Block)
    BY <1>1, <1>4
  <2> QED BY <1>1, <1>3, <2>1 DEF MmTypeOK
<1>7. NoOverlap'
  BY <1>1, <1>2, <1>3, <1>4, <1>5 DEF NoOverlap, InsidePool
<1>8. NoLeak'
  <2>1. ASSUME NEW x \in p.start..(p.start + p.size - 1)
        PROVE  x \in b.addr..(b.addr + b.size - 1)
    BY <1>4, <2>1
  <2> QED BY <1>1, <1>5, <2>1 DEF NoLeak
<1> QED BY <1>6, <1>7, <1>8 DEF IInv

(* The arithmetic of cutting t bytes off a block at addr of size bytes. *)
LEMMA CutInTwo ==
  ASSUME NEW addr \in Nat, NEW size \in Nat, NEW t \in Nat,
         NEW start \in Nat, NEW end \in Nat, W \in Nat, end <= W,
         addr >= 1, size <= W - 1, start <= addr, addr + size <= end,
         t >= 6, size - t >= 6
  PROVE  /\ addr + t \in Nat /\ size - t \in Nat
         /\ addr \in 1..(W - 1) /\ addr + t \in 1..(W - 1)
         /\ t \in 6..(W - 1) /\ size - t \in 6..(W - 1)
         /\ addr <= addr + t /\ (addr + t) + (size - t) <= addr + size
         /\ addr + t <= addr + size
         /\ start <= addr + t /\ (addr + t) + (size - t) <= end /\ addr + t <= end
         /\ \A x \in addr..(addr + size - 1) :
              x \in addr..(addr + t - 1) \/ x \in (addr + t)..((addr + t) + (size - t) - 1)
  OBVIOUS

LEMMA SplitKeepsIInv ==
  ASSUME IInv, NEW n \in Requests, NEW i \in 1..Len(free_list),
         FirstFit(i, TotalSize(n)), Split(i, TotalSize(n), n), mem_pool' = mem_pool
  PROVE  IInv'
<1> DEFINE b == free_list[i]
           t == TotalSize(n)
           rest == [addr |-> b.addr + t, size |-> b.size - t]
           h == [addr |-> b.addr, size |-> t, want |-> n]
<1>1. /\ n \in Nat /\ n > 0 /\ t \in Nat /\ n + 6 <= t /\ t < W
  BY TotalSizeFits DEF BLOCK_OVERHEAD
<1>2. /\ b.size - t >= 6
      /\ free_list' = [free_list EXCEPT ![i] = rest]
      /\ held' = held \cup {h}
  BY DEF Split, BLOCK_OVERHEAD
<1>3. /\ W \in Nat /\ mem_pool.start \in Nat /\ mem_pool.size \in Nat
      /\ mem_pool.start + mem_pool.size <= W
      /\ b \in Block /\ b.addr \in Nat /\ b.size \in Nat /\ b.addr >= 1
      /\ mem_pool.start <= b.addr
      /\ b.addr + b.size <= mem_pool.start + mem_pool.size
      /\ b.addr <= W - 1 /\ b.size <= W - 1
  BY Unfolded DEF InsidePool, Block, Address, Size
<1> HIDE DEF b, t
<1>cut. /\ b.addr + t \in Nat /\ b.size - t \in Nat
      /\ b.addr \in 1..(W - 1) /\ b.addr + t \in 1..(W - 1)
      /\ t \in 6..(W - 1) /\ b.size - t \in 6..(W - 1)
      /\ b.addr <= b.addr + t /\ (b.addr + t) + (b.size - t) <= b.addr + b.size
      /\ b.addr + t <= b.addr + b.size
      /\ mem_pool.start <= b.addr + t
      /\ (b.addr + t) + (b.size - t) <= mem_pool.start + mem_pool.size
      /\ b.addr + t <= mem_pool.start + mem_pool.size
      /\ \A x \in b.addr..(b.addr + b.size - 1) :
            \/ x \in b.addr..(b.addr + t - 1)
            \/ x \in (b.addr + t)..((b.addr + t) + (b.size - t) - 1)
  <2> DEFINE start == mem_pool.start
             end == mem_pool.start + mem_pool.size
             addr == b.addr
             size == b.size
  <2>1. /\ addr \in Nat /\ size \in Nat /\ t \in Nat /\ start \in Nat /\ end \in Nat
        /\ W \in Nat /\ end <= W /\ addr >= 1 /\ size <= W - 1
        /\ start <= addr /\ addr + size <= end /\ t >= 6 /\ size - t >= 6
    <3>1. t \in Nat /\ t >= 6
      BY <1>1
    <3>2. size - t >= 6
      BY <1>2
    <3>3. /\ addr \in Nat /\ size \in Nat /\ start \in Nat /\ end \in Nat
          /\ W \in Nat /\ end <= W /\ addr >= 1 /\ size <= W - 1
          /\ start <= addr /\ addr + size <= end
      BY <1>3
    <3> QED BY <3>1, <3>2, <3>3
  <2>2. /\ start = mem_pool.start /\ end = mem_pool.start + mem_pool.size
        /\ addr = b.addr /\ size = b.size
    OBVIOUS
  <2> HIDE DEF start, end, addr, size
  <2>3. /\ addr + t \in Nat /\ size - t \in Nat
        /\ addr \in 1..(W - 1) /\ addr + t \in 1..(W - 1)
        /\ t \in 6..(W - 1) /\ size - t \in 6..(W - 1)
        /\ addr <= addr + t /\ (addr + t) + (size - t) <= addr + size
        /\ addr + t <= addr + size
        /\ start <= addr + t /\ (addr + t) + (size - t) <= end /\ addr + t <= end
        /\ \A x \in addr..(addr + size - 1) :
             x \in addr..(addr + t - 1) \/ x \in (addr + t)..((addr + t) + (size - t) - 1)
    BY <2>1, CutInTwo
  <2> QED BY <2>2, <2>3, Zenon
<1>4. /\ rest \in Block /\ rest.addr = b.addr + t /\ rest.size = b.size - t
      /\ rest.addr \in Nat /\ rest.size \in Nat
      /\ h.addr = b.addr /\ h.size = t /\ h.want = n
      /\ h \in [addr : Address, size : Size, want : Requests]
  <2>1. /\ rest.addr = b.addr + t /\ rest.size = b.size - t
        /\ h.addr = b.addr /\ h.size = t /\ h.want = n
    OBVIOUS
  <2> QED BY <1>cut, <2>1 DEF Block, Address, Size, BLOCK_OVERHEAD
<1> HIDE DEF rest, h
<1>5. /\ free_list' \in Seq(Block) /\ Len(free_list') = Len(free_list)
      /\ Len(free_list) \in Nat
      /\ \A j \in 1..Len(free_list) : j # i => free_list'[j] = free_list[j]
      /\ free_list'[i] = rest
  <2>1. free_list \in Seq(Block)
    BY Unfolded
  <2>2. /\ free_list' \in Seq(Block) /\ Len(free_list') = Len(free_list)
        /\ \A j \in 1..Len(free_list) : free_list'[j] = IF j = i THEN rest ELSE free_list[j]
    BY <1>2, <1>4, <2>1, ExceptSeq
  <2> QED BY <2>1, <2>2
<1>6. MmTypeOK'
  BY <1>2, <1>4, <1>5 DEF IInv, MmTypeOK
<1>7. /\ \A j \in 1..Len(free_list) : j # i =>
            /\ Apart(rest, free_list[j]) /\ Apart(free_list[j], rest)
            /\ Apart(h, free_list[j]) /\ Apart(free_list[j], h)
      /\ \A g \in held : /\ Apart(rest, g) /\ Apart(g, rest)
                         /\ Apart(h, g) /\ Apart(g, h)
  <2>1. /\ b.addr <= rest.addr /\ rest.addr + rest.size <= b.addr + b.size
        /\ b.addr <= h.addr /\ h.addr + h.size <= b.addr + b.size
        /\ h.addr \in Nat /\ h.size \in Nat
    <3>1. b.addr <= b.addr
      BY <1>3
    <3> QED BY <1>1, <1>3, <1>cut, <1>4, <3>1
  <2>2. ASSUME NEW j \in 1..Len(free_list), j # i
        PROVE  /\ Apart(rest, free_list[j]) /\ Apart(free_list[j], rest)
               /\ Apart(h, free_list[j]) /\ Apart(free_list[j], h)
    <3>1. /\ Apart(b, free_list[j])
          /\ free_list[j].addr \in Nat /\ free_list[j].size \in Nat
      BY <2>2, Unfolded DEF IInv, NoOverlap, b
    <3>2. Apart(rest, free_list[j]) /\ Apart(free_list[j], rest)
      BY <1>3, <1>4, <2>1, <3>1, PartApart
    <3>3. Apart(h, free_list[j]) /\ Apart(free_list[j], h)
      BY <1>3, <2>1, <3>1, PartApart
    <3> QED BY <3>2, <3>3
  <2>3. ASSUME NEW g \in held
        PROVE  /\ Apart(rest, g) /\ Apart(g, rest)
               /\ Apart(h, g) /\ Apart(g, h)
    <3>1. Apart(b, g) /\ g.addr \in Nat /\ g.size \in Nat
      BY <2>3, Unfolded DEF b
    <3>2. Apart(rest, g) /\ Apart(g, rest)
      BY <1>3, <1>4, <2>1, <3>1, PartApart
    <3>3. Apart(h, g) /\ Apart(g, h)
      BY <1>3, <2>1, <3>1, PartApart
    <3> QED BY <3>2, <3>3
  <2> QED BY <2>2, <2>3
<1>8. Apart(rest, h)
  BY <1>3, <1>4 DEF Apart
<1>9. \A x \in FreeBlocks' : x = rest \/ \E j \in 1..Len(free_list) : j # i /\ x = free_list[j]
  BY <1>5 DEF FreeBlocks
<1>10. NoOverlap'
  <2>1. \A x \in FreeBlocks' \cup held' : InsidePool(x)'
    <3>1. InsidePool(rest) /\ InsidePool(h)
      BY <1>3, <1>cut, <1>4 DEF InsidePool
    <3>2. \A j \in 1..Len(free_list) : InsidePool(free_list[j])
      BY Unfolded
    <3>3. \A g \in held : InsidePool(g)
      BY Unfolded
    <3>4. \A x \in FreeBlocks' \cup held' : InsidePool(x)
      BY <1>2, <1>9, <3>1, <3>2, <3>3
    <3> QED BY <3>4 DEF InsidePool
  <2>2. \A g \in held' : g.want + BLOCK_OVERHEAD <= g.size
    BY <1>1, <1>2, <1>4 DEF IInv, NoOverlap, BLOCK_OVERHEAD
  <2>3. \A j, k \in 1..Len(free_list') : j # k => Apart(free_list'[j], free_list'[k])
    BY <1>5, <1>7 DEF IInv, NoOverlap
  <2>4. \A a, g \in held' : a # g => Apart(a, g)
    BY <1>2, <1>7 DEF IInv, NoOverlap
  <2>5. \A x \in FreeBlocks', g \in held' : Apart(x, g)
    BY <1>2, <1>7, <1>8, <1>9, Unfolded
  <2> QED BY <2>1, <2>2, <2>3, <2>4, <2>5 DEF NoOverlap, Apart
<1>11. NoLeak'
  <2> SUFFICES ASSUME mem_pool.start + mem_pool.size < W,
                      NEW x \in mem_pool.start..(mem_pool.start + mem_pool.size - 1)
               PROVE  \E c \in FreeBlocks' \cup held' : x \in c.addr..(c.addr + c.size - 1)
    BY DEF NoLeak
  <2>1. PICK c \in FreeBlocks \cup held : x \in c.addr..(c.addr + c.size - 1)
    BY DEF IInv, NoLeak
  <2>2. CASE c \in held
    BY <1>2, <2>1, <2>2
  <2>3. CASE c \in FreeBlocks
    <3>1. PICK j \in 1..Len(free_list) : c = free_list[j]
      BY <2>3 DEF FreeBlocks
    <3>2. CASE j # i
      BY <1>5, <2>1, <3>1, <3>2 DEF FreeBlocks
    <3>3. CASE j = i
      <4>1. x \in b.addr..(b.addr + b.size - 1)
        BY <2>1, <3>1, <3>3 DEF b
      <4>2. x \in h.addr..(h.addr + h.size - 1) \/ x \in rest.addr..(rest.addr + rest.size - 1)
        <5>1. \/ x \in b.addr..(b.addr + t - 1)
              \/ x \in (b.addr + t)..((b.addr + t) + (b.size - t) - 1)
          BY <1>cut, <4>1
        <5> QED BY <1>4, <5>1
      <4>3. rest \in FreeBlocks' /\ h \in held'
        BY <1>2, <1>5 DEF FreeBlocks
      <4> QED BY <4>2, <4>3
    <3> QED BY <3>2, <3>3
  <2> QED BY <2>1, <2>2, <2>3
<1> QED BY <1>6, <1>10, <1>11 DEF IInv

(* What is left of a sequence without its i-th element. *)
LEMMA WithoutProperties ==
  ASSUME NEW S, NEW s \in Seq(S), NEW i \in 1..Len(s)
  PROVE  /\ Without(s, i) \in Seq(S)
         /\ Len(Without(s, i)) = Len(s) - 1
         /\ \A j \in 1..(Len(s) - 1) : j < i => Without(s, i)[j] = s[j]
         /\ \A j \in 1..(Len(s) - 1) : j >= i => Without(s, i)[j] = s[j + 1]
<1> DEFINE n     == Len(s)
           front == SubSeq(s, 1, i - 1)
           back  == SubSeq(s, i + 1, n)
<1>1. n \in Nat /\ i \in Nat /\ 1 <= i /\ i <= n
  BY LenProperties
<1>2. \A j \in 1..n : s[j] \in S
  BY ElementOfSeq
<1>3. /\ front \in Seq(S) /\ Len(front) = i - 1
      /\ \A j \in 1..(i - 1) : front[j] = s[j]
  <2> DEFINE m == i - 1
  <2>1. m \in Int /\ m >= 0 /\ m <= n /\ 1 \in Int
    BY <1>1
  <2>2. \A j \in 1..m : s[j] \in S
    BY <1>1, <1>2, <2>1
  <2> HIDE DEF m
  <2>3. /\ SubSeq(s, 1, m) \in Seq(S)
        /\ Len(SubSeq(s, 1, m)) = IF 1 <= m THEN m - 1 + 1 ELSE 0
        /\ \A j \in 1..(m - 1 + 1) : SubSeq(s, 1, m)[j] = s[1 + j - 1]
    BY <2>1, <2>2, SubSeqProperties
  <2>4. Len(SubSeq(s, 1, m)) = m
    BY <2>1, <2>3
  <2>5. \A j \in 1..m : j \in 1..(m - 1 + 1) /\ 1 + j - 1 = j
    BY <2>1
  <2> QED BY <2>3, <2>4, <2>5 DEF m
<1>4. /\ back \in Seq(S) /\ Len(back) = n - i
      /\ \A j \in 1..(n - i) : back[j] = s[i + j]
  <2> DEFINE m == i + 1
  <2>1. m \in Int /\ n \in Int /\ m >= 2 /\ m <= n + 1 /\ n - m + 1 = n - i
    BY <1>1
  <2>2. \A j \in m..n : s[j] \in S
    BY <1>1, <1>2, <2>1
  <2>3. \A j \in 1..(n - i) : m + j - 1 = i + j
    BY <1>1
  <2> HIDE DEF m, n
  <2>4. /\ SubSeq(s, m, n) \in Seq(S)
        /\ Len(SubSeq(s, m, n)) = IF m <= n THEN n - m + 1 ELSE 0
        /\ \A j \in 1..(n - m + 1) : SubSeq(s, m, n)[j] = s[m + j - 1]
    BY <2>1, <2>2, SubSeqProperties
  <2>5. Len(SubSeq(s, m, n)) = n - i
    BY <2>1, <2>4
  <2> QED BY <2>1, <2>3, <2>4, <2>5 DEF m, n
<1> HIDE DEF front, back, n
<1>5. /\ front \o back \in Seq(S)
      /\ Len(front \o back) = n - 1
      /\ \A j \in 1..(n - 1) : (front \o back)[j] =
           IF j <= i - 1 THEN front[j] ELSE back[j - (i - 1)]
  <2>1. (i - 1) + (n - i) = n - 1
    BY <1>1
  <2>2. /\ front \o back \in Seq(S)
        /\ Len(front \o back) = Len(front) + Len(back)
        /\ \A j \in 1..(Len(front) + Len(back)) : (front \o back)[j] =
             IF j <= Len(front) THEN front[j] ELSE back[j - Len(front)]
    <3>1. front \in Seq(S) /\ back \in Seq(S)
      BY <1>3, <1>4
    <3> QED BY <3>1, ConcatProperties
  <2>3. Len(front) = i - 1 /\ Len(front) + Len(back) = n - 1
    BY <1>3, <1>4, <2>1
  <2> QED BY <2>2, <2>3
<1>6. \A j \in 1..(n - 1) : j < i => (front \o back)[j] = s[j]
  BY <1>1, <1>3, <1>5
<1>7. \A j \in 1..(n - 1) : j >= i => (front \o back)[j] = s[j + 1]
  <2> SUFFICES ASSUME NEW j \in 1..(n - 1), j >= i
               PROVE  (front \o back)[j] = s[j + 1]
    OBVIOUS
  <2>1. /\ j - (i - 1) \in 1..(n - i) /\ i + (j - (i - 1)) = j + 1
        /\ ~(j <= i - 1)
    BY <1>1
  <2> QED BY <1>4, <1>5, <2>1
<1> QED BY <1>5, <1>6, <1>7 DEF Without, front, back, n

LEMMA TakeWholeKeepsIInv ==
  ASSUME IInv, NEW n \in Requests, NEW i \in 1..Len(free_list),
         FirstFit(i, TotalSize(n)), TakeWhole(i, TotalSize(n), n), mem_pool' = mem_pool
  PROVE  IInv'
<1> DEFINE b == free_list[i]
           h == [addr |-> b.addr, size |-> b.size, want |-> n]
           from(j) == IF j < i THEN j ELSE j + 1
<1>1. /\ free_list' = Without(free_list, i) /\ held' = held \cup {h}
  BY DEF TakeWhole
<1>2. /\ b \in Block /\ b.addr \in Nat /\ b.size \in Nat
      /\ InsidePool(b) /\ b \in FreeBlocks
  BY Unfolded
<1>3. n \in Nat /\ n + 6 <= b.size
  BY <1>2, TotalSizeFits DEF FirstFit, BLOCK_OVERHEAD
<1> HIDE DEF b
<1>4. /\ h.addr = b.addr /\ h.size = b.size /\ h.want = n
      /\ h \in [addr : Address, size : Size, want : Requests]
  BY <1>2 DEF Block
<1> HIDE DEF h
<1>5. /\ free_list' \in Seq(Block) /\ Len(free_list') = Len(free_list) - 1
      /\ Len(free_list) \in Nat /\ i \in Nat /\ i >= 1 /\ i <= Len(free_list)
      /\ \A j \in 1..Len(free_list') : free_list'[j] = free_list[from(j)]
  <2>1. free_list \in Seq(Block) /\ Len(free_list) \in Nat
    BY Unfolded
  <2>2. i \in Nat /\ i >= 1 /\ i <= Len(free_list)
    BY <2>1
  <2>3. /\ free_list' \in Seq(Block) /\ Len(free_list') = Len(free_list) - 1
        /\ \A j \in 1..(Len(free_list) - 1) : j < i => free_list'[j] = free_list[j]
        /\ \A j \in 1..(Len(free_list) - 1) : j >= i => free_list'[j] = free_list[j + 1]
    BY <1>1, <2>1, WithoutProperties
  <2>4. ASSUME NEW j \in 1..Len(free_list')
        PROVE  free_list'[j] = free_list[from(j)]
    <3>1. j \in 1..(Len(free_list) - 1) /\ j \in Nat /\ (j < i \/ j >= i)
      BY <2>1, <2>2, <2>3
    <3>2. CASE j < i
      BY <2>3, <3>1, <3>2
    <3>3. CASE j >= i
      <4>1. from(j) = j + 1
        BY <2>2, <3>1, <3>3
      <4> QED BY <2>3, <3>1, <3>3, <4>1
    <3> QED BY <3>1, <3>2, <3>3
  <2> QED BY <2>1, <2>2, <2>3, <2>4
<1>6. /\ \A j \in 1..Len(free_list') : from(j) \in 1..Len(free_list) /\ from(j) # i
      /\ \A j, k \in 1..Len(free_list') : j # k => from(j) # from(k)
      /\ \A j \in 1..Len(free_list) : j # i =>
           \E k \in 1..Len(free_list') : from(k) = j
  <2>1. \A j \in 1..Len(free_list') : from(j) \in 1..Len(free_list) /\ from(j) # i
    BY <1>5
  <2>2. \A j, k \in 1..Len(free_list') : j # k => from(j) # from(k)
    BY <1>5
  <2>3. ASSUME NEW j \in 1..Len(free_list), j # i
        PROVE  \E k \in 1..Len(free_list') : from(k) = j
    <3>1. CASE j < i
      <4>1. j \in 1..Len(free_list') /\ from(j) = j
        BY <1>5, <3>1
      <4> QED BY <4>1
    <3>2. CASE j > i
      <4>1. (j - 1) \in 1..Len(free_list') /\ from(j - 1) = j
        BY <1>5, <3>2
      <4> QED BY <4>1
    <3> QED BY <1>5, <2>3, <3>1, <3>2
  <2> QED BY <2>1, <2>2, <2>3
<1> HIDE DEF from
<1>7. MmTypeOK'
  BY <1>1, <1>4, <1>5 DEF IInv, MmTypeOK
<1>8. /\ \A j \in 1..Len(free_list') : Apart(free_list'[j], h) /\ Apart(h, free_list'[j])
      /\ \A g \in held : Apart(h, g) /\ Apart(g, h)
  <2>1. ASSUME NEW j \in 1..Len(free_list')
        PROVE  Apart(free_list'[j], h) /\ Apart(h, free_list'[j])
    <3>1. Apart(free_list'[j], b) /\ Apart(b, free_list'[j])
      BY <1>5, <1>6 DEF IInv, NoOverlap, b
    <3> QED BY <1>4, <3>1 DEF Apart
  <2>2. ASSUME NEW g \in held
        PROVE  Apart(h, g) /\ Apart(g, h)
    <3>1. Apart(b, g) /\ Apart(g, b)
      BY <2>2, Unfolded DEF b
    <3> QED BY <1>4, <3>1 DEF Apart
  <2> QED BY <2>1, <2>2
<1>9. \A x \in FreeBlocks' :
        \E j \in 1..Len(free_list') :
          /\ x = free_list'[j] /\ x = free_list[from(j)]
          /\ from(j) \in 1..Len(free_list)
  BY <1>5, <1>6 DEF FreeBlocks
<1>10. NoOverlap'
  <2>1. \A x \in FreeBlocks' \cup held' : InsidePool(x)'
    <3>1. InsidePool(h)
      BY <1>2, <1>4 DEF InsidePool
    <3>2. \A x \in FreeBlocks' \cup held' : InsidePool(x)
      BY <1>1, <1>9, <3>1, Unfolded
    <3> QED BY <3>2 DEF InsidePool
  <2>2. \A g \in held' : g.want + BLOCK_OVERHEAD <= g.size
    BY <1>1, <1>3, <1>4 DEF IInv, NoOverlap, BLOCK_OVERHEAD
  <2>3. \A j, k \in 1..Len(free_list') : j # k => Apart(free_list'[j], free_list'[k])
    BY <1>5, <1>6 DEF IInv, NoOverlap
  <2>4. \A a, g \in held' : a # g => Apart(a, g)
    BY <1>1, <1>8 DEF IInv, NoOverlap
  <2>5. \A x \in FreeBlocks', g \in held' : Apart(x, g)
    BY <1>1, <1>8, <1>9, Unfolded
  <2> QED BY <2>1, <2>2, <2>3, <2>4, <2>5 DEF NoOverlap, Apart
<1>11. NoLeak'
  <2> SUFFICES ASSUME mem_pool.start + mem_pool.size < W,
                      NEW x \in mem_pool.start..(mem_pool.start + mem_pool.size - 1)
               PROVE  \E c \in FreeBlocks' \cup held' : x \in c.addr..(c.addr + c.size - 1)
    BY DEF NoLeak
  <2>1. PICK c \in FreeBlocks \cup held : x \in c.addr..(c.addr + c.size - 1)
    BY DEF IInv, NoLeak
  <2>2. CASE c \in held
    BY <1>1, <2>1, <2>2
  <2>3. CASE c \in FreeBlocks
    <3>1. PICK j \in 1..Len(free_list) : c = free_list[j]
      BY <2>3 DEF FreeBlocks
    <3>2. CASE j # i
      <4>1. PICK k \in 1..Len(free_list') : from(k) = j
        BY <1>6, <3>2
      <4>2. c \in FreeBlocks'
        BY <1>5, <3>1, <4>1 DEF FreeBlocks
      <4> QED BY <2>1, <4>2
    <3>3. CASE j = i
      <4>1. x \in h.addr..(h.addr + h.size - 1)
        BY <1>4, <2>1, <3>1, <3>3 DEF b
      <4> QED BY <1>1, <4>1
    <3> QED BY <3>2, <3>3
  <2> QED BY <2>1, <2>2, <2>3
<1> QED BY <1>7, <1>10, <1>11 DEF IInv

LEMMA MmAllocKeepsIInv ==
  ASSUME IInv, NEW n \in Requests, mm_alloc(n)
  PROVE  IInv'
<1>1. mem_pool' = mem_pool
  BY DEF mm_alloc
<1>2. PICK i \in 1..Len(free_list) :
        /\ FirstFit(i, TotalSize(n))
        /\ Split(i, TotalSize(n), n) \/ TakeWhole(i, TotalSize(n), n)
  BY DEF mm_alloc
<1>3. CASE Split(i, TotalSize(n), n)
  BY <1>1, <1>2, <1>3, SplitKeepsIInv
<1>4. CASE TakeWhole(i, TotalSize(n), n)
  BY <1>1, <1>2, <1>4, TakeWholeKeepsIInv
<1> QED BY <1>2, <1>3, <1>4

(* A block that mm_free ignores lies in a pool that ends where the segment  *)
(* ends: NoLeak promises nothing of it.                                     *)
LEMMA IgnoredAtTheEnd ==
  ASSUME IInv, NEW b \in held, ~InPool(Pointer(b))
  PROVE  ~(mem_pool.start + mem_pool.size < W)
<1> SUFFICES ASSUME mem_pool.start + mem_pool.size < W
             PROVE  FALSE
  OBVIOUS
<1> DEFINE start == mem_pool.start
           end   == mem_pool.start + mem_pool.size
           addr  == b.addr
           size  == b.size
<1>1. /\ W \in Nat /\ start \in Nat /\ end \in Nat /\ addr \in Nat /\ size \in Nat
      /\ start <= addr /\ addr + size <= end /\ addr >= 1
      /\ b.want \in Nat /\ b.want > 0 /\ b.want + 6 <= size
  BY Unfolded, RequestAssumption DEF InsidePool
<1>2. mem_pool_end_addr = end
  BY <1>1, Below DEF mem_pool_end_addr
<1>3. Pointer(b) = addr + 6
  BY DEF Pointer, BLOCK_OVERHEAD
<1>4. ~(addr + 6 # 0 /\ start <= addr + 6 /\ addr + 6 < end)
  BY <1>2, <1>3 DEF InPool
<1> HIDE DEF start, end, addr, size
<1> QED BY <1>1, <1>4

LEMMA MmFreeKeepsIInv ==
  ASSUME IInv, NEW b \in held, mm_free(b)
  PROVE  IInv'
<1> DEFINE f == [addr |-> b.addr, size |-> b.size]
<1>1. mem_pool' = mem_pool /\ held' = held \ {b}
  BY DEF mm_free
<1>2. /\ InPool(Pointer(b)) => free_list' = <<f>> \o free_list
      /\ ~InPool(Pointer(b)) => free_list' = free_list
  BY DEF mm_free
<1>3. /\ b.addr \in Nat /\ b.size \in Nat /\ InsidePool(b)
      /\ f \in Block /\ f.addr = b.addr /\ f.size = b.size
  <2>1. b \in [addr : Address, size : Size, want : Requests]
    BY DEF IInv, MmTypeOK
  <2>2. f \in Block
    BY <2>1 DEF Block
  <2> QED BY <2>2, Unfolded
<1> HIDE DEF f
<1>4. \A x \in held' : x \in held /\ x # b
  BY <1>1
<1>5. CASE ~InPool(Pointer(b))
  <2>1. free_list' = free_list
    BY <1>2, <1>5
  <2>2. MmTypeOK'
    BY <1>1, <2>1 DEF IInv, MmTypeOK
  <2>3. NoOverlap'
    BY <1>1, <1>4, <2>1 DEF IInv, NoOverlap, InsidePool, FreeBlocks, Apart
  <2>4. NoLeak'
    BY <1>1, <1>5, IgnoredAtTheEnd DEF NoLeak
  <2> QED BY <2>2, <2>3, <2>4 DEF IInv
<1>6. CASE InPool(Pointer(b))
  <2>1. free_list \in Seq(Block) /\ Len(free_list) \in Nat
    BY Unfolded
  <2>2. /\ free_list' \in Seq(Block) /\ Len(free_list') = Len(free_list) + 1
        /\ free_list'[1] = f
        /\ \A j \in 1..Len(free_list) : free_list'[j + 1] = free_list[j]
    <3>1. /\ <<f>> \in Seq(Block) /\ Len(<<f>>) = 1 /\ <<f>>[1] = f
      BY <1>3
    <3> DEFINE front == <<f>>
    <3>list. free_list' = front \o free_list
      BY <1>2, <1>6
    <3> HIDE DEF front
    <3>concat. /\ front \o free_list \in Seq(Block)
          /\ Len(front \o free_list) = Len(front) + Len(free_list)
          /\ \A j \in 1..(Len(front) + Len(free_list)) : (front \o free_list)[j] =
               IF j <= Len(front) THEN front[j] ELSE free_list[j - Len(front)]
      <4>1. front \in Seq(Block)
        BY <3>1 DEF front
      <4> QED BY <2>1, <4>1, ConcatProperties
    <3>2. /\ free_list' \in Seq(Block) /\ Len(free_list') = 1 + Len(free_list)
          /\ \A j \in 1..(1 + Len(free_list)) :
               free_list'[j] = IF j <= 1 THEN <<f>>[j] ELSE free_list[j - 1]
      <4>1. Len(front) = 1
        BY <3>1 DEF front
      <4> QED BY <3>list, <3>concat, <4>1 DEF front
    <3>3. free_list'[1] = f
      BY <2>1, <3>1, <3>2
    <3>4. ASSUME NEW j \in 1..Len(free_list)
          PROVE  free_list'[j + 1] = free_list[j]
      <4>1. j + 1 \in 1..(1 + Len(free_list)) /\ ~(j + 1 <= 1) /\ (j + 1) - 1 = j
        BY <2>1
      <4> QED BY <3>2, <4>1
    <3> QED BY <2>1, <3>2, <3>3, <3>4
  <2>3. \A j \in 1..Len(free_list') :
          \/ j = 1
          \/ j - 1 \in 1..Len(free_list) /\ free_list'[j] = free_list[j - 1]
    <3> SUFFICES ASSUME NEW j \in 1..Len(free_list'), j # 1
                 PROVE  j - 1 \in 1..Len(free_list) /\ free_list'[j] = free_list[j - 1]
      OBVIOUS
    <3>1. j - 1 \in 1..Len(free_list) /\ (j - 1) + 1 = j
      BY <2>1, <2>2
    <3> QED BY <2>2, <3>1
  <2>4. FreeBlocks' = FreeBlocks \cup {f}
    <3>1. ASSUME NEW x \in FreeBlocks' PROVE x \in FreeBlocks \cup {f}
      BY <2>2, <2>3 DEF FreeBlocks
    <3>2. ASSUME NEW x \in FreeBlocks PROVE x \in FreeBlocks'
      <4>1. PICK j \in 1..Len(free_list) : x = free_list[j]
        BY DEF FreeBlocks
      <4>2. j + 1 \in 1..Len(free_list')
        BY <2>1, <2>2
      <4> QED BY <2>2, <4>1, <4>2 DEF FreeBlocks
    <3>3. f \in FreeBlocks'
      <4>1. 1 \in 1..Len(free_list')
        BY <2>1, <2>2
      <4> QED BY <2>2, <4>1 DEF FreeBlocks
    <3> QED BY <3>1, <3>2, <3>3
  <2>5. \A g \in held : g # b => Apart(f, g) /\ Apart(g, f)
    BY <1>3 DEF IInv, NoOverlap, Apart
  <2>6. \A j \in 1..Len(free_list) : Apart(free_list[j], f) /\ Apart(f, free_list[j])
    <3> SUFFICES ASSUME NEW j \in 1..Len(free_list)
                 PROVE  Apart(free_list[j], f) /\ Apart(f, free_list[j])
      OBVIOUS
    <3>1. Apart(free_list[j], b) /\ Apart(b, free_list[j])
      BY Unfolded
    <3> QED BY <1>3, <3>1 DEF Apart
  <2>7. MmTypeOK'
    BY <1>1, <2>2 DEF IInv, MmTypeOK
  <2>8. NoOverlap'
    <3>1. \A x \in FreeBlocks' \cup held' : InsidePool(x)'
      <4>1. InsidePool(f)
        BY <1>3 DEF InsidePool
      <4>2. \A x \in FreeBlocks' \cup held' : InsidePool(x)
        BY <1>4, <2>4, <4>1 DEF IInv, NoOverlap
      <4> QED BY <1>1, <4>2 DEF InsidePool
    <3>2. \A g \in held' : g.want + BLOCK_OVERHEAD <= g.size
      BY <1>4 DEF IInv, NoOverlap
    <3>3. ASSUME NEW j \in 1..Len(free_list'), NEW k \in 1..Len(free_list'), j # k
          PROVE  Apart(free_list'[j], free_list'[k])
      <4>1. CASE j = 1
        <5>1. k # 1
          BY <3>3, <4>1
        <5> QED BY <2>2, <2>3, <2>6, <4>1, <5>1
      <4>2. CASE j # 1 /\ k = 1
        BY <2>2, <2>3, <2>6, <4>2
      <4>3. CASE j # 1 /\ k # 1
        <5>1. j - 1 # k - 1
          BY <2>1, <2>2, <3>3
        <5> QED BY <2>3, <4>3, <5>1 DEF IInv, NoOverlap
      <4> QED BY <4>1, <4>2, <4>3
    <3>4. \A a, g \in held' : a # g => Apart(a, g)
      BY <1>4 DEF IInv, NoOverlap
    <3>5. \A x \in FreeBlocks', g \in held' : Apart(x, g)
      BY <1>4, <2>4, <2>5 DEF IInv, NoOverlap
    <3> QED BY <3>1, <3>2, <3>3, <3>4, <3>5 DEF NoOverlap, Apart
  <2>9. NoLeak'
    <3> SUFFICES ASSUME mem_pool.start + mem_pool.size < W,
                        NEW x \in mem_pool.start..(mem_pool.start + mem_pool.size - 1)
                 PROVE  \E c \in FreeBlocks' \cup held' : x \in c.addr..(c.addr + c.size - 1)
      BY <1>1 DEF NoLeak
    <3>1. PICK c \in FreeBlocks \cup held : x \in c.addr..(c.addr + c.size - 1)
      BY DEF IInv, NoLeak
    <3>2. CASE c = b
      <4>1. x \in f.addr..(f.addr + f.size - 1) /\ f \in FreeBlocks'
        BY <1>3, <2>4, <3>1, <3>2
      <4> QED BY <4>1
    <3>3. CASE c # b
      BY <1>1, <2>4, <3>1, <3>3
    <3> QED BY <3>2, <3>3
  <2> QED BY <2>7, <2>8, <2>9 DEF IInv
<1> QED BY <1>5, <1>6

LEMMA NextKeepsIInv == IInv /\ [MmNext]_mmVars => IInv'
<1> SUFFICES ASSUME IInv, [MmNext]_mmVars PROVE IInv'
  OBVIOUS
<1>1. CASE \E p \in Pools : mm_init(p)
  BY <1>1, MmInitKeepsIInv
<1>2. CASE \E n \in Requests : mm_alloc(n)
  BY <1>2, MmAllocKeepsIInv
<1>3. CASE \E b \in held : mm_free(b)
  BY <1>3, MmFreeKeepsIInv
<1>4. CASE UNCHANGED mmVars
  BY <1>4 DEF IInv, MmTypeOK, NoOverlap, NoLeak, FreeBlocks, InsidePool, Apart, mmVars
<1> QED BY <1>1, <1>2, <1>3, <1>4 DEF MmNext
-----------------------------------------------------------------------------
(* memory.c: blocks and allocations of any sizes, in a pool anywhere in the *)
(* segment, never overlap, have room for what was asked, and while the pool *)
(* ends below the end of the segment no byte of it is lost.                 *)
THEOREM MmSafe == MmSpec => [](MmTypeOK /\ NoOverlap /\ NoLeak)
<1>1. MmInit => IInv
  BY InitIInv
<1>2. IInv /\ [MmNext]_mmVars => IInv'
  BY NextKeepsIInv
<1>3. IInv => MmTypeOK /\ NoOverlap /\ NoLeak
  BY DEF IInv
<1> QED BY <1>1, <1>2, <1>3, PTL DEF MmSpec
-----------------------------------------------------------------------------
(* The refinement: the heap's view of the blocks held. *)
View(b) == [ptr |-> Pointer(b), len |-> b.want]

LEMMA InitRefines == MmInit => H!Init
<1> SUFFICES ASSUME MmInit PROVE H!Init
  OBVIOUS
<1>1. mem_pool.start..(mem_pool.start + mem_pool.size - 1) = {} /\ held = {}
  BY DEF MmInit, NoPool
<1> QED BY <1>1 DEF H!Init

(* A held block's bytes, after its header, lie in the block. *)
LEMMA ViewInside ==
  ASSUME IInv, NEW h \in held
  PROVE  /\ View(h).ptr \in Nat /\ View(h).len \in Nat /\ View(h).len > 0
         /\ h.addr <= View(h).ptr
         /\ View(h).ptr + View(h).len <= h.addr + h.size
         /\ View(h).ptr >= mem_pool.start
         /\ View(h).ptr + View(h).len <= mem_pool.start + mem_pool.size
         /\ View(h).len \in Requests
<1> DEFINE addr == h.addr
           size == h.size
           want == h.want
           start == mem_pool.start
           end   == mem_pool.start + mem_pool.size
<1>1. /\ addr \in Nat /\ size \in Nat /\ want \in Nat /\ want > 0 /\ want + 6 <= size
      /\ start \in Nat /\ end \in Nat /\ start <= addr /\ addr + size <= end
      /\ want \in Requests
  BY Unfolded, RequestAssumption DEF InsidePool
<1>2. View(h).ptr = addr + 6 /\ View(h).len = want
  BY DEF View, Pointer, BLOCK_OVERHEAD
<1> HIDE DEF addr, size, want, start, end
<1>3. /\ View(h).ptr \in Nat /\ View(h).len \in Nat /\ View(h).len > 0
      /\ addr <= View(h).ptr
      /\ View(h).ptr + View(h).len <= addr + size
      /\ View(h).ptr >= start
      /\ View(h).ptr + View(h).len <= end
      /\ View(h).len \in Requests
  BY <1>1, <1>2
<1> QED BY <1>3 DEF addr, size, start, end

LEMMA MmInitRefines ==
  ASSUME IInv, NEW p \in Pools, mm_init(p)
  PROVE  H!Manage
<1>1. mem_pool = NoPool /\ mem_pool' = p /\ held' = held
  BY DEF mm_init
<1>2. held = {}
  BY <1>1, NoneHeldAtFirst
<1>3. mem_pool.start..(mem_pool.start + mem_pool.size - 1) = {}
  BY <1>1 DEF NoPool
<1>4. (p.start..(p.start + p.size - 1)) \in SUBSET Nat
  BY PoolAssumption
<1> QED BY <1>1, <1>2, <1>3, <1>4 DEF H!Manage

(* What mm_alloc hands out is part of a free block. *)
LEMMA AllocatedFromFree ==
  ASSUME IInv, NEW n \in Requests, mm_alloc(n)
  PROVE  \E h \in held' : /\ held' = held \cup {h} /\ h.want = n
                          /\ \A g \in held : Apart(h, g)
<1>1. PICK i \in 1..Len(free_list) :
        /\ FirstFit(i, TotalSize(n))
        /\ Split(i, TotalSize(n), n) \/ TakeWhole(i, TotalSize(n), n)
  BY DEF mm_alloc
<1> DEFINE b == free_list[i]
           t == TotalSize(n)
<1>2. /\ b.addr \in Nat /\ b.size \in Nat /\ t \in Nat
      /\ \A g \in held : Apart(b, g) /\ g.addr \in Nat /\ g.size \in Nat
  BY Unfolded, TotalSizeFits
<1>3. CASE Split(i, t, n)
  <2> DEFINE h == [addr |-> b.addr, size |-> t, want |-> n]
  <2>1. held' = held \cup {h} /\ b.size - t >= 6
    BY <1>3 DEF Split, BLOCK_OVERHEAD
  <2>2. h.want = n /\ h.addr = b.addr /\ h.size = t
    OBVIOUS
  <2> HIDE DEF h, b, t
  <2>3. b.addr <= h.addr /\ h.addr + h.size <= b.addr + b.size
    BY <1>2, <2>1, <2>2
  <2>4. \A g \in held : Apart(h, g)
    BY <1>2, <2>2, <2>3, PartApart
  <2> QED BY <2>1, <2>2, <2>4
<1>4. CASE TakeWhole(i, t, n)
  <2> DEFINE h == [addr |-> b.addr, size |-> b.size, want |-> n]
  <2>1. held' = held \cup {h}
    BY <1>4 DEF TakeWhole
  <2>2. h.want = n /\ h.addr = b.addr /\ h.size = b.size
    OBVIOUS
  <2> HIDE DEF h, b
  <2>3. \A g \in held : Apart(h, g)
    BY <1>2, <2>2 DEF Apart
  <2> QED BY <2>1, <2>2, <2>3
<1> QED BY <1>1, <1>3, <1>4

LEMMA MmAllocRefines ==
  ASSUME IInv, NEW n \in Requests, mm_alloc(n)
  PROVE  \E l \in [ptr : mem_pool.start..(mem_pool.start + mem_pool.size - 1),
                   len : Requests] : H!Alloc(l)
<1>1. PICK h \in held' : /\ held' = held \cup {h} /\ h.want = n
                         /\ \A g \in held : Apart(h, g)
  BY AllocatedFromFree
<1>2. IInv' /\ mem_pool' = mem_pool
  BY MmAllocKeepsIInv DEF mm_alloc
<1> DEFINE l == View(h)
           start == mem_pool.start
           end == mem_pool.start + mem_pool.size
<1>3. /\ h.addr \in Nat /\ h.size \in Nat /\ l.ptr \in Nat /\ l.len \in Nat /\ l.len > 0
      /\ h.addr <= l.ptr /\ l.ptr + l.len <= h.addr + h.size
      /\ l.ptr >= start /\ l.ptr + l.len <= end
      /\ l.len \in Requests /\ start \in Nat /\ end \in Nat
  <2> DEFINE wanted == h.want
  <2>1. /\ h \in [addr : Address, size : Size, want : Requests]
        /\ wanted + 6 <= h.size /\ InsidePool(h)'
    BY <1>2 DEF IInv, MmTypeOK, NoOverlap, BLOCK_OVERHEAD
  <2>2. /\ h.addr \in Nat /\ h.size \in Nat /\ wanted \in Requests
        /\ wanted \in Nat /\ wanted > 0
        /\ start \in Nat /\ end \in Nat /\ start <= h.addr /\ h.addr + h.size <= end
    <3>1. h.addr \in Address /\ h.size \in Size /\ wanted \in Requests
      BY <2>1
    <3>2. h.addr \in Nat /\ h.size \in Nat
      BY <3>1, WidthAssumption DEF Address, Size, BLOCK_OVERHEAD
    <3>3. start \in Nat /\ end \in Nat
      BY Unfolded
    <3>4. start <= h.addr /\ h.addr + h.size <= end
      BY <1>2, <2>1 DEF InsidePool
    <3> QED BY <3>1, <3>2, <3>3, <3>4, RequestAssumption
  <2>3. l.ptr = h.addr + 6 /\ l.len = wanted
    BY DEF View, Pointer, BLOCK_OVERHEAD
  <2> HIDE DEF l, start, end, wanted
  <2> QED BY <2>1, <2>2, <2>3
<1>4. l = [ptr |-> l.ptr, len |-> l.len]
  BY DEF View
<1>5. l \in [ptr : start..(end - 1), len : Requests]
  <2> HIDE DEF l, start, end
  <2>1. l.ptr \in start..(end - 1)
    BY <1>3
  <2> QED BY <1>3, <1>4, <2>1
<1>6. H!Bytes(l) \subseteq start..(end - 1)
  <2> HIDE DEF l, start, end
  <2> QED BY <1>3 DEF H!Bytes
<1>range. start..(end - 1) = mem_pool.start..(mem_pool.start + mem_pool.size - 1)
  <2>1. mem_pool.size \in Nat /\ mem_pool.start \in Nat
    BY Unfolded
  <2>2. end - 1 = mem_pool.start + mem_pool.size - 1
    BY <2>1
  <2> QED BY <2>2
<1>7. ASSUME NEW g \in held
      PROVE  H!Bytes(l) \cap H!Bytes(View(g)) = {}
  <2> DEFINE m == View(g)
  <2>1. /\ m.ptr \in Nat /\ m.len \in Nat /\ g.addr \in Nat /\ g.size \in Nat
        /\ g.addr <= m.ptr /\ m.ptr + m.len <= g.addr + g.size
    BY ViewInside, Unfolded
  <2>2. h.addr + h.size <= g.addr \/ g.addr + g.size <= h.addr
    BY <1>1 DEF Apart
  <2> HIDE DEF m, l, start, end
  <2>3. l.ptr + l.len <= m.ptr \/ m.ptr + m.len <= l.ptr
    BY <1>3, <2>1, <2>2
  <2>4. H!Bytes(l) \cap H!Bytes(m) = {}
    BY <1>3, <2>1, <2>3 DEF H!Bytes
  <2> QED BY <2>4 DEF m
<1>8. H!Alloc(l)
  <2>1. {View(g) : g \in held'} = {View(g) : g \in held} \cup {l}
    BY <1>1
  <2>2. {[ptr |-> Pointer(b), len |-> b.want] : b \in held}' =
          {[ptr |-> Pointer(b), len |-> b.want] : b \in held} \cup {l}
    <3> HIDE DEF l
    <3> QED BY <2>1 DEF View, Pointer
  <2>3. \A other \in {[ptr |-> Pointer(b), len |-> b.want] : b \in held} :
          H!Bytes(l) \cap H!Bytes(other) = {}
    <3> HIDE DEF l
    <3> QED BY <1>7 DEF View
  <2>4. H!Bytes(l) \subseteq mem_pool.start..(mem_pool.start + mem_pool.size - 1)
    BY <1>6, <1>range, Zenon
  <2> HIDE DEF l
  <2> QED BY <1>2, <2>2, <2>3, <2>4 DEF H!Alloc
<1>9. l \in [ptr : mem_pool.start..(mem_pool.start + mem_pool.size - 1), len : Requests]
  BY <1>5, <1>range, Zenon
<1> HIDE DEF l
<1> QED BY <1>8, <1>9

LEMMA MmFreeRefines ==
  ASSUME IInv, NEW b \in held, mm_free(b)
  PROVE  H!Free(View(b))
<1>1. mem_pool' = mem_pool /\ held' = held \ {b}
  BY DEF mm_free
<1>2. ASSUME NEW g \in held, g # b
      PROVE  View(g) # View(b)
  <2>1. Apart(g, b)
    BY <1>2 DEF IInv, NoOverlap
  <2>2. /\ g.addr \in Nat /\ b.addr \in Nat /\ g.size \in Nat /\ b.size \in Nat
        /\ g.size > 0 /\ b.size > 0
    <3>1. \A h \in held : h.addr \in Nat /\ h.size \in Size
      BY Unfolded
    <3> QED BY <3>1, WidthAssumption DEF Size, BLOCK_OVERHEAD
  <2>3. g.addr # b.addr
    BY <2>1, <2>2 DEF Apart
  <2>4. View(g).ptr = g.addr + 6 /\ View(b).ptr = b.addr + 6
    BY DEF View, Pointer, BLOCK_OVERHEAD
  <2> QED BY <2>2, <2>3, <2>4
<1>3. {View(g) : g \in held'} = {View(g) : g \in held} \ {View(b)}
  BY <1>1, <1>2
<1>4. View(b) \in {View(g) : g \in held}
  OBVIOUS
<1> QED BY <1>1, <1>3, <1>4 DEF H!Free, View

(* memory.c gives every byte to at most one caller at a time, out of the    *)
(* pool it manages: with headers, splitting and the free list forgotten, it *)
(* behaves as Heap says.                                                    *)
THEOREM MmImplementsHeap == MmSpec => ImplementsHeap
<1>1. MmInit => H!Init
  BY InitRefines
<1>2. IInv /\ [MmNext]_mmVars => [H!Next]_(H!vars)
  <2> SUFFICES ASSUME IInv, [MmNext]_mmVars PROVE [H!Next]_(H!vars)
    OBVIOUS
  <2>1. CASE \E p \in Pools : mm_init(p)
    BY <2>1, MmInitRefines DEF H!Next
  <2>2. CASE \E n \in Requests : mm_alloc(n)
    BY <2>2, MmAllocRefines DEF H!Next
  <2>3. CASE \E b \in held : mm_free(b)
    <3>1. PICK b \in held : mm_free(b)
      BY <2>3
    <3>2. H!Free(View(b))
      BY <3>1, MmFreeRefines
    <3>3. View(b) \in {[ptr |-> Pointer(g), len |-> g.want] : g \in held}
      BY DEF View
    <3> QED BY <3>2, <3>3 DEF H!Next
  <2>4. CASE UNCHANGED mmVars
    BY <2>4 DEF mmVars, H!vars
  <2> QED BY <2>1, <2>2, <2>3, <2>4 DEF MmNext
<1>3. MmInit => IInv
  BY InitIInv
<1>4. IInv /\ [MmNext]_mmVars => IInv'
  BY NextKeepsIInv
<1> QED BY <1>1, <1>2, <1>3, <1>4, PTL DEF MmSpec, ImplementsHeap, H!Spec
=============================================================================
