--------------------------------- MODULE Mm ---------------------------------
(***************************************************************************)
(* The memory manager of memory.c: a first-fit allocator over one pool,    *)
(* with a singly linked list of free blocks that live in the pool itself.  *)
(*                                                                         *)
(* A block is its address and the size field of its header; the free list  *)
(* is the sequence of its blocks from free_list_head on.  Kernel tasks are *)
(* not preempted and no interrupt handler allocates, so a call is a step.  *)
(*                                                                         *)
(* Definitions named Bad... are seeded faults, as in Tty.                   *)
(***************************************************************************)
EXTENDS Integers, Sequences

CONSTANTS
  W,          \* 2^16: addresses and size_t are 16 bits wide
  Pools,      \* the start and size arguments of mm_init
  Requests    \* the sizes callers ask for

BLOCK_OVERHEAD == 6

ASSUME WidthAssumption == W \in Nat /\ W > BLOCK_OVERHEAD + 2
ASSUME PoolAssumption ==
  \A p \in Pools : /\ p.start \in 0..(W - 1) /\ p.size \in 0..(W - 1)
                   /\ p.start + p.size <= W
ASSUME RequestAssumption ==
  \A n \in Requests : n \in Nat /\ n > 0 /\ n + BLOCK_OVERHEAD + 1 < W

VARIABLES
  mem_pool,   \* the start and size of the pool, [start |-> 0, size |-> 0] at first
  free_list,  \* blocks from free_list_head on: records of addr and size
  held        \* blocks callers hold, with the size they wanted

mmVars == <<mem_pool, free_list, held>>

NoPool == [start |-> 0, size |-> 0]
mem_pool_end_addr == (mem_pool.start + mem_pool.size) % W

MmInit ==
  /\ mem_pool = NoPool
  /\ free_list = << >>
  /\ held = {}

(* Start-up calls mm_init before anyone allocates.  A null or too small     *)
(* pool is refused.                                                         *)
mm_init(p) ==
  /\ mem_pool = NoPool
  /\ p.start # 0 /\ p.size >= BLOCK_OVERHEAD
  /\ mem_pool' = p
  /\ free_list' = <<[addr |-> p.start, size |-> p.size]>>
  /\ UNCHANGED held

(* The size wanted, rounded up to ALIGN_SIZE = 2, with its header. *)
align_size(n) == LET m == (n + 1) % W IN m - (m % 2)
TotalSize(n) == (align_size(n) + BLOCK_OVERHEAD) % W

FirstFit(i, total) ==
  /\ free_list[i].size >= total
  /\ \A j \in 1..(i - 1) : free_list[j].size < total

Without(s, i) == SubSeq(s, 1, i - 1) \o SubSeq(s, i + 1, Len(s))

(* The block is cut in two and its tail takes its place in the list.        *)
LooseSplit(i, total, n) ==      \* a remainder too small for a header is cut off
  LET b == free_list[i]
  IN  /\ b.size >= total
      /\ free_list' = [free_list EXCEPT
           ![i] = [addr |-> b.addr + total, size |-> b.size - total]]
      /\ held' = held \cup {[addr |-> b.addr, size |-> total, want |-> n]}

BadSplit(i, total, n) ==        \* the whole size stays in the allocated header
  LET b == free_list[i]
  IN  /\ b.size - total >= BLOCK_OVERHEAD
      /\ free_list' = [free_list EXCEPT
           ![i] = [addr |-> b.addr + total, size |-> b.size - total]]
      /\ held' = held \cup {[addr |-> b.addr, size |-> b.size, want |-> n]}

Split(i, total, n) ==
  LET b == free_list[i]
  IN  /\ b.size - total >= BLOCK_OVERHEAD
      /\ free_list' = [free_list EXCEPT
           ![i] = [addr |-> b.addr + total, size |-> b.size - total]]
      /\ held' = held \cup {[addr |-> b.addr, size |-> total, want |-> n]}

(* What would be left is too small for a header: the block goes as a whole. *)
BadTakeWhole(i, total, n) ==    \* the block goes, but stays in the free list
  LET b == free_list[i]
  IN  /\ b.size - total < BLOCK_OVERHEAD
      /\ held' = held \cup {[addr |-> b.addr, size |-> b.size, want |-> n]}
      /\ UNCHANGED free_list

ShortTakeWhole(i, total, n) ==  \* the size field is cut to what was wanted
  LET b == free_list[i]
  IN  /\ b.size - total < BLOCK_OVERHEAD
      /\ free_list' = Without(free_list, i)
      /\ held' = held \cup {[addr |-> b.addr, size |-> total, want |-> n]}

TakeWhole(i, total, n) ==
  LET b == free_list[i]
  IN  /\ b.size - total < BLOCK_OVERHEAD
      /\ free_list' = Without(free_list, i)
      /\ held' = held \cup {[addr |-> b.addr, size |-> b.size, want |-> n]}

(* A call that finds no block large enough returns NULL and changes nothing. *)
mm_alloc(n) ==
  LET total == TotalSize(n)
  IN  /\ \E i \in 1..Len(free_list) :
           FirstFit(i, total) /\ (Split(i, total, n) \/ TakeWhole(i, total, n))
      /\ UNCHANGED mem_pool

Pointer(b) == b.addr + BLOCK_OVERHEAD

InPool(ptr) == ptr # 0 /\ mem_pool.start <= ptr /\ ptr < mem_pool_end_addr

(* A caller gives back the pointer it was given; one outside the pool is     *)
(* ignored.                                                                  *)
mm_free(b) ==
  /\ free_list' = IF InPool(Pointer(b))
                  THEN <<[addr |-> b.addr, size |-> b.size]>> \o free_list
                  ELSE free_list
  /\ held' = held \ {b}
  /\ UNCHANGED mem_pool

MmNext ==
  \/ \E p \in Pools : mm_init(p)
  \/ \E n \in Requests : mm_alloc(n)
  \/ \E b \in held : mm_free(b)

MmSpec == MmInit /\ [][MmNext]_mmVars
-----------------------------------------------------------------------------
(* A block has room for its header. *)
Address == 1..(W - 1)
Size    == BLOCK_OVERHEAD..(W - 1)
Block   == [addr : Address, size : Size]

MmTypeOK ==
  /\ mem_pool \in Pools \cup {NoPool}
  /\ free_list \in Seq(Block)
  /\ held \subseteq [addr : Address, size : Size, want : Requests]

FreeBlocks == {free_list[i] : i \in 1..Len(free_list)}

Apart(a, b) == a.addr + a.size <= b.addr \/ b.addr + b.size <= a.addr

InsidePool(b) ==
  /\ mem_pool.start <= b.addr
  /\ b.addr + b.size <= mem_pool.start + mem_pool.size

(* No byte of the pool is in two blocks, whether free or held, and a held   *)
(* block has room for what its caller wanted after its header: writing a    *)
(* header or filling an allocation touches nothing else.                    *)
NoOverlap ==
  /\ \A b \in FreeBlocks \cup held : InsidePool(b)
  /\ \A b \in held : b.want + BLOCK_OVERHEAD <= b.size
  /\ \A i, j \in 1..Len(free_list) : i # j => Apart(free_list[i], free_list[j])
  /\ \A a, b \in held : a # b => Apart(a, b)
  /\ \A a \in FreeBlocks, b \in held : Apart(a, b)

(* No byte is lost: as long as the pool ends below the end of the segment,  *)
(* every byte of it is in a free block or in one that a caller holds.       *)
NoLeak ==
  mem_pool.start + mem_pool.size < W =>
    \A x \in mem_pool.start..(mem_pool.start + mem_pool.size - 1) :
      \E b \in FreeBlocks \cup held : x \in b.addr..(b.addr + b.size - 1)

(* The allocator never gives a byte to two callers. *)
H == INSTANCE Heap WITH
  pool <- mem_pool.start..(mem_pool.start + mem_pool.size - 1),
  live <- {[ptr |-> Pointer(b), len |-> b.want] : b \in held}

ImplementsHeap == H!Spec

(* memory.h:36: a pointer that mm_alloc returned can be released with       *)
(* mm_free: its block is on the free list again.                            *)
Releasable ==
  [][\A b \in held : b \notin held' =>
       [addr |-> b.addr, size |-> b.size] \in FreeBlocks']_mmVars
=============================================================================
