------------------------------- MODULE Memory -------------------------------
(***************************************************************************)
(* The page allocator (threads/palloc.c, with the bitmaps of               *)
(* lib/kernel/bitmap.c) and the block allocator on top of it               *)
(* (threads/malloc.c), called by several threads at once.                  *)
(*                                                                         *)
(* A page is its number, a block the number of its first byte, so that     *)
(* block_to_arena and page_from_pool are the code's arithmetic.  Bits of a *)
(* pool's bitmap are read and written one at a time: palloc_free_multiple  *)
(* clears them without the lock under which palloc_get_multiple scans.     *)
(* A frame holds the local variables of the call a thread is in.           *)
(***************************************************************************)
EXTENDS Integers, Sequences, FiniteSets, SequencesExt

CONSTANTS
  Thread, NULL,
  RamPages,      \* pages of RAM above the first megabyte
  UserPageLimit, \* the -ul option
  PGSIZE,        \* bytes in a page
  ArenaSize,     \* sizeof (struct arena)
  MinBlock,      \* the smallest block_size
  SizeMax,       \* size_t counts modulo SizeMax
  BitmapSize,    \* sizeof (struct bitmap)
  ElemSize,      \* sizeof (elem_type)
  ELEM_BITS,
  Request,       \* sizes asked of malloc and realloc
  PageRequest,   \* page counts asked of palloc_get_multiple
  MaxHeld        \* blocks and page groups one thread holds, at most

VARIABLES
  used_map,      \* pool -> bits that are set
  pool_lock,     \* pool -> holder
  free_list,     \* block size of a descriptor -> its free blocks
  desc_lock,     \* block size of a descriptor -> holder
  arena,         \* page -> the arena header in it, or NULL
  owned,         \* what each thread holds: first byte and bytes asked for
  frame          \* the call each thread is in

memVars == <<used_map, pool_lock, free_list, desc_lock, arena, owned, frame>>

DIV_ROUND_UP(x, step) == (x + step - 1) \div step

-----------------------------------------------------------------------------
(* Pools and descriptors.                                                  *)

bitmap_buf_size(bits) == BitmapSize + ElemSize * DIV_ROUND_UP(bits, ELEM_BITS)

(* The pages left of PAGES once the pool's bitmap is at its base.           *)
init_pool(first, pages) ==
  LET bm == DIV_ROUND_UP(bitmap_buf_size(pages), PGSIZE)
  IN  [base |-> first + bm, cnt |-> pages - bm]

(* Half of memory for users, at most USER_PAGE_LIMIT pages; the first free  *)
(* page is number 1.                                                        *)
palloc_init ==
  LET half == RamPages \div 2
      user == IF half > UserPageLimit THEN UserPageLimit ELSE half
      kernel == RamPages - user
  IN  [kernel |-> init_pool(1, kernel), user |-> init_pool(1 + kernel, user)]

Pool == {"kernel", "user"}
Page == 1 .. RamPages

ASSUME PoolsFit == \A p \in Pool : palloc_init[p].cnt >= 1

page_from_pool(p, page) ==
  palloc_init[p].base <= page /\ page < palloc_init[p].base + palloc_init[p].cnt

(* The block sizes of malloc_init: powers of two times the smallest.        *)
Desc == {MinBlock * 2^k : k \in 0 .. 9} \cap (0 .. ((PGSIZE - 1) \div 2))

blocks_per_arena(d) == (PGSIZE - ArenaSize) \div d

block_to_arena(b) == b \div PGSIZE

arena_to_block(page, d, i) == page * PGSIZE + ArenaSize + i * d

ArenaBlocks(page, d) ==
  [k \in 1 .. blocks_per_arena(d) |-> arena_to_block(page, d, k - 1)]

-----------------------------------------------------------------------------
(* Frames.                                                                 *)

Idle == [pc |-> "idle", op |-> "none", pool |-> "kernel", cnt |-> 0, i |-> 0,
         j |-> 0, d |-> 0, addr |-> 0, size |-> 0, old |-> NULL]

Goto(t, pc) == frame' = [frame EXCEPT ![t].pc = pc]

(* palloc_get_multiple (FLAGS, CNT) called from frame F.                    *)
palloc_get(f, pool, cnt) ==
  IF cnt = 0 THEN [f EXCEPT !.pc = "null"]
  ELSE [f EXCEPT !.pc = "get", !.pool = pool, !.cnt = cnt]

SmallestFit(size) ==
  {d \in Desc : d >= size /\ \A e \in Desc : e >= size => d <= e}

BigPages_NoHeader(size) == ((size + PGSIZE - 1) % SizeMax) \div PGSIZE

(* The pages of a big block; the sum is a size_t.                           *)
BigPages(size) == ((size + ArenaSize + PGSIZE - 1) % SizeMax) \div PGSIZE

(* malloc up to its first lock: a descriptor, or pages for a big block.     *)
malloc(f, size) ==
  LET g == [f EXCEPT !.size = size]
  IN  IF size = 0 THEN [g EXCEPT !.pc = "null"]
      ELSE IF SmallestFit(size) # {}
           THEN [g EXCEPT !.pc = "lock", !.d = CHOOSE d \in SmallestFit(size) : TRUE]
           ELSE palloc_get(g, "kernel", BigPages(size))

(* palloc_free_multiple (PAGES, CNT): the pool is found from the address.   *)
palloc_free(f, page, cnt) ==
  IF \E p \in Pool : page_from_pool(p, page)
  THEN LET p == IF page_from_pool("kernel", page) THEN "kernel" ELSE "user"
       IN  [f EXCEPT !.pc = "wipe", !.pool = p, !.cnt = cnt, !.j = 0,
                     !.i = page - palloc_init[p].base]
  ELSE [f EXCEPT !.pc = "panic"]

(* free up to its first lock: the header is read without one.               *)
free(f, b) ==
  LET a == arena[block_to_arena(b)]
  IN  IF a = NULL THEN [f EXCEPT !.pc = "panic"]
      ELSE IF a.desc = NULL
           THEN palloc_free([f EXCEPT !.d = 0], block_to_arena(b), a.free_cnt)
           ELSE [f EXCEPT !.pc = "free", !.d = a.desc, !.addr = b]

Holds(t, x) == owned' = [owned EXCEPT ![t] = @ \cup {x}]

Gives(t, x) == owned' = [owned EXCEPT ![t] = @ \ {x}]

(* malloc returns B: realloc goes on to free the old block, whose contents  *)
(* it has copied.                                                           *)
MallocReturns(t, b) ==
  LET new == [addr |-> b, size |-> frame[t].size]
      old == frame[t].old
  IN  /\ owned' = [owned EXCEPT ![t] = (@ \cup {new}) \ {old}]
      /\ frame' = [frame EXCEPT ![t] =
           IF old = NULL THEN Idle ELSE free([Idle EXCEPT !.op = "free"], old.addr)]

-----------------------------------------------------------------------------
(* Calls.                                                                  *)

IsPages(x) == x.addr % PGSIZE = 0

MayCall(t) == frame[t].pc = "idle"

MayHold(t) == MayCall(t) /\ Cardinality(owned[t]) < MaxHeld

Enter(t, f) ==
  /\ frame' = [frame EXCEPT ![t] = f]
  /\ UNCHANGED <<used_map, pool_lock, free_list, desc_lock, arena>>

CallPalloc(t, pool, cnt) ==
  /\ MayHold(t)
  /\ Enter(t, palloc_get([Idle EXCEPT !.op = "palloc"], pool, cnt))
  /\ UNCHANGED owned

CallMalloc(t, size) ==
  /\ MayHold(t)
  /\ Enter(t, malloc([Idle EXCEPT !.op = "malloc"], size))
  /\ UNCHANGED owned

(* calloc: the product is a size_t, and must not be less than a factor.     *)
CallCalloc(t, a, b) ==
  LET size == (a * b) % SizeMax
  IN  /\ MayHold(t)
      /\ size >= a /\ size >= b
      /\ Enter(t, malloc([Idle EXCEPT !.op = "malloc"], size))
      /\ UNCHANGED owned

(* realloc: a size of zero frees, anything else allocates first.            *)
CallRealloc(t, x, size) ==
  /\ MayCall(t) /\ ~IsPages(x)
  /\ IF size = 0 THEN Enter(t, free([Idle EXCEPT !.op = "free"], x.addr)) /\ Gives(t, x)
     ELSE /\ Enter(t, malloc([Idle EXCEPT !.op = "malloc", !.old = x], size))
          /\ UNCHANGED owned

CallFree(t, x) ==
  /\ MayCall(t)
  /\ Enter(t, IF IsPages(x)
              THEN palloc_free([Idle EXCEPT !.op = "free"], x.addr \div PGSIZE, x.size \div PGSIZE)
              ELSE free([Idle EXCEPT !.op = "free"], x.addr))
  /\ Gives(t, x)

-----------------------------------------------------------------------------
(* palloc_get_multiple.                                                    *)

PoolFree_Any(p) == TRUE
PoolFree(p) == pool_lock[p] = NULL

(* lock_acquire; a scan for more bits than there are fails at once.         *)
GetPages(t) ==
  LET f == frame[t]
  IN  /\ f.pc = "get" /\ PoolFree(f.pool)
      /\ pool_lock' = [pool_lock EXCEPT ![f.pool] = t]
      /\ frame' = [frame EXCEPT ![t].i = 0, ![t].j = 0, ![t].pc =
           IF f.cnt <= palloc_init[f.pool].cnt THEN "scan" ELSE "none"]
      /\ UNCHANGED <<used_map, free_list, desc_lock, arena, owned>>

(* bitmap_scan tests one bit: a set one moves the group on, the last clear  *)
(* one finds it.                                                            *)
bitmap_scan(f) ==
  IF f.i + f.j \in used_map[f.pool]
  THEN IF f.i + 1 + f.cnt <= palloc_init[f.pool].cnt
       THEN [f EXCEPT !.i = @ + 1, !.j = 0]
       ELSE [f EXCEPT !.pc = "none"]
  ELSE IF f.j + 1 = f.cnt THEN [f EXCEPT !.pc = "flip", !.j = 0]
       ELSE [f EXCEPT !.j = @ + 1]

Scan(t) ==
  /\ frame[t].pc = "scan"
  /\ frame' = [frame EXCEPT ![t] = bitmap_scan(@)]
  /\ UNCHANGED <<used_map, pool_lock, free_list, desc_lock, arena, owned>>

(* bitmap_set_multiple marks one bit of the group.                          *)
Flip(t) ==
  LET f == frame[t]
  IN  /\ f.pc = "flip"
      /\ used_map' = [used_map EXCEPT ![f.pool] = @ \cup {f.i + f.j}]
      /\ frame' = [frame EXCEPT ![t].j = @ + 1,
                                ![t].pc = IF f.j + 1 = f.cnt THEN "got" ELSE "flip"]
      /\ UNCHANGED <<pool_lock, free_list, desc_lock, arena, owned>>

(* lock_release; the pages go to the caller, to a big block or to an arena. *)
Got(t) ==
  LET f == frame[t]
      page == palloc_init[f.pool].base + f.i
  IN  /\ f.pc = "got"
      /\ pool_lock' = [pool_lock EXCEPT ![f.pool] = NULL]
      /\ CASE f.op = "palloc" ->
              /\ Holds(t, [addr |-> page * PGSIZE, size |-> f.cnt * PGSIZE])
              /\ frame' = [frame EXCEPT ![t] = Idle]
              /\ UNCHANGED <<arena, free_list>>
           [] f.op = "malloc" /\ f.d = 0 ->
              /\ arena' = [arena EXCEPT ![page] = [desc |-> NULL, free_cnt |-> f.cnt]]
              /\ MallocReturns(t, page * PGSIZE + ArenaSize)
              /\ UNCHANGED free_list
           [] OTHER ->
              /\ arena' = [arena EXCEPT ![page] =
                   [desc |-> f.d, free_cnt |-> blocks_per_arena(f.d)]]
              /\ free_list' = [free_list EXCEPT ![f.d] = @ \o ArenaBlocks(page, f.d)]
              /\ Goto(t, "pop")
              /\ UNCHANGED owned
      /\ UNCHANGED <<used_map, desc_lock>>

(* No pages: release the pool, and the descriptor if malloc holds it.       *)
GotNone(t) ==
  LET f == frame[t]
  IN  /\ f.pc = "none"
      /\ pool_lock' = [pool_lock EXCEPT ![f.pool] = NULL]
      /\ desc_lock' = [d \in Desc |-> IF d = f.d THEN NULL ELSE desc_lock[d]]
      /\ Goto(t, "null")
      /\ UNCHANGED <<used_map, free_list, arena, owned>>

(* A null pointer is returned; realloc has kept the old block.              *)
ReturnNull(t) ==
  /\ frame[t].pc = "null"
  /\ frame' = [frame EXCEPT ![t] = Idle]
  /\ UNCHANGED <<used_map, pool_lock, free_list, desc_lock, arena, owned>>

-----------------------------------------------------------------------------
(* malloc and free with the descriptor's lock.                             *)

DescFree(d) == desc_lock[d] = NULL

MallocLock(t) ==
  LET f == frame[t]
  IN  /\ f.pc = "lock" /\ DescFree(f.d)
      /\ desc_lock' = [desc_lock EXCEPT ![f.d] = t]
      /\ frame' = [frame EXCEPT ![t] =
           IF free_list[f.d] = <<>> THEN palloc_get(f, "kernel", 1)
           ELSE [f EXCEPT !.pc = "pop"]]
      /\ UNCHANGED <<used_map, pool_lock, free_list, arena, owned>>

(* Take the first free block; it may be of another arena than the new one.  *)
Pop(t) ==
  LET d == frame[t].d
      b == Head(free_list[d])
  IN  /\ frame[t].pc = "pop"
      /\ free_list' = [free_list EXCEPT ![d] = Tail(@)]
      /\ arena' = [arena EXCEPT ![block_to_arena(b)].free_cnt = @ - 1]
      /\ desc_lock' = [desc_lock EXCEPT ![d] = NULL]
      /\ MallocReturns(t, b)
      /\ UNCHANGED <<used_map, pool_lock>>

ArenaUnused_Early(d, free_cnt) == free_cnt + 1 >= blocks_per_arena(d)
ArenaUnused(d, free_cnt) == free_cnt >= blocks_per_arena(d)

(* Push the block; an arena without used blocks is taken off the free list  *)
(* and its page freed, all under the descriptor's lock.                     *)
FreeLock(t) ==
  LET f == frame[t]
      page == block_to_arena(f.addr)
      cnt == arena[page].free_cnt + 1
      list == <<f.addr>> \o free_list[f.d]
      unused == ArenaUnused(f.d, cnt)
  IN  /\ f.pc = "free" /\ DescFree(f.d)
      /\ arena' = [arena EXCEPT ![page].free_cnt = cnt]
      /\ free_list' = [free_list EXCEPT ![f.d] =
           IF unused THEN SelectSeq(list, LAMBDA b : block_to_arena(b) # page) ELSE list]
      /\ desc_lock' = [desc_lock EXCEPT ![f.d] = IF unused THEN t ELSE NULL]
      /\ frame' = [frame EXCEPT ![t] =
           IF ~unused THEN Idle
           ELSE IF cnt # blocks_per_arena(f.d) THEN [f EXCEPT !.pc = "panic"]
                ELSE palloc_free(f, page, 1)]
      /\ UNCHANGED <<used_map, pool_lock, owned>>

-----------------------------------------------------------------------------
(* palloc_free_multiple.                                                   *)

FramePages(f) == {palloc_init[f.pool].base + f.i + k : k \in f.j .. f.cnt - 1}

(* The pages are filled with 0xcc, arena headers included, and must all be  *)
(* marked as used.                                                          *)
Wipe(t) ==
  LET f == frame[t]
  IN  /\ f.pc = "wipe"
      /\ arena' = [p \in Page |-> IF p \in FramePages(f) THEN NULL ELSE arena[p]]
      /\ Goto(t, IF \A k \in f.i .. f.i + f.cnt - 1 : k \in used_map[f.pool]
                 THEN "clear" ELSE "panic")
      /\ UNCHANGED <<used_map, pool_lock, free_list, desc_lock, owned>>

LastBit_Early(f) == f.j + 2 >= f.cnt
LastBit(f) == f.j + 1 = f.cnt

(* bitmap_set_multiple resets one bit, without the pool's lock.             *)
Clear(t) ==
  LET f == frame[t]
  IN  /\ f.pc = "clear"
      /\ used_map' = [used_map EXCEPT ![f.pool] = @ \ {f.i + f.j}]
      /\ frame' = [frame EXCEPT ![t] =
           IF ~LastBit(f) THEN [f EXCEPT !.j = @ + 1]
           ELSE IF f.d = 0 THEN Idle ELSE [f EXCEPT !.pc = "freed"]]
      /\ UNCHANGED <<pool_lock, free_list, desc_lock, arena, owned>>

FreeUnlock(t) ==
  /\ frame[t].pc = "freed"
  /\ desc_lock' = [desc_lock EXCEPT ![frame[t].d] = NULL]
  /\ frame' = [frame EXCEPT ![t] = Idle]
  /\ UNCHANGED <<used_map, pool_lock, free_list, arena, owned>>

-----------------------------------------------------------------------------
MemInit ==
  /\ used_map = [p \in Pool |-> {}]
  /\ pool_lock = [p \in Pool |-> NULL]
  /\ free_list = [d \in Desc |-> <<>>]
  /\ desc_lock = [d \in Desc |-> NULL]
  /\ arena = [p \in Page |-> NULL]
  /\ owned = [t \in Thread |-> {}]
  /\ frame = [t \in Thread |-> Idle]

Call(t) ==
  \/ \E p \in Pool, n \in PageRequest : CallPalloc(t, p, n)
  \/ \E n \in Request : CallMalloc(t, n)
  \/ \E a, b \in Request : CallCalloc(t, a, b)
  \/ \E x \in owned[t] : CallFree(t, x)
  \/ \E x \in owned[t], n \in Request : CallRealloc(t, x, n)

Step(t) ==
  \/ GetPages(t) \/ Scan(t) \/ Flip(t) \/ Got(t) \/ GotNone(t) \/ ReturnNull(t)
  \/ MallocLock(t) \/ Pop(t) \/ FreeLock(t)
  \/ Wipe(t) \/ Clear(t) \/ FreeUnlock(t)

MemNext == \E t \in Thread : Call(t) \/ Step(t)

MemSpec == MemInit /\ [][MemNext]_memVars

-----------------------------------------------------------------------------
(* Properties.                                                             *)

(* What the allocators hand out overlaps nothing still held, however the   *)
(* scans of palloc_get_multiple, the unlocked palloc_free_multiple, malloc *)
(* and free of several threads interleave: they implement a heap.          *)
IsHeap == INSTANCE Heap

ImplementsHeap == IsHeap!Spec

(* The pages that X, held by a thread, keeps in use.                        *)
PagesOf(x) ==
  LET first == x.addr \div PGSIZE
      cnt == IF IsPages(x) THEN x.size \div PGSIZE
             ELSE IF arena[first].desc = NULL THEN arena[first].free_cnt ELSE 1
  IN  first .. first + cnt - 1

(* The pages thread T's call has taken or not yet given back.               *)
InFlight(t) ==
  LET f == frame[t]
  IN  CASE f.pc = "flip" -> {palloc_init[f.pool].base + f.i + k : k \in 0 .. f.j - 1}
        [] f.pc = "got" -> {palloc_init[f.pool].base + f.i + k : k \in 0 .. f.cnt - 1}
        [] f.pc \in {"wipe", "clear"} -> FramePages(f)
        [] f.pc = "pop" -> {block_to_arena(Head(free_list[f.d]))}
        [] f.pc = "free" -> {block_to_arena(f.addr)}
        [] OTHER -> {}

(* No page leaks and none is used twice: the bits set in the pools are     *)
(* exactly the pages some thread holds, keeps a block in, or is taking or  *)
(* giving back.                                                            *)
PagesAccounted ==
  UNION {{palloc_init[p].base + k : k \in used_map[p]} : p \in Pool} =
  UNION {InFlight(t) \cup UNION {PagesOf(x) : x \in owned[t]} : t \in Thread}

(* Every block is at least as long as its caller asked, and inside its     *)
(* arena.                                                                  *)
BlocksLongEnough ==
  \A t \in Thread : \A x \in owned[t] :
    IsPages(x) \/
      LET a == arena[block_to_arena(x.addr)]
      IN  IF a.desc = NULL THEN x.size + ArenaSize <= a.free_cnt * PGSIZE
          ELSE x.size <= a.desc

Blocks(s) == {s[k] : k \in DOMAIN s}

(* Every block of an arena is either on its descriptor's free list, once,  *)
(* or held by a thread, or about to be freed; free_cnt counts the first.   *)
(* So no assertion of palloc.c and malloc.c fails.                         *)
ArenasExact ==
  /\ \A t \in Thread : frame[t].pc # "panic"
  /\ \A page \in Page :
    LET a == arena[page]
        wiped == \E t \in Thread : frame[t].pc = "wipe" /\ page \in FramePages(frame[t])
    IN  a = NULL \/ wiped \/ a.desc = NULL \/
           LET all == Blocks(ArenaBlocks(page, a.desc))
               idle == all \cap Blocks(free_list[a.desc])
               busy == {x.addr : x \in UNION {owned[t] : t \in Thread}}
                       \cup {frame[t].addr : t \in {s \in Thread : frame[s].pc = "free"}}
           IN  /\ a.free_cnt = Cardinality(idle)
               /\ Cardinality(Blocks(free_list[a.desc])) = Len(free_list[a.desc])
               /\ all \ idle = all \cap busy
==============================================================================
