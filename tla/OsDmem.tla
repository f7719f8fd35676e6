------------------------------- MODULE OsDmem -------------------------------
(***************************************************************************)
(* The heap of the device, Ports/Cortex-M3/os_dmem.c: a circular list of   *)
(* blocks over one pool, searched from where the last search ended, split  *)
(* by OS_GetMem and merged by OS_FreeMem.  Every call works inside one     *)
(* critical section and is one action.                                     *)
(***************************************************************************)
EXTENDS Integers, FiniteSetsExt

CONSTANTS
  PoolSize,        \* OS_DMEM_POOL_SIZE
  Overhead,        \* DM_OVERHEAD, the size of a block header
  MinAllocation,   \* dm_min_allocation
  MemUnit,         \* sizeof(UNSIGNED)
  MemSizes         \* the sizes the tasks ask for

ASSUME DmemAssumption ==
  /\ {Overhead, MinAllocation, MemUnit} \subseteq Nat \ {0}
  /\ PoolSize \in Nat /\ PoolSize > 2 * Overhead
  /\ {PoolSize % MemUnit, Overhead % MemUnit, MinAllocation % MemUnit} = {0}
  /\ MemSizes \subseteq Nat

PoolStart == 0
PoolTrailer == PoolSize - Overhead

VARIABLES
  heap,   \* the live block headers: address -> next, previous, free
  dm_available,
  dm_search_ptr,
  held    \* the blocks the tasks hold: address -> size asked for

heapVars == <<heap, dm_available, dm_search_ptr, held>>

Header == [next : 0 .. PoolSize, prev : 0 .. PoolSize, free : BOOLEAN]

DmemTypeOK ==
  /\ DOMAIN heap \subseteq 0 .. PoolSize
  /\ \A h \in DOMAIN heap : heap[h] \in Header
  /\ dm_available \in 0 .. PoolSize
  /\ dm_search_ptr \in 0 .. PoolSize
  /\ \A h \in DOMAIN held : held[h] \in MemSizes

OS_Create_Memory_Pool ==
  /\ heap = [h \in {PoolStart, PoolTrailer} |->
               LET other == IF h = PoolStart THEN PoolTrailer ELSE PoolStart
               IN  [next |-> other, prev |-> other, free |-> h = PoolStart]]
  /\ dm_available = PoolSize - 2 * Overhead
  /\ dm_search_ptr = PoolStart
  /\ held = <<>>

DmemInit == OS_Create_Memory_Pool

-----------------------------------------------------------------------------
BlockSize(H, h) == H[h].next - h - Overhead

FreeSize(h) == IF heap[h].free THEN BlockSize(heap, h) ELSE 0

Adjusted(size) ==
  IF size < MinAllocation THEN MinAllocation
  ELSE ((size + MemUnit - 1) \div MemUnit) * MemUnit

(* The headers in the order the search visits them.                        *)
Visited ==
  LET v[n \in 0 .. Cardinality(DOMAIN heap) - 1] ==
        IF n = 0 THEN dm_search_ptr ELSE heap[v[n - 1]].next
  IN  v

Fitting(size) == {n \in DOMAIN Visited : FreeSize(Visited[n]) >= size}

(* Block h is cut after size bytes.                                        *)
Split(h, size) ==
  LET new == h + size + Overhead
      last == heap[h].next
      rest == [heap EXCEPT ![last].prev = new, ![h].next = new, ![h].free = FALSE]
  IN  [k \in DOMAIN heap \cup {new} |->
         IF k = new THEN [next |-> last, prev |-> h, free |-> TRUE] ELSE rest[k]]

OS_GetMem(size) ==
  IF Fitting(Adjusted(size)) = {} THEN UNCHANGED heapVars
  ELSE LET asked == Adjusted(size)
           h     == Visited[Min(Fitting(asked))]
           room  == FreeSize(h)
           cut   == room >= asked + Overhead + MinAllocation
       IN  /\ heap' = IF cut THEN Split(h, asked)
                      ELSE [heap EXCEPT ![h].free = FALSE]
           /\ dm_available' = dm_available - (IF cut THEN asked + Overhead ELSE room)
           /\ dm_search_ptr' = IF dm_search_ptr = h THEN heap'[h].next
                               ELSE dm_search_ptr
           /\ held' = [k \in DOMAIN held \cup {h} |-> IF k = h THEN size ELSE held[k]]

(* Block b leaves the list; its neighbour a, which precedes it, grows.     *)
Joined(H, a, b) ==
  LET next == H[b].next
      J == [H EXCEPT ![a].next = next, ![next].prev = a]
  IN  [h \in DOMAIN H \ {b} |-> J[h]]

(* Variant: the search pointer stays where it is.                          *)
MergeBlocksKeepSearch(p, a, b) ==
  [heap |-> Joined(p.heap, a, b), avail |-> p.avail + Overhead, search |-> p.search]

MergeBlocks(p, a, b) ==
  [heap |-> Joined(p.heap, a, b), avail |-> p.avail + Overhead, search |-> a]

OS_FreeMem(h) ==
  LET freed  == [heap   |-> [heap EXCEPT ![h].free = TRUE],
                 avail  |-> dm_available + BlockSize(heap, h),
                 search |-> dm_search_ptr]
      prev   == heap[h].prev
      before == IF heap[prev].free THEN MergeBlocks(freed, prev, h) ELSE freed
      header == IF heap[prev].free THEN prev ELSE h
      next   == before.heap[header].next
      after  == IF before.heap[next].free THEN MergeBlocks(before, header, next)
                ELSE before
  IN  /\ heap' = after.heap
      /\ dm_available' = after.avail
      /\ dm_search_ptr' = after.search
      /\ held' = [k \in DOMAIN held \ {h} |-> held[k]]

OSMMalloc == \E size \in MemSizes : OS_GetMem(size)
OSMCalloc == \E count \in 1 .. 2, size \in MemSizes :
               count * size \in MemSizes /\ OS_GetMem(count * size)
OSMFree == \E h \in DOMAIN held : OS_FreeMem(h)

DmemNext == OSMMalloc \/ OSMCalloc \/ OSMFree

DmemSpec == DmemInit /\ [][DmemNext]_heapVars

-----------------------------------------------------------------------------
(* Properties.                                                             *)

(* The headers cut the pool into blocks: the next header is the next       *)
(* higher one, back to the start from the trailer, previous is its         *)
(* inverse, and two neighbouring blocks are never both free.               *)
BlocksTile ==
  /\ {PoolStart, PoolTrailer} \subseteq DOMAIN heap
  /\ \A h \in DOMAIN heap :
       LET above == {k \in DOMAIN heap : k > h}
       IN  /\ heap[h].next = IF above = {} THEN PoolStart ELSE Min(above)
           /\ heap[heap[h].next].prev = h
           /\ ~(heap[h].free /\ heap[heap[h].next].free)

(* The search pointer, which every merge may leave behind, is the header   *)
(* of a block of the list: the search of the next OS_GetMem starts there.  *)
SearchLive == dm_search_ptr \in DOMAIN heap

(* The bytes of the free blocks, added up from the start of the pool.      *)
SumBelow(F, n) ==
  LET sum[i \in 0 .. n] == IF i = 0 THEN 0 ELSE sum[i - 1] + F[i - 1]
  IN  sum[n]

FreeAt(a) == IF a \in DOMAIN heap THEN FreeSize(a) ELSE 0

FreeBytes == SumBelow([a \in 0 .. PoolSize - 1 |-> FreeAt(a)], PoolSize)

(* A task holds a block that is in use, no smaller than it asked for, and  *)
(* dm_available is what is left.                                           *)
HeldBlocks ==
  /\ \A h \in DOMAIN held :
       h \in DOMAIN heap /\ ~heap[h].free /\ BlockSize(heap, h) >= held[h]
  /\ DOMAIN held = {h \in DOMAIN heap \ {PoolTrailer} : ~heap[h].free}
  /\ dm_available = FreeBytes

(* OS_GetMem fails only when no free block is large enough, wherever the   *)
(* search starts; when every block has been freed the pool is one block    *)
(* again.                                                                  *)
NoFalseFull ==
  /\ \A size \in MemSizes :
       (\E h \in DOMAIN heap : FreeSize(h) >= Adjusted(size)) => Fitting(Adjusted(size)) # {}
  /\ held = <<>> => DOMAIN heap = {PoolStart, PoolTrailer}

(* The heap is sound after every sequence of calls: its blocks tile the    *)
(* pool, the search pointer OS_FreeMem moves is on one of them, the tasks  *)
(* hold what they asked for, and no request fails that a block would fit.  *)
HeapSound == BlocksTile /\ SearchLive /\ HeldBlocks /\ NoFalseFull
=============================================================================
