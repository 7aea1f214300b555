-------------------------------- MODULE Heap --------------------------------
(***************************************************************************)
(* The EE heap (src/ee/runtime/heap.c): a first-fit list of blocks, each a *)
(* header followed by its payload, over one arena.                         *)
(*                                                                         *)
(* Memory is counted in units of EF2_HEAP_ALIGNMENT = 16 bytes, the size   *)
(* of a header; payload sizes are whole units.  A request of r stands for  *)
(* the sizes from 16r-15 to 16r bytes, so the last, r = Words = 2^28,      *)
(* stands for the sizes that align_up wraps to zero.                       *)
(***************************************************************************)
EXTENDS Integers, FiniteSets

CONSTANTS Arena,    \* units of the arena handed to ef2_heap_init
          Words,    \* units in the 32-bit address space
          Sizes,    \* the requests clients make
          Contents, \* what clients write into a unit
          Junk      \* anything else a unit holds

ASSUME HeapAssumption == /\ Arena \in Nat /\ Words \in Nat
                         /\ Arena >= 2 /\ Arena <= Words
                         /\ Sizes \subseteq 1 .. Words
                         /\ Junk \notin Contents

NULL == -1
Addresses == 0 .. Arena - 1

VARIABLES
  heap,   \* the headers on the list, by address; the first is at 0
  active, \* g_heap_active
  mem,    \* what each unit holds
  asked   \* the clients' view: the size asked for, by pointer held

vars == <<heap, active, mem, asked>>

Block(s, m, p, n) == [size |-> s, magic |-> m, previous |-> p, next |-> n]

\* ef2_heap_init has run: one free block.
Init == /\ heap = [b \in {0} |-> Block(Arena - 1, "free", NULL, NULL)]
        /\ active = 0
        /\ mem = [a \in Addresses |-> Junk]
        /\ asked = [p \in {} |-> 0]
-----------------------------------------------------------------------------
\* Rounding up in 32-bit arithmetic.
align_up(r) == r % Words

End(h, b) == b + 1 + h[b].size

MutSplitUnchecked(h, b, wanted) ==
  LET s == b + 1 + wanted
  IN  [c \in DOMAIN h \cup {s} |->
         IF c = s THEN Block(h[b].size - wanted - 1, "free", b, h[b].next)
         ELSE IF c = b THEN [h[b] EXCEPT !.size = wanted, !.next = s]
         ELSE IF c = h[b].next THEN [h[c] EXCEPT !.previous = s]
         ELSE h[c]]

MutSplitKeepsPrevious(h, b, wanted) ==
  IF h[b].size - wanted < 2 THEN h
  ELSE LET s == b + 1 + wanted
       IN  [c \in DOMAIN h \cup {s} |->
              IF c = s THEN Block(h[b].size - wanted - 1, "free", b, h[b].next)
              ELSE IF c = b THEN [h[b] EXCEPT !.size = wanted, !.next = s]
              ELSE h[c]]

\* What does not fit a header and one unit stays with the block.
split_block(h, b, wanted) ==
  IF h[b].size - wanted < 2 THEN h
  ELSE LET s == b + 1 + wanted
       IN  [c \in DOMAIN h \cup {s} |->
              IF c = s THEN Block(h[b].size - wanted - 1, "free", b, h[b].next)
              ELSE IF c = b THEN [h[b] EXCEPT !.size = wanted, !.next = s]
              ELSE IF c = h[b].next THEN [h[c] EXCEPT !.previous = s]
              ELSE h[c]]

\* The block after b is free.
NextFree(h, b) == h[b].next # NULL /\ h[h[b].next].magic = "free"

merge_with_next(h, b) ==
  IF ~NextFree(h, b) THEN h
  ELSE LET n == h[b].next
       IN  [c \in DOMAIN h \ {n} |->
              IF c = b THEN [h[b] EXCEPT !.size = @ + 1 + h[n].size, !.next = h[n].next]
              ELSE IF c = h[n].next THEN [h[c] EXCEPT !.previous = b]
              ELSE h[c]]

Mark(h, b, m) == [h EXCEPT ![b].magic = m]

\* The first free block that is large enough (blocks are listed by address).
FirstFit(b, wanted) ==
  LET fits == {c \in DOMAIN heap : heap[c].magic = "free" /\ heap[c].size >= wanted}
  IN  b \in fits /\ \A c \in fits : b <= c

Taken(b, wanted) == Mark(split_block(heap, b, wanted), b, "alloc")

\* A freed block joins the block after it, then the block before it.
Freed(h, b) ==
  LET merged == merge_with_next(Mark(h, b, "free"), b)
      before == merged[b].previous
  IN  IF before # NULL /\ merged[before].magic = "free"
      THEN merge_with_next(merged, before) ELSE merged

\* Headers written at new addresses overwrite what was there.
Headed(h) == [a \in Addresses |-> IF a \in DOMAIN h \ DOMAIN heap THEN Junk ELSE mem[a]]

MutCopiedShort(m, from, to, n) ==
  [d \in Addresses |-> IF d \in to .. to + n - 2 THEN m[d + from - to] ELSE m[d]]

\* n units are copied between addresses.
Copied(m, from, to, n) ==
  [d \in Addresses |-> IF d \in to .. to + n - 1 THEN m[d + from - to] ELSE m[d]]

\* The client fills n units from address a on.
Filled(m, a, n, x) == [d \in Addresses |-> IF d \in a .. a + n - 1 THEN x ELSE m[d]]
-----------------------------------------------------------------------------
\* malloc and calloc; the region is then filled, by the client or with zeros.
\* A request that is refused changes nothing.
ef2_malloc(r, x) ==
  LET wanted == align_up(r)
  IN  /\ r # Words
      /\ \E b \in DOMAIN heap :
           /\ FirstFit(b, wanted)
           /\ heap' = Taken(b, wanted)
           /\ mem' = Filled(Headed(heap'), b + 1, r, x)
           /\ asked' = [p \in DOMAIN asked \cup {b + 1} |-> IF p = b + 1 THEN r ELSE asked[p]]
      /\ active' = active + 1

ef2_free(p) ==
  /\ p \in DOMAIN asked /\ heap[p - 1].magic = "alloc"
  /\ heap' = Freed(heap, p - 1)
  /\ active' = IF active # 0 THEN active - 1 ELSE active
  /\ asked' = [q \in DOMAIN asked \ {p} |-> asked[q]]
  /\ UNCHANGED mem

Resized(p, r) == asked' = [asked EXCEPT ![p] = r]

\* realloc when the block is large enough.
ReallocInBlock(p, r, x) ==
  LET wanted == align_up(r)
  IN  /\ wanted <= heap[p - 1].size
      /\ heap' = split_block(heap, p - 1, wanted)
      /\ mem' = Filled(Headed(heap'), p + asked[p], wanted - asked[p], x)
      /\ Resized(p, r) /\ UNCHANGED active

\* realloc when the block grows into the free one after it.
CanGrow(b, wanted) == NextFree(heap, b) /\ heap[b].size + 1 + heap[heap[b].next].size >= wanted

ReallocGrow(p, r, x) ==
  LET wanted == align_up(r)
      b == p - 1
  IN  /\ wanted > heap[b].size /\ CanGrow(b, wanted)
      /\ heap' = Mark(split_block(merge_with_next(heap, b), b, wanted), b, "alloc")
      /\ mem' = Filled(Headed(heap'), p + asked[p], r - asked[p], x)
      /\ Resized(p, r) /\ UNCHANGED active

MutMoveKeepsOld(p, r, x) ==
  LET wanted == align_up(r)
      old == heap[p - 1].size
  IN  /\ wanted > old /\ ~CanGrow(p - 1, wanted)
      /\ \E b \in DOMAIN heap :
           /\ FirstFit(b, wanted)
           /\ heap' = Taken(b, wanted)
           /\ mem' = Filled(Copied(Headed(Taken(b, wanted)), p, b + 1, old),
                            b + 1 + asked[p], r - asked[p], x)
           /\ asked' = [q \in (DOMAIN asked \ {p}) \cup {b + 1} |-> IF q = b + 1 THEN r ELSE asked[q]]
      /\ UNCHANGED active

\* realloc to a new block: malloc, copy, free.
ReallocMove(p, r, x) ==
  LET wanted == align_up(r)
      old == heap[p - 1].size
  IN  /\ wanted > old /\ ~CanGrow(p - 1, wanted)
      /\ \E b \in DOMAIN heap :
           /\ FirstFit(b, wanted)
           /\ heap' = Freed(Taken(b, wanted), p - 1)
           /\ mem' = Filled(Copied(Headed(Taken(b, wanted)), p, b + 1, old),
                            b + 1 + asked[p], r - asked[p], x)
           /\ asked' = [q \in (DOMAIN asked \ {p}) \cup {b + 1} |-> IF q = b + 1 THEN r ELSE asked[q]]
      /\ UNCHANGED active

\* A null pointer makes realloc a malloc, a size of zero makes it a free.
ef2_realloc(p, r, x) ==
  /\ p \in DOMAIN asked /\ heap[p - 1].magic = "alloc"
  /\ ReallocInBlock(p, r, x) \/ ReallocGrow(p, r, x) \/ ReallocMove(p, r, x)

Next == \/ \E r \in Sizes, x \in Contents : ef2_malloc(r, x)
        \/ \E p \in DOMAIN asked : \/ ef2_free(p)
                                   \/ \E r \in Sizes, x \in Contents : ef2_realloc(p, r, x)

Spec == Init /\ [][Next]_vars
-----------------------------------------------------------------------------
(* Properties.                                                             *)

Headers == [size : 0 .. Arena - 1, magic : {"alloc", "free"},
            previous : Addresses \cup {NULL}, next : Addresses \cup {NULL}]

\* Headers stay of their type: no size is negative or larger than the arena, no
\* link leaves it, and g_heap_active does not pass below zero.
TypeOK == /\ DOMAIN heap \subseteq Addresses /\ heap \in [DOMAIN heap -> Headers]
          /\ active \in Nat
          /\ mem \in [Addresses -> Contents \cup {Junk}]
          /\ DOMAIN asked \subseteq Addresses /\ asked \in [DOMAIN asked -> Sizes]

\* The list covers the arena without a gap or an overlap, and its links agree.
Tiled(h) ==
  /\ 0 \in DOMAIN h
  /\ \A b \in DOMAIN h :
       /\ End(h, b) <= Arena
       /\ h[b].next = IF End(h, b) = Arena THEN NULL ELSE End(h, b)
       /\ h[b].next # NULL => h[b].next \in DOMAIN h /\ h[h[b].next].previous = b
       /\ IF b = 0 THEN h[b].previous = NULL
          ELSE h[b].previous \in DOMAIN h /\ h[h[b].previous].next = b
  /\ \A b, c \in DOMAIN h : b < c => End(h, b) <= c

\* After any sequence of calls, wrapped requests included, headers and payloads
\* tile the arena and both links of every block are right.
BlocksTile == Tiled(heap)

\* The blocks in use are those clients hold a pointer to, and are counted.
LiveBlocks ==
  /\ {b \in DOMAIN heap : heap[b].magic = "alloc"} = {p - 1 : p \in DOMAIN asked}
  /\ active = Cardinality(DOMAIN asked)

\* A block in use is as large as its client asked, but for wrapped requests.
LargeEnough == \A p \in DOMAIN asked : asked[p] # Words => asked[p] <= heap[p - 1].size

\* A client's units, by its pointer.
store == [p \in DOMAIN asked |-> [i \in 0 .. asked[p] - 1 |-> mem[p + i]]]

A == INSTANCE Allocator

\* The clients' regions never overlap, and each keeps its contents through every
\* call for another region and through realloc.
ImplementsAllocator == A!StoreSpec

\* A successful request returns a block as large as was asked.
UsableAsAsked == \A p \in DOMAIN asked : asked[p] <= heap[p - 1].size
=============================================================================
