----------------------------- MODULE HeapProofs -----------------------------
(***************************************************************************)
(* Theorems about Heap for every arena, word size and set of requests.     *)
(***************************************************************************)
EXTENDS Heap, FiniteSetTheorems, TLAPS

\* A list of headers of the right type that tiles the arena.
Typed(h) == DOMAIN h \subseteq Addresses /\ h \in [DOMAIN h -> Headers]
Sound(h) == Typed(h) /\ Tiled(h)

InUse(h) == {b \in DOMAIN h : h[b].magic = "alloc"}

\* Blocks in use other than b are in use in both lists, with the same size.
Kept(h, g, b) ==
  \A c \in DOMAIN h \ {b} : h[c].magic = "alloc" =>
    c \in DOMAIN g /\ g[c].magic = "alloc" /\ g[c].size = h[c].size

\* Rounding is exact below the wrapped request, and zero there.
LEMMA AlignFacts ==
  ASSUME NEW r \in Sizes
  PROVE  /\ r # Words => align_up(r) = r
         /\ r = Words => align_up(r) = 0
         /\ align_up(r) \in Nat
  BY HeapAssumption DEF align_up

\* A header's fields.
LEMMA Fields ==
  ASSUME NEW h, Typed(h), NEW b \in DOMAIN h
  PROVE  /\ b \in Addresses /\ h[b].size \in 0 .. Arena - 1
         /\ h[b].magic \in {"alloc", "free"}
         /\ h[b].previous \in Addresses \cup {NULL} /\ h[b].next \in Addresses \cup {NULL}
         /\ h[b] = Block(h[b].size, h[b].magic, h[b].previous, h[b].next)
  BY DEF Typed, Headers, Block

-----------------------------------------------------------------------------
(* What each operation of the list does to a sound list.                   *)

\* Marking a block keeps the list sound.
LEMMA MarkSound ==
  ASSUME NEW h, Sound(h), NEW b \in DOMAIN h, NEW m \in {"alloc", "free"}
  PROVE  /\ Sound(Mark(h, b, m)) /\ DOMAIN Mark(h, b, m) = DOMAIN h
         /\ \A c \in DOMAIN h : /\ Mark(h, b, m)[c].size = h[c].size
                                /\ Mark(h, b, m)[c].previous = h[c].previous
                                /\ Mark(h, b, m)[c].next = h[c].next
                                /\ Mark(h, b, m)[c].magic = IF c = b THEN m ELSE h[c].magic
  <1> DEFINE g == Mark(h, b, m)
  <1>1. DOMAIN g = DOMAIN h
    BY DEF Mark
  <1>2. ASSUME NEW c \in DOMAIN h
        PROVE  /\ g[c].size = h[c].size /\ g[c].previous = h[c].previous
               /\ g[c].next = h[c].next /\ g[c].magic = IF c = b THEN m ELSE h[c].magic
               /\ g[c] \in Headers
    <2>1. h[c] \in Headers
      BY DEF Sound, Typed
    <2> QED BY <2>1 DEF Mark, Headers
  <1>3. g \in [DOMAIN g -> Headers]
    <2>1. g = [c \in DOMAIN g |-> g[c]]
      BY DEF Mark
    <2> QED BY <1>1, <1>2, <2>1
  <1>4. Typed(g)
    BY <1>1, <1>3 DEF Typed, Sound
  <1>5. Tiled(g)
    BY <1>1, <1>2 DEF Tiled, Sound, End
  <1> HIDE DEF g
  <1> QED BY <1>1, <1>2, <1>4, <1>5 DEF Sound, g

-----------------------------------------------------------------------------
(* Splitting and merging.                                                  *)

\* split_block: the block keeps at least what is wanted, the others their size.
LEMMA SplitSound ==
  ASSUME NEW h, Sound(h), NEW b \in DOMAIN h, NEW wanted \in Nat
  PROVE  /\ Sound(split_block(h, b, wanted)) /\ DOMAIN h \subseteq DOMAIN split_block(h, b, wanted)
         /\ InUse(split_block(h, b, wanted)) = InUse(h)
         /\ Kept(h, split_block(h, b, wanted), b)
         /\ wanted <= h[b].size => split_block(h, b, wanted)[b].size >= wanted
  <1> DEFINE g == split_block(h, b, wanted)
             s == b + 1 + wanted
  <1> USE HeapAssumption DEF Addresses
  <1>0. h[b].size \in 0 .. Arena - 1 /\ b \in Addresses
    BY Fields DEF Sound
  <1>1. CASE h[b].size - wanted < 2
    <2>1. g = h
      BY <1>1 DEF split_block
    <2> QED BY <1>0, <2>1 DEF Kept, InUse
  <1>2. CASE ~(h[b].size - wanted < 2)
    <2>1. /\ DOMAIN g = DOMAIN h \cup {s}
          /\ g = [c \in DOMAIN g |-> g[c]]
          /\ \A c \in DOMAIN g :
               g[c] = IF c = s THEN Block(h[b].size - wanted - 1, "free", b, h[b].next)
                      ELSE IF c = b THEN [h[b] EXCEPT !.size = wanted, !.next = s]
                      ELSE IF c = h[b].next THEN [h[c] EXCEPT !.previous = s]
                      ELSE h[c]
      BY <1>2 DEF split_block
    <2>2. /\ End(h, b) <= Arena /\ s \in Nat /\ b < s /\ s + 2 <= End(h, b)
          /\ End(h, b) \in Int
      BY <1>0, <1>2 DEF Sound, Tiled, End
    <2>3. ASSUME NEW c \in DOMAIN h PROVE c <= b \/ End(h, b) <= c
      BY <1>0, <2>3, Fields DEF Sound, Tiled, End
    <2>4. s \notin DOMAIN h /\ s \in Addresses
      BY <1>0, <2>2, <2>3
    <2>5. h[b].next # s /\ h[b].next # b
      BY <1>0, <2>2, HeapAssumption DEF Sound, Tiled, NULL, End
    <2>6. /\ g[s].size = h[b].size - wanted - 1 /\ g[s].magic = "free"
          /\ g[s].previous = b /\ g[s].next = h[b].next
      <3>1. g[s] = Block(h[b].size - wanted - 1, "free", b, h[b].next)
        BY <2>1
      <3> HIDE DEF g
      <3> QED BY <3>1 DEF Block
    <2>7. /\ g[b].size = wanted /\ g[b].next = s /\ g[b].magic = h[b].magic
          /\ g[b].previous = h[b].previous
      <3>1. g[b] = [h[b] EXCEPT !.size = wanted, !.next = s]
        BY <2>1, <2>2, <2>4
      <3>2. h[b] \in Headers
        BY DEF Sound, Typed
      <3> QED BY <3>1, <3>2 DEF Headers
    <2>8. ASSUME NEW c \in DOMAIN h \ {b}
          PROVE  /\ g[c].size = h[c].size /\ g[c].next = h[c].next /\ g[c].magic = h[c].magic
                 /\ g[c].previous = IF c = h[b].next THEN s ELSE h[c].previous
      <3>1. g[c] = IF c = h[b].next THEN [h[c] EXCEPT !.previous = s] ELSE h[c]
        BY <2>1, <2>4
      <3>2. h[c] \in Headers
        BY DEF Sound, Typed
      <3> QED BY <3>1, <3>2 DEF Headers
    <2>9. Typed(g)
      <3>1. g[s] \in Headers
        <4>1. g[s] = Block(h[b].size - wanted - 1, "free", b, h[b].next)
          BY <2>1
        <4>2. /\ h[b].size - wanted - 1 \in 0 .. Arena - 1
              /\ h[b].next \in Addresses \cup {NULL}
          BY <1>0, <1>2, Fields DEF Sound
        <4> HIDE DEF g
        <4> QED BY <1>0, <4>1, <4>2 DEF Block, Headers
      <3>2. g[b] \in Headers
        <4>1. g[b] = [h[b] EXCEPT !.size = wanted, !.next = s]
          BY <2>1, <2>2, <2>4
        <4>2. h[b] \in Headers /\ wanted \in 0 .. Arena - 1
          BY <1>0, <1>2 DEF Sound, Typed
        <4> HIDE DEF g, s
        <4> QED BY <2>4, <4>1, <4>2 DEF Headers
      <3>3. ASSUME NEW c \in DOMAIN h \ {b} PROVE g[c] \in Headers
        <4>1. g[c] = IF c = h[b].next THEN [h[c] EXCEPT !.previous = s] ELSE h[c]
          BY <2>1, <2>4
        <4>2. h[c] \in Headers
          BY DEF Sound, Typed
        <4> HIDE DEF g, s
        <4> QED BY <2>4, <4>1, <4>2 DEF Headers
      <3> QED BY <2>1, <2>4, <3>1, <3>2, <3>3 DEF Typed, Sound
    <2>10. Tiled(g)
      <3> HIDE DEF g, s
      <3> USE <2>2, <2>4, <2>5, <2>6, <2>7, <2>8
      <3>1. 0 \in DOMAIN g
        BY <2>1 DEF Sound, Tiled
      <3>2. /\ End(g, s) = End(h, b) /\ End(g, b) = s
            /\ \A c \in DOMAIN h \ {b} : End(g, c) = End(h, c)
        BY <1>0 DEF End, s
      <3>3. ASSUME NEW c \in DOMAIN g
            PROVE  /\ End(g, c) <= Arena
                   /\ g[c].next = IF End(g, c) = Arena THEN NULL ELSE End(g, c)
        <4>1. CASE c = s
          BY <3>2, <4>1 DEF Sound, Tiled
        <4>2. CASE c = b
          BY <3>2, <4>2 DEF Addresses
        <4>3. CASE c \in DOMAIN h \ {b}
          BY <3>2, <4>3 DEF Sound, Tiled
        <4> QED BY <2>1, <4>1, <4>2, <4>3
      <3>4. ASSUME NEW c \in DOMAIN g, g[c].next # NULL
            PROVE  g[c].next \in DOMAIN g /\ g[g[c].next].previous = c
        <4>1. CASE c = s
          BY <2>1, <3>4, <4>1 DEF Sound, Tiled
        <4>2. CASE c = b
          BY <2>1, <4>2
        <4>3. CASE c \in DOMAIN h \ {b}
          <5>1. h[c].next \in DOMAIN h /\ h[h[c].next].previous = c /\ h[c].next # h[b].next
            BY <3>4, <4>3 DEF Sound, Tiled
          <5> QED BY <2>1, <4>3, <5>1
        <4> QED BY <2>1, <4>1, <4>2, <4>3
      <3>5. ASSUME NEW c \in DOMAIN g
            PROVE  IF c = 0 THEN g[c].previous = NULL
                   ELSE g[c].previous \in DOMAIN g /\ g[g[c].previous].next = c
        <4>1. CASE c = s
          BY <2>1, <1>0, <4>1
        <4>2. CASE c = b
          BY <2>1, <4>2 DEF Sound, Tiled
        <4>3. CASE c \in DOMAIN h \ {b} /\ c = h[b].next
          <5>1. c # 0
            <6>1. h[b].next = End(h, b)
              BY <4>3, Fields DEF Sound, Tiled, NULL
            <6> QED BY <1>0, <4>3, <6>1 DEF End
          <5> QED BY <2>1, <4>3, <5>1
        <4>4. CASE c \in DOMAIN h \ {b} /\ c # h[b].next
          BY <2>1, <4>4 DEF Sound, Tiled
        <4> QED BY <2>1, <4>1, <4>2, <4>3, <4>4
      <3>6. ASSUME NEW c \in DOMAIN g, NEW d \in DOMAIN g, c < d PROVE End(g, c) <= d
        <4>1. \A a \in DOMAIN h : a \in Int /\ End(h, a) \in Int /\ a < End(h, a)
          BY Fields DEF Sound, End
        <4>2. \A a, e \in DOMAIN h : a < e => End(h, a) <= e
          BY DEF Sound, Tiled
        <4> QED BY <2>1, <3>2, <3>6, <4>1, <4>2, <1>0
      <3> QED BY <3>1, <3>3, <3>4, <3>5, <3>6 DEF Tiled
    <2>11. InUse(g) = InUse(h) /\ Kept(h, g, b)
      <3> HIDE DEF g, s
      <3> QED BY <2>1, <2>4, <2>6, <2>7, <2>8 DEF InUse, Kept
    <2> QED BY <2>1, <2>7, <2>9, <2>10, <2>11 DEF Sound
  <1> QED BY <1>1, <1>2

\* merge_with_next: only a free block disappears, and the block does not shrink.
LEMMA MergeSound ==
  ASSUME NEW h, Sound(h), NEW b \in DOMAIN h
  PROVE  /\ Sound(merge_with_next(h, b)) /\ DOMAIN merge_with_next(h, b) \subseteq DOMAIN h
         /\ InUse(merge_with_next(h, b)) = InUse(h)
         /\ Kept(h, merge_with_next(h, b), b)
         /\ b \in DOMAIN merge_with_next(h, b)
         /\ merge_with_next(h, b)[b].size = IF NextFree(h, b) THEN h[b].size + 1 + h[h[b].next].size
                                            ELSE h[b].size
         /\ merge_with_next(h, b)[b].magic = h[b].magic
         /\ merge_with_next(h, b)[b].previous = h[b].previous
  <1> DEFINE g == merge_with_next(h, b)
             n == h[b].next
             nn == h[n].next
  <1> USE HeapAssumption DEF Addresses
  <1>0. h[b].size \in 0 .. Arena - 1 /\ b \in Addresses
    BY Fields DEF Sound
  <1>1. CASE ~NextFree(h, b)
    BY <1>1 DEF merge_with_next, Kept, InUse
  <1>2. CASE NextFree(h, b)
    <2>1. /\ DOMAIN g = DOMAIN h \ {n}
          /\ g = [c \in DOMAIN g |-> g[c]]
          /\ \A c \in DOMAIN g :
               g[c] = IF c = b THEN [h[b] EXCEPT !.size = @ + 1 + h[n].size, !.next = nn]
                      ELSE IF c = nn THEN [h[c] EXCEPT !.previous = b]
                      ELSE h[c]
      BY <1>2 DEF merge_with_next
    <2>2. /\ n \in DOMAIN h /\ h[n].magic = "free" /\ n # NULL /\ n = End(h, b)
          /\ h[n].previous = b
      BY <1>2 DEF NextFree, Sound, Tiled
    <2>3. /\ n \in Addresses /\ h[n].size \in 0 .. Arena - 1 /\ b < n
          /\ End(h, n) \in Int /\ End(h, n) <= Arena /\ n < End(h, n)
      BY <1>0, <2>2, Fields DEF Sound, Tiled, End
    <2>4. /\ nn = IF End(h, n) = Arena THEN NULL ELSE End(h, n)
          /\ nn # NULL => nn \in DOMAIN h /\ h[nn].previous = n
      BY <2>2 DEF Sound, Tiled
    <2>5. nn # b /\ nn # n
      BY <1>0, <2>3, <2>4 DEF NULL
    <2>6. ASSUME NEW c \in DOMAIN h \ {n} PROVE c <= b \/ End(h, n) <= c
      <3>1. c \in Addresses /\ c # n
        BY Fields DEF Sound
      <3>2. (b < c => n <= c) /\ (n < c => End(h, n) <= c)
        BY <2>2 DEF Sound, Tiled
      <3> QED BY <1>0, <2>3, <3>1, <3>2
    <2>0. b # n /\ b \in DOMAIN g
      <3>1. b # n
        BY <2>3, <1>0
      <3> HIDE DEF g, n
      <3> QED BY <2>1, <3>1
    <2>7. /\ g[b].size = h[b].size + 1 + h[n].size /\ g[b].next = nn
          /\ g[b].magic = h[b].magic /\ g[b].previous = h[b].previous
      <3>1. g[b] = [h[b] EXCEPT !.size = @ + 1 + h[n].size, !.next = nn]
        BY <2>0, <2>1
      <3>2. h[b] \in Headers
        BY DEF Sound, Typed
      <3> HIDE DEF g, n, nn
      <3> QED BY <3>1, <3>2 DEF Headers
    <2>8. ASSUME NEW c \in DOMAIN h \ {b, n}
          PROVE  /\ g[c].size = h[c].size /\ g[c].next = h[c].next /\ g[c].magic = h[c].magic
                 /\ g[c].previous = IF c = nn THEN b ELSE h[c].previous
                 /\ g[c] \in Headers
      <3>1. g[c] = IF c = nn THEN [h[c] EXCEPT !.previous = b] ELSE h[c]
        BY <2>1
      <3>2. h[c] \in Headers
        BY DEF Sound, Typed
      <3> HIDE DEF g, n, nn
      <3> QED BY <1>0, <3>1, <3>2 DEF Headers
    <2>9. Typed(g)
      <3>1. h[b].size + 1 + h[n].size \in 0 .. Arena - 1
        BY <1>0, <2>2, <2>3 DEF End
      <3>2. g[b] = [h[b] EXCEPT !.size = @ + 1 + h[n].size, !.next = nn]
        BY <2>0, <2>1
      <3>3. h[b] \in Headers /\ nn \in Addresses \cup {NULL}
        BY <2>2, Fields DEF Sound, Typed
      <3>4. g[b] \in Headers
        <4> HIDE DEF g, n, nn
        <4> QED BY <3>1, <3>2, <3>3 DEF Headers
      <3> HIDE DEF g, n, nn
      <3> QED BY <2>1, <2>8, <3>4 DEF Typed, Sound
    <2>10. Tiled(g)
      <3>1. /\ End(g, b) = End(h, n)
            /\ \A c \in DOMAIN h \ {b, n} : End(g, c) = End(h, c)
        <4> HIDE DEF g, nn
        <4> QED BY <1>0, <2>2, <2>3, <2>7, <2>8 DEF End
      <3> HIDE DEF g, n, nn
      <3> USE <2>2, <2>3, <2>4, <2>5, <2>7, <2>8
      <3>2. 0 \in DOMAIN g
        BY <2>1, <1>0 DEF Sound, Tiled
      <3>3. ASSUME NEW c \in DOMAIN g
            PROVE  /\ End(g, c) <= Arena
                   /\ g[c].next = IF End(g, c) = Arena THEN NULL ELSE End(g, c)
        <4>1. CASE c = b
          BY <3>1, <4>1 DEF Sound, Tiled
        <4>2. CASE c \in DOMAIN h \ {b, n}
          BY <3>1, <4>2 DEF Sound, Tiled
        <4> QED BY <2>1, <4>1, <4>2
      <3>4. ASSUME NEW c \in DOMAIN g, g[c].next # NULL
            PROVE  g[c].next \in DOMAIN g /\ g[g[c].next].previous = c
        <4>1. CASE c = b
          BY <2>1, <3>4, <4>1
        <4>2. CASE c \in DOMAIN h \ {b, n}
          <5>1. h[c].next \in DOMAIN h /\ h[h[c].next].previous = c
            BY <3>4, <4>2 DEF Sound, Tiled
          <5>2. h[c].next # n /\ h[c].next # nn
            BY <4>2, <5>1, <3>4
          <5> QED BY <2>1, <4>2, <5>1, <5>2
        <4> QED BY <2>1, <4>1, <4>2
      <3>5. ASSUME NEW c \in DOMAIN g
            PROVE  IF c = 0 THEN g[c].previous = NULL
                   ELSE g[c].previous \in DOMAIN g /\ g[g[c].previous].next = c
        <4>0. IF c = 0 THEN h[c].previous = NULL
              ELSE h[c].previous \in DOMAIN h /\ h[h[c].previous].next = c
          BY <2>1 DEF Sound, Tiled
        <4>1. CASE c = b
          <5>1. c # 0 => h[c].previous # b /\ h[c].previous # n
            BY <2>0, <2>5, <4>0, <4>1 DEF n, nn
          <5> QED BY <2>1, <4>0, <4>1, <5>1
        <4>2. CASE c \in DOMAIN h \ {b, n} /\ c = nn
          <5>1. c # 0
            <6>1. c \in Addresses /\ c # NULL
              BY <4>2 DEF Sound, Typed, NULL
            <6>2. c = End(h, n)
              BY <2>4, <4>2, <6>1
            <6> QED BY <1>0, <2>3, <6>2
          <5> QED BY <2>0, <2>1, <4>2, <5>1
        <4>3. CASE c \in DOMAIN h \ {b, n} /\ c # nn
          <5>1. c # 0 => h[c].previous # b /\ h[c].previous # n
            BY <4>0, <4>3 DEF n, nn
          <5> QED BY <2>1, <4>0, <4>3, <5>1
        <4> QED BY <2>1, <4>1, <4>2, <4>3
      <3>6. ASSUME NEW c \in DOMAIN g, NEW d \in DOMAIN g, c < d PROVE End(g, c) <= d
        <4>1. \A a \in DOMAIN h : a \in Int /\ End(h, a) \in Int /\ a < End(h, a)
          BY Fields DEF Sound, End
        <4>2. \A a, e \in DOMAIN h : a < e => End(h, a) <= e
          BY DEF Sound, Tiled
        <4> QED BY <2>1, <2>6, <3>1, <3>6, <4>1, <4>2, <1>0
      <3> QED BY <3>2, <3>3, <3>4, <3>5, <3>6 DEF Tiled
    <2>11. InUse(g) = InUse(h) /\ Kept(h, g, b)
      <3> HIDE DEF g, n, nn
      <3> QED BY <2>1, <2>2, <2>3, <2>7, <2>8 DEF InUse, Kept
    <2> HIDE DEF g
    <2> QED BY <1>2, <2>1, <2>3, <2>7, <2>9, <2>10, <2>11 DEF Sound, g
  <1> QED BY <1>1, <1>2

-----------------------------------------------------------------------------
(* Freeing.                                                                *)

\* ef2_free: of the blocks in use, only the freed one leaves.
LEMMA FreedSound ==
  ASSUME NEW h, Sound(h), NEW b \in DOMAIN h
  PROVE  /\ Sound(Freed(h, b)) /\ DOMAIN Freed(h, b) \subseteq DOMAIN h
         /\ InUse(Freed(h, b)) = InUse(h) \ {b}
         /\ Kept(h, Freed(h, b), b)
  <1> DEFINE marked == Mark(h, b, "free")
             merged == merge_with_next(marked, b)
             before == merged[b].previous
  <1>1. /\ Sound(marked) /\ DOMAIN marked = DOMAIN h /\ InUse(marked) = InUse(h) \ {b}
        /\ Kept(h, marked, b)
    <2>1. /\ Sound(marked) /\ DOMAIN marked = DOMAIN h
          /\ \A c \in DOMAIN h : /\ marked[c].size = h[c].size
                                 /\ marked[c].magic = IF c = b THEN "free" ELSE h[c].magic
      BY MarkSound
    <2> HIDE DEF marked
    <2> QED BY <2>1 DEF InUse, Kept
  <1>2. /\ Sound(merged) /\ DOMAIN merged \subseteq DOMAIN h /\ b \in DOMAIN merged
        /\ InUse(merged) = InUse(h) \ {b} /\ Kept(marked, merged, b)
        /\ merged[b].magic = "free"
    <2> HIDE DEF marked
    <2>1. marked[b].magic = "free"
      BY MarkSound DEF marked
    <2> QED BY <1>1, <2>1, MergeSound
  <1>3. Kept(h, merged, b)
    BY <1>1, <1>2 DEF Kept
  <1>4. CASE ~(before # NULL /\ merged[before].magic = "free")
    <2>1. Freed(h, b) = merged
      BY <1>4 DEF Freed
    <2> QED BY <1>2, <1>3, <2>1
  <1>5. CASE before # NULL /\ merged[before].magic = "free"
    <2>1. Freed(h, b) = merge_with_next(merged, before)
      BY <1>5 DEF Freed
    <2> HIDE DEF marked, merged
    <2>2. before \in DOMAIN merged
      BY <1>2, <1>5 DEF Sound, Tiled
    <2>3. /\ Sound(Freed(h, b)) /\ DOMAIN Freed(h, b) \subseteq DOMAIN merged
          /\ InUse(Freed(h, b)) = InUse(merged) /\ Kept(merged, Freed(h, b), before)
      BY <1>2, <2>1, <2>2, MergeSound
    <2>4. Kept(h, Freed(h, b), b)
      BY <1>2, <1>3, <1>5, <2>3 DEF Kept
    <2> QED BY <1>2, <2>3, <2>4
  <1> QED BY <1>4, <1>5
-----------------------------------------------------------------------------
(* The inductive invariant.                                                *)

\* None of the four invariants is inductive alone: that a pointer a client holds
\* leads to a header needs LiveBlocks, that its neighbours are headers BlocksTile.
HeapInv == TypeOK /\ BlocksTile /\ LiveBlocks /\ LargeEnough /\ IsFiniteSet(DOMAIN asked)

\* What the invariant says of a pointer a client holds.
LEMMA Held ==
  ASSUME HeapInv, NEW p \in DOMAIN asked
  PROVE  /\ p \in Nat /\ p - 1 \in DOMAIN heap /\ heap[p - 1].magic = "alloc"
         /\ asked[p] \in Sizes /\ asked[p] \in Nat /\ asked[p] >= 1
  <1>1. asked[p] \in Sizes /\ p \in Nat
    BY DEF HeapInv, TypeOK, Addresses
  <1>2. asked[p] \in Nat /\ asked[p] >= 1
    <2>1. asked[p] \in 1 .. Words
      BY <1>1, HeapAssumption
    <2> QED BY <2>1, HeapAssumption
  <1> QED BY <1>1, <1>2 DEF HeapInv, LiveBlocks

\* A first fit is a free block that is large enough.
LEMMA Fit ==
  ASSUME NEW b, NEW wanted, FirstFit(b, wanted)
  PROVE  b \in DOMAIN heap /\ heap[b].magic = "free" /\ heap[b].size >= wanted
  BY DEF FirstFit

\* Taking it adds just that block to those in use.
LEMMA TakenSound ==
  ASSUME Sound(heap), NEW wanted \in Nat, NEW b, FirstFit(b, wanted)
  PROVE  /\ Sound(Taken(b, wanted)) /\ DOMAIN heap \subseteq DOMAIN Taken(b, wanted)
         /\ InUse(Taken(b, wanted)) = InUse(heap) \cup {b} /\ b \notin InUse(heap)
         /\ Kept(heap, Taken(b, wanted), b)
         /\ Taken(b, wanted)[b].size >= wanted
  <1> DEFINE split == split_block(heap, b, wanted)
  <1>1. b \in DOMAIN heap /\ heap[b].magic = "free" /\ heap[b].size >= wanted
    BY Fit
  <1>2. /\ Sound(split) /\ DOMAIN heap \subseteq DOMAIN split /\ InUse(split) = InUse(heap)
        /\ Kept(heap, split, b) /\ split[b].size >= wanted
    <2>1. heap[b].size \in Int
      BY <1>1, Fields DEF Sound
    <2> QED BY <1>1, <2>1, SplitSound
  <1> HIDE DEF split
  <1>3. Taken(b, wanted) = Mark(split, b, "alloc")
    BY DEF Taken, split
  <1>4. /\ Sound(Taken(b, wanted)) /\ DOMAIN Taken(b, wanted) = DOMAIN split
        /\ \A c \in DOMAIN split : /\ Taken(b, wanted)[c].size = split[c].size
                                   /\ Taken(b, wanted)[c].magic = IF c = b THEN "alloc"
                                                                  ELSE split[c].magic
    BY <1>1, <1>2, <1>3, MarkSound
  <1>5. InUse(Taken(b, wanted)) = InUse(heap) \cup {b} /\ b \notin InUse(heap)
    BY <1>1, <1>2, <1>4 DEF InUse
  <1>6. Kept(heap, Taken(b, wanted), b)
    BY <1>2, <1>4 DEF Kept
  <1>7. Taken(b, wanted)[b].size >= wanted
    BY <1>1, <1>2, <1>4
  <1> QED BY <1>2, <1>4, <1>5, <1>6, <1>7

-----------------------------------------------------------------------------
(* One lemma per operation.                                                *)

\* What memory holds stays of its type, whatever is written.
LEMMA MemTyped ==
  ASSUME NEW m \in [Addresses -> Contents \cup {Junk}], NEW x \in Contents
  PROVE  /\ \A h : mem \in [Addresses -> Contents \cup {Junk}] =>
              Headed(h) \in [Addresses -> Contents \cup {Junk}]
         /\ \A a, n \in Int : Filled(m, a, n, x) \in [Addresses -> Contents \cup {Junk}]
         /\ \A from, to, n \in Int : from .. from + n - 1 \subseteq Addresses =>
              Copied(m, from, to, n) \in [Addresses -> Contents \cup {Junk}]
  <1>1. ASSUME NEW from \in Int, NEW to \in Int, NEW n \in Int, from .. from + n - 1 \subseteq Addresses,
               NEW d \in Addresses, d \in to .. to + n - 1
        PROVE  m[d + from - to] \in Contents \cup {Junk}
    <2>1. d + from - to \in from .. from + n - 1
      BY <1>1 DEF Addresses
    <2> QED BY <1>1, <2>1
  <1> QED BY <1>1 DEF Headed, Filled, Copied

\* The invariant after a step that lets the pointers of P go, takes block b for
\* a request of r, and touches no other block.
LEMMA Settled ==
  ASSUME HeapInv, Sound(heap'), NEW P, P \subseteq DOMAIN asked, NEW b \in DOMAIN heap, NEW r \in Sizes,
         b \notin InUse(heap) \/ b + 1 \in P,
         InUse(heap') = (InUse(heap) \ {p - 1 : p \in P}) \cup {b},
         \A c \in InUse(heap) : c # b /\ c + 1 \notin P => heap'[c].size = heap[c].size,
         r # Words => heap'[b].size >= r, b + 1 \in Addresses,
         asked' = [q \in (DOMAIN asked \ P) \cup {b + 1} |-> IF q = b + 1 THEN r ELSE asked[q]],
         active' = active + 1 - Cardinality(P),
         mem' \in [Addresses -> Contents \cup {Junk}]
  PROVE  HeapInv'
  <1> USE HeapAssumption
  <1>1. IsFiniteSet(DOMAIN asked) /\ IsFiniteSet(P) /\ IsFiniteSet(DOMAIN asked \ P)
    BY FS_Subset DEF HeapInv
  <1>2. DOMAIN asked' = (DOMAIN asked \ P) \cup {b + 1} /\ IsFiniteSet(DOMAIN asked')
    BY <1>1, FS_AddElement
  <1>3. b + 1 \notin DOMAIN asked \ P
    <2>1. CASE b + 1 \in P
      BY <2>1
    <2>2. CASE b \notin InUse(heap)
      <3>1. ASSUME b + 1 \in DOMAIN asked PROVE FALSE
        <4>1. (b + 1) - 1 \in InUse(heap)
          BY <3>1, Held DEF InUse
        <4>2. (b + 1) - 1 = b
          BY DEF HeapInv, TypeOK, Addresses
        <4> QED BY <2>2, <4>1, <4>2
      <3> QED BY <3>1
    <2> QED BY <2>1, <2>2
  <1>4. active' = Cardinality(DOMAIN asked')
    <2>1. Cardinality(DOMAIN asked \ P) = Cardinality(DOMAIN asked) - Cardinality(P)
      <3>1. DOMAIN asked \cap P = P
        OBVIOUS
      <3>2. Cardinality(DOMAIN asked \ P) = Cardinality(DOMAIN asked) - Cardinality(DOMAIN asked \cap P)
        BY <1>1, FS_Difference
      <3> QED BY <3>1, <3>2
    <2>2. Cardinality(DOMAIN asked') = Cardinality(DOMAIN asked \ P) + 1
      BY <1>1, <1>2, <1>3, FS_AddElement
    <2>3. Cardinality(DOMAIN asked) \in Nat /\ Cardinality(P) \in Nat
      BY <1>1, FS_CardinalityType
    <2> QED BY <2>1, <2>2, <2>3 DEF HeapInv, LiveBlocks
  <1>5. {c \in DOMAIN heap' : heap'[c].magic = "alloc"} = {p - 1 : p \in DOMAIN asked'}
    <2>1. InUse(heap) = {p - 1 : p \in DOMAIN asked}
      BY DEF HeapInv, LiveBlocks, InUse
    <2>2. \A p \in DOMAIN asked : p \in Int
      BY DEF HeapInv, TypeOK, Addresses
    <2>3. {p - 1 : p \in DOMAIN asked} \ {p - 1 : p \in P} = {p - 1 : p \in DOMAIN asked \ P}
      BY <2>2
    <2>4. {p - 1 : p \in DOMAIN asked'} = {p - 1 : p \in DOMAIN asked \ P} \cup {b}
      <3>1. (b + 1) - 1 = b
        BY DEF HeapInv, TypeOK, Addresses
      <3> QED BY <1>2, <3>1
    <2> QED BY <2>1, <2>3, <2>4 DEF InUse
  <1>6. LargeEnough'
    <2>1. ASSUME NEW q \in DOMAIN asked', asked'[q] # Words PROVE asked'[q] <= heap'[q - 1].size
      <3>1. CASE q = b + 1
        <4>1. q - 1 = b /\ asked'[q] = r
          BY <3>1, <1>2 DEF HeapInv, TypeOK, Addresses
        <4> QED BY <2>1, <4>1
      <3>2. CASE q # b + 1
        <4>1. q \in DOMAIN asked \ P /\ asked'[q] = asked[q]
          BY <1>2, <3>2
        <4>2. q - 1 \in InUse(heap) /\ q \in Int /\ q - 1 # b /\ (q - 1) + 1 \notin P
          BY <3>2, <4>1, Held DEF InUse, Addresses
        <4>3. heap'[q - 1].size = heap[q - 1].size
          BY <4>2
        <4>4. asked[q] <= heap[q - 1].size
          BY <2>1, <4>1 DEF HeapInv, LargeEnough
        <4> QED BY <4>1, <4>3, <4>4
      <3> QED BY <3>1, <3>2
    <2> QED BY <2>1 DEF LargeEnough
  <1>7. TypeOK'
    <2>1. active' \in Nat
      BY <1>2, <1>4, FS_CardinalityType
    <2>2. DOMAIN asked' \subseteq Addresses /\ asked' \in [DOMAIN asked' -> Sizes]
      BY <1>2 DEF HeapInv, TypeOK
    <2> QED BY <2>1, <2>2 DEF TypeOK, Sound, Typed
  <1> QED BY <1>2, <1>4, <1>5, <1>6, <1>7 DEF HeapInv, LiveBlocks, BlocksTile, Sound

\* The list is sound in every state of the invariant.
LEMMA SoundHeap == HeapInv => Sound(heap)
  BY DEF HeapInv, TypeOK, BlocksTile, Sound, Typed

\* A block of at least one unit has its payload in the arena.
LEMMA PayloadFits ==
  ASSUME NEW h, Sound(h), NEW b \in DOMAIN h
  PROVE  /\ b + 1 \in Nat /\ b + h[b].size < Arena
         /\ h[b].size >= 1 => b + 1 \in Addresses
         /\ \A n \in Nat : n <= h[b].size => b + 1 .. b + n \subseteq Addresses
  <1>1. /\ b \in Addresses /\ h[b].size \in 0 .. Arena - 1 /\ b + 1 + h[b].size <= Arena
    BY Fields DEF Sound, Tiled, End
  <1> QED BY <1>1, HeapAssumption DEF Addresses

\* malloc and calloc.
LEMMA MallocStep ==
  ASSUME HeapInv, NEW r \in Sizes, NEW x \in Contents, ef2_malloc(r, x) PROVE HeapInv'
  <1> DEFINE wanted == align_up(r)
  <1>1. r # Words /\ wanted = r /\ r \in Nat /\ r >= 1
    BY AlignFacts, HeapAssumption DEF ef2_malloc
  <1> HIDE DEF wanted
  <1>2. PICK b \in DOMAIN heap :
          /\ FirstFit(b, wanted) /\ heap' = Taken(b, wanted)
          /\ mem' = Filled(Headed(heap'), b + 1, r, x)
          /\ asked' = [q \in DOMAIN asked \cup {b + 1} |-> IF q = b + 1 THEN r ELSE asked[q]]
          /\ active' = active + 1
    BY DEF ef2_malloc, wanted
  <1>3. /\ Sound(heap') /\ InUse(heap') = InUse(heap) \cup {b} /\ b \notin InUse(heap)
        /\ Kept(heap, heap', b) /\ heap'[b].size >= r /\ DOMAIN heap \subseteq DOMAIN heap'
    BY <1>1, <1>2, SoundHeap, TakenSound
  <1>4. b + 1 \in Addresses /\ b + 1 \in Int
    <2>1. b \in DOMAIN heap' /\ heap'[b].size \in Int
      BY <1>3, Fields DEF Sound
    <2> QED BY <1>1, <1>3, <2>1, PayloadFits
  <1>5. mem' \in [Addresses -> Contents \cup {Junk}]
    <2>1. Headed(heap') \in [Addresses -> Contents \cup {Junk}]
      BY MemTyped DEF HeapInv, TypeOK
    <2> QED BY <1>1, <1>2, <1>4, <2>1, MemTyped
  <1>6. Cardinality({}) = 0 /\ active \in Nat
    BY FS_EmptySet DEF HeapInv, TypeOK
  <1>7. active' = active + 1 - Cardinality({})
    BY <1>2, <1>6
  <1>8. \A c \in InUse(heap) : c # b => heap'[c].size = heap[c].size
    BY <1>3 DEF Kept, InUse
  <1>9. /\ InUse(heap') = (InUse(heap) \ {q - 1 : q \in {}}) \cup {b}
        /\ asked' = [q \in (DOMAIN asked \ {}) \cup {b + 1} |-> IF q = b + 1 THEN r ELSE asked[q]]
    BY <1>2, <1>3
  <1> QED BY <1>3, <1>4, <1>5, <1>7, <1>8, <1>9, Settled

\* free.
LEMMA FreeStep == ASSUME HeapInv, NEW p \in DOMAIN asked, ef2_free(p) PROVE HeapInv'
  <1>1. p \in Nat /\ p - 1 \in DOMAIN heap
    BY Held
  <1>2. /\ Sound(heap') /\ InUse(heap') = InUse(heap) \ {p - 1} /\ Kept(heap, heap', p - 1)
    BY <1>1, SoundHeap, FreedSound DEF ef2_free
  <1>3. /\ DOMAIN asked' = DOMAIN asked \ {p} /\ \A q \in DOMAIN asked' : asked'[q] = asked[q]
        /\ mem' = mem
    BY DEF ef2_free
  <1>4. IsFiniteSet(DOMAIN asked') /\ active' = Cardinality(DOMAIN asked')
    <2>1. /\ Cardinality(DOMAIN asked \ {p}) = Cardinality(DOMAIN asked) - 1
          /\ Cardinality(DOMAIN asked) \in Nat
      BY FS_RemoveElement, FS_CardinalityType DEF HeapInv
    <2>2. Cardinality(DOMAIN asked) # 0
      BY FS_EmptySet DEF HeapInv
    <2> QED BY <1>3, <2>1, <2>2, FS_RemoveElement DEF HeapInv, LiveBlocks, ef2_free
  <1>5. {c \in DOMAIN heap' : heap'[c].magic = "alloc"} = {q - 1 : q \in DOMAIN asked'}
    <2>1. InUse(heap) = {q - 1 : q \in DOMAIN asked} /\ \A q \in DOMAIN asked : q \in Int
      BY DEF HeapInv, LiveBlocks, InUse, TypeOK, Addresses
    <2>2. {q - 1 : q \in DOMAIN asked} \ {p - 1} = {q - 1 : q \in DOMAIN asked \ {p}}
      BY <1>1, <2>1
    <2> QED BY <1>2, <1>3, <2>1, <2>2 DEF InUse
  <1>6. LargeEnough'
    <2>1. ASSUME NEW q \in DOMAIN asked' PROVE heap'[q - 1].size = heap[q - 1].size
      BY <1>1, <1>2, <1>3, Held DEF Kept
    <2> QED BY <1>3, <2>1 DEF LargeEnough, HeapInv
  <1>7. TypeOK'
    <2>1. asked' \in [DOMAIN asked' -> Sizes] /\ DOMAIN asked' \subseteq Addresses
      BY <1>3 DEF HeapInv, TypeOK, ef2_free
    <2>2. active' \in Nat
      BY <1>4, FS_CardinalityType
    <2> QED BY <1>2, <1>3, <2>1, <2>2 DEF HeapInv, TypeOK, Sound, Typed
  <1> QED BY <1>2, <1>4, <1>5, <1>6, <1>7 DEF HeapInv, LiveBlocks, BlocksTile, Sound

\* The invariant after a realloc that leaves the block where it is.
LEMMA SettledInPlace ==
  ASSUME HeapInv, NEW p \in DOMAIN asked, NEW r \in Sizes, Sound(heap'),
         InUse(heap') = InUse(heap), Kept(heap, heap', p - 1),
         r # Words => heap'[p - 1].size >= r,
         Resized(p, r), active' = active,
         mem' \in [Addresses -> Contents \cup {Junk}]
  PROVE  HeapInv'
  <1> DEFINE b == p - 1
  <1>1. p \in Nat /\ b \in DOMAIN heap /\ b \in InUse(heap) /\ b + 1 = p /\ p \in Addresses
    BY Held DEF InUse, HeapInv, TypeOK
  <1>2. active \in Nat /\ Cardinality({p}) = 1
    BY FS_Singleton DEF HeapInv, TypeOK
  <1>3. active' = active + 1 - Cardinality({p})
    BY <1>2
  <1>4. InUse(heap') = (InUse(heap) \ {q - 1 : q \in {p}}) \cup {b}
    BY <1>1
  <1>5. asked' = [q \in (DOMAIN asked \ {p}) \cup {b + 1} |-> IF q = b + 1 THEN r ELSE asked[q]]
    <2>1. asked' = [asked EXCEPT ![p] = r] /\ (DOMAIN asked \ {p}) \cup {b + 1} = DOMAIN asked
      BY <1>1 DEF Resized
    <2> QED BY <1>1, <2>1
  <1>6. \A c \in InUse(heap) : c # b => heap'[c].size = heap[c].size
    BY DEF Kept, InUse
  <1> HIDE DEF b
  <1>7. b + 1 \in {p} /\ b + 1 \in Addresses /\ {p} \subseteq DOMAIN asked
    BY <1>1
  <1>8. r # Words => heap'[b].size >= r
    BY DEF b
  <1> QED BY <1>1, <1>3, <1>4, <1>5, <1>6, <1>7, <1>8, Settled

\* What in-place growth and shrinking write.
LEMMA FilledTyped ==
  ASSUME HeapInv, NEW h, NEW p \in DOMAIN asked, NEW n \in Int, NEW x \in Contents
  PROVE  Filled(Headed(h), p + asked[p], n, x) \in [Addresses -> Contents \cup {Junk}]
  <1>1. p + asked[p] \in Int
    BY Held
  <1>2. Headed(h) \in [Addresses -> Contents \cup {Junk}]
    BY MemTyped DEF HeapInv, TypeOK
  <1> QED BY <1>1, <1>2, MemTyped

\* realloc within the block.
LEMMA ReallocInBlockStep ==
  ASSUME HeapInv, NEW p \in DOMAIN asked, NEW r \in Sizes, NEW x \in Contents,
         ReallocInBlock(p, r, x)
  PROVE  HeapInv'
  <1> DEFINE wanted == align_up(r)
  <1>1. /\ wanted \in Nat /\ r \in Nat /\ (r # Words => wanted = r)
        /\ p - 1 \in DOMAIN heap /\ asked[p] \in Int
    <2>1. r \in Nat
      BY HeapAssumption
    <2> QED BY <2>1, AlignFacts, Held
  <1> HIDE DEF wanted
  <1>2. /\ wanted <= heap[p - 1].size /\ heap' = split_block(heap, p - 1, wanted)
        /\ mem' = Filled(Headed(heap'), p + asked[p], wanted - asked[p], x)
        /\ Resized(p, r) /\ active' = active
    BY DEF ReallocInBlock, wanted
  <1>3. /\ Sound(heap') /\ InUse(heap') = InUse(heap) /\ Kept(heap, heap', p - 1)
        /\ heap'[p - 1].size >= wanted
    BY <1>1, <1>2, SoundHeap, SplitSound
  <1>4. mem' \in [Addresses -> Contents \cup {Junk}]
    <2>1. wanted - asked[p] \in Int
      BY <1>1
    <2> QED BY <1>2, <2>1, FilledTyped
  <1> QED BY <1>1, <1>2, <1>3, <1>4, SettledInPlace

\* Growing into the next block leaves the block in place with what is wanted.
LEMMA GrowSound ==
  ASSUME Sound(heap), NEW b \in DOMAIN heap, heap[b].magic = "alloc", NEW wanted \in Nat,
         CanGrow(b, wanted),
         heap' = Mark(split_block(merge_with_next(heap, b), b, wanted), b, "alloc")
  PROVE  /\ Sound(heap') /\ InUse(heap') = InUse(heap) /\ Kept(heap, heap', b)
         /\ heap'[b].size >= wanted
  <1> DEFINE merged == merge_with_next(heap, b)
             split == split_block(merged, b, wanted)
  <1>1. /\ Sound(merged) /\ InUse(merged) = InUse(heap) /\ Kept(heap, merged, b)
        /\ b \in DOMAIN merged /\ merged[b].size >= wanted /\ merged[b].magic = "alloc"
    BY MergeSound DEF CanGrow
  <1> HIDE DEF merged
  <1>2. /\ Sound(split) /\ InUse(split) = InUse(heap) /\ Kept(merged, split, b)
        /\ DOMAIN merged \subseteq DOMAIN split
        /\ split[b].size >= wanted
    BY <1>1, SplitSound
  <1> HIDE DEF split
  <1>3. heap' = Mark(split, b, "alloc") /\ b \in DOMAIN split
    BY <1>1, <1>2 DEF split, merged
  <1>4. /\ Sound(heap') /\ DOMAIN heap' = DOMAIN split
        /\ \A c \in DOMAIN split : /\ heap'[c].size = split[c].size
                                   /\ heap'[c].magic = IF c = b THEN "alloc" ELSE split[c].magic
    <2> DEFINE marked == Mark(split, b, "alloc")
    <2>1. /\ Sound(marked) /\ DOMAIN marked = DOMAIN split
          /\ \A c \in DOMAIN split : /\ marked[c].size = split[c].size
                                     /\ marked[c].magic = IF c = b THEN "alloc" ELSE split[c].magic
      <3>1. Sound(split) /\ b \in DOMAIN split
        BY <1>2, <1>3
      <3> QED BY <3>1, MarkSound
    <2>2. heap' = marked
      BY <1>3
    <2> HIDE DEF marked
    <2> QED BY <2>1, <2>2
  <1>5. b \in InUse(heap)
    BY DEF InUse
  <1>6. InUse(heap') = InUse(heap)
    BY <1>2, <1>3, <1>4, <1>5 DEF InUse
  <1>7. Kept(heap, heap', b)
    BY <1>1, <1>2, <1>4 DEF Kept
  <1> QED BY <1>2, <1>3, <1>4, <1>6, <1>7

\* realloc into the next block.
LEMMA ReallocGrowStep ==
  ASSUME HeapInv, NEW p \in DOMAIN asked, NEW r \in Sizes, NEW x \in Contents,
         ReallocGrow(p, r, x)
  PROVE  HeapInv'
  <1> DEFINE wanted == align_up(r)
  <1>1. /\ wanted \in Nat /\ r \in Nat /\ (r # Words => wanted = r)
        /\ p - 1 \in DOMAIN heap /\ asked[p] \in Int /\ heap[p - 1].magic = "alloc"
    <2>1. r \in Nat
      BY HeapAssumption
    <2> QED BY <2>1, AlignFacts, Held
  <1> HIDE DEF wanted
  <1>2. /\ CanGrow(p - 1, wanted)
        /\ heap' = Mark(split_block(merge_with_next(heap, p - 1), p - 1, wanted), p - 1, "alloc")
        /\ mem' = Filled(Headed(heap'), p + asked[p], r - asked[p], x)
        /\ Resized(p, r) /\ active' = active
    BY DEF ReallocGrow, wanted
  <1>3. /\ Sound(heap') /\ InUse(heap') = InUse(heap) /\ Kept(heap, heap', p - 1)
        /\ heap'[p - 1].size >= wanted
    BY <1>1, <1>2, SoundHeap, GrowSound
  <1>4. mem' \in [Addresses -> Contents \cup {Junk}]
    BY <1>1, <1>2, FilledTyped
  <1> QED BY <1>1, <1>2, <1>3, <1>4, SettledInPlace

\* realloc to a new block.
LEMMA ReallocMoveStep ==
  ASSUME HeapInv, NEW p \in DOMAIN asked, NEW r \in Sizes, NEW x \in Contents,
         ReallocMove(p, r, x)
  PROVE  HeapInv'
  <1> DEFINE wanted == align_up(r)
             old == heap[p - 1].size
  <1>1. /\ wanted \in Nat /\ r \in Nat /\ (r # Words => wanted = r) /\ (r = Words => wanted = 0)
        /\ p \in Nat /\ p - 1 \in DOMAIN heap /\ asked[p] \in Int /\ p - 1 \in InUse(heap)
    BY AlignFacts, Held, HeapAssumption DEF InUse
  <1>2. old \in Nat /\ wanted > old
    BY <1>1, SoundHeap, Fields DEF ReallocMove, Sound
  <1>3. r # Words /\ r >= 1
    BY <1>1, <1>2
  <1> HIDE DEF wanted, old
  <1>4. PICK b \in DOMAIN heap :
          /\ FirstFit(b, wanted) /\ heap' = Freed(Taken(b, wanted), p - 1)
          /\ mem' = Filled(Copied(Headed(Taken(b, wanted)), p, b + 1, old),
                           b + 1 + asked[p], r - asked[p], x)
          /\ asked' = [q \in (DOMAIN asked \ {p}) \cup {b + 1} |-> IF q = b + 1 THEN r ELSE asked[q]]
    BY DEF ReallocMove, wanted, old
  <1> DEFINE taken == Taken(b, wanted)
  <1>5. /\ Sound(taken) /\ DOMAIN heap \subseteq DOMAIN taken
        /\ InUse(taken) = InUse(heap) \cup {b} /\ b \notin InUse(heap)
        /\ Kept(heap, taken, b) /\ taken[b].size >= r
    BY <1>1, <1>3, <1>4, SoundHeap, TakenSound
  <1> HIDE DEF taken
  <1>6. /\ Sound(heap') /\ InUse(heap') = InUse(taken) \ {p - 1} /\ Kept(taken, heap', p - 1)
    BY <1>1, <1>4, <1>5, FreedSound DEF taken
  <1>7. p - 1 # b /\ b \in InUse(taken)
    BY <1>1, <1>5
  <1>8. heap'[b].size >= r
    BY <1>5, <1>6, <1>7 DEF Kept, InUse
  <1>9. \A c \in InUse(heap) : c # b /\ c # p - 1 => heap'[c].size = heap[c].size
    BY <1>5, <1>6 DEF Kept, InUse
  <1>10. b + 1 \in Addresses /\ b + 1 \in Int
    <2>1. b \in DOMAIN taken /\ taken[b].size \in Int
      BY <1>5, Fields DEF Sound
    <2> QED BY <1>3, <1>1, <1>5, <2>1, PayloadFits
  <1>11. mem' \in [Addresses -> Contents \cup {Junk}]
    <2>1. p .. p + old - 1 \subseteq Addresses
      BY <1>1, <1>2, SoundHeap, PayloadFits DEF old, Addresses
    <2>2. Headed(taken) \in [Addresses -> Contents \cup {Junk}]
      BY MemTyped DEF HeapInv, TypeOK
    <2>3. Copied(Headed(taken), p, b + 1, old) \in [Addresses -> Contents \cup {Junk}]
      BY <1>1, <1>2, <1>10, <2>1, <2>2, MemTyped
    <2>4. b + 1 + asked[p] \in Int /\ r - asked[p] \in Int
      BY <1>1, <1>10
    <2> QED BY <1>4, <2>3, <2>4, MemTyped DEF taken
  <1>12. active' = active + 1 - Cardinality({p})
    <2>1. Cardinality({p}) = 1 /\ active \in Nat /\ active' = active
      BY FS_Singleton DEF HeapInv, TypeOK, ReallocMove
    <2> QED BY <2>1
  <1>13. InUse(heap') = (InUse(heap) \ {q - 1 : q \in {p}}) \cup {b}
    BY <1>5, <1>6, <1>7
  <1>14. \A c \in InUse(heap) : c # b /\ c + 1 \notin {p} => heap'[c].size = heap[c].size
    BY <1>1, <1>9
  <1>15. {p} \subseteq DOMAIN asked
    OBVIOUS
  <1> QED BY <1>4, <1>5, <1>6, <1>8, <1>10, <1>11, <1>12, <1>13, <1>14, <1>15, Settled
-----------------------------------------------------------------------------
(* The theorems.                                                           *)

\* The invariant holds in every state.
LEMMA HeapInductive == Spec => []HeapInv
  <1>1. Init => HeapInv
    <2> SUFFICES ASSUME Init PROVE HeapInv
      OBVIOUS
    <2> USE HeapAssumption DEF Init, Addresses, NULL
    <2>1. TypeOK
      BY DEF TypeOK, Headers, Block
    <2>2. BlocksTile
      BY DEF BlocksTile, Tiled, Block, End
    <2>3. LiveBlocks /\ IsFiniteSet(DOMAIN asked)
      BY FS_EmptySet DEF LiveBlocks, Block
    <2>4. LargeEnough
      BY DEF LargeEnough
    <2> QED BY <2>1, <2>2, <2>3, <2>4 DEF HeapInv
  <1>2. HeapInv /\ [Next]_vars => HeapInv'
    <2>1. ASSUME HeapInv, Next PROVE HeapInv'
      BY <2>1, MallocStep, FreeStep, ReallocInBlockStep, ReallocGrowStep, ReallocMoveStep
      DEF Next, ef2_realloc
    <2>2. HeapInv /\ UNCHANGED vars => HeapInv'
      BY DEF HeapInv, TypeOK, BlocksTile, LiveBlocks, LargeEnough, vars
    <2> QED BY <2>1, <2>2
  <1> QED BY <1>1, <1>2, PTL DEF Spec

\* Types, for every arena and set of requests; in particular no size, address or
\* counter of the list leaves the arena.
THEOREM HeapTypeCorrect == Spec => []TypeOK
  <1>1. HeapInv => TypeOK
    BY DEF HeapInv
  <1> QED BY <1>1, HeapInductive, PTL

\* After any sequence of malloc, calloc, realloc and free, in any arena, the
\* headers and payloads tile the arena and the links of the list agree.
THEOREM BlocksAlwaysTile == Spec => []BlocksTile
  <1>1. HeapInv => BlocksTile
    BY DEF HeapInv
  <1> QED BY <1>1, HeapInductive, PTL

\* The blocks in use are exactly those clients hold, and g_heap_active counts them.
THEOREM HeldAreInUse == Spec => []LiveBlocks
  <1>1. HeapInv => LiveBlocks
    BY DEF HeapInv
  <1> QED BY <1>1, HeapInductive, PTL

\* Unless realloc wrapped its size, a block in use is as large as was asked.
THEOREM BlocksLargeEnough == Spec => []LargeEnough
  <1>1. HeapInv => LargeEnough
    BY DEF HeapInv
  <1> QED BY <1>1, HeapInductive, PTL

-----------------------------------------------------------------------------
(* The heap implements Allocator.                                          *)

\* Every pointer of a is the payload of a block at least as large as a says.
Bounded(h, a) ==
  /\ Sound(h) /\ DOMAIN a \subseteq Addresses
  /\ \A p \in DOMAIN a : /\ p - 1 \in DOMAIN h /\ a[p] \in Nat /\ a[p] >= 1
                         /\ a[p] <= h[p - 1].size

\* The invariant bounds what clients hold, when no request wraps.
LEMMA InvBounded ==
  ASSUME Words \notin Sizes
  PROVE  (HeapInv => Bounded(heap, asked)) /\ (HeapInv' => Bounded(heap', asked'))
  <1>1. ASSUME NEW r \in Sizes PROVE r \in Nat /\ r >= 1 /\ r # Words
    BY HeapAssumption
  <1>2. ASSUME HeapInv PROVE Bounded(heap, asked)
    <2>1. Sound(heap) /\ DOMAIN asked \subseteq Addresses
      BY <1>2, SoundHeap DEF HeapInv, TypeOK
    <2>2. ASSUME NEW p \in DOMAIN asked
          PROVE  /\ p - 1 \in DOMAIN heap /\ asked[p] \in Sizes
                 /\ asked[p] # Words => asked[p] <= heap[p - 1].size
      BY <1>2 DEF HeapInv, LiveBlocks, LargeEnough, TypeOK
    <2> QED BY <1>1, <2>1, <2>2 DEF Bounded
  <1>3. ASSUME HeapInv' PROVE Bounded(heap', asked')
    <2>1. Sound(heap') /\ DOMAIN asked' \subseteq Addresses
      BY <1>3 DEF HeapInv, TypeOK, BlocksTile, Sound, Typed
    <2>2. ASSUME NEW p \in DOMAIN asked'
          PROVE  /\ p - 1 \in DOMAIN heap' /\ asked'[p] \in Sizes
                 /\ asked'[p] # Words => asked'[p] <= heap'[p - 1].size
      BY <1>3 DEF HeapInv, LiveBlocks, LargeEnough, TypeOK
    <2> QED BY <1>1, <2>1, <2>2 DEF Bounded
  <1> QED BY <1>2, <1>3

\* Two clients' regions are a header apart, and all lie in the arena.
LEMMA Apart ==
  ASSUME NEW h, NEW a, Bounded(h, a), NEW p \in DOMAIN a
  PROVE  /\ p \in Nat /\ p >= 1 /\ a[p] \in Nat /\ p + a[p] <= Arena /\ a[p] < Arena
         /\ \A q \in DOMAIN a \ {p} : p + a[p] < q \/ q + a[q] < p
         /\ \A c \in DOMAIN h : c < p \/ p + a[p] <= c
  <1> USE HeapAssumption DEF Addresses
  <1>1. ASSUME NEW q \in DOMAIN a
        PROVE  /\ q \in Nat /\ q - 1 \in DOMAIN h /\ a[q] \in Nat /\ a[q] >= 1 /\ q - 1 \in Nat
               /\ h[q - 1].size \in Nat /\ a[q] <= h[q - 1].size
               /\ End(h, q - 1) = q + h[q - 1].size /\ End(h, q - 1) <= Arena
    BY Fields DEF Bounded, Sound, Tiled, End
  <1>2. \A b, c \in DOMAIN h : b < c => End(h, b) <= c
    BY DEF Bounded, Sound, Tiled
  <1>3. \A c \in DOMAIN h : c \in Int
    BY DEF Bounded, Sound, Typed
  <1>4. ASSUME NEW q \in DOMAIN a \ {p} PROVE p + a[p] < q \/ q + a[q] < p
    <2>1. CASE p < q
      BY <1>1, <1>2, <2>1
    <2>2. CASE q < p
      BY <1>1, <1>2, <2>2
    <2> QED BY <1>1, <2>1, <2>2
  <1>5. ASSUME NEW c \in DOMAIN h PROVE c < p \/ p + a[p] <= c
    <2>1. CASE p - 1 < c
      BY <1>1, <1>2, <1>3, <2>1
    <2> QED BY <1>1, <1>3, <2>1
  <1> QED BY <1>1, <1>4, <1>5

\* After a step that moves the pointer of P to r there is room for it.
LEMMA RoomFor ==
  ASSUME Bounded(heap', asked'), NEW P, NEW r \in DOMAIN asked',
         DOMAIN asked' = (DOMAIN asked \ P) \cup {r}, r \notin DOMAIN asked \ P,
         \A q \in DOMAIN asked \ P : asked'[q] = asked[q]
  PROVE  A!Room(r, asked'[r], DOMAIN store \ P)
  <1>1. A!Units(r, asked'[r]) \subseteq 0 .. Arena - 1
    BY Apart, HeapAssumption DEF A!Units
  <1>2. ASSUME NEW q \in DOMAIN store \ P
        PROVE  A!Units(r, asked'[r]) \cap {q + i : i \in DOMAIN store[q]} = {}
    <2>1. q \in DOMAIN asked \ P /\ DOMAIN store[q] = 0 .. asked[q] - 1
      BY <1>2 DEF store
    <2>2. q \in DOMAIN asked' \ {r} /\ asked'[q] = asked[q]
      BY <2>1
    <2>3. /\ r \in Nat /\ asked'[r] \in Nat /\ q \in Nat /\ asked[q] \in Nat
          /\ r + asked'[r] < q \/ q + asked[q] < r
      BY <2>2, Apart
    <2> QED BY <2>1, <2>3 DEF A!Units
  <1> QED BY <1>1, <1>2 DEF A!Room

\* New headers leave the regions of clients alone.
LEMMA HeadedKeeps ==
  ASSUME NEW h, Bounded(h, asked), NEW p \in DOMAIN asked, NEW i \in 0 .. asked[p] - 1
  PROVE  p + i \in Addresses /\ Headed(h)[p + i] = mem[p + i]
  <1>1. /\ p \in Nat /\ asked[p] \in Nat /\ p + asked[p] <= Arena
        /\ \A c \in DOMAIN h : c < p \/ p + asked[p] <= c
    BY Apart
  <1>2. p + i \in Addresses
    BY <1>1, HeapAssumption DEF Addresses
  <1>3. p + i \notin DOMAIN h
    BY <1>1 DEF Bounded, Sound, Typed, Addresses
  <1> QED BY <1>2, <1>3 DEF Headed

\* If all regions but those of P stay as they were, the store changes just at r.
LEMMA StoreBecomes ==
  ASSUME NEW P, NEW r \in DOMAIN asked',
         DOMAIN asked' = (DOMAIN asked \ P) \cup {r},
         \A q \in DOMAIN asked' \ {r} : /\ asked'[q] = asked[q]
                                        /\ \A i \in 0 .. asked[q] - 1 : mem'[q + i] = mem[q + i]
  PROVE  store' = [q \in (DOMAIN store \ P) \cup {r} |->
                     IF q = r THEN [i \in 0 .. asked'[r] - 1 |-> mem'[r + i]] ELSE store[q]]
  <1>1. DOMAIN store = DOMAIN asked
    BY DEF store
  <1>2. ASSUME NEW q \in DOMAIN asked' \ {r}
        PROVE  [i \in 0 .. asked'[q] - 1 |-> mem'[q + i]] = store[q]
    <2>1. q \in DOMAIN asked /\ asked'[q] = asked[q]
      BY <1>2
    <2>2. store[q] = [i \in 0 .. asked[q] - 1 |-> mem[q + i]]
      BY <2>1 DEF store
    <2> QED BY <1>2, <2>1, <2>2
  <1> QED BY <1>1, <1>2 DEF store

\* malloc and calloc allocate.
LEMMA MallocImplements ==
  ASSUME Words \notin Sizes, HeapInv, HeapInv', NEW r \in Sizes, NEW x \in Contents, ef2_malloc(r, x)
  PROVE  A!StoreNext
  <1>1. PICK b \in DOMAIN heap :
          /\ FirstFit(b, align_up(r)) /\ heap' = Taken(b, align_up(r))
          /\ mem' = Filled(Headed(heap'), b + 1, r, x)
          /\ asked' = [p \in DOMAIN asked \cup {b + 1} |-> IF p = b + 1 THEN r ELSE asked[p]]
    BY DEF ef2_malloc
  <1>2. Bounded(heap, asked) /\ Bounded(heap', asked') /\ b \in Nat /\ r \in Nat /\ r >= 1
    <2>1. Bounded(heap, asked) /\ Bounded(heap', asked')
      BY InvBounded
    <2>2. r \in Nat /\ r >= 1
      BY HeapAssumption
    <2> QED BY <2>1, <2>2 DEF Bounded, Sound, Typed, Addresses
  <1>3. b + 1 \notin DOMAIN asked
    <2>1. heap[b].magic = "free" /\ (b + 1) - 1 = b
      BY <1>1, <1>2, Fit
    <2> QED BY <2>1, Held
  <1>4. /\ DOMAIN asked' = (DOMAIN asked \ {}) \cup {b + 1} /\ asked'[b + 1] = r
        /\ \A q \in DOMAIN asked : asked'[q] = asked[q] /\ q # b + 1
        /\ b + 1 \in DOMAIN asked'
    BY <1>1, <1>3
  <1>5. /\ b + 1 + r <= Arena /\ r < Arena
        /\ \A q \in DOMAIN asked : /\ q \in Nat /\ asked[q] \in Nat
                                   /\ b + 1 + r < q \/ q + asked[q] < b + 1
    BY <1>2, <1>4, Apart
  <1>6. A!Room(b + 1, r, DOMAIN store)
    <2>1. A!Room(b + 1, asked'[b + 1], DOMAIN store \ {})
      BY <1>2, <1>4, RoomFor
    <2>2. DOMAIN store \ {} = DOMAIN store
      OBVIOUS
    <2> QED BY <1>4, <2>1, <2>2
  <1>7. ASSUME NEW q \in DOMAIN asked, NEW i \in 0 .. asked[q] - 1
        PROVE  mem'[q + i] = mem[q + i]
    <2>1. q + i \notin b + 1 .. b + 1 + r - 1
      BY <1>2, <1>5
    <2>2. Bounded(heap', asked)
      BY <1>2, <1>4 DEF Bounded
    <2>3. q + i \in Addresses /\ Headed(heap')[q + i] = mem[q + i]
      BY <2>2, HeadedKeeps
    <2> QED BY <1>1, <2>1, <2>3 DEF Filled
  <1>8. [i \in 0 .. r - 1 |-> mem'[b + 1 + i]] = [i \in 0 .. r - 1 |-> x]
    <2>1. ASSUME NEW i \in 0 .. r - 1 PROVE mem'[b + 1 + i] = x
      <3>1. b + 1 + i \in Addresses /\ b + 1 + i \in b + 1 .. b + 1 + r - 1
        BY <1>2, <1>5, HeapAssumption DEF Addresses
      <3> QED BY <1>1, <3>1 DEF Filled
    <2> QED BY <2>1
  <1>9. store' = [q \in (DOMAIN store \ {}) \cup {b + 1} |->
                    IF q = b + 1 THEN [i \in 0 .. r - 1 |-> x] ELSE store[q]]
    <2> DEFINE f == [i \in 0 .. r - 1 |-> x]
    <2>1. f = [i \in 0 .. asked'[b + 1] - 1 |-> mem'[b + 1 + i]]
      BY <1>4, <1>8
    <2>2. \A q \in DOMAIN asked' \ {b + 1} :
            /\ asked'[q] = asked[q]
            /\ \A i \in 0 .. asked[q] - 1 : mem'[q + i] = mem[q + i]
      BY <1>4, <1>7
    <2>3. store' = [q \in (DOMAIN store \ {}) \cup {b + 1} |->
                      IF q = b + 1 THEN [i \in 0 .. asked'[b + 1] - 1 |-> mem'[b + 1 + i]]
                      ELSE store[q]]
      <3>1. b + 1 \in DOMAIN asked'
        BY <1>4
      <3>2. DOMAIN asked' = (DOMAIN asked \ {}) \cup {b + 1}
        BY <1>4
      <3> HIDE DEF f
      <3> QED BY ONLY <2>2, <3>1, <3>2, StoreBecomes
    <2> QED BY <2>1, <2>3
  <1>10. A!Allocate(b + 1, r, x)
    BY <1>6, <1>9 DEF A!Allocate
  <1>11. b + 1 \in 0 .. Arena - 1 /\ r \in 1 .. Arena
    BY <1>2, <1>5, HeapAssumption
  <1> QED BY <1>10, <1>11 DEF A!StoreNext

\* free releases.
LEMMA FreeImplements ==
  ASSUME NEW p \in DOMAIN asked, ef2_free(p) PROVE A!StoreNext
  <1>1. /\ asked' = [q \in DOMAIN asked \ {p} |-> asked[q]] /\ mem' = mem
        /\ DOMAIN store = DOMAIN asked
    BY DEF ef2_free, store
  <1>2. store' = [q \in DOMAIN store \ {p} |-> store[q]]
    BY <1>1 DEF store
  <1> QED BY <1>1, <1>2 DEF A!StoreNext, A!Release

\* realloc resizes: q is where the region is afterwards.
LEMMA ResizeImplements ==
  ASSUME Words \notin Sizes, HeapInv, HeapInv', NEW p \in DOMAIN asked, NEW r \in Sizes,
         NEW x \in Contents, NEW q, q \in Nat, q \notin DOMAIN asked \ {p},
         asked' = [d \in (DOMAIN asked \ {p}) \cup {q} |-> IF d = q THEN r ELSE asked[d]],
         \A d \in DOMAIN asked \ {p} : \A i \in 0 .. asked[d] - 1 : mem'[d + i] = mem[d + i],
         \A i \in 0 .. r - 1 : mem'[q + i] = IF i < asked[p] THEN mem[p + i] ELSE x
  PROVE  A!StoreNext
  <1> DEFINE f == [i \in 0 .. r - 1 |-> IF i \in DOMAIN store[p] THEN store[p][i] ELSE x]
  <1>1. /\ Bounded(heap', asked') /\ r \in Nat /\ r >= 1
        /\ asked[p] \in Nat /\ p \in DOMAIN store
    BY InvBounded, HeapAssumption, Held DEF store
  <1>2. /\ DOMAIN asked' = (DOMAIN asked \ {p}) \cup {q} /\ q \in DOMAIN asked' /\ asked'[q] = r
        /\ \A d \in DOMAIN asked \ {p} : asked'[d] = asked[d]
    OBVIOUS
  <1>3. q + r <= Arena /\ r < Arena
    BY <1>1, <1>2, Apart
  <1>4. A!Room(q, r, DOMAIN store \ {p})
    <2>1. A!Room(q, asked'[q], DOMAIN store \ {p})
      BY <1>1, <1>2, RoomFor
    <2> QED BY <1>2, <2>1
  <1>5. f = [i \in 0 .. asked'[q] - 1 |-> mem'[q + i]]
    <2>1. store[p] = [i \in 0 .. asked[p] - 1 |-> mem[p + i]]
      BY DEF store
    <2>2. ASSUME NEW i \in 0 .. r - 1
          PROVE  mem'[q + i] = IF i \in DOMAIN store[p] THEN store[p][i] ELSE x
      <3>1. i \in DOMAIN store[p] <=> i < asked[p]
        BY <1>1, <2>1
      <3> QED BY <2>1, <3>1
    <2> QED BY <1>2, <2>2
  <1>6. store' = [d \in (DOMAIN store \ {p}) \cup {q} |-> IF d = q THEN f ELSE store[d]]
    <2>1. \A d \in DOMAIN asked' \ {q} :
            /\ asked'[d] = asked[d]
            /\ \A i \in 0 .. asked[d] - 1 : mem'[d + i] = mem[d + i]
      BY <1>2
    <2>2. store' = [d \in (DOMAIN store \ {p}) \cup {q} |->
                      IF d = q THEN [i \in 0 .. asked'[q] - 1 |-> mem'[q + i]] ELSE store[d]]
      <3> DEFINE P == {p}
      <3>1. q \in DOMAIN asked' /\ DOMAIN asked' = (DOMAIN asked \ P) \cup {q}
        BY <1>2
      <3> HIDE DEF f, P
      <3>2. store' = [d \in (DOMAIN store \ P) \cup {q} |->
                        IF d = q THEN [i \in 0 .. asked'[q] - 1 |-> mem'[q + i]] ELSE store[d]]
        BY ONLY <2>1, <3>1, StoreBecomes
      <3> QED BY <3>2 DEF P
    <2> HIDE DEF f
    <2> QED BY <1>5, <2>2
  <1>7. A!Resize(p, q, r, x)
    BY <1>1, <1>4, <1>6 DEF A!Resize
  <1>8. q \in 0 .. Arena - 1 /\ r \in 1 .. Arena
    BY <1>1, <1>3, HeapAssumption
  <1> QED BY <1>1, <1>7, <1>8 DEF A!StoreNext

\* realloc in place.
LEMMA InPlaceImplements ==
  ASSUME Words \notin Sizes, HeapInv, HeapInv', NEW p \in DOMAIN asked, NEW r \in Sizes,
         NEW x \in Contents, Resized(p, r),
         mem' = Filled(Headed(heap'), p + asked[p], r - asked[p], x)
  PROVE  A!StoreNext
  <1>1. /\ Bounded(heap, asked) /\ Bounded(heap', asked') /\ r \in Nat /\ r >= 1
        /\ p \in Nat /\ asked[p] \in Nat /\ p \in DOMAIN asked'
        /\ asked'[p] = r /\ p + r <= Arena
    <2>1. Bounded(heap, asked) /\ Bounded(heap', asked')
      BY InvBounded
    <2>2. p \in DOMAIN asked' /\ asked'[p] = r
      BY DEF Resized
    <2> QED BY <2>1, <2>2, Apart, HeapAssumption
  <1>2. asked' = [d \in (DOMAIN asked \ {p}) \cup {p} |-> IF d = p THEN r ELSE asked[d]]
    <2>1. (DOMAIN asked \ {p}) \cup {p} = DOMAIN asked
      OBVIOUS
    <2> QED BY <2>1 DEF Resized
  <1>3. ASSUME NEW d \in Addresses, d \notin DOMAIN heap', d < p + asked[p] \/ p + r <= d
        PROVE  mem'[d] = mem[d]
    <2>1. d \notin p + asked[p] .. p + asked[p] + (r - asked[p]) - 1
      BY <1>1, <1>3 DEF Addresses
    <2> QED BY <1>3, <2>1 DEF Filled, Headed
  <1>4. ASSUME NEW d \in DOMAIN asked', NEW i \in 0 .. asked'[d] - 1
        PROVE  d + i \in Addresses /\ d + i \notin DOMAIN heap' /\ d + i \in Nat
    <2>1. /\ d \in Nat /\ asked'[d] \in Nat /\ d + asked'[d] <= Arena
          /\ \A c \in DOMAIN heap' : c < d \/ d + asked'[d] <= c
      BY <1>1, Apart
    <2>2. d + i < d + asked'[d] /\ d <= d + i /\ d + i \in Nat
      BY <2>1
    <2>3. \A c \in DOMAIN heap' : c \in Nat
      BY <1>1 DEF Bounded, Sound, Typed, Addresses
    <2> QED BY <2>1, <2>2, <2>3, HeapAssumption DEF Addresses
  <1>5. ASSUME NEW d \in DOMAIN asked \ {p}, NEW i \in 0 .. asked[d] - 1
        PROVE  mem'[d + i] = mem[d + i]
    <2>1. d \in DOMAIN asked' /\ asked'[d] = asked[d] /\ d # p
      BY <1>2
    <2>2. p + r < d \/ d + asked[d] < p
      <3>1. d \in DOMAIN asked' \ {p}
        BY <2>1
      <3> QED BY <1>1, <2>1, <3>1, Apart
    <2>3. d + i < p + asked[p] \/ p + r <= d + i
      <3>1. d \in Nat /\ asked[d] \in Nat
        BY <1>1, Apart
      <3> QED BY <1>1, <2>2, <3>1
    <2> QED BY <1>3, <1>4, <2>1, <2>3
  <1>6. ASSUME NEW i \in 0 .. r - 1
        PROVE  mem'[p + i] = IF i < asked[p] THEN mem[p + i] ELSE x
    <2>1. p + i \in Addresses /\ p + i \notin DOMAIN heap'
      BY <1>1, <1>4
    <2>2. CASE i < asked[p]
      BY <1>1, <1>3, <2>1, <2>2
    <2>3. CASE ~(i < asked[p])
      <3>1. p + i \in p + asked[p] .. p + asked[p] + (r - asked[p]) - 1
        BY <1>1, <2>3
      <3> QED BY <2>1, <2>3, <3>1 DEF Filled
    <2> QED BY <2>2, <2>3
  <1>7. p \notin DOMAIN asked \ {p}
    OBVIOUS
  <1> QED BY <1>1, <1>2, <1>5, <1>6, <1>7, ResizeImplements

\* realloc to a new block.
LEMMA MoveImplements ==
  ASSUME Words \notin Sizes, HeapInv, HeapInv', NEW p \in DOMAIN asked, NEW r \in Sizes,
         NEW x \in Contents, ReallocMove(p, r, x)
  PROVE  A!StoreNext
  <1> DEFINE old == heap[p - 1].size
  <1>1. /\ r \in Nat /\ r >= 1 /\ align_up(r) = r
        /\ p \in Nat /\ p - 1 \in DOMAIN heap /\ asked[p] \in Nat /\ asked[p] >= 1
    BY AlignFacts, Held, HeapAssumption
  <1>2. Bounded(heap, asked) /\ Bounded(heap', asked') /\ Sound(heap)
    BY InvBounded, SoundHeap
  <1>3. old \in Nat /\ r > old /\ asked[p] <= old
    <2>1. old \in Nat
      BY <1>1, <1>2, Fields DEF Sound
    <2>2. r > old
      BY <1>1 DEF ReallocMove
    <2>3. asked[p] <= old
      BY <1>2 DEF Bounded
    <2> QED BY <2>1, <2>2, <2>3
  <1> HIDE DEF old
  <1>4. PICK b \in DOMAIN heap :
          /\ FirstFit(b, r) /\ heap' = Freed(Taken(b, r), p - 1)
          /\ mem' = Filled(Copied(Headed(Taken(b, r)), p, b + 1, old),
                           b + 1 + asked[p], r - asked[p], x)
          /\ asked' = [q \in (DOMAIN asked \ {p}) \cup {b + 1} |-> IF q = b + 1 THEN r ELSE asked[q]]
    BY <1>1 DEF ReallocMove, old
  <1>5. b \in Nat /\ b + 1 \in Nat /\ b + 1 \notin DOMAIN asked
    <2>1. b \in Nat
      BY <1>2 DEF Sound, Typed, Addresses
    <2>2. heap[b].magic = "free" /\ (b + 1) - 1 = b
      BY <1>4, <2>1, Fit
    <2> QED BY <2>1, <2>2, Held
  <1> DEFINE t == Taken(b, r)
  <1>6. Bounded(t, asked)
    <2>1. Sound(t) /\ DOMAIN heap \subseteq DOMAIN t /\ Kept(heap, t, b)
      BY <1>1, <1>2, <1>4, TakenSound
    <2> HIDE DEF t
    <2>2. ASSUME NEW d \in DOMAIN asked PROVE d - 1 # b /\ heap[d - 1].magic = "alloc"
      BY <1>5, Held
    <2> QED BY <1>2, <2>1, <2>2 DEF Bounded, Kept
  <1>7. /\ DOMAIN asked' = (DOMAIN asked \ {p}) \cup {b + 1} /\ b + 1 \in DOMAIN asked'
        /\ asked'[b + 1] = r
        /\ \A d \in DOMAIN asked \ {p} : asked'[d] = asked[d] /\ d # b + 1
    BY <1>4, <1>5
  <1>8. b + 1 + r <= Arena
    BY <1>2, <1>7, Apart
  <1> HIDE DEF t
  <1>9. mem' = Filled(Copied(Headed(t), p, b + 1, old), b + 1 + asked[p], r - asked[p], x)
    BY <1>4 DEF t
  <1>10. ASSUME NEW d \in DOMAIN asked \ {p}, NEW i \in 0 .. asked[d] - 1
         PROVE  mem'[d + i] = mem[d + i]
    <2>1. d + i \in Addresses /\ Headed(t)[d + i] = mem[d + i]
      BY <1>6, HeadedKeeps
    <2>2. d \in Nat /\ asked[d] \in Nat /\ (b + 1 + r < d \/ d + asked[d] < b + 1)
      BY <1>2, <1>7, Apart
    <2>3. /\ d + i \notin b + 1 + asked[p] .. b + 1 + asked[p] + (r - asked[p]) - 1
          /\ d + i \notin b + 1 .. b + 1 + old - 1
      BY <1>1, <1>3, <1>5, <2>2
    <2> QED BY <1>9, <2>1, <2>3 DEF Filled, Copied
  <1>11. ASSUME NEW i \in 0 .. r - 1
         PROVE  mem'[b + 1 + i] = IF i < asked[p] THEN mem[p + i] ELSE x
    <2>1. b + 1 + i \in Addresses
      BY <1>1, <1>5, <1>8, HeapAssumption DEF Addresses
    <2>2. CASE i < asked[p]
      <3>1. p + i \in Addresses /\ Headed(t)[p + i] = mem[p + i]
        BY <1>6, <2>2, <1>1, HeadedKeeps
      <3>2. /\ b + 1 + i \notin b + 1 + asked[p] .. b + 1 + asked[p] + (r - asked[p]) - 1
            /\ b + 1 + i \in b + 1 .. b + 1 + old - 1
            /\ (b + 1 + i) + p - (b + 1) = p + i
        BY <1>1, <1>3, <1>5, <2>2
      <3>3. Copied(Headed(t), p, b + 1, old)[b + 1 + i] = Headed(t)[p + i]
        BY <2>1, <3>2 DEF Copied
      <3>4. mem'[b + 1 + i] = Copied(Headed(t), p, b + 1, old)[b + 1 + i]
        BY <1>9, <2>1, <3>2 DEF Filled
      <3> QED BY <2>2, <3>1, <3>3, <3>4
    <2>3. CASE ~(i < asked[p])
      <3>1. b + 1 + i \in b + 1 + asked[p] .. b + 1 + asked[p] + (r - asked[p]) - 1
        BY <1>1, <1>5, <2>3
      <3> QED BY <1>9, <2>1, <2>3, <3>1 DEF Filled
    <2> QED BY <2>2, <2>3
  <1>12. b + 1 \notin DOMAIN asked \ {p}
    BY <1>5
  <1> DEFINE q == b + 1
  <1>13. /\ q \in Nat /\ q \notin DOMAIN asked \ {p}
         /\ asked' = [d \in (DOMAIN asked \ {p}) \cup {q} |-> IF d = q THEN r ELSE asked[d]]
         /\ \A i \in 0 .. r - 1 : mem'[q + i] = IF i < asked[p] THEN mem[p + i] ELSE x
    BY <1>4, <1>5, <1>11, <1>12
  <1> HIDE DEF q
  <1> QED BY <1>10, <1>13, ResizeImplements

\* Every step of the heap is a step of the allocator.
LEMMA StepImplements ==
  ASSUME Words \notin Sizes, HeapInv, HeapInv', Next PROVE A!StoreNext
  <1>1. ASSUME NEW p \in DOMAIN asked, NEW r \in Sizes, NEW x \in Contents, ef2_realloc(p, r, x)
        PROVE  A!StoreNext
    <2>1. r # Words /\ align_up(r) = r
      BY AlignFacts
    <2>2. CASE ReallocInBlock(p, r, x) \/ ReallocGrow(p, r, x)
      <3>1. /\ Resized(p, r)
            /\ mem' = Filled(Headed(heap'), p + asked[p], r - asked[p], x)
        BY <2>1, <2>2 DEF ReallocInBlock, ReallocGrow
      <3> QED BY <3>1, InPlaceImplements
    <2>3. CASE ReallocMove(p, r, x)
      BY <2>3, MoveImplements
    <2> QED BY <1>1, <2>2, <2>3 DEF ef2_realloc
  <1> QED BY <1>1, MallocImplements, FreeImplements DEF Next

\* The heap is an allocator: whatever the arena and the sequence of calls, the
\* regions handed out are disjoint and keep their contents through every other
\* call and through realloc, unless a request is one that realloc wraps to zero.
THEOREM HeapIsAllocator ==
  ASSUME Words \notin Sizes
  PROVE  Spec => ImplementsAllocator
  <1>1. Init => A!StoreInit
    BY DEF Init, A!StoreInit, store
  <1>2. HeapInv /\ HeapInv' /\ [Next]_vars => [A!StoreNext]_store
    <2>1. UNCHANGED vars => UNCHANGED store
      BY DEF vars, store
    <2> QED BY <2>1, StepImplements
  <1> QED BY <1>1, <1>2, HeapInductive, PTL DEF Spec, ImplementsAllocator, A!StoreSpec
-----------------------------------------------------------------------------
(* Regions.                                                                *)

\* What clients hold, without the regions whose size realloc wrapped.
Unwrapped == [p \in {q \in DOMAIN asked : asked[q] # Words} |-> asked[p]]

\* Those regions lie in the arena, a header or more apart, and hold no header.
RegionsApart ==
  \A p \in DOMAIN Unwrapped :
    /\ p + asked[p] <= Arena
    /\ \A q \in DOMAIN Unwrapped \ {p} : p + asked[p] < q \/ q + asked[q] < p
    /\ \A c \in DOMAIN heap : c < p \/ p + asked[p] <= c

\* After any sequence of malloc, calloc, realloc and free, a realloc that wrapped its
\* size among them, the regions clients hold lie in the arena, none reaches another
\* and none a header of the list; only the wrapped region itself has no room.
THEOREM HeldRegionsApart == Spec => []RegionsApart
  <1>1. ASSUME HeapInv PROVE RegionsApart
    <2>1. Sound(heap) /\ DOMAIN Unwrapped \subseteq DOMAIN asked /\ DOMAIN asked \subseteq Addresses
      BY <1>1, SoundHeap DEF HeapInv, TypeOK, Unwrapped
    <2>2. ASSUME NEW p \in DOMAIN Unwrapped
          PROVE  /\ p - 1 \in DOMAIN heap /\ Unwrapped[p] = asked[p]
                 /\ asked[p] \in Sizes /\ asked[p] <= heap[p - 1].size
      BY <1>1 DEF HeapInv, LiveBlocks, LargeEnough, TypeOK, Unwrapped
    <2>3. \A r \in Sizes : r \in Nat /\ r >= 1
      BY HeapAssumption
    <2>4. Bounded(heap, Unwrapped)
      BY <2>1, <2>2, <2>3 DEF Bounded
    <2> QED BY <2>2, <2>4, Apart DEF RegionsApart
  <1> QED BY <1>1, HeapInductive, PTL
=============================================================================
