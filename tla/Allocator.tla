----------------------------- MODULE Allocator -----------------------------
(***************************************************************************)
(* What malloc, calloc, realloc and free promise their caller              *)
(* (include/ef2/heap.h): regions that do not overlap, lie in the arena and *)
(* hold what was written into them until they are freed.                   *)
(***************************************************************************)
EXTENDS Integers

CONSTANTS Arena,    \* the arena is 0 .. Arena-1, in units of 16 bytes
          Contents  \* what a unit of memory can hold

VARIABLE store      \* by the address of a region: its units' contents

Units(p, n) == p .. p + n - 1

\* n units at p lie in the arena and outside the regions at ps.
Room(p, n, ps) ==
  /\ Units(p, n) \subseteq 0 .. Arena - 1
  /\ \A q \in ps : Units(p, n) \cap {q + i : i \in DOMAIN store[q]} = {}

StoreInit == store = [p \in {} |-> {}]

\* A new region, filled with x.
Allocate(p, n, x) ==
  /\ Room(p, n, DOMAIN store)
  /\ store' = [q \in DOMAIN store \cup {p} |-> IF q = p THEN [i \in 0 .. n-1 |-> x] ELSE store[q]]

Release(p) ==
  /\ p \in DOMAIN store
  /\ store' = [q \in DOMAIN store \ {p} |-> store[q]]

\* The region at p becomes one of n units at r, perhaps elsewhere; it keeps
\* what it held, and what was added is filled with x.
Resize(p, r, n, x) ==
  /\ p \in DOMAIN store
  /\ Room(r, n, DOMAIN store \ {p})
  /\ store' = [q \in (DOMAIN store \ {p}) \cup {r} |->
                 IF q = r THEN [i \in 0 .. n-1 |-> IF i \in DOMAIN store[p] THEN store[p][i] ELSE x]
                 ELSE store[q]]

StoreNext ==
  \/ \E p \in DOMAIN store : Release(p)
  \/ \E r \in 0 .. Arena - 1, n \in 1 .. Arena, x \in Contents :
       \/ Allocate(r, n, x)
       \/ \E p \in DOMAIN store : Resize(p, r, n, x)

StoreSpec == StoreInit /\ [][StoreNext]_store
=============================================================================
