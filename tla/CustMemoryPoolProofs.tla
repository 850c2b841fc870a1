------------------------ MODULE CustMemoryPoolProofs ------------------------
(***************************************************************************)
(* Theorems about CustMemoryPool, for any number of buffers, addresses and *)
(* blocks, any thresholds and any sizes.  The runways are proved correct   *)
(* for the calls that do not meet one of the defects in the README; each   *)
(* theorem names the ones it has to exclude.                               *)
(***************************************************************************)
EXTENDS CustMemoryPool, FiniteSetTheorems, TLAPS

-----------------------------------------------------------------------------
(* The calls that the theorems distinguish.                                *)

\* The inner pool has memory whenever a runway is given up for it.
InnerNeverFails == "runway" \notin MayFail

\* No block is reallocated to size 0.
BlocksStayBlocks == 0 \notin ReallocSizes["pool"]

-----------------------------------------------------------------------------
(* The invariant.                                                          *)

IsHeap(h) == h = [inner |-> h.inner, large |-> h.large, mapped |-> h.mapped, blocks |-> h.blocks,
                  bad |-> h.bad]

\* The addresses of the inner pool and of the runways keep apart, and
\* large_allocs_ knows the runways.
Separated(h) ==
    /\ DOMAIN h.large = h.mapped
    /\ DOMAIN h.inner \subseteq Addresses /\ h.mapped \subseteq Addresses
    /\ DOMAIN h.inner \cap h.mapped = {}
    /\ ~h.bad

\* The runway build: a buffer on a runway is one that Reallocate and Free will
\* look for there.
RunwayInv ==
    /\ buffer \in [Buffers -> [addr : Addresses \cup {Zero, Nowhere}, size : Nat]]
    /\ Separated(heap)
    /\ \A b \in Buffers :
          LET p == buffer[b].addr
              n == buffer[b].size IN
          /\ p \in {Zero, Nowhere} \cup DOMAIN heap.inner \cup heap.mapped
          /\ p \in heap.mapped => n >= SmallThreshold
          /\ p \in DOMAIN heap.inner => n < HugeThreshold
    /\ BuffersApart

\* The block build: each block is in the pool or with one buffer, and the size
\* of the buffer says which.
BlockInv ==
    /\ buffer \in [Buffers -> [addr : Blocks \cup {Zero, Nowhere}, size : Nat]]
    /\ heap.blocks \in Seq(Blocks)
    /\ \A i, j \in DOMAIN heap.blocks : heap.blocks[i] = heap.blocks[j] => i = j
    /\ DOMAIN heap.inner = {}
    /\ \A b \in Buffers :
          /\ buffer[b].addr \in Blocks => /\ buffer[b].addr \notin Range(heap.blocks)
                                          /\ buffer[b].size <= PreallocSize
                                          /\ ~heap.bad => buffer[b].size # 0
          /\ buffer[b].addr \notin Blocks => buffer[b].size = 0
    /\ \A k \in Blocks : k \in Range(heap.blocks) \/ \E b \in Buffers : buffer[b].addr = k
    /\ BuffersApart
    /\ BlocksStayBlocks => ~heap.bad

MemInv ==
    /\ build \in Builds
    /\ ActivateRunway /\ InnerNeverFails => IsHeap(heap) /\ RunwayInv
    /\ ActivatePool => IsHeap(heap) /\ BlockInv

\* Constants and the two builds.
LEMMA Constants ==
    /\ Zero # Nowhere /\ Zero \notin Addresses /\ Nowhere \notin Addresses
    /\ Zero \notin Blocks /\ Nowhere \notin Blocks
    /\ SmallThreshold \in Nat /\ HugeThreshold \in Nat /\ PreallocSize \in Nat
    /\ 0 < SmallThreshold /\ SmallThreshold <= HugeThreshold
    /\ Sizes \subseteq Nat /\ \A e \in Builds : ReallocSizes[e] \subseteq Sizes
    /\ \A e \in Builds : e \in {"runway", "pool"}
BY AddressesAssumption, ThresholdsAssumption, SizesAssumption, BuildsAssumption

-----------------------------------------------------------------------------
(* The runway build.                                                       *)

\* The outcome o takes a buffer of size n from p to a place of its own, and
\* leaves the others where they are.
Moves(p, o, n) ==
    LET h == o.heap
        q == o.ptr IN
    /\ IsHeap(h) /\ Separated(h)
    /\ q \in {Zero, Nowhere, p} \cup Unused(heap)
    /\ q \in {Zero, Nowhere} \cup DOMAIN h.inner \cup h.mapped
    /\ q \in h.mapped => n >= SmallThreshold
    /\ q \in DOMAIN h.inner => n < HugeThreshold
    /\ \A x \in Addresses \ {p, q} :
          /\ x \in DOMAIN h.inner <=> x \in DOMAIN heap.inner
          /\ x \in h.mapped <=> x \in heap.mapped

\* Such an outcome keeps the invariant.
LEMMA MoveKeeps ==
    ASSUME RunwayInv, NEW b \in Buffers, NEW o, NEW n \in Nat, Moves(buffer[b].addr, o, n),
           heap' = o.heap, buffer' = [buffer EXCEPT ![b] = [addr |-> o.ptr, size |-> n]]
    PROVE  RunwayInv'
<1> DEFINE p == buffer[b].addr
           q == o.ptr
<1> USE Constants
<1>1. /\ Separated(heap')
      /\ q \in {Zero, Nowhere, p} \cup Unused(heap)
      /\ q \in {Zero, Nowhere} \cup DOMAIN heap'.inner \cup heap'.mapped
      /\ q \in heap'.mapped => n >= SmallThreshold
      /\ q \in DOMAIN heap'.inner => n < HugeThreshold
      /\ \A x \in Addresses \ {p, q} :
            /\ x \in DOMAIN heap'.inner <=> x \in DOMAIN heap.inner
            /\ x \in heap'.mapped <=> x \in heap.mapped
  BY DEF Moves
<1>2. p \in Addresses \cup {Zero, Nowhere}
  BY DEF RunwayInv
<1>3. q \in Addresses \cup {Zero, Nowhere}
  BY <1>1, <1>2 DEF Unused
<1>4. /\ buffer' \in [Buffers -> [addr : Addresses \cup {Zero, Nowhere}, size : Nat]]
      /\ buffer'[b].addr = q /\ buffer'[b].size = n
      /\ \A c \in Buffers \ {b} : buffer'[c] = buffer[c]
  BY <1>3 DEF RunwayInv
<1> HIDE DEF p, q
<1>5. ASSUME NEW c \in Buffers \ {b}, buffer[c].addr \notin {Zero, Nowhere}
      PROVE  buffer[c].addr \in Addresses \ {p, q}
  <2>1. buffer[c].addr \in Addresses /\ buffer[c].addr # p
    BY <1>5 DEF RunwayInv, BuffersApart, InUse, p
  <2>2. buffer[c].addr \notin Unused(heap)
    BY <1>5 DEF RunwayInv, Unused
  <2> QED
    BY <1>1, <1>5, <2>1, <2>2
<1>6. ASSUME NEW c \in Buffers \ {b}
      PROVE  /\ buffer'[c].addr \in {Zero, Nowhere} \cup DOMAIN heap'.inner \cup heap'.mapped
             /\ buffer'[c].addr \in heap'.mapped => buffer'[c].size >= SmallThreshold
             /\ buffer'[c].addr \in DOMAIN heap'.inner => buffer'[c].size < HugeThreshold
  <2>1. CASE buffer[c].addr \in {Zero, Nowhere}
    BY <1>1, <1>4, <2>1 DEF Separated
  <2>2. CASE buffer[c].addr \notin {Zero, Nowhere}
    BY <1>1, <1>4, <1>5, <2>2 DEF RunwayInv
  <2> QED
    BY <2>1, <2>2
<1>7. BuffersApart'
  BY <1>4, <1>5 DEF RunwayInv, BuffersApart, InUse
<1> QED
  BY <1>1, <1>4, <1>6, <1>7 DEF RunwayInv

\* A free of an allocation of the inner pool, or of its address for size 0.
LEMMA InnerFreeFacts ==
    ASSUME NEW h, NEW p, Zero \notin DOMAIN h.inner, p = Zero \/ p \in DOMAIN h.inner
    PROVE  InnerFree(h, p) = IF p = Zero THEN h ELSE [h EXCEPT !.inner = Erase(@, p)]
<1>1. CASE p = Zero
  BY <1>1, Zenon DEF InnerFree
<1>2. CASE p # Zero
  BY <1>2, Zenon DEF InnerFree
<1> QED
  BY <1>1, <1>2

\* An allocation of the inner pool, when it does not fail.
LEMMA InnerAllocateFacts ==
    ASSUME ActivateRunway, InnerNeverFails, NEW h, NEW n, NEW p, NEW o \in InnerAllocate(h, n, p)
    PROVE  \/ n = 0 /\ o = Outcome(h, Zero, TRUE)
           \/ /\ n # 0
              /\ \E q \in Unused(h) : o = Outcome([h EXCEPT !.inner = Set(@, q, n)], q, TRUE)
<1>1. ~InnerMayFail
  BY DEF ActivateRunway, InnerNeverFails, InnerMayFail
<1> QED
  BY <1>1 DEF InnerAllocate

\* The heap h is like the present one but for the place of p.
Without(h, p) ==
    /\ IsHeap(h) /\ Separated(h)
    /\ Unused(h) \subseteq Unused(heap) \cup {p}
    /\ \A x \in Addresses \ {p} :
          /\ x \in DOMAIN h.inner <=> x \in DOMAIN heap.inner
          /\ x \in h.mapped <=> x \in heap.mapped

\* A buffer that moves to the inner pool, where p is free already.
LEMMA InnerAllocateMoves ==
    ASSUME ActivateRunway, InnerNeverFails, NEW h, NEW p, NEW n \in Nat, n < HugeThreshold,
           Without(h, p), NEW o \in InnerAllocate(h, n, p)
    PROVE  o.ok /\ Moves(p, o, n) /\ o.ptr \in {Zero} \cup Unused(h)
<1> USE Constants
<1>1. CASE n = 0 /\ o = Outcome(h, Zero, TRUE)
  <2>1. o.heap = h /\ o.ptr = Zero /\ o.ok
    BY <1>1 DEF Outcome
  <2>2. Zero \notin DOMAIN h.inner /\ Zero \notin h.mapped
    BY DEF Without, Separated
  <2> QED
    BY <2>1, <2>2 DEF Moves, Without
<1>2. ASSUME NEW q \in Unused(h), o = Outcome([h EXCEPT !.inner = Set(@, q, n)], q, TRUE)
      PROVE  o.ok /\ Moves(p, o, n) /\ o.ptr \in {Zero} \cup Unused(h)
  <2> DEFINE g == [h EXCEPT !.inner = Set(@, q, n)]
  <2>1. o.heap = g /\ o.ptr = q /\ o.ok
    BY <1>2 DEF Outcome
  <2>2. /\ IsHeap(g) /\ g.inner = Set(h.inner, q, n)
        /\ g.large = h.large /\ g.mapped = h.mapped /\ g.bad = h.bad
    BY DEF Without, IsHeap
  <2>3. q \in Addresses /\ q \notin DOMAIN h.inner /\ q \notin h.mapped
    BY DEF Unused
  <2> HIDE DEF g
  <2>4. DOMAIN g.inner = DOMAIN h.inner \cup {q}
    BY <2>2 DEF Set, Erase
  <2>5. Separated(g)
    BY <2>2, <2>3, <2>4 DEF Separated, Without
  <2>6. q \in {Zero, Nowhere, p} \cup Unused(heap)
    BY DEF Without
  <2>7. \A x \in Addresses \ {p, q} :
           /\ x \in DOMAIN g.inner <=> x \in DOMAIN heap.inner
           /\ x \in g.mapped <=> x \in heap.mapped
    BY <2>2, <2>4 DEF Without
  <2>8. q \in DOMAIN g.inner /\ q \notin g.mapped
    BY <2>2, <2>3, <2>4
  <2> QED
    BY <2>1, <2>2, <2>4, <2>5, <2>6, <2>7, <2>8 DEF Moves
<1> QED
  BY <1>1, <1>2, InnerAllocateFacts

\* A runway that comes or goes changes two fields of the heap.
LEMMA TwoFields ==
    ASSUME NEW h, NEW L, NEW M, IsHeap(h)
    PROVE  /\ [h EXCEPT !.mapped = M, !.large = L]
                = [inner |-> h.inner, large |-> L, mapped |-> M, blocks |-> h.blocks, bad |-> h.bad]
           /\ [h EXCEPT !.large = L, !.mapped = M]
                = [inner |-> h.inner, large |-> L, mapped |-> M, blocks |-> h.blocks, bad |-> h.bad]
<1>1. PICK i, l, m, k, x : h = [inner |-> i, large |-> l, mapped |-> m, blocks |-> k, bad |-> x]
  BY DEF IsHeap
<1>2. h.inner = i /\ h.blocks = k /\ h.bad = x
  BY <1>1
<1> DEFINE r(y, z) == [inner |-> i, large |-> y, mapped |-> z, blocks |-> k, bad |-> x]
<1>3. [h EXCEPT !.mapped = M] = r(l, M) /\ [h EXCEPT !.large = L] = r(L, m)
  BY ONLY <1>1
<1>4. [r(l, M) EXCEPT !.large = L] = r(L, M) /\ [r(L, m) EXCEPT !.mapped = M] = r(L, M)
  BY ONLY TRUE
<1>5. [h EXCEPT !.mapped = M, !.large = L] = [[h EXCEPT !.mapped = M] EXCEPT !.large = L]
  OBVIOUS
<1>6. [h EXCEPT !.large = L, !.mapped = M] = [[h EXCEPT !.large = L] EXCEPT !.mapped = M]
  OBVIOUS
<1> HIDE DEF r
<1>7. [h EXCEPT !.mapped = M, !.large = L] = r(L, M) /\ [h EXCEPT !.large = L, !.mapped = M] = r(L, M)
  BY ONLY <1>3, <1>4, <1>5, <1>6, Zenon
<1>8. r(L, M) = [inner |-> h.inner, large |-> L, mapped |-> M, blocks |-> h.blocks, bad |-> h.bad]
  BY <1>2, Zenon DEF r
<1> QED
  BY ONLY <1>7, <1>8, Zenon

\* A new runway.
LEMMA RunwayAllocateMoves ==
    ASSUME NEW h, NEW p, NEW n \in Nat, n >= HugeThreshold, Without(h, p),
           NEW q \in Unused(h), NEW o,
           o = Outcome([h EXCEPT !.mapped = @ \cup {q}, !.large = Set(@, q, n)], q, TRUE)
    PROVE  Moves(p, o, n)
<1> DEFINE g == [h EXCEPT !.mapped = @ \cup {q}, !.large = Set(@, q, n)]
<1> USE Constants
<1>1. o.heap = g /\ o.ptr = q /\ o.ok
  BY DEF Outcome
<1>2. /\ IsHeap(g) /\ g.inner = h.inner /\ g.large = Set(h.large, q, n)
      /\ g.mapped = h.mapped \cup {q} /\ g.bad = h.bad
  <2>1. g = [inner |-> h.inner, large |-> Set(h.large, q, n), mapped |-> h.mapped \cup {q},
             blocks |-> h.blocks, bad |-> h.bad]
    BY TwoFields DEF Without
  <2> QED
    BY <2>1 DEF IsHeap
<1>3. q \in Addresses /\ q \notin DOMAIN h.inner /\ q \notin h.mapped
  BY DEF Unused
<1> HIDE DEF g
<1>4. DOMAIN g.large = DOMAIN h.large \cup {q}
  BY <1>2 DEF Set, Erase
<1>5. Separated(g)
  BY <1>2, <1>3, <1>4 DEF Separated, Without
<1>6. q \in {Zero, Nowhere, p} \cup Unused(heap)
  BY DEF Without
<1>7. \A x \in Addresses \ {p, q} :
         /\ x \in DOMAIN g.inner <=> x \in DOMAIN heap.inner
         /\ x \in g.mapped <=> x \in heap.mapped
  BY <1>2, <1>4 DEF Without, Separated
<1>8. q \in g.mapped /\ q \notin DOMAIN g.inner
  BY <1>2, <1>3
<1>9. n >= SmallThreshold
  OBVIOUS
<1>10. q \in {Zero, Nowhere} \cup DOMAIN g.inner \cup g.mapped
  BY <1>8
<1>11. /\ q \in g.mapped => n >= SmallThreshold
       /\ q \in DOMAIN g.inner => n < HugeThreshold
       /\ IsHeap(g)
  BY <1>2, <1>4, <1>8, <1>9
<1> QED
  BY ONLY <1>1, <1>5, <1>6, <1>7, <1>10, <1>11 DEF Moves

\* runway_free of a runway.
LEMMA RunwayFreeFacts ==
    ASSUME NEW h, NEW p, IsHeap(h), Separated(h), p \in h.mapped
    PROVE  /\ IsHeap(runway_free(h, p)) /\ Separated(runway_free(h, p))
           /\ runway_free(h, p).inner = h.inner
           /\ runway_free(h, p).mapped = h.mapped \ {p}
<1> DEFINE g == [h EXCEPT !.large = Erase(@, p), !.mapped = @ \ {p}]
<1>1. runway_free(h, p) = g
  BY DEF runway_free, Separated
<1>2. /\ IsHeap(g) /\ g.inner = h.inner /\ g.large = Erase(h.large, p)
      /\ g.mapped = h.mapped \ {p} /\ g.bad = h.bad
  <2>1. g = [inner |-> h.inner, large |-> Erase(h.large, p), mapped |-> h.mapped \ {p},
             blocks |-> h.blocks, bad |-> h.bad]
    <3>1. PICK L, M : L = Erase(h.large, p) /\ M = h.mapped \ {p}
      OBVIOUS
    <3>2. g = [h EXCEPT !.large = L, !.mapped = M]
      BY <3>1
    <3> HIDE DEF g
    <3> QED
      BY <3>1, <3>2, TwoFields
  <2> QED
    BY <2>1 DEF IsHeap
<1> HIDE DEF g
<1>3. DOMAIN g.large = DOMAIN h.large \ {p}
  BY <1>2 DEF Set, Erase
<1>4. Separated(g)
  BY <1>2, <1>3 DEF Separated
<1> QED
  BY <1>1, <1>2, <1>3, <1>4 DEF Separated

\* Freed by the inner pool, a place is free and the others are as they were.
LEMMA InnerFreed ==
    ASSUME IsHeap(heap), Separated(heap), NEW p, p = Zero \/ p \in DOMAIN heap.inner
    PROVE  /\ Without(InnerFree(heap, p), p)
           /\ p \notin DOMAIN InnerFree(heap, p).inner
           /\ InnerFree(heap, p).mapped = heap.mapped
<1> USE Constants
<1>1. Zero \notin DOMAIN heap.inner
  BY DEF Separated
<1>2. CASE p = Zero
  <2>1. InnerFree(heap, p) = heap
    BY <1>1, <1>2, InnerFreeFacts
  <2> QED
    BY <1>1, <1>2, <2>1 DEF Without
<1>3. CASE p # Zero
  <2> DEFINE g == [heap EXCEPT !.inner = Erase(@, p)]
  <2>1. InnerFree(heap, p) = g
    BY <1>1, <1>3, InnerFreeFacts
  <2>2. /\ IsHeap(g) /\ g.inner = Erase(heap.inner, p) /\ g.large = heap.large
        /\ g.mapped = heap.mapped /\ g.bad = heap.bad
    BY DEF IsHeap
  <2> HIDE DEF g
  <2>3. DOMAIN g.inner = DOMAIN heap.inner \ {p}
    BY <2>2 DEF Set, Erase
  <2>4. Separated(g)
    BY <2>2, <2>3 DEF Separated
  <2>5. Unused(g) \subseteq Unused(heap) \cup {p}
    BY <2>2, <2>3 DEF Unused
  <2> QED
    BY <2>1, <2>2, <2>3, <2>4, <2>5 DEF Without
<1> QED
  BY <1>2, <1>3

\* The heap as it is.
LEMMA HeapAsItIs ==
    ASSUME IsHeap(heap), Separated(heap), NEW p
    PROVE  Without(heap, p)
BY DEF Without

\* Allocate finds a place for a buffer.
LEMMA AllocateMoves ==
    ASSUME ActivateRunway, InnerNeverFails, IsHeap(heap), RunwayInv, NEW n \in Nat,
           NEW o \in AllocateOutcomes(heap, n)
    PROVE  o.ok /\ Moves(Nowhere, o, n)
<1>0. Without(heap, Nowhere) /\ ~ActivatePool
  BY HeapAsItIs DEF RunwayInv, ActivateRunway, ActivatePool
<1>1. CASE n >= HugeThreshold
  <2>1. AllocateOutcomes(heap, n) = runway_allocate(heap, n)
    BY <1>0, <1>1, Zenon DEF AllocateOutcomes
  <2>2. PICK q \in Unused(heap) :
           o = Outcome([heap EXCEPT !.mapped = @ \cup {q}, !.large = Set(@, q, n)], q, TRUE)
    BY <2>1 DEF runway_allocate
  <2> QED
    BY <1>0, <1>1, <2>2, RunwayAllocateMoves DEF Outcome
<1>2. CASE ~(n >= HugeThreshold)
  <2>1. AllocateOutcomes(heap, n) = InnerAllocate(heap, n, Nowhere)
    BY <1>0, <1>2, Zenon DEF AllocateOutcomes
  <2>2. n < HugeThreshold
    BY <1>2, Constants
  <2> QED
    BY <1>0, <2>1, <2>2, InnerAllocateMoves
<1> QED
  BY <1>1, <1>2

\* A buffer on a runway that changes its size in place, or becomes small and
\* goes to the inner pool.
LEMMA RunwayResizeMoves ==
    ASSUME ActivateRunway, InnerNeverFails, IsHeap(heap), Separated(heap),
           NEW old \in Nat, old >= SmallThreshold, NEW n \in Nat, NEW p \in heap.mapped,
           NEW o \in RunwayResize(heap, old, n, p)
    PROVE  \/ o.ok /\ Moves(p, o, n)
           \/ ~o.ok /\ o.ptr = p /\ Moves(p, o, old)
<1> USE Constants
<1>0. p \in Addresses /\ p \notin DOMAIN heap.inner /\ p \notin {Zero, Nowhere} /\ p \notin Unused(heap)
  BY DEF Separated, Unused
<1>1. CASE n < SmallThreshold
  <2>1. PICK i \in InnerAllocate(heap, n, p) :
           o = Outcome(runway_free(i.heap, p), i.ptr, TRUE)
    BY <1>1 DEF RunwayResize
  <2>2. Moves(p, i, n) /\ i.ptr \in {Zero} \cup Unused(heap)
    <3>1. n < HugeThreshold
      BY <1>1
    <3> QED
      BY <3>1, HeapAsItIs, InnerAllocateMoves
  <2>3. i.ptr # p
    BY <1>0, <2>2
  <2> DEFINE h == i.heap
             g == runway_free(h, p)
  <2>4. o.heap = g /\ o.ptr = i.ptr /\ o.ok
    BY <2>1 DEF Outcome
  <2>5. IsHeap(h) /\ Separated(h)
    BY <2>2 DEF Moves
  <2>6. p \in h.mapped
    <3>1. \E q \in {Zero} \cup Unused(heap) : i.heap.mapped = heap.mapped
      BY InnerAllocateFacts DEF IsHeap, Outcome
    <3> QED
      BY <3>1
  <2> HIDE DEF h, g
  <2>7. /\ IsHeap(g) /\ Separated(g) /\ g.inner = h.inner /\ g.mapped = h.mapped \ {p}
    BY <2>5, <2>6, RunwayFreeFacts DEF g
  <2>8. Moves(p, o, n)
    BY <2>2, <2>3, <2>4, <2>7 DEF Moves, h
  <2> QED
    BY <2>4, <2>8
<1>2. CASE ~(n < SmallThreshold)
  <2> DEFINE g == [heap EXCEPT !.large = Set(@, p, n)]
  <2>1. o = Outcome(g, p, ~AdviseFails(old, n))
    BY <1>2 DEF RunwayResize
  <2>2. o.heap = g /\ o.ptr = p /\ o.ok = ~AdviseFails(old, n)
    BY <2>1 DEF Outcome
  <2>3. /\ IsHeap(g) /\ g.inner = heap.inner /\ g.large = Set(heap.large, p, n)
        /\ g.mapped = heap.mapped /\ g.bad = heap.bad
    BY DEF IsHeap
  <2> HIDE DEF g
  <2>4. DOMAIN g.large = DOMAIN heap.large \cup {p}
    BY <2>3 DEF Set, Erase
  <2>5. Separated(g)
    BY <2>3, <2>4 DEF Separated
  <2>6. \A x \in Addresses \ {p} :
           /\ x \in DOMAIN g.inner <=> x \in DOMAIN heap.inner
           /\ x \in g.mapped <=> x \in heap.mapped
    BY <2>3, <2>4 DEF Separated
  <2>7. p \in g.mapped /\ p \notin DOMAIN g.inner
    BY <1>0, <2>3
  <2>8. ASSUME NEW m \in Nat, m >= SmallThreshold
        PROVE  Moves(p, o, m)
    BY <2>2, <2>3, <2>5, <2>6, <2>7, <2>8 DEF Moves
  <2>9. n >= SmallThreshold
    BY <1>2
  <2> QED
    BY <2>2, <2>8, <2>9
<1> QED
  BY <1>1, <1>2

\* Reallocate finds a place for a buffer, or leaves it where it is.
LEMMA ReallocateMoves ==
    ASSUME ActivateRunway, InnerNeverFails, IsHeap(heap), RunwayInv, NEW b \in Buffers, Holds(b),
           NEW n \in Nat,
           NEW o \in ReallocateOutcomes(heap, buffer[b].size, n, buffer[b].addr)
    PROVE  \/ o.ok /\ Moves(buffer[b].addr, o, n)
           \/ ~o.ok /\ o.ptr = buffer[b].addr /\ Moves(buffer[b].addr, o, buffer[b].size)
<1> DEFINE p == buffer[b].addr
           old == buffer[b].size
<1> USE Constants
<1>0. /\ ~ActivatePool /\ old \in Nat /\ Separated(heap)
      /\ p \in {Zero} \cup DOMAIN heap.inner \cup heap.mapped
      /\ p \in heap.mapped => old >= SmallThreshold
  BY DEF RunwayInv, ActivateRunway, ActivatePool, Holds
<1> HIDE DEF p, old
<1>1. ASSUME NEW h, h = heap
      PROVE  p \in DOMAIN h.large <=> p \in heap.mapped
  BY <1>0, <1>1 DEF Separated
<1>2. CASE p \in heap.mapped
  <2>1. p \in DOMAIN heap.large /\ old >= SmallThreshold
    BY <1>0, <1>1, <1>2
  <2>2. ReallocateOutcomes(heap, old, n, p) = RunwayResize(heap, old, n, p)
    BY <1>0, <2>1, Zenon DEF ReallocateOutcomes
  <2> QED
    BY <1>0, <1>2, <2>1, <2>2, RunwayResizeMoves DEF p, old
<1>3. CASE p \notin heap.mapped
  <2>1. p \notin DOMAIN heap.large /\ (p = Zero \/ p \in DOMAIN heap.inner)
    BY <1>0, <1>1, <1>3
  <2> DEFINE h == InnerFree(heap, p)
  <2>2. Without(h, p) /\ p \notin DOMAIN h.inner /\ h.mapped = heap.mapped
    BY <1>0, <2>1, InnerFreed
  <2>3. CASE n >= HugeThreshold
    <3>1. ReallocateOutcomes(heap, old, n, p) = MoveToRunway(heap, n, p)
      BY <1>0, <2>1, <2>3, Zenon DEF ReallocateOutcomes
    <3>2. PICK i \in runway_allocate(heap, n) : o = Outcome(InnerFree(i.heap, p), i.ptr, TRUE)
      BY <3>1 DEF MoveToRunway, p, old
    <3>3. PICK q \in Unused(heap) :
             i = Outcome([heap EXCEPT !.mapped = @ \cup {q}, !.large = Set(@, q, n)], q, TRUE)
      BY <3>2 DEF runway_allocate
    <3> DEFINE f == [heap EXCEPT !.mapped = @ \cup {q}, !.large = Set(@, q, n)]
               g == [h EXCEPT !.mapped = @ \cup {q}, !.large = Set(@, q, n)]
    <3>4. i.heap = f /\ i.ptr = q
      BY <3>3 DEF Outcome
    <3>5. InnerFree(f, p) = g
      <4>1. f.inner = heap.inner /\ Zero \notin DOMAIN heap.inner
        BY <1>0 DEF IsHeap, Separated
      <4>2. CASE p = Zero
        <5>1. InnerFree(f, p) = f /\ h = heap
          BY <2>1, <4>1, <4>2, InnerFreeFacts
        <5> QED
          BY <5>1
      <4>3. CASE p # Zero
        <5>1. InnerFree(f, p) = [f EXCEPT !.inner = Erase(@, p)]
          BY <2>1, <4>1, <4>3, InnerFreeFacts
        <5>2. h = [heap EXCEPT !.inner = Erase(@, p)]
          BY <2>1, <4>1, <4>3, InnerFreeFacts
        <5> QED
          BY <5>1, <5>2 DEF IsHeap
      <4> QED
        BY <4>2, <4>3
    <3>6. q \in Unused(h)
      <4>1. DOMAIN h.inner \subseteq DOMAIN heap.inner
        BY <1>0, <2>2, Constants DEF Without, Separated
      <4> QED
        BY <2>2, <4>1 DEF Unused
    <3>7. o = Outcome(g, q, TRUE)
      BY <3>2, <3>4, <3>5
    <3> QED
      BY <2>2, <2>3, <3>6, <3>7, RunwayAllocateMoves DEF p, Outcome
  <2>4. CASE ~(n >= HugeThreshold)
    <3>1. ReallocateOutcomes(heap, old, n, p) = InnerReallocate(heap, n, p)
      BY <1>0, <2>1, <2>4, Zenon DEF ReallocateOutcomes
    <3>2. ~InnerMayFail
      BY DEF ActivateRunway, InnerNeverFails, InnerMayFail
    <3>3. ~h.bad
      BY <2>2 DEF Without, Separated
    <3>4. o \in InnerAllocate(h, n, p)
      BY <3>1, <3>2, <3>3 DEF InnerReallocate, p, old
    <3>5. n < HugeThreshold
      BY <2>4
    <3> QED
      BY <2>2, <3>4, <3>5, InnerAllocateMoves DEF p
  <2> QED
    BY <2>3, <2>4
<1> QED
  BY <1>2, <1>3

\* Free leaves the buffer without a place.
LEMMA FreeMoves ==
    ASSUME ActivateRunway, IsHeap(heap), RunwayInv, NEW b \in Buffers, Holds(b)
    PROVE  Moves(buffer[b].addr,
                 Outcome(FreeOutcome(heap, buffer[b].addr, buffer[b].size), Nowhere, TRUE), 0)
<1> DEFINE p == buffer[b].addr
           n == buffer[b].size
           h == FreeOutcome(heap, p, n)
           o == Outcome(h, Nowhere, TRUE)
<1> USE Constants
<1>0. /\ ~ActivatePool /\ n \in Nat /\ Separated(heap)
      /\ p \in {Zero} \cup DOMAIN heap.inner \cup heap.mapped
      /\ p \in heap.mapped => n >= SmallThreshold
  BY DEF RunwayInv, ActivateRunway, ActivatePool, Holds
<1>1. o.heap = h /\ o.ptr = Nowhere
  BY DEF Outcome
<1> HIDE DEF p, n
<1>2. Without(h, p)
  <2>1. CASE n >= SmallThreshold
    <3>1. h = runway_free(heap, p)
      BY <1>0, <2>1, Zenon DEF FreeOutcome
    <3>2. CASE p \in heap.mapped
      <4>1. /\ IsHeap(h) /\ Separated(h) /\ h.inner = heap.inner
            /\ h.mapped = heap.mapped \ {p}
        BY <1>0, <3>1, <3>2, RunwayFreeFacts
      <4> HIDE DEF h
      <4> QED
        BY <4>1 DEF Without, Unused
    <3>3. CASE p \notin heap.mapped
      <4>1. h = heap
        BY <1>0, <3>1, <3>3 DEF runway_free, Separated
      <4> QED
        BY <1>0, <4>1, HeapAsItIs
    <3> QED
      BY <3>2, <3>3
  <2>2. CASE ~(n >= SmallThreshold)
    <3>1. h = InnerFree(heap, p)
      BY <1>0, <2>2, Zenon DEF FreeOutcome
    <3>2. p = Zero \/ p \in DOMAIN heap.inner
      BY <1>0, <2>2
    <3> QED
      BY <1>0, <3>1, <3>2, InnerFreed
  <2> QED
    BY <2>1, <2>2
<1> HIDE DEF h, o
<1>3. Nowhere \notin DOMAIN h.inner /\ Nowhere \notin h.mapped
  BY <1>2 DEF Without, Separated
<1>4. Moves(p, o, 0)
  BY <1>1, <1>2, <1>3 DEF Moves, Without
<1> QED
  BY <1>4 DEF p, n, h, o

\* A step of the runway build keeps the invariant.
LEMMA RunwayStep ==
    ASSUME MemInv, ActivateRunway, InnerNeverFails, Next
    PROVE  IsHeap(heap') /\ RunwayInv'
<1> USE Constants
<1>0. IsHeap(heap) /\ RunwayInv /\ build = "runway" /\ build \in Builds
  BY DEF MemInv, ActivateRunway
<1>1. ASSUME NEW b \in Buffers, NEW n \in Sizes, Allocate(b, n)
      PROVE  IsHeap(heap') /\ RunwayInv'
  <2>1. PICK o \in AllocateOutcomes(heap, n) : Take(b, n, o)
    BY <1>1 DEF Allocate
  <2>2. n \in Nat /\ buffer[b].addr = Nowhere
    BY <1>1 DEF Allocate, Holds
  <2>3. o.ok /\ Moves(buffer[b].addr, o, n)
    BY <1>0, <2>2, AllocateMoves
  <2>4. heap' = o.heap /\ buffer' = [buffer EXCEPT ![b] = [addr |-> o.ptr, size |-> n]]
    BY <2>1, <2>3 DEF Take
  <2> QED
    BY <1>0, <2>2, <2>3, <2>4, MoveKeeps DEF Moves
<1>2. ASSUME NEW b \in Buffers, NEW n \in ReallocSizes[build], Reallocate(b, n)
      PROVE  IsHeap(heap') /\ RunwayInv'
  <2> DEFINE p == buffer[b].addr
             old == buffer[b].size
  <2>1. PICK o \in ReallocateOutcomes(heap, old, n, p) : Take(b, n, o)
    BY <1>2 DEF Reallocate
  <2>2. n \in Nat /\ old \in Nat /\ Holds(b)
    BY <1>0, <1>2 DEF Reallocate, RunwayInv
  <2>3. \/ o.ok /\ Moves(p, o, n)
        \/ ~o.ok /\ o.ptr = p /\ Moves(p, o, old)
    BY <1>0, <2>2, ReallocateMoves
  <2>4. CASE o.ok /\ Moves(p, o, n)
    <3>1. heap' = o.heap /\ buffer' = [buffer EXCEPT ![b] = [addr |-> o.ptr, size |-> n]]
      BY <2>1, <2>4 DEF Take
    <3> QED
      BY <1>0, <2>2, <2>4, <3>1, MoveKeeps DEF Moves
  <2>5. CASE ~o.ok /\ o.ptr = p /\ Moves(p, o, old)
    <3>1. heap' = o.heap /\ buffer' = buffer
      BY <2>1, <2>5 DEF Take
    <3>2. buffer' = [buffer EXCEPT ![b] = [addr |-> o.ptr, size |-> old]]
      BY <1>0, <2>5, <3>1 DEF RunwayInv
    <3> QED
      BY <1>0, <2>2, <2>5, <3>1, <3>2, MoveKeeps DEF Moves
  <2> QED
    BY <2>3, <2>4, <2>5
<1>3. ASSUME NEW b \in Buffers, Free(b)
      PROVE  IsHeap(heap') /\ RunwayInv'
  <2>1. PICK o : o = Outcome(FreeOutcome(heap, buffer[b].addr, buffer[b].size), Nowhere, TRUE)
    OBVIOUS
  <2>2. Moves(buffer[b].addr, o, 0)
    BY <1>0, <1>3, <2>1, FreeMoves DEF Free
  <2>3. o.heap = heap' /\ o.ptr = Nowhere
    BY <1>3, <2>1 DEF Free, Outcome
  <2>4. buffer' = [buffer EXCEPT ![b] = [addr |-> o.ptr, size |-> 0]]
    BY <1>3, <2>3 DEF Free, NoBuffer
  <2> QED
    BY <1>0, <2>2, <2>3, <2>4, MoveKeeps DEF Moves
<1> QED
  BY <1>1, <1>2, <1>3 DEF Next

-----------------------------------------------------------------------------
(* The block build.                                                        *)

\* pool_allocate takes the first block of the pool.
LEMMA BlockTaken ==
    ASSUME BlockInv, ~heap.bad, heap.blocks # << >>,
           NEW b \in Buffers, buffer[b].addr \notin Blocks,
           NEW n \in Nat, n # 0, n <= PreallocSize,
           heap'.blocks = Tail(heap.blocks), heap'.inner = heap.inner, heap'.bad = heap.bad,
           buffer' = [buffer EXCEPT ![b] = [addr |-> Head(heap.blocks), size |-> n]]
    PROVE  BlockInv'
<1> DEFINE s == heap.blocks
           k == Head(s)
           t == Tail(s)
<1> USE Constants
<1>1. /\ s \in Seq(Blocks) /\ k = s[1] /\ 1 \in DOMAIN s /\ k \in Blocks
      /\ t \in Seq(Blocks) /\ DOMAIN t = 1 .. Len(s) - 1 /\ DOMAIN s = 1 .. Len(s)
      /\ Len(s) \in Nat /\ \A i \in DOMAIN t : t[i] = s[i + 1]
  BY DEF BlockInv
<1>2. /\ buffer' \in [Buffers -> [addr : Blocks \cup {Zero, Nowhere}, size : Nat]]
      /\ buffer'[b].addr = k /\ buffer'[b].size = n
      /\ \A c \in Buffers \ {b} : buffer'[c] = buffer[c]
  BY <1>1 DEF BlockInv
<1>3. \A i, j \in DOMAIN s : s[i] = s[j] => i = j
  BY DEF BlockInv
<1> HIDE DEF s, k, t
<1>4. heap'.blocks = t /\ heap.blocks = s
  BY DEF s, t
<1>5. \A i, j \in DOMAIN t : t[i] = t[j] => i = j
  <2>1. \A i \in DOMAIN t : i \in Nat /\ i + 1 \in DOMAIN s /\ t[i] = s[i + 1]
    BY <1>1
  <2> QED
    BY <1>3, <2>1
<1>6. \A x : x \in Range(s) <=> x = k \/ x \in Range(t)
  <2>1. ASSUME NEW x \in Range(s)
        PROVE  x = k \/ x \in Range(t)
    <3>1. PICK i \in DOMAIN s : x = s[i]
      BY DEF Range
    <3>2. CASE i = 1
      BY <1>1, <3>1, <3>2
    <3>3. CASE i # 1
      <4>1. i - 1 \in DOMAIN t /\ t[i - 1] = x
        BY <1>1, <3>1, <3>3
      <4> QED
        BY <4>1 DEF Range
    <3> QED
      BY <3>2, <3>3
  <2>2. ASSUME NEW x \in Range(t)
        PROVE  x \in Range(s)
    <3>1. PICK i \in DOMAIN t : x = t[i]
      BY DEF Range
    <3>2. i + 1 \in DOMAIN s /\ s[i + 1] = x
      BY <1>1, <3>1
    <3> QED
      BY <3>2 DEF Range
  <2>3. k \in Range(s)
    BY <1>1 DEF Range
  <2> QED
    BY <2>1, <2>2, <2>3
<1>7. k \notin Range(t)
  <2>1. SUFFICES ASSUME NEW i \in DOMAIN t, k = t[i]
                 PROVE  FALSE
    BY DEF Range
  <2>2. i + 1 \in DOMAIN s /\ s[i + 1] = s[1] /\ i + 1 # 1
    BY <1>1, <2>1
  <2> QED
    BY <1>1, <1>3, <2>2
<1>8. \A c \in Buffers : buffer[c].addr # k
  BY <1>1, <1>4, <1>6 DEF BlockInv
<1>9. \A c \in Buffers :
         /\ buffer'[c].addr \in Blocks => /\ buffer'[c].addr \notin Range(t)
                                          /\ buffer'[c].size <= PreallocSize
                                          /\ buffer'[c].size # 0
         /\ buffer'[c].addr \notin Blocks => buffer'[c].size = 0
  BY <1>1, <1>2, <1>4, <1>6, <1>7 DEF BlockInv
<1>10. \A x \in Blocks : x \in Range(t) \/ \E c \in Buffers : buffer'[c].addr = x
  <2> SUFFICES ASSUME NEW x \in Blocks, x \notin Range(t)
               PROVE  \E c \in Buffers : buffer'[c].addr = x
    OBVIOUS
  <2>1. CASE x = k
    BY <1>2, <2>1
  <2>2. CASE x # k
    <3>1. PICK c \in Buffers : buffer[c].addr = x
      BY <1>4, <1>6, <2>2 DEF BlockInv
    <3> QED
      BY <1>2, <3>1
  <2> QED
    BY <2>1, <2>2
<1>11. BuffersApart'
  <2>1. \A c \in InUse' : c # b => c \in InUse /\ buffer'[c].addr = buffer[c].addr
    BY <1>2 DEF InUse
  <2> QED
    BY <1>2, <1>8, <2>1 DEF BlockInv, BuffersApart, InUse
<1> QED
  BY <1>1, <1>2, <1>4, <1>5, <1>9, <1>10, <1>11 DEF BlockInv

\* Free returns a block to the end of the pool.
LEMMA BlockGiven ==
    ASSUME BlockInv, ~heap.bad, NEW b \in Buffers, buffer[b].addr \in Blocks,
           heap'.blocks = Append(heap.blocks, buffer[b].addr),
           heap'.inner = heap.inner, heap'.bad = heap.bad,
           buffer' = [buffer EXCEPT ![b] = NoBuffer]
    PROVE  BlockInv'
<1> DEFINE s == heap.blocks
           k == buffer[b].addr
           t == Append(s, k)
<1> USE Constants
<1>1. /\ s \in Seq(Blocks) /\ k \in Blocks /\ k \notin Range(s)
      /\ t \in Seq(Blocks) /\ DOMAIN t = 1 .. Len(s) + 1 /\ DOMAIN s = 1 .. Len(s)
      /\ Len(s) \in Nat /\ \A i \in DOMAIN s : t[i] = s[i]
      /\ t[Len(s) + 1] = k
  BY DEF BlockInv
<1>2. /\ buffer' \in [Buffers -> [addr : Blocks \cup {Zero, Nowhere}, size : Nat]]
      /\ buffer'[b].addr = Nowhere /\ buffer'[b].size = 0
      /\ \A c \in Buffers \ {b} : buffer'[c] = buffer[c]
  BY <1>1 DEF BlockInv, NoBuffer
<1>3. \A i, j \in DOMAIN s : s[i] = s[j] => i = j
  BY DEF BlockInv
<1>4. \A c \in Buffers \ {b} : buffer[c].addr # k
  BY <1>1 DEF BlockInv, BuffersApart, InUse
<1>5. heap'.blocks = t /\ heap.blocks = s
  OBVIOUS
<1>6. buffer[b].addr = k
  OBVIOUS
<1> HIDE DEF s, k, t
<1>7. \A i \in DOMAIN s : s[i] # k
  BY <1>1 DEF Range
<1>8. \A i \in DOMAIN t : i = Len(s) + 1 \/ i \in DOMAIN s
  BY <1>1
<1>9. \A i, j \in DOMAIN t : t[i] = t[j] => i = j
  BY <1>1, <1>3, <1>7, <1>8
<1>10. \A x : x \in Range(t) <=> x = k \/ x \in Range(s)
  <2>1. \A i \in DOMAIN s : i \in DOMAIN t
    BY <1>1
  <2>2. Len(s) + 1 \in DOMAIN t
    BY <1>1
  <2> QED
    BY <1>1, <1>8, <2>1, <2>2 DEF Range
<1>11. \A c \in Buffers :
          /\ buffer'[c].addr \in Blocks => /\ buffer'[c].addr \notin Range(t)
                                           /\ buffer'[c].size <= PreallocSize
                                           /\ buffer'[c].size # 0
          /\ buffer'[c].addr \notin Blocks => buffer'[c].size = 0
  BY <1>2, <1>4, <1>5, <1>10 DEF BlockInv
<1>12. \A x \in Blocks : x \in Range(t) \/ \E c \in Buffers : buffer'[c].addr = x
  <2> SUFFICES ASSUME NEW x \in Blocks, x \notin Range(t)
               PROVE  \E c \in Buffers : buffer'[c].addr = x
    OBVIOUS
  <2>1. PICK c \in Buffers : buffer[c].addr = x
    BY <1>5, <1>10 DEF BlockInv
  <2>2. c # b
    BY <1>6, <1>10, <2>1
  <2> QED
    BY <1>2, <2>1, <2>2
<1>13. BuffersApart'
  <2>1. \A c \in InUse' : c # b /\ c \in InUse /\ buffer'[c].addr = buffer[c].addr
    BY <1>2 DEF InUse
  <2> QED
    BY <2>1 DEF BlockInv, BuffersApart
<1> QED
  BY <1>1, <1>2, <1>5, <1>9, <1>11, <1>12, <1>13 DEF BlockInv

\* A call that leaves the blocks as they are.
LEMMA BlocksKept ==
    ASSUME BlockInv, ~heap.bad, NEW b \in Buffers, NEW n \in Nat, NEW q,
           \/ /\ buffer[b].addr \in Blocks /\ q = buffer[b].addr
              /\ n <= PreallocSize /\ (n # 0 \/ heap'.bad)
           \/ buffer[b].addr \notin Blocks /\ q \in {Zero, Nowhere} /\ n = 0,
           heap'.blocks = heap.blocks, heap'.inner = heap.inner,
           BlocksStayBlocks => ~heap'.bad,
           buffer' = [buffer EXCEPT ![b] = [addr |-> q, size |-> n]]
    PROVE  BlockInv'
<1> USE Constants
<1>1. q \in Blocks \cup {Zero, Nowhere} /\ (q \in Blocks => q = buffer[b].addr)
  OBVIOUS
<1>2. /\ buffer' \in [Buffers -> [addr : Blocks \cup {Zero, Nowhere}, size : Nat]]
      /\ buffer'[b].addr = q /\ buffer'[b].size = n
      /\ \A c \in Buffers \ {b} : buffer'[c] = buffer[c]
  BY <1>1 DEF BlockInv
<1>3. \A c \in Buffers :
         /\ buffer'[c].addr \in Blocks => buffer'[c].addr = buffer[c].addr
         /\ buffer[c].addr \in Blocks => buffer'[c].addr = buffer[c].addr
  BY <1>2
<1>4. \A c \in Buffers :
         /\ buffer'[c].addr \in Blocks => /\ buffer'[c].addr \notin Range(heap'.blocks)
                                          /\ buffer'[c].size <= PreallocSize
                                          /\ ~heap'.bad => buffer'[c].size # 0
         /\ buffer'[c].addr \notin Blocks => buffer'[c].size = 0
  BY <1>2 DEF BlockInv
<1>5. \A k \in Blocks : k \in Range(heap'.blocks) \/ \E c \in Buffers : buffer'[c].addr = k
  BY <1>3 DEF BlockInv
<1>6. BuffersApart'
  <2>1. \A c \in InUse' : c \in InUse /\ buffer'[c].addr = buffer[c].addr
    BY <1>2, <1>3 DEF InUse
  <2> QED
    BY <2>1 DEF BlockInv, BuffersApart
<1> QED
  BY <1>2, <1>4, <1>5, <1>6 DEF BlockInv

\* A change to the blocks, or to the flag, changes nothing else.
LEMMA OneField ==
    ASSUME NEW h, IsHeap(h), NEW v
    PROVE  /\ IsHeap([h EXCEPT !.blocks = v]) /\ [h EXCEPT !.blocks = v].blocks = v
           /\ [h EXCEPT !.blocks = v].inner = h.inner /\ [h EXCEPT !.blocks = v].bad = h.bad
           /\ IsHeap([h EXCEPT !.bad = v]) /\ [h EXCEPT !.bad = v].bad = v
           /\ [h EXCEPT !.bad = v].inner = h.inner /\ [h EXCEPT !.bad = v].blocks = h.blocks
BY DEF IsHeap

\* pool_allocate hands out a block, or fails and changes nothing.
LEMMA PoolAllocateFacts ==
    ASSUME IsHeap(heap), NEW n, NEW p, NEW o \in pool_allocate(heap, n, p)
    PROVE  \/ ~o.ok /\ o.heap = heap
           \/ /\ o.ok /\ ~(n > PreallocSize) /\ heap.blocks # << >>
              /\ o.heap.blocks = Tail(heap.blocks) /\ o.ptr = Head(heap.blocks)
              /\ o.heap.inner = heap.inner /\ o.heap.bad = heap.bad /\ IsHeap(o.heap)
<1>1. CASE n > PreallocSize \/ heap.blocks = << >>
  BY <1>1 DEF pool_allocate, Outcome
<1>2. CASE ~(n > PreallocSize \/ heap.blocks = << >>)
  <2> DEFINE g == [heap EXCEPT !.blocks = Tail(@)]
  <2>1. o = Outcome(g, Head(heap.blocks), TRUE)
    BY <1>2 DEF pool_allocate
  <2>2. o.heap = g /\ o.ptr = Head(heap.blocks) /\ o.ok
    BY <2>1 DEF Outcome
  <2>3. /\ IsHeap(g) /\ g.inner = heap.inner /\ g.blocks = Tail(heap.blocks)
        /\ g.bad = heap.bad
    <3>1. PICK v : v = Tail(heap.blocks)
      OBVIOUS
    <3>2. g = [heap EXCEPT !.blocks = v]
      BY <3>1
    <3> HIDE DEF g
    <3>3. IsHeap(heap)
      OBVIOUS
    <3>4. IsHeap(g) /\ g.blocks = v
      BY ONLY <3>2, <3>3 DEF IsHeap
    <3>5. g.inner = heap.inner /\ g.bad = heap.bad
      BY ONLY <3>2, <3>3 DEF IsHeap
    <3> QED
      BY ONLY <3>1, <3>4, <3>5, Zenon
  <2> QED
    BY <1>2, <2>2, <2>3
<1> QED
  BY <1>1, <1>2

\* A step of the block build keeps the invariant.
LEMMA BlockStep ==
    ASSUME MemInv, ActivatePool, Next
    PROVE  IsHeap(heap') /\ BlockInv'
<1> USE Constants
<1>0. IsHeap(heap) /\ BlockInv /\ build = "pool" /\ build \in Builds /\ ~ActivateRunway
  BY DEF MemInv, ActivatePool, ActivateRunway
<1>1. ASSUME heap' = heap, buffer' = buffer
      PROVE  IsHeap(heap') /\ BlockInv'
  BY <1>0, <1>1 DEF BlockInv, BuffersApart, InUse
<1>2. ASSUME NEW b \in Buffers, NEW n \in Nat, NEW p, NEW o \in pool_allocate(heap, n, p),
             ~heap.bad, buffer[b].addr \notin Blocks, n # 0, Take(b, n, o)
      PROVE  IsHeap(heap') /\ BlockInv'
  <2>1. CASE ~o.ok /\ o.heap = heap
    BY <1>1, <1>2, <2>1 DEF Take
  <2>2. CASE /\ o.ok /\ ~(n > PreallocSize) /\ heap.blocks # << >>
             /\ o.heap.blocks = Tail(heap.blocks) /\ o.ptr = Head(heap.blocks)
             /\ o.heap.inner = heap.inner /\ o.heap.bad = heap.bad /\ IsHeap(o.heap)
    <3>1. /\ heap' = o.heap
          /\ buffer' = [buffer EXCEPT ![b] = [addr |-> Head(heap.blocks), size |-> n]]
      BY <1>2, <2>2 DEF Take
    <3>2. n <= PreallocSize
      BY <2>2
    <3> QED
      BY <1>0, <1>2, <2>2, <3>1, <3>2, BlockTaken
  <2> QED
    BY <1>0, <1>2, <2>1, <2>2, PoolAllocateFacts
<1>3. ASSUME NEW b \in Buffers, NEW n \in Sizes, Allocate(b, n)
      PROVE  IsHeap(heap') /\ BlockInv'
  <2>1. PICK o \in AllocateOutcomes(heap, n) : Take(b, n, o)
    BY <1>3 DEF Allocate
  <2>2. n \in Nat /\ ~heap.bad /\ buffer[b].addr \notin Blocks
    BY <1>3 DEF Allocate, Holds
  <2>3. CASE n > 0
    <3>1. AllocateOutcomes(heap, n) = pool_allocate(heap, n, Nowhere)
      BY <1>0, <2>3, Zenon DEF AllocateOutcomes
    <3> QED
      BY <1>2, <2>1, <2>2, <2>3, <3>1
  <2>4. CASE ~(n > 0)
    <3>1. AllocateOutcomes(heap, n) = InnerAllocate(heap, n, Nowhere)
      BY <1>0, <2>4, Zenon DEF AllocateOutcomes
    <3>2. n = 0
      BY <2>2, <2>4
    <3>3. o = Outcome(heap, Zero, TRUE)
      BY <3>1, <3>2 DEF InnerAllocate
    <3>4. heap' = heap /\ buffer' = [buffer EXCEPT ![b] = [addr |-> Zero, size |-> n]]
      BY <2>1, <3>3 DEF Take, Outcome
    <3>5. BlocksStayBlocks => ~heap'.bad
      BY <2>2, <3>4
    <3> QED
      BY <1>0, <2>2, <3>2, <3>4, <3>5, BlocksKept
  <2> QED
    BY <2>3, <2>4
<1>4. ASSUME NEW b \in Buffers, NEW n \in ReallocSizes[build], Reallocate(b, n)
      PROVE  IsHeap(heap') /\ BlockInv'
  <2> DEFINE p == buffer[b].addr
             old == buffer[b].size
  <2>1. PICK o \in ReallocateOutcomes(heap, old, n, p) : Take(b, n, o)
    BY <1>4 DEF Reallocate
  <2>2. /\ n \in Nat /\ old \in Nat /\ ~heap.bad
        /\ \/ p \in Blocks /\ old # 0
           \/ p = Zero /\ old = 0
    BY <1>0, <1>4 DEF Reallocate, Holds, BlockInv
  <2>3. CASE n > 0
    <3>1. ReallocateOutcomes(heap, old, n, p) = pool_reallocate(heap, old, n, p)
      BY <1>0, <2>3, Zenon DEF ReallocateOutcomes
    <3>2. CASE old = 0
      <4>1. o \in pool_allocate(heap, n, p)
        BY <2>1, <3>1, <3>2 DEF pool_reallocate
      <4> QED
        BY <1>2, <2>1, <2>2, <2>3, <3>2, <4>1
    <3>3. CASE old # 0
      <4>1. o = Outcome(heap, p, n <= PreallocSize)
        BY <2>1, <3>1, <3>3 DEF pool_reallocate
      <4>2. o.heap = heap /\ o.ptr = p /\ (o.ok <=> n <= PreallocSize)
        BY <4>1 DEF Outcome
      <4>3. CASE o.ok
        <5>1. /\ heap' = heap /\ n <= PreallocSize /\ n # 0
              /\ buffer' = [buffer EXCEPT ![b] = [addr |-> p, size |-> n]]
          BY <2>1, <2>2, <2>3, <4>2, <4>3 DEF Take
        <5>2. BlocksStayBlocks => ~heap'.bad
          BY <2>2, <5>1
        <5> QED
          BY <1>0, <2>2, <3>3, <5>1, <5>2, BlocksKept
      <4>4. CASE ~o.ok
        BY <1>1, <2>1, <4>2, <4>4 DEF Take
      <4> QED
        BY <4>3, <4>4
    <3> QED
      BY <3>2, <3>3
  <2>4. CASE ~(n > 0)
    <3>1. ReallocateOutcomes(heap, old, n, p) = InnerReallocate(heap, n, p)
      BY <1>0, <2>4, Zenon DEF ReallocateOutcomes
    <3>2. n = 0
      BY <2>2, <2>4
    <3>3. CASE p = Zero
      <4>1. InnerFree(heap, p) = heap
        BY <1>0, <3>3, InnerFreeFacts DEF BlockInv
      <4>2. o = Outcome(heap, Zero, TRUE) \/ o = Outcome(heap, p, FALSE)
        BY <2>1, <2>2, <3>1, <3>2, <4>1 DEF InnerReallocate, InnerAllocate
      <4>3. CASE o = Outcome(heap, Zero, TRUE)
        <5>1. heap' = heap /\ buffer' = [buffer EXCEPT ![b] = [addr |-> Zero, size |-> n]]
          BY <2>1, <4>3 DEF Take, Outcome
        <5>2. BlocksStayBlocks => ~heap'.bad
          BY <2>2, <5>1
        <5> QED
          BY <1>0, <2>2, <3>2, <3>3, <5>1, <5>2, BlocksKept
      <4>4. CASE o = Outcome(heap, p, FALSE)
        BY <1>1, <2>1, <4>4 DEF Take, Outcome
      <4> QED
        BY <4>2, <4>3, <4>4
    <3>4. CASE p # Zero
      <4> DEFINE g == [heap EXCEPT !.bad = TRUE]
      <4>1. InnerFree(heap, p) = g
        <5>1. p # Zero /\ p \notin DOMAIN heap.inner
          BY <1>0, <3>4 DEF BlockInv
        <5> QED
          BY <5>1, Zenon DEF InnerFree
      <4>2. /\ IsHeap(g) /\ g.bad = TRUE /\ g.blocks = heap.blocks /\ g.inner = heap.inner
        BY <1>0, OneField, Zenon
      <4>3. o = Outcome(g, p, TRUE)
        BY <2>1, <3>1, <4>1, <4>2 DEF InnerReallocate
      <4>4. heap' = g /\ buffer' = [buffer EXCEPT ![b] = [addr |-> p, size |-> n]]
        BY <2>1, <4>3 DEF Take, Outcome
      <4>5. ~BlocksStayBlocks
        BY <1>0, <1>4, <3>2 DEF BlocksStayBlocks
      <4>6. n <= PreallocSize
        BY <3>2
      <4> HIDE DEF g
      <4> QED
        BY <1>0, <2>2, <3>4, <4>2, <4>4, <4>5, <4>6, BlocksKept
    <3> QED
      BY <3>3, <3>4
  <2> QED
    BY <2>3, <2>4
<1>5. ASSUME NEW b \in Buffers, Free(b)
      PROVE  IsHeap(heap') /\ BlockInv'
  <2> DEFINE p == buffer[b].addr
             n == buffer[b].size
  <2>1. /\ n \in Nat /\ ~heap.bad
        /\ \/ p \in Blocks /\ n # 0
           \/ p = Zero /\ n = 0
    BY <1>0, <1>5 DEF Free, Holds, BlockInv
  <2>2. heap' = FreeOutcome(heap, p, n) /\ buffer' = [buffer EXCEPT ![b] = NoBuffer]
    BY <1>5 DEF Free
  <2>3. CASE p \in Blocks /\ n # 0
    <3> DEFINE g == [heap EXCEPT !.blocks = Append(@, p)]
    <3>1. n > 0
      BY <2>1, <2>3
    <3>2. FreeOutcome(heap, p, n) = g
      BY <1>0, <3>1, Zenon DEF FreeOutcome
    <3>3. /\ IsHeap(g) /\ g.bad = heap.bad /\ g.blocks = Append(heap.blocks, p)
          /\ g.inner = heap.inner
      <4>1. PICK v : v = Append(heap.blocks, p)
        OBVIOUS
      <4> DEFINE f == [heap EXCEPT !.blocks = v]
      <4>2. IsHeap(f) /\ f.bad = heap.bad /\ f.blocks = v /\ f.inner = heap.inner
        BY <1>0 DEF IsHeap
      <4>3. g = f
        BY <4>1
      <4> HIDE DEF f, g
      <4> QED
        BY <4>1, <4>2, <4>3
    <3>4. heap' = g
      BY <2>2, <3>2
    <3> HIDE DEF g
    <3> QED
      BY <1>0, <2>1, <2>2, <2>3, <3>3, <3>4, BlockGiven
  <2>4. CASE p = Zero /\ n = 0
    <3>0. ~(n > 0)
      BY <2>4
    <3>1. FreeOutcome(heap, p, n) = InnerFree(heap, p)
      BY <1>0, <3>0, Zenon DEF FreeOutcome
    <3>2. InnerFree(heap, p) = heap
      BY <1>0, <2>4, InnerFreeFacts DEF BlockInv
    <3>3. heap' = heap /\ buffer' = [buffer EXCEPT ![b] = [addr |-> Nowhere, size |-> 0]]
      BY <2>2, <3>1, <3>2 DEF NoBuffer
    <3>4. BlocksStayBlocks => ~heap'.bad
      BY <2>1, <3>3
    <3> QED
      BY <1>0, <2>1, <2>4, <3>3, <3>4, BlocksKept
  <2> QED
    BY <2>1, <2>3, <2>4
<1> QED
  BY <1>3, <1>4, <1>5 DEF Next

-----------------------------------------------------------------------------
(* The theorems.                                                           *)

\* The preallocated blocks: each once, as the constructor pushes them.
LEMMA AllBlocks ==
    /\ SetToSeq(Blocks) \in Seq(Blocks)
    /\ \A i, j \in DOMAIN SetToSeq(Blocks) : SetToSeq(Blocks)[i] = SetToSeq(Blocks)[j] => i = j
    /\ \A k \in Blocks : k \in Range(SetToSeq(Blocks))
<1> DEFINE n == Cardinality(Blocks)
           s == SetToSeq(Blocks)
<1>1. n \in Nat /\ ExistsBijection(1 .. n, Blocks) /\ IsFiniteSet(Blocks)
  BY FS_CardinalityType, AddressesAssumption
<1>2. \E f \in [1 .. n -> Blocks] : IsInjective(f)
  BY <1>1 DEF ExistsBijection, Bijection, Injection, IsInjective
<1>3. s \in [1 .. n -> Blocks] /\ IsInjective(s)
  BY <1>2 DEF SetToSeq
<1> HIDE DEF s
<1>4. s \in Injection(1 .. n, Blocks)
  BY <1>3 DEF Injection
<1>5. IsFiniteSet(1 .. n) /\ Cardinality(1 .. n) = n
  BY <1>1, FS_Interval
<1>6. s \in Surjection(1 .. n, Blocks)
  BY <1>1, <1>4, <1>5, FS_Injection
<1>7. s \in Seq(Blocks)
  BY <1>1, <1>3
<1>8. \A k \in Blocks : k \in Range(s)
  BY <1>3, <1>6 DEF Surjection, Range
<1> QED
  BY <1>3, <1>7, <1>8 DEF s, IsInjective

\* MemInv is an invariant of every build.
THEOREM MemInvariant == Spec => []MemInv
<1> USE Constants
<1>1. Init => MemInv
  <2> SUFFICES ASSUME Init
               PROVE  MemInv
    OBVIOUS
  <2>1. /\ IsHeap(heap) /\ heap.inner = << >> /\ heap.large = << >> /\ heap.mapped = {}
        /\ heap.blocks = IF ActivatePool THEN SetToSeq(Blocks) ELSE << >>
        /\ ~heap.bad
    BY DEF Init, IsHeap
  <2>2. \A b \in Buffers : buffer[b].addr = Nowhere /\ buffer[b].size = 0
    BY DEF Init, NoBuffer
  <2>3. /\ buffer \in [Buffers -> [addr : Addresses \cup {Zero, Nowhere}, size : Nat]]
        /\ buffer \in [Buffers -> [addr : Blocks \cup {Zero, Nowhere}, size : Nat]]
    BY DEF Init, NoBuffer
  <2>4. BuffersApart
    BY <2>2 DEF BuffersApart, InUse
  <2>5. DOMAIN heap.inner = {} /\ DOMAIN heap.large = {}
    BY <2>1
  <2>6. RunwayInv
    BY <2>1, <2>2, <2>3, <2>4, <2>5 DEF RunwayInv, Separated
  <2>7. ActivatePool => BlockInv
    BY <2>1, <2>2, <2>3, <2>4, <2>5, AllBlocks DEF BlockInv
  <2>8. build \in Builds
    BY DEF Init
  <2> QED
    BY <2>1, <2>6, <2>7, <2>8 DEF MemInv
<1>2. MemInv /\ [Next]_vars => MemInv'
  <2> SUFFICES ASSUME MemInv, [Next]_vars
               PROVE  MemInv'
    OBVIOUS
  <2>1. CASE Next
    <3>1. build' = build
      BY <2>1 DEF Next, Allocate, Reallocate, Free, Take
    <3> QED
      BY <2>1, <3>1, RunwayStep, BlockStep DEF MemInv, ActivateRunway, ActivatePool, InnerNeverFails
  <2>2. CASE UNCHANGED vars
    BY <2>2 DEF vars, MemInv, RunwayInv, BlockInv, ActivateRunway, ActivatePool, BuffersApart,
                InUse
  <2> QED
    BY <2>1, <2>2
<1> QED
  BY <1>1, <1>2, PTL DEF Spec

\* Two buffers never share memory, whatever moves they have been through, as
\* long as the inner pool has memory for a buffer that leaves its runway.
THEOREM NoSharing ==
    ASSUME InnerNeverFails
    PROVE  Spec => []BuffersApart
<1>1. MemInv => BuffersApart
  BY Constants DEF MemInv, ActivateRunway, ActivatePool, RunwayInv, BlockInv
<1> QED
  BY <1>1, MemInvariant, PTL

\* The runway build: a small buffer is in the inner pool, a huge one on a
\* runway, and one in between is on a runway or Medium.
LEMMA RunwayReleases ==
    ASSUME ActivateRunway, IsHeap(heap), RunwayInv, NEW b \in InUse
    PROVE  Medium(b) \/ Released(FreeOutcome(heap, buffer[b].addr, buffer[b].size), buffer[b].addr)
<1> DEFINE p == buffer[b].addr
           n == buffer[b].size
           h == FreeOutcome(heap, p, n)
<1>1. /\ ~ActivatePool /\ n \in Nat /\ Separated(heap)
      /\ p \in DOMAIN heap.inner \cup heap.mapped
      /\ p \in heap.mapped => n >= SmallThreshold
      /\ p \in DOMAIN heap.inner => n < HugeThreshold
  BY DEF RunwayInv, ActivateRunway, ActivatePool, InUse
<1>2. p \notin Blocks
  BY <1>1, AddressesAssumption DEF Separated
<1> HIDE DEF p, n
<1>3. CASE n >= SmallThreshold /\ p \in heap.mapped
  <2>1. h = runway_free(heap, p)
    BY <1>1, <1>3, Zenon DEF FreeOutcome
  <2>2. Separated(h) /\ h.inner = heap.inner /\ h.mapped = heap.mapped \ {p}
    BY <1>1, <1>3, <2>1, RunwayFreeFacts
  <2> HIDE DEF h
  <2>3. Released(h, p)
    BY <1>1, <1>2, <1>3, <2>2 DEF Released, Separated
  <2> QED
    BY <2>3 DEF h, p, n
<1>4. CASE n >= SmallThreshold /\ p \notin heap.mapped
  BY <1>1, <1>4, Constants DEF Medium, p, n
<1>5. CASE ~(n >= SmallThreshold)
  <2>1. h = InnerFree(heap, p)
    BY <1>1, <1>5, Zenon DEF FreeOutcome
  <2>2. p \in DOMAIN heap.inner
    BY <1>1, <1>5
  <2>3. Separated(h) /\ p \notin DOMAIN h.inner /\ h.mapped = heap.mapped
    BY <1>1, <2>1, <2>2, InnerFreed DEF Without
  <2> HIDE DEF h
  <2>4. Released(h, p)
    BY <1>1, <1>2, <2>2, <2>3 DEF Released, Separated
  <2> QED
    BY <2>4 DEF h, p, n
<1> QED
  BY <1>3, <1>4, <1>5

\* The block build: a buffer in use is a block, and its size is not 0.
LEMMA BlockReleases ==
    ASSUME ActivatePool, IsHeap(heap), BlockInv, ~heap.bad, NEW b \in InUse
    PROVE  Released(FreeOutcome(heap, buffer[b].addr, buffer[b].size), buffer[b].addr)
<1> DEFINE p == buffer[b].addr
           n == buffer[b].size
           s == heap.blocks
<1>1. p \in Blocks /\ n \in Nat /\ n # 0 /\ s \in Seq(Blocks) /\ ~ActivateRunway
  BY DEF BlockInv, InUse, ActivatePool, ActivateRunway
<1>2. n > 0
  BY <1>1
<1> HIDE DEF p, n, s
<1>3. FreeOutcome(heap, p, n) = [heap EXCEPT !.blocks = Append(@, p)]
  BY <1>1, <1>2, Zenon DEF FreeOutcome
<1>4. PICK h : h = [heap EXCEPT !.blocks = Append(s, p)]
  OBVIOUS
<1>5. h.blocks = Append(s, p) /\ h.bad = heap.bad
  BY <1>4 DEF IsHeap
<1>6. Append(s, p)[Len(s) + 1] = p /\ Len(s) + 1 \in DOMAIN Append(s, p)
  BY <1>1
<1>7. p \in Range(h.blocks)
  BY <1>5, <1>6 DEF Range
<1>8. Released(h, p)
  BY <1>1, <1>5, <1>7 DEF Released
<1> QED
  BY <1>3, <1>4, <1>8 DEF p, n, s

\* Free always reaches the allocator that has the buffer, but for the buffers
\* that are Medium; for every size and whichever reallocations failed.
THEOREM FreeFindsTheOwner ==
    ASSUME InnerNeverFails, BlocksStayBlocks
    PROVE  Spec => []FreeReleases
<1>1. MemInv => FreeReleases
  <2> SUFFICES ASSUME MemInv, NEW b \in InUse
               PROVE  \/ Medium(b)
                      \/ Released(FreeOutcome(heap, buffer[b].addr, buffer[b].size), buffer[b].addr)
    BY DEF FreeReleases
  <2>1. CASE ActivateRunway
    BY <2>1, RunwayReleases DEF MemInv
  <2>2. CASE ActivatePool
    <3>1. IsHeap(heap) /\ BlockInv /\ ~heap.bad
      BY <2>2 DEF MemInv, BlockInv
    <3> QED
      BY <2>2, <3>1, BlockReleases
  <2> QED
    BY <2>1, <2>2, Constants DEF MemInv, ActivateRunway, ActivatePool
<1> QED
  BY <1>1, MemInvariant, PTL

\* The inner pool is given its own allocations only, if in addition no block
\* is reallocated to size 0.
THEOREM InnerPoolIsSafe ==
    ASSUME InnerNeverFails, BlocksStayBlocks
    PROVE  Spec => []InnerFreesItsOwn
<1>1. MemInv => InnerFreesItsOwn
  BY Constants DEF MemInv, ActivateRunway, ActivatePool, RunwayInv, BlockInv, Separated,
                   InnerFreesItsOwn
<1> QED
  BY <1>1, MemInvariant, PTL

\* No block is lost or handed out twice: the pool and the buffers have them
\* all, and together as many as there are.
THEOREM NoBlockIsLost == Spec => []BlocksConserved
<1>1. ASSUME MemInv, ActivatePool
      PROVE  /\ Range(heap.blocks) \cup ({buffer[b].addr : b \in Buffers} \cap Blocks) = Blocks
             /\ Len(heap.blocks) + Cardinality({b \in Buffers : buffer[b].addr \in Blocks})
                   = Cardinality(Blocks)
  <2> DEFINE s == heap.blocks
             T == {buffer[b].addr : b \in Buffers} \cap Blocks
             B == {b \in Buffers : buffer[b].addr \in Blocks}
  <2>1. BlockInv
    BY <1>1 DEF MemInv
  <2>2. s \in Seq(Blocks) /\ Range(s) \subseteq Blocks
    BY <2>1 DEF BlockInv, Range
  <2>3. T = Blocks \ Range(s)
    BY <2>1 DEF BlockInv
  <2>4. IsFiniteSet(Blocks) /\ Cardinality(Blocks) \in Nat
    BY AddressesAssumption, FS_CardinalityType
  <2>5. IsFiniteSet(Range(s)) /\ Cardinality(Range(s)) = Len(s)
    <3>1. s \in [1 .. Len(s) -> Range(s)] /\ Len(s) \in Nat
      BY <2>2 DEF Range
    <3>2. \A i, j \in 1 .. Len(s) : s[i] = s[j] => i = j
      BY <2>1, <2>2 DEF BlockInv
    <3>3. s \in Bijection(1 .. Len(s), Range(s))
      BY <3>1, <3>2 DEF Bijection, Injection, Surjection, IsInjective, Range
    <3>4. IsFiniteSet(1 .. Len(s)) /\ Cardinality(1 .. Len(s)) = Len(s)
      <4>1. PICK m \in Nat : m = Len(s)
        BY <3>1
      <4>2. /\ IsFiniteSet(1 .. m)
            /\ Cardinality(1 .. m) = IF 1 > m THEN 0 ELSE m - 1 + 1
        BY FS_Interval
      <4>3. Cardinality(1 .. m) = m
        BY <4>2
      <4> QED
        BY <4>1, <4>2, <4>3
    <3> QED
      BY <3>3, <3>4, FS_Bijection DEF ExistsBijection
  <2>6. IsFiniteSet(T) /\ Cardinality(T) = Cardinality(Blocks) - Len(s)
    <3>1. Blocks \cap Range(s) = Range(s)
      BY <2>2
    <3>2. /\ IsFiniteSet(Blocks \ Range(s))
          /\ Cardinality(Blocks \ Range(s)) = Cardinality(Blocks) - Cardinality(Blocks \cap Range(s))
      BY <2>4, FS_Difference
    <3> QED
      BY <2>3, <2>5, <3>1, <3>2
  <2>7. Cardinality(B) = Cardinality(T)
    <3> DEFINE f == [b \in B |-> buffer[b].addr]
    <3>1. f \in [B -> T]
      OBVIOUS
    <3>2. \A a, b \in B : f[a] = f[b] => a = b
      BY <2>1, Constants DEF BlockInv, BuffersApart, InUse
    <3>3. \A t \in T : \E b \in B : f[b] = t
      OBVIOUS
    <3>4. f \in Injection(B, T) /\ f \in Surjection(B, T)
      BY <3>1, <3>2, <3>3 DEF Injection, Surjection, IsInjective
    <3> HIDE DEF f
    <3> QED
      BY <2>6, <3>4, FS_Injection
  <2>8. Len(s) \in Nat
    BY <2>2
  <2> HIDE DEF s, T, B
  <2>9. Range(s) \cup T = Blocks
    BY <2>2, <2>3
  <2>10. Len(s) + Cardinality(B) = Cardinality(Blocks)
    BY <2>4, <2>6, <2>7, <2>8
  <2> QED
    BY <2>9, <2>10 DEF s, T, B
<1>2. MemInv => BlocksConserved
  BY <1>1 DEF BlocksConserved
<1> QED
  BY <1>2, MemInvariant, PTL

=============================================================================
