--------------------------- MODULE CustMemoryPool ---------------------------
(***************************************************************************)
(* Buzz::CustomMemoryPool (util/cust_memory_pool.h, .cc): an allocator     *)
(* that puts large buffers on "runways", 1 GB mappings in which they can   *)
(* grow without being moved, or (another build) in preallocated blocks,    *)
(* and forwards the rest to an inner pool.  Which of them a buffer belongs *)
(* to is decided anew by each call, from the sizes the caller passes and   *)
(* from large_allocs_.                                                     *)
(*                                                                         *)
(* A call is one step: its critical sections concern a buffer that the     *)
(* caller alone uses.  Sizes are scaled down; lengths passed to madvise    *)
(* are unsigned.  mmap succeeds and no buffer outgrows its runway.         *)
(***************************************************************************)
EXTENDS Integers, FiniteSets, SequencesExt

CONSTANTS
    Buffers,       \* the buffers of the callers
    Addresses,     \* memory that the OS and the inner pool hand out
    Blocks,        \* the blocks the constructor preallocates
    Zero, Nowhere, \* the inner pool's address for size 0, and no address
    Sizes,         \* the sizes that callers ask for
    SmallThreshold, HugeThreshold, PreallocSize, PageSize,
    Builds,        \* "runway", "pool", or both: which #define is active
    ReallocSizes,  \* ReallocSizes[build]: the sizes passed to Reallocate
    MayFail        \* the builds whose inner pool may run out of memory

ASSUME SizesAssumption ==
    Sizes \subseteq Nat /\ ReallocSizes \in [Builds -> SUBSET Sizes]
ASSUME AddressesAssumption ==
    /\ Zero # Nowhere /\ {Zero, Nowhere} \cap (Addresses \cup Blocks) = {}
    /\ Addresses \cap Blocks = {} /\ IsFiniteSet(Blocks)
ASSUME ThresholdsAssumption ==
    /\ {SmallThreshold, HugeThreshold, PreallocSize} \subseteq Nat /\ PageSize \in Nat \ {0}
    /\ 0 < SmallThreshold /\ SmallThreshold <= HugeThreshold
    /\ SmallThreshold % PageSize = 0 /\ HugeThreshold % PageSize = 0
ASSUME BuildsAssumption == Builds \subseteq {"runway", "pool"} /\ MayFail \subseteq Builds

VARIABLES
    build,   \* how the program was compiled; it never changes
    heap,    \* .inner: the live allocations of pool_ and their sizes,
             \* .large: large_allocs_, .mapped: the runways that are mapped,
             \* .blocks: pool_allocs_, .bad: pool_ was given an address not its own
    buffer,  \* each buffer: the address and the size its owner has
    status   \* what the last call returned

vars == <<build, heap, buffer, status>>

ActivateRunway == build = "runway"
ActivatePool == build = "pool"
InnerMayFail == build \in MayFail

NoBuffer == [addr |-> Nowhere, size |-> 0]

Init ==
    /\ build \in Builds
    /\ heap = [inner |-> << >>, large |-> << >>, mapped |-> {},
               blocks |-> IF ActivatePool THEN SetToSeq(Blocks) ELSE << >>, bad |-> FALSE]
    /\ buffer = [b \in Buffers |-> NoBuffer]
    /\ status = "ok"

whole_page_size(n) == IF n % PageSize = 0 THEN n ELSE n + PageSize - (n % PageSize)

\* std::map: f[x] = y, and erase.
Set(f, x, y) == [z \in DOMAIN f \cup {x} |-> IF z = x THEN y ELSE f[z]]
Erase(f, x) == [z \in DOMAIN f \ {x} |-> f[z]]

Unused(h) == Addresses \ (DOMAIN h.inner \cup h.mapped)

-----------------------------------------------------------------------------
(* An operation maps a heap to the set of its outcomes: the new heap, what *)
(* *ptr then is, and whether the status is OK.                             *)

Outcome(h, p, ok) == [heap |-> h, ptr |-> p, ok |-> ok]

\* pool_, external.  A free of an address that is not its own ends in an abort.
InnerFree(h, p) ==
    CASE p = Zero -> h
      [] p \in DOMAIN h.inner -> [h EXCEPT !.inner = Erase(@, p)]
      [] OTHER -> [h EXCEPT !.bad = TRUE]

InnerAllocate(h, n, p) ==
    IF n = 0 THEN {Outcome(h, Zero, TRUE)}
    ELSE {Outcome([h EXCEPT !.inner = Set(@, q, n)], q, TRUE) : q \in Unused(h)}
         \cup {Outcome(h, p, FALSE) : x \in IF InnerMayFail THEN {1} ELSE {}}

\* It moves the buffer, or leaves it where it is.
InnerReallocate(h, n, p) ==
    LET freed == InnerFree(h, p) IN
    IF freed.bad THEN {Outcome(freed, p, TRUE)}
    ELSE {o \in InnerAllocate(freed, n, p) : o.ok}
         \cup {Outcome(h, p, FALSE) : x \in IF InnerMayFail THEN {1} ELSE {}}

runway_allocate(h, n) ==
    {Outcome([h EXCEPT !.mapped = @ \cup {q}, !.large = Set(@, q, n)], q, TRUE) : q \in Unused(h)}

runway_free(h, p) ==
    IF p \in DOMAIN h.large
    THEN [h EXCEPT !.large = Erase(@, p), !.mapped = @ \ {p}]
    ELSE h

\* madvise of `old - new_wps` bytes, an unsigned difference: it is skipped for
\* zero, and fails for a length that has wrapped around.
AdviseFails(old, new) == new < old /\ old < whole_page_size(new)

\* Mutant of RunwayResize: a buffer that becomes small stays where it is.
ResizeInPlace(h, old, new, p) ==
    {Outcome([h EXCEPT !.large = Set(@, p, new)], p, ~AdviseFails(old, new))}

\* runway_reallocate for a buffer in large_allocs_.  A buffer that becomes
\* small returns to pool_, whose status is ignored.
RunwayResize(h, old, new, p) ==
    IF new < SmallThreshold
    THEN {Outcome(runway_free(o.heap, p), o.ptr, TRUE) : o \in InnerAllocate(h, new, p)}
    ELSE {Outcome([h EXCEPT !.large = Set(@, p, new)], p, ~AdviseFails(old, new))}

\* runway_reallocate for a buffer that becomes huge.
MoveToRunway(h, new, p) ==
    {Outcome(InnerFree(o.heap, p), o.ptr, TRUE) : o \in runway_allocate(h, new)}

\* Mutant of pool_allocate: front() without pop().
PeekBlock(h, n, p) ==
    IF n > PreallocSize \/ h.blocks = << >>
    THEN {Outcome(h, p, FALSE)}
    ELSE {Outcome(h, Head(h.blocks), TRUE)}

\* Mutant of pool_allocate: the size is compared after the pop().
PopThenCompare(h, n, p) ==
    IF h.blocks = << >> THEN {Outcome(h, p, FALSE)}
    ELSE {Outcome([h EXCEPT !.blocks = Tail(@)], IF n > PreallocSize THEN p ELSE Head(h.blocks),
                  n <= PreallocSize)}

pool_allocate(h, n, p) ==
    IF n > PreallocSize \/ h.blocks = << >>
    THEN {Outcome(h, p, FALSE)}
    ELSE {Outcome([h EXCEPT !.blocks = Tail(@)], Head(h.blocks), TRUE)}

pool_reallocate(h, old, new, p) ==
    IF old = 0 THEN pool_allocate(h, new, p) ELSE {Outcome(h, p, new <= PreallocSize)}

AllocateOutcomes(h, n) ==
    CASE ActivateRunway /\ n >= HugeThreshold -> runway_allocate(h, n)
      [] ActivatePool /\ n > 0 -> pool_allocate(h, n, Nowhere)
      [] OTHER -> InnerAllocate(h, n, Nowhere)

ReallocateOutcomes(h, old, new, p) ==
    LET onRunway == ActivateRunway /\ p \in DOMAIN h.large
                       /\ (old >= SmallThreshold \/ new >= HugeThreshold)
        toRunway == ActivateRunway /\ p \notin DOMAIN h.large /\ new >= HugeThreshold
    IN  CASE onRunway -> RunwayResize(h, old, new, p)
          [] toRunway -> MoveToRunway(h, new, p)
          [] ActivatePool /\ new > 0 -> pool_reallocate(h, old, new, p)
          [] OTHER -> InnerReallocate(h, new, p)

\* Mutant of FreeOutcome: Free tests the threshold of Allocate.
FreeAboveHuge(h, p, n) ==
    CASE ActivateRunway /\ n >= HugeThreshold -> runway_free(h, p)
      [] ActivatePool /\ n > 0 -> [h EXCEPT !.blocks = Append(@, p)]
      [] OTHER -> InnerFree(h, p)

FreeOutcome(h, p, n) ==
    CASE ActivateRunway /\ n >= SmallThreshold -> runway_free(h, p)
      [] ActivatePool /\ n > 0 -> [h EXCEPT !.blocks = Append(@, p)]
      [] OTHER -> InnerFree(h, p)

-----------------------------------------------------------------------------

Holds(b) == buffer[b].addr # Nowhere

\* The outcome o of a call that gives b the size n if it succeeds.
Take(b, n, o) ==
    /\ heap' = o.heap
    /\ status' = IF o.ok THEN "ok" ELSE "error"
    /\ UNCHANGED build
    /\ buffer' = IF o.ok THEN [buffer EXCEPT ![b] = [addr |-> o.ptr, size |-> n]] ELSE buffer

Allocate(b, n) ==
    /\ ~heap.bad /\ ~Holds(b)
    /\ \E o \in AllocateOutcomes(heap, n) : Take(b, n, o)

Reallocate(b, n) ==
    /\ ~heap.bad /\ Holds(b)
    /\ \E o \in ReallocateOutcomes(heap, buffer[b].size, n, buffer[b].addr) : Take(b, n, o)

Free(b) ==
    /\ ~heap.bad /\ Holds(b)
    /\ heap' = FreeOutcome(heap, buffer[b].addr, buffer[b].size)
    /\ buffer' = [buffer EXCEPT ![b] = NoBuffer]
    /\ status' = "ok"
    /\ UNCHANGED build

Next ==
    \E b \in Buffers :
        \/ \E n \in Sizes : Allocate(b, n)
        \/ \E n \in ReallocSizes[build] : Reallocate(b, n)
        \/ Free(b)

Spec == Init /\ [][Next]_vars

-----------------------------------------------------------------------------
(* Properties.                                                             *)

InUse == {b \in Buffers : buffer[b].addr \notin {Zero, Nowhere}}

\* Two buffers never share memory, whatever sequence of moves between the
\* inner pool, the runways and the blocks they have been through.
BuffersApart == \A a, b \in InUse : a # b => buffer[a].addr # buffer[b].addr

\* The memory at p belongs to nobody: a block is in the pool, and anything else
\* is neither allocated by the inner pool nor a runway.
Released(h, p) ==
    /\ ~h.bad
    /\ IF p \in Blocks THEN p \in Range(h.blocks)
                       ELSE p \notin DOMAIN h.inner \cup DOMAIN h.large \cup h.mapped

\* The inner pool's buffers that Free looks for on the runways (memory_leak).
Medium(b) ==
    /\ buffer[b].addr \in DOMAIN heap.inner
    /\ SmallThreshold <= buffer[b].size /\ buffer[b].size < HugeThreshold

\* Whatever moves a buffer has been through, and whichever of them failed, the
\* allocator that Free would ask, by the size its owner has, is the one that has
\* it, and releases it.  Only the buffers that Medium describes are kept.
FreeReleases ==
    \A b \in InUse :
        Medium(b) \/ Released(FreeOutcome(heap, buffer[b].addr, buffer[b].size), buffer[b].addr)

\* No preallocated block is lost, or handed out twice.
BlocksConserved == ActivatePool =>
    /\ Range(heap.blocks) \cup ({buffer[b].addr : b \in Buffers} \cap Blocks) = Blocks
    /\ Len(heap.blocks) + Cardinality({b \in Buffers : buffer[b].addr \in Blocks})
          = Cardinality(Blocks)

\* The inner pool is only ever given its own allocations to free.
InnerFreesItsOwn == ~heap.bad

bytes_allocated ==
    MapThenSumSet(LAMBDA p : heap.inner[p], DOMAIN heap.inner)
      + MapThenSumSet(LAMBDA p : heap.large[p], DOMAIN heap.large)

\* cust_memory_pool_test.cc:79, ASSERT_EQ(0, pp.bytes_allocated()): nothing is
\* allocated once every buffer is freed.
NothingLeaked == (\A b \in Buffers : ~Holds(b)) => bytes_allocated = 0

\* cust_memory_pool.cc:310: a buffer whose size shrank gives its unused pages
\* back to the OS; there may be none, but the call does not fail.
ShrinkSucceeds ==
    [][\A b \in Buffers, n \in ReallocSizes[build] :
          Reallocate(b, n) /\ n < buffer[b].size => status' = "ok"]_vars

=============================================================================
