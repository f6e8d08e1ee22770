----------------------------- MODULE MemoryPool -----------------------------
(***************************************************************************)
(* net::common::ts_memory_pool: one lock-free stack of free blocks for     *)
(* every block size; blocks are rented by the io threads, travel inside a  *)
(* shared_ptr, and return to their stack on whichever thread drops the     *)
(* last reference.                                                         *)
(*                                                                         *)
(* A thread in rent() pops, and if the stack was empty looks at the RAM    *)
(* and then allocates: three steps other threads can come between. A       *)
(* single push or pop is atomic, as boost::lockfree::stack makes it.       *)
(***************************************************************************)
EXTENDS Integers, Sequences, FiniteSets

CONSTANTS
    Threads,    \* threads that rent
    Blocks,     \* bound: blocks that may ever be allocated
    BlockSize,  \* sizes of the stacks' blocks, ascending: <<64, ..., 4096>>
    Count,      \* blocks each stack is filled with: <<128, ..., 2>>
    Sizes       \* sizes that are asked for: sizeof(packet_header) + payload_size

Pools == 1 .. Len(BlockSize)

ASSUME PoolAssumption ==
    /\ IsFiniteSet(Threads) /\ IsFiniteSet(Blocks)
    /\ BlockSize \in Seq(Nat \ {0})
    /\ \A j, k \in Pools : j < k => BlockSize[j] < BlockSize[k]
    /\ Count \in [Pools -> Nat]
    /\ Sizes \subseteq Nat

VARIABLES
    pool,   \* the pool each block was made for, 0 while it is not allocated
    free,   \* free[k][b]: how often block b is on the stack of pool k
    users,  \* the number of shared_ptr groups that own each block
    asked,  \* the size the present user of each block asked for
    pc,     \* where each thread is in rent()
    want,   \* the size it asks for
    peak    \* history: the most blocks of each pool needed at the same time

vars == <<pool, free, users, asked, pc, want, peak>>

-----------------------------------------------------------------------------
\* The cascade of comparisons in rent(): the first pool whose blocks are large
\* enough, which none is above the last size.
TooLarge(n) == \A k \in Pools : n > BlockSize[k]

PoolForBelow(n) == CHOOSE k \in Pools : n < BlockSize[k] /\ \A j \in 1 .. k - 1 : n >= BlockSize[j]
PoolFor(n) == CHOOSE k \in Pools : n <= BlockSize[k] /\ \A j \in 1 .. k - 1 : n > BlockSize[j]

Fresh     == {b \in Blocks : pool[b] = 0}
Made(k)   == {b \in Blocks : pool[b] = k}
Rented(k) == {b \in Made(k) : users[b] > 0}
Asking(k) == {t \in Threads : pc[t] \in {"check", "new"} /\ PoolFor(want[t]) = k}

\* Blocks of pool k rented now or about to be, after this step.
NotePeak ==
    peak' = [k \in Pools |->
                LET need == Cardinality(Rented(k)') + Cardinality(Asking(k)')
                IN IF need > peak[k] THEN need ELSE peak[k]]

\* rent() returns; its argument is forgotten.
Return(t) ==
    /\ pc' = [pc EXCEPT ![t] = "idle"]
    /\ want' = [want EXCEPT ![t] = 0]

Lend(t, b) ==
    /\ users' = [users EXCEPT ![b] = @ + 1]
    /\ asked' = [asked EXCEPT ![b] = want[t]]
    /\ Return(t)

\* boost::lockfree::stack: whether a pop finds block b on the stack of pool k, or no
\* block at all, and the stacks after the pop.
PopUnchecked(k, b) == TRUE
OnStack(k, b)      == free[k][b] > 0

PopSkipped(k) == TRUE
Exhausted(k)  == \A b \in Blocks : free[k][b] = 0

Peeked(k, b) == free
Popped(k, b) == [free EXCEPT ![k][b] = @ - 1]

-----------------------------------------------------------------------------
\* A size above every pool is refused at once.
Rent(t, n) ==
    /\ pc[t] = "idle" /\ ~TooLarge(n)
    /\ pc' = [pc EXCEPT ![t] = "pop"]
    /\ want' = [want EXCEPT ![t] = n]
    /\ UNCHANGED <<pool, free, users, asked, peak>>

Pop(t, b) ==
    LET k == PoolFor(want[t]) IN
    /\ pc[t] = "pop" /\ OnStack(k, b)
    /\ free' = Popped(k, b)
    /\ Lend(t, b)
    /\ UNCHANGED pool
    /\ NotePeak

PopEmpty(t) ==
    /\ pc[t] = "pop" /\ Exhausted(PoolFor(want[t]))
    /\ pc' = [pc EXCEPT ![t] = "check"]
    /\ UNCHANGED <<pool, free, users, asked, want>>
    /\ NotePeak

\* can_allocate_dynamic: the RAM that is available is whatever it happens to be, as
\* far as there are blocks to allocate (the bound).
CanAllocate(t) ==
    /\ pc[t] = "check"
    /\ Cardinality({u \in Threads : pc[u] = "new"}) < Cardinality(Fresh)
    /\ pc' = [pc EXCEPT ![t] = "new"]
    /\ UNCHANGED <<pool, free, users, asked, want, peak>>

\* rent returns nullptr.
CannotAllocate(t) ==
    /\ pc[t] = "check"
    /\ Return(t)
    /\ UNCHANGED <<pool, free, users, asked, peak>>

NewBlock(t, b) ==
    /\ pc[t] = "new" /\ b \in Fresh
    /\ pool' = [pool EXCEPT ![b] = PoolFor(want[t])]
    /\ Lend(t, b)
    /\ UNCHANGED free
    /\ NotePeak

\* The stack the deleter of a block has captured.
LastPool(b) == Len(BlockSize)
HomePool(b) == pool[b]

\* The deleter of the last shared_ptr pushes the block on the stack it was rented
\* from; push takes any number of blocks, so that nothing is ever deleted.
Release(b) ==
    /\ users[b] > 0
    /\ users' = [users EXCEPT ![b] = @ - 1]
    /\ asked' = [asked EXCEPT ![b] = 0]
    /\ free' = [free EXCEPT ![HomePool(b)][b] = @ + 1]
    /\ UNCHANGED <<pool, pc, want, peak>>

-----------------------------------------------------------------------------
\* initialize_pool has filled every stack.
Init ==
    /\ pool \in [Blocks -> Pools \cup {0}]
    /\ \A k \in Pools : Cardinality(Made(k)) = Count[k]
    /\ free = [k \in Pools |-> [b \in Blocks |-> IF pool[b] = k THEN 1 ELSE 0]]
    /\ users = [b \in Blocks |-> 0]
    /\ asked = [b \in Blocks |-> 0]
    /\ pc = [t \in Threads |-> "idle"]
    /\ want = [t \in Threads |-> 0]
    /\ peak = Count

Renting(t) ==
    \/ PopEmpty(t) \/ CanAllocate(t) \/ CannotAllocate(t)
    \/ \E b \in Blocks : Pop(t, b) \/ NewBlock(t, b)

Next ==
    \/ \E t \in Threads : Renting(t) \/ \E n \in Sizes : Rent(t, n)
    \/ \E b \in Blocks : Release(b)

Spec == Init /\ [][Next]_vars

-----------------------------------------------------------------------------
(* Properties.                                                             *)

TypeOK ==
    /\ pool \in [Blocks -> Pools \cup {0}]
    /\ free \in [Pools -> [Blocks -> Nat]]
    /\ users \in [Blocks -> Nat]
    /\ asked \in [Blocks -> Nat]
    /\ pc \in [Threads -> {"idle", "pop", "check", "new"}]
    /\ want \in [Threads -> Nat]
    /\ peak \in [Pools -> Nat]

\* Every allocated block is in exactly one place: rented to one user, or once on
\* the stack of the pool it was made for. Two users never share a block, no block
\* is lost, and none is pushed twice or on a foreign stack.
OnePlace ==
    \A b \in Blocks :
        /\ users[b] <= 1
        /\ \A k \in Pools : free[k][b] = IF pool[b] = k THEN 1 - users[b] ELSE 0
        /\ pool[b] = 0 => users[b] = 0

\* Whoever rented a block can write as many bytes to it as were asked for, and no
\* smaller block would have done.
FitsRequest ==
    \A b \in Blocks : users[b] > 0 =>
        /\ asked[b] <= BlockSize[pool[b]]
        /\ \A k \in Pools : k < pool[b] => BlockSize[k] < asked[b]

\* A stack that looked empty makes the pool grow although a block may have come
\* back meanwhile, but never beyond the most blocks needed at the same time.
GrowthBounded ==
    \A k \in Pools : Cardinality(Made(k)) + Cardinality(Asking(k)) <= peak[k]

\* The pool implements the allocator it is used as.
Allocator == INSTANCE BlockAllocator WITH
    BlockSizes <- {BlockSize[k] : k \in Pools},
    size <- [b \in Blocks |-> IF pool[b] = 0 THEN 0 ELSE BlockSize[pool[b]]]

ImplementsAllocator == Allocator!Spec

=============================================================================
