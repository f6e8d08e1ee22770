-------------------------- MODULE MemoryPoolProofs --------------------------
(* Proofs about MemoryPool, for any number of threads, blocks and pools.    *)
EXTENDS MemoryPool, FiniteSetTheorems, WellFoundedInduction, TLAPS

USE DEF OnStack, Exhausted, Popped, HomePool

\* rent() finds a pool for every size that is not too large, and the smallest.
LEMMA LeastNatural ==
    ASSUME NEW S \in SUBSET Nat, S # {}
    PROVE  \E n \in S : \A m \in S : n <= m
<1>1. PICK R : R = OpToRel(<, Nat)
  OBVIOUS
<1>2. IsWellFoundedOn(R, Nat)
  BY <1>1, NatLessThanWellFounded, Zenon
<1>3. PICK n \in S : \A m \in S : ~ (<<m, n>> \in R)
  BY <1>2, WFMin
<1>4. ASSUME NEW m \in S, m < n PROVE FALSE
  BY <1>1, <1>3, <1>4, Zenon DEF OpToRel
<1>5. QED BY <1>3, <1>4

LEMMA PoolForFits ==
    ASSUME NEW n \in Nat, ~TooLarge(n)
    PROVE  /\ PoolFor(n) \in Pools
           /\ n <= BlockSize[PoolFor(n)]
           /\ \A j \in Pools : j < PoolFor(n) => BlockSize[j] < n
<1>. DEFINE S == {k \in Pools : n <= BlockSize[k]}
<1>1. BlockSize \in [Pools -> Nat] /\ Len(BlockSize) \in Nat
  BY PoolAssumption DEF Pools
<1>2. S \subseteq Nat /\ S # {}
  BY <1>1 DEF TooLarge, Pools
<1>3. PICK k \in S : \A j \in S : k <= j
  BY <1>2, LeastNatural
<1>4. k \in Pools /\ n <= BlockSize[k] /\ \A j \in 1 .. k - 1 : n > BlockSize[j]
  BY <1>1, <1>3 DEF Pools
<1>5. /\ PoolFor(n) \in Pools
      /\ n <= BlockSize[PoolFor(n)]
      /\ \A j \in 1 .. PoolFor(n) - 1 : n > BlockSize[j]
  BY <1>4 DEF PoolFor
<1>6. QED BY <1>1, <1>5 DEF Pools

-----------------------------------------------------------------------------
\* A thread inside rent() asks for a size some pool has.
Asks(t) == pc[t] # "idle" => want[t] \in Sizes /\ ~TooLarge(want[t])

PoolInv == TypeOK /\ OnePlace /\ FitsRequest /\ \A t \in Threads : Asks(t)

LEMMA PoolInit == Init => PoolInv
<1>. SUFFICES ASSUME Init PROVE PoolInv
  OBVIOUS
<1>1. TypeOK
  BY PoolAssumption DEF Init, TypeOK
<1>2. OnePlace
  BY PoolAssumption DEF Init, OnePlace, Pools
<1>3. FitsRequest /\ \A t \in Threads : Asks(t)
  BY DEF Init, FitsRequest, Asks
<1>4. QED BY <1>1, <1>2, <1>3 DEF PoolInv

\* The high-water mark is a number again.
LEMMA PeakType ==
    ASSUME NotePeak, peak \in [Pools -> Nat]
    PROVE  peak' \in [Pools -> Nat]
<1>1. ASSUME NEW k \in Pools
      PROVE  Cardinality(Rented(k)') \in Nat /\ Cardinality(Asking(k)') \in Nat
  <2>1. Rented(k)' \subseteq Blocks /\ Asking(k)' \subseteq Threads
    BY DEF Rented, Made, Asking
  <2>2. IsFiniteSet(Rented(k)') /\ IsFiniteSet(Asking(k)')
    BY <2>1, PoolAssumption, FS_Subset
  <2>3. QED BY <2>2, FS_CardinalityType
<1>2. QED BY <1>1 DEF NotePeak

LEMMA PoolStep == PoolInv /\ [Next]_vars => PoolInv'
<1>. SUFFICES ASSUME PoolInv, [Next]_vars PROVE PoolInv'
  OBVIOUS
<1>. USE DEF PoolInv, TypeOK
<1>0. Sizes \subseteq Nat
  BY PoolAssumption
<1>1. ASSUME NEW t \in Threads, NEW n \in Sizes, Rent(t, n) PROVE PoolInv'
  <2>1. TypeOK' /\ \A u \in Threads : Asks(u)'
    BY <1>0, <1>1 DEF Rent, Asks
  <2>2. OnePlace' /\ FitsRequest'
    BY <1>1 DEF Rent, OnePlace, FitsRequest
  <2>3. QED BY <2>1, <2>2
<1>2. ASSUME NEW t \in Threads, NEW b \in Blocks, Pop(t, b) PROVE PoolInv'
  <2>. PICK n \in Sizes : n = want[t]
    BY <1>2 DEF Pop, Asks
  <2>. PICK k \in Pools : k = PoolFor(n) /\ n <= BlockSize[k] /\ \A j \in Pools : j < k => BlockSize[j] < n
    BY <1>0, <1>2, PoolForFits DEF Pop, Asks
  <2>1. /\ pool[b] = k /\ users[b] = 0 /\ free[k][b] = 1
        /\ free' = [free EXCEPT ![k][b] = 0]
        /\ users' = [users EXCEPT ![b] = 1]
        /\ asked' = [asked EXCEPT ![b] = n]
        /\ pc' = [pc EXCEPT ![t] = "idle"]
        /\ want' = [want EXCEPT ![t] = 0]
        /\ UNCHANGED pool
    <3>1. free[k][b] > 0
      BY <1>2 DEF Pop
    <3>2. pool[b] = k /\ users[b] = 0 /\ free[k][b] = 1
      BY <3>1 DEF OnePlace
    <3>3. QED BY <1>2, <3>2 DEF Pop, Lend, Return
  <2>2. TypeOK'
    BY <1>0, <1>2, <2>1, PeakType DEF Pop
  <2>3. OnePlace'
    <3>1. ASSUME NEW a \in Blocks, a # b
          PROVE  users'[a] = users[a] /\ \A j \in Pools : free'[j][a] = free[j][a]
      BY <2>1, <3>1
    <3>2. users'[b] = 1 /\ \A j \in Pools : free'[j][b] = 0
      BY <2>1 DEF OnePlace
    <3>3. SUFFICES ASSUME NEW a \in Blocks
                   PROVE  /\ users'[a] <= 1
                          /\ \A j \in Pools :
                                free'[j][a] = IF pool[a] = j THEN 1 - users'[a] ELSE 0
                          /\ pool[a] = 0 => users'[a] = 0
      BY <2>1 DEF OnePlace
    <3>4. CASE a # b
      BY <3>1, <3>4 DEF OnePlace
    <3>5. CASE a = b
      BY <2>1, <3>2, <3>5 DEF Pools
    <3>6. QED BY <3>4, <3>5
  <2>4. FitsRequest'
    BY <2>1 DEF FitsRequest
  <2>5. \A u \in Threads : Asks(u)'
    BY <2>1 DEF Asks
  <2>6. QED BY <2>2, <2>3, <2>4, <2>5
<1>3. ASSUME NEW t \in Threads, PopEmpty(t) \/ CanAllocate(t) PROVE PoolInv'
  <2>1. /\ UNCHANGED <<pool, free, users, asked, want>>
        /\ pc[t] # "idle" /\ \E l \in {"check", "new"} : pc' = [pc EXCEPT ![t] = l]
        /\ peak' \in [Pools -> Nat]
    BY <1>3, PeakType DEF PopEmpty, CanAllocate
  <2>2. TypeOK' /\ \A u \in Threads : Asks(u)'
    BY <2>1 DEF Asks
  <2>3. OnePlace' /\ FitsRequest'
    BY <2>1 DEF OnePlace, FitsRequest
  <2>4. QED BY <2>2, <2>3
<1>4. ASSUME NEW t \in Threads, CannotAllocate(t) PROVE PoolInv'
  <2>1. TypeOK' /\ \A u \in Threads : Asks(u)'
    BY <1>4 DEF CannotAllocate, Return, Asks
  <2>2. OnePlace' /\ FitsRequest'
    BY <1>4 DEF CannotAllocate, OnePlace, FitsRequest
  <2>3. QED BY <2>1, <2>2
<1>5. ASSUME NEW t \in Threads, NEW b \in Blocks, NewBlock(t, b) PROVE PoolInv'
  <2>. PICK n \in Sizes : n = want[t]
    BY <1>5 DEF NewBlock, Asks
  <2>. PICK k \in Pools : k = PoolFor(n) /\ n <= BlockSize[k] /\ \A j \in Pools : j < k => BlockSize[j] < n
    BY <1>0, <1>5, PoolForFits DEF NewBlock, Asks
  <2>1. /\ pool[b] = 0 /\ users[b] = 0 /\ \A j \in Pools : free[j][b] = 0
        /\ pool' = [pool EXCEPT ![b] = k]
        /\ users' = [users EXCEPT ![b] = 1]
        /\ asked' = [asked EXCEPT ![b] = n]
        /\ pc' = [pc EXCEPT ![t] = "idle"]
        /\ want' = [want EXCEPT ![t] = 0]
        /\ UNCHANGED free
    <3>1. pool[b] = 0 /\ users[b] = 0
      BY <1>5 DEF NewBlock, Fresh, OnePlace
    <3>2. 0 \notin Pools
      BY DEF Pools
    <3>3. QED BY <1>5, <3>1, <3>2 DEF NewBlock, Lend, Return, OnePlace
  <2>2. TypeOK'
    BY <1>0, <1>5, <2>1, PeakType DEF NewBlock
  <2>3. OnePlace'
    BY <2>1 DEF OnePlace
  <2>4. FitsRequest'
    BY <2>1 DEF FitsRequest
  <2>5. \A u \in Threads : Asks(u)'
    BY <2>1 DEF Asks
  <2>6. QED BY <2>2, <2>3, <2>4, <2>5
<1>6. ASSUME NEW b \in Blocks, Release(b) PROVE PoolInv'
  <2>. PICK k \in Pools : k = pool[b]
    BY <1>6 DEF Release, OnePlace
  <2>1. /\ users[b] = 1 /\ free[k][b] = 0
        /\ free' = [free EXCEPT ![k][b] = 1]
        /\ users' = [users EXCEPT ![b] = 0]
        /\ asked' = [asked EXCEPT ![b] = 0]
        /\ UNCHANGED <<pool, pc, want, peak>>
    <3>1. users[b] = 1 /\ free[k][b] = 0
      BY <1>6 DEF Release, OnePlace
    <3>2. QED BY <1>6, <3>1 DEF Release
  <2>2. TypeOK' /\ \A u \in Threads : Asks(u)'
    BY <2>1 DEF Asks
  <2>3. OnePlace'
    BY <2>1 DEF OnePlace
  <2>4. FitsRequest'
    BY <2>1 DEF FitsRequest
  <2>5. QED BY <2>2, <2>3, <2>4
<1>7. CASE UNCHANGED vars
  BY <1>7 DEF vars, OnePlace, FitsRequest, Asks
<1>8. QED BY <1>1, <1>2, <1>3, <1>4, <1>5, <1>6, <1>7 DEF Next, Renting

LEMMA PoolAlways == Spec => []PoolInv
BY PoolInit, PoolStep, PTL DEF Spec

\* Type correctness of the pool.
THEOREM PoolTypeCorrect == Spec => []TypeOK
<1>1. PoolInv => TypeOK
  BY DEF PoolInv
<1>2. QED BY <1>1, PoolAlways, PTL

\* No block ever has two users, is lost or is on a stack twice, however the
\* threads that rent and release it interleave.
THEOREM BlocksInOnePlace == Spec => []OnePlace
<1>1. PoolInv => OnePlace
  BY DEF PoolInv
<1>2. QED BY <1>1, PoolAlways, PTL

\* Every block that is rented is as large as was asked for, and of the smallest
\* size that is.
THEOREM BlocksFit == Spec => []FitsRequest
<1>1. PoolInv => FitsRequest
  BY DEF PoolInv
<1>2. QED BY <1>1, PoolAlways, PTL

-----------------------------------------------------------------------------
(* The pool is an allocator.                                                *)

LEMMA AllocatorInit == Init => Allocator!Init
BY PoolAssumption DEF Init, Allocator!Init

LEMMA AllocatorStep ==
    PoolInv /\ PoolInv' /\ [Next]_vars => [Allocator!Next]_(Allocator!vars)
<1>. SUFFICES ASSUME PoolInv, PoolInv', [Next]_vars
              PROVE  [Allocator!Next]_(Allocator!vars)
  OBVIOUS
<1>. USE DEF PoolInv, TypeOK, Allocator!vars
<1>. DEFINE Sized(p) == [b \in Blocks |-> IF p[b] = 0 THEN 0 ELSE BlockSize[p[b]]]
<1>0. Sizes \subseteq Nat /\ \A k \in Pools : BlockSize[k] \in Nat \ {0}
  BY PoolAssumption DEF Pools
<1>1. ASSUME NEW t \in Threads, NEW b \in Blocks, Pop(t, b) PROVE Allocator!Next
  <2>. PICK n \in Sizes : n = want[t]
    BY <1>1 DEF Pop, Asks
  <2>1. /\ users[b] = 0 /\ users' = [users EXCEPT ![b] = 1] /\ UNCHANGED pool
        /\ want[t] \in Sizes
        /\ users'[b] > 0 /\ asked' = [asked EXCEPT ![b] = want[t]]
    <3>1. users[b] = 0
      <4>1. PoolFor(want[t]) \in Pools /\ free[PoolFor(want[t])][b] > 0
        BY <1>0, <1>1, PoolForFits DEF Pop, Asks
      <4>2. PICK k \in Pools : k = PoolFor(want[t]) /\ free[k][b] > 0
        BY <4>1
      <4>3. pool[b] = k /\ 1 - users[b] > 0
        BY <4>2 DEF OnePlace
      <4>4. QED BY <4>3
    <3>2. QED BY <1>1, <3>1 DEF Pop, Lend, Asks
  <2>2. pool'[b] \in Pools /\ want[t] <= BlockSize[pool'[b]]
    BY <2>1 DEF FitsRequest, OnePlace
  <2>3. Sized(pool') = Sized(pool) /\ n <= Sized(pool')[b]
    BY <2>1, <2>2 DEF Pools
  <2>4. Allocator!Lend(b, n)
    BY <2>1, <2>3 DEF Allocator!Lend
  <2>5. QED BY <2>1, <2>4 DEF Allocator!Next
<1>2. ASSUME NEW t \in Threads, NEW b \in Blocks, NewBlock(t, b) PROVE Allocator!Next
  <2>. PICK n \in Sizes : n = want[t]
    BY <1>2 DEF NewBlock, Asks
  <2>. PICK k \in Pools : k = PoolFor(n)
    BY <1>0, <1>2, PoolForFits DEF NewBlock, Asks
  <2>1. /\ pool[b] = 0 /\ users[b] = 0 /\ users' = [users EXCEPT ![b] = 1]
        /\ pool' = [pool EXCEPT ![b] = k]
        /\ want[t] \in Sizes
        /\ users'[b] > 0 /\ asked' = [asked EXCEPT ![b] = want[t]]
    <3>1. pool[b] = 0 /\ users[b] = 0
      BY <1>2 DEF NewBlock, Fresh, OnePlace
    <3>2. QED BY <1>2, <3>1 DEF NewBlock, Lend, Asks
  <2>2. want[t] <= BlockSize[k]
    BY <2>1 DEF FitsRequest
  <2>3. Sized(pool)[b] = 0 /\ n <= Sized(pool')[b]
    BY <2>1, <2>2 DEF Pools
  <2>. Sized(pool') = [Sized(pool) EXCEPT ![b] = BlockSize[k]]
    <3>1. pool'[b] = k /\ k # 0 /\ \A a \in Blocks \ {b} : pool'[a] = pool[a]
      BY <2>1 DEF Pools
    <3>2. Sized(pool')[b] = BlockSize[k]
      BY <3>1
    <3>3. \A a \in Blocks \ {b} : Sized(pool')[a] = Sized(pool)[a]
      BY <3>1
    <3>4. QED BY <3>2, <3>3
  <2>4. Allocator!Lend(b, n)
    BY <2>1, <2>3 DEF Allocator!Lend
  <2>5. QED BY <2>1, <2>4 DEF Allocator!Next
<1>3. ASSUME NEW b \in Blocks, Release(b) PROVE Allocator!Next
  <2>1. users[b] = 1
    BY <1>3 DEF Release, OnePlace
  <2>2. Allocator!GiveBack(b)
    BY <1>3, <2>1 DEF Release, Allocator!GiveBack
  <2>3. QED BY <2>2 DEF Allocator!Next
<1>4. ASSUME NEW t \in Threads, \/ PopEmpty(t) \/ CanAllocate(t) \/ CannotAllocate(t)
                               \/ \E n \in Sizes : Rent(t, n)
      PROVE  UNCHANGED Allocator!vars
  BY <1>4 DEF PopEmpty, CanAllocate, CannotAllocate, Rent
<1>5. CASE UNCHANGED vars
  BY <1>5 DEF vars
<1>6. QED BY <1>1, <1>2, <1>3, <1>4, <1>5 DEF Next, Renting

\* The pool refines the abstract allocator: whatever its threads do, its users see
\* blocks handed out and given back one user at a time.
THEOREM PoolIsAllocator == Spec => ImplementsAllocator
BY AllocatorInit, AllocatorStep, PoolAlways, PTL DEF Spec, ImplementsAllocator, Allocator!Spec

-----------------------------------------------------------------------------
(* The pool grows no further than to the largest demand there ever was.      *)

GrowthInv == PoolInv /\ GrowthBounded

LEMMA FinitePools ==
    ASSUME NEW k \in Pools
    PROVE  /\ IsFiniteSet(Made(k)) /\ Cardinality(Made(k)) \in Nat
           /\ IsFiniteSet(Asking(k)) /\ Cardinality(Asking(k)) \in Nat
           /\ IsFiniteSet(Rented(k)') /\ Cardinality(Rented(k)') \in Nat
           /\ IsFiniteSet(Asking(k)') /\ Cardinality(Asking(k)') \in Nat
<1>1. /\ Made(k) \subseteq Blocks /\ Asking(k) \subseteq Threads
      /\ Rented(k)' \subseteq Blocks /\ Asking(k)' \subseteq Threads
  BY DEF Made, Asking, Rented
<1>2. IsFiniteSet(Blocks) /\ IsFiniteSet(Threads)
  BY PoolAssumption
<1>3. QED BY <1>1, <1>2, FS_Subset, FS_CardinalityType

\* The high-water mark never falls, and covers what is needed after a step.
LEMMA PeakCovers ==
    ASSUME NotePeak, peak \in [Pools -> Nat], NEW k \in Pools
    PROVE  /\ peak'[k] >= peak[k]
           /\ peak'[k] >= Cardinality(Rented(k)') + Cardinality(Asking(k)')
BY FinitePools DEF NotePeak

LEMMA GrowthInit == Init => GrowthBounded
<1>. SUFFICES ASSUME Init, NEW k \in Pools
              PROVE  Cardinality(Made(k)) + Cardinality(Asking(k)) <= peak[k]
  BY DEF GrowthBounded
<1>1. Asking(k) = {}
  BY DEF Init, Asking
<1>2. QED BY <1>1, FS_EmptySet, PoolAssumption DEF Init

LEMMA GrowthStep == GrowthInv /\ [Next]_vars => GrowthInv'
<1>. SUFFICES ASSUME GrowthInv, [Next]_vars, NEW k \in Pools
              PROVE  Cardinality(Made(k))' + Cardinality(Asking(k))' <= peak'[k]
  BY PoolStep DEF GrowthInv, GrowthBounded
<1>. USE DEF GrowthInv, PoolInv, TypeOK
<1>0. /\ Cardinality(Made(k)) + Cardinality(Asking(k)) <= peak[k]
      /\ Cardinality(Made(k)) \in Nat /\ Cardinality(Asking(k)) \in Nat
      /\ peak[k] \in Nat
  BY FinitePools DEF GrowthBounded
<1>1. ASSUME NEW t \in Threads, NEW n \in Sizes, Rent(t, n)
      PROVE  Made(k)' = Made(k) /\ Asking(k)' = Asking(k) /\ UNCHANGED peak
  BY <1>1 DEF Rent, Made, Asking
<1>2. ASSUME NEW t \in Threads, NEW b \in Blocks, Pop(t, b)
      PROVE  Made(k)' = Made(k) /\ Asking(k)' = Asking(k) /\ peak'[k] >= peak[k]
  BY <1>2, PeakCovers DEF Pop, Lend, Return, Made, Asking
<1>3. ASSUME NEW t \in Threads, PopEmpty(t)
      PROVE  \/ Made(k)' = Made(k) /\ Asking(k)' = Asking(k) /\ peak'[k] >= peak[k]
             \/ Cardinality(Made(k))' + Cardinality(Asking(k))' <= peak'[k]
  <2>1. CASE PoolFor(want[t]) # k
    BY <1>3, <2>1, PeakCovers DEF PopEmpty, Made, Asking
  <2>2. CASE PoolFor(want[t]) = k
    <3>1. \A b \in Blocks : pool[b] = k => users[b] = 1
      BY <1>3, <2>2 DEF PopEmpty, OnePlace
    <3>2. Made(k)' = Rented(k)'
      BY <1>3, <3>1 DEF PopEmpty, Made, Rented
    <3>3. QED BY <1>3, <3>2, PeakCovers, FinitePools DEF PopEmpty
  <2>3. QED BY <2>1, <2>2
<1>4. ASSUME NEW t \in Threads, CanAllocate(t)
      PROVE  Made(k)' = Made(k) /\ Asking(k)' = Asking(k) /\ UNCHANGED peak
  BY <1>4 DEF CanAllocate, Made, Asking
<1>5. ASSUME NEW t \in Threads, CannotAllocate(t)
      PROVE  Cardinality(Made(k))' + Cardinality(Asking(k))' <= peak'[k]
  <2>1. Made(k)' = Made(k) /\ Asking(k)' \subseteq Asking(k) /\ UNCHANGED peak
    BY <1>5 DEF CannotAllocate, Return, Made, Asking
  <2>2. Cardinality(Asking(k)') <= Cardinality(Asking(k)) /\ Cardinality(Asking(k)') \in Nat
    BY <2>1, FinitePools, FS_Subset
  <2>3. QED BY <1>0, <2>1, <2>2
<1>6. ASSUME NEW t \in Threads, NEW b \in Blocks, NewBlock(t, b)
      PROVE  \/ Made(k)' = Made(k) /\ Asking(k)' = Asking(k) /\ peak'[k] >= peak[k]
             \/ Cardinality(Made(k))' + Cardinality(Asking(k))' <= peak'[k]
  <2>0. peak'[k] >= peak[k] /\ pool[b] = 0 /\ k # 0
    BY <1>6, PeakCovers DEF NewBlock, Fresh, Pools
  <2>1. CASE PoolFor(want[t]) # k
    BY <1>6, <2>0, <2>1 DEF NewBlock, Lend, Return, Made, Asking
  <2>2. CASE PoolFor(want[t]) = k
    <3>1. Made(k)' = Made(k) \cup {b} /\ b \notin Made(k)
      BY <1>6, <2>0, <2>2 DEF NewBlock, Made
    <3>2. Asking(k)' = Asking(k) \ {t} /\ t \in Asking(k)
      BY <1>6, <2>2 DEF NewBlock, Lend, Return, Asking
    <3>3. /\ Cardinality(Made(k)') = Cardinality(Made(k)) + 1
          /\ Cardinality(Asking(k)') = Cardinality(Asking(k)) - 1
      <4>1. IsFiniteSet(Made(k)) /\ IsFiniteSet(Asking(k))
        BY FinitePools
      <4>2. Cardinality(Made(k) \cup {b}) = Cardinality(Made(k)) + 1
        BY <3>1, <4>1, FS_AddElement
      <4>3. Cardinality(Asking(k) \ {t}) = Cardinality(Asking(k)) - 1
        BY <3>2, <4>1, FS_RemoveElement
      <4>4. QED BY <3>1, <3>2, <4>2, <4>3
    <3>4. peak'[k] \in Nat
      BY PoolStep
    <3>5. QED BY <1>0, <2>0, <3>3, <3>4
  <2>3. QED BY <2>1, <2>2
<1>7. ASSUME NEW b \in Blocks, Release(b)
      PROVE  Made(k)' = Made(k) /\ Asking(k)' = Asking(k) /\ UNCHANGED peak
  BY <1>7 DEF Release, Made, Asking
<1>8. CASE UNCHANGED vars
  BY <1>0, <1>8 DEF vars, Made, Asking
<1>9. QED
  <2>1. peak'[k] \in Nat
    BY PoolStep
  <2>2. QED BY <1>0, <1>1, <1>2, <1>3, <1>4, <1>5, <1>6, <1>7, <1>8, <2>1 DEF Next, Renting

\* A pool never holds more blocks than it was filled with or were ever needed at
\* the same time, although rent() looks at its stack, at the RAM and at the heap in
\* three separate steps.
THEOREM PoolGrowthBounded == Spec => []GrowthBounded
<1>1. Init => GrowthInv
  BY PoolInit, GrowthInit DEF GrowthInv
<1>2. GrowthInv => GrowthBounded
  BY DEF GrowthInv
<1>3. QED BY <1>1, <1>2, GrowthStep, PTL DEF Spec

=============================================================================
