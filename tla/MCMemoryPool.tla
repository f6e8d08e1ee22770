---------------------------- MODULE MCMemoryPool ----------------------------
(* Model checking of MemoryPool: two of its seven stacks.                  *)
EXTENDS MemoryPool, TLC

Symmetry == Permutations(Threads) \cup Permutations(Blocks)

TwoSizes   == <<64, 128>>
OneOfEach  == <<1, 1>>
AskedSizes == {64, 65, 129}

=============================================================================
