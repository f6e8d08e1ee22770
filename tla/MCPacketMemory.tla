--------------------------- MODULE MCPacketMemory ---------------------------
(* Model checking of PacketMemory: one stack of the pool.                  *)
EXTENDS PacketMemory, TLC

Symmetry == Permutations(Conns) \cup Permutations(Workers) \cup Permutations(Blocks)

NoErrors   == {}
OneSize    == <<64>>
OneBlock   == <<1>>
AskedSizes == {64, 65}

=============================================================================
