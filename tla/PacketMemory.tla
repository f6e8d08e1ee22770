---------------------------- MODULE PacketMemory ----------------------------
(***************************************************************************)
(* The blocks of packets on their way through the server: RequestDispatch  *)
(* composed with MemoryPool. The io thread that has read a header rents a  *)
(* block; the shared_ptr goes with the payload read, with its handler, in  *)
(* the request on the queue, and with the main thread; the last of them to *)
(* let go gives the block back.                                            *)
(***************************************************************************)
EXTENDS RequestDispatch

CONSTANTS
    Blocks, BlockSize, Count, Sizes,  \* as in MemoryPool
    NoBlock                           \* no block

VARIABLES
    pool, free, users, asked, rent_pc, want, peak,  \* MemoryPool's
    block_of                                        \* the block of each packet

Pool == INSTANCE MemoryPool WITH Threads <- Workers, pc <- rent_pc

ASSUME MemoryAssumption == NoBlock \notin Blocks /\ Pool!PoolAssumption

poolVars   == <<pool, free, users, asked, rent_pc, want, peak>>
memoryVars == <<serverVars, poolVars, block_of>>

-----------------------------------------------------------------------------
(* Who holds the block of a packet.                                        *)

\* The packet a session is reading, or has read last.
Current(c) == RequestOf(c).packet

InReads == {Current(c) : c \in {d \in Conns : payload_reads[d] > 0}}

\* The lambda of a payload read keeps packet_owner until it returns: having queued
\* it, or, the read having failed, until the session is erased.
InHandlers ==
    {Current(at[w]) : w \in {v \in Workers :
        \/ pc[v] = "next_header"
        \/ pc[v] = "disconnect" /\ consumed[at[v]] % 2 = 1}}

InQueue == {RequestIn(slot).packet : slot \in Slots}

\* dispatch_request's local keeps the last packet until the next, or the frame's end.
InFrame == IF request = NoRequest THEN {} ELSE {request.packet}

Held == InReads \cup InHandlers \cup InQueue \cup InFrame

\* A step lets go of one packet at most. If nobody else holds it, its block goes back.
LetGo ==
    \/ /\ Held \subseteq Held'
       /\ UNCHANGED <<poolVars, block_of>>
    \/ \E p \in Held :
          /\ Held \ Held' = {p}
          /\ Pool!Release(block_of[p])
          /\ block_of' = [block_of EXCEPT ![p] = NoBlock]

-----------------------------------------------------------------------------
Renting == {w \in Workers : pc[w] = "rent"}

\* The size of the header and of the payload it announces.
AskForBlock(w, c) ==
    /\ c \in running /\ HeaderRead(w, c)
    /\ \E n \in Sizes : \/ Pool!Rent(w, n)
                        \/ Pool!TooLarge(n) /\ UNCHANGED poolVars
    /\ NetFrame /\ UNCHANGED block_of

LookForBlock(w) ==
    /\ Pool!PopEmpty(w) \/ Pool!CanAllocate(w)
    /\ UNCHANGED <<serverVars, block_of>>

GetBlock(w, b) ==
    /\ RentBlock(w)
    /\ Pool!Pop(w, b) \/ Pool!NewBlock(w, b)
    /\ block_of' = [block_of EXCEPT ![Current(at[w])] = b]
    /\ NetFrame

GetNoBlock(w) ==
    /\ RentFails(w)
    /\ \/ Pool!CannotAllocate(w)
       \/ rent_pc[w] = "idle" /\ UNCHANGED poolVars
    /\ NetFrame /\ UNCHANGED block_of

\* Every other step of the server.
Elsewhere == ServerNext /\ Renting' = Renting /\ LetGo

MemoryInit ==
    /\ ServerInit
    /\ Pool!Init
    /\ block_of = [p \in Conns \X (1 .. MaxPackets) |-> NoBlock]

MemoryNext ==
    \/ Elsewhere
    \/ \E w \in Workers :
          \/ LookForBlock(w) \/ GetNoBlock(w)
          \/ \E b \in Blocks : GetBlock(w, b)
          \/ \E c \in Conns : AskForBlock(w, c)

MemorySpec == MemoryInit /\ [][MemoryNext]_memoryVars

-----------------------------------------------------------------------------
(* Properties.                                                             *)

\* A packet that a payload read, a handler, the queue or the main thread still refers
\* to is in a block of its own: whichever of them lets go first, nobody reads or
\* writes memory that was given back or lent to another packet.
PacketsOwnMemory ==
    /\ \A p \in Held : block_of[p] # NoBlock /\ users[block_of[p]] = 1
    /\ \A p, q \in Held : block_of[p] = block_of[q] => p = q

\* A block that is lent serves a packet being read or waiting to be dispatched; only a
\* frame that is being run keeps one more. Sessions that are evicted, fail or stop,
\* and frames that end at the threshold, leave no block behind.
MemoryFollowsTraffic ==
    LET lent    == {b \in Blocks : users[b] > 0}
        serving == {block_of[p] : p \in InReads \cup InHandlers \cup InQueue}
    IN Cardinality(lent \ serving) <= IF frame \in {"dequeue", "dispatch"} THEN 1 ELSE 0

=============================================================================
