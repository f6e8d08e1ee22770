------------------------- MODULE PacketMemoryProofs -------------------------
(***************************************************************************)
(* Proofs about PacketMemory, for any number of clients, io threads,       *)
(* packets, pools and blocks: who refers to a packet has its block to      *)
(* itself, and a block that is lent has somebody who refers to it.         *)
(***************************************************************************)
EXTENDS PacketMemory, RequestDispatchProofs

USE DEF Arm, ArrivedWhole, Stopped, Closed, SessionKey, ArmAccept, AcceptsAgain, RunReturns
USE DEF SignalsOnce, Runnable, MayDequeue, AfterDispatch, AfterFrame
USE DEF Pool!OnStack, Pool!Exhausted, Pool!Popped, Pool!HomePool

-----------------------------------------------------------------------------
(* The pool as the io threads use it. These are the facts MemoryPoolProofs *)
(* shows of the pool alone, for its steps in the composition.              *)

LEMMA Smallest ==
    ASSUME NEW S \in SUBSET Nat, S # {}
    PROVE  \E n \in S : \A m \in S : n <= m
<1>1. PICK R : R = OpToRel(<, Nat)
  OBVIOUS
<1>2. IsWellFoundedOn(R, Nat)
  BY <1>1, NatLessThanWellFounded, Zenon
<1>3. PICK n \in S : \A m \in S : ~ (<<m, n>> \in R)
  BY <1>2, WFMin
<1>4. ASSUME NEW m \in S, m < n PROVE FALSE
  BY <1>1, <1>3, <1>4, Zenon DEF OpToRel
<1> QED BY <1>3, <1>4

LEMMA PoolFound ==
    ASSUME NEW n \in Nat, ~Pool!TooLarge(n)
    PROVE  Pool!PoolFor(n) \in Pool!Pools
<1>1. /\ BlockSize \in [Pool!Pools -> Nat] /\ Pool!Pools \subseteq Nat
      /\ \A k \in Pool!Pools : \A j \in 1 .. k - 1 : j \in Pool!Pools
  BY MemoryAssumption DEF Pool!PoolAssumption, Pool!Pools
<1> DEFINE S == {k \in Pool!Pools : n <= BlockSize[k]}
<1>2. S \in SUBSET Nat
  BY <1>1
<1>3. PICK m \in Pool!Pools : n <= BlockSize[m]
  BY <1>1 DEF Pool!TooLarge
<1>4. PICK k \in S : \A j \in S : k <= j
  BY <1>2, <1>3, Smallest
<1>5. k \in Pool!Pools /\ n <= BlockSize[k] /\ \A j \in 1 .. k - 1 : n > BlockSize[j]
  BY <1>1, <1>4
<1> QED BY <1>5 DEF Pool!PoolFor

\* A thread inside rent() asks for a size some pool has.
PoolOK ==
    /\ pool \in [Blocks -> Pool!Pools \cup {0}]
    /\ free \in [Pool!Pools -> [Blocks -> Nat]]
    /\ users \in [Blocks -> Nat]
    /\ rent_pc \in [Workers -> {"idle", "pop", "check", "new"}]
    /\ want \in [Workers -> Nat]
    /\ Pool!OnePlace
    /\ \A w \in Workers : rent_pc[w] # "idle" => ~Pool!TooLarge(want[w])

LEMMA PoolLends ==
    ASSUME PoolOK, NEW w \in Workers, NEW b \in Blocks, Pool!Pop(w, b) \/ Pool!NewBlock(w, b)
    PROVE  PoolOK' /\ users[b] = 0 /\ users' = [users EXCEPT ![b] = 1]
<1> USE DEF PoolOK
<1>1. rent_pc[w] # "idle"
  BY DEF Pool!Pop, Pool!NewBlock
<1>2. PICK k \in Pool!Pools : k = Pool!PoolFor(want[w])
  BY <1>1, PoolFound
<1>3. k # 0 /\ \A j \in Pool!Pools : j # 0
  BY DEF Pool!Pools
<1>4. /\ rent_pc' = [rent_pc EXCEPT ![w] = "idle"] /\ want' = [want EXCEPT ![w] = 0]
      /\ users' = [users EXCEPT ![b] = @ + 1]
  BY DEF Pool!Pop, Pool!NewBlock, Pool!Lend, Pool!Return
<1>5. \A v \in Workers : rent_pc'[v] # "idle" => ~Pool!TooLarge(want'[v])
  BY <1>4
<1>6. CASE Pool!Pop(w, b)
  <2>1. free[k][b] > 0 /\ free' = [free EXCEPT ![k][b] = @ - 1] /\ pool' = pool
    BY <1>2, <1>6 DEF Pool!Pop
  <2>2. pool[b] = k /\ users[b] = 0 /\ free[k][b] = 1
    BY <2>1 DEF Pool!OnePlace
  <2>3. users' = [users EXCEPT ![b] = 1] /\ free' = [free EXCEPT ![k][b] = 0]
    BY <1>4, <2>1, <2>2
  <2>4. Pool!OnePlace'
    <3>1. ASSUME NEW a \in Blocks
          PROVE  /\ users'[a] <= 1
                 /\ \A j \in Pool!Pools : free'[j][a] = IF pool[a] = j THEN 1 - users'[a] ELSE 0
                 /\ pool[a] = 0 => users'[a] = 0
      <4>1. CASE a # b
        <5>1. users'[a] = users[a] /\ \A j \in Pool!Pools : free'[j][a] = free[j][a]
          BY <2>3, <4>1
        <5> QED BY <5>1 DEF Pool!OnePlace
      <4>2. CASE a = b
        <5>1. users'[b] = 1 /\ \A j \in Pool!Pools : free'[j][b] = IF j = k THEN 0 ELSE free[j][b]
          BY <2>3
        <5> QED BY <1>3, <2>2, <4>2, <5>1 DEF Pool!OnePlace
      <4> QED BY <4>1, <4>2
    <3> QED BY <2>1, <3>1 DEF Pool!OnePlace
  <2> QED BY <1>4, <1>5, <2>1, <2>2, <2>3, <2>4
<1>7. CASE Pool!NewBlock(w, b)
  <2>1. pool[b] = 0 /\ pool' = [pool EXCEPT ![b] = k] /\ free' = free
    BY <1>2, <1>7 DEF Pool!NewBlock, Pool!Fresh
  <2>2. users[b] = 0 /\ \A j \in Pool!Pools : free[j][b] = 0
    BY <1>3, <2>1 DEF Pool!OnePlace
  <2>3. users' = [users EXCEPT ![b] = 1]
    BY <1>4, <2>2
  <2>4. Pool!OnePlace'
    BY <1>3, <2>1, <2>2, <2>3 DEF Pool!OnePlace
  <2> QED BY <1>4, <1>5, <2>1, <2>2, <2>3, <2>4
<1> QED BY <1>6, <1>7

LEMMA PoolTakesBack ==
    ASSUME PoolOK, NEW b \in Blocks, Pool!Release(b)
    PROVE  PoolOK' /\ users' = [users EXCEPT ![b] = 0]
<1> USE DEF PoolOK
<1>1. PICK k \in Pool!Pools : k = pool[b]
  BY DEF Pool!Release, Pool!OnePlace
<1>2. users[b] = 1 /\ free[k][b] = 0
  BY <1>1 DEF Pool!Release, Pool!OnePlace
<1>3. /\ free' = [free EXCEPT ![k][b] = 1] /\ users' = [users EXCEPT ![b] = 0]
      /\ UNCHANGED <<pool, rent_pc, want>>
  BY <1>1, <1>2 DEF Pool!Release
<1>4. Pool!OnePlace'
  BY <1>1, <1>3 DEF Pool!OnePlace
<1> QED BY <1>3, <1>4

LEMMA PoolLooks ==
    ASSUME PoolOK, NEW w \in Workers,
           \/ Pool!PopEmpty(w) \/ Pool!CanAllocate(w) \/ Pool!CannotAllocate(w)
           \/ UNCHANGED poolVars \/ \E n \in Sizes : Pool!Rent(w, n)
    PROVE  PoolOK' /\ users' = users
<1> USE DEF PoolOK
<1>1. Sizes \subseteq Nat
  BY MemoryAssumption DEF Pool!PoolAssumption
<1>2. UNCHANGED <<pool, free, users>>
  BY DEF Pool!PopEmpty, Pool!CanAllocate, Pool!CannotAllocate, Pool!Rent, poolVars
<1>3. Pool!OnePlace'
  BY <1>2 DEF Pool!OnePlace
<1>4. /\ rent_pc' \in [Workers -> {"idle", "pop", "check", "new"}] /\ want' \in [Workers -> Nat]
      /\ \A v \in Workers : rent_pc'[v] # "idle" => ~Pool!TooLarge(want'[v])
  BY <1>1 DEF Pool!PopEmpty, Pool!CanAllocate, Pool!CannotAllocate, Pool!Rent, Pool!Return, poolVars
<1> QED BY <1>2, <1>3, <1>4

-----------------------------------------------------------------------------
(* Who refers to packets. Only RentBlock adds a packet, and a new one.     *)

\* The threads whose handler holds a packet do not come out of nowhere.
LEMMA QuietHeld ==
    ASSUME UNCHANGED <<payload_reads, consumed, requests, request>>,
           \A w \in Workers : pc'[w] \in {"next_header", "disconnect"} =>
                                  pc'[w] = pc[w] /\ at'[w] = at[w]
    PROVE  /\ Held' \subseteq Held
           /\ (\A w \in Workers : pc[w] \in {"next_header", "disconnect"} =>
                                      pc'[w] = pc[w] /\ at'[w] = at[w]) => Held' = Held
<1>1. \A c : Current(c)' = Current(c)
  BY DEF Current, RequestOf
<1>2. InReads' = InReads /\ InQueue' = InQueue /\ InFrame' = InFrame
  BY <1>1 DEF InReads, InQueue, InFrame, Slots, RequestIn
<1>3. InHandlers' \subseteq InHandlers
  BY <1>1 DEF InHandlers
<1>4. ASSUME \A w \in Workers : pc[w] \in {"next_header", "disconnect"} =>
                                    pc'[w] = pc[w] /\ at'[w] = at[w]
      PROVE  InHandlers \subseteq InHandlers'
  BY <1>1, <1>4 DEF InHandlers
<1> QED BY <1>2, <1>3, <1>4 DEF Held

LEMMA HeaderHeld ==
    ASSUME ChainInv, NEW w \in Workers, NEW c \in Conns, HeaderRead(w, c), UNCHANGED request
    PROVE  Held' = Held
<1>0. TypeOK /\ ChainOK(c)
  BY DEF ChainInv, TypeInv
<1>1. /\ c \in running /\ payload_reads[c] = 0 /\ payload_reads' = payload_reads
      /\ \A v \in Workers : ~Handles(v, c)
  BY <1>0 DEF HeaderRead, ChainOK, Pending, TypeOK, StrandFree, Reading, Handles
<1>2. /\ pc[w] = "idle" /\ pc' = [pc EXCEPT ![w] = "rent"] /\ at' = [at EXCEPT ![w] = c]
      /\ consumed' = [consumed EXCEPT ![c] = @ + 1] /\ requests' = requests
  BY <1>1 DEF HeaderRead, CanRun, Enter
<1>3. \A d \in Conns : d # c => Current(d)' = Current(d) /\ consumed'[d] = consumed[d]
  BY <1>0, <1>2 DEF Current, RequestOf, TypeOK
<1>4. InReads' = InReads
  BY <1>1, <1>3 DEF InReads
<1>5. \A v \in Workers :
        /\ pc'[v] \in {"next_header", "disconnect"} <=> pc[v] \in {"next_header", "disconnect"}
        /\ pc[v] \in {"next_header", "disconnect"} => pc'[v] = pc[v] /\ at'[v] = at[v]
                                                      /\ at[v] \in Conns \ {c}
  BY <1>0, <1>1, <1>2 DEF TypeOK, Handles, ReadPcs
<1>6. InHandlers' = InHandlers
  BY <1>3, <1>5 DEF InHandlers
<1>7. InQueue' = InQueue /\ InFrame' = InFrame
  BY <1>2 DEF InQueue, InFrame, Slots, RequestIn
<1> QED BY <1>4, <1>6, <1>7 DEF Held

\* The packet that was read goes from the read to its handler and to the queue.
LEMMA PayloadHeld ==
    ASSUME ChainInv, RequestsSound, NEW w \in Workers, NEW c \in Conns, PayloadRead(w, c),
           UNCHANGED request
    PROVE  Held' \subseteq Held
<1>0. TypeOK /\ ChainOK(c) /\ QueuesPacket(w, c)
  BY PayloadQueued DEF ChainInv, TypeInv
<1>1. /\ consumed[c] \in Nat /\ consumed[c] % 2 = 1 /\ payload_reads[c] = 1
      /\ \A v \in Workers : ~Handles(v, c)
  BY <1>0 DEF PayloadRead, ChainOK, Pending, TypeOK, StrandFree, Reading, Handles
<1>2. /\ pc[w] = "idle" /\ pc' = [pc EXCEPT ![w] = "next_header"] /\ at' = [at EXCEPT ![w] = c]
      /\ consumed' = [consumed EXCEPT ![c] = @ + 1]
      /\ payload_reads' = [payload_reads EXCEPT ![c] = 0]
  BY <1>0, <1>1 DEF PayloadRead, QueuesPacket, CanRun, Enter, TypeOK
<1>3. /\ (consumed[c] + 1) \div 2 = Received(c) + 1
      /\ (consumed[c] + 1 + 1) \div 2 = Received(c) + 1
  BY <1>1 DEF Received
<1>4. Current(c) = <<c, Received(c) + 1>> /\ Current(c) \in Held
  BY <1>1, <1>3 DEF Current, RequestOf, Held, InReads
<1>5. Current(c)' = Current(c)
  BY <1>0, <1>1, <1>2, <1>3 DEF Current, RequestOf, TypeOK
<1>6. \A d \in Conns : d # c => Current(d)' = Current(d) /\ consumed'[d] = consumed[d]
  BY <1>0, <1>2 DEF Current, RequestOf, TypeOK
<1>7. InReads' \subseteq Held
  BY <1>0, <1>2, <1>6 DEF InReads, Held, TypeOK
<1>8. InHandlers' \subseteq Held
  <2>1. ASSUME NEW v \in Workers,
               \/ pc'[v] = "next_header"
               \/ pc'[v] = "disconnect" /\ consumed'[at'[v]] % 2 = 1
        PROVE  <<at'[v], (consumed'[at'[v]] + 1) \div 2>> \in Held
    <3>1. CASE v = w
      <4>1. at'[v] = c
        BY <1>0, <1>2, <3>1 DEF TypeOK
      <4> QED BY <1>4, <1>5, <4>1 DEF Current, RequestOf
    <3>2. CASE v # w
      <4>1. pc'[v] = pc[v] /\ at'[v] = at[v]
        BY <1>0, <1>2, <3>2 DEF TypeOK
      <4>2. at[v] \in Conns \ {c}
        BY <1>0, <1>1, <2>1, <4>1 DEF TypeOK, Handles, ReadPcs
      <4> QED BY <1>6, <2>1, <4>1, <4>2 DEF InHandlers, Held, Current, RequestOf
    <3> QED BY <3>1, <3>2
  <2> QED BY <2>1 DEF InHandlers, Current, RequestOf
<1>9. InQueue' \subseteq Held
  <2>1. PICK new :
              /\ new \notin Slots /\ Slots' = Slots \cup {new}
              /\ requests'[new[1]][new[2]].packet = <<c, Received(c) + 1>>
              /\ requests'[new[1]][new[2]].session_id = session_id[c]
              /\ \A s \in Slots : /\ requests'[s[1]][s[2]] = requests[s[1]][s[2]]
                                  /\ requests[s[1]][s[2]].packet # <<c, Received(c) + 1>>
    BY <1>0, PacketSlot
  <2>2. ASSUME NEW s \in Slots' PROVE requests'[s[1]][s[2]].packet \in Held
    BY <1>4, <2>1 DEF Held, InQueue, RequestIn
  <2> QED BY <2>2 DEF InQueue, RequestIn
<1>10. InFrame' = InFrame
  BY DEF InFrame
<1> QED BY <1>7, <1>8, <1>9, <1>10 DEF Held

\* The packet whose read failed goes from the read to its handler.
LEMMA FailedHeld ==
    ASSUME ChainInv, NEW w \in Workers, NEW c \in Conns, ReadFailed(w, c), UNCHANGED request
    PROVE  Held' \subseteq Held
<1>0. TypeOK /\ ChainOK(c)
  BY DEF ChainInv, TypeInv
<1>1. /\ \A v \in Workers : ~Handles(v, c)
      /\ payload_reads[c] > 0 \/ consumed[c] % 2 = 0
  BY <1>0 DEF ReadFailed, ChainOK, Pending, TypeOK, StrandFree, Reading, Handles
<1>2. /\ pc' = [pc EXCEPT ![w] = "disconnect"] /\ at' = [at EXCEPT ![w] = c]
      /\ consumed' = consumed /\ requests' = requests
      /\ \A d \in Conns : payload_reads'[d] > 0 => payload_reads[d] > 0
  BY <1>0 DEF ReadFailed, Enter, TypeOK
<1>3. \A d : Current(d)' = Current(d)
  BY <1>2 DEF Current, RequestOf, ReadFailed
<1>4. InReads' \subseteq InReads
  BY <1>2, <1>3 DEF InReads
<1>5. consumed[c] \in Nat => consumed[c] % 2 = 0 \/ consumed[c] % 2 = 1
  OBVIOUS
<1>6. InHandlers' \subseteq Held
  <2>1. ASSUME NEW v \in Workers,
               \/ pc'[v] = "next_header"
               \/ pc'[v] = "disconnect" /\ consumed'[at'[v]] % 2 = 1
        PROVE  <<at'[v], (consumed'[at'[v]] + 1) \div 2>> \in Held
    <3>1. CASE v = w
      <4>1. at'[v] = c /\ pc'[v] = "disconnect"
        BY <1>0, <1>2, <3>1 DEF TypeOK
      <4>2. payload_reads[c] > 0
        BY <1>1, <1>2, <2>1, <4>1
      <4> QED BY <1>2, <4>1, <4>2 DEF InReads, Held, Current, RequestOf
    <3>2. CASE v # w
      <4>1. pc'[v] = pc[v] /\ at'[v] = at[v]
        BY <1>0, <1>2, <3>2 DEF TypeOK
      <4> QED BY <1>2, <2>1, <4>1 DEF InHandlers, Held, Current, RequestOf
    <3> QED BY <3>1, <3>2
  <2> QED BY <2>1 DEF InHandlers, Current, RequestOf
<1>7. InQueue' = InQueue /\ InFrame' = InFrame
  BY <1>2 DEF InQueue, InFrame, Slots, RequestIn
<1> QED BY <1>4, <1>6, <1>7 DEF Held

LEMMA NetHeld ==
    ASSUME ChainInv, RequestsSound, [Next]_vars, UNCHANGED request,
           \A w \in Workers : ~RentBlock(w)
    PROVE  Held' \subseteq Held
<1>0. ThreadsOK
  BY DEF ChainInv, TypeInv, TypeOK, ThreadsOK
<1>1. CASE ~\E w \in Workers, c \in Conns :
              HeaderRead(w, c) \/ PayloadRead(w, c) \/ ReadFailed(w, c)
  <2>1. UNCHANGED <<payload_reads, consumed, requests>>
    BY <1>1 DEF vars, connVars, Next, Client, ClientConnect, ClientSend, ClientDown, ClientLost, HandlerStep,
         CreateSession, InsertSession, AcceptNext, RentFails, Evict, StopEvicted, NextHeader,
         OnDisconnected, ReadCompletes, WorkerExits, Accepted, AcceptFailed, Stop, StopContext,
         CloseAcceptor
  <2>2. ASSUME NEW w \in Workers, pc'[w] \in {"next_header", "disconnect"}
        PROVE  pc'[w] = pc[w] /\ at'[w] = at[w]
    <3> USE <1>0 DEF ThreadsOK
    <3>1. ASSUME NEW v \in Workers, HandlerStep(v) \/ WorkerExits(v)
          PROVE  pc'[w] = pc[w] /\ at'[w] = at[w]
      BY <2>2, <3>1 DEF HandlerStep, CreateSession, InsertSession, AcceptNext, RentBlock,
           RentFails, Evict, StopEvicted, NextHeader, OnDisconnected, WorkerExits, Enter, Goto, Return
    <3>2. ASSUME NEW v \in Workers, NEW c \in Conns, Accepted(v, c)
          PROVE  pc'[w] = pc[w] /\ at'[w] = at[w]
      <4>1. Enter(v, "create", c) \/ UNCHANGED <<pc, at>>
        BY <3>2 DEF Accepted
      <4> QED BY <2>2, <4>1 DEF Enter
    <3>3. ASSUME \/ \E c \in Conns : Client(c)
                 \/ \E v \in Workers, err \in AcceptErrors : AcceptFailed(v, err)
                 \/ Stop \/ StopContext \/ CloseAcceptor \/ UNCHANGED vars
          PROVE  pc' = pc /\ at' = at
      BY <3>3 DEF vars, Client, ClientConnect, ClientSend, ClientDown, ClientLost, AcceptFailed,
           Stop, StopContext, CloseAcceptor
    <3> QED BY <1>1, <3>1, <3>2, <3>3 DEF Next, ReadCompletes
  <2> QED BY <2>1, <2>2, QuietHeld
<1> QED BY <1>1, HeaderHeld, PayloadHeld, FailedHeld

\* What the main thread has in its frame was received and is no longer on the queue.
FrameSound ==
    request # NoRequest =>
        /\ request \in Request /\ request.packet[2] \in 1 .. Received(request.packet[1])
        /\ frame \in {"dequeue", "dispatch"}

\* The main thread takes from the queue what it then has in its frame.
LEMMA MainHeld ==
    ASSUME ServerInv, MainStep \/ \E w \in Workers : Signal(w)
    PROVE  Held' \subseteq Held
<1>1. ASSUME UNCHANGED <<payload_reads, consumed, pc, at>>
      PROVE  InReads' = InReads /\ InHandlers' = InHandlers
  BY <1>1 DEF InReads, InHandlers, Current, RequestOf
<1>2. CASE BeginFrame \/ LeaveLoop \/ Dispatch \/ EndFrame \/ \E w \in Workers : Signal(w)
  <2>1. /\ UNCHANGED <<payload_reads, consumed, pc, at, requests>>
        /\ request' \in {request, NoRequest}
    BY <1>2 DEF BeginFrame, LeaveLoop, Dispatch, EndFrame, Signal, netVars, connVars
  <2>2. InQueue' = InQueue /\ InFrame' \subseteq InFrame
    BY <2>1 DEF InQueue, InFrame, Slots, RequestIn
  <2> QED BY <1>1, <2>1, <2>2 DEF Held
<1>3. ASSUME NEW w \in Workers, TryDequeue(w) PROVE Held' \subseteq Held
  <2>1. /\ requests \in [Workers -> Seq(Request)] /\ requests[w] # <<>>
        /\ requests' = [requests EXCEPT ![w] = Tail(@)]
        /\ request' = Head(requests[w])
    BY <1>3, TakeTyped DEF ServerInv, DispatchTypeOK, TypeOK
  <2>2. /\ <<w, 1>> \in Slots /\ RequestIn(<<w, 1>>) = Head(requests[w])
        /\ \A s \in Slots' : /\ Before(w, s) \in Slots
                             /\ requests'[s[1]][s[2]] = RequestIn(Before(w, s))
    BY <2>1, SlotTaken
  <2>3. InFrame' \subseteq InQueue
    BY <2>1, <2>2 DEF InFrame, InQueue
  <2>4. InQueue' \subseteq InQueue
    <3>1. ASSUME NEW s \in Slots' PROVE requests'[s[1]][s[2]].packet \in InQueue
      BY <2>2 DEF InQueue
    <3> QED BY <3>1 DEF InQueue, RequestIn
  <2>5. UNCHANGED <<payload_reads, consumed, pc, at>>
    BY <1>3 DEF TryDequeue, netVars, connVars
  <2> QED BY <1>1, <2>3, <2>4, <2>5 DEF Held
<1> QED BY <1>2, <1>3 DEF MainStep

LEMMA RentHeld ==
    ASSUME ChainInv, RequestsSound, FrameSound, NEW w \in Workers, RentBlock(w), UNCHANGED request
    PROVE  /\ at[w] \in Conns /\ consumed[at[w]] % 2 = 1
           /\ Current(at[w]) \notin Held /\ Held' = Held \cup {Current(at[w])}
<1>1. PICK c \in Conns : c = at[w] /\ Handles(w, c)
  BY DEF RentBlock, ChainInv, TypeInv, TypeOK, Handles, ReadPcs
<1>2. TypeOK /\ ChainOK(c)
  BY DEF ChainInv, TypeInv
<1>3. /\ consumed[c] \in Nat /\ consumed[c] % 2 = 1 /\ payload_reads[c] = 0
      /\ \A v \in Workers : Handles(v, c) => v = w
  BY <1>1, <1>2 DEF RentBlock, ChainOK, Pending, TypeOK
<1>4. Current(c) = <<c, Received(c) + 1>> /\ Received(c) \in Nat
  <2>1. (consumed[c] + 1) \div 2 = Received(c) + 1 /\ Received(c) \in Nat
    BY <1>3, Halves DEF Received
  <2> QED BY <2>1 DEF Current, RequestOf
<1>5. /\ pc[w] = "rent" /\ pc' = [pc EXCEPT ![w] = "idle"] /\ at' = [at EXCEPT ![w] = NoConn]
      /\ payload_reads' = [payload_reads EXCEPT ![c] = 1]
      /\ consumed' = consumed /\ requests' = requests
  BY <1>1, <1>2, <1>3 DEF RentBlock, Return, Enter, TypeOK
<1>6. \A d : Current(d)' = Current(d)
  BY <1>5 DEF Current, RequestOf, RentBlock
<1>7. InReads' = InReads \cup {Current(c)}
  BY <1>2, <1>5, <1>6 DEF InReads, TypeOK
<1>8. InHandlers' = InHandlers
  <2>1. \A v \in Workers :
          /\ pc'[v] \in {"next_header", "disconnect"} <=> pc[v] \in {"next_header", "disconnect"}
          /\ pc[v] \in {"next_header", "disconnect"} => pc'[v] = pc[v] /\ at'[v] = at[v]
    BY <1>2, <1>5 DEF TypeOK
  <2> QED BY <1>5, <1>6, <2>1 DEF InHandlers
<1>9. InQueue' = InQueue /\ InFrame' = InFrame
  BY <1>5 DEF InQueue, InFrame, Slots, RequestIn
<1>10. Current(c) \notin InReads
  BY <1>3 DEF InReads, Current, RequestOf
<1>11. Current(c) \notin InHandlers
  <2>1. ASSUME NEW v \in Workers, pc[v] \in {"next_header", "disconnect"} PROVE at[v] # c
    BY <1>3, <1>5, <2>1 DEF Handles, ReadPcs
  <2> QED BY <2>1 DEF InHandlers, Current, RequestOf
<1>12. Current(c) \notin InQueue
  <2>1. ASSUME NEW s \in Slots, RequestIn(s).packet = <<c, Received(c) + 1>> PROVE FALSE
    BY <1>4, <2>1 DEF RequestsSound
  <2> QED BY <1>4, <2>1 DEF InQueue
<1>13. Current(c) \notin InFrame
  BY <1>4 DEF InFrame, FrameSound
<1> QED BY <1>1, <1>3, <1>7, <1>8, <1>9, <1>10, <1>11, <1>12, <1>13 DEF Held

-----------------------------------------------------------------------------
(* The invariant. A packet that somebody refers to has a block, its own,   *)
(* and a block that is lent has such a packet.                             *)

AllPackets == Conns \X (1 .. MaxPackets)

Bounded == \A c \in Conns : consumed[c] <= written[c] /\ written[c] <= 2 * MaxPackets

Owned ==
    /\ Held \subseteq AllPackets
    /\ block_of \in [AllPackets -> Blocks \cup {NoBlock}]
    /\ \A p \in Held : block_of[p] \in Blocks /\ users[block_of[p]] = 1
    /\ \A p, q \in Held : block_of[p] = block_of[q] => p = q
    /\ \A b \in Blocks : users[b] > 0 => \E p \in Held : block_of[p] = b

MemoryInv == AccountInv /\ Bounded /\ FrameSound /\ PoolOK /\ Owned

LEMMA MemoryIsServer == [MemoryNext]_memoryVars => [ServerNext]_serverVars
<1>1. ASSUME NEW w \in Workers, NEW c \in Conns, AskForBlock(w, c) PROVE ServerNext
  BY <1>1 DEF AskForBlock, ServerNext, NetStep, Next, ReadCompletes
<1>2. ASSUME NEW w \in Workers, GetNoBlock(w) PROVE ServerNext
  BY <1>2 DEF GetNoBlock, ServerNext, NetStep, Next, HandlerStep
<1>3. ASSUME NEW w \in Workers, NEW b \in Blocks, GetBlock(w, b) PROVE ServerNext
  BY <1>3 DEF GetBlock, ServerNext, NetStep, Next, HandlerStep
<1>4. ASSUME NEW w \in Workers, LookForBlock(w) PROVE UNCHANGED serverVars
  BY <1>4 DEF LookForBlock
<1> QED BY <1>1, <1>2, <1>3, <1>4 DEF MemoryNext, Elsewhere, memoryVars

\* The peer writes what the session reads.
LEMMA BoundedStep ==
    ASSUME ChainInv, Bounded, [ServerNext]_serverVars
    PROVE  Bounded'
<1>0. /\ consumed \in [Conns -> Nat] /\ written \in [Conns -> Nat] /\ MaxPackets \in Nat
      /\ \A c \in Conns : consumed[c] <= written[c] /\ written[c] <= 2 * MaxPackets
  BY ConstantsAssumption DEF ChainInv, TypeInv, TypeOK, Bounded
<1>1. ASSUME UNCHANGED <<consumed, written>> PROVE Bounded'
  BY <1>1 DEF Bounded
<1>2. ASSUME NEW c \in Conns, ClientSend(c) PROVE Bounded'
  BY <1>0, <1>2 DEF ClientSend, Bounded
<1>3. ASSUME NEW c \in Conns, ArrivedWhole(c), UNCHANGED written PROVE Bounded'
  BY <1>0, <1>3 DEF Bounded
<1>4. CASE NetStep
  <2>1. ASSUME NEW w \in Workers, NEW c \in Conns, HeaderRead(w, c) \/ PayloadRead(w, c)
        PROVE  Bounded'
    BY <1>3, <2>1 DEF HeaderRead, PayloadRead, peerVars
  <2>2. CASE \A c \in Conns : ~ClientSend(c) /\ \A w \in Workers :
                ~HeaderRead(w, c) /\ ~PayloadRead(w, c)
    <3>1. ASSUME NEW w \in Workers, HandlerStep(w) \/ WorkerExits(w)
          PROVE  UNCHANGED <<consumed, written>>
      BY <3>1 DEF peerVars, HandlerStep, CreateSession, InsertSession, AcceptNext, RentBlock,
           RentFails, Evict, StopEvicted, NextHeader, OnDisconnected, WorkerExits
    <3>2. ASSUME NEW w \in Workers, NEW c \in Conns, ReadFailed(w, c) \/ Accepted(w, c)
          PROVE  UNCHANGED <<consumed, written>>
      BY <3>2 DEF peerVars, ReadFailed, Accepted
    <3>3. ASSUME \/ \E c \in Conns : ClientConnect(c) \/ ClientDown(c) \/ ClientLost(c)
                 \/ \E w \in Workers, err \in AcceptErrors : AcceptFailed(w, err)
                 \/ Stop \/ StopContext \/ CloseAcceptor
          PROVE  UNCHANGED <<consumed, written>>
      BY <3>3 DEF peerVars, ClientConnect, ClientDown, ClientLost, AcceptFailed, Stop, StopContext,
           CloseAcceptor
    <3>4. UNCHANGED <<consumed, written>>
      BY <1>4, <2>2, <3>1, <3>2, <3>3 DEF NetStep, Next, Client, ReadCompletes
    <3> QED BY <1>1, <3>4
  <2> QED BY <1>2, <2>1, <2>2
<1>5. CASE MainStep \/ (\E w \in Workers : Signal(w)) \/ UNCHANGED serverVars
  <2>1. UNCHANGED <<consumed, written>>
    BY <1>5 DEF MainStep, BeginFrame, LeaveLoop, Dispatch, EndFrame, TryDequeue, Signal,
         netVars, peerVars, serverVars, vars
  <2> QED BY <1>1, <2>1
<1> QED BY <1>4, <1>5 DEF ServerNext

LEMMA FrameSoundStep ==
    ASSUME AccountInv, FrameSound, [ServerNext]_serverVars
    PROVE  FrameSound'
<1>0. /\ ServerInv /\ ChainInv /\ RequestsSound /\ RequestsDistinct
      /\ requests \in [Workers -> Seq(Request)]
  BY DEF AccountInv, ServerInv, ChainInv, TypeInv, TypeOK
<1>1. CASE NetStep
  <2>1. request' = request /\ frame' = frame /\ [Next]_vars
    BY <1>1 DEF NetStep, NetFrame
  <2>2. \A d \in Conns : /\ Received(d) \in Nat /\ consumed'[d] \div 2 \in Nat
                         /\ Received(d) <= consumed'[d] \div 2
    BY <1>0, <2>1, QueueGrowth
  <2> SUFFICES ASSUME request # NoRequest
               PROVE  /\ request \in Request /\ frame \in {"dequeue", "dispatch"}
                      /\ request.packet[2] \in 1 .. (consumed'[request.packet[1]] \div 2)
    BY <2>1 DEF FrameSound, Received
  <2>3. /\ request \in Request /\ frame \in {"dequeue", "dispatch"}
        /\ request.packet[2] \in 1 .. Received(request.packet[1])
    BY DEF FrameSound
  <2>4. PICK d \in Conns, k \in Nat : request.packet[1] = d /\ request.packet[2] = k
    BY <2>3 DEF Request
  <2> QED BY <2>2, <2>3, <2>4
<1>2. ASSUME NEW w \in Workers, TryDequeue(w) PROVE FrameSound'
  <2>1. /\ requests[w] # <<>> /\ request' = Head(requests[w]) /\ frame' = "dispatch"
        /\ request' \in Request /\ consumed' = consumed
        /\ requests' = [requests EXCEPT ![w] = Tail(@)]
    BY <1>0, <1>2, TakeTyped DEF TryDequeue, netVars
  <2>2. <<w, 1>> \in Slots /\ RequestIn(<<w, 1>>) = Head(requests[w])
    BY <1>0, <2>1, SlotTaken
  <2> QED BY <1>0, <2>1, <2>2 DEF FrameSound, RequestsSound, Received
<1>3. CASE BeginFrame \/ LeaveLoop \/ Dispatch \/ EndFrame \/ (\E w \in Workers : Signal(w))
           \/ UNCHANGED serverVars
  <2>1. /\ consumed' = consumed /\ request' \in {request, NoRequest}
        /\ request' # NoRequest /\ frame \in {"dequeue", "dispatch"}
               => frame' \in {"dequeue", "dispatch"}
    BY <1>3 DEF BeginFrame, LeaveLoop, Dispatch, EndFrame, Signal, netVars, serverVars, vars,
         frameVars
  <2> QED BY <2>1 DEF FrameSound, Received
<1> QED BY <1>1, <1>2, <1>3 DEF ServerNext, MainStep

LEMMA OwnedSame ==
    ASSUME Owned, Held' = Held, UNCHANGED <<users, block_of>>
    PROVE  Owned'
BY DEF Owned

LEMMA OwnedLetsGo ==
    ASSUME Owned, PoolOK, Held' \subseteq Held, LetGo
    PROVE  PoolOK' /\ Owned'
<1>1. ASSUME Held \subseteq Held', UNCHANGED <<poolVars, block_of>> PROVE PoolOK' /\ Owned'
  <2>1. Held' = Held /\ users' = users
    BY <1>1 DEF poolVars
  <2>2. PoolOK'
    BY <1>1 DEF PoolOK, Pool!OnePlace, poolVars
  <2> QED BY <1>1, <2>1, <2>2, OwnedSame
<1>2. ASSUME NEW p \in Held, Held \ Held' = {p}, Pool!Release(block_of[p]),
             block_of' = [block_of EXCEPT ![p] = NoBlock]
      PROVE  PoolOK' /\ Owned'
  <2>1. PICK b \in Blocks : b = block_of[p]
    BY DEF Owned
  <2>2. PoolOK' /\ users' = [users EXCEPT ![b] = 0]
    BY <1>2, <2>1, PoolTakesBack
  <2>3. Held' = Held \ {p} /\ p \in AllPackets
    BY <1>2 DEF Owned
  <2>4. ASSUME NEW q \in Held'
        PROVE  q \in Held /\ q # p /\ block_of'[q] = block_of[q] /\ block_of[q] # b
    BY <1>2, <2>1, <2>3 DEF Owned
  <2>5. \A a \in Blocks : a # b => users'[a] = users[a]
    BY <2>2 DEF PoolOK
  <2>6. users'[b] = 0
    BY <2>2 DEF PoolOK
  <2>7. block_of' \in [AllPackets -> Blocks \cup {NoBlock}]
    BY <1>2 DEF Owned
  <2>8. \A q \in Held' : block_of'[q] \in Blocks /\ users'[block_of'[q]] = 1
    BY <2>4, <2>5 DEF Owned
  <2>9. \A q, r \in Held' : block_of'[q] = block_of'[r] => q = r
    BY <2>4 DEF Owned
  <2>10. ASSUME NEW a \in Blocks, users'[a] > 0 PROVE \E q \in Held' : block_of'[q] = a
    <3>1. a # b /\ users[a] > 0
      BY <2>5, <2>6, <2>10
    <3>2. PICK q \in Held : block_of[q] = a
      BY <3>1 DEF Owned
    <3> QED BY <2>1, <2>3, <2>4, <3>1, <3>2
  <2> QED BY <2>2, <2>3, <2>7, <2>8, <2>9, <2>10 DEF Owned
<1> QED BY <1>1, <1>2 DEF LetGo

LEMMA OwnedGets ==
    ASSUME Owned, PoolOK, NEW p \in AllPackets, p \notin Held, Held' = Held \cup {p},
           NEW b \in Blocks, users[b] = 0, users' = [users EXCEPT ![b] = 1],
           block_of' = [block_of EXCEPT ![p] = b]
    PROVE  Owned'
<1>1. /\ \A q \in Held : block_of'[q] = block_of[q] /\ block_of[q] # b
      /\ block_of'[p] = b
  BY DEF Owned
<1>2. users'[b] = 1 /\ \A a \in Blocks : a # b => users'[a] = users[a]
  BY DEF PoolOK
<1>3. block_of' \in [AllPackets -> Blocks \cup {NoBlock}] /\ Held' \subseteq AllPackets
  BY DEF Owned
<1>4. \A q \in Held' : block_of'[q] \in Blocks /\ users'[block_of'[q]] = 1
  BY <1>1, <1>2 DEF Owned
<1>5. \A q, r \in Held' : block_of'[q] = block_of'[r] => q = r
  BY <1>1 DEF Owned
<1>6. \A a \in Blocks : users'[a] > 0 => \E q \in Held' : block_of'[q] = a
  BY <1>1, <1>2 DEF Owned
<1> QED BY <1>3, <1>4, <1>5, <1>6 DEF Owned

LEMMA MemoryInvInit == MemoryInit => MemoryInv
<1> SUFFICES ASSUME MemoryInit PROVE MemoryInv
  OBVIOUS
<1>1. /\ ServerInit /\ Pool!Init /\ AccountInv
      /\ block_of = [p \in AllPackets |-> NoBlock]
  BY AccountInit DEF MemoryInit, AllPackets
<1>2. Bounded
  BY <1>1, ConstantsAssumption DEF ServerInit, Init, Bounded
<1>3. request = NoRequest
  BY <1>1 DEF ServerInit
<1>4. Held = {}
  <2>1. InReads = {} /\ InHandlers = {} /\ InQueue = {}
    BY <1>1 DEF ServerInit, Init, InReads, InHandlers, InQueue, Slots
  <2> QED BY <1>3, <2>1 DEF Held, InFrame
<1>5. PoolOK
  <2>1. /\ pool \in [Blocks -> Pool!Pools \cup {0}]
        /\ free = [k \in Pool!Pools |-> [b \in Blocks |-> IF pool[b] = k THEN 1 ELSE 0]]
        /\ users = [b \in Blocks |-> 0] /\ rent_pc = [w \in Workers |-> "idle"]
        /\ want = [w \in Workers |-> 0]
    BY <1>1 DEF Pool!Init
  <2>2. Pool!OnePlace
    BY <2>1 DEF Pool!OnePlace
  <2> QED BY <2>1, <2>2 DEF PoolOK
<1>6. Owned
  BY <1>1, <1>4, <1>5 DEF Owned, Pool!Init
<1> QED BY <1>1, <1>2, <1>3, <1>5, <1>6 DEF MemoryInv, FrameSound

LEMMA MemoryInvStep == MemoryInv /\ [MemoryNext]_memoryVars => MemoryInv'
<1> SUFFICES ASSUME MemoryInv, [MemoryNext]_memoryVars PROVE PoolOK' /\ Owned'
  BY MemoryIsServer, AccountStep, BoundedStep, FrameSoundStep
  DEF MemoryInv, AccountInv, ServerInv
<1>0. /\ ServerInv /\ ChainInv /\ RequestsSound /\ FrameSound /\ PoolOK /\ Owned /\ Bounded
      /\ TypeOK
  BY DEF MemoryInv, AccountInv, ServerInv, ChainInv, TypeInv
<1>1. ASSUME UNCHANGED serverVars PROVE Held' = Held
  BY <1>1 DEF serverVars, vars, frameVars, connVars, Held, InReads, InHandlers, InQueue, InFrame,
       Current, RequestOf, Slots, RequestIn
<1>2. CASE Elsewhere
  <2>1. ASSUME NEW w \in Workers, RentBlock(w) PROVE FALSE
    <3>1. pc[w] = "rent" /\ pc'[w] = "idle"
      BY <1>0, <2>1 DEF RentBlock, Return, Enter, TypeOK
    <3> QED BY <1>2, <3>1 DEF Elsewhere, Renting
  <2>2. CASE NetStep
    <3>1. [Next]_vars /\ request' = request
      BY <2>2 DEF NetStep, NetFrame
    <3> QED BY <1>0, <1>2, <2>1, <3>1, NetHeld, OwnedLetsGo DEF Elsewhere
  <2>3. CASE MainStep \/ \E w \in Workers : Signal(w)
    BY <1>0, <1>2, <2>3, MainHeld, OwnedLetsGo DEF Elsewhere
  <2> QED BY <1>2, <2>2, <2>3 DEF Elsewhere, ServerNext
<1>3. ASSUME NEW w \in Workers, LookForBlock(w) PROVE PoolOK' /\ Owned'
  <2>1. Held' = Held /\ block_of' = block_of
    BY <1>1, <1>3 DEF LookForBlock
  <2>2. PoolOK' /\ users' = users
    BY <1>0, <1>3, PoolLooks DEF LookForBlock
  <2> QED BY <1>0, <2>1, <2>2, OwnedSame
<1>4. ASSUME NEW w \in Workers, NEW c \in Conns, AskForBlock(w, c) PROVE PoolOK' /\ Owned'
  <2>1. HeaderRead(w, c) /\ UNCHANGED <<request, block_of>>
    BY <1>4 DEF AskForBlock, NetFrame
  <2>2. Held' = Held
    BY <1>0, <2>1, HeaderHeld
  <2>3. (\E n \in Sizes : Pool!Rent(w, n)) \/ UNCHANGED poolVars
    BY <1>4 DEF AskForBlock
  <2>4. PoolOK' /\ users' = users
    BY <1>0, <2>3, PoolLooks
  <2> QED BY <1>0, <2>1, <2>2, <2>4, OwnedSame
<1>5. ASSUME NEW w \in Workers, GetNoBlock(w) PROVE PoolOK' /\ Owned'
  <2>1. RentFails(w) /\ UNCHANGED <<request, block_of>>
    BY <1>5 DEF GetNoBlock, NetFrame
  <2>2. UNCHANGED <<payload_reads, consumed, requests>> /\ pc[w] = "rent"
    BY <2>1 DEF RentFails, connVars
  <2>3. \A v \in Workers :
          /\ pc'[v] \in {"next_header", "disconnect"} => pc'[v] = pc[v] /\ at'[v] = at[v]
          /\ pc[v] \in {"next_header", "disconnect"} => pc'[v] = pc[v] /\ at'[v] = at[v]
    BY <1>0, <2>1 DEF RentFails, Goto, Enter, TypeOK
  <2>4. Held' = Held
    BY <2>1, <2>2, <2>3, QuietHeld
  <2>5. PoolOK' /\ users' = users
    BY <1>0, <1>5, PoolLooks DEF GetNoBlock
  <2> QED BY <1>0, <2>1, <2>4, <2>5, OwnedSame
<1>6. ASSUME NEW w \in Workers, NEW b \in Blocks, GetBlock(w, b) PROVE PoolOK' /\ Owned'
  <2>1. /\ RentBlock(w) /\ request' = request
        /\ block_of' = [block_of EXCEPT ![Current(at[w])] = b]
    BY <1>6 DEF GetBlock, NetFrame
  <2>2. PICK c \in Conns :
          /\ c = at[w] /\ consumed[c] % 2 = 1
          /\ Current(c) \notin Held /\ Held' = Held \cup {Current(c)}
    BY <1>0, <2>1, RentHeld
  <2>3. Current(c) \in AllPackets
    <3>1. consumed[c] \in Nat /\ MaxPackets \in Nat /\ consumed[c] <= 2 * MaxPackets
      BY <1>0, ConstantsAssumption DEF TypeOK, Bounded
    <3>2. (consumed[c] + 1) \div 2 \in 1 .. MaxPackets
      BY <2>2, <3>1
    <3> QED BY <3>2 DEF Current, RequestOf, AllPackets
  <2>4. PoolOK' /\ users[b] = 0 /\ users' = [users EXCEPT ![b] = 1]
    BY <1>0, <1>6, PoolLends DEF GetBlock
  <2> QED BY <1>0, <2>1, <2>2, <2>3, <2>4, OwnedGets
<1>7. CASE UNCHANGED memoryVars
  <2>1. Held' = Held /\ UNCHANGED <<users, block_of>>
    BY <1>1, <1>7 DEF memoryVars, poolVars
  <2>2. PoolOK'
    BY <1>0, <1>7 DEF PoolOK, Pool!OnePlace, memoryVars, poolVars
  <2> QED BY <1>0, <2>1, <2>2, OwnedSame
<1> QED BY <1>2, <1>3, <1>4, <1>5, <1>6, <1>7 DEF MemoryNext

LEMMA MemoryInvAlways == MemorySpec => []MemoryInv
BY MemoryInvInit, MemoryInvStep, PTL DEF MemorySpec

LEMMA LentServes == MemoryInv => MemoryFollowsTraffic
<1> SUFFICES ASSUME MemoryInv PROVE MemoryFollowsTraffic
  OBVIOUS
<1> DEFINE rest == {b \in Blocks : users[b] > 0}
                       \ {block_of[p] : p \in InReads \cup InHandlers \cup InQueue}
<1>0. PoolOK /\ Owned /\ FrameSound
  BY DEF MemoryInv
<1>1. \A b \in rest : \E p \in InFrame : block_of[p] = b
  BY <1>0 DEF Owned, Held
<1>2. CASE request = NoRequest
  <2>1. Cardinality(rest) = 0
    BY <1>1, <1>2, FS_EmptySet DEF InFrame
  <2> QED BY <2>1 DEF MemoryFollowsTraffic
<1>3. CASE request # NoRequest
  <2> DEFINE last == block_of[request.packet]
  <2>1. rest = {} \/ rest = {last}
    BY <1>1, <1>3 DEF InFrame
  <2>2. Cardinality(rest) <= 1
    <3>1. Cardinality({}) = 0 /\ Cardinality({last}) = 1
      BY FS_EmptySet, FS_Singleton
    <3> HIDE DEF rest, last
    <3> QED BY <2>1, <3>1
  <2>3. frame \in {"dequeue", "dispatch"}
    BY <1>0, <1>3 DEF FrameSound
  <2> QED BY <2>2, <2>3 DEF MemoryFollowsTraffic
<1> QED BY <1>2, <1>3

\* Whoever refers to a packet, from its payload read to the main thread's frame, has
\* its block for itself: no block is given back too early or lent twice.
THEOREM PacketsKeepBlocks == MemorySpec => []PacketsOwnMemory
<1>1. MemoryInv => PacketsOwnMemory
  BY MemoryAssumption DEF MemoryInv, Owned, PacketsOwnMemory
<1> QED BY <1>1, MemoryInvAlways, PTL

\* Every block that is lent serves a packet that is read, queued or in the main
\* thread's frame: no way in which a session or a frame ends leaks one.
THEOREM BlocksFollowTraffic == MemorySpec => []MemoryFollowsTraffic
BY LentServes, MemoryInvAlways, PTL

\* The composition is a server and a pool: it adds no step to either, so that what is
\* proved of RequestDispatch and of MemoryPool holds in it. The pool is asked to take
\* back nothing but blocks of its own.
THEOREM MemoryComposes == MemorySpec => ServerSpec /\ Pool!Spec
<1>1. MemoryInit => ServerInit /\ Pool!Init
  BY DEF MemoryInit
<1>2. MemoryInv /\ [MemoryNext]_memoryVars => [Pool!Next]_(Pool!vars)
  <2> SUFFICES ASSUME MemoryInv, [MemoryNext]_memoryVars, ~ UNCHANGED poolVars
               PROVE  Pool!Next
    BY DEF poolVars, Pool!vars
  <2>1. CASE Elsewhere
    <3>1. PICK p \in Held : Pool!Release(block_of[p])
      BY <2>1 DEF Elsewhere, LetGo
    <3> QED BY <3>1 DEF MemoryInv, Owned, Pool!Next
  <2>2. ASSUME NEW w \in Workers,
               \/ LookForBlock(w) \/ GetNoBlock(w) \/ \E b \in Blocks : GetBlock(w, b)
        PROVE  Pool!Renting(w)
    BY <2>2 DEF LookForBlock, GetNoBlock, GetBlock, Pool!Renting
  <2>3. ASSUME NEW w \in Workers, NEW c \in Conns, AskForBlock(w, c)
        PROVE  \E n \in Sizes : Pool!Rent(w, n)
    BY <2>3 DEF AskForBlock
  <2> QED BY <2>1, <2>2, <2>3 DEF MemoryNext, memoryVars, Pool!Next
<1> QED BY <1>1, <1>2, MemoryIsServer, MemoryInvAlways, PTL DEF MemorySpec, ServerSpec, Pool!Spec

=============================================================================
