------------------------- MODULE RequestQueueProofs -------------------------
(***************************************************************************)
(* Proofs about the requests the io threads of TcpSessions queue: nothing  *)
(* is left out, doubled or queued under another session's id, and every    *)
(* thread keeps the order of a client's packets.                           *)
(***************************************************************************)
EXTENDS TcpSessionsProofs, SequenceTheorems, FiniteSetTheorems

USE DEF Arm, ArrivedWhole, Stopped, Closed, SessionKey, ArmAccept, AcceptsAgain, RunReturns

\* The packets of a client that were read whole.
Received(c) == consumed[c] \div 2

LEMMA Halves ==
    \A n \in Nat : /\ n \div 2 \in Nat
                   /\ n % 2 = 0 => (n + 1) \div 2 = n \div 2
                   /\ n % 2 = 1 => (n + 1) \div 2 = n \div 2 + 1
OBVIOUS

-----------------------------------------------------------------------------
(* The slots of the queue.                                                 *)

LEMMA SlotDomain ==
    ASSUME requests \in [Workers -> Seq(Request)]
    PROVE  /\ Slots = {s \in Workers \X (Nat \ {0}) : s[2] <= Len(requests[s[1]])}
           /\ \A s \in Slots : RequestIn(s) \in Request
<1>1. \A w \in Workers : Len(requests[w]) \in Nat /\ DOMAIN requests[w] = 1 .. Len(requests[w])
  OBVIOUS
<1>2. Slots = {s \in Workers \X (Nat \ {0}) : s[2] <= Len(requests[s[1]])}
  BY <1>1 DEF Slots
<1>3. ASSUME NEW s \in Slots PROVE RequestIn(s) \in Request
  BY <1>2 DEF RequestIn
<1> QED BY <1>2, <1>3

\* A request that is queued gets a slot of its own and leaves the others alone.
LEMMA SlotAdded ==
    ASSUME requests \in [Workers -> Seq(Request)], NEW w \in Workers, NEW r \in Request,
           requests' = [requests EXCEPT ![w] = Append(@, r)], NEW new,
           new = <<w, Len(requests[w]) + 1>>
    PROVE  /\ requests' \in [Workers -> Seq(Request)]
           /\ new \notin Slots /\ Slots' = Slots \cup {new}
           /\ requests'[new[1]][new[2]] = r
           /\ \A s \in Slots : requests'[s[1]][s[2]] = requests[s[1]][s[2]]
<1>1. requests' \in [Workers -> Seq(Request)]
  OBVIOUS
<1>2. /\ Len(requests[w]) \in Nat /\ Len(requests'[w]) = Len(requests[w]) + 1
      /\ requests'[w][Len(requests[w]) + 1] = r
      /\ \A i \in 1 .. Len(requests[w]) : requests'[w][i] = requests[w][i]
      /\ \A v \in Workers \ {w} : requests'[v] = requests[v]
  OBVIOUS
<1>3. Slots = {s \in Workers \X (Nat \ {0}) : s[2] <= Len(requests[s[1]])}
  BY SlotDomain
<1>4. Slots' = {s \in Workers \X (Nat \ {0}) : s[2] <= Len(requests'[s[1]])}
  BY <1>1 DEF Slots
<1>5. new \notin Slots
  BY <1>2, <1>3
<1>6. Slots' = Slots \cup {new}
  <2>1. ASSUME NEW s \in Workers \X (Nat \ {0})
        PROVE  s[2] <= Len(requests'[s[1]]) <=> s[2] <= Len(requests[s[1]]) \/ s = new
    BY <1>2
  <2>2. new \in Workers \X (Nat \ {0})
    BY <1>2
  <2> QED BY <1>3, <1>4, <2>1, <2>2
<1>7. ASSUME NEW s \in Slots PROVE requests'[s[1]][s[2]] = requests[s[1]][s[2]]
  BY <1>2, <1>3
<1> QED BY <1>1, <1>2, <1>5, <1>6, <1>7

-----------------------------------------------------------------------------
(* What the steps do to the queue.                                         *)

\* A thread queues the next packet of a session it has read whole.
QueuesPacket(w, c) ==
    /\ c \in running /\ session_id[c] \in Ids
    /\ requests' = [requests EXCEPT ![w] = Append(@, [session_id |-> session_id[c],
                                                     packet |-> <<c, Received(c) + 1>>])]
    /\ \A d \in Conns : consumed'[d] \div 2 = IF d = c THEN Received(c) + 1 ELSE Received(d)
    /\ session_id' = session_id

\* Nothing is queued; sessions that have received packets keep their ids.
QueuesNothing ==
    /\ requests' = requests
    /\ \A d \in Conns : /\ consumed'[d] \div 2 = Received(d)
                        /\ Received(d) > 0 => session_id'[d] = session_id[d]

LEMMA PayloadQueued ==
    ASSUME ChainInv, NEW w \in Workers, NEW c \in Conns, PayloadRead(w, c)
    PROVE  QueuesPacket(w, c)
<1>0. TypeOK /\ Identified /\ ChainOK(c)
  BY DEF ChainInv, TypeInv
<1>1. c \in running /\ session_id[c] \in Ids /\ consumed[c] \in Nat /\ consumed[c] % 2 = 1
  BY <1>0 DEF PayloadRead, ChainOK, Pending, TypeOK, Identified
<1>2. (consumed[c] + 1) \div 2 = Received(c) + 1
  BY <1>1, Halves DEF Received
<1>3. /\ requests' = [requests EXCEPT ![w] = Append(@, RequestOf(c))]
      /\ consumed' = [consumed EXCEPT ![c] = @ + 1]
      /\ session_id' = session_id
  BY <1>1 DEF PayloadRead, Enqueue
<1>4. \A d \in Conns : consumed'[d] \div 2 = IF d = c THEN Received(c) + 1 ELSE Received(d)
  BY <1>0, <1>2, <1>3 DEF TypeOK, Received
<1> QED BY <1>1, <1>2, <1>3, <1>4 DEF QueuesPacket, RequestOf

LEMMA QueueMoves ==
    ASSUME ChainInv, [Next]_vars
    PROVE  \/ QueuesNothing
           \/ \E w \in Workers, c \in Conns : PayloadRead(w, c) /\ QueuesPacket(w, c)
<1>0. TypeOK
  BY DEF ChainInv, TypeInv
<1>1. ASSUME NEW w \in Workers, NEW c \in Conns, HeaderRead(w, c) PROVE QueuesNothing
  <2>1. consumed[c] \in Nat /\ consumed[c] % 2 = 0
    BY <1>0, <1>1 DEF HeaderRead, ChainInv, ChainOK, TypeOK
  <2>2. /\ requests' = requests /\ session_id' = session_id
        /\ consumed' = [consumed EXCEPT ![c] = @ + 1]
    BY <1>1 DEF HeaderRead
  <2> QED BY <1>0, <2>1, <2>2, Halves DEF QueuesNothing, Received, TypeOK
<1>2. ASSUME NEW w \in Workers, CreateSession(w) PROVE QueuesNothing
  <2>1. /\ at[w] \in Conns /\ consumed[at[w]] = 0
        /\ requests' = requests /\ consumed' = consumed
        /\ session_id' = [session_id EXCEPT ![at[w]] = counter]
    BY <1>0, <1>2 DEF CreateSession, ChainInv, UnmadeUntouched, Unmade, TypeOK, AcceptPcs
  <2>2. Received(at[w]) = 0
    BY <2>1 DEF Received
  <2> QED BY <1>0, <2>1, <2>2 DEF QueuesNothing, Received, TypeOK
<1>3. ASSUME requests' = requests, consumed' = consumed, session_id' = session_id
      PROVE  QueuesNothing
  BY <1>3 DEF QueuesNothing, Received
<1>4. \/ \E w \in Workers, c \in Conns : HeaderRead(w, c) \/ PayloadRead(w, c)
      \/ \E w \in Workers : CreateSession(w)
      \/ requests' = requests /\ consumed' = consumed /\ session_id' = session_id
  BY DEF vars, connVars, Next, Client, ClientConnect, ClientSend, ClientDown, ClientLost,
         HandlerStep, InsertSession, AcceptNext, RentBlock, RentFails, Evict, StopEvicted,
         NextHeader, OnDisconnected, ReadCompletes, ReadFailed,
         WorkerExits, Accepted, AcceptFailed, Stop, StopContext, CloseAcceptor
<1> QED BY <1>1, <1>2, <1>3, <1>4, PayloadQueued

-----------------------------------------------------------------------------
(* The queue is the record of what was received.                           *)

\* Every request is for a packet that was received, under its session's id; no two
\* are for the same packet; and every packet received has one.
RequestsSound ==
    \A s \in Slots :
        /\ RequestIn(s).packet[2] \in 1 .. Received(RequestIn(s).packet[1])
        /\ RequestIn(s).session_id = session_id[RequestIn(s).packet[1]]

RequestsDistinct ==
    \A s, t \in Slots : RequestIn(s).packet = RequestIn(t).packet => s = t

RequestsThere ==
    \A c \in Conns : \A n \in 1 .. Received(c) : \E s \in Slots : RequestIn(s).packet = <<c, n>>

QueueInv == ChainInv /\ RequestsSound /\ RequestsDistinct /\ RequestsThere /\ RequestsInOrder

LEMMA QueueInit == Init => QueueInv
<1> SUFFICES ASSUME Init PROVE QueueInv
  OBVIOUS
<1>1. Slots = {}
  BY DEF Init, Slots
<1>2. \A c \in Conns : Received(c) = 0
  BY DEF Init, Received
<1> QED BY ChainInit, <1>1, <1>2
      DEF Init, QueueInv, RequestsSound, RequestsDistinct, RequestsThere, RequestsInOrder

\* The packet that is queued carries the next number of its client: its slot is new,
\* and it is new itself.
LEMMA PacketSlot ==
    ASSUME ChainInv, RequestsSound, NEW w \in Workers, NEW c \in Conns, QueuesPacket(w, c)
    PROVE  \E new :
              /\ new \notin Slots /\ Slots' = Slots \cup {new}
              /\ requests'[new[1]][new[2]].packet = <<c, Received(c) + 1>>
              /\ requests'[new[1]][new[2]].session_id = session_id[c]
              /\ \A s \in Slots : /\ requests'[s[1]][s[2]] = requests[s[1]][s[2]]
                                  /\ requests[s[1]][s[2]].packet # <<c, Received(c) + 1>>
<1> DEFINE n == Received(c) + 1
           r == [session_id |-> session_id[c], packet |-> <<c, n>>]
           new == <<w, Len(requests[w]) + 1>>
<1>1. requests \in [Workers -> Seq(Request)] /\ Received(c) \in Nat
  BY Halves DEF ChainInv, TypeInv, TypeOK, Received
<1>2. requests' = [requests EXCEPT ![w] = Append(@, r)] /\ r \in Request
  BY <1>1 DEF QueuesPacket, Request
<1>3. r.session_id = session_id[c] /\ r.packet = <<c, n>> /\ n = Received(c) + 1
  OBVIOUS
<1> HIDE DEF n, r
<1>4. /\ new \notin Slots /\ Slots' = Slots \cup {new}
      /\ requests'[new[1]][new[2]] = r
      /\ \A s \in Slots : requests'[s[1]][s[2]] = requests[s[1]][s[2]]
      /\ \A s \in Slots : RequestIn(s) \in Request
  BY <1>1, <1>2, SlotAdded, SlotDomain
<1>5. \A s \in Slots : requests[s[1]][s[2]].packet # <<c, n>>
  BY <1>1, <1>3, <1>4 DEF RequestsSound, RequestIn, Request
<1>6. /\ requests'[new[1]][new[2]].packet = <<c, n>>
      /\ requests'[new[1]][new[2]].session_id = session_id[c]
  BY <1>3, <1>4
<1> HIDE DEF new
<1> QED BY <1>3, <1>4, <1>5, <1>6

LEMMA SoundGrows ==
    ASSUME ChainInv, RequestsSound, RequestsDistinct,
           NEW w \in Workers, NEW c \in Conns, QueuesPacket(w, c)
    PROVE  RequestsSound' /\ RequestsDistinct'
<1> DEFINE n == Received(c) + 1
<1>1. /\ requests \in [Workers -> Seq(Request)]
      /\ \A d \in Conns : Received(d) \in Nat
      /\ n = Received(c) + 1
  BY Halves DEF ChainInv, TypeInv, TypeOK, Received
<1> HIDE DEF n
<1>2. /\ session_id' = session_id
      /\ \A d \in Conns : consumed'[d] \div 2 = IF d = c THEN n ELSE Received(d)
  BY <1>1 DEF QueuesPacket
<1>3. PICK new :
         /\ Slots' = Slots \cup {new}
         /\ requests'[new[1]][new[2]].packet = <<c, n>>
         /\ requests'[new[1]][new[2]].session_id = session_id[c]
         /\ \A s \in Slots : /\ requests'[s[1]][s[2]] = requests[s[1]][s[2]]
                             /\ requests[s[1]][s[2]].packet # <<c, n>>
  BY <1>1, PacketSlot
<1>4. \A s \in Slots : RequestIn(s) \in Request
  BY <1>1, SlotDomain
<1>5. RequestsSound'
  <2>1. ASSUME NEW s \in Slots
        PROVE  LET p == requests[s[1]][s[2]]
               IN p.packet[2] \in 1 .. (consumed'[p.packet[1]] \div 2)
                     /\ p.session_id = session_id'[p.packet[1]]
    <3>1. RequestIn(s).packet[1] \in Conns
      BY <1>4 DEF Request
    <3> QED BY <1>1, <1>2, <3>1 DEF RequestsSound, RequestIn
  <2>2. /\ requests'[new[1]][new[2]].packet[2] \in
               1 .. (consumed'[requests'[new[1]][new[2]].packet[1]] \div 2)
        /\ requests'[new[1]][new[2]].session_id
               = session_id'[requests'[new[1]][new[2]].packet[1]]
    BY <1>1, <1>2, <1>3
  <2> QED BY <1>3, <2>1, <2>2 DEF RequestsSound, RequestIn, Received
<1>6. RequestsDistinct'
  <2>1. ASSUME NEW s \in Slots, NEW t \in Slots,
               requests[s[1]][s[2]].packet = requests[t[1]][t[2]].packet
        PROVE  s = t
    BY <2>1 DEF RequestsDistinct, RequestIn
  <2>2. ASSUME NEW s \in Slots \cup {new}, NEW t \in Slots \cup {new},
               requests'[s[1]][s[2]].packet = requests'[t[1]][t[2]].packet
        PROVE  s = t
    BY <1>3, <2>1, <2>2
  <2> QED BY <1>3, <2>2 DEF RequestsDistinct, RequestIn
<1> QED BY <1>5, <1>6

LEMMA SoundKept ==
    ASSUME ChainInv, RequestsSound, QueuesNothing
    PROVE  RequestsSound'
<1>1. requests' = requests /\ Slots' = Slots
  BY DEF QueuesNothing, Slots
<1>2. \A s \in Slots : RequestIn(s).packet[1] \in Conns
  BY SlotDomain DEF Request, ChainInv, TypeInv, TypeOK
<1>3. ASSUME NEW s \in Slots
      PROVE  LET p == requests[s[1]][s[2]]
             IN p.packet[2] \in 1 .. (consumed'[p.packet[1]] \div 2)
                   /\ p.session_id = session_id'[p.packet[1]]
  <2>1. PICK c \in Conns : c = requests[s[1]][s[2]].packet[1]
    BY <1>2 DEF RequestIn
  <2>2. /\ requests[s[1]][s[2]].packet[2] \in 1 .. Received(c)
        /\ requests[s[1]][s[2]].session_id = session_id[c]
    BY <2>1 DEF RequestsSound, RequestIn
  <2>3. Received(c) \in Nat
    BY Halves DEF ChainInv, TypeInv, TypeOK, Received
  <2>4. consumed'[c] \div 2 = Received(c) /\ session_id'[c] = session_id[c]
    BY <2>2, <2>3 DEF QueuesNothing
  <2> QED BY <2>1, <2>2, <2>4
<1> QED BY <1>1, <1>3 DEF RequestsSound, RequestIn, Received

\* Received numbers only grow, so that what is queued behind them is in order.
LEMMA InOrderGrows ==
    ASSUME ChainInv, RequestsSound, RequestsInOrder,
           NEW w \in Workers, NEW c \in Conns, QueuesPacket(w, c)
    PROVE  RequestsInOrder'
<1> DEFINE n == Received(c) + 1
           r == [session_id |-> session_id[c], packet |-> <<c, n>>]
<1>1. requests \in [Workers -> Seq(Request)] /\ Received(c) \in Nat
  BY Halves DEF ChainInv, TypeInv, TypeOK, Received
<1>2. requests' = [requests EXCEPT ![w] = Append(@, r)] /\ r \in Request
  BY <1>1 DEF QueuesPacket, Request
<1>3. r.packet = <<c, n>> /\ n = Received(c) + 1
  OBVIOUS
<1> HIDE DEF n, r
<1>4. \A s \in Slots : requests'[s[1]][s[2]] = requests[s[1]][s[2]]
  BY <1>1, <1>2, SlotAdded
<1>5. ASSUME NEW v \in Workers, NEW i \in DOMAIN requests'[v], NEW j \in DOMAIN requests'[v],
             i < j, requests'[v][i].packet[1] = requests'[v][j].packet[1]
      PROVE  requests'[v][i].packet[2] < requests'[v][j].packet[2]
  <2>1. \A k \in DOMAIN requests[v] : <<v, k>> \in Slots /\ requests'[v][k] = requests[v][k]
    BY <1>1, <1>4 DEF Slots
  <2>2. \A k \in DOMAIN requests'[v] :
           k \in DOMAIN requests[v] \/ (v = w /\ k = Len(requests[w]) + 1 /\ requests'[v][k] = r)
    BY <1>1, <1>2
  <2>3. i \in DOMAIN requests[v]
    BY <1>1, <1>5, <2>2, <1>2
  <2>4. CASE j \in DOMAIN requests[v]
    BY <1>5, <2>1, <2>3, <2>4 DEF RequestsInOrder
  <2>5. CASE requests'[v][j] = r
    <3>1. /\ requests'[v][i].packet[1] = c
          /\ requests'[v][i] = RequestIn(<<v, i>>) /\ <<v, i>> \in Slots
      BY <1>3, <1>5, <2>1, <2>3, <2>5 DEF RequestIn
    <3> QED BY <1>1, <1>3, <2>5, <3>1 DEF RequestsSound
  <2> QED BY <2>2, <2>4, <2>5
<1> QED BY <1>5 DEF RequestsInOrder

\* All of it for any step: counts of received packets grow, what is queued stays, and
\* what has newly been received is newly queued.
LEMMA QueueGrowth ==
    ASSUME ChainInv, RequestsSound, RequestsDistinct, [Next]_vars
    PROVE  /\ RequestsSound' /\ RequestsDistinct'
           /\ \A d \in Conns : /\ Received(d) \in Nat /\ consumed'[d] \div 2 \in Nat
                               /\ Received(d) <= consumed'[d] \div 2
                               /\ Received(d) > 0 => session_id'[d] = session_id[d]
           /\ \A s \in Slots : s \in Slots' /\ requests'[s[1]][s[2]] = requests[s[1]][s[2]]
           /\ \A s \in Slots' : s \in Slots \/ \E c \in Conns :
                  requests'[s[1]][s[2]].packet = <<c, Received(c) + 1>>
           /\ \A d \in Conns : \A k \in 1 .. (consumed'[d] \div 2) :
                  \/ k \in 1 .. Received(d)
                  \/ \E s \in Slots' : requests'[s[1]][s[2]].packet = <<d, k>>
<1>0. \A d \in Conns : Received(d) \in Nat
  BY Halves DEF ChainInv, TypeInv, TypeOK, Received
<1>1. CASE QueuesNothing
  <2>1. requests' = requests /\ Slots' = Slots
    BY <1>1 DEF QueuesNothing, Slots
  <2>2. RequestsDistinct'
    BY <2>1 DEF RequestsDistinct, RequestIn
  <2>3. \A d \in Conns : /\ consumed'[d] \div 2 = Received(d)
                         /\ Received(d) > 0 => session_id'[d] = session_id[d]
    BY <1>1 DEF QueuesNothing
  <2> QED BY <1>0, <1>1, <2>1, <2>2, <2>3, SoundKept
<1>2. CASE \E w \in Workers, c \in Conns : QueuesPacket(w, c)
  <2>1. PICK w \in Workers, c \in Conns : QueuesPacket(w, c)
    BY <1>2
  <2>2. PICK new :
           /\ Slots' = Slots \cup {new}
           /\ requests'[new[1]][new[2]].packet = <<c, Received(c) + 1>>
           /\ \A s \in Slots : requests'[s[1]][s[2]] = requests[s[1]][s[2]]
    BY <2>1, PacketSlot
  <2>3. /\ session_id' = session_id
        /\ \A d \in Conns : consumed'[d] \div 2 = IF d = c THEN Received(c) + 1 ELSE Received(d)
    BY <2>1 DEF QueuesPacket
  <2>4. ASSUME NEW d \in Conns, NEW k \in 1 .. (consumed'[d] \div 2)
        PROVE  \/ k \in 1 .. Received(d)
               \/ \E s \in Slots' : requests'[s[1]][s[2]].packet = <<d, k>>
    <3>1. k \in 1 .. Received(d) \/ (d = c /\ k = Received(c) + 1)
      BY <1>0, <2>3, <2>4
    <3> QED BY <2>2, <3>1
  <2>5. \A d \in Conns : /\ consumed'[d] \div 2 \in Nat /\ Received(d) <= consumed'[d] \div 2
                         /\ Received(d) > 0 => session_id'[d] = session_id[d]
    BY <1>0, <2>3
  <2>6. \A s \in Slots' : s \in Slots \/ \E e \in Conns :
            requests'[s[1]][s[2]].packet = <<e, Received(e) + 1>>
    BY <2>2
  <2> QED BY <1>0, <2>1, <2>2, <2>4, <2>5, <2>6, SoundGrows
<1> QED BY <1>1, <1>2, QueueMoves

LEMMA QueueStep == QueueInv /\ [Next]_vars => QueueInv'
<1> SUFFICES ASSUME QueueInv, [Next]_vars PROVE QueueInv'
  OBVIOUS
<1>1. /\ ChainInv /\ ChainInv' /\ RequestsSound /\ RequestsDistinct /\ RequestsInOrder
      /\ RequestsSound' /\ RequestsDistinct'
  BY ChainStep, QueueGrowth DEF QueueInv
<1>2. ASSUME NEW d \in Conns, NEW k \in 1 .. (consumed'[d] \div 2)
      PROVE  \E s \in Slots' : requests'[s[1]][s[2]].packet = <<d, k>>
  <2>1. CASE k \in 1 .. Received(d)
    <3>1. PICK s \in Slots : requests[s[1]][s[2]].packet = <<d, k>>
      BY <2>1 DEF QueueInv, RequestsThere, RequestIn
    <3> QED BY <1>1, <3>1, QueueGrowth
  <2> QED BY <1>1, <2>1, QueueGrowth
<1>3. RequestsThere'
  BY <1>2 DEF RequestsThere, RequestIn, Received
<1>4. CASE QueuesNothing
  BY <1>1, <1>3, <1>4 DEF QueueInv, QueuesNothing, RequestsInOrder
<1>5. CASE \E w \in Workers, c \in Conns : QueuesPacket(w, c)
  BY <1>1, <1>3, <1>5, InOrderGrows DEF QueueInv
<1> QED BY <1>1, <1>4, <1>5, QueueMoves

\* Every thread queues a client's packets in the order in which they were sent.
THEOREM QueuedInOrder == Spec => []RequestsInOrder
<1>1. Spec => []QueueInv
  BY QueueInit, QueueStep, PTL DEF Spec
<1>2. QueueInv => RequestsInOrder
  BY DEF QueueInv
<1> QED BY <1>1, <1>2, PTL

\* Counting by naming: one name for each, and every name used.
LEMMA SameSize ==
    ASSUME NEW S, NEW T, IsFiniteSet(T), NEW f \in [S -> T],
           \A s, t \in S : f[s] = f[t] => s = t,
           \A k \in T : \E s \in S : f[s] = k
    PROVE  IsFiniteSet(S) /\ Cardinality(S) = Cardinality(T)
<1>1. f \in Injection(S, T) /\ f \in Surjection(S, T)
  BY DEF Injection, Surjection, IsInjective
<1> QED BY <1>1, FS_Injection

\* Whichever threads queue them, the packets a session has read whole are all queued,
\* each once, under that session's id.
THEOREM QueuedCompletely == Spec => []RequestsComplete
<1>1. ASSUME QueueInv PROVE RequestsComplete
  <2>1. requests \in [Workers -> Seq(Request)]
    BY <1>1 DEF QueueInv, ChainInv, TypeInv, TypeOK
  <2> SUFFICES ASSUME NEW c \in Conns
               PROVE  /\ {RequestIn(s).packet[2] : s \in SlotsOf(c)} = 1 .. Received(c)
                      /\ Cardinality(SlotsOf(c)) = Received(c)
                      /\ \A s \in SlotsOf(c) : RequestIn(s).session_id = session_id[c]
    BY DEF RequestsComplete, Received
  <2> DEFINE f == [s \in SlotsOf(c) |-> RequestIn(s).packet[2]]
  <2>2. Received(c) \in Nat
    BY <1>1, Halves DEF QueueInv, ChainInv, TypeInv, TypeOK, Received
  <2>3. ASSUME NEW s \in SlotsOf(c)
        PROVE  /\ s \in Slots /\ RequestIn(s).packet = <<c, f[s]>> /\ f[s] \in 1 .. Received(c)
               /\ RequestIn(s).session_id = session_id[c]
    <3>1. s \in Slots /\ RequestIn(s) \in Request /\ RequestIn(s).packet[1] = c
      BY <2>1, <2>3, SlotDomain DEF SlotsOf
    <3> QED BY <1>1, <3>1 DEF QueueInv, RequestsSound, Request
  <2>4. \A s, t \in SlotsOf(c) : f[s] = f[t] => s = t
    BY <1>1, <2>3 DEF QueueInv, RequestsDistinct
  <2>5. ASSUME NEW k \in 1 .. Received(c) PROVE \E s \in SlotsOf(c) : f[s] = k
    <3>1. PICK s \in Slots : RequestIn(s).packet = <<c, k>>
      BY <1>1 DEF QueueInv, RequestsThere
    <3>2. s \in SlotsOf(c) /\ f[s] = k
      BY <3>1 DEF SlotsOf
    <3> QED BY <3>2
  <2>6. f \in [SlotsOf(c) -> 1 .. Received(c)]
    BY <2>3
  <2>7. Cardinality(SlotsOf(c)) = Received(c)
    <3> HIDE DEF f
    <3>1. IsFiniteSet(1 .. Received(c)) /\ Cardinality(1 .. Received(c)) = Received(c)
      BY <2>2, FS_Interval
    <3> QED BY <2>4, <2>5, <2>6, <3>1, SameSize
  <2>8. {RequestIn(s).packet[2] : s \in SlotsOf(c)} = 1 .. Received(c)
    BY <2>3, <2>5
  <2> QED BY <2>3, <2>7, <2>8
<1>2. Spec => []QueueInv
  BY QueueInit, QueueStep, PTL DEF Spec
<1> QED BY <1>1, <1>2, PTL

=============================================================================
