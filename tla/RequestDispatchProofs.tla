----------------------- MODULE RequestDispatchProofs -----------------------
(***************************************************************************)
(* Proofs about RequestDispatch, for any number of clients, io threads,    *)
(* packets and ids: the semaphore counts what the FIFOs hold, no packet is *)
(* lost or dispatched twice, each thread's packets keep their order, and   *)
(* the whole implements PacketDelivery.                                    *)
(***************************************************************************)
EXTENDS RequestDispatch, SessionMapProofs, RequestQueueProofs

USE DEF Arm, ArrivedWhole, Stopped, Closed, SessionKey, ArmAccept, AcceptsAgain, RunReturns
USE DEF SignalsOnce, Runnable, MayDequeue, AfterDispatch, AfterFrame

-----------------------------------------------------------------------------
(* What the steps of the server do.                                        *)

\* The main thread's steps between packets, and no step at all.
QuietStep ==
    /\ UNCHANGED <<netVars, requests, available, signalled, taken, dispatched>>
    /\ (frame = "dispatch" => frame' = "dispatch") /\ (frame' = "dispatch" => request' = request)
    /\ frame' = "dispatch" => frame = "dispatch"

LEMMA ServerMoves ==
    ASSUME [ServerNext]_serverVars
    PROVE  \/ [Next]_vars /\ NetFrame
           \/ \E w \in Workers : Signal(w) \/ TryDequeue(w)
           \/ Dispatch \/ QuietStep
<1>1. ASSUME NetStep PROVE [Next]_vars /\ NetFrame
  BY <1>1 DEF NetStep
<1>2. ASSUME BeginFrame \/ LeaveLoop \/ EndFrame \/ UNCHANGED serverVars PROVE QuietStep
  BY <1>2 DEF BeginFrame, LeaveLoop, EndFrame, serverVars, vars, frameVars, netVars, QuietStep
<1> QED BY <1>1, <1>2 DEF ServerNext, MainStep

\* The invariants of the read chain do not depend on what is queued.
LEMMA ChainOutside ==
    ASSUME ChainInv, UNCHANGED netVars, requests' \in [Workers -> Seq(Request)]
    PROVE  ChainInv'
<1> USE DEF netVars, tcpVars, connVars, peerVars
<1>1. TypeInv'
  BY DEF ChainInv, TypeInv, TypeOK, Identified
<1>2. SingleAccept' /\ UnmadeUntouched'
  BY DEF ChainInv, SingleAccept, Accepting, UnmadeUntouched, Unmade
<1>3. ASSUME NEW c \in Conns PROVE ChainOK(c)'
  <2>1. ChainOK(c) /\ ChainUnchanged(c)
    BY DEF ChainInv, ChainUnchanged, Handles
  <2> QED BY <2>1, ChainFrame
<1> QED BY <1>1, <1>2, <1>3 DEF ChainInv

-----------------------------------------------------------------------------
(* Types. While the main thread dispatches, it has a request, and room for *)
(* another one in its frame.                                               *)

HandOK == frame = "dispatch" => request \in Request /\ processed < MaxDispatch

ServerInv == ChainInv /\ DispatchTypeOK /\ HandOK

LEMMA ServerInvInit == ServerInit => ServerInv
<1> SUFFICES ASSUME ServerInit PROVE ServerInv
  OBVIOUS
<1>1. ChainInv /\ TypeOK
  BY ChainInit DEF ServerInit, ChainInv, TypeInv
<1>2. taken \in [Workers -> Seq(Conns \X Nat)] /\ dispatched \in [Conns -> Seq(Nat)]
  BY DEF ServerInit
<1>3. processed \in 0 .. MaxDispatch
  BY DispatchAssumption DEF ServerInit
<1> QED BY <1>1, <1>2, <1>3 DEF ServerInit, ServerInv, DispatchTypeOK, HandOK

\* Taking the first request off a FIFO.
LEMMA TakeTyped ==
    ASSUME ServerInv, NEW w \in Workers, TryDequeue(w)
    PROVE  /\ requests[w] \in Seq(Request) /\ requests[w] # <<>>
           /\ Head(requests[w]) \in Request /\ Head(requests[w]).packet \in Conns \X Nat
           /\ requests' = [requests EXCEPT ![w] = Tail(@)]
           /\ requests' \in [Workers -> Seq(Request)]
           /\ taken' = [taken EXCEPT ![w] = Append(@, Head(requests[w]).packet)]
           /\ taken' \in [Workers -> Seq(Conns \X Nat)]
           /\ available' = available - 1 /\ available' \in Nat
           /\ request' = Head(requests[w])
<1>1. /\ requests \in [Workers -> Seq(Request)] /\ taken \in [Workers -> Seq(Conns \X Nat)]
      /\ available \in Nat
  BY DEF ServerInv, DispatchTypeOK, TypeOK
<1>2. requests[w] \in Seq(Request) /\ requests[w] # <<>>
  BY <1>1 DEF TryDequeue, Take
<1>3. Head(requests[w]) \in Request /\ Tail(requests[w]) \in Seq(Request)
  BY <1>2
<1>4. Head(requests[w]).packet \in Conns \X Nat
  BY <1>3 DEF Request
<1>5. requests' = [requests EXCEPT ![w] = Tail(@)] /\ requests' \in [Workers -> Seq(Request)]
  BY <1>1, <1>3 DEF TryDequeue, Take
<1>6. /\ taken' = [taken EXCEPT ![w] = Append(@, Head(requests[w]).packet)]
      /\ taken' \in [Workers -> Seq(Conns \X Nat)]
  BY <1>1, <1>4 DEF TryDequeue, Take
<1> QED BY <1>1, <1>2, <1>3, <1>4, <1>5, <1>6 DEF TryDequeue, Take

\* The packet in the main thread's hand goes to the dispatcher.
LEMMA DispatchTyped ==
    ASSUME ServerInv, Dispatch
    PROVE  /\ request \in Request /\ request.packet[1] \in Conns /\ request.packet[2] \in Nat
           /\ dispatched' = [dispatched EXCEPT ![request.packet[1]] = Append(@, request.packet[2])]
           /\ dispatched' \in [Conns -> Seq(Nat)]
           /\ requests' = requests
<1>1. request \in Request /\ dispatched \in [Conns -> Seq(Nat)]
  BY DEF ServerInv, DispatchTypeOK, HandOK, Dispatch
<1>2. request.packet[1] \in Conns /\ request.packet[2] \in Nat
  BY <1>1 DEF Request
<1> QED BY <1>1, <1>2 DEF Dispatch

LEMMA ServerInvStep == ServerInv /\ [ServerNext]_serverVars => ServerInv'
<1> SUFFICES ASSUME ServerInv, [ServerNext]_serverVars PROVE ServerInv'
  OBVIOUS
<1> USE DEF ServerInv, DispatchTypeOK
<1>1. CASE [Next]_vars /\ NetFrame
  <2>1. ChainInv' /\ TypeOK'
    BY <1>1, ChainStep DEF ChainInv, TypeInv
  <2>2. signalled' \subseteq Enqueued'
    BY <1>1 DEF NetFrame
  <2> QED BY <1>1, <2>1, <2>2 DEF NetFrame, HandOK
<1>2. ASSUME NEW w \in Workers, Signal(w) PROVE ServerInv'
  <2>1. ChainInv'
    BY <1>2, ChainOutside DEF Signal, TypeOK
  <2>2. signalled' \subseteq Enqueued' /\ available' \in Nat
    BY <1>2 DEF Signal, Unsignalled, Enqueued, netVars
  <2> QED BY <1>2, <2>1, <2>2 DEF Signal, HandOK, ChainInv, TypeInv
<1>3. ASSUME NEW w \in Workers, TryDequeue(w) PROVE ServerInv'
  <2>1. requests' \in [Workers -> Seq(Request)]
    BY <1>3, TakeTyped
  <2>2. ChainInv'
    BY <1>3, <2>1, ChainOutside DEF TryDequeue
  <2>3. signalled' \subseteq Enqueued'
    BY <1>3 DEF TryDequeue, Enqueued, netVars
  <2>4. /\ request' \in Request /\ available' \in Nat
        /\ taken' \in [Workers -> Seq(Conns \X Nat)]
    BY <1>3, TakeTyped
  <2> QED BY <1>3, <2>2, <2>3, <2>4, DispatchAssumption
        DEF TryDequeue, HandOK, ChainInv, TypeInv
<1>4. CASE Dispatch
  <2>1. ChainInv'
    BY <1>4, ChainOutside DEF Dispatch, TypeOK
  <2>2. dispatched' \in [Conns -> Seq(Nat)] /\ signalled' \subseteq Enqueued'
    BY <1>4, DispatchTyped DEF Dispatch, Enqueued, netVars
  <2>3. processed' \in 0 .. MaxDispatch
    BY <1>4, DispatchAssumption DEF Dispatch, HandOK
  <2> QED BY <1>4, <2>1, <2>2, <2>3 DEF Dispatch, HandOK, ChainInv, TypeInv
<1>5. CASE BeginFrame \/ LeaveLoop \/ EndFrame \/ UNCHANGED serverVars
  <2>1. ChainInv'
    BY <1>5, ChainOutside
    DEF BeginFrame, LeaveLoop, EndFrame, serverVars, vars, frameVars, netVars, TypeOK
  <2>2. signalled' \subseteq Enqueued'
    BY <1>5 DEF BeginFrame, LeaveLoop, EndFrame, serverVars, vars, frameVars, netVars, Enqueued
  <2>3. /\ UNCHANGED <<available, taken, dispatched>>
        /\ frame' \in {"check", "dequeue", "dispatch", "over"}
        /\ processed' \in 0 .. MaxDispatch /\ request' \in Request \cup {NoRequest}
    BY <1>5, DispatchAssumption DEF BeginFrame, LeaveLoop, EndFrame, serverVars, frameVars
  <2>4. HandOK'
    BY <1>5 DEF BeginFrame, LeaveLoop, EndFrame, serverVars, frameVars, HandOK
  <2> QED BY <2>1, <2>2, <2>3, <2>4 DEF ChainInv, TypeInv
<1> QED BY <1>1, <1>2, <1>3, <1>4, <1>5 DEF ServerNext, NetStep, MainStep

\* Type correctness of the server with its frame loop: what the main thread holds
\* while it dispatches is a request, and no frame exceeds its threshold.
THEOREM DispatchTypeCorrect == ServerSpec => []DispatchTypeOK
<1>1. ServerSpec => []ServerInv
  BY ServerInvInit, ServerInvStep, PTL DEF ServerSpec
<1>2. ServerInv => DispatchTypeOK
  BY DEF ServerInv
<1> QED BY <1>1, <1>2, PTL

-----------------------------------------------------------------------------
(* The slots of the queue, as a request is taken from the front of a FIFO. *)

\* The slot whose request is found in slot s once thread w's first is taken.
Before(w, s) == IF s[1] = w THEN <<w, s[2] + 1>> ELSE s

LEMMA SlotTaken ==
    ASSUME requests \in [Workers -> Seq(Request)], NEW w \in Workers, requests[w] # <<>>,
           requests' = [requests EXCEPT ![w] = Tail(@)]
    PROVE  /\ <<w, 1>> \in Slots /\ RequestIn(<<w, 1>>) = Head(requests[w])
           /\ <<w, Len(requests[w])>> \in Slots
           /\ Slots' = Slots \ {<<w, Len(requests[w])>>}
           /\ \A s \in Slots' : /\ Before(w, s) \in Slots \ {<<w, 1>>}
                                /\ requests'[s[1]][s[2]] = RequestIn(Before(w, s))
           /\ \A s, t \in Slots' : Before(w, s) = Before(w, t) => s = t
           /\ \A s \in Slots \ {<<w, 1>>} : \E t \in Slots' : Before(w, t) = s
<1> DEFINE n == Len(requests[w])
<1>1. /\ n \in Nat /\ n >= 1 /\ Len(requests'[w]) = n - 1
      /\ requests[w][1] = Head(requests[w])
      /\ \A i \in 1 .. n - 1 : requests'[w][i] = requests[w][i + 1]
      /\ \A v \in Workers \ {w} : requests'[v] = requests[v]
      /\ requests' \in [Workers -> Seq(Request)]
  OBVIOUS
<1>2. Slots = {s \in Workers \X (Nat \ {0}) : s[2] <= Len(requests[s[1]])}
  BY SlotDomain
<1>3. Slots' = {s \in Workers \X (Nat \ {0}) : s[2] <= Len(requests'[s[1]])}
  <2>1. \A v \in Workers : Len(requests'[v]) \in Nat /\ DOMAIN requests'[v] = 1 .. Len(requests'[v])
    BY <1>1
  <2> QED BY <2>1 DEF Slots
<1> HIDE DEF n
<1>4. <<w, 1>> \in Slots /\ RequestIn(<<w, 1>>) = Head(requests[w]) /\ <<w, n>> \in Slots
  BY <1>1, <1>2 DEF RequestIn, n
<1>5. ASSUME NEW s \in Workers \X (Nat \ {0})
      PROVE  s[2] <= Len(requests'[s[1]]) <=> s[2] <= Len(requests[s[1]]) /\ s # <<w, n>>
  BY <1>1 DEF n
<1>6. Slots' = Slots \ {<<w, n>>}
  BY <1>2, <1>3, <1>5
<1>7. ASSUME NEW s \in Slots'
      PROVE  /\ Before(w, s) \in Slots \ {<<w, 1>>}
             /\ requests'[s[1]][s[2]] = RequestIn(Before(w, s))
  <2>1. CASE s[1] = w
    <3>1. s = <<w, s[2]>> /\ s[2] \in 1 .. n - 1
      BY <1>1, <1>3, <2>1
    <3>2. <<w, s[2] + 1>> \in Slots \ {<<w, 1>>}
      BY <1>1, <1>2, <3>1 DEF n
    <3> QED BY <1>1, <2>1, <3>1, <3>2 DEF Before, RequestIn
  <2>2. CASE s[1] # w
    BY <1>1, <1>2, <1>3, <2>2 DEF Before, RequestIn
  <2> QED BY <2>1, <2>2
<1>8. ASSUME NEW s \in Slots', NEW t \in Slots', Before(w, s) = Before(w, t) PROVE s = t
  BY <1>3, <1>8 DEF Before
<1>9. ASSUME NEW s \in Slots \ {<<w, 1>>} PROVE \E t \in Slots' : Before(w, t) = s
  <2>1. CASE s[1] = w
    <3>1. s = <<w, s[2]>> /\ s[2] \in Nat /\ s[2] - 1 \in 1 .. n - 1
      BY <1>1, <1>2, <2>1 DEF n
    <3>2. <<w, s[2] - 1>> \in Slots'
      BY <1>1, <1>3, <3>1
    <3> QED BY <3>1, <3>2 DEF Before
  <2>2. CASE s[1] # w
    <3>1. s \in Slots'
      BY <1>6, <2>2
    <3> QED BY <2>2, <3>1 DEF Before
  <2> QED BY <2>1, <2>2
<1> QED BY <1>4, <1>6, <1>7, <1>8, <1>9 DEF n

-----------------------------------------------------------------------------
(* The semaphore. A thread that has queued a request and not yet signalled *)
(* is on its way to NextHeader; only PayloadRead brings it there.          *)

LEMMA EnqueuedMoves ==
    ASSUME ChainInv, [Next]_vars
    PROVE  \/ \E w \in Workers, c \in Conns :
                  QueuesPacket(w, c) /\ w \notin Enqueued /\ Enqueued' = Enqueued \cup {w}
           \/ QueuesNothing /\ Enqueued' \subseteq Enqueued
<1>0. ThreadsOK
  BY DEF ChainInv, TypeInv, TypeOK, ThreadsOK
<1>1. ASSUME NEW w \in Workers, NEW c \in Conns, PayloadRead(w, c)
      PROVE  QueuesPacket(w, c) /\ w \notin Enqueued /\ Enqueued' = Enqueued \cup {w}
  <2>1. QueuesPacket(w, c)
    BY <1>1, PayloadQueued
  <2>2. pc[w] = "idle" /\ pc' = [pc EXCEPT ![w] = "next_header"]
    BY <1>1, <2>1 DEF QueuesPacket, PayloadRead, CanRun, Enter
  <2> QED BY <1>0, <2>1, <2>2 DEF Enqueued, ThreadsOK
<1>2. CASE ~\E w \in Workers, c \in Conns : PayloadRead(w, c)
  <2>1. QueuesNothing
    BY <1>2, QueueMoves
  <2>2. ASSUME NEW w \in Workers, pc'[w] = "next_header" PROVE pc[w] = "next_header"
    <3> USE <1>0 DEF ThreadsOK
    <3>1. ASSUME NEW v \in Workers, NEW c \in Conns,
                 HeaderRead(v, c) \/ ReadFailed(v, c) \/ Accepted(v, c)
          PROVE  pc[w] = "next_header"
      <4>1. \/ \E label \in {"rent", "disconnect", "create"} : Enter(v, label, c)
            \/ UNCHANGED <<pc, at>>
        BY <3>1 DEF HeaderRead, ReadFailed, Accepted
      <4> QED BY <2>2, <4>1 DEF Enter
    <3>2. ASSUME NEW v \in Workers, HandlerStep(v) \/ WorkerExits(v)
          PROVE  pc[w] = "next_header"
      BY <2>2, <3>2 DEF HandlerStep, CreateSession, InsertSession, AcceptNext, RentBlock,
           RentFails, Evict, StopEvicted, NextHeader, OnDisconnected, WorkerExits, Enter, Goto, Return
    <3>3. ASSUME \/ \E c \in Conns : Client(c)
                 \/ \E v \in Workers, err \in AcceptErrors : AcceptFailed(v, err)
                 \/ Stop \/ StopContext \/ CloseAcceptor \/ UNCHANGED vars
          PROVE  pc[w] = "next_header"
      BY <2>2, <3>3 DEF vars, Client, ClientConnect, ClientSend, ClientDown, ClientLost, AcceptFailed,
           Stop, StopContext, CloseAcceptor
    <3> QED BY <1>2, <3>1, <3>2, <3>3 DEF Next, ReadCompletes
  <2> QED BY <2>1, <2>2 DEF Enqueued
<1> QED BY <1>1, <1>2

SemaphoreInv ==
    /\ ServerInv
    /\ IsFiniteSet(Slots) /\ IsFiniteSet(Unsignalled) /\ SemaphoreCounts

LEMMA SemaphoreInit == ServerInit => SemaphoreInv
<1> SUFFICES ASSUME ServerInit PROVE SemaphoreInv
  OBVIOUS
<1>1. Slots = {} /\ Unsignalled = {} /\ available = 0
  BY DEF ServerInit, Init, Slots, Unsignalled, Enqueued
<1> QED BY <1>1, FS_EmptySet, ServerInvInit DEF SemaphoreInv, SemaphoreCounts

LEMMA SemaphoreStep == SemaphoreInv /\ [ServerNext]_serverVars => SemaphoreInv'
<1> SUFFICES ASSUME SemaphoreInv, [ServerNext]_serverVars PROVE SemaphoreInv'
  OBVIOUS
<1> SUFFICES /\ IsFiniteSet(Slots') /\ IsFiniteSet(Unsignalled')
             /\ available' + Cardinality(Unsignalled') = Cardinality(Slots')
  BY ServerInvStep DEF SemaphoreInv, SemaphoreCounts
<1>0. /\ ServerInv /\ ChainInv /\ requests \in [Workers -> Seq(Request)]
      /\ available \in Nat /\ signalled \subseteq Enqueued
      /\ IsFiniteSet(Slots) /\ IsFiniteSet(Unsignalled)
      /\ Cardinality(Slots) \in Nat /\ Cardinality(Unsignalled) \in Nat
      /\ available + Cardinality(Unsignalled) = Cardinality(Slots)
  BY FS_CardinalityType
  DEF SemaphoreInv, ServerInv, DispatchTypeOK, TypeOK, SemaphoreCounts
<1>1. CASE [Next]_vars /\ NetFrame
  <2>0. /\ available' = available /\ Unsignalled \subseteq Enqueued'
        /\ signalled' = signalled \cap Enqueued'
    BY <1>1 DEF NetFrame
  <2>1. ASSUME NEW w \in Workers, NEW c \in Conns, QueuesPacket(w, c),
               w \notin Enqueued, Enqueued' = Enqueued \cup {w}
        PROVE  /\ IsFiniteSet(Slots') /\ IsFiniteSet(Unsignalled')
               /\ available' + Cardinality(Unsignalled') = Cardinality(Slots')
    <3>1. PICK r \in Request : requests' = [requests EXCEPT ![w] = Append(@, r)]
      <4>1. Received(c) + 1 \in Nat
        BY <1>0, Halves DEF ChainInv, TypeInv, TypeOK, Received
      <4> QED BY <2>1, <4>1 DEF QueuesPacket, Request
    <3>2. /\ <<w, Len(requests[w]) + 1>> \notin Slots
          /\ Slots' = Slots \cup {<<w, Len(requests[w]) + 1>>}
      BY <1>0, <3>1, SlotAdded
    <3>3. w \notin Unsignalled /\ Unsignalled' = Unsignalled \cup {w}
      BY <1>0, <2>0, <2>1 DEF Unsignalled
    <3>4. IsFiniteSet(Slots') /\ Cardinality(Slots') = Cardinality(Slots) + 1
      BY <1>0, <3>2, FS_AddElement
    <3>5. IsFiniteSet(Unsignalled') /\ Cardinality(Unsignalled') = Cardinality(Unsignalled) + 1
      BY <1>0, <3>3, FS_AddElement
    <3> QED BY <1>0, <2>0, <3>4, <3>5
  <2>2. CASE QueuesNothing /\ Enqueued' \subseteq Enqueued
    <3>1. Slots' = Slots /\ Unsignalled' = Unsignalled
      BY <2>0, <2>2 DEF QueuesNothing, Slots, Unsignalled
    <3> QED BY <1>0, <2>0, <3>1
  <2> QED BY <1>0, <1>1, <2>1, <2>2, EnqueuedMoves
<1>2. ASSUME NEW w \in Workers, Signal(w)
      PROVE  /\ IsFiniteSet(Slots') /\ IsFiniteSet(Unsignalled')
             /\ available' + Cardinality(Unsignalled') = Cardinality(Slots')
  <2>1. Slots' = Slots /\ available' = available + 1
    BY <1>2 DEF Signal, Slots
  <2>2. w \in Unsignalled /\ Unsignalled' = Unsignalled \ {w}
    BY <1>2 DEF Signal, netVars, Unsignalled, Enqueued
  <2>3. IsFiniteSet(Unsignalled') /\ Cardinality(Unsignalled') = Cardinality(Unsignalled) - 1
    BY <1>0, <2>2, FS_RemoveElement
  <2> QED BY <1>0, <2>1, <2>3
<1>3. ASSUME NEW w \in Workers, TryDequeue(w)
      PROVE  /\ IsFiniteSet(Slots') /\ IsFiniteSet(Unsignalled')
             /\ available' + Cardinality(Unsignalled') = Cardinality(Slots')
  <2>1. /\ available' = available - 1 /\ requests[w] # <<>>
        /\ requests' = [requests EXCEPT ![w] = Tail(@)]
    BY <1>0, <1>3, TakeTyped
  <2>2. /\ <<w, Len(requests[w])>> \in Slots
        /\ Slots' = Slots \ {<<w, Len(requests[w])>>}
    BY <1>0, <2>1, SlotTaken
  <2>3. IsFiniteSet(Slots') /\ Cardinality(Slots') = Cardinality(Slots) - 1
    BY <1>0, <2>2, FS_RemoveElement
  <2>4. Unsignalled' = Unsignalled
    BY <1>3 DEF TryDequeue, netVars, Unsignalled, Enqueued
  <2> QED BY <1>0, <2>1, <2>3, <2>4
<1>4. CASE Dispatch \/ QuietStep
  <2>1. available' = available /\ Slots' = Slots /\ Unsignalled' = Unsignalled
    BY <1>4 DEF Dispatch, QuietStep, netVars, Slots, Unsignalled, Enqueued
  <2> QED BY <1>0, <2>1
<1> QED BY <1>1, <1>2, <1>3, <1>4, ServerMoves

\* The semaphore counts the requests on the FIFOs but for those of threads that are
\* still to signal: it never promises one that is not there, and forgets none.
THEOREM SemaphoreTrue == ServerSpec => []SemaphoreCounts
<1>1. ServerSpec => []SemaphoreInv
  BY SemaphoreInit, SemaphoreStep, PTL DEF ServerSpec
<1>2. SemaphoreInv => SemaphoreCounts
  BY DEF SemaphoreInv
<1> QED BY <1>1, <1>2, PTL

-----------------------------------------------------------------------------
(* Where the packets are. Each one received is on the queue, in the main   *)
(* thread's hand, or done, and in no two places.                           *)

HandSound ==
    frame = "dispatch" =>
        /\ request.packet[2] \in 1 .. Received(request.packet[1])
        /\ request.session_id = session_id[request.packet[1]]
        /\ \A s \in Slots : RequestIn(s).packet # request.packet
        /\ \A i \in DOMAIN dispatched[request.packet[1]] :
               dispatched[request.packet[1]][i] # request.packet[2]

DoneSound ==
    \A c \in Conns : \A i \in DOMAIN dispatched[c] :
        /\ dispatched[c][i] \in 1 .. Received(c)
        /\ \A j \in DOMAIN dispatched[c] : dispatched[c][i] = dispatched[c][j] => i = j
        /\ \A s \in Slots : RequestIn(s).packet # <<c, dispatched[c][i]>>

NothingLost ==
    \A c \in Conns : \A n \in 1 .. Received(c) :
        \/ \E s \in Slots : RequestIn(s).packet = <<c, n>>
        \/ frame = "dispatch" /\ request.packet = <<c, n>>
        \/ \E i \in DOMAIN dispatched[c] : dispatched[c][i] = n

AccountInv ==
    /\ ServerInv /\ RequestsSound /\ RequestsDistinct
    /\ HandSound /\ DoneSound /\ NothingLost

LEMMA AccountInit == ServerInit => AccountInv
<1> SUFFICES ASSUME ServerInit PROVE AccountInv
  OBVIOUS
<1>1. Slots = {} /\ frame # "dispatch" /\ \A c \in Conns : dispatched[c] = <<>>
  BY DEF ServerInit, Init, Slots
<1>2. \A c \in Conns : Received(c) = 0
  BY DEF ServerInit, Init, Received
<1>3. RequestsSound /\ RequestsDistinct /\ HandSound /\ DoneSound /\ NothingLost
  BY <1>1, <1>2 DEF RequestsSound, RequestsDistinct, HandSound, DoneSound, NothingLost
<1> QED BY <1>3, ServerInvInit DEF AccountInv

\* A packet that is read meets none of those received before it.
LEMMA AccountNet ==
    ASSUME AccountInv, [Next]_vars, NetFrame
    PROVE  RequestsSound' /\ RequestsDistinct' /\ HandSound' /\ DoneSound' /\ NothingLost'
<1>0. /\ ChainInv /\ RequestsSound /\ RequestsDistinct
      /\ requests \in [Workers -> Seq(Request)] /\ HandOK
  BY DEF AccountInv, ServerInv, ChainInv, TypeInv, TypeOK
<1>1. frame' = frame /\ request' = request /\ dispatched' = dispatched
  BY DEF NetFrame
<1>2. RequestsSound' /\ RequestsDistinct'
  BY <1>0, QueueGrowth
<1>3. \A d \in Conns : /\ Received(d) \in Nat /\ consumed'[d] \div 2 \in Nat
                       /\ Received(d) <= consumed'[d] \div 2
                       /\ Received(d) > 0 => session_id'[d] = session_id[d]
  BY <1>0, QueueGrowth
<1>4. \A s \in Slots : s \in Slots' /\ requests'[s[1]][s[2]] = requests[s[1]][s[2]]
  BY <1>0, QueueGrowth
<1>5. ASSUME NEW s \in Slots', NEW d \in Conns, NEW k \in 1 .. Received(d),
             \A t \in Slots : requests[t[1]][t[2]].packet # <<d, k>>
      PROVE  requests'[s[1]][s[2]].packet # <<d, k>>
  <2>1. CASE s \in Slots
    BY <1>4, <1>5, <2>1
  <2>2. CASE s \notin Slots
    <3>1. PICK e \in Conns : requests'[s[1]][s[2]].packet = <<e, Received(e) + 1>>
      BY <1>0, <2>2, QueueGrowth
    <3> QED BY <1>3, <1>5, <3>1
  <2> QED BY <2>1, <2>2
<1>6. HandSound'
  <2> SUFFICES ASSUME frame = "dispatch"
               PROVE  /\ request.packet[2] \in 1 .. (consumed'[request.packet[1]] \div 2)
                      /\ request.session_id = session_id'[request.packet[1]]
                      /\ \A s \in Slots' : requests'[s[1]][s[2]].packet # request.packet
                      /\ \A i \in DOMAIN dispatched[request.packet[1]] :
                             dispatched[request.packet[1]][i] # request.packet[2]
    BY <1>1 DEF HandSound, RequestIn, Received
  <2>1. PICK d \in Conns, k \in Nat : request.packet = <<d, k>>
    BY <1>0 DEF HandOK, Request
  <2>2. /\ k \in 1 .. Received(d) /\ request.session_id = session_id[d]
        /\ \A s \in Slots : requests[s[1]][s[2]].packet # <<d, k>>
        /\ \A i \in DOMAIN dispatched[d] : dispatched[d][i] # k
    BY <2>1 DEF AccountInv, HandSound, RequestIn
  <2>3. k \in 1 .. (consumed'[d] \div 2) /\ session_id'[d] = session_id[d]
    BY <1>3, <2>2
  <2>4. \A s \in Slots' : requests'[s[1]][s[2]].packet # <<d, k>>
    BY <1>5, <2>2
  <2>5. request.packet[1] = d /\ request.packet[2] = k
    BY <2>1
  <2> QED BY <2>1, <2>2, <2>3, <2>4, <2>5
<1>7. DoneSound'
  <2>1. ASSUME NEW d \in Conns, NEW i \in DOMAIN dispatched[d]
        PROVE  /\ dispatched[d][i] \in 1 .. (consumed'[d] \div 2)
               /\ \A j \in DOMAIN dispatched[d] : dispatched[d][i] = dispatched[d][j] => i = j
               /\ \A s \in Slots' : requests'[s[1]][s[2]].packet # <<d, dispatched[d][i]>>
    <3>1. PICK k \in 1 .. Received(d) : k = dispatched[d][i]
      BY DEF AccountInv, DoneSound
    <3>2. \A s \in Slots : requests[s[1]][s[2]].packet # <<d, k>>
      BY <3>1 DEF AccountInv, DoneSound, RequestIn
    <3>3. \A j \in DOMAIN dispatched[d] : dispatched[d][i] = dispatched[d][j] => i = j
      BY DEF AccountInv, DoneSound
    <3>4. k \in 1 .. (consumed'[d] \div 2)
      BY <1>3
    <3> QED BY <1>5, <3>1, <3>2, <3>3, <3>4
  <2> QED BY <1>1, <2>1 DEF DoneSound, RequestIn, Received
<1>8. NothingLost'
  <2>1. ASSUME NEW d \in Conns, NEW k \in 1 .. (consumed'[d] \div 2)
        PROVE  \/ \E s \in Slots' : requests'[s[1]][s[2]].packet = <<d, k>>
               \/ frame = "dispatch" /\ request.packet = <<d, k>>
               \/ \E i \in DOMAIN dispatched[d] : dispatched[d][i] = k
    <3>1. CASE k \in 1 .. Received(d)
      BY <1>4, <3>1 DEF AccountInv, NothingLost, RequestIn
    <3> QED BY <1>0, <3>1, QueueGrowth
  <2> QED BY <1>1, <2>1 DEF NothingLost, RequestIn, Received
<1> QED BY <1>2, <1>6, <1>7, <1>8

\* The request at the head of a FIFO goes into the main thread's hand.
LEMMA AccountTake ==
    ASSUME AccountInv, NEW w \in Workers, TryDequeue(w)
    PROVE  RequestsSound' /\ RequestsDistinct' /\ HandSound' /\ DoneSound' /\ NothingLost'
<1>0. /\ ServerInv /\ requests \in [Workers -> Seq(Request)] /\ <<w, 1>> \in Slots
  BY TakeTyped, SlotTaken DEF AccountInv, ServerInv, DispatchTypeOK, TypeOK
<1>1. /\ requests[w] # <<>> /\ requests' = [requests EXCEPT ![w] = Tail(@)]
      /\ request' = RequestIn(<<w, 1>>) /\ request' \in Request
  BY <1>0, TakeTyped, SlotTaken
<1>2. /\ frame = "dequeue" /\ frame' = "dispatch"
      /\ dispatched' = dispatched /\ session_id' = session_id /\ consumed' = consumed
  BY DEF TryDequeue, netVars, connVars
<1>3. /\ \A s \in Slots' : /\ Before(w, s) \in Slots \ {<<w, 1>>}
                           /\ requests'[s[1]][s[2]] = RequestIn(Before(w, s))
      /\ \A s, t \in Slots' : Before(w, s) = Before(w, t) => s = t
      /\ \A s \in Slots \ {<<w, 1>>} : \E t \in Slots' : Before(w, t) = s
  BY <1>0, <1>1, SlotTaken
<1>4. \A s \in Slots : /\ RequestIn(s).packet[2] \in 1 .. Received(RequestIn(s).packet[1])
                       /\ RequestIn(s).session_id = session_id[RequestIn(s).packet[1]]
  BY DEF AccountInv, RequestsSound
<1>5. \A s, t \in Slots : RequestIn(s).packet = RequestIn(t).packet => s = t
  BY DEF AccountInv, RequestsDistinct
<1>6. RequestsSound'
  <2>1. ASSUME NEW s \in Slots'
        PROVE  LET p == requests'[s[1]][s[2]]
               IN p.packet[2] \in 1 .. Received(p.packet[1])
                     /\ p.session_id = session_id[p.packet[1]]
    BY <1>3, <1>4
  <2> QED BY <1>2, <2>1 DEF RequestsSound, RequestIn, Received
<1>7. RequestsDistinct'
  <2>1. ASSUME NEW s \in Slots', NEW t \in Slots',
               requests'[s[1]][s[2]].packet = requests'[t[1]][t[2]].packet
        PROVE  s = t
    BY <1>3, <1>5, <2>1
  <2> QED BY <2>1 DEF RequestsDistinct, RequestIn
<1>8. PICK r \in Request : r = RequestIn(<<w, 1>>)
  BY <1>1
<1>9. HandSound'
  <2>1. r.packet[2] \in 1 .. Received(r.packet[1]) /\ r.session_id = session_id[r.packet[1]]
    BY <1>0, <1>4, <1>8
  <2>2. \A s \in Slots' : requests'[s[1]][s[2]].packet # r.packet
    BY <1>0, <1>3, <1>5, <1>8
  <2>3. ASSUME NEW i \in DOMAIN dispatched[r.packet[1]]
        PROVE  dispatched[r.packet[1]][i] # r.packet[2]
    <3>1. PICK d \in Conns, k \in Nat : r.packet = <<d, k>>
      BY DEF Request
    <3>2. r.packet[1] = d /\ r.packet[2] = k /\ i \in DOMAIN dispatched[d]
      BY <2>3, <3>1
    <3>3. \A s \in Slots : RequestIn(s).packet # <<d, dispatched[d][i]>>
      BY <3>2 DEF AccountInv, DoneSound
    <3> QED BY <1>0, <1>8, <3>1, <3>2, <3>3
  <2>4. request' = r
    BY <1>1, <1>8
  <2> QED BY <1>2, <2>1, <2>2, <2>3, <2>4 DEF HandSound, RequestIn, Received
<1>10. DoneSound'
  <2>1. ASSUME NEW d \in Conns, NEW i \in DOMAIN dispatched[d]
        PROVE  /\ dispatched[d][i] \in 1 .. Received(d)
               /\ \A j \in DOMAIN dispatched[d] : dispatched[d][i] = dispatched[d][j] => i = j
               /\ \A s \in Slots' : requests'[s[1]][s[2]].packet # <<d, dispatched[d][i]>>
    <3>1. \A s \in Slots : RequestIn(s).packet # <<d, dispatched[d][i]>>
      BY DEF AccountInv, DoneSound
    <3>2. /\ dispatched[d][i] \in 1 .. Received(d)
          /\ \A j \in DOMAIN dispatched[d] : dispatched[d][i] = dispatched[d][j] => i = j
      BY DEF AccountInv, DoneSound
    <3> QED BY <1>3, <3>1, <3>2
  <2> QED BY <1>2, <2>1 DEF DoneSound, RequestIn, Received
<1>11. NothingLost'
  <2>1. ASSUME NEW d \in Conns, NEW k \in 1 .. Received(d)
        PROVE  \/ \E s \in Slots' : requests'[s[1]][s[2]].packet = <<d, k>>
               \/ r.packet = <<d, k>>
               \/ \E i \in DOMAIN dispatched[d] : dispatched[d][i] = k
    <3>1. CASE \E s \in Slots : RequestIn(s).packet = <<d, k>>
      <4>1. PICK s \in Slots : RequestIn(s).packet = <<d, k>>
        BY <3>1
      <4>2. CASE s # <<w, 1>>
        BY <1>3, <4>1, <4>2
      <4> QED BY <1>8, <4>1, <4>2
    <3>2. CASE \E i \in DOMAIN dispatched[d] : dispatched[d][i] = k
      BY <3>2
    <3> QED BY <1>2, <3>1, <3>2 DEF AccountInv, NothingLost
  <2>2. request' = r
    BY <1>1, <1>8
  <2> QED BY <1>2, <2>1, <2>2 DEF NothingLost, RequestIn, Received
<1> QED BY <1>6, <1>7, <1>9, <1>10, <1>11

\* The packet in the main thread's hand is done.
LEMMA AccountDispatch ==
    ASSUME AccountInv, Dispatch
    PROVE  RequestsSound' /\ RequestsDistinct' /\ HandSound' /\ DoneSound' /\ NothingLost'
<1>1. /\ ServerInv /\ frame = "dispatch" /\ frame' # "dispatch"
      /\ requests' = requests /\ session_id' = session_id /\ consumed' = consumed
      /\ dispatched \in [Conns -> Seq(Nat)]
  BY DEF AccountInv, ServerInv, DispatchTypeOK, Dispatch, netVars, connVars
<1>2. PICK c \in Conns, n \in Nat : request.packet = <<c, n>>
  BY <1>1, DispatchTyped DEF Request
<1>3. /\ n \in 1 .. Received(c)
      /\ \A s \in Slots : RequestIn(s).packet # <<c, n>>
      /\ \A i \in DOMAIN dispatched[c] : dispatched[c][i] # n
  BY <1>1, <1>2 DEF AccountInv, HandSound
<1>4. dispatched' = [dispatched EXCEPT ![c] = Append(@, n)]
  BY <1>1, <1>2, DispatchTyped
<1>5. /\ \A d \in Conns \ {c} : dispatched'[d] = dispatched[d]
      /\ DOMAIN dispatched[c] = 1 .. Len(dispatched[c]) /\ Len(dispatched[c]) \in Nat
      /\ DOMAIN dispatched'[c] = 1 .. Len(dispatched[c]) + 1
      /\ \A i \in DOMAIN dispatched[c] : dispatched'[c][i] = dispatched[c][i]
      /\ dispatched'[c][Len(dispatched[c]) + 1] = n
  BY <1>1, <1>4
<1>6. Slots' = Slots
  BY <1>1 DEF Slots
<1>7. RequestsSound' /\ RequestsDistinct'
  BY <1>1, <1>6 DEF AccountInv, RequestsSound, RequestsDistinct, RequestIn, Received
<1>8. HandSound'
  BY <1>1 DEF HandSound
<1>9. DoneSound'
  <2>1. ASSUME NEW d \in Conns, NEW i \in DOMAIN dispatched'[d]
        PROVE  /\ dispatched'[d][i] \in 1 .. Received(d)
               /\ \A j \in DOMAIN dispatched'[d] : dispatched'[d][i] = dispatched'[d][j] => i = j
               /\ \A s \in Slots : RequestIn(s).packet # <<d, dispatched'[d][i]>>
    <3>1. CASE d # c
      <4>1. dispatched'[d] = dispatched[d]
        BY <1>5, <3>1
      <4> QED BY <2>1, <4>1 DEF AccountInv, DoneSound
    <3>2. CASE d = c
      <4>1. /\ \A k \in DOMAIN dispatched[c] :
                  /\ dispatched[c][k] \in 1 .. Received(c)
                  /\ \A s \in Slots : RequestIn(s).packet # <<c, dispatched[c][k]>>
            /\ \A k, m \in DOMAIN dispatched[c] : dispatched[c][k] = dispatched[c][m] => k = m
        BY DEF AccountInv, DoneSound
      <4>2. \A k \in DOMAIN dispatched'[c] :
               k \in DOMAIN dispatched[c] \/ k = Len(dispatched[c]) + 1
        BY <1>5
      <4>3. dispatched'[c][i] \in 1 .. Received(c)
        BY <1>3, <1>5, <2>1, <3>2, <4>1, <4>2
      <4>4. \A s \in Slots : RequestIn(s).packet # <<c, dispatched'[c][i]>>
        BY <1>3, <1>5, <2>1, <3>2, <4>1, <4>2
      <4>5. \A j \in DOMAIN dispatched'[c] : dispatched'[c][i] = dispatched'[c][j] => i = j
        <5>1. ASSUME NEW j \in DOMAIN dispatched'[c], dispatched'[c][i] = dispatched'[c][j]
              PROVE  i = j
          <6>1. i \in DOMAIN dispatched[c] /\ j \in DOMAIN dispatched[c] => i = j
            BY <1>5, <4>1, <5>1
          <6>2. \A k \in DOMAIN dispatched[c] : dispatched'[c][k] # n
            BY <1>3, <1>5
          <6> QED BY <1>5, <2>1, <3>2, <4>2, <5>1, <6>1, <6>2
        <5> QED BY <5>1
      <4> QED BY <3>2, <4>3, <4>4, <4>5
    <3> QED BY <3>1, <3>2
  <2> QED BY <1>1, <1>6, <2>1 DEF DoneSound, RequestIn, Received
<1>10. NothingLost'
  <2>1. ASSUME NEW d \in Conns, NEW k \in 1 .. Received(d)
        PROVE  \/ \E s \in Slots : RequestIn(s).packet = <<d, k>>
               \/ \E i \in DOMAIN dispatched'[d] : dispatched'[d][i] = k
    <3>1. CASE request.packet = <<d, k>>
      <4>1. d = c /\ k = n /\ Len(dispatched[c]) + 1 \in DOMAIN dispatched'[c]
        BY <1>2, <1>5, <3>1
      <4> QED BY <1>5, <4>1
    <3>2. CASE \E i \in DOMAIN dispatched[d] : dispatched[d][i] = k
      <4>1. PICK i \in DOMAIN dispatched[d] : dispatched[d][i] = k
        BY <3>2
      <4>2. i \in DOMAIN dispatched'[d] /\ dispatched'[d][i] = k
        BY <1>5, <4>1
      <4> QED BY <4>2
    <3> QED BY <3>1, <3>2 DEF AccountInv, NothingLost
  <2> QED BY <1>1, <1>6, <2>1 DEF NothingLost, RequestIn, Received
<1> QED BY <1>7, <1>8, <1>9, <1>10

LEMMA AccountStep == AccountInv /\ [ServerNext]_serverVars => AccountInv'
<1> SUFFICES ASSUME AccountInv, [ServerNext]_serverVars PROVE AccountInv'
  OBVIOUS
<1>0. ServerInv'
  BY ServerInvStep DEF AccountInv
<1>1. ASSUME UNCHANGED <<requests, session_id, consumed, dispatched>>,
             (frame = "dispatch") = (frame' = "dispatch"), frame' = "dispatch" => request' = request
      PROVE  RequestsSound' /\ RequestsDistinct' /\ HandSound' /\ DoneSound' /\ NothingLost'
  <2>1. Slots' = Slots
    BY <1>1 DEF Slots
  <2>2. RequestsSound' /\ RequestsDistinct' /\ DoneSound'
    BY <1>1, <2>1
    DEF AccountInv, RequestsSound, RequestsDistinct, DoneSound, RequestIn, Received
  <2>3. HandSound'
    BY <1>1, <2>1 DEF AccountInv, HandSound, RequestIn, Received
  <2>4. NothingLost'
    BY <1>1, <2>1 DEF AccountInv, NothingLost, RequestIn, Received
  <2> QED BY <2>2, <2>3, <2>4
<1>2. ASSUME (\E w \in Workers : Signal(w)) \/ QuietStep
      PROVE  RequestsSound' /\ RequestsDistinct' /\ HandSound' /\ DoneSound' /\ NothingLost'
  BY <1>1, <1>2 DEF Signal, QuietStep, netVars, connVars
<1> QED BY <1>0, <1>2, AccountNet, AccountTake, AccountDispatch, ServerMoves DEF AccountInv

\* Numbers in three places that do not overlap.
Parts(A, B, C, n) ==
    /\ A \cup B \cup C = 1 .. n
    /\ A \cap B = {} /\ A \cap C = {} /\ B \cap C = {}

LEMMA ThreeParts ==
    ASSUME NEW n \in Nat, NEW A, NEW B, NEW C, Parts(A, B, C, n)
    PROVE  /\ IsFiniteSet(A) /\ IsFiniteSet(B) /\ IsFiniteSet(C)
           /\ Cardinality(A) + Cardinality(B) + Cardinality(C) = n
<1> USE DEF Parts
<1>1. IsFiniteSet(1 .. n) /\ Cardinality(1 .. n) = n
  BY FS_Interval
<1>2. IsFiniteSet(A) /\ IsFiniteSet(B) /\ IsFiniteSet(C)
  BY <1>1, FS_Subset
<1>3. IsFiniteSet(A \cup B) /\ Cardinality(A \cup B) = Cardinality(A) + Cardinality(B)
  <2>1. Cardinality(A \cap B) = 0 /\ Cardinality(A) \in Nat /\ Cardinality(B) \in Nat
    BY <1>2, FS_EmptySet, FS_CardinalityType
  <2> QED BY <1>2, <2>1, FS_Union
<1>4. Cardinality((A \cup B) \cup C) = Cardinality(A \cup B) + Cardinality(C)
  <2>1. PICK D : D = A \cup B
    OBVIOUS
  <2>2. IsFiniteSet(D) /\ D \cap C = {}
    BY <1>3, <2>1
  <2>3. Cardinality(D \cap C) = 0 /\ Cardinality(D) \in Nat /\ Cardinality(C) \in Nat
    BY <1>2, <2>2, FS_EmptySet, FS_CardinalityType
  <2>4. Cardinality(D \cup C) = Cardinality(D) + Cardinality(C)
    <3>1. Cardinality(D \cup C) = Cardinality(D) + Cardinality(C) - Cardinality(D \cap C)
      BY <1>2, <2>2, FS_Union
    <3> QED BY <2>3, <3>1
  <2> QED BY <2>1, <2>4
<1> QED BY <1>1, <1>2, <1>3, <1>4

\* A slot, and an entry of the record of what was dispatched, stands for one number.
LEMMA SlotsCounted ==
    ASSUME RequestsDistinct, requests \in [Workers -> Seq(Request)], NEW c \in Conns,
           IsFiniteSet(Queued(c))
    PROVE  Cardinality(SlotsOf(c)) = Cardinality(Queued(c))
<1> DEFINE f == [s \in SlotsOf(c) |-> RequestIn(s).packet[2]]
<1>1. ASSUME NEW s \in SlotsOf(c) PROVE s \in Slots /\ RequestIn(s).packet = <<c, f[s]>>
  <2>1. s \in Slots /\ RequestIn(s) \in Request /\ RequestIn(s).packet[1] = c
    BY <1>1, SlotDomain DEF SlotsOf
  <2> QED BY <2>1 DEF Request
<1>2. ASSUME NEW s \in SlotsOf(c), NEW t \in SlotsOf(c), f[s] = f[t] PROVE s = t
  <2>1. RequestIn(s).packet = RequestIn(t).packet /\ s \in Slots /\ t \in Slots
    <3> HIDE DEF f
    <3> QED BY <1>1, <1>2
  <2> QED BY <2>1 DEF RequestsDistinct
<1>3. f \in [SlotsOf(c) -> Queued(c)] /\ \A k \in Queued(c) : \E s \in SlotsOf(c) : f[s] = k
  BY DEF Queued
<1> HIDE DEF f
<1> QED BY <1>2, <1>3, SameSize

LEMMA DoneCounted ==
    ASSUME DoneSound, dispatched \in [Conns -> Seq(Nat)], NEW c \in Conns,
           IsFiniteSet(Done(c))
    PROVE  Len(dispatched[c]) = Cardinality(Done(c))
<1> DEFINE n == Len(dispatched[c])
<1>1. dispatched[c] \in [1 .. n -> Done(c)] /\ DOMAIN dispatched[c] = 1 .. n /\ n \in Nat
  BY DEF Done
<1>2. \A i, j \in 1 .. n : dispatched[c][i] = dispatched[c][j] => i = j
  BY <1>1 DEF DoneSound
<1>3. \A k \in Done(c) : \E i \in 1 .. n : dispatched[c][i] = k
  BY <1>1 DEF Done
<1> HIDE DEF n
<1>4. IsFiniteSet(1 .. n) /\ Cardinality(1 .. n) = n
  BY <1>1, FS_Interval
<1>5. Cardinality(1 .. n) = Cardinality(Done(c))
  BY <1>1, <1>2, <1>3, SameSize
<1> QED BY <1>4, <1>5 DEF n

LEMMA AccountAdds == AccountInv => EveryPacketAccounted
<1> SUFFICES ASSUME AccountInv, NEW c \in Conns
             PROVE  /\ Queued(c) \cup InHand(c) \cup Done(c) = 1 .. Received(c)
                    /\ Cardinality(SlotsOf(c)) + Cardinality(InHand(c)) + Len(dispatched[c])
                         = Received(c)
  BY DEF EveryPacketAccounted, Received
<1>1. /\ requests \in [Workers -> Seq(Request)] /\ dispatched \in [Conns -> Seq(Nat)]
      /\ Received(c) \in Nat /\ HandOK
      /\ RequestsSound /\ RequestsDistinct /\ HandSound /\ DoneSound /\ NothingLost
  BY Halves DEF AccountInv, ServerInv, ChainInv, TypeInv, TypeOK, DispatchTypeOK, Received
<1>2. ASSUME NEW k
      PROVE  /\ k \in Queued(c) <=> \E s \in Slots : RequestIn(s).packet = <<c, k>>
             /\ k \in InHand(c) <=> (frame = "dispatch" /\ request.packet = <<c, k>>)
             /\ k \in Done(c) <=> \E i \in DOMAIN dispatched[c] : dispatched[c][i] = k
  <2>1. \A s \in Slots : RequestIn(s).packet \in Conns \X Nat
    BY <1>1, SlotDomain DEF Request
  <2>2. k \in Queued(c) <=> \E s \in Slots : RequestIn(s).packet = <<c, k>>
    BY <2>1 DEF Queued, SlotsOf
  <2>3. frame = "dispatch" => request.packet \in Conns \X Nat
    BY <1>1 DEF HandOK, Request
  <2>4. k \in InHand(c) <=> (frame = "dispatch" /\ request.packet = <<c, k>>)
    BY <2>3 DEF InHand
  <2> QED BY <2>2, <2>4 DEF Done
<1>3. Queued(c) \subseteq 1 .. Received(c)
  <2>1. ASSUME NEW k \in Queued(c) PROVE k \in 1 .. Received(c)
    <3>1. PICK s \in Slots : RequestIn(s).packet = <<c, k>>
      BY <1>2
    <3> QED BY <1>1, <3>1 DEF RequestsSound
  <2> QED BY <2>1
<1>4. InHand(c) \subseteq 1 .. Received(c)
  BY <1>1, <1>2 DEF HandSound
<1>5. Done(c) \subseteq 1 .. Received(c)
  BY <1>1, <1>2 DEF DoneSound
<1>6. Queued(c) \cup InHand(c) \cup Done(c) = 1 .. Received(c)
  BY <1>1, <1>2, <1>3, <1>4, <1>5 DEF NothingLost
<1>7. Queued(c) \cap InHand(c) = {}
  <2>1. ASSUME NEW k \in Queued(c), k \in InHand(c) PROVE FALSE
    <3>1. (\E s \in Slots : RequestIn(s).packet = <<c, k>>) /\ request.packet = <<c, k>>
      BY <1>2, <2>1
    <3> QED BY <1>1, <1>2, <2>1, <3>1 DEF HandSound
  <2> QED BY <2>1
<1>8. Queued(c) \cap Done(c) = {}
  <2>1. ASSUME NEW k \in Queued(c), k \in Done(c) PROVE FALSE
    <3>1. PICK i \in DOMAIN dispatched[c] : dispatched[c][i] = k
      BY <1>2, <2>1
    <3>2. PICK s \in Slots : RequestIn(s).packet = <<c, k>>
      BY <1>2, <2>1
    <3> QED BY <1>1, <3>1, <3>2 DEF DoneSound
  <2> QED BY <2>1
<1>9. InHand(c) \cap Done(c) = {}
  BY <1>1, <1>2 DEF HandSound
<1>10. /\ IsFiniteSet(Queued(c)) /\ IsFiniteSet(Done(c))
       /\ Cardinality(Queued(c)) + Cardinality(InHand(c)) + Cardinality(Done(c)) = Received(c)
  <2>1. PICK A, B, C, n : A = Queued(c) /\ B = InHand(c) /\ C = Done(c) /\ n = Received(c)
    OBVIOUS
  <2>2. n \in Nat /\ Parts(A, B, C, n)
    BY <1>1, <1>6, <1>7, <1>8, <1>9, <2>1 DEF Parts
  <2>3. /\ IsFiniteSet(A) /\ IsFiniteSet(C)
        /\ Cardinality(A) + Cardinality(B) + Cardinality(C) = n
    BY <2>2, ThreeParts
  <2> QED BY <2>1, <2>3
<1>11. /\ Cardinality(SlotsOf(c)) = Cardinality(Queued(c))
       /\ Len(dispatched[c]) = Cardinality(Done(c))
  BY <1>1, <1>10, SlotsCounted, DoneCounted
<1> QED BY <1>6, <1>10, <1>11

\* No packet is dropped on the way from the socket to the dispatcher, at the threshold
\* of a frame least of all, and none is dispatched twice.
THEOREM PacketsAccounted == ServerSpec => []EveryPacketAccounted
<1>1. ServerSpec => []AccountInv
  BY AccountInit, AccountStep, PTL DEF ServerSpec
<1> QED BY <1>1, AccountAdds, PTL

-----------------------------------------------------------------------------
(* Order. What a thread's FIFO has held, all taken together, neither       *)
(* changes when a request is taken, nor ever grows but at the end.         *)

Packets(r) == [i \in DOMAIN r |-> r[i].packet]

Passage(t, r) == t \o Packets(r)

LEMMA MoveHead ==
    ASSUME NEW S, NEW t \in Seq(S), NEW p \in Seq(S), p # <<>>
    PROVE  Append(t, Head(p)) \o Tail(p) = t \o p
<1>1. PICK x \in S, u \in Seq(S) : x = Head(p) /\ u = Tail(p)
  BY HeadTailProperties
<1> DEFINE s == <<x>>
<1>2. s = <<x>> /\ s \in Seq(S)
  OBVIOUS
<1> HIDE DEF s
<1>3. Len(p) \in Nat \ {0} /\ p[1] = x /\ Len(u) = Len(p) - 1 /\ \A i \in 1 .. Len(u) : u[i] = p[i + 1]
  BY <1>1
<1>4. Len(s) = 1 /\ s[1] = x
  BY <1>2
<1>5. PICK q \in Seq(S) : q = s \o u
  BY <1>2, ConcatProperties
<1>6. /\ Len(q) = Len(s) + Len(u)
      /\ \A i \in 1 .. Len(s) + Len(u) : q[i] = IF i <= Len(s) THEN s[i] ELSE u[i - Len(s)]
  BY <1>2, <1>5, ConcatProperties
<1>7. Len(q) = Len(p) /\ \A i \in 1 .. Len(q) : q[i] = p[i]
  BY <1>3, <1>4, <1>6
<1>8. q = p
  BY <1>7, SeqEqual
<1>9. Append(t, x) = t \o s
  BY <1>2, AppendIsConcat
<1>10. (t \o s) \o u = t \o q
  BY <1>2, <1>5, ConcatAssociative
<1> QED BY <1>1, <1>8, <1>9, <1>10

LEMMA MoveLast ==
    ASSUME NEW S, NEW t \in Seq(S), NEW p \in Seq(S), NEW x \in S
    PROVE  t \o Append(p, x) = Append(t \o p, x)
<1> DEFINE s == <<x>>
<1>1. s = <<x>> /\ s \in Seq(S)
  OBVIOUS
<1> HIDE DEF s
<1>2. PICK q \in Seq(S) : q = t \o p
  BY ConcatProperties
<1>3. Append(p, x) = p \o s /\ Append(q, x) = q \o s
  BY <1>1, AppendIsConcat
<1>4. t \o (p \o s) = (t \o p) \o s
  BY <1>1, ConcatAssociative
<1> QED BY <1>2, <1>3, <1>4

LEMMA PacketsOf ==
    ASSUME NEW r \in Seq(Request)
    PROVE  /\ Packets(r) \in Seq(Conns \X Nat) /\ Len(Packets(r)) = Len(r)
           /\ \A i \in 1 .. Len(r) : Packets(r)[i] = r[i].packet
<1>1. Len(r) \in Nat /\ DOMAIN r = 1 .. Len(r) /\ \A i \in 1 .. Len(r) : r[i].packet \in Conns \X Nat
  <2>1. \A i \in 1 .. Len(r) : r[i] \in Request
    OBVIOUS
  <2> QED BY <2>1 DEF Request
<1> QED BY <1>1 DEF Packets

LEMMA PacketsTake ==
    ASSUME NEW r \in Seq(Request), r # <<>>
    PROVE  /\ Packets(r) # <<>> /\ Head(Packets(r)) = Head(r).packet
           /\ Packets(Tail(r)) = Tail(Packets(r))
<1>1. PICK P : P = Conns \X Nat
  OBVIOUS
<1>2. PICK u \in Seq(Request) : u = Tail(r)
  BY HeadTailProperties
<1>3. PICK p \in Seq(P), q \in Seq(P) : p = Packets(r) /\ q = Packets(u)
  BY <1>1, PacketsOf
<1>4. /\ Len(r) \in Nat \ {0} /\ Len(u) = Len(r) - 1 /\ Len(p) = Len(r) /\ Len(q) = Len(u)
      /\ \A i \in 1 .. Len(u) : u[i] = r[i + 1]
      /\ \A i \in 1 .. Len(r) : p[i] = r[i].packet
      /\ \A i \in 1 .. Len(u) : q[i] = u[i].packet
      /\ Head(r) = r[1]
  <2>1. Len(p) = Len(r) /\ \A i \in 1 .. Len(r) : p[i] = r[i].packet
    BY <1>3, PacketsOf
  <2>2. Len(q) = Len(u) /\ \A i \in 1 .. Len(u) : q[i] = u[i].packet
    BY <1>3, PacketsOf
  <2>3. /\ Len(r) \in Nat \ {0} /\ Len(u) = Len(r) - 1
        /\ \A i \in 1 .. Len(u) : u[i] = r[i + 1]
        /\ Head(r) = r[1]
    BY <1>2
  <2> QED BY <2>1, <2>2, <2>3
<1>5. p # <<>> /\ Head(p) = Head(r).packet
  BY <1>4
<1>6. PICK v \in Seq(P) : v = Tail(p)
  BY <1>5, HeadTailProperties
<1>7. Len(v) = Len(q) /\ \A i \in 1 .. Len(v) : v[i] = p[i + 1]
  BY <1>4, <1>5, <1>6, HeadTailProperties
<1>8. ASSUME NEW i \in 1 .. Len(v) PROVE v[i] = q[i]
  <2>1. i \in 1 .. Len(u) /\ i + 1 \in 1 .. Len(r)
    BY <1>4, <1>7
  <2> QED BY <1>4, <1>7, <2>1
<1>9. v = q
  BY <1>7, <1>8, SeqEqual
<1> QED BY <1>2, <1>3, <1>5, <1>6, <1>9

LEMMA PacketsQueue ==
    ASSUME NEW r \in Seq(Request), NEW x \in Request
    PROVE  Packets(Append(r, x)) = Append(Packets(r), x.packet)
<1>1. PICK P : P = Conns \X Nat
  OBVIOUS
<1>2. PICK u \in Seq(Request) : u = Append(r, x)
  BY AppendProperties
<1>3. PICK p \in Seq(P), q \in Seq(P), y \in P : p = Packets(r) /\ q = Packets(u) /\ y = x.packet
  BY <1>1, PacketsOf DEF Request
<1>4. /\ Len(r) \in Nat /\ Len(u) = Len(r) + 1 /\ Len(p) = Len(r) /\ Len(q) = Len(u)
      /\ \A i \in 1 .. Len(r) : u[i] = r[i]
      /\ u[Len(r) + 1] = x
      /\ \A i \in 1 .. Len(r) : p[i] = r[i].packet
      /\ \A i \in 1 .. Len(u) : q[i] = u[i].packet
  <2>1. Len(p) = Len(r) /\ \A i \in 1 .. Len(r) : p[i] = r[i].packet
    BY <1>3, PacketsOf
  <2>2. Len(q) = Len(u) /\ \A i \in 1 .. Len(u) : q[i] = u[i].packet
    BY <1>3, PacketsOf
  <2>3. /\ Len(r) \in Nat /\ Len(u) = Len(r) + 1
        /\ \A i \in 1 .. Len(r) : u[i] = r[i]
        /\ u[Len(r) + 1] = x
    BY <1>2, AppendProperties
  <2> QED BY <2>1, <2>2, <2>3
<1>5. PICK v \in Seq(P) : v = Append(p, y)
  BY AppendProperties
<1>6. Len(v) = Len(q) /\ v[Len(r) + 1] = y /\ \A i \in 1 .. Len(r) : v[i] = p[i]
  BY <1>4, <1>5, AppendProperties
<1>7. \A i \in 1 .. Len(v) : v[i] = q[i]
  BY <1>3, <1>4, <1>6
<1>8. v = q
  BY <1>6, <1>7, SeqEqual
<1> QED BY <1>2, <1>3, <1>5, <1>8

LEMMA PassageTake ==
    ASSUME NEW t \in Seq(Conns \X Nat), NEW r \in Seq(Request), r # <<>>
    PROVE  Passage(Append(t, Head(r).packet), Tail(r)) = Passage(t, r)
<1>1. PICK P : P = Conns \X Nat
  OBVIOUS
<1>2. PICK p \in Seq(P) : p = Packets(r)
  BY <1>1, PacketsOf
<1>3. p # <<>> /\ Head(p) = Head(r).packet /\ Packets(Tail(r)) = Tail(p)
  BY <1>2, PacketsTake
<1>4. Append(t, Head(p)) \o Tail(p) = t \o p
  BY <1>1, <1>3, MoveHead
<1> QED BY <1>2, <1>3, <1>4 DEF Passage

LEMMA PassageQueue ==
    ASSUME NEW t \in Seq(Conns \X Nat), NEW r \in Seq(Request), NEW x \in Request
    PROVE  Passage(t, Append(r, x)) = Append(Passage(t, r), x.packet)
<1>1. PICK P : P = Conns \X Nat
  OBVIOUS
<1>2. PICK p \in Seq(P), y \in P : p = Packets(r) /\ y = x.packet
  BY <1>1, PacketsOf DEF Request
<1>3. t \o Append(p, y) = Append(t \o p, y)
  BY <1>1, MoveLast
<1> QED BY <1>2, <1>3, PacketsQueue DEF Passage

InOrder(p) == \A i, j \in DOMAIN p : i < j /\ p[i][1] = p[j][1] => p[i][2] < p[j][2]

LEMMA InOrderAppend ==
    ASSUME NEW S, NEW p \in Seq(S), InOrder(p), NEW x \in S,
           \A i \in DOMAIN p : p[i][1] = x[1] => p[i][2] < x[2]
    PROVE  /\ InOrder(Append(p, x))
           /\ \A i \in DOMAIN Append(p, x) :
                 (i \in DOMAIN p /\ Append(p, x)[i] = p[i]) \/ Append(p, x)[i] = x
<1>1. PICK q \in Seq(S) : q = Append(p, x)
  BY AppendProperties
<1>2. /\ Len(p) \in Nat /\ DOMAIN p = 1 .. Len(p) /\ DOMAIN q = 1 .. Len(p) + 1
      /\ \A i \in 1 .. Len(p) : q[i] = p[i]
      /\ q[Len(p) + 1] = x
  BY <1>1, AppendProperties
<1>3. ASSUME NEW i \in DOMAIN q, NEW j \in DOMAIN q, i < j, q[i][1] = q[j][1]
      PROVE  q[i][2] < q[j][2]
  <2>1. i \in DOMAIN p
    BY <1>2, <1>3
  <2>2. CASE j \in DOMAIN p
    BY <1>2, <1>3, <2>1, <2>2 DEF InOrder
  <2>3. CASE j = Len(p) + 1
    BY <1>2, <1>3, <2>1, <2>3
  <2> QED BY <1>2, <1>3, <2>2, <2>3
<1>4. \A i \in DOMAIN q : (i \in DOMAIN p /\ q[i] = p[i]) \/ q[i] = x
  BY <1>2
<1> QED BY <1>1, <1>3, <1>4 DEF InOrder

\* What has passed or will pass through a thread's FIFO was received, and is in order.
WasReceived(p) == \A i \in DOMAIN p : p[i][2] <= Received(p[i][1])

OrderInv ==
    /\ ServerInv
    /\ \A w \in Workers : LET p == Passage(taken[w], requests[w])
                          IN InOrder(p) /\ WasReceived(p)

LEMMA OrderInit == ServerInit => OrderInv
<1> SUFFICES ASSUME ServerInit, NEW w \in Workers
             PROVE  LET p == Passage(taken[w], requests[w]) IN InOrder(p) /\ WasReceived(p)
  BY ServerInvInit DEF OrderInv
<1>1. taken[w] = <<>> /\ requests[w] = <<>>
  BY DEF ServerInit, Init
<1>2. Packets(<<>>) = <<>>
  BY DEF Packets
<1>3. Passage(<<>>, <<>>) = <<>>
  BY <1>2, ConcatEmptySeq, EmptySeq DEF Passage
<1> QED BY <1>1, <1>3 DEF InOrder, WasReceived

\* The threads a step leaves alone.
LEMMA OrderKept ==
    ASSUME ServerInv, NEW w \in Workers, NEW p, p = Passage(taken[w], requests[w]),
           InOrder(p), WasReceived(p), p \in Seq(Conns \X Nat),
           \A d \in Conns : Received(d) <= consumed'[d] \div 2 /\ consumed'[d] \div 2 \in Nat
                            /\ Received(d) \in Nat
    PROVE  \A i \in DOMAIN p : p[i][2] <= consumed'[p[i][1]] \div 2
<1> SUFFICES ASSUME NEW i \in DOMAIN p PROVE p[i][2] <= consumed'[p[i][1]] \div 2
  OBVIOUS
<1>1. PICK d \in Conns, n \in Nat : p[i] = <<d, n>>
  OBVIOUS
<1>2. p[i][1] = d /\ p[i][2] = n
  BY <1>1
<1>3. n <= Received(d)
  BY <1>2 DEF WasReceived
<1> QED BY <1>2, <1>3

LEMMA OrderStep == OrderInv /\ [ServerNext]_serverVars => OrderInv'
<1> SUFFICES ASSUME OrderInv, [ServerNext]_serverVars PROVE OrderInv'
  OBVIOUS
<1>0. /\ ServerInv /\ ServerInv' /\ ChainInv
      /\ requests \in [Workers -> Seq(Request)] /\ taken \in [Workers -> Seq(Conns \X Nat)]
      /\ \A d \in Conns : Received(d) \in Nat
  BY ServerInvStep, Halves
  DEF OrderInv, ServerInv, DispatchTypeOK, ChainInv, TypeInv, TypeOK, Received
<1> SUFFICES ASSUME NEW w \in Workers
             PROVE  LET p == Passage(taken'[w], requests'[w])
                    IN InOrder(p) /\ \A i \in DOMAIN p : p[i][2] <= consumed'[p[i][1]] \div 2
  BY <1>0 DEF OrderInv, WasReceived, Received
<1>1. PICK p : p = Passage(taken[w], requests[w])
  OBVIOUS
<1>2. InOrder(p) /\ WasReceived(p) /\ p \in Seq(Conns \X Nat)
  <2>1. requests[w] \in Seq(Request) /\ taken[w] \in Seq(Conns \X Nat)
    BY <1>0
  <2>2. PICK P : P = Conns \X Nat
    OBVIOUS
  <2>3. PICK q \in Seq(P) : q = Packets(requests[w])
    BY <2>1, <2>2, PacketsOf
  <2>4. taken[w] \o q \in Seq(P)
    BY <2>1, <2>2, <2>3, ConcatProperties
  <2> QED BY <1>1, <2>2, <2>3, <2>4 DEF OrderInv, Passage
<1>3. CASE \/ QueuesNothing /\ NetFrame
           \/ \E v \in Workers : Signal(v) \/ TryDequeue(v)
           \/ Dispatch \/ QuietStep
  <2>1. \A d \in Conns : consumed'[d] \div 2 = Received(d)
    BY <1>3 DEF QueuesNothing, Received, Signal, TryDequeue, Dispatch, QuietStep, netVars
  <2>2. \A d \in Conns : /\ Received(d) <= consumed'[d] \div 2 /\ consumed'[d] \div 2 \in Nat
                         /\ Received(d) \in Nat
    BY <1>0, <2>1
  <2>3. \A i \in DOMAIN p : p[i][2] <= consumed'[p[i][1]] \div 2
    BY <1>0, <1>1, <1>2, <2>2, OrderKept
  <2>4. CASE UNCHANGED <<requests, taken>>
    BY <1>1, <1>2, <2>3, <2>4
  <2>5. ASSUME NEW v \in Workers, TryDequeue(v)
        PROVE  Passage(taken'[w], requests'[w]) = p
    <3>1. /\ requests[v] # <<>> /\ requests' = [requests EXCEPT ![v] = Tail(@)]
          /\ taken' = [taken EXCEPT ![v] = Append(@, Head(requests[v]).packet)]
      BY <1>0, <2>5, TakeTyped
    <3>2. CASE v = w
      BY <1>0, <1>1, <3>1, <3>2, PassageTake
    <3>3. CASE v # w
      BY <1>0, <1>1, <3>1, <3>3
    <3> QED BY <3>2, <3>3
  <2>6. UNCHANGED <<requests, taken>> \/ \E v \in Workers : TryDequeue(v)
    BY <1>3 DEF NetFrame, QueuesNothing, Signal, Dispatch, QuietStep
  <2> QED BY <1>2, <2>3, <2>4, <2>5, <2>6
<1>4. ASSUME NEW v \in Workers, NEW c \in Conns, QueuesPacket(v, c), NetFrame
      PROVE  LET q == Passage(taken'[w], requests'[w])
             IN InOrder(q) /\ \A i \in DOMAIN q : q[i][2] <= consumed'[q[i][1]] \div 2
  <2> DEFINE n == Received(c) + 1
             r == [session_id |-> session_id[c], packet |-> <<c, n>>]
  <2>1. /\ requests' = [requests EXCEPT ![v] = Append(@, r)] /\ taken' = taken
        /\ r \in Request /\ r.packet = <<c, n>> /\ n \in Nat /\ n = Received(c) + 1
        /\ \A d \in Conns : consumed'[d] \div 2 = IF d = c THEN n ELSE Received(d)
    BY <1>0, <1>4 DEF QueuesPacket, Request, NetFrame
  <2> HIDE DEF n, r
  <2>2. \A d \in Conns : /\ Received(d) <= consumed'[d] \div 2 /\ consumed'[d] \div 2 \in Nat
                         /\ Received(d) \in Nat
    <3>1. ASSUME NEW d \in Conns
          PROVE  /\ Received(d) <= consumed'[d] \div 2 /\ consumed'[d] \div 2 \in Nat
                 /\ Received(d) \in Nat
      <4>1. Received(d) \in Nat /\ Received(c) \in Nat
        BY <1>0
      <4>2. consumed'[d] \div 2 = IF d = c THEN n ELSE Received(d)
        BY <2>1
      <4> QED BY <2>1, <4>1, <4>2
    <3> QED BY <3>1
  <2>3. \A i \in DOMAIN p : p[i][2] <= consumed'[p[i][1]] \div 2
    BY <1>0, <1>1, <1>2, <2>2, OrderKept
  <2>4. CASE v # w
    <3>1. requests'[w] = requests[w] /\ taken'[w] = taken[w]
      BY <1>0, <2>1, <2>4
    <3> QED BY <1>1, <1>2, <2>3, <3>1
  <2>5. CASE v = w
    <3>1. PICK x \in Conns \X Nat : x = <<c, n>>
      BY <2>1
    <3>2. x[1] = c /\ x[2] = n
      BY <3>1
    <3>3. Passage(taken'[w], requests'[w]) = Append(p, x)
      <4>1. requests'[w] = Append(requests[w], r) /\ taken'[w] = taken[w]
        BY <1>0, <2>1, <2>5
      <4>2. taken[w] \in Seq(Conns \X Nat) /\ requests[w] \in Seq(Request)
        BY <1>0
      <4>3. Passage(taken[w], Append(requests[w], r)) = Append(Passage(taken[w], requests[w]), r.packet)
        BY <2>1, <4>2, PassageQueue
      <4> QED BY <1>1, <2>1, <3>1, <4>1, <4>3
    <3>4. \A i \in DOMAIN p : p[i][1] = x[1] => p[i][2] < x[2]
      <4>1. ASSUME NEW i \in DOMAIN p, p[i][1] = c PROVE p[i][2] < n
        <5>1. p[i][2] <= Received(c) /\ p[i][2] \in Nat
          BY <1>2, <4>1 DEF WasReceived
        <5> QED BY <1>0, <2>1, <5>1
      <4> QED BY <3>2, <4>1
    <3>5. /\ InOrder(Append(p, x))
          /\ \A i \in DOMAIN Append(p, x) :
                (i \in DOMAIN p /\ Append(p, x)[i] = p[i]) \/ Append(p, x)[i] = x
      BY <1>2, <3>1, <3>4, InOrderAppend
    <3>6. x[2] <= consumed'[x[1]] \div 2
      BY <2>1, <3>2
    <3> QED BY <2>3, <3>3, <3>5, <3>6
  <2> QED BY <2>4, <2>5
<1> QED BY <1>0, <1>3, <1>4, ServerMoves, QueueMoves

\* Packets of a client that the same thread queued are dispatched in the order in which
\* they were sent, over all frames.
THEOREM OrderOfThreadKept == ServerSpec => []ThreadOrderKept
<1>1. ServerSpec => []OrderInv
  BY OrderInit, OrderStep, PTL DEF ServerSpec
<1>2. OrderInv => ThreadOrderKept
  BY DEF OrderInv, ThreadOrderKept, InOrder, Passage, Packets
<1> QED BY <1>1, <1>2, PTL

-----------------------------------------------------------------------------
(* The server implements PacketDelivery: reading a payload receives its    *)
(* packet, Dispatch delivers the one in hand, every other step stutters.   *)

LEMMA DeliversInit == ServerInit => Delivery!Init
BY Halves DEF ServerInit, Init, Delivery!Init

LEMMA DeliversStep ==
    AccountInv /\ [ServerNext]_serverVars => [Delivery!Next]_(Delivery!vars)
<1> SUFFICES ASSUME AccountInv, [ServerNext]_serverVars PROVE [Delivery!Next]_(Delivery!vars)
  OBVIOUS
<1> DEFINE arrived == [c \in Conns |-> consumed[c] \div 2]
<1>0. ServerInv /\ ChainInv
  BY DEF AccountInv, ServerInv
<1>1. ASSUME NEW w \in Workers, NEW c \in Conns, QueuesPacket(w, c), NetFrame
      PROVE  Delivery!Receive(c)
  <2>1. arrived' = [arrived EXCEPT ![c] = @ + 1]
    BY <1>1 DEF QueuesPacket, Received
  <2> QED BY <1>1, <2>1 DEF NetFrame, Delivery!Receive
<1>2. CASE Dispatch
  <2>1. PICK c \in Conns, n \in Nat : request.packet = <<c, n>>
    BY <1>0, <1>2, DispatchTyped DEF Request
  <2>2. /\ n \in 1 .. Received(c)
        /\ \A i \in DOMAIN dispatched[c] : dispatched[c][i] # n
    BY <1>2, <2>1 DEF AccountInv, HandSound, Dispatch
  <2>3. dispatched' = [dispatched EXCEPT ![c] = Append(@, n)] /\ arrived' = arrived
    BY <1>0, <1>2, <2>1, DispatchTyped DEF Dispatch, netVars, connVars
  <2>4. arrived[c] = Received(c)
    BY DEF Received
  <2>5. Delivery!Deliver(c, n)
    BY <2>2, <2>3, <2>4 DEF Delivery!Deliver
  <2> QED BY <2>2, <2>4, <2>5 DEF Delivery!Next
<1>3. CASE \/ QueuesNothing /\ NetFrame
           \/ \E w \in Workers : Signal(w) \/ TryDequeue(w)
           \/ QuietStep
  <2>1. arrived' = arrived
    BY <1>3
    DEF QueuesNothing, Received, Signal, TryDequeue, QuietStep, netVars, connVars
  <2>2. dispatched' = dispatched
    BY <1>3 DEF NetFrame, Signal, TryDequeue, QuietStep
  <2> QED BY <2>1, <2>2 DEF Delivery!vars
<1> QED BY <1>0, <1>1, <1>2, <1>3, ServerMoves, QueueMoves DEF Delivery!Next

\* The server hands a packet to the dispatcher after it was received whole, and at most
\* once: every behaviour of it is one of PacketDelivery.
THEOREM ServerDelivers == ServerSpec => ImplementsDelivery
<1>1. ServerSpec => []AccountInv
  BY AccountInit, AccountStep, PTL DEF ServerSpec
<1> QED BY <1>1, DeliversInit, DeliversStep, PTL
      DEF ServerSpec, ImplementsDelivery, Delivery!Spec

-----------------------------------------------------------------------------
(* Ids of requests. A request outlives its session, but as long as no id   *)
(* has come round, only its sender can be registered under the one it      *)
(* carries.                                                                *)

LEMMA IdsOutside ==
    ASSUME IdsInv, UNCHANGED netVars, ChainInv'
    PROVE  IdsInv'
BY DEF IdsInv, SessionsNamed, IdsDistinct, IdsLast, RunningSessionRegistered, Made, Unmade,
       Place, netVars, tcpVars, connVars, peerVars

SenderInv == AccountInv /\ IdsInv

LEMMA SenderInit == ServerInit => SenderInv
BY AccountInit, IdsInit DEF ServerInit, SenderInv

LEMMA SenderStep == SenderInv /\ [ServerNext]_serverVars => SenderInv'
<1> SUFFICES ASSUME SenderInv, [ServerNext]_serverVars PROVE SenderInv'
  OBVIOUS
<1>1. AccountInv' /\ ChainInv'
  BY AccountStep DEF SenderInv, AccountInv, ServerInv
<1>2. [Next]_vars \/ UNCHANGED netVars
  BY ServerMoves DEF Signal, TryDequeue, Dispatch, QuietStep
<1> QED BY <1>1, <1>2, IdsStep, IdsOutside DEF SenderInv

LEMMA SenderNamed == SenderInv /\ IdsLast => SessionIdNamesSender
<1> SUFFICES ASSUME SenderInv, IdsLast PROVE SessionIdNamesSender
  OBVIOUS
<1>0. /\ TypeOK /\ HandOK /\ requests \in [Workers -> Seq(Request)]
      /\ SessionsNamed /\ IdsDistinct
  BY DEF SenderInv, AccountInv, ServerInv, DispatchTypeOK, IdsInv, TypeOK
<1>1. ASSUME NEW r \in Request, r.session_id = session_id[r.packet[1]]
      PROVE  connections[r.session_id] \in {r.packet[1], NoConn}
  <2>1. PICK c \in Conns, i \in Ids : r.packet[1] = c /\ r.session_id = i
    BY DEF Request
  <2>2. CASE connections[i] # NoConn
    <3>1. connections[i] \in Conns /\ session_id[connections[i]] = i
      BY <1>0, <2>2 DEF TypeOK, SessionsNamed
    <3>2. connections[i] \in Made /\ c \in Made
      BY <1>1, <2>1, <3>1 DEF Made, Ids, NoId
    <3> QED BY <1>0, <1>1, <2>1, <3>1, <3>2 DEF IdsDistinct
  <2> QED BY <2>1, <2>2
<1>2. \A s \in Slots : RequestIn(s) \in Request
                       /\ RequestIn(s).session_id = session_id[RequestIn(s).packet[1]]
  BY <1>0, SlotDomain DEF SenderInv, AccountInv, RequestsSound
<1>3. frame = "dispatch" =>
          request \in Request /\ request.session_id = session_id[request.packet[1]]
  BY <1>0 DEF SenderInv, AccountInv, HandSound, HandOK
<1> QED BY <1>1, <1>2, <1>3 DEF SessionIdNamesSender

\* Until the id counter comes round, whoever is registered under the session id of a
\* pending request is the client that sent it.
THEOREM IdNamesSender == ServerSpec => [](IdsLast => SessionIdNamesSender)
<1>1. ServerSpec => []SenderInv
  BY SenderInit, SenderStep, PTL DEF ServerSpec
<1> QED BY <1>1, SenderNamed, PTL

=============================================================================
