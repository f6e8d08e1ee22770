-------------------------- MODULE RequestDispatch --------------------------
(***************************************************************************)
(* The other end of the request queue: main()'s frame loop, which takes    *)
(* the requests the io threads of TcpSessions queued and dispatches them.  *)
(*                                                                         *)
(* The queue is moodycamel's BlockingConcurrentQueue: one FIFO for each    *)
(* enqueuing thread and a semaphore that counts the requests. enqueue      *)
(* fills the FIFO and then signals, while the io thread is on its way from *)
(* PayloadRead to NextHeader.                                              *)
(***************************************************************************)
EXTENDS TcpSessions

CONSTANT MaxDispatch  \* max_packet_dispatch_threshold: 1024

ASSUME DispatchAssumption == MaxDispatch \in Nat \ {0}

VARIABLES
    available,   \* the queue's semaphore
    signalled,   \* threads whose enqueue has signalled it and returned
    frame,       \* where the main thread is in its frame
    processed,   \* dispatch_request's processed_count
    request,     \* dispatch_request's local packet_request
    taken,       \* history: packets taken from each thread's FIFO, in order
    dispatched   \* history: each client's packets given to the dispatcher, in order

frameVars == <<available, signalled, frame, processed, request, taken, dispatched>>
netVars   == <<tcpVars, connVars, peerVars, connections, pc, at, consumed>>

NoRequest == [session_id |-> NoId, packet |-> <<NoConn, 0>>]

\* Threads that have filled their FIFO and not yet signalled the semaphore.
Enqueued    == {w \in Workers : pc[w] = "next_header"}
Unsignalled == Enqueued \ signalled

SignalsWhenEmpty == IF available = 0 THEN 1 ELSE available
SignalsOnce      == available + 1

Signal(w) ==
    /\ w \in Unsignalled
    /\ available' = SignalsOnce
    /\ signalled' = signalled \cup {w}
    /\ UNCHANGED <<netVars, requests, frame, processed, request, taken, dispatched>>

\* A step of the io threads, the network or stop() leaves the main thread alone;
\* async_read_header is called after enqueue has signalled.
NetFrame ==
    /\ Unsignalled \subseteq Enqueued'
    /\ signalled' = signalled \cap Enqueued'
    /\ UNCHANGED <<available, frame, processed, request, taken, dispatched>>

NetStep == Next /\ NetFrame

-----------------------------------------------------------------------------
(* The main thread: while (engine.is_runnable() && tcp.is_runnable()).     *)
(* Nothing ever clears game_engine::is_running.                            *)

EngineRunnable == TRUE
Runnable       == is_running

BeginFrame ==
    /\ frame = "check" /\ Runnable
    /\ frame' = "dequeue" /\ processed' = 0
    /\ UNCHANGED <<netVars, requests, available, signalled, request, taken, dispatched>>

LeaveLoop ==
    /\ frame = "check" /\ ~Runnable
    /\ frame' = "over"
    /\ UNCHANGED <<netVars, requests, available, signalled, processed, request, taken, dispatched>>

\* The semaphore says that there is a request; the queue takes it from the FIFO
\* it likes best. The block of the previous request is dropped.
Take(w) ==
    /\ available > 0 /\ requests[w] # <<>>
    /\ available' = available - 1
    /\ request' = Head(requests[w])
    /\ requests' = [requests EXCEPT ![w] = Tail(@)]
    /\ taken' = [taken EXCEPT ![w] = Append(@, Head(requests[w]).packet)]

OneMoreAllowed == processed <= MaxDispatch
MayDequeue     == processed < MaxDispatch

TryDequeue(w) ==
    /\ frame = "dequeue" /\ MayDequeue /\ Take(w)
    /\ frame' = "dispatch"
    /\ UNCHANGED <<netVars, signalled, processed, dispatched>>

\* Where the loop goes on after a packet: try and catch are around each one.
EscapesLoop     == {"dequeue", "over"}
DispatchesAgain == {"dequeue", "dispatch"}
AfterDispatch   == {"dequeue"}

\* The handler runs, or there is none, or its payload does not verify, or it throws
\* a std::exception: the request counts as processed and the loop goes on.
Dispatch ==
    /\ frame = "dispatch"
    /\ dispatched' = [dispatched EXCEPT ![request.packet[1]] = Append(@, request.packet[2])]
    /\ processed' = processed + 1
    /\ frame' \in AfterDispatch
    /\ UNCHANGED <<netVars, requests, available, signalled, request, taken>>

\* dispatch_request's request is a local of the frame.
KeepsRequest == request
AfterFrame   == NoRequest

\* dispatch_request returns and its local request goes with it; update() then finds
\* no game object, as nothing ever fills game_objects.
EndFrame ==
    /\ frame = "dequeue" /\ (~MayDequeue \/ available = 0)
    /\ frame' = "check"
    /\ request' = AfterFrame
    /\ UNCHANGED <<netVars, requests, available, signalled, processed, taken, dispatched>>

MainStep == BeginFrame \/ LeaveLoop \/ Dispatch \/ EndFrame \/ \E w \in Workers : TryDequeue(w)

-----------------------------------------------------------------------------
ServerInit ==
    /\ Init
    /\ available = 0 /\ signalled = {}
    /\ frame = "check" /\ processed = 0 /\ request = NoRequest
    /\ taken = [w \in Workers |-> <<>>]
    /\ dispatched = [c \in Conns |-> <<>>]

ServerNext == NetStep \/ MainStep \/ \E w \in Workers : Signal(w)

serverVars == <<vars, frameVars>>

ServerSpec == ServerInit /\ [][ServerNext]_serverVars

\* The main thread is scheduled as the io threads are.
FairServerSpec ==
    /\ ServerSpec /\ Fairness
    /\ WF_serverVars(MainStep) /\ \A w \in Workers : WF_serverVars(Signal(w))

-----------------------------------------------------------------------------
(* Properties.                                                             *)

DispatchTypeOK ==
    /\ TypeOK
    /\ available \in Nat /\ signalled \subseteq Enqueued
    /\ frame \in {"check", "dequeue", "dispatch", "over"}
    /\ processed \in 0 .. MaxDispatch
    /\ request \in Request \cup {NoRequest}
    /\ taken \in [Workers -> Seq(Conns \X Nat)]
    /\ dispatched \in [Conns -> Seq(Nat)]

InHand(c) == IF frame = "dispatch" /\ request.packet[1] = c THEN {request.packet[2]} ELSE {}

Queued(c) == {RequestIn(slot).packet[2] : slot \in SlotsOf(c)}

Done(c) == {dispatched[c][i] : i \in DOMAIN dispatched[c]}

\* Every packet a session has read whole is in exactly one place: on a thread's FIFO,
\* in the main thread's hand, or dispatched. None is dropped at the threshold, none
\* dispatched twice.
EveryPacketAccounted ==
    \A c \in Conns :
        /\ Queued(c) \cup InHand(c) \cup Done(c) = 1 .. consumed[c] \div 2
        /\ Cardinality(SlotsOf(c)) + Cardinality(InHand(c)) + Len(dispatched[c])
             = consumed[c] \div 2

\* The semaphore never promises more than the FIFOs hold: what it lacks are exactly
\* the requests of threads that have not signalled yet, so that try_dequeue, once
\* past the semaphore, finds a request and does not spin.
SemaphoreCounts ==
    available + Cardinality(Unsignalled) = Cardinality(Slots)

\* Packets of a client that the same thread queued are dispatched in the order in
\* which they were sent, over all frames; no more is promised with several threads.
ThreadOrderKept ==
    \A w \in Workers :
        LET passed == taken[w] \o [i \in DOMAIN requests[w] |-> requests[w][i].packet]
        IN \A i, j \in DOMAIN passed :
               i < j /\ passed[i][1] = passed[j][1] => passed[i][2] < passed[j][2]

\* A request outlives its session, but whoever is registered under the session id it
\* carries is the client that sent it, never a later one.
SessionIdNamesSender ==
    LET pending == {RequestIn(slot) : slot \in Slots}
                       \cup (IF frame = "dispatch" THEN {request} ELSE {})
    IN \A r \in pending : connections[r.session_id] \in {r.packet[1], NoConn}

\* The server delivers packets as PacketDelivery promises.
Delivery == INSTANCE PacketDelivery WITH
    received  <- [c \in Conns |-> consumed[c] \div 2],
    delivered <- dispatched

ImplementsDelivery == Delivery!Spec

\* Every queued packet is dispatched, in this frame or a later one, whatever the
\* handlers of those before it did, unless the server stops.
PacketsDispatched ==
    \A c \in Conns, n \in 1 .. MaxPackets :
        n \in Queued(c) ~> n \in Done(c) \/ ~is_running

\* The frame loop ends once the server has been stopped.
LoopEnds == ~is_running ~> frame = "over"

=============================================================================
