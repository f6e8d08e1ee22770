---------------------------- MODULE TcpSessions ----------------------------
(***************************************************************************)
(* net::core::tcp in server mode together with its net::core::connection   *)
(* objects: the accept loop, the read chain of every session, the session  *)
(* map and the request queue the io threads fill.                          *)
(*                                                                         *)
(* The initial state is the one tcp::start() leaves behind: the acceptor   *)
(* listens, one accept is outstanding, the io threads run io_context::run. *)
(* A thread that has been given a completion executes its handler in       *)
(* steps; there is a step boundary wherever the handler touches something  *)
(* another thread can see (a newly armed operation, the session map, the   *)
(* request queue, the memory pool).                                        *)
(*                                                                         *)
(* Here and in the other modules, variants in front of a one-line operator *)
(* are programming errors; the properties are tested against them.         *)
(***************************************************************************)
EXTENDS Integers, Sequences, FiniteSets

CONSTANTS
    Conns,         \* client connections; also names the session made for each
    Workers,       \* io_context threads (hardware_concurrency() - 1 of them)
    IdSpace,       \* number of values of connection_id_counter: 2^32
    FirstId,       \* initial value of connection_id_counter: 10000
    AcceptErrors,  \* errors the OS may report for an accept
    RentMayFail,   \* whether ts_memory_pool::rent may return nullptr
    MaxPackets,    \* bound: packets a client sends
    NoConn         \* no session

ASSUME ConstantsAssumption ==
    /\ IdSpace \in Nat \ {0}
    /\ FirstId \in 0 .. IdSpace - 1
    /\ AcceptErrors \subseteq {"operation_aborted", "connection_aborted", "other"}
    /\ RentMayFail \in BOOLEAN
    /\ MaxPackets \in Nat
    /\ NoConn \notin Conns

VARIABLES
    is_running,     \* tcp::is_running
    ctx_stopped,    \* io_context::stop() has been called
    acceptor_open,  \* the acceptor is listening
    accept_ops,     \* outstanding async_accept operations
    counter,        \* connection_id_counter
    connections,    \* tcp::connections, the ts_map from ids to sessions
    requests,       \* the request queue: one FIFO per enqueuing thread
    session_id,     \* connection::connection_id of the session made for a client
    running,        \* sessions whose connection::is_running is true
    open,           \* sessions whose socket is open on the server's side
    header_reads,   \* outstanding async_read of a header, per session
    payload_reads,  \* outstanding async_read of a payload, per session
    pc,             \* where each io thread is in the handler it executes
    at,             \* the session that handler works on
    peer,           \* the client's end of the connection
    backlog,        \* connections established by the kernel and not yet accepted
    written,        \* headers and payloads of each client that have come, alternately
    consumed        \* headers and payloads the server has read

tcpVars  == <<is_running, ctx_stopped, acceptor_open, accept_ops, counter>>
connVars == <<session_id, running, open, header_reads, payload_reads>>
peerVars == <<peer, backlog, written>>
vars == <<tcpVars, connVars, peerVars, connections, requests, pc, at, consumed>>

Ids  == 0 .. IdSpace - 1
NoId == -1

\* A request carries the session id; packet names the client's n-th packet,
\* standing for the block packet_owner and its bytes.
Request == [session_id : Ids, packet : Conns \X Nat]

AcceptPcs == {"create", "insert", "rearm"}
ReadPcs   == {"rent", "evict", "stop", "disconnect", "next_header"}

-----------------------------------------------------------------------------
(* Who holds a shared_ptr to session c: the handlers of its outstanding    *)
(* reads, the handlers being executed (for an accept handler, its local    *)
(* new_session), and the session map.                                      *)

Reading(c) == {w \in Workers : at[w] = c /\ pc[w] \in ReadPcs}

Referenced(c) ==
    \/ header_reads[c] + payload_reads[c] > 0
    \/ \E w \in Workers : at[w] = c
    \/ \E i \in Ids : connections[i] = c

\* ~connection() closes the socket when the last shared_ptr goes away.
DestroyUnreferenced(sockets) == open' = {c \in sockets : Referenced(c)'}

\* async_read of a header or a payload of session c.
ArmTwice(reads, c)   == [reads EXCEPT ![c] = @ + 2]
ArmNothing(reads, c) == reads
Arm(reads, c)        == [reads EXCEPT ![c] = @ + 1]

\* async_read completes when all the bytes it waits for are there.
ArrivedPartly(c) == consumed[c] < written[c] /\ UNCHANGED consumed
ArrivedWhole(c)  == consumed[c] < written[c] /\ consumed' = [consumed EXCEPT ![c] = @ + 1]

\* connection::stop() and connection::close().
StillRunning(c) == running
Stopped(c)      == running \ {c}

LeftOpen(c) == open
Closed(c)   == open \ {c}

\* Where thread w goes next in its handler; a handler that returns drops the
\* shared_ptrs it captured.
Enter(w, label, c) ==
    /\ pc' = [pc EXCEPT ![w] = label]
    /\ at' = [at EXCEPT ![w] = c]

Goto(w, label) == Enter(w, label, at[w])

Return(w) == Enter(w, "idle", NoConn)

\* io_context::run hands a completion only to a thread that waits in run().
CanRun(w) == pc[w] = "idle" /\ ~ctx_stopped

\* The read handlers of a session are bound to its strand.
StrandFree(c) == Reading(c) = {}

\* connection_id_counter.fetch_add(1) on a 32 bit counter.
NextIdStuck == counter
NextIdWider == counter + 1
NextId == (counter + 1) % IdSpace

\* requests.enqueue of the packet whose payload has just been read: each thread
\* fills a FIFO of its own inside the concurrent queue.
RequestOf(c) == [session_id |-> session_id[c], packet |-> <<c, (consumed[c] + 1) \div 2>>]

EnqueueFirst(w, c) == requests' = [requests EXCEPT ![w] = <<RequestOf(c)>> \o @]
EnqueueOnce(w, c) ==
    requests' = IF requests[w] = <<>> THEN [requests EXCEPT ![w] = <<RequestOf(c)>>]
                                      ELSE requests
Enqueue(w, c) == requests' = [requests EXCEPT ![w] = Append(@, RequestOf(c))]

\* tcp::disconnect, which every session was given as its on_disconnected.
DisconnectForgotten(id) == UNCHANGED connections
Disconnect(id) == connections' = [connections EXCEPT ![id] = NoConn]

\* The key under which the accept handler inserts its session c.
KeyReread(c)  == counter
SessionKey(c) == session_id[c]

\* async_accept, and which errors it is called after: CHECK_ACCEPT_ERROR.
ArmAcceptTwice == accept_ops' = accept_ops + 2
ArmAccept      == accept_ops' = accept_ops + 1

AbortsEndIt(err)  == err = "operation_aborted"
AcceptsAgain(err) == err \in {"operation_aborted", "connection_aborted"}

\* io_context::run returns: the work guard is there until ~tcp().
RunOutOfWork == ctx_stopped /\ accept_ops = 0
RunReturns   == ctx_stopped

-----------------------------------------------------------------------------
(* The clients and the network: they may connect, send and vanish at any   *)
(* time. Of a client that is "down" the server's host has received the     *)
(* close or the reset; of one that is "lost" it never hears again.         *)

ClientConnect(c) ==
    /\ peer[c] = "new" /\ acceptor_open
    /\ peer' = [peer EXCEPT ![c] = "up"]
    /\ backlog' = backlog \cup {c}
    /\ UNCHANGED <<tcpVars, connVars, connections, requests, pc, at, written, consumed>>

\* The next header of the client, or the payload of its last header, comes in.
ClientSend(c) ==
    /\ peer[c] = "up" /\ written[c] < 2 * MaxPackets
    /\ written' = [written EXCEPT ![c] = @ + 1]
    /\ UNCHANGED <<tcpVars, connVars, connections, requests, pc, at, peer, backlog, consumed>>

\* The client closes or resets the connection, and its host says so.
ClientDown(c) ==
    /\ peer[c] = "up"
    /\ peer' = [peer EXCEPT ![c] = "down"]
    /\ UNCHANGED <<tcpVars, connVars, connections, requests, pc, at, backlog, written, consumed>>

\* The link is cut. The server sets no timer and no keepalive and sends nothing: an
\* outstanding read never completes.
ClientLost(c) ==
    /\ peer[c] = "up"
    /\ peer' = [peer EXCEPT ![c] = "lost"]
    /\ UNCHANGED <<tcpVars, connVars, connections, requests, pc, at, backlog, written, consumed>>

-----------------------------------------------------------------------------
(* The accept handler.                                                     *)

\* A connection was accepted; the handler gives up if the server is stopping.
Accepted(w, c) ==
    /\ CanRun(w) /\ accept_ops > 0 /\ c \in backlog
    /\ accept_ops' = accept_ops - 1
    /\ backlog' = backlog \ {c}
    /\ IF is_running THEN Enter(w, "create", c) ELSE UNCHANGED <<pc, at>>
    /\ UNCHANGED <<is_running, ctx_stopped, acceptor_open, counter, connVars,
                   peer, written, connections, requests, consumed>>

\* fetch_add on the counter, make_shared<connection> and connection::start():
\* from here on other threads may run the session's read handlers.
CreateSession(w) ==
    LET c == at[w] IN
    /\ pc[w] = "create"
    /\ session_id' = [session_id EXCEPT ![c] = counter]
    /\ counter' = NextId
    /\ running' = running \cup {c}
    /\ open' = open \cup {c}
    /\ header_reads' = Arm(header_reads, c)
    /\ Goto(w, "insert")
    /\ UNCHANGED <<is_running, ctx_stopped, acceptor_open, accept_ops, payload_reads,
                   peerVars, connections, requests, consumed>>

\* ts_map::insert overwrites what the id was mapped to.
InsertSession(w) ==
    /\ pc[w] = "insert"
    /\ connections' = [connections EXCEPT ![SessionKey(at[w])] = at[w]]
    /\ Goto(w, "rearm")
    /\ UNCHANGED <<tcpVars, session_id, running, header_reads, payload_reads,
                   peerVars, requests, consumed>>
    /\ DestroyUnreferenced(open)

AcceptNext(w) ==
    /\ pc[w] = "rearm"
    /\ ArmAccept
    /\ Return(w)
    /\ UNCHANGED <<is_running, ctx_stopped, acceptor_open, counter, session_id, running,
                   header_reads, payload_reads, peerVars, connections, requests, consumed>>
    /\ DestroyUnreferenced(open)

\* CHECK_ACCEPT_ERROR: an aborted operation or connection accepts again, any
\* other error ends the accept loop.
AcceptFailed(w, err) ==
    /\ CanRun(w) /\ accept_ops > 0 /\ err \in AcceptErrors
    /\ \/ err = "connection_aborted" /\ \E c \in backlog :
              peer[c] = "down" /\ backlog' = backlog \ {c}
       \/ err # "connection_aborted" /\ UNCHANGED backlog
    /\ accept_ops' = IF AcceptsAgain(err) THEN accept_ops ELSE accept_ops - 1
    /\ UNCHANGED <<is_running, ctx_stopped, acceptor_open, counter, connVars, peer,
                   written, connections, requests, pc, at, consumed>>

-----------------------------------------------------------------------------
(* The read chain of a session: header, payload, header, ...               *)

\* The header has arrived whole; its payload_size is known.
HeaderRead(w, c) ==
    /\ CanRun(w) /\ StrandFree(c) /\ header_reads[c] > 0
    /\ ArrivedWhole(c)
    /\ header_reads' = [header_reads EXCEPT ![c] = @ - 1]
    /\ IF c \in running THEN Enter(w, "rent", c) ELSE UNCHANGED <<pc, at>>
    /\ UNCHANGED <<tcpVars, session_id, running, payload_reads, peerVars,
                   connections, requests>>
    /\ DestroyUnreferenced(open)

\* The pool gave a block: the header is copied and the payload read armed.
RentBlock(w) ==
    /\ pc[w] = "rent"
    /\ payload_reads' = Arm(payload_reads, at[w])
    /\ Return(w)
    /\ UNCHANGED <<tcpVars, session_id, running, open, header_reads, peerVars,
                   connections, requests, consumed>>

RentFails(w) ==
    /\ pc[w] = "rent" /\ RentMayFail
    /\ Goto(w, "evict")
    /\ UNCHANGED <<tcpVars, connVars, peerVars, connections, requests, consumed>>

\* No block: on_disconnected takes the session out of the map while it still runs ...
Evict(w) ==
    /\ pc[w] = "evict"
    /\ Disconnect(session_id[at[w]])
    /\ Goto(w, "stop")
    /\ UNCHANGED <<tcpVars, session_id, running, header_reads, payload_reads, peerVars,
                   requests, consumed>>
    /\ DestroyUnreferenced(open)

\* ... then stop() and return; the socket is left to ~connection.
StopEvicted(w) ==
    /\ pc[w] = "stop"
    /\ running' = Stopped(at[w])
    /\ Return(w)
    /\ UNCHANGED <<tcpVars, session_id, header_reads, payload_reads, peerVars,
                   connections, requests, consumed>>
    /\ DestroyUnreferenced(open)

\* The payload has arrived whole: the packet is queued by this thread.
PayloadRead(w, c) ==
    /\ CanRun(w) /\ StrandFree(c) /\ payload_reads[c] > 0
    /\ ArrivedWhole(c)
    /\ payload_reads' = [payload_reads EXCEPT ![c] = @ - 1]
    /\ IF c \in running
       THEN Enqueue(w, c) /\ Enter(w, "next_header", c)
       ELSE UNCHANGED <<requests, pc, at>>
    /\ UNCHANGED <<tcpVars, session_id, running, header_reads, peerVars, connections>>
    /\ DestroyUnreferenced(open)

NextHeader(w) ==
    /\ pc[w] = "next_header"
    /\ header_reads' = Arm(header_reads, at[w])
    /\ Return(w)
    /\ UNCHANGED <<tcpVars, session_id, running, open, payload_reads, peerVars,
                   connections, requests, consumed>>

\* CHECK_READ_ERROR: all three error handlers stop() and close() the session ...
ReadFailed(w, c) ==
    /\ CanRun(w) /\ StrandFree(c) /\ peer[c] = "down"
    /\ \/ /\ header_reads[c] > 0
          /\ header_reads' = [header_reads EXCEPT ![c] = @ - 1]
          /\ UNCHANGED payload_reads
       \/ /\ payload_reads[c] > 0
          /\ payload_reads' = [payload_reads EXCEPT ![c] = @ - 1]
          /\ UNCHANGED header_reads
    /\ running' = Stopped(c)
    /\ open' = Closed(c)
    /\ Enter(w, "disconnect", c)
    /\ UNCHANGED <<tcpVars, session_id, peerVars, connections, requests, consumed>>

\* ... and then call on_disconnected.
OnDisconnected(w) ==
    /\ pc[w] = "disconnect"
    /\ Disconnect(session_id[at[w]])
    /\ Return(w)
    /\ UNCHANGED <<tcpVars, session_id, running, header_reads, payload_reads, peerVars,
                   requests, consumed>>
    /\ DestroyUnreferenced(open)

-----------------------------------------------------------------------------
(* tcp::stop() and then tcp::close(), as ~tcp() calls them.                *)

Stop ==
    /\ is_running
    /\ is_running' = FALSE
    /\ UNCHANGED <<ctx_stopped, acceptor_open, accept_ops, counter, connVars, peerVars,
                   connections, requests, pc, at, consumed>>

StopContext ==
    /\ ~is_running /\ ~ctx_stopped
    /\ ctx_stopped' = TRUE
    /\ UNCHANGED <<is_running, acceptor_open, accept_ops, counter, connVars, peerVars,
                   connections, requests, pc, at, consumed>>

WorkerExits(w) ==
    /\ RunReturns /\ pc[w] = "idle"
    /\ pc' = [pc EXCEPT ![w] = "exited"]
    /\ UNCHANGED <<tcpVars, connVars, peerVars, connections, requests, at, consumed>>

\* The joins have returned; closing the acceptor resets what was never accepted.
CloseAcceptor ==
    /\ ctx_stopped /\ acceptor_open
    /\ \A w \in Workers : pc[w] = "exited"
    /\ acceptor_open' = FALSE
    /\ peer' = [c \in Conns |-> IF c \in backlog THEN "down" ELSE peer[c]]
    /\ backlog' = {}
    /\ UNCHANGED <<is_running, ctx_stopped, accept_ops, counter, connVars, written,
                   connections, requests, pc, at, consumed>>

-----------------------------------------------------------------------------
Init ==
    /\ is_running = TRUE /\ ctx_stopped = FALSE /\ acceptor_open = TRUE
    /\ accept_ops = 1
    /\ counter = FirstId
    /\ connections = [i \in Ids |-> NoConn]
    /\ requests = [w \in Workers |-> <<>>]
    /\ session_id = [c \in Conns |-> NoId]
    /\ running = {} /\ open = {}
    /\ header_reads = [c \in Conns |-> 0]
    /\ payload_reads = [c \in Conns |-> 0]
    /\ pc = [w \in Workers |-> "idle"]
    /\ at = [w \in Workers |-> NoConn]
    /\ peer = [c \in Conns |-> "new"]
    /\ backlog = {}
    /\ written = [c \in Conns |-> 0]
    /\ consumed = [c \in Conns |-> 0]

Client(c) == ClientConnect(c) \/ ClientSend(c) \/ ClientDown(c) \/ ClientLost(c)

\* The steps a thread still has to take in the handler it has entered.
HandlerStep(w) ==
    \/ CreateSession(w) \/ InsertSession(w) \/ AcceptNext(w)
    \/ RentBlock(w) \/ RentFails(w) \/ Evict(w) \/ StopEvicted(w)
    \/ NextHeader(w) \/ OnDisconnected(w)

ReadCompletes(c) ==
    \E w \in Workers : HeaderRead(w, c) \/ PayloadRead(w, c) \/ ReadFailed(w, c)

Next ==
    \/ \E c \in Conns : Client(c) \/ ReadCompletes(c)
    \/ \E w \in Workers : HandlerStep(w) \/ WorkerExits(w)
    \/ \E w \in Workers, c \in Conns : Accepted(w, c)
    \/ \E w \in Workers, err \in AcceptErrors : AcceptFailed(w, err)
    \/ Stop \/ StopContext \/ CloseAcceptor

Spec == Init /\ [][Next]_vars

\* Threads are scheduled, the completion port delivers what has completed (a read
\* for which the bytes, the close or the reset have come, never one on a lost link), and
\* the thread that calls stop() carries on; clients and errors promise nothing.
Fairness ==
    /\ \A w \in Workers : WF_vars(HandlerStep(w)) /\ WF_vars(WorkerExits(w))
    /\ \A c \in Conns : /\ WF_vars(ReadCompletes(c))
                        /\ WF_vars(\E w \in Workers : Accepted(w, c))
    /\ WF_vars(StopContext) /\ WF_vars(CloseAcceptor)

FairSpec == Spec /\ Fairness

-----------------------------------------------------------------------------
(* Properties.                                                             *)

TypeOK ==
    /\ is_running \in BOOLEAN /\ ctx_stopped \in BOOLEAN /\ acceptor_open \in BOOLEAN
    /\ accept_ops \in Nat
    /\ counter \in Ids
    /\ connections \in [Ids -> Conns \cup {NoConn}]
    /\ requests \in [Workers -> Seq(Request)]
    /\ session_id \in [Conns -> Ids \cup {NoId}]
    /\ running \subseteq Conns /\ open \subseteq Conns
    /\ header_reads \in [Conns -> Nat] /\ payload_reads \in [Conns -> Nat]
    /\ pc \in [Workers -> {"idle", "exited"} \cup AcceptPcs \cup ReadPcs]
    /\ at \in [Workers -> Conns \cup {NoConn}]
    /\ \A w \in Workers : pc[w] \in AcceptPcs \cup ReadPcs <=> at[w] # NoConn
    /\ peer \in [Conns -> {"new", "up", "down", "lost"}]
    /\ backlog \subseteq Conns
    /\ written \in [Conns -> Nat] /\ consumed \in [Conns -> Nat]

Pending(c) == header_reads[c] + payload_reads[c]

\* A session has at most one read in flight: one outstanding operation or one
\* handler, never both. header_read_buffer and the stream position are shared by
\* all reads of the session and nothing else protects them.
OneReadInFlight ==
    \A c \in Conns :
        /\ Pending(c) <= 1
        /\ Pending(c) = 1 => Reading(c) = {}
        /\ \A v, w \in Reading(c) : v = w

\* A running session always goes on reading, and nothing reads any more on behalf
\* of a session that was stopped: is_running, checked when a handler starts, always
\* agrees with the read chain.
RunningIffReading ==
    \A c \in Conns :
        c \in running <=> \/ Pending(c) > 0
                          \/ \E w \in Reading(c) : pc[w] # "disconnect"

\* A header read starts at a packet boundary and a payload read right after a
\* header: the stream is never taken apart in the wrong place.
Framing ==
    \A c \in Conns :
        /\ header_reads[c] > 0 => consumed[c] % 2 = 0
        /\ payload_reads[c] > 0 => consumed[c] % 2 = 1

Accepting == {w \in Workers : pc[w] \in AcceptPcs}

\* There is never more than one accept, outstanding or being handled: the accept
\* handler has the counter and the acceptor to itself.
SingleAccept ==
    /\ accept_ops <= 1
    /\ accept_ops = 1 => Accepting = {}
    /\ \A v, w \in Accepting : v = w

\* While no accept fails with a severe error, the running server never stops
\* accepting, whatever happened to the connections before.
KeepsAccepting ==
    is_running /\ "other" \notin AcceptErrors => accept_ops = 1 \/ Accepting # {}

\* No two sessions that are alive or registered share an id ("세션의 고유 id").
Known(c) == c \in running \/ \E i \in Ids : connections[i] = c

SessionIdsUnique ==
    \A c, d \in Conns :
        Known(c) /\ Known(d) /\ session_id[c] = session_id[d] => c = d

\* A running session is found in the map under its id from the moment its accept
\* handler has inserted it, and is missing again only while a handler of its own, which
\* has evicted it, is about to stop it: no other session's insert or disconnect takes
\* its place.
RunningSessionRegistered ==
    \A c \in running :
        \/ connections[session_id[c]] = c
        \/ \E w \in Workers : at[w] = c /\ pc[w] \in {"insert", "stop"}

\* Every thread queues a client's packets in the order in which they were sent,
\* although the strand runs on whichever thread is free.
RequestsInOrder ==
    \A w \in Workers : \A i, j \in DOMAIN requests[w] :
        LET p == requests[w][i].packet
            q == requests[w][j].packet
        IN i < j /\ p[1] = q[1] => p[2] < q[2]

Slots == UNION {{w} \X DOMAIN requests[w] : w \in Workers}
RequestIn(slot) == requests[slot[1]][slot[2]]
SlotsOf(c) == {slot \in Slots : RequestIn(slot).packet[1] = c}

\* Whichever threads queue them, the packets a session has read whole are all
\* queued, each exactly once, and carry that session's id.
RequestsComplete ==
    \A c \in Conns :
        /\ {RequestIn(slot).packet[2] : slot \in SlotsOf(c)} = 1 .. consumed[c] \div 2
        /\ Cardinality(SlotsOf(c)) = consumed[c] \div 2
        /\ \A slot \in SlotsOf(c) : RequestIn(slot).session_id = session_id[c]

\* The session map holds no session that has stopped, except while that session's
\* last handler is still on its way to erase it ("세션 관리 맵").
DeadSessionsLeave ==
    \A i \in Ids : connections[i] # NoConn =>
        connections[i] \in running \/ Reading(connections[i]) # {}

\* No client is left hanging: a session socket that is open belongs to a session
\* that is reading, is being evicted or is still held by its accept handler.
OpenSocketServed ==
    \A c \in open : c \in running \/ \E w \in Workers : at[w] = c

\* A connection in the backlog is accepted or given up, unless the server stops.
BacklogDrains ==
    \A c \in Conns : c \in backlog ~> c \notin backlog \/ ~is_running

\* The socket of a client whose close or reset has come is closed, unless the server
\* stops. Nothing is said of lost links: such a socket stays open until ~tcp().
DeadPeersClosed ==
    \A c \in Conns : c \in open /\ peer[c] = "down" ~> c \notin open \/ ctx_stopped

\* A packet that has come whole to a session is queued, unless that client closes or
\* resets the connection, the session is evicted or the server stops.
PacketsQueued ==
    \A c \in Conns, n \in 1 .. MaxPackets :
        c \in running /\ written[c] >= 2 * n
            ~> consumed[c] >= 2 * n \/ peer[c] = "down" \/ c \notin running \/ ctx_stopped

\* stop() followed by close() always comes to its end: every worker leaves its
\* handler and is joined.
StopCompletes == ~is_running ~> ~acceptor_open

=============================================================================
