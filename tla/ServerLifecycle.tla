-------------------------- MODULE ServerLifecycle --------------------------
(***************************************************************************)
(* The life of the process: tcp::start(), stop() and close() as main() and *)
(* the destructors call them, the io threads from their start to their     *)
(* join, and the singletons, which C++ destroys in the reverse order of    *)
(* their construction. The memory pool is constructed by the io thread     *)
(* that reads the first header.                                            *)
(*                                                                         *)
(* The initial state is main() in front of tcp.start(): log, time, tcp and *)
(* engine exist, and tcp listens if it is a server. What the io threads    *)
(* and the frame loop do is reduced to the accept loop, the number of      *)
(* sessions that wait for a header, and where the blocks of the pool are;  *)
(* TcpSessions, MemoryPool and RequestDispatch have it in full.            *)
(***************************************************************************)
EXTENDS Integers, Sequences, FiniteSets

CONSTANTS
    Threads,      \* bound: std::threads that may ever be started
    ThreadCount,  \* threads start() creates: hardware_concurrency() - 1
    Blocks,       \* the pool's blocks
    Restarts,     \* whether tcp is started again after it was stopped
    SevereErrors, \* whether an accept may fail with an error that is severe
    MaxSessions   \* bound: so many wait for a header, and no other client connects

ASSUME LifecycleAssumption ==
    /\ IsFiniteSet(Threads)
    /\ ThreadCount \in Nat
    /\ Restarts \in BOOLEAN /\ SevereErrors \in BOOLEAN
    /\ MaxSessions \in Nat

VARIABLES
    main,           \* where the main thread is
    built,          \* the singletons alive, in the order of their construction
    is_running,     \* tcp::is_running
    ctx_stopped,    \* io_context::stop() has been called
    acceptor_open,  \* the acceptor is listening
    accept_ops,     \* outstanding async_accept operations
    header_reads,   \* outstanding async_read operations of a header
    thread,         \* the state of every std::thread
    block           \* where every block is

flags == <<is_running, ctx_stopped, acceptor_open>>
vars  == <<main, built, flags, accept_ops, header_reads, thread, block>>

Alive(s) == \E i \in DOMAIN built : built[i] = s

Unused == {t \in Threads : thread[t] = "unused"}

\* tcp::mode: init(port) makes a server and its acceptor, which lives until close();
\* init(host, port) makes a client and no acceptor.
IsServer == acceptor_open

\* A block whose last shared_ptr goes away is pushed on its stack, by a deleter that
\* does not know whether the pool is still there.
GivenBack == IF Alive("pool") THEN "pooled" ELSE "lost"

\* The function-local static in ts_memory_pool::get_instance(): constructed once.
ConstructAgain == built' = Append(built, "pool")
ConstructPool  == built' = IF Alive("pool") THEN built ELSE Append(built, "pool")

\* When io_context::run returns, and when stop() has waited for all of them.
RunOutOfWork == ctx_stopped /\ accept_ops = 0
RunEnds      == ctx_stopped

\* A thread in run(): it waits there, or is in an accept handler, or about to rent.
InRun == {"run", "create", "rearm", "rent"}

NotAwaited  == TRUE
AllJoinable == \A t \in Threads : thread[t] \notin InRun

-----------------------------------------------------------------------------
\* tcp::start(): flag, accept, threads. Nothing restarts the context, and a client
\* connects to nobody.
StartTcp ==
    /\ is_running' = TRUE
    /\ accept_ops' = IF IsServer THEN accept_ops + 1 ELSE accept_ops
    /\ \E S \in SUBSET Unused :
          /\ Cardinality(S) = ThreadCount
          /\ thread' = [t \in Threads |-> IF t \in S THEN "run" ELSE thread[t]]
    /\ UNCHANGED <<built, ctx_stopped, acceptor_open, header_reads, block>>

Start == main = "ready" /\ StartTcp /\ main' = "loop"

Restart == Restarts /\ main = "loop" /\ ~is_running /\ StartTcp /\ UNCHANGED main

-----------------------------------------------------------------------------
(* The io threads. Nothing but the accept handler looks at tcp::is_running. *)

\* A completion is handed to a thread that waits in run().
CanRun(t) == thread[t] = "run" /\ ~ctx_stopped

\* A client was accepted; if the server is stopping, that ends the accept loop.
Accepted(t) ==
    /\ CanRun(t) /\ accept_ops > 0 /\ header_reads < MaxSessions
    /\ accept_ops' = accept_ops - 1
    /\ thread' = IF is_running THEN [thread EXCEPT ![t] = "create"] ELSE thread
    /\ UNCHANGED <<main, built, flags, header_reads, block>>

\* A severe error ends it too; after any other the next accept is armed at once, and
\* nothing has changed.
AcceptFailed(t) ==
    /\ CanRun(t) /\ accept_ops > 0 /\ SevereErrors
    /\ accept_ops' = accept_ops - 1
    /\ UNCHANGED <<main, built, flags, header_reads, thread, block>>

\* The session of the client is made and started.
CreateSession(t) ==
    /\ thread[t] = "create"
    /\ thread' = [thread EXCEPT ![t] = "rearm"]
    /\ header_reads' = header_reads + 1
    /\ UNCHANGED <<main, built, flags, accept_ops, block>>

AcceptNext(t) ==
    /\ thread[t] = "rearm"
    /\ thread' = [thread EXCEPT ![t] = "run"]
    /\ accept_ops' = accept_ops + 1
    /\ UNCHANGED <<main, built, flags, header_reads, block>>

\* A session's header was read, and connection::is_running, which tcp::stop() leaves
\* alone, is true: the thread is about to call ts_memory_pool::get_instance().
HeaderRead(t) ==
    /\ CanRun(t) /\ header_reads > 0
    /\ thread' = [thread EXCEPT ![t] = "rent"]
    /\ header_reads' = header_reads - 1
    /\ UNCHANGED <<main, built, flags, accept_ops, block>>

\* The header does not come any more: that was the session's last read.
HeaderFailed(t) ==
    /\ CanRun(t) /\ header_reads > 0
    /\ header_reads' = header_reads - 1
    /\ UNCHANGED <<main, built, flags, accept_ops, thread, block>>

\* The first get_instance() constructs the pool; a block goes with the payload read.
RentBlock(t, b) ==
    /\ thread[t] = "rent" /\ block[b] = "pooled"
    /\ thread' = [thread EXCEPT ![t] = "run"]
    /\ ConstructPool
    /\ block' = [block EXCEPT ![b] = "read"]
    /\ UNCHANGED <<main, flags, accept_ops, header_reads>>

\* The pool has no block to give: the session is evicted.
RentFails(t) ==
    /\ thread[t] = "rent"
    /\ thread' = [thread EXCEPT ![t] = "run"]
    /\ ConstructPool
    /\ UNCHANGED <<main, flags, accept_ops, header_reads, block>>

\* A payload was read: its packet is queued and the session waits for the next header.
PayloadRead(t, b) ==
    /\ CanRun(t) /\ block[b] = "read"
    /\ block' = [block EXCEPT ![b] = "queued"]
    /\ header_reads' = header_reads + 1
    /\ UNCHANGED <<main, built, flags, accept_ops, thread>>

\* The client is gone: the session ends and gives the block back.
PayloadFailed(t, b) ==
    /\ CanRun(t) /\ block[b] = "read"
    /\ block' = [block EXCEPT ![b] = GivenBack]
    /\ UNCHANGED <<main, built, flags, accept_ops, header_reads, thread>>

\* run() returns once the context is stopped, even for a thread that has just begun.
RunReturns(t) ==
    /\ thread[t] = "run" /\ RunEnds
    /\ thread' = [thread EXCEPT ![t] = "ended"]
    /\ UNCHANGED <<main, built, flags, accept_ops, header_reads, block>>

-----------------------------------------------------------------------------
(* The main thread: the frame loop and, after it, static destruction.      *)

Dispatch(b) ==
    /\ main = "loop" /\ block[b] = "queued"
    /\ block' = [block EXCEPT ![b] = GivenBack]
    /\ UNCHANGED <<main, built, flags, accept_ops, header_reads, thread>>

\* A packet handler calls tcp::stop(), which the loop's condition is there for; a
\* second call in the same frame would change nothing.
CallStop ==
    /\ main = "loop" /\ is_running
    /\ is_running' = FALSE
    /\ main' = "stop"
    /\ UNCHANGED <<built, ctx_stopped, acceptor_open, accept_ops, header_reads, thread, block>>

StopContext ==
    /\ main = "stop"
    /\ ctx_stopped' = TRUE
    /\ main' = "join"
    /\ UNCHANGED <<built, is_running, acceptor_open, accept_ops, header_reads, thread, block>>

\* stop() returns to the handler that called it, or to ~tcp(), which runs when the
\* engine is gone already.
Caller == IF Alive("engine") THEN "loop" ELSE "close"

Join ==
    /\ main = "join" /\ AllJoinable
    /\ thread' = [t \in Threads |-> IF thread[t] = "ended" THEN "joined" ELSE thread[t]]
    /\ main' = Caller
    /\ UNCHANGED <<built, flags, accept_ops, header_reads, block>>

LeaveLoop ==
    /\ main = "loop" /\ ~is_running
    /\ main' = "exit"
    /\ UNCHANGED <<built, flags, accept_ops, header_reads, thread, block>>

Last == built[Len(built)]
DestroyLast == built' = SubSeq(built, 1, Len(built) - 1)

\* ~ts_memory_pool() frees the blocks that are on its stacks.
DestroyPool ==
    /\ main = "exit" /\ built # <<>> /\ Last = "pool"
    /\ DestroyLast
    /\ block' = [b \in Blocks |-> IF block[b] = "pooled" THEN "freed" ELSE block[b]]
    /\ UNCHANGED <<main, flags, accept_ops, header_reads, thread>>

\* ~game_engine(), ~time() and ~log() do nothing.
DestroyOther ==
    /\ main = "exit" /\ built # <<>> /\ Last \in {"engine", "time", "log"}
    /\ DestroyLast
    /\ UNCHANGED <<main, flags, accept_ops, header_reads, thread, block>>

\* ~tcp() calls stop() ...
DestroyTcp ==
    /\ main = "exit" /\ built # <<>> /\ Last = "tcp"
    /\ is_running' = FALSE
    /\ main' = "stop"
    /\ UNCHANGED <<built, ctx_stopped, acceptor_open, accept_ops, header_reads, thread, block>>

\* ... and close(); then its members go: the queue, the sessions and the context
\* with the handlers of reads that never ended, and with them their blocks.
CloseTcp ==
    /\ main = "close"
    /\ acceptor_open' = FALSE /\ accept_ops' = 0 /\ header_reads' = 0
    /\ DestroyLast
    /\ block' = [b \in Blocks |-> IF block[b] \in {"read", "queued"} THEN GivenBack ELSE block[b]]
    /\ main' = "exit"
    /\ UNCHANGED <<is_running, ctx_stopped, thread>>

-----------------------------------------------------------------------------
Init ==
    /\ main = "ready"
    /\ built = <<"log", "time", "tcp", "engine">>
    /\ is_running = FALSE /\ ctx_stopped = FALSE
    /\ acceptor_open \in BOOLEAN /\ accept_ops = 0 /\ header_reads = 0
    /\ thread = [t \in Threads |-> "unused"]
    /\ block = [b \in Blocks |-> "pooled"]

IoStep(t) ==
    \/ Accepted(t) \/ AcceptFailed(t) \/ CreateSession(t) \/ AcceptNext(t)
    \/ HeaderRead(t) \/ HeaderFailed(t) \/ RentFails(t) \/ RunReturns(t)
    \/ \E b \in Blocks : RentBlock(t, b) \/ PayloadRead(t, b) \/ PayloadFailed(t, b)

\* What the main thread does once stop() has been called.
Ending ==
    \/ StopContext \/ Join \/ LeaveLoop
    \/ DestroyPool \/ DestroyOther \/ DestroyTcp \/ CloseTcp

Next ==
    \/ Start \/ Restart \/ CallStop \/ Ending
    \/ \E b \in Blocks : Dispatch(b)
    \/ \E t \in Threads : IoStep(t)

Spec == Init /\ [][Next]_vars

\* Every thread is scheduled; nobody has to call stop(), and nobody to send packets.
FairSpec ==
    /\ Spec
    /\ WF_vars(Start) /\ WF_vars(Ending)
    /\ \A t \in Threads : WF_vars(IoStep(t))

-----------------------------------------------------------------------------
(* Properties.                                                             *)

TypeOK ==
    /\ main \in {"ready", "loop", "stop", "join", "exit", "close"}
    /\ built \in Seq({"log", "time", "tcp", "engine", "pool"})
    /\ \A i, j \in DOMAIN built : built[i] = built[j] => i = j
    /\ is_running \in BOOLEAN /\ ctx_stopped \in BOOLEAN /\ acceptor_open \in BOOLEAN
    /\ accept_ops \in Nat /\ header_reads \in Nat
    /\ thread \in [Threads -> {"unused", "ended", "joined"} \cup InRun]
    /\ block \in [Blocks -> {"pooled", "read", "queued", "freed", "lost"}]

\* No io thread runs any more when the first singleton is destroyed, and all are
\* joined when tcp goes: else a destroyed pool would be rented from, or ~thread()
\* would end the process. It holds however often tcp was stopped and started.
ThreadsGoneFirst ==
    \A t \in Threads :
        /\ main \in {"exit", "close"} => thread[t] \notin InRun
        /\ ~Alive("tcp") => thread[t] \in {"unused", "joined"}

\* Once stop() has been called the process comes to its end, unless tcp is started
\* again: all threads joined, the acceptor closed and every singleton destroyed.
StopEndsProcess == main = "stop" ~> (built = <<>> /\ ~acceptor_open) \/ is_running

\* A server that has been started accepts ("시작 (서버: accept 루프 / ...)"): an accept
\* is outstanding or being handled, and a thread is there for the next one.
StartedServerAccepts ==
    main = "loop" /\ is_running /\ IsServer =>
        /\ accept_ops > 0 \/ \E t \in Threads : thread[t] \in {"create", "rearm"}
        /\ ~ctx_stopped /\ \E t \in Threads : thread[t] \in InRun

\* Every block is given back to a pool that is still there, so that ~ts_memory_pool()
\* frees them all ("풀에 남아 있는 모든 블록들을 안전하게 해제합니다").
BlocksComeBackInTime == \A b \in Blocks : block[b] # "lost"

=============================================================================
