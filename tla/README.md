# Verification of us2d_server

TLA+ models, TLC runs and TLAPS proofs for the game server in `src/src` (C++, Windows,
Boost.Asio on an I/O completion port): some 1,600 lines of hand-written code. `src/include`
holds 3.4 million lines of vendored libraries; they are modelled only where the server's own
use of them matters.

## The system

| Part | State it keeps | Operations | Talks to |
|---|---|---|---|
| `net::core::tcp` (singleton) | `is_running`, the `io_context` and its threads, the acceptor, `connection_id_counter`, the map `connections`, the queue `requests` | `init`, `start`, `stop`, `close`, the accept handler and its error handlers, `disconnect` | creates `connection`s, is called back by them, read by `game_engine` |
| `net::core::connection` (one per session, held by `shared_ptr`) | `is_running`, socket, strand, `connection_id`, `header_read_buffer` | `start`, `stop`, `close`, header read, payload read, error handlers | rents from the pool, fills `requests`, calls `tcp::disconnect` |
| `net::common::ts_memory_pool` (singleton) | seven lock-free stacks of free blocks | `rent`, the deleter of the `shared_ptr`s it returns, destructor | rented by io threads; released by whichever thread drops the last reference |
| `net::common::ts_map` | an `unordered_map` and a `shared_mutex` | `insert`, `erase`, `get`, `find`, `contains` | used by `tcp` |
| `net::packet` | the map of handlers by packet id | `register_typed_handler`, `dispatch` | filled by static initialisers of `net.logic`, used by `game_engine` |
| `game_engine` (singleton, main thread) | `is_running`, `game_objects`, `pending_objects` | `update`, `dispatch_request`, `instantiate` | empties `requests` |
| `main` and the singletons | construction and destruction order | frame loop | everything |
| `rudp`, `input`, `time`, `log`, `system_config` | - | - | `rudp` is a stub, `input` is unused, the others are I/O |

Threads: the main thread runs the frame loop; `hardware_concurrency() - 1` io threads run
`io_context::run`. They share the session map, the request queue, the pool, and the
sessions, whose read handlers a strand keeps apart.

What is hard here, and what makes each part correct:

* **accept loop and sessions.** A session is started on one io thread while its handlers may
  already run on others; it can die before it is registered. Correct means: one accept at a
  time and always one; one read in flight per session, at the right place in the stream;
  running sessions registered, dead ones not; ids unique; every packet queued once; no
  socket left open with nobody reading it; `stop()` comes to its end.
* **pool.** `rent` looks at the stack, at the RAM and at the heap in three steps; blocks come
  back on any thread. Correct means: no block with two users, none lost, none too small,
  and growth bounded although nothing is ever deleted.
* **queue and dispatcher.** FIFO per enqueuing thread only; a cap per frame; requests outlive
  their sessions.
* **life of the process.** Two modes, start/stop/close, and static destruction in the reverse
  order of first use.

The hazards, each at its line and with the properties that cover it, are in `PROJECT.json`.

## Modules

| Module | What it is |
|---|---|
| `TcpSessions` | `tcp` in server mode with its `connection`s, from the state `start()` leaves behind to the end of `close()` |
| `MCTcpSessions` | constant sets for its runs |
| `TcpSessionsProofs` | its theorems on types, read chains and the accept |
| `SessionMapProofs` | its theorems on ids, the session map and sockets |
| `RequestQueueProofs` | its theorems on the request queue |
| `MemoryPool` | `ts_memory_pool`, every step of `rent` |
| `BlockAllocator` | what the pool promises its users; `MemoryPool` is shown to implement it |
| `MCMemoryPool` | constants for its run |
| `MemoryPoolProofs` | its theorems |
| `RequestDispatch` | `TcpSessions` composed with the main thread's frame loop, which empties the queue |
| `PacketDelivery` | what the server promises for a client's packets; `RequestDispatch` is shown to implement it |
| `MCRequestDispatch` | constants for its run |
| `RequestDispatchProofs` | its theorems |
| `PacketMemory` | `RequestDispatch` composed with `MemoryPool`: the block of every packet, from its rent to the last `shared_ptr` |
| `MCPacketMemory` | constants for its run |
| `PacketMemoryProofs` | its theorems |
| `TsMap` | `ts_map`: the shared mutex and the steps an operation takes under it |
| `AtomicMap` | what the map promises the threads that share it; `TsMap` is shown to implement it |
| `MCTsMap` | `TsMap` for its run |
| `TsMapProofs` | its theorems |
| `ServerLifecycle` | start, stop, restart, close; threads and singletons from `tcp.start()` to the end of the process |
| `MCServerLifecycle` | constants for its runs |
| `ServerLifecycleProofs` | its theorems |

### `TcpSessions`

One client connection names the session made for it, because every accepted connection gets a
session of its own. State and code:

* `is_running`, `ctx_stopped` (`io_context::stop`), `acceptor_open`, `counter`, `connections`
  are the members of `tcp`; `accept_ops` counts outstanding `async_accept`s.
* `session_id`, `running` (`connection::is_running`), `open` (the socket), `header_reads` and
  `payload_reads` (outstanding `async_read`s) belong to the sessions. The reads are counted,
  so that a second one shows.
* `requests` has one FIFO per io thread, as moodycamel's queue keeps one per enqueuing thread.
  The block a request carries is named by the packet in it.
* `pc` and `at` say where each io thread is. A completion handler is cut wherever it touches
  something another thread can see. The accept handler: `Accepted` (`is_running` is checked),
  `CreateSession` (id, `make_shared`, `start()`, which arms the first read), `InsertSession`,
  `AcceptNext`. The read handlers: `HeaderRead`, then `RentBlock`, or `RentFails`, `Evict` (the
  erase) and `StopEvicted` (a step later: in between the session runs and is not registered);
  `PayloadRead` (which enqueues), `NextHeader`; `ReadFailed` (`stop`, `close`),
  `OnDisconnected`. Arming an operation and returning is one step: nothing after it in the
  handler touches shared state.
* `Referenced` is the reference count of a session's `shared_ptr`: handlers outstanding,
  handlers running, the map. When it falls to nothing the destructor closes the socket
  (`DestroyUnreferenced`, the last conjunct of every step that may drop a reference).
* `peer`, `backlog`, `written`, `consumed` are the environment: a client connects, writes
  headers and payloads alternately, and may vanish at any time, in one of two ways. Of a client
  that is `down` the host has received the close or the reset: a read fails, even if bytes are left, as
  after a reset. Of one that is `lost` nothing comes any more: the sockets have no
  keepalive, the server has no timer and never writes, so an outstanding read of it never
  completes (what had come before is still read).
* The three read error handlers are equal and so one action. Of the accept errors,
  `operation_aborted` and `connection_aborted` accept again and any other ends the loop; an
  aborted connection takes a dead client from the backlog.
* `ts_map` is atomic here: `InsertSession` and `Disconnect` are effects of `AtomicMap`, which
  `TsMap` implements.

In all modules, variants in front of a one-line operator (`ArmTwice` before `Arm`) are plausible
programming errors; the properties are tested against them.

### `MemoryPool` and `BlockAllocator`

`free[k][b]` counts how often block `b` is on the stack of pool `k`; the order on a stack
decides nothing, so `Pop` takes any block of it, and a count shows a double push. `rent` is
`Rent` (the choice of the pool), `Pop` or `PopEmpty`, `CanAllocate` or `CannotAllocate`,
`NewBlock`. Single pushes and pops are atomic, as the lock-free stack makes them. The RAM is
nondeterministic. `Release` is the deleter: `push` on a stack that is not of fixed size
allocates a node and returns true, so the branch that deletes the block never runs, and
blocks are never freed before the pool is destroyed. `peak` is a history variable: the
largest number of blocks of a pool ever rented or being asked for beyond an empty stack.

`BlockAllocator` knows only sizes, users and what they were promised: `Lend` a block that has
no user and is large enough, newly allocated or not, and `GiveBack`. A block keeps its size. `MemoryPool` implements it with
`size[b]` = the block size of its pool.

### `RequestDispatch` and `PacketDelivery`

Every step of `TcpSessions` is a step here (`NetStep`). The other steps are the main
thread's: `BeginFrame` and `LeaveLoop` (the loop's condition), `TryDequeue`, `Dispatch`,
`EndFrame`. `processed` and `request` are the locals of `dispatch_request`. The queue is
moodycamel's: a FIFO for each enqueuing thread, of which the library chooses one by their
lengths (any of them, in the model), and a semaphore, `available`, which `enqueue` signals
after it has filled the FIFO (`Signal`, between `PayloadRead` and `NextHeader`). The main thread
may take the request before the io thread has left its handler. What becomes of a dispatched packet (handled, no handler, invalid payload, an
exception that is caught) leaves the same state behind and is one action. `taken` and
`dispatched` are history variables.

`PacketDelivery` receives packets and delivers each at most once, in no particular order:
with several io threads the server does not keep the order of a client's packets, since two
successive packets may be on FIFOs of different threads. Within a thread's FIFO it is kept.

### `PacketMemory`

The variables of `RequestDispatch` and, through `Pool == INSTANCE MemoryPool`, those of the
pool, whose renting threads are the io threads; `block_of` is the block of each packet. A
header that was read asks for a block (`AskForBlock`: `HeaderRead` with `Pool!Rent`); the
thread looks for one (`LookForBlock`), gets it (`GetBlock`: `RentBlock` with `Pool!Pop` or
`Pool!NewBlock`), or does not (`GetNoBlock`), which a size above all pools makes certain. Any other step is
a step of the server that may let go of one packet (`LetGo`). `Held` spells out who has a
`shared_ptr` to a packet's block: the outstanding payload read; its handler, until it returns;
the request on the queue; and the main thread's local `request`, until it is overwritten or the
frame ends. The block goes back in the step in which the last of them lets go, on whichever
thread that is.

### `TsMap` and `AtomicMap`

An operation waits for `map_mutex` (exclusively in `insert` and `erase`, shared in the others),
finds its node, uses it, and unlocks as it returns. `operator[]` makes a node with a null value,
which the assignment then fills, so that `insert` is two steps. The keys do not touch each
other: one key has all the conflicts. `AtomicMap` has a single step between call and return. An
operation takes effect when it uses the node; a node that is not filled yet does not count
(`Filling`). Values are destroyed under the lock. The server's values are sessions, whose
destructor closes a socket and does not come back to the map.

### `ServerLifecycle`

The main thread walks through `main` = ready, loop, stop, join, (loop again,) exit and, for
`~tcp()`, stop, join, close, exit. `built` lists the singletons in the order in which they
were constructed; the last is destroyed first. The pool is appended by the first `RentBlock`
or `RentFails`. Sessions and packets are reduced to the number of sessions that wait for a
header (`header_reads`) and the place of each block: `pooled`, `read`
(held by a read in flight), `queued`, `freed` (by the pool's destructor), `lost` (pushed to a
pool that is gone). The accept loop is there in full: an accept that completes (`Accepted`) takes the
outstanding operation away, and only `AcceptNext` arms another; a severe error (`AcceptFailed`) or a
stopping server ends the loop. That handler is the only one that looks at `tcp::is_running`: the read handlers
test `connection::is_running`, which `tcp::stop()` leaves alone, and so go on renting and queueing between
`CallStop` and `StopContext`, and those that have been entered even after it. tcp is a server or, without an acceptor, a client; a client's `start()` runs threads
and connects to nobody, although `tcp.h:33` says so. `stop()` is called by a packet handler on the main thread; the repository
has no other caller besides `~tcp()`, and `main()`'s loop condition is there for one.

## Runs

| Run | Question | Instance |
|---|---|---|
| `sessions_safety` | do accept loop, read chains, map and queue stay in step? | 2 clients, 2 packets each, 2 io threads, all accept errors, pool may refuse |
| `sessions_one_worker` | with one io thread, do dead sessions leave and is every open socket served? | the same with 1 io thread |
| `sessions_liveness` | with several threads: is every open socket served, does accepting go on after aborted accepts; are clients accepted, the sockets of clients that closed or reset closed, packets queued; does `stop()` end? | 2 clients, 1 packet, 2 threads, pool never refuses, fairness, no symmetry |
| `zombie_session` | **violated**: a dead session stays in the map | 1 client, 2 threads |
| `session_id_wrap` | **violated**: two living sessions with one id | 3 clients, 1 thread, a counter of two values |
| `pool_safety` | are blocks exclusive, large enough, and their number bounded; is the pool an allocator? | 3 threads, 2 pools of 1 block, 2 blocks more |
| `dispatch_frames` | is every packet dispatched, once, in its thread's order, whatever the frames' threshold; is `PacketDelivery` implemented; does the frame loop end after `stop()`? | 1 client, 3 packets, 2 threads, frames of 2, fairness |
| `packet_memory` | has every packet a block of its own until the last thread lets go, is every block given back; does a request's session id name its sender, also when the session is gone? | 2 clients, 2 ids, 1 packet, 2 threads, 1 pool of 1 block, 1 block more |
| `map_lock` | is every operation of the map atomic, and does each holder of the lock give it back? | 3 threads, 1 key, 2 values, fairness |
| `lifecycle` | does an io thread outlive a singleton, over two starts and stops; does a stopped process come to its end? | 4 threads started 2 at a time, 2 blocks, 2 sessions waiting for a header, severe accept errors, fairness |
| `dead_restart` | **violated**: a restarted server accepts nobody | 4 threads, 2 at a time, no severe accept errors |
| `late_blocks` | **violated**: blocks come back to a destroyed pool | 2 threads, 2 blocks |

Bounds. `Conns`, `Workers`: two of each let every pair of handlers, of one or of two sessions,
interleave. `MaxPackets` is 2 or 3 where order and repetition matter (a chain of four reads) and 1 elsewhere. `IdSpace`
stands for 2^32 and `FirstId` for 10000; the passing runs have at least as many ids as clients, with
the wrap-around of the counter inside their range. `Blocks` bounds the allocations, and each
pool's growth past its filling occurs in the run. `Sizes` has the boundary of the smaller
pool, the size after it, and one too large for all; in `packet_memory` one that fits and one that does
not, and two blocks so that an empty stack, an allocation and a refusal all occur. `TsMap` needs no bound.
`MaxDispatch` (1024) is 2 so that three packets need two frames, or 1. `Threads` bounds how
often tcp can be started. `MaxSessions` bounds the sessions that wait for a header when a
client is accepted: with two, a stop finds reads of both kinds and an accept in all combinations.

`CHECK_DEADLOCK FALSE` is set for all runs but the pool's and the map's: after `close()`, or with every client
gone, nothing is left to do.

Fairness. Io threads are scheduled, so a handler that has been entered goes on
(`HandlerStep`) and a thread leaves a stopped context (`WorkerExits`); the completion port
delivers what has completed to some thread (`ReadCompletes`, `Accepted`). A read completes for
which the bytes, the close or the reset have come; no fairness makes a read of a lost client
fail, and `DeadPeersClosed` says nothing of such clients: their sockets stay open until `~tcp()`. The thread that
called `stop()` carries on (`StopContext`, `CloseAcceptor`). All of it is weak fairness.
The main thread is scheduled too (`MainStep`, `Ending`), and a thread in `enqueue` comes to signal
(`Signal`). In `TsMap` a thread that has called goes on (`Operation`), but no turn is promised to one
that waits: the mutex is not fair, and an endless succession of readers may keep a writer out.
Nothing is assumed of clients, of errors, of the pool or of `stop()` being called. The
liveness run excludes severe accept errors and a refusing pool, with which its properties
do not hold.

### What the violations show

* `zombie_session`: `tcp.cpp:100` starts the session, `tcp.cpp:101` inserts it. On another
  io thread the first read may fail in between; `disconnect` then erases nothing, and the
  insert registers a session that is already dead. It stays. If the first read succeeds and
  the pool refuses, the socket of that session is even left open (`OpenSocketServed` is
  therefore checked with one thread, or without refusals).
* `session_id_wrap`: the counter wraps around without regard to ids in use, and `insert`
  overwrites. It takes 2^32 accepted connections within the life of one session.
* `dead_restart`: `start()` does not restart the context that `stop()` stopped
  (`context.restart()`); its threads return from `run()` at once, `is_running` stays true.
  The same invariant fails at once with `ThreadCount = 0`: `hardware_concurrency() - 1`
  threads are none on one core.
* `late_blocks`: the pool is a function-local static first used by an io thread, later than
  tcp, and so destroyed earlier. Blocks in `tcp::requests` or in reads the context still
  holds are pushed on its destroyed stacks when `~tcp()` destroys those members.

## Proofs

For all values of the constants that satisfy the named assumptions.

`TcpSessionsProofs` (`ConstantsAssumption`):

* `TypeCorrect`. The type invariant is not inductive alone: the id in a queued request is one
  only because a running session has been given one (`Identified`).
* `OneReadAtATime`, `RunningMeansReading`, `StreamFramed`, `OneAcceptAtATime`. One inductive
  invariant, `ChainInv`: types, a single accept, `UnmadeUntouched` (a client that is not
  accepted yet, or whose session is not made yet, has no reads, no handlers and nothing
  consumed, so that `start()` arms the only read there is) and, for each session, `ChainOK`,
  which adds to the three properties the place in the stream at each step of a handler. A step that
  concerns another session keeps `ChainOK` by `ChainFrame`; the session's own steps leave
  it in one of two shapes (`ChainWaiting`, `ChainHandled`). It follows that the strand is a
  second line of defence: the chain alone keeps the handlers of a session apart up to the
  arming of the next read.

`MemoryPoolProofs` (`PoolAssumption`: ascending block sizes, finitely many threads and blocks):

* `BlocksInOnePlace`, `BlocksFit`, `PoolTypeCorrect` from `PoolInv`, which adds that a thread
  inside `rent` asks for a size some pool has. `PoolForFits` justifies the cascade of comparisons:
  there is a first pool that is large enough (by well-foundedness).
* `PoolIsAllocator`: initial states map to initial states, and each step to a step of
  `BlockAllocator` or a stutter.
* `PoolGrowthBounded`: when the stack was empty all blocks of the pool were rented, so the
  thread that goes on to allocate is covered by the demand of that moment; allocating only turns one
  asking thread into one more block.

`ServerLifecycleProofs` (`LifecycleAssumption`): `ThreadsGoneBeforeSingletons` and
`LifecycleTypeCorrect` from `LifeInv`. `ThreadsGoneFirst` speaks of the end only; what carries it there is
that `stop()` leaves a loop with no thread at work, that `~tcp()` reaches `close()` only after
its own join, and that tcp stays constructed as long as `main()` is not past its loop
(`AppendDistinct`, `FrontDistinct` for the order of construction). Two more theorems draw the line around what
`dead_restart` and `late_blocks` show:

* `FirstStartAccepts` from `StartedOnce`: with `ThreadCount > 0`, no restart and no severe accept error the context is
  not stopped while the loop runs, so no thread returns, and the accept is outstanding or some thread is in its
  handler. With a severe error the server does stop accepting, and keeps running. The invariant needs "not running while stopping", so that the loop is
  re-entered only to be left.
* `BlocksBackWhileServing` from `BlockInv`: the singletons alive are always a prefix of one order (`InOrder`), so
  their number is the stage of the process (`Stage`). A block taken from the pool means that the pool is
  there, until static destruction has begun; then no thread and no frame touches a block before tcp's own members go.

`TsMapProofs` (`MapAssumption`: the null value, "absent" and the values are different things):

* `MapTypeCorrect`: the type invariant, which ties the lock to the threads inside, is inductive alone.
* `MapIsAtomic` from `MapInv`, which adds `ThreadOK`: what a thread found when it looked for its node
  still holds when it uses it, and a node that an insert has made is null until it is filled. Both survive the
  steps of others because a writer is alone inside (`WriterAlone`, `OthersKept`). The use of the node is the atomic
  map's `Effect`, call and unlock its `Call` and `Return`, all other steps stutter: making a node does,
  because a node being filled counts as absent and nobody else is filling one (`FillingOwn`).

`SessionMapProofs` (`ConstantsAssumption`, on top of `ChainInv`):

* `AcceptingGoesOn`. With `ChainInv`, `KeepsAccepting` is inductive.
* `IdsUnique`, `SessionsRegistered` from `IdsInv`: `SessionsNamed` (what is registered under an id
  has that id, and only sessions that were made are at work or registered) and `IdsDistinct`. `Place(i)`
  is how many ids the counter gives out before `i`; a session's id has a place below the number of sessions
  made, and the counter's place is that number. So ids differ across the wrap-around too. That a
  running session stays registered, until a handler of its own has evicted it and is about to stop it, needs
  them to differ: another's `insert` or `disconnect` touches another entry, and a handler waits where it is
  (`HandlerWaits`, `StopPending`) while others come between its steps. Both hold while `IdsLast`, no more sessions made than there are ids; `session_id_wrap`
  shows that the code promises no more.
* `IdsReusedLate`: both hold without `IdsLast` under the weaker `IdsNotReused`, that the counter never gives out an id
  which a session in memory still has; this is what a server that runs for years can rely on. The invariant is `HeldInv`:
  sessions somebody refers to have ids of their own (`HeldDistinct`), and one that nobody refers to
  never comes back (`HeldBefore`).
* `DeadLeave` if `OneThread`, `OpenServed` if `OneThread` or `NoRefusals` (of the pool), from
  `LeftoverInv`: with one thread the session of an accept handler runs until the handler is done
  (`StartedRuns`), an evicted one stays off the map until it is stopped (`EvictedOffMap`), and no socket is open of
  a session that does not run. `zombie_session` shows that
  with two threads the first does not hold.

`RequestQueueProofs`: `QueuedInOrder`, `QueuedCompletely` from `QueueInv`. A queued packet was received and
carries its session's id (`RequestsSound`), is queued once (`RequestsDistinct`), and every received
one is there (`RequestsThere`). By `ChainInv` a packet is queued when its session has an
odd number of reads behind it and runs, so each adds the next number to its client's (`PacketSlot`); what is
counted is a bijection of slots and numbers. `QueueGrowth` states what all of this means to somebody who takes
requests away.

`RequestDispatchProofs` (with `DispatchAssumption`):

* `DispatchTypeCorrect` from `ServerInv`: while the main thread dispatches it has a request, and
  its frame has room for one more.
* `SemaphoreTrue` from `SemaphoreInv`: a thread leaves `enqueue` only after it has signalled, so slots and
  semaphore, with the threads still to signal, grow and shrink together.
* `PacketsAccounted` from `AccountInv`: `RequestsSound` and `RequestsDistinct` again, `HandSound` and `DoneSound`
  (what is in hand or done was received and is in no other place) and `NothingLost`. Taking a request moves the slots
  behind it up by one (`SlotTaken`, `Before`). The second half of the property counts: three
  parts without overlap (`ThreeParts`).
* `OrderOfThreadKept` from `OrderInv`: what a thread's FIFO has passed on and what it still holds is one
  sequence (`Passage`), to which taking does nothing and queueing appends the largest number yet of its client.
* `ServerDelivers`: `ServerSpec` implements `PacketDelivery`. A packet that is delivered was received and is new,
  by `HandSound`.
* `IdNamesSender` from `SenderInv` (`AccountInv` and `IdsInv`): a request carries the id its sender was
  given, which is nobody else's while `IdsLast`.

`PacketMemoryProofs` (with `MemoryAssumption`: the pool's assumption, and that "no block" is none):

* `PacketsKeepBlocks`, `BlocksFollowTraffic` from `MemoryInv`: `AccountInv`, `PoolOK` (what `MemoryPoolProofs` shows of
  the pool), `FrameSound` (the main thread's local is a request taken earlier, and empty between frames), `Bounded`,
  and `Owned`: each packet in `Held` has a block that is lent, its own, and each lent block has a packet
  in `Held`. The work is in `Held`, which is spread over reads, handlers, the queue and the
  main thread: only `RentBlock` adds to it, and a packet it did not have (`RentHeld`); a read that completes or fails
  passes its packet on (`PayloadHeld`, `FailedHeld`), as `TryDequeue` does (`MainHeld`), and everything else
  only lets go (`NetHeld`, `QuietHeld`, `HeaderHeld`).
* `MemoryComposes`: the composition implements both `ServerSpec` and the pool's own `Spec`, so that it adds
  nothing to either, and blocks are given back only while they are lent. The prover does not hand on theorems
  through a renaming INSTANCE; therefore `PoolOK` and its steps are proved here again.

Only model-checked: the liveness properties (`BacklogDrains`, `DeadPeersClosed`, `PacketsQueued`, `StopCompletes`,
`PacketsDispatched`, `LoopEnds`, `StopEndsProcess`, `LockReleased`), which are out of the prover's reach. Every
invariant and every refinement a passing run checks is also a theorem. The properties of the four
violation runs do not hold, and a theorem says of each under which conditions it does (`DeadLeave`, `IdsUnique`,
`FirstStartAccepts`, `BlocksBackWhileServing`).

## Not modelled

* Vendored libraries (`src/include`): third-party code, by far most of the repository's lines, so that the
  mapped lines are a tiny share of all its lines. What the server uses of them is modelled from
  that use: `io_context`, strands and sockets, the lock-free stack, the queue with its
  semaphore, `shared_ptr`, `shared_mutex`.
* The generated flatbuffers code; whether a payload verifies decides nothing the models keep.
* Game objects and components: `instantiate()` and `add_component()` have no caller, nothing
  fills `game_objects`, and so `update()` ends after `dispatch_request`. (If it were called:
  `pending_objects` is never moved to `game_objects`.)
* `input`: nothing uses it. `rudp`: a stub without state.
* `time`, `log`, CPU sampling in `system_config`: I/O.
* The registration of packet handlers, by static initialisers before `main()`; the only handler
  is empty.
* Allocation failures outside the pool. An exception that leaves a completion handler ends the
  process; an `enqueue` that fails for want of memory would drop a packet unnoticed.
* Data races inside the libraries; the atomics of the server are sequentially consistent in the
  models (the only weaker order, the release of `connection_id_counter`'s `fetch_add`, is on one variable).

## Plan

The models cover the server's code, and its safety properties are proved. Left to do: `IdNamesSender` still
assumes `IdsLast`, because a request may outlive its session; under a condition like `IdsNotReused` that
counts queued requests among the holders of an id it should hold for any number of sessions.
