# Verification of the chat server

The repository holds a small instant-messaging system in C: a server
(`src/src/IMServer.c`), a client (`src/src/IMClient.c`) and the parts they share. This
project models the server's threads, the client program, the two together, the byte
handling and the memory pool in TLA+, checks the models with TLC on small instances, and
proves with TLAPS, for all sizes, every safety property the passing runs check: the life of
the clients' memory, who gets which message, the byte handling, the pool and the client.

## The system

| part | state | operations | interacts with |
|---|---|---|---|
| listening thread, `handle_listen` | the connection being accepted | accept, add to the list, start the two other threads, join them | list of clients, `main` |
| reading thread, `read_sockets` | a copy of the list with poll entries, the lines of the current socket, the message being delivered | copy the list, `poll`, fetch lines, login, deliver to all, mark FAIL, set the flush flag | list, names, `pub`, writing buffers |
| writing thread, `write_sockets` | its own copy of the list | flush writing buffers, log out the clients marked FAIL (remove, announce, close, free), wait up to 100 ms | list, writing buffers, sockets, memory of the clients |
| `ServerInfo` | list of clients, count, `is_running`, `sign_to_flush_msg` | every access under a mutex | all threads |
| `ClientInfo`, `entity/client_info.c` | name, `pub`, socket, reading and writing buffer, spin lock | create, rename, fetch bytes, fetch a line, queue a message, flush, release | buffers, kernel |
| messages, `entity/message.c` | target, name to leave out | build, filter | server threads |
| buffer, `io/buffer.c` | a list of 512-byte nodes with a read and a write offset | append from a socket or memory, read, write to a socket, search, measure, destroy | cache pool |
| cache pool, `io/cache.c` | free lists by size class, built by the first call; all caches ever made | initialise, get, recycle, release | buffer, both server threads |
| client program, `IMClient.c` | `is_online`, one buffer | connect, send LOGIN, poll terminal and socket, send what is typed, show what arrives | terminal, server |
| `list.h`, `net_util.c`, logging, build | none of interest | | |

What is hard here: three threads share raw pointers in copies of one list, without a
reference count, and one of them frees what the pointers point to; descriptor numbers are
reused while old copies of the list are in use; names are changed without a lock; a
blocking `write` runs under a spin lock; a flag and a condition variable with a timeout
decide when messages are flushed; every buffer operation can stop half-way for want of
memory; several comparisons of a `size_t` with 0 or -1 make error paths behave otherwise
than they read; caches go from thread to thread and come back to a pool that reads past its
table of sizes and uses a node it has freed; and the client, with one thread, is deaf while
it is blocked in `write`. `PROJECT.json` lists each of these at its line under `hazards`.

What makes each part correct:

* list and clients: no pointer is used after its client was freed, no client leaves the
  list but by its own logout, the count is the length of the list;
* delivery: the messages of one client reach another in order and once, never their sender
  nor a client that has not logged in, a direct message only its target, a message to all
  and a logout notice everyone online;
* progress: a client that left is logged out, a line that arrived is handled, a queued
  message is written;
* buffer: bytes leave in the order they came, none lost, none twice; after a failure none
  skipped;
* framing: the server handles exactly the lines the peer sent;
* cache pool: a cache has one owner, is zeroed and large enough, and comes back to the list
  of its own size; the pool grows with demand only;
* client: what is typed arrives, as the lines that were typed and addressed as typed; what
  arrives is shown; no read blocks; the program ends when the server does.

## The modules

**`IMServer`** models the four threads and the kernel's side of the sockets. A connection
is a number in the order of `accept`; it names the socket, its `ClientInfo` and the peer.
Every block between `MUTEX_LOCK` and `MUTEX_UNLOCK` is one step, as the list, the count
and the flag are touched nowhere else; every step of a loop over a copy of the list is a
step of its own, since the other threads run between them. `mem` says whether a
`ClientInfo` is live or freed, `opened` which descriptors the process holds, `sock` and
`room` what the kernel knows of a connection. `writing_lock` is the spin lock that
`flush_messages` holds across `write`; the reading thread's delivery waits for it.
`rpc`, `wpc` and `lpc` are the program counters of the threads; their values are named
after what the thread does next. `PollList` is the debug listing before `poll`, which
`common.h` compiles in (`__DEBUG__`): it reads every `ClientInfo` of the copy, freed or not,
and what reading a freed one does is left open. A message for which memory runs out is lost
or cut short (`DeliverOne`, `LogoutDeliver`); as a message is its origin, one that is cut
short is in the queue like a whole one, with the failure counted in `faults`. A line of a client is a record with its command, the name
in it and its number; a message in a buffer is its origin (client, line number), and a
logout notice has the number after the client's last line. The history variables `out`
(what was written to a socket) and `due` (who was online when a notice was begun) appear
in no guard. `MCIMServer` gives the scripts the clients follow.

**`Buffer`** models `io/buffer.c`, one loop iteration per step. A byte is its position in
the stream of the bytes the buffer keeps, so a node is its first byte and its two offsets,
and a property of the bytes is arithmetic; what lies before offset 0 of a node is no byte of
the stream, and `stray` counts how many such bytes have left. `read_into_buffer` and `write_into_buffer` share
their actions (the code of the one is a copy of the other with `memcpy` for `read`);
`MeasureStep` and `CopyStep` are the two loops of `read_from_buffer`; `flush_messages`
calls `buffer_size` and `write_from_buffer` (`MeasureStep`, `WriteStep`). Allocation,
`read` and `write` may fail at every place where the code calls them, and the actions then
do what the code does, with the counters as `size_t`: a failed `write` adds -1 to
`r_offset` (`StepBack`), so that the next call sends a byte again or, if the offset was 0,
the byte of memory before the cache (`Sends`); a failed `read` takes what the call has read
out of the buffer, though the socket does not hold it any more, and stores `last_w_offset`
even if that is the sentinel -1, after which the model stops (`pc = "corrupt"`); and
`read_from_buffer` clears the result of its `malloc` unchecked, which without memory ends
the process (`CopyNoMemory`).

**`ByteQueue`** is what the callers may rely on: a queue that accepts bytes and hands them
out in order, once. `Buffer` implements it (`QueueSpec`): the bytes of a call count when
the call returns, and a failed `write`, the sentinel, or the crash without memory closes
the queue.

**`Framing`** models how bytes become lines: `fetch_from_client`, `find_in_buffer` and
`fetch_msg_from_client`, with the wrap-around of `size_t`. The content of the reading
buffer is an interval of byte positions and the first byte of its first node, which is
what `Buffer` is proved to be. Of the bytes only newlines and NULs matter: `index`, which
`check_command_suffix` calls, stops at a NUL (`StopsBefore`).

**`CachePool`** models `io/cache.c`. Every call runs under the module's spin lock and is one
step, except that `get_new_cache` frees the list node of the cache it takes and then reads
it: between the two (`TakeFirst`, `ReadFreedNode`) the `malloc` of another thread, which the
pool's lock does not exclude, may get that memory, and what follows is undefined
(`NodeReused` ends the model). `make_sure_cache_mm` runs over the *bytes* of
`specified_cache_size`, so that the table's classes are followed by `NOverread` classes of
arbitrary sizes (`Stray`). A cache is a number; its content is "zero" or "data".
`MCCachePool` gives the sizes.

**`Allocator`** is what `io/common_io.h` lets the callers rely on: who gets a cache has it
alone, zeroed and large enough, until it recycles it. `CachePool` implements it
(`AllocatorSpec`), with `get_new_cache` taking effect when it returns.

**`IMClient`** models the client program from `connect` to its end. The loop body is split
where the environment can act: `Poll`, the read of the terminal, the blocking `write`, the
handling of the socket. What one `read` of the terminal returns is a chunk: a line, a part
of a line (a long one, or ctrl-d in it), or an end of file. What goes to the server is a
sequence of tokens: LOGIN, prefixes and chunks. Any chunk may begin with an address, a
continuation too, and then goes without a prefix. The server is the environment: it sends,
reads and closes at any moment, and a socket closed with data unread is reset, which the
program may meet in `write`, `read` or `poll`.

**`Chat`** composes `IMServer` with `IMClient` processes as its peers. Of the client only
`cpc` is kept: whether it is in its loop or blocked in `write`, where it does not read;
`InCap` bounds what the server's end of a connection holds. `LockCycle` describes the one way
in which all three wait for each other. `MCChat` gives the scripts, and `LoggedIn`, the state
from which `chat_liveness` starts: two clients logged in, both threads at the beginning of a
round. `ChatSpec` reaches it (TLC finds it when its negation is given as an invariant); to
start there leaves room for scripts that fill the sockets in both directions.

**`ServerInvariants`** and **`ClientInvariants`** hold the inductive invariants of `IMServer`
and `IMClient`, so that the runs check what the proofs use.

**`IMServerProofs`** (the clients' memory), **`ServerTypeProofs`** and **`DeliveryProofs`**
(who gets which message), **`IMClientProofs`**, **`BufferProofs`**, **`FramingProofs`**,
**`CachePoolProofs`** and **`ChatProofs`** hold the theorems.

## Runs

| run | instance | what it shows |
|---|---|---|
| `server_threads` | 3 connections on 2 descriptors that log in, which the server announces to all, one of which writes to another; the second may leave at any point, which gives its number to the third; sockets that hold 2 messages; one failure of allocation, `pthread_create`, `poll` or `ioctl` anywhere | streams are ordered; no echo; nothing before login; without a failure a message to all, and a logout notice, reaches everyone who was online; a direct message reaches only its target; the list and the threads' copies of it stay sound, a logout by descriptor number never takes another client out; main waits for the threads; the inductive invariants of the proofs, `LifeInv` and `DeliveryInv`, hold |
| `chat_liveness` | 2 `IMClient` processes, logged in; one talks and may leave, the other types lines that are for nobody; sockets with room for 1 message each way, fairness | unless the three wait for each other for ever (`LockCycle`, which happens in this run): departed clients are logged out, lines handled, queued messages flushed, full sockets read |
| `buffer_queue` | nodes of 3 bytes, calls of up to 7, 8 bytes in all, 2 failures of any kind | the buffer's invariant, what the calls return, no byte skipped and at most one foreign byte sent for each failed `write`, no cache lost but by an empty read, refinement of `ByteQueue` |
| `framing_lines` | nodes of 3 bytes, lines of up to 5, 10 bytes in all, a NUL anywhere in one line | whole lines, in order; only lines that run over the first node, or with a NUL, are left, and they stay |
| `cache_pool` | 3 sizes, 2 ints read past them, 4 caches, calls for sizes 0, exact, between and largest | one place for every cache, the over-read classes stay empty, growth with demand only, refinement of `Allocator` |
| `client_loop` | 3 chunks typed, 1 message in two pieces, a server that reads slowly and may close, 1 failure | typed lines arrive whole and in order; no read blocks; the inductive invariant of the proofs holds; the program ends with the server; unless it stays blocked in `write`, input is sent and news shown |

Six runs end in a violation, each of something the repository says of itself:

* `server_dangling_target`: a client whose hang-up the reading thread saw is marked FAIL,
  and is still in the copy of the list that the thread takes for its next round; the writing
  thread logs it out and frees it; the debug listing before `poll` then reads its
  `socket_id`. In the same way a delivery, which takes a copy of its own, reads the `pub`
  field of a freed client. The comments call the copies the "client infos which need to be
  polled" and "all the online clients". `PolledClientsLive` says what does hold: the entries
  that are polled, that is those without the mark, are live.
* `server_broken_socket`: the failure of `write` is compared as a `size_t` and never seen,
  and the next flush writes to a broken pipe; no code handles `SIGPIPE`.
* `server_idle_writer`: `sign_to_flush_msg` is cleared only after a wait. Set while the
  writing thread is busy, it makes the thread skip the wait in every later round: it runs
  without a pause although there is nothing to do.
* `framing_whole_message`: `find_in_buffer` takes the result of the first node for final,
  as a `size_t` is always `>= 0`. A line that runs over the 512th byte is not found, nor is
  any line behind it: `BlockedForEver` shows that the client is never heard again.
* `chat_deadlock`: two clients talk faster than they are read. One is blocked in `write`,
  since the server does not read; the writing thread is blocked in `write` to that client
  and holds its `writing_lock`; the reading thread, which would read, spins on that lock to
  queue a message. Nobody moves again, although the README says that the client reads its
  socket whenever there is data in it. `chat_liveness` shows that there is no other way.
* `client_private`: after ctrl-d on an empty line the client writes `TO-ALL: ` without a
  newline; the user's next line, though it begins with `TO-C-name: `, follows it on the
  connection, and the server takes the two for one line to all. The program prints that such
  a line is sent "only" to that user.

### Bounds

Two clients are enough for the pairs the server properties speak of (sender and recipient,
leaver and witness, reader's copy and writer's logout); reuse of a descriptor needs a third
connection on two numbers. A script has a login, which is delivered like a message to all,
and at most one line, so that messages are queued before, during and after another client's
login, flush and logout. One client of the
three leaves, and a failure may make the server give up another; two that leave at will are
more than TLC can enumerate here, and are covered by the proofs, which bound nothing. A
socket that holds one or two messages makes `write` block. One failure in `server_threads`
lets any one thread give up, or any one client or message be dropped, at every point. In `Buffer` a call of 7 bytes over nodes of 3
spans up to four nodes, beginning anywhere in one; two failures allow a failed `write`
after a failed allocation. In `Framing` a line of 5 bytes covers a whole node with
neighbours on both sides; a NUL is in any place of any one line. In `CachePool` three sizes give a class below, at and above what
is asked for; the foreign ints are smaller than, equal to and larger than real sizes; four
caches allow one that is taken, one held and two in a list. In `IMClient` three chunks are a
bare prefix, or the part of a line, with a private line and the line after it; one message
in two pieces makes a read that leaves something for the next. In `Chat` room for one line
and one message is what makes both sides block soonest; of ann's three lines
one fills bob's socket, one is in the writing thread's `write` and one in the reading thread's
delivery, and of bob's two one fills the server's end and the other blocks him, so that
`LockCycle` is reached. The proofs do not have these bounds.

`CHECK_DEADLOCK FALSE` is given where the system may stop: the server model stops when the
process has ended, or when no peer connects, sends or leaves any more and main has
returned; the buffer after `destroy_buffer`; the framing model when the client is gone; the
pool after its release or the end of the process; the client program when it has ended.

### Fairness

`ChatFairness` assumes weak fairness of each thread: the scheduler runs a thread that can
move, `poll` and `pthread_cond_timedwait` have timeouts so waiting threads always can. It
assumes weak fairness of each client's process, which covers the return of a `write` for
which there is room and the read of the socket, but not the user: nothing makes a client
connect, type or leave. A client in `write` does not read, and neither the server's threads
nor a client are assumed to get out of a `write` or a lock that nobody ends: that is why the
properties of `chat_liveness` have the case `<>[]LockCycle`, which `chat_deadlock` shows to
be real, and why they are no more than `[]<>` of the good state otherwise. `FairSpec`, used by
`server_idle_writer` only, assumes nothing of the peers. In `IMClient` the program is fair
(in its steps without a failure) and nothing else is: neither the server's reading, which
the server does not guarantee, nor the user. `TypedIsSent` and `NewsIsShown` therefore have
the case that the program stays blocked in `write` (`Blocked`); `ServerGoneEnds` has none.
Failures are never fair.

## Proofs

`IMServerProofs` proves, for every number of connections and descriptors, every script,
every bound and every interleaving, `Spec => []LifeInv`, and from it `ClientListSound`,
`OnlineIsListed`, `PolledClientsLive` and `WriterClientsLive`. None of the four is inductive
alone: each thread works on a copy of the list, and is safe only because of what the others
may not do meanwhile. `LifeInv` (which the run `server_threads` checks) adds

* `ConnectionInv`: open descriptors differ, so `user_logout`, which looks for a number, finds
  exactly its own client (`MatchesItself`); only a client marked FAIL is freed;
* `PollingInv`: what the reading thread polls and has not passed is listed and *not marked*
  (an entry with a mark has descriptor -1 and is not polled). It marks clients itself, one at a time, passing each, and the writing thread logs out only
  marked ones;
* `VisitInv`: what the writing thread still has to visit is listed, except the client it is
  logging out, which is marked, live and already out of the list;
* `StartInv`: the writing thread is started once, after the reading thread.

The invariant says nothing of the marked entries of the polling copy, which the listing
before `poll` reads, nor of `rtargets`, the third copy, which may hold clients marked earlier
in the round: there the property fails (run `server_dangling_target`).
`ThreadsJoinedBeforeRelease` is proved from `JoinInv`: a joined thread has no further step.

`ServerTypeProofs` proves `TypeOK`, one lemma per action. `DeliveryProofs` builds on it and
on `LifeInv` and proves `Spec => []DeliveryInv`, and from it `StreamsOrdered`, `NoEcho`,
`SilentUntilLogin`, `ToAllReachesEveryone`, `LogoutAnnounced` and `DirectToTarget`, for every
number of clients and every script. What a client was sent (`Stream`) says nothing of what
is still to come, so the six properties are not inductive. `DeliveryInv` (which
`server_threads` checks) follows the lines on their way:

* `LinesInv`: the lines in a socket, and before them those in the reading thread's hands, are
  the ones the client sent, numbered without a gap; `Finished(s)` counts those of client `s`
  that are done with;
* `OriginInv`: every message that a client was sent is `Explained`: by a line that is
  finished, by the line in hand if the delivery has passed that client (it is not in
  `RWaiting`), or by the logout of a client that is freed or being logged out, if the notice
  has passed it (`WWaiting`). So a new message is later than all the ones of its source
  before it, whichever of the two threads queues it; the order and the single delivery
  follow;
* `NamesInv`, `RedirectInv`: a client without a LOGIN is called `Unknown`, which
  `filter_out` drops; the name left out is the one the sender has while its line is handled;
* `ReachInv`: as long as no allocation failed, whoever is to get a message to all, or a
  notice, has got it or is still to come in the thread's copy of the list. That a client
  added since the copy was taken cannot have logged in is what closes the argument: only
  the thread that delivers handles LOGIN lines;
* `TargetsInv`: no copy of the list names a client twice, so none is delivered to twice.

`DirectToTarget` has a hypothesis, `OneLogin`: a client that logs in twice changes its name,
and what it was sent under the first one stays with it. `IMClient` sends one LOGIN. The
first attempt at `LogoutAnnounced` failed for a reason: a client that is between `memset`
and `strncpy` of a second login has a blank name and gets no notice, although it was online
before; the property excludes it now.

`IMClientProofs` proves `Spec => []ClientInv`, and from it `TypeOK`, `ReadsDoNotBlock` and
`LinesWhole`, for any number of chunks, news and failures. `LinesWhole` speaks of what is on
the connection (`wire`); the invariant has to carry it over what was read and not written
yet (`buff`) and what was typed and not read yet (`tty`):

* `WellFormed` of `wire \o buff`: the property itself, for what will be on the connection;
* `Continues`: the chunk that the terminal holds next may follow: its line is the one that
  the last newline began, and no earlier chunk is missing. `Complete`: no prefix waits for
  its text;
* `TerminalInv`: the chunks on the terminal are numbered without a gap, and a line goes on
  until its newline;
* `EventsInv`: what `poll` announced is still there when the blocking `write` in between has
  returned, because nobody else reads the two descriptors.

`WellFormed(wire)` holds to the end; the rest only while the connection is up, as a failed
`write` drops what it was to send.

`BufferProofs` proves, for every node size, every bound and every set of failures,
`Spec => []BufferInv`, and from it `FrontIsNext`, `BackIsLast`, `ReadsWhatThereIs`,
`FlushEmpties`, `NothingSkipped`, the action property `CachesLostOnlyByEmptyRead` and the
refinement `QueueSpec`. None of them is inductive. `BufferInv` adds

* `Chain`: offsets inside the cache, every node but the last full, each node beginning where
  the one before ends, only the first partly read;
* `Linked`: the nodes of `tmp_list`, which a running call has not merged, go on where
  `cache_list` ends, so that the merge gives a chain again;
* `Bases`: no node begins behind the byte to come; for the nodes a call found, behind the
  byte that was to come when it began, since a failed `read` takes that call's bytes out;
* `AppendState`, `MeasureState`, `GetState`, `IdleState`, `AtRest`: what the counters of a
  running call say of the nodes. The point that needs care is that a call whose `tmp_list`
  is not empty and which reused the last node has stored something (`already > 0`):
  otherwise forgetting `tmp_list` would lose bytes.

* `FrontInv`: the byte that leaves next (`FrontByte`) is the one after the last that left or,
  once a `write` has failed, an earlier one; what a call may take out again has not left.
* `StrayInv`: in front of the first node there are at most as many bytes to send as `write`
  has failed for, those already sent counted, and the node's own bytes come next.

The argument is one lemma per action over lemmas on lists of nodes (`FillChain`,
`SpliceChain`, `StartFacts`, `TailFacts`). `MeasureState` and `GetState` count from
`FrontByte`, so the invariant goes on after a failed `write`, which moves `FrontByte` back by
one: a flush still writes all there is, repeats a byte or sends the one before the cache,
and skips none. It ends (`UseInv` under `InUse`) when a failed `read` stores -1, or in the
crash of `CopyNoMemory`. For `QueueSpec`, `StoredIsBetween` shows that
the nodes hold the bytes from the last that left to the last of the calls that have
returned; then each step moves one end of the interval (`Merge` the back, by what the call
stored; `CopyStep` and `WriteStep` the front), ends the queue, or moves neither.

`FramingProofs` proves `TypeOK`, `LeftOnlyIfBlocked`, `LineByLine` and `BlockedForEver` for
every node size, line length, number of NULs and stream shorter than `SIZE_MAX`. The invariant
`FramingInv` says that the next byte to read is in the first node; `TakesFirstLine` and
`TakesNothing` work out what the two wrap-arounds of `size_t` make of "not found" and
"empty".

`CachePoolProofs` proves, for every ascending table of sizes, every number and value of the
ints read past it, and every set of sizes asked for that the largest class satisfies,
`Spec => []PoolInv`, and from it `OverreadHarmless`, `GrowsOnlyWhenAllInUse` and the
refinement `AllocatorSpec`. `PoolInv` is inductive as it stands because it says where *every*
cache is:

* `ClassesInv`: once there are classes the real ones come first; as the largest of them
  satisfies every call, the search of `get_new_cache` never reaches the others, and
  `recycle_cache`, which looks for the first class of the same size, finds a real one;
* `FreeInv`: what is in a free list is zeroed, in nobody's hands, of that class's size and in
  the list once; sizes differ, so it is in no other list;
* `OutInv`: what is out has room for what was asked, and so has what is being taken, which is
  what the return of `get_new_cache` needs;
* `NoneLost`: there is no fourth place, which gives the growth with demand.

`ChatProofs` proves that `Chat` implements `IMServer` (`ChatImplementsServer`), hence
`LifeInv` and `DeliveryInv` for the server with `IMClient` processes as peers.

The assumptions are `SizesAssumption` (the server's counts are natural numbers),
`NameAssumption` (no user calls itself "unknown", which the code would take for a client that
has not logged in, nor `TO-ALL:` or by an empty name)
and `ScriptAssumption` (scripts are sequences of lines); `BoundsAssumption` of the client;
`BufferAssumption` and `FramingAssumption`: the sizes are natural numbers, a node has at
least one byte, and `size_t` can count the stream; and for the pool `SizeAssumption` (the
table ascends, as `specified_cache_size` does), `OverreadAssumption`, `AskAssumption` (no
caller asks for more than the largest class: a node is 512 bytes, and a line in the scratch
space comes from one node) and `BoundAssumption`. `AskAssumption` leaves one request of the
code out: for a TO-C line without a colon `try_to_handle_msg` looks for the colon past the
end of the message, which has no terminator, and what it finds there may give any size.

Model-checked only: the liveness properties of `chat_liveness` and `client_loop`, which need
fairness and are out of the prover's reach.

## Seen on the way

Not stated as findings, since no line of the repository says otherwise, or since they lie
below the abstraction: a failed `read` on a buffer whose last node is full stores -1 as its
`w_offset` (with an empty list it writes in front of the list head); a read of 0 bytes,
which every departing client causes, loses a node and its cache; a `read` that fails after
others of the same call loses the bytes these took from the socket; a failed `write` makes
the buffer send one byte again or, at the start of a node, the byte of memory before the
cache; a NUL in a line blocks its client like a line over two nodes; the copy of the list that `read_sockets` takes is not freed
when `poll` times out; `tv_nsec` can pass 10^9; two clients of one name do not get each
other's messages or logout notice.

Of the pool: `get_new_cache` reads a node it has freed; no result of `malloc` is looked at;
`initialise_cache_module` returns no value although `main` looks at it;
`release_cache_module` destroys the lock and frees nothing, where `io/common_io.h` has it
release all caches. Of the client: with the terminal closed for good
the loop sends the bare prefix without end; a failed `write` after a reset is noticed, a
second one kills the program; the `sprintf` of the LOGIN line stores its final NUL one byte past the
allocation.

## Not modelled

* the text of messages and log lines: no property depends on it;
* `list.h`: taken over from the Linux kernel; lists are sequences;
* `net_util.c`, start-up of `main`: system calls in a row, no state and no concurrency;
* memory leaks other than the buffer's caches, the bytes of the heap (what a freed or
  overrun block holds, or what lies before a cache or behind a message), and real time.

## Plan

Done: `IMServer`, `Buffer`, `ByteQueue`, `Framing`, `CachePool`, `Allocator`, `IMClient`,
`Chat`, their runs, and proofs of all their safety properties and refinements. Left:

1. what the buffer keeps of its caches together with what the pool lends (a composition of
   `Buffer` and `CachePool`);
2. `Framing` over the nodes of `Buffer` instead of an interval: the refinement that says that
   the interval is what the nodes hold;
3. shorter proofs: lemmas common to the modules of the server's proofs.
