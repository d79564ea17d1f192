# A TLA+ development of alib4c

alib4c is a C library of small components: containers, error handling, memory
wrappers, name resolution, and a `to_do` shelf of threads, sockets and daemons.
The modules in this directory state what these components do, TLC checks them on
small instances, and TLAPS proves what matters most for every value of the
constants.

## 1. The system

`a/Makefile.am` builds `liba` (util, debug, die, mem, error, pot, list, collect,
bintree, hash) and `libasock` (resolve, sock). `a/to_do` holds components that are
written and not built (queue, udp, daemon, log, socket, util, mod); `a/old` and
`old` hold their predecessors. All of it is C; only `a/to_do/queue.c` (and its
predecessor's users) synchronises threads, and only `udp.c`, `daemon.c`, `log.c`,
`resolve.c`, `socket.c` and `old/*` talk to the outside world.

| component | state it keeps | operations | what is hard | what makes it correct |
|---|---|---|---|---|
| queue (`a/to_do/queue.c`) | linked list, `num`, `open`, counts of waiters and watchers, a mutex and two condition variables | init, enque, dequeue, num, close, open, deinit | lost wakeups, spurious wakeups, destroying the queue under sleeping dequeuers | a closable FIFO; the counters are exact; `q_deinit` returns and nobody is inside when it frees |
| list (`a/list.c`) | `head`, `tail`, the items' `next` | init, append, prepend, decap | the two ends disagree after the list becomes empty or stops being so | head, tail and the chain describe one sequence |
| pot (`a/pot.c`) | an array, `used`, `alloced` | init, insert, remove_top, resize, cleanup | array slot 0, allocation failure in the middle of growth | a priority queue; the heap order; nothing outside `1..used` matters |
| hash (`a/hash.c`) | table of chains, `bits`, `count`, key and value destructors | put, get, remove, delete, extend, clean | rehash while chains are walked, allocation failure, who owns keys and values | a map; every item is in the bucket of its hash; each key and value is freed once |
| bintree (`a/bintree.c`, `a/collect.c`) | binary search tree, comparison, destructors | put, get, remove, delete, axe | deletion of inner nodes, comparison of wide keys | a map; the search order |
| error (`a/error.c`) | the current error, a stack of errors | code, stack, push, get, set, free, string | allocation failure while reporting, the static last-resort error | a stack that is freed once and never grows through the static error |
| mem (`a/mem.c`) | none (the C heap) | malloc, realloc, realloc_free, mallocNULL, strdup, free | zero sizes, failure | no block is freed twice |
| util, debug, die (`a/util.c`, `a/debug.c`, `a/die.c`) | none (the C heap) | append, format, take a path apart, cut white space, hex dumps, exit | failing realloc, memory nobody wrote, empty strings | every string is within its block, and no block is lost |
| resolve, sock (`a/resolve.c`, `a/sock.c`) | none | resolve, reverse_resolve, reverse_resolve_or_ip | the caller's buffer is too small and it retries | no name is written beyond its buffer; a retry with two more than what was reported is not refused |
| udp (`a/to_do/udp.c`) | a socket, a go flag | server, stop, client | interrupted calls, failed callbacks | a callback sees only data that was received |
| daemon (`a/to_do/daemon.c`) | the service status; the service database and the registry | su_daemon, the signal and the control handler, install, uninstall | signals, two threads and one status without a lock, failing reports, programs that end half way | a stop ends it; cleanup follows run; success means success; what is said to be installed is |
| log (`a/to_do/log.c`) | the kind of log, its handle, name or file | four inits, three ways to log, cleanup | failing initialisation, cleaning up what is not there | cleanup releases once what init acquired; a message told logged is logged |
| to_do util, socket, mod | none | escape, clip, hex, write_file | partial writes | round trips |
| vec (`a/old/vec.c`) | a chain of buffers and two totals | add, batches, to_iovec, reset | a batch that fails in the middle | the chain is what was added; a caller that looks frees each buffer once |
| old error, cleanup and die (`a/old/error.c`, `clean.c`, `die.c`) | the stack of errors of a thread; allocated messages | add, string, clear, clean, warn, die | memory that runs out while reporting, formatting that dies itself | everything is cleaned up, and what could not be is told; one message is printed |
| buffers, flail and byte path store (`old`) | a text half written or read; directories | write_buf, read_buf, read_file, get_cache_file_16 | short and failing writes, `mkdir -p` by two processes | a text is written once; a loser of a race wins the next time |

The containers are sequential and unsynchronised; they are reached by one caller at
a time. `hash`, `bintree` and `pot` allocate through `mem` and report through
`error`. `queue` is the one component with concurrency of its own.

Who calls whom: the pot, the hash and the tree get memory from `mem`, which reports
what it could not get to `error`, whose stack allocates its nodes with the C library
and falls back to a static one. The daemon calls four callbacks of the program it
serves; a UDP server is what its `run` and `stop` are made for. The queue is shared by
the threads of a program and touches nothing but its own mutex and conditions.

## 2. Modules

| module | extends or instantiates | what it is |
|---|---|---|
| `ClosableFifo` | | abstract specification: a first-in first-out buffer that can be closed, reopened and destroyed under its callers |
| `Queue` | `ClosableFifo` (refinement) | `a/to_do/queue.c` |
| `List` | | `a/list.c` |
| `Pot` | | `a/pot.c` |
| `Dict` | | abstract specification: a dictionary |
| `Hash` | `Dict` (refinement) | `a/hash.c` |
| `Bintree` | `Dict` (refinement) | `a/bintree.c` with the comparison of `a/collect.c` |
| `ErrorStack` | | the stack of `a/error.c` |
| `Mem` | | `a/mem.c` |
| `Strings` | `Mem` | `a/util.c`, on the heap of `Mem` |
| `Vec` | | `a/old/vec.c` |
| `Resolve` | | `a/resolve.c` |
| `Log` | | `a/to_do/log.c` |
| `OldError` | | `a/old/error.c` and `a/old/clean.c` |
| `OldDie` | | `a/old/die.c` |
| `OldFiles` | | `old/buffers.c` and `old/flail.c` |
| `PathStore` | | `old/byte_path_store.c` |
| `OldLibrary` | `OldError`, `OldDie`, `OldFiles`, `PathStore` | the programs that use the older stores |
| `Library` | `Strings`, `OldLibrary`, `Vec`, `Resolve`, `Log` | the programs that use one store of the library |
| `Udp` | | `udp_server` and `udp_server_stop` of `a/to_do/udp.c` |
| `Daemon` | | `su_daemon` of `a/to_do/daemon.c` on Unix |
| `WinDaemon` | | `su_daemon` on Windows: main thread, service thread and control handler |
| `Install` | | installing and uninstalling a service, of `a/to_do/daemon.c` and `a/to_do/log.c` |
| `Service` | `Udp`, `Daemon`, `WinDaemon`, `Install` (composition) | a daemon that runs a UDP server, or a Windows service and the programs that install it |
| `QueueProofs`, `ListProofs`, `PotProofs`, `HashProofs`, `BintreeProofs`, `ErrorStackProofs`, `ServiceProofs`, `LibraryProofs` | the module of the same name, `TLAPS` | theorems and their proofs |
| `MC*` with their `.cfg` | the module of the same name | the instances TLC checks |

Operators whose name and comment say "Fault" (`SignalWaitingNever`, `PutExtendCopies`,
...) are no part of the models: each is a mapped definition with a plausible bug in
it, kept so that a reader can see which property finds which bug (`PROJECT.json`,
"mutants").

## 3. How the modules correspond to the code

**Queue.** All accesses happen with `q->mux` held, so a step is what a thread does from
a lock (or from its return from `pthread_cond_wait`) to the next wait or unlock. `pc[t]`
is where thread `t` is; `Asleep` and `Woken` are the wait set of `waiting_cond` before
and after a signal, and `Spurious` wakes a thread that nobody signalled. `Enque`,
`EnqueClosed`, `DequeueTake`, `DequeueSleep`, `DequeueClosed`, `QNum`, `SetOpen`,
`DeinitEnter`, `DeinitWake` and `DeinitFree` are the branches of the functions. The
callers keep the contract without which `q_deinit` cannot work: it is called once, when
every other call is over or asleep in `q_dequeue`, and no call starts after it.

**List.** A step is a call. `ptr`, `head`, `tail` and `count` are the fields; `seq` is
what the calls mean. `AppendCrash` is `a_list_append` with a count and no tail, the
state `a_list_prepend` on an empty list leaves behind. `ops` fixes which operations the
callers of a list use: the header's queue and stack macros use two of the three.

**Pot.** A step is a call or one iteration of `bubble_up` or `bubble_down`. New memory
holds any value of `Garbage`, slot 0 included, and every allocation may fail; after a
failed insertion the array is gone and only `Cleanup` is possible.

**Hash.** A chain is a set of items: the code searches it, puts an item before it and
takes one out. A hash is the set of its one bits, and `hash_reduce` its restriction to
the low ones. `a_hash_put` is a step, or several when it extends: `PutExtend` or
`PutExtendFail`, `Rehash` for each item of the old table, `RehashDone`, `Add` or
`AddFail`. `client` and `live` follow who owns which pointer.

**Bintree.** A step is a level of the recursions. `slot` is `root_ptr`, the field
through which `node_remove` unlinks a node; its left subtree takes its place and the
right one is put below it with `node_put` (`pc = "merge"`). `cmp` truncates the
difference of two keys to an `int` of `2 * Half` values.

**ErrorStack.** A step is a call. `nodes` is the heap's part of the chain, `global` the
stack, `kept` a stack a caller took off to wrap it later (`a_error_code(stack, kept)`).
`starts` and `nests` are two uses the code does not survive: asking
`a_error_stack_macro_helper` for a new stack, and raising the stack on itself.

**Mem, Strings.** A step is a call. `heap` is the C library's heap, `held` what callers
believe to be theirs; the library may refuse any request. `zeroes` says whether callers
use `a_realloc_free` with size zero, which frees twice. A string is its length
(`text`), a block its size; `lost` are the blocks whose only pointer was overwritten
with the NULL of a failed append, `wild` says that something was read or written where
no block is, and `hung` that a loop does not end. `sloppy` callers append to NULL, to
memory nobody wrote, or hand over something empty; `libc` is what `vsnprintf` returns
when the buffer is too small, which the growing loop of `a_vsprintf_malloc` handles in
either form.

**Vec, Resolve, Log.** A step is a call. `Vec` keeps the items, their chain and the two
totals as the code does, and beside them what was `added` and what the caller believes
after a batch that failed (`assumes`: none of it, all of it, or it looks). `Resolve`
keeps the caller's buffer, what was reported and the retries with `slack` more. `Log`
keeps the kind, the union of name and `FILE` pointer (`slot`) and the handle; `paired`
programs start a log when they have none and clean it up when that worked.

**OldError, OldDie, OldFiles, PathStore.** A call, a round of `a_error_add_vargs`, a
module of `a_clean` is a step of `OldError`. An item of the stack is its error number: no
code sets its module, without which it has no text, so `a_error_str` frees all of them
(`Str`) and the functions that make texts are not reached. `OldDie` is a stack of calls: formatting without
memory returns, or dies, which is a call within the call. In `OldFiles` a step is a
system call of `write_buf`, `read_buf` or `read_file` with what is done with its result
(`write` may be short, or fail), and a text is the sequence of its positions. In
`PathStore` a step is a system call of `get_cache_file_16`, `usable_dir` or `mkdir_p`
by one of several processes, on a file system that nobody else changes.

**Library.** Nothing of the library runs the stores above together, and they share no
state but `Strings` and `Mem`. `Library` is every program that uses one of them
(`client`): one specification, and in it no interleaving that no program has.

**Udp, Daemon.** A step is a system call or a callback. `Udp` has the branches
of `udp_server` (`ServerStart`, `Startup`, `Recv`, `RecvFails`, `RecvInterrupted`,
`RecvError`, `Call`, `Close`) and `udp_server_stop` (`Stop`); `Daemon` the statements
of `su_daemon` and the signals (`SigTerm` when a handler is installed, `Killed` when
not). `mallocs` is `UDP_SERVER_FLAG_MALLOC`; `interrupts` says whether
`recvfrom` may return without a packet (a handler that does not restart it, or a
timeout the startup callback sets).

**WinDaemon, Install.** `main` is the thread that calls the service dispatcher, `svc`
the one it starts, `handler` the control handler. A report is two steps: a thread writes
the state into the shared status (`written`), and calls `SetServiceStatus` with whatever
the status is by then; it may fail. The report of the end is three, since
`su_daemon_stopped` writes the state first and the exit codes after it (`WriteState`,
`WriteCodes`, `ReportStatus`). `Reports` says for each report what is written and where
the code goes when it worked and when it failed, with the tests of `su_daemon_starting`
and `su_daemon_stopping` as they are. The handler sets `error_code` in a step of its own,
before or after it calls stop, as the code does. In `Install` a step is a system call or a helper,
any of which may fail; the database and the registry outlive the program.

**Service.** On Unix the server's steps happen while the daemon is in `run`, `SigTerm`
is the handler and the `udp_server_stop` it calls, and the daemon's `stopped` is the
server's flag. On Windows programs install, uninstall, and run the service one after
the other, with any callbacks.

## 4. What TLC checks

| run | bounds | what it shows |
|---|---|---|
| `queue_safety` | 3 threads, 2 data, symmetry | the counters are exact, no use after free, no lost wakeup, and the queue implements `ClosableFifo` |
| `queue_liveness` | 3 threads, 1 datum | `q_deinit` returns and releases every sleeper; nobody sleeps for ever beside an item |
| `list` | 4 items | the chain, the tail and the count describe one sequence; only mixed use crashes |
| `pot` | values 1..3, up to 5 of them | a priority queue that loses nothing and stays in bounds, through growth and failures |
| `pot_slot_zero` | values -1 and 1, memory of zeros | violated: `bubble_up` compares and swaps with slot 0 |
| `hash` | 3 keys, 4 pointers, 3 values, 4 puts between cleans | a dictionary; the table's structure, its load and who owns what, in the middle of extensions too |
| `bintree` | 4 keys, 5 pointers, 4 values | a dictionary; one ordered tree that owns what it holds, at every level of the recursions |
| `bintree_wide` | two keys `2 * Half` apart | violated: such keys compare equal, and one replaces the other |
| `error_stack` | 3 nodes, 2 codes, symmetry | no double free, no leak and no lost error through every failed allocation; an answer is stable |
| `library` | 3 blocks, sizes 0, 2, 3, 4, words of 2, strings up to 2; 3 items, buffers of 1, 2 and 4; names of 3 and 15, retries with 0, 1, 2 or 17 more, buffers up to 20; codes 0 and 2, 2 resources, 3 errors; 3 calls within each other; texts of 3, 2 failing writes; 2 processes, 3 directories, 4 tries; symmetry | blocks are held or lost by a sloppy caller only, and strings fit; a vector is what was added, and its buffers are freed once; retries succeed; a log is closed once; everything is cleaned up, and what failed is told; one last message; texts whole; a race for a directory is lost once |
| `service` | 2 packets, 2 blocks, 2 signals, a socket for 2 packets | Unix: a signal ends the service after at most one more callback, each callback owns its packet. Windows: a stop ends the service, cleanup follows run, an exit code of zero means success or was the handler's word between the two writes of the end, and what is said to be installed is |
| `service_interrupted` | 1 packet, 1 block | violated: after `EINTR` or `EAGAIN` the callback is called without a packet |

Why the bounds are enough. Three threads are the least at which two sleepers meet a
third that closes, produces or destroys, and two data the least at which order can be
wrong. Four items make a list with a first, a last and two middle ones. Five values
make a heap with a node of two children, a node of one and one of none, and the array doubles
twice. Four puts extend a table twice, with chains that two keys share, and one
key has two pointers, so that a duplicate is found before, during and after an
extension. In `library`, sizes are none, one and two words and one that fills no word,
and three blocks let a string grow into a new block beside another one. A name
of 15 fills the 16 bytes of a dotted quad, and one of 3 has smaller and larger buffers
around what it needs. Three buffers let a batch of two fail on a vector of one. Of the codes one is
nothing, which the stack drops, and one is something. Three directories are a base and the two bytes;
four tries are one more than a process can lose. Four keys are the least tree in which
the two subtrees of a removed node are merged below a node that has a subtree already.
Three nodes are a stack that owns a stack below a third error. Symmetry is used in safety runs only, over sets the
specification treats alike.

Bounds inside the models: `Cap` in `Pot` (values kept) and in `Hash` (puts between two
cleans), `Backlog` in `Udp` (packets in the socket), `MaxLen` in `Strings` (what a
caller appends or formats), `MaxBuffer` in `Resolve` (the caller's buffer),
`MaxReports` in `OldError` (errors on the stack), `MaxCalls` in `OldDie` (calls
within calls), `MaxErrors` in `OldFiles` (writes that fail) and `MaxTries` in
`PathStore` (calls of a process). They restrict callers, and how often the system fails.

Deadlock is checked but in `list` (a caller that only inserts, or a crash),
`error_stack` and `library` (a program that frees twice, dies or got its answer stops
there) and the `service` runs (a process exits).

**Fairness.** `Queue` assumes weak fairness of every thread's `Step`, which a thread in
a wait has only once it was woken: a mutex that is released again and again is got in
the end, and a scheduler runs what can run. No call is ever obliged to start. `Service`
assumes that the process is given the processor and that packets keep arriving: a
handler that `signal` installs restarts `recvfrom`, so a server that is stopped while
it waits for a packet sees it after the next packet only, and never without one. No
signal, failure or interruption is obliged to happen. On Windows the parts of
the service are given the processor: the service thread, the control handler, which the
dispatcher calls in the main thread, and what the main thread does else. `run` is obliged to return once `stop` was called,
which is what the comment of `su_daemon` asks of it. Everything else is safety.

**Disagreements found.**
`pot_slot_zero`: `a/pot.c:84` says "pot arrays are numbered from 1 and not 0", and
`bubble_up` goes down to position 1, whose parent is slot 0. With zeroed memory and no
negative values nothing moves, which is what `test/pot.c` does.
`bintree_wide`: `a_collect_cmp_intptr` returns a difference of pointers as an `int`.
`service_interrupted`: `continue` in a `do`-`while` evaluates the condition, which is
the callback.
More are in the models as they are in the code, without a run of their own:

* `a_pot_init` returns the pot though its allocation failed, against `a/pot.c:46`
  (`PotInit`); `a_xmallocNULL` refuses every size that is no multiple of
  `2^sizeof(void *)`, against `a/mem.c:167` (`XMallocNULL`); with
  `UDP_SERVER_FLAG_MALLOC` an empty packet ends the server (`RecvFails`).
* `a_fullpath` fails on Windows too, where it is implemented: it takes the length that
  `GetFullPathName` returns for the size it asked for (`Fullpath` of `Strings`); and
  `a/util.c:54` defines `memcat_realloc` where the header declares `a_memcat_realloc`.
* On Windows `a_log_syslog` (`a/to_do/log.c:244-253`) frees a message it logged twice and
  tells a failure as success; a log of the kind file is never written to (`Log`).
* `a/to_do/daemon.c:734-736` says that a run function that returns without a stop is an error
  and is returned as one; neither branch of `su_daemon` asks whether stop was called
  (`RunReturns` of `Daemon`, `Reports` of `WinDaemon`). On Unix a run function that fails is
  not followed by the cleanup, against 748; `init` may be NULL according to 729 and is called.
* On Windows the results of `su_daemon_starting` and `su_daemon_stopping` are tested the
  wrong way round (lines 358 and 395): a service whose start was reported stops with an
  error, and only one whose report failed is initialised; and a service whose end was
  reported as pending stops with an error, while one whose report failed stops with zero
  (`Reports` of `WinDaemon`). `su_daemon_stopped` writes "stopped" before the exit codes
  (228-242): a control that is answered in between tells the system zero after a failure,
  and the error comes after the end (`WriteCodes`; `ZeroMeansWell` says that there is no
  other way to a wrong zero). The handler can write the status of a service that has stopped (248, `raced`). A shutdown
  is accepted, and answered with the status only.
* `already_dying` of `a/old/die.c` is never set, though 145-146 and 175 rely on it: a
  formatting that dies when there is no memory dies again (`Format` of `OldDie`).
* `a/old/error.c` never sets the module of an item (159, 206-215), so `a_error_str` frees
  everything that was reported and returns NULL; the stack drops the error number 0, and
  `malloc_error` is not reset when it is cleared (`Str`, `AddItem`, `Clear` of `OldError`).
* `write_buf` repeats a byte after an error in its loop and does not end on one that
  stays, and the cleanup of `read_file` closes standard input and not the file (`OldFiles`).
* `mkdir_p` has a buffer one byte short (line 102), fails for every absolute path, and
  the file is opened with `O_CREAT` and no mode (197) (`PathStore`).

## 5. What is proved

Every theorem holds for all values of the constants that satisfy the named assumptions
of the module. An invariant is proved as `Init => I`, `I /\ [Next]_vars => I'` and
`I => Inv`.

* `QueueProofs`. `CountsAreExact`, `NeverUsedAfterFree`: the inductive invariant is the
  counters' exactness together with the callers' contract about `q_deinit`; without the
  contract a step of `q_deinit` could leave a caller behind. The work is in the
  cardinalities: each step moves at most one thread in or out of a wait set, or all of
  them at a broadcast. `WakeupsSuffice`: `num <= |Woken|` while somebody sleeps, from
  the exact counters: a producer signals whenever `waiting` is not zero. `Implements`:
  every step of the queue is a step of `ClosableFifo` or a stutter.
* `ListProofs`. The invariant says that head, links and count describe `seq`, that the
  tail is its last item or null, and that the tail of a list that is never prepended to
  is not null while it has items, which is what keeps `a_list_append` from crashing.
* `PotProofs`. `HeapCorrect`: under `QuietMemory` (no value comes before what
  uninitialised memory holds; `pot_slot_zero` is what happens without it) the array is in
  bounds and the heap order holds between calls. In the middle of `bubble_up` and
  `bubble_down` the order holds but at `pos`, where the parent comes before the
  children of `pos` (`UpOrder`, `DownOrder`). `ContentsHold`: how often a value is in the
  array is the number of its slots (`At`), which no swap changes. `RemovesFirstHolds`: were
  a value before the one at the root, the first slot with such a value would have a parent
  with one.
* `HashProofs`. `Structure`: items are in the chains of their hashes and keys are
  unique; the invariant adds that the moved and the unmoved items of an extension have
  different keys, and that the key being put is in neither. `Memory`: nothing is freed
  twice and the table holds exactly what it owns, from the structure and from the fact
  that the pointers in it are distinct and not the callers'. `Implements`: the table is
  a `Dict`; the value a key has is found by `ValueIn` of the items, so that rehashing is
  a stutter. `LoadHolds`: the items are no more than `count`, which only grows
  until the table is clean, and there is a chain for each counted one and for the one that
  is being put; that one more bit doubles the chains is a fact about the subsets of `1..n`.
* `BintreeProofs`, for keys whose differences fit an int (`Fits`; `bintree_wide` is what
  happens without it). What is below a node, a recursion in `Bintree`, is shown to be what
  can be reached from it (`Reach`: the smallest set that is closed under the children), by
  well-founded induction over the finite sets of nodes; lemmas say how `Reach` changes when
  a node is hung, unlinked or replaced. `SearchTreeHolds`: the invariant (`IInv`) says that
  each node hangs from one field of one node, that the graph has no cycle and is all below
  the root, and for each place in a call what the descent has decided already: a new key
  belongs below where `put` and `merge` have come to, and while a node is being unlinked,
  its two subtrees are ordered and apart. It needs the order to descend and the tree to keep
  the order, so none of its parts is inductive alone. `OwnershipHolds`: the pointers in
  different nodes are different (`Apart`). `ReplacesSameHolds` follows from the exactness
  of the comparison, `Implements` from the search: the key sought is below where the search
  is, or nowhere.
* `ErrorStackProofs`. `ErrorRemains`, `AnswerRemains`: an error is replaced by a node or by
  the static one, which is no node of malloc's and not NULL, and which every later
  question answers alike. `FreeableHolds`: the chains are a forest (`Forest`): no pointer
  dangles, each node has one owner, which is another node or one of those who hold a
  stack, and every set of nodes has one without a child in it (`Ends`) and one without a
  parent in it (`Begins`). The two make the recursion of `a_error_stack_free` well-founded
  in either direction: what it frees is closed under ownership, no one else owns any
  of it, and it comes by no node twice unless a node owns the stack that it is on.
* `ServiceProofs`. `StopIsSoon`: a server that called back after it was stopped has
  left its loop. `PacketIsOwned`: at each place of the loop it is known which block the
  server holds and whether the packet is in it. `CleanupFollows`, `ZeroIsWell`: how often
  each callback returned is a function of where the service thread is, and the handler does
  not change it. A state of "stopped" is reported without an error after a failure only while
  the service thread is between its two writes or has written the exit codes already, and
  from there its own report is refused (`mute`). `InstallIsTruthful`:
  what the database and the registry hold, at each place of a program that got so far,
  whatever they held before.
* `LibraryProofs`. A store is changed by its own client only, so each proof is one of
  the store's invariant. `BlocksAccounted`, `StringsAreFit`: every block is held or
  lost and every string is in a block, smaller than it (`HeapInv`). `RetrySucceeds`: what is
  reported is one less than what the next call needs, or the quad. `LogIsSafe`: which
  kinds of log go with which contents of the union and the handle.
  Of the older stores, `TriesEverything`: what is open is yet to be tried, since the
  arguments are a sequence that has every resource. `SpeaksOnce`: only the outermost
  call returns, and the message is printed exactly when the call at the top has only to
  free. `LosesOnce`: while its way is clear, the losses of a process, and the one it is
  about to suffer, are at most the directories that others made. `StreamsWhole`: what was sent, and what was read, is the text up to the
  position reached, and there are two letters in a flail, which are taken one by one.
  `VecHolds`: some sequence of different items (`Links`) is the chain, the allocated items
  and the buffers in their order, and some sums (`Totals`) are those on the way to the
  size; the walk from the head takes that sequence, and `a_iovec_size` those sums. A batch
  has two buffers, so its fold has three cases. `BuffersHaveOwners` is about a caller that
  does not take a failed batch for refused: until it tears, what the vector was given and
  what is its own are allocated and apart (`OwnInv`), and as the pointers in the vector are
  different ones, to free them all frees none twice.

Every safety property that a passing run checks is proved. Model-checked only are those
under fairness (`DeinitReturns`, `NoStall`, `StopEnds`, `ServiceStops`), since liveness and
`ENABLED` are out of the prover's reach.

The folds and recursive functions of the models (`FoldLeft`, the walk along a chain) are
unfolded by hand: a function that satisfies the recursion is exhibited, so that the one
that `CHOOSE` picks satisfies it, and what it computes is proved at the first number where
it would not hold, since a set of numbers has a least one (`FirstOf`, from the library's
well-founded orders).

## 6. What is not modelled

The modules were written in the order queue, list, pot, hash, tree, error stack, mem,
service, and then strings, vector, resolver, log, the Windows service and its
installation, and the older stores: the component with threads first, then the library's
containers from the simplest to the one with most states, what they rest on, and last
what talks to the system.

Not modelled, with the reason:

* `a/debug.c`, `a/sock.c`, `a/strerr_notes.c`, the texts of `a/error.c`, `a/old/strerr_*`
  and `old/error.c`: tables of texts, and output.
* `a/to_do/socket.c`, `udp_client`, `old/resolve.c` and `a/old/xmem.h`: one system call
  after the other with nothing kept between them; a failure returns.
* `a/to_do/util.c` and `mod.h`: escaping and clipping of characters.
* The comparisons of `a/collect.c` but the one for pointers: one line each.
* `a/old/dict.c`: stubs. `a/to_do/daemon.c` from 273 to 344 and from 422 to 672 is not
  compiled, and after `su_daemon` comes a draft whose functions are empty or do what
  `su_daemon` does. The variant of `a/old/die.c` with threads does not compile.
  `usable_file` of `old/byte_path_store.c` is not used.
* Type and macro headers, the tests (read as uses of the library) and the build.

`PROJECT.json` names every component with the reason.
