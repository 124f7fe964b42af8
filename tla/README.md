# A verification project for pico_ocaml

pico_ocaml runs OCaml 5 on the bare metal of a Raspberry Pi Pico 2 W: two
cores, no operating system, lwIP in polling mode, and a small effects-based
scheduler for network fibers.  This directory holds TLA+ models of its core
logic, the TLC configurations that check them on small instances, and proofs
that TLAPS checks for every value of the constants.

Tools: `tlc -config X.cfg M` model-checks, `tlapm M_proofs.tla` checks proofs.
`PROJECT.json` maps every definition to the lines it models, lists the runs,
mutations of the model for every property that is checked (the operators
called "Faulty variant" in the modules exist for these: each replaces the
operator after it and makes a property fail), the hazards and the theorems.

## 1. Inventory

Core 0 runs the main OCaml domain and owns the network; core 1 runs at most one
spawned domain.  lwIP is polled (`pico_cyw43_arch_lwip_poll`): its callbacks run
when a program calls `net_poll`, or in a wait loop that does, on that core.

| Component | Sources | State | Operations | What is hard |
|---|---|---|---|---|
| Handle pools | `ocaml_stubs.c` 223-255, 340-377 | `mutex_storage`, `mutex_count`, the index kept in each `pthread_mutex_t`, likewise condvars | `ensure_*_init`, `pthread_*_init`, no-op destroy | unsynchronised read-modify-write from two cores; the pool never shrinks |
| Mutexes, condvars, STW polling | `ocaml_stubs.c` 45-110, 257-303, 429-512, 966-998 | owner and nesting of each recursive mutex, `held_counts`, `waiters`, `generation`, `handling_stw`, `caml_state` | lock, trylock, unlock, cond_wait, signal, broadcast, `_write`, `try_handle_stw_interrupt` | two cores, a garbage collector that stops the world and waits for both, no backup threads |
| Core-1 threads | `ocaml_stubs.c` 525-617 | `core1_entry_func`, `core1_started`, `core1_finished`, call parity | `pthread_create`, `pthread_join`, `core1_wrapper` | flags written by both cores in an order that matters |
| TLS keys, malloc lock, heap, raw output | `ocaml_stubs.c` 154-200, 308-338, 379-427, 622-682 | key counter, bump pointers | `_sbrk`, `mmap`, `posix_memalign`, key functions | boundaries |
| Event queue | `net_stubs.c` 37-90 | ring, head, tail | `event_enqueue`, `net_event_get` | producer and consumer without a lock; drops when full |
| Sockets | `net_stubs.c` 92-547 | `sockets[]`, lwIP pcbs, receive buffers | socket and TCP/UDP calls, lwIP callbacks | callbacks between calls; slot reuse |
| WiFi, DNS, link | `net_stubs.c` 150-210, 553-620 | status words | connect, poll, lookup | waiting loops |
| Value boxing | `net_stubs.c` 23-35, 630-748; `netif.ml` | - | the OCaml externals | 31-bit integers |
| Fiber scheduler | `pio.ml` 99-699 | run queue, io waiters, promises, fiber count | effects, `Switch.run`, `Fiber.both`, ... | continuations resumed out of order |
| Blocking network handler | `net.ml` | - | effect handler | - |
| Clock | `clock.ml` | `base_secs`, `sync_ms`, display | NTP sync, display loop | two atomics read and written separately by two domains |
| LCD | `lcd.ml` | - | HD44780 4-bit protocol | - |
| Boot and C glue | `pico_main.c`, headers, CMake | - | start-up order | - |

### How the parts interact

- OCaml code calls the externals of `netif.ml`, which reach the socket layer
  through the boxing macros.  The socket layer calls lwIP, which calls back
  into it; the callbacks change `sockets[]` and append to the event queue.
- `pio.ml` performs the blocking-style calls of fibers as effects.  Its
  scheduler polls the network, probes the sockets that fibers wait for and
  enqueues the closures that resume them.
- The OCaml runtime (not in the repository) uses the pthread layer for its
  domain locks and condition variables, `pthread_create`/`pthread_join` for
  `Domain.spawn`/`Domain.join`, and interrupts the other domain to stop the
  world.  As there are no backup threads, every blocking loop of the pthread
  layer polls for those interrupts (`try_handle_stw_interrupt`).
- `core1_wrapper` uses the lock tracking of the pthread layer to release what
  a finished domain left locked.
- Both domains share the clock's atomics, the condition variables, the heap and
  the raw output.
- `resolve_host` of `pio.ml` turns a host's name, or the address it spells, into an
  OCaml integer, which a later call unboxes and contacts.

### What makes each component correct

| Component | Properties |
|---|---|
| Handle pools | two objects never share a slot; no slot past the array; the lock of an object that has a slot excludes; a waiter's slot is not reset under it |
| Mutexes, condvars, STW | mutual exclusion; `held_counts` exact; waiters exact; no wakeup lost between registration and sleep; `caml_state` follows the domain lock; a stop-the-world section ends whatever the other core blocks on |
| Core-1 threads | every domain is launched; it starts clean; join returns only after function and cleanup; core 1 is reset only when parked; spawn and join end |
| Event queue | a bounded FIFO; producer and consumer never on one slot |
| Sockets | no dangling control block; a callback reaches the socket it is for; a stream keeps its order and misses only what found no room; end of stream after the rest; no buffer or control block leaks |
| Fiber scheduler | a continuation is resumed at most once, and nobody is forgotten; promises wake all waiters after they are settled; counts match fibers; every wait ends; `Switch.run` returns when, and only when, all is done |
| WiFi, DNS, link | a lookup ends and answers its own caller's question |
| Value boxing | which address is contacted for each one found (not always the same: section 7) |
| Clock | displayed time is base plus elapsed, never torn, over timer wrap-around |
| LCD | the controller is in step with the nibbles from any state, and never sent to while busy |
| TLS keys, malloc lock, heap | blocks do not overlap, the heap stays below the stack, every way out of a call gives its locks back |
| Raw output | texts of the two cores are not mixed; a core that sleeps for the lock is woken |

## 2. Plan

Order: what runs on two cores first, then the network, then the scheduler,
then the sequential parts.

| # | Module | Abstract specification | State |
|---|---|---|---|
| 1 | `PicoThreads`: mutexes, condvars, STW polling | `Monitors` | modelled, checked, refinement proved |
| 2 | `HandlePool`, `CondPool`: slots of the two pools | `Monitors` | modelled, checked, refinement proved |
| 3 | `Core1Thread`: life of core 1 | - | modelled, checked, proved |
| 4 | `EventQueue`: the ring | `EventFifo` | modelled, checked, refinement proved |
| 5 | `NetSockets`: sockets and lwIP callbacks | - | modelled, checked, proved |
| 6 | `PioScheduler`: fibers, promises, I/O waits | - | modelled, checked, proved |
| 7 | `Clock`, `ClockTime`: two domains, base and sync time, wrap-around; the arithmetic of the clock | - | modelled, checked, proved |
| 8 | `Lookup`: names to addresses, addresses through OCaml integers | - | modelled, checked, proved |
| 9 | `Heap`: `_sbrk`, `mmap`, the malloc lock, boot | - | modelled, checked, proved |
| 10 | `RawOutput`: the output lock and the calls that print | - | modelled, checked, proved |
| 11 | `Services`: 8, 9 and 10 on two cores | `Heap`, `RawOutput`, `Lookup`, each alone | modelled, checked, refinements proved |
| 12 | `Lcd`: 4-bit initialisation against a model of the HD44780 | - | planned |
| 13 | `FiberSockets`: scheduler over the slot table (a late wake meets a reused slot) | `PioScheduler` over abstract sockets | planned |

Modules that compose others: `CondPool` extends `HandlePool` (a wait gives the mutex
back and takes it again, so that both pools are one system), `Services` extends
`Heap`, `RawOutput` and `Lookup` (a core is in one call at a time), `EventQueue`
meets `EventFifo`, and `PicoThreads` and `CondPool` meet `Monitors`, by INSTANCE under a
refinement mapping.  The other components
meet in few places, and each module states what it assumes of its neighbour
(sections 3 and 6).

A spawn that waits for `core1_finished` does not poll for stop-the-world requests
(ocaml_stubs.c:588).  No composition of `Core1Thread` with `PicoThreads` is spent on
it: the runtime has two domains, and lets the second be spawned again only after
the one before has left the runtime; its thread then has only the cleanup of
`Core1Thread` before it, and requests nothing.

## 3. The modules and the code

A step of a model is as small as the other core, a callback or another fiber can
tell apart.  Formatting, delays (`sleep_us`, `sleep_ms`) and barriers are left
out: the models are sequentially consistent, which is what the `__dmb`/`__dsb`
of the code are for, and a delay does not order anything a model relies on.

### PicoThreads

State: `owner`, `enter_count` of each recursive mutex (`mutex_storage`),
`held_counts`, `waiters` and `generation` of each `pico_condvar_t`, the locals
of `pthread_cond_wait`, `handling_stw`, `caml_state`.  `pc` says in which loop a
core is.

| Code | Actions |
|---|---|
| `pthread_mutex_lock` | `LockCall`, `LockAcquire`, `LockBusy` then a poll; `LockUnpooled` when the object has no slot (returns 0, locks nothing) |
| `pthread_mutex_trylock`, `_unlock` | `Trylock`, `Unlock` |
| `pthread_cond_wait` | `CondWait` (registration, under `cv->lock`), `CondRelease`, `CondSleep`/`CondSee` (a turn of the loop), `CondWoken`, `RelockAcquire`/`RelockBusy` |
| `pthread_cond_signal`, `_broadcast` | `Signal`, `Broadcast` |
| `try_handle_stw_interrupt` | `StwEnter`, `StwExit`, or `StwSkip` when nothing is queued, the poll is nested or the lock is busy |
| `_write` | `Write`, one of its polls |
| OCaml runtime (external) | `EnterBlocking`, `LeaveBlocking`, `Safepoint`, `StwRequest`, `StwDone` |

Choices: what is done between `mutex_enter_blocking(&cv->lock)` and
`mutex_exit` is one step, as only `cv->lock` holders change those fields and the
one read outside (`generation` in the wait loop) is a single word.  `held_counts[c]`
is touched by core c only, so that an exit and the decrement after it are one
step.  `held_mutexes` is only ever written, never read, and is left out.  A domain
lock is taken only by its own core.  Locals are reset when they are dead.  A
core's callers unlock and wait with mutexes that they were told they hold.
`generation` is a 32-bit counter in the code; its wrap-around (2^32 signals while
one waiter sleeps) is beyond `MaxGen`.

### Monitors

What both layers of locks promise: each core's level in each mutex (`depth`), and who
waits for each condition variable (`waitset`).  `Wait` gives a level back and joins
the wait set in one step; `Notify` empties a wait set (`pthread_cond_signal`, too,
wakes all); a core in a wait set does nothing.  In `PicoThreads` the level is what the
caller was told, less the one a wait is about to give back, and the wait set is the
registered cores not yet signalled.  In `CondPool` an object's wait set is the cores
that sleep in its slot under the generation they read, and the level of a mutex
without a slot is 0, whatever its lockers were told; `WaitUnlocked` is a wait with
such a mutex.

### HandlePool

State: `count` (`mutex_count`), `magic`, the index in each object, who has entered
each slot.  `ensure_mutex_init` is `Check`, `Bound`, `Load`, `Store`, `Fill`,
`Publish`: one action per access to shared memory, `mutex_count++` being a load
and a store of a volatile.  `MutexInit` is `pthread_mutex_init`, `EnterSlot` the
end of `pthread_mutex_lock`, `Unlock` `pthread_mutex_unlock`.  With the pool full
(`Bound`) `pthread_mutex_init` fails and `pthread_mutex_lock` returns 0 with nothing
locked: the caller is recorded in `held`, as with any other lock, while the object
stays `Slotless`.  Any core may lock a static object that has a slot or can get
none any more; before, only a creator may, as two cores that race for a slot both
fail (section 7).  Recursion, the waiting loop and stop-the-world polls are in
`PicoThreads`.

### CondPool

State: what `HandlePool` has, and `condvar_count` (`ccount`), `condvar_storage`
(`condvar`), the index in each `pthread_cond_t` (`chandle`), and for each core the
call it is in with its locals (`call`).  `ensure_condvar_init` is `CondCheck`,
`CondBound`, `CondLoad`, `CondStore`, `CondFill`, `CondPublish`; `pthread_cond_init`
(`CondCreate`) enters it at `CondBound`.  `pthread_cond_wait` goes on with `Register`,
`ReleaseMutex`, `Woken`, `Relock`, and `pthread_cond_signal` and `_broadcast` are
`NotifySlot`.  Waits, signals and lazy initialisation interleave with the calls on
mutexes (`InMutexCall`).  A condition variable is used by any core once it has a
slot, before that by a creator only; it is initialised explicitly once, before use;
each is waited for with one mutex.  A wait with a mutex that has no slot releases
and retakes nothing (ocaml_stubs.c:446, :475).

### Core1Thread

State: the flags `core1_started`, `core1_finished`, `core1_entry_func`,
`pthread_create_count`, what `held_counts[1]`, the TLS of core 1 and the
runtime's backup-thread flags hold, and the place of each core.
`pthread_create` is `BackupCreate` (odd) and `Create`, `AwaitFinished`,
`ResetCore1`, `Launch`, `SeeStarted` (even); `pthread_join` is `JoinCall` and
`JoinReturn`; `core1_wrapper` is `Start` to `Finish`.  Two things are external, from
the comments of `pthread_create`: the runtime asks for one backup thread per
domain, and spawn waits for the new domain to report (`Handshake`).  The 10 ms and
1 ms delays of join and reset are not modelled: no property needs them.

### EventFifo and EventQueue

`EventFifo` is the promise: a FIFO that drops a new event exactly when it is full.
`EventQueue` is `event_enqueue` (`Enqueue`, `CheckFull`/`CheckRoom`, `WriteSlot`,
`AdvanceHead`) and `net_event_get` (`GetNothing`/`GetSomething`, `ReadSlot`,
`AdvanceTail`); the refinement maps the slots from tail to head to the sequence.
One producer (callbacks run on one core) and one consumer, as the comment of the
code says.  No code of the repository calls `net_event_get`: in the programs at
hand the queue fills after 31 events and drops all the others.

### NetSockets

State: `sockets[]` (protocol, state, control block, buffer, contents), the number
of buffers handed out, lwIP's control blocks (external), and per fiber the handle,
whether it was connected, and how much it has read.  Each `pico_tcp_*`,
`pico_udp_*` call is an action of a user, each lwIP callback an action of a
control block.  Calls and callbacks are atomic because both run on the core that
owns the network; `net_lock` guards `recv_len` only.  `WifiConnect` is `wifi_connect`
with `net_init`, whatever the driver answers; programs call it before they open a
socket, and may call it again at any time.  `UdpBind` and `UdpSendto` bind the
control block, or fail; datagrams come only to one that is bound.  `UdpRecvfrom`
takes what the buffer has room for and drops the rest.

External, from how lwIP 2.x behaves: `tcp_close` frees a control block that is
not connected at once and another after the peer's answer; `tcp_err` comes after
the control block was freed.  lwIP never passes an error to the connected and receive
callbacks of TCP; their branches for it (`ConnectFailed`, `ReceiveFailed`) are
modelled all the same, as steps that may come at any time.
A byte is the pair of its control block and its number in the stream.  `conn`,
`taken` and `lost` are history, `taken` saturating at `MaxSent`; `lost` counts the bytes
of a socket's stream that found no room in its buffer and were acknowledged.  A user connects a fresh socket
once, reads after it saw the connection established and uses no handle after close.

### PioScheduler

State: `run_queue` (the closures, named by what they will do), `io_waiters`,
promises, the life of each fiber, `sw.fibers`, `result`, `exn_ref`, and where the
single thread of control is.

| `pio.ml` | Actions |
|---|---|
| `check_io_completions` | `CheckIoCompletions`, with the reversals of its folds |
| taking a task | `TakeTask`: `RunFiber`, and the closures `RunConnected`, `RunReadable`, `RunConnectTimeout`, `RunReadTimeout`, `RunAwaited` |
| empty queue | `Idle`: go round, leave a nested scheduler, or return |
| effects | `Yield`, `Fork` (fork, fork_promise), `Both` (both, all), `Await`, `TcpConnect`, `TcpRead`, `TcpClose`, `NetEffect` (effects that only service the network) |
| return or exception | `Finish`, with `Settle` for the promise |

A fiber's program is arbitrary: it performs any effect at any time, at most
`MaxEffects` of them.  Sockets are abstract here, named by the fiber that opened
them; the reuse of slots is `NetSockets`'.  `depth` counts schedulers that run
inside one another: the effect handler of a child calls the scheduler and comes
back when all fibers have ended, so every suspension of a child nests one more;
main's handler does not.  `rewrapped` is the second `match_with main_handler` around
a resumed main.  The closures of `both` and `all` run outside every handler
("bare") and so perform no effect.  `owed` holds the awaits `both` and `all` have
yet to make.  Fibers that await one another in a cycle spin for ever: that is the
program's error and no property speaks of it.

### Clock and ClockTime

State: the atomics `base_secs` and `sync_ms`, the locals of both loops and where
each stands, the timer (`time_ms`, wrapped to an OCaml integer), and the time of
day (external).  Core 0 is `NtpAnswers` or `NtpFails`, `SetBase`, `SetSync`,
`QueryAgain`; core 1 is `ReadBase`, `ReadSync`, `Show`, `ShowAgain`.  Time is a
variable of its own, which `Tick` advances, and only while core 0 waits for the
server or for its next query and core 1 sleeps: the code between takes
microseconds, a tick is a millisecond, a frame a second.  The interleaving of the
two cores at one moment is free.  A query is answered after 0 to `MaxQuery` ticks
with a time of day up to `MaxLag` ticks old, or fails.  The offset to UTC is part
of `time`.  `day_secs` is what is shown; the characters sent are the LCD's.

`ClockTime` has the arithmetic that needs no state: the time of day from the bytes
of an answer, hours, minutes and seconds and their digits, the brightness.

### Lookup

State: `dns_done` and `dns_result_ip`, lwIP's cache and the name it is resolving
(external), and for each caller where it is, the OCaml integer it got (`ip`) and
the address it then contacts (`target`).  `dns_resolve` is `DnsResolve` (a cached
answer, a request, or an error) and `DnsReturn`, the end of its loop; `dns_callback`
is `DnsCallback`; `ip_from_string` is `ResolveLiteral`; `UseAddress` is the unboxing in
`ocaml_tcp_connect` and `ocaml_udp_sendto`.  `ValInt` and `IntVal` are the macros on
words of four times `Quarter` (2^30 on the board), `Shown` what `ip_to_string` makes
of an address.  `meant` is history: the address lwIP gave for this very call, 0 if none;
`LookupOver` only drops such history before the next call.

### Heap

State: `heap_ptr`, the two mutexes and whether they are declared ready, newlib's
free chunk (external), how far `main` is, and for each core where it is in a call.
`_sbrk` is `SbrkEnter`, `SbrkRead` (the test against `__HeapLimit` included),
`SbrkStore`, `SbrkExit`; `mmap` is `Mmap` and `MmapReturn`, or `MmapFixed` with MAP_FIXED; `__malloc_lock` is
`MallocCheck`, `MallocLazyInit`, `MallocSetFlag`, `MallocEnter`, and `__malloc_unlock`
`MallocUnlock`; `posix_memalign` asks malloc for `Asked` bytes and returns `Aligned`.
`InitMallocMutex` and `InitSbrkMutex` are what `main` calls; core 0 may allocate
before and between (`stdio_init_all`, `printf`), core 1 does not exist yet.  newlib's
malloc is external: it cuts from one chunk, asks `_sbrk` for a new one in multiples of
`Page`, and never gives memory back to it; `free` is left out, as it only makes
blocks reusable.  The malloc lock is recursive, but newlib enters it once per call
here.  `used` and `twice` are history: the bytes handed out, and those handed out again;
of the aligned block these are the result and the pointer in front of it.

### RawOutput

State: `raw_output_lock`, `print_buf`, and each core's place in `raw_lock`, the printing
loop and `raw_unlock`; the event register of each core is external (`wfe` waits for
it and clears it, `sev` sets it on all cores).  `raw_puts`, `raw_putint` and
`pico_print_int` print a text of their own (`RawPuts`); `pico_print_string` and
`pico_print` copy to the core's buffer first (`PrintString`), and `pico_print` prints the
end of the line under the lock again.  Interrupts, which also end a `wfe`, are left
out, so that `SleeperWoken` does not rest on them.  The emergency output of `_sbrk`
takes no lock, by design, and is not part of `out`.

### Services

`Heap`, `RawOutput` and `Lookup` together: a core is in one of their calls at a time, and
in none but malloc's before `main` has set up the mutexes.

## 4. The runs

| Run | Question and answer |
|---|---|
| `threads` | Two cores, a pooled mutex and one without a slot, one condition variable, all interleavings of nested locks, waits, signals, polls and stop-the-world requests: locks exclude, the tracking is exact, no wakeup is lost, `caml_state` follows the domain lock, and callers see `Monitors`.  A stop-the-world section ends even when the other core spins for a mutex the requester holds or sleeps on a condition variable nobody signals, and a signalled waiter leaves the loop. |
| `pools` | One core creates mutexes and condition variables, lazily and explicitly, in pools with fewer slots than objects, while the other locks, waits and signals, on the mutexes left without a slot too: slots are distinct, a mutex that has one has one holder, across waits too, and a waiter stays where those who signal look for it. |
| `core1` | Three domains one after the other: each is launched, starts clean, is joined after its cleanup; spawn and join end. |
| `event_queue` | The ring of four slots implements the FIFO of three events. |
| `sockets` | Two fibers, two TCP and one UDP control block, two slots: connections, data, ends, resets and closes in any order, segments larger than the room left among them: callbacks reach the right socket, streams keep their order and miss only what found no room, they end after the rest was read, nothing leaks. |
| `sockets_overflow` | Violation (finding). |
| `fibers` | Main and two children, two effects each, that may close one another's sockets, against a network that connects, sends, closes and resets at every poll: no continuation is resumed twice or forgotten, promises wake all their waiters after they are settled, counts are not too high, and a return abandons no child's I/O. |
| `fibers_progress` | A queued or watched child runs again; when all have ended `Switch.run` returns. |
| `fibers_main` | Violation (finding). |
| `fibers_timeout` | Violation (finding). |
| `clock` | Two domains, one setting and one showing the time, several wraps of the timer and of the day: what is shown is a time of day, right up to network and rounding unless the frame mixes two synchronisations, which two frames in a row never do. |
| `services` | Two cores that boot, allocate through malloc, posix_memalign and mmap until the heap is full, print, and look names up: no blocks overlap, every path gives its locks back, texts come out whole, nobody sleeps on for the output lock, a lookup ends and returns its own answer, and the address contacted is the host's exactly if it survives the boxing, else the one 128 away in its last octet. |

### Bounds

| Bound | Why it is enough |
|---|---|
| `Cores` = 2 | the board has two |
| `MaxDepth` 2, `MaxGen` 2 | a nested acquisition and its two releases; a signal before, during and after a wait, with both cores waiting |
| `PollEvery` 2, `LoopCap` 2 (100, 100000) | turns with and without a poll, and a restart of the counter; the code's `LoopCap >= PollEvery` is assumed, without which the restart skips every later poll |
| pools of 2 slots, 3 mutexes, 3 condition variables | full pools, slot reuse and the boundary of the arrays; two mutexes are static, so that one of them may find the pool full; one condition variable is static and two are initialised, all waited for with one mutex; `MaxGen` 2: two signals that find a waiter |
| 3 domains | first launch, relaunch, and a relaunch of a relaunched core; parity repeats after that |
| `N` = 4 | wrap-around with several events in the ring; the proof covers every N |
| 2 sockets, 2 fibers, 2+1 control blocks; buffers and windows of 2 bytes, `MaxSent` 3 | two connections that compete for slots, one reconnecting; a slot table that is full; a buffer empty, partly read, full, and too small for the segment that comes, and data again after such a loss |
| 2 children, 2 effects, `MaxTimeout` 2, `MaxData` 1 | forks, both, a promise with several waiters, a wait beginning while another times out; `fibers_progress` has one child with three effects (wait, retry, end) |
| `Second` 2, `Day` 10, `Half` 16 | the timer's period, 32 ticks, is no multiple of the day's, 20: both wrap at every relative position |
| `Resync` 4, `MaxQuery` 2, `MaxLag` 2 | two frames between queries, a query that lasts a frame, an answer a second old |
| `MaxFails` 1 | the elapsed time, at most (MaxFails + 1) (Resync + MaxQuery) + Second = 14, stays below `Half`, as it does on the board for 12 days; section 7 for what is beyond |
| heap of 6 bytes, `Page` 4, `Pointer` 1, `Round` 2, size 1 | one chunk of malloc and one more mmap fill it: the last call finds no memory; an aligned block (1 + 2 + 1 bytes) fits the chunk exactly |
| texts of 1 and 2 characters | a text that can be interrupted, and one after another |
| `Quarter` 4, addresses 3, 5 and 12 | words of 16; one address from either end of the range that survives the boxing, and one that does not |

No run uses symmetry.  `CHECK_DEADLOCK FALSE`: `pools`, as its callers may lock two objects in
opposite orders, and wait for a signal nobody sends; `core1`, whose program ends after its domains; the
`fibers` runs, which end when `Switch.run` returns.  All other runs check for
deadlock.

`sockets` is about programs for which the code works: `Careful` (no socket is
created while a held one is CLOSED, and so one connects before it opens the next).
Section 7 says what happens without it.  `NoDanglingPcb` is proved without it.

## 5. Fairness

- `threads`: weak fairness of `CoreStep(c)`, as a core keeps executing its
  own loop, and of the runtime's `StwDone`.  Strong fairness of `Safepoint` and
  `LeaveBlocking`: external assumptions that OCaml code meets safepoints and
  blocking sections end, however often their core is also in a C call.  No
  fairness for calls: nobody has to unlock or signal for the properties to hold.
- `core1`: weak fairness of each core's code, and of the return of a domain's
  function (external): a function that never returns is never joined.
- `fibers_progress`: weak fairness of the whole scheduler, which is one thread of
  control; the network may stay silent for ever.  A fiber's bounded number of
  effects stands for functions that end.
- `services`: weak fairness of `DnsReturn`, as the caller goes on polling, and of
  `Answer`: an external assumption that lwIP's resolver answers or gives up (it
  retries and then calls back with no address).

## 6. What is proved

For every value of the constants that satisfies the named assumptions:

| Module | Theorems | Assumed |
|---|---|---|
| `PicoThreads_proofs` | `TypeCorrect`, `MutualExclusionHolds`, `TrackingAccurateHolds`, `WaitersAccurateHolds`, `NoLostWakeupHolds`, `CamlStateMatchesLockHolds`, `Refinement` | `ConstantsAssumption`, `BoundsAssumption` |
| `HandlePool_proofs` | `TypeCorrect`, `DistinctSlotsHolds`, `InBoundsHolds`, `ObjectExclusionHolds` | `OneCreator` |
| `HandlePool_proofs`, of `CondPool` | `PoolsDistinctSlots`, `PoolsObjectExclusion`, `CondSlotsRightHolds`, `WaitersReachableHolds`, `PoolsRefinement` | `OneCreator` |
| `Core1Thread_proofs` | `TypeCorrect`, `DomainsLaunchedHolds`, `CleanStartHolds`, `JoinAfterFinishHolds`, `ResetAfterCleanupHolds` | `Disciplined` = `Handshake` and `JoinFirst` |
| `EventQueue_proofs` | `TypeCorrect`, `SlotsDisjointHolds`, `Refinement` | `RingAssumption` (N at least 2) |
| `NetSockets_proofs` | `NoDanglingPcbHolds` | `SocketAssumption` only |
| `NetSockets_proofs` | `TypeCorrect`, `CallbackReachesOwnerHolds`, `NoBufferLeakHolds` | `Careful` |
| `NetSockets_proofs` | `StreamInOrderHolds`, `AcknowledgedAccountedHolds`, `EndAfterAllDataHolds` | `Careful` |
| `PioScheduler_proofs` | `TypeCorrect`, `ResumedOnceHolds`, `NotForgottenHolds`, `WakersSeeSettledHolds`, `SettledAtTheEndHolds`, `WatchedSocketsOpenHolds`, `NoPhantomFibersHolds`, `ReturnAbandonsNoIoHolds` | `SchedulerAssumption` only |
| `Clock_proofs` | `TypeCorrect`, `FrameAccurateHolds` | `ClockAssumption`, `Frequent` (the timer does not come half round between two answers: 12 days) |
| `Clock_proofs` | `MixedOnceHolds` | `ClockAssumption`, `Unhurried` (queries further apart than frames: 60 s, 1 s) |
| `Clock_proofs` | `NtpTimeOfDay`, `TimeRecombined`, `SegmentsInTable`, `BacklightSmooth` | the range of each argument |
| `Services_proofs` | `OwnAnswerHolds`, `ContactsHostOrTwinHolds` | `OneCaller` |
| `Services_proofs` | `RoundTrip`, `ShownExactly` | a 32-bit word |
| `Services_proofs` | `BlocksDisjointHolds`, `LocksGivenBackHolds` | `HeapAssumption` |
| `Services_proofs` | `TextsWholeHolds`, `SleeperWokenHolds` | `OutputAssumption` (texts are sequences) |
| `Services_proofs` | `ImplementsHeap`, `ImplementsRawOutput`, `ImplementsLookup`, `ServicesContactHostOrTwin` | none; `OneCaller` for the last |

`OneCreator`, `Disciplined`, `Careful`, `OneCaller`, `Unhurried` and `Frequent` are premises of the theorems, not of the modules: they say
which programs the code is right for, and section 7 says what happens to most of the
others.

Each argument is an inductive invariant `IInv`, one lemma per action that it is
kept, and a short derivation of the property:

- **PicoThreads.** Mutual exclusion is about what callers were told; it follows from
  `BeliefInv` (they were told what `held_counts` says) and `TrackingAccurate`
  (`held_counts` is the nesting of the one owner).  `DomainInv` is needed because
  the handler takes the domain lock a second time when it is polled by OCaml
  code and a first time in a blocking section: the count is 2 or 1 by the saved
  state.  `WaitInv` says that a registered core's `my_gen` is at most the current
  generation, and less once it was signalled; with `WaitersAccurate` a signal with
  somebody registered always moves the generation.  For `Refinement`, `SignalledInv`
  adds the converse: whoever sees a new generation was signalled.  A wait maps to
  the step that registers it, a wakeup to the signal's; the release of the mutex and
  the way out of the loop do not show.
- **HandlePool.** While one creator is between its load and its publication nobody
  else moves the counter (`CreateInv`), so the slot it fills is in no object.  An
  object without a slot when the last one is gone never gets one (`Slotless`), as the
  counter never falls: so no object gets its slot while a core believes to hold it,
  and `HoldInv` can say of every lock somebody was told of that it is on the object's
  slot or on none.
- **CondPool.** The same for the second counter (`CondCreateInv`), while other cores
  wait and signal.  `CallInv` says for each place of
  a call which slot it holds, and that it is its object's slot: so
  `pthread_cond_signal` looks where the waiter is.  A slot that is being filled is in
  no object, hence nobody sleeps there, and clearing its `waiters` loses nobody;
  `waiters` of the others is the number of its sleepers (`SleepersInv`).  The same
  facts give `PoolsRefinement`: a signal moves the generation of the one slot in which
  all who wait for its object sleep, and may skip that only when nobody does.
  For a mutex without a slot the theorem promises what the code does: nobody's level
  in it ever rises.
- **Core1Thread.** `ParityInv` counts calls: a domain that ran has asked for its backup
  thread, so the counter is odd whenever the next spawn may come.  `PlaceInv` and
  `RunInv` say where core 1 can be for each place of core 0; the stale
  `core1_finished` of the previous domain is harmless because the join that might
  see it comes after the new domain has reported.
- **EventQueue.** Both sides' knowledge between their steps (`next_head /= tail`,
  `tail /= head`) is stable under the other side's.  `HeadAppends` and `TailTakes`
  compute the abstract sequence after an advance.
- **NetSockets.** `SlotInv`: the control block in a slot is alive and calls back that
  slot.  It holds however sockets are reused.  The converse (`OwnerInv`) is kept
  only when no slot is reused under a control block, hence `Careful`.  `BufInv` says
  that a buffer's slot is held by a fiber, so that reuse never drops one, and that
  `bufs` is the number of such slots.  `StreamInv` says of each TCP socket that what
  the reader took, what is in the buffer and what found no room (`lost`) is, in number,
  what its control block received, that the buffer is in the order sent, and that
  each byte is at most `lost` away from where it would be without loss (`Run`);
  `Careful` keeps every other connection's segments out of the buffer.  No bound on
  what a peer sends is assumed.  `AcknowledgedAccounted` is the sum alone: what is
  missing of the acknowledged bytes is exactly what the callback had no room for.
- **PioScheduler.** `ListsInv` says that no fiber is in `run_queue`, `io_waiters` or the
  waiters of a promise twice, or in two of them, which is `ResumedOnce`; `PlacesInv`
  that the fibers in these lists are the suspended ones, but for those
  whose socket another fiber closed, which is `NotForgotten`.  A list matters by its
  elements only: where the code reverses, appends or filters (`check_io_completions`, the waiters of a settled
  promise), a lemma says what becomes of them.  `Ranks` numbers the places that
  `List.filter` keeps, which describes `Selected` without induction.  `DepthInv` is
  that a child waits for a socket only inside a nested scheduler, so that no
  return leaves it behind, and `CountInv` that `sw.fibers` is at most the number of
  the fibers that count.
- **Clock.** `AccurateInv` says that base plus what has elapsed since the
  synchronisation is the time of day, up to the age of the answer and whole days.
  The timer wraps in between, which the subtraction survives only while less than
  half its period has elapsed: `ElapsedInv` bounds that by the rounds of queries
  since the last answer, and `Frequent` keeps the bound below half a period.
- **Clock, mixed frames.** A frame is mixed only if core 0 stands between its two
  writes or has just passed them, at the same moment (`OvertakenInv`).  From then on core 0's
  wait and core 1's sleep run down together (`MixedInv`), so that when core 1 reads
  again, core 0 still waits.
- **ClockTime.** The factor 15616 is 2^24 - 194 * 86400, so that the sums differ by a
  multiple of a day; the rest is arithmetic piece by piece.
- **Lookup.** While the one caller waits, `dns_done` is down until lwIP answers this
  request, and up exactly with its result.  `RoundTrip` and `ShownExactly` say for
  which addresses the two conversions are right; `ContactsHostOrTwin` is about all of
  them: where the two top bits differ, the address contacted is half a word away.
- **Services.** A step of the composition is a step of one component and leaves the
  others' variables alone, so each component's invariant is proved on its own
  next-state relation and carried over by the `Implements` theorems.
  - *Heap.* `BootInv`: until `main` has declared the sbrk mutex ready only core 0
    allocates, so that `_sbrk` needs no lock before that.  With it `LockInv` gives
    mutual exclusion in `_sbrk` and in malloc.  Hence what a core has read of
    `heap_ptr` is still so when it stores (`ReadInv`), and no byte is two of given,
    kept by malloc and pending for a core (`MemInv`).  Rounding is bounded by
    `RoundUpBounds`, which is what makes posix_memalign's block fit.
  - *RawOutput.* `HolderInv`: the lock word is 1 exactly while one core prints.
    `TextInv`: a copied text stays in its core's buffer, and is the first of the
    call; what is out is its beginning.

Only model-checked: the liveness properties (`StwCompletes`, `WakeDelivered`,
`MainReturns`, `ChildServed`, `Returns`, `LookupEnds`), as the prover reasons about
neither fairness nor ENABLED.  The three violations are counterexamples of TLC.  Every
other property of the runs is a theorem.  Conversely `PoolsRefinement` is proved and in
no run: with it `pools` takes too long; with `MaxGen` 1 TLC finds it to hold.

## 7. Where code and text disagree

The three violation runs are findings in `PROJECT.json`:

1. `fibers_main`: main suspended twice makes `Switch.run` return while main waits
   (pio.ml:501).  `sw.fibers` is decremented on the way, which is why
   `NoPhantomFibers` is an upper bound and not an equality.
2. `fibers_timeout`: the probe of zero bytes never sees data (pio.ml:187).
3. `sockets_overflow`: all of a segment is acknowledged and what fits is kept
   (net_stubs.c:233-242), although the comment says "Acknowledge received data".  On
   the board the window is 5840 bytes and a buffer 4096.  The stream then has a hole;
   how large, and that nothing else is missing, is what `StreamInOrder`,
   `EndAfterAllData` and `AcknowledgedAccounted` say.

Others, which have no violation run of their own.  The first two are stated by a
property that holds, as exactly what the code does; the next six are seen by changing
a constant of a passing run:

- `Val_int` (net_stubs.c:26) drops the top bit of an address and `Int_val` copies the
  next one into it.  The word is in network order, so that the bits are those of the
  last octet: an address that ends in 64 to 191, half of all, is not the one that is
  contacted, although net_stubs.c:708 says "returns IP as integer".  The run `services`
  has such an address, and `ContactsHostOrTwin` says which one is contacted instead
  (a.b.c.d becomes a.b.c.(d + 128 mod 256)); it holds for every address, by theorem.
  `ip_to_string`, which shifts without the sign, is wrong for addresses that end in 128
  or more (`ShownExactly`).
- With the pool full, so that `idx < 0`, `pthread_mutex_lock` returns 0 and locks nothing
  (ocaml_stubs.c:258-271): `LockUnpooled` in `PicoThreads`, `Bound` in `HandlePool`.
  Two cores then both believe to hold the mutex; `MutualExclusion` and
  `ObjectExclusion` are about mutexes that have a slot, and `PoolsRefinement` shows the
  others as mutexes nobody holds.
- `NetSocketsMC.cfg` with `Careful = FALSE`: `socket_alloc` takes CLOSED for free
  (net_stubs.c:118), but a socket is CLOSED, too, before it connects and after its
  peer has closed.  The slot is cleared under its user (a buffer leaks); the old
  control block still calls back into it, and a reset detaches the new connection
  (net_stubs.c:275).  `CallbackReachesOwner` fails.
- `ServicesMC.cfg` with `Callers = {c0, c1}`: two lookups share `dns_done` and
  `dns_result_ip`, and take each other's answers (`OwnAnswer`).  The network is
  core 0's, so no program should do that.
- `ClockMC.cfg` with `MaxFails = 3`: after 2^30 ms (12.4 days) without an answer the
  elapsed time is negative, and so is the index of the digits (clock.ml:151, :112):
  `TypeOK` fails.
- `CondPoolMC.cfg` with `Creators = {c0, c1}`: both cores load the same
  `mutex_count`, and two mutexes share a slot (`DistinctSlots`).
- `Core1ThreadMC.cfg` with `Handshake = FALSE`: `core1_wrapper` sets
  `core1_started` before it clears `core1_finished`, so a join right after a create
  may see the flag of the previous domain (`JoinAfterFinish`).
- `Core1ThreadMC.cfg` with `JoinFirst = FALSE`: the calls of the two cores
  interleave, and a domain's thread is taken for a backup thread
  (`DomainsLaunched`).
- `pico_print` gives the lock back between a text and the end of its line
  (pico_main.c:52-53): another core's text may come between.
- `Tcp_close` drops the waiters of every fiber on the socket (pio.ml:295): a fiber that
  waits for a socket another one closes is never resumed, and `sw.fibers` still counts
  it, so that `Switch.run` goes round for ever.  `NotForgotten` exempts such a fiber, and
  `NoPhantomFibers`, an upper bound on the count, takes it for a fiber that waits.
- A poll may find the core's domain lock already owned by the core, being
  recursive: the handler then runs in OCaml code as well, not only "in blocking
  section" as ocaml_stubs.c:80 says.  `CamlStateMatchesLock` holds in either case.
- `socket_free` (net_stubs.c:142) leaves `recv_len`; a read that was already
  queued when another fiber closed the socket copies from a NULL buffer: create,
  connect, receive, close, read.  The model's users do not read after close.
- A reset leaves the socket in ERROR, of which `pico_tcp_read` says 0, not -2
  (net_stubs.c:388): create, connect, reset, read; the reader waits for its timeout.
- A probe of zero bytes on a CLOSED socket that still holds data says -2, the end of
  the stream; hence `EndAfterAllData` is about reads into a buffer.
- Two datagrams between two reads become one, with the source of the second
  (net_stubs.c:437): receive, receive, recvfrom.
- Frames that mix two synchronisations do occur (core 1 between the two writes of
  core 0, clock.ml:213-214): the time shown is off by the time between them, for
  one frame.
- The 32 bits of an NTP timestamp start again in 2036, and 2^32 seconds are not a
  whole number of days: from then on the clock is wrong by 23296 seconds.

## 8. What is not modelled

- LCD: planned (section 2).  TLS keys: a counter that only grows.
- Link status and disconnection: calls into the driver that keep no state.
- `net.ml`'s blocking handler: no program of the repository installs it; it is one
  sequential loop per call.
- In `pio.ml`: nested switches, promises a program creates itself, `on_release`.
- The library stubs, boot code, configuration and the demo: no state, or a fixed
  sequence of SDK calls.
- Weak memory: the barriers of the code are taken to do their work.
