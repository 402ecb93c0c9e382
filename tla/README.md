# Ariel OS: TLA+ models of the scheduler, its primitives and the platform around it

Ariel OS is an operating system library for microcontrollers. This project models
its core in TLA+: the runqueue and the preemptive scheduler with everything that
blocks on it, the multi-core scheduler, the security contexts of its CoAP library,
and the parts of the platform that hold state of their own (drivers, buses, boot,
links, stacks). TLC checks the models on small instances; TLAPS proves every safety
property that the passing runs check, for any number of threads, priorities, flags,
mutexes, messages, deadlines, contexts, clients, pages, stack and array sizes, some of
them under conditions that the theorems name. Liveness is model-checked only.

Paths are relative to the repository's `src/` unless they start with `book/`.
`PROJECT.json` lists, for every definition that models code, the lines it models,
and for every hazard the property that watches it.

## Inventory

| Component | State | Operations | Hard behaviour | What makes it correct |
|---|---|---|---|---|
| `ariel-os-runqueue` | bit per non-empty queue, tail per queue, next index per thread | `add`, `del`, `pop_head`, `pop_next`, `advance`, `get_next`, `get_next_filter` | all circular lists share one array; shift widths | it is one FIFO per priority |
| scheduler (`ariel-os-threads`: `lib.rs`, `thread.rs`, `arch/cortex_m.rs`) | thread states, priorities, runqueue, current thread, pending switch | create, exit, yield, park, unpark, `set_priority`, `sched` | calls from interrupt handlers at any time, also while a switch is pending | runqueue = runnable threads; highest priority runs; cooperative within a priority |
| thread flags (`thread_flags.rs`) | flags and wait mode per thread | `set`, `clear`, `wait_all/any/one` | test, block and wakeup in different critical sections | no lost and no spurious wakeup |
| thread list (`threadlist.rs`) | list of blocked threads | `put_current`, `pop`, `remove_current` | ordered by a priority that may change | priority order, FIFO within one |
| mutex (`sync/mutex.rs`) | owner, the owner's original priority, waiters | `lock`, `try_lock`, guard drop | priority inheritance inside `lock` and `release` | exclusion, hand-over, no unbounded inversion, no leaked priority |
| channel (`sync/channel.rs`) | idle, senders waiting, receivers waiting | `send`, `try_send`, `recv`, `try_recv` | a thread reads or writes through the address a blocked thread left | rendezvous: one send for one receive |
| lock, event, wait queue (`sync/`), semaphore (`ariel-os-esp/src/semaphore.rs`) | flag or count, waiters | `acquire`, `release`, `set`, `wait`, `notify_*`, `give`, `take` | wakeup against timeout, interrupt handlers | exclusion, exact lists, no lost give |
| timeouts (`timeout.rs`), `block_on` (`blocker.rs`) | deadline per thread, timer queue | `sleep_until`, `with_deadline*`, `wake` | a timer races the regular wakeup; a deadline that outlives its wait | every timed wait ends; a wake is heard |
| multi-core scheduler (`smp/`, `core_affinity.rs`) | a current thread per core, tokens between the cores | `schedule_on_core`, `sched` on each core | two cores schedule at once, the FIFO is full | a runnable thread runs once or is queued once; the highest run |
| native port (`arch/native.rs`) | a word per thread that its host thread sleeps on | `set_running`, `set_stopped`, release of the critical section | futex wait against wake; slots that are used again | a thread runs only while runnable, no wake is lost |
| `lib/coapcore` | pool of security contexts | EDHOC messages, tokens, protected and plain requests, responses | eviction at the limit, expiry, stale claims | what a request may do is what its peer was granted |
| sensors (`ariel-os-sensors`, `sensors/`) | driver state, trigger signal, reading signal, command channel | trigger, measure, wait, set mode | clients and the driver's task interleave; lost commands | a waiter is heard; a reading arrives; a stop is noticed |
| chip support (`ariel-os-{nrf,rp,stm32,esp}`, `ariel-os-embassy-common`) | taken peripherals and interrupt channels, bus owner, link state | `init`, drivers' `new`, transfers, `control_task`, `connection` | several users of one resource; a device that never answers; events before the wait | one user, configured as asked, the bus is freed, the link follows |
| boot, storage, CoAP identity (`ariel-os-embassy`, `ariel-os-storage`, `ariel-os-coap`) | flash, globals, delegates | `init_task`, `storage::init`, `load`, `lend`, `with` | power failure between steps; tasks that wait for each other | identity survives; boot completes |
| ring buffer (`lib/rbi`, `lib/ringbuffer`), stacks (`ariel-os-rt/src/stack.rs`) | wrapping counters; painted memory | `put`, `get`, `peek`; `repaint`, `peak_usage` | counter wrap; interrupts during painting | a bounded FIFO; the measured peak is the real one |
| macros, build information, logging, boards | | | code generation, constants, formatting | not modelled |

How they interact: the scheduler calls the runqueue; flags, thread list, mutex,
channel, lock, event, wait queue and timers call `set_state` and `set_priority` of
the scheduler; every such call runs in one critical section (interrupts off, on
several cores also the other core), and `schedule()` only makes an exception
pending, so the context switch happens when the critical section ends. Interrupt
handlers call the same functions (`unpark`, `set`, `set_priority`, `notify`). Boot
starts the drivers in an order that the tasks depend on, and the CoAP server takes
its identity from the storage. Drivers own peripherals; sensor drivers share an I2C
bus behind a mutex.

## Modules

    RunQueueOps ---- RunQueueSpec          what the runqueue promises
        |                 ^
        |                 | implements
        +---- RunQueue -- RunQueueSim -- MCRunQueue
        |                       |
        |                       +------- RunQueueProofs
        |                                      |
        +---- Scheduler ------ SchedulerProofs +-------+------------+
        |        |                    |                |            |
        |        +-- Threads ---------+-- ThreadsProofs|            |
        |        |       +--------------- MCThreads    |            |
        |        +-- Mutex -----------+-- MutexProofs  |            |
        |        |       +--------------- MCMutex      |            |
        |        +-- Channel ---------+-- ChannelProofs|            |
        |        |    |  +--------------- MCChannel    |            |
        |        |    +-- implements ChannelSpec       |            |
        |        +-- Timeouts -- Sync +-- SyncProofs   |            |
        |                         +------ MCSync       |            |
        +---- Smp ------------------------------- SmpProofs         |
                 +----------------------- MCSmp                     |
                                                                    |
    OrderedPool --+                                                 |
    Authorities --+-- SecContexts ---- MCSecContexts                |
                           |                                        |
                           +-------------+                          |
                                         +---------------- PlatformProofs
    Sensors, Peripherals, Buses,         |
    BusDrivers, Clocks, Boot,  --- MCPlatform
    Network, Ring, StackPaint, Native

* **RunQueueOps** defines the runqueue as a function from priorities to
  sequences, and its operations on that value. **RunQueueSpec** is the state
  machine over it: the abstract specification.
* **RunQueue** is `runqueue.rs`: `bitcache` (as the set of its one bits), `tail`
  and `next_idxs` with the sentinel 255, every operation on the circular lists,
  and the iterator of `get_next_filter` with the shift at its real width
  (`USIZE_BITS`). **RunQueueSim** runs it in lockstep with the FIFOs, a history
  variable, and states how the lists represent them.
* **Scheduler** holds the scheduler as a record `k` and each of its methods as an
  operator from `k` to the next `k`, because the methods are called in sequence
  inside one critical section (a mutex release is `set_priority`, then
  `set_state`). A failed assertion is recorded in `k.fault`. `k.pend` stands for
  the pending PendSV exception. It uses the FIFOs of RunQueueOps: the proved
  refinement justifies the replacement, and `RunqueueMatches` with `NoFault`
  discharges the obligation under which it holds (a thread in one runqueue is
  never added to another).
* **Threads** is the system that calls the public API in any order. A thread acts
  while it is current and no switch is pending; `unpark`, `set` and
  `set_priority` happen at any moment, as from an interrupt handler. `pc` is the
  flag wait a thread has not returned from, since the waits are loops over
  critical sections. `ContextSwitch` is `sched()`; with an empty runqueue it
  stays in the `wfi` loop, so it is not enabled.
* All systems on the scheduler start as the code does: threading has not started,
  `BootCreate` creates the autostart threads, and `StartThreading` asks for the first
  switch. A proof can then start from the empty scheduler, and TLC explores all
  assignments of priorities.
* **Mutex** and **Channel** add one primitive each to the scheduler. `lock()` and
  the blocking calls are two actions, up to the critical section's end and after
  the thread runs again. **ChannelSpec** is the rendezvous the channel promises.
  In Channel a blocked thread's state carries an address; reading the address of
  the Channel as a message gives any value, a message or garbage.
* **Timeouts** has the deadline of each thread and the timer queue; its operators
  (`SetDeadline`, `ClearDeadline`, `Wake`, `TimerHandler`) work on the scheduler's
  record. **Sync** puts Lock, Event, WaitQueue, the ESP semaphore, park, sleep and
  `block_on` on top. A system uses the primitives of its profile, so that two of
  them meet in one run without the product of all. A timed wait is the entry to
  the list, the wakeup by a notifier or by the timer, and the thread's own
  `on_timeout` when it runs again.
* **Smp** is the same scheduler built with `multi-core` for the RP chips: one
  runqueue without the running threads, a pending and an entered PendSV per core,
  and the token FIFO between the cores. `ThreadPrios` are the priorities given to
  threads other than the idle ones.
* **OrderedPool** is `oluru.rs` as operators; **Authorities** is the decision of
  `seccfg.rs` and `ace.rs` on what a credential or a token grants; **SecContexts**
  is the request handler of `seccontext.rs`: a request is extracted (and may take
  a context out of the pool), handled, and answered (and may put it back), each a
  step, with time that makes tokens expire. A cryptographic message is a record
  that says who made it; verification compares that. Every error return between the
  moment a context is taken out and the moment it is put back drops it, as the code
  does, and the `expect` of `request_is_allowed` on the request code 0, which a peer may
  send inside OSCORE, is a fault after which nothing is served.
* **Sensors**: clients of the I2C drivers and of the GNSS driver, step by step
  between awaits (`state.get`, `clear`, `signal`, `poll`), the reading signal with
  its single waker, the bounded command channel.
* **Peripherals**: which feature takes which peripheral in `init_task` on each
  chip, from the debug UART and the board's `init` to the Wi-Fi, the applications'
  driver constructions, the interrupt channels of
  GPIO inputs. **Buses**: the frequency search (`highest_freq_in`) of each chip,
  and devices that share an I2C bus behind a mutex with the software timeout or
  the one of the HAL. **BusDrivers**: what the constructors of GPIO, I2C, SPI and
  UART drivers write to the hardware. **Clocks**: the STM32 clock trees that
  `rcc_config` selects, computed against their stated frequencies.
* **Boot**: `init_task` from the executor to the threads, the storage with its
  marker, the stored credential, delegates and hooks, the waits for the stacks,
  with power failures and flash errors at any step, those of the erasure included.
  **Network**: the Wi-Fi tasks of the ESP and CYW43 and the LTE-M control task, with the
  panics of their start-up (`set_config`, `start_async`, `configure`). **Ring**: the ring
  buffer with 8-bit counters. **StackPaint**: the stack set-up of the ports, painting and
  measuring with calls, returns and interrupts in between. **Native**: the native
  port, with the futex operations as atomic steps.
* **RunQueueProofs** (the FIFOs, the operators of RunQueueOps, the circular lists) and
  **SchedulerProofs** (one lemma per method of the scheduler) are the ground on which
  **ThreadsProofs**, **MutexProofs**, **ChannelProofs**, **SyncProofs** and **SmpProofs**
  prove the theorems about the modules of these names. **PlatformProofs** has those of
  SecContexts and of the parts of MCPlatform; of RunQueueProofs it uses the lemmas on
  sequences.

Operators whose comment starts with "Mutant" are wrong variants of the operator
after them; no specification uses them. They are listed in `PROJECT.json`, and
each shows that a property notices the mistake.

## Runs

| Run | Instance | Result |
|---|---|---|
| `runqueue` | 4 threads, 3 priorities, 32-bit usize | passes: the lists always represent the FIFOs, `get_next` and the filtered search (for every predicate) are right, `RunQueueSpec` is implemented |
| `runqueue_wide` | 2 threads, 32 priorities, 32-bit usize | **violation**: `iter_from` loses all lower priorities at level 31 |
| `threads` | 3 slots, 2 priorities, 2 flags, masks of one and of two flags | passes: runqueue = runnable threads, highest priority runs, no assertion fails, flag waits are exact, cooperative within a priority |
| `mutex` | 3 threads, 3 priorities, 1 mutex | passes: exclusion, no lost release and no failed assertion (`MutexSound`), inheritance and its end, and, under fairness, no unbounded inversion |
| `mutex_nested` | 2 threads, 3 priorities, 2 mutexes | **violation**: the inherited priority is dropped by releasing another mutex |
| `channel` | 4 threads at 2 priorities that change while a thread does not wait, 2 senders, 2 receivers | passes: no lost wakeup, no uninitialized result, order of service, refinement of the rendezvous |
| `channel_two_senders` | 2 senders, 1 receiver, 2 messages | **violation**: the receiver of a second sender reads the Channel's bytes |
| `sync` | 2 threads at 2 priorities, interrupts, time up to 3, six profiles | passes: exclusive locks, lists hold exactly the blocked threads, no semaphore give is lost, deadlines are armed, wakers heard, timed waits end |
| `smp` | 2 cores, 3 threads and the idle ones, 3 priorities, a FIFO of depth 1, one thread that may be pinned | passes: a runnable thread is queued once or runs once, no request to reschedule is lost, one call is followed by the right assignment |
| `smp_early` | 2 cores, 2 threads that may be woken before their core has left them | **violation**: a thread runs on both cores |
| `coap` | a pool of 3 contexts, 3 policies, one request at a time, expiry | passes: the pool stays sorted and key IDs unique, requests are authorized, responses protected, a new context evicts one of the least worth |
| `platform` | see below | passes |

`platform` bundles ten modules that share no state: `part` says which of them a
behaviour is about, the others stand still. That is one TLC run for ten
independent questions, not a composition. The constants are sets of what an application
may choose (`FeatureSets`, `Pins`, `Ranges`, `Overrides`...); the run takes small ones, and
searches SPI frequencies in steps of 500 kHz (`SpiStep`) where the code's step is 1. Each part was also run alone, where its
actions all take place except one disjunct of Boot that its constant
`MarkerReadFails` switches off. Distinct states of the parts:

| Part | States | Property | What it says |
|---|---|---|---|
| Sensors | 265 408 | `SignalsHeard`, `ReadingArrives` | no waiter and no stop command is missed; a lone client gets its reading |
| Peripherals | 56 606 | `OneUser` | no peripheral and no interrupt channel has two users, `init_task` panics only for what a task took, or for two UART features |
| Buses | 41 796 | `BusFreed`, `AsConfigured` | every call on a shared bus returns; the frequency is the best in the range |
| BusDrivers | 3 706 | `AsConfigured` | what the hardware gets is what was configured |
| Clocks | 84 | `AsConfigured` | the clock trees give the frequencies they state |
| Boot | 14 142 | `BootSafe`, `BootCompletes` | the announced identity survives power failures, nothing is used before its initialisation; boot ends |
| Network | 876 | `LinkFollows` | the link follows the access point, the commands and the modem, unless its task panicked at the start |
| Ring | 37 843 | `MemoryExact` | a queue of its capacity across the counters' wrap |
| StackPaint | 3 209 | `MemoryExact` | the measured peak is the depth of what was not painted over |
| Native | 1 456 | `NativeRuns` | a thread runs only while runnable, none sleeps on a word that is set |

Bounds. Apart from time in `sync` and `coap`, and the numbers of power failures,
link changes, calls and constructions in `platform`, nothing is unbounded, so a run
explores all behaviours of its instance. Four threads give circular lists in which
head, tail and a middle element differ from each other and from the deleted one, and
two queues in use while a third is empty. Three slots and two priorities give a
current thread, one that shares its priority and one that preempts it; created
threads start at priority 0 and reach 1 by `set_priority`. Two flags with the masks
{0} and {0, 1} tell `wait_all`, `wait_any` and `wait_one` apart. Three priorities and
three threads are the classical inversion scenario. Two senders and two receivers give
lists with more than one member on either side. In `sync` two threads and interrupt
handlers are the notifier, the waiter and the timer that race; time up to 3 with
deadlines 1 and 2 lets a deadline pass before, in and after a wait and lets a second
wait follow. A FIFO of depth 1 in `smp` is full as soon as a token is on its way; the
real ones are deeper, and the depth only matters when it is reached. Three contexts are a
full pool with a lowest, a middle and a highest entry. Two power failures hit a boot
and its repetition.

Deadlock is checked in the passing runs except `sync` (every thread may have ended),
`coap` (a panic stops the server) and `platform` (a search, a construction or a boot
ends), and switched off in
`mutex_nested`, where threads that lock two mutexes in opposite orders really block
each other.

Fairness. `mutex` assumes that the hardware takes a pending context switch, that a
thread which the core runs returns from `lock()`, and that a thread with a guard drops
it while it runs. Nothing is assumed of threads without a guard: a middle priority
thread may run for ever, which is the point of the property. The model's threads do not
park while they have a guard, and do not lock a mutex they own: both are for the caller
to avoid. `sync` assumes only that time passes and that the timer interrupt is taken;
notifiers owe nothing, so that `TimedWaitEnds` rests on the timer. `platform` assumes that an executor polls a
woken task (the drivers' tasks, a client, `init_task`, the hooked and network tasks), that a
sensor's data become ready, and that a timeout fires; devices, access points and modems
owe nothing.

### Findings

* `iter_from` (`runqueue.rs:199`) shifts by `rq + 1`, which is the width of usize
  for level 31 on a 32-bit target, while the type is documented to support 32
  levels. With 16 levels (`SCHED_PRIO_LEVELS`) the scheduler stays below it.
* `Mutex::release` (`mutex.rs:161`) restores the priority recorded when that mutex
  was locked. With two mutexes held, a boost through the other one is lost while
  its waiter still waits.
* `Channel::send` (`channel.rs:81`) stores the address of the channel instead of
  that of the message when other senders wait already. The passing channel run
  therefore says nothing of the message's content; `channel_two_senders` does.
* Multi-core (`cortex_m.rs:304`): a thread that has blocked on one core can be
  woken and picked by the other core before the first one has switched away.
  `smp` therefore wakes threads only after that (`EarlyWakes = FALSE`).

### What holds only under a condition

Some constants switch on behaviour under which a property fails. The runs have them
off; TLC finds the counterexample with them on.

* `UnparkSleepers` (Sync): `sleep_until` leaves its deadline behind when the sleeper
  is unparked early. The stale timer later sets the thread Running out of
  `Lock::acquire`, without the lock (`Exclusive`); `TimedWaitEnds` fails as
  well. An exited thread with such a deadline is set Running.
* `IsrKinds` with `"RecursiveMutex"` (Sync): the owner of a mutex taken in an
  interrupt handler is `NonNull::dangling()`, which is thread 0's pointer as well
  (`semaphore.rs`).
* `MoveWaiters` (Channel): `set_priority` of a thread in a wait list does not move
  it; `ServedInOrder` fails, everything else holds.
* `HighestRunOnAll` (Smp, not in a run): after two calls in a row the cores may settle
  with a higher thread waiting, although `book/src/multithreading.md` says that the
  scheduler assigns the C highest threads.
* `Reconstruct` (Peripherals): the guard against a second `new()` of an I2C or SPI
  driver is a static inside a generic function, one per instantiation.
* `MarkerReadFails` (Boot): a read error of the marker makes `storage::init` erase
  everything, the server's identity included. `NetworkFirst`: a hooked task that
  waits for the network stack before it calls `with` stops the boot.
* `WaitClears` (Network): if `wait_for_event` discarded earlier events, a
  disconnection between the look at the state and the wait would be missed.
* `ReuseSlots` and `SpuriousWakes` (Native): an exited host thread sleeps for ever on
  the word of its slot, and `wake_one` for a new thread in that slot may wake it
  instead; `release` waits once, so that a spurious return lets a blocked thread run.

### Where the code does not do what its comments say

Met while translating. They are in the models as the code has them, the properties named
hold of the code with them and say so in their comments; no run is about them alone.

* `request_is_allowed` (`scope.rs:102-106`) expects "Request codes are != 0". The code of
  a request inside OSCORE is the peer's: an authenticated peer with an AIF scope that
  sends 0 makes the server panic while its context is out of the pool
  (`ResponseProtected`).
* `extract_oscore_edhoc` takes the context out (`seccontext.rs:452-468`) and returns early
  when the options or the payload do not fit the copy (519-524, 528-532), and
  `process_edhoc_in_payload` (601-607) when an EDHOC request's payload is not CBOR, before it
  looks at the stage. The comment on `taken` speaks of what looks like a message 3;
  contexts that were established long ago are dropped as well (`EvictsLowest`).
* `init_task` unwraps errors that "should only occur on compile-time configuration errors"
  (`ariel-os-embassy/src/lib.rs:195-197`). With the features `debug-uart` and `uart`, which
  exclude each other nowhere, `debug_uart::init` takes a UART that `uart::init` then
  unwraps (`nrf/src/uart.rs:334,354`, `stm32/src/uart.rs:435`), so that this build never
  starts (`OneUser`).
* `RingBufferIndex::new` (`rbi/src/lib.rs:32-33`) says that only `floor(log2(size))`
  elements are used; it is the largest power of two that is not above the size
  (`MemoryExact`).
* `repaint` (`stack.rs:187-189`) says that what an interrupt writes meanwhile is included
  by the next `peak_usage`. That is so below the byte that repaint has come to; further up
  it is painted over (`MemoryExact`).

Smaller observations, met while translating: `with_deadline` answers false also when
the notification came before the deadline; `ead_3.take()` (`seccontext.rs:629`) makes
the later check for unprocessed critical items dead; `ace.rs:77` documents that the latter
value wins, the code keeps the former; a second client of a sensor can take the first
one's reading; a trigger during a measurement is answered with that measurement; the
software I2C timeout is reported as `NoAcknowledge`, not `Timeout`; `new_with` of the
ring buffer truncates a length of 256 to 0; a thread that inherited a priority ends up
behind its equals after `release`.

## Proofs

All theorems are about every value of the constants under the assumptions that the
modules state: `N_THREADS` in 1..254 and `N_QUEUES` at least 1 (`SizeAssumption`), flags
among the 16 bits (`FlagsAssumption`, the timeout and waker flags among them in
`WakeFlagsAssumption`), masks, start priorities, deadlines, affinities, senders and
receivers over the sets they are taken from (`MasksAssumption`, `StartPriosAssumption`,
`ThreadPriosAssumption`, `DeadlinesAssumption`, `AffinityAssumption`, `PeersAssumption`,
`PinnedAssumption` with a slot for each idle thread), a FIFO that holds a token
(`FifoAssumption`), and that the markers "no mutex" and "uninitialized" are no mutex and
no message (`MutexesAssumption`, `MsgsAssumption`). Of the CoAP server: a pool with room,
and tokens that are not named as credentials (`PoolAssumption`, `NamesAssumption`). Of the
platform: arrays have lengths, one of them 0, since `new_with` may lose its array
(`LengthsAssumption`); threads and host threads are not the markers for nobody and for main
(`HostsAssumption`); a stack holds its first frame and a push takes room
(`StacksAssumption`); features and pins are those of the chips, ranges are pairs of
numbers, baud rates are ones that every HAL has (`FeaturesAssumption`,
`PinsAssumption`, `RangesAssumption`, `BaudsAssumption`); hooks are not named as the tasks
of the system (`HooksAssumption`). TLC evaluates them in the runs.

**The runqueue** (`RunQueueProofs`). `ListsTypeCorrect`, `ListsRepresentFifos`,
`GetNextIsFifo`, `FilterIsFifo`, `ListsImplementFifos`. The inductive invariant is
`RunQueueTypeOK /\ Represents`: `Represents` is inductive with the types because it
relates the lists to the FIFOs element by element (tail = last element, next
index = cyclic successor, no next index for threads outside, bit = non-empty).
The refinement follows step by step, since the history variable takes exactly the
abstract step; the return values need `GetNextCorrect` and the fact that a list
is longer than one exactly when its tail is not its own successor. `FilterIsFifo`,
the filtered search, holds with fewer runqueues than usize has bits; with as many it
does not (`runqueue_wide`).

**The scheduler** (`SchedulerProofs`, `ThreadsProofs`). `TypeCorrect`,
`RunqueueIsRunnableThreads`, `HighestPriorityRuns`, `NoAssertionFails`,
`FlagsNeitherLostNorSpurious`, `SchedulingIsCooperative`. None of the invariants is
inductive alone: that `pop_head` finds the current thread at the head (no fault) needs
that the current thread is the next one of the runqueue (`HighestRuns`) and runnable
(`RunqueueMatches`); that set_state keeps `HighestRuns` needs that the runqueue
is not corrupted (no fault). `KInv` in SchedulerProofs is their conjunction, and
there is one lemma per method of the scheduler (`WakeStep`, `StopStep`,
`SetPriorityStep`, `YieldStep`, `SchedStep`, `CreateStep`...) that says it
preserves `KInv`. They rest on lemmas on what `add`, `pop_head`, `del` and
`advance` do to members and heads of the FIFOs. ThreadsProofs adds the flag part:
a thread in a wait is runnable with the wait satisfied, or blocked in the mode and
mask of the wait with the wait not satisfied; this is `FlagInv`, stronger than
`FlagWaitExact` in that it names the blocked state. The action property `Cooperative`
follows from the same invariant: the method lemmas also say which heads of the FIFOs a
method leaves in place. They are stated for any set of thread states, so that the
primitives cite them as well.

**The mutex** (`MutexProofs`). `MutexIsSound`: exclusion, exact wait lists, no failed
assertion, for any number of mutexes that threads lock in any nesting. Its invariant
`MInv` adds to `KInv` that a thread has a mutex exactly when it is the owner, and that a
thread is in a list exactly when it is blocked in the `lock()` of that mutex. Inheritance
and its end (`InheritsUnlessNested`, `RestoredUnlessNested`) are proved as long as no
thread locks a mutex while it has another (`Unnested`), the condition whose absence the
run `mutex_nested` shows to matter; `OneMutexInherits` has a system that meets it. They
need `PInv`: the priority an owner will get back is its own, and wait lists are sorted
by the priorities of now, since a waiter, owning nothing, is never boosted.

**The channel** (`ChannelProofs`). `ListIsExact`, `ResultsAreWritten`,
`ServedByPriority` (when `set_priority` is not called for a thread in the list,
`~MoveWaiters`), `ChannelIsRendezvous` (the refinement of ChannelSpec, step by step).
`CInv` says which state and address a blocked thread has for each call. What the runs
cannot show, because the passing one is blind to contents and the other one is a
violation: `ReceivedUnlessQueued`, messages arrive unchanged as long as no two senders
wait at a time, and `OneSenderDelivers`, with one sender they always do.

**Lock, event, wait queue, semaphore, deadlines, `block_on`** (`SyncProofs`).
`LocksExclusive`, `ListsAlwaysExact`, `GivesNotLost`, `DeadlinesArmed`, `WakersHeard`,
when no sleeping thread is unparked (`~UnparkSleepers`; the section above says what
happens otherwise), and for `LocksExclusive` also when no interrupt handler uses a
recursive mutex. The invariant `SInv` has four parts, each needing the others:

* `TInv`: `KInv`, a timer queue entry for exactly the deadlines, at their times, and an
  alarm that is not after the first. The handler wakes any number of threads in a loop,
  and re-arms with a time that is halved until the hardware accepts it.
* `Fine(t)`, per thread: which thread states, deadlines, futures and lists go with which
  call. A thread in a list runs only if its deadline has just ended its wait, and then
  the entry is gone, so that no second timer hits it.
* `LockOK`: there is one owner, where a thread that `release` has woken and whose
  `acquire` has not returned counts as owner.
* `GiveOK`: while a taker is blocked, at least as many woken takers that are no longer
  in the list are on their way as there are units to take. `NoLostGive` alone is not
  inductive: of two units given, one woken taker takes one only.

Who has the mutex is a second invariant (`HasOK`), about the semaphore alone.

**Several cores** (`SmpProofs`). `RunsOrWaitsOnce`, `NoRequestLost`,
`OneCallIsFollowed`, when no thread is woken before its core has left it
(`~EarlyWakes`, see `smp_early`), for any number of threads, priorities and affinities
and any FIFO depth. The invariant says that a runnable thread waits in the runqueue or is
current on one core (`Placed`), that a core whose thread has stopped is asked to switch
(`StoppedAsks`), that each core's idle thread is there (`IdleOK`, so that sched finds
one), and that a waiting thread has a core that runs nothing lower or that is asked to
reschedule (`Requested`). The last theorem adds a count of the calls since the highest
threads ran.

**Security contexts** (`PlatformProofs`). `PoolIsSound`, `OnlyAuthorized`,
`EvictsTheLowest`, `ResponsesProtected`. The invariant `SecInv` is that the pool is a sorted
permutation without a key ID twice, and that a context in use has exactly the claims of
the peer it was made for (`OfPeer`). The latter is what makes `Authorized` inductive: a
request is served with the claims of the context, so they must be right before any request
comes. Key IDs stay apart because `cown_but_not` chooses one that no entry has, and
because `touch` moves entries as a permutation does (`MovedFacts`, `TouchFacts`). The first
three hold for any number of requests in flight. `ResponsesProtected` is for
`MaxInFlight = 1`, where the request is answered before the next is extracted, as the
server's loop does; `ResponseInv` says that the context which the response needs is still
in the pool, in the stage it had. What is lost on the way is stated, not excluded: an
error drops at most the context that its request names, and after the panic on code 0
nothing is in progress.

**The platform** (`PlatformProofs`). Each part has an inductive invariant of its own; the
theorems are about the specification of the run.

* `ThreadsRunWhenRunnable`: `HostInv` adds to `NativeRuns` that the word of a thread is 1
  exactly when it is Running, that one host thread is in the critical section, and that a
  host thread asleep on a word that is 1 has a `wake_one` coming from there. For fresh slots
  and a wait that returns when woken (`~ReuseSlots`, `~SpuriousWakes`; without them it is
  false, see above).
* `MemoryIsExact`, the ring buffer: `RingInv` says that the array under the mask,
  from the read counter on, is the queue. The counters wrap at 256, which every capacity
  (a power of two up to 128) divides, so that masking commutes with the wrap.
* `MemoryIsExact`, the stack: `PaintInv` says that a dirty byte was written since the
  repaint began or is still ahead of it (`DirtyBounded`), and that the lowest byte
  written and not painted over is dirty, as are the frames in use while repaint runs
  (`DirtyEnough`).
* `SignalsAreHeard`: `SensorInv`, that a client which polls is woken or is the one waker
  of the signal, and that a driver which selects after it was told to stop has a command in
  its channel or a client about to put one there. The types carry a part of it: which
  step of the driver's task goes with which driver.
* `BootIsSafe`: `BootInv` ties what is in flash to what was announced (`IdentityOk`), the
  step of `init_task` to the globals that are ready (`ReadyOk`), and the hooks' replies
  to what the builder has (`HooksOk`), through every step at which power may fail. The
  marker must be readable (`~MarkerReadFails`, see above).
* `PeripheralsAreOwned`: `PeriphInv` says what is gone after each step of `init_task`, that
  users only have what is gone, and that the tables of the features of a chip
  are disjoint (`TakesOwned`), which is proved feature by feature, but for those of the
  debug UART and the UART drivers, which always overlap (`UartsOverlap`): with both,
  `init_task` never passes `uart::init` (`Exclusive`). For
  applications that do not construct a driver twice (`~Reconstruct`, see above).
* `HardwareIsAsConfigured`: `DriverInv` and `ClockInv` say which function of the
  configuration the registers are; what is left is a proof for every chip family and
  board, by computing. `BusInv` is the invariant of `highest_freq_in`: while it raises, the
  frequency before the present one is below the range (`PassedTooLow`), so that the
  present one is the least in it if any is; when it ends, nothing in the range is above.
  For the code's step of 1 kHz (`SpiStep = 1`), which divides the highest frequency of
  every chip, as the 500 kHz of the run do: a step that does not would leave the table.

TLC checked these invariants, as invariants of the parts, before they were proved: `SecInv`
with `ResponseInv` in the 105 062 states of `coap`, the others in the states of the table
above, `BusInv` with `DriverInv` and `ClockInv` in 54 863 states with a step of 1 and
small ranges.

Recursive definitions. Nothing in the proved modules is a RECURSIVE operator; loops of the
code are recursive functions (the iterator of the filter, the loop over the woken
threads, the halving of a sleep). That such a function satisfies its definition, and
that its values have a property, is proved by looking at the least argument for which
it would fail, which needs no induction rule (`Iterate`, `HalvedExists`, and `Visits` in
RunQueueProofs).

`TypeCorrect` and `ListsTypeCorrect` replace a check of the types by TLC; the types of
Mutex are part of `MutexSound`, those of the other modules part of the inductive invariants
of their proofs.

**Only model-checked**: liveness (`NoInversion`, `TimedWaitEnds`, `ReadingArrives`,
`BusFreed`, `BootCompletes`, `LinkFollows`), which needs fairness and ENABLED and is outside
the prover's reach. The four violations are counterexamples of TLC; that the same
properties hold when their cause is excluded is proved where a condition is named
(`Unnested`, `OneSender`, `~EarlyWakes`, fewer runqueues than bits).

## Not modelled

* Code generation, constants and formatting: macros, `ariel-os-buildinfo`, logging,
  board definitions (but for the pin that one board's `init` takes), the debug output (but
  for the UART it takes; that of `esp-println` is not an `OptionalPeripherals` one); the book's generator and the examples.
* External crates: executors, network and USB stacks, the radio and modem drivers,
  the flash format, cryptography and CBOR. They appear as the steps that the code in
  `src/` sees of them.
* Data without control: sensor values, units and labels, the conversion of GNSS time,
  identifiers, credentials' encodings, the parsing of scopes, the CoAP client.
* The ESP32-S3 multi-core port, which is switched off (`book/src/multithreading.md`);
  the start of the second core; register saving and the trigger of the switch on RISC-V
  and Xtensa, which the scheduler abstracts to the same `sched` step.
* Of the modelled parts: thread names, `thread_blocklist` as links (a wait list is a
  sequence), relocking an owned mutex, priority changes of a thread that waits for or
  owns a mutex (its documentation forbids it), calls outside of a thread context that
  panic, `create` without a free slot, which panics, and `create` in interrupt handlers.

## Plan

Every safety property of the passing runs has its theorem. What remains open are the
conditions under which some are proved: responses with several requests in flight
(`MaxInFlight > 1`, which a server with concurrent handlers would need), host threads that
reuse a slot, and the content of channel messages with several senders, for which the
code has to change first. The parts in "Not modelled" that hold state, foremost the S3's
second core, come next when the code enables them.
