# TLA+ models of the OHOS L0 adapter

The repository brings OpenHarmony's L0 system to boards that run a native RTOS.
It holds a FreeRTOS kernel (V10.3.1, changed by the port in how critical sections
save the interrupt mask), a CMSIS-RTOS layer over it, the hardware abstraction
layers OpenHarmony asks for, and the board code of an emulated target. Paths
below are relative to `src/code/`; `freertos/` stands for
`native_system/rtos/freertos/`, `hals/` for
`ohos/device/qemu/L0_xts_demo/driver/hals/` and `board/` for
`ohos/device/qemu/L0_xts_demo/liteos_m/board/`.

This directory models the parts in which several tasks, interrupts, callbacks,
failures or restarts meet. `PROJECT.json` maps every definition to the lines it
models and lists the hazards with the properties that watch them.

## 1. Inventory

| Part | Files | State it keeps | Operations |
|---|---|---|---|
| Scheduler core | `freertos/tasks.c` | ready lists, two delayed lists, suspended, pending ready and termination lists, tick and overflow count, next unblock time, pended ticks, scheduler lock, pending yield, notification of each task | block, wake, tick, suspend and resume the scheduler, switch; create, delete, delay, suspend, resume, notify; sleep without ticks |
| Lists | `freertos/list.c` | links, owner, index, count | insert sorted or at the end, remove, visit the next |
| Queues, semaphores | `freertos/queue.c` | count and storage, two event lists, two lock counts | send, receive, peek, take, give, reset, overwrite, the same from interrupts |
| Mutexes | `queue.c`, `tasks.c` | holder, recursion count, held count, base and inherited priority | take, give, recursive take and give, time-out, priority change |
| Stream and message buffers | `freertos/stream_buffer.c` | ring with head and tail, trigger level, a waiting task on each side | send, receive, next length, reset, set trigger level |
| Software timers | `freertos/timers.c` | two sorted timer lists, a command queue, the daemon task | start, stop, change period, delete, change mode, pend a function, expire |
| Event groups | `freertos/event_groups.c` | bits, waiters with what they wait for | set, clear, wait, synchronise, from interrupts through the timer daemon |
| Co-routines | `freertos/croutine.c`, `queue.c` | lists like those of tasks, the scheduler's own tick count | create, schedule, delay, send, receive |
| Atomic operations | `freertos/include/atomic.h` | the caller's word | compare and swap, add, subtract, or, and, xor, nand |
| CMSIS-RTOS2 | `freertos/cmsis/Source/cmsis_os2.c` (twice in the tree) | memory pools, timer callbacks, kernel state | objects and threads over the kernel, thread flags, pools, kernel lock |
| CMSIS-RTOS1 | `cmsis_os1.c` | mail queues | adapters over CMSIS-RTOS2 |
| WiFi station | `hals/communication/wifi_lite/wifiservice/source/wifi_device.c`, `wifi_device_util.c` | table of networks and its file, status, listeners, connection state, network in use, two locks | enable, disable, scan, add, remove, list, connect, disconnect, register |
| WiFi hotspot | `.../wifi_hotspot.c` | status and configuration of the access point | set configuration, enable, disable, getters, station list |
| UART, I2C, GPIO, ... | `hals/iot_hardware/wifiiot_lite/` | mutexes and semaphores per port, table of pin callbacks | init, read, write, register, deinit |
| File HAL | `hals/utils/file/hal_file.c` | none of its own: descriptors of the file system | open, read, write, seek, stat, close |
| Ethernet | `board/driver/net/lan9118_eth_drv.c` | registers of the MAC and the PHY | initialise, read and write registers, transfer frames |
| WiFi aware, board start-up, demo, vendor, mbedtls | see `PROJECT.json` | none or one-time | adapters, initialisation, headers |

How they interact: every blocking service calls `tasks.c` to block and to wake;
interrupts call the `...FromISR` half of the services and the tick; a stream
buffer and thread flags use task notifications; a mutex is a queue of length one; event
groups set from an interrupt and pended calls run in the timer daemon, which
itself waits on a queue; a memory pool is a list under a semaphore, a mail queue
a pool and a queue; the WiFi service is called by application tasks and by the
driver's own task (`HiWifiWpaEventCb`), which calls back into the application
while it holds the event lock; pin and UART interrupts read tables and counts
that tasks write.

What is hard in each part, and so what its properties are about:

* *Queues and scheduler*: a task that decides to block is visible to interrupts
  at every step of the decision; a wake-up must not be lost in the gap, nor the
  context switch it calls for, nor a tick; time-outs cross the overflow of the
  tick count; the order of items survives sends to the front and overwriting.
* *Mutexes*: an inherited priority has to come back whatever the order of gives
  and time-outs, and it changes the key of an item that is in a sorted list.
* *Stream buffers*: reader and writer share the ring with no lock and publish
  with one index each; both sides sleep; messages take two publications.
* *Task control*: tasks on two lists at once; a suspension and an endless wait
  look alike; a deleted task lives until the idle task frees it; the idle task
  stops the clock while interrupts may make work.
* *Timers*: modular time, two lists, and a command queue the daemon itself uses.
* *Event groups*: bits are set and cleared in one walk over the waiters, and a
  time-out looks once more.
* *Co-routines*: an interrupt moves a co-routine off an event list while the
  scheduler moves it off its delayed list.
* *CMSIS layer*: calls made of several kernel calls with others in between;
  several allocations of which one may fail.
* *WiFi*: two locks, callbacks under one of them, a connection state written by
  tasks and by events, and a file between restarts; an access point whose driver,
  status and address change under different locks or none.
* *Devices*: tables and counts shared with interrupts; transfers that go on after
  a call gave up on them.

## 2. Modules

| Module | Models | |
|---|---|---|
| `Kernel` | the scheduler core as operators from a kernel state to a kernel state | used by `Queue`, `TaskControl` |
| `Queue` | every blocking queue call step by step, interrupts, ticks, switches | refines `BoundedQueue` |
| `BoundedQueue` | what a queue promises: atomic calls | abstract |
| `QueueStorage` | storage, pointers and order of a queue's items | refines `Deque` |
| `Deque` | what the storage promises | abstract |
| `Mutex` | mutexes and priority inheritance | |
| `TaskControl` | creation, deletion, delays, suspension, notifications, scheduler lock | over `Kernel` |
| `Tickless` | the idle task that stops the tick | |
| `LinkedList` | `list.c` link by link | refines `OrderedList` |
| `OrderedList` | a sequence of items with a cursor | abstract |
| `StreamBuffer` | sends and receives at each access to the ring | refines `ByteStream` |
| `ByteStream` | a bounded stream of bytes | abstract |
| `EventGroup` | an event group with the functions pended on it | refines `Rendezvous` |
| `Rendezvous` | tasks that meet | abstract |
| `Timers` | the daemon, its lists and its command queue | |
| `CoRoutine` | co-routines, their scheduler, and a queue they share with an interrupt | |
| `Atomic` | the operations of `atomic.h` as a load and a store | |
| `CmsisObjects` | semaphores, mutexes, message queues, event flags, timers of `cmsis_os2.c` | |
| `CmsisKernel` | state and lock of the kernel | |
| `Threads` | threads: creation, states, ends, enumeration | |
| `ThreadFlags`, `MemoryPool`, `MailQueue` | the parts their names say | |
| `WifiDevice`, `WifiHotspot` | station service; access point | |
| `IotUart`, `Gpio`, `HalFile`, `Lan9118` | device layers | |
| `QueueProofs`, `LinkedListProofs` (with the storage of queues, the Ethernet controller and mail queues), `MutexProofs`, `StreamBufferProofs` (with co-routines and the idle task that stops the tick), `EventGroupProofs` (with memory pools, thread flags and the objects of the CMSIS layer), `TaskControlProofs` (with the kernel lock and threads), `TimersProofs`, `WifiProofs` (with the hotspot, the UART, the file HAL and the pins) | theorems | TLAPS |

`MCQueue`, `MCMutex`, `MCStreamBuffer` and `MCWifiDevice` instantiate one module each.
`MCServices`, `MCProgress` and `MCParts` instantiate several, of which one
takes steps in a behaviour (`which`, chosen by the initial state) and the others
stay as they are (in `MCParts`, without any state): these components share no state, so nothing is gained by
interleaving them, and one run covers all. Properties there carry the names of
the components' own, or are the conjunction of a group of them. Operators with a
comment `Mutant:` are wrong variants of the definition after them, used to show
that the properties see a fault there.

### Kernel and Queue

`Kernel` keeps the file-scope variables of `tasks.c` as one record `k`, because a
critical section of `queue.c` calls several kernel functions in a row. A list is
the set of its members: `container[t]` is the list that holds a task's
`xStateListItem`, `event[t]` the one that holds its `xEventListItem`. Event lists
are sorted by priority, so the head is any member of the highest priority: this
allows a superset of the code's FIFO order among equals, and also of
`vTaskSwitchContext`'s round robin. That a list keeps its order and its links is
`LinkedList`'s matter.

`Queue` gives each task a program counter `call[t].at` and the local variables
`xTicksToWait`, `xEntryTimeSet` and `xTimeOut`. One step is one critical section,
or one stretch with the scheduler suspended that interrupts cannot tell apart:

| `at` | code |
|---|---|
| `try` | first critical section of the loop: succeed, fail, or note the entry time |
| `suspend`, `lock` | `vTaskSuspendAll`, `prvLockQueue` |
| `check`, `place` | `xTaskCheckForTimeOut` and the second look, `vTaskPlaceOnEventList` |
| `unlockTx`, `unlockRx` | the two halves of `prvUnlockQueue` |
| `resume`, `ticks` | `xTaskResumeAll`: pending list, then pended ticks one at a time, then the yield |
| `recheck` | the look of a receiver whose time ran out |

Only the running task takes steps. An interrupt (send, receive or tick) may come
between any two, except while `xTaskResumeAll` masks them. Semaphores are queues
whose items have no content. Order and content of items are in `QueueStorage`,
whose actions are what the critical sections do with `pcWriteTo`, `pcReadFrom` and
the storage, from tasks, interrupts and co-routines alike.

### Mutex

What a call does with the scheduler suspended is one step here: no other task runs
meanwhile and interrupts do not use mutexes, so that only a tick can come between,
whose effect is `Expire`. In return event lists are sequences with the item values
they are sorted by. `Expire` lets a finite wait run out at any time, and `wait` is
what is left of `xTicksToWait`: a call that finds its time over has none left
(`tasks.c:3339`), so that it does not block again, and if it finds the mutex given back it
tries once more and then returns. (That `xTaskCheckForTimeOut` leaves the ticks as they are
when the tick count went all the way round, 3319-3327, is left out.) Two assertions of the
source can fail here, so that `configASSERT_DEFINED` is a constant: where it is
TRUE a task whose assertion fails is at `asserted` and nothing goes on (`Halted`), where it
is FALSE, as with the empty default of `FreeRTOS.h:237-239`, the code after the
assertion runs. A task that then lowers its own priority (see finding 5) asks for no
switch and runs on until one comes, as `overdue` says; `SwitchContext` is that switch.
`Sleep` and `WakeUp` stand for everything else a task may block on.

### TaskControl, Tickless, Threads

`TaskControl` is over the same record as `Queue`, and its tasks run and are
interrupted in the same way. `CarefulResume` says whether tasks and interrupts
resume only what was suspended (see finding 4). A task that deletes itself goes on
to its last yield, and is freed by the idle task in two steps. `Tickless` is the
idle task with `configUSE_TICKLESS_IDLE`, cut where interrupts come in; the port's
`portSUPPRESS_TICKS_AND_SLEEP` is external and assumed to do what the comments at
its call ask for. `Threads` has the `xTaskCreate` with its two allocations, and the
calls that look at other tasks (`eTaskGetState`, `uxTaskGetSystemState`,
`xTaskGetHandle`), cut at each critical section.

### StreamBuffer

One writer and one reader, each a task or an interrupt, interleaved at every read
of the other's index, every copy and every publication of an index. `notified`
is the notification state the two sides use. The bytes of a message's length are
stored, so that a reader that gets lost in the ring reads something wrong. Data
are two short runs of bytes; one of the messages contains bytes that look like a
header. `MayPutBack` says whether a receive too small for the next message, or
`xStreamBufferNextMessageLengthBytes`, may be called by a task (see finding 2).
The interrupt side runs to completion before the task goes on. `UndisturbedSpec`
leaves out resets and notifications by others, which a byte stream does not have.

### EventGroup, Timers, CoRoutine

In `EventGroup` a stretch with the scheduler suspended is one step. A deleted group
is freed storage: what a late reader finds there is arbitrary. `Timers` keeps,
beside the modular times, `due` and `age`, which do not wrap; no guard reads them
except the bounds `LateBound` and `AgeBound`: the scheme of two lists works only
while no command and no expired timer waits for a good part of the tick count's
range. With `configASSERT` undefined a full command queue is passed over. In
`CoRoutine` a co-routine blocks by returning, and `uxState` tells where it goes on;
what is between `portDISABLE_INTERRUPTS` and `portENABLE_INTERRUPTS` is one step.

### The CMSIS layer

`CmsisObjects` takes a kernel call as one step, which `Queue` and `EventGroup` show
it to be, and models what the functions around it decide: who may call them, who
allocated the memory, what is returned. `ThreadFlags` and `MemoryPool` are cut at
every kernel call, `MailQueue` at every call of `cmsis_os2.c`. `CmsisKernel`'s threads lock the
kernel for nested regions of their code, open it in others, and end each with
`osKernelRestoreLock` of what its start returned.

### WifiDevice and WifiHotspot

Application tasks, the driver's task (`"wpa"`), the driver's link and the file. A
section under a lock is one step unless a driver or file operation or a loss of
power can be seen inside it. Driver and file operations may fail where
`DriverFails` and `FileFails` say so; `Restart` keeps the file only. The driver,
its events and the listeners of the application are external: what is assumed of
them is in the definitions marked so in the map. A listener may call the service
again from its callback (`NestedCalls`). `WifiHotspot` copies a configuration in
two steps, so that a torn one can be told from a whole one.

### Devices

`IotUart` is a port with two readers: mutex, semaphore and the global count of
bytes, with the driver's callback at any time. `Gpio` is the table of pin callbacks
with an interrupt between any two stores. `HalFile` cuts `HalFileStat` and
`HalFileSeek` at each call of the file system. `Lan9118` is the initialisation of the
controller; a register is the set of the bits that are set in it, a transfer takes
any number of polls, and `PollBound` stands for the time-outs.

## 3. Runs

| Run | Question | Bounds |
|---|---|---|
| `queue` | Is a wake-up or a switch ever lost? Is every call atomic? Are time-outs exact across an overflow, with pended ticks, interrupts and resets? Are the invariants of the proofs invariants? | 2 tasks of 2 priorities and idle, both send, the high one receives and peeks, the low one resets; 1 place, 4 tick values, from tick 2 to 5, waits of 2 and for ever, 2 operations of interrupts while locked |
| `mutex_nested` | Do holders, counts and inherited priorities balance? Is a waiter forgotten? | 3 tasks of 3 priorities, a recursive and a plain mutex, depth 2, finite waits, priority changes, assertions empty |
| `mutex_disinherit_floor` | finding 1 | 4 tasks |
| `mutex_assertion` | finding 5 | 3 tasks, two of them of one priority, one mutex, assertions on |
| `stream` | Is the ring a stream of bytes? Who can sleep for ever? | 4 bytes of storage, trigger level 2, runs of 2 and 3 bytes, finite and infinite waits |
| `stream_restored_tail` | finding 2 | 2 tasks |
| `services` | Event groups, timers and task control, each with everything their callers may do | see `MCServices`: 3 tasks on a group of 2 bits; 2 timers on 6 tick values with queues of 1 and 2; 2 tasks and idle on 4 tick values |
| `timer_stop` | finding 3 | an auto-reload timer, queue of 2 |
| `task_resume_waiting` | finding 4 | 2 tasks and idle |
| `progress` | What must happen in the end, and the rendezvous refinement | see `MCProgress`: queue of 1 with endless ticks, 3 tasks and 2 mutexes one at a time, 4 tasks that meet, a timer |
| `wifi_calls` | Does the connection state follow the events? Does every call return? | 2 tasks, 1 listener that connects from its callback, 1 network, restarts, driver failures |
| `parts` | Eighteen components, one at a time | see `MCParts` |

Why the bounds are enough. A wake-up is lost between one waiter, one waker and one
interrupt; the two tasks of `queue` can both sleep on one of its lists, and in one
place every send and every receive meets the limit. More tasks and more places are
left to the proofs, which hold for any number of both. Four tick values
(six for timers and the sleeping idle task) put every deadline on both sides of an overflow. Two mutexes and three priorities give every
order of nested gives with a third task in the middle. In the ring every run of
bytes wraps at every offset. With two slots the table of networks is empty, partly
used and full. Three items in one list give the head, the middle and the end of it,
and equal values. Queues of one to three places have the pointers meet at every
place. A pool of two blocks and three tasks has one that waits. One event, one pin
and one transfer too many, each at every step, are what tables shared with an
interrupt can meet.

Bounds that limit the search are constants: `TickBound` (ticks in all),
`PendedBound` (pended ticks), `LockBound` in `Queue` (interrupt operations during
one lock), `RecursionBound`, `PendingBound` of `MCWifiDevice` (events the driver has not
delivered), `LockBound` in `WifiDevice` (how often one task leaves a lock taken),
`PendBound` (functions pended on the daemon), `LateBound` and `AgeBound` of `Timers`,
`ValueBound` (a notification value), `LagBound` of `CoRoutine`, `AwakeBound` of
`ThreadFlags`, `CommandBound` of `CmsisObjects`, `NestBound` and `SuspendBound` of
`CmsisKernel`, `MaxBytes` of `IotUart`, `LengthMax` and `FdMax` of `HalFile`, `PollBound`.
`portMAX_DELAY`, which the code fixes at the top of `TickType_t`, is the value after the
last of a few.

Deadlock is checked where something can always happen (`wifi_calls`, `parts`,
`stream_restored_tail`). It is not where tasks may rightly all be blocked, or where a
failed assertion halts.

### Fairness

* `Queue`: the processor goes on executing the running task (`WF` of its steps),
  takes a pended switch, and the tick interrupt keeps coming. Tasks need not call
  anything and interrupts of the queue need not come. `Prompt` in `progress` says
  that a tick finds the most urgent task done with what it was doing: the code
  between two ticks is shorter than a tick.
* `Mutex`: the running task goes on, a holder gives back, and what a sleeping task
  waits for comes. Tasks without a mutex may run for ever, which is the point of
  `UrgentTaskServed`.
* `EventGroup`: each ready task goes on, and tasks that meet come back to meet again.
* `Timers`: the daemon runs (its priority keeps it from starving), the tick comes, and a
  sender is not kept from the queue for ever.
* `StreamBuffer`: both sides are scheduled and the reader keeps calling receive.
* `WifiDevice`: `WF` for the driver's task, `SF` for each caller's steps: callers of
  higher priority take a lock again and again but block in between, and mutexes
  are handed to waiters by priority, so that a waiter is not passed over for ever.

## 4. What the runs show

**Queue and scheduler.** `NobodyLeftBehind`: with the queue unlocked, nobody sleeps on
what it offers unless someone awake is about to use it; `WakeUpsOwed` says the same of a
locked queue, counting what the unlock still owes. `HighestPriorityRuns`:
whenever no switch is asked for, the running task is the one to run.
`ImplementsContract`: each call takes effect at one instant, and fails only at an
instant at which the queue did not allow it or after it waited. `NoOversleep` and
`TimeOutExact`: deadlines are kept to the tick across overflows; waking up and
blocking again moves them neither way. `TimedCallReturns`: a finite wait of the most
urgent task ends. `ImplementsDeque`: items leave in the order they were put in, at
either end.

**Lists.** `WellLinked`: one ring linked both ways, its index in it, its count right.
`ImplementsOrderedLists`: an item goes behind those of the same value.

**Mutexes.** `BooksBalance`, `NoWaiterLeftBehind`, with the assertions empty in the run and
either way in the theorems; with one mutex at a time `UrgentTaskServed`. Held nested, inheritance is not transitive (a holder that itself
waits does not pass the priority on), so the last one is not claimed there.

**Stream buffers.** `ImplementsByteStream`: bytes come out as they went in.
`NobodyLeftAsleep`: no wake-up is lost, resets and stray notifications included
(`MessagesArrive`), as long as nobody lowers the trigger level. `MutualWaitNeedsHighTrigger`: both sides sleep only
when the writer waits for more space than a ring just below the trigger level has;
otherwise `SendReturns`. `RightMessage` (in `MessagesArrive`): no message is torn.

**Event groups.** `NoWaiterLeftBehind`: nobody waits for bits that are there.
`BitsConsumed`: a bit goes away only for a call that clears it or whose condition it
met. `ImplementsRendezvous`, `EveryoneMeets`: tasks that synchronise meet, once each.

**Timers.** `TimersOnTime`: value and list together tell when a timer is due, and the
daemon does not sleep past it. `NeverEarly`. `ActiveIsListed`: what is listed is active
and allocated, and an active auto-reload timer is never dropped. `ListedExpires`.

**Task control.** `HighestPriorityRuns` again, `TasksAccounted` (lists, counts and the
idle task's clean-up agree, a suspended task stays so), `DelayUntilByElapsed` (the
decision to delay is by elapsed time, whatever wrapped). `TimeKept`, `SleepsInTime`,
`StepsInBounds` for the stopped clock, with its exception: ticks already pended when
the sleep was planned make it late by as much.

**Co-routines and atomics.** `CoRoutinesServed`, with its exception: an interrupt that
gives two items wakes one co-routine. `NobodyBetween`: no one sees or changes a word
between load and store; `MaskedInSections`: an operation inside a critical section
leaves interrupts masked.

**CMSIS layer.** `PoolAccounted` (each block in one place, a token for each, no waiter
forgotten), `FlagsServed` in `NobodyForgotten` (no set of a flag answers two waits, no
wait is prolonged by notifications), `HeapBalanced`, `TimeOutsReported`,
`LockFollowsRegions`, `ThreadsAccounted`, `StateIsOneItHad`, `AllReported`,
`MailsAccounted`.

**WiFi.** `ConnectStateExact`; `EveryCallReturns` (the locks are never waited for in both
orders); `BeliefsHold` (active only if the driver is started, a saved network is
known); `LocksPaired`, which names its exception: calls that end in
`ERROR_WIFI_UNKNOWN` after a failed file operation keep the global lock.
`HotspotStatusTrue`, with its exception: a failed DHCP start stops whatever access
point then runs. `HotspotConfigWhole`: what runs was set as a whole.

**Devices.** `ReadsExact` (UART), `CallbacksOwn` and `TablesAgree` (pins),
`DescriptorsBalanced` and `SeekExact` (files), `NoTornTransfer` and `UpMeansConfigured`
(Ethernet).

### Findings (each with its run)

1. After a time-out the holder's priority can fall below that of a task that still
   waits (`queue.c:2071`): the list head may have lost an inherited priority since
   it was sorted (`mutex_disinherit_floor`; `queue.c:2064-2068` says otherwise).
2. A message receive that is too small publishes the tail and puts it back
   (`stream_buffer.c:951`); a writer in between uses the space
   (`stream_restored_tail`; `stream_buffer.h:37-39` calls this use safe).
3. A timer that expires late is restarted by a command behind those that wait; a
   stop among them is undone (`timer_stop`; `timers.c:530`, `timers.h:520`).
4. While the scheduler is suspended, `xTaskResumeFromISR` puts a task that waits without
   a time-out for a notification on the pending ready list, by its event list item, as
   `prvTaskIsTaskSuspended` takes it for a suspended one (`tasks.c:1829`, 1967). It waits for
   the notification still, and one that comes before the scheduler resumes finds it on an
   event list: the assertion at 5086 (4869, 4998) fails, and without it the item is
   inserted a second time (5097) (`task_resume_waiting`). Resumed while the scheduler runs,
   the task is only made ready and resets `ucNotifyState` itself (4705, 4786).
5. `queue.c:1511-1516` asserts that a take that fails with no ticks left has caused no
   inheritance, because "an adjusted timeout cannot become 0". It does when the time is
   over (`tasks.c:3339`), and if the mutex is seen given back then (`queue.c:1605`) the call
   goes round once more: another task that takes the mutex first makes the assertion
   fail (`mutex_assertion`). Without the assertion the call returns `errQUEUE_EMPTY`,
   as it should.

### Noticed while modelling, without a run of their own

*Kernel.* A task that waits for a plain mutex it holds, after it inherited a priority by that
mutex, lowers its own priority at the time-out: the assertion at `tasks.c:4234` says it
cannot, and without it no switch is asked for. `xQueueReset` frees all places and wakes one blocked sender (`queue.c:279`
against `queue.h:256-258`). With several places the other senders sleep on beside free
places and `NobodyLeftBehind` fails, so the runs with resets have one place, and the
theorem has that as a hypothesis. A task
waiting on a deleted event group reads freed storage and need not obtain zero
(`event_groups.h:734-735`). A one-shot timer that expired as it was started stays
ACTIVE (`timers.c:931-934`, 816-820). `vTimerSetReloadMode` (448-459) and the daemon
(803, 831, 836) write `ucStatus` under different protection. `xTaskCatchUpTicks`
adds to a count of pended ticks that an interrupt may have raised meanwhile
(`tasks.c:2629`). `xTaskAbortDelay` (2662) and `xQueueAddToSet` (`queue.c:2805`) do not
compile: they use an undeclared variable. `ulTaskNotifyValueClear` returns the
caller's value (`tasks.c:5174`). `xTaskCheckForTimeOut` tells one overflow of the tick
count from none, but not two from one (3321-3330): a call whose task is kept from running
for more than a turn of the count after it woke can wait once more. `portRESET_READY_PRIORITY` at 4267 is given the new
priority. `eTaskGetState` reads in steps (1405-1450); `uxTaskGetSystemState` and
`xTaskGetHandle` advance the index of the ready lists and so turn the round robin. A
trigger level equal to the buffer length is accepted and unreachable
(`stream_buffer.c:457`); a static stream buffer stores one byte less than asked for
(333). Lowering the trigger level wakes no reader that sleeps over as many bytes
(442-468). Co-routine delays count from the last schedule, and one interrupt wakes one
co-routine. A sleep is late by the ticks pended when it was planned (3523-3564).

*CMSIS.* `osKernelRestoreLock(1)` nests and `(0)` asserts when the kernel runs
(`cmsis_os2.c:348-358`). `osTimerDelete` frees the callback record when the command is
queued, while the timer may still expire. Deleted event flags end an endless wait
with `osErrorTimeout`. `osThreadEnumerate` whose `malloc` fails returns the number of
threads with nothing written. `osThreadTerminate` acts on a state read before
(645-649): a thread that ends itself in between is unlinked and counted twice, so that
`Threads` lets it be called for those that do not end themselves. `osThreadFlagsClear` loses flags set between its two calls;
`osThreadFlagsWait` may sleep although a flag is left over, loses collected flags at a
time-out, subtracts elapsed time cumulatively and so ends early, and treats
`osWaitForever` as finite. `osSignalSet` (`cmsis_os1.c:51-59`) drops already set signals from
what it returns. Deleting a memory pool wakes at most as many waiters as tokens are
missing, and frees storage in use; `mem_cb` and `mem_mp` of -1 count as given
(1987, 2005).

*WiFi.* `RegisterWifiEvent` stops at the first free place, so a listener further on can
be registered twice (`wifi_device.c:919-931`); before the file was read slot 0 counts
as a network and `AddDeviceConfig` uses slot 1 (40, 621-665); `g_networkId` may name the
wrong network (780). A failed DHCP start stops another task's access point,
`DisableHotspot` never stops the DHCP server, and the status can stay ACTIVE;
`AddTxPowerInfo` leaves the beacon's element when that of the probe response fails
(`wifi_hotspot.c:412-438`).

*Devices.* UART: the number is read after the mutex is given back (211-213), a line
error between drain and request ends the wait early (197-199), mutexes are deleted
as semaphores (234-236, 183) and a semaphore by its address (176). I2C and GPIO check
identifiers with `>` where `>=` is needed (I2C 77, 114, 152, 168; GPIO 40, 45); events
of other types use index 0 (`hal_iot_gpio.c:132-139`); registering a pin again can pair
the new function with the old argument. `hal_file.c:174-185` loses the position on a
negative target, and another task's write during a seek lands at the end; 145-148
ignores a failed `lseek`. Ethernet: `EthernetifInit` returns `ERR_OK` on a failed
initialisation, `LinkOut` ignores a full FIFO and sends from the first buffer only,
register writes wait only for odd registers (519), a transfer that completes at the
last poll counts as timed out (474-487), soft reset polls another bit (646), and
enabling the receiver after a failed read clears TXEN. `FsDriverInit` in `fs_init.c` has a
`return` without a value.

## 5. Proofs

| Theorem | States | Assumes of the constants |
|---|---|---|
| `QueueProofs!TypeCorrect` | `Spec => []TypeOK` | `KernelAssumption`, `QueueAssumption` |
| `QueueProofs!InductiveInvariant` | `Spec => []Inductive` | the same |
| `QueueProofs!PriorityScheduling` | `Spec => []HighestPriorityRuns` | the same |
| `QueueProofs!Refinement` | `Spec => ImplementsContract` | the same |
| `QueueProofs!WakeUpsAreOwed` | `Spec => []WakeUpsOwed` | the same, `TasksAreFinite`; nobody resets the queue, or it has one place |
| `QueueProofs!NoWakeUpIsLost` | `Spec => []NobodyLeftBehind` | as the one before |
| `QueueProofs!NobodyOversleeps` | `Spec => []NoOversleep` | the first two; `TickBound < TickMod * TickMod` |
| `QueueProofs!ChecksAreExact` | `Spec => [][...ExactCheck(t)]_vars`: `TimeOutExact` of the checks at most one overflow after the time was taken | as the one before |
| `QueueProofs!TimeOutsAreExact` | `Spec => TimeOutExact` | the first two; `TickBound < 2 * TickMod` |
| `LinkedListProofs!ListsStayWellLinked` | `Spec => []WellLinked` | `Distinct`: no list is an item or NULL, finitely many items, `portMAX_DELAY` a number |
| `LinkedListProofs!ListsAreOrdered` | `Spec => ImplementsOrderedList` | `Distinct` |
| `LinkedListProofs!PointersStayApart` | `Q!Spec => []StorageInv`, `Q` being `QueueStorage` | `LengthsArePositive` |
| `LinkedListProofs!StorageIsDeque` | `Q!Spec => Q!ImplementsDeque` | the same |
| `LinkedListProofs!LinkStaysWhole` | `Lan!Spec => [](Lan!NoTornTransfer /\ Lan!UpMeansConfigured)`, `Lan` being `Lan9118` | `LanFits`: a register is polled at least once |
| `LinkedListProofs!MailsStayAccounted` | `Mail!Spec => []Mail!MailsAccounted`, `Mail` being `MailQueue` | `MailFits`: finitely many blocks, `Nobody` is no task |
| `MutexProofs!TypeCorrect` | `Spec => []TypeOK` | `MutexAssumption` |
| `MutexProofs!BooksStayBalanced` | `Spec => []BooksBalance` | the same |
| `MutexProofs!WaitersAreTold` | `Spec => []NoWaiterLeftBehind` | the same |
| `StreamBufferProofs!TypeCorrect` | `Spec => []TypeOK` | `StreamBufferAssumption`; `IsStream` or `IsMessages`, below |
| `StreamBufferProofs!RingIsAStream` | `Spec => ImplementsByteStream` | `StreamBufferAssumption`, `IsStream` |
| `StreamBufferProofs!MessagesAreWhole` | `Spec => [](TypeOK /\ RightMessage)` | `StreamBufferAssumption`, `IsMessages` |
| `StreamBufferProofs!NoLostWakeUp` | `Spec => []NobodyLeftAsleep` | as `TypeCorrect`, and `LevelIsFixed` |
| `StreamBufferProofs!MutualWaitIsConfigured` | `Spec => []MutualWaitNeedsHighTrigger` | the same |
| `StreamBufferProofs!CoRoutinesStayServed` | `Cr!Spec => []Cr!CoRoutinesServed`, `Cr` being `CoRoutine` | `CoRoutinesFit`: finitely many co-routines, with priorities, and delays less than the range of the tick count |
| `StreamBufferProofs!SleepKeepsTime` | `Tl!Spec => [](Tl!TypeOK /\ Tl!TimeKept /\ Tl!SleepsInTime /\ Tl!StepsInBounds)`, `Tl` being `Tickless` | `TicklessFits`: priorities are numbers, delays are from 1 tick on and less than the range of the tick count, and no more ticks are pended than that (`PendedBound` is the model's) |
| `EventGroupProofs!TypeCorrect` | `Spec => []TypeOK` | `CallsFit`: the calls have the types of their arguments |
| `EventGroupProofs!WaitersAreServed` | `Spec => []NoWaiterLeftBehind` | the same |
| `EventGroupProofs!BitsAreConsumed` | `Spec => BitsConsumed` | the same |
| `EventGroupProofs!SyncIsRendezvous` | `Spec => ImplementsRendezvous` | `MeetOnly`: tasks only synchronise, on all their bits, each with a bit of its own |
| `EventGroupProofs!PoolStaysAccounted` | `Pool!Spec => []Pool!PoolAccounted`, `Pool` being `MemoryPool` | `PoolFits`: finitely many tasks, `BlockCount` a number, the waits are waits |
| `EventGroupProofs!FlagsAreServed` | `Flags!Spec => []Flags!FlagsServed`, `Flags` being `ThreadFlags` | `FlagsFit`, below |
| `EventGroupProofs!ObjectsAreAccounted` | `Ob!Spec => [](Ob!TypeOK /\ Ob!HeapBalanced /\ Ob!TimeOutsReported)`, `Ob` being `CmsisObjects` | `ObjectsFit`: the interrupt is no thread |
| `TaskControlProofs!TaskInvariant` | `Spec => []IInv`, the inductive invariant | `KernelAssumption`, `TasksAreFinite`, `TaskControlAssumption` |
| `TaskControlProofs!TypeCorrect` | `Spec => []TypeOK` | the same |
| `TaskControlProofs!MostUrgentRuns` | `Spec => []HighestPriorityRuns` | the same |
| `TaskControlProofs!TasksAreAccounted` | `Spec => []TasksAccounted` | the same |
| `TaskControlProofs!DelayUntilIsExact` | `Spec => []DelayUntilByElapsed` | the same |
| `TaskControlProofs!KernelLockFollowsRegions` | `KL!Spec => []KL!LockFollowsRegions`, `KL` being `CmsisKernel` | none |
| `TaskControlProofs!ThreadsStayAccounted` | `Th!Spec => []Th!ThreadsAccounted`, `Th` being `Threads` | `ThreadsFit`: finitely many threads, and the one that asks is none of the others |
| `TaskControlProofs!ThreadsAreReported` | `Th!Spec => [](Th!StateIsOneItHad /\ Th!AllReported)` | the same |
| `TimersProofs!TimersInvariant` | `Spec => []IInv`, the inductive invariant | `TimersFit` |
| `TimersProofs!TypeCorrect` | `Spec => []TypeOK` | the same |
| `TimersProofs!TimersAreOnTime` | `Spec => []TimersOnTime` | the same |
| `TimersProofs!NeverCalledEarly` | `Spec => NeverEarly` | the same |
| `TimersProofs!ListedAreActive` | `Spec => []ListedIsActive` | the same |
| `TimersProofs!ActiveTimersReload` | `Spec => []ActiveReloads` | the same, `configASSERT_DEFINED`, not `MayChangeMode` |
| `WifiProofs!StationInvariant` | `Spec => []IInv`, the inductive invariant | `WifiAssumption` |
| `WifiProofs!TypeCorrect` | `Spec => []TypeOK` | the same |
| `WifiProofs!ConnectStateIsExact` | `Spec => []ConnectStateExact` | the same |
| `WifiProofs!BeliefsAreTrue` | `Spec => []BeliefsHold` | the same |
| `WifiProofs!LocksArePaired` | `Spec => LocksPaired` | the same |
| `WifiProofs!StatusStaysTrue` | `H!Spec => []H!HotspotStatusTrue`, `H` being `WifiHotspot` | `NobodyIsNoTask` |
| `WifiProofs!ConfigStaysWhole` | `H!Spec => []H!HotspotConfigWhole` | the same |
| `WifiProofs!UartReadsExact` | `Uart!Spec => []Uart!ReadsExact`, `Uart` being `IotUart` | `UartFits`: `Nobody` is no task, `MaxBytes` a number |
| `WifiProofs!FilesStayBalanced` | `Files!Spec => [](Files!DescriptorsBalanced /\ Files!SeekExact)`, `Files` being `HalFile` | `FileFits`: `FdMax` and `LengthMax` are numbers |
| `WifiProofs!PinsStayTrue` | `Pins!Spec => [](Pins!CallbacksOwn /\ Pins!TablesAgree)`, `Pins` being `Gpio` | `GpioFits`, below |

They hold for every set of tasks, priorities, lengths, tick ranges, lists, items,
mutexes, bits, capacities and bounds on nesting. The runs check the same formulas on
small instances, some of them as a conjunct of a property that gathers those of several
parts (`DevicesTrue`, `CmsisAccounted`, `NobodyForgotten`, `PartsTypeOK`). What a theorem
takes for granted of its constants TLC evaluates where they get their values
(`TimersFitHere` in `MCServices`, `PartsFitHere` in `MCParts`).

*Queue.* `HighestPriorityRuns` is not inductive: it says nothing about states with the
scheduler suspended or a switch asked for. `Inductive` adds that every ready task
that outranks the running one has asked for a switch (`SwitchAskedFor`), that the
scheduler is suspended exactly while the running task is between
`vTaskSuspendAll` and `xTaskResumeAll`, and no other task is there
(`OwnSuspension`), that the running task is ready or on its way to the switch after
it blocked (`ReadyOrLeaving`), and that a call reaches a step only along the code's
path (`CallProgress`). Each kernel operator has lemmas on the fields it changes and
on the switches it asks for; each action of `Queue` has one lemma per conjunct; the
invariant follows by the cases of `Next`, and every step is shown to be a step of
`BoundedQueue` or to leave its variables alone. `queue` checks `Inductive`
as an invariant as well.

`NobodyLeftBehind` speaks of an unlocked queue and of one sleeper; whether the next
one is served as well depends on how many were woken. `WakeUpsOwed` counts: where
receivers sleep, there are as many tasks awake and on their way to take an item as there
are items, apart from those that arrived from interrupts while the queue was locked,
which its lock counts and the unlock owes; likewise for senders and places. It needs
that whoever is on an event list is blocked on its way through that list
(`SleepersBlocked`), that the queue is locked only by the call that locked it (`LockedByCaller`), and that an offer is
missed only under that lock (`MissesOnlyLocked`). Each action is shown to move the
claimants and the offers in step: a send adds an item and wakes a claimant, a receive is
a claimant that takes one, a time-out takes a task off the list and adds none.

`NoOversleep` compares lists that know of one turn of the tick count with deadlines that
do not wrap. `DeadlinesKept` says which turn each list is for (`ListedToDeadline`), that
`xNextTaskUnblockTime` is no later than anybody on the delayed list
(`NextWakeKnown`), that a caller about to block has just taken the time
(`JustStamped`) and that no time taken is in the future (`StampPast`). Blocking puts
the caller on the list of the turn its wake time falls in (`WakeTime`), a tick takes off
all who are due, and an overflow finds the delayed list empty and exchanges the lists.
All that holds until `xNumOfOverflows` wraps, after `TickMod * TickMod` ticks.
`xTaskCheckForTimeOut` compares counts of overflows for equality only, so that it is
exact for a time taken at most one overflow ago (`CheckIsExact`); this is why
`TimeOutsAreExact` stops at the second overflow, and `TimeOutExact` is indeed false
beyond it.

*Task control.* `IInv` of `TaskControlProofs` has one part per book the operations keep.
`Asked`: a switch is asked for or no ready task outranks the running one, in every
state, suspended scheduler or not. `SuspendedByCurrent`: the scheduler is suspended
exactly while the running task is in a call that suspended it, and nobody else is, so
that `xTaskResumeAll` finds the count at one. `ReadyOrLeaving`: the running task is ready
or in one of the few places from which the code goes to a yield. `LivesAccounted`: a
TCB is created exactly while it is on one of the four lists of tasks, and one that is
deleted is on the list of the terminated or in the idle task's hands, which is why no
TCB is freed twice. `ListsHonest` is `SuspendedStays` and `NoNotifiedTaskBlocked` made
inductive: a suspended task is on no event list and waits for no notification, so that
nothing but a resume finds it. `Booked` counts. What interrupts and ticks may do to a
task that does not act is one relation on kernel records (`Moved`, `Served`), which each
kernel operator is shown to be in once (`TickServed`, `WakeServed`, `ReleaseIs`), so that
an action has to show only what happens to the tasks it names. The theorems hold with
`CarefulResume` and without: finding 4 makes no task run out of turn.
`DelayUntilByElapsed` is arithmetic with one reduction of the tick count on each side
(`TickSums`).

*Timers.* All times wrap, so the argument is about the one number that does not: the ticks
since the daemon sampled the time last (`Elapsed`), which are fewer than the range of the
tick count. What a timer is due, counted without wrapping, is its item value minus that
sample, one range more on the overflow list, less what has elapsed since
(`ListTimed`); from the sample that sees the wrap until the lists have changed places
everything is one range less, and the timer `prvSwitchTimerLists` has in its hands is
timed by the expiry it had (`HandTimed`). A command that starts a timer carries
the time it was given, `Stamped`: that time plus the command's age is now, or now plus one
range. The command in the daemon's hands is at least as old as the daemon's last
sample (`Held`), which is what makes the comparisons of
`prvInsertTimerInActiveList` right: `PlaceIs` shows that, for any command time, age and
period, they say "expired" exactly if the period has passed, and otherwise name the
list of the wrap in which the expiry falls. With `HeadKnown` (the expiry the daemon read is
still that of the head when it acts on it, because only the daemon touches the lists)
each action has one lemma. That a list with timers has a first is an argument by
well-founded induction on the item values (`HeadExists`).

The theorems assume `TimersFit`, which is what the scheme of two lists takes for granted.
`LateBound` bounds how long an expired timer waits for the daemon, and a period is
less than the range of the tick count by more than that: with a longer one, a timer found
late has wrapped all the way round, and no comparison of tick counts could tell
(`timers.c:357` forbids only the period 0). `AgeBound` bounds commands in
the same way. The rest are types: requests name a timer unless they pend a
function. `MCServices` assumes it of both its instances, so TLC evaluates it there.
`ActiveTimersReload` needs that a failed `configASSERT` halts, as without it a restart is
lost when the queue is full, and that `vTimerSetReloadMode` is not called, as
`prvSwitchTimerLists` leaves a one-shot timer active that is on no list any more.
`ReloadsKept` says the same as the property with the daemon's place in it, so that each
step can be asked what it does with the timer in its hands.

*Storage.* The write pointer is as many places after the read pointer as there are
items, modulo the length; so the item sent next is written where no item is, and
the sequence read from the read pointer on is the deque's.

*Lists.* A ring is given by the sequence of its nodes; for each of insertion at a
place, removal and visit, the new sequence is named and shown to be a ring of the
links the code writes.

That a list refines `OrderedList` follows from the same sequence, now with the place of
the index in it (`View`; every list has one, `AllViews`). Where the links lead from the
end marker on (`Order`) is that sequence, because a least place at which two walks along
the same links differ cannot exist (`WalkIs`). An insertion makes it longer by one place,
a removal shorter (`Longer`, `Shorter`), and either moves the index as the cursor of
`OrderedList` moves. The loop of `vListInsert` ends at a node after which `OrderedList`
puts the item: all before it have no greater value, the next has (`PassedIs`).

*Mutexes.* `BooksBalance` needs no more than the types and one fact about counts: a call
that will add to a mutex's recursion finds room (`RecursionRoom`).
`NoWaiterLeftBehind` needs that whoever is on an event list sleeps on that mutex, so that
the one a give takes off the list is a task that will look at it (`WaitersBlocked`).
Event lists are sequences without duplicates; insertion by priority and
`uxListRemove` are shown to keep that, whatever the priorities.

*Stream buffers.* Neither side has the other's index for long, so the invariant says what
of an old look is still true. `WriterInv`: the space the writer saw is there still, since
only the writer takes space away, what it is about to publish fits, and once copied it
is in the ring from the head on. `ReaderInv`: the bytes the reader saw are there still,
and those it copied are the ones at the tail. That writing from the head leaves the
bytes from the tail alone (`FilledFacts`), and that publishing the head appends to them
and publishing the tail takes them off, is arithmetic modulo the length; with it each
step is one of `ByteStream`. The wake-ups then need nothing more, but that
`xStreamBufferSetTriggerLevel` is not called (`LevelIsFixed`): lowering the level wakes
nobody.

For message buffers (`IsMessages`: there is a length before each message, and a task never
reads what it would have to put back) the invariant says what the bytes from the tail on
are: messages that were sent, each behind its length (`Framed`), and at the end, while
the writer is between its two copies, a length whose message is still to come
(`PartialFits`). `MessageReaderInv` says where the reader is in it: before a length, before a
message whose length it read, or, if it is an interrupt, past a length it may put back
and whose place nobody has used (`Held`). Every copy of the reader is then of a length or
of a message as it was written, and reading a length back undoes writing it
(`StoredLengthIs`). Without the hypothesis the theorem is false, as finding 2 shows.

*Event groups.* Who is on the list waits and was not let go (`WaitersWait`), and
`NoWaiterLeftBehind` is then inductive: `xEventGroupSetBits` takes off exactly those whose
condition it meets, and whoever joins the list has just found its own unmet. In the
rendezvous the bits tell who has arrived, because each task has its own and the last one
clears them all.

*Memory pools.* `TokenForBlock` is what makes a pool right: the semaphore's count and the
tokens that calls have in their hands are as many as the free blocks and those not yet
carved from the memory. The invariant adds where a call has a block (`CallsTell`: between
taking it off the application and putting it on the list) and what the
status says of the rest (`StatusTells`). Every action either moves a block between
the places `BlocksApart` names or moves a token, and the lemmas say of each what it does to
the cardinality of the two sides; a sleeper that is woken is a token that somebody has
been given, so that `NoWaiterLeftBehind` counts too. Interrupts take and return blocks
between any two steps of a task. No assumption says that blocks suffice.

*Thread flags.* `NeverAnsweredTwice` needs that the value `osThreadFlagsClear` read before
it writes it back was set since (`ClearsOnly`). That no wait is prolonged is a sum:
what a wait slept and was ready for is what the tick count went on since `t0`, modulo its
range, and with what it may yet sleep it keeps the timeout (`InTime`); `Elapsed` shows
that the code's subtraction gives that sum also across the wrap. `FlagsFit` says when: the
timeout and the ticks during which a waiting thread is ready without running
(`AwakeBound`) are together less than the range of the tick count. With more, the
subtraction cannot tell how often the count went round.

*Kernel lock.* The statement is about the running thread only. The inductive
invariant adds that the regions of each thread alternate between locked and open, and
that a thread that does not run left the kernel open, since nobody switches a
locked scheduler.

*Station.* What is believed follows from who is where, and that from the locks, whose
counts the invariant books. `LocksOwned`: a lock has an owner exactly if its count is
not 0. `EventLockBooked`: the event lock is held once by a dispatch, once by a request to
the driver, and by nobody else. `CallsBooked`: inside a call the global lock is
taken as often as the caller had it and once more where the file is being written. With
that, who can take a lock is alone in its sections (`OnlyWriter`, `OnlyConnecting`);
`StateBooked` then says what the connection state was before a request that may still be
refused, and `SlotsWritten` that the slot about to be written is its own, so that a saved
network is never one that was removed meanwhile. A call that failed in the file system
leaves with its lock, so that `CallsBooked` compares with what the caller had and not with
0. One lemma per action; those that only give back what they took share `QuietPlaced`.
`LocksPaired` follows from the booking before and after the step that returns.

*Hotspot.* The lock's owner is the one task inside a section (`ApLockOwned`); there the
status is what the place in the code says (`StatusByPlace`), and elsewhere it agrees with
the driver but for the exception (`StatusBooked`); a configuration is half of another only
between the two copies (`ConfigsWhole`).

*UART.* From `PendMutex` to `PostMutex` a task has the mutex, and while one has it all that
have left it without reading the number count as overtaken (`ReadersApart`). So whoever is
not overtaken finds in `g_rx_num` what its own request brought, from the reset of the
number on (`NumberIsOwn`); an error of the line that wakes a reader before its
answer marks it as disturbed, also where it posts the semaphore between the drain and the
wait.

*Files.* A descriptor is open exactly if the application has its handle or a `HalFileStat`
is between its open and its close (`OpenForSome`), and never for two of them
(`StatsApart`), so that nobody closes another's. A `HalFileSeek` has a handle as long as it
lasts, because no call may close what another is seeking in (`SeeksHold`); what it has
read by the time it sets the position is what it asked for (`SeeksKnow`), so that
it answers with where it went unless others used the file between its two reads.

*Pins.* No two calls are of the same pin (`CallsApart`). For each pin that interrupts, the
place of the call that changes it says what the table has of it (`EntriesBooked`): while a
registration is between callback and argument the two may differ, and whoever is in none
of those places finds table and hardware in agreement. Directions and values
likewise (`PinsBooked`). An event finds the entry of its own pin because
`get_pin_index` of a word with one bit is that bit. `GpioFits` says that the pins that
interrupt are those below `MSIO_START_IDX`: the code maps an event of a later one to the
entry of pin 0.

*Ethernet controller.* That a transfer to the PHY is not torn holds whatever timed out
(`WritesApart`): a write of the data register starts only when a read of the command
register has seen no transfer going on, and the controller carries out one register access
at a time. That the controller is configured needs more, and as long as no function had
an error there is more (`Going`): between calls nothing is in flight (`StepBooked`), what is
done of a command follows from how far the call is (`PhyBooked`, where `Issued` says
that the command was given and `EffectOf` what the PHY's register then has), and each
step of the script finds what the steps before it left (`Progress`), a reset of the PHY
excepted, which may end between two steps. After the script nothing is left that writes
(`UpStays`), so that what it configured remains.

*Mail queues.* A block is in the pool, once in the queue or with one holder
(`MailPlaced`), also while `osMailCreate` is between its two allocations, when nobody has
any (`Unused`). That who has a block finds a place is a pigeonhole: the mails are an
injection into the blocks other than that one, so they are fewer than the places
(`MailsFit`).

*Co-routines.* `prvCheckDelayedList` counts the ticks that passed one by one, so the
invariant says how many of them are done (`TicksBooked`), and what a delay still lacks is
its item value less the co-routines' own tick count, one range more on the overflow
list; an overflow finds the delayed list empty and exchanges the two. Whoever is due has
been taken off before the next tick is counted. `NobodyLeftBehind` is again a count: on each side as
many co-routines are on their way to the queue as there are items for them, or places, if
anybody waits there (`Covered`). Each of those may use one up, and whoever does wakes one
on the other side; an interrupt that woke one already wakes no second, which is the
exception the property names. The scheduler's index finds every ready co-routine because
it is lowered only past lists that are empty.

*Tickless idle.* The three parts of the property hold modulo the range of the tick count or
of what is asleep; the invariant has the numbers themselves. `Good`: whoever is on the
delayed list wakes after the present count and not before the next time to unblock, whoever
is on the overflow list before it in the next range. `LeftExact`: what is left of a delay is
what count and list say, less what was pended or slept and not yet counted. `Phases`: once
planned, the sleep ends before the next time to unblock, because with the scheduler
suspended only pended ticks come in, and an interrupt that readies a task wakes the processor
before the count is put right. One tick keeps `Good` and takes one from every rest
(`ClockTicks`); that `xTaskResumeAll` may do so any number of times is shown by its
counterexamples: a least number of ticks for which no sequence of clocks exists (`TraceExists`),
or after which the clock is not good (`TicksKeep`), leads to a smaller one.

*Threads.* The properties speak of what is answered, the steps of what was read, so the
invariant says of each call in progress what its readings are still worth. Of
`eTaskGetState`: the list it read is the one the thread was in (`ListTold`), and of a thread
read as suspended either that is excused, or it waits still and the next reading will show
it (`SuspendedTold`); that is the one place where a step of an interrupt between two
readings matters. Of `uxTaskGetSystemState`: the array has one entry for each thread of the
lists gone through, and nobody enters or leaves those (`ArrayFits`): with the scheduler
suspended an interrupt that readies a thread moves only its event item, to
`xPendingReadyList`, and its state item stays. Of `xTaskGetHandle`: who is not
found is in a list still to come (`SearchFits`). The books need where the lists and marks of a
thread may be at once (`Lodged`), and that who terminates another finds it still there
(`StillThere`).

*CMSIS objects.* `HeapBalanced` needs that a timer whose deletion was ordered has the order in
the command queue, once and last (`CommandsFit`): nobody can order anything after it, so the
daemon deletes it once and with nothing left to do. `TimeOutsReported` needs that
whoever sleeps was ready to wait (`WaitTyped`), through every translation of a result.

Only model-checked: message buffers whose task puts a length back, where finding 2 is, and
that messages come in the order they were sent; the atomic operations, whose model uses the bit operators,
which no module with a theorem can reach. Liveness and fairness are out of the prover's
reach and stay with TLC. So does induction over data: a least counterexample stands in for it
where numbers are counted down (ticks, places of a ring), but what a fold computes cannot
be proved.

## 6. Not modelled

* Queue sets, which do not compile (`queue.c:2805`), and `xTaskAbortDelay`
  (`tasks.c:2662`); the queue registry, tables for printing, run-time statistics, stack
  checks, trace macros and the event recorder, which no other code depends on; MPU
  wrappers, which the configuration leaves out.
* Getters that read one variable; creation of stream buffers.
* The port layer and `FreeRTOSConfig.h` (not in the repository); LiteOS-M, lwIP,
  littlefs and the WiFi driver (external). What depends on the configuration
  (tickless idle, co-routines, `configASSERT`) is modelled as the code reads when it is
  asked for.
* Ethernet frames: what is in the FIFOs depends on the controller. I2C, UART writes, PWM,
  flash, watchdog, WiFi aware: each function is one call of the driver.
* The wrap of the 8-bit lock counts of a queue after 128 operations of interrupts
  during one lock: `LockBound` is below it.
* Headers, configuration, the second copy of the CMSIS directory, vendor constants and the
  demo. They are about half of the repository's lines, so that the map, which
  names about half of the C code that keeps state, covers a smaller share of the whole.

`PROJECT.json` gives the reason for each part.

## 7. Plan

Done: all modules above. Left, in this order:

1. That a message buffer delivers in order, as a refinement of `ByteStream` with the
   lengths in it.
2. `TaskControl` and `EventGroup` on the same kernel state, to check the two-list moves
   of event groups against suspension and deletion.
3. The getters of the hotspot and the station that copy tables under the lock, and
   the frame FIFOs of the Ethernet driver with a model of the controller.
