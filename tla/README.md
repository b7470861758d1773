# A verification project for the cortex-m3 development tree

The repository is firmware for an NXP LPC1769: FreeRTOS V8.1.2, FatFs R0.11 with an
SD card driver over SPI, a UART driver, NXP's USB host library, and small example
applications. This directory holds TLA+ modules of its concurrent core, the TLC
configurations that check them on small instances, and theorems about them checked
by TLAPS for every value of the constants.

| module | what it is |
| --- | --- |
| `CharQueue` | abstract: a bounded FIFO of characters |
| `UartRx` | the interrupt-driven receive ring of `uart.c` |
| `UartTx` | the polled transmit path of `uart.c` under several tasks |
| `Uart`, `UartMC`, `UartProofs` | one port: both directions; TLC instance; theorems about both and the port |
| `SdCard`, `SdCardProofs` | `sdcard.c`, its two software timers, and the card as environment; its theorems |
| `Scheduler`, `SchedulerMC` | `tasks.c` and the port; TLC instance |
| `PeriodicTask` | a task that uses `vTaskDelayUntil` on top of `Scheduler` |
| `ListRing` | abstract: a ring of items with a place to insert at |
| `KernelList` | `list.c` and the list macros, pointer by pointer |
| `KernelProofs` | theorems about `Scheduler`, `PeriodicTask` and `KernelList` |
| `BoundedQueue` | abstract: a bounded sequence with atomic operations |
| `Queue`, `QueueMC`, `QueueProofs` | `queue.c`: sending, receiving, blocking, timeouts, locking; TLC instance; its theorems |
| `LockTable` | abstract: who has which lock how often |
| `Mutex`, `MutexMC`, `MutexProofs` | mutexes, recursive mutexes and priority inheritance of `queue.c` and `tasks.c`; TLC instance; its theorems |
| `Rendezvous` | abstract: nobody passes who has not met everybody |
| `EventGroup`, `EventGroupMC`, `EventGroupProofs` | `event_groups.c`; TLC instance; its theorems |
| `FatFs` | operators: the calls of `ff.c` on a volume, down to each access of the medium |
| `FileStore` | abstract: files as sequences, and what each call may do to them |
| `Volume` | `FatFs` under any sequence of calls, failing accesses and power cuts |
| `FatFsProofs`, `VolumeProofs` | lemmas about the functions of `ff.c`; theorems about `Volume` |

Paths below are relative to `src/cortex_m3_nxp/`.

## 1. Inventory

### UART driver (`src/uart.c`, `inc/uart.h`)

*State*: per port a ring `UARTFifo_t` of `UART_BUFSIZE` = 0x40 characters with `head`
(written by the interrupt) and `tail` (written by the reader), neither declared
volatile. *Operations*: `UARTn_IRQHandler` moves what the receiver holds into the ring
(`fifo_put`) and drops it when the ring is full; `UARTGetChar` polls `fifo_get`;
`UARTSend`, `UARTSendStr`, `UARTPutChar` poll the transmitter; `UARTInit` programs the
port. *Interaction*: shared memory between an interrupt and a task, no lock; a transmit
FIFO shared by all tasks that print. *Hard*: the interrupt may hit between any two loads
or stores of the reader; a sender may be preempted between its poll and its one or two
writes. *Correct means*: characters are returned in order, each once, none but those
that found the ring full are lost, a reader that waits is served, and no character is
written to a full transmit FIFO.

### SD/MMC driver (`fatfs/user_config/sdcard.c`, `lpc17xx_spi.c`)

*State*: `status` (drive status bits), `CardType`, `CardConfig`, the timers `Timer1` and
`Timer2` counted down by `disk_timerproc`, and the card's own state at the other end of
the bus. *Operations*: `MMC_disk_initialize`, `MMC_disk_status`, `MMC_disk_read`,
`MMC_disk_write`, `MMC_disk_ioctl`, `disk_timerproc`. *Interaction*: FatFs calls the
driver through `diskio.c`; `src/main_ex_sdcard.c` runs `disk_timerproc` in a task,
`sdTimerSupport`, which is time-sliced against the task that uses the card. *Hard*: a
card that answers late, refuses, stays busy or is pulled out; timers that are read,
decremented and stored by one task while another arms them; multi-block transfers of
which a part fails. *Correct means*: OK is returned only when every sector was
transferred, every exit de-selects the card, the card is never taken for another one, and
every request returns.

### Scheduler (`freertos/Source/tasks.c`, `portable/GCC/ARM_CM3/port.c`)

*State*: the ready lists and their bitmap `uxTopReadyPriority`, the two delayed lists
and `xNextTaskUnblockTime`, the pending-ready, suspended and termination lists,
`xTickCount`, `uxPendedTicks`, `uxSchedulerSuspended`, `xYieldPending`,
`pxCurrentTCB`, and per task a priority and the two list items. *Operations*: create,
delete, delay, delay until a wake time, suspend, resume (also from an interrupt), set priority, yield, suspend and
resume the scheduler, place on and remove from an event list, the tick, the switch.
*Interaction*: queues and event groups block and wake tasks through it; the SysTick and
PendSV interrupts drive it. *Hard*: interrupts between critical sections, ticks and
wake-ups while the scheduler is suspended, the wrap of the tick count, the cached
unblock time, the switch that is due but only recorded. *Correct means*: the running
task is a ready one of the highest priority, nothing readied is forgotten, delays end at
exactly their tick.

### Lists (`freertos/Source/list.c`, `include/list.h`)

*State*: a doubly linked ring through an end marker, and `pxIndex`, the item served last.
*Operations*: `vListInitialise`, `vListInsertEnd`, `vListInsert`, `uxListRemove`,
`listGET_OWNER_OF_NEXT_ENTRY`, `listSET_LIST_ITEM_VALUE`. *Interaction*: every other
kernel component. *Hard*: removal of the item `pxIndex` points to, the value
`portMAX_DELAY` that equals the marker's, values written in place. *Correct means*: the
links are a ring, round robin passes nobody over, sorted lists stay sorted.

### Queues and semaphores (`freertos/Source/queue.c`)

*State*: a circular storage area with `pcWriteTo` and `pcReadFrom`,
`uxMessagesWaiting`, the locks `xRxLock` and `xTxLock`, two event lists, and per call
a `xTimeOut`. *Operations*: send to the back or front, overwrite, receive, peek, reset;
the same from interrupts. *Interaction*: blocking goes
through the scheduler; interrupts post and take while a task is about to block. *Hard*:
the window between testing the queue and being listed as a waiter, lock counts, repeated
waits after being woken in vain. *Correct means*: a bounded
sequence with atomic operations, no lost wake-up, no lock left behind, no early timeout.

### Mutexes and priority inheritance (`freertos/Source/queue.c`, `tasks.c`)

*State*: per mutex its availability, holder, recursive depth and waiting list; per task
its base priority, its present one and the count `uxMutexesHeld`. *Operations*: take
with a timeout, give, the recursive pair, `vTaskPriorityInherit`,
`xTaskPriorityDisinherit`, `vTaskPrioritySet`. *Interaction*: FatFs holds one around every
call on a volume. *Hard*: a give between the test and the listing of a taker, several
mutexes given back in another order, priorities changed by hand while boosted, a switch
that is due after a give. *Correct means*: mutual exclusion, no lost wake-up, a borrowed
priority is given back, the holder is never kept from running by what matters less than
its waiters.

### Event groups (`freertos/Source/event_groups.c`)

*State*: the bits, a list of waiting tasks, and in each task's event list item either its
priority or what it waits for and, later, the answer. *Operations*: set, clear, wait, sync,
delete. *Hard*: one item with two uses while priorities change, clearing on exit for
several tasks at once, the rendezvous of `xEventGroupSync` against a timeout. *Correct
means*: nobody sleeps on bits that are there, answers are true, items get their priority
back, a rendezvous lets nobody through alone.

### FatFs and its glue (`fatfs/src`, `fatfs/user_config`)

*State*: the mounted volume with its one-sector window, open files with a sector buffer
each, the allocation table and the directory on the medium; a mutex per volume
(`option/syscall.c`, `_FS_REENTRANT` is 1); the status of the three drives
`diskio.c` maps to ATA stub, SD card and USB disk; the real-time clock. *Hard*: window,
buffer and directory entry reach the medium at different times, a failing access or a
power cut may come between any two; whole sectors pass by the buffer; the free count is
cached; a USB stick pulled out behind a status that says initialised. *Correct means*:
chains of clusters never cross, none is lost, what was reported as written stays, every
call does to the files what its documentation says.

### USB host (`lpcusblib/`)

*State*: `USB_HostState` and its wait states, the pipes, the endpoint and transfer
descriptor pools of `OHCI.c`, the mass-storage command under way. *Operations*:
enumeration in a task, attach and detach in the OHCI interrupt, transfers. *Hard*: the
interrupt overwrites the state while the task is in it or waits for a transfer; pools
of a fixed size; a command whose data or status stage fails.

### Applications (`src/main_ex_*.c`)

LED blinkers and one task that uses a driver. All of a program's tasks are created at
`tskIDLE_PRIORITY` and time-sliced.

## 2. Plan

In the order in which the parts depend on one another, the most important first. Done:

1. **UartRx** over `CharQueue`, **UartTx** and their composition **Uart**, with proofs for
   every ring size and any senders.
2. **Scheduler**, since everything blocks through it, with proofs; **PeriodicTask** on
   top of it, with proofs.
3. **SdCard** with card and timers: the driver the main example is about; with proofs.
4. **KernelList** over `ListRing`: what `Scheduler` assumes of the lists; with proofs.
5. **Queue** over `BoundedQueue`, with proofs.
6. **Mutex** over `LockTable`: inheritance, recursion, and with them the FatFs volume
   lock; with proofs.
7. **EventGroup** over `Rendezvous`, with proofs.
8. **FatFs** and **Volume** over `FileStore`: window, chains, buffers, faults; with proofs of
   what keeps the chains apart.

Left, in order:

9. **UsbHost**: the enumeration in a task against attach and detach in the OHCI
   interrupt, then mass storage over it, and the status of the USB disk.
10. Directories below the root and FAT32 in `FatFs`.
11. A proof that what was reported written stays on the medium, from the invariant of
    `VolumeProofs` and one more for the data sectors.

## 3. Modules and code

### UartRx, UartTx, Uart

One port, one reader. `Arrive` puts the next character in the hardware FIFO `rbr`;
`UART_IRQHandler` takes one out and does all of `fifo_put`, in one step because nothing
that touches the ring interrupts it. The reader (`fifo_get`) is cut into the test for an
empty ring, the load of the character and the store of `tail`, with interrupts in between.
History variables keep what was stored and what was returned. Arrival is bounded by
`MaxArrived`; the receiver's hardware FIFO by `RbrDepth`.

In `UartTx` any task of `Senders` starts to send one of `Texts`; `Poll` succeeds when the
transmit FIFO is empty (LSR_THRE), `WriteNext` writes, twice after one poll where
`UARTSendStr` meets a newline. The controller takes characters out at any time. `Uart`
composes the two, with `UARTInit` as its initial state.

### SdCard

`pc` names the command, data block or wait the driver is in, `op` the entry point FatFs
called; a step is one exchange on the bus with the local code up to the next access of a
timer. The wait for ready, the ACMD41 and CMD1 loops, the wait for the data token and
the loops over the sectors are kept, CRCs and bytes are not. The card answers as its
mode, its kind and its open transfer allow, or not at all; it may stay busy for ever and be
removed and replaced at any point. FatFs may initialise the drive whenever it is idle, as
`find_volume` does after `f_mount` whatever the status says. `disk_timerproc` runs in a task, so its load,
decrement and store are steps of their own, as `src/main_ex_sdcard.c:40-47` runs it. The
waits' lengths are constants (`ReadyTicks`, `InitTicks`, ...) in place of 50,
100, 10 and 20.

### Scheduler

A step is one critical section, or one stretch of a call with the scheduler suspended;
interrupts run between them. Lists are sets, with the value of an item where
it decides something; `KernelList` is where the order inside a list is checked. A task's
`pc` says how far it is in a kernel call, `pendSV` and `yieldPending` which switch is due.
Calls on other tasks (`Manage`), in every state those may be in, are made from application
code; interrupts wake from event lists and resume suspended tasks, and the tick comes at any
time. The history variable `left` counts down what a delayed task asked for. Calls that would
suspend or delete the idle task, or change its priority, are excluded: the kernel requires
one task that is always ready.

### PeriodicTask

One task beside `Scheduler`'s full set of calls: it sets `previous` with
`xTaskGetTickCount` and from then on calls only `vTaskDelayUntil`, which is an action of
`Scheduler` (`ShouldDelay` is its comparison of three ticks). `since` counts the ticks since
`previous`, without a wrap, and so says what the comparison should have found.

### KernelList

One list: `pxNext` and `pxPrevious` as functions on the items and the end marker,
`pxIndex`, a value per item, and `use`, which of the three ways the kernel uses a list: ready lists take
`vListInsertEnd` and the round-robin macro, delayed lists `vListInsert` with a time,
event lists `vListInsert` with a priority, whose value is also written in place.
`ListRing` is the same without pointers: a sequence and a position.

### Queue

A step is a critical section or one call made with the scheduler suspended, from `try` at
the head of the loop to `unlockRx`; the module's head lists them. A task that has
suspended the scheduler keeps other tasks out (`holder`), never interrupts. The choice of the
task that is woken is left open, which covers every assignment of priorities. The
scheduler's part is a number of ticks `left` (the exactness `DelaysExact` proves of it).
`Contents` reads the queue off the pointers, `BoundedQueue` is what it refines.

### Mutex

A step is one critical section or what is done with the scheduler suspended; a task runs
only while it is `current`, which changes only where the code asks for a switch. The waiting
lists are sequences in the order `vListInsert` gives them. A take goes through the loop
of `xQueueGenericReceive` (`Obtain`, `Refused`, `Wait`, `Expire`, `Again`, `Block`), a give
through `xQueueGenericSend`; `vTaskPriorityInherit` and `xTaskPriorityDisinherit` are
operators they contain. A tick readies any delayed task or ends any timeout (`Awake`).
`nest` is a history variable: what each task was told. Tasks take several mutexes in ascending order, which is the
program's duty, not the kernel's. `ff_req_grant` and `ff_rel_grant` are a take with a
timeout and a give; `f_mount`, which deletes the mutex, must not overlap other calls
(`fatfs/doc/en/appnote.html:167`).

### EventGroup

The event list item of a task is a record that holds its priority, what it waits for, or
the bits it is answered with. A step is a critical section or what is done with the
scheduler suspended. `uxTaskResetEventItemValue` (`tasks.c:3584`) has no lock and is two
steps. Any ready task may run. `since` of the rendezvous is kept as history. A deleted
group is made anew (`Renew`) once nobody is about to look at the old one.

### FatFs, FileStore, Volume

`FatFs` has no variables: a disk, the mounted volume and the open files are records, and
each call of `ff.c` is an operator from such a state to the next, with the list of accesses
left (`move_window`, `get_fat`, `put_fat`, `create_chain`, `dir_find`, `f_write`, ...). An
access may be told to fail, to fail after it took effect, or to be the last before the
power goes. Data are units, `SS` to a sector; a sector of the table or the directory
has `PerFat` and `PerDir` entries. A loop of the code is `Loop`, so many rounds of a body
(`ReadRound`, `WriteRound`, `SeekRound`, `FreeNext`, `Probe`, `ScanEntry`, `CountEntry`) that
leaves the state alone once the code's loop has ended. `Volume` has the state as variables and an action for
each call, with some argument and at most one fault at one of its accesses; one caller at
a time, which is what the volume lock of `Mutex` is for. `FileStore` says what the calls may
do to files taken as sequences: a failed call may leave its own file in any state, but
no other one. `content` is the file as the calls see it, `OnMedium` as a fresh mount would.

What the application must not do, as the documentation says, is excluded: the volume is not
mounted again while a file whose size changed without `f_sync` is open, and a file whose
`f_truncate` failed is not used again. `f_rename` enters the new name and removes the old one
in a "critical section where any interruption can cause a cross-link" (`ff.c:3706`,
`fatfs/doc/en/appnote.html:220`): after one that failed there, `twins` has the pair, neither
name is used again, and the volume is not mounted again either (`loose`, `dropped`).

## 4. Runs

| run | question | instance | states |
| --- | --- | --- | --- |
| `uart` | order, refinement of a FIFO, the reader is served, nothing is written to a full FIFO | ring of 3, receiver of 2, 6 characters; 2 senders, transmit FIFO of 4 | 1.18 M |
| `sd_requests` | partial success, de-selection, identification, waits cut short, termination | all four kinds, 2 sectors, 1 removal, initialisation at any time | 685 k |
| `sd_race` | *violation*: a timer counts fully | one kind, no removal | |
| `sched_safety` | ready lists, highest priority, pending work, exact delays | idle and 2 tasks, 3 priorities, tick of 0..2 | 1.63 M |
| `sched_delays` | every delay ends; `vTaskDelayUntil` keeps the schedule | idle and 1 periodic task, tick of 0..3, 2 nested locks | 313 k |
| `lists` | the pointers implement the ring; sorted lists; equal share | 3 items, 3 values | 13 k |
| `queue_wakeups` | lost wake-ups, locks, refinement of a sequence | 3 tasks, 2 places, 2 items | 2.05 M |
| `queue_timeouts` | early timeouts, termination, overwriting, resets | 2 tasks, 1 place, tick of 0..3 | 197 k |
| `mutex` | refinement of a lock table, lost wake-ups, inheritance and its end, priority inversion | idle and 3 tasks, a mutex and a recursive one | 741 k |
| `events` | nobody overlooked, true answers, items follow priorities, refinement of a rendezvous | 3 tasks with a bit each, 1 more bit | 1.68 M |
| `volume` | chains, lost clusters, what was reported written stays, refinement of a file store | 2 files, 4 clusters, 5 calls, 1 fault at any access | 293 k |
| `volume_close` | *violation*: a close that succeeds has written the file | the same, 4 calls | |

**Bounds.** A ring of 3 holds two characters, so it is empty, partly filled and full, and six
characters take both indices round twice. The transmit FIFO has two slots for each task
that sends, as the 16 of the controller are for the tasks of any example; with fewer the
property does not hold, and `TxAssumption` says so. The timers' lengths are at least
one and, where two waits nest, differ, so either can end first; two sectors
distinguish first, last and between. Two tasks beside idle at three priorities
give tasks above, beside and below the running one; the tick wraps after three values, with
delays that end before and after the wrap, while one tick is pended. Three items
are the least for which a list can be changed on either side of `pxIndex`. Three tasks
on a queue of two are the least for which a wake-up can go to the wrong one: one that
waits, one that is on its way, one that holds the lock; lock counts of two make the
loops of `prvUnlockQueue` go round. Three priorities above idle are the least for a priority
inversion, two mutexes for giving back in another order, a depth of two for recursion.
Three tasks are the least for a rendezvous in which one leaves while another stays.
Four clusters of two sectors of two units give a file that ends inside a
unit, a sector, a cluster and at each boundary, a table that lies in two sectors, a
directory whose entries do too, so that a rename may stop between them, and a volume that
fills up; the modes of `f_open` are for reading and writing, for one of them, with and without
creating; five calls open, write, change and close a file beside
another, and a fault counts as a call. `MaxPended`, `MaxNesting`, `MaxLock`, `MaxArrived`,
`MaxRemovals`, `MaxDepth`, `MaxSets`, `MaxCalls`, `MaxFaults` are bounds of guards and are
named so. `volume` stops at its bound, hence CHECK_DEADLOCK FALSE; its VIEW leaves out
`content`, which is a function of the rest, and `last`, which says how a state was come by.

**Symmetry** is used only in runs without liveness properties.

**Fairness.** The reader and the receive interrupt run (`uart`): a task that polls is
time-sliced, an enabled interrupt is taken. Of senders nothing is claimed: a task may find
the FIFO filled by others each time it polls. The task that uses the card and the one that
runs `disk_timerproc` both go on (`sd_requests`): they have the same priority and
`configUSE_TIME_SLICING` is left at 1. Fairness is on the driver's own steps only
(`SureStep`): of the card nothing is assumed, it may never answer. In `sched_delays` the tick
keeps coming (strongly, since critical sections mask it for a while), requested switches
are taken, calls go on, and a task that has suspended the scheduler resumes it. In `lists`
the macro is used again and again. In `queue_timeouts` tasks take their next step and the
tick comes; both stand still while another task has the scheduler suspended, hence strong
fairness. It presupposes tasks of equal priority, as the examples' are
(`src/main_ex_sdcard.c:91-97`).

## 5. Proofs

Each safety property that a run checks is a theorem here, except three of `volume`. The
module `XProofs` has the theorems about `X`, `KernelProofs` those about `Scheduler`,
`PeriodicTask` and `KernelList`; each begins with the inductive invariant.

**UartProofs**, for every ring size of at least two, every receiver depth, any senders and
any texts. `RingInvariant` is the inductive invariant of the receiver: the slots from `tail` up
to `head`, modulo the size, hold what was stored and not yet returned, in order; a character
the reader has loaded is the oldest of them; and the ring stays non-empty once the reader
has found it so, because only it moves `tail`. The last part is what the interleaving turns
on, and what the two checked invariants do not say: alone they are not inductive.
`ReaderOrder` and `RingConserves` follow, and `RingIsQueue`: what lies between the indices is
the queue of `CharQueue`, and the store of `tail` is the moment a character leaves it: the
one the reader has loaded before.

`TextsSent` is about the transmitter, where the senders' polls may be overtaken by one
another. Its invariant counts: the characters in the FIFO, one for each sender that has polled
and one more for each that is to write a second one add up to at most two for each sender, and
`TxAssumption` gives the FIFO that depth. So no write is lost, and what went out is, text by
text, what the senders gave.

**SdCardProofs**, for every kind of card, number of sectors and length of the waits.
`CardIsReleased`: a call of the interface returns with the card de-selected, by whichever of its
exits. `OkIsComplete`: RES_OK means that every sector was accepted or delivered. Both rest on
an invariant that says for each place in the driver which request it belongs to and how
many sectors are done (`OnPath`, `Progress`). `CardIsIdentified` needs one more (`Identity`),
which says of each place in `SD_Init` what the answers so far leave the card to be, and of each
place after it that the type is the card's or forgotten. Nothing is assumed of when FatFs
initialises the drive. `WaitsAreCut`: what is
left of a timer and the calls of `disk_timerproc` since it was armed make up the value it was
armed with, unless it was armed inside one of them; so nothing else ends a wait early.

**KernelProofs**, its first part about the scheduler, for every finite set of tasks with an
idle task, every number of priorities and event lists, every width of the tick count, with
the assumptions `Scheduler` names. `KernelInvariant` proves the conjunction of

- `TypeOK` and `CallState`, which parts of a call may be under way with the
  scheduler suspended or not;
- `ReadyListsAgree`: the bitmap mirrors the ready lists and idle is ready;
- `NothingLeftPending`: no pending task and no pended tick once the scheduler runs;
- `SwitchIsDue`: a ready task above the running one implies a pending switch, a recorded
  one, or a call part that will request it. `HighestPriorityRuns` is what is
  left of it when nothing is under way;
- `DelaysAgree`: the wake time in an item, the list it is on and the tick count say the
  same as the ticks the task has still to wait, `xNextTaskUnblockTime` included.
  `DelayIsExact` is an action property that follows from it.

There is a lemma per action; in each, one step per conjunct the action disturbs.

Its second part takes the kernel's invariant over to a task that uses `vTaskDelayUntil`
(`KernelStep`: each of its steps is one of the kernel or leaves it alone) and adds that
`previous` plus `since` is the present tick, modulo the width. `Punctual` follows by cases
on which of the three ticks has wrapped.

**QueueProofs**, for every set of tasks, length, width of the tick count and choice of
operations. `QueueInvariant` proves the conjunction of `LockedByHolder`,

- `Calls`: a listed task is in a call of the operations of its list, at a place from
  where it looks again;
- `Seen`: what a task that is about to list itself has seen of the queue has changed by no
  more than the locks have counted. This is what closes the window in which an interrupt
  may post: `ReceiversAreWoken` is not inductive without it;
- `Timing`: what is left to wait is no more than `xTicksToWait` less what has passed since
  `xTimeOnEntering`, with the wrap taken into account; `NoEarlyTimeout` rests on it;
- `Ring`: `pcWriteTo` is `uxMessagesWaiting` and one after `pcReadFrom`.

On top of it `Served` is inductive for each of the two lists (`ServedStep`); it counts the
tasks on their way with the theorems on finite sets. It gives `ReceiversWoken` and
`SendersWoken`, the latter on condition that a queue of several places is not reset.
`QueueIsBounded` is the refinement of `BoundedQueue`. `Contents` reads the items off the
storage area; a lemma for each end says what a store in it or a step of a pointer does to
the sequence (`HeldBack`, `HeldFront`, `HeldTail`), which is where the wrap of the indices is
dealt with, and then every operation of a task or an interrupt is one of the sequence and every
other step leaves it alone.

**MutexProofs**, for every set of tasks, mutexes and priorities. The invariant: availability,
holder, depth and `nest` say the same (`Ownership`); the count in a task is the number of
mutexes that name it (`Counts`), which is why a task without mutexes is back at its own
priority (`BoostReturned`); a waiting task is off the ready lists and on one waiting list
(`Lists`); a free mutex that is waited for has a ready task in the loop (`Claims`);
and the running task is a highest ready one (`HighestRuns`). `MutualExclusion` is the refinement of
`LockTable`, a step at a time from the same invariant.

`BoostedHolder` and `MiddleTasksWait` need what the waiting lists still say when an inherited
priority has changed a task that is in one without moving it: no task runs below its own
priority, and the value in its item is what it runs at (`Raised`); each task in a
list runs at least at the own priority of those behind it (`Ordered`), which is less than
being sorted; and while a mutex that is waited for is free, a ready task is about to take
it that runs at least at the own priority of all that wait (`Promised`).
Looking for this invariant showed that
`HolderIsBoosted` as it stood before is false with four tasks, where three do not suffice:
after a give that ignores the end of an inheritance (`overlooked`, section 6), a low task goes on
and can take the mutex that was just given to a high one, while others still wait in the
list; nobody boosts it until the next of them tries. The property now excepts that case, as
`HighestRuns` does.

**KernelProofs**, its last part about the lists, for every set of items and any values. The
pointers have no sequence in them, so the invariant says that one exists (`Shows`): nodes without repetition, the listed
items and the marker, along `pxNext` and back along `pxPrevious`, ending at `pxIndex`, as many as
`uxNumberOfItems` says, and sorted in a delayed list. Each operation of `list.c` turns the
sequence that shows the list before into the one after it: with a node more
(`WithCircle`), one less (`LessCircle`), or a step further (`TurnedCircle`). That the loop of
`vListInsert` stops at the right node is `PositionIs`. `Ring` is that sequence
(`Shown`), so the same lemmas prove the invariant, `LinksAgree`, `HeadIsFirst` and the
refinement of `ListRing`. The walks along `pxNext` are a recursive function; what is said of
them goes by induction, as the least number of a set of naturals that does not satisfy it.

**EventGroupProofs**, for every set of tasks, bits and waits. The invariant says what the
item of a task is used for in each place of a call, that a blocked task's wait is not
satisfied by the bits, and (`Arrived`) that who has set its bit of the rendezvous has been
met by all who have not passed since. The four properties follow, `SyncIsRendezvous` as a
refinement of `Rendezvous`.

**FatFsProofs** and **VolumeProofs**, for every geometry, number of clusters and names, all
sizes and offsets, and a fault at any access. `ChainsStayDisjoint` says that the chains of two files never meet, and
`VolumeTypeCorrect` that a dirty window is a sector of table or directory, a dirty
buffer one of the data region, and the pointer of a file that works not behind its end. A chain
is a path in the table, of any length. Instead of following it the invariant says that a
*certificate* exists: an owner for each cluster, its place in the owner's chain, and how long that
chain is, such that the table leads from each place to the next (`Chained`), each name's first
cluster is at place 0 of a chain long enough for its size (`RootedAt`) and two names have
two owners (`Apart`). Disjointness is then that a cluster has one owner; that the walk
`ChainOf` stays with one owner is `ChainTraced`. On top of it `Holds` says how directory and
open files go together: a file whose entry is not marked to be written has one that fits it
(`FiledAt`), and its pointer stands in the cluster it names (`PosOK`).

A call reads and writes through the window, and each access in it may be the last. So the
invariant inside a call (`InOrder`) is `Holds` of the volume as the window shows it, *and* that
the medium by itself would be found in order by the next `f_mount` (`Fine`). A step either
leaves what is seen alone (`Passes`: `move_window`, `sync_fs` and all that reads), or
changes one entry in the window, and the medium is then either the old one or what was
seen before. This is why `create_chain` marks the new cluster before it links it, why
`f_truncate` puts the end mark before it frees the rest, and why `f_unlink` removes the
entry before the chain; in `Fine` the names of `loose` are excepted, whose entry `f_truncate` or
`f_rename` left behind. For each function of `ff.c` there is a lemma that says so for each
way it may return; the loops go by induction over the rounds (`RunInduct`), whose
invariants are the sets of machines `S[k]`. While a call works on a file, its pointer is between
two clusters, so the file object in hand is kept apart (`Hand`, `Parked`) and
put back at the end (`Kept`). `Coherent`, the inductive invariant, is this for the variables
of `Volume`, with what `twins`, `dropped` and `loose` say of each other.

The proof changed the model in one place: `ChainsDisjoint` as it stood took an `f_rename`
that failed for one that had done nothing. With both entries in one sector, as in the run of
that time, that is so; with the entries in two sectors the first may be on the medium and the
second not, and both names lead to one chain. The run now has one entry to a sector, and the
property excepts such a pair.

**Assumptions.** Those the modules name (`ListAssumption`, `QueueAssumption`, ...), which say
no more than that sets are finite, numbers natural, a queue that is overwritten of one
item, and a FIFO as deep as the senders need. The theorems are about the bounded `Next` of the runs,
for every value of the bounds.

**Only model-checked.** Liveness (`WaitingReaderIsServed`, `RequestsReturn`, `DelaysEnd`,
`EqualShare`, `CallsReturn`), which needs ENABLED. Of `Volume`: `SpaceAccounted`, which counts
the clusters of every chain and would need each step of these proofs to be exact where
it is now content with a cluster that is marked and not owned; `SyncedFilesSurvive`, which
needs the same of the data sectors and of what the medium holds under the window; and the
refinement `ImplementsStore`, which is about every unit of every file.

## 6. Findings

- `sd_race`: `disk_timerproc` belongs in an interrupt, as its comment says
  (`fatfs/user_config/sdcard.c:624`); run from a task it can write an old count over a timer
  just armed, and a wait is cut short. `OnlyOverlapsCutWaits` shows that no other step does so.
- `volume_close`: `f_sync` clears `FA__WRITTEN` before the directory entry is on the medium
  (`fatfs/src/ff.c:2794`). If that write fails, `f_close` then has nothing to do and reports success,
  against `fatfs/doc/en/close.html:48`.

Met while modelling and not counted as findings, because the documentation says so, the
case is a matter of opinion, or no run is about it:

- `head` and `tail` of the receive ring are not volatile (`src/uart.c`); the loop of
  `UARTGetChar` is right as written and with the -O0 of `.cproject:56`, which is what
  `UartRx` models.
- `MMC_disk_initialize` never sets `STA_NOINIT` again (`sdcard.c:45`), which
  `fatfs/doc/en/dstat.html:38` says a failure does. After `f_mount`, or a mount that failed,
  `find_volume` initialises the drive again (`ff.c:2183-2199`); if CMD0 or a later command of
  `SD_Init` is not answered then, the drive counts as initialised and has no type, and
  `SD_ReadSector` takes an SDHC card, which may still be ready, for one with byte addresses.
  `CardIdentified` shows that this is the only way to a wrong unit.
- `vListInsertEnd` puts the new item where it is served last, before the item the index
  points to. Changing the priority of a waiting task leaves its event list in the old
  order (`tasks.c:1140`), a known restriction of this kernel.
- `xQueueReset` wakes one of the tasks that wait to send although it frees all places, and its
  comment says so: `queue_wakeups` is run without resets, which `queue_timeouts` covers.
- `vTaskDelayUntil` takes a wake time for wrapped when it is called again before the last one has
  come, which a task that is suspended and resumed in it may do; it may then return at once.
  `OnSchedule` is about calls made in step.
- A give that wakes a task does not look at the answer of `xTaskPriorityDisinherit`
  (`queue.c:695`): a giver that falls back below a ready task goes on until the next switch.
  `HighestRuns` excepts it as `overlooked`. A boost stays after the waiter it came from has
  timed out, until all mutexes are given back; inheritance is not transitive.
- `xEventGroupSetBits` reads the bits it returns after `xTaskResumeAll`
  (`event_groups.c:563`), as its documentation explains. `uxTaskResetEventItemValue` may store a
  priority that has just been changed; `ItemsFollowPriorities` excepts that overlap alone.
- In `ff.c`: `f_getfree` keeps a partial count after an error (3412); a failed `f_truncate`
  leaves the buffer dirty, and a successful one frees clusters before the entry is written
  (`appnote.html:220`); `create_chain` loses a cluster when its second access fails; an aborted
  `f_write` leaves data, and in a new file a first cluster, that no flag says must be written,
  so that `f_close` succeeds and the cluster is lost, though never in two files; `check_fs` drops a dirty window
  (2133); `validate` reads the volume's id before it takes the lock (2330).
- `main_ex_sdcard.c:60` mounts the default drive, which `fatfs/src/diskio.c:16` maps to the
  ATA stub and not to the SD card.

## 7. Not modelled

- In `tasks.c`: run-time statistics, tickless idle. In `queue.c`: creation and deletion,
  queue sets. Software timers and co-routines, and with them the event group calls for
  interrupts, which `FreeRTOSConfig.h` configures off.
- The heaps: the build uses `heap_3.c`, which wraps `malloc` with the scheduler suspended.
- In FatFs: FAT12 and FAT32, the second copy of the table, sub-directories and the string
  functions; the code pages, which are tables. Long names, labels and `f_mkfs` are configured off.
- `MMC_disk_ioctl`'s queries, which copy fields, the decoding of the CSD, and the
  block transfer through the FIFO of the SPI controller.
- The real-time clock and `get_fattime`: time stamps decide nothing that is modelled.
- USB host core, OHCI driver and class drivers, and the status of the USB disk over them: a
  vendored library whose state is mostly in descriptors shared with the controller. It is the
  largest part left, see section 2.
- The USB device stack, EHCI, other class drivers, CMSIS and start-up code: for other chips
  and roles, or register set-up.
