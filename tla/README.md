# SyntropicOS: models, checks and proofs

SyntropicOS is a cooperative operating system for microcontrollers, written in
C without dynamic allocation. This directory holds TLA+ models of its kernel,
of its persistent settings, of its firmware update and boot, and of two of its
protocols, the TLC runs that check them and the theorems
TLAPS proves about them. Paths below are relative to `src/syntropic/` of the
repository. `PROJECT.json` gives the source lines behind every definition, a
wrong variant that every checked property rejects (the definitions marked
"Mutant"), and the hazards the models are aimed at.

## 1. The system

### Parts

| part | state | operations | what makes it hard |
|---|---|---|---|
| scheduler `sched/syn_sched.c` | task array (state, priorities, deadline, awaited flags), one rotation index per level | one pass of `syn_sched_run`, task control, `run_forever` | interrupts between any two steps; states that last one pass; tick wrap |
| protothreads `pt/syn_pt.h` | the continuation of each task | the macros that yield, wait, delay, defer, block | test and block against an interrupt; deadline 0 means "none" |
| event flags `sched/syn_event_flags.c` | one word | set, clear, wait | flags seen in one pass and consumed in a later one |
| mailbox `sched/syn_mailbox.h`, SPSC queue `util/syn_spsc_queue.c` | ring, two indices | post, receive, peek, flush, queries | two sides, no lock |
| work queue `sched/syn_workqueue.c` | ring | post from anywhere, drain | many posters, a drain without critical section |
| semaphore `pt/syn_pt_sem.h` | count | wait, block, try, signal | test outside the critical section; a signal wakes nobody |
| active object `sched/syn_ao.c`, state machine `util/syn_fsm.c` | mailbox, current state | post, task loop, dispatch | posts between a look and a yield, and from callbacks |
| mutex `sched/syn_mutex.c` | owner, depth | lock, try, unlock, inheritance | inheritance happens when a waiting task is polled |
| software timers `sched/syn_timer.c` | target, period | start, stop, re-time, service | late service, tick wrap, `UINT32_MAX` as sentinel |
| tickless loop `sched/syn_sched.c`, sleep coordinator `system/syn_sleep.h` | deadline, wake locks | decide, mask, sleep, wake | the decision races interrupts and a moving tick |
| parameter store `storage/syn_param.c`, settings `storage/syn_settings.c` | flash slots, block in RAM, checksum | init, save, reset, reload, import | power cuts and errors between flash operations; sequence wrap |
| firmware updater `system/syn_fwupdate.c`, boot manager `syn_fwboot.c`, boot record `syn_boot.c`, OTA manager `syn_ota.c` | two image slots with a header, page buffer, failure count | download, verify, select, confirm, roll back | power cuts and errors between flash operations; cached headers |
| ISO-TP `proto/syn_isotp.c` | a sending and a receiving channel per link | send, frame out, frame in, receive, step | lost and repeated frames, two timeouts, flow control both ways |
| Modbus RTU `proto/syn_modbus_master.c`, `proto/syn_modbus.c` | the request under way, a queue, frame buffers, registers | request, feed, process, queue step, poll | late, lost and garbled frames, retries, frames told apart by silence |
| timer wheel, watchdog, sequencer `sched/` | lists, deadlines | | callbacks that change the list; not modelled |
| ring buffers, pools, publish-subscribe `util/` | | | not modelled |
| other protocols, network, drivers, BLE | | | about fifty independent stacks; not modelled |
| DSP, control, motor, audio, crypto, display, UI, VM, sensors | | | numeric or drawing code; not modelled |

The scheduler runs one task at a time until it returns. Everything concurrent
comes from interrupt handlers, which set flags, post to queues, signal
semaphores, take wake locks and resume tasks, and from a second core using the
lock-free queues. Flash outlives a power cut; everything else is lost.

### Modules

| module | models | composed of |
|---|---|---|
| `Clock` | the tick and its comparisons | |
| `Sched` | scheduler, protothread macros, event flags | extends `Clock` |
| `SchedWaits`, `SchedProofs` | theorems about `Sched` | extend it in this order |
| `BoundedFifo` | what every single-consumer queue promises (abstract) | |
| `Mailbox` | mailbox | refines `BoundedFifo` |
| `WorkQueue` | work queue on the SPSC ring | refines `BoundedFifo` |
| `Semaphore` | semaphore macros | |
| `DeferredWork` | handler posts and signals, task drains | `WorkQueue`, `Semaphore` |
| `ActiveObject` | active object and its state machine | the mailbox as the queue `Mailbox` is proved to be |
| `Channels`, `MCChannels` | the three side by side; an instance | `Mailbox`, `DeferredWork`, `ActiveObject` |
| `ChannelsProofs` | theorems about the three and their composition | extends `Channels` |
| `Mutex`, `MutexProofs` | mutex with inheritance under the scheduler; theorems | the pass as `Sched` has it |
| `Timer` | software timers | extends `Clock` |
| `Tickless` | tickless loop, sleep coordinator | extends `Timer` |
| `TicklessProofs` | theorems about both | extends `Tickless` |
| `ParamStore` | parameter store on NOR flash | |
| `Settings` | settings manager, boots | extends `ParamStore` |
| `SettingsProofs` | theorems about `Settings` | extends it |
| `Kernel` | mutex, tickless loop and settings side by side, for one run | extends `Mutex`, `Tickless`, `Settings` |
| `FwSlots` | image slots on NOR flash, their headers | |
| `FwUpdate` | streaming updater | extends `FwSlots` |
| `FwBoot` | boot record, boot manager | extends `FwSlots` |
| `Firmware` | a device: resets, OTA manager, application, power failures | extends `FwUpdate` and `FwBoot` |
| `FirmwareProofs`, `FirmwareImageProofs` | theorems about `Firmware` | extend it in this order |
| `IsoTp`, `MCIsoTp` | two ISO-TP ends and the bus; an instance | |
| `ModbusLine` | tick and bytes of an RS-485 line | |
| `ModbusMaster`, `ModbusSlave` | master with its queue; slaves | extend `ModbusLine` |
| `Modbus`, `MCModbus` | the line with its nodes and faults; an instance | extends both |

## 2. How the models correspond to the code

Variables carry the names of the structure fields; locals of a function that
live across a step are variables too. Variables under "history" are read by no
action and serve properties only. A step is a stretch of code that nothing can
come between as far as its effect goes: a critical section, one access to a
shared word, or code whose variables no interrupt touches.

**Sched.** `syn_sched_run` is `SchedRun`, one `Scan` per task, `Select`, then
the chosen task's code, `Executed` and `Clean`. A task's function is left open:
it resumes in the macro it left through (`Enter...`), may call any task control
function of `Controls`, and leaves through any macro of `Ops`. A task that
returns `PT_WAITING` sends the pass back to the scan (`Waiting`). `SetFlag`,
`Signal` (a driver making a condition true and calling `syn_task_resume`) and
`Tick` happen between any two steps. The tick counts modulo `2 * Half`.

**Mailbox.** Each load and store of an index and both ends of each `memcpy` are
steps; a slot in the middle of a copy holds `Torn`. The barriers in the code
are what makes steps happen in program order.

**WorkQueue, Semaphore, DeferredWork.** A post is one critical section; the pop
is load, copy, release. `Semaphore` has any number of tasks, of which the
scheduler runs one at a time, and the test and the take as two steps.
`pt_sem_signal` only counts; `syn_task_resume` of a blocked task (`Resume`) is a
step of its own, which nobody has to take. In the composition the handler
signals once per accepted item.

**ActiveObject.** The loop of `syn_ao_pt_run` and the stages of
`syn_fsm_dispatch` (match, exit, action, enter) are steps that posts fall
between. A guard may answer either way. `syn_fsm_set_state` is left out.

**Mutex.** Tasks lock, retry when polled, unlock, yield and sleep. The pass is
reduced to strict priority with tasks already tried set aside. Among equals any
task may be chosen, which allows more than the rotation does.

**Timer, Tickless.** The loop runs a task or finds none, services the timers one
by one, masks interrupts, reads the tick (`Mask`), computes the tasks' deadline
with a second reading (`TaskWake`) and the timers' with a third (`Decide`), and
sleeps (`Enter`). The tick is a hardware counter that moves while interrupts
are masked, as on the RP2040 and ESP32 ports. Interrupts raised under the mask
stay pending and end the sleep.

**ParamStore, Settings.** A slot is a block and a header, each erased, whole or
`Mix`: the bits of an interrupted write or of a write over something else. Each
erase and write is a step that may be cut off by a power loss or return an
error; what it then leaves is any outcome NOR flash allows. Reads do not fail.
The checksum tells all blocks apart, and `Mix` is never taken for whole.
`Sectors * Slots` stays below half the sequence range, which the code does not
enforce.

**FwSlots, FwUpdate, FwBoot, Firmware.** A slot is a header and the units of an
image; a unit holds the version it belongs to, is blank, or is `Mix`. A call of
the OTA manager, the updater or the boot manager computes its state change and
the flash operations it has to perform (`todo`); these are steps of their own,
each of which may be cut off by a power failure or report an error, and the
call's reaction to the error is `FlashError`. `PowerOn` is `syn_boot_init`,
`syn_fwboot_init` and `syn_fwboot_select(rollback)`, with `rollback` as
`syn_fwboot.h` describes it. The application may do everything the interface
offers, in any order, except name the slot it runs from as the target of an
update; it may crash at any step, which is a power failure. CRC, HMAC,
signature and GCM tag are modelled by what they tell apart: whether the stream
(for the signature: the flash) holds the image of the version announced. The
boot record is saved in one step that may be lost: `Settings` shows that a cut or
an error leaves the old record or the new one, and a save over the remains of an
earlier one may be lost even though it returns `SYN_OK`. `syn_boot_init` looks at
no status, so `counted` remembers whether the boot of the running image was
stored, `unmarked` the slots whose new state could not be written, and `stale`
the units of an update that were not blank when it began and lie in a sector that
`flush_page` does not erase (`Cleared` says which it does).

**IsoTp.** Both directions of two links. A message is a number and a length in
frames; each frame carries a unit that names its message and place, so that a
wrong assembly shows. `send`, `get_tx_frame`, `process_rx_frame`, `receive` and
one tick of `syn_isotp_step` at both ends are the actions; the bus keeps
frames in order, may lose or repeat them, and delivers within `Lag` ticks.
`process_rx_frame` runs in the interrupt, as in the example of `syn_isotp.h:29`:
`receive` is two steps (`ReceiveBegin`, `ReceiveEnd`) that frames come between,
and a frame may arrive inside `step` (`TickHit`), which then goes on with a state
and a timer it has read before or after it. `send` and `get_tx_frame` are one step
each: a frame inside them does what it would do before or after them. (The one
exception is a first frame that overflows between lines 175 and 176, which changes
the status of a flow control already taken. It would have to come while the answer
to another first frame is due, and `NBs > 2 * Lag` keeps a sender from sending it
then.)

**Modbus.** Frames are records or `Junk` (bytes whose CRC does not match; two
frames that run into each other are `Junk`). A slave is polled or fed by its
interrupt, takes its buffer after `Silence`, and answers at once. The master is
used through its queue or directly. Each node's main loop runs at least every
`Lag` ticks; frames may be lost or garbled. `took`, `acked` and `unsure` are
history. What `send_request` does not finish (coil requests) goes out as
whatever the buffer held. A query that `queue_step` cannot dispatch (not
`Accepted`: a function code it does not know, or parameters the request refuses)
stays at the head of the queue.

## 3. What is checked

| run | question | result |
|---|---|---|
| `sched_pick` | Which task does a pass run? `StrictPriority`, `WorkConserving`, `RoundRobin`, and `ReadyRuns` (liveness) | hold |
| `sched_block` | Do delays, event waits and timeouts return for a reason and on time, from every tick and over the wrap? `BlockReturnsForAReason`, `DelayIsKept` | hold |
| `sched_control` | Do the states survive task control and driver wake-ups? `NoLostWakeup`, `TickLocalStates`, `SuspendHolds` | hold |
| `channels` | Does what an interrupt hands over arrive whole, once, in order and in the end? Mailbox: `NoTornMessage`, `CountIsPromise`, `PeekStable`, `IsFifo` (refinement). Work queue and semaphore, two tasks: `NeverOverdrawn`, `WorkHasToken`, `WorkIsFifo` (refinement), `AcceptedRuns` (liveness). Active object: `NoStrandedEvent`, `AcceptedIsDispatched` (liveness) | hold; `AcceptedRuns` unless every task sleeps in `PT_SEM_BLOCK` |
| `semaphore_wakes` | Does a signal wake a task in `PT_SEM_BLOCK`? `SignalUnblocks` (liveness) | violated |
| `kernel`, mutex | Exclusion, ends of boosts, no inversion: `OwnerHolds`, `BoostEnds`, `NoInversion` | hold |
| `kernel`, tickless loop | Does the processor sleep over work, a timer or a lock? `NoTaskLeftBehind`, `NoTimerLeftBehind`, `LockKeepsAwake`, `ExpiresOnTime` | hold, with the exceptions their comments name |
| `kernel`, settings | Is a save atomic under power cuts and errors? `OldOrNew`, `ActiveIsNewest`, `UnchangedIsStored` | hold, except after a write over remains |
| `settings_slot` | Is the slot written always free? `FreeSlot` | violated |
| `firmware` | Does the device always keep an image to fall back to, try a new one once, and boot only what was verified? `FallbackKept`, `OneChance`, `NewIsWhole` | hold, with the exceptions their comments name |
| `firmware_image` | Does marking an image leave the image alone? `StateOnly` | violated |
| `firmware_pages` | Is a sector erased before a page is written into it? `ErasedAsNeeded` | violated |
| `isotp` | Are messages whole, do both ends come to rest, do messages arrive? `NoTornMessage`, `ComesToRest`, `Arrives` (the last two liveness) | hold, for up to two frames lost, repeated or arriving inside a call; `Arrives` for none |
| `modbus` | Is an answer the request's own, does an acknowledged write stand, is a request given up only for a reason, and always answered? `OwnAnswer`, `AckedStands`, `GivesUpForAReason`, `Answered` (liveness) | hold, given a timeout longer than the slaves' lag, with the exceptions their comments name |

The four violations are disagreements between the code and its own comments:

- `semaphore_wakes`: a task in `PT_SEM_BLOCK` has found the count 0; a handler
  signals; the task stays `BLOCKED` with a token there, since `pt_sem_signal` only
  counts. `pt/syn_pt_sem.h:94` says "Increment the semaphore count, unblocking a
  waiting protothread."
- `settings_slot`: a save that fails in the write of its block leaves a slot half
  written that the next save programs again without erasing;
  `storage/syn_param.h:15` says "Writes go to the next free slot". A power cut in
  the same place leaves the same slot.
- `firmware_image`: `write_state` erases the sector of the header and writes
  back the header only, while the image begins in the same sector
  (`syn_fwupdate.c:78`). After the first boot of an update the first part of its
  image is blank. `system/syn_fwimage.h:11` describes the layout as
  "[SYN_FwImageHeader (24 bytes)] [firmware binary (image_size bytes)]", and
  line 17 says "bootloader sets state = TESTING" and nothing else.
- `firmware_pages`: `flush_page` erases a sector after the first only for a page
  that starts exactly at it (`syn_fwupdate.c:43`). A page that reaches into the next
  sector is written over the old image. With the 24 bytes of header and the
  256-byte pages of the usage example (`syn_fwupdate.h:15`) no page starts at a
  sector, so that none after the first is erased, although `syn_fwupdate.h:123` says
  "Automatically erases sectors as needed."

Two more disagreements and five gaps are excepted by the properties and named in
the hazards of `PROJECT.json`. A task that suspends itself and then waits in
`PT_WAIT_UNTIL` is ready again after the pass (`sched/syn_sched.h:163`: "It will
be skipped by the scheduler until resumed"). At tick `UINT32_MAX` the answer
"now" reads as "no deadline" and the loop may sleep over ready work
(`sched/syn_sched.c:379`: "Only sleep if nothing is immediately ready"); and
where the target of a timer is `UINT32_MAX`, `syn_timer_next_expiry` takes it for
"none yet" and may pass over an earlier timer for a later one. And
nothing keeps an application from beginning an update over the only confirmed
image, while the image it runs is still on trial. A boot whose record
`syn_boot_init` could not store does not count against a trial
(`system/syn_boot.c:68`), and an image whose mark could not be written is tried
again (`system/syn_fwboot.c:84`). The Modbus requests that
build their own frame (0F, 11, 16, 18) do not reset `request_tick_ms`
(`proto/syn_modbus_master.c:154-272`): behind another request one may time out
at once, and its answer, which comes later, pass for that of a third. And a
query that `syn_modbus_master_queue_step` cannot dispatch is neither answered nor
removed (`proto/syn_modbus_master.c:437-443`), so that those behind it wait for ever.

### What the code leaves to its caller

Met while modelling; no run shows them, for the reason given.

- `syn_task_resume` on a task in `PT_BLOCK_EVENT_WITH_TIMEOUT` leaves
  `wait_mask`: the task reports the flags it asked for as if they had fired
  (`syn_sched.c:410`). Drivers resume tasks that wait on a condition, not on an
  event; no run mixes the two.
- A wait whose condition is true, a delay of 0, or a handler that posts to its
  own object does not give up the processor. That is what a cooperative task
  must not loop on; fairness assumes that tasks return.
- Locks in opposite orders deadlock. `lock_count` is 16 bits wide, and
  `fail_count` of the boot record as well.
- `syn_sleep_enable(false)` holds back only the sleep without a deadline.
- `syn_settings_import` without save makes a later save a no-op;
  `syn_settings_reload` leaves in the live settings what it could not verify.
  The interface says nothing of either. `UnchangedIsStored` excepts the first.
- A settings region of one sector, which `syn_param_init` accepts, loses its only
  copy in the erasure. The theorems say "two sectors or more" for this reason. The
  checksum does not cover the header, so that one written over remains may be
  valid with a wrong sequence number.
- `syn_ota_abort` after `READY` leaves the `NEW` header: the update called off is
  booted at the next reset.
- A task restarted in the middle of a pass, after its attempt, is tried again, and
  the pass, which ends after as many attempts as there are tasks, may leave a ready
  one untried. `WorkConserving` is checked and proved for passes without that.
- Three faults can make ISO-TP put two messages together where sequence
  numbers wrap within a message: a repeated flow control puts the sender a block
  ahead, then the last frame of one message and the first of the next are lost.
  The sequence numbers of the protocol cannot tell the frames apart;
  `NoTornMessage` is checked for two such frames.
- An ISO-TP message that was not read is overwritten by the next, which is why
  `Arrives` speaks of the last one.
- `syn_isotp_process_rx_frame` in an interrupt against `receive` or `step` in the
  main loop, as in the example of `syn_isotp.h:29`, has no critical section. A frame
  that arrives inside `receive` may spoil the copy and be forgotten, since `receive`
  idles the receiver at its end; one inside `step` may have what it completed given
  up, since `step` then compares a timer that is 0 with its tick. `NoTornMessage`
  (about `rx_buf`) and `ComesToRest` hold with such frames, `Arrives` excepts them.
- The Modbus queue retries on any error, `syn_modbus_master.h:232` speaks of
  "retry attempts on timeout". A file record write that refuses its
  second group has applied the first (file records are not modelled).

### Bounds

- `sched_pick`: three tasks on two levels, the least with a rotation inside a
  level and a level above or below it. `sched_control`: two tasks on two
  levels, since control calls relate a caller and a target. `sched_block`: two
  tasks, a tick of 8 values started at each of them, so that every deadline
  falls on each side of the wrap and on the sentinel 0. `MaxLate` bounds how
  long a task stays unpolled; in the code the bound is half the tick's range.
- `channels`: three slots, hence two messages, so that full, empty and wrapped
  rings all occur; the overflow counter wraps at 2. For the active object two
  signals, a mailbox of two, four posts, a table with a guarded row shadowing
  another and an ignored signal. Two tasks compete for the semaphore. The three
  channels share no state: a behaviour uses one of them. `semaphore_wakes` needs
  one task and one item.
- `kernel`: mutex, tickless loop and settings share no state either, and a
  behaviour uses one of them. The mutex has three tasks with any base priorities of
  three levels, two mutexes, depth two: the least with a chain of owners. Tasks lock
  in one order; deadlock by opposite orders is the application's to avoid.
  The tickless loop has one timer, one task, a tick of 14 values that wraps many
  times. The settings have two sectors of two slots, two blocks, 12 sequence numbers,
  which wrap, and any number of cuts and errors.
- `firmware`: a header of one unit, an image of three, pages of two and sectors of
  one: one sector of the image begins with a page and is erased, one lies inside a
  page and is not, and the last page is not full. `firmware_pages` has sectors of
  four and an image of four, so that the image starts in the header's sector and
  ends in another. Two updates, so that one is made after a roll-back
  or a confirmation; one flash error; any number of power failures. The factory
  image is version 1 and updates bring version 2.
- `isotp`: one end sends two messages of one or three frames, the other one of
  two or three, the longer of which overflows the receiver; sequence numbers
  modulo 2, so that they wrap within a message and a repeated pair could pass;
  a block size of one and a separation of one tick in one direction, neither in
  the other; two frames lost, repeated or arriving inside a call.
- `modbus`: one slave of each kind, three registers of which one is refused, two
  requests out of twelve kinds, two of which the queue cannot dispatch, one retry, a
  tick of 7 values. Two faults with the queue, enough to use up the retry, and one
  without. Behind a request timed from an old stamp the properties promise nothing, so that a third request
  would show no more.

### Fairness

`FairSpec` of `Sched` and `Spec` of `ActiveObject` have weak fairness of the
processor: `syn_sched_run_forever` never stops, and a cooperative task returns
(one that does not stops the system by design). `ActiveObject` relies on
`ReadyRuns` for its task being run. `DeferredWork` adds strong fairness of the
task coming back to its semaphore, since its loop consists of nothing else; that
anybody resumes a blocked task is not assumed.
`IsoTp` and `Modbus` have weak fairness of main loops, interrupts and clock
taken together: they go on, and the guards of `Tick` keep the loops from falling
behind by more than `Lag`. Interrupts that bring work, posts, requests, faults
and power cuts are never assumed to happen. Deadlock is checked in every run.

## 4. What is proved

For every value of the constants that satisfies the named assumptions, and so
for any number of tasks, levels, timers, slots, messages, any width of the tick
and of sequence numbers, any sizes of image, page and sector:

| theorem | states |
|---|---|
| `SchedWaits!TypeInvariance`, `WaitInvariance` | types with the locals of a pass; the inductive invariant behind the waits |
| `SchedWaits!DelaysKept` | `DelayIsKept` |
| `SchedWaits!ReturnsForAReason` | `BlockReturnsForAReason`, if no task is woken by `syn_task_resume` |
| `SchedWaits!SuspensionHolds` | `SuspendHolds` |
| `SchedProofs!Invariance`, `TypeCorrect` | the inductive invariant `IndInv`; types and index ranges |
| `SchedProofs!WakeupsKept`, `PriorityIsStrict`, `RotationIsFair`, `StatesAreTickLocal` | `NoLostWakeup`, `StrictPriority`, `RoundRobin`, `TickLocalStates` |
| `SchedProofs!PassConservesWork` | `WorkConserving`, if no task is suspended or restarted from within a pass |
| `ChannelsProofs!MailboxInvariance`, `MailboxTypes`, `WholeMessages`, `Promises`, `PeekedSlotHolds` | the mailbox's invariant; types, `NoTornMessage`, `CountIsPromise`, `PeekStable` |
| `ChannelsProofs!MailboxRefinement` | `IsFifo`: the mailbox implements `BoundedFifo` |
| `ChannelsProofs!TokensSuffice`, `WorkIsSignalled` | `NeverOverdrawn`, `WorkHasToken` |
| `ChannelsProofs!WorkRefinement` | `WorkIsFifo`: the work queue implements `BoundedFifo` |
| `ChannelsProofs!NeverStranded` | `NoStrandedEvent` |
| `ChannelsProofs!AllCorrect` | all of these of the composition that the run `channels` checks |
| `MutexProofs!Exclusion`, `BoostsEnd`, `Inheritance` | `OwnerHolds`, `BoostEnds`, `NoInversion` |
| `TicklessProofs!TicklessInvariance` | the inductive invariant of loop, delays and timers |
| `TicklessProofs!TimersOnTime`, `TasksServed`, `TimersServed`, `LocksHonoured` | `ExpiresOnTime`, `NoTaskLeftBehind`, `NoTimerLeftBehind`, `LockKeepsAwake` |
| `SettingsProofs!Invariance` | the inductive invariant of store and settings, for two sectors or more |
| `SettingsProofs!SavesAreAtomic`, `ActiveSlotIsNewest`, `UnchangedSettingsAreStored` | `OldOrNew`, `ActiveIsNewest`, `UnchangedIsStored`, for two sectors or more |
| `FirmwareProofs!Fallback`, `NoSecondChance`, `TypeCorrect` | `FallbackKept`, `OneChance`; types, and that the page buffer does not overflow |
| `FirmwareImageProofs!NewImageIsWhole` | `NewIsWhole` |

Every inductive invariant was checked by TLC on small instances before it was
proved.

**Scheduler, turns.** Assumed: at least one task, at least one level
(`TasksAssumption`, `LevelsAssumption`). None of the properties is inductive
alone. `IndInv` adds `PassInv` (what the locals of a pass are in each phase),
`SleepInv` (the last look at a condition came after the task had marked itself
`BLOCKED`: with the opposite order a signal in between is lost), `CandidateInv`
(the best task so far is no worse than any candidate the scan has passed) and
`RotationInv` (whoever overtook a task lies further round the rotation than it,
and whoever is chosen before it lies nearer, so the two sets are disjoint).
`PassConservesWork` counts the tasks marked `WAITING` against the attempts; a
restart in the middle of a pass takes a task out of that count, hence its
hypothesis.

**Scheduler, waits.** Assumed besides (`TickAssumption`): no delay, with the time a
task may stay unpolled added, reaches half the range of the tick. The argument
counts in distances from the tick (`Ahead`), on which the wrap does not show.
`DeadlineInv` says that a deadline is as far ahead as the task has left to wait,
or one more where it would have been the sentinel 0; `StaleInv` that the reading
of the tick a pass compares with is not ahead of the clock; `EventInv` that a
task blocked on flags has seen all that are set, and that one that is awake
again was told of some of them or its time was up; `PointInv` which states go
with which macro. `syn_task_resume` leaves `wait_mask` as it was, hence the
hypothesis of `ReturnsForAReason` (section 3).

**Mailbox.** `IndInv` says what each side may rely on at each point of its code
(`ProducerInv`, `ConsumerInv`: room was seen and cannot vanish, a message was
seen and cannot vanish) and that every slot from tail to head holds a whole
message (`RingInv`). The refinement maps the ring to the sequence of these
slots: the store of `head` appends to it, the store of `tail` takes its first
element, a flush drops a prefix, and everything else leaves it alone.

**Work queue.** `TokenInv` says that a task that has passed its test still has the
token it saw, since it is the running one and no other takes any, that a task at its
semaphore is not in the middle of a pop, and `WorkHasToken` itself. The
refinement (`QueueInv`) is the mailbox's, with a pop that copies before it
releases.

**Active object.** `BlockInv` says that the task is `BLOCKED` only from the mark
to the yield, and that once it has looked at its mailbox after the mark the
mailbox is empty: a post in between finds the mark and takes it away.

**Composition.** A step of `Channels` is a step of one channel and leaves the
others alone, so that a behaviour of `AllSpec` is one of each specification.

**Mutex.** `FreeInv` says that a mutex has an owner exactly if its depth is
positive, `WaitInv` that nobody waits for a mutex of its own, `PassInv` that a
task polled in vain in this pass still waits and has passed its priority on to
the owner, if that owner can run and has not run since. `NoInversion` then
follows from the strict priority of the pick.

**Timers and tickless loop.** Assumed (`TimerAssumption`): twice the longest
period, with the lateness of the loop added, stays below half the range. All
deadlines then lie in a window in which `(int32_t)` differences order them
(`TimerInv`, `DelayInv`, `LoopInv`). `TaskCover` and `TimerCover` say that the
tick to sleep until comes no later than any task or timer, from the moment it is
computed to the end of the sleep, while the tick moves on. The loops over tasks
and timers are recursive functions. What they return is shown by the least
counterexample: if some prefix had a wrong minimum there would be a shortest
one, and one step of the loop contradicts it. This takes the place of the
induction theorems.

**Settings.** The slots form a ring. `Turn` numbers a slot by how many saves
before the next one it was written, `Number` is the sequence number of that
turn. An `Anchor` is the slot written last: every header in flash has the number
of its turn (`InSequence`; the one exception, `Crossed`, is a save into a fresh
sector that was cut off after its header), the slots behind it in its sector are
not valid, a slot up to it is, and if nothing was written over remains it is
itself whole and holds the block last saved. Since the ring is shorter than half
the range, `Newer` orders two turns as the turns are ordered, over the wrap; so
the scan finds the valid slot of the latest turn (`ScanIsLast`, again by the
least counterexample). An operation on the slot after the anchor, finished, cut
off or failed, keeps the anchor (`AnchorKeeps`), and a save that succeeds makes
its slot the new one (`SavedAnchors`). After a power cut there is still an
anchor, which the boot finds, or the interrupted save has become one.
Assumed: `SettingsAssumption`, that erased or spoiled flash does not read as a
block or a header; `StoreAssumption`, that the slots number fewer than half the
sequence numbers; and two sectors or more. The code enforces neither of the last
two (`syn_param_init` asserts only that there is a sector).

**Firmware, the fallback.** `FallbackKept` is about a slot that nothing under way
can reach. `Kept(s)` says so: the slot is confirmed, no flash operation still to
be performed names it, no update goes to it, and the boot manager, if it takes
the slot for active, has it cached as confirmed (or `syn_fwboot_confirm` would
rewrite it, and a power failure in between would lose it). `UpdateInv` says that
an update never goes to the active slot, `StateInv` that `write_state` is an
erasure followed by a write, and that a confirmation that returns has been
written; the slot then confirmed becomes the kept one.

**Firmware, the one chance.** `RecordInv` says that a boot that was stored and not
reported healthy stands in the boot record as such, `WriteInv` which
headers a call may write where, and `SpentInv` that an image that had its chance
is neither picked, confirmed nor updated, and that its header says so already or
the next `syn_fwboot_select` will make it say so, however often that is cut off.

**Firmware, the whole image.** `ImageInv` follows the data of an update whose
stream is intact. `StreamInv` says that no more is taken in than the image has
and that all pages but the last are full, so that each starts at a multiple of
`PageSize`. `DataInv` says where the units taken in are: in the flash, with the
rest of the sector they end in blank; on their way there as the page of
`flush_page`, into a sector that its first operation erases or that is blank
from there on (`Flushing`); or in the page buffer. `HeaderInv` says that only
`syn_fwupdate_finish` writes a header `NEW`, once the stream is complete. NOR
flash only clears bits, so a page arrives as it is only on blank flash, and that
a new sector is blank rests on its erasure. `flush_page` performs that only for
a page that starts at the sector's first address (`Cleared`); units of the other
sectors are blank until they are written only if they were when the update began
(`Fresh`), which is what the exception `stale` is about.

**Only model-checked.** The liveness properties (`ReadyRuns`, `AcceptedRuns`,
`AcceptedIsDispatched`, `ComesToRest`, `Arrives`, `Answered`), since fairness
and ENABLED are beyond the prover. `NoTornMessage` of `IsoTp`, which is true of
two upsets and not of any number. `OwnAnswer`, `AckedStands` and
`GivesUpForAReason` of `Modbus`, whose invariants would have to follow the age of
every frame on the line against every timeout. `SignalUnblocks`,
`StateOnly`, `ErasedAsNeeded` and `FreeSlot` are violated.

## 5. What is not modelled

`PROJECT.json` lists every part with its reason. In the parts that are modelled
in part: `PT_SPAWN` and the microsecond delays, the polled
`syn_event_flags_wait`, the protothread macros of the SPSC queue,
`syn_fsm_set_state`, a mutex used without tasks, the sleep mode and statistics,
`syn_param_erase_all`, the dual-bank settings and the change callback, the boot
counter and reset reason, the CAN FD formats of ISO-TP, and the Modbus function
codes other than 01 to 04, 06, 0F, 10, 11, 16 and 18.

Most of the repository is code in which nothing interleaves and little is kept:
codecs, drivers, signal processing, control laws, drawing, cryptography. Their
correctness is numeric or a matter of byte layout, and is better served by
tests than by a model checker. The rest is of kinds that are modelled here
already (rings against interrupts, clients with timeouts).

## 6. What comes next

1. The dual-bank settings on the flash model of `ParamStore`; then
   `syn_param_erase_all`, which nothing in the repository calls and after which
   the settings manager still takes its block for saved.
2. `sched/syn_timer_wheel.c` with callbacks that start and cancel timers;
   `sched/syn_watchdog.c`.
3. Shared data structures: `util/syn_ringbuf.c`, `syn_pingpong.h`,
   `syn_pool.h`, `syn_slab.c`, `syn_pubsub.c`.
4. Theorems: the safety properties of `Modbus`, beginning with the age of the
   frame on the line; `NoTornMessage` of `IsoTp` for two upsets.
