# Stingray device tree: models, checks and proofs

The repository is the device tree of the Motorola Xoom ("stingray"). Most of it
is configuration; what is a program of its own is modelled here in TLA+, checked
with TLC on small instances and, for the parts where every size matters, proved
with TLAPS. `PROJECT.json` ties every definition to its source lines, every
property to a mutant of the code that breaks it, and every hazard of the code to
the properties that watch it.

## Inventory

### whisperd, the dock daemon (`whisper/`)

* **Daemon** (`Whisper_AccyMain.c`). Two threads. The *uevent thread*
  (`waitForUevents`) learns from netlink that a dock switch changed, reads the
  switch (`readSwitchState`), sets `globalState`, `globalProtocol` and, for a HID
  dock, opens a hidraw node into `hidFd`, and posts a semaphore. The *protocol
  daemon* (`accyProtDaemon`) waits for the semaphore, takes a wake lock,
  identifies the dock over the UART or over hidraw with bounded retries, and
  reports by an ioctl (`doIoctl`), which itself writes `globalState` and closes
  `hidFd`. Nothing is locked. *Hard:* every interleaving of the two threads on
  three shared variables, a dock that comes or goes at any point, retries,
  restarts. *Correct if:* no dock is forgotten, no descriptor is used after it is
  closed, what is reported was read from the dock, and the wake lock, which the
  kernel may refuse, is held while it is needed and released.
* **Command layer** (`SHA_Comm.c`, `SHA_CommMarshalling.c`, and the pass-throughs
  of the interface template). Sends a command to the authentication chip, asks for
  the response with retries, checks size and CRC. State: the two buffers, status
  and retry counter. *Hard:* lost, changed,
  late bytes. *Correct if:* what is accepted answers the command that was sent,
  and retries are bounded and enough.
* **Serial line** (`SA_Phys_Linux.c`). Opens the port, wakes the device, writes,
  reads its own echo with a time-out whose outcome nobody looks at, reads with a
  time-out, tells the device to sleep. *Correct if:* no channel is closed on a
  device that was woken and not told to sleep.

### Sensors HAL (`sensors/`)

* **Event ring** (`InputEventReader.cpp`). A circular buffer over a buffer of
  twice the size, filled by one read. *Correct if:* it is a FIFO queue, and no
  read leaves the buffer.
* **Poll thread** (`nusensors.cpp`, `readEvents` of the drivers). Collects events
  of all drivers in the caller's array and waits in `poll`; another thread
  switches sensors and writes to a wake pipe. State: `revents` and the pending
  events, kept across calls. *Correct if:* every sample is delivered once, in
  order and in the end.
* **Switching and rates** (constructors, `enable`, `setDelay`). Which chips are
  on. The accelerometer is shared by two sensors. *Hard:* ioctls that fail half
  way, and constructors that fail to find out that a chip is on.

### Lights HAL (`liblights/lights.c`)

Three light devices; two of them share the notification LED, whose two attributes
are written one after the other under a lock.

### Recovery (`recovery/`)

* **Master clear** (`masterclear_bp.c`). `bp_master_clear` wakes the USB bus,
  restarts the baseband by three writes to `mdm_ctrl`, connects to its command
  engine with bounded tries, writes one command and reads the header of the
  response. State: `cmd_engine_fd`, the descriptor table, the baseband. *Hard:*
  every step may fail, results are ignored, returns leave descriptors open, and
  the menu may call it again. *Correct if:* success answers the call's own
  command, the line that is used is the one that was opened, and the baseband
  runs in normal mode.
* **User interface** (`recovery_ui.c`). The input thread reboots on five power
  keys in a row, at whatever place of a wipe the main thread is. State: `presses`.

### The rest

`ril/` (scripts that collect dumps, binaries), `overlay/`, the makefiles,
`system.prop`, the firewall script, and the scripts that copy proprietary files
have no behaviour to model.

### How the parts interact

The uevent thread and the protocol daemon share variables and a semaphore; the
daemon calls the command layer, which calls the serial line. The poll thread
calls `readEvents` of each driver, which fills and drains its ring; `activate`
runs in another thread and touches `mEnabled` and the wake pipe. The recovery's
main thread calls the master clear; its input thread may reboot in the middle of
it. whisperd, the sensors, the lights and the recovery have nothing to do with
each other.

## Modules

| Module | Code | State and actions |
|---|---|---|
| `DockDaemon` | `Whisper_AccyMain.c` | One step per access to shared state. `U...` actions are the uevent thread, `D...` the daemon, the rest the kernel, the docks and `Restart` (signal and start again). `dPC`, `uPC` are the places in the code. |
| `ShaComm` | `SHA_Comm.c`, `SA_Phys_Linux.c` | One session after another: `OpenChannel`, `WakeDevice`, `Read`, `SendCommand`, `ReadEcho`, `ReceiveResponse`, `Verify`, `CloseChannel`. The line is a sequence of tokens; a byte that the code compares with something may equal it unless the model says what it is. The echo of a command is on the line like any other bytes and may come after the wait for it. |
| `EventQueue` | what a ring promises | `queue`, `taken`: a FIFO of numbered events; `Deliver`, `Take`. |
| `InputEventReader` | `InputEventReader.cpp` | `mHead`, `mCurr`, `mFreeSpace` as offsets; `Fill`, `Take`. Implements `EventQueue`. |
| `SampleStream` | what `pollEvents` promises | `reported`, `done`: the samples of each sensor; `Report` (a device, all its sensors at once), `Dispose` (one sensor, the next sample). |
| `SensorPoll` | `nusensors.cpp`, `readEvents` | The poll thread step by step, an activating thread, and the kernel. The rings are the queues that `InputEventReader` was shown to implement. Implements `SampleStream`. |
| `SensorPower` | `activate`, `enable`, `setDelay` of the compass | One action per call; every `open` and `ioctl` may fail. A driver is the set of its uses that are enabled (`mEnabled`, `mOrientationEnabled`), whether its device is open, whether the chip is on, and, as an auxiliary variable, whether it is on unknown to the driver, whose constructor failed to find it so (`missed`). Switching is atomic here because the caller serialises these calls. |
| `Lights` | `lights.c` | `Call`, `Acquire` and one action per write; a write may fail. |
| `MasterClear` | `masterclear_bp.c`, `masterclear_bp.h` | `bp_master_clear`, one action per call to the system that may fail and one for its failure; `BpAnswer` and `BpSpeak` are the baseband. A header is a function from its byte positions to bytes, each of which knows its response and its place in it. |
| `RecoveryUI` | `recovery_ui.c` | Extends `MasterClear`: `Press` is the input thread, `Select`, `Clear` and `WipeDone` the main thread, which is inside `bp_master_clear` meanwhile. Shows that it implements `MasterClear`. |
| `MC...` | | Values of the constants for TLC. |
| `..._proofs` | | Theorems about the module they are named after: one for each of `DockDaemon`, `ShaComm`, `InputEventReader`, `SensorPoll`, `SensorPower`, `Lights`, `MasterClear` and `RecoveryUI`. |

`DockDaemon` abstracts the exchanges of `ShaComm` to success or failure of each
read; `ShaComm` abstracts the daemon to the order of its calls.

## Runs

| Run | Question | Bounds, and why they are enough |
|---|---|---|
| `dock_swap` | Safety of the two threads; is a session bounded, is the dock that is attached identified in the end, or given up if it is a HID dock, and is the wake lock released? | Two UART docks and a HID dock behind another hidraw device, two dockings, so that a dock can be replaced during a session, by one of its own kind or of the other: all races are between one change of the switch and one session, or two changes and the end of a session. A fault of the switch, the ioctl and the dock each. |
| `dock_restart` | The same of a UART dock when the process is terminated at any point and started again; who may hold the wake lock, and when is it missing? | One UART dock, two changes of the connector and a termination, so that there are sessions in which the kernel refuses the lock or its release and sessions after them; a read that fails and one that succeeds with a status packet. Nothing about the lock depends on the kind of dock. |
| `dock_undocked` | Is "If already undocked, why do anything" (`Whisper_AccyMain.c:326`) true? **Violated.** | |
| `event_reader` | Is the ring a queue? | The light sensor's ring of four events, and 18 events, which go round it four times, with reads of every size at every position. The proofs remove the bound. |
| `sha_comm` | Are answers those of their commands, are retries enough and bounded, and is the device told to sleep? | Two sessions of two reads, so that answers of another command and of another session exist; packets of 4 and 2 bytes, for what matters is that a status packet and its echo are shorter than a response. One retry and as many damaged responses, two late responses, and one fault of every other kind, a late echo among them, in any combination. |
| `sha_status` | "Function succeeded. Device status, if available, was okay" (`SHA_Status.h:31`). **Violated.** | |
| `sensor_poll` | Is every sample delivered once, in order, in the end, and does a call end or wait? | A compass with two sensors and a gyroscope, two samples each, two activations, and an array of one event, which is less than one report: every report spans calls. One failed read and one failed poll. |
| `sensor_wait` | "just wait if we don't have anything to return" (`nusensors.cpp:178`). **Violated.** | |
| `sensor_power` | Are the right chips on, and is the compass at the right rate? | No bound on calls or failures; any chip on at the start, and found so or not. A delay that does not fit a short. One driver with a chip of its own; the light sensor's, which is left to the theorems, differs from it only in that it reports no errors. |
| `lights` | Does the LED show what was asked for? | No bound on calls or failures; two callers, a request for each flash mode. |
| `recovery` | Whose answer makes a master clear succeed, what does it leave open, in which mode does it leave the baseband, and does it end, with keys pressed meanwhile? | Two calls, so that the first leaves something to the second; two descriptors, which one failure each use up; two tries to connect; a header of two bytes, one with the flag and one with the code, and an unsigned type of five values, so that a failed read wraps; an unsolicited response. |
| `recovery_flag` | "0 - BP master clear successfully" (`masterclear_bp.h:147`). **Violated.** | One call. |

### What the violated runs show

* **A session after the detachment is known.** `doIoctl` and the assignments
  after it overwrite the `UNDOCKED` the uevent thread has stored. The token of
  the detachment then starts another session, with nobody to talk to.
* **A communication error counts as success.** `continue` in a `do ... while`
  evaluates the condition, and `status` is still `SHA_SUCCESS`.
* **Waiting with events at hand.** An array that was filled exactly keeps
  `POLLIN`; the next call reads a device opened to block before it looks at the
  ring.
* **A refused master clear succeeds.** `fail_flag` is a field of one bit and is
  masked with `0x04`; a response that refuses by the flag alone is taken for a
  success.

### What the properties do not say

Each exclusion in a property is a fact about the code:

* `SleepSafe` and `LockAccounted`: `acquire_wake_lock` returns a length or an
  error, and the code tells them apart nowhere. A session to which the kernel
  refused the lock goes on without it, and its end releases it all the same;
  `SleepSafe` says that only in such a session an exchange happens unprotected. A
  release that fails is forgotten, and a termination releases nothing;
  `LockAccounted` says that these two alone leave the lock behind.
* `WakeLockReleased`, `HidDockReported` and `UartDockIdentified` except a daemon that
  waits in `read` for the answer of a HID dock, or of another hidraw device that was
  opened on the way to the dock's: nothing in the code ends that wait while the
  device stays attached, and the wake lock is held meanwhile.
* `IdentityIsFresh` says that every part was read in the attempt that is reported,
  not that it is the dock's: a read that succeeds with a status packet
  (`sha_status`) or with a late echo copies what it finds. `UartDockIdentified`
  needs that no read does.
* `AnswerIsForCall` needs commands to get through and to be echoed in time, and
  fewer than three late responses: the results of writing a command and of waiting
  for its echo are ignored, a response says nothing about its command, and with
  three late responses a stale full answer is accepted. A late echo is worse: that of
  a read command has the size and the count byte of the response that is waited for,
  and its CRC is right, so that the caller gets its own command as the dock's data.
  The property says nothing of the status packet of `sha_status`.
* `SleepToldWhenClosed` is about what the code does, not about what the device makes
  of it: the sleep byte is written as it is (`SA_Phys_Linux.c:397`), while all other
  bytes but the wake pulse are written as eight bytes of the line each. Whether the
  device takes it for a request to sleep is left open; both are behaviours of the
  model. The property needs that no write to the port failed.
* `RetriesSuffice` excludes damage that looks like a status packet: its CRC is
  not checked.
* `SessionShrinks` and `CallProceeds` are the safety part of the liveness
  properties: they bound the steps of a session and of a call, but do not say
  that the thread takes them. `SessionShrinks` begins when the wake lock is taken
  (the ioctl that enables the UART comes before). `CallProceeds` lets a device
  that reports, a wake message and a failed read give a call more to do.
* `AllDelivered` excludes a poll thread blocked in a stale `read` and anything
  after a failed `read`, which clears the `POLLIN` of a driver whose ring still
  holds events.
* `EnabledIsReachable` excludes drivers one of whose disabling ioctls failed:
  the device is closed all the same, and can then not be disabled any more.
* `AccelOnWhileUsed` and `SuccessIsLasting` except a chip that is on and whose driver
  does not know it: when the `open` or the `ioctl` of a constructor fails, the chip
  may be on while nothing is enabled, and `activate` says that it is off without
  switching it. The exception ends when the chip is switched. The compass may also
  find the flag of the accelerometer set, which no call clears; `TypeOK` and
  `RateIsWanted` allow for it.
* `SuccessIsLasting` is about drivers that report errors; `LightSensor::enable`
  reports success always.
* `ReportAgrees` and `UartDockIdentified` need fewer failing ioctls than
  `doIoctl` tries. A switch that could not be read leaves the dock unknown, and
  `UartDockIdentified` and `HidDockReported` say nothing then. `HidDockReported` is
  about the first HID dock: one that
  replaces another during a session is lost.
* `TypeOK` of `SensorPoll` keeps `nbEvents` from being negative only while no
  read failed: an error is taken for a count.
* `SuccessIsAnswered` and `BpLeftNormal` need the three control writes to have
  succeeded: when they did not, `bp_master_clear` goes on all the same, and
  nothing discards a late response. `SuccessIsAnswered` and `HeaderIsRead` need
  no read to have failed: a failed read moves the position in the header back.
* `CallEnds` excludes a call that waits in `read`, which has no time-out.

## Fairness

* `DockDaemon!FairSpec`: weak fairness of each thread, since the scheduler runs
  both. The uevent thread blocks in `select`, the daemon in `sem_wait` and in the
  `read` of a HID dock's answer. The first two are guards of the actions; the third
  ends by the dock's answer or its removal alone, or not at all when the daemon read
  another hidraw device, and so fairness does not extend to a daemon there while a
  HID dock is attached or another device is open (`AwaitsAnswer`). The UART reads have
  a time-out. No fairness of docks, faults or restarts.
* `SensorPoll!FairSpec`: weak fairness of the poll thread, which calls
  `pollEvents` for ever, and of an activation that was begun. No fairness of
  devices, faults or new activations.
* `RecoveryUI!UIFairSpec`: weak fairness of the main thread inside
  `bp_master_clear` and after it. None of keys, of the menu, of the baseband or of
  a failing `read`: it may fail, but need not.
* The other modules check safety only.

## Proofs

`DockDaemon_proofs`, for every set of docks, number of descriptors and bound:

* `TypeCorrect`: `TypeOK` is inductive together with the control facts that no
  counter passes its limit.
* `NoLostWakeup`: from `NoDockUnattended` itself, which the two threads' steps
  preserve; the case that matters is the daemon leaving a session, which it can
  do with the state `DOCKED` only after `tryComm` became 0, and the uevent
  thread's write, which is always followed by a post.
* `HidHandleStaysOpen`: the handle is in the descriptor table except between
  `close` and the reset.
* `IdentityAlwaysFresh`: needs `IdentityInv`, which says which parts have been
  read at each place of an attempt, and that the state is never `IDSUCC` inside
  one.
* `ReportsAgree`: needs `ReportInv`, which follows the report from the ioctl to
  the assignment after it and bounds the failed tries by the faults.
* `SleepCorrect` (`SleepSafe`): needs `SleepInv`, which says of every place in the
  daemon what `wakeLock` is, a length or an error included, and for `doIoctl` by
  what it is told to report, since the ioctl that enables the UART comes before the
  lock is taken.
* `LockCorrect` (`LockAccounted`): with the types, from the steps that change the
  flag or the kernel's lock, each of which may fail, and the process's end.
* `SessionEnds` (`SessionShrinks`): every step of the daemon in a session lessens,
  in lexicographic order, the attempts left, the stages of the attempt, the rounds
  of the stage and the steps of the round, and no step of the uevent thread adds to
  them. `CountInv` bounds the counters; `StageTable` lists the stages and `Less`
  composes the order. The case that matters is a session whose `tryComm` is 0
  already while the state says `DOCKED`, which counts from the start again once.

`ShaComm_proofs`, for every size of packet, number of retries and bound of faults:

* `ShaTypeCorrect` (`TypeOK`): among others, a response has the size asked for and
  the retry counter passes zero only to leave the loop.
* `RequestsCorrect` (`RequestsBounded`): from `RequestsInv`, by which the requests
  made and the retries left add up to the retries there are.
* `SleepToldCorrect` (`SleepToldWhenClosed`): inductive with the types.
* `RetriesCorrect` (`RetriesSuffice`): from `RetryInv`. While nothing but
  responses is damaged, the device has the answer and the line is empty before
  every request, so that the next undamaged response is the answer; every retry
  that was used is a damaged response (`PacketRead` is the lemma that reads a
  whole answer from an empty line).
* `AnswerCorrect` (`AnswerIsForCall`): from `AnswerInv`, while the commands get
  through and are echoed in time, and fewer than three responses were late: the
  device holds the answer to this call, and what is on the line is of this call or
  too short to take the place of a whole response. `LineShort` says how much late
  responses leave there, and `ReadLeaves` and `ReadAnswer` what one read makes of
  it.

`MasterClear_proofs`, for every size of header, of reads and of the descriptor
table, every number of calls and of tries:

* `ClearTypeCorrect` (`TypeOK`), which includes the range of the unsigned counter.
* `HandleCorrect` (`HandleIsEngine`): from `HandleInv`, which says the same of the
  descriptor of the control writes, since its close must not hit the line.
* `RestartCorrect` (`BpLeftNormal`): from `BpInv`, the baseband between the writes.
* `LeaksCorrect` (`LeaksAreFailures`): from `LeakInv`, which counts the one
  descriptor in use.
* `HeaderCorrect` (`HeaderIsRead`): from `ReadInv`. The bytes on the line follow
  one another (`LineInOrder`), and the part of the header that was read is the
  beginning of one response whose next byte is the line's first.
* `AnswerCorrect` (`SuccessIsAnswered`): from `AnswerInv`: after a restart that
  succeeded neither the baseband nor the line nor the header knows an earlier
  command.
* `ShrinkCorrect` (`CallShrinks`): `StepsLeft` bounds the steps a call still takes;
  every step of the call lessens it, but a failed `read`, which moves the unsigned
  counter back by one and adds one.

`RecoveryUI_proofs`: `UIImplementsClear` (`UISpec => Spec`) carries the theorems of
`MasterClear` over to calls from the menu (`UIClearCorrect`, and `UIShrinkCorrect` for
`CallShrinks`), with the reboot of the fifth key at any step.

`SensorPower_proofs`, for every set of drivers and delays: `PowerInv` has a part
for each driver (`AccelInv`, `CompassInv`, `SingleInv`) and one that relates what
was said of each sensor to the uses its drivers remember. It implies
`PowerTypeCorrect` (`TypeOK`), `AccelCorrect` (`AccelOnWhileUsed`), `ReachCorrect`
(`EnabledIsReachable`), `RateCorrect` (`RateIsWanted`) and `SuccessCorrect`
(`SuccessIsLasting`), which alone is not inductive: that the accelerometer is on
says nothing of which of its two uses keeps it on.

`SensorPoll_proofs`, for every set of drivers, size of ring, array and pipe:
`PollTypeCorrect` (`TypeOK`), whose parts follow what the steps change together;
no ring overflows, and the room left and the events read are the array.
`SamplesKept` (`NoSampleLost`) also needs that the sensors of a driver are distinct
(`DriverAssumption`), and rests on `SampleInv`: the events of a driver that are
still in its ring and in the kernel are, in order, those from some place of what
its device reports to the end of its last sample, and `sample`, `done` and
`mPendingMask` are what the events before that place left. At an `EV_SYN` of the
compass the place stays while the pending sensors are delivered in their order,
over as many calls as it takes. `ExtendOrder` and `TakeOrder` are what `Produce`
and the reads do to the order; `Fill` leaves it alone. `StreamImplemented`
(`Spec => StreamSpec`) maps every step to one of `SampleStream`: `Produce` to
`Report` of its device, a delivery to `Dispose` of its sensor, all others to
stutters; that a sample is reported before it is disposed of is `SampleInv`'s order
again, in which no unread event is of a later sample than the last reported.
`CallsProceed` (`CallProceeds`): an event is worth 3 in the kernel, 2 in the ring and
1 pending in the mask, so that `Fill` and the reads lessen the sum (`LessWork`); the
other steps leave it alone and take a byte from the pipe or bring the next read
nearer (`SameWork`). It needs that `fill` is called only with room in the array
(`RoomInv`), and, for an `EV_SYN` of the compass, that something is pending, which
is `SampleInv`'s.

`Lights_proofs`, for any number of callers and any requests: `LightsTypeCorrect`
(`TypeOK`, with mutual exclusion), `LightsCorrect` (`LedShowsWanted`) from
`LightsInv`, which says what each caller inside the lock has yet to write, and
`AttentionCorrect` (`AttentionUndisturbed`) from the same.

`InputEventReader_proofs`, for every size of the ring (`SizeAssumption`: at least
one event):

* `ReaderTypeCorrect` and `ReadsFit`: from `HeadInv`, which relates `mHead`,
  `mCurr` and `mFreeSpace`.
* `ReaderIsQueue`: `Spec => QueueSpec`, from `RingInv`: the slots from `mCurr` on
  hold the unread events in order, also where they wrap. A `Fill` maps to
  `Deliver` and a `Take` to `Take` of `EventQueue`.

Model-checked only: liveness (`UartDockIdentified`, `HidDockReported`,
`WakeLockReleased`, `AllDelivered`, `CallEnds`), since TLAPS 1.4.5 does not reason
about fairness and `ENABLED`. Of three of them the part that is safety is proved:
`SessionShrinks` for `WakeLockReleased`, `CallProceeds` for `AllDelivered`, and
`CallShrinks` for `CallEnds`. The assumptions of
the theorems are the named `ASSUME`s on the constants, which TLC evaluates in
every run.

## Not modelled, and why

* A netlink socket that cannot be made or bound (`Whisper_AccyMain.c:629, 636`):
  `UBind` takes it for granted; `main` goes on without it (723) and no event ever
  comes.
* `readfs`, a static `fd_set` that is never cleared (`SA_Phys_Linux.c:70`).
* Bits as bytes on the line, and so whether a sleep byte that is no such eight bytes
  reaches the device; the terminal settings, the value of the CRC, scaling of
  sensor values, log files, thread priorities, `switchUser`.
* `SHAC_Mac`: not called; it would be a `Read` with other sizes. The interface
  template's `SHAP_SendCommand` and `SHAP_ReceiveResponse`, through which `SHA_Comm.c`
  reaches the serial line, only pass their arguments on, and are part of the actions.
* The pointer into the caller's array after a failed read (`nusensors.cpp:173`
  moves it back with the count): the count and the room are modelled, so that what
  is then stored in front of the array counts as delivered.
* `setDelay` of the drivers other than the compass: it hands its argument to the
  kernel and keeps nothing; the acceleration driver drops it, and reports success,
  while the chip is unused.
* The list of sensors (`sensors.c`), and `mHasPendingEvent` of the light sensor,
  which is never set. The acceleration, pressure and light drivers read their
  events as the gyroscope's does, and are not told apart.
* The byte order of the master clear's request, its dump, and
  `CMD_ENGINE_INIT_NOT_PRESENT`, which `CMD_ENGINE_init` never returns.
  `device_toggle_display` (whether the menu is visible is arbitrary) and the menu.
* The radio interface, product configuration and proprietary files are scripts,
  data and binaries.

## Plan

What could still be added, in this order:

1. `ShaComm`'s session composed with `DockDaemon` in place of the abstract
   exchanges, and an abstract dock service (attach, detach, report) that the two
   implement.
2. The hazards no property covers: the descriptor set that is never cleared
   (`SA_Phys_Linux.c:207`), and the events a failed `poll` does not announce
   (`nusensors.cpp:184`).
3. What the recovery leaves behind when a reboot comes in the middle of a master
   clear.
