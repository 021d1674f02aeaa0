# Verification of the redfin device tree

The repository holds the device-specific part of a Pixel 5 (redfin) build:
mostly configuration (audio, overlays, init scripts, HAL manifests, build
files) and four native services, the HALs, which carry all of its program
logic. This directory models those services in TLA+, checks the models with
TLC and proves theorems about them with TLAPS.

## 1. Inventory

### USB HAL (`usb/usb/Usb.cpp`, `Usb.h`, `service.cpp`)

* *State.* The members of `Usb`: the callback, `mUsbDataEnabled`, `mPartnerUp`,
  the mutexes `mLock`, `mRoleSwitchLock`, `mPartnerLock`, the condition
  variable `mPartnerCV`; the flag `destroyThread`; the worker thread `mPoll`.
  Outside the process: the gadget's UDC node, `usb_data_enabled`, the power
  limit and moisture nodes, and what the kernel shows of port0
  (`port_type`, `data_role`, `power_role`, the `-partner` directory).
* *Operations.* `enableUsbData`, `enableUsbDataWhileDocked`, `resetUsbPort`,
  `limitPowerTransfer`, `enableContaminantPresenceDetection`, `switchRole`,
  `queryPortStatus`, `setCallback`; the worker's loop `work()` /
  `uevent_event()`; the signal handler.
* *Interactions.* Binder calls from the framework; uevents from the kernel over
  a netlink socket; status reports to the framework's `IUsbCallback`; the
  worker signals a mode switch through `mPartnerCV`; the switch to DRP is made
  by a failing mode switch and by the worker; the gadget HAL binds and unbinds
  the same UDC.
* *Hard.* Four kinds of thread steps over three mutexes; a condition variable
  with a timeout; a join with a mutex held; a signal that must interrupt
  `epoll_wait`; a directory scanned first and files read later; a read that fails in
  the middle of a query; a restart of the process over nodes that keep their contents.
* *Correct when* a sleeping mode switch cannot miss its partner; only one
  thread at a time owns `port_type`; a reported result agrees with the nodes;
  the last status the framework was told is the state of the port once the
  worker is idle; there is one worker, for a callback that is set; every call
  returns.

### USB gadget HAL (`usb/gadget/UsbGadget.cpp`, `UsbGadget.h`, `service_gadget.cpp`)

* *State.* `mCurrentUsbFunctions`, `mCurrentUsbFunctionsApplied`,
  `mLockSetCurrentFunction`; the library's `MonitorFfs` with its own thread;
  in configfs the linked functions, the vendor and product ids and the UDC node.
* *Operations.* `setCurrentUsbFunctions` (tear down, ids, links, pull up or
  start of the monitor, wait), `getCurrentUsbFunctions`, `reset`,
  `currentFunctionsAppliedCallback`.
* *Interactions.* Two hwbinder threads; the monitor thread calls back into the
  object; the USB HAL writes the same UDC node from another process.
* *Hard.* `getCurrentUsbFunctions` and `reset` take no lock; the answer of the
  monitor races the wait's timeout and the next request; a set can fail half
  way; members are not initialised before the first set.
* *Correct when* a request that reported success is what the gadget shows, a
  report of "applied" is about the functions it names, a reset ends with the
  gadget bound as before, and a failed request leaves nothing bound.

### Product ids (`validateAndSetVidPid`, `UsbGadget.cpp:70`)

A table from a function mask and the vendor's debug functions to a vendor and
product id. *Correct when* two different configurations a host must tell apart
do not share an id, and an unknown combination is refused before anything is
written.

### Vibrator HAL (`vibrator/drv2624/Vibrator.cpp`, `Vibrator.h`, `Hardware.h`)

* *State.* Amplitude mode, the calibrated long and short LRA periods, tables of
  overdrive voltages per temperature and effect, and the driver's sysfs
  attributes (`activate`, `duration`, `state`, `mode`, `od_clamp`,
  `ctrl_loop`, `lra_wave_shape`, ...).
* *Operations.* `on`, `off`, `setAmplitude`, `setExternalControl`, `perform`,
  `getSupportedEffects`, the capability queries.
* *Interactions.* Binder calls on two threads: the pool has one
  (`service.cpp:36`) and the main thread joins it (`:44`), and `:35` warns that "there
  could be an issue if two vibrator APIs are called simultaneously"; the PA thermal zone;
  the gravity sensor, asked from inside `on`; the driver, which ends a vibration by itself.
* *Hard.* No mutex at all, neither over the attributes nor over the configuration of
  steady vibrations, although two calls may run at once; an `on` is a sequence of
  attribute writes and one of them fails; that configuration changes with the
  temperature and its level with the motion of the phone, in a table that is a
  pointer; a signed timeout passed on as an unsigned one.
* *Correct when* a vibration that was reported as started was started with
  everything its own call asked for, the cold is protected against with a
  voltage and a period that belong together, and no table is read outside its
  bounds.

### Dumpstate HAL (`dumpstate/DumpstateDevice.cpp`, `DumpstateDevice.h`, `service.cpp`)

* *State.* The verbose logging property; the properties of the modem logger and
  of the EFS dump; the directory `modem_log` and the tar file, which outlive the
  process; the touch controller; the pipes of the caller.
* *Operations.* `dumpstateBoard`, `dumpstateBoard_1_1`, `setVerboseLoggingEnabled`,
  `getVerboseLoggingEnabled`; in a thread of its own `dumpModemThread`: stop the
  modem logger, copy logs, start it again, pack, send, remove.
* *Interactions.* One binder thread, which starts the modem thread and joins it and
  then ends the process (a lazy HAL); the modem logger and the radio daemons, which
  write the logs that are copied; the user, who may switch the logger.
* *Hard.* Stop, wait with a timeout and restart of the logger around a copy; the
  newest logs of a directory; files opened without `O_TRUNC` over what an earlier
  process has left; a touch controller that must be put back.
* *Correct when* the report holds everything that was copied and nothing else, the
  newest logs and whole ones, and a dump leaves everything as it was.

### Not programs

`voice_processing/` (two constant descriptor tables), the unit tests and the
benchmark of the vibrator, the init scripts, HAL manifests, audio and thermal
XML, overlays and build files hold no state machine of their own. They are read
for what they say of the services: the number of binder threads, the owners of
nodes, the restart policy.

## 2. Plan

| | module | what | state |
|---|---|---|---|
| 1 | `TypecPort`, `Usb`, `Usb_proofs` | USB HAL over the Type-C port | done |
| 2 | `GadgetIds`, `Gadget`, `GadgetState` | gadget HAL, and what a host may see | done |
| 3 | `VibratorCal`, `Vibrator`, `Vibrator_proofs` | vibrator HAL | done, two binder threads |
| 4 | `UsbStack` | `Usb` and `Gadget` over one UDC node: what `enableUsbData` reports while the gadget HAL rebinds, what the gadget HAL binds meanwhile | done |
| 5 | `DumpFiles`, `Dumpstate` | dumpstate: the binder thread, the modem thread, the files they leave | done |
| 6 | `Gadget_proofs` | types of `Gadget`, the ownership of its mutex, `SuccessMeansShown`, the refinement of `GadgetState`, the monitor | done |
| 7 | `Usb_reports_proofs` | what the callback is told and what `enableUsbData` reports | done |
| 8 | `Dumpstate_proofs`, `Dumpstate_logs_proofs`, `Dumpstate_report_proofs` | every safety property of `Dumpstate` | done |
| 9 | `UsbStack_proofs` | every safety property of `UsbStack` | done |
| 10 | `UsbStack_proofs`, extended | the theorems of `Usb_proofs` for the USB HAL inside the stack, where the gadget HAL is the writer that `Usb` does not have | done |

`UsbStack` composes `Usb` and `Gadget`: both keep the UDC node as the variable
`pullup`, which it extends from one and gives to an INSTANCE of the other. The
abstract specification is `GadgetState` (what a host may see). Every module a theorem is about is free of
RECURSIVE operators, has its constants assumed by name, and has one action per
step of the code.

## 3. Modules

A step is a stretch of code between two points where another thread, another
process or the kernel can be noticed: a lock operation, a read or a write of a
node. What runs under a lock and touches only what the lock protects is one
step. `pc[t]` names the step a thread is at, and the actions carry the names of
the code's functions with a prefix (`Sm` for `switchMode`, `Q` for the query
helpers, `Cb` for `setCallback`, `W` for the worker, and so on).

**`TypecPort`** is the kernel's side of the port and not in the repository: the
partner entry, the role nodes, `port_type`, `moisture_detected`, and the uevent
socket as a queue of three kinds of message, which is all `uevent_event()`
tells apart. `attachedSince` is a history variable.

**`Usb`** holds the members of `Usb`, the owners of the three mutexes, the flag
and the signal of the worker, the nodes the HAL writes, and per binder thread
its call, its result so far and why its `pthread_cond_timedwait()` returns.
A query reads one node a step (`QScan`, `QPower`, `QData`, `QMode`, `QMember`,
`QMoisture`, `QDetected`, `QLimit`) and tells what it has read (`QNotify`). Each read may
fail: then a role or the accessory mode is told as an error, the moisture as detection
disabled, and the sink limit as none, the last two with their errors dropped
(`Usb.cpp:653-654`).
`view` is a history variable: the last status the callback was told, without the mode
and the capability flags. Death of
the process (`Crash`) keeps the nodes and forgets the rest. Undefined behaviour
when `/sys/class/typec` cannot be read (`Usb.cpp:212`) is left out.

**`GadgetIds`** is the table of `validateAndSetVidPid()`. **`Gadget`** holds the
two members, the owner of `mLockSetCurrentFunction`, the library's monitor
(`monitor`, `watched`, `armed`, ...), configfs (`links`, `ids`, `pullup`), and per
hwbinder thread its request and outcome. `setCurrentUsbFunctions` is fifteen
steps, `reset` two. The library pixelusb and configfs are external: they are
modelled by what `UsbGadget.cpp` and its comments expect (a monitor that pulls up
when the descriptors of all its endpoints are there and again after a daemon has
died and come back; `reset()` of the monitor that waits for its thread; a UDC node
that refuses to bind a bound or an empty gadget). **`GadgetState`** is the
abstract specification: a host sees nothing or one whole configuration, and
nothing between two. `Gadget` implements it with `shown <- Shown`, a function of
`pullup`, `links` and `ids`.

**`VibratorCal`** computes what the constructor does: the tables of overdrive
clamps, the frequency conversion and the period of the cold. The linear and cubic
equations that find a clamp for a target G are left out: their result enters as a number
(`OdClampValues`). **`Vibrator`** is the
binder threads over the driver's attributes, one step per attribute, with the
configuration `mSteadyConfig` the calls leave to each other: its two fields are
assigned, and read, one at a time, without a mutex. A timeout is an `int32` and goes on
as a `uint32` (`Unsigned`). What may be read past the single bound of the cold is one of
`Strays`. History variables: `started` (the attributes when the call activated),
`crossed` (another call has written an attribute or the configuration while this one
was under way) and `felt` (the last temperature outside the band, unknown while the
configuration is not that of one temperature). The thermal zone and `motionAwareness()`
answer anything whenever they are asked, since nothing but those answers depends on
them. The attributes only the constructor writes, `dump`, and
the calls that only read or that are not supported are left out.

**`UsbStack`** extends `Gadget` and takes an INSTANCE of `Usb` over the same
`pullup`; the two processes share nothing else. A step of the stack is a step of one
of them. What neither module can say alone is added: configfs refuses to bind a
gadget without a function, so a bind by the USB HAL needs `links`. `writer` (who has
changed the node last) and `seen` (what it has held during a call) are history
variables. `UsbAssumption` says of the constants of the USB HAL what `Usb` and `TypecPort`
assume of them.

**`DumpFiles`** says what is in a file: a sequence of the tar's blocks, written over
what has the name already. **`Dumpstate`** is the binder thread and the modem thread
of a dump, one step per command, property, file copied and entry packed, over the
files that outlive the process. The modem logger and the radio daemons are external:
they write, start when asked and stop when asked, whenever they like. `h` is a history
record (what was scanned, what was copied, whether an earlier dump died). The sections
that only read nodes into the report are left out; the 21 radio logs are one, which a
daemon rewrites with a shorter one.

**`MCUsb`, `MCGadget`, `MCVibrator`, `MCUsbStack`, `MCDumpstate`** give the instances
their calls and the symmetry of threads.

The proofs are in modules of their own, which extend the module they are about:
**`Usb_proofs`** (types, mutexes, mode switches) and **`Usb_reports_proofs`** (reports),
which extends it; **`Gadget_proofs`**, and **`UsbStack_proofs`**, which extends it as
`UsbStack` extends `Gadget`; **`Vibrator_proofs`**; **`Dumpstate_proofs`** (types, what is
switched back), **`Dumpstate_logs_proofs`** (which logs are copied and whether they are
whole) and **`Dumpstate_report_proofs`** (what a report holds), which extend it.

The definitions named "Mutant" in a comment are plausible errors, each of which
makes a property fail; no specification uses them.

## 4. Runs

Runs that pass:

* `usb_threads`: two binder threads that register, unregister, switch modes and
  query; a role cannot be read (told as ERROR), thread creation, the socket and epoll fail,
  waits wake spuriously, the process dies. The service has one binder thread (`usb/usb/service.cpp`); two show that the
  locks do what `Usb.h` says they do. A sleeping mode switch has missed no partner
  (`NoLostPartnerSignal`), reports what it left in `port_type` (`SwitchOutcome`),
  owns it until its reply (`PortTypeOwned`); one worker, for a callback that is set
  (`WorkerServesCallback`); the last report is the port (`PortFresh`).
* `usb_reports`: one binder thread with every call that changes a setting. A write of
  `usb_data_enabled` and the reads of the moisture nodes and of the sink limit fail. What
  the framework was told is true, or DISABLED or not limited of a node that could not be
  read, and never an older value (`PortFresh`, `SettingsFresh`); a reported success is
  one (`EnableOutcome`). That the limits' own writes fail is left to the theorem
  `SettingsAreFresh`: the source limit, which nobody reads, would double the states.
* `usb_live`: nobody unregisters, nothing fails, and messages that concern nobody come
  between the others: every call returns (`CallsReturn`) and every attach or detach
  reaches the callback (`PartnerReported`).
* `gadget_set`: two threads set nothing, a kernel function, two daemons' functions
  and a refused mix, and reset while no other call is served (`Alone`); links, ids and
  pull ups fail, daemons come and go, the vendor property changes, the process dies.
  `Gadget` implements `GadgetState`
  (`HostSeesDisconnect`), and a SUCCESS is a gadget that is there
  (`SuccessMeansShown`).
* `gadget_live`: the composition `UsbStack`. Sets (two functions, one of a daemon; one
  of an absent daemon, without a callback) and resets of the gadget HAL, and `enableUsbData` and
  `resetUsbPort` of the USB HAL, which act as a second, unsynchronised
  writer of the node: a success of `enableUsbData` is about something the node held
  during the call (`EnabledDuringCall`); the gadget HAL binds whole configurations only
  (`GadgetBindsWhole`: a half can show, and then `enableUsbData(true)` has bound it
  between two links of a set); the monitor that runs serves the current functions
  (`MonitorServesCurrent`); every call returns although one joins the monitor with the
  mutex held (`CallsReturn`); the gadget is bound when its daemons are there, unless the
  USB HAL has unbound it (`PulledUpWhenReady`).
* `dump`: dumps one after another, with and without a pipe for the modem, and refused
  ones, while the modem logger writes, starts and stops, the user switches it, the
  directory or the thread cannot be made, and one process dies and leaves its files. The
  report a reader unpacks has everything copied (`NothingMissing`), and nothing else
  unless a dump has died (`NothingStale`); the newest logs are the ones copied
  (`NewestCopied`), and whole if the logger was seen to exit (`LogsWhole`); the logger,
  the EFS dump and the touch controller are switched back (`SwitchedBack`); every dump is
  answered (`CallsReturn`).
* `vib_calls`: two threads that serve calls of every kind at once, a negative timeout
  among them, with a calibration and without, at any temperature and motion, while
  vibrations end, writes of the duration fail and the process dies (that `activate`
  fails too is left to the theorems, which allow any failure): OK means
  started as asked (`OkMeansStarted`), the cold is protected against (`ColdRunsLow`),
  no clamp is read that is not there (`LevelExists`). All three promise something to a
  call only if no other has written under it: calls that overlapped before it do it no
  harm.

Runs that are violated, each a finding:

* `usb_unregister` (`FlagDestroysWorker`): `setCallback(null)` joins the worker with
  `mLock` held. A worker inside its query waits for that mutex; a signal between
  the test of the flag and `epoll_wait()` is lost. The thread that the flag is "set
  by the signal handler to destroy" (`Usb.cpp:48`) stays.
* `usb_stale_partner` (`PartnerCameBack`): an add message older than the switch is
  taken for the "partner coming back online after type switch" (`Usb.h:81`).
* `usb_stuck_mode` (`DisconnectedIsDual`): a detach handled while a switch that has
  succeeded still holds the lock for its reply is skipped; the port stays
  disconnected in a fixed mode, with no role switch in progress.
* `gadget_reset` (`OnlyWholeShown`): `reset()` takes no lock and can bind the half
  that a set has linked, against `UsbGadget.h:74`. (`Alone` is empty here: a reset that
  overlaps nothing does no harm, as `gadget_set` shows.)
* `gadget_applied` (`AppliedIsLinked`): the monitor of the previous request answers
  after the new one has cleared the flag; functions that were refused are reported
  as applied.

### Bounds

* *Threads.* One binder thread where the product has one, two where a property is
  about exclusion; the mutexes make no difference between two waiters and three, and
  the proofs have no bound. The gadget HAL configures two.
* *`MaxUevents`* 1 or 2 messages queued in the socket. `Broadcast` waits for room, so
  the kernel's events are delayed, never lost (loss is the fault "overflow"). The
  findings need two: a stale one and a new one.
* *`Calls`, `Requests`, `KernelEvents`* give each run the operations its properties
  speak of. `Faulty` names what may fail; where a property says nothing of a failure
  (an ignored write of the vibrator, a failed unlink of the gadget) the hazard list
  says so.
* *`UsbStack`* has one thread in each process: exclusion of two threads of the gadget
  HAL is the question of `gadget_set`, and the other process interferes more than a
  second thread could, since it takes no mutex at all. The run registers no callback
  and has no port events, which do not reach the UDC node.
* *`MaxLogs`, `MaxBlocks`* two logs of the modem logger, of one or two blocks: an older
  and a newer one, a finished and a growing one. *`MaxCrashes`* 1: what one dead process
  leaves is all the next one can tell. *`TouchCalls`*: the dumps with one descriptor find
  the touch controller; its commands share no state with the modem thread.
  *`MaxFileNums`*: all logs, or fewer than there are. `TcpdumpLogs` and `ExtendedLogs` are
  0 in the instance: their scan and the end of their copy happen, the copies
  themselves are those of the modem logger's directory.
* *`Vendors`, `Daemons`, `InitialFunctions`*: a user and a debug property, one or two
  daemons, one value of the uninitialised member.
* *`KnownCalibrations`*: the product with coefficients (and a level
  out of reach), and a static configuration. Calls lie on
  both sides of 100 ms, of 0, of the amplitude's range and of the close-loop threshold.
* *`TwoTo31`* is 2^15 in the instance, so that no sum leaves the integers of TLC: all
  that counts is that a negative timeout becomes a longer one than any other. *`Strays`*
  is one value, which no table has. Two binder threads are the service's.

`CHECK_DEADLOCK FALSE` stands in `usb_threads` and `usb_unregister`, where the
program does stop: `setCallback(null)` hangs in its join.

### Fairness

`Usb`: strong fairness for each binder thread and for the worker, because each
waits for mutexes that others take and free again and again, and weak fairness for
the delivery of a signal; timeouts are steps of the thread that waits, so they
expire. `UsbStack`: as `Gadget`, and weak fairness for the USB HAL's thread, which
competes for no mutex there. `Dumpstate`: weak fairness for each thread; commands end at
the latest after their timeouts, the wait for the logger has one, and the reader of the
pipe is assumed to read. `Gadget`: strong fairness for each thread and for the end of a monitor that
has been told to stop, weak for the monitor's other steps. The kernel, the
framework, the daemons, the modem logger and the sensors owe nothing. pthread mutexes are not fair by
contract; strong fairness says only that a thread does not lose every race for ever.

## 5. Proofs

TLAPS checks the theorems for every value of the constants that the named
assumptions allow: any number of binder threads, any set of calls, any faults, any
queue bound, any calibration, any number of logs and of deaths. Every safety property that a
passing run checks is one. Where a theorem has a hypothesis on the faults or the threads
it is because the property is false without it, and the reason is given below.

`Usb_proofs`, from `ThreadAssumption`, `CallAssumption`, `FaultAssumption` and
`KernelAssumption`:

* `TypeCorrect`: `[]TypeOK`. Alone it is not inductive, since a step reads fields of the
  call its thread serves. `TInv` adds `CallInv`: a thread inside a handler has a call of
  that handler.
* `WorkerServed`: `[]WorkerServesCallback`. `LInv` adds `LockInv`, that a mutex is owned
  by exactly the thread between its lock and its unlock. The three are proved
  together: if a second worker could be started, the mutexes of the first would
  have two owners.
* `PortTypeIsOwned`: `PortTypeOwned`, an action property, from `LInv`: the writers of
  `port_type` hold `mRoleSwitchLock`.
* `NoPartnerSignalLost`: `[]NoLostPartnerSignal`. `WaitInv` adds what a waiter relies
  on: `mPartnerUp` stays false from its reset under `mPartnerLock` to the wait, and
  there is one waiter.
* `SwitchReportsOutcome`: `[]SwitchOutcome`. `ModeInv` follows a mode switch from its
  write to its reply.

`Vibrator_proofs`, from the named assumptions of `Vibrator`. `FrequencyAssumption` is
what keeps the constructor's unsigned arithmetic from wrapping:

* `TypeCorrect`, `ClampsExist`, for any number of threads: `VInv` adds to the types what a
  run owes to its call (`ControlInv`: level 2 of a steady vibration only when it has read
  warm), that both fields of `mSteadyConfig` are those of the temperature last felt, when
  `felt` is known (`SteadyInv`, which any overlap leaves true), and that a call that has not
  been crossed finds there what it has chosen (`Trusts`).
* `StartedAsAsked`, `ColdProtected`, for any number of threads, of a call under which no
  other has written: while only the attributes whose writes the code
  looks at can fail (a hypothesis of the theorems), `Written` says that what a run has
  written so far is still there. Timeouts are any `int32`. The cold rests on the lemma `ShiftNotShorter`: with
  integer division, the period of the lower frequency is never below the calibrated one.

`Usb_reports_proofs`, from the invariants of `Usb_proofs`:

* `SettingsAreFresh`: `[]SettingsFresh`. What the callback was told is what is set unless a
  call is ahead of its own query, or "not limited" where the limit can be unreadable
  (`Usb.cpp:636`). `SettingsInv` says the same of a status that a query
  has read and not yet told; it works with any number of threads because the query
  reads and tells under `mLock`, and a call that has changed a setting has its own query
  still to make.
* `PortIsFresh`: `[]PortFresh`. `PortInv`: a status under way and the status told are
  those of the port, or a message that says otherwise is queued or has just been received;
  an unreadable role is told as ERROR, an unreadable moisture node as DISABLED, and nothing
  announces the change when it can be read again. The lemmas `ScanReads`, `RoleReads` and
  `SettingReads` take the reads of a query one by one.
  The kernel's announcement of a change (`Announced`) is what keeps it.
* `EnableReportsOutcome`: one binder thread, as `usb/usb/service.cpp:27` configures, and
  a UDC node that can be read. With two threads each undoes the writes of the other; when
  the node cannot be read, `enableUsbData` passes it over and succeeds (`Usb.cpp:69`).

`Gadget_proofs`, from the named assumptions of `Gadget`. `GInv` is inductive: the types;
`ControlInv` (which request a thread at each step has, and that the owner of
`mLockSetCurrentFunction` is the thread between lock and unlock); `AloneInv`; `MonitorInv`
(the monitor is told to stop only by a thread that joins it); `BuildInv` (what a set has
linked and written at each of its steps).

* `TypeCorrect`: `[]TypeOK`, whatever fails and whatever overlaps.
* `SuccessIsShown`: `[]SuccessMeansShown`, by `KeptInv`: the endpoints of the functions are
  watched, and the gadget is bound or the monitor will bind it. Its hypothesis
  `ResetsAlone` says that a reset overlaps no other call: the requests that reset are all in
  `Alone`, or there is one thread. Without it a reset unbinds what a set has just bound.
* `HostIsDisconnected`: `HostSeesDisconnect`, the refinement of `GadgetState`: the initial
  states map to initial states, and every step to a step or a stutter. `WholeInv` says that
  whoever can bind the gadget (the monitor, a set at its end, a reset) can bind only a
  whole configuration. `ResetsAlone` is needed, as `gadget_reset` shows, and no failing
  unlink: it leaves the monitor running over the links that are left.
* `WholeIsShown`: `[]OnlyWholeShown`, the property `gadget_reset` finds violated, under the
  same hypotheses.
* `MonitorIsCurrent`: `[]MonitorServesCurrent`, by `ServedInv`; resets may overlap. No link
  and no unlink fails: after a failed link the endpoints added so far stay registered with a
  monitor that is not started, and the next set, which finds no monitor to stop
  (`UsbGadget.cpp:62`), adds its own to them.

`UsbStack_proofs`. `StackInv` is `GInv` with `UsbInv`, what the USB HAL's threads are
doing; each process keeps its own part because it does not write the other's.

* `EnabledIsSeen`: `[]EnabledDuringCall`, for one thread of the USB HAL and a UDC node that
  can be read, as in `EnableReportsOutcome`. `SeenInv` says what the node has held since the
  call read or wrote it.
* `GadgetBindsNoHalf`: `[]GadgetBindsWhole`. Not that only whole gadgets show: the USB HAL
  binds what it finds. `BindInv` says that no thread of the gadget HAL is about to bind a
  half. The hypothesis `NoHalves`: no unlink fails, and if resets are made they overlap
  nothing, no link fails and the process does not die; each of these leaves a half that
  `reset()` binds.
* `MonitorStaysCurrent`: `[]MonitorServesCurrent` in the stack, by `ServedInv` again.
* `UsbHalTypeCorrect`, `UsbHalServed`, `UsbHalSwitches`, `UsbHalReports`,
  `UsbHalOwnsPortType`: the USB HAL of the stack, with any number of threads, keeps its
  types, `NoLostPartnerSignal`, `WorkerServesCallback`, `SwitchOutcome`, `SettingsFresh`,
  `PortFresh` and `PortTypeOwned`. `HalInv` (`Usb_reports_proofs`) joins the invariants of
  the USB HAL that say nothing of `pullup`; `NodeHal` shows that it stands a write of the
  node by somebody else. The module takes an INSTANCE of `Usb_reports_proofs` for the USB
  HAL of the stack, whose lemmas hold as `UsbAssumption` implies their assumptions; the
  lemmas `Same...` say that its definitions are those of the instance of `Usb` that the
  stack is made of. `EnableOutcome` is not among them: the node is
  not the USB HAL's alone, and a bind may be refused. `EnabledIsSeen` is what is left of
  it.

`Dumpstate_proofs`, `Dumpstate_logs_proofs` and `Dumpstate_report_proofs`, from
`CallAssumption`, `LogAssumption` and `FaultAssumption` alone. `TypeInv` is inductive: the
types, that no file outgrows the longest ever written over it, that the modem logger has a
log when it runs, and that the list of a loop holds the oldest of what its scan found.
`SwitchInv` follows the modem logger, the EFS dump and the touch controller from the step
that switches them to the one that switches them back.

* `TypeCorrect`: `[]TypeOK`; `LeavesNothingSwitched`: `[]SwitchedBack`.
* `StoppedLogsAreWhole`: `[]LogsWhole`. `WholeInv`: while the logger is stopped nobody
  writes; when it runs again it has opened a newer log than any that was copied.
* `CopiesTheNewest`: `[]NewestCopied`. `NewestInv`: of the logs found, those copied are the
  newest ones the loop has come by, as far as the count allows, although the logger may open
  another meanwhile.
* `ReportsOnlyItsOwn`: `[]NothingStale`. `StaleInv`: the directory is what this dump has
  read and the tar file ends where the dump writes, unless a dump that died has left
  something; the blocks of a file say whose they are and where they stand, so none is
  there twice.
* `ReportsEverything`: `[]NothingMissing`. `CompleteInv`: a file in the directory begins with
  what this dump has read; a reader who skips from header to header comes to the place
  where the next entry is written, and finds every entry before it, whatever stands behind.
  Where the reader looks is a recursive function (`Looks`). No induction over it is
  needed: `Reach`, the places in every set that is closed under skipping, is shown to
  satisfy its equation, hence the function does (`LooksUnfolds`), and it holds wherever
  `Reach` does (`ReachLooks`).

Only model-checked: liveness (`CallsReturn`, `PartnerReported`, `PulledUpWhenReady`), which
rests on fairness and is out of the prover's reach, and the properties of the violated runs
(`gadget_reset`'s apart, which is proved for resets that overlap nothing).

## 6. Not modelled

* In the dumpstate HAL: the sections that only read nodes into the report; a disk that
  fills up and a read that fails half way; the shell command that copies the IPA log; a
  reader that leaves the pipe full, which blocks the one binder thread. Two things no
  property forbids: a process that dies between the stop and the restart of the modem
  logger leaves it stopped, and a user who switches it off while its logs are copied is
  overruled.
* `voice_processing/`, the vibrator's tests and benchmark, and the configuration of
  the product: no state. The values the services read from it enter the instances.
* The floating point equations of the vibrator's calibration.
* What two calls at once of the vibrator HAL do to each other is in the model, but no
  property is about it: the code says nothing of it but the warning. Of two that overlap,
  one that has read cold can be driven at the clamp of the other, and a level chosen in
  the warm can be read past the single bound of the cold.
* What goes wrong in the code and no document or comment speaks of; the models show it,
  no property forbids it, and the list of hazards has each at its line. After an
  `enableUsbData` that failed half way the gadget, `usb_data_enabled` and
  `mUsbDataEnabled` can disagree. `enableUsbData(true)` can bind what a set has linked so
  far. A death during a mode switch leaves `port_type` fixed. Nobody binds the gadget
  again after a `resetUsbPort`. A moisture or limit node that could not be read is told as
  DISABLED or not limited, until the next query. Endpoints stay registered after a link
  that failed. The tail of a report that died can stand behind the next one.
* Behaviour the code promises nothing about: `mUsbDataEnabled` is true after a restart
  whatever the node holds; a partner that changes before the worker has opened its
  socket; the vendor property read for the ids and again for the links; an arithmetic
  that wraps for calibrations outside `FrequencyAssumption`; a clamp of 0 for a level out
  of reach; the monitor that binds the gadget again after `enableUsbData(false)`.
