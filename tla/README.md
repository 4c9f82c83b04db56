# service-sample and struct-meta in TLA+

This directory holds TLA+ models of the parts of this repository that carry
logic of their own: the service framework `app/service-sample` and the library
`app/struct-meta` with its sample program. TLC checks each model on small
instances; TLAPS proves the safety properties for every value of their
constants. `PROJECT.json` lists the runs, the mutants that show that each
property can fail, the source lines behind each definition, the findings, the
hazards and the theorems.

## 1. Inventory

| Component | State | Operations | Hard behaviour | Makes it correct |
| --- | --- | --- | --- | --- |
| Stop latch (`service-sample.c`) | `s_stop_requested`, a mutex, a condition variable | `svc_request_stop`, `svc_stop_requested`, `svc_wait_for_stop`; `main` creates and disposes | any thread requests while `main` waits or tears down | no wake-up is lost; a request ends the wait; handles are valid when used |
| Lifecycle (`service-sample.c`) | return codes, notifications sent | `svc_run_lifecycle`, `svc_dispatch_event`, `svc_dispatch_reload` | callbacks fail in any combination; reloads run on another thread | order of the callbacks; first failure is the result; a stop request ends the process |
| Linux event monitor (`service-sample_linux_events.c`) | `s_ctx` (definition, thread, two eventfds), SIGHUP action, event loop | start, stop, SIGHUP handler, loop callbacks | signals on any thread, failing system calls, join timeout | no SIGHUP is lost; nothing released is used; the watchdog is answered in time, although only the loop answers it |
| logind inhibitors (same file) | two lock descriptors, bus subscriptions | acquire, release, `PrepareForSleep`, `PrepareForShutdown` | signals are late, reordered against setup, or overtaken by logind's timeout | `on_event` precedes the operation; no lock is leaked; no operation waits for ever |
| Linux registration (`service-sample_linux.c`) | unit file, systemd's copy, enabled link | `svc_os_install`, `svc_os_uninstall` | failure or kill between any two calls | success means registered; repeating a command repairs |
| Windows service (`service-sample_windows.c`) | `s_status`, shared by two threads; SCM | `service_main`, `service_ctrl_handler` | unsynchronised field writes; controls during start and stop | the SCM learns the truth, in order, and learns the end |
| Windows registration (same file) | SCM database, settings | `svc_os_install`, `svc_os_uninstall` | settings made one by one; a service that is slow to stop or marked for deletion; install refuses what it meets | success means registered; uninstall and install together repair |
| struct-meta layout (`layout.c`) | offset and alignment so far | `layout_begin`, `layout_add`, `layout_end` | overflow of `size_t`, padding, nesting | no overlap, alignment, agreement with the ABI |
| struct-meta registry and catalogue (`meta/index.c`, `catalog/catalog.c`) | `s_registry`, catalogues, addresses in use | register, unregister, create, attach, destroy, find | shared nested descriptors, addresses used again, allocations failing half-way, first use from two threads | no record outlives its descriptor; registration changes no answer; a catalogue finds what it has |
| struct-meta arena (`catalog/arena.c`) | chunks and what of them is used | allocate, destroy | alignment at the end of a chunk | pieces are aligned and disjoint |
| struct-meta building and validation (`catalog/build.c`, `meta/validate.c`) | per-structure state, descriptors, the arena | build in dependency order; validate | cycles, structures declared later, names that repeat, sizes that do not fit, allocations that fail | accepts what the rules accept, lays it out as declared, builds what validation accepts |
| struct-meta values, access and paths (`meta/integer.c`, `meta/bytes.c`, `access/`) | none | load, store, ranges, hexadecimal text, path resolution | widths and signs, texts that fill their array | used by the next two |
| struct-meta JSON (`json/`) | the instance being changed, the file | encode, decode, load, save | an error half-way through a decoding; a file that is truncated first | the instance stays one that can be saved; what is saved loads back |
| struct-meta patch (`patch/patch.c`) | a stack of menus and prompts with address and path | the interactive editor | nesting; end of input, cancellation and empty lines at every prompt | changes what it shows; ends with its input |
| struct-meta sample (`struct_meta_sample.c`) | the target: catalogue, descriptor, instance | `init`, `patch`, `loadjson`, `savejson`, `loadbin`, `savebin`, `exit` | commands that fail after having changed something | catalogues are owned; what is shown can be saved |
| struct-meta parser, generator, text output | input text | parse, print, emit | text processing | left out, see section 5 |
| calc, calc.net, override-sample, subfolder-sample, tutorial, zlib, doxygen-sample, CI scripts | none or trivial | | | left out: samples of building and documenting |

How they interact on Linux: `main` builds the stop latch and calls
`svc_os_run_service`, which starts the monitoring thread, drives the lifecycle
and stops the thread. SIGTERM reaches `svc_request_stop` through a callback of
the c-platform library (`cplat`); SIGHUP reaches the monitoring thread through
an eventfd; D-Bus signals reach it through `sd_event`. Both threads tell
systemd about the service with `sd_notify`. On Windows the SCM calls
`service_ctrl_handler` on one thread while `service_main` runs on another, and
both report through `s_status`.

In struct-meta, a catalogue made from a header is parsed, built into an arena
(`Build`, with `Layout` for the offsets), validated and put into the registry
(`Registry`). Everything that touches an instance looks descriptors up there,
validates them (`Validate`), walks to a field (`Access`) and reads or writes
bytes (`Values`, `Codec`); the sample program (`Session`) does this for a user.

`cplat`, cJSON, libsystemd, systemd, logind, the SCM and the kernel are not in
this repository. They are modelled from the way the code uses them, and marked
external.

## 2. Modules

| Module | Models | State and actions |
| --- | --- | --- |
| `StopLatch` | abstract: a latch that is set once and ends a loop | `requested`, `loop`; `Enter`, `Abort`, `Request`, `Leave` |
| `StopSignal` | `svc_request_stop`, `svc_stop_requested`, `svc_wait_for_stop` and the handling of the latch in `main` | one `pc` per thread; every lock, test, wait, set, unlock, broadcast, dispose and NULL assignment is an action |
| `ServiceLifecycle` | abstract: the contract of the framework towards its callbacks | `phase`, `asked`, `outcome`; `Start`, `Run`, `Stop`, `Exit`, `Kill`, `RequestStop` |
| `LinuxService` | one process of the Linux service: `main`, the monitoring thread, the SIGHUP handler, systemd | `main` and `monitor` are the two threads' positions, the rest are the fields of `s_ctx`, the eventfd counters, how long the watchdog has heard nothing (`silence`), and what systemd has heard |
| `LogindInhibit` | the D-Bus side of the monitoring thread against logind | the descriptor fields (`held`), the locks that logind sees (`locks`), the subscriptions, the queue of signals, and logind's operation |
| `RegistrationCommand` | what the install and uninstall commands of both systems share: steps, failures, kills | `command`, `step`, `outcome`, `upsets` |
| `UnitFile` | `svc_os_install` and `svc_os_uninstall` for systemd | the file, systemd's copy, the enabled link, the running process |
| `WindowsRegistration` | the same for the SCM | the service in the database, its settings, its process; `found` and `cleared` record what a command met and whether an undisturbed uninstall came before it |
| `Registration` | either of the two, as the program is built for one of them | `platform` and the variables of both, of which one system's stand still |
| `WindowsService` | `service_main`, `service_ctrl_handler` and the SCM | `s_status` field by field; `job[t]` is the report that thread `t` is assigning |
| `Layout` | `layout.c` | the builder, the members placed, and the types laid out so far |
| `Arena` | `arena.c` | chunks with the amount used, and the blocks handed out |
| `ParsedHeader` | a header as the parser hands it over: what `build.c` looks up in it, the reference layout, what the rules of C accept | operators |
| `Build` | `build.c` on an `Arena`, with the arithmetic of `Layout` | BUILD_STATE of each structure, the calls of `build_one` under way as a stack, the requests for memory, the descriptors finished |
| `Validate` | `validate.c` and the attributes that `bytes.c` interprets | operators |
| `Registry` | `index.c` and `catalog.c` | `memory` (what lives at which address), `registry` (its records), `catalogs`, and per thread the walk `op[t]` that it is in |
| `Values` | `integer.c`, `bytes.c`, floating-point numbers and texts in memory | operators |
| `Access` | `access.c`, `path.c` | operators |
| `Codec` | `encode.c`, `decode.c`, the order of checks in `print.c` | operators: JSON from bytes, and the writes that a decoding makes |
| `Session` | `struct_meta_sample.c`, `patch.c`, `file.c` | the target, the catalogues, the editor's calls as a stack of frames, the file, the end of input |
| `...Proofs` | theorems about the module of that name; `FrameworkProofs` has those about `StopSignal` and `Registration`, `BuildProofs` also those about `Arena`, `SessionProofs` also those about `Values`, `Access` and `Codec` | |
| `MC...` | instances for TLC | |

`LinuxService` and `WindowsService` implement `ServiceLifecycle`, `StopSignal`
implements `StopLatch`; each refinement mapping is at the end of the detailed
module. `LinuxService` and `WindowsService` use the latch as `StopLatch`
describes it (one flag that ends `on_run`). `LinuxService` treats D-Bus
signals as one kind of event; `LogindInhibit` looks into them. `Build` composes
`Arena` (EXTENDS), `Layout` and `ParsedHeader` (INSTANCE), and its results are
put to `Validate`, which walks the nested descriptors as a least closed set; `Session` stands on `Codec`, `Access`, `Values` and `Validate`.
`Registry` abstracts from what is in a descriptor: its verdict, the names of
its fields and what it nests.

Atomicity follows what another thread, or a failure, can see. In `StopSignal`
every library call and every access to a shared variable is a step, because the
question is what fits between them. In `LinuxService` a step is a call with an
effect on shared state; closing a descriptor and setting its field to -1 are
two steps (`reload_fd = "closed"` in between), because the signal handler runs
between them. In `WindowsService` each assignment to a field of `s_status` is a
step, in any order, because the compiler may reorder them. In `Registry` every
visit of a descriptor is a step, because creations of catalogues may overlap
and any of them may run out of memory; in `Build` every allocation is one. In
`Session` a step is what happens between two reads of the input.

Operators named `X_Something`, next to an operator `X` and commented as a
plausible bug, are mutated forms of `X`. No specification uses them; they serve
to show that the properties notice such a bug.

The type invariants are theorems for `StopSignal`, `Layout`, `Registry`,
`Build` (with `Arena`), `LogindInhibit`, `WindowsService`, `LinuxService` and
`Session`, and part of the inductive invariant of `Registration`. Where they
are no property of a run, `TypeOK` can be added to the INVARIANT line of the
configuration.

Recursion over nested data (JSON, structures, paths) is written with recursive
functions on numbers, the depth or the position, and never with RECURSIVE
operators, so that the prover can take every module.

## 3. Runs

### Runs that pass

| Run | Shows |
| --- | --- |
| `StopSignal` | No lost wake-up (`NoLostWakeup`), every request noticed without the help of a timeout (`StopNoticed`), refinement of `StopLatch` with its liveness (`LatchSpec`), with two callers of two calls each. |
| `LinuxService` | Without faults: each SIGHUP leads to an `on_reload` that sees it (`ReloadApplied`); the handler never writes to a closed descriptor when signals are handled on the main thread; the thread never reads a cleared definition; an active service is not killed by the watchdog of its unit file, as long as a callback or a D-Bus call takes no more than 3.7 s (`WatchdogAnswered`). |
| `LinuxServiceFaults` | With failing calls, a hanging thread and signals on any thread: the first failure is the exit status, what systemd hears follows the callbacks until a reload is asked for, and the lifecycle contract holds, a stop request ending the process included (`LifecycleSpec`). |
| `LogindInhibit` | Operations at any moment, setup included, with failing calls and timeouts: `on_event` precedes every operation the service was ready for; the shutdown lock is never leaked, the sleep lock only after a lost signal or an operation during setup; when all is quiet the locks are held; no operation waits for ever. |
| `Registration` | On both systems: a successful install has registered the service in full (`InstallSoundOnBoth`); what failed or killed commands left is repaired by commands that meet no fault (`RepeatRepairsOnBoth`): on Linux by the next one, install or uninstall; on Windows by uninstall and then install. A Windows install refuses, with an error, a service that it meets, half configured or marked for deletion, so it repairs nothing by itself; uninstall reports success exactly if it has deleted a service, and after it none is present or runs. |
| `WindowsService` | Two threads, one `s_status`: the callbacks keep their order and the process does not end early in any case (`LifecycleSafe`); reports are never mixed and never go back as long as `on_run` returns on request only and nobody interrogates; a stop ends the service if `on_run` waits for it. |
| `Layout` | Members never share a byte; `layout_add` and `layout_end` agree with definitions that search for the place and the size. |
| `Registry` | No record outlives its descriptor; `validate` and `find_field` answer as a validation and a linear search of what is at the address now; an open catalogue finds each of its descriptors; when all have unregistered nothing is left. |
| `Build` | The call accepts exactly the headers that the rules, stated without regard to order, accept; sizes and offsets are those of the declaration; what is built passes validation; all of it lies aligned and disjoint in its chunks; every call ends, with everything given back if it failed. |
| `Session` | The target's catalogue exists and no other is left behind; the editor's paths name what it edits and its changes stay there; an instance that no binary file was read into can always be saved; what is saved loads back; what can be shown can be saved; the program ends with its input. |

Several properties hold under a condition on the history of the behaviour, the
variable `upsets` in `LogindInhibit`, `RegistrationCommand` and
`WindowsService`, `starved` in `Registry` and `raw` in `Session`. It records
what the code has no answer to; no action reads it. (`found` and `cleared` in
`WindowsRegistration` are history as well, but exclude nothing: the property
says what happens for each of their values.)

### Runs that find a disagreement

Each of these checks one property that a comment or document of the repository
states, and finds a behaviour of the code that breaks it. `PROJECT.json`
("findings") quotes the statement.

| Run | Behaviour |
| --- | --- |
| `StopSignalTeardown` | `svc_request_stop` locks or broadcasts on a handle that `main` has disposed of |
| `RegistryRace` | two threads create their first catalogues at the same time; both find no registry, and the table of one replaces that of the other |

### What the conditions of the properties stand for

Dropping a condition of a property, or setting a constant to TRUE in a run
that has it FALSE, makes TLC show these behaviours:

- `WatchdogAnswered` with `Faults`: the result of `svc_linux_events_start` is
  ignored, so a service whose thread could not be started (or whose
  `sd_event_new` failed) is killed by the watchdog of its own unit file.
- `WatchdogAnswered` without `QuickCalls`, with no fault at all: `WATCHDOG=1` is
  sent when `sd_event_set_watchdog` is called and from the running loop, nowhere
  else. While `setup_bus_monitoring` makes its synchronous calls (each waits up
  to 25 s for the bus) or a handler is in `on_event`, `on_reload` or `Inhibit`,
  nobody sends it. One call of 25 s after the loop has waited, or seven of 4.3 s
  before it is entered, and systemd kills an active service, although
  `service-events.md`, l. 222, says that the thread answers automatically. The
  run `LinuxServiceFaults`, with calls of 25 s, includes these kills
  (`LifecycleSpec` allows them).
- `HandlerWritesOpenFd` with `OtherThread`: the SIGHUP handler, running on
  another thread, has tested `reload_fd` before `main` closes it.
- `MonitorSeesDef` with `SlowThread`: after a join that timed out `main` sets
  `s_ctx.def` to NULL, and the detached thread reads through it.
- `NotificationsFollowCallbacks` without `wanted = 0`: a SIGHUP during
  `on_start` sends `READY=1` early, one during `on_stop` sends it after
  `STOPPING=1`.
- `NoLeakedLock` without `upsets = {}`: a suspend that ends between the
  subscription and the first lock lets `PrepareForSleep(false)` overwrite a
  held descriptor.
- `CallbackBeforeOperation` without the condition on earlier signals in
  `expected`: a `PrepareForSleep(true)` handled after logind's timeout releases
  the lock of the next suspend.
- `OperationProceeds` without `upsets`: a lock is taken although the signal on
  which it would be released could not be subscribed to.
- `InstallSound` of `UnitFile` without `"flush"`: the result of `fclose` is not
  looked at, so an install whose last flush failed reports success. Without
  `"failure"` in `WindowsRegistration`: a setting that the SCM refuses is only
  traced.
- `RepeatRepairs` of `UnitFile` without `upsets = {}`: an uninstall whose
  `systemctl disable` fails reports success and leaves the link. The
  same condition in `WindowsRegistration`: an uninstall whose stop is refused
  deletes a service that goes on running.
- `StoppedReportsFailure` and `StopPendingIsFinal` without `upsets = {}`:
  INTERROGATE reports a half-assigned `s_status`; a reload reports
  `SERVICE_RUNNING` after `SERVICE_STOP_PENDING`.
- `StopEndsService` without `"run"`: a STOP handled while `on_run` fails of
  itself overwrites `SERVICE_STOPPED` before it is reported, and the dispatcher
  waits for ever.
- `BuiltValid` without `NoOneByte`: `char[1]` with `meta.kind=bytes` is built
  (`build.c`, l. 112-127, asks whether there is an array) and refused by every
  validation (`bytes.c`, l. 38, asks for more than one element).
- `StaysWhole` without `~raw`: a text without a NUL in a binary file cannot be
  saved as JSON. A binary file of the wrong size is refused after it has
  replaced the values.
- `SavedLoadsBack` without `Faithful`: infinity is saved as `null`, and of two
  fields with one key only one comes back.
- `PathShowsTarget` and `EditsWhatIsShown` without `DistinctNames`: of two
  fields with one name a path finds the first.

The models also have what no property speaks against: a save that fails leaves
a truncated file (`Torn`); `" -1"`, with a blank, passes the test for a minus
sign and wraps around in the widest unsigned integer; a decoding that fails
keeps the fields stored before the error.

### Bounds

- `StopSignal`: two callers and two calls each; a lost wake-up needs one waiter
  and one requester, the second caller adds contention for the mutex. The
  proofs cover every number.
- `LinuxService`: two SIGHUPs (`MaxHups`), one to be served and one to arrive
  while it is; two D-Bus events (`MaxEvents`); three return codes, so that two
  failures can be told apart. With faults, one SIGHUP and one event. A callback
  or D-Bus call takes at most `CallTime`: 3700 ms without faults, the largest
  round value for which 22.5 s (`PingDue`, three quarters of `WatchdogSec`, after
  which the loop sends `WATCHDOG=1` at the latest) and two calls (`on_event` and
  `Inhibit`) stay below 30 s; 25000 ms with faults, the time after which a D-Bus
  call is given up. Time is not a clock: `silence` is the longest that the
  watchdog can have waited, so no kill that these times allow is left out. The
  join, with its timeout of its own, does not use `CallTime` (`SlowThread`).
- `LogindInhibit`: three operations (`MaxOperations`), a stale signal of the
  first can hit the second, and a third shows the state it leaves; one session
  event (`MaxSessions`) that takes up the thread.
- `Registration`: four commands (`MaxCommands`), two to leave something behind,
  one to fail on it, one to repair it.
- `WindowsService`: three controls (`MaxControls`) in sequence, as the SCM
  sends them one at a time: one to reload, one to stop, one that comes late.
- `Layout`: `SizeMax` = 31, so that every overflow check is reached; three
  members and two structures beyond the scalars, so that structures nest.
- `Registry`: three static descriptors (one nested in others, one that
  validation refuses), two dynamic addresses, so that each is freed and used
  again by something else, two catalogues, one thread with failing allocations;
  two threads without them in `RegistryRace`. Symmetric in the dynamic
  addresses and in the catalogues.
- `Build`: `SizeMax` = 42, so that `double[5]` still fits and larger structures
  do not; chunks of 24 bytes, so that most pieces need a new one and one text
  needs a larger chunk; headers of up to three structures that nest one another
  in every shape, with ten kinds of plain fields.
- `Session`: bytes of four values and words of two bytes, so that every range
  has an edge within reach; two structures with an array of structures, texts,
  hexadecimal bytes, padding and names and keys that repeat; two handles, one
  for the target and one for the `init` under way; two changes (`MaxChanges`),
  one to make a state and one that fails on it.

`CHECK_DEADLOCK FALSE` is said where the program stops: a layout has no
structures left, a call of `Build` is over, a `Session` has exited, and in
`Registry` every address is taken and every catalogue open.

### Fairness

- `StopSignal`: the threads are scheduled; the wait is not assumed to time out,
  so `StopNoticed` holds by the broadcast alone. Callers need not call.
- `LinuxService`: both threads are scheduled (`MainStep`, `MonitorStep`).
  `FairSpec` also lets callbacks and D-Bus calls return (`SlowStep`);
  `HungSpec` does not, and has the join time out instead, which
  `SVC_EVENTS_JOIN_TIMEOUT_MS` guarantees. Signals and events need not arrive.
- `LogindInhibit`: the thread is scheduled; logind goes on when no lock is held
  and a machine that sleeps wakes up. logind's timeout is not assumed for
  `OperationProceeds`: the service must let go of itself.
- `WindowsService`: both threads are scheduled and callbacks return.
- `Build`: the call runs on; nothing else is in it.
- `Session`: the program runs once its input has ended. Until then a user may
  do nothing for ever, and nothing is assumed of him.

## 4. Proofs

TLAPS checks all theorems; each proof module EXTENDS its component. They rest
on the assumptions about constants in the modules (`ThreadAssumption`,
`CommandAssumption`, `ServiceAssumption`, `InhibitAssumption`, `ScmAssumption`,
`LayoutAssumption`, `ArenaAssumption`, `BuildAssumption`, `RegistryAssumption`,
`ValuesAssumption`, `SessionAssumption`), which TLC evaluates in the runs, and
on nothing else unless a theorem says so in its ASSUME. Every safety property
that a passing run checks is the subject of a theorem.

**`FrameworkProofs`**, the stop latch: for any set of callers and any number of calls,
`TypeCorrect`, `NoLostWakeupHolds` and `ImplementsLatch` (the safety part of
`StopLatch`). `NoLostWakeup` is not inductive by itself: that `main` starts to
wait while the flag is set is excluded only because the flag is written under
the mutex. The inductive invariant `IInv` therefore adds that a thread in a
critical section holds the mutex (`LockInv`), that only a blocked `main` is in
the wait set (`WaitersInv`), where the handles are valid (`LiveInv`), that the
flag is still clear between the test and the wait (`BlockInv`), and which
positions go with a request (`PhaseInv`, for the refinement).

**`LinuxServiceProofs`**: for all return values and any number of SIGHUPs and
events. `CallInv` says which callbacks have returned when `main` is where it
is, and what is in `rc`; from it follow `ExitReportsFirstFailureHolds`
(assuming that no return value is a nonzero multiple of 256, which the exit
status would turn into 0) and `ImplementsLifecycle`, the refinement of
`ServiceLifecycle` up to its liveness: `Phase` and `FirstFailure` are worked
out from `CallInv`, and each step of `main` is a step of the contract or none,
while the other thread and the signals can only end the process or ask for a
stop. `NotifyInv`, that the monitoring thread sends nothing until a reload is
asked for, gives `NotificationsFollowCallbacksHolds`. Three theorems assume
that a fault is absent, the one that breaks the property:
`HandlerWritesOpenFdHolds` (`~OtherThread`; the action is gone before the
descriptor is, `HandlerInv`), `MonitorSeesDefHolds` (`~SlowThread`; the thread
is over before `s_ctx.def` is cleared, `DefInv`) and `WatchdogAnsweredHolds`
(`~Faults`; an active service has a thread that is on the way to its loop or in
it, `WatchInv`). The last assumes `QuickCalls` as well, that seven calls, or two
after the loop has waited, take less than `WatchdogSec`: `SilenceInv` bounds at
each place of the thread how long the watchdog can have heard nothing, by the
calls since the setup or since the last round of the loop, and `BackInTime`
concludes that the thread gets back in time from wherever it is.
`TypeCorrect` needs `CallInv` too, for the number of callbacks, and counts the
SIGHUP that a handler has seen and not yet forwarded (`HupTypes`), so that none
is forwarded that was not sent.

**`LogindInhibitProofs`**: for any number of operations, with faults and
timeouts: `TypeCorrect`, `NoLeakedLockHolds`, `ArmedWhenIdleHolds` and
`CallbackBeforeOperationHolds`. What becomes of a lock is decided by signals
that are still in the queue, so the invariants are about `Pending`, the signal
being handled followed by the queue: starts and stops of suspends take turns in
it and the lock is not held when a stop comes first (`TurnsInv`); a lock that is
not held has its operation under way or its stop pending (`ArmedInv`); the lock
of an operation that found the service ready is held until `on_event` has
returned for it (`ToldInv`). Each step removes the head of `Pending`, appends to
it or keeps it, and the lemmas of the first part say what this does to each
invariant.

**`WindowsServiceProofs`**: for all return values and any number of controls.
`LifecycleSafeHolds` is the refinement of `ServiceLifecycle` in every case:
`CallInv` says which callbacks have returned when `service_main` is where it
is, and that `SERVICE_STOPPED` is nowhere, not in the structure, a report under
way or the SCM, before the last has. `StoppedReportsFailureHolds` and
`StopPendingIsFinalHolds` are about why two threads can share a structure
without a lock, as long as `upsets` is empty. The invariant `Calm` says that
they take turns: while the handler is about a control that may change the
status, `service_main` waits in `on_run` for a stop that nobody has requested
yet; the SCM sends such controls only then; and so a structure that is half
written holds, in the fields already assigned, the values of one report.

**`FrameworkProofs`**, the registration: for any number of commands,
`InstallSoundHolds` and `RepeatRepairsHolds` on both systems. `LinuxInv` and
`WindowsInv` say for each step of each command what has been done by then. On
Windows that includes what the command has met (`WindowsMeets`): a service that
is being configured was absent, one that is being deleted is still as it was
found, and between an undisturbed uninstall and the next install none is
present.

**`LayoutProofs`**: for any width of `size_t`, any table of types and any
sequence of calls, `TypeCorrect` (nothing wraps around), `MembersDisjointHolds`,
`MembersAlignedHolds`, `TypesTileHolds` (the last two are proved only),
`AddExactHolds` and `SizeExactHolds`. `LayoutAssumption` says that of two powers
of two the smaller divides the larger, that scalar types tile and that
arguments are `size_t` values. The argument: `Padding` leads to a multiple of
the alignment (`PaddingAligns`), which is the only one in its window
(`MultiplesApart`), so it is the first one (`FirstMultipleIsPadded`); the guards
of `layout_add` keep every sum and product within `size_t` (`PlaceFits`) and
refuse nothing that would fit (`OutOfRangeIsReal`); so each step adds at most
one aligned member behind `builder->offset` (`MemberStep`).

**`BuildProofs`**: the arena first. For every size of chunks and requests,
`BlocksInPlaceHolds` and `BlocksDisjointHolds`, by an invariant that blocks end
before the used part of their chunk does; and `NewChunkHasRoom`, that the chunk
made for a block has room for it wherever `calloc` places it. `BuildUsesArena`
is the step from one to the other: every request that building makes is one the
arena serves, so `BuiltInPlace` follows.

Then the building, for every header that the parser can hand over (`Parsed` in
`BuildAssumption`), of any number of structures that nest each other to any
depth, and with allocations failing anywhere. The reference that `ParsedHeader`
states has no order: sizes are found in rounds over all structures at once
(`Rounds`), what is within a structure is a least closed set (`Within`), and a
header deserves to be accepted (`WellFormed`) if its types are known, no
structure is within itself, all fit a `size_t` and the attributes are right.
`AcceptsExactlyHolds`, `LaidOutAsDeclaredHolds` and `BuiltValidHolds` say that
the stack of `build_one`, which starts where the header starts and descends
where it meets a nested structure, gives just this. The inductive invariant
`BuildInv` has these parts: the descriptor of a finished structure stands for
the header field by field, has the size of the reference, and nests finished
structures only (`DoneRight`); the calls on the stack are those of the ACTIVE
structures, each of which nests the next, the fields placed so far extend as
far as the reference says, and the loop has left no structure out (`RunRight`);
and a call that ends with an error had too little memory or a header that
deserves it (`VerdictRight`). That the
descent refuses cycles only follows from the stack: a structure on it has all
those above it within itself.

Two techniques carry this. The prover takes no induction over data as a lemma
about operators, so the induction is over sets of numbers instead: `CountUp`
says that a set that has 0 and with each number the next has all of them
(`LeastNumber`, from the well-foundedness theorems of the library), and each
induction names its set, for example the numbers of rounds after which a
structure's size stays. Recursive functions get their defining equations from
`RecursionExists`, proved in the same way. And the arithmetic is not repeated:
`LayoutProofs` is instantiated with the offset and the alignment of the topmost
call, so that its lemmas on padding and overflow speak about `build_one`.

**`RegistryProofs`**: for any number of threads, catalogues, addresses and
descriptors. Whether or not creations are serialised: `TypeCorrect`,
`RecordsOfLivingHolds` and `AnswersAsUnregisteredHolds`. The invariant joins
what owns which address (`MemoryInv`, `CatalogInv`, `RegisteredInv`), what each
walk still has to visit (`CallInv`), that only creations overlap (`TurnsInv`),
that a record belongs to somebody who will take it out, or to a walk that is
about to (`RecordInv`), and that it says what a validation of the descriptor
would (`ContentInv`).

`CatalogCompleteHolds` and `NothingLeftHolds` assume `Serialized`, which
`index.h`, l. 46, asks of the callers; without it `RegistryRace` shows that the
first is false. They need a second invariant over the first, `SInv`, about the only
call in progress: the descriptors of a catalogue differ in their names
(`NamesInv`); an unregistration keeps away from what other catalogues own
(`WalkInv`), so that each catalogue's own descriptors stay registered or are
about to be (`CompleteInv`); and every set of records without one that somebody
has registered is nested by a valid record outside of it (`ReachedInv`), so that
when nobody is left there is no record.

**`SessionProofs`**: for all tables of descriptors that the compiler and
validation grant, nested to any depth; all lines, paths, JSON and files; any
number of handles; any width of bytes and words; and failures and ends of input
at any time. `SessionAssumption` says of a table what its C types and the
compiler that laid it out grant and no validation looks at: sizes and offsets
are numbers, fields have bytes of their own, floating-point numbers are of
their type's size. Everything else comes from `validate`, which the code calls
before it uses a descriptor, or is not needed. `ValuesAssumption` only says that
a byte has an even number of values, more than one, and a word some bytes.

The inductive invariant `SessionInv` (`SessionIsSound`) has these parts, each
needed for a property or for another part:

- `StatusInv`, `TargetInv`, `PendingInv`: types; the target is an instance of
  the size of its structure, and a structure is being selected exactly at its
  prompt (`SessionTyped`);
- `OwnersInv`: the handles in use are those of the target and of the `init`
  under way, and no two of them are one (`CatalogsAreOwned`). That a catalogue
  is not given up twice follows from the second half only;
- `FileInv`: what is in the file can be loaded: JSON is well-formed at any
  depth (`IsGood`), whichever instance it was saved from;
- `EditorInv`: each menu and prompt on the stack is at an address within the
  target and of the type it shows (`Inside`), and if names are distinct its
  path resolves to this very place (`Shown`; `PathsShowTargets`, `EditsAreShown`).
  `Inside` is needed whether or not names are distinct;
- `InstanceInv`: as long as no binary file was read, all texts have their end
  and all padding is zero (`Whole`; `InstanceStaysWhole`).

The instance is treated as a set of places, one for each element of each field
that is no structure (`AllPlaces`). `PlacesLie` says that places lie within the
instance and that two of them share no byte. All writes of a decoding or of the
editor are `FittingWrites`: they change bytes of places only, and one that
touches a text brings its end along; so any number of them, up to the value at
which a load fails, keep `Whole` (`DecodeFits`, and the lemmas before it).
`ShownIsSaved` needs no more than that printing and encoding look for the end
of a text in the same bytes.

`SavedComesBack` is the round trip of `savejson` and `loadjson`. Bytes can be
told from the number they come to, whatever multiple of what is beyond them is
added (`BytesBack`), which covers signs and all widths at once. For each kind of value,
element, field and structure, `Returns` says: decoding what was encoded ends
well, writes nothing but bytes that the instance already has, and an instance
with these bytes is encoded the same (`ScalarReturns`, `ElementBack`,
`FieldBack`, `StructBack`). Since each write copies from one and the same
instance, a later one never spoils an earlier one (`WritesCopy`), and the new
instance has all of them at the end (`InstanceBack`). `Faithful`, no two members
of an object with one key and no number saved as `null`, is what the code does
not ensure (section 3).

Structures nest to any depth, so all of this is by induction on the depth. A
valid structure comes to at most as many structures as the table has, and each
one within it to fewer (`Ranked`): that is how `validate`, which refuses
cycles, bounds the recursion of everything else. `BuildProofs` explains how
the inductions are put to the prover.

Left to TLC, and why: liveness (`StopNoticed`, `LatchSpec` and `LifecycleSpec`
beyond their safety part, `ReloadApplied`, `OperationProceeds`,
`StopEndsService`, `Ends`, `EofEnds`). The prover handles neither fairness nor
ENABLED.

## 5. Not modelled

- The arguments of `main`, the tracer and the status text: no property depends
  on them. That the detached thread may trace after `tracer_close` is the same
  hazard as its use of `s_ctx.def`.
- The text of the unit file, and the version of systemd, which decides on one
  line of it.
- The commands of the sample that only show something (`catjson`, `catbin`,
  `dumpjson`, `dumpbin`, `help`), and the completion of input.
- The text that `print.c` writes; which instances it can print is in `Codec`.
- The header parser (`parse/`) and the generator (`struct-meta-gen`): one pass
  over text to a tree or from a tree to text, without state. The parser's result
  is the input of `Build`, the generator's the static table of `Registry`.
- calc, calc.net, override-sample, the tutorials and the scripts: without logic
  of their own.

## 6. Plan

Done: every module of section 2, and a theorem for every safety property of the
runs. What could follow:

1. The parser's comment attribution (`parse/doc.c`), if properties beyond the
   text can be stated about it.
2. A variant of `LogindInhibit` on top of `LinuxService`, in which D-Bus events
   are no longer one kind; so far each abstracts from the other.
