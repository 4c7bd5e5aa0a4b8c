# A TLA+ model of the PICO toolbox

The repository is a Windows kernel driver (`ToolBoxDriver/`, "picodrv") that
watches PICO processes (the processes of the Windows Subsystem for Linux), and a
small console program (`GetProcessName/`). The driver has two parts that are hard
to get right: a log that may be called from any thread at any IRQL and that comes
up before the file system does (`log.cpp`), and a monitor that replaces a routine
in a table of the kernel and must put it back (`PicoMon.cpp`). `driver.cpp`
starts and stops both. `tools.cpp` finds the kernel and the provider's table for
it. This directory holds TLA+ modules of these parts and of the console program, the
TLC configurations that check them and TLAPS proofs about each of them.

All line numbers below and in `PROJECT.json` are of the files under `src/`.

## 1. Inventory

### Log buffer and flush (`log.cpp` 372-409, 512-669, 715-737, 308-321)

* State: `LogBufferInfo`. Two non-paged buffers of `kLogpBufferSize` bytes, the
  head (the buffer messages are appended to) and the tail (where the next one
  goes), the spin lock, the ERESOURCE, `log_max_usage`, and
  `buffer_flush_thread_should_be_alive`, which doubles as "the log file can be
  written".
* Operations: `LogpPrint` formats a message and calls `LogpPut`, which either
  flushes the buffers and writes the message to the file (PASSIVE_LEVEL, log file
  active, no `_SAFE` macro, not all APCs disabled), or appends it to the head
  buffer (`LogpBufferMessage`, under the spin lock). `LogpFlushLogBuffer` swaps the
  buffers under the spin lock and writes the old one under the ERESOURCE only. The
  flush thread does so every 50 ms. `LogIrpShutdownHandler` disables the log and
  waits for an empty head buffer.
* Interactions: every other component calls `LogpPrint`; the flush thread, callers
  at PASSIVE_LEVEL and callers at any IRQL share the two buffers.
* Hard: the flush reads, edits and clears the old buffer without the spin lock; an empty
  buffer is not swapped but is walked and cleared all the same, and only the rounds of
  the flush thread look whether it is empty (726): `LogpPut` flushes without a look (528),
  and so the messages of the flush thread (721) and of the activation (303) do; a walk that
  meets torn text may leave the buffer; messages travel
  through alternating buffers; a message is printed either by its caller or by the
  flush, told apart by a bit in its first byte; the buffer may be full; file writes
  fail and are not retried; the decision between file and buffer is taken from a flag
  that changes.
* Correct when: an accepted message reaches the file once, whole, and in order, and is
  printed once; no walk and no append leaves a buffer; calls return.

### Log life cycle (`log.cpp` 136-369, 715-737)

* State: which of the ERESOURCE, the two buffers, the log file, the flush thread
  handle exist; the two flags shared with the flush thread; whether the log is
  enabled.
* Operations: `LogInitialization` acquires all of them (each may fail; a missing path
  at boot leaves the log "partially initialized"), `LogRegisterReinitialization` and
  `LogpReinitializationRoutine` open the file later, `LogTermination` stops the
  thread and releases everything.
* Interactions: the driver's protocol with `STATUS_REINITIALIZATION_NEEDED`
  (`log.h` 77-90); the flush thread; threads that are inside `LogpPrint`.
* Hard: failures halfway, two waits on another thread, flags tested and acted on
  later, releases while other threads are inside.
* Correct when: nothing is left behind after a failure or a termination; the flush
  thread never outlives what it uses; the returned status is the truth; nobody waits
  for ever.

### Driver (`driver.cpp`)

* State: control device, symbolic link, loaded tool; the log underneath.
* Operations: `DriverEntry`, `DriverpDriverUnload`, `IoctlCreateClose`,
  `IoctlDeviceControl`.
* Hard: cleaning up in the right order after each failure; unloading with callbacks
  in flight; the protocol of the log.
* Correct when: failure and unload leave nothing installed, the link never leads
  nowhere, every request is completed, the log's protocol is kept.

### PICO process monitor (`PicoMon.cpp`)

* State: `gData` (the saved routines), the provider's table in the kernel, the
  registration of the process notify callback.
* Operations: `PicoMon_Load` checks the table, saves two routines and replaces
  `ExitProcess`; `PicoMon_UnLoad` puts the original back; the notify callback and
  the hooked exit run on other processors.
* Hard: the provider fills the table while it is looked at (the FIXME at line 98);
  load, unload and load again; an exit inside the hook, or inside the provider which the
  hook has called, while the driver goes away.
* Correct when: no null routine is called, the original is saved and restored,
  exits reach the provider.

### Kernel discovery (`tools.cpp`)

* State: none that lasts; a block of pool during `FindKernelBase`, and what is found
  (the kernel's base, ntdll, the address of the provider's table).
* Operations: `FindKernelBase` queries the size of the module list, allocates a block,
  queries the list and repeats all that when the list has outgrown the block;
  `FindNtdll`; `GetPICOCallbacks` decodes the operand of an instruction and rounds
  up to the table; `EnablePicoRegistrations` patches the byte the operand leads to.
* Interactions: `DriverEntry` calls the first two, `PicoMon_Load` the third, nobody
  the last. The module list is the kernel's and changes at any time.
* Hard: the list changes between the queries; the status of the first query is not
  looked at, so its length may be what was on the stack; the distance is signed.
* Correct when: the answer is right for the list as it was at one moment, no block is
  leaked or freed twice, nothing is read that was not written, the loop ends.

### Message prefix and level filter (`log.cpp` 372-509, 707-711, 776-798)

* State: `g_logp_debug_flag`, read again for each option; the cached address of the
  formatting routine.
* Operations: `LogpIsLogNeeded`, `LogpPrint` up to `LogpPut`, `LogpMakePrefix` with its
  fixed buffers, `LogpFindBaseFunctionName`, the look-up in `__stdio_common_vsprintf`.
* Hard: a text that fits one buffer may not fit the next one with its prefix; the look-up
  needs PASSIVE_LEVEL and is made by whoever logs first; other threads change the flag.
* Correct when: no text is lost between the two buffers, the name that is logged is the
  last part of the function's name, the look-up is made at PASSIVE_LEVEL.

### GetProcessName (`GetProcessName/main.cpp`)

* State: the locals of `find_process_name`. The process list is the kernel's.
* Operations: query the size, allocate, query the list, walk the records, report.
* Hard: processes and threads come and go between the queries, and nothing is repeated; a
  record is as long as its process has threads; the last record is known by a
  `NextEntryOffset` of 0 only.
* Correct when: what is printed is the selection from one list, complete and once each,
  or a failure is reported, and only for a reason.

### Not modelled

| Part | Why |
|---|---|
| `kernel_stl.cpp`, `kernel_stl.h` | `operator new`/`delete` over the pool, bug checks in place of exceptions, forwarded CRT routines; compiled in, but no code of the driver uses them; its cached look-up is the one `LogFormat` models |
| `picodrv.asm`, headers, project and installation files | declarations, a call stub and data |

`PROJECT.json` lists the hazards of the code at their lines ("hazards") with the
properties that watch them.

## 2. Plan

Written, in this order: `LogBuffer` (the core), `LogQueue` and `LogBufferRefinement`
(what it promises), `LogBufferProofs`, `LogLifecycle`, `Driver` (composes
`LogLifecycle` with the device and the tool), `PicoMon`, `DriverProofs` (the life
cycle and the driver); then `KernelTools` and `ProcessList` with the abstract
specification they share (`Snapshot`), `LogFormat`, `LogShutdown` (composes the end of
the log with the contents of its buffers), the proof modules of these and of
`PicoMon`, `LogSafetyProofs` and `LogShutdownProofs`.

Left: `LogShutdown` composed with the resources of `LogLifecycle`, for writers that are
still inside the file path of `LogpPut` when the file is closed. (The first two theorems
of `LogShutdownProofs` hold for such writers too; `FileIsQuiet` does not.)

## 3. The modules

### LogBuffer

The log from the moment both buffers exist. A thread is in one call at a time; `pc`
says where, and an action is a stretch of code that other threads cannot see the
inside of, or in which they could not do anything that matters.

| Code | Model |
|---|---|
| bytes of a buffer | `mem[b][o]`: the string that begins at offset `o`: `Nul`, a whole message with its printed bit, `Begun` (the first byte of a message that is being copied), or `Torn` (anything else) |
| `log_buffer_head`, `log_buffer_tail` | `head`, `tail = [buf, off]` |
| `spin_lock`, `resource` | `spin`, `resource`: their owners |
| `old_log_buffer`, `current_log_entry` | `old`, `cursor` (only the owner of `resource` has them) |
| `buffer_flush_thread_should_be_alive` | `alive` |
| `LogpPut` 512-547 | `LogpPut` (the flag is read here, used later) and `LogpPutDropped` |
| `LogpFlushLogBuffer` 553-607 | `AcquireResource`, `SwitchBuffer` (the part under the spin lock), `WriteEntry` / `WriteTornEntry` / `WalkPastEnd` per iteration, `EndOfEntries`, `WipeAndRelease` |
| `LogpWriteMessageToFile` 610-627 | `WriteMessageToFile` |
| `LogpBufferMessage` 630-669 | `StartCopy` (lock taken, first byte stored), `FinishCopy` (copy done, tail and usage updated), `Terminate` (the `'\0'`, lock released) |
| `LogpDoDbgPrint` 672-677 on a text in a buffer | `CutAt`, within `WriteEntry`, `WriteTornEntry`, `WalkPastEnd` |
| flush thread 715-737 | `ThreadStarts` (720), `LogThreadStarted` / `StartSilently` (721), `FlushThreadRound`: the unlocked test of the head's first byte, then the same flush actions |
| `LogpInitializeLogFile` 237-280 and `LogpReinitializationRoutine` 292-305 | `Activate` (264-265), `FailToActivate`, `ReportActivation` / `ActivateSilently` (276, 302-304) |
| `LogIrpShutdownHandler` 308-321 | `LogIrpShutdownHandler`, `DisableLog`, `Drained` |

The three actions of `LogpBufferMessage` matter: the flush does not take the spin
lock to read, to edit or to clear the old buffer, and when the head buffer was empty the
"old" buffer is the one that is being appended to. What it does to a byte while the copy is
under way may still be there when the copy ends (`Surviving`). A string is measured at one
moment (`Ends`): `strlen` finds one of the `'\0'`s in the buffer or the byte behind it, and
may miss one that the copy is just overwriting (`Overwriting`). Printing a text edits its last two
bytes (`CutAt`), which may lie before its start. Only writes inside the two buffers are
followed. At the byte behind a buffer (`WalkPastEnd`) there may be a `'\0'`, or other text,
whose printing may also cut the last byte of the buffer, or nothing that can be read,
which is a bug check (`"fault"`: all threads stop). A change of the memory behind a buffer
is not followed further.

The calling contexts are abstracted to the four classes `LogpPut` tells apart
(`AllContexts`). Every message is logged at most once, so it can be followed; what
is printed, written or buffered twice is then visible. Whether the messages of 303 and 721
are logged depends on the level (`driver.cpp` 104-108: INFO in release builds, DEBUG
otherwise), so both `ReportActivation`/`ActivateSilently` and
`LogThreadStarted`/`StartSilently` are possible; `ActivateSilently` also stands for a
log file that `LogInitialization` opened itself. That the flag is set (264) before the
thread is created (265) and that the caller waits for the thread (276) are `Activate`,
`"start"` and `"await"`.

`file`, `prints` and `outcome` are history: what `ZwWriteFile` and `DbgPrintEx` were
asked to do and how each call ended.

`driver.cpp` does not register an `IRP_MJ_SHUTDOWN` routine, so nothing in the
repository calls `LogIrpShutdownHandler`; it is part of the interface of `log.h` and
modelled as such.

### LogQueue and LogBufferRefinement

`LogQueue` is the promise without buffers, locks and threads: accepted messages wait
in a FIFO queue and are written in that order, each once; one leaves the queue
unwritten only if its write fails; the queue is eventually written.
`LogBufferRefinement` maps `LogBuffer` to it: the queue is what the flush under way
has before its cursor, followed by the head buffer. A message that is written directly
goes past the queue, which keeps its order.

The code keeps this promise only until an append begins while a flush that found the head
buffer empty is still reading it (`FlushesEmpty`): such a flush takes the buffer to be its
own, although messages are still appended to it. Any thread that writes to the file can be
that flush, the flush thread (721) and the activation of the log (303) included, and what
comes of it is the finding of `empty_flush`. `LogBufferRefinement` therefore adds the
history variable `overlapped` and follows the log up to the first such moment, in every
calling context: `HistorySpec`. In `LogQueue` that moment is `Damage`, after which nothing
is promised. Nothing else is assumed of the callers.

### LogShutdown

`LogBuffer` with the end of the log: `LogTermination`, step by step, on the buffers of
`LogBuffer` (`LogFinalizing`, `LogTermination` for "Bye!", the steps that clear
`g_logp_debug_flag` and `buffer_flush_thread_should_be_alive`, wait for the flush thread,
close the file and free the buffers), or `LogIrpShutdownHandler`. Each action of
`LogBuffer` is taken inside `Log(...)`, which stops it when the buffers are freed. `due` is
history: what the buffers held when "Bye!" was logged, unless a flush that had found
the head buffer empty was under way (`FlushesEmpty`): such a flush clears the first byte
of what was appended meanwhile (`empty_flush`). The other writers only buffer;
a thread at PASSIVE_LEVEL that is still inside `LogpPut` then is what `LogLifecycle`
is about.

### LogFormat

What happens to a message before `LogpPut` gets it. A string is its length, except a
function's name, which is a sequence of identifiers and colons. A call goes through
"text" (`log_message`), "time", "name", "processor" and "entry" (`message`) and reads the
flag of the moment for each option; `LogInitialization`, whose test of the log
is a call like any other, and `LogTermination` change the flag. `Outcomes` are the ways
a call ends: handed to `LogpPut`, refused by `log_message` ("tooLong"), an empty text,
or refused by a buffer of the prefix ("noRoom"). An entry keeps the function's name beside the
part of it that was logged, so that `BaseNameIsLast` relates the two: what follows the last
colon after the first character. (The first character is not looked at; no function's
name begins with a single colon.)

### LogLifecycle

The control thread (`at`) runs `LogInitialization`, the re-initialization routine and
`LogTermination`, one action per acquisition or release, each with its failure. The
flush thread (`flusher`) and any number of loggers (`logger`) run beside it, with the
tests of the flags and what is done with the answers as separate actions. Pointers
and handles are there or not. The client between initialization and termination is
any one that keeps to the comments of `log.h` (`Client`).

External assumptions: the I/O manager calls the re-initialization routine after
`DriverEntry` has returned and not while the driver is unloaded; it waits for the
loggers in `RunDown` (requests on the device) before it unloads, and for no others.

### Driver

Extends `LogLifecycle` with the steps of `DriverEntry` and `DriverpDriverUnload`,
the device, its link, requests and the tool's callbacks. Its log is only changed by
the actions of `LogLifecycle`, but the client is `driver.cpp` now, and
`FollowsLogProtocol` is the refinement: the driver, seen from the log, is a behaviour
of `LogLifecycle!Spec`.

### PicoMon

The table has the three fields the monitor uses, in the order of the structure
(`picostruct.h`), and the provider fills them one by one at any time
(`RegisterPicoProvider`, external: the kernel copies the structure upwards). Load and
unload are steps on these fields; processes are created and exit in between.
The hook calls the saved original and goes on when it returns (`PicoMon.cpp` 45-46): an
exit is "called" inside the provider, then "returning" in the hook. The provider may take
its time. `bugcheck` is set when a null routine is called or code of a driver that is gone
runs; nothing happens after that. `LeaveMemory` is the rest of `DriverpDriverUnload`: a
callback in one of the monitor's own steps is "stranded" by it, an exit inside the provider
becomes "adrift" and is stranded when the provider returns, another load of the driver
meanwhile or not. External: removing the notify routine waits for callbacks that are
running; nothing waits for a hooked exit.

### KernelTools, ProcessList and Snapshot

Two clients of a list that the kernel changes at any time, of which the second query
copies what it is at that moment. The records of modules are all alike, so `KernelTools`
counts them; a record of a process is followed by one for each of its threads
(`main.cpp` 59), so `ProcessList` adds up sizes (`RecordSize`, `ThreadSize`), and threads
begin and end like processes. `Snapshot` is what
both promise: an answer that is right for the list as it was at one moment of the
call, or a failure, and one of the two for certain. `FindKernelBase` is mapped to it by
the first kernel among the records the walk has still before it, and
`find_process_name` by what it has printed followed by what it will still print; so the
abstract step is the second query, and everything after that must be a stutter.

`KernelTools` goes on with `FindNtdll` (one step of its own thread) and the operand: the
instruction holds the distance of the byte modulo the range of an INT32
(`Encoded`, external), and `GetPICOCallbacks` decodes it (`SignExtended`) and rounds up. That
the operand is at 0x2e of the routine and counts from 0x32 is a fact about the kernel, which
model and code assume alike: what `TableFollowsFlag` checks is the sign and the rounding.
`EnablePicoRegistrations` is an action although nobody calls it.

## 4. The runs

Runs that pass:

| Run | Instance | What it shows |
|---|---|---|
| `no_overlap` | 2 writers, one of which may call the shutdown handler, 3 messages of 3 and 4 bytes, buffers of 7 bytes, all four contexts, failing writes; followed up to the first append that begins during the flush of an empty buffer | `ImplementsQueue`: the double buffer is the queue of `LogQueue`, liveness included; `BufferedNotLost`; `FileIsClean`; `PrintedOnce`; `WalkStaysInside` |
| `overlaps` | the same without that limit, for threads that write to the file and threads that buffer, and with a failing activation | `BufferBounds`, `UsageIsRecorded`, `CallsReturn`, types |
| `termination` | 2 writers, one of them the thread that terminates the log or shuts it down, 3 messages of 3 bytes, failing writes, failing activation | `TerminationFlushes`: "Bye!" takes what was buffered along; `ShutdownDrains`; `FileIsQuiet`; `TerminationReturns` |
| `lifecycle` | 2 loggers, every failure | `NothingLeaks`, `FlushThreadOutlived`, `StatusIsTrue`, `LoggersUseLiveLog`, `ControlReturns` |
| `driver` | 2 request threads, 1 callback thread, every failure | `NothingInstalled`, `LinkLeadsToDevice`, `FollowsLogProtocol`, `RequestsComplete` |
| `picomon` | 2 processes, 2 loads, a provider that returns when it likes | `OnlyOvertakenExitsFault`, `UnhookedWhenOut`, `HookHasOriginal`, `ExitsReachProvider` |
| `kernel_tools` | 4 modules, 4 initial lists, 2 changes, 3 uninitialized lengths, 7 places of the byte | `FindsKernel` (refines `Snapshot`, liveness included), `BlockIsFreed`, `TableFollowsFlag` |
| `process_list` | 4 processes with any number of threads, records of two sizes, 3 initial lists, 3 events | `PrintsSnapshot` (refines `Snapshot`, liveness included), `OnlyGrowthIsMismatch` |
| `log_format` | 2 callers, 6 lengths of texts, 3 settings, 8 function names | `EntriesFit`, `ResolvedAtPassive`, `BaseNameIsLast` |

Bounds. A message has at least three bytes, its `'\r'`, `'\n'` and `'\0'`. A buffer of
seven bytes takes two short messages exactly (usable size 6), overflows with a long one after a short one, and leaves 6, 3, 2 or 0
usable bytes: every case of the copy occurs (fits, fits exactly, truncated, no room at
all). Two writers and the flush thread are enough for a flush, a copy and a
third party; a flush involves one owner of the resource and one of the spin lock, so
a further writer could only wait. Three messages let a message be lost, a later one be
hidden behind it and the shutdown handler log its own, let both buffers be used and
swapped back, or the end of the log log "Finalizing..." and "Bye!" around another one (two
messages that wait when the end of the log is logged are the matter of
`LogShutdownProofs`); the messages of the activation and of the flush thread are among the
three. `overlaps` and `termination` have the contexts in which the paths of the code differ
("passive" and "safe"; "raised"), `no_overlap` all four. `MaxLoads = 2` is what a stale hook needs to be saved as the
original. The life cycle runs have no bound: the code does each thing once.

Two changes of the module list (`MaxChanges`) make the block too small and then too large,
or too small twice; the initial lists have no kernel, one kernel, or two with a
driver before them. The uninitialized lengths are too short, just right and too long.
`HalfRange = 128` stands for 2^31; the places of the byte (`Flags`) are on both sides of the
operand and around multiples of 32. Three events (`MaxEvents`) let the process list
grow and shrink within one call, by processes or by threads. Texts of 411 and 412 characters are the longest
`log_message` has room for and the first it has none for.

Deadlock is checked in `apcs_disabled`, where the flush thread always runs. It is not
checked where the system may stop: a bug check, a log that is not followed further, failed
or terminated, a driver out of memory, a log without a flush thread, and a call or a program
that has ended.

Fairness. Every thread that can run is eventually scheduled (weak fairness per
thread; a lock is waited for in a queue, `KeAcquireInStackQueuedSpinLock` and the
ERESOURCE, and its owner never waits for a later one), sleeps end, and the I/O manager
calls a registered re-initialization routine, which succeeds or fails. `HistorySpec` has the
fairness of `LogBuffer`. `DriverEntry`
(`DriverStep`), `GetProcessName` (`FindProcessName`) and the terminating thread
(`Termination`) run. Nobody is obliged to log, to send requests, to create or end
processes, to load or unload a module or the driver. `LogFormat` states no fairness: its
properties are invariants.

### Disagreements between the code and its comments or assertions

Each of these runs checks one statement of the source and TLC finds a behaviour of the
code that breaks it. They are listed with the quoted lines under "findings".

| Run | Statement | What happens |
|---|---|---|
| `empty_flush` | the flush thread flushes what is buffered (713-714) | a flush that found the buffer empty clears the first byte of a message appended meanwhile (603); the buffer looks empty from then on and is never flushed |
| `apcs_disabled` | a message that cannot go to the file now is buffered (533) | with all APCs disabled and the file active it is neither written nor buffered, and the call returns success (526) |
| `enabled_asserts` | `NT_ASSERT`s of 683-690 | a callback that logs during termination sees one buffer freed and the other not, and a head that is never reset |

They show why the passing properties are stated as they are. `BufferedNotLost`,
`FileIsClean`, `PrintedOnce`, `WalkStaysInside` and `ImplementsQueue` hold until an append
begins during the flush of an empty buffer (`overlapped`); without that limit the lost message of
`empty_flush` breaks the first of them, and a walk of torn text the others. (Only a flush
that has found the head buffer empty is affected: one of 303, 528 and 721, or a round of the
flush thread if another flush comes between its test, 726, and its own switch.) `BufferBounds`, `UsageIsRecorded` and `CallsReturn` hold always.

What the code does not promise, and the properties therefore do not say:

* `LogIrpShutdownHandler` waits for an empty head buffer, which is empty right after a
  switch, so it may return while the old buffer is still being written.
  `ShutdownDrains` says that every message is in the file or in that old buffer.
* `BufferBounds` says what `LogpBufferMessage` relies on: its own writes stay in the buffer.
  It does not say so of a walk over torn text, which may step to the byte behind the buffer
  (601) and read and change what is there (579, 582, 674-675). `WalkStaysInside` says when
  that cannot happen; `CallsReturn` and `TerminationReturns` except the bug check that may
  come of it.
* Without a flush thread (a failed activation) nobody empties the head buffer and
  the handler waits for ever: the exception in `CallsReturn`.
* The flush thread tests `buffer_flush_thread_should_be_alive` in its loop and asserts it
  again (725); a termination may clear it in between. `FlushThreadOutlived` says
  what the thread relies on: that everything it uses is there until it is joined.
* The assertions of `LogpIsLogFileActivated` (697-703) compare the flag with the handles and
  fail between lines 264 and 265, and again while `LogpFinalizeBufferInfo` is between 341
  and 354. No property states them. `LoggersUseLiveLog` says what is really used, for
  the threads the I/O manager waits for.
* An exit inside the hook, or inside the provider which the hook has called, faults when the
  driver leaves memory. `OnlyOvertakenExitsFault` says that nothing else does.
* The flush thread exits without a last flush. `TerminationFlushes` says why nothing that
  was buffered before "Bye!" is lost all the same; what is buffered after it is.
* "Finalizing..." may be the flush that finds the head buffer empty: a message another
  thread appends during that flush is lost as in `empty_flush`, whatever "Bye!" does. It is
  therefore not `due`.
* A function's name longer than its buffer makes `LogpMakePrefix` fail and the message is
  not logged: `EntriesFit` is about the setting of `driver.cpp`, which logs no names.
* A process or a thread that is created between the two queries makes `GetProcessName` give
  up.

Each property of a passing run has a mutant, an operator defined before the one it
replaces, that breaks it ("mutants" in `PROJECT.json`).

## 5. What is proved

Every theorem holds for all values of the constants that the named assumption of its
module allows; "theorems" in `PROJECT.json` lists them.

**`LogBufferProofs`** (`ConstantsAssumption`: any threads, messages of at least three bytes,
any buffer size, any set of contexts), for `Spec`, overlapping flushes included.

* `TypeCorrect == Spec => []TypeOK`. `TypeOK` is not inductive: a writer at "write" or
  "copy" uses `op[t].msg`, so the induction needs `CallInv`, which says that a thread
  inside `LogpPut` has a message and that each kind of thread stays at its own program
  counters. `TypeInv == TypeOK /\ CallInv` is inductive; one lemma per group of actions.
* `BoundsHold == Spec => []BufferBounds`, torn walks and left over text included.
  `BufferBounds` is inductive relative to `TypeInv`, in two parts: the tail stays in the head
  buffer and within the usable size (`TailInside`), and every whole message ends before the
  last byte (`AllFit`). A flush only ever takes messages out of a buffer or changes their
  printed bit (`Within`), whatever it walks over.
* `UsageStaysRecorded == Spec => []UsageIsRecorded`. A message that was refused must not
  become something else later, so the induction follows its fate (`FateInv`): a message
  belongs to one writer until it is written, buffered or refused, and only buffered ones
  are in a buffer.

**`LogSafetyProofs`**, for `HistorySpec`: any threads in any contexts, any messages, any buffer
size, with the flushes of 303, 528 and 721, the shutdown handler, failing writes and a
failing activation. No further assumption.

* `NoBufferedMessageIsLost == HistorySpec => []BufferedNotLost`,
  `FileStaysClean == HistorySpec => []FileIsClean` and
  `WalksStayInside == HistorySpec => []WalkStaysInside`. None says where the text of a
  message lies, so they are far from inductive. `HistoryInv` is `overlapped \/ SafeInv`, and
  `SafeInv` says: the head buffer is covered by whole messages, without a gap, from its start
  to the tail (`HeadInv`); messages do not begin inside one another (`ApartInv`) and each is
  at one place (`PlaceInv`); what a walk has still to write covers the old buffer from the
  cursor to an end where it finds a `'\0'` (`WalkInv`); everything on this side of the tail
  or of the end waits to be written, everything else is left over from messages that are
  done with; a buffer becomes the head again only when all of it is left over, and a flush
  that found nothing has the head buffer for itself (`FlushInv`, the conjunct that an overlap
  ends); the file has each message once (`FileInv`). `CoversStart` turns
  "covered" into "a message begins where the last one ended", the step that the walk makes.
* `EachIsPrintedOnce == HistorySpec => []PrintedOnce`, from `SafeInv` and `PrintInv`: a message
  is in the hands of one call (`HoldInv`); while it waits, its printed bit is on
  exactly when the call prints it (`BitInv`); and when it is done with, it was printed or
  the call owes the print (`CountInv`). The flush may come before or after the call's print.
  A message that is written directly is one whose call prints it (`ContextInv`).
* `BuffersAreAQueue == HistorySpec => Queue!Init /\ [][Queue!Next]_queueVars`, the safety part
  of `ImplementsQueue`. `MessagesFrom` follows the messages of a buffer upwards, and what it
  returns is known by its recursive equation only. `Downwards` is the induction that is
  needed, from the end of a buffer down, stated about a set of offsets (if it has an
  offset whenever it has all larger ones, it has all): it shows that the function exists
  (`ChainExists`), that buffers which agree up to a limit have the same chain
  (`ChainSame`), and that a message stored at the limit comes last (`ChainAppend`). Then
  `SwitchBuffer` moves the queue from the head to the old buffer, `WriteEntry` takes its
  first message, `FinishCopy` appends one, `WriteMessageToFile` goes past it, the step that
  overlaps is `Damage`, and every other step is a stutter.

**`LogShutdownProofs`**, for `EndingSpec`, with any number of threads that log and that may
end the log, in any context.

* `LastMessagesAreWritten == EndingSpec => []TerminationFlushes` and
  `ShutdownLosesNothing == EndingSpec => []ShutdownDrains`. `SafeInv` is of no use here,
  for appends overlap flushes of empty buffers. What remains of it is `BuffersInv`: unless
  the head buffer looks empty, or a flush that found it empty is at it (`Sound`), its
  messages follow one another without a gap from its start to the tail (`Gapless`,
  `TailInv`), and a flush of the buffer that is not the head has a gapless rest before it, up
  to a `'\0'` (`Ahead`); such a flush meets no torn text (`WalkFinds`). After a bug check
  nothing moves but the locks stay taken (`OwnersInv`, `CrashInv`). `CloserInv` follows the
  thread that ends the log. `DueInv` follows each message
  that was due: it is written, or in the head buffer, or in that rest; and as long as it is in
  the head, the thread that said "Bye!" has its own switch before it, or waits for the
  head to be empty (`MayBeLive`); as long as it is in the old buffer, that thread has not
  had the ERESOURCE, or is the one that writes (`MayBeOld`). One lemma per action;
  `CopyKeeps` has what the steps of `LogpBufferMessage` share, `StillStep` what those
  share that leave the buffers alone.
* `NothingIsWrittenLate == ASSUME OthersOnlyBuffer PROVE EndingSpec => FileIsQuiet`: the
  contexts are "raised" and "safe", so of the writers only the one that ends the log, the
  one that activates it and the flush thread write to the file. `FileWritersInv`
  says that the flush thread runs exactly while its flag is set, until `LogTermination` has
  waited for it, and that nobody is inside a write when the file is closed.
* `EndKeepsBounds == EndingSpec => [](TypeOK /\ BufferBounds)`.

**`DriverProofs`** has two parts. The first proves, for any set of loggers and any set of
failures (`LifecycleAssumption`), the type invariant and the four safety invariants of
`LogLifecycle`: `NothingIsLeft`, `FlushThreadIsOutlived`, `StatusStaysTrue` and
`LoggersAreSafe`. None of them is inductive; all follow from `Inv`, whose parts are

* `StorageInv`, what is allocated at each place of the control thread;
* `ThreadInv`, the flush thread lives within the life of its handle, and the handle
  within the lives of the file, the lock and the buffers; the thread exits only when it
  has been told to, which is while `LogpFinalizeBufferInfo` waits for it;
* `FileInv`, the few places where the file is open, or
  `buffer_flush_thread_should_be_alive` set, without a thread;
* `StatusInv`, the returned status against what exists, and the places a
  re-initialization can be registered or running at;
* `LoggerInv`, a logger in `RunDown` is at work only while the control thread is at
  "ready" or "loaded" or inside the re-initialization.

The second part proves, under the same assumption and `DeviceAssumption`, that `Driver`
implements `LogLifecycle` with its general client (`DriverFollowsProtocol`, that is
`DriverSpec => FollowsLogProtocol`), and the invariants `DriverTypeOK`, `NothingInstalled`
and `LinkLeadsToDevice`. `DriverInv` says which objects exist at each step of the driver,
where the log is at each step, that the log is enabled until the driver terminates it,
and that a dispatch routine logs only inside a request. `DriverNextInv` shows that every
step of the driver is a step of the log or leaves the log alone, so `Inv` is kept for
the reason it is kept in `LogLifecycle`.

**`PicoMonProofs`** proves the four invariants of `PicoMon` for any processes and any number
of loads. `TableInv` is the order in which the provider fills the table, which is why one
check of one field is enough; `MonitorInv` says what has been saved at each step of the
load, and that the table has the hook exactly when the original was saved;
`ProcessInv` keeps an exit inside the hook together with the original it will call. An exit
inside the provider needs no such invariant: what it returns to is decided when the driver
leaves memory, and no later load changes it.

**`KernelToolsProofs`** (`KernelAssumption`): the type invariant, `BlockIsFreedOnce`,
`OperandLeadsToTable` (`FindsFlag`: decoding what was encoded gives the byte back, for any
distance in the range; `AlignsUp`) and `AnswersForOneMoment`, the safety part of
`FindsKernel`. For that `EndsAtAnswer` and `PassesOthers` show that the walk's
steps do not change the first kernel of what it has before it.

**`LogFormatProofs`** (`FormatAssumption`): `ResolutionIsPassive`, because nobody formats
anything before the test of the log is over, and it has resolved the routine
(`TestInv`); `NoEntryIsRefused`, by a bound on the length at each part (`LengthInv`).
`TypeCorrect` and `BaseNamesAreLast` are about the loop of `LogpFindBaseFunctionName`,
for names of any length, with colons anywhere: the start the loop has found after `n`
characters is behind the last colon among them (`StartIsAfterColons`,
`BaseFollowsLastColon`). They need the same kind of induction about sets as
`LogSafetyProofs`, from the first character of the name on (`Upwards`).

**`ProcessListProofs`** (`ProcessAssumption`): the type invariant, which includes that the
walk stays within the records it got, and `MismatchMeansGrowth`, by `RoomInv`: as long as
no process or thread was created the list fits the block. That takes arithmetic about sums
over a list (`TotalIsSum`): one thread less (`FewerThreads`) or one process less
(`OneProcessLess`) never makes it longer. `PrintsOneMoment` is the safety part of
`PrintsSnapshot`: every step of `find_process_name` is a step of `Snapshot` or a stutter.
The selection from the records still before the walk is a recursive function
(`SelectedFrom`), which `Backwards`, an induction from the last record on, shows to
exist; a step of the walk then moves one name from it to what has been printed.

Only model-checked:

* liveness (`CallsReturn`, `TerminationReturns`, `ControlReturns`, `RequestsComplete`,
  `ExitsReachProvider`, the fairness parts of `ImplementsQueue`,
  `FindsKernel` and `PrintsSnapshot`), which is out of the prover's reach, as is ENABLED.

Every invariant and action property of the runs that pass, and the safety part of each refinement, is proved.
The induction theorems of the library take an operator, which the installed provers
cannot instantiate; the inductions above are about sets and rest on the existence of
minima in well-founded sets.

## 6. Files

| File | Contents |
|---|---|
| `LogBuffer.tla`, `MCLogBuffer.tla` | the log buffer, its instance for TLC |
| `LogQueue.tla`, `LogBufferRefinement.tla`, `MCLogQueue.tla` | its abstract specification, what it keeps up until flush and append overlap, its instance for TLC |
| `LogShutdown.tla`, `MCLogShutdown.tla` | the end of the log on top of the log buffer |
| `LogBufferProofs.tla`, `LogSafetyProofs.tla`, `LogShutdownProofs.tla` | theorems about them, and proofs |
| `LogFormat.tla`, `MCLogFormat.tla`, `LogFormatProofs.tla` | how a message is made |
| `LogLifecycle.tla`, `Driver.tla` | life cycle of the log, the driver on top of it |
| `DriverProofs.tla` | the theorems and proofs of both |
| `PicoMon.tla`, `PicoMonProofs.tla` | the process monitor |
| `Snapshot.tla` | what a client of a changing list promises |
| `KernelTools.tla`, `MCKernelTools.tla`, `KernelToolsProofs.tla` | the kernel discovery helpers |
| `ProcessList.tla`, `MCProcessList.tla`, `ProcessListProofs.tla` | the console program |
| `*.cfg` | one per run, named after it |
| `PROJECT.json` | components, runs, mutants, map to the source, findings, hazards, theorems |
