# OpenLogger firmware in TLA+

A verification development for the OpenLogger firmware (`src/OpenLogger`), the
program of a PIC32MZ data logger: it samples up to eight analog channels by DMA,
converts the samples, logs them to RAM, an SD card or a cloud service, and is
driven by JSON commands over USB and HTTP.

## 1. The system

One super loop (`main.cpp:259-310`) calls every task in a fixed order:
`ADCTask`, `ADCTargetsTask`, `TestTasks`, `DEFTask::PeriodicTasks`, `HTTPTask`,
the IP stack, `ProcessJSON` for each stream, `LEDTask`, `SdHotSwapTask`.  A task
is a state machine that does a little and returns.  There are three sources of
concurrency:

* the DMA and its interrupt service routines, which run at any instruction;
* one file system *thread* (`Threads.c`): a task that calls `fswrite`, `fsopen`
  ... gets `FR_WAITING_FOR_THREAD` until the call is over, and calls again on
  its next pass.  All tasks share the thread;
* the outside: commands, the button, the card that is pulled, free space, errors.

What makes it hard is that every multi-step operation is spread over many passes,
with other tasks, ISRs and commands in between, and that the tasks communicate by
global variables (`logIParam`, `fileTask`, `defTask`, the directory object) they
look at only in some of their states.  A failed `ASSERT` halts the firmware
(`while(PORTHbits.RH0==0)`), so an assertion that can fail is a failure of the
whole logger.

### Inventory

| Component | State it keeps | Operations | Talks to | What makes it correct |
|---|---|---|---|---|
| Acquisition (`ADC.cpp`) | raw and voltage ring, `logIParam`, DMA registers, half full flags | the two ISRs, `ADCRun`, `ADCStopSampling`, `ADCTask` | DMA by registers; targets and readers by `csTotal`, `padcVoltNext` | no sample invented, lost or overwritten; the rings stay in step; a log ends with the count asked for |
| SD target (`ADCTargets.cpp`) | `adcTrg`, the LOGGING file, its usage entry | `ADCTargetsTask`, `ADCSDTask` | voltage ring, file system thread, `fileTask` | files abut, the header is true, whatever fails it gets back to Idle and trips no assertion |
| Log control (`Parse.cpp` FnLogRun/FnLogStop, `ADC.cpp` DeferredLogRun, `LEDs.cpp`) | `logIParam.state`, `curState` of the deferred task, the command in progress | run, stop, button, the deferred run | `defTask`, `fileTask`, the directory object, the instrument | a stop wins, nothing stays locked, the timer is on for a running log only, files to be kept are kept, a pending log settles |
| Deferred tasks (`DeferredTasks.cpp`) | the ring of tasks | `QueTask`, `GetWaitTime`, `PeriodicTasks` | JSON commands, every deferred task | a queue: order kept, nothing lost, waits add up |
| File usage (`DeferredTasks.h`, FILETask) | name per kind of use | `SetUsage`, `ClearUsage`, `GetPath` | all users of files | a name is in use once; an entry is cleared when its file is closed |
| File system thread (`DFATFS.cpp`, `Threads.c`) | `fsFunc`, `curVol`, `rgParam`, `fYielding` | `ExFatFunc`, `Yield`, the DFILE methods | all users of files, FatFs | a task gets the result of its own call and is served |
| SD and flash drivers (`DSDVOL`, `FLASHVOL`, `DSPI`, `DMASerial`) | card state, SPI queue | sector read and write, where the thread yields | FatFs | a sector is transferred or an error is reported |
| SD hot swap, log on boot (`File.cpp`, `LogOnBoot.cpp`) | `fSd0`, `fSd0Trans`, `logAParam`, the states of the tasks | `SdHotSwapTask`, `AutoLogOnBootTask` | mount, deferred queue | a saved log is started exactly when its target is there |
| Boot (`main.cpp`) | `stateMain` | boot sequence, loop | everything | every step is left |
| Log read (`Parse.cpp` FnLogRead, `ADC.cpp` ReadVoltageLog) | range being sent | command, chunk reader | voltage ring | what is sent is what was asked for |
| Log parameters (`Parse.cpp` FnLogSetParm) | `logUParam`, queued values | command | boot file | parameters are consistent, saved or deleted |
| Cloud target (`CloudTask.cpp`) | backlog, retry, HTTP connection | `ADCCloudTask` | voltage ring, IP stack | each sample delivered, backlog bounded |
| JSON file commands (`Parse.cpp`, `File.cpp`) | READING, WRITING entries | read, write, delete, list ... | thread, `fileTask` | every entry taken is given back |
| Calibration (`FeedBack.c`, `ADC.cpp`, `File.cpp`, `Parse.cpp`) | calibration tables, instrument state | start, read, save, load | deferred queue, files | an instrument leaves Calibrating |
| JSON lexer and streams (`LexJSON.cpp`, `JsonIO.cpp`, `OSSerial.cpp`) | `oslex`: lock, input, output and binary tables | `ProcessJSON`, `StreamOS`, the debug prints | Fn handlers, ports, HTTP page | one command at a time, whole; its answer whole and to its sender |
| FT245 parallel port (`FIFO245.cpp`) | ring, DMA channel, `PMDIN` | `PeriodicTask`, `Read`, `Write`, `Purge` | lexer, DMA | bytes in order, once each; room for the byte in `PMDIN` |
| HTTP server (`libraries/HTTPServer`) | clients, post mutex, state of its link | server and client tasks | JSON, radio | the mutex is given back; it connects again |
| WiFi (`WiFi.cpp`, the nic and wifi commands of `Parse.cpp`) | active and working parameters, the files they are saved in, the link | connect, disconnect and scan tasks, commands | deferred queue, HTTP server, radio, thread | what is said of a network is true of it; a command does to the files what it answers; tasks end |
| AWG, DC, LEDs, timers, statistics | registers, tables | commands | hardware | ranges, rounding |

FatFs, WINC1500, DEIPcK and DEWFcK are vendored, but for the Digilent adaptor in front of WINC1500; `ADCWorking.cpp` is not in the
build.

## 2. Modules

| Module | Models | Abstract specification |
|---|---|---|
| `AdcRing`, `AdcRingProofs` | DMA pair, ISRs, `ADCTask`, conversion, run and stop | `SampleStream` |
| `SdTarget`, `SdTargetProofs` | `ADCSDTask`, `ADCTargetsTask` for VOLSD | `LogStore` |
| `FatThread`, `ServicesProofs`, `MCFatThread` | the shared thread | properties `OwnWork`, `Served` |
| `DeferredQueue`, `ServicesProofs` | `DEFTask` | `TaskQueue` |
| `Boot`, `FileUseProofs` | the boot states of `main.cpp`, `FileOpenFlash`, `SdHotSwapTask`, the calibration files and commands, `AutoLogOnBootTask` | properties of its own |
| `LogControl`, `LogControlProofs`, `MCLogControl` | FnLogRun, FnLogStop, DeferredLogRun, the button, the commands they meet, `ADCTargetsTask` seen from outside | properties of its own |
| `CloudTarget`, `CloudTargetProofs` | `ADCCloudTask`, and the finish in `ADCTargetsTask` | properties `PostedOnce`, `PostSound` |
| `JsonStreams`, `JsonStreamsProofs` | `ProcessJSON`, the serial stream, the debug prints, `HTTPTask`, `ProcessClient`, the POST page and its mutex | properties of its own |
| `BinaryData`, `MCBinaryData`, `FileUseProofs` | `StreamOS`, FnFileRead, FnFileWrite, FnLogRead, `OSPAR::ReadFile`, `WriteFile`, `ReadVoltageLog` | property `AnswerWhole` |
| `Fifo245`, `ServicesProofs` | the FT245 port | `ByteFifo` |
| `WiFi`, `WiFiProofs`, `MCWiFi` | the deferred WiFi tasks, the server's link, the nic and wifi commands and the saved parameters | properties of its own |
| `WifiLink` | the link as the WINC1500 adaptor, DEWFcK and DEIPcK keep it: calls that take the link and return it with a status | none |

Composition is by abstraction.  `SdTarget` and `CloudTarget` take `ADCTask` as their
environment `Convert` (which is what `AdcRing` promises by `SampleStream`: samples in
order, the rest converted after a stop).  `LogControl` takes the target as
`TargetFinishes`, `TargetIdle` (what `SdTarget!Finishes` and `CloudTarget!CloudEnds`
promise) and the deferred tasks as a queue (what `DeferredQueue` implements).
`BinaryData` takes one request at a time, whole, of which `JsonStreams!OneCommand` and
`WholeCommands` are the promise; `JsonStreams` takes the bytes of a port in order and
once, as `Fifo245!ImplementsFifo` shows for the parallel one.  A pass that gets
`FR_WAITING_FOR_THREAD` is a stutter in the others, which is what `FatThread!Served`
allows.

### AdcRing

State: `timerOn`, `chen`, `dsa`, `dptr`, `chdhie`, `pending`, `blockDone`,
`chainTo` are the hardware; `halfFull` the ISR flags; `state`, `rawStart`,
`rawEnd`, `voltNext`, `csTotal` fields of `logIParam` (addresses as offsets in
samples); `pc`, `reg`, `phyOffset`, `phyAddr` where `ADCTask` is in its look at the
registers.  Each register read of `ADCTask` is a step, since the DMA and the ISRs
run between them; the rest of `ADCTask` is one step, since nothing in the super
loop runs then and the ISRs do not touch what it uses.  `taken`, `done`, `tPoll` are
history.  Timing assumptions are explicit: an ISR is served within half a
block, a look at the registers takes less than half a block (`PollLag`), and the
super loop is never away for more than `MaxStall` samples beyond the backlog the
assertion allows.  A ring is 4 blocks of 4 samples in the main run: the smallest
where the ISR addresses wrap, both channels are used more than once per lap, and
the voltage ring (2 raw rings) wraps within `MaxTaken` = 40 samples.

### SdTarget

`trg` is `logIParam.adcTrg`, `fp` the LOGGING DFILE with FatFs' sticky error,
`usage` its entry of `fileTask`, `disk` what is in each file, `holder` a file
another client has in `fileTask`.  Each case of the `switch` is an action; a case
whose file system call may fail has the failing branch, bounded by `MaxErr`.
Conversion and stop interleave with the passes.  The model begins when `DeferredLogRun`
has written the first header (`FirstHeader`: normal, no samples); `header.last` is history and
tells it from the closing one, which a reader of the card cannot.  `FreeSizes` are the answers to
the free space question.  The runs convert three voltage rings over several files.
The run has a limit; without one
(a negative `CsMax`) the same properties were checked, 900,266 states.

### FatThread

`fsFunc`, `curVol`, `fYielding` and `rgParam` are those of `ExFatFunc`; a client is a
task with one request at a time, called in the order of the loop (`turn`).  A
transfer is split in pieces; `bw` is what the task was told, `work` what the
thread moved for it; `room` of a request is what the file or the disk has for it.  A task
whose request is done comes back with another, without a bound.  Clients and requests come from
`MCFatThread`: among them writes that meet a full disk and a read past the end of its
file, which never ends (`PastTheEnd`) and which the others must live beside.

### DeferredQueue

`taskInfo`, `idTaskNext`, `idTaskCur` as in the code; a task that is called and
not done sets `begun`.  `WaitFor` is the loop of `GetWaitTime`.

### LogControl

`log` is `logIParam` as far as control goes, `cur` the `curState` of
`DeferredLogRun`, `usage` three entries of `fileTask` by who has them, `dirBy` who
opened the directory object, `cmd` the JSON command in progress (a list that fails to open the
directory goes on to close it, a run does not; one at a time:
`oslex.fLocked`), `tasks` the deferred queue.  A pass of `DeferredLogRun` ends as in
the code: the error test, then the clean up when the log is no longer pending
(`Pass`, `EndPass`, `Cleanup`).  What the environment may do in a behaviour is chosen
in `Init` and kept in `events`, one of `EventSets`; a property names the events it is
not promised under, each of which breaks it (section 3).  `MCLogControl!Events` has the
usual events, those with counted logs, those with files that appear, and all but a
run before the last one's task is done, with and without counted logs.

### Boot

`main`, `flashState`, `swap`, `nextState`, `auto` and `cal` are the state variables of
the tasks; `calVol` is the CALIBRATING entry of `fileTask` and `calOpen` its file.
One action is one call of a task; the loop (`turn`) passes over tasks with nothing
to do.  `CalCall` is one call of `ReadCalibrationData` or `SaveCalibrationData` with
the value it returns, used by all of its callers, because they share its statics.
The file system thread is reduced to the call it is in (`thread`), as
`FatThread!ThreadWanted` allows: a call on the card may yield, a call on the
flash yields only when it writes.  The environment pulls and inserts cards
(`card`, `mounted`: "stale" is a mounted volume whose card is gone) and lets the two
timers run out.  `PullWhileUsed` and `Bounce` name what the passing run leaves
out.  The reference measurements, `WiFiInit` and `WiFiAutoConnect` take any number of
passes with any outcome.

### CloudTarget

`trg` is `logIParam.adcTrg`, `wire` what has been written of a post, `reply` what the
server made of it and `server` what it has: the last two tell a lost answer from a
lost post.  Each case of the `switch` is an action, with its failing branch; the
connection may be refused, break at any write, or time out after the server took the
post.  The body is a sequence of deltas, one per scan, and its length a number of them.
Two facts of the set-up are assumed: at most one scan a second is taken for the
cloud (`Parse.cpp:4266-4282`), so the ring does not lap a post that is being written,
and the post buffer holds `CsPost` samples, less than the ring.

### JsonStreams

`turn` follows the loop: one HTTP client, the serial stream, the POST stream, the
prints.  `slots` are `rgClient` with the states of `ProcessClient` and of the POST page,
`post` the `JSONPost` stream with its mutex and the three variables by which page and
stream hand over to each other, `io` the states of `ProcessJSON`, `lex` the lexer's
input and output, `locked` is `fLocked`.  A command is a few numbered pieces, and the
lexer is told apart only whose pieces it has and in which order.  `Mishaps` names what
goes beyond what the code copes with; the run has none of them, and each breaks a
property (section 3): "give up" only `Served`, the others also what is proved.  Without them clients may still come in any order, send in any
pieces, send a POST without a body, go away or fall silent between commands.

### BinaryData

One request at a time.  `msg` is what the client sends: counts, JSON and data in
chunks, which `Listen` cuts in every way; `Receive` brings it in pieces.  `os`, `fn`,
`idata`, `odata` are `oslex` and its tables, `usage` and `open` the WRITING and READING
entries of `fileTask`, `got` and `sent` what files and client have got.  Each state of
`StreamOS`, of the Fn handlers and of the three movers is an action.  While a request
goes on, samples are converted and the voltage ring moves, as far as `MaxTotal`: it does not
wait for the client.  `FnLogRead` leaves an eighth of the ring for that; `log.asked` is history and
`Late` says that the log has gone on by more.  `stuck` is a file that cannot be closed because
its card is gone: `WriteFile` then tries for ever.

### Fifo245

The ring with its two ends (`iRdEnd` runs on past its end, as in the code), the DMA
channel (`chen`, `dptr`, `irq`) and `pmdin`, the byte the chip was read ahead.  `Move` is
one byte moved by the DMA, at any time; `Stops`, `Finish` and `Begin` are the parts of
`PeriodicTask`.  `taken` counts the bytes read or purged, `got` are those read:
`ByteFifo` says only that a reader takes or purges what waits, in order.

### WiFi

`WifiLink` has the calls of the radio as operators on a record; `WiFi` makes them from the
deferred task (`con`, `scn` are the statics of `WiFiConnect` and `WiFiScan`) and from
`ProcessServer` (`srv`), in the order of the loop (`turn`), then lets the chip answer (`Chip`),
then has a pass of a JSON command.  A parameter set holds its network, the kind of security,
what its key was made for and its passphrase; a file holds what `Saved` keeps of it, under
one of two names per network (`.WF0`, `.WF1`).  `cmd` is a save, load or delete and
where it is.  Three histories name what the properties are not promised for: `alone`
(the connection was begun with the server off and the radio idle), `careless` (the
client changed a set while it was being connected, or set one without a passphrase over
one that has one) and `same` of a command (no task changed a set meanwhile, and no error
of `fsexists` was taken for a file that is not there); `sure` of a set or file says that
the first two held when it was made.
It is assumed that nobody else gives the file table a path during a command
(section 3, the last table), that `DEIPcK::end` succeeds and that the volume named by the
command is there.  A load from the empty file that a save left when it could not write waits for ever in
`fsread` (`LoadsNothing`).  WEP, the automatic connection at boot and the commands by which a
client shuts the server down are left out.

## 3. Runs

Passing runs:

| Run | Shows | Bounds |
|---|---|---|
| `adc_ring` | the stream of samples is lossless and in order, the rings stay in step, a counted log ends exactly at its count and what was seen is converted after any stop, under every interleaving of DMA, ISRs, register reads, stops and restarts | 2 channels, count 34 of 40 samples: two laps of the raw ring, one of the voltage ring |
| `sd_target` | batches lie in the ring, files abut, no assertion fails except for a file that cannot be opened or closed, a header that says normal is complete (or is the first one, when the closing one could not be written), the target gets back to Idle, with every kind of fault, a full card and a name in use | count 10 of 12 samples, ring of 4 (three laps), 2 errors; 293,814 states |
| `fat_thread` | results go to their owner and all are served, when no two tasks use the same function on the same volume, beside a full disk and a read past the end of its file; that read is not served | 3 clients with any number of requests; 4,871 states |
| `deferred_queue` | the ring is a queue with one entry to spare; the waits add up | ring of 4, 3 tasks |
| `log_control` | logs of all kinds: a stop wins, what a run locks it gives back, pending and ending logs settle, no assertion fails | 5 sets of events, 2 tasks, 1 error, 2 files; 241,582 states |
| `boot` | the boot ends; its calibration is read from flash only and by nobody else meanwhile; a card that stays is mounted | 2 card moves, 1 command, 1 piece per file |
| `cloud_target` | what the server has is the log's first scans, each once and in order, padded at most after the last, and no less than the logger counts; the body is as long as its header says; the ASSERTs hold; a normal end is complete; a log that is stopped ends | ring of 4, posts of 3, 6 samples, bursts of 2 |
| `json_streams` | one command in the lexer at a time, whole; each answer to its sender; everybody is served and lock and mutex come back | 2 clients, 2 connections, a serial command, a print, any 2 of them begun; 2 pieces; 201,693 states |
| `binary_data` | every request is answered and leaves nothing open or locked; files get their bytes and answers theirs, whatever the chunks and pieces; the samples of a log are those promised until it has gone on by an eighth of the ring | 8 requests of 1 or 2 commands, 3 byte buffers, files of 4, ring of 8, up to 3 samples more than fit; 72,685 states |
| `fifo245` | the port is a FIFO, the ring has room, all but a last single byte is taken | ring of 3, 6 bytes, another transfer; 9,416 states |
| `wifi` | a set made active by a connection is that of the network of the link, a file saved from it opens the network it is named for, a command does to the files what it answers, all tasks and commands end but for a load from an empty file | 2 networks (one open), right and wrong passphrase, a file from earlier, 2 tasks, 4 commands, 1 mishap; 488,869 states |

The bounds are the smallest at which every wrap, split and hand-over happens more than
once.  `cloud_target` was also checked with `Slow = TRUE`, and with two channels, a ring
of 8, posts of 7 and 12 samples; the safety properties of `boot` with calibration
files that may be missing from the card (1.0 million states); those of `wifi` with 5
commands (4.5 million states), its invariants also with 2 mishaps (11 million states).

Some invariants are stated in a module and in no run, because another property or
a theorem says more: `TypeOK` of each module, `AdcRing!Contiguous` and
`NothingInvented` (theorems `ChannelsFollow`, `NoneInvented`),
`LogControl!KeepsFiles` (`FilesKept`), `DeferredQueue!NoneLost` (`NoTaskLost`), `FatThread!ThreadWanted` and `NotTooMuch`
(theorems), `Boot!CalibrationHeld` and `RamLogRuns`.  They were checked with the
bounds of the runs.  `SdTarget!OverwriteIsReported`, `ReasonOnCard` and `BinaryData!SamplesKept`
are what the code's comments promise and the code does not do (below).

One run is a violation, a disagreement between the code and one of its own comments
(details under "findings" in `PROJECT.json`):

| Run | Disagreement |
|---|---|
| `boot_saved_log` | a log saved for the card is not started at boot, because the mount is still under way |

`CHECK_DEADLOCK FALSE` is given where the model stops at its bound on samples, or
at a failed assertion.

### Other disagreements seen with TLC

No run is kept for these; the settings that show them:

| Model and setting | What TLC finds |
|---|---|
| `AdcRing`, `trap # "timer on"` as an invariant | a log that reached its count leaves the sample timer on (`ADC.cpp:1361`), and the next run fails the assertion after "we should not be running" (`ADC.cpp:815`) |
| `AdcRing`, `NCh = 4`, `CActiveCh = 3`, `AddressesInRange` | with unused channels inside the scan the two rings do not wrap together, and the assertion after "this only works because" fails (`ADC.cpp:1208-1211`) |
| `SdTarget`, `CSVBUFF = 4`, `CsFile = 20`, `FreeSizes = {99}`, `OverwriteIsReported` | samples that arrive while a batch is written overwrite it unnoticed (`ADCTargets.cpp:49`) |
| `SdTarget`, `CsMax = 0`, `Finishes` | a log of no samples (`Parse.cpp:4465` lets it through) is unlimited for `ADCTask` and over for `ADCSDTask`: at the end of its file it writes nothing for ever (`ADCTargets.cpp:99`) |
| `MCFatThread`, `Requests <- Shared`, `OwnWork` | two tasks in the same function on the same volume get each other's results (`DFATFS.cpp:245`) |
| `AdcRing`, `NCh = 4`, `CActiveCh = 3`, `CsMax = 9`, `CountReached` | the last pass divides the count of logged samples by the channels scanned (`ADC.cpp:1351`) and stops short |
| `SdTarget`, `trap = "none"` as an invariant | a roll-over file that cannot be opened or closed ends in an assertion (`ADCTargets.cpp:210`, `:146`) |
| `DeferredQueue`, `MaxQueued = cMaxTask`, `NoneLost` | a full ring looks empty (`DeferredTasks.cpp:33` does not check) |
| `SdTarget`, `ReasonOnCard` | after a write to the first file failed the closing header fails too, and the card keeps the one from before the log ran: "normal", no samples (`ADC.cpp:1023`), although the target ended with an error (`OpenLogger.h:379` has reasons for that) |
| `LogControl`, event "run early", `trap = "none"` | stopped while it is set up and run again, the deferred run asserts (`Parse.cpp:3098`) |
| `LogControl`, event "create", `spare => cur # "FILEdelete"` | a file made after the check is deleted although files were to be kept (`ADC.cpp:932`) |
| `LogControl`, event "delete", `WaitEnds` | a run waits for a usage entry whose holder is queued behind it (`ADC.cpp:955`) |
| `MCLogControl`, `Faults <- RunStates`, `NoAssert` | a log file that cannot be closed is given back while it is open, and `ClearUsage` asserts (`ADC.cpp:1124`) |
| `LogControl`, event "count", then a run, `trap = "none"` | a counted log that ended leaves the timer on (`ADC.cpp:1361`) |
| `LogControl`, `cmd.at = "FILEclosedir" => dirBy = usage.DIRECTORY` | a list that could not open the directory closes it (`Parse.cpp:7834`, `:7791`); the run command takes care not to (`Parse.cpp:3143`: "we don't want to close the directory as it didn't open") |
| `LogControl`, events "stop last" and "stop running", `stopped => log.state # "Running"` | the last pass of the deferred run sets Running without looking: a stop since the pass before is lost (`ADC.cpp:1067`) |
| `MCFatThread`, `Served` without its exception | `fsread` waits for ever at the end of a file (`DFATFS.cpp:327`) |
| `Fifo245`, `Delivered` without its exception | a single byte stays in the chip until another follows (`FIFO245.cpp:173`) |
| `Boot`, `BootEnds` without its exceptions | three hangs: a calibration file cut short, a saved log to the cloud without a link (`LogOnBoot.cpp:97`), a card pulled while it settles (`File.cpp:363`) |
| `Boot`, `PullWhileUsed = TRUE`, `NoAssert` | the card is pulled during a calibration command, the close fails, `ClearUsage` asserts (`File.cpp:117`, `:228`) |
| `Boot`, `CalPieces = 1`, `MaxCmds = 7`, `CmdVols = {FLASH}`, `NoAssert` | saves wait in the queue and share one variable for their volume: a read of the card by the hot swap task (`File.cpp:409`) turns a flash save that waits into one on the card, which may be gone; its close fails and `ClearUsage` asserts.  It takes 5 saves, and a flash they fail on |
| `Boot`, `Bounce = TRUE`, `InsertedIsMounted` | a card changed between two passes, or while the boot still waits, is never mounted: the old volume stays |
| `Boot`, "a read by the hot swap task does not replace a calibration" | a card mounted before the flash was read has its calibration loaded over that of the flash (`File.cpp:409` decides too early) |
| `Boot`, "a load command reads the volume it names" | while the hot swap task reads the card, a command for the flash gets that read and its result (`File.cpp:150`) |
| `SdTarget`, `NormalIsComplete` without its exception | a full card ends the target and leaves its stop reason normal, and the log Running |
| `JsonStreams`, mishap "drop", `WholeCommands`, `AnswersGoHome`, `Served` | a client that goes away in the middle of its command leaves half of it in the lexer, and the next client's command is taken for the rest (`HTMLPostCmd.cpp:82-84`) |
| `JsonStreams`, mishap "give up", `Served` | a client that goes away while it waits for the mutex makes the page assert in JSONLEX (`HTMLPostCmd.cpp:189`) |
| `JsonStreams`, mishap "headless", `OneCommand`, `WholeCommands`, `AnswersGoHome`, `Served` | a POST without a length resets the lexer while another stream uses it (`HTMLPostCmd.cpp:272`) |
| `JsonStreams`, mishap "shutdown", `Served`; with one slot, 3 pieces and `MaxBegun = 3` also `OneCommand`, `AnswersGoHome` | the server shuts down during a POST and its mutex is not given back; the slot it points to is wiped for the next client, and what `cbAvailable` still promises is read from before its buffer (`HTMLPostCmd.cpp:339`) |
| `JsonStreams`, mishap "early", `WholeCommands`, `AnswersGoHome`, `Served` | an error before the end of a POST leaves the rest of it to be taken for a command |
| `JsonStreams`, a serial command that is never finished, `Served` | the lock has no timeout: nobody else is served |
| `BinaryData`, fault "syntax" or "drop", or `Requests <- ReadAndWrite` or `WriteWithout`, `GivenBack` | a request that ends before its binary was moved keeps its entry and open file: every later read or write gets FR_LOCKED |
| `BinaryData`, fault "write", `BytesArrive`, `RequestServed` | a write that fails asserts (`LexJSON.cpp:1006`) |
| `BinaryData`, fault "close", `RequestServed` | the close of a file that was written is tried again for ever when its card is gone (`stuck`); a file that was read has its entry cleared while it is open, and `ClearUsage` asserts (`File.cpp:541`, `:643`) |
| `BinaryData`, fault "read", `AnswerWhole` | a read that fails ends the body short of the length sent ahead of it |
| `MCBinaryData`, `Requests <- LogRequests`, `SamplesKept` | a client that is slow to take the answer of a log read gets later samples in place of those promised: nothing holds the log to the eighth of the ring that is left for it (`Parse.cpp:3844`, `ADC.cpp:1145`) |
| `BinaryData`, fault "finishing", `AnswerWhole` | a log that is ending still fills the ring, and a log read treats it as one that has ended (`Parse.cpp:3842`) |
| `BinaryData`, `Requests <- ReadThenLog`, `AnswerWhole` | a log read tells offset 0 for its binary whatever is before it (`Parse.cpp:3937`) |
| `BinaryData`, `Room = 1` or `Requests <- WriteNothing`, `RequestServed` | a write that can move nothing is called for ever |
| `WiFi`, `MadeActive` without `alone`, 5 commands and 2 mishaps, `SetsTrue` | the server begins to reconnect to the active network while a task connects the working one: the task takes that link for its own and makes the working set active (`ProcessServer.cpp:280`) |
| `WiFi`, `MadeActive` without `careless`, `SetsTrue` | parameters set or loaded while they are being connected are made active without having been tried; a passphrase that was left in the set stays in it, and the next save fails its assertion (`Parse.cpp:1891`) |
| `WiFi`, `DoneAsTold` without `same` | a connection made during a save has its parameters written under the name of the network before (`Parse.cpp:1923`, `:1975`); an error of `fsexists` is taken for a file that is not there, and both names exist after a save |
| `WiFi`, `AllDone` without `LoadsNothing` | a load from the empty file that a failed save left waits for ever in `fsread`, and with it the lexer (`Parse.cpp:2163`, `DFATFS.cpp:327`) |
| `WiFi`, `trap # "open file"` as an invariant | a short write or a failing close takes the file out of the table while it is open, and `ClearUsage` asserts (`Parse.cpp:1977`, `:2034`) |

Seen by reading only, outside of what is modelled: the path a save, load or delete keeps is
a pointer into the one buffer of `MkQualifiedPath` (`Parse.cpp:1895`), so a task that takes
a file between two passes changes which file is looked for and deleted; the second
candidate of the automatic connection is read into the active set and connected with the
working one (`WiFi.cpp:271`, `:291`).

### Fairness

The super loop calls each task on every pass and no task blocks, so each task's
disjunction of steps is weakly fair.  File system calls complete: FatFs and the
drivers time out.  DMA chaining and ISRs are hardware and are weakly fair.  No
fairness is assumed of commands, the button or of conversion while a log is
running.  `FatThread` needs only that the loop goes around.  `Boot` assumes that
the loop goes around, time passes, a busy card answers in the end (strongly fair,
since its caller asks only once per pass; the driver times out) and that the
references, the WiFi module and its connection come to a result.  A card need
not be put back.  `JsonStreams` assumes that a sender finishes what it began and that an
unanswered client is timed out; `BinaryData` that the client sends all its request and
reads all its answer; `CloudTarget` that a server which has a post answers it or the
wait for it ends, and that the time between posts passes (beginning a post is strongly
fair: the core timer wraps, so the time comes and goes, but stays much longer than a pass);
`WiFi` that the chip answers what it was asked, the passphrase calculation comes to its end (a
fixed number of rounds), the server's pause is over and file system calls complete (all strongly
fair: they get their chance once per pass of the loop); `Fifo245` that the host sends
all it has and that `EnableIO` is called.

## 4. Proofs

TLAPS checks, for every value of the constants under the named assumptions:

* `AdcRingProofs`, from `AdcRingAssumption` (the `#if` checks on the buffer sizes).
  For every scan: `AcquisitionTypeOK`.  `TypeOK` is not inductive alone, because the
  address an ISR computes stays on the ring only if the other channel's block is
  aligned: `IInv` adds `Blocks` (channel 1 has an even block, channel 2 an odd one),
  `WithinCount` (so that the last pass takes a natural number of groups) and that
  the ISR assertions hold.  `PassFacts` is the arithmetic of one conversion pass:
  whole groups, not more than the backlog, not past the end of the ring.  Under
  `NoGaps` (every scanned channel is logged) `StepInv` adds that both ends are where
  the counts say and that the voltage ring ends in the same place of its first or
  second half as the raw ring; it gives `RingsStayInStep` and
  `AddressesStayInRange`.  `NoGaps` is needed: with `NCh = 4`,
  `CActiveCh = 3` TLC has a counterexample (section 3).
  `CountIsExact` needs also that the limit is a whole number of scans
  (`WholeLimit`), with the invariant that the count always is.
  The refinement `LogIsStream`, with `ChannelsFollow` and `NoneInvented`, is again for every
  scan.  Its invariant `StreamInv` adds to `IInv` three parts: `HwInv` (which block
  and which of its samples is next, and what that leaves in the registers, flags and
  interrupts of both channels), `PollInv` (what a look at the registers has read so far is where the
  hardware was at some moment during the look, or is a finished block that its flag gives
  away) and `SeenInv` (`padcRawEnd` is never past the hardware, and at most `MaxStall` samples
  behind it while a log runs).  The argument is that two positions less than a ring apart
  which have the same address are the same (`Unwrapped`).  It rests on the
  timing assumptions of section 2 (`PollLag` less than half a block, `MaxStall` no
  more than the ring holds beyond the backlog of the assertion).
* `ServicesProofs`, three components in one module, each small and with no state in common:
  * `DeferredQueue`, when fewer tasks are queued than the ring has entries
    (`MaxQueued < cMaxTask`): `RingTypeOK`, `NoTaskLost`, the refinement `RingIsQueue` and
    `WaitsAddUp`.  The invariant is `TypeOK /\ NoneLost`; the work is in the ring arithmetic
    (`Wrap`, `SuccWraps`) that turns moving an index into `Append` and `Tail` of the abstract
    sequence of waiting tasks.  What `GetWaitTime` adds up is a recursive function over the
    queue.  The lemmas about it (`WaitExists`, `WaitForIs`) are by induction, for want of an
    induction rule as a least counterexample: the set of places they fail for has a least
    element (`LeastOf`), and it cannot be one.
  * `FatThread`, for any clients and requests when no two tasks use the same
    function on the same volume (`KeptApart`): `ThreadTypeOK`, `ResultsGoHome`,
    `ThreadIsWanted`, `TransferFits`.  The invariant adds to `TypeOK` that the thread
    yields exactly when a function is recorded, that the recorded call is still
    that of a task which asks for it (`CallStands`), and what that task was told so
    far.  The requests `Shared` of `MCFatThread` show that `KeptApart` is needed.
  * `Fifo245`, from `Fifo245Assumption` alone (a ring and an input buffer of any size):
    `RoomIsHeld` and the refinement `PortIsFifo`.  `RoomHeld` is not inductive alone: that
    a byte is put where nothing unread is needs to know how far the DMA is (`Progress`)
    and that the ring, the moved bytes and `PMDIN` hold the bytes in order
    (`Contents`).  `Places` is the arithmetic of an end that runs past the ring.  There are
    lemmas per action (`MoveInv`, `FinishInv`, `BeginInv`), and `ReaderTakes` says what the four
    ways to read have in common.

* `LogControlProofs`, for any log parameters, any queue with room for a task, any number of old
  files, errors and events: `StopHolds` says that a stopped log does not run, unless the stop falls into the
  last pass of the set up ("stop last"), where the code loses it.  `FilesKept` is for runs that are
  asked for after the last one's task has left the queue (`Orderly`), and when no file of the log
  appears after the command has looked ("create"); `EntriesHeld` and `AssertsHold` are for
  `Orderly` runs and a log file that can be closed (`"FILEclose" \notin Faults`): without
  any of these TLC has a counterexample (section 3).  The properties say where the deferred run is
  and what it holds; what makes them inductive is what else goes on then: `QueueInv`
  (one `FileLog` in the queue, at its head while the deferred run is under way, and none while a run
  command is), `KeepInv` (a run command that found no files leaves none to be found by its task),
  `EntryInv` (the entries of a command in progress and of a queued delete) and `TimerInv`
  (the timer is on for a running log only, and then no run is queued).  A pass is one
  operator, so `EndPassType` and `EndPassUses` say once what the end of a pass does to any record of a
  run, and the actions only have to give it one.
* `SdTargetProofs`, from `SdTargetAssumption` alone (rings, batches, files and counts of any size,
  any answers about free space, every call failing): `TypeCorrect`, `AssertsHold`,
  `FilesFollow`, `BatchesFit`, `NormalHolds` and the refinement `CardIsTrueLog`.  The
  invariant is `Shape` (which state is left for which: the two nested state machines
  of the code), `CardInv` (the file made last ends with the last sample stored, and the
  usage entry names it), `RangeInv` (what has been processed lies within the file and within what was
  converted), `BatchInRing`, `HeaderInv` (why a log ends, what the header
  says of it, and that a log which is over with its first header ended with an error) and `FileInv`
  (file, entry and state agree until a file cannot be opened or closed).  `BatchIs` is the arithmetic of a batch: it ends with the file, the
  ring or the samples, whichever is first.  For the refinement `OnCardInv` says that the
  end of the last file is the number of samples stored.

* `CloudTargetProofs`, from `CloudTargetAssumption` alone (a ring, posts and bursts of any size,
  any number of channels, every connection and write failing, every answer late, lost or negative):
  `TypeCorrect`, `EachPostedOnce`, `NormalHolds`, `PostsSound` (`LengthHolds`, `AssertsHold`).  What makes
  them inductive is the state of a post across the states that only write or wait (`Phase`,
  `Sent`): `BatchInv` (whole scans that have been converted, up to the end of the ring),
  `BuildInv` (the deltas that are out are as many as `csVSaved` says, and the length in the
  header counts a padding exactly when one will be due), `PostedInv` (the body is whole),
  `WireInv` (each delta is the scan it should be) and `HeldInv` (what the server has is what is
  counted, or that and the post it took before its answer was read; with a padding nothing is left
  to post).  `NotOver` says why the padding is decided alike both times: a finish time is
  taken only when nothing more can be converted.  `BatchIs` and `LatestIs` are the
  arithmetic of the ring, `Whole` that of whole scans.

* `JsonStreamsProofs`, for any clients, slots, pieces and prints, under `Handled`: no mishap but
  "give up".  Every other one breaks what is proved, with a counterexample of TLC in section 3.
  `OneAtATime` and `AnswersAreOwn` (with `TypeCorrect`) rest on one invariant, `Inv`.  Page and
  stream of a POST have no lock between them: each sets `lexState`, `nextState` and `nextCMD` and looks
  at the other's on its next turn.  `TalkInv` says what these can be while a page talks to the
  stream: it has asked for input, waits for it, or is writing (`Asked`, `Waits`, `Writes`), or another
  client that closed has put the stream back and the page can only stop (`Broken`).  While the
  exchange is whole two counts hold in every state: the pieces taken and those at hand are the ones read off
  the connection (`AllThere`), and the writes done, under way and to come are three (`AllToCome`), so
  a command is never cut nor an answer written twice.  `MutexInv` says which page has the mutex, `BufferInv`
  what of the connection is in the buffer, `HeaderInv` and `BodyInv` where a page can be, `InTurn` that
  the lexer has one sender's pieces from the first on, `LockInv` that the lock is held as long
  as one of the streams or a debug print runs, and never two of them, and `LoneInv` that a POST without a length has the server for itself.
  `PageFrame` says what a step of one page leaves alone, and a few lemmas about it what that keeps; after
  them each action is one lemma (`ReadInputInv`, `JsonLexInv`, `FinishInv`, `ShutdownInv` and so on).

* `FileUseProofs`, on `Boot`, for any number of card moves, calibration pieces and commands: `BootTypeOK`,
  `BootReadsFlash`, `LoadOrSave`, and `FilesClosed` under two hypotheses.  The first three rest on
  `BInv`: `TypeOK`, `EntryHeld` (the CALIBRATING entry and its file agree with where the two functions are that
  share it, and only the one that is under way has it) and `BootOrder` (who can be at it in each
  state of the boot).  `CalEffect` says what one call of either function may do to any of its
  variables; the callers (`main`, the hot swap task, the deferred save, the load command) need only
  that.  `FilesClosed` is that `ClearUsage` does not assert.  It needs that a card stays in its slot while
  it is used and does not come back unseen (`Careful`), and that at most one save is queued: TLC has
  a counterexample without either (section 3).  Its invariant `CardInv` says what is known of a card
  somebody is at (`CardSeen`, `CardKept`) and that a queued save is alone (`SaveAlone`).
* `FileUseProofs`, on `BinaryData`, for any requests, file, ring and sizes of buffers: `AnswersWhole`,
  when no read of the card fails, no log is ending while it is read, and a log is read before any
  file is (`LogFirst`).  Section 3 has the counterexample to each.  How slow the client is does not
  matter for lengths, places and bytes of files.  Refused files, closes and writes that
  fail, bad syntax and a client that goes are allowed.  The invariant `AnswerInv` says what
  keeps an answer whole from the command that asks for it to the last byte: `Shape` (there
  are two pieces at most, a log and a read, each with its offset; a file that is read lies within
  what was asked for, `Reading`), `Kept` (the samples promised of a log stay in the ring until it is
  `Late`: the log read left an eighth of it, `LogRange`), `Asking` (nothing is sent
  before all commands are done, and files to be read stay open until then) and `Sending`: what is
  sent is the first part of what was promised, short by a piece that is on its way (`Pending`), the length
  goes ahead (`Counted`), and the pieces have their turn one by one (`Turned`).  `SampleIs` is
  the arithmetic of the ring: the place of a sample holds that sample as long as it is one of the latest;
  after that it holds a later one (`LatestIs`), which the theorem allows once the log is late, and only then.
  What the recursive functions `Total` and `AnswerWhole`'s `all` are is proved for the two
  pieces there can be (`TotalOfTwo`, `JoinedOfTwo`).
* `FileUseProofs`, on what a request of `BinaryData` does to the files: `FilesGivenBack` (`GivenBack`)
  and `BytesGiven` (`BytesArrive`), for any number of commands and bytes, any way to cut them into
  chunks and into pieces of the connection, and buffers of any size.  Both need requests that can be answered
  (`Answerable`: no bytes behind a read, and all of its own behind a write), that the JSON parses and that the
  client stays; section 3 has the counterexamples.  Reads, writes and closes may fail for the first.
  The second needs writes and closes that succeed, since the code asserts after a failed write, and at
  least one command, since an answer without any is an error of its own.  What a client sends is the
  recursive function `InChunks`; `MessagesFramed` says once, by a least counterexample, what the proofs need of it
  (`Framed`: a count is followed by as many bytes, in order, and then by a count, the last one 0).
  `RequestInv` then says where the stream is: at which byte of the message, how much of its
  chunk is left and that what is left is what should come (`InMessage`, `InChunk`, `AtCount`); that a
  command in progress has its entry, and its file open (`InTable`); where the bytes are with respect to those that
  are written (`Before`, `Amid`, `After`, in `WriteAt`: the entry is held until the last of them has been taken, and
  given back after it); and that a file being read is one of those still to be sent (`ReadAt`).  It is not enough
  to know the state of the machine: after the count of a chunk it goes back to the one it came from
  (`nextChunk`), so the invariant is about either (`Stage`).  `BytesInv` adds to it that the file has been given
  exactly its bytes up to the place of the stream (`GotSoFar`).  TLC checked both invariants as such
  before they were proved.
* `WiFiProofs`, from `WiFiAssumption` alone (any networks, parameters, number of commands and
  mishaps): `WiFiTypes`, `NetworksTrue`, `CommandsDone`.  `RadioInv` is about the three that use the
  radio.  The link a task has taken is the one it asked for because the radio has one at a
  time: `LinkOK` (without an adaptor no link can be coming; with an IP stack begun the radio is
  connected), `ServerBegins`, `InTurn`, `ItsOwn` (a link that comes up during `WiFiConnect` is that of the parameters it was
  begun with, if it was begun alone), `Phrases` and `ActiveSure`, which is stronger than the
  `ActiveTrue` it implies: a set made active keeps what it was tried with.  `FilesInv` is about the
  files: `Stages` (what a save, load or delete has found and done in each of its states),
  `FilesTrue` and `Progress` (for each command, what is still to be done of what it will say was done).

Liveness under fairness stays with TLC: the prover has no rule for it.  Every invariant that a
passing run checks is now stated by a theorem, some under the hypotheses named with it.

## 5. Plan

1. Done: `AdcRing`/`SampleStream`, `SdTarget`/`LogStore`, `FatThread`,
   `DeferredQueue`/`TaskQueue`, `LogControl`, `Boot`, `CloudTarget`, `JsonStreams`, `BinaryData`,
   `Fifo245`/`ByteFifo`, `WiFi`/`WifiLink`.
2. Done: every invariant and refinement of a passing run as a theorem.  Next proofs: the hypotheses
   of `AnswersWhole`, `FilesGivenBack` and `BytesGiven` one by one, with what the code would have to
   do so that each could be dropped.
3. Next modules: FnLogSetParm, the automatic connection at boot, the SD command protocol of DSDVOL, the
   calibration of the instruments on top of `DeferredQueue`, the timer arithmetic as pure
   operators with reference definitions.

### Not modelled, and why

* Vendored libraries (FatFs, WINC1500 behind its adaptor, the stack of DEIPcK), three fifths of the lines
  in the repository: they are the environment, with the outcomes their callers handle.
* SD and flash block drivers: the thread yields in them; their protocol is a
  component of its own that nothing here depends on but for its outcome.
* FnLogSetParm and the other parameter commands: long sequences of range checks over
  one request with no concurrency; what they let the tasks assume is named above.
* `WiFiInit` and `WiFiAutoConnect`: only their outcome, in `Boot`; scan results, the list and
  read commands of the networks and the update of the WiFi module: output, and a driver.
* The token parser and the Fn tables: a fixed automaton over characters.
* The waveform generator, DC outputs, LEDs, statistics: register programming and
  output.
* Number formatting, the polynomials of a conversion, calibration measurements:
  arithmetic on values that no property here tells apart.
* Register and DDR set up, `ADCWorking.cpp` (not in the build), wording of responses.
