# g-track: TLA+ models, model checking and proofs

g-track is the firmware of a GPS tracker for motorcycles: ChibiOS threads on an
STM32 that talk to a SIM8xx modem, an SD card and a USB debug shell. This
directory models the firmware's own code (`src/software/source`), checks the
models with TLC and proves theorems about them with TLAPS. The kernel, the HAL,
FatFs and the modem appear as far as the firmware's threads can see them.

## 1. Inventory

| Component | Code | State | Operations | Interacts with |
|---|---|---|---|---|
| SIM8xx calls | `sim8xx/sim8xx.c` | mutex `lock`, semaphore `sync`, thread references `writer` and `reader`, `rxbuf` under `rxlock` | `sim8xxExecute`, `sim8xxIsConnected`, `sim8xxTogglePower` | reader thread (resume, suspend), modem (serial line, power key) |
| SIM8xx reader | `sim8xx/sim8xxReaderThread.c` | `rxbuf`, guard timer, event listener | the thread's loop, `timer_cb` | serial driver (event, 16-byte queue), calls, SD card (log) |
| Board monitor | `BoardMonitorThread.c`, `BoardEvents.c` | one debounce counter per line | `timerEventHandler` every 10 ms | broadcasts to the manager, posts to the system mailbox |
| Peripheral manager | `PeripheralManagerThread.c` | pending events | five event handlers | SD card, debug shell |
| SD card | `Sdcard.c` | `fsReady`, `MMCD1`, `SDC_FS` | mount, unmount, the shell command `tree` | manager, shell, MMC driver, FatFs |
| Debug shell | `DebugShell.c`, `config/usbcfg.c` | `shelltp`, `SDU1` | init, start, stop, terminated | manager, shell thread, USB interrupts |
| System thread | `SystemThread.c` | state (INIT, RIDING, PARKING, TRACKING), mailbox of 10 | one handler per state, `connectModem`, `disconnectModem` | board monitor (mailbox), modem, GPS reader |
| GPS reader | `GpsReaderThread.c` | static `cmd`, `error`, `gpsSem`, timer | the thread's loop, `GpsReaderStart`, `GpsReaderStop` | modem, dashboard, SD card (log) |
| Dashboard | `Dashboard.c` | position under a mutex | lock, unlock, get | GPS reader |
| AT parsers | `sim8xx/at/commands/*` | none | build requests, parse `+CGNSINF` | GPS reader, system thread |
| main | `main.c` | none | start-up order, heartbeat LED | all |

Scheduling. All threads run at NORMALPRIO, except the modem's reader and the
shell at NORMALPRIO + 1. ChibiOS is preemptive, and threads of equal priority
alternate whenever one of them blocks. Kernel assertions are compiled out
(`config/chconf.h`).

Hard behaviour, and what correct means:

* *SIM8xx driver.* A command is sent before the caller suspends itself; a reply
  may be complete before that, may come after the timeout, may never come, and
  lines come unasked. Correct: no call hangs, the token that serialises commands
  is never lost, an answered caller sees the complete response, and the status a
  call returns belongs to its command.
* *Board monitor.* Contacts bounce, ticks merge, the mailbox may be full.
  Correct: a report follows a full debounce time, a settled line is reported.
* *Peripherals.* Events arrive while a handler runs and are then served by
  number; cards fail in the middle of mounting; shell and USB host act on their
  own. Correct: card and shell follow the lines, drivers are started and stopped
  in turn, one shell thread exists.
* *System and GPS threads.* They share `cmd` and `error` without a lock, loop
  until the modem answers, and the modem may go off at any time. Correct: they
  never use the statics together, the loops end when the modem stays on, the
  dashboard holds what `error` says it holds, polling never stops.
* *Text.* Characters are lost to a full input queue, lines come unasked, and
  what a timed-out command left in `rxbuf` precedes the next response. Correct:
  the last line decides the status, and no value slips into another field.
* *Files.* Four threads call FatFs, which is built without locks.

The hazards behind these, each at its line, are listed in `PROJECT.json`.

## 2. Modules

| Module | Models | Used by |
|---|---|---|
| `ModemService` | abstract: what the driver promises its callers | `Sim8xx` (implements it), `GpsTracking` (is built on it) |
| `Sim8xx` | the driver, its reader, guard timer, serial queue, modem | `MCSim8xx`, `Sim8xxProofs` |
| `MCSim8xx` | two callers (the system and the GPS thread) and their symmetry | three runs |
| `Sim8xxProofs` | proofs about `Sim8xx` with any modem | tlapm |
| `TimelyProofs` | extends `Sim8xxProofs`: with a modem that answers in time | tlapm |
| `ServiceProofs` | extends `TimelyProofs`: `Sim8xx` implements `ModemService` | tlapm |
| `StrandedProofs` | extends `TimelyProofs`: with final statuses that come unasked | tlapm |
| `BoardMonitor` | board thread, its timer, the lines, mailbox and pending events | one run |
| `BoardMonitorProofs` | its inductive invariant and theorems | tlapm |
| `GpsTracking` | extends `BoardMonitor` and `ModemService` with the system thread, the GPS thread and the dashboard | one run |
| `GpsTrackingProofs` | extends `BoardMonitorProofs`: proofs about `GpsTracking` | tlapm |
| `AtText` | the status search, the `+CGNSINF` parser and the number conversion on characters | one run |
| `AtTextProofs` | proofs about the status search, the parser and the number conversion | tlapm |
| `Peripherals` | extends `BoardMonitor` with the manager, SD card, shell and USB | five runs |
| `PeripheralsProofs` | extends `BoardMonitorProofs`: proofs about `Peripherals` | tlapm |
| `FileUsers` | extends `Peripherals` with the threads that write logs | one run |

Operators named "Faulty variant" in comments are not used by any specification.
Each stands before the definition it misstates; substituting one must break the
property named in `PROJECT.json`, which shows that the property depends on that
line of the code.

### Sim8xx

`pc[c]` is where a caller is. Each value stands between two statements of
`sim8xxExecute` (and equally of `sim8xxIsConnected`, which has the same steps)
at which another thread or an interrupt can act:

| Action | Code |
|---|---|
| `Call`, `SemWait` | `chMtxLock(&lock)`, `chSemWait(&sync)` |
| `SendRequest`, `SuspendWriter` | `chprintf`, `chThdSuspendTimeoutS(&writer)` |
| `WriterTimeout`, `TimedOut` | kernel timeout; `chSemSignal(&sync)` |
| `LockRx`, `CopyResponse` | `chMtxLock(&rxlock)`; copy, status, unlock |
| `ResumeReader`, `Unlock` | `chThdResumeS(&reader)`, `chMtxUnlock(&lock)` |
| `PowerKeyLow`, `PowerKeyHigh`, `PowerDone` | `sim8xxTogglePower` around its two sleeps |
| `ReaderRegisters` | `chEvtRegister`, after text may have arrived already; part of `Init` |
| `ReaderLock` .. `Drain` | the reader's loop, one action per kernel call |
| `Park` | lines 115-120, one critical section |
| `GuardTimer` | `timer_cb` |
| `ModemSend`, `ModemUrc`, `ModemOff` | external: the modem |

Text is a sequence of chunks. A chunk carries the final status in which it ends
(`INVALID` if none), so that `sim8xxGetStatus(rxbuf)` is the status of the last
chunk: the code, too, looks at the last line only. Of the nine final statuses
the model keeps OK, ERROR and RING: the driver treats the others like these.
`AtText` has the search itself and justifies this for texts with a line break.
`fresh`, `toggled` and `deaf` are history variables for properties; the first two
are kept only where `Timely`, where properties use them. A mutex is the queue of threads that
wait for it, its owner first; at most two threads of different priority meet at
`rxlock`, so that the kernel's order by priority is the order of arrival.

`Timely` chooses the environment. FALSE: every interleaving, replies at any time
or never. TRUE: what the hardware does when nothing goes wrong, that is, the
reader, which has the higher priority, runs before its callers; replies come
while the caller is suspended and within its timeout.

### ModemService, and what it is for

`ModemService` has three variables: how far each caller's call has come
(`phase`), what it was answered (`answer`), whether the modem is on (`powered`).
Calls are served one at a time; a call that was served returns a status, or
`TIMEOUT`, or has toggled the power; nothing else changes the power, except that
the modem may go off. With `Reliable` a status is the caller's own, and a call
times out only on a modem that is off.

`Sim8xx` maps to it with `phase <- ServicePhase(pc[c])` (a caller is served from the
moment it owns `lock` until its answer is stored), `answer <- cmd`,
`powered <- modemOn` and `Reliable <- Timely`. The property `ServiceImplemented`
is the whole abstract specification; both environments are checked. So the
threads above the driver can be modelled over three variables instead of the
driver's twenty:

### GpsTracking

`spc` and `gpc` are where the system thread and the GPS thread are, between two
points at which they block. `connectModem` and `disconnectModem` are
`SystemCall`, `SystemConnected`, `SystemToggled`; `gpsPowerOn` and `gpsPowerOff`
are `SystemCall`, `GpsPowered`, `GpsPowerRetry`; `GpsStartStop` is the rest of
`GpsReaderStart` and `GpsReaderStop`. The thread of GpsReaderThread.c is
`GpsRequest`, `GpsReturned`, `GpsParse`, `GpsSave`, its timer `GpsTimer`. The
shared `cmd` remembers which command was written into it, which was sent and
which the response answers, so that a mix-up of the two threads would show. Of
the four state handlers only that of SYSTEM_INIT does anything; no handler leaves
RIDING.

### AtText

A text is a sequence of characters; words the code does not look into (a field's
value, `+CGNSINF:`) are one character each. `Init` chooses what is in `rxbuf`
before the response: nothing, an echo, an unsolicited line, or any part of an
earlier response whose command timed out. `Receive` appends, `Lose` drops a run
of any length at any place, `Typed` builds every text over a few characters.
`sim8xxGetStatus`, `atCgnsinfParse` and `atAsciiToDouble` are operators,
translated statement by statement; the number conversion is exact
(`num / 10^places`) where the code uses doubles.

### BoardMonitor, Peripherals and FileUsers

One action per handler, split where the code sleeps or waits for the SPI bus:
`MountStart`, `MountConnect`, `MountFs`, `MountAbort` are `sdcardMount`;
`UnmountStart`, `UnmountStop`, `UnmountEnd` are `sdcardUnmount`; `ShellStart`,
`ShellCreate` are `debugShellStart`; `ShellStop` is `debugShellStop`. The board
thread's `TimerEvent` is one action: both checks run without blocking. A driver
that is stopped has a NULL configuration; the code that dereferences it in that
state either halts (`mpc = "fault"`) or goes on. `Prompt` lets lines change only
when the manager has caught up; `CardOK` makes inserted cards mount.
In `FileUsers` a
log writer enters FatFs when a volume is registered and the card is ready;
otherwise `f_open` returns at once.
`debugShellTerminatedHandler` has no action because `TerminationUnheard` shows
that its event is never pending.

## 3. Runs

| Run | Question | Result |
|---|---|---|
| `sim8xx_any` | any modem, two callers, power key: is the token lost (`TokenNotLost`), is a response overwritten (`AnswerIntact`), are the thread references used as the kernel requires (`ReferencesSound`), does text wait unnoticed (`NoLostWakeup`), what does a late registration of the reader do (`DeafForGood`), does every call return (`CallReturns`), is the service implemented (`ServiceImplemented`)? | all hold; a reader that registers late is deaf for good |
| `sim8xx_timely` | timely modem: own status (`FreshAnswer`), timeouts only when it is off (`TimeoutMeansOff`), guard time kept until the first power toggle (`GuardTimeKept`), the reliable service implemented (`ServiceImplemented`) | hold |
| `sim8xx_ring` | timely modem, RING lines, no power toggles: why does a command time out (`TimeoutMeansStranded`), and does the driver recover from it (`StrandedForever`)? | only because the reader was parked for nobody; it does not recover as long as text fits the queue |
| `board_monitor` | `Debounced`, `IgnitionAlternates`, `LineReported` | hold |
| `gps_tracking` | do the threads use `cmd` and `error` together (`StaticsExclusive`), can "off" be the first message (`OnComesFirst`), what is in the dashboard (`PositionMatchesError`), does a lost modem come back (`LostForGood`), do the loops end (`RidesInTheEnd`), does polling go on (`PollsForever`)? | all hold; a lost modem does not come back |
| `at_text` | is the last line the status (`StatusIsLastLine`), can values slip into other fields when characters are lost (`AcceptedInPlace`), is an intact response read completely and not too early (`WholeResponseRead`), are numbers read right (`NumbersExact`)? | hold; signed numbers are never read right |
| `peripherals_prompt` | manager keeps up, good cards: `PeripheralsFollow`, `NoStopWhenStopped`, `RemovalHandled` | hold |
| `peripherals_any` | anything: `InsertionOvertakesRemoval`, `OneShell`, `TerminationUnheard` | hold |
| `peripherals_unheard` | is the manager told that the shell has terminated (`TerminationHeard`)? | violated: `shellInit` drops its listener |
| `peripherals_disconnect` | is `mmcDisconnect` called in a state it allows (`MmcDisconnectAllowed`)? | violated: after a failed `f_mount` |
| `peripherals_restart` | is `mmcStart` called in a state it allows (`MmcStartAllowed`)? | violated: an insertion overtakes a removal |
| `file_users` | is at most one thread inside FatFs (`VolumeExclusive`)? | violated: a log is written while the manager mounts |

`peripherals_any` and the violation runs that can reach the halt of the firmware
turn deadlock checking off, and so does `at_text`, where a text is complete in the
end; all others check it.

Some behaviours are worth a reader's attention. First, *the driver can fall one
command behind.* The reader parks after every final status. If nobody waited for
that status (RING, or a reply after the timeout), the next command's reply stays
in the serial queue until that command has timed out; the reader is then resumed,
reads the old reply and parks again, for nobody. `sim8xx_ring` shows that this
continues, where RING is all that comes unasked, and that it is the only cause of a
timeout with a running modem. A line without a final status that follows a reply in
the queue, such as `+CREG: 1,5`, sets the reader right. So does a longer reply that
exceeds the 16 bytes of the input queue: the truncated text loses its final status
and the reader waits for the next reply instead; short replies such as `OK` to `at`, which
`connectModem` relies on, fit. Second, *every power toggle adds a token to
`sync`* that no command took: `GuardTimeKept` says that toggles are the only
thing that lets a command ignore the guard time. Third, *a byte that arrives
before the reader has registered makes the driver deaf*: the queue is not empty
and raises no event (`DeafForGood`). The reader's priority makes the window
small, since it runs as soon as it is created, right after `sdStart`. Fourth,
*nothing switches a modem on that went off after `connectModem`* (`LostForGood`):
`gpsPowerOn` or the GPS thread retries without end. Fifth, *the parser begins at
the first space*: `AcceptedInPlace` is stated for texts that have none ahead of
the response. Without that condition it fails, for an unsolicited line such as
`+CREG: 1,5` in the same read and for the remains of a response that timed out;
the values then land in the wrong fields and are accepted.

### Bounds

Two callers are all that the firmware has. `MaxChunks` bounds the text in flight
and in `rxbuf`: 3 lets a reply in two parts and an unsolicited line follow each
other in all orders, 5, in `sim8xx_timely`, lets such lines surround a
whole exchange; 6, in `sim8xx_ring`, lets a RING follow a reply that waits in
the queue. That run has `sim8xxExecute` only, since `sim8xxIsConnected` has the
same steps. `MaxSync` bounds the
surplus tokens: 1 or 2 suffice for a command to overtake the guard timer.
`QueueCap` is 1 where truncation matters and 8 in `sim8xx_ring`, where it must
not happen. The bounds are guards of `Call`, `SendRequest`, `ModemUrc` and
`PowerKeyHigh` only, that is, of what the environment may begin; a step that the
code has begun is never cut off. `MaxSem` bounds the tokens that the GPS timer may
accumulate: 2 lets requests follow each other without a pause. In `at_text` one
run of characters of any length is lost at any place (`MaxLost`), and arbitrary
texts have up to 6 characters (`MaxTyped`), enough for `CR LF O K CR LF` and for
a signed number with a fraction. `Debounce` is 3 or 2 instead of 10, enough for a
contact to bounce within a count; `MboxSize` is 4, 2 or 1 instead of 10, so that the
mailbox overflows. Symmetry of the two callers is used in the runs without
temporal properties.

### Fairness

Weak fairness of a thread's steps: the scheduler runs ready threads, and no
thread of the firmware computes without blocking for long. Weak fairness of
`WriterTimeout` and `GuardTimer`: they are virtual timers. Nothing is assumed of
the modem, the lines, the host or the users; in the `Timely` environment alone
the modem sends what it owes. In `gps_tracking` the
steps that complete a call are weakly fair, which is what `CallReturns` shows of
the driver; `RidesInTheEnd` assumes in addition, in its own statement, a modem
that stays on and stops answering ERROR. No run needs strong fairness: a mutex is handed
over in the order of its queue.

## 4. Proofs

All theorems hold for every set of callers, queue size, debounce time, mailbox
size and bound; the assumptions on constants are the `ASSUME`s of the modules
(the reader, the callers and NULL are distinct, bounds are naturals, debounce time and
mailbox size positive). What a theorem assumes beyond that is the environment, and
stands in its statement. TLC checked each inductive invariant before it was
proved, except `LeftInv` (below), whose existential quantifier it cannot
enumerate. Every invariant has one lemma per part, with one step per action that can
disturb it, and one that combines them (`Inductive` and its like).

| Module | Theorems | Environment |
|---|---|---|
| `Sim8xxProofs` | `TypeCorrect`, `TokenSafe`, `AnswerSafe`, `ReferencesSafe`, `WakeupSafe`, `DeafSafe` | any |
| `TimelyProofs` | `FreshSafe`, `TimeoutSafe`, `GuardSafe` | `Timely`, no final status unasked |
| `ServiceProofs` | `ServiceRefined` | any; if `Timely`, no final status unasked |
| `StrandedProofs` | `StrandedOnly` | `Timely` |
| | `StrandedSafe` | `Timely`, every unasked line ends in a final status, no power toggles, text fits the queue |
| `BoardMonitorProofs` | `MonitorTypes`, `DebounceCorrect`, `IgnitionSafe` | any |
| `GpsTrackingProofs` | `TrackingTypes`, `StaticsSafe`, `OnFirst`, `PositionSafe`, `LostSafe`, `Composition` | any; modem service reliable or not |
| `PeripheralsProofs` | `PeripheralTypes`, `OvertakingPending`, `OneShellSafe`, `UnheardSafe`, `MonitorComposed` | any |
| | `FollowSafe`, `StopSafe`, `AssertionsHold` | `Prompt`, `CardOK` |
| `AtTextProofs` | `StatusSafe`, `InPlaceSafe`, `WholeReadSafe`, `NumbersSafe` | any |

### The driver with any modem

The invariants of `sim8xx_any`, types apart, are not inductive alone. `IInv` adds

* `LockInv`: a caller past `chMtxLock` heads the queue of `lock`, an idle one is
  not in it, nobody is in it twice. Hence at most one caller is active
  (`OneActive`), which every other part needs;
* `RxInv`: the reader owns `rxlock` from `chMtxLock` to `Park`. Hence a resumed
  caller cannot copy while the reader is at work, and the reader can clear
  `rxbuf` only after having been resumed, by the same caller, after the copy;
* `TokenInv`: `sync` is never below -1, is -1 exactly while a caller waits, and
  the token is in `sync`, with the armed guard timer, or carried by a caller. A
  caller whose answer is still being saved carries it although it has given
  nothing back: it is the reader that will arm the timer. With `OneActive` this
  gives `TokenNotLost`: who waits carries nothing, so the timer is armed;
* `DeafInv`: a deaf reader waits for its event, with text in the queue and no
  event pending, and no caller was ever resumed with MSG_OK. `NoLostWakeup` needs
  it as the other half of its case distinction.

### The driver with a timely modem

`FreshAnswer` says nothing of text that is still under way, so that an old status
in the queue would refute its induction step. `TimelyInv` says where the reply to
a command is:

* `ReplyInv`: a final status is with the modem, in the input queue, in `rxbuf`, or
  handed over, in that order and at the end of what is there; it is under way only
  to a caller that awaits it, and is that caller's. So what `CopyResponse`
  finds is fresh;
* `OwedInv`: a modem that is on owes the reply until the reader has processed it.
  So only one that is off lets a caller time out;
* `ParkedInv`: the reader saves or is parked only for a caller that is about to
  resume it. So the reader is back before the next command is sent. This rests on
  `RxQueueInv`, who queues for `rxlock`, since a resumed reader may have to wait
  for it.

`TokensInv` counts tokens as long as the power key was not used: there is one, and
while a caller carries it the guard timer is not armed. That is `GuardTimeKept`.

`ServiceRefined` is the refinement. `PhaseMap` maps the callers; `PhaseMoves` and
`PhaseSignals` say what a step does to it, also when it wakes a second caller that
waits for the token; `ServiceSteps` has one step per action. `LockInv` gives that
nobody else is in service when a call's turn comes, `AnswerIntact` that a call is
not completed without a final status, `ReferencesSound` that the reader resumes
nobody but a caller in service; `TextInv` gives what `Reliable` adds.

### The stranded reader

With RING lines `ParkedInv` fails, and so does `TimeoutMeansOff`. `AwaitInv`
weakens `ReplyInv` and `OwedInv`: while a caller awaits its reply the reader is
suspended, or takes in one chunk at a time and has the reply still ahead. This gives
`TimeoutMeansStranded` for anything the modem may send unasked.

`StrandedForever` needs `Stuck`, which holds from the moment the reader is parked
for nobody and is closed under every step: with a modem that is on, the reply to
the command under way ends up in the queue behind the suspended reader, or the
reader was resumed by a caller that gave up, and reads that reply for nobody; with
one that is off, nothing comes. `LateInv` supplies what happened before.
The proof fails, and rightly, without its assumptions: a reply cut off by a full
queue, a power toggle, or a line without a final status behind the reply sets the
reader right. The last one was found by this proof: the property had been stated
without that condition, and TLC refutes it there once `MaxChunks` is 6.

### Board monitor, tracking, peripherals

`IgnitionAlternates` is not inductive: a post might repeat the last message.
`MonitorInv` adds `LastCurrent`: as long as no post was lost the last message in
the mailbox is what the debounced line says, so a change of the line posts the
other one. A fetch removes the first message and keeps the last.

`TrackInv` extends `MonitorInv` by `FirstIsOn` (until the first fetch, an empty
mailbox means that the debounced line is low, so that the first post is "on"),
`StartInv` (until the system thread is RIDING the GPS thread has neither token nor
timer, which is why the statics need no lock), `CallInv` (which thread has a call at
the driver, and that `cmd` is the GPS thread's during its own) and `SavedInv` (what
was parsed, and what `error` says of it). `LostForGood` follows from a predicate,
`ModemGone`, that no step leaves. `Composition` shows that the module is what it is
meant to be, a composition: its behaviours are behaviours of the board monitor and
of `ModemService`, which `ServiceRefined` shows the driver to implement.

`Peripherals` has two invariants. `AnyInv` holds in every environment; `CardInv`,
its core, says that a file system that is ready with no removal pending is that of
the card that is reported now, or is being unmounted. `PromptInv` adds, for a
manager that keeps up and good cards, the states of the MMC and USB drivers in
every phase of the handlers (`CardPrompt`, `UsbPrompt`). Its theorem
`AssertionsHold` complements the runs `peripherals_disconnect` and
`peripherals_restart`: the HAL's assertions can fail only with a bad card or a
manager that is overtaken.

### Text

The theorems cover texts of every length, whatever the bounds `MaxLost` and
`MaxTyped` of the run.

`StatusSafe`: `sim8xxGetStatus` and the reference definition both look for the
last line break, one of them behind the first two characters only. The last
element of a set of positions exists by a minimal counterexample (`MaxExists`).

The parser and the conversion are folds over the text, and the library's induction
theorems take an operator, which the provers cannot instantiate. `SetInduction`
states induction over a set of naturals instead, from the library's theorem on
minimal elements, and `FoldExists` shows that the function that a fold's
definition chooses exists. With the two, `ParseSteps` gives the states of the
parser between two fields, `HornerSteps` the number after each digit.

`InPlaceSafe` needs an invariant about losses, `LeftInv`: what has come and what is
to come embeds, in order, in the text ahead, the response and a line behind it
(`LeftOf`). `Receive` keeps the embedding and `Lose` restricts it. The argument
then is: the status is OK, so the text ends in it (`OkText`) and nothing of a line
behind the response is there; the parser starts behind a space, which is the
response's, so all commas behind it are the response's; it asks for twenty and
the response has only twenty, so each of them is in its place (`AllPlaces`), and
between two neighbours there is at most one character, the field's own value
(`FieldsInPlace`).

`WholeReadSafe` follows the parser through the positions of the whole response
(`WholeParsed`); no proper prefix of it has a final status as its last line
(`WholeStatus`, `StatusWithLast`).

`NumbersSafe` compares the code's multiply-and-add with the sum of digits times
powers of ten (`HornerIsPlaceValue`). For negative numbers `SignTooSmall` proves
more than a difference: the minus counts as the digit -3, so what is read is
smaller than the number written, whatever its digits.

### Only model-checked

* Liveness (`CallReturns`, `LineReported`, `RidesInTheEnd`, `PollsForever`,
  `RemovalHandled`): fairness is out of the prover's reach.
* The violations: they are counterexamples.

## 5. Not modelled

* `main.c`: the start-up order is part of the initial states; the heartbeat
  blinks an LED.
* The length of `rxbuf` (512 bytes), which the reader does not check: no
  statement of the repository bounds what the modem may send between two final
  statuses. Floating-point rounding of `atAsciiToDouble`.
* What is read from and written to the card; the walk of `tree` is an interval.
* USB descriptors and requests, generated board files, LEDs.
* ChibiOS, FatFs and the modem's firmware are third party; of the first two only
  the functions named in `PROJECT.json` appear, as far as the threads see them.

## 6. Plan

1. Done: all modules above; every invariant and every action property of the
   passing runs is proved for all constants; the refinement of `ModemService` is
   proved for both environments.
2. Next: what the recovery from a stranded reader needs, as the counterpart of
   `StrandedSafe`.
