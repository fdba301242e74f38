# NGDCS in TLA+

NGDCS (`src/Code`) is the C++/GTK program that records flight lines of the
AVIRIS Next Gen imaging spectrometers: it takes frames from a camera card,
writes them with GPS and PPS data to files, drives an onboard calibrator (OBC),
a camera mount and a PXI recorder, and is operated by buttons, by a flight
management system (FMS) or over a serial line.  This directory holds models of
its concurrent core, the TLC runs that check them and proofs for TLAPS.

## 1. The system

### Threads

| thread | code | what it runs |
|---|---|---|
| fetch | `AlphaDataFrameBuffer::FetchThread` | camera frames into the image ring |
| data | `DisplayTab::dataThread` | every 10 ms: `lookForImageData`, then the FMS line or, headless, the serial commands |
| main | GTK main loop | button and combo handlers, timers, `Glib::Dispatcher` callbacks |

The fetch and the data thread share the ring under one semaphore.  The data and
the main thread share `m_recordState`, the two stop flags, the files,
`lastOBCState`, `m_mostRecentOBCMode` and the FPGA's GPIO register under no lock
at all; what protects them is which buttons are sensitive, and that callbacks
are dispatched to the main loop.

### Components

| component | state | operations | what makes it correct |
|---|---|---|---|
| image ring (`framebuf.cpp`) | buffers, two indices, ready count, frames left in the current buffer, semaphore | `FetchThread`, `frameIsAvailable`, `getFrame`, destructor | indices and count agree; frames come out whole, in order, once; shutdown ends |
| recording control (`displayTab.cpp`) | `m_recordState`, `m_wait`, stop flags, files, `m_currentRecording`, buttons, dispatched callbacks | Record, Stop, Abort, `lookForImageData`, `enterXState`, `recordControlsUpdateWork`, resources timer | frames go to open files; each flight line ends up listed and complete or gone; states in their order; no exit during a recording |
| FMS line (`testDigitalLineTransition`) | `m_lineHigh` | presses Record and Stop | a high line records, a low line does not |
| OBC and PXI lines (`appFrame.cpp`, `setGPIO`) | GPIO register, `lastOBCState`, `m_mostRecentOBCMode` | `setOBC`, `setPXIRecord`, `onOBCControlCombo` | never a mixture of two states; slow transition out of BRIGHT; between calls, what the recording asks for in Auto |
| exit (`handleExitRequest`, `cleanupForExit`) | threads, four end-to-end files | joins, saves, copies and unlinks | refused during a recording; ends; no file lost |
| mount (`handleMount`) | handler state, iterations and tries, serial line | `S0`, `S1`, `s` commands with retries, `setMount`, settings tab | once a command is over, a green indicator is true; the machine comes to rest |
| popups (`dispatcher.h`) | queue of messages, recursive lock | `send`, `on_dispatch` | each message once and in order, nobody blocked for good |
| headless interface (`checkHeadlessInterface`) | at most one buffered byte, its time, the record state | `RE`, `ST`, `AB`, `II` | resynchronises after a lost byte; what the controller is told is so; a stop ends the recording |
| GPS parser (`processImageGPSData`) | parser state, words of a message, failure count, indicators | one frame at a time, word by word | no message missed for a false start, none made up |
| dark frame | frames to wait, accumulator, its count | data thread and combo box | the level of the dark, from the right number of frames, all of them dark |
| recordings tab (`recordingsTab.cpp`) | list, selection, directories, orphan lists | `scanDirs`, `addRecording`, Delete, pruning | lists what is on the disk; deletes what it announced; keeps today's directory |
| ECS tab, FTP client (`ecsDataTab.cpp`, `libftp.cpp`) | connection object, its socket, rows | Refresh, Export, Delete | what is logged is so; no object used after its end; every handler ends |
| IPC library (`src/IPC`) | sockets, partly read messages | `send`, `accept` of lines, strings, arrays | messages whole and in order until an accept fails; an accept ends by its timeouts |
| timing indicators (`processImageTimingData`) | three failure counts | one frame at a time | display only |
| settings (`settingsBlock.cpp`, `settingsTab.cpp`) | values of `.ngdcs` | load, save, range checks | the settings that steer a recording are parameters here |
| image display, plots, diagnostics, Maxon tools | GUI state | user requests | off the recording path |
| `COMPRESSION_CHANGES`, `ADDemo` | - | - | not built into NGDCS |
| libtomcrypt, libusb, aiousb | - | - | third party |

Interactions: `lookForImageData` (data) polls the ring (fetch) and runs the
record states; entering a state commands the OBC, the mount and the PXI; leaving
a recording sends `m_refreshRecordControls` to the main thread, which lists the
flight line in the recordings tab and enables Record and Exit; the FMS line,
read on the data thread, sends `m_pressRecordButton` and `m_pressStopButton`
there.  Messages of any thread go to the main thread as popups, whose dialogs are
main loops of their own; so are the questions of Abort and of the recordings
tab, and `logFTPMessage` runs the main loop in the middle of every FTP command.
The ECS tab reaches its server through the line channels of the IPC library.
Headless, no main loop runs and one thread does everything.

`PROJECT.json` lists every component with its status and every hazard with its
line and the properties that cover it.

## 2. Modules

| module | models |
|---|---|
| `FrameRing` | the ring, both of its threads, its destructor |
| `FrameQueue` | what `FrameBuffer` promises: a queue of frames |
| `FrameRingQueue` | the refinement mapping from `FrameRing` to `FrameQueue` |
| `FrameRing_proofs` | proofs about `FrameRing` and `FrameRingQueue` |
| `Recording` | recording control with the GUI and the FMS line |
| `Recording_proofs` | proofs about `Recording` |
| `Obc` | OBC and PXI lines at the grain of register accesses |
| `Obc_proofs` | proofs about `Obc` |
| `Mount` | the mount's command machine, its clients, its line and the mount |
| `GpsParser` | the parser of the GPS words in the frames |
| `DarkFrame` | the dark frame's wait, sum and mean at the grain of memory accesses |
| `DarkFrame_proofs` | proofs about `DarkFrame` |
| `Popups` | messages across threads and the popups' nested loops |
| `Leaving` | the exit on top of `Popups`: joins, saves, copies |
| `Headless` | the program under a controller's commands |
| `Program` | composes `Leaving` and `Headless` by the command-line flag |
| `Program_proofs` | proofs about `Popups`, `Leaving` and `Headless` in `Program` |
| `Ftp` | the ECS tab, its FTP client and the server |
| `Incoming_proofs` | proofs about `GpsParser` and `Ftp`, which read what others send |
| `RecordingsTab` | the list of recordings, its directories, and the program's lives |
| `RecordingsTab_proofs` | proofs about `RecordingsTab` |
| `Mailbox` | what an IPC channel promises in one direction |
| `Channel` | the stream channel, with its refinement mapping to `Mailbox` |
| `Lines_proofs` | proofs about `Mount` and `Channel`, whose other ends may be slow or gone |
| `MCFrameRingQueue`, `MCRecording`, `MCObc`, `MCMount`, `MCGpsParser`, `MCDarkFrame`, `MCProgram`, `MCFtp`, `MCRecordingsTab`, `MCChannel` | instances for TLC |

**FrameRing.**  `fetchPC` is the place in `FetchThread`: `get` the top of the
loop, `copy` inside memcpy, `release` before `ReleaseFrameChk`, `publish` before
`sem_wait`, `incr` and `test` inside the critical section, `sleep` in `usleep`.
`dataPC` goes from `idle` through `available` (after `frameIsAvailable`) and
`take` (inside `getFrame`) to `start` and `copy` (the copy loop of
`getImageFrame`).  Loads and stores of the count are separate steps
(`fetchReg`, `dataReg`), so mutual exclusion is something to be shown and not
built in.  A frame is its number; a slot being overwritten is `Torn`; a copy
whose source changes half way comes out `Torn`.  `cur` and `left` stand for the
pointer `m_currentImageBuffer` and `m_framesLeftInBuffer`.  In `FrameRingQueue`
the queue is what is left of the current buffer and the ready buffers, and the
newest frame is the last one of the last buffer counted; with a single buffer
that one would be overwritten, hence `N > 1` (200 in the code).

**Recording.**  `mainPC` and `dataPC` say where each thread is in its handler; a
step ends where the other thread can come between two accesses to shared state.
`queue` holds the dispatched callbacks in the order they were sent (all
`Glib::Dispatcher`s of one main loop share a pipe).  The abort dialog is a
nested main loop: while it is open callbacks run, buttons do not.  A flight
line's four files are one entry of `disk`; opening, closing and unlinking go by
the line number, which stands for a name.  Names are made of the time to the
second: a line begun in the second of the one before gets its number again
(`Begins`), and what is there under it is truncated; `twice` holds such numbers.
A line whose files cannot all be opened may leave some of them, empty.  The first
state is assigned (`EnterFirst`) before the OBC is commanded for it
(`CommandFirst`); `overtaken` notes that the recording was over by then, its
storage full, which leaves the OBC in the dark.  `CheckResources` is the timer that
sets and clears `m_outOfSpace`.  `fmsLine` is what `lineIsHigh` returns, and so
includes read errors other than timeouts, which read as low.  A NULL file
that is written to ends the process (`dataPC = "crashed"`).  Left out: popup
texts, test-mode confirmation dialogs (refusing one is not clicking), and use
of the OBC and mount combo boxes during a behaviour.  Here `setOBC` is one step;
`Obc` has its parts.

**Obc.**  `todo[t]` is what the handler of thread `t` has left to do, from
entering a state down to the two accesses of `setGPIO`.  The record states move
in their order but at any time; `Recording` says when.  The register is the set
of high bits.  Combo box, recording, failing `openFiles` and exit are actions;
`trouble` notes when the threads overlapped and when Auto was forced without
touching the lines.

**Mount.**  One step is one call of `handleMount` (it holds
`m_mountHandlerMutex`), of `setMount`, or of `makeMountUsed` and
`makeMountUnused`, which take no lock but run on the thread of `handleMount`
while nothing is recorded.  `commands` and `replies` are the two directions of
the serial line.  The mount (external, seen through what the code writes and
accepts) answers in order, may refuse (`?`), lose a command, take its time
(`Settle`) or be unplugged.  A read takes every answer there is as one; an
answer is taken to arrive whole (two bytes at 19200 baud within the 10 ms that
`readPCSerial` waits for more).  That the mount, having a command, lets the
repetitions run out is bounded by `MaxSlow`.  `late` notes that a command was
written while an earlier one or its answer was outstanding: answers do not say
what they answer, so from then on one may be taken for another's, and the
indicator may turn green early.

**GpsParser.**  `stream` is what the GPS sends; the frames cut it anywhere.  A
step is one turn of the loop over the words of a frame, `state` selects the
action as `gpsMsgParseState` selects the case; nothing else sees the parser in
between.  `prev` is the word in front of the one being looked at *in the frame*,
which is the word count at its beginning.  Words are the real numbers
(33279 is 0x81ff) and the checksum is 16 bits wide; only the sizes of the two
messages and the places of two fields in them are constants.  `Messages` defines
the messages of a stream from left to right without a parser.  Left out: what
`add3501` makes of a position, and a change of the plot duration meanwhile.

**DarkFrame.**  `dataPC` and `mainPC` step through the accesses to
`m_framesUntilDark`, the accumulator (in two halves, for the loops over the
pixels) and `m_darkFramesAccumulated`; there is no lock.  A frame is dark or
not, by what the OBC is and by `Dim`, the frames it really takes to settle.
`trouble` collects what can go wrong with a dark frame that is asked for:
*disturbed*, one thread was clearing while the other was adding; *early*, the
light was on, or came on before the sum was complete, by somebody's choice;
*late*, the main thread asked when the calibration had too few frames left.
The properties say that nothing else can.  The wait covers two frames less than
it says, the frame in memory when it is set and the one that ends it, hence
`Dim + 2 <= Settle`.  The rate times 0.7, a double, is `Divisor / Parts`: frames
are added while the count falls short of it, so `Accum` is what it is rounded up
to, and the sum is divided by it (`Quotient`).  At the rates there are, some 70
frames are divided by some 69.7, and the mean is too bright by less than a
hundredth: `WholeMean` states the excess.  `Level` is what a pixel is in the
dark.  Left out: a change of the rate, frames that wait in the ring, and reading
the dark frame's file.

**Popups, Leaving.**  `popups` is the stack of `on_dispatch` calls, `queue` holds
a message until its popup is answered, and the lock is held in between.
`Recursive` says whether the library serves a notification in a popup's loop,
which depends on the version of glibmm; `nested` notes that it did, and
`ShownInOrder` and `EveryMessageShown` are claimed without.  In `Leaving`, `phase`
walks through `handleExitRequest` and `cleanupForExit`, from the join of the data
thread to the dark frame's file (`SaveDarkFrame`); a file is an `original` and a
`copy`, and the program may be cut off at any step.  A copy whose `fclose` fails
is *short*: nothing looks at that result.

**Headless.**  One step is one call of `checkHeadlessInterface` or of
`lookForImageData`, with a frame (`Frame`, `WriteFails`, `WriteCrashes`) or without
(`NoFrame`).  Without one a stop is honoured whatever the record state: one that is left
of a recording that ended by itself (`outlived`) begins a calibration of nothing, whose
first frame is written to a closed file.  `half` is the byte of a command that waits for
the other one; `moment` is the microsecond it came at and `age` the time since, both in
ticks, so that `Resync` compares seconds and microseconds apart, as the code does.
`lastRequest` is what the controller has been told last with an `A+`. `readPCSerial`
ignores what `read` returns, so a line that has hung up keeps the thread
(`thread = "spins"`).  Left out: that `II` initialises the GPS, and the indicators
other than that of the recording.

**Program.**  `headless` is set once, from the command line; either side runs
alone.  A save that fails, a short disk and the copies reach the user as messages
of `Popups`.

**Ftp.**  `stack` holds the handlers under way, the running one last: a click that
is served by the main loop in `logFTPMessage` starts a handler inside another.
`FTPConnection` objects are numbered; `conn` tells an open one from one whose
socket is NULL and one that is deleted.  `owed`, `inbox` and `data` are the
commands unanswered, the replies unread and the last data channel of each.
`local` is the copy of a file: *short* is one whose last block was lost in an
`fclose` that nobody looks at.
Replies are classes, since `FTPValidateResponse` looks at nothing else; a reply
may come after the timeout and be taken for the answer to the next command.
Undefined behaviour (a deleted object, a NULL socket, an erased row) stops the
model in `broken`.  `m_ftp` is NULL while the constructor runs.  After a failing
file operation the next one meets a NULL socket, although the comment at
`ecsDataTab.cpp:294` says otherwise; `UsesWhatIsThere` names the case (`lost`).
Left out: host, port, sizes and dates; a file larger than the socket buffers,
whose transfer the server cannot end before it is read, appears as a late
answer; a file listed twice is one row; a failing NLST leaves an empty list.

**RecordingsTab.**  A product is a set of kinds of files in one directory; a directory
is a root and a day; `Spellings` are the names a root can have, which is what the code
compares.  `Start` scans, `Exit` saves the settings and the log, `Crash` does neither,
`Midnight` moves the date on while `dailyDir` stays. `dialog` is the question in front;
recordings begin and end under it.  An `unlink` or `rmdir` whose result the code ignores
is a fault, bounded by `MaxFaults` (`spared`).  `overlooked` and `warned` are what
`scanDirs` has left out and complained about: one name without a start time ends the
scan of its directory, and products behind it are warned of as orphans.  `respelled`
notes that directories were pruned while the settings spelled the root of today's in
another way than at the start, the one case in which it may be pruned; a root that is
really another is not such a case.  Left out: the settings' other values, an early
record (`Recording` has it), and a new root that cannot be made.

**Channel, Mailbox.**  A byte is a digit of base `Base`, an integer `IntBytes` of
them; `SendBytes` and `Read` move any number of bytes that fit.  `reading` is the
place in `accept`, and a timeout or the sender's end may come at each of them.
`message_ready` returns -1 when a signal comes, which counts as a timeout here.
What an accept has read is lost when it fails: strings and arrays never find the
next beginning again, lines do at the next terminator.  A line that does not fit
is swallowed with all that follows until the sender is silent: the end of the full
buffer (`Full`), which is what the terminator is compared with, does not change
any more.  `AcceptEnds` therefore makes it an exception, and asks that such an
accept return once nothing more is sent.  `MaxSends` bounds the model's sender, not
the code's.  The elements of
an array are accepted without the timeout (`Stalled`).  A line is a text that
does not hold its terminator (`LinesAssumption`; for `"\r\n"`, which `ipc1.cc`
uses, that is all it says): `send` does not look, and a line that held one would
come out as two.  Not modelled: datagrams,
buffered channels, pipes, naming and connecting.

Definitions whose comment says *Faulty* are variants with a plausible mistake.
No specification uses them; they take the place of the definition below them to
show that each property can fail (`PROJECT.json`, "mutants").

### The four windows

The recording state is shared without a lock, and four kinds of ill-timed
commands are known to be mishandled.  `Recording` notes in `trouble` which of
them a behaviour has been in, and its properties say what holds outside:

- *stale stop*: `m_stopRequested` is set while nothing is recorded, since a full
  disk or a failing write ended the recording first.  The data thread honours
  it later, enters a calibration with no files open and writes to NULL.  (In
  `Headless` the same is `outlived`.)
- *abort taken for a stop*: the data thread ran between the two assignments of
  `abortButtonWork`.
- *stop after abort*: the end of DARK1 enabled Stop after Abort had disabled it.
- *early record*: the FMS pressed Record before the previous recording's
  `recordControlsUpdateWork` had run.

Two more exceptions are narrower than these and named by the properties they
touch alone: `overtaken` (`IdleEquipment`) and `twice` (`LinesAccounted`,
`ListedStays`), described above.

## 3. Runs

| run | checks | states | shows |
|---|---|---|---|
| `ring` | `RingInv`, `ReadyNotWritten`, `OverrunOnlyWhenFull`, `ImplementsQueue`, `ReadyDelivered`, `ShutdownEnds` | 50,000 | the ring is consistent at every interleaving; every step of it is a step of the queue or a stutter, so frames come out whole and in order unless it is overrun, which needs all other buffers ready; a ready frame is delivered, the destructor ends |
| `recording` | `WritesToOpenFiles`, `LinesAccounted`, `IdleEquipment`, `ExitLocked`, `ListedStays`, `StopEndsRecording`, `ExitComesBack` | 815,000 | two flight lines driven by the buttons or by the FMS line, of one second or not; files, equipment and controls are what they should be between recordings, a stop ends the recording and Exit comes back |
| `obc` | `WholePatterns`, `InStep`, `AutoFollows`, `SlowFromBright` | 344,000 | two threads on one register: never a mixture; between calls that did not overlap, lines, marks and modes agree |
| `mount` | `GreenIsReached`, `LastCommandWins`, `ComesToRest` | 808,000 | once a command is over a green indicator is true, unless answers may be mixed up; if nothing is lost the last command wins even then; the machine comes to rest |
| `gps` | `NothingMadeUp`, `MessagesFound`, `AirNavTrue` | 544,000 | the parser finds the messages the definition finds, and the indicators follow them |
| `dark` | `WholeMean`, `OnlyDark` | 2,286,000 | the dark frame is the dark's level, but for the fraction by which the divisor is short; three kinds of overlap, and no others, spoil it |
| `program` | `ShownInOrder`, `NothingLost`, `ControllerKnows`, `ResyncOnTime`, `EveryMessageShown`, `ExitEnds`, `StopEnds` | 417,000 | messages shown once and in order, the exit ends and loses no file; headless, what the controller was told is so, and only a stop that outlived its recording records nothing |
| `ftp` | `LoggedIsSo`, `UsesWhatIsThere`, `OperationsEnd` | 337,000 | one handler inside another, late replies, lost sockets and a failing `fclose`, and what goes wrong only with them |
| `tab` | `TabMatchesDisk`, `DailyDirKept`, `AllOrNothing` | 2,376,000 | two lives over two days: the tab and the disk agree, a deletion is what was announced or nothing, today's directory stays |
| `channel` | `ImplementsMailbox`, `AcceptEnds` | 84,000 | lines, strings and arrays over a socket that cuts them anywhere implement a mailbox; accepts end, but for elements of an array and too long a line from a sender that goes on |
| `fms_stop` | `FmsLineStops` **violated** | | the line falls before the dispatched Record press has run: the recording it starts is never stopped |
| `headless_rate` | `MaxRate` **violated** | | a headless recording that finds the frame rate changed goes on at the lowest rate, not at the highest |

The two violated properties quote a comment of the code that the code does not
live up to; `PROJECT.json` "findings" has the lines.  Other disagreements appear
as the exceptions their properties name: a slow transition skipped by an
overlap (`SlowFromBright`), a GPS message lost between two frames
(`MessagesFound`), an abort that keeps its line and two lines with the same names
(`LinesAccounted`, `ListedStays`), an OBC left in the dark (`IdleEquipment`), a
calibration without a flight line (`ControllerKnows`), a fetched file without its
end (`LoggedIsSo`), a divisor that is not the number of frames (`WholeMean`), an
accept that has met too long a line (`AcceptEnds`), and `on_exit_button`, which
ignores that `handleExitRequest` refused (`ExitLocked`).

The type invariants take no run of their own: they are proved.

`CHECK_DEADLOCK FALSE` in all runs but `dark`: the program ends, may crash, and
the bounds stop the camera, the user and the FMS.

### Bounds

- Ring: `N = 3` buffers is the least with a buffer in use, one ready and one
  being filled; `K = 2` has a first and a last frame of a buffer; 7 frames go
  once around (6) and into an overrun of the ring.
- Recording: two flight lines begun, under one name or two, so that what is left
  over from the first can meet the second; calibrations of two frames; storage
  full once, by timer or failing write; five sets of settings (all calibrations; a
  dark one before and after, outside Auto; one, at the end, with the FMS line; and
  the FMS line with two calibrations or with none outside Auto); two
  changes of the FMS line, with the line low or high at the start.  The queue
  needs no bound: the other bounds limit it.
- Obc: all five calibrations.  No counter needs a bound.
- Mount: a command is repeated after 2 reads without an answer (200 in the code,
  where only the limit matters), and sent 3 times as in the code; three calls of
  the clients, so that a third redirects a machine already redirected; two late
  answers, enough for a reply to two repetitions, and one fault.
- GpsParser: messages of 7 and 8 words, the least with a data word behind the one
  read while the checksum is checked; three pieces, two of them whole messages or
  any of eight kinds of damage (cut off after each word of the header, a wrong
  type, length or checksum, magic numbers and types in the wrong place); frames
  of 0 to 3 words, so that every word can be the first or last of one; red after
  two frames without words, every other position plotted.
- DarkFrame: two frames to wait and two to add, which tell a first from a last,
  divided by 19/10, a little less; a dark of level 100, so that the excess shows;
  in a calibration of five, one more than needed; an OBC that settles at once,
  the most the wait allows (`Dim + 2 <= Settle`); two requests of the user, so
  that a second meets the first under way.
- Program: three messages, so that two wait behind a popup; two failures, one in
  a copy and one in its undoing; calibrations before and after the science frames,
  dark and not, of one frame; a second of four ticks, so that half of one is
  neither nothing nor all of it; three commands (Record, a stop or an abort, and
  one more, or one that lost a byte) and one fault.
- Ftp: two files, so that a row is left behind the one deleted; three clicks on
  two connections, so that a Refresh inside an Export meets a third handler; two
  faults and two late replies.
- RecordingsTab: two roots, one under two names; two old products, one with a
  name that tells no start time, each with its image or its GPS file missing or
  not; two new ones; two days and two starts, so that the second finds what the
  first has left; one change of the root and one refusal of the file system.
- Channel: bytes 0 to 3, integers of two bytes, lines of up to four bytes with a
  terminator of two, one of which also occurs as text; a socket of three bytes,
  less than every message but the shortest; three messages.

### Fairness

`FairSpec` of `FrameRing`: both threads are scheduled (weak fairness), and a
thread waiting for the semaphore, which the other one releases again and again,
gets it in the end (strong fairness, what `sem_wait` gives on Linux in practice
with a critical section of a few instructions and sleeps in between).  The exit
is not fair: nobody has to leave the program; once the destructor has started,
it goes on.  `FairSpec` of `Recording`: both threads run, the main loop
dispatches its callbacks, and frames keep coming while a recording is on (the
camera is free running).  User, storage and FMS line are not fair, and neither
is `NoFrame`.  `FairSpec` of `Mount`: `handleMount` is an idle handler of the main
loop; a mount that is on takes its commands and reaches its active state.
Without the latter the poll for its state would go on for good, as it does in
the exception `ComesToRest` names: the question was asked on the strength of
another command's answer, and the command to become active was lost.
`Program`: the data thread gets the popups' lock when it is free, notifications
are dispatched, the user answers popups, the exit goes on once begun; headless,
frames keep coming while a recording is on and the line is polled between them.
Neither the controller nor the clock is fair.  `Ftp`: the main thread goes on with
its handler and the server with what it has been sent, if late; clicks are not
fair.  `Channel`: both processes are scheduled, and a read that can get nothing
times out or meets the sender's end; nobody has to send.

## 4. Proofs

Proved by TLAPS for all values of the constants, from the named assumptions of
the modules only (`N`, `K` positive, for the queue `N > 1`; `Cals` a set of
calibrations; messages of at least 7 words that fit the buffer, less than 3500
words in a frame; an even number of ticks in a second; old and new products
apart; a dark calibration at least as long as the wait and the sum, a wait two
frames longer than the calibrator takes; integers of at least one byte in a base
of at least 2, texts and arrays shorter than half of what they count to, `Failed`
no line, lines that hold their terminator at their end only; bounds that are
natural numbers):

| theorem | says |
|---|---|
| `FrameRing_proofs!RingInvariant` | `RingInv` holds at all times |
| `TypeCorrect`, `SemaphoreExcludes`, `IndicesAgree`, `ReadyBuffersSafe`, `FrameNeverNull` | `TypeOK`, `Exclusion`, `RingIndices`, `ReadyNotWritten`, `NeverNull` |
| `OverrunNeedsFullRing` | the action property `OverrunOnlyWhenFull` |
| `FramesInOrder`, `RingIsQueue` | `QueueInv` holds at all times; `Spec` implements `FrameQueue` (`ImplementsQueue`) |
| `Recording_proofs!RecordingInvariant` | `RecordingInv` holds at all times |
| `TypeCorrect`, `FramesHaveFiles`, `NoExitFromRecording`, `EquipmentRests`, `NoLineForgotten` | `TypeOK`, `WritesToOpenFiles`, `ExitLocked`, `IdleEquipment`, `LinesAccounted` |
| `ListedFilesStay` | the action property `ListedStays` |
| `Obc_proofs!ObcInvariant` | `ObcInv` holds at all times |
| `TypeCorrect`, `BulbSafe`, `ThreadsAgree`, `AutoIsFollowed` | `TypeOK`, `WholePatterns`, `InStep`, `AutoFollows` |
| `BrightLeftSlowly` | the action property `SlowFromBright` |
| `Incoming_proofs!ParserInvariant` | `ParserInv` of `GpsParser` holds at all times |
| `TypeCorrect`, `NoMessageMadeUp`, `NoMessageMissed`, `AirNavIsTold` | `TypeOK` (the index stays inside `lastGPSMsg`), `NothingMadeUp`, `MessagesFound`, `AirNavTrue` |
| `FtpInvariant` | `FtpInv` of `Ftp` holds at all times |
| `FtpTypeCorrect`, `ThereIsWhatIsUsed`, `WhatIsLoggedIsSo` | `FtpTypeOK`, `UsesWhatIsThere`, `LoggedIsSo` |
| `DarkFrame_proofs!DarkInvariant` | `DarkInv` holds at all times |
| `TypeCorrect`, `MeanIsWhole`, `FramesAreDark` | `TypeOK`, `WholeMean`, `OnlyDark` |
| `Lines_proofs!MountInvariant` | `MountInv` holds at all times |
| `TypeCorrect`, `GreenAtRestIsTrue`, `LastCommandIsObeyed` | `TypeOK`, `GreenIsReached`, `LastCommandWins` |
| `ChannelInvariant` | `ChannelInv` of `Channel` holds at all times |
| `ChannelImplementsMailbox` | `ChannelSpec` implements `Mailbox` (`ImplementsMailbox`) |
| `Program_proofs!ProgramInvariant` | `LeavingInv` and `HeadlessInv` hold at all times |
| `TypeCorrect`, `MessagesShownInOrder`, `FilesNotLost`, `ControllerIsTold`, `HalvesDroppedOnTime` | the types, `ShownInOrder`, `NothingLost`, `ControllerKnows`, `ResyncOnTime` |
| `RecordingsTab_proofs!TabInvariant` | `TabInv` holds at all times |
| `TabIsDisk`, `DailyDirIsKept`, `DeletionIsAllOrNothing` | `TabMatchesDisk`, `DailyDirKept`, and the action property `AllOrNothing` |

*The ring.*  None of the properties is inductive.  That the two indices agree
with the count depends on when each is advanced: `FetchThread` advances
`nextFree` before it takes the semaphore, so a filled buffer is counted late
(`Uncounted`); `Room` says that `FetchThread` is past its wait only with a free
buffer, which carries `ready + Uncounted <= N` over the next buffer; `Registers`
says that inside the critical section a thread's copy of the count is current,
which needs `Exclusion`; `Current` ties what is being consumed to `nextPop` and
keeps `getFrame` from finding an empty ring; `Joined` says that the wait is
skipped only when nobody takes frames any more.  `RingInv` is their conjunction.
`ReadyNotWritten` and `OverrunOnlyWhenFull` follow from it by arithmetic on the
indices.

*The ring is a queue.*  The count makes a buffer part of the queue, and so the step that
stores it (`FetchIncr`) is the queue's `Publish`; `getFrame`'s last step is `Take`, the
end of the copy `HandOut`, the beginning of a memcpy into a buffer still being consumed
`Overrun`, everything else a stutter.  That a batch is published in ascending order and
behind the newest frame needs `QueueInv`: the frames of the buffer being filled follow
each other and the last one published (`Filling`), the same of a buffer filled and not
yet counted (`Counting`), and no frame is newer than the one `FetchThread` holds
(`Numbered`).  The mapping of a place in the queue to a buffer and a frame in it is
arithmetic on `At`.

*Recording control.*  While nothing has gone wrong (no *stale stop*, no *early record*),
at most one of the threads is at the files and the record state (`Orderly`).  What
guarantees it is no lock but the Exit button: it is sensitive only when nothing is
recorded, no callback that follows a recording is on its way (`Refreshing`), and Record
is sensitive only with it.  So while the main thread is opening files the data thread
has nothing to do, and while the data thread closes them the main thread cannot start.
`OnlyOnce` is needed for it: a second refresh in the queue would enable the buttons in
the middle of the next recording.  The one step that does not fit is the command to the
OBC at the beginning, which the main thread gives whether or not the data thread has
ended the recording meanwhile; `FilesFollow` says that the OBC is dark at rest exactly
when it came too late.  `LinesKept` then follows one flight line through the steps of
its closing, for those whose name no later one has taken, and `AbortIsMeant` says that
`m_stopIsAbort` is about the present flight line and not left over from the one before.

*The calibrator.*  `WholePatterns` needs to know about reads that have not been
written back: a thread inside `setGPIO` holds a copy of the register, and
`WholeReads` says that this copy, too, shows the lines of one state.  Writing it
back with the OBC bits replaced gives a whole pattern, since the mask covers
them all; writing it back with the PXI bits replaced leaves a whole, if stale,
pattern.  That the pattern may be stale is why the other three properties only
hold without an overlap.  For them `StepInv` says what one busy thread has done
and has left to do: in the middle of `setOBC(state)`, how far the lines,
`lastOBCState` and the marking of the images have come, and what the state is for
(`Aims`); in the middle of a recording's change, which of the PXI line and the
record state is ahead.

*The parser.*  `NothingMadeUp` needs to know, for each parse state, which words of
the header the buffer holds: `ParserInv` says so.  The step that is not obvious
is the length, which is compared with the type in the frame and not with the one
in the buffer: they agree unless a frame ended in between, and then the word
compared with is a word count, which is no type since a frame has fewer than
3500 words.  The same step is why the message is then lost (`split`).
`AirNavTrue` needs that no failure has been counted since a frame
whose words are still being looked at (`Heard`), or a status message late in a
frame would turn the indicator green behind the failure that made it red.

That no message is missed is about a recursive definition, which looks ahead: what
`Messages` finds at a place depends on words that have not come yet.  So
`FoundInv` speaks of all the ways the stream can go on: however many of its words
are taken, the messages in them are those in the log and what the definition finds
from `Start` on, the place where the parser would look next (`SoFar`).  With that,
a step of the parser is right when the definition finds the same at the old
`Start` and at the new.  When a header breaks off, none of its words but the last
can begin a message (`BrokenOff`): a type and a length are not the magic number,
and the flags were looked at; the checksum, which may be, is tried again.  When a
message is complete, what the definition finds first is what the buffer holds
(`FinishFound`).  At the end of what was parsed nothing more is found, since a
message cut off is none yet (`NothingYet`).  That the recursion has a solution at
all is proved from the end of the stream to its beginning (`Solvable`), by the
least counterexample (`LeastNatural`).

*The FTP client.*  Three invariants, on top of each other.  `Typed` holds at all
times: every handler on the stack is about a command of its own operation and has
a connection that was made, also when another one has replaced `m_ftp` under it.
`Alone` holds while no handler has been started inside another (`nested`): then
there is one handler at most; a listing has an open connection and an empty table,
an export or a deletion has `m_ftp` and a row that is there (`Placed`); and between
handlers `m_ftp` has its socket unless a file operation has lost it or the table
is empty (`Connected`).  `Matched` holds while, besides, no reply
was late (`Calm`).  `FTPValidateResponse` takes the class of a reply only, so
what is logged is so if a reply is taken by the command it answers: when an
operation sends a command its lines are quiet, nothing is unanswered and nothing
unread (`Quiet`), so that the reply read next answers it (`Asked`), and is of
class 2 only if the file is gone or its bytes are on the way (`Replied`, `Done`);
what then arrives is on the disk but for what an `fclose` loses.
The one reply that nobody waits for, that to NLST, is still unread at the end of
a Refresh only if the list was empty; then there is no row, and nothing to export
or delete (`Rested`).

*The dark frame.*  The threads share the wait, the sum and its count without any order,
so all is said until they have met (*disturbed*).  Then, in `Apart`, one thread at most
clears; the halves are zero as far as it has come (`ClearedBy`); and with nobody
clearing, the count of either half is the number of frames added plus what the data
thread's place in its loop says of the frame at hand (`Counted`).  So exactly `Accum`
frames have been added where the sum is divided (`ExactMean`), since the count falls
short of `Divisor / Parts` as long as it falls short of `Accum` (`Reached`); that the
quotient is too large by no more than `Accum` exceeds the divisor is arithmetic
(`MeanOfAccum`).  That every frame was dark is a matter of three distances (`InTime`):
the calibrator settles before the wait is over, the frame in memory is dark before it
may be added, and the calibration has at least as many frames left as are still to pass
until the last one is added (`Frames`), so that its end does not put the light on
before. Outside the dark calibrations nothing has to be in time, and a light by choice,
or a request that comes late in the calibration, is *early* or *late* trouble.

*The mount.*  Two arguments, for the two properties.  While no command was written
early, `InStep` says that the line holds one command or one answer at most, and
that it is the one the machine's state is about: then `+` to an `s` means
steady, and green at rest is true.  When commands overtake answers nothing of the kind
holds, but commands are obeyed in order: `Heading` says that, when all commands
on the line have been obeyed, the mode is that of the last one written, and that
this is the mode wanted.  It needs that nothing is lost and nothing unplugged,
and it is why `LastCommandWins` holds even where the indicator is too early.

*The program.*  Each side has an invariant of its own, and neither touches the
other's variables.  `OneAtATime` says, until a notification is served in a popup's
loop, that the queue holds the last messages in order, that those before it
have been shown, and that at most one popup is up, for the first of the queue;
the two counts together give the order.  `WorkInv` says of the file at hand that
its original is there until a copy has been closed, and of the files still to
come that the user was told nothing of them.  `RequestsAgree` says that the flag
`enterIdleState` looks at is the last request acknowledged: `leaveIdleState`
clears both, a request sets both, and the states in between clear neither.  It
says, too, that a stop requested while nothing is recorded has outlived its
recording, so that a poll without a frame begins a calibration of nothing in that
case only.  Half
a second is tested by arithmetic on a remainder, for any even `Second`.

*The recordings tab.*  `SelectionTold` says what a question in front means: the
selection is what the user was told, or nothing once a recording has begun.
With it the second loop of `onDeleteButton` erases what the first announced.  That
today's directory stays follows from the comparison of names, as long as the
root is spelled as it was at the start.  That the list is the disk needs to know
where files can be: in directories there are (`HomesAreThere`), so that pruning,
which takes directories that look empty, removes none with a row; an end-to-end
file never beside a flight line's (`LogsAreAlone`); and those of the recording
under way (`RecordedIsThere`), which gets its row only when it is over.

*The channel is a mailbox.*  All messages lie behind each other in one stream of
bytes, message `i` from `Begin(i)` on.  `Follows(b, from)` says that `b` is the
piece of it behind `from`, and of two pieces joined that each of them is
(`FollowsBoth`); so it stays true of what is on its way (`Conserved`) and of what
an accept holds (`InLine`, `InItem`) however the bytes are cut, and while messages
are added behind (`GrownFollows`).  An accept that began with a message knows where
in it it is (`Decodes`): a number read back is the number sent (`RoundTrip`, for
any base and width below the modulus), so what it takes for a length is one, and
the next element begins where it looks for it.  Where the accept began is a
number of messages touched (`Stands`), and each return moves it: a complete
message by one (`MailboxTakes`); a failure by one too, or by many if the line was
too long (`LineNotOver`, `ItemNotOver`: nothing that fits is read to its end and
lost).  For a line read from the inside of another, the terminator looked for is
the first in the stream behind that place: it is that of the line it is in, or,
when the place is inside the terminator, of the next one (`LineInside`).  That it
cannot be elsewhere is `LinesAssumption`.  The definitions by recursion
(`Modulus`, `Canonical`, `Unsigned`, `ArrayOf`, `Begin`) are functions on
`0 .. n`; that each has a solution is proved once for all of them (`Recursion`).

Only model-checked: liveness, whose proof would need ENABLED.  The safety of every
passing run is proved.

The provers read `UNION S \ T` and `SUBSET S \ T` otherwise than TLC does; such
terms are parenthesised, so that both check the same definition.

## 5. Plan

Done: the ring and its queue, recording control, the calibrator's lines, the
mount, the GPS parser, the dark frame, popups, exit, the headless interface, the
FTP client, the recordings tab and the IPC channel, and the proofs above.  What
is left: `Timing`, the three failure counts, and `Settings`, a load and save of
`.ngdcs` that a crash can cut, if they get properties worth a run.

## 6. Not modelled

- Vendored code (`src/libusb-1.0`, `src/libtomcrypt-1.17`, `src/aiousb`): most of the
  lines of the repository, and none of its logic.  The share of all lines that the
  modules stand for is small for that reason.
- Drawing, histograms, plots, diagnostics and Maxon tools: sequential GUI code
  that nothing else depends on, or hand-operated tests of a device.
- The timing indicators: counts that a color is made of.
- Settings: parsing and range checks of a text file; what steers a recording is
  a constant of `Recording`, `Obc` and `Headless`, and the roots are in
  `RecordingsTab`.
- Card initialisation, sensors and the serial FIFOs of `framebuf.cpp`: device input
  and output with no state of the program behind them.
- `COMPRESSION_CHANGES` and `ADDemo`: not built.
- Of the IPC library: datagrams, buffered channels, pipes, naming and connecting,
  which NGDCS does not use beyond opening its one connection.
- Memory-model effects below the level of one load or store of an aligned word:
  each shared variable is a machine word, and each load and store is taken as
  atomic.
