# Verification of the Wildfire Monitor firmware

TLA+ models of the firmware in this repository, their TLC configurations, and theorems
about them that TLAPS checks. The firmware runs on one ESP32 with FreeRTOS tasks on two
cores. It records what a motorcycle's two BLE devices (a motor controller and a Daly BMS)
and an IMU report, into a file on the flash; nothing at the other end cooperates, and the
ignition cuts the power whenever it likes. So the questions asked here are those that the
host tests under `tests/` cannot ask: what two tasks do to each other, what a callback
finds when it comes late, what is left after a power cut, and whether everything that was
asked for happens.

## 1. The system

| Component | State | Operations | Meets |
|---|---|---|---|
| Capture store `main/capture_store.c` | the directory, `s_file`, a ring in RAM, `s_active`, `s_stop_req`, `s_full`, `s_done_sem` | `store_begin/write/set_addrs/end/remove/remove_all`, the writer task | producers on four tasks call `store_write`; the capture task begins and ends; the console removes |
| Capture task `main/capture.c` | `s_pub`, `s_link[]`, `s_queue`, `s_abort`, `s_rec_on`, `s_ble_down`, `s_scanning` | seven messages, the periodic work, the NimBLE callbacks, the `cap_*()` functions | buttons, console and updater post messages; opens and closes the store; starts and stops the IMU task |
| Link bring-up `main/capture.c` | `s_op_sem`, `s_op_rc`, `s_op_conn_handle`, connection handles | `link_connect`, `link_setup`, `link_drop` and the GATT callbacks | the NimBLE host task completes what the capture task waits for |
| BMS poll `main/capture.c` | `poll_count`, `poll_unanswered`, `poll_refused` | width decision, `link_poll`, `notify_sink` | shared between the capture task and the host task |
| IMU logging `main/imu.c` | `s_run`, `s_task`, `s_task_done` | `imu_log_start`, `imu_log_stop`, the IMU task | a producer of the store; joined by the capture task |
| Firmware update `main/ota_update.c`, `main/ota_health.c`, `main/wfota/` | two app slots, otadata, the channel and its trial in NVS, the gates | check, download, confirm, roll back | shuts BLE down, uses the Wi-Fi join, reboots |
| Readout `main/webdump.c`, `main/wifi_store.c`, `main/cmd_cap.c` | the access point, the HTTP server and its one task, the stored networks | start, list, send and remove a capture, edit networks and channel, stop | reads closed captures; needs BLE gone; the console edits the same list and removes the same files |
| Buttons, menu and modes `main/main.c` | `s_btn_q`, `s_ble_spent`, the message on the panel, the selected entry | short and long presses of three buttons; readout mode and update mode, from the menu or the console | posts to the capture task, shuts BLE down, brings Wi-Fi up through the readout and the update |
| Display `main/ui.c`, `main/display.c` | the page, the dirty flag, the backlight | redraw task, page changes | reads the published state |
| Estimator `main/wfest/`, `main/est_store.c` | distance, Odometer, the ring of Consumption, the all-time totals, the charge figures, and what of these is persisted | a step per frame, anchor, save, load | fed by `notify_sink` on the host task, saved by the capture task when a capture ends |
| BLE explorer, console `main/ble_explorer.c`, `main/cmd_ble.c` | `s_op_sem`, `s_op_rc`, one connection, the database it discovered | scan, connect, discover, read, write, exchange the MTU, pair | a second user of the NimBLE host, beside the capture task's scan |
| Decoders `main/wfdecode/` | none | bytes to fields, walking a log | used by the sink, the estimator and the host tools |
| Drivers `main/board.c`, `main/i2c_bus.c`, `main/rtc_bm8563.c` | registers | GPIO, ADC, I2C | everything |
| Host tools `scripts/*.py` | none | code generation, fitting, conversion | offline |

What is hard in it: five tasks and the interrupts of two radios share unguarded
`volatile` flags; the handlers of the capture task block for seconds, in which callers
post and callbacks run; one binary semaphore stands for the completion of every host
operation; waits have timeouts and what was waited for does not go away; the store may be
cut off between any two flash writes. `PROJECT.json` lists each of these under "hazards",
at the line where it bites, with the property that would catch it.

What makes each component correct:

* store: a closed capture never changes, a file can be parsed whatever happened, every
  record is in the file or counted as dropped, the writer never touches a closed `FILE*`,
  a stop flushes, a power cut costs a bounded tail;
* capture task: the published state is true, a capture follows the workflow, a queued
  stop or shutdown takes effect, lost links are tried again, nothing is left open;
* link bring-up: no connection without an owner, no handle of somebody else's;
* BMS poll: an answer fits and decodes, a count that means what it says, a BMS that
  serves only the narrow read is asked for it;
* IMU: no sample after the stop has returned, one task for each run;
* update: an image that does not come up is never kept, one that does is not lost;
* buttons and modes: one user of the radio at a time, a mode that fails leaves no radio up, the
  button task always comes back, button A never offers what BLE can no longer do;
* readout: a list update mode can go through, answers that are true of the flash, a download that
  ended well is whole, and no client holds the one server task;
* estimator: no metre and no watt-hour lost or counted twice, a sum that is divided by is not zero,
  what was saved is what the next start finds;
* explorer: a result is that of the procedure it was asked for, a database that of the device that is
  connected, no connection without an owner.

## 2. Modules

| Module | Models | Uses |
|---|---|---|
| `CaptureLog` | what `capture_store.h` promises: numbered logs, written once | |
| `CaptureStore` | `capture_store.c`, with power cuts | implements `CaptureLog` |
| `CaptureApi` | the capture task as its callers see it: state, queue, how far BLE is shut down | |
| `Capture` | the task, the queue, the callers and callbacks of `capture.c` | implements `CaptureApi` |
| `CapLink` | the link bring-up of `capture.c`, down to single host operations | |
| `BmsPoll` | how wide the BMS is polled | |
| `ImuLog` | the start, the stop and the task of `imu.c` | |
| `Firmware` | what two app slots and a roll-back promise | |
| `Ota` | `ota_update.c` from the download on, `ota_health.c`, the start of `app_main()` | implements `Firmware` |
| `Modes` | the button task, the menu and both modes of `main.c`, `web_start/stop`, `otaup_check` | extends `CaptureApi` |
| `Totals` | what the estimator promises of the figures that outlive a ride | |
| `Trip` | distance, Odometer, Consumption and their persistence, with power cuts | implements `Totals` |
| `Readout` | the HTTP handlers, the list of networks, and the console commands that meet them | |
| `Explorer` | the procedures of `ble_explorer.c`, their callbacks, and the capture task's scan | |
| `*_proofs` | theorems about the module of that name; `Capture_proofs` also has those about `ImuLog`, `GattClient_proofs` those about `BmsPoll` and `Explorer` | extend it |
| `MC*` | small instances for TLC | extend the module of that name |

Definitions carry the names of the functions they stand for; the comment over each
variable names its counterpart, and the "map" in `PROJECT.json` the lines. Operators whose
comment says "Mutation of" are plausible bugs, used to see that each property is able to fail;
no specification refers to them.

### CaptureStore

A step is one critical section (`s_ring_mux`, `s_file_mtx`) or one access to a volatile
flag. `api` is the program counter of the capture task in `store_begin()`
(`BeginOpen`, `BeginHeader`, `BeginLaunch`, `BeginActivate`, or `BeginFail`) and
`store_end()` (`EndCall`, `EndRequest`, `EndJoin`, `EndClose`); `wpc`, `wret` and `pass`
that of the writer task; `ppc[p]` that of a producer in `store_write()`. Bytes are counted
in cells, so a record may wrap in the ring and be split between two flash writes. A power
cut resets the RAM, and keeps of the open file what was synced and any prefix of the rest.
Left out: a full directory read, `fwrite()` that fails (a hazard without a property), the
contents of records and of the header.

Two constants name what the code arranges elsewhere. `QuietEnd`: no producer is inside
`store_write()` when `store_end()` is called; `do_record_stop()` clears `s_rec_on`, joins
the IMU task and waits 20 ms for it, and the run `store` relies on that.
`QuietRemove`: captures are removed while none is open; the run `store_removal` does
without and shows the window the code leaves.

`DrainAssumption` relates the sizes: the drain that comes before the event "storage full" gets to a
record boundary, even while each producer adds the one record for which it had already checked `s_full`.
Otherwise the event would be written into the middle of a record, and no file could be parsed beyond it.
Nothing in the code states this; its 16 passes of 1 KB, its ring of 12 KB and its records of at most 261
bytes satisfy it. That the passes together take the ring and a record of each producer is not enough: with one producer
of three records of four cells, a ring of four and three passes of three, TLC breaks `Parsable`.

### Capture

The handlers of the capture task, cut where they block. `tpc` is where the task is, `ret`
and `scanRet` where the sub-steps return to. `cpc[c]` is what a caller does:
`cap_record_stop()` sets `s_abort`, then posts; `cap_ble_shutdown()` does that, and waits.
Callbacks (`OnDisconnect`, `DiscEnds`, `OnDiscComplete`, `Report`, `Notify`) come at any time. Timeouts
and the watchdog are a nondeterministic choice. A connection is one bit here, a file
another: `CapLink` and `CaptureStore` have them.

### CaptureApi

What the rest of the firmware can tell of the capture task: `cap_state()`, the commands in its
queue (not the callbacks' messages), `ble` and the semaphore of `cap_ble_shutdown()`. `Capture`
implements it by the mapping at its end (`Api`), which reads `busy` off the task's program counter;
`Modes` is built on it. So a property of `Modes` about BLE is one about `capture.c`.

### CapLink

The same task down to single operations of the NimBLE host, and the host as this code
uses it. What a wait that timed out left behind completes later, with the callback that
cannot say which operation it is for. `late` records that a connect began while
something was still left behind; the code has no protection from that case, so
`NoneLeaked` speaks of the behaviours before it, `OwnHandle` of all.

### BmsPoll

`link_poll()` and the width decision, cut at the critical sections of `s_mux`, against
`notify_sink()`. The peer answers a nondeterministic set of widths; frames may be lost; the number of
registers that the decoder needs is that of the build (`Needs`).

### ImuLog

Start, stop and the body of the task. Task control blocks are reused; three of them are
enough for a late task of the last run next to that of this one.

### Ota

A step is one write to the flash, to otadata or to NVS, and a reset may come after any of
them. `stage` is where `app_main()` is, `watch` the watch task, `ipc` the install task;
`PickChannel` is the console or the settings page, which may be used at any time. `Boot` is the
bootloader: a new image becomes pending, a pending one is given up for the other slot. Of an
image the model knows which it is, how many pieces came and whether all of them were the
published ones: that is what the length and the digest tell. Which gates an image gets to
pass is a constant, `Passes`; that the uptime is over, a nondeterministic choice. `origin` and `picked`
remember which channel an image was offered on and what the rider chose since; `lost`,
that NVS does not hold the trial of that channel, because a write failed, a reset came
between the switch and the trial, the channel was changed during the download, or the trial of an
earlier image was cleared late. The code accepts these; `RevertsChannel` and
`ChoiceKept` speak of the rest.

The check that precedes an install (join, manifest, comparison of versions) is one step,
`Begin`, in which any image is on offer; `Modes` has its steps.

### Modes

Two tasks, `"buttons"` and `"console"`. `pc[t]` is where each is: in its loop, in a screen that waits
for a press, or in a step of a mode; `mode[t]` says which one. Both modes run on the task that chose
them, so a mode started from the console and the menu may overlap, and all screens take their presses
from the one queue `btnq`, which fills while nobody reads. `web`, `ota` and `drv` are the flags of
`webdump.c`, those of `ota_update.c` and the Wi-Fi driver behind both; each step that fails tears down
what its own flags say. That a driver call, a join or a download fails, and that a wait times out, is a
nondeterministic choice. A restart ends the behaviour: nothing in this module outlives it, and `Init`
is the next boot, after a roll-back or not. `late` remembers that a shutdown was not answered in
its 30 s (`cap_ble_shutdown()` only logs it, the mode goes on), `answer` whether a press was made on
the offer.

Two constants. `InTime`: a shutdown that was queued is answered in 30 s; the run `modes` does without.
`OneAtATime`: one task at a time is in the menu or a mode, and no `ota check` is typed in readout
mode. Nothing in the code arranges that: with `OneAtATime = FALSE`
TLC breaks `RadioReleased` in a few steps, as `otaup_stop()` deinitialises the driver under a
readout server that runs. `OneRadio`, `RadioReleased` and `SpentKnown` therefore speak of a bench that
keeps to one mode; what the rider does with the buttons alone satisfies it by itself.

### Totals and Trip

`Totals` has no more than three records: the figures as they are, the copy of them that is on its way
to flash and the one that is there. `Trip` has the host task's steps per frame under `s_mux`
(`OdoFrame`, `MotionFrame`, `PowerFrame`, `BmsAnswer`), the capture task's copy and its write outside
the lock (`EstPersist`, `EstStoreSave`), the power cut, and `PowerOn` with a blob of any version that
may be there: the decoding of it is `Decode`, in which a field that a layout did not have is absent.
Metres and watt-hours are whole numbers, a quotient is rounded down; the code has floats, so what
rounding does is not covered, what is added to what is. The distance is pulled to the Odometer as
`distance_step()` does, floored at zero. Left out are the charge Anchor, Internal Resistance, Cell and cruise
filters: averages whose values only arithmetic could judge; of the charge figures `charge` says whether there are any.

`Rolls` keeps the bike from half the Odometer's span between two of its frames, which is how
`odo_fold()` tells a wrap from a reading set back.

### Readout

Two callers, the httpd task and the console; `at[c]` is where each is, `op[c]` what it was asked for. An
edit of the list is `Load` (which may fail and is then taken for no list), `Edit` on the copy, and `Save` (which
may fail having changed nothing, or everything): three steps, with the other task's between them. A
request body comes in `Pieces` or not at all; a capture is sent in blocks, and may be removed between
any two. A page is its buttons: a form of the settings page names a network it showed, a row of the
listing a capture it showed. `Modes` has how the server comes up and goes down; here `running` goes
once, and the two are not composed. The console's own list of captures is cut off at the 64 of
`WEB_LIST_MAX` as the page's is.

### Explorer

`pc`, `op` and `target` are where the console task is in a procedure; `jobs` (a set, each
with its number), `disc` and `attempt` what the host works at. A wait that timed out leaves its job there, and the reports and the
completion of it come when they come, into `svcs`, `table`, `buf` and the semaphore of whatever the console does by then.
That is what the code does; nothing in it tells a late callback from one in time. The history
variables name the cases in which it nevertheless must not matter: `clean` (nothing was left when the procedure was started), `sound`
(so for each procedure of a discovery), `torn` (the link went during it), `gaveUp` (a connect timed out, and the host has not been without an
attempt, a link and a disconnect to report since: until then a link may come up that the console does
not know of, or the report of its end takes away another). The properties
speak of the behaviours outside these. `Gatt` and `Ends` are what a device serves: `ExplorerAssumption` has its handles
ascend, within a service and from service to service, as ATT requires.

The device table, the notification log and recorder, and what the commands print are left out.

## 3. Runs

Every run checks for deadlock except as its cfg says: `trip` and `readout` stop at their bounds. Type
correctness of all modules but `Trip`, `Readout` and `Explorer` (whose proofs state the types they need),
`WidthDecodes`, `RefusedKept`, `CountsWhatLeft`, `ClosedImmutable` and `SpentKnown` are proved for every instance and
not run.

| Run | Bounds, and why they suffice | Shows |
|---|---|---|
| `store` | two producers; records of one and two cells, a ring of three, two moved at a time: records wrap, are split and do not fit; two numbers, so that one is removed and its number is looked at again; two stamps, one power cut | `WriterHoldsFile`; `Parsable`; `Accounted`; `NoForeign`; `CutLossBounded`; `Conservation`; `EndFlushes`; `ImplementsLog`; `ApiReturns` |
| `capture` | two links, a queue of two, three calls: start, stop and a shutdown, with a second capture; one fault | `RecordsIntoFile`, `StateTruthful`, `ImplementsApi`, `StopHonoured`, `ShutdownHonoured`, `KeepsTrying` |
| `link` | two links of which one rotates its address and the other is polled, three handles, the MTU exchange and one more operation | `NoneLeaked`, `OwnHandle` |
| `bms` | two tries, two requests under way, MTUs that fit both widths, one or none | `WidthFits`, `Narrows` |
| `imu` | three task blocks, stops that may time out | `OneTaskPerRun` |
| `modes` | all presses and the console commands that start a capture or a mode, both queues of one, so that commands and presses are lost; shutdowns answered or not; boots after a roll-back | `OneRadio`, `RadioReleased`, `Settles` |
| `ota` | three images, one of which cannot mount the store; images of two pieces; two installs, so that one may be confirmed or given up before the other; two unasked resets, in addition to the restart after an install; one write that fails | `RevertsChannel`, `ChoiceKept`, `ImplementsFirmware`, `Earned` |
| `trip` | a window of two buckets of two metres, so that it fills, turns and is restored; an Odometer of four readings, so that two counts wrap it; gaps below and above the cap; blobs of layout 2, of this one and of a later one, and none; one save, one power cut | `OdometerAccount`, `WindowWhole`, `WindowAccount`, `KeptIsLatest`, `ImplementsTotals` |
| `readout` | a list of two and three networks to type, so that one is refused; captures of one and two blocks; forms in two pieces; three requests and commands in any mixture, so that one of a task may fall between two of the other's | `NetsSound`, `AnswerTrue`, `WholeFile`, `HttpdFree` |
| `explorer` | two devices with different databases; commands as long as fewer than three procedures were started, and a discovery runs on to its end: a late completion meets two commands after it and every step of a discovery; the capture task's scan beside them | `OwnResult`, `DatabaseTrue`, `DatabaseCurrent`, `LinkOwned` |

The other runs each end in a violation: a sentence of a comment or header that the code
does not keep.

| Run | The sentence | What happens |
|---|---|---|
| `store_removal` | `capture_store.c:742`: "never delete the file being written" | the guard is `s_active`, which is not set for as long as the file is open |
| `modes_replay` | `main.c`, over `update_confirmed()`: "Nothing installs without this. [...] now chooses the image." | a press made while the check still ran waits in the queue and confirms an offer the rider has not seen; `board_btn_flush()` exists and nobody calls it |

Smaller disagreements that were met and that no run covers: "Never gives up while recording"
(`capture.c:1599`), but a stop that found the queue full leaves `s_abort` set, and the reconnects with it; a
connect that raced its cancellation is "terminated rather than leaked" (`capture.c:1239`), but a
completion left over from an earlier operation may be taken for it; t_ms "can never run
backwards" (`capture.c:1530`), but a record is stamped before it is pushed and another task's may overtake
it; `cap_record_stop()` "closes the file and drops both links" (`capture.h:81`), but it posts a message, and
`main.c:870` cuts the power right after; "Power off has to work from every screen" (`main.c:744`), but in readout mode a held PWR is read and
does nothing; a mode that is refused because a capture began behind the menu leaves the menu on the
panel, with nobody in it (`main.c:731`: "a failure has its own screen to show"); the duration
in the header is not the time of the last record (`wflog_format.h:44`), as `write_direct()`
does not note it and `s_last_t_ms` is written after the push; `s_abort` is not set all the
while a stop is queued (`capture.c:298`), since `handle_msg()` clears it for any start
that comes before; a second caller of `cap_ble_shutdown()` returns while the host is still
going down (`capture.c:2138`); `s_scanning` may be off while a discovery runs
(`capture.c:295`); after an MTU exchange that timed out two GATT operations are in flight
(`capture.c:288`); `poll_refused` may be set for a BMS that has answered wide reads
(`capture.c:261`); a late IMU task may give its token after the drain, and this run's stop
then does not wait "for this run's task" (`imu.c:350`); the trial is the channel selected when
the download has ended, not "the channel an image was installed from" (`ota_update.h:174`).

### Fairness

`CaptureStore`: the steps that continue a call or the writer's loop are weakly fair: each
task blocks in its loop, the writer has a timed wait, so the scheduler comes round to all of
them. Nothing makes anyone begin, stamp or remove. `Capture`: the task is weakly fair, and
strongly fair for coming round to a link that stays down, since its reconnect loop goes through the
links in turn each time; callers and the radio owe nothing. `BmsPoll`: the task polls
every second while the link is up, and of the requests some get out (strong fairness of
`Write`: a radio out of buffers for ever would look like a lost link, which the watchdog drops); an
answer comes or is lost. `ImuLog`: a task that sleeps between two samples runs again.

`Readout`: the httpd task is weakly fair as long as it does not wait for its client (`Handler`): a receive
and a send time out. That a form arrives is not assumed, nor that the console goes on. `Trip` and
`Explorer` state no fairness: nothing in them is promised to happen.

`Modes`: the button task, each mode's steps and the capture task are weakly fair, since every wait has a time-out
and the tasks have a core; nobody presses or types anything, and no call on the driver succeeds in the
end.

`Ota`: `app_main()` runs to its end and the watch task wakes up every second, both weakly fair; no
install has to go on and no reset has to come.

## 4. Proofs

`CaptureStore_proofs` proves, for every set of producers, ring and drain size, number of files and
number of power cuts that satisfy `StoreAssumption` and `DrainAssumption`:

* `TypeCorrect`: the type invariant;
* `WriterKeepsFile`: `WriterHoldsFile`. It is not inductive: that the writer is gone
  when the join returns needs that a token in `s_done_sem` means a writer that has exited,
  and that there is a token or a writer while the join waits. `HandOver` says so, over
  `api`, `wpc`, `doneSem` and `fileOpen`;
* `ClosedStays`: `ClosedImmutable`. `OpenEntry` adds that while a file is open and its entry exists,
  that entry is in state "open", and only the file of `s_seq` is; the rest is that every write goes
  through `s_seq` while `fileOpen`;
* `OwnRecords`: `NoForeign`, given `QuietEnd`. `OwnInv` follows the cells from a
  producer's hands through ring and buffer into the file: all carry the capture
  of `s_seq`, because a producer holds one only while the capture it saw is open;
* `DropsCounted`: `Accounted`, given `QuietEnd`, with the same invariant about producers;
* `LossIsBounded`: `CutLossBounded`. `LossInv` has a bound for each place of the writer: what waits
  for a sync, plus what the passes of the drain so far have added, plus what is in the buffer;
* `NothingLost`: `Conservation`. It is nearly inductive: `ConsInv` adds that the buffer is empty except
  between a pop and its write, that a file just opened is empty, and that a producer's record is its own;
* `EndLandsAll`: `EndFlushes`, given `QuietEnd`. `EndInv` says what the ring may still hold at a pass of
  the last drain: no more than the passes left move (`Left`);
* `FilesParse`: `Parsable`, given `QuietEnd`. `StreamInv`: the cells of file, buffer and ring in a row are whole
  records. `EventInv`: while the drain before the event runs, what may still come, from the
  ring and from producers that had checked `s_full`, fits into the passes left (`HasSlack`), with
  `DrainAssumption`;
* `StoreIsLog`: `ImplementsLog`, given `QuietEnd` and `QuietRemove`. With `Conservation`, the abstract log of the
  open capture is what was accepted, wherever its cells are: moving them is a stutter. `RefInv` adds that only the
  file being written is in state "open", and that nothing is accepted before it is.

`Ota_proofs` proves for every set of images, gates they pass, sizes and channels, and any
number of resets, installs and failing writes:

* `WellTyped`, with the bounds of the counters;
* `UpdatesSafely`: `ImplementsFirmware`, by the refinement mapping of `Ota` and the invariant that otadata
  names the running slot except between the switch and the next boot (`BootSlot`), that whatever
  is on trial has a published image that is not on trial in the other slot (`Fallbacks`), and that
  the watch task's `s_probation` is still what otadata says when it acts on it (`Watched`);
* `ChannelComesDown` and `ChoiceStays`: `RevertsChannel` and the action property `ChoiceKept`. To that
  invariant, `RInv` adds that no image that was given up runs (`Standing`), what `app_main()` has learned by each of its
  stages (`Knows`), that the trial in NVS is the channel the image on trial was offered on (`Recording`), and that it
  is there until the channel was put back, wherever a reset cuts the revert off (`Reverting`); the last two for
  as long as NVS lost nothing.

`Capture_proofs` proves for any number of links and callers, any length of the queue and any number of faults:

* `WellTyped`;
* `RecordsSafely` and `SaysTheTruth`: `RecordsIntoFile` and `StateTruthful`. One invariant gives both: at each
  place of the task, what the state, `s_rec_on` and the file are (`FileInv`), which links may be held or wanted
  (`LinkInv`), and where the place returns to (`PcInv`). The last is what a test does not see: the handlers
  share their sub-steps, and a stop that came in the middle of a bring-up has to come back to another place than one
  from the queue;
* `TaskIsApi`: `ImplementsApi`. Each action is a step of `CaptureApi` or a stutter, with `DownInv`: after
  the host is down the task is at its queue or giving the token, and a discovery runs only in the two states that show
  one. A post is `CaptureApi`'s or lost in a full queue, and a receive takes its command or a
  callback's message: leaving these messages out of a sequence commutes with appending and with taking the head;
* `RunsAlone` and `ImuWellTyped`, of the IMU task: `OneTaskPerRun`, for any number of task blocks, from the fact that
  between the drain and `xTaskCreate()` there is neither a task nor a token.

`GattClient_proofs`, of the explorer, for any devices, databases and number of procedures:

* `EveryLinkOwned` and `DatabaseIsCurrent`: `LinkOwned` and `DatabaseCurrent`. As long as no connect was given up on, there is never a link
  beside an attempt or a disconnect to report (`OwnedInv`), and while a database counts, its link has not
  gone (`CurInv`);
* `ResultIsOwn`: `OwnResult`. A procedure that was started with nothing else under way is the only one there is
  (`Alone`, `Mine`), until it has given the semaphore and the host is at rest (`Had`);
* `DiscoversTheTruth`: `DatabaseTrue`. `SoundInv` says that the discovery so far had no late completion in it;
  `TrueInv`, that its tables are the device's up to the service or characteristic in progress: the services
  (`SvcsInv`), the characteristics of those services in order (`ChrsInv`, with `CharsFollow`: what one service
  adds follows what those before it had), and of each the CCCD that is its own (`DscsInv`, with `OwnCccd`: between
  a value and the next definition no other characteristic's can be).

The same module, of the BMS poll, for all widths, MTUs and tries: `WellTyped`, `AnswerFits`, `AlwaysDecodes`, `RefusalRemembered` and
`CountTrue` (`WidthFits`, `WidthDecodes`, `RefusedKept`, `CountsWhatLeft`). What had to be added says that a
decision stays good until it is acted upon: the width chosen fits and decodes until the link is subscribed,
the copy that `link_poll()` took is the width until it narrows, and the request being
written is in one count and not yet in the other.

`Modes_proofs`, for any lengths of the queues, any presses and commands, with `OneAtATime`: `OneRadioHolds`,
`SpentKnownHolds` and `RadioReleasedHolds`. `OneRadio` rests on who waits for a shutdown:
as long as none went unanswered, one that is under way (in the queue, in the task's hands or as a
token) has its caller in the join (`Owned`), it is the only one (`OnlyOne`), and the capture task gives
the token after the host has stopped (`Answered`); so a mode that goes on finds BLE down (`Parted`). Each
step of the other tasks is one that leaves the shutdown aside (`AsideStep`). `RadioReleased` rests on what
each label of a mode has brought up (`Radio`, `Stage`), and on the other task being at rest
(`OneBusy`). `WellTyped` needs no assumption.

`CapLink_proofs`, for any number of links and handles and two GATT operations or more in a
set-up: `HandleIsOwn` (`OwnHandle`) and `NoConnectionLeaks` (`NoneLeaked`). For the first, what
`s_op_conn_handle` holds while a connect is waited for is a connection of that link and ends the
attempt (`ConnectInv`), and a handle that was dead before it was stored is found out by the second
operation at the latest, the first that may not fail (`Early`; with a single operation the property is
false). For the second, as long as nothing was left behind, nothing but the connect can complete while it is
waited for (`Alone`), and a link never has two connections (`OneEach`), or the disconnect of one would take
away the handle of the other.

`Trip_proofs`, for every window, Odometer span, metres of a count, speed, power and gap, every blob that may be in
flash and any number of power cuts: `TripKeepsTotals` (`ImplementsTotals`) and
`AnchorIsTheRoad` (`OdometerAccount`). The first needs that a copy is decoded as it was
encoded (`Faithful`), and that a distance that is not marked as known is 0 on both sides of the
flash (`LiveInv`, `Readable`): the start takes no distance that is not marked. The second carries the distance
of the reading from the last one heard, as a number and not as a remainder, around the end of the
counter (`OdoInv`).

Three more: `WindowIsWhole` and `WindowAccounts` (`WindowWhole`, `WindowAccount`) sum over the ring. `RingInv` says which
buckets are filled and that each is long enough; the sum of the ring changes by the one bucket that is
replaced. `LatestIsKept` (`KeptIsLatest`): a copy on its way to flash has the
totals of the last capture's end (`LatestInv`).

`Readout_proofs`, for lists, captures and bodies of any length and any number of requests: `ListStaysSound` (`NetsSound`), as
both copies of the list are sound and both edits keep a list so (`AddedSound`, `RemovedSound`), and
`CompleteIsWhole` (`WholeFile`), as the download under way has received what was read of the file (`SentInv`).
`ToldTheTruth` (`AnswerTrue`) follows a caller from the load to the answer: unless the other wrote the list
since, its copy is the list before the edit, and after the save what it is about to say is true of the list
(`Told`).

The library's induction theorems take an operator and cannot be used, but where a fact about sequences or
sums has to be followed through their lengths, the set of lengths at which it fails is a set of naturals: if there is one
there is a least (`NatMin`, from finite sets), and at that one the step from the one before refutes it
(`NatInd`, stated about sets). Sums over the ring, the records of a file and the commands in a queue are proved so.

Two attempts were findings about the models. `gaveUp` of the explorer was once cleared as soon as there was
no attempt and no link; the proof of `LinkOwned` did not go through while the disconnect of the late link was still to
be reported, and with nine procedures TLC found the behaviour. And `DrainAssumption` was first the obvious
inequality, the passes against the ring and a record of each producer; `HasSlack` is what came out of why it does not do.

Assumed are only the named assumptions on constants, which each run evaluates. Every invariant, action
property and refinement that a run checks is proved. Only model-checked are the properties that rest on
fairness, which the prover does not do: `ApiReturns`, `StopHonoured`, `ShutdownHonoured`, `KeepsTrying`,
`Narrows`, `Settles`, `Earned` and `HttpdFree`. Proofs that need `QuietEnd`, `QuietRemove` or `OneAtATime` say so in
their theorem or its assumption; what happens without is in section 2.

## 5. What is left

Done: everything that records, the firmware update, the buttons and modes, the readout, the
estimator's distance and Consumption, the explorer. Next, in this order:

1. `Panel`: the redraw task, messages and the dark panel, the debouncing of a press.
2. The advice and the charge Anchor of the estimator: when they are taken up, not their arithmetic.
3. `Readout` under `Modes`: one server that comes up and goes down while pages stay open, also
   across a restart.
4. Proofs: the safety half of what the liveness properties rest on, such as that a queued stop is never dropped
   from the queue without being handled, and that an install that is not interrupted leaves a bootable slot.

### Not modelled

The drivers (registers and buses), the drawing, and the decoders (pure functions over bytes with host tests of
their own); the floating-point filters; the notification recorder and the device table of the
explorer; the clock and display commands; the Python tools, which run offline.
