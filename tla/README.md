# TLA+ models of the SideCharge EVSE monitor

This directory holds TLA+ models of the SideCharge firmware and of its cloud side, with the TLC
configurations that check them and TLAPS proofs about the parts where proofs pay. Paths below are
relative to the repository; `A/` is `app/rak4631_evse_monitor/`, `E/` is `A/src/app_evse/`.

## 1. The system

A RAK4631 board (nRF52840) watches a J1772 pilot, a current clamp and a thermostat input and can
block charging through a relay. The firmware is split into a **platform** image (Zephyr, Sidewalk,
OTA engine, shell) and an **app** image that is replaced over the air; they call each other
through two function tables. The cloud half is a set of AWS Lambdas around one DynamoDB table.

### 1.1 Components

| Component | State | Operations | Talks to | Correct when | Where modelled |
|---|---|---|---|---|---|
| Event buffer `E/event_buffer.c` | ring `buf`, `head`, `count` | init, add, trim, peek, oldest, newest | timer tick (add, peek), app_rx (trim) | behaves as a bounded log that drops its oldest entry and acknowledged prefixes only | `EventLog`, `EventBuffer` |
| Charge control `E/charge_control.c`, `delay_window.c`, `charge_now.c` | allowed flag, auto-resume, stamp, window, latch, last reason, relay pin | cloud command, tick, button, shell | time_sync, app_rx, app_entry, GPIO | relay follows the flag; no pause is for ever by accident; the latch wins while it is on; windows are kept in true time | `ChargeControl` |
| Downlink dispatch, time sync `E/app_rx.c`, `time_sync.c` | sync epoch, anchor, watermark | message handlers | charge control, event buffer | the latch screens commands; time does not jump for its readers | `ChargeControl`, `Telemetry` |
| App entry `E/app_entry.c` | last readings, drain cursor, heartbeat stamp | init, timer tick, shell | everything in the app | every change is reported once with its reason; the drain makes progress | `ChargeControl`, `Telemetry`, `Panel` |
| Telemetry `E/app_tx.c`, `event_filter.c`, `evse_payload.c` | rate-limit stamp, filter's last entry | send live, send snapshot, submit | platform send | no event lost that the buffer could keep | `Telemetry` |
| Self-test, button `E/selftest.c`, `selftest_trigger.c` | fault flags, chatter ring, press times, blinks | boot, continuous, shell, press detection | relay, LED engine | each gesture does its one thing; a fault flag stands for its cause; a test leaves the relay as it is | `Button`, `Monitor`, `Panel`; the relay in `ChargeControl` |
| LED engine `E/led_engine.c` | state, timers, acknowledgement | tick, set flags | platform LEDs | what is wrong is shown | `Panel` |
| Sensors, diagnostics, authentication | readings; none; key | read; reply; verify | platform API | arithmetic | readings as inputs of `Monitor` |
| OTA engine `A/src/ota_update.c`, `ota_flash.c`, `ota_signing.c` | `ota_state` in RAM; primary, staging and recovery record in flash | START, CHUNK, ABORT, deferred apply, boot recovery | app.c, flash, send | only whole, validated images run; an update survives power loss | `OtaDevice` |
| Platform boot `A/src/app.c` | `app_cb`, timer | start, route message, timer | OTA engine, app | never calls into an app that is being replaced | `OtaDevice` |
| Sidewalk glue, platform API, shell | stack handle, TX state | events | vendored stack | | as the lossy link of the end-to-end modules |
| OTA sender `aws/ota_sender_lambda.py` | session item, baseline | S3 upload, ACK, COMPLETE, retry timer | device, decode | every session ends; an upload is installed despite loss; the baseline is what runs | `OtaSession` |
| Charge scheduler `aws/charge_scheduler_lambda.py` | scheduler item | timer run, forced run | device, decode | opt-out respected; no pause past its reason; a peak is enforced | `Scheduler` |
| Decode `aws/decode_evse_lambda.py` | events, watermark, override | uplink | scheduler, OTA sender, registry | no duplicate effect; divergence re-sends end; a device without a clock gets one | `Scheduler`, `Telemetry`, `OtaSession` |
| Registry, digest, aggregation, dashboard, deploy tools | tables | reports | | | |

### 1.2 What runs when

Two threads and one work queue share the app's statics without a lock. The *work queue* (Zephyr's
system work queue, cooperative priority) runs the 500 ms timer job and the deferred OTA apply; it
preempts both threads at any instruction and gives the processor back only where it blocks (an
ADC conversion, a flash operation). The *Sidewalk thread* (priority 10, `A/prj.conf`) runs the
downlink handlers and preempts the *shell*, which has the lowest priority.

In the cloud every uplink, every S3 upload and every firing of a rule is an invocation of its own.
Nothing serialises them; they share items of one table, read them at their start and write them
without a condition at their end.

### 1.3 Behaviours that are hard

Preemption inside a handler; 32-bit uptime that wraps after 49 days; a clock that jumps at a
re-sync; power loss at every flash operation; an apply that starts 15 s after its validation;
lost, duplicated and late messages in both directions; cloud items that two Lambdas write without
a condition; gestures, blinked results and acknowledgements that share one button and one LED.
`PROJECT.json` lists each one at its line, with the property that covers it or the reason none
does.

## 2. Modules

| Module | Models |
|---|---|
| `EventLog` | abstract: a log of at most Capacity snapshots (`A/include/event_buffer.h`) |
| `EventBuffer` | `E/event_buffer.c`; implements `EventLog` |
| `ChargeControl` | charge control, delay window, Charge Now, time sync and their callers |
| `OtaDevice` | the device's OTA engine, its flash, boot and recovery |
| `OtaSession` | an update end to end: OTA sender, link, device |
| `Scheduler` | demand response end to end: charge scheduler, divergence check, link, device |
| `Telemetry` | events end to end: timer job, `EventLog`, uplinks, decode lambda, TIME_SYNC |
| `Button`, `Monitor`, `Panel` | the button; the continuous self-test; both with the LED engine in one job |
| `...Proofs` | TLAPS proofs about `EventBuffer`, `ChargeControl` (two modules), `OtaDevice`, `OtaSession`, `Scheduler`, `Telemetry`, `Panel` |
| `MC...` | constants for TLC |

The end-to-end modules take over what a detailed one shows: `Telemetry` uses the log that
`EventBuffer` implements, `OtaSession` an apply that is carried to its end (`OtaDevice`), `Scheduler` a
device with a latch and a window that behave as in `ChargeControl`.

### 2.1 EventBuffer

`buf`, `head`, `count` are the three statics, `buf` indexed from 0. `Add`, `Trim`, `Reset` are
`event_buffer_add`, `_trim`, `_init`; `PeekAt`, `Newest`, `OldestTimestamp` are the readers.
`Scan` states what the trimming loop has counted when it stops, `Compact` what either copy branch
leaves behind (they differ in the temporary buffer only). A snapshot is a timestamp and one value
for its other fields. `Contents` is the ring read from its oldest entry, the refinement mapping
to `EventLog`. Calls are atomic here; a trim that an add preempts is in `Telemetry`.

Run `event_buffer`: capacity 3, timestamps 0..2 in any order (the code does not enforce the order
its comment relies on), two payloads. A ring of three reaches every rotation, a trim across the
wrap, a partial trim of a full ring and a refill. 1417 states.

### 2.2 ChargeControl

The job's parts are actions in the order of `app_on_timer`: `ChargeControlTick` (window, else
auto-resume), `PollButton`, the ADC conversion where the queue blocks, `FinishTick` (snapshot,
reason cleared, latch tick). A thread's handler is a sequence of actions, one per store that
another context can see: `ReceiveLegacy`, `ClearWindow`, `SetReason`, `SetAllowed`, `SetStamp`,
`SetRelay`; `ReceiveWindow`, `SetWindowStart`, `SetWindowEnd`; `ReceiveTimeSync`, `SetSyncEpoch`,
`SetSyncAnchor`; for the shell the same `Set...` actions, and `ToggleRelay`, `RestoreRelay` for the
self-test. `Interruptible` names the threads and points at which a handler may be preempted;
`BeforeWrites` are those at which it has only read. Time is counted in units of the minute-and-second
quantities the code compares; `UptimeWrap` stands for 2^32 ms, and uptime wraps through 0.
`pause` is a ghost (who paused, when, for how long, when the latch began, and whether a command had
`crossed` it: passed the latch's test before the press and not yet written), read by properties only; `snap` is what the last snapshot reported. `Reboot` is `app_init`.

The current platform does not map the button's pin (`platform_api_impl.c:255-276` returns -EINVAL
for it), so a press has no effect on this board; `Buttons` is therefore a constant. The passing
run includes presses, because the app is written for a platform that has them; the violation run
needs none.

* `charge_control` (pass, about 2.97 million states, under two minutes): uptime starts one unit before
  its wrap,
  epochs 2..6, windows that are past, current and future, pauses with and without a time-out,
  TIME_SYNC delivered on time or one unit late. Handlers may be preempted at
  every point before their first write (`BeforeWrites`), a command between the test of the latch and
  the window it clears or stores included. Five ticks of time are enough for a pause to be stamped before the wrap and to be due
  after it, and for a window to begin, be replaced and end. Shown: the relay follows the flag,
  the latch ends, and holds against every command that has not crossed it; no pause is orphaned but one
  stamped at uptime 0; auto-resume (not from uptime 0, and without a wrap in between) and windows
  happen in true time; each reported change has a reason. Deadlock is not checked
  because the run ends at `LastEpoch`.
* `charge_control_race` (violation of `RelayMatchesState`, technical-design.md:862): preemption
  anywhere. The shell's `app selftest` saves the pin, a cloud pause runs from beginning to end,
  the self-test restores the pin: charging is on while `charging_allowed` is false.

Known and without a run of its own:

* a pause stamped before `uptime_ms()` wraps is not lifted by its timer after the wrap
  (charge_control.c:164 subtracts a stored stamp from a smaller uptime in 64 bits), and one stamped in
  the millisecond of the wrap, with 0, is not lifted at all (charge_control.c:162 takes it for no
  timer), although PRD.md:469 calls the timer a safety net. `AutoResumesBeforeWrap` is what the code
  does guarantee; `UnwrappedSincePause` leaves out these two cases and no other, and `NoOrphanPause`
  the second (`PausedAtZero`). The instance reaches both.
* A press while a command stands between the test of the latch (app_rx.c:29) and its first write
  begins a latch that the command then ignores, although technical-design.md:880-884 says that
  cloud pause commands are ignored. `LatchHolds` exempts that latch. It needs a button that the
  board's platform does not have, hence no run.
* Preemption after a handler's first write tears TIME_SYNC's pair, a window's two ends, or a reason
  from its change. Only `charge_control_race` allows it; `WindowNotCutShort` and
  `TransitionsAreAttributed` are not claimed there.

### 2.3 OtaDevice

Flash is a function from unit to value, `PageSize` units to a page and `ChunkSize` to a chunk.
`Put` writes as NOR flash does (an overwritten unit becomes `Junk` unless it is equal), `EraseFrom`
erases pages. An image is its content; equality of contents stands for equality of CRCs and
`authentic` for a good signature. `meta` is the recovery record with the image in place of size
and CRC; it has its own page. `ota` is `ota_state`. Handlers (`Start`, `Chunk`, `Abort`) run on the
Sidewalk thread and change RAM and staging; `Chunk` stops in the flash write and goes on in
`ChunkStored`, with whatever `ota` holds by then, because `ShellAbort` (`sid ota abort`) may run in
between. (In START's erase it may too, but START then sets every field, as if the abort had come
first.) The apply is a loop of one flash operation
per step, as the work queue waits for the flash in each: `Mark` (erase the record), `Record` (write
it), `NextPage` (read the page), `ErasePage`, `WritePage`, back to `Mark`, then `EraseStale` and `Finish`
(magic, clear, reboot). `ap.mode` says which of `ota_apply`, `delta_apply` and `ota_resume_apply` is
running; the first two read the live `ota` between operations, which an `Abort` may have cleared
during one, the last its copy of the record. What an operation is given by value it keeps:
`ap.image` is the image a record is written of, captured before its page is erased. `Boot` is
`app_start`: recover, or look for an app and come up. `PowerFail` forgets RAM, possibly with a
prefix of a page written; `Fault` is a flash error. The pyOCD delta helpers, the status uplink and
the length and size checks of messages are left out.

The instance has two pages of three units and chunks of two, so that a chunk lies across the page
boundary; a full and a delta update of the same image, a one-page image that leaves a stale page,
one that claims a signature it has not, and one that does not begin with the magic. Any chunk of any session may arrive at any time:
that covers loss, duplication, reordering and leftovers of older sessions.

* `ota_device` (pass, 22,854 states): two power failures at any point of a full apply or a recovery
  except between the two halves of a record's rewriting; in a delta apply only before the first
  page and after the last; ABORT in every phase but APPLYING, the shell's also not within a chunk's
  write; flash errors at the first record.
  These exclusions are what the next three runs, and the paragraph after them, are about. An image
  without the magic passes validation (neither its CRC nor its signature is about the magic); it is
  put in place whole, the record stays, and this boot and every later one end in recovery without
  app or Sidewalk (`Stranded`, ota_update.c:244-249 and app.c:183-190). `RecoveryCompletes` names that end
  beside the reboot, and deadlock is not checked because the device stops there.
* `ota_metadata_gap` (violation of `BootsWholeImage`; ota_update.c:8-9): the record is erased
  before it is rewritten after every page; power lost in between boots a mixed image.
* `ota_delta_recovery` (violation of `BootsWholeImage`; technical-design.md section 5.4): the record
  does not say that the update is a delta, and recovery copies never-sent chunks from staging.
* `ota_abort_apply` (violation of `RecoveryReboots`; app.c:187): ABORT while the first record's page is
  being erased. That record is right; but page 0 is then read with size 0 and only erased, and the
  second record says size 0 and one of two pages. Power fails; the recovery gives up at page 1, on
  every boot, before Sidewalk starts.

Known and without a run of its own: `sid ota abort` while a delta chunk is being written. The handler
goes on in the zeroed `ota_state` (ota_update.c:805-817), counts one chunk of zero expected, finds
the empty session valid, reports COMPLETE(OK) and schedules an apply of size 0 that would erase the
app partition. PRD.md:713 says of the command: "Cancel an in-progress OTA session". The model has
the steps (`ShellAbort` between `Chunk` and `ChunkStored`); the instance excludes their order.

Fairness: weak fairness of `ApplyStart`, of the apply's steps and of `Boot`. The work queue and the
boot sequence are the highest-priority runnable code and run to their end; a delayed work item is
run when its delay is over. No fairness is assumed of messages or the supply. The number of power
failures is bounded (`MaxFails`), otherwise an endless series of them would defeat any recovery.

### 2.4 OtaSession

`session` is the session's fields in the device-state item (`delta`, `seen` and `restarts` > 0 say which of
the optional ones are there), `baseline` the file in S3, `cached` what
warm containers hold of it, `running` the invocations that have read the session and not yet
written, each with its copy; `down` and `up` are bags, so messages overtake each other. `Upload` is
`handle_s3_trigger`; `Forward` and `Timer` are an invocation's read, `Finish` its decision and write
(`HandleAck`, `HandleComplete`, `HandleTick`, with `RestartSession`, `RetryChunk`, `DeltaProgress`,
`FullProgress`). `Write` sets the fields its copy has and leaves the others of the item as they are. `Receive` is the device (`HandleStart`, `HandleChunk`), `Apply` the 15 s and the copy.
An image is a function from chunk index to content. `Faults` lists the kinds of trouble a run
allows: a lost message, a repeated one, a timer run that finds the link still busy, a reboot of the
device, a flash error, an upload over an open session, a container with an old baseline, and two
failures the code swallows: a COMPLETE whose session cannot be read or whose image cannot be copied
(`unsaved`: ota_sender_lambda.py:125-127, 514-524, the session is cleared all the same) and a
`clear_session` that fails (`uncleared`: 168-169). `happened` remembers which there were; properties
that need an undisturbed session say so with it. A baseline that cannot be read at an upload makes
it a full update and is no trouble; an ACK whose session cannot be read is as good as lost.

* `ota_session` (pass, 236,317 states, about a minute): two uploads, one of them a delta of two chunks in three,
  all kinds of trouble, two troubles of which at most one is not a mere loss; retries and restarts
  at their real limits of 5 and 3. Three chunks let a delta have a first, a last and an absent one,
  and let a count run ahead of, behind and beyond the acknowledged one. Shown: the device runs
  whole images only; a session's fields belong to one upload; baseline and device agree unless a
  reboot, an overlap or a repetition came between, a COMPLETE went unsaved, or a message was lost in a
  session with a stale baseline; an undisturbed session ends, also one whose clearing failed; an
  upload is installed and known to be although messages are lost (`UploadInstalls`: losses only).
  `BaselineInStep` holds while there is less trouble than a session has retries and than twice its
  restarts (here 2 against 5 and 6), `UploadInstalls` under the first of these. With more, a
  session whose every COMPLETE is lost is given up with the old baseline while the device runs the
  new image. With exactly as many troubles as retries, a session given up early leaves a device in
  RECEIVING, and if its flash then fails the next START, it takes that session's chunks for the old
  image's; with exactly twice the restarts, those are used up before a COMPLETE is heard. (TLC finds
  these with one restart, or with more images and uploads than the run has.) Deadlock is not checked: the run stops when all uploads
  are done.
* `ota_session_livelock` (violation of `SessionEnds`; technical-design.md:771): one reboot in a delta
  session. `highest_acked` survives the NO_SESSION restart, the device's first acknowledgements look
  stale, and the retry timer and the device exchange the same chunk and count for ever, each
  acknowledgement resetting `retries`. The same loop can be reached by a duplicated or late START,
  and by a baseline that is not what the device runs, stale or unsaved, whose COMPLETE(CRC_ERR) is lost;
  `UndisturbedSessionEnds` names them.

Fairness: weak fairness of delivery in both directions, of the end of an invocation (AWS ends or
repeats it), of the minute timer and of the apply. Losses are bounded by `MaxFaults`.

Met while modelling, and in the model: a delta of zero chunks (an upload that equals the baseline
but not what the device runs) never completes, and a stray chunk then counts one beyond the total;
a full session's first acknowledgement is always judged a duplicate and progress waits for the timer
(ota_sender_lambda.py:471), so that an image of one chunk, whose first acknowledgement is its last,
takes a retry without any loss; the full-mode fallback of docs/lexicon.md:283 does not exist. `clear_session`'s
read and REMOVE are one step here. A failure that the code does not catch (a write of the session, a
downlink) ends its invocation, which AWS repeats: it counts as a message that comes again or is lost.

What a stale baseline and a loss do together takes three uploads and was found by the proof of
`BaselineInStep`, not by the run: a delta of zero chunks against a stale baseline is given up without
an ABORT, and the device stays in RECEIVING for its image; the next upload's START is lost until a
retry sends its first chunk instead, the device takes that chunk for the old session, completes it with
OK, and the cloud records the new image as baseline while the device installs the old one.

### 2.5 Scheduler

`st` is the item of the device-state table: `last` command, its window's `end`, when it was `sent`, the
`override`, and divergence `retries`. An invocation of the scheduler is `Begin` (reads, including a
failed read, and MOER's answer) and `Finish` (`Decide`: `Allow`, `Suppress` or `Pause`, with the copy
read before; sending and recording are one step). `Record` is `write_state`: it sets the fields it is
given and the override it read, so it can write an old one back. `Decode` is the divergence check,
which calls the scheduler with `force_resend`, and `RecordOverride` the later write of an owner's
Charge Now. `Receive`, `Press`, `CancelLatch`, `Report` are the device. Time advances in ticks longer
than an invocation (`Tick` waits for all of them), and messages take up to `MaxDelay` ticks, in any
order. A snapshot drained later never carries `charge_now` (app_tx.c:147-150). The commands' event log
changes no state that is read.

* `scheduler` (pass, 6,785,838 states, under two minutes): nine ticks, a peak of five with MOER high
  before and in it, one press, one loss (of a command or of a read), a delay of one tick. A peak,
  an opt-out, a latch and a resend interval then begin and end in every order, and a timer run, a
  forced run, a divergence and a record overlap on the item. Shown: no pause outlives its reason;
  an opt-out on record is respected by every later run that could read it; a device stays unpaused
  during it; an undisturbed peak is enforced: within a resend interval and a delivery in which
  nothing is lost, no latch or override is in force and no command from before the peak is still
  under way (`Undisturbed`). An `allow` sent before the peak and delivered in it ends a pause that the
  cloud believes in until the next resend; the run's delay of one tick is too short for that, and
  the proof, which is for every delay, asked for the exclusion. Safety only, so no fairness; deadlock is not checked
  as time stops at `Horizon`.

Known and excluded by the ghost `optOut`: an owner who renews Charge Now while an earlier record is in
force may lose the renewal, as an invocation that read before it writes the earlier end back after
it (charge_scheduler_lambda.py:187). An `allow` is verified by the divergence check only until the
next timer run replaces it by `off_peak`, so a lost `allow` is not always repeated; the window's own
end bounds the pause, which is what `NoPauseOutlivesReason` says.

### 2.6 Telemetry

`Tick` is `app_on_timer`: `Submit` (event filter, `event_buffer_add`), then either a `Live` uplink or one
snapshot of the `Drain`, with the cursor and the remembered oldest timestamp. `Receive` is TIME_SYNC
on the Sidewalk thread: it sets the clock and chooses what the trim keeps; `StoreTrim` stores the
result, and one tick may run in between (`trimming.cut`): the next comes half a second later, and a
trim takes microseconds. `Decode` is the lambda, with AWS's repetition (`again`) and its
duplicate check (`duplicate`), and `NeedsSync`. The ring is `INSTANCE EventLog`, whose implementation
by `EventBuffer` is proved. Sidewalk's readiness and the rate limit are one input, `free`; elapsed
heartbeats are inputs. `sent` is a ghost: which entries reached the radio.

* `telemetry` (pass, 165,965 states, about two minutes): capacity 2, four events, three seconds,
  one uplink on its way, one fault (loss, repetition or reboot). A ring of two overflows under the
  cursor, with entries from before the first sync (stamp 0) and, after it, with two stamped entries
  and the cursor past the first; it is trimmed wholly and in part, and a trim is preempted by an
  add. Shown: each entry behind the cursor was sent, and each entry is sent or leaves the ring, as long
  as entries have stamps of their own; a device without a clock gets one.
  Deadlock is not checked as counters stop at their bounds.

Fairness: strong fairness of a tick whose heartbeat is due and of a quiet tick, both with a free
radio (the 500 ms timer never stops, and the radio is again and again ready and outside the rate
limit, but not at every tick); weak fairness of the lambda, of the delivery of a TIME_SYNC that is not
lost and of the trim's store.

What the properties leave out: the cursor knows its entry by the stamp (app_entry.c:288-292). Two events
of one second look alike to it, and the drain may skip one (`clash`); so do all that are recorded before
the first sync, stamped 0, and when a full ring of those overflows the drain does skip some (`oldest` = 0).

The watermark is the cloud's clock, not the newest stored event, so a trim drops entries that were never
sent; PRD.md:850 and 854 and technical-design.md:515 say it in different words. `sent` follows the ring
as the code trims it, and what a trim under way will bring back. The bytes moved by a trim's `memmove`
are one step: a preemption inside it is not modelled, nor is the shell's direct call of `app_tx_send`.

### 2.7 Button, Monitor, Panel

One step of `Panel` is one timer job of 500 ms: five ticks of the LED engine, the button
(`TriggerTick`), the latch, the self-test's watches (`ContinuousTick`), the ADC's report. `Button` has one
action for each way a poll can go: `LastPress` (starts the self-test), `Press`, `Held`, `Released`, and
`DriveBlinks` while a result is shown and the button is not read. A time stamp is its age in jobs and
stops at `Old`; a ring of time stamps is the set of their ages, of which it keeps the youngest.
`scene` chooses at boot which inputs vary: button, sensors, link or all of them. The run takes the
first three, as the parts meet in the LED and crossing all of them multiplies the states without a
new meeting; the proofs hold for "all" as well. `ghost` is what a user did and saw, computed without
the code's own state; `ghost.errorFor` counts the jobs in which the LED engine had an error to show.

* `panel` (pass, 149,142 states, about 40 s). Single press 3, long press 6, three checks, blink
  pause 2, five LED ticks, six acknowledgement steps and the ADC threshold 3 are the code's values;
  press count 4, press window 8, pilot 3, clamp 4, chatter window 6, two toggles, a ring of four,
  commissioning 3, link 5 and `Old` 9 are scaled with their order kept. Shown: every gesture is
  read as what it was; FAULT_SENSOR follows its two causes although the toggle ring forgets; what is
  wrong reaches the LED. Deadlock is checked.

Not in the model: the wrap of uptime and 0 as "no stamp" (a double press that no poll clears could
count again 49 days later, and so could toggles); timing of blinks inside a pattern. The button's pin
is not mapped on this board (platform_api_impl.c:255-276).

Met while modelling, and in the model as the code has them: `evse_current_read` always returns 0 mA,
so every charge longer than 10 s raises the clamp fault and the LED shows an error instead of
"charging" (PRD.md:544), and the interlock fault cannot be raised; chatter sets the error LED, which
PRD.md:635 excludes; the flags of a failed GPIO, of an OTA apply and of the charge-block pin have no
caller that sets them; the button is not read while a result blinks, so one that goes up unseen may
end in a long press that nobody held (`ReadsGestures` exempts it); the Sidewalk timer starts at the
first not-ready tick of a boot and is not cleared by a connection in time, so the first disconnection
more than ten minutes after boot is an error at once (PRD.md:519, 533); a pilot that goes bad right
after a chatter keeps FAULT_SENSOR; the uplink of a failed self-test is asked for once and may fall to
the rate limit.

## 3. Proofs

`EventBufferProofs`, for every `Capacity` in Nat \ {0}, every set of timestamps that are natural
numbers and every set of data without the blank value (the three named assumptions of
`EventBuffer`):

| Theorem | States |
|---|---|
| `TypeCorrect` | `Spec => []TypeOK` |
| `RingShapeCorrect` | `Spec => []RingShape` |
| `ReadsAreWritten` | `Spec => []LiveSlotsWritten` |
| `EndsAgreeCorrect` | `Spec => []EndsAgree`: readers from head and from the tail name the same ends |
| `RingImplementsLog` | `Spec => ImplementsLog` |
| `TrimIsExactCorrect` | `Spec => TrimIsExact` |

The inductive invariant is the conjunction of `TypeOK`, `RingShape` and `LiveSlotsWritten`. `TypeOK` alone is not enough:
that a readable slot was written depends on where the tail is, and `tail_index()` deduces that from
`count` and `head`, right only under `RingShape`; `RingShape` in turn is preserved by `Add` because a
ring that fills up wraps `head` to 0. The lemmas `AddPeek` and `CompactPeek` say how an operation
moves the reader's view, and `WrapOnce` does the modular arithmetic. The refinement shows for each
action that `Contents` changes as `EventLog` says, with `IInv` of the state before. `TrimIsExactCorrect`
then speaks of the log only: the entry at which the scan stopped is the least of the rest.

`OtaDeviceProofs`, for every flash geometry, set of images and sessions, and every choice of the
points where power and flash fail:

| Theorem | States |
|---|---|
| `WritesUnderRecord` | `Spec => PrimaryWrittenUnderRecord` |
| `DeferredArmedCorrect` | `Spec => []DeferredArmed`, if no ABORT arrives while APPLYING |
| `ValidatedStaysCorrect` | `Spec => []ValidatedStays`, if no ABORT arrives while APPLYING |
| `TypeCorrect` | `Spec => []TypeOK`, if announced images fit the partition, every session has a chunk, and the shell does not abort within a chunk's write |

`WritesUnderRecord` rests on `ApplyInv`: an apply that is anywhere at all has stopped the app, and
one that is past its first record has a record in flash. It needs no assumption on aborts: even an
apply whose session was zeroed keeps the order. `DeferredArmedCorrect` rests on `DeferredInv`, which
adds that a running apply is in phase APPLYING and a chunk being written in RECEIVING or aborted:
otherwise the ERROR of the one or the completion of the other would fall on another session.
That assumption is necessary: after an ABORT in APPLYING a new session may complete, and the old
apply's failure then overwrites its COMPLETE.
`ValidatedStaysCorrect` rests on `ValidInv`, which adds that an apply resumed from a record runs in the
recovery only and that a device that is not up is in no session: what is assembled in COMPLETE can
then be disturbed by no apply but its own, and every handler keeps it or leaves COMPLETE.

`TypeCorrect` needs its three assumptions because a chunk count stays in range only while the session
that it counts in has a chunk left: section 2.3 says what a shell's abort within a write does to it.

Also in `OtaDeviceProofs`, in the same generality and with any number of power failures, in one
setting (`Setting`): images fit the partition; no ABORT is handled while an image is applied, nor the shell's while a chunk is stored; power
does not fail between the two halves of a record that is rewritten, nor amid the pages of a delta;
a flash error, if any, comes with the first record. The runs `ota_metadata_gap`, `ota_delta_recovery`
and `ota_abort_apply` show what becomes of the theorems without it, and section 2.3 says it of the shell.

| Theorem | States |
|---|---|
| `ResumeReadyCorrect` | `Spec => []ResumeReady` |
| `BootsWholeImageCorrect` | `Spec => []BootsWholeImage` |
| `HaltsOnlyWithoutAppCorrect` | `Spec => []HaltsOnlyWithoutApp`: a recovery gives up only over a whole image that is no app |

The last is what is true of the claim that `ota_abort_apply` violates: within the setting a recovery fails
for want of the magic only, not of a page, a size or a record.

`RecoveryInv` adds to the invariants above that the flash is durable and that an apply is on its way.
`Durable`: if there is a record, the pages it counts are in the app partition and the rest is in
staging; without one, the app partition holds one whole image. `Applying` ties a running apply to the
record (`Recorded`), to its bounds (`Placed`) and to what it has copied and can still read (`Copying`).
`ResumeReady` alone is not inductive: the page about to be erased is still to be had from staging, or
in a delta from the old image merged with staging, only because of `Copying`. The lemmas about pages
(`PageOf`, `PagesCover`, `PartAt`) do the division once.

`ChargeControlProofs`, for every set of windows, durations and delays, every uptime, and any number of
ticks, commands, presses and restarts in a run no longer than one round of the uptime counter (49
days, `NumberAssumption`), in which it may wrap. All but `TypeCorrect` assume further that the timer job
cuts into a handler only where it has not written anything yet (`Interruptible` within `BeforeWrites`,
which holds every such point of both threads); `charge_control_race` shows that without it the first
theorem is false. `LatchHolds` exempts a latch that a command crossed, `NoOrphanPause` a pause stamped
at uptime 0 (section 2.2).

| Theorem | States |
|---|---|
| `RelayMatchesStateCorrect` | `Spec => []RelayMatchesState` |
| `LatchHoldsCorrect` | `Spec => []LatchHolds` |
| `NoOrphanPauseCorrect` | `Spec => []NoOrphanPause` |
| `WindowNotCutShortCorrect` | `Spec => WindowNotCutShort` |
| `TypeCorrect` | `Spec => []TypeOK`, wherever the job cuts in |

`TypeInv` adds to the types that a thread stands at a point of the handler whose command it holds:
what a handler writes has its type only then.
The properties speak of states between handlers, so none of them is inductive: `CInv` says what
each point of a handler has written so far. `Alone` says that a handler past its first point works
alone, `RelayInv`, `LatchInv` and `PauseInv` what may differ until it ends. The last theorem needs
`ClockInv` as well, which says that the device's clock is never ahead of the true time: `SinceStep` is
its arithmetic, a difference of two uptimes modulo the wrap grows by one or starts again at zero.

`ChargeTimeProofs`, in the same generality; the first two theorems hold wherever the job cuts in, the
other two need the assumption of `ChargeControlProofs`.

| Theorem | States |
|---|---|
| `LatchEndsCorrect` | `Spec => []LatchEnds` |
| `WindowEndsCorrect` | `Spec => []WindowEnds` |
| `AutoResumesBeforeWrapCorrect` | `Spec => []AutoResumesBeforeWrap` |
| `TransitionsAreAttributedCorrect` | `Spec => TransitionsAreAttributed` |

`TimeInv` ties each stamp of uptime to the true time it was taken at (`TakenAt`): the code subtracts
stamps, the properties speak of true time, and the two agree only while less than one round lies between them.
A poll follows each step of time, so what a poll leaves behind is not yet due. `DueInv` adds to a timed
pause when it began (`PauseTime`), and to a flag that differs from the last snapshot a reason (`Reasoned`).

`SchedulerProofs`, for every peak, MOER signal, duration, delay, number of presses and losses, with the
constants' named assumptions only (`OptOutAssumption`: a Charge Now recorded before the peak ends
before the peak does, four hours against four hours in the code):

| Theorem | States |
|---|---|
| `NoPauseOutlivesReasonCorrect` | `Spec => []NoPauseOutlivesReason` |
| `PauseRespectsOptOutCorrect` | `Spec => []PauseRespectsOptOut` |
| `OptOutHonouredCorrect` | `Spec => []OptOutHonoured` |
| `PeakEnforcedCorrect` | `Spec => []PeakEnforced` |
| `TypeCorrect` | `Spec => []TypeOK` |

Four invariants. `ReasonInv`, which needs only the types: where the end of a window in the item's copy,
on its way or on the device comes from. `OptOutInv` (`Copies`, `Recorded`, `PauseRespectsOptOut`): a copy
with an override still in force was read when the item held one and holds at least the recorded end, so
that what is written back keeps it, and no pause is sent across it. `HonourInv`, which contains
`OptOutInv` (`InTime`, `EarlySenders`, `LatchCovers`, `Unpaused`): which windows can still arrive after
the latch. `PeakInv`, which contains `HonourInv`: since the peak is undisturbed the device has a window
to its end, or one sent since then is on its way (`Covered`), or it is not too late for the timer's
run to send one (`Waiting`); and a record, or an invocation's copy of it, that would keep that run
from sending tells of a window that was sent since (`SentSince`), which nothing in an undisturbed
peak takes away again.

`TelemetryProofs`, for every capacity of the buffer and any number of events, uplinks, losses,
repetitions, restarts and preempted trims:

| Theorem | States |
|---|---|
| `TypeCorrect` | `Spec => []TypeOK` |
| `BehindCursorSentCorrect` | `Spec => []BehindCursorSent` |

`BehindCursorSent` is about entries with stamps of their own, as section 2.6 says: neither those of a shared
second nor those from before the first sync. `DrainInv` says of the ring, and of what a trim under way keeps, that it is `Accounted`: no second is
shared (`Distinct`), the stamp the cursor was counted from is the head's or nobody's (`HeadOnly`), and
what lies before the cursor was sent (`Behind`). A trim that a tick cut into brings entries back that
the ring may have dropped meanwhile, which is why it is stated of both; with two ticks inside one trim
it would not hold, and half a second between jobs excludes that.

`OtaSessionProofs`, for every number of chunks, every set of images, all kinds of trouble and every
number of uploads, troubles, retries and restarts:

| Theorem | States |
|---|---|
| `TypeCorrect` | `Spec => []TypeOK` |
| `RunsWholeImageCorrect` | `Spec => []RunsWholeImage` |
| `OneSessionsFieldsCorrect` | `Spec => []OneSessionsFields` |

An invocation sets the fields of the copy it read, so what is true of the session is stated of every
copy too (`Kept`), and copies of one session agree on whether it is a delta (`Alike`): no copy without a
list sets its total over an item that has one. `Fit` says that list and total belong together. `Assembled` says of the device that
what it has in COMPLETE is the image it was promised: the CRC is checked once, and only an apply, a new
START, an ABORT or a restart touch it afterwards.

`BaselineInStep` has a theorem of its own, with a bound on the troubles:

| Theorem | States |
|---|---|
| `BaselineInStepCorrect` | `Spec => []BaselineInStep`, if `MaxFaults` < `MaxRetries`, `MaxFaults` < 2 `MaxRestarts` and `Chunks` > 1 |

`BaselineInStep` is about the end of a session, and what happens there was decided earlier: `StepInv`
says it of every stage. In the absence of the troubles that the property exempts, one message is
under way or being handled, with a copy of the item as it is now, and the stage is one of
`Announcing` (the device knows nothing of the session), `Sending` (what it holds is this image's),
`Applying` (it has the image, and the cloud may know and have failed to clear the session), `Installed` (it runs it, and the cloud may not know), `Leftover` (it
still receives for a session that was given up), `Outdated` (a delta against a stale baseline: no
stage to speak of, but nothing is lost) or `Between` two sessions. The crux is `Installed`: the cloud
may not give up there before it has heard of it. So `Tries` and `Paid` keep the accounts from the
session's start: a retry costs one trouble, a restart two or a flash error. The three assumptions
are what the accounts need: section 2.4 says what happens at the first two limits, and with one
chunk a retry is spent without a trouble. The chunk a delta sends next is defined by its place in the ascending list; `NthIn` is the lemma
that there is such a chunk for every place, without induction.

`PanelProofs`, for all press counts, windows, time limits, ring sizes and LED timings of the named
assumptions, of which two are not mere ranges: a single press is over before the window of the
multiple press is (`SinglePress` <= `PressWindow`, 1.5 s against 5 s in the code), and an acknowledgement takes
less than two jobs (`AckSteps` < 2 `LedTicks`, 6 against 10 in the code):

| Theorem | States |
|---|---|
| `TypeCorrect` | `Spec => []TypeOK` |
| `ReadsGesturesCorrect` | `Spec => []ReadsGestures` |
| `FaultsExactCorrect` | `Spec => []FaultsExact` |
| `NoticeShownCorrect` | `Spec => []NoticeShown` |

Each compares what the code remembers with what happened. `GestureInv`: the stamps inside the window
are the presses made, a press is pending while the last one was alone, a hold is timed from its
edge, and while a result blinks nothing of a gesture is kept. `RingInv`: a toggle that the ring has
forgotten was pushed out by more younger ones than chatter takes, so counting what is left decides
as counting all would; `PilotInv` ties the pilot's stamp to the jobs it was unreadable. `LinkInv`: while
Sidewalk is down its timer is as old as the shorter of the outage and the time without a result;
`AckInv`: an acknowledgement that fills a whole job began with no error to show. The lemmas about
ages (`AgedSmaller`, `AgedSame` and those after them) say what aging does to a set and to its count.

Only model-checked: liveness (`RecoveryCompletes`, `UndisturbedSessionEnds`, `UploadInstalls`,
`DrainCatchesUp`, `ClockRestored`), which is out of TLAPS's reach. Every invariant and every action
property that a passing run checks, and the refinement, is proved.

## 4. Not modelled

* The vendored Sidewalk and Zephyr code, and the glue around it (`A/src/sidewalk_events.c`, `ble` and
  `tx` state): the end-to-end modules take from it a link that loses, delays and reorders.
* Wire formats beyond what they decide; sensor thresholds and ADC scaling (arithmetic the unit tests
  cover); LED blink timing inside a pattern.
* Diagnostics (a stateless reply), command authentication and image signatures (a message is
  authentic or not), the shell's print-outs and simulation commands.
* The platform API's remaining functions (I/O), the app's API version check, LED and GATT set-up.
* Registry, health digest, aggregation and dashboard (reports without a protocol), Terraform and the
  deployment tools (their uploads are inputs of `OtaDevice` and `OtaSession`).

## 5. Plan

1. An abstract specification of the update (the partition changes from one whole image to another
   in one step) that `OtaDevice` implements under `Setting`, with its proof.
2. `Telemetry`: the trim's `memmove` torn by an add, and the shell's live uplink.
3. `OtaDevice`: flash errors after the first record, followed by a START.

## 6. Running

    tlc -config OtaDevice.cfg MCOtaDevice.tla     (MCChargeControl, MCEventBuffer, MCOtaSession)
    tlc -config Scheduler.cfg Scheduler.tla       (Telemetry, Panel)
    tlapm ChargeControlProofs.tla                 (ChargeTimeProofs, EventBufferProofs,
                                                   OtaDeviceProofs, OtaSessionProofs, PanelProofs,
                                                   SchedulerProofs, TelemetryProofs)
