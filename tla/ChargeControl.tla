---------------------------- MODULE ChargeControl ----------------------------
(***************************************************************************)
(* Who may charge, and when: app_evse/charge_control.c, delay_window.c,    *)
(* charge_now.c and time_sync.c, with the three callers that share their   *)
(* statics without a lock:                                                 *)
(*   - the Sidewalk thread, app_rx_process_msg (downlinks);                *)
(*   - the shell thread, below it in priority;                             *)
(*   - the timer job on the system workqueue, which outranks both and      *)
(*     gives way only while an ADC conversion blocks it.                   *)
(*                                                                         *)
(* Interruptible says at which points of which thread's handlers the job   *)
(* (or, for the shell, a downlink) may cut in.  The build allows all of    *)
(* them; none means that a handler always runs to its end.                 *)
(*                                                                         *)
(* One unit of time stands for a minute: the poll period is far shorter,   *)
(* so a poll follows every command and every step of time (ticked), and    *)
(* handlers take no time.  Uptime 0, a unit here, is the one millisecond   *)
(* in which the 32-bit counter has just wrapped.                           *)
(***************************************************************************)
EXTENDS Integers

CONSTANTS Windows,        (* [start, end] of the delay windows sent        *)
          Durations,      (* duration_min of a legacy command, 0 = forever *)
          Delays,         (* how long a TIME_SYNC travels                  *)
          LatchUnits,     (* CHARGE_NOW_DURATION_MS                        *)
          UptimeWrap,     (* uptime_ms() is 32 bits                        *)
          FirstUptimes,   (* how long the device has been up               *)
          FirstEpoch,     (* the true time when the run starts             *)
          LastEpoch,      (* bound: when it ends                           *)
          Buttons,        (* what the board's button can do                *)
          Interruptible

ASSUME NumberAssumption ==
    /\ LatchUnits \in Nat \ {0} /\ UptimeWrap \in Nat \ {0}
    /\ FirstEpoch \in Nat /\ LastEpoch \in Nat /\ FirstEpoch <= LastEpoch
    /\ Durations \subseteq Nat /\ Delays \subseteq Nat
    /\ \A d \in Delays : d < FirstEpoch
    /\ LatchUnits < UptimeWrap /\ LastEpoch - FirstEpoch < UptimeWrap
    /\ FirstUptimes \subseteq 1..(UptimeWrap - 1)
ASSUME WindowAssumption == Windows \subseteq [start : Nat, end : Nat]
ASSUME ButtonAssumption == Buttons \subseteq {"single", "long"}

Points == {"clear", "reason", "allow", "stamp", "relay",  (* legacy, shell *)
           "start", "end",                                (* delay window  *)
           "epoch", "anchor",                             (* TIME_SYNC     *)
           "save", "restore"}                             (* shell selftest*)
Threads == {"rx", "shell"}

(* The points of a handler up to its first write, where a thread has only  *)
(* read: from the test of the latch, app_rx.c:29, to charge_control.c:70,  *)
(* delay_window.c:50 and time_sync.c:50.                                   *)
BeforeWrites == {<<"rx", "clear">>, <<"rx", "start">>, <<"rx", "epoch">>,
                 <<"shell", "reason">>, <<"shell", "save">>}

Reasons == {"NONE", "CLOUD_CMD", "DELAY_WINDOW", "CHARGE_NOW", "AUTO_RESUME",
            "MANUAL"}

VARIABLES
    now,     (* true device epoch, which the cloud knows                   *)
    up,      (* uptime_ms(), 0..UptimeWrap-1                               *)
    ctl,     (* current_state: allowed, resume (auto_resume_min), stamp    *)
    reason,  (* last_transition_reason                                     *)
    relay,   (* the charge_block pin: TRUE blocks charging                 *)
    window,  (* delay_window.c: has, start, end                            *)
    latch,   (* charge_now.c: active, start                                *)
    sync,    (* time_sync.c: synced, epoch, up                             *)
    thr,     (* what each thread is doing, and its command                 *)
    job,     (* the timer job: idle, or sampling (blocked on the ADC)      *)
    ticked,  (* a job began since time moved or a handler ran              *)
    snap,    (* charge_flags of the last snapshot                          *)
    pause    (* ghost: who paused, when, for how long; when a latch began, *)
             (* and whether a command had passed the test of it by then    *)

device == <<ctl, reason, relay, window, latch, sync>>
vars   == <<now, up, ctl, reason, relay, window, latch, sync, thr, job, ticked,
            snap, pause>>

Idle     == [pc |-> "idle"]
NoWindow == [has |-> FALSE, start |-> 0, end |-> 0]
Allowed  == [allowed |-> TRUE, resume |-> 0, stamp |-> 0]
Calm     == \A t \in Threads : thr[t].pc = "idle"

(* Unsigned 32-bit subtraction of uptimes.                                 *)
Since(t) == (up - t) % UptimeWrap

(* time_sync_get_epoch: 0 until the first TIME_SYNC.                       *)
Epoch == IF sync.synced THEN sync.epoch + Since(sync.up) ELSE 0

-----------------------------------------------------------------------------
(* app_init: charging allowed, pin low, everything else forgotten.         *)
NoLatch == [active |-> FALSE, start |-> 0]
NoSync  == [synced |-> FALSE, epoch |-> 0, up |-> 0]
NoPause == [by |-> "NONE", at |-> 0, for |-> 0, latched |-> 0,
            crossed |-> FALSE]
Resting == [t \in Threads |-> Idle]

Init ==
    /\ now = FirstEpoch /\ up \in FirstUptimes
    /\ ctl = Allowed /\ reason = "NONE" /\ relay = FALSE
    /\ window = NoWindow /\ latch = NoLatch /\ sync = NoSync
    /\ thr = Resting /\ job = "idle" /\ ticked = FALSE
    /\ snap = TRUE /\ pause = NoPause

(* Nothing is received in the first millisecond: up is 1 at once.          *)
Reboot ==
    /\ up' = 1 /\ UNCHANGED now
    /\ ctl' = Allowed /\ reason' = "NONE" /\ relay' = FALSE
    /\ window' = NoWindow /\ latch' = NoLatch /\ sync' = NoSync
    /\ thr' = Resting /\ job' = "idle" /\ ticked' = FALSE
    /\ snap' = TRUE /\ pause' = NoPause

(* Time passes between handlers, and never without a poll.  The counter    *)
(* wraps through 0.                                                        *)
AdvanceUnwrapped ==
    /\ Calm /\ job = "idle" /\ ticked
    /\ now < LastEpoch
    /\ now' = now + 1
    /\ up' = up + 1
    /\ ticked' = FALSE
    /\ UNCHANGED <<device, thr, job, snap, pause>>
Advance == /\ Calm /\ job = "idle" /\ ticked
           /\ now < LastEpoch
           /\ now' = now + 1
           /\ up' = (up + 1) % UptimeWrap
           /\ ticked' = FALSE
           /\ UNCHANGED <<device, thr, job, snap, pause>>

-----------------------------------------------------------------------------
(* The ghost follows the writes of charging_allowed.                       *)
PausedBy(who, units) ==
    pause' = [pause EXCEPT !.by = who, !.at = now, !.for = units]
Resumed == pause' = [pause EXCEPT !.by = "NONE", !.at = 0, !.for = 0]

ResumeBy(r) ==
    IF ctl.allowed
    THEN UNCHANGED <<ctl, reason, relay, pause>>
    ELSE ctl' = Allowed /\ reason' = r /\ relay' = FALSE /\ Resumed

(* charge_control_tick, first half: a stored delay window, once the time   *)
(* is known.  Its pause leaves auto_resume_min and the stamp alone.        *)
WindowOverWhilePaused == Epoch > window.end /\ ~ctl.allowed
WindowOver == Epoch > window.end
WindowTick ==
    \/ /\ WindowOver
       /\ ResumeBy("DELAY_WINDOW")
       /\ window' = NoWindow
    \/ /\ ~WindowOver /\ Epoch >= window.start /\ ctl.allowed
       /\ ctl' = [ctl EXCEPT !.allowed = FALSE]
       /\ reason' = "DELAY_WINDOW"
       /\ relay' = TRUE
       /\ PausedBy("DELAY_WINDOW", 0)
       /\ UNCHANGED window
    \/ /\ ~WindowOver /\ (Epoch < window.start \/ ~ctl.allowed)
       /\ UNCHANGED <<ctl, reason, relay, window, pause>>

(* Second half: the auto-resume timer.  The difference is a signed 64-bit  *)
(* one of two 32-bit uptimes.                                              *)
AutoResumeDueLate == up - ctl.stamp > ctl.resume
AutoResumeDue == up - ctl.stamp >= ctl.resume
AutoResumeTick ==
    /\ IF ~ctl.allowed /\ ctl.resume > 0 /\ ctl.stamp > 0 /\ AutoResumeDue
       THEN ResumeBy("AUTO_RESUME")
       ELSE UNCHANGED <<ctl, reason, relay, pause>>
    /\ UNCHANGED window

(* The job may start, or go on after the ADC, wherever the threads stand.  *)
GivesWay(t)  == thr[t].pc = "idle" \/ <<t, thr[t].pc>> \in Interruptible
MayInterrupt == \A t \in Threads : GivesWay(t)

ChargeControlTick ==
    /\ job = "idle" /\ MayInterrupt
    /\ job' = "button"
    /\ ticked' = TRUE
    /\ IF window.has /\ Epoch # 0 THEN WindowTick ELSE AutoResumeTick
    /\ UNCHANGED <<now, up, latch, sync, thr, snap>>

(* poll_button decides what the button did; a single press activates.      *)
(* A command that has passed the test of the latch will act regardless.    *)
Latched == pause' = [by |-> "NONE", at |-> 0, for |-> 0, latched |-> now,
                     crossed |-> thr["rx"].pc \in {"clear", "start"}]
ActivateSilent ==
    /\ latch' = [active |-> TRUE, start |-> up]
    /\ ctl' = Allowed
    /\ relay' = FALSE
    /\ Latched
    /\ window' = NoWindow
    /\ UNCHANGED reason
Activate ==
    /\ latch' = [active |-> TRUE, start |-> up]
    /\ ctl' = Allowed
    /\ reason' = IF ctl.allowed THEN reason ELSE "CHARGE_NOW"
    /\ relay' = FALSE
    /\ Latched
    /\ window' = NoWindow

(* charge_now_cancel; a start nobody reads any more is forgotten.          *)
Cancel == /\ latch' = NoLatch
          /\ pause' = [pause EXCEPT !.latched = 0, !.crossed = FALSE]

PollButton ==
    /\ job = "button"
    /\ job' = "sampling"
    /\ \/ UNCHANGED <<ctl, reason, relay, window, latch, pause>>
       \/ "single" \in Buttons /\ Activate
       \/ /\ "long" \in Buttons /\ latch.active
          /\ Cancel
          /\ UNCHANGED <<ctl, reason, relay, window>>
    /\ UNCHANGED <<now, up, sync, thr, ticked, snap>>

(* The rest of app_on_timer, after the ADC: snapshot, clear the reason,    *)
(* charge_now_tick.                                                        *)
Report == snap' = ctl.allowed /\ reason' = "NONE"

LatchOverLate(unplugged) == Since(latch.start) > LatchUnits \/ unplugged
LatchOver(unplugged) == Since(latch.start) >= LatchUnits \/ unplugged
FinishTick ==
    /\ job = "sampling" /\ MayInterrupt
    /\ job' = "idle"
    /\ Report
    /\ \E unplugged \in BOOLEAN :
          IF latch.active /\ LatchOver(unplugged) THEN Cancel ELSE UNCHANGED <<latch, pause>>
    /\ UNCHANGED <<now, up, ctl, relay, window, sync, thr, ticked>>

-----------------------------------------------------------------------------
(* Threads.  A step of one needs the processor: the job is not running,    *)
(* and the shell waits for the Sidewalk thread.                            *)
At(t, p) == /\ thr[t].pc = p
            /\ job # "button"
            /\ t = "shell" => thr["rx"].pc = "idle"
Goto(t, p) == thr' = [thr EXCEPT ![t].pc = p]
Return(t)  == thr' = [thr EXCEPT ![t] = Idle]
Frame == ticked' = FALSE /\ UNCHANGED <<now, up, latch, job, snap>>
Arrives == Frame /\ UNCHANGED <<ctl, reason, relay, window, sync, pause>>

Setting(p, allowed, units, why) ==
    [pc |-> p, allowed |-> allowed, for |-> units, why |-> why]

(* app_rx_process_msg: a message of the 0x10 family is dropped while the   *)
(* latch is active (and when its tag is wrong, which changes nothing).     *)
Listening == /\ At("rx", "idle")
             /\ GivesWay("shell")
LatchIgnored == Listening
NotLatched == Listening /\ ~latch.active

ReceiveLegacy ==
    /\ NotLatched
    /\ \E allowed \in BOOLEAN, d \in Durations :
          thr' = [thr EXCEPT !["rx"] = Setting("clear", allowed, d, "CLOUD_CMD")]
    /\ Arrives

ReceiveWindow ==
    /\ NotLatched
    /\ \E w \in Windows : thr' = [thr EXCEPT !["rx"] = [pc |-> "start", w |-> w]]
    /\ Arrives

ReceiveTimeSync ==
    /\ Listening
    /\ \E d \in Delays :
          thr' = [thr EXCEPT !["rx"] = [pc |-> "epoch", epoch |-> now - d]]
    /\ Arrives

(* app evse allow, app evse pause, app selftest.                           *)
ShellCommand ==
    /\ At("shell", "idle")
    /\ \/ \E allowed \in BOOLEAN :
             thr' = [thr EXCEPT !["shell"] = Setting("reason", allowed, 0, "MANUAL")]
       \/ thr' = [thr EXCEPT !["shell"] = [pc |-> "save"]]
    /\ Arrives

(* charge_control_process_cmd starts by clearing the window ...            *)
ClearWindow ==
    /\ At("rx", "clear") /\ Goto("rx", "reason")
    /\ window' = NoWindow
    /\ UNCHANGED <<ctl, reason, relay, sync, pause>> /\ Frame

(* ... and goes on, like the shell, with charge_control_set_with_reason.   *)
SetReason(t) ==
    /\ At(t, "reason") /\ Goto(t, "allow")
    /\ reason' = IF thr[t].allowed # ctl.allowed THEN thr[t].why ELSE reason
    /\ UNCHANGED <<ctl, relay, window, sync, pause>> /\ Frame

SetAllowed(t) ==
    /\ At(t, "allow") /\ Goto(t, "stamp")
    /\ ctl' = [ctl EXCEPT !.allowed = thr[t].allowed, !.resume = thr[t].for]
    /\ IF thr[t].allowed THEN Resumed ELSE PausedBy(thr[t].why, thr[t].for)
    /\ UNCHANGED <<reason, relay, window, sync>> /\ Frame

SetStampOnAllow(t) ==
    /\ At(t, "stamp") /\ Goto(t, "relay")
    /\ ctl' = [ctl EXCEPT !.stamp = IF thr[t].allowed /\ thr[t].for > 0
                                    THEN up ELSE 0]
    /\ UNCHANGED <<reason, relay, window, sync, pause>> /\ Frame
SetStamp(t) ==
    /\ At(t, "stamp") /\ Goto(t, "relay")
    /\ ctl' = [ctl EXCEPT !.stamp = IF ~thr[t].allowed /\ thr[t].for > 0
                                    THEN up ELSE 0]
    /\ UNCHANGED <<reason, relay, window, sync, pause>> /\ Frame

SetRelay(t) ==
    /\ At(t, "relay") /\ Return(t)
    /\ relay' = ~thr[t].allowed
    /\ UNCHANGED <<ctl, reason, window, sync, pause>> /\ Frame

(* delay_window_process_cmd and time_sync_process_cmd store their fields   *)
(* one by one; a new window replaces the old.                              *)
SetWindowStart ==
    /\ At("rx", "start") /\ Goto("rx", "end")
    /\ window' = [window EXCEPT !.start = thr["rx"].w.start]
    /\ UNCHANGED <<ctl, reason, relay, sync, pause>> /\ Frame

SetWindowEnd ==
    /\ At("rx", "end") /\ Return("rx")
    /\ window' = [window EXCEPT !.end = thr["rx"].w.end, !.has = TRUE]
    /\ UNCHANGED <<ctl, reason, relay, sync, pause>> /\ Frame

SetSyncEpoch ==
    /\ At("rx", "epoch") /\ Goto("rx", "anchor")
    /\ sync' = [sync EXCEPT !.epoch = thr["rx"].epoch]
    /\ UNCHANGED <<ctl, reason, relay, window, pause>> /\ Frame

SetSyncAnchorOnce ==
    /\ At("rx", "anchor") /\ Return("rx")
    /\ sync' = IF sync.synced THEN sync
               ELSE [sync EXCEPT !.up = up, !.synced = TRUE]
    /\ UNCHANGED <<ctl, reason, relay, window, pause>> /\ Frame
SetSyncAnchor ==
    /\ At("rx", "anchor") /\ Return("rx")
    /\ sync' = [sync EXCEPT !.up = up, !.synced = TRUE]
    /\ UNCHANGED <<ctl, reason, relay, window, pause>> /\ Frame

(* selftest_boot from the shell: save the pin, drive it high and low, put  *)
(* back what was saved.                                                    *)
ToggleRelay ==
    /\ At("shell", "save")
    /\ thr' = [thr EXCEPT !["shell"] = [pc |-> "restore", saved |-> relay]]
    /\ relay' = FALSE
    /\ UNCHANGED <<ctl, reason, window, sync, pause>> /\ Frame

RestoreNothing ==
    /\ At("shell", "restore") /\ Return("shell")
    /\ Arrives
RestoreRelay ==
    /\ At("shell", "restore") /\ Return("shell")
    /\ relay' = thr["shell"].saved
    /\ UNCHANGED <<ctl, reason, window, sync, pause>> /\ Frame

Job    == ChargeControlTick \/ PollButton \/ FinishTick
Rx     == \/ ReceiveLegacy \/ ReceiveWindow \/ ReceiveTimeSync
          \/ ClearWindow \/ SetWindowStart \/ SetWindowEnd
          \/ SetSyncEpoch \/ SetSyncAnchor
Shell  == ShellCommand \/ ToggleRelay \/ RestoreRelay
Set(t) == SetReason(t) \/ SetAllowed(t) \/ SetStamp(t) \/ SetRelay(t)

Next == \/ Advance \/ Reboot \/ Job \/ Rx \/ Shell
        \/ \E t \in Threads : Set(t)

Spec == Init /\ [][Next]_vars

-----------------------------------------------------------------------------
(* Properties.  Calm is a state between handlers.                          *)

Numbers == 0..(LastEpoch + UptimeWrap)
Pauses  == [by : Reasons, at : Numbers, for : Durations, latched : Numbers,
            crossed : BOOLEAN]
Commands ==
    {Idle, [pc |-> "save"]}
    \cup [pc : {"clear", "reason", "allow", "stamp", "relay"}, allowed : BOOLEAN,
          for : Durations \cup {0}, why : {"CLOUD_CMD", "MANUAL"}]
    \cup [pc : {"start", "end"}, w : Windows]
    \cup [pc : {"epoch", "anchor"}, epoch : Numbers]
    \cup [pc : {"restore"}, saved : BOOLEAN]

(* The statics keep their C types and the threads their handlers' points.  *)
TypeOK ==
    /\ now \in FirstEpoch..LastEpoch /\ up \in 0..(UptimeWrap - 1)
    /\ ctl \in [allowed : BOOLEAN, resume : Durations \cup {0}, stamp : 0..(UptimeWrap - 1)]
    /\ reason \in Reasons /\ relay \in BOOLEAN /\ ticked \in BOOLEAN
    /\ window.has \in BOOLEAN
    /\ latch \in [active : BOOLEAN, start : 0..(UptimeWrap - 1)]
    /\ sync \in [synced : BOOLEAN, epoch : Numbers, up : 0..(UptimeWrap - 1)]
    /\ thr \in [Threads -> Commands]
    /\ job \in {"idle", "button", "sampling"}
    /\ snap \in BOOLEAN
    /\ pause.by \in Reasons /\ pause.crossed \in BOOLEAN

(* technical-design.md:862: charging_allowed is the current relay state.   *)
(* Nothing re-asserts the pin, so a difference lasts until the next        *)
(* command (charge_control.c:78-89).                                       *)
RelayMatchesState == Calm => relay = ~ctl.allowed

(* technical-design.md:880-884: during the latch charging is forced on,    *)
(* cloud pauses are ignored and the window stays deleted.  The shell is    *)
(* one exception the code makes (app_entry.c:330-337); the other is a      *)
(* command that passed the test of the latch (app_rx.c:29) before the      *)
(* press and writes after it.                                              *)
LatchHolds ==
    Calm /\ latch.active /\ ~pause.crossed =>
       /\ ~window.has
       /\ ctl.allowed \/ pause.by = "MANUAL"

(* The latch is over 30 minutes after the last press, across a wrap of     *)
(* uptime_ms() too (charge_now.c:64-69).                                   *)
LatchEnds ==
    ticked /\ Calm /\ job = "idle" /\ latch.active =>
        now - pause.latched < LatchUnits

(* uptime_ms() when the pause began, told from the time since.             *)
PausedAtZero == up = now - pause.at
UnwrappedSincePause == up > now - pause.at

(* Every pause has a way out: somebody paused for good, or a window or an  *)
(* armed auto-resume timer will lift it (charge_control.c:70-93, 123-176). *)
(* A timed pause of the very millisecond of the wrap has none: its stamp   *)
(* is 0, which charge_control.c:162 takes for no timer.                    *)
NoOrphanPause ==
    Calm /\ ~ctl.allowed =>
       \/ pause.by = "MANUAL"
       \/ pause.by = "CLOUD_CMD" /\ pause.for = 0
       \/ window.has
       \/ ctl.resume > 0 /\ (ctl.stamp > 0 \/ PausedAtZero)

Overdue == /\ ticked /\ Calm /\ job = "idle" /\ ~ctl.allowed
           /\ pause.for > 0 /\ now - pause.at >= pause.for

(* PRD.md:469: if the cloud goes silent, charging resumes after the        *)
(* configured timeout.  A known time and a stored window come first, and   *)
(* the timer only fires if uptime_ms() was not 0 when the pause began and  *)
(* has not wrapped since (charge_control.c:162-164).                       *)
AutoResumesBeforeWrap ==
    Overdue /\ UnwrappedSincePause => window.has /\ sync.synced

(* technical-design.md:477-479, in true time: the device pauses for a      *)
(* window no earlier than its start and drops it no earlier than its end,  *)
(* whatever re-synchronisation happens on the way.                         *)
WindowNotCutShort ==
    [][job = "idle" /\ job' = "button" /\ window.has =>
          /\ ctl.allowed /\ ~ctl'.allowed => now >= window.start
          /\ ~window'.has => now > window.end]_vars

(* A synchronised device drops a window as soon as it is over, at most the *)
(* TIME_SYNC delay late, and charging is then allowed.                     *)
WindowEnds ==
    ticked /\ Calm /\ job = "idle" /\ window.has /\ sync.synced =>
        \E d \in Delays : now - d <= window.end

(* event_buffer.h and TDD 4.1: every change of charge_allowed between two  *)
(* snapshots carries the reason of a transition (app_entry.c:250-263).     *)
TransitionsAreAttributed ==
    [][FinishTick /\ snap' # snap => reason # "NONE"]_vars
=============================================================================
