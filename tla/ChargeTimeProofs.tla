-------------------------- MODULE ChargeTimeProofs --------------------------
(***************************************************************************)
(* When what charge control started ends: the latch, a window, a timed     *)
(* pause, and what the snapshots report of it, for every uptime, duration, *)
(* delay and sequence of ticks, commands, presses and restarts, in a run   *)
(* no longer than one round of the uptime counter (NumberAssumption).      *)
(*                                                                         *)
(* Every stamp of uptime is tied to the true time it was taken at, less    *)
(* than a round of the counter ago (TakenAt); a poll follows each step of  *)
(* time, so what a poll leaves behind is not yet due (ticked).             *)
(***************************************************************************)
EXTENDS ChargeControlProofs

-----------------------------------------------------------------------------
(* A stamp of uptime taken at a true time, less than a round of it ago.    *)
TakenAt(s, at) ==
    s \in 0..(UptimeWrap - 1) /\ at \in Int /\ at <= now /\ Since(s) = now - at

Shapes ==
    /\ now \in Int /\ FirstEpoch <= now /\ (now = FirstEpoch \/ now <= LastEpoch)
    /\ up \in 0..(UptimeWrap - 1)
    /\ DOMAIN pause = DOMAIN NoPause
    /\ DOMAIN sync = DOMAIN NoSync /\ sync.epoch \in Int
    /\ DOMAIN thr = Threads /\ \A t \in Threads : "pc" \in DOMAIN thr[t]

(* The latch is as old as its start says.                                  *)
LatchTime ==
    latch.active =>
        /\ TakenAt(latch.start, pause.latched)
        /\ now - pause.latched <= LatchUnits
        /\ ticked /\ job = "idle" => now - pause.latched < LatchUnits

(* The clock is as late as the last TIME_SYNC was, but for the handler of  *)
(* one that has stored half of it.                                         *)
Anchoring == thr["rx"].pc = "anchor"
SyncTime ==
    /\ thr["rx"].pc = "epoch" => \E d \in Delays : thr["rx"].epoch = now - d
    /\ Anchoring => \E d \in Delays : sync.epoch = now - d
    /\ sync.synced /\ ~Anchoring =>
          \E d \in Delays : /\ TakenAt(sync.up, sync.epoch + d)
                            /\ FirstEpoch <= sync.epoch + d
    /\ ticked /\ sync.synced /\ ~Anchoring /\ window.has => ~WindowOver

TimeInv == Shapes /\ LatchTime /\ SyncTime

LEMMA TimeInit == Init => TimeInv
<1> SUFFICES ASSUME Init PROVE TimeInv
  OBVIOUS
<1>1. /\ now = FirstEpoch /\ up \in FirstUptimes /\ latch = NoLatch /\ sync = NoSync
      /\ pause = NoPause /\ thr = Resting /\ ticked = FALSE
  BY DEF Init
<1>2. Shapes
  BY <1>1, NumberAssumption DEF Shapes, NoSync, Resting, Idle
<1>3. LatchTime
  BY <1>1 DEF LatchTime, NoLatch
<1>4. SyncTime
  BY <1>1 DEF SyncTime, Anchoring, NoSync, Resting, Idle, Threads
<1> QED BY <1>2, <1>3, <1>4 DEF TimeInv

(* A stamp just taken, and one that grows older by a unit.                 *)
LEMMA TakenNow == ASSUME Shapes PROVE TakenAt(up, now)
<1>1. up - up = 0 /\ UptimeWrap \in Nat \ {0}
  BY NumberAssumption DEF Shapes
<1>2. 0 % UptimeWrap = 0
  BY <1>1
<1> QED BY <1>1, <1>2 DEF Shapes, TakenAt, Since

LEMMA TakenLater ==
    ASSUME Shapes, Advance, NEW s, NEW at, TakenAt(s, at), now - at < UptimeWrap - 1
    PROVE  /\ s \in 0..(UptimeWrap - 1) /\ at \in Int /\ at <= now'
           /\ (up' - s) % UptimeWrap = now' - at
<1>1. now' = now + 1 /\ up' = (up + 1) % UptimeWrap
  BY DEF Advance
<1>2. now \in Int /\ up \in 0..(UptimeWrap - 1) /\ s \in 0..(UptimeWrap - 1) /\ at \in Int /\ at <= now
      /\ (up - s) % UptimeWrap = now - at
  BY DEF Shapes, TakenAt, Since
<1>3. (up' - s) % UptimeWrap = ((up - s) % UptimeWrap) + 1
  BY <1>1, <1>2, SinceStep
<1> QED BY <1>1, <1>2, <1>3

LEMMA TakenKept ==
    ASSUME UNCHANGED <<now, up>>, NEW s, NEW at, TakenAt(s, at)
    PROVE  TakenAt(s, at)'
  BY DEF TakenAt, Since

(* The whole of a step of time, for a stamp of this run.                   *)
LEMMA TakenInRun ==
    ASSUME Shapes, Advance, NEW s, NEW at, TakenAt(s, at), FirstEpoch <= at
    PROVE  /\ s \in 0..(UptimeWrap - 1) /\ at \in Int /\ at <= now'
           /\ (up' - s) % UptimeWrap = now' - at
<1>1. now < LastEpoch /\ now \in Int /\ at \in Int
  BY DEF Advance, Shapes, TakenAt
<1>2. now - at < UptimeWrap - 1
  BY <1>1, NumberAssumption
<1> QED BY <1>2, TakenLater

LEMMA ThreadShape ==
    ASSUME Shapes, NEW t \in Threads,
           (\E p : Goto(t, p)) \/ Return(t)
              \/ \E r : "pc" \in DOMAIN r /\ thr' = [thr EXCEPT ![t] = r]
    PROVE  DOMAIN thr' = Threads /\ \A u \in Threads : "pc" \in DOMAIN thr'[u]
<1>1. DOMAIN thr = Threads /\ \A u \in Threads : "pc" \in DOMAIN thr[u]
  BY DEF Shapes
<1>2. ASSUME NEW p, Goto(t, p) PROVE DOMAIN thr' = Threads /\ \A u \in Threads : "pc" \in DOMAIN thr'[u]
  BY <1>1, <1>2 DEF Goto
<1>3. ASSUME NEW r, "pc" \in DOMAIN r, thr' = [thr EXCEPT ![t] = r]
      PROVE  DOMAIN thr' = Threads /\ \A u \in Threads : "pc" \in DOMAIN thr'[u]
  BY <1>1, <1>3
<1>4. CASE Return(t)
  BY <1>1, <1>4 DEF Return, Idle
<1> QED BY <1>2, <1>3, <1>4

LEMMA PausedShape ==
    ASSUME DOMAIN pause = DOMAIN NoPause, NEW w, NEW n, PausedBy(w, n)
    PROVE  DOMAIN pause' = DOMAIN NoPause /\ pause'.latched = pause.latched
  BY DEF PausedBy, NoPause

(* A handler's step takes no time, leaves the latch alone and waits for a  *)
(* poll before anything is due.                                            *)
LEMMA HandlerTime ==
    ASSUME TimeInv, Frame, UNCHANGED pause \/ Resumed \/ \E w, n : PausedBy(w, n),
           DOMAIN sync' = DOMAIN NoSync /\ sync'.epoch \in Int,
           DOMAIN thr' = Threads /\ \A t \in Threads : "pc" \in DOMAIN thr'[t]
    PROVE  Shapes' /\ LatchTime'
<1>1. ticked' = FALSE /\ UNCHANGED <<now, up, latch, job>>
  BY DEF Frame
<1>2. DOMAIN pause = DOMAIN NoPause
  BY DEF TimeInv, Shapes
<1>3. DOMAIN pause' = DOMAIN NoPause /\ pause'.latched = pause.latched
  <2>1. CASE \E w, n : PausedBy(w, n)
    BY <1>2, <2>1, PausedShape
  <2>2. CASE UNCHANGED pause \/ Resumed
    BY <1>2, <2>2 DEF Resumed, NoPause
  <2> QED BY <2>1, <2>2
<1>4. Shapes'
  BY <1>1, <1>3 DEF TimeInv, Shapes
<1>5. LatchTime'
  BY <1>1, <1>3 DEF TimeInv, LatchTime, TakenAt, Since
<1> QED BY <1>4, <1>5

(* A step that is not part of the handler of a TIME_SYNC.                  *)
LEMMA OtherHandler ==
    ASSUME TimeInv, Frame, UNCHANGED sync, UNCHANGED pause \/ Resumed \/ \E w, n : PausedBy(w, n),
           DOMAIN thr' = Threads /\ \A t \in Threads : "pc" \in DOMAIN thr'[t],
           \/ thr'["rx"] = thr["rx"]
           \/ thr'["rx"].pc \notin {"epoch", "anchor"} /\ ~Anchoring
    PROVE  TimeInv'
<1>1. ticked' = FALSE /\ UNCHANGED <<now, up>>
  BY DEF Frame
<1>2. SyncTime /\ DOMAIN sync = DOMAIN NoSync /\ sync.epoch \in Int
  BY DEF TimeInv, Shapes
<1>3. SyncTime'
  BY <1>1, <1>2 DEF SyncTime, Anchoring, TakenAt, Since
<1> QED BY <1>2, <1>3, HandlerTime DEF TimeInv

LEMMA TimeRx == ASSUME TimeInv, Rx PROVE TimeInv'
<1>0. Shapes /\ LatchTime /\ SyncTime /\ "rx" \in Threads /\ "pc" \in DOMAIN thr["rx"]
  BY DEF TimeInv, Shapes, Threads
<1>g. ASSUME NEW p, Goto("rx", p) PROVE thr'["rx"].pc = p
  BY <1>0, <1>g DEF Goto, Shapes
<1>r. ASSUME NEW r, thr' = [thr EXCEPT !["rx"] = r] PROVE thr'["rx"] = r
  BY <1>0, <1>r DEF Shapes
<1>1. CASE ReceiveLegacy
  <2>1. PICK a \in BOOLEAN, d \in Durations :
            thr' = [thr EXCEPT !["rx"] = Setting("clear", a, d, "CLOUD_CMD")]
    BY <1>1 DEF ReceiveLegacy
  <2>2. thr'["rx"].pc = "clear" /\ "pc" \in DOMAIN Setting("clear", a, d, "CLOUD_CMD")
    BY <1>r, <2>1 DEF Setting
  <2>3. Frame /\ UNCHANGED <<sync, pause>> /\ ~Anchoring
    BY <1>1 DEF ReceiveLegacy, Arrives, NotLatched, Listening, At, Anchoring
  <2> QED BY <1>0, <2>1, <2>2, <2>3, ThreadShape, OtherHandler
<1>2. CASE ReceiveWindow
  <2>1. PICK w \in Windows : thr' = [thr EXCEPT !["rx"] = [pc |-> "start", w |-> w]]
    BY <1>2 DEF ReceiveWindow
  <2>2. thr'["rx"].pc = "start" /\ "pc" \in DOMAIN [pc |-> "start", w |-> w]
    BY <1>r, <2>1
  <2>3. Frame /\ UNCHANGED <<sync, pause>> /\ ~Anchoring
    BY <1>2 DEF ReceiveWindow, Arrives, NotLatched, Listening, At, Anchoring
  <2> QED BY <1>0, <2>1, <2>2, <2>3, ThreadShape, OtherHandler
<1>3. CASE ReceiveTimeSync
  <2>1. PICK d \in Delays : thr' = [thr EXCEPT !["rx"] = [pc |-> "epoch", epoch |-> now - d]]
    BY <1>3 DEF ReceiveTimeSync
  <2>2. thr'["rx"] = [pc |-> "epoch", epoch |-> now - d]
    BY <1>r, <2>1
  <2>3. Frame /\ UNCHANGED <<sync, pause>> /\ ~Anchoring
    BY <1>3 DEF ReceiveTimeSync, Arrives, Listening, At, Anchoring
  <2>4. DOMAIN thr' = Threads /\ \A t \in Threads : "pc" \in DOMAIN thr'[t]
    <3>1. "pc" \in DOMAIN [pc |-> "epoch", epoch |-> now - d]
      OBVIOUS
    <3> QED BY <1>0, <2>1, <3>1, ThreadShape
  <2>5. Shapes' /\ LatchTime'
    BY <2>3, <2>4, HandlerTime DEF TimeInv, Shapes
  <2>6. ticked' = FALSE /\ UNCHANGED <<now, up>>
    BY <2>3 DEF Frame
  <2>7. thr'["rx"].pc = "epoch" /\ thr'["rx"].epoch = now' - d
    BY <2>2, <2>6
  <2>8. SyncTime'
    BY <1>0, <2>3, <2>6, <2>7 DEF SyncTime, Anchoring, TakenAt, Since
  <2> QED BY <2>5, <2>8 DEF TimeInv
<1>4. CASE ClearWindow \/ SetWindowStart \/ SetWindowEnd
  <2>1. Frame /\ UNCHANGED <<sync, pause>> /\ ~Anchoring
    BY <1>4 DEF ClearWindow, SetWindowStart, SetWindowEnd, At, Anchoring
  <2>2. Goto("rx", "reason") \/ Goto("rx", "end") \/ Return("rx")
    BY <1>4 DEF ClearWindow, SetWindowStart, SetWindowEnd
  <2>3. thr'["rx"].pc \notin {"epoch", "anchor"}
    BY <1>g, <1>r, <2>2 DEF Return, Idle
  <2> QED BY <1>0, <2>1, <2>2, <2>3, ThreadShape, OtherHandler
<1>5. CASE SetSyncEpoch
  <2>1. /\ thr["rx"].pc = "epoch" /\ Goto("rx", "anchor") /\ Frame /\ UNCHANGED pause
        /\ sync' = [sync EXCEPT !.epoch = thr["rx"].epoch]
    BY <1>5 DEF SetSyncEpoch, At
  <2>2. thr'["rx"].pc = "anchor"
    BY <1>g, <2>1
  <2>3. PICK d \in Delays : thr["rx"].epoch = now - d
    BY <1>0, <2>1 DEF SyncTime
  <2>4. DOMAIN sync' = DOMAIN NoSync /\ sync'.epoch = now - d /\ sync'.epoch \in Int
    BY <1>0, <2>1, <2>3, NumberAssumption DEF Shapes, NoSync
  <2>5. Shapes' /\ LatchTime'
    BY <1>0, <2>1, <2>4, ThreadShape, HandlerTime
  <2>6. SyncTime'
    <3>1. now' = now
      BY <2>1 DEF Frame
    <3> QED BY <2>2, <2>4, <3>1 DEF SyncTime, Anchoring
  <2> QED BY <2>5, <2>6 DEF TimeInv
<1>6. CASE SetSyncAnchor
  <2>1. /\ thr["rx"].pc = "anchor" /\ Return("rx") /\ Frame /\ UNCHANGED pause
        /\ sync' = [sync EXCEPT !.up = up, !.synced = TRUE]
    BY <1>6 DEF SetSyncAnchor, At
  <2>2. thr'["rx"].pc = "idle"
    BY <1>r, <2>1 DEF Return, Idle
  <2>3. PICK d \in Delays : sync.epoch = now - d
    BY <1>0, <2>1 DEF SyncTime, Anchoring
  <2>4. DOMAIN sync' = DOMAIN NoSync /\ sync'.epoch = now - d /\ sync'.up = up
        /\ sync'.epoch \in Int
    BY <1>0, <2>1, <2>3, NumberAssumption DEF Shapes, NoSync
  <2>5. Shapes' /\ LatchTime'
    BY <1>0, <2>1, <2>4, ThreadShape, HandlerTime
  <2>6. UNCHANGED <<now, up>> /\ ticked' = FALSE
    BY <2>1 DEF Frame
  <2>7. sync'.epoch + d = now /\ FirstEpoch <= now
    BY <1>0, <2>4, NumberAssumption DEF Shapes
  <2>8. TakenAt(up, now)'
    BY <1>0, <2>6, TakenNow DEF TakenAt, Since
  <2>9. SyncTime'
    BY <2>2, <2>4, <2>6, <2>7, <2>8 DEF SyncTime, Anchoring
  <2> QED BY <2>5, <2>9 DEF TimeInv
<1> QED BY <1>1, <1>2, <1>3, <1>4, <1>5, <1>6 DEF Rx

LEMMA TimeShell == ASSUME TimeInv, Shell PROVE TimeInv'
<1>0. Shapes /\ {"rx", "shell"} = Threads
  BY DEF TimeInv, Threads
<1>1. Frame /\ UNCHANGED <<sync, pause>>
  BY DEF Shell, ShellCommand, ToggleRelay, RestoreRelay, Arrives
<1>2. Return("shell") \/ \E r : "pc" \in DOMAIN r /\ thr' = [thr EXCEPT !["shell"] = r]
  <2>1. CASE ShellCommand
    <3>1. CASE \E a \in BOOLEAN :
                  thr' = [thr EXCEPT !["shell"] = Setting("reason", a, 0, "MANUAL")]
      <4>1. PICK a \in BOOLEAN :
                  thr' = [thr EXCEPT !["shell"] = Setting("reason", a, 0, "MANUAL")]
        BY <3>1
      <4>2. "pc" \in DOMAIN Setting("reason", a, 0, "MANUAL")
        BY DEF Setting
      <4> QED BY <4>1, <4>2
    <3>2. CASE thr' = [thr EXCEPT !["shell"] = [pc |-> "save"]]
      <4>1. "pc" \in DOMAIN [pc |-> "save"]
        OBVIOUS
      <4> QED BY <3>2, <4>1
    <3> QED BY <2>1, <3>1, <3>2 DEF ShellCommand
  <2>2. CASE ToggleRelay
    <3>1. "pc" \in DOMAIN [pc |-> "restore", saved |-> relay]
      OBVIOUS
    <3> QED BY <2>2, <3>1 DEF ToggleRelay
  <2> QED BY <2>1, <2>2 DEF Shell, RestoreRelay
<1>3. thr'["rx"] = thr["rx"]
  BY <1>0, <1>2 DEF Return, Shapes
<1> QED BY <1>0, <1>1, <1>2, <1>3, ThreadShape, OtherHandler

LEMMA TimeSet == ASSUME TimeInv, NEW t \in Threads, Set(t) PROVE TimeInv'
<1>0. Shapes /\ "pc" \in DOMAIN thr[t]
  BY DEF TimeInv, Shapes
<1>1. Frame /\ UNCHANGED sync /\ (UNCHANGED pause \/ Resumed \/ \E w, n : PausedBy(w, n))
  BY DEF Set, SetReason, SetAllowed, SetStamp, SetRelay
<1>2. /\ Goto(t, "allow") \/ Goto(t, "stamp") \/ Goto(t, "relay") \/ Return(t)
      /\ thr[t].pc \in SetPoints
  BY DEF Set, SetReason, SetAllowed, SetStamp, SetRelay, At, SetPoints
<1>3. t = "rx" => ~Anchoring /\ thr'["rx"].pc \notin {"epoch", "anchor"}
  BY <1>0, <1>2 DEF Goto, Return, Idle, Anchoring, SetPoints, Shapes
<1>4. t # "rx" => thr'["rx"] = thr["rx"]
  BY <1>0, <1>2 DEF Goto, Return, Shapes, Threads
<1>5. DOMAIN thr' = Threads /\ \A u \in Threads : "pc" \in DOMAIN thr'[u]
  BY <1>0, <1>2, ThreadShape
<1> QED BY <1>1, <1>3, <1>4, <1>5, OtherHandler

LEMMA TimeJob == ASSUME TimeInv, Job PROVE TimeInv'
<1>0. Shapes /\ LatchTime /\ SyncTime /\ DOMAIN pause = DOMAIN NoPause
  BY DEF TimeInv, Shapes
<1>1. CASE ChargeControlTick
  <2>1. /\ job = "idle" /\ job' = "button" /\ ticked' = TRUE
        /\ UNCHANGED <<now, up, latch, sync, thr>>
    BY <1>1 DEF ChargeControlTick
  <2>2. UNCHANGED pause \/ Resumed \/ PausedBy("DELAY_WINDOW", 0)
    BY <1>1 DEF ChargeControlTick, WindowTick, AutoResumeTick, ResumeBy
  <2>3. DOMAIN pause' = DOMAIN NoPause /\ pause'.latched = pause.latched
    BY <1>0, <2>2 DEF Resumed, PausedBy, NoPause
  <2>4. Shapes' /\ LatchTime'
    BY <1>0, <2>1, <2>3 DEF Shapes, LatchTime, TakenAt, Since
  <2>5. ASSUME sync.synced, ~Anchoring PROVE Epoch # 0
    <3>1. PICK d \in Delays : TakenAt(sync.up, sync.epoch + d) /\ FirstEpoch <= sync.epoch + d
      BY <1>0, <2>5 DEF SyncTime
    <3>2. now \in Int /\ FirstEpoch <= now /\ d \in Nat /\ d < FirstEpoch /\ FirstEpoch \in Nat
      BY <1>0, NumberAssumption DEF Shapes
    <3>3. PICK at \in Int : at = sync.epoch + d /\ Since(sync.up) = now - at /\ at <= now
                            /\ FirstEpoch <= at
      BY <3>1 DEF TakenAt
    <3>4. sync.epoch = at - d
      BY <1>0, <3>2, <3>3 DEF Shapes
    <3> QED BY <2>5, <3>2, <3>3, <3>4 DEF Epoch
  <2>6. Epoch' = Epoch
    BY <2>1 DEF Epoch, Since
  <2>7. ASSUME sync.synced, ~Anchoring, window'.has PROVE ~WindowOver'
    <3>1. CASE window.has
      <4>1. WindowTick
        BY <1>1, <2>5, <2>7, <3>1 DEF ChargeControlTick
      <4>2. ~WindowOver /\ window' = window
        BY <2>7, <4>1 DEF WindowTick, NoWindow
      <4> QED BY <2>6, <4>2 DEF WindowOver
    <3>2. CASE ~window.has
      BY <1>1, <2>7, <3>2 DEF ChargeControlTick, AutoResumeTick
    <3> QED BY <3>1, <3>2
  <2>8. SyncTime'
    BY <1>0, <2>1, <2>7 DEF SyncTime, Anchoring, TakenAt, Since
  <2> QED BY <2>4, <2>8 DEF TimeInv
<1>2. CASE PollButton
  <2>1. job = "button" /\ job' = "sampling" /\ UNCHANGED <<now, up, sync, thr, ticked>>
    BY <1>2 DEF PollButton
  <2>2. window' = window \/ window' = NoWindow
    BY <1>2 DEF PollButton, Activate
  <2>3. SyncTime'
    BY <1>0, <2>1, <2>2 DEF SyncTime, Anchoring, TakenAt, Since, WindowOver, Epoch, NoWindow
  <2>4. CASE Activate
    <3>1. pause'.latched = now /\ latch'.start = up /\ DOMAIN pause' = DOMAIN NoPause
      BY <2>4 DEF Activate, Latched, NoPause
    <3>2. TakenAt(up, now)' /\ now - now = 0
      BY <1>0, <2>1, TakenNow DEF TakenAt, Since, Shapes
    <3>3. LatchTime'
      BY <2>1, <3>1, <3>2, NumberAssumption DEF LatchTime
    <3> QED BY <1>0, <2>1, <2>3, <3>1, <3>3 DEF Shapes, TimeInv
  <2>5. CASE Cancel
    <3>1. DOMAIN pause' = DOMAIN NoPause /\ ~latch'.active
      BY <1>0, <2>5 DEF Cancel, NoLatch
    <3> QED BY <1>0, <2>1, <2>3, <3>1 DEF Shapes, LatchTime, TimeInv
  <2>6. CASE UNCHANGED <<latch, pause>>
    BY <1>0, <2>1, <2>3, <2>6 DEF Shapes, LatchTime, TakenAt, Since, TimeInv
  <2> QED BY <1>2, <2>4, <2>5, <2>6 DEF PollButton
<1>3. CASE FinishTick
  <2>1. UNCHANGED <<now, up, window, sync, thr, ticked>>
    BY <1>3 DEF FinishTick
  <2>2. SyncTime'
    BY <1>0, <2>1 DEF SyncTime, Anchoring, TakenAt, Since, WindowOver, Epoch
  <2>3. CASE Cancel
    <3>1. DOMAIN pause' = DOMAIN NoPause /\ ~latch'.active
      BY <1>0, <2>3 DEF Cancel, NoLatch
    <3> QED BY <1>0, <2>1, <2>2, <3>1 DEF Shapes, LatchTime, TimeInv
  <2>4. CASE UNCHANGED <<latch, pause>> /\ ~(latch.active /\ Since(latch.start) >= LatchUnits)
    <3>1. latch.active => now - pause.latched < LatchUnits
      BY <1>0, <2>4, NumberAssumption DEF LatchTime, TakenAt, Shapes
    <3> QED BY <1>0, <2>1, <2>2, <2>4, <3>1 DEF Shapes, LatchTime, TakenAt, Since, TimeInv
  <2> QED BY <1>3, <2>3, <2>4 DEF FinishTick, LatchOver
<1> QED BY <1>1, <1>2, <1>3 DEF Job

LEMMA TimeAdvance == ASSUME TimeInv, Advance PROVE TimeInv'
<1>0. Shapes /\ LatchTime /\ SyncTime
  BY DEF TimeInv
<1>1. /\ Calm /\ job = "idle" /\ ticked /\ ticked' = FALSE /\ now < LastEpoch
      /\ now' = now + 1 /\ up' = (up + 1) % UptimeWrap
      /\ UNCHANGED <<latch, sync, thr, pause>>
  BY DEF Advance, device
<1>2. Shapes'
  BY <1>0, <1>1, NumberAssumption DEF Shapes
<1>3. LatchTime'
  <2>1. SUFFICES ASSUME latch.active
                 PROVE  TakenAt(latch.start, pause.latched)' /\ now' - pause.latched <= LatchUnits
    BY <1>1 DEF LatchTime
  <2>2. TakenAt(latch.start, pause.latched) /\ now - pause.latched < LatchUnits
    BY <1>0, <1>1, <2>1 DEF LatchTime
  <2>3. now \in Int /\ pause.latched \in Int
    BY <1>0, <2>2 DEF Shapes, TakenAt
  <2>4. now - pause.latched < UptimeWrap - 1
    BY <2>2, <2>3, NumberAssumption
  <2>5. (up' - latch.start) % UptimeWrap = now' - pause.latched /\ pause.latched <= now'
    BY <1>0, <2>2, <2>4, TakenLater
  <2> QED BY <1>1, <2>2, <2>3, <2>5, NumberAssumption DEF TakenAt, Since
<1>4. SyncTime'
  <2>1. thr'["rx"].pc \notin {"epoch", "anchor"} /\ ~Anchoring
    BY <1>1 DEF Calm, Threads, Anchoring
  <2>2. ASSUME sync.synced
        PROVE  \E d \in Delays : /\ TakenAt(sync.up, sync.epoch + d)'
                                 /\ FirstEpoch <= sync'.epoch + d
    <3>1. PICK d \in Delays : TakenAt(sync.up, sync.epoch + d) /\ FirstEpoch <= sync.epoch + d
      BY <1>0, <2>1, <2>2 DEF SyncTime
    <3>2. TakenAt(sync.up, sync.epoch + d)'
      BY <1>0, <1>1, <3>1, TakenInRun DEF TakenAt, Since
    <3> QED BY <1>1, <3>1, <3>2
  <2> QED BY <1>1, <2>1, <2>2 DEF SyncTime, Anchoring
<1> QED BY <1>2, <1>3, <1>4 DEF TimeInv

LEMMA TimeReboot == ASSUME TimeInv, Reboot PROVE TimeInv'
<1>1. /\ up' = 1 /\ UNCHANGED now /\ latch' = NoLatch /\ sync' = NoSync /\ thr' = Resting
      /\ pause' = NoPause /\ ticked' = FALSE
  BY DEF Reboot
<1>2. Shapes'
  BY <1>1, NumberAssumption DEF TimeInv, Shapes, NoSync, Resting, Idle
<1>3. LatchTime' /\ SyncTime'
  BY <1>1 DEF LatchTime, NoLatch, SyncTime, Anchoring, NoSync, Resting, Idle, Threads
<1> QED BY <1>2, <1>3 DEF TimeInv

LEMMA TimeNext == TimeInv /\ [Next]_vars => TimeInv'
<1> SUFFICES ASSUME TimeInv, [Next]_vars PROVE TimeInv'
  OBVIOUS
<1>1. CASE UNCHANGED vars
  BY <1>1 DEF vars, TimeInv, Shapes, LatchTime, SyncTime, Anchoring, TakenAt, Since, WindowOver, Epoch
<1>2. CASE Next
  BY <1>2, TimeJob, TimeRx, TimeShell, TimeSet, TimeAdvance, TimeReboot DEF Next
<1> QED BY <1>1, <1>2

(* The latch is over half an hour after the last press, in true time,      *)
(* wherever the job cuts into the other threads and whether or not uptime  *)
(* wraps on the way (charge_now.c:57-76).                                  *)
THEOREM LatchEndsCorrect == Spec => []LatchEnds
<1>1. TimeInv => LatchEnds
  BY DEF TimeInv, LatchTime, LatchEnds
<1> QED
  BY TimeInit, TimeNext, <1>1, PTL DEF Spec

-----------------------------------------------------------------------------
(* The bounds of a stored window are numbers.                              *)
WindowType ==
    /\ DOMAIN window = DOMAIN NoWindow /\ window.end \in Int
    /\ thr["rx"].pc \in {"start", "end"} => thr["rx"] \in [pc : {"start", "end"}, w : Windows]

LEMMA WindowTypeInit == Init => WindowType
  BY DEF Init, WindowType, NoWindow, Resting, Idle, Threads

LEMMA WindowTypeNext == TimeInv /\ WindowType /\ [Next]_vars => WindowType'
<1> SUFFICES ASSUME TimeInv, WindowType, [Next]_vars PROVE WindowType'
  OBVIOUS
<1>0. "rx" \in Threads /\ DOMAIN thr = Threads /\ "pc" \in DOMAIN thr["rx"]
  BY DEF TimeInv, Shapes, Threads
<1>n. ASSUME window' = window \/ window' = NoWindow,
             \/ thr'["rx"] = thr["rx"]
             \/ thr'["rx"].pc \notin {"start", "end"}
             \/ thr'["rx"] \in [pc : {"start", "end"}, w : Windows]
      PROVE  WindowType'
  BY <1>n DEF WindowType, NoWindow
<1>1. CASE Job \/ Shell \/ Advance \/ Reboot \/ UNCHANGED vars
  <2>1. window' = window \/ window' = NoWindow
    BY <1>1 DEF Job, ChargeControlTick, WindowTick, AutoResumeTick, PollButton, Activate, FinishTick,
                Shell, ShellCommand, Arrives, ToggleRelay, RestoreRelay, Advance, device, Reboot, vars
  <2>2. thr'["rx"] = thr["rx"] \/ thr'["rx"] = Idle
    BY <1>0, <1>1 DEF Job, ChargeControlTick, PollButton, FinishTick, Shell, ShellCommand, Return,
                ToggleRelay, RestoreRelay, Advance, Reboot, Resting, Threads, vars
  <2> QED BY <1>n, <2>1, <2>2 DEF Idle
<1>2. ASSUME NEW t \in Threads, Set(t) PROVE WindowType'
  <2>1. window' = window
    BY <1>2 DEF Set, SetReason, SetAllowed, SetStamp, SetRelay
  <2>2. Goto(t, "allow") \/ Goto(t, "stamp") \/ Goto(t, "relay") \/ Return(t)
    BY <1>2 DEF Set, SetReason, SetAllowed, SetStamp, SetRelay
  <2>3. t = "rx" => thr'["rx"].pc \notin {"start", "end"}
    BY <1>0, <2>2 DEF Goto, Return, Idle
  <2>4. t # "rx" => thr'["rx"] = thr["rx"]
    BY <1>0, <2>2 DEF Goto, Return
  <2> QED BY <1>n, <2>1, <2>3, <2>4
<1>3. CASE Rx
  <2>1. CASE ReceiveLegacy \/ ReceiveTimeSync \/ ClearWindow \/ SetSyncEpoch \/ SetSyncAnchor
    <3>1. window' = window \/ window' = NoWindow
      BY <2>1 DEF ReceiveLegacy, ReceiveTimeSync, Arrives, ClearWindow, SetSyncEpoch, SetSyncAnchor
    <3>2. thr'["rx"].pc \notin {"start", "end"}
      BY <1>0, <2>1 DEF ReceiveLegacy, ReceiveTimeSync, ClearWindow, SetSyncEpoch, SetSyncAnchor,
                        Setting, Goto, Return, Idle
    <3> QED BY <1>n, <3>1, <3>2
  <2>2. CASE ReceiveWindow
    <3>1. PICK w \in Windows : thr' = [thr EXCEPT !["rx"] = [pc |-> "start", w |-> w]]
      BY <2>2 DEF ReceiveWindow
    <3> QED BY <1>0, <1>n, <2>2, <3>1 DEF ReceiveWindow, Arrives
  <2>3. CASE SetWindowStart
    <3>1. thr["rx"] \in [pc : {"start", "end"}, w : Windows]
      BY <2>3 DEF WindowType, SetWindowStart, At
    <3>2. thr'["rx"] \in [pc : {"start", "end"}, w : Windows]
      BY <1>0, <2>3, <3>1 DEF SetWindowStart, Goto
    <3>3. DOMAIN window' = DOMAIN NoWindow /\ window'.end = window.end
      BY <2>3 DEF WindowType, SetWindowStart, NoWindow
    <3> QED BY <3>2, <3>3 DEF WindowType
  <2>4. CASE SetWindowEnd
    <3>1. thr["rx"] \in [pc : {"start", "end"}, w : Windows]
      BY <2>4 DEF WindowType, SetWindowEnd, At
    <3>2. thr["rx"].w.end \in Int
      BY <3>1, WindowAssumption
    <3>3. DOMAIN window' = DOMAIN NoWindow /\ window'.end = thr["rx"].w.end
      BY <2>4 DEF WindowType, SetWindowEnd, NoWindow
    <3>4. thr'["rx"] = Idle
      BY <1>0, <2>4 DEF SetWindowEnd, Return
    <3> QED BY <3>2, <3>3, <3>4 DEF WindowType, Idle
  <2> QED BY <1>3, <2>1, <2>2, <2>3, <2>4 DEF Rx
<1> QED BY <1>1, <1>2, <1>3 DEF Next

(* A synchronised device drops a window as soon as it is over, late by at  *)
(* most what the last TIME_SYNC was late (charge_control.c:129-155,        *)
(* time_sync.c), wherever the job cuts in.                                 *)
THEOREM WindowEndsCorrect == Spec => []WindowEnds
<1>1. TimeInv /\ WindowType => WindowEnds
  <2> SUFFICES ASSUME TimeInv, WindowType, ticked, Calm, window.has, sync.synced
               PROVE  \E d \in Delays : now - d <= window.end
    BY DEF WindowEnds
  <2>1. ~Anchoring /\ ~WindowOver
    BY DEF Calm, Threads, Anchoring, TimeInv, SyncTime
  <2>2. PICK d \in Delays : TakenAt(sync.up, sync.epoch + d)
    BY <2>1 DEF TimeInv, SyncTime
  <2>3. Epoch = now - d
    <3>1. now \in Int /\ d \in Int /\ sync.epoch + d \in Int
          /\ Since(sync.up) = now - (sync.epoch + d)
      BY <2>2, NumberAssumption DEF TimeInv, Shapes, TakenAt
    <3>2. sync.epoch \in Int
      BY DEF TimeInv, Shapes
    <3> QED BY <3>1, <3>2 DEF Epoch
  <2>4. now - d <= window.end
    BY <2>1, <2>3, NumberAssumption DEF WindowOver, WindowType, TimeInv, Shapes
  <2> QED BY <2>4
<1>2. TimeInv /\ WindowType /\ [Next]_vars => TimeInv' /\ WindowType'
  BY TimeNext, WindowTypeNext
<1> QED
  BY TimeInit, WindowTypeInit, <1>1, <1>2, PTL DEF Spec

-----------------------------------------------------------------------------
(* A timed pause is a cloud command's, and as old as its stamp says, but   *)
(* for the handler that has yet to stamp it.                               *)
Timed == ~ctl.allowed /\ pause.for > 0
PauseTime ==
    /\ pause.for > 0 => pause.by = "CLOUD_CMD"
    /\ Timed /\ thr["rx"].pc = "stamp" => pause.at = now
    /\ Timed /\ thr["rx"].pc # "stamp" =>
          /\ ctl.resume = pause.for
          /\ TakenAt(ctl.stamp, pause.at) /\ FirstEpoch <= pause.at
    /\ ticked /\ Timed /\ now - pause.at >= pause.for /\ UnwrappedSincePause =>
          window.has /\ sync.synced

(* What the last snapshot does not show has a reason.                      *)
Reasoned ==
    /\ ctl.allowed # snap => reason # "NONE"
    /\ \A t \in Threads :
          thr[t].pc = "allow" /\ thr[t].allowed # ctl.allowed => reason # "NONE"

DueInv == PauseTime /\ Reasoned

LEMMA DueInit == Init => DueInv
<1> SUFFICES ASSUME Init PROVE DueInv
  OBVIOUS
<1>1. ctl = Allowed /\ pause = NoPause /\ snap = TRUE /\ thr = Resting
  BY DEF Init
<1>2. ctl.allowed = TRUE /\ pause.for = 0 /\ \A t \in Threads : thr[t].pc = "idle"
  BY <1>1 DEF Allowed, NoPause, Resting, Idle
<1>3. PauseTime
  BY <1>2 DEF PauseTime, Timed
<1>4. Reasoned
  BY <1>1, <1>2, Zenon DEF Reasoned
<1> QED BY <1>3, <1>4 DEF DueInv

(* The facts of the other two invariants that the steps below use.         *)
LEMMA DueFacts ==
    ASSUME CInv, TimeInv, DueInv
    PROVE  /\ PauseTime /\ Reasoned /\ Shapes /\ Typed /\ Alone /\ PauseInv
           /\ Threads = {"rx", "shell"}
           /\ ctl.allowed \in BOOLEAN /\ DOMAIN ctl = DOMAIN Allowed
           /\ DOMAIN pause = DOMAIN NoPause /\ pause.for \in Nat
           /\ DOMAIN thr = Threads
  BY DEF CInv, TimeInv, DueInv, Typed, Threads

(* A step of a handler that writes neither the flag nor its reason.        *)
LEMMA DueFrame ==
    ASSUME CInv, TimeInv, DueInv, Frame, UNCHANGED <<ctl, reason, pause>>,
           thr["rx"].pc # "stamp", thr'["rx"].pc # "stamp",
           \A t \in Threads : thr'[t] = thr[t] \/ thr'[t].pc # "allow"
    PROVE  DueInv'
<1>1. ticked' = FALSE /\ UNCHANGED <<now, up, snap>>
  BY DEF Frame
<1>2. PauseTime'
  BY <1>1, DueFacts DEF PauseTime, Timed, UnwrappedSincePause, TakenAt, Since
<1>3. Reasoned'
  BY <1>1, DueFacts DEF Reasoned
<1> QED BY <1>2, <1>3 DEF DueInv

LEMMA DueRx == ASSUME CInv, TimeInv, DueInv, Rx PROVE DueInv'
<1>0. "rx" \in Threads /\ "pc" \in DOMAIN thr["rx"] /\ DOMAIN thr = Threads
  BY DEF TimeInv, Shapes, Threads
<1>1. Frame /\ UNCHANGED <<ctl, reason, pause>>
  BY DEF Rx, ReceiveLegacy, ReceiveWindow, ReceiveTimeSync, ClearWindow, SetWindowStart,
         SetWindowEnd, SetSyncEpoch, SetSyncAnchor, Arrives
<1>2. thr["rx"].pc # "stamp"
  BY DEF Rx, ReceiveLegacy, ReceiveWindow, ReceiveTimeSync, ClearWindow, SetWindowStart,
         SetWindowEnd, SetSyncEpoch, SetSyncAnchor, NotLatched, Listening, At
<1>3. thr'["rx"].pc \notin {"stamp", "allow"}
  BY <1>0 DEF Rx, ReceiveLegacy, ReceiveWindow, ReceiveTimeSync, ClearWindow, SetWindowStart,
         SetWindowEnd, SetSyncEpoch, SetSyncAnchor, Setting, Goto, Return, Idle
<1>4. \A t \in Threads \ {"rx"} : thr'[t] = thr[t]
  BY <1>0 DEF Rx, ReceiveLegacy, ReceiveWindow, ReceiveTimeSync, ClearWindow, SetWindowStart,
         SetWindowEnd, SetSyncEpoch, SetSyncAnchor, Goto, Return
<1> QED BY <1>1, <1>2, <1>3, <1>4, DueFrame

LEMMA DueShell == ASSUME CInv, TimeInv, DueInv, Shell PROVE DueInv'
<1>0. "shell" \in Threads /\ DOMAIN thr = Threads
  BY DEF TimeInv, Shapes, Threads
<1>1. Frame /\ UNCHANGED <<ctl, reason, pause>> /\ thr["rx"].pc = "idle"
  BY DEF Shell, ShellCommand, ToggleRelay, RestoreRelay, Arrives, At
<1>2. thr'["shell"].pc # "allow"
  BY <1>0 DEF Shell, ShellCommand, ToggleRelay, RestoreRelay, Setting, Return, Idle
<1>3. \A t \in Threads \ {"shell"} : thr'[t] = thr[t]
  BY <1>0 DEF Shell, ShellCommand, ToggleRelay, RestoreRelay, Return
<1>4. thr'["rx"].pc # "stamp"
  BY <1>1, <1>3 DEF Threads
<1> QED BY <1>1, <1>2, <1>3, <1>4, DueFrame

(* The set commands.  A command has its reason written before the flag,    *)
(* and a pause its time and duration before its stamp.                     *)
LEMMA DueReason == ASSUME CInv, TimeInv, DueInv, NEW t \in Threads, SetReason(t) PROVE DueInv'
<1>0. PauseTime /\ Reasoned /\ Alone /\ Typed /\ Threads = {"rx", "shell"}
  BY DueFacts
<1>1. /\ At(t, "reason") /\ Goto(t, "allow") /\ Frame /\ UNCHANGED <<ctl, window, sync, pause>>
      /\ reason' = IF thr[t].allowed # ctl.allowed THEN thr[t].why ELSE reason
  BY DEF SetReason
<1>2. /\ \A u \in Threads \ {t} : thr'[u] = thr[u]
      /\ thr[t].pc = "reason" /\ thr'[t].pc = "allow" /\ thr'[t].allowed = thr[t].allowed
      /\ thr[t].why # "NONE"
  BY <1>0, <1>1, SetStep DEF SetPoints
<1>3. ticked' = FALSE /\ UNCHANGED <<now, up, snap>>
  BY <1>1 DEF Frame
<1>4. thr["rx"].pc # "stamp" /\ thr'["rx"].pc # "stamp"
  BY <1>0, <1>1, <1>2 DEF At
<1>5. PauseTime'
  BY <1>0, <1>1, <1>3, <1>4 DEF PauseTime, Timed, UnwrappedSincePause, TakenAt, Since
<1>6. reason' # "NONE" \/ reason' = reason
  BY <1>1, <1>2
<1>7. thr[t].allowed # ctl.allowed => reason' # "NONE"
  BY <1>1, <1>2
<1>8. Reasoned'
  BY <1>0, <1>1, <1>2, <1>3, <1>6, <1>7 DEF Reasoned
<1> QED BY <1>5, <1>8 DEF DueInv

LEMMA DueAllowed == ASSUME CInv, TimeInv, DueInv, NEW t \in Threads, SetAllowed(t) PROVE DueInv'
<1>0. /\ PauseTime /\ Reasoned /\ Alone /\ Typed /\ Threads = {"rx", "shell"}
      /\ DOMAIN ctl = DOMAIN Allowed /\ DOMAIN pause = DOMAIN NoPause
  BY DueFacts
<1>1. /\ At(t, "allow") /\ Goto(t, "stamp") /\ Frame /\ UNCHANGED <<reason, window, sync>>
      /\ ctl' = [ctl EXCEPT !.allowed = thr[t].allowed, !.resume = thr[t].for]
      /\ IF thr[t].allowed THEN Resumed ELSE PausedBy(thr[t].why, thr[t].for)
  BY DEF SetAllowed
<1>2. /\ \A u \in Threads \ {t} : thr'[u] = thr[u]
      /\ thr[t].pc = "allow" /\ thr'[t].pc = "stamp" /\ thr'[t].allowed = thr[t].allowed
      /\ thr[t].for \in Nat /\ thr[t].allowed \in BOOLEAN
      /\ (t = "shell" => thr[t].for = 0 /\ thr["rx"].pc = "idle")
      /\ (t = "rx" => thr[t].why = "CLOUD_CMD")
  BY <1>0, <1>1, SetStep DEF SetPoints, At
<1>3. ticked' = FALSE /\ UNCHANGED <<now, up, snap>>
  BY <1>1 DEF Frame
<1>4. /\ ctl'.allowed = thr[t].allowed /\ ctl'.resume = thr[t].for
  BY <1>0, <1>1 DEF Allowed
<1>5. /\ ~thr[t].allowed => pause'.by = thr[t].why /\ pause'.at = now /\ pause'.for = thr[t].for
      /\ thr[t].allowed => pause'.for = 0
  BY <1>0, <1>1 DEF Resumed, PausedBy, NoPause
<1>6. PauseTime'
  <2>1. CASE t = "rx"
    <3>1. thr'["rx"].pc = "stamp"
      BY <1>2, <2>1
    <3> QED BY <1>2, <1>3, <1>4, <1>5, <2>1, <3>1 DEF PauseTime, Timed
  <2>2. CASE t = "shell"
    <3>1. pause'.for = 0
      BY <1>2, <1>5, <2>2
    <3> QED BY <3>1 DEF PauseTime, Timed
  <2> QED BY <1>0, <2>1, <2>2
<1>7. thr[t].allowed # ctl.allowed => reason # "NONE"
  BY <1>0, <1>2 DEF Reasoned
<1>8. ctl'.allowed # snap' => reason' # "NONE"
  <2>1. CASE thr[t].allowed # ctl.allowed
    BY <1>1, <1>7, <2>1
  <2>2. CASE thr[t].allowed = ctl.allowed
    BY <1>0, <1>1, <1>3, <1>4, <2>2 DEF Reasoned
  <2> QED BY <2>1, <2>2
<1>9. \A u \in Threads \ {t} : thr'[u].pc # "allow"
  BY <1>0, <1>2 DEF Alone
<1>10. Reasoned'
  BY <1>2, <1>8, <1>9 DEF Reasoned
<1> QED BY <1>6, <1>10 DEF DueInv

LEMMA DueStamp == ASSUME CInv, TimeInv, DueInv, NEW t \in Threads, SetStamp(t) PROVE DueInv'
<1>0. /\ PauseTime /\ Reasoned /\ Alone /\ Typed /\ PauseInv /\ Shapes /\ Threads = {"rx", "shell"}
      /\ DOMAIN ctl = DOMAIN Allowed
  BY DueFacts
<1>1. /\ At(t, "stamp") /\ Goto(t, "relay") /\ Frame /\ UNCHANGED <<reason, window, sync, pause>>
      /\ ctl' = [ctl EXCEPT !.stamp = IF ~thr[t].allowed /\ thr[t].for > 0 THEN up ELSE 0]
  BY DEF SetStamp
<1>2. /\ \A u \in Threads \ {t} : thr'[u] = thr[u]
      /\ thr[t].pc = "stamp" /\ thr'[t].pc = "relay"
      /\ (t = "shell" => thr["rx"].pc = "idle")
  BY <1>0, <1>1, SetStep DEF SetPoints, At
<1>3. ticked' = FALSE /\ UNCHANGED <<now, up, snap>>
  BY <1>1 DEF Frame
<1>4. ctl'.allowed = ctl.allowed /\ ctl'.resume = ctl.resume
      /\ ctl'.stamp = IF ~thr[t].allowed /\ thr[t].for > 0 THEN up ELSE 0
  BY <1>0, <1>1 DEF Allowed
<1>5. Reasoned'
  BY <1>0, <1>1, <1>2, <1>3, <1>4 DEF Reasoned
<1>6. thr'["rx"].pc # "stamp"
  BY <1>0, <1>2
<1>7. PauseTime'
  <2>1. CASE ~Timed
    BY <1>0, <1>1, <1>3, <1>4, <2>1 DEF PauseTime, Timed
  <2>2. CASE Timed /\ t = "shell"
    <3>1. pause.by = "MANUAL"
      BY <1>0, <1>2, <2>2 DEF PauseInv, Timed
    <3> QED BY <1>0, <2>2, <3>1 DEF PauseTime, Timed
  <2>3. CASE Timed /\ t = "rx"
    <3>1. pause.for = thr["rx"].for /\ ctl.resume = pause.for /\ pause.at = now
      BY <1>0, <1>2, <2>3 DEF PauseInv, PauseTime, Timed
    <3>2. thr["rx"].allowed <=> ctl.allowed
      BY <1>2, <2>3 DEF CInv, RelayInv
    <3>3. ctl'.stamp = up
      BY <1>4, <2>3, <3>1, <3>2 DEF Timed
    <3>4. TakenAt(up, now)
      BY <1>0, TakenNow
    <3> QED
      BY <1>0, <1>1, <1>3, <1>4, <1>6, <3>1, <3>3, <3>4
         DEF PauseTime, Timed, UnwrappedSincePause, TakenAt, Since, Shapes
  <2> QED BY <1>0, <2>1, <2>2, <2>3
<1> QED BY <1>5, <1>7 DEF DueInv

LEMMA DueRelay == ASSUME CInv, TimeInv, DueInv, NEW t \in Threads, SetRelay(t) PROVE DueInv'
<1>0. DOMAIN thr = Threads /\ Threads = {"rx", "shell"}
  BY DueFacts
<1>1. /\ At(t, "relay") /\ Return(t) /\ Frame /\ UNCHANGED <<ctl, reason, pause>>
  BY DEF SetRelay
<1>2. thr["rx"].pc # "stamp" /\ thr'["rx"].pc # "stamp"
  BY <1>0, <1>1 DEF At, Return, Idle
<1>3. \A u \in Threads : thr'[u] = thr[u] \/ thr'[u].pc # "allow"
  BY <1>0, <1>1 DEF Return, Idle
<1> QED BY <1>1, <1>2, <1>3, DueFrame

(* A difference of uptimes, when the later one has not gone round since.   *)
LEMMA SinceIs ==
    ASSUME NEW u \in 0..(UptimeWrap - 1), NEW s \in 0..(UptimeWrap - 1),
           u > (u - s) % UptimeWrap
    PROVE  u - s = (u - s) % UptimeWrap
<1>1. UptimeWrap \in Nat \ {0}
  BY NumberAssumption
<1>2. CASE u >= s
  <2>1. u - s \in 0..(UptimeWrap - 1)
    BY <1>1, <1>2
  <2> QED BY <1>1, <2>1
<1>3. CASE u < s
  <2>1. u - s + UptimeWrap \in 0..(UptimeWrap - 1)
    BY <1>1, <1>3
  <2>2. (u - s) % UptimeWrap = u - s + UptimeWrap
    BY <1>1, <2>1
  <2> QED BY <1>1, <1>3, <2>2
<1> QED BY <1>2, <1>3

(* The tick of charge control: it resumes what is due, unless a window is  *)
(* stored and the time is known, and every change has its reason.          *)
LEMMA DueTick ==
    ASSUME CInv, TimeInv, DueInv, Interruptible \subseteq BeforeWrites, ChargeControlTick
    PROVE  DueInv'
<1>0. /\ PauseTime /\ Reasoned /\ Typed /\ Shapes /\ Threads = {"rx", "shell"}
      /\ ctl.allowed \in BOOLEAN /\ DOMAIN ctl = DOMAIN Allowed
      /\ DOMAIN pause = DOMAIN NoPause /\ pause.for \in Nat
  BY DueFacts
<1>1. /\ UNCHANGED <<now, up, latch, sync, thr, snap>>
      /\ thr["rx"].pc \in {"idle", "clear", "start", "epoch"} /\ thr["shell"].pc \in {"idle", "reason", "save"}
  BY JobAlone DEF ChargeControlTick
(* The flag goes up, or stays up, with a reason if it is new.              *)
<1>a. ASSUME ctl' = Allowed, ~ctl.allowed, reason' # "NONE", Resumed PROVE DueInv'
  <2>1. ctl'.allowed = TRUE
    BY <1>a DEF Allowed
  <2>2. pause'.for = 0
    BY <1>0, <1>a DEF Resumed, NoPause
  <2>3. PauseTime'
    BY <2>2 DEF PauseTime, Timed
  <2>4. Reasoned'
    BY <1>0, <1>1, <1>a, Zenon DEF Reasoned
  <2> QED BY <2>3, <2>4 DEF DueInv
<1>b. ASSUME UNCHANGED <<ctl, reason, pause>>,
             ctl.allowed \/ (window'.has /\ sync'.synced)
                \/ ~(now - pause.at >= pause.for /\ UnwrappedSincePause /\ Timed)
      PROVE  DueInv'
  <2>1. PauseTime'
    BY <1>0, <1>1, <1>b DEF PauseTime, Timed, UnwrappedSincePause, TakenAt, Since
  <2>2. Reasoned'
    BY <1>0, <1>1, <1>b DEF Reasoned
  <2> QED BY <2>1, <2>2 DEF DueInv
<1>2. CASE window.has /\ Epoch # 0
  <2>1. WindowTick
    BY <1>2 DEF ChargeControlTick
  <2>2. sync.synced
    BY <1>2 DEF Epoch
  <2>3. CASE ResumeBy("DELAY_WINDOW")
    <3>1. CASE ctl.allowed
      BY <1>b, <2>3, <3>1 DEF ResumeBy
    <3>2. CASE ~ctl.allowed
      BY <1>a, <2>3, <3>2 DEF ResumeBy
    <3> QED BY <3>1, <3>2
  <2>4. CASE /\ ctl' = [ctl EXCEPT !.allowed = FALSE] /\ reason' = "DELAY_WINDOW"
             /\ PausedBy("DELAY_WINDOW", 0)
    <3>1. pause'.for = 0
      BY <1>0, <2>4 DEF PausedBy, NoPause
    <3>2. PauseTime'
      BY <3>1 DEF PauseTime, Timed
    <3>3. Reasoned'
      BY <2>4 DEF Reasoned
    <3> QED BY <3>2, <3>3 DEF DueInv
  <2>5. CASE UNCHANGED <<ctl, reason, relay, window, pause>>
    BY <1>1, <1>2, <1>b, <2>2, <2>5
  <2> QED BY <2>1, <2>3, <2>4, <2>5 DEF WindowTick
<1>3. CASE ~(window.has /\ Epoch # 0)
  <2>1. AutoResumeTick
    BY <1>3 DEF ChargeControlTick
  <2>2. CASE ResumeBy("AUTO_RESUME") /\ ~ctl.allowed
    BY <1>a, <2>2 DEF ResumeBy
  <2>3. CASE /\ UNCHANGED <<ctl, reason, pause>>
             /\ ~(~ctl.allowed /\ ctl.resume > 0 /\ ctl.stamp > 0 /\ AutoResumeDue)
    <3>1. ASSUME Timed, UnwrappedSincePause, now - pause.at >= pause.for PROVE FALSE
      <4>1. ctl.resume = pause.for /\ TakenAt(ctl.stamp, pause.at)
        BY <1>0, <1>1, <3>1 DEF PauseTime
      <4>2. /\ up \in 0..(UptimeWrap - 1) /\ ctl.stamp \in 0..(UptimeWrap - 1)
            /\ UptimeWrap \in Nat \ {0} /\ pause.for \in Nat
            /\ Since(ctl.stamp) = now - pause.at /\ up > now - pause.at
        BY <1>0, <3>1, <4>1, NumberAssumption DEF Shapes, TakenAt, UnwrappedSincePause
      <4>3. up - ctl.stamp = now - pause.at
        BY <4>2, SinceIs DEF Since
      <4> QED BY <1>0, <2>3, <3>1, <4>1, <4>2, <4>3 DEF AutoResumeDue, Timed
    <3> QED BY <1>b, <2>3, <3>1
  <2> QED BY <2>1, <2>2, <2>3 DEF AutoResumeTick
<1> QED BY <1>2, <1>3

LEMMA DuePoll == ASSUME CInv, TimeInv, DueInv, PollButton PROVE DueInv'
<1>0. /\ PauseTime /\ Reasoned /\ Alone /\ ctl.allowed \in BOOLEAN /\ Threads = {"rx", "shell"}
      /\ DOMAIN pause = DOMAIN NoPause
  BY DueFacts
<1>1. UNCHANGED <<now, up, sync, thr, ticked, snap>> /\ job = "button"
  BY DEF PollButton
<1>2. CASE Activate
  <2>1. ctl'.allowed = TRUE /\ pause'.for = 0
    BY <1>2 DEF Activate, Latched, Allowed
  <2>2. PauseTime'
    BY <2>1 DEF PauseTime, Timed
  <2>3. thr["rx"].pc # "allow" /\ thr["shell"].pc # "allow"
    BY <1>0, <1>1 DEF Alone
  <2>4. reason' = IF ctl.allowed THEN reason ELSE "CHARGE_NOW"
    BY <1>2 DEF Activate
  <2>5. Reasoned'
    <3>1. CASE ctl.allowed
      BY <1>0, <1>1, <2>1, <2>3, <2>4, <3>1 DEF Reasoned
    <3>2. CASE ~ctl.allowed
      BY <2>4, <3>2 DEF Reasoned
    <3> QED BY <3>1, <3>2
  <2> QED BY <2>2, <2>5 DEF DueInv
<1>3. CASE Cancel /\ UNCHANGED <<ctl, reason, window>>
  <2>1. pause'.for = pause.for /\ pause'.by = pause.by /\ pause'.at = pause.at
    BY <1>0, <1>3 DEF Cancel, NoPause
  <2> QED BY <1>0, <1>1, <1>3, <2>1 DEF PauseTime, Timed, UnwrappedSincePause, TakenAt, Since, Reasoned, DueInv
<1>4. CASE UNCHANGED <<ctl, reason, window, pause>>
  BY <1>0, <1>1, <1>4 DEF PauseTime, Timed, UnwrappedSincePause, TakenAt, Since, Reasoned, DueInv
<1> QED BY <1>2, <1>3, <1>4 DEF PollButton

LEMMA DueFinish ==
    ASSUME CInv, TimeInv, DueInv, Interruptible \subseteq BeforeWrites, FinishTick
    PROVE  DueInv'
<1>0. /\ PauseTime /\ Threads = {"rx", "shell"} /\ DOMAIN pause = DOMAIN NoPause
  BY DueFacts
<1>1. /\ UNCHANGED <<now, up, ctl, window, sync, thr, ticked>> /\ snap' = ctl.allowed
      /\ thr["rx"].pc \in {"idle", "clear", "start", "epoch"} /\ thr["shell"].pc \in {"idle", "reason", "save"}
  BY JobAlone DEF FinishTick, Report
<1>2. pause'.for = pause.for /\ pause'.by = pause.by /\ pause'.at = pause.at
  BY <1>0 DEF FinishTick, Cancel, NoPause
<1>3. PauseTime'
  BY <1>0, <1>1, <1>2 DEF PauseTime, Timed, UnwrappedSincePause, TakenAt, Since
<1>4. Reasoned'
  BY <1>0, <1>1 DEF Reasoned
<1> QED BY <1>3, <1>4 DEF DueInv

LEMMA DueAdvance == ASSUME CInv, TimeInv, DueInv, Advance PROVE DueInv'
<1>0. PauseTime /\ Reasoned /\ Shapes /\ "rx" \in Threads
  BY DueFacts DEF Threads
<1>1. /\ Calm /\ ticked' = FALSE /\ UNCHANGED <<ctl, reason, sync, thr, snap, pause>>
  BY DEF Advance, device
<1>2. thr["rx"].pc = "idle"
  BY <1>0, <1>1 DEF Calm
<1>3. ASSUME Timed PROVE TakenAt(ctl.stamp, pause.at)'
  <2>1. TakenAt(ctl.stamp, pause.at) /\ FirstEpoch <= pause.at
    BY <1>0, <1>2, <1>3 DEF PauseTime
  <2> QED BY <1>0, <1>1, <2>1, TakenInRun DEF TakenAt, Since
<1>4. PauseTime'
  BY <1>0, <1>1, <1>2, <1>3 DEF PauseTime, Timed
<1>5. Reasoned'
  BY <1>0, <1>1 DEF Reasoned
<1> QED BY <1>4, <1>5 DEF DueInv

LEMMA DueReboot == ASSUME Reboot PROVE DueInv'
<1>1. ctl' = Allowed /\ pause' = NoPause /\ snap' = TRUE /\ thr' = Resting
  BY DEF Reboot
<1>2. ctl'.allowed = TRUE /\ pause'.for = 0 /\ \A t \in Threads : thr'[t].pc = "idle"
  BY <1>1 DEF Allowed, NoPause, Resting, Idle
<1>3. PauseTime'
  BY <1>2 DEF PauseTime, Timed
<1>4. Reasoned'
  BY <1>1, <1>2, Zenon DEF Reasoned
<1> QED BY <1>3, <1>4 DEF DueInv

LEMMA DueNext ==
    ASSUME Interruptible \subseteq BeforeWrites
    PROVE  CInv /\ TimeInv /\ DueInv /\ [Next]_vars => DueInv'
<1> SUFFICES ASSUME CInv, TimeInv, DueInv, [Next]_vars PROVE DueInv'
  OBVIOUS
<1>1. CASE UNCHANGED vars
  BY <1>1 DEF vars, DueInv, PauseTime, Timed, UnwrappedSincePause, TakenAt, Since, Reasoned
<1>2. ASSUME NEW t \in Threads, Set(t) PROVE DueInv'
  BY <1>2, DueReason, DueAllowed, DueStamp, DueRelay DEF Set
<1>3. CASE Job
  BY <1>3, DueTick, DuePoll, DueFinish DEF Job
<1> QED BY <1>1, <1>2, <1>3, DueRx, DueShell, DueAdvance, DueReboot DEF Next

LEMMA DueStep ==
    ASSUME Interruptible \subseteq BeforeWrites
    PROVE  /\ Init => CInv /\ TimeInv /\ DueInv
           /\ CInv /\ TimeInv /\ DueInv /\ [Next]_vars => (CInv /\ TimeInv /\ DueInv)'
  BY CInit, TimeInit, DueInit, CNext, TimeNext, DueNext

(* PRD.md:469: a pause with a duration is over when that has passed, in    *)
(* true time, unless a stored window and a known time come first, uptime   *)
(* was 0 when the pause began, or it has wrapped since                     *)
(* (charge_control.c:160-176).                                             *)
THEOREM AutoResumesBeforeWrapCorrect ==
    ASSUME Interruptible \subseteq BeforeWrites
    PROVE  Spec => []AutoResumesBeforeWrap
<1>1. DueInv => AutoResumesBeforeWrap
  BY DEF DueInv, PauseTime, Timed, Overdue, AutoResumesBeforeWrap
<1> QED
  BY DueStep, <1>1, PTL DEF Spec

(* Every change of charging_allowed between two snapshots is reported with *)
(* a reason (app_entry.c:250-263, charge_control.c:78-89, 123-176).        *)
THEOREM TransitionsAreAttributedCorrect ==
    ASSUME Interruptible \subseteq BeforeWrites
    PROVE  Spec => TransitionsAreAttributed
<1> DEFINE Told == FinishTick /\ snap' # snap => reason # "NONE"
<1>1. DueInv /\ [Next]_vars => [Told]_vars
  BY DEF DueInv, Reasoned, FinishTick, Report
<1>2. Spec => [][Told]_vars
  <2> HIDE DEF Told
  <2> QED BY DueStep, <1>1, PTL DEF Spec
<1> QED BY <1>2 DEF TransitionsAreAttributed
=============================================================================
