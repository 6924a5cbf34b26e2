------------------------ MODULE ChargeControlProofs ------------------------
(***************************************************************************)
(* Relay, latch and pauses agree for all windows, durations, clocks and    *)
(* uptimes, and any number of ticks, commands, presses and restarts in a   *)
(* run no longer than one round of the uptime counter (NumberAssumption),  *)
(* as long as the timer job cuts into a handler only where it has not      *)
(* written anything yet (BeforeWrites).  The run charge_control_race shows *)
(* that this last condition is needed.                                     *)
(*                                                                         *)
(* The argument: a handler that has begun to write is alone (Alone), so    *)
(* what it has written so far is all that may differ from a state between  *)
(* handlers (RelayInv, LatchInv, PauseInv say how, point by point).  The   *)
(* same discipline keeps the clock behind the true time (ClockInv).        *)
(***************************************************************************)
EXTENDS ChargeControl, TLAPS

SetPoints == {"reason", "allow", "stamp", "relay"}

RxType(c) ==
    \/ c = Idle
    \/ c \in [pc : SetPoints \cup {"clear"}, allowed : BOOLEAN, for : Nat,
              why : {"CLOUD_CMD"}]
    \/ c \in [pc : {"start", "end"}, w : Windows]
    \/ c \in [pc : {"epoch", "anchor"}, epoch : Int]

ShellType(c) ==
    \/ c = Idle
    \/ c = [pc |-> "save"]
    \/ c \in [pc : SetPoints, allowed : BOOLEAN, for : {0}, why : {"MANUAL"}]
    \/ c \in [pc : {"restore"}, saved : BOOLEAN]

Typed ==
    /\ now \in FirstEpoch..LastEpoch /\ up \in 0..(UptimeWrap - 1) /\ relay \in BOOLEAN
    /\ DOMAIN ctl = DOMAIN Allowed
    /\ ctl.allowed \in BOOLEAN /\ ctl.resume \in Nat /\ ctl.stamp \in Nat
    /\ DOMAIN window = DOMAIN NoWindow /\ window.has \in BOOLEAN
    /\ latch.active \in BOOLEAN
    /\ DOMAIN thr = Threads /\ RxType(thr["rx"]) /\ ShellType(thr["shell"])
    /\ DOMAIN pause = DOMAIN NoPause /\ pause.for \in Nat /\ pause.crossed \in BOOLEAN

(* Who may stand where, while the job or the other thread runs.            *)
Alone ==
    /\ job = "button" => thr["rx"].pc \in {"idle", "clear", "start", "epoch"}
    /\ job = "button" \/ thr["rx"].pc # "idle" => thr["shell"].pc \in {"idle", "reason", "save"}

(* The pin follows the flag, but for the handler that is about to set it.  *)
RelayInv ==
    /\ \A t \in Threads :
          thr[t].pc \in {"stamp", "relay"} => (thr[t].allowed <=> ctl.allowed)
    /\ thr["shell"].pc = "restore" => (thr["shell"].saved <=> ~ctl.allowed)
    /\ \/ \E t \in Threads : thr[t].pc \in {"stamp", "relay"}
       \/ thr["shell"].pc = "restore"
       \/ relay <=> ~ctl.allowed

(* The latch was off when a command passed it, and either stays off till   *)
(* its end or is known to have been crossed.                               *)
LatchInv ==
    /\ thr["rx"].pc \in SetPoints \cup {"clear", "start", "end"}
          => ~latch.active \/ pause.crossed
    /\ latch.active /\ ~pause.crossed => /\ ~window.has
                                         /\ ctl.allowed \/ pause.by = "MANUAL"

WayOut ==
    \/ pause.by = "MANUAL"
    \/ pause.by = "CLOUD_CMD" /\ pause.for = 0
    \/ window.has
    \/ ctl.resume > 0 /\ (ctl.stamp > 0 \/ PausedAtZero)

(* A pause has its way out, but for the command that is about to change it *)
(* or to arm its timer, which it does in the instant of the pause.         *)
PauseInv ==
    ~ctl.allowed =>
        /\ pause.at \in FirstEpoch..now
        /\ thr["rx"].pc \notin {"reason", "allow", "stamp"} => WayOut
        /\ thr["rx"].pc = "stamp" =>
              /\ pause.by = "CLOUD_CMD" /\ pause.for = thr["rx"].for
              /\ ctl.resume = pause.for /\ pause.at = now
        /\ thr["shell"].pc \in {"stamp", "relay"} => pause.by = "MANUAL"

CInv == Typed /\ Alone /\ RelayInv /\ LatchInv /\ PauseInv

-----------------------------------------------------------------------------
(* What a resume and the two halves of the tick do to the parts above.     *)
AtRest == /\ ctl' = Allowed /\ relay' = FALSE
          /\ DOMAIN pause' = DOMAIN NoPause /\ pause'.for \in Nat
          /\ pause'.crossed = pause.crossed

LEMMA TickEffect ==
    ASSUME Typed, ChargeControlTick
    PROVE  /\ job' = "button" /\ UNCHANGED <<now, up, latch, thr>>
           /\ MayInterrupt
           /\ \/ UNCHANGED <<ctl, relay, window, pause>>
              \/ AtRest /\ window' \in {window, NoWindow}
              \/ window' = NoWindow /\ UNCHANGED <<ctl, relay, pause>> /\ ctl.allowed
              \/ /\ window.has /\ UNCHANGED window /\ relay' = TRUE
                 /\ ctl' = [ctl EXCEPT !.allowed = FALSE]
                 /\ pause' = [pause EXCEPT !.by = "DELAY_WINDOW", !.at = now, !.for = 0]
<1>1. ASSUME NEW r, ResumeBy(r)
      PROVE  \/ UNCHANGED <<ctl, relay, pause>> /\ ctl.allowed
             \/ AtRest
  <2>1. CASE ctl.allowed
    BY <1>1, <2>1 DEF ResumeBy
  <2>2. CASE ~ctl.allowed
    <3>1. ctl' = Allowed /\ relay' = FALSE
      BY <1>1, <2>2 DEF ResumeBy
    <3>2. pause' = [pause EXCEPT !.by = "NONE", !.at = 0, !.for = 0]
      BY <1>1, <2>2 DEF ResumeBy, Resumed
    <3>3. DOMAIN pause' = DOMAIN NoPause /\ pause'.for \in Nat /\ pause'.crossed = pause.crossed
      BY <3>2 DEF Typed, NoPause
    <3> QED BY <3>1, <3>3 DEF AtRest
  <2> QED BY <2>1, <2>2
<1>2. job' = "button" /\ UNCHANGED <<now, up, latch, thr>> /\ MayInterrupt
  BY DEF ChargeControlTick
<1>3. CASE window.has /\ WindowTick
  <2>1. CASE ResumeBy("DELAY_WINDOW") /\ window' = NoWindow
    BY <1>1, <1>2, <2>1
  <2>2. CASE /\ ctl' = [ctl EXCEPT !.allowed = FALSE]
             /\ relay' = TRUE /\ PausedBy("DELAY_WINDOW", 0) /\ UNCHANGED window
    BY <1>2, <1>3, <2>2 DEF PausedBy
  <2>3. CASE UNCHANGED <<ctl, reason, relay, window, pause>>
    BY <1>2, <2>3
  <2> QED BY <1>3, <2>1, <2>2, <2>3 DEF WindowTick
<1>4. CASE AutoResumeTick
  BY <1>1, <1>2, <1>4 DEF AutoResumeTick
<1> QED
  BY <1>3, <1>4 DEF ChargeControlTick

(* A handler of the set commands moves on and keeps its parameters.        *)
LEMMA GotoSet ==
    ASSUME NEW P, NEW F, NEW W, NEW c \in [pc : P, allowed : BOOLEAN, for : F, why : W],
           NEW p \in P, NEW d, d = [c EXCEPT !.pc = p]
    PROVE  /\ d \in [pc : P, allowed : BOOLEAN, for : F, why : W]
           /\ d.pc = p /\ d.allowed = c.allowed /\ d.for = c.for
  OBVIOUS

(* Steps of a thread, in the terms of the invariant.                       *)
LEMMA ThreadStep ==
    ASSUME Typed, NEW t \in Threads, NEW X, thr' = [thr EXCEPT ![t] = X]
    PROVE  /\ DOMAIN thr' = Threads /\ thr'[t] = X
           /\ \A u \in Threads \ {t} : thr'[u] = thr[u]
  BY DEF Typed

LEMMA SetStep ==
    ASSUME Typed, NEW t \in Threads, NEW p \in SetPoints \cup {"clear"},
           NEW q \in SetPoints, At(t, p), Goto(t, q)
    PROVE  /\ DOMAIN thr' = Threads
           /\ \A u \in Threads \ {t} : thr'[u] = thr[u]
           /\ thr[t].pc = p /\ thr'[t].pc = q
           /\ thr'[t].allowed = thr[t].allowed /\ thr'[t].for = thr[t].for
           /\ thr[t].allowed \in BOOLEAN /\ thr[t].for \in Nat
           /\ t = "shell" => thr[t].for = 0 /\ thr[t].why = "MANUAL"
           /\ t = "rx" => thr[t].why = "CLOUD_CMD"
           /\ t = "rx" => RxType(thr'[t])
           /\ t = "shell" => ShellType(thr'[t]) /\ thr["rx"].pc = "idle"
           /\ job # "button"
<1>1. /\ thr[t].pc = p /\ job # "button" /\ (t = "shell" => thr["rx"].pc = "idle")
      /\ p \notin {"idle", "start", "end", "epoch", "anchor", "save", "restore"}
      /\ thr' = [thr EXCEPT ![t].pc = q]
  BY DEF At, Goto, SetPoints
<1>2. PICK d : d = [thr[t] EXCEPT !.pc = q]
  OBVIOUS
<1>3. /\ DOMAIN thr' = Threads /\ thr'[t] = d
      /\ \A u \in Threads \ {t} : thr'[u] = thr[u]
  BY <1>1, <1>2 DEF Typed
<1>4. CASE t = "rx"
  <2>1. thr[t] \in [pc : SetPoints \cup {"clear"}, allowed : BOOLEAN, for : Nat,
                    why : {"CLOUD_CMD"}]
    BY <1>1, <1>4 DEF Typed, RxType, Idle
  <2>2. /\ d \in [pc : SetPoints \cup {"clear"}, allowed : BOOLEAN, for : Nat,
                  why : {"CLOUD_CMD"}]
        /\ d.pc = q /\ d.allowed = thr[t].allowed /\ d.for = thr[t].for
    BY <1>2, <2>1, GotoSet
  <2> QED BY <1>1, <1>3, <1>4, <2>1, <2>2 DEF RxType
<1>5. CASE t = "shell"
  <2>1. thr[t] \in [pc : SetPoints, allowed : BOOLEAN, for : {0}, why : {"MANUAL"}]
    BY <1>1, <1>5 DEF Typed, ShellType, Idle
  <2>2. /\ d \in [pc : SetPoints, allowed : BOOLEAN, for : {0}, why : {"MANUAL"}]
        /\ d.pc = q /\ d.allowed = thr[t].allowed /\ d.for = thr[t].for
    BY <1>2, <2>1, GotoSet
  <2> QED BY <1>1, <1>3, <1>5, <2>1, <2>2 DEF ShellType
<1> QED BY <1>4, <1>5 DEF Threads

-----------------------------------------------------------------------------
(* A restart: allowed, pin low, nothing stored.                            *)
LEMMA CInit == Init => CInv
<1>1. Init => /\ thr["rx"] = Idle /\ thr["shell"] = Idle /\ DOMAIN thr = Threads
              /\ ctl = Allowed /\ relay = FALSE /\ ~latch.active
              /\ window = NoWindow /\ pause = NoPause /\ job = "idle"
              /\ now \in FirstEpoch..LastEpoch /\ up \in 0..(UptimeWrap - 1)
  BY NumberAssumption DEF Init, Resting, Threads, NoLatch, NoSync
<1>2. Init => latch.active \in BOOLEAN
  BY DEF Init, NoLatch
<1>3. Init => Typed
  <2>1. Init => RxType(thr["rx"]) /\ ShellType(thr["shell"])
    BY <1>1 DEF RxType, ShellType
  <2>2. /\ Allowed.allowed \in BOOLEAN /\ Allowed.resume \in Nat /\ Allowed.stamp \in Nat
        /\ NoWindow.has \in BOOLEAN /\ NoPause.for \in Nat /\ NoPause.crossed \in BOOLEAN
    BY DEF Allowed, NoWindow, NoPause
  <2> QED BY <1>1, <1>2, <2>1, <2>2 DEF Typed
<1>4. Init => thr["rx"].pc = "idle" /\ thr["shell"].pc = "idle" /\ ctl.allowed /\ relay = FALSE
  BY <1>1 DEF Idle, Allowed
<1>5. Init => Alone /\ RelayInv /\ LatchInv /\ PauseInv
  BY <1>1, <1>4 DEF Alone, RelayInv, LatchInv, PauseInv, Threads, SetPoints
<1> QED
  BY <1>3, <1>5 DEF CInv

(* Between handlers, or where the job may cut in, nothing is half written. *)
LEMMA NothingHalfWritten ==
    ASSUME CInv, thr["rx"].pc \in {"idle", "clear", "start", "epoch"}, thr["shell"].pc \in {"idle", "reason", "save"}
    PROVE  /\ relay <=> ~ctl.allowed
           /\ ~ctl.allowed => WayOut /\ pause.at \in FirstEpoch..now
  BY DEF CInv, RelayInv, PauseInv, Threads

(* The invariant at the end of a step of the job, which leaves the threads *)
(* where they are.                                                         *)
LEMMA AfterJob ==
    ASSUME CInv, thr["rx"].pc \in {"idle", "clear", "start", "epoch"}, thr["shell"].pc \in {"idle", "reason", "save"},
           Typed', thr' = thr, relay' <=> ~ctl'.allowed, ~ctl'.allowed => (WayOut /\ pause.at \in FirstEpoch..now)',
           thr["rx"].pc \in {"clear", "start"} => ~latch'.active \/ pause'.crossed,
           latch'.active /\ ~pause'.crossed
              => ~window'.has /\ (ctl'.allowed \/ pause'.by = "MANUAL")
    PROVE  CInv'
<1>1. Alone' /\ RelayInv' /\ LatchInv'
  BY DEF Alone, RelayInv, LatchInv, Threads, SetPoints
<1>2. PauseInv'
  BY DEF PauseInv
<1> QED BY <1>1, <1>2 DEF CInv

(* Where the job may cut in, no handler has written anything yet.          *)
LEMMA JobAlone ==
    ASSUME CInv, Interruptible \subseteq BeforeWrites, MayInterrupt
    PROVE  thr["rx"].pc \in {"idle", "clear", "start", "epoch"} /\ thr["shell"].pc \in {"idle", "reason", "save"}
<1>1. \A t \in Threads : thr[t].pc = "idle" \/ <<t, thr[t].pc>> \in BeforeWrites
  BY DEF MayInterrupt, GivesWay
<1> QED BY <1>1 DEF Threads, BeforeWrites

LEMMA JobNext ==
    ASSUME CInv, Interruptible \subseteq BeforeWrites, Job
    PROVE  CInv'
<1>t. Typed /\ LatchInv
  BY DEF CInv
<1>1. CASE ChargeControlTick
  <2>1. thr["rx"].pc \in {"idle", "clear", "start", "epoch"} /\ thr["shell"].pc \in {"idle", "reason", "save"}
    BY <1>1, JobAlone DEF ChargeControlTick
  <2>2. (relay <=> ~ctl.allowed) /\ (~ctl.allowed => WayOut /\ pause.at \in FirstEpoch..now)
    BY <2>1, NothingHalfWritten
  <2>3. UNCHANGED <<now, up, latch, thr>>
    BY <1>1, <1>t, TickEffect
  <2>4. CASE UNCHANGED <<ctl, relay, window, pause>>
    <3>1. Typed'
      BY <1>t, <2>3, <2>4 DEF Typed
    <3> QED BY <1>t, <2>1, <2>2, <2>3, <2>4, <3>1, AfterJob DEF LatchInv, WayOut, PausedAtZero
  <2>5. CASE AtRest /\ window' \in {window, NoWindow}
    <3>1. ctl'.allowed = TRUE /\ relay' = FALSE
      BY <2>5 DEF AtRest, Allowed
    <3>2. NoWindow.has = FALSE
      BY DEF NoWindow
    <3>3. DOMAIN window' = DOMAIN NoWindow /\ window'.has \in BOOLEAN
      BY <1>t, <2>5, <3>2 DEF Typed
    <3>4. DOMAIN ctl' = DOMAIN Allowed /\ ctl'.resume \in Nat /\ ctl'.stamp \in Nat
      BY <2>5 DEF AtRest, Allowed
    <3>5. Typed'
      BY <1>t, <2>3, <2>5, <3>1, <3>3, <3>4 DEF Typed, AtRest
    <3>6. /\ thr["rx"].pc \in {"clear", "start"} => ~latch'.active \/ pause'.crossed
          /\ latch'.active /\ ~pause'.crossed => ~window'.has
      BY <1>t, <2>3, <2>5, <3>2 DEF LatchInv, AtRest
    <3> QED BY <2>1, <2>3, <3>1, <3>5, <3>6, AfterJob
  <2>6. CASE window' = NoWindow /\ UNCHANGED <<ctl, relay, pause>> /\ ctl.allowed
    <3>1. NoWindow.has = FALSE
      BY DEF NoWindow
    <3>2. Typed'
      BY <1>t, <2>3, <2>6, <3>1 DEF Typed
    <3>3. thr["rx"].pc \in {"clear", "start"} => ~latch'.active \/ pause'.crossed
      BY <1>t, <2>3, <2>6 DEF LatchInv
    <3> QED BY <2>1, <2>2, <2>3, <2>6, <3>1, <3>2, <3>3, AfterJob
  <2>7. CASE /\ window.has /\ UNCHANGED window /\ relay' = TRUE
             /\ ctl' = [ctl EXCEPT !.allowed = FALSE]
             /\ pause' = [pause EXCEPT !.by = "DELAY_WINDOW", !.at = now, !.for = 0]
    <3>1. /\ DOMAIN ctl' = DOMAIN ctl /\ ctl'.allowed = FALSE /\ ctl'.allowed \in BOOLEAN
          /\ ctl'.resume = ctl.resume /\ ctl'.stamp = ctl.stamp
      BY <1>t, <2>7 DEF Typed, Allowed
    <3>2. /\ DOMAIN pause' = DOMAIN pause /\ pause'.for = 0 /\ pause'.at = now
          /\ pause'.crossed = pause.crossed
      BY <1>t, <2>7 DEF Typed, NoPause
    <3>3. Typed'
      <4>1. relay' \in BOOLEAN /\ pause'.for \in Nat
        BY <2>7, <3>2
      <4> QED BY <1>t, <2>3, <2>7, <3>1, <3>2, <4>1 DEF Typed
    <3>4. (WayOut /\ pause.at \in FirstEpoch..now)'
      BY <1>t, <2>3, <2>7, <3>2, NumberAssumption DEF WayOut, Typed
    <3>5. ~latch'.active \/ pause'.crossed
      BY <1>t, <2>3, <2>7, <3>2 DEF LatchInv
    <3> QED BY <2>1, <2>3, <2>7, <3>1, <3>3, <3>4, <3>5, AfterJob
  <2> QED BY <1>1, <1>t, <2>4, <2>5, <2>6, <2>7, TickEffect
<1>2. CASE PollButton
  <2>1. thr["rx"].pc \in {"idle", "clear", "start", "epoch"} /\ thr["shell"].pc \in {"idle", "reason", "save"}
    BY <1>2 DEF PollButton, CInv, Alone
  <2>2. (relay <=> ~ctl.allowed) /\ (~ctl.allowed => WayOut /\ pause.at \in FirstEpoch..now)
    BY <2>1, NothingHalfWritten
  <2>3. UNCHANGED <<now, up, thr>>
    BY <1>2 DEF PollButton
  <2>4. CASE UNCHANGED <<ctl, reason, relay, window, latch, pause>>
    <3>1. Typed'
      BY <1>t, <2>3, <2>4 DEF Typed
    <3> QED BY <1>t, <2>1, <2>2, <2>3, <2>4, <3>1, AfterJob DEF LatchInv, WayOut, PausedAtZero
  <2>5. CASE Activate
    <3>1. /\ ctl' = Allowed /\ relay' = FALSE /\ window' = NoWindow
          /\ DOMAIN pause' = DOMAIN NoPause /\ pause'.for = 0
          /\ pause'.crossed = (thr["rx"].pc \in {"clear", "start"})
          /\ latch'.active = TRUE
      BY <2>5 DEF Activate, Latched, NoPause
    <3>2. /\ ctl'.allowed = TRUE /\ DOMAIN ctl' = DOMAIN Allowed
          /\ ctl'.resume \in Nat /\ ctl'.stamp \in Nat
          /\ window'.has = FALSE /\ DOMAIN window' = DOMAIN NoWindow
      BY <3>1 DEF Allowed, NoWindow
    <3>3. Typed'
      <4>1. /\ relay' \in BOOLEAN /\ latch'.active \in BOOLEAN
            /\ ctl'.allowed \in BOOLEAN /\ window'.has \in BOOLEAN
        BY <3>1, <3>2, Zenon
      <4>2. pause'.for \in Nat /\ pause'.crossed \in BOOLEAN
        BY <3>1
      <4> QED BY <1>t, <2>3, <3>1, <3>2, <4>1, <4>2 DEF Typed
    <3> QED BY <2>1, <2>3, <3>1, <3>2, <3>3, AfterJob
  <2>6. CASE Cancel /\ UNCHANGED <<ctl, reason, relay, window>>
    <3>1. /\ latch'.active = FALSE /\ DOMAIN pause' = DOMAIN pause
          /\ pause'.for = pause.for /\ pause'.by = pause.by /\ pause'.at = pause.at
          /\ pause'.crossed \in BOOLEAN
      BY <1>t, <2>6 DEF Cancel, NoLatch, Typed, NoPause
    <3>2. Typed'
      BY <1>t, <2>3, <2>6, <3>1 DEF Typed
    <3>3. ~ctl'.allowed => (WayOut /\ pause.at \in FirstEpoch..now)'
      BY <2>2, <2>3, <2>6, <3>1 DEF WayOut, PausedAtZero
    <3> QED BY <2>1, <2>2, <2>3, <2>6, <3>1, <3>2, <3>3, AfterJob
  <2> QED BY <1>2, <2>4, <2>5, <2>6 DEF PollButton
<1>3. CASE FinishTick
  <2>1. thr["rx"].pc \in {"idle", "clear", "start", "epoch"} /\ thr["shell"].pc \in {"idle", "reason", "save"}
    BY <1>3, JobAlone DEF FinishTick
  <2>2. (relay <=> ~ctl.allowed) /\ (~ctl.allowed => WayOut /\ pause.at \in FirstEpoch..now)
    BY <2>1, NothingHalfWritten
  <2>3. UNCHANGED <<now, up, ctl, relay, window, thr>>
    BY <1>3 DEF FinishTick
  <2>4. Cancel \/ UNCHANGED <<latch, pause>>
    BY <1>3 DEF FinishTick
  <2>5. CASE UNCHANGED <<latch, pause>>
    <3>1. Typed'
      BY <1>t, <2>3, <2>5 DEF Typed
    <3> QED BY <1>t, <2>1, <2>2, <2>3, <2>5, <3>1, AfterJob DEF LatchInv, WayOut, PausedAtZero
  <2>6. CASE Cancel
    <3>1. /\ latch'.active = FALSE /\ DOMAIN pause' = DOMAIN pause
          /\ pause'.for = pause.for /\ pause'.by = pause.by /\ pause'.at = pause.at
          /\ pause'.crossed \in BOOLEAN
      BY <1>t, <2>6 DEF Cancel, NoLatch, Typed, NoPause
    <3>2. Typed'
      BY <1>t, <2>3, <3>1 DEF Typed
    <3>3. ~ctl'.allowed => (WayOut /\ pause.at \in FirstEpoch..now)'
      BY <2>2, <2>3, <3>1 DEF WayOut, PausedAtZero
    <3> QED BY <2>1, <2>2, <2>3, <3>1, <3>2, <3>3, AfterJob
  <2> QED BY <2>4, <2>5, <2>6
<1> QED BY <1>1, <1>2, <1>3 DEF Job

(* A command that arrives or begins finds nothing half written.            *)
LEMMA ArrivalNext ==
    ASSUME CInv, Interruptible \subseteq BeforeWrites,
           ReceiveLegacy \/ ReceiveWindow \/ ReceiveTimeSync \/ ShellCommand
    PROVE  CInv'
<1>t. Typed /\ Alone /\ RelayInv /\ LatchInv /\ PauseInv
  BY DEF CInv
<1>a. UNCHANGED <<now, up, latch, job, ctl, relay, window, pause>>
  BY DEF ReceiveLegacy, ReceiveWindow, ReceiveTimeSync, ShellCommand, Arrives, Frame
<1>1. ASSUME NEW X, Listening, thr' = [thr EXCEPT !["rx"] = X], RxType(X),
             X.pc \in {"clear", "start", "epoch"}, ~latch.active \/ X.pc = "epoch"
      PROVE  CInv'
  <2>1. /\ thr["rx"].pc = "idle" /\ job # "button"
    BY <1>1 DEF Listening, At
  <2>2. thr["shell"].pc \in {"idle", "reason", "save"}
    BY <1>1 DEF Listening, GivesWay, BeforeWrites
  <2>3. (relay <=> ~ctl.allowed) /\ (~ctl.allowed => WayOut /\ pause.at \in FirstEpoch..now)
    BY <2>1, <2>2, NothingHalfWritten
  <2>4. /\ DOMAIN thr' = Threads /\ thr'["rx"] = X /\ thr'["shell"] = thr["shell"]
    BY <1>t, <1>1, ThreadStep DEF Threads
  <2>5. Typed'
    BY <1>t, <1>a, <1>1, <2>4 DEF Typed
  <2>6. Alone' /\ LatchInv'
    BY <1>t, <1>a, <1>1, <2>1, <2>2, <2>4 DEF Alone, LatchInv, SetPoints
  <2>7. RelayInv'
    BY <1>t, <1>a, <1>1, <2>1, <2>2, <2>3, <2>4 DEF RelayInv, Threads
  <2>8. PauseInv'
    BY <1>a, <1>1, <2>1, <2>2, <2>3, <2>4 DEF PauseInv, WayOut, PausedAtZero
  <2> QED BY <2>5, <2>6, <2>7, <2>8 DEF CInv
<1>2. CASE ReceiveLegacy
  <2>1. PICK allowed \in BOOLEAN, d \in Durations :
          thr' = [thr EXCEPT !["rx"] = Setting("clear", allowed, d, "CLOUD_CMD")]
    BY <1>2 DEF ReceiveLegacy
  <2>2. PICK X : X = Setting("clear", allowed, d, "CLOUD_CMD")
    OBVIOUS
  <2>3. d \in Nat
    BY NumberAssumption
  <2>4. RxType(X) /\ X.pc = "clear"
    BY <2>2, <2>3 DEF Setting, RxType
  <2> QED BY <1>1, <1>2, <2>1, <2>2, <2>4 DEF ReceiveLegacy, NotLatched
<1>3. CASE ReceiveWindow
  <2>1. PICK w \in Windows : thr' = [thr EXCEPT !["rx"] = [pc |-> "start", w |-> w]]
    BY <1>3 DEF ReceiveWindow
  <2>2. PICK X : X = [pc |-> "start", w |-> w]
    OBVIOUS
  <2>3. RxType(X) /\ X.pc = "start"
    BY <2>2 DEF RxType
  <2> QED BY <1>1, <1>3, <2>1, <2>2, <2>3 DEF ReceiveWindow, NotLatched
<1>4. CASE ReceiveTimeSync
  <2>1. PICK d \in Delays : thr' = [thr EXCEPT !["rx"] = [pc |-> "epoch", epoch |-> now - d]]
    BY <1>4 DEF ReceiveTimeSync
  <2>2. PICK X : X = [pc |-> "epoch", epoch |-> now - d]
    OBVIOUS
  <2>3. now - d \in Int
    BY <1>t, NumberAssumption DEF Typed
  <2>4. RxType(X) /\ X.pc = "epoch"
    BY <2>2, <2>3 DEF RxType
  <2> QED BY <1>1, <1>4, <2>1, <2>2, <2>4 DEF ReceiveTimeSync
<1>5. CASE ShellCommand
  <2>1. PICK X : /\ thr' = [thr EXCEPT !["shell"] = X]
                 /\ ShellType(X) /\ X.pc \in {"reason", "save"}
    <3>1. CASE \E allowed \in BOOLEAN :
                 thr' = [thr EXCEPT !["shell"] = Setting("reason", allowed, 0, "MANUAL")]
      <4>1. PICK allowed \in BOOLEAN :
               thr' = [thr EXCEPT !["shell"] = Setting("reason", allowed, 0, "MANUAL")]
        BY <3>1
      <4>2. PICK X : X = Setting("reason", allowed, 0, "MANUAL")
        OBVIOUS
      <4>3. ShellType(X) /\ X.pc = "reason"
        BY <4>2 DEF Setting, ShellType, SetPoints
      <4> QED BY <4>1, <4>2, <4>3
    <3>2. CASE thr' = [thr EXCEPT !["shell"] = [pc |-> "save"]]
      <4>1. PICK X : X = [pc |-> "save"]
        OBVIOUS
      <4>2. ShellType(X) /\ X.pc = "save"
        BY <4>1 DEF ShellType
      <4> QED BY <3>2, <4>1, <4>2
    <3> QED BY <1>5, <3>1, <3>2 DEF ShellCommand
  <2>2. thr["shell"].pc = "idle" /\ thr["rx"].pc = "idle" /\ job # "button"
    BY <1>5 DEF ShellCommand, At
  <2>3. (relay <=> ~ctl.allowed) /\ (~ctl.allowed => WayOut /\ pause.at \in FirstEpoch..now)
    BY <2>2, NothingHalfWritten
  <2>4. DOMAIN thr' = Threads /\ thr'["shell"] = X /\ thr'["rx"] = thr["rx"]
    BY <1>t, <2>1, ThreadStep DEF Threads
  <2>5. Typed'
    BY <1>t, <1>a, <2>1, <2>4 DEF Typed
  <2>6. Alone' /\ LatchInv' /\ RelayInv'
    BY <1>t, <1>a, <2>1, <2>2, <2>3, <2>4
       DEF Alone, LatchInv, RelayInv, SetPoints, Threads
  <2>7. PauseInv'
    BY <1>a, <2>1, <2>2, <2>3, <2>4 DEF PauseInv, WayOut, PausedAtZero
  <2> QED BY <2>5, <2>6, <2>7 DEF CInv
<1> QED BY <1>2, <1>3, <1>4, <1>5

-----------------------------------------------------------------------------
(* A handler past its first point works alone: the other thread waits, and *)
(* the timer job has ended or is blocked on the ADC.                       *)
LEMMA WorksAlone ==
    ASSUME CInv, NEW t \in Threads, NEW p, p # "idle", At(t, p), Frame,
           DOMAIN thr' = Threads, \A u \in Threads \ {t} : thr'[u] = thr[u]
    PROVE  /\ UNCHANGED <<now, up, latch, job>>
           /\ job' # "button" /\ thr[t].pc = p
           /\ t = "rx" => /\ thr["shell"].pc \in {"idle", "reason", "save"}
                          /\ thr'["shell"] = thr["shell"]
           /\ t = "shell" => thr["rx"].pc = "idle" /\ thr'["rx"] = thr["rx"]
           /\ Alone'
<1>1. /\ UNCHANGED <<now, up, latch, job>>
      /\ job # "button" /\ thr[t].pc = p /\ (t = "shell" => thr["rx"].pc = "idle")
  BY DEF Frame, At
<1>2. t = "rx" => thr["shell"].pc \in {"idle", "reason", "save"}
  BY <1>1 DEF CInv, Alone
<1> QED BY <1>1, <1>2 DEF Alone, Threads

LEMMA ClearNext == ASSUME CInv, ClearWindow PROVE CInv'
<1>t. Typed /\ RelayInv /\ LatchInv
  BY DEF CInv
<1>1. /\ At("rx", "clear") /\ Goto("rx", "reason") /\ window' = NoWindow /\ Frame
      /\ UNCHANGED <<ctl, relay, pause>>
  BY DEF ClearWindow
<1>2. /\ DOMAIN thr' = Threads /\ \A u \in Threads \ {"rx"} : thr'[u] = thr[u]
      /\ thr'["rx"].pc = "reason" /\ RxType(thr'["rx"])
  BY <1>t, <1>1, SetStep DEF Threads, SetPoints
<1>3. /\ UNCHANGED <<now, up, latch, job>> /\ thr["rx"].pc = "clear" /\ Alone'
      /\ thr["shell"].pc \in {"idle", "reason", "save"} /\ thr'["shell"] = thr["shell"]
  BY <1>1, <1>2, WorksAlone DEF Threads
<1>4. window'.has = FALSE /\ DOMAIN window' = DOMAIN NoWindow /\ window'.has \in BOOLEAN
  BY <1>1 DEF NoWindow
<1>5. Typed'
  BY <1>t, <1>1, <1>2, <1>3, <1>4 DEF Typed
<1>6. RelayInv'
  BY <1>t, <1>1, <1>2, <1>3 DEF RelayInv, Threads
<1>7. LatchInv'
  BY <1>t, <1>1, <1>3, <1>4 DEF LatchInv, SetPoints
<1>8. PauseInv'
  BY <1>t, <1>1, <1>2, <1>3 DEF CInv, PauseInv
<1> QED BY <1>3, <1>5, <1>6, <1>7, <1>8 DEF CInv

LEMMA SetReasonNext == ASSUME CInv, NEW t \in Threads, SetReason(t) PROVE CInv'
<1>t. Typed /\ RelayInv /\ LatchInv /\ PauseInv
  BY DEF CInv
<1>1. /\ At(t, "reason") /\ Goto(t, "allow") /\ Frame
      /\ UNCHANGED <<ctl, relay, window, pause>>
  BY DEF SetReason
<1>2. /\ DOMAIN thr' = Threads /\ \A u \in Threads \ {t} : thr'[u] = thr[u]
      /\ thr'[t].pc = "allow"
      /\ t = "rx" => RxType(thr'[t])
      /\ t = "shell" => ShellType(thr'[t])
  BY <1>t, <1>1, SetStep DEF SetPoints
<1>3. /\ UNCHANGED <<now, up, latch, job>> /\ thr[t].pc = "reason" /\ Alone'
      /\ t = "rx" => /\ thr["shell"].pc \in {"idle", "reason", "save"}
                     /\ thr'["shell"] = thr["shell"]
      /\ t = "shell" => thr["rx"].pc = "idle" /\ thr'["rx"] = thr["rx"]
  BY <1>1, <1>2, WorksAlone
<1>5. Typed'
  BY <1>t, <1>1, <1>2, <1>3 DEF Typed, Threads
<1>6. RelayInv'
  BY <1>t, <1>1, <1>2, <1>3 DEF RelayInv, Threads
<1>7. LatchInv'
  BY <1>t, <1>1, <1>2, <1>3 DEF LatchInv, SetPoints, Threads
<1>8. PauseInv'
  BY <1>t, <1>1, <1>2, <1>3 DEF PauseInv, WayOut, PausedAtZero, Threads
<1> QED BY <1>3, <1>5, <1>6, <1>7, <1>8 DEF CInv

LEMMA SetAllowedNext == ASSUME CInv, NEW t \in Threads, SetAllowed(t) PROVE CInv'
<1>t. Typed /\ RelayInv /\ LatchInv /\ PauseInv
  BY DEF CInv
<1>1. /\ At(t, "allow") /\ Goto(t, "stamp") /\ Frame
      /\ UNCHANGED <<relay, window>>
      /\ ctl' = [ctl EXCEPT !.allowed = thr[t].allowed, !.resume = thr[t].for]
      /\ IF thr[t].allowed THEN Resumed ELSE PausedBy(thr[t].why, thr[t].for)
  BY DEF SetAllowed
<1>2. /\ DOMAIN thr' = Threads /\ \A u \in Threads \ {t} : thr'[u] = thr[u]
      /\ thr'[t].pc = "stamp"
      /\ thr'[t].allowed = thr[t].allowed /\ thr'[t].for = thr[t].for
      /\ thr[t].allowed \in BOOLEAN /\ thr[t].for \in Nat
      /\ t = "shell" => ShellType(thr'[t]) /\ thr[t].for = 0 /\ thr[t].why = "MANUAL"
      /\ t = "rx" => RxType(thr'[t]) /\ thr[t].why = "CLOUD_CMD"
  BY <1>t, <1>1, SetStep DEF SetPoints
<1>3. /\ UNCHANGED <<now, up, latch, job>> /\ thr[t].pc = "allow" /\ Alone'
      /\ t = "rx" => /\ thr["shell"].pc \in {"idle", "reason", "save"}
                     /\ thr'["shell"] = thr["shell"]
      /\ t = "shell" => thr["rx"].pc = "idle" /\ thr'["rx"] = thr["rx"]
  BY <1>1, <1>2, WorksAlone
<1>4. /\ DOMAIN ctl' = DOMAIN ctl /\ ctl'.allowed = thr[t].allowed
      /\ ctl'.resume = thr[t].for /\ ctl'.stamp = ctl.stamp
  BY <1>t, <1>1 DEF Typed, Allowed
<1>5. DOMAIN pause' = DOMAIN pause /\ pause'.for \in Nat /\ pause'.crossed = pause.crossed
  <2>1. DOMAIN pause = {"by", "at", "for", "latched", "crossed"}
    BY <1>t DEF Typed, NoPause
  <2>2. CASE thr[t].allowed
    <3>1. Resumed
      BY <1>1, <2>2, Zenon
    <3>2. pause' = [pause EXCEPT !.by = "NONE", !.at = 0, !.for = 0]
      BY <3>1 DEF Resumed
    <3>3. DOMAIN pause' = DOMAIN pause /\ pause'.for = 0 /\ pause'.crossed = pause.crossed
      BY <2>1, <3>2
    <3> QED BY <3>3
  <2>3. CASE ~thr[t].allowed
    BY <1>1, <1>2, <2>1, <2>3 DEF PausedBy
  <2> QED BY <2>2, <2>3
<1>6. ~thr[t].allowed
        => pause'.by = thr[t].why /\ pause'.for = thr[t].for /\ pause'.at = now
  BY <1>t, <1>1 DEF Typed, NoPause, PausedBy
<1>7. Typed'
  <2>1. ctl'.allowed \in BOOLEAN /\ ctl'.resume \in Nat /\ ctl'.stamp \in Nat
    <3>1. ctl'.allowed \in BOOLEAN
      BY <1>2, <1>4, Zenon
    <3> QED BY <1>t, <1>2, <1>4, <3>1 DEF Typed
  <2> QED BY <1>t, <1>1, <1>2, <1>3, <1>4, <1>5, <2>1 DEF Typed, Threads
<1>8. RelayInv'
  BY <1>t, <1>2, <1>3, <1>4 DEF RelayInv, Threads
<1>9. LatchInv'
  BY <1>t, <1>1, <1>2, <1>3, <1>4, <1>5, <1>6 DEF LatchInv, SetPoints, Threads
<1>10. PauseInv'
  <2>1. ~thr[t].allowed => (pause.at \in FirstEpoch..now)'
    BY <1>t, <1>3, <1>6, NumberAssumption DEF Typed
  <2> QED
    BY <1>t, <1>1, <1>2, <1>3, <1>4, <1>6, <2>1 DEF PauseInv, WayOut, PausedAtZero, Threads
<1> QED BY <1>3, <1>7, <1>8, <1>9, <1>10 DEF CInv

LEMMA SetStampNext == ASSUME CInv, NEW t \in Threads, SetStamp(t) PROVE CInv'
<1>t. Typed /\ RelayInv /\ LatchInv /\ PauseInv
  BY DEF CInv
<1>1. /\ At(t, "stamp") /\ Goto(t, "relay") /\ Frame
      /\ UNCHANGED <<relay, window, pause>>
      /\ ctl' = [ctl EXCEPT !.stamp = IF ~thr[t].allowed /\ thr[t].for > 0
                                      THEN up ELSE 0]
  BY DEF SetStamp
<1>2. /\ DOMAIN thr' = Threads /\ \A u \in Threads \ {t} : thr'[u] = thr[u]
      /\ thr'[t].pc = "relay"
      /\ thr'[t].allowed = thr[t].allowed /\ thr'[t].for = thr[t].for
      /\ thr[t].for \in Nat
      /\ t = "shell" => ShellType(thr'[t])
      /\ t = "rx" => RxType(thr'[t])
  BY <1>t, <1>1, SetStep DEF SetPoints
<1>3. /\ UNCHANGED <<now, up, latch, job>> /\ thr[t].pc = "stamp" /\ Alone'
      /\ t = "rx" => /\ thr["shell"].pc \in {"idle", "reason", "save"}
                     /\ thr'["shell"] = thr["shell"]
      /\ t = "shell" => thr["rx"].pc = "idle" /\ thr'["rx"] = thr["rx"]
  BY <1>1, <1>2, WorksAlone
<1>4. /\ DOMAIN ctl' = DOMAIN ctl /\ ctl'.allowed = ctl.allowed
      /\ ctl'.resume = ctl.resume
      /\ ctl'.stamp = IF ~thr[t].allowed /\ thr[t].for > 0 THEN up ELSE 0
  BY <1>t, <1>1 DEF Typed, Allowed
<1>5. thr[t].allowed <=> ctl.allowed
  BY <1>t, <1>3 DEF RelayInv
<1>6. ctl'.stamp \in Nat
  BY <1>t, <1>4 DEF Typed
<1>7. Typed'
  BY <1>t, <1>1, <1>2, <1>3, <1>4, <1>6 DEF Typed, Threads
<1>8. RelayInv'
  BY <1>2, <1>3, <1>4, <1>5 DEF RelayInv, Threads
<1>9. LatchInv'
  BY <1>t, <1>1, <1>2, <1>3, <1>4 DEF LatchInv, SetPoints, Threads
<1>10. PauseInv'
  <2>c. ~ctl.allowed => pause.at \in FirstEpoch..now
    BY <1>t DEF PauseInv
  <2>1. CASE t = "rx"
    <3>1. ~ctl.allowed => /\ pause.by = "CLOUD_CMD" /\ pause.for = thr["rx"].for
                          /\ ctl.resume = pause.for /\ pause.at = now
      BY <1>t, <1>3, <2>1 DEF PauseInv
    <3>2. ~ctl.allowed /\ thr["rx"].for > 0 => (ctl.stamp > 0 \/ PausedAtZero)'
      BY <1>t, <1>1, <1>3, <1>4, <1>5, <2>1, <3>1, NumberAssumption DEF Typed, PausedAtZero
    <3>3. ~ctl'.allowed => WayOut'
      BY <1>1, <1>2, <1>4, <2>1, <3>1, <3>2 DEF WayOut
    <3> QED BY <1>1, <1>2, <1>3, <1>4, <2>c, <2>1, <3>3 DEF PauseInv
  <2>2. CASE t = "shell"
    BY <1>t, <1>1, <1>2, <1>3, <1>4, <2>2 DEF PauseInv, WayOut, PausedAtZero
  <2> QED BY <2>1, <2>2 DEF Threads
<1> QED BY <1>3, <1>7, <1>8, <1>9, <1>10 DEF CInv

LEMMA SetRelayNext == ASSUME CInv, NEW t \in Threads, SetRelay(t) PROVE CInv'
<1>t. Typed /\ RelayInv /\ LatchInv /\ PauseInv
  BY DEF CInv
<1>1. /\ At(t, "relay") /\ thr' = [thr EXCEPT ![t] = Idle] /\ Frame
      /\ UNCHANGED <<ctl, window, pause>>
      /\ relay' = ~thr[t].allowed
  BY DEF SetRelay, Return
<1>2. DOMAIN thr' = Threads /\ thr'[t] = Idle /\ \A u \in Threads \ {t} : thr'[u] = thr[u]
  BY <1>t, <1>1, ThreadStep
<1>3. /\ UNCHANGED <<now, up, latch, job>> /\ thr[t].pc = "relay" /\ Alone'
      /\ t = "rx" => /\ thr["shell"].pc \in {"idle", "reason", "save"}
                     /\ thr'["shell"] = thr["shell"]
      /\ t = "shell" => thr["rx"].pc = "idle" /\ thr'["rx"] = thr["rx"]
  BY <1>1, <1>2, WorksAlone
<1>4. relay' \in BOOLEAN
  BY <1>1, Zenon
<1>5. relay' <=> ~ctl.allowed
  BY <1>t, <1>1, <1>3 DEF RelayInv
<1>6. thr'[t].pc = "idle" /\ RxType(Idle) /\ ShellType(Idle)
  BY <1>2 DEF Idle, RxType, ShellType
<1>7. Typed'
  BY <1>t, <1>1, <1>2, <1>3, <1>4, <1>6 DEF Typed, Threads
<1>8. RelayInv'
  BY <1>1, <1>3, <1>5, <1>6 DEF RelayInv, Threads
<1>9. LatchInv'
  BY <1>t, <1>1, <1>3, <1>6 DEF LatchInv, SetPoints, Threads
<1>10. PauseInv'
  BY <1>t, <1>1, <1>3, <1>6 DEF PauseInv, WayOut, PausedAtZero, Threads
<1> QED BY <1>3, <1>7, <1>8, <1>9, <1>10 DEF CInv

-----------------------------------------------------------------------------
(* The handlers that store a window or a time, field by field.             *)
LEMMA StoreNext ==
    ASSUME CInv, SetWindowStart \/ SetWindowEnd \/ SetSyncEpoch \/ SetSyncAnchor
    PROVE  CInv'
<1>t. Typed /\ RelayInv /\ LatchInv /\ PauseInv
  BY DEF CInv
<1>a. UNCHANGED <<ctl, relay, pause>> /\ Frame
  BY DEF SetWindowStart, SetWindowEnd, SetSyncEpoch, SetSyncAnchor
<1>1. ASSUME NEW p \in {"start", "end", "epoch", "anchor"}, At("rx", p),
             NEW X, thr' = [thr EXCEPT !["rx"] = X], RxType(X),
             X.pc \in {"idle", "end", "anchor"}, p \in {"epoch", "anchor"} => X.pc # "end",
             DOMAIN window' = DOMAIN window, window'.has \in BOOLEAN,
             window.has => window'.has, p \in {"epoch", "anchor"} => window' = window
      PROVE  CInv'
  <2>1. DOMAIN thr' = Threads /\ thr'["rx"] = X /\ \A u \in Threads \ {"rx"} : thr'[u] = thr[u]
    BY <1>t, <1>1, ThreadStep DEF Threads
  <2>2. /\ UNCHANGED <<now, up, latch, job>> /\ thr["rx"].pc = p /\ Alone'
        /\ thr["shell"].pc \in {"idle", "reason", "save"} /\ thr'["shell"] = thr["shell"]
    BY <1>a, <1>1, <2>1, WorksAlone DEF Threads
  <2>3. Typed'
    BY <1>t, <1>a, <1>1, <2>1, <2>2 DEF Typed
  <2>4. RelayInv'
    BY <1>t, <1>a, <1>1, <2>1, <2>2 DEF RelayInv, Threads
  <2>5. LatchInv'
    BY <1>t, <1>a, <1>1, <2>1, <2>2 DEF LatchInv, SetPoints
  <2>6. PauseInv'
    BY <1>t, <1>a, <1>1, <2>1, <2>2 DEF PauseInv, WayOut, PausedAtZero
  <2> QED BY <2>2, <2>3, <2>4, <2>5, <2>6 DEF CInv
<1>2. RxType(Idle) /\ Idle.pc = "idle"
  BY DEF Idle, RxType
<1>3. /\ DOMAIN window = {"has", "start", "end"} /\ window.has \in BOOLEAN
  BY <1>t DEF Typed, NoWindow
<1>4. CASE SetWindowStart
  <2>1. /\ thr["rx"].pc = "start" /\ thr' = [thr EXCEPT !["rx"].pc = "end"]
        /\ window' = [window EXCEPT !.start = thr["rx"].w.start]
        /\ At("rx", "start")
    BY <1>4 DEF SetWindowStart, At, Goto
  <2>2. thr["rx"] \in [pc : {"start", "end"}, w : Windows]
    BY <1>t, <2>1 DEF Typed, RxType, Idle, SetPoints
  <2>3. PICK X : X = [thr["rx"] EXCEPT !.pc = "end"]
    OBVIOUS
  <2>4. RxType(X) /\ X.pc = "end"
    BY <2>2, <2>3 DEF RxType
  <2>5. thr' = [thr EXCEPT !["rx"] = X]
    BY <2>1, <2>3
  <2>6. DOMAIN window' = DOMAIN window /\ window'.has = window.has
    BY <1>3, <2>1
  <2> QED BY <1>1, <1>3, <2>1, <2>4, <2>5, <2>6
<1>5. CASE SetWindowEnd
  <2>1. /\ thr' = [thr EXCEPT !["rx"] = Idle] /\ At("rx", "end")
        /\ window' = [window EXCEPT !.end = thr["rx"].w.end, !.has = TRUE]
    BY <1>5 DEF SetWindowEnd, Return
  <2>2. DOMAIN window' = DOMAIN window /\ window'.has = TRUE
    BY <1>3, <2>1
  <2>3. window'.has \in BOOLEAN /\ (window.has => window'.has)
    BY <2>2, Zenon
  <2> QED BY <1>1, <1>2, <2>1, <2>2, <2>3
<1>6. CASE SetSyncEpoch
  <2>1. /\ thr["rx"].pc = "epoch" /\ thr' = [thr EXCEPT !["rx"].pc = "anchor"]
        /\ window' = window /\ At("rx", "epoch")
    BY <1>6 DEF SetSyncEpoch, At, Goto
  <2>2. thr["rx"] \in [pc : {"epoch", "anchor"}, epoch : Int]
    BY <1>t, <2>1 DEF Typed, RxType, Idle, SetPoints
  <2>3. PICK X : X = [thr["rx"] EXCEPT !.pc = "anchor"]
    OBVIOUS
  <2>4. RxType(X) /\ X.pc = "anchor"
    BY <2>2, <2>3 DEF RxType
  <2>5. thr' = [thr EXCEPT !["rx"] = X]
    BY <2>1, <2>3
  <2> QED BY <1>1, <1>3, <2>1, <2>4, <2>5
<1>7. CASE SetSyncAnchor
  <2>1. /\ thr' = [thr EXCEPT !["rx"] = Idle] /\ At("rx", "anchor") /\ window' = window
    BY <1>7 DEF SetSyncAnchor, Return
  <2> QED BY <1>1, <1>2, <1>3, <2>1
<1> QED BY <1>4, <1>5, <1>6, <1>7

(* The self-test's toggling of the pin.                                    *)
LEMMA SelftestNext == ASSUME CInv, ToggleRelay \/ RestoreRelay PROVE CInv'
<1>t. Typed /\ RelayInv /\ LatchInv /\ PauseInv
  BY DEF CInv
<1>1. /\ UNCHANGED <<ctl, window, pause>> /\ Frame
      /\ At("shell", "save") \/ At("shell", "restore")
  BY DEF ToggleRelay, RestoreRelay
<1>2. thr["rx"].pc = "idle"
  BY <1>1 DEF At
<1>3. CASE ToggleRelay
  <2>1. /\ At("shell", "save") /\ relay' = FALSE
        /\ thr' = [thr EXCEPT !["shell"] = [pc |-> "restore", saved |-> relay]]
    BY <1>3 DEF ToggleRelay
  <2>2. PICK X : X = [pc |-> "restore", saved |-> relay]
    OBVIOUS
  <2>3. ShellType(X) /\ X.pc = "restore" /\ X.saved = relay
    BY <1>t, <2>2 DEF ShellType, Typed
  <2>4. /\ DOMAIN thr' = Threads /\ thr'["shell"] = X
        /\ \A u \in Threads \ {"shell"} : thr'[u] = thr[u]
    BY <1>t, <2>1, <2>2, ThreadStep DEF Threads
  <2>5. /\ UNCHANGED <<now, up, latch, job>> /\ thr["shell"].pc = "save" /\ Alone'
        /\ thr'["rx"] = thr["rx"]
    BY <1>1, <2>1, <2>4, WorksAlone DEF Threads
  <2>6. relay' \in BOOLEAN
    BY <2>1
  <2>7. Typed'
    BY <1>t, <1>1, <2>3, <2>4, <2>5, <2>6 DEF Typed
  <2>8. relay <=> ~ctl.allowed
    BY <1>t, <1>2, <2>5 DEF RelayInv, Threads
  <2>9. RelayInv'
    BY <1>1, <1>2, <2>3, <2>4, <2>5, <2>8 DEF RelayInv, Threads
  <2>10. LatchInv' /\ PauseInv'
    BY <1>t, <1>1, <1>2, <2>3, <2>4, <2>5 DEF LatchInv, PauseInv, WayOut, PausedAtZero, SetPoints
  <2> QED BY <2>5, <2>7, <2>9, <2>10 DEF CInv
<1>4. CASE RestoreRelay
  <2>1. /\ At("shell", "restore") /\ relay' = thr["shell"].saved
        /\ thr' = [thr EXCEPT !["shell"] = Idle]
    BY <1>4 DEF RestoreRelay, Return
  <2>2. /\ DOMAIN thr' = Threads /\ thr'["shell"] = Idle
        /\ \A u \in Threads \ {"shell"} : thr'[u] = thr[u]
    BY <1>t, <2>1, ThreadStep DEF Threads
  <2>3. /\ UNCHANGED <<now, up, latch, job>> /\ thr["shell"].pc = "restore" /\ Alone'
        /\ thr'["rx"] = thr["rx"]
    BY <1>1, <2>1, <2>2, WorksAlone DEF Threads
  <2>4. thr["shell"].saved \in BOOLEAN
    BY <1>t, <2>3 DEF Typed, ShellType, Idle, SetPoints
  <2>5. thr'["shell"].pc = "idle" /\ ShellType(Idle)
    BY <2>2 DEF Idle, ShellType
  <2>6. Typed'
    BY <1>t, <1>1, <2>1, <2>2, <2>3, <2>4, <2>5 DEF Typed
  <2>7. relay' <=> ~ctl.allowed
    BY <1>t, <2>1, <2>3 DEF RelayInv
  <2>8. RelayInv'
    BY <1>1, <1>2, <2>3, <2>5, <2>7 DEF RelayInv, Threads
  <2>9. LatchInv' /\ PauseInv'
    BY <1>t, <1>1, <1>2, <2>3, <2>5 DEF LatchInv, PauseInv, WayOut, PausedAtZero, SetPoints
  <2> QED BY <2>3, <2>6, <2>8, <2>9 DEF CInv
<1> QED BY <1>3, <1>4

-----------------------------------------------------------------------------

-----------------------------------------------------------------------------
LEMMA RestNext == ASSUME CInv, Reboot \/ Advance \/ UNCHANGED vars PROVE CInv'
<1>t. Typed /\ Alone /\ RelayInv /\ LatchInv /\ PauseInv
  BY DEF CInv
<1>1. CASE Reboot
  <2>1. /\ thr'["rx"] = Idle /\ thr'["shell"] = Idle /\ DOMAIN thr' = Threads
        /\ ctl' = Allowed /\ relay' = FALSE /\ latch' = NoLatch
        /\ window' = NoWindow /\ pause' = NoPause /\ job' = "idle"
        /\ now' \in FirstEpoch..LastEpoch /\ up' \in 0..(UptimeWrap - 1)
    BY <1>1, <1>t, NumberAssumption DEF Reboot, Resting, Threads, Typed
  <2>2. /\ latch'.active = FALSE /\ ctl'.allowed = TRUE /\ window'.has = FALSE
        /\ ctl'.resume \in Nat /\ ctl'.stamp \in Nat /\ pause'.for \in Nat
        /\ thr'["rx"].pc = "idle" /\ thr'["shell"].pc = "idle"
    BY <2>1 DEF NoLatch, Allowed, NoWindow, NoPause, Idle
  <2>3. /\ latch'.active \in BOOLEAN /\ ctl'.allowed \in BOOLEAN
        /\ window'.has \in BOOLEAN /\ relay' \in BOOLEAN
    BY <2>1, <2>2, Zenon
  <2>c. pause'.crossed \in BOOLEAN
    BY <2>1 DEF NoPause
  <2>4. Typed'
    BY <2>1, <2>2, <2>3, <2>c DEF Typed, RxType, ShellType
  <2>5. Alone' /\ RelayInv' /\ LatchInv' /\ PauseInv'
    BY <2>1, <2>2 DEF Alone, RelayInv, LatchInv, PauseInv, Threads, SetPoints
  <2> QED BY <2>4, <2>5 DEF CInv
<1>2. CASE Advance
  <2>1. UNCHANGED <<ctl, relay, window, latch, thr, job, pause>>
    BY <1>2 DEF Advance, device
  <2>2. now' \in FirstEpoch..LastEpoch /\ up' \in 0..(UptimeWrap - 1)
    <3>1. now' = now + 1 /\ now < LastEpoch /\ up' = (up + 1) % UptimeWrap
      BY <1>2 DEF Advance
    <3>2. up + 1 \in Int /\ UptimeWrap \in Nat \ {0}
      BY <1>t, NumberAssumption DEF Typed
    <3> QED BY <1>t, <3>1, <3>2, NumberAssumption DEF Typed
  <2>3. Typed'
    BY <1>t, <2>1, <2>2 DEF Typed
  <2>4. Alone' /\ RelayInv' /\ LatchInv'
    BY <1>t, <2>1 DEF Alone, RelayInv, LatchInv
  <2>5. ~ctl.allowed /\ PausedAtZero => PausedAtZero'
    <3> SUFFICES ASSUME ~ctl.allowed, up = now - pause.at PROVE up' = now' - pause'.at
      BY DEF PausedAtZero
    <3>1. /\ now' = now + 1 /\ now < LastEpoch /\ up' = (up + 1) % UptimeWrap
          /\ pause.at \in FirstEpoch..now /\ now \in FirstEpoch..LastEpoch
      BY <1>2, <1>t DEF Advance, PauseInv, Typed
    <3>2. up + 1 \in 0..(UptimeWrap - 1)
      BY <1>t, <3>1, NumberAssumption DEF Typed
    <3>3. up' = up + 1
      BY <3>1, <3>2, NumberAssumption
    <3> QED BY <1>t, <2>1, <3>1, <3>3, NumberAssumption DEF Typed
  <2>6. PauseInv'
    <3>1. ~ctl.allowed => (pause.at \in FirstEpoch..now)'
      BY <1>t, <1>2, <2>1, NumberAssumption DEF Advance, PauseInv, Typed
    <3>2. thr["rx"].pc = "idle"
      BY <1>2 DEF Advance, Calm, Threads
    <3> QED BY <1>t, <2>1, <2>5, <3>1, <3>2 DEF PauseInv, WayOut
  <2> QED BY <2>3, <2>4, <2>6 DEF CInv
<1>3. CASE UNCHANGED vars
  <2>1. UNCHANGED <<now, up, ctl, relay, window, latch, thr, job, pause>>
    BY <1>3 DEF vars
  <2> QED
    BY <1>t, <2>1 DEF CInv, Typed, Alone, RelayInv, LatchInv, PauseInv, WayOut,
                           PausedAtZero
<1> QED BY <1>1, <1>2, <1>3

LEMMA CNext ==
    ASSUME CInv, Interruptible \subseteq BeforeWrites, [Next]_vars
    PROVE  CInv'
<1>1. CASE Advance \/ Reboot \/ UNCHANGED vars
  BY <1>1, RestNext
<1>2. CASE Job
  BY <1>2, JobNext
<1>3. CASE Rx
  BY <1>3, ArrivalNext, ClearNext, StoreNext DEF Rx
<1>4. CASE Shell
  BY <1>4, ArrivalNext, SelftestNext DEF Shell
<1>5. ASSUME NEW t \in Threads, Set(t) PROVE CInv'
  BY <1>5, SetReasonNext, SetAllowedNext, SetStampNext, SetRelayNext DEF Set
<1> QED BY <1>1, <1>2, <1>3, <1>4, <1>5 DEF Next

-----------------------------------------------------------------------------
(* Between handlers the pin is what charging_allowed says, with windows,   *)
(* commands, presses, self-tests and the tick in any order                 *)
(* (technical-design.md:862).                                              *)
THEOREM RelayMatchesStateCorrect ==
    ASSUME Interruptible \subseteq BeforeWrites
    PROVE  Spec => []RelayMatchesState
<1>1. CInv => RelayMatchesState
  <2> SUFFICES ASSUME CInv, Calm PROVE relay = ~ctl.allowed
    BY DEF RelayMatchesState
  <2>1. relay <=> ~ctl.allowed
    BY NothingHalfWritten DEF Calm, Threads
  <2> QED BY <2>1 DEF CInv, Typed
<1> QED BY <1>1, CInit, CNext, PTL DEF Spec

(* While Charge Now is latched nobody but the shell has paused, and no     *)
(* window is stored (technical-design.md:880-884), unless a command passed *)
(* the test of the latch before the press and wrote after it               *)
(* (app_rx.c:29).                                                          *)
THEOREM LatchHoldsCorrect ==
    ASSUME Interruptible \subseteq BeforeWrites
    PROVE  Spec => []LatchHolds
<1>1. CInv => LatchHolds
  BY DEF LatchHolds, CInv, LatchInv
<1> QED BY <1>1, CInit, CNext, PTL DEF Spec

(* No order of commands, windows, presses and ticks leaves a pause that    *)
(* nobody asked for without end and that nothing will lift                 *)
(* (charge_control.c:70-93, 123-176), but for a timed pause that begins in *)
(* the very millisecond in which uptime_ms() has wrapped to 0.             *)
THEOREM NoOrphanPauseCorrect ==
    ASSUME Interruptible \subseteq BeforeWrites
    PROVE  Spec => []NoOrphanPause
<1>1. CInv => NoOrphanPause
  BY NothingHalfWritten DEF NoOrphanPause, WayOut, Calm, Threads
<1> QED BY <1>1, CInit, CNext, PTL DEF Spec

-----------------------------------------------------------------------------
(* The device's clock is never ahead of the true one: a TIME_SYNC is late, *)
(* never early, and a wrap of uptime_ms() can only set the clock back.     *)
ClockInv ==
    /\ now \in Int /\ up \in 0..(UptimeWrap - 1)
    /\ DOMAIN window = DOMAIN NoWindow /\ window.start \in Int /\ window.end \in Int
    /\ DOMAIN sync = DOMAIN NoSync /\ sync.epoch \in Int
    /\ sync.synced => sync.up \in 0..(UptimeWrap - 1)
    /\ thr["rx"].pc = "epoch" => thr["rx"].epoch \in Int /\ thr["rx"].epoch <= now
    /\ thr["rx"].pc = "anchor" => sync.epoch <= now
    /\ sync.synced /\ thr["rx"].pc # "anchor" => sync.epoch + Since(sync.up) <= now

(* Uptime goes round: a difference of two uptimes grows by one, or starts  *)
(* again at zero when it has reached the length of the round.              *)
LEMMA SinceStep ==
    ASSUME NEW u \in 0..(UptimeWrap - 1), NEW s \in 0..(UptimeWrap - 1), NEW v,
           v = (u + 1) % UptimeWrap
    PROVE  /\ (u - s) % UptimeWrap \in Nat /\ (v - s) % UptimeWrap \in Nat
           /\ (v - s) % UptimeWrap <= ((u - s) % UptimeWrap) + 1
           /\ (u - s) % UptimeWrap < UptimeWrap - 1 =>
                 (v - s) % UptimeWrap = ((u - s) % UptimeWrap) + 1
<1>1. UptimeWrap \in Nat \ {0}
  BY NumberAssumption
<1>2. ASSUME NEW x \in 0..(UptimeWrap - 1) PROVE x % UptimeWrap = x
  BY <1>1
<1>3. ASSUME NEW x \in (1 - UptimeWrap)..(-1) PROVE x % UptimeWrap = x + UptimeWrap
  BY <1>1
<1>4. v \in 0..(UptimeWrap - 1)
  BY <1>1
<1>5. ASSUME NEW w \in 0..(UptimeWrap - 1)
      PROVE  (w - s) % UptimeWrap = IF w >= s THEN w - s ELSE w - s + UptimeWrap
  <2>1. CASE w >= s
    <3>1. w - s \in 0..(UptimeWrap - 1)
      BY <1>1, <2>1
    <3> QED BY <1>2, <2>1, <3>1
  <2>2. CASE w < s
    <3>1. w - s \in (1 - UptimeWrap)..(-1)
      BY <1>1, <2>2
    <3> QED BY <1>3, <2>2, <3>1
  <2> QED BY <2>1, <2>2
<1> QED BY <1>1, <1>4, <1>5

LEMMA ClockInit == Init => ClockInv
<1> SUFFICES ASSUME Init PROVE ClockInv
  OBVIOUS
<1>1. now \in Int /\ up \in 0..(UptimeWrap - 1) /\ window = NoWindow /\ sync = NoSync
  BY NumberAssumption DEF Init
<1>2. NoSync.synced = FALSE /\ NoSync.epoch \in Int /\ NoWindow.start \in Int /\ NoWindow.end \in Int
  BY DEF NoSync, NoWindow
<1>3. thr["rx"].pc = "idle"
  BY DEF Init, Resting, Threads, Idle
<1> QED BY <1>1, <1>2, <1>3 DEF ClockInv

(* Steps that do not touch the clock, nor the handler that sets it.        *)
LEMMA ClockFrame ==
    ASSUME ClockInv, UNCHANGED <<now, up, sync>>,
           DOMAIN window' = DOMAIN NoWindow, window'.start \in Int, window'.end \in Int,
           thr'["rx"] = thr["rx"] \/ {thr["rx"].pc, thr'["rx"].pc} \cap {"epoch", "anchor"} = {}
    PROVE  ClockInv'
  BY DEF ClockInv, Since

LEMMA ClockNext ==
    ASSUME CInv, ClockInv, Interruptible \subseteq BeforeWrites, [Next]_vars
    PROVE  ClockInv'
<1>t. Typed
  BY DEF CInv
<1>n. DOMAIN NoWindow = {"has", "start", "end"} /\ NoWindow.start \in Int /\ NoWindow.end \in Int
  BY DEF NoWindow
<1>w. window' \in {window, NoWindow} =>
        DOMAIN window' = DOMAIN NoWindow /\ window'.start \in Int /\ window'.end \in Int
  BY <1>n DEF ClockInv
<1>1. CASE Reboot
  <2>1. now' \in Int /\ up' \in 0..(UptimeWrap - 1) /\ window' = NoWindow /\ sync' = NoSync
    BY <1>1, <1>t, NumberAssumption DEF Reboot, Typed
  <2>2. NoSync.synced = FALSE /\ NoSync.epoch \in Int
    BY DEF NoSync
  <2>3. thr'["rx"].pc = "idle"
    BY <1>1 DEF Reboot, Resting, Threads, Idle
  <2> QED BY <1>n, <2>1, <2>2, <2>3 DEF ClockInv
<1>2. CASE Advance
  <2>1. /\ thr' = thr /\ window' = window /\ sync' = sync /\ now' = now + 1
        /\ up' = (up + 1) % UptimeWrap
        /\ thr["rx"].pc = "idle"
    BY <1>2 DEF Advance, device, Calm, Threads
  <2>2. up' \in 0..(UptimeWrap - 1)
    BY <2>1, NumberAssumption DEF ClockInv
  <2>3. ASSUME sync.synced PROVE sync'.epoch + ((up' - sync'.up) % UptimeWrap) <= now'
    <3>1. sync.up \in 0..(UptimeWrap - 1) /\ sync.epoch + ((up - sync.up) % UptimeWrap) <= now
      BY <2>1, <2>3 DEF ClockInv, Since
    <3>2. /\ (up - sync.up) % UptimeWrap \in Nat /\ (up' - sync.up) % UptimeWrap \in Nat
          /\ (up' - sync.up) % UptimeWrap <= ((up - sync.up) % UptimeWrap) + 1
      BY <2>1, <3>1, SinceStep DEF ClockInv
    <3> QED BY <2>1, <3>1, <3>2 DEF ClockInv
  <2> QED BY <2>1, <2>2, <2>3 DEF ClockInv, Since
<1>3. CASE Job
  <2>1. UNCHANGED <<now, up, sync, thr>> /\ window' \in {window, NoWindow}
    BY <1>3 DEF Job, ChargeControlTick, WindowTick, AutoResumeTick, PollButton, Activate,
                FinishTick
  <2> QED BY <1>w, <2>1, ClockFrame
<1>4. CASE ReceiveLegacy \/ ReceiveWindow
  <2>1. UNCHANGED <<now, up, sync, window>> /\ thr["rx"].pc = "idle"
    BY <1>4 DEF ReceiveLegacy, ReceiveWindow, Arrives, Frame, NotLatched, Listening, At
  <2>2. PICK X : thr' = [thr EXCEPT !["rx"] = X] /\ X.pc \in {"clear", "start"}
    <3>1. \A p, a, d, y : Setting(p, a, d, y).pc = p
      BY DEF Setting
    <3>2. CASE ReceiveLegacy
      <4>1. PICK allowed \in BOOLEAN, d \in Durations :
              thr' = [thr EXCEPT !["rx"] = Setting("clear", allowed, d, "CLOUD_CMD")]
        BY <3>2, Zenon DEF ReceiveLegacy
      <4>2. Setting("clear", allowed, d, "CLOUD_CMD").pc = "clear"
        BY <3>1
      <4> QED BY <4>1, <4>2
    <3>3. CASE ReceiveWindow
      <4>1. \A w : [pc |-> "start", w |-> w].pc = "start"
        OBVIOUS
      <4> QED BY <3>3, <4>1, Zenon DEF ReceiveWindow
    <3> QED BY <1>4, <3>2, <3>3
  <2>3. thr'["rx"].pc \in {"clear", "start"}
    BY <1>t, <2>2, ThreadStep DEF Threads
  <2> QED BY <1>w, <2>1, <2>3, ClockFrame
<1>5. CASE ReceiveTimeSync
  <2>1. UNCHANGED <<now, up, sync, window>> /\ thr["rx"].pc = "idle"
    BY <1>5 DEF ReceiveTimeSync, Arrives, Frame, Listening, At
  <2>2. PICK d \in Delays : thr' = [thr EXCEPT !["rx"] = [pc |-> "epoch", epoch |-> now - d]]
    BY <1>5 DEF ReceiveTimeSync
  <2>3. thr'["rx"] = [pc |-> "epoch", epoch |-> now - d]
    BY <1>t, <2>2, ThreadStep DEF Threads
  <2>4. d \in Nat
    BY NumberAssumption
  <2> QED BY <2>1, <2>3, <2>4 DEF ClockInv, Since
<1>6. CASE ShellCommand \/ ToggleRelay \/ RestoreRelay
  <2>1. UNCHANGED <<now, up, sync, window>>
    BY <1>6 DEF ShellCommand, ToggleRelay, RestoreRelay, Arrives, Frame
  <2>2. PICK X : thr' = [thr EXCEPT !["shell"] = X]
    BY <1>6 DEF ShellCommand, ToggleRelay, RestoreRelay, Return
  <2>3. thr'["rx"] = thr["rx"]
    BY <1>t, <2>2, ThreadStep DEF Threads
  <2> QED BY <1>w, <2>1, <2>3, ClockFrame
<1>7. CASE ClearWindow
  <2>1. UNCHANGED <<now, up, sync>> /\ window' = NoWindow
    BY <1>7 DEF ClearWindow, Frame
  <2>2. thr["rx"].pc = "clear" /\ thr'["rx"].pc = "reason"
    BY <1>t, <1>7, SetStep DEF ClearWindow, Threads, SetPoints
  <2> QED BY <1>w, <2>1, <2>2, ClockFrame
<1>8. ASSUME NEW t \in Threads, Set(t) PROVE ClockInv'
  <2>1. UNCHANGED <<now, up, sync, window>>
    BY <1>8 DEF Set, SetReason, SetAllowed, SetStamp, SetRelay, Frame
  <2>2. PICK X : thr' = [thr EXCEPT ![t] = X]
    BY <1>8 DEF Set, SetReason, SetAllowed, SetStamp, SetRelay, Goto, Return
  <2>3. t = "shell" => thr'["rx"] = thr["rx"]
    BY <1>t, <2>2, ThreadStep DEF Threads
  <2>4. ASSUME NEW p \in SetPoints, NEW q \in SetPoints, At(t, p), Goto(t, q), t = "rx"
        PROVE  {thr["rx"].pc, thr'["rx"].pc} \cap {"epoch", "anchor"} = {}
    <3>1. thr["rx"].pc = p /\ thr'["rx"].pc = q
      BY <1>t, <2>4, SetStep DEF Threads
    <3> QED BY <3>1 DEF SetPoints
  <2>5. CASE SetRelay(t) /\ t = "rx"
    <3>1. thr["rx"].pc = "relay" /\ thr'["rx"] = Idle
      BY <1>t, <2>5, ThreadStep DEF SetRelay, At, Return, Threads
    <3> QED BY <1>w, <2>1, <3>1, ClockFrame DEF Idle
  <2>6. CASE (SetReason(t) \/ SetAllowed(t) \/ SetStamp(t)) /\ t = "rx"
    <3>1. {thr["rx"].pc, thr'["rx"].pc} \cap {"epoch", "anchor"} = {}
      BY <2>4, <2>6 DEF SetReason, SetAllowed, SetStamp, SetPoints
    <3> QED BY <1>w, <2>1, <3>1, ClockFrame
  <2>7. CASE t = "shell"
    BY <1>w, <2>1, <2>3, <2>7, ClockFrame
  <2> QED BY <1>8, <2>5, <2>6, <2>7 DEF Set, Threads
<1>9. CASE SetWindowStart \/ SetWindowEnd
  <2>1. /\ UNCHANGED <<now, up, sync>> /\ thr["rx"].pc \in {"start", "end"}
        /\ \/ window' = [window EXCEPT !.start = thr["rx"].w.start]
           \/ window' = [window EXCEPT !.end = thr["rx"].w.end, !.has = TRUE]
    BY <1>9 DEF SetWindowStart, SetWindowEnd, Frame, At
  <2>2. thr["rx"] \in [pc : {"start", "end"}, w : Windows]
    BY <1>t, <2>1 DEF Typed, RxType, Idle, SetPoints
  <2>3. thr["rx"].w.start \in Int /\ thr["rx"].w.end \in Int
    BY <2>2, WindowAssumption
  <2>4. DOMAIN window' = DOMAIN NoWindow /\ window'.start \in Int /\ window'.end \in Int
    BY <1>n, <2>1, <2>3 DEF ClockInv
  <2>5. PICK X : thr' = [thr EXCEPT !["rx"] = X] /\ X.pc \in {"end", "idle"}
    <3>1. PICK Y : Y = [thr["rx"] EXCEPT !.pc = "end"]
      OBVIOUS
    <3>2. Y.pc = "end"
      BY <2>2, <3>1
    <3> QED BY <1>9, <3>1, <3>2 DEF SetWindowStart, SetWindowEnd, Goto, Return, Idle
  <2>6. thr'["rx"].pc \in {"end", "idle"}
    BY <1>t, <2>5, ThreadStep DEF Threads
  <2> QED BY <2>1, <2>4, <2>6, ClockFrame
<1>10. CASE SetSyncEpoch
  <2>1. /\ UNCHANGED <<now, up, window>> /\ thr["rx"].pc = "epoch"
        /\ sync' = [sync EXCEPT !.epoch = thr["rx"].epoch]
        /\ thr' = [thr EXCEPT !["rx"].pc = "anchor"]
    BY <1>10 DEF SetSyncEpoch, Frame, At, Goto
  <2>2. /\ DOMAIN sync' = DOMAIN NoSync /\ sync'.epoch = thr["rx"].epoch
        /\ sync'.synced = sync.synced /\ sync'.up = sync.up
    BY <2>1 DEF ClockInv, NoSync
  <2>3. thr["rx"] \in [pc : {"epoch", "anchor"}, epoch : Int]
    BY <1>t, <2>1 DEF Typed, RxType, Idle, SetPoints
  <2>4. PICK X : X = [thr["rx"] EXCEPT !.pc = "anchor"]
    OBVIOUS
  <2>5. X.pc = "anchor"
    BY <2>3, <2>4
  <2>6. thr'["rx"].pc = "anchor"
    BY <1>t, <2>1, <2>4, <2>5, ThreadStep DEF Threads
  <2> QED BY <2>1, <2>2, <2>6 DEF ClockInv
<1>11. CASE SetSyncAnchor
  <2>1. /\ UNCHANGED <<now, up, window>> /\ thr["rx"].pc = "anchor"
        /\ sync' = [sync EXCEPT !.up = up, !.synced = TRUE]
        /\ thr' = [thr EXCEPT !["rx"] = Idle]
    BY <1>11 DEF SetSyncAnchor, Frame, At, Return
  <2>2. /\ DOMAIN sync' = DOMAIN NoSync /\ sync'.epoch = sync.epoch /\ sync'.up = up
    BY <2>1 DEF ClockInv, NoSync
  <2>3. thr'["rx"].pc = "idle"
    BY <1>t, <2>1, ThreadStep DEF Threads, Idle
  <2>4. (up' - sync'.up) % UptimeWrap = 0
    <3>1. UptimeWrap \in Nat \ {0} /\ up' - sync'.up = 0
      BY <2>1, <2>2, NumberAssumption DEF ClockInv
    <3> QED BY <3>1
  <2> QED BY <2>1, <2>2, <2>3, <2>4 DEF ClockInv, Since
<1>12. CASE UNCHANGED vars
  <2>1. UNCHANGED <<now, up, window, sync, thr>>
    BY <1>12 DEF vars, device
  <2> QED BY <2>1 DEF ClockInv, Since
<1> QED
  BY <1>1, <1>2, <1>3, <1>4, <1>5, <1>6, <1>7, <1>8, <1>9, <1>10, <1>11, <1>12
     DEF Next, Rx, Shell

(* The device pauses for a window no earlier than its start and drops it   *)
(* no earlier than its end, in true time, whatever re-synchronisations,    *)
(* restarts and wraps of the uptime counter happen on the way              *)
(* (technical-design.md:477-479).                                          *)
THEOREM WindowNotCutShortCorrect ==
    ASSUME Interruptible \subseteq BeforeWrites
    PROVE  Spec => WindowNotCutShort
<1> DEFINE Kept == job = "idle" /\ job' = "button" /\ window.has =>
                      /\ ctl.allowed /\ ~ctl'.allowed => now >= window.start
                      /\ ~window'.has => now > window.end
<1>1. ASSUME CInv, ClockInv, [Next]_vars PROVE [Kept]_vars
  <2> SUFFICES ASSUME job = "idle", job' = "button", window.has PROVE
                  /\ ctl.allowed /\ ~ctl'.allowed => now >= window.start
                  /\ ~window'.has => now > window.end
    OBVIOUS
  <2>1. ChargeControlTick
    BY <1>1 DEF Next, Advance, Reboot, Job, PollButton, FinishTick, Rx, Shell, ReceiveLegacy,
                ReceiveWindow, ReceiveTimeSync, ClearWindow, SetWindowStart, SetWindowEnd,
                SetSyncEpoch, SetSyncAnchor, ShellCommand, ToggleRelay, RestoreRelay, Set,
                SetReason, SetAllowed, SetStamp, SetRelay, Arrives, Frame, vars
  <2>2. thr["rx"].pc # "anchor"
    BY <1>1, <2>1, JobAlone DEF ChargeControlTick
  <2>3. CASE Epoch # 0
    <3>1. Epoch \in Int /\ Epoch <= now
      <4>1. sync.synced /\ Epoch = sync.epoch + Since(sync.up)
        BY <2>3 DEF Epoch
      <4>2. Since(sync.up) \in Int
        BY <1>1, <4>1, SinceStep DEF ClockInv, Since
      <4> QED BY <1>1, <2>2, <4>1, <4>2 DEF ClockInv
    <3>2. now \in Int /\ window.start \in Int /\ window.end \in Int
      BY <1>1 DEF ClockInv
    <3>3. WindowTick
      BY <2>1, <2>3 DEF ChargeControlTick
    <3>4. Allowed.allowed = TRUE
      BY DEF Allowed
    <3>5. CASE Epoch > window.end /\ ResumeBy("DELAY_WINDOW")
      BY <3>1, <3>2, <3>4, <3>5 DEF ResumeBy
    <3>6. CASE Epoch >= window.start /\ window' = window
      BY <3>1, <3>2, <3>6
    <3>7. CASE UNCHANGED <<ctl, reason, relay, window, pause>>
      BY <3>7
    <3> QED BY <3>3, <3>5, <3>6, <3>7 DEF WindowTick, WindowOver
  <2>4. CASE Epoch = 0
    <3>1. AutoResumeTick
      BY <2>1, <2>4 DEF ChargeControlTick
    <3>2. Allowed.allowed = TRUE
      BY DEF Allowed
    <3> QED BY <3>1, <3>2 DEF AutoResumeTick, ResumeBy
  <2> QED BY <2>3, <2>4
<1>2. CInv /\ ClockInv /\ [Next]_vars => CInv' /\ ClockInv'
  BY CNext, ClockNext
<1>3. Init => CInv /\ ClockInv
  BY CInit, ClockInit
<1>4. CInv /\ ClockInv /\ [Next]_vars => [Kept]_vars
  BY <1>1
<1>5. Spec => [][Kept]_vars
  <2> HIDE DEF Kept
  <2> QED BY <1>2, <1>3, <1>4, PTL DEF Spec
<1> QED BY <1>5 DEF WindowNotCutShort

-----------------------------------------------------------------------------
(* Types.  Any thread may hold any command here; which one holds which is  *)
(* Typed's matter.                                                         *)
SetCommands == [pc : SetPoints \cup {"clear"}, allowed : BOOLEAN,
                for : Durations \cup {0}, why : {"CLOUD_CMD", "MANUAL"}]

LEMMA CommandAt ==
    ASSUME NEW c \in Commands
    PROVE  /\ c.pc \in SetPoints \cup {"clear"} => c \in SetCommands
           /\ c.pc \in {"start", "end"} => c \in [pc : {"start", "end"}, w : Windows]
           /\ c.pc \in {"epoch", "anchor"} => c \in [pc : {"epoch", "anchor"}, epoch : Numbers]
           /\ c.pc = "restore" => c \in [pc : {"restore"}, saved : BOOLEAN]
  BY DEF Commands, SetCommands, SetPoints, Idle

LEMMA CommandsAre ==
    /\ Idle \in Commands /\ [pc |-> "save"] \in Commands
    /\ SetCommands \subseteq Commands
    /\ [pc : {"start", "end"}, w : Windows] \subseteq Commands
    /\ [pc : {"epoch", "anchor"}, epoch : Numbers] \subseteq Commands
    /\ [pc : {"restore"}, saved : BOOLEAN] \subseteq Commands
  BY DEF Commands, SetCommands, SetPoints

StaticsType ==
    /\ now \in FirstEpoch..LastEpoch /\ up \in 0..(UptimeWrap - 1)
    /\ ctl \in [allowed : BOOLEAN, resume : Durations \cup {0}, stamp : 0..(UptimeWrap - 1)]
    /\ latch \in [active : BOOLEAN, start : 0..(UptimeWrap - 1)]
    /\ sync \in [synced : BOOLEAN, epoch : Numbers, up : 0..(UptimeWrap - 1)]
FlagsType ==
    /\ reason \in Reasons /\ relay \in BOOLEAN /\ ticked \in BOOLEAN
    /\ DOMAIN window = DOMAIN NoWindow /\ window.has \in BOOLEAN
    /\ job \in {"idle", "button", "sampling"}
    /\ snap \in BOOLEAN
    /\ DOMAIN pause = DOMAIN NoPause /\ pause.by \in Reasons
    /\ pause.crossed \in BOOLEAN
TypeInv == StaticsType /\ FlagsType /\ thr \in [Threads -> Commands]

LEMMA TypeInit == Init => TypeInv
<1> SUFFICES ASSUME Init PROVE TypeInv
  OBVIOUS
<1>1. StaticsType
  <2>1. now \in FirstEpoch..LastEpoch /\ up \in 0..(UptimeWrap - 1)
    BY NumberAssumption DEF Init
  <2>2. ctl \in [allowed : BOOLEAN, resume : Durations \cup {0}, stamp : 0..(UptimeWrap - 1)]
    BY NumberAssumption DEF Init, Allowed
  <2>3. /\ latch \in [active : BOOLEAN, start : 0..(UptimeWrap - 1)]
        /\ sync \in [synced : BOOLEAN, epoch : Numbers, up : 0..(UptimeWrap - 1)]
    BY NumberAssumption DEF Init, NoLatch, NoSync, Numbers
  <2> QED BY <2>1, <2>2, <2>3 DEF StaticsType
<1>2. FlagsType
  BY DEF Init, FlagsType, NoWindow, NoPause, Reasons
<1>3. thr \in [Threads -> Commands]
  BY CommandsAre DEF Init, Resting
<1> QED BY <1>1, <1>2, <1>3 DEF TypeInv

(* What the writers of several statics at once leave behind.               *)
LEMMA ResumeType ==
    ASSUME TypeInv, NEW r \in Reasons, ResumeBy(r)
    PROVE  /\ ctl' \in [allowed : BOOLEAN, resume : Durations \cup {0}, stamp : 0..(UptimeWrap - 1)]
           /\ reason' \in Reasons /\ relay' \in BOOLEAN
           /\ DOMAIN pause' = DOMAIN NoPause /\ pause'.by \in Reasons
           /\ pause'.crossed \in BOOLEAN
<1>1. CASE ctl.allowed
  BY <1>1 DEF ResumeBy, TypeInv, StaticsType, FlagsType
<1>2. CASE ~ctl.allowed
  <2>1. ctl' = Allowed /\ reason' = r /\ relay' = FALSE
    BY <1>2 DEF ResumeBy
  <2>2. pause' = [pause EXCEPT !.by = "NONE", !.at = 0, !.for = 0]
    BY <1>2 DEF ResumeBy, Resumed
  <2>3. /\ DOMAIN pause' = DOMAIN NoPause /\ pause'.by \in Reasons
        /\ pause'.crossed \in BOOLEAN
    BY <2>2 DEF TypeInv, FlagsType, NoPause, Reasons
  <2>4. ctl' \in [allowed : BOOLEAN, resume : Durations \cup {0}, stamp : 0..(UptimeWrap - 1)]
    BY <2>1, NumberAssumption DEF Allowed
  <2> QED BY <2>1, <2>3, <2>4
<1> QED BY <1>1, <1>2

LEMMA PausedType ==
    ASSUME TypeInv, NEW who \in Reasons, NEW units, PausedBy(who, units)
    PROVE  /\ DOMAIN pause' = DOMAIN NoPause /\ pause'.by \in Reasons
           /\ pause'.crossed \in BOOLEAN
  BY DEF PausedBy, TypeInv, FlagsType, NoPause

LEMMA TypeJob == ASSUME TypeInv, Job PROVE TypeInv'
<1>n. /\ "DELAY_WINDOW" \in Reasons /\ "AUTO_RESUME" \in Reasons /\ "NONE" \in Reasons
      /\ "CHARGE_NOW" \in Reasons
      /\ DOMAIN NoWindow = DOMAIN NoWindow /\ NoWindow.has \in BOOLEAN
  BY DEF Reasons, NoWindow
<1>t. StaticsType /\ FlagsType /\ thr \in [Threads -> Commands]
  BY DEF TypeInv
<1>1. CASE ChargeControlTick
  <2>1. /\ job' = "button" /\ ticked' = TRUE
        /\ UNCHANGED <<now, up, latch, sync, thr, snap>>
    BY <1>1 DEF ChargeControlTick
  <2>2. /\ ctl' \in [allowed : BOOLEAN, resume : Durations \cup {0}, stamp : 0..(UptimeWrap - 1)]
        /\ reason' \in Reasons /\ relay' \in BOOLEAN
        /\ DOMAIN pause' = DOMAIN NoPause /\ pause'.by \in Reasons
        /\ pause'.crossed \in BOOLEAN
        /\ window' \in {window, NoWindow}
    <3>1. CASE WindowTick
      <4>1. CASE ResumeBy("DELAY_WINDOW") /\ window' = NoWindow
        BY <1>n, <4>1, ResumeType
      <4>2. CASE /\ ctl' = [ctl EXCEPT !.allowed = FALSE]
                 /\ reason' = "DELAY_WINDOW" /\ relay' = TRUE
                 /\ PausedBy("DELAY_WINDOW", 0) /\ UNCHANGED window
        <5>1. /\ DOMAIN pause' = DOMAIN NoPause /\ pause'.by \in Reasons
              /\ pause'.crossed \in BOOLEAN
          BY <1>n, <4>2, PausedType
        <5>2. ctl' \in [allowed : BOOLEAN, resume : Durations \cup {0}, stamp : 0..(UptimeWrap - 1)]
          BY <1>t, <4>2 DEF StaticsType
        <5> QED BY <1>n, <4>2, <5>1, <5>2
      <4>3. CASE UNCHANGED <<ctl, reason, relay, window, pause>>
        BY <1>t, <4>3 DEF StaticsType, FlagsType
      <4> QED BY <3>1, <4>1, <4>2, <4>3 DEF WindowTick
    <3>2. CASE AutoResumeTick
      <4>1. CASE ResumeBy("AUTO_RESUME") /\ UNCHANGED window
        BY <1>n, <4>1, ResumeType
      <4>2. CASE UNCHANGED <<ctl, reason, relay, window, pause>>
        BY <1>t, <4>2 DEF StaticsType, FlagsType
      <4> QED BY <3>2, <4>1, <4>2 DEF AutoResumeTick
    <3> QED BY <1>1, <3>1, <3>2 DEF ChargeControlTick
  <2>3. StaticsType'
    BY <1>t, <2>1, <2>2 DEF StaticsType
  <2>4. FlagsType'
    <3>1. DOMAIN window' = DOMAIN NoWindow /\ window'.has \in BOOLEAN
      BY <1>n, <1>t, <2>2 DEF FlagsType
    <3> QED BY <1>t, <2>1, <2>2, <3>1 DEF FlagsType
  <2> QED BY <1>t, <2>1, <2>3, <2>4 DEF TypeInv
<1>2. CASE PollButton
  <2>1. job' = "sampling" /\ UNCHANGED <<now, up, sync, thr, ticked, snap>>
    BY <1>2 DEF PollButton
  <2>2. CASE UNCHANGED <<ctl, reason, relay, window, latch, pause>>
    BY <1>t, <2>1, <2>2 DEF StaticsType, FlagsType, TypeInv
  <2>3. CASE Activate
    <3>1. StaticsType'
      <4>1. /\ ctl' \in [allowed : BOOLEAN, resume : Durations \cup {0}, stamp : 0..(UptimeWrap - 1)]
            /\ latch' \in [active : BOOLEAN, start : 0..(UptimeWrap - 1)]
        BY <1>t, <2>3, NumberAssumption DEF Activate, Allowed, StaticsType
      <4> QED BY <1>t, <2>1, <4>1 DEF StaticsType
    <3>2. FlagsType'
      <4>1. /\ DOMAIN pause' = DOMAIN NoPause /\ pause'.by \in Reasons
            /\ window' = NoWindow /\ relay' \in BOOLEAN /\ pause'.crossed \in BOOLEAN
        <5>1. /\ pause' = [by |-> "NONE", at |-> 0, for |-> 0, latched |-> now,
                            crossed |-> thr["rx"].pc \in {"clear", "start"}]
              /\ window' = NoWindow /\ relay' = FALSE
          BY <2>3 DEF Activate, Latched
        <5>2. /\ DOMAIN pause' = DOMAIN NoPause /\ pause'.by = "NONE"
              /\ pause'.crossed = (thr["rx"].pc \in {"clear", "start"})
          BY <5>1 DEF NoPause
        <5>3. pause'.crossed \in BOOLEAN /\ relay' \in BOOLEAN
          <6>1. pause'.crossed \in BOOLEAN
            BY <5>2
          <6>2. relay' \in BOOLEAN
            BY <5>1
          <6> QED BY <6>1, <6>2
        <5> QED BY <1>n, <5>1, <5>2, <5>3
      <4>2. reason' \in Reasons
        BY <1>n, <1>t, <2>3 DEF Activate, FlagsType
      <4> QED BY <1>n, <1>t, <2>1, <4>1, <4>2 DEF FlagsType
    <3> QED BY <1>t, <2>1, <3>1, <3>2 DEF TypeInv
  <2>4. CASE Cancel /\ UNCHANGED <<ctl, reason, relay, window>>
    <3>1. /\ latch' \in [active : BOOLEAN, start : 0..(UptimeWrap - 1)]
          /\ DOMAIN pause' = DOMAIN NoPause /\ pause'.by \in Reasons
          /\ pause'.crossed \in BOOLEAN
      BY <1>t, <2>4, NumberAssumption DEF Cancel, NoLatch, FlagsType, NoPause
    <3>2. StaticsType' /\ FlagsType'
      BY <1>t, <2>1, <2>4, <3>1 DEF StaticsType, FlagsType
    <3> QED BY <1>t, <2>1, <3>2 DEF TypeInv
  <2> QED BY <1>2, <2>2, <2>3, <2>4 DEF PollButton
<1>3. CASE FinishTick
  <2>1. /\ job' = "idle" /\ snap' = ctl.allowed /\ reason' = "NONE"
        /\ UNCHANGED <<now, up, ctl, relay, window, sync, thr, ticked>>
    BY <1>3 DEF FinishTick, Report
  <2>2. snap' \in BOOLEAN
    BY <1>t, <2>1 DEF StaticsType
  <2>3. /\ latch' \in [active : BOOLEAN, start : 0..(UptimeWrap - 1)]
        /\ DOMAIN pause' = DOMAIN NoPause /\ pause'.by \in Reasons
        /\ pause'.crossed \in BOOLEAN
    <3>1. Cancel \/ UNCHANGED <<latch, pause>>
      BY <1>3 DEF FinishTick
    <3>2. CASE Cancel
      BY <1>t, <3>2, NumberAssumption DEF Cancel, NoLatch, FlagsType, NoPause
    <3>3. CASE UNCHANGED <<latch, pause>>
      BY <1>t, <3>3 DEF FlagsType, StaticsType
    <3> QED BY <3>1, <3>2, <3>3
  <2>4. StaticsType' /\ FlagsType'
    BY <1>n, <1>t, <2>1, <2>2, <2>3 DEF StaticsType, FlagsType
  <2> QED BY <1>t, <2>1, <2>4 DEF TypeInv
<1> QED BY <1>1, <1>2, <1>3 DEF Job

(* A step of a thread that leaves the statics alone.                       *)
LEMMA TypeThread ==
    ASSUME TypeInv, NEW t \in Threads, NEW c \in Commands,
           thr' = [thr EXCEPT ![t] = c], Frame, StaticsType', FlagsType'
    PROVE  TypeInv'
  BY DEF TypeInv

LEMMA TypeArrives ==
    ASSUME TypeInv, NEW t \in Threads, NEW c \in Commands,
           thr' = [thr EXCEPT ![t] = c], Arrives
    PROVE  TypeInv'
<1>1. StaticsType' /\ FlagsType'
  BY DEF TypeInv, StaticsType, FlagsType, Arrives, Frame
<1> QED BY <1>1, TypeThread DEF Arrives

LEMMA TypeRx == ASSUME TypeInv, Rx PROVE TypeInv'
<1>t. StaticsType /\ FlagsType /\ thr \in [Threads -> Commands]
  BY DEF TypeInv
<1>r. "rx" \in Threads /\ thr["rx"] \in Commands
  BY <1>t DEF Threads
<1>u. now \in FirstEpoch..LastEpoch /\ up \in 0..(UptimeWrap - 1)
  BY <1>t DEF StaticsType
<1>1. CASE ReceiveLegacy
  <2>1. PICK allowed \in BOOLEAN, d \in Durations :
           thr' = [thr EXCEPT !["rx"] = Setting("clear", allowed, d, "CLOUD_CMD")]
    BY <1>1 DEF ReceiveLegacy
  <2>2. Setting("clear", allowed, d, "CLOUD_CMD") \in SetCommands
    BY DEF Setting, SetCommands
  <2> QED BY <1>1, <1>r, <2>1, <2>2, CommandsAre, TypeArrives DEF ReceiveLegacy
<1>2. CASE ReceiveWindow
  <2>1. PICK w \in Windows : thr' = [thr EXCEPT !["rx"] = [pc |-> "start", w |-> w]]
    BY <1>2 DEF ReceiveWindow
  <2>2. [pc |-> "start", w |-> w] \in [pc : {"start", "end"}, w : Windows]
    OBVIOUS
  <2> QED BY <1>2, <1>r, <2>1, <2>2, CommandsAre, TypeArrives DEF ReceiveWindow
<1>3. CASE ReceiveTimeSync
  <2>1. PICK d \in Delays : thr' = [thr EXCEPT !["rx"] = [pc |-> "epoch", epoch |-> now - d]]
    BY <1>3 DEF ReceiveTimeSync
  <2>2. now - d \in Numbers
    BY <1>u, NumberAssumption DEF Numbers
  <2>3. [pc |-> "epoch", epoch |-> now - d] \in [pc : {"epoch", "anchor"}, epoch : Numbers]
    BY <2>2
  <2> QED BY <1>3, <1>r, <2>1, <2>3, CommandsAre, TypeArrives DEF ReceiveTimeSync
<1>4. CASE ClearWindow
  <2>1. thr["rx"].pc = "clear" /\ Frame
    BY <1>4 DEF ClearWindow, At
  <2>2. thr["rx"] \in SetCommands
    BY <1>r, <2>1, CommandAt DEF SetPoints
  <2>3. [thr["rx"] EXCEPT !.pc = "reason"] \in SetCommands
    BY <2>2 DEF SetCommands, SetPoints
  <2>4. StaticsType' /\ FlagsType'
    BY <1>t, <1>4 DEF StaticsType, FlagsType, ClearWindow, NoWindow, Frame
  <2>5. thr' = [thr EXCEPT !["rx"] = [thr["rx"] EXCEPT !.pc = "reason"]]
    BY <1>4 DEF ClearWindow, Goto
  <2> QED BY <1>r, <2>1, <2>3, <2>4, <2>5, CommandsAre, TypeThread
<1>5. CASE SetWindowStart
  <2>1. thr["rx"].pc = "start" /\ Frame
    BY <1>5 DEF SetWindowStart, At
  <2>2. thr["rx"] \in [pc : {"start", "end"}, w : Windows]
    BY <1>r, <2>1, CommandAt
  <2>3. [thr["rx"] EXCEPT !.pc = "end"] \in [pc : {"start", "end"}, w : Windows]
    BY <2>2
  <2>4. StaticsType' /\ FlagsType'
    <3>1. DOMAIN window' = DOMAIN NoWindow /\ window'.has = window.has
      BY <1>t, <1>5 DEF FlagsType, SetWindowStart, NoWindow
    <3> QED BY <1>t, <1>5, <3>1 DEF StaticsType, FlagsType, SetWindowStart, Frame
  <2>5. thr' = [thr EXCEPT !["rx"] = [thr["rx"] EXCEPT !.pc = "end"]]
    BY <1>5 DEF SetWindowStart, Goto
  <2> QED BY <1>r, <2>1, <2>3, <2>4, <2>5, CommandsAre, TypeThread
<1>6. CASE SetWindowEnd
  <2>1. Frame /\ thr' = [thr EXCEPT !["rx"] = Idle]
    BY <1>6 DEF SetWindowEnd, Return
  <2>2. StaticsType' /\ FlagsType'
    <3>1. DOMAIN window' = DOMAIN NoWindow /\ window'.has = TRUE
      BY <1>t, <1>6 DEF FlagsType, SetWindowEnd, NoWindow
    <3> QED BY <1>t, <1>6, <3>1 DEF StaticsType, FlagsType, SetWindowEnd, Frame
  <2> QED BY <1>r, <2>1, <2>2, CommandsAre, TypeThread
<1>7. CASE SetSyncEpoch
  <2>1. thr["rx"].pc = "epoch" /\ Frame
    BY <1>7 DEF SetSyncEpoch, At
  <2>2. thr["rx"] \in [pc : {"epoch", "anchor"}, epoch : Numbers]
    BY <1>r, <2>1, CommandAt
  <2>3. [thr["rx"] EXCEPT !.pc = "anchor"] \in [pc : {"epoch", "anchor"}, epoch : Numbers]
    BY <2>2
  <2>4. sync' \in [synced : BOOLEAN, epoch : Numbers, up : 0..(UptimeWrap - 1)]
    BY <1>t, <1>7, <2>2 DEF StaticsType, SetSyncEpoch
  <2>5. StaticsType' /\ FlagsType'
    BY <1>t, <1>7, <2>4 DEF StaticsType, FlagsType, SetSyncEpoch, Frame
  <2>6. thr' = [thr EXCEPT !["rx"] = [thr["rx"] EXCEPT !.pc = "anchor"]]
    BY <1>7 DEF SetSyncEpoch, Goto
  <2> QED BY <1>r, <2>1, <2>3, <2>5, <2>6, CommandsAre, TypeThread
<1>8. CASE SetSyncAnchor
  <2>1. Frame /\ thr' = [thr EXCEPT !["rx"] = Idle]
    BY <1>8 DEF SetSyncAnchor, Return
  <2>2. sync' \in [synced : BOOLEAN, epoch : Numbers, up : 0..(UptimeWrap - 1)]
    <3>1. up \in 0..(UptimeWrap - 1)
      BY <1>u, NumberAssumption
    <3>2. sync' = [sync EXCEPT !.up = up, !.synced = TRUE]
      BY <1>8 DEF SetSyncAnchor
    <3>3. sync \in [synced : BOOLEAN, epoch : Numbers, up : 0..(UptimeWrap - 1)]
      BY <1>t DEF StaticsType
    <3>4. TRUE \in BOOLEAN
      OBVIOUS
    <3> QED BY <3>1, <3>2, <3>3, <3>4
  <2>3. StaticsType' /\ FlagsType'
    BY <1>t, <1>8, <2>2 DEF StaticsType, FlagsType, SetSyncAnchor, Frame
  <2> QED BY <1>r, <2>1, <2>3, CommandsAre, TypeThread
<1> QED BY <1>1, <1>2, <1>3, <1>4, <1>5, <1>6, <1>7, <1>8 DEF Rx

LEMMA TypeShell == ASSUME TypeInv, Shell PROVE TypeInv'
<1>t. StaticsType /\ FlagsType /\ thr \in [Threads -> Commands]
  BY DEF TypeInv
<1>r. "shell" \in Threads /\ thr["shell"] \in Commands
  BY <1>t DEF Threads
<1>1. CASE ShellCommand
  <2>1. \A allowed \in BOOLEAN : Setting("reason", allowed, 0, "MANUAL") \in SetCommands
    BY DEF Setting, SetCommands, SetPoints
  <2>2. PICK c \in Commands : thr' = [thr EXCEPT !["shell"] = c]
    BY <1>1, <2>1, CommandsAre DEF ShellCommand
  <2> QED BY <1>1, <1>r, <2>2, TypeArrives DEF ShellCommand
<1>2. CASE ToggleRelay
  <2>1. /\ Frame /\ relay' = FALSE
        /\ thr' = [thr EXCEPT !["shell"] = [pc |-> "restore", saved |-> relay]]
    BY <1>2 DEF ToggleRelay
  <2>2. [pc |-> "restore", saved |-> relay] \in [pc : {"restore"}, saved : BOOLEAN]
    BY <1>t DEF FlagsType
  <2>3. StaticsType' /\ FlagsType'
    BY <1>t, <1>2, <2>1 DEF StaticsType, FlagsType, ToggleRelay, Frame
  <2> QED BY <1>r, <2>1, <2>2, <2>3, CommandsAre, TypeThread
<1>3. CASE RestoreRelay
  <2>1. Frame /\ thr' = [thr EXCEPT !["shell"] = Idle] /\ thr["shell"].pc = "restore"
    BY <1>3 DEF RestoreRelay, Return, At
  <2>2. thr["shell"].saved \in BOOLEAN
    BY <1>r, <2>1, CommandAt
  <2>3. StaticsType' /\ FlagsType'
    BY <1>t, <1>3, <2>1, <2>2 DEF StaticsType, FlagsType, RestoreRelay, Frame
  <2> QED BY <1>r, <2>1, <2>3, CommandsAre, TypeThread
<1> QED BY <1>1, <1>2, <1>3 DEF Shell

LEMMA TypeSet == ASSUME TypeInv, NEW t \in Threads, Set(t) PROVE TypeInv'
<1>t. StaticsType /\ FlagsType /\ thr \in [Threads -> Commands] /\ thr[t] \in Commands
  BY DEF TypeInv
<1>1. ASSUME NEW p \in SetPoints, At(t, p)
      PROVE  /\ thr[t] \in SetCommands /\ thr[t].allowed \in BOOLEAN
             /\ thr[t].for \in Durations \cup {0} /\ thr[t].why \in Reasons
             /\ \A q \in SetPoints : [thr[t] EXCEPT !.pc = q] \in Commands
  <2>1. thr[t].pc \in SetPoints
    BY <1>1 DEF At
  <2>2. thr[t] \in SetCommands
    BY <1>t, <2>1, CommandAt
  <2>3. \A q \in SetPoints : [thr[t] EXCEPT !.pc = q] \in SetCommands
    BY <2>2 DEF SetCommands
  <2> QED BY <2>2, <2>3, CommandsAre DEF SetCommands, Reasons
<1>p. {"reason", "allow", "stamp", "relay"} \subseteq SetPoints
  BY DEF SetPoints
<1>2. CASE SetReason(t)
  <2>1. /\ At(t, "reason") /\ Frame
        /\ thr' = [thr EXCEPT ![t] = [thr[t] EXCEPT !.pc = "allow"]]
    BY <1>2 DEF SetReason, Goto
  <2>2. reason' \in Reasons
    BY <1>1, <1>2, <1>p, <1>t, <2>1 DEF SetReason, FlagsType
  <2>3. StaticsType' /\ FlagsType'
    BY <1>t, <1>2, <2>2 DEF StaticsType, FlagsType, SetReason, Frame
  <2> QED BY <1>1, <1>p, <2>1, <2>3, TypeThread
<1>3. CASE SetAllowed(t)
  <2>1. /\ At(t, "allow") /\ Frame
        /\ thr' = [thr EXCEPT ![t] = [thr[t] EXCEPT !.pc = "stamp"]]
    BY <1>3 DEF SetAllowed, Goto
  <2>2. ctl' \in [allowed : BOOLEAN, resume : Durations \cup {0}, stamp : 0..(UptimeWrap - 1)]
    BY <1>1, <1>3, <1>p, <1>t, <2>1 DEF SetAllowed, StaticsType
  <2>3. /\ DOMAIN pause' = DOMAIN NoPause /\ pause'.by \in Reasons
        /\ pause'.crossed \in BOOLEAN
    <3>1. CASE Resumed
      BY <1>t, <3>1 DEF Resumed, FlagsType, NoPause, Reasons
    <3>2. CASE PausedBy(thr[t].why, thr[t].for)
      BY <1>1, <1>p, <2>1, <3>2, PausedType
    <3> QED BY <1>3, <3>1, <3>2 DEF SetAllowed
  <2>4. StaticsType' /\ FlagsType'
    BY <1>t, <1>3, <2>2, <2>3 DEF StaticsType, FlagsType, SetAllowed, Frame
  <2> QED BY <1>1, <1>p, <2>1, <2>4, TypeThread
<1>4. CASE SetStamp(t)
  <2>1. /\ At(t, "stamp") /\ Frame
        /\ thr' = [thr EXCEPT ![t] = [thr[t] EXCEPT !.pc = "relay"]]
    BY <1>4 DEF SetStamp, Goto
  <2>2. ctl' \in [allowed : BOOLEAN, resume : Durations \cup {0}, stamp : 0..(UptimeWrap - 1)]
    BY <1>4, <1>t, NumberAssumption DEF SetStamp, StaticsType
  <2>3. StaticsType' /\ FlagsType'
    BY <1>t, <1>4, <2>2 DEF StaticsType, FlagsType, SetStamp, Frame
  <2> QED BY <1>1, <1>p, <2>1, <2>3, TypeThread
<1>5. CASE SetRelay(t)
  <2>1. At(t, "relay") /\ Frame /\ thr' = [thr EXCEPT ![t] = Idle]
    BY <1>5 DEF SetRelay, Return
  <2>2. relay' \in BOOLEAN
    BY <1>5 DEF SetRelay
  <2>3. StaticsType' /\ FlagsType'
    BY <1>t, <1>5, <2>2 DEF StaticsType, FlagsType, SetRelay, Frame
  <2> QED BY <2>1, <2>3, CommandsAre, TypeThread
<1> QED BY <1>2, <1>3, <1>4, <1>5 DEF Set

LEMMA TypeNext == TypeInv /\ [Next]_vars => TypeInv'
<1> SUFFICES ASSUME TypeInv, [Next]_vars PROVE TypeInv'
  OBVIOUS
<1>1. CASE Advance
  <2>1. now' \in FirstEpoch..LastEpoch /\ up' \in 0..(UptimeWrap - 1)
    <3>1. /\ now' = now + 1 /\ now < LastEpoch /\ now \in FirstEpoch..LastEpoch
          /\ up' = (up + 1) % UptimeWrap /\ up \in 0..(UptimeWrap - 1)
      BY <1>1 DEF Advance, TypeInv, StaticsType
    <3> QED BY <3>1, NumberAssumption
  <2> QED BY <1>1, <2>1 DEF Advance, device, TypeInv, StaticsType, FlagsType
<1>2. CASE Reboot
  <2>1. StaticsType'
    <3>1. now' \in FirstEpoch..LastEpoch /\ up' \in 0..(UptimeWrap - 1)
      BY <1>2, NumberAssumption DEF Reboot, TypeInv, StaticsType
    <3>2. ctl' \in [allowed : BOOLEAN, resume : Durations \cup {0}, stamp : 0..(UptimeWrap - 1)]
      BY <1>2, NumberAssumption DEF Reboot, Allowed
    <3>3. /\ latch' \in [active : BOOLEAN, start : 0..(UptimeWrap - 1)]
          /\ sync' \in [synced : BOOLEAN, epoch : Numbers, up : 0..(UptimeWrap - 1)]
      BY <1>2, NumberAssumption DEF Reboot, NoLatch, NoSync, Numbers
    <3> QED BY <3>1, <3>2, <3>3 DEF StaticsType
  <2>2. FlagsType'
    BY <1>2 DEF Reboot, FlagsType, NoWindow, NoPause, Reasons
  <2>3. thr' \in [Threads -> Commands]
    BY <1>2, CommandsAre DEF Reboot, Resting
  <2> QED BY <2>1, <2>2, <2>3 DEF TypeInv
<1>3. CASE UNCHANGED vars
  BY <1>3 DEF vars, TypeInv, StaticsType, FlagsType
<1> QED BY <1>1, <1>2, <1>3, TypeJob, TypeRx, TypeShell, TypeSet DEF Next

(* The statics keep their types and ranges, wherever the job cuts in:      *)
(* stamps are uptimes, a reason is one that the uplink can name, and a     *)
(* thread stands at a point of the handler whose command it holds          *)
(* (charge_control.c:70-93, delay_window.c, time_sync.c).                  *)
THEOREM TypeCorrect == Spec => []TypeOK
<1>1. TypeInv => TypeOK
  BY DEF TypeInv, StaticsType, FlagsType, TypeOK
<1> QED BY <1>1, TypeInit, TypeNext, PTL DEF Spec
=============================================================================
