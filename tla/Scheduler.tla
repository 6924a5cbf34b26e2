------------------------------ MODULE Scheduler ------------------------------
(***************************************************************************)
(* Demand response end to end: the charge scheduler                        *)
(* (aws/charge_scheduler_lambda.py), which tells the device when not to    *)
(* charge, the part of the decode lambda (aws/decode_evse_lambda.py) that  *)
(* compares what the device reports with what it was told, and records an  *)
(* owner's Charge Now, and a link that delays, reorders and loses.         *)
(*                                                                         *)
(* All invocations share one item of the device-state table and nothing    *)
(* serialises them: each reads it, decides, and updates it without a       *)
(* condition.  Time advances in ticks, longer than an invocation takes;    *)
(* the device is what ChargeControl shows of it, with its clock set.       *)
(***************************************************************************)
EXTENDS Integers, FiniteSets

CONSTANTS PeakStart, PeakEnd,  (* the on-peak hours: 5 PM, 9 PM            *)
          MoerTimes,     (* when the MOER signal may be above its threshold *)
          MoerTicks,     (* MOER_WINDOW_DURATION_S                         *)
          ResendTicks,   (* HEARTBEAT_RESEND_S                             *)
          LatchTicks,    (* CHARGE_NOW_DURATION_MS                         *)
          OptOutTicks,   (* CHARGE_NOW_DEFAULT_DURATION_S                  *)
          MaxRetries,    (* DIVERGENCE_MAX_RETRIES                         *)
          MaxDelay,      (* bound: how long a downlink takes               *)
          MaxAge,        (* bound: how long an uplink waits on the device  *)
          MaxPresses, MaxLosses, Horizon   (* bounds: how many, how long   *)

ASSUME TimeAssumption ==
    /\ PeakStart \in Nat \ {0} /\ PeakEnd \in Nat /\ PeakStart < PeakEnd
    /\ {MoerTicks, ResendTicks, LatchTicks, OptOutTicks} \subseteq Nat \ {0}
    /\ MoerTimes \subseteq Nat
(* Both are four hours: a Charge Now recorded before the peak ends in it.  *)
ASSUME OptOutAssumption == OptOutTicks <= PeakEnd - PeakStart
ASSUME BoundAssumption ==
    {MaxRetries, MaxDelay, MaxAge, MaxPresses, MaxLosses, Horizon} \subseteq Nat

VARIABLES now,
          st,        (* scheduler_* and divergence_* fields, and the override *)
          due,       (* the EventBridge rule has fired                     *)
          forced,    (* asynchronous calls with force_resend that wait     *)
          run,       (* the invocations that have read the state           *)
          decoding,  (* an uplink whose override is still to be recorded   *)
          down, up,  (* messages under way                                 *)
          win,       (* the device's delay window                          *)
          latch,     (* when its Charge Now ends, or 0                     *)
          presses, losses,   (* counts                                     *)
          reported,  (* bound: one uplink in a tick                        *)
          optOut,    (* ghost: the last Charge Now the cloud has recorded  *)
                     (* while it had none in force                         *)
          moerSeen,  (* ghost: when the scheduler last saw MOER high       *)
          calm       (* ghost: ticks of peak since the last disturbance    *)

cloud  == <<st, due, forced, run, decoding>>
device == <<win, latch>>
ghosts == <<optOut, moerSeen, calm>>
vars   == <<now, cloud, down, up, device, presses, losses, reported, ghosts>>

Invocations == {"timer", "forced"}
NoRun    == [on |-> FALSE]
NoWindow == [has |-> FALSE]
NoOptOut == [until |-> 0, at |-> 0, ends |-> 0]
Nothing  == [charge_now |-> FALSE]
NoItem   == [last |-> "none", end |-> 0, sent |-> 0, override |-> 0, retries |-> 0]

Init == /\ now = 0
        /\ st = NoItem
        /\ due = FALSE /\ forced = 0 /\ run = [k \in Invocations |-> NoRun]
        /\ decoding = Nothing /\ down = {} /\ up = {}
        /\ win = NoWindow /\ latch = 0 /\ presses = 0 /\ losses = 0 /\ reported = FALSE
        /\ optOut = NoOptOut /\ moerSeen = 0 /\ calm = 0

Larger(a, b) == IF a > b THEN a ELSE b

-----------------------------------------------------------------------------
(* charge_scheduler_lambda.lambda_handler, up to get_last_state: a read    *)
(* that fails counts as no item, and the decision is then made blind.      *)
Peak(t) == PeakStart <= t /\ t < PeakEnd
OptedOut == now < optOut.until

(* get_moer_percent: the signal, or nothing when WattTime does not answer. *)
MoerHigh == {FALSE, (now \in MoerTimes)}

Begin(k) ==
    /\ ~run[k].on
    /\ \/ k = "timer" /\ due /\ due' = FALSE /\ UNCHANGED forced
       \/ k = "forced" /\ forced > 0 /\ forced' = forced - 1 /\ UNCHANGED due
    /\ \E moer \in MoerHigh, failed \in {FALSE, (losses < MaxLosses)} :
        /\ run' = [run EXCEPT ![k] =
                      [on |-> TRUE, moer |-> moer, promised |-> OptedOut /\ ~failed,
                       blind |-> failed, read |-> IF failed THEN NoItem ELSE st]]
        /\ losses' = IF failed THEN losses + 1 ELSE losses
        /\ moerSeen' = IF moer THEN now ELSE moerSeen
    /\ UNCHANGED <<now, st, decoding, down, up, device, presses, reported, optOut, calm>>

(* write_state: an update that sets the fields it is given.  The override  *)
(* is given when the copy read earlier had one that has not passed.        *)
Held(r) == IF r.read.override > now THEN r.read.override ELSE 0
RecordCopy(r, s) == st' = [s EXCEPT !.override = Held(r)]
Record(r, s) == st' = [s EXCEPT !.override = IF Held(r) > 0 THEN Held(r) ELSE @]

Send(m) == down' = down \cup {m}
Quiet   == UNCHANGED down

(* Pause until the later of the two reasons' ends.                         *)
EndAdded(r) == (IF Peak(now) THEN PeakEnd ELSE now) + (IF r.moer THEN MoerTicks ELSE 0)
End(r) == Larger(IF Peak(now) THEN PeakEnd ELSE now,
                 IF r.moer THEN now + MoerTicks ELSE now)

Suppress(r) == Record(r, [st EXCEPT !.last = "charge_now_optout"]) /\ Quiet

Allow(r, k) ==
    IF r.read.last = "delay_window" \/ (k = "forced" /\ r.read.last = "allow")
    THEN /\ Send([kind |-> "allow", born |-> now])
         /\ Record(r, [st EXCEPT !.last = "allow", !.sent = now])
    ELSE Record(r, [st EXCEPT !.last = "off_peak"]) /\ Quiet

RecentlySentAnything(r, k) ==
    k = "timer" /\ r.read.last = "delay_window"
RecentlySent(r, k) ==
    /\ k = "timer" /\ r.read.last = "delay_window"
    /\ now - r.read.sent < ResendTicks /\ r.read.end = End(r)

Pause(r, k) ==
    IF RecentlySent(r, k)
    THEN /\ Record(r, [st EXCEPT !.last = "delay_window", !.end = End(r), !.sent = r.read.sent])
         /\ Quiet
    ELSE /\ Send([kind |-> "window", born |-> now, start |-> now, end |-> End(r),
                  promised |-> r.promised, blind |-> r.blind])
         /\ Record(r, [st EXCEPT !.last = "delay_window", !.end = End(r), !.sent = now])

Decide(r, k) ==
    IF ~Peak(now) /\ ~r.moer THEN Allow(r, k)
    ELSE IF Held(r) > 0 THEN Suppress(r) ELSE Pause(r, k)

Finish(k) ==
    /\ run[k].on
    /\ Decide(run[k], k)
    /\ run' = [run EXCEPT ![k] = NoRun]
    /\ UNCHANGED <<now, due, forced, decoding, up, device, presses, losses, reported, ghosts>>

-----------------------------------------------------------------------------
(* decode_evse_lambda, for an uplink that is stored for the first time.    *)
(* check_scheduler_divergence: only a command the device should have by    *)
(* now is compared (the grace of 60 s is within a tick).                   *)
Diverges(u) ==
    /\ st.last \in {"delay_window", "allow"} /\ st.sent # now
    /\ u.allowed # (st.last = "allow")
Agrees(u) ==
    /\ st.last \in {"delay_window", "allow"} /\ st.sent # now
    /\ u.allowed = (st.last = "allow")

RetriedLess == st.retries <= MaxRetries
MayRetry    == st.retries < MaxRetries

Decode(u) ==
    /\ ~decoding.charge_now
    /\ up' = up \ {u}
    /\ decoding' = IF u.charge_now THEN u ELSE Nothing
    /\ IF Diverges(u) /\ MayRetry
       THEN st' = [st EXCEPT !.retries = @ + 1] /\ forced' = forced + 1
       ELSE /\ st' = IF Agrees(u) THEN [st EXCEPT !.retries = 0] ELSE st
            /\ UNCHANGED forced
    /\ UNCHANGED <<now, due, run, down, device, presses, losses, reported, ghosts>>

(* handle_charge_now_override comes after, in a write of its own.          *)
Until == IF Peak(now) THEN PeakEnd ELSE now + OptOutTicks

RecordOverride ==
    /\ decoding.charge_now /\ decoding' = Nothing
    /\ st' = [st EXCEPT !.override = Until]
    /\ optOut' = IF st.override > now THEN optOut
                 ELSE [until |-> Until, at |-> now, ends |-> latch]
    /\ UNCHANGED <<now, due, forced, run, down, up, device, presses, losses, reported, moerSeen, calm>>

-----------------------------------------------------------------------------
(* The device (app_rx.c, delay_window.c, charge_now.c).                    *)
Latched == now < latch
Paused  == win.has /\ win.start <= now /\ now <= win.end

HeedsWindows(m) == m.kind = "window" \/ ~Latched
Heeds(m)        == ~Latched

Receive(m) ==
    /\ down' = down \ {m}
    /\ IF ~Heeds(m) THEN UNCHANGED win
       ELSE win' = IF m.kind = "allow" THEN NoWindow
                   ELSE [has |-> TRUE, start |-> m.start, end |-> m.end,
                         blind |-> m.blind]
    /\ UNCHANGED <<now, cloud, up, latch, presses, losses, reported, ghosts>>

Press ==
    /\ presses < MaxPresses /\ presses' = presses + 1
    /\ latch' = now + LatchTicks /\ win' = NoWindow /\ calm' = 0
    /\ UNCHANGED <<now, cloud, down, up, losses, reported, optOut, moerSeen>>

(* A long press, or the car unplugged.                                     *)
CancelLatch ==
    /\ Latched /\ latch' = now /\ calm' = 0
    /\ optOut' = IF optOut.ends > now THEN [optOut EXCEPT !.ends = now] ELSE optOut
    /\ UNCHANGED <<now, cloud, down, up, win, presses, losses, reported, moerSeen>>

(* An uplink with the flags as they are; a snapshot drained later from the *)
(* event buffer has the allowed flag of its own time and no charge_now.    *)
Report ==
    /\ ~reported /\ reported' = TRUE
    /\ \E live \in BOOLEAN :
          up' = up \cup {[allowed |-> ~Paused, charge_now |-> live /\ Latched, born |-> now]}
    /\ UNCHANGED <<now, cloud, down, device, presses, losses, ghosts>>

Lose(m) ==
    /\ losses < MaxLosses /\ losses' = losses + 1
    /\ down' = down \ {m} /\ calm' = 0
    /\ UNCHANGED <<now, cloud, up, device, presses, reported, optOut, moerSeen>>

(* A tick of peak that was, but for losses and presses, as it should be:   *)
(* nothing overrides the peak, and no command from before it is under way. *)
Undisturbed ==
    /\ Peak(now) /\ Peak(now + 1)
    /\ ~Latched /\ st.override <= now
    /\ \A m \in down : m.born >= PeakStart

(* Time passes when every invocation is over; the rule fires in each tick. *)
Tick ==
    /\ now < Horizon /\ now' = now + 1
    /\ ~due /\ due' = TRUE /\ reported' = FALSE
    /\ forced = 0 /\ \A k \in Invocations : ~run[k].on
    /\ ~decoding.charge_now
    /\ \A m \in down : now < m.born + MaxDelay
    /\ \A u \in up : now < u.born + MaxAge
    /\ calm' = IF Undisturbed THEN calm + 1 ELSE 0
    /\ UNCHANGED <<st, forced, run, decoding, down, up, device, presses, losses,
                   optOut, moerSeen>>

Next == \/ \E k \in Invocations : Begin(k) \/ Finish(k)
        \/ \E u \in up : Decode(u)
        \/ RecordOverride
        \/ \E m \in down : Receive(m) \/ Lose(m)
        \/ Press \/ CancelLatch \/ Report \/ Tick
Spec == Init /\ [][Next]_vars

-----------------------------------------------------------------------------
(* Types and ranges; in particular the retries of a divergence end.        *)
TypeOK ==
    /\ now \in 0..Horizon /\ due \in BOOLEAN /\ forced \in Nat
    /\ st.last \in {"none", "delay_window", "allow", "off_peak", "charge_now_optout"}
    /\ st.retries \in 0..MaxRetries /\ st.sent \in 0..now
    /\ \A k \in Invocations : run[k].on \in BOOLEAN
    /\ \A m \in down : m.kind \in {"allow", "window"} /\ m.born \in 0..now
    /\ \A u \in up : u.allowed \in BOOLEAN /\ u.charge_now \in BOOLEAN
    /\ latch \in 0..(Horizon + LatchTicks)

(* The device is paused for a reason, or for as long as the last one was   *)
(* announced: never past the end of the peak, or 30 minutes after MOER was *)
(* last high, whichever commands were lost, late or out of order.          *)
NoPauseOutlivesReason ==
    Paused => now <= PeakEnd \/ now <= moerSeen + MoerTicks

(* PRD.md:1024: once an uplink has made the cloud record a Charge Now when *)
(* it had none in force, no invocation that starts before that opt-out     *)
(* ends and can read the state sends a pause, forced or not, whichever     *)
(* copies the others write back.  A Charge Now that is renewed while one   *)
(* is in force has no such promise: a copy of the earlier end, read before *)
(* and written back after, cuts it short.                                  *)
PauseRespectsOptOut == \A m \in down : m.kind = "window" => ~m.promised

(* adr/003 ("for the remainder of the current peak period"): the device    *)
(* itself stays unpaused, if the record is made while the latch outlasts   *)
(* every command that was under way at that time; only an invocation that  *)
(* could not read the state breaks the promise.                            *)
OptOutHonoured ==
    OptedOut /\ optOut.at + MaxDelay < optOut.ends
    => ~Paused \/ win.blind

(* technical-design.md:1215 ("handles lost LoRa downlinks"): in a peak in  *)
(* which nothing was lost or overridden for one resend interval, a         *)
(* scheduler period and a delivery, the device is paused.  Commands from   *)
(* before the peak must have arrived: a late one ends the pause again, and *)
(* it does not return before the next resend.                              *)
PeakEnforced == calm > ResendTicks + MaxDelay => Paused
=============================================================================
