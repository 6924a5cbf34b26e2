-------------------------- MODULE SchedulerProofs --------------------------
(***************************************************************************)
(* What demand response keeps for every schedule of the peak and of the    *)
(* MOER signal, all durations, any number of presses and losses, any delay *)
(* of a message and any overlap of the invocations on the shared item.     *)
(*                                                                         *)
(* The argument has four invariants: where a window's end comes from       *)
(* (ReasonInv, which needs only the types); what the copies that           *)
(* invocations hold say of the recorded opt-out (OptOutInv); on top of     *)
(* that one, which windows can still reach a device that is latched        *)
(* (HonourInv); and what a peak has sent while nothing disturbed it        *)
(* (PeakInv).                                                              *)
(***************************************************************************)
EXTENDS Scheduler, TLAPS

-----------------------------------------------------------------------------
(* Numbers and flags, as far as the argument compares them.                *)
RunType(r) ==
    r.on => /\ r.moer \in BOOLEAN /\ r.promised \in BOOLEAN /\ r.blind \in BOOLEAN
            /\ r.read.override \in Int
DownType(m) ==
    /\ m.born \in Int
    /\ m.kind \in {"allow", "window"}
    /\ m.kind = "window" => m.end \in Int /\ m.blind \in BOOLEAN /\ m.promised \in BOOLEAN
OptOutType(o) == o.until \in Int /\ o.at \in Int /\ o.ends \in Int

Typed ==
    /\ now \in Nat /\ latch \in Int /\ moerSeen \in Int /\ losses \in Nat
    /\ DOMAIN st = DOMAIN NoItem /\ st.override \in Int
    /\ DOMAIN run = Invocations /\ \A k \in Invocations : RunType(run[k])
    /\ \A m \in down : DownType(m)
    /\ DOMAIN optOut = DOMAIN NoOptOut /\ OptOutType(optOut)
    /\ win.has => win.end \in Int /\ win.blind \in BOOLEAN

LEMMA Numbers ==
    /\ PeakStart \in Nat /\ PeakEnd \in Nat /\ PeakStart < PeakEnd
    /\ MoerTicks \in Nat /\ LatchTicks \in Nat /\ OptOutTicks \in Nat
    /\ OptOutTicks > 0 /\ OptOutTicks <= PeakEnd - PeakStart /\ MaxDelay \in Nat
  BY TimeAssumption, OptOutAssumption, BoundAssumption

(* An owner's Charge Now is recorded until a later time than now.          *)
LEMMA UntilIsLater == ASSUME now \in Nat PROVE Until \in Int /\ Until > now
  BY Numbers DEF Until, Peak

(* What the rest of an invocation does, whichever way it decides: it sets  *)
(* the override to the copy it read, if that is still in force, and        *)
(* otherwise leaves it; and it pauses only for a reason and without an     *)
(* override in its copy.                                                   *)
SentBy(r, m) ==
    /\ m.born = now /\ m.kind \in {"allow", "window"}
    /\ m.kind = "window" => /\ m.end = End(r) /\ m.promised = r.promised /\ m.blind = r.blind
                            /\ Held(r) = 0 /\ (Peak(now) \/ r.moer)

LEMMA RecordEffect ==
    ASSUME NEW r, NEW s, Record(r, s), DOMAIN s = DOMAIN NoItem, s.override = st.override
    PROVE  /\ DOMAIN st' = DOMAIN NoItem
           /\ st'.override = IF Held(r) > 0 THEN Held(r) ELSE st.override
  BY DEF Record, NoItem

LEMMA DecideEffect ==
    ASSUME Typed, NEW r, RunType(r), r.on, NEW k, Decide(r, k)
    PROVE  /\ DOMAIN st' = DOMAIN NoItem
           /\ st'.override = IF Held(r) > 0 THEN Held(r) ELSE st.override
           /\ Held(r) = 0 \/ (Held(r) = r.read.override /\ r.read.override > now)
           /\ down' = down \/ \E m : SentBy(r, m) /\ down' = down \cup {m}
<1>1. DOMAIN st = DOMAIN NoItem
  BY DEF Typed
<1>2. Held(r) \in Int /\ now \in Nat
  BY DEF Held, Typed, RunType
<1>3. Held(r) = 0 \/ (Held(r) = r.read.override /\ r.read.override > now)
  BY DEF Held
<1>4. CASE Suppress(r)
  <2>1. PICK s : s = [st EXCEPT !.last = "charge_now_optout"]
    OBVIOUS
  <2>2. Record(r, s) /\ down' = down
    BY <1>4, <2>1 DEF Suppress, Quiet
  <2>3. DOMAIN s = DOMAIN NoItem /\ s.override = st.override
    BY <1>1, <2>1 DEF NoItem
  <2> QED BY <1>3, <2>2, <2>3, RecordEffect
<1>5. CASE Allow(r, k)
  <2>1. CASE /\ Send([kind |-> "allow", born |-> now])
             /\ Record(r, [st EXCEPT !.last = "allow", !.sent = now])
    <3>1. PICK s : s = [st EXCEPT !.last = "allow", !.sent = now]
      OBVIOUS
    <3>2. PICK m : m = [kind |-> "allow", born |-> now]
      OBVIOUS
    <3>3. Record(r, s) /\ down' = down \cup {m}
      BY <2>1, <3>1, <3>2 DEF Send
    <3>4. DOMAIN s = DOMAIN NoItem /\ s.override = st.override
      BY <1>1, <3>1 DEF NoItem
    <3>5. SentBy(r, m)
      BY <3>2 DEF SentBy
    <3> QED BY <1>3, <3>3, <3>4, <3>5, RecordEffect
  <2>2. CASE Record(r, [st EXCEPT !.last = "off_peak"]) /\ Quiet
    <3>1. PICK s : s = [st EXCEPT !.last = "off_peak"]
      OBVIOUS
    <3>2. Record(r, s) /\ down' = down
      BY <2>2, <3>1 DEF Quiet
    <3>3. DOMAIN s = DOMAIN NoItem /\ s.override = st.override
      BY <1>1, <3>1 DEF NoItem
    <3> QED BY <1>3, <3>2, <3>3, RecordEffect
  <2> QED BY <1>5, <2>1, <2>2 DEF Allow
<1>6. CASE Pause(r, k) /\ Held(r) = 0 /\ (Peak(now) \/ r.moer)
  <2>1. CASE RecentlySent(r, k)
    <3>1. PICK s : s = [st EXCEPT !.last = "delay_window", !.end = End(r),
                                  !.sent = r.read.sent]
      OBVIOUS
    <3>2. Record(r, s) /\ down' = down
      BY <1>6, <2>1, <3>1 DEF Pause, Quiet
    <3>3. DOMAIN s = DOMAIN NoItem /\ s.override = st.override
      BY <1>1, <3>1 DEF NoItem
    <3> QED BY <1>3, <3>2, <3>3, RecordEffect
  <2>2. CASE ~RecentlySent(r, k)
    <3>1. PICK s : s = [st EXCEPT !.last = "delay_window", !.end = End(r), !.sent = now]
      OBVIOUS
    <3>2. PICK m : m = [kind |-> "window", born |-> now, start |-> now, end |-> End(r),
                        promised |-> r.promised, blind |-> r.blind]
      OBVIOUS
    <3>3. Record(r, s) /\ down' = down \cup {m}
      BY <1>6, <2>2, <3>1, <3>2 DEF Pause, Send
    <3>4. DOMAIN s = DOMAIN NoItem /\ s.override = st.override
      BY <1>1, <3>1 DEF NoItem
    <3>5. SentBy(r, m)
      BY <1>6, <3>2 DEF SentBy
    <3> QED BY <1>3, <3>3, <3>4, <3>5, RecordEffect
  <2> QED BY <2>1, <2>2
<1> QED
  <2>1. CASE ~Peak(now) /\ ~r.moer
    BY <1>5, <2>1 DEF Decide
  <2>2. CASE (Peak(now) \/ r.moer) /\ Held(r) > 0
    BY <1>4, <2>2 DEF Decide
  <2>3. CASE (Peak(now) \/ r.moer) /\ ~(Held(r) > 0)
    <3>1. Held(r) = 0
      BY <1>2, <1>3, <2>3
    <3> QED BY <1>6, <2>3, <3>1 DEF Decide
  <2> QED BY <2>1, <2>2, <2>3

-----------------------------------------------------------------------------
(* The actions of an invocation, in the terms of the argument.             *)
LEMMA BeginEffect ==
    ASSUME Typed, NEW k \in Invocations, Begin(k)
    PROVE  /\ ~run[k].on
           /\ DOMAIN run' = Invocations
           /\ \A j \in Invocations \ {k} : run'[j] = run[j]
           /\ run'[k].on /\ RunType(run'[k])
           /\ ~run'[k].blind => run'[k].read = st /\ (run'[k].promised <=> OptedOut)
           /\ run'[k].blind => ~run'[k].promised /\ run'[k].read = NoItem
           /\ moerSeen' = IF run'[k].moer THEN now ELSE moerSeen
           /\ UNCHANGED <<now, st, down, win, latch, optOut>>
<1>1. PICK moer \in MoerHigh, failed \in {FALSE, (losses < MaxLosses)} :
        /\ run' = [run EXCEPT ![k] =
                      [on |-> TRUE, moer |-> moer, promised |-> OptedOut /\ ~failed,
                       blind |-> failed, read |-> IF failed THEN NoItem ELSE st]]
        /\ moerSeen' = IF moer THEN now ELSE moerSeen
  BY DEF Begin
<1>2. moer \in BOOLEAN /\ failed \in BOOLEAN
  <2>1. moer \in BOOLEAN
    <3>1. (now \in MoerTimes) \in BOOLEAN
      OBVIOUS
    <3>2. moer = FALSE \/ moer = (now \in MoerTimes)
      BY DEF MoerHigh
    <3> QED BY <3>1, <3>2
  <2>2. (losses < MaxLosses) \in BOOLEAN
    BY BoundAssumption DEF Typed
  <2> QED BY <2>1, <2>2
<1>3. PICK r : r = [on |-> TRUE, moer |-> moer, promised |-> OptedOut /\ ~failed,
                    blind |-> failed, read |-> IF failed THEN NoItem ELSE st]
  OBVIOUS
<1>4. /\ r.on /\ r.moer = moer /\ r.blind = failed
      /\ r.promised \in BOOLEAN /\ (r.promised <=> OptedOut /\ ~failed)
      /\ r.read = IF failed THEN NoItem ELSE st
  BY <1>3
<1>5. /\ DOMAIN run' = Invocations /\ run'[k] = r
      /\ \A j \in Invocations \ {k} : run'[j] = run[j]
  BY <1>1, <1>3 DEF Typed
<1>6. NoItem.override \in Int /\ st.override \in Int
  BY DEF NoItem, Typed
<1>7. RunType(r)
  BY <1>2, <1>4, <1>6 DEF RunType
<1>8. moerSeen' = IF run'[k].moer THEN now ELSE moerSeen
  BY <1>1, <1>4, <1>5
<1>9. /\ ~run'[k].blind => run'[k].read = st /\ (run'[k].promised <=> OptedOut)
      /\ run'[k].blind => ~run'[k].promised /\ run'[k].read = NoItem
  BY <1>4, <1>5
<1>10. ~run[k].on /\ UNCHANGED <<now, st, down, win, latch, optOut>>
  BY DEF Begin, device
<1> QED
  BY <1>4, <1>5, <1>7, <1>8, <1>9, <1>10

LEMMA FinishEffect ==
    ASSUME Typed, NEW k \in Invocations, Finish(k)
    PROVE  /\ run[k].on /\ RunType(run[k])
           /\ DOMAIN run' = Invocations
           /\ \A j \in Invocations \ {k} : run'[j] = run[j]
           /\ ~run'[k].on
           /\ DOMAIN st' = DOMAIN NoItem
           /\ st'.override = IF Held(run[k]) > 0 THEN Held(run[k]) ELSE st.override
           /\ \/ Held(run[k]) = 0
              \/ (Held(run[k]) = run[k].read.override /\ run[k].read.override > now)
           /\ down' = down \/ \E m : SentBy(run[k], m) /\ down' = down \cup {m}
           /\ UNCHANGED <<now, win, latch, optOut, moerSeen>>
<1>1. run[k].on /\ RunType(run[k]) /\ Decide(run[k], k)
  BY DEF Finish, Typed
<1>2. PICK r : r = run[k]
  OBVIOUS
<1>3. /\ DOMAIN st' = DOMAIN NoItem
      /\ st'.override = IF Held(r) > 0 THEN Held(r) ELSE st.override
      /\ Held(r) = 0 \/ (Held(r) = r.read.override /\ r.read.override > now)
      /\ down' = down \/ \E m : SentBy(r, m) /\ down' = down \cup {m}
  BY <1>1, <1>2, DecideEffect
<1>4. /\ DOMAIN run' = Invocations
      /\ \A j \in Invocations \ {k} : run'[j] = run[j]
      /\ ~run'[k].on
  BY DEF Finish, Typed, NoRun
<1>5. UNCHANGED <<now, win, latch, optOut, moerSeen>>
  BY DEF Finish, ghosts, device
<1> QED
  BY <1>1, <1>2, <1>3, <1>4, <1>5

(* The end of a pause, in the two cases in which there is one.             *)
LEMMA EndOfPause ==
    ASSUME Typed, NEW r, RunType(r), r.on, Peak(now) \/ r.moer
    PROVE  /\ End(r) \in Int
           /\ End(r) <= PeakEnd \/ (r.moer /\ End(r) <= now + MoerTicks)
  BY Numbers DEF End, Larger, Peak, Typed, RunType

(* What the cloud does with an uplink.                                     *)
LEMMA DecodeEffect ==
    ASSUME Typed, NEW u, Decode(u)
    PROVE  /\ DOMAIN st' = DOMAIN NoItem /\ st'.override = st.override
           /\ UNCHANGED <<now, run, down, win, latch, optOut, moerSeen>>
  BY DEF Decode, Typed, NoItem, ghosts, device

(* Each record of a Charge Now, and what becomes of the promise.           *)
LEMMA RecordOverrideEffect ==
    ASSUME Typed, RecordOverride
    PROVE  /\ DOMAIN st' = DOMAIN NoItem /\ st'.override = Until
           /\ IF st.override > now THEN optOut' = optOut
              ELSE /\ DOMAIN optOut' = DOMAIN NoOptOut
                   /\ optOut'.until = Until /\ optOut'.at = now /\ optOut'.ends = latch
           /\ UNCHANGED <<now, run, down, win, latch, moerSeen>>
  BY DEF RecordOverride, Typed, NoItem, NoOptOut, device

(* The device's actions.                                                   *)
LEMMA ReceiveEffect ==
    ASSUME Typed, NEW m \in down, Receive(m)
    PROVE  /\ down' = down \ {m}
           /\ \/ win' = win
              \/ ~win'.has /\ ~Latched
              \/ /\ m.kind # "allow" /\ ~Latched
                 /\ win'.has /\ win'.end = m.end /\ win'.blind = m.blind
           /\ UNCHANGED <<now, st, run, latch, optOut, moerSeen>>
  BY DEF Receive, Heeds, cloud, ghosts, NoWindow

LEMMA PressEffect ==
    ASSUME Press
    PROVE  /\ latch' = now + LatchTicks /\ ~win'.has
           /\ UNCHANGED <<now, st, run, down, optOut, moerSeen>>
  BY DEF Press, NoWindow, cloud

LEMMA CancelEffect ==
    ASSUME Typed, CancelLatch
    PROVE  /\ now < latch /\ latch' = now
           /\ DOMAIN optOut' = DOMAIN NoOptOut
           /\ optOut'.until = optOut.until /\ optOut'.at = optOut.at
           /\ optOut'.ends = IF optOut.ends > now THEN now ELSE optOut.ends
           /\ UNCHANGED <<now, st, run, down, win, moerSeen>>
  BY DEF CancelLatch, Latched, Typed, NoOptOut, cloud

LEMMA TickEffect ==
    ASSUME Tick
    PROVE  /\ now' = now + 1
           /\ \A k \in Invocations : ~run[k].on
           /\ \A m \in down : now < m.born + MaxDelay
           /\ UNCHANGED <<st, run, down, win, latch, optOut, moerSeen>>
  BY DEF Tick, device

(* Uplinks, losses and steps that do nothing.                              *)
LEMMA OtherEffect ==
    ASSUME Report \/ (\E m \in down : Lose(m)) \/ UNCHANGED vars
    PROVE  /\ down' \subseteq down
           /\ UNCHANGED <<now, st, run, win, latch, optOut, moerSeen>>
  BY DEF Report, Lose, vars, cloud, device, ghosts

-----------------------------------------------------------------------------
(* Typed is inductive.                                                     *)
LEMMA TypedInit == Init => Typed
<1>1. Init => /\ DOMAIN run = Invocations /\ \A k \in Invocations : ~run[k].on
  BY DEF Init, NoRun
<1> QED
  BY <1>1 DEF Init, Typed, RunType, NoItem, NoOptOut, OptOutType, NoWindow

LEMMA LossesNext == losses \in Nat /\ [Next]_vars => losses' \in Nat
<1> SUFFICES ASSUME losses \in Nat, [Next]_vars PROVE losses' \in Nat
  OBVIOUS
<1>1. ASSUME NEW k \in Invocations, Begin(k) \/ Finish(k) PROVE losses' \in Nat
  <2>1. losses' = losses + 1 \/ losses' = losses
    BY <1>1 DEF Begin, Finish
  <2> QED BY <2>1
<1>2. ASSUME \/ \E u \in up : Decode(u)
             \/ RecordOverride \/ Press \/ CancelLatch \/ Report \/ Tick \/ UNCHANGED vars
             \/ \E m \in down : Receive(m)
      PROVE  losses' \in Nat
  BY <1>2 DEF Decode, RecordOverride, Press, CancelLatch, Report, Tick, vars, Receive
<1>3. CASE \E m \in down : Lose(m)
  BY <1>3 DEF Lose
<1> QED BY <1>1, <1>2, <1>3 DEF Next

LEMMA TypedNext == Typed /\ [Next]_vars => Typed'
<1> SUFFICES ASSUME Typed, [Next]_vars PROVE Typed'
  OBVIOUS
<1>0. losses' \in Nat
  BY LossesNext DEF Typed
<1>1. ASSUME NEW k \in Invocations, Begin(k) PROVE Typed'
  <2>1. \A j \in Invocations : RunType(run'[j])
    BY <1>1, BeginEffect DEF Typed
  <2> QED BY <1>0, <1>1, <2>1, BeginEffect DEF Typed
<1>2. ASSUME NEW k \in Invocations, Finish(k) PROVE Typed'
  <2>1. \A j \in Invocations : RunType(run'[j])
    BY <1>2, FinishEffect DEF Typed, RunType
  <2>2. st'.override \in Int
    BY <1>2, FinishEffect DEF Typed, RunType
  <2>3. \A m \in down' : DownType(m)
    <3>1. ASSUME NEW m, SentBy(run[k], m) PROVE DownType(m)
      BY <1>2, <3>1, FinishEffect, EndOfPause DEF SentBy, DownType, Typed, RunType
    <3> QED BY <1>2, <3>1, FinishEffect DEF Typed
  <2> QED BY <1>0, <1>2, <2>1, <2>2, <2>3, FinishEffect DEF Typed
<1>3. ASSUME NEW u \in up, Decode(u) PROVE Typed'
  BY <1>0, <1>3, DecodeEffect DEF Typed
<1>4. CASE RecordOverride
  <2>1. OptOutType(optOut)' /\ DOMAIN optOut' = DOMAIN NoOptOut
    BY <1>4, RecordOverrideEffect, UntilIsLater DEF Typed, OptOutType
  <2> QED BY <1>0, <1>4, <2>1, RecordOverrideEffect, UntilIsLater DEF Typed
<1>5. ASSUME NEW m \in down, Receive(m) PROVE Typed'
  <2>1. win'.has => win'.end \in Int /\ win'.blind \in BOOLEAN
    <3>1. CASE win' = win
      BY <3>1 DEF Typed
    <3>2. CASE m.kind # "allow" /\ win'.end = m.end /\ win'.blind = m.blind
      <4>1. m.kind = "window"
        BY <3>2 DEF Typed, DownType
      <4> QED BY <3>2, <4>1 DEF Typed, DownType
    <3> QED BY <1>5, <3>1, <3>2, ReceiveEffect
  <2> QED BY <1>0, <1>5, <2>1, ReceiveEffect DEF Typed
<1>6. CASE Press
  BY <1>0, <1>6, PressEffect, Numbers DEF Typed
<1>7. CASE CancelLatch
  BY <1>0, <1>7, CancelEffect DEF Typed, OptOutType
<1>8. CASE Tick
  BY <1>0, <1>8, TickEffect DEF Typed
<1>9. CASE Report \/ (\E m \in down : Lose(m)) \/ UNCHANGED vars
  BY <1>0, <1>9, OtherEffect DEF Typed
<1> QED
  BY <1>1, <1>2, <1>3, <1>4, <1>5, <1>6, <1>7, <1>8, <1>9 DEF Next

-----------------------------------------------------------------------------
(* The ends of windows.  An invocation adds MOER's half hour to the time   *)
(* at which it saw the signal, and no time passes before it sends.         *)
Justified(w) == w.end <= PeakEnd \/ w.end <= moerSeen + MoerTicks

ReasonInv ==
    /\ Typed
    /\ moerSeen <= now
    /\ \A k \in Invocations : run[k].on /\ run[k].moer => moerSeen = now
    /\ \A m \in down : m.kind = "window" => Justified(m)
    /\ win.has => Justified(win)

LEMMA ReasonInit == Init => ReasonInv
<1>1. Init => \A k \in Invocations : ~run[k].on
  BY DEF Init, NoRun
<1> QED
  BY <1>1, TypedInit DEF Init, ReasonInv, NoWindow

LEMMA ReasonNext == ReasonInv /\ [Next]_vars => ReasonInv'
<1> SUFFICES ASSUME ReasonInv, [Next]_vars PROVE ReasonInv'
  OBVIOUS
<1>0. Typed /\ Typed'
  BY TypedNext DEF ReasonInv
<1>1. ASSUME NEW k \in Invocations, Begin(k) PROVE ReasonInv'
  <2>1. /\ moerSeen \in Int /\ moerSeen' \in Int /\ now \in Int
        /\ moerSeen <= moerSeen' /\ moerSeen' <= now
    BY <1>0, <1>1, BeginEffect DEF Typed, RunType, ReasonInv
  <2>2. \A j \in Invocations : run'[j].on /\ run'[j].moer => moerSeen' = now'
    BY <1>0, <1>1, BeginEffect DEF ReasonInv
  <2>3. \A m \in down' : m.kind = "window" => Justified(m)'
    BY <1>0, <1>1, <2>1, Numbers, BeginEffect DEF ReasonInv, Typed, DownType, Justified
  <2>4. win'.has => Justified(win)'
    BY <1>0, <1>1, <2>1, Numbers, BeginEffect DEF ReasonInv, Typed, Justified
  <2> QED BY <1>0, <1>1, <2>1, <2>2, <2>3, <2>4, BeginEffect DEF ReasonInv
<1>2. ASSUME NEW k \in Invocations, Finish(k) PROVE ReasonInv'
  <2>1. ASSUME NEW m, SentBy(run[k], m), m.kind = "window" PROVE Justified(m)
    <3>1. m.end <= PeakEnd \/ (run[k].moer /\ m.end <= now + MoerTicks)
      BY <1>0, <1>2, <2>1, FinishEffect, EndOfPause DEF SentBy
    <3> QED BY <1>2, <3>1, FinishEffect DEF Justified, ReasonInv
  <2>2. \A m \in down' : m.kind = "window" => Justified(m)'
    BY <1>0, <1>2, <2>1, FinishEffect DEF ReasonInv, Justified
  <2>3. win'.has => Justified(win)'
    BY <1>0, <1>2, FinishEffect DEF ReasonInv, Justified
  <2> QED BY <1>0, <1>2, <2>2, <2>3, FinishEffect DEF ReasonInv
<1>3. ASSUME NEW u \in up, Decode(u) PROVE ReasonInv'
  BY <1>0, <1>3, DecodeEffect DEF ReasonInv, Justified
<1>4. CASE RecordOverride
  BY <1>0, <1>4, RecordOverrideEffect DEF ReasonInv, Justified
<1>5. ASSUME NEW m \in down, Receive(m) PROVE ReasonInv'
  <2>1. win'.has => Justified(win)'
    <3>1. CASE win' = win
      BY <1>0, <1>5, <3>1, ReceiveEffect DEF ReasonInv, Justified
    <3>2. CASE m.kind # "allow" /\ win'.end = m.end
      <4>1. Justified(m)
        BY <1>0, <3>2 DEF ReasonInv, Typed, DownType
      <4> QED BY <1>0, <1>5, <3>2, <4>1, ReceiveEffect DEF Justified
    <3> QED BY <1>0, <1>5, <3>1, <3>2, ReceiveEffect
  <2> QED BY <1>0, <1>5, <2>1, ReceiveEffect DEF ReasonInv, Justified
<1>6. CASE Press
  BY <1>0, <1>6, PressEffect DEF ReasonInv, Justified
<1>7. CASE CancelLatch
  BY <1>0, <1>7, CancelEffect DEF ReasonInv, Justified
<1>8. CASE Tick
  BY <1>0, <1>8, TickEffect DEF ReasonInv, Justified, Typed
<1>9. CASE Report \/ (\E m \in down : Lose(m)) \/ UNCHANGED vars
  BY <1>0, <1>9, OtherEffect DEF ReasonInv, Justified
<1> QED
  BY <1>1, <1>2, <1>3, <1>4, <1>5, <1>6, <1>7, <1>8, <1>9 DEF Next

(* The device is paused only for a reason, or for as long as the last one  *)
(* was announced (charge_scheduler_lambda.py:342-349, delay_window.c),     *)
(* whatever is lost, late or out of order and however invocations overlap. *)
THEOREM NoPauseOutlivesReasonCorrect == Spec => []NoPauseOutlivesReason
<1>1. ReasonInv => NoPauseOutlivesReason
  BY Numbers DEF ReasonInv, Typed, Justified, NoPauseOutlivesReason, Paused
<1> QED
  BY ReasonInit, ReasonNext, <1>1, PTL DEF Spec

-----------------------------------------------------------------------------
(* The opt-out on record.  Every write back of an older copy could undo    *)
(* it; none does, because a copy that is still in force was read when the  *)
(* item already held one, and a recorded opt-out only follows one that has *)
(* passed (Copies, Recorded).                                              *)
Copies ==
    \A k \in Invocations : run[k].on =>
        /\ run[k].read.override > now => st.override > now
        /\ run[k].read.override > now /\ OptedOut => run[k].read.override >= optOut.until
        /\ run[k].promised => run[k].read.override > now

Recorded ==
    OptedOut =>
        /\ st.override >= optOut.until
        /\ optOut.at <= now
        /\ optOut.until = IF Peak(optOut.at) THEN PeakEnd ELSE optOut.at + OptOutTicks

OptOutInv == Typed /\ Copies /\ Recorded /\ PauseRespectsOptOut

LEMMA OptOutInit == Init => OptOutInv
<1>1. Init => \A k \in Invocations : ~run[k].on
  BY DEF Init, NoRun
<1>2. Init => now = 0 /\ optOut.until = 0 /\ down = {}
  BY DEF Init, NoOptOut
<1> QED
  BY <1>1, <1>2, TypedInit DEF OptOutInv, Copies, Recorded, OptedOut, PauseRespectsOptOut

(* A Charge Now recorded later does not end earlier.                       *)
LEMMA UntilGrows ==
    ASSUME Typed, Recorded, OptedOut
    PROVE  Until >= optOut.until
<1>1. /\ now \in Nat /\ optOut.at \in Int /\ optOut.until \in Int
      /\ now < optOut.until /\ optOut.at <= now
      /\ optOut.until = IF Peak(optOut.at) THEN PeakEnd ELSE optOut.at + OptOutTicks
  BY DEF Typed, OptOutType, Recorded, OptedOut
<1>2. CASE Peak(optOut.at)
  BY <1>1, <1>2, Numbers DEF Peak, Until
<1>3. CASE ~Peak(optOut.at)
  BY <1>1, <1>3, Numbers DEF Peak, Until
<1> QED BY <1>2, <1>3

(* Both parts and the promise stay when nothing they speak of changes.     *)
LEMMA OptOutKept ==
    ASSUME OptOutInv, Typed', down' \subseteq down, run' = run, now' = now,
           st'.override = st.override,
           optOut'.until = optOut.until, optOut'.at = optOut.at
    PROVE  OptOutInv'
  BY DEF OptOutInv, Copies, Recorded, OptedOut, PauseRespectsOptOut, Peak

LEMMA OptOutNext == OptOutInv /\ [Next]_vars => OptOutInv'
<1> SUFFICES ASSUME OptOutInv, [Next]_vars PROVE OptOutInv'
  OBVIOUS
<1>0. Typed /\ Typed'
  BY TypedNext DEF OptOutInv
<1>1. ASSUME NEW k \in Invocations, Begin(k) PROVE OptOutInv'
  <2>1. NoItem.override = 0 /\ now \in Nat
    BY <1>0 DEF NoItem, Typed
  <2>2. ASSUME ~run'[k].blind
        PROVE  /\ run'[k].read.override = st.override
               /\ run'[k].promised <=> OptedOut
    BY <1>0, <1>1, <2>2, BeginEffect
  <2>3. ASSUME run'[k].blind
        PROVE  /\ ~(run'[k].read.override > now)
               /\ ~run'[k].promised
    BY <1>0, <1>1, <2>1, <2>3, BeginEffect
  <2>4. OptedOut => st.override > now
    BY <1>0 DEF OptOutInv, Recorded, OptedOut, Typed, OptOutType
  <2>5. Copies'
    <3>1. UNCHANGED <<now, st, optOut>> /\ \A j \in Invocations \ {k} : run'[j] = run[j]
      BY <1>0, <1>1, BeginEffect
    <3>2. CASE run'[k].blind
      BY <2>3, <3>1, <3>2 DEF OptOutInv, Copies, OptedOut
    <3>3. CASE ~run'[k].blind
      BY <2>2, <2>4, <3>1, <3>3 DEF OptOutInv, Copies, Recorded, OptedOut
    <3> QED BY <3>2, <3>3
  <2> QED
    BY <1>0, <1>1, <2>5, BeginEffect
       DEF OptOutInv, Recorded, OptedOut, PauseRespectsOptOut, Peak
<1>2. ASSUME NEW k \in Invocations, Finish(k) PROVE OptOutInv'
  <2>1. /\ UNCHANGED <<now, optOut>>
        /\ \A j \in Invocations \ {k} : run'[j] = run[j]
        /\ run[k].on /\ ~run'[k].on
        /\ now \in Nat /\ st.override \in Int
        /\ \A j \in Invocations : RunType(run[j])
    BY <1>0, <1>2, FinishEffect DEF Typed
  <2>2. \/ st'.override = st.override
        \/ st'.override = run[k].read.override /\ run[k].read.override > now
    BY <1>0, <1>2, FinishEffect
  <2>3. Recorded'
    BY <2>1, <2>2 DEF OptOutInv, Copies, Recorded, OptedOut, Peak
  <2>4. Copies'
    BY <2>1, <2>2 DEF OptOutInv, Copies, OptedOut
  <2>5. ASSUME NEW m, SentBy(run[k], m), m.kind = "window" PROVE ~m.promised
    <3>1. m.promised = run[k].promised /\ Held(run[k]) = 0
      BY <2>5 DEF SentBy
    <3>2. ~(run[k].read.override > now)
      BY <2>1, <3>1 DEF Held, RunType
    <3> QED BY <2>1, <3>1, <3>2 DEF OptOutInv, Copies
  <2>6. PauseRespectsOptOut'
    BY <1>0, <1>2, <2>5, FinishEffect DEF OptOutInv, PauseRespectsOptOut
  <2> QED BY <1>0, <2>3, <2>4, <2>6 DEF OptOutInv
<1>3. ASSUME NEW u \in up, Decode(u) PROVE OptOutInv'
  BY <1>0, <1>3, DecodeEffect, OptOutKept
<1>4. CASE RecordOverride
  <2>1. UNCHANGED <<now, run, down>> /\ st'.override = Until /\ now \in Nat
    BY <1>0, <1>4, RecordOverrideEffect DEF Typed
  <2>2. Until > now /\ Until \in Int /\ st.override \in Int
        /\ \A j \in Invocations : RunType(run[j])
    BY <1>0, UntilIsLater DEF Typed
  <2>3. CASE st.override > now
    <3>1. optOut' = optOut
      BY <1>0, <1>4, <2>3, RecordOverrideEffect
    <3>2. OptedOut => Until >= optOut.until
      BY <1>0, UntilGrows DEF OptOutInv
    <3>3. Recorded'
      BY <2>1, <3>1, <3>2 DEF OptOutInv, Recorded, OptedOut, Peak
    <3>4. Copies'
      BY <2>1, <2>2, <3>1 DEF OptOutInv, Copies, OptedOut
    <3> QED BY <1>0, <2>1, <3>3, <3>4 DEF OptOutInv, PauseRespectsOptOut
  <2>4. CASE ~(st.override > now)
    <3>1. optOut'.until = Until /\ optOut'.at = now
      BY <1>0, <1>4, <2>4, RecordOverrideEffect
    <3>2. Recorded'
      BY <2>1, <2>2, <3>1 DEF Recorded, OptedOut, Peak, Until
    <3>3. Copies'
      BY <2>1, <2>4 DEF OptOutInv, Copies
    <3> QED BY <1>0, <2>1, <3>2, <3>3 DEF OptOutInv, PauseRespectsOptOut
  <2> QED BY <2>3, <2>4
<1>5. ASSUME NEW m \in down, Receive(m) PROVE OptOutInv'
  BY <1>0, <1>5, ReceiveEffect, OptOutKept
<1>6. CASE Press
  BY <1>0, <1>6, PressEffect, OptOutKept
<1>7. CASE CancelLatch
  BY <1>0, <1>7, CancelEffect, OptOutKept
<1>8. CASE Tick
  <2>1. /\ now' = now + 1 /\ UNCHANGED <<st, run, down, optOut>>
        /\ \A j \in Invocations : ~run[j].on
        /\ now \in Nat /\ OptOutType(optOut) /\ st.override \in Int
    BY <1>0, <1>8, TickEffect DEF Typed
  <2>2. Recorded' /\ Copies'
    BY <2>1 DEF OptOutInv, Recorded, Copies, OptedOut, OptOutType, Peak
  <2> QED BY <1>0, <2>1, <2>2 DEF OptOutInv, PauseRespectsOptOut
<1>9. CASE Report \/ (\E m \in down : Lose(m)) \/ UNCHANGED vars
  BY <1>0, <1>9, OtherEffect, OptOutKept
<1> QED
  BY <1>1, <1>2, <1>3, <1>4, <1>5, <1>6, <1>7, <1>8, <1>9 DEF Next

(* An invocation that starts within an opt-out on record and can read the  *)
(* item sends no pause (charge_scheduler_lambda.py:301-331; PRD.md:1024),  *)
(* for every number of presses, losses and overlaps of its writers.        *)
THEOREM PauseRespectsOptOutCorrect == Spec => []PauseRespectsOptOut
<1>1. OptOutInv => PauseRespectsOptOut
  BY DEF OptOutInv
<1> QED
  BY OptOutInit, OptOutNext, <1>1, PTL DEF Spec

-----------------------------------------------------------------------------
(* The device's side of the promise.  A window that could break it was     *)
(* sent by an invocation that had read the item before the record, within  *)
(* the same tick; it arrives while the latch is still on, and a latched    *)
(* device heeds no window.                                                 *)
InTime == \A m \in down : m.born <= now /\ now <= m.born + MaxDelay

EarlySenders ==
    OptedOut =>
        /\ \A k \in Invocations :
              run[k].on /\ ~run[k].promised /\ ~run[k].blind => optOut.at = now
        /\ \A m \in down : m.kind = "window" /\ ~m.blind => m.born <= optOut.at

LatchCovers ==
    /\ latch <= now + LatchTicks
    /\ Latched => ~win.has
    /\ optOut.ends > now => latch >= optOut.ends

Unpaused == OptedOut /\ optOut.at + MaxDelay < optOut.ends /\ win.has => win.blind

HonourInv == OptOutInv /\ InTime /\ EarlySenders /\ LatchCovers /\ Unpaused

LEMMA HonourInit == Init => HonourInv
<1>1. Init => /\ now = 0 /\ optOut.until = 0 /\ optOut.ends = 0 /\ down = {}
              /\ latch = 0 /\ ~win.has
  BY DEF Init, NoOptOut, NoWindow
<1> QED
  BY <1>1, OptOutInit, Numbers
     DEF HonourInv, InTime, EarlySenders, LatchCovers, Unpaused, OptedOut, Latched

(* A step that changes neither times, nor invocations, nor the record.     *)
LEMMA HonourKept ==
    ASSUME HonourInv, OptOutInv', down' \subseteq down,
           UNCHANGED <<now, run, latch, win>>, optOut' = optOut
    PROVE  HonourInv'
  BY DEF HonourInv, InTime, EarlySenders, LatchCovers, Unpaused, OptedOut, Latched

LEMMA HonourNext == HonourInv /\ [Next]_vars => HonourInv'
<1> SUFFICES ASSUME HonourInv, [Next]_vars PROVE HonourInv'
  OBVIOUS
<1>0. Typed /\ Typed' /\ OptOutInv /\ OptOutInv'
  BY OptOutNext DEF HonourInv, OptOutInv
<1>n. /\ now \in Nat /\ latch \in Int /\ optOut.until \in Int /\ optOut.at \in Int
      /\ optOut.ends \in Int
      /\ \A m \in down : DownType(m)
      /\ \A k \in Invocations : RunType(run[k])
  BY <1>0 DEF Typed, OptOutType
<1>1. ASSUME NEW k \in Invocations, Begin(k) PROVE HonourInv'
  <2>1. /\ UNCHANGED <<now, down, win, latch, optOut>>
        /\ \A j \in Invocations \ {k} : run'[j] = run[j]
        /\ ~run'[k].blind => (run'[k].promised <=> OptedOut)
    BY <1>0, <1>1, BeginEffect
  <2>2. EarlySenders'
    BY <2>1 DEF HonourInv, EarlySenders, OptedOut
  <2> QED
    BY <1>0, <2>1, <2>2 DEF HonourInv, InTime, LatchCovers, Unpaused, OptedOut, Latched
<1>2. ASSUME NEW k \in Invocations, Finish(k) PROVE HonourInv'
  <2>1. /\ UNCHANGED <<now, win, latch, optOut>> /\ run[k].on /\ ~run'[k].on
        /\ \A j \in Invocations \ {k} : run'[j] = run[j]
    BY <1>0, <1>2, FinishEffect
  <2>2. ASSUME NEW m, SentBy(run[k], m), OptedOut, m.kind = "window", ~m.blind
        PROVE  m.born <= optOut.at
    <3>1. /\ m.born = now /\ m.blind = run[k].blind /\ m.promised = run[k].promised
          /\ Held(run[k]) = 0
      BY <2>2 DEF SentBy
    <3>2. ~run[k].promised
      BY <1>0, <1>n, <2>1, <3>1 DEF OptOutInv, Copies, Held, RunType
    <3> QED BY <1>n, <2>1, <2>2, <3>1, <3>2 DEF HonourInv, EarlySenders
  <2>3. EarlySenders'
    BY <1>0, <1>2, <2>1, <2>2, FinishEffect DEF HonourInv, EarlySenders, OptedOut
  <2>4. InTime'
    <3>1. ASSUME NEW m, SentBy(run[k], m) PROVE m.born <= now /\ now <= m.born + MaxDelay
      BY <1>n, <3>1, Numbers DEF SentBy
    <3> QED BY <1>0, <1>2, <2>1, <3>1, FinishEffect DEF HonourInv, InTime
  <2> QED
    BY <1>0, <2>1, <2>3, <2>4 DEF HonourInv, LatchCovers, Unpaused, OptedOut, Latched
<1>3. ASSUME NEW u \in up, Decode(u) PROVE HonourInv'
  BY <1>0, <1>3, DecodeEffect, HonourKept
<1>4. CASE RecordOverride
  <2>1. UNCHANGED <<now, run, down, win, latch>>
    BY <1>0, <1>4, RecordOverrideEffect
  <2>2. CASE st.override > now
    BY <1>0, <1>4, <2>1, <2>2, RecordOverrideEffect, HonourKept
  <2>3. CASE ~(st.override > now)
    <3>1. optOut'.at = now /\ optOut'.ends = latch
      BY <1>0, <1>4, <2>3, RecordOverrideEffect
    <3>2. EarlySenders' /\ LatchCovers' /\ InTime'
      BY <1>n, <2>1, <3>1
         DEF HonourInv, EarlySenders, InTime, LatchCovers, OptedOut, Latched
    <3>3. Unpaused'
      BY <1>n, <2>1, <3>1, Numbers DEF HonourInv, LatchCovers, Unpaused, Latched
    <3> QED BY <1>0, <3>2, <3>3 DEF HonourInv
  <2> QED BY <2>2, <2>3
<1>5. ASSUME NEW m \in down, Receive(m) PROVE HonourInv'
  <2>1. down' = down \ {m} /\ UNCHANGED <<now, run, latch, optOut>>
    BY <1>0, <1>5, ReceiveEffect
  <2>2. InTime' /\ EarlySenders'
    BY <2>1 DEF HonourInv, InTime, EarlySenders, OptedOut
  <2>3. CASE win' = win
    BY <1>0, <2>1, <2>3, HonourKept
  <2>4. CASE ~win'.has
    BY <1>0, <2>1, <2>2, <2>4 DEF HonourInv, LatchCovers, Unpaused, Latched
  <2>5. CASE m.kind # "allow" /\ ~Latched /\ win'.has /\ win'.blind = m.blind
    <3>1. LatchCovers'
      BY <2>1, <2>5 DEF HonourInv, LatchCovers, Latched
    <3>2. ASSUME OptedOut, optOut.at + MaxDelay < optOut.ends, ~m.blind PROVE FALSE
      <4>1. m.kind = "window"
        BY <1>n, <2>5 DEF DownType
      <4>2. m.born \in Int /\ m.born <= optOut.at /\ now <= m.born + MaxDelay
        BY <1>n, <3>2, <4>1 DEF HonourInv, EarlySenders, InTime, DownType
      <4>3. now < optOut.ends
        BY <1>n, <3>2, <4>2, Numbers
      <4> QED BY <1>n, <2>5, <4>3 DEF HonourInv, LatchCovers, Latched
    <3>3. Unpaused'
      BY <2>1, <2>5, <3>2 DEF Unpaused, OptedOut
    <3> QED BY <1>0, <2>2, <3>1, <3>3 DEF HonourInv
  <2> QED BY <1>0, <1>5, <2>3, <2>4, <2>5, ReceiveEffect
<1>6. CASE Press
  <2>1. /\ latch' = now + LatchTicks /\ ~win'.has
        /\ UNCHANGED <<now, run, down, optOut>>
    BY <1>6, PressEffect
  <2>2. LatchCovers'
    BY <1>n, <2>1, Numbers DEF HonourInv, LatchCovers, Latched
  <2> QED
    BY <1>0, <2>1, <2>2 DEF HonourInv, InTime, EarlySenders, Unpaused, OptedOut
<1>7. CASE CancelLatch
  <2>1. /\ now < latch /\ latch' = now /\ UNCHANGED <<now, run, down, win>>
        /\ optOut'.until = optOut.until /\ optOut'.at = optOut.at
        /\ optOut'.ends = IF optOut.ends > now THEN now ELSE optOut.ends
    BY <1>0, <1>7, CancelEffect
  <2>2. LatchCovers'
    BY <1>n, <2>1, Numbers DEF HonourInv, LatchCovers, Latched
  <2>3. Unpaused'
    BY <1>n, <2>1, Numbers DEF HonourInv, Unpaused, OptedOut
  <2> QED
    BY <1>0, <2>1, <2>2, <2>3 DEF HonourInv, InTime, EarlySenders, OptedOut
<1>8. CASE Tick
  <2>1. /\ now' = now + 1 /\ UNCHANGED <<run, down, win, latch, optOut>>
        /\ \A k \in Invocations : ~run[k].on
        /\ \A m \in down : now < m.born + MaxDelay
    BY <1>8, TickEffect
  <2>2. InTime'
    BY <1>n, <2>1, Numbers DEF HonourInv, InTime, DownType
  <2>3. EarlySenders'
    BY <1>n, <2>1 DEF HonourInv, EarlySenders, OptedOut
  <2>4. LatchCovers' /\ Unpaused'
    BY <1>n, <2>1, Numbers DEF HonourInv, LatchCovers, Latched, Unpaused, OptedOut
  <2> QED BY <1>0, <2>2, <2>3, <2>4 DEF HonourInv
<1>9. CASE Report \/ (\E m \in down : Lose(m)) \/ UNCHANGED vars
  BY <1>0, <1>9, OtherEffect, HonourKept
<1> QED
  BY <1>1, <1>2, <1>3, <1>4, <1>5, <1>6, <1>7, <1>8, <1>9 DEF Next

(* Once an opt-out is on record, a device whose latch outlasts the         *)
(* commands then under way stays unpaused while it lasts, unless an        *)
(* invocation could not read the item (adr/003; app_rx.c:29-38,            *)
(* charge_now.c:64), for every delay, loss and order of the downlinks.     *)
THEOREM OptOutHonouredCorrect == Spec => []OptOutHonoured
<1>1. HonourInv => OptOutHonoured
  BY DEF HonourInv, Unpaused, OptOutHonoured, Paused
<1> QED
  BY HonourInit, HonourNext, <1>1, PTL DEF Spec

-----------------------------------------------------------------------------
(* What PeakEnforced and TypeOK need of the types beside Typed.            *)
Times ==
    /\ calm \in Nat
    /\ st.sent \in 0..now
    /\ \A k \in Invocations : run[k].on => run[k].read.sent \in 0..now
    /\ \A m \in down : m.kind = "window" => m.start \in Int
    /\ win.has => win.start \in Int

(* A window that a peak asks for lasts to its end.                         *)
Enforces(w) == w.start \in 0..now /\ w.end >= PeakEnd
PeakCommands ==
    \A m \in down : Peak(m.born) => m.kind = "window" /\ m.start = m.born /\ m.end >= PeakEnd

(* The undisturbed time began after the tick Since.  The device has a      *)
(* window from then, or one sent at most a resend interval later is on its *)
(* way.                                                                    *)
Since == now - calm
Covered == \/ win.has /\ Enforces(win)
           \/ \E m \in down : Since < m.born /\ m.born <= Since + ResendTicks
(* Neither, as yet: it is not too late for the timer's run to send one.    *)
Waiting == \/ calm < ResendTicks
           \/ calm = ResendTicks /\ (due \/ run["timer"].on \/ st.override > now)
(* The copies of the record tell what was sent since.                      *)
SentSince(s) == s.last = "delay_window" /\ s.sent > Since

PeakInv ==
    /\ HonourInv /\ Times /\ PeakCommands
    /\ calm > 0 =>
        /\ PeakStart <= Since /\ now < PeakEnd /\ latch <= now
        /\ \A m \in down : m.born >= PeakStart
        /\ Covered \/ Waiting
        /\ SentSince(st) => Covered
        /\ \A k \in Invocations : run[k].on /\ SentSince(run[k].read) => Covered

(* How an invocation that the peak makes pause ends.                       *)
LEMMA DecideInPeak ==
    ASSUME Typed, Peak(now), NEW r, RunType(r), r.on, NEW k, Decide(r, k)
    PROVE  \/ /\ Held(r) > 0
              /\ st'.last = "charge_now_optout" /\ st'.sent = st.sent /\ down' = down
           \/ /\ RecentlySent(r, k)
              /\ st'.last = "delay_window" /\ st'.sent = r.read.sent /\ down' = down
           \/ /\ st'.last = "delay_window" /\ st'.sent = now
              /\ \E m : /\ m.born = now /\ m.kind = "window" /\ m.start = now /\ m.end >= PeakEnd
                        /\ down' = down \cup {m}
<1>1. DOMAIN st = DOMAIN NoItem
  BY DEF Typed
<1>2. Suppress(r) \/ Pause(r, k)
  BY DEF Decide
<1>3. CASE Suppress(r)
  <2>1. Held(r) > 0 \/ Pause(r, k)
    BY DEF Decide
  <2>2. st'.last = "charge_now_optout" /\ st'.sent = st.sent /\ down' = down
    BY <1>1, <1>3 DEF Suppress, Record, Quiet, NoItem
  <2>3. ~Pause(r, k)
    BY <1>1, <2>2 DEF Pause, Record, NoItem
  <2> QED BY <2>1, <2>2, <2>3
<1>4. CASE Pause(r, k)
  <2>1. CASE RecentlySent(r, k)
    BY <1>1, <1>4, <2>1 DEF Pause, Record, Quiet, NoItem
  <2>2. CASE ~RecentlySent(r, k)
    <3>1. PICK m : m = [kind |-> "window", born |-> now, start |-> now, end |-> End(r),
                        promised |-> r.promised, blind |-> r.blind]
      OBVIOUS
    <3>2. down' = down \cup {m}
      BY <1>4, <2>2, <3>1 DEF Pause, Send
    <3>3. st'.last = "delay_window" /\ st'.sent = now
      BY <1>1, <1>4, <2>2 DEF Pause, Record, NoItem
    <3>4. m.born = now /\ m.kind = "window" /\ m.start = now /\ m.end = End(r)
      BY <3>1
    <3>5. End(r) >= PeakEnd
      BY Numbers DEF End, Larger, Typed, RunType
    <3> QED BY <3>2, <3>3, <3>4, <3>5
  <2> QED BY <2>1, <2>2
<1> QED BY <1>2, <1>3, <1>4

(* What any end of an invocation does to these times.                      *)
LEMMA DecideTimes ==
    ASSUME Typed, Times, NEW r, RunType(r), r.on, r.read.sent \in 0..now, NEW k, Decide(r, k)
    PROVE  /\ st'.sent \in 0..now
           /\ \/ down' = down
              \/ \E m : /\ down' = down \cup {m}
                        /\ m.kind = "window" => m.start = now
<1>1. DOMAIN st = DOMAIN NoItem /\ now \in Nat /\ st.sent \in 0..now
  BY DEF Typed, Times
<1>2. CASE Suppress(r)
  BY <1>1, <1>2 DEF Suppress, Record, Quiet, NoItem
<1>3. CASE Allow(r, k)
  <2>1. st'.sent \in {st.sent, now}
    BY <1>1, <1>3 DEF Allow, Record, NoItem
  <2>2. PICK m : m = [kind |-> "allow", born |-> now]
    OBVIOUS
  <2>3. down' = down \/ down' = down \cup {m}
    BY <1>3, <2>2 DEF Allow, Send, Quiet
  <2> QED BY <1>1, <2>1, <2>2, <2>3
<1>4. CASE Pause(r, k)
  <2>1. st'.sent \in {r.read.sent, now}
    BY <1>1, <1>4 DEF Pause, Record, NoItem
  <2>2. PICK m : m = [kind |-> "window", born |-> now, start |-> now, end |-> End(r),
                      promised |-> r.promised, blind |-> r.blind]
    OBVIOUS
  <2>3. down' = down \/ down' = down \cup {m}
    BY <1>4, <2>2 DEF Pause, Send, Quiet
  <2> QED BY <1>1, <2>1, <2>2, <2>3
<1> QED BY <1>2, <1>3, <1>4 DEF Decide

LEMMA PeakInit == Init => PeakInv
<1>1. Init => /\ now = 0 /\ calm = 0 /\ down = {} /\ ~win.has /\ st.sent = 0
              /\ \A k \in Invocations : ~run[k].on
  BY DEF Init, NoWindow, NoItem, NoRun
<1> QED BY <1>1, HonourInit DEF PeakInv, Times, PeakCommands

(* A step that leaves times, commands and the device as they are, and      *)
(* changes of the record nothing but the override or the retries.          *)
LEMMA PeakKept ==
    ASSUME PeakInv, HonourInv', UNCHANGED <<now, run, due, down, win, latch, calm>>,
           st'.last = st.last, st'.sent = st.sent,
           st'.override = st.override \/ st'.override > now
    PROVE  PeakInv'
<1>1. Times' /\ PeakCommands'
  BY DEF PeakInv, Times, PeakCommands, Peak
<1>2. Since' = Since /\ (Covered <=> Covered') /\ (Waiting => Waiting')
  BY DEF Since, Covered, Waiting, Enforces
<1>3. /\ SentSince(st)' <=> SentSince(st)
      /\ \A k \in Invocations : SentSince(run[k].read)' <=> SentSince(run[k].read)
  BY <1>2 DEF SentSince
<1> QED BY <1>1, <1>2, <1>3 DEF PeakInv

(* A disturbance.                                                          *)
LEMMA PeakDisturbed ==
    ASSUME PeakInv, HonourInv', UNCHANGED <<now, st, run>>, down' \subseteq down,
           win' = win \/ ~win'.has, calm' = 0
    PROVE  PeakInv'
  BY DEF PeakInv, Times, PeakCommands, Peak

LEMMA PeakBegin ==
    ASSUME PeakInv, HonourInv', NEW k \in Invocations, Begin(k)
    PROVE  PeakInv'
<1>0. Typed
  BY DEF PeakInv, HonourInv, OptOutInv
<1>1. /\ UNCHANGED <<now, st, down, win, latch>> /\ ~run[k].on
      /\ \A j \in Invocations \ {k} : run'[j] = run[j]
      /\ run'[k].on /\ (run'[k].read = st \/ run'[k].read = NoItem)
  BY <1>0, BeginEffect
<1>2. calm' = calm /\ (k = "timer" \/ UNCHANGED due)
  BY DEF Begin
<1>3. NoItem.sent = 0 /\ NoItem.last = "none" /\ now \in Nat
  BY <1>0 DEF NoItem, Typed
<1>4. Times' /\ PeakCommands'
  BY <1>1, <1>2, <1>3 DEF PeakInv, Times, PeakCommands, Peak
<1>5. Since' = Since /\ (Covered <=> Covered') /\ (SentSince(st)' <=> SentSince(st))
  BY <1>1, <1>2 DEF Since, Covered, Enforces, SentSince
<1>6. run["timer"].on => run'["timer"].on
  BY <1>1 DEF Invocations
<1>7. Waiting => Waiting'
  BY <1>1, <1>2, <1>6 DEF Waiting
<1>8. ASSUME NEW j \in Invocations, run'[j].on, SentSince(run[j].read)', calm > 0
      PROVE  Covered
  <2>1. CASE j # k
    BY <1>1, <1>5, <1>8, <2>1 DEF PeakInv, SentSince
  <2>2. CASE j = k
    BY <1>1, <1>3, <1>5, <1>8, <2>2 DEF PeakInv, SentSince
  <2> QED BY <2>1, <2>2
<1> QED BY <1>1, <1>2, <1>4, <1>5, <1>7, <1>8 DEF PeakInv

LEMMA PeakFinish ==
    ASSUME PeakInv, HonourInv', NEW k \in Invocations, Finish(k)
    PROVE  PeakInv'
<1>0. Typed /\ Times /\ Typed'
  BY DEF PeakInv, HonourInv, OptOutInv
<1>1. /\ UNCHANGED <<now, win, latch>> /\ run[k].on /\ ~run'[k].on
      /\ \A j \in Invocations \ {k} : run'[j] = run[j]
      /\ RunType(run[k])
  BY <1>0, FinishEffect
<1>2. UNCHANGED <<due, calm>> /\ Decide(run[k], k) /\ now \in Nat /\ calm \in Nat
  BY <1>0 DEF Finish, ghosts, Typed, Times
<1>3. /\ st'.sent \in 0..now
      /\ down' = down \/ \E m : down' = down \cup {m} /\ (m.kind = "window" => m.start = now)
  BY <1>0, <1>1, <1>2, DecideTimes DEF Times
<1>4. Times'
  BY <1>0, <1>1, <1>2, <1>3 DEF Times
<1>5. PICK r : r = run[k]
  OBVIOUS
<1>6. /\ r.on /\ RunType(r) /\ Decide(r, k) /\ r.read.sent \in 0..now
      /\ st'.override = IF Held(r) > 0 THEN Held(r) ELSE st.override
      /\ Held(r) = 0 \/ (Held(r) = r.read.override /\ r.read.override > now)
      /\ down' = down \/ \E m : SentBy(r, m) /\ down' = down \cup {m}
  BY <1>0, <1>1, <1>2, <1>5, FinishEffect DEF Times
<1>7. CASE ~Peak(now)
  <2>1. ASSUME NEW m, SentBy(r, m) PROVE ~Peak(m.born)
    BY <1>7, <2>1 DEF SentBy
  <2>2. PeakCommands'
    BY <1>1, <1>6, <2>1 DEF PeakInv, PeakCommands, Peak
  <2>3. calm = 0
    BY <1>2, <1>7, Numbers DEF PeakInv, Peak, Since
  <2> QED BY <1>2, <1>4, <2>2, <2>3 DEF PeakInv
<1>8. CASE Peak(now)
  <2>1. \/ /\ Held(r) > 0
           /\ st'.last = "charge_now_optout" /\ st'.sent = st.sent /\ down' = down
        \/ /\ RecentlySent(r, k)
           /\ st'.last = "delay_window" /\ st'.sent = r.read.sent /\ down' = down
        \/ /\ st'.last = "delay_window" /\ st'.sent = now
           /\ \E m : /\ m.born = now /\ m.kind = "window" /\ m.start = now /\ m.end >= PeakEnd
                     /\ down' = down \cup {m}
    BY <1>0, <1>6, <1>8, DecideInPeak
  <2>2. PeakCommands'
    BY <1>1, <2>1 DEF PeakInv, PeakCommands, Peak
  <2>3. calm > 0 => \A m \in down' : m.born >= PeakStart
    BY <1>8, <2>1 DEF PeakInv, Peak
  <2>4. Since' = Since /\ Since \in Int /\ (calm > 0 => Since < now)
        /\ ResendTicks \in Nat /\ ResendTicks > 0
    BY <1>1, <1>2, TimeAssumption DEF Since
  <2>5. Covered => Covered'
    BY <1>1, <2>1, <2>4 DEF Covered, Enforces
  <2>6. ASSUME calm > 0 PROVE Covered' \/ Waiting'
    <3>1. CASE Covered
      BY <2>5, <3>1
    <3>2. CASE calm < ResendTicks
      BY <1>2, <3>2 DEF Waiting
    <3>3. CASE calm = ResendTicks /\ (due \/ run["timer"].on \/ st.override > now)
      <4>1. now = Since + ResendTicks
        BY <1>2, <3>3 DEF Since
      <4>2. CASE st'.override > now
        BY <1>1, <1>2, <3>3, <4>2 DEF Waiting
      <4>3. CASE ~(st'.override > now)
        <5>1. Held(r) = 0 /\ ~(st.override > now)
          BY <1>0, <1>1, <1>5, <1>6, <4>3 DEF Held, RunType, Typed
        <5>2. CASE k # "timer"
          <6>1. run'["timer"] = run["timer"]
            BY <1>1, <5>2 DEF Invocations
          <6> QED BY <1>1, <1>2, <3>3, <5>1, <6>1 DEF Waiting
        <5>3. CASE RecentlySent(r, k)
          <6>1. r.read.last = "delay_window" /\ now - r.read.sent < ResendTicks
            BY <5>3 DEF RecentlySent
          <6>2. SentSince(r.read)
            BY <1>2, <1>6, <2>4, <4>1, <6>1 DEF SentSince
          <6> QED BY <1>5, <1>6, <2>5, <2>6, <6>2 DEF PeakInv
        <5>4. CASE \E m : m.born = now /\ down' = down \cup {m}
          BY <1>1, <1>2, <2>4, <2>6, <4>1, <5>4 DEF Covered
        <5> QED BY <2>1, <5>1, <5>2, <5>3, <5>4
      <4> QED BY <4>2, <4>3
    <3> QED BY <2>6, <3>1, <3>2, <3>3 DEF PeakInv, Waiting
  <2>7. ASSUME calm > 0, SentSince(st)' PROVE Covered'
    <3>1. CASE RecentlySent(r, k) /\ st'.last = "delay_window" /\ st'.sent = r.read.sent
      BY <1>5, <1>6, <2>4, <2>5, <2>7, <3>1 DEF PeakInv, SentSince, RecentlySent
    <3>2. CASE \E m : m.born = now /\ down' = down \cup {m}
      <4>1. CASE Covered
        BY <2>5, <4>1
      <4>2. CASE Waiting
        <5>1. now <= Since + ResendTicks
          BY <1>2, <2>4, <4>2 DEF Waiting, Since
        <5> QED BY <1>1, <1>2, <2>4, <2>7, <3>2, <5>1 DEF Covered
      <4> QED BY <2>7, <4>1, <4>2 DEF PeakInv
    <3> QED BY <2>1, <2>7, <3>1, <3>2 DEF SentSince
  <2>8. ASSUME calm > 0, NEW j \in Invocations, run'[j].on, SentSince(run[j].read)'
        PROVE  Covered'
    <3>1. run'[j] = run[j]
      BY <1>1, <2>8
    <3> QED BY <2>4, <2>5, <2>8, <3>1 DEF PeakInv, SentSince
  <2> QED
    BY <1>1, <1>2, <1>4, <2>2, <2>3, <2>4, <2>6, <2>7, <2>8 DEF PeakInv
<1> QED BY <1>7, <1>8

LEMMA PeakReceive ==
    ASSUME PeakInv, HonourInv', NEW m \in down, Receive(m)
    PROVE  PeakInv'
<1>0. Typed /\ Times /\ InTime
  BY DEF PeakInv, HonourInv, OptOutInv
<1>1. /\ down' = down \ {m} /\ UNCHANGED <<now, st, run, latch, due, calm>>
      /\ now \in Nat /\ latch \in Int /\ calm \in Nat
      /\ DownType(m) /\ m.born <= now
  BY <1>0 DEF Receive, cloud, ghosts, Typed, Times, InTime
<1>2. IF Latched THEN win' = win
      ELSE IF m.kind = "allow" THEN ~win'.has
      ELSE win'.has /\ win'.start = m.start /\ win'.end = m.end
  BY DEF Receive, Heeds, NoWindow
<1>3. m.kind = "allow" \/ m.kind = "window"
  BY <1>1 DEF DownType
<1>4. Times' /\ PeakCommands'
  BY <1>0, <1>1, <1>2, <1>3 DEF PeakInv, Times, PeakCommands, Peak
<1>5. Since' = Since
  BY <1>1 DEF Since
<1>6. ASSUME calm > 0 PROVE win'.has /\ Enforces(win)'
  <2>1. ~Latched /\ Peak(m.born)
    BY <1>1, <1>6, Numbers DEF PeakInv, Latched, Peak, DownType
  <2>2. m.kind = "window" /\ m.start = m.born /\ m.end >= PeakEnd
    BY <2>1 DEF PeakInv, PeakCommands
  <2> QED BY <1>1, <1>2, <2>1, <2>2, Numbers DEF Enforces, DownType, Peak
<1>7. calm > 0 => Covered'
  BY <1>6 DEF Covered
<1> QED BY <1>1, <1>4, <1>5, <1>7 DEF PeakInv

LEMMA PeakTick ==
    ASSUME PeakInv, HonourInv', Tick
    PROVE  PeakInv'
<1>0. Typed /\ Times
  BY DEF PeakInv, HonourInv, OptOutInv
<1>1. /\ now' = now + 1 /\ now \in Nat /\ calm \in Nat /\ latch \in Int
      /\ UNCHANGED <<st, run, down, win, latch>>
      /\ ~due /\ due' /\ \A k \in Invocations : ~run[k].on
      /\ calm' = IF Undisturbed THEN calm + 1 ELSE 0
  BY <1>0, TickEffect DEF Tick, Typed, Times
<1>2. Times' /\ PeakCommands'
  BY <1>0, <1>1 DEF PeakInv, Times, PeakCommands, Peak
<1>3. CASE ~Undisturbed
  BY <1>1, <1>2, <1>3 DEF PeakInv
<1>4. CASE Undisturbed
  <2>1. /\ Since' = Since /\ Since = now - calm
        /\ Peak(now) /\ Peak(now + 1) /\ ~Latched /\ ~(st.override > now)
        /\ \A m \in down : m.born >= PeakStart
        /\ ResendTicks \in Nat /\ ResendTicks > 0 /\ st.sent \in Int /\ st.sent <= now
    BY <1>0, <1>1, <1>4, TimeAssumption DEF Since, Undisturbed, Times, Typed
  <2>2. PeakStart <= Since' /\ now' < PeakEnd /\ latch' <= now'
    <3>1. CASE calm = 0
      BY <1>1, <2>1, <3>1, Numbers DEF Peak, Latched
    <3>2. CASE calm > 0
      BY <1>1, <2>1, <3>2, Numbers DEF PeakInv, Peak, Latched
    <3> QED BY <1>1, <3>1, <3>2
  <2>3. Covered => Covered'
    BY <1>1, <2>1 DEF Covered, Enforces
  <2>4. Covered' \/ Waiting'
    <3>1. CASE calm = 0
      BY <1>1, <1>4, <2>1, <3>1 DEF Waiting
    <3>2. CASE calm > 0 /\ Covered
      BY <2>3, <3>2
    <3>3. CASE calm > 0 /\ Waiting
      BY <1>1, <1>4, <2>1, <3>3 DEF Waiting, Invocations
    <3> QED BY <1>1, <3>1, <3>2, <3>3 DEF PeakInv
  <2>5. SentSince(st)' => Covered'
    <3>1. CASE calm = 0
      BY <1>1, <2>1, <3>1 DEF SentSince
    <3>2. CASE calm > 0
      BY <1>1, <2>1, <2>3, <3>2 DEF PeakInv, SentSince
    <3> QED BY <1>1, <3>1, <3>2
  <2> QED BY <1>1, <1>2, <2>1, <2>2, <2>4, <2>5 DEF PeakInv
<1> QED BY <1>3, <1>4

LEMMA PeakNext == PeakInv /\ [Next]_vars => PeakInv'
<1> SUFFICES ASSUME PeakInv, [Next]_vars PROVE PeakInv'
  OBVIOUS
<1>0. HonourInv /\ HonourInv' /\ Typed /\ Typed'
  BY HonourNext DEF PeakInv, HonourInv, OptOutInv
<1>1. ASSUME NEW k \in Invocations, Begin(k) PROVE PeakInv'
  BY <1>0, <1>1, PeakBegin
<1>2. ASSUME NEW k \in Invocations, Finish(k) PROVE PeakInv'
  BY <1>0, <1>2, PeakFinish
<1>3. ASSUME NEW u \in up, Decode(u) PROVE PeakInv'
  <2>1. st'.last = st.last /\ st'.sent = st.sent
    BY <1>0, <1>3 DEF Decode, Typed, NoItem
  <2>2. UNCHANGED <<due, calm>>
    BY <1>3 DEF Decode, ghosts
  <2> QED BY <1>0, <1>3, <2>1, <2>2, DecodeEffect, PeakKept
<1>4. CASE RecordOverride
  <2>1. st'.last = st.last /\ st'.sent = st.sent
    BY <1>0, <1>4 DEF RecordOverride, Typed, NoItem
  <2>2. UNCHANGED <<due, calm>>
    BY <1>4 DEF RecordOverride
  <2>3. st'.override > now
    BY <1>0, <1>4, RecordOverrideEffect, UntilIsLater DEF Typed
  <2> QED BY <1>0, <1>4, <2>1, <2>2, <2>3, RecordOverrideEffect, PeakKept
<1>5. ASSUME NEW m \in down, Receive(m) PROVE PeakInv'
  BY <1>0, <1>5, PeakReceive
<1>6. CASE Press
  BY <1>0, <1>6, PressEffect, PeakDisturbed DEF Press
<1>7. CASE CancelLatch
  BY <1>0, <1>7, CancelEffect, PeakDisturbed DEF CancelLatch
<1>8. CASE Tick
  BY <1>0, <1>8, PeakTick
<1>9. ASSUME NEW m \in down, Lose(m) PROVE PeakInv'
  BY <1>0, <1>9, OtherEffect, PeakDisturbed DEF Lose
<1>10. CASE Report \/ UNCHANGED vars
  <2>1. UNCHANGED <<due, calm, down>>
    BY <1>10 DEF Report, cloud, ghosts, vars
  <2> QED BY <1>0, <1>10, <2>1, OtherEffect, PeakKept
<1> QED
  BY <1>1, <1>2, <1>3, <1>4, <1>5, <1>6, <1>7, <1>8, <1>9, <1>10 DEF Next

(* In a peak in which for a resend interval and a delivery nothing was     *)
(* lost, overridden or still to come from before it, the device is paused  *)
(* (charge_scheduler_lambda.py:368-395), although each run trusts a record *)
(* that other runs write and sends nothing while the last command is       *)
(* recent.                                                                 *)
THEOREM PeakEnforcedCorrect == Spec => []PeakEnforced
<1>1. PeakInv => PeakEnforced
  <2> SUFFICES ASSUME PeakInv, calm > ResendTicks + MaxDelay PROVE Paused
    BY DEF PeakEnforced
  <2>1. /\ calm \in Nat /\ now \in Nat /\ ResendTicks \in Nat /\ MaxDelay \in Nat
        /\ \A m \in down : m.born \in Int /\ now <= m.born + MaxDelay
    BY TimeAssumption, Numbers
       DEF PeakInv, Times, HonourInv, OptOutInv, Typed, DownType, InTime
  <2>2. ~Waiting /\ ~(\E m \in down : Since < m.born /\ m.born <= Since + ResendTicks)
    BY <2>1 DEF Waiting, Since
  <2>3. win.has /\ Enforces(win) /\ now < PeakEnd /\ win.end \in Int
    BY <2>1, <2>2 DEF PeakInv, Covered, HonourInv, OptOutInv, Typed
  <2> QED BY <2>1, <2>3, Numbers DEF Paused, Enforces
<1> QED
  BY PeakInit, PeakNext, <1>1, PTL DEF Spec

-----------------------------------------------------------------------------
(* The types, of which the retries are the point: they are counted up only *)
(* below their limit.                                                      *)
Lasts == {"none", "delay_window", "allow", "off_peak", "charge_now_optout"}

LEMMA DecideRecords ==
    ASSUME Typed, NEW r, NEW k, Decide(r, k), st.last \in Lasts
    PROVE  /\ st'.last \in Lasts /\ st'.retries = st.retries
           /\ down' = down \/ \E m : m.born = now /\ down' = down \cup {m}
<1>1. DOMAIN st = DOMAIN NoItem
  BY DEF Typed
<1>2. CASE Suppress(r)
  BY <1>1, <1>2 DEF Suppress, Record, Quiet, NoItem, Lasts
<1>3. CASE Allow(r, k)
  <2>1. st'.last \in Lasts /\ st'.retries = st.retries
    BY <1>1, <1>3 DEF Allow, Record, NoItem, Lasts
  <2>2. PICK m : m = [kind |-> "allow", born |-> now]
    OBVIOUS
  <2>3. down' = down \/ down' = down \cup {m}
    BY <1>3, <2>2 DEF Allow, Send, Quiet
  <2> QED BY <2>1, <2>2, <2>3
<1>4. CASE Pause(r, k)
  <2>1. st'.last \in Lasts /\ st'.retries = st.retries
    BY <1>1, <1>4 DEF Pause, Record, NoItem, Lasts
  <2>2. PICK m : m = [kind |-> "window", born |-> now, start |-> now, end |-> End(r),
                      promised |-> r.promised, blind |-> r.blind]
    OBVIOUS
  <2>3. down' = down \/ down' = down \cup {m}
    BY <1>4, <2>2 DEF Pause, Send, Quiet
  <2> QED BY <2>1, <2>2, <2>3
<1> QED BY <1>2, <1>3, <1>4 DEF Decide

LEMMA TypeNext == PeakInv /\ TypeOK /\ [Next]_vars => TypeOK'
<1> SUFFICES ASSUME PeakInv, TypeOK, [Next]_vars PROVE TypeOK'
  OBVIOUS
<1>0. Typed /\ Typed' /\ Times' /\ InTime'
  BY PeakNext DEF PeakInv, HonourInv, OptOutInv
<1>n. /\ now \in Nat /\ Horizon \in Nat /\ LatchTicks \in Nat /\ MaxRetries \in Nat
      /\ DOMAIN st = DOMAIN NoItem /\ DOMAIN run = Invocations
      /\ st.retries \in 0..MaxRetries /\ st.last \in Lasts /\ forced \in Nat
  BY <1>0, Numbers, BoundAssumption DEF Typed, TypeOK, Lasts
<1>t. /\ st'.sent \in 0..now'
      /\ \A m \in down' : m.kind \in {"allow", "window"} /\ m.born \in Int /\ m.born <= now'
  BY <1>0 DEF Typed, DownType, Times, InTime
<1>1. ASSUME NEW k \in Invocations, Begin(k) PROVE TypeOK'
  <2>1. /\ UNCHANGED <<now, st, down, up, latch>> /\ (due' = due \/ due' = FALSE)
        /\ forced' = forced \/ (forced > 0 /\ forced' = forced - 1)
    BY <1>1 DEF Begin, device
  <2>2. \A j \in Invocations : run'[j].on \in BOOLEAN
    <3>1. run'[k].on = TRUE /\ \A j \in Invocations \ {k} : run'[j] = run[j]
      BY <1>1, <1>n DEF Begin
    <3> QED BY <3>1 DEF TypeOK
  <2>3. due' \in BOOLEAN /\ forced' \in Nat
    <3>1. due' \in BOOLEAN
      BY <2>1, Zenon DEF TypeOK
    <3>2. forced' \in Nat
      BY <1>n, <2>1
    <3> QED BY <3>1, <3>2
  <2>4. \A m \in down' : m.kind \in {"allow", "window"} /\ m.born \in 0..now'
    BY <2>1 DEF TypeOK
  <2> QED BY <1>n, <2>1, <2>2, <2>3, <2>4 DEF TypeOK
<1>2. ASSUME NEW k \in Invocations, Finish(k) PROVE TypeOK'
  <2>1. UNCHANGED <<now, up, latch, due, forced>> /\ Decide(run[k], k)
    BY <1>2 DEF Finish, device
  <2>2. \A j \in Invocations : run'[j].on \in BOOLEAN
    <3>1. run'[k].on = FALSE /\ \A j \in Invocations \ {k} : run'[j] = run[j]
      BY <1>2, <1>n DEF Finish, NoRun
    <3> QED BY <3>1 DEF TypeOK
  <2>3. /\ st'.last \in Lasts /\ st'.retries = st.retries
        /\ down' = down \/ \E m : m.born = now /\ down' = down \cup {m}
    BY <1>0, <1>n, <2>1, DecideRecords
  <2> QED BY <1>n, <1>t, <2>1, <2>2, <2>3 DEF TypeOK, Lasts
<1>3. ASSUME NEW u \in up, Decode(u) PROVE TypeOK'
  <2>1. UNCHANGED <<now, due, run, down, latch>> /\ up' \subseteq up
    BY <1>3 DEF Decode, device
  <2>2. \/ st' = [st EXCEPT !.retries = @ + 1] /\ forced' = forced + 1 /\ MayRetry
        \/ (st' = [st EXCEPT !.retries = 0] \/ st' = st) /\ forced' = forced
    BY <1>3 DEF Decode
  <2>3. st'.last = st.last /\ st'.retries \in 0..MaxRetries /\ forced' \in Nat
    BY <1>n, <2>2 DEF MayRetry, NoItem
  <2> QED BY <1>n, <1>t, <2>1, <2>3 DEF TypeOK, Lasts
<1>4. CASE RecordOverride
  <2>1. /\ UNCHANGED <<now, due, forced, run, down, up, latch>>
        /\ st'.last = st.last /\ st'.retries = st.retries
    BY <1>4, <1>n DEF RecordOverride, device, NoItem
  <2> QED BY <1>n, <1>t, <2>1 DEF TypeOK, Lasts
<1>5. ASSUME NEW m \in down, Receive(m) \/ Lose(m) PROVE TypeOK'
  <2>1. UNCHANGED <<now, st, due, forced, run, up, latch>> /\ down' \subseteq down
    BY <1>5 DEF Receive, Lose, cloud, device
  <2> QED BY <2>1 DEF TypeOK
<1>6. CASE Press \/ CancelLatch
  <2>1. UNCHANGED <<now, st, due, forced, run, up, down>> /\ latch' \in {now + LatchTicks, now}
    BY <1>6 DEF Press, CancelLatch, cloud
  <2>2. now \in 0..Horizon
    BY DEF TypeOK
  <2>3. latch' \in 0..(Horizon + LatchTicks)
    BY <1>n, <2>1, <2>2
  <2> QED BY <2>1, <2>3 DEF TypeOK
<1>7. CASE Tick
  <2>1. /\ now < Horizon /\ now' = now + 1 /\ due' = TRUE
        /\ UNCHANGED <<st, forced, run, down, up, latch>>
    BY <1>7 DEF Tick, device
  <2> QED BY <1>n, <1>t, <2>1 DEF TypeOK
<1>8. CASE Report
  <2>1. UNCHANGED <<now, st, due, forced, run, down, latch>>
    BY <1>8 DEF Report, cloud, device
  <2>2. PICK allowed, latched :
          /\ allowed = ~Paused /\ (\E live \in BOOLEAN : latched = (live /\ Latched))
          /\ up' = up \cup {[allowed |-> allowed, charge_now |-> latched, born |-> now]}
    BY <1>8, Zenon DEF Report
  <2>3. allowed \in BOOLEAN /\ latched \in BOOLEAN
    BY <2>2, Zenon
  <2>4. \A u \in up' : u.allowed \in BOOLEAN /\ u.charge_now \in BOOLEAN
    <3>1. PICK e : e = [allowed |-> allowed, charge_now |-> latched, born |-> now]
      OBVIOUS
    <3>2. e.allowed = allowed /\ e.charge_now = latched
      BY <3>1
    <3>3. e.allowed \in BOOLEAN /\ e.charge_now \in BOOLEAN
      BY <2>3, <3>2, Zenon
    <3>4. \A u \in up' : u \in up \/ u = e
      BY <2>2, <3>1
    <3> QED BY <3>3, <3>4, Zenon DEF TypeOK
  <2> QED BY <2>1, <2>4 DEF TypeOK
<1>9. CASE UNCHANGED vars
  BY <1>9 DEF TypeOK, vars, cloud, device
<1> QED
  BY <1>1, <1>2, <1>3, <1>4, <1>5, <1>6, <1>7, <1>8, <1>9 DEF Next

(* Types and ranges; in particular a divergence stops asking for a re-send *)
(* after MaxRetries (decode_evse_lambda.py:241-249).                       *)
THEOREM TypeCorrect == Spec => []TypeOK
<1>1. Init => TypeOK
  <2> SUFFICES ASSUME Init PROVE TypeOK
    OBVIOUS
  <2>1. Horizon \in Nat /\ LatchTicks \in Nat /\ MaxRetries \in Nat
    BY Numbers, BoundAssumption
  <2>2. \A k \in Invocations : run[k].on = FALSE
    BY DEF Init, NoRun
  <2>4. due \in BOOLEAN /\ \A k \in Invocations : run[k].on \in BOOLEAN
    BY <2>2, Zenon DEF Init
  <2>3. /\ now = 0 /\ forced = 0 /\ down = {} /\ up = {} /\ latch = 0
        /\ st.last = "none" /\ st.retries = 0 /\ st.sent = 0
    BY DEF Init, NoItem
  <2> QED BY <2>1, <2>3, <2>4 DEF TypeOK
<1> QED
  BY PeakInit, PeakNext, <1>1, TypeNext, PTL DEF Spec
=============================================================================
