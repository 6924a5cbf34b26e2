------------------------------- MODULE Button -------------------------------
(***************************************************************************)
(* The Charge Now button (app_evse/selftest_trigger.c), polled by the      *)
(* timer job every 500 ms: one press starts the Charge Now latch, a long   *)
(* press ends it, PressCount presses in a row run the self-test, whose     *)
(* result the LED then blinks while the button is not read.                *)
(*                                                                         *)
(* Time is counted in jobs.  A stamp of uptime_ms() is its age, which      *)
(* stops at Old, beyond every limit it is compared with.  A job records at *)
(* most one stamp, so the stamps an array holds are a set of ages: those   *)
(* that have reached Old count for nothing, and are the first to go.       *)
(***************************************************************************)
EXTENDS Integers, FiniteSets

CONSTANTS PressCount,   (* TRIGGER_PRESS_COUNT                             *)
          PressWindow,  (* TRIGGER_WINDOW_MS                               *)
          SinglePress,  (* SINGLE_PRESS_TIMEOUT_MS                         *)
          LongPress,    (* LONG_PRESS_MS                                   *)
          Checks,       (* SELFTEST_CHECK_COUNT                            *)
          BlinkPause,   (* BLINK_PAUSE_TICKS                               *)
          Old           (* bound on every age                              *)

ASSUME ButtonAssumption ==
    /\ {PressCount, PressWindow, SinglePress, LongPress, Checks, BlinkPause, Old} \subseteq Nat
    /\ PressCount > 1 /\ Checks > 0 /\ SinglePress > 0 /\ LongPress > 0
    /\ \A limit \in {PressWindow, SinglePress, LongPress} : limit < Old
    /\ SinglePress <= PressWindow

VARIABLES presses,      (* press_times, the first press_count: ages        *)
          wasPressed,   (* last_button_pressed                             *)
          single,       (* single_press_time, while it is pending          *)
          hold,         (* button_held_since, while tracking_hold          *)
          fired,        (* long_press_fired                                *)
          blink,        (* ticks the result still takes; 0: TRIG_IDLE      *)
          sendPending,
          selftestFault,  (* FAULT_SELFTEST                                *)
          latched,      (* charge_now's active, and charge_now_override    *)
          did           (* what the last job took the button for           *)

button == <<presses, wasPressed, single, hold, fired, blink, sendPending,
            selftestFault, latched, did>>

None == -1
Ages == 0..Old
Older(a) == IF a \in {None, Old} THEN a ELSE a + 1
Aged(S) == {Older(a) : a \in S}
Reached(a, limit) == a # None /\ a >= limit

ButtonTypeOK ==
    /\ presses \subseteq Ages /\ Cardinality(presses) < PressCount
    /\ wasPressed \in BOOLEAN /\ fired \in BOOLEAN
    /\ single \in Ages \cup {None} /\ hold \in Ages \cup {None}
    /\ blink \in 0..(2 * Checks + BlinkPause + 1)
    /\ sendPending \in BOOLEAN /\ selftestFault \in BOOLEAN /\ latched \in BOOLEAN
    /\ did \in {"nothing", "activate", "hold", "selftest"}

(* app_init runs the self-test too.                                        *)
ButtonInit == /\ presses = {} /\ wasPressed = FALSE
              /\ single = None /\ hold = None /\ fired = FALSE
              /\ blink = 0 /\ sendPending = FALSE
              /\ selftestFault \in BOOLEAN
              /\ latched = FALSE /\ did = "nothing"

-----------------------------------------------------------------------------
(* start_selftest: the ticks that blink the number of passed and of failed *)
(* checks, with a pause between the two, and one that switches off.        *)
BlinkTicks(passed) == 2 * Checks + (IF passed \in 1..(Checks - 1) THEN BlinkPause ELSE 0) + 1

StartSelftest(passed) == /\ blink' = BlinkTicks(passed)
                         /\ sendPending' = (passed < Checks)
                         /\ selftestFault' = (passed < Checks)
                         /\ did' = "selftest"

(* A press forgets those that have left the window.                        *)
Recent == {a \in Aged(presses) : a <= PressWindow}
WithPress == Recent \cup {0}
Rising(pressed) == pressed /\ ~wasPressed

TrackHold == hold' = 0 /\ fired' = FALSE

LastPress(pressed) ==
    /\ blink = 0 /\ Rising(pressed) /\ Cardinality(WithPress) >= PressCount
    /\ presses' = {} /\ single' = None
    /\ \E passed \in 0..Checks : StartSelftest(passed)
    /\ TrackHold

PressKept(pressed) ==
    /\ blink = 0 /\ Rising(pressed) /\ Cardinality(WithPress) < PressCount
    /\ presses' = WithPress
    /\ single' = IF Cardinality(WithPress) = 1 THEN 0 ELSE Older(single)
    /\ TrackHold
    /\ did' = "nothing"
    /\ UNCHANGED <<blink, sendPending, selftestFault>>

Press(pressed) ==
    /\ blink = 0 /\ Rising(pressed) /\ Cardinality(WithPress) < PressCount
    /\ presses' = WithPress
    /\ single' = IF Cardinality(WithPress) = 1 THEN 0 ELSE None
    /\ TrackHold
    /\ did' = "nothing"
    /\ UNCHANGED <<blink, sendPending, selftestFault>>

(* The button stays pressed: a long press, once.                           *)
Held(pressed) ==
    /\ blink = 0 /\ pressed /\ wasPressed
    /\ hold' = Older(hold)
    /\ IF Reached(hold', LongPress) /\ ~fired
       THEN /\ presses' = {} /\ single' = None /\ fired' = TRUE
            /\ did' = "hold"
       ELSE /\ presses' = Aged(presses) /\ single' = Older(single)
            /\ did' = "nothing" /\ UNCHANGED fired
    /\ UNCHANGED <<blink, sendPending, selftestFault>>

(* The button is up: a press that no other joined is a single press.       *)
Released(pressed) ==
    /\ blink = 0 /\ ~pressed
    /\ hold' = IF wasPressed THEN None ELSE Older(hold)
    /\ IF Reached(Older(single), SinglePress)
       THEN presses' = {} /\ single' = None /\ did' = "activate"
       ELSE /\ presses' = Aged(presses) /\ single' = Older(single)
            /\ did' = "nothing"
    /\ UNCHANGED <<fired, blink, sendPending, selftestFault>>

PollButton(pressed) ==
    /\ LastPress(pressed) \/ Press(pressed) \/ Held(pressed) \/ Released(pressed)
    /\ wasPressed' = pressed

(* drive_blinks; its last tick asks for the uplink of a failed test.       *)
DriveBlinks ==
    /\ blink > 0 /\ blink' = blink - 1
    /\ sendPending' = (sendPending /\ blink > 1)
    /\ presses' = Aged(presses) /\ single' = Older(single) /\ hold' = Older(hold)
    /\ did' = "nothing"
    /\ UNCHANGED <<wasPressed, fired, selftestFault>>

TriggerTick(pressed) == PollButton(pressed) \/ DriveBlinks

(* charge_now_activate and charge_now_cancel, and charge_now_tick at the   *)
(* end of the job: half an hour is over, or the car unplugged (ends).      *)
Latch(ends) ==
    latched' = (/\ did' = "activate" \/ (latched /\ did' # "hold")
                /\ ~ends)
=============================================================================
