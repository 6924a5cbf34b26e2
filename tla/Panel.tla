------------------------------- MODULE Panel --------------------------------
(***************************************************************************)
(* What the device shows and how it is operated: the LED engine            *)
(* (app_evse/led_engine.c), the button (Button) and the continuous         *)
(* self-test (Monitor) in the order in which app_on_timer calls them.      *)
(*                                                                         *)
(* A step is one timer job of 500 ms: LedTicks ticks of the LED engine,    *)
(* then the button, the sensors, the latch and the monitor.  The inputs of *)
(* a job are chosen at its start.  `scene', chosen at boot, says which     *)
(* inputs vary, a group of them or all; the others stay quiet.             *)
(***************************************************************************)
EXTENDS Monitor

CONSTANTS Scenes,             (* of "button", "sensors", "link" and "all"    *)
          LedTicks,           (* SENSOR_DECIMATION                         *)
          AckSteps,           (* ACK_STEPS                                 *)
          ErrorThreshold,     (* LED_ERROR_THRESHOLD                       *)
          CommissionTimeout,  (* LED_COMMISSION_TIMEOUT_MS                 *)
          LinkTimeout         (* LED_SIDEWALK_TIMEOUT_MS                   *)

ASSUME PanelAssumption ==
    /\ {CommissionTimeout, LinkTimeout} \subseteq 1..(Old - 1)
    /\ {LedTicks, AckSteps, ErrorThreshold} \subseteq Nat \ {0}
    /\ AckSteps < 2 * LedTicks

VARIABLES scene,
          showing,        (* active_priority, or the overlay that is shown *)
          ack,            (* ticks that the acknowledgement still takes    *)
          commissioning,  (* commissioning_active                          *)
          uplinkSent,     (* first_uplink_sent                             *)
          uptime,         (* age of the boot                               *)
          adcFails,       (* adc_fail_count                                *)
          linkError,      (* sidewalk_timeout_error                        *)
          linkTimer,      (* sidewalk_timeout_start_ms, once started       *)
          ghost           (* what really happened; see Observe             *)

led  == <<showing, ack, commissioning, uplinkSent, uptime, adcFails, linkError, linkTimer>>
vars == <<scene, button, monitor, led, ghost>>

(* The inputs of one job: the button, the pilot, the cool call, whether    *)
(* charging is allowed, Sidewalk ready, an uplink sent, the latch over.    *)
Inputs ==
    LET Varies(s) == scene \in {s, "all"}
        Vary(s, few) == IF Varies(s) THEN BOOLEAN ELSE {few}
    IN  {in \in [pressed : Vary("button", FALSE), ends : Vary("button", FALSE),
                 cool : Vary("sensors", FALSE), allowed : Vary("sensors", TRUE),
                 pilot : IF Varies("sensors") THEN Pilots ELSE {"other"},
                 ready : Vary("link", TRUE), sent : Vary("link", TRUE)]
            : in.sent => in.ready}

-----------------------------------------------------------------------------
(* has_error; the flags of a failed GPIO, of an OTA apply and of the       *)
(* charge-block pin have no caller that sets them, nor has ota_active.     *)
Faulty == selftestFault \/ sensorFault \/ clampFault \/ adcFails >= ErrorThreshold

(* Sidewalk's timer, as the first of a job's ticks leaves it.              *)
TrackLink(ready) ==
    LET timer == IF ~linkError /\ linkTimer = None /\ ~ready THEN 0 ELSE Older(linkTimer)
        error == linkError \/ (~ready /\ Reached(timer, LinkTimeout))
    IN  /\ linkError' = (error /\ ~ready)
        /\ linkTimer' = IF error /\ ready THEN None ELSE timer

(* conditions and evaluate_priority.  Whether commissioning is over is     *)
(* looked at only when no error outranks it.                               *)
StillCommissioning == commissioning /\ ~uplinkSent /\ uptime < CommissionTimeout

Conditions(in) ==
    <<[name |-> "error",        holds |-> Faulty \/ linkError'],
      [name |-> "commission",   holds |-> StillCommissioning],
      [name |-> "disconnected", holds |-> ~in.ready],
      [name |-> "charge_now",   holds |-> latched],
      [name |-> "ac_priority",  holds |-> in.cool /\ ~in.allowed],
      [name |-> "charging",     holds |-> in.pilot = "C"],
      [name |-> "idle",         holds |-> TRUE]>>

Priority(in) ==
    LET c == Conditions(in)
    IN  c[CHOOSE i \in 1..7 : c[i].holds /\ \A j \in 1..(i - 1) : ~c[j].holds].name

(* led_engine_tick, LedTicks times: it yields to the self-test's blinks,   *)
(* else shows the acknowledgement until it is over and then the priority.  *)
LedYields == /\ blink > 0
             /\ showing' = "result"
             /\ linkTimer' = Older(linkTimer)
             /\ UNCHANGED <<commissioning, linkError>>

LedAcknowledges(in) == /\ blink = 0 /\ ack >= LedTicks
                       /\ showing' = "ack"
                       /\ TrackLink(in.ready)
                       /\ UNCHANGED commissioning

LedShows(in) ==
    /\ blink = 0 /\ ack < LedTicks
    /\ TrackLink(in.ready)
    /\ showing' = Priority(in)
    /\ commissioning' = IF Faulty \/ linkError' THEN commissioning ELSE StillCommissioning

AckLeft == IF blink > 0 THEN ack ELSE IF ack > LedTicks THEN ack - LedTicks ELSE 0

AckAlways == IF did' = "activate" THEN AckSteps ELSE AckLeft

(* led_engine_button_ack, when charge_now_activate calls it.               *)
AckAfter == IF did' = "activate" /\ ~(Faulty \/ linkError') THEN AckSteps ELSE AckLeft

(* led_engine_report_adc_result; no limit but the threshold is compared.   *)
ReportAdc(pilot) ==
    adcFails' = IF pilot # "unknown" THEN 0
                ELSE IF adcFails < ErrorThreshold THEN adcFails + 1 ELSE adcFails

-----------------------------------------------------------------------------
(* What really happened, apart from what the code keeps of it: presses     *)
(* since the last gesture (none while a result blinks) that are still in   *)
(* the window, whether the last one was alone in its window, how long the  *)
(* button is down, whether a result blinked since it was last seen up, all *)
(* toggles of the window, and for how many jobs the pilot could not be     *)
(* read, the thermostat has not chattered, Sidewalk was not ready, no      *)
(* result blinked and the LED engine had an error to show.                 *)
NoGhost == [edges |-> {}, lone |-> FALSE, down |-> None, meant |-> "nothing",
            blind |-> FALSE, history |-> {},
            badFor |-> 0, calmFor |-> 1, downFor |-> 0, quietFor |-> 0, errorFor |-> 0]

Count(n, holds) == IF ~holds THEN 0 ELSE IF n = Old THEN Old ELSE n + 1

Pressed(in) == blink = 0 /\ Rising(in.pressed)

Edges(in) == {a \in Aged(ghost.edges) \cup (IF Pressed(in) THEN {0} ELSE {})
                : a <= PressWindow}

Lone(in) == IF Pressed(in) THEN Cardinality(Edges(in)) = 1 ELSE ghost.lone

DownFor(in) == IF ~in.pressed THEN None ELSE IF ghost.down = None THEN 0 ELSE Older(ghost.down)

History(in) == {a \in Aged(ghost.history) \cup (IF in.cool = coolWas THEN {} ELSE {0})
                  : a <= ChatterWindow}

(* What the button was meant for, judged from the presses themselves:      *)
(* PressCount of them inside the window, none of which did anything else,  *)
(* ask for the self-test; a button down for LongPress, once, is a long     *)
(* press; a press that is over and had no other in its window is a single  *)
(* one.                                                                    *)
Meant(in) ==
    IF Pressed(in) /\ Cardinality(Edges(in)) >= PressCount THEN "selftest"
    ELSE IF DownFor(in) = LongPress THEN "hold"
    ELSE IF Lone(in) /\ ~in.pressed /\ \A a \in Edges(in) : a >= SinglePress THEN "activate"
    ELSE "nothing"

Observe(in) == ghost' =
    [edges    |-> IF did' = "nothing" THEN Edges(in) ELSE {},
     lone     |-> Lone(in) /\ did' = "nothing",
     down     |-> DownFor(in),
     meant    |-> IF blink > 0 \/ ghost.blind THEN did' ELSE Meant(in),
     blind    |-> blink > 0 \/ (ghost.blind /\ in.pressed),
     history  |-> History(in),
     badFor   |-> Count(ghost.badFor, in.pilot = "unknown"),
     calmFor  |-> Count(ghost.calmFor, Cardinality(History(in)) <= MaxToggles),
     downFor  |-> Count(ghost.downFor, ~in.ready),
     quietFor |-> Count(ghost.quietFor, blink = 0),
     errorFor |-> Count(ghost.errorFor, Faulty \/ linkError')]

-----------------------------------------------------------------------------
Init == /\ scene \in Scenes
        /\ ButtonInit /\ MonitorInit
        /\ showing = "idle" /\ ack = 0 /\ commissioning = TRUE
        /\ uplinkSent = FALSE /\ uptime = 0 /\ adcFails = 0
        /\ linkError = FALSE /\ linkTimer = None
        /\ ghost = NoGhost

(* app_on_timer, up to the monitor.                                        *)
TimerJob(in) ==
    /\ LedYields \/ LedAcknowledges(in) \/ LedShows(in)
    /\ TriggerTick(in.pressed)
    /\ ack' = AckAfter
    /\ ReportAdc(in.pilot)
    /\ Latch(in.ends)
    /\ ContinuousTick(in.pilot, in.cool)
    /\ uplinkSent' = (uplinkSent \/ in.sent)
    /\ uptime' = Older(uptime)
    /\ Observe(in)
    /\ UNCHANGED scene

Next == \E in \in Inputs : TimerJob(in)

Spec == Init /\ [][Next]_vars

-----------------------------------------------------------------------------
(* Every variable has its type; the queue of presses stays short of the    *)
(* count that would overrun press_times (poll_button).                     *)
TypeOK ==
    /\ scene \in Scenes
    /\ ButtonTypeOK /\ MonitorTypeOK
    /\ showing \in {"result", "ack", "error", "commission", "disconnected",
                    "charge_now", "ac_priority", "charging", "idle"}
    /\ ack \in 0..AckSteps
    /\ commissioning \in BOOLEAN /\ uplinkSent \in BOOLEAN /\ linkError \in BOOLEAN
    /\ uptime \in Ages /\ adcFails \in 0..ErrorThreshold
    /\ linkTimer \in Ages \cup {None}

(* poll_button's flags and its shifted array of stamps find exactly the    *)
(* gestures that were made: no press counts twice, none is lost, whatever  *)
(* they overlap with.  Not so after a result has blinked, until the button *)
(* is seen up: a release meanwhile goes unseen, and a new press may be     *)
(* taken for a long one.                                                   *)
ReadsGestures == did = ghost.meant

(* FAULT_SENSOR has two causes and one flag (selftest_continuous_tick):    *)
(* more toggles in the window than allowed always raise it, though the     *)
(* ring forgets; so does an unreadable pilot in time; and it goes with its *)
(* causes, except that a pilot that becomes unreadable keeps the flag that *)
(* a chatter has just raised.                                              *)
FaultsExact ==
    LET chatters == Cardinality(ghost.history) > MaxToggles
        blind == ghost.badFor > PilotTimeout
    IN  /\ chatters \/ blind => sensorFault
        /\ sensorFault => blind \/ ghost.calmFor <= ghost.badFor

(* What is wrong is shown (led_engine_tick): an error that lasts is on the *)
(* LED when the acknowledgement of a press, if any, is over, unless it     *)
(* shows a self-test's result; Sidewalk down for the whole timeout is such *)
(* an error, and it ends in the job that finds Sidewalk ready again.       *)
NoticeShown ==
    /\ ghost.errorFor > 1 => showing \in {"error", "result"}
    /\ ghost.downFor > LinkTimeout /\ ghost.quietFor > LinkTimeout => linkError
    /\ linkError /\ showing # "result" => ghost.downFor > 0
=============================================================================
