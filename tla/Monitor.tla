------------------------------ MODULE Monitor -------------------------------
(***************************************************************************)
(* The continuous self-test (selftest_continuous_tick in                   *)
(* app_evse/selftest.c), at the end of every timer job: it raises the      *)
(* fault flags of a pilot that cannot be read, of a thermostat wire that   *)
(* chatters, and of a clamp that disagrees with the pilot.                 *)
(*                                                                         *)
(* evse_current_read knows no clamp and always finds 0 mA, so the clamp    *)
(* disagrees whenever the pilot says that the car charges, and the         *)
(* interlock fault, which needs current, cannot be raised.                 *)
(***************************************************************************)
EXTENDS Button

CONSTANTS PilotTimeout,   (* PILOT_FAULT_TIMEOUT_MS                        *)
          ClampTimeout,   (* CLAMP_MISMATCH_TIMEOUT_MS                     *)
          ChatterWindow,  (* CHATTER_WINDOW_MS                             *)
          MaxToggles,     (* CHATTER_MAX_TOGGLES                           *)
          BufSize         (* CHATTER_BUF_SIZE                              *)

ASSUME MonitorAssumption ==
    /\ {PilotTimeout, ClampTimeout, ChatterWindow} \subseteq 1..(Old - 1)
    /\ MaxToggles \in Nat \ {0} /\ BufSize \in Nat /\ BufSize > MaxToggles

VARIABLES pilotBad,     (* pilot_fault_start: age, None when 0             *)
          clampBad,     (* clamp_mismatch_start                            *)
          coolWas,      (* last_cool_call                                  *)
          toggles,      (* cool_toggle_times: ages                         *)
          sensorFault, clampFault   (* FAULT_SENSOR, FAULT_CLAMP           *)

monitor == <<pilotBad, clampBad, coolWas, toggles, sensorFault, clampFault>>

MonitorTypeOK ==
    /\ pilotBad \in Ages \cup {None} /\ clampBad \in Ages \cup {None}
    /\ coolWas \in BOOLEAN
    /\ toggles \subseteq Ages /\ Cardinality(toggles) <= BufSize
    /\ sensorFault \in BOOLEAN /\ clampFault \in BOOLEAN

(* selftest_reset                                                          *)
MonitorInit == /\ pilotBad = None /\ clampBad = None
               /\ coolWas = FALSE /\ toggles = {}
               /\ sensorFault = FALSE /\ clampFault = FALSE

(* What the pilot shows (evse_j1772_state_get, simulated or read): a car   *)
(* that charges, another state, or nothing when the ADC fails.             *)
Pilots == {"C", "other", "unknown"}

(* A watch starts in the job that finds the condition and is over when the *)
(* condition is.                                                           *)
Watch(since, holds) == IF ~holds THEN None ELSE IF since = None THEN 0 ELSE Older(since)

(* The ring of toggles: a new one takes the place of the oldest when size  *)
(* of them are there.                                                      *)
Youngest(n, ages) == {a \in ages : Cardinality({b \in ages : b < a}) < n}

Ring(size, cool) ==
    Youngest(size, Aged(toggles) \cup (IF cool = coolWas THEN {} ELSE {0}))

NewTogglesShort(cool) == Ring(MaxToggles, cool)
NewTogglesOverrun(cool) == Ring(BufSize + 1, cool)
NewToggles(cool) == Ring(BufSize, cool)

Chatters(times) == Cardinality({a \in times : a <= ChatterWindow}) > MaxToggles

ContinuousTick(pilot, cool) ==
    /\ clampBad' = Watch(clampBad, pilot = "C")
    /\ clampFault' = (clampBad' # None /\ (clampFault \/ clampBad' >= ClampTimeout))
    /\ pilotBad' = Watch(pilotBad, pilot = "unknown")
    /\ coolWas' = cool
    /\ toggles' = NewToggles(cool)
    /\ sensorFault' = \/ pilotBad' # None /\ (sensorFault \/ pilotBad' >= PilotTimeout)
                      \/ Chatters(toggles')
=============================================================================
