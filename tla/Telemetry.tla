----------------------------- MODULE Telemetry ------------------------------
(***************************************************************************)
(* How what happens at the charger reaches the cloud: the timer job of     *)
(* app_evse/app_entry.c records snapshots through event_filter.c in the    *)
(* event buffer, sends live uplinks and drains the buffer (app_tx.c); the  *)
(* decode lambda (aws/decode_evse_lambda.py) stores each uplink once, logs *)
(* the transitions and answers with TIME_SYNC, which sets the clock and    *)
(* trims the buffer (app_rx.c, time_sync.c).                               *)
(*                                                                         *)
(* The buffer is what EventLog promises, which EventBuffer implements.     *)
(* The timer job runs on the work queue and preempts the Sidewalk thread,  *)
(* which a trim shows, once at most: the next job is half a second later,  *)
(* and a trim takes microseconds.  Elapsed intervals (rate limit,          *)
(* heartbeats) are choices, and a clock of seconds gives the timestamps.   *)
(***************************************************************************)
EXTENDS Integers, Sequences, FiniteSets

CONSTANTS Capacity,      (* EVENT_BUFFER_CAPACITY                          *)
          SyncInterval,  (* TIME_SYNC_INTERVAL_S                           *)
          MaxEvents, MaxUp, MaxFaults, MaxNow   (* bounds                  *)

ASSUME CapacityAssumption == Capacity \in Nat \ {0}
ASSUME BoundAssumption == {SyncInterval, MaxEvents, MaxUp, MaxFaults} \subseteq Nat /\ MaxNow \in Nat \ {0}

VARIABLES now,       (* the cloud's clock                                  *)
          first,     (* the filter has no baseline                         *)
          ring,      (* the event buffer                                   *)
          cursor, oldest, draining,   (* drain_cursor, drain_oldest_ts, drain_active *)
          synced, lag,  (* the device clock is now - lag, once synced      *)
          trimming,  (* a trim that has chosen what to keep, or was cut    *)
                      (* into since                                      *)
          up, down,  (* messages under way                                 *)
          lastSync,  (* time_sync_last_unix                                *)
          events, faults,     (* counts                                    *)
          sent,      (* ghost: the buffer's entries handed to the radio    *)
          clash      (* ghost: two entries shared a second in this boot    *)

app    == <<first, ring, cursor, oldest, draining>>
clock  == <<synced, lag>>
ghosts == <<sent, clash>>
vars   == <<now, app, clock, trimming, up, down, lastSync, events,
            faults, ghosts>>

Stamps  == 0..MaxNow
Ids     == 1..MaxEvents
Buffer  == INSTANCE EventLog WITH log <- ring, Timestamps <- Stamps, Data <- 0..MaxEvents

Idle    == [on |-> FALSE, cut |-> FALSE, keep |-> <<>>]
Never   == 0 - SyncInterval
StampsOf(r) == {r[i].timestamp : i \in 1..Len(r)}
IdsOf(r) == {r[i].data : i \in 1..Len(r)}
Held    == IdsOf(trimming.keep)   (* what a trim under way will bring back *)

Init == /\ now = 1 /\ first = TRUE /\ ring = <<>>
        /\ cursor = 0 /\ oldest = 0 /\ draining = FALSE
        /\ synced = FALSE /\ lag = 0 /\ trimming = Idle
        /\ up = {} /\ down = {}  /\ lastSync = Never
        /\ events = 0 /\ faults = 0
        /\ sent = {} /\ clash = FALSE

-----------------------------------------------------------------------------
(* The timer job (app_on_timer), every 500 ms.  It finds the sensors       *)
(* changed or not, something to record all the same (news: a transition's  *)
(* reason, or the filter's heartbeat is over) or not, the uplink's         *)
(* heartbeat over (due) or not, and Sidewalk ready and the rate limit over *)
(* (free) or not.                                                          *)
Ticks == [changed : BOOLEAN, news : BOOLEAN, due : BOOLEAN, free : BOOLEAN]

EpochAhead == IF synced THEN now + lag ELSE 0
Epoch == IF synced THEN now - lag ELSE 0

(* event_filter_submit; the reason is cleared after it.                    *)
Significant(k) == first \/ k.changed \/ k.news

(* A snapshot stands for its contents by a number of its own.              *)
Snapshot == [timestamp |-> Epoch, data |-> events + 1]

Submit(k) ==
    IF Significant(k)
    THEN /\ events < MaxEvents /\ events' = events + 1
         /\ Buffer!Add(Snapshot) /\ first' = FALSE
         /\ clash' = (clash \/ (synced /\ Epoch \in StampsOf(ring) \cup StampsOf(trimming.keep) \cup {oldest}))
    ELSE UNCHANGED <<events, ring, first, clash>>

(* The entries the ghost still has to know about.                          *)
Known == IdsOf(ring') \cup Held

Transmit(m) == Cardinality(up) < MaxUp /\ up' = up \cup {m}

(* A live uplink, number 0; the timer has cleared the reason by then.      *)
Live(free) ==
    /\ IF free
       THEN Transmit([timestamp |-> Epoch, data |-> 0])
       ELSE UNCHANGED up
    /\ draining' = TRUE
    /\ UNCHANGED <<cursor, oldest>> /\ sent' = sent \cap Known

(* One snapshot of the ring, from the oldest on; when the oldest stamp is  *)
(* another one, from the start again.                                      *)
CursorAtKept == cursor
CursorAt == IF ring'[1].timestamp # oldest THEN 0 ELSE cursor

SendSnapshotAlways(free) ==
    IF CursorAt < Len(ring')
    THEN /\ IF free THEN Transmit(ring'[CursorAt + 1]) ELSE UNCHANGED up
         /\ cursor' = CursorAt + 1
         /\ sent' = (sent \cap Known) \cup (IF free THEN {ring'[CursorAt + 1].data} ELSE {})
    ELSE cursor' = CursorAt /\ sent' = sent \cap Known /\ UNCHANGED up
SendSnapshot(free) ==
    IF CursorAt < Len(ring') /\ free
    THEN /\ Transmit(ring'[CursorAt + 1])
         /\ cursor' = CursorAt + 1
         /\ sent' = (sent \cap Known) \cup {ring'[CursorAt + 1].data}
    ELSE cursor' = CursorAt /\ sent' = sent \cap Known /\ UNCHANGED up

Drain(free) ==
    /\ UNCHANGED draining
    /\ IF draining /\ ring' # <<>>
       THEN SendSnapshot(free) /\ oldest' = ring'[1].timestamp
       ELSE sent' = sent \cap Known /\ UNCHANGED <<cursor, oldest, up>>

Tick(k) ==
    /\ ~trimming.cut /\ trimming' = [trimming EXCEPT !.cut = trimming.on]
    /\ Submit(k)
    /\ IF k.changed \/ k.due THEN Live(k.free) ELSE Drain(k.free)
    /\ UNCHANGED <<now, clock, down, lastSync, faults>>

-----------------------------------------------------------------------------
(* The Sidewalk thread: TIME_SYNC sets the clock and computes what the     *)
(* trim keeps; the work queue may run before the new count is stored.      *)
Receive(t) ==
    /\ ~trimming.on
    /\ down' = down \ {t}
    /\ synced' = TRUE /\ lag' = now - t
    /\ \E n \in 0..Len(ring) :
          /\ Buffer!AckedPrefix(ring, t, n)
          /\ trimming' = IF n = 0 THEN Idle
                         ELSE [on |-> TRUE, cut |-> FALSE,
                               keep |-> SubSeq(ring, n + 1, Len(ring))]
    /\ UNCHANGED <<now, app, up, lastSync, events, faults, ghosts>>

StoreTrim ==
    /\ trimming.on /\ trimming' = Idle
    /\ ring' = trimming.keep /\ sent' = sent \cap IdsOf(ring')
    /\ UNCHANGED <<now, first, cursor, oldest, draining, clock, up, down, lastSync,
                   events, faults, clash>>

-----------------------------------------------------------------------------
(* The decode lambda.  It stores an uplink under the device's time and a   *)
(* hash of the payload, and does nothing for one that is already there; an *)
(* uplink sent before the first sync has the cloud's time and is new.      *)
NeedsSyncDaily(m) == now - lastSync >= SyncInterval
NeedsSync(m) == m.timestamp = 0 \/ now - lastSync >= SyncInterval

Decode(m, again, duplicate) ==
    /\ up' = IF again THEN up ELSE up \ {m}
    /\ faults' = IF again THEN faults + 1 ELSE faults
    /\ duplicate => m.timestamp > 0
    /\ IF ~duplicate /\ NeedsSync(m)
       THEN down' = down \cup {now} /\ lastSync' = now
       ELSE UNCHANGED <<down, lastSync>>
    /\ UNCHANGED <<now, app, clock, trimming, events, ghosts>>

-----------------------------------------------------------------------------
(* Time, and what goes wrong.                                              *)
Second ==
    /\ now < MaxNow /\ now' = now + 1
    /\ UNCHANGED <<app, clock, trimming, up, down, lastSync, events,
                   faults, ghosts>>

Lose ==
    /\ faults < MaxFaults /\ faults' = faults + 1
    /\ \/ \E m \in up : up' = up \ {m} /\ UNCHANGED down
       \/ \E t \in down : down' = down \ {t} /\ UNCHANGED up
    /\ UNCHANGED <<now, app, clock, trimming, lastSync, events, ghosts>>

(* app_init: all of the app's state is RAM.                                *)
Reboot ==
    /\ faults < MaxFaults /\ faults' = faults + 1 /\ events < MaxEvents
    /\ first' = TRUE /\ ring' = <<>>
    /\ cursor' = 0 /\ oldest' = 0 /\ draining' = FALSE
    /\ synced' = FALSE /\ lag' = 0 /\ trimming' = Idle
    /\ clash' = FALSE /\ sent' = {}
    /\ UNCHANGED <<now, up, down, lastSync, events>>

Next == \/ \E k \in Ticks : Tick(k)
        \/ \E t \in down : Receive(t)
        \/ StoreTrim
        \/ \E m \in up, again \in {FALSE, (faults < MaxFaults)}, duplicate \in BOOLEAN :
              Decode(m, again, duplicate)
        \/ Second \/ Lose \/ Reboot

(* The timer keeps ticking: again and again the uplink's heartbeat is due, *)
(* and again and again a tick without news finds the radio free; neither   *)
(* needs a record.  The network delivers what it does not lose.            *)
Quiet(due) == [changed |-> FALSE, news |-> FALSE, due |-> due, free |-> TRUE]
Fairness ==
    /\ SF_vars(Tick(Quiet(TRUE))) /\ SF_vars(Tick(Quiet(FALSE)))
    /\ WF_vars(\E m \in up : \E duplicate \in BOOLEAN : Decode(m, FALSE, duplicate))
    /\ WF_vars(\E t \in down : Receive(t))
    /\ WF_vars(StoreTrim)

Spec == Init /\ [][Next]_vars /\ Fairness

-----------------------------------------------------------------------------
TypeOK ==
    /\ now \in 1..MaxNow /\ lag \in 0..MaxNow /\ Buffer!TypeOK
    /\ cursor \in 0..Capacity /\ oldest \in Stamps
    /\ Cardinality(up) <= MaxUp /\ down \subseteq Stamps
    /\ sent \subseteq Ids /\ events \in 0..MaxEvents

(* The drain skips nothing: while the oldest entry is the one the cursor   *)
(* was counted from, each entry before the cursor has been sent, also when *)
(* a full ring or a preempted trim moved the entries.  The code knows the  *)
(* oldest entry by its stamp (app_entry.c:288-292), so this leaves out     *)
(* entries with the same stamp: two events of one second, and all that are *)
(* recorded before the first sync.  Those are stamped 0, and when a full   *)
(* ring of them overflows the code does skip some.                         *)
BehindCursorSent ==
    (ring # <<>> /\ ring[1].timestamp = oldest /\ oldest > 0 /\ ~clash) =>
        \A i \in 1..Len(ring) : i <= cursor => ring[i].data \in sent

(* A recorded event is eventually sent or leaves the buffer, unless two    *)
(* events shared a second.                                                 *)
Waiting(i) == i \notin sent /\ \E j \in 1..Len(ring) : ring[j].data = i
DrainCatchesUp == \A i \in Ids : Waiting(i) ~> (~Waiting(i) \/ clash)

(* PRD.md ("in response to the device's first uplink after boot"): a       *)
(* device that lost its clock gets it back, however recent the last sync.  *)
ClockRestored == []<>synced
=============================================================================
