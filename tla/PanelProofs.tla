---------------------------- MODULE PanelProofs -----------------------------
(***************************************************************************)
(* Proofs about Panel: types, the gestures that the button reads, the      *)
(* fault flags of the continuous self-test and what the LED shows.         *)
(***************************************************************************)
EXTENDS Panel, FiniteSetTheorems, TLAPS

-----------------------------------------------------------------------------
(* Ages, and sets of them.                                                 *)

(* The limits that ages are compared with.                                 *)
LEMMA Limits ==
    /\ Old \in Nat /\ Old > 0
    /\ PressCount \in Nat /\ PressCount > 1
    /\ PressWindow \in Nat /\ PressWindow < Old
    /\ SinglePress \in Nat /\ SinglePress > 0 /\ SinglePress <= PressWindow
    /\ LongPress \in Nat /\ LongPress > 0 /\ LongPress < Old
    /\ PilotTimeout \in Nat /\ PilotTimeout > 0 /\ PilotTimeout < Old
    /\ ChatterWindow \in Nat /\ ChatterWindow > 0 /\ ChatterWindow < Old
    /\ LinkTimeout \in Nat /\ LinkTimeout > 0 /\ LinkTimeout < Old
    /\ MaxToggles \in Nat /\ BufSize \in Nat /\ BufSize > MaxToggles
  BY ButtonAssumption, MonitorAssumption, PanelAssumption

(* An age grows by one until it is Old.                                    *)
LEMMA OlderFacts ==
    /\ \A a \in Ages : /\ Older(a) \in Ages /\ Older(a) > 0 /\ Older(a) >= a
                       /\ a < Old => Older(a) = a + 1
                       /\ a = Old => Older(a) = Old
    /\ Older(None) = None
    /\ None \notin Ages /\ 0 \in Ages
  BY Limits DEF Ages, Older, None

LEMMA OlderType == ASSUME NEW a \in Ages \cup {None} PROVE Older(a) \in Ages \cup {None}
  BY Limits DEF Ages, Older, None

(* Sets of ages are finite, and aging loses no more than it merges.        *)
LEMMA AgesFinite ==
    ASSUME NEW S \in SUBSET Ages
    PROVE  IsFiniteSet(S) /\ Cardinality(S) \in Nat
<1>1. IsFiniteSet(Ages)
  BY Limits, FS_Interval DEF Ages
<1>2. IsFiniteSet(S)
  BY <1>1, FS_Subset
<1> QED
  BY <1>2, FS_CardinalityType

LEMMA AgedSmaller ==
    ASSUME NEW S \in SUBSET Ages
    PROVE  /\ Aged(S) \in SUBSET Ages
           /\ Cardinality(Aged(S)) <= Cardinality(S)
<1> DEFINE f == [a \in S |-> Older(a)]
<1>1. f \in Surjection(S, Aged(S))
  BY DEF Surjection, Aged
<1>2. IsFiniteSet(S)
  BY AgesFinite
<1>3. Cardinality(Aged(S)) <= Cardinality(S)
  <2> HIDE DEF f
  <2> QED BY <1>1, <1>2, FS_Surjection
<1> QED
  BY <1>3, OlderFacts DEF Aged

(* Below Old aging merges nothing.                                         *)
LEMMA AgedSame ==
    ASSUME NEW S \in SUBSET (0..(Old - 1))
    PROVE  Cardinality(Aged(S)) = Cardinality(S)
<1> DEFINE f == [a \in S |-> Older(a)]
<1>1. f \in [S -> Aged(S)] /\ \A x \in Aged(S) : \E a \in S : f[a] = x
  BY DEF Aged
<1>2. \A a, b \in S : f[a] = f[b] => a = b
  BY Limits, OlderFacts DEF Ages
<1>3. f \in Bijection(S, Aged(S))
  <2> HIDE DEF f
  <2> QED BY <1>1, <1>2 DEF Bijection, Injection, IsInjective, Surjection
<1>4. IsFiniteSet(S)
  BY Limits, AgesFinite DEF Ages
<1> QED
  <2> HIDE DEF f
  <2> QED BY <1>3, <1>4, FS_Bijection DEF ExistsBijection

(* The younger elements of a set.                                          *)
LEMMA YoungerGrow ==
    ASSUME NEW S \in SUBSET Ages, NEW a \in S, NEW b \in S, a < b
    PROVE  Cardinality({c \in S : c < a}) < Cardinality({c \in S : c < b})
<1> DEFINE A == {c \in S : c < a}
           B == {c \in S : c < b}
<1>0. \A c \in S : c \in Int
  BY Limits DEF Ages
<1>1. A \subseteq B /\ a \in B /\ a \notin A
  <2>1. a \in Int /\ b \in Int
    BY <1>0
  <2>2. \A c \in S : c < a => c < b
    BY <1>0, <2>1
  <2>3. ~(a < a)
    BY <2>1
  <2> QED
    BY <2>2, <2>3
<1>2. IsFiniteSet(B) /\ Cardinality(A) \in Nat /\ Cardinality(B) \in Nat
  BY AgesFinite
<1>3. A \in SUBSET B /\ A # B
  BY <1>1
<1> HIDE DEF A, B
<1>4. Cardinality(A) <= Cardinality(B) /\ Cardinality(A) # Cardinality(B)
  BY <1>2, <1>3, FS_Subset
<1>5. Cardinality(A) < Cardinality(B)
  BY <1>2, <1>4
<1> QED
  BY <1>5 DEF A, B

LEMMA YoungerFit ==
    ASSUME NEW S \in SUBSET Ages, NEW a \in S
    PROVE  /\ Cardinality({b \in S : b < a}) \in Nat
           /\ Cardinality({b \in S : b < a}) < Cardinality(S)
<1> DEFINE A == {b \in S : b < a}
<1>1. A \in SUBSET S /\ A # S
  BY DEF Ages
<1>2. IsFiniteSet(S) /\ Cardinality(S) \in Nat /\ Cardinality(A) \in Nat
  BY AgesFinite
<1> HIDE DEF A
<1>3. Cardinality(A) < Cardinality(S)
  BY <1>1, <1>2, FS_Subset
<1> QED
  BY <1>2, <1>3 DEF A

(* No more than n are the n youngest.                                      *)
LEMMA YoungestFit ==
    ASSUME NEW S \in SUBSET Ages, NEW n \in Nat
    PROVE  /\ Youngest(n, S) \in SUBSET Ages
           /\ Cardinality(Youngest(n, S)) <= n
<1> DEFINE Y == Youngest(n, S)
           f == [a \in Y |-> Cardinality({b \in S : b < a})]
<1>1. Y \in SUBSET S
  BY DEF Youngest
<1>2. \A a \in Y : f[a] \in 0..(n - 1)
  <2> SUFFICES ASSUME NEW a \in Y PROVE f[a] \in 0..(n - 1)
    OBVIOUS
  <2>1. f[a] = Cardinality({b \in S : b < a}) /\ f[a] < n
    BY DEF Youngest
  <2>2. Cardinality({b \in S : b < a}) \in Nat
    BY <1>1, YoungerFit
  <2> QED
    BY <2>1, <2>2
<1>3. \A a, b \in Y : f[a] = f[b] => a = b
  <2> SUFFICES ASSUME NEW a \in Y, NEW b \in Y, a # b PROVE f[a] # f[b]
    OBVIOUS
  <2>0. \A c \in S : c \in Int
    BY Limits DEF Ages
  <2>1. a \in S /\ b \in S /\ a \in Int /\ b \in Int
    <3> HIDE DEF Y
    <3> QED BY <1>1, <2>0
  <2>2. f[a] \in Nat /\ f[b] \in Nat
    BY <2>1, YoungerFit
  <2>3. f[a] < f[b] \/ f[b] < f[a]
    <3>1. CASE a < b
      BY <3>1, <2>1, YoungerGrow
    <3>2. CASE b < a
      BY <3>2, <2>1, YoungerGrow
    <3> QED
      BY <3>1, <3>2, <2>1
  <2> HIDE DEF f
  <2> QED
    BY <2>2, <2>3
<1>4. f \in Injection(Y, 0..(n - 1))
  <2>1. f \in [Y -> 0..(n - 1)]
    BY <1>2
  <2> HIDE DEF f
  <2> QED
    BY <2>1, <1>3 DEF Injection, IsInjective
<1>5. IsFiniteSet(0..(n - 1)) /\ Cardinality(0..(n - 1)) = n
  <2>1. n - 1 \in Int /\ 0 \in Int
    OBVIOUS
  <2>2. /\ IsFiniteSet(0..(n - 1))
        /\ Cardinality(0..(n - 1)) = IF 0 > n - 1 THEN 0 ELSE (n - 1) - 0 + 1
    BY <2>1, FS_Interval
  <2> QED
    BY <2>2
<1> HIDE DEF f
<1>6. Cardinality(Y) <= n
  BY <1>4, <1>5, FS_Injection
<1> QED
  BY <1>1, <1>6

(* One too many: the one that goes has n younger ones, which stay.         *)
LEMMA YoungestDrops ==
    ASSUME NEW S \in SUBSET Ages, NEW n \in Nat, Cardinality(S) <= n + 1
    PROVE  \A a \in S \ Youngest(n, S) :
                  /\ {b \in S : b < a} \subseteq Youngest(n, S)
                  /\ Cardinality({b \in S : b < a}) >= n
<1> DEFINE below(x) == Cardinality({c \in S : c < x})
<1>1. \A a \in S : below(a) \in Nat /\ below(a) <= n
  BY YoungerFit, AgesFinite
<1>2. \A a, b \in S : a < b => below(a) < below(b)
  BY YoungerGrow
<1>3. Youngest(n, S) = {a \in S : below(a) < n}
  BY DEF Youngest
<1>4. \A a \in S \ Youngest(n, S) : below(a) = n
  <2> HIDE DEF below
  <2> QED BY <1>1, <1>3
<1>5. \A a \in S \ Youngest(n, S) : {b \in S : b < a} \subseteq Youngest(n, S)
  <2> HIDE DEF below
  <2> QED BY <1>1, <1>2, <1>3
<1> QED
  BY <1>4, <1>5

-----------------------------------------------------------------------------
(* Types.                                                                  *)

(* What the observations are.                                              *)
GhostOK ==
    /\ ghost = [edges |-> ghost.edges, lone |-> ghost.lone, down |-> ghost.down,
                meant |-> ghost.meant, blind |-> ghost.blind, history |-> ghost.history,
                badFor |-> ghost.badFor, calmFor |-> ghost.calmFor,
                downFor |-> ghost.downFor, quietFor |-> ghost.quietFor,
                errorFor |-> ghost.errorFor]
    /\ ghost.edges \in SUBSET (0..PressWindow) /\ ghost.history \in SUBSET (0..ChatterWindow)
    /\ ghost.lone \in BOOLEAN /\ ghost.blind \in BOOLEAN
    /\ ghost.down \in Ages \cup {None}
    /\ ghost.badFor \in Ages /\ ghost.calmFor \in Ages /\ ghost.downFor \in Ages
    /\ ghost.quietFor \in Ages /\ ghost.errorFor \in Ages

LEMMA InputTypes ==
    ASSUME NEW in \in Inputs
    PROVE  /\ in.pressed \in BOOLEAN /\ in.ends \in BOOLEAN /\ in.cool \in BOOLEAN
           /\ in.allowed \in BOOLEAN /\ in.ready \in BOOLEAN /\ in.sent \in BOOLEAN
  BY DEF Inputs

LEMMA EmptyFits == Cardinality({}) = 0 /\ {} \in SUBSET Ages
  BY FS_EmptySet

(* Blinks fit, whatever number of checks passes.                           *)
LEMMA BlinkTicksFit ==
    ASSUME NEW passed \in 0..Checks
    PROVE  /\ BlinkTicks(passed) \in 0..(2 * Checks + BlinkPause + 1)
           /\ BlinkTicks(passed) > 0
  BY ButtonAssumption DEF BlinkTicks

LEMMA ButtonTypes ==
    ASSUME ButtonTypeOK, NEW pressed \in BOOLEAN, NEW ends \in BOOLEAN,
           TriggerTick(pressed), Latch(ends)
    PROVE  ButtonTypeOK'
<1>1. latched' \in BOOLEAN
  BY DEF Latch
<1>2. /\ Aged(presses) \in SUBSET Ages
      /\ Cardinality(Aged(presses)) < PressCount
  BY AgedSmaller, AgesFinite, Limits DEF ButtonTypeOK
<1>3. WithPress \in SUBSET Ages
  BY <1>2, OlderFacts DEF WithPress, Recent
<1>4. Older(single) \in Ages \cup {None} /\ Older(hold) \in Ages \cup {None}
  BY OlderType DEF ButtonTypeOK
<1>5. presses' \in SUBSET Ages /\ Cardinality(presses') < PressCount
  <2>1. \/ presses' \in {{}, Aged(presses)}
        \/ presses' = WithPress /\ Cardinality(WithPress) < PressCount
    BY DEF TriggerTick, PollButton, LastPress, Press, Held, Released, DriveBlinks
  <2> QED
    BY <2>1, <1>2, <1>3, EmptyFits, Limits
<1>6. /\ single' \in Ages \cup {None} /\ hold' \in Ages \cup {None}
      /\ fired' \in BOOLEAN /\ wasPressed' \in BOOLEAN
      /\ did' \in {"nothing", "activate", "hold", "selftest"}
  <2> DEFINE Stamps == Ages \cup {None}
  <2>1. 0 \in Stamps /\ None \in Stamps
    BY OlderFacts
  <2>2. /\ Older(single) \in Stamps /\ Older(hold) \in Stamps
        /\ fired \in BOOLEAN /\ wasPressed \in BOOLEAN
    BY <1>4 DEF ButtonTypeOK
  <2> HIDE DEF Stamps
  <2>3. single' \in Stamps /\ hold' \in Stamps
    BY <2>1, <2>2 DEF TriggerTick, PollButton, LastPress, Press, Held, Released,
                      DriveBlinks, TrackHold
  <2>4. fired' \in BOOLEAN /\ wasPressed' \in BOOLEAN
    BY <2>2 DEF TriggerTick, PollButton, LastPress, Press, Held, Released,
                DriveBlinks, TrackHold
  <2>5. did' \in {"nothing", "activate", "hold", "selftest"}
    BY DEF TriggerTick, PollButton, LastPress, Press, Held, Released, DriveBlinks,
           StartSelftest
  <2> QED
    BY <2>3, <2>4, <2>5 DEF Stamps
<1>7. /\ blink' \in 0..(2 * Checks + BlinkPause + 1)
      /\ sendPending' \in BOOLEAN /\ selftestFault' \in BOOLEAN
  <2>1. CASE LastPress(pressed)
    <3>1. PICK passed \in 0..Checks : StartSelftest(passed)
      BY <2>1 DEF LastPress
    <3>2. blink' \in 0..(2 * Checks + BlinkPause + 1)
      BY <3>1, BlinkTicksFit DEF StartSelftest
    <3>3. (passed < Checks) \in BOOLEAN
      OBVIOUS
    <3> QED
      BY <3>1, <3>2, <3>3 DEF StartSelftest
  <2>2. CASE DriveBlinks
    <3>1. blink' \in 0..(2 * Checks + BlinkPause + 1)
      BY <2>2, ButtonAssumption DEF DriveBlinks, ButtonTypeOK
    <3>2. sendPending' \in BOOLEAN /\ selftestFault' \in BOOLEAN
      BY <2>2 DEF DriveBlinks, ButtonTypeOK
    <3> QED
      BY <3>1, <3>2
  <2>3. CASE UNCHANGED <<blink, sendPending, selftestFault>>
    BY <2>3 DEF ButtonTypeOK
  <2> QED
    BY <2>1, <2>2, <2>3 DEF TriggerTick, PollButton, Press, Held, Released
<1> QED
  BY <1>1, <1>5, <1>6, <1>7 DEF ButtonTypeOK

(* The ring holds at most BufSize toggles and the new one.                 *)
LEMMA RingInput ==
    ASSUME MonitorTypeOK, NEW cool
    PROVE  LET new == IF cool = coolWas THEN {} ELSE {0}
           IN  /\ Aged(toggles) \cup new \in SUBSET Ages
               /\ Cardinality(Aged(toggles) \cup new) <= BufSize + 1
               /\ new = {} => Cardinality(Aged(toggles)) <= BufSize
<1>1. /\ Aged(toggles) \in SUBSET Ages
      /\ Cardinality(Aged(toggles)) <= BufSize
  BY AgedSmaller, AgesFinite, Limits DEF MonitorTypeOK
<1>2. IsFiniteSet(Aged(toggles)) /\ Cardinality(Aged(toggles)) \in Nat
  BY <1>1, AgesFinite
<1>3. Cardinality(Aged(toggles) \cup {0}) <= BufSize + 1
  BY <1>1, <1>2, FS_AddElement, Limits
<1>4. Cardinality(Aged(toggles) \cup {}) <= BufSize + 1
  <2>1. Aged(toggles) \cup {} = Aged(toggles)
    OBVIOUS
  <2> QED
    BY <2>1, <1>1, <1>2, Limits
<1> QED
  BY <1>1, <1>3, <1>4, OlderFacts

LEMMA WatchType ==
    ASSUME NEW since \in Ages \cup {None}, NEW holds
    PROVE  Watch(since, holds) \in Ages \cup {None}
  BY OlderType, OlderFacts DEF Watch

LEMMA MonitorTypes ==
    ASSUME MonitorTypeOK, NEW pilot, NEW cool \in BOOLEAN, ContinuousTick(pilot, cool)
    PROVE  MonitorTypeOK'
<1>1. clampBad' \in Ages \cup {None} /\ pilotBad' \in Ages \cup {None}
  BY WatchType DEF MonitorTypeOK, ContinuousTick
<1>2. toggles' \in SUBSET Ages /\ Cardinality(toggles') <= BufSize
  BY RingInput, YoungestFit, Limits DEF ContinuousTick, NewToggles, Ring
<1>3. coolWas' \in BOOLEAN /\ sensorFault' \in BOOLEAN /\ clampFault' \in BOOLEAN
  BY DEF ContinuousTick
<1> QED
  BY <1>1, <1>2, <1>3 DEF MonitorTypeOK

(* The LED shows one of the conditions.                                    *)
Shown == {"error", "commission", "disconnected", "charge_now", "ac_priority", "charging", "idle"}

LEMMA PriorityType ==
    ASSUME NEW in
    PROVE  /\ Priority(in) \in Shown
           /\ Faulty \/ linkError' => Priority(in) = "error"
<1> DEFINE c == Conditions(in)
           First(i) == c[i].holds /\ \A j \in 1..(i - 1) : ~c[j].holds
<1>1. \A i \in 1..7 : c[i].name \in Shown
  BY DEF Conditions, Shown
<1>2. c[7].holds
  BY DEF Conditions
<1>3. \E i \in 1..7 : First(i)
  <2> HIDE DEF c
  <2> QED BY <1>2
<1>4. c[1].name = "error" /\ (Faulty \/ linkError' => c[1].holds)
  BY DEF Conditions
<1>5. c[1].holds => \A i \in 1..7 : First(i) => i = 1
  <2> HIDE DEF c
  <2> QED OBVIOUS
<1>6. PICK i \in 1..7 : First(i) /\ Priority(in) = c[i].name
  <2> HIDE DEF c
  <2>1. Priority(in) = c[CHOOSE i \in 1..7 : First(i)].name
    BY DEF Priority, c
  <2> QED BY <1>3, <2>1
<1> HIDE DEF c, First
<1> QED
  BY <1>1, <1>4, <1>5, <1>6

LEMMA LedTypes ==
    ASSUME TypeOK, NEW in \in Inputs, TimerJob(in)
    PROVE  /\ showing' \in Shown \cup {"result", "ack"}
           /\ ack' \in 0..AckSteps
           /\ commissioning' \in BOOLEAN /\ uplinkSent' \in BOOLEAN /\ linkError' \in BOOLEAN
           /\ uptime' \in Ages /\ adcFails' \in 0..ErrorThreshold
           /\ linkTimer' \in Ages \cup {None}
<1>1. showing' \in Shown \cup {"result", "ack"}
  BY PriorityType DEF TimerJob, LedYields, LedAcknowledges, LedShows
<1>2. ack' \in 0..AckSteps
  BY PanelAssumption DEF TypeOK, TimerJob, AckAfter, AckLeft
<1>3. commissioning' \in BOOLEAN /\ uplinkSent' \in BOOLEAN /\ linkError' \in BOOLEAN
  BY InputTypes DEF TypeOK, TimerJob, LedYields, LedAcknowledges, LedShows, TrackLink,
                    StillCommissioning
<1>4. uptime' \in Ages
  BY OlderFacts DEF TypeOK, TimerJob
<1>5. adcFails' \in 0..ErrorThreshold
  BY PanelAssumption DEF TypeOK, TimerJob, ReportAdc
<1>6. linkTimer' \in Ages \cup {None}
  <2>1. /\ Older(linkTimer) \in Ages \cup {None}
        /\ 0 \in Ages /\ None \in {None}
    BY OlderType, OlderFacts DEF TypeOK
  <2> QED
    BY <2>1 DEF TimerJob, LedYields, LedAcknowledges, LedShows, TrackLink
<1> QED
  BY <1>1, <1>2, <1>3, <1>4, <1>5, <1>6

LEMMA CountFacts ==
    ASSUME NEW n \in Ages, NEW holds
    PROVE  /\ Count(n, holds) \in Ages
           /\ holds => Count(n, holds) = Older(n) /\ Count(n, holds) > 0
           /\ ~holds => Count(n, holds) = 0
  BY Limits DEF Count, Ages, Older, None

(* What a job observes.                                                    *)
LEMMA Observed ==
    ASSUME NEW in, Observe(in)
    PROVE  /\ ghost' = [edges |-> ghost'.edges, lone |-> ghost'.lone, down |-> ghost'.down,
                        meant |-> ghost'.meant, blind |-> ghost'.blind,
                        history |-> ghost'.history,
                        badFor |-> ghost'.badFor, calmFor |-> ghost'.calmFor,
                        downFor |-> ghost'.downFor, quietFor |-> ghost'.quietFor,
                        errorFor |-> ghost'.errorFor]
           /\ ghost'.edges = IF did' = "nothing" THEN Edges(in) ELSE {}
           /\ ghost'.lone = (Lone(in) /\ did' = "nothing")
           /\ ghost'.down = DownFor(in)
           /\ ghost'.meant = IF blink > 0 \/ ghost.blind THEN did' ELSE Meant(in)
           /\ ghost'.blind = (blink > 0 \/ (ghost.blind /\ in.pressed))
           /\ ghost'.history = History(in)
           /\ ghost'.badFor = Count(ghost.badFor, in.pilot = "unknown")
           /\ ghost'.calmFor = Count(ghost.calmFor, Cardinality(History(in)) <= MaxToggles)
           /\ ghost'.downFor = Count(ghost.downFor, ~in.ready)
           /\ ghost'.quietFor = Count(ghost.quietFor, blink = 0)
           /\ ghost'.errorFor = Count(ghost.errorFor, Faulty \/ linkError')
  BY DEF Observe

LEMMA WindowAges ==
    /\ 0..PressWindow \subseteq Ages /\ 0..ChatterWindow \subseteq Ages
    /\ 0..PressWindow \subseteq 0..(Old - 1) /\ 0..ChatterWindow \subseteq 0..(Old - 1)
    /\ \A a \in Ages : a <= PressWindow <=> a \in 0..PressWindow
    /\ \A a \in Ages : a <= ChatterWindow <=> a \in 0..ChatterWindow
  BY Limits DEF Ages

LEMMA GhostTypes ==
    ASSUME GhostOK, NEW in \in Inputs, Observe(in)
    PROVE  GhostOK'
<1>1. ghost'.edges \in SUBSET (0..PressWindow)
  <2>1. Aged(ghost.edges) \in SUBSET Ages
    BY AgedSmaller, WindowAges DEF GhostOK
  <2>2. Edges(in) \in SUBSET (0..PressWindow)
    BY <2>1, WindowAges, OlderFacts DEF Edges
  <2> QED
    BY <2>2, Observed
<1>2. ghost'.history \in SUBSET (0..ChatterWindow)
  <2>1. Aged(ghost.history) \in SUBSET Ages
    BY AgedSmaller, WindowAges DEF GhostOK
  <2>2. History(in) \in SUBSET (0..ChatterWindow)
    BY <2>1, WindowAges, OlderFacts DEF History
  <2> QED
    BY <2>2, Observed
<1>3. ghost'.lone \in BOOLEAN /\ ghost'.blind \in BOOLEAN
  BY Observed DEF GhostOK
<1>4. ghost'.down \in Ages \cup {None}
  BY Observed, OlderType, OlderFacts DEF GhostOK, DownFor
<1>5. /\ ghost'.badFor \in Ages /\ ghost'.calmFor \in Ages /\ ghost'.downFor \in Ages
      /\ ghost'.quietFor \in Ages /\ ghost'.errorFor \in Ages
  BY Observed, CountFacts DEF GhostOK
<1> QED
  BY <1>1, <1>2, <1>3, <1>4, <1>5, Observed DEF GhostOK

TypeInv == TypeOK /\ GhostOK

LEMMA TypeInit == Init => TypeInv
<1> SUFFICES ASSUME Init PROVE TypeInv
  OBVIOUS
<1>1. ButtonTypeOK
  <2>1. blink \in 0..(2 * Checks + BlinkPause + 1)
    BY ButtonAssumption DEF Init, ButtonInit
  <2>2. presses \subseteq Ages /\ Cardinality(presses) < PressCount
    BY EmptyFits, Limits DEF Init, ButtonInit
  <2> QED
    BY <2>1, <2>2 DEF Init, ButtonInit, ButtonTypeOK
<1>2. MonitorTypeOK
  <2>1. toggles \subseteq Ages /\ Cardinality(toggles) <= BufSize
    BY EmptyFits, Limits DEF Init, MonitorInit
  <2> QED
    BY <2>1 DEF Init, MonitorInit, MonitorTypeOK
<1>3. GhostOK
  BY Limits, OlderFacts DEF Init, NoGhost, GhostOK, Ages
<1>4. ack \in 0..AckSteps /\ adcFails \in 0..ErrorThreshold /\ uptime \in Ages
  BY PanelAssumption, Limits DEF Init, Ages
<1> QED
  BY <1>1, <1>2, <1>3, <1>4 DEF Init, TypeInv, TypeOK

LEMMA TypeStep == TypeInv /\ [Next]_vars => TypeInv'
<1> SUFFICES ASSUME TypeInv, [Next]_vars PROVE TypeInv'
  OBVIOUS
<1>1. CASE UNCHANGED vars
  BY <1>1 DEF vars, button, monitor, led, TypeInv, TypeOK, ButtonTypeOK, MonitorTypeOK, GhostOK
<1>2. CASE Next
  <2>1. PICK in \in Inputs : TimerJob(in)
    BY <1>2 DEF Next
  <2>2. ButtonTypeOK'
    BY <2>1, ButtonTypes, InputTypes DEF TypeInv, TypeOK, TimerJob
  <2>3. MonitorTypeOK'
    BY <2>1, MonitorTypes, InputTypes DEF TypeInv, TypeOK, TimerJob
  <2>4. GhostOK'
    BY <2>1, GhostTypes DEF TypeInv, TimerJob
  <2> QED
    BY <2>1, <2>2, <2>3, <2>4, LedTypes DEF TypeInv, TypeOK, TimerJob, Shown
<1> QED
  BY <1>1, <1>2

LEMMA TypeInvCorrect == Spec => []TypeInv
  BY TypeInit, TypeStep, PTL DEF Spec

(* Every variable keeps its type, whatever the limits are: the stamps of   *)
(* presses stay short of the count that would overrun press_times, those   *)
(* of toggles inside their ring, and a result's blinks inside their ticks. *)
THEOREM TypeCorrect == Spec => []TypeOK
<1>1. TypeInv => TypeOK
  BY DEF TypeInv
<1> QED
  BY <1>1, TypeInvCorrect, PTL

-----------------------------------------------------------------------------
(* The button.                                                             *)

(* A result blinks, or the button was not seen up since one did.           *)
Blinded == blink > 0 \/ ghost.blind

(* While Blinded nothing of a gesture is kept.  Else the stamps inside the *)
(* window are the presses that were made, a single press is pending while  *)
(* the last press was alone, its stamp is that press (or has left the      *)
(* window), and the hold is timed from the edge that began it.             *)
GestureInv ==
    IF Blinded
    THEN /\ wasPressed /\ presses = {} /\ single = None
         /\ ghost.edges = {} /\ ~ghost.lone
    ELSE /\ {a \in presses : a <= PressWindow} = ghost.edges
         /\ ghost.lone <=> single # None
         /\ ghost.lone => ghost.edges = {a \in {single} : a <= PressWindow}
         /\ IF wasPressed THEN /\ hold = ghost.down /\ hold # None
                               /\ fired <=> hold >= LongPress
            ELSE ghost.down = None

LEMMA IdlePolls == blink = 0 => ~DriveBlinks
  BY DEF DriveBlinks

(* What has left the window does not come back.                            *)
LEMMA AgedInWindow ==
    ASSUME NEW S \in SUBSET Ages, NEW limit \in 0..(Old - 1)
    PROVE  {a \in Aged(S) : a <= limit} = {a \in Aged({b \in S : b <= limit}) : a <= limit}
<1>1. \A b \in S : Older(b) <= limit => b <= limit
  BY OlderFacts, Limits DEF Ages
<1> QED
  BY <1>1 DEF Aged

LEMMA AgedSingle == \A a : Aged({a}) = {Older(a)}
  BY DEF Aged

LEMMA AgedEmpty == Aged({}) = {}
  BY DEF Aged

(* The stamps that a press finds are the presses that were made.           *)
LEMMA StampsAreEdges ==
    ASSUME TypeInv, GestureInv, ~Blinded
    PROVE  Recent = {a \in Aged(ghost.edges) : a <= PressWindow}
<1>1. PressWindow \in 0..(Old - 1)
  BY Limits
<1>2. presses \in SUBSET Ages
  BY DEF TypeInv, TypeOK, ButtonTypeOK
<1>3. ghost.edges = {b \in presses : b <= PressWindow}
  BY DEF GestureInv
<1>4. {a \in Aged(presses) : a <= PressWindow}
          = {a \in Aged({b \in presses : b <= PressWindow}) : a <= PressWindow}
  BY <1>1, <1>2, AgedInWindow
<1> QED
  BY <1>3, <1>4 DEF Recent

LEMMA PressEdges ==
    ASSUME TypeInv, GestureInv, ~Blinded, NEW in, Pressed(in)
    PROVE  WithPress = Edges(in)
  BY StampsAreEdges, Limits DEF WithPress, Edges

(* So does the lone press that is pending, until it leaves the window.     *)
LEMMA SingleAges ==
    ASSUME TypeInv, GestureInv, ~Blinded, ghost.lone
    PROVE  /\ single \in Ages
           /\ {a \in Aged(ghost.edges) : a <= PressWindow}
                 = {a \in {Older(single)} : a <= PressWindow}
<1>1. single \in Ages
  BY DEF GestureInv, TypeInv, TypeOK, ButtonTypeOK
<1>2. {single} \in SUBSET Ages /\ PressWindow \in 0..(Old - 1)
  BY <1>1, Limits
<1>3. {a \in Aged({single}) : a <= PressWindow}
          = {a \in Aged({b \in {single} : b <= PressWindow}) : a <= PressWindow}
  BY <1>2, AgedInWindow
<1> QED
  BY <1>1, <1>3, AgedSingle DEF GestureInv

(* A press: the stamps are the edges, so both count the same.              *)
LEMMA PressRead ==
    ASSUME TypeInv, GestureInv, NEW in \in Inputs, TriggerTick(in.pressed), Observe(in),
           blink = 0, Rising(in.pressed)
    PROVE  GestureInv' /\ did' = ghost'.meant
<1>1. ~Blinded
  BY DEF GestureInv, Rising, Blinded
<1>2. Pressed(in) /\ in.pressed /\ ~wasPressed
  BY DEF Pressed, Rising
<1>3. WithPress = Edges(in)
  BY <1>1, <1>2, PressEdges
<1>4. DownFor(in) = 0
  BY <1>1, <1>2 DEF GestureInv, DownFor
<1>5. Lone(in) <=> Cardinality(WithPress) = 1
  BY <1>2, <1>3 DEF Lone
<1>6. ghost'.blind = FALSE
  BY <1>1, Observed DEF Blinded
<1>7. ghost'.meant = IF Cardinality(WithPress) >= PressCount THEN "selftest" ELSE "nothing"
  BY <1>1, <1>2, <1>3, <1>4, Observed, Limits DEF Meant, Blinded
<1>8. /\ wasPressed' = TRUE
      /\ LastPress(in.pressed) \/ Press(in.pressed)
  <2>1. in.pressed = TRUE
    BY <1>2, InputTypes
  <2> QED
    BY <1>2, <2>1, IdlePolls DEF TriggerTick, PollButton, Held, Released
<1>9. CASE LastPress(in.pressed)
  <2>1. PICK passed \in 0..Checks : StartSelftest(passed)
    BY <1>9 DEF LastPress
  <2>2. blink' > 0 /\ did' = "selftest"
    BY <2>1, BlinkTicksFit DEF StartSelftest
  <2>3. presses' = {} /\ single' = None /\ Cardinality(WithPress) >= PressCount
    BY <1>9 DEF LastPress
  <2>4. ghost'.edges = {} /\ ghost'.lone = FALSE
    BY <2>2, Observed
  <2> QED
    BY <1>7, <1>8, <2>2, <2>3, <2>4 DEF GestureInv, Blinded
<1>10. CASE Press(in.pressed)
  <2>1. /\ presses' = WithPress /\ did' = "nothing" /\ blink' = 0
        /\ single' = IF Cardinality(WithPress) = 1 THEN 0 ELSE None
        /\ hold' = 0 /\ fired' = FALSE
        /\ Cardinality(WithPress) < PressCount
    BY <1>10 DEF Press, TrackHold
  <2>2. ghost'.edges = WithPress /\ (ghost'.lone <=> Cardinality(WithPress) = 1)
        /\ ghost'.down = 0
    BY <2>1, <1>3, <1>4, <1>5, Observed
  <2>3. ~Blinded'
    BY <2>1, <1>6 DEF Blinded
  <2>4. WithPress \in SUBSET Ages /\ WithPress = {a \in WithPress : a <= PressWindow}
    BY <1>3, WindowAges, AgedSmaller, OlderFacts, Limits DEF WithPress, Recent, TypeInv,
       TypeOK, ButtonTypeOK
  <2>5. Cardinality(WithPress) = 1 => WithPress = {a \in {0} : a <= PressWindow}
    <3>1. ASSUME Cardinality(WithPress) = 1 PROVE WithPress = {0}
      <4>1. IsFiniteSet(WithPress)
        BY <2>4, AgesFinite
      <4>2. \E x : WithPress = {x}
        BY <3>1, <4>1, FS_Singleton
      <4> QED
        BY <4>2 DEF WithPress
    <3> QED
      BY <3>1, Limits
  <2>6. Cardinality(WithPress) \in Nat
    BY <2>4, AgesFinite
  <2>7. did' = ghost'.meant
    BY <1>7, <2>1, <2>6, Limits
  <2>8. {a \in presses' : a <= PressWindow} = ghost'.edges
    BY <2>1, <2>2, <2>4
  <2>9. /\ ghost'.lone <=> single' # None
        /\ ghost'.lone => ghost'.edges = {a \in {single'} : a <= PressWindow}
    BY <2>1, <2>2, <2>5, OlderFacts
  <2>10. hold' = ghost'.down /\ hold' # None /\ (fired' <=> hold' >= LongPress)
    BY <2>1, <2>2, Limits, OlderFacts
  <2> QED
    BY <1>8, <2>3, <2>7, <2>8, <2>9, <2>10 DEF GestureInv
<1> QED
  BY <1>8, <1>9, <1>10

(* The button stays down: the hold counts, a long press once.              *)
LEMMA HoldRead ==
    ASSUME TypeInv, GestureInv, NEW in \in Inputs, TriggerTick(in.pressed), Observe(in),
           blink = 0, in.pressed, wasPressed
    PROVE  /\ GestureInv'
           /\ ~Blinded => did' = ghost'.meant
<1>1. Held(in.pressed) /\ wasPressed' = in.pressed /\ ~Pressed(in)
  BY IdlePolls DEF TriggerTick, PollButton, LastPress, Press, Released, Pressed, Rising
<1>2. /\ hold' = Older(hold) /\ blink' = 0 /\ ghost'.blind = ghost.blind
      /\ wasPressed' = TRUE
  <2>1. in.pressed = TRUE /\ ghost.blind \in BOOLEAN
    BY InputTypes DEF TypeInv, GhostOK
  <2> QED
    BY <1>1, <2>1, Observed DEF Held
<1>3. /\ Edges(in) = {a \in Aged(ghost.edges) : a <= PressWindow}
      /\ Lone(in) = ghost.lone
  BY <1>1 DEF Edges, Lone
<1>4. CASE Blinded
  <2>1. /\ presses = {} /\ single = None /\ ghost.edges = {} /\ ~ghost.lone /\ ghost.blind
    BY <1>4 DEF GestureInv, Blinded
  <2>2. presses' = {} /\ single' = None
    BY <1>1, <2>1, AgedEmpty, OlderFacts DEF Held
  <2>3. ghost'.edges = {} /\ ~ghost'.lone /\ ghost'.blind
    BY <1>2, <1>3, <2>1, AgedEmpty, Observed
  <2> QED
    BY <1>2, <1>4, <2>2, <2>3 DEF GestureInv, Blinded
<1>5. CASE ~Blinded
  <2>1. /\ hold = ghost.down /\ hold \in Ages /\ (fired <=> hold >= LongPress)
        /\ fired \in BOOLEAN /\ ~Blinded'
    BY <1>2, <1>5 DEF GestureInv, Blinded, TypeInv, TypeOK, ButtonTypeOK
  <2>2. DownFor(in) = Older(hold) /\ Older(hold) \in Ages
    BY <2>1, OlderFacts DEF DownFor
  <2>3. Meant(in) = IF DownFor(in) = LongPress THEN "hold" ELSE "nothing"
    BY <1>1 DEF Meant
  <2>4. /\ Older(hold) >= LongPress /\ ~fired <=> Older(hold) = LongPress
        /\ fired => Older(hold) >= LongPress
    BY <2>1, OlderFacts, Limits DEF Ages
  <2>5. Reached(hold', LongPress) <=> Older(hold) >= LongPress
    BY <1>2, <2>2, OlderFacts DEF Reached
  <2>6. did' = Meant(in)
    BY <1>1, <2>2, <2>3, <2>4, <2>5 DEF Held
  <2>7. did' = ghost'.meant
    BY <1>5, <2>6, Observed DEF Blinded
  <2>8. hold' = ghost'.down /\ hold' # None /\ (fired' <=> hold' >= LongPress)
    <3>1. fired' <=> (Older(hold) >= LongPress)
      BY <1>1, <2>4, <2>5 DEF Held
    <3> QED
      BY <3>1, <1>2, <2>2, OlderFacts, Observed
  <2>9. CASE did' = "hold"
    <3>1. presses' = {} /\ single' = None
      BY <1>1, <2>9 DEF Held
    <3>2. ghost'.edges = {} /\ ~ghost'.lone
      BY <2>9, Observed
    <3> QED
      BY <1>2, <2>1, <2>7, <2>8, <3>1, <3>2 DEF GestureInv
  <2>10. CASE did' # "hold"
    <3>1. presses' = Aged(presses) /\ single' = Older(single) /\ did' = "nothing"
      BY <1>1, <2>10 DEF Held
    <3>2. ghost'.edges = Edges(in) /\ (ghost'.lone <=> ghost.lone)
      BY <1>3, <3>1, Observed DEF TypeInv, GhostOK
    <3>3. {a \in presses' : a <= PressWindow} = ghost'.edges
      BY <1>3, <1>5, <3>1, <3>2, StampsAreEdges DEF Recent
    <3>4. ghost'.lone <=> single' # None
      BY <1>5, <3>1, <3>2, OlderFacts DEF GestureInv, TypeInv, TypeOK, ButtonTypeOK
    <3>5. ghost'.lone => ghost'.edges = {a \in {single'} : a <= PressWindow}
      BY <1>3, <1>5, <3>1, <3>2, SingleAges
    <3> QED
      BY <1>2, <2>1, <2>7, <2>8, <3>3, <3>4, <3>5 DEF GestureInv
  <2> QED
    BY <2>9, <2>10
<1> QED
  BY <1>4, <1>5

(* The button is up: a single press that is over is read when the stamps   *)
(* say so, which is when the press itself is old enough.                   *)
LEMMA ReleaseRead ==
    ASSUME TypeInv, GestureInv, NEW in \in Inputs, TriggerTick(in.pressed), Observe(in),
           blink = 0, ~in.pressed
    PROVE  /\ GestureInv'
           /\ ~Blinded => did' = ghost'.meant
<1>1. Released(in.pressed) /\ wasPressed' = in.pressed /\ ~Pressed(in)
  BY IdlePolls DEF TriggerTick, PollButton, LastPress, Press, Held, Pressed, Rising
<1>2. /\ blink' = 0 /\ ghost'.blind = FALSE /\ wasPressed' = FALSE
      /\ DownFor(in) = None /\ ghost'.down = None
  <2>1. in.pressed = FALSE
    BY InputTypes
  <2>2. ghost'.blind = FALSE
    <3>1. ~(blink > 0)
      OBVIOUS
    <3>2. ghost'.blind = (blink > 0 \/ (ghost.blind /\ in.pressed))
      BY Observed
    <3> QED
      BY <2>1, <3>1, <3>2
  <2> QED
    BY <1>1, <2>1, <2>2, Observed DEF Released, DownFor
<1>3. ~Blinded'
  BY <1>2 DEF Blinded
<1>4. /\ Edges(in) = {a \in Aged(ghost.edges) : a <= PressWindow}
      /\ Lone(in) = ghost.lone
  BY <1>1 DEF Edges, Lone
<1>5. CASE Blinded
  <2>1. /\ presses = {} /\ single = None /\ ghost.edges = {} /\ ~ghost.lone
    BY <1>5 DEF GestureInv
  <2>2. presses' = {} /\ single' = None
    BY <1>1, <2>1, AgedEmpty, OlderFacts DEF Released, Reached
  <2>3. ghost'.edges = {} /\ ~ghost'.lone
    BY <1>4, <2>1, AgedEmpty, Observed
  <2> QED
    BY <1>2, <1>3, <1>5, <2>2, <2>3 DEF GestureInv
<1>6. CASE ~Blinded
  <2>1. Meant(in) = IF ghost.lone /\ \A a \in Edges(in) : a >= SinglePress
                    THEN "activate" ELSE "nothing"
    <3>1. DownFor(in) # LongPress
      BY <1>2, Limits DEF None
    <3> QED
      BY <1>1, <1>4, <3>1 DEF Meant
  <2>2. Reached(Older(single), SinglePress)
            <=> ghost.lone /\ \A a \in Edges(in) : a >= SinglePress
    <3>1. CASE ghost.lone
      <4>1. single \in Ages /\ Edges(in) = {a \in {Older(single)} : a <= PressWindow}
        BY <1>4, <1>6, <3>1, SingleAges
      <4>2. Older(single) \in Nat /\ Older(single) # None
        BY <4>1, OlderFacts DEF Ages
      <4>3. Reached(Older(single), SinglePress) <=> Older(single) >= SinglePress
        BY <4>2 DEF Reached
      <4>4. Older(single) >= SinglePress <=> \A a \in Edges(in) : a >= SinglePress
        BY <4>1, <4>2, Limits
      <4> QED
        BY <3>1, <4>3, <4>4
    <3>2. CASE ~ghost.lone
      <4>1. single = None
        BY <1>6, <3>2 DEF GestureInv
      <4> QED
        BY <3>2, <4>1, OlderFacts DEF Reached
    <3> QED
      BY <3>1, <3>2
  <2>3. did' = Meant(in)
    BY <1>1, <2>1, <2>2 DEF Released
  <2>4. did' = ghost'.meant
    BY <1>6, <2>3, Observed DEF Blinded
  <2>5. CASE did' = "activate"
    <3>1. presses' = {} /\ single' = None
      BY <1>1, <2>5 DEF Released
    <3>2. ghost'.edges = {} /\ ~ghost'.lone
      BY <2>5, Observed
    <3> QED
      BY <1>2, <1>3, <2>4, <3>1, <3>2 DEF GestureInv
  <2>6. CASE did' # "activate"
    <3>1. presses' = Aged(presses) /\ single' = Older(single) /\ did' = "nothing"
      BY <1>1, <2>6 DEF Released
    <3>2. ghost'.edges = Edges(in) /\ (ghost'.lone <=> ghost.lone)
      BY <1>4, <3>1, Observed DEF TypeInv, GhostOK
    <3>3. {a \in presses' : a <= PressWindow} = ghost'.edges
      BY <1>4, <1>6, <3>1, <3>2, StampsAreEdges DEF Recent
    <3>4. ghost'.lone <=> single' # None
      BY <1>6, <3>1, <3>2, OlderFacts DEF GestureInv, TypeInv, TypeOK, ButtonTypeOK
    <3>5. ghost'.lone => ghost'.edges = {a \in {single'} : a <= PressWindow}
      BY <1>4, <1>6, <3>1, <3>2, SingleAges
    <3> QED
      BY <1>2, <1>3, <2>4, <3>3, <3>4, <3>5 DEF GestureInv
  <2> QED
    BY <2>5, <2>6
<1> QED
  BY <1>5, <1>6

(* A result blinks: nothing is read.                                       *)
LEMMA BlinkRead ==
    ASSUME TypeInv, GestureInv, NEW in \in Inputs, TriggerTick(in.pressed), Observe(in),
           blink # 0
    PROVE  GestureInv'
<1>1. blink > 0 /\ ~Pressed(in) /\ ghost'.blind
  <2>1. blink > 0
    BY ButtonAssumption DEF TypeInv, TypeOK, ButtonTypeOK
  <2> QED
    BY <2>1, Observed DEF Pressed
<1>2. DriveBlinks
  BY DEF TriggerTick, PollButton, LastPress, Press, Held, Released
<1>3. /\ wasPressed /\ presses = {} /\ single = None /\ ghost.edges = {} /\ ~ghost.lone
  BY <1>1 DEF GestureInv, Blinded
<1>4. wasPressed' /\ presses' = {} /\ single' = None /\ did' = "nothing"
  BY <1>2, <1>3, AgedEmpty, OlderFacts DEF DriveBlinks
<1>5. ghost'.edges = {} /\ ~ghost'.lone
  BY <1>1, <1>3, AgedEmpty, Observed DEF Edges, Lone
<1> QED
  BY <1>1, <1>4, <1>5 DEF GestureInv, Blinded

(* What a job takes the button for is what it was meant for.               *)
LEMMA GestureStep ==
    ASSUME TypeInv, GestureInv, NEW in \in Inputs, TimerJob(in)
    PROVE  GestureInv' /\ ReadsGestures'
<1>1. TriggerTick(in.pressed) /\ Observe(in)
  BY DEF TimerJob
<1>2. Blinded => did' = ghost'.meant
  BY <1>1, Observed DEF Blinded
<1>3. CASE blink # 0
  <2>1. Blinded
    BY <1>3, ButtonAssumption DEF TypeInv, TypeOK, ButtonTypeOK, Blinded
  <2> QED
    BY <1>1, <1>2, <1>3, <2>1, BlinkRead DEF ReadsGestures
<1>4. CASE blink = 0 /\ Rising(in.pressed)
  BY <1>1, <1>4, PressRead DEF ReadsGestures
<1>5. CASE blink = 0 /\ in.pressed /\ wasPressed
  BY <1>1, <1>2, <1>5, HoldRead DEF ReadsGestures
<1>6. CASE blink = 0 /\ ~in.pressed
  BY <1>1, <1>2, <1>6, ReleaseRead DEF ReadsGestures
<1> QED
  BY <1>3, <1>4, <1>5, <1>6 DEF Rising

GesturesKept == TypeInv /\ GestureInv /\ ReadsGestures

LEMMA GesturesInit == Init => GestureInv /\ ReadsGestures
<1> SUFFICES ASSUME Init PROVE GestureInv /\ ReadsGestures
  OBVIOUS
<1>1. /\ ~Blinded /\ presses = {} /\ ghost.edges = {} /\ ~ghost.lone /\ single = None
      /\ ~wasPressed /\ ghost.down = None /\ did = ghost.meant
  BY DEF Init, ButtonInit, NoGhost, Blinded
<1> QED
  BY <1>1 DEF GestureInv, ReadsGestures

LEMMA GesturesStep == GesturesKept /\ TypeInv' /\ [Next]_vars => GesturesKept'
<1> SUFFICES ASSUME GesturesKept, TypeInv', [Next]_vars PROVE GesturesKept'
  OBVIOUS
<1>1. CASE UNCHANGED vars
  <2>1. GestureInv'
    BY <1>1 DEF vars, button, GesturesKept, GestureInv, Blinded
  <2>2. ReadsGestures'
    BY <1>1 DEF vars, button, GesturesKept, ReadsGestures
  <2> QED
    BY <2>1, <2>2 DEF GesturesKept
<1>2. CASE Next
  BY <1>2, GestureStep DEF Next, GesturesKept
<1> QED
  BY <1>1, <1>2

(* The button's flags, stamps and pending press find exactly the gestures  *)
(* that were made, for every count, window and time limit, as long as a    *)
(* single press is over before its window is.                              *)
THEOREM ReadsGesturesCorrect == Spec => []ReadsGestures
<1>1. Init => GesturesKept
  BY TypeInit, GesturesInit DEF GesturesKept
<1>2. GesturesKept => ReadsGestures
  BY DEF GesturesKept
<1> QED
  BY <1>1, <1>2, GesturesStep, TypeInvCorrect, PTL DEF Spec

-----------------------------------------------------------------------------
(* The continuous self-test.                                               *)

(* A toggle of the window that the ring has lost was pushed out by BufSize *)
(* younger ones, which are more than chatter takes; the watch of the pilot *)
(* counts the jobs that could not read it.                                 *)
RingInv ==
    /\ {a \in toggles : a <= ChatterWindow} \subseteq ghost.history
    /\ \A a \in ghost.history \ toggles : Cardinality({t \in toggles : t < a}) >= BufSize

PilotInv == ghost.badFor = IF pilotBad = None THEN 0 ELSE Older(pilotBad)

(* A larger set of ages counts for more.                                   *)
LEMMA AgesCount ==
    ASSUME NEW S \in SUBSET Ages, NEW T \in SUBSET S
    PROVE  Cardinality(T) <= Cardinality(S)
  BY AgesFinite, FS_Subset

LEMMA RingStep ==
    ASSUME TypeInv, RingInv, NEW in, ContinuousTick(in.pilot, in.cool), Observe(in), MonitorTypeOK'
    PROVE  RingInv'
<1> DEFINE new == IF in.cool = coolWas THEN {} ELSE {0}
           N == Aged(toggles) \cup new
<1>1. /\ toggles' = Youngest(BufSize, N)
      /\ ghost'.history = {a \in Aged(ghost.history) \cup new : a <= ChatterWindow}
  BY Observed DEF ContinuousTick, NewToggles, Ring, History
<1>2. /\ N \in SUBSET Ages /\ Cardinality(N) <= BufSize + 1 /\ toggles' \in SUBSET N
  <2>1. N \in SUBSET Ages /\ Cardinality(N) <= BufSize + 1
    BY RingInput DEF TypeInv, TypeOK
  <2> QED
    BY <1>1, <2>1 DEF Youngest
<1>3. toggles \in SUBSET Ages /\ ghost.history \in SUBSET (0..ChatterWindow)
  BY DEF TypeInv, TypeOK, MonitorTypeOK, GhostOK
<1>4. ASSUME NEW x \in N \ toggles'
      PROVE  /\ {c \in N : c < x} \subseteq toggles'
             /\ Cardinality({c \in N : c < x}) >= BufSize
  BY <1>1, <1>2, YoungestDrops, Limits
<1>5. {a \in toggles' : a <= ChatterWindow} \subseteq ghost'.history
  <2> SUFFICES ASSUME NEW a \in toggles', a <= ChatterWindow PROVE a \in ghost'.history
    OBVIOUS
  <2>1. CASE a \in new
    BY <2>1, <1>1
  <2>2. CASE a \in Aged(toggles)
    <3>1. PICK b \in toggles : a = Older(b)
      BY <2>2 DEF Aged
    <3>2. b \in Ages /\ b <= ChatterWindow
      BY <3>1, <1>3, OlderFacts, Limits DEF Ages
    <3>3. b \in ghost.history
      BY <3>2 DEF RingInv
    <3> QED
      BY <3>1, <3>3, <1>1 DEF Aged
  <2> QED
    BY <1>2, <2>1, <2>2
<1>6. ASSUME NEW a \in ghost'.history \ toggles'
      PROVE  Cardinality({t \in toggles' : t < a}) >= BufSize
  <2> DEFINE Y == {t \in toggles' : t < a}
  <2>0. Y \in SUBSET Ages /\ Cardinality(Y) \in Nat /\ a \in Int
    <3>1. Y \in SUBSET Ages
      BY <1>2
    <3>2. a \in Ages
      BY <1>1, <1>3, OlderFacts, WindowAges DEF Aged
    <3> QED
      BY <3>1, <3>2, AgesFinite, Limits DEF Ages
  <2>1. ASSUME NEW x \in N \ toggles', x <= a
        PROVE  Cardinality(Y) >= BufSize
    <3>1. /\ {c \in N : c < x} \subseteq toggles'
          /\ Cardinality({c \in N : c < x}) >= BufSize
      BY <2>1, <1>4
    <3>2. {c \in N : c < x} \in SUBSET Y
      BY <3>1, <2>0, <2>1, <1>2, Limits DEF Ages
    <3>3. Cardinality({c \in N : c < x}) <= Cardinality(Y)
      BY <3>2, <2>0, AgesCount
    <3>4. Cardinality({c \in N : c < x}) \in Nat
      BY <1>2, AgesFinite
    <3> QED
      BY <3>1, <3>3, <3>4, <2>0, Limits
  <2>2. CASE a \in N
    BY <2>1, <2>2, <2>0
  <2>3. CASE a \notin N
    <3>1. PICK b \in ghost.history : a = Older(b)
      BY <2>3, <1>1 DEF Aged
    <3>2. b \notin toggles
      BY <2>3, <3>1 DEF Aged
    <3>3. b \in Nat /\ b < Old /\ a = b + 1
      BY <3>1, <1>3, OlderFacts, Limits DEF Ages
    <3> DEFINE T == {t \in toggles : t < b}
    <3>4. T \in SUBSET (0..(Old - 1)) /\ Cardinality(T) >= BufSize
      <4>1. Cardinality(T) >= BufSize
        BY <3>2 DEF RingInv
      <4>2. \A t \in Ages : t < b => t \in 0..(Old - 1)
        BY <3>3, Limits DEF Ages
      <4> QED
        BY <4>1, <4>2, <1>3
    <3>5. Cardinality(Aged(T)) >= BufSize
      BY <3>4, AgedSame
    <3>6. Aged(T) \in SUBSET N /\ \A x \in Aged(T) : x < a
      BY <3>3, <3>4, <1>3, OlderFacts, Limits DEF Aged, Ages
    <3>7. CASE Aged(T) \subseteq toggles'
      <4>1. Aged(T) \in SUBSET Y
        BY <3>6, <3>7
      <4>2. Cardinality(Aged(T)) <= Cardinality(Y)
        BY <4>1, <2>0, AgesCount
      <4>3. Cardinality(Aged(T)) \in Nat
        BY <3>6, <1>2, AgesFinite
      <4> QED
        BY <3>5, <4>2, <4>3, <2>0, Limits
    <3>8. CASE ~(Aged(T) \subseteq toggles')
      <4>1. PICK x \in Aged(T) : x \notin toggles'
        BY <3>8
      <4>2. x \in N \ toggles' /\ x < a
        BY <4>1, <3>6
      <4>3. x \in Int
        BY <4>2, <1>2, Limits DEF Ages
      <4> QED
        BY <4>2, <4>3, <2>0, <2>1
    <3> QED
      BY <3>7, <3>8
  <2> QED
    BY <2>2, <2>3
<1> QED
  BY <1>5, <1>6 DEF RingInv

(* So the ring chatters when the thermostat does.                          *)
LEMMA ChatterSeen ==
    ASSUME TypeInv, RingInv
    PROVE  Chatters(toggles) <=> Cardinality(ghost.history) > MaxToggles
<1> DEFINE K == {a \in toggles : a <= ChatterWindow}
<1>1. /\ K \in SUBSET ghost.history /\ ghost.history \in SUBSET Ages
      /\ toggles \in SUBSET Ages
  BY WindowAges DEF RingInv, TypeInv, TypeOK, MonitorTypeOK, GhostOK
<1>2. /\ Cardinality(K) \in Nat /\ Cardinality(ghost.history) \in Nat
      /\ Cardinality(K) <= Cardinality(ghost.history)
  BY <1>1, AgesFinite, AgesCount
<1>3. CASE ghost.history \subseteq toggles
  <2>1. ghost.history = K
    BY <1>1, <1>3, Limits DEF TypeInv, GhostOK
  <2> QED
    BY <2>1 DEF Chatters
<1>4. CASE ~(ghost.history \subseteq toggles)
  <2>1. PICK a \in ghost.history : a \notin toggles
    BY <1>4
  <2> DEFINE Y == {t \in toggles : t < a}
  <2>2. Cardinality(Y) >= BufSize
    BY <2>1 DEF RingInv
  <2>3. Y \in SUBSET K
    BY <1>1, <2>1, Limits DEF TypeInv, GhostOK, Ages
  <2>4. Cardinality(Y) \in Nat /\ Cardinality(Y) <= Cardinality(K)
    BY <2>3, <1>1, AgesFinite, AgesCount
  <2>5. Cardinality(K) > MaxToggles /\ Cardinality(ghost.history) > MaxToggles
    <3> HIDE DEF K, Y
    <3> QED BY <2>2, <2>4, <1>2, Limits
  <2> QED
    BY <2>5 DEF Chatters
<1> QED
  BY <1>3, <1>4

FaultsKept == TypeInv /\ RingInv /\ PilotInv /\ FaultsExact

LEMMA FaultsInit == Init => RingInv /\ PilotInv /\ FaultsExact
<1> SUFFICES ASSUME Init PROVE RingInv /\ PilotInv /\ FaultsExact
  OBVIOUS
<1>1. /\ toggles = {} /\ ghost.history = {} /\ pilotBad = None /\ ghost.badFor = 0
      /\ sensorFault = FALSE
  BY DEF Init, MonitorInit, NoGhost
<1>2. Cardinality({}) = 0
  BY EmptyFits
<1> QED
  BY <1>1, <1>2, Limits DEF RingInv, PilotInv, FaultsExact

(* The watch of the pilot and the count of unreadable jobs go together.    *)
LEMMA PilotStep ==
    ASSUME TypeInv, PilotInv, NEW in, ContinuousTick(in.pilot, in.cool), Observe(in)
    PROVE  /\ PilotInv'
           /\ pilotBad' # None <=> in.pilot = "unknown"
           /\ pilotBad' # None => pilotBad' \in Ages
           /\ pilotBad' # None /\ pilotBad' >= PilotTimeout <=> ghost'.badFor > PilotTimeout
<1>1. /\ pilotBad' = Watch(pilotBad, in.pilot = "unknown")
      /\ ghost'.badFor = Count(ghost.badFor, in.pilot = "unknown")
  BY Observed DEF ContinuousTick
<1>2. pilotBad \in Ages \cup {None} /\ ghost.badFor \in Ages
  BY DEF TypeInv, TypeOK, MonitorTypeOK, GhostOK
<1>3. /\ in.pilot = "unknown" => /\ ghost'.badFor = Older(ghost.badFor)
                                 /\ pilotBad' = IF pilotBad = None THEN 0 ELSE Older(pilotBad)
      /\ in.pilot # "unknown" => ghost'.badFor = 0 /\ pilotBad' = None
  BY <1>1, <1>2, CountFacts DEF Watch
<1>4. CASE in.pilot = "unknown"
  <2>1. pilotBad' \in Ages /\ pilotBad' # None
    BY <1>2, <1>3, <1>4, OlderFacts
  <2>2. ghost'.badFor = Older(pilotBad')
    BY <1>2, <1>3, <1>4, OlderFacts DEF PilotInv
  <2>3. pilotBad' >= PilotTimeout <=> Older(pilotBad') > PilotTimeout
    BY <2>1, OlderFacts, Limits DEF Ages
  <2> QED
    BY <1>4, <2>1, <2>2, <2>3 DEF PilotInv
<1>5. CASE in.pilot # "unknown"
  BY <1>3, <1>5, Limits DEF PilotInv
<1> QED
  BY <1>4, <1>5

LEMMA FaultStep ==
    ASSUME FaultsKept, NEW in \in Inputs, TimerJob(in), TypeInv'
    PROVE  FaultsKept'
<1>1. ContinuousTick(in.pilot, in.cool) /\ Observe(in) /\ TypeInv /\ MonitorTypeOK'
  BY DEF TimerJob, FaultsKept, TypeInv, TypeOK
<1>2. RingInv' /\ PilotInv'
  BY <1>1, RingStep, PilotStep DEF FaultsKept
<1>3. Chatters(toggles') <=> Cardinality(ghost'.history) > MaxToggles
  <2>1. TypeInv' /\ RingInv' => (Chatters(toggles) <=> Cardinality(ghost.history) > MaxToggles)'
    BY ChatterSeen, PTL
  <2>2. Chatters(toggles)' <=> Chatters(toggles')
    BY DEF Chatters
  <2> QED
    BY <1>2, <2>1, <2>2
<1>4. /\ sensorFault' <=> \/ pilotBad' # None /\ (sensorFault \/ pilotBad' >= PilotTimeout)
                          \/ Chatters(toggles')
      /\ pilotBad' # None <=> in.pilot = "unknown"
      /\ pilotBad' # None /\ pilotBad' >= PilotTimeout <=> ghost'.badFor > PilotTimeout
  BY <1>1, PilotStep DEF ContinuousTick, FaultsKept
<1>5. ghost.badFor \in Ages /\ ghost.calmFor \in Ages
  BY <1>1 DEF TypeInv, GhostOK
<1>6. ghost'.calmFor \in Ages /\ ghost'.badFor \in Ages
  BY DEF TypeInv, GhostOK
<1>7. /\ ghost'.calmFor = Count(ghost.calmFor, Cardinality(ghost'.history) <= MaxToggles)
      /\ ghost'.badFor = Count(ghost.badFor, in.pilot = "unknown")
  BY <1>1, Observed
<1>8. Cardinality(ghost'.history) \in Nat
  BY AgesFinite, WindowAges DEF TypeInv, GhostOK
<1>9. CASE Chatters(toggles')
  <2>1. ghost'.calmFor = 0
    <3>1. ~(Cardinality(ghost'.history) <= MaxToggles)
      BY <1>3, <1>8, <1>9, Limits
    <3> QED
      BY <3>1, <1>5, <1>7, CountFacts
  <2>2. sensorFault' /\ ghost'.calmFor <= ghost'.badFor
    BY <1>4, <1>6, <1>9, <2>1 DEF Ages
  <2> QED
    BY <1>1, <1>2, <2>2 DEF FaultsKept, FaultsExact
<1>10. CASE ~Chatters(toggles') /\ ghost'.badFor > PilotTimeout
  BY <1>2, <1>3, <1>4, <1>10 DEF FaultsKept, FaultsExact
<1>11. CASE ~Chatters(toggles') /\ ~(ghost'.badFor > PilotTimeout)
  <2>1. sensorFault' => in.pilot = "unknown" /\ sensorFault
    BY <1>4, <1>11
  <2>2. ASSUME in.pilot = "unknown", sensorFault PROVE ghost'.calmFor <= ghost'.badFor
    <3>1. ghost'.badFor = Older(ghost.badFor)
      BY <1>5, <1>7, <2>2, CountFacts
    <3>2. ghost.badFor > PilotTimeout \/ ghost.calmFor <= ghost.badFor
      BY <2>2 DEF FaultsKept, FaultsExact
    <3>3. ~(ghost.badFor > PilotTimeout)
      BY <1>5, <1>11, <3>1, OlderFacts, Limits DEF Ages
    <3>4. ghost'.calmFor \in {0, Older(ghost.calmFor)}
      BY <1>5, <1>7, CountFacts
    <3> QED
      BY <1>5, <1>6, <3>1, <3>2, <3>3, <3>4, OlderFacts, Limits DEF Ages
  <2> QED
    BY <1>2, <1>3, <1>11, <2>1, <2>2 DEF FaultsKept, FaultsExact
<1> QED
  BY <1>9, <1>10, <1>11

LEMMA FaultsStep == FaultsKept /\ TypeInv' /\ [Next]_vars => FaultsKept'
<1> SUFFICES ASSUME FaultsKept, TypeInv', [Next]_vars PROVE FaultsKept'
  OBVIOUS
<1>1. CASE UNCHANGED vars
  <2>1. RingInv' /\ PilotInv'
    BY <1>1 DEF vars, monitor, FaultsKept, RingInv, PilotInv
  <2>2. FaultsExact'
    BY <1>1 DEF vars, monitor, FaultsKept, FaultsExact
  <2> QED
    BY <2>1, <2>2 DEF FaultsKept
<1>2. CASE Next
  BY <1>2, FaultStep DEF Next
<1> QED
  BY <1>1, <1>2

(* The ring may forget toggles, yet FAULT_SENSOR follows its two causes    *)
(* exactly, for every window, timeout and size of the ring that exceeds    *)
(* the toggles allowed.                                                    *)
THEOREM FaultsExactCorrect == Spec => []FaultsExact
<1>1. Init => FaultsKept
  BY TypeInit, FaultsInit DEF FaultsKept
<1>2. FaultsKept => FaultsExact
  BY DEF FaultsKept
<1> QED
  BY <1>1, <1>2, FaultsStep, TypeInvCorrect, PTL DEF Spec

-----------------------------------------------------------------------------
(* The LED.                                                                *)

(* While Sidewalk is down and the LED is not busy with a result, its timer *)
(* is at least as old as the shorter of the two times.                     *)
LinkInv ==
    ghost.downFor > 0 /\ ghost.quietFor > 0 /\ ~linkError =>
        /\ linkTimer \in 0..(LinkTimeout - 1)
        /\ linkTimer >= ghost.downFor - 1 \/ linkTimer >= ghost.quietFor - 1

(* An acknowledgement that takes a whole job starts with no error to show  *)
(* and is over before a result can hold it up.                             *)
AckInv == ack >= LedTicks => blink = 0 /\ ghost.errorFor = 0

NoticeKept == TypeInv /\ LinkInv /\ AckInv /\ NoticeShown

LEMMA NoticeInit == Init => LinkInv /\ AckInv /\ NoticeShown
<1> SUFFICES ASSUME Init PROVE LinkInv /\ AckInv /\ NoticeShown
  OBVIOUS
<1>1. /\ ghost.downFor = 0 /\ ghost.errorFor = 0 /\ ack = 0 /\ ~linkError
  BY DEF Init, NoGhost
<1> QED
  BY <1>1, PanelAssumption DEF LinkInv, AckInv, NoticeShown

(* Only a button that is read acknowledges.                                *)
LEMMA AckFresh ==
    ASSUME NEW pressed, TriggerTick(pressed), did' = "activate"
    PROVE  blink = 0 /\ blink' = 0
  BY DEF TriggerTick, PollButton, LastPress, Press, Held, Released, DriveBlinks, StartSelftest

LEMMA AckStep ==
    ASSUME TypeInv, AckInv, NEW in \in Inputs, TimerJob(in)
    PROVE  AckInv'
<1>1. /\ TriggerTick(in.pressed) /\ Observe(in)
      /\ ack' = IF did' = "activate" /\ ~(Faulty \/ linkError') THEN AckSteps ELSE AckLeft
  BY DEF TimerJob, AckAfter
<1>2. /\ ack \in Nat /\ ack < 2 * LedTicks /\ LedTicks \in Nat \ {0} /\ AckSteps \in Nat
      /\ blink \in Nat
  BY PanelAssumption, ButtonAssumption DEF TypeInv, TypeOK, ButtonTypeOK
<1>3. CASE did' = "activate" /\ ~(Faulty \/ linkError')
  <2>1. ghost'.errorFor = 0
    BY <1>1, <1>3, Observed, CountFacts DEF TypeInv, GhostOK
  <2> QED
    BY <1>1, <1>3, <2>1, AckFresh DEF AckInv
<1>4. CASE ~(did' = "activate" /\ ~(Faulty \/ linkError'))
  <2>1. AckLeft < LedTicks
    BY <1>2 DEF AckLeft, AckInv
  <2>2. ack' = AckLeft
    BY <1>1, <1>4
  <2>3. ~(ack' >= LedTicks)
    <3>1. AckLeft \in Nat
      BY <1>2 DEF AckLeft
    <3> QED
      BY <1>2, <2>1, <2>2, <3>1
  <2> QED
    BY <2>3 DEF AckInv
<1> QED
  BY <1>3, <1>4

LEMMA LinkStep ==
    ASSUME TypeInv, LinkInv, NEW in \in Inputs, TimerJob(in)
    PROVE  /\ LinkInv'
           /\ linkError' /\ showing' # "result" => ghost'.downFor > 0
<1>1. /\ ghost.downFor \in Ages /\ ghost.quietFor \in Ages
      /\ linkTimer \in Ages \cup {None} /\ linkError \in BOOLEAN
      /\ in.ready \in BOOLEAN
  BY InputTypes DEF TypeInv, TypeOK, GhostOK
<1>2. /\ ghost'.downFor = Count(ghost.downFor, ~in.ready)
      /\ ghost'.quietFor = Count(ghost.quietFor, blink = 0)
  BY Observed DEF TimerJob
<1>3. CASE LedYields
  <2>1. ~(blink = 0) /\ showing' = "result"
    BY <1>3 DEF LedYields
  <2>2. ghost'.quietFor = 0
    BY <1>1, <1>2, <2>1, CountFacts
  <2> QED
    BY <2>1, <2>2 DEF LinkInv
<1>4. CASE TrackLink(in.ready) /\ blink = 0
  <2> DEFINE timer == IF ~linkError /\ linkTimer = None /\ ~in.ready THEN 0 ELSE Older(linkTimer)
             error == linkError \/ (~in.ready /\ Reached(timer, LinkTimeout))
  <2>1. /\ linkError' = (error /\ ~in.ready)
        /\ linkTimer' = IF error /\ in.ready THEN None ELSE timer
    BY <1>4 DEF TrackLink
  <2>2. ghost'.quietFor = Older(ghost.quietFor) /\ ghost'.quietFor > 0
    BY <1>1, <1>2, <1>4, CountFacts
  <2>3. CASE in.ready
    <3>1. ghost'.downFor = 0
      BY <1>1, <1>2, <2>3, CountFacts
    <3>2. ~linkError'
      BY <2>1, <2>3
    <3> QED
      BY <3>1, <3>2 DEF LinkInv
  <2>4. CASE ~in.ready
    <3>1. ghost'.downFor = Older(ghost.downFor) /\ ghost'.downFor > 0
      BY <1>1, <1>2, <2>4, CountFacts
    <3>2. SUFFICES ASSUME ~linkError'
                   PROVE  /\ linkTimer' \in 0..(LinkTimeout - 1)
                          /\ \/ linkTimer' >= ghost'.downFor - 1
                             \/ linkTimer' >= ghost'.quietFor - 1
      BY <3>1 DEF LinkInv
    <3>3. ~linkError /\ ~Reached(timer, LinkTimeout) /\ linkTimer' = timer
      BY <2>1, <2>4, <3>2
    <3>4. CASE linkTimer = None
      <4>1. linkTimer' = 0
        BY <2>4, <3>3, <3>4
      <4>2. ghost.downFor = 0 \/ ghost.quietFor = 0
        BY <1>1, <3>3, <3>4, Limits DEF LinkInv, Ages, None
      <4>3. ghost'.downFor = 1 \/ ghost'.quietFor = 1
        BY <4>2, <2>2, <3>1, OlderFacts, Limits
      <4> QED
        BY <4>1, <4>3, Limits
    <3>5. CASE linkTimer # None
      <4>1. linkTimer \in Ages /\ linkTimer' = Older(linkTimer)
        BY <1>1, <3>3, <3>5
      <4>2. linkTimer' \in 0..(LinkTimeout - 1)
        BY <3>3, <4>1, OlderFacts, Limits DEF Reached, Ages
      <4>3. linkTimer' = linkTimer + 1
        BY <4>1, <4>2, OlderFacts, Limits DEF Ages
      <4>4. CASE ghost.downFor > 0 /\ ghost.quietFor > 0
        <5>1. linkTimer >= ghost.downFor - 1 \/ linkTimer >= ghost.quietFor - 1
          BY <3>3, <4>4 DEF LinkInv
        <5>2. /\ ghost'.downFor <= ghost.downFor + 1
              /\ ghost'.quietFor <= ghost.quietFor + 1
          BY <1>1, <2>2, <3>1, OlderFacts, Limits DEF Ages
        <5>3. /\ ghost.downFor \in Int /\ ghost.quietFor \in Int /\ linkTimer \in Int
              /\ ghost'.downFor \in Int /\ ghost'.quietFor \in Int
          BY <1>1, <2>2, <3>1, <4>1, OlderFacts, Limits DEF Ages
        <5> QED
          BY <4>2, <4>3, <5>1, <5>2, <5>3
      <4>5. CASE ~(ghost.downFor > 0 /\ ghost.quietFor > 0)
        <5>1. ghost.downFor = 0 \/ ghost.quietFor = 0
          BY <1>1, <4>5, Limits DEF Ages
        <5>2. ghost'.downFor = 1 \/ ghost'.quietFor = 1
          BY <5>1, <2>2, <3>1, OlderFacts, Limits
        <5> QED
          BY <4>2, <5>2
      <4> QED
        BY <4>4, <4>5
    <3> QED
      BY <3>4, <3>5
  <2> QED
    BY <2>3, <2>4
<1> QED
  BY <1>3, <1>4 DEF TimerJob, LedAcknowledges, LedShows

LEMMA NoticeJob ==
    ASSUME NoticeKept, NEW in \in Inputs, TimerJob(in), TypeInv'
    PROVE  NoticeKept'
<1>1. AckInv' /\ LinkInv'
  BY AckStep, LinkStep DEF NoticeKept
<1>2. ghost'.errorFor > 1 => showing' \in {"error", "result"}
  <2> SUFFICES ASSUME ghost'.errorFor > 1 PROVE showing' \in {"error", "result"}
    OBVIOUS
  <2>1. /\ ghost.errorFor \in Ages
        /\ ghost'.errorFor = Count(ghost.errorFor, Faulty \/ linkError')
    BY Observed DEF NoticeKept, TypeInv, GhostOK, TimerJob
  <2>2. (Faulty \/ linkError') /\ ghost'.errorFor = Older(ghost.errorFor)
    <3> DEFINE wrong == Faulty \/ linkError'
    <3>1. ghost'.errorFor # 0
      OBVIOUS
    <3> HIDE DEF wrong
    <3>2. wrong
      BY <2>1, <3>1, CountFacts DEF wrong
    <3>3. ghost'.errorFor = Older(ghost.errorFor)
      BY <2>1, <3>2, CountFacts DEF wrong
    <3> QED
      BY <3>2, <3>3 DEF wrong
  <2>3. ghost.errorFor # 0
    BY <2>2, OlderFacts, Limits
  <2>4. ~(ack >= LedTicks)
    BY <2>3 DEF NoticeKept, AckInv
  <2>5. LedYields \/ LedShows(in)
    BY <2>4 DEF TimerJob, LedAcknowledges
  <2> QED
    BY <2>2, <2>5, PriorityType DEF LedYields, LedShows
<1>3. ghost'.downFor > LinkTimeout /\ ghost'.quietFor > LinkTimeout => linkError'
  <2>1. ghost'.downFor \in Int /\ ghost'.quietFor \in Int
    BY Limits DEF TypeInv, GhostOK, Ages
  <2> QED
    BY <1>1, <2>1, Limits DEF LinkInv
<1>4. linkError' /\ showing' # "result" => ghost'.downFor > 0
  BY LinkStep DEF NoticeKept
<1> QED
  BY <1>1, <1>2, <1>3, <1>4 DEF NoticeKept, NoticeShown

LEMMA NoticeStep == NoticeKept /\ TypeInv' /\ [Next]_vars => NoticeKept'
<1> SUFFICES ASSUME NoticeKept, TypeInv', [Next]_vars PROVE NoticeKept'
  OBVIOUS
<1>1. CASE UNCHANGED vars
  <2>1. LinkInv' /\ AckInv'
    BY <1>1 DEF vars, button, led, NoticeKept, LinkInv, AckInv
  <2>2. NoticeShown'
    BY <1>1 DEF vars, led, NoticeKept, NoticeShown
  <2> QED
    BY <2>1, <2>2 DEF NoticeKept
<1>2. CASE Next
  BY <1>2, NoticeJob DEF Next
<1> QED
  BY <1>1, <1>2

(* What is wrong is shown in time, for every timeout and threshold, as     *)
(* long as an acknowledgement takes less than two jobs.                    *)
THEOREM NoticeShownCorrect == Spec => []NoticeShown
<1>1. Init => NoticeKept
  BY TypeInit, NoticeInit DEF NoticeKept
<1>2. NoticeKept => NoticeShown
  BY DEF NoticeKept
<1> QED
  BY <1>1, <1>2, NoticeStep, TypeInvCorrect, PTL DEF Spec
=============================================================================
