-------------------------- MODULE OtaSessionProofs --------------------------
(***************************************************************************)
(* What an update can never do, whichever messages are lost, repeated,     *)
(* late or mixed between sessions, and for every number of chunks, images, *)
(* uploads, retries and troubles: it installs nothing but a whole image,   *)
(* and mixes no fields of two sessions that did not overlap; and when it   *)
(* is over, the cloud's baseline is what the device runs.                  *)
(*                                                                         *)
(* The argument: an invocation sets the fields of its copy of the session, *)
(* so what is true of the item is stated of every copy as well (Kept), and *)
(* copies of one session have the same fields (Alike); and the device      *)
(* checks what it has assembled against the image it was promised, which   *)
(* stays what it was until the apply (Assembled).                          *)
(*                                                                         *)
(* The baseline needs the session as a whole: without the troubles that    *)
(* confuse it, one message is under way, and at each stage of the session  *)
(* that message, the device and the item fit together (StepInv); and every *)
(* retry and restart was paid for by a trouble (Tries, Paid), so that none *)
(* runs out between the apply and its COMPLETE.                            *)
(***************************************************************************)
EXTENDS OtaSession, FiniteSetTheorems, TLAPS

Statuses == {"none", "starting", "sending", "validating", "restarting", "retrying"}
SessionRecord ==
    [present : BOOLEAN, image : Images \cup {NoImage}, status : Statuses,
     total : Nat, next : Nat, retries : 0..MaxRetries, restarts : 0..MaxRestarts,
     seen : BOOLEAN, highest : Nat, delta : BOOLEAN, list : SUBSET (0..(Chunks - 1)), cursor : Nat]

(* A session, or a copy of it: it names an image or is blank, and unless   *)
(* an upload came before the end of another, h, its fields fit.            *)
Fit(s) == \/ s.delta /\ s.total = Cardinality(s.list) /\ s.total < Chunks
          \/ ~s.delta /\ s.total = Chunks
Kept(s, h) ==
    /\ s \in SessionRecord
    /\ s.present => s.image \in Images
    /\ ~s.present => s = NoSession
    /\ s.present /\ "supersede" \notin h => Fit(s)

Downlink(m) ==
    /\ m.kind \in {"START", "CHUNK", "ABORT"}
    /\ m.kind = "START" => m.image \in Images /\ m.total \in Nat

(* Unless an upload came before the end of another, the item and all the   *)
(* copies of it are of one session: a delta, or none.                      *)
Kin(x, y) == x.present /\ y.present => x.delta = y.delta
Copies    == {session} \cup {i.s : i \in BagToSet(running)}
Alike     == "supersede" \in happened \/ \A x, y \in Copies : Kin(x, y)
Copy(s)   == Kept(s, happened) /\ ("supersede" \in happened \/ Kin(s, session))

CloudInv ==
    /\ Kept(session, happened) /\ Alike
    /\ \A i \in BagToSet(running) : Kept(i.s, happened) /\ i.event \in Events \cup {Tick}
    /\ baseline \in Images \cup {Factory, NoImage} /\ cached \subseteq Images \cup {Factory}
    /\ faults \in 0..MaxFaults /\ happened \subseteq Faults

LinkInv ==
    /\ IsABag(down) /\ IsABag(up) /\ IsABag(running)
    /\ \A m \in BagToSet(down) : Downlink(m)
    /\ BagToSet(up) \subseteq Events

(* What the device has in COMPLETE is the image it was promised.           *)
Assembled ==
    /\ DOMAIN dev = DOMAIN Idle
    /\ dev.phase \in {"IDLE", "RECEIVING", "COMPLETE", "ERROR"}
    /\ dev.total \in Nat /\ dev.got \in Nat
    /\ dev.phase = "RECEIVING" => dev.image \in Images /\ (dev.got = 0 \/ dev.got < dev.total)
    /\ dev.phase = "COMPLETE" => dev.image \in Images /\ Merged(dev) = dev.image
    /\ dev.got <= dev.total \/ (dev.total = 0 /\ dev.got = 1)
DeviceInv == Assembled /\ primary \in Images \cup {Factory}

SessionInv == CloudInv /\ LinkInv /\ DeviceInv

-----------------------------------------------------------------------------
(* Bags.                                                                   *)
LEMMA Added ==
    ASSUME NEW B, NEW e, IsABag(B)
    PROVE  IsABag(BagAdd(B, e)) /\ BagToSet(BagAdd(B, e)) = BagToSet(B) \cup {e}
  BY DEF IsABag, BagToSet, BagAdd

LEMMA Removed ==
    ASSUME NEW B, NEW e, IsABag(B)
    PROVE  IsABag(BagRemove(B, e)) /\ BagToSet(BagRemove(B, e)) \subseteq BagToSet(B)
  BY DEF IsABag, BagToSet, BagRemove

LEMMA NoBag == IsABag(EmptyBag) /\ BagToSet(EmptyBag) = {}
  BY DEF IsABag, EmptyBag, SetToBag, BagToSet

-----------------------------------------------------------------------------
(* The cloud.  What an invocation writes is its copy with new counters.    *)
LEMMA Blank == \A h : Kept(NoSession, h)
<1>1. MaxRetries \in Nat /\ MaxRestarts \in Nat
  BY LimitAssumption
<1>2. NoSession \in SessionRecord
  BY <1>1 DEF NoSession, SessionRecord, Statuses
<1> QED BY <1>2 DEF Kept, NoSession

LEMMA Written ==
    ASSUME CloudInv, NEW s, Copy(s), s.present, NEW r \in SessionRecord, Write(r),
           r.image = s.image, r.total = s.total, r.delta = s.delta, r.list = s.list
    PROVE  /\ Kept(session', happened) /\ UNCHANGED baseline /\ NoTrouble
           /\ "supersede" \in happened \/ session'.delta = s.delta
<1>1. session \in SessionRecord /\ (~session.present => ~session.delta) /\ s.image \in Images
  BY DEF CloudInv, Kept, NoSession, Copy
<1>2. /\ session' \in SessionRecord /\ session'.present = TRUE /\ session'.image = s.image
      /\ session'.total = s.total /\ session'.delta = (s.delta \/ session.delta)
      /\ s.delta => session'.list = s.list
      /\ UNCHANGED baseline /\ NoTrouble
  <2> DEFINE d == r.delta \/ session.delta
             n == r.seen \/ session.seen
             k == IF r.restarts > 0 THEN r.restarts ELSE session.restarts
             g == IF r.seen THEN r.highest ELSE session.highest
             l == IF r.delta THEN r.list ELSE session.list
             c == IF r.delta THEN r.cursor ELSE session.cursor
             w == [r EXCEPT !.present = TRUE, !.restarts = k, !.seen = n, !.highest = g,
                            !.delta = d, !.list = l, !.cursor = c]
  <2>1. d \in BOOLEAN /\ n \in BOOLEAN
    OBVIOUS
  <2>2. k \in 0..MaxRestarts /\ g \in Nat /\ l \in SUBSET (0..(Chunks - 1)) /\ c \in Nat
    BY <1>1 DEF SessionRecord
  <2>3. r.delta => l = r.list
    OBVIOUS
  <2>4. session' = w /\ UNCHANGED baseline /\ NoTrouble
    BY DEF Write
  <2> HIDE DEF d, n, k, g, l, c
  <2>5. /\ w \in SessionRecord /\ w.present = TRUE /\ w.image = r.image
        /\ w.total = r.total /\ w.delta = d /\ w.list = l
    BY <2>1, <2>2 DEF SessionRecord
  <2> QED BY <2>3, <2>4, <2>5 DEF d
<1>3. "supersede" \notin happened => session'.delta = s.delta
  BY <1>1, <1>2 DEF Copy, Kin, Kept, SessionRecord
<1>4. "supersede" \notin happened => Fit(s)
  BY DEF Copy, Kept
<1>5. "supersede" \notin happened => Fit(session')
  BY <1>2, <1>3, <1>4 DEF Fit
<1> QED BY <1>1, <1>2, <1>3, <1>5 DEF Kept

Posted == UNCHANGED down \/ \E m : Downlink(m) /\ Post(m)
Handled(s) ==
    /\ Posted /\ (NoTrouble \/ \E k : Trouble(k))
    /\ baseline' \in Images \cup {Factory, NoImage}
    /\ \/ session' \in {session, NoSession}
       \/ /\ s.present /\ Kept(session', happened)
          /\ "supersede" \in happened \/ session'.delta = s.delta

LEMMA Announced ==
    ASSUME NEW s, NEW h, Kept(s, h), s.present, Post(StartMsg(s))
    PROVE  Posted
<1>1. s.image \in Images /\ s.total \in Nat
  BY DEF Kept, SessionRecord
<1> QED BY <1>1 DEF Posted, Downlink, StartMsg

LEMMA Sent == ASSUME NEW s, NEW i, SendChunk(s, i) PROVE Posted
  BY DEF SendChunk, Mute, Posted, Downlink, ChunkMsg

LEMMA HandledDrop ==
    ASSUME CloudInv, NEW s, Drop, Posted
    PROVE  Handled(s)
  BY DEF Drop, Clear, CloudInv, Handled

LEMMA HandledIgnore ==
    ASSUME CloudInv, NEW s, Ignore
    PROVE  Handled(s)
  BY DEF Ignore, store, Mute, Posted, CloudInv, Handled

LEMMA HandledAck ==
    ASSUME CloudInv, NEW s, Copy(s), NEW a \in Events, a.kind = "ACK", HandleAck(s, a)
    PROVE  Handled(s)
<1>0. /\ a.got \in Nat /\ 0 \in 0..MaxRetries /\ MaxRetries \in Nat /\ MaxRestarts \in Nat
      /\ s \in SessionRecord /\ s.retries \in 0..MaxRetries /\ s.restarts \in 0..MaxRestarts
      /\ baseline \in Images \cup {Factory, NoImage}
  BY LimitAssumption DEF Events, Copy, Kept, SessionRecord, CloudInv
<1>1. CASE Ignore
  BY <1>1, HandledIgnore
<1>2. CASE s.present /\ RestartSession(s)
  <2>1. CASE s.restarts >= MaxRestarts
    BY <1>2, <2>1, HandledDrop DEF RestartSession, Mute, Posted
  <2>2. CASE ~(s.restarts >= MaxRestarts)
    <3> DEFINE r == [s EXCEPT !.restarts = @ + 1, !.status = "restarting"]
    <3>1. Write(r) /\ Post(StartMsg(s))
      BY <1>2, <2>2 DEF RestartSession
    <3>2. s.restarts + 1 \in 0..MaxRestarts
      BY <1>0, <2>2
    <3>3. /\ r \in SessionRecord /\ r.image = s.image /\ r.total = s.total
          /\ r.delta = s.delta /\ r.list = s.list
      BY <1>0, <3>2 DEF SessionRecord, Statuses
    <3> HIDE DEF r
    <3> QED BY <1>0, <1>2, <3>1, <3>3, Written, Announced DEF Handled, Copy
  <2> QED BY <2>1, <2>2
<1>3. CASE s.present /\ RetryChunk(s, a)
  <2>1. CASE s.retries >= MaxRetries
    <3>1. Downlink(AbortMsg)
      BY DEF Downlink, AbortMsg
    <3> QED BY <1>3, <2>1, <3>1, HandledDrop DEF RetryChunk, Posted
  <2>2. CASE ~(s.retries >= MaxRetries)
    <3> DEFINE r == [s EXCEPT !.next = a.got, !.retries = @ + 1, !.status = "retrying"]
    <3>1. Write(r) /\ \E i : SendChunk(s, i)
      BY <1>3, <2>2 DEF RetryChunk
    <3>2. s.retries + 1 \in 0..MaxRetries
      BY <1>0, <2>2
    <3>3. /\ r \in SessionRecord /\ r.image = s.image /\ r.total = s.total
          /\ r.delta = s.delta /\ r.list = s.list
      BY <1>0, <3>2 DEF SessionRecord, Statuses
    <3> HIDE DEF r
    <3> QED BY <1>0, <1>3, <3>1, <3>3, Written, Sent DEF Handled
  <2> QED BY <2>1, <2>2
<1>4. CASE s.present /\ DeltaProgress(s, a)
  <2> DEFINE r == [s EXCEPT !.cursor = a.got, !.seen = TRUE, !.highest = a.got]
             v == [r EXCEPT !.status = "validating"]
             g == [r EXCEPT !.retries = 0, !.status = "sending"]
  <2>1. (Write(v) /\ Mute) \/ (Write(g) /\ \E i : SendChunk(s, i))
    BY <1>4 DEF DeltaProgress
  <2>2. r \in SessionRecord /\ r.image = s.image /\ r.total = s.total
        /\ r.delta = s.delta /\ r.list = s.list
    BY <1>0 DEF SessionRecord
  <2> HIDE DEF r
  <2>3. v \in SessionRecord /\ v.image = s.image /\ v.total = s.total
        /\ v.delta = s.delta /\ v.list = s.list
    BY <2>2 DEF SessionRecord, Statuses
  <2>4. g \in SessionRecord /\ g.image = s.image /\ g.total = s.total
        /\ g.delta = s.delta /\ g.list = s.list
    BY <1>0, <2>2 DEF SessionRecord, Statuses
  <2> HIDE DEF v, g
  <2>5. Posted
    BY <2>1, Sent DEF Mute, Posted
  <2> QED BY <1>0, <1>4, <2>1, <2>3, <2>4, <2>5, Written DEF Handled
<1>5. CASE s.present /\ FullProgress(s, a)
  <2> DEFINE r == [s EXCEPT !.next = a.got, !.seen = TRUE, !.highest = a.got]
             v == [r EXCEPT !.status = "validating"]
             g == [r EXCEPT !.retries = 0, !.status = "sending"]
  <2>1. Ignore \/ (Write(v) /\ Mute) \/ (Write(g) /\ \E i : SendChunk(s, i))
    BY <1>5 DEF FullProgress
  <2>2. r \in SessionRecord /\ r.image = s.image /\ r.total = s.total
        /\ r.delta = s.delta /\ r.list = s.list
    BY <1>0 DEF SessionRecord
  <2> HIDE DEF r
  <2>3. v \in SessionRecord /\ v.image = s.image /\ v.total = s.total
        /\ v.delta = s.delta /\ v.list = s.list
    BY <2>2 DEF SessionRecord, Statuses
  <2>4. g \in SessionRecord /\ g.image = s.image /\ g.total = s.total
        /\ g.delta = s.delta /\ g.list = s.list
    BY <1>0, <2>2 DEF SessionRecord, Statuses
  <2> HIDE DEF v, g
  <2>5. Ignore \/ Posted
    BY <2>1, Sent DEF Mute, Posted
  <2> QED BY <1>0, <1>5, <2>1, <2>3, <2>4, <2>5, Written, HandledIgnore DEF Handled
<1> QED BY <1>1, <1>2, <1>3, <1>4, <1>5 DEF HandleAck

LEMMA HandledComplete ==
    ASSUME CloudInv, NEW s, Copy(s), NEW a, HandleComplete(s, a)
    PROVE  Handled(s)
<1>1. baseline' \in Images \cup {Factory, NoImage}
  BY DEF HandleComplete, Copy, Kept, CloudInv
<1> QED BY <1>1 DEF HandleComplete, Clear, Mute, Posted, Handled

LEMMA HandledTick ==
    ASSUME CloudInv, NEW s, Copy(s), HandleTick(s)
    PROVE  Handled(s)
<1>0. /\ MaxRetries \in Nat /\ s \in SessionRecord /\ s.retries \in 0..MaxRetries
      /\ baseline \in Images \cup {Factory, NoImage}
  BY LimitAssumption DEF Copy, Kept, SessionRecord, CloudInv
<1>1. CASE ~s.present
  BY <1>1, HandledIgnore DEF HandleTick
<1>2. CASE s.present /\ s.retries >= MaxRetries
  BY <1>2, HandledDrop DEF HandleTick, Mute, Posted
<1>3. CASE s.present /\ ~(s.retries >= MaxRetries)
  <2> DEFINE r == [s EXCEPT !.retries = @ + 1, !.status = "retrying"]
  <2>1. Write(r) /\ Repeat(s)
    BY <1>3 DEF HandleTick
  <2>2. s.retries + 1 \in 0..MaxRetries
    BY <1>0, <1>3
  <2>3. /\ r \in SessionRecord /\ r.image = s.image /\ r.total = s.total
        /\ r.delta = s.delta /\ r.list = s.list
    BY <1>0, <2>2 DEF SessionRecord, Statuses
  <2> HIDE DEF r
  <2>4. Post(StartMsg(s)) \/ (\E i : SendChunk(s, i)) \/ Mute
    BY <2>1 DEF Repeat
  <2>5. Posted
    BY <1>3, <2>4, Announced, Sent DEF Mute, Posted, Copy
  <2> QED BY <1>0, <1>3, <2>1, <2>3, <2>5, Written DEF Handled
<1> QED BY <1>1, <1>2, <1>3

(* What was true of a copy stays true, as troubles are never forgotten.    *)
LEMMA KeptOn ==
    ASSUME NEW s, NEW h, NEW g, Kept(s, h), h \subseteq g
    PROVE  Kept(s, g)
  BY DEF Kept

LEMMA Troubled ==
    ASSUME CloudInv, (\E k : Trouble(k)) \/ NoTrouble
    PROVE  faults' \in 0..MaxFaults /\ happened \subseteq happened' /\ happened' \subseteq Faults
  BY FaultAssumption DEF Trouble, NoTrouble, CloudInv

LEMMA DiffSize ==
    ASSUME NEW im \in Images, NEW b
    PROVE  Changed(b, im) \in SUBSET (0..(Chunks - 1)) /\ Cardinality(Changed(b, im)) \in Nat
<1>1. Changed(b, im) \subseteq 0..(Chunks - 1)
  BY ImageAssumption DEF Changed
<1>2. IsFiniteSet(0..(Chunks - 1))
  <2>1. 0 \in Int /\ Chunks - 1 \in Int
    BY ImageAssumption
  <2> QED BY <2>1, FS_Interval
<1> QED BY <1>1, <1>2, FS_Subset, FS_CardinalityType

LEMMA OpenedFits ==
    ASSUME Kept(session, happened), NEW im \in Images, NEW b,
           NEW h, session.present => "supersede" \in h
    PROVE  Kept(Opened(im, b), h) /\ Opened(im, b).present
<1> DEFINE fresh == [session EXCEPT !.present = TRUE, !.image = im, !.status = "starting",
                                    !.next = 0, !.retries = 0]
           full  == [fresh EXCEPT !.total = Chunks]
           diff  == Changed(b, im)
           delta == [fresh EXCEPT !.total = Cardinality(diff), !.delta = TRUE,
                                  !.list = diff, !.cursor = 0]
<1>0. /\ session \in SessionRecord /\ 0 \in 0..MaxRetries /\ Chunks \in Nat
      /\ ~session.present => session = NoSession
  BY LimitAssumption, ImageAssumption DEF Kept
<1>1. Opened(im, b) = full \/ (Opened(im, b) = delta /\ Cardinality(diff) < Chunks)
  BY DEF Opened
<1>2. diff \in SUBSET (0..(Chunks - 1)) /\ Cardinality(diff) \in Nat
  BY DiffSize
<1> HIDE DEF diff
<1>3. /\ fresh \in SessionRecord /\ fresh.present = TRUE /\ fresh.image = im
      /\ fresh.delta = session.delta
  BY <1>0 DEF SessionRecord, Statuses
<1> HIDE DEF fresh
<1>4. /\ full \in SessionRecord /\ full.present = TRUE /\ full.image = im
      /\ full.delta = session.delta /\ full.total = Chunks
  BY <1>0, <1>3 DEF SessionRecord
<1>5. /\ delta \in SessionRecord /\ delta.present = TRUE /\ delta.image = im
      /\ delta.delta = TRUE /\ delta.list = diff /\ delta.total = Cardinality(diff)
  BY <1>0, <1>2, <1>3 DEF SessionRecord
<1> HIDE DEF full, delta
<1>6. ~session.present => ~session.delta
  BY <1>0 DEF NoSession
<1>7. "supersede" \notin h => Fit(full)
  BY <1>4, <1>6 DEF Fit
<1>8. Cardinality(diff) < Chunks => Fit(delta)
  BY <1>5 DEF Fit
<1> QED BY <1>1, <1>4, <1>5, <1>7, <1>8 DEF Kept

LEMMA PostedLink ==
    ASSUME LinkInv, Posted, UNCHANGED up,
           IsABag(running')
    PROVE  LinkInv'
<1>1. UNCHANGED down \/ \E m : Downlink(m) /\ IsABag(down') /\ BagToSet(down') = BagToSet(down) \cup {m}
  BY Added DEF Posted, Post, LinkInv
<1> QED BY <1>1 DEF LinkInv

LEMMA DeviceStays ==
    ASSUME DeviceInv, UNCHANGED <<dev, primary>>
    PROVE  DeviceInv'
  BY DEF DeviceInv, Assembled, Merged

LEMMA CloudStays ==
    ASSUME CloudInv, UNCHANGED <<session, baseline, cached>>,
           (\E k : Trouble(k)) \/ NoTrouble,
           \A i \in BagToSet(running') :
               i \in BagToSet(running) \/ (i.s = session /\ i.event \in Events \cup {Tick})
    PROVE  CloudInv'
<1>1. faults' \in 0..MaxFaults /\ happened \subseteq happened' /\ happened' \subseteq Faults
  BY Troubled
<1>2. Kept(session, happened')
  BY <1>1, KeptOn DEF CloudInv
<1>3. \A i \in BagToSet(running') : Kept(i.s, happened') /\ i.event \in Events \cup {Tick}
  BY <1>1, <1>2, KeptOn DEF CloudInv
<1>4. Alike'
  <2>1. Copies' \subseteq Copies
    BY DEF Copies
  <2> QED BY <1>1, <2>1 DEF CloudInv, Alike
<1> QED BY <1>1, <1>2, <1>3, <1>4 DEF CloudInv

LEMMA SessionUpload ==
    ASSUME SessionInv, NEW im \in Images, Upload(im)
    PROVE  SessionInv'
<1>1. PICK b \in cached \cup {baseline, NoImage} :
        /\ session' = Opened(im, b) /\ Post(StartMsg(session'))
        /\ cached' = cached \cup ({b} \ {NoImage})
        /\ IF b \notin {baseline, NoImage} THEN ~session.present /\ Settled /\ Trouble("stale")
           ELSE IF session.present \/ ~Settled THEN Trouble("supersede")
           ELSE NoTrouble
  BY DEF Upload
<1>2. UNCHANGED <<baseline, running, up, dev, primary>>
  BY DEF Upload
<1>3. session.present => "supersede" \in happened'
  BY <1>1 DEF Trouble
<1>4. Kept(session', happened') /\ session'.present
  BY <1>1, <1>3, OpenedFits, KeptOn DEF SessionInv, CloudInv
<1>5. faults' \in 0..MaxFaults /\ happened \subseteq happened' /\ happened' \subseteq Faults
  BY <1>1, Troubled DEF SessionInv
<1>6. \A i \in BagToSet(running') : Kept(i.s, happened') /\ i.event \in Events \cup {Tick}
  BY <1>2, <1>5, KeptOn DEF SessionInv, CloudInv
<1>7. CloudInv'
  <2>1. "supersede" \notin happened' => Copies' = {session'}
    <3>1. "supersede" \notin happened' => Settled
      BY <1>1 DEF Trouble
    <3> QED BY <1>2, <3>1, NoBag DEF Settled, Copies
  <2>2. Alike'
    BY <2>1 DEF Alike, Kin
  <2> QED BY <1>1, <1>2, <1>4, <1>5, <1>6, <2>2 DEF SessionInv, CloudInv
<1>8. LinkInv'
  <2>1. Posted
    BY <1>1, <1>4, Announced
  <2> QED BY <1>2, <2>1, PostedLink DEF SessionInv, LinkInv
<1> QED BY <1>2, <1>7, <1>8, DeviceStays DEF SessionInv

LEMMA SessionInvoke ==
    ASSUME SessionInv, NEW e \in Events \cup {Tick}, Invoke(e),
           UNCHANGED <<session, baseline, cached, down, dev, primary>>,
           up' = up \/ up' = BagRemove(up, e), (\E k : Trouble(k)) \/ NoTrouble
    PROVE  SessionInv'
<1>1. /\ IsABag(running')
      /\ BagToSet(running') = BagToSet(running) \cup {[event |-> e, s |-> session]}
  BY Added DEF Invoke, SessionInv, LinkInv
<1>2. CloudInv'
  BY <1>1, CloudStays DEF SessionInv
<1>3. IsABag(up') /\ BagToSet(up') \subseteq BagToSet(up)
  BY Removed DEF SessionInv, LinkInv
<1>4. LinkInv'
  BY <1>1, <1>3 DEF SessionInv, LinkInv
<1> QED BY <1>2, <1>4, DeviceStays DEF SessionInv

LEMMA SessionFinish ==
    ASSUME SessionInv, NEW i \in BagToSet(running), Finish(i)
    PROVE  SessionInv'
<1>1. /\ running' = BagRemove(running, i)
      /\ UNCHANGED <<cached, up, dev, primary>>
      /\ i.event.kind = "ACK" => HandleAck(i.s, i.event)
      /\ i.event.kind = "COMPLETE" => HandleComplete(i.s, i.event)
      /\ i.event.kind = "TICK" => HandleTick(i.s)
  BY DEF Finish
<1>2. Kept(i.s, happened) /\ i.event \in Events \cup {Tick}
  BY DEF SessionInv, CloudInv
<1>3. i.event.kind \in {"ACK", "COMPLETE", "TICK"} /\ (i.event.kind = "ACK" => i.event \in Events)
  BY <1>2 DEF Events, Tick
<1>4. i.s \in Copies /\ session \in Copies /\ Copy(i.s)
  BY <1>2 DEF SessionInv, CloudInv, Alike, Copies, Copy
<1>5. Handled(i.s)
  BY <1>1, <1>3, <1>4, HandledAck, HandledComplete, HandledTick DEF SessionInv
<1>6. IsABag(running') /\ BagToSet(running') \subseteq BagToSet(running)
  BY <1>1, Removed DEF SessionInv, LinkInv
<1>7. faults' \in 0..MaxFaults /\ happened \subseteq happened' /\ happened' \subseteq Faults
  BY <1>5, Troubled DEF SessionInv, Handled
<1>8. Kept(session', happened')
  BY <1>5, <1>7, Blank, KeptOn DEF SessionInv, CloudInv, Handled
<1>9. \A n \in BagToSet(running') : Kept(n.s, happened') /\ n.event \in Events \cup {Tick}
  BY <1>6, <1>7, KeptOn DEF SessionInv, CloudInv
<1>10. Alike'
  <2> SUFFICES ASSUME "supersede" \notin happened PROVE \A x, y \in Copies' : Kin(x, y)
    BY <1>7 DEF Alike
  <2>1. \A x, y \in Copies : Kin(x, y)
    BY DEF SessionInv, CloudInv, Alike
  <2>2. \A x \in Copies' : x = session' \/ x \in Copies
    BY <1>6 DEF Copies
  <2>3. \/ session' \in Copies
        \/ ~session'.present
        \/ i.s.present /\ session'.delta = i.s.delta
    BY <1>4, <1>5 DEF Handled, NoSession
  <2> QED BY <1>4, <2>1, <2>2, <2>3 DEF Kin
<1>11. CloudInv'
  BY <1>1, <1>5, <1>7, <1>8, <1>9, <1>10 DEF SessionInv, CloudInv, Handled
<1>12. LinkInv'
  BY <1>1, <1>5, <1>6, PostedLink DEF SessionInv, Handled
<1> QED BY <1>1, <1>11, <1>12, DeviceStays DEF SessionInv

-----------------------------------------------------------------------------
(* The device.                                                             *)
Answered == UNCHANGED up \/ \E m \in Events : Reply(m)

LEMMA SessionRadio ==
    ASSUME SessionInv, Answered, NEW m, m \in BagToSet(down), down' = BagRemove(down, m),
           UNCHANGED <<session, baseline, cached, running>>, (\E k : Trouble(k)) \/ NoTrouble,
           DeviceInv'
    PROVE  SessionInv'
<1>1. IsABag(down') /\ BagToSet(down') \subseteq BagToSet(down)
  BY Removed DEF SessionInv, LinkInv
<1>2. IsABag(up') /\ BagToSet(up') \subseteq Events
  BY Added DEF Answered, Reply, SessionInv, LinkInv
<1>3. LinkInv'
  BY <1>1, <1>2 DEF SessionInv, LinkInv
<1>4. CloudInv'
  BY CloudStays DEF SessionInv
<1> QED BY <1>3, <1>4 DEF SessionInv

LEMMA Acks ==
    /\ \A n \in Nat : \A st \in {"OK", "NO_SESSION", "FLASH_ERR", "CRC_ERR"} : Ack(st, n) \in Events
    /\ Complete("OK") \in Events /\ Complete("CRC_ERR") \in Events
  BY DEF Ack, Complete, Events

LEMMA DeviceStart ==
    ASSUME DeviceInv, NEW m, Downlink(m), m.kind = "START", HandleStart(m), UNCHANGED primary
    PROVE  DeviceInv' /\ Answered
<1>1. Answered
  BY Acks DEF HandleStart, Answered
<1>2. CASE UNCHANGED dev
  BY <1>1, <1>2, DeviceStays
<1>3. CASE dev' = [phase |-> "RECEIVING", image |-> m.image,
                   total |-> m.total, got |-> 0, staged |-> <<>>]
  BY <1>1, <1>3 DEF DeviceInv, Assembled, Downlink, Idle
<1> QED BY <1>1, <1>2, <1>3 DEF HandleStart

LEMMA DeviceStore ==
    ASSUME DeviceInv, dev.phase = "RECEIVING", NEW m, Store(Staged(m)), UNCHANGED primary
    PROVE  DeviceInv' /\ Answered
<1> DEFINE d == Staged(m)
<1>1. /\ DOMAIN d = DOMAIN dev /\ d.phase = "RECEIVING" /\ d.image = dev.image
      /\ d.total = dev.total /\ d.got = dev.got + 1
  BY DEF DeviceInv, Assembled, Idle, Staged
<1> HIDE DEF d
<1>2. /\ dev.total \in Nat /\ dev.got \in Nat /\ dev.image \in Images
      /\ dev.got = 0 \/ dev.got < dev.total
  BY DEF DeviceInv, Assembled
<1>3. CASE d.got < d.total /\ dev' = d /\ Reply(Ack("OK", d.got))
  BY <1>1, <1>2, <1>3, Acks DEF DeviceInv, Assembled, Answered
<1>4. CASE ~(d.got < d.total) /\ Merged(d) = d.image /\ dev' = [d EXCEPT !.phase = "COMPLETE"]
           /\ Reply(Complete("OK"))
  <2>1. /\ DOMAIN dev' = DOMAIN dev /\ dev'.phase = "COMPLETE" /\ dev'.image = d.image
        /\ dev'.total = d.total /\ dev'.got = d.got /\ dev'.staged = d.staged
    BY <1>1, <1>4 DEF DeviceInv, Assembled, Idle
  <2>2. Merged(dev)' = Merged(d)
    BY <2>1 DEF Merged
  <2> QED BY <1>1, <1>2, <1>4, <2>1, <2>2, Acks DEF DeviceInv, Assembled, Answered
<1>5. CASE ~(d.got < d.total) /\ dev' = [d EXCEPT !.phase = "ERROR"] /\ Reply(Complete("CRC_ERR"))
  <2>1. /\ DOMAIN dev' = DOMAIN dev /\ dev'.phase = "ERROR" /\ dev'.image = d.image
        /\ dev'.total = d.total /\ dev'.got = d.got
    BY <1>1, <1>5 DEF DeviceInv, Assembled, Idle
  <2> QED BY <1>1, <1>2, <1>5, <2>1, Acks DEF DeviceInv, Assembled, Answered
<1> QED BY <1>3, <1>4, <1>5 DEF Store, d

LEMMA DeviceChunk ==
    ASSUME DeviceInv, NEW m, HandleChunk(m), UNCHANGED primary
    PROVE  DeviceInv' /\ Answered
<1>1. CASE dev.phase = "RECEIVING" /\ Store(Staged(m))
  BY <1>1, DeviceStore
<1>2. CASE UNCHANGED dev /\ \E st \in {"OK", "NO_SESSION", "CRC_ERR"}, n \in {0, dev.got} : Reply(Ack(st, n))
  BY <1>2, Acks, DeviceStays DEF DeviceInv, Assembled, Answered
<1> QED BY <1>1, <1>2 DEF HandleChunk

LEMMA SessionReceive ==
    ASSUME SessionInv, NEW m \in BagToSet(down), Receive(m)
    PROVE  SessionInv'
<1>1. /\ down' = BagRemove(down, m) /\ NoTrouble
      /\ UNCHANGED <<session, baseline, cached, running, primary>>
      /\ m.kind = "START" => HandleStart(m)
      /\ m.kind = "CHUNK" => HandleChunk(m)
      /\ m.kind = "ABORT" => dev' = Idle /\ UNCHANGED up
  BY DEF Receive, store
<1>2. Downlink(m) /\ DeviceInv
  BY DEF SessionInv, LinkInv
<1>3. DeviceInv' /\ Answered
  <2>1. CASE m.kind = "START"
    BY <1>1, <1>2, <2>1, DeviceStart
  <2>2. CASE m.kind = "CHUNK"
    BY <1>1, <1>2, <2>2, DeviceChunk
  <2>3. CASE m.kind = "ABORT"
    BY <1>1, <1>2, <2>3 DEF DeviceInv, Assembled, Idle, Answered
  <2> QED BY <1>2, <2>1, <2>2, <2>3 DEF Downlink
<1> QED BY <1>1, <1>3, SessionRadio

LEMMA SessionFlashError ==
    ASSUME SessionInv, NEW m \in BagToSet(down), FlashError(m)
    PROVE  SessionInv'
<1>1. /\ Trouble("flash") /\ down' = BagRemove(down, m)
      /\ UNCHANGED <<session, baseline, cached, running, dev, primary>>
      /\ \E n \in {0, dev.got} : Reply(Ack("FLASH_ERR", n))
  BY DEF FlashError, store
<1>2. Answered
  BY <1>1, Acks DEF Answered, SessionInv, DeviceInv, Assembled
<1> QED BY <1>1, <1>2, SessionRadio, DeviceStays DEF SessionInv

(* The apply installs what was promised; a restart forgets the session.    *)
LEMMA SessionApply ==
    ASSUME SessionInv, Apply \/ Reboot
    PROVE  SessionInv'
<1>1. /\ dev' = Idle /\ UNCHANGED <<session, baseline, cached, running, down, up>>
      /\ (\E k : Trouble(k)) \/ NoTrouble
      /\ UNCHANGED primary \/ (dev.phase = "COMPLETE" /\ primary' = Merged(dev))
  BY DEF Apply, Reboot, store, link
<1>2. primary' \in Images \cup {Factory}
  BY <1>1 DEF SessionInv, DeviceInv, Assembled
<1>3. DeviceInv'
  BY <1>1, <1>2 DEF DeviceInv, Assembled, Idle
<1>4. CloudInv'
  BY <1>1, CloudStays DEF SessionInv
<1> QED BY <1>1, <1>3, <1>4 DEF SessionInv, LinkInv

LEMMA SessionLink ==
    ASSUME SessionInv, Lose \/ Duplicate \/ Recycle
    PROVE  SessionInv'
<1>1. CASE Recycle
  <2>1. cached' = {} /\ NoTrouble /\ UNCHANGED <<session, baseline, running, down, up, dev, primary>>
    BY <1>1 DEF Recycle, store, link
  <2> QED BY <2>1, DeviceStays DEF SessionInv, CloudInv, LinkInv, NoTrouble, Alike, Copies
<1>2. CASE Lose \/ Duplicate
  <2>1. /\ UNCHANGED <<session, baseline, cached, running, dev, primary>> /\ \E k : Trouble(k)
        /\ \/ \E m \in BagToSet(down) : down' = BagRemove(down, m) /\ UNCHANGED up
           \/ \E m \in BagToSet(up) : up' = BagRemove(up, m) /\ UNCHANGED down
           \/ \E m \in BagToSet(down) : down' = BagAdd(down, m) /\ UNCHANGED up
           \/ \E m \in BagToSet(up) : up' = BagAdd(up, m) /\ UNCHANGED down
    BY <1>2 DEF Lose, Duplicate, Post, Reply, store
  <2>2. /\ IsABag(down') /\ BagToSet(down') \subseteq BagToSet(down)
        /\ IsABag(up') /\ BagToSet(up') \subseteq BagToSet(up)
    BY <2>1, Added, Removed DEF SessionInv, LinkInv
  <2>3. CloudInv'
    BY <2>1, CloudStays DEF SessionInv
  <2> QED BY <2>1, <2>2, <2>3, DeviceStays DEF SessionInv, LinkInv
<1> QED BY <1>1, <1>2

-----------------------------------------------------------------------------
LEMMA SessionInit == Init => SessionInv
<1> SUFFICES ASSUME Init PROVE SessionInv
  OBVIOUS
<1>1. MaxFaults \in Nat
  BY FaultAssumption
<1>2. CloudInv
  BY <1>1, Blank, NoBag DEF Init, CloudInv, Alike, Copies, Kin
<1>3. LinkInv
  BY NoBag DEF Init, LinkInv
<1>4. DeviceInv
  BY DEF Init, DeviceInv, Assembled, Idle
<1> QED BY <1>2, <1>3, <1>4 DEF SessionInv

LEMMA SessionNext == SessionInv /\ [Next]_vars => SessionInv'
<1> SUFFICES ASSUME SessionInv, [Next]_vars PROVE SessionInv'
  OBVIOUS
<1>1. CASE Uplink
  <2>1. PICK e \in BagToSet(up) : Forward(e)
    BY <1>1 DEF Uplink
  <2>2. e \in Events
    BY DEF SessionInv, LinkInv
  <2> QED BY <2>1, <2>2, SessionInvoke DEF Forward, store
<1>2. CASE Timer
  <2>1. Tick \in Events \cup {Tick}
    OBVIOUS
  <2> QED BY <1>2, <2>1, SessionInvoke DEF Timer, store, link
<1>3. CASE UNCHANGED vars
  BY <1>3, DeviceStays DEF vars, SessionInv, CloudInv, LinkInv, Alike, Copies
<1> QED
  BY <1>1, <1>2, <1>3, SessionUpload, SessionFinish, SessionReceive, SessionFlashError,
     SessionApply, SessionLink DEF Next, Answer, Deliver

-----------------------------------------------------------------------------
(* Retries and restarts respect their limits, the device never counts      *)
(* beyond the announced total, and every message is one the other side     *)
(* knows (ota_sender_lambda.py:340-480, ota_update.c:380-560).             *)
THEOREM TypeCorrect == Spec => []TypeOK
<1>1. SessionInv => TypeOK
  <2> SUFFICES ASSUME SessionInv PROVE TypeOK
    OBVIOUS
  <2>1. /\ session.image \in Images \cup {NoImage} /\ session.present \in BOOLEAN
        /\ session.retries \in 0..MaxRetries /\ session.restarts \in 0..MaxRestarts
    BY DEF SessionInv, CloudInv, Kept, SessionRecord
  <2>2. dev.got \in 0..(IF dev.total = 0 THEN 1 ELSE dev.total)
    BY DEF SessionInv, DeviceInv, Assembled
  <2> QED BY <2>1, <2>2 DEF SessionInv, CloudInv, LinkInv, DeviceInv, Assembled, TypeOK
<1> QED
  BY SessionInit, SessionNext, <1>1, PTL DEF Spec

(* The device runs an image that was announced, whole, whatever messages   *)
(* of whatever session were lost, repeated, late or mixed.                 *)
THEOREM RunsWholeImageCorrect == Spec => []RunsWholeImage
<1>1. SessionInv => RunsWholeImage
  BY DEF SessionInv, DeviceInv, RunsWholeImage
<1> QED
  BY SessionInit, SessionNext, <1>1, PTL DEF Spec

(* The list of chunks and the announced total belong to one upload, unless *)
(* an upload came before the end of another: no copy that an invocation    *)
(* writes back late mixes the fields of two.                               *)
THEOREM OneSessionsFieldsCorrect == Spec => []OneSessionsFields
<1>1. SessionInv => OneSessionsFields
  BY DEF SessionInv, CloudInv, Kept, Fit, OneSessionsFields
<1> QED
  BY SessionInit, SessionNext, <1>1, PTL DEF Spec
-----------------------------------------------------------------------------
(* The baseline stays in step.  Without the kinds of trouble that put it   *)
(* out of step, at most one message is under way or being handled, with a  *)
(* copy of the session as it is now.                                       *)
One(x)      == SetToBag({x})
NoMessage   == down = EmptyBag /\ up = EmptyBag /\ running = EmptyBag
OnlyDown(m) == down = One(m) /\ up = EmptyBag /\ running = EmptyBag
OnlyUp(e)   == down = EmptyBag /\ up = One(e) /\ running = EmptyBag
OnlyRun(e)  == down = EmptyBag /\ up = EmptyBag /\ running = One([event |-> e, s |-> session])
OnlyEvent(e) == OnlyUp(e) \/ OnlyRun(e)
Waits       == NoMessage \/ OnlyRun(Tick)

Stale  == "stale" \in happened
Quiet  == happened \cap (Confused \cup {"unsaved"}) = {} /\ ~({"stale", "lose"} \subseteq happened)
InStep == baseline \in {NoImage, primary}

(* What a session has spent of its retries and restarts, it spent on       *)
(* troubles: a restart takes two, or a flash error.  The first ACK of a    *)
(* full image is ignored as a duplicate, so up to two more retries are for *)
(* nothing before the second chunk (x).                                    *)
Tries(n, x) == session.retries + n <= faults + x
Paid(n)     == faults + (IF "flash" \in happened THEN 1 ELSE 0) >= 2 * session.restarts + n
Spent       == Stale \/ faults >= MaxFaults
Weak        == session.status \in {"starting", "validating", "restarting"}
IfWeak(a, b) == IF Weak THEN a ELSE b
Extra(n)    == IF ~session.delta /\ session.next = 0 THEN n ELSE 0

(* The chunks the session sends are those the device lacks.                *)
Sound    == session.delta => Changed(primary, session.image) \subseteq session.list
Fresh    == session.next = 0 /\ session.highest = 0 /\ session.cursor = 0
Sendable == IF session.delta THEN session.cursor < Cardinality(session.list)
            ELSE session.next < Chunks
ChunkDown ==
    \E i \in 0..(Chunks - 1) :
        /\ OnlyDown(ChunkMsg(session.image, i))
        /\ IF session.delta THEN i \in session.list ELSE i = session.next

(* The stages of a session.  The device knows nothing of it yet.           *)
Announcing ==
    /\ dev.phase = "IDLE" /\ primary # session.image /\ InStep /\ Sound /\ Fresh /\ Sendable
    /\ \/ OnlyDown(StartMsg(session)) /\ Tries(0, 0) /\ Paid(IfWeak(0, 1))
       \/ Waits /\ Tries(1, 0) /\ Paid(IfWeak(1, 2))
       \/ ChunkDown /\ Tries(0, 0) /\ Paid(2)
       \/ OnlyEvent(Ack("NO_SESSION", 0)) /\ Tries(0, 0) /\ Paid(2)
       \/ OnlyEvent(Ack("FLASH_ERR", 0)) /\ Tries(1, 0) /\ Paid(2)

(* The device is receiving it: what it holds is this image's.              *)
Own ==
    /\ dev.image = session.image /\ dev.total = session.total
    /\ session.highest <= dev.got /\ dev.got < dev.total
    /\ session.delta  => /\ session.cursor = session.highest
                         /\ DOMAIN dev.staged \subseteq session.list
                         /\ Cardinality(DOMAIN dev.staged) = dev.got
    /\ ~session.delta => /\ session.next = session.highest
                         /\ DOMAIN dev.staged = 0..(dev.got - 1)
    /\ \A i \in DOMAIN dev.staged : dev.staged[i] = session.image[i]
Sending ==
    /\ dev.phase = "RECEIVING" /\ primary # session.image /\ InStep /\ Sound /\ Own /\ Paid(0)
    /\ \/ OnlyDown(StartMsg(session)) /\ dev.got = 0 /\ Tries(0, Extra(IfWeak(0, 1)))
       \/ OnlyEvent(Ack("OK", dev.got)) /\ dev.got = 0 /\ Tries(0, Extra(IfWeak(0, 1)))
       \/ /\ OnlyEvent(Ack("OK", dev.got)) /\ dev.got > 0 /\ ~Weak
          /\ session.delta \/ dev.got > session.next
          /\ Tries(0, Extra(2))
       \/ Waits /\ (Weak => dev.got = 0) /\ Tries(1, Extra(IfWeak(1, 2)))
       \/ ChunkDown /\ ~Weak /\ Tries(0, Extra(2))
       \/ /\ OnlyEvent(Ack("FLASH_ERR", dev.got))
          /\ session.delta \/ dev.got = session.next
          /\ Weak => dev.got = 0
          /\ Tries(1, Extra(2))

(* It has the image whole, and will apply it.  The cloud may know, and     *)
(* have failed to clear the session.                                       *)
Applying ==
    /\ dev.phase = "COMPLETE" /\ dev.image = session.image
    /\ \/ InStep /\ Sendable /\ OnlyEvent(Complete("OK")) /\ Tries(0, 0) /\ Paid(0)
       \/ InStep /\ Sendable /\ NoMessage /\ Tries(1, 0) /\ Paid(1)
       \/ NoMessage /\ baseline = dev.image

(* It runs the image, and the cloud may not know: then there are retries   *)
(* and restarts left to ask.                                               *)
Owed(n, k) == InStep \/ (Tries(n, 0) /\ Paid(k) /\ Sendable)
Installed ==
    /\ dev.phase = "IDLE" /\ primary = session.image
    /\ \/ OnlyDown(StartMsg(session)) /\ Owed(0, IfWeak(-1, 0))
       \/ OnlyEvent(Complete("OK")) /\ Owed(0, IfWeak(-1, 0))
       \/ Waits /\ Owed(1, IfWeak(0, 1))
       \/ (\E i \in 0..(Chunks - 1) : OnlyDown(ChunkMsg(session.image, i))) /\ Owed(0, 1)
       \/ OnlyEvent(Ack("NO_SESSION", 0)) /\ Owed(0, 1)

(* It is still receiving for a session that was given up.                  *)
Leftover ==
    /\ dev.phase = "RECEIVING" /\ Spent /\ InStep
    /\ \/ /\ OnlyDown(StartMsg(session)) /\ Fresh /\ Sound /\ Weak
          /\ primary # session.image => Sendable
          /\ session.retries = 0 /\ session.restarts = 0
       \/ OnlyEvent(Complete("OK")) /\ primary = session.image

(* A delta may be against a stale baseline: nothing is lost then.          *)
OnlyOne == NoMessage \/ (\E m : OnlyDown(m)) \/ (\E e : OnlyEvent(e))
Outdated ==
    /\ session.present /\ Stale /\ OnlyOne
    /\ \A m : OnlyDown(m) => (m.kind = "START" => m.image = session.image)
    /\ \/ OnlyEvent(Complete("OK")) /\ dev.phase = "COMPLETE" /\ dev.image = session.image /\ InStep
       \/ OnlyEvent(Complete("OK")) /\ dev.phase # "COMPLETE" /\ primary = session.image
       \/ /\ ~OnlyEvent(Complete("OK")) /\ dev.phase # "COMPLETE" /\ InStep
          /\ dev.phase = "RECEIVING" =>
                 dev.image = session.image \/ OnlyDown(StartMsg(session))

(* No session: the device runs the baseline, or is about to.               *)
Between ==
    /\ ~session.present
    /\ \/ /\ NoMessage \/ OnlyDown(AbortMsg)
          /\ dev.phase # "COMPLETE" /\ InStep
          /\ dev.phase = "RECEIVING" => Spent
          /\ dev.phase = "ERROR" => Stale
       \/ NoMessage /\ dev.phase = "COMPLETE" /\ baseline = dev.image

Live == session.present /\ ~Stale
StepInv ==
    Quiet => \/ Between \/ Outdated
             \/ Live /\ (Announcing \/ Sending \/ Applying \/ Installed \/ Leftover)

-----------------------------------------------------------------------------
LEMMA OneBag ==
    ASSUME NEW x
    PROVE  /\ BagToSet(One(x)) = {x} /\ One(x) # EmptyBag
           /\ BagAdd(EmptyBag, x) = One(x) /\ BagRemove(One(x), x) = EmptyBag
<1>1. One(x) = [e \in {x} |-> 1] /\ EmptyBag = [e \in {} |-> 1]
  BY DEF One, SetToBag, EmptyBag
<1>2. BagToSet(One(x)) = {x} /\ BagToSet(EmptyBag) = {}
  BY <1>1 DEF BagToSet
<1>3. BagAdd(EmptyBag, x) = One(x)
  BY <1>1 DEF BagAdd
<1>4. BagRemove(One(x), x) = EmptyBag
  BY <1>1 DEF BagRemove
<1> QED BY <1>2, <1>3, <1>4

(* There is one message, in one place.                                     *)
Exclusive ==
    /\ \A m : OnlyDown(m) => ~NoMessage /\ (\A e : ~OnlyEvent(e)) /\ (\A n : OnlyDown(n) => n = m)
    /\ \A e : OnlyEvent(e) => ~NoMessage /\ (\A f : OnlyEvent(f) => f = e)
    /\ \A e : OnlyUp(e) => \A f : ~OnlyRun(f)

LEMMA Where == Exclusive
<1>1. \A x, y : One(x) = One(y) => x = y
  BY OneBag
<1>2. \A e, f : [event |-> e, s |-> session] = [event |-> f, s |-> session] => e = f
  OBVIOUS
<1> QED BY <1>1, <1>2, OneBag DEF OnlyDown, OnlyUp, OnlyRun, OnlyEvent, NoMessage, Exclusive

LEMMA WhereNext == Exclusive'
  BY Where, PTL

LEMMA StepOne == ASSUME StepInv, Quiet PROVE OnlyOne
  BY DEF StepInv, Between, Outdated, Announcing, Sending, Applying, Installed, Leftover,
         OnlyOne, Waits, ChunkDown, OnlyEvent

LEMMA Apart ==
    /\ \A s : StartMsg(s).kind = "START" /\ StartMsg(s).image = s.image /\ StartMsg(s).total = s.total
    /\ \A im, i : /\ ChunkMsg(im, i).kind = "CHUNK" /\ ChunkMsg(im, i).idx = i
                  /\ ChunkMsg(im, i).data = im[i]
    /\ AbortMsg.kind = "ABORT" /\ Tick.kind = "TICK"
    /\ \A st, n : Ack(st, n).kind = "ACK" /\ Ack(st, n).status = st /\ Ack(st, n).got = n
    /\ \A st : Complete(st).kind = "COMPLETE" /\ Complete(st).status = st
  BY DEF StartMsg, ChunkMsg, AbortMsg, Tick, Ack, Complete

-----------------------------------------------------------------------------
(* The steps there are when one message is under way and stays alone.      *)
Still   == UNCHANGED <<session, baseline, down, up, running, dev, primary, faults, happened>>
Device  == UNCHANGED <<session, baseline, faults, happened>>
Cloud   == UNCHANGED <<dev, primary>>
Begun(e)    == OnlyRun(e)' /\ Device /\ Cloud
Ended(e)    == /\ CASE e.kind = "ACK"      -> HandleAck(session, e)
                    [] e.kind = "COMPLETE" -> HandleComplete(session, e)
                    [] e.kind = "TICK"     -> HandleTick(session)
               /\ Cloud /\ UNCHANGED <<faults, happened>>
               /\ Mute => NoMessage'
               /\ \A m : Post(m) => OnlyDown(m)'
Uncleared(e) ==
    /\ Trouble("uncleared") /\ UNCHANGED session /\ Cloud
    /\ \/ /\ e.kind = "COMPLETE" /\ NoMessage'
          /\ baseline' = IF e.status = "OK" /\ session.present THEN session.image ELSE baseline
       \/ /\ e.kind = "ACK" /\ e.status = "NO_SESSION" /\ session.restarts >= MaxRestarts
          /\ UNCHANGED baseline /\ NoMessage'
       \/ /\ e.kind = "ACK" /\ e.status \notin {"OK", "NO_SESSION"}
          /\ session.retries >= MaxRetries
       \/ /\ e.kind = "TICK" /\ session.retries >= MaxRetries
          /\ UNCHANGED baseline /\ NoMessage'
Received(m) == /\ CASE m.kind = "START" -> HandleStart(m)
                    [] m.kind = "CHUNK" -> HandleChunk(m)
                    [] m.kind = "ABORT" -> dev' = Idle /\ UNCHANGED up
               /\ Device /\ UNCHANGED primary
               /\ UNCHANGED up => NoMessage'
               /\ \A e : Reply(e) => OnlyUp(e)'
Refused(m)  == /\ \/ m.kind = "START" /\ dev.phase # "COMPLETE" /\ primary # m.image
                  \/ m.kind = "CHUNK" /\ dev.phase = "RECEIVING" /\ m.idx \notin DOMAIN dev.staged
                     /\ (Delta \/ m.idx = dev.got)
               /\ OnlyUp(Ack("FLASH_ERR", IF m.kind = "START" THEN 0 ELSE dev.got))'
               /\ UNCHANGED <<session, baseline>> /\ Cloud /\ Trouble("flash")
Lost        == NoMessage' /\ UNCHANGED <<session, baseline>> /\ Cloud /\ Trouble("lose")
Installs    == /\ dev.phase = "COMPLETE" /\ primary' = Merged(dev) /\ dev' = Idle
               /\ UNCHANGED <<session, baseline, down, up, running, faults, happened>>

LEMMA AckTrouble ==
    ASSUME NEW s, NEW a, HandleAck(s, a)
    PROVE  \/ NoTrouble
           \/ /\ Trouble("uncleared") /\ UNCHANGED session
              /\ \/ /\ a.status = "NO_SESSION" /\ s.restarts >= MaxRestarts
                    /\ UNCHANGED baseline /\ Mute
                 \/ a.status \notin {"OK", "NO_SESSION"} /\ s.retries >= MaxRetries
<1>1. \/ Ignore \/ DeltaProgress(s, a) \/ FullProgress(s, a)
      \/ a.status = "NO_SESSION" /\ RestartSession(s)
      \/ a.status \notin {"OK", "NO_SESSION"} /\ RetryChunk(s, a)
  BY DEF HandleAck
<1>2. Ignore \/ DeltaProgress(s, a) \/ FullProgress(s, a) => NoTrouble
  BY DEF Ignore, DeltaProgress, FullProgress, Write
<1>3. CASE a.status = "NO_SESSION" /\ RestartSession(s)
  BY <1>3 DEF RestartSession, Drop, Clear, Write
<1>4. CASE a.status \notin {"OK", "NO_SESSION"} /\ RetryChunk(s, a)
  BY <1>4 DEF RetryChunk, Drop, Clear, Write
<1> QED BY <1>1, <1>2, <1>3, <1>4

LEMMA QuietBefore == ASSUME SessionInv, [Next]_vars, Quiet' PROVE Quiet
<1>1. \/ happened' = happened
      \/ \E k : Trouble(k)
  <2>1. Answer => NoTrouble \/ \E k : Trouble(k)
    <3> SUFFICES ASSUME NEW i \in BagToSet(running), Finish(i) PROVE NoTrouble \/ \E k : Trouble(k)
      BY DEF Answer
    <3>1. CASE HandleAck(i.s, i.event)
      BY <3>1, AckTrouble
    <3>2. CASE HandleComplete(i.s, i.event)
      BY <3>2 DEF HandleComplete, Clear
    <3>3. CASE HandleTick(i.s)
      BY <3>3 DEF HandleTick, Ignore, Drop, Clear, Write
    <3>4. i.event.kind \in {"ACK", "COMPLETE", "TICK"}
      BY DEF SessionInv, CloudInv, Events, Tick
    <3> QED BY <3>1, <3>2, <3>3, <3>4 DEF Finish
  <2> QED BY <2>1 DEF Next, Upload, Uplink, Forward, Timer, Recycle, Deliver, Receive, Apply,
         Reboot, Lose, Duplicate, FlashError, NoTrouble, vars
<1>2. happened \subseteq happened'
  BY <1>1 DEF Trouble
<1> QED BY <1>2 DEF Quiet

LEMMA QuietTrouble ==
    ASSUME NEW k, Trouble(k), Quiet'
    PROVE  k \notin Confused \cup {"unsaved"}
  BY DEF Trouble, Quiet

LEMMA StepUplink ==
    ASSUME OnlyOne, NEW f \in BagToSet(up), Forward(f)
    PROVE  OnlyUp(f) /\ Begun(f)
<1>1. OnlyUp(f)
  BY OneBag, NoBag DEF OnlyOne, NoMessage, OnlyDown, OnlyUp, OnlyRun, OnlyEvent
<1>2. up' = EmptyBag /\ running' = One([event |-> f, s |-> session])
  BY <1>1, OneBag DEF Forward, Invoke, OnlyUp
<1> QED BY <1>1, <1>2 DEF Forward, NoTrouble, store, Begun, OnlyRun, OnlyUp, Device, Cloud

LEMMA StepTimer ==
    ASSUME Quiet', Timer
    PROVE  NoMessage /\ session.present /\ dev.phase # "COMPLETE" /\ Begun(Tick)
<1>1. Settled /\ NoTrouble
  BY QuietTrouble DEF Timer, Confused
<1>2. NoMessage /\ dev.phase # "COMPLETE"
  BY <1>1 DEF Settled, NoMessage
<1>3. running' = One([event |-> Tick, s |-> session])
  BY <1>2, OneBag DEF Timer, Invoke, NoMessage
<1> QED BY <1>1, <1>2, <1>3 DEF Timer, NoTrouble, store, link, NoMessage, Begun, OnlyRun, Device, Cloud

LEMMA StepAnswer ==
    ASSUME SessionInv, OnlyOne, Quiet', NEW i \in BagToSet(running), Finish(i)
    PROVE  \E e : OnlyRun(e) /\ (Ended(e) \/ Uncleared(e))
<1>1. PICK e : OnlyRun(e)
  BY NoBag DEF OnlyOne, NoMessage, OnlyDown, OnlyUp, OnlyEvent
<1>2. i = [event |-> e, s |-> session]
  BY <1>1, OneBag DEF OnlyRun
<1>3. i.event = e /\ i.s = session /\ running' = EmptyBag
  BY <1>1, <1>2, OneBag DEF OnlyRun, Finish
<1>4. /\ Mute => NoMessage'
      /\ \A m : Post(m) => OnlyDown(m)'
  BY <1>1, <1>3, OneBag DEF Finish, OnlyRun, OnlyDown, NoMessage, Mute, Post
<1>5. (CASE e.kind = "ACK"      -> HandleAck(session, e)
         [] e.kind = "COMPLETE" -> HandleComplete(session, e)
         [] e.kind = "TICK"     -> HandleTick(session))
  BY <1>3 DEF Finish
<1>6. e.kind \in {"ACK", "COMPLETE", "TICK"} /\ Cloud
  BY <1>3 DEF SessionInv, CloudInv, Events, Tick, Finish, Cloud
<1>7. NoTrouble => Ended(e)
  BY <1>4, <1>5, <1>6 DEF NoTrouble, Ended
<1>8. CASE e.kind = "ACK"
  BY <1>1, <1>4, <1>5, <1>6, <1>7, <1>8, AckTrouble DEF Uncleared
<1>9. CASE e.kind = "COMPLETE"
  <2>1. HandleComplete(session, e)
    BY <1>5, <1>9
  <2>2. ~Trouble("unsaved")
    BY QuietTrouble
  <2> QED BY <1>1, <1>4, <1>6, <1>7, <1>9, <2>1, <2>2 DEF HandleComplete, Clear, Uncleared
<1>10. CASE e.kind = "TICK"
  <2>1. HandleTick(session)
    BY <1>5, <1>10
  <2> QED BY <1>1, <1>4, <1>6, <1>7, <1>10, <2>1
          DEF HandleTick, Ignore, Drop, Clear, Write, Uncleared
<1> QED BY <1>6, <1>8, <1>9, <1>10

LEMMA StepDown ==
    ASSUME OnlyOne, NEW m \in BagToSet(down), down' = BagRemove(down, m), UNCHANGED running
    PROVE  /\ OnlyDown(m) /\ (UNCHANGED up => NoMessage')
           /\ \A e : Reply(e) => OnlyUp(e)'
<1>1. OnlyDown(m)
  BY OneBag, NoBag DEF OnlyOne, NoMessage, OnlyDown, OnlyUp, OnlyRun, OnlyEvent
<1> QED BY <1>1, OneBag DEF OnlyDown, OnlyUp, NoMessage, Reply

LEMMA StepDeliver ==
    ASSUME OnlyOne, NEW m \in BagToSet(down), Receive(m)
    PROVE  OnlyDown(m) /\ Received(m)
<1>1. down' = BagRemove(down, m) /\ UNCHANGED running
  BY DEF Receive
<1> QED BY <1>1, StepDown DEF Receive, Received, NoTrouble, store, Device

LEMMA StepFlash ==
    ASSUME OnlyOne, NEW m \in BagToSet(down), FlashError(m)
    PROVE  OnlyDown(m) /\ Refused(m)
<1>1. down' = BagRemove(down, m) /\ UNCHANGED running
  BY DEF FlashError
<1> QED BY <1>1, StepDown DEF FlashError, Refused, store, Cloud

LEMMA StepLose == ASSUME OnlyOne, Lose PROVE ~NoMessage /\ Lost
<1>1. CASE \E m \in BagToSet(down) : down' = BagRemove(down, m) /\ UNCHANGED up
  <2>1. NoMessage' /\ ~NoMessage
    BY <1>1, StepDown, Where DEF Lose, Exclusive
  <2> QED BY <2>1 DEF Lose, Lost, store, Cloud
<1>2. CASE \E m \in BagToSet(up) : up' = BagRemove(up, m) /\ UNCHANGED down
  <2>1. PICK m \in BagToSet(up) : up' = BagRemove(up, m) /\ UNCHANGED down
    BY <1>2
  <2>2. OnlyUp(m)
    BY OneBag, NoBag DEF OnlyOne, NoMessage, OnlyDown, OnlyUp, OnlyRun, OnlyEvent
  <2>3. NoMessage' /\ ~NoMessage
    BY <2>1, <2>2, OneBag DEF Lose, OnlyUp, NoMessage
  <2> QED BY <2>3 DEF Lose, Lost, store, Cloud
<1> QED BY <1>1, <1>2 DEF Lose

LEMMA Steps ==
    ASSUME SessionInv, OnlyOne, [Next]_vars, Quiet'
    PROVE  \/ \E im \in Images : Upload(im)
           \/ Still
           \/ \E e : OnlyUp(e) /\ Begun(e)
           \/ NoMessage /\ session.present /\ dev.phase # "COMPLETE" /\ Begun(Tick)
           \/ \E e : OnlyRun(e) /\ Ended(e)
           \/ \E e : OnlyRun(e) /\ Uncleared(e)
           \/ \E m : OnlyDown(m) /\ Received(m)
           \/ \E m : OnlyDown(m) /\ Refused(m)
           \/ ~NoMessage /\ Lost
           \/ Installs
<1>1. ~Reboot /\ ~Duplicate
  BY QuietTrouble DEF Reboot, Duplicate, Confused
<1>2. Recycle \/ UNCHANGED vars => Still
  BY DEF Recycle, NoTrouble, store, link, vars, Still
<1>3. Apply => Installs
  BY DEF Apply, NoTrouble, store, link, Installs
<1>4. Uplink => \E e : OnlyUp(e) /\ Begun(e)
  BY StepUplink DEF Uplink
<1>5. Answer => \E e : OnlyRun(e) /\ (Ended(e) \/ Uncleared(e))
  BY StepAnswer DEF Answer
<1>6. Deliver => \E m : OnlyDown(m) /\ Received(m)
  BY StepDeliver DEF Deliver
<1>7. (\E m \in BagToSet(down) : FlashError(m)) => \E m : OnlyDown(m) /\ Refused(m)
  BY StepFlash
<1> QED BY <1>1, <1>2, <1>3, <1>4, <1>5, <1>6, <1>7, StepTimer, StepLose DEF Next

-----------------------------------------------------------------------------
(* What the types say when no upload came before the end of another.       *)
LEMMA Facts ==
    ASSUME SessionInv, Quiet
    PROVE  /\ MaxRetries \in Nat /\ MaxRestarts \in Nat /\ MaxFaults \in Nat /\ Chunks \in Nat \ {0}
           /\ session \in SessionRecord
           /\ session.retries \in Nat /\ session.retries <= MaxRetries
           /\ session.restarts \in Nat /\ session.restarts <= MaxRestarts
           /\ session.next \in Nat /\ session.highest \in Nat /\ session.cursor \in Nat
           /\ session.total \in Nat
           /\ session.list \in SUBSET (0..(Chunks - 1)) /\ IsFiniteSet(session.list)
           /\ Cardinality(session.list) \in Nat
           /\ faults \in Nat /\ faults <= MaxFaults
           /\ ~session.present => session = NoSession
           /\ session.present => /\ session.image \in Images
                                 /\ DOMAIN session.image = 0..(Chunks - 1)
           /\ session.present /\ session.delta =>
                  session.total = Cardinality(session.list) /\ session.total < Chunks
           /\ session.present /\ ~session.delta => session.total = Chunks
           /\ dev.got \in Nat /\ dev.total \in Nat /\ DOMAIN dev = DOMAIN Idle
           /\ primary \in Images \cup {Factory}
<1>1. MaxRetries \in Nat /\ MaxRestarts \in Nat /\ MaxFaults \in Nat /\ Chunks \in Nat \ {0}
  BY LimitAssumption, FaultAssumption, ImageAssumption
<1>2. session \in SessionRecord /\ faults \in 0..MaxFaults
      /\ (~session.present => session = NoSession)
      /\ (session.present => session.image \in Images)
  BY DEF SessionInv, CloudInv, Kept
<1>3. session.present => Fit(session)
  BY DEF SessionInv, CloudInv, Kept, Quiet, Confused
<1>4. session.list \in SUBSET (0..(Chunks - 1))
  BY <1>2 DEF SessionRecord
<1>5. IsFiniteSet(session.list) /\ Cardinality(session.list) \in Nat
  <2>1. IsFiniteSet(0..(Chunks - 1))
    BY <1>1, FS_Interval
  <2> QED BY <1>4, <2>1, FS_Subset, FS_CardinalityType
<1>6. /\ session.retries \in 0..MaxRetries /\ session.restarts \in 0..MaxRestarts
      /\ session.next \in Nat /\ session.highest \in Nat /\ session.cursor \in Nat
      /\ session.total \in Nat
  BY <1>2 DEF SessionRecord
<1>7. session.present => DOMAIN session.image = 0..(Chunks - 1)
  BY <1>2, ImageAssumption
<1>8. dev.got \in Nat /\ dev.total \in Nat /\ DOMAIN dev = DOMAIN Idle /\ primary \in Images \cup {Factory}
  BY DEF SessionInv, DeviceInv, Assembled
<1>9. session.present /\ session.delta => session.total = Cardinality(session.list) /\ session.total < Chunks
  BY <1>3 DEF Fit
<1>10. session.present /\ ~session.delta => session.total = Chunks
  BY <1>3 DEF Fit
<1>11. /\ session.retries \in Nat /\ session.retries <= MaxRetries
       /\ session.restarts \in Nat /\ session.restarts <= MaxRestarts
       /\ faults \in Nat /\ faults <= MaxFaults
  BY <1>1, <1>2, <1>6
<1> QED BY <1>1, <1>2, <1>4, <1>5, <1>6, <1>7, <1>8, <1>9, <1>10, <1>11

LEMMA Onto ==
    ASSUME NEW S, NEW T, IsFiniteSet(S), IsFiniteSet(T), Cardinality(S) = Cardinality(T),
           NEW f \in [S -> T], \A a, b \in S : f[a] = f[b] => a = b
    PROVE  \A v \in T : \E i \in S : f[i] = v
<1> SUFFICES ASSUME NEW v \in T, \A i \in S : f[i] # v PROVE FALSE
  OBVIOUS
<1>1. f \in [S -> T \ {v}]
  OBVIOUS
<1>2. IsFiniteSet(T \ {v}) /\ Cardinality(T \ {v}) = Cardinality(T) - 1
  BY FS_RemoveElement
<1>3. Cardinality(T) \in Nat
  BY FS_CardinalityType
<1>4. Cardinality(T \ {v}) < Cardinality(S)
  BY <1>2, <1>3
<1>5. \E a, b \in S : a # b /\ f[a] = f[b]
  <2> DEFINE R == T \ {v}
  <2>1. f \in [S -> R] /\ IsFiniteSet(R) /\ Cardinality(R) < Cardinality(S)
    BY <1>1, <1>2, <1>4
  <2> HIDE DEF R
  <2> QED BY <2>1, FS_PigeonHole
<1> QED BY <1>5

(* The k-th element of a list is one of it.                                *)
LEMMA NthIn ==
    ASSUME NEW S, IsFiniteSet(S), \A i \in S : i \in Int, NEW k \in Nat, k < Cardinality(S)
    PROVE  Nth(S, k) \in S
<1> DEFINE n == Cardinality(S)
           below(i) == {j \in S : j < i}
           f == [i \in S |-> Cardinality(below(i))]
<1>1. IsFiniteSet(S) /\ n \in Nat /\ \A i \in S : i \in Int
  BY FS_CardinalityType
<1>2. \A i \in S : /\ IsFiniteSet(below(i)) /\ Cardinality(below(i)) \in Nat
                   /\ Cardinality(below(i)) < n
  <2> SUFFICES ASSUME NEW i \in S
               PROVE  /\ IsFiniteSet(below(i)) /\ Cardinality(below(i)) \in Nat
                      /\ Cardinality(below(i)) < n
    OBVIOUS
  <2>1. IsFiniteSet(S \ {i}) /\ Cardinality(S \ {i}) = n - 1
    BY <1>1, FS_RemoveElement
  <2>2. below(i) \in SUBSET (S \ {i})
    BY <1>1
  <2> HIDE DEF below
  <2>3. IsFiniteSet(below(i)) /\ Cardinality(below(i)) <= Cardinality(S \ {i})
    BY <2>1, <2>2, FS_Subset
  <2>4. Cardinality(below(i)) \in Nat
    BY <2>3, FS_CardinalityType
  <2> HIDE DEF n
  <2> QED BY <1>1, <2>1, <2>3, <2>4
<1>3. \A a, b \in S : a < b => Cardinality(below(a)) < Cardinality(below(b))
  <2> SUFFICES ASSUME NEW a \in S, NEW b \in S, a < b
               PROVE  Cardinality(below(a)) < Cardinality(below(b))
    OBVIOUS
  <2>1. below(a) \in SUBSET below(b) /\ a \in below(b) /\ a \notin below(a)
    <3>1. \A j \in S : j < a => j < b
      BY <1>1
    <3>2. ~(a < a)
      BY <1>1
    <3> QED BY <3>1, <3>2
  <2>2. IsFiniteSet(below(b)) /\ Cardinality(below(a)) \in Nat /\ Cardinality(below(b)) \in Nat
    BY <1>2
  <2> HIDE DEF below
  <2>3. Cardinality(below(a)) <= Cardinality(below(b)) /\ Cardinality(below(a)) # Cardinality(below(b))
    BY <2>1, <2>2, FS_Subset
  <2> QED BY <2>2, <2>3
<1>4. f \in [S -> 0..(n - 1)]
  <2> HIDE DEF n, below
  <2> QED BY <1>1, <1>2
<1>5. \A a, b \in S : f[a] = f[b] => a = b
  <2> SUFFICES ASSUME NEW a \in S, NEW b \in S, a # b PROVE f[a] # f[b]
    OBVIOUS
  <2>1. f[a] = Cardinality(below(a)) /\ f[b] = Cardinality(below(b))
    OBVIOUS
  <2>2. Cardinality(below(a)) \in Nat /\ Cardinality(below(b)) \in Nat
    BY <1>2
  <2>3. a < b \/ b < a
    BY <1>1
  <2> HIDE DEF f, below
  <2> QED BY <1>3, <2>1, <2>2, <2>3
<1>6. IsFiniteSet(0..(n - 1)) /\ Cardinality(0..(n - 1)) = n
  <2> HIDE DEF n
  <2>1. n - 1 \in Int /\ 0 \in Int
    BY <1>1
  <2>2. IsFiniteSet(0..(n - 1)) /\ Cardinality(0..(n - 1)) = IF 0 > n - 1 THEN 0 ELSE (n - 1) - 0 + 1
    BY <2>1, FS_Interval
  <2> QED BY <1>1, <2>2
<1>7. \A v \in 0..(n - 1) : \E i \in S : f[i] = v
  <2> DEFINE T == 0..(n - 1)
  <2>1. IsFiniteSet(S) /\ IsFiniteSet(T) /\ Cardinality(S) = Cardinality(T) /\ f \in [S -> T]
    BY <1>1, <1>4, <1>6
  <2>2. \A a, b \in S : f[a] = f[b] => a = b
    BY <1>5
  <2>3. \A v \in T : \E i \in S : f[i] = v
    <3> HIDE DEF f, T, n
    <3> QED BY <2>1, <2>2, Onto
  <2> QED BY <2>3
<1>8. \E i \in S : Cardinality(below(i)) = k
  <2>1. k \in 0..(n - 1)
    BY <1>1
  <2> QED BY <1>7, <2>1
<1> QED BY <1>8 DEF Nth

(* Images that differ differ in a chunk.                                   *)
LEMMA Differ ==
    ASSUME NEW a \in Images \cup {Factory}, NEW b \in Images \cup {Factory}, a # b
    PROVE  Changed(b, a) # {}
<1>1. a = [i \in 0..(Chunks - 1) |-> a[i]] /\ b = [i \in 0..(Chunks - 1) |-> b[i]]
  BY ImageAssumption
<1>2. \E i \in 0..(Chunks - 1) : a[i] # b[i]
  BY <1>1
<1> QED BY <1>1, <1>2 DEF Changed

(* What is staged and what runs make up the image.                         *)
LEMMA Whole ==
    ASSUME NEW d, d.image \in Images,
           \A i \in DOMAIN d.staged : d.staged[i] = d.image[i],
           \A i \in 0..(Chunks - 1) : i \in DOMAIN d.staged \/ primary[i] = d.image[i]
    PROVE  Merged(d) = d.image
<1>1. d.image = [i \in 0..(Chunks - 1) |-> d.image[i]]
  BY ImageAssumption
<1>2. Merged(d) = [i \in 0..(Chunks - 1) |-> d.image[i]]
  BY <1>1 DEF Merged
<1> QED BY <1>1, <1>2

LEMMA NthListed ==
    ASSUME SessionInv, Quiet, NEW k \in Nat, k < Cardinality(session.list)
    PROVE  Nth(session.list, k) \in session.list /\ Nth(session.list, k) \in 0..(Chunks - 1)
<1>1. session.list \in SUBSET (0..(Chunks - 1)) /\ IsFiniteSet(session.list)
  BY Facts
<1>2. \A i \in session.list : i \in Int
  BY <1>1
<1>3. Nth(session.list, k) \in session.list
  <2> DEFINE S == session.list
  <2>1. IsFiniteSet(S) /\ k < Cardinality(S) /\ \A i \in S : i \in Int
    BY <1>1, <1>2
  <2> HIDE DEF S
  <2>2. Nth(S, k) \in S
    BY <2>1, NthIn
  <2> QED BY <2>2 DEF S
<1> QED BY <1>1, <1>3

-----------------------------------------------------------------------------
(* What an invocation does with a copy of the session as it is now.        *)
Carried ==
    /\ session'.present /\ session'.image = session.image /\ session'.total = session.total
    /\ session'.delta = session.delta /\ session'.list = session.list
    /\ UNCHANGED baseline
Restarted ==
    /\ Carried /\ session.restarts < MaxRestarts
    /\ session'.restarts = session.restarts + 1 /\ session'.status = "restarting"
    /\ session'.retries = session.retries /\ session'.next = session.next
    /\ session'.highest = session.highest /\ session'.cursor = session.cursor
    /\ Post(StartMsg(session)')
Again(n) ==
    /\ Carried /\ session.retries < MaxRetries
    /\ session'.retries = session.retries + 1 /\ session'.status = "retrying"
    /\ session'.next = n
    /\ session'.restarts = session.restarts
    /\ session'.highest = session.highest /\ session'.cursor = session.cursor
Advanced(n) ==
    /\ Carried
    /\ session'.retries = 0 /\ session'.status = "sending"
    /\ session'.restarts = session.restarts /\ session'.highest = n
    /\ session.delta  => session'.cursor = n /\ session'.next = session.next
    /\ ~session.delta => session'.next = n /\ session'.cursor = session.cursor
GivenUp == session' = NoSession /\ UNCHANGED baseline

LEMMA CopyStays ==
    ASSUME session \in SessionRecord, NEW r \in SessionRecord, Write(r),
           r.delta = session.delta, r.list = session.list,
           r.restarts = session.restarts \/ r.restarts > 0,
           r.seen \/ (r.seen = session.seen /\ r.highest = session.highest),
           r.delta \/ r.cursor = session.cursor
    PROVE  /\ session'.present = TRUE /\ session'.image = r.image /\ session'.total = r.total
           /\ session'.delta = r.delta /\ session'.list = r.list /\ session'.status = r.status
           /\ session'.next = r.next /\ session'.retries = r.retries
           /\ session'.restarts = r.restarts /\ session'.highest = r.highest
           /\ session'.cursor = r.cursor /\ UNCHANGED baseline
<1>1. UNCHANGED baseline
  BY DEF Write
<1>2. /\ session'.present = TRUE /\ session'.image = r.image /\ session'.total = r.total
      /\ session'.status = r.status /\ session'.next = r.next /\ session'.retries = r.retries
      /\ session'.delta = (r.delta \/ session.delta)
      /\ session'.restarts = IF r.restarts > 0 THEN r.restarts ELSE session.restarts
      /\ session'.highest = IF r.seen THEN r.highest ELSE session.highest
      /\ session'.list = IF r.delta THEN r.list ELSE session.list
      /\ session'.cursor = IF r.delta THEN r.cursor ELSE session.cursor
  BY DEF Write, SessionRecord
<1>3. session'.delta = r.delta
  BY <1>2 DEF SessionRecord
<1> QED BY <1>1, <1>2, <1>3

(* Without a trouble a session that is cleared is cleared.                 *)
LEMMA Cleared ==
    ASSUME SessionInv, UNCHANGED faults, Clear
    PROVE  session' = NoSession
<1>1. faults \in Nat
  BY FaultAssumption DEF SessionInv, CloudInv
<1> QED BY <1>1 DEF Clear, Trouble

LEMMA RestartsSession ==
    ASSUME SessionInv, Quiet, session.present, RestartSession(session), UNCHANGED faults
    PROVE  \/ session.restarts >= MaxRestarts /\ GivenUp /\ Mute
           \/ Restarted
<1>1. session \in SessionRecord /\ session.restarts \in Nat /\ MaxRestarts \in Nat
  BY Facts
<1>2. CASE session.restarts >= MaxRestarts
  BY <1>2, Cleared DEF RestartSession, Drop, GivenUp
<1>3. CASE ~(session.restarts >= MaxRestarts)
  <2> DEFINE r == [session EXCEPT !.restarts = @ + 1, !.status = "restarting"]
  <2>1. Write(r) /\ Post(StartMsg(session))
    BY <1>3 DEF RestartSession
  <2>2. session.restarts + 1 \in 0..MaxRestarts /\ session.restarts + 1 > 0
    BY <1>1, <1>3
  <2>3. /\ r \in SessionRecord /\ r.image = session.image /\ r.total = session.total
        /\ r.delta = session.delta /\ r.list = session.list /\ r.status = "restarting"
        /\ r.next = session.next /\ r.retries = session.retries
        /\ r.restarts = session.restarts + 1 /\ r.seen = session.seen /\ r.highest = session.highest
        /\ r.cursor = session.cursor
    BY <1>1, <2>2 DEF SessionRecord, Statuses
  <2> HIDE DEF r
  <2>4. Carried
    BY <1>1, <2>1, <2>2, <2>3, CopyStays DEF Carried
  <2>5. StartMsg(session) = StartMsg(session)'
    BY <2>4 DEF Carried, StartMsg
  <2>6. /\ session'.restarts = r.restarts /\ session'.status = r.status /\ session'.retries = r.retries
        /\ session'.next = r.next /\ session'.highest = r.highest /\ session'.cursor = r.cursor
    BY <1>1, <2>1, <2>2, <2>3, CopyStays
  <2>7. session.restarts < MaxRestarts
    BY <1>1, <1>3
  <2> QED BY <2>1, <2>3, <2>4, <2>5, <2>6, <2>7 DEF Restarted
<1> QED BY <1>2, <1>3

LEMMA RetriesChunk ==
    ASSUME SessionInv, Quiet, session.present, NEW a, a.got \in Nat, RetryChunk(session, a),
           UNCHANGED faults
    PROVE  \/ session.retries >= MaxRetries /\ GivenUp /\ Post(AbortMsg)
           \/ /\ Again(a.got)
              /\ SendChunk(session, IF InList(session) THEN Nth(session.list, session.cursor)
                                    ELSE a.got)
<1>1. session \in SessionRecord /\ session.retries \in Nat /\ MaxRetries \in Nat
  BY Facts
<1>2. CASE session.retries >= MaxRetries
  BY <1>2, Cleared DEF RetryChunk, Drop, GivenUp
<1>3. CASE ~(session.retries >= MaxRetries)
  <2> DEFINE r == [session EXCEPT !.next = a.got, !.retries = @ + 1, !.status = "retrying"]
  <2>1. Write(r) /\ SendChunk(session, IF InList(session) THEN Nth(session.list, session.cursor)
                                       ELSE a.got)
    BY <1>3 DEF RetryChunk
  <2>2. session.retries + 1 \in 0..MaxRetries
    BY <1>1, <1>3
  <2>3. /\ r \in SessionRecord /\ r.image = session.image /\ r.total = session.total
        /\ r.delta = session.delta /\ r.list = session.list /\ r.status = "retrying"
        /\ r.next = a.got /\ r.retries = session.retries + 1
        /\ r.restarts = session.restarts /\ r.seen = session.seen /\ r.highest = session.highest
        /\ r.cursor = session.cursor
    BY <1>1, <2>2 DEF SessionRecord, Statuses
  <2> HIDE DEF r
  <2>4. Carried
    BY <1>1, <2>1, <2>3, CopyStays DEF Carried
  <2>5. /\ session'.restarts = r.restarts /\ session'.status = r.status /\ session'.retries = r.retries
        /\ session'.next = r.next /\ session'.highest = r.highest /\ session'.cursor = r.cursor
    BY <1>1, <2>1, <2>3, CopyStays
  <2>6. session.retries < MaxRetries
    BY <1>1, <1>3
  <2> QED BY <2>1, <2>3, <2>4, <2>5, <2>6 DEF Again
<1> QED BY <1>2, <1>3

LEMMA TicksSession ==
    ASSUME SessionInv, Quiet, session.present, HandleTick(session), UNCHANGED faults
    PROVE  \/ session.retries >= MaxRetries /\ GivenUp /\ Mute
           \/ Again(session.next) /\ Repeat(session)
<1>1. session \in SessionRecord /\ session.retries \in Nat /\ MaxRetries \in Nat
  BY Facts
<1>2. CASE session.retries >= MaxRetries
  BY <1>2, Cleared DEF HandleTick, Drop, GivenUp
<1>3. CASE ~(session.retries >= MaxRetries)
  <2> DEFINE r == [session EXCEPT !.retries = @ + 1, !.status = "retrying"]
  <2>1. Write(r) /\ Repeat(session)
    BY <1>3 DEF HandleTick
  <2>2. session.retries + 1 \in 0..MaxRetries
    BY <1>1, <1>3
  <2>3. /\ r \in SessionRecord /\ r.image = session.image /\ r.total = session.total
        /\ r.delta = session.delta /\ r.list = session.list /\ r.status = "retrying"
        /\ r.next = session.next /\ r.retries = session.retries + 1
        /\ r.restarts = session.restarts /\ r.seen = session.seen /\ r.highest = session.highest
        /\ r.cursor = session.cursor
    BY <1>1, <2>2 DEF SessionRecord, Statuses
  <2> HIDE DEF r
  <2>4. Carried
    BY <1>1, <2>1, <2>3, CopyStays DEF Carried
  <2>5. /\ session'.restarts = r.restarts /\ session'.status = r.status /\ session'.retries = r.retries
        /\ session'.next = r.next /\ session'.highest = r.highest /\ session'.cursor = r.cursor
    BY <1>1, <2>1, <2>3, CopyStays
  <2>6. session.retries < MaxRetries
    BY <1>1, <1>3
  <2> QED BY <2>1, <2>3, <2>4, <2>5, <2>6 DEF Again
<1> QED BY <1>2, <1>3

LEMMA Progresses ==
    ASSUME SessionInv, Quiet, session.present, NEW n \in Nat,
           DeltaProgress(session, Ack("OK", n)), session.delta, n < Cardinality(session.list)
    PROVE  Advanced(n) /\ SendChunk(session, Nth(session.list, n))
<1>1. session \in SessionRecord /\ Cardinality(session.list) \in Nat
  BY Facts
<1> DEFINE q == [session EXCEPT !.cursor = n, !.seen = TRUE, !.highest = n]
           r == [q EXCEPT !.retries = 0, !.status = "sending"]
<1>2. Ack("OK", n).got = n
  BY Apart
<1>3. Write(r) /\ SendChunk(session, Nth(session.list, n))
  <2>1. ~(n >= Cardinality(session.list))
    BY <1>1
  <2> QED BY <1>2, <2>1 DEF DeltaProgress
<1>4. 0 \in 0..MaxRetries
  BY LimitAssumption
<1>5. /\ r \in SessionRecord /\ r.image = session.image /\ r.total = session.total
      /\ r.delta = session.delta /\ r.list = session.list /\ r.status = "sending"
      /\ r.next = session.next /\ r.retries = 0
      /\ r.restarts = session.restarts /\ r.seen /\ r.highest = n /\ r.cursor = n
  BY <1>1, <1>4 DEF SessionRecord, Statuses
<1> HIDE DEF r
<1>6. Carried
  BY <1>1, <1>3, <1>5, CopyStays DEF Carried
<1>7. /\ session'.restarts = r.restarts /\ session'.status = r.status /\ session'.retries = r.retries
      /\ session'.next = r.next /\ session'.highest = r.highest /\ session'.cursor = r.cursor
  BY <1>1, <1>3, <1>5, CopyStays
<1> QED BY <1>3, <1>5, <1>6, <1>7 DEF Advanced

LEMMA ProgressesFull ==
    ASSUME SessionInv, Quiet, session.present, NEW n \in Nat,
           FullProgress(session, Ack("OK", n)), ~session.delta, n < session.total
    PROVE  \/ n = session.highest /\ n <= session.next /\ Ignore
           \/ /\ n # session.highest \/ n > session.next
              /\ Advanced(n) /\ SendChunk(session, n)
<1>1. session \in SessionRecord /\ session.next \in Nat /\ session.total \in Nat
  BY Facts
<1> DEFINE q == [session EXCEPT !.next = n, !.seen = TRUE, !.highest = n]
           r == [q EXCEPT !.retries = 0, !.status = "sending"]
<1>2. Ack("OK", n).got = n
  BY Apart
<1>3. CASE n = session.highest /\ n <= session.next
  BY <1>2, <1>3 DEF FullProgress
<1>4. CASE ~(n = session.highest /\ n <= session.next)
  <2>1. Write(r) /\ SendChunk(session, n)
    <3>1. ~(n >= session.total)
      BY <1>1
    <3> QED BY <1>2, <1>4, <3>1 DEF FullProgress
  <2>2. 0 \in 0..MaxRetries
    BY LimitAssumption
  <2>3. /\ r \in SessionRecord /\ r.image = session.image /\ r.total = session.total
        /\ r.delta = session.delta /\ r.list = session.list /\ r.status = "sending"
        /\ r.next = n /\ r.retries = 0
        /\ r.restarts = session.restarts /\ r.seen /\ r.highest = n /\ r.cursor = session.cursor
    BY <1>1, <2>2 DEF SessionRecord, Statuses
  <2> HIDE DEF r
  <2>4. Carried
    BY <1>1, <2>1, <2>3, CopyStays DEF Carried
  <2>5. /\ session'.restarts = r.restarts /\ session'.status = r.status /\ session'.retries = r.retries
        /\ session'.next = r.next /\ session'.highest = r.highest /\ session'.cursor = r.cursor
    BY <1>1, <2>1, <2>3, CopyStays
  <2>6. n # session.highest \/ n > session.next
    BY <1>1, <1>4
  <2> QED BY <2>1, <2>3, <2>4, <2>5, <2>6 DEF Advanced
<1> QED BY <1>3, <1>4

-----------------------------------------------------------------------------
(* A message moves on, or an invocation begins.                            *)
LEMMA BegunStep ==
    ASSUME StepInv, Quiet, NEW e, Begun(e),
           OnlyUp(e) \/ (NoMessage /\ e = Tick /\ session.present /\ dev.phase # "COMPLETE")
    PROVE  StepInv'
<1>1. OnlyRun(e)' /\ UNCHANGED <<session, baseline, dev, primary, faults, happened>>
  BY DEF Begun, Device, Cloud
<1>2. OnlyEvent(e)' /\ (e = Tick => Waits') /\ ~NoMessage' /\ \A f : OnlyEvent(f)' => f = e
  BY <1>1, WhereNext DEF OnlyEvent, Waits, Exclusive
<1>3. /\ \A f : OnlyEvent(f) => OnlyEvent(f)'
      /\ Waits => Waits'
      /\ OnlyOne'
      /\ \A m : ~OnlyDown(m) /\ ~OnlyDown(m)'
      /\ NoMessage => dev.phase # "COMPLETE" /\ session.present
  <2>1. \A f : OnlyEvent(f) => f = e
    BY Where DEF Exclusive, OnlyEvent
  <2>2. \A m : ~OnlyDown(m) /\ ~OnlyDown(m)'
    BY <1>2, Where, WhereNext DEF Exclusive, OnlyEvent
  <2>3. Waits => NoMessage
    BY Where DEF Exclusive, OnlyEvent, Waits
  <2>4. OnlyUp(e) => ~NoMessage
    BY Where DEF Exclusive, OnlyEvent
  <2> QED BY <1>2, <2>1, <2>2, <2>3, <2>4 DEF OnlyOne
<1>4. ~ChunkDown /\ Quiet
  BY <1>3 DEF ChunkDown
<1>5. CASE Between
  BY <1>3, <1>5, Where DEF Between, Exclusive, OnlyEvent
<1>6. CASE Outdated
  <2>1. \A f : OnlyEvent(f)' => OnlyEvent(f) \/ (f = Tick /\ NoMessage)
    BY <1>2 DEF OnlyEvent
  <2>2. Complete("OK") # Tick
    BY Apart
  <2>3. /\ OnlyEvent(Complete("OK")) => OnlyEvent(Complete("OK"))'
        /\ OnlyEvent(Complete("OK"))' => OnlyEvent(Complete("OK"))
    BY <1>3, <2>1, <2>2
  <2>4. ~OnlyDown(StartMsg(session))
    BY <1>3
  <2>5. session'.present /\ Stale' /\ OnlyOne'
    BY <1>1, <1>3, <1>6 DEF Outdated, Stale
  <2>6. \A m : OnlyDown(m)' => (m.kind = "START" => m.image = session'.image)
    BY <1>3
  <2>7. InStep' = InStep
    BY <1>1 DEF InStep
  <2>8. Outdated'
    BY <1>1, <1>6, <2>3, <2>4, <2>5, <2>6, <2>7 DEF Outdated
  <2> QED BY <2>8 DEF StepInv
<1>7. CASE Live /\ Announcing
  BY <1>1, <1>3, <1>4, <1>7
     DEF Live, Stale, StepInv, Announcing, InStep, Sound, Fresh, Sendable, Tries, Paid, IfWeak, Weak
<1>8. CASE Live /\ Sending
  BY <1>1, <1>3, <1>4, <1>8
     DEF Live, Stale, StepInv, Sending, InStep, Sound, Own, Tries, Paid, IfWeak, Weak, Extra
<1>9. CASE Live /\ Applying
  BY <1>1, <1>3, <1>4, <1>9
     DEF Live, Stale, StepInv, Applying, InStep, Sendable, Tries, Paid
<1>10. CASE Live /\ Installed
  BY <1>1, <1>3, <1>4, <1>10
     DEF Live, Stale, StepInv, Installed, InStep, Sendable, Tries, Paid, Owed, IfWeak, Weak
<1>11. CASE Live /\ Leftover
  BY <1>1, <1>3, <1>4, <1>11
     DEF Live, Stale, StepInv, Leftover, InStep, Spent
<1> QED BY <1>5, <1>6, <1>7, <1>8, <1>9, <1>10, <1>11 DEF StepInv

(* A message is lost: that pays for the retry it will take.                *)
LEMMA LostStep ==
    ASSUME SessionInv, StepInv, Quiet, Quiet', ~NoMessage, Lost
    PROVE  StepInv'
<1>1. /\ NoMessage' /\ UNCHANGED <<session, baseline, dev, primary>>
      /\ faults' = faults + 1 /\ happened' = happened \cup {"lose"} /\ faults < MaxFaults
  BY DEF Lost, Cloud, Trouble
<1>2. ~Stale /\ ~Stale' /\ ("flash" \in happened' <=> "flash" \in happened)
  BY <1>1 DEF Stale, Quiet
<1>3. /\ faults \in Nat /\ session.retries \in Nat /\ session.restarts \in Nat
      /\ session.next \in Nat
  BY Facts
<1>4. Waits'
  BY <1>1 DEF Waits
<1>5. ~Spent
  <2>1. MaxFaults \in Nat
    BY Facts
  <2> QED BY <1>1, <1>2, <1>3, <2>1 DEF Spent
<1>6. CASE Between
  <2>1. InStep /\ dev.phase # "COMPLETE" /\ ~session.present /\ dev.phase # "RECEIVING" /\ dev.phase # "ERROR"
    BY <1>2, <1>5, <1>6 DEF Between
  <2> QED BY <1>1, <2>1 DEF Between, StepInv, InStep
<1>7. CASE Live /\ Announcing
  <2>1. Tries(0, 0) /\ Paid(IfWeak(0, 1)) => Tries(1, 0)' /\ Paid(IfWeak(1, 2))'
    BY <1>1, <1>2, <1>3 DEF Tries, Paid, IfWeak, Weak
  <2>2. Tries(1, 0) => Tries(0, 0)
    BY <1>3 DEF Tries
  <2>3. Paid(2) \/ Paid(IfWeak(1, 2)) => Paid(IfWeak(0, 1))
    BY <1>3 DEF Paid, IfWeak
  <2>4. Announcing'
    BY <1>1, <1>4, <1>7, <2>1, <2>2, <2>3 DEF Announcing, InStep, Sound, Fresh, Sendable
  <2> QED BY <1>1, <1>2, <1>7, <2>4 DEF StepInv, Live
<1>8. CASE Live /\ Sending
  <2>1. Tries(0, Extra(IfWeak(0, 1))) => Tries(1, Extra(IfWeak(1, 2)))'
    BY <1>1, <1>2, <1>3 DEF Tries, IfWeak, Weak, Extra
  <2>2. ~Weak /\ Tries(0, Extra(2)) => ~Weak' /\ Tries(1, Extra(IfWeak(1, 2)))'
    BY <1>1, <1>2, <1>3 DEF Tries, IfWeak, Weak, Extra
  <2>3. Tries(1, Extra(IfWeak(1, 2))) => Tries(1, Extra(IfWeak(1, 2)))'
    BY <1>1, <1>2, <1>3 DEF Tries, IfWeak, Weak, Extra
  <2>4. Tries(1, Extra(2)) /\ ~Weak => Tries(1, Extra(IfWeak(1, 2)))'
    BY <1>1, <1>2, <1>3 DEF Tries, IfWeak, Weak, Extra
  <2>5. Tries(1, Extra(2)) /\ Weak => Tries(1, Extra(IfWeak(1, 2)))'
    BY <1>1, <1>2, <1>3 DEF Tries, IfWeak, Weak, Extra
  <2>6. Paid(0)'
    BY <1>1, <1>2, <1>3, <1>8 DEF Sending, Paid
  <2>7. Weak' = Weak /\ InStep' = InStep /\ (Sound => Sound') /\ (Own => Own')
    BY <1>1 DEF Weak, InStep, Sound, Own
  <2>8. Sending'
    BY <1>1, <1>4, <1>8, <2>1, <2>2, <2>3, <2>4, <2>5, <2>6, <2>7 DEF Sending
  <2> QED BY <1>1, <1>2, <1>8, <2>8 DEF StepInv, Live
<1>9. CASE Live /\ Applying
  <2>1. Tries(0, 0) /\ Paid(0) => Tries(1, 0)' /\ Paid(1)'
    BY <1>1, <1>2, <1>3 DEF Tries, Paid
  <2>2. Applying'
    BY <1>1, <1>9, <2>1 DEF Applying, InStep, Sendable
  <2> QED BY <1>1, <1>2, <1>9, <2>2 DEF StepInv, Live
<1>10. CASE Live /\ Installed
  <2>1. \/ Owed(0, IfWeak(-1, 0))
        \/ Owed(0, 1) \/ Owed(1, IfWeak(0, 1))
    BY <1>10 DEF Installed
  <2>2. Owed(1, IfWeak(0, 1))'
    BY <1>1, <1>2, <1>3, <2>1 DEF Owed, InStep, Tries, Paid, IfWeak, Weak, Sendable
  <2>3. Installed'
    BY <1>1, <1>4, <1>10, <2>2 DEF Installed
  <2> QED BY <1>1, <1>2, <1>10, <2>3 DEF StepInv, Live
<1>11. ~Outdated /\ ~Leftover
  BY <1>2, <1>5 DEF Outdated, Leftover
<1> QED BY <1>6, <1>7, <1>8, <1>9, <1>10, <1>11 DEF StepInv

(* The flash fails: a retry of the chunk, or of the START, is paid for.    *)
LEMMA RefusedStep ==
    ASSUME SessionInv, StepInv, Quiet, Quiet', NEW m, OnlyDown(m), Refused(m)
    PROVE  StepInv'
<1>1. /\ OnlyUp(Ack("FLASH_ERR", IF m.kind = "START" THEN 0 ELSE dev.got))'
      /\ UNCHANGED <<session, baseline, dev, primary>>
      /\ faults' = faults + 1 /\ happened' = happened \cup {"flash"} /\ faults < MaxFaults
      /\ happened \subseteq {"lose"}
  BY DEF Refused, Cloud, Trouble
<1>2. ~Stale /\ ~Stale' /\ "flash" \notin happened /\ "flash" \in happened'
  BY <1>1 DEF Stale
<1>3. /\ faults \in Nat /\ session.retries \in Nat /\ session.restarts \in Nat
      /\ session.next \in Nat /\ session.highest \in Nat /\ dev.got \in Nat
      /\ MaxFaults \in Nat /\ dev.total \in Nat
  BY Facts
<1>4. ~Spent
  BY <1>1, <1>2, <1>3 DEF Spent
<1>5. /\ ~NoMessage /\ ~Waits /\ (\A e : ~OnlyEvent(e)) /\ \A n : OnlyDown(n) => n = m
  BY Where DEF Exclusive, Waits, OnlyEvent
<1>6. m.kind = "START" => m = StartMsg(session) \/ ~session.present
  BY <1>2, <1>5, Apart DEF StepInv, Between, Outdated, Announcing, Sending, Applying, Installed,
                           Leftover, ChunkDown
<1>7. ~Between /\ ~Outdated /\ ~Leftover /\ ~Applying
  <2>1. m # AbortMsg
    BY Apart DEF Refused
  <2> QED BY <1>2, <1>4, <1>5, <2>1 DEF Between, Outdated, Leftover, Applying
<1>8. CASE Live /\ Announcing
  <2>1. m = StartMsg(session) /\ Tries(0, 0) /\ Paid(IfWeak(0, 1))
    BY <1>5, <1>8, Apart DEF Announcing, Refused, ChunkDown
  <2>2. OnlyEvent(Ack("FLASH_ERR", 0))'
    BY <1>1, <2>1, Apart DEF OnlyEvent
  <2>3. Tries(1, 0)' /\ Paid(2)'
    BY <1>1, <1>2, <1>3, <2>1 DEF Tries, Paid, IfWeak
  <2>4. Announcing'
    BY <1>1, <1>8, <2>2, <2>3 DEF Announcing, InStep, Sound, Fresh, Sendable
  <2> QED BY <1>1, <1>2, <1>8, <2>4 DEF StepInv, Live
<1>9. CASE Live /\ Sending
  <2>1. /\ dev.phase = "RECEIVING" /\ primary # session.image /\ InStep /\ Sound /\ Own /\ Paid(0)
        /\ \/ m = StartMsg(session) /\ dev.got = 0 /\ Tries(0, Extra(IfWeak(0, 1)))
           \/ ChunkDown /\ ~Weak /\ Tries(0, Extra(2))
    BY <1>5, <1>9 DEF Sending
  <2>2. OnlyEvent(Ack("FLASH_ERR", dev.got))' /\ (Weak => dev.got = 0)
    <3>1. CASE m = StartMsg(session) /\ dev.got = 0
      BY <1>1, <3>1, Apart DEF OnlyEvent
    <3>2. CASE ChunkDown /\ ~Weak
      BY <1>1, <1>5, <3>2, Apart DEF OnlyEvent, ChunkDown
    <3> QED BY <2>1, <3>1, <3>2
  <2>3. session.delta \/ dev.got = session.next
    <3> SUFFICES ASSUME ~session.delta PROVE dev.got = session.next
      OBVIOUS
    <3>1. session.next = session.highest /\ session.highest <= dev.got
      BY <2>1 DEF Own
    <3>2. CASE dev.got = 0
      BY <1>3, <3>1, <3>2
    <3>3. CASE ChunkDown
      <4>1. m.kind = "CHUNK" /\ m.idx = session.next
        BY <1>5, <3>3, Apart DEF ChunkDown
      <4>2. ~Delta
        <5>1. dev.total = Chunks /\ Chunks \in Nat
          BY <1>9, <2>1, Facts DEF Own, Live
        <5> QED BY <5>1 DEF Delta
      <4> QED BY <4>1, <4>2 DEF Refused
    <3> QED BY <2>1, <3>2, <3>3
  <2>4. Tries(1, Extra(2))'
    <3>1. Tries(0, Extra(2)) \/ Tries(0, Extra(IfWeak(0, 1)))
      BY <2>1
    <3> QED BY <1>1, <1>3, <3>1 DEF Tries, Extra, IfWeak
  <2>5. Paid(0)'
    BY <1>1, <1>2, <1>3, <2>1 DEF Paid
  <2>6. Weak' = Weak /\ InStep' = InStep /\ Sound' /\ Own'
    BY <1>1, <2>1 DEF Weak, InStep, Sound, Own
  <2>7. Sending'
    BY <1>1, <2>1, <2>2, <2>3, <2>4, <2>5, <2>6 DEF Sending
  <2> QED BY <1>1, <1>2, <1>9, <2>7 DEF StepInv, Live
<1>10. ~(Live /\ Installed)
  <2> SUFFICES ASSUME Live, Installed PROVE FALSE
    OBVIOUS
  <2>1. dev.phase = "IDLE" /\ primary = session.image
    BY DEF Installed
  <2>2. m.kind = "START"
    BY <2>1 DEF Refused
  <2>3. m.image = session.image
    BY <1>6, <2>2, Apart DEF Live
  <2> QED BY <2>1, <2>2, <2>3, Apart DEF Refused
<1> QED BY <1>7, <1>8, <1>9, <1>10 DEF StepInv

(* The apply: what runs is the image of the session, or the baseline.      *)
LEMMA InstallsStep ==
    ASSUME SessionInv, StepInv, Quiet, Installs
    PROVE  StepInv'
<1>1. /\ dev.phase = "COMPLETE" /\ dev'.phase = "IDLE"
      /\ UNCHANGED <<session, baseline, down, up, running, faults, happened>>
  BY DEF Installs, Idle
<1>2. primary' = dev.image
  BY <1>1 DEF Installs, SessionInv, DeviceInv, Assembled
<1>3. /\ NoMessage' = NoMessage /\ OnlyOne' = OnlyOne
      /\ \A e : OnlyEvent(e)' = OnlyEvent(e)
      /\ \A m : OnlyDown(m)' = OnlyDown(m)
  BY <1>1 DEF NoMessage, OnlyOne, OnlyEvent, OnlyUp, OnlyRun, OnlyDown
<1>4. CASE Between
  <2>1. NoMessage /\ baseline = dev.image /\ ~session.present
    BY <1>1, <1>4 DEF Between
  <2>2. InStep'
    BY <1>1, <1>2, <2>1 DEF InStep
  <2> QED BY <1>1, <1>3, <2>1, <2>2 DEF Between, StepInv
<1>5. CASE Outdated
  <2>1. OnlyEvent(Complete("OK")) /\ dev.image = session.image
    BY <1>1, <1>5 DEF Outdated
  <2>2. primary' = session'.image
    BY <1>1, <1>2, <2>1
  <2>3. OnlyEvent(Complete("OK"))'
    BY <1>3, <2>1
  <2>4. \A m : ~OnlyDown(m)'
    BY <1>3, <2>1, Where DEF Exclusive
  <2>5. session'.present /\ Stale' /\ OnlyOne'
    BY <1>1, <1>3, <1>5 DEF Outdated, Stale
  <2> QED BY <1>1, <2>2, <2>3, <2>4, <2>5 DEF Outdated, StepInv
<1>6. CASE Live /\ Applying
  <2>1. /\ dev.image = session.image
        /\ \/ OnlyEvent(Complete("OK")) /\ Sendable /\ Tries(0, 0) /\ Paid(0)
           \/ NoMessage /\ Sendable /\ Tries(1, 0) /\ Paid(1)
           \/ NoMessage /\ baseline = dev.image
    BY <1>6 DEF Applying
  <2>2. /\ Tries(0, 0)' = Tries(0, 0) /\ Tries(1, 0)' = Tries(1, 0)
        /\ Paid(0)' = Paid(0) /\ Paid(1)' = Paid(1) /\ Sendable' = Sendable /\ Weak' = Weak
    BY <1>1 DEF Tries, Paid, Sendable, Weak
  <2>3. /\ Paid(0) => Paid(IfWeak(-1, 0))'
        /\ Paid(1) => Paid(IfWeak(0, 1))'
    <3>1. faults \in Nat /\ session.restarts \in Nat
      BY Facts
    <3> QED BY <1>1, <3>1 DEF Paid, IfWeak, Weak
  <2>4. \/ OnlyEvent(Complete("OK"))' /\ Owed(0, IfWeak(-1, 0))'
        \/ Waits' /\ Owed(1, IfWeak(0, 1))'
    BY <1>1, <1>2, <1>3, <2>1, <2>2, <2>3 DEF Owed, Waits, InStep
  <2>5. Installed'
    BY <1>1, <1>2, <2>1, <2>4 DEF Installed
  <2> QED BY <1>1, <1>6, <2>5 DEF StepInv, Live, Stale
<1>7. ~Announcing /\ ~Sending /\ ~Installed /\ ~Leftover
  BY <1>1 DEF Announcing, Sending, Installed, Leftover
<1> QED BY <1>4, <1>5, <1>6, <1>7 DEF StepInv

(* An upload: nothing of an earlier session is left in the item, and the   *)
(* delta is against what runs, if against the baseline.                    *)
LEMMA OpenedFields ==
    ASSUME session = NoSession, NEW im, NEW b
    PROVE  LET s == Opened(im, b) IN
           /\ s.present /\ s.image = im /\ s.status = "starting" /\ s.next = 0 /\ s.highest = 0
           /\ s.cursor = 0 /\ s.retries = 0 /\ s.restarts = 0
           /\ \/ ~s.delta
              \/ s.delta /\ b # NoImage /\ s.list = Changed(b, im)
<1> DEFINE fresh == [session EXCEPT !.present = TRUE, !.image = im, !.status = "starting",
                                    !.next = 0, !.retries = 0]
           diff  == Changed(b, im)
           full  == [fresh EXCEPT !.total = Chunks]
           delta == [fresh EXCEPT !.total = Cardinality(diff), !.delta = TRUE,
                                  !.list = diff, !.cursor = 0]
<1>1. Opened(im, b) = full \/ (b # NoImage /\ Opened(im, b) = delta)
  BY DEF Opened
<1> HIDE DEF diff
<1>2. /\ full.present /\ full.image = im /\ full.status = "starting" /\ full.next = 0
      /\ full.highest = 0 /\ full.cursor = 0 /\ full.retries = 0 /\ full.restarts = 0
      /\ ~full.delta
  BY DEF NoSession
<1>3. /\ delta.present /\ delta.image = im /\ delta.status = "starting" /\ delta.next = 0
      /\ delta.highest = 0 /\ delta.cursor = 0 /\ delta.retries = 0 /\ delta.restarts = 0
      /\ delta.delta /\ delta.list = diff
  BY DEF NoSession
<1> HIDE DEF full, delta
<1> QED BY <1>1, <1>2, <1>3 DEF diff

LEMMA UploadStep ==
    ASSUME SessionInv, SessionInv', StepInv, Quiet, Quiet', NEW im \in Images, Upload(im)
    PROVE  StepInv'
<1>1. PICK b \in cached \cup {baseline, NoImage} :
        /\ session' = Opened(im, b) /\ Post(StartMsg(session'))
        /\ IF b \notin {baseline, NoImage} THEN ~session.present /\ Settled /\ Trouble("stale")
           ELSE IF session.present \/ ~Settled THEN Trouble("supersede")
           ELSE NoTrouble
  BY DEF Upload
<1>2. ~session.present /\ Settled /\ UNCHANGED <<baseline, running, up, dev, primary>>
  BY <1>1, QuietTrouble DEF Upload, Confused
<1>3. session = NoSession
  BY <1>2, Facts
<1>4. /\ NoMessage /\ dev.phase # "COMPLETE" /\ InStep
      /\ dev.phase = "RECEIVING" => Spent
      /\ dev.phase = "ERROR" => Stale
  BY <1>2 DEF StepInv, Between, Outdated, Live, Settled, NoMessage
<1>5. OnlyDown(StartMsg(session))'
  BY <1>1, <1>2, <1>4, OneBag DEF Post, NoMessage, OnlyDown
<1>6. /\ session'.present /\ session'.image = im /\ session'.status = "starting"
      /\ session'.next = 0 /\ session'.highest = 0 /\ session'.cursor = 0
      /\ session'.retries = 0 /\ session'.restarts = 0
      /\ \/ ~session'.delta
         \/ session'.delta /\ b # NoImage /\ session'.list = Changed(b, im)
  BY <1>1, <1>3, OpenedFields
<1>7. InStep' /\ Weak' /\ Fresh'
  BY <1>2, <1>4, <1>6 DEF InStep, Weak, Fresh
<1>8. CASE Stale'
  <2>1. OnlyOne' /\ (\A e : ~OnlyEvent(e)')
        /\ (\A m : OnlyDown(m)' => m = StartMsg(session)')
    BY <1>5, WhereNext DEF Exclusive, OnlyOne
  <2>2. \A m : OnlyDown(m)' => (m.kind = "START" => m.image = session'.image)
    <3>1. StartMsg(session)'.image = session'.image
      BY DEF StartMsg
    <3> QED BY <2>1, <3>1
  <2>3. dev'.phase # "COMPLETE"
    BY <1>2, <1>4
  <2> QED BY <1>5, <1>6, <1>7, <1>8, <2>1, <2>2, <2>3 DEF Outdated, StepInv
<1>9. CASE ~Stale'
  <2>1. b \in {baseline, NoImage} /\ UNCHANGED <<faults, happened>> /\ ~Stale
    BY <1>1, <1>2, <1>9 DEF NoTrouble, Trouble, Stale
  <2>2. Live'
    BY <1>6, <1>9 DEF Live
  <2>3. Sound'
    BY <1>2, <1>4, <1>6, <2>1 DEF Sound, InStep
  <2>4. primary # im => Sendable'
    <3> SUFFICES ASSUME primary # im PROVE Sendable'
      OBVIOUS
    <3>1. CASE ~session'.delta
      <4>1. Chunks \in Nat \ {0}
        BY ImageAssumption
      <4> QED BY <1>6, <3>1, <4>1 DEF Sendable
    <3>2. CASE session'.delta
      <4>1. b = primary /\ session'.list = Changed(primary, im)
        BY <1>4, <1>6, <2>1, <3>2 DEF InStep
      <4>2. primary \in Images \cup {Factory}
        BY Facts
      <4>3. session'.list # {}
        BY <4>1, <4>2, Differ
      <4>4. Cardinality(session'.list) \in Nat /\ IsFiniteSet(session'.list)
        <5>1. Changed(primary, im) \in SUBSET (0..(Chunks - 1)) /\ Cardinality(Changed(primary, im)) \in Nat
          BY DiffSize
        <5>2. IsFiniteSet(0..(Chunks - 1))
          <6>1. 0 \in Int /\ Chunks - 1 \in Int
            BY ImageAssumption
          <6> QED BY <6>1, FS_Interval
        <5>3. IsFiniteSet(Changed(primary, im))
          BY <5>1, <5>2, FS_Subset
        <5> QED BY <4>1, <5>1, <5>3
      <4>5. Cardinality(session'.list) # 0
        BY <4>3, <4>4, FS_EmptySet
      <4>6. Cardinality(session'.list) > 0
        BY <4>4, <4>5
      <4> QED BY <1>6, <3>2, <4>6 DEF Sendable
    <3> QED BY <3>1, <3>2
  <2>5. Tries(0, 0)' /\ Paid(IfWeak(0, 1))'
    <3>1. faults \in Nat
      BY Facts
    <3> QED BY <1>6, <1>7, <2>1, <3>1 DEF Tries, Paid, IfWeak
  <2>6. dev.phase \in {"IDLE", "RECEIVING"}
    BY <1>4, <2>1 DEF SessionInv, DeviceInv, Assembled
  <2>7. CASE dev.phase = "IDLE" /\ primary = im
    <3>1. Installed'
      BY <1>2, <1>5, <1>6, <1>7, <2>7 DEF Installed, Owed
    <3> QED BY <2>2, <3>1 DEF StepInv
  <2>8. CASE dev.phase = "IDLE" /\ primary # im
    <3>1. Announcing'
      BY <1>2, <1>5, <1>6, <1>7, <2>3, <2>4, <2>5, <2>8 DEF Announcing
    <3> QED BY <2>2, <3>1 DEF StepInv
  <2>9. CASE dev.phase = "RECEIVING"
    <3>1. Spent'
      BY <1>4, <2>1, <2>9 DEF Spent, Stale
    <3>2. Leftover'
      BY <1>2, <1>5, <1>6, <1>7, <2>3, <2>4, <2>9, <3>1 DEF Leftover
    <3> QED BY <2>2, <3>2 DEF StepInv
  <2> QED BY <2>6, <2>7, <2>8, <2>9
<1> QED BY <1>8, <1>9

(* The device takes the START: it has no chunk yet, and lacks some.        *)
LEMMA StartAccepted ==
    ASSUME SessionInv, Quiet, Live, Received(StartMsg(session)),
           dev.phase # "COMPLETE", primary # session.image, InStep, Sound, Paid(0),
           Tries(0, Extra(IfWeak(0, 1))), session.highest = 0, session.total > 0,
           session.delta => session.cursor = 0, ~session.delta => session.next = 0
    PROVE  StepInv'
<1> DEFINE m == StartMsg(session)
<1>1. m.kind = "START" /\ m.image = session.image /\ m.total = session.total
  BY Apart
<1> HIDE DEF m
<1>2. HandleStart(m) /\ UNCHANGED <<session, baseline, faults, happened, primary>>
      /\ \A e : Reply(e) => OnlyUp(e)'
  BY <1>1 DEF Received, Device, m
<1>3. /\ dev' = [phase |-> "RECEIVING", image |-> m.image, total |-> m.total, got |-> 0,
                 staged |-> <<>>]
      /\ Reply(Ack("OK", 0))
  BY <1>1, <1>2 DEF HandleStart
<1>4. /\ dev'.phase = "RECEIVING" /\ dev'.image = session.image /\ dev'.total = session.total
      /\ dev'.got = 0 /\ dev'.staged = <<>>
  BY <1>1, <1>3
<1>5. DOMAIN dev'.staged = {} /\ Cardinality(DOMAIN dev'.staged) = 0 /\ 0..(dev'.got - 1) = {}
  <2>1. DOMAIN <<>> = {}
    OBVIOUS
  <2> QED BY <1>4, <2>1, FS_EmptySet
<1>6. Own'
  BY <1>2, <1>4, <1>5 DEF Own
<1>7. OnlyEvent(Ack("OK", dev.got))'
  BY <1>2, <1>3, <1>4 DEF OnlyEvent
<1>8. /\ InStep' /\ Sound' /\ Paid(0)' /\ Tries(0, Extra(IfWeak(0, 1)))' /\ Live'
      /\ primary' # session'.image
  BY <1>2 DEF InStep, Sound, Paid, Tries, Extra, IfWeak, Weak, Live, Stale
<1>9. Sending'
  BY <1>4, <1>6, <1>7, <1>8 DEF Sending
<1> QED BY <1>8, <1>9 DEF StepInv

(* The device runs it already.                                             *)
LEMMA StartKnown ==
    ASSUME Received(StartMsg(session)), dev.phase # "COMPLETE", primary = session.image
    PROVE  OnlyEvent(Complete("OK"))' /\ UNCHANGED <<session, baseline, dev, primary, faults, happened>>
<1>1. StartMsg(session).kind = "START" /\ StartMsg(session).image = session.image
  BY Apart
<1>2. HandleStart(StartMsg(session)) /\ UNCHANGED <<session, baseline, faults, happened, primary>>
      /\ \A e : Reply(e) => OnlyUp(e)'
  BY <1>1 DEF Received, Device
<1>3. Reply(Complete("OK")) /\ UNCHANGED dev
  BY <1>1, <1>2 DEF HandleStart
<1> QED BY <1>2, <1>3 DEF OnlyEvent

(* The device knows no session.                                            *)
LEMMA ChunkUnknown ==
    ASSUME NEW m, m.kind = "CHUNK", Received(m), dev.phase # "RECEIVING"
    PROVE  OnlyEvent(Ack("NO_SESSION", 0))' /\ UNCHANGED <<session, baseline, dev, primary, faults, happened>>
<1>1. HandleChunk(m) /\ UNCHANGED <<session, baseline, faults, happened, primary>>
      /\ \A e : Reply(e) => OnlyUp(e)'
  BY DEF Received, Device
<1>2. UNCHANGED dev /\ Reply(Ack("NO_SESSION", 0))
  BY <1>1 DEF HandleChunk
<1> QED BY <1>1, <1>2 DEF OnlyEvent

(* The device takes a chunk that is its image's.                           *)
LEMMA ChunkReceived ==
    ASSUME SessionInv, Quiet, Chunks > 1, Live, Sending, ~Weak, Tries(0, Extra(2)),
           NEW i \in 0..(Chunks - 1), Received(ChunkMsg(session.image, i)),
           session.delta => i \in session.list, ~session.delta => i = session.next
    PROVE  StepInv'
<1> DEFINE m == ChunkMsg(session.image, i)
           d == Staged(m)
<1>1. m.kind = "CHUNK" /\ m.idx = i /\ m.data = session.image[i]
  BY Apart
<1> HIDE DEF m
<1>2. HandleChunk(m) /\ UNCHANGED <<session, baseline, faults, happened, primary>>
      /\ \A e : Reply(e) => OnlyUp(e)'
  BY <1>1 DEF Received, Device, m
<1>3. /\ session.retries \in Nat /\ faults \in Nat /\ session.next \in Nat /\ session.highest \in Nat
      /\ dev.got \in Nat /\ dev.total \in Nat /\ Chunks \in Nat /\ DOMAIN dev = DOMAIN Idle
      /\ session.list \in SUBSET (0..(Chunks - 1)) /\ IsFiniteSet(session.list)
      /\ Cardinality(session.list) \in Nat
      /\ session.image \in Images
      /\ session.delta => session.total = Cardinality(session.list) /\ session.total < Chunks
      /\ ~session.delta => session.total = Chunks
  BY Facts DEF Live
<1>4. /\ dev.phase = "RECEIVING" /\ primary # session.image /\ InStep /\ Sound /\ Own /\ Paid(0)
  BY DEF Sending
<1>5. /\ InStep' /\ Sound' /\ Paid(0)' /\ Tries(0, Extra(2))' /\ Live' /\ ~Weak'
      /\ primary' # session'.image
  BY <1>2, <1>4 DEF InStep, Sound, Paid, Tries, Extra, Weak, Live, Stale
<1>6. Delta <=> session.delta
  BY <1>3, <1>4 DEF Delta, Own
<1>7. i \in DOMAIN dev.staged => dev.got > 0
  <2>1. CASE session.delta
    <3>1. IsFiniteSet(DOMAIN dev.staged) /\ Cardinality(DOMAIN dev.staged) = dev.got
      BY <1>3, <1>4, <2>1, FS_Subset DEF Own
    <3>2. dev.got = 0 => DOMAIN dev.staged = {}
      BY <3>1, FS_EmptySet
    <3> QED BY <1>3, <3>2
  <2>2. CASE ~session.delta
    <3>1. DOMAIN dev.staged = 0..(dev.got - 1)
      BY <1>4, <2>2 DEF Own
    <3> QED BY <1>3, <3>1
  <2> QED BY <2>1, <2>2
<1>8. CASE i \in DOMAIN dev.staged
  <2>1. IF Delta THEN m.idx \in DOMAIN dev.staged ELSE m.idx < dev.got
    BY <1>1, <1>3, <1>4, <1>6, <1>8 DEF Own
  <2>2. UNCHANGED dev /\ Reply(Ack("OK", dev.got))
    BY <1>2, <1>4, <2>1 DEF HandleChunk
  <2>3. OnlyEvent(Ack("OK", dev.got))' /\ Own'
    BY <1>2, <1>4, <2>2 DEF OnlyEvent, Own
  <2>4. session'.delta \/ dev'.got > session'.next
    <3>1. ~session.delta => i = session.next /\ i < dev.got
      BY <1>1, <1>6, <2>1
    <3> QED BY <1>2, <1>3, <2>2, <3>1
  <2>5. Sending'
    BY <1>2, <1>4, <1>5, <1>7, <1>8, <2>2, <2>3, <2>4 DEF Sending
  <2> QED BY <1>5, <2>5 DEF StepInv
<1>9. CASE i \notin DOMAIN dev.staged
  <2>1. ~session.delta => i = dev.got /\ dev.got = session.next
    <3> SUFFICES ASSUME ~session.delta PROVE i = dev.got /\ dev.got = session.next
      OBVIOUS
    <3>1. i = session.next /\ session.next = session.highest /\ session.highest <= dev.got
          /\ DOMAIN dev.staged = 0..(dev.got - 1)
      BY <1>4 DEF Own
    <3>2. ~(i < dev.got)
      BY <1>3, <1>9, <3>1
    <3> QED BY <1>3, <3>1, <3>2
  <2>2. ~(IF Delta THEN m.idx \in DOMAIN dev.staged ELSE m.idx < dev.got)
    BY <1>1, <1>3, <1>6, <1>9, <2>1
  <2>3. ~(~Delta /\ m.idx > dev.got)
    BY <1>1, <1>3, <1>6, <2>1
  <2>4. Store(d)
    BY <1>2, <1>4, <2>2, <2>3 DEF HandleChunk
  <2>5. /\ DOMAIN d = DOMAIN dev /\ d.phase = "RECEIVING" /\ d.image = session.image
        /\ d.total = session.total /\ d.got = dev.got + 1
        /\ DOMAIN d.staged = DOMAIN dev.staged \cup {i}
        /\ \A j \in DOMAIN d.staged : d.staged[j] = session.image[j]
    BY <1>1, <1>3, <1>4 DEF Staged, Own, Idle
  <2> HIDE DEF d
  <2>6. session.delta => /\ DOMAIN d.staged \subseteq session.list
                         /\ Cardinality(DOMAIN d.staged) = dev.got + 1
    <3> SUFFICES ASSUME session.delta
                 PROVE  /\ DOMAIN d.staged \subseteq session.list
                        /\ Cardinality(DOMAIN d.staged) = dev.got + 1
      OBVIOUS
    <3>1. DOMAIN dev.staged \subseteq session.list /\ Cardinality(DOMAIN dev.staged) = dev.got
      BY <1>4 DEF Own
    <3>2. IsFiniteSet(DOMAIN dev.staged)
      BY <1>3, <3>1, FS_Subset
    <3>3. Cardinality(DOMAIN dev.staged \cup {i}) = dev.got + 1
      BY <1>9, <3>1, <3>2, FS_AddElement
    <3> QED BY <2>5, <3>1, <3>3
  <2>7. ~session.delta => DOMAIN d.staged = 0..dev.got
    <3> SUFFICES ASSUME ~session.delta PROVE DOMAIN d.staged = 0..dev.got
      OBVIOUS
    <3>1. DOMAIN dev.staged = 0..(dev.got - 1)
      BY <1>4 DEF Own
    <3>2. 0..dev.got = (0..(dev.got - 1)) \cup {dev.got}
      BY <1>3
    <3> QED BY <2>1, <2>5, <3>1, <3>2
  <2>8. CASE d.got < d.total
    <3>1. dev' = d /\ Reply(Ack("OK", d.got))
      BY <2>4, <2>8 DEF Store
    <3>2. OnlyEvent(Ack("OK", dev.got))' /\ dev'.got > 0
      BY <1>2, <1>3, <2>5, <3>1 DEF OnlyEvent
    <3>3. Own'
      <4>1. dev'.image = session'.image /\ dev'.total = session'.total /\ dev'.got < dev'.total
        BY <1>2, <2>5, <2>8, <3>1
      <4>2. session'.highest <= dev'.got
        BY <1>2, <1>3, <1>4, <2>5, <3>1 DEF Own
      <4>3. session'.delta => /\ session'.cursor = session'.highest
                              /\ DOMAIN dev'.staged \subseteq session'.list
                              /\ Cardinality(DOMAIN dev'.staged) = dev'.got
        BY <1>2, <1>4, <2>5, <2>6, <3>1 DEF Own
      <4>4. ~session'.delta => /\ session'.next = session'.highest
                               /\ DOMAIN dev'.staged = 0..(dev'.got - 1)
        <5>1. dev'.got - 1 = dev.got
          BY <1>3, <2>5, <3>1
        <5>2. ~session.delta => session.next = session.highest
          BY <1>4 DEF Own
        <5> QED BY <1>2, <2>7, <3>1, <5>1, <5>2
      <4>5. \A j \in DOMAIN dev'.staged : dev'.staged[j] = session'.image[j]
        BY <1>2, <2>5, <3>1
      <4> QED BY <4>1, <4>2, <4>3, <4>4, <4>5 DEF Own
    <3>4. session'.delta \/ dev'.got > session'.next
      BY <1>2, <1>3, <2>1, <2>5, <3>1
    <3>5. dev'.phase = "RECEIVING"
      BY <2>5, <3>1
    <3>6. Sending'
      BY <1>5, <3>2, <3>3, <3>4, <3>5 DEF Sending
    <3> QED BY <1>5, <3>6 DEF StepInv
  <2>9. CASE ~(d.got < d.total)
    <3>1. dev.got + 1 = session.total
      BY <1>3, <1>4, <2>5, <2>9 DEF Own
    <3>2. \A j \in 0..(Chunks - 1) : j \in DOMAIN d.staged \/ primary[j] = session.image[j]
      <4>1. CASE ~session.delta
        <5>1. DOMAIN d.staged = 0..(Chunks - 1)
          BY <1>3, <2>7, <3>1, <4>1
        <5> QED BY <5>1
      <4>2. CASE session.delta
        <5>1. DOMAIN d.staged = session.list
          <6>1. DOMAIN d.staged \in SUBSET session.list
                /\ Cardinality(DOMAIN d.staged) = Cardinality(session.list)
            BY <1>3, <2>6, <3>1, <4>2
          <6> QED BY <1>3, <6>1, FS_Subset
        <5>2. Changed(primary, session.image) \subseteq session.list
          BY <1>4, <4>2 DEF Sound
        <5>3. DOMAIN session.image = 0..(Chunks - 1)
          BY <1>3, ImageAssumption
        <5> QED BY <5>1, <5>2, <5>3 DEF Changed
      <4> QED BY <4>1, <4>2
    <3>3. Merged(d) = d.image
      BY <1>3, <2>5, <3>2, Whole
    <3>4. dev' = [d EXCEPT !.phase = "COMPLETE"] /\ Reply(Complete("OK"))
      BY <2>4, <2>9, <3>3 DEF Store
    <3>5. dev'.phase = "COMPLETE" /\ dev'.image = session.image
      BY <1>3, <2>5, <3>4 DEF Idle
    <3>6. OnlyEvent(Complete("OK"))'
      BY <1>2, <3>4 DEF OnlyEvent
    <3>7. Sendable'
      <4>1. session.delta => session.cursor < Cardinality(session.list)
        BY <1>3, <1>4, <3>1 DEF Own
      <4>2. ~session.delta => session.next < Chunks
        BY <1>3, <2>1, <3>1
      <4> QED BY <1>2, <4>1, <4>2 DEF Sendable
    <3>8. Tries(0, 0)'
      <4>1. Extra(2) = 0
        <5>1. ~session.delta => session.next # 0
          BY <1>3, <2>1, <3>1
        <5> QED BY <5>1 DEF Extra
      <4> QED BY <1>2, <4>1 DEF Tries
    <3>9. Applying'
      BY <1>2, <1>5, <3>5, <3>6, <3>7, <3>8 DEF Applying
    <3> QED BY <1>5, <3>9 DEF StepInv
  <2> QED BY <2>8, <2>9
<1> QED BY <1>8, <1>9

(* With a stale delta: what the device reports, it did.                    *)
LEMMA OutdatedReceived ==
    ASSUME SessionInv, Outdated, NEW m, OnlyDown(m), Received(m)
    PROVE  StepInv'
<1>1. /\ (\A e : ~OnlyEvent(e)) /\ \A n : OnlyDown(n) => n = m
  BY Where DEF Exclusive
<1>2. UNCHANGED <<session, baseline, faults, happened, primary>>
      /\ (UNCHANGED up => NoMessage') /\ \A e : Reply(e) => OnlyUp(e)'
  BY DEF Received, Device
<1>3. /\ session.present /\ Stale /\ dev.phase # "COMPLETE" /\ InStep
      /\ dev.phase = "RECEIVING" => dev.image = session.image \/ m = StartMsg(session)
      /\ m.kind = "START" => m.image = session.image
  BY <1>1 DEF Outdated
<1>4. session'.present /\ Stale' /\ InStep'
  BY <1>2, <1>3 DEF Stale, InStep
<1>5. ASSUME NEW e, OnlyUp(e)' PROVE OnlyOne' /\ (\A n : ~OnlyDown(n)') /\ OnlyEvent(e)'
                                      /\ \A f : OnlyEvent(f)' => f = e
  BY <1>5, WhereNext DEF Exclusive, OnlyOne, OnlyEvent
<1>6. ASSUME NEW e, OnlyUp(e)', e # Complete("OK"), dev'.phase # "COMPLETE",
             dev'.phase = "RECEIVING" => dev'.image = session'.image
      PROVE  Outdated'
  <2>1. ~OnlyEvent(Complete("OK"))'
    BY <1>5, <1>6
  <2> QED BY <1>4, <1>5, <1>6, <2>1 DEF Outdated
<1>7. CASE m.kind = "START"
  <2>1. HandleStart(m)
    BY <1>7 DEF Received
  <2>2. CASE primary = m.image
    <3>1. Reply(Complete("OK")) /\ UNCHANGED dev
      BY <1>3, <2>1, <2>2 DEF HandleStart
    <3>2. OnlyUp(Complete("OK"))' /\ primary' = session'.image /\ dev'.phase # "COMPLETE"
      BY <1>2, <1>3, <1>7, <2>2, <3>1
    <3>3. Outdated'
      BY <1>4, <1>5, <3>2 DEF Outdated
    <3> QED BY <3>3 DEF StepInv
  <2>3. CASE primary # m.image
    <3>1. dev' = [phase |-> "RECEIVING", image |-> m.image,
                  total |-> m.total, got |-> 0, staged |-> <<>>] /\ Reply(Ack("OK", 0))
      BY <1>3, <2>1, <2>3 DEF HandleStart
    <3>2. dev'.phase = "RECEIVING" /\ dev'.image = session'.image
      BY <1>2, <1>3, <1>7, <3>1
    <3>3. Outdated'
      BY <1>2, <1>6, <3>1, <3>2, Apart
    <3> QED BY <3>3 DEF StepInv
  <2> QED BY <2>2, <2>3
<1>8. CASE m.kind = "CHUNK"
  <2>1. HandleChunk(m)
    BY <1>8 DEF Received
  <2>2. dev.phase = "RECEIVING" => dev.image = session.image
    BY <1>3, <1>8, Apart
  <2>3. CASE UNCHANGED dev /\ \E st, n : Reply(Ack(st, n))
    <3>1. PICK st, n : Reply(Ack(st, n))
      BY <2>3
    <3>2. Outdated'
      BY <1>2, <1>3, <1>6, <2>2, <2>3, <3>1, Apart
    <3> QED BY <3>2 DEF StepInv
  <2>4. CASE dev.phase = "RECEIVING" /\ Store(Staged(m))
    <3> DEFINE d == Staged(m)
    <3>1. DOMAIN d = DOMAIN Idle /\ d.image = session.image /\ d.phase = "RECEIVING"
      BY <2>2, <2>4 DEF Staged, SessionInv, DeviceInv, Assembled, Idle
    <3> HIDE DEF d
    <3>2. \/ dev' = d /\ Reply(Ack("OK", d.got))
          \/ dev' = [d EXCEPT !.phase = "COMPLETE"] /\ Reply(Complete("OK"))
          \/ dev' = [d EXCEPT !.phase = "ERROR"] /\ Reply(Complete("CRC_ERR"))
      BY <2>4 DEF Store, d
    <3>3. CASE dev' = d /\ Reply(Ack("OK", d.got))
      <4>1. Outdated'
        BY <1>2, <1>6, <3>1, <3>3, Apart
      <4> QED BY <4>1 DEF StepInv
    <3>4. CASE dev' = [d EXCEPT !.phase = "COMPLETE"] /\ Reply(Complete("OK"))
      <4>1. dev'.phase = "COMPLETE" /\ dev'.image = session'.image
        BY <1>2, <3>1, <3>4 DEF Idle
      <4>2. Outdated'
        BY <1>2, <1>4, <1>5, <3>4, <4>1 DEF Outdated
      <4> QED BY <4>2 DEF StepInv
    <3>5. CASE dev' = [d EXCEPT !.phase = "ERROR"] /\ Reply(Complete("CRC_ERR"))
      <4>1. dev'.phase = "ERROR"
        BY <3>1, <3>5 DEF Idle
      <4>2. Complete("CRC_ERR") # Complete("OK")
        BY Apart
      <4>3. Outdated'
        BY <1>2, <1>6, <3>5, <4>1, <4>2
      <4> QED BY <4>3 DEF StepInv
    <3> QED BY <3>2, <3>3, <3>4, <3>5
  <2> QED BY <2>1, <2>3, <2>4 DEF HandleChunk
<1>9. CASE m.kind = "ABORT"
  <2>1. dev' = Idle /\ NoMessage'
    BY <1>2, <1>9 DEF Received
  <2>2. dev'.phase = "IDLE"
    BY <2>1 DEF Idle
  <2>3. OnlyOne' /\ (\A n : ~OnlyDown(n)') /\ (\A f : ~OnlyEvent(f)')
    BY <2>1, WhereNext DEF Exclusive, OnlyOne
  <2>4. Outdated'
    BY <1>4, <2>2, <2>3 DEF Outdated
  <2> QED BY <2>4 DEF StepInv
<1>10. m.kind \in {"START", "CHUNK", "ABORT"}
  <2>1. m \in BagToSet(down)
    BY OneBag DEF OnlyDown
  <2> QED BY <2>1 DEF SessionInv, LinkInv, Downlink
<1> QED BY <1>7, <1>8, <1>9, <1>10

(* A message reaches the device.                                           *)
LEMMA ReceivedStep ==
    ASSUME SessionInv, StepInv, Quiet, Chunks > 1, NEW m, OnlyDown(m), Received(m)
    PROVE  StepInv'
<1>1. /\ ~NoMessage /\ ~Waits /\ (\A e : ~OnlyEvent(e)) /\ \A n : OnlyDown(n) => n = m
  BY Where DEF Exclusive, Waits, OnlyEvent
<1>2. UNCHANGED <<session, baseline, faults, happened, primary>>
  BY DEF Received, Device
<1>3. /\ faults \in Nat /\ session.retries \in Nat /\ session.restarts \in Nat
      /\ session.next \in Nat /\ session.highest \in Nat /\ session.cursor \in Nat
      /\ dev.got \in Nat /\ session.total \in Nat /\ Chunks \in Nat
      /\ Cardinality(session.list) \in Nat
      /\ session.present /\ session.delta => session.total = Cardinality(session.list)
      /\ session.present /\ ~session.delta => session.total = Chunks
  BY Facts
<1>4. (Live => Live') /\ (Stale <=> Stale') /\ (InStep <=> InStep')
  BY <1>2 DEF Live, Stale, InStep
<1>5. CASE Between
  <2>1. m = AbortMsg /\ InStep /\ ~session.present
    BY <1>1, <1>5 DEF Between
  <2>2. dev' = Idle /\ NoMessage'
    BY <2>1, Apart DEF Received
  <2>3. dev'.phase = "IDLE"
    BY <2>2 DEF Idle
  <2>4. ~session'.present /\ InStep'
    BY <1>2, <1>4, <2>1
  <2> QED BY <2>2, <2>3, <2>4 DEF Between, StepInv
<1>6. CASE Live /\ Announcing
  <2>0. dev.phase = "IDLE" /\ primary # session.image /\ InStep /\ Sound /\ Fresh /\ Sendable
    BY <1>6 DEF Announcing
  <2>1. CASE m = StartMsg(session) /\ Tries(0, 0) /\ Paid(IfWeak(0, 1))
    <3>1. Tries(0, Extra(IfWeak(0, 1))) /\ Paid(0)
      BY <1>3, <2>1 DEF Tries, Extra, IfWeak, Paid
    <3>2. session.total > 0
      BY <1>3, <1>6, <2>0 DEF Sendable, Fresh, Live
    <3> QED BY <1>6, <2>0, <2>1, <3>1, <3>2, StartAccepted DEF Fresh
  <2>2. CASE ChunkDown /\ Tries(0, 0) /\ Paid(2)
    <3>1. m.kind = "CHUNK"
      BY <1>1, <2>2, Apart DEF ChunkDown
    <3>2. OnlyEvent(Ack("NO_SESSION", 0))' /\ UNCHANGED dev
      BY <2>0, <3>1, ChunkUnknown
    <3>3. Tries(0, 0)' /\ Paid(2)' /\ Sound' /\ Fresh' /\ Sendable'
      BY <1>2, <2>0, <2>2 DEF Tries, Paid, Sound, Fresh, Sendable
    <3>4. Announcing'
      BY <1>2, <1>4, <2>0, <3>2, <3>3 DEF Announcing
    <3> QED BY <1>4, <1>6, <3>4 DEF StepInv
  <2> QED BY <1>1, <1>6, <2>1, <2>2 DEF Announcing
<1>7. CASE Live /\ Sending
  <2>0. dev.phase = "RECEIVING" /\ primary # session.image /\ InStep /\ Sound /\ Own /\ Paid(0)
    BY <1>7 DEF Sending
  <2>1. CASE m = StartMsg(session) /\ dev.got = 0 /\ Tries(0, Extra(IfWeak(0, 1)))
    <3>1. session.highest = 0 /\ session.total > 0
      BY <1>3, <2>0, <2>1 DEF Own
    <3>2. (session.delta => session.cursor = 0) /\ (~session.delta => session.next = 0)
      BY <2>0, <3>1 DEF Own
    <3> QED BY <1>7, <2>0, <2>1, <3>1, <3>2, StartAccepted
  <2>2. CASE ChunkDown /\ ~Weak /\ Tries(0, Extra(2))
    <3>1. PICK i \in 0..(Chunks - 1) : /\ OnlyDown(ChunkMsg(session.image, i))
                                       /\ IF session.delta THEN i \in session.list ELSE i = session.next
      BY <2>2 DEF ChunkDown
    <3>2. m = ChunkMsg(session.image, i)
      BY <1>1, <3>1
    <3> QED BY <1>7, <2>2, <3>1, <3>2, ChunkReceived
  <2> QED BY <1>1, <1>7, <2>1, <2>2 DEF Sending
<1>8. CASE Live /\ Installed
  <2>0. dev.phase = "IDLE" /\ primary = session.image
    BY <1>8 DEF Installed
  <2>1. CASE m = StartMsg(session) /\ Owed(0, IfWeak(-1, 0))
    <3>1. OnlyEvent(Complete("OK"))' /\ UNCHANGED dev
      BY <2>0, <2>1, StartKnown
    <3>2. Owed(0, IfWeak(-1, 0))'
      BY <1>2, <2>1 DEF Owed, InStep, Tries, Paid, IfWeak, Weak, Sendable
    <3>3. Installed'
      BY <1>2, <2>0, <3>1, <3>2 DEF Installed
    <3> QED BY <1>4, <1>8, <3>3 DEF StepInv
  <2>2. CASE (\E i \in 0..(Chunks - 1) : OnlyDown(ChunkMsg(session.image, i))) /\ Owed(0, 1)
    <3>1. m.kind = "CHUNK"
      BY <1>1, <2>2, Apart
    <3>2. OnlyEvent(Ack("NO_SESSION", 0))' /\ UNCHANGED dev
      BY <2>0, <3>1, ChunkUnknown
    <3>3. Owed(0, 1)'
      BY <1>2, <2>2 DEF Owed, InStep, Tries, Paid, Sendable
    <3>4. Installed'
      BY <1>2, <2>0, <3>2, <3>3 DEF Installed
    <3> QED BY <1>4, <1>8, <3>4 DEF StepInv
  <2> QED BY <1>1, <1>8, <2>1, <2>2 DEF Installed
<1>9. CASE Live /\ Leftover
  <2>0. /\ dev.phase = "RECEIVING" /\ Spent /\ InStep
        /\ m = StartMsg(session) /\ Fresh /\ Sound /\ Weak
        /\ primary # session.image => Sendable
        /\ session.retries = 0 /\ session.restarts = 0
    BY <1>1, <1>9 DEF Leftover
  <2>1. CASE primary = session.image
    <3>1. OnlyEvent(Complete("OK"))' /\ UNCHANGED dev
      BY <2>0, <2>1, StartKnown
    <3>2. Leftover'
      BY <1>2, <1>4, <2>0, <2>1, <3>1 DEF Leftover, Spent
    <3> QED BY <1>4, <1>9, <3>2 DEF StepInv
  <2>2. CASE primary # session.image
    <3>1. Tries(0, Extra(IfWeak(0, 1))) /\ Paid(0)
      BY <1>3, <2>0 DEF Tries, Extra, IfWeak, Paid
    <3>2. session.total > 0
      BY <1>3, <1>9, <2>0, <2>2 DEF Sendable, Fresh, Live
    <3> QED BY <1>9, <2>0, <2>2, <3>1, <3>2, StartAccepted DEF Fresh
  <2> QED BY <2>1, <2>2
<1>10. CASE Outdated
  BY <1>10, OutdatedReceived
<1>11. ~Applying
  BY <1>1 DEF Applying
<1> QED BY <1>5, <1>6, <1>7, <1>8, <1>9, <1>10, <1>11 DEF StepInv

-----------------------------------------------------------------------------
(* An invocation ends.                                                     *)
EnoughRetries == MaxFaults < MaxRetries /\ MaxFaults < 2 * MaxRestarts /\ Chunks > 1

LEMMA AckSplits ==
    ASSUME session.present, NEW n
    PROVE  /\ HandleAck(session, Ack("NO_SESSION", n)) => RestartSession(session)
           /\ HandleAck(session, Ack("FLASH_ERR", n)) => RetryChunk(session, Ack("FLASH_ERR", n))
           /\ HandleAck(session, Ack("OK", n)) /\ ~(n < session.highest) =>
                  IF session.delta THEN DeltaProgress(session, Ack("OK", n))
                  ELSE FullProgress(session, Ack("OK", n))
  BY Apart DEF HandleAck

LEMMA AckEnded == ASSUME NEW e, e.kind = "ACK", Ended(e) PROVE HandleAck(session, e)
  BY DEF Ended

LEMMA ChunkPosted ==
    ASSUME SessionInv, Quiet, session.present, Carried, NEW e, Ended(e),
           NEW i \in 0..(Chunks - 1), SendChunk(session, i)
    PROVE  OnlyDown(ChunkMsg(session.image, i))'
<1>1. Post(ChunkMsg(session.image, i))
  BY Facts DEF SendChunk
<1>2. OnlyDown(ChunkMsg(session.image, i))' <=> down' = One(ChunkMsg(session.image, i)) /\ up' = EmptyBag /\ running' = EmptyBag
  BY DEF OnlyDown, Carried, ChunkMsg
<1>3. \A m : Post(m) => down' = One(m) /\ up' = EmptyBag /\ running' = EmptyBag
  BY DEF Ended, OnlyDown
<1> QED BY <1>1, <1>2, <1>3

LEMMA StartPosted ==
    ASSUME Carried, NEW e, Ended(e), Post(StartMsg(session)) \/ Post(StartMsg(session)')
    PROVE  OnlyDown(StartMsg(session))'
<1>1. StartMsg(session)' = StartMsg(session)
  BY DEF Carried, StartMsg
<1>2. \A m : Post(m) => down' = One(m) /\ up' = EmptyBag /\ running' = EmptyBag
  BY DEF Ended, OnlyDown
<1> QED BY <1>1, <1>2 DEF OnlyDown

LEMMA RepeatsWeak ==
    ASSUME Carried, NEW e, Ended(e), Repeat(session), Weak
    PROVE  OnlyDown(StartMsg(session))'
  BY StartPosted DEF Repeat, Weak

LEMMA RepeatsChunk ==
    ASSUME SessionInv, Quiet, session.present, Carried, NEW e, Ended(e), Repeat(session), ~Weak,
           Sendable
    PROVE  \E i \in 0..(Chunks - 1) :
               /\ OnlyDown(ChunkMsg(session.image, i))'
               /\ IF session.delta THEN i \in session.list ELSE i = session.next
<1>1. session.next \in Nat /\ session.cursor \in Nat /\ Chunks \in Nat
  BY Facts
<1>2. CASE session.delta
  <2>1. SendChunk(session, Nth(session.list, session.cursor))
    BY <1>2 DEF Repeat, Weak, InList, Sendable
  <2>2. Nth(session.list, session.cursor) \in session.list /\ Nth(session.list, session.cursor) \in 0..(Chunks - 1)
    BY <1>1, <1>2, NthListed DEF Sendable
  <2> QED BY <1>2, <2>1, <2>2, ChunkPosted
<1>3. CASE ~session.delta
  <2>1. SendChunk(session, session.next)
    BY <1>3 DEF Repeat, Weak
  <2>2. session.next \in 0..(Chunks - 1)
    BY <1>1, <1>3 DEF Sendable
  <2> QED BY <1>3, <2>1, <2>2, ChunkPosted
<1> QED BY <1>2, <1>3

LEMMA GivenUpStep ==
    ASSUME NEW e, Ended(e), GivenUp, Mute \/ Post(AbortMsg), InStep, dev.phase # "COMPLETE",
           dev.phase = "RECEIVING" => Spent, dev.phase = "ERROR" => Stale
    PROVE  StepInv'
<1>1. NoMessage' \/ OnlyDown(AbortMsg)'
  BY DEF Ended
<1>2. ~session'.present /\ InStep' /\ (Spent => Spent') /\ (Stale => Stale') /\ UNCHANGED dev
  BY DEF GivenUp, NoSession, Ended, Cloud, InStep, Spent, Stale
<1>3. Between'
  BY <1>1, <1>2 DEF Between
<1> QED BY <1>3 DEF StepInv

LEMMA CompletedStep ==
    ASSUME SessionInv, Ended(Complete("OK")), session.present,
           \/ dev.phase = "COMPLETE" /\ dev.image = session.image
           \/ /\ dev.phase # "COMPLETE" /\ primary = session.image
              /\ dev.phase = "RECEIVING" => Spent
              /\ dev.phase = "ERROR" => Stale
    PROVE  StepInv'
<1>1. HandleComplete(session, Complete("OK")) /\ (Mute => NoMessage')
      /\ UNCHANGED <<dev, primary, faults, happened>>
  BY Apart DEF Ended, Cloud
<1>2. session' = NoSession /\ baseline' = session.image /\ NoMessage'
  <2>1. ~Trouble("unsaved")
    <3>1. faults \in Nat
      BY FaultAssumption DEF SessionInv, CloudInv
    <3> QED BY <1>1, <3>1 DEF Trouble
  <2> QED BY <1>1, <2>1, Apart, Cleared DEF HandleComplete
<1>3. ~session'.present /\ (Spent => Spent') /\ (Stale => Stale')
  BY <1>1, <1>2 DEF NoSession, Spent, Stale
<1>4. Between'
  <2>1. CASE dev.phase = "COMPLETE" /\ dev.image = session.image
    BY <1>1, <1>2, <1>3, <2>1 DEF Between
  <2>2. CASE /\ dev.phase # "COMPLETE" /\ primary = session.image
             /\ dev.phase = "RECEIVING" => Spent
             /\ dev.phase = "ERROR" => Stale
    <3>1. InStep'
      BY <1>1, <1>2, <2>2 DEF InStep
    <3> QED BY <1>1, <1>2, <1>3, <2>2, <3>1 DEF Between
  <2> QED BY <2>1, <2>2
<1> QED BY <1>4 DEF StepInv

LEMMA AnnouncingEnded ==
    ASSUME SessionInv, Quiet, EnoughRetries, Live, Announcing, NEW e, OnlyRun(e), Ended(e)
    PROVE  StepInv'
<1>1. /\ ~NoMessage /\ (\A m : ~OnlyDown(m)) /\ (\A f : OnlyEvent(f) => f = e) /\ (Waits => e = Tick)
  BY Where DEF Exclusive, OnlyEvent, Waits
<1>2. UNCHANGED <<dev, primary, faults, happened>> /\ session.present
  BY DEF Ended, Cloud, Live
<1>3. /\ MaxRetries \in Nat /\ MaxRestarts \in Nat /\ MaxFaults \in Nat /\ Chunks \in Nat
      /\ faults \in Nat /\ faults <= MaxFaults /\ session.retries \in Nat
      /\ session.restarts \in Nat /\ session.cursor \in Nat
  BY Facts
<1>4. dev.phase = "IDLE" /\ primary # session.image /\ InStep /\ Sound /\ Fresh /\ Sendable
  BY DEF Announcing
<1>5. Carried => Live' /\ InStep' /\ Sound' /\ primary' # session'.image /\ dev'.phase = "IDLE"
  BY <1>2, <1>4 DEF Carried, Live, Stale, InStep, Sound
<1>6. Carried /\ UNCHANGED <<session.next, session.highest, session.cursor>> => Fresh' /\ Sendable'
  BY <1>4 DEF Carried, Fresh, Sendable
<1>7. Tries(1, 0) => session.retries < MaxRetries
  BY <1>3 DEF EnoughRetries, Tries
<1>8. CASE e = Tick /\ Tries(1, 0) /\ Paid(IfWeak(1, 2))
  <2>1. HandleTick(session)
    BY <1>8, Apart DEF Ended
  <2>2. Again(session.next) /\ Repeat(session)
    BY <1>2, <1>3, <1>7, <1>8, <2>1, TicksSession
  <2>3. Tries(0, 0)' /\ ~Weak' /\ Paid(IfWeak(1, 2))'= Paid(2)
    BY <1>2, <1>3, <1>8, <2>2 DEF Tries, Weak, Again, Paid, IfWeak
  <2>4. CASE Weak
    <3>1. OnlyDown(StartMsg(session))'
      BY <2>2, <2>4, RepeatsWeak DEF Again
    <3>2. Paid(IfWeak(0, 1))'
      BY <1>2, <1>3, <1>8, <2>2, <2>3, <2>4 DEF Again, Paid, IfWeak
    <3>3. Announcing'
      BY <1>5, <1>6, <2>2, <2>3, <3>1, <3>2 DEF Announcing, Again
    <3> QED BY <1>5, <2>2, <3>3 DEF StepInv, Again
  <2>5. CASE ~Weak
    <3>1. ChunkDown'
      BY <1>2, <1>4, <2>2, <2>5, RepeatsChunk DEF Again, Carried, ChunkDown
    <3>2. Paid(2)'
      BY <1>2, <1>3, <1>8, <2>2, <2>5 DEF Again, Paid, IfWeak
    <3>3. Announcing'
      BY <1>5, <1>6, <2>2, <2>3, <3>1, <3>2 DEF Announcing, Again
    <3> QED BY <1>5, <2>2, <3>3 DEF StepInv, Again
  <2> QED BY <2>4, <2>5
<1>9. CASE e = Ack("NO_SESSION", 0) /\ Tries(0, 0) /\ Paid(2)
  <2>1. RestartSession(session)
    BY <1>2, <1>9, Apart, AckSplits DEF Ended
  <2>2. session.restarts < MaxRestarts
    BY <1>3, <1>9 DEF EnoughRetries, Paid
  <2>3. Restarted
    BY <1>2, <1>3, <2>1, <2>2, RestartsSession
  <2>4. OnlyDown(StartMsg(session))'
    BY <2>3, StartPosted DEF Restarted
  <2>5. Tries(0, 0)' /\ Weak'
    BY <1>2, <1>9, <2>3 DEF Restarted, Tries, Weak
  <2>6. Paid(IfWeak(0, 1))'
    BY <1>2, <1>3, <1>9, <2>3, <2>5 DEF Restarted, Paid, IfWeak
  <2>7. Announcing'
    BY <1>5, <1>6, <2>3, <2>4, <2>5, <2>6 DEF Announcing, Restarted
  <2> QED BY <1>5, <2>3, <2>7 DEF StepInv, Restarted
<1>10. CASE e = Ack("FLASH_ERR", 0) /\ Tries(1, 0) /\ Paid(2)
  <2>1. RetryChunk(session, e) /\ e.got = 0
    <3>1. HandleAck(session, Ack("FLASH_ERR", 0))
      BY <1>10, Apart, AckEnded
    <3> QED BY <1>2, <1>10, <3>1, Apart, AckSplits
  <2>2. Again(0) /\ SendChunk(session, IF InList(session) THEN Nth(session.list, session.cursor) ELSE 0)
    BY <1>2, <1>3, <1>7, <1>10, <2>1, RetriesChunk
  <2>3. ChunkDown'
    <3>1. CASE session.delta
      <4>1. InList(session) /\ session.cursor < Cardinality(session.list)
        BY <1>4, <3>1 DEF InList, Sendable
      <4>2. Nth(session.list, session.cursor) \in session.list
            /\ Nth(session.list, session.cursor) \in 0..(Chunks - 1)
        BY <1>3, <4>1, NthListed
      <4>3. PICK i \in 0..(Chunks - 1) : i \in session.list /\ SendChunk(session, i)
        BY <2>2, <4>1, <4>2
      <4>4. OnlyDown(ChunkMsg(session.image, i))'
        BY <1>2, <2>2, <4>3, ChunkPosted DEF Again
      <4> QED BY <2>2, <3>1, <4>3, <4>4 DEF ChunkDown, Again, Carried
    <3>2. CASE ~session.delta
      <4>1. SendChunk(session, 0) /\ 0 \in 0..(Chunks - 1)
        BY <1>3, <2>2, <3>2 DEF InList, EnoughRetries
      <4>2. OnlyDown(ChunkMsg(session.image, 0))'
        BY <1>2, <2>2, <4>1, ChunkPosted DEF Again
      <4> QED BY <2>2, <3>2, <4>1, <4>2 DEF ChunkDown, Again, Carried
    <3> QED BY <3>1, <3>2
  <2>4. Tries(0, 0)' /\ Paid(2)'
    BY <1>2, <1>3, <1>10, <2>2 DEF Again, Tries, Paid
  <2>5. Fresh' /\ Sendable'
    BY <1>4, <1>6, <2>2 DEF Again, Fresh
  <2>6. Announcing'
    BY <1>5, <2>2, <2>3, <2>4, <2>5 DEF Announcing, Again
  <2> QED BY <1>5, <2>2, <2>6 DEF StepInv, Again
<1> QED BY <1>1, <1>8, <1>9, <1>10 DEF Announcing, ChunkDown

LEMMA SendingEnded ==
    ASSUME SessionInv, Quiet, EnoughRetries, Live, Sending, NEW e, OnlyRun(e), Ended(e)
    PROVE  StepInv'
<1>1. /\ ~NoMessage /\ (\A m : ~OnlyDown(m)) /\ (\A f : OnlyEvent(f) => f = e) /\ (Waits => e = Tick)
  BY Where DEF Exclusive, OnlyEvent, Waits
<1>2. UNCHANGED <<dev, primary, faults, happened>> /\ session.present
  BY DEF Ended, Cloud, Live
<1>3. /\ MaxRetries \in Nat /\ MaxRestarts \in Nat /\ MaxFaults \in Nat /\ Chunks \in Nat
      /\ faults \in Nat /\ faults <= MaxFaults /\ session.retries \in Nat
      /\ session.restarts \in Nat /\ session.cursor \in Nat /\ session.next \in Nat
      /\ session.highest \in Nat /\ dev.got \in Nat /\ session.total \in Nat
      /\ Cardinality(session.list) \in Nat
      /\ session.delta => session.total = Cardinality(session.list)
      /\ ~session.delta => session.total = Chunks
  BY <1>2, Facts
<1>4. dev.phase = "RECEIVING" /\ primary # session.image /\ InStep /\ Sound /\ Own /\ Paid(0)
  BY DEF Sending
<1>5. /\ dev.image = session.image /\ dev.total = session.total
      /\ session.highest <= dev.got /\ dev.got < session.total
      /\ session.delta => session.cursor = session.highest
      /\ ~session.delta => session.next = session.highest
  BY <1>4 DEF Own
<1>6. Carried => /\ Live' /\ InStep' /\ Sound' /\ primary' # session'.image
                 /\ dev'.phase = "RECEIVING"
  BY <1>2, <1>4 DEF Carried, Live, Stale, InStep, Sound
<1>7. Carried /\ UNCHANGED <<session.highest, session.cursor>>
          /\ (session.delta \/ UNCHANGED session.next) => Own'
  BY <1>2, <1>4 DEF Carried, Own
<1>8. Carried /\ session'.restarts = session.restarts => Paid(0)'
  BY <1>2, <1>3, <1>4 DEF Carried, Paid
<1>9. Tries(1, Extra(2)) /\ session.retries >= MaxRetries => Spent
  BY <1>3 DEF Tries, Extra, EnoughRetries, Spent
<1>10. Sendable
  BY <1>3, <1>5 DEF Sendable
<1>11. CASE e = Ack("OK", dev.got)
  <2>1. /\ dev.got > 0 => ~Weak /\ (session.delta \/ dev.got > session.next)
        /\ dev.got = 0 => Tries(0, Extra(IfWeak(0, 1)))
    BY <1>1, <1>3, <1>11, Apart DEF Sending, ChunkDown
  <2>2. HandleAck(session, Ack("OK", dev.got)) /\ ~(dev.got < session.highest)
    BY <1>3, <1>5, <1>11, Apart, AckEnded
  <2>3. CASE session.delta
    <3>1. DeltaProgress(session, Ack("OK", dev.got))
      BY <1>2, <2>2, <2>3, AckSplits
    <3>2. Advanced(dev.got) /\ SendChunk(session, Nth(session.list, dev.got))
      BY <1>2, <1>3, <1>5, <2>3, <3>1, Progresses
    <3>3. Nth(session.list, dev.got) \in session.list /\ Nth(session.list, dev.got) \in 0..(Chunks - 1)
      BY <1>3, <1>5, <2>3, NthListed
    <3>4. PICK i \in 0..(Chunks - 1) : i \in session.list /\ SendChunk(session, i)
      BY <3>2, <3>3
    <3>5. OnlyDown(ChunkMsg(session.image, i))'
      BY <1>2, <3>2, <3>4, ChunkPosted DEF Advanced
    <3>6. ChunkDown' /\ ~Weak' /\ Paid(0)'
      BY <1>8, <2>3, <3>2, <3>4, <3>5 DEF ChunkDown, Advanced, Carried, Weak
    <3>7. Own'
      BY <1>2, <1>3, <1>4, <2>3, <3>2 DEF Own, Advanced, Carried
    <3>8. Tries(0, Extra(2))'
      BY <1>2, <1>3, <2>3, <3>2 DEF Advanced, Carried, Tries, Extra
    <3>9. Sending'
      BY <1>6, <3>2, <3>6, <3>7, <3>8 DEF Sending, Advanced
    <3> QED BY <1>6, <3>2, <3>9 DEF StepInv, Advanced
  <2>4. CASE ~session.delta
    <3>1. FullProgress(session, Ack("OK", dev.got))
      BY <1>2, <2>2, <2>4, AckSplits
    <3>2. \/ dev.got = session.highest /\ dev.got <= session.next /\ Ignore
          \/ /\ dev.got # session.highest \/ dev.got > session.next
             /\ Advanced(dev.got) /\ SendChunk(session, dev.got)
      BY <1>2, <1>3, <1>5, <2>4, <3>1, ProgressesFull
    <3>3. CASE dev.got = session.highest /\ dev.got <= session.next /\ Ignore
      <4>1. dev.got = 0 /\ session.next = 0
        BY <1>3, <1>5, <2>1, <2>4, <3>3
      <4>2. UNCHANGED <<session, baseline>> /\ Waits'
        BY <3>3 DEF Ignore, store, Waits, Ended
      <4>3. Tries(1, Extra(IfWeak(1, 2)))'
        <5>1. Tries(0, Extra(IfWeak(0, 1)))
          BY <2>1, <4>1
        <5> QED BY <1>2, <1>3, <2>4, <4>1, <4>2, <5>1 DEF Tries, Extra, IfWeak, Weak
      <4>4. Live' /\ InStep' /\ Sound' /\ Own' /\ Paid(0)'
        BY <1>2, <1>4, <4>2 DEF Live, Stale, InStep, Sound, Own, Paid
      <4>5. Sending'
        BY <1>2, <1>4, <4>1, <4>2, <4>3, <4>4 DEF Sending
      <4> QED BY <4>4, <4>5 DEF StepInv
    <3>4. CASE Advanced(dev.got) /\ SendChunk(session, dev.got)
      <4>1. dev.got \in 0..(Chunks - 1)
        BY <1>3, <1>5, <2>4
      <4>2. PICK i \in 0..(Chunks - 1) : i = dev.got
        BY <4>1
      <4>3. OnlyDown(ChunkMsg(session.image, i))'
        BY <1>2, <3>4, <4>2, ChunkPosted DEF Advanced
      <4>4. ChunkDown' /\ ~Weak' /\ Paid(0)'
        BY <1>8, <2>4, <3>4, <4>2, <4>3 DEF ChunkDown, Advanced, Carried, Weak
      <4>5. Own'
        BY <1>2, <1>3, <1>4, <2>4, <3>4 DEF Own, Advanced, Carried
      <4>6. Tries(0, Extra(2))'
        BY <1>2, <1>3, <3>4 DEF Advanced, Carried, Tries, Extra
      <4>7. Sending'
        BY <1>6, <3>4, <4>4, <4>5, <4>6 DEF Sending, Advanced
      <4> QED BY <1>6, <3>4, <4>7 DEF StepInv, Advanced
    <3> QED BY <3>2, <3>3, <3>4
  <2> QED BY <2>3, <2>4
<1>12. CASE e = Tick /\ (Weak => dev.got = 0) /\ Tries(1, Extra(IfWeak(1, 2)))
  <2>1. HandleTick(session)
    BY <1>12, Apart DEF Ended
  <2>2. Tries(1, Extra(2))
    BY <1>3, <1>12 DEF Tries, Extra, IfWeak
  <2>3. CASE session.retries >= MaxRetries /\ GivenUp /\ Mute
    BY <1>4, <1>9, <2>2, <2>3, GivenUpStep
  <2>4. CASE Again(session.next) /\ Repeat(session)
    <3>1. Own' /\ Paid(0)' /\ ~Weak' /\ Carried
      BY <1>7, <1>8, <2>4 DEF Again, Weak
    <3>2. CASE Weak
      <4>1. OnlyDown(StartMsg(session))' /\ dev'.got = 0
        BY <1>2, <1>12, <2>4, <3>1, <3>2, RepeatsWeak
      <4>2. Tries(0, Extra(IfWeak(0, 1)))'
        BY <1>2, <1>3, <1>12, <2>4, <3>1, <3>2 DEF Again, Carried, Tries, Extra, IfWeak
      <4>3. Sending'
        BY <1>6, <3>1, <4>1, <4>2 DEF Sending
      <4> QED BY <1>6, <3>1, <4>3 DEF StepInv
    <3>3. CASE ~Weak
      <4>1. ChunkDown'
        BY <1>2, <1>10, <2>4, <3>1, <3>3, RepeatsChunk DEF ChunkDown, Again, Carried
      <4>2. Tries(0, Extra(2))'
        BY <1>2, <1>3, <2>2, <2>4, <3>1 DEF Again, Carried, Tries, Extra
      <4>3. Sending'
        BY <1>6, <3>1, <4>1, <4>2 DEF Sending
      <4> QED BY <1>6, <3>1, <4>3 DEF StepInv
    <3> QED BY <3>2, <3>3
  <2> QED BY <1>2, <2>1, <2>3, <2>4, TicksSession
<1>13. CASE /\ e = Ack("FLASH_ERR", dev.got) /\ (session.delta \/ dev.got = session.next)
            /\ Tries(1, Extra(2))
  <2>1. RetryChunk(session, e) /\ e.got = dev.got
    <3>1. HandleAck(session, Ack("FLASH_ERR", dev.got))
      BY <1>13, Apart, AckEnded
    <3> QED BY <1>2, <1>13, <3>1, Apart, AckSplits
  <2>2. CASE session.retries >= MaxRetries /\ GivenUp /\ Post(AbortMsg)
    BY <1>4, <1>9, <1>13, <2>2, GivenUpStep
  <2>3. CASE /\ Again(dev.got)
             /\ SendChunk(session, IF InList(session) THEN Nth(session.list, session.cursor)
                                   ELSE dev.got)
    <3>1. Own' /\ Paid(0)' /\ ~Weak' /\ Carried
      BY <1>7, <1>8, <1>13, <2>3 DEF Again, Weak
    <3>2. Tries(0, Extra(2))'
      BY <1>2, <1>3, <1>13, <2>3, <3>1 DEF Again, Carried, Tries, Extra
    <3>3. ChunkDown'
      <4>1. CASE session.delta
        <5>1. InList(session) /\ session.cursor < Cardinality(session.list)
          BY <1>10, <4>1 DEF InList, Sendable
        <5>2. Nth(session.list, session.cursor) \in session.list
              /\ Nth(session.list, session.cursor) \in 0..(Chunks - 1)
          BY <1>3, <5>1, NthListed
        <5>3. PICK i \in 0..(Chunks - 1) : i \in session.list /\ SendChunk(session, i)
          BY <2>3, <5>1, <5>2
        <5>4. OnlyDown(ChunkMsg(session.image, i))'
          BY <1>2, <3>1, <5>3, ChunkPosted
        <5> QED BY <3>1, <4>1, <5>3, <5>4 DEF ChunkDown, Carried
      <4>2. CASE ~session.delta
        <5>1. SendChunk(session, dev.got) /\ dev.got \in 0..(Chunks - 1)
          BY <1>3, <1>5, <2>3, <4>2 DEF InList
        <5>2. PICK i \in 0..(Chunks - 1) : i = dev.got
          BY <5>1
        <5>3. OnlyDown(ChunkMsg(session.image, i))'
          BY <1>2, <3>1, <5>1, <5>2, ChunkPosted
        <5> QED BY <2>3, <3>1, <4>2, <5>2, <5>3 DEF ChunkDown, Again, Carried
      <4> QED BY <4>1, <4>2
    <3>4. Sending'
      BY <1>6, <3>1, <3>2, <3>3 DEF Sending
    <3> QED BY <1>6, <3>1, <3>4 DEF StepInv
  <2> QED BY <1>2, <1>3, <2>1, <2>2, <2>3, RetriesChunk
<1> QED BY <1>1, <1>11, <1>12, <1>13 DEF Sending, ChunkDown

LEMMA InstalledEnded ==
    ASSUME SessionInv, Quiet, EnoughRetries, Live, Installed, NEW e, OnlyRun(e), Ended(e)
    PROVE  StepInv'
<1>1. /\ ~NoMessage /\ (\A m : ~OnlyDown(m)) /\ (\A f : OnlyEvent(f) => f = e) /\ (Waits => e = Tick)
  BY Where DEF Exclusive, OnlyEvent, Waits
<1>2. UNCHANGED <<dev, primary, faults, happened>> /\ session.present
  BY DEF Ended, Cloud, Live
<1>3. /\ MaxRetries \in Nat /\ MaxRestarts \in Nat /\ MaxFaults \in Nat
      /\ faults \in Nat /\ faults <= MaxFaults /\ session.retries \in Nat /\ session.restarts \in Nat
  BY Facts
<1>4. dev.phase = "IDLE" /\ primary = session.image
  BY DEF Installed
<1>5. Carried => /\ Live' /\ (InStep => InStep') /\ primary' = session'.image /\ dev'.phase = "IDLE"
  BY <1>2, <1>4 DEF Carried, Live, Stale, InStep
<1>6. Carried /\ UNCHANGED <<session.next, session.cursor>> => (Sendable => Sendable')
  BY DEF Carried, Sendable
<1>7. CASE e = Complete("OK")
  BY <1>2, <1>4, <1>7, CompletedStep
<1>8. CASE e = Tick /\ Owed(1, IfWeak(0, 1))
  <2>1. HandleTick(session)
    BY <1>8, Apart DEF Ended
  <2>2. CASE session.retries >= MaxRetries /\ GivenUp /\ Mute
    <3>1. InStep
      BY <1>3, <1>8, <2>2 DEF Owed, Tries, EnoughRetries
    <3> QED BY <1>4, <2>2, <3>1, GivenUpStep
  <2>3. CASE Again(session.next) /\ Repeat(session)
    <3>1. Carried /\ ~Weak' /\ (Sendable => Sendable')
      BY <1>6, <2>3 DEF Again, Weak
    <3>2. CASE Weak
      <4>1. OnlyDown(StartMsg(session))'
        BY <2>3, <3>1, <3>2, RepeatsWeak
      <4>2. Owed(0, IfWeak(-1, 0))'
        BY <1>2, <1>3, <1>5, <1>8, <2>3, <3>1, <3>2 DEF Again, Owed, Tries, Paid, IfWeak
      <4>3. Installed'
        BY <1>5, <3>1, <4>1, <4>2 DEF Installed
      <4> QED BY <1>5, <3>1, <4>3 DEF StepInv
    <3>3. CASE ~Weak /\ Sendable
      <4>1. \E i \in 0..(Chunks - 1) : OnlyDown(ChunkMsg(session.image, i))'
        BY <1>2, <2>3, <3>1, <3>3, RepeatsChunk
      <4>2. Owed(0, 1)'
        BY <1>2, <1>3, <1>5, <1>8, <2>3, <3>1, <3>3 DEF Again, Owed, Tries, Paid, IfWeak
      <4>3. Installed'
        BY <1>5, <3>1, <4>1, <4>2 DEF Installed
      <4> QED BY <1>5, <3>1, <4>3 DEF StepInv
    <3>4. CASE ~Weak /\ ~Sendable
      <4>1. InStep'
        BY <1>5, <1>8, <3>1, <3>4 DEF Owed
      <4>2. Owed(0, 1)' /\ Owed(1, IfWeak(0, 1))'
        BY <4>1 DEF Owed
      <4>3. Mute \/ \E i \in 0..(Chunks - 1) : SendChunk(session, i)
        BY <1>2, <2>3, <3>4, Facts DEF Repeat, Weak, InList, Sendable, SendChunk
      <4>4. Waits' \/ \E i \in 0..(Chunks - 1) : OnlyDown(ChunkMsg(session.image, i))'
        BY <1>2, <3>1, <4>3, ChunkPosted DEF Ended, Waits
      <4>5. Installed'
        BY <1>5, <3>1, <4>2, <4>4 DEF Installed
      <4> QED BY <1>5, <3>1, <4>5 DEF StepInv
    <3> QED BY <3>2, <3>3, <3>4
  <2> QED BY <1>2, <2>1, <2>2, <2>3, TicksSession
<1>9. CASE e = Ack("NO_SESSION", 0) /\ Owed(0, 1)
  <2>1. RestartSession(session)
    BY <1>2, <1>9, Apart, AckSplits, AckEnded
  <2>2. CASE session.restarts >= MaxRestarts /\ GivenUp /\ Mute
    <3>1. InStep
      BY <1>3, <1>9, <2>2 DEF Owed, Paid, EnoughRetries
    <3> QED BY <1>4, <2>2, <3>1, GivenUpStep
  <2>3. CASE Restarted
    <3>1. OnlyDown(StartMsg(session))' /\ Carried /\ Weak'
      BY <2>3, StartPosted DEF Restarted, Weak
    <3>2. Owed(0, IfWeak(-1, 0))'
      BY <1>2, <1>3, <1>5, <1>6, <1>9, <2>3, <3>1 DEF Restarted, Owed, Tries, Paid, IfWeak
    <3>3. Installed'
      BY <1>5, <3>1, <3>2 DEF Installed
    <3> QED BY <1>5, <3>1, <3>3 DEF StepInv
  <2> QED BY <1>2, <2>1, <2>2, <2>3, RestartsSession
<1> QED BY <1>1, <1>7, <1>8, <1>9 DEF Installed

(* With a stale delta: whatever the invocation makes of the message, it    *)
(* stays with the image, or gives it up.                                   *)
Onward ==
    \/ Ignore
    \/ GivenUp /\ (Mute \/ Post(AbortMsg))
    \/ /\ session'.present /\ session'.image = session.image /\ UNCHANGED baseline
       /\ Mute \/ Post(StartMsg(session)) \/ \E i : Post(ChunkMsg(session.image, i))

LEMMA SendsChunk ==
    ASSUME NEW i, SendChunk(session, i) PROVE Mute \/ \E j : Post(ChunkMsg(session.image, j))
  BY DEF SendChunk

LEMMA OnwardAck ==
    ASSUME SessionInv, Quiet, session.present, NEW a, a.got \in Nat, HandleAck(session, a),
           UNCHANGED faults
    PROVE  Onward
<1>0. session \in SessionRecord
  BY Facts
<1>1. CASE Ignore
  BY <1>1 DEF Onward
<1>2. CASE RestartSession(session)
  <2>1. Restarted => Post(StartMsg(session))
    BY DEF Restarted, Carried, StartMsg
  <2> QED BY <1>2, <2>1, RestartsSession DEF Restarted, Carried, Onward
<1>3. CASE RetryChunk(session, a)
  <2>1. CASE GivenUp /\ Post(AbortMsg)
    BY <2>1 DEF Onward
  <2>2. CASE Again(a.got) /\ \E i : SendChunk(session, i)
    BY <2>2, SendsChunk DEF Again, Carried, Onward
  <2> QED BY <1>3, <2>1, <2>2, RetriesChunk
<1>4. CASE DeltaProgress(session, a)
  <2> DEFINE q == [session EXCEPT !.cursor = a.got, !.seen = TRUE, !.highest = a.got]
             v == [q EXCEPT !.status = "validating"]
             g == [q EXCEPT !.retries = 0, !.status = "sending"]
  <2>1. (Write(v) /\ Mute) \/ (Write(g) /\ \E i : SendChunk(session, i))
    BY <1>4 DEF DeltaProgress
  <2>2. q \in SessionRecord /\ q.image = session.image
    BY <1>0 DEF SessionRecord
  <2> HIDE DEF q
  <2>3. Write(v) \/ Write(g) => session'.present /\ session'.image = session.image /\ UNCHANGED baseline
    BY <2>2 DEF Write, SessionRecord
  <2> QED BY <2>1, <2>3, SendsChunk DEF Onward
<1>5. CASE FullProgress(session, a)
  <2> DEFINE q == [session EXCEPT !.next = a.got, !.seen = TRUE, !.highest = a.got]
             v == [q EXCEPT !.status = "validating"]
             g == [q EXCEPT !.retries = 0, !.status = "sending"]
  <2>1. Ignore \/ (Write(v) /\ Mute) \/ (Write(g) /\ \E i : SendChunk(session, i))
    BY <1>5 DEF FullProgress
  <2>2. q \in SessionRecord /\ q.image = session.image
    BY <1>0 DEF SessionRecord
  <2> HIDE DEF q
  <2>3. Write(v) \/ Write(g) => session'.present /\ session'.image = session.image /\ UNCHANGED baseline
    BY <2>2 DEF Write, SessionRecord
  <2> QED BY <2>1, <2>3, SendsChunk DEF Onward
<1> QED BY <1>1, <1>2, <1>3, <1>4, <1>5 DEF HandleAck

LEMMA OnwardTick ==
    ASSUME SessionInv, Quiet, session.present, HandleTick(session), UNCHANGED faults
    PROVE  Onward
<1>1. CASE GivenUp /\ Mute
  BY <1>1 DEF Onward
<1>2. CASE Again(session.next) /\ Repeat(session)
  <2>1. Post(StartMsg(session)) \/ Mute \/ \E i : SendChunk(session, i)
    BY <1>2 DEF Repeat
  <2> QED BY <1>2, <2>1, SendsChunk DEF Again, Carried, Onward
<1> QED BY <1>1, <1>2, TicksSession

LEMMA OutdatedEnded ==
    ASSUME SessionInv, Quiet, Outdated, NEW e, OnlyRun(e), Ended(e)
    PROVE  StepInv'
<1>1. session.present /\ Stale /\ UNCHANGED <<dev, primary, faults, happened>>
  BY DEF Outdated, Ended, Cloud
<1>2. (\A m : ~OnlyDown(m)) /\ \A f : OnlyEvent(f) <=> f = e
  BY Where DEF Exclusive, OnlyEvent
<1>3. e \in Events \cup {Tick}
  <2>1. [event |-> e, s |-> session] \in BagToSet(running)
    BY OneBag DEF OnlyRun
  <2> QED BY <2>1 DEF SessionInv, CloudInv
<1>4. dev.phase \in {"IDLE", "RECEIVING", "COMPLETE", "ERROR"}
  BY DEF SessionInv, DeviceInv, Assembled
<1>5. CASE e = Complete("OK")
  <2>1. \/ dev.phase = "COMPLETE" /\ dev.image = session.image
        \/ dev.phase # "COMPLETE" /\ primary = session.image
    BY <1>2, <1>5 DEF Outdated
  <2> QED BY <1>1, <1>5, <2>1, CompletedStep DEF Spent
<1>6. CASE e # Complete("OK")
  <2>1. /\ dev.phase # "COMPLETE" /\ InStep
        /\ dev.phase = "RECEIVING" => dev.image = session.image
    BY <1>2, <1>6 DEF Outdated
  <2>2. CASE e.kind = "COMPLETE"
    <3>1. e.status # "OK"
      BY <1>3, <1>6, <2>2, Apart DEF Events, Complete
    <3>2. HandleComplete(session, e)
      BY <2>2 DEF Ended
    <3>3. GivenUp /\ Mute
      BY <1>1, <3>1, <3>2, Cleared DEF HandleComplete, GivenUp
    <3> QED BY <1>1, <2>1, <3>3, GivenUpStep DEF Spent
  <2>3. CASE e.kind = "ACK" \/ e.kind = "TICK"
    <3>1. Onward
      <4>1. CASE e.kind = "ACK"
        <5>1. e.got \in Nat /\ HandleAck(session, e)
          BY <1>3, <4>1, AckEnded, Apart DEF Events
        <5> QED BY <1>1, <5>1, OnwardAck
      <4>2. CASE e.kind = "TICK"
        <5>1. HandleTick(session)
          BY <4>2 DEF Ended
        <5> QED BY <1>1, <5>1, OnwardTick
      <4> QED BY <2>3, <4>1, <4>2
    <3>2. CASE GivenUp /\ (Mute \/ Post(AbortMsg))
      BY <1>1, <2>1, <3>2, GivenUpStep DEF Spent
    <3>3. CASE /\ session'.present /\ session'.image = session.image /\ UNCHANGED baseline
               /\ Mute \/ Post(StartMsg(session)) \/ \E i : Post(ChunkMsg(session.image, i))
      <4>1. PICK m : /\ NoMessage' \/ OnlyDown(m)'
                     /\ m.kind = "START" => m.image = session.image
        <5>1. CASE Mute
          BY <5>1, Apart DEF Ended
        <5>2. CASE \E m : Post(m) /\ (m.kind = "START" => m.image = session.image)
          BY <5>2 DEF Ended
        <5> QED BY <3>3, <5>1, <5>2, Apart
      <4>2. OnlyOne' /\ (\A f : ~OnlyEvent(f)') /\ \A n : OnlyDown(n)' => n = m
        BY <4>1, WhereNext DEF Exclusive, OnlyOne
      <4>3. session'.present /\ Stale' /\ InStep' /\ dev'.phase # "COMPLETE"
            /\ (dev'.phase = "RECEIVING" => dev'.image = session'.image)
        BY <1>1, <2>1, <3>3 DEF Stale, InStep
      <4>4. \A n : OnlyDown(n)' => (n.kind = "START" => n.image = session'.image)
        BY <3>3, <4>1, <4>2
      <4>5. Outdated'
        BY <4>2, <4>3, <4>4 DEF Outdated
      <4> QED BY <4>5 DEF StepInv
    <3>4. CASE Ignore
      <4>1. NoMessage' /\ UNCHANGED <<session, baseline>>
        BY <3>4 DEF Ignore, store, Ended
      <4>2. OnlyOne' /\ (\A f : ~OnlyEvent(f)') /\ (\A n : ~OnlyDown(n)')
        BY <4>1, WhereNext DEF Exclusive, OnlyOne
      <4>3. session'.present /\ Stale' /\ InStep' /\ dev'.phase # "COMPLETE"
            /\ (dev'.phase = "RECEIVING" => dev'.image = session'.image)
        BY <1>1, <2>1, <4>1 DEF Stale, InStep
      <4>4. Outdated'
        BY <4>2, <4>3 DEF Outdated
      <4> QED BY <4>4 DEF StepInv
    <3> QED BY <3>1, <3>2, <3>3, <3>4 DEF Onward
  <2>4. e.kind \in {"ACK", "COMPLETE", "TICK"}
    BY <1>3 DEF Events, Tick
  <2> QED BY <2>2, <2>3, <2>4
<1> QED BY <1>5, <1>6

LEMMA EndedStep ==
    ASSUME SessionInv, StepInv, Quiet, EnoughRetries, NEW e, OnlyRun(e), Ended(e)
    PROVE  StepInv'
<1>1. ~NoMessage /\ (\A m : ~OnlyDown(m)) /\ (\A f : OnlyEvent(f) => f = e)
  BY Where DEF Exclusive, OnlyEvent
<1>2. ~Between
  BY <1>1 DEF Between, StepInv, NoMessage
<1>3. CASE Live /\ Applying
  <2>1. e = Complete("OK") /\ dev.phase = "COMPLETE" /\ dev.image = session.image
    BY <1>1, <1>3 DEF Applying
  <2> QED BY <1>3, <2>1, CompletedStep DEF Live
<1>4. CASE Live /\ Leftover
  <2>1. e = Complete("OK") /\ dev.phase = "RECEIVING" /\ Spent /\ primary = session.image
    BY <1>1, <1>4 DEF Leftover
  <2> QED BY <1>4, <2>1, CompletedStep DEF Live
<1> QED BY <1>2, <1>3, <1>4, AnnouncingEnded, SendingEnded, InstalledEnded, OutdatedEnded DEF StepInv

(* A session is not cleared although it is over: it was completed, as no   *)
(* session is given up before there is all the trouble there may be.       *)
LEMMA UnclearedStep ==
    ASSUME SessionInv, StepInv, Quiet, EnoughRetries, NEW e, OnlyRun(e), Uncleared(e)
    PROVE  StepInv'
<1>1. /\ ~NoMessage /\ (\A m : ~OnlyDown(m)) /\ (\A f : OnlyEvent(f) => f = e) /\ (Waits => e = Tick)
  BY Where DEF Exclusive, OnlyEvent, Waits
<1>2. /\ UNCHANGED <<session, dev, primary>> /\ faults < MaxFaults
      /\ happened \subseteq {"lose"} /\ happened' = happened \cup {"uncleared"}
  BY DEF Uncleared, Cloud, Trouble
<1>3. ~Stale /\ ~Stale' /\ "flash" \notin happened
  BY <1>2 DEF Stale
<1>4. /\ MaxRetries \in Nat /\ MaxRestarts \in Nat /\ MaxFaults \in Nat /\ faults \in Nat
      /\ session.retries \in Nat /\ session.restarts \in Nat
  BY Facts
<1>5. \A n, x \in {0, 1, 2} : x <= n + 1 /\ Tries(n, x) => session.retries < MaxRetries
  BY <1>2, <1>4 DEF Tries, EnoughRetries
<1>6. \A n \in {1, 2} : Paid(n) => session.restarts < MaxRestarts
  BY <1>2, <1>3, <1>4 DEF Paid, EnoughRetries
<1>7. Live /\ (Announcing \/ Sending \/ Applying \/ Installed)
  <2>1. ~Spent
    BY <1>2, <1>3, <1>4 DEF Spent
  <2> QED BY <1>1, <1>3, <2>1 DEF StepInv, Between, Outdated, Leftover
<1>8. Live'
  BY <1>2, <1>3, <1>7 DEF Live
<1>9. ~Announcing
  <2> SUFFICES ASSUME Announcing PROVE FALSE
    OBVIOUS
  <2>1. \/ e = Tick /\ Tries(1, 0)
        \/ e = Ack("NO_SESSION", 0) /\ Paid(2)
        \/ e = Ack("FLASH_ERR", 0) /\ Tries(1, 0)
    BY <1>1 DEF Announcing, ChunkDown
  <2>2. Tries(1, 0) => session.retries < MaxRetries
    BY <1>5
  <2>3. Paid(2) => session.restarts < MaxRestarts
    BY <1>6
  <2> QED BY <1>4, <2>1, <2>2, <2>3, Apart DEF Uncleared
<1>10. ~Sending
  <2> SUFFICES ASSUME Sending PROVE FALSE
    OBVIOUS
  <2>1. \/ e = Tick /\ Tries(1, Extra(IfWeak(1, 2)))
        \/ e.kind = "ACK" /\ e.status = "OK"
        \/ e = Ack("FLASH_ERR", dev.got) /\ Tries(1, Extra(2))
    BY <1>1, Apart DEF Sending, ChunkDown
  <2>2. Extra(IfWeak(1, 2)) \in {0, 1, 2} /\ Extra(2) \in {0, 1, 2}
    BY DEF Extra, IfWeak
  <2>3. Tries(1, Extra(IfWeak(1, 2))) \/ Tries(1, Extra(2)) => session.retries < MaxRetries
    BY <1>5, <2>2
  <2> QED BY <1>4, <2>1, <2>3, Apart DEF Uncleared
<1>11. CASE Applying
  <2>1. e = Complete("OK") /\ dev.phase = "COMPLETE" /\ dev.image = session.image
    BY <1>1, <1>11 DEF Applying
  <2>2. NoMessage' /\ baseline' = session.image
    BY <1>7, <2>1, Apart DEF Uncleared, Live
  <2>3. Applying'
    BY <1>2, <2>1, <2>2 DEF Applying
  <2> QED BY <1>8, <2>3 DEF StepInv
<1>12. CASE Installed
  <2>1. /\ dev.phase = "IDLE" /\ primary = session.image
        /\ \/ e = Complete("OK")
           \/ e = Tick /\ (InStep \/ Tries(1, 0))
           \/ e = Ack("NO_SESSION", 0) /\ (InStep \/ Paid(1))
    BY <1>1, <1>12 DEF Installed, Owed
  <2>2. Tries(1, 0) => session.retries < MaxRetries
    BY <1>5
  <2>3. Paid(1) => session.restarts < MaxRestarts
    BY <1>6
  <2>4. NoMessage' /\ (baseline' = session.image \/ (InStep /\ UNCHANGED baseline))
    BY <1>4, <1>7, <2>1, <2>2, <2>3, Apart DEF Uncleared, Live
  <2>5. InStep' /\ Waits'
    BY <1>2, <2>1, <2>4 DEF InStep, Waits
  <2>6. Installed'
    BY <1>2, <2>1, <2>5 DEF Installed, Owed
  <2> QED BY <1>8, <2>6 DEF StepInv
<1> QED BY <1>7, <1>9, <1>10, <1>11, <1>12

-----------------------------------------------------------------------------
LEMMA StepInit == Init => StepInv
<1> SUFFICES ASSUME Init PROVE StepInv
  OBVIOUS
<1>1. NoMessage /\ ~session.present /\ dev.phase = "IDLE" /\ InStep
  BY DEF Init, NoMessage, NoSession, Idle, InStep
<1>2. Between
  BY <1>1 DEF Between
<1> QED BY <1>2 DEF StepInv

(* A container is recycled: nothing else changes.                          *)
LEMMA StillStep ==
    ASSUME StepInv, Quiet, Still
    PROVE  StepInv'
<1>1. UNCHANGED <<session, baseline, down, up, running, dev, primary, faults, happened>>
  BY DEF Still
<1>2. /\ NoMessage => NoMessage'
      /\ Waits => Waits'
      /\ OnlyOne => OnlyOne'
      /\ \A m : OnlyDown(m) <=> OnlyDown(m)'
      /\ \A e : OnlyEvent(e) <=> OnlyEvent(e)'
  BY <1>1 DEF NoMessage, Waits, OnlyDown, OnlyUp, OnlyRun, OnlyEvent, OnlyOne
<1>3. (Live => Live') /\ (Stale => Stale') /\ (InStep => InStep') /\ (Spent => Spent')
  BY <1>1 DEF Live, Stale, InStep, Spent
<1>4. CASE Between
  BY <1>1, <1>2, <1>3, <1>4 DEF Between, StepInv
<1>5. CASE Outdated
  <2>1. Outdated'
    BY <1>1, <1>2, <1>3, <1>5 DEF Outdated
  <2> QED BY <2>1 DEF StepInv
<1>6. CASE Live /\ Announcing
  BY <1>1, <1>2, <1>3, <1>6
     DEF StepInv, Announcing, ChunkDown, Sound, Fresh, Sendable, Tries, Paid, IfWeak, Weak
<1>7. CASE Live /\ Sending
  BY <1>1, <1>2, <1>3, <1>7
     DEF StepInv, Sending, ChunkDown, Sound, Own, Tries, Paid, IfWeak, Weak, Extra
<1>8. CASE Live /\ Applying
  BY <1>1, <1>2, <1>3, <1>8 DEF StepInv, Applying, Sendable, Tries, Paid
<1>9. CASE Live /\ Installed
  BY <1>1, <1>2, <1>3, <1>9 DEF StepInv, Installed, Owed, InStep, Sendable, Tries, Paid, IfWeak, Weak
<1>10. CASE Live /\ Leftover
  <2>1. Leftover'
    BY <1>1, <1>2, <1>3, <1>10 DEF Leftover, Fresh, Sound, Weak, Sendable
  <2> QED BY <1>3, <1>10, <2>1 DEF StepInv
<1> QED BY <1>4, <1>5, <1>6, <1>7, <1>8, <1>9, <1>10 DEF StepInv

LEMMA StepNext == EnoughRetries /\ SessionInv /\ SessionInv' /\ StepInv /\ [Next]_vars => StepInv'
<1> SUFFICES ASSUME EnoughRetries, SessionInv, SessionInv', StepInv, [Next]_vars, Quiet' PROVE StepInv'
  BY DEF StepInv
<1>1. Quiet /\ OnlyOne
  BY QuietBefore, StepOne
<1>2. CASE \E im \in Images : Upload(im)
  BY <1>1, <1>2, UploadStep
<1>3. CASE Still
  BY <1>1, <1>3, StillStep
<1>4. CASE \E e : OnlyUp(e) /\ Begun(e)
  BY <1>1, <1>4, BegunStep
<1>5. CASE NoMessage /\ session.present /\ dev.phase # "COMPLETE" /\ Begun(Tick)
  BY <1>1, <1>5, BegunStep
<1>6. CASE \E e : OnlyRun(e) /\ Ended(e)
  BY <1>1, <1>6, EndedStep
<1>11. CASE \E e : OnlyRun(e) /\ Uncleared(e)
  BY <1>1, <1>11, UnclearedStep
<1>7. CASE \E m : OnlyDown(m) /\ Received(m)
  BY <1>1, <1>7, ReceivedStep DEF EnoughRetries
<1>8. CASE \E m : OnlyDown(m) /\ Refused(m)
  BY <1>1, <1>8, RefusedStep
<1>9. CASE ~NoMessage /\ Lost
  BY <1>1, <1>9, LostStep
<1>10. CASE Installs
  BY <1>1, <1>10, InstallsStep
<1> QED BY <1>1, <1>2, <1>3, <1>4, <1>5, <1>6, <1>7, <1>8, <1>9, <1>10, <1>11, Steps

(* Once a session is over, completed or given up, the baseline in S3 is    *)
(* what the device runs, or there is none, whatever messages are lost,     *)
(* flash operations fail and clear_session calls fail; unless one of the   *)
(* troubles happened that BaselineInStep names, among them that COMPLETE   *)
(* is handled and the session cannot be read or the image not be copied    *)
(* (ota_sender_lambda.py:125-127, 514-524).  It holds for every number of  *)
(* retries, restarts, images and uploads, if there is less trouble than a  *)
(* session has retries and than twice its restarts, and an image has more  *)
(* than one chunk (the first ACK of an image of one chunk is also its      *)
(* last, and is ignored as a duplicate: that costs retries nothing pays    *)
(* for).                                                                   *)
THEOREM BaselineInStepCorrect ==
    ASSUME MaxFaults < MaxRetries, MaxFaults < 2 * MaxRestarts, Chunks > 1
    PROVE  Spec => []BaselineInStep
<1>1. EnoughRetries
  BY DEF EnoughRetries
<1>2. StepInv => BaselineInStep
  <2> SUFFICES ASSUME StepInv, ~session.present, Settled, Quiet PROVE baseline \in {NoImage, primary}
    BY DEF BaselineInStep, Quiet
  <2>1. Between /\ dev.phase # "COMPLETE"
    BY DEF StepInv, Outdated, Live, Settled
  <2> QED BY <2>1 DEF Between, InStep
<1>3. StepInv /\ SessionInv /\ [Next]_vars => (StepInv /\ SessionInv)'
  BY <1>1, SessionNext, StepNext
<1> QED
  BY <1>2, <1>3, SessionInit, StepInit, PTL DEF Spec
=============================================================================
