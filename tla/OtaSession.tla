------------------------------ MODULE OtaSession ------------------------------
(***************************************************************************)
(* An over-the-air update end to end: the cloud's half                     *)
(* (aws/ota_sender_lambda.py), the two lossy directions of the radio link, *)
(* and the device's half (ota_update.c) with what OtaDevice shows of it    *)
(* taken for granted: an apply, once begun, is carried to its end.         *)
(*                                                                         *)
(* Nothing serialises the invocations of the lambda.  Each reads the       *)
(* session from DynamoDB, decides on that copy, and sets the fields of the *)
(* copy, with its changes, in the item as it is by then.  An image is a    *)
(* function from chunk index to content, and a CRC stands for the content  *)
(* it is computed over.                                                    *)
(***************************************************************************)
EXTENDS Integers, FiniteSets, BagsExt, Bags

CONSTANTS Chunks,         (* chunks in an image                            *)
          Images,         (* what may be uploaded                          *)
          Factory,        (* the image flashed at manufacture              *)
          NoImage,        (* no such file in S3                            *)
          MaxRetries,     (* OTA_MAX_RETRIES                               *)
          MaxRestarts,    (* NO_SESSION answers tolerated                  *)
          Faults,         (* the kinds of trouble the run allows           *)
          MaxFaults,      (* bound: how many, one of them no mere loss     *)
          MaxUploads      (* bound: how many uploads                       *)

Kinds == {"lose", "duplicate", "late", "reboot", "flash", "supersede", "stale",
          "unsaved", "uncleared"}

ASSUME ImageAssumption ==
    /\ Chunks \in Nat \ {0} /\ NoImage \notin Images \cup {Factory}
    /\ \A im \in Images \cup {Factory} : im = [i \in 0..(Chunks - 1) |-> im[i]]
ASSUME LimitAssumption == MaxRetries \in Nat \ {0} /\ MaxRestarts \in Nat \ {0}
ASSUME FaultAssumption == Faults \subseteq Kinds /\ MaxFaults \in Nat

VARIABLES session,   (* the ota_* fields of the device-state item          *)
          baseline,  (* ota/baseline.bin in S3, or NoImage                 *)
          cached,    (* baselines that warm containers hold                *)
          running,   (* bag of invocations that have read the session      *)
          down, up,  (* bags of messages under way                         *)
          dev,       (* ota_state                                          *)
          primary,   (* the device's app partition                         *)
          uploads, faults,  (* counts                                      *)
          happened   (* history: the kinds of trouble there were           *)

link  == <<down, up>>
store == <<session, baseline>>
vars  == <<session, baseline, cached, running, down, up, dev, primary,
           uploads, faults, happened>>

-----------------------------------------------------------------------------
(* The session item.  A field that was never set, or was removed, reads as *)
(* its default.  Three fields may be missing from a session: delta says    *)
(* that delta_chunks and delta_cursor are there, seen that highest_acked   *)
(* is, and restarts is there once it is not 0.                             *)
NoSession == [present |-> FALSE, image |-> NoImage, status |-> "none",
              total |-> 0, next |-> 0, retries |-> 0, restarts |-> 0,
              seen |-> FALSE, highest |-> 0,
              delta |-> FALSE, list |-> {}, cursor |-> 0]

(* delta_chunks is an ascending list: its k-th element, k from 0.          *)
Nth(S, k) == CHOOSE i \in S : Cardinality({j \in S : j < i}) = k

StartMsg(s)  == [kind |-> "START", image |-> s.image, total |-> s.total]
ChunkMsg(im, i) == [kind |-> "CHUNK", idx |-> i, data |-> im[i]]
AbortMsg     == [kind |-> "ABORT"]
Ack(status, got)  == [kind |-> "ACK", status |-> status, got |-> got]
Complete(status)  == [kind |-> "COMPLETE", status |-> status]
Tick              == [kind |-> "TICK"]

Idle == [phase |-> "IDLE", image |-> NoImage, total |-> 0, got |-> 0, staged |-> <<>>]

Init == /\ session = NoSession /\ baseline \in {NoImage, Factory} /\ cached = {}
        /\ running = EmptyBag /\ down = EmptyBag /\ up = EmptyBag
        /\ dev = Idle /\ primary = Factory
        /\ uploads = 0 /\ faults = 0 /\ happened = {}

Trouble(k) == /\ k \in Faults /\ faults < MaxFaults
              /\ (k = "lose" \/ happened \subseteq {"lose"})
              /\ faults' = faults + 1 /\ happened' = happened \cup {k}
NoTrouble  == UNCHANGED <<faults, happened>>

Post(m) == down' = BagAdd(down, m)
Mute    == UNCHANGED down

-----------------------------------------------------------------------------
(* handle_s3_trigger: compare with the baseline a warm container holds, or *)
(* with the one in S3, and announce the image: as a whole if no baseline   *)
(* can be read.  It reads no session and sets no field but these: what     *)
(* else the item holds stays.                                              *)
Changed(b, im) == {i \in DOMAIN im : im[i] # b[i]}

Opened(im, b) ==
    LET fresh == [session EXCEPT !.present = TRUE, !.image = im, !.status = "starting",
                                 !.next = 0, !.retries = 0]
        full  == [fresh EXCEPT !.total = Chunks]
    IN  IF b = NoImage THEN full
        ELSE LET diff == Changed(b, im) IN
             IF Cardinality(diff) < Chunks
             THEN [fresh EXCEPT !.total = Cardinality(diff), !.delta = TRUE,
                                !.list = diff, !.cursor = 0]
             ELSE full

Settled == running = EmptyBag /\ down = EmptyBag /\ up = EmptyBag
           /\ dev.phase # "COMPLETE"

Upload(im) ==
    /\ uploads < MaxUploads /\ uploads' = uploads + 1
    /\ \E b \in cached \cup {baseline, NoImage} :
        /\ session' = Opened(im, b)
        /\ Post(StartMsg(session'))
        /\ cached' = cached \cup ({b} \ {NoImage})
        /\ IF b \notin {baseline, NoImage} THEN ~session.present /\ Settled /\ Trouble("stale")
           ELSE IF session.present \/ ~Settled THEN Trouble("supersede")
           ELSE NoTrouble
    /\ UNCHANGED <<baseline, running, up, dev, primary>>

-----------------------------------------------------------------------------
(* An invocation begins with get_session.  The decode lambda forwards each *)
(* uplink as it comes; the timer runs every minute, and does nothing until *)
(* 30 s after the last write.  By then the link is quiet, or a message is  *)
(* late.                                                                   *)
Invoke(e) == running' = BagAdd(running, [event |-> e, s |-> session])

Forward(e) ==
    /\ up' = BagRemove(up, e)
    /\ Invoke(e)
    /\ UNCHANGED <<store, cached, down, dev, primary, uploads>> /\ NoTrouble

Timer ==
    /\ session.present
    /\ \/ Settled /\ NoTrouble
       \/ ~Settled /\ Trouble("late")
    /\ Invoke(Tick)
    /\ UNCHANGED <<store, cached, link, dev, primary, uploads>>

(* It ends with a write and a downlink.  write_session sets the fields of  *)
(* the copy; those the copy has not stay as they are.  clear_session       *)
(* removes them all, or fails, and nobody hears of it.                     *)
Write(s) ==
    /\ session' = [s EXCEPT
           !.present  = TRUE,
           !.restarts = IF s.restarts > 0 THEN @ ELSE session.restarts,
           !.seen     = s.seen \/ session.seen,
           !.highest  = IF s.seen THEN @ ELSE session.highest,
           !.delta    = s.delta \/ session.delta,
           !.list     = IF s.delta THEN @ ELSE session.list,
           !.cursor   = IF s.delta THEN @ ELSE session.cursor]
    /\ UNCHANGED baseline /\ NoTrouble

ClearStatus == session' = [session EXCEPT !.present = FALSE, !.status = "none"] /\ NoTrouble
Clear    == \/ session' = NoSession /\ NoTrouble
            \/ UNCHANGED session /\ Trouble("uncleared")
Drop     == Clear /\ UNCHANGED baseline
Ignore   == UNCHANGED store /\ Mute /\ NoTrouble

SendChunk(s, i) == IF i \in DOMAIN s.image THEN Post(ChunkMsg(s.image, i)) ELSE Mute
InList(s) == s.delta /\ s.cursor < Cardinality(s.list)

(* The device knows of no session: announce it again, so many times.       *)
RestartSession(s) ==
    IF s.restarts >= MaxRestarts THEN Drop /\ Mute
    ELSE /\ Write([s EXCEPT !.restarts = @ + 1, !.status = "restarting"])
         /\ Post(StartMsg(s))

(* The device could not use the chunk: send it again, so many times.       *)
RetryChunk(s, a) ==
    IF s.retries >= MaxRetries THEN Drop /\ Post(AbortMsg)
    ELSE /\ Write([s EXCEPT !.next = a.got, !.retries = @ + 1, !.status = "retrying"])
         /\ SendChunk(s, IF InList(s) THEN Nth(s.list, s.cursor) ELSE a.got)

(* Progress.  A delta goes by the device's count, a full image by the next *)
(* index, and only the latter looks for duplicates.                        *)
DeltaProgress(s, a) ==
    LET seen == [s EXCEPT !.cursor = a.got, !.seen = TRUE, !.highest = a.got] IN
    IF a.got >= Cardinality(s.list) THEN Write([seen EXCEPT !.status = "validating"]) /\ Mute
    ELSE /\ Write([seen EXCEPT !.retries = 0, !.status = "sending"])
         /\ SendChunk(s, Nth(s.list, a.got))

FullProgress(s, a) ==
    LET seen == [s EXCEPT !.next = a.got, !.seen = TRUE, !.highest = a.got] IN
    IF a.got = s.highest /\ a.got <= s.next THEN Ignore
    ELSE IF a.got >= s.total THEN Write([seen EXCEPT !.status = "validating"]) /\ Mute
    ELSE /\ Write([seen EXCEPT !.retries = 0, !.status = "sending"])
         /\ SendChunk(s, a.got)

HandleAck(s, a) ==
    CASE ~s.present -> Ignore
      [] s.present /\ a.status = "NO_SESSION" -> RestartSession(s)
      [] s.present /\ a.status \notin {"OK", "NO_SESSION"} -> RetryChunk(s, a)
      [] s.present /\ a.status = "OK" /\ a.got < s.highest -> Ignore
      [] OTHER -> IF s.delta THEN DeltaProgress(s, a) ELSE FullProgress(s, a)

(* handle_device_complete: whatever image the session names by now becomes *)
(* the baseline; unless the session cannot be read, or not be copied: then *)
(* it is over all the same.                                                *)
CompleteAlways(s, a) ==
    /\ Clear /\ Mute
    /\ baseline' = IF s.present THEN s.image ELSE baseline
HandleComplete(s, a) ==
    /\ Mute
    /\ \/ Clear /\ baseline' = IF a.status = "OK" /\ s.present THEN s.image ELSE baseline
       \/ /\ a.status = "OK" /\ s.present /\ Trouble("unsaved")
          /\ session' = NoSession /\ UNCHANGED baseline

(* handle_retry_check: repeat the START while it is not known to have come *)
(* through, else the chunk.                                                *)
Repeat(s) ==
    IF s.status \in {"starting", "validating", "restarting"} THEN Post(StartMsg(s))
    ELSE IF ~s.delta THEN SendChunk(s, s.next)
    ELSE IF InList(s) THEN SendChunk(s, Nth(s.list, s.cursor))
    ELSE Mute

HandleTickUnlimited(s) ==
    IF ~s.present THEN Ignore
    ELSE Write([s EXCEPT !.retries = @ + 1, !.status = "retrying"]) /\ Repeat(s)
HandleTickUncounted(s) ==
    IF ~s.present THEN Ignore
    ELSE Write([s EXCEPT !.status = "retrying"]) /\ Repeat(s)
HandleTick(s) ==
    IF ~s.present THEN Ignore
    ELSE IF s.retries >= MaxRetries THEN Drop /\ Mute
    ELSE Write([s EXCEPT !.retries = @ + 1, !.status = "retrying"]) /\ Repeat(s)

Finish(i) ==
    /\ running' = BagRemove(running, i)
    /\ CASE i.event.kind = "ACK"      -> HandleAck(i.s, i.event)
         [] i.event.kind = "COMPLETE" -> HandleComplete(i.s, i.event)
         [] i.event.kind = "TICK"     -> HandleTick(i.s)
    /\ UNCHANGED <<cached, up, dev, primary, uploads>>

(* The container is recycled, and its files with it.                       *)
Recycle == /\ cached # {} /\ cached' = {}
           /\ UNCHANGED <<store, running, link, dev, primary, uploads>>
           /\ NoTrouble

-----------------------------------------------------------------------------
(* The device.  A handler takes one message and answers with one.          *)
Reply(m) == up' = BagAdd(up, m)

HandleStartAgain(m) ==
    IF dev.phase = "COMPLETE" THEN Reply(Ack("NO_SESSION", 0)) /\ UNCHANGED dev
    ELSE /\ dev' = [phase |-> "RECEIVING", image |-> m.image,
                    total |-> m.total, got |-> 0, staged |-> <<>>]
         /\ Reply(Ack("OK", 0))
HandleStart(m) ==
    CASE dev.phase = "COMPLETE" ->
            Reply(Ack("NO_SESSION", 0)) /\ UNCHANGED dev
      [] dev.phase # "COMPLETE" /\ primary = m.image ->
            Reply(Complete("OK")) /\ UNCHANGED dev
      [] OTHER -> /\ dev' = [phase |-> "RECEIVING", image |-> m.image,
                             total |-> m.total, got |-> 0, staged |-> <<>>]
                  /\ Reply(Ack("OK", 0))

Delta == dev.total < Chunks

(* The image as it would be applied: what is not staged is what runs now.  *)
Merged(d) == [i \in DOMAIN d.image |->
                 IF i \in DOMAIN d.staged THEN d.staged[i] ELSE primary[i]]
Staged(m) == [dev EXCEPT !.got = @ + 1,
                         !.staged = [i \in DOMAIN @ \cup {m.idx} |->
                                        IF i = m.idx THEN m.data ELSE @[i]]]

StoreUnchecked(d) ==
    IF d.got < d.total THEN dev' = d /\ Reply(Ack("OK", d.got))
    ELSE /\ dev' = [d EXCEPT !.phase = "COMPLETE"]
         /\ Reply(Complete("OK"))
Store(d) ==
    IF d.got < d.total THEN dev' = d /\ Reply(Ack("OK", d.got))
    ELSE IF Merged(d) = d.image
    THEN /\ dev' = [d EXCEPT !.phase = "COMPLETE"]
         /\ Reply(Complete("OK"))
    ELSE /\ dev' = [d EXCEPT !.phase = "ERROR"]
         /\ Reply(Complete("CRC_ERR"))

HandleChunk(m) ==
    LET known == IF Delta THEN m.idx \in DOMAIN dev.staged ELSE m.idx < dev.got
        early == ~Delta /\ m.idx > dev.got
    IN  IF dev.phase = "RECEIVING" /\ ~known /\ ~early THEN Store(Staged(m))
        ELSE /\ UNCHANGED dev
             /\ Reply(IF dev.phase # "RECEIVING" THEN Ack("NO_SESSION", 0)
                      ELSE IF known THEN Ack("OK", dev.got) ELSE Ack("CRC_ERR", dev.got))

Receive(m) ==
    /\ down' = BagRemove(down, m)
    /\ CASE m.kind = "START" -> HandleStart(m)
         [] m.kind = "CHUNK" -> HandleChunk(m)
         [] m.kind = "ABORT" -> dev' = Idle /\ UNCHANGED up
    /\ UNCHANGED <<store, cached, running, primary, uploads>> /\ NoTrouble

(* The flash refuses to erase, or to take the chunk.                       *)
FlashError(m) ==
    /\ Trouble("flash")
    /\ down' = BagRemove(down, m)
    /\ \/ m.kind = "START" /\ dev.phase # "COMPLETE" /\ primary # m.image
       \/ m.kind = "CHUNK" /\ dev.phase = "RECEIVING" /\ m.idx \notin DOMAIN dev.staged
          /\ (Delta \/ m.idx = dev.got)
    /\ Reply(Ack("FLASH_ERR", IF m.kind = "START" THEN 0 ELSE dev.got))
    /\ UNCHANGED <<store, cached, running, dev, primary, uploads>>

(* 15 s after COMPLETE: copy, and reboot.                                  *)
Apply ==
    /\ dev.phase = "COMPLETE"
    /\ primary' = Merged(dev) /\ dev' = Idle
    /\ UNCHANGED <<store, cached, running, link, uploads>> /\ NoTrouble

(* The supply fails before the apply: the session in RAM is gone.          *)
Reboot ==
    /\ dev.phase # "IDLE" /\ Trouble("reboot")
    /\ dev' = Idle
    /\ UNCHANGED <<store, cached, running, link, primary, uploads>>

(* The link, and the asynchronous call of the lambda, which AWS repeats.   *)
(* An ACK is as good as lost, too, if the session cannot be read then.     *)
Lose == /\ Trouble("lose")
        /\ \/ \E m \in BagToSet(down) : down' = BagRemove(down, m) /\ UNCHANGED up
           \/ \E m \in BagToSet(up) : up' = BagRemove(up, m) /\ UNCHANGED down
        /\ UNCHANGED <<store, cached, running, dev, primary, uploads>>

Duplicate ==
    /\ Trouble("duplicate")
    /\ \/ \E m \in BagToSet(down) : Post(m) /\ UNCHANGED up
       \/ \E m \in BagToSet(up) : Reply(m) /\ UNCHANGED down
    /\ UNCHANGED <<store, cached, running, dev, primary, uploads>>

Deliver == \E m \in BagToSet(down) : Receive(m)
Uplink  == \E e \in BagToSet(up) : Forward(e)
Answer  == \E i \in BagToSet(running) : Finish(i)

Next == \/ \E im \in Images : Upload(im)
        \/ Uplink \/ Timer \/ Answer \/ Recycle
        \/ Deliver \/ Apply
        \/ Reboot \/ Lose \/ Duplicate
        \/ \E m \in BagToSet(down) : FlashError(m)

(* Messages that are not lost arrive, an invocation ends (or times out and *)
(* is repeated), the rule of the retry timer stays enabled, and the work   *)
(* queue runs.  Nothing obliges anyone to upload.                          *)
Fairness == /\ WF_vars(Deliver) /\ WF_vars(Uplink) /\ WF_vars(Answer)
            /\ WF_vars(Timer) /\ WF_vars(Apply)
Spec == Init /\ [][Next]_vars /\ Fairness

-----------------------------------------------------------------------------
Events == [kind : {"ACK"}, status : {"OK", "NO_SESSION", "FLASH_ERR", "CRC_ERR"}, got : Nat]
          \cup [kind : {"COMPLETE"}, status : {"OK", "CRC_ERR"}]

(* Types and ranges; in particular the counters of a session respect their *)
(* limits, and the device never counts beyond the announced total (a delta *)
(* of no chunks takes one stray chunk).                                    *)
TypeOK ==
    /\ session.image \in Images \cup {NoImage} /\ session.present \in BOOLEAN
    /\ session.retries \in 0..MaxRetries /\ session.restarts \in 0..MaxRestarts
    /\ baseline \in Images \cup {Factory, NoImage} /\ cached \subseteq Images \cup {Factory}
    /\ IsABag(down) /\ IsABag(up) /\ IsABag(running)
    /\ BagToSet(up) \subseteq Events
    /\ dev.phase \in {"IDLE", "RECEIVING", "COMPLETE", "ERROR"}
    /\ dev.got \in 0..(IF dev.total = 0 THEN 1 ELSE dev.total)
    /\ faults \in 0..MaxFaults /\ happened \subseteq Faults

(* The device runs an image that was announced, whole, whatever messages   *)
(* of whatever session were lost, repeated or mixed.                       *)
RunsWholeImage == primary \in Images \cup {Factory}

(* The list of chunks to send and the announced total belong together: no  *)
(* field of an earlier session decides what this one sends, unless it was  *)
(* superseded before it ended.                                             *)
OneSessionsFields ==
    session.present =>
        \/ "supersede" \in happened
        \/ session.delta /\ session.total = Cardinality(session.list)
        \/ ~session.delta /\ session.total = Chunks

(* lexicon.md:283: the baseline "represents what is currently running on   *)
(* the device".  So it does once a session is over, even if that session   *)
(* was given up, as long as there is less trouble than a session has       *)
(* retries, and than twice its restarts; also if the delta was computed    *)
(* against a stale baseline, as long as no message is lost then.  It does  *)
(* not if the device loses power between its COMPLETE and the apply, if an *)
(* upload comes while another session's COMPLETE is on its way, if         *)
(* repeated messages use up the restarts before COMPLETE is handled, or if *)
(* the session cannot be read or not be copied when COMPLETE is handled    *)
(* (the code goes on as if it were saved).                                 *)
Confused == {"reboot", "supersede", "duplicate", "late"}
BaselineInStep ==
    ~session.present /\ Settled
        => \/ baseline \in {NoImage, primary}
           \/ happened \cap (Confused \cup {"unsaved"}) # {}
           \/ {"stale", "lose"} \subseteq happened

(* technical-design.md:771 ("before giving up entirely"): a session ends,  *)
(* with COMPLETE or by giving up.                                          *)
SessionEnds == session.present ~> ~session.present

(* It does, as long as nothing makes the device start over in the middle   *)
(* of it: the count of acknowledged chunks survives that in the cloud.  A  *)
(* baseline that is not what the device runs (a stale one, or one that was *)
(* not saved) does so when the COMPLETE(CRC_ERR) it leads to is lost.      *)
UndisturbedSessionEnds ==
    session.present ~>
        \/ ~session.present
        \/ happened \cap Confused # {}
        \/ "lose" \in happened /\ happened \cap {"stale", "unsaved"} # {}

(* What is uploaded is installed, and known to be installed, if the worst  *)
(* that happens is a flash operation that fails and lost messages, fewer   *)
(* than the retries allow.                                                 *)
UploadInstalls ==
    \A im \in Images :
        session.present /\ session.image = im
            ~> (primary = im /\ baseline = im) \/ ~(happened \subseteq {"lose", "flash"})
=============================================================================
