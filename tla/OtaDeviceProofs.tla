-------------------------- MODULE OtaDeviceProofs --------------------------
(***************************************************************************)
(* The device's update engine.  The first part and the types hold in every *)
(* setting: any flash geometry, any images and sessions, power failures    *)
(* and flash errors at any point.                                          *)
(*                                                                         *)
(* The second part carries an update to its end: for any number of power   *)
(* failures the recovery record promises what the flash can keep, and the  *)
(* platform only calls into a whole image.  Its assumptions leave out what *)
(* OtaMetadataGap, OtaDeltaRecovery and OtaAbortApply show going wrong,    *)
(* and flash errors past the first record.                                 *)
(***************************************************************************)
EXTENDS OtaDevice, FiniteSetTheorems, TLAPS

-----------------------------------------------------------------------------
(* The apply and the app.  The first two parts say only that the records   *)
(* have the fields the others speak of.                                    *)
Touching == {"read", "erase", "write", "stale", "finish"}

ApplyInv ==
    /\ "pc" \in DOMAIN ap /\ "mode" \in DOMAIN ap
    /\ run = "boot" => ap.pc = "none" /\ ~app
    /\ ap.pc # "none" => ~app
    /\ ap.pc \in Touching => meta.present

LEMMA ApplyInit == Init => ApplyInv
  BY DEF Init, ApplyInv, NotApplying, Touching

LEMMA ApplyNext == ApplyInv /\ [Next]_vars => ApplyInv'
<1> SUFFICES ASSUME ApplyInv, [Next]_vars PROVE ApplyInv'
  OBVIOUS
<1> USE DEF ApplyInv
<1>1. ASSUME NEW s \in Sessions, Start(s) PROVE ApplyInv'
  BY <1>1 DEF Start, Handler, Running
<1>2. ASSUME NEW c \in Messages, Chunk(c) PROVE ApplyInv'
  BY <1>2 DEF Chunk, Handler, Running
<1>3. CASE ChunkStored \/ Abort \/ ShellAbort
  BY <1>3 DEF ChunkStored, Abort, ShellAbort, Handler, Running
<1>4. CASE ApplyStart
  <2>1. UNCHANGED <<meta, run>> /\ run = "up"
    BY <1>4 DEF ApplyStart, Begin, flash
  <2>2. CASE ota.phase = "COMPLETE"
    <3>1. app' = FALSE /\ ap'.pc = "mark" /\ "pc" \in DOMAIN ap' /\ "mode" \in DOMAIN ap'
      BY <1>4, <2>2 DEF ApplyStart, Begin, StopApp, NotApplying
    <3> QED BY <2>1, <3>1 DEF Touching
  <2>3. CASE ota.phase # "COMPLETE"
    BY <1>4, <2>1, <2>3 DEF ApplyStart, Begin
  <2> QED BY <2>2, <2>3
<1>5. CASE Mark
  BY <1>5 DEF Mark, Step, Quiet, Touching
<1>6. CASE Record
  BY <1>6 DEF Record, RecordAs, Step, Quiet, Touching
<1>7. CASE NextPage
  <2>1. UNCHANGED <<meta, app>> /\ ap.pc = "read"
    BY <1>7 DEF NextPage, Step, flash
  <2>2. CASE GiveUp
    <3>1. ap' = NotApplying /\ run' \in {run, "halt"}
      BY <2>2 DEF GiveUp
    <3> QED BY <2>1, <3>1 DEF NotApplying, Touching
  <2>3. CASE /\ UNCHANGED run
             /\ \/ ap' = [ap EXCEPT !.pc = "erase", !.buf = PageData]
                \/ ap' = [ap EXCEPT !.pc = "stale", !.image = ImageOf]
    BY <2>1, <2>3 DEF Touching
  <2> QED BY <1>7, <2>2, <2>3 DEF NextPage
<1>15. CASE ErasePage
  BY <1>15 DEF ErasePage, Step, Quiet, Touching
<1>8. CASE WritePage
  BY <1>8 DEF WritePage, Step, Quiet, Touching
<1>9. CASE EraseStale
  BY <1>9 DEF EraseStale, StaleFrom, Step, Quiet, Touching
<1>10. CASE Finish
  BY <1>10 DEF Finish, FinishWith, Restart, GiveUp, NotApplying, Touching
<1>11. CASE Fault
  BY <1>11 DEF Fault, GiveUp, NotApplying, Touching
<1>12. CASE Boot
  <2>1. UNCHANGED meta
    BY <1>12 DEF Boot, flash
  <2>2. CASE meta.present
    <3>1. app' = app /\ run' = "recover"
      BY <1>12, <2>2 DEF Boot
    <3>2. "pc" \in DOMAIN ap' /\ "mode" \in DOMAIN ap'
      BY <1>12, <2>2 DEF Boot
    <3>3. run = "boot"
      BY <1>12 DEF Boot
    <3>4. ~app
      BY <1>12, <2>2 DEF Boot
    <3> QED BY <2>1, <2>2, <3>1, <3>2, <3>4
  <2>3. CASE ~meta.present
    <3>1. ap' = ap /\ run' = "up" /\ run = "boot"
      BY <1>12, <2>3 DEF Boot
    <3> QED BY <2>1, <3>1 DEF Touching
  <2> QED BY <2>2, <2>3
<1>13. CASE PowerFail
  BY <1>13 DEF PowerFail, Restart, NotApplying, Touching
<1>14. CASE UNCHANGED vars
  BY <1>14 DEF vars
<1> QED
  BY <1>1, <1>2, <1>3, <1>4, <1>5, <1>6, <1>7, <1>8, <1>9, <1>10, <1>11, <1>12,
     <1>13, <1>14, <1>15 DEF Next, Apply

LEMMA ApplyInvariance == Spec => []ApplyInv
  BY ApplyInit, ApplyNext, PTL DEF Spec

LEMMA OnlyTheApplyWrites == [Next]_vars /\ primary' # primary => ap.pc \in Touching
<1> SUFFICES ASSUME [Next]_vars, primary' # primary PROVE ap.pc \in Touching
  OBVIOUS
<1>1. ASSUME NEW s \in Sessions, Start(s) PROVE FALSE
  BY <1>1 DEF Start, Handler, Running
<1>2. ASSUME NEW c \in Messages, Chunk(c) PROVE FALSE
  BY <1>2 DEF Chunk, Handler, Running
<1>3. ~(ChunkStored \/ Abort \/ ShellAbort)
  BY DEF ChunkStored, Abort, ShellAbort, Handler, Running
<1>4. ~(ApplyStart \/ Fault \/ Boot)
  BY DEF ApplyStart, Begin, Fault, Boot, flash
<1>5. ~(Mark \/ Record \/ NextPage \/ Finish)
  BY DEF Mark, Record, RecordAs, NextPage, Finish, FinishWith, flash
<1>6. CASE ErasePage \/ WritePage \/ EraseStale
  BY <1>6 DEF ErasePage, WritePage, EraseStale, StaleFrom, Step, Touching
<1>7. CASE PowerFail
  BY <1>7 DEF PowerFail, Touching
<1>8. ~UNCHANGED vars
  BY DEF vars
<1> QED
  BY <1>1, <1>2, <1>3, <1>4, <1>5, <1>6, <1>7, <1>8 DEF Next, Apply

(* The hook stops the app and the record is written before the apply       *)
(* touches the app partition, in full, delta and resumed applies alike     *)
(* (ota_update.c:179-194, 264-272, 628-647).                               *)
THEOREM WritesUnderRecord == Spec => PrimaryWrittenUnderRecord
<1>1. ApplyInv /\ [Next]_vars => [primary' # primary => ~app /\ meta.present]_vars
  BY OnlyTheApplyWrites DEF ApplyInv, Touching
<1> QED
  BY <1>1, ApplyInvariance, PTL DEF Spec, PrimaryWrittenUnderRecord

-----------------------------------------------------------------------------
(* The deferred apply.  It can only be out of step with the phase if an    *)
(* ABORT reaches an apply that runs: the apply then puts its ERROR over    *)
(* the phase of whatever session came after (ota_update.c:754-757).        *)
DeferredInv ==
    /\ "phase" \in DOMAIN ota
    /\ "pc" \in DOMAIN ap /\ "mode" \in DOMAIN ap
    /\ ap.mode \in {"none", "full", "delta", "resume"}
    /\ ap.pc # "none" => ap.mode # "none"
    /\ ap.mode \in {"full", "delta"} => ota.phase = "APPLYING"
    /\ rx.writing => ota.phase \in {"IDLE", "RECEIVING"}
    /\ DeferredArmed

LEMMA DeferredInit == Init => DeferredInv
  BY DEF Init, DeferredInv, DeferredArmed, Fresh, NoChunk, NotApplying

LEMMA DeferredNext ==
  ASSUME "APPLYING" \notin AbortDuring
  PROVE  DeferredInv /\ [Next]_vars => DeferredInv'
<1> SUFFICES ASSUME DeferredInv, [Next]_vars PROVE DeferredInv'
  OBVIOUS
<1> USE DEF DeferredInv, DeferredArmed
<1>1. ASSUME NEW s \in Sessions, Start(s) PROVE DeferredInv'
  <2>1. UNCHANGED <<ap, work, rx>> /\ rx = NoChunk
    BY <1>1 DEF Start, Handler, Running, Reply
  <2>2. UNCHANGED ota \/ (~Busy /\ ota' = Session(s))
    BY <1>1 DEF Start, Reply
  <2> QED BY <2>1, <2>2 DEF Busy, Session, NoChunk
<1>2. ASSUME NEW c \in Messages, Chunk(c) PROVE DeferredInv'
  <2>1. UNCHANGED <<ap, ota, work>>
    BY <1>2 DEF Chunk, Handler, Running, DeltaChunk, FullChunk, Reply, Write
  <2>2. rx' = rx \/ ota.phase = "RECEIVING"
    BY <1>2 DEF Chunk, Reply
  <2> QED BY <2>1, <2>2
<1>3. CASE ChunkStored
  <2>1. UNCHANGED ap /\ ota.phase \in {"IDLE", "RECEIVING"} /\ rx' = NoChunk
    BY <1>3 DEF ChunkStored, Running
  <2>2. Counted.phase = ota.phase /\ "phase" \in DOMAIN Counted
    BY DEF Counted
  <2>3. \/ ota' = Counted /\ UNCHANGED work
        \/ ota' = [Counted EXCEPT !.phase = "ERROR"] /\ UNCHANGED work
        \/ ota' = [Counted EXCEPT !.phase = "COMPLETE"] /\ work' = TRUE
    BY <1>3 DEF ChunkStored, Validate, Fail
  <2>4. ap.mode \notin {"full", "delta"} /\ ~work
    BY <2>1
  <2> QED BY <2>1, <2>2, <2>3, <2>4 DEF NoChunk
<1>4. CASE Abort \/ ShellAbort
  <2>1. UNCHANGED <<ap, rx>> /\ ota' = Fresh /\ work' = FALSE
    BY <1>4 DEF Abort, ShellAbort, Handler, Running, Forget
  <2>2. ota.phase # "APPLYING"
    BY <1>4 DEF Abort, ShellAbort, Handler, NoChunk
  <2> QED BY <2>1, <2>2 DEF Fresh
<1>5. CASE ApplyStart
  <2>1. ota.phase = "COMPLETE" /\ work' = FALSE /\ UNCHANGED rx
    BY <1>5 DEF ApplyStart, Begin, Quiet
  <2>2. ota' = [ota EXCEPT !.phase = "APPLYING"]
    BY <1>5, <2>1 DEF ApplyStart, Begin
  <2>3. ap'.mode \in {"full", "delta"} /\ "pc" \in DOMAIN ap' /\ "mode" \in DOMAIN ap'
    BY <1>5, <2>1 DEF ApplyStart, Begin, NotApplying
  <2> QED BY <2>1, <2>2, <2>3
<1>6. ASSUME GiveUp, ap.mode # "none", UNCHANGED <<work, rx>> PROVE DeferredInv'
  BY <1>6 DEF GiveUp, NotApplying
<1>7. CASE Mark \/ Record \/ ErasePage \/ WritePage \/ EraseStale
  <2>1. UNCHANGED <<ota, rx, work>> /\ ap.pc # "none"
    BY <1>7 DEF Mark, Record, RecordAs, ErasePage, WritePage, EraseStale, StaleFrom, Step, Quiet
  <2>2. ap'.mode = ap.mode /\ "pc" \in DOMAIN ap' /\ "mode" \in DOMAIN ap'
    BY <1>7 DEF Mark, Record, RecordAs, ErasePage, WritePage, EraseStale, StaleFrom, Step
  <2> QED BY <2>1, <2>2
<1>8. CASE NextPage
  <2>1. UNCHANGED <<work, rx>> /\ ap.pc # "none"
    BY <1>8 DEF NextPage, Step, Quiet
  <2>2. CASE GiveUp
    BY <1>6, <2>1, <2>2
  <2>3. CASE /\ ota' = ota
             /\ \/ ap' = [ap EXCEPT !.pc = "erase", !.buf = PageData]
                \/ ap' = [ap EXCEPT !.pc = "stale", !.image = ImageOf]
    BY <2>1, <2>3
  <2> QED BY <1>8, <2>2, <2>3 DEF NextPage
<1>9. CASE Finish
  <2>1. ap.pc # "none"
    BY <1>9 DEF Finish, FinishWith
  <2>2. CASE Restart
    BY <2>2 DEF Restart, Fresh, NoChunk, NotApplying
  <2>3. CASE GiveUp /\ UNCHANGED <<work, rx>>
    BY <1>6, <2>1, <2>3
  <2> QED BY <1>9, <2>2, <2>3 DEF Finish, FinishWith
<1>10. CASE Fault
  BY <1>6, <1>10 DEF Fault, Quiet
<1>11. CASE Boot
  <2>1. UNCHANGED <<ota, rx, work>>
    BY <1>11 DEF Boot, Quiet
  <2>2. UNCHANGED ap \/ (ap'.mode = "resume" /\ "pc" \in DOMAIN ap' /\ "mode" \in DOMAIN ap')
    BY <1>11 DEF Boot
  <2> QED BY <2>1, <2>2
<1>12. CASE PowerFail
  BY <1>12 DEF PowerFail, Restart, Fresh, NoChunk, NotApplying
<1>13. CASE UNCHANGED vars
  BY <1>13 DEF vars
<1> QED
  BY <1>1, <1>2, <1>3, <1>4, <1>5, <1>7, <1>8, <1>9, <1>10, <1>11, <1>12, <1>13
     DEF Next, Apply

(* As long as no ABORT arrives while an image is being applied, the        *)
(* deferred apply is scheduled exactly while a validated image waits for   *)
(* it (ota_update.c:509-512, 742-747, 887-893), whatever else happens.     *)
THEOREM DeferredArmedCorrect ==
  ASSUME "APPLYING" \notin AbortDuring
  PROVE  Spec => []DeferredArmed
<1>1. DeferredInv => DeferredArmed
  BY DEF DeferredInv
<1> QED
  BY DeferredInit, DeferredNext, <1>1, PTL DEF Spec

-----------------------------------------------------------------------------
(* From validation to apply.  What was validated is spread over staging    *)
(* and, in a delta, the app partition; neither may change while it waits.  *)
(* A handler writes staging only in a session that is receiving, an apply  *)
(* writes the app partition only in phase APPLYING, or before the device   *)
(* is up, when there is no session.                                        *)
Fields == {"phase", "s", "got", "bytes", "received"}

ValidInv ==
    /\ DeferredInv
    /\ DOMAIN ota = Fields
    /\ ap.mode = "resume" => run = "recover"
    /\ run # "up" => ota.phase = "IDLE"
    /\ ValidatedStays

(* The image a session has assembled depends on its chunks and the flash.  *)
LEMMA SameMerged ==
    ASSUME NEW o, ota'.s = o.s, ota'.received = o.received,
           UNCHANGED <<primary, staging>>
    PROVE  Merged(ota)' = Merged(o)
  BY DEF Merged

LEMMA ValidInit == Init => ValidInv
  <1>1. Init => ota = Fresh /\ ap = NotApplying /\ run = "boot"
    BY DEF Init
  <1> QED
    BY <1>1, DeferredInit DEF ValidInv, ValidatedStays, Fresh, NotApplying, Fields

LEMMA ValidNext ==
  ASSUME "APPLYING" \notin AbortDuring
  PROVE  ValidInv /\ [Next]_vars => ValidInv'
<1> SUFFICES ASSUME ValidInv, [Next]_vars PROVE ValidInv'
  OBVIOUS
<1>0. DeferredInv /\ DeferredInv'
  BY DeferredNext DEF ValidInv
<1>f. /\ DOMAIN ota = Fields /\ "phase" \in DOMAIN ota
      /\ "mode" \in DOMAIN ap
      /\ ap.mode = "resume" => run = "recover"
      /\ run # "up" => ota.phase = "IDLE"
  BY <1>0 DEF ValidInv, DeferredInv
(* A step that leaves a waiting image and both partitions as they are.     *)
<1>k. ASSUME UNCHANGED <<primary, staging, ota, run>>,
             UNCHANGED ap \/ ap'.mode = ap.mode \/ ap'.mode = "none"
      PROVE  ValidInv'
  <2>1. Merged(ota)' = Merged(ota)
    BY <1>k, SameMerged
  <2>2. Trusted(ota.s)' = Trusted(ota.s)
    BY <1>k DEF Trusted
  <2> QED
    BY <1>0, <1>f, <1>k, <2>1, <2>2 DEF ValidInv, ValidatedStays
(* A step that ends in a session in which nothing waits.                   *)
<1>n. ASSUME DOMAIN ota' = Fields, ota'.phase # "COMPLETE",
             run' = "up" \/ ota'.phase = "IDLE",
             ap'.mode = "resume" => run' = "recover"
      PROVE  ValidInv'
  BY <1>0, <1>n DEF ValidInv, ValidatedStays
<1>g. ASSUME GiveUp, ap.mode # "none" PROVE ValidInv'
  <2>1. CASE ap.mode = "resume"
    <3>1. ota' = ota /\ run' = "halt" /\ ap'.mode = "none"
      BY <1>g, <2>1 DEF GiveUp, NotApplying
    <3>2. ota.phase = "IDLE"
      BY <1>f, <2>1
    <3> QED BY <1>n, <1>f, <3>1, <3>2
  <2>2. CASE ap.mode # "resume"
    <3>1. ota' = [ota EXCEPT !.phase = "ERROR"] /\ run' = run /\ ap'.mode = "none"
      BY <1>g, <2>2 DEF GiveUp, NotApplying
    <3>2. ota.phase = "APPLYING"
      BY <1>0, <1>g, <2>2 DEF DeferredInv
    <3>3. run = "up"
      BY <1>f, <3>2
    <3>4. DOMAIN ota' = Fields /\ ota'.phase = "ERROR"
      BY <1>f, <3>1
    <3> QED BY <1>n, <3>1, <3>3, <3>4
  <2> QED BY <2>1, <2>2
<1>r. ASSUME Restart PROVE ValidInv'
  <2>1. ota' = Fresh /\ ap' = NotApplying
    BY <1>r DEF Restart
  <2> QED BY <1>n, <2>1 DEF Fresh, NotApplying, Fields
(* A step of an apply that goes on: its session waits no longer.           *)
<1>a. ASSUME ap.pc # "none", UNCHANGED <<ota, run>>, ap'.mode = ap.mode
      PROVE  ValidInv'
  <2>1. ap.mode = "resume" \/ ota.phase = "APPLYING"
    BY <1>0, <1>a DEF DeferredInv
  <2>2. ota.phase # "COMPLETE"
    BY <1>f, <2>1
  <2> QED BY <1>n, <1>f, <1>a, <2>2
<1>1. ASSUME NEW s \in Sessions, Start(s) PROVE ValidInv'
  <2>1. UNCHANGED <<primary, ap, run>> /\ run = "up"
    BY <1>1 DEF Start, Handler, Running
  <2>2. CASE UNCHANGED <<staging, ota>>
    BY <1>k, <2>1, <2>2
  <2>3. CASE ~Busy /\ UNCHANGED ota
    BY <1>n, <1>f, <2>1, <2>3 DEF Busy
  <2>4. CASE ota' = Session(s)
    BY <1>n, <1>f, <2>1, <2>4 DEF Session, Fields
  <2> QED BY <1>1, <2>2, <2>3, <2>4 DEF Start, Reply
<1>2. ASSUME NEW c \in Messages, Chunk(c) PROVE ValidInv'
  <2>1. UNCHANGED <<primary, ap, run>> /\ run = "up"
    BY <1>2 DEF Chunk, Handler, Running
  <2>2. UNCHANGED ota
    BY <1>2 DEF Chunk, DeltaChunk, FullChunk, Reply, Write
  <2>3. UNCHANGED staging \/ ota.phase = "RECEIVING"
    BY <1>2 DEF Chunk, Reply
  <2> QED BY <1>k, <1>n, <1>f, <2>1, <2>2, <2>3
<1>3. CASE ChunkStored
  <2>1. UNCHANGED <<primary, staging, ap, run>> /\ run = "up"
    BY <1>3 DEF ChunkStored, Running
  <2>2. DOMAIN Counted = Fields /\ Counted.phase = ota.phase
    BY <1>f DEF Counted, Fields
  <2>3. ota.phase \in {"IDLE", "RECEIVING"}
    BY <1>0, <1>3 DEF ChunkStored, DeferredInv
  <2>4. \/ ota' = Counted
        \/ ota' = [Counted EXCEPT !.phase = "ERROR"]
        \/ /\ ota' = [Counted EXCEPT !.phase = "COMPLETE"]
           /\ Merged(Counted) = Counted.s.image /\ Trusted(Counted.s)
    BY <1>3 DEF ChunkStored, Validate, Fail
  <2>5. CASE ota' = Counted \/ ota' = [Counted EXCEPT !.phase = "ERROR"]
    <3>1. DOMAIN ota' = Fields /\ ota'.phase # "COMPLETE"
      BY <2>2, <2>3, <2>5 DEF Fields
    <3> QED BY <1>n, <1>f, <2>1, <3>1
  <2>6. CASE /\ ota' = [Counted EXCEPT !.phase = "COMPLETE"]
             /\ Merged(Counted) = Counted.s.image /\ Trusted(Counted.s)
    <3>1. DOMAIN ota' = Fields /\ ota'.s = Counted.s /\ ota'.received = Counted.received
      BY <2>2, <2>6 DEF Fields
    <3>2. Merged(ota)' = Merged(Counted)
      BY <2>1, <3>1, SameMerged
    <3>3. Merged(ota)' = ota'.s.image
      BY <2>6, <3>1, <3>2
    <3>4. Trusted(ota.s)'
      BY <2>6, <3>1 DEF Trusted
    <3> QED
      BY <1>0, <1>f, <2>1, <3>1, <3>3, <3>4 DEF ValidInv, ValidatedStays
  <2> QED BY <2>4, <2>5, <2>6
<1>4. CASE Abort \/ ShellAbort
  <2>1. UNCHANGED <<ap, run>> /\ ota' = Fresh
    BY <1>4 DEF Abort, ShellAbort, Handler, Running, Forget
  <2> QED BY <1>n, <1>f, <2>1 DEF Fresh, Fields
<1>5. CASE ApplyStart
  <2>1. ota.phase = "COMPLETE" /\ run = "up" /\ run' = "up"
    BY <1>0, <1>5 DEF ApplyStart, Begin, DeferredInv, DeferredArmed
  <2>2. ota' = [ota EXCEPT !.phase = "APPLYING"]
    BY <1>5, <2>1 DEF ApplyStart, Begin
  <2>3. ap'.mode \in {"full", "delta"}
    BY <1>5, <2>1 DEF ApplyStart, Begin, NotApplying
  <2>4. DOMAIN ota' = Fields /\ ota'.phase = "APPLYING"
    BY <1>f, <2>2
  <2> QED BY <1>n, <2>1, <2>3, <2>4
<1>6. CASE Mark \/ Record \/ ErasePage \/ WritePage \/ EraseStale
  <2>1. UNCHANGED <<ota, run>> /\ ap.pc # "none"
    BY <1>6 DEF Mark, Record, RecordAs, ErasePage, WritePage, EraseStale, StaleFrom, Step
  <2>2. ap'.mode = ap.mode
    BY <1>6, <1>f DEF Mark, Record, RecordAs, ErasePage, WritePage, EraseStale, StaleFrom, Step
  <2> QED BY <1>a, <2>1, <2>2
<1>7. CASE NextPage
  <2>1. ap.pc # "none"
    BY <1>7 DEF NextPage, Step
  <2>2. ap.mode # "none"
    BY <1>0, <2>1 DEF DeferredInv
  <2>3. CASE GiveUp
    BY <1>g, <2>2, <2>3
  <2>4. CASE /\ UNCHANGED <<ota, run>>
             /\ \/ ap' = [ap EXCEPT !.pc = "erase", !.buf = PageData]
                \/ ap' = [ap EXCEPT !.pc = "stale", !.image = ImageOf]
    <3>1. ap'.mode = ap.mode
      BY <1>f, <2>4
    <3> QED BY <1>a, <2>1, <2>4, <3>1
  <2> QED BY <1>7, <2>3, <2>4 DEF NextPage
<1>8. CASE Finish
  <2>1. ap.mode # "none"
    BY <1>0, <1>8 DEF Finish, FinishWith, DeferredInv
  <2> QED BY <1>8, <1>g, <1>r, <2>1 DEF Finish, FinishWith
<1>9. CASE Fault
  BY <1>9, <1>g DEF Fault
<1>10. CASE Boot
  <2>1. UNCHANGED <<primary, staging, ota>> /\ run = "boot"
    BY <1>10 DEF Boot, flash
  <2>2. ota.phase = "IDLE"
    BY <1>f, <2>1
  <2>3. (ap'.mode = "resume" /\ run' = "recover") \/ (UNCHANGED ap /\ run' = "up")
    BY <1>10 DEF Boot
  <2>4. ap.mode # "resume"
    BY <1>f, <2>1
  <2> QED BY <1>n, <1>f, <2>1, <2>2, <2>3, <2>4
<1>11. CASE PowerFail
  BY <1>11, <1>r DEF PowerFail
<1>12. CASE UNCHANGED vars
  BY <1>12, <1>k DEF vars
<1> QED
  BY <1>1, <1>2, <1>3, <1>4, <1>5, <1>6, <1>7, <1>8, <1>9, <1>10, <1>11, <1>12
     DEF Next, Apply

(* As long as no ABORT arrives while an image is being applied, an image   *)
(* that passed validation is still that image, and still trusted, when the *)
(* apply starts 15 s later, whatever messages, shell commands and power    *)
(* failures come in between, for every flash geometry and all sessions     *)
(* (ota_update.c:509-512, 837-856, 742-757).                               *)
THEOREM ValidatedStaysCorrect ==
  ASSUME "APPLYING" \notin AbortDuring
  PROVE  Spec => []ValidatedStays
<1>1. ValidInv => ValidatedStays
  BY DEF ValidInv
<1> QED
  BY ValidInit, ValidNext, <1>1, PTL DEF Spec

-----------------------------------------------------------------------------
(* An image the cloud announced, and one the device may boot.              *)
Updates == {s.image : s \in {x \in Sessions : Trusted(x)}}
Bootable == {Factory} \cup Updates

(* What an image makes of a unit of the app partition.                     *)
At(im, u) == IF u \in DOMAIN im THEN im[u] ELSE FF
Below(im, p) == \A u \in Unit : u \div PageSize < p => primary[u] = At(im, u)
From(f, im, p) == \A u \in DOMAIN im : u \div PageSize >= p => f[u] = im[u]
Whole == \E im \in Bootable : primary = Flashed(im)

(* What survives a restart: a record from which the update can be carried  *)
(* to its end, or, without one, an image that is whole.  A delta being     *)
(* applied is the one that cannot be resumed, and an apply that is between *)
(* the erasure and the writing of a later record has neither.  A record is *)
(* left behind where the image was no app.                                 *)
Recoverable ==
    /\ meta.image \in Updates /\ meta.pages = Pages(Size(meta.image))
    /\ meta.copied \in 0..meta.pages
    /\ Below(meta.image, meta.copied)
    /\ ap.mode = "delta" \/ From(staging, meta.image, meta.copied)
Rewriting == ap.mode # "none" /\ ap.pc = "record" /\ ap.page # 0
LeftBehind == Stranded /\ meta.copied = meta.pages
Durable == IF meta.present THEN Recoverable ELSE Whole \/ Rewriting

(* The units of the image that the apply still has to find where it reads. *)
Source(im, p) == IF ap.mode = "delta" THEN From(Merged(ota), im, p) ELSE From(staging, im, p)
Room(im, p) == LET left == Size(im) - p * PageSize
               IN  IF left < PageSize THEN left ELSE PageSize
Part(im, p) == Read(im, p * PageSize, Room(im, p))

(* An apply in progress: everything before its page is done, and nothing   *)
(* is lost of what it still has to do.                                     *)
Placed ==
    /\ ap.image = ImageOf
    /\ ImageOf \in Updates /\ ap.pages = Pages(Size(ImageOf)) /\ ap.page \in 0..ap.pages
    /\ ap.pc \in {"mark", "record"} \cup Touching
    /\ ap.pc \in {"erase", "write"} => ap.page < ap.pages
    /\ ap.pc \in {"stale", "finish"} => ap.page = ap.pages
Recorded ==
    /\ ap.pc \in {"mark", "record"} /\ ap.page = 0 => ap.mode # "resume"
    /\ ap.pc = "mark" /\ ap.page = 0 => ~meta.present \/ LeftBehind
    /\ ap.pc = "record" => ~meta.present
    /\ ap.pc \in Touching => meta.image = ImageOf /\ meta.copied = ap.page
Copying ==
    /\ Below(ImageOf, ap.page)
    /\ Source(ImageOf, IF ap.pc = "write" THEN ap.page + 1 ELSE ap.page)
    /\ ap.pc \in {"erase", "write"} => ap.buf = Part(ImageOf, ap.page)
    /\ ap.pc = "write" => \A u \in Unit : u \div PageSize = ap.page => primary[u] = FF
    /\ ap.pc = "finish" => primary = Flashed(ImageOf)
Applying == ap.mode # "none" => Placed /\ Recorded /\ Copying

(* What the cloud announces fits the partition.                            *)
SessionsFit ==
    \A s \in Sessions : \E n \in 1..(AppPages * PageSize) : DOMAIN s.image = 0..(n - 1)

-----------------------------------------------------------------------------
(* Units and pages.                                                        *)
LEMMA PageOf ==
    ASSUME NEW P \in Nat \ {0}, NEW u \in Nat
    PROVE  u \div P \in Nat /\ (u \div P) * P <= u /\ u < (u \div P) * P + P
  OBVIOUS

LEMMA OnPage ==
    ASSUME NEW P \in Nat \ {0}, NEW u \in Nat, NEW p \in Nat, p * P <= u, u < p * P + P
    PROVE  u \div P = p
  OBVIOUS

LEMMA PagesCover ==
    ASSUME NEW P \in Nat \ {0}, NEW n \in Nat, NEW N, N = (n + P - 1) \div P
    PROVE  /\ N \in Nat
           /\ \A u \in 0..(n - 1) : u \div P < N
           /\ \A k \in Nat : k < N => k * P < n
  OBVIOUS

LEMMA PagesFit ==
    ASSUME NEW P \in Nat \ {0}, NEW A \in Nat, NEW u \in 0..(A * P - 1)
    PROVE  u \div P < A
  OBVIOUS

LEMMA AnnouncedSize ==
    ASSUME SessionsFit, NEW s \in Sessions
    PROVE  /\ Size(s.image) \in 1..(AppPages * PageSize)
           /\ DOMAIN s.image = 0..(Size(s.image) - 1)
<1>0. AppPages * PageSize \in Nat
  BY SizeAssumption
<1>1. PICK n \in 1..(AppPages * PageSize) : DOMAIN s.image = 0..(n - 1)
  BY DEF SessionsFit
<1>2. n \in Int /\ Cardinality(0..(n - 1)) = n
  <2>1. n \in Int /\ n >= 1
    BY <1>0
  <2>2. Cardinality(0..(n - 1)) = IF 0 > n - 1 THEN 0 ELSE (n - 1) - 0 + 1
    BY <2>1, FS_Interval
  <2> QED BY <2>1, <2>2
<1> QED BY <1>1, <1>2 DEF Size

LEMMA ImageSize ==
    ASSUME SessionsFit, NEW im \in Updates
    PROVE  /\ Size(im) \in Nat \ {0} /\ DOMAIN im = 0..(Size(im) - 1)
           /\ DOMAIN im \subseteq Unit
<1>1. PICK s \in Sessions : Trusted(s) /\ im = s.image
  BY DEF Updates
<1>2. Size(im) \in 1..(AppPages * PageSize) /\ DOMAIN im = 0..(Size(im) - 1)
  BY <1>1, AnnouncedSize
<1>3. AppPages * PageSize \in Nat
  BY SizeAssumption
<1> QED BY <1>2, <1>3 DEF Unit

LEMMA UnitNat == Unit \subseteq Nat
  BY SizeAssumption DEF Unit

LEMMA ImagePages ==
    ASSUME SessionsFit, NEW im \in Updates
    PROVE  /\ Pages(Size(im)) \in Nat
           /\ \A u \in DOMAIN im : u \div PageSize < Pages(Size(im))
           /\ \A k \in Nat : k < Pages(Size(im)) => k * PageSize < Size(im)
<1>1. Size(im) \in Nat /\ DOMAIN im = 0..(Size(im) - 1) /\ PageSize \in Nat \ {0}
  BY ImageSize, SizeAssumption
<1>2. Pages(Size(im)) = (Size(im) + PageSize - 1) \div PageSize
  BY DEF Pages
<1> QED BY <1>1, <1>2, PagesCover

LEMMA NothingLeft ==
    ASSUME SessionsFit, NEW im \in Updates, NEW f
    PROVE  From(f, im, Pages(Size(im)))
<1>1. \A u \in DOMAIN im : u \div PageSize \in Nat /\ u \div PageSize < Pages(Size(im))
  BY ImageSize, ImagePages, UnitNat, PageOf, SizeAssumption
<1> QED BY <1>1, ImagePages DEF From

(* The part of an image that one page holds.                               *)
LEMMA PartAt ==
    ASSUME SessionsFit, NEW im \in Updates, NEW p \in Nat, p < Pages(Size(im))
    PROVE  /\ Room(im, p) \in 1..PageSize
           /\ \A i \in 0..(Room(im, p) - 1) :
                  /\ p * PageSize + i \in DOMAIN im
                  /\ (p * PageSize + i) \div PageSize = p
           /\ \A u \in Nat : u - p * PageSize \in 0..(Room(im, p) - 1)
                                <=> u \in DOMAIN im /\ u \div PageSize = p
<1> DEFINE a == p * PageSize
           n == Size(im)
           r == Room(im, p)
<1>1. PageSize \in Nat \ {0} /\ n \in Nat \ {0} /\ a \in Nat /\ a < n
      /\ DOMAIN im = 0..(n - 1)
  BY SizeAssumption, ImageSize, ImagePages
<1>2. r = IF n - a < PageSize THEN n - a ELSE PageSize
  BY DEF Room
<1> HIDE DEF n, r
<1>3. r \in 1..PageSize /\ a + r <= n /\ (r < PageSize => a + r = n)
  BY <1>1, <1>2
<1>4. ASSUME NEW i \in 0..(r - 1)
      PROVE  a + i \in DOMAIN im /\ (a + i) \div PageSize = p
  <2>1. a + i \in Nat /\ a <= a + i /\ a + i < a + PageSize /\ a + i < n
    BY <1>1, <1>3
  <2>2. (a + i) \div PageSize = p
    BY <2>1, <1>1, OnPage
  <2> QED BY <2>1, <2>2, <1>1
<1>5. ASSUME NEW u \in Nat, u - a \in 0..(r - 1)
      PROVE  u \in DOMAIN im /\ u \div PageSize = p
  <2>1. u = a + (u - a)
    BY <1>1
  <2> QED BY <1>4, <1>5, <2>1
<1>6. ASSUME NEW u \in Nat, u \in DOMAIN im, u \div PageSize = p
      PROVE  u - a \in 0..(r - 1)
  <2>1. a <= u /\ u < a + PageSize
    BY <1>1, <1>6, PageOf
  <2>2. u < n
    BY <1>1, <1>6
  <2> QED BY <2>1, <2>2, <1>1, <1>3
<1> QED BY <1>3, <1>4, <1>5, <1>6 DEF r

(* What flash holds after an image or a part of it is written.             *)
LEMMA FlashedIs == ASSUME NEW im PROVE Flashed(im) = [u \in Unit |-> At(im, u)]
  BY UnitNat DEF Flashed, Put, At, FF

LEMMA PartSize ==
    ASSUME SessionsFit, NEW im \in Updates, NEW p \in Nat, p < Pages(Size(im))
    PROVE  DOMAIN Part(im, p) = 0..(Room(im, p) - 1) /\ Size(Part(im, p)) = Room(im, p)
<1>1. DOMAIN Part(im, p) = 0..(Room(im, p) - 1)
  BY DEF Part, Read
<1>2. ASSUME NEW r \in Nat \ {0} PROVE Cardinality(0..(r - 1)) = r
  <2>1. 0 \in Int /\ r - 1 \in Int
    OBVIOUS
  <2>2. Cardinality(0..(r - 1)) = IF 0 > r - 1 THEN 0 ELSE (r - 1) - 0 + 1
    BY <2>1, FS_Interval
  <2> QED BY <2>2
<1>3. Room(im, p) \in Nat \ {0}
  BY PartAt, SizeAssumption
<1> QED BY <1>1, <1>2, <1>3 DEF Size

(* A write, complete or cut short, stays on its page and adds up to it.    *)
LEMMA PutPart ==
    ASSUME SessionsFit, NEW im \in Updates, NEW p \in Nat, p < Pages(Size(im)),
           NEW n \in 0..Size(Part(im, p)), NEW u \in Unit
    PROVE  LET w == Put(primary, p * PageSize, Read(Part(im, p), 0, n))
           IN  /\ u \div PageSize # p => w[u] = primary[u]
               /\ /\ u \div PageSize = p /\ primary[u] = FF
                  /\ n = Size(Part(im, p))
                  => w[u] = At(im, u)
<1> DEFINE a == p * PageSize
           d == Read(Part(im, p), 0, n)
           r == Room(im, p)
<1>1. u \in Nat /\ a \in Int /\ r \in Nat /\ n \in 0..r
      /\ Size(Part(im, p)) = r /\ DOMAIN Part(im, p) = 0..(r - 1)
  BY UnitNat, SizeAssumption, PartAt, PartSize
<1>2. u - a \in 0..(r - 1) <=> u \in DOMAIN im /\ u \div PageSize = p
  BY <1>1, PartAt
<1>3. DOMAIN d = 0..(n - 1) /\ \A i \in 0..(n - 1) : d[i] = im[a + i]
  BY <1>1 DEF Read, Part
<1>4. Put(primary, a, d)[u] =
          IF u - a \notin DOMAIN d \/ primary[u] = d[u - a] THEN primary[u]
          ELSE IF primary[u] = FF THEN d[u - a] ELSE Junk
  BY DEF Put
<1> HIDE DEF a, d, r
<1>5. u - a \in DOMAIN d => u - a \in 0..(r - 1) /\ d[u - a] = im[u]
  <2>1. ASSUME u - a \in 0..(n - 1) PROVE u - a \in 0..(r - 1) /\ d[u - a] = im[u]
    <3>1. d[u - a] = im[a + (u - a)]
      BY <1>3, <2>1
    <3>2. a + (u - a) = u
      BY <1>1
    <3> QED BY <1>1, <2>1, <3>1, <3>2
  <2> QED BY <1>3, <2>1
<1>6. u \div PageSize # p => Put(primary, a, d)[u] = primary[u]
  BY <1>2, <1>4, <1>5
<1>7. ASSUME u \div PageSize = p, primary[u] = FF, n = r
      PROVE  Put(primary, a, d)[u] = At(im, u)
  <2>1. u - a \in DOMAIN d <=> u \in DOMAIN im
    BY <1>2, <1>3, <1>7
  <2> QED BY <1>4, <1>5, <1>7, <2>1 DEF At
<1> QED BY <1>1, <1>6, <1>7 DEF a, d

(* What the apply reads for its page is that part, if its source has it.   *)
LEMMA ReadPart ==
    ASSUME SessionsFit, NEW im \in Updates, NEW p \in Nat, p < Pages(Size(im)),
           NEW f, From(f, im, p)
    PROVE  Read(f, p * PageSize, Room(im, p)) = Part(im, p)
<1>1. ASSUME NEW i \in 0..(Room(im, p) - 1)
      PROVE  f[p * PageSize + i] = im[p * PageSize + i]
  BY PartAt DEF From
<1> QED BY <1>1 DEF Part, Read

-----------------------------------------------------------------------------
(* The session behind a phase is one the cloud announced, and a chunk that *)
(* is being stored belongs to it.                                          *)
KnownInv ==
    /\ ota.phase \in {"RECEIVING", "COMPLETE", "APPLYING"} => ota.s \in Sessions
    /\ rx.writing => ota.phase = "RECEIVING"

LEMMA KnownInit == Init => KnownInv
  BY DEF Init, KnownInv, Fresh, NoChunk

LEMMA KnownNext ==
    ASSUME AbortDuring \cap {"APPLYING", "WRITING"} = {}
    PROVE  ValidInv /\ KnownInv /\ [Next]_vars => KnownInv'
<1> SUFFICES ASSUME ValidInv, KnownInv, [Next]_vars PROVE KnownInv'
  OBVIOUS
<1> USE DEF KnownInv
<1>0. DeferredInv /\ DOMAIN ota = Fields
  BY DEF ValidInv
<1>1. ASSUME NEW s \in Sessions, Start(s) PROVE KnownInv'
  <2>1. UNCHANGED rx /\ rx = NoChunk
    BY <1>1 DEF Start, Handler, Running, Reply
  <2>2. UNCHANGED ota \/ ota' = Session(s)
    BY <1>1 DEF Start, Reply
  <2> QED BY <2>1, <2>2 DEF Session, NoChunk
<1>2. ASSUME NEW c \in Messages, Chunk(c) PROVE KnownInv'
  <2>1. UNCHANGED ota
    BY <1>2 DEF Chunk, DeltaChunk, FullChunk, Reply, Write
  <2>2. rx' = rx \/ ota.phase = "RECEIVING"
    BY <1>2 DEF Chunk, Reply
  <2> QED BY <2>1, <2>2
<1>3. CASE ChunkStored
  <2>1. ota.phase = "RECEIVING" /\ rx' = NoChunk
    BY <1>3 DEF ChunkStored
  <2>2. DOMAIN Counted = Fields /\ Counted.phase = ota.phase /\ Counted.s = ota.s
    BY <1>0 DEF Counted, Fields
  <2>3. \/ ota' = Counted
        \/ ota' = [Counted EXCEPT !.phase = "ERROR"]
        \/ ota' = [Counted EXCEPT !.phase = "COMPLETE"]
    BY <1>3 DEF ChunkStored, Validate, Fail
  <2>4. ota'.s = ota.s
    BY <2>2, <2>3 DEF Fields
  <2> QED BY <2>1, <2>4 DEF NoChunk
<1>4. CASE Abort \/ ShellAbort
  <2>1. ota' = Fresh /\ UNCHANGED rx
    BY <1>4 DEF Abort, ShellAbort, Forget
  <2>2. ~rx.writing
    BY <1>4 DEF Abort, ShellAbort, Handler, NoChunk
  <2> QED BY <2>1, <2>2 DEF Fresh
<1>5. CASE ApplyStart
  <2>1. ota.phase = "COMPLETE" /\ UNCHANGED rx
    BY <1>0, <1>5 DEF ApplyStart, Begin, Quiet, DeferredInv, DeferredArmed
  <2>2. ota' = [ota EXCEPT !.phase = "APPLYING"]
    BY <1>5, <2>1 DEF ApplyStart, Begin
  <2> QED BY <1>0, <2>1, <2>2 DEF Fields
<1>6. ASSUME GiveUp, UNCHANGED rx, ap.mode # "none" PROVE KnownInv'
  <2>1. CASE ap.mode = "resume"
    BY <1>6, <2>1 DEF GiveUp
  <2>2. CASE ap.mode # "resume"
    <3>1. ota.phase = "APPLYING" /\ ota' = [ota EXCEPT !.phase = "ERROR"]
      BY <1>0, <1>6, <2>2 DEF DeferredInv, GiveUp
    <3> QED BY <1>0, <1>6, <3>1 DEF Fields
  <2> QED BY <2>1, <2>2
<1>7. CASE Mark \/ Record \/ ErasePage \/ WritePage \/ EraseStale \/ Boot
  BY <1>7 DEF Mark, Record, RecordAs, ErasePage, WritePage, EraseStale, StaleFrom, Boot,
              Step, Quiet
<1>8. CASE NextPage
  <2>1. UNCHANGED rx /\ ap.mode # "none"
    BY <1>0, <1>8 DEF NextPage, Step, Quiet, DeferredInv
  <2> QED BY <1>6, <1>8, <2>1 DEF NextPage
<1>9. CASE Finish
  <2>1. ap.mode # "none"
    BY <1>0, <1>9 DEF Finish, FinishWith, DeferredInv
  <2> QED BY <1>6, <1>9, <2>1 DEF Finish, FinishWith, Restart, Fresh, NoChunk
<1>10. CASE Fault
  BY <1>6, <1>10 DEF Fault, Quiet
<1>11. CASE PowerFail
  BY <1>11 DEF PowerFail, Restart, Fresh, NoChunk
<1>12. CASE UNCHANGED vars
  BY <1>12 DEF vars
<1> QED
  BY <1>1, <1>2, <1>3, <1>4, <1>5, <1>7, <1>8, <1>9, <1>10, <1>11, <1>12
     DEF Next, Apply

-----------------------------------------------------------------------------
(* The setting of the theorems: images that fit, no abort while a chunk is *)
(* stored or an image applied, power failures at any other point than      *)
(* between the two halves of a later record or amid the pages of a delta,  *)
(* and flash errors before anything is written to the app partition.       *)
Survived ==
    ({"full", "resume"} \X {"first", "mark", "read", "erase", "write", "stale", "finish"})
        \cup ({"delta"} \X {"first", "stale", "finish"})
Setting ==
    /\ SessionsFit
    /\ AbortDuring \cap {"APPLYING", "WRITING"} = {}
    /\ PowerFails \subseteq Survived
    /\ Faults \subseteq {"full", "delta"} \X {"first"}

Core ==
    /\ DOMAIN ap = {"mode", "pc", "page", "pages", "buf", "image"}
    /\ primary = [u \in Unit |-> primary[u]]
    /\ run = "up" /\ ap.mode = "none" => ~meta.present \/ LeftBehind
    /\ HaltsOnlyWithoutApp
    /\ app => Whole
    /\ Durable /\ Applying
RecoveryInv == ValidInv /\ ApplyInv /\ KnownInv /\ Core

LEMMA RecoveryInit == Init => RecoveryInv
<1> SUFFICES ASSUME Init PROVE RecoveryInv
  OBVIOUS
<1>1. ap = NotApplying /\ run = "boot" /\ app = FALSE /\ meta = NoRecord
      /\ primary = Flashed(Factory)
  BY DEF Init
<1>2. Whole
  BY <1>1 DEF Whole, Bootable
<1>3. primary = [u \in Unit |-> primary[u]]
  BY <1>1, FlashedIs
<1> QED
  BY <1>1, <1>2, <1>3, ValidInit, ApplyInit, KnownInit
     DEF RecoveryInv, Core, Durable, Applying, NotApplying, NoRecord, HaltsOnlyWithoutApp

(* Where an apply is, in terms of the phase and of what runs.              *)
LEMMA Modes ==
    ASSUME RecoveryInv
    PROVE  /\ ap.mode \in {"none", "full", "delta", "resume"}
           /\ ap.mode \in {"full", "delta"} => ota.phase = "APPLYING" /\ run = "up"
           /\ ap.mode = "resume" => run = "recover"
           /\ ap.pc # "none" => ap.mode # "none"
           /\ run = "boot" => ap.mode = "none"
           /\ ap.pc \in Touching => ~app /\ meta.present
           /\ ap.mode = "none" => ImageOf = ota.s.image
<1>1. DeferredInv /\ ApplyInv
  BY DEF RecoveryInv, ValidInv
<1>2. (run # "up" => ota.phase = "IDLE") /\ (ap.mode = "resume" => run = "recover")
  BY DEF RecoveryInv, ValidInv
<1> QED BY <1>1, <1>2 DEF DeferredInv, ApplyInv, ImageOf, Touching

(* A merged unit depends on that unit of the two partitions only.          *)
LEMMA MergedAt ==
    ASSUME UNCHANGED <<staging, ota>>, NEW u \in 0..(Size(ota.s.image) - 1),
           primary'[u] = primary[u]
    PROVE  Merged(ota)'[u] = Merged(ota)[u]
  BY DEF Merged

LEMMA RecoveryFrame ==
    ASSUME Core, UNCHANGED <<primary, staging, meta, ota, ap, run, app>>
    PROVE  Core'
<1>1. Merged(ota)' = Merged(ota)
  BY DEF Merged
<1>2. UNCHANGED <<ImageOf, Whole, LeftBehind, HaltsOnlyWithoutApp>>
  BY DEF ImageOf, Whole, LeftBehind, Stranded, HaltsOnlyWithoutApp
<1>3. Durable'
  BY <1>2 DEF Core, Durable, Recoverable, Rewriting, Below, From
<1>4. Applying'
  <2>1. CASE ap.mode = "none"
    BY <2>1 DEF Applying
  <2>2. CASE ap.mode # "none"
    <3>1. Placed' /\ Recorded'
      BY <1>2, <2>2 DEF Core, Applying, Placed, Recorded
    <3>2. Copying'
      BY <1>1, <1>2, <2>2 DEF Core, Applying, Copying, Below, Source, From
    <3> QED BY <3>1, <3>2 DEF Applying
  <2> QED BY <2>1, <2>2
<1> QED BY <1>2, <1>3, <1>4 DEF Core

(* The handlers leave a record and an apply in progress alone: without an  *)
(* apply there is no record when they run, and during one they refuse.     *)
LEMMA RecoveryHandlers ==
    ASSUME Setting, RecoveryInv, run = "up", UNCHANGED <<primary, meta, ap, run, app>>,
           ota.phase = "APPLYING" => UNCHANGED <<staging, ota>>
    PROVE  Core'
<1>1. CASE ap.mode = "none"
  <2>1. (~meta.present \/ LeftBehind) /\ Durable /\ Core /\ run' # "halt"
    BY <1>1 DEF RecoveryInv, Core
  <2>2. (~meta.present \/ LeftBehind)'
    BY <2>1 DEF LeftBehind, Stranded
  <2>3. app' => Whole'
    BY <2>1 DEF Core, Whole
  <2>4. Durable'
    <3>1. CASE ~meta.present
      BY <1>1, <2>1, <3>1 DEF Durable, Rewriting, Whole
    <3>2. CASE meta.present
      <4>1. Recoverable /\ meta.copied = Pages(Size(meta.image)) /\ SessionsFit
        BY <2>1, <3>2 DEF Durable, Recoverable, LeftBehind, Setting
      <4>2. From(staging', meta.image, meta.copied)
        BY <4>1, NothingLeft DEF Recoverable
      <4> QED BY <3>2, <4>1, <4>2 DEF Durable, Recoverable, Below, From
    <3> QED BY <3>1, <3>2
  <2> QED BY <1>1, <2>1, <2>2, <2>3, <2>4 DEF Core, Applying, HaltsOnlyWithoutApp
<1>2. CASE ap.mode # "none"
  <2>1. ota.phase = "APPLYING"
    BY <1>2, Modes
  <2> QED BY <2>1, RecoveryFrame DEF RecoveryInv
<1> QED BY <1>1, <1>2

LEMMA RecoveryMessages ==
    ASSUME Setting, RecoveryInv,
           (\E s \in Sessions : Start(s)) \/ (\E c \in Messages : Chunk(c))
              \/ ChunkStored \/ Abort \/ ShellAbort
    PROVE  Core'
<1>0. KnownInv /\ AbortDuring \cap {"APPLYING", "WRITING"} = {}
  BY DEF RecoveryInv, Setting
<1>1. run = "up" /\ UNCHANGED <<primary, meta, ap, run, app>>
  BY DEF Start, Chunk, ChunkStored, Abort, ShellAbort, Handler, Running
<1>2. ASSUME ota.phase = "APPLYING" PROVE UNCHANGED <<staging, ota>>
  <2>1. ~ChunkStored
    BY <1>0, <1>2 DEF KnownInv, ChunkStored
  <2>2. ~Abort /\ ~ShellAbort
    BY <1>0, <1>2 DEF KnownInv, Abort, ShellAbort
  <2>3. ASSUME NEW s \in Sessions, Start(s) PROVE UNCHANGED <<staging, ota>>
    BY <1>2, <2>3 DEF Start, Busy, Reply
  <2>4. ASSUME NEW c \in Messages, Chunk(c) PROVE UNCHANGED <<staging, ota>>
    BY <1>2, <2>4 DEF Chunk, Reply
  <2> QED BY <2>1, <2>2, <2>3, <2>4
<1> QED BY <1>1, <1>2, RecoveryHandlers

(* The image that waited is the one that is assembled, so that the apply   *)
(* finds all of it where it will read.                                     *)
LEMMA RecoveryStart ==
    ASSUME Setting, RecoveryInv, ApplyStart
    PROVE  Core'
<1> DEFINE im == ota.s.image
<1>1. /\ run = "up" /\ ap.mode = "none" /\ ota.phase = "COMPLETE"
      /\ UNCHANGED <<primary, staging, meta, run>>
  BY DEF ApplyStart, Begin, flash, RecoveryInv, ValidInv, DeferredInv, DeferredArmed
<1>2. /\ ota' = [ota EXCEPT !.phase = "APPLYING"] /\ app' = FALSE
      /\ ap' = [NotApplying EXCEPT !.mode = IF Delta(ota.s) THEN "delta" ELSE "full",
                                   !.pc = "mark", !.pages = Pages(Size(im)),
                                   !.image = im]
  BY <1>1 DEF ApplyStart, Begin, StopApp
<1>3. ota.s \in Sessions /\ Merged(ota) = im /\ Trusted(ota.s) /\ DOMAIN ota = Fields
  BY <1>1 DEF RecoveryInv, KnownInv, ValidInv, ValidatedStays
<1>4. im \in Updates /\ SessionsFit
  BY <1>3 DEF Updates, Setting
<1>5. /\ (~meta.present \/ LeftBehind) /\ Durable /\ ~Rewriting
      /\ primary = [u \in Unit |-> primary[u]]
  BY <1>1 DEF RecoveryInv, Core, Rewriting
<1>6. ota'.s = ota.s /\ ota'.received = ota.received /\ ImageOf' = im
  BY <1>2, <1>3 DEF Fields, ImageOf, NotApplying
<1>7. /\ ap'.mode = IF Delta(ota.s) THEN "delta" ELSE "full"
      /\ ap'.pc = "mark" /\ ap'.page = 0 /\ ap'.pages = Pages(Size(im)) /\ ap'.image = im
      /\ DOMAIN ap' = {"mode", "pc", "page", "pages", "buf", "image"}
  BY <1>2 DEF NotApplying
<1>8. Pages(Size(im)) \in Nat /\ DOMAIN im = 0..(Size(im) - 1)
  BY <1>4, ImagePages, ImageSize
<1>9. Merged(ota)' = im
  BY <1>1, <1>3, <1>6, SameMerged
<1>10. Below(im, 0)'
  BY UnitNat, PageOf, SizeAssumption DEF Below
<1>11. Source(im, 0)'
  <2>1. CASE Delta(ota.s)
    BY <1>6, <1>7, <1>9, <2>1 DEF Source, From
  <2>2. CASE ~Delta(ota.s)
    <3>1. \A u \in DOMAIN im : staging[u] = im[u]
      <4>1. ASSUME NEW u \in DOMAIN im PROVE staging[u] = im[u]
        <5>1. Merged(ota)[u] = staging[u]
          BY <1>8, <2>2 DEF Merged
        <5> QED BY <1>3, <5>1
      <4> QED BY <4>1
    <3> QED BY <1>1, <1>6, <1>7, <2>2, <3>1 DEF Source, From
  <2> QED BY <2>1, <2>2
<1>12. Copying'
  BY <1>6, <1>7, <1>10, <1>11 DEF Copying
<1>13. LeftBehind' <=> LeftBehind
  BY <1>1 DEF LeftBehind, Stranded
<1>14. Placed' /\ Recorded'
  BY <1>1, <1>4, <1>5, <1>6, <1>7, <1>8, <1>13 DEF Placed, Recorded, Touching
<1>15. Durable'
  <2>1. CASE ~meta.present
    BY <1>1, <1>5, <2>1 DEF Whole, Durable
  <2>2. CASE meta.present
    <3>1. Recoverable /\ From(staging, meta.image, meta.copied)
      BY <1>1, <1>5, <2>2 DEF Durable, Recoverable
    <3> QED BY <1>1, <2>2, <3>1 DEF Durable, Recoverable, Below, From
  <2> QED BY <2>1, <2>2
<1> QED
  BY <1>1, <1>2, <1>5, <1>7, <1>12, <1>14, <1>15 DEF Core, Applying, HaltsOnlyWithoutApp

(* What the steps of an apply use of the invariant.                        *)
LEMMA InApply ==
    ASSUME Setting, RecoveryInv, ap.pc # "none"
    PROVE  /\ ap.mode \in {"full", "delta", "resume"} /\ Placed /\ Recorded /\ Copying
           /\ SessionsFit /\ ap.page \in Nat /\ ap.pages \in Nat
           /\ primary = [u \in Unit |-> primary[u]]
           /\ DOMAIN ap = {"mode", "pc", "page", "pages", "buf", "image"}
           /\ ap.mode \in {"full", "delta"} => run = "up"
           /\ ap.mode = "resume" => run = "recover"
           /\ run # "halt"
<1>1. ap.mode \in {"full", "delta", "resume"}
  BY Modes
<1>2. Placed /\ Recorded /\ Copying /\ SessionsFit
  BY <1>1 DEF RecoveryInv, Core, Applying, Setting
<1>3. ap.pages \in Nat
  BY <1>2, ImagePages DEF Placed
<1>4. ap.page \in Nat
  BY <1>2, <1>3 DEF Placed
<1> QED BY <1>1, <1>2, <1>3, <1>4, Modes DEF RecoveryInv, Core

(* A step that changes neither image nor session keeps the names it uses.  *)
LEMMA SameImage ==
    ASSUME UNCHANGED ota, ap'.mode = ap.mode, ap'.image = ap.image
    PROVE  ImageOf' = ImageOf
  BY DEF ImageOf

LEMMA RecoveryMark ==
    ASSUME Setting, RecoveryInv, Mark
    PROVE  Core'
<1>1. /\ ap.pc = "mark" /\ meta' = NoRecord /\ ap' = [ap EXCEPT !.pc = "record"]
      /\ UNCHANGED <<primary, staging, ota, run, app>>
  BY DEF Mark, Step
<1>2. /\ ap.mode \in {"full", "delta", "resume"} /\ Placed /\ Recorded /\ Copying
      /\ ap.page \in Nat /\ primary = [u \in Unit |-> primary[u]] /\ run # "halt"
      /\ DOMAIN ap = {"mode", "pc", "page", "pages", "buf", "image"}
  BY <1>1, InApply
<1>3. /\ ap'.pc = "record" /\ ap'.mode = ap.mode /\ ap'.page = ap.page /\ ap'.pages = ap.pages
      /\ ap'.image = ap.image /\ ap'.buf = ap.buf /\ DOMAIN ap' = DOMAIN ap
      /\ ~meta'.present
  BY <1>1, <1>2 DEF NoRecord
<1>4. ImageOf' = ImageOf /\ Merged(ota)' = Merged(ota)
  BY <1>1, <1>3, SameImage DEF Merged
<1>5. Durable'
  <2>1. CASE ap.page = 0
    <3>1. (~meta.present \/ LeftBehind) /\ Durable
      BY <1>1, <1>2, <2>1 DEF Recorded, RecoveryInv, Core
    <3>2. Whole
      <4>1. CASE ~meta.present
        BY <1>1, <3>1, <4>1 DEF Durable, Rewriting
      <4>2. CASE meta.present
        BY <3>1, <4>2 DEF Durable, Recoverable, LeftBehind, Stranded, Whole, Bootable
      <4> QED BY <4>1, <4>2
    <3> QED BY <1>1, <1>3, <3>2 DEF Durable, Whole
  <2>2. CASE ap.page # 0
    BY <1>2, <1>3, <2>2 DEF Durable, Rewriting
  <2> QED BY <2>1, <2>2
<1>6. Placed' /\ Recorded'
  BY <1>1, <1>2, <1>3, <1>4 DEF Placed, Recorded, Touching
<1>7. Copying'
  BY <1>1, <1>2, <1>3, <1>4 DEF Copying, Below, Source, From
<1>8. app' => Whole'
  BY <1>1 DEF RecoveryInv, Core, Whole
<1> QED
  BY <1>1, <1>2, <1>3, <1>5, <1>6, <1>7, <1>8 DEF Core, Applying, HaltsOnlyWithoutApp

LEMMA RecoveryRecord ==
    ASSUME Setting, RecoveryInv, Record
    PROVE  Core'
<1>1. /\ ap.pc = "record"
      /\ meta' = [present |-> TRUE, image |-> ap.image, copied |-> ap.page, pages |-> ap.pages]
      /\ ap' = [ap EXCEPT !.pc = "read"]
      /\ UNCHANGED <<primary, staging, ota, run, app>>
  BY DEF Record, RecordAs, Step
<1>2. /\ ap.mode \in {"full", "delta", "resume"} /\ Placed /\ Recorded /\ Copying
      /\ ap.page \in Nat /\ ap.pages \in Nat /\ primary = [u \in Unit |-> primary[u]]
      /\ DOMAIN ap = {"mode", "pc", "page", "pages", "buf", "image"} /\ run # "halt"
  BY <1>1, InApply
<1>3. /\ ap'.mode = ap.mode /\ ap'.page = ap.page /\ ap'.pages = ap.pages
      /\ ap'.pc = "read" /\ ap'.image = ap.image /\ ap'.buf = ap.buf
      /\ DOMAIN ap' = DOMAIN ap
      /\ meta'.present /\ meta'.image = ImageOf /\ meta'.copied = ap.page
      /\ meta'.pages = ap.pages
  BY <1>1, <1>2 DEF Placed
<1>4. ImageOf' = ImageOf /\ Merged(ota)' = Merged(ota)
  BY <1>1, <1>3, SameImage DEF Merged
<1>5. Placed' /\ Recorded'
  BY <1>2, <1>3, <1>4 DEF Placed, Recorded, Touching
<1>6. Copying'
  BY <1>1, <1>2, <1>3, <1>4 DEF Copying, Below, Source, From
<1>7. Durable'
  <2>1. meta'.image \in Updates /\ meta'.pages = Pages(Size(meta'.image))
        /\ meta'.copied \in 0..meta'.pages
    BY <1>2, <1>3 DEF Placed
  <2>2. Below(meta.image, meta.copied)'
    BY <1>1, <1>2, <1>3 DEF Copying, Below
  <2>3. ap'.mode = "delta" \/ From(staging, meta.image, meta.copied)'
    BY <1>1, <1>2, <1>3 DEF Copying, Source, From
  <2> QED BY <1>3, <2>1, <2>2, <2>3 DEF Durable, Recoverable
<1>8. app' => Whole'
  BY <1>1 DEF RecoveryInv, Core, Whole
<1> QED
  BY <1>1, <1>2, <1>3, <1>5, <1>6, <1>7, <1>8 DEF Core, Applying, HaltsOnlyWithoutApp

(* The next page lies in the image, and what is read of it is its part.    *)
LEMMA ReadsOn ==
    ASSUME Setting, RecoveryInv, ap.pc = "read", ap.page < ap.pages
    PROVE  ~(Left < 0) /\ PageData = Part(ImageOf, ap.page)
<1>1. Placed /\ Copying /\ SessionsFit /\ ap.page \in Nat /\ ap.pages \in Nat
  BY InApply
<1>2. PICK im \in Updates : im = ImageOf
  BY <1>1 DEF Placed
<1>3. ap.page < Pages(Size(im)) /\ Source(im, ap.page)
  BY <1>1, <1>2 DEF Placed, Copying
<1>4. ap.page * PageSize < Size(im) /\ Size(im) \in Nat /\ ap.page * PageSize \in Nat
  BY <1>1, <1>3, ImagePages, ImageSize, SizeAssumption
<1>5. ~(Left < 0)
  BY <1>2, <1>4 DEF Left
<1>6. PageData = Part(im, ap.page)
  <2>1. PageData = Read(IF ap.mode = "delta" THEN Merged(ota) ELSE staging,
                        ap.page * PageSize, Room(im, ap.page))
    BY <1>2 DEF PageData, Left, Room
  <2>2. From(IF ap.mode = "delta" THEN Merged(ota) ELSE staging, im, ap.page)
    BY <1>3 DEF Source
  <2> QED BY <1>1, <1>3, <2>1, <2>2, ReadPart
<1> QED BY <1>2, <1>5, <1>6

LEMMA RecoveryNextPage ==
    ASSUME Setting, RecoveryInv, NextPage
    PROVE  Core'
<1>1. ap.pc = "read" /\ UNCHANGED <<primary, staging, meta, app>>
  BY DEF NextPage, Step, flash
<1>2. /\ ap.mode \in {"full", "delta", "resume"} /\ Placed /\ Recorded /\ Copying
      /\ ap.page \in Nat /\ ap.pages \in Nat /\ primary = [u \in Unit |-> primary[u]]
      /\ DOMAIN ap = {"mode", "pc", "page", "pages", "buf", "image"} /\ run # "halt"
  BY <1>1, InApply
<1>3. /\ UNCHANGED <<ota, run>>
      /\ \/ ap.page < ap.pages /\ ap' = [ap EXCEPT !.pc = "erase", !.buf = PageData]
         \/ ap.page = ap.pages /\ ap' = [ap EXCEPT !.pc = "stale", !.image = ImageOf]
  BY <1>1, ReadsOn DEF NextPage
<1>4. /\ ap'.mode = ap.mode /\ ap'.page = ap.page /\ ap'.pages = ap.pages
      /\ ap'.image = ap.image /\ DOMAIN ap' = DOMAIN ap
      /\ \/ ap'.pc = "erase" /\ ap.page < ap.pages /\ ap'.buf = PageData
         \/ ap'.pc = "stale" /\ ap.page = ap.pages
  BY <1>2, <1>3 DEF Placed
<1>5. ImageOf' = ImageOf /\ Merged(ota)' = Merged(ota)
  BY <1>1, <1>3, <1>4, SameImage DEF Merged
<1>6. ap'.pc = "erase" => ap'.buf = Part(ImageOf, ap.page)
  BY <1>1, <1>4, ReadsOn
<1>7. Placed' /\ Recorded'
  BY <1>1, <1>2, <1>4, <1>5, Modes DEF Placed, Recorded, Touching
<1>8. Copying'
  BY <1>1, <1>2, <1>4, <1>5, <1>6 DEF Copying, Below, Source, From, Part, Read, Room
<1>9. ~app /\ meta.present
  BY <1>1, Modes DEF Touching
<1>10. Durable'
  BY <1>1, <1>4, <1>9 DEF RecoveryInv, Core, Durable, Recoverable, Below, From
<1> QED
  BY <1>1, <1>2, <1>3, <1>4, <1>7, <1>8, <1>9, <1>10 DEF Core, Applying, HaltsOnlyWithoutApp

(* The pages the source still holds when only page p of primary changes.   *)
LEMMA SourceAfter ==
    ASSUME SessionsFit, UNCHANGED <<staging, ota>>, ap'.mode = ap.mode,
           ap.mode = "delta" => ImageOf = ota.s.image,
           NEW im \in Updates, im = ImageOf, NEW p \in Nat, Source(im, p) \/ Source(im, p + 1),
           \A u \in Unit : u \div PageSize # p => primary'[u] = primary[u]
    PROVE  Source(im, p + 1)'
<1>1. DOMAIN im = 0..(Size(im) - 1) /\ DOMAIN im \subseteq Unit /\ Unit \subseteq Nat
  BY ImageSize, UnitNat
<1>2. \A u \in DOMAIN im : u \div PageSize \in Nat
  BY <1>1, PageOf, SizeAssumption
<1>3. CASE ap.mode = "delta"
  <2>1. ASSUME NEW u \in DOMAIN im, u \div PageSize >= p + 1
        PROVE  Merged(ota)'[u] = im[u]
    <3>1. primary'[u] = primary[u]
      BY <1>1, <1>2, <2>1
    <3>2. Merged(ota)'[u] = Merged(ota)[u]
      BY <1>1, <1>3, <3>1, MergedAt
    <3>3. Merged(ota)[u] = im[u]
      BY <1>2, <1>3, <2>1 DEF Source, From
    <3> QED BY <3>2, <3>3
  <2> QED BY <1>3, <2>1 DEF Source, From
<1>4. CASE ap.mode # "delta"
  <2>1. From(staging, im, p + 1)
    BY <1>2, <1>4 DEF Source, From
  <2> QED BY <1>4, <2>1 DEF Source, From
<1> QED BY <1>3, <1>4

(* The page that is erased is the one whose content was read before.       *)
LEMMA RecoveryErase ==
    ASSUME Setting, RecoveryInv, ErasePage
    PROVE  Core'
<1>1. ap.pc = "erase" /\ UNCHANGED <<staging, meta, app>>
  BY DEF ErasePage, Step
<1>2. /\ ap.mode \in {"full", "delta", "resume"} /\ Placed /\ Recorded /\ Copying /\ SessionsFit
      /\ ap.page \in Nat /\ ap.pages \in Nat /\ run # "halt"
      /\ DOMAIN ap = {"mode", "pc", "page", "pages", "buf", "image"}
  BY <1>1, InApply
<1>3. PICK im \in Updates : im = ImageOf
  BY <1>2 DEF Placed
<1>4. /\ ap.pages = Pages(Size(im)) /\ ap.page < ap.pages /\ Below(im, ap.page)
      /\ Source(im, ap.page) /\ meta.image = im /\ meta.copied = ap.page
      /\ ap.buf = Part(im, ap.page)
  BY <1>1, <1>2, <1>3 DEF Placed, Copying, Recorded, Touching
<1>7. /\ primary' = EraseFrom(primary, ap.page, ap.page + 1)
      /\ ap' = [ap EXCEPT !.pc = "write"] /\ UNCHANGED <<ota, run>>
  BY DEF ErasePage
<1>8. /\ ap'.pc = "write" /\ ap'.mode = ap.mode /\ ap'.page = ap.page /\ ap'.pages = ap.pages
      /\ ap'.image = ap.image /\ ap'.buf = ap.buf /\ DOMAIN ap' = DOMAIN ap
  BY <1>2, <1>7
<1>10. ASSUME NEW u \in Unit
       PROVE  /\ u \div PageSize \in Nat
              /\ u \div PageSize = ap.page => primary'[u] = FF
              /\ u \div PageSize # ap.page => primary'[u] = primary[u]
  <2>1. u \div PageSize \in Nat
    BY UnitNat, PageOf, SizeAssumption
  <2>2. u \div PageSize \in ap.page..((ap.page + 1) - 1) <=> u \div PageSize = ap.page
    BY <1>2, <2>1
  <2>3. primary'[u] = IF u \div PageSize \in ap.page..((ap.page + 1) - 1) THEN FF ELSE primary[u]
    BY <1>7 DEF EraseFrom
  <2> QED BY <2>1, <2>2, <2>3
<1>11. primary' = [u \in Unit |-> primary'[u]]
  BY <1>7 DEF EraseFrom
<1>12. Below(im, ap.page)'
  <2>1. ASSUME NEW u \in Unit, u \div PageSize < ap'.page PROVE primary'[u] = At(im, u)
    BY <1>2, <1>4, <1>8, <1>10, <2>1 DEF Below
  <2> QED BY <2>1 DEF Below
<1>13. Source(im, ap.page + 1)'
  <2>1. ap.mode = "delta" => ImageOf = ota.s.image
    BY DEF ImageOf
  <2>2. \A u \in Unit : u \div PageSize # ap.page => primary'[u] = primary[u]
    BY <1>10
  <2> QED BY <1>1, <1>2, <1>3, <1>4, <1>7, <1>8, <2>1, <2>2, SourceAfter
<1>14. ImageOf' = im
  BY <1>3, <1>7, <1>8, SameImage
<1>15. Placed' /\ Recorded'
  BY <1>1, <1>2, <1>3, <1>4, <1>8, <1>14, Modes DEF Placed, Recorded, Touching
<1>16. Copying'
  BY <1>4, <1>8, <1>10, <1>12, <1>13, <1>14 DEF Copying
<1>17. ~app /\ meta.present
  BY <1>1, Modes DEF Touching
<1>18. Durable'
  <2>1. Recoverable
    BY <1>17 DEF RecoveryInv, Core, Durable
  <2>2. Below(meta.image, meta.copied)'
    BY <1>1, <1>4, <1>8, <1>12 DEF Below
  <2> QED BY <1>1, <1>8, <1>17, <2>1, <2>2 DEF Durable, Recoverable, From
<1> QED
  BY <1>1, <1>2, <1>7, <1>8, <1>11, <1>15, <1>16, <1>17, <1>18
     DEF Core, Applying, HaltsOnlyWithoutApp

LEMMA RecoveryWrite ==
    ASSUME Setting, RecoveryInv, WritePage
    PROVE  Core'
<1>1. /\ ap.pc = "write" /\ UNCHANGED <<staging, meta, ota, run, app>>
      /\ primary' = Written(Size(ap.buf))
      /\ ap' = [ap EXCEPT !.pc = "mark", !.page = @ + 1, !.buf = <<>>, !.image = ImageOf]
  BY DEF WritePage, Step
<1>2. /\ ap.mode \in {"full", "delta", "resume"} /\ Placed /\ Recorded /\ Copying /\ SessionsFit
      /\ ap.page \in Nat /\ ap.pages \in Nat /\ run # "halt"
      /\ DOMAIN ap = {"mode", "pc", "page", "pages", "buf", "image"}
  BY <1>1, InApply
<1>3. PICK im \in Updates, p \in Nat : im = ImageOf /\ p = ap.page
  BY <1>2 DEF Placed
<1>4. /\ ap.pages = Pages(Size(im)) /\ ap.page < ap.pages /\ Below(im, ap.page)
      /\ Source(im, ap.page + 1) /\ meta.image = im /\ meta.copied = ap.page
      /\ ap.buf = Part(im, ap.page)
      /\ \A u \in Unit : u \div PageSize = ap.page => primary[u] = FF
  BY <1>1, <1>2, <1>3 DEF Placed, Copying, Recorded, Touching
<1>5. /\ ap'.pc = "mark" /\ ap'.mode = ap.mode /\ ap'.page = ap.page + 1
      /\ ap'.pages = ap.pages /\ ap'.image = ap.image /\ DOMAIN ap' = DOMAIN ap
  BY <1>1, <1>2 DEF Placed
<1>6. Size(ap.buf) \in 0..Size(Part(im, ap.page))
  BY <1>2, <1>4, PartSize, PartAt, SizeAssumption
<1>7. ASSUME NEW u \in Unit
      PROVE  /\ u \div PageSize \in Nat
             /\ u \div PageSize = ap.page => primary'[u] = At(im, u)
             /\ u \div PageSize # ap.page => primary'[u] = primary[u]
  <2>1. primary' = Put(primary, ap.page * PageSize, Read(Part(im, ap.page), 0, Size(ap.buf)))
    BY <1>1, <1>4 DEF Written
  <2>2. u \div PageSize \in Nat
    BY UnitNat, PageOf, SizeAssumption
  <2> QED BY <1>2, <1>4, <1>6, <2>1, <2>2, PutPart
<1>8. primary' = [u \in Unit |-> primary'[u]]
  BY <1>1 DEF Written, Put
<1>9. \A u \in Unit : u \div PageSize < ap.page + 1 => primary'[u] = At(im, u)
  BY <1>2, <1>4, <1>7 DEF Below
<1>10. Source(im, p + 1)'
  <2>1. ap.mode = "delta" => ImageOf = ota.s.image
    BY DEF ImageOf
  <2>2. \A u \in Unit : u \div PageSize # p => primary'[u] = primary[u]
    BY <1>3, <1>7
  <2>3. Source(im, p) \/ Source(im, p + 1)
    BY <1>3, <1>4
  <2> QED BY <1>1, <1>2, <1>3, <1>5, <2>1, <2>2, <2>3, SourceAfter
<1>11. ImageOf' = im
  BY <1>1, <1>3, <1>5, SameImage
<1>12. Placed' /\ Recorded'
  <2>1. ap.page + 1 \in 0..ap.pages /\ ap.page + 1 # 0
    BY <1>2, <1>4
  <2> QED BY <1>2, <1>3, <1>4, <1>5, <1>11, <2>1 DEF Placed, Recorded, Touching
<1>13. Copying'
  BY <1>3, <1>5, <1>9, <1>10, <1>11 DEF Copying, Below
<1>14. ~app /\ meta.present
  BY <1>1, Modes DEF Touching
<1>15. Durable'
  <2>1. Recoverable
    BY <1>14 DEF RecoveryInv, Core, Durable
  <2>2. Below(meta.image, meta.copied)'
    BY <1>1, <1>2, <1>4, <1>7 DEF Below
  <2> QED BY <1>1, <1>5, <1>14, <2>1, <2>2 DEF Durable, Recoverable, From
<1> QED
  BY <1>1, <1>2, <1>5, <1>8, <1>12, <1>13, <1>14, <1>15 DEF Core, Applying, HaltsOnlyWithoutApp

LEMMA RecoveryStale ==
    ASSUME Setting, RecoveryInv, EraseStale
    PROVE  Core'
<1>1. /\ ap.pc = "stale" /\ UNCHANGED <<staging, meta, ota, run, app>>
      /\ primary' = EraseFrom(primary, Pages(Size(ap.image)), AppPages)
      /\ ap' = [ap EXCEPT !.pc = "finish"]
  BY DEF EraseStale, StaleFrom, Step
<1>2. /\ ap.mode \in {"full", "delta", "resume"} /\ Placed /\ Recorded /\ Copying /\ SessionsFit
      /\ ap.page \in Nat /\ ap.pages \in Nat /\ primary = [u \in Unit |-> primary[u]]
      /\ DOMAIN ap = {"mode", "pc", "page", "pages", "buf", "image"} /\ run # "halt"
  BY <1>1, InApply
<1>3. PICK im \in Updates, p \in Nat : im = ImageOf /\ p = ap.page /\ im = ap.image
  BY <1>2 DEF Placed
<1>4. /\ p = Pages(Size(im)) /\ ap.pages = p /\ Below(im, p)
      /\ meta.image = im /\ meta.copied = p
  BY <1>1, <1>2, <1>3 DEF Placed, Copying, Recorded, Touching
<1>5. /\ ap'.pc = "finish" /\ ap'.mode = ap.mode /\ ap'.page = ap.page
      /\ ap'.pages = ap.pages /\ ap'.image = ap.image /\ DOMAIN ap' = DOMAIN ap
  BY <1>1, <1>2
<1>6. \A u \in DOMAIN im : u \in Unit /\ u \div PageSize \in Nat /\ u \div PageSize < p
  BY <1>2, <1>4, ImagePages, ImageSize, UnitNat, PageOf, SizeAssumption
<1>7. ASSUME NEW u \in Unit PROVE primary'[u] = At(im, u)
  <2>1. u \div PageSize \in Nat /\ u \div PageSize < AppPages
    BY UnitNat, PageOf, PagesFit, SizeAssumption DEF Unit
  <2>2. primary'[u] = IF u \div PageSize \in p..(AppPages - 1) THEN FF ELSE primary[u]
    BY <1>1, <1>3, <1>4 DEF EraseFrom
  <2>3. CASE u \div PageSize < p
    <3>1. primary'[u] = primary[u]
      BY <2>1, <2>2, <2>3
    <3> QED BY <1>4, <2>3, <3>1 DEF Below
  <2>4. CASE ~(u \div PageSize < p)
    <3>1. primary'[u] = FF
      BY <2>1, <2>2, <2>4, SizeAssumption
    <3>2. u \notin DOMAIN im
      BY <1>6, <2>4
    <3> QED BY <3>1, <3>2 DEF At
  <2> QED BY <2>3, <2>4
<1>8. primary' = [u \in Unit |-> primary'[u]]
  BY <1>1 DEF EraseFrom
<1>9. primary' = Flashed(im)
  <2>1. Flashed(im) = [u \in Unit |-> At(im, u)]
    BY FlashedIs
  <2> QED BY <1>7, <1>8, <2>1
<1>10. ImageOf' = im
  BY <1>1, <1>3, <1>5, SameImage
<1>11. Placed' /\ Recorded'
  BY <1>1, <1>2, <1>3, <1>4, <1>5, <1>10, Modes DEF Placed, Recorded, Touching
<1>12. Source(im, p)' /\ Below(im, p)'
  <2>1. \A u \in DOMAIN im : ~(u \div PageSize >= p)
    BY <1>6
  <2> QED BY <1>7, <2>1 DEF Source, From, Below
<1>13. Copying'
  BY <1>3, <1>5, <1>9, <1>10, <1>12 DEF Copying
<1>14. ~app /\ meta.present
  BY <1>1, Modes DEF Touching
<1>15. Durable'
  <2>1. Recoverable
    BY <1>14 DEF RecoveryInv, Core, Durable
  <2>2. Below(meta.image, meta.copied)'
    BY <1>1, <1>4, <1>7 DEF Below
  <2> QED BY <1>1, <1>5, <1>14, <2>1, <2>2 DEF Durable, Recoverable, From
<1> QED
  BY <1>1, <1>2, <1>5, <1>8, <1>11, <1>13, <1>14, <1>15 DEF Core, Applying, HaltsOnlyWithoutApp

(* The image is whole: with the magic the apply ends with the restart, and *)
(* without it the record stays.                                            *)
LEMMA RecoveryFinish ==
    ASSUME Setting, RecoveryInv, Finish
    PROVE  Core'
<1>1. ap.pc = "finish" /\ UNCHANGED <<primary, staging>>
  BY DEF Finish, FinishWith
<1>2. /\ ap.mode \in {"full", "delta", "resume"} /\ Placed /\ Recorded /\ Copying /\ SessionsFit
      /\ primary = [u \in Unit |-> primary[u]]
  BY <1>1, InApply
<1>3. PICK im \in Updates : im = ImageOf
  BY <1>2 DEF Placed
<1>4. /\ primary = Flashed(im) /\ meta.image = im /\ meta.copied = Pages(Size(im))
      /\ meta.present /\ ~app
  BY <1>1, <1>2, <1>3, Modes DEF Placed, Recorded, Copying, Touching
<1>5. CASE primary[0] = Magic
  <2>1. meta' = NoRecord /\ Restart
    BY <1>5 DEF Finish, FinishWith
  <2>2. Whole'
    BY <1>1, <1>4 DEF Whole, Bootable
  <2> QED
    BY <1>1, <1>2, <2>1, <2>2
       DEF Restart, NotApplying, NoRecord, Core, Durable, Applying, HaltsOnlyWithoutApp
<1>6. CASE primary[0] # Magic
  <2>1. ap' = NotApplying /\ UNCHANGED <<meta, app>>
    BY <1>6 DEF Finish, FinishWith, GiveUp
  <2>2. Recoverable
    BY <1>4 DEF RecoveryInv, Core, Durable
  <2>3. LeftBehind'
    BY <1>1, <1>4, <1>6, <2>1, <2>2 DEF LeftBehind, Stranded, Recoverable
  <2>4. Durable'
    <3>1. From(staging, meta.image, meta.copied)
      BY <1>2, <1>4, NothingLeft
    <3> QED BY <1>1, <1>4, <2>1, <2>2, <3>1 DEF Durable, Recoverable, Below, From
  <2> QED
    BY <1>1, <1>2, <1>4, <2>1, <2>3, <2>4
       DEF NotApplying, Core, Applying, LeftBehind, HaltsOnlyWithoutApp
<1> QED BY <1>5, <1>6

LEMMA RecoveryFault ==
    ASSUME Setting, RecoveryInv, Fault
    PROVE  Core'
<1>1. /\ ap.mode # "none" /\ <<ap.mode, Point>> \in Faults
      /\ UNCHANGED <<primary, staging, meta, app>> /\ GiveUp
  BY DEF Fault, flash
<1>2. ap.mode \in {"full", "delta"} /\ Point = "first"
  BY <1>1 DEF Setting
<1>3. ap.pc \in {"mark", "record"} /\ ap.page = 0
  <2>1. Placed
    BY <1>1 DEF RecoveryInv, Core, Applying
  <2>2. ap.pc # "first"
    BY <2>1 DEF Placed, Touching
  <2> QED BY <1>2, <2>2 DEF Point
<1>4. ~meta.present \/ LeftBehind
  BY <1>1, <1>3 DEF RecoveryInv, Core, Applying, Recorded
<1>5. Durable /\ ~Rewriting /\ primary = [u \in Unit |-> primary[u]] /\ (app => Whole)
  BY <1>3 DEF RecoveryInv, Core, Rewriting
<1>6. ap' = NotApplying /\ run' = run /\ run # "halt"
  BY <1>1, <1>2, Modes DEF GiveUp
<1>7. (app' => Whole') /\ (~meta.present \/ LeftBehind)'
  BY <1>1, <1>4, <1>5 DEF Whole, LeftBehind, Stranded
<1>8. Durable'
  <2>1. CASE ~meta.present
    BY <1>1, <1>5, <2>1 DEF Durable, Whole
  <2>2. CASE meta.present
    <3>1. Recoverable /\ meta.copied = Pages(Size(meta.image)) /\ SessionsFit
      BY <1>4, <1>5, <2>2 DEF Durable, Recoverable, LeftBehind, Setting
    <3>2. From(staging, meta.image, meta.copied)
      BY <3>1, NothingLeft DEF Recoverable
    <3> QED BY <1>1, <2>2, <3>1, <3>2 DEF Durable, Recoverable, Below, From
  <2> QED BY <2>1, <2>2
<1> QED
  BY <1>1, <1>5, <1>6, <1>7, <1>8 DEF NotApplying, Core, Applying, HaltsOnlyWithoutApp

LEMMA RecoveryBoot ==
    ASSUME Setting, RecoveryInv, Boot
    PROVE  Core'
<1>1. run = "boot" /\ UNCHANGED <<primary, staging, meta, ota>>
  BY DEF Boot, flash
<1>2. ap.mode = "none" /\ Durable /\ primary = [u \in Unit |-> primary[u]]
      /\ DOMAIN ap = {"mode", "pc", "page", "pages", "buf", "image"} /\ ~app
  BY <1>1, Modes DEF RecoveryInv, Core, ApplyInv
<1>3. CASE meta.present
  <2>1. /\ run' = "recover" /\ UNCHANGED app
        /\ ap' = [mode |-> "resume", pc |-> "read", page |-> meta.copied,
                  pages |-> meta.pages, buf |-> <<>>, image |-> meta.image]
    BY <1>3 DEF Boot
  <2>2. Recoverable
    BY <1>2, <1>3 DEF Durable
  <2>3. /\ meta.image \in Updates /\ meta.pages = Pages(Size(meta.image))
        /\ meta.copied \in 0..meta.pages /\ Below(meta.image, meta.copied)
        /\ From(staging, meta.image, meta.copied)
    BY <1>2, <2>2 DEF Recoverable
  <2>4. meta.pages \in Nat /\ meta.copied \in Nat
    <3>1. Pages(Size(meta.image)) \in Nat
      BY <2>3, ImagePages DEF Setting
    <3> QED BY <2>3, <3>1
  <2>5. ap'.mode = "resume" /\ ap'.page = meta.copied /\ ap'.pages = meta.pages
        /\ ap'.pc = "read" /\ ap'.image = meta.image
        /\ DOMAIN ap' = {"mode", "pc", "page", "pages", "buf", "image"}
    BY <2>1
  <2>6. ImageOf' = meta.image
    BY <2>5 DEF ImageOf
  <2>7. Placed' /\ Recorded'
    BY <1>1, <1>3, <2>3, <2>4, <2>5, <2>6 DEF Placed, Recorded, Touching
  <2>8. Copying'
    BY <1>1, <2>3, <2>5, <2>6 DEF Copying, Below, Source, From
  <2>9. Durable'
    BY <1>1, <1>3, <2>3 DEF Durable, Recoverable, Below, From
  <2> QED
    BY <1>1, <1>2, <2>1, <2>5, <2>7, <2>8, <2>9 DEF Core, Applying, HaltsOnlyWithoutApp
<1>4. CASE ~meta.present
  <2>1. run' = "up" /\ UNCHANGED ap
    BY <1>4 DEF Boot
  <2>2. Whole
    BY <1>2, <1>4 DEF Durable, Rewriting
  <2>3. Whole'
    BY <1>1, <2>2 DEF Whole
  <2> QED BY <1>1, <1>2, <1>4, <2>1, <2>3 DEF Core, Durable, Applying, HaltsOnlyWithoutApp
<1> QED BY <1>3, <1>4

(* Whatever part of a page reached the flash, the record still counts the  *)
(* pages before it and staging still holds the rest.                       *)
LEMMA RecoveryPowerFail ==
    ASSUME Setting, RecoveryInv, PowerFail
    PROVE  Core'
<1>1. /\ ap' = NotApplying /\ run' = "boot" /\ app' = FALSE
      /\ UNCHANGED <<staging, meta>>
      /\ ap.mode # "none" => <<ap.mode, Point>> \in Survived
  BY DEF PowerFail, Restart, Setting
<1>2. Durable /\ primary = [u \in Unit |-> primary[u]]
  BY DEF RecoveryInv, Core
<1>3. ap.pc = "none" \/ ap.mode # "none"
  BY Modes
<1>4. CASE ~meta.present
  <2>1. ap.pc # "write"
    BY <1>4, Modes DEF Touching
  <2>2. UNCHANGED primary
    BY <2>1 DEF PowerFail
  <2>3. ~Rewriting
    BY <1>1 DEF Survived, Rewriting, Point
  <2>4. Whole'
    BY <1>2, <1>4, <2>2, <2>3 DEF Durable, Whole
  <2> QED
    BY <1>1, <1>2, <1>4, <2>2, <2>4
       DEF Core, Durable, Applying, NotApplying, HaltsOnlyWithoutApp
<1>5. CASE meta.present
  <2>1. /\ meta.image \in Updates /\ meta.pages = Pages(Size(meta.image))
        /\ meta.copied \in 0..meta.pages /\ Below(meta.image, meta.copied)
        /\ ap.mode = "delta" \/ From(staging, meta.image, meta.copied)
    BY <1>2, <1>5 DEF Durable, Recoverable
  <2>2. From(staging, meta.image, meta.copied)
    <3>1. CASE ap.mode = "delta"
      <4>1. Placed /\ Recorded /\ SessionsFit
        BY <3>1 DEF RecoveryInv, Core, Applying, Setting
      <4>2. meta.copied = Pages(Size(meta.image))
        <5>1. Point \in {"first", "stale", "finish"}
          BY <1>1, <3>1 DEF Survived
        <5>2. CASE ap.pc \in {"stale", "finish"}
          BY <4>1, <5>2 DEF Placed, Recorded, Touching
        <5>3. CASE ap.pc \in {"mark", "record"} /\ ap.page = 0
          BY <1>5, <2>1, <4>1, <5>3 DEF Recorded, LeftBehind
        <5>4. ap.pc # "first"
          BY <4>1 DEF Placed, Touching
        <5> QED BY <5>1, <5>2, <5>3, <5>4 DEF Point
      <4> QED BY <2>1, <4>1, <4>2, NothingLeft
    <3> QED BY <2>1, <3>1
  <2>3. primary' = [u \in Unit |-> primary'[u]] /\ Below(meta.image, meta.copied)'
    <3>1. CASE ap.pc # "write"
      <4>1. UNCHANGED primary
        BY <3>1 DEF PowerFail
      <4> QED BY <1>1, <1>2, <2>1, <4>1 DEF Below
    <3>2. CASE ap.pc = "write"
      <4>1. PICK n \in 0..Size(ap.buf) : primary' = Written(n)
        BY <3>2 DEF PowerFail
      <4>2. Placed /\ Recorded /\ Copying /\ SessionsFit /\ ap.page \in Nat
        BY <3>2, InApply
      <4>3. /\ meta.image = ImageOf /\ meta.copied = ap.page /\ ImageOf \in Updates
            /\ ap.page < Pages(Size(ImageOf)) /\ ap.buf = Part(ImageOf, ap.page)
        BY <3>2, <4>2 DEF Placed, Recorded, Copying, Touching
      <4>4. PICK im \in Updates, p \in Nat : im = ImageOf /\ p = ap.page
        BY <4>2, <4>3
      <4>5. primary' = Put(primary, p * PageSize, Read(Part(im, p), 0, n))
            /\ n \in 0..Size(Part(im, p)) /\ p < Pages(Size(im))
        BY <4>1, <4>3, <4>4 DEF Written
      <4>6. ASSUME NEW u \in Unit, u \div PageSize < p PROVE primary'[u] = At(im, u)
        <5>1. u \div PageSize # p
          BY <4>6, UnitNat, PageOf, SizeAssumption
        <5>2. primary'[u] = primary[u]
          BY <4>2, <4>5, <5>1, PutPart
        <5> QED BY <2>1, <4>3, <4>4, <4>6, <5>2 DEF Below
      <4>7. primary' = [u \in Unit |-> primary'[u]]
        BY <4>5 DEF Put
      <4> QED BY <1>1, <4>3, <4>4, <4>6, <4>7 DEF Below
    <3> QED BY <3>1, <3>2
  <2>4. Durable'
    BY <1>1, <1>5, <2>1, <2>2, <2>3 DEF Durable, Recoverable, From
  <2> QED BY <1>1, <2>3, <2>4 DEF Core, Applying, NotApplying, HaltsOnlyWithoutApp
<1> QED BY <1>4, <1>5

LEMMA RecoveryNext ==
    ASSUME Setting
    PROVE  RecoveryInv /\ [Next]_vars => RecoveryInv'
<1> SUFFICES ASSUME RecoveryInv, [Next]_vars PROVE RecoveryInv'
  OBVIOUS
<1>1. ValidInv' /\ ApplyInv' /\ KnownInv'
  <2>1. "APPLYING" \notin AbortDuring /\ AbortDuring \cap {"APPLYING", "WRITING"} = {}
    BY DEF Setting
  <2> QED BY <2>1, ValidNext, ApplyNext, KnownNext DEF RecoveryInv
<1>2. ASSUME UNCHANGED vars PROVE Core'
  BY <1>2, RecoveryFrame DEF RecoveryInv, vars
<1>3. ASSUME Next PROVE Core'
  BY <1>3, RecoveryMessages, RecoveryStart, RecoveryMark, RecoveryRecord, RecoveryNextPage,
     RecoveryErase, RecoveryWrite, RecoveryStale, RecoveryFinish, RecoveryFault, RecoveryBoot,
     RecoveryPowerFail DEF Next, Apply
<1> QED BY <1>1, <1>2, <1>3 DEF RecoveryInv

(* In this setting a recovery record always promises what flash keeps: the *)
(* pages it counts are in the app partition, the rest is in staging, or    *)
(* in a running delta in both (ota_update.c:174-258, 626-740).             *)
THEOREM ResumeReadyCorrect ==
    ASSUME Setting
    PROVE  Spec => []ResumeReady
<1>1. RecoveryInv => ResumeReady
  <2> SUFFICES ASSUME RecoveryInv, meta.present, NEW u \in DOMAIN meta.image
               PROVE  IF u \div PageSize < meta.copied THEN primary[u] = meta.image[u]
                      ELSE ap.mode = "delta" \/ staging[u] = meta.image[u]
    BY DEF ResumeReady
  <2>1. Recoverable
    BY DEF RecoveryInv, Core, Durable
  <2>2. u \in Unit /\ u \div PageSize \in Nat /\ meta.copied \in Int
    BY <2>1, ImageSize, ImagePages, UnitNat, PageOf, SizeAssumption DEF Recoverable, Setting
  <2> QED BY <2>1, <2>2 DEF Recoverable, Below, From, At
<1> QED
  BY RecoveryInit, RecoveryNext, <1>1, PTL DEF Spec

(* In this setting the platform only ever calls into an app partition that *)
(* holds one image, whole: the factory's or one that was announced and     *)
(* whose signature, if it claims one, is good, however often the power     *)
(* fails on the way (app.c:183-207, ota_update.c:174-320, 626-757).        *)
THEOREM BootsWholeImageCorrect ==
    ASSUME Setting
    PROVE  Spec => []BootsWholeImage
<1>1. RecoveryInv => BootsWholeImage
  BY DEF RecoveryInv, Core, BootsWholeImage, Whole, Bootable, Updates
<1> QED
  BY RecoveryInit, RecoveryNext, <1>1, PTL DEF Spec

(* In this setting a recovery that starts at boot ends with the reboot     *)
(* app.c:187 promises, or is still going on, or has put a whole image in   *)
(* place that does not begin with the magic, which no check before it      *)
(* looks for: only then is the device left with neither app nor Sidewalk,  *)
(* and the record kept (ota_update.c:264-320, app.c:183-190).              *)
THEOREM HaltsOnlyWithoutAppCorrect ==
    ASSUME Setting
    PROVE  Spec => []HaltsOnlyWithoutApp
<1>1. RecoveryInv => HaltsOnlyWithoutApp
  BY DEF RecoveryInv, Core
<1> QED
  BY RecoveryInit, RecoveryNext, <1>1, PTL DEF Spec

-----------------------------------------------------------------------------
(* Types.  The counts stay in range because a chunk is counted only in a   *)
(* session that still misses one, which needs that no session is forgotten *)
(* while a chunk is being stored, and that every session has a chunk.      *)
Announced ==
    \A s \in Sessions : s.chunks # {} /\ s.chunks \subseteq 0..(Chunks(Size(s.image)) - 1)

Missing == ota.got + 1 \in 0..Cardinality(ota.s.chunks)

FlashType ==
    /\ DOMAIN primary = Unit /\ DOMAIN staging = Unit
    /\ meta.present \in BOOLEAN /\ meta.pages \in 0..AppPages /\ meta.copied \in 0..meta.pages
SessionType ==
    /\ DOMAIN ota = Fields /\ ota.phase \in Phases /\ ota.s \in Sessions \cup {NoSession}
    /\ ota.got \in 0..Cardinality(ota.s.chunks)
    /\ ota.received \subseteq 0..Chunks(Size(ota.s.image))
    /\ ota.phase = "RECEIVING" => Missing
ChunkType ==
    rx.writing => /\ rx.bytes \in 1..ChunkSize /\ rx.delta \in BOOLEAN /\ Missing
                  /\ rx.delta => rx.idx \in 0..Chunks(Size(ota.s.image))
ApplyType ==
    /\ DOMAIN ap = {"mode", "pc", "page", "pages", "buf", "image"}
    /\ ap.mode \in {"none", "full", "delta", "resume"}
    /\ ap.mode = "resume" <=> run = "recover"
    /\ ap.pages \in 0..AppPages /\ ap.page \in 0..ap.pages
    /\ ap.pc \in {"erase", "write"} => ap.page # ap.pages
FlagsType ==
    /\ work \in BOOLEAN /\ app \in BOOLEAN /\ fails \in 0..MaxFails
    /\ run \in {"boot", "recover", "up", "halt"}
TypeInv == FlashType /\ SessionType /\ ChunkType /\ ApplyType /\ FlagsType

LEMMA ChunksOf ==
    ASSUME SessionsFit, Announced, NEW s \in Sessions
    PROVE  /\ Chunks(Size(s.image)) \in Nat
           /\ Cardinality(s.chunks) \in Nat \ {0}
           /\ \A i \in s.chunks : i \in Nat /\ i * ChunkSize < Size(s.image)
<1>1. Size(s.image) \in Nat
  <2>1. AppPages * PageSize \in Nat
    BY SizeAssumption
  <2> QED BY <2>1, AnnouncedSize
<1>2. /\ Chunks(Size(s.image)) \in Nat
      /\ \A k \in Nat : k < Chunks(Size(s.image)) => k * ChunkSize < Size(s.image)
  <2>1. Chunks(Size(s.image)) = (Size(s.image) + ChunkSize - 1) \div ChunkSize
    BY DEF Chunks
  <2> QED BY <1>1, <2>1, SizeAssumption, PagesCover
<1>3. s.chunks # {} /\ s.chunks \subseteq 0..(Chunks(Size(s.image)) - 1)
  BY DEF Announced
<1>4. IsFiniteSet(s.chunks)
  <2>1. IsFiniteSet(0..(Chunks(Size(s.image)) - 1))
    BY <1>2, FS_Interval
  <2> QED BY <1>3, <2>1, FS_Subset
<1>5. Cardinality(s.chunks) \in Nat \ {0}
  BY <1>3, <1>4, FS_CardinalityType, FS_EmptySet
<1> QED BY <1>2, <1>3, <1>5

LEMMA CountType ==
    ASSUME SessionsFit, Announced, NEW s \in Sessions \cup {NoSession}
    PROVE  Cardinality(s.chunks) \in Nat
<1>1. CASE s \in Sessions
  BY <1>1, ChunksOf
<1>2. CASE s = NoSession
  BY <1>2, FS_EmptySet DEF NoSession
<1> QED BY <1>1, <1>2

(* A message carries as much as its place in the image allows.             *)
LEMMA MessageType ==
    ASSUME SessionsFit, Announced, NEW c \in Messages
    PROVE  Size(c.data) \in 1..ChunkSize /\ c.idx \in Nat
<1>0. PICK s \in Sessions : c \in {ChunkOf(s, i) : i \in s.chunks}
  BY DEF Messages
<1>1. PICK i \in s.chunks : c = ChunkOf(s, i)
  BY <1>0
<1> DEFINE left == Size(s.image) - i * ChunkSize
           n == IF left < ChunkSize THEN left ELSE ChunkSize
<1>2. i \in Nat /\ i * ChunkSize < Size(s.image)
  BY <1>1, ChunksOf
<1>3. n \in 1..ChunkSize
  <2>1. Size(s.image) \in Int /\ ChunkSize \in Nat \ {0} /\ i * ChunkSize \in Int
    <3>1. AppPages * PageSize \in Nat
      BY SizeAssumption
    <3> QED BY <1>2, <3>1, AnnouncedSize, SizeAssumption
  <2> QED BY <1>2, <2>1
<1>4. c.idx = i /\ DOMAIN c.data = 0..(n - 1)
  BY <1>1 DEF ChunkOf, Read
<1>5. Cardinality(0..(n - 1)) = n
  <2>1. n \in Int /\ n >= 1
    BY <1>3, SizeAssumption
  <2> HIDE DEF n
  <2>2. Cardinality(0..(n - 1)) = IF 0 > n - 1 THEN 0 ELSE (n - 1) - 0 + 1
    BY <2>1, FS_Interval
  <2> QED BY <2>1, <2>2
<1> QED BY <1>2, <1>3, <1>4, <1>5 DEF Size

LEMMA PagesWithin ==
    ASSUME NEW P \in Nat \ {0}, NEW A \in Nat, NEW n \in 0..(A * P)
    PROVE  (n + P - 1) \div P \in 0..A
  OBVIOUS

LEMMA SessionPages ==
    ASSUME SessionsFit, NEW s \in Sessions \cup {NoSession}
    PROVE  Pages(Size(s.image)) \in 0..AppPages
<1>0. AppPages * PageSize \in Nat /\ PageSize \in Nat \ {0} /\ AppPages \in Nat
  BY SizeAssumption
<1>1. Size(s.image) \in 0..(AppPages * PageSize)
  <2>1. CASE s \in Sessions
    BY <1>0, <2>1, AnnouncedSize
  <2>2. CASE s = NoSession
    <3>1. DOMAIN s.image = {}
      BY <2>2 DEF NoSession
    <3> QED BY <1>0, <3>1, FS_EmptySet DEF Size
  <2> QED BY <2>1, <2>2
<1> QED BY <1>0, <1>1, PagesWithin DEF Pages

(* Nothing is announced, nothing applied.                                  *)
LEMMA FreshType == ASSUME ota' = Fresh, ~rx'.writing PROVE SessionType' /\ ChunkType'
<1>1. Cardinality({}) = 0
  BY FS_EmptySet
<1>2. ota'.s = NoSession /\ ota'.got = 0 /\ ota'.received = {} /\ ota'.phase = "IDLE"
      /\ NoSession.chunks = {} /\ DOMAIN ota' = Fields
  BY DEF Fresh, NoSession, Fields
<1>3. SessionType'
  BY <1>1, <1>2 DEF SessionType, Phases
<1> QED BY <1>3 DEF ChunkType

LEMMA NotApplyingType ==
    ASSUME ap' = NotApplying, run' \in {"boot", "up", "halt"}
    PROVE  ApplyType'
<1>1. /\ ap'.mode = "none" /\ ap'.pc = "none" /\ ap'.page = 0 /\ ap'.pages = 0
      /\ DOMAIN ap' = {"mode", "pc", "page", "pages", "buf", "image"}
  BY DEF NotApplying
<1>2. 0 \in 0..AppPages /\ 0 \in 0..0
  BY SizeAssumption
<1> QED BY <1>1, <1>2 DEF ApplyType

LEMMA TypeInit == SessionsFit /\ Init => TypeInv
<1> SUFFICES ASSUME SessionsFit, Init PROVE TypeInv
  OBVIOUS
<1>1. FlashType
  <2>1. DOMAIN primary = Unit /\ DOMAIN staging = Unit
    BY DEF Init, Flashed, Put
  <2>2. meta.present = FALSE /\ meta.pages = 0 /\ meta.copied = 0
    BY DEF Init, NoRecord
  <2>3. meta.present \in BOOLEAN
    BY <2>2
  <2>4. meta.pages \in 0..AppPages /\ meta.copied \in 0..meta.pages
    BY <2>2, SizeAssumption
  <2> QED BY <2>1, <2>3, <2>4 DEF FlashType
<1>2. SessionType /\ ChunkType
  <2>1. Cardinality({}) = 0
    BY FS_EmptySet
  <2>2. ota.s = NoSession /\ ota.got = 0 /\ ota.received = {} /\ ota.phase = "IDLE"
        /\ NoSession.chunks = {} /\ DOMAIN ota = Fields /\ rx.writing = FALSE
    BY DEF Init, Fresh, NoSession, Fields, NoChunk
  <2> QED BY <2>1, <2>2 DEF SessionType, Phases, ChunkType
<1>3. ApplyType
  <2>1. /\ ap.mode = "none" /\ ap.pc = "none" /\ ap.page = 0 /\ ap.pages = 0
        /\ DOMAIN ap = {"mode", "pc", "page", "pages", "buf", "image"} /\ run = "boot"
    BY DEF Init, NotApplying
  <2> QED BY <2>1, SizeAssumption DEF ApplyType
<1>4. FlagsType
  <2>1. work \in BOOLEAN /\ app \in BOOLEAN
    BY DEF Init
  <2>2. fails \in 0..MaxFails /\ run \in {"boot", "recover", "up", "halt"}
    BY BoundAssumption DEF Init
  <2> QED BY <2>1, <2>2 DEF FlagsType
<1> QED BY <1>1, <1>2, <1>3, <1>4 DEF TypeInv

(* The handlers.                                                           *)
LEMMA TypeStart ==
    ASSUME SessionsFit, Announced, TypeInv, NEW s \in Sessions, Start(s)
    PROVE  TypeInv'
<1>1. /\ UNCHANGED <<primary, meta, ap, run, app, fails, rx, work>> /\ rx = NoChunk
      /\ staging' = staging \/ DOMAIN staging' = Unit
  BY DEF Start, Handler, Running, Reply, EraseFrom
<1>2. UNCHANGED ota \/ ota' = Session(s)
  BY DEF Start, Reply
<1>3. SessionType'
  <2>1. CASE UNCHANGED ota
    BY <2>1 DEF TypeInv, SessionType, Missing
  <2>2. CASE ota' = Session(s)
    <3>1. /\ DOMAIN ota' = Fields /\ ota'.phase = "RECEIVING" /\ ota'.s = s
          /\ ota'.got = 0 /\ ota'.received = {}
      BY <2>2 DEF Session, Fields
    <3>2. Cardinality(s.chunks) \in Nat \ {0}
      BY ChunksOf
    <3> QED BY <3>1, <3>2 DEF SessionType, Missing, Phases
  <2> QED BY <1>2, <2>1, <2>2
<1>4. ChunkType'
  BY <1>1 DEF ChunkType, NoChunk
<1> QED BY <1>1, <1>3, <1>4 DEF TypeInv, FlashType, ApplyType, FlagsType

LEMMA TypeChunk ==
    ASSUME SessionsFit, Announced, TypeInv, NEW c \in Messages, Chunk(c)
    PROVE  TypeInv'
<1>1. /\ UNCHANGED <<primary, meta, ap, run, app, fails, ota, work>> /\ rx = NoChunk
      /\ staging' = staging \/ DOMAIN staging' = Unit
  BY DEF Chunk, Handler, Running, Reply, DeltaChunk, FullChunk, Write, Put
<1>2. SessionType'
  BY <1>1 DEF TypeInv, SessionType, Missing
<1>3. ChunkType'
  <2>1. CASE UNCHANGED rx
    BY <1>1, <2>1 DEF ChunkType, NoChunk
  <2>2. CASE ~UNCHANGED rx
    <3>1. /\ ota.phase = "RECEIVING"
          /\ rx' = [writing |-> TRUE, idx |-> c.idx, bytes |-> Size(c.data),
                    delta |-> Delta(ota.s)]
          /\ Delta(ota.s) => c.idx < Chunks(Size(ota.s.image))
      BY <2>2 DEF Chunk, Reply, DeltaChunk, FullChunk, Write
    <3>2. Missing /\ Missing'
      BY <1>1, <3>1 DEF TypeInv, SessionType, Missing
    <3>3. Size(c.data) \in 1..ChunkSize /\ c.idx \in Nat
      BY MessageType
    <3>4. Delta(ota.s) => c.idx \in 0..Chunks(Size(ota.s.image))
      <4>1. ota.s \in Sessions
        <5>1. Cardinality({}) = 0 /\ NoSession.chunks = {}
          BY FS_EmptySet DEF NoSession
        <5>2. ota.got \in 0..Cardinality(ota.s.chunks) /\ ota.s \in Sessions \cup {NoSession}
          BY DEF TypeInv, SessionType
        <5> QED BY <3>2, <5>1, <5>2 DEF Missing
      <4>2. Chunks(Size(ota.s.image)) \in Nat
        BY <4>1, ChunksOf
      <4> QED BY <3>1, <3>3, <4>2
    <3>5. rx'.delta \in BOOLEAN
      BY <3>1 DEF Delta
    <3>6. rx'.bytes \in 1..ChunkSize /\ rx'.idx = c.idx /\ (rx'.delta <=> Delta(ota.s))
      BY <3>1, <3>3
    <3> QED BY <1>1, <3>2, <3>4, <3>5, <3>6 DEF ChunkType
  <2> QED BY <2>1, <2>2
<1> QED BY <1>1, <1>2, <1>3 DEF TypeInv, FlashType, ApplyType, FlagsType

LEMMA TypeStored ==
    ASSUME SessionsFit, Announced, TypeInv, ChunkStored
    PROVE  TypeInv'
<1>0. Cardinality(ota.s.chunks) \in Nat /\ ota.got \in Nat
  BY CountType DEF TypeInv, SessionType
<1>1. /\ UNCHANGED <<primary, meta, ap, run, app, fails, staging>>
      /\ rx.writing /\ rx' = NoChunk
  BY DEF ChunkStored, Running
<1>2. /\ DOMAIN Counted = Fields /\ Counted.phase = ota.phase /\ Counted.s = ota.s
      /\ Counted.got = ota.got + 1
      /\ Counted.received = IF rx.delta THEN ota.received \cup {rx.idx} ELSE ota.received
  BY DEF Counted, TypeInv, SessionType, Fields
<1>3. /\ \/ ota' = Counted /\ ~AllIn(Counted)
         \/ ota' = [Counted EXCEPT !.phase = "ERROR"]
         \/ ota' = [Counted EXCEPT !.phase = "COMPLETE"]
      /\ work' = work \/ work' = TRUE
  BY DEF ChunkStored, Fail, Validate
<1>4. /\ Counted.got \in 0..Cardinality(ota.s.chunks)
      /\ Counted.received \subseteq 0..Chunks(Size(ota.s.image))
  BY <1>1, <1>2 DEF TypeInv, SessionType, ChunkType, Missing
<1>5. /\ DOMAIN ota' = Fields /\ ota'.s = ota.s /\ ota'.got = Counted.got
      /\ ota'.received = Counted.received
      /\ ota'.phase \in {Counted.phase, "ERROR", "COMPLETE"}
      /\ ota'.phase = "RECEIVING" => ~AllIn(Counted)
  BY <1>2, <1>3 DEF Fields
<1>6. SessionType'
  <2>1. ota.s \in Sessions \cup {NoSession} /\ ota'.phase \in Phases
    BY <1>2, <1>5 DEF TypeInv, SessionType, Phases
  <2>2. ASSUME ota'.phase = "RECEIVING" PROVE Missing'
    <3>1. ~(Counted.got >= Cardinality(ota.s.chunks))
      BY <1>2, <1>5, <2>2 DEF AllIn
    <3> QED BY <1>0, <1>2, <1>5, <3>1 DEF Missing
  <2> QED BY <1>4, <1>5, <2>1, <2>2 DEF SessionType
<1>7. ChunkType'
  BY <1>1 DEF ChunkType, NoChunk
<1>8. FlagsType'
  BY <1>1, <1>3 DEF TypeInv, FlagsType
<1> QED BY <1>1, <1>6, <1>7, <1>8 DEF TypeInv, FlashType, ApplyType

(* What a failed apply, a restart and a power failure leave behind.        *)
LEMMA TypeGiveUp ==
    ASSUME TypeInv, GiveUp, UNCHANGED rx
    PROVE  SessionType' /\ ChunkType' /\ ApplyType' /\ run' \in {"boot", "recover", "up", "halt"}
<1>1. /\ ota' = ota \/ ota' = [ota EXCEPT !.phase = "ERROR"]
      /\ ap' = NotApplying
  BY DEF GiveUp
<1>2. /\ DOMAIN ota' = Fields /\ ota'.s = ota.s /\ ota'.got = ota.got
      /\ ota'.received = ota.received /\ ota'.phase \in {ota.phase, "ERROR"}
  BY <1>1 DEF TypeInv, SessionType, Fields
<1>3. SessionType' /\ ChunkType'
  BY <1>2 DEF TypeInv, SessionType, ChunkType, Missing, Phases
<1>4. run' \in {"boot", "up", "halt"}
  BY DEF GiveUp, TypeInv, ApplyType, FlagsType
<1> QED BY <1>1, <1>3, <1>4, NotApplyingType

LEMMA TypeRestart ==
    ASSUME Restart
    PROVE  /\ SessionType' /\ ChunkType' /\ ApplyType'
           /\ work' \in BOOLEAN /\ app' \in BOOLEAN /\ run' \in {"boot", "recover", "up", "halt"}
<1>1. SessionType' /\ ChunkType'
  BY FreshType DEF Restart, NoChunk
<1>2. ApplyType'
  BY NotApplyingType DEF Restart
<1> QED BY <1>1, <1>2 DEF Restart

LEMMA TypeApplyStart ==
    ASSUME SessionsFit, TypeInv, ApplyStart
    PROVE  TypeInv'
<1>1. UNCHANGED <<primary, staging, meta, run, rx, fails>> /\ work' = FALSE /\ run = "up"
  BY DEF ApplyStart, Begin, flash, Quiet
<1>2. CASE ota.phase = "COMPLETE"
  <2>1. /\ app' = FALSE /\ ota' = [ota EXCEPT !.phase = "APPLYING"]
        /\ ap' = [NotApplying EXCEPT
                    !.mode = IF Delta(ota.s) THEN "delta" ELSE "full",
                    !.pc = "mark", !.pages = Pages(Size(ota.s.image)),
                    !.image = ota.s.image]
    BY <1>2 DEF ApplyStart, Begin, StopApp
  <2>2. /\ DOMAIN ota' = Fields /\ ota'.s = ota.s /\ ota'.got = ota.got
        /\ ota'.received = ota.received /\ ota'.phase = "APPLYING"
    BY <2>1 DEF TypeInv, SessionType, Fields
  <2>3. SessionType' /\ ChunkType'
    BY <1>1, <2>2 DEF TypeInv, SessionType, ChunkType, Missing, Phases
  <2>4. /\ DOMAIN ap' = {"mode", "pc", "page", "pages", "buf", "image"}
        /\ ap'.mode \in {"full", "delta"} /\ ap'.pc = "mark" /\ ap'.page = 0
        /\ ap'.pages = Pages(Size(ota.s.image))
    BY <2>1 DEF NotApplying
  <2>5. Pages(Size(ota.s.image)) \in 0..AppPages
    BY SessionPages DEF TypeInv, SessionType
  <2>6. 0 \in 0..Pages(Size(ota.s.image))
    BY <2>5, SizeAssumption
  <2>7. ApplyType'
    BY <1>1, <2>4, <2>5, <2>6 DEF ApplyType
  <2>8. work' \in BOOLEAN /\ app' \in BOOLEAN
    BY <1>1, <2>1
  <2> QED BY <1>1, <2>3, <2>7, <2>8 DEF TypeInv, FlashType, FlagsType
<1>3. CASE ota.phase # "COMPLETE"
  <2>1. UNCHANGED <<ota, ap, app>>
    BY <1>3 DEF ApplyStart, Begin
  <2>2. work' \in BOOLEAN
    BY <1>1
  <2> QED BY <1>1, <2>1, <2>2
          DEF TypeInv, FlashType, SessionType, ChunkType, ApplyType, FlagsType, Missing
<1> QED BY <1>2, <1>3

(* A step of the apply that leaves session and flags alone.                *)
LEMMA TypeKept ==
    ASSUME TypeInv, UNCHANGED <<ota, rx, work, run, app, fails>>
    PROVE  SessionType' /\ ChunkType' /\ FlagsType'
  BY DEF TypeInv, SessionType, ChunkType, FlagsType, Missing

LEMMA TypeApply == ASSUME TypeInv, Apply PROVE TypeInv'
<1>t. /\ DOMAIN ap = {"mode", "pc", "page", "pages", "buf", "image"}
      /\ ap.pages \in 0..AppPages /\ ap.page \in 0..ap.pages
      /\ FlashType /\ SessionType /\ ChunkType /\ ApplyType /\ FlagsType
  BY DEF TypeInv, ApplyType
<1>1. CASE Mark
  <2>1. /\ ap' = [ap EXCEPT !.pc = "record"] /\ meta' = NoRecord
        /\ UNCHANGED <<primary, staging, ota, work, run, app, rx, fails>>
    BY <1>1 DEF Mark, Step, Quiet
  <2>2. ApplyType'
    BY <1>t, <2>1 DEF ApplyType
  <2>3. FlashType'
    <3>1. meta'.present \in BOOLEAN
      BY <2>1 DEF NoRecord
    <3>2. meta'.pages \in 0..AppPages /\ meta'.copied \in 0..meta'.pages
      BY <2>1, SizeAssumption DEF NoRecord
    <3> QED BY <1>t, <2>1, <3>1, <3>2 DEF FlashType
  <2> QED BY <2>1, <2>2, <2>3, TypeKept DEF TypeInv
<1>2. CASE Record
  <2>1. /\ meta' = [present |-> TRUE, image |-> ap.image, copied |-> ap.page, pages |-> ap.pages]
        /\ ap' = [ap EXCEPT !.pc = "read"]
        /\ UNCHANGED <<primary, staging, ota, work, run, app, rx, fails>>
    BY <1>2 DEF Record, RecordAs, Step, Quiet
  <2>2. ApplyType'
    BY <1>t, <2>1 DEF ApplyType
  <2>3. FlashType'
    <3>1. meta'.present \in BOOLEAN
      BY <2>1
    <3> QED BY <1>t, <2>1, <3>1 DEF FlashType
  <2> QED BY <2>1, <2>2, <2>3, TypeKept DEF TypeInv
<1>3. CASE NextPage
  <2>1. UNCHANGED <<primary, staging, meta, work, app, rx, fails>>
    BY <1>3 DEF NextPage, Step, Quiet, flash
  <2>2. CASE /\ UNCHANGED <<ota, run>>
             /\ \/ ap.page < ap.pages /\ ap' = [ap EXCEPT !.pc = "erase", !.buf = PageData]
                \/ ap' = [ap EXCEPT !.pc = "stale", !.image = ImageOf]
    <3>1. /\ DOMAIN ap' = DOMAIN ap /\ ap'.mode = ap.mode /\ ap'.page = ap.page
          /\ ap'.pages = ap.pages
          /\ ap'.pc = "stale" \/ (ap'.pc = "erase" /\ ap.page < ap.pages)
      BY <1>t, <2>2
    <3>2. ap'.pc \in {"erase", "write"} => ap'.page # ap'.pages
      BY <1>t, <3>1, SizeAssumption
    <3>3. ApplyType'
      BY <1>t, <2>2, <3>1, <3>2 DEF ApplyType
    <3>4. FlashType'
      BY <1>t, <2>1 DEF FlashType
    <3> QED BY <2>1, <2>2, <3>3, <3>4, TypeKept DEF TypeInv
  <2>3. CASE GiveUp
    BY <1>t, <2>1, <2>3, TypeGiveUp DEF TypeInv, FlashType, FlagsType
  <2> QED BY <1>3, <2>2, <2>3 DEF NextPage
<1>7. CASE ErasePage
  <2>1. /\ primary' = EraseFrom(primary, ap.page, ap.page + 1) /\ ap.pc = "erase"
        /\ ap' = [ap EXCEPT !.pc = "write"]
        /\ UNCHANGED <<staging, meta, ota, work, run, app, rx, fails>>
    BY <1>7 DEF ErasePage, Step, Quiet
  <2>2. FlashType'
    BY <1>t, <2>1 DEF FlashType, EraseFrom
  <2>3. /\ DOMAIN ap' = DOMAIN ap /\ ap'.mode = ap.mode /\ ap'.page = ap.page
        /\ ap'.pages = ap.pages /\ ap'.pc = "write"
    BY <1>t, <2>1
  <2>4. ApplyType'
    BY <1>t, <2>1, <2>3 DEF ApplyType
  <2> QED BY <2>1, <2>2, <2>4, TypeKept DEF TypeInv
<1>4. CASE WritePage
  <2>1. /\ primary' = Written(Size(ap.buf)) /\ ap.pc = "write"
        /\ ap' = [ap EXCEPT !.pc = "mark", !.page = @ + 1, !.buf = <<>>, !.image = ImageOf]
        /\ UNCHANGED <<staging, meta, ota, work, run, app, rx, fails>>
    BY <1>4 DEF WritePage, Step, Quiet
  <2>2. /\ DOMAIN ap' = DOMAIN ap /\ ap'.mode = ap.mode /\ ap'.page = ap.page + 1
        /\ ap'.pages = ap.pages /\ ap'.pc = "mark"
    BY <1>t, <2>1
  <2>3. ap'.page \in 0..ap'.pages
    <3>1. ap.page # ap.pages
      BY <1>t, <2>1 DEF ApplyType
    <3> QED BY <1>t, <2>2, <3>1, SizeAssumption
  <2>4. ApplyType'
    BY <1>t, <2>1, <2>2, <2>3 DEF ApplyType
  <2>5. FlashType'
    BY <1>t, <2>1 DEF FlashType, Written, Put
  <2> QED BY <2>1, <2>4, <2>5, TypeKept DEF TypeInv
<1>5. CASE EraseStale
  <2>1. /\ primary' = EraseFrom(primary, Pages(Size(ap.image)), AppPages)
        /\ ap' = [ap EXCEPT !.pc = "finish"]
        /\ UNCHANGED <<staging, meta, ota, work, run, app, rx, fails>>
    BY <1>5 DEF EraseStale, StaleFrom, Step, Quiet
  <2>2. ApplyType'
    BY <1>t, <2>1 DEF ApplyType
  <2>3. FlashType'
    BY <1>t, <2>1 DEF FlashType, EraseFrom
  <2> QED BY <2>1, <2>2, <2>3, TypeKept DEF TypeInv
<1>6. CASE Finish
  <2>1. UNCHANGED <<primary, staging, fails>>
    BY <1>6 DEF Finish, FinishWith
  <2>2. CASE meta' = NoRecord /\ Restart
    <3>1. meta'.present \in BOOLEAN
      BY <2>2 DEF NoRecord
    <3>2. meta'.pages \in 0..AppPages /\ meta'.copied \in 0..meta'.pages
      BY <2>2, SizeAssumption DEF NoRecord
    <3>3. FlashType'
      BY <1>t, <2>1, <3>1, <3>2 DEF FlashType
    <3>4. FlagsType'
      BY <1>t, <2>1, <2>2, TypeRestart DEF FlagsType
    <3> QED BY <2>2, <3>3, <3>4, TypeRestart DEF TypeInv
  <2>3. CASE GiveUp /\ UNCHANGED <<meta, rx, work, app>>
    BY <1>t, <2>1, <2>3, TypeGiveUp DEF TypeInv, FlashType, FlagsType
  <2> QED BY <1>6, <2>2, <2>3 DEF Finish, FinishWith
<1> QED BY <1>1, <1>2, <1>3, <1>4, <1>5, <1>6, <1>7 DEF Apply

LEMMA TypeBoot == ASSUME TypeInv, Boot PROVE TypeInv'
<1>1. UNCHANGED <<primary, staging, meta, ota, work, rx, fails>> /\ run = "boot"
  BY DEF Boot, Quiet, flash
<1>2. FlashType' /\ SessionType' /\ ChunkType'
  BY <1>1 DEF TypeInv, FlashType, SessionType, ChunkType, Missing
<1>3. CASE meta.present
  <2>1. /\ run' = "recover" /\ app' = app
        /\ ap' = [mode |-> "resume", pc |-> "read", page |-> meta.copied,
                  pages |-> meta.pages, buf |-> <<>>, image |-> meta.image]
    BY <1>3 DEF Boot
  <2>2. meta.pages \in 0..AppPages /\ meta.copied \in 0..meta.pages
    BY DEF TypeInv, FlashType
  <2>4. ApplyType'
    BY <2>1, <2>2 DEF ApplyType
  <2> QED BY <1>1, <1>2, <2>1, <2>4 DEF TypeInv, FlagsType
<1>4. CASE ~meta.present
  <2>1. run' = "up" /\ UNCHANGED ap /\ app' = (primary[0] = Magic)
    BY <1>4 DEF Boot
  <2>2. ApplyType'
    BY <1>1, <2>1 DEF TypeInv, ApplyType
  <2>3. app' \in BOOLEAN
    BY <2>1
  <2> QED BY <1>1, <1>2, <2>1, <2>2, <2>3 DEF TypeInv, FlagsType
<1> QED BY <1>3, <1>4

LEMMA TypePowerFail == ASSUME TypeInv, PowerFail PROVE TypeInv'
<1>1. UNCHANGED <<staging, meta>> /\ Restart /\ fails < MaxFails /\ fails' = fails + 1
  BY DEF PowerFail
<1>2. FlashType'
  <2>1. DOMAIN primary' = Unit
    BY DEF PowerFail, Written, Put, TypeInv, FlashType
  <2> QED BY <1>1, <2>1 DEF TypeInv, FlashType
<1>3. fails' \in 0..MaxFails
  BY <1>1, BoundAssumption DEF TypeInv, FlagsType
<1> QED BY <1>1, <1>2, <1>3, TypeRestart DEF TypeInv, FlagsType

LEMMA TypeNext ==
    ASSUME SessionsFit, Announced, "WRITING" \notin AbortDuring
    PROVE  TypeInv /\ [Next]_vars => TypeInv'
<1> SUFFICES ASSUME TypeInv, [Next]_vars PROVE TypeInv'
  OBVIOUS
<1>1. CASE Abort \/ ShellAbort
  <2>1. /\ ota' = Fresh /\ work' = FALSE
        /\ UNCHANGED <<primary, meta, ap, run, app, fails, staging, rx>>
    BY <1>1 DEF Abort, ShellAbort, Forget, Handler, Running
  <2>2. ~rx.writing
    BY <1>1 DEF Abort, ShellAbort, Handler, NoChunk
  <2>3. SessionType' /\ ChunkType'
    BY <2>1, <2>2, FreshType
  <2>4. work' \in BOOLEAN
    BY <2>1
  <2> QED BY <2>1, <2>3, <2>4 DEF TypeInv, FlashType, ApplyType, FlagsType
<1>2. CASE Fault
  <2>1. GiveUp /\ UNCHANGED <<primary, staging, meta, work, app, rx, fails>>
    BY <1>2 DEF Fault, Quiet, flash
  <2> QED BY <2>1, TypeGiveUp DEF TypeInv, FlashType, FlagsType
<1>3. CASE UNCHANGED vars
  BY <1>3 DEF vars, TypeInv, FlashType, SessionType, ChunkType, ApplyType, FlagsType, Missing
<1> QED
  BY <1>1, <1>2, <1>3, TypeStart, TypeChunk, TypeStored, TypeApplyStart, TypeApply,
     TypeBoot, TypePowerFail DEF Next

(* Types and ranges.  A session never counts more chunks than it announced *)
(* and an apply never leaves the partition, whatever messages come and     *)
(* wherever power and flash fail, if no session is zeroed while one of its *)
(* chunks is written (ota_update.c:805-824) and each announces a chunk.    *)
THEOREM TypeCorrect ==
    ASSUME SessionsFit, Announced, "WRITING" \notin AbortDuring
    PROVE  Spec => []TypeOK
<1>1. Init => TypeInv
  BY TypeInit
<1>2. TypeInv /\ [Next]_vars => TypeInv'
  BY TypeNext
<1>3. TypeInv => TypeOK
  BY DEF TypeInv, FlashType, SessionType, ChunkType, ApplyType, FlagsType, TypeOK
<1> QED BY <1>1, <1>2, <1>3, PTL DEF Spec
=============================================================================
