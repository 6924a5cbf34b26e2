------------------------------ MODULE OtaDevice ------------------------------
(***************************************************************************)
(* The device's half of an over-the-air update: ota_update.c, ota_flash.c  *)
(* and the part of app.c that starts and stops the app image.              *)
(*                                                                         *)
(* The Sidewalk thread runs the START, CHUNK and ABORT handlers.  A CHUNK  *)
(* waits for the flash half way, and the shell's abort may come in there.  *)
(* (In START it may too, with the effect of an abort before START.)  The   *)
(* apply runs on the system workqueue (or at boot, to recover) one flash   *)
(* operation per step, so the handlers interleave with it where it waits   *)
(* for the flash, and the power may fail between any two operations, and   *)
(* within a write.                                                         *)
(*                                                                         *)
(* Flash is modelled by units a few of which make a page or a chunk, so    *)
(* that chunks straddle pages as 15 byte chunks do with 4 KB ones.  A CRC  *)
(* stands for the content it is computed over.                             *)
(***************************************************************************)
EXTENDS Integers, FiniteSets

CONSTANTS PageSize, ChunkSize, AppPages,
          Magic,        (* the value of APP_CALLBACK_MAGIC in unit 0       *)
          Factory,      (* the image flashed at manufacture                *)
          Sessions,     (* what the cloud announces with START             *)
          AbortDuring,  (* phases, and WRITING, in which an abort may come *)
          PowerFails,   (* <<mode, point>> of an apply: the power may fail *)
          Faults,       (* <<mode, point>>: the flash may return an error  *)
          MaxFails      (* bound: how often                                *)

ASSUME SizeAssumption ==
    PageSize \in Nat \ {0} /\ ChunkSize \in Nat \ {0} /\ AppPages \in Nat \ {0}
ASSUME BoundAssumption == MaxFails \in Nat

VARIABLES primary,   (* the app partition                                  *)
          staging,   (* the staging partition                              *)
          meta,      (* recovery record, or NoRecord                       *)
          ota,       (* ota_state                                          *)
          rx,        (* the chunk being written to staging, or NoChunk     *)
          work,      (* ota_deferred_apply_work is scheduled               *)
          ap,        (* the apply in progress: where it is                 *)
          run,       (* boot, up, or halted after a failed recovery        *)
          app,       (* app_cb is set: app code may be called              *)
          out,       (* the uplink this step sent                          *)
          fails      (* power failures so far                              *)

flash == <<primary, staging, meta>>
vars  == <<primary, staging, meta, ota, rx, work, ap, run, app, out, fails>>

FF   == 0     (* an erased unit                                            *)
Junk == -1    (* two different values written over each other              *)
Unit == 0..(AppPages * PageSize - 1)

Pages(n)  == (n + PageSize - 1) \div PageSize
Chunks(n) == (n + ChunkSize - 1) \div ChunkSize
Size(im)  == Cardinality(DOMAIN im)
Read(f, a, n) == [i \in 0..(n - 1) |-> f[a + i]]

(* Flash clears bits only, and whole pages at a time are set again.        *)
Put(f, a, d) ==
    [u \in Unit |-> IF u - a \notin DOMAIN d \/ f[u] = d[u - a] THEN f[u]
                    ELSE IF f[u] = FF THEN d[u - a] ELSE Junk]
EraseFrom(f, p, q) ==
    [u \in Unit |-> IF u \div PageSize \in p..(q - 1) THEN FF ELSE f[u]]
Flashed(im) == Put([u \in Unit |-> FF], 0, im)

(* A session: the image, the chunks the cloud means to send, and whether   *)
(* the image claims a signature and deserves it.                           *)
Delta(s)  == Cardinality(s.chunks) < Chunks(Size(s.image))
Trusted(s) == s.signed => s.authentic
NoSession == [image |-> <<>>, chunks |-> {}, signed |-> FALSE, authentic |-> FALSE]

ChunkOf(s, i) ==
    LET left == Size(s.image) - i * ChunkSize
    IN  [idx |-> i,
         data |-> Read(s.image, i * ChunkSize,
                       IF left < ChunkSize THEN left ELSE ChunkSize)]
Messages == UNION {{ChunkOf(s, i) : i \in s.chunks} : s \in Sessions}

Fresh == [phase |-> "IDLE", s |-> NoSession, got |-> 0, bytes |-> 0, received |-> {}]
NotApplying == [mode |-> "none", pc |-> "none", page |-> 0, pages |-> 0,
                buf |-> <<>>, image |-> <<>>]
NoRecord == [present |-> FALSE, image |-> <<>>, copied |-> 0, pages |-> 0]

NoChunk == [writing |-> FALSE]
Silence == [kind |-> "none"]
Ack(status, next)     == [kind |-> "ACK", status |-> status, next |-> next]
Complete(status)      == [kind |-> "COMPLETE", status |-> status]

Init == /\ primary = Flashed(Factory)
        /\ staging = [u \in Unit |-> FF]
        /\ meta = NoRecord
        /\ ota = Fresh /\ rx = NoChunk /\ work = FALSE /\ ap = NotApplying
        /\ run = "boot" /\ app = FALSE /\ out = Silence /\ fails = 0

-----------------------------------------------------------------------------
(* Handlers.  They change RAM and staging only.                            *)
Running == run = "up" /\ UNCHANGED <<primary, meta, ap, run, app, fails>>
Handler == Running /\ rx = NoChunk
Send(m) == out' = m
Reply(m) == Send(m) /\ UNCHANGED <<staging, ota, rx, work>>

Busy == ota.phase \in {"APPLYING", "COMPLETE"}
Session(s) == [phase |-> "RECEIVING", s |-> s, got |-> 0, bytes |-> 0, received |-> {}]

(* handle_ota_start: refuse while an image waits or is being applied, say  *)
(* so if it runs already, otherwise erase staging and begin.  A failed     *)
(* erase leaves the session that was there before.                         *)
Start(s) ==
    /\ Handler
    /\ \/ Busy /\ Reply(Ack("NO_SESSION", 0))
       \/ /\ ~Busy /\ Read(primary, 0, Size(s.image)) = s.image
          /\ Reply(Complete("OK"))
       \/ /\ ~Busy /\ Read(primary, 0, Size(s.image)) # s.image
          /\ staging' = EraseFrom(staging, 0, Pages(Size(s.image)))
          /\ UNCHANGED <<rx, work>>
          /\ \/ ota' = Session(s) /\ Send(Ack("OK", 0))
             \/ UNCHANGED ota /\ Send(Ack("FLASH_ERR", 0))

(* The image as the device would assemble it: staging, and in delta mode   *)
(* the running image for every chunk that was not sent.                    *)
Merged(o) ==
    [u \in 0..(Size(o.s.image) - 1) |->
        IF Delta(o.s) /\ u \div ChunkSize \notin o.received THEN primary[u] ELSE staging[u]]

(* ota_validate_and_apply, delta_validate_and_apply: check CRC, then the   *)
(* signature, then let the COMPLETE uplink out before applying.            *)
ValidateUnchecked(o) == ota' = [o EXCEPT !.phase = "COMPLETE"]
                        /\ work' = TRUE /\ Send(Complete("OK"))
Fail(o, status) == /\ ota' = [o EXCEPT !.phase = "ERROR"]
                   /\ Send(Complete(status))
                   /\ UNCHANGED work
Validate(o) ==
    CASE Merged(o) # o.s.image -> Fail(o, "CRC_ERR")
      [] Merged(o) = o.s.image /\ ~Trusted(o.s) -> Fail(o, "SIG_ERR")
      [] OTHER -> /\ ota' = [o EXCEPT !.phase = "COMPLETE"]
                  /\ work' = TRUE
                  /\ Send(Complete("OK"))

(* handle_ota_chunk, up to the end of the flash write.  In delta mode      *)
(* chunks come in any order, to their own place; in full mode in sequence, *)
(* to the end of what is there.                                            *)
Write(addr, c) ==
    /\ staging' = Put(staging, addr, c.data)
    /\ rx' = [writing |-> TRUE, idx |-> c.idx, bytes |-> Size(c.data), delta |-> Delta(ota.s)]
    /\ Send(Silence)
    /\ UNCHANGED <<ota, work>>

DeltaChunk(c) ==
    /\ Delta(ota.s)
    /\ \/ c.idx >= Chunks(Size(ota.s.image)) /\ Reply(Ack("SIZE_ERR", ota.got))
       \/ c.idx \in ota.received /\ Reply(Ack("OK", ota.got))
       \/ /\ c.idx < Chunks(Size(ota.s.image)) /\ c.idx \notin ota.received
          /\ Reply(Ack("FLASH_ERR", ota.got)) \/ Write(c.idx * ChunkSize, c)

FullChunk(c) ==
    /\ ~Delta(ota.s)
    /\ \/ c.idx < ota.got /\ Reply(Ack("OK", ota.got))
       \/ c.idx > ota.got /\ Reply(Ack("CRC_ERR", ota.got))
       \/ /\ c.idx = ota.got
          /\ Reply(Ack("FLASH_ERR", c.idx)) \/ Write(ota.bytes, c)

Chunk(c) ==
    /\ Handler
    /\ \/ ota.phase # "RECEIVING" /\ Reply(Ack("NO_SESSION", 0))
       \/ ota.phase = "RECEIVING" /\ (DeltaChunk(c) \/ FullChunk(c))

(* The rest of it: count the chunk in whatever ota_state is by now, and go *)
(* on, or finish when the announced number is in.                          *)
AllInLate(o) == o.got > Cardinality(o.s.chunks)
AllIn(o) == o.got >= Cardinality(o.s.chunks)
Counted == [ota EXCEPT !.got = @ + 1, !.bytes = @ + rx.bytes,
                       !.received = IF rx.delta THEN @ \cup {rx.idx} ELSE @]

ChunkStored ==
    /\ Running /\ rx.writing
    /\ rx' = NoChunk
    /\ UNCHANGED staging
    /\ IF ~AllIn(Counted)
       THEN ota' = Counted /\ Send(Ack("OK", Counted.got)) /\ UNCHANGED work
       ELSE IF ~rx.delta /\ Counted.bytes # Size(Counted.s.image)
            THEN Fail(Counted, "SIZE_ERR")
            ELSE Validate(Counted)

(* handle_ota_abort on the Sidewalk thread and ota_abort on the shell's,   *)
(* which runs whenever the other waits.  Neither looks at what goes on.    *)
ForgetKeepWork == ota' = Fresh /\ UNCHANGED work
Forget == ota' = Fresh /\ work' = FALSE

Abort ==
    /\ Handler /\ ota.phase \in AbortDuring
    /\ Forget
    /\ Send(Silence)
    /\ UNCHANGED <<staging, rx>>

ShellAbort ==
    /\ Running /\ ota.phase # "IDLE"
    /\ (IF rx.writing THEN "WRITING" ELSE ota.phase) \in AbortDuring
    /\ Forget
    /\ Send(Silence)
    /\ UNCHANGED <<staging, rx>>

-----------------------------------------------------------------------------
(* Applying.  ota_apply and delta_apply read the size and the CRC from the *)
(* live ota_state between two flash operations, and an ABORT clears it     *)
(* while one runs; ota_resume_apply keeps what it read from the record.    *)
(* ap.image is what the operation that comes next was given: a record is   *)
(* passed by value before its page is erased.  The number of pages is a    *)
(* local variable of all three.                                            *)
Quiet == out' = Silence /\ UNCHANGED <<rx, fails>>
Step(p) == ap.pc = p /\ Quiet
ImageOf == IF ap.mode = "resume" THEN ap.image ELSE ota.s.image

(* prepare_for_ota_apply: no timer, no app callback from here on.          *)
StopApp == app' = FALSE
KeepApp == UNCHANGED app

(* ota_deferred_apply_handler, on the work queue 15 s after the COMPLETE.  *)
Begin(hook) ==
    /\ run = "up" /\ ap.mode = "none" /\ work /\ Quiet
    /\ work' = FALSE
    /\ UNCHANGED <<flash, run>>
    /\ IF ota.phase = "COMPLETE"
       THEN /\ hook
            /\ ota' = [ota EXCEPT !.phase = "APPLYING"]
            /\ ap' = [NotApplying EXCEPT
                        !.mode = IF Delta(ota.s) THEN "delta" ELSE "full",
                        !.pc = "mark", !.pages = Pages(Size(ota.s.image)),
                        !.image = ota.s.image]
       ELSE UNCHANGED <<ota, ap, app>>
ApplyStartHookless == Begin(KeepApp)
ApplyStart == Begin(StopApp)

(* write_metadata: erase the record's page, then write the record.         *)
Mark == /\ Step("mark")
        /\ meta' = NoRecord
        /\ ap' = [ap EXCEPT !.pc = "record"]
        /\ UNCHANGED <<primary, staging, ota, work, run, app>>

RecordAs(copied) ==
    /\ Step("record")
    /\ meta' = [present |-> TRUE, image |-> ap.image, copied |-> copied, pages |-> ap.pages]
    /\ ap' = [ap EXCEPT !.pc = "read"]
    /\ UNCHANGED <<primary, staging, ota, work, run, app>>
RecordAhead == RecordAs(ap.page + 1)
Record == RecordAs(ap.page)

(* The apply gives up: ota_apply and delta_apply leave the ERROR phase,    *)
(* ota_resume_apply lets app_start return without starting Sidewalk.       *)
GiveUp ==
    /\ ap' = NotApplying
    /\ IF ap.mode = "resume" THEN run' = "halt" /\ UNCHANGED ota
       ELSE ota' = [ota EXCEPT !.phase = "ERROR"] /\ UNCHANGED run

(* What a page is to hold: copied from staging, or in a live delta merged. *)
(* The size is unsigned: pages beyond the image ask for a huge read, which *)
(* the flash driver refuses.                                               *)
Left == Size(ImageOf) - ap.page * PageSize
PageData ==
    LET n == IF Left < PageSize THEN Left ELSE PageSize
    IN  Read(IF ap.mode = "delta" THEN Merged(ota) ELSE staging,
             ap.page * PageSize, n)

(* After a record: read the next page, or pass on to what lies behind the  *)
(* last.  Nothing waits here, so an ABORT in between is one that came      *)
(* while the record was written, and a power failure one in the operation  *)
(* that follows.                                                           *)
NextPage ==
    /\ Step("read")
    /\ \/ /\ ap.page < ap.pages /\ Left >= 0
          /\ ap' = [ap EXCEPT !.pc = "erase", !.buf = PageData]
          /\ UNCHANGED <<ota, run>>
       \/ ap.page < ap.pages /\ Left < 0 /\ GiveUp
       \/ /\ ap.page = ap.pages
          /\ ap' = [ap EXCEPT !.pc = "stale", !.image = ImageOf]
          /\ UNCHANGED <<ota, run>>
    /\ UNCHANGED <<flash, work, app>>

ErasePage ==
    /\ Step("erase")
    /\ primary' = EraseFrom(primary, ap.page, ap.page + 1)
    /\ ap' = [ap EXCEPT !.pc = "write"]
    /\ UNCHANGED <<staging, meta, ota, work, run, app>>

Written(n) == Put(primary, ap.page * PageSize, Read(ap.buf, 0, n))
WritePage ==
    /\ Step("write")
    /\ primary' = Written(Size(ap.buf))
    /\ ap' = [ap EXCEPT !.pc = "mark", !.page = @ + 1, !.buf = <<>>, !.image = ImageOf]
    /\ UNCHANGED <<staging, meta, ota, work, run, app>>

(* erase_stale_app_pages.                                                  *)
StaleFrom(p) ==
    /\ Step("stale")
    /\ primary' = EraseFrom(primary, p, AppPages)
    /\ ap' = [ap EXCEPT !.pc = "finish"]
    /\ UNCHANGED <<staging, meta, ota, work, run, app>>
EraseStaleSkipped == StaleFrom(AppPages)
EraseStale == StaleFrom(Pages(Size(ap.image)))

(* Everything RAM held is gone; flash stays.                               *)
Restart == /\ ota' = Fresh /\ rx' = NoChunk /\ work' = FALSE /\ ap' = NotApplying
           /\ run' = "boot" /\ app' = FALSE /\ out' = Silence

(* Check the magic, clear the record, reboot.                              *)
FinishWith(record) ==
    /\ ap.pc = "finish" /\ UNCHANGED <<primary, staging, fails>>
    /\ \/ primary[0] = Magic /\ meta' = record /\ Restart
       \/ primary[0] # Magic /\ GiveUp /\ out' = Silence /\ UNCHANGED <<meta, rx, work, app>>
FinishKeepRecord == FinishWith(meta)
Finish == FinishWith(NoRecord)

(* A flash operation of the apply reports an error, having done nothing.   *)
(* Progress records are written without looking at the result, so only     *)
(* the first one counts among them.                                        *)
Point == IF ap.pc \in {"mark", "record"} /\ ap.page = 0 THEN "first" ELSE ap.pc
Fault ==
    /\ ap.mode # "none" /\ Point \in {"first", "erase", "write"}
    /\ <<ap.mode, Point>> \in Faults
    /\ Quiet /\ GiveUp
    /\ UNCHANGED <<flash, work, app>>

-----------------------------------------------------------------------------
(* app_start with ota_boot_recovery_check: with a record, resume at the    *)
(* page it names; without one, look for an app and start Sidewalk.  The    *)
(* magic is the first thing in the image.                                  *)
Boot ==
    /\ run = "boot" /\ Quiet
    /\ \/ /\ meta.present
          /\ run' = "recover"
          /\ ap' = [mode |-> "resume", pc |-> "read", page |-> meta.copied,
                    pages |-> meta.pages, buf |-> <<>>, image |-> meta.image]
          /\ UNCHANGED app
       \/ /\ ~meta.present
          /\ run' = "up"
          /\ app' = (primary[0] = Magic)
          /\ UNCHANGED ap
    /\ UNCHANGED <<flash, ota, work>>

(* The supply drops, perhaps in the middle of a write.                     *)
PowerFail ==
    /\ fails < MaxFails /\ fails' = fails + 1
    /\ ap.mode # "none" => <<ap.mode, Point>> \in PowerFails
    /\ \/ ap.pc = "write" /\ \E n \in 0..Size(ap.buf) : primary' = Written(n)
       \/ ap.pc # "write" /\ UNCHANGED primary
    /\ Restart
    /\ UNCHANGED <<staging, meta>>

Apply == Mark \/ Record \/ NextPage \/ ErasePage \/ WritePage \/ EraseStale \/ Finish

Next == \/ \E s \in Sessions : Start(s)
        \/ \E c \in Messages : Chunk(c)
        \/ ChunkStored \/ Abort \/ ShellAbort
        \/ ApplyStart \/ Apply \/ Fault
        \/ Boot \/ PowerFail

(* The work queue's thread and the boot sequence run to their end: nothing *)
(* of higher priority in the firmware holds the processor for ever.        *)
Fairness == WF_vars(ApplyStart) /\ WF_vars(Apply) /\ WF_vars(Boot)
Spec == Init /\ [][Next]_vars /\ Fairness

-----------------------------------------------------------------------------
Phases == {"IDLE", "RECEIVING", "COMPLETE", "APPLYING", "ERROR"}
Images == {Factory} \cup {s.image : s \in Sessions}

(* Types and ranges; in particular no session counts more chunks than the  *)
(* cloud announced, and an apply is in progress exactly in its phases.     *)
TypeOK ==
    /\ DOMAIN primary = Unit /\ DOMAIN staging = Unit
    /\ meta.present \in BOOLEAN /\ meta.copied \in 0..meta.pages /\ meta.pages \in 0..AppPages
    /\ ota.phase \in Phases /\ ota.s \in Sessions \cup {NoSession}
    /\ ota.got \in 0..Cardinality(ota.s.chunks)
    /\ ota.received \subseteq 0..Chunks(Size(ota.s.image))
    /\ rx.writing => rx.bytes \in 1..ChunkSize /\ rx.delta \in BOOLEAN
    /\ work \in BOOLEAN /\ app \in BOOLEAN /\ fails \in 0..MaxFails
    /\ run \in {"boot", "recover", "up", "halt"}
    /\ ap.mode \in {"none", "full", "delta", "resume"} /\ ap.page \in 0..ap.pages
    /\ (ap.mode = "resume") = (run = "recover")

(* The platform only calls into an app partition that holds exactly one    *)
(* image, whole: the factory's, or one the cloud announced and whose       *)
(* signature, if it claims one, is good.  An update cut short by a power   *)
(* failure is carried to its end before the app is called again.           *)
BootsWholeImage ==
    app => \E im \in {Factory} \cup {s.image : s \in {x \in Sessions : Trusted(x)}} :
               primary = Flashed(im)

(* A record promises that the update can be completed from flash alone:    *)
(* the pages it counts as copied are in primary, the rest is in staging.   *)
(* A delta being applied has its rest in both partitions.                  *)
ResumeReady ==
    meta.present =>
        \A u \in DOMAIN meta.image :
            IF u \div PageSize < meta.copied THEN primary[u] = meta.image[u]
            ELSE ap.mode = "delta" \/ staging[u] = meta.image[u]

(* An image that passed validation is still that image when the apply      *)
(* starts 15 s later, whatever messages come in between.                   *)
ValidatedStays ==
    ota.phase = "COMPLETE" => Merged(ota) = ota.s.image /\ Trusted(ota.s)

(* The deferred apply is scheduled exactly while a validated image waits:  *)
(* an aborted session cannot be applied later, a waiting one cannot be     *)
(* forgotten.                                                              *)
DeferredArmed == work <=> ota.phase = "COMPLETE"

(* The app partition is only touched when the app is stopped and a record  *)
(* is in flash that will bring the update to its end after a restart.      *)
PrimaryWrittenUnderRecord == [][primary' # primary => ~app /\ meta.present]_vars

(* An image passes validation without the magic: it is put in place, whole *)
(* and no app, and its record stays.                                       *)
Stranded == meta.present /\ primary = Flashed(meta.image) /\ primary[0] # Magic

(* Every update whose record is written ends with the device running and   *)
(* the record gone, unless the image was no app.                           *)
RecoveryCompletes == meta.present ~> (run = "up" /\ ~meta.present) \/ Stranded

(* "Recovery in progress -- will reboot when done" (app.c:187): a boot     *)
(* that starts to recover does not end with neither app nor Sidewalk.      *)
RecoveryReboots == run # "halt"

(* It does so where the image it has put in place, whole, was no app: the  *)
(* record stays, and so does every later boot in recovery (app.c:183-190). *)
HaltsOnlyWithoutApp == run = "halt" => Stranded
=============================================================================
