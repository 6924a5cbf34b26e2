------------------------------ MODULE EventLog ------------------------------
(***************************************************************************)
(* What event_buffer.h promises its callers, with no ring, no head and no  *)
(* indices: a time-ordered log that keeps the newest Capacity snapshots    *)
(* and forgets, on an acknowledgement, every leading snapshot the          *)
(* watermark covers.  EventBuffer is shown to implement this module.       *)
(***************************************************************************)
EXTENDS Naturals, Sequences

CONSTANTS Capacity,    (* EVENT_BUFFER_CAPACITY                            *)
          Timestamps,  (* the timestamps and watermarks considered         *)
          Data         (* everything else a snapshot carries               *)

VARIABLE log           (* the retained snapshots, oldest first             *)

Snapshot == [timestamp : Timestamps, data : Data]

TypeOK == log \in Seq(Snapshot) /\ Len(log) <= Capacity

Init == log = <<>>

(* A new snapshot goes to the end; a full log gives up its oldest one.     *)
Add(s) == log' = IF Len(log) < Capacity THEN Append(log, s)
                                        ELSE Append(Tail(log), s)

(* n is the length of the longest prefix of l the watermark w covers.      *)
AckedPrefix(l, w, n) ==
    /\ n \in 0..Len(l)
    /\ \A i \in 1..n : l[i].timestamp <= w
    /\ n < Len(l) => l[n + 1].timestamp > w

Trim(w) == \E n \in 0..Len(log) :
              /\ AckedPrefix(log, w, n)
              /\ log' = [i \in 1..(Len(log) - n) |-> log[n + i]]

(* The device restarts: the log is RAM only.                               *)
Reset == log' = <<>>

Next == \/ \E s \in Snapshot : Add(s)
        \/ \E w \in Timestamps : Trim(w)
        \/ Reset

Spec == Init /\ [][Next]_log
=============================================================================
