---------------------------- MODULE EventBuffer ----------------------------
(***************************************************************************)
(* The ring of state snapshots in app_evse/event_buffer.c: a fixed array,  *)
(* the next write index and the number of valid entries.  There is no tail *)
(* variable; tail_index() deduces it, and is right only because trimming   *)
(* compacts the ring to index 0.                                           *)
(*                                                                         *)
(* A call is one action: the callers are the 500 ms timer job (add, peek)  *)
(* and the downlink handler (trim).                                        *)
(***************************************************************************)
EXTENDS Integers, Sequences

CONSTANTS Capacity,    (* EVENT_BUFFER_CAPACITY                            *)
          Timestamps,  (* device epoch seconds, and watermarks             *)
          Data,        (* the other fields of a snapshot, as one value     *)
          NoData       (* what memset leaves in them                       *)

ASSUME CapacityAssumption == Capacity \in Nat \ {0}
ASSUME TimestampAssumption == Timestamps \subseteq Nat
ASSUME NoDataAssumption == NoData \notin Data

VARIABLES buf,    (* buf[0..Capacity-1]                                    *)
          head,   (* next write index                                      *)
          count   (* valid entries                                         *)

vars == <<buf, head, count>>

Index    == 0..(Capacity - 1)
Snapshot == [timestamp : Timestamps, data : Data]
Blank    == [timestamp |-> 0, data |-> NoData]

(* Where the oldest entry is: index 0 until the ring is full.              *)
TailIndexAlwaysHead == head
TailIndex == IF count < Capacity THEN 0 ELSE head

(* The array slot of the i-th oldest entry, i from 0.                      *)
Slot(i) == (TailIndex + i) % Capacity

-----------------------------------------------------------------------------
(* Reading.  An empty ring answers nothing (false, or timestamp 0).        *)

PeekAt(i)  == buf[Slot(i)]
Newest     == buf[IF head = 0 THEN Capacity - 1 ELSE head - 1]
OldestTimestamp == IF count = 0 THEN 0 ELSE buf[TailIndex].timestamp
NewestTimestamp == IF count = 0 THEN 0 ELSE Newest.timestamp

-----------------------------------------------------------------------------
(* event_buffer_init: at boot, and on nothing else.                        *)
Cleared == /\ buf = [i \in Index |-> Blank]
           /\ head = 0
           /\ count = 0

Init == Cleared

Reset == /\ buf' = [i \in Index |-> Blank]
         /\ head' = 0
         /\ count' = 0

(* event_buffer_add: write at head, advance, and saturate the count.       *)
AddUnsaturated(s) ==
    /\ buf' = [buf EXCEPT ![head] = s]
    /\ head' = (head + 1) % Capacity
    /\ count' = count + 1
Add(s) ==
    /\ buf' = [buf EXCEPT ![head] = s]
    /\ head' = (head + 1) % Capacity
    /\ count' = IF count < Capacity THEN count + 1 ELSE count

(* The scan of event_buffer_trim: it walks from the oldest entry, counts   *)
(* what the watermark covers and stops at the first entry that is newer.   *)
ScanStrictlyOlder(w, n) ==
    /\ \A i \in 0..(n - 1) : PeekAt(i).timestamp < w
    /\ n < count => PeekAt(n).timestamp >= w
Scan(w, n) ==
    /\ \A i \in 0..(n - 1) : PeekAt(i).timestamp <= w
    /\ n < count => PeekAt(n).timestamp > w

(* Compaction: the n oldest entries go, the others move to index 0.        *)
CompactFromHead(n) ==
    /\ buf' = [j \in Index |-> IF j < count - n THEN buf[(n + j) % Capacity]
                                                ELSE buf[j]]
    /\ head' = count - n
    /\ count' = count - n
CompactKeepHead(n) ==
    /\ buf' = [j \in Index |-> IF j < count - n THEN PeekAt(n + j) ELSE buf[j]]
    /\ count' = count - n
    /\ UNCHANGED head
Compact(n) ==
    /\ buf' = [j \in Index |-> IF j < count - n THEN PeekAt(n + j) ELSE buf[j]]
    /\ head' = count - n
    /\ count' = count - n

Trim(w) ==
    \E n \in 0..count :
        /\ Scan(w, n)
        /\ \/ n = 0 /\ UNCHANGED vars
           \/ /\ n > 0 /\ n = count
              /\ head' = 0
              /\ count' = 0
              /\ UNCHANGED buf
           \/ n > 0 /\ n < count /\ Compact(n)

Next == \/ \E s \in Snapshot : Add(s)
        \/ \E w \in Timestamps : Trim(w)
        \/ Reset

Spec == Init /\ [][Next]_vars

-----------------------------------------------------------------------------
(* The indices stay inside the array and the count inside the capacity     *)
(* (event_buffer.c:12-14).                                                 *)
TypeOK == /\ buf \in [Index -> Snapshot \cup {Blank}]
          /\ head \in Index
          /\ count \in 0..Capacity

(* tail_index() (event_buffer.c:54-60) has no tail to read: what it        *)
(* returns is the oldest entry because a ring that is not full starts at   *)
(* index 0 and ends just before head.                                      *)
RingShape == count < Capacity => head = count

(* No slot a reader can reach still holds what memset put there: peek_at,  *)
(* the drain loop and trim only ever see snapshots that were added.        *)
LiveSlotsWritten == \A i \in 0..(count - 1) : PeekAt(i) \in Snapshot

(* get_latest and newest_timestamp step back from head, the drain loop     *)
(* counts up from the tail: both ends name the same entries.               *)
EndsAgree == count > 0 => /\ Newest = PeekAt(count - 1)
                          /\ NewestTimestamp = PeekAt(count - 1).timestamp
                          /\ OldestTimestamp = PeekAt(0).timestamp

(* The ring's contents, oldest first: what the abstract log calls log.     *)
Contents == [i \in 1..count |-> PeekAt(i - 1)]

Log == INSTANCE EventLog WITH log <- Contents

(* Every call does to the contents what event_buffer.h says it does: order *)
(* kept, nothing dropped but the oldest entry of a full ring and the       *)
(* acknowledged prefix, nothing invented.                                  *)
ImplementsLog == Log!Spec

(* The comment at event_buffer.c:68-73 rests the early exit of the scan on *)
(* increasing timestamps: with them, a trim leaves nothing at or before    *)
(* the watermark and drops nothing after it.                               *)
Sorted == \A i, j \in 0..(count - 1) :
             i <= j => PeekAt(i).timestamp <= PeekAt(j).timestamp

TrimIsExact ==
    [][\A w \in Timestamps :
          Trim(w) /\ Sorted =>
             {Contents'[i] : i \in 1..count'} =
                {Contents[i] : i \in {k \in 1..count : Contents[k].timestamp > w}}
      ]_vars
=============================================================================
