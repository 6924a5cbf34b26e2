------------------------- MODULE EventBufferProofs -------------------------
(***************************************************************************)
(* The ring of event_buffer.c is correct for every capacity, every set of  *)
(* timestamps and every kind of snapshot: its invariants hold, and it      *)
(* implements the abstract log.                                            *)
(*                                                                         *)
(* The argument: RingShape fixes where the oldest entry is, so each        *)
(* operation can be described by what it does to PeekAt, the i-th oldest   *)
(* entry (lemmas AddPeek and CompactPeek).  Everything else follows from   *)
(* those two descriptions without looking at an index again.               *)
(***************************************************************************)
EXTENDS EventBuffer, SequenceTheorems, TLAPS

(* The inductive invariant: types, the shape of the ring, written slots.   *)
IInv == TypeOK /\ RingShape /\ LiveSlotsWritten

-----------------------------------------------------------------------------
(* Index arithmetic: one wrap at most, since both terms are below Capacity.*)
LEMMA WrapOnce ==
    ASSUME NEW x \in 0..(2 * Capacity - 1)
    PROVE  x % Capacity = IF x < Capacity THEN x ELSE x - Capacity
  BY CapacityAssumption, SMT

(* What event_buffer_add does, read from the oldest end: a ring with room  *)
(* keeps every entry in place, a full one shifts all of them by one.       *)
LEMMA AddPeek ==
    ASSUME TypeOK, RingShape, NEW s \in Snapshot, Add(s)
    PROVE  /\ TypeOK' /\ RingShape'
           /\ count < Capacity =>
                /\ count' = count + 1
                /\ \A i \in 0..count :
                     PeekAt(i)' = IF i = count THEN s ELSE PeekAt(i)
           /\ count = Capacity =>
                /\ count' = count
                /\ \A i \in 0..(Capacity - 1) :
                     PeekAt(i)' = IF i = Capacity - 1 THEN s ELSE PeekAt(i + 1)
  <1>0. /\ buf' = [buf EXCEPT ![head] = s]
        /\ head' = IF head + 1 < Capacity THEN head + 1 ELSE 0
        /\ head \in 0..(Capacity - 1)
        /\ count \in 0..Capacity
    <2>1. head + 1 \in 0..(2 * Capacity - 1)
      BY CapacityAssumption DEF TypeOK, Index
    <2>2. PICK x \in 0..(2 * Capacity - 1) : x = head + 1
      BY <2>1
    <2>3. x % Capacity = IF x < Capacity THEN x ELSE x - Capacity
      BY WrapOnce
    <2>4. (head + 1) % Capacity = IF head + 1 < Capacity THEN head + 1 ELSE 0
      BY <2>2, <2>3, CapacityAssumption DEF TypeOK, Index
    <2>5. QED
      BY <2>4 DEF Add, TypeOK, Index
  <1>1. TypeOK'
    BY <1>0, CapacityAssumption DEF Add, TypeOK, Index
  <1>2. RingShape'
    BY <1>0, CapacityAssumption DEF Add, RingShape, TypeOK
  <1>3. ASSUME count < Capacity
        PROVE  /\ count' = count + 1
               /\ \A i \in 0..count :
                    PeekAt(i)' = IF i = count THEN s ELSE PeekAt(i)
    <2>1. count' = count + 1 /\ head = count
      BY <1>3, <1>0 DEF Add, RingShape
    <2>2. TailIndex = 0 /\ TailIndex' = 0
      BY <1>3, <2>1, <1>0, CapacityAssumption DEF TailIndex
    <2>3. ASSUME NEW i \in 0..count
          PROVE  PeekAt(i)' = IF i = count THEN s ELSE PeekAt(i)
      <3>1. i \in 0..(Capacity - 1)
        BY <1>3, <1>0, CapacityAssumption
      <3>2. i % Capacity = i
        BY <3>1, WrapOnce, CapacityAssumption
      <3>3. Slot(i) = i /\ Slot(i)' = i
        BY <2>2, <3>2, <3>1 DEF Slot
      <3>4. PeekAt(i)' = buf'[i] /\ PeekAt(i) = buf[i]
        BY <3>3 DEF PeekAt
      <3>5. QED
        BY <3>4, <3>1, <1>0, <2>1 DEF TypeOK, Index
    <2>4. QED
      BY <2>1, <2>3
  <1>4. ASSUME count = Capacity
        PROVE  /\ count' = count
               /\ \A i \in 0..(Capacity - 1) :
                    PeekAt(i)' = IF i = Capacity - 1 THEN s ELSE PeekAt(i + 1)
    <2>1. count' = count
      BY <1>4, <1>0, CapacityAssumption DEF Add
    <2>2. TailIndex = head /\ TailIndex' = head'
      BY <1>4, <2>1, CapacityAssumption DEF TailIndex
    <2>3. ASSUME NEW i \in 0..(Capacity - 1)
          PROVE  PeekAt(i)' = IF i = Capacity - 1 THEN s ELSE PeekAt(i + 1)
      <3>1. /\ head' + i \in 0..(2 * Capacity - 1)
            /\ head + i + 1 \in 0..(2 * Capacity - 1)
        BY <1>0, CapacityAssumption
      <3>2. Slot(i)' = IF head' + i < Capacity THEN head' + i
                                               ELSE head' + i - Capacity
        <4>1. PICK x \in 0..(2 * Capacity - 1) : x = head' + i
          BY <3>1
        <4>2. x % Capacity = IF x < Capacity THEN x ELSE x - Capacity
          BY WrapOnce
        <4>3. QED
          BY <2>2, <4>1, <4>2, <1>0, CapacityAssumption DEF Slot
      <3>3. Slot(i + 1) = IF head + i + 1 < Capacity THEN head + i + 1
                                                     ELSE head + i + 1 - Capacity
        <4>1. Slot(i + 1) = (head + i + 1) % Capacity
          BY <2>2, <1>0 DEF Slot
        <4>2. PICK x \in 0..(2 * Capacity - 1) : x = head + i + 1
          BY <3>1
        <4>3. x % Capacity = IF x < Capacity THEN x ELSE x - Capacity
          BY WrapOnce
        <4>4. QED
          BY <4>1, <4>2, <4>3, <1>0, CapacityAssumption
      <3>4. CASE i = Capacity - 1
        <4>1. Slot(i)' = head
          BY <3>2, <3>4, <1>0, CapacityAssumption
        <4>2. QED
          BY <4>1, <1>0, <3>4 DEF PeekAt, TypeOK, Index
      <3>5. CASE i # Capacity - 1
        <4>1. /\ Slot(i)' = Slot(i + 1)
              /\ Slot(i + 1) # head
              /\ Slot(i + 1) \in 0..(Capacity - 1)
          BY <3>2, <3>3, <3>5, <1>0, CapacityAssumption
        <4>2. buf'[Slot(i + 1)] = buf[Slot(i + 1)]
          BY <4>1, <1>0 DEF TypeOK, Index
        <4>3. QED
          BY <4>1, <4>2, <3>5 DEF PeekAt
      <3>6. QED
        BY <3>4, <3>5
    <2>4. QED
      BY <2>1, <2>3
  <1>5. QED
    BY <1>1, <1>2, <1>3, <1>4

(* What compaction does: the entry n places up becomes the j-th oldest.    *)
LEMMA CompactPeek ==
    ASSUME TypeOK, NEW n \in 0..count, n > 0, n < count, Compact(n),
           LiveSlotsWritten
    PROVE  /\ TypeOK' /\ RingShape'
           /\ count' = count - n
           /\ \A j \in 0..(count - n - 1) : PeekAt(j)' = PeekAt(n + j)
  <1>1. /\ count \in 0..Capacity /\ count' = count - n /\ head' = count - n
        /\ count' \in 1..(Capacity - 1)
    BY CapacityAssumption DEF Compact, TypeOK
  <1>2. RingShape'
    BY <1>1 DEF RingShape
  <1>3. ASSUME NEW j \in 0..(count - n - 1)
        PROVE  PeekAt(n + j) \in Snapshot
    BY <1>1, <1>3 DEF LiveSlotsWritten
  <1>4. ASSUME NEW j \in Index
        PROVE  buf'[j] \in Snapshot \cup {Blank}
    BY <1>1, <1>3, CapacityAssumption DEF Compact, TypeOK, Index
  <1>5. TypeOK'
    BY <1>1, <1>4, CapacityAssumption DEF Compact, TypeOK, Index
  <1>6. ASSUME NEW j \in 0..(count - n - 1)
        PROVE  PeekAt(j)' = PeekAt(n + j)
    <2>1. TailIndex' = 0
      BY <1>1, CapacityAssumption DEF TailIndex
    <2>2. j \in 0..(Capacity - 1) /\ j < count - n
      BY <1>1, CapacityAssumption
    <2>3. Slot(j)' = j
      BY <2>1, <2>2, WrapOnce, CapacityAssumption DEF Slot
    <2>4. QED
      BY <2>2, <2>3 DEF PeekAt, Compact, Index
  <1>7. QED
    BY <1>1, <1>2, <1>5, <1>6

-----------------------------------------------------------------------------
LEMMA InitIInv == Init => IInv
  <1> SUFFICES ASSUME Init PROVE IInv
    OBVIOUS
  <1>1. TypeOK
    BY CapacityAssumption DEF Init, Cleared, TypeOK, Index
  <1>2. RingShape /\ LiveSlotsWritten
    BY DEF Init, Cleared, RingShape, LiveSlotsWritten
  <1>3. QED
    BY <1>1, <1>2 DEF IInv

LEMMA NextIInv == IInv /\ [Next]_vars => IInv'
  <1> SUFFICES ASSUME IInv, [Next]_vars PROVE IInv'
    OBVIOUS
  <1> USE DEF IInv
  <1>1. ASSUME NEW s \in Snapshot, Add(s) PROVE IInv'
    <2>1. TypeOK' /\ RingShape'
      BY <1>1, AddPeek
    <2>2. CASE count < Capacity
      <3>1. ASSUME NEW i \in 0..(count' - 1) PROVE PeekAt(i)' \in Snapshot
        BY <1>1, <2>2, AddPeek, CapacityAssumption DEF LiveSlotsWritten, TypeOK
      <3>2. QED
        BY <2>1, <3>1 DEF LiveSlotsWritten
    <2>3. CASE count = Capacity
      <3>1. ASSUME NEW i \in 0..(count' - 1) PROVE PeekAt(i)' \in Snapshot
        BY <1>1, <2>3, AddPeek, CapacityAssumption DEF LiveSlotsWritten, TypeOK
      <3>2. QED
        BY <2>1, <3>1 DEF LiveSlotsWritten
    <2>4. QED
      BY <2>2, <2>3, CapacityAssumption DEF TypeOK
  <1>2. ASSUME NEW w \in Timestamps, Trim(w) PROVE IInv'
    <2>1. PICK n \in 0..count :
             \/ n = 0 /\ UNCHANGED vars
             \/ n > 0 /\ n = count /\ head' = 0 /\ count' = 0 /\ UNCHANGED buf
             \/ n > 0 /\ n < count /\ Compact(n)
      BY <1>2 DEF Trim
    <2>2. CASE n = 0 /\ UNCHANGED vars
      BY <2>2 DEF vars, TypeOK, RingShape, LiveSlotsWritten, PeekAt, Slot, TailIndex
    <2>3. CASE n > 0 /\ n = count /\ head' = 0 /\ count' = 0 /\ UNCHANGED buf
      BY <2>3, CapacityAssumption DEF TypeOK, RingShape, LiveSlotsWritten, Index
    <2>4. CASE n > 0 /\ n < count /\ Compact(n)
      <3>1. /\ TypeOK' /\ RingShape' /\ count' = count - n
            /\ \A j \in 0..(count - n - 1) : PeekAt(j)' = PeekAt(n + j)
        BY <2>4, CompactPeek
      <3>2. \A j \in 0..(count - n - 1) : PeekAt(n + j) \in Snapshot
        BY <2>4 DEF LiveSlotsWritten, TypeOK
      <3>3. QED
        BY <3>1, <3>2 DEF LiveSlotsWritten
    <2>5. QED
      BY <2>1, <2>2, <2>3, <2>4
  <1>3. ASSUME Reset PROVE IInv'
    BY <1>3, CapacityAssumption
       DEF Reset, TypeOK, RingShape, LiveSlotsWritten, Index
  <1>4. CASE UNCHANGED vars
    BY <1>4 DEF vars, TypeOK, RingShape, LiveSlotsWritten, PeekAt, Slot, TailIndex
  <1>5. QED
    BY <1>1, <1>2, <1>3, <1>4 DEF Next

(* The inductive invariant holds of every reachable ring.                  *)
LEMMA Invariance == Spec => []IInv
  <1>1. QED
    BY InitIInv, NextIInv, PTL DEF Spec

(* The ring never indexes outside its array or counts past its capacity    *)
(* (event_buffer.c:23-36, 62-122).                                         *)
THEOREM TypeCorrect == Spec => []TypeOK
  <1>1. IInv => TypeOK
    BY DEF IInv
  <1>2. QED
    BY Invariance, <1>1, PTL

(* tail_index() is right: a ring that is not full starts at index 0 and    *)
(* ends before head (event_buffer.c:54-60).                                *)
THEOREM RingShapeCorrect == Spec => []RingShape
  <1>1. IInv => RingShape
    BY DEF IInv
  <1>2. QED
    BY Invariance, <1>1, PTL

(* peek_at, trim and the drain loop never read a slot nobody wrote         *)
(* (event_buffer.c:124-134).                                               *)
THEOREM ReadsAreWritten == Spec => []LiveSlotsWritten
  <1>1. IInv => LiveSlotsWritten
    BY DEF IInv
  <1>2. QED
    BY Invariance, <1>1, PTL

(* get_latest steps back from head where the drain loop counts up from the *)
(* tail, and the two oldest-entry readers do not wrap at all: under the    *)
(* ring's shape they name the entries PeekAt does, for every capacity.     *)
THEOREM EndsAgreeCorrect == Spec => []EndsAgree
  <1>1. ASSUME IInv, count > 0
        PROVE  /\ Slot(0) = TailIndex
               /\ Slot(count - 1) = IF head = 0 THEN Capacity - 1 ELSE head - 1
    <2>1. /\ head \in 0..(Capacity - 1) /\ count \in 1..Capacity
          /\ count < Capacity => head = count
      BY <1>1, CapacityAssumption DEF IInv, TypeOK, RingShape, Index
    <2>2. TailIndex \in 0..(Capacity - 1)
      BY <2>1, CapacityAssumption DEF TailIndex
    <2>3. PICK x \in 0..(2 * Capacity - 1) : x = TailIndex
      BY <2>2, CapacityAssumption
    <2>4. PICK y \in 0..(2 * Capacity - 1) : y = TailIndex + (count - 1)
      BY <2>1, <2>2, CapacityAssumption
    <2>5. x % Capacity = IF x < Capacity THEN x ELSE x - Capacity
      BY WrapOnce
    <2>6. y % Capacity = IF y < Capacity THEN y ELSE y - Capacity
      BY WrapOnce
    <2>7. Slot(0) = TailIndex
      BY <2>2, <2>3, <2>5, CapacityAssumption DEF Slot
    <2>8. Slot(count - 1) = y % Capacity
      BY <2>4 DEF Slot
    <2>9. CASE count < Capacity
      BY <2>1, <2>4, <2>6, <2>7, <2>8, <2>9, CapacityAssumption DEF TailIndex
    <2>10. CASE count = Capacity
      BY <2>1, <2>4, <2>6, <2>7, <2>8, <2>10, CapacityAssumption DEF TailIndex
    <2>11. QED
      BY <2>1, <2>9, <2>10, CapacityAssumption
  <1>2. IInv => EndsAgree
    BY <1>1 DEF EndsAgree, Newest, NewestTimestamp, OldestTimestamp, PeekAt
  <1>3. QED
    BY <1>2, Invariance, PTL

-----------------------------------------------------------------------------
(* Refinement.  Under the invariant the contents are a sequence of count   *)
(* snapshots, so the abstract actions can be compared entry by entry.      *)
LEMMA FunctionIsASeq ==
    ASSUME NEW S, NEW n \in Nat, NEW F,
           F = [i \in 1..n |-> F[i]], \A i \in 1..n : F[i] \in S
    PROVE  F \in Seq(S) /\ Len(F) = n
  <1>1. F \in [1..n -> S] /\ DOMAIN F = 1..n
    OBVIOUS
  <1>2. F \in Seq(S)
    BY <1>1, SeqDef
  <1>3. QED
    BY <1>1, <1>2, LenProperties

LEMMA ContentsIsASeq ==
    ASSUME IInv
    PROVE  /\ Contents \in Seq(Snapshot)
           /\ Len(Contents) = count
           /\ \A i \in 1..count : Contents[i] = PeekAt(i - 1)
  <1>1. count \in Nat
    BY CapacityAssumption DEF IInv, TypeOK
  <1>2. \A i \in 1..count : PeekAt(i - 1) \in Snapshot
    BY <1>1 DEF IInv, LiveSlotsWritten
  <1>3. \A i \in 1..count : Contents[i] = PeekAt(i - 1)
    BY DEF Contents
  <1>4. Contents = [i \in 1..count |-> Contents[i]]
    BY DEF Contents
  <1>5. QED
    BY <1>1, <1>2, <1>3, <1>4, FunctionIsASeq

(* An add on the ring is an add on the log.                                *)
LEMMA AddRefines ==
    ASSUME IInv, IInv', NEW s \in Snapshot, Add(s)
    PROVE  Log!Add(s)
  <1>1. /\ Contents \in Seq(Snapshot) /\ Len(Contents) = count
        /\ \A i \in 1..count : Contents[i] = PeekAt(i - 1)
    BY ContentsIsASeq
  <1>2. /\ Contents' \in Seq(Snapshot) /\ Len(Contents') = count'
        /\ \A i \in 1..count' : Contents'[i] = PeekAt(i - 1)'
    <2>1. count' \in Nat
      BY CapacityAssumption DEF IInv, TypeOK
    <2>2. \A i \in 1..count' : PeekAt(i - 1)' \in Snapshot
      <3>1. LiveSlotsWritten'
        BY DEF IInv
      <3>2. \A j \in 0..(count' - 1) : PeekAt(j)' \in Snapshot
        BY <3>1 DEF LiveSlotsWritten
      <3>3. \A n \in Nat : \A i \in 1..n : i - 1 \in 0..(n - 1)
        OBVIOUS
      <3>4. QED
        BY <2>1, <3>2, <3>3
    <2>3. \A i \in 1..count' : Contents'[i] = PeekAt(i - 1)'
      BY DEF Contents
    <2>4. Contents' = [i \in 1..count' |-> Contents'[i]]
      BY DEF Contents
    <2>5. QED
      BY <2>1, <2>2, <2>3, <2>4, FunctionIsASeq
  <1>3. count \in 0..Capacity /\ count' \in 0..Capacity
    BY DEF IInv, TypeOK
  <1>4. CASE count < Capacity
    <2>1. /\ count' = count + 1
          /\ \A i \in 0..count : PeekAt(i)' = IF i = count THEN s ELSE PeekAt(i)
      BY <1>4, AddPeek DEF IInv
    <2>2. Append(Contents, s) \in Seq(Snapshot)
      BY <1>1, AppendProperties
    <2>3. Len(Append(Contents, s)) = Len(Contents')
      BY <1>1, <1>2, <2>1, AppendProperties
    <2>4. ASSUME NEW i \in 1..Len(Contents')
          PROVE  Contents'[i] = Append(Contents, s)[i]
      BY <1>1, <1>2, <1>3, <2>1, AppendProperties
    <2>5. Contents' = Append(Contents, s)
      BY <1>2, <2>2, <2>3, <2>4, SeqEqual
    <2>6. QED
      BY <1>1, <1>4, <2>5 DEF Log!Add
  <1>5. CASE count = Capacity
    <2> DEFINE rest == Tail(Contents)
    <2>1. /\ count' = count
          /\ \A i \in 0..(Capacity - 1) :
               PeekAt(i)' = IF i = Capacity - 1 THEN s ELSE PeekAt(i + 1)
      BY <1>5, AddPeek DEF IInv
    <2>2. Contents # <<>>
      BY <1>1, <1>5, CapacityAssumption, EmptySeq
    <2>3. /\ rest \in Seq(Snapshot) /\ Len(rest) = count - 1
          /\ \A i \in 1..(count - 1) : rest[i] = Contents[i + 1]
      BY <1>1, <2>2, HeadTailProperties
    <2> HIDE DEF rest
    <2>4. /\ Append(rest, s) \in Seq(Snapshot)
          /\ Len(Append(rest, s)) = count
          /\ \A i \in 1..(count - 1) : Append(rest, s)[i] = rest[i]
          /\ Append(rest, s)[count] = s
      BY <1>3, <2>3, AppendProperties
    <2>5. ASSUME NEW i \in 1..Len(Contents')
          PROVE  Contents'[i] = Append(rest, s)[i]
      <3>1. i \in 1..count /\ i - 1 \in 0..(Capacity - 1)
        BY <1>2, <1>3, <1>5, <2>1
      <3>2. Contents'[i] = IF i = count THEN s ELSE PeekAt(i)
        BY <3>1, <1>2, <1>3, <1>5, <2>1
      <3>3. CASE i = count
        BY <3>2, <3>3, <2>4
      <3>4. CASE i # count
        <4>1. i \in 1..(count - 1) /\ i + 1 \in 1..count
          BY <3>1, <3>4, <1>3
        <4>2. Append(rest, s)[i] = Contents[i + 1]
          BY <4>1, <2>3, <2>4
        <4>3. Contents[i + 1] = PeekAt(i)
          BY <4>1, <1>1, <1>3
        <4>4. QED
          BY <3>2, <3>4, <4>2, <4>3
      <3>5. QED
        BY <3>3, <3>4
    <2>6. Contents' = Append(rest, s)
      BY <1>2, <2>1, <2>4, <2>5, SeqEqual
    <2>7. QED
      BY <1>1, <1>5, <2>6 DEF Log!Add, rest
  <1>6. QED
    BY <1>3, <1>4, <1>5, CapacityAssumption

(* A trim on the ring is a trim on the log, whichever branch it takes.     *)
LEMMA TrimRefines ==
    ASSUME IInv, IInv', NEW w \in Timestamps, Trim(w)
    PROVE  Log!Trim(w)
  <1>1. /\ Contents \in Seq(Snapshot) /\ Len(Contents) = count
        /\ \A i \in 1..count : Contents[i] = PeekAt(i - 1)
    BY ContentsIsASeq
  <1>2. count \in 0..Capacity
    BY DEF IInv, TypeOK
  <1>3. PICK n \in 0..count :
           /\ Scan(w, n)
           /\ \/ n = 0 /\ UNCHANGED vars
              \/ n > 0 /\ n = count /\ head' = 0 /\ count' = 0 /\ UNCHANGED buf
              \/ n > 0 /\ n < count /\ Compact(n)
    BY DEF Trim
  <1>4. Log!AckedPrefix(Contents, w, n)
    <2>1. ASSUME NEW i \in 1..n PROVE Contents[i].timestamp <= w
      <3>1. i - 1 \in 0..(n - 1) /\ i \in 1..count
        BY <1>2
      <3>2. QED
        BY <3>1, <1>1, <1>3 DEF Scan
    <2>2. n < count => Contents[n + 1].timestamp > w
      <3>1. n < count => n + 1 \in 1..count
        BY <1>2
      <3>2. n < count => Contents[n + 1] = PeekAt(n)
        BY <3>1, <1>1, <1>2
      <3>3. QED
        BY <3>2, <1>3 DEF Scan
    <2>3. QED
      BY <1>1, <2>1, <2>2 DEF Log!AckedPrefix
  <1>5. /\ count' = count - n
        /\ \A j \in 0..(count - n - 1) : PeekAt(j)' = PeekAt(n + j)
    <2>1. CASE n = 0 /\ UNCHANGED vars
      BY <2>1, <1>2 DEF vars, PeekAt, Slot, TailIndex
    <2>2. CASE n > 0 /\ n = count /\ head' = 0 /\ count' = 0 /\ UNCHANGED buf
      BY <2>2, <1>2
    <2>3. CASE n > 0 /\ n < count /\ Compact(n)
      BY <2>3, CompactPeek DEF IInv
    <2>4. QED
      BY <1>3, <2>1, <2>2, <2>3
  <1>6. Contents' = [i \in 1..(Len(Contents) - n) |-> Contents[n + i]]
    <2>1. ASSUME NEW i \in 1..(count - n)
          PROVE  PeekAt(i - 1)' = Contents[n + i]
      <3>1. i - 1 \in 0..(count - n - 1) /\ n + i \in 1..count
        BY <1>2
      <3>2. PeekAt(i - 1)' = PeekAt(n + (i - 1))
        BY <3>1, <1>5
      <3>3. Contents[n + i] = PeekAt(n + i - 1)
        BY <3>1, <1>1
      <3>4. n + (i - 1) = n + i - 1
        BY <1>2
      <3>5. QED
        BY <3>2, <3>3, <3>4
    <2>2. Contents' = [i \in 1..count' |-> PeekAt(i - 1)']
      BY DEF Contents
    <2>3. QED
      BY <1>1, <1>5, <2>1, <2>2
  <1>7. QED
    BY <1>1, <1>4, <1>6 DEF Log!Trim

(* The ring implements the log: event_buffer_add and event_buffer_trim     *)
(* keep order, lose nothing but the oldest entry of a full ring and the    *)
(* acknowledged prefix, and invent nothing, at every capacity.             *)
THEOREM RingImplementsLog == Spec => ImplementsLog
  <1>1. Init => Log!Init
    BY DEF Init, Cleared, Contents, Log!Init
  <1>2. IInv /\ IInv' /\ [Next]_vars => [Log!Next]_Contents
    <2> SUFFICES ASSUME IInv, IInv', [Next]_vars PROVE [Log!Next]_Contents
      OBVIOUS
    <2>1. ASSUME NEW s \in Snapshot, Add(s) PROVE Log!Next
      BY <2>1, AddRefines DEF Log!Next, Log!Snapshot, Snapshot
    <2>2. ASSUME NEW w \in Timestamps, Trim(w) PROVE Log!Next
      BY <2>2, TrimRefines DEF Log!Next
    <2>3. ASSUME Reset PROVE Log!Next
      BY <2>3 DEF Reset, Contents, Log!Next, Log!Reset
    <2>4. CASE UNCHANGED vars
      BY <2>4 DEF vars, Contents, PeekAt, Slot, TailIndex
    <2>5. QED
      BY <2>1, <2>2, <2>3, <2>4 DEF Next
  <1>3. QED
    BY <1>1, <1>2, Invariance, PTL DEF Spec, ImplementsLog, Log!Spec
(* In a ring whose timestamps do not decrease, a trim keeps exactly the    *)
(* entries the watermark does not cover (event_buffer.c:68-73): what the   *)
(* scan skipped is covered, and what it stopped at is the least of the     *)
(* rest, so the early exit overlooks nothing.                              *)
THEOREM TrimIsExactCorrect == Spec => TrimIsExact
  <1>1. ASSUME IInv, IInv', NEW w \in Timestamps, Trim(w), Sorted
        PROVE  {Contents'[i] : i \in 1..count'} =
                  {Contents[i] : i \in {k \in 1..count : Contents[k].timestamp > w}}
    <2>1. /\ Contents \in Seq(Snapshot) /\ Len(Contents) = count
          /\ \A i \in 1..count : Contents[i] = PeekAt(i - 1)
      BY <1>1, ContentsIsASeq
    <2>2. count \in Nat /\ count' \in Nat
      BY <1>1, CapacityAssumption DEF IInv, TypeOK
    <2>3. Log!Trim(w)
      BY <1>1, TrimRefines
    <2>4. PICK n \in 0..count :
             /\ Log!AckedPrefix(Contents, w, n)
             /\ Contents' = [i \in 1..(count - n) |-> Contents[n + i]]
      BY <2>1, <2>3 DEF Log!Trim
    <2>5. count' = count - n
      <3>1. DOMAIN Contents' = 1..count'
        BY DEF Contents
      <3>2. 1..count' = 1..(count - n)
        BY <2>4, <3>1
      <3>3. QED
        BY <2>2, <3>2
    <2>6. \A i \in 1..n : Contents[i].timestamp <= w
      BY <2>1, <2>4 DEF Log!AckedPrefix
    <2>7. \A i \in 1..count : Contents[i].timestamp \in Nat
      <3>1. \A i \in 1..count : Contents[i] \in Snapshot
        BY <2>1
      <3>2. QED
        BY <3>1, TimestampAssumption DEF Snapshot
    <2>8. \A i \in (n + 1)..count : Contents[i].timestamp > w
      <3>1. SUFFICES ASSUME NEW i \in (n + 1)..count PROVE Contents[i].timestamp > w
        OBVIOUS
      <3>2. n + 1 \in 1..count /\ i \in 1..count /\ n < count
        BY <2>2
      <3>3. Contents[n + 1].timestamp > w
        BY <2>1, <2>4, <3>2 DEF Log!AckedPrefix
      <3>4. n \in 0..(count - 1) /\ i - 1 \in 0..(count - 1) /\ n <= i - 1 /\ n + 1 - 1 = n
        BY <2>2
      <3>5. PeekAt(n).timestamp <= PeekAt(i - 1).timestamp
        BY <1>1, <3>4 DEF Sorted
      <3>6. Contents[n + 1].timestamp <= Contents[i].timestamp
        BY <2>1, <3>2, <3>4, <3>5
      <3>7. w \in Nat
        BY TimestampAssumption
      <3> QED
        BY <2>7, <3>2, <3>3, <3>6, <3>7
    <2>9. {k \in 1..count : Contents[k].timestamp > w} = (n + 1)..count
      <3>1. w \in Nat
        BY TimestampAssumption
      <3>2. \A k \in 1..count : k \in 1..n \/ k \in (n + 1)..count
        BY <2>2
      <3>3. \A k \in 1..n : k \in 1..count /\ ~(Contents[k].timestamp > w)
        BY <2>2, <2>6, <2>7, <3>1
      <3>4. \A k \in (n + 1)..count : k \in 1..count
        BY <2>2
      <3> QED
        BY <2>8, <3>2, <3>3, <3>4
    <2>10. \A i \in 1..count' : Contents'[i] = Contents[n + i] /\ n + i \in (n + 1)..count
      BY <2>2, <2>4, <2>5
    <2>11. \A k \in (n + 1)..count : k - n \in 1..count' /\ n + (k - n) = k
      BY <2>2, <2>5
    <2> QED
      BY <2>9, <2>10, <2>11
  <1>2. IInv /\ IInv' => [\A w \in Timestamps :
                            Trim(w) /\ Sorted =>
                               {Contents'[i] : i \in 1..count'} =
                                  {Contents[i] : i \in {k \in 1..count :
                                                          Contents[k].timestamp > w}}]_vars
    BY <1>1
  <1>3. QED
    BY <1>2, Invariance, PTL DEF TrimIsExact
=============================================================================
