-------------------------- MODULE TelemetryProofs ---------------------------
(***************************************************************************)
(* The drain passes no event unsent, for every capacity of the buffer and  *)
(* any number of events, losses, repetitions, restarts and trims preempted *)
(* by an add, while entries have stamps of their own: not two events of    *)
(* one second, nor those from before the first sync, all stamped 0.        *)
(*                                                                         *)
(* The argument: the entry the cursor was counted from is the head of the  *)
(* ring or has left it, and when a trim that was cut into brings entries   *)
(* back, they are accounted for as those of the ring are (Accounted).      *)
(***************************************************************************)
EXTENDS Telemetry, FiniteSetTheorems, TLAPS

Entries == [timestamp : Stamps, data : Ids]

TypeInv ==
    /\ now \in 1..MaxNow /\ lag \in 0..MaxNow /\ (synced => lag < now)
    /\ synced \in BOOLEAN /\ clash \in BOOLEAN
    /\ ring \in Seq(Entries) /\ Len(ring) <= Capacity
    /\ trimming \in [on : BOOLEAN, cut : BOOLEAN, keep : Seq(Entries)]
    /\ Len(trimming.keep) <= Capacity
    /\ cursor \in 0..Capacity /\ oldest \in Stamps
    /\ sent \subseteq Ids /\ events \in 0..MaxEvents
    /\ IsFiniteSet(up) /\ Cardinality(up) <= MaxUp
    /\ down \subseteq 1..now

(* No second is shared; the stamp o the cursor belongs to is the head's or *)
(* nobody's; and what lies behind the cursor c has been sent.              *)
Distinct(r) ==
    \A i, j \in 1..Len(r) : r[i].timestamp = r[j].timestamp /\ r[i].timestamp > 0 => i = j
HeadOnly(r, o) == \A i \in 2..Len(r) : r[i].timestamp = o => o = 0
Behind(r, o, c, s) ==
    r # <<>> /\ r[1].timestamp = o /\ o > 0 =>
        c <= Len(r) /\ \A i \in 1..Len(r) : i <= c => r[i].data \in s
Accounted(r, o, c, s) == Distinct(r) /\ HeadOnly(r, o) /\ Behind(r, o, c, s)

(* A trim that was not cut into holds what it found, without its head.     *)
Uncut(t, r) == t.on /\ ~t.cut => \E n \in 1..Len(r) : t.keep = SubSeq(r, n + 1, Len(r))
Resting(t) == ~t.on => ~t.cut /\ t.keep = <<>>

DrainInv ==
    /\ Uncut(trimming, ring) /\ Resting(trimming)
    /\ ~clash => /\ Accounted(ring, oldest, cursor, sent)
                 /\ trimming.cut => Accounted(trimming.keep, oldest, cursor, sent)

-----------------------------------------------------------------------------
(* Sequences.                                                              *)
LEMMA SuffixOf ==
    ASSUME NEW S, NEW r \in Seq(S), NEW n \in 0..Len(r)
    PROVE  /\ SubSeq(r, n + 1, Len(r)) \in Seq(S)
           /\ Len(SubSeq(r, n + 1, Len(r))) = Len(r) - n
           /\ \A i \in 1..(Len(r) - n) : SubSeq(r, n + 1, Len(r))[i] = r[n + i]
  OBVIOUS

LEMMA AppendedTo ==
    ASSUME NEW S, NEW r \in Seq(S), NEW e \in S
    PROVE  /\ Append(r, e) \in Seq(S) /\ Len(Append(r, e)) = Len(r) + 1
           /\ Append(r, e)[Len(r) + 1] = e
           /\ \A i \in 1..Len(r) : Append(r, e)[i] = r[i]
  OBVIOUS

LEMMA TailOf ==
    ASSUME NEW S, NEW r \in Seq(S), r # <<>>
    PROVE  /\ Tail(r) \in Seq(S) /\ Len(Tail(r)) = Len(r) - 1
           /\ \A i \in 1..(Len(r) - 1) : Tail(r)[i] = r[i + 1]
  OBVIOUS

LEMMA EmptyOrNot ==
    ASSUME NEW S, NEW r \in Seq(S)
    PROVE  Len(r) \in Nat /\ (r = <<>> <=> Len(r) = 0)
  OBVIOUS

-----------------------------------------------------------------------------
(* What a tick makes of the ring: at most the head goes, at most one entry *)
(* comes, and if no second is shared that one has a stamp of its own.      *)
Fresh(e) ==
    e.timestamp > 0 =>
        e.timestamp \notin StampsOf(ring) \cup StampsOf(trimming.keep) \cup {oldest}
Grown(r, d) ==
    /\ d \in {0, 1} /\ d <= Len(ring)
    /\ Len(r) \in {Len(ring) - d, Len(ring) - d + 1}
    /\ d = 1 => Len(r) = Len(ring)
    /\ \A i \in 1..(Len(ring) - d) : r[i] = ring[i + d]
    /\ Len(r) = Len(ring) - d + 1 => Fresh(r[Len(r)])

LEMMA Submitted ==
    ASSUME TypeInv, NEW k \in Ticks, Submit(k)
    PROVE  /\ ring' \in Seq(Entries) /\ Len(ring') <= Capacity
           /\ events' \in 0..MaxEvents /\ clash' \in BOOLEAN
           /\ ~clash' => ~clash /\ \E d \in {0, 1} : Grown(ring', d)
<1>0. ring \in Seq(Entries) /\ Len(ring) \in Nat /\ Capacity \in Nat \ {0}
      /\ Len(ring) <= Capacity /\ events \in 0..MaxEvents /\ clash \in BOOLEAN
  BY CapacityAssumption, EmptyOrNot DEF TypeInv
<1>1. CASE ~Significant(k)
  <2>1. ring' = ring /\ events' = events /\ clash' = clash
    BY <1>1 DEF Submit
  <2>2. Grown(ring', 0)
    BY <2>1, <1>0 DEF Grown
  <2> QED BY <1>0, <2>1, <2>2
<1>2. CASE Significant(k)
  <2>1. /\ events < MaxEvents /\ events' = events + 1 /\ Buffer!Add(Snapshot)
        /\ clash' = (clash \/ (synced /\ Epoch \in StampsOf(ring) \cup StampsOf(trimming.keep) \cup {oldest}))
    BY <1>2 DEF Submit
  <2>2. MaxEvents \in Nat /\ MaxNow \in Nat
    BY BoundAssumption
  <2>3. events' \in 0..MaxEvents /\ events + 1 \in Ids
    BY <2>1, <2>2, <1>0 DEF Ids
  <2>4. Epoch \in Stamps
    BY <2>2 DEF TypeInv, Epoch, Stamps
  <2>5. Snapshot \in Entries /\ Snapshot.timestamp = Epoch
    BY <2>3, <2>4 DEF Snapshot, Entries
  <2>6. ~clash' => ~clash /\ Fresh(Snapshot)
    <3> SUFFICES ASSUME ~clash' PROVE ~clash /\ Fresh(Snapshot)
      OBVIOUS
    <3>1. ~clash /\ ~(synced /\ Epoch \in StampsOf(ring) \cup StampsOf(trimming.keep) \cup {oldest})
      BY <2>1
    <3>2. ~synced => ~(Epoch > 0)
      BY DEF Epoch
    <3> QED BY <2>5, <3>1, <3>2 DEF Fresh
  <2>7. CASE Len(ring) < Capacity
    <3>1. ring' = Append(ring, Snapshot)
      BY <2>1, <2>7 DEF Buffer!Add
    <3>2. /\ ring' \in Seq(Entries) /\ Len(ring') = Len(ring) + 1
          /\ ring'[Len(ring) + 1] = Snapshot /\ \A i \in 1..Len(ring) : ring'[i] = ring[i]
      BY <3>1, <2>5, <1>0, AppendedTo
    <3>3. ~clash' => Grown(ring', 0)
      BY <3>2, <2>6, <1>0 DEF Grown
    <3> QED BY <3>2, <3>3, <2>1, <2>3, <2>6, <2>7, <1>0
  <2>8. CASE ~(Len(ring) < Capacity)
    <3>0. Len(ring) = Capacity /\ Len(ring) >= 1 /\ ring # <<>>
      BY <2>8, <1>0, EmptyOrNot
    <3>1. ring' = Append(Tail(ring), Snapshot)
      BY <2>1, <2>8 DEF Buffer!Add
    <3>2. /\ Tail(ring) \in Seq(Entries) /\ Len(Tail(ring)) = Len(ring) - 1
          /\ \A i \in 1..(Len(ring) - 1) : Tail(ring)[i] = ring[i + 1]
      BY <3>0, <1>0, TailOf
    <3>3. /\ ring' \in Seq(Entries) /\ Len(ring') = Len(ring)
          /\ ring'[Len(ring)] = Snapshot
          /\ \A i \in 1..(Len(ring) - 1) : ring'[i] = Tail(ring)[i]
      BY <3>1, <3>2, <2>5, <1>0, AppendedTo
    <3>4. ~clash' => Grown(ring', 1)
      BY <3>0, <3>2, <3>3, <2>6, <1>0 DEF Grown
    <3> QED BY <3>0, <3>3, <3>4, <2>1, <2>3, <2>6, <1>0
  <2> QED BY <2>7, <2>8
<1> QED BY <1>1, <1>2

(* The ring before the drain looks at it: what was accounted for still is. *)
LEMMA GrownRing ==
    ASSUME TypeInv, Accounted(ring, oldest, cursor, sent),
           NEW r \in Seq(Entries), NEW d, Grown(r, d)
    PROVE  Accounted(r, oldest, cursor, sent)
<1>0. /\ ring \in Seq(Entries) /\ Len(ring) \in Nat /\ Len(r) \in Nat
      /\ (r = <<>> <=> Len(r) = 0) /\ (ring = <<>> <=> Len(ring) = 0)
      /\ oldest \in Nat /\ cursor \in Nat
      /\ \A i \in 1..Len(r) : r[i].timestamp \in Nat
  <2>1. MaxNow \in Nat /\ Capacity \in Nat
    BY BoundAssumption, CapacityAssumption
  <2>2. ring \in Seq(Entries) /\ oldest \in Nat /\ cursor \in Nat
    BY <2>1 DEF TypeInv, Stamps
  <2>3. \A i \in 1..Len(r) : r[i] \in Entries
    OBVIOUS
  <2>4. \A i \in 1..Len(r) : r[i].timestamp \in Nat
    BY <2>1, <2>3 DEF Entries, Stamps
  <2> QED BY <2>2, <2>4, EmptyOrNot
<1>1. /\ d \in {0, 1} /\ d <= Len(ring) /\ (d = 1 => Len(r) = Len(ring))
      /\ Len(r) = Len(ring) - d \/ Len(r) = Len(ring) - d + 1
      /\ \A i \in 1..(Len(ring) - d) : r[i] = ring[i + d]
      /\ Len(r) = Len(ring) - d + 1 => Fresh(r[Len(r)])
  BY DEF Grown
<1>2. ASSUME NEW i \in 1..Len(r)
      PROVE  \/ i \in 1..(Len(ring) - d) /\ r[i] = ring[i + d] /\ i + d \in 1..Len(ring)
             \/ i = Len(r) /\ Len(r) = Len(ring) - d + 1 /\ Fresh(r[i])
  BY <1>0, <1>1
<1>3. ASSUME NEW i \in 1..Len(r), Fresh(r[i]), r[i].timestamp > 0
      PROVE  r[i].timestamp # oldest /\ \A j \in 1..Len(ring) : r[i].timestamp # ring[j].timestamp
  BY <1>3 DEF Fresh, StampsOf
<1>4. Distinct(r)
  <2> SUFFICES ASSUME NEW i \in 1..Len(r), NEW j \in 1..Len(r),
                      r[i].timestamp = r[j].timestamp, r[i].timestamp > 0
               PROVE  i = j
    BY DEF Distinct
  <2>1. \A p, q \in 1..Len(ring) :
            ring[p].timestamp = ring[q].timestamp /\ ring[p].timestamp > 0 => p = q
    BY DEF Accounted, Distinct
  <2> DEFINE old(p) == p \in 1..(Len(ring) - d) /\ r[p] = ring[p + d] /\ p + d \in 1..Len(ring)
             new(p) == p = Len(r) /\ Fresh(r[p])
  <2>2. (old(i) \/ new(i)) /\ (old(j) \/ new(j)) /\ r[j].timestamp > 0
    BY <1>2
  <2>3. CASE old(i) /\ old(j)
    <3>1. i + d = j + d
      BY <2>1, <2>3
    <3> QED BY <3>1, <1>1
  <2>4. CASE new(i) /\ old(j)
    BY <1>3, <2>4
  <2>5. CASE old(i) /\ new(j)
    BY <1>3, <2>2, <2>5
  <2>6. CASE new(i) /\ new(j)
    BY <2>6
  <2> QED BY <2>2, <2>3, <2>4, <2>5, <2>6
<1>5. HeadOnly(r, oldest)
  <2> SUFFICES ASSUME NEW i \in 2..Len(r), r[i].timestamp = oldest PROVE oldest = 0
    BY DEF HeadOnly
  <2>1. \A p \in 2..Len(ring) : ring[p].timestamp = oldest => oldest = 0
    BY DEF Accounted, HeadOnly
  <2> QED BY <2>1, <1>0, <1>1, <1>2, <1>3
<1>6. Behind(r, oldest, cursor, sent)
  <2> SUFFICES ASSUME r # <<>>, r[1].timestamp = oldest, oldest > 0
               PROVE  cursor <= Len(r) /\ \A i \in 1..Len(r) : i <= cursor => r[i].data \in sent
    BY DEF Behind
  <2>1. 1 \in 1..Len(r) /\ ~Fresh(r[1])
    BY <1>0, <1>3
  <2>2. r[1] = ring[1 + d] /\ 1 + d \in 1..Len(ring)
    BY <1>2, <2>1
  <2>3. d = 0
    BY <2>2, <1>0, <1>1 DEF Accounted, HeadOnly
  <2>4. cursor <= Len(ring) /\ \A i \in 1..Len(ring) : i <= cursor => ring[i].data \in sent
    BY <2>2, <2>3, <1>0 DEF Accounted, Behind
  <2> QED BY <2>3, <2>4, <1>0, <1>1
<1> QED BY <1>4, <1>5, <1>6 DEF Accounted

(* A trim under way: the cursor was not counted from what it holds, and    *)
(* the head of the ring can only be the first that it holds.               *)
LEMMA GrownTrim ==
    ASSUME TypeInv, Accounted(ring, oldest, cursor, sent),
           NEW r \in Seq(Entries), NEW d, Grown(r, d), NEW n \in 1..Len(ring),
           NEW t, t = SubSeq(ring, n + 1, Len(ring))
    PROVE  /\ Distinct(t)
           /\ \A q \in 1..Len(t) : t[q].timestamp = oldest => oldest = 0
           /\ \A q \in 1..Len(t) :
                 r # <<>> /\ t[q].timestamp = r[1].timestamp /\ r[1].timestamp > 0
                     => q = 1 /\ r[1] = t[1] /\ oldest # r[1].timestamp
<1>0. /\ ring \in Seq(Entries) /\ Len(ring) \in Nat /\ oldest \in Nat
      /\ (r = <<>> <=> Len(r) = 0) /\ Len(r) \in Nat
  <2>1. MaxNow \in Nat
    BY BoundAssumption
  <2> QED BY <2>1, EmptyOrNot DEF TypeInv, Stamps
<1>1. n \in 0..Len(ring)
  BY <1>0
<1>2. Len(t) = Len(ring) - n /\ \A q \in 1..Len(t) : t[q] = ring[n + q] /\ n + q \in 2..Len(ring)
  BY <1>0, <1>1, SuffixOf
<1>3. \A i, j \in 1..Len(ring) :
         ring[i].timestamp = ring[j].timestamp /\ ring[i].timestamp > 0 => i = j
  BY DEF Accounted, Distinct
<1>4. \A i \in 2..Len(ring) : ring[i].timestamp = oldest => oldest = 0
  BY DEF Accounted, HeadOnly
<1>5. Distinct(t)
  <2> SUFFICES ASSUME NEW i \in 1..Len(t), NEW j \in 1..Len(t),
                      t[i].timestamp = t[j].timestamp, t[i].timestamp > 0
               PROVE  i = j
    BY DEF Distinct
  <2>1. t[i] = ring[n + i] /\ t[j] = ring[n + j]
    BY <1>2
  <2>2. n + i \in 1..Len(ring) /\ n + j \in 1..Len(ring)
    BY <1>0, <1>2
  <2>3. n + i = n + j
    BY <1>3, <2>1, <2>2
  <2> QED BY <2>3, <1>0
<1>6. ASSUME NEW q \in 1..Len(t), r # <<>>, t[q].timestamp = r[1].timestamp, r[1].timestamp > 0
      PROVE  q = 1 /\ r[1] = t[1] /\ oldest # r[1].timestamp
  <2>1. d \in {0, 1} /\ Len(ring) >= 2
    BY <1>0, <1>2 DEF Grown
  <2>2. r[1] = ring[1 + d] /\ 1 + d \in 1..Len(ring)
    BY <2>1, <1>0 DEF Grown
  <2>3. n + q = 1 + d
    BY <1>2, <1>3, <1>6, <2>2, <1>0
  <2>4. n = 1 /\ q = 1 /\ d = 1
    BY <2>1, <2>3, <1>0
  <2> QED BY <2>2, <2>4, <1>2, <1>4, <1>6, <1>0
<1> QED BY <1>2, <1>4, <1>5, <1>6

LEMMA StillBehind ==
    ASSUME NEW r \in Seq(Entries), NEW o, NEW c, NEW s, NEW u, NEW K,
           Behind(r, o, c, s), IdsOf(r) \subseteq K, s \cap K \subseteq u
    PROVE  Behind(r, o, c, u)
<1>1. \A i \in 1..Len(r) : r[i].data \in K
  BY DEF IdsOf
<1> QED BY <1>1 DEF Behind

LEMMA TrimFields ==
    ASSUME TypeInv
    PROVE  /\ trimming.keep \in Seq(Entries) /\ trimming.on \in BOOLEAN /\ trimming.cut \in BOOLEAN
           /\ \A b \in BOOLEAN : /\ [trimming EXCEPT !.cut = b].keep = trimming.keep
                                 /\ [trimming EXCEPT !.cut = b].on = trimming.on
                                 /\ [trimming EXCEPT !.cut = b].cut = b
  BY DEF TypeInv

(* A tick that leaves the cursor where it is.                              *)
LEMMA CursorStays ==
    ASSUME TypeInv, DrainInv, ~trimming.cut, ~clash,
           ring' \in Seq(Entries), NEW d, Grown(ring', d),
           UNCHANGED <<cursor, oldest>>, sent' = sent \cap Known
    PROVE  /\ Accounted(ring', oldest', cursor', sent')
           /\ trimming.on => Accounted(trimming.keep, oldest', cursor', sent')
<1>1. Accounted(ring, oldest, cursor, sent) /\ Uncut(trimming, ring)
  BY DEF DrainInv
<1>2. Accounted(ring', oldest, cursor, sent)
  BY <1>1, GrownRing
<1>3. IdsOf(ring') \subseteq Known /\ sent \cap Known \subseteq sent'
  BY DEF Known
<1>4. Behind(ring', oldest, cursor, sent')
  BY <1>2, <1>3, StillBehind DEF Accounted
<1>5. ASSUME trimming.on PROVE Accounted(trimming.keep, oldest, cursor, sent')
  <2>1. PICK n \in 1..Len(ring) : trimming.keep = SubSeq(ring, n + 1, Len(ring))
    BY <1>1, <1>5 DEF Uncut
  <2>2. /\ Distinct(trimming.keep)
        /\ \A q \in 1..Len(trimming.keep) : trimming.keep[q].timestamp = oldest => oldest = 0
    BY <1>1, <2>1, GrownTrim
  <2>3. Len(trimming.keep) \in Nat /\ (trimming.keep = <<>> <=> Len(trimming.keep) = 0)
    BY TrimFields, EmptyOrNot
  <2>4. HeadOnly(trimming.keep, oldest) /\ Behind(trimming.keep, oldest, cursor, sent')
    BY <2>2, <2>3 DEF HeadOnly, Behind
  <2> QED BY <2>2, <2>4 DEF Accounted
<1> QED BY <1>2, <1>4, <1>5 DEF Accounted

(* A tick that looks at the ring, and sends an entry of it if the radio is *)
(* free.                                                                   *)
LEMMA CursorMoves ==
    ASSUME TypeInv, DrainInv, ~trimming.cut, ~clash,
           ring' \in Seq(Entries), NEW d, Grown(ring', d), ring' # <<>>,
           NEW free, SendSnapshot(free), oldest' = ring'[1].timestamp
    PROVE  /\ Accounted(ring', oldest', cursor', sent')
           /\ trimming.on => Accounted(trimming.keep, oldest', cursor', sent')
<1>0. /\ Len(ring') \in Nat \ {0} /\ Capacity \in Nat /\ cursor \in Nat /\ CursorAt \in Nat
      /\ oldest' \in Nat /\ \A i \in 1..Len(ring') : ring'[i].timestamp \in Nat
  <2>1. MaxNow \in Nat /\ Capacity \in Nat
    BY BoundAssumption, CapacityAssumption
  <2>2. Len(ring') \in Nat \ {0}
    BY EmptyOrNot
  <2>3. \A i \in 1..Len(ring') : ring'[i] \in Entries
    OBVIOUS
  <2>4. \A i \in 1..Len(ring') : ring'[i].timestamp \in Nat
    BY <2>1, <2>3 DEF Entries, Stamps
  <2>5. cursor \in Nat
    BY <2>1 DEF TypeInv
  <2> QED BY <2>1, <2>2, <2>4, <2>5 DEF CursorAt
<1>1. Accounted(ring, oldest, cursor, sent) /\ Uncut(trimming, ring)
  BY DEF DrainInv
<1>2. Accounted(ring', oldest, cursor, sent)
  BY <1>1, GrownRing
<1>3. /\ cursor' = CursorAt \/ (cursor' = CursorAt + 1 /\ CursorAt < Len(ring')
                                  /\ ring'[CursorAt + 1].data \in sent')
      /\ sent \cap Known \subseteq sent'
  BY DEF SendSnapshot
<1>4. IdsOf(ring') \subseteq Known
  BY DEF Known
<1>5. HeadOnly(ring', oldest')
  BY <1>2, <1>0 DEF Accounted, Distinct, HeadOnly
<1>6. Behind(ring', oldest', CursorAt, sent)
  <2>1. CASE oldest' = oldest
    BY <1>2, <2>1 DEF Accounted, CursorAt
  <2>2. CASE oldest' # oldest
    <3>1. CursorAt = 0
      BY <2>2 DEF CursorAt
    <3> QED BY <3>1, <1>0 DEF Behind
  <2> QED BY <2>1, <2>2
<1>7. Behind(ring', oldest', CursorAt, sent')
  BY <1>3, <1>4, <1>6, StillBehind
<1>8. Behind(ring', oldest', cursor', sent')
  BY <1>0, <1>3, <1>7 DEF Behind
<1>9. ASSUME trimming.on PROVE Accounted(trimming.keep, oldest', cursor', sent')
  <2>1. PICK n \in 1..Len(ring) : trimming.keep = SubSeq(ring, n + 1, Len(ring))
    BY <1>1, <1>9 DEF Uncut
  <2>2. /\ Distinct(trimming.keep)
        /\ \A q \in 1..Len(trimming.keep) :
              ring' # <<>> /\ trimming.keep[q].timestamp = ring'[1].timestamp
                  /\ ring'[1].timestamp > 0
                     => q = 1 /\ ring'[1] = trimming.keep[1] /\ oldest # ring'[1].timestamp
    BY <1>1, <2>1, GrownTrim
  <2>3. Len(trimming.keep) \in Nat /\ (trimming.keep = <<>> <=> Len(trimming.keep) = 0)
    BY TrimFields, EmptyOrNot
  <2>4. HeadOnly(trimming.keep, oldest')
    BY <2>2, <2>3, <1>0 DEF HeadOnly
  <2>5. Behind(trimming.keep, oldest', cursor', sent')
    <3> SUFFICES ASSUME trimming.keep # <<>>, trimming.keep[1].timestamp = oldest', oldest' > 0
                 PROVE  /\ cursor' <= Len(trimming.keep)
                        /\ \A i \in 1..Len(trimming.keep) : i <= cursor' => trimming.keep[i].data \in sent'
      BY DEF Behind
    <3>1. 1 \in 1..Len(trimming.keep)
      BY <2>3
    <3>2. ring'[1] = trimming.keep[1] /\ oldest # ring'[1].timestamp
      BY <2>2, <3>1
    <3>3. CursorAt = 0
      BY <3>2 DEF CursorAt
    <3> QED BY <3>1, <3>2, <3>3, <1>3, <2>3
  <2> QED BY <2>2, <2>4, <2>5 DEF Accounted
<1> QED BY <1>2, <1>5, <1>8, <1>9 DEF Accounted

LEMMA DrainTick ==
    ASSUME TypeInv, DrainInv, NEW k \in Ticks, Tick(k)
    PROVE  DrainInv'
<1>1. /\ ~trimming.cut /\ trimming' = [trimming EXCEPT !.cut = trimming.on] /\ Submit(k)
      /\ Live(k.free) \/ Drain(k.free)
  BY DEF Tick
<1>2. trimming'.keep = trimming.keep /\ trimming'.on = trimming.on /\ trimming'.cut = trimming.on
  BY <1>1, TrimFields
<1>3. Uncut(trimming, ring)' /\ Resting(trimming)'
  BY <1>2 DEF DrainInv, Uncut, Resting
<1>4. ASSUME ~clash'
      PROVE  /\ Accounted(ring', oldest', cursor', sent')
             /\ trimming.on => Accounted(trimming.keep, oldest', cursor', sent')
  <2>1. ring' \in Seq(Entries) /\ ~clash /\ \E d \in {0, 1} : Grown(ring', d)
    BY <1>1, <1>4, Submitted
  <2>2. PICK d \in {0, 1} : Grown(ring', d)
    BY <2>1
  <2>3. CASE UNCHANGED <<cursor, oldest>> /\ sent' = sent \cap Known
    BY <1>1, <2>1, <2>2, <2>3, CursorStays
  <2>4. CASE ring' # <<>> /\ SendSnapshot(k.free) /\ oldest' = ring'[1].timestamp
    BY <1>1, <2>1, <2>2, <2>4, CursorMoves
  <2> QED BY <1>1, <2>3, <2>4 DEF Live, Drain
<1> QED BY <1>2, <1>3, <1>4 DEF DrainInv, Accounted, Distinct, HeadOnly, Behind

-----------------------------------------------------------------------------
LEMMA DrainReceive ==
    ASSUME TypeInv, DrainInv, NEW t \in down, Receive(t)
    PROVE  DrainInv'
<1>1. ring \in Seq(Entries) /\ Len(ring) \in Nat
  BY EmptyOrNot DEF TypeInv
<1>2. PICK n \in 0..Len(ring) :
         trimming' = IF n = 0 THEN Idle
                     ELSE [on |-> TRUE, cut |-> FALSE, keep |-> SubSeq(ring, n + 1, Len(ring))]
  BY DEF Receive
<1>3. UNCHANGED <<ring, oldest, cursor, sent, clash>>
  BY DEF Receive, app, ghosts
<1>4. Uncut(trimming, ring)' /\ Resting(trimming)' /\ ~trimming'.cut
  <2>1. CASE n = 0
    BY <1>2, <2>1 DEF Idle, Uncut, Resting
  <2>2. CASE n # 0
    <3>1. n \in 1..Len(ring)
      BY <2>2, <1>1
    <3> QED BY <1>2, <1>3, <2>2, <3>1 DEF Uncut, Resting
  <2> QED BY <2>1, <2>2
<1> QED BY <1>3, <1>4 DEF DrainInv, Accounted, Distinct, HeadOnly, Behind

LEMMA DrainStore ==
    ASSUME TypeInv, DrainInv, StoreTrim
    PROVE  DrainInv'
<1>1. /\ trimming.on /\ trimming' = Idle /\ ring' = trimming.keep
      /\ sent' = sent \cap IdsOf(ring') /\ UNCHANGED <<oldest, cursor, clash>>
  BY DEF StoreTrim
<1>2. Uncut(trimming, ring)' /\ Resting(trimming)' /\ ~trimming'.cut
  BY <1>1 DEF Idle, Uncut, Resting
<1>3. ASSUME ~clash PROVE Accounted(trimming.keep, oldest, cursor, sent)
  <2>1. CASE trimming.cut
    BY <1>3, <2>1 DEF DrainInv
  <2>2. CASE ~trimming.cut
    <3>1. PICK n \in 1..Len(ring) : trimming.keep = SubSeq(ring, n + 1, Len(ring))
      BY <1>1, <2>2 DEF DrainInv, Uncut
    <3>2. ring \in Seq(Entries) /\ Len(ring) \in Nat
      BY EmptyOrNot DEF TypeInv
    <3>3. Grown(ring, 0)
      BY <3>2 DEF Grown
    <3>4. /\ Distinct(trimming.keep)
          /\ \A q \in 1..Len(trimming.keep) : trimming.keep[q].timestamp = oldest => oldest = 0
      BY <1>3, <3>1, <3>2, <3>3, GrownTrim DEF DrainInv
    <3>5. Len(trimming.keep) \in Nat /\ (trimming.keep = <<>> <=> Len(trimming.keep) = 0)
      BY TrimFields, EmptyOrNot
    <3> QED BY <3>4, <3>5 DEF Accounted, HeadOnly, Behind
  <2> QED BY <2>1, <2>2
<1>4. ASSUME ~clash PROVE Accounted(ring', oldest, cursor, sent')
  <2>1. Behind(trimming.keep, oldest, cursor, sent')
    BY <1>1, <1>3, <1>4, StillBehind, TrimFields DEF Accounted
  <2> QED BY <1>1, <1>3, <1>4, <2>1 DEF Accounted
<1> QED BY <1>1, <1>2, <1>4 DEF DrainInv, Accounted, Distinct, HeadOnly, Behind

LEMMA DrainReboot ==
    ASSUME Reboot
    PROVE  DrainInv'
<1>1. ring' = <<>> /\ trimming' = Idle
  BY DEF Reboot
<1>2. Uncut(trimming, ring)' /\ Resting(trimming)' /\ ~trimming'.cut
  BY <1>1 DEF Idle, Uncut, Resting
<1>3. Distinct(ring)' /\ HeadOnly(ring, oldest)' /\ Behind(ring, oldest, cursor, sent)'
  BY <1>1 DEF Distinct, HeadOnly, Behind
<1> QED BY <1>2, <1>3 DEF DrainInv, Accounted

LEMMA DrainInit == Init => DrainInv
<1> SUFFICES ASSUME Init PROVE DrainInv
  OBVIOUS
<1>1. ring = <<>> /\ trimming = Idle
  BY DEF Init
<1>2. Uncut(trimming, ring) /\ Resting(trimming) /\ ~trimming.cut
  BY <1>1 DEF Idle, Uncut, Resting
<1>3. Accounted(ring, oldest, cursor, sent)
  BY <1>1 DEF Accounted, Distinct, HeadOnly, Behind
<1> QED BY <1>2, <1>3 DEF DrainInv

LEMMA DrainNext == TypeInv /\ DrainInv /\ [Next]_vars => DrainInv'
<1> SUFFICES ASSUME TypeInv, DrainInv, [Next]_vars PROVE DrainInv'
  OBVIOUS
<1>1. ASSUME UNCHANGED <<ring, oldest, cursor, sent, clash, trimming>> PROVE DrainInv'
  BY <1>1 DEF DrainInv, Uncut, Resting, Accounted, Distinct, HeadOnly, Behind
<1>2. CASE \E m \in up, again \in {FALSE, (faults < MaxFaults)}, duplicate \in BOOLEAN :
              Decode(m, again, duplicate)
  BY <1>1, <1>2 DEF Decode, app, ghosts
<1>3. CASE Second
  BY <1>1, <1>3 DEF Second, app, ghosts
<1>4. CASE Lose
  BY <1>1, <1>4 DEF Lose, app, ghosts
<1>5. CASE UNCHANGED vars
  BY <1>1, <1>5 DEF vars, app, ghosts
<1> QED
  BY <1>2, <1>3, <1>4, <1>5, DrainTick, DrainReceive, DrainStore, DrainReboot DEF Next

-----------------------------------------------------------------------------
LEMMA NothingKept ==
    /\ <<>> \in Seq(Entries) /\ Len(<<>>) = 0
    /\ Idle \in [on : BOOLEAN, cut : BOOLEAN, keep : Seq(Entries)] /\ Len(Idle.keep) = 0
<1>1. <<>> \in Seq(Entries) /\ Len(<<>>) = 0
  OBVIOUS
<1> QED BY <1>1 DEF Idle

LEMMA TypeInit == Init => TypeInv
<1> SUFFICES ASSUME Init PROVE TypeInv
  OBVIOUS
<1>1. MaxNow \in Nat \ {0} /\ MaxUp \in Nat /\ MaxEvents \in Nat /\ Capacity \in Nat \ {0}
  BY BoundAssumption, CapacityAssumption
<1>2. IsFiniteSet(up) /\ Cardinality(up) = 0
  BY FS_EmptySet DEF Init
<1>3. /\ ring \in Seq(Entries) /\ Len(ring) <= Capacity
      /\ trimming \in [on : BOOLEAN, cut : BOOLEAN, keep : Seq(Entries)]
      /\ Len(trimming.keep) <= Capacity
  <2>1. ring = <<>> /\ trimming = Idle
    BY DEF Init
  <2>2. 0 <= Capacity
    BY <1>1
  <2> QED BY <2>1, <2>2, NothingKept
<1>4. now = 1 /\ lag = 0 /\ synced = FALSE /\ clash = FALSE /\ cursor = 0 /\ oldest = 0
      /\ sent = {} /\ events = 0 /\ down = {}
  BY DEF Init
<1>5. ~synced /\ synced \in BOOLEAN /\ clash \in BOOLEAN
  BY <1>4, Zenon
<1>6. now \in 1..MaxNow /\ lag \in 0..MaxNow /\ cursor \in 0..Capacity /\ oldest \in 0..MaxNow
      /\ events \in 0..MaxEvents /\ Cardinality(up) <= MaxUp
  BY <1>1, <1>2, <1>4
<1> QED BY <1>2, <1>3, <1>4, <1>5, <1>6 DEF TypeInv, Stamps

LEMMA Uplinks ==
    ASSUME TypeInv, (\E m : Transmit(m)) \/ UNCHANGED up
    PROVE  IsFiniteSet(up') /\ Cardinality(up') <= MaxUp
<1>1. IsFiniteSet(up) /\ Cardinality(up) <= MaxUp /\ Cardinality(up) \in Nat /\ MaxUp \in Nat
  BY FS_CardinalityType, BoundAssumption DEF TypeInv
<1>2. ASSUME NEW m, Transmit(m) PROVE IsFiniteSet(up') /\ Cardinality(up') <= MaxUp
  <2>1. Cardinality(up) < MaxUp /\ up' = up \cup {m}
    BY <1>2 DEF Transmit
  <2>2. /\ IsFiniteSet(up \cup {m})
        /\ Cardinality(up \cup {m}) = Cardinality(up) \/ Cardinality(up \cup {m}) = Cardinality(up) + 1
    BY <1>1, FS_AddElement
  <2> QED BY <2>1, <2>2, <1>1
<1> QED BY <1>1, <1>2

LEMMA FewerUplinks ==
    ASSUME TypeInv, up' \subseteq up
    PROVE  IsFiniteSet(up') /\ Cardinality(up') <= MaxUp
<1>1. IsFiniteSet(up) /\ Cardinality(up) <= MaxUp /\ MaxUp \in Nat
  BY BoundAssumption DEF TypeInv
<1>2. IsFiniteSet(up') /\ Cardinality(up') <= Cardinality(up)
  BY <1>1, FS_Subset
<1>3. Cardinality(up) \in Nat /\ Cardinality(up') \in Nat
  BY <1>1, <1>2, FS_CardinalityType
<1> QED BY <1>1, <1>2, <1>3

LEMMA TypeTick ==
    ASSUME TypeInv, NEW k \in Ticks, Tick(k)
    PROVE  TypeInv'
<1>1. /\ trimming' = [trimming EXCEPT !.cut = trimming.on] /\ Submit(k)
      /\ UNCHANGED <<now, synced, lag, down>>
      /\ Live(k.free) \/ Drain(k.free)
  BY DEF Tick, clock
<1>2. /\ ring' \in Seq(Entries) /\ Len(ring') <= Capacity
      /\ events' \in 0..MaxEvents /\ clash' \in BOOLEAN
  BY <1>1, Submitted
<1>3. /\ trimming' \in [on : BOOLEAN, cut : BOOLEAN, keep : Seq(Entries)]
      /\ trimming'.keep = trimming.keep
  BY <1>1 DEF TypeInv
<1>4. Capacity \in Nat /\ Len(ring') \in Nat /\ (ring' = <<>> <=> Len(ring') = 0)
      /\ cursor \in 0..Capacity /\ oldest \in Stamps
  BY <1>2, EmptyOrNot, CapacityAssumption DEF TypeInv
<1>5. ASSUME NEW i \in 1..Len(ring') PROVE ring'[i].data \in Ids /\ ring'[i].timestamp \in Stamps
  <2>1. ring'[i] \in Entries
    BY <1>2, <1>5
  <2> QED BY <2>1 DEF Entries
<1>6. sent \cap Known \subseteq Ids
  BY DEF TypeInv
<1>7. cursor' \in 0..Capacity /\ oldest' \in Stamps /\ sent' \subseteq Ids
  <2>1. CASE UNCHANGED <<cursor, oldest>> /\ sent' = sent \cap Known
    BY <1>4, <1>6, <2>1
  <2>2. CASE ring' # <<>> /\ SendSnapshot(k.free) /\ oldest' = ring'[1].timestamp
    <3>1. 1 \in 1..Len(ring') /\ oldest' \in Stamps /\ CursorAt \in 0..Capacity
      BY <1>4, <1>5, <2>2 DEF CursorAt
    <3>2. CASE CursorAt < Len(ring') /\ k.free
      <4>1. CursorAt + 1 \in 1..Len(ring') /\ CursorAt + 1 \in 0..Capacity
        BY <3>1, <3>2, <1>2, <1>4
      <4>2. cursor' = CursorAt + 1 /\ sent' = (sent \cap Known) \cup {ring'[CursorAt + 1].data}
        BY <2>2, <3>2 DEF SendSnapshot
      <4> QED BY <3>1, <4>1, <4>2, <1>5, <1>6
    <3>3. CASE ~(CursorAt < Len(ring') /\ k.free)
      BY <2>2, <3>1, <3>3, <1>6 DEF SendSnapshot
    <3> QED BY <3>2, <3>3
  <2> QED BY <1>1, <2>1, <2>2 DEF Live, Drain
<1>8. (\E m : Transmit(m)) \/ UNCHANGED up
  BY <1>1 DEF Live, Drain, SendSnapshot
<1>9. IsFiniteSet(up') /\ Cardinality(up') <= MaxUp
  BY <1>8, Uplinks
<1> QED BY <1>1, <1>2, <1>3, <1>7, <1>9 DEF TypeInv

LEMMA TypeReceive ==
    ASSUME TypeInv, NEW t \in down, Receive(t)
    PROVE  TypeInv'
<1>1. ring \in Seq(Entries) /\ Len(ring) \in Nat /\ Len(ring) <= Capacity /\ Capacity \in Nat
  BY EmptyOrNot, CapacityAssumption DEF TypeInv
<1>2. PICK n \in 0..Len(ring) :
         trimming' = IF n = 0 THEN Idle
                     ELSE [on |-> TRUE, cut |-> FALSE, keep |-> SubSeq(ring, n + 1, Len(ring))]
  BY DEF Receive
<1>3. trimming' \in [on : BOOLEAN, cut : BOOLEAN, keep : Seq(Entries)] /\ Len(trimming'.keep) <= Capacity
  <2>1. SubSeq(ring, n + 1, Len(ring)) \in Seq(Entries) /\ Len(SubSeq(ring, n + 1, Len(ring))) = Len(ring) - n
    BY <1>1, SuffixOf
  <2>2. CASE n = 0
    BY <1>1, <1>2, <2>2 DEF Idle
  <2>3. CASE n # 0
    BY <1>1, <1>2, <2>1, <2>3
  <2> QED BY <2>2, <2>3
<1>4. now \in 1..MaxNow /\ t \in 1..now /\ MaxNow \in Nat
  BY BoundAssumption DEF TypeInv
<1>5. lag' = now - t /\ synced' = TRUE /\ down' \subseteq down
      /\ UNCHANGED <<now, ring, cursor, oldest, up, events, sent, clash>>
  BY DEF Receive, app, ghosts
<1>6. lag' \in 0..MaxNow /\ lag' < now
  BY <1>4, <1>5
<1> QED BY <1>3, <1>5, <1>6 DEF TypeInv

LEMMA TypeNext == TypeInv /\ [Next]_vars => TypeInv'
<1> SUFFICES ASSUME TypeInv, [Next]_vars PROVE TypeInv'
  OBVIOUS
<1>0. MaxNow \in Nat \ {0} /\ MaxEvents \in Nat /\ Capacity \in Nat
  BY BoundAssumption, CapacityAssumption
<1>1. CASE StoreTrim
  <2>1. /\ trimming' = Idle /\ ring' = trimming.keep /\ sent' \subseteq sent
        /\ UNCHANGED <<now, cursor, oldest, synced, lag, up, down, events, clash>>
    BY <1>1 DEF StoreTrim, clock
  <2> QED BY <2>1, <1>0, TrimFields DEF TypeInv, Idle
<1>2. ASSUME NEW m \in up, NEW again, NEW duplicate,
             Decode(m, again, duplicate)
      PROVE  TypeInv'
  <2>1. /\ up' \subseteq up /\ down' \subseteq down \cup {now}
        /\ UNCHANGED <<now, ring, cursor, oldest, synced, lag, trimming, events, sent, clash>>
    BY <1>2 DEF Decode, app, clock, ghosts
  <2>2. down' \subseteq 1..now
    BY <2>1, <1>0 DEF TypeInv
  <2> QED BY <2>1, <2>2, FewerUplinks DEF TypeInv
<1>3. CASE Second
  <2>1. now < MaxNow /\ now' = now + 1
        /\ UNCHANGED <<ring, cursor, oldest, synced, lag, trimming, up, down, events, sent, clash>>
    BY <1>3 DEF Second, app, clock, ghosts
  <2>2. now' \in 1..MaxNow /\ down \subseteq 1..now' /\ (synced => lag < now')
    BY <2>1, <1>0 DEF TypeInv
  <2> QED BY <2>1, <2>2 DEF TypeInv
<1>4. CASE Lose
  <2>1. /\ up' \subseteq up /\ down' \subseteq down
        /\ UNCHANGED <<now, ring, cursor, oldest, synced, lag, trimming, events, sent, clash>>
    BY <1>4 DEF Lose, app, clock, ghosts
  <2> QED BY <2>1, FewerUplinks DEF TypeInv
<1>5. CASE Reboot
  <2>1. /\ ring' = <<>> /\ cursor' = 0 /\ oldest' = 0 /\ synced' = FALSE /\ lag' = 0
        /\ trimming' = Idle /\ clash' = FALSE /\ sent' = {} /\ UNCHANGED <<now, up, down, events>>
    BY <1>5 DEF Reboot
  <2>2. /\ ring' \in Seq(Entries) /\ Len(ring') <= Capacity
        /\ trimming' \in [on : BOOLEAN, cut : BOOLEAN, keep : Seq(Entries)]
        /\ Len(trimming'.keep) <= Capacity
    <3>1. 0 <= Capacity
      BY <1>0
    <3> QED BY <2>1, <3>1, NothingKept
  <2>3. ~synced' /\ synced' \in BOOLEAN /\ clash' \in BOOLEAN
    BY <2>1, Zenon
  <2>4. lag' \in 0..MaxNow /\ cursor' \in 0..Capacity /\ oldest' \in 0..MaxNow
    BY <2>1, <1>0
  <2> QED BY <2>1, <2>2, <2>3, <2>4 DEF TypeInv, Stamps
<1>6. CASE UNCHANGED vars
  BY <1>6 DEF vars, app, clock, ghosts, TypeInv
<1> QED
  BY <1>1, <1>3, <1>2, <1>4, <1>5, <1>6, TypeTick, TypeReceive DEF Next

-----------------------------------------------------------------------------
(* Readings, counts and messages stay in range; in particular the device's *)
(* clock, once set, is a second that has been (time_sync.c:67-76), and the *)
(* cursor does not leave the buffer (app_entry.c:284-305).                 *)
THEOREM TypeCorrect == Spec => []TypeOK
<1>1. TypeInv => TypeOK
  <2> SUFFICES ASSUME TypeInv PROVE TypeOK
    OBVIOUS
  <2>1. MaxNow \in Nat /\ MaxEvents \in Nat
    BY BoundAssumption
  <2>2. Ids \subseteq 0..MaxEvents
    BY <2>1 DEF Ids
  <2>3. Entries \subseteq Buffer!Snapshot
    BY <2>2 DEF Entries, Buffer!Snapshot
  <2>4. ring \in Seq(Entries)
    BY DEF TypeInv
  <2>5. ring \in Seq(Buffer!Snapshot)
    BY <2>3, <2>4
  <2>6. down \subseteq Stamps
    BY <2>1 DEF TypeInv, Stamps
  <2> QED BY <2>5, <2>6 DEF TypeInv, TypeOK, Buffer!TypeOK
<1> QED
  BY TypeInit, TypeNext, <1>1, PTL DEF Spec

(* The drain skips nothing: what lies before the cursor has been sent,     *)
(* also when a full ring drops its oldest entry or a preempted trim moves  *)
(* the entries, as long as no two events share a second and the oldest     *)
(* entry is not from before the first sync: those are stamped 0, look      *)
(* alike to the cursor (app_entry.c:288-292), and when a full ring of them *)
(* overflows some are skipped                                              *)
(* (app_entry.c:284-305, app_tx.c:130-175, event_buffer.c:65-122).         *)
THEOREM BehindCursorSentCorrect == Spec => []BehindCursorSent
<1>1. TypeInv /\ DrainInv => BehindCursorSent
  BY DEF DrainInv, Accounted, Behind, BehindCursorSent
<1> QED
  BY TypeInit, TypeNext, DrainInit, DrainNext, <1>1, PTL DEF Spec
=============================================================================
