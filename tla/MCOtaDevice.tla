---------------------------- MODULE MCOtaDevice ----------------------------
(* Two pages of three units, chunks of two units: the second chunk of a    *)
(* large image lies across the page boundary.  Image B comes in full and   *)
(* as a delta on A; C is one page, so that B's second page becomes stale;  *)
(* D claims a signature it does not have; E differs from A in one chunk; F *)
(* does not begin with the magic.                                          *)
EXTENDS OtaDevice, TLC

ImageA == (0 :> 1) @@ (1 :> 2) @@ (2 :> 3) @@ (3 :> 4) @@ (4 :> 5)
ImageB == (0 :> 1) @@ (1 :> 2) @@ (2 :> 6) @@ (3 :> 7) @@ (4 :> 8)
ImageC == (0 :> 1) @@ (1 :> 8) @@ (2 :> 9)
ImageE == (0 :> 1) @@ (1 :> 2) @@ (2 :> 6) @@ (3 :> 7) @@ (4 :> 5)
ImageD == (0 :> 1) @@ (1 :> 9)
ImageF == (0 :> 8) @@ (1 :> 9)

Full(im) == [image |-> im, chunks |-> 0..(Chunks(Size(im)) - 1),
             signed |-> FALSE, authentic |-> FALSE]
DeltaB == [Full(ImageB) EXCEPT !.chunks = {1, 2}]
ForgedD == [Full(ImageD) EXCEPT !.signed = TRUE]

MCFactory == ImageA
MCSessions == {Full(ImageB), DeltaB, Full(ImageC), ForgedD, Full(ImageF)}
OnlyFull == {Full(ImageB)}
OnlyDelta == {[Full(ImageE) EXCEPT !.chunks = {1}]}

NotWhileApplying == Phases \ {"APPLYING"}
NoPhase == {}

(* Everywhere but between the two halves of a record's rewriting, and in a *)
(* delta only before the first page and after the last.                    *)
Points == {"first", "mark", "read", "erase", "write", "stale", "finish"}
Covered == ({"full", "resume"} \X Points) \cup ({"delta"} \X {"first", "stale", "finish"})
RecordGap == {<<"full", "record">>}
InDelta == {"delta"} \X (Points \ {"first"})

FirstRecordFails == {"full", "delta"} \X {"first"}
Nowhere == {}
=============================================================================
