--------------------------- MODULE MCEventBuffer ---------------------------
(* A ring of three, three timestamps and two kinds of snapshot: it fills,  *)
(* wraps to every rotation, is trimmed across the wrap, and is refilled.   *)
EXTENDS EventBuffer

CONSTANTS plugged, unplugged, nodata

MCData == {plugged, unplugged}
MCTimestamps == 0..2
=============================================================================
