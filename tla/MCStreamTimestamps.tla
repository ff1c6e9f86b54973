------------------------- MODULE MCStreamTimestamps -------------------------
(* Small instances of StreamTimestamps for TLC. *)
EXTENDS StreamTimestamps

VideoOnly   == {"video"}
BothStreams == {"audio", "video"}

Intervals == [s \in Streams |-> IF s = "video" THEN 2 ELSE 1]
=============================================================================
