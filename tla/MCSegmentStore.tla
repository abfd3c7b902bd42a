--------------------------- MODULE MCSegmentStore ---------------------------
(* Segments of four units, records of one to three, five records: records  *)
(* that fill a segment exactly, leave a rest, or need a segment of their   *)
(* own, and room for a second rollover after a crash in the first.  Keys   *)
(* are only carried along; one is enough.                                  *)
EXTENDS SegmentStore

=============================================================================
