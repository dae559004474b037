------------------------- MODULE MCSegmentTranscode -------------------------
(* Up to two profiles and one detector: the smallest options with an      *)
(* output read after another output and a detector after the outputs.     *)
EXTENDS SegmentTranscode

MCMaxProfiles == 2
MCMaxDetectors == 1
====
