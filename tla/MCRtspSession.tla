--------------------------- MODULE MCRtspSession ---------------------------
(* Instances of RtspSession for TLC.                                       *)
EXTENDS RtspSession

(* Three options are enough to say one thing and take it back, or to say   *)
(* all that a usable spec needs.                                           *)
ShortSpecs == [udp : BOOLEAN, opts : BoundedSeq(Options, 3)]
=============================================================================
