--------------------------- MODULE MCRtspReceive ---------------------------
(* Instances of RtspReceive for TLC.                                       *)
EXTENDS RtspReceive

(* A request of one line, one with a header that just fills a buffer of    *)
(* ten, one after a blank line and one that does not fit.                  *)
SomeShapes ==
    {<<"text", "space", "text">> \o BlankLine,
     <<"text", "CR", "LF", "text", "space", "text">> \o BlankLine,
     <<"CR", "LF", "text">> \o BlankLine,
     [i \in 1 .. 11 |-> "text"]}
=============================================================================
