--------------------------- MODULE RtspTransport ---------------------------
(***************************************************************************)
(* What rtsp.cpp makes of the Transport headers of a SETUP, and what       *)
(* RTSP_Handler::setup looks for in the result.  A header offers several   *)
(* specs; a spec is a lower transport and a sequence of options, each      *)
(* abstracted to what the search of setup tells apart.  Constant-level.    *)
(***************************************************************************)
EXTENDS Naturals, Sequences, SequencesExt

(* "mode=other" is a mode of any other spelling: RECORD, and also PLAY in  *)
(* the quotes of RFC 2326, 12.39, which are kept as a part of the word.    *)
(* "client_port" has a range of two ports, neither of them 0, "one_port"   *)
(* only the first of them; "other" stands for the options that are read    *)
(* and not looked at (ttl=, ssrc=, rtcp-mux, destination=, ...), "unknown" *)
(* for all the rest.                                                       *)
Options == {"unicast", "multicast", "mode=PLAY", "mode=other",
            "client_port", "one_port", "other", "unknown"}

Transport == [udp : BOOLEAN, unicast : BOOLEAN, play : BOOLEAN,
              port : [{0, 1} -> BOOLEAN]]

(* RtspHeader headers = { 0 }                                              *)
NoTransport == [udp |-> FALSE, unicast |-> FALSE, play |-> FALSE,
                port |-> [p \in {0, 1} |-> FALSE]]

(* parse_transport_option returns false on these, and nothing more of the  *)
(* request is read.                                                        *)
StopsReading(o) == o \in {"one_port", "unknown"}

(* What an option writes to the spec it belongs to, read or not; play is   *)
(* whether mode is the word PLAY.                                          *)
Apply(t, o) ==
    CASE o = "unicast"     -> [t EXCEPT !.unicast = TRUE]
      [] o = "multicast"   -> [t EXCEPT !.unicast = FALSE]
      [] o = "mode=PLAY"   -> [t EXCEPT !.play = TRUE]
      [] o = "mode=other"  -> [t EXCEPT !.play = FALSE]
      [] o = "client_port" -> [t EXCEPT !.port = [p \in {0, 1} |-> TRUE]]
      [] o = "one_port"    -> [t EXCEPT !.port[0] = TRUE]
      [] OTHER             -> t

(* The defaults are set before the options are read; the ports are not     *)
(* among them and keep what an earlier Transport header left there.        *)
Defaults(t, udp) == [t EXCEPT !.udp = udp, !.play = TRUE, !.unicast = FALSE]

(* The options up to the one that stops the reading.                       *)
Heard(opts) ==
    LET stop == SelectInSeq(opts, StopsReading)
    IN  IF stop = 0 THEN opts ELSE SubSeq(opts, 1, stop)

(* The spec before the first option and after each of them.                *)
Readings(t, udp, heard) ==
    LET read[k \in 0 .. Len(heard)] ==
            IF k = 0 THEN Defaults(t, udp) ELSE Apply(read[k - 1], heard[k])
    IN  read

ReadSpec(t, udp, opts) ==
    LET heard == Heard(opts) IN Readings(t, udp, heard)[Len(heard)]

UsableAnyMode(t) == t.unicast /\ t.udp /\ t.port[0] /\ t.port[1]  \* variant

(* The transport RTSP_Handler::setup searches for.                         *)
Usable(t) == t.unicast /\ t.play /\ t.udp /\ t.port[0] /\ t.port[1]

(* What a spec says as a whole: of the options that exclude each other the *)
(* last one counts, delivery defaults to multicast, and a mode is left out *)
(* or is the bare word PLAY.                                               *)
LastOf(opts, set) ==
    LET i == SelectLastInSeq(opts, LAMBDA o : o \in set)
    IN  IF i = 0 THEN "none" ELSE opts[i]

OffersUdp(udp, opts) ==
    /\ udp
    /\ LastOf(opts, {"unicast", "multicast"}) = "unicast"
    /\ LastOf(opts, {"mode=PLAY", "mode=other"}) # "mode=other"
    /\ "client_port" \in Range(opts)
=============================================================================
