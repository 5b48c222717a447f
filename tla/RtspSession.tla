---------------------------- MODULE RtspSession ----------------------------
(***************************************************************************)
(* One RTSP session as its peer sees it: a request's line and headers are  *)
(* read one after the other, then it is answered and run through the state *)
(* machine of rtsp.cpp.  Threads, the RTP engine and the heap are in       *)
(* RtspServer.                                                             *)
(***************************************************************************)
EXTENDS RtspRequest, RtspTransport

CONSTANTS MaxTransports,  \* RtspHeader::MAX_TRANSPORTS
          MaxHeaders,     \* bound: Transport headers in one request
          Specs           \* the specs peers offer

ASSUME MaxTransportsAssumption == MaxTransports \in Nat \ {0}
ASSUME MaxHeadersAssumption    == MaxHeaders \in Nat \ {0}
ASSUME SpecsAssumption         == Specs \subseteq [udp : BOOLEAN, opts : Seq(Options)]

VARIABLES state,    \* Session::state
          line,     \* the request line whose headers are being read
          hdr,      \* struct RtspHeader, and whether it is still being filled
          offer,    \* history: what the Transport headers so far offered
          last,     \* history: the last request answered, and its response
          granted,  \* history: the commands of effect answered 200 so far
          fault     \* the parser has read a null pointer

vars == <<state, line, hdr, offer, last, granted, fault>>

Methods == Commands \cup Unsupported \cup {"KILL", "other", "blank", "none"}
Effective == {"SETUP", "PLAY", "PAUSE", "TEARDOWN"}
Versions == {"1.0", "2.0", "none"}
Slots == 1 .. MaxTransports
Header == [reading : BOOLEAN, accept_sdp : BOOLEAN, idx : 0 .. MaxTransports,
           transport : [Slots -> Transport]]
Offer == [usable : BOOLEAN, headers : 0 .. MaxHeaders, whole : BOOLEAN]

NoLine == [method |-> "none", version |-> "none"]
NoHeader == [reading |-> TRUE, accept_sdp |-> TRUE, idx |-> 0,
             transport |-> [i \in Slots |-> NoTransport]]
NoOffer == [usable |-> FALSE, headers |-> 0, whole |-> TRUE]
NoAnswer == [method |-> "none", reply |-> NoReply, offer |-> NoOffer]

TypeOK ==
    /\ state \in States
    /\ line \in [method : Methods, version : Versions]
    /\ hdr \in Header
    /\ offer \in Offer
    /\ last \in [method : Methods, reply : Codes, offer : Offer]
    /\ granted \subseteq Effective
    /\ fault \in BOOLEAN

Init == /\ state = "INIT"
        /\ line = NoLine /\ hdr = NoHeader
        /\ offer = NoOffer /\ last = NoAnswer
        /\ granted = {}
        /\ fault = FALSE

-----------------------------------------------------------------------------
(* Parser::parse up to the switch: the first line.  What is no command of  *)
(* ours is answered at once, without a look at the headers.                *)
Line(method, version) ==
    LET r == [method |-> method, version |-> version, ok |-> TRUE]
    IN  /\ ~fault /\ state # "DEAD" /\ line = NoLine
        /\ IF Faults(r)
           THEN fault' = TRUE /\ UNCHANGED <<line, last>>
           ELSE /\ IF method \in Commands \cup {"KILL"}
                   THEN /\ line' = [method |-> method, version |-> version]
                        /\ last' = NoAnswer
                   ELSE /\ UNCHANGED line
                        /\ last' = [method |-> method, reply |-> Reply(state, r),
                                    offer |-> NoOffer]
                /\ UNCHANGED fault
        /\ UNCHANGED <<state, hdr, offer, granted>>

(* Parser::read_headers, on the headers its caller looks at.               *)
Reads(methods) == line.method \in methods /\ hdr.reading

Accept(sdp) ==
    /\ Reads({"DESCRIBE"})
    /\ hdr' = [hdr EXCEPT !.accept_sdp = sdp]
    /\ UNCHANGED <<state, line, offer, last, granted, fault>>

(* A CSeq or Session header without a number: the rest is not read.        *)
NoNumber ==
    /\ Reads({"SETUP", "DESCRIBE"})
    /\ hdr' = [hdr EXCEPT !.reading = FALSE]
    /\ offer' = [offer EXCEPT !.whole = FALSE]
    /\ UNCHANGED <<state, line, last, granted, fault>>

TransportHeader ==
    /\ Reads({"SETUP"}) /\ offer.headers < MaxHeaders
    /\ hdr' = [hdr EXCEPT !.idx = 0]
    /\ offer' = [offer EXCEPT !.headers = @ + 1]
    /\ UNCHANGED <<state, line, last, granted, fault>>

(* Peers are taken to offer at most MaxTransports specs in a header.       *)
TransportSpec(s) ==
    /\ Reads({"SETUP"}) /\ offer.headers > 0 /\ hdr.idx < MaxTransports
    /\ LET i == hdr.idx + 1
           stops == \E o \in Range(s.opts) : StopsReading(o)
       IN  /\ hdr' = [hdr EXCEPT !.idx = i,
                                 !.transport[i] = ReadSpec(@, s.udp, s.opts),
                                 !.reading = ~stops]
           /\ offer' = [offer EXCEPT !.usable = @ \/ OffersUdp(s.udp, s.opts),
                                     !.whole = ~stops]
    /\ UNCHANGED <<state, line, last, granted, fault>>

-----------------------------------------------------------------------------
HeadersSatisfy ==
    CASE line.method = "SETUP"    -> \E i \in Slots : Usable(hdr.transport[i])
      [] line.method = "DESCRIBE" -> hdr.accept_sdp
      [] OTHER                    -> TRUE

(* The request is answered, by RTSP_Handler::command; Session::process.    *)
Answer ==
    LET r == [method |-> line.method, version |-> line.version, ok |-> HeadersSatisfy]
    IN  /\ line # NoLine
        /\ last' = [method |-> line.method, reply |-> Reply(state, r), offer |-> offer]
        /\ state' = NextState(state, Command(state, r))
        /\ granted' = IF last'.reply = OK /\ line.method \in Effective
                      THEN granted \cup {line.method} ELSE granted
        /\ line' = NoLine /\ hdr' = NoHeader /\ offer' = NoOffer
        /\ UNCHANGED fault

Next == \/ \E m \in Methods, v \in Versions : Line(m, v)
        \/ \E sdp \in BOOLEAN : Accept(sdp)
        \/ NoNumber
        \/ TransportHeader
        \/ \E s \in Specs : TransportSpec(s)
        \/ Answer

Spec == Init /\ [][Next]_vars

-----------------------------------------------------------------------------
(* A session only ever plays, pauses or is torn down for a peer whose      *)
(* SETUP was granted earlier: the lists of Session::allowable and the      *)
(* transitions of Session::process agree (RTSP_Handler::play asserts it).  *)
(* And it reaches PLAY only by a PLAY that was granted as well, whatever   *)
(* the refused requests in between.                                        *)
SetupComesFirst ==
    /\ granted \cap {"PLAY", "PAUSE", "TEARDOWN"} # {} => "SETUP" \in granted
    /\ state = "PLAY" => {"SETUP", "PLAY"} \subseteq granted

(* A refused request changes nothing: the peer may try again from the      *)
(* state it was in (Parser::parse returns C_UNKNOWN on every error).       *)
RefusalIsHarmless ==
    [][last'.reply \notin {OK, NoReply} => state' = state]_vars

(* A session ends only by a TEARDOWN that was granted or by KILL.          *)
EndsOnRequest ==
    [][state' = "DEAD" => \/ last'.method = "KILL"
                          \/ last'.method = "TEARDOWN" /\ last'.reply = OK]_vars

(* A SETUP that was read to its end, with one Transport header of at most  *)
(* MaxTransports specs, is granted if and only if one of the specs is      *)
(* unicast UDP with two ports and names no mode or the bare word PLAY      *)
(* (rtsp_server.cpp:197 "search for a usable transport"): neither defaults *)
(* nor the order of options and specs matter.  PLAY in quotes is no bare   *)
(* word: such a spec is passed over.                                       *)
SetupIsFair ==
    /\ last.method = "SETUP" /\ last.reply \in {OK, UnsupportedTransport}
    /\ last.offer.headers <= 1 /\ last.offer.whole
    => (last.reply = OK) = last.offer.usable
=============================================================================
