---------------------------- MODULE RtspReceive ----------------------------
(***************************************************************************)
(* How a connection cuts its peer's byte stream into requests: the buffer  *)
(* of RtspClient::run (rtsp_server.cpp), searched with strstr for a blank  *)
(* line, and what LineParser and strtok of rtsp.cpp leave in it.           *)
(*                                                                         *)
(* A cell of the buffer is a character of one of five kinds and, as        *)
(* history, the number of the request it came in.                          *)
(***************************************************************************)
EXTENDS Naturals, Sequences, FiniteSets, SequencesExt

CONSTANTS Size,        \* sz, the buffer's length
          Shapes,      \* the requests peers send, as sequences of characters
          MaxRequests  \* bound: requests sent on one connection

Characters == {"text", "space", "CR", "LF"}
BlankLine == <<"CR", "LF", "CR", "LF">>   \* with the end of the line before

ASSUME SizeAssumption      == Size \in Nat \ {0}
ASSUME ShapesAssumption    == Shapes \subseteq Seq(Characters)
ASSUME RequestsAssumption  == MaxRequests \in Nat

(* Where a request has a blank line.  Peers send one at the end of each    *)
(* request, unless it is too long for the buffer, and no other.            *)
BlankLines(s) == {e \in 4 .. Len(s) : \A i \in 1 .. 4 : s[e - 4 + i] = BlankLine[i]}

ASSUME BlankLinesAssumption ==
    \A s \in Shapes : /\ BlankLines(s) \subseteq {Len(s)}
                      /\ Len(s) <= Size => Len(s) \in BlankLines(s)

VARIABLES buf,       \* buff
          idx,       \* where the next piece goes
          open,      \* run has not left its loop
          wire,      \* sent and not yet received
          requests,  \* history: what the peer has sent, request by request
          frames,    \* history: what Session::process was handed, in order
          ragged     \* history: a piece was of two requests, or was not all
                     \* of a request after the first

vars == <<buf, idx, open, wire, requests, frames, ragged>>

Cell == [of : 0 .. MaxRequests, c : Characters \cup {"NUL"}]
Nul == [of |-> 0, c |-> "NUL"]
Cells(n, shape) == [i \in 1 .. Len(shape) |-> [of |-> n, c |-> shape[i]]]

TypeOK == /\ buf \in [1 .. Size -> Cell]
          /\ idx \in 0 .. Size
          /\ open \in BOOLEAN
          /\ wire \in Seq(Cell)
          /\ requests \in Seq(Shapes) /\ Len(requests) <= MaxRequests
          /\ frames \in Seq(Seq(Cell))
          /\ ragged \in BOOLEAN

Init == /\ buf = [i \in 1 .. Size |-> Nul]
        /\ idx = 0 /\ open = TRUE
        /\ wire = <<>> /\ requests = <<>> /\ frames = <<>>
        /\ ragged = FALSE

-----------------------------------------------------------------------------
(* Where search("\r\n\r\n") finds a blank line to end: strstr reads on     *)
(* past the piece received, over what earlier requests left, to the first  *)
(* NUL.  (A full buffer has none; what lies behind it is taken not to      *)
(* match.)                                                                 *)
EndsInPiece(b) == {e \in 4 + idx .. Size :                   \* variant
              /\ \A i \in 1 .. 4 : b[e - 4 + i].c = BlankLine[i]
              /\ \A i \in 1 .. e : b[i] # Nul}

Ends(b) == {e \in 4 .. Size :
              /\ \A i \in 1 .. 4 : b[e - 4 + i].c = BlankLine[i]
              /\ \A i \in 1 .. e : b[i] # Nul}

FirstOf(set) == CHOOSE e \in set : \A f \in set : e <= f

EndsLine(b, p) == p < Size /\ b[p].c = "CR" /\ b[p + 1].c = "LF"

(* Lines the parser may have got to: the blank ones it skips, the first    *)
(* one, and as many of the headers as the request's handling reads.        *)
LastLines(b, end) ==
    {p \in 1 .. end - 2 :
       /\ EndsLine(b, p)
       /\ p = end - 3 \/ \E q \in 1 .. p : b[q].c \notin {"CR", "LF"}}

(* getline and strtok end their strings in place.                          *)
Parsed(b, last) ==
    [i \in 1 .. Size |->
       IF i <= last /\ (b[i].c = "space" \/ EndsLine(b, i)) THEN Nul ELSE b[i]]

(* What recv(& buff[idx], ...) makes of the buffer.                        *)
Filled(piece) ==
    [i \in 1 .. Size |-> IF i \in idx + 1 .. idx + Len(piece) THEN piece[i - idx]
                                                              ELSE buf[i]]

-----------------------------------------------------------------------------
(* A peer need not wait for its answer before it sends again.              *)
PeerSends(shape) ==
    /\ open /\ Len(requests) < MaxRequests
    /\ requests' = Append(requests, shape)
    /\ wire' = wire \o Cells(Len(requests) + 1, shape)
    /\ UNCHANGED <<buf, idx, open, frames, ragged>>

Ragged(k) == \/ wire[1].of # wire[k].of
             \/ wire[k].of > 1 /\ k < Len(wire) /\ wire[k + 1].of = wire[k].of

ReceiveUnbounded(k) ==                                    \* variant
    /\ open /\ k <= Len(wire)
    /\ wire' = SubSeq(wire, k + 1, Len(wire))
    /\ ragged' = (ragged \/ Ragged(k))
    /\ UNCHANGED requests

Receive(k) ==
    /\ open /\ k <= Len(wire) /\ k <= Size - idx
    /\ wire' = SubSeq(wire, k + 1, Len(wire))
    /\ ragged' = (ragged \/ Ragged(k))
    /\ UNCHANGED requests

NoBlock(k) ==
    LET b == Filled(SubSeq(wire, 1, k))
    IN  /\ Receive(k)
        /\ Ends(b) = {}
        /\ buf' = b /\ idx' = idx + k
        /\ UNCHANGED <<open, frames>>

(* After a request the buffer is taken to be empty and run goes on; unless *)
(* it was a TEARDOWN that left the session DEAD, or was KILL, which breaks *)
(* out of the loop first.  Which one it was is the session's affair.       *)
AfterRequest == \/ idx' = 0 /\ open' \in BOOLEAN
                \/ UNCHANGED idx /\ open' = FALSE

ProcessKeeps(k) ==                                        \* variant
    LET b == Filled(SubSeq(wire, 1, k))
    IN  /\ Receive(k)
        /\ Ends(b) # {}
        /\ LET end == FirstOf(Ends(b))
           IN  /\ frames' = Append(frames, SubSeq(b, 1, end))
               /\ \E last \in LastLines(b, end) : buf' = Parsed(b, last)
        /\ idx' = idx + k
        /\ open' \in BOOLEAN

ProcessWholePiece(k) ==                                   \* variant
    LET b == Filled(SubSeq(wire, 1, k))
    IN  /\ Receive(k)
        /\ Ends(b) # {}
        /\ frames' = Append(frames, SubSeq(b, 1, idx + k))
        /\ \E last \in LastLines(b, FirstOf(Ends(b))) : buf' = Parsed(b, last)
        /\ AfterRequest

Process(k) ==
    LET b == Filled(SubSeq(wire, 1, k))
    IN  /\ Receive(k)
        /\ Ends(b) # {}
        /\ LET end == FirstOf(Ends(b))
           IN  /\ frames' = Append(frames, SubSeq(b, 1, end))
               /\ \E last \in LastLines(b, end) : buf' = Parsed(b, last)
        /\ AfterRequest

(* With no room left recv returns nothing, as it does when a peer leaves.  *)
Full == /\ open /\ idx = Size
        /\ open' = FALSE
        /\ UNCHANGED <<buf, idx, wire, requests, frames, ragged>>

Next == \/ \E shape \in Shapes : PeerSends(shape)
        \/ \E k \in 1 .. Size : NoBlock(k) \/ Process(k)
        \/ Full

Spec == Init /\ [][Next]_vars

(* The connection's thread runs and what was sent arrives.                 *)
FairSpec ==
    Spec /\ WF_vars(Full \/ \E k \in 1 .. Size : NoBlock(k) \/ Process(k))

-----------------------------------------------------------------------------
(* The first request is handed to the parser as it was sent, however it    *)
(* was cut up on the way; so are all the others if each came by itself and *)
(* whole, whatever was left in the buffer.                                 *)
Framed == \A n \in 1 .. Len(frames) :
            n = 1 \/ ~ragged => /\ n <= Len(requests)
                               /\ frames[n] = Cells(n, requests[n])

(* All of a request is processed, or is still in the buffer, which a       *)
(* request that ends the session leaves for good.                          *)
Ended == ~open /\ idx < Size       \* by a request: Full leaves idx = Size

Totals(seqs) ==
    LET total[n \in 0 .. Len(seqs)] == IF n = 0 THEN 0 ELSE total[n - 1] + Len(seqs[n])
    IN  total

Total(seqs) == Totals(seqs)[Len(seqs)]

NothingDropped ==
    ~ragged => Total(requests) - Len(wire) = Total(frames) + IF Ended THEN 0 ELSE idx

(* Every request is processed if all come as above: only one that does not *)
(* fit the buffer, and one that ends the session, may keep those after it  *)
(* from their answers.                                                     *)
Fits(n) == \A i \in DOMAIN requests : i <= n => Len(requests[i]) <= Size

Answered ==
    \A n \in 1 .. MaxRequests :
        Len(requests) = n ~> Len(frames) >= n \/ ragged \/ ~Fits(n) \/ Ended

(* rtsp_server.cpp:414 "check for complete message": what is processed has *)
(* all come from the peer since the request processed last.                *)
CompleteMessages ==
    \A n \in 2 .. Len(frames) :
        \A i \in 1 .. Len(frames[n]) : frames[n][i].of > Last(frames[n - 1]).of
=============================================================================
