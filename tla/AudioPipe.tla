----------------------------- MODULE AudioPipe -----------------------------
(***************************************************************************)
(* From the microphone to the encoder: the reader thread fills the buffers *)
(* of _Reader in turn and queues each (utils.cpp), the encoder thread      *)
(* takes them off the queue and encodes them in place (audio_copy), the    *)
(* server thread shuts both down (server.cpp).  No lock covers a buffer:   *)
(* the reader comes round to it again NBlocks frames later.                *)
(*                                                                         *)
(* A frame is the audio of one packet, read from the source in Parts       *)
(* pieces; its label counts modulo Frames (NBlocks + 3 labels tell apart   *)
(* all the frames about at one time).                                      *)
(***************************************************************************)
EXTENDS Naturals, Sequences

CONSTANTS NBlocks,      \* buffers of the reader, and the queue's length
          Parts,        \* reads of the source that make a full buffer
          Frames,       \* labels of the frames
          SourceFails   \* the source may return nothing

ASSUME NBlocksAssumption == NBlocks \in Nat \ {0}
ASSUME PartsAssumption   == Parts \in Nat \ {0}
ASSUME FramesAssumption  == Frames \in Nat /\ Frames > 1
ASSUME SourceAssumption  == SourceFails \in BOOLEAN

VARIABLES dead,    \* the flag both threads poll
          rpc,     \* where the reader thread is
          idx,     \* _Reader::idx, the buffer the next acquire will fill
          fill,    \* parts read into the buffer being filled
          frame,   \* the frame being read, or read last
          buf,     \* for each buffer and part, the frame it is of
          onTime,  \* history: the encoder has met every deadline so far
          queue,   \* the blocks put and not yet taken
          epc,     \* where the encoder thread is
          msg,     \* the block it took last
          got,     \* the parts of it the codec has read
          main     \* where the server thread is

reader == <<rpc, idx, fill, frame, buf, onTime>>
encoder == <<epc, msg, got>>
vars == <<dead, reader, queue, encoder, main>>

Labels == 0 .. Frames - 1
Succ(f) == (f + 1) % Frames
Buffers == 0 .. NBlocks - 1
Block == [data : Buffers, bytes : 0 .. Parts, frame : Labels]

Blank == [b \in Buffers |-> [p \in 1 .. Parts |-> 0]]

TypeOK == /\ dead \in BOOLEAN
          /\ rpc \in {"check", "read", "put", "done"}
          /\ idx \in Buffers
          /\ fill \in 0 .. Parts
          /\ frame \in Labels
          /\ buf \in [Buffers -> [1 .. Parts -> Labels]]
          /\ onTime \in BOOLEAN
          /\ queue \in Seq(Block)
          /\ epc \in {"check", "get", "encode", "done"}
          /\ msg \in Block
          /\ got \in Seq(Labels)
          /\ main \in {"serve", "join_encoder", "join_reader", "deleted"}

Init == /\ dead = FALSE
        /\ rpc = "check" /\ idx = 0 /\ fill = 0 /\ frame = 0
        /\ buf = Blank
        /\ onTime = TRUE
        /\ queue = <<>>
        /\ epc = "check" /\ got = <<>>
        /\ msg = [data |-> 0, bytes |-> 0, frame |-> 0]
        /\ main = "serve"

-----------------------------------------------------------------------------
(* The reader thread: _Reader::run and acquire.                            *)

Filling == (idx + NBlocks - 1) % NBlocks   \* what acquire took from data[idx]

(* The labels are history, and are kept up while the encoder is on time.   *)
NextFrame == frame' = IF onTime THEN Succ(frame) ELSE 0

Label(p) == buf' = IF onTime THEN [buf EXCEPT ![Filling][p] = frame] ELSE Blank

ReaderStops == /\ rpc = "check" /\ dead
               /\ rpc' = "done"
               /\ UNCHANGED <<dead, idx, fill, frame, buf, onTime, queue, encoder, main>>

AcquireSameBuffer == /\ rpc = "check" /\ ~dead            \* variant
                     /\ rpc' = "read" /\ fill' = 0 /\ NextFrame
                     /\ UNCHANGED <<dead, idx, buf, onTime, queue, encoder, main>>

AcquireNoWrap == /\ rpc = "check" /\ ~dead                \* variant
                 /\ rpc' = "read" /\ fill' = 0 /\ NextFrame
                 /\ idx' = idx + 1
                 /\ UNCHANGED <<dead, buf, onTime, queue, encoder, main>>

Acquire == /\ rpc = "check" /\ ~dead
           /\ rpc' = "read" /\ fill' = 0 /\ NextFrame
           /\ idx' = (idx + 1) % NBlocks
           /\ UNCHANGED <<dead, buf, onTime, queue, encoder, main>>

(* The timing a board must meet: when the reader has the next block ready  *)
(* the encoder has taken the block before and has done with it.            *)
InTime == epc = "done" \/ (epc # "encode" /\ queue = <<>>)

Ready == rpc' = "put" /\ onTime' = (onTime /\ InTime)

ReadPart == /\ rpc = "read"
            /\ Label(fill + 1)
            /\ fill' = fill + 1
            /\ IF fill' = Parts THEN Ready ELSE UNCHANGED <<rpc, onTime>>
            /\ UNCHANGED <<dead, idx, frame, queue, encoder, main>>

ReadNothing == /\ rpc = "read" /\ SourceFails
               /\ Ready
               /\ UNCHANGED <<dead, idx, fill, frame, buf, queue, encoder, main>>

PutIf(room) ==
    /\ rpc = "put"
    /\ queue' = IF room THEN Append(queue, [data |-> Filling, bytes |-> fill,
                                            frame |-> frame])
                        ELSE queue
    /\ rpc' = IF fill = 0 THEN "done" ELSE "check"
    /\ UNCHANGED <<dead, idx, fill, frame, buf, onTime, encoder, main>>

PutToWaiting == PutIf(epc = "get" /\ queue = <<>>)        \* variant

(* A block, short or not, is put; a full queue refuses it unnoticed.       *)
Put == PutIf(Len(queue) < NBlocks)

Reader == ReaderStops \/ Acquire \/ ReadPart \/ ReadNothing \/ Put

-----------------------------------------------------------------------------
(* The encoder thread: audio_copy.                                         *)

EncoderStops == /\ epc = "check" /\ dead
                /\ epc' = "done"
                /\ UNCHANGED <<dead, reader, queue, msg, got, main>>

EncoderLoopsUnchecked == /\ epc = "check"                 \* variant
                         /\ epc' = "get"
                         /\ UNCHANGED <<dead, reader, queue, msg, got, main>>

EncoderLoops == /\ epc = "check" /\ ~dead
                /\ epc' = "get"
                /\ UNCHANGED <<dead, reader, queue, msg, got, main>>

TakeAnd(next) == /\ epc = "get" /\ queue # <<>>
                 /\ msg' = Head(queue) /\ queue' = Tail(queue)
                 /\ epc' = next
                 /\ UNCHANGED <<dead, reader, got, main>>

TakeUnheard == TakeAnd("check")   \* has_clients says there are none

Take == TakeAnd("encode")

(* The codec reads a whole packet's worth, whatever the block's length.    *)
EncodePart == /\ epc = "encode" /\ Len(got) < Parts
              /\ got' = Append(got, buf[msg.data][Len(got) + 1])
              /\ UNCHANGED <<dead, reader, queue, epc, msg, main>>

Send == /\ epc = "encode" /\ Len(got) = Parts
        /\ epc' = "check" /\ got' = <<>>
        /\ UNCHANGED <<dead, reader, queue, msg, main>>

Encoder == \/ EncoderStops \/ EncoderLoops \/ TakeUnheard \/ Take
           \/ EncodePart \/ Send

-----------------------------------------------------------------------------
(* The server thread, once rtsp_server has returned.                       *)

Kill == /\ main = "serve"
        /\ dead' = TRUE /\ main' = "join_encoder"
        /\ UNCHANGED <<reader, queue, encoder>>

JoinEncoder == /\ main = "join_encoder" /\ epc = "done"
               /\ main' = "join_reader"
               /\ UNCHANGED <<dead, reader, queue, encoder>>

JoinReader == /\ main = "join_reader" /\ rpc = "done"
              /\ main' = "deleted"
              /\ UNCHANGED <<dead, reader, queue, encoder>>

Next == Reader \/ Encoder \/ Kill \/ JoinEncoder \/ JoinReader

Spec == Init /\ [][Next]_vars

(* Both threads run and the source delivers; nothing obliges a KILL.       *)
FairSpec == /\ Spec
            /\ WF_vars(Reader) /\ WF_vars(Encoder)
            /\ WF_vars(JoinEncoder \/ JoinReader)

-----------------------------------------------------------------------------
(* The codec sees one frame: what was read of it has not been overwritten  *)
(* by the reader since it was queued (utils.cpp:79 "multiple reads until   *)
(* we have a full buffer"; the rest of a short block is stale).            *)
NoTear == onTime /\ epc = "encode" =>
            \A p \in 1 .. Len(got) : p <= msg.bytes => got[p] = msg.frame

(* Every frame read reaches the encoder, in order: the block taken last,   *)
(* those queued and the one being read are consecutive.  The result of     *)
(* queue->put is not looked at, so a frame refused would go unnoticed.     *)
InOrder ==
    LET line == <<msg>> \o queue
        last == line[Len(line)].frame
    IN  onTime =>
          /\ \A i \in 1 .. Len(queue) : line[i + 1].frame = Succ(line[i].frame)
          /\ frame = IF rpc \in {"read", "put"} THEN Succ(last) ELSE last

(* A frame that has been read is taken by the encoder, unless it is late   *)
(* or the server is shutting down.                                         *)
AudioFlows ==
    \A f \in Labels :
        rpc = "put" /\ frame = f ~> msg.frame = f \/ dead \/ ~onTime

(* What is sure of a shutdown: the reader stops after the block it is      *)
(* reading, and everything is joined and deleted if the encoder is told    *)
(* while it has a block, or while one is on its way to it.                 *)
BusyPipeShutsDown ==
    /\ dead ~> rpc = "done"
    /\ main = "join_encoder" /\ (epc # "get" \/ queue # <<>> \/ rpc \in {"read", "put"})
         ~> main = "deleted"

(* server.cpp:83 "kill the RTP thread too": once the RTSP server is down,  *)
(* both threads are stopped and joined and the engine is deleted.          *)
ShutdownCompletes == main = "join_encoder" ~> main = "deleted"
=============================================================================
