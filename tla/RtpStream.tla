----------------------------- MODULE RtpStream -----------------------------
(***************************************************************************)
(* The packets of a stream: the encoder thread (audio_copy of utils.cpp)   *)
(* takes blocks of audio, gets a packet buffer from the engine's pool,     *)
(* encodes into it and sends it with the next sequence number and the next *)
(* timestamp (rtp.cpp) to those on the list, who come and go.              *)
(***************************************************************************)
EXTENDS Codecs, Sequences

CONSTANTS Settings,    \* the codec names and stored settings of boards
          Listeners,   \* connections that may play
          NumBuffers,  \* packet buffers of the engine (server.cpp:54)
          SeqMod,      \* 2^16, scaled down
          StampMod     \* 2^32, scaled down

ASSUME NumBuffersAssumption == NumBuffers \in Nat \ {0}
ASSUME SeqModAssumption     == SeqMod \in Nat /\ SeqMod > 1
ASSUME StampModAssumption   == StampMod \in Nat /\ StampMod > 1

VARIABLES codec,      \* AudioCodec of the board, fixed
          free,       \* packet buffers in the pool
          pc,         \* where the encoder is, "stopped" at a failed ASSERT
          size,       \* bytes encoded
          packet_seq, \* RTP_Engine::packet_seq
          timestamp,  \* RTP_Engine::timestamp
          playing,    \* who is on the list
          got         \* what of each packet a listener got last, while it plays

vars == <<codec, free, pc, size, packet_seq, timestamp, playing, got>>

Seqs == 0 .. SeqMod - 1
Stamps == 0 .. StampMod - 1
Header == [payload : {96, 97, 98}, seq : Seqs, stamp : Stamps, bytes : Nat]
Nothing == [payload |-> 0]

TypeOK == /\ codec \in Codec
          /\ free \in 0 .. NumBuffers
          /\ pc \in {"wait", "get", "encode", "send", "stopped"}
          /\ size \in Nat
          /\ packet_seq \in Seqs /\ timestamp \in Stamps
          /\ playing \subseteq Listeners
          /\ got \in [Listeners -> Header \cup {Nothing}]

(* The engine's constructor.  A board without a codec, or that stops as it *)
(* makes one, serves nobody.                                               *)
Init == /\ \E s \in Settings : codec \in MakeCodec(s.name, s.stored)
        /\ free = NumBuffers
        /\ pc = "wait" /\ size = 0
        /\ packet_seq = 1 /\ timestamp = 0
        /\ playing = {}
        /\ got = [l \in Listeners |-> Nothing]

-----------------------------------------------------------------------------
(* A connection's PLAY, and its PAUSE, TEARDOWN or end.                    *)
Play(l) == /\ pc # "stopped" /\ l \notin playing
           /\ playing' = playing \cup {l}
           /\ UNCHANGED <<codec, free, pc, size, packet_seq, timestamp, got>>

Leave(l) == /\ pc # "stopped" /\ l \in playing
            /\ playing' = playing \ {l}
            /\ got' = [got EXCEPT ![l] = Nothing]
            /\ UNCHANGED <<codec, free, pc, size, packet_seq, timestamp>>

(* A block of audio is read; if has_clients finds none it is dropped.      *)
Heard == /\ pc = "wait" /\ playing # {}
         /\ pc' = "get"
         /\ UNCHANGED <<codec, free, size, packet_seq, timestamp, playing, got>>

(* If the pool were empty the audio would be dropped ("no free blocks!").  *)
GetFree == /\ pc = "get" /\ free > 0
           /\ free' = free - 1 /\ pc' = "encode"
           /\ UNCHANGED <<codec, size, packet_seq, timestamp, playing, got>>

EncodeInto(room) ==
    LET sizes == EncodedSizes(codec, room)
    IN  /\ pc = "encode"
        /\ IF sizes = {} THEN pc' = "stopped" /\ UNCHANGED size
                         ELSE pc' = "send" /\ size' \in sizes
        /\ UNCHANGED <<codec, free, packet_seq, timestamp, playing, got>>

EncodeOneChannel == EncodeInto(SampleSize * codec.samples)  \* variant

(* The codec is told of as much room as the block of audio has.            *)
Encode == EncodeInto(RxBytes(codec))

(* RTP_Engine::send, up to its ASSERT and from there on.                   *)
TooLong == /\ pc = "send" /\ size > codec.payload
           /\ pc' = "stopped"
           /\ UNCHANGED <<codec, free, size, packet_seq, timestamp, playing, got>>

SendAnd(recycled, step, hearers) ==
    /\ pc = "send" /\ size <= codec.payload
    /\ packet_seq' = (packet_seq + 1) % SeqMod
    /\ timestamp' = (timestamp + step) % StampMod
    /\ got' = [l \in Listeners |->
                 IF l \in hearers
                 THEN [payload |-> PayloadType(codec), seq |-> packet_seq,
                       stamp |-> timestamp, bytes |-> size]
                 ELSE got[l]]
    /\ free' = free + recycled
    /\ pc' = "wait" /\ size' = 0
    /\ UNCHANGED <<codec, playing>>

SendLosingBlock == SendAnd(0, codec.samples, playing)     \* variant
SendRecyclingTwice == SendAnd(2, codec.samples, playing)  \* variant
SendStampBytes == SendAnd(1, size, playing)               \* variant

Send == SendAnd(1, codec.samples, playing)

Next == \/ \E l \in Listeners : Play(l) \/ Leave(l)
        \/ Heard \/ GetFree \/ Encode \/ TooLong \/ Send

Spec == Init /\ [][Next]_vars

-----------------------------------------------------------------------------
(* Every packet buffer is back in the pool before the next block needs     *)
(* one, so that audio is never dropped for want of it.                     *)
PoolIsWhole == pc \in {"wait", "get"} => free = NumBuffers

(* Two packets that a listener gets one after the other are consecutive    *)
(* and a block apart, over every wrap and whoever else comes and goes.     *)
Continuous ==
    [][\A l \in Listeners :
         Nothing \notin {got[l], got'[l]} /\ got'[l] # got[l] =>
             /\ got'[l].seq = (got[l].seq + 1) % SeqMod
             /\ got'[l].stamp = (got[l].stamp + codec.samples) % StampMod]_vars

(* At 48 kHz a codec whose packets are not larger than its audio meets no  *)
(* ASSERT (rtp.cpp:187 "not enough space for payload"), for the room it is *)
(* told of is that of the audio, and however much of it a packet takes it  *)
(* is sent: so with PCM, Opus of 5 ms and mono Opus of 10 ms, at any bit   *)
(* rate.  And no packet at 48 kHz is empty: each block is a frame to Opus. *)
Sound(c) == c.fs = 48000 /\ RxBytes(c) <= c.payload

SoundCodecsStream ==
    /\ pc = "stopped" => ~Sound(codec)
    /\ \A l \in Listeners :
         got[l] # Nothing /\ codec.fs = 48000 => got[l].bytes > 0
=============================================================================
