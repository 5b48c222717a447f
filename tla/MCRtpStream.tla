---------------------------- MODULE MCRtpStream ----------------------------
(* Instances of RtpStream for TLC.                                         *)
EXTENDS RtpStream

Opus(bit_rate, packet_rate, fs, chans) ==
    [name |-> "opus", stored |-> [bit_rate |-> bit_rate, packet_rate |-> packet_rate,
                                  fs |-> fs, chans |-> chans]]

(* Bit rates at and below the two lower limits and the upper limit, every  *)
(* kind of block about the one that fills a packet; a packet_rate of 30 is *)
(* not valid.  Codec2 in five of its modes, some not valid.                *)
SomeSettings ==
    {Opus(b, p, f, c) : b \in {4999, 5999, 6000, 510000}, p \in {5, 10, 20, 30, 60},
                        f \in {16000, 44100, 48000}, c \in {1, 2}}
    \cup {[name |-> n, stored |-> [chans |-> 1]] : n \in {"opus", "pcm", "wrong"}}
    \cup {[name |-> "codec2", stored |-> [mode |-> m]] : m \in {0, 1, 4, 6, 8}}
=============================================================================
