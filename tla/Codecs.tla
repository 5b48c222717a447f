------------------------------- MODULE Codecs -------------------------------
(***************************************************************************)
(* The audio codecs as the engine and the encoder thread see them: what    *)
(* AudioCodec::make_codec builds from the stored settings, and the sizes   *)
(* that codec, engine and reader must agree on.  Constant-level.           *)
(***************************************************************************)
EXTENDS Integers, FiniteSetsExt

(* A codec: samples_per_packet, num_chans, max_payload_size, network_order *)
(* and sample_rate.                                                        *)
Codec == [name : {"opus", "codec2", "pcm"}, samples : Nat, chans : 1 .. 2,
          payload : Nat, swapped : BOOLEAN, fs : Nat]

SampleSize == 2   \* sizeof(int16_t), sample_size() of every codec

(* panglos Storage::get_params: a stored setting replaces the default if   *)
(* it passes its validator, that is if it is one of the values valid.      *)
GetParams(defaults, valid, stored) ==
    [key \in DOMAIN defaults |->
       IF key \in DOMAIN stored /\ stored[key] \in valid[key] THEN stored[key]
                                                            ELSE defaults[key]]

-----------------------------------------------------------------------------
(* Opus                                                                    *)

OpusDefaults == [bit_rate |-> 96000, complexity |-> 5, packet_rate |-> 60,
                 fs |-> 48000, chans |-> 2, app |-> 1]

MaxBitRate == 510000
BitRates == 6000 .. MaxBitRate      \* those create asserts
ValidBitRates == 5000 .. MaxBitRate
MaxRate == 48000
ValidRates == 8000 .. MaxRate

OpusValid == [bit_rate |-> ValidBitRates, complexity |-> 0 .. 10,
              packet_rate |-> {5, 10, 20, 40, 60}, fs |-> ValidRates,
              chans |-> 1 .. 2, app |-> {1, 2}]

(* AudioCodec::create asserts more than the validators ask for.            *)
Creatable == [bit_rate : BitRates, complexity : 0 .. 10, packet_rate : Nat,
              fs : Nat \ {0}, chans : 1 .. 2, app : 1 .. 2]

(* A frame is reckoned at 48 samples per ms, whatever fs is.               *)
OpusOf(c) ==
    [name |-> "opus", samples |-> c.packet_rate * 48, chans |-> c.chans,
     payload |-> 1275, swapped |-> FALSE, fs |-> c.fs]

MakeOpus(stored) ==
    {OpusOf(c) : c \in {GetParams(OpusDefaults, OpusValid, stored)} \cap Creatable}

(* libopus: the rates opus_encoder_create takes, the sizes opus_encode     *)
(* does, and its output, at least a byte and at most what it is given room *)
(* for and what a packet can be: for each 20 ms a frame of 1275 bytes and  *)
(* two of headers (RFC 6716, 3.2).  The bit rate that make_encoder sets is *)
(* no limit: VBR is left on, and a packet may be larger than its share.    *)
OpusRates == {8000, 12000, 16000, 24000, 48000}

OpusFrame(c) == \E ms \in {5, 10, 20, 40, 60, 80, 100, 120} : c.samples * 1000 = ms * c.fs

OpusFit(c) == 1277 * Max({1, (c.samples * 50) \div c.fs})

OpusSizes(c, room) == {1, Min({OpusFit(c), room})}

OpusEncode(c, room) == IF c.fs \notin OpusRates THEN {}
                       ELSE IF OpusFrame(c) THEN OpusSizes(c, room) ELSE {0}

-----------------------------------------------------------------------------
(* Codec2 and PCM                                                          *)

(* The modes of codec2.h, with their samples and bytes per frame.          *)
Codec2Modes == {0, 1, 2, 3, 4, 5, 8}

Codec2Frame == [samples |-> [mode \in Codec2Modes |-> IF mode \in {0, 1} THEN 160 ELSE 320],
                bytes |-> [mode \in Codec2Modes |-> CASE mode \in {0, 2} -> 8
                                                     [] mode \in {3, 4} -> 7
                                                     [] mode \in {1, 5} -> 6
                                                     [] mode = 8        -> 4]]

Codec2Valid == [mode |-> Codec2Modes]

Codec2Of(mode) ==
    [name |-> "codec2", samples |-> Codec2Frame.samples[mode], chans |-> 1,
     payload |-> Codec2Frame.bytes[mode], swapped |-> FALSE, fs |-> 8000]

MakeCodec2(stored) == {Codec2Of(GetParams([mode |-> 1], Codec2Valid, stored).mode)}

Codec2Encode(c, room) == IF room = c.payload THEN {c.payload} ELSE {}

PcmCodec == [name |-> "pcm", samples |-> 360, chans |-> 2,
             payload |-> 360 * 2 * SampleSize, swapped |-> TRUE, fs |-> 48000]

(* The settings are read and shown, and a constant configuration is used.  *)
MakePcm(stored) == {PcmCodec}

PcmEncode(c, room) ==
    LET size == c.samples * c.chans * SampleSize
    IN  IF size <= room THEN {size} ELSE {}

-----------------------------------------------------------------------------
(* What make_codec makes: nothing if it knows no such name or stops at an  *)
(* ASSERT.                                                                 *)
MakeCodec(name, stored) ==
    CASE name = "opus"   -> MakeOpus(stored)
      [] name = "codec2" -> MakeCodec2(stored)
      [] name = "pcm"    -> MakePcm(stored)
      [] OTHER           -> {}

(* The sizes encode() may return when there is room for that many bytes;   *)
(* none if it stops at an ASSERT.                                          *)
EncodedSizes(c, room) ==
    CASE c.name = "opus"   -> OpusEncode(c, room)
      [] c.name = "codec2" -> Codec2Encode(c, room)
      [] c.name = "pcm"    -> PcmEncode(c, room)

PayloadType(c) == CASE c.name = "pcm" -> 96 [] c.name = "opus" -> 97 [] c.name = "codec2" -> 98

(* RTP_Engine::rx_bytes: the length of the reader's buffers.               *)
RxBytes(c) == c.samples * c.chans * SampleSize
=============================================================================
