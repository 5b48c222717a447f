-------------------------- MODULE RtpStreamProofs --------------------------
(***************************************************************************)
(* What holds of RtpStream for any stored settings, any listeners, any     *)
(* pool and any width of the two counters.                                 *)
(***************************************************************************)
EXTENDS RtpStream, TLAPS

(* Max and Min of a set that has a greatest, a least member.               *)
LEMMA MaxIs ==
    ASSUME NEW S, \E x \in S : \A y \in S : x >= y
    PROVE  Max(S) \in S /\ \A y \in S : Max(S) >= y
  BY DEF Max

(* And the least, if it has one.                                           *)
LEMMA MinIs ==
    ASSUME NEW S, \E x \in S : \A y \in S : x <= y
    PROVE  Min(S) \in S /\ \A y \in S : Min(S) <= y
  BY DEF Min

(* The whole part of a quotient is a natural number.                       *)
LEMMA DivNat ==
    ASSUME NEW a \in Nat, NEW b \in Nat \ {0}
    PROVE  a \div b \in Nat
  OBVIOUS

-----------------------------------------------------------------------------
(* Whatever is stored, make_codec makes one of these: validators and       *)
(* defaults leave an Opus block one of five lengths.                       *)
OpusMade(c) == /\ c.name = "opus" /\ c.payload = 1275
               /\ c.samples \in {240, 480, 960, 1920, 2880}
               /\ c.fs \in ValidRates

Made(c) == /\ c \in Codec
           /\ \/ OpusMade(c)
              \/ c.name = "codec2" /\ c.fs = 8000
              \/ c = PcmCodec

(* What the validators let through of a rate.                              *)
LEMMA Ranges == \A r \in ValidRates : r \in Nat \ {0} /\ r >= 8000 /\ r <= 48000
<1> SUFFICES ASSUME NEW r \in ValidRates PROVE r \in Nat \ {0} /\ r >= 8000 /\ r <= 48000
  OBVIOUS
<1>1. r \in Nat /\ r >= 8000 /\ r <= MaxRate
  BY DEF ValidRates
<1>2. QED
  BY <1>1 DEF MaxRate

(* make_opus makes such a codec of any settings stored,                    *)
LEMMA OpusSettings ==
    ASSUME NEW stored, NEW c \in MakeOpus(stored)
    PROVE  Made(c)
<1>1. PICK g \in Creatable : /\ g = GetParams(OpusDefaults, OpusValid, stored)
                             /\ c = OpusOf(g)
  BY DEF MakeOpus
<1>2. g.packet_rate \in {5, 10, 20, 40, 60} /\ g.fs \in ValidRates
  <2>1. /\ {"packet_rate", "fs"} \subseteq DOMAIN OpusDefaults
        /\ OpusDefaults.packet_rate = 60 /\ OpusDefaults.fs = 48000
    BY DEF OpusDefaults
  <2>2. /\ OpusValid.packet_rate = {5, 10, 20, 40, 60}
        /\ OpusValid.fs = ValidRates
    BY DEF OpusValid
  <2>3. 48000 \in ValidRates
    BY DEF ValidRates, MaxRate
  <2>4. QED
    BY <1>1, <2>1, <2>2, <2>3 DEF GetParams
<1>3. g.chans \in 1 .. 2
  BY <1>1 DEF Creatable
<1>4. /\ c.name = "opus" /\ c.payload = 1275 /\ c.fs = g.fs
      /\ c.samples = g.packet_rate * 48
  BY <1>1 DEF OpusOf
<1>5. OpusMade(c)
  BY <1>2, <1>3, <1>4 DEF OpusMade
<1>6. c \in Codec
  <2>1. g.packet_rate * 48 \in Nat /\ 1275 \in Nat /\ g.fs \in Nat
    BY <1>2, <1>3, Ranges
  <2>2. QED
    BY <1>1, <1>3, <2>1 DEF OpusOf, Codec
<1>7. QED
  BY <1>5, <1>6 DEF Made

(* so does make_codec2,                                                    *)
LEMMA Codec2Settings ==
    ASSUME NEW stored, NEW c \in MakeCodec2(stored)
    PROVE  Made(c)
<1>1. PICK m \in Codec2Modes : c = Codec2Of(m)
  BY DEF MakeCodec2, GetParams, Codec2Valid, Codec2Modes
<1>2. Codec2Frame.samples[m] \in Nat /\ Codec2Frame.bytes[m] \in Nat
  BY <1>1 DEF Codec2Frame, Codec2Modes
<1>3. QED
  BY <1>1, <1>2 DEF Codec2Of, Made, Codec

(* and so make_codec, whatever name it is given.                           *)
LEMMA CodecsMade ==
    ASSUME NEW name, NEW stored, NEW c \in MakeCodec(name, stored)
    PROVE  Made(c)
<1>1. PcmCodec \in Codec
  BY DEF PcmCodec, Codec, SampleSize
<1>2. QED
  BY <1>1, OpusSettings, Codec2Settings DEF MakeCodec, MakePcm, Made

(* What encode() may return: never a negative size; not nothing at all for *)
(* a block sampled at 48 kHz; and for a sound codec no more than fits, and *)
(* no ASSERT fails on the way.                                             *)
LEMMA OpusSizesFit ==
    ASSUME NEW c, c \in Codec, OpusMade(c)
    PROVE  /\ EncodedSizes(c, RxBytes(c)) \subseteq Nat
           /\ c.fs = 48000 => 0 \notin EncodedSizes(c, RxBytes(c))
           /\ Sound(c) => /\ EncodedSizes(c, RxBytes(c)) # {}
                          /\ \A s \in EncodedSizes(c, RxBytes(c)) : s <= c.payload
<1>1. /\ c.samples \in {240, 480, 960, 1920, 2880} /\ c.samples \in Nat
      /\ c.fs \in Nat \ {0} /\ c.chans \in {1, 2} /\ c.payload = 1275
  BY Ranges DEF OpusMade, Codec
<1>2. PICK room, fit : room = RxBytes(c) /\ fit = OpusFit(c)
  OBVIOUS
<1>3. PICK limits, most : limits = {fit, room} /\ most = Min(limits)
  OBVIOUS
<1>4. fit \in Nat \ {0}
  <2>1. PICK slots \in Nat : slots = (c.samples * 50) \div c.fs
    BY <1>1, DivNat
  <2>2. PICK slotOrOne, frames : slotOrOne = {1, slots} /\ frames = Max(slotOrOne)
    OBVIOUS
  <2>3. \E x \in slotOrOne : \A y \in slotOrOne : x >= y
    <3>1. slots >= 1 \/ 1 >= slots
      BY <2>1
    <3>2. QED
      BY <2>1, <2>2, <3>1
  <2>4. frames \in slotOrOne /\ frames >= 1
    BY <2>2, <2>3, MaxIs
  <2>5. fit = 1277 * frames
    BY <1>2, <2>1, <2>2 DEF OpusFit
  <2>6. QED
    BY <2>1, <2>2, <2>4, <2>5
<1>5. room \in Nat \ {0}
  <2>1. room = c.samples * c.chans * 2
    BY <1>2 DEF RxBytes, SampleSize
  <2>2. CASE c.chans = 1
    BY <1>1, <2>1, <2>2
  <2>3. CASE c.chans = 2
    BY <1>1, <2>1, <2>3
  <2>4. QED
    BY <1>1, <2>2, <2>3
<1>6. most \in Nat \ {0} /\ most <= room
  <2>1. \E x \in limits : \A y \in limits : x <= y
    <3>1. fit <= room \/ room <= fit
      BY <1>4, <1>5
    <3>2. QED
      BY <1>3, <1>4, <1>5, <3>1
  <2>2. most \in limits /\ most <= room
    BY <1>3, <2>1, MinIs
  <2>3. QED
    BY <1>3, <1>4, <1>5, <2>2
<1>7. EncodedSizes(c, room) =
        IF c.fs \notin OpusRates THEN {} ELSE IF OpusFrame(c) THEN {1, most} ELSE {0}
  BY <1>2, <1>3 DEF EncodedSizes, OpusMade, OpusEncode, OpusSizes
<1>8. c.fs = 48000 => OpusFrame(c) /\ c.fs \in OpusRates
  BY <1>1 DEF OpusFrame, OpusRates
<1>9. Sound(c) => c.fs = 48000 /\ most <= c.payload
  BY <1>1, <1>2, <1>5, <1>6 DEF Sound
<1>10. CASE c.fs = 48000
  BY <1>1, <1>2, <1>6, <1>7, <1>8, <1>9, <1>10
<1>11. CASE c.fs # 48000
  BY <1>2, <1>6, <1>7, <1>9, <1>11
<1>12. QED
  BY <1>10, <1>11

(* The same of every codec that make_codec makes.                          *)
LEMMA SizesFit ==
    ASSUME NEW c, Made(c)
    PROVE  /\ EncodedSizes(c, RxBytes(c)) \subseteq Nat
           /\ c.fs = 48000 => 0 \notin EncodedSizes(c, RxBytes(c))
           /\ Sound(c) => /\ EncodedSizes(c, RxBytes(c)) # {}
                          /\ \A s \in EncodedSizes(c, RxBytes(c)) : s <= c.payload
<1>1. CASE OpusMade(c)
  BY <1>1, OpusSizesFit DEF Made
<1>2. CASE c.name = "codec2" /\ c.fs = 8000
  BY <1>2 DEF Made, Codec, EncodedSizes, Codec2Encode, Sound
<1>3. CASE c = PcmCodec
  BY <1>3 DEF PcmCodec, EncodedSizes, PcmEncode, RxBytes, SampleSize, Sound
<1>4. QED
  BY <1>1, <1>2, <1>3 DEF Made

-----------------------------------------------------------------------------
(* The buffer that is out of the pool is the encoder's; what a listener    *)
(* got last was the packet before the next; and a size that was encoded,   *)
(* like one that a listener got, is one that encode() may return.          *)
Out == IF pc \in {"encode", "send"} THEN 1 ELSE 0

PoolInv == pc # "stopped" => free + Out = NumBuffers

LastInv ==
    \A l \in Listeners :
        got[l] # Nothing =>
            /\ l \in playing
            /\ packet_seq = (got[l].seq + 1) % SeqMod
            /\ timestamp = (got[l].stamp + codec.samples) % StampMod

SizeInv ==
    /\ Made(codec)
    /\ pc = "send" => size \in EncodedSizes(codec, RxBytes(codec))
    /\ SoundCodecsStream

StreamInv == TypeOK /\ PoolInv /\ LastInv /\ SizeInv

USE NumBuffersAssumption, SeqModAssumption, StampModAssumption

(* No step of the engine or of a listener leaves StreamInv.                *)
LEMMA Invariance == Spec => []StreamInv
<1>1. Init => StreamInv
  <2> SUFFICES ASSUME Init PROVE StreamInv
    OBVIOUS
  <2>1. Made(codec)
    BY CodecsMade DEF Init
  <2>2. TypeOK
    BY <2>1 DEF Init, TypeOK, Made, Seqs, Stamps
  <2>3. PoolInv /\ LastInv
    BY DEF Init, PoolInv, Out, LastInv
  <2>4. SizeInv
    BY <2>1 DEF Init, SizeInv, SoundCodecsStream
  <2>5. QED
    BY <2>2, <2>3, <2>4 DEF StreamInv
<1>2. StreamInv /\ [Next]_vars => StreamInv'
  <2> SUFFICES ASSUME StreamInv, [Next]_vars PROVE StreamInv'
    OBVIOUS
  <2> USE DEF StreamInv, TypeOK, PoolInv, Out, LastInv, SizeInv, SoundCodecsStream
  <2>0. /\ codec.samples \in Nat /\ codec.payload \in Nat
        /\ PayloadType(codec) \in {96, 97, 98}
    BY DEF Codec, PayloadType
  <2>1. ASSUME NEW l \in Listeners, Play(l) PROVE StreamInv'
    BY <2>1 DEF Play
  <2>2. ASSUME NEW l \in Listeners, Leave(l) PROVE StreamInv'
    BY <2>2 DEF Leave
  <2>3. CASE Heard
    BY <2>3 DEF Heard
  <2>4. CASE GetFree
    BY <2>4 DEF GetFree
  <2>5. CASE Encode
    <3>1. EncodedSizes(codec, RxBytes(codec)) \subseteq Nat
      BY SizesFit
    <3>2. CASE EncodedSizes(codec, RxBytes(codec)) = {}
      <4>1. ~Sound(codec)
        BY <3>2, SizesFit
      <4>2. QED
        BY <2>5, <3>2, <4>1 DEF Encode, EncodeInto
    <3>3. CASE EncodedSizes(codec, RxBytes(codec)) # {}
      BY <2>5, <3>1, <3>3 DEF Encode, EncodeInto
    <3>4. QED
      BY <3>2, <3>3
  <2>6. CASE TooLong
    <3>1. ~Sound(codec)
      BY <2>0, <2>6, SizesFit DEF TooLong
    <3>2. QED
      BY <2>6, <3>1 DEF TooLong
  <2>7. CASE Send
    <3>1. /\ pc = "send" /\ pc' = "wait" /\ size' = 0
          /\ free' = free + 1 /\ UNCHANGED <<codec, playing>>
          /\ packet_seq' = (packet_seq + 1) % SeqMod
          /\ timestamp' = (timestamp + codec.samples) % StampMod
      BY <2>7 DEF Send, SendAnd
    <3> DEFINE sent == [payload |-> PayloadType(codec), seq |-> packet_seq,
                        stamp |-> timestamp, bytes |-> size]
    <3>2. got' = [l \in Listeners |-> IF l \in playing THEN sent ELSE got[l]]
      BY <2>7 DEF Send, SendAnd
    <3>3. /\ sent \in Header /\ sent.seq = packet_seq /\ sent.stamp = timestamp
          /\ sent.bytes = size
      BY <2>0 DEF Header
    <3> HIDE DEF sent
    <3>4. packet_seq' \in Seqs /\ timestamp' \in Stamps
      BY <2>0, <3>1 DEF Seqs, Stamps
    <3>5. TypeOK'
      BY <3>1, <3>2, <3>3, <3>4
    <3>6. LastInv'
      BY <3>1, <3>2, <3>3
    <3>7. codec.fs = 48000 => size > 0
      BY <3>1, SizesFit
    <3>8. SizeInv'
      BY <3>1, <3>2, <3>3, <3>7
    <3>9. QED
      BY <3>1, <3>5, <3>6, <3>8
  <2>8. CASE UNCHANGED vars
    BY <2>8 DEF vars
  <2>9. QED
    BY <2>1, <2>2, <2>3, <2>4, <2>5, <2>6, <2>7, <2>8 DEF Next
<1>3. QED
  BY <1>1, <1>2, PTL DEF Spec

(* Whatever codec the settings make, the counters stay within their widths *)
(* and the pool neither grows nor runs below nothing.                      *)
THEOREM TypeCorrect == Spec => []TypeOK
  BY Invariance, PTL DEF StreamInv

(* For a pool of any size every packet buffer is back before the next      *)
(* block asks for one.                                                     *)
THEOREM PoolComesBack == Spec => []PoolIsWhole
<1>1. StreamInv => PoolIsWhole
  BY DEF StreamInv, TypeOK, PoolInv, Out, PoolIsWhole
<1>2. QED
  BY <1>1, Invariance, PTL

(* For any stored settings: no codec at 48 kHz that has no more room than  *)
(* a packet ever meets an ASSERT, whatever the sizes of its packets, and   *)
(* no packet at 48 kHz is empty.                                           *)
THEOREM SoundCodecs == Spec => []SoundCodecsStream
  BY Invariance, PTL DEF StreamInv, SizeInv

(* For counters of any width and listeners who come and go as they like,   *)
(* what each gets in one PLAY is a run of consecutive packets.             *)
THEOREM Consecutive == Spec => Continuous
<1> DEFINE Steps ==
      \A l \in Listeners :
         Nothing \notin {got[l], got'[l]} /\ got'[l] # got[l] =>
             /\ got'[l].seq = (got[l].seq + 1) % SeqMod
             /\ got'[l].stamp = (got[l].stamp + codec.samples) % StampMod
<1>1. StreamInv /\ [Next]_vars => [Steps]_vars
  <2> SUFFICES ASSUME StreamInv, Next, NEW l \in Listeners,
                      got[l] # Nothing, got'[l] # Nothing, got'[l] # got[l]
               PROVE  /\ got'[l].seq = (got[l].seq + 1) % SeqMod
                      /\ got'[l].stamp = (got[l].stamp + codec.samples) % StampMod
    OBVIOUS
  <2> USE DEF StreamInv, TypeOK
  <2>1. CASE Send
    BY <2>1 DEF Send, SendAnd, LastInv
  <2>2. CASE ~Send
    <3>1. ASSUME NEW k \in Listeners, Leave(k) PROVE FALSE
      BY <3>1 DEF Leave
    <3>2. got' # got
      OBVIOUS
    <3>3. QED
      BY <2>2, <3>1, <3>2 DEF Next, Play, Heard, GetFree, Encode, EncodeInto, TooLong
  <2>3. QED
    BY <2>1, <2>2
<1>2. QED
  BY <1>1, Invariance, PTL DEF Spec, Continuous
=============================================================================
