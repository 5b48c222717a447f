--------------------------- MODULE WavFileProofs ---------------------------
(***************************************************************************)
(* What holds of WavFile for any sizes of writes, blocks and files, any    *)
(* number of openings and any width of the header's fields: the recording  *)
(* first, then its playback.                                               *)
(***************************************************************************)
EXTENDS WavFile, TLAPS

USE KindsAssumption, WritesAssumption, BoundsAssumption, BlockAssumption, WrapAssumption
    DEF sink, source

Header == [tags : SUBSET Tags, FormatSize : Nat, PcmFlags : Nat, Channels : Nat,
           SampleRate : Nat, ByteRate : Nat, BlockAlign : Nat, BitDepth : Nat,
           ChunkSize : 0 .. Wrap - 1, DataSize : 0 .. Wrap - 1]

DiskType == [header : Header, body : 0 .. MaxBody]

(* The headers that a sink writes and a lost one are headers; a sink's own *)
(* is one that a source accepts.                                           *)
LEMMA Headers ==
    /\ NewHeader \in Header /\ Accepted(NewHeader)
    /\ NoHeader \in Header /\ Empty \in DiskType
<1>1. NewHeader \in Header /\ Accepted(NewHeader)
  BY DEF NewHeader, Header, Accepted, Tags
<1>2. NoHeader = [tags |-> {}, FormatSize |-> 0, PcmFlags |-> 0, Channels |-> 0,
                  SampleRate |-> 0, ByteRate |-> 0, BlockAlign |-> 0,
                  BitDepth |-> 0, ChunkSize |-> 0, DataSize |-> 0]
  BY DEF NoHeader, NewHeader
<1>3. NoHeader \in Header
  BY <1>2 DEF Header
<1>4. QED
  BY <1>1, <1>3 DEF Empty, DiskType

(* What the disk may hold after a close or a delete that lost some of it.  *)
LEMMA LostDisk ==
    ASSUME disk \in DiskType, NEW d \in Lost
    PROVE  /\ d \in DiskType /\ d.body <= disk.body
           /\ d = Empty \/ d.header = disk.header
<1>1. CASE d = Empty
  BY <1>1, Headers DEF Empty, DiskType
<1>2. ASSUME NEW b \in 0 .. disk.body, d = [disk EXCEPT !.body = b]
      PROVE  d \in DiskType /\ d.body <= disk.body /\ d.header = disk.header
  BY <1>2 DEF DiskType
<1>3. QED
  BY <1>1, <1>2 DEF Lost

(* The two sizes are all that close changes of the header.                 *)
LEMMA PatchedDisk ==
    ASSUME disk \in DiskType, written \in Nat, NEW done \in Nat
    PROVE  LET d == Patched(done, ChunkSizeOf(written))
           IN  /\ d \in DiskType /\ d.body = disk.body
               /\ Accepted(disk.header) => Accepted(d.header)
               /\ kind = "wav" /\ done >= 3 =>
                    /\ d.header.ChunkSize = ChunkSizeOf(written)
                    /\ d.header.DataSize = written % Wrap
<1> DEFINE d == Patched(done, ChunkSizeOf(written))
           h == disk.header
<1>1. ChunkSizeOf(written) \in 0 .. Wrap - 1 /\ written % Wrap \in 0 .. Wrap - 1
  BY DEF ChunkSizeOf, HeaderBytes
<1>2. PICK chunk, data :
        /\ chunk = IF kind = "wav" /\ done >= 2 THEN ChunkSizeOf(written) ELSE h.ChunkSize
        /\ data = IF kind = "wav" /\ done >= 3 THEN written % Wrap ELSE h.DataSize
  OBVIOUS
<1>3. h \in Header /\ disk.body \in 0 .. MaxBody
  BY DEF DiskType
<1>4. chunk \in 0 .. Wrap - 1 /\ data \in 0 .. Wrap - 1
  BY <1>1, <1>2, <1>3 DEF Header
<1>5. d.header = [h EXCEPT !.ChunkSize = chunk, !.DataSize = data] /\ d.body = disk.body
  BY <1>2 DEF Patched, DiskType, Header
<1>6. d.header \in Header
  BY <1>3, <1>4, <1>5 DEF Header
<1>7. d \in DiskType
  BY <1>2, <1>3, <1>5, <1>6 DEF Patched, DiskType
<1>8. Accepted(h) => Accepted(d.header)
  BY <1>3, <1>5 DEF Header, Accepted
<1>9. d.header.ChunkSize = chunk /\ d.header.DataSize = data
  BY <1>3, <1>5 DEF Header
<1>10. QED
  BY <1>2, <1>5, <1>7, <1>8, <1>9

(* What a call of close may do to the sink and the file.                   *)
LEMMA CloseStep ==
    ASSUME Close, kind \in Kinds
    PROVE  /\ phase = "open" /\ UNCHANGED <<kind, written, opens, clean, onDone, source>>
           /\ headed' = (headed /\ disk' # Empty)
           /\ disk' \in Lost \cup {Patched(d, ChunkSizeOf(written)) : d \in 0 .. StageCount}
           /\ \/ /\ told' = "ok" /\ phase' = "idle" /\ file' = "null"
                 /\ disk' = Patched(StageCount, ChunkSizeOf(written))
              \/ told' = "failed" /\ phase' = "failed" /\ file' \in {"open", "dangling"}
<1>1. PICK done \in 0 .. StageCount :
         LET failed == IF done < StageCount THEN Stages[done + 1] ELSE "none"
         IN  /\ told' = IF failed = "none" THEN "ok" ELSE "failed"
             /\ file' = CASE failed = "none"   -> "null"
                          [] failed = "fclose" -> "dangling"
                          [] OTHER             -> "open"
             /\ phase' = IF failed = "none" THEN "idle" ELSE "failed"
             /\ disk' \in CASE failed = "fflush" -> Lost
                            [] failed = "fclose" ->
                                 Lost \cup {Patched(d, ChunkSizeOf(written)) : d \in 0 .. done}
                            [] OTHER             -> {Patched(done, ChunkSizeOf(written))}
             /\ headed' = (headed /\ disk' # Empty)
  BY DEF Close, CloseWith
<1>2. StageCount \in Nat
  BY DEF StageCount
<1>3. CASE done = StageCount
  BY <1>1, <1>2, <1>3 DEF Close, CloseWith
<1>4. CASE done < StageCount
  <2>1. Stages[done + 1] \in {"fflush", "ChunkSize", "DataSize", "fseek", "fclose"}
    BY <1>1, <1>2, <1>4 DEF Stages, StageCount
  <2>2. QED
    BY <1>1, <1>2, <1>4, <2>1 DEF Close, CloseWith
<1>5. QED
  BY <1>1, <1>2, <1>3, <1>4

-----------------------------------------------------------------------------
(* What k recordings of at most MaxBody bytes may add up to.               *)
LEMMA WrittenType ==
    ASSUME NEW k \in 0 .. MaxOpens, NEW w \in Nat, w <= k * MaxBody
    PROVE  w \in 0 .. MaxOpens * MaxBody
<1>1. PICK left \in Nat : MaxOpens = k + left
  OBVIOUS
<1>2. MaxOpens * MaxBody = k * MaxBody + left * MaxBody
  BY <1>1
<1>3. left * MaxBody \in Nat /\ k * MaxBody \in Nat
  BY <1>1
<1>4. QED
  BY <1>2, <1>3

(* written adds up over the recordings of a sink and is what the file has  *)
(* only in the first, if no write fails; a close that returned true leaves *)
(* the file alone from then on; a header once written keeps its format.    *)
RecordInv ==
    /\ disk \in DiskType
    /\ written <= opens * MaxBody
    /\ opens = 0 => written = 0
    /\ phase = "open" =>
         /\ opens >= 1 /\ told = "nothing" /\ file = "open"
         /\ written <= (opens - 1) * MaxBody + disk.body
         /\ opens = 1 /\ clean => written = disk.body
    /\ told = "ok" => opens >= 1 /\ file = "null"
    /\ headed => Accepted(disk.header)
    /\ phase = "refused" => ~Accepted(disk.header)
    /\ HeaderIsHonest

(* Where the source is, what has been taken and what is in the block add   *)
(* up; only the last block may be short, and nothing follows it.           *)
Playing == phase = "copying"

Idle == /\ pos = 0 /\ ~feof /\ ~dead /\ total = 0
        /\ pc = "check" /\ taken = [blocks |-> 0, bytes |-> 0]

Whole == taken.bytes = taken.blocks * BlockBytes

LastShort == /\ (taken.blocks - 1) * BlockBytes < taken.bytes
             /\ taken.bytes < taken.blocks * BlockBytes
             /\ pos = disk.body /\ pc # "read"
             /\ pc = "acquire" => total = 0

SourceInv ==
    /\ ~Playing => Idle
    /\ pos <= disk.body
    /\ pos = taken.bytes + (IF pc \in {"acquire", "read"} THEN total ELSE 0)
    /\ taken.blocks <= taken.bytes
    /\ feof \/ pc = "done" => pos = disk.body
    /\ dead => feof
    /\ pc = "acquire" => total < BlockBytes
    /\ pc = "read" => total > 0 /\ (total = BlockBytes \/ pos = disk.body)
    /\ Whole \/ LastShort

WavInv == TypeOK /\ RecordInv /\ SourceInv

(* What the recording's steps have in common.                              *)
LEMMA Recorded ==
    ASSUME WavInv, Recording, TypeOK'
    PROVE  SourceInv'
<1>1. phase # "copying" /\ phase' # "copying" /\ UNCHANGED source
  BY DEF Recording, OpenFails, HeaderFails, Open, Write, WriteFails, Close, CloseWith,
         Delete, MayOpen
<1>2. Idle'
  BY <1>1 DEF WavInv, SourceInv, Idle, Playing
<1>3. disk'.body \in Nat
  BY DEF TypeOK
<1>4. 0 = 0 * BlockBytes
  OBVIOUS
<1>5. QED
  BY <1>2, <1>3, <1>4 DEF Idle, SourceInv, Whole

(* What the playback's steps have in common.                               *)
LEMMA Played ==
    ASSUME WavInv, Playback
    PROVE  RecordInv' /\ UNCHANGED <<kind, sink, onDone>>
<1>1. /\ phase # "open" /\ phase' # "open" /\ UNCHANGED <<kind, sink, onDone>>
      /\ phase' = "refused" => ~Accepted(disk.header)
  BY DEF Playback, OpenSource, SourceFails, Check, ReadPart, ReadUpTo, Take
<1>2. QED
  BY <1>1 DEF WavInv, RecordInv, HeaderIsHonest

(* No step of the recording or of the playback leaves WavInv.              *)
LEMMA Invariance == Spec => []WavInv
<1>1. Init => WavInv
  <2> SUFFICES ASSUME Init PROVE WavInv
    OBVIOUS
  <2>1. disk \in DiskType /\ disk.body = 0
    BY Headers DEF Init, Empty
  <2>2. 0 \in 0 .. MaxOpens * MaxBody /\ 0 * MaxBody = 0 /\ 0 * BlockBytes = 0
    OBVIOUS
  <2>3. TypeOK
    <3>1. /\ written \in 0 .. MaxOpens * MaxBody /\ opens \in 0 .. MaxOpens
          /\ pos \in 0 .. MaxBody /\ total \in 0 .. BlockBytes
          /\ taken \in [blocks : 0 .. MaxBody, bytes : 0 .. MaxBody]
      BY <2>2 DEF Init
    <3>2. /\ disk.body \in 0 .. MaxBody
          /\ disk.header.ChunkSize \in 0 .. Wrap - 1
          /\ disk.header.DataSize \in 0 .. Wrap - 1
      BY <2>1 DEF DiskType, Header
    <3>3. QED
      BY <3>1, <3>2, Zenon DEF Init, TypeOK
  <2>4. RecordInv
    BY <2>1, <2>2 DEF Init, RecordInv, HeaderIsHonest
  <2>5. SourceInv
    BY <2>1, <2>2 DEF Init, SourceInv, Playing, Idle, Whole
  <2>6. QED
    BY <2>3, <2>4, <2>5 DEF WavInv
<1>2. WavInv /\ [Next]_vars => WavInv'
  <2> SUFFICES ASSUME WavInv, [Next]_vars PROVE WavInv'
    OBVIOUS
  <2>0. /\ TypeOK /\ RecordInv /\ SourceInv /\ disk \in DiskType
        /\ opens \in Nat /\ written \in Nat /\ opens <= MaxOpens
    BY DEF WavInv, RecordInv, TypeOK
  <2>a. ASSUME opens' \in 0 .. MaxOpens, written' \in Nat, written' <= opens' * MaxBody
        PROVE  written' \in 0 .. MaxOpens * MaxBody
    BY <2>a, WrittenType
  <2>b. ASSUME disk' \in DiskType
        PROVE  /\ disk'.body \in 0 .. MaxBody
               /\ disk'.header.ChunkSize \in 0 .. Wrap - 1
               /\ disk'.header.DataSize \in 0 .. Wrap - 1
    BY <2>b DEF DiskType, Header
  <2>c. (opens + 1) * MaxBody = opens * MaxBody + MaxBody /\ opens * MaxBody \in Nat
    BY <2>0
  <2>1. CASE OpenFails
    <3>1. /\ phase = "idle" /\ file = "null" /\ opens' = opens + 1 /\ opens < MaxOpens
          /\ UNCHANGED <<kind, phase, file, written, disk, told, clean, headed, onDone, source>>
      BY <2>1 DEF OpenFails, MayOpen
    <3>2. written' <= opens' * MaxBody
      BY <2>0, <2>c, <3>1 DEF RecordInv
    <3>3. TypeOK'
      BY <2>0, <2>a, <3>1, <3>2 DEF TypeOK
    <3>4. RecordInv'
      BY <2>0, <3>1, <3>2 DEF RecordInv, HeaderIsHonest
    <3>5. QED
      BY <2>1, <3>3, <3>4, Recorded DEF Recording, WavInv
  <2>2. CASE HeaderFails
    <3>1. /\ phase' = "failed" /\ file' = "open" /\ opens' = opens + 1 /\ opens < MaxOpens
          /\ told' = "nothing" /\ disk' = Empty /\ headed' = FALSE
          /\ UNCHANGED <<kind, written, clean, onDone, source>>
      BY <2>2 DEF HeaderFails, MayOpen
    <3>2. written' <= opens' * MaxBody
      BY <2>0, <2>c, <3>1 DEF RecordInv
    <3>3. disk' \in DiskType
      BY <3>1, Headers
    <3>4. TypeOK'
      <4>1. /\ written' \in 0 .. MaxOpens * MaxBody /\ opens' \in 0 .. MaxOpens
            /\ disk'.body \in 0 .. MaxBody
            /\ disk'.header.ChunkSize \in 0 .. Wrap - 1
            /\ disk'.header.DataSize \in 0 .. Wrap - 1
        BY <2>0, <2>a, <2>b, <3>1, <3>2, <3>3
      <4>2. QED
        BY <2>0, <3>1, <4>1, Zenon DEF TypeOK
    <3>5. RecordInv'
      BY <2>0, <3>1, <3>2, <3>3 DEF RecordInv, HeaderIsHonest
    <3>6. QED
      BY <2>2, <3>4, <3>5, Recorded DEF Recording, WavInv
  <2>3. CASE Open
    <3>1. /\ phase' = "open" /\ file' = "open" /\ opens' = opens + 1 /\ opens < MaxOpens
          /\ told' = "nothing"
          /\ disk' = [header |-> IF kind = "wav" THEN NewHeader ELSE NoHeader, body |-> 0]
          /\ headed' = (kind = "wav")
          /\ UNCHANGED <<kind, written, clean, onDone, source>>
      BY <2>3 DEF Open, MayOpen
    <3>2. written' <= opens' * MaxBody /\ written' <= (opens' - 1) * MaxBody
      BY <2>0, <2>c, <3>1 DEF RecordInv
    <3>3. disk' \in DiskType /\ disk'.body = 0 /\ (headed' => Accepted(disk'.header))
      <4>1. CASE kind = "wav"
        BY <3>1, <4>1, Headers DEF DiskType
      <4>2. CASE kind # "wav"
        <5>1. disk' = Empty /\ disk'.body = 0
          BY <3>1, <4>2 DEF Empty
        <5>2. ~headed'
          BY <3>1, <4>2
        <5>3. QED
          BY <5>1, <5>2, Headers
      <4>3. QED
        BY <4>1, <4>2
    <3>4. TypeOK'
      BY <2>0, <2>a, <2>b, <3>1, <3>2, <3>3 DEF TypeOK
    <3>5. opens' = 1 => written' = 0
      BY <2>0, <3>1 DEF RecordInv
    <3>6. RecordInv'
      BY <2>0, <3>1, <3>2, <3>3, <3>5 DEF RecordInv, HeaderIsHonest
    <3>7. QED
      BY <2>3, <3>4, <3>6, Recorded DEF Recording, WavInv
  <2>4. CASE Write
    <3>1. PICK n \in WriteSizes : /\ disk.body + n <= MaxBody
                                  /\ disk' = [disk EXCEPT !.body = @ + n]
                                  /\ written' = written + n
      BY <2>4 DEF Write
    <3>2. /\ phase = "open" /\ n \in Nat
          /\ UNCHANGED <<kind, phase, file, told, opens, clean, headed, onDone, source>>
      BY <2>4 DEF Write
    <3>3. disk' \in DiskType /\ disk'.body = disk.body + n /\ disk'.header = disk.header
      BY <2>0, <3>1, <3>2 DEF DiskType
    <3>4. PICK before \in Nat : /\ before = (opens - 1) * MaxBody
                                /\ before + MaxBody = opens * MaxBody
      BY <2>0, <3>2 DEF RecordInv
    <3>5. written' <= before + disk'.body /\ written' <= opens * MaxBody
      BY <2>0, <3>1, <3>2, <3>3, <3>4 DEF RecordInv, DiskType
    <3>6. TypeOK'
      BY <2>0, <2>a, <2>b, <3>1, <3>2, <3>3, <3>5 DEF TypeOK
    <3>7. RecordInv'
      BY <2>0, <3>1, <3>2, <3>3, <3>4, <3>5 DEF RecordInv, HeaderIsHonest, DiskType
    <3>8. QED
      BY <2>4, <3>6, <3>7, Recorded DEF Recording, WavInv
  <2>5. CASE WriteFails
    <3>a. PICK n \in WriteSizes : \E part \in 0 .. n - 1 :
             disk.body + n <= MaxBody /\ disk' = [disk EXCEPT !.body = @ + part]
      BY <2>5 DEF WriteFails
    <3>1. PICK part \in 0 .. n - 1 :
             disk.body + n <= MaxBody /\ disk' = [disk EXCEPT !.body = @ + part]
      BY <3>a
    <3>2. /\ phase = "open" /\ n \in Nat /\ part \in Nat /\ clean' = FALSE
          /\ UNCHANGED <<kind, phase, file, written, told, opens, headed, onDone, source>>
      BY <2>5, <3>1 DEF WriteFails
    <3>3. disk' \in DiskType /\ disk'.body >= disk.body /\ disk'.header = disk.header
      BY <2>0, <3>1, <3>2 DEF DiskType
    <3>4. TypeOK'
      BY <2>0, <2>b, <3>2, <3>3 DEF TypeOK
    <3>5. PICK before \in Nat : before = (opens - 1) * MaxBody
      BY <2>0, <3>2 DEF RecordInv
    <3>6. RecordInv'
      BY <2>0, <3>2, <3>3, <3>5 DEF RecordInv, HeaderIsHonest, DiskType
    <3>7. QED
      BY <2>5, <3>4, <3>6, Recorded DEF Recording, WavInv
  <2>6. CASE Close
    <3>1. /\ phase = "open" /\ UNCHANGED <<kind, written, opens, clean, onDone, source>>
          /\ headed' = (headed /\ disk' # Empty)
          /\ disk' \in Lost \cup {Patched(d, ChunkSizeOf(written)) : d \in 0 .. StageCount}
          /\ \/ /\ told' = "ok" /\ phase' = "idle" /\ file' = "null"
                /\ disk' = Patched(StageCount, ChunkSizeOf(written))
             \/ told' = "failed" /\ phase' = "failed" /\ file' \in {"open", "dangling"}
      BY <2>0, <2>6, CloseStep DEF TypeOK
    <3>2. StageCount \in Nat /\ (kind = "wav" => StageCount = 5)
      BY DEF StageCount
    <3>3. /\ disk' \in DiskType
          /\ disk' # Empty /\ Accepted(disk.header) => Accepted(disk'.header)
      BY <2>0, <3>1, <3>2, LostDisk, PatchedDisk
    <3>4. TypeOK'
      BY <2>0, <2>b, <3>1, <3>3 DEF TypeOK
    <3>5. HeaderIsHonest'
      <4> SUFFICES ASSUME kind = "wav", told' = "ok", opens = 1,
                          disk'.body + HeaderBytes - 8 < Wrap
                   PROVE  /\ disk'.header.ChunkSize = disk'.header.DataSize + HeaderBytes - 8
                          /\ disk'.header.DataSize <= disk'.body
                          /\ clean => disk'.header.DataSize = disk'.body
        BY <3>1 DEF HeaderIsHonest
      <4>1. /\ disk'.body = disk.body
            /\ disk'.header.ChunkSize = ChunkSizeOf(written)
            /\ disk'.header.DataSize = written % Wrap
        BY <2>0, <3>1, <3>2, PatchedDisk
      <4>2. written <= disk.body /\ (clean => written = disk.body) /\ disk.body \in Nat
        BY <2>0, <3>1 DEF RecordInv, DiskType
      <4>3. written % Wrap = written /\ ChunkSizeOf(written) = written + HeaderBytes - 8
        BY <2>0, <4>1, <4>2 DEF ChunkSizeOf, HeaderBytes
      <4>4. QED
        BY <4>1, <4>2, <4>3
    <3>6. RecordInv'
      BY <2>0, <3>1, <3>3, <3>5 DEF RecordInv
    <3>7. QED
      BY <2>6, <3>4, <3>6, Recorded DEF Recording, WavInv
  <2>7. CASE Delete
    <3>1. /\ phase' \in {"undefined", "deleted"} /\ file' = "null"
          /\ disk' \in {disk} \cup Lost /\ (told = "ok" => disk' = disk)
          /\ headed' = (headed /\ disk' # Empty)
          /\ UNCHANGED <<kind, written, told, opens, clean, onDone, source>>
      BY <2>0, <2>7 DEF Delete, RecordInv
    <3>2. disk' \in DiskType /\ (disk' = Empty \/ disk'.header = disk.header)
      BY <2>0, <3>1, LostDisk
    <3>3. TypeOK'
      BY <2>0, <2>b, <3>1, <3>2 DEF TypeOK
    <3>4. RecordInv'
      BY <2>0, <3>1, <3>2 DEF RecordInv, HeaderIsHonest
    <3>5. QED
      BY <2>7, <3>3, <3>4, Recorded DEF Recording, WavInv
  <2>8. CASE OpenSource \/ SourceFails
    <3>1. /\ phase = "deleted" /\ phase' \in {"copying", "refused", "unread"}
          /\ UNCHANGED <<kind, sink, onDone, source>>
      BY <2>8 DEF OpenSource, SourceFails
    <3>2. TypeOK'
      BY <2>0, <3>1 DEF TypeOK
    <3>3. SourceInv'
      BY <2>0, <3>1 DEF SourceInv, Playing, Idle, Whole, LastShort
    <3>4. QED
      BY <2>8, <3>2, <3>3, Played DEF Playback, WavInv
  <2>d. /\ disk.body \in 0 .. MaxBody /\ pos \in 0 .. MaxBody /\ total \in 0 .. BlockBytes
        /\ taken \in [blocks : 0 .. MaxBody, bytes : 0 .. MaxBody]
        /\ FileBytes \in Nat /\ disk.body <= FileBytes
    BY <2>0 DEF TypeOK, FileBytes, HeaderBytes
  <2>9. CASE Check
    <3>1. /\ phase = "copying" /\ pc = "check" /\ total' = 0
          /\ pc' = IF dead THEN "done" ELSE "acquire"
          /\ UNCHANGED <<kind, phase, sink, onDone, pos, feof, dead, taken>>
      BY <2>9 DEF Check
    <3>2. TypeOK'
      BY <2>0, <3>1 DEF TypeOK
    <3>3. SourceInv'
      BY <2>0, <2>d, <3>1 DEF SourceInv, Playing, Idle, Whole, LastShort
    <3>4. QED
      BY <2>9, <3>2, <3>3, Played DEF Playback, WavInv
  <2>10. CASE ReadPart
    <3> DEFINE block == MinOf(BlockBytes - total, FileBytes)
               rd == MinOf(block, disk.body - pos)
    <3>1. /\ phase = "copying" /\ pc = "acquire"
          /\ dead' = (dead \/ (onDone /\ feof))
          /\ pos' = pos + rd /\ total' = total + rd
          /\ feof' = (feof \/ rd < block)
          /\ pc' = IF rd > 0 /\ total' < BlockBytes THEN "acquire"
                   ELSE IF total' > 0 THEN "read" ELSE "done"
          /\ UNCHANGED <<kind, phase, sink, onDone, taken>>
      BY <2>10 DEF ReadPart, ReadUpTo
    <3>2. pos <= disk.body /\ total < BlockBytes
      BY <2>0, <3>1 DEF SourceInv
    <3>3. /\ rd \in Nat /\ rd <= disk.body - pos /\ total + rd <= BlockBytes
          /\ rd < block => pos + rd = disk.body
          /\ rd = 0 => pos = disk.body
      BY <2>d, <3>2 DEF MinOf
    <3> HIDE DEF rd, block
    <3>4. TypeOK'
      BY <2>0, <2>d, <3>1, <3>3 DEF TypeOK
    <3>5. (Whole \/ LastShort)'
      <4>1. CASE Whole
        BY <3>1, <4>1 DEF Whole
      <4>2. CASE LastShort
        <5>1. rd = 0
          BY <2>d, <3>1, <3>3, <4>2 DEF LastShort
        <5>2. pos' = disk.body /\ total' = 0 /\ pc' = "done"
          BY <2>d, <3>1, <4>2, <5>1 DEF LastShort
        <5>3. QED
          BY <3>1, <4>2, <5>2 DEF LastShort
      <4>3. QED
        BY <2>0, <4>1, <4>2 DEF SourceInv
    <3>6. dead' => feof'
      BY <2>0, <3>1 DEF SourceInv
    <3>7. feof' \/ pc' = "done" => pos' = disk'.body
      <4>1. feof => rd = 0
        BY <2>0, <2>d, <3>3 DEF SourceInv
      <4>2. pc' = "done" => rd = 0
        BY <2>d, <3>1, <3>2, <3>3
      <4>3. disk' = disk /\ pos \in Nat
        BY <2>d, <3>1
      <4>4. feof' => feof \/ rd < block
        BY <3>1
      <4>5. rd = 0 => pos + rd = disk.body
        BY <2>d, <3>3
      <4>6. QED
        BY <3>1, <3>3, <4>1, <4>2, <4>3, <4>4, <4>5
    <3>8. SourceInv'
      BY <2>0, <2>d, <3>1, <3>2, <3>3, <3>5, <3>6, <3>7 DEF SourceInv, Playing
    <3>9. QED
      BY <2>10, <3>4, <3>8, Played DEF Playback, WavInv
  <2>11. CASE Take
    <3>1. /\ phase = "copying" /\ pc = "read" /\ pc' = "check"
          /\ taken' = [blocks |-> taken.blocks + 1, bytes |-> taken.bytes + total]
          /\ UNCHANGED <<kind, phase, sink, onDone, pos, feof, dead, total>>
      BY <2>11 DEF Take
    <3>2. /\ pos <= disk.body /\ pos = taken.bytes + total /\ total > 0
          /\ total = BlockBytes \/ pos = disk.body
          /\ taken.blocks <= taken.bytes /\ Whole
      BY <2>0, <3>1 DEF SourceInv, LastShort
    <3>3. /\ taken'.blocks = taken.blocks + 1 /\ taken'.bytes = pos
          /\ taken'.blocks <= taken'.bytes /\ taken'.bytes <= disk.body
          /\ taken' \in [blocks : 0 .. MaxBody, bytes : 0 .. MaxBody]
      BY <2>d, <3>1, <3>2
    <3>4. TypeOK'
      BY <2>0, <3>1, <3>3 DEF TypeOK
    <3>5. PICK before \in Nat : /\ before = taken.blocks * BlockBytes
                                /\ (taken.blocks + 1) * BlockBytes = before + BlockBytes
      BY <2>d
    <3>6. (Whole \/ LastShort)'
      BY <2>d, <3>1, <3>2, <3>3, <3>5 DEF Whole, LastShort
    <3>7. SourceInv'
      BY <2>0, <2>d, <3>1, <3>2, <3>3, <3>6 DEF SourceInv, Playing
    <3>8. QED
      BY <2>11, <3>4, <3>7, Played DEF Playback, WavInv
  <2>12. CASE UNCHANGED vars
    BY <2>12 DEF vars, WavInv, TypeOK, RecordInv, SourceInv, HeaderIsHonest, Playing,
                 Idle, Whole, LastShort
  <2>13. QED
    BY <2>1, <2>2, <2>3, <2>4, <2>5, <2>6, <2>7, <2>8, <2>9, <2>10, <2>11, <2>12
       DEF Next, Recording, Playback
<1>3. QED
  BY <1>1, <1>2, PTL DEF Spec

-----------------------------------------------------------------------------
(* Every variable keeps its type: no size leaves the width of its field,   *)
(* no block is filled beyond the buffer, nothing is read past the file.    *)
THEOREM TypeCorrect == Spec => []TypeOK
  BY Invariance, PTL DEF WavInv

(* After a first recording whose close returned true the header's sizes    *)
(* agree with the file, however the writes and the closes before went,     *)
(* unless the file is longer than a field can say.                         *)
THEOREM HonestHeader == Spec => []HeaderIsHonest
<1>1. WavInv => HeaderIsHonest
  BY DEF WavInv, RecordInv
<1>2. QED
  BY <1>1, Invariance, PTL

(* A WavSource never refuses a recording whose header was written and not  *)
(* lost: the safety half of PlaysBack.                                     *)
NotRefused == phase = "refused" => ~headed

(* A copy that is over has taken the whole file, in as many blocks as it   *)
(* fills and no more: the safety half of CopiesAll.                        *)
CopiedWhole ==
    phase = "copying" /\ pc = "done" =>
        /\ taken.bytes = disk.body
        /\ taken.blocks = (disk.body + BlockBytes - 1) \div BlockBytes

(* A source that can read the header of a recording, if it was written,    *)
(* accepts it, whatever became of its sizes.                               *)
THEOREM Accepts == Spec => []NotRefused
<1>1. WavInv => NotRefused
  BY DEF WavInv, RecordInv, NotRefused
<1>2. QED
  BY <1>1, Invariance, PTL

(* The number of blocks of b bytes that n bytes need.                      *)
LEMMA Ceiling ==
    ASSUME NEW b \in Nat \ {0}, NEW k \in Nat, NEW n \in Nat,
           (k - 1) * b < n, n <= k * b
    PROVE  k = (n + b - 1) \div b
<1> DEFINE q == (n + b - 1) \div b
<1>1. q \in Nat /\ q * b <= n + b - 1 /\ n + b - 1 < (q + 1) * b
  OBVIOUS
<1>2. (k - 1) * b = k * b - b /\ (q + 1) * b = q * b + b /\ k * b \in Nat /\ q * b \in Nat
  BY <1>1
<1>3. q * b < (k + 1) * b /\ k * b < (q + 1) * b
  BY <1>1, <1>2
<1>4. QED
  BY <1>1, <1>3

(* The end of a copy is the end of the file: no part is left out, no block *)
(* of nothing is made.                                                     *)
THEOREM Copies == Spec => []CopiedWhole
<1>1. WavInv => CopiedWhole
  <2> SUFFICES ASSUME WavInv, phase = "copying", pc = "done" PROVE CopiedWhole
    BY DEF CopiedWhole
  <2>1. /\ disk.body \in Nat /\ taken.blocks \in Nat
        /\ taken.bytes = disk.body /\ (Whole \/ LastShort)
    BY DEF WavInv, TypeOK, SourceInv
  <2>2. (taken.blocks - 1) * BlockBytes = taken.blocks * BlockBytes - BlockBytes
    BY <2>1
  <2>3. /\ (taken.blocks - 1) * BlockBytes < disk.body
        /\ disk.body <= taken.blocks * BlockBytes
    BY <2>1, <2>2 DEF Whole, LastShort
  <2>4. QED
    BY <2>1, <2>3, Ceiling DEF CopiedWhole
<1>2. QED
  BY <1>1, Invariance, PTL
=============================================================================
