------------------------------ MODULE WavFile ------------------------------
(***************************************************************************)
(* A recording and its playback (wav_file.cpp): a WavSink or a RawSink is  *)
(* opened, written to, closed and deleted while every call of stdio may    *)
(* fail; a WavSource or a RawSource then opens the file, if it can, and    *)
(* audio_copy plays it in its polled mode (utils.cpp), where the thread    *)
(* that encodes also reads.  What there is to read is read: fread's errors *)
(* are left out.                                                           *)
(*                                                                         *)
(* The header is the record of its fields, the audio the number of its     *)
(* bytes.                                                                  *)
(***************************************************************************)
EXTENDS Naturals

CONSTANTS Kinds,      \* of sink and source: "wav", "raw"
          WriteSizes, \* bytes of one write
          MaxBody,    \* bound on the bytes recorded
          MaxOpens,   \* bound on the times one sink is opened
          BlockBytes, \* RTP_Engine::rx_bytes, the buffer audio_copy fills
          Wrap        \* the header's sizes count modulo this: 2^32

ASSUME KindsAssumption  == Kinds \subseteq {"wav", "raw"}
ASSUME WritesAssumption == WriteSizes \subseteq Nat \ {0}
ASSUME BoundsAssumption == MaxBody \in Nat /\ MaxOpens \in Nat
ASSUME BlockAssumption  == BlockBytes \in Nat \ {0}
ASSUME WrapAssumption   == Wrap \in Nat \ {0}

VARIABLES kind,     \* which pair of sink and source
          phase,    \* what the caller has done
          file,     \* the sink's FILE*
          written,  \* RawSink::written
          disk,     \* the file: its header and the bytes after it
          told,     \* what close returned last
          opens,    \* history: the times open was called
          clean,    \* history: no write has failed
          headed,   \* history: the header was written, and not lost since
          pos,      \* the source's position in the audio
          feof,     \* a read has been short
          onDone,   \* set_on_done was called
          dead,     \* the flag on_done sets
          total,    \* bytes in the block being filled
          pc,       \* where audio_copy is
          taken     \* history: blocks taken, and the bytes read into them

sink   == <<file, written, disk, told, opens, clean, headed>>
source == <<pos, feof, dead, total, pc, taken>>
vars   == <<kind, phase, sink, onDone, source>>

HeaderBytes == 44   \* sizeof(struct WavFileHeader)

MinOf(a, b) == IF a < b THEN a ELSE b

-----------------------------------------------------------------------------
Tags == {"RIFF", "WAVE", "fmt", "data"}

NewHeaderMonoRate ==                                       \* variant
    [tags |-> Tags, FormatSize |-> 16, PcmFlags |-> 1, Channels |-> 2,
     SampleRate |-> 48000, ByteRate |-> 48000 * 2, BlockAlign |-> 4,
     BitDepth |-> 16, ChunkSize |-> 0, DataSize |-> 0]

NewHeader ==
    [tags |-> Tags, FormatSize |-> 16, PcmFlags |-> 1, Channels |-> 2,
     SampleRate |-> 48000, ByteRate |-> 48000 * 2 * 2, BlockAlign |-> 4,
     BitDepth |-> 16, ChunkSize |-> 0, DataSize |-> 0]

NoHeader == [f \in DOMAIN NewHeader |-> IF f = "tags" THEN {} ELSE 0]

(* What WavSource::open insists on; it does not look at the sizes.         *)
Accepted(h) == /\ h.tags = Tags
               /\ h.FormatSize = 16 /\ h.Channels = 2 /\ h.SampleRate = 48000
               /\ h.ByteRate = 4 * 48000 /\ h.PcmFlags = 1 /\ h.BitDepth = 16

(* What is left of a file whose buffered end could not be written.         *)
Empty == [header |-> NoHeader, body |-> 0]
Lost == {[disk EXCEPT !.body = b] : b \in 0 .. disk.body} \cup {Empty}

Init == /\ kind \in Kinds /\ onDone \in BOOLEAN
        /\ phase = "idle" /\ file = "null" /\ written = 0 /\ disk = Empty
        /\ told = "nothing" /\ opens = 0 /\ clean = TRUE /\ headed = FALSE
        /\ pos = 0 /\ feof = FALSE /\ dead = FALSE /\ total = 0
        /\ pc = "check" /\ taken = [blocks |-> 0, bytes |-> 0]

-----------------------------------------------------------------------------
(* The sink.  Its callers write and close after an open that succeeded,    *)
(* open again only what is closed, and delete what has failed.             *)

MayOpen == phase = "idle" /\ file = "null" /\ opens < MaxOpens

OpenFails == /\ MayOpen
             /\ opens' = opens + 1
             /\ UNCHANGED <<kind, phase, file, written, disk, told, clean, headed,
                            onDone, source>>

(* open returns false and leaves the file open.                            *)
HeaderFails == /\ MayOpen /\ kind = "wav"
               /\ opens' = opens + 1
               /\ phase' = "failed" /\ file' = "open" /\ told' = "nothing"
               /\ disk' = Empty /\ headed' = FALSE
               /\ UNCHANGED <<kind, written, clean, onDone, source>>

Open == /\ MayOpen
        /\ opens' = opens + 1
        /\ phase' = "open" /\ file' = "open" /\ told' = "nothing"
        /\ disk' = [header |-> IF kind = "wav" THEN NewHeader ELSE NoHeader, body |-> 0]
        /\ headed' = (kind = "wav")
        /\ UNCHANGED <<kind, written, clean, onDone, source>>

Write == /\ phase = "open"
         /\ \E n \in WriteSizes :
              /\ disk.body + n <= MaxBody
              /\ disk' = [disk EXCEPT !.body = @ + n]
              /\ written' = written + n
         /\ UNCHANGED <<kind, phase, file, told, opens, clean, headed, onDone, source>>

(* What did get to the file is not counted.                                *)
WriteFails == /\ phase = "open"
              /\ \E n \in WriteSizes : \E part \in 0 .. n - 1 :
                   /\ disk.body + n <= MaxBody
                   /\ disk' = [disk EXCEPT !.body = @ + part]
              /\ clean' = FALSE
              /\ UNCHANGED <<kind, phase, file, written, told, opens, headed, onDone, source>>

-----------------------------------------------------------------------------
(* close: fflush, ChunkSize, DataSize, seek to the end, fclose.  It        *)
(* returns at the first that fails; a RawSink only closes.                 *)
Stages == IF kind = "wav" THEN <<"fflush", "ChunkSize", "DataSize", "fseek", "fclose">>
                          ELSE <<"fclose">>
StageCount == IF kind = "wav" THEN 5 ELSE 1

ChunkSizeOf(n) == (n + HeaderBytes - 8) % Wrap

Patched(done, chunk) ==
    [disk EXCEPT
       !.header.ChunkSize = IF kind = "wav" /\ done >= 2 THEN chunk ELSE @,
       !.header.DataSize  = IF kind = "wav" /\ done >= 3 THEN written % Wrap ELSE @]

(* done calls succeeded.  When fclose is the one that failed the FILE is   *)
(* gone and the pointer stays, and what it had buffered may be lost.       *)
CloseWith(chunk) ==
    /\ phase = "open"
    /\ \E done \in 0 .. StageCount :
         LET failed == IF done < StageCount THEN Stages[done + 1] ELSE "none"
         IN  /\ told' = IF failed = "none" THEN "ok" ELSE "failed"
             /\ file' = CASE failed = "none"   -> "null"
                          [] failed = "fclose" -> "dangling"
                          [] OTHER             -> "open"
             /\ phase' = IF failed = "none" THEN "idle" ELSE "failed"
             /\ disk' \in CASE failed = "fflush" -> Lost
                            [] failed = "fclose" ->
                                 Lost \cup {Patched(d, chunk) : d \in 0 .. done}
                            [] OTHER             -> {Patched(done, chunk)}
             /\ headed' = (headed /\ disk' # Empty)
    /\ UNCHANGED <<kind, written, opens, clean, onDone, source>>

CloseChunkIsFile == CloseWith((written + HeaderBytes) % Wrap)   \* variant

Close == CloseWith(ChunkSizeOf(written))

(* ~RawSink calls RawSink::close: the sizes are not patched.  Closing a    *)
(* FILE whose fclose has failed is undefined: the model stops there.       *)
Delete == /\ phase \in {"idle", "open", "failed"}
          /\ IF file = "dangling" THEN phase' = "undefined" ELSE phase' = "deleted"
          /\ file' = "null"
          /\ disk' \in IF file = "open" THEN {disk} \cup Lost ELSE {disk}
          /\ headed' = (headed /\ disk' # Empty)
          /\ UNCHANGED <<kind, written, told, opens, clean, onDone, source>>

-----------------------------------------------------------------------------
(* The source and audio_copy with poll_reader.                             *)

OpenSource == /\ phase = "deleted" /\ opens > 0
              /\ phase' = IF kind = "raw" \/ Accepted(disk.header) THEN "copying" ELSE "refused"
              /\ UNCHANGED <<kind, sink, onDone, source>>

(* stat, fopen or the reading of the header fails.                         *)
SourceFails == /\ phase = "deleted" /\ opens > 0
               /\ phase' = "unread"
               /\ UNCHANGED <<kind, sink, onDone, source>>

(* RawSource::size, the whole file's length: max_read_bytes.               *)
FileBytes == disk.body + (IF kind = "wav" THEN HeaderBytes ELSE 0)

Check == /\ phase = "copying" /\ pc = "check"
         /\ pc' = IF dead THEN "done" ELSE "acquire"
         /\ total' = 0
         /\ UNCHANGED <<kind, phase, sink, onDone, pos, feof, dead, taken>>

(* One read of acquire's loop.  A read past the end of the file calls      *)
(* on_done before it returns nothing.                                      *)
ReadUpTo(block) ==
    /\ phase = "copying" /\ pc = "acquire"
    /\ LET rd == MinOf(block, disk.body - pos)
       IN  /\ dead' = (dead \/ (onDone /\ feof))
           /\ pos' = pos + rd /\ total' = total + rd
           /\ feof' = (feof \/ rd < block)
           /\ pc' = IF rd > 0 /\ total' < BlockBytes THEN "acquire"
                    ELSE IF total' > 0 THEN "read" ELSE "done"
    /\ UNCHANGED <<kind, phase, sink, onDone, taken>>

ReadPartWhole == ReadUpTo(FileBytes)                       \* variant

ReadPart == ReadUpTo(MinOf(BlockBytes - total, FileBytes))

TakeUnlessDead == /\ phase = "copying" /\ pc = "read"      \* variant
                  /\ pc' = IF dead THEN "done" ELSE "check"
                  /\ taken' = IF dead THEN taken
                              ELSE [blocks |-> taken.blocks + 1,
                                    bytes |-> taken.bytes + total]
                  /\ UNCHANGED <<kind, phase, sink, onDone, pos, feof, dead, total>>

(* The block is encoded whole, however short the last read left it.        *)
Take == /\ phase = "copying" /\ pc = "read"
        /\ pc' = "check"
        /\ taken' = [blocks |-> taken.blocks + 1, bytes |-> taken.bytes + total]
        /\ UNCHANGED <<kind, phase, sink, onDone, pos, feof, dead, total>>

Recording == OpenFails \/ HeaderFails \/ Open \/ Write \/ WriteFails \/ Close \/ Delete
Playback == OpenSource \/ SourceFails \/ Check \/ ReadPart \/ Take

Next == Recording \/ Playback

Spec == Init /\ [][Next]_vars

(* The thread that plays runs on; nothing obliges the caller of the sink.  *)
FairSpec == Spec /\ WF_vars(Playback)

-----------------------------------------------------------------------------
TypeOK == /\ kind \in Kinds
          /\ phase \in {"idle", "open", "failed", "deleted", "copying",
                        "refused", "unread", "undefined"}
          /\ file \in {"null", "open", "dangling"}
          /\ written \in 0 .. MaxOpens * MaxBody
          /\ disk.body \in 0 .. MaxBody
          /\ disk.header.ChunkSize \in 0 .. Wrap - 1
          /\ disk.header.DataSize \in 0 .. Wrap - 1
          /\ told \in {"nothing", "ok", "failed"}
          /\ opens \in 0 .. MaxOpens
          /\ {clean, headed, feof, onDone, dead} \subseteq BOOLEAN
          /\ pos \in 0 .. MaxBody
          /\ total \in 0 .. BlockBytes
          /\ pc \in {"check", "acquire", "read", "done"}
          /\ taken \in [blocks : 0 .. MaxBody, bytes : 0 .. MaxBody]

(* wav_file.cpp:29 and :31 say what the sizes should be: they are so in    *)
(* the first recording of a sink whose close returned true, up to the      *)
(* size a field can hold.  After a write that failed the header may only   *)
(* leave out what was written in vain.                                     *)
HeaderIsHonest ==
    kind = "wav" /\ told = "ok" /\ opens = 1 =>
        LET data == disk.header.DataSize
        IN  disk.body + HeaderBytes - 8 < Wrap =>
              /\ disk.header.ChunkSize = data + HeaderBytes - 8
              /\ data <= disk.body
              /\ clean => data = disk.body

(* A recording whose header was written is accepted by WavSource if it can *)
(* be read, whatever failed afterwards: the sizes may be wrong, the format *)
(* is not.                                                                 *)
PlaysBack == phase = "deleted" /\ headed ~> phase \in {"copying", "unread"}

(* A copy ends, and every byte of the file has been taken, the last block  *)
(* short, whether the file ends within a block or on its boundary and      *)
(* whether on_done was set.                                                *)
CopiesAll ==
    phase = "copying" ~>
        /\ pc = "done"
        /\ taken.bytes = disk.body
        /\ taken.blocks = (disk.body + BlockBytes - 1) \div BlockBytes
=============================================================================
