-------------------------- MODULE AudioPipeProofs --------------------------
(***************************************************************************)
(* What holds of AudioPipe for any number of buffers, of reads that fill   *)
(* one, and of labels.                                                     *)
(***************************************************************************)
EXTENDS AudioPipe, SequenceTheorems, TLAPS

USE NBlocksAssumption, PartsAssumption, FramesAssumption DEF reader, encoder

(* _Reader::acquire moves on by one buffer, round and round: the buffer it *)
(* hands out is the one idx pointed to.                                    *)
LEMMA Round ==
    ASSUME NEW i \in Buffers
    PROVE  /\ (i + 1) % NBlocks \in Buffers
           /\ (i + NBlocks - 1) % NBlocks \in Buffers
           /\ (((i + 1) % NBlocks) + NBlocks - 1) % NBlocks = i
           /\ NBlocks > 1 => (i + NBlocks - 1) % NBlocks # i
<1> USE DEF Buffers
<1>1. CASE i = 0
  BY <1>1
<1>2. CASE i > 0
  BY <1>2
<1>3. QED
  BY <1>1, <1>2

(* Frames' labels go round and never leave Labels.                         *)
LEMMA LabelsType == 0 \in Labels /\ \A f \in Labels : Succ(f) \in Labels
  BY DEF Labels, Succ

(* Neither the reader's loop nor the codec's goes past the end of a buffer.*)
Bounded == /\ TypeOK
           /\ rpc = "read" => fill < Parts
           /\ Len(got) <= Parts

(* No step of either thread leaves Bounded.                                *)
LEMMA BoundedInvariance == Spec => []Bounded
<1>1. Init => Bounded
  <2>1. 0 \in Buffers /\ Blank \in [Buffers -> [1 .. Parts -> Labels]]
    BY LabelsType DEF Blank, Buffers
  <2>2. /\ [data |-> 0, bytes |-> 0, frame |-> 0] \in Block
        /\ 0 \in 0 .. Parts /\ Len(<<>>) <= Parts
    BY <2>1, LabelsType DEF Block
  <2>3. <<>> \in Seq(Block) /\ <<>> \in Seq(Labels)
    BY EmptySeq
  <2>4. QED
    BY <2>1, <2>2, <2>3, LabelsType, Zenon DEF Init, TypeOK, Bounded
<1>2. Bounded /\ [Next]_vars => Bounded'
  <2> SUFFICES ASSUME Bounded, [Next]_vars PROVE Bounded'
    OBVIOUS
  <2> USE DEF Bounded, TypeOK
  <2>1. CASE ReaderStops
    BY <2>1 DEF ReaderStops
  <2>2. CASE Acquire
    <3>1. frame' \in Labels /\ idx' \in Buffers
      BY <2>2, Round, LabelsType DEF Acquire, NextFrame
    <3>2. QED
      BY <2>2, <3>1 DEF Acquire
  <2>3. Filling \in Buffers
    BY Round DEF Filling
  <2>4. CASE ReadPart
    <3>1. buf' \in [Buffers -> [1 .. Parts -> Labels]]
      BY <2>3, <2>4, LabelsType DEF ReadPart, Label, Blank
    <3>2. /\ fill' \in 0 .. Parts /\ rpc' \in {"read", "put"}
          /\ rpc' = "read" => fill' < Parts
      BY <2>4 DEF ReadPart, Ready
    <3>3. onTime' \in BOOLEAN
      BY <2>4 DEF ReadPart, Ready
    <3>4. QED
      BY <2>4, <3>1, <3>2, <3>3 DEF ReadPart
  <2>5. CASE ReadNothing
    BY <2>5 DEF ReadNothing, Ready, InTime
  <2>6. CASE Put
    <3>1. [data |-> Filling, bytes |-> fill, frame |-> frame] \in Block
      BY <2>3 DEF Block
    <3>2. QED
      BY <2>6, <3>1 DEF Put, PutIf
  <2>7. CASE EncoderStops \/ EncoderLoops
    BY <2>7 DEF EncoderStops, EncoderLoops
  <2>8. CASE TakeUnheard \/ Take
    <3>1. Head(queue) \in Block /\ Tail(queue) \in Seq(Block)
      BY <2>8, HeadTailProperties DEF TakeUnheard, Take, TakeAnd
    <3>2. QED
      BY <2>8, <3>1 DEF TakeUnheard, Take, TakeAnd
  <2>9. CASE EncodePart
    <3>1. buf[msg.data][Len(got) + 1] \in Labels
      BY <2>9 DEF EncodePart, Block
    <3>2. QED
      BY <2>9, <3>1 DEF EncodePart
  <2>10. CASE Send
    BY <2>10 DEF Send
  <2>11. CASE Kill \/ JoinEncoder \/ JoinReader
    BY <2>11 DEF Kill, JoinEncoder, JoinReader
  <2>12. CASE UNCHANGED vars
    BY <2>12 DEF vars
  <2>13. QED
    BY <2>1, <2>2, <2>4, <2>5, <2>6, <2>7, <2>8, <2>9, <2>10, <2>11, <2>12
       DEF Next, Reader, Encoder
<1>3. QED
  BY <1>1, <1>2, PTL DEF Spec

(* Every variable keeps its type: idx stays within the buffers, and every  *)
(* queued block names one.                                                 *)
THEOREM TypeCorrect == Spec => []TypeOK
  BY BoundedInvariance, PTL DEF Bounded

-----------------------------------------------------------------------------
(* The block put last: the last in the queue, or else the one taken last.  *)
Newest == IF queue = <<>> THEN msg ELSE queue[Len(queue)]

(* An encoder on time has taken each block before the next is ready: it    *)
(* never finds more than one.  Once it has stopped the reader is told to,  *)
(* and puts no more than the block it is reading: that makes two.          *)
OrderInv ==
    /\ epc = "done" => dead
    /\ onTime =>
         /\ Len(queue) <= (IF epc = "done" /\ rpc \notin {"read", "put"} THEN 2 ELSE 1)
         /\ epc = "encode" => queue = <<>>
         /\ rpc = "put" /\ epc # "done" => queue = <<>> /\ epc # "encode"
         /\ Len(queue) >= 1 => queue[1].frame = Succ(msg.frame)
         /\ Len(queue) = 2 => queue[2].frame = Succ(queue[1].frame)
         /\ frame = IF rpc \in {"read", "put"} THEN Succ(Newest.frame) ELSE Newest.frame

(* With more than one buffer no step leaves OrderInv.                      *)
LEMMA OrderInvariance == ASSUME NBlocks > 1 PROVE Spec => []OrderInv
<1>1. Init => OrderInv
  BY DEF Init, OrderInv, Newest
<1>2. Bounded /\ OrderInv /\ [Next]_vars => OrderInv'
  <2> SUFFICES ASSUME Bounded, OrderInv, [Next]_vars PROVE OrderInv'
    OBVIOUS
  <2>0. queue \in Seq(Block) /\ Len(queue) \in Nat /\ (queue = <<>> <=> Len(queue) = 0)
    BY EmptySeq, LenProperties DEF Bounded, TypeOK
  <2> USE DEF OrderInv, Newest
  <2>1. CASE ReaderStops
    BY <2>1 DEF ReaderStops
  <2>2. CASE Acquire
    BY <2>2 DEF Acquire, NextFrame
  <2>3. CASE ReadPart \/ ReadNothing
    <3>1. /\ UNCHANGED <<dead, epc, msg, queue, frame>> /\ rpc = "read"
          /\ \/ rpc' = "read" /\ onTime' = onTime
             \/ rpc' = "put" /\ onTime' = (onTime /\ InTime)
      BY <2>3 DEF ReadPart, ReadNothing, Ready
    <3>2. CASE rpc' = "read"
      BY <3>1, <3>2
    <3>3. CASE rpc' = "put"
      <4>1. onTime' => onTime /\ (epc = "done" \/ (epc # "encode" /\ queue = <<>>))
        BY <3>1, <3>3 DEF InTime
      <4>2. QED
        BY <2>0, <3>1, <3>3, <4>1
    <3>4. QED
      BY <3>1, <3>2, <3>3
  <2>4. CASE Put
    <3>0. PICK b : b = [data |-> Filling, bytes |-> fill, frame |-> frame]
      OBVIOUS
    <3>1. /\ rpc = "put" /\ rpc' \in {"check", "done"} /\ b.frame = frame
          /\ UNCHANGED <<dead, epc, msg, frame, onTime>>
      BY <2>4, <3>0 DEF Put, PutIf
    <3>2. ASSUME onTime
          PROVE  /\ queue' = Append(queue, b) /\ Len(queue') = Len(queue) + 1
                 /\ queue'[Len(queue')] = b
                 /\ Len(queue) = 1 => queue'[1] = queue[1]
      <4>1. Len(queue) < NBlocks
        BY <2>0, <3>1, <3>2
      <4>2. queue' = Append(queue, b)
        BY <2>4, <3>0, <4>1 DEF Put, PutIf
      <4>3. QED
        BY <2>0, <4>2
    <3>3. QED
      BY <2>0, <3>1, <3>2
  <2>5. CASE EncoderStops \/ EncoderLoops
    BY <2>0, <2>5 DEF EncoderStops, EncoderLoops
  <2>6. CASE TakeUnheard \/ Take
    <3>1. /\ queue # <<>> /\ epc = "get" /\ epc' \in {"check", "encode"}
          /\ msg' = Head(queue) /\ queue' = Tail(queue)
          /\ UNCHANGED <<dead, rpc, frame, onTime>>
      BY <2>6 DEF TakeUnheard, Take, TakeAnd
    <3>2. msg' = queue[1]
      BY <2>0, <3>1
    <3>3. ASSUME onTime PROVE Len(queue) = 1 /\ queue' = <<>> /\ Len(queue') = 0
      <4>0. PICK n \in Nat : n = Len(queue)
        BY <2>0
      <4>1. n # 0 /\ n <= 1
        BY <2>0, <3>1, <3>3, <4>0
      <4>2. queue' \in Seq(Block) /\ Len(queue') = Len(queue) - 1
        BY <2>0, <3>1, HeadTailProperties
      <4>3. queue' = <<>>
        BY <4>0, <4>1, <4>2, EmptySeq
      <4>4. QED
        BY <4>0, <4>1, <4>2, <4>3
    <3>4. CASE onTime
      <4>1. /\ frame' = IF rpc' \in {"read", "put"} THEN Succ(queue[1].frame) ELSE queue[1].frame
            /\ Newest' = queue[1]
        BY <3>1, <3>2, <3>3, <3>4
      <4>2. rpc # "put"
        BY <3>1, <3>4
      <4>3. frame' = IF rpc' \in {"read", "put"} THEN Succ(Newest'.frame) ELSE Newest'.frame
        BY <4>1, Zenon
      <4>4. queue' = <<>> /\ Len(queue') = 0 /\ rpc' # "put" /\ epc' # "done"
        BY <3>1, <3>3, <3>4, <4>2
      <4>5. QED
        BY <4>3, <4>4
    <3>5. QED
      BY <3>1, <3>4
  <2>7. CASE EncodePart \/ Send
    BY <2>0, <2>7 DEF EncodePart, Send
  <2>8. CASE Kill \/ JoinEncoder \/ JoinReader
    BY <2>8 DEF Kill, JoinEncoder, JoinReader
  <2>9. CASE UNCHANGED vars
    BY <2>9 DEF vars
  <2>10. QED
    BY <2>1, <2>2, <2>3, <2>4, <2>5, <2>6, <2>7, <2>8, <2>9 DEF Next, Reader, Encoder
<1>3. QED
  BY <1>1, <1>2, BoundedInvariance, PTL DEF Spec

(* With two buffers or more and an encoder on time every frame read gets   *)
(* to the encoder, in order: queue->put, whose result nobody looks at,     *)
(* finds room, also for the frame that is ready when the encoder is gone.  *)
THEOREM FramesInOrder == ASSUME NBlocks > 1 PROVE Spec => []InOrder
<1>1. Bounded /\ OrderInv => InOrder
  <2> SUFFICES ASSUME Bounded, OrderInv, onTime,
                      NEW line, line = <<msg>> \o queue
               PROVE  /\ \A i \in 1 .. Len(queue) : line[i + 1].frame = Succ(line[i].frame)
                      /\ frame = IF rpc \in {"read", "put"} THEN Succ(line[Len(line)].frame)
                                                            ELSE line[Len(line)].frame
    BY DEF InOrder
  <2>1. /\ queue \in Seq(Block) /\ Len(queue) \in Nat /\ msg \in Block
        /\ queue = <<>> <=> Len(queue) = 0
    BY EmptySeq, LenProperties DEF Bounded, TypeOK
  <2>2. /\ Len(line) = Len(queue) + 1 /\ line[1] = msg
        /\ \A i \in 1 .. Len(queue) : line[i + 1] = queue[i]
    BY <2>1
  <2>3. line[Len(line)] = Newest
    BY <2>1, <2>2 DEF Newest
  <2>4. Len(queue) <= 2
    BY <2>1 DEF OrderInv
  <2>5. ASSUME NEW i \in 1 .. Len(queue) PROVE line[i + 1].frame = Succ(line[i].frame)
    <3>1. CASE i = 1
      BY <2>1, <2>2, <3>1 DEF OrderInv
    <3>2. CASE i = 2
      <4>0. PICK n \in Nat : n = Len(queue)
        BY <2>1
      <4>1. Len(queue) = 2 /\ 1 \in 1 .. Len(queue) /\ 2 \in 1 .. Len(queue)
        BY <2>4, <3>2, <4>0
      <4>2. line[i + 1] = queue[2] /\ line[1 + 1] = queue[1]
        BY <2>2, <3>2, <4>1
      <4>3. line[i] = queue[1]
        BY <3>2, <4>2
      <4>4. QED
        BY <4>1, <4>2, <4>3 DEF OrderInv
    <3>3. QED
      BY <2>1, <2>4, <3>1, <3>2
  <2>6. QED
    BY <2>3, <2>5 DEF OrderInv
<1>2. QED
  BY <1>1, BoundedInvariance, OrderInvariance, PTL

-----------------------------------------------------------------------------
(* While the encoder is on time there is at most one block about, queued   *)
(* or being encoded; the reader fills another buffer than its.             *)
Holds(f, n, d) == \A p \in 1 .. n : buf[d][p] = f

ContentInv ==
    /\ epc # "encode" => got = <<>>
    /\ onTime /\ epc # "done" =>
         /\ rpc \in {"read", "put"} => Holds(frame, fill, Filling)
         /\ queue # <<>> \/ epc = "encode" =>
              /\ rpc = "read" => Newest.data # Filling
              /\ rpc = "check" => Newest.data = Filling
              /\ Holds(Newest.frame, Newest.bytes, Newest.data)
         /\ epc = "encode" =>
              \A p \in 1 .. Len(got) : p <= msg.bytes => got[p] = msg.frame

(* With more than one buffer no step leaves ContentInv: the reader fills   *)
(* none that the encoder has or will get.                                  *)
LEMMA ContentInvariance == ASSUME NBlocks > 1 PROVE Spec => []ContentInv
<1>1. Init => ContentInv
  BY DEF Init, ContentInv
<1>2. Bounded /\ OrderInv /\ ContentInv /\ [Next]_vars => ContentInv'
  <2> SUFFICES ASSUME Bounded, OrderInv, ContentInv, [Next]_vars PROVE ContentInv'
    OBVIOUS
  <2>0. /\ queue \in Seq(Block) /\ got \in Seq(Labels) /\ msg \in Block
        /\ Filling \in Buffers /\ idx \in Buffers /\ fill \in 0 .. Parts
        /\ buf \in [Buffers -> [1 .. Parts -> Labels]]
    BY Round DEF Bounded, TypeOK, Filling
  <2>00. queue # <<>> => Len(queue) \in Nat \ {0} /\ queue[Len(queue)] \in Block
    BY <2>0, EmptySeq, LenProperties
  <2>1. CASE ReaderStops
    BY <2>1 DEF ReaderStops, ContentInv, Newest, Filling, Holds
  <2>2. CASE Acquire
    <3>1. Filling # idx /\ Filling' = idx
      BY <2>0, <2>2, Round DEF Acquire, Filling
    <3>2. /\ rpc = "check" /\ rpc' = "read" /\ fill' = 0
          /\ UNCHANGED <<buf, onTime, queue, epc, msg, got>>
      BY <2>2 DEF Acquire
    <3>3. QED
      BY <3>1, <3>2 DEF ContentInv, Newest, Holds
  <2>3. CASE ReadPart
    <3>1. /\ rpc = "read" /\ rpc' \in {"read", "put"} /\ fill' = fill + 1
          /\ UNCHANGED <<idx, frame, queue, epc, msg, got>>
          /\ onTime' => onTime
          /\ rpc' = "put" => (onTime' => InTime)
      BY <2>3 DEF ReadPart, Ready
    <3>2. ASSUME onTime PROVE buf' = [buf EXCEPT ![Filling][fill + 1] = frame]
      BY <2>3, <3>2 DEF ReadPart, Label
    <3>3. Filling' = Filling /\ Newest' = Newest
      BY <3>1 DEF Filling, Newest
    <3>4. CASE onTime' /\ epc' # "done"
      <4>1. Holds(frame, fill, Filling)
        BY <3>1, <3>4 DEF ContentInv
      <4>2. Holds(frame, fill, Filling)'
        BY <2>0, <3>1, <3>2, <3>3, <3>4, <4>1 DEF Holds, Bounded
      <4>3. CASE queue # <<>> \/ epc = "encode"
        <5>1. /\ Newest.data # Filling
              /\ Holds(Newest.frame, Newest.bytes, Newest.data)
          BY <3>1, <3>4, <4>3 DEF ContentInv
        <5>2. Holds(Newest.frame, Newest.bytes, Newest.data)'
          <6>1. Newest \in Block
            BY <2>0, <2>00 DEF Newest
          <6>2. PICK b : b = Newest
            OBVIOUS
          <6>3. b.data \in Buffers /\ b.data # Filling /\ Newest' = b
            BY <3>3, <5>1, <6>1, <6>2 DEF Block
          <6>4. buf'[b.data] = buf[b.data]
            BY <2>0, <3>1, <3>2, <3>4, <6>3
          <6>5. QED
            BY <5>1, <6>2, <6>3, <6>4 DEF Holds
        <5>3. QED
          BY <3>1, <3>3, <3>4, <4>2, <5>1, <5>2 DEF ContentInv
      <4>4. CASE ~(queue # <<>> \/ epc = "encode")
        BY <3>1, <3>4, <4>2, <4>4 DEF ContentInv
      <4>5. QED
        BY <4>3, <4>4
    <3>5. CASE ~(onTime' /\ epc' # "done")
      BY <3>1, <3>5 DEF ContentInv
    <3>6. QED
      BY <3>4, <3>5
  <2>4. CASE ReadNothing
    BY <2>4 DEF ReadNothing, Ready, InTime, ContentInv, Newest, Filling, Holds
  <2>5. CASE Put
    <3>0. PICK b : b = [data |-> Filling, bytes |-> fill, frame |-> frame]
      OBVIOUS
    <3>1. /\ rpc = "put" /\ rpc' \in {"check", "done"} /\ Filling' = Filling
          /\ UNCHANGED <<idx, fill, frame, buf, onTime, epc, msg, got>>
      BY <2>5 DEF Put, PutIf, Filling
    <3>2. ASSUME onTime, epc # "done"
          PROVE  /\ queue' = Append(queue, b) /\ queue' # <<>> /\ epc' # "encode"
                 /\ Newest' = b
      <4>1. queue = <<>> /\ epc # "encode"
        BY <3>1, <3>2 DEF OrderInv
      <4>2. queue' = Append(queue, b)
        BY <2>5, <3>0, <4>1, EmptySeq DEF Put, PutIf
      <4>3. Len(queue') = 1 /\ queue'[1] = b
        BY <2>0, <4>1, <4>2
      <4>4. queue' # <<>>
        BY <4>3, EmptySeq
      <4>5. QED
        BY <3>1, <4>1, <4>2, <4>3, <4>4 DEF Newest
    <3>3. CASE onTime /\ epc # "done"
      <4>1. Holds(b.frame, b.bytes, b.data)'
        BY <3>0, <3>1, <3>3 DEF ContentInv, Holds
      <4>2. QED
        BY <3>0, <3>1, <3>2, <3>3, <4>1 DEF ContentInv
    <3>4. CASE ~(onTime /\ epc # "done")
      BY <3>1, <3>4 DEF ContentInv
    <3>5. QED
      BY <3>3, <3>4
  <2>6. CASE EncoderStops \/ EncoderLoops
    BY <2>6 DEF EncoderStops, EncoderLoops, ContentInv, Newest, Filling, Holds
  <2>7. CASE TakeUnheard \/ Take
    <3>1. /\ queue # <<>> /\ epc = "get" /\ epc' \in {"check", "encode"}
          /\ msg' = queue[1] /\ queue' = Tail(queue) /\ Filling' = Filling
          /\ got = <<>> /\ got' = <<>>
          /\ UNCHANGED <<rpc, idx, fill, frame, buf, onTime>>
      BY <2>0, <2>7 DEF TakeUnheard, Take, TakeAnd, Filling, ContentInv
    <3>2. ASSUME onTime PROVE queue' = <<>> /\ Newest = queue[1]
      <4>0. PICK n \in Nat \ {0} : n = Len(queue)
        BY <2>00, <3>1
      <4>1. n = 1
        BY <3>1, <3>2, <4>0 DEF OrderInv
      <4>2. queue' \in Seq(Block) /\ Len(queue') = Len(queue) - 1
        BY <2>0, <3>1, HeadTailProperties
      <4>3. QED
        BY <3>1, <4>0, <4>1, <4>2, EmptySeq DEF Newest
    <3>3. CASE onTime
      <4>1. Newest' = Newest
        BY <3>1, <3>2, <3>3 DEF Newest
      <4>2. Len(got') = 0
        BY <3>1
      <4>3. QED
        BY <3>1, <3>2, <3>3, <4>1, <4>2 DEF ContentInv, Holds
    <3>4. CASE ~onTime
      BY <3>1, <3>4 DEF ContentInv
    <3>5. QED
      BY <3>3, <3>4
  <2>8. CASE EncodePart
    <3>1. /\ epc = "encode" /\ got' = Append(got, buf[msg.data][Len(got) + 1])
          /\ Filling' = Filling /\ Newest' = Newest
          /\ UNCHANGED <<rpc, idx, fill, frame, buf, onTime, queue, epc, msg>>
      BY <2>8 DEF EncodePart, Filling, Newest
    <3>2. CASE onTime
      <4>1. queue = <<>> /\ Newest = msg
        BY <3>1, <3>2 DEF OrderInv, Newest
      <4>2. ASSUME NEW p \in 1 .. Len(got'), p <= msg.bytes
            PROVE  got'[p] = msg.frame
        <5>1. Len(got) \in Nat /\ Len(got') = Len(got) + 1
          BY <2>0, <3>1
        <5>2. CASE p = Len(got) + 1
          <6>1. got'[p] = buf[msg.data][p]
            BY <2>0, <3>1, <5>2
          <6>2. p \in 1 .. msg.bytes
            BY <2>0, <4>2, <5>1 DEF Block
          <6>3. QED
            BY <3>1, <3>2, <4>1, <6>1, <6>2 DEF ContentInv, Holds
        <5>3. CASE p # Len(got) + 1
          <6>1. p \in 1 .. Len(got)
            BY <5>1, <5>3
          <6>2. got'[p] = got[p]
            BY <2>0, <3>1, <6>1
          <6>3. QED
            BY <3>1, <3>2, <4>2, <6>1, <6>2 DEF ContentInv
        <5>4. QED
          BY <5>2, <5>3
      <4>3. QED
        BY <3>1, <3>2, <4>2 DEF ContentInv, Holds
    <3>3. CASE ~onTime
      BY <3>1, <3>3 DEF ContentInv
    <3>4. QED
      BY <3>2, <3>3
  <2>9. CASE Send
    BY <2>9 DEF Send, ContentInv, Newest, Filling, Holds
  <2>10. CASE Kill \/ JoinEncoder \/ JoinReader
    BY <2>10 DEF Kill, JoinEncoder, JoinReader, ContentInv, Newest, Filling, Holds
  <2>11. CASE UNCHANGED vars
    BY <2>11 DEF vars, ContentInv, Newest, Filling, Holds
  <2>12. QED
    BY <2>1, <2>2, <2>3, <2>4, <2>5, <2>6, <2>7, <2>8, <2>9, <2>10, <2>11
       DEF Next, Reader, Encoder
<1>3. QED
  BY <1>1, <1>2, BoundedInvariance, OrderInvariance, PTL DEF Spec

(* With two buffers or more, no part of the frame an encoder on time sees  *)
(* has been overwritten while it was in the queue or being encoded.        *)
THEOREM FramesAreWhole == ASSUME NBlocks > 1 PROVE Spec => []NoTear
<1>1. ContentInv => NoTear
  BY DEF ContentInv, NoTear
<1>2. QED
  BY <1>1, ContentInvariance, PTL
=============================================================================
