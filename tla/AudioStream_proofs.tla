------------------------- MODULE AudioStream_proofs -------------------------
(***************************************************************************)
(* Proofs about AudioStream, for every size of the sequence space, every   *)
(* target delay, and a network that loses, duplicates and reorders         *)
(* without bound.                                                          *)
(*                                                                         *)
(* The first part holds of any number of sender processes and of streams   *)
(* that wrap around: the stream only ever feeds the jitter buffer packets  *)
(* it admits, so what JitterBuffer_proofs proves carries over.  The rest   *)
(* is about the first process before it wraps around (OneStream): order,   *)
(* the refinement, where every frame is, the loss counter and the depth.   *)
(***************************************************************************)
EXTENDS AudioStream, DataLemmas, FiniteSetTheorems, SequenceTheorems, TLAPS

Buffer == INSTANCE JitterBuffer_proofs

(* Every packet of the stream is one the buffer's assumption admits.        *)
LEMMA PacketsAdmitted == Buffer!JitterBufferAssumption
BY AudioStreamAssumption DEF Buffer!JitterBufferAssumption, Buffer!Seqs, Packets

StreamTypes ==
  /\ epoch \in 0 .. Incarnations - 1
  /\ pos \in 0 .. StreamLength
  /\ sequenceNumber \in 0 .. SeqMod - 1
  /\ net \subseteq Packets
  /\ lostFrames \subseteq Frames
  /\ dups \in 0 .. MaxDup
  /\ played \in Seq(Frames)
  /\ discarded \subseteq Frames

(* The operators of the two instances of the buffer are the same.           *)
LEMMA SameOperators ==
  /\ \A q : Buffer!Depth(q) = JB!Depth(q)
  /\ \A q, p : Buffer!Insert(q, p) = JB!Insert(q, p)
  /\ \A q, k : Buffer!Remove(q, k) = JB!Remove(q, k)
  /\ \A c, n : Buffer!Count(c, n) = JB!Count(c, n)
  /\ \A a, b : Buffer!WrappingSub(a, b) = JB!WrappingSub(a, b)
  /\ \A a : Buffer!WrappingSucc(a) = JB!WrappingSucc(a)
  /\ Buffer!Target = JB!Target
  /\ Buffer!Earliest = JB!Earliest
<1>1. \A S : Buffer!Cardinality(S) = JB!Cardinality(S)
  BY DEF Buffer!Cardinality, JB!Cardinality
<1>2. \A S : Buffer!Min(S) = JB!Min(S) /\ Buffer!Max(S) = JB!Max(S)
  BY DEF Buffer!Min, JB!Min, Buffer!Max, JB!Max
<1> QED
  BY <1>1, <1>2 DEF Buffer!Depth, JB!Depth, Buffer!Insert, JB!Insert, Buffer!Remove, JB!Remove,
     Buffer!Restrict, JB!Restrict, Buffer!Count, JB!Count, Buffer!WrappingSub, JB!WrappingSub,
     Buffer!WrappingSucc, JB!WrappingSucc, Buffer!Target, JB!Target, Buffer!Earliest, JB!Earliest

LEMMA InitTypes == Init => StreamTypes
BY AudioStreamAssumption DEF Init, StreamTypes

(* A step of the stream is one of the buffer, on a packet it admits, or     *)
(* leaves the buffer alone.                                                 *)
LEMMA BufferStep ==
  ASSUME StreamTypes, [Next]_vars
  PROVE  [Buffer!Next]_(Buffer!vars)
<1>1. CASE SenderNext
  BY <1>1 DEF SenderNext, Send, SendFails, Advance, RestartSender, receiverVars, Buffer!vars
<1>2. ASSUME NEW p \in net, Lose(p) \/ Deliver(p) \/ Duplicate(p)
      PROVE  [Buffer!Next]_(Buffer!vars)
  <2>1. CASE Lose(p)
    BY <2>1 DEF Lose, receiverVars, Buffer!vars
  <2>2. CASE JB!PushLate(p) \/ JB!PushStored(p)
    <3>1. Buffer!Push(p)
      BY <2>2, SameOperators DEF JB!PushLate, JB!PushStored, Buffer!Push, Buffer!PushLate,
         Buffer!PushStored, JB!IsLate, Buffer!IsLate
    <3>2. p \in Packets
      BY DEF StreamTypes
    <3> QED
      BY <3>1, <3>2 DEF Buffer!Next
  <2> QED
    BY <1>2, <2>1, <2>2 DEF Deliver, Duplicate, Receive
<1>3. CASE PopAndForward
  <2>1. Buffer!Pop
    BY <1>3, SameOperators
       DEF PopAndForward, JB!Pop, Buffer!Pop, JB!PopPaused, JB!PopExpected, JB!PopUnderrun,
       JB!PopGap, JB!PopResync, Buffer!PopPaused, Buffer!PopExpected, Buffer!PopUnderrun,
       Buffer!PopGap, Buffer!PopResync, JB!Skipping, Buffer!Skipping, JB!Popping, Buffer!Popping,
       JB!Release, Buffer!Release, JB!Gap, Buffer!Gap
  <2> QED
    BY <2>1 DEF Buffer!Next
<1>4. CASE UNCHANGED vars
  BY <1>4 DEF vars, receiverVars, Buffer!vars
<1> QED
  BY <1>1, <1>2, <1>3, <1>4 DEF Next, NetworkNext

StreamInv == StreamTypes /\ Buffer!IInv

LEMMA InitStream == Init => StreamInv
<1>1. Init => Buffer!Init
  BY DEF Init, JB!Init, Buffer!Init, JB!EmptyQueue, Buffer!EmptyQueue
<1> QED
  BY <1>1, InitTypes, PacketsAdmitted, Buffer!InitIInv DEF StreamInv

LEMMA NextStream == StreamInv /\ [Next]_vars => StreamInv'
<1> SUFFICES ASSUME StreamInv, [Next]_vars
             PROVE  StreamInv'
  OBVIOUS
<1> USE AudioStreamAssumption
<1>1. Buffer!IInv'
  BY BufferStep, PacketsAdmitted, Buffer!NextIInv DEF StreamInv
<1>2. CASE Send \/ SendFails
  <2>1. /\ pos \in 0 .. StreamLength - 1 /\ pos' = pos + 1
        /\ sequenceNumber' \in 0 .. SeqMod - 1
        /\ UNCHANGED <<epoch, dups, played, discarded>>
    BY <1>2 DEF Send, SendFails, Advance, histories, StreamInv, StreamTypes, JB!WrappingSucc
  <2>2. CurrentPacket \in Packets /\ CurrentFrame \in Frames
    BY <2>1 DEF StreamInv, StreamTypes, CurrentPacket, CurrentFrame, Packets, Frames
  <2>3. net' \subseteq net \cup {CurrentPacket} /\ lostFrames' \subseteq lostFrames \cup {CurrentFrame}
    BY <1>2 DEF Send, SendFails
  <2> QED
    BY <1>1, <2>1, <2>2, <2>3 DEF StreamInv, StreamTypes
<1>3. CASE RestartSender
  BY <1>1, <1>3 DEF RestartSender, netVars, histories, StreamInv, StreamTypes
<1>4. ASSUME NEW p \in net, Lose(p) \/ Deliver(p) \/ Duplicate(p)
      PROVE  StreamInv'
  <2>1. p.payload \in Frames
    BY DEF StreamInv, StreamTypes, Packets
  <2>2. /\ UNCHANGED <<epoch, pos, sequenceNumber, played>>
        /\ net' \subseteq net /\ lostFrames' \subseteq lostFrames \cup {p.payload}
        /\ discarded' \subseteq discarded \cup {p.payload}
        /\ dups' = dups \/ (dups < MaxDup /\ dups' = dups + 1)
    BY <1>4 DEF Lose, Deliver, Duplicate, Receive, senderVars, histories
  <2> QED
    BY <1>1, <2>1, <2>2 DEF StreamInv, StreamTypes
<1>5. CASE PopAndForward
  <2>1. popped' \in Packets \cup {None}
    BY <1>1 DEF Buffer!IInv, Buffer!TypeOK
  <2>2. popped' # None => popped'.payload \in Frames
    BY <2>1 DEF Packets
  <2>3. played' \in Seq(Frames)
    BY <1>5, <2>2 DEF PopAndForward, StreamInv, StreamTypes
  <2> QED
    BY <1>1, <1>5, <2>3 DEF PopAndForward, senderVars, netVars, StreamInv, StreamTypes
<1>6. CASE UNCHANGED vars
  BY <1>1, <1>6 DEF vars, senderVars, netVars, histories, StreamInv, StreamTypes
<1> QED
  BY <1>2, <1>3, <1>4, <1>5, <1>6 DEF Next, SenderNext, NetworkNext

(* Both invariants hold of the stream.                                      *)
LEMMA StreamInvariance == Spec => []StreamInv
BY InitStream, NextStream, PTL DEF Spec

(* Type correctness.                                                        *)
THEOREM TypeCorrect == Spec => []TypeOK
<1>1. StreamInv => TypeOK
  <2>1. Buffer!TypeOK => JB!TypeOK
    BY DEF Buffer!TypeOK, JB!TypeOK, Buffer!Seqs, JB!Seqs
  <2> QED
    BY <2>1 DEF StreamInv, StreamTypes, TypeOK, Buffer!IInv
<1> QED
  BY <1>1, StreamInvariance, PTL

(* The receiver of an audio stream behaves as the jitter buffer of          *)
(* JitterBuffer.tla does under its own, most general environment.           *)
THEOREM StreamDrivesBuffer == Spec => Buffer!Spec
<1>1. Init => Buffer!Init
  BY DEF Init, JB!Init, Buffer!Init, JB!EmptyQueue, Buffer!EmptyQueue
<1>2. StreamInv /\ [Next]_vars => [Buffer!Next]_(Buffer!vars)
  BY BufferStep DEF StreamInv
<1> QED
  BY <1>1, <1>2, StreamInvariance, PTL DEF Spec, Buffer!Spec

(* So the map of an audio stream is bounded by the target delay, whatever   *)
(* the network and restarts do.                                             *)
THEOREM StreamDepthBounded == Spec => []JB!DepthBound
<1>1. Buffer!Spec => []Buffer!DepthBound
  BY PacketsAdmitted, Buffer!DepthBounded
<1>2. Buffer!DepthBound => JB!DepthBound
  BY SameOperators DEF Buffer!DepthBound, JB!DepthBound
<1> QED
  BY <1>1, <1>2, StreamDrivesBuffer, PTL

-----------------------------------------------------------------------------
(* One sender process whose stream stays below half the sequence space:     *)
(* 2^31 frames are more than 60 days at 2.5 ms a frame.                     *)
OneStream == Incarnations = 1 /\ StreamLength < HalfRange

-----------------------------------------------------------------------------
(* The least element of a non-empty set of naturals, as the instance of the *)
(* jitter buffer chooses it.                                                *)
LEMMA LeastKey ==
  ASSUME NEW S, S \subseteq Nat, S # {}
  PROVE  JB!Min(S) \in S /\ \A s \in S : JB!Min(S) <= s
BY MinOfNaturals DEF JB!Min, Min

-----------------------------------------------------------------------------
(* The frames that travel carry the number of their position.               *)
SenderInv ==
  /\ epoch = 0
  /\ pos \in 0 .. StreamLength
  /\ sequenceNumber = pos
  /\ \A p \in net : p \in Packets /\ p.seq = p.payload.pos /\ p.seq < pos

(* What is buffered lies from the expected number on, what was played lies  *)
(* before it: the one relation between queue, expected_seq and the past     *)
(* that keeps playout in order.                                             *)
ReceiverInv ==
  /\ expected \in (0 .. pos) \cup {None}
  /\ DOMAIN queue \subseteq Nat
  /\ \A s \in DOMAIN queue : /\ queue[s] \in Packets
                             /\ queue[s].seq = s
                             /\ queue[s].payload.pos = s
                             /\ s < pos
                             /\ expected # None
                             /\ expected <= s
  /\ played \in Seq(Frames)
  /\ \A i \in 1 .. Len(played) : expected # None /\ played[i].pos < expected

IInv == SenderInv /\ ReceiverInv /\ PlayedInOrder

(* The assumption in the form the steps below use.                          *)
LEMMA Facts ==
  ASSUME OneStream
  PROVE  /\ StreamLength \in Nat /\ HalfRange \in Nat /\ SeqMod = 2 * HalfRange
         /\ StreamLength < HalfRange
         /\ None \notin Packets /\ None \notin Int
         /\ \A f \in Frames : f.epoch = 0 /\ f.pos \in 0 .. StreamLength - 1
BY AudioStreamAssumption DEF OneStream, Frames

LEMMA InitIInv == ASSUME OneStream, Init PROVE IInv
<1> USE Facts
<1>1. SenderInv
  BY DEF Init, SenderInv
<1>2. ReceiverInv /\ PlayedInOrder
  BY DEF Init, ReceiverInv, PlayedInOrder, JB!Init, JB!EmptyQueue
<1> QED
  BY <1>1, <1>2 DEF IInv

(* The sender's steps touch neither the receiver nor the histories.         *)
LEMMA SenderIInv ==
  ASSUME OneStream, IInv, SenderNext
  PROVE  IInv'
<1> USE Facts
<1>1. CASE Send \/ SendFails
  <2>1. pos < StreamLength /\ pos' = pos + 1 /\ sequenceNumber' = pos + 1 /\ epoch' = 0
    BY <1>1 DEF Send, SendFails, Advance, IInv, SenderInv, JB!WrappingSucc
  <2>2. UNCHANGED <<receiverVars, histories>>
    BY <1>1 DEF Send, SendFails, Advance
  <2>3. ASSUME NEW p \in net' PROVE p \in Packets /\ p.seq = p.payload.pos /\ p.seq < pos'
    <3>1. CASE p \in net
      BY <3>1, <2>1 DEF IInv, SenderInv, Packets, Frames
    <3>2. CASE p \notin net
      <4>1. p = CurrentPacket
        BY <1>1, <3>2, <2>3 DEF Send, SendFails
      <4>2. CurrentPacket \in Packets
        BY <2>1, AudioStreamAssumption DEF IInv, SenderInv, CurrentPacket, CurrentFrame, Packets, Frames, OneStream
      <4> QED
        BY <4>1, <4>2, <2>1 DEF CurrentPacket, CurrentFrame, IInv, SenderInv
    <3> QED
      BY <3>1, <3>2
  <2>4. SenderInv'
    <3>1. pos' \in 0 .. StreamLength
      BY <2>1 DEF IInv, SenderInv
    <3> QED
      BY <2>1, <2>3, <3>1 DEF SenderInv
  <2>5. ReceiverInv' /\ PlayedInOrder'
    BY <2>1, <2>2 DEF IInv, SenderInv, ReceiverInv, PlayedInOrder, receiverVars, histories, Earlier
  <2> QED
    BY <2>4, <2>5 DEF IInv
<1>2. CASE RestartSender
  BY <1>2 DEF RestartSender, IInv, SenderInv, OneStream
<1> QED
  BY <1>1, <1>2 DEF SenderNext

(* A packet behind the expected number is recognised as late, and one that  *)
(* is stored is therefore not behind it.                                    *)
LEMMA StoredNotBehind ==
  ASSUME OneStream, IInv, NEW p \in net, ~JB!IsLate(p.seq), expected # None
  PROVE  expected <= p.seq
<1> USE Facts
<1>1. p.seq \in Nat /\ expected \in Nat /\ expected <= StreamLength /\ p.seq < StreamLength
  BY DEF IInv, SenderInv, ReceiverInv, Packets, Frames
<1>2. ~ (JB!WrappingSub(p.seq, expected) > HalfRange)
  BY DEF JB!IsLate
<1> QED
  BY <1>1, <1>2 DEF JB!WrappingSub

(* The network's steps, with the push of a delivered datagram.              *)
LEMMA NetworkIInv ==
  ASSUME OneStream, IInv, NEW p \in net, Lose(p) \/ Deliver(p) \/ Duplicate(p)
  PROVE  IInv'
<1> USE Facts
<1>1. net' \subseteq net /\ UNCHANGED <<senderVars, played>>
  BY DEF Lose, Deliver, Duplicate, Receive, histories
<1>2. SenderInv' /\ PlayedInOrder'
  BY <1>1 DEF IInv, SenderInv, PlayedInOrder, senderVars, Earlier
<1>3. p \in Packets /\ p.seq \in Nat /\ p.seq = p.payload.pos /\ p.seq < pos /\ pos \in Nat
  BY DEF IInv, SenderInv, Packets, Frames
<1>4. ReceiverInv'
  <2>1. CASE Lose(p) \/ JB!PushLate(p)
    <3>1. UNCHANGED <<queue, expected>>
      BY <2>1 DEF Lose, receiverVars, JB!PushLate
    <3> QED
      BY <1>1, <3>1 DEF IInv, ReceiverInv, senderVars
  <2>2. CASE JB!PushStored(p)
    <3>1. ~JB!IsLate(p.seq)
      BY <2>2 DEF JB!PushStored
    <3>2. /\ expected' # None /\ expected' \in 0 .. pos
          /\ expected' <= p.seq
          /\ expected # None => expected' = expected
      BY <2>2, <1>3, <3>1, StoredNotBehind DEF JB!PushStored, IInv, ReceiverInv
    <3>3. /\ DOMAIN queue' = DOMAIN queue \cup {p.seq}
          /\ queue'[p.seq] = p
          /\ \A s \in DOMAIN queue : s # p.seq => queue'[s] = queue[s]
      BY <2>2 DEF JB!PushStored, JB!Insert
    <3> QED
      BY <1>1, <1>3, <3>2, <3>3 DEF IInv, ReceiverInv, senderVars
  <2> QED
    BY <2>1, <2>2 DEF Deliver, Duplicate, Receive
<1> QED
  BY <1>2, <1>4 DEF IInv

(* A pop releases nothing, or the buffered packet that lies first from the  *)
(* expected number on, and moves the expected number past it.               *)
LEMMA PopCases ==
  ASSUME OneStream, IInv, JB!Pop
  PROVE  \/ popped' = None /\ UNCHANGED <<queue, expected>>
         \/ \E k \in DOMAIN queue :
              /\ \A s \in DOMAIN queue : k <= s
              /\ popped' = queue[k] /\ popped' # None
              /\ expected' = k + 1
              /\ DOMAIN queue' = DOMAIN queue \ {k}
              /\ \A s \in DOMAIN queue' : queue'[s] = queue[s]
<1> USE Facts
<1>1. CASE JB!PopPaused \/ JB!PopUnderrun
  BY <1>1 DEF JB!PopPaused, JB!PopUnderrun
<1>2. ASSUME NEW k \in DOMAIN queue, JB!Release(k), \A s \in DOMAIN queue : k <= s
      PROVE  /\ popped' = queue[k] /\ popped' # None
             /\ expected' = k + 1
             /\ DOMAIN queue' = DOMAIN queue \ {k}
             /\ \A s \in DOMAIN queue' : queue'[s] = queue[s]
  <2>1. k \in Nat /\ k < StreamLength /\ queue[k] \in Packets
    BY DEF IInv, SenderInv, ReceiverInv
  <2>2. JB!WrappingSucc(k) = k + 1
    BY <2>1 DEF JB!WrappingSucc
  <2> QED
    BY <1>2, <2>1, <2>2 DEF JB!Release, JB!Remove, JB!Restrict
<1>3. CASE JB!PopExpected
  <2>1. \A s \in DOMAIN queue : expected <= s
    BY DEF IInv, ReceiverInv
  <2> QED
    BY <1>2, <1>3, <2>1 DEF JB!PopExpected
<1>4. CASE JB!PopGap \/ JB!PopResync
  <2>1. JB!Earliest \in DOMAIN queue /\ \A s \in DOMAIN queue : JB!Earliest <= s
    BY <1>4, LeastKey DEF JB!PopGap, JB!PopResync, JB!Skipping, JB!Earliest, IInv, ReceiverInv
  <2> QED
    BY <1>2, <1>4, <2>1 DEF JB!PopGap, JB!PopResync
<1> QED
  BY <1>1, <1>3, <1>4 DEF JB!Pop

LEMMA PlayedType ==
  ASSUME OneStream, IInv, NEW i \in 1 .. Len(played)
  PROVE  played[i] \in Frames /\ played[i].epoch = 0 /\ played[i].pos \in Nat
<1>1. played \in Seq(Frames)
  BY DEF IInv, ReceiverInv
<1>2. played[i] \in Frames
  BY <1>1, ElementOfSeq
<1> QED
  BY <1>2, Facts

(* The frame a pop releases comes after every frame played before it.       *)
LEMMA PoppedIsNew ==
  ASSUME OneStream, IInv, NEW k \in DOMAIN queue
  PROVE  /\ queue[k].payload \in Frames /\ queue[k].payload.pos = k
         /\ k \in Nat /\ k < pos
         /\ \A i \in 1 .. Len(played) : played[i].pos < k
<1> USE Facts
<1>1. /\ queue[k].payload \in Frames /\ queue[k].payload.pos = k
      /\ k \in Nat /\ k < pos /\ expected # None /\ expected <= k /\ expected \in Nat
  BY DEF IInv, SenderInv, ReceiverInv, Packets
<1>2. \A i \in 1 .. Len(played) : played[i].pos \in Nat /\ played[i].pos < expected
  BY PlayedType DEF IInv, ReceiverInv
<1> QED
  BY <1>1, <1>2

LEMMA PopIInv ==
  ASSUME OneStream, IInv, PopAndForward
  PROVE  IInv'
<1> USE Facts
<1>1. SenderInv'
  BY DEF PopAndForward, IInv, SenderInv, senderVars, netVars
<1>2. CASE popped' = None /\ UNCHANGED <<queue, expected>>
  <2>1. UNCHANGED played
    BY <1>2 DEF PopAndForward
  <2> QED
    BY <1>1, <1>2, <2>1 DEF PopAndForward, IInv, ReceiverInv, PlayedInOrder, Earlier, senderVars
<1>3. ASSUME NEW k \in DOMAIN queue,
             \A s \in DOMAIN queue : k <= s,
             popped' = queue[k], popped' # None, expected' = k + 1,
             DOMAIN queue' = DOMAIN queue \ {k},
             \A s \in DOMAIN queue' : queue'[s] = queue[s]
      PROVE  IInv'
  <2>1. played' = Append(played, queue[k].payload) /\ pos' = pos
    BY <1>3 DEF PopAndForward, senderVars
  <2>2. /\ queue[k].payload \in Frames /\ queue[k].payload.pos = k
        /\ k \in Nat /\ k < pos
        /\ \A i \in 1 .. Len(played) : played[i].pos < k
    BY PoppedIsNew
  <2>3. played \in Seq(Frames)
    BY DEF IInv, ReceiverInv
  <2>4. /\ played' \in Seq(Frames) /\ Len(played') = Len(played) + 1
        /\ Len(played) \in Nat
        /\ \A i \in 1 .. Len(played) : played'[i] = played[i]
        /\ played'[Len(played) + 1] = queue[k].payload
    BY <2>1, <2>2, <2>3
  <2>5. ReceiverInv'
    <3>1. expected' \in 0 .. pos' /\ expected' # None
      BY <1>3, <2>1, <2>2 DEF IInv, SenderInv
    <3>2. \A s \in DOMAIN queue' : /\ queue'[s] \in Packets
                                   /\ queue'[s].seq = s
                                   /\ queue'[s].payload.pos = s
                                   /\ s < pos' /\ s \in Nat
                                   /\ expected' <= s
      BY <1>3, <2>1, <2>2 DEF IInv, ReceiverInv
    <3>3. \A i \in 1 .. Len(played') : played'[i].pos < expected'
      <4> SUFFICES ASSUME NEW i \in 1 .. Len(played') PROVE played'[i].pos < expected'
        OBVIOUS
      <4>1. CASE i \in 1 .. Len(played)
        <5>1. played[i].pos \in Nat /\ played[i].pos < k
          BY <2>2, <4>1, PlayedType
        <5> QED
          BY <1>3, <2>2, <2>4, <4>1, <5>1
      <4>2. CASE i = Len(played) + 1
        BY <1>3, <2>2, <2>4, <4>2
      <4> QED
        BY <2>4, <4>1, <4>2
    <3> QED
      BY <2>4, <3>1, <3>2, <3>3 DEF ReceiverInv
  <2>6. PlayedInOrder'
    <3> SUFFICES ASSUME NEW i \in 1 .. Len(played'), NEW j \in 1 .. Len(played'), i < j
                 PROVE  Earlier(played'[i], played'[j])
      BY DEF PlayedInOrder, Earlier
    <3>1. CASE j \in 1 .. Len(played)
      <4>1. i \in 1 .. Len(played) /\ played'[i] = played[i] /\ played'[j] = played[j]
        BY <2>4, <3>1
      <4>2. Earlier(played[i], played[j])
        BY <3>1, <4>1 DEF IInv, PlayedInOrder
      <4> QED
        BY <4>1, <4>2
    <3>2. CASE j = Len(played) + 1
      <4>1. i \in 1 .. Len(played) /\ played'[i] = played[i]
        BY <2>4, <3>2
      <4>2. played[i].epoch = 0 /\ played[i].pos < k
        BY <2>2, <4>1, PlayedType
      <4>3. played'[j] = queue[k].payload /\ played'[j].epoch = 0 /\ played'[j].pos = k
        BY <2>2, <2>4, <3>2
      <4> QED
        BY <4>1, <4>2, <4>3 DEF Earlier
    <3> QED
      BY <2>4, <3>1, <3>2
  <2> QED
    BY <1>1, <2>5, <2>6 DEF IInv
<1> QED
  BY <1>2, <1>3, PopCases DEF PopAndForward

LEMMA NextIInv ==
  ASSUME OneStream, IInv, [Next]_vars
  PROVE  IInv'
<1>1. CASE SenderNext
  BY <1>1, SenderIInv
<1>2. CASE NetworkNext
  BY <1>2, NetworkIInv DEF NetworkNext
<1>3. CASE PopAndForward
  BY <1>3, PopIInv
<1>4. CASE UNCHANGED vars
  BY <1>4 DEF vars, senderVars, netVars, receiverVars, histories, IInv, SenderInv,
              ReceiverInv, PlayedInOrder, Earlier
<1> QED
  BY <1>1, <1>2, <1>3, <1>4 DEF Next

LEMMA Invariance == ASSUME OneStream PROVE Spec => []IInv
<1>1. Init => IInv
  BY InitIInv
<1>2. IInv /\ [Next]_vars => IInv'
  BY NextIInv
<1> QED
  BY <1>1, <1>2, PTL DEF Spec

(* A pop releases the packet that comes first from the expected number on:  *)
(* the loop is right as long as the smallest number is the oldest packet.   *)
THEOREM EarliestReleased == ASSUME OneStream PROVE Spec => ReleasesEarliest
<1>1. IInv /\ [Next]_vars =>
        [phase # "recv" /\ phase' = "recv" /\ popped' # None =>
           \A s \in DOMAIN queue : JB!WrappingSub(popped'.seq, expected)
                                    <= JB!WrappingSub(s, expected)]_vars
  <2> SUFFICES ASSUME IInv, [Next]_vars, phase # "recv", phase' = "recv", popped' # None,
                      NEW s \in DOMAIN queue
               PROVE  JB!WrappingSub(popped'.seq, expected) <= JB!WrappingSub(s, expected)
    OBVIOUS
  <2>1. CASE PopAndForward
    <3>1. PICK k \in DOMAIN queue : k <= s /\ popped' = queue[k]
      BY <2>1, PopCases DEF PopAndForward
    <3>2. popped'.seq = k /\ k \in Nat /\ s \in Nat /\ expected \in Nat /\ expected <= k
      BY <3>1, Facts DEF IInv, SenderInv, ReceiverInv
    <3> QED
      BY <3>1, <3>2 DEF JB!WrappingSub
  <2>2. CASE SenderNext \/ NetworkNext \/ UNCHANGED vars
    BY <2>2 DEF SenderNext, NetworkNext, Send, SendFails, Advance, RestartSender, Lose, Deliver,
       Duplicate, Receive, JB!PushLate, JB!PushStored, vars, receiverVars
  <2> QED
    BY <2>1, <2>2 DEF Next
<1> QED
  BY <1>1, Invariance, PTL DEF Spec, ReleasesEarliest

(* Frames are played in the order they were encoded and none twice,         *)
(* whatever the network loses, duplicates and reorders.                     *)
THEOREM PlayoutInOrder == ASSUME OneStream PROVE Spec => []PlayedInOrder
<1>1. IInv => PlayedInOrder
  BY DEF IInv
<1> QED
  BY <1>1, Invariance, PTL

-----------------------------------------------------------------------------
(* The stream implements OrderedPlayout: a step of the sender offers a      *)
(* frame, a pop that releases a frame hears it, and every other step leaves *)
(* the listener's view unchanged.                                           *)
LEMMA RefinementStep ==
  ASSUME OneStream, IInv, [Next]_vars
  PROVE  [Playout!Next]_<<0 .. pos - 1, [i \in 1 .. Len(played) |-> played[i].pos]>>
<1> USE Facts
<1> DEFINE heard == [i \in 1 .. Len(played) |-> played[i].pos]
<1>1. CASE Send \/ SendFails
  <2>1. pos \in 0 .. StreamLength - 1 /\ pos' = pos + 1 /\ UNCHANGED played
    BY <1>1 DEF Send, SendFails, Advance, histories, IInv, SenderInv
  <2>2. pos \in (0 .. StreamLength - 1) \ (0 .. pos - 1) /\ 0 .. pos' - 1 = (0 .. pos - 1) \cup {pos}
    BY <2>1
  <2> QED
    BY <2>1, <2>2 DEF Playout!Next, Playout!Offer
<1>2. CASE RestartSender
  BY <1>2 DEF RestartSender, IInv, SenderInv, OneStream
<1>3. CASE NetworkNext \/ UNCHANGED vars
  BY <1>3 DEF NetworkNext, Lose, Deliver, Duplicate, Receive, vars, senderVars, histories
<1>4. CASE PopAndForward
  <2>1. CASE popped' = None
    BY <1>4, <2>1 DEF PopAndForward, senderVars
  <2>2. ASSUME NEW k \in DOMAIN queue, popped' = queue[k], popped' # None
        PROVE  Playout!Hear
    <3>1. played' = Append(played, queue[k].payload) /\ pos' = pos
      BY <1>4, <2>2 DEF PopAndForward, senderVars
    <3>2. /\ queue[k].payload \in Frames /\ queue[k].payload.pos = k
          /\ k \in Nat /\ k < pos
          /\ \A i \in 1 .. Len(played) : played[i].pos < k
      BY PoppedIsNew
    <3>3. played \in Seq(Frames) /\ pos \in Nat
      BY DEF IInv, SenderInv, ReceiverInv
    <3>4. heard' = Append(heard, k)
      BY <3>1, <3>2, <3>3
    <3>5. Len(heard) = Len(played) /\ \A i \in 1 .. Len(heard) : heard[i] < k
      BY <3>2, <3>3
    <3>6. k \in 0 .. pos - 1
      BY <3>2, <3>3
    <3> QED
      BY <3>1, <3>4, <3>5, <3>6 DEF Playout!Hear
  <2> QED
    BY <1>4, <2>1, <2>2, PopCases DEF PopAndForward, Playout!Next
<1> QED
  BY <1>1, <1>2, <1>3, <1>4 DEF Next, SenderNext

(* One stream implements the abstract playout: each pop that releases a     *)
(* frame is a step of OrderedPlayout, every other step a stutter.           *)
THEOREM Refinement == ASSUME OneStream PROVE Spec => ImplementsOrderedPlayout
<1>1. Init => Playout!Init
  BY DEF Init, Playout!Init
<1>2. IInv /\ [Next]_vars =>
        [Playout!Next]_<<0 .. pos - 1, [i \in 1 .. Len(played) |-> played[i].pos]>>
  BY RefinementStep
<1> QED
  BY <1>1, <1>2, Invariance, PTL DEF Spec, ImplementsOrderedPlayout, Playout!Spec

-----------------------------------------------------------------------------
(* The frames the receiver has got.                                         *)
Accounted ==
  EncodedFrames = InFlightFrames \cup lostFrames \cup BufferedFrames
                    \cup PlayedFrames \cup discarded

(* What is buffered lies from the expected number on, what was played before *)
LEMMA BufferedNotPlayed == ASSUME OneStream, IInv PROVE BufferedFrames \cap PlayedFrames = {}
<1> SUFFICES ASSUME NEW k \in DOMAIN queue, NEW i \in 1 .. Len(played),
                    queue[k].payload = played[i]
             PROVE  FALSE
  BY DEF BufferedFrames, PlayedFrames
<1>1. queue[k].payload.pos = k /\ k \in Nat /\ played[i].pos < k
  BY PoppedIsNew
<1> QED
  BY <1>1

(* A frame is stored under its own number, beside the others.               *)
LEMMA SameNumberSameFrame ==
  ASSUME OneStream, IInv, NEW p \in net, p.seq \in DOMAIN queue
  PROVE  queue[p.seq].payload = p.payload
<1>1. p \in Packets /\ p.seq = p.payload.pos
  BY DEF IInv, SenderInv
<1>2. queue[p.seq] \in Packets /\ queue[p.seq].payload.pos = p.seq
  BY DEF IInv, ReceiverInv
<1>3. \A f, g \in Frames : f.pos = g.pos => f = g
  BY Facts DEF Frames
<1> QED
  BY <1>1, <1>2, <1>3 DEF Packets

LEMMA StoredFrames ==
  ASSUME OneStream, IInv, NEW p \in net, JB!PushStored(p)
  PROVE  BufferedFrames' = BufferedFrames \cup {p.payload}
<1>1. /\ DOMAIN queue' = DOMAIN queue \cup {p.seq}
      /\ queue'[p.seq] = p
      /\ \A s \in DOMAIN queue : s # p.seq => queue'[s] = queue[s]
  BY DEF JB!PushStored, JB!Insert
<1>2. \A f \in BufferedFrames : f \in BufferedFrames' \/ f = p.payload
  BY <1>1, SameNumberSameFrame DEF BufferedFrames
<1>3. p.payload \in BufferedFrames'
  BY <1>1 DEF BufferedFrames
<1>4. \A f \in BufferedFrames' : f \in BufferedFrames \/ f = p.payload
  BY <1>1 DEF BufferedFrames
<1>5. \A f \in BufferedFrames : f \in BufferedFrames'
  BY <1>2, <1>3
<1> QED
  BY <1>3, <1>4, <1>5

(* The sender adds a frame, to what is in flight or to what is lost.        *)
LEMMA AdvanceAccounted ==
  ASSUME OneStream, IInv, Accounted, Send \/ SendFails
  PROVE  Accounted'
<1> USE Facts
<1>1. /\ pos \in 0 .. StreamLength - 1 /\ pos' = pos + 1 /\ epoch = 0 /\ epoch' = 0
      /\ UNCHANGED <<queue, played, discarded>>
  BY DEF Send, SendFails, Advance, receiverVars, histories, IInv, SenderInv
<1>2. CurrentFrame \in Frames
  BY <1>1, AudioStreamAssumption DEF CurrentFrame, Frames
<1>3. EncodedFrames' = EncodedFrames \cup {CurrentFrame}
  <2>1. \A f \in Frames : f.epoch = 0 /\ f.pos \in 0 .. StreamLength - 1 /\ f = [epoch |-> 0, pos |-> f.pos]
    BY DEF Frames
  <2>2. \A f \in Frames : Earlier(f, CurrentFrame) <=> f.pos < pos
    BY <1>1, <2>1 DEF Earlier, CurrentFrame
  <2>3. \A f \in Frames : Earlier(f, CurrentFrame)' <=> f.pos < pos + 1
    BY <1>1, <2>1 DEF Earlier, CurrentFrame
  <2>4. \A f \in Frames : f.pos < pos + 1 <=> (f.pos < pos \/ f = CurrentFrame)
    BY <1>1, <2>1 DEF CurrentFrame
  <2> QED
    BY <1>2, <2>2, <2>3, <2>4 DEF EncodedFrames
<1>4. \/ InFlightFrames' = InFlightFrames \cup {CurrentFrame} /\ UNCHANGED lostFrames
      \/ UNCHANGED InFlightFrames /\ lostFrames' = lostFrames \cup {CurrentFrame}
  <2>1. CurrentPacket.payload = CurrentFrame
    BY DEF CurrentPacket
  <2>2. ASSUME net' = net \cup {CurrentPacket}
        PROVE  InFlightFrames' = InFlightFrames \cup {CurrentFrame}
    BY <2>1, <2>2 DEF InFlightFrames
  <2>3. net' = net => UNCHANGED InFlightFrames
    BY DEF InFlightFrames
  <2> QED
    BY <2>2, <2>3 DEF Send, SendFails
<1>5. UNCHANGED <<BufferedFrames, PlayedFrames>>
  BY <1>1 DEF BufferedFrames, PlayedFrames
<1> QED
  BY <1>1, <1>3, <1>4, <1>5 DEF Accounted

LEMMA NetworkAccounted ==
  ASSUME OneStream, IInv, Accounted, NEW p \in net, Lose(p) \/ Deliver(p) \/ Duplicate(p)
  PROVE  Accounted'
<1> USE Facts
<1>1. UNCHANGED <<EncodedFrames, PlayedFrames>>
  BY DEF Lose, Deliver, Duplicate, Receive, senderVars, histories, EncodedFrames, CurrentFrame, Earlier, PlayedFrames
<1>2. InFlightFrames = InFlightFrames' \cup {p.payload} \/ UNCHANGED InFlightFrames
  BY DEF Lose, Deliver, Duplicate, InFlightFrames
<1>3. CASE Lose(p)
  <2>1. lostFrames' = lostFrames \cup {p.payload} /\ UNCHANGED <<BufferedFrames, discarded>>
    BY <1>3 DEF Lose, receiverVars, histories, BufferedFrames
  <2> QED
    BY <1>1, <1>2, <2>1 DEF Accounted, InFlightFrames
<1>4. CASE Receive(p) /\ JB!PushLate(p)
  <2>1. UNCHANGED <<BufferedFrames, lostFrames>>
    BY <1>4 DEF JB!PushLate, Receive, BufferedFrames
  <2>2. discarded' = discarded \cup {p.payload}
    BY <1>4 DEF Receive, JB!PushLate, JB!PushStored
  <2> QED
    BY <1>1, <1>2, <2>1, <2>2 DEF Accounted, InFlightFrames
<1>5. CASE Receive(p) /\ JB!PushStored(p)
  <2>1. UNCHANGED <<discarded, lostFrames>>
    BY <1>5 DEF Receive, JB!PushLate, JB!PushStored
  <2>2. BufferedFrames' = BufferedFrames \cup {p.payload}
    BY <1>5, StoredFrames
  <2> QED
    BY <1>1, <1>2, <2>1, <2>2 DEF Accounted, InFlightFrames
<1> QED
  BY <1>3, <1>4, <1>5 DEF Deliver, Duplicate, Receive

LEMMA PopAccounted ==
  ASSUME OneStream, IInv, Accounted, PopAndForward
  PROVE  Accounted'
<1> USE Facts
<1>1. UNCHANGED <<EncodedFrames, InFlightFrames, lostFrames, discarded>>
  BY DEF PopAndForward, senderVars, netVars, EncodedFrames, CurrentFrame, Earlier, InFlightFrames
<1>2. CASE popped' = None /\ UNCHANGED <<queue, expected>>
  <2>1. UNCHANGED <<BufferedFrames, PlayedFrames>>
    BY <1>2 DEF PopAndForward, BufferedFrames, PlayedFrames
  <2> QED
    BY <1>1, <2>1 DEF Accounted
<1>3. ASSUME NEW k \in DOMAIN queue,
             popped' = queue[k], popped' # None,
             DOMAIN queue' = DOMAIN queue \ {k},
             \A s \in DOMAIN queue' : queue'[s] = queue[s]
      PROVE  Accounted'
  <2>1. played' = Append(played, queue[k].payload)
    BY <1>3 DEF PopAndForward
  <2>2. played \in Seq(Frames) /\ queue[k].payload \in Frames
    BY PoppedIsNew DEF IInv, ReceiverInv
  <2>3. PlayedFrames' = PlayedFrames \cup {queue[k].payload}
    BY <2>1, <2>2 DEF PlayedFrames
  <2>4. BufferedFrames = BufferedFrames' \cup {queue[k].payload}
    BY <1>3 DEF BufferedFrames
  <2> QED
    BY <1>1, <2>3, <2>4 DEF Accounted
<1> QED
  BY <1>2, <1>3, PopCases DEF PopAndForward

LEMMA AccountedInvariance == ASSUME OneStream PROVE Spec => [](IInv /\ Accounted)
<1>1. Init => Accounted
  <2> SUFFICES ASSUME Init PROVE Accounted
    OBVIOUS
  <2>1. EncodedFrames = {}
    BY Facts DEF Init, EncodedFrames, CurrentFrame, Earlier
  <2> QED
    BY <2>1 DEF Init, Accounted, InFlightFrames, BufferedFrames, PlayedFrames, JB!Init, JB!EmptyQueue
<1>2. IInv /\ Accounted /\ [Next]_vars => Accounted'
  <2> SUFFICES ASSUME IInv, Accounted, [Next]_vars PROVE Accounted'
    OBVIOUS
  <2>1. ~RestartSender
    BY DEF RestartSender, IInv, SenderInv, OneStream
  <2>2. CASE UNCHANGED vars
    BY <2>2 DEF vars, senderVars, netVars, receiverVars, histories, Accounted, EncodedFrames, CurrentFrame,
       Earlier, InFlightFrames, BufferedFrames, PlayedFrames
  <2> QED
    BY <2>1, <2>2, AdvanceAccounted, NetworkAccounted, PopAccounted DEF Next, SenderNext, NetworkNext
<1> QED
  BY <1>1, <1>2, Invariance, PTL DEF Spec

(* Every frame encoded is in flight, lost, buffered, played or was late:    *)
(* the map of the receiver neither drops a frame silently nor keeps one it  *)
(* has played.                                                              *)
THEOREM NoFrameVanishes == ASSUME OneStream PROVE Spec => []EveryFrameAccountedFor
<1>1. IInv /\ Accounted => EveryFrameAccountedFor
  BY BufferedNotPlayed DEF Accounted, EveryFrameAccountedFor
<1> QED
  BY <1>1, AccountedInvariance, PTL

-----------------------------------------------------------------------------
(* A sequence of numbers has its running sums ...                           *)
IsSum(f, w, n) == f = [i \in 0 .. n |-> IF i = 0 THEN 0 ELSE f[i - 1] + w[i]]

LEMMA SumExists ==
  ASSUME NEW w
  PROVE  \A n \in Nat : \E f : IsSum(f, w, n)
<1> DEFINE S == {n \in Nat : \E f : IsSum(f, w, n)}
<1>1. 0 \in S
  <2>1. IsSum([i \in 0 .. 0 |-> 0], w, 0)
    BY DEF IsSum
  <2> QED
    BY <2>1
<1>2. ASSUME NEW n \in Nat, n \in S
      PROVE  n + 1 \in S
  <2>1. PICK f : IsSum(f, w, n)
    BY <1>2
  <2> DEFINE g == [i \in 0 .. n + 1 |-> IF i <= n THEN f[i] ELSE f[n] + w[n + 1]]
  <2>2. ASSUME NEW i \in 0 .. n + 1
        PROVE  g[i] = IF i = 0 THEN 0 ELSE g[i - 1] + w[i]
    <3>1. CASE i <= n
      <4>1. f[i] = IF i = 0 THEN 0 ELSE f[i - 1] + w[i]
        BY <2>1, <3>1 DEF IsSum
      <4> QED
        BY <4>1, <3>1
    <3>2. CASE i = n + 1
      BY <3>2
    <3> QED
      BY <3>1, <3>2
  <2>3. IsSum(g, w, n + 1)
    BY <2>2 DEF IsSum
  <2> QED
    BY <2>3
<1> HIDE DEF S
<1>3. Nat \subseteq S
  BY <1>1, <1>2, Induction
<1> QED
  BY <1>3 DEF S

(* ... which depend on nothing but the numbers so far.                      *)
LEMMA SumsAgree ==
  ASSUME NEW m \in Nat, NEW n \in Nat, NEW v, NEW w, NEW f, NEW g,
         m <= n, IsSum(f, v, m), IsSum(g, w, n), \A i \in 1 .. m : v[i] = w[i]
  PROVE  \A i \in 0 .. m : f[i] = g[i]
<1> DEFINE S == {i \in Nat : i <= m => f[i] = g[i]}
<1>1. 0 \in S
  BY DEF IsSum
<1>2. ASSUME NEW i \in Nat, i \in S
      PROVE  i + 1 \in S
  <2>1. CASE i + 1 <= m
    <3>1. f[i + 1] = f[i] + v[i + 1]
      BY <2>1 DEF IsSum
    <3>2. g[i + 1] = g[i] + w[i + 1]
      BY <2>1 DEF IsSum
    <3>3. f[i] = g[i] /\ v[i + 1] = w[i + 1]
      BY <1>2, <2>1
    <3> QED
      BY <3>1, <3>2, <3>3
  <2> QED
    BY <2>1
<1> HIDE DEF S
<1>3. Nat \subseteq S
  BY <1>1, <1>2, Induction
<1> QED
  BY <1>3 DEF S

-----------------------------------------------------------------------------
(* What each frame of s adds to the loss.                                   *)
Additions(s) == [i \in 1 .. Len(s) |-> Counted(s, i)]

LEMMA LossIsSum ==
  ASSUME NEW s \in Seq(Frames)
  PROVE  \E f : IsSum(f, Additions(s), Len(s)) /\ Loss(s) = f[Len(s)]
<1> DEFINE F(f) == [i \in 0 .. Len(s) |-> IF i = 0 THEN 0 ELSE f[i - 1] + Counted(s, i)]
           upTo == CHOOSE f : f = F(f)
<1>1. Len(s) \in Nat
  OBVIOUS
<1>2. \A f : f = F(f) <=> IsSum(f, Additions(s), Len(s))
  <2>1. ASSUME NEW f
        PROVE  F(f) = [i \in 0 .. Len(s) |-> IF i = 0 THEN 0 ELSE f[i - 1] + Additions(s)[i]]
    <3>1. \A i \in 0 .. Len(s) : i # 0 => Additions(s)[i] = Counted(s, i)
      BY <1>1 DEF Additions
    <3> QED
      BY <3>1
  <2> HIDE DEF F
  <2> QED
    BY <2>1 DEF IsSum
<1>3. \E f : f = F(f)
  BY <1>1, <1>2, SumExists
<1>4. Loss(s) = upTo[Len(s)]
  BY DEF Loss
<1>5. upTo = F(upTo)
  <2> HIDE DEF F
  <2> QED
    BY <1>3
<1> QED
  BY <1>2, <1>4, <1>5

LEMMA LossOfNothing == Loss(<< >>) = 0
<1>1. PICK f : IsSum(f, Additions(<< >>), 0) /\ Loss(<< >>) = f[0]
  <2>1. << >> \in Seq(Frames) /\ Len(<< >>) = 0
    OBVIOUS
  <2> QED
    BY <2>1, LossIsSum
<1> QED
  BY <1>1 DEF IsSum

LEMMA LossOfAppend ==
  ASSUME NEW s \in Seq(Frames), NEW e \in Frames
  PROVE  Loss(Append(s, e)) = Loss(s) + Counted(Append(s, e), Len(s) + 1)
<1> DEFINE t == Append(s, e)
           n == Len(s)
<1>1. /\ t \in Seq(Frames) /\ Len(t) = n + 1 /\ n \in Nat
      /\ \A i \in 1 .. n : t[i] = s[i]
  OBVIOUS
<1>2. PICK f : IsSum(f, Additions(s), n) /\ Loss(s) = f[n]
  BY LossIsSum
<1>3. PICK g : IsSum(g, Additions(t), n + 1) /\ Loss(t) = g[n + 1]
  BY <1>1, LossIsSum
<1>4. \A i \in 1 .. n : Additions(s)[i] = Additions(t)[i]
  BY <1>1 DEF Additions, Counted, Skipped
<1>5. f[n] = g[n]
  BY <1>1, <1>2, <1>3, <1>4, SumsAgree
<1>6. g[n + 1] = g[n] + Additions(t)[n + 1]
  BY <1>1, <1>3 DEF IsSum
<1>7. Additions(t)[n + 1] = Counted(t, n + 1)
  BY <1>1 DEF Additions
<1> QED
  BY <1>2, <1>3, <1>5, <1>6, <1>7

-----------------------------------------------------------------------------
(* No counter wraps around within the stream.                               *)
CountersFit == StreamLength < CounterMod

(* Where playout stands: right after the frame played last or, before the   *)
(* first, at a frame that is still buffered.  What is counted lost lies     *)
(* before it, so the counter cannot wrap.                                   *)
LossInv ==
  /\ IF played = << >>
       THEN expected # None => expected \in DOMAIN queue
       ELSE expected = played[Len(played)].pos + 1
  /\ lost \in Nat
  /\ expected = None => lost = 0
  /\ expected # None => lost <= expected
  /\ LossIsExact

LEMMA InitLoss == ASSUME Init PROVE LossInv
BY LossOfNothing DEF Init, LossInv, LossIsExact, JB!Init

(* A push may choose where playout starts; it counts nothing.               *)
LEMMA NetworkLoss ==
  ASSUME OneStream, IInv, LossInv, NEW p \in net, Lose(p) \/ Deliver(p) \/ Duplicate(p)
  PROVE  LossInv'
<1>1. CASE Lose(p) \/ (Receive(p) /\ JB!PushLate(p))
  <2>1. UNCHANGED <<queue, expected, lost, played>>
    BY <1>1 DEF Lose, Receive, JB!PushLate, receiverVars, histories
  <2> QED
    BY <2>1 DEF LossInv, LossIsExact
<1>2. CASE Receive(p) /\ JB!PushStored(p)
  <2>1. /\ UNCHANGED <<lost, played>>
        /\ DOMAIN queue' = DOMAIN queue \cup {p.seq}
        /\ expected' = IF expected = None THEN p.seq ELSE expected
    BY <1>2 DEF Receive, JB!PushStored, JB!Insert
  <2>2. p.seq \in Nat /\ p.seq # None
    BY Facts DEF IInv, SenderInv, Packets, Frames
  <2>3. CASE expected = None
    <3>1. played = << >>
      BY <2>3, Facts DEF IInv, ReceiverInv
    <3> QED
      BY <2>1, <2>2, <2>3, <3>1 DEF LossInv, LossIsExact
  <2>4. CASE expected # None
    BY <2>1, <2>4 DEF LossInv, LossIsExact
  <2> QED
    BY <2>3, <2>4
<1> QED
  BY <1>1, <1>2 DEF Deliver, Duplicate, Receive

(* What each branch of pop does to packets_lost.                            *)
LEMMA PopLoss ==
  ASSUME OneStream, CountersFit, IInv, LossInv, JB!Pop
  PROVE  \/ popped' = None /\ UNCHANGED <<queue, expected, lost>>
         \/ \E k \in DOMAIN queue :
              /\ popped' = queue[k] /\ popped' # None
              /\ expected' = k + 1
              /\ expected \in DOMAIN queue => k = expected
              /\ lost' = IF k - expected < GapWindow THEN JB!Count(lost, k - expected) ELSE lost
<1> USE Facts
<1>1. CASE JB!PopPaused \/ JB!PopUnderrun
  BY <1>1 DEF JB!PopPaused, JB!PopUnderrun
<1>2. ASSUME NEW k \in DOMAIN queue, JB!Release(k)
      PROVE  /\ popped' = queue[k] /\ popped' # None
             /\ expected' = k + 1
             /\ expected # None => /\ k \in Nat /\ expected \in Nat /\ expected <= k
                                  /\ JB!WrappingSub(k, expected) = k - expected
  <2>1. k \in Nat /\ k < StreamLength /\ queue[k] \in Packets
    BY DEF IInv, SenderInv, ReceiverInv
  <2>2. JB!WrappingSucc(k) = k + 1
    BY <2>1 DEF JB!WrappingSucc
  <2>3. expected # None => expected \in Nat /\ expected <= k
    BY DEF IInv, ReceiverInv, SenderInv
  <2> QED
    BY <1>2, <2>1, <2>2, <2>3 DEF JB!Release, JB!WrappingSub
<1>3. CASE JB!PopExpected
  <2>1. expected - expected = 0 /\ GapWindow > 0 /\ expected \in DOMAIN queue
    BY <1>3, AudioStreamAssumption DEF IInv, ReceiverInv, JB!PopExpected
  <2>2. JB!Count(lost, 0) = lost
    <3>1. lost \in 0 .. CounterMod - 1
      BY <1>3, AudioStreamAssumption DEF JB!PopExpected, IInv, SenderInv, ReceiverInv, LossInv, CountersFit
    <3> QED
      BY <3>1, AudioStreamAssumption DEF JB!Count
  <2> QED
    BY <1>2, <1>3, <2>1, <2>2 DEF JB!PopExpected
<1>4. CASE JB!PopGap \/ JB!PopResync
  <2>1. JB!Earliest \in DOMAIN queue
    BY <1>4, LeastKey DEF JB!PopGap, JB!PopResync, JB!Skipping, JB!Earliest, IInv, ReceiverInv
  <2>2. JB!Release(JB!Earliest) /\ expected # None /\ expected \notin DOMAIN queue
    BY <1>4 DEF JB!PopGap, JB!PopResync, JB!Skipping
  <2>3. JB!Gap = JB!Earliest - expected /\ JB!Gap \in Nat
    BY <1>2, <2>1, <2>2 DEF JB!Gap
  <2>4. lost' = IF JB!Gap < GapWindow THEN JB!Count(lost, JB!Gap) ELSE lost
    BY <1>4, <2>3, AudioStreamAssumption DEF JB!PopGap, JB!PopResync
  <2> QED
    BY <1>2, <2>1, <2>2, <2>3, <2>4
<1> QED
  BY <1>1, <1>3, <1>4 DEF JB!Pop

LEMMA PopLossInv ==
  ASSUME OneStream, CountersFit, IInv, LossInv, PopAndForward
  PROVE  LossInv'
<1> USE Facts
<1>1. CASE popped' = None /\ UNCHANGED <<queue, expected, lost>>
  BY <1>1 DEF PopAndForward, LossInv, LossIsExact
<1>2. ASSUME NEW k \in DOMAIN queue,
             popped' = queue[k], popped' # None, expected' = k + 1,
             expected \in DOMAIN queue => k = expected,
             lost' = IF k - expected < GapWindow THEN JB!Count(lost, k - expected) ELSE lost
      PROVE  LossInv'
  <2> DEFINE e == queue[k].payload
             n == Len(played)
  <2>1. played' = Append(played, e)
    BY <1>2 DEF PopAndForward
  <2>2. /\ e \in Frames /\ e.pos = k /\ k \in Nat /\ k < CounterMod
        /\ played \in Seq(Frames) /\ n \in Nat
    <3>1. e \in Frames /\ e.pos = k /\ k \in Nat /\ k < pos
      BY PoppedIsNew
    <3>2. pos \in Nat /\ pos <= StreamLength /\ StreamLength < CounterMod /\ CounterMod \in Nat
      BY AudioStreamAssumption DEF IInv, SenderInv, CountersFit
    <3>3. played \in Seq(Frames)
      BY DEF IInv, ReceiverInv
    <3> QED
      BY <3>1, <3>2, <3>3
  <2>3. expected # None /\ expected \in Nat /\ expected <= k /\ lost \in Nat /\ lost <= expected
    BY DEF IInv, SenderInv, ReceiverInv, LossInv
  <2> HIDE DEF e
  <2>4. /\ played' # << >> /\ Len(played') = n + 1 /\ played'[n + 1] = e
        /\ n > 0 => played'[n] = played[n]
        /\ played = << >> <=> n = 0
    BY <2>1, <2>2
  <2>5. lost' = lost + IF k - expected < GapWindow THEN k - expected ELSE 0
    <3>1. lost + (k - expected) \in 0 .. CounterMod - 1
      BY <2>2, <2>3, AudioStreamAssumption
    <3>2. JB!Count(lost, k - expected) = lost + (k - expected)
      BY <3>1, AudioStreamAssumption DEF JB!Count
    <3> QED
      BY <1>2, <2>3, <3>2
  <2>6. lost' = lost + Counted(played', n + 1)
    <3>1. CASE n = 0
      <4>1. k - expected = 0
        BY <1>2, <2>2, <2>3, <2>4, <3>1 DEF LossInv
      <4> QED
        BY <2>3, <2>5, <3>1, <4>1 DEF Counted
    <3>2. CASE n > 0
      <4>1. expected = played[n].pos + 1 /\ played[n].pos \in Nat
        BY <2>2, <2>4, <3>2, PlayedType DEF LossInv
      <4>2. Skipped(played', n + 1) = k - expected
        BY <2>2, <2>4, <3>2, <4>1 DEF Skipped
      <4> QED
        BY <2>2, <2>3, <2>5, <3>2, <4>2, AudioStreamAssumption DEF Counted
    <3> QED
      BY <2>2, <3>1, <3>2
  <2>7. LossIsExact'
    BY <2>1, <2>2, <2>6, LossOfAppend DEF LossInv, LossIsExact
  <2>8. lost' \in Nat /\ lost' <= k + 1 /\ k + 1 # None
    BY <2>2, <2>3, <2>5
  <2>9. expected' = played'[Len(played')].pos + 1
    BY <1>2, <2>2, <2>4
  <2> QED
    BY <1>2, <2>4, <2>7, <2>8, <2>9 DEF LossInv
<1> QED
  BY <1>1, <1>2, PopLoss DEF PopAndForward

LEMMA LossInvariance == ASSUME OneStream, CountersFit PROVE Spec => [](IInv /\ LossInv)
<1>1. Init => LossInv
  BY InitLoss
<1>2. IInv /\ LossInv /\ [Next]_vars => LossInv'
  <2> SUFFICES ASSUME IInv, LossInv, [Next]_vars PROVE LossInv'
    OBVIOUS
  <2>1. CASE SenderNext \/ UNCHANGED vars
    <3>1. UNCHANGED <<queue, expected, lost, played>>
      BY <2>1 DEF SenderNext, Send, SendFails, Advance, RestartSender, vars, receiverVars, histories
    <3> QED
      BY <3>1 DEF LossInv, LossIsExact
  <2> QED
    BY <2>1, NetworkLoss, PopLossInv DEF Next, NetworkNext
<1> QED
  BY <1>1, <1>2, Invariance, PTL DEF Spec

(* packets_lost is exactly what playout skipped.                            *)
THEOREM LossExact == ASSUME OneStream, CountersFit PROVE Spec => []LossIsExact
<1>1. LossInv => LossIsExact
  BY DEF LossInv
<1> QED
  BY <1>1, LossInvariance, PTL

-----------------------------------------------------------------------------
(* Playout starts when a push has brought the buffer up to the target.      *)
LEMMA StartsPrimed ==
  ASSUME Codec = "Pcm", StreamInv, NEW p \in net, JB!PushStored(p), ~isPlaying, isPlaying'
  PROVE  JB!Depth(queue') * FrameMs >= JB!Target
<1>1. p.codec = "Pcm" /\ p.ms = FrameMs /\ FrameMs > 0
  BY AudioStreamAssumption DEF StreamInv, StreamTypes, Packets
<1>2. frameMs' = FrameMs
  BY <1>1 DEF JB!PushStored
<1>3. isPlaying' = (isPlaying \/ JB!Depth(queue') * frameMs' >= JB!Target)
  BY DEF JB!PushStored
<1> QED
  BY <1>2, <1>3, Zenon

(* The frames that have reached the receiver, and the datagrams in flight   *)
(* that bring one of them once more.                                        *)
Familiar == BufferedFrames \cup PlayedFrames \cup discarded
Repeats  == {p \in net : p.payload \in Familiar}

(* Every arrival adds to this, whatever it brings: a frame buffered, a frame*)
(* discarded, or one repeat fewer to come.                                  *)
Reserve == JB!Depth(queue) + dups + Cardinality(discarded) - Cardinality(Repeats)

(* While playing, the reserve holds the target delay between a push and its *)
(* pop, and lacks at most the one frame just handed on before a push.       *)
HeldInv ==
  /\ IsFiniteSet(net) /\ IsFiniteSet(discarded)
  /\ Cardinality(Repeats) <= dups
  /\ isPlaying => LET owed == IF phase = "recv" THEN 1 ELSE 0
                  IN  (Reserve + owed) * FrameMs >= JB!Target

LEMMA HeldTypes ==
  ASSUME OneStream, StreamInv, IInv, HeldInv
  PROVE  /\ IsFiniteSet(DOMAIN queue) /\ IsFiniteSet(Repeats)
         /\ JB!Depth(queue) \in Nat /\ Cardinality(discarded) \in Nat
         /\ Cardinality(Repeats) \in Nat /\ dups \in Nat
         /\ Reserve \in Int /\ FrameMs \in Nat /\ FrameMs > 0 /\ JB!Target \in Nat
<1>1. IsFiniteSet(DOMAIN queue) /\ JB!Depth(queue) \in Nat
  <2>1. Buffer!IsFiniteSet(DOMAIN queue) /\ Buffer!Depth(queue) \in Nat
    BY PacketsAdmitted, Buffer!QueueFacts DEF StreamInv, Buffer!IInv
  <2>2. IsFiniteSet(DOMAIN queue)
    BY <2>1 DEF Buffer!IsFiniteSet, IsFiniteSet
  <2> QED
    BY <2>1, <2>2, SameOperators
<1>2. IsFiniteSet(Repeats)
  BY FS_Subset DEF HeldInv, Repeats
<1>3. Cardinality(Repeats) \in Nat /\ Cardinality(discarded) \in Nat
  BY <1>2, FS_CardinalityType DEF HeldInv
<1>4. dups \in Nat
  BY AudioStreamAssumption DEF StreamInv, StreamTypes
<1>5. JB!Target \in Nat
  BY PacketsAdmitted, Buffer!TargetPositive, SameOperators
<1>6. FrameMs \in Nat /\ FrameMs > 0
  BY AudioStreamAssumption
<1> QED
  BY <1>1, <1>2, <1>3, <1>4, <1>5, <1>6 DEF Reserve

(* A datagram brings the frame that its number says.                        *)
LEMMA PacketOfFrame ==
  ASSUME OneStream, IInv, NEW p \in net, NEW q \in Packets,
         q.payload = p.payload, q.seq = q.payload.pos
  PROVE  q = p
<1>1. p \in Packets /\ p.seq = p.payload.pos
  BY DEF IInv, SenderInv
<1>2. \A a, b \in Packets : a.seq = b.seq /\ a.payload = b.payload => a = b
  BY DEF Packets
<1> QED
  BY <1>1, <1>2

(* What the receipt of p does to each part of the reserve.                  *)
LEMMA ReceiptParts ==
  ASSUME OneStream, StreamInv, IInv, HeldInv, NEW p \in net, Receive(p)
  PROVE  /\ Familiar' = Familiar \cup {p.payload}
         /\ IsFiniteSet(discarded')
         /\ JB!Depth(queue') \in Nat /\ Cardinality(discarded') \in Nat
         /\ JB!Depth(queue') >= JB!Depth(queue)
         /\ Cardinality(discarded') >= Cardinality(discarded)
         /\ p \notin Repeats => JB!Depth(queue') + Cardinality(discarded')
                                  = JB!Depth(queue) + Cardinality(discarded) + 1
<1> USE Facts, HeldTypes
<1>1. UNCHANGED PlayedFrames
  BY DEF Receive, PlayedFrames
<1>2. p \notin Repeats => p.payload \notin Familiar
  BY DEF Repeats
<1>3. CASE JB!PushLate(p)
  <2>1. UNCHANGED <<queue, BufferedFrames>> /\ discarded' = discarded \cup {p.payload}
    BY <1>3 DEF JB!PushLate, JB!PushStored, Receive, BufferedFrames
  <2>2. /\ IsFiniteSet(discarded')
        /\ Cardinality(discarded') = IF p.payload \in discarded THEN Cardinality(discarded)
                                     ELSE Cardinality(discarded) + 1
    BY <2>1, FS_AddElement DEF HeldInv
  <2> QED
    BY <1>1, <1>2, <2>1, <2>2 DEF Familiar
<1>4. CASE JB!PushStored(p)
  <2>1. UNCHANGED discarded
    BY <1>4 DEF JB!PushLate, JB!PushStored, Receive
  <2>2. BufferedFrames' = BufferedFrames \cup {p.payload}
    BY <1>4, StoredFrames
  <2>3. DOMAIN queue' = DOMAIN queue \cup {p.seq}
    BY <1>4 DEF JB!PushStored, JB!Insert
  <2>4. JB!Depth(queue') = IF p.seq \in DOMAIN queue THEN JB!Depth(queue) ELSE JB!Depth(queue) + 1
    <3>1. \A S : JB!Cardinality(S) = Cardinality(S)
      BY DEF JB!Cardinality, Cardinality
    <3> QED
      BY <2>3, <3>1, FS_AddElement DEF JB!Depth
  <2>5. p.seq \in DOMAIN queue => p.payload \in BufferedFrames
    BY SameNumberSameFrame DEF BufferedFrames
  <2>6. Familiar' = Familiar \cup {p.payload}
    BY <1>1, <2>1, <2>2 DEF Familiar
  <2> QED
    BY <1>2, <2>1, <2>4, <2>5, <2>6 DEF HeldInv, Familiar
<1> QED
  BY <1>3, <1>4 DEF Receive

LEMMA ReceiptHeld ==
  ASSUME OneStream, StreamInv, IInv, HeldInv, NEW p \in net, Deliver(p) \/ Duplicate(p)
  PROVE  /\ IsFiniteSet(net')
         /\ Cardinality(Repeats') <= dups'
         /\ Reserve' \in Int
         /\ Reserve' >= Reserve + 1
         /\ JB!Depth(queue') + dups' - Cardinality(Repeats') \in Int
         /\ Reserve' >= JB!Depth(queue')
<1> USE HeldTypes
<1>1. Receive(p) /\ Familiar' = Familiar \cup {p.payload}
  BY ReceiptParts DEF Deliver, Duplicate
<1>2. \A q \in net : q.payload = p.payload => q = p
  BY PacketOfFrame DEF IInv, SenderInv
<1>3. CASE Deliver(p)
  <2>1. net' = net \ {p} /\ dups' = dups
    BY <1>3 DEF Deliver
  <2>2. Repeats' = Repeats \ {p}
    BY <1>1, <1>2, <2>1 DEF Repeats
  <2>3. IsFiniteSet(net')
    BY <2>1, FS_Subset DEF HeldInv
  <2>4. Cardinality(Repeats') = IF p \in Repeats THEN Cardinality(Repeats) - 1 ELSE Cardinality(Repeats)
    BY <2>2, FS_RemoveElement
  <2> QED
    BY <1>1, <2>1, <2>3, <2>4, ReceiptParts DEF HeldInv, Reserve
<1>4. CASE Duplicate(p)
  <2>1. net' = net /\ dups' = dups + 1
    BY <1>4 DEF Duplicate
  <2>2. Repeats' = Repeats \cup {p}
    BY <1>1, <1>2, <2>1 DEF Repeats
  <2>3. IsFiniteSet(net')
    BY <2>1 DEF HeldInv
  <2>4. Cardinality(Repeats') = IF p \in Repeats THEN Cardinality(Repeats) ELSE Cardinality(Repeats) + 1
    BY <2>2, FS_AddElement
  <2> QED
    BY <1>1, <2>1, <2>3, <2>4, ReceiptParts DEF HeldInv, Reserve
<1> QED
  BY <1>3, <1>4

LEMMA NetworkHeld ==
  ASSUME OneStream, Codec = "Pcm", StreamInv, IInv, HeldInv, NEW p \in net,
         Lose(p) \/ Deliver(p) \/ Duplicate(p)
  PROVE  HeldInv'
<1> USE HeldTypes
<1>1. CASE Lose(p)
  <2>1. /\ UNCHANGED <<queue, isPlaying, phase, dups, discarded, Familiar>>
        /\ net' = net \ {p}
    BY <1>1 DEF Lose, receiverVars, histories, Familiar, BufferedFrames, PlayedFrames
  <2>2. Repeats' \subseteq Repeats
    BY <2>1 DEF Repeats
  <2>3. IsFiniteSet(net') /\ Cardinality(Repeats') \in Nat /\ Cardinality(Repeats') <= Cardinality(Repeats)
    BY <2>1, <2>2, FS_Subset, FS_CardinalityType DEF HeldInv
  <2>4. Reserve' \in Int /\ Reserve' >= Reserve
    BY <2>1, <2>3 DEF Reserve
  <2>5. \A a, b, m \in Int : a <= b /\ m > 0 => a * m <= b * m
    OBVIOUS
  <2>6. Reserve' * FrameMs >= Reserve * FrameMs /\ (Reserve' + 1) * FrameMs >= (Reserve + 1) * FrameMs
    BY <2>4, <2>5
  <2> QED
    BY <2>1, <2>3, <2>4, <2>6 DEF HeldInv
<1>2. CASE Deliver(p) \/ Duplicate(p)
  <2>1. /\ IsFiniteSet(net') /\ IsFiniteSet(discarded')
        /\ Cardinality(Repeats') <= dups'
        /\ Reserve' \in Int /\ Reserve' >= Reserve + 1 /\ Reserve' >= JB!Depth(queue')
        /\ JB!Depth(queue') \in Nat
    BY <1>2, ReceiptHeld, ReceiptParts DEF Deliver, Duplicate
  <2>2. \A a, b, m \in Int : a <= b /\ m > 0 => a * m <= b * m
    OBVIOUS
  <2>3. phase = "recv" /\ phase' # "recv"
    BY <1>2 DEF Deliver, Duplicate, Receive, JB!PushLate, JB!PushStored
  <2>4. ASSUME isPlaying' PROVE Reserve' * FrameMs >= JB!Target
    <3>1. CASE isPlaying
      <4>1. (Reserve + 1) * FrameMs >= JB!Target
        BY <2>3, <3>1 DEF HeldInv
      <4>2. (Reserve + 1) * FrameMs <= Reserve' * FrameMs
        BY <2>1, <2>2
      <4> QED
        BY <2>1, <4>1, <4>2
    <3>2. CASE ~isPlaying
      <4>1. JB!PushStored(p)
        BY <1>2, <2>4, <3>2 DEF Deliver, Duplicate, Receive, JB!PushLate
      <4>2. JB!Depth(queue') * FrameMs >= JB!Target
        BY <4>1, <2>4, <3>2, StartsPrimed
      <4>3. JB!Depth(queue') * FrameMs <= Reserve' * FrameMs
        BY <2>1, <2>2
      <4> QED
        BY <2>1, <4>2, <4>3
    <3> QED
      BY <3>1, <3>2
  <2> QED
    BY <2>1, <2>3, <2>4 DEF HeldInv
<1> QED
  BY <1>1, <1>2

LEMMA AdvanceHeld ==
  ASSUME OneStream, StreamInv, IInv, Accounted, HeldInv, Send \/ SendFails
  PROVE  HeldInv'
<1> USE HeldTypes
<1>1. /\ UNCHANGED <<queue, isPlaying, phase, dups, discarded, Familiar>>
      /\ net' \subseteq net \cup {CurrentPacket}
  BY DEF Send, SendFails, Advance, receiverVars, histories, Familiar, BufferedFrames, PlayedFrames
<1>2. CurrentFrame \notin Familiar
  <2>1. \A f \in Familiar : Earlier(f, CurrentFrame)
    BY DEF Accounted, Familiar, EncodedFrames
  <2>2. ~Earlier(CurrentFrame, CurrentFrame)
    BY Facts DEF Earlier, CurrentFrame, IInv, SenderInv
  <2> QED
    BY <2>1, <2>2
<1>3. Repeats' = Repeats
  <2>1. CurrentPacket.payload = CurrentFrame
    BY DEF CurrentPacket
  <2>2. net \subseteq net'
    BY DEF Send, SendFails
  <2> QED
    BY <1>1, <1>2, <2>1, <2>2 DEF Repeats
<1>4. IsFiniteSet(net')
  BY FS_AddElement DEF HeldInv, Send, SendFails
<1> QED
  BY <1>1, <1>3, <1>4 DEF HeldInv, Reserve

(* Only a buffer that pauses, or has not started, gives nothing out.        *)
LEMMA NothingPopped ==
  ASSUME OneStream, StreamInv, IInv, JB!Pop, popped' = None
  PROVE  ~isPlaying'
<1>1. isPlaying => expected # None
  BY DEF StreamInv, Buffer!IInv, Buffer!Anchored
<1>2. ASSUME NEW k \in DOMAIN queue, JB!Release(k)
      PROVE  FALSE
  BY <1>2, Facts DEF JB!Release, IInv, ReceiverInv
<1>3. DOMAIN queue # {} => JB!Earliest \in DOMAIN queue
  BY LeastKey DEF JB!Earliest, IInv, ReceiverInv
<1> QED
  BY <1>1, <1>2, <1>3 DEF JB!Pop, JB!PopPaused, JB!PopUnderrun, JB!PopExpected, JB!PopGap, JB!PopResync,
     JB!Skipping

LEMMA PopHeld ==
  ASSUME OneStream, StreamInv, IInv, HeldInv, PopAndForward
  PROVE  HeldInv'
<1> USE HeldTypes
<1>1. /\ UNCHANGED <<net, dups, discarded>>
      /\ JB!Pop /\ phase # "recv" /\ phase' = "recv"
  BY DEF PopAndForward, netVars, JB!Pop, JB!PopPaused, JB!PopExpected, JB!PopUnderrun, JB!PopGap,
     JB!PopResync, JB!Skipping, JB!Popping
<1>2. CASE popped' = None /\ UNCHANGED <<queue, expected>>
  <2>1. ~isPlaying'
    BY <1>1, <1>2, NothingPopped
  <2>2. UNCHANGED Repeats
    BY <1>1, <1>2 DEF PopAndForward, Repeats, Familiar, BufferedFrames, PlayedFrames
  <2> QED
    BY <1>1, <2>1, <2>2 DEF HeldInv
<1>3. ASSUME NEW k \in DOMAIN queue,
             popped' = queue[k], popped' # None,
             DOMAIN queue' = DOMAIN queue \ {k},
             \A s \in DOMAIN queue' : queue'[s] = queue[s]
      PROVE  HeldInv'
  <2>1. UNCHANGED isPlaying
    BY <1>1, <1>3 DEF JB!Pop, JB!PopPaused, JB!PopExpected, JB!PopUnderrun, JB!PopGap, JB!PopResync, JB!Release
  <2>2. PlayedFrames' = PlayedFrames \cup {queue[k].payload}
    <3>1. played' = Append(played, queue[k].payload)
      BY <1>3 DEF PopAndForward
    <3>2. played \in Seq(Frames) /\ queue[k].payload \in Frames
      BY PoppedIsNew DEF IInv, ReceiverInv
    <3> QED
      BY <3>1, <3>2 DEF PlayedFrames
  <2>3. BufferedFrames = BufferedFrames' \cup {queue[k].payload}
    BY <1>3 DEF BufferedFrames
  <2>4. UNCHANGED Repeats
    BY <1>1, <2>2, <2>3 DEF Repeats, Familiar
  <2>5. JB!Depth(queue') = JB!Depth(queue) - 1
    <3>1. \A S : JB!Cardinality(S) = Cardinality(S)
      BY DEF JB!Cardinality, Cardinality
    <3> QED
      BY <1>3, <3>1, FS_RemoveElement DEF JB!Depth
  <2>6. Reserve' + 1 = Reserve
    BY <1>1, <2>4, <2>5 DEF Reserve
  <2>7. ASSUME isPlaying' PROVE (Reserve' + 1) * FrameMs >= JB!Target
    <3>1. (Reserve + 0) * FrameMs >= JB!Target
      BY <1>1, <2>1, <2>7 DEF HeldInv
    <3> QED
      BY <2>6, <3>1
  <2> QED
    BY <1>1, <2>4, <2>7 DEF HeldInv
<1> QED
  BY <1>1, <1>2, <1>3, PopCases

LEMMA HeldInvariance ==
  ASSUME OneStream, Codec = "Pcm"
  PROVE  Spec => [](StreamInv /\ IInv /\ Accounted /\ HeldInv)
<1>1. Init => HeldInv
  <2> SUFFICES ASSUME Init PROVE HeldInv
    OBVIOUS
  <2>1. net = {} /\ discarded = {} /\ dups = 0 /\ Repeats = {} /\ isPlaying = FALSE
    BY DEF Init, Repeats, JB!Init
  <2> QED
    BY <2>1, FS_EmptySet DEF HeldInv
<1>2. StreamInv /\ IInv /\ Accounted /\ HeldInv /\ [Next]_vars => HeldInv'
  <2> SUFFICES ASSUME StreamInv, IInv, Accounted, HeldInv, [Next]_vars PROVE HeldInv'
    OBVIOUS
  <2>1. ~RestartSender
    BY DEF RestartSender, IInv, SenderInv, OneStream
  <2>2. CASE UNCHANGED vars
    BY <2>2 DEF vars, netVars, receiverVars, histories, HeldInv, Reserve, Repeats, Familiar,
       BufferedFrames, PlayedFrames
  <2> QED
    BY <2>1, <2>2, AdvanceHeld, NetworkHeld, PopHeld DEF Next, SenderNext, NetworkNext
<1> QED
  BY <1>1, <1>2, StreamInvariance, AccountedInvariance, PTL DEF Spec

(* While playing, PCM audio: nothing but late and duplicate arrivals drains *)
(* the buffer below the target delay, one frame each.                       *)
THEOREM DepthIsHeld == ASSUME OneStream, Codec = "Pcm" PROVE Spec => []DepthHeld
<1>1. StreamInv /\ IInv /\ HeldInv => DepthHeld
  <2> SUFFICES ASSUME StreamInv, IInv, HeldInv, phase = "recv", isPlaying
               PROVE  (JB!Depth(queue) + 1 + dups + Cardinality(discarded)) * FrameMs >= JB!Target
    BY DEF DepthHeld
  <2>1. (Reserve + 1) * FrameMs >= JB!Target
    BY DEF HeldInv
  <2> DEFINE all == JB!Depth(queue) + 1 + dups + Cardinality(discarded)
  <2>2. all \in Int /\ Reserve + 1 \in Int /\ Reserve + 1 <= all /\ FrameMs \in Int /\ FrameMs > 0
    BY HeldTypes DEF Reserve
  <2>3. \A a, b, m \in Int : a <= b /\ m > 0 => a * m <= b * m
    OBVIOUS
  <2>4. (Reserve + 1) * FrameMs <= all * FrameMs
    <3> HIDE DEF all
    <3> QED
      BY <2>2, <2>3
  <2>5. (Reserve + 1) * FrameMs \in Int /\ all * FrameMs \in Int /\ JB!Target \in Int
    BY <2>2, HeldTypes
  <2> QED
    BY <2>1, <2>4, <2>5
<1> QED
  BY <1>1, HeldInvariance, PTL

-----------------------------------------------------------------------------
(* PCM audio over a network that loses and duplicates nothing and reorders  *)
(* less than the target delay covers; the window the buffer and the network *)
(* span together fits in half the sequence space, as pop's arithmetic needs.*)
(* The stream may be as long as it likes: sequence numbers wrap around.     *)
Covered ==
  /\ Codec = "Pcm" /\ MaxLoss = 0 /\ MaxDup = 0
  /\ MaxReorder < TargetFrames
  /\ TargetFrames + MaxReorder <= HalfRange + 1
  /\ MaxReorder + 1 < HalfRange

LEMMA CoveredFacts ==
  ASSUME Covered
  PROVE  /\ SeqMod \in Nat \ {0} /\ HalfRange \in Nat /\ SeqMod = 2 * HalfRange
         /\ MaxReorder \in Nat /\ TargetFrames \in Nat
         /\ MaxReorder < TargetFrames
         /\ TargetFrames + MaxReorder <= HalfRange + 1
         /\ MaxReorder + 1 < HalfRange
         /\ None \notin Int
         /\ \A d \in Nat : d * FrameMs >= JB!Target <=> d >= TargetFrames
<1>1. JB!Target \in Nat
  BY PacketsAdmitted, Buffer!TargetPositive, SameOperators
<1>2. FrameMs \in Nat \ {0} /\ HalfRange \in Nat \ {0} /\ SeqMod = 2 * HalfRange /\ MaxReorder \in Nat
  BY AudioStreamAssumption
<1>3. TargetFrames \in Nat
  BY <1>1, <1>2 DEF TargetFrames
<1>4. \A d \in Nat : d * FrameMs >= JB!Target <=> d >= TargetFrames
  BY <1>1, <1>2, Ceil DEF TargetFrames
<1> QED
  BY <1>2, <1>3, <1>4, AudioStreamAssumption DEF Covered

(* Serial arithmetic on the numbers of positions that are near each other.  *)
LEMMA NumbersNear ==
  ASSUME Covered, NEW a \in Nat, NEW b \in Nat
  PROVE  /\ a % SeqMod \in 0 .. SeqMod - 1
         /\ b <= a /\ a - b < SeqMod => JB!WrappingSub(a % SeqMod, b % SeqMod) = a - b
         /\ a < b /\ b - a < SeqMod => JB!WrappingSub(a % SeqMod, b % SeqMod) = SeqMod - (b - a)
         /\ b <= a /\ a - b < SeqMod /\ a % SeqMod = b % SeqMod => a = b
         /\ JB!WrappingSucc(a % SeqMod) = (a + 1) % SeqMod
<1> USE CoveredFacts
<1>1. a % SeqMod \in 0 .. SeqMod - 1 /\ b % SeqMod \in 0 .. SeqMod - 1 /\ (a + 1) % SeqMod \in 0 .. SeqMod - 1
  <2>1. a + 1 \in Nat
    OBVIOUS
  <2> QED
    BY <2>1, DivMod
<1>2. b <= a /\ a - b < SeqMod => (a % SeqMod) - (b % SeqMod) \in {a - b, a - b - SeqMod}
  BY ModNear
<1>3. a < b /\ b - a < SeqMod => (b % SeqMod) - (a % SeqMod) \in {b - a, b - a - SeqMod}
  BY ModNear
<1>4. ((a + 1) % SeqMod) - (a % SeqMod) \in {1, 1 - SeqMod}
  <2>1. a <= a + 1 /\ (a + 1) - a < SeqMod /\ a + 1 \in Nat /\ (a + 1) - a = 1
    OBVIOUS
  <2> QED
    BY <2>1, ModNear
<1> DEFINE m == a % SeqMod
           n == b % SeqMod
           k == (a + 1) % SeqMod
<1> HIDE DEF m, n, k
<1>5. b <= a /\ a - b < SeqMod => JB!WrappingSub(m, n) = a - b
  BY <1>1, <1>2 DEF JB!WrappingSub, m, n
<1>6. a < b /\ b - a < SeqMod => JB!WrappingSub(m, n) = SeqMod - (b - a)
  BY <1>1, <1>3 DEF JB!WrappingSub, m, n
<1>7. b <= a /\ a - b < SeqMod /\ m = n => a = b
  BY <1>1, <1>2 DEF m, n
<1>8. JB!WrappingSucc(m) = k
  BY <1>1, <1>4 DEF JB!WrappingSucc, m, k
<1> QED
  BY <1>1, <1>5, <1>6, <1>7, <1>8 DEF m, n, k

-----------------------------------------------------------------------------
(* The depth of a queue is the number of positions in it.                   *)
PositionsIn(q) == {q[s].payload.pos : s \in DOMAIN q}

LEMMA DepthOfPositions ==
  ASSUME NEW q, IsFiniteSet(DOMAIN q), \A s \in DOMAIN q : s = q[s].payload.pos % SeqMod
  PROVE  /\ IsFiniteSet(PositionsIn(q))
         /\ JB!Depth(q) = Cardinality(PositionsIn(q)) /\ JB!Depth(q) \in Nat
<1> DEFINE f == [s \in DOMAIN q |-> q[s].payload.pos]
<1>1. f \in Bijection(DOMAIN q, PositionsIn(q))
  <2>1. f \in [DOMAIN q -> PositionsIn(q)]
    BY DEF PositionsIn
  <2>2. \A s, t \in DOMAIN q : f[s] = f[t] => s = t
    OBVIOUS
  <2>3. \A x \in PositionsIn(q) : \E s \in DOMAIN q : f[s] = x
    BY DEF PositionsIn
  <2> QED
    BY <2>1, <2>2, <2>3 DEF Bijection, Injection, Surjection, IsInjective
<1>2. IsFiniteSet(PositionsIn(q)) /\ Cardinality(PositionsIn(q)) = Cardinality(DOMAIN q)
  BY <1>1, FS_Bijection DEF ExistsBijection
<1>3. JB!Depth(q) = Cardinality(DOMAIN q)
  BY DEF JB!Depth, JB!Cardinality, Cardinality
<1> QED
  BY <1>2, <1>3, FS_CardinalityType

At(x) == [epoch |-> 0, pos |-> x]

(* The position of the first arrival, and the position playout has reached. *)
Start == IF played = << >> THEN expected ELSE played[1].pos
Front == Start + Len(played)

(* The number of a packet, on the wire or buffered, is its position modulo  *)
(* the size of the sequence space.                                          *)
Numbered ==
  /\ sequenceNumber = pos % SeqMod
  /\ \A p \in net : p.seq = p.payload.pos % SeqMod
  /\ \A s \in DOMAIN queue : s = queue[s].payload.pos % SeqMod

(* Every frame encoded is at exactly one place.                             *)
Placed ==
  /\ lostFrames = {}
  /\ \A x \in 0 .. pos - 1 : At(x) \in InFlightFrames \cup Familiar
  /\ \A f \in InFlightFrames \cup Familiar : f = At(f.pos) /\ f.pos \in 0 .. pos - 1
  /\ InFlightFrames \cap Familiar = {}

(* Nothing has arrived, and playout has not moved, further than MaxReorder  *)
(* ahead of what is still in flight.                                        *)
Near ==
  \A q \in net :
    /\ \A f \in Familiar : f.pos <= q.payload.pos + MaxReorder
    /\ expected # None => Front <= q.payload.pos + MaxReorder + 1

(* From the first arrival on, every frame is played in turn; what is        *)
(* buffered follows, what was discarded came before.                        *)
Contiguous ==
  IF expected = None
    THEN Familiar = {}
    ELSE /\ Start \in 0 .. pos - 1 /\ Front \in Start .. pos
         /\ expected = Front % SeqMod
         /\ \A i \in 1 .. Len(played) : played[i].pos = Start + i - 1
         /\ \A s \in DOMAIN queue : queue[s].payload.pos >= Front
         /\ \A d \in discarded : d.pos < Start

(* The buffer is filled once, to the target, and stays there: playout never *)
(* pauses again, and once it runs nothing older than its start is to come.  *)
Filling ==
  /\ lost = 0
  /\ IF isPlaying
       THEN /\ JB!Depth(queue) = IF phase = "recv" THEN TargetFrames - 1 ELSE TargetFrames
            /\ phase # "late"
            /\ \A q \in net : q.payload.pos >= Start
       ELSE JB!Depth(queue) < TargetFrames

Absorbing == Numbered /\ Placed /\ Near /\ Contiguous /\ Filling

LEMMA AbsorbTypes ==
  ASSUME Covered, StreamInv, Absorbing
  PROVE  /\ pos \in Nat /\ pos <= StreamLength /\ dups = 0
         /\ played \in Seq(Frames) /\ Len(played) \in Nat
         /\ \A q \in net : /\ q \in Packets /\ q.payload \in InFlightFrames
                           /\ q.payload = At(q.payload.pos) /\ q.payload.pos \in 0 .. pos - 1
         /\ \A s \in DOMAIN queue : /\ queue[s] \in Packets /\ queue[s].seq = s
                                    /\ queue[s].payload \in Familiar
                                    /\ queue[s].payload = At(queue[s].payload.pos)
                                    /\ queue[s].payload.pos \in 0 .. pos - 1
         /\ IsFiniteSet(DOMAIN queue) /\ JB!Depth(queue) \in Nat
         /\ isPlaying => expected # None
         /\ phase \in {"recv", "stored", "late"} /\ isPlaying \in BOOLEAN
<1>1. pos \in Nat /\ pos <= StreamLength /\ dups = 0 /\ played \in Seq(Frames) /\ Len(played) \in Nat
  BY AudioStreamAssumption DEF StreamInv, StreamTypes, Covered
<1>2. \A q \in net : q \in Packets /\ q.payload \in InFlightFrames
  BY DEF StreamInv, StreamTypes, InFlightFrames
<1>3. \A s \in DOMAIN queue : queue[s] \in Packets /\ queue[s].seq = s /\ queue[s].payload \in Familiar
  BY DEF StreamInv, Buffer!IInv, Buffer!TypeOK, Familiar, BufferedFrames
<1>4. Buffer!IsFiniteSet(DOMAIN queue)
  BY PacketsAdmitted, Buffer!QueueFacts DEF StreamInv, Buffer!IInv
<1>5. IsFiniteSet(DOMAIN queue)
  BY <1>4 DEF Buffer!IsFiniteSet, IsFiniteSet
<1>6. JB!Depth(queue) \in Nat
  BY <1>5, DepthOfPositions DEF Absorbing, Numbered
<1>7. isPlaying => expected # None
  BY DEF StreamInv, Buffer!IInv, Buffer!Anchored
<1>8. phase \in {"recv", "stored", "late"} /\ isPlaying \in BOOLEAN
  BY DEF StreamInv, Buffer!IInv, Buffer!TypeOK
<1> QED
  BY <1>1, <1>2, <1>3, <1>5, <1>6, <1>7, <1>8 DEF Absorbing, Placed

(* Frames that nothing in flight precedes, from the front of playout on,    *)
(* are buffered.                                                            *)
LEMMA Solid ==
  ASSUME Covered, StreamInv, Absorbing, expected # None,
         NEW m \in Nat, Front <= m, m <= pos,
         \A x \in Front .. m - 1 : At(x) \notin InFlightFrames
  PROVE  m - Front <= JB!Depth(queue)
<1> USE AbsorbTypes
<1>1. Front \in Nat /\ Start \in Nat /\ Start <= Front
  BY DEF Absorbing, Contiguous
<1>2. ASSUME NEW x \in Front .. m - 1
      PROVE  x \in PositionsIn(queue)
  <2>1. x \in 0 .. pos - 1 /\ At(x).pos = x
    BY <1>1 DEF At
  <2>2. At(x) \in Familiar
    BY <1>2, <2>1 DEF Absorbing, Placed
  <2>3. At(x) \notin discarded
    BY <1>1, <2>1 DEF Absorbing, Contiguous
  <2>4. At(x) \notin PlayedFrames
    <3>1. \A i \in 1 .. Len(played) : played[i].pos < Front
      BY <1>1 DEF Absorbing, Contiguous, Front
    <3> QED
      BY <1>1, <2>1, <3>1 DEF PlayedFrames
  <2>5. PICK s \in DOMAIN queue : queue[s].payload = At(x)
    BY <2>2, <2>3, <2>4 DEF Familiar, BufferedFrames
  <2> QED
    BY <2>1, <2>5 DEF PositionsIn
<1>3. IsFiniteSet(PositionsIn(queue)) /\ JB!Depth(queue) = Cardinality(PositionsIn(queue))
  BY DepthOfPositions DEF Absorbing, Numbered
<1>4. Front .. m - 1 \subseteq PositionsIn(queue)
  BY <1>2
<1>5. Cardinality(Front .. m - 1) = m - Front
  <2>1. m - 1 \in Int /\ Front \in Int
    BY <1>1
  <2>2. Cardinality(Front .. m - 1) = IF Front > m - 1 THEN 0 ELSE (m - 1) - Front + 1
    BY <2>1, FS_Interval
  <2> QED
    BY <1>1, <2>2
<1>6. Cardinality(Front .. m - 1) <= Cardinality(PositionsIn(queue))
  BY <1>3, <1>4, FS_Subset
<1> QED
  BY <1>3, <1>5, <1>6

(* So a frame that overtakes nothing by more than MaxReorder positions is   *)
(* no further from the front than the buffer is deep, and MaxReorder.       *)
LEMMA Span ==
  ASSUME Covered, StreamInv, Absorbing, expected # None,
         NEW z \in Nat, Front <= z, z < pos,
         \A q \in net : z <= q.payload.pos + MaxReorder
  PROVE  z - Front <= JB!Depth(queue) + MaxReorder
<1> USE AbsorbTypes, CoveredFacts
<1> DEFINE Missing == {x \in Front .. z - 1 : At(x) \in InFlightFrames}
<1>1. Front \in Nat
  BY DEF Absorbing, Contiguous
<1>2. CASE Missing = {}
  <2>1. z - Front <= JB!Depth(queue)
    <3>1. \A x \in Front .. z - 1 : At(x) \notin InFlightFrames
      BY <1>2
    <3> QED
      BY <3>1, Solid
  <2> QED
    BY <1>1, <2>1
<1>3. CASE Missing # {}
  <2> DEFINE m == Min(Missing)
  <2>1. m \in Missing /\ \A x \in Missing : m <= x
    <3>1. Missing \subseteq Nat
      BY <1>1
    <3> QED
      BY <1>3, <3>1, MinOfNaturals
  <2>2. m \in Front .. z - 1 /\ At(m) \in InFlightFrames
    BY <2>1
  <2>3. \A x \in Front .. m - 1 : At(x) \notin InFlightFrames
    <3> HIDE DEF m
    <3>1. ASSUME NEW x \in Front .. m - 1, At(x) \in InFlightFrames
          PROVE  FALSE
      BY <1>1, <2>1, <2>2, <3>1
    <3> QED
      BY <3>1
  <2> HIDE DEF m, Missing
  <2>4. m \in Nat /\ Front <= m /\ m <= pos
    BY <1>1, <2>2
  <2>5. m - Front <= JB!Depth(queue)
    BY <2>3, <2>4, Solid
  <2>6. PICK q \in net : q.payload = At(m)
    BY <2>2 DEF InFlightFrames
  <2>7. z <= m + MaxReorder
    BY <2>6 DEF At
  <2> QED
    BY <1>1, <2>4, <2>5, <2>7
<1> QED
  BY <1>2, <1>3

(* The positions of a buffer that all lie in a window of MaxReorder are     *)
(* fewer than the target needs.                                             *)
LEMMA Shallow ==
  ASSUME Covered, NEW q, IsFiniteSet(DOMAIN q), \A s \in DOMAIN q : s = q[s].payload.pos % SeqMod,
         NEW a \in Int, \A s \in DOMAIN q : q[s].payload.pos \in a .. a + MaxReorder - 1
  PROVE  JB!Depth(q) <= MaxReorder
<1>1. PositionsIn(q) \subseteq a .. a + MaxReorder - 1
  BY DEF PositionsIn
<1>2. a + MaxReorder - 1 \in Int /\ a <= (a + MaxReorder - 1) + 1 /\ (a + MaxReorder - 1) - a + 1 = MaxReorder
  BY CoveredFacts
<1>3. Cardinality(PositionsIn(q)) <= MaxReorder
  BY <1>1, <1>2, IntervalHolds
<1> QED
  BY <1>3, DepthOfPositions

LEMMA AdvanceAbsorbs ==
  ASSUME Covered, StreamInv, StreamInv', epoch = 0, Absorbing, Send \/ SendFails
  PROVE  Absorbing'
<1> USE AbsorbTypes, CoveredFacts
<1>1. ~SendFails
  BY FS_EmptySet DEF SendFails, Absorbing, Placed, Covered
<1>2. Send
  BY <1>1
<1>3. /\ pos' = pos + 1 /\ sequenceNumber' = JB!WrappingSucc(sequenceNumber)
      /\ net' = net \cup {CurrentPacket}
      /\ UNCHANGED <<queue, expected, isPlaying, lost, phase, played, discarded, lostFrames>>
      /\ UNCHANGED <<Familiar, Start, Front>>
  BY <1>2 DEF Send, Advance, receiverVars, histories, Familiar, BufferedFrames, PlayedFrames, Start, Front
<1>4. CurrentPacket.payload = At(pos) /\ CurrentPacket.seq = pos % SeqMod /\ At(pos).pos = pos
  BY DEF CurrentPacket, CurrentFrame, At, Absorbing, Numbered
<1>5. InFlightFrames' = InFlightFrames \cup {At(pos)}
  BY <1>3, <1>4 DEF InFlightFrames
<1>6. Numbered'
  <2>1. sequenceNumber' = pos' % SeqMod
    BY <1>3, NumbersNear DEF Absorbing, Numbered
  <2> QED
    BY <1>3, <1>4, <2>1 DEF Absorbing, Numbered
<1>7. Placed'
  <2>1. \A x \in 0 .. pos' - 1 : x \in 0 .. pos - 1 \/ x = pos
    BY <1>3
  <2>2. \A f \in InFlightFrames' \cup Familiar' : f = At(f.pos) /\ f.pos \in 0 .. pos' - 1
    BY <1>3, <1>4, <1>5 DEF Absorbing, Placed
  <2>3. At(pos) \notin Familiar
    BY <1>4 DEF Absorbing, Placed
  <2> QED
    BY <1>3, <1>5, <2>1, <2>2, <2>3 DEF Absorbing, Placed
<1>8. Near'
  <2>1. \A f \in Familiar : f.pos <= pos + MaxReorder
    BY DEF Absorbing, Placed
  <2>2. expected # None => Front <= pos + MaxReorder + 1
    BY DEF Absorbing, Contiguous
  <2> QED
    BY <1>3, <1>4, <2>1, <2>2 DEF Absorbing, Near
<1>9. Contiguous'
  <2>1. expected # None => Start \in 0 .. pos' - 1 /\ Front \in Start .. pos'
    BY <1>3 DEF Absorbing, Contiguous
  <2> QED
    BY <1>3, <2>1 DEF Absorbing, Contiguous
<1>10. Filling'
  <2>1. isPlaying => pos >= Start
    BY DEF Absorbing, Contiguous
  <2> QED
    BY <1>3, <1>4, <2>1 DEF Absorbing, Filling
<1> QED
  BY <1>6, <1>7, <1>8, <1>9, <1>10 DEF Absorbing

(* A packet is known by its number and its frame.                           *)
LEMMA PacketKnownBy ==
  ASSUME NEW a \in Packets, NEW b \in Packets, a.seq = b.seq, a.payload = b.payload
  PROVE  a = b
BY DEF Packets

(* What the delivery of a frame, late or stored, does to where frames are.  *)
LEMMA DeliveryPlaces ==
  ASSUME Covered, StreamInv, epoch = 0, Absorbing, NEW p \in net, Deliver(p)
  PROVE  /\ \A q \in net : p.payload.pos <= q.payload.pos + MaxReorder
         /\ p.payload \notin Familiar
         /\ InFlightFrames' = InFlightFrames \ {p.payload}
         /\ UNCHANGED <<pos, sequenceNumber, lostFrames, played, lost>>
         /\ net' = net \ {p}
         /\ phase = "recv" /\ phase' # "recv"
<1> USE AbsorbTypes, CoveredFacts
<1>1. ASSUME NEW q \in net
      PROVE  p.payload.pos <= q.payload.pos + MaxReorder
  <2>1. q.payload.epoch = 0 /\ p.payload.epoch = 0
    <3>1. q.payload = At(q.payload.pos) /\ p.payload = At(p.payload.pos)
      OBVIOUS
    <3>2. \A y : At(y).epoch = 0
      BY DEF At
    <3> QED
      BY <3>1, <3>2
  <2>2. p.payload.pos - q.payload.pos <= Overtaking(0)
    BY <2>1 DEF Deliver, Receive, Deliverable
  <2> QED
    BY <2>2 DEF Overtaking
<1>2. p.payload \notin Familiar
  BY DEF Absorbing, Placed
<1>3. net' = net \ {p} /\ UNCHANGED <<pos, sequenceNumber, lostFrames, played, lost>>
      /\ phase = "recv" /\ phase' # "recv"
  BY DEF Deliver, Receive, senderVars, JB!PushLate, JB!PushStored
<1>4. InFlightFrames' = InFlightFrames \ {p.payload}
  <2>1. ASSUME NEW q \in net, q.payload = p.payload
        PROVE  q = p
    <3>1. q.seq = p.seq
      BY <2>1 DEF Absorbing, Numbered
    <3>2. p \in Packets /\ q \in Packets
      OBVIOUS
    <3> QED
      BY <2>1, <3>1, <3>2, PacketKnownBy
  <2> QED
    BY <1>3, <2>1 DEF InFlightFrames
<1> QED
  BY <1>1, <1>2, <1>3, <1>4

(* Once playout has a front, a frame is late exactly if it is behind it.    *)
LEMMA LateIffBehind ==
  ASSUME Covered, StreamInv, epoch = 0, Absorbing, expected # None,
         NEW p \in net, Deliver(p)
  PROVE  /\ JB!IsLate(p.seq) <=> p.payload.pos < Front
         /\ p.payload.pos < Front => p.payload.pos < Start
<1> DEFINE x == p.payload.pos
<1>1. /\ x \in Nat /\ x < pos /\ p.seq = x % SeqMod /\ p.payload = At(x)
      /\ Front \in Nat /\ Start \in Nat /\ expected = Front % SeqMod
      /\ Front = Start + Len(played) /\ Len(played) \in Nat
      /\ Front <= x + MaxReorder + 1
  BY AbsorbTypes DEF Absorbing, Numbered, Near, Contiguous, Front
<1>2. /\ \A q \in net : x <= q.payload.pos + MaxReorder
      /\ p.payload \notin Familiar
  BY DeliveryPlaces
<1>3. JB!Depth(queue) < TargetFrames /\ JB!Depth(queue) \in Nat
  <2>1. phase = "recv"
    BY DeliveryPlaces
  <2> QED
    BY <2>1, AbsorbTypes, CoveredFacts DEF Absorbing, Filling
<1>4. /\ SeqMod = 2 * HalfRange /\ HalfRange \in Nat /\ MaxReorder \in Nat /\ TargetFrames \in Nat
      /\ TargetFrames + MaxReorder <= HalfRange + 1 /\ MaxReorder + 1 < HalfRange
  BY CoveredFacts
<1>5. JB!IsLate(p.seq) <=> JB!WrappingSub(x % SeqMod, Front % SeqMod) > HalfRange
  BY <1>1 DEF JB!IsLate
<1> HIDE DEF x
<1>6. CASE x < Front
  <2>1. Front - x < SeqMod
    BY <1>1, <1>4
  <2>2. JB!WrappingSub(x % SeqMod, Front % SeqMod) = SeqMod - (Front - x)
    BY <1>1, <1>6, <2>1, NumbersNear
  <2>3. SeqMod - (Front - x) > HalfRange
    BY <1>1, <1>4
  <2>4. x < Start
    <3> SUFFICES ASSUME x >= Start PROVE FALSE
      BY <1>1
    <3>1. \A i \in 1 .. Len(played) : played[i].pos = Start + i - 1
      BY DEF Absorbing, Contiguous
    <3> DEFINE i == (x - Start) + 1
    <3>2. i \in 1 .. Len(played) /\ Start + i - 1 = x
      BY <1>1, <1>6
    <3>3. played[i].pos = x
      BY <3>1, <3>2
    <3> HIDE DEF i
    <3>4. played[i] \in Familiar
      BY <3>2 DEF Familiar, PlayedFrames
    <3>5. played[i] = At(x)
      BY <3>3, <3>4 DEF Absorbing, Placed
    <3> QED
      BY <1>1, <1>2, <3>4, <3>5
  <2> QED
    BY <1>5, <1>6, <2>2, <2>3, <2>4 DEF x
<1>7. CASE x >= Front
  <2>1. x - Front <= JB!Depth(queue) + MaxReorder
    BY <1>1, <1>2, <1>7, Span
  <2>2. x - Front <= HalfRange /\ x - Front < SeqMod
    BY <1>1, <1>3, <1>4, <2>1
  <2>3. JB!WrappingSub(x % SeqMod, Front % SeqMod) = x - Front
    BY <1>1, <1>7, <2>2, NumbersNear
  <2>4. ~(x - Front > HalfRange) /\ ~(x < Front)
    BY <1>1, <1>4, <1>7, <2>2
  <2> QED
    BY <1>5, <2>3, <2>4 DEF x
<1> QED
  BY <1>1, <1>6, <1>7

(* A frame the very first arrival overtook is late; playout has not begun.  *)
LEMMA LateAbsorbs ==
  ASSUME Covered, StreamInv, epoch = 0, Absorbing,
         NEW p \in net, Deliver(p), JB!PushLate(p)
  PROVE  Absorbing'
<1> USE AbsorbTypes, CoveredFacts
<1>1. /\ \A q \in net : p.payload.pos <= q.payload.pos + MaxReorder
      /\ p.payload \notin Familiar
      /\ InFlightFrames' = InFlightFrames \ {p.payload}
      /\ UNCHANGED <<pos, sequenceNumber, lostFrames, played, lost>>
      /\ net' = net \ {p} /\ phase = "recv"
  BY DeliveryPlaces
<1>2. /\ UNCHANGED <<queue, expected, isPlaying, Start, Front>> /\ phase' = "late"
      /\ discarded' = discarded \cup {p.payload}
      /\ expected # None
  BY <1>1 DEF JB!PushLate, JB!PushStored, JB!IsLate, Deliver, Receive, Start, Front
<1>3. Familiar' = Familiar \cup {p.payload}
  BY <1>1, <1>2 DEF Familiar, BufferedFrames, PlayedFrames
<1>4. p.payload.pos < Start
  BY <1>2, LateIffBehind DEF JB!PushLate
<1>5. Numbered'
  BY <1>1, <1>2 DEF Absorbing, Numbered
<1>6. Placed'
  BY <1>1, <1>3 DEF Absorbing, Placed
<1>7. Near'
  BY <1>1, <1>2, <1>3 DEF Absorbing, Near
<1>8. Contiguous'
  BY <1>1, <1>2, <1>3, <1>4 DEF Absorbing, Contiguous
<1>9. Filling'
  <2>1. ~isPlaying
    <3>1. Start \in Nat
      BY <1>2 DEF Absorbing, Contiguous
    <3> QED
      BY <1>4, <3>1 DEF Absorbing, Filling
  <2> QED
    BY <1>1, <1>2, <2>1 DEF Absorbing, Filling
<1> QED
  BY <1>5, <1>6, <1>7, <1>8, <1>9 DEF Absorbing

(* Where a stored frame finds the front: at itself, if it is the first.     *)
LEMMA StoredAtFront ==
  ASSUME Covered, StreamInv, epoch = 0, Absorbing,
         NEW p \in net, Deliver(p), JB!PushStored(p)
  PROVE  /\ expected' # None /\ expected' = Front' % SeqMod
         /\ Start' \in 0 .. pos - 1 /\ Front' \in Start' .. pos
         /\ p.payload.pos >= Front'
         /\ \A i \in 1 .. Len(played) : played[i].pos = Start' + i - 1
         /\ \A s \in DOMAIN queue : queue[s].payload.pos >= Front'
         /\ \A d \in discarded : d.pos < Start'
         /\ \A q \in net : Front' <= q.payload.pos + MaxReorder + 1
         /\ p.seq \notin DOMAIN queue
         /\ isPlaying => Start' = Start
<1> DEFINE x == p.payload.pos
<1>1. x \in Nat /\ x < pos /\ p.seq = x % SeqMod /\ p.payload = At(x) /\ pos \in Nat
  BY AbsorbTypes DEF Absorbing, Numbered
<1>2. (\A q \in net : x <= q.payload.pos + MaxReorder) /\ p.payload \notin Familiar /\ played' = played
  BY DeliveryPlaces
<1>3. expected' = IF expected = None THEN p.seq ELSE expected
  BY DEF JB!PushStored
<1>4. /\ SeqMod = 2 * HalfRange /\ HalfRange \in Nat /\ MaxReorder \in Nat /\ TargetFrames \in Nat
      /\ TargetFrames + MaxReorder <= HalfRange + 1 /\ MaxReorder + 1 < HalfRange
      /\ SeqMod \in Nat \ {0} /\ None \notin Int
  BY CoveredFacts
<1> HIDE DEF x
<1>5. CASE expected = None
  <2>1. Familiar = {}
    BY <1>5 DEF Absorbing, Contiguous
  <2>2. played = << >> /\ DOMAIN queue = {} /\ discarded = {}
    <3>1. \A i \in 1 .. Len(played) : played[i] \in Familiar
      BY DEF Familiar, PlayedFrames
    <3>2. \A s \in DOMAIN queue : queue[s].payload \in Familiar
      BY DEF Familiar, BufferedFrames
    <3>3. played \in Seq(Frames)
      BY AbsorbTypes
    <3>4. 1 \notin 1 .. Len(played)
      BY <2>1, <3>1
    <3>5. played = << >>
      BY <3>3, <3>4
    <3>6. discarded = {}
      BY <2>1 DEF Familiar
    <3> QED
      BY <2>1, <3>2, <3>5, <3>6
  <2>3. x <= MaxReorder
    <3>1. At(0) \in InFlightFrames
      <4>1. 0 \in 0 .. pos - 1
        BY <1>1
      <4> QED
        BY <2>1, <4>1 DEF Absorbing, Placed
    <3>2. PICK q \in net : q.payload = At(0)
      BY <3>1 DEF InFlightFrames
    <3> QED
      BY <1>1, <1>2, <1>4, <3>2 DEF At
  <2>4. x % SeqMod = x
    BY <1>1, <1>4, <2>3
  <2>5. expected' = x /\ Start' = x /\ Front' = x
    BY <1>1, <1>2, <1>3, <1>5, <2>2, <2>4 DEF Start, Front
  <2>6. ~isPlaying
    BY <1>5, AbsorbTypes
  <2>7. \A q \in net : x <= q.payload.pos + MaxReorder + 1
    <3> SUFFICES ASSUME NEW q \in net PROVE x <= q.payload.pos + MaxReorder + 1
      OBVIOUS
    <3>1. q.payload.pos \in 0 .. pos - 1
      BY AbsorbTypes
    <3> QED
      BY <1>1, <1>2, <1>4, <3>1
  <2>8. x # None /\ x \in 0 .. pos - 1 /\ x \in x .. pos /\ x >= x
    BY <1>1, <1>4
  <2>9. \A i \in 1 .. Len(played) : FALSE
    BY <2>2
  <2>10. p.payload.pos = x
    BY DEF x
  <2> QED
    BY <2>2, <2>4, <2>5, <2>6, <2>7, <2>8, <2>9, <2>10
<1>6. CASE expected # None
  <2>1. expected' = expected /\ Start' = Start /\ Front' = Front
    BY <1>2, <1>3, <1>6 DEF Start, Front
  <2>2. x >= Front
    <3>1. ~JB!IsLate(p.seq) /\ Front \in Nat
      BY <1>6 DEF JB!PushStored, Absorbing, Contiguous
    <3> QED
      BY <1>1, <1>6, <3>1, LateIffBehind DEF x
  <2>3. p.seq \notin DOMAIN queue
    <3> SUFFICES ASSUME p.seq \in DOMAIN queue PROVE FALSE
      OBVIOUS
    <3> DEFINE y == queue[p.seq].payload.pos
    <3>1. /\ y \in Nat /\ y < pos /\ p.seq = y % SeqMod
          /\ queue[p.seq].payload \in Familiar /\ queue[p.seq].payload = At(y)
      BY AbsorbTypes DEF Absorbing, Numbered
    <3>2. y >= Front /\ Front \in Nat /\ \A q \in net : y <= q.payload.pos + MaxReorder
      BY <1>6, <3>1 DEF Absorbing, Contiguous, Near
    <3>3. JB!Depth(queue) < TargetFrames /\ JB!Depth(queue) \in Nat
      <4>1. phase = "recv"
        BY DeliveryPlaces
      <4> QED
        BY <4>1, AbsorbTypes, CoveredFacts DEF Absorbing, Filling
    <3> HIDE DEF y
    <3>4. y - Front <= JB!Depth(queue) + MaxReorder
      BY <1>6, <3>1, <3>2, Span
    <3>5. x - Front <= JB!Depth(queue) + MaxReorder
      BY <1>1, <1>2, <1>6, <2>2, <3>2, Span
    <3>6. y - Front < SeqMod /\ x - Front < SeqMod
      BY <1>1, <1>4, <3>1, <3>2, <3>3, <3>4, <3>5
    <3>7. x = y
      <4>1. x <= y => y - x < SeqMod
        BY <1>1, <1>4, <2>2, <3>1, <3>2, <3>6
      <4>2. y <= x => x - y < SeqMod
        BY <1>1, <1>4, <2>2, <3>1, <3>2, <3>6
      <4> QED
        BY <1>1, <3>1, <4>1, <4>2, NumbersNear
    <3> QED
      BY <1>1, <1>2, <3>1, <3>7
  <2> QED
    BY <1>1, <1>6, <2>1, <2>2, <2>3 DEF x, Absorbing, Contiguous, Near
<1> QED
  BY <1>5, <1>6

LEMMA StoredAbsorbs ==
  ASSUME Covered, StreamInv, epoch = 0, Absorbing,
         NEW p \in net, Deliver(p), JB!PushStored(p)
  PROVE  Absorbing'
<1>1. /\ \A q \in net : p.payload.pos <= q.payload.pos + MaxReorder
      /\ p.payload \notin Familiar
      /\ InFlightFrames' = InFlightFrames \ {p.payload}
      /\ UNCHANGED <<pos, sequenceNumber, lostFrames, played, lost>>
      /\ net' = net \ {p} /\ phase = "recv"
  BY DeliveryPlaces
<1>2. /\ expected' # None /\ expected' = Front' % SeqMod
      /\ Start' \in 0 .. pos - 1 /\ Front' \in Start' .. pos
      /\ p.payload.pos >= Front'
      /\ \A i \in 1 .. Len(played) : played[i].pos = Start' + i - 1
      /\ \A s \in DOMAIN queue : queue[s].payload.pos >= Front'
      /\ \A d \in discarded : d.pos < Start'
      /\ \A q \in net : Front' <= q.payload.pos + MaxReorder + 1
      /\ p.seq \notin DOMAIN queue
      /\ isPlaying => Start' = Start
  BY StoredAtFront
<1>3. /\ DOMAIN queue' = DOMAIN queue \cup {p.seq}
      /\ queue'[p.seq] = p
      /\ \A s \in DOMAIN queue : queue'[s] = queue[s]
      /\ discarded' = discarded /\ phase' = "stored"
  BY <1>2 DEF JB!PushStored, JB!PushLate, JB!Insert, Deliver, Receive
<1>4. Familiar' = Familiar \cup {p.payload}
  <2>1. BufferedFrames' = BufferedFrames \cup {p.payload}
    BY <1>2, <1>3 DEF BufferedFrames
  <2>2. PlayedFrames' = PlayedFrames
    BY <1>1 DEF PlayedFrames
  <2> QED
    BY <1>3, <2>1, <2>2 DEF Familiar
<1>5. /\ p.payload.pos \in 0 .. pos - 1 /\ p.seq = p.payload.pos % SeqMod /\ p.payload \in InFlightFrames
      /\ pos \in Nat /\ MaxReorder \in Nat
  BY AbsorbTypes, CoveredFacts DEF Absorbing, Numbered
<1>6. Numbered'
  BY <1>1, <1>3, <1>5 DEF Absorbing, Numbered
<1>7. Placed'
  BY <1>1, <1>4, <1>5 DEF Absorbing, Placed
<1>8. Near'
  BY <1>1, <1>2, <1>4 DEF Absorbing, Near
<1>9. Contiguous'
  BY <1>1, <1>2, <1>3 DEF Contiguous
<1>10. Filling'
  <2>1. /\ IsFiniteSet(DOMAIN queue') /\ JB!Depth(queue') = JB!Depth(queue) + 1
        /\ JB!Depth(queue) \in Nat
    <3>1. \A S : JB!Cardinality(S) = Cardinality(S)
      BY DEF JB!Cardinality, Cardinality
    <3>2. IsFiniteSet(DOMAIN queue) /\ JB!Depth(queue) \in Nat
      BY AbsorbTypes
    <3> QED
      BY <1>2, <1>3, <3>1, <3>2, FS_AddElement DEF JB!Depth
  <2>2. isPlaying' <=> (isPlaying \/ JB!Depth(queue') * FrameMs >= JB!Target)
    <3>1. p.codec = "Pcm" /\ p.ms = FrameMs /\ FrameMs > 0
      BY AbsorbTypes, AudioStreamAssumption DEF Packets, Covered
    <3>2. frameMs' = FrameMs
      BY <3>1 DEF JB!PushStored
    <3>3. isPlaying' = (isPlaying \/ JB!Depth(queue') * frameMs' >= JB!Target)
      BY DEF JB!PushStored
    <3> QED
      BY <3>2, <3>3, Zenon
  <2>3. JB!Depth(queue') * FrameMs >= JB!Target <=> JB!Depth(queue') >= TargetFrames
    <3>1. JB!Depth(queue') \in Nat
      BY <2>1
    <3> QED
      BY <3>1, CoveredFacts
  <2>4. TargetFrames \in Nat /\ MaxReorder < TargetFrames /\ lost' = 0
    BY <1>1, CoveredFacts DEF Absorbing, Filling
  <2>5. CASE isPlaying
    <3>1. JB!Depth(queue) = TargetFrames - 1 /\ \A q \in net : q.payload.pos >= Start
      BY <1>1, <2>5 DEF Absorbing, Filling
    <3> QED
      BY <1>1, <1>2, <1>3, <2>1, <2>2, <2>4, <2>5, <3>1 DEF Filling
  <2>6. CASE ~isPlaying
    <3>1. JB!Depth(queue) < TargetFrames
      BY <2>6 DEF Absorbing, Filling
    <3>2. CASE ~isPlaying'
      <4>1. ~(JB!Depth(queue') >= TargetFrames)
        BY <2>2, <2>3, <3>2
      <4> QED
        BY <2>1, <2>4, <3>2, <4>1 DEF Filling
    <3>3. CASE isPlaying'
      <4>1. JB!Depth(queue') = TargetFrames
        BY <2>1, <2>2, <2>3, <2>4, <2>6, <3>1, <3>3
      <4>2. ASSUME NEW q \in net', q.payload.pos < Start'
            PROVE  FALSE
        <5>1. q \in net /\ q.payload.pos \in Nat /\ Start' \in Nat
          BY <1>1, <1>2, AbsorbTypes
        <5>2. ASSUME NEW s \in DOMAIN queue'
              PROVE  queue'[s].payload.pos \in Start' .. Start' + MaxReorder - 1
          <6>1. queue'[s].payload.pos <= q.payload.pos + MaxReorder /\ queue'[s].payload.pos \in Nat
            <7>1. CASE s \in DOMAIN queue
              BY <1>3, <5>1, <7>1, AbsorbTypes DEF Absorbing, Near
            <7>2. CASE s = p.seq
              BY <1>1, <1>3, <1>5, <5>1, <7>2
            <7> QED
              BY <1>3, <7>1, <7>2
          <6>2. queue'[s].payload.pos >= Front' /\ Front' >= Start' /\ Front' \in Nat
            <7>1. queue'[s].payload.pos >= Front'
              BY <1>2, <1>3
            <7> QED
              BY <1>2, <5>1, <7>1
          <6> QED
            BY <1>5, <4>2, <5>1, <6>1, <6>2
        <5>3. \A s \in DOMAIN queue' : s = queue'[s].payload.pos % SeqMod
          BY <1>6 DEF Numbered
        <5>4. JB!Depth(queue') <= MaxReorder
          BY <2>1, <5>1, <5>2, <5>3, Shallow
        <5> QED
          BY <1>5, <2>4, <4>1, <5>4
      <4>3. \A q \in net' : q.payload.pos >= Start'
        BY <1>1, <1>2, <4>2, AbsorbTypes
      <4> QED
        BY <1>3, <2>4, <3>3, <4>1, <4>3 DEF Filling
    <3> QED
      BY <3>2, <3>3
  <2> QED
    BY <2>5, <2>6
<1> QED
  BY <1>6, <1>7, <1>8, <1>9, <1>10 DEF Absorbing

(* While playing, the frame playout has reached is always buffered: were it *)
(* in flight, the buffer would hold no more than MaxReorder frames.         *)
LEMMA FrontIsBuffered ==
  ASSUME Covered, StreamInv, epoch = 0, Absorbing, isPlaying, phase = "stored"
  PROVE  /\ expected \in DOMAIN queue
         /\ queue[expected].payload.pos = Front
<1>1. /\ expected # None /\ JB!Depth(queue) = TargetFrames
      /\ Front \in Nat /\ Start \in Nat /\ Start <= Front /\ pos \in Nat
      /\ expected = Front % SeqMod
      /\ \A s \in DOMAIN queue : queue[s].payload.pos >= Front
  BY AbsorbTypes DEF Absorbing, Filling, Contiguous
<1>2. /\ SeqMod = 2 * HalfRange /\ HalfRange \in Nat /\ MaxReorder \in Nat /\ TargetFrames \in Nat
      /\ TargetFrames + MaxReorder <= HalfRange + 1 /\ MaxReorder + 1 < HalfRange
      /\ MaxReorder < TargetFrames /\ SeqMod \in Nat \ {0}
  BY CoveredFacts
<1>3. expected \in DOMAIN queue
  <2> SUFFICES ASSUME expected \notin DOMAIN queue PROVE FALSE
    OBVIOUS
  <2>1. ASSUME NEW s \in DOMAIN queue
        PROVE  queue[s].payload.pos >= Front + 1 /\ queue[s].payload.pos \in Nat
    <3>1. queue[s].payload.pos \in Nat /\ queue[s].payload.pos >= Front /\ s = queue[s].payload.pos % SeqMod
      BY <1>1, AbsorbTypes DEF Absorbing, Numbered
    <3>2. queue[s].payload.pos # Front
      BY <1>1, <3>1
    <3> QED
      BY <1>1, <3>1, <3>2
  <2>2. At(Front) \in InFlightFrames
    <3>1. PICK s \in DOMAIN queue : TRUE
      <4>1. DOMAIN queue # {}
        <5>1. DOMAIN queue = {} => JB!Depth(queue) = 0
          <6>1. JB!Depth(queue) = Cardinality(DOMAIN queue)
            BY DEF JB!Depth, JB!Cardinality, Cardinality
          <6> QED
            BY <6>1, FS_EmptySet
        <5>2. TargetFrames # 0
          BY <1>2
        <5> QED
          BY <1>1, <5>1, <5>2
      <4> QED
        BY <4>1
    <3>2. Front \in 0 .. pos - 1
      <4>1. queue[s].payload.pos \in 0 .. pos - 1
        BY AbsorbTypes
      <4> QED
        BY <1>1, <2>1, <4>1
    <3>3. At(Front) \in InFlightFrames \cup Familiar /\ At(Front).pos = Front
      BY <3>2 DEF Absorbing, Placed, At
    <3>4. At(Front) \notin BufferedFrames
      BY <1>1, <2>1, <3>3 DEF BufferedFrames
    <3>5. At(Front) \notin PlayedFrames
      <4>1. ASSUME NEW i \in 1 .. Len(played)
            PROVE  played[i].pos < Front
        <5>1. played[i].pos = Start + i - 1 /\ Front = Start + Len(played) /\ Len(played) \in Nat
          BY <1>1, AbsorbTypes DEF Absorbing, Contiguous, Front
        <5> QED
          BY <1>1, <5>1
      <4> QED
        BY <1>1, <3>3, <4>1 DEF PlayedFrames
    <3>6. At(Front) \notin discarded
      BY <1>1, <3>3 DEF Absorbing, Contiguous
    <3> QED
      BY <3>3, <3>4, <3>5, <3>6 DEF Familiar
  <2>3. PICK q \in net : q.payload = At(Front)
    BY <2>2 DEF InFlightFrames
  <2>4. ASSUME NEW s \in DOMAIN queue
        PROVE  queue[s].payload.pos \in Front + 1 .. (Front + 1) + MaxReorder - 1
    <3>1. queue[s].payload \in Familiar
      BY AbsorbTypes
    <3>2. queue[s].payload.pos <= q.payload.pos + MaxReorder /\ q.payload.pos = Front
      BY <2>3, <3>1 DEF Absorbing, Near, At
    <3> QED
      BY <1>1, <1>2, <2>1, <3>2
  <2>5. JB!Depth(queue) <= MaxReorder
    <3>1. Front + 1 \in Int
      BY <1>1
    <3>2. IsFiniteSet(DOMAIN queue) /\ \A s \in DOMAIN queue : s = queue[s].payload.pos % SeqMod
      BY AbsorbTypes DEF Absorbing, Numbered
    <3> QED
      BY <2>4, <3>1, <3>2, Shallow
  <2> QED
    BY <1>1, <1>2, <2>5
<1>4. queue[expected].payload.pos = Front
  <2> DEFINE y == queue[expected].payload.pos
  <2>1. /\ y \in Nat /\ y < pos /\ y >= Front /\ expected = y % SeqMod
        /\ queue[expected].payload \in Familiar
    BY <1>1, <1>3, AbsorbTypes DEF Absorbing, Numbered
  <2>2. \A q \in net : y <= q.payload.pos + MaxReorder
    BY <2>1 DEF Absorbing, Near
  <2> HIDE DEF y
  <2>3. y - Front <= JB!Depth(queue) + MaxReorder
    BY <1>1, <2>1, <2>2, Span
  <2>4. y - Front < SeqMod
    BY <1>1, <1>2, <2>1, <2>3
  <2>5. y = Front
    BY <1>1, <2>1, <2>4, NumbersNear
  <2> QED
    BY <2>5 DEF y
<1> QED
  BY <1>3, <1>4

LEMMA PopAbsorbs ==
  ASSUME Covered, StreamInv, epoch = 0, Absorbing, PopAndForward
  PROVE  Absorbing'
<1>1. /\ UNCHANGED <<pos, sequenceNumber, net, lostFrames, discarded, InFlightFrames>>
      /\ JB!Pop /\ phase # "recv" /\ phase' = "recv"
  BY DEF PopAndForward, senderVars, netVars, InFlightFrames, JB!Pop, JB!PopPaused, JB!PopExpected,
     JB!PopUnderrun, JB!PopGap, JB!PopResync, JB!Skipping, JB!Popping
<1>2. CASE ~isPlaying
  <2>1. UNCHANGED <<queue, expected, isPlaying, lost, played>>
    BY <1>1, <1>2 DEF PopAndForward, JB!Pop, JB!PopPaused, JB!PopExpected, JB!PopUnderrun, JB!PopGap,
       JB!PopResync, JB!Skipping
  <2>2. UNCHANGED <<Familiar, Start, Front>>
    BY <1>1, <2>1 DEF Familiar, BufferedFrames, PlayedFrames, Start, Front
  <2>3. Numbered' /\ Placed' /\ Near' /\ Contiguous'
    BY <1>1, <2>1, <2>2 DEF Absorbing, Numbered, Placed, Near, Contiguous
  <2>4. Filling'
    BY <1>1, <1>2, <2>1 DEF Absorbing, Filling
  <2> QED
    BY <2>3, <2>4 DEF Absorbing
<1>3. CASE isPlaying
  <2>1. /\ phase = "stored" /\ expected # None
        /\ JB!Depth(queue) = TargetFrames /\ JB!Depth(queue) \in Nat /\ IsFiniteSet(DOMAIN queue)
    BY <1>1, <1>3, AbsorbTypes DEF Absorbing, Filling
  <2>2. expected \in DOMAIN queue /\ queue[expected].payload.pos = Front
    BY <1>3, <2>1, FrontIsBuffered
  <2>3. JB!PopExpected
    BY <1>1, <1>3, <2>1, <2>2 DEF JB!Pop, JB!PopPaused, JB!PopUnderrun, JB!PopGap, JB!PopResync, JB!Skipping
  <2>4. /\ popped' = queue[expected] /\ UNCHANGED <<lost, isPlaying>>
        /\ DOMAIN queue' = DOMAIN queue \ {expected}
        /\ \A s \in DOMAIN queue' : queue'[s] = queue[s]
        /\ expected' = JB!WrappingSucc(expected)
    BY <2>3 DEF JB!PopExpected, JB!Release, JB!Remove, JB!Restrict
  <2>5. /\ queue[expected] # None /\ queue[expected].payload \in Frames
        /\ queue[expected].payload \in Familiar
    <3>1. queue[expected] \in Packets /\ queue[expected].payload \in Familiar
      BY <2>2, AbsorbTypes
    <3> QED
      BY <3>1, AudioStreamAssumption DEF Packets
  <2>6. played' = Append(played, queue[expected].payload)
    BY <2>4, <2>5 DEF PopAndForward
  <2>7. /\ played \in Seq(Frames) /\ Len(played) \in Nat /\ pos \in Nat
        /\ Start \in 0 .. pos - 1 /\ Front \in Start .. pos /\ Front = Start + Len(played)
        /\ expected = Front % SeqMod
    BY <2>1, AbsorbTypes DEF Absorbing, Contiguous, Front
  <2>8. /\ Len(played') = Len(played) + 1
        /\ \A i \in 1 .. Len(played) : played'[i] = played[i]
        /\ played'[Len(played) + 1] = queue[expected].payload
        /\ played' # << >> /\ (played = << >> <=> Len(played) = 0)
    BY <2>5, <2>6, <2>7
  <2>9. Start' = Start /\ Front' = Front + 1
    <3>1. CASE played = << >>
      <4>1. Start = Front
        BY <2>7, <2>8, <3>1
      <4>2. Start' = queue[expected].payload.pos
        BY <2>8, <3>1 DEF Start
      <4> QED
        BY <2>2, <2>7, <2>8, <4>1, <4>2 DEF Front
    <3>2. CASE played # << >>
      <4>1. 1 \in 1 .. Len(played)
        BY <2>7, <2>8, <3>2
      <4>2. Start' = Start
        BY <2>8, <3>2, <4>1 DEF Start
      <4> QED
        BY <2>7, <2>8, <4>2 DEF Front
    <3> QED
      BY <3>1, <3>2
  <2>10. Familiar' = Familiar
    <3>1. BufferedFrames = BufferedFrames' \cup {queue[expected].payload}
      BY <2>2, <2>4 DEF BufferedFrames
    <3>2. PlayedFrames' = PlayedFrames \cup {queue[expected].payload}
      BY <2>5, <2>6, <2>7 DEF PlayedFrames
    <3> QED
      BY <1>1, <3>1, <3>2 DEF Familiar
  <2>11. Front < pos /\ expected' = (Front + 1) % SeqMod /\ Front + 1 # None /\ expected' # None
    <3>1. Front \in 0 .. pos - 1
      BY <2>2, AbsorbTypes
    <3>2. (Front + 1) % SeqMod \in 0 .. SeqMod - 1
      <4>1. Front + 1 \in Nat
        BY <3>1
      <4> QED
        BY <4>1, NumbersNear
    <3>3. expected' = (Front + 1) % SeqMod
      BY <2>4, <2>7, <3>1, NumbersNear
    <3>4. None \notin Int /\ SeqMod \in Nat
      BY CoveredFacts
    <3>5. Front + 1 # None /\ (Front + 1) % SeqMod # None
      BY <3>1, <3>2, <3>4
    <3> QED
      BY <2>7, <3>1, <3>3, <3>5
  <2>12. Numbered'
    BY <1>1, <2>4 DEF Absorbing, Numbered
  <2>13. Placed'
    BY <1>1, <2>10 DEF Absorbing, Placed
  <2>14. Near'
    <3> SUFFICES ASSUME NEW q \in net
                 PROVE  /\ \A f \in Familiar : f.pos <= q.payload.pos + MaxReorder
                        /\ Front + 1 <= q.payload.pos + MaxReorder + 1
      BY <1>1, <2>9, <2>10 DEF Near
    <3>1. \A f \in Familiar : f.pos <= q.payload.pos + MaxReorder
      BY DEF Absorbing, Near
    <3>2. Front <= q.payload.pos + MaxReorder /\ q.payload.pos \in Nat /\ MaxReorder \in Nat
      BY <2>2, <2>5, <3>1, AbsorbTypes, CoveredFacts
    <3> QED
      BY <2>7, <3>1, <3>2
  <2>15. Contiguous'
    <3>1. ASSUME NEW i \in 1 .. Len(played')
          PROVE  played'[i].pos = Start + i - 1
      <4>1. CASE i \in 1 .. Len(played)
        BY <2>1, <2>8, <4>1 DEF Absorbing, Contiguous
      <4>2. CASE i = Len(played) + 1
        BY <2>2, <2>7, <2>8, <4>2
      <4> QED
        BY <2>7, <2>8, <4>1, <4>2
    <3>2. ASSUME NEW s \in DOMAIN queue'
          PROVE  queue'[s].payload.pos >= Front + 1
      <4>1. s \in DOMAIN queue /\ s # expected /\ queue'[s] = queue[s]
        BY <2>4
      <4>2. /\ queue[s].payload.pos \in Nat /\ queue[s].payload.pos >= Front
            /\ s = queue[s].payload.pos % SeqMod
        BY <2>1, <4>1, AbsorbTypes DEF Absorbing, Contiguous, Numbered
      <4>3. queue[s].payload.pos # Front
        BY <2>7, <4>1, <4>2
      <4> QED
        BY <2>7, <4>1, <4>2, <4>3
    <3>3. \A d \in discarded : d.pos < Start
      BY <2>1 DEF Absorbing, Contiguous
    <3>4. Start \in 0 .. pos - 1 /\ Front + 1 \in Start .. pos
      BY <2>7, <2>11
    <3> QED
      BY <1>1, <2>9, <2>11, <3>1, <3>2, <3>3, <3>4 DEF Contiguous
  <2>16. Filling'
    <3>1. JB!Depth(queue') = JB!Depth(queue) - 1
      <4>1. \A S : JB!Cardinality(S) = Cardinality(S)
        BY DEF JB!Cardinality, Cardinality
      <4> QED
        BY <2>1, <2>2, <2>4, <4>1, FS_RemoveElement DEF JB!Depth
    <3> QED
      BY <1>1, <1>3, <2>1, <2>4, <2>9, <3>1 DEF Absorbing, Filling
  <2> QED
    BY <2>12, <2>13, <2>14, <2>15, <2>16 DEF Absorbing
<1> QED
  BY <1>2, <1>3

(* All of this until the sender is restarted.                               *)
AbsorbInv == epoch = 0 => Absorbing

LEMMA InitAbsorbs == ASSUME Covered, Init PROVE Absorbing
<1>1. /\ pos = 0 /\ sequenceNumber = 0 /\ net = {} /\ lostFrames = {} /\ played = << >> /\ discarded = {}
      /\ DOMAIN queue = {} /\ expected = None /\ lost = 0 /\ ~isPlaying
  BY DEF Init, JB!Init, JB!EmptyQueue
<1>2. Familiar = {} /\ InFlightFrames = {}
  BY <1>1 DEF Familiar, BufferedFrames, PlayedFrames, InFlightFrames
<1>3. 0 % SeqMod = 0 /\ TargetFrames > 0
  BY CoveredFacts
<1>4. JB!Depth(queue) = 0
  <2>1. JB!Depth(queue) = Cardinality(DOMAIN queue)
    BY DEF JB!Depth, JB!Cardinality, Cardinality
  <2> QED
    BY <1>1, <2>1, FS_EmptySet
<1> QED
  BY <1>1, <1>2, <1>3, <1>4 DEF Absorbing, Numbered, Placed, Near, Contiguous, Filling

LEMMA AbsorbInvariance ==
  ASSUME Covered
  PROVE  Spec => [](StreamInv /\ AbsorbInv)
<1>1. Init => AbsorbInv
  BY InitAbsorbs DEF AbsorbInv
<1>2. StreamInv /\ StreamInv' /\ AbsorbInv /\ [Next]_vars => AbsorbInv'
  <2> SUFFICES ASSUME StreamInv, StreamInv', epoch = 0 => Absorbing, [Next]_vars, epoch' = 0
               PROVE  Absorbing'
    BY DEF AbsorbInv
  <2>1. CASE RestartSender
    BY <2>1 DEF RestartSender, StreamInv, StreamTypes
  <2>2. CASE Send \/ SendFails
    BY <2>2, AdvanceAbsorbs DEF Send, SendFails, Advance
  <2>3. ASSUME NEW p \in net, Lose(p) \/ Deliver(p) \/ Duplicate(p)
        PROVE  Absorbing'
    <3>1. epoch = 0 /\ Absorbing
      BY <2>3 DEF Lose, Deliver, Duplicate, Receive, senderVars
    <3>2. ~Lose(p) /\ ~Duplicate(p)
      BY <3>1, FS_EmptySet, AbsorbTypes DEF Lose, Duplicate, Absorbing, Placed, Covered
    <3>3. Deliver(p)
      BY <2>3, <3>2
    <3> QED
      BY <3>1, <3>3, LateAbsorbs, StoredAbsorbs DEF Deliver, Receive
  <2>4. CASE PopAndForward
    <3>1. epoch = 0
      BY <2>4 DEF PopAndForward, senderVars
    <3> QED
      BY <2>4, <3>1, PopAbsorbs
  <2>5. CASE UNCHANGED vars
    <3>1. /\ UNCHANGED <<epoch, pos, sequenceNumber, net, lostFrames, queue, expected, isPlaying, lost,
                         phase, played, discarded>>
      BY <2>5 DEF vars, senderVars, netVars, receiverVars, histories
    <3>2. UNCHANGED <<Familiar, InFlightFrames, Start, Front>>
      BY <3>1 DEF Familiar, BufferedFrames, PlayedFrames, InFlightFrames, Start, Front
    <3> QED
      BY <3>1, <3>2 DEF Absorbing, Numbered, Placed, Near, Contiguous, Filling
  <2> QED
    BY <2>1, <2>2, <2>3, <2>4, <2>5 DEF Next, SenderNext, NetworkNext
<1> QED
  BY <1>1, <1>2, StreamInvariance, PTL DEF Spec

(* Reordering that the target delay covers is absorbed, at every position   *)
(* of a stream that wraps around the sequence space.                        *)
THEOREM ReorderIsAbsorbed == ASSUME Covered PROVE Spec => []ReorderAbsorbed
<1>1. StreamInv /\ AbsorbInv => ReorderAbsorbed
  <2> SUFFICES ASSUME StreamInv, Absorbing
               PROVE  /\ lost = 0
                      /\ \A d \in discarded, f \in BufferedFrames \cup PlayedFrames : Earlier(d, f)
    BY DEF ReorderAbsorbed, AbsorbInv
  <2>1. ASSUME NEW d \in discarded, NEW f \in BufferedFrames \cup PlayedFrames
        PROVE  Earlier(d, f)
    <3>1. d \in Familiar /\ f \in Familiar
      BY DEF Familiar
    <3>2. d = At(d.pos) /\ f = At(f.pos) /\ d.pos \in Nat /\ f.pos \in Nat
      BY <3>1 DEF Absorbing, Placed
    <3>3. d.epoch = 0 /\ f.epoch = 0
      <4>1. \A y : At(y).epoch = 0
        BY DEF At
      <4> QED
        BY <3>2, <4>1
    <3>4. expected # None
      BY <3>1 DEF Absorbing, Contiguous
    <3>5. d.pos < Start /\ Start \in Nat /\ Front >= Start /\ Front \in Nat
      BY <3>4 DEF Absorbing, Contiguous
    <3>6. f.pos >= Start
      <4>1. CASE f \in BufferedFrames
        BY <3>2, <3>4, <3>5, <4>1 DEF Absorbing, Contiguous, BufferedFrames
      <4>2. CASE f \in PlayedFrames
        BY <3>4, <3>5, <4>2 DEF Absorbing, Contiguous, PlayedFrames
      <4> QED
        BY <4>1, <4>2
    <3> QED
      BY <3>2, <3>3, <3>5, <3>6 DEF Earlier
  <2> QED
    BY <2>1 DEF Absorbing, Filling
<1> QED
  BY <1>1, AbsorbInvariance, PTL
=============================================================================
