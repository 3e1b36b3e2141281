------------------------ MODULE PlaybackPipeline_proofs ------------------------
(***************************************************************************)
(* Theorems about the way from the jitter buffer to the loudspeaker, for   *)
(* every capacity, frame and callback size and number of frames.           *)
(***************************************************************************)
EXTENDS PlaybackPipeline, DataLemmas

LEMMA FlattenIs == \A ss : FlattenSeq(ss) = Flatten(ss)
BY DEF FlattenSeq, Flatten

Pieces == (1 .. MaxFrames) \X (1 .. SamplesPerFrame)

LEMMA Associative == \A a, b, c \in Seq(Pieces) : (a \o b) \o c = a \o (b \o c)
<1> TAKE a \in Seq(Pieces), b \in Seq(Pieces), c \in Seq(Pieces)
<1> QED
  BY ConcatAssociative

(* The frames the feeder has taken and that decode.                         *)
Decoded == Accepted \ (undecodable \cup Range(jbChan))

PipelineTypes ==
  /\ released \in 0 .. MaxFrames
  /\ jbChan \in Seq(1 .. released) /\ Len(jbChan) <= JbCapacity
  /\ dropped \subseteq 1 .. released /\ undecodable \subseteq 1 .. released
  /\ feeder \in {"recv", "send"} /\ (feeder = "send" <=> samples # << >>)
  /\ samples \in Seq(Pieces)
  /\ audioChan \in Seq(Seq(Pieces)) /\ Len(audioChan) <= PlaybackCapacity
  /\ playoutBuf \in Seq(Pieces) /\ heard \in Seq(Pieces)
  /\ running \in BOOLEAN

(* The async channel holds accepted frames in order, which follow every one *)
(* the feeder has taken.                                                    *)
FramesInOrder ==
  /\ \A i, j \in DOMAIN jbChan : i < j => jbChan[i] < jbChan[j]
  /\ \A i \in DOMAIN jbChan : /\ jbChan[i] \notin dropped \cup undecodable
                              /\ \A f \in Decoded : f < jbChan[i]

(* From the feeder on, everything is the sound of the frames taken.         *)
SoundSoFar ==
  heard \o playoutBuf \o FlattenSeq(audioChan) \o samples = Sound(Decoded)

PipelineInv == PipelineTypes /\ FramesInOrder /\ SoundSoFar

-----------------------------------------------------------------------------
(* The parts of a sound.                                                    *)
Parts(frames) == [f \in 1 .. MaxFrames |-> IF f \in frames THEN Samples(f) ELSE << >>]

LEMMA SamplesType == \A f \in 1 .. MaxFrames : Samples(f) \in Seq(Pieces) /\ Samples(f) # << >>
BY PlaybackPipelineAssumption DEF Samples, Pieces

LEMMA PartsType ==
  ASSUME NEW frames
  PROVE  /\ Parts(frames) \in Seq(Seq(Pieces))
         /\ Len(Parts(frames)) = MaxFrames /\ MaxFrames \in Nat
         /\ Sound(frames) = Flatten(Parts(frames))
<1>1. MaxFrames \in Nat
  BY PlaybackPipelineAssumption
<1>2. Parts(frames) \in [1 .. MaxFrames -> Seq(Pieces)]
  BY SamplesType, EmptySeq DEF Parts
<1>3. Sound(frames) = Flatten(Parts(frames))
  BY FlattenIs DEF Sound, Parts
<1> HIDE DEF Parts
<1> QED
  BY <1>1, <1>2, <1>3

LEMMA SoundType ==
  ASSUME NEW frames
  PROVE  Sound(frames) \in Seq(Pieces)
BY PartsType, FlattenType

LEMMA NoSound == Sound({}) = << >>
<1>1. /\ Parts({}) \in Seq(Seq(Pieces)) /\ Len(Parts({})) = MaxFrames /\ MaxFrames \in Nat
      /\ Sound({}) = Flatten(Parts({}))
  BY PartsType
<1>2. PICK f \in [0 .. MaxFrames -> Seq(Pieces)] :
         Steps(f, Parts({}), MaxFrames) /\ Flatten(Parts({})) = f[MaxFrames]
  BY <1>1, FlattenSteps
<1>3. EmptyAfter(Parts({}), 0, MaxFrames)
  BY DEF Parts, EmptyAfter
<1>4. 0 \in 0 .. MaxFrames
  BY <1>1
<1>5. f[MaxFrames] = f[0]
  BY <1>1, <1>2, <1>3, <1>4, TrailingSteps
<1> QED
  BY <1>1, <1>2, <1>5 DEF Steps

(* A frame that follows all others sounds last.                             *)
LEMMA SoundExtends ==
  ASSUME NEW frames, NEW n \in 1 .. MaxFrames, frames \subseteq 1 .. MaxFrames,
         \A f \in frames : f < n
  PROVE  Sound(frames \cup {n}) = Sound(frames) \o Samples(n)
<1> DEFINE more == frames \cup {n}
           A == Parts(frames)
           B == Parts(more)
           N == MaxFrames
<1>1. /\ A \in Seq(Seq(Pieces)) /\ Len(A) = N /\ Sound(frames) = Flatten(A)
      /\ B \in Seq(Seq(Pieces)) /\ Len(B) = N /\ Sound(more) = Flatten(B)
      /\ N \in Nat /\ n \in Nat /\ n \in 1 .. N
  BY PartsType
<1>2. /\ \A i \in 1 .. n - 1 : A[i] = B[i]
      /\ A[n] = << >> /\ B[n] = Samples(n)
      /\ EmptyAfter(A, n, N) /\ EmptyAfter(B, n, N)
  <2>1. \A i \in 1 .. N : /\ A[i] = IF i \in frames THEN Samples(i) ELSE << >>
                          /\ B[i] = IF i \in more THEN Samples(i) ELSE << >>
    BY DEF Parts
  <2>2. n \notin frames /\ \A i \in n + 1 .. N : i \notin frames /\ i \notin more
    BY <1>1
  <2>3. \A i \in 1 .. n - 1 : i \in 1 .. N /\ (i \in more <=> i \in frames)
    BY <1>1
  <2>4. \A i \in n + 1 .. N : i \in 1 .. N
    BY <1>1
  <2> HIDE DEF A, B
  <2> QED
    BY <1>1, <2>1, <2>2, <2>3, <2>4 DEF EmptyAfter
<1> HIDE DEF A, B
<1>3. PICK a \in [0 .. N -> Seq(Pieces)] : Steps(a, A, N) /\ Flatten(A) = a[N]
  BY <1>1, FlattenSteps
<1>4. PICK b \in [0 .. N -> Seq(Pieces)] : Steps(b, B, N) /\ Flatten(B) = b[N]
  BY <1>1, FlattenSteps
<1>5. a[n - 1] = b[n - 1]
  <2>1. n - 1 \in Nat /\ \A i \in 1 .. n - 1 : i \in 1 .. N
    BY <1>1
  <2>2. Steps(a, A, n - 1) /\ Steps(b, B, n - 1)
    BY ONLY <1>3, <1>4, <2>1, Zenon DEF Steps
  <2> QED
    BY <1>2, <2>1, <2>2, SameSteps
<1>6. a[n] = a[n - 1] /\ b[n] = b[n - 1] \o Samples(n)
  <2>1. a[n] = a[n - 1] \o A[n] /\ b[n] = b[n - 1] \o B[n]
    BY <1>1, <1>3, <1>4 DEF Steps
  <2>2. a[n - 1] \in Seq(Pieces)
    BY <1>1
  <2>3. a[n - 1] \o << >> = a[n - 1]
    BY <2>2, ConcatEmptySeq
  <2> QED
    BY <1>2, <2>1, <2>3
<1>7. a[N] = a[n] /\ b[N] = b[n]
  <2>1. n \in 0 .. N
    BY <1>1
  <2>2. a[N] = a[n]
    BY <1>1, <1>2, <1>3, <2>1, TrailingSteps
  <2>3. b[N] = b[n]
    BY <1>1, <1>2, <1>4, <2>1, TrailingSteps
  <2> QED
    BY <2>2, <2>3
<1> QED
  BY <1>1, <1>3, <1>4, <1>5, <1>6, <1>7

-----------------------------------------------------------------------------
(* Frames that follow, in order, sound one after the other.                 *)
Ascending(frames, q) ==
  /\ q \in Seq(1 .. MaxFrames) /\ frames \subseteq 1 .. MaxFrames
  /\ \A i, j \in DOMAIN q : i < j => q[i] < q[j]
  /\ \A i \in DOMAIN q : \A f \in frames : f < q[i]

LEMMA SoundOfQueue ==
  ASSUME NEW frames, NEW q, Ascending(frames, q)
  PROVE  Sound(frames \cup Range(q))
           = Sound(frames) \o Flatten([i \in DOMAIN q |-> Samples(q[i])])
<1> DEFINE S == [i \in DOMAIN q |-> Samples(q[i])]
           n == Len(q)
           upTo(k) == frames \cup {q[i] : i \in 1 .. k}
<1>1. n \in Nat /\ DOMAIN q = 1 .. n /\ \A i \in 1 .. n : q[i] \in 1 .. MaxFrames
  <2>1. q \in Seq(1 .. MaxFrames)
    BY DEF Ascending
  <2> HIDE DEF S, upTo
  <2> QED
    BY <2>1, LenProperties
<1>2. S \in Seq(Seq(Pieces)) /\ Len(S) = n /\ \A i \in 1 .. n : S[i] = Samples(q[i])
  <2>1. S \in [1 .. n -> Seq(Pieces)]
    BY <1>1, SamplesType
  <2>2. \A i \in 1 .. n : S[i] = Samples(q[i])
    BY <1>1
  <2> HIDE DEF S
  <2> QED
    BY <1>1, <2>1, <2>2
<1> HIDE DEF S
<1>3. PICK s \in [0 .. n -> Seq(Pieces)] : Steps(s, S, n) /\ Flatten(S) = s[n]
  BY <1>2, FlattenSteps
<1> DEFINE P(k) == k <= n => Sound(upTo(k)) = Sound(frames) \o s[k]
           T == {k \in Nat : P(k)}
<1>4. P(0)
  <2>1. upTo(0) = frames
    OBVIOUS
  <2>2. Sound(frames) \o << >> = Sound(frames)
    BY SoundType, ConcatEmptySeq
  <2> HIDE DEF upTo
  <2> QED
    BY <1>3, <2>1, <2>2 DEF Steps
<1>5. ASSUME NEW k \in Nat, P(k)
      PROVE  P(k + 1)
  <2> SUFFICES ASSUME k + 1 <= n
               PROVE  Sound(upTo(k + 1)) = Sound(frames) \o s[k + 1]
    OBVIOUS
  <2>1. /\ k + 1 \in 1 .. n /\ (k + 1) - 1 = k /\ k \in 0 .. n
        /\ \A i \in 1 .. k : i \in 1 .. n /\ i < k + 1
    BY <1>1
  <2>2. /\ upTo(k) \subseteq 1 .. MaxFrames
        /\ \A f \in upTo(k) : f < q[k + 1]
        /\ q[k + 1] \in 1 .. MaxFrames
    BY <1>1, <2>1 DEF Ascending
  <2>3. upTo(k + 1) = upTo(k) \cup {q[k + 1]}
    <3>1. \A i \in 1 .. k + 1 : i \in 1 .. k \/ i = k + 1
      OBVIOUS
    <3>2. \A i \in 1 .. k : i \in 1 .. k + 1
      OBVIOUS
    <3>3. k + 1 \in 1 .. k + 1
      OBVIOUS
    <3> QED
      BY <3>1, <3>2, <3>3
  <2> HIDE DEF upTo
  <2>4. Sound(upTo(k)) = Sound(frames) \o s[k]
    <3>1. k <= n
      BY <1>1, <2>1
    <3> QED
      BY <1>5, <3>1
  <2>5. Sound(upTo(k) \cup {q[k + 1]}) = Sound(upTo(k)) \o Samples(q[k + 1])
    BY <2>2, SoundExtends
  <2>6. s[k + 1] = s[k] \o Samples(q[k + 1])
    BY <1>2, <1>3, <2>1 DEF Steps
  <2> DEFINE a == Sound(frames)
             b == s[k]
             c == Samples(q[k + 1])
  <2>7. (a \o b) \o c = a \o (b \o c)
    <3>1. a \in Seq(Pieces) /\ b \in Seq(Pieces) /\ c \in Seq(Pieces)
      BY <2>1, <2>2, SoundType, SamplesType
    <3> HIDE DEF a, b, c
    <3> QED
      BY ONLY <3>1, ConcatAssociative
  <2> QED
    BY <2>3, <2>4, <2>5, <2>6, <2>7
<1> HIDE DEF P
<1>6. 0 \in T /\ \A k \in Nat : k \in T => k + 1 \in T
  BY <1>4, <1>5
<1>7. P(n)
  <2> HIDE DEF T
  <2>1. n \in T
    BY <1>1, <1>6, Induction
  <2> QED
    BY <2>1 DEF T
<1>8. upTo(n) = frames \cup Range(q)
  BY <1>1 DEF Range
<1> HIDE DEF upTo
<1>9. Sound(upTo(n)) = Sound(frames) \o Flatten(S)
  <2>1. n <= n
    BY <1>1
  <2> QED
    BY <1>3, <1>7, <2>1 DEF P
<1> QED
  BY <1>8, <1>9 DEF S
-----------------------------------------------------------------------------
LEMMA InitPipeline == Init => PipelineInv
<1> SUFFICES ASSUME Init
             PROVE  PipelineInv
  OBVIOUS
<1> USE DEF Init
<1>1. PipelineTypes
  <2>1. /\ << >> \in Seq(1 .. 0) /\ << >> \in Seq(Pieces) /\ << >> \in Seq(Seq(Pieces))
        /\ Len(<< >>) = 0
    BY EmptySeq
  <2> QED
    BY <2>1, PlaybackPipelineAssumption DEF PipelineTypes
<1>2. Decoded = {}
  BY DEF Decoded, Accepted
<1>3. FramesInOrder
  BY <1>2 DEF FramesInOrder
<1>4. SoundSoFar
  <2>1. FlattenSeq(<< >>) = << >>
    BY FlattenIs, FlattenEmpty
  <2>2. << >> \o << >> \o << >> \o << >> = << >>
    <3>1. << >> \in Seq(Pieces)
      BY EmptySeq
    <3>2. << >> \o << >> = << >>
      BY <3>1, ConcatEmptySeq
    <3> QED
      BY <3>2
  <2> QED
    BY <1>2, <2>1, <2>2, NoSound DEF SoundSoFar
<1> QED
  BY <1>1, <1>3, <1>4 DEF PipelineInv

(* What a step leaves alone.                                                *)
LEMMA SameFrames ==
  ASSUME FramesInOrder, UNCHANGED <<receptionVars, undecodable>>
  PROVE  FramesInOrder' /\ Decoded' = Decoded
<1>1. UNCHANGED <<released, jbChan, dropped, undecodable>>
  BY DEF receptionVars
<1>2. Decoded' = Decoded
  BY <1>1 DEF Decoded, Accepted
<1> QED
  BY <1>1, <1>2 DEF FramesInOrder

(* The channel's frames, and what becomes of them when one is added.        *)
LEMMA ForwardInv == PipelineInv /\ Forward => PipelineInv'
<1> SUFFICES ASSUME PipelineInv, Forward
             PROVE  PipelineInv'
  OBVIOUS
<1> DEFINE n == released + 1
<1>1. /\ released < MaxFrames /\ released' = n
      /\ UNCHANGED <<feeder, samples, undecodable, audioChan, playoutBuf, running, heard>>
  BY DEF Forward, feederVars, callbackVars
<1>2. /\ released \in Nat /\ n \in Nat /\ MaxFrames \in Nat /\ n <= MaxFrames
      /\ 1 .. n = (1 .. released) \cup {n} /\ n \notin 1 .. released
      /\ jbChan \in Seq(1 .. released) /\ JbCapacity \in Nat
      /\ dropped \subseteq 1 .. released /\ undecodable \subseteq 1 .. released
  <2>1. /\ released \in 0 .. MaxFrames /\ jbChan \in Seq(1 .. released)
        /\ dropped \subseteq 1 .. released /\ undecodable \subseteq 1 .. released
        /\ MaxFrames \in Nat /\ JbCapacity \in Nat
    BY PlaybackPipelineAssumption DEF PipelineInv, PipelineTypes
  <2>2. released \in Nat /\ n \in Nat /\ n <= MaxFrames
    BY <1>1, <2>1
  <2>3. 1 .. n = (1 .. released) \cup {n} /\ n \notin 1 .. released
    BY <2>2
  <2> QED
    BY <2>1, <2>2, <2>3
<1>3. Range(jbChan) \subseteq 1 .. released /\ DOMAIN jbChan = 1 .. Len(jbChan) /\ Len(jbChan) \in Nat
  BY <1>2, LenProperties DEF Range
<1>4. CASE Len(jbChan) < JbCapacity /\ jbChan' = Append(jbChan, n) /\ UNCHANGED dropped
  <2>1. jbChan \in Seq(1 .. n)
    BY <1>2, SeqMonotonic
  <2>2. /\ jbChan' \in Seq(1 .. n) /\ Len(jbChan') = Len(jbChan) + 1
        /\ \A i \in 1 .. Len(jbChan) : jbChan'[i] = jbChan[i]
        /\ jbChan'[Len(jbChan) + 1] = n /\ DOMAIN jbChan' = 1 .. Len(jbChan) + 1
    <3>1. n \in 1 .. n
      BY <1>2
    <3> QED
      BY <1>4, <2>1, <3>1, AppendProperties, LenProperties
  <2>3. Range(jbChan') = Range(jbChan) \cup {n}
    <3>1. \A i \in 1 .. Len(jbChan) + 1 : i \in 1 .. Len(jbChan) \/ i = Len(jbChan) + 1
      BY <1>3
    <3>2. Len(jbChan) + 1 \in 1 .. Len(jbChan) + 1 /\ \A i \in 1 .. Len(jbChan) : i \in 1 .. Len(jbChan) + 1
      BY <1>3
    <3>3. Range(jbChan') \subseteq Range(jbChan) \cup {n}
      BY <1>3, <2>2, <3>1 DEF Range
    <3>4. Range(jbChan) \subseteq Range(jbChan')
      BY <1>3, <2>2, <3>2 DEF Range
    <3>5. n \in Range(jbChan')
      BY <2>2, <3>2 DEF Range
    <3> QED
      BY <3>3, <3>4, <3>5
  <2>4. Decoded' = Decoded
    BY <1>1, <1>2, <1>3, <1>4, <2>3 DEF Decoded, Accepted
  <2>5. FramesInOrder'
    <3>1. \A f \in Decoded : f \in 1 .. released
      BY DEF Decoded, Accepted
    <3>2. ASSUME NEW i \in DOMAIN jbChan'
          PROVE  /\ jbChan'[i] \notin dropped' \cup undecodable'
                 /\ \A f \in Decoded' : f < jbChan'[i]
      <4>1. CASE i \in 1 .. Len(jbChan)
        BY <1>1, <1>3, <1>4, <2>2, <2>4, <4>1 DEF PipelineInv, FramesInOrder
      <4>2. CASE i = Len(jbChan) + 1
        BY <1>1, <1>2, <1>4, <2>2, <2>4, <3>1, <4>2
      <4> QED
        BY <1>3, <2>2, <4>1, <4>2
    <3>3. ASSUME NEW i \in DOMAIN jbChan', NEW j \in DOMAIN jbChan', i < j
          PROVE  jbChan'[i] < jbChan'[j]
      <4>1. CASE j \in 1 .. Len(jbChan)
        BY <1>3, <2>2, <3>3, <4>1 DEF PipelineInv, FramesInOrder
      <4>2. CASE j = Len(jbChan) + 1
        <5>1. i \in 1 .. Len(jbChan)
          BY <1>3, <2>2, <3>3, <4>2
        <5>2. jbChan[i] \in 1 .. released
          BY <1>2, <5>1, ElementOfSeq
        <5> QED
          BY <1>2, <2>2, <4>2, <5>1, <5>2
      <4> QED
        BY <1>3, <2>2, <4>1, <4>2
    <3> QED
      BY <3>2, <3>3 DEF FramesInOrder
  <2>6. SoundSoFar'
    BY <1>1, <2>4 DEF PipelineInv, SoundSoFar, Sound
  <2>7. PipelineTypes'
    BY <1>1, <1>2, <1>3, <1>4, <2>2 DEF PipelineInv, PipelineTypes
  <2> QED
    BY <2>5, <2>6, <2>7 DEF PipelineInv
<1>5. CASE dropped' = dropped \cup {n} /\ UNCHANGED jbChan
  <2>1. Decoded' = Decoded
    BY <1>1, <1>2, <1>5 DEF Decoded, Accepted
  <2>2. FramesInOrder'
    BY <1>1, <1>2, <1>3, <1>5, <2>1 DEF PipelineInv, FramesInOrder, Range
  <2>3. SoundSoFar'
    BY <1>1, <2>1 DEF PipelineInv, SoundSoFar, Sound
  <2>4. jbChan \in Seq(1 .. n)
    BY <1>2, SeqMonotonic
  <2>5. PipelineTypes'
    BY <1>1, <1>2, <1>5, <2>4 DEF PipelineInv, PipelineTypes
  <2> QED
    BY <2>2, <2>3, <2>5 DEF PipelineInv
<1> QED
  BY <1>4, <1>5 DEF Forward

(* The feeder takes the oldest frame, which follows all it took before.     *)
LEMMA DecodeInv == PipelineInv /\ Decode => PipelineInv'
<1> SUFFICES ASSUME PipelineInv, Decode
             PROVE  PipelineInv'
  OBVIOUS
<1> DEFINE n == Head(jbChan)
           L == Len(jbChan)
<1>1. /\ feeder = "recv" /\ jbChan # << >> /\ jbChan' = Tail(jbChan)
      /\ UNCHANGED <<released, dropped, audioChan, playoutBuf, running, heard>>
  BY DEF Decode, callbackVars
<1>2. /\ released \in 0 .. MaxFrames /\ MaxFrames \in Nat /\ jbChan \in Seq(1 .. released)
      /\ dropped \subseteq 1 .. released /\ undecodable \subseteq 1 .. released
      /\ samples = << >> /\ L <= JbCapacity /\ JbCapacity \in Nat
  BY <1>1, PlaybackPipelineAssumption DEF PipelineInv, PipelineTypes
<1>3. /\ L \in Nat \ {0} /\ DOMAIN jbChan = 1 .. L /\ n = jbChan[1]
      /\ jbChan' \in Seq(1 .. released) /\ Len(jbChan') = L - 1 /\ DOMAIN jbChan' = 1 .. L - 1
      /\ \A i \in 1 .. L - 1 : jbChan'[i] = jbChan[i + 1]
      /\ n \in 1 .. released
  <2>1. L \in Nat \ {0} /\ DOMAIN jbChan = 1 .. L /\ n = jbChan[1] /\ n \in 1 .. released
    BY <1>1, <1>2, LenProperties, EmptySeq, HeadTailProperties
  <2>2. /\ jbChan' \in Seq(1 .. released) /\ Len(jbChan') = L - 1
        /\ \A i \in 1 .. L - 1 : jbChan'[i] = jbChan[i + 1]
    BY <1>1, <1>2, HeadTailProperties
  <2>3. DOMAIN jbChan' = 1 .. L - 1
    BY <2>2, LenProperties
  <2> QED
    BY <2>1, <2>2, <2>3
<1>4. \A i \in 1 .. L - 1 : i + 1 \in 1 .. L /\ i \in 1 .. L
  BY <1>3
<1>5. Range(jbChan) = Range(jbChan') \cup {n} /\ n \notin Range(jbChan')
  <2>1. \A i \in 1 .. L : i = 1 \/ (i - 1 \in 1 .. L - 1 /\ jbChan'[i - 1] = jbChan[i])
    BY <1>3
  <2>2. 1 \in 1 .. L
    BY <1>3
  <2>3. ASSUME NEW x \in Range(jbChan)
        PROVE  x \in Range(jbChan') \cup {n}
    <3>1. PICK i \in 1 .. L : x = jbChan[i]
      BY <1>3 DEF Range
    <3>2. CASE i = 1
      BY <1>3, <3>1, <3>2
    <3>3. CASE i - 1 \in 1 .. L - 1 /\ jbChan'[i - 1] = jbChan[i]
      BY <1>3, <3>1, <3>3 DEF Range
    <3> QED
      BY <2>1, <3>2, <3>3
  <2>4. Range(jbChan') \subseteq Range(jbChan)
    BY <1>3, <1>4 DEF Range
  <2>5. n \in Range(jbChan)
    BY <1>3, <2>2 DEF Range
  <2>6. ASSUME NEW i \in 1 .. L - 1
        PROVE  n < jbChan'[i]
    <3>1. 1 \in DOMAIN jbChan /\ i + 1 \in DOMAIN jbChan /\ 1 < i + 1
      BY <1>3, <1>4
    <3>2. jbChan[1] < jbChan[i + 1]
      BY <3>1 DEF PipelineInv, FramesInOrder
    <3> QED
      BY <1>3, <3>2
  <2>7. ~(n < n)
    BY <1>2, <1>3
  <2>8. n \notin Range(jbChan')
    BY <1>3, <2>6, <2>7 DEF Range
  <2> QED
    BY <2>3, <2>4, <2>5, <2>8
<1>6. n \notin dropped \cup undecodable /\ n \notin Decoded /\ \A f \in Decoded : f < n
  <2>1. 1 \in DOMAIN jbChan
    BY <1>3
  <2> QED
    BY <1>3, <1>5, <2>1 DEF PipelineInv, FramesInOrder, Decoded
<1>7. \A i \in DOMAIN jbChan' : /\ jbChan'[i] \notin dropped \cup undecodable
                                /\ n < jbChan'[i] /\ jbChan'[i] # n
                                /\ \A f \in Decoded : f < jbChan'[i]
  <2>1. ASSUME NEW i \in 1 .. L - 1
        PROVE  /\ jbChan[i + 1] \notin dropped \cup undecodable
               /\ n < jbChan[i + 1]
               /\ \A f \in Decoded : f < jbChan[i + 1]
    <3>1. 1 \in DOMAIN jbChan /\ i + 1 \in DOMAIN jbChan /\ 1 < i + 1
      BY <1>3, <1>4
    <3> QED
      BY <1>3, <3>1 DEF PipelineInv, FramesInOrder
  <2>2. ~(n < n)
    BY <1>2, <1>3
  <2> QED
    BY <1>3, <2>1, <2>2
<1>8. \A i, j \in DOMAIN jbChan' : i < j => jbChan'[i] < jbChan'[j]
  <2>1. ASSUME NEW i \in 1 .. L - 1, NEW j \in 1 .. L - 1, i < j
        PROVE  jbChan[i + 1] < jbChan[j + 1]
    <3>1. i + 1 \in DOMAIN jbChan /\ j + 1 \in DOMAIN jbChan /\ i + 1 < j + 1
      BY <1>3, <1>4, <2>1
    <3> QED
      BY <3>1 DEF PipelineInv, FramesInOrder
  <2> QED
    BY <1>3, <2>1
<1>9. n \in Accepted /\ n \in 1 .. MaxFrames /\ Decoded \subseteq 1 .. MaxFrames
  BY <1>2, <1>3, <1>6 DEF Accepted, Decoded
<1>10. heard \o playoutBuf \o FlattenSeq(audioChan) = Sound(Decoded)
  <2>1. playoutBuf \in Seq(Pieces) /\ heard \in Seq(Pieces) /\ audioChan \in Seq(Seq(Pieces))
    BY DEF PipelineInv, PipelineTypes
  <2>2. FlattenSeq(audioChan) \in Seq(Pieces)
    BY <2>1, FlattenType, FlattenIs
  <2>3. heard \o playoutBuf \o FlattenSeq(audioChan) \in Seq(Pieces)
    BY <2>1, <2>2, ConcatProperties
  <2>4. (heard \o playoutBuf \o FlattenSeq(audioChan)) \o << >>
          = heard \o playoutBuf \o FlattenSeq(audioChan)
    BY <2>3, ConcatEmptySeq
  <2> QED
    BY <1>2, <2>4 DEF PipelineInv, SoundSoFar
<1> HIDE DEF n, L
<1>11. CASE feeder' = "send" /\ samples' = Samples(n) /\ UNCHANGED undecodable
  <2>1. Decoded' = Decoded \cup {n}
    BY <1>1, <1>5, <1>6, <1>9, <1>11 DEF Decoded, Accepted
  <2>2. FramesInOrder'
    BY <1>1, <1>7, <1>8, <1>11, <2>1 DEF FramesInOrder
  <2>3. Sound(Decoded \cup {n}) = Sound(Decoded) \o Samples(n)
    BY <1>6, <1>9, SoundExtends
  <2>4. SoundSoFar'
    BY <1>1, <1>10, <1>11, <2>1, <2>3 DEF SoundSoFar, Sound
  <2>5. samples' \in Seq(Pieces) /\ samples' # << >>
    BY <1>9, <1>11, SamplesType
  <2>6. PipelineTypes'
    BY <1>1, <1>2, <1>3, <1>11, <2>5 DEF PipelineInv, PipelineTypes
  <2> QED
    BY <2>2, <2>4, <2>6 DEF PipelineInv
<1>12. CASE undecodable' = undecodable \cup {n} /\ UNCHANGED <<feeder, samples>>
  <2>1. Decoded' = Decoded
    BY <1>1, <1>5, <1>6, <1>9, <1>12 DEF Decoded, Accepted
  <2>2. FramesInOrder'
    BY <1>1, <1>7, <1>8, <1>12, <2>1 DEF FramesInOrder
  <2>3. SoundSoFar'
    BY <1>1, <1>12, <2>1 DEF PipelineInv, SoundSoFar, Sound
  <2>4. PipelineTypes'
    <3>1. undecodable' \subseteq 1 .. released
      BY <1>2, <1>3, <1>12
    <3>2. L - 1 <= JbCapacity
      BY <1>2, <1>3
    <3> QED
      BY <1>1, <1>3, <1>12, <3>1, <3>2 DEF PipelineInv, PipelineTypes
  <2> QED
    BY <2>2, <2>3, <2>4 DEF PipelineInv
<1> QED
  BY <1>11, <1>12 DEF Decode, n

-----------------------------------------------------------------------------
LEMMA PlayInv == PipelineInv /\ Play => PipelineInv'
<1> SUFFICES ASSUME PipelineInv, Play
             PROVE  PipelineInv'
  OBVIOUS
<1>1. /\ feeder = "send" /\ Len(audioChan) < PlaybackCapacity
      /\ audioChan' = Append(audioChan, samples)
      /\ feeder' = "recv" /\ samples' = << >>
      /\ UNCHANGED <<receptionVars, released, jbChan, dropped, undecodable, playoutBuf, running, heard>>
  BY DEF Play, receptionVars, callbackVars
<1>2. /\ heard \in Seq(Pieces) /\ playoutBuf \in Seq(Pieces)
      /\ audioChan \in Seq(Seq(Pieces)) /\ samples \in Seq(Pieces)
      /\ PlaybackCapacity \in Nat /\ Len(audioChan) \in Nat
  BY PlaybackPipelineAssumption, LenProperties DEF PipelineInv, PipelineTypes
<1>3. FramesInOrder' /\ Decoded' = Decoded
  BY <1>1, SameFrames DEF PipelineInv
<1>4. SoundSoFar'
  <2> DEFINE hb == heard \o playoutBuf
             F == FlattenSeq(audioChan)
             all == hb \o (F \o samples)
  <2>1. hb \in Seq(Pieces) /\ F \in Seq(Pieces)
    BY <1>2, ConcatProperties, FlattenType, FlattenIs
  <2>2. FlattenSeq(audioChan') = F \o samples
    BY <1>1, <1>2, FlattenAppend, FlattenIs
  <2>3. (hb \o F) \o samples = Sound(Decoded)
    BY DEF PipelineInv, SoundSoFar
  <2> HIDE DEF hb, F
  <2>4. all = (hb \o F) \o samples
    BY ONLY <1>2, <2>1, Associative, Zenon
  <2>5. all \in Seq(Pieces)
    BY ONLY <1>2, <2>1, ConcatProperties
  <2>6. all \o << >> = all
    BY <2>5, ConcatEmptySeq
  <2> QED
    BY <1>1, <1>3, <2>2, <2>3, <2>4, <2>6 DEF SoundSoFar, Sound, hb
<1>5. PipelineTypes'
  <2>1. audioChan' \in Seq(Seq(Pieces)) /\ Len(audioChan') = Len(audioChan) + 1
    BY <1>1, <1>2, AppendProperties
  <2>2. samples' \in Seq(Pieces)
    BY <1>1, EmptySeq
  <2> QED
    BY <1>1, <1>2, <2>1, <2>2 DEF PipelineInv, PipelineTypes
<1> QED
  BY <1>3, <1>4, <1>5 DEF PipelineInv

LEMMA PullInv == PipelineInv /\ Pull => PipelineInv'
<1> SUFFICES ASSUME PipelineInv, Pull
             PROVE  PipelineInv'
  OBVIOUS
<1>1. /\ audioChan # << >> /\ audioChan' = Tail(audioChan)
      /\ playoutBuf' = playoutBuf \o Head(audioChan)
      /\ UNCHANGED <<receptionVars, released, jbChan, dropped, undecodable, feeder, samples, running, heard>>
  BY DEF Pull, receptionVars, feederVars
<1>2. /\ heard \in Seq(Pieces) /\ playoutBuf \in Seq(Pieces)
      /\ audioChan \in Seq(Seq(Pieces)) /\ samples \in Seq(Pieces)
      /\ PlaybackCapacity \in Nat /\ Len(audioChan) \in Nat
      /\ Len(audioChan) <= PlaybackCapacity
  BY PlaybackPipelineAssumption, LenProperties DEF PipelineInv, PipelineTypes
<1>3. FramesInOrder' /\ Decoded' = Decoded
  BY <1>1, SameFrames DEF PipelineInv
<1>4. /\ Head(audioChan) \in Seq(Pieces) /\ audioChan' \in Seq(Seq(Pieces))
      /\ Len(audioChan') = Len(audioChan) - 1
  BY <1>1, <1>2, HeadTailProperties
<1>5. SoundSoFar'
  <2> DEFINE H == Head(audioChan)
             F == FlattenSeq(audioChan')
  <2>1. H \in Seq(Pieces) /\ F \in Seq(Pieces)
    BY <1>4, FlattenType, FlattenIs
  <2>2. FlattenSeq(audioChan) = H \o F
    BY <1>1, <1>2, FlattenHead, FlattenIs
  <2> HIDE DEF H, F
  <2> DEFINE h == heard
             b == playoutBuf
  <2>3. h \in Seq(Pieces) /\ b \in Seq(Pieces)
    BY <1>2
  <2> HIDE DEF h, b
  <2>4. h \o (b \o H) = (h \o b) \o H
    BY ONLY <2>1, <2>3, Associative, Zenon
  <2>5. h \o b \in Seq(Pieces)
    BY ONLY <2>3, ConcatProperties
  <2>6. ((h \o b) \o H) \o F = (h \o b) \o (H \o F)
    BY ONLY <2>1, <2>5, Associative, Zenon
  <2>7. ((h \o b) \o (H \o F)) \o samples = Sound(Decoded)
    BY <2>2 DEF PipelineInv, SoundSoFar, h, b
  <2>8. heard' \o playoutBuf' = h \o (b \o H)
    BY <1>1 DEF h, b, H
  <2> QED
    BY <1>1, <1>3, <2>4, <2>6, <2>7, <2>8 DEF SoundSoFar, Sound, F
<1>6. PipelineTypes'
  <2>1. playoutBuf' \in Seq(Pieces)
    BY <1>1, <1>2, <1>4, ConcatProperties
  <2> QED
    BY <1>1, <1>2, <1>4, <2>1 DEF PipelineInv, PipelineTypes
<1> QED
  BY <1>3, <1>5, <1>6 DEF PipelineInv

(* The callback moves a prefix of its buffer to the output.                 *)
LEMMA OutputInv ==
  ASSUME PipelineInv, heard' \in Seq(Pieces), playoutBuf' \in Seq(Pieces),
         heard' \o playoutBuf' = heard \o playoutBuf,
         UNCHANGED <<receptionVars, feederVars, audioChan>>, running' \in BOOLEAN
  PROVE  PipelineInv'
<1>1. UNCHANGED <<released, jbChan, dropped, feeder, samples, undecodable>>
  BY DEF receptionVars, feederVars
<1>2. FramesInOrder' /\ Decoded' = Decoded
  BY <1>1, SameFrames DEF PipelineInv
<1>3. SoundSoFar'
  BY <1>1, <1>2 DEF PipelineInv, SoundSoFar, Sound
<1>4. PipelineTypes'
  BY <1>1 DEF PipelineInv, PipelineTypes
<1> QED
  BY <1>2, <1>3, <1>4 DEF PipelineInv

LEMMA CallbackInv == PipelineInv /\ Callback => PipelineInv'
<1> SUFFICES ASSUME PipelineInv, Callback
             PROVE  PipelineInv'
  OBVIOUS
<1>1. /\ heard \in Seq(Pieces) /\ playoutBuf \in Seq(Pieces) /\ running \in BOOLEAN
      /\ Len(playoutBuf) \in Nat
  BY LenProperties DEF PipelineInv, PipelineTypes
<1>2. CASE Pull
  BY <1>2, PullInv
<1>3. ASSUME NEW n \in CallbackSizes, Fill(n)
      PROVE  PipelineInv'
  <2> DEFINE b == playoutBuf
             first == SubSeq(b, 1, n)
             rest == SubSeq(b, n + 1, Len(b))
  <2>1. n \in Nat \ {0} /\ n <= Len(b)
    BY <1>1, <1>3, PlaybackPipelineAssumption DEF Fill
  <2>2. first \o rest = b /\ first \in Seq(Pieces) /\ rest \in Seq(Pieces)
    <3>1. SubSeq(b, 1, n) \o SubSeq(b, n + 1, Len(b)) = SubSeq(b, 1, Len(b))
      <4>1. 1 \in 1 .. Len(b) + 1 /\ n \in 1 - 1 .. Len(b) /\ Len(b) \in n .. Len(b)
        BY <1>1, <2>1
      <4> QED
        BY <1>1, <4>1, ConcatAdjacentSubSeq
    <3>2. SubSeq(b, 1, Len(b)) = b
      BY <1>1, SubSeqFull
    <3>3. \A i \in 1 .. Len(b) : b[i] \in Pieces
      BY <1>1, ElementOfSeq
    <3>4. first \in Seq(Pieces) /\ rest \in Seq(Pieces)
      BY <1>1, <2>1, <3>3, SubSeqProperties
    <3> QED
      BY <3>1, <3>2, <3>4
  <2> HIDE DEF first, rest
  <2>3. heard' = heard \o first /\ playoutBuf' = rest
        /\ UNCHANGED <<receptionVars, feederVars, audioChan, running>>
    BY <1>3 DEF Fill, first, rest
  <2>4. heard' \in Seq(Pieces)
    BY <1>1, <2>2, <2>3, ConcatProperties
  <2>5. (heard \o first) \o rest = heard \o (first \o rest)
    BY ONLY <1>1, <2>2, Associative, Zenon
  <2> QED
    BY <1>1, <2>2, <2>3, <2>4, <2>5, OutputInv
<1>4. ASSUME NEW n \in CallbackSizes, Pad(n)
      PROVE  PipelineInv'
  <2>1. /\ heard' = heard \o playoutBuf /\ playoutBuf' = << >>
        /\ UNCHANGED <<receptionVars, feederVars, audioChan, running>>
    BY <1>4 DEF Pad
  <2>2. heard' \in Seq(Pieces) /\ playoutBuf' \in Seq(Pieces) /\ heard' \o playoutBuf' = heard'
    BY <1>1, <2>1, ConcatProperties, EmptySeq, ConcatEmptySeq
  <2> QED
    BY <1>1, <2>1, <2>2, OutputInv
<1> QED
  BY <1>2, <1>3, <1>4 DEF Callback

LEMMA NextPipeline == PipelineInv /\ [Next]_vars => PipelineInv'
<1> SUFFICES ASSUME PipelineInv, [Next]_vars
             PROVE  PipelineInv'
  OBVIOUS
<1>1. heard \in Seq(Pieces) /\ playoutBuf \in Seq(Pieces) /\ running \in BOOLEAN
  BY DEF PipelineInv, PipelineTypes
<1>2. CASE DeviceStops
  BY <1>1, <1>2, OutputInv DEF DeviceStops
<1>3. CASE UNCHANGED vars
  BY <1>1, <1>3, OutputInv DEF vars, callbackVars
<1> QED
  BY <1>2, <1>3, ForwardInv, DecodeInv, PlayInv, CallbackInv DEF Next

(* The inductive invariant: what the channels hold, and that the sound made *)
(* so far is that of the frames the feeder has taken.                       *)
THEOREM PipelineInvariance == Spec => []PipelineInv
BY InitPipeline, NextPipeline, PTL DEF Spec

-----------------------------------------------------------------------------
(* What is under way completes what was heard: the frames in the channel    *)
(* follow those the feeder has taken.                                       *)
LEMMA PipelineSound == PipelineInv => SoundIsContinuous
<1> SUFFICES ASSUME PipelineInv
             PROVE  SoundIsContinuous
  OBVIOUS
<1>1. /\ released \in 0 .. MaxFrames /\ MaxFrames \in Nat /\ jbChan \in Seq(1 .. released)
  BY PlaybackPipelineAssumption DEF PipelineInv, PipelineTypes
<1>2. Ascending(Decoded, jbChan)
  <2>1. jbChan \in Seq(1 .. MaxFrames)
    <3>1. 1 .. released \subseteq 1 .. MaxFrames
      BY <1>1
    <3> QED
      BY <1>1, <3>1, SeqMonotonic
  <2>2. Decoded \subseteq 1 .. MaxFrames
    BY <1>1 DEF Decoded, Accepted
  <2> QED
    BY <2>1, <2>2 DEF PipelineInv, FramesInOrder, Ascending
<1>3. Sound(Decoded \cup Range(jbChan))
        = Sound(Decoded) \o Flatten([i \in DOMAIN jbChan |-> Samples(jbChan[i])])
  BY <1>2, SoundOfQueue
<1>4. Decoded \cup Range(jbChan) = Accepted \ undecodable
  <2>1. ASSUME NEW f \in Range(jbChan)
        PROVE  f \in Accepted \ undecodable
    <3>1. PICK i \in DOMAIN jbChan : f = jbChan[i]
      BY DEF Range
    <3>2. jbChan[i] \notin dropped \cup undecodable
      BY <3>1 DEF PipelineInv, FramesInOrder
    <3>3. jbChan[i] \in 1 .. released
      BY <1>1, <3>1, LenProperties, ElementOfSeq
    <3> QED
      BY <3>1, <3>2, <3>3 DEF Accepted
  <2> QED
    BY <2>1 DEF Decoded
<1>5. heard \o playoutBuf \o FlattenSeq(audioChan) \o samples = Sound(Decoded)
  BY DEF PipelineInv, SoundSoFar
<1> QED
  BY <1>3, <1>4, <1>5, FlattenIs DEF SoundIsContinuous

(* No sample of an accepted, decodable frame is lost, repeated or reordered *)
(* between the jitter buffer and the loudspeaker, for every capacity and    *)
(* every size of a frame and of a callback.                                 *)
THEOREM SoundContinuous == Spec => []SoundIsContinuous
BY PipelineInvariance, PipelineSound, PTL

(* The capacities of the two channels are kept, and the feeder holds        *)
(* samples exactly while it is sending.                                     *)
THEOREM TypeCorrect == Spec => []TypeOK
<1>1. PipelineInv => TypeOK
  <2> SUFFICES ASSUME PipelineInv
               PROVE  TypeOK
    OBVIOUS
  <2>1. /\ released \in 0 .. MaxFrames /\ MaxFrames \in Nat /\ jbChan \in Seq(1 .. released)
        /\ Len(jbChan) \in Nat
    BY PlaybackPipelineAssumption, LenProperties DEF PipelineInv, PipelineTypes
  <2>2. 1 .. released \subseteq 1 .. MaxFrames
    BY <2>1
  <2>3. Range(jbChan) \subseteq 1 .. released
    BY <2>1, LenProperties, ElementOfSeq DEF Range
  <2> QED
    BY <2>1, <2>2, <2>3 DEF PipelineInv, PipelineTypes, TypeOK
<1> QED
  BY <1>1, PipelineInvariance, PTL

=============================================================================
