------------------------- MODULE JitterBuffer_proofs -------------------------
(***************************************************************************)
(* Proofs about JitterBuffer, for every size of the sequence space, every  *)
(* target delay and every set of packets.                                  *)
(***************************************************************************)
EXTENDS JitterBuffer, DataLemmas, FiniteSetTheorems, TLAPS

-----------------------------------------------------------------------------
(* Multiplication by a natural preserves the order.                         *)
LEMMA TimesMonotone ==
  ASSUME NEW a \in Nat, NEW b \in Nat, NEW m \in Nat, a <= b
  PROVE  m * a <= m * b /\ a * m <= b * m
  OBVIOUS

(* The target delay is a positive number of milliseconds.                   *)
LEMMA TargetPositive == Target \in Nat /\ Target > 0
<1> DEFINE capped == Min({JitterBufferMs, 200})
<1>1. capped \in Nat
  <2>1. Min({JitterBufferMs, 200}) \in {JitterBufferMs, 200}
    BY MinOfNaturals, JitterBufferAssumption
  <2> QED
    BY <2>1, JitterBufferAssumption
<1> HIDE DEF capped
<1>2. \E x \in {5, capped} : \A y \in {5, capped} : x >= y
  <2>1. CASE capped >= 5
    BY <1>1, <2>1
  <2>2. CASE ~(capped >= 5)
    BY <1>1, <2>2
  <2> QED
    BY <2>1, <2>2
<1>3. Max({5, capped}) \in {5, capped} /\ Max({5, capped}) >= 5
  BY <1>2 DEF Max
<1> QED
  BY <1>1, <1>3 DEF Target, capped

(* A counter stays within its width.                                        *)
LEMMA CountType ==
  ASSUME NEW c \in Nat, NEW n \in Nat
  PROVE  Count(c, n) \in 0 .. CounterMod - 1
  BY JitterBufferAssumption DEF Count

(* The sequence numbers are closed under the wrapping operations.           *)
LEMMA WrappingType ==
  ASSUME NEW a \in Seqs, NEW b \in Seqs
  PROVE  WrappingSub(a, b) \in Seqs /\ WrappingSucc(a) \in Seqs
  BY JitterBufferAssumption DEF Seqs, WrappingSub, WrappingSucc

(* Inserting a packet adds at most one key, and at least leaves one.        *)
LEMMA InsertFacts ==
  ASSUME NEW q, IsFiniteSet(DOMAIN q), NEW p
  PROVE  /\ DOMAIN Insert(q, p) = DOMAIN q \cup {p.seq}
         /\ IsFiniteSet(DOMAIN Insert(q, p))
         /\ Depth(q) \in Nat /\ Depth(Insert(q, p)) \in Nat
         /\ Depth(Insert(q, p)) <= Depth(q) + 1
<1>1. DOMAIN Insert(q, p) = DOMAIN q \cup {p.seq}
  BY DEF Insert
<1>2. /\ IsFiniteSet(DOMAIN q \cup {p.seq})
      /\ Cardinality(DOMAIN q \cup {p.seq}) \in {Cardinality(DOMAIN q), Cardinality(DOMAIN q) + 1}
  BY FS_AddElement
<1>3. Depth(q) \in Nat
  BY FS_CardinalityType DEF Depth
<1> QED
  BY <1>1, <1>2, <1>3 DEF Depth

(* Removing a key that is present takes exactly one packet out.             *)
LEMMA RemoveFacts ==
  ASSUME NEW q, IsFiniteSet(DOMAIN q), NEW k \in DOMAIN q
  PROVE  /\ DOMAIN Remove(q, k) = DOMAIN q \ {k}
         /\ \A s \in DOMAIN q \ {k} : Remove(q, k)[s] = q[s]
         /\ IsFiniteSet(DOMAIN Remove(q, k))
         /\ Depth(Remove(q, k)) = Depth(q) - 1
         /\ Depth(Remove(q, k)) \in Nat
<1>1. /\ DOMAIN Remove(q, k) = DOMAIN q \ {k}
      /\ \A s \in DOMAIN q \ {k} : Remove(q, k)[s] = q[s]
  BY DEF Remove, Restrict
<1>2. /\ IsFiniteSet(DOMAIN q \ {k})
      /\ Cardinality(DOMAIN q \ {k}) = Cardinality(DOMAIN q) - 1
  BY FS_RemoveElement
<1>3. Depth(Remove(q, k)) \in Nat
  BY <1>1, <1>2, FS_CardinalityType DEF Depth
<1> QED
  BY <1>1, <1>2, <1>3 DEF Depth

-----------------------------------------------------------------------------
(* Nothing is buffered before the first packet fixes expected_seq, and a    *)
(* push that stored its packet leaves the queue non-empty.                  *)
Anchored ==
  /\ DOMAIN queue # {} => expected # None
  /\ isPlaying => expected # None
  /\ phase = "stored" => DOMAIN queue # {}

(* What bounds the depth: paused, the frames fall short of the target at    *)
(* the current frame duration; playing, at the shortest one, but for the    *)
(* one frame a push may have added since the last pop.                      *)
DepthInv ==
  /\ frameMs >= MinFrameMs
  /\ ~isPlaying => Depth(queue) * frameMs < Target
  /\ DepthBound
  /\ phase # "recv" /\ Depth(queue) > 0 => (Depth(queue) - 1) * MinFrameMs < Target

IInv == TypeOK /\ Anchored /\ DepthInv

(* The parameters of the assumption in the form the steps below use.        *)
LEMMA ParameterFacts ==
  /\ SeqMod \in Nat \ {0} /\ MinFrameMs \in Nat \ {0} /\ MinFrameMs <= 10
  /\ CounterMod \in Nat \ {0} /\ None \notin Seqs /\ None \notin Packets
  /\ Seqs \subseteq Nat /\ IsFiniteSet(Seqs)
<1>1. SeqMod - 1 \in Int
  BY JitterBufferAssumption
<1>2. IsFiniteSet(Seqs)
  BY <1>1, FS_Interval DEF Seqs
<1> QED
  BY <1>2, JitterBufferAssumption DEF Seqs

(* In a well-typed state the queue is finite, and its first key, if it has  *)
(* one, is one of its sequence numbers.                                     *)
LEMMA QueueFacts ==
  ASSUME TypeOK
  PROVE  /\ IsFiniteSet(DOMAIN queue)
         /\ Depth(queue) \in Nat
         /\ DOMAIN queue # {} <=> Depth(queue) > 0
         /\ DOMAIN queue # {} => Earliest \in DOMAIN queue
<1>1. IsFiniteSet(DOMAIN queue)
  BY ParameterFacts, FS_Subset DEF TypeOK
<1>2. Depth(queue) \in Nat
  BY <1>1, FS_CardinalityType DEF Depth
<1>3. DOMAIN queue # {} <=> Depth(queue) > 0
  BY <1>1, <1>2, FS_EmptySet DEF Depth
<1>4. DOMAIN queue # {} => Earliest \in DOMAIN queue
  BY ParameterFacts, MinOfNaturals DEF TypeOK, Earliest
<1> QED
  BY <1>1, <1>2, <1>3, <1>4

(* The initial state.                                                       *)
LEMMA InitIInv == Init => IInv
<1> SUFFICES ASSUME Init PROVE IInv
  OBVIOUS
<1>1. DOMAIN queue = {}
  BY DEF Init, EmptyQueue
<1>2. Depth(queue) = 0
  BY <1>1, FS_EmptySet DEF Depth
<1>3. TypeOK
  <2>1. 0 \in 0 .. CounterMod - 1 /\ 10 \in Nat /\ FALSE \in BOOLEAN
    BY ParameterFacts
  <2> QED
    BY <1>1, <2>1 DEF Init, TypeOK
<1>4. Anchored
  BY <1>1 DEF Init, Anchored
<1>5. DepthInv
  BY <1>2, ParameterFacts, TargetPositive DEF Init, DepthInv, DepthBound
<1> QED
  BY <1>3, <1>4, <1>5 DEF IInv

(* push                                                                     *)
LEMMA PushIInv ==
  ASSUME IInv, NEW p \in Packets, Push(p)
  PROVE  IInv'
<1> USE ParameterFacts, TargetPositive
<1>q. /\ IsFiniteSet(DOMAIN queue) /\ Depth(queue) \in Nat
      /\ DOMAIN queue # {} <=> Depth(queue) > 0
  BY QueueFacts DEF IInv
<1>p. p.seq \in Seqs /\ p.codec \in {"Pcm", "Opus"} /\ p.ms \in Nat
      /\ (p.ms = 0 \/ p.ms >= MinFrameMs)
  BY JitterBufferAssumption
<1>c. Count(received, 1) \in 0 .. CounterMod - 1 /\ Count(droppedLate, 1) \in 0 .. CounterMod - 1
  <2>1. received \in Nat /\ droppedLate \in Nat
    BY DEF IInv, TypeOK
  <2> QED
    BY <2>1, CountType
<1>1. CASE PushLate(p)
  <2>1. TypeOK'
    BY <1>1, <1>c DEF IInv, TypeOK, PushLate
  <2>2. Anchored'
    BY <1>1 DEF IInv, Anchored, PushLate
  <2>3. (Depth(queue) - 1) * MinFrameMs <= Depth(queue) * MinFrameMs
    BY <1>q
  <2>4. DepthInv'
    BY <1>1, <1>q, <2>3 DEF IInv, DepthInv, DepthBound, PushLate, Depth
  <2> QED
    BY <2>1, <2>2, <2>4 DEF IInv
<1>2. CASE PushStored(p)
  <2>1. /\ DOMAIN queue' = DOMAIN queue \cup {p.seq}
        /\ Depth(queue) \in Nat /\ Depth(queue') \in Nat
        /\ Depth(queue') <= Depth(queue) + 1
    BY <1>2, <1>q, InsertFacts DEF PushStored
  <2>2. frameMs' \in Nat /\ frameMs' >= MinFrameMs
    BY <1>2, <1>p DEF IInv, TypeOK, DepthInv, PushStored
  <2>3. TypeOK'
    <3>1. \A s \in DOMAIN queue' : queue'[s] \in Packets /\ queue'[s].seq = s
      BY <1>2, <2>1 DEF IInv, TypeOK, PushStored, Insert
    <3>2. isPlaying' \in BOOLEAN
      BY <1>2 DEF IInv, TypeOK, PushStored
    <3> QED
      BY <1>2, <1>p, <1>c, <2>1, <2>2, <3>1, <3>2 DEF IInv, TypeOK, PushStored
  <2>4. Anchored'
    BY <1>2, <1>p, <2>1 DEF PushStored, Anchored
  <2>5. DepthInv'
    <3>1. ~isPlaying' => Depth(queue') * frameMs' < Target
      <4>1. ~isPlaying' => ~ (Depth(queue') * frameMs' >= Target)
        BY <1>2, Zenon DEF PushStored
      <4>2. Depth(queue') * frameMs' \in Nat
        BY <2>1, <2>2
      <4> QED
        BY <4>1, <4>2
    <3>2. (Depth(queue') - 1) * MinFrameMs <= Depth(queue) * MinFrameMs
      BY <2>1, TimesMonotone
    <3>3. Depth(queue) * MinFrameMs < Target
      BY <1>2 DEF IInv, DepthInv, DepthBound, PushStored
    <3> QED
      BY <1>2, <2>1, <2>2, <3>1, <3>2, <3>3 DEF DepthInv, DepthBound, PushStored
  <2> QED
    BY <2>3, <2>4, <2>5 DEF IInv
<1> QED
  BY <1>1, <1>2 DEF Push

(* A pop that releases a buffered frame.                                    *)
LEMMA ReleaseIInv ==
  ASSUME IInv, Popping, isPlaying, expected # None,
         NEW k \in DOMAIN queue, Release(k), lost' \in 0 .. CounterMod - 1
  PROVE  IInv'
<1> USE ParameterFacts, TargetPositive
<1>q. IsFiniteSet(DOMAIN queue) /\ Depth(queue) \in Nat /\ Depth(queue) > 0
  BY QueueFacts DEF IInv
<1>1. /\ DOMAIN queue' = DOMAIN queue \ {k}
      /\ \A s \in DOMAIN queue \ {k} : queue'[s] = queue[s]
      /\ Depth(queue') = Depth(queue) - 1 /\ Depth(queue') \in Nat
  BY <1>q, RemoveFacts DEF Release
<1>2. k \in Seqs /\ WrappingSucc(k) \in Seqs
  BY WrappingType DEF IInv, TypeOK
<1>3. TypeOK'
  BY <1>1, <1>2 DEF IInv, TypeOK, Release, Popping
<1>4. Anchored'
  BY <1>2 DEF Anchored, Release, Popping
<1>5. DepthInv'
  BY <1>q, <1>1 DEF IInv, DepthInv, DepthBound, Release, Popping
<1> QED
  BY <1>3, <1>4, <1>5 DEF IInv

(* pop                                                                      *)
LEMMA PopIInv ==
  ASSUME IInv, Pop
  PROVE  IInv'
<1> USE ParameterFacts, TargetPositive
<1>q. /\ IsFiniteSet(DOMAIN queue) /\ Depth(queue) \in Nat
      /\ DOMAIN queue # {} <=> Depth(queue) > 0
      /\ DOMAIN queue # {} => Earliest \in DOMAIN queue
  BY QueueFacts DEF IInv
<1>1. CASE PopPaused
  <2>1. TypeOK' /\ Anchored'
    BY <1>1 DEF IInv, TypeOK, Anchored, PopPaused, Popping
  <2>2. Depth(queue) * MinFrameMs <= Depth(queue) * frameMs
    BY <1>q, TimesMonotone DEF IInv, TypeOK, DepthInv
  <2>3. ~isPlaying
    BY <1>1 DEF IInv, Anchored, PopPaused
  <2>4. DepthInv'
    BY <1>1, <1>q, <2>2, <2>3 DEF IInv, TypeOK, DepthInv, DepthBound, PopPaused, Popping, Depth
  <2> QED
    BY <2>1, <2>4 DEF IInv
<1>2. CASE PopExpected
  BY <1>2, ReleaseIInv DEF IInv, TypeOK, PopExpected
<1>3. CASE PopUnderrun
  <2>1. Depth(queue) = 0 /\ Depth(queue') = 0
    BY <1>3, <1>q DEF PopUnderrun
  <2>2. TypeOK' /\ Anchored'
    BY <1>3 DEF IInv, TypeOK, Anchored, PopUnderrun, Popping
  <2>3. DepthInv'
    BY <1>3, <2>1 DEF IInv, TypeOK, DepthInv, DepthBound, PopUnderrun, Popping
  <2> QED
    BY <2>2, <2>3 DEF IInv
<1>4. CASE PopGap
  <2>1. Gap \in Nat
    BY <1>4, <1>q, WrappingType DEF IInv, TypeOK, PopGap, Skipping, Gap
  <2>2. lost' \in 0 .. CounterMod - 1
    BY <1>4, <2>1, CountType DEF IInv, TypeOK, PopGap
  <2> QED
    BY <1>4, <1>q, <2>2, ReleaseIInv DEF PopGap, Skipping
<1>5. CASE PopResync
  BY <1>5, <1>q, ReleaseIInv DEF IInv, TypeOK, PopResync, Skipping
<1> QED
  BY <1>1, <1>2, <1>3, <1>4, <1>5 DEF Pop

(* Every step preserves the invariant.                                      *)
LEMMA NextIInv == IInv /\ [Next]_vars => IInv'
<1> SUFFICES ASSUME IInv, [Next]_vars PROVE IInv'
  OBVIOUS
<1>1. ASSUME NEW p \in Packets, Push(p) PROVE IInv'
  BY <1>1, PushIInv
<1>2. CASE Pop
  BY <1>2, PopIInv
<1>3. CASE UNCHANGED vars
  BY <1>3 DEF IInv, TypeOK, Anchored, DepthInv, DepthBound, Depth, vars
<1> QED
  BY <1>1, <1>2, <1>3 DEF Next

(* The inductive invariant holds of the specification.                      *)
THEOREM Invariance == Spec => []IInv
<1> QED
  BY InitIInv, NextIInv, PTL DEF Spec

(* Type correctness of the buffer and the reception loop.                   *)
THEOREM TypeCorrect == Spec => []TypeOK
<1>1. IInv => TypeOK
  BY DEF IInv
<1> QED
  BY <1>1, Invariance, PTL

(* The map is bounded by the frames of the target delay, whatever packets   *)
(* arrive in whatever order.                                                *)
THEOREM DepthBounded == Spec => []DepthBound
<1>1. IInv => DepthBound
  BY DEF IInv, DepthInv
<1> QED
  BY <1>1, Invariance, PTL

(* A stored packet always pays for a frame of output while playing.         *)
THEOREM SupplyIsSteady == Spec => SteadySupply
<1>1. ASSUME IInv, [Next]_vars, phase = "stored", isPlaying, phase' = "recv"
      PROVE  popped' # None
  <2>1. Pop
    BY <1>1 DEF Next, Push, PushLate, PushStored, vars
  <2>2. PICK k \in DOMAIN queue : Release(k)
    BY <1>1, <2>1, QueueFacts
       DEF IInv, Anchored, Pop, PopPaused, PopExpected, PopUnderrun, PopGap, PopResync, Skipping
  <2> QED
    BY <1>1, <2>2, ParameterFacts DEF IInv, TypeOK, Release
<1>2. IInv /\ [Next]_vars =>
        [phase = "stored" /\ isPlaying /\ phase' = "recv" => popped' # None]_vars
  BY <1>1
<1> QED
  BY <1>2, Invariance, PTL DEF Spec, SteadySupply
=============================================================================
