---------------------------- MODULE JitterBuffer ----------------------------
(***************************************************************************)
(* The adaptive jitter buffer of the receiver (receiver/src/               *)
(* jitter_buffer.rs) driven as the reception loop drives it                *)
(* (receiver/src/main.rs): every datagram that parses is pushed, and       *)
(* every push is followed by exactly one pop, with no await in between.    *)
(*                                                                         *)
(* The environment of this module is the most general one: any packet may  *)
(* arrive at any time.  AudioStream.tla restricts it to what one sender    *)
(* and a network produce.                                                  *)
(***************************************************************************)
EXTENDS Integers, FiniteSetsExt

CONSTANTS
  SeqMod,         (* number of sequence numbers: 2^32 for the u32 field       *)
  HalfRange,      (* 0x80000000, the bound of the late test                   *)
  GapWindow,      (* 20: a smaller gap is loss, a larger one a discontinuity  *)
  JitterBufferMs, (* the --jitter-buffer-ms argument                          *)
  MinFrameMs,     (* the shortest audio any non-empty packet carries, in ms   *)
  CounterMod,     (* number of values of an AtomicU64 counter                 *)
  Packets,        (* the packets that may arrive                              *)
  None            (* Rust's None                                              *)

Seqs == 0 .. SeqMod - 1

(***************************************************************************)
(* A parsed packet: sequence number, codec, the milliseconds of audio in   *)
(* its payload (0 for an empty payload), and the payload's identity.       *)
(***************************************************************************)
ASSUME JitterBufferAssumption ==
  /\ HalfRange \in Nat \ {0}
  /\ SeqMod = 2 * HalfRange
  /\ GapWindow \in 1 .. HalfRange
  /\ JitterBufferMs \in Nat
  /\ MinFrameMs \in 1 .. 10
  /\ CounterMod \in Nat \ {0}
  /\ \A p \in Packets : /\ p.seq \in Seqs
                        /\ p.codec \in {"Pcm", "Opus"}
                        /\ p.ms \in Nat
                        /\ p.ms = 0 \/ p.ms >= MinFrameMs
  /\ None \notin Packets
  /\ None \notin Int

VARIABLES
  queue,       (* BTreeMap from sequence number to buffered packet            *)
  expected,    (* expected_seq: next sequence number to play, or None         *)
  isPlaying,   (* is_playing: primed to the target and playing out            *)
  frameMs,     (* frame_duration_ms                                           *)
  received,    (* packets_received                                            *)
  lost,        (* packets_lost                                                *)
  droppedLate, (* packets_dropped_late                                        *)
  phase,       (* where the loop is: "recv" awaits a datagram; "stored" and   *)
               (* "late" are between the push, by its outcome, and the pop    *)
  popped       (* what the last pop returned, handed to the feeder's channel  *)

vars == <<queue, expected, isPlaying, frameMs, received, lost, droppedLate,
          phase, popped>>

-----------------------------------------------------------------------------
(* target_delay_ms: the argument clamped to 5.0 ..= 200.0.                  *)
Target == Max({5, Min({JitterBufferMs, 200})})

(* Mutant: checked addition where the code wraps around.                    *)
SuccUnbounded(a) == a + 1

(* u32::wrapping_sub and u32::wrapping_add(1), on members of Seqs.          *)
WrappingSub(a, b) == IF a >= b THEN a - b ELSE a - b + SeqMod
WrappingSucc(a)   == IF a = SeqMod - 1 THEN 0 ELSE a + 1

(* AtomicU64::fetch_add wraps around.                                       *)
Count(counter, n) == (counter + n) % CounterMod

EmptyQueue   == [s \in {} |-> None]
Depth(q)     == Cardinality(DOMAIN q)
Insert(q, p) == [s \in DOMAIN q \cup {p.seq} |-> IF s = p.seq THEN p ELSE q[s]]

(* Mutant: get where the code removes.                                      *)
Peek(q, k)   == q
Remove(q, k) == Restrict(q, DOMAIN q \ {k})

(* Mutants: no late test; a late test that ignores the wrap-around.         *)
NeverLate(seq)    == FALSE
LateUnsigned(seq) == expected # None /\ seq < expected

(* The late test of push: more than half the sequence space "ahead".        *)
IsLate(seq) == expected # None /\ WrappingSub(seq, expected) > HalfRange

(* The first key of the BTreeMap: the smallest number, not the serially     *)
(* oldest packet.                                                           *)
Earliest == Min(DOMAIN queue)

(* Mutant: the played frame is counted with the gap before it.              *)
GapInclusive == WrappingSub(Earliest, expected) + 1
Gap          == WrappingSub(Earliest, expected)

-----------------------------------------------------------------------------
Init ==
  /\ queue = EmptyQueue
  /\ expected = None
  /\ isPlaying = FALSE
  /\ frameMs = 10
  /\ received = 0
  /\ lost = 0
  /\ droppedLate = 0
  /\ phase = "recv"
  /\ popped = None

(* push, early return: the packet's playout is taken to have passed.        *)
PushLate(p) ==
  /\ phase = "recv"
  /\ IsLate(p.seq)
  /\ received' = Count(received, 1)
  /\ droppedLate' = Count(droppedLate, 1)
  /\ phase' = "late"
  /\ popped' = None
  /\ UNCHANGED <<queue, expected, isPlaying, frameMs, lost>>

(* Mutant: playout starts only above the target.                            *)
PushPrimingLate(p) ==
  /\ phase = "recv"
  /\ ~IsLate(p.seq)
  /\ received' = Count(received, 1)
  /\ expected' = IF expected = None THEN p.seq ELSE expected
  /\ queue' = Insert(queue, p)
  /\ frameMs' = IF p.codec = "Pcm" /\ p.ms > 0 THEN p.ms ELSE frameMs
  /\ isPlaying' = (isPlaying \/ Depth(queue') * frameMs' > Target)
  /\ phase' = "stored"
  /\ popped' = None
  /\ UNCHANGED <<lost, droppedLate>>

(* push, the packet is kept: the first one ever fixes expected_seq, a PCM   *)
(* payload fixes the frame duration, and reaching the target starts playout.*)
PushStored(p) ==
  /\ phase = "recv"
  /\ ~IsLate(p.seq)
  /\ received' = Count(received, 1)
  /\ expected' = IF expected = None THEN p.seq ELSE expected
  /\ queue' = Insert(queue, p)
  /\ frameMs' = IF p.codec = "Pcm" /\ p.ms > 0 THEN p.ms ELSE frameMs
  /\ isPlaying' = (isPlaying \/ Depth(queue') * frameMs' >= Target)
  /\ phase' = "stored"
  /\ popped' = None
  /\ UNCHANGED <<lost, droppedLate>>

Push(p) == PushLate(p) \/ PushStored(p)

-----------------------------------------------------------------------------
Popping == phase \in {"stored", "late"} /\ phase' = "recv"

(* Mutant: playout does not move past the frame released.                   *)
ReleaseStaying(k) ==
  /\ popped' = queue[k]
  /\ queue' = Remove(queue, k)
  /\ expected' = k
  /\ UNCHANGED <<isPlaying, frameMs, received, droppedLate>>

(* The common end of pop's successful branches: frame k leaves the queue    *)
(* and playout continues after it.                                          *)
Release(k) ==
  /\ popped' = queue[k]
  /\ queue' = Remove(queue, k)
  /\ expected' = WrappingSucc(k)
  /\ UNCHANGED <<isPlaying, frameMs, received, droppedLate>>

(* pop before the target is reached, or before any packet was stored.       *)
PopPaused ==
  /\ Popping
  /\ ~isPlaying \/ expected = None
  /\ popped' = None
  /\ UNCHANGED <<queue, expected, isPlaying, frameMs, received, lost, droppedLate>>

(* Mutant: the first entry is taken even where the expected one is there.   *)
PopFirst ==
  /\ Popping
  /\ isPlaying /\ expected # None
  /\ expected \in DOMAIN queue
  /\ Release(Earliest)
  /\ UNCHANGED lost

PopExpected ==
  /\ Popping
  /\ isPlaying /\ expected # None
  /\ expected \in DOMAIN queue
  /\ Release(expected)
  /\ UNCHANGED lost

(* Mutant: a missing frame is taken for an empty queue.                     *)
PopUnderrunOnMissing ==
  /\ Popping
  /\ isPlaying /\ expected # None
  /\ expected \notin DOMAIN queue
  /\ isPlaying' = FALSE
  /\ popped' = None
  /\ UNCHANGED <<queue, expected, frameMs, received, lost, droppedLate>>

(* pop from an empty queue: pause and refill to the target.                 *)
PopUnderrun ==
  /\ Popping
  /\ isPlaying /\ expected # None
  /\ DOMAIN queue = {}
  /\ isPlaying' = FALSE
  /\ popped' = None
  /\ UNCHANGED <<queue, expected, frameMs, received, lost, droppedLate>>

(* pop when the expected frame is missing but others are buffered.          *)
Skipping ==
  /\ Popping
  /\ isPlaying /\ expected # None
  /\ expected \notin DOMAIN queue
  /\ DOMAIN queue # {}

(* A gap within the window: its frames are declared lost.                   *)
PopGap ==
  /\ Skipping
  /\ Gap < GapWindow
  /\ lost' = Count(lost, Gap)
  /\ Release(Earliest)

(* Mutants: a larger gap clears the queue; it pauses.                       *)
PopResyncClearing ==
  /\ Skipping
  /\ Gap >= GapWindow
  /\ popped' = queue[Earliest]
  /\ queue' = EmptyQueue
  /\ expected' = WrappingSucc(Earliest)
  /\ UNCHANGED <<isPlaying, frameMs, received, lost, droppedLate>>

PopResyncPausing ==
  /\ Skipping
  /\ Gap >= GapWindow
  /\ isPlaying' = FALSE
  /\ popped' = None
  /\ UNCHANGED <<queue, expected, frameMs, received, lost, droppedLate>>

(* A larger gap: resynchronise on what is buffered, counting nothing lost.  *)
PopResync ==
  /\ Skipping
  /\ Gap >= GapWindow
  /\ Release(Earliest)
  /\ UNCHANGED lost

Pop == PopPaused \/ PopExpected \/ PopUnderrun \/ PopGap \/ PopResync

Next == (\E p \in Packets : Push(p)) \/ Pop

Spec == Init /\ [][Next]_vars

-----------------------------------------------------------------------------
(* Type invariant: the state of JitterBuffer and the reception loop; the    *)
(* queue is keyed by the sequence number of the packet it holds.            *)
TypeOK ==
  /\ DOMAIN queue \subseteq Seqs
  /\ \A s \in DOMAIN queue : queue[s] \in Packets /\ queue[s].seq = s
  /\ expected \in Seqs \cup {None}
  /\ isPlaying \in BOOLEAN
  /\ frameMs \in Nat
  /\ {received, lost, droppedLate} \subseteq 0 .. CounterMod - 1
  /\ phase \in {"recv", "stored", "late"}
  /\ popped \in Packets \cup {None}

(* The map never grows beyond the frames that make up the target delay,     *)
(* whatever arrives: nothing in push bounds it, only the pop that follows   *)
(* every push does, on each of pop's branches.  Between two datagrams less  *)
(* than the target is buffered even if every frame is of the shortest kind. *)
DepthBound == phase = "recv" => Depth(queue) * MinFrameMs < Target

(* While playing, a stored packet always pays for one frame of output, even *)
(* when the expected frame is missing: the pop that follows never comes     *)
(* back empty, so an underrun can only follow a late packet.                *)
SteadySupply ==
  [][phase = "stored" /\ isPlaying /\ phase' = "recv" => popped' # None]_vars

=============================================================================
