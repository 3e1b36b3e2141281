----------------------------- MODULE AudioStream -----------------------------
(***************************************************************************)
(* One audio stream end to end: the sender's encode-and-send loop          *)
(* (sender/src/main.rs), a datagram network that loses, duplicates and     *)
(* reorders, and the reception loop with its jitter buffer (receiver/src/  *)
(* main.rs and jitter_buffer.rs).                                          *)
(*                                                                         *)
(* A frame is known by the sender process that encoded it (epoch) and its  *)
(* position in that process's stream (pos).  The receiver never sees       *)
(* either; the histories played and discarded remember them.               *)
(***************************************************************************)
EXTENDS Integers, Sequences, FiniteSets

CONSTANTS
  SeqMod, HalfRange, GapWindow, JitterBufferMs, MinFrameMs, CounterMod, None,
  Codec,         (* the --codec argument: every packet carries it            *)
  FrameMs,       (* the --frame-size-ms argument                             *)
  StreamLength,  (* frames one sender process encodes                        *)
  Incarnations,  (* sender processes, one after another                      *)
  RestartWithin, (* a process that is restarted has encoded no more frames   *)
  MaxInFlight,   (* datagrams in the network at once                         *)
  MaxReorder,    (* by how many positions a datagram may overtake another    *)
  Reordered,     (* the first processes, whose datagrams overtake each other *)
  MaxLoss,       (* datagrams the network loses or send_to fails to send     *)
  MaxDup         (* datagrams the network duplicates                         *)

Frames  == [epoch : 0 .. Incarnations - 1, pos : 0 .. StreamLength - 1]
Packets == [seq : 0 .. SeqMod - 1, codec : {Codec}, ms : {FrameMs}, payload : Frames]

ASSUME AudioStreamAssumption ==
  /\ HalfRange \in Nat \ {0} /\ SeqMod = 2 * HalfRange
  /\ GapWindow \in 1 .. HalfRange
  /\ JitterBufferMs \in Nat
  /\ CounterMod \in Nat \ {0}
  /\ MinFrameMs \in 1 .. 10
  /\ FrameMs \in Nat /\ FrameMs >= MinFrameMs
  /\ Codec \in {"Pcm", "Opus"}
  /\ {StreamLength, Incarnations, RestartWithin, MaxInFlight, MaxReorder, Reordered,
      MaxLoss, MaxDup} \subseteq Nat
  /\ Incarnations > 0
  /\ None \notin Packets /\ None \notin Int

VARIABLES
  epoch,          (* the running sender process                              *)
  pos,            (* the position of the frame it encodes next               *)
  sequenceNumber, (* sequence_number: starts at 0 in every process           *)
  net,            (* datagrams in flight                                     *)
  lostFrames,     (* history: frames the network lost                        *)
  dups,           (* duplications so far                                     *)
  queue, expected, isPlaying, frameMs, received, lost, droppedLate, phase,
  popped,         (* the receiver: the variables of JitterBuffer             *)
  played,         (* history: frames popped for playout, in order            *)
  discarded       (* history: frames that push dropped as late               *)

JB == INSTANCE JitterBuffer

senderVars   == <<epoch, pos, sequenceNumber>>
netVars      == <<net, lostFrames, dups>>
receiverVars == <<queue, expected, isPlaying, frameMs, received, lost, droppedLate,
                  phase, popped>>
histories    == <<played, discarded>>
vars         == <<senderVars, netVars, receiverVars, histories>>

-----------------------------------------------------------------------------
Init ==
  /\ epoch = 0 /\ pos = 0 /\ sequenceNumber = 0
  /\ net = {} /\ lostFrames = {} /\ dups = 0
  /\ JB!Init
  /\ played = << >> /\ discarded = {}

CurrentFrame  == [epoch |-> epoch, pos |-> pos]
CurrentPacket == [seq |-> sequenceNumber, codec |-> Codec, ms |-> FrameMs,
                  payload |-> CurrentFrame]

(* The sequence number advances whether or not send_to succeeded.           *)
Advance ==
  /\ pos < StreamLength
  /\ pos' = pos + 1
  /\ sequenceNumber' = JB!WrappingSucc(sequenceNumber)
  /\ UNCHANGED <<epoch, receiverVars, histories>>

Send ==
  /\ Cardinality(net) < MaxInFlight
  /\ net' = net \cup {CurrentPacket}
  /\ Advance
  /\ UNCHANGED <<lostFrames, dups>>

(* send_to fails: the error is logged and the frame is gone.                *)
SendFails ==
  /\ Cardinality(lostFrames) < MaxLoss
  /\ lostFrames' = lostFrames \cup {CurrentFrame}
  /\ Advance
  /\ UNCHANGED <<net, dups>>

(* The process is stopped and started again: numbering restarts at 0.       *)
RestartSender ==
  /\ epoch + 1 < Incarnations
  /\ pos <= RestartWithin
  /\ epoch' = epoch + 1 /\ pos' = 0 /\ sequenceNumber' = 0
  /\ UNCHANGED <<netVars, receiverVars, histories>>

-----------------------------------------------------------------------------
Lose(p) ==
  /\ Cardinality(lostFrames) < MaxLoss
  /\ net' = net \ {p}
  /\ lostFrames' = lostFrames \cup {p.payload}
  /\ UNCHANGED <<senderVars, dups, receiverVars, histories>>

(* p may be delivered next: the frames still in flight that it overtakes    *)
(* are at most MaxReorder positions behind, and no process outlives the     *)
(* datagrams of the one before it.                                          *)
Overtaking(e) == IF e < Reordered THEN MaxReorder ELSE 0
Deliverable(p) ==
  \A q \in net : /\ q.payload.epoch >= p.payload.epoch
                 /\ q.payload.epoch = p.payload.epoch =>
                      p.payload.pos - q.payload.pos <= Overtaking(p.payload.epoch)

(* recv_from returns p, which parses, and push runs.                        *)
Receive(p) ==
  /\ Deliverable(p)
  /\ \/ JB!PushLate(p) /\ discarded' = discarded \cup {p.payload}
     \/ JB!PushStored(p) /\ UNCHANGED discarded
  /\ UNCHANGED <<senderVars, lostFrames, played>>

Deliver(p) == Receive(p) /\ net' = net \ {p} /\ UNCHANGED dups

(* The network delivers p and keeps a copy to deliver again.                *)
Duplicate(p) ==
  /\ dups < MaxDup
  /\ dups' = dups + 1
  /\ Receive(p)
  /\ UNCHANGED net

(* The pop that follows every push; a frame goes on to the feeder.          *)
PopAndForward ==
  /\ JB!Pop
  /\ played' = IF popped' = None THEN played ELSE Append(played, popped'.payload)
  /\ UNCHANGED <<senderVars, netVars, discarded>>

SenderNext  == Send \/ SendFails \/ RestartSender
NetworkNext == \E p \in net : Lose(p) \/ Deliver(p) \/ Duplicate(p)

Next == SenderNext \/ NetworkNext \/ PopAndForward

Spec == Init /\ [][Next]_vars

(* Audio keeps being captured, a datagram in flight is eventually delivered *)
(* (or lost), and the pop is straight-line code after the push.             *)
Fairness ==
  /\ WF_vars(Send)
  /\ WF_vars(\E p \in net : Deliver(p))
  /\ WF_vars(PopAndForward)

FairSpec == Spec /\ Fairness

-----------------------------------------------------------------------------
Positions(s)    == {s[i].pos : i \in 1 .. Len(s)}
Earlier(f, g)   == f.epoch < g.epoch \/ (f.epoch = g.epoch /\ f.pos < g.pos)
BufferedFrames  == {queue[s].payload : s \in DOMAIN queue}
InFlightFrames  == {p.payload : p \in net}
PlayedFrames    == {played[i] : i \in 1 .. Len(played)}
EncodedFrames   == {f \in Frames : Earlier(f, CurrentFrame)}

(* Number of frames that make up the target delay.                          *)
TargetFrames == (JB!Target + FrameMs - 1) \div FrameMs

(* Type invariant of the sender, the network and the histories.             *)
TypeOK ==
  /\ JB!TypeOK
  /\ epoch \in 0 .. Incarnations - 1
  /\ pos \in 0 .. StreamLength
  /\ sequenceNumber \in 0 .. SeqMod - 1
  /\ net \subseteq Packets
  /\ lostFrames \subseteq Frames
  /\ dups \in 0 .. MaxDup
  /\ played \in Seq(Frames)
  /\ discarded \subseteq Frames

(* Frames leave the jitter buffer in the order the sender encoded them and  *)
(* none leaves twice, however the network reorders and duplicates.          *)
PlayedInOrder ==
  \A i, j \in 1 .. Len(played) : i < j => Earlier(played[i], played[j])

(* packets_lost is exact: at any time it is the number of frames skipped    *)
(* between consecutive frames played, gaps of GapWindow or more excepted,   *)
(* which pop treats as a discontinuity; no frame is counted twice.          *)
Skipped(s, i) == s[i].pos - s[i - 1].pos - 1
Counted(s, i) == IF i = 1 \/ Skipped(s, i) >= GapWindow THEN 0 ELSE Skipped(s, i)
Loss(s) ==
  LET upTo[i \in 0 .. Len(s)] == IF i = 0 THEN 0 ELSE upTo[i - 1] + Counted(s, i)
  IN  upTo[Len(s)]
LossIsExact == lost = Loss(played)

(* Every frame encoded so far is in flight, lost by the network, buffered,  *)
(* played or discarded as late: nothing the receiver accepted disappears    *)
(* from its map without being played, and what it played is not kept.       *)
EveryFrameAccountedFor ==
  /\ EncodedFrames = InFlightFrames \cup lostFrames \cup BufferedFrames
                       \cup PlayedFrames \cup discarded
  /\ BufferedFrames \cap PlayedFrames = {}

(* pop releases the packet that comes first from the expected number on,    *)
(* around the wrap: "check if earliest available sequence number indicates  *)
(* missing packets", so no frame still buffered is declared lost.           *)
ReleasesEarliest ==
  [][phase # "recv" /\ phase' = "recv" /\ popped' # None =>
       \A s \in DOMAIN queue : JB!WrappingSub(popped'.seq, expected)
                                <= JB!WrappingSub(s, expected)]_vars

(* While playing, the buffer holds the target delay less the one frame just *)
(* handed on, and less one for each arrival that was late or a duplicate:   *)
(* nothing else, loss, gap or resynchronisation, drains it.  (A restarted   *)
(* sender's frames may also replace older ones of the same number.)         *)
DepthHeld ==
  phase = "recv" /\ isPlaying /\ epoch = 0 =>
    (JB!Depth(queue) + 1 + dups + Cardinality(discarded)) * FrameMs >= JB!Target

(* Reordering the target delay covers is absorbed: nothing is declared lost *)
(* and nothing is dropped as late but frames overtaken by the very first    *)
(* arrival, until the sender is restarted.                                  *)
ReorderAbsorbed ==
  epoch = 0 =>
  /\ lost = 0
  /\ \A d \in discarded, f \in BufferedFrames \cup PlayedFrames : Earlier(d, f)

(* "Huge gap (e.g. sender restart): resynchronize": a frame is dropped as   *)
(* late only once a frame of its own process has been played.               *)
RestartResynchronizes ==
  \A d \in discarded : \E f \in PlayedFrames : f.epoch = d.epoch

(* Every frame of the first process is heard unless the network lost it, the*)
(* first arrival overtook it, or the frames that survive from it on are too *)
(* few to push it out of the buffer: playout runs on arrivals.  A restart   *)
(* may leave frames of either process behind for good.                      *)
Survivors(f) == {g \in Frames : g.epoch = f.epoch /\ g.pos >= f.pos} \ lostFrames
EveryFrameHeard ==
  \A f \in {g \in Frames : g.epoch = 0} :
    <>(\/ f \in PlayedFrames \cup discarded \cup lostFrames
       \/ Cardinality(Survivors(f)) < TargetFrames
       \/ epoch > 0)

(* The promise to the listener, for one sender process.                     *)
Playout == INSTANCE OrderedPlayout WITH
  offered <- 0 .. pos - 1,
  heard   <- [i \in 1 .. Len(played) |-> played[i].pos]
ImplementsOrderedPlayout == Playout!Spec
=============================================================================
