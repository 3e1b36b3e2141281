-------------------------- MODULE PlaybackPipeline --------------------------
(***************************************************************************)
(* From the jitter buffer to the loudspeaker (receiver/src/main.rs,        *)
(* decoder.rs, audio.rs).  Three threads of control share two bounded      *)
(* channels: the reception loop try_sends each frame it pops into an async *)
(* channel, a feeder task decodes it and sends the samples, blocking, into *)
(* a sync_channel, and the device's callback drains that channel into its  *)
(* own buffer and fills the output.  The device may stop for good.         *)
(*                                                                         *)
(* A frame is a number, in the order the jitter buffer released it; its    *)
(* samples are SamplesPerFrame indivisible pieces of sound.                *)
(***************************************************************************)
EXTENDS Integers, Sequences, SequencesExt

CONSTANTS
  JbCapacity,       (* 64: the channel from the reception loop to the feeder *)
  PlaybackCapacity, (* 128: the channel from the feeder to the callback      *)
  SamplesPerFrame,  (* pieces of sound in a decoded frame                    *)
  CallbackSizes,    (* pieces an output callback may ask for                 *)
  MaxFrames         (* frames the jitter buffer releases                     *)

ASSUME PlaybackPipelineAssumption ==
  /\ {JbCapacity, PlaybackCapacity, SamplesPerFrame} \subseteq Nat \ {0}
  /\ CallbackSizes \subseteq Nat \ {0}
  /\ MaxFrames \in Nat

VARIABLES
  released,     (* frames the jitter buffer has released so far              *)
  jbChan,       (* jb_tx / jb_rx                                             *)
  dropped,      (* history: frames try_send found no room for                *)
  feeder,       (* the feeder task: "recv", or "send" while it holds samples *)
  samples,      (* the samples it is sending                                 *)
  undecodable,  (* history: frames whose decoding yielded no samples         *)
  audioChan,    (* audio_tx / sample_rx, a queue of chunks                   *)
  playoutBuf,   (* playout_buf of the callback                               *)
  running,      (* the output device calls back                              *)
  heard         (* history: the pieces written to the output, less silence   *)

receptionVars == <<released, jbChan, dropped>>
feederVars    == <<feeder, samples, undecodable>>
callbackVars  == <<playoutBuf, running, heard>>
vars          == <<receptionVars, feederVars, audioChan, callbackVars>>

Samples(f) == [i \in 1 .. SamplesPerFrame |-> <<f, i>>]

Init ==
  /\ released = 0 /\ jbChan = << >> /\ dropped = {}
  /\ feeder = "recv" /\ samples = << >> /\ undecodable = {}
  /\ audioChan = << >>
  /\ playoutBuf = << >> /\ running = TRUE /\ heard = << >>

-----------------------------------------------------------------------------
(* Mutant: send where the code try_sends.                                   *)
ForwardBlocking ==
  /\ released < MaxFrames
  /\ Len(jbChan) < JbCapacity
  /\ released' = released + 1
  /\ jbChan' = Append(jbChan, released')
  /\ UNCHANGED <<dropped, feederVars, audioChan, callbackVars>>

(* The reception loop pops a frame and try_sends it: a full channel drops   *)
(* it, and nothing counts the drop.                                         *)
Forward ==
  /\ released < MaxFrames
  /\ released' = released + 1
  /\ \/ /\ Len(jbChan) < JbCapacity
        /\ jbChan' = Append(jbChan, released')
        /\ UNCHANGED dropped
     \/ /\ Len(jbChan) = JbCapacity
        /\ dropped' = dropped \cup {released'}
        /\ UNCHANGED jbChan
  /\ UNCHANGED <<feederVars, audioChan, callbackVars>>

(* The feeder takes a frame; a frame that decodes to nothing is skipped.    *)
Decode ==
  /\ feeder = "recv"
  /\ jbChan # << >>
  /\ jbChan' = Tail(jbChan)
  /\ \/ feeder' = "send" /\ samples' = Samples(Head(jbChan)) /\ UNCHANGED undecodable
     \/ undecodable' = undecodable \cup {Head(jbChan)} /\ UNCHANGED <<feeder, samples>>
  /\ UNCHANGED <<released, dropped, audioChan, callbackVars>>

(* Mutants: an unbounded channel; try_send where the feeder's send blocks.  *)
PlayUnbounded ==
  /\ feeder = "send"
  /\ audioChan' = Append(audioChan, samples)
  /\ feeder' = "recv" /\ samples' = << >>
  /\ UNCHANGED <<receptionVars, undecodable, callbackVars>>

PlayOrDrop ==
  /\ feeder = "send"
  /\ audioChan' = IF Len(audioChan) < PlaybackCapacity
                    THEN Append(audioChan, samples) ELSE audioChan
  /\ feeder' = "recv" /\ samples' = << >>
  /\ UNCHANGED <<receptionVars, undecodable, callbackVars>>

(* The blocking send into the playback channel completes.                   *)
Play ==
  /\ feeder = "send"
  /\ Len(audioChan) < PlaybackCapacity
  /\ audioChan' = Append(audioChan, samples)
  /\ feeder' = "recv" /\ samples' = << >>
  /\ UNCHANGED <<receptionVars, undecodable, callbackVars>>

-----------------------------------------------------------------------------
(* The callback first pulls every chunk there is, one try_recv at a time;   *)
(* the feeder may send meanwhile.                                           *)
Pull ==
  /\ running
  /\ audioChan # << >>
  /\ playoutBuf' = playoutBuf \o Head(audioChan)
  /\ audioChan' = Tail(audioChan)
  /\ UNCHANGED <<receptionVars, feederVars, running, heard>>

(* Then it fills the n pieces it was asked for from its buffer ...          *)
Fill(n) ==
  /\ running
  /\ audioChan = << >>
  /\ Len(playoutBuf) >= n
  /\ heard' = heard \o SubSeq(playoutBuf, 1, n)
  /\ playoutBuf' = SubSeq(playoutBuf, n + 1, Len(playoutBuf))
  /\ UNCHANGED <<receptionVars, feederVars, audioChan, running>>

(* Mutant: an underrun plays only silence and keeps nothing.                *)
PadAll(n) ==
  /\ running
  /\ audioChan = << >>
  /\ Len(playoutBuf) < n
  /\ playoutBuf' = << >>
  /\ UNCHANGED <<receptionVars, feederVars, audioChan, running, heard>>

(* ... or plays what there is and pads with silence.                        *)
Pad(n) ==
  /\ running
  /\ audioChan = << >>
  /\ Len(playoutBuf) < n
  /\ heard' = heard \o playoutBuf
  /\ playoutBuf' = << >>
  /\ UNCHANGED <<receptionVars, feederVars, audioChan, running>>

(* The device is unplugged: err_fn logs, the callback is not called again.  *)
DeviceStops ==
  /\ running
  /\ running' = FALSE
  /\ UNCHANGED <<receptionVars, feederVars, audioChan, playoutBuf, heard>>

Callback == Pull \/ \E n \in CallbackSizes : Fill(n) \/ Pad(n)

Next == Forward \/ Decode \/ Play \/ Callback \/ DeviceStops

Spec == Init /\ [][Next]_vars

(* The reception loop and the feeder are scheduled, a running device calls  *)
(* back; nothing makes the device stop.                                     *)
FairSpec ==
  Spec /\ WF_vars(Forward) /\ WF_vars(Decode) /\ WF_vars(Play) /\ WF_vars(Callback)

-----------------------------------------------------------------------------
Accepted == (1 .. released) \ dropped

(* What a set of frames sounds like in their order.                         *)
Sound(frames) ==
  FlattenSeq([f \in 1 .. MaxFrames |-> IF f \in frames THEN Samples(f) ELSE << >>])

(* Type invariant; the capacities of the two channels.                      *)
TypeOK ==
  /\ released \in 0 .. MaxFrames
  /\ Len(jbChan) <= JbCapacity /\ Range(jbChan) \subseteq 1 .. MaxFrames
  /\ dropped \subseteq 1 .. MaxFrames /\ undecodable \subseteq 1 .. MaxFrames
  /\ feeder \in {"recv", "send"} /\ (feeder = "send" <=> samples # << >>)
  /\ Len(audioChan) <= PlaybackCapacity
  /\ running \in BOOLEAN

(* No sample of a frame that was accepted and decodes is lost, repeated or  *)
(* reordered on its way through the two channels, the feeder and the        *)
(* callback's buffer, at any split of frames over callbacks: what was heard *)
(* followed by what is under way is the sound of those frames.              *)
SoundIsContinuous ==
  heard \o playoutBuf \o FlattenSeq(audioChan) \o samples
    \o FlattenSeq([i \in DOMAIN jbChan |-> Samples(jbChan[i])])
    = Sound(Accepted \ undecodable)

(* While the device runs, every accepted frame that decodes is heard in     *)
(* full.                                                                    *)
EverySampleHeard ==
  \A f \in 1 .. MaxFrames :
    f \in Accepted ~> \/ Range(Samples(f)) \subseteq Range(heard)
                             \/ f \in undecodable
                             \/ ~running

(* The reception loop never waits for the feeder or the device, not even    *)
(* for a device that is gone: it takes every frame the network delivers.    *)
ReceptionNeverBlocked == <>(released = MaxFrames)
=============================================================================
