---------------------------- MODULE VolumeControl ----------------------------
(***************************************************************************)
(* The volume: one atomic word of the receiver that the dashboard's HTTP   *)
(* handlers (dashboard/src/lib.rs) and the control server (receiver/src/   *)
(* control.rs) write, the output callback (receiver/src/audio.rs) and the  *)
(* dashboard read, and the pages (dashboard/src/static/app.js) that set it *)
(* and follow it.                                                          *)
(*                                                                         *)
(* A level is a multiple of 50 %: 2 is 100 %, 3 the limit of 150 %.  The   *)
(* page rounds what it gets back to whole percents, so a level survives    *)
(* the way through fractions, JSON and f32.                                *)
(***************************************************************************)
EXTENDS WireFormat

CONSTANTS
  Pages,          (* open dashboard pages                                    *)
  SliderValues,   (* levels the user drags a slider to                       *)
  PresetValues,   (* levels of the preset buttons                            *)
  NaN, None,
  MaxChoices,     (* bound: what the users do                                *)
  MaxDatagrams,   (* bound: datagrams and POSTs of other programs            *)
  MaxResponses,   (* bound: answers to a page in flight                      *)
  MaxRestarts     (* bound: restarts of the receiver                         *)

MaxLevel == 3
Default  == 2
Levels   == 0 .. MaxLevel

(* As long as the longest message; 512 bytes in the code.                   *)
BufLen == 3 + PayloadLen("StatsResponse")

ASSUME VolumeControlAssumption ==
  /\ SliderValues \subseteq Levels /\ PresetValues \subseteq Levels
  /\ NaN \notin Int /\ None \notin Int /\ None # NaN
  /\ {MaxChoices, MaxDatagrams, MaxResponses, MaxRestarts} \subseteq Nat
  /\ Base > 7

VARIABLES
  volume,     (* the receiver's AtomicU32                                    *)
  buf,        (* the control server's receive buffer                         *)
  shown,      (* per page: slider and volume display                         *)
  focused,    (* per page: document.activeElement is the slider              *)
  held,       (* per page: the user is dragging the slider                   *)
  timers,     (* per page: pending debounce timers, by the value they send   *)
  responses,  (* per page: volumes in answers of /api/stats in flight        *)
  posts,      (* POSTs to /api/volume in flight; choice 0: of another client *)
  choices,    (* history: how often the users chose a level                  *)
  lastChoice, (* history: the level chosen last                              *)
  asked,      (* history: levels asked for by a user, another HTTP client or *)
              (* a complete SetVolume                                        *)
  disturbed,  (* history: something else than the last choice may decide     *)
  datagrams, restarts  (* counters for the bounds                            *)

server   == <<volume, buf, datagrams, restarts>>
focus    == <<focused, held>>
page     == <<shown, focus, timers, responses>>
history  == <<choices, lastChoice, asked, disturbed>>
vars     == <<server, page, posts, history>>

Init ==
  /\ volume = Default /\ buf = [i \in 1 .. BufLen |-> 0]
  /\ shown = [p \in Pages |-> Default] /\ focused = [p \in Pages |-> FALSE]
  /\ held = [p \in Pages |-> FALSE]
  /\ timers = [p \in Pages |-> {}] /\ responses = [p \in Pages |-> {}]
  /\ posts = {} /\ choices = 0 /\ lastChoice = None
  /\ asked = {} /\ disturbed = FALSE /\ datagrams = 0 /\ restarts = 0

(* Mutant: only the upper limit.                                            *)
ClampAbove(v) == IF v # NaN /\ v > MaxLevel THEN MaxLevel ELSE v

(* f32::clamp(0.0, 1.5): NaN stays NaN.                                     *)
Clamp(v) ==
  CASE v = NaN              -> NaN
    [] v # NaN /\ v < 0     -> 0
    [] v # NaN /\ v > MaxLevel -> MaxLevel
    [] OTHER                -> v

-----------------------------------------------------------------------------
(* A page.  A choice that is made while another one waits for its timer may *)
(* be sent before it.                                                       *)
Choose(p, v) ==
  /\ choices < MaxChoices
  /\ choices' = choices + 1 /\ lastChoice' = v
  /\ shown' = [shown EXCEPT ![p] = v]
  /\ asked' = asked \cup {v}
  /\ UNCHANGED <<server, responses>>

(* clearTimeout, then setTimeout.                                           *)
Debounce(p, v) == timers' = [timers EXCEPT ![p] = {v}]

(* The slider's input event.  Dragging a slider focuses it; it keeps the    *)
(* focus when it is let go, until the user focuses something else.          *)
Drag(p, v) ==
  /\ Choose(p, v)
  /\ focused' = [focused EXCEPT ![p] = TRUE] /\ held' = [held EXCEPT ![p] = TRUE]
  /\ Debounce(p, v)
  /\ disturbed' = (disturbed \/ \E q \in Pages \ {p} : timers[q] # {})
  /\ UNCHANGED posts

(* A preset button's click event: sent at once, a pending timer stays.      *)
Preset(p, v) ==
  /\ Choose(p, v)
  /\ focused' = [focused EXCEPT ![p] = FALSE] /\ held' = [held EXCEPT ![p] = FALSE]
  /\ posts' = posts \cup {[choice |-> choices', volume |-> v]}
  /\ disturbed' = (disturbed \/ \E q \in Pages : timers[q] # {})
  /\ UNCHANGED timers

Release(p) ==
  /\ held[p]
  /\ held' = [held EXCEPT ![p] = FALSE]
  /\ UNCHANGED <<server, shown, focused, timers, responses, posts, history>>

Blur(p) ==
  /\ focused[p]
  /\ focused' = [focused EXCEPT ![p] = FALSE] /\ held' = [held EXCEPT ![p] = FALSE]
  /\ UNCHANGED <<server, shown, timers, responses, posts, history>>

(* Mutant: the timer sends what the slider shows when it fires.             *)
SendShown(p, v) == posts' = posts \cup {[choice |-> choices, volume |-> shown[p]]}

(* The closure keeps the value of its own input event.                      *)
SendDragged(p, v) == posts' = posts \cup {[choice |-> choices, volume |-> v]}

TimerFires(p, v) ==
  /\ v \in timers[p]
  /\ timers' = [timers EXCEPT ![p] = @ \ {v}]
  /\ SendDragged(p, v)
  /\ UNCHANGED <<server, shown, focus, responses, history>>

(* Mutant: an inverted test of the focus.                                   *)
FollowFocused(p, v) ==
  shown' = IF focused[p] THEN [shown EXCEPT ![p] = v] ELSE shown

Follow(p, v) ==
  shown' = IF focused[p] THEN shown ELSE [shown EXCEPT ![p] = v]

(* fetchStats gets its answer.                                              *)
StatsArrive(p, v) ==
  /\ v \in responses[p]
  /\ responses' = [responses EXCEPT ![p] = @ \ {v}]
  /\ Follow(p, v)
  /\ UNCHANGED <<server, focus, timers, posts, history>>

-----------------------------------------------------------------------------
(* The dashboard server.  JSON has no NaN: it becomes null, which the page  *)
(* rounds to 0.                                                             *)
GetStats(p) ==
  /\ Cardinality(responses[p]) < MaxResponses
  /\ responses' = [responses EXCEPT ![p] = @ \cup {IF volume = NaN THEN 0 ELSE volume}]
  /\ UNCHANGED <<server, shown, focus, timers, posts, history>>

(* POSTs are handled in any order.                                          *)
SetVolume(post) ==
  /\ posts' = posts \ {post}
  /\ volume' = Clamp(post.volume)
  /\ disturbed' = (disturbed \/ \E q \in posts : q.choice < post.choice)
  /\ UNCHANGED <<buf, datagrams, restarts, page, choices, lastChoice, asked>>

(* fetch fails: logged by the page, not repeated.                           *)
PostFails(post) ==
  /\ posts' = posts \ {post}
  /\ disturbed' = TRUE
  /\ UNCHANGED <<server, page, choices, lastChoice, asked>>

(* Every origin may POST, and any number: JSON has no NaN.                  *)
ForeignVolumes == {-1, MaxLevel + 1}
ForeignPost(v) ==
  /\ datagrams < MaxDatagrams
  /\ datagrams' = datagrams + 1
  /\ posts' = posts \cup {[choice |-> 0, volume |-> v]}
  /\ asked' = asked \cup {v}
  /\ disturbed' = TRUE
  /\ UNCHANGED <<volume, buf, restarts, page, choices, lastChoice>>

-----------------------------------------------------------------------------
(* The control server.  No program of the repository sends SetVolume: what  *)
(* peers may send is a message, one cut short, or one with another magic.   *)
PeerVolumes == ForeignVolumes \cup {NaN}
Bits(v)     == IF v = NaN THEN 7 ELSE v + 1
FromBits(b) == IF b = 7 THEN NaN ELSE b - 1
Messages ==
  {[type |-> "SetVolume", fields |-> <<Bits(v)>>] : v \in PeerVolumes}
    \cup {[type |-> t, fields |-> [i \in DOMAIN Layout(t).widths |-> 0]]
            : t \in Types \ {"SetVolume"}}
Datagrams ==
  LET whole == {SerializeControl(m) : m \in Messages}
  IN  whole \cup {Front(d) : d \in whole} \cup {<<0>> \o Tail(d) : d \in whole}

(* No message is longer than the buffer.                                    *)
ASSUME BufferAssumption == \A d \in Datagrams : Len(d) <= BufLen

(* Mutant: the whole buffer is parsed, not its first len bytes.             *)
MessageInBuffer(len) == DeserializeControl(buf')

IsSetVolume(m) == IF IsError(m) THEN FALSE ELSE m.type = "SetVolume"

MessageReceived(len) == DeserializeControl(SubSeq(buf', 1, len))

ControlReceive(d) ==
  /\ datagrams < MaxDatagrams
  /\ datagrams' = datagrams + 1
  /\ buf' = [i \in DOMAIN buf |-> IF i <= Len(d) THEN d[i] ELSE buf[i]]
  /\ LET m == MessageReceived(Len(d)) IN
     \/ /\ IsSetVolume(m)
        /\ volume' = Clamp(FromBits(m.fields[1]))
        /\ disturbed' = TRUE
     \/ /\ ~IsSetVolume(m)
        /\ UNCHANGED <<volume, disturbed>>
  /\ asked' = asked \cup {v \in PeerVolumes :
                           d = SerializeControl([type |-> "SetVolume", fields |-> <<Bits(v)>>])}
  /\ UNCHANGED <<restarts, page, posts, choices, lastChoice>>

(* The receiver is stopped and started: 1.0 again, what was on its way to   *)
(* it fails.                                                                *)
Restart ==
  /\ restarts < MaxRestarts
  /\ restarts' = restarts + 1
  /\ volume' = Default /\ buf' = [i \in DOMAIN buf |-> 0]
  /\ posts' = {} /\ responses' = [p \in Pages |-> {}]
  /\ disturbed' = TRUE
  /\ UNCHANGED <<datagrams, shown, focus, timers, choices, lastChoice, asked>>

-----------------------------------------------------------------------------
PageNext(p) ==
  \/ \E v \in SliderValues : Drag(p, v)
  \/ \E v \in PresetValues : Preset(p, v)
  \/ Release(p) \/ Blur(p)
  \/ \E v \in Levels : TimerFires(p, v) \/ StatsArrive(p, v)
  \/ GetStats(p)

Next ==
  \/ \E p \in Pages : PageNext(p)
  \/ \E post \in posts : SetVolume(post) \/ PostFails(post)
  \/ \E v \in ForeignVolumes : ForeignPost(v)
  \/ \E d \in Datagrams : ControlReceive(d)
  \/ Restart

Spec == Init /\ [][Next]_vars

(* Every page polls once a second and is answered; timers fire.             *)
FairSpec ==
  /\ Spec
  /\ \A p \in Pages : /\ WF_vars(GetStats(p))
                      /\ WF_vars(\E v \in Levels : StatsArrive(p, v))
                      /\ WF_vars(\E v \in Levels : TimerFires(p, v))
  /\ WF_vars(\E post \in posts : SetVolume(post) \/ PostFails(post))

-----------------------------------------------------------------------------
TypeOK ==
  /\ volume \in Levels \cup {NaN}
  /\ buf \in Seq(Bytes)
  /\ shown \in [Pages -> Levels] /\ {focused, held} \subseteq [Pages -> BOOLEAN]
  /\ timers \in [Pages -> SUBSET Levels] /\ responses \in [Pages -> SUBSET Levels]
  /\ posts \subseteq [choice : 0 .. MaxChoices, volume : Levels \cup ForeignVolumes]
  /\ choices \in 0 .. MaxChoices /\ lastChoice \in Levels \cup {None}
  /\ asked \subseteq PeerVolumes \cup Levels

(* The volume is always one that somebody asked for, within the limits: no  *)
(* truncated or foreign datagram, completed by what the buffer happens to   *)
(* hold, sets it.                                                           *)
OnlyAskedVolumes == volume \in {Default} \cup {Clamp(v) : v \in asked}

(* When all is quiet the volume is what was chosen last, provided that      *)
(* nothing else may have decided: requests that overtook each other or      *)
(* failed, another writer, a restart, or a choice made within the 50 ms     *)
(* another one waited for its timer, which a preset does not cancel.        *)
Quiet == posts = {} /\ \A p \in Pages : timers[p] = {}
LastChoiceWins ==
  Quiet /\ ~disturbed /\ choices > 0 => volume = lastChoice

(* Once nobody changes it any more, every page whose slider does not have   *)
(* the focus shows the volume that is played and keeps showing it, in spite *)
(* of answers that are old when they arrive.  (NaN is shown as 0.)          *)
Shown(v) == IF v = NaN THEN 0 ELSE v
PagesConverge == <>[](\A p \in Pages : focused[p] \/ shown[p] = Shown(volume))

(* What the comment at app.js:89 says: the slider follows unless the user   *)
(* is dragging it.                                                          *)
FollowsUnlessDragged == <>[](\A p \in Pages : held[p] \/ shown[p] = Shown(volume))
=============================================================================
