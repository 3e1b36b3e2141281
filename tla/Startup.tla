------------------------------ MODULE Startup ------------------------------
(***************************************************************************)
(* How the programs come up: main of receiver/src/main.rs from the output  *)
(* device to the reception loop, the dashboard it spawns and the           *)
(* standalone one (TlsStore), and a sender that looks for the receiver     *)
(* meanwhile (Discovery).  The receiver may be killed and started again.   *)
(***************************************************************************)
EXTENDS Naturals, Sequences

CONSTANTS
  Absent, Partial, HttpPorts, MaxPairs, MaxFaults,  (* of TlsStore            *)
  IPv4, IPv6, Poll, Deadline, None, MaxEvents,  (* of Discovery               *)
  Ports,      (* --port arguments to try                                     *)
  ControlPort, (* the --control-port argument                                *)
  MaxStarts,  (* bound: starts of the receiver                               *)
  MaxAlone    (* bound: starts of the standalone dashboard                   *)

Dashboards == {"receiver", "standalone"}

VARIABLES
  rx,       (* the step main of the receiver is at, or "down"                *)
  inc,      (* starts of the receiver                                        *)
  port,     (* its --port argument                                           *)
  flags,    (* "mdns" unless --no-mdns; "dashboard" if built with and asked   *)
            (* for                                                           *)
  sockets,  (* per socket: the port it is bound to, or None                  *)
  alone,    (* starts of the standalone dashboard                            *)
  file, task, current, pair, listen, made, faults, torn, mixed, served,
            (* of TlsStore                                                   *)
  advert, search, now, pollEnd, events, count, target  (* of Discovery       *)

Tls == INSTANCE TlsStore
Net == INSTANCE Discovery

ASSUME StartupAssumption ==
  /\ Tls!TlsStoreAssumption /\ Net!DiscoveryAssumption
  /\ None \notin Ports /\ ControlPort \notin Ports /\ ControlPort # None
  /\ {MaxStarts, MaxAlone} \subseteq Nat

receiver  == <<rx, inc, port, flags, sockets>>
store     == <<file, task, current, pair, listen, made, faults, torn, mixed, served>>
dashboard == <<alone, store>>
searching == <<search, now, pollEnd, events, count, target>>
vars      == <<receiver, dashboard, advert, searching>>

Unbound == [audio |-> None, control |-> None]

Init ==
  /\ rx = "down" /\ inc = 0 /\ port \in Ports /\ flags = {} /\ sockets = Unbound /\ alone = 0
  /\ Tls!Init /\ Net!Init

-----------------------------------------------------------------------------
(* main of the receiver.                                                    *)
Launch ==
  /\ rx = "down" /\ inc < MaxStarts
  /\ rx' = "device" /\ inc' = inc + 1 /\ port' \in Ports
  /\ flags' \in SUBSET {"mdns", "dashboard"}
  /\ UNCHANGED <<sockets, dashboard, advert, searching>>

(* The process is gone, with its sockets and its dashboard task; its        *)
(* advertisement stays.                                                     *)
Gone ==
  /\ rx' = "down" /\ sockets' = Unbound
  /\ IF task["receiver"] = "down" THEN UNCHANGED dashboard
                                  ELSE Tls!End("receiver") /\ UNCHANGED alone
  /\ UNCHANGED <<inc, port, flags, advert, searching>>

Killed == rx # "down" /\ Gone

Passes(step, next) ==
  /\ rx = step /\ rx' = next
  /\ UNCHANGED <<inc, port, flags>>

(* The device cannot be opened or a port is in use: main returns the error. *)
Fails == rx \in {"device", "audio", "control"} /\ Gone

OpenDevice == Passes("device", "audio") /\ UNCHANGED <<sockets, dashboard, advert, searching>>

Bind(socket, number) ==
  /\ sockets' = [sockets EXCEPT ![socket] = number]
  /\ UNCHANGED <<dashboard, advert, searching>>
BindAudio   == Passes("audio", "control") /\ Bind("audio", port)
BindControl == Passes("control", "mdns") /\ Bind("control", ControlPort)

(* Mutant: the two ports change places.                                     *)
RegisterSwapped == Net!Advertise([inc |-> inc, audio |-> ControlPort, control |-> port])

Register == Net!Advertise([inc |-> inc, audio |-> port, control |-> ControlPort])

AdvertiseService ==
  /\ "mdns" \in flags /\ Passes("mdns", "spawn")
  /\ Register /\ UNCHANGED <<sockets, dashboard>>

(* --no-mdns; or mDNS is not to be had, which is logged.                    *)
NoService ==
  /\ "mdns" \notin flags /\ Passes("mdns", "spawn")
  /\ UNCHANGED <<sockets, dashboard, advert, searching>>
ServiceFails ==
  /\ "mdns" \in flags /\ Passes("mdns", "spawn")
  /\ UNCHANGED <<sockets, dashboard, advert, searching>>

SpawnDashboard ==
  /\ "dashboard" \in flags /\ Passes("spawn", "loop")
  /\ Tls!Start("receiver")
  /\ UNCHANGED <<sockets, alone, advert, searching>>

NoDashboard ==
  /\ "dashboard" \notin flags /\ Passes("spawn", "loop")
  /\ UNCHANGED <<sockets, dashboard, advert, searching>>

MainNext ==
  \/ OpenDevice \/ BindAudio \/ BindControl \/ Fails
  \/ AdvertiseService \/ NoService \/ ServiceFails \/ SpawnDashboard \/ NoDashboard

-----------------------------------------------------------------------------
(* An error of the dashboard is logged by its own task.                     *)
DashboardStep(p) ==
  /\ Tls!Step(p)
  /\ UNCHANGED <<receiver, alone, advert, searching>>

StandaloneStarts ==
  /\ alone < MaxAlone /\ alone' = alone + 1
  /\ Tls!Start("standalone")
  /\ UNCHANGED <<receiver, advert, searching>>

StandaloneEnds ==
  /\ Tls!End("standalone")
  /\ UNCHANGED <<receiver, alone, advert, searching>>

(* The sender's search, and the records of mDNS: those of a receiver that   *)
(* is gone expire.                                                          *)
Left == advert # None /\ (rx = "down" \/ advert.inc # inc)

SearchNext ==
  /\ Net!BrowserNext \/ Net!Event \/ (Left /\ Net!Expire)
  /\ UNCHANGED <<receiver, dashboard>>

Next ==
  \/ Launch \/ Killed \/ MainNext
  \/ \E p \in Dashboards : DashboardStep(p)
  \/ StandaloneStarts \/ StandaloneEnds
  \/ SearchNext

Spec == Init /\ [][Next]_vars

-----------------------------------------------------------------------------
Adverts == [inc : 1 .. MaxStarts, audio : Ports, control : {ControlPort}]

TypeOK ==
  /\ Tls!TypeOK
  /\ rx \in {"down", "device", "audio", "control", "mdns", "spawn", "loop"}
  /\ inc \in 0 .. MaxStarts /\ port \in Ports /\ flags \subseteq {"mdns", "dashboard"}
  /\ sockets \in [audio : Ports \cup {None}, control : {ControlPort, None}]
  /\ alone \in 0 .. MaxAlone
  /\ search \in {"polling", "found", "timedOut"}
  /\ Len(events) <= MaxEvents

(* What a sender is told, or has already found, of the receiver that runs   *)
(* now, are sockets it listens at: it is advertised only after both are     *)
(* bound, on the ports they are bound to.                                   *)
Told == {advert} \cup (IF target = None THEN {} ELSE {target.of})
AdvertisedListens ==
  \A a \in Told \ {None} :
    a.inc = inc /\ rx # "down" => sockets = [audio |-> a.audio, control |-> a.control]

(* A stored pair is refused only after a torn write or two starts at once.  *)
RejectedOnlyIfDamaged == Tls!RejectedOnlyIfDamaged

(* Every start serves the same certificate, with the same exceptions.       *)
CertificateIsStable == Tls!CertificateIsStable

(* The search ends less than a poll after its timeout, whatever is heard.   *)
ReturnsInTime == Net!ReturnsInTime
=============================================================================
