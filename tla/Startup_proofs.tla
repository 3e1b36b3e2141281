--------------------------- MODULE Startup_proofs ---------------------------
(***************************************************************************)
(* Proofs about Startup: for every timeout of the search, every bound on   *)
(* starts, pairs, faults and events, and every set of ports.               *)
(***************************************************************************)
EXTENDS Startup, TLAPS

-----------------------------------------------------------------------------
(* The search.  A poll is only begun before the deadline, so that it ends   *)
(* less than a poll after it.                                               *)
SearchInv ==
  /\ now \in Nat /\ pollEnd \in Nat
  /\ now <= pollEnd /\ pollEnd < Deadline + Poll

LEMMA SearchConstants == Poll \in Nat \ {0} /\ Deadline \in Nat \ {0}
  BY StartupAssumption DEF Net!DiscoveryAssumption

LEMMA SearchInit == Init => SearchInv
  BY SearchConstants DEF Init, Net!Init, SearchInv

LEMMA SearchStep == SearchInv /\ [Next]_vars => SearchInv'
<1> SUFFICES ASSUME SearchInv, [Next]_vars PROVE SearchInv'
  OBVIOUS
<1> USE SearchConstants DEF SearchInv
<1>1. CASE UNCHANGED <<now, pollEnd>>
  BY <1>1
<1>2. CASE Net!PollAgain /\ UNCHANGED now
  BY <1>2 DEF Net!PollAgain
<1>3. CASE Net!Tick
  BY <1>3 DEF Net!Tick
<1>4. CASE Net!BrowserNext
  BY <1>1, <1>2, <1>3, <1>4 DEF Net!BrowserNext, Net!Take, Net!PollTimesOut
<1>5. CASE SearchNext
  BY <1>1, <1>4, <1>5
     DEF SearchNext, Net!Event, Net!Expire, Net!browser
<1>6. CASE MainNext
  BY <1>1, <1>6
     DEF MainNext, OpenDevice, BindAudio, BindControl, Bind, Fails, Gone, Passes, AdvertiseService,
         Register, NoService, ServiceFails, SpawnDashboard, NoDashboard, Net!Advertise, Net!browser, searching
<1>7. CASE Launch \/ Killed \/ (\E p \in Dashboards : DashboardStep(p))
             \/ StandaloneStarts \/ StandaloneEnds \/ UNCHANGED vars
  BY <1>1, <1>7
     DEF Launch, Killed, Gone, DashboardStep, StandaloneStarts, StandaloneEnds, searching, vars
<1> QED
  BY <1>5, <1>6, <1>7 DEF Next

(* The search returns less than one poll after its timeout, whatever events *)
(* reach it: no event extends the deadline.                                 *)
THEOREM SearchReturnsInTime == Spec => []ReturnsInTime
<1>1. SearchInv => ReturnsInTime
  BY SearchConstants DEF SearchInv, ReturnsInTime, Net!ReturnsInTime
<1> QED
  BY <1>1, SearchInit, SearchStep, PTL DEF Spec

-----------------------------------------------------------------------------
(* The advertisement.  Whatever a sender holds of a receiver, from the      *)
(* records of mDNS to its own target, names a start that has been, and is   *)
(* of the present one only after its sockets were bound.                    *)
Listens(a) ==
  a # None =>
    /\ a.inc \in Nat /\ a.inc <= inc
    /\ a.inc = inc /\ rx # "down" =>
         rx \in {"spawn", "loop"} /\ sockets = [audio |-> a.audio, control |-> a.control]

SocketsBound ==
  /\ sockets \in [{"audio", "control"} -> Ports \cup {ControlPort, None}]
  /\ rx \in {"down", "device", "audio", "control", "mdns", "spawn", "loop"}
  /\ rx \in {"down", "device", "audio"} => sockets = Unbound
  /\ rx \in {"control", "mdns", "spawn", "loop"} => sockets["audio"] = port
  /\ rx = "control" => sockets["control"] = None
  /\ rx \in {"mdns", "spawn", "loop"} => sockets["control"] = ControlPort

Records == [inc : Nat, audio : Ports, control : {ControlPort}] \cup {None}
Reports == [of : Records, addresses : SUBSET (IPv4 \cup IPv6)]

AdvertInv ==
  /\ inc \in Nat /\ port \in Ports /\ SocketsBound
  /\ advert \in Records /\ Listens(advert)
  /\ events \in Seq(Reports)
  /\ \A i \in 1 .. Len(events) : Listens(events[i].of)
  /\ target # None => Listens(target.of)

LEMMA AdvertInit == Init => AdvertInv
  BY DEF Init, Net!Init, AdvertInv, Listens, SocketsBound, Unbound, Records

(* What is told of a receiver stays true while it takes no step backwards.  *)
ReceiverAhead ==
  /\ inc' \in Nat /\ inc <= inc'
  /\ inc' = inc /\ rx' # "down" =>
       /\ rx # "down"
       /\ rx \in {"spawn", "loop"} => rx' \in {"spawn", "loop"} /\ sockets' = sockets

LEMMA ListensStays ==
  ASSUME NEW a, Listens(a), inc \in Nat, ReceiverAhead
  PROVE  a # None => /\ a.inc \in Nat /\ a.inc <= inc'
                     /\ a.inc = inc' /\ rx' # "down" =>
                          /\ rx' \in {"spawn", "loop"}
                          /\ sockets' = [audio |-> a.audio, control |-> a.control]
  BY DEF Listens, ReceiverAhead

(* A step of the receiver's main that leaves the records alone.             *)
LEMMA MainAhead ==
  ASSUME AdvertInv, ReceiverAhead, UNCHANGED <<advert, searching>>,
         port' \in Ports, SocketsBound'
  PROVE  AdvertInv'
<1> USE DEF AdvertInv, searching
<1>1. Listens(advert)'
  BY ListensStays DEF Listens
<1>2. ASSUME NEW i \in 1 .. Len(events) PROVE Listens(events[i].of)'
  BY ListensStays DEF Listens
<1>3. (target # None => Listens(target.of))'
  <2> SUFFICES ASSUME target # None PROVE Listens(target.of)'
    OBVIOUS
  <2> QED
    BY ListensStays DEF Listens
<1> QED
  BY <1>1, <1>2, <1>3 DEF ReceiverAhead

(* A step that leaves the receiver's main alone.                            *)
LEMMA RecordsAhead ==
  ASSUME AdvertInv, UNCHANGED receiver, SearchNext
  PROVE  AdvertInv'
<1> USE DEF AdvertInv, receiver
<1>1. SocketsBound'
  BY DEF SocketsBound
<1>2. CASE UNCHANGED <<advert, events, target>>
  BY <1>1, <1>2 DEF Listens
<1>3. CASE Net!Event
  <2>1. PICK e \in Reports : events' = Append(events, e) /\ Listens(e.of)
    <3>1. CASE Net!Other
      BY <3>1 DEF Net!Other, Reports, Records, Listens
    <3>2. CASE \E addresses \in SUBSET (IPv4 \cup IPv6) : Net!Resolve(addresses)
      BY <3>2 DEF Net!Resolve, Reports
    <3> QED
      BY <1>3, <3>1, <3>2 DEF Net!Event
  <2>2. events' \in Seq(Reports) /\ Len(events') = Len(events) + 1
    BY <2>1
  <2>3. ASSUME NEW i \in 1 .. Len(events') PROVE Listens(events'[i].of)
    BY <2>1, <2>2, <2>3
  <2> QED
    BY <1>1, <1>3, <2>2, <2>3 DEF Net!Event, Net!browser, Listens
<1>4. CASE Net!Take
  <2>1. events # << >> /\ events' = Tail(events) /\ UNCHANGED advert
    BY <1>4 DEF Net!Take
  <2>2. events' \in Seq(Reports) /\ Len(events') = Len(events) - 1
    BY <2>1
  <2>3. ASSUME NEW i \in 1 .. Len(events') PROVE Listens(events'[i].of)
    BY <2>1, <2>2, <2>3
  <2>4. UNCHANGED target \/ \E ip : target' = [ip |-> ip, of |-> Head(events).of]
    BY <1>4 DEF Net!Take
  <2>5. Listens(Head(events).of)
    BY <2>1
  <2>6. (target # None => Listens(target.of))'
    BY <2>4, <2>5 DEF Listens
  <2> QED
    BY <1>1, <2>1, <2>2, <2>3, <2>6 DEF Listens
<1>5. CASE Net!PollTimesOut \/ Net!Tick
  BY <1>2, <1>5 DEF Net!PollTimesOut, Net!Tick
<1>6. CASE Net!Expire
  BY <1>1, <1>6 DEF Net!Expire, Net!browser, Listens, Records
<1> QED
  BY <1>3, <1>4, <1>5, <1>6 DEF SearchNext, Net!BrowserNext

LEMMA AdvertStep == AdvertInv /\ [Next]_vars => AdvertInv'
<1> SUFFICES ASSUME AdvertInv, [Next]_vars PROVE AdvertInv'
  OBVIOUS
<1> USE DEF AdvertInv
<1>1. CASE Launch
  <2>1. rx = "down" /\ rx' = "device" /\ inc' = inc + 1 /\ sockets = Unbound
    BY <1>1 DEF Launch, SocketsBound
  <2>2. UNCHANGED <<sockets, advert, searching>> /\ port' \in Ports
    BY <1>1 DEF Launch
  <2> QED
    BY <2>1, <2>2, MainAhead DEF ReceiverAhead, SocketsBound
<1>2. CASE Killed \/ Fails
  <2>1. rx' = "down" /\ sockets' = Unbound /\ UNCHANGED <<inc, port, advert, searching>>
    BY <1>2 DEF Killed, Fails, Gone
  <2> QED
    BY <2>1, MainAhead DEF ReceiverAhead, SocketsBound, Unbound
<1>3. CASE OpenDevice
  BY <1>3, MainAhead DEF OpenDevice, Passes, ReceiverAhead, SocketsBound
<1>4. CASE BindAudio
  <2>1. rx = "audio" /\ rx' = "control" /\ sockets' = [sockets EXCEPT !["audio"] = port]
        /\ UNCHANGED <<inc, port, advert, searching>>
    BY <1>4 DEF BindAudio, Passes, Bind
  <2>2. SocketsBound'
    BY <2>1 DEF SocketsBound, Unbound
  <2> QED
    BY <2>1, <2>2, MainAhead DEF ReceiverAhead
<1>5. CASE BindControl
  <2>1. rx = "control" /\ rx' = "mdns"
        /\ sockets' = [sockets EXCEPT !["control"] = ControlPort]
        /\ UNCHANGED <<inc, port, advert, searching>>
    BY <1>5 DEF BindControl, Passes, Bind
  <2> QED
    BY <2>1, MainAhead DEF ReceiverAhead, SocketsBound
<1>6. CASE AdvertiseService
  <2> DEFINE new == [inc |-> inc, audio |-> port, control |-> ControlPort]
  <2>1. rx = "mdns" /\ rx' = "spawn" /\ advert' = new
        /\ UNCHANGED <<inc, port, sockets, searching>>
    BY <1>6 DEF AdvertiseService, Passes, Register, Net!Advertise, Net!browser, searching
  <2>2. ReceiverAhead
    BY <2>1 DEF ReceiverAhead
  <2>3. SocketsBound'
    BY <2>1 DEF SocketsBound
  <2>4. sockets = [audio |-> port, control |-> ControlPort]
    BY <2>1 DEF SocketsBound
  <2>5. Listens(advert)'
    BY <2>1, <2>4 DEF Listens
  <2>6. ASSUME NEW i \in 1 .. Len(events) PROVE Listens(events[i].of)'
    BY <2>1, <2>2, ListensStays DEF Listens, searching
  <2>7. ASSUME target # None PROVE Listens(target.of)'
    BY <2>1, <2>2, <2>7, ListensStays DEF Listens, searching
  <2> QED
    BY <2>1, <2>3, <2>5, <2>6, <2>7 DEF Records, searching
<1>7. CASE NoService \/ ServiceFails
  BY <1>7, MainAhead DEF NoService, ServiceFails, Passes, ReceiverAhead, SocketsBound
<1>8. CASE SpawnDashboard \/ NoDashboard
  <2>1. rx = "spawn" /\ rx' = "loop" /\ UNCHANGED <<inc, port, sockets, advert, searching>>
    BY <1>8 DEF SpawnDashboard, NoDashboard, Passes
  <2> QED
    BY <2>1, MainAhead DEF ReceiverAhead, SocketsBound
<1>9. CASE SearchNext
  BY <1>9, RecordsAhead DEF SearchNext
<1>10. CASE (\E p \in Dashboards : DashboardStep(p))
              \/ StandaloneStarts \/ StandaloneEnds \/ UNCHANGED vars
  <2>1. UNCHANGED <<receiver, advert, searching>>
    BY <1>10 DEF DashboardStep, StandaloneStarts, StandaloneEnds, vars
  <2> QED
    BY <2>1 DEF SocketsBound, Listens, receiver, searching
<1> QED
  BY <1>1, <1>2, <1>3, <1>4, <1>5, <1>6, <1>7, <1>8, <1>9, <1>10 DEF Next, MainNext

(* A sender that is told of the running receiver, or has found it, sends to *)
(* sockets that are bound: main advertises only after both binds.           *)
THEOREM AdvertisedIsBound == Spec => []AdvertisedListens
<1>1. AdvertInv => AdvertisedListens
  BY DEF AdvertInv, AdvertisedListens, Told, Listens
<1> QED
  BY <1>1, AdvertInit, AdvertStep, PTL DEF Spec

-----------------------------------------------------------------------------
(* The certificate store.  While no write was torn and no two dashboards    *)
(* were starting together, one dashboard at a time goes through the files,  *)
(* and a key is there only beside the certificate it belongs to: that is    *)
(* what the order of the two writes keeps through every end of a process.   *)
InHand(p) ==
  task[p] \in {"open", "write", "ready"} =>
    pair[p].cert = pair[p].key /\ pair[p].cert \in 0 .. MaxPairs

StoreTypes ==
  /\ file \in Tls!Pair /\ pair \in [Dashboards -> Tls!Pair]
  /\ task \in [Dashboards -> Tls!Steps] /\ current \in [Dashboards -> {"cert", "key"}]
  /\ made \in 0 .. MaxPairs /\ faults \in 0 .. MaxFaults /\ served \subseteq 0 .. MaxPairs
  /\ \A p \in Dashboards : InHand(p)

Recoverable == file.key = Absent \/ Tls!Usable(file)

Sound(p) ==
  /\ task[p] # "rejected"
  /\ Tls!At(p, "check", "key") => file.cert # Absent
  /\ task[p] = "read" => Tls!Usable(file)
  /\ Tls!At(p, "read", "key") => pair[p].cert = file.cert
  /\ task[p] = "generate" \/ Tls!At(p, "open", "cert") \/ Tls!At(p, "write", "cert")
     \/ Tls!At(p, "open", "key") => file.key = Absent
  /\ Tls!At(p, "open", "key") \/ Tls!At(p, "write", "key") => file.cert = pair[p].cert
  /\ task[p] = "ready" /\ faults = 0 => Tls!Usable(file) /\ file.cert = pair[p].cert

Alone == \A p, q \in Dashboards : Tls!Starting(p) /\ Tls!Starting(q) => p = q

Kept ==
  /\ (\A p \in Dashboards : task[p] \notin {"open", "write"}) => Recoverable
  /\ faults = 0 => served = {} \/ (served = {file.cert} /\ Tls!Usable(file))

StoreOK  == Alone /\ Kept /\ \A p \in Dashboards : Sound(p)
StoreInv == StoreTypes /\ (torn \/ mixed \/ StoreOK)

LEMMA StoreConstants ==
  /\ MaxPairs \in Nat /\ MaxFaults \in Nat
  /\ Absent # Partial /\ Absent \notin Nat /\ Partial \notin Nat
  BY StartupAssumption DEF Tls!TlsStoreAssumption

LEMMA PairType ==
  ASSUME NEW c \in Tls!Contents, NEW k \in Tls!Contents
  PROVE  [cert |-> c, key |-> k] \in Tls!Pair
  BY DEF Tls!Pair

LEMMA StoreInit == Init => StoreInv
<1> SUFFICES ASSUME Init PROVE StoreInv
  OBVIOUS
<1> USE StoreConstants
<1>1. StoreTypes
  <2>1. {0, Absent} \subseteq Tls!Contents
    BY DEF Tls!Contents
  <2>2. Tls!Nothing \in Tls!Pair /\ file \in Tls!Pair
    BY <2>1, PairType DEF Init, Tls!Init, Tls!Nothing
  <2> QED
    BY <2>2 DEF Init, Tls!Init, StoreTypes, InHand, Tls!Steps, Tls!Idle
<1>2. StoreOK
  BY DEF Init, Tls!Init, StoreOK, Alone, Kept, Sound, Tls!Starting, Tls!Idle, Tls!At, Recoverable,
         Tls!Usable, Tls!Nothing
<1> QED
  BY <1>1, <1>2 DEF StoreInv

(* What Go does to the dashboard that moves and to the others.              *)
LEMMA GoMoves ==
  ASSUME StoreTypes, NEW p \in Dashboards, NEW step, NEW f, Tls!Go(p, step, f)
  PROVE  /\ task'[p] = step /\ current'[p] = f
         /\ \A q \in Dashboards \ {p} : task'[q] = task[q] /\ current'[q] = current[q]
  BY DEF StoreTypes, Tls!Go

LEMMA GoTypes ==
  ASSUME StoreTypes, NEW p \in Dashboards, NEW step \in Tls!Steps, NEW f \in {"cert", "key"},
         Tls!Go(p, step, f)
  PROVE  task' \in [Dashboards -> Tls!Steps] /\ current' \in [Dashboards -> {"cert", "key"}]
  BY DEF StoreTypes, Tls!Go

(* A dashboard that is starting has no rival: what is left to show of its   *)
(* step concerns itself and the files.                                      *)
LEMMA NoRival ==
  ASSUME StoreTypes, StoreOK, NEW p \in Dashboards, Tls!Starting(p),
         NEW step, NEW f, Tls!Go(p, step, f)
  PROVE  /\ \A q \in Dashboards \ {p} : task'[q] \in Tls!Idle /\ Sound(q)'
         /\ Alone'
         /\ Sound(p)' /\ Kept' => StoreOK'
<1>1. \A q \in Dashboards \ {p} : ~ Tls!Starting(q) /\ task'[q] = task[q]
  BY GoMoves DEF StoreOK, Alone
<1>2. \A q \in Dashboards \ {p} : task'[q] \in Tls!Idle
  BY <1>1 DEF Tls!Starting
<1>3. \A q \in Dashboards \ {p} : Sound(q)'
  BY <1>1, <1>2 DEF StoreOK, Sound, Tls!At, Tls!Idle
<1>4. Alone'
  BY <1>2 DEF Alone, Tls!Starting
<1> QED
  BY <1>2, <1>3, <1>4 DEF StoreOK

(* Types: every step of a dashboard keeps them.                             *)
LEMMA StoreTypesStep ==
  ASSUME StoreTypes, NEW p \in Dashboards,
         Tls!Step(p) \/ Tls!Start(p) \/ Tls!End(p)
  PROVE  StoreTypes'
<1> USE StoreConstants DEF Tls!Steps, Tls!Idle
<1> DEFINE Moved == task' \in [Dashboards -> Tls!Steps]
                    /\ current' \in [Dashboards -> {"cert", "key"}]
<1>0. Tls!Nothing \in Tls!Pair
  BY PairType DEF Tls!Nothing, Tls!Contents
<1>1. CASE Tls!Start(p) \/ Tls!End(p)
  <2>1. \E step \in Tls!Steps : Tls!Go(p, step, "cert") /\ step \in {"check", "down"}
    BY <1>1 DEF Tls!Start, Tls!End
  <2>2. Moved
    BY <2>1, GoTypes
  <2>3. pair' \in [Dashboards -> Tls!Pair] /\ \A q \in Dashboards \ {p} : pair'[q] = pair[q]
    BY <1>0, <1>1 DEF Tls!Start, Tls!End, StoreTypes
  <2>4. UNCHANGED <<file, made, faults, served>>
    BY <1>1 DEF Tls!Start, Tls!End, Tls!files
  <2>5. \A q \in Dashboards : InHand(q)'
    BY <2>1, <2>3, GoMoves DEF StoreTypes, InHand
  <2> QED
    BY <2>2, <2>3, <2>4, <2>5 DEF StoreTypes
<1>2. ASSUME NEW f \in {"cert", "key"}, Tls!Check(p, f) PROVE StoreTypes'
  <2>1. \E step \in {"generate", "check", "read"}, g \in {"cert", "key"} : Tls!Go(p, step, g)
    BY <1>2 DEF Tls!Check
  <2>2. Moved
    BY <2>1, GoTypes
  <2>3. UNCHANGED <<file, made, faults, pair, served>>
    BY <1>2 DEF Tls!Check, Tls!files, Tls!history
  <2>4. \A q \in Dashboards : InHand(q)'
    BY <2>1, <2>3, GoMoves DEF StoreTypes, InHand
  <2> QED
    BY <2>2, <2>3, <2>4 DEF StoreTypes
<1>3. ASSUME NEW f \in {"cert", "key"}, Tls!Read(p, f) PROVE StoreTypes'
  <2>1. pair' = [pair EXCEPT ![p][f] = file[f]] /\ UNCHANGED <<file, made, faults, served>>
    BY <1>3 DEF Tls!Read, Tls!files, Tls!history
  <2>2. pair' \in [Dashboards -> Tls!Pair] /\ \A q \in Dashboards \ {p} : pair'[q] = pair[q]
    BY <2>1 DEF StoreTypes, Tls!Pair
  <2>3. \E step \in {"read", "ready", "rejected"}, g \in {"cert", "key"} :
           Tls!Go(p, step, g) /\ (step = "ready" => Tls!Usable(pair'[p]))
    BY <1>3 DEF Tls!Read
  <2>4. Moved
    BY <2>3, GoTypes
  <2>5. Tls!Usable(pair'[p]) => pair'[p].cert \in 0 .. MaxPairs /\ pair'[p].cert = pair'[p].key
    BY <2>2 DEF Tls!Usable, Tls!Pair, Tls!Contents
  <2>6. \A q \in Dashboards : InHand(q)'
    BY <2>2, <2>3, <2>5, GoMoves DEF StoreTypes, InHand
  <2> QED
    BY <2>1, <2>2, <2>4, <2>6 DEF StoreTypes
<1>4. CASE Tls!Generate(p)
  <2>1. made' \in 0 .. MaxPairs /\ faults' \in 0 .. MaxFaults /\ UNCHANGED <<file, served>>
    BY <1>4 DEF Tls!Generate, Tls!history, StoreTypes
  <2>2. [cert |-> made', key |-> made'] \in Tls!Pair
    BY <2>1, PairType DEF Tls!Contents
  <2>3. pair' \in [Dashboards -> Tls!Pair] /\ pair'[p] = [cert |-> made', key |-> made']
        /\ \A q \in Dashboards \ {p} : pair'[q] = pair[q]
    BY <1>4, <2>2 DEF Tls!Generate, StoreTypes
  <2>4. \E step \in {"open", "ready"} : Tls!Go(p, step, "cert")
    BY <1>4 DEF Tls!Generate
  <2>5. Moved
    BY <2>4, GoTypes
  <2>6. \A q \in Dashboards : InHand(q)'
    BY <2>1, <2>3, <2>4, GoMoves DEF StoreTypes, InHand
  <2> QED
    BY <2>1, <2>3, <2>5, <2>6 DEF StoreTypes
<1>5. ASSUME NEW f \in {"cert", "key"}, Tls!Open(p, f) \/ Tls!Write(p, f) \/ Tls!WriteFails(p, f)
      PROVE StoreTypes'
  <2>1. task[p] \in {"open", "write"}
    BY <1>5 DEF Tls!Open, Tls!Write, Tls!WriteFails, Tls!At
  <2>2. \E step \in {"open", "write", "ready"}, g \in {"cert", "key"} : Tls!Go(p, step, g)
    BY <1>5 DEF Tls!Open, Tls!Write, Tls!WriteFails, Tls!AfterWrite
  <2>3. Moved
    BY <2>2, GoTypes
  <2>4. file' \in Tls!Pair
    <3>1. Partial \in Tls!Contents /\ pair[p][f] \in Tls!Contents
      BY DEF StoreTypes, Tls!Pair, Tls!Contents
    <3>2. \/ file' = file \/ file' = [file EXCEPT ![f] = Partial]
          \/ file' = [file EXCEPT ![f] = pair[p][f]]
      BY <1>5 DEF Tls!Open, Tls!Write, Tls!WriteFails
    <3> QED
      BY <3>1, <3>2 DEF StoreTypes, Tls!Pair
  <2>5. faults' \in 0 .. MaxFaults /\ UNCHANGED <<made, pair, served>>
    BY <1>5 DEF Tls!Open, Tls!Write, Tls!WriteFails, Tls!history, StoreTypes
  <2>6. \A q \in Dashboards : InHand(q)'
    BY <2>1, <2>2, <2>5, GoMoves DEF StoreTypes, InHand
  <2> QED
    BY <2>3, <2>4, <2>5, <2>6 DEF StoreTypes
<1>6. CASE Tls!Serve(p)
  <2>1. \E step \in {"refused", "serving"} : Tls!Go(p, step, "cert")
    BY <1>6 DEF Tls!Serve
  <2>2. Moved
    BY <2>1, GoTypes
  <2>3. UNCHANGED <<file, made, faults, pair>>
    BY <1>6 DEF Tls!Serve, Tls!files
  <2>4. served' \subseteq 0 .. MaxPairs
    BY <1>6 DEF Tls!Serve, StoreTypes, InHand
  <2>5. \A q \in Dashboards : InHand(q)'
    BY <2>1, <2>3, GoMoves DEF StoreTypes, InHand
  <2> QED
    BY <2>2, <2>3, <2>4, <2>5 DEF StoreTypes
<1> QED
  BY <1>1, <1>2, <1>3, <1>4, <1>5, <1>6 DEF Tls!Step

(* Looking at the files changes none of them.                               *)
LEMMA CheckKeeps ==
  ASSUME StoreTypes, StoreOK, NEW p \in Dashboards, NEW f \in {"cert", "key"}, Tls!Check(p, f)
  PROVE  StoreOK'
<1>1. task[p] = "check" /\ current[p] = f /\ Tls!Starting(p)
  BY DEF Tls!Check, Tls!At, Tls!Starting, Tls!Idle
<1>2. UNCHANGED <<file, faults, served, pair>>
  BY DEF Tls!Check, Tls!files, Tls!history
<1>3. Recoverable
  BY <1>1 DEF StoreOK, Kept, Alone, Tls!Starting, Tls!Idle
<1>4. CASE file[f] = Absent /\ Tls!Go(p, "generate", "cert")
  <2>1. file.key = Absent
    BY <1>3, <1>4 DEF Recoverable, Tls!Usable
  <2> QED
    BY <1>1, <1>2, <1>3, <1>4, <2>1, GoMoves, NoRival
       DEF Sound, Tls!At, Kept, Recoverable, StoreOK
<1>5. CASE f = "cert" /\ file.cert # Absent /\ Tls!Go(p, "check", "key")
  BY <1>1, <1>2, <1>3, <1>5, GoMoves, NoRival DEF Sound, Tls!At, Kept, Recoverable, StoreOK
<1>6. CASE f = "key" /\ file.key # Absent /\ Tls!Go(p, "read", "cert")
  BY <1>1, <1>2, <1>3, <1>6, GoMoves, NoRival DEF Sound, Tls!At, Kept, Recoverable, StoreOK
<1> QED
  BY <1>4, <1>5, <1>6 DEF Tls!Check

LEMMA ReadKeeps ==
  ASSUME StoreTypes, StoreOK, NEW p \in Dashboards, NEW f \in {"cert", "key"}, Tls!Read(p, f)
  PROVE  StoreOK'
<1>1. task[p] = "read" /\ current[p] = f /\ Tls!Starting(p)
  BY DEF Tls!Read, Tls!At, Tls!Starting, Tls!Idle
<1>2. UNCHANGED <<file, faults, served>> /\ Tls!Usable(file)
  BY <1>1 DEF Tls!Read, Tls!files, Tls!history, StoreOK, Sound
<1>3. pair'[p] = [pair[p] EXCEPT ![f] = file[f]] /\ pair[p] \in Tls!Pair
  BY DEF Tls!Read, StoreTypes
<1>4. pair'[p].cert = file.cert
  BY <1>1, <1>3 DEF StoreOK, Sound, Tls!At, Tls!Pair
<1>5. f = "key" => pair'[p].key = file.key
  BY <1>3 DEF Tls!Pair
<1>6. Kept'
  BY <1>2 DEF Kept, StoreOK, Recoverable
<1>7. CASE f = "cert" /\ Tls!Go(p, "read", "key")
  BY <1>1, <1>2, <1>4, <1>6, <1>7, GoMoves, NoRival DEF Sound, Tls!At
<1>8. CASE f = "key" /\ Tls!Go(p, "ready", "cert")
  BY <1>1, <1>2, <1>4, <1>6, <1>8, GoMoves, NoRival DEF Sound, Tls!At
<1>9. f = "key" => Tls!Usable(pair'[p])
  BY <1>2, <1>4, <1>5 DEF Tls!Usable
<1> QED
  BY <1>7, <1>8, <1>9 DEF Tls!Read

(* A pair is generated only where no key is stored, and nothing was served. *)
LEMMA GenerateKeeps ==
  ASSUME StoreTypes, StoreOK, NEW p \in Dashboards, Tls!Generate(p)
  PROVE  StoreOK'
<1>1. task[p] = "generate" /\ Tls!Starting(p)
  BY DEF Tls!Generate, Tls!Starting, Tls!Idle
<1>2. file.key = Absent /\ ~ Tls!Usable(file) /\ UNCHANGED <<file, served>>
  BY <1>1 DEF Tls!Generate, Tls!history, StoreOK, Sound, Tls!Usable
<1>3. CASE Tls!Go(p, "open", "cert") /\ UNCHANGED faults
  BY <1>1, <1>2, <1>3, GoMoves, NoRival DEF Sound, Tls!At, Kept, Recoverable, StoreOK
<1>4. CASE Tls!Go(p, "ready", "cert") /\ faults' = faults + 1
  <2>1. faults' # 0
    BY <1>4 DEF StoreTypes
  <2> QED
    BY <1>1, <1>2, <1>4, <2>1, GoMoves, NoRival DEF Sound, Tls!At, Kept, Recoverable, StoreOK
<1> QED
  BY <1>3, <1>4 DEF Tls!Generate

LEMMA OpenKeeps ==
  ASSUME StoreTypes, StoreOK, NEW p \in Dashboards, NEW f \in {"cert", "key"}, Tls!Open(p, f)
  PROVE  StoreOK'
<1> USE StoreConstants
<1>1. task[p] = "open" /\ current[p] = f /\ Tls!Starting(p)
  BY DEF Tls!Open, Tls!At, Tls!Starting, Tls!Idle
<1>2. file' = [file EXCEPT ![f] = Partial] /\ UNCHANGED <<faults, pair, served>>
      /\ Tls!Go(p, "write", f)
  BY DEF Tls!Open, Tls!history
<1>3. file.key = Absent /\ ~ Tls!Usable(file)
  BY <1>1 DEF StoreOK, Sound, Tls!At, Tls!Usable
<1>4. Kept'
  BY <1>1, <1>2, <1>3, GoMoves DEF StoreOK, Kept
<1>5. CASE f = "cert"
  <2>1. file'.key = Absent
    BY <1>2, <1>3, <1>5 DEF StoreTypes, Tls!Pair
  <2> QED
    BY <1>1, <1>2, <1>4, <1>5, <2>1, GoMoves, NoRival DEF Sound, Tls!At
<1>6. CASE f = "key"
  <2>1. file'.cert = file.cert /\ file.cert = pair[p].cert
    BY <1>1, <1>2, <1>6 DEF StoreTypes, Tls!Pair, StoreOK, Sound, Tls!At
  <2> QED
    BY <1>1, <1>2, <1>4, <1>6, <2>1, GoMoves, NoRival DEF Sound, Tls!At
<1> QED
  BY <1>5, <1>6

LEMMA WriteKeeps ==
  ASSUME StoreTypes, StoreOK, NEW p \in Dashboards, NEW f \in {"cert", "key"}, Tls!Write(p, f)
  PROVE  StoreOK'
<1> USE StoreConstants
<1>1. task[p] = "write" /\ current[p] = f /\ Tls!Starting(p)
  BY DEF Tls!Write, Tls!At, Tls!Starting, Tls!Idle
<1>2. file' = [file EXCEPT ![f] = pair[p][f]] /\ UNCHANGED <<faults, pair, served>>
      /\ Tls!AfterWrite(p, f)
  BY DEF Tls!Write, Tls!history
<1>3. pair[p].cert = pair[p].key /\ pair[p].cert \notin {Absent, Partial}
  BY <1>1 DEF StoreTypes, InHand
<1>4. CASE f = "cert"
  <2>1. file.key = Absent /\ ~ Tls!Usable(file)
    BY <1>1, <1>4 DEF StoreOK, Sound, Tls!At, Tls!Usable
  <2>2. file'.key = Absent /\ file'.cert = pair[p].cert
    BY <1>2, <1>4, <2>1 DEF StoreTypes, Tls!Pair
  <2>3. Tls!Go(p, "open", "key")
    BY <1>2, <1>4 DEF Tls!AfterWrite
  <2>4. Kept'
    BY <1>1, <1>2, <2>1, <2>3, GoMoves DEF StoreOK, Kept
  <2> QED
    BY <1>1, <1>2, <2>2, <2>3, <2>4, GoMoves, NoRival DEF Sound, Tls!At
<1>5. CASE f = "key"
  <2>1. file.cert = pair[p].cert
    BY <1>1, <1>5 DEF StoreOK, Sound, Tls!At
  <2>2. file'.key = pair[p].key /\ file'.cert = file.cert
    BY <1>2, <1>5, <2>1 DEF StoreTypes, Tls!Pair
  <2>3. Tls!Go(p, "ready", "cert")
    BY <1>2, <1>5 DEF Tls!AfterWrite
  <2>4. Tls!Usable(file)'
    BY <1>3, <2>1, <2>2 DEF Tls!Usable
  <2>5. Kept'
    BY <1>2, <2>2, <2>4 DEF StoreOK, Kept, Recoverable
  <2>6. task'[p] = "ready" /\ file'.cert = pair'[p].cert
    BY <1>2, <2>1, <2>2, <2>3, GoMoves
  <2>7. Sound(p)'
    BY <2>4, <2>6 DEF Sound, Tls!At
  <2> QED
    BY <1>1, <2>3, <2>5, <2>7, NoRival
<1> QED
  BY <1>4, <1>5

LEMMA ServeKeeps ==
  ASSUME StoreTypes, StoreOK, NEW p \in Dashboards, Tls!Serve(p)
  PROVE  StoreOK'
<1>1. task[p] = "ready" /\ Tls!Starting(p)
  BY DEF Tls!Serve, Tls!Starting, Tls!Idle
<1>2. UNCHANGED <<file, faults, pair>> /\ (UNCHANGED served \/ served' = served \cup {pair[p].cert})
  BY DEF Tls!Serve, Tls!files
<1>3. \E step \in {"refused", "serving"} : Tls!Go(p, step, "cert")
  BY DEF Tls!Serve
<1>4. faults = 0 => Tls!Usable(file) /\ file.cert = pair[p].cert
  BY <1>1 DEF StoreOK, Sound
<1>5. Recoverable
  BY <1>1 DEF StoreOK, Kept, Alone, Tls!Starting, Tls!Idle
<1>6. Kept'
  BY <1>2, <1>4, <1>5 DEF StoreOK, Kept, Recoverable
<1> QED
  BY <1>1, <1>3, <1>6, GoMoves, NoRival DEF Sound, Tls!At

(* A dashboard starts over what an earlier one left.                        *)
LEMMA StartKeeps ==
  ASSUME StoreTypes, StoreOK, NEW p \in Dashboards, Tls!Start(p)
  PROVE  mixed' \/ StoreOK'
<1> SUFFICES ASSUME ~ mixed' PROVE StoreOK'
  OBVIOUS
<1>1. \A q \in Dashboards \ {p} : ~ Tls!Starting(q)
  BY DEF Tls!Start
<1>2. task[p] \in Tls!Idle /\ Tls!Go(p, "check", "cert") /\ UNCHANGED <<file, faults, served>>
  BY DEF Tls!Start, Tls!Idle, Tls!files
<1>3. \A q \in Dashboards \ {p} : task'[q] = task[q] /\ task[q] \in Tls!Idle
  BY <1>1, <1>2, GoMoves DEF Tls!Starting
<1>4. Recoverable
  BY <1>2, <1>3 DEF StoreOK, Kept, Tls!Idle
<1>5. Alone' /\ Kept'
  BY <1>2, <1>3, <1>4 DEF Alone, Tls!Starting, StoreOK, Kept, Recoverable
<1>6. Sound(p)'
  BY <1>2, GoMoves DEF Sound, Tls!At
<1>7. \A q \in Dashboards \ {p} : Sound(q)'
  BY <1>3 DEF StoreOK, Sound, Tls!At, Tls!Idle
<1> QED
  BY <1>5, <1>6, <1>7 DEF StoreOK

(* A process that ends leaves a store from which the next start recovers,   *)
(* unless it was filling the key.                                           *)
LEMMA EndKeeps ==
  ASSUME StoreTypes, StoreOK, NEW p \in Dashboards, Tls!End(p)
  PROVE  torn' \/ StoreOK'
<1> SUFFICES ASSUME ~ torn' PROVE StoreOK'
  OBVIOUS
<1>1. ~ Tls!At(p, "write", "key") /\ Tls!Go(p, "down", "cert") /\ UNCHANGED <<file, faults, served>>
      /\ \A q \in Dashboards \ {p} : pair'[q] = pair[q]
  BY DEF Tls!End, Tls!files, StoreTypes
<1>2. task'[p] = "down" /\ \A q \in Dashboards \ {p} : task'[q] = task[q] /\ current'[q] = current[q]
  BY <1>1, GoMoves
<1>3. Alone'
  BY <1>2 DEF StoreOK, Alone, Tls!Starting, Tls!Idle
<1>4. \A q \in Dashboards : Sound(q)'
  BY <1>1, <1>2 DEF StoreOK, Sound, Tls!At
<1>5. task[p] \in {"open", "write"} => Recoverable
  BY <1>1 DEF StoreOK, Sound, Tls!At, Recoverable, StoreTypes
<1>6. Kept'
  BY <1>1, <1>2, <1>5 DEF StoreOK, Kept, Recoverable
<1> QED
  BY <1>3, <1>4, <1>6 DEF StoreOK

(* One step of one dashboard.                                               *)
LEMMA DashboardKeeps ==
  ASSUME StoreInv, NEW p \in Dashboards, Tls!Step(p) \/ Tls!Start(p) \/ Tls!End(p)
  PROVE  StoreInv'
<1>1. StoreTypes'
  BY StoreTypesStep DEF StoreInv
<1>2. torn \/ mixed => torn' \/ mixed'
  BY DEF Tls!Step, Tls!Check, Tls!Read, Tls!Generate, Tls!Open, Tls!Write, Tls!WriteFails,
         Tls!Serve, Tls!Start, Tls!End, Tls!history
<1>3. ASSUME StoreOK PROVE torn' \/ mixed' \/ StoreOK'
  <2>1. ASSUME NEW f \in {"cert", "key"}, Tls!WriteFails(p, f) PROVE torn'
    BY <2>1 DEF Tls!WriteFails
  <2> QED
    BY <1>3, <2>1, CheckKeeps, ReadKeeps, GenerateKeeps, OpenKeeps, WriteKeeps, ServeKeeps,
       StartKeeps, EndKeeps DEF Tls!Step, StoreInv
<1> QED
  BY <1>1, <1>2, <1>3 DEF StoreInv

LEMMA StoreStep == StoreInv /\ [Next]_vars => StoreInv'
<1> SUFFICES ASSUME StoreInv, [Next]_vars PROVE StoreInv'
  OBVIOUS
<1>1. CASE UNCHANGED dashboard
  BY <1>1 DEF dashboard, store, StoreInv, StoreTypes, InHand, StoreOK, Alone, Kept, Sound, Recoverable,
              Tls!At, Tls!Starting, Tls!Usable
<1>2. CASE \E p \in Dashboards : Tls!Step(p) \/ Tls!Start(p) \/ Tls!End(p)
  BY <1>2, DashboardKeeps
<1>3. "receiver" \in Dashboards /\ "standalone" \in Dashboards
  BY DEF Dashboards
<1>4. CASE Killed \/ Fails
  BY <1>1, <1>2, <1>3, <1>4 DEF Killed, Fails, Gone
<1>5. CASE Launch \/ OpenDevice \/ BindAudio \/ BindControl \/ AdvertiseService \/ NoService
             \/ ServiceFails \/ NoDashboard \/ SearchNext \/ UNCHANGED vars
  BY <1>1, <1>5 DEF Launch, OpenDevice, BindAudio, BindControl, Bind, AdvertiseService, NoService,
                    ServiceFails, NoDashboard, SearchNext, vars
<1>6. CASE SpawnDashboard \/ (\E p \in Dashboards : DashboardStep(p))
             \/ StandaloneStarts \/ StandaloneEnds
  BY <1>2, <1>3, <1>6 DEF SpawnDashboard, DashboardStep, StandaloneStarts, StandaloneEnds
<1> QED
  BY <1>4, <1>5, <1>6 DEF Next, MainNext

LEMMA StoreInvariant == Spec => []StoreInv
  BY StoreInit, StoreStep, PTL DEF Spec

(* Whatever the order in which dashboards start, write and end, a stored    *)
(* pair is refused only after a torn write or two starts at once.           *)
THEOREM StoredPairIsUsable == Spec => []RejectedOnlyIfDamaged
<1>1. StoreInv => RejectedOnlyIfDamaged
  BY DEF StoreInv, StoreOK, Sound, RejectedOnlyIfDamaged, Tls!RejectedOnlyIfDamaged
<1> QED
  BY <1>1, StoreInvariant, PTL

(* With the same exceptions every start serves one certificate, as long as  *)
(* it could be saved.                                                       *)
THEOREM OneCertificate == Spec => []CertificateIsStable
<1>1. ASSUME StoreInv PROVE CertificateIsStable
  <2>1. CASE torn \/ mixed \/ faults > 0
    BY <2>1 DEF CertificateIsStable, Tls!CertificateIsStable
  <2>2. CASE faults = 0 /\ StoreOK
    BY <2>2 DEF StoreOK, Kept, CertificateIsStable, Tls!CertificateIsStable
  <2>3. faults = 0 \/ faults > 0
    BY <1>1 DEF StoreInv, StoreTypes
  <2> QED
    BY <1>1, <2>1, <2>2, <2>3 DEF StoreInv
<1> QED
  BY <1>1, StoreInvariant, PTL

-----------------------------------------------------------------------------
(* The rest of the types: the counters and the browse channel, which never  *)
(* holds more events than there have been.                                  *)
CounterTypes ==
  /\ torn \in BOOLEAN /\ mixed \in BOOLEAN
  /\ listen \in [Dashboards -> HttpPorts] /\ flags \subseteq {"mdns", "dashboard"}
  /\ inc \in 0 .. MaxStarts /\ alone \in 0 .. MaxAlone
  /\ search \in {"polling", "found", "timedOut"}
  /\ count \in 0 .. MaxEvents /\ Len(events) <= count

TypeInv == StoreInv /\ AdvertInv /\ CounterTypes

LEMMA TypesInit == Init => TypeInv
<1> SUFFICES ASSUME Init PROVE CounterTypes
  BY StoreInit, AdvertInit DEF TypeInv
<1>1. MaxStarts \in Nat /\ MaxAlone \in Nat /\ MaxEvents \in Nat
  BY StartupAssumption DEF Net!DiscoveryAssumption
<1>2. torn \in BOOLEAN /\ mixed \in BOOLEAN
  BY Zenon DEF Init, Tls!Init
<1>3. /\ listen \in [Dashboards -> HttpPorts] /\ flags = {}
      /\ inc = 0 /\ alone = 0 /\ search = "polling" /\ count = 0 /\ events = << >>
  BY DEF Init, Tls!Init, Net!Init
<1> QED
  BY <1>1, <1>2, <1>3 DEF CounterTypes

LEMMA HistoryTypes ==
  ASSUME CounterTypes, NEW p \in Dashboards, Tls!Step(p) \/ Tls!Start(p) \/ Tls!End(p)
  PROVE  torn' \in BOOLEAN /\ mixed' \in BOOLEAN /\ listen' \in [Dashboards -> HttpPorts]
<1>5. listen' \in [Dashboards -> HttpPorts]
  <2>1. UNCHANGED listen \/ \E n \in HttpPorts : listen' = [listen EXCEPT ![p] = n]
    BY DEF Tls!Step, Tls!Check, Tls!Read, Tls!Generate, Tls!Open, Tls!Write, Tls!WriteFails,
           Tls!Serve, Tls!Start, Tls!End
  <2> QED
    BY <2>1 DEF CounterTypes
<1>1. torn \in BOOLEAN /\ mixed \in BOOLEAN
  BY DEF CounterTypes
<1>2. CASE Tls!Step(p)
  BY <1>1, <1>2, <1>5 DEF Tls!Step, Tls!Check, Tls!Read, Tls!Generate, Tls!Open, Tls!Write,
                    Tls!WriteFails, Tls!Serve, Tls!history
<1>3. CASE Tls!Start(p)
  <2>1. UNCHANGED torn /\ mixed' = (mixed \/ \E q \in Dashboards \ {p} : Tls!Starting(q))
    BY <1>3 DEF Tls!Start
  <2> QED
    BY ONLY <1>1, <1>5, <2>1, Zenon
<1>4. CASE Tls!End(p)
  <2>1. UNCHANGED mixed /\ torn' = (torn \/ Tls!At(p, "write", "key"))
    BY <1>4 DEF Tls!End
  <2> QED
    BY ONLY <1>1, <1>5, <2>1, Zenon
<1> QED
  BY <1>2, <1>3, <1>4, <1>5

LEMMA CountersStep == AdvertInv /\ CounterTypes /\ [Next]_vars => CounterTypes'
<1> SUFFICES ASSUME AdvertInv, CounterTypes, [Next]_vars PROVE CounterTypes'
  OBVIOUS
<1>1. /\ MaxStarts \in Nat /\ MaxAlone \in Nat /\ MaxEvents \in Nat
      /\ "receiver" \in Dashboards /\ "standalone" \in Dashboards
  BY StartupAssumption DEF Net!DiscoveryAssumption, Dashboards
<1>2. torn' \in BOOLEAN /\ mixed' \in BOOLEAN /\ listen' \in [Dashboards -> HttpPorts]
  <2>1. CASE \E p \in Dashboards : Tls!Step(p) \/ Tls!Start(p) \/ Tls!End(p)
    BY <2>1, HistoryTypes
  <2>2. CASE UNCHANGED dashboard
    BY <2>2 DEF dashboard, store, CounterTypes
  <2> QED
    BY <1>1, <2>1, <2>2
       DEF Next, MainNext, Launch, OpenDevice, BindAudio, BindControl, Bind, AdvertiseService,
           NoService, ServiceFails, NoDashboard, SearchNext, vars, Killed, Fails, Gone, SpawnDashboard,
           DashboardStep, StandaloneStarts, StandaloneEnds
<1>6. flags' \subseteq {"mdns", "dashboard"}
  <2>1. UNCHANGED flags \/ flags' \in SUBSET {"mdns", "dashboard"}
    BY DEF Next, MainNext, Launch, OpenDevice, BindAudio, BindControl, AdvertiseService, NoService,
           ServiceFails, NoDashboard, SearchNext, vars, Killed, Fails, Gone, SpawnDashboard,
           DashboardStep, StandaloneStarts, StandaloneEnds, Passes, receiver
  <2> QED
    BY <2>1 DEF CounterTypes
<1>3. inc' \in 0 .. MaxStarts /\ alone' \in 0 .. MaxAlone
  BY <1>1 DEF CounterTypes, Next, MainNext, Launch, OpenDevice, BindAudio, BindControl, Bind,
              AdvertiseService, NoService, ServiceFails, NoDashboard, SearchNext, vars, Killed, Fails, Gone,
              SpawnDashboard, DashboardStep, StandaloneStarts, StandaloneEnds, Passes,
              receiver, dashboard
<1>4. CASE UNCHANGED searching
  BY <1>2, <1>3, <1>4, <1>6 DEF searching, CounterTypes
<1>5. CASE SearchNext
  <2>1. events \in Seq(Reports) /\ Len(events) \in Nat
    BY DEF AdvertInv
  <2>2. CASE Net!Event
    <3>1. /\ count' = count + 1 /\ count < MaxEvents /\ UNCHANGED search
          /\ \E e : events' = Append(events, e)
      BY <2>2 DEF Net!Event, Net!Other, Net!Resolve, Net!browser
    <3>2. Len(events') = Len(events) + 1
      BY <2>1, <3>1
    <3> QED
      BY <1>1, <1>2, <1>3, <1>6, <2>1, <3>1, <3>2 DEF CounterTypes
  <2>3. CASE Net!Take
    <3>1. /\ events # << >> /\ events' = Tail(events) /\ UNCHANGED count
          /\ search' \in {search, "found", "timedOut"}
      BY <2>3 DEF Net!Take, Net!PollAgain
    <3>2. Len(events') = Len(events) - 1
      BY <2>1, <3>1
    <3> QED
      BY <1>1, <1>2, <1>3, <1>6, <2>1, <3>1, <3>2 DEF CounterTypes
  <2>4. CASE Net!PollTimesOut \/ Net!Tick \/ Net!Expire
    <3>1. UNCHANGED <<events, count>> /\ search' \in {search, "timedOut"}
      BY <2>4 DEF Net!PollTimesOut, Net!Tick, Net!Expire, Net!PollAgain, Net!browser
    <3> QED
      BY <1>2, <1>3, <1>6, <3>1 DEF CounterTypes
  <2> QED
    BY <1>5, <2>2, <2>3, <2>4 DEF SearchNext, Net!BrowserNext
<1> QED
  BY <1>4, <1>5 DEF Next, MainNext, Launch, OpenDevice, BindAudio, BindControl, Bind,
              AdvertiseService, Register, Net!Advertise, Net!browser, NoService, ServiceFails,
              NoDashboard, vars,
              Killed, Fails, Gone, SpawnDashboard, DashboardStep, StandaloneStarts,
              StandaloneEnds, searching

(* Type correctness of the programs' start, the certificate store and the   *)
(* search together: among others the bounds of the browse channel, and that *)
(* a socket is bound to its own port or to none.                            *)
THEOREM TypeCorrect == Spec => []TypeOK
<1>1. ASSUME TypeInv PROVE TypeOK
  <2>1. Tls!TypeOK
    BY <1>1 DEF TypeInv, StoreInv, StoreTypes, CounterTypes, Tls!TypeOK
  <2>2. sockets \in [audio : Ports \cup {None}, control : {ControlPort, None}]
    <3>1. /\ sockets = [audio |-> sockets["audio"], control |-> sockets["control"]]
          /\ sockets["audio"] \in Ports \cup {None}
          /\ sockets["control"] \in {ControlPort, None}
      BY <1>1 DEF TypeInv, AdvertInv, SocketsBound, Unbound
    <3> QED
      BY <3>1
  <2>3. Len(events) <= MaxEvents
    <3>1. Len(events) \in Nat /\ MaxEvents \in Nat
      BY <1>1, StartupAssumption DEF TypeInv, AdvertInv, Net!DiscoveryAssumption
    <3> QED
      BY <1>1, <3>1 DEF TypeInv, CounterTypes
  <2> QED
    BY <1>1, <2>1, <2>2, <2>3 DEF TypeInv, AdvertInv, SocketsBound, CounterTypes, TypeOK
<1>2. TypeInv /\ [Next]_vars => TypeInv'
  BY StoreStep, AdvertStep, CountersStep DEF TypeInv
<1> QED
  BY <1>1, <1>2, TypesInit, PTL DEF Spec

=============================================================================
