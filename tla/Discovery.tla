----------------------------- MODULE Discovery -----------------------------
(***************************************************************************)
(* How the sender finds a receiver: the advertisement of receiver/src/     *)
(* discovery.rs, the browsing of sender/src/discovery.rs, and mDNS between *)
(* them, which is external.  Time is in steps of which a poll takes Poll   *)
(* (200 ms) and the search Deadline (5 s).                                 *)
(***************************************************************************)
EXTENDS Naturals, Sequences

CONSTANTS
  IPv4, IPv6,  (* addresses of the receiver's host                           *)
  Poll,        (* the longest wait for an event                              *)
  Deadline,    (* the timeout of the search                                  *)
  None,
  MaxEvents    (* bound: events of one search                                *)

DiscoveryAssumption ==
  /\ IPv4 \cap IPv6 = {} /\ None \notin IPv4 \cup IPv6
  /\ Poll \in Nat \ {0} /\ Deadline \in Nat \ {0} /\ MaxEvents \in Nat

VARIABLES
  advert,   (* what mDNS knows of the receiver: a record, or None            *)
  search,   (* "polling", "found" or "timedOut"                              *)
  now,      (* time since the search began                                   *)
  pollEnd,  (* when recv_timeout gives up                                    *)
  events,   (* the browse channel                                            *)
  count,    (* events so far                                                 *)
  target    (* what discover_receiver returns: address and advertisement     *)

browser == <<search, now, pollEnd, target>>
vars    == <<advert, browser, events, count>>

Init ==
  /\ advert = None
  /\ search = "polling" /\ now = 0 /\ pollEnd = Poll
  /\ events = << >> /\ count = 0 /\ target = None

(* register; a receiver of the same name takes the place of an earlier one. *)
Advertise(record) ==
  /\ advert' = record
  /\ UNCHANGED <<browser, events, count>>

(* A record of a receiver that is gone, which never unregisters, expires.   *)
Expire ==
  /\ advert # None /\ advert' = None
  /\ UNCHANGED <<browser, events, count>>

(* The daemon reports the receiver, with the addresses it has learned by    *)
(* now, or something else.                                                  *)
Resolve(addresses) ==
  /\ advert # None
  /\ events' = Append(events, [of |-> advert, addresses |-> addresses])
Other == events' = Append(events, [of |-> None, addresses |-> {}])

Event ==
  /\ search = "polling" /\ count < MaxEvents
  /\ count' = count + 1
  /\ Other \/ \E addresses \in SUBSET (IPv4 \cup IPv6) : Resolve(addresses)
  /\ UNCHANGED <<advert, browser>>

-----------------------------------------------------------------------------
(* Mutant: the deadline is only looked at when a poll has timed out.        *)
PollUntilQuiet ==
  IF now < Deadline \/ events # << >>
  THEN pollEnd' = now + Poll /\ UNCHANGED search
  ELSE search' = "timedOut" /\ UNCHANGED pollEnd

(* The head of the loop: another poll, or the deadline has passed.          *)
PollAgain ==
  IF now < Deadline
  THEN pollEnd' = now + Poll /\ UNCHANGED search
  ELSE search' = "timedOut" /\ UNCHANGED pollEnd

Preferred(addresses) ==
  IF addresses \cap IPv4 # {} THEN addresses \cap IPv4 ELSE addresses

(* recv_timeout returns an event: a resolved receiver with an address ends  *)
(* the search, any other event is passed over.                              *)
Take ==
  /\ search = "polling" /\ events # << >>
  /\ events' = Tail(events)
  /\ LET e == Head(events) IN
     \/ /\ e.of # None
        /\ \E ip \in Preferred(e.addresses) : target' = [ip |-> ip, of |-> e.of]
        /\ search' = "found" /\ UNCHANGED pollEnd
     \/ /\ e.of = None \/ e.addresses = {}
        /\ PollAgain /\ UNCHANGED target
  /\ UNCHANGED <<advert, now, count>>

PollTimesOut ==
  /\ search = "polling" /\ events = << >> /\ now = pollEnd
  /\ PollAgain
  /\ UNCHANGED <<advert, now, events, count, target>>

(* Time passes while recv_timeout waits.                                    *)
Tick ==
  /\ search = "polling" /\ events = << >> /\ now < pollEnd
  /\ now' = now + 1
  /\ UNCHANGED <<advert, search, pollEnd, events, count, target>>

BrowserNext == Take \/ PollTimesOut \/ Tick

(* The search never outlasts its timeout by a whole poll, whatever events   *)
(* keep coming.                                                             *)
ReturnsInTime == now < Deadline + Poll
=============================================================================
