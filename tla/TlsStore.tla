------------------------------ MODULE TlsStore ------------------------------
(***************************************************************************)
(* The dashboard's certificate and key, dashboard/src/tls.rs, and the      *)
(* start of its server, run_dashboard in dashboard/src/lib.rs.  The task   *)
(* of the receiver and the standalone program may run in one directory;    *)
(* nothing orders their accesses to the two files, and a process may end   *)
(* between any two of them.                                                *)
(***************************************************************************)
EXTENDS Naturals

CONSTANTS
  Dashboards,  (* programs that run a dashboard in this directory            *)
  Absent,      (* a file that is not there                                   *)
  Partial,     (* a file that is empty or cut off                            *)
  HttpPorts,   (* port arguments of dashboards                               *)
  MaxPairs,    (* bound: pairs generated                                     *)
  MaxFaults    (* bound: failing writes                                      *)

TlsStoreAssumption ==
  /\ {MaxPairs, MaxFaults} \subseteq Nat
  /\ Absent # Partial /\ {Absent, Partial} \cap Nat = {}

VARIABLES
  file,    (* certs/cert.pem and certs/key.pem: the pair they belong to      *)
  task,    (* where each dashboard stands                                    *)
  current, (* per dashboard: the file it is at                               *)
  pair,    (* per dashboard: the pair it has generated or read               *)
  listen,  (* per dashboard: its port argument                               *)
  made,    (* pairs generated so far; 0 is a pair the user has made          *)
  faults,  (* writes and create_dir_all that failed                          *)
  torn,    (* history: a write failed, or the writer of a key ended          *)
           (* half-way                                                       *)
  mixed,   (* history: one dashboard started while another one was starting  *)
  served   (* history: pairs that have been served                           *)

files   == <<file, made, faults>>
history == <<torn, mixed, served>>
vars    == <<files, task, current, pair, listen, history>>

Idle           == {"down", "rejected", "refused", "serving"}
Starting(p)    == task[p] \notin Idle
At(p, step, f) == task[p] = step /\ current[p] = f
Go(p, step, f) == /\ task' = [task EXCEPT ![p] = step]
                  /\ current' = [current EXCEPT ![p] = f]
Nothing        == [cert |-> Absent, key |-> Absent]

(* Nothing stored yet, a pair of the user's, or a certificate whose key was *)
(* never written.                                                           *)
Init ==
  /\ file \in {Nothing, [cert |-> 0, key |-> Absent], [cert |-> 0, key |-> 0]}
  /\ task = [p \in Dashboards |-> "down"] /\ current = [p \in Dashboards |-> "cert"]
  /\ pair = [p \in Dashboards |-> Nothing]
  /\ listen \in [Dashboards -> HttpPorts] /\ made = 0 /\ faults = 0
  /\ torn = FALSE /\ mixed = FALSE /\ served = {}

Start(p) ==
  /\ task[p] \in {"down", "rejected", "refused"}
  /\ Go(p, "check", "cert")
  /\ pair' = [pair EXCEPT ![p] = Nothing]
  /\ \E n \in HttpPorts : listen' = [listen EXCEPT ![p] = n]
  /\ mixed' = (mixed \/ \E q \in Dashboards \ {p} : Starting(q))
  /\ UNCHANGED <<files, torn, served>>

(* Mutant: one file suffices.                                               *)
CheckAny(p, f) ==
  /\ At(p, "check", f)
  /\ IF file[f] # Absent THEN Go(p, "read", "cert")
     ELSE IF f = "cert" THEN Go(p, "check", "key") ELSE Go(p, "generate", "cert")
  /\ UNCHANGED <<files, pair, listen, history>>

(* exists(), first of the certificate, then of the key.                     *)
Check(p, f) ==
  /\ At(p, "check", f)
  /\ IF file[f] = Absent THEN Go(p, "generate", "cert")
     ELSE IF f = "cert" THEN Go(p, "check", "key") ELSE Go(p, "read", "cert")
  /\ UNCHANGED <<files, pair, listen, history>>

(* Mutant: what is there is taken to be a pair.                             *)
UsableIfThere(read) == Absent \notin {read.cert, read.key}

(* from_pem_file reads one file after the other; rustls, which is external, *)
(* refuses what it cannot parse and a key of another certificate.           *)
Usable(read) == read.cert = read.key /\ read.cert \notin {Absent, Partial}

Read(p, f) ==
  /\ At(p, "read", f)
  /\ pair' = [pair EXCEPT ![p][f] = file[f]]
  /\ IF f = "cert" THEN Go(p, "read", "key")
     ELSE Go(p, IF Usable(pair'[p]) THEN "ready" ELSE "rejected", "cert")
  /\ UNCHANGED <<files, listen, history>>

(* A new pair, and create_dir_all, without which nothing is saved.          *)
Generate(p) ==
  /\ task[p] = "generate" /\ made < MaxPairs
  /\ made' = made + 1
  /\ pair' = [pair EXCEPT ![p] = [cert |-> made', key |-> made']]
  /\ \/ Go(p, "open", "cert") /\ UNCHANGED faults
     \/ /\ faults < MaxFaults /\ faults' = faults + 1
        /\ Go(p, "ready", "cert")
  /\ UNCHANGED <<file, listen, history>>

(* Mutant: the key is not saved.                                            *)
CertOnly(p, f) == Go(p, "ready", "cert")

AfterWrite(p, f) == IF f = "cert" THEN Go(p, "open", "key") ELSE Go(p, "ready", "cert")

(* fs::write: the file is emptied, then filled; an error in either step is  *)
(* ignored and the next file is written all the same.                       *)
Open(p, f) ==
  /\ At(p, "open", f)
  /\ file' = [file EXCEPT ![f] = Partial]
  /\ Go(p, "write", f)
  /\ UNCHANGED <<made, faults, pair, listen, history>>

Write(p, f) ==
  /\ At(p, "write", f)
  /\ file' = [file EXCEPT ![f] = pair[p][f]]
  /\ AfterWrite(p, f)
  /\ UNCHANGED <<made, faults, pair, listen, history>>

WriteFails(p, f) ==
  /\ At(p, "open", f) \/ At(p, "write", f)
  /\ faults < MaxFaults
  /\ faults' = faults + 1
  /\ AfterWrite(p, f) /\ torn' = TRUE
  /\ UNCHANGED <<file, made, pair, listen, mixed, served>>

(* bind_rustls: the port may belong to the other dashboard.                 *)
Serve(p) ==
  /\ task[p] = "ready"
  /\ IF \E q \in Dashboards : task[q] = "serving" /\ listen[q] = listen[p]
     THEN Go(p, "refused", "cert") /\ UNCHANGED served
     ELSE Go(p, "serving", "cert") /\ served' = served \cup {pair[p].cert}
  /\ UNCHANGED <<files, pair, listen, torn, mixed>>

(* The process ends, for whatever reason.  A partial certificate whose key  *)
(* is not there is found out by the next start, a partial key is not.       *)
End(p) ==
  /\ task[p] # "down"
  /\ Go(p, "down", "cert")
  /\ pair' = [pair EXCEPT ![p] = Nothing]
  /\ torn' = (torn \/ At(p, "write", "key"))
  /\ UNCHANGED <<files, listen, mixed, served>>

Step(p) ==
  \/ \E f \in {"cert", "key"} : Check(p, f) \/ Read(p, f) \/ Open(p, f) \/ Write(p, f)
                                  \/ WriteFails(p, f)
  \/ Generate(p) \/ Serve(p)

-----------------------------------------------------------------------------
Contents == {Absent, Partial} \cup 0 .. MaxPairs
Pair     == [{"cert", "key"} -> Contents]
Steps    == Idle \cup {"check", "read", "generate", "open", "write", "ready"}

TypeOK ==
  /\ file \in Pair /\ pair \in [Dashboards -> Pair] /\ task \in [Dashboards -> Steps]
  /\ current \in [Dashboards -> {"cert", "key"}] /\ listen \in [Dashboards -> HttpPorts]
  /\ made \in 0 .. MaxPairs /\ faults \in 0 .. MaxFaults
  /\ torn \in BOOLEAN /\ mixed \in BOOLEAN /\ served \subseteq 0 .. MaxPairs

(* A dashboard finds its stored pair unusable only if a writer ended or     *)
(* failed in the middle of a file, or two dashboards started at once: a     *)
(* process that ends between the two files, or before the certificate is    *)
(* complete, leaves a store from which the next start recovers.             *)
RejectedOnlyIfDamaged ==
  (\E p \in Dashboards : task[p] = "rejected") => torn \/ mixed

(* The certificate the user has once accepted in the browser is served by   *)
(* every later start, with the same exceptions, provided it could be saved. *)
CertificateIsStable == torn \/ mixed \/ faults > 0 \/ \A c, d \in served : c = d
=============================================================================
