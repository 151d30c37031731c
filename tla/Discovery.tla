------------------------------ MODULE Discovery ------------------------------
(***************************************************************************)
(* riden_daemon.py: discover_devices.  One thread per serial port opens    *)
(* the port, drops what is in its buffer, and tries the Modbus addresses   *)
(* one after the other on that one handle: RidenDevice reads the identity  *)
(* block, then the status block, each with its retries; the first address  *)
(* that gives both is reported.  The fan-out and the time budget are those *)
(* of the awto-serial library, external here.                              *)
(*                                                                         *)
(* A supply answers its own address only, but an FC03 reply is accepted by *)
(* its length and checksum: nobody compares the address in it.  Requests   *)
(* and replies get lost, and a reply may come after its attempt, while a   *)
(* later address is tried.  There is at most one supply on a port.         *)
(***************************************************************************)
EXTENDS Integers, Sequences

CONSTANTS Ports,          (* the ports to scan                             *)
          Addresses,      (* the addresses asked for, in their order       *)
          Tries           (* values of max(1, retries): attempts of a read *)

(* The addresses left by the filter 1 <= a <= 247, never none of them.     *)
ASSUME DiscoveryAssumption ==
    /\ Addresses \in Seq(1 .. 247)
    /\ Addresses # <<>>
    /\ Tries \subseteq Nat \ {0}

Nobody == 0
Asked == {Addresses[i] : i \in 1 .. Len(Addresses)}

VARIABLES
    scanning,    (* is discover_devices running? (constant)                *)
    tries,       (* attempts of each read (constant)                       *)
    supplyAt,    (* per port: the address of its supply, or Nobody: none,  *)
                 (* or one that is not asked for (constant)                *)
    probe,       (* per port: where its thread is                          *)
    try,         (* per port: the place in Addresses of the one it tries   *)
    attempt,     (* per port: attempts of this read begun                  *)
    asked,       (* per port: has this attempt sent its request?           *)
    buffer,      (* per port: replies received                             *)
    onLine,      (* per port: replies under way                            *)
    found,       (* per port: the address reported, or Nobody              *)
    faults       (* per port: has the line lost or delayed anything?       *)

scanLine == <<buffer, onLine>>
settings == <<scanning, tries, supplyAt>>
scanVars == <<settings, probe, try, attempt, asked, scanLine, found, faults>>

Probing == {"identity", "status"}
Over == {"found", "none", "unopened", "skipped"}

DiscoveryInit ==
    /\ scanning \in BOOLEAN
    /\ tries \in Tries
    /\ supplyAt \in [Ports -> Asked \cup {Nobody}]
    /\ ~scanning => (tries = CHOOSE n \in Tries : TRUE)
                    /\ \A p \in Ports : supplyAt[p] = Nobody
    /\ probe = [p \in Ports |-> "queued"]
    /\ try = [p \in Ports |-> 1]
    /\ attempt = [p \in Ports |-> 0]
    /\ asked = [p \in Ports |-> FALSE]
    /\ buffer = [p \in Ports |-> <<>>]
    /\ onLine = [p \in Ports |-> <<>>]
    /\ found = [p \in Ports |-> Nobody]
    /\ faults = [p \in Ports |-> FALSE]

(* The library opens the port for the probe, or reports that it cannot.    *)
OpenScanned(p) ==
    /\ scanning
    /\ probe[p] = "queued"
    /\ \E to \in {"identity", "unopened"} : probe' = [probe EXCEPT ![p] = to]
    /\ UNCHANGED <<settings, try, attempt, asked, scanLine, found, faults>>

(* An attempt of SerialTransport.read: flush, then the request, which the  *)
(* supply answers if it is meant and gets it.                              *)
Ask(p) ==
    /\ probe[p] \in Probing
    /\ ~asked[p]
    /\ asked' = [asked EXCEPT ![p] = TRUE]
    /\ attempt' = [attempt EXCEPT ![p] = @ + 1]
    /\ buffer' = [buffer EXCEPT ![p] = <<>>]
    /\ IF supplyAt[p] = Addresses[try[p]]
       THEN \/ onLine' = [onLine EXCEPT ![p] = Append(@, probe[p])] /\ UNCHANGED faults
            \/ faults' = [faults EXCEPT ![p] = TRUE] /\ UNCHANGED onLine
       ELSE UNCHANGED <<onLine, faults>>
    /\ UNCHANGED <<settings, probe, try, found>>

(* The read has its reply: RidenDevice goes on to update, or is complete   *)
(* and the probe returns.                                                  *)
TakeIdentityOnly(p) ==
    /\ probe[p] \in Probing
    /\ asked[p]
    /\ buffer[p] # <<>>
    /\ Head(buffer[p]) = probe[p]
    /\ asked' = [asked EXCEPT ![p] = FALSE]
    /\ attempt' = [attempt EXCEPT ![p] = 0]
    /\ probe' = [probe EXCEPT ![p] = "found"]
    /\ found' = [found EXCEPT ![p] = Addresses[try[p]]]
    /\ UNCHANGED <<settings, try, scanLine, faults>>

Take(p) ==
    /\ probe[p] \in Probing
    /\ asked[p]
    /\ buffer[p] # <<>>
    /\ Head(buffer[p]) = probe[p]
    /\ asked' = [asked EXCEPT ![p] = FALSE]
    /\ attempt' = [attempt EXCEPT ![p] = 0]
    /\ IF probe[p] = "identity"
       THEN /\ probe' = [probe EXCEPT ![p] = "status"]
            /\ UNCHANGED found
       ELSE /\ probe' = [probe EXCEPT ![p] = "found"]
            /\ found' = [found EXCEPT ![p] = Addresses[try[p]]]
    /\ UNCHANGED <<settings, try, scanLine, faults>>

(* The read runs out of time, or gets a reply of another length.  When all *)
(* attempts have failed the constructor raises, and the next address is    *)
(* tried.                                                                  *)
GiveUpEarly(p) ==
    /\ probe[p] \in Probing
    /\ asked[p]
    /\ buffer[p] # <<>> => Head(buffer[p]) # probe[p]
    /\ asked' = [asked EXCEPT ![p] = FALSE]
    /\ faults' = [faults EXCEPT ![p] = @ \/ onLine[p] # <<>>]
    /\ IF attempt[p] < tries
       THEN UNCHANGED <<probe, try, attempt>>
       ELSE /\ attempt' = [attempt EXCEPT ![p] = 0]
            /\ IF try[p] + 1 < Len(Addresses)
               THEN /\ try' = [try EXCEPT ![p] = @ + 1]
                    /\ probe' = [probe EXCEPT ![p] = "identity"]
               ELSE /\ probe' = [probe EXCEPT ![p] = "none"]
                    /\ UNCHANGED try
    /\ UNCHANGED <<settings, scanLine, found>>

GiveUpForever(p) ==
    /\ probe[p] \in Probing
    /\ asked[p]
    /\ buffer[p] # <<>> => Head(buffer[p]) # probe[p]
    /\ asked' = [asked EXCEPT ![p] = FALSE]
    /\ faults' = [faults EXCEPT ![p] = @ \/ onLine[p] # <<>>]
    /\ attempt' = [attempt EXCEPT ![p] = 0]
    /\ UNCHANGED <<probe, try>>
    /\ UNCHANGED <<settings, scanLine, found>>

GiveUp(p) ==
    /\ probe[p] \in Probing
    /\ asked[p]
    /\ buffer[p] # <<>> => Head(buffer[p]) # probe[p]
    /\ asked' = [asked EXCEPT ![p] = FALSE]
    /\ faults' = [faults EXCEPT ![p] = @ \/ onLine[p] # <<>>]
    /\ IF attempt[p] < tries
       THEN UNCHANGED <<probe, try, attempt>>
       ELSE /\ attempt' = [attempt EXCEPT ![p] = 0]
            /\ IF try[p] < Len(Addresses)
               THEN /\ try' = [try EXCEPT ![p] = @ + 1]
                    /\ probe' = [probe EXCEPT ![p] = "identity"]
               ELSE /\ probe' = [probe EXCEPT ![p] = "none"]
                    /\ UNCHANGED try
    /\ UNCHANGED <<settings, scanLine, found>>

(* The budget max_scan_s is used up: the ports without a result are listed *)
(* as skipped.                                                             *)
BudgetEnds ==
    /\ scanning
    /\ \E p \in Ports : probe[p] \notin Over
    /\ probe' = [p \in Ports |-> IF probe[p] \in Over THEN probe[p] ELSE "skipped"]
    /\ UNCHANGED <<settings, try, attempt, asked, scanLine, found, faults>>

ReplyArrives(p) ==
    /\ probe[p] \in Probing
    /\ onLine[p] # <<>>
    /\ buffer' = [buffer EXCEPT ![p] = Append(@, Head(onLine[p]))]
    /\ onLine' = [onLine EXCEPT ![p] = Tail(@)]
    /\ UNCHANGED <<settings, probe, try, attempt, asked, found, faults>>

ReplyLost(p) ==
    /\ probe[p] \in Probing
    /\ onLine[p] # <<>>
    /\ onLine' = [onLine EXCEPT ![p] = Tail(@)]
    /\ faults' = [faults EXCEPT ![p] = TRUE]
    /\ UNCHANGED <<settings, probe, try, attempt, asked, buffer, found>>

ProbeStep(p) == OpenScanned(p) \/ Ask(p) \/ Take(p) \/ GiveUp(p)

DiscoveryNext ==
    \/ \E p \in Ports : ProbeStep(p) \/ ReplyArrives(p) \/ ReplyLost(p)
    \/ BudgetEnds

DiscoverySpec == DiscoveryInit /\ [][DiscoveryNext]_scanVars
DiscoveryFairness == \A p \in Ports : WF_scanVars(ProbeStep(p))

---------------------------------------------------------------------------
(* With one attempt per read (the default of discover_devices) the address *)
(* reported is the supply's own, although a late reply of one address can  *)
(* be taken for the reply of the next: the second read of the probe is not *)
(* answered there.                                                         *)
FoundIsThere ==
    \A p \in Ports : (tries = 1 /\ probe[p] = "found") => found[p] = supplyAt[p]

(* A supply at one of the addresses asked for is not missed: "none" is the *)
(* result of its port only if the line lost or delayed something.          *)
NothingMissed ==
    \A p \in Ports :
        (probe[p] = "none" /\ ~faults[p])
            => supplyAt[p] = Nobody

(* A scan ends, on every port.                                             *)
ScanEnds == scanning ~> \A p \in Ports : probe[p] \in Over
=============================================================================
