-------------------------- MODULE DiscoveryProofs --------------------------
(***************************************************************************)
(* What Discovery promises, proved for any ports and addresses and, for    *)
(* NothingMissed, any number of attempts.  NothingMissed: as long as the   *)
(* line of a port has lost and delayed nothing, the only reply between the *)
(* supply and the host is the one to the attempt in progress, and an       *)
(* attempt at the supply's own address cannot be given up.  FoundIsThere:  *)
(* with a single attempt per read, and no address asked for twice, at most *)
(* one reply is ever late; a later address can take it for its identity,   *)
(* but then nothing is left to answer its status read.                     *)
(***************************************************************************)
EXTENDS Discovery, TLAPS

Places == 1 .. Len(Addresses)

ScanTypes ==
    /\ tries \in Nat \ {0}
    /\ supplyAt \in [Ports -> Asked \cup {Nobody}]
    /\ probe \in [Ports -> Probing \cup Over \cup {"queued"}]
    /\ try \in [Ports -> Places]
    /\ attempt \in [Ports -> Nat]
    /\ asked \in [Ports -> BOOLEAN]
    /\ buffer \in [Ports -> Seq(Probing)]
    /\ onLine \in [Ports -> Seq(Probing)]
    /\ found \in [Ports -> Asked \cup {Nobody}]
    /\ faults \in [Ports -> BOOLEAN]

Here(p) == supplyAt[p] = Addresses[try[p]]

LEMMA ScanInit == DiscoveryInit => ScanTypes
BY DiscoveryAssumption DEF DiscoveryInit, ScanTypes, Places, Asked, Probing, Over

LEMMA ScanNext == ScanTypes /\ [DiscoveryNext]_scanVars => ScanTypes'
<1> SUFFICES ASSUME ScanTypes, [DiscoveryNext]_scanVars PROVE ScanTypes'
  OBVIOUS
<1> USE DiscoveryAssumption DEF ScanTypes, settings, scanLine
<1>1. ASSUME NEW p \in Ports, OpenScanned(p) PROVE ScanTypes'
  BY <1>1 DEF OpenScanned, Probing, Over
<1>2. ASSUME NEW p \in Ports, Ask(p) PROVE ScanTypes'
  <2>1. /\ onLine' \in [Ports -> Seq(Probing)]
        /\ faults' \in [Ports -> BOOLEAN]
    <3>1. CASE onLine' = [onLine EXCEPT ![p] = Append(@, probe[p])] /\ UNCHANGED faults
      BY <1>2, <3>1 DEF Ask
    <3>2. CASE UNCHANGED onLine /\ faults' \in {faults, [faults EXCEPT ![p] = TRUE]}
      BY <1>2, <3>2 DEF Ask
    <3> QED
      BY <1>2, <3>1, <3>2 DEF Ask
  <2>2. buffer' \in [Ports -> Seq(Probing)] /\ asked' \in [Ports -> BOOLEAN]
    BY <1>2 DEF Ask
  <2>3. attempt' \in [Ports -> Nat] /\ UNCHANGED <<settings, probe, try, found>>
    BY <1>2 DEF Ask
  <2> QED
    BY <2>1, <2>2, <2>3
<1>3. ASSUME NEW p \in Ports, Take(p) PROVE ScanTypes'
  <2>1. asked' \in [Ports -> BOOLEAN] /\ attempt' \in [Ports -> Nat]
    BY <1>3 DEF Take
  <2>2. Addresses[try[p]] \in Asked
    BY DEF Asked, Places
  <2>3. probe' \in [Ports -> Probing \cup Over \cup {"queued"}]
    BY <1>3 DEF Take, Probing, Over
  <2>4. found' \in [Ports -> Asked \cup {Nobody}]
    BY <1>3, <2>2 DEF Take
  <2>5. UNCHANGED <<settings, try, scanLine, faults>>
    BY <1>3 DEF Take
  <2> QED
    BY <2>1, <2>3, <2>4, <2>5
<1>4. ASSUME NEW p \in Ports, GiveUp(p) PROVE ScanTypes'
  <2>1. asked' \in [Ports -> BOOLEAN] /\ faults' \in [Ports -> BOOLEAN]
    BY <1>4 DEF GiveUp
  <2>2. attempt' \in [Ports -> Nat]
    <3>1. attempt' = attempt \/ attempt' = [attempt EXCEPT ![p] = 0]
      BY <1>4 DEF GiveUp
    <3>2. CASE attempt' = [attempt EXCEPT ![p] = 0]
      BY <3>2
    <3> QED
      BY <3>1, <3>2
  <2>3. probe' \in [Ports -> Probing \cup Over \cup {"queued"}]
    BY <1>4 DEF GiveUp, Probing, Over
  <2>4. try' \in [Ports -> Places]
    <3>1. CASE try' = try
      BY <3>1
    <3>2. CASE try' = [try EXCEPT ![p] = @ + 1] /\ try[p] < Len(Addresses)
      <4>1. Len(Addresses) \in Nat /\ try[p] \in Nat /\ 1 <= try[p]
        BY DEF Places
      <4>2. try[p] + 1 \in Places
        BY <3>2, <4>1 DEF Places
      <4> QED
        BY <3>2, <4>2
    <3>3. \/ try' = try
          \/ try' = [try EXCEPT ![p] = try[p] + 1] /\ try[p] < Len(Addresses)
      BY <1>4 DEF GiveUp
    <3> QED
      BY <3>1, <3>2, <3>3
  <2>5. UNCHANGED <<settings, scanLine, found>>
    BY <1>4 DEF GiveUp
  <2> QED
    BY <2>1, <2>2, <2>3, <2>4, <2>5
<1>5. ASSUME NEW p \in Ports, ReplyArrives(p) PROVE ScanTypes'
  BY <1>5 DEF ReplyArrives
<1>6. ASSUME NEW p \in Ports, ReplyLost(p) PROVE ScanTypes'
  BY <1>6 DEF ReplyLost
<1>7. CASE BudgetEnds
  BY <1>7 DEF BudgetEnds, Over
<1>8. CASE UNCHANGED scanVars
  BY <1>8 DEF scanVars
<1> QED
  BY <1>1, <1>2, <1>3, <1>4, <1>5, <1>6, <1>7, <1>8 DEF DiscoveryNext, ProbeStep

---------------------------------------------------------------------------
(* The replies of a port, as long as none was lost or delayed.             *)
Answered(p) ==
    \/ onLine[p] = <<probe[p]>> /\ buffer[p] = <<>>
    \/ onLine[p] = <<>> /\ buffer[p] = <<probe[p]>>

Punctual(p) ==
    /\ probe[p] \in Probing \cup {"queued"} /\ ~asked[p] => onLine[p] = <<>>
    /\ probe[p] \in Probing /\ asked[p] =>
          IF Here(p) THEN Answered(p) ELSE onLine[p] = <<>> /\ buffer[p] = <<>>
    /\ probe[p] \in Probing \cup {"queued"} =>
          \A i \in Places : i < try[p] => Addresses[i] # supplyAt[p]
    /\ probe[p] = "none" => \A i \in Places : Addresses[i] # supplyAt[p]
    /\ probe[p] = "queued" => ~asked[p]

PunctualInv == \A p \in Ports : ~faults[p] => Punctual(p)

LEMMA PunctualInit == DiscoveryInit => PunctualInv
BY DEF DiscoveryInit, PunctualInv, Punctual, Probing, Places

LEMMA Single == ASSUME NEW x PROVE /\ Append(<<>>, x) = <<x>>
                                  /\ Head(<<x>>) = x
                                  /\ Tail(<<x>>) = <<>>
                                  /\ <<x>> # <<>>
                                  /\ Len(<<x>>) = 1 /\ Len(<<>>) = 0
OBVIOUS

(* What a step leaves as it was at a port.                                 *)
Untouched(p) ==
    /\ probe'[p] = probe[p] /\ try'[p] = try[p] /\ asked'[p] = asked[p]
    /\ buffer'[p] = buffer[p] /\ onLine'[p] = onLine[p] /\ faults'[p] = faults[p]
    /\ supplyAt' = supplyAt /\ found'[p] = found[p] /\ tries' = tries /\ attempt'[p] = attempt[p]

Step(p) == ProbeStep(p) \/ ReplyArrives(p) \/ ReplyLost(p)

LEMMA OtherPorts ==
    ASSUME ScanTypes, NEW p \in Ports, NEW q \in Ports \ {p}, Step(p)
    PROVE  Untouched(q)
<1> USE DEF ScanTypes, settings, scanLine, Untouched
<1>1. CASE OpenScanned(p)
  BY <1>1 DEF OpenScanned
<1>2. CASE Ask(p)
  BY <1>2 DEF Ask
<1>3. CASE Take(p)
  BY <1>3 DEF Take
<1>4. CASE GiveUp(p)
  <2>1. try'[q] = try[q] /\ probe'[q] = probe[q] /\ attempt'[q] = attempt[q]
    BY <1>4 DEF GiveUp
  <2> QED
    BY <1>4, <2>1 DEF GiveUp
<1>5. CASE ReplyArrives(p)
  BY <1>5 DEF ReplyArrives
<1>6. CASE ReplyLost(p)
  BY <1>6 DEF ReplyLost
<1> QED
  BY <1>1, <1>2, <1>3, <1>4, <1>5, <1>6 DEF Step, ProbeStep

LEMMA PunctualStep ==
    ASSUME ScanTypes, NEW p \in Ports, Step(p), ~faults[p] => Punctual(p), ~faults'[p]
    PROVE  Punctual(p)'
<1> USE DEF settings, scanLine
<1>0. /\ probe \in [Ports -> Probing \cup Over \cup {"queued"}]
      /\ try \in [Ports -> Places] /\ attempt \in [Ports -> Nat]
      /\ asked \in [Ports -> BOOLEAN] /\ faults \in [Ports -> BOOLEAN]
      /\ buffer \in [Ports -> Seq(Probing)] /\ onLine \in [Ports -> Seq(Probing)]
      /\ found \in [Ports -> Asked \cup {Nobody}]
  BY DEF ScanTypes
<1>1. CASE OpenScanned(p)
  BY <1>0, <1>1 DEF OpenScanned, Punctual, Probing, Here
<1>2. CASE Ask(p)
  <2>1. ~faults[p] /\ Punctual(p) /\ onLine[p] = <<>> /\ probe[p] \in Probing
    BY <1>0, <1>2 DEF Ask, Punctual
  <2>2. /\ asked'[p] /\ buffer'[p] = <<>> /\ probe' = probe /\ try' = try /\ supplyAt' = supplyAt
        /\ onLine'[p] = IF Here(p) THEN <<probe[p]>> ELSE <<>>
    BY <1>0, <1>2, <2>1, Single DEF Ask, Here
  <2> QED
    BY <2>1, <2>2 DEF Punctual, Answered, Here, Probing
<1>3. CASE Take(p)
  <2>1. ~faults[p] /\ Punctual(p) /\ probe[p] \in Probing /\ asked[p] /\ buffer[p] # <<>>
    BY <1>0, <1>3 DEF Take
  <2>2. ~asked'[p] /\ try' = try /\ supplyAt' = supplyAt /\ onLine' = onLine /\ buffer' = buffer
    BY <1>0, <1>3 DEF Take
  <2>3. probe'[p] \in {"status", "found"}
    BY <1>0, <1>3 DEF Take
  <2>4. onLine[p] = <<>>
    BY <2>1, Single DEF Punctual, Answered
  <2> QED
    BY <2>1, <2>2, <2>3, <2>4 DEF Punctual, Probing
<1>4. CASE GiveUp(p)
  <2>1. ~faults[p] /\ onLine[p] = <<>> /\ Punctual(p) /\ probe[p] \in Probing /\ asked[p]
    BY <1>0, <1>4 DEF GiveUp
  <2>2. ~Here(p)
    BY <1>4, <2>1, Single DEF GiveUp, Punctual, Answered
  <2>3. ~asked'[p] /\ supplyAt' = supplyAt /\ onLine' = onLine
    BY <1>0, <1>4 DEF GiveUp
  <2>4. \A i \in Places : i <= try[p] => Addresses[i] # supplyAt[p]
    BY <1>0, <2>1, <2>2 DEF Punctual, Here, Places
  <2>5. CASE attempt[p] < tries
    BY <1>4, <2>1, <2>3, <2>4, <2>5 DEF GiveUp, Punctual
  <2>6. CASE ~(attempt[p] < tries) /\ try[p] < Len(Addresses)
    <3>1. try'[p] = try[p] + 1 /\ probe'[p] = "identity"
      BY <1>0, <1>4, <2>6 DEF GiveUp
    <3>2. \A i \in Places : i < try[p] + 1 => i <= try[p]
      BY <1>0 DEF Places
    <3> QED
      BY <2>1, <2>3, <2>4, <3>1, <3>2 DEF Punctual
  <2>7. CASE ~(attempt[p] < tries) /\ ~(try[p] < Len(Addresses))
    <3>1. probe'[p] = "none"
      BY <1>0, <1>4, <2>7 DEF GiveUp
    <3>2. \A i \in Places : i <= try[p]
      BY <1>0, <2>7, DiscoveryAssumption DEF Places
    <3> QED
      BY <2>3, <2>4, <3>1, <3>2 DEF Punctual, Probing
  <2> QED
    BY <2>5, <2>6, <2>7
<1>5. CASE ReplyArrives(p)
  <2>1. ~faults[p] /\ Punctual(p) /\ probe[p] \in Probing /\ onLine[p] # <<>>
    BY <1>0, <1>5 DEF ReplyArrives
  <2>2. asked[p] /\ Here(p) /\ onLine[p] = <<probe[p]>> /\ buffer[p] = <<>>
    BY <1>0, <2>1 DEF Punctual, Answered
  <2>3. /\ buffer'[p] = <<probe[p]>> /\ onLine'[p] = <<>>
        /\ UNCHANGED <<supplyAt, probe, try, asked>>
    BY <1>0, <1>5, <2>2, Single DEF ReplyArrives
  <2> QED
    BY <2>1, <2>2, <2>3 DEF Punctual, Answered, Here, Probing
<1>6. CASE ReplyLost(p)
  BY <1>0, <1>6 DEF ReplyLost
<1> QED
  BY <1>1, <1>2, <1>3, <1>4, <1>5, <1>6 DEF Step, ProbeStep

LEMMA PunctualNext == ScanTypes /\ PunctualInv /\ [DiscoveryNext]_scanVars => PunctualInv'
<1> SUFFICES ASSUME ScanTypes, PunctualInv, [DiscoveryNext]_scanVars, NEW q \in Ports, ~faults'[q]
             PROVE  Punctual(q)'
  BY DEF PunctualInv
<1>1. ASSUME Untouched(q) PROVE Punctual(q)'
  BY <1>1 DEF Untouched, PunctualInv, Punctual, Answered, Here
<1>2. CASE BudgetEnds
  BY <1>2 DEF BudgetEnds, PunctualInv, Punctual, Answered, Here, Probing, Over, settings, scanLine
<1>3. CASE UNCHANGED scanVars
  BY <1>1, <1>3 DEF scanVars, settings, scanLine, Untouched
<1>4. ASSUME NEW p \in Ports, Step(p) PROVE Punctual(q)'
  <2>1. CASE p = q
    BY <1>4, <2>1, PunctualStep DEF PunctualInv
  <2>2. CASE p # q
    BY <1>1, <1>4, <2>2, OtherPorts
  <2> QED
    BY <2>1, <2>2
<1> QED
  BY <1>2, <1>3, <1>4 DEF DiscoveryNext, Step

(* A supply at an address that is asked for is found, unless the line has  *)
(* lost or delayed a frame: for any ports, addresses and attempts.         *)
THEOREM DiscoveryMissesNothing == DiscoverySpec => []NothingMissed
<1>1. ScanTypes /\ PunctualInv => NothingMissed
  BY DEF ScanTypes, PunctualInv, Punctual, NothingMissed, Asked, Places
<1> QED
  BY ScanInit, ScanNext, PunctualInit, PunctualNext, <1>1, PTL DEF DiscoverySpec

---------------------------------------------------------------------------
(* With one attempt per read, and no address twice, at most one reply of a *)
(* port is pending.                                                        *)
Distinct == \A i, j \in Places : Addresses[i] = Addresses[j] => i = j

NoneIn(p) == buffer[p] = <<>> /\ onLine[p] = <<>>
OneIn(p) == (buffer[p] = <<>> /\ Len(onLine[p]) <= 1) \/ (onLine[p] = <<>> /\ Len(buffer[p]) <= 1)

Passed(p) == \E i \in Places : i < try[p] /\ Addresses[i] = supplyAt[p]

Lagging(p) ==
    /\ probe[p] \in Probing /\ asked[p] => attempt[p] = 1
    /\ probe[p] \in Probing /\ ~asked[p] => attempt[p] = 0
    /\ OneIn(p)
    /\ ~Here(p) /\ ~Passed(p) => NoneIn(p)
    /\ Passed(p) /\ probe[p] = "status" => onLine[p] = <<>>
    /\ Passed(p) /\ probe[p] = "status" /\ asked[p] => NoneIn(p)
    /\ probe[p] = "queued" => NoneIn(p) /\ ~asked[p] /\ attempt[p] = 0
    /\ Here(p) /\ probe[p] \in Probing /\ ~asked[p] => onLine[p] = <<>>
    /\ probe[p] = "found" => found[p] = supplyAt[p]

LaggingInv == tries = 1 => \A p \in Ports : Lagging(p)

LEMMA LaggingInit == DiscoveryInit => LaggingInv
<1> SUFFICES ASSUME DiscoveryInit, NEW p \in Ports PROVE Lagging(p)
  BY DEF LaggingInv
<1>1. /\ probe[p] = "queued" /\ try[p] = 1 /\ attempt[p] = 0 /\ ~asked[p]
      /\ buffer[p] = <<>> /\ onLine[p] = <<>>
  BY DEF DiscoveryInit
<1>2. ~Passed(p)
  BY <1>1 DEF Passed, Places
<1> QED
  BY <1>1, <1>2, Single DEF Lagging, NoneIn, OneIn, Probing

LEMMA OneReply ==
    ASSUME NEW s \in Seq(Probing), Len(s) <= 1, s # <<>>
    PROVE  Tail(s) = <<>> /\ Len(Append(<<>>, Head(s))) = 1
OBVIOUS

LEMMA LaggingStep ==
    ASSUME Distinct, ScanTypes, tries = 1, NEW p \in Ports, Step(p), Lagging(p)
    PROVE  Lagging(p)'
<1> USE DEF settings, scanLine
<1>0. /\ probe \in [Ports -> Probing \cup Over \cup {"queued"}]
      /\ try \in [Ports -> Places] /\ attempt \in [Ports -> Nat]
      /\ asked \in [Ports -> BOOLEAN] /\ faults \in [Ports -> BOOLEAN]
      /\ buffer \in [Ports -> Seq(Probing)] /\ onLine \in [Ports -> Seq(Probing)]
      /\ found \in [Ports -> Asked \cup {Nobody}]
  BY DEF ScanTypes
<1>a. Here(p) => ~Passed(p)
  BY <1>0 DEF Distinct, Here, Passed, Places
<1>1. CASE OpenScanned(p)
  <2>1. /\ probe[p] = "queued" /\ probe'[p] \in {"identity", "unopened"}
        /\ UNCHANGED <<try, asked, attempt, buffer, onLine, supplyAt>>
    BY <1>0, <1>1 DEF OpenScanned
  <2> QED
    BY <2>1 DEF Lagging, NoneIn, OneIn, Here, Passed, Probing
<1>2. CASE Ask(p)
  <2>1. /\ probe[p] \in Probing /\ ~asked[p] /\ asked'[p] /\ attempt'[p] = attempt[p] + 1
        /\ buffer'[p] = <<>> /\ UNCHANGED <<probe, try, supplyAt, found>>
    BY <1>0, <1>2 DEF Ask
  <2>2. attempt'[p] = 1
    BY <2>1 DEF Lagging
  <2>3. CASE Here(p)
    <3>1. onLine[p] = <<>>
      BY <2>1, <2>3 DEF Lagging
    <3>2. onLine'[p] = <<>> \/ onLine'[p] = <<probe[p]>>
      BY <1>0, <1>2, <3>1, Single DEF Ask
    <3>3. OneIn(p)'
      <4>1. Len(onLine'[p]) <= 1
        <5>1. Len(<<>>) <= 1 /\ Len(<<probe[p]>>) <= 1
          OBVIOUS
        <5> QED
          BY <3>2, <5>1
      <4> QED
        BY <2>1, <4>1 DEF OneIn
    <3>4. Here(p)' /\ ~Passed(p)'
      BY <1>a, <2>1, <2>3 DEF Here, Passed
    <3> QED
      BY <2>1, <2>2, <3>3, <3>4 DEF Lagging, Probing
  <2>4. CASE ~Here(p)
    <3>1. onLine'[p] = onLine[p]
      BY <1>0, <1>2, <2>4 DEF Ask, Here
    <3>2. (Here(p)' <=> Here(p)) /\ (Passed(p)' <=> Passed(p))
      BY <2>1 DEF Here, Passed
    <3>3. OneIn(p)'
      BY <1>0, <2>1, <3>1 DEF Lagging, OneIn
    <3>4. onLine[p] = <<>> => NoneIn(p)'
      BY <2>1, <3>1 DEF NoneIn
    <3> QED
      BY <2>1, <2>2, <2>4, <3>1, <3>2, <3>3, <3>4 DEF Lagging, NoneIn, Probing
  <2> QED
    BY <2>3, <2>4
<1>3. CASE Take(p)
  <2>1. /\ probe[p] \in Probing /\ asked[p] /\ buffer[p] # <<>>
        /\ ~asked'[p] /\ attempt'[p] = 0 /\ UNCHANGED <<try, supplyAt, onLine, buffer>>
    BY <1>0, <1>3 DEF Take
  <2>2. onLine[p] = <<>> /\ ~NoneIn(p)
    BY <1>0, <2>1 DEF Lagging, OneIn, NoneIn
  <2>3. (Here(p)' <=> Here(p)) /\ (Passed(p)' <=> Passed(p)) /\ (OneIn(p)' <=> OneIn(p))
    BY <2>1 DEF Here, Passed, OneIn
  <2>4. Here(p) \/ Passed(p)
    BY <2>2 DEF Lagging
  <2>5. CASE probe[p] = "identity"
    <3>1. probe'[p] = "status"
      BY <1>0, <1>3, <2>5 DEF Take
    <3> QED
      BY <2>1, <2>2, <2>3, <2>4, <3>1 DEF Lagging, Probing
  <2>6. CASE probe[p] = "status"
    <3>1. probe'[p] = "found" /\ found'[p] = Addresses[try[p]]
      BY <1>0, <1>3, <2>6 DEF Take
    <3>2. Here(p)
      BY <2>1, <2>2, <2>4, <2>6 DEF Lagging
    <3> QED
      BY <1>a, <2>1, <2>3, <3>1, <3>2 DEF Lagging, Here, Probing
  <2> QED
    BY <2>1, <2>5, <2>6 DEF Probing
<1>4. CASE GiveUp(p)
  <2>1. /\ probe[p] \in Probing /\ asked[p] /\ attempt[p] = 1 /\ ~(attempt[p] < tries)
        /\ ~asked'[p] /\ attempt'[p] = 0 /\ UNCHANGED <<supplyAt, onLine, buffer, found>>
    BY <1>0, <1>4 DEF GiveUp, Lagging
  <2>2. OneIn(p)' /\ (NoneIn(p)' <=> NoneIn(p))
    BY <2>1 DEF Lagging, OneIn, NoneIn
  <2>3. CASE try[p] < Len(Addresses)
    <3>1. try'[p] = try[p] + 1 /\ probe'[p] = "identity"
      BY <1>0, <1>4, <2>1, <2>3 DEF GiveUp
    <3>2. try[p] \in Places /\ try[p] + 1 \in Places
      BY <1>0, <2>3 DEF Places
    <3>3. Here(p) \/ Passed(p) => Passed(p)'
      BY <2>1, <3>1, <3>2 DEF Here, Passed, Places
    <3>4. Here(p)' => ~Passed(p)'
      BY <2>1, <3>1, <3>2 DEF Distinct, Here, Passed, Places
    <3>5. Here(p)' => NoneIn(p)
      BY <3>3, <3>4 DEF Lagging
    <3> QED
      BY <2>1, <2>2, <3>1, <3>3, <3>5 DEF Lagging, NoneIn, Probing
  <2>4. CASE ~(try[p] < Len(Addresses))
    <3>1. try' = try /\ probe'[p] = "none"
      BY <1>0, <1>4, <2>1, <2>4 DEF GiveUp
    <3>2. (Here(p)' <=> Here(p)) /\ (Passed(p)' <=> Passed(p))
      BY <2>1, <3>1 DEF Here, Passed
    <3> QED
      BY <2>1, <2>2, <3>1, <3>2 DEF Lagging, Probing
  <2> QED
    BY <2>3, <2>4
<1>5. CASE ReplyArrives(p)
  <2>1. /\ probe[p] \in Probing /\ onLine[p] # <<>>
        /\ buffer'[p] = Append(buffer[p], Head(onLine[p])) /\ onLine'[p] = Tail(onLine[p])
        /\ UNCHANGED <<supplyAt, probe, try, attempt, asked, found>>
    BY <1>0, <1>5 DEF ReplyArrives
  <2>2. buffer[p] = <<>> /\ Len(onLine[p]) <= 1
    BY <2>1 DEF Lagging, OneIn
  <2>3. onLine'[p] = <<>> /\ Len(buffer'[p]) = 1
    BY <1>0, <2>1, <2>2, OneReply
  <2>4. (Here(p)' <=> Here(p)) /\ (Passed(p)' <=> Passed(p)) /\ OneIn(p)' /\ ~NoneIn(p)
    <3>1. Len(buffer'[p]) <= 1
      BY <2>3
    <3>2. OneIn(p)' /\ ~NoneIn(p)
      BY <2>1, <2>3, <3>1 DEF OneIn, NoneIn
    <3>3. (Here(p)' <=> Here(p)) /\ (Passed(p)' <=> Passed(p))
      BY <2>1 DEF Here, Passed
    <3> QED
      BY <3>2, <3>3
  <2> QED
    BY <2>1, <2>3, <2>4 DEF Lagging, Probing
<1>6. CASE ReplyLost(p)
  <2>1. /\ probe[p] \in Probing /\ onLine[p] # <<>> /\ onLine'[p] = Tail(onLine[p])
        /\ UNCHANGED <<supplyAt, buffer, probe, try, attempt, asked, found>>
    BY <1>0, <1>6 DEF ReplyLost
  <2>2. buffer[p] = <<>> /\ Len(onLine[p]) <= 1
    BY <2>1 DEF Lagging, OneIn
  <2>3. onLine'[p] = <<>>
    BY <1>0, <2>1, <2>2, OneReply
  <2>4. (Here(p)' <=> Here(p)) /\ (Passed(p)' <=> Passed(p)) /\ OneIn(p)' /\ ~NoneIn(p)
    BY <2>1, <2>2, <2>3 DEF Here, Passed, OneIn, NoneIn
  <2> QED
    BY <2>1, <2>3, <2>4 DEF Lagging, Probing
<1> QED
  BY <1>1, <1>2, <1>3, <1>4, <1>5, <1>6 DEF Step, ProbeStep

LEMMA LaggingNext ==
    Distinct /\ ScanTypes /\ LaggingInv /\ [DiscoveryNext]_scanVars => LaggingInv'
<1> SUFFICES ASSUME Distinct, ScanTypes, LaggingInv, [DiscoveryNext]_scanVars, tries' = 1,
                    NEW q \in Ports
             PROVE  Lagging(q)'
  BY DEF LaggingInv
<1>0. tries = 1 /\ Lagging(q)
  <2>1. tries' = tries
    BY DEF DiscoveryNext, ProbeStep, OpenScanned, Ask, Take, GiveUp, ReplyArrives, ReplyLost,
           BudgetEnds, scanVars, settings
  <2> QED
    BY <2>1 DEF LaggingInv
<1>1. ASSUME Untouched(q) PROVE Lagging(q)'
  BY <1>0, <1>1 DEF Untouched, Lagging, NoneIn, OneIn, Here, Passed
<1>2. CASE BudgetEnds
  <2>1. /\ probe'[q] \notin Probing \cup {"queued"} /\ (probe'[q] = "found" => probe[q] = "found")
        /\ UNCHANGED <<supplyAt, try, buffer, onLine, found>>
    <3>1. probe'[q] = IF probe[q] \in Over THEN probe[q] ELSE "skipped"
      BY <1>2 DEF BudgetEnds
    <3>2. UNCHANGED <<supplyAt, try, buffer, onLine, found>>
      BY <1>2 DEF BudgetEnds, settings, scanLine
    <3> QED
      BY <3>1, <3>2 DEF Over, Probing
  <2> QED
    BY <1>0, <2>1 DEF Lagging, NoneIn, OneIn, Here, Passed, Probing
<1>3. CASE UNCHANGED scanVars
  BY <1>1, <1>3 DEF scanVars, settings, scanLine, Untouched
<1>4. ASSUME NEW p \in Ports, Step(p) PROVE Lagging(q)'
  <2>1. CASE p = q
    BY <1>0, <1>4, <2>1, LaggingStep
  <2>2. CASE p # q
    BY <1>1, <1>4, <2>2, OtherPorts
  <2> QED
    BY <2>1, <2>2
<1> QED
  BY <1>2, <1>3, <1>4 DEF DiscoveryNext, Step

(* With one attempt per read, and no address asked for twice, a supply is  *)
(* reported at its own address only, however late its replies are.         *)
THEOREM DiscoveryFoundIsThere == ASSUME Distinct PROVE DiscoverySpec => []FoundIsThere
<1>1. LaggingInv => FoundIsThere
  BY DEF LaggingInv, Lagging, FoundIsThere
<1>2. ScanTypes /\ LaggingInv /\ [DiscoveryNext]_scanVars => LaggingInv'
  BY LaggingNext
<1> QED
  BY ScanInit, ScanNext, LaggingInit, <1>1, <1>2, PTL DEF DiscoverySpec
=============================================================================
