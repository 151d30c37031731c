------------------------- MODULE SocketServerProofs -------------------------
(***************************************************************************)
(* What SocketServer promises, proved for any supplies, clients, commands  *)
(* and number of starts.  A stopped server has unlinked its socket before  *)
(* it ends and its pid file as it ends.  An all_off has, at each of its    *)
(* steps, turned off every connected supply it has passed, unless another  *)
(* handler has switched or connected one since, which it remembers.        *)
(***************************************************************************)
EXTENDS SocketServer, TLAPS

Names == {"ping"} \cup UNION {Commands[s] : s \in Slots}

Requests == [at : {"none", "backlog", "handled", "ok"}, cmd : Names, psu : Units,
             next : Nat \ {0}, clear : BOOLEAN]

ServerTypes ==
    /\ up \in {"down", "starting", "binding", "serving", "accepting", "closing", "joining",
               "cleanup"}
    /\ ending \in {"none", "bind failed", "stopped", "killed"}
    /\ event \in BOOLEAN
    /\ sockFile \in BOOLEAN
    /\ pidFile \in BOOLEAN
    /\ connected \in [Units -> BOOLEAN]
    /\ power \in [Units -> BOOLEAN]
    /\ req \in [Slots -> Requests]

---------------------------------------------------------------------------
(* The files.  Only a bind makes the socket's file, and a stopping server  *)
(* does not bind again.                                                    *)
Stopping ==
    /\ ending = "stopped" => up \in {"cleanup", "down"} /\ ~sockFile
    /\ up = "joining" => ~sockFile
    /\ up = "down" /\ ending = "stopped" => ~pidFile

LEMMA StoppingKept == ASSUME Stopping, [ServerNext]_serverVars PROVE Stopping'
<1> USE DEF Stopping
<1>1. CASE UNCHANGED serverVars
  BY <1>1 DEF serverVars, process
<1>2. CASE Start
  BY <1>2 DEF Start
<1>3. CASE UnlinkStale
  BY <1>3 DEF UnlinkStale
<1>4. CASE Bind
  BY <1>4 DEF Bind
<1>5. CASE TestEvent \/ AcceptTimesOut
  BY <1>5 DEF TestEvent, AcceptTimesOut
<1>6. CASE CloseSocket
  BY <1>6 DEF CloseSocket
<1>7. CASE Joined
  BY <1>7 DEF Joined
<1>8. CASE CloseWorkers
  BY <1>8 DEF CloseWorkers
<1>9. CASE Exit
  BY <1>9 DEF Exit, Ends
<1>10. ASSUME NEW s \in Slots, Accept(s) PROVE Stopping'
  BY <1>10 DEF Accept
<1>11. CASE Signal
  BY <1>11 DEF Signal
<1>12. CASE Kill
  BY <1>12 DEF Kill, Ends
<1>13. ASSUME NEW s \in Slots,
              \/ \E name \in Commands[s], u \in Units : Send(s, name, u)
              \/ Leaves(s)
              \/ HandlerStep(s)
       PROVE  Stopping'
  <2>1. UNCHANGED <<up, ending, sockFile, pidFile>>
    BY <1>13 DEF Send, Leaves, HandlerStep, Test, Section, OpenSilent, SectionFails, Reply, process
  <2> QED
    BY <2>1
<1> QED
  BY <1>1, <1>2, <1>3, <1>4, <1>5, <1>6, <1>7, <1>8, <1>9, <1>10, <1>11, <1>12, <1>13
     DEF ServerNext, MainStep

(* A server that was told to stop, and has ended of it, leaves neither its *)
(* socket's file nor its pid file, whatever earlier servers have left.     *)
THEOREM ServerCleanStop == ServerSpec => []CleanStop
<1>1. ServerInit => Stopping
  BY DEF ServerInit, Stopping
<1>2. Stopping /\ [ServerNext]_serverVars => Stopping'
  BY StoppingKept
<1>3. Stopping => CleanStop
  BY DEF Stopping, CleanStop
<1> QED
  BY <1>1, <1>2, <1>3, PTL DEF ServerSpec

---------------------------------------------------------------------------
(* What the main thread and the handlers leave well formed.                *)
LEMMA NoRequestType == NoRequest \in Requests /\ NoRequest.at = "none"
<1>1. Psus[1] \in Units
  BY RegistryAssumption
<1> QED
  BY <1>1 DEF NoRequest, Requests, Names

LEMMA AllOffProgram ==
    /\ Len(ForEachPsu("off")) = 2 * Len(Psus)
    /\ \A i \in 1 .. 2 * Len(Psus) :
          /\ i % 2 = 1 => ForEachPsu("off")[i].what = "skip"
                          /\ ForEachPsu("off")[i].psu = Psus[(i + 1) \div 2]
          /\ i % 2 = 0 => ForEachPsu("off")[i].what = "off"
                          /\ ForEachPsu("off")[i].psu = Psus[i \div 2]
                          /\ ForEachPsu("off")[i].goesOn
<1>1. Len(Psus) \in Nat
  BY RegistryAssumption
<1> QED
  BY <1>1 DEF ForEachPsu, Do, Try

LEMMA ProgramLengths ==
    ASSUME NEW r
    PROVE  Len(Program(r)) \in Nat
<1>1. CASE r.cmd \in {"list_psus", "all_off"}
  <2>1. Len(Psus) \in Nat
    BY RegistryAssumption
  <2>2. Program(r) = ForEachPsu("read") \/ Program(r) = ForEachPsu("off")
    BY <1>1 DEF Program, list_psus, all_off
  <2>3. Len(ForEachPsu("read")) = 2 * Len(Psus) /\ Len(ForEachPsu("off")) = 2 * Len(Psus)
    BY <2>1 DEF ForEachPsu
  <2> QED
    BY <2>1, <2>2, <2>3
<1>2. CASE r.cmd = "connect"
  BY <1>2 DEF Program, connect
<1>3. CASE r.cmd = "disconnect"
  BY <1>3 DEF Program, disconnect
<1>4. CASE r.cmd = "query"
  BY <1>4 DEF Program, query
<1>5. CASE r.cmd \in {"on", "off"}
  BY <1>5 DEF Program, output
<1>6. CASE r.cmd = "power_cycle"
  BY <1>6 DEF Program, power_cycle
<1>7. CASE r.cmd = "waveform"
  BY <1>7 DEF Program, waveform
<1>8. CASE r.cmd = "vsweep"
  BY <1>8 DEF Program, misdispatched
<1>9. CASE r.cmd = "shutdown"
  BY <1>9 DEF Program
<1>10. CASE r.cmd \notin {"list_psus", "all_off", "connect", "disconnect", "query", "on", "off",
                         "power_cycle", "waveform", "vsweep", "shutdown"}
  BY <1>10 DEF Program
<1> QED
  BY <1>1, <1>2, <1>3, <1>4, <1>5, <1>6, <1>7, <1>8, <1>9, <1>10

---------------------------------------------------------------------------
(* What one step of a handler does to the registry, to its own request and *)
(* to the others.                                                          *)
SlotStep(s) == Test(s) \/ Section(s) \/ OpenSilent(s) \/ SectionFails(s)

LEMMA RegistryStep ==
    ASSUME ServerTypes, NEW s \in Slots, SlotStep(s)
    PROVE  /\ connected' \in [Units -> BOOLEAN] /\ power' \in [Units -> BOOLEAN]
           /\ \A u \in Units : /\ connected'[u] => connected[u] \/ Now(s).what = "open"
                               /\ power'[u] => power[u] \/ Now(s).what = "on"
<1>a. connected \in [Units -> BOOLEAN] /\ power \in [Units -> BOOLEAN]
  BY DEF ServerTypes
<1>1. CASE Test(s) \/ OpenSilent(s)
  BY <1>a, <1>1 DEF Test, OpenSilent, registry
<1>2. CASE Section(s)
  <2>1. /\ connected' = [connected EXCEPT
                 ![Now(s).psu] = Now(s).what = "open" \/ (@ /\ Now(s).what # "close")]
        /\ power' = [power EXCEPT ![Now(s).psu] = Now(s).what = "on" \/ (@ /\ Now(s).what # "off")]
    BY <1>2 DEF Section, Runs
  <2> QED
    BY <1>a, <2>1
<1>3. CASE SectionFails(s)
  <2>1. /\ connected' = connected
        /\ power' = power \/ power' = [power EXCEPT ![Now(s).psu] = (Now(s).what = "on")]
    BY <1>3 DEF SectionFails, RunsInVain
  <2> QED
    BY <1>a, <2>1
<1> QED
  BY <1>1, <1>2, <1>3 DEF SlotStep

Switches(s) == Now(s).what \in {"on", "open"}

LEMMA OtherRequests ==
    ASSUME ServerTypes, NEW s \in Slots, SlotStep(s), NEW q \in Slots, q # s
    PROVE  req'[q] = IF Switches(s) THEN Spoil(q) ELSE req[q]
<1>1. CASE SectionFails(s)
  <2>1. PICK r : req' = [After(s, 1) EXCEPT ![s] = r]
    BY <1>1 DEF SectionFails
  <2> QED
    BY <2>1 DEF After, Switches
<1>2. CASE Test(s) \/ Section(s) \/ OpenSilent(s)
  <2>1. PICK n : req' = After(s, n)
    BY <1>2 DEF Test, Section, OpenSilent
  <2> QED
    BY <2>1 DEF After, Switches
<1> QED
  BY <1>1, <1>2 DEF SlotStep

LEMMA OwnRequest ==
    ASSUME ServerTypes, NEW s \in Slots, SlotStep(s)
    PROVE  \/ \E n \in Nat \ {0} : req'[s] = [req[s] EXCEPT !.next = @ + n]
           \/ SectionFails(s) /\ Now(s).goesOn /\ req'[s] = [Spoil(s) EXCEPT !.next = @ + 1]
           \/ req'[s] = NoRequest
<1>a. /\ req[s] \in Requests
      /\ Len(Program(req[s])) \in Nat /\ req[s].next \in Nat \ {0}
      /\ req[s].next <= Len(Program(req[s]))
  BY ProgramLengths DEF ServerTypes, Requests, SlotStep, Test, Section, OpenSilent, SectionFails, Busy
<1>1. CASE Test(s)
  <2>1. PICK n \in {1, 2, Len(Program(req[s]))} : req' = After(s, n)
    BY <1>1 DEF Test
  <2>2. n \in Nat \ {0}
    BY <1>a, <2>1
  <2> QED
    BY <2>1, <2>2 DEF After
<1>2. CASE Section(s) \/ OpenSilent(s)
  <2>1. req' = After(s, 1)
    BY <1>2 DEF Section, OpenSilent
  <2>2. req'[s] = [req[s] EXCEPT !.next = @ + 1]
    BY <2>1 DEF After
  <2>3. 1 \in Nat \ {0}
    OBVIOUS
  <2> QED
    BY <2>2, <2>3
<1>3. CASE SectionFails(s)
  <2>1. req'[s] = IF Now(s).goesOn THEN [Spoil(s) EXCEPT !.next = @ + 1] ELSE NoRequest
    BY <1>3 DEF SectionFails, After
  <2> QED
    BY <1>3, <2>1
<1> QED
  BY <1>1, <1>2, <1>3 DEF SlotStep

LEMMA RequestTypes ==
    ASSUME ServerTypes, NEW s \in Slots, SlotStep(s)
    PROVE  req' \in [Slots -> Requests]
<1>1. req' = [q \in Slots |-> req'[q]]
  BY DEF SlotStep, Test, Section, OpenSilent, SectionFails, After
<1>2. ASSUME NEW q \in Slots PROVE req'[q] \in Requests
  <2>1. req[q] \in Requests /\ Spoil(q) \in Requests
    BY DEF ServerTypes, Spoil, Requests
  <2>2. CASE q # s
    BY <2>1, <2>2, OtherRequests
  <2>3. CASE q = s
    <3>1. ASSUME NEW r \in Requests, NEW n \in Nat \ {0}
          PROVE  [r EXCEPT !.next = @ + n] \in Requests
      BY DEF Requests
    <3>2. ASSUME NEW n \in Nat \ {0}, req'[s] = [req[s] EXCEPT !.next = @ + n]
          PROVE  req'[q] \in Requests
      BY <2>1, <2>3, <3>1, <3>2
    <3>3. ASSUME req'[s] = [Spoil(s) EXCEPT !.next = @ + 1]
          PROVE  req'[q] \in Requests
      <4>1. 1 \in Nat \ {0}
        OBVIOUS
      <4>2. [Spoil(q) EXCEPT !.next = @ + 1] \in Requests
        BY <2>1, <3>1, <4>1
      <4> QED
        BY <2>3, <3>3, <4>2
    <3> QED
      BY <2>3, <3>2, <3>3, OwnRequest, NoRequestType
  <2> QED
    BY <2>2, <2>3
<1> QED
  BY <1>1, <1>2

LEMMA TypesKept == ASSUME ServerTypes, [ServerNext]_serverVars PROVE ServerTypes'
<1>1. CASE UNCHANGED serverVars
  BY <1>1 DEF serverVars, process, registry, ServerTypes
<1>2. CASE Start
  BY <1>2 DEF Start, ServerTypes
<1>3. CASE UnlinkStale \/ Bind
  BY <1>3 DEF UnlinkStale, Bind, registry, ServerTypes
<1>4. CASE TestEvent \/ AcceptTimesOut \/ Joined \/ Signal
  BY <1>4 DEF TestEvent, AcceptTimesOut, Joined, Signal, registry, ServerTypes
<1>5. CASE CloseSocket
  BY <1>5, NoRequestType DEF CloseSocket, Reset, registry, ServerTypes
<1>6. CASE CloseWorkers
  BY <1>6 DEF CloseWorkers, ServerTypes
<1>7. CASE Exit \/ Kill
  BY <1>7, NoRequestType DEF Exit, Kill, Ends, ServerTypes
<1>8. ASSUME NEW s \in Slots, Accept(s) PROVE ServerTypes'
  <2>1. req' \in [Slots -> Requests]
    BY <1>8 DEF Accept, ServerTypes, Requests
  <2> QED
    BY <1>8, <2>1 DEF Accept, registry, ServerTypes
<1>9. ASSUME NEW s \in Slots, NEW name \in Commands[s], NEW u \in Units, Send(s, name, u)
      PROVE  ServerTypes'
  <2>1. [NoRequest EXCEPT !.at = "backlog", !.cmd = name, !.psu = u] \in Requests
    <3>1. name \in Names
      BY DEF Names
    <3>2. ASSUME NEW r \in Requests
          PROVE  [r EXCEPT !.at = "backlog", !.cmd = name, !.psu = u] \in Requests
      BY <3>1 DEF Requests
    <3> QED
      BY <3>2, NoRequestType
  <2> QED
    BY <1>9, <2>1 DEF Send, process, registry, ServerTypes
<1>10. ASSUME NEW s \in Slots, Leaves(s) PROVE ServerTypes'
  BY <1>10, NoRequestType DEF Leaves, process, registry, ServerTypes
<1>11. ASSUME NEW s \in Slots, SlotStep(s) PROVE ServerTypes'
  <2>1. up' = up /\ ending' = ending /\ sockFile' = sockFile /\ pidFile' = pidFile
        /\ event' \in BOOLEAN
    BY <1>11 DEF SlotStep, Test, Section, OpenSilent, SectionFails, process, ServerTypes
  <2> QED
    BY <1>11, <2>1, RegistryStep, RequestTypes DEF ServerTypes
<1>12. ASSUME NEW s \in Slots, Reply(s) PROVE ServerTypes'
  <2>1. req' \in [Slots -> Requests]
    BY <1>12, NoRequestType DEF Reply, ServerTypes, Requests
  <2> QED
    BY <1>12, <2>1 DEF Reply, process, registry, ServerTypes
<1> QED
  BY <1>1, <1>2, <1>3, <1>4, <1>5, <1>6, <1>7, <1>8, <1>9, <1>10, <1>11, <1>12
     DEF ServerNext, MainStep, HandlerStep, SlotStep

---------------------------------------------------------------------------
(* The inductive invariant of a slot: what its all_off has passed is off.  *)
PassedOff(s) ==
    req[s].at = "handled" /\ req[s].cmd = "all_off" /\ req[s].clear =>
        \A k \in 1 .. Len(Psus) :
            2 * k < req[s].next => (connected[Psus[k]] => ~power[Psus[k]])

RepliedOff(s) ==
    req[s].at = "ok" =>
        /\ req[s].cmd = "all_off"
        /\ req[s].clear => \A u \in Units : connected[u] => ~power[u]

SlotInv(s) ==
    /\ req[s].at = "backlog" => req[s].next = 1
    /\ up = "down" => req[s].at = "none"
    /\ PassedOff(s)
    /\ RepliedOff(s)

(* A step that changes neither the registry nor the request, or gives the  *)
(* slot no request.                                                        *)
LEMMA SlotUntouched ==
    ASSUME NEW s \in Slots, SlotInv(s),
           \/ req'[s] = NoRequest
           \/ /\ req'[s] = req[s]
              /\ power' = power
              /\ connected' = connected \/ connected' = [u \in Units |-> FALSE]
              /\ up' = "down" => up = "down"
    PROVE  SlotInv(s)'
<1>1. CASE req'[s] = NoRequest
  BY <1>1, NoRequestType DEF SlotInv, PassedOff, RepliedOff
<1>2. CASE /\ req'[s] = req[s]
           /\ power' = power
           /\ connected' = connected
           /\ up' = "down" => up = "down"
  BY <1>2 DEF SlotInv, PassedOff, RepliedOff
<1>3. CASE /\ req'[s] = req[s]
           /\ connected' = [u \in Units |-> FALSE]
           /\ up' = "down" => up = "down"
  <2>1. \A j \in 1 .. Len(Psus) : Psus[j] \in Units
    BY RegistryAssumption
  <2> QED
    BY <1>3, <2>1 DEF SlotInv, PassedOff, RepliedOff
<1> QED
  BY <1>1, <1>2, <1>3

(* Another handler's step: it disturbs only what it spoils.                *)
LEMMA OtherKept ==
    ASSUME ServerTypes, NEW s \in Slots, SlotStep(s), NEW q \in Slots, q # s, SlotInv(q)
    PROVE  SlotInv(q)'
<1>1. up' = up
  BY DEF SlotStep, Test, Section, OpenSilent, SectionFails, process
<1>2. req[q] \in Requests
  BY DEF ServerTypes
<1>3. \A j \in 1 .. Len(Psus) : Psus[j] \in Units
  BY RegistryAssumption
<1>4. CASE Switches(s)
  <2>1. req'[q] = Spoil(q)
    BY <1>4, OtherRequests
  <2>2. /\ req'[q].at = req[q].at /\ req'[q].cmd = req[q].cmd /\ req'[q].next = req[q].next
        /\ req[q].cmd = "all_off" => ~req'[q].clear
    BY <1>2, <2>1 DEF Spoil, Requests
  <2> QED
    BY <1>1, <2>2 DEF SlotInv, PassedOff, RepliedOff
<1>5. CASE ~Switches(s)
  <2>1. req'[q] = req[q]
    BY <1>5, OtherRequests
  <2>2. \A u \in Units : (connected'[u] => connected[u]) /\ (power'[u] => power[u])
    BY <1>5, RegistryStep DEF Switches
  <2> QED
    BY <1>1, <1>3, <2>1, <2>2 DEF SlotInv, PassedOff, RepliedOff
<1> QED
  BY <1>4, <1>5

(* The handler's own step.                                                 *)
LEMMA OwnKept ==
    ASSUME ServerTypes, NEW s \in Slots, SlotStep(s), SlotInv(s)
    PROVE  SlotInv(s)'
<1>a. req[s] \in Requests /\ req[s].at = "handled" /\ Busy(s) /\ up' = up
  BY DEF ServerTypes, SlotStep, Test, Section, OpenSilent, SectionFails, Busy, Running, process
<1>b. Len(Psus) \in Nat /\ \A j \in 1 .. Len(Psus) : Psus[j] \in Units
  BY RegistryAssumption
<1>c. connected \in [Units -> BOOLEAN] /\ power \in [Units -> BOOLEAN]
  BY DEF ServerTypes
<1>1. CASE req'[s] = NoRequest
  BY <1>1, SlotUntouched
<1>2. CASE SectionFails(s) /\ Now(s).goesOn /\ req'[s] = [Spoil(s) EXCEPT !.next = @ + 1]
  <2>1. /\ req'[s].at = "handled"
        /\ req'[s].cmd = "all_off" => ~req'[s].clear
    BY <1>a, <1>2 DEF Spoil, Requests
  <2> QED
    BY <1>a, <2>1 DEF SlotInv, PassedOff, RepliedOff
<1>3. ASSUME NEW n \in Nat \ {0}, req'[s] = [req[s] EXCEPT !.next = @ + n], ~SectionFails(s)
      PROVE  SlotInv(s)'
  <2>1. /\ req'[s].at = "handled" /\ req'[s].cmd = req[s].cmd /\ req'[s].clear = req[s].clear
        /\ req'[s].next = req[s].next + n
        /\ req[s].next \in Nat \ {0}
    BY <1>a, <1>3 DEF Requests
  <2>2. ASSUME req[s].cmd = "all_off", req[s].clear,
               NEW k \in 1 .. Len(Psus), 2 * k < req[s].next + n
        PROVE  connected'[Psus[k]] => ~power'[Psus[k]]
    <3>1. Program(req[s]) = ForEachPsu("off")
      BY <2>2 DEF Program, all_off
    <3>2. req[s].next \in 1 .. 2 * Len(Psus)
      BY <1>a, <1>b, <2>1, <3>1, AllOffProgram DEF Busy
    <3>3. /\ req[s].next % 2 \in {0, 1}
          /\ req[s].next % 2 = 1 => Now(s).what = "skip" /\ Now(s).psu = Psus[(req[s].next + 1) \div 2]
          /\ req[s].next % 2 = 0 => Now(s).what = "off" /\ Now(s).psu = Psus[req[s].next \div 2]
      <4>1. Now(s) = ForEachPsu("off")[req[s].next]
        BY <3>1 DEF Now
      <4>2. req[s].next % 2 \in {0, 1}
        BY <2>1
      <4> QED
        BY <3>2, <4>1, <4>2, AllOffProgram
    <3>4. 2 * k < req[s].next => (connected[Psus[k]] => ~power[Psus[k]])
      BY <1>a, <2>2 DEF SlotInv, PassedOff
    <3>5. CASE req[s].next % 2 = 1
      <4>1. Test(s)
        BY <1>3, <3>3, <3>5 DEF SlotStep, Section, OpenSilent, Writes
      <4>2. UNCHANGED <<connected, power>>
        BY <4>1 DEF Test, registry
      <4>3. CASE connected[Now(s).psu] = TRUE
        <5>1. req'[s] = [req[s] EXCEPT !.next = @ + 1]
          BY <3>3, <3>5, <4>1, <4>3 DEF Test, After
        <5>2. req'[s].next = req[s].next + 1
          BY <1>a, <5>1 DEF Requests
        <5>3. 2 * k < req[s].next
          BY <2>1, <2>2, <3>5, <5>2
        <5> QED
          BY <3>4, <4>2, <5>3
      <4>4. CASE connected[Now(s).psu] = FALSE
        <5>1. req'[s] = [req[s] EXCEPT !.next = @ + 2]
          BY <3>3, <3>5, <4>1, <4>4 DEF Test, After
        <5>2. req'[s].next = req[s].next + 2
          BY <1>a, <5>1 DEF Requests
        <5>3. 2 * k < req[s].next \/ k = (req[s].next + 1) \div 2
          BY <2>1, <2>2, <3>5, <5>2
        <5> QED
          BY <3>3, <3>4, <3>5, <4>2, <4>4, <5>3
      <4>5. Now(s).psu \in Units
        <5>1. (req[s].next + 1) \div 2 \in 1 .. Len(Psus)
          BY <1>b, <3>2, <3>5
        <5> QED
          BY <1>b, <3>3, <3>5, <5>1
      <4> QED
        BY <1>c, <4>3, <4>4, <4>5
    <3>6. CASE req[s].next % 2 = 0
      <4>1. Now(s).what = "off" /\ Now(s).psu = Psus[req[s].next \div 2]
        BY <3>3, <3>6
      <4>2. Section(s)
        BY <1>3, <4>1 DEF SlotStep, Test, Tests, OpenSilent
      <4>3. /\ connected' = [connected EXCEPT ![Now(s).psu] = @]
            /\ power' = [power EXCEPT ![Now(s).psu] = FALSE]
        BY <1>c, <4>1, <4>2 DEF Section, Runs
      <4>4. req'[s] = [req[s] EXCEPT !.next = @ + 1]
        BY <4>2 DEF Section, After
      <4>5. req'[s].next = req[s].next + 1
        BY <1>a, <4>4 DEF Requests
      <4>6. 2 * k < req[s].next \/ k = req[s].next \div 2
        BY <2>1, <2>2, <3>6, <4>5
      <4> QED
        BY <1>b, <1>c, <3>4, <4>1, <4>3, <4>6
    <3> QED
      BY <3>3, <3>5, <3>6
  <2> QED
    BY <1>a, <2>1, <2>2 DEF SlotInv, PassedOff, RepliedOff
<1>4. CASE SectionFails(s)
  <2>1. req'[s] = IF Now(s).goesOn THEN [Spoil(s) EXCEPT !.next = @ + 1] ELSE NoRequest
    BY <1>4 DEF SectionFails, After
  <2> QED
    BY <1>1, <1>2, <1>4, <2>1
<1> QED
  BY <1>1, <1>2, <1>3, <1>4, OwnRequest

LEMMA SlotsKept ==
    ASSUME ServerTypes, \A s \in Slots : SlotInv(s), [ServerNext]_serverVars
    PROVE  \A s \in Slots : SlotInv(s)'
<1> SUFFICES ASSUME NEW q \in Slots PROVE SlotInv(q)'
  OBVIOUS
<1>a. SlotInv(q)
  OBVIOUS
<1>b. req \in [Slots -> Requests] /\ req[q] \in Requests
  BY DEF ServerTypes
<1>1. CASE UNCHANGED serverVars
  BY <1>1, <1>a, SlotUntouched DEF serverVars, process, registry
<1>2. CASE Start
  <2>1. req'[q] = req[q] /\ req[q].at = "none" /\ up' # "down"
    BY <1>2 DEF Start, SlotInv
  <2> QED
    BY <2>1 DEF SlotInv, PassedOff, RepliedOff
<1>3. CASE UnlinkStale \/ Bind \/ TestEvent \/ AcceptTimesOut \/ Joined \/ Signal \/ CloseWorkers
  <2>1. /\ req' = req /\ power' = power
        /\ connected' = connected \/ connected' = [u \in Units |-> FALSE]
        /\ up' = "down" => up = "down"
    BY <1>3 DEF UnlinkStale, Bind, TestEvent, AcceptTimesOut, Joined, Signal, CloseWorkers, registry
  <2> QED
    BY <1>a, <2>1, SlotUntouched
<1>4. CASE CloseSocket
  <2>1. /\ req'[q] = NoRequest \/ req'[q] = req[q]
        /\ power' = power /\ connected' = connected /\ up' # "down"
    BY <1>4 DEF CloseSocket, Reset, registry
  <2> QED
    BY <1>a, <2>1, SlotUntouched
<1>5. CASE Exit \/ Kill
  <2>1. req'[q] = NoRequest
    BY <1>5 DEF Exit, Kill, Ends
  <2> QED
    BY <1>a, <2>1, SlotUntouched
<1>6. ASSUME NEW s \in Slots, Accept(s) PROVE SlotInv(q)'
  <2>1. power' = power /\ connected' = connected /\ up' = "serving"
    BY <1>6 DEF Accept, registry
  <2>2. CASE q = s
    <3>1. /\ req[q].at = "backlog"
          /\ req'[q] = [req[q] EXCEPT !.at = "handled"]
      BY <1>6, <1>b, <2>2 DEF Accept
    <3>2. req'[q].at = "handled" /\ req'[q].next = 1
      BY <1>a, <1>b, <3>1 DEF SlotInv, Requests
    <3>3. Len(Psus) \in Nat
      BY RegistryAssumption
    <3> QED
      BY <2>1, <3>2, <3>3 DEF SlotInv, PassedOff, RepliedOff
  <2>3. CASE q # s
    BY <1>6, <1>a, <1>b, <2>1, <2>3, SlotUntouched DEF Accept
  <2> QED
    BY <2>2, <2>3
<1>7. ASSUME NEW s \in Slots, NEW name \in Commands[s], NEW u \in Units, Send(s, name, u)
      PROVE  SlotInv(q)'
  <2>1. power' = power /\ connected' = connected /\ up' = up /\ up # "down"
    BY <1>7 DEF Send, process, registry
  <2>2. CASE q = s
    <3>1. req'[q] = [NoRequest EXCEPT !.at = "backlog", !.cmd = name, !.psu = u]
      BY <1>7, <1>b, <2>2 DEF Send
    <3>2. req'[q].at = "backlog" /\ req'[q].next = 1
      BY <3>1 DEF NoRequest
    <3> QED
      BY <2>1, <3>2 DEF SlotInv, PassedOff, RepliedOff
  <2>3. CASE q # s
    BY <1>7, <1>a, <1>b, <2>1, <2>3, SlotUntouched DEF Send
  <2> QED
    BY <2>2, <2>3
<1>8. ASSUME NEW s \in Slots, Leaves(s) PROVE SlotInv(q)'
  <2>1. /\ req'[q] = NoRequest \/ req'[q] = req[q]
        /\ power' = power /\ connected' = connected /\ up' = up
    BY <1>8, <1>b DEF Leaves, process, registry
  <2> QED
    BY <1>a, <2>1, SlotUntouched
<1>9. ASSUME NEW s \in Slots, SlotStep(s) PROVE SlotInv(q)'
  BY <1>9, <1>a, OwnKept, OtherKept
<1>10. ASSUME NEW s \in Slots, Reply(s) PROVE SlotInv(q)'
  <2>1. power' = power /\ connected' = connected /\ up' = up
    BY <1>10 DEF Reply, process, registry
  <2>2. CASE q = s /\ req[q].cmd = "all_off"
    <3>1. /\ req[q].at = "handled"
          /\ req'[q] = [req[q] EXCEPT !.at = "ok"]
          /\ req[q].next > Len(ForEachPsu("off"))
      BY <1>10, <1>b, <2>2 DEF Reply, Running, Program, all_off
    <3>2. /\ req'[q].at = "ok" /\ req'[q].cmd = "all_off" /\ req'[q].clear = req[q].clear
          /\ req[q].next \in Nat
      BY <1>b, <2>2, <3>1 DEF Requests
    <3>3. ASSUME req[q].clear, NEW u \in Units, connected[u] PROVE ~power[u]
      <4>1. PICK k \in 1 .. Len(Psus) : u = Psus[k]
        BY DEF Units
      <4>2. 2 * k < req[q].next
        <5>1. Len(Psus) \in Nat
          BY RegistryAssumption
        <5> QED
          BY <3>1, <3>2, <5>1, AllOffProgram
      <4> QED
        BY <1>a, <2>2, <3>1, <3>3, <4>1, <4>2 DEF SlotInv, PassedOff
    <3>4. up # "down"
      BY <1>a, <3>1 DEF SlotInv
    <3> QED
      BY <2>1, <3>2, <3>3, <3>4 DEF SlotInv, PassedOff, RepliedOff
  <2>3. CASE ~(q = s /\ req[q].cmd = "all_off")
    <3>1. req'[q] = NoRequest \/ req'[q] = req[q]
      BY <1>10, <1>b, <2>3 DEF Reply
    <3> QED
      BY <1>a, <2>1, <3>1, SlotUntouched
  <2> QED
    BY <2>2, <2>3
<1> QED
  BY <1>1, <1>2, <1>3, <1>4, <1>5, <1>6, <1>7, <1>8, <1>9, <1>10
     DEF ServerNext, MainStep, HandlerStep, SlotStep

(* When all_off has replied without an error, and while no other request   *)
(* has switched or connected a supply since it came, every connected       *)
(* supply is off: for any supplies and any number of clients, whose        *)
(* handlers run between its steps.                                         *)
THEOREM ServerAllOffMeansOff == ServerSpec => []AllOffReplyMeansOff
<1> DEFINE IInv == ServerTypes /\ \A s \in Slots : SlotInv(s)
<1>1. ServerInit => IInv
  <2> SUFFICES ASSUME ServerInit PROVE IInv
    OBVIOUS
  <2>1. ServerTypes
    BY NoRequestType DEF ServerInit, ServerTypes
  <2>2. ASSUME NEW s \in Slots PROVE SlotInv(s)
    BY NoRequestType DEF ServerInit, SlotInv, PassedOff, RepliedOff
  <2> QED
    BY <2>1, <2>2
<1>2. IInv /\ [ServerNext]_serverVars => IInv'
  BY TypesKept, SlotsKept
<1>3. IInv => AllOffReplyMeansOff
  BY DEF SlotInv, RepliedOff, AllOffReplyMeansOff
<1> QED
  BY <1>1, <1>2, <1>3, PTL DEF ServerSpec
=============================================================================
