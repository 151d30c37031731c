-------------------------- MODULE McpServerProofs --------------------------
(***************************************************************************)
(* What McpServer promises, proved for any supplies.  Only main and        *)
(* rd_connect open a supply, and both have been told of it; only what is   *)
(* open is written to.  rd_all_off has, at each of its steps, turned off   *)
(* every connected supply it has passed.  At the end, the composition with *)
(* the socket server.                                                      *)
(***************************************************************************)
EXTENDS Services, TLAPS

McpTypes ==
    /\ server \in {"down", "ready", "busy"}
    /\ connected \in [Units -> BOOLEAN]
    /\ power \in [Units -> BOOLEAN]
    /\ logging \in [Units -> BOOLEAN]
    /\ call \in [tool : Tools \cup {"none"}, psu : Units, next : Nat \ {0}, clear : BOOLEAN]
    /\ approved \subseteq Units
    /\ written \subseteq Units

(* What every step of every tool is.                                       *)
Whats == Writes \cup Tests \cup {"read", "open", "close", "log", "stop log"}

StepOf(c, i, step) ==
    /\ step.what \in Whats
    /\ step.psu \in Units
    /\ step.goesOn \in BOOLEAN
    /\ step.what = "open" => c.tool = "rd_connect" /\ step.psu = c.psu
    /\ step.what = "log" => c.tool = "rd_log_status" /\ i = 2 /\ step.psu = c.psu
    /\ c.tool = "rd_log_status" /\ i = 1 => step.what = "ensure" /\ step.psu = c.psu
    /\ c.tool = "rd_all_off" /\ i % 2 = 1 =>
          step.what = "skip" /\ step.psu = Psus[(i + 1) \div 2]
    /\ c.tool = "rd_all_off" /\ i % 2 = 0 =>
          step.what = "off" /\ step.psu = Psus[i \div 2]

Plain(u) == [what : Whats \ {"open", "log"}, psu : {u}, goesOn : BOOLEAN]

LEMMA Fields ==
    ASSUME NEW w, NEW u
    PROVE  /\ Do(w, u).what = w /\ Do(w, u).psu = u /\ Do(w, u).goesOn = FALSE
           /\ Try(w, u).what = w /\ Try(w, u).psu = u /\ Try(w, u).goesOn = TRUE
BY DEF Do, Try

LEMMA ConnectOrLogStep ==
    ASSUME NEW c, NEW i, NEW step,
           step.psu \in Units, step.psu = c.psu, step.goesOn \in BOOLEAN,
           \/ c.tool = "rd_connect" /\ step.what \in {"have", "open"}
           \/ c.tool = "rd_log_status" /\ i = 1 /\ step.what = "ensure"
           \/ c.tool = "rd_log_status" /\ i = 2 /\ step.what = "log"
    PROVE  StepOf(c, i, step)
<1>1. CASE c.tool = "rd_connect" /\ step.what \in {"have", "open"}
  BY <1>1 DEF StepOf, Whats, Tests
<1>2. CASE c.tool = "rd_log_status" /\ i = 1 /\ step.what = "ensure"
  BY <1>2 DEF StepOf, Whats, Tests
<1>3. CASE c.tool = "rd_log_status" /\ i = 2 /\ step.what = "log"
  BY <1>3 DEF StepOf, Whats
<1> QED
  BY <1>1, <1>2, <1>3

LEMMA AllOffStep ==
    ASSUME NEW c, NEW i, NEW step,
           c.tool = "rd_all_off", step.psu \in Units, step.goesOn \in BOOLEAN,
           \/ i % 2 = 1 /\ step.what = "skip" /\ step.psu = Psus[(i + 1) \div 2]
           \/ i % 2 = 0 /\ step.what = "off" /\ step.psu = Psus[i \div 2]
    PROVE  StepOf(c, i, step)
<1>1. CASE i % 2 = 1 /\ step.what = "skip" /\ step.psu = Psus[(i + 1) \div 2]
  BY <1>1 DEF StepOf, Whats, Tests
<1>2. CASE i % 2 = 0 /\ step.what = "off" /\ step.psu = Psus[i \div 2]
  BY <1>2 DEF StepOf, Whats, Writes
<1> QED
  BY <1>1, <1>2

LEMMA AllOffSteps ==
    ASSUME NEW c, c.tool = "rd_all_off", NEW i \in 1 .. Len(ToolProgram(c))
    PROVE  StepOf(c, i, ToolProgram(c)[i])
<1>0. Len(Psus) \in Nat /\ \A j \in 1 .. Len(Psus) : Psus[j] \in Units
  BY RegistryAssumption
<1>1. ToolProgram(c) = rd_all_off
  BY DEF ToolProgram
<1>2. Len(rd_all_off) = 2 * Len(Psus)
  BY <1>0 DEF rd_all_off, ForEachPsu
<1>3. i \in 1 .. 2 * Len(Psus)
  BY <1>1, <1>2
<1>4. /\ i % 2 = 1 => (i + 1) \div 2 \in 1 .. Len(Psus)
      /\ i % 2 # 1 => i \div 2 \in 1 .. Len(Psus)
      /\ i % 2 \in {0, 1}
  BY <1>0, <1>3
<1>5. ToolProgram(c)[i] = IF i % 2 = 1 THEN Do("skip", Psus[(i + 1) \div 2])
                          ELSE Try("off", Psus[i \div 2])
  BY <1>1, <1>3 DEF rd_all_off, ForEachPsu
<1>6. CASE i % 2 = 1
  <2>1. ToolProgram(c)[i] = Do("skip", Psus[(i + 1) \div 2])
    BY <1>5, <1>6
  <2>2. Psus[(i + 1) \div 2] \in Units
    BY <1>0, <1>4, <1>6
  <2>3. /\ ToolProgram(c)[i].what = "skip" /\ ToolProgram(c)[i].goesOn = FALSE
        /\ ToolProgram(c)[i].psu = Psus[(i + 1) \div 2]
    BY <2>1 DEF Do, Try
  <2> QED
    BY <1>6, <2>2, <2>3, AllOffStep
<1>7. CASE i % 2 = 0
  <2>1. ToolProgram(c)[i] = Try("off", Psus[i \div 2])
    BY <1>5, <1>7
  <2>2. Psus[i \div 2] \in Units
    BY <1>0, <1>4, <1>7
  <2>3. /\ ToolProgram(c)[i].what = "off" /\ ToolProgram(c)[i].goesOn = TRUE
        /\ ToolProgram(c)[i].psu = Psus[i \div 2]
    BY <2>1 DEF Do, Try
  <2> QED
    BY <1>7, <2>2, <2>3, AllOffStep
<1> QED
  BY <1>4, <1>6, <1>7

LEMMA Tuples ==
    ASSUME NEW S, NEW a \in S
    PROVE  /\ <<a>> \in Seq(S)
           /\ \A b \in S : <<a, b>> \in Seq(S)
           /\ \A b, c, d \in S : <<a, b, c, d>> \in Seq(S)
OBVIOUS

LEMMA Ensured ==
    ASSUME NEW S, NEW a \in S, NEW q \in Seq(S)
    PROVE  <<a>> \o q \in Seq(S)
OBVIOUS

LEMMA PlainPrograms ==
    ASSUME NEW c, c.tool \in Tools \ {"rd_all_off", "rd_connect", "rd_log_status"}
    PROVE  ToolProgram(c) \in Seq(Plain(c.psu))
<1> SUFFICES ASSUME NEW u, u = c.psu PROVE ToolProgram(c) \in Seq(Plain(u))
  OBVIOUS
<1>a. /\ Do("ensure", u) \in Plain(u) /\ Do("close", u) \in Plain(u)
      /\ Do("read", u) \in Plain(u) /\ Do("write", u) \in Plain(u)
      /\ Do("on", u) \in Plain(u) /\ Do("off", u) \in Plain(u)
      /\ Do("stop log", u) \in Plain(u) /\ Try("write", u) \in Plain(u)
  BY DEF Plain, Do, Try, Whats, Writes, Tests
<1>b. \A q \in Seq(Plain(u)) : _ensure_connected(u) \o q \in Seq(Plain(u))
  BY <1>a, Ensured DEF _ensure_connected
<1>1. rd_disconnect(u) \in Seq(Plain(u))
  BY <1>a, Tuples DEF rd_disconnect
<1>2. rd_status(u) \in Seq(Plain(u)) /\ rd_set_voltage(u) \in Seq(Plain(u))
  <2>1. <<Do("read", u)>> \in Seq(Plain(u)) /\ <<Do("write", u)>> \in Seq(Plain(u))
    BY <1>a, Tuples
  <2> QED
    BY <1>b, <2>1 DEF rd_status, rd_set_voltage
<1>3. rd_output(u, "on") \in Seq(Plain(u)) /\ rd_output(u, "off") \in Seq(Plain(u))
  <2>1. <<Do("on", u)>> \in Seq(Plain(u)) /\ <<Do("off", u)>> \in Seq(Plain(u))
    BY <1>a, Tuples
  <2> QED
    BY <1>b, <2>1 DEF rd_output
<1>4. rd_log_stop(u) \in Seq(Plain(u))
  <2>1. <<Do("stop log", u)>> \in Seq(Plain(u))
    BY <1>a, Tuples
  <2> QED
    BY <1>b, <2>1 DEF rd_log_stop
<1>5. rd_power_cycle(u) \in Seq(Plain(u))
  <2>1. <<Do("off", u), Do("on", u)>> \in Seq(Plain(u))
    BY <1>a, Tuples
  <2> QED
    BY <1>b, <2>1 DEF rd_power_cycle
<1>6. rd_waveform(u) \in Seq(Plain(u))
  <2>1. <<Do("on", u), Try("write", u), Do("write", u), Do("off", u)>> \in Seq(Plain(u))
    BY <1>a, Tuples
  <2> QED
    BY <1>b, <2>1 DEF rd_waveform
<1>7. rd_inrush_capture(u) \in Seq(Plain(u))
  <2>1. <<Do("off", u), Do("write", u), Do("on", u), Do("off", u)>> \in Seq(Plain(u))
    BY <1>a, Tuples
  <2> QED
    BY <1>b, <2>1 DEF rd_inrush_capture
<1> QED
  BY <1>1, <1>2, <1>3, <1>4, <1>5, <1>6, <1>7 DEF ToolProgram, Tools

LEMMA ConnectSteps ==
    ASSUME NEW c, c.tool = "rd_connect", c.psu \in Units, NEW i \in 1 .. Len(ToolProgram(c))
    PROVE  StepOf(c, i, ToolProgram(c)[i])
<1>1. ToolProgram(c) = <<Do("have", c.psu), Do("open", c.psu)>>
  BY DEF ToolProgram, rd_connect
<1>2. \/ i = 1 /\ ToolProgram(c)[i] = Do("have", c.psu)
      \/ i = 2 /\ ToolProgram(c)[i] = Do("open", c.psu)
  BY <1>1
<1>3. /\ ToolProgram(c)[i].psu = c.psu /\ ToolProgram(c)[i].goesOn = FALSE
      /\ \/ i = 1 /\ ToolProgram(c)[i].what = "have"
         \/ i = 2 /\ ToolProgram(c)[i].what = "open"
  BY <1>2 DEF Do
<1> QED
  BY <1>3, ConnectOrLogStep

LEMMA LogSteps ==
    ASSUME NEW c, c.tool = "rd_log_status", c.psu \in Units, NEW i \in 1 .. Len(ToolProgram(c))
    PROVE  StepOf(c, i, ToolProgram(c)[i])
<1>1. ToolProgram(c) = <<Do("ensure", c.psu)>> \o <<Do("log", c.psu)>>
  BY DEF ToolProgram, rd_log_status, _ensure_connected
<1>2. \/ i = 1 /\ ToolProgram(c)[i] = Do("ensure", c.psu)
      \/ i = 2 /\ ToolProgram(c)[i] = Do("log", c.psu)
  BY <1>1
<1>3. /\ ToolProgram(c)[i].psu = c.psu /\ ToolProgram(c)[i].goesOn = FALSE
      /\ \/ i = 1 /\ ToolProgram(c)[i].what = "ensure"
         \/ i = 2 /\ ToolProgram(c)[i].what = "log"
  BY <1>2 DEF Do
<1> QED
  BY <1>3, ConnectOrLogStep

LEMMA Steps ==
    ASSUME NEW c, c.tool \in Tools, c.psu \in Units, NEW i \in 1 .. Len(ToolProgram(c))
    PROVE  StepOf(c, i, ToolProgram(c)[i])
<1>1. CASE c.tool \in Tools \ {"rd_all_off", "rd_connect", "rd_log_status"}
  <2>1. ToolProgram(c)[i] \in Plain(c.psu)
    BY <1>1, PlainPrograms
  <2> QED
    BY <1>1, <2>1 DEF StepOf, Plain
<1> QED
  BY <1>1, AllOffSteps, ConnectSteps, LogSteps

LEMMA ProgramLengths ==
    ASSUME NEW c, c.tool \in Tools
    PROVE  Len(ToolProgram(c)) \in Nat
<1>1. CASE c.tool = "rd_all_off"
  <2>1. Len(Psus) \in Nat
    BY RegistryAssumption
  <2>2. ToolProgram(c) = rd_all_off
    BY <1>1 DEF ToolProgram
  <2> QED
    BY <2>1, <2>2 DEF rd_all_off, ForEachPsu
<1>2. CASE c.tool = "rd_connect"
  <2>1. ToolProgram(c) = <<Do("have", c.psu), Do("open", c.psu)>>
    BY <1>2 DEF ToolProgram, rd_connect
  <2> QED
    BY <2>1
<1>3. CASE c.tool = "rd_log_status"
  <2>1. ToolProgram(c) = <<Do("ensure", c.psu)>> \o <<Do("log", c.psu)>>
    BY <1>3 DEF ToolProgram, rd_log_status, _ensure_connected
  <2> QED
    BY <2>1
<1>4. CASE c.tool \in Tools \ {"rd_all_off", "rd_connect", "rd_log_status"}
  BY <1>4, PlainPrograms
<1> QED
  BY <1>1, <1>2, <1>3, <1>4

---------------------------------------------------------------------------
(* The inductive invariant, in parts.                                      *)
Calling == server = "busy" => call.tool \in Tools

Down ==
    server = "down" =>
        /\ call = NoCall
        /\ \A u \in Units : ~connected[u] /\ ~logging[u]

McpBase == McpTypes /\ Calling /\ Down

(* What is open has been approved, and so has what rd_connect will open.   *)
OpenIsApproved ==
    /\ \A u \in Units : connected[u] => u \in approved
    /\ server = "busy" /\ call.tool = "rd_connect" => call.psu \in approved

(* rd_log_status has seen the connection it needs, and nobody drops it.    *)
LogSeesOpen ==
    server = "busy" /\ call.tool = "rd_log_status" /\ call.next = 2 => connected[call.psu]

(* What rd_all_off has passed without an error is off.                     *)
OffSoFar ==
    server = "busy" /\ call.tool = "rd_all_off" /\ call.clear =>
        \A k \in 1 .. Len(Psus) :
            2 * k < call.next => (connected[Psus[k]] => ~power[Psus[k]])

LEMMA NoCallType ==
    /\ NoCall \in [tool : Tools \cup {"none"}, psu : Units, next : Nat \ {0}, clear : BOOLEAN]
    /\ NoCall.tool = "none"
<1>1. Psus[1] \in Units
  BY RegistryAssumption
<1> QED
  BY <1>1 DEF NoCall

LEMMA HereIs ==
    ASSUME McpBase, InTool
    PROVE  /\ StepOf(call, call.next, Here)
           /\ Len(ToolProgram(call)) \in Nat
           /\ call.next \in 1 .. Len(ToolProgram(call))
<1>1. call.tool \in Tools /\ call.psu \in Units /\ call.next \in Nat \ {0}
  BY DEF McpBase, McpTypes, Calling, InTool
<1>2. Len(ToolProgram(call)) \in Nat
  BY <1>1, ProgramLengths
<1>3. call.next \in 1 .. Len(ToolProgram(call))
  BY <1>1, <1>2 DEF InTool
<1> QED
  BY <1>1, <1>2, <1>3, Steps DEF Here

LEMMA BaseInit == McpInit => McpBase
<1> SUFFICES ASSUME McpInit PROVE McpBase
  OBVIOUS
<1>1. call \in [tool : Tools \cup {"none"}, psu : Units, next : Nat \ {0}, clear : BOOLEAN]
  BY NoCallType DEF McpInit
<1> QED
  BY <1>1 DEF McpInit, McpBase, McpTypes, Calling, Down

(* What a step of a tool leaves: the call has advanced or ended.           *)
Advanced ==
    \/ /\ server' = "busy"
       /\ \E n \in Nat \ {0} : call' = [call EXCEPT !.next = @ + n]
    \/ /\ server' = "busy"
       /\ call' = [call EXCEPT !.next = @ + 1, !.clear = FALSE]
    \/ /\ server' = "ready"
       /\ call' = NoCall

LEMMA StepAdvances ==
    ASSUME McpBase, ToolTests \/ InWorker \/ Disconnects \/ InWorkerFails \/ OpensSilent
    PROVE  InTool /\ Advanced
<1>1. CASE ToolTests
  <2>1. /\ InTool
        /\ Len(ToolProgram(call)) \in Nat \ {0}
        /\ server = "busy"
        /\ Here.what \in {"skip", "have", "ensure"}
    BY <1>1, HereIs DEF ToolTests, InTool, Tests
  <2>2. CASE ToNext(1) \/ ToNext(2) \/ ToNext(Len(ToolProgram(call)))
    BY <2>1, <2>2 DEF ToNext, Advanced
  <2>3. CASE ToolRaises
    BY <2>1, <2>3 DEF ToolRaises, Advanced
  <2> QED
    BY <1>1, <2>1, <2>2, <2>3 DEF ToolTests
<1>2. CASE InWorker
  <2>1. InTool /\ server = "busy" /\ ToNext(1)
    BY <1>2 DEF InWorker, InTool
  <2> QED
    BY <2>1 DEF ToNext, Advanced
<1>3. CASE Disconnects
  BY <1>3 DEF Disconnects, InTool, ToNext, Advanced
<1>4. CASE InWorkerFails
  BY <1>4 DEF InWorkerFails, InTool, ToNext, ToolRaises, Advanced
<1>5. CASE OpensSilent
  BY <1>5 DEF OpensSilent, InTool, ToNext, Advanced
<1> QED
  BY <1>1, <1>2, <1>3, <1>4, <1>5

LEMMA BaseKept == ASSUME McpBase, [McpNext]_mcpVars PROVE McpBase'
<1> USE DEF McpBase
<1>1. CASE UNCHANGED mcpVars
  BY <1>1 DEF mcpVars, mandate, registry, McpTypes, Calling, Down
<1>2. CASE MainConfigured
  BY <1>2 DEF MainConfigured, McpTypes, Calling, Down
<1>3. CASE MainDiscovered
  BY <1>3 DEF MainDiscovered, registry, McpTypes, Calling, Down
<1>4. CASE McpEnds
  BY <1>4, NoCallType DEF McpEnds, mandate, McpTypes, Calling, Down
<1>5. ASSUME NEW tool \in Tools, NEW u \in Units, CallTool(tool, u) PROVE McpBase'
  <2>1. call' = [NoCall EXCEPT !.tool = tool, !.psu = u]
    BY <1>5 DEF CallTool
  <2>2. /\ call' \in [tool : Tools \cup {"none"}, psu : Units, next : Nat \ {0}, clear : BOOLEAN]
        /\ call'.tool = tool
    BY <2>1, NoCallType
  <2> QED
    BY <1>5, <2>2 DEF CallTool, registry, McpTypes, Calling, Down
<1>6. ASSUME InTool, Advanced, UNCHANGED approved,
             connected' \in [Units -> BOOLEAN], power' \in [Units -> BOOLEAN],
             logging' \in [Units -> BOOLEAN], written' \subseteq Units
      PROVE  McpBase'
  <2>1. /\ call' \in [tool : Tools \cup {"none"}, psu : Units, next : Nat \ {0}, clear : BOOLEAN]
        /\ server' \in {"busy", "ready"}
        /\ server' = "busy" => call'.tool \in Tools
    <3>1. /\ call \in [tool : Tools \cup {"none"}, psu : Units, next : Nat \ {0}, clear : BOOLEAN]
          /\ call.tool \in Tools
      BY <1>6 DEF McpTypes, Calling, InTool
    <3>2. ASSUME NEW n \in Nat \ {0}, call' = [call EXCEPT !.next = @ + n]
          PROVE  /\ call' \in [tool : Tools \cup {"none"}, psu : Units, next : Nat \ {0}, clear : BOOLEAN]
                 /\ call'.tool \in Tools
      BY <3>1, <3>2
    <3>3. ASSUME call' = [call EXCEPT !.next = @ + 1, !.clear = FALSE]
          PROVE  /\ call' \in [tool : Tools \cup {"none"}, psu : Units, next : Nat \ {0}, clear : BOOLEAN]
                 /\ call'.tool \in Tools
      <4>1. call.next + 1 \in Nat \ {0} /\ FALSE \in BOOLEAN
        BY <3>1
      <4> QED
        BY <3>1, <3>3, <4>1
    <3> QED
      BY <1>6, <3>2, <3>3, NoCallType DEF Advanced
  <2> QED
    BY <1>6, <2>1 DEF McpTypes, Calling, Down
<1>7. CASE ToolTests
  BY <1>6, <1>7, StepAdvances DEF ToolTests, mandate, registry, McpTypes
<1>8. CASE InWorker
  <2>1. Here.psu \in Units
    BY <1>8, HereIs DEF InWorker, StepOf
  <2> QED
    BY <1>6, <1>8, <2>1, StepAdvances DEF InWorker, Runs, Writing, mandate, McpTypes
<1>9. CASE Disconnects
  BY <1>6, <1>9, StepAdvances DEF Disconnects, mandate, McpTypes
<1>10. CASE InWorkerFails
  <2>1. Here.psu \in Units
    BY <1>10, HereIs DEF InWorkerFails, StepOf
  <2>2. power' \in [Units -> BOOLEAN]
    BY <1>10, <2>1 DEF InWorkerFails, RunsInVain, McpTypes
  <2> QED
    BY <1>6, <1>10, <2>1, <2>2, StepAdvances
       DEF InWorkerFails, RunsInVain, Writing, mandate, McpTypes
<1>11. CASE OpensSilent
  BY <1>6, <1>11, StepAdvances DEF OpensSilent, mandate, registry, McpTypes
<1>12. CASE ToolReturns
  BY <1>12 DEF ToolReturns, mandate, registry, McpTypes, Calling, Down
<1> QED
  BY <1>1, <1>2, <1>3, <1>4, <1>5, <1>7, <1>8, <1>9, <1>10, <1>11, <1>12 DEF McpNext

---------------------------------------------------------------------------
LEMMA ApprovalKept ==
    ASSUME McpBase, OpenIsApproved, ApprovedFirst, [McpNext]_mcpVars
    PROVE  OpenIsApproved' /\ ApprovedFirst'
<1>a. call.psu \in Units /\ approved \subseteq Units /\ connected \in [Units -> BOOLEAN]
  BY DEF McpBase, McpTypes
<1>1. CASE UNCHANGED mcpVars
  BY <1>1 DEF mcpVars, mandate, registry, OpenIsApproved, ApprovedFirst
<1>2. CASE MainConfigured
  BY <1>2 DEF MainConfigured, OpenIsApproved, ApprovedFirst, McpBase, Down, NoCall
<1>3. CASE MainDiscovered
  BY <1>3 DEF MainDiscovered, registry, OpenIsApproved, ApprovedFirst, McpBase, Down
<1>4. CASE McpEnds
  BY <1>4 DEF McpEnds, mandate, OpenIsApproved, ApprovedFirst
<1>5. ASSUME NEW tool \in Tools, NEW u \in Units, CallTool(tool, u)
      PROVE  OpenIsApproved' /\ ApprovedFirst'
  <2>1. call'.tool = tool /\ call'.psu = u
    BY <1>5 DEF CallTool, NoCall
  <2>2. approved \subseteq approved' /\ (tool = "rd_connect" => u \in approved')
    BY <1>5 DEF CallTool
  <2> QED
    BY <1>5, <2>1, <2>2 DEF CallTool, registry, OpenIsApproved, ApprovedFirst
<1>6. ASSUME InTool, Advanced, UNCHANGED approved,
             \A u \in Units : connected'[u] => connected[u] \/ u \in approved,
             written' = written \/ (connected[Here.psu] /\ written' = written \cup {Here.psu})
      PROVE  OpenIsApproved' /\ ApprovedFirst'
  <2>1. server' = "busy" => server = "busy" /\ call'.tool = call.tool /\ call'.psu = call.psu
    <3>1. call \in [tool : Tools \cup {"none"}, psu : Units, next : Nat \ {0}, clear : BOOLEAN]
      BY DEF McpBase, McpTypes
    <3> QED
      BY <1>6, <3>1 DEF Advanced, InTool
  <2>2. Here.psu \in Units
    BY <1>6, HereIs DEF StepOf
  <2> QED
    BY <1>6, <2>1, <2>2 DEF OpenIsApproved, ApprovedFirst
<1>7. CASE ToolTests
  BY <1>6, <1>7, StepAdvances DEF ToolTests, mandate, registry
<1>8. CASE InWorker
  <2>1. /\ Here.psu \in Units
        /\ Here.what = "open" => server = "busy" /\ call.tool = "rd_connect" /\ Here.psu = call.psu
    BY <1>8, HereIs DEF InWorker, InTool, StepOf
  <2>2. \A u \in Units : connected'[u] => connected[u] \/ u \in approved
    BY <1>a, <1>8, <2>1 DEF InWorker, Runs, OpenIsApproved
  <2>3. written' = written \/ (connected[Here.psu] /\ written' = written \cup {Here.psu})
    BY <1>8 DEF InWorker, Writing
  <2> QED
    BY <1>6, <1>8, <2>2, <2>3, StepAdvances DEF InWorker, mandate
<1>9. CASE Disconnects
  BY <1>a, <1>6, <1>9, StepAdvances DEF Disconnects, mandate
<1>10. CASE InWorkerFails
  <2>1. written' = written \/ (connected[Here.psu] /\ written' = written \cup {Here.psu})
    BY <1>10 DEF InWorkerFails, Writing
  <2> QED
    BY <1>6, <1>10, <2>1, StepAdvances DEF InWorkerFails, RunsInVain, mandate
<1>11. CASE OpensSilent
  BY <1>6, <1>11, StepAdvances DEF OpensSilent, mandate, registry
<1>12. CASE ToolReturns
  BY <1>12 DEF ToolReturns, mandate, registry, OpenIsApproved, ApprovedFirst
<1> QED
  BY <1>1, <1>2, <1>3, <1>4, <1>5, <1>7, <1>8, <1>9, <1>10, <1>11, <1>12 DEF McpNext

---------------------------------------------------------------------------
(* The step before the one that starts the loop is the test.               *)
LEMMA EnsuredBefore ==
    ASSUME McpBase, InTool, Advanced,
           server' = "busy", call'.tool = "rd_log_status", call'.next = 2
    PROVE  Here.what = "ensure" /\ Here.psu = call.psu /\ call'.psu = call.psu
<1>1. call \in [tool : Tools \cup {"none"}, psu : Units, next : Nat \ {0}, clear : BOOLEAN]
  BY DEF McpBase, McpTypes
<1>2. call.next = 1 /\ call.tool = "rd_log_status" /\ call'.psu = call.psu
  <2>1. CASE \E n \in Nat \ {0} : call' = [call EXCEPT !.next = @ + n]
    BY <1>1, <2>1
  <2>2. CASE call' = [call EXCEPT !.next = @ + 1, !.clear = FALSE]
    BY <1>1, <2>2
  <2> QED
    BY <2>1, <2>2 DEF Advanced
<1> QED
  BY <1>2, HereIs DEF StepOf

LEMMA LogsKept ==
    ASSUME McpBase, LogsStoppable, LogSeesOpen, [McpNext]_mcpVars
    PROVE  LogsStoppable' /\ LogSeesOpen'
<1>a. /\ call.psu \in Units
      /\ connected \in [Units -> BOOLEAN] /\ logging \in [Units -> BOOLEAN]
  BY DEF McpBase, McpTypes
<1>1. CASE UNCHANGED mcpVars
  BY <1>1 DEF mcpVars, mandate, registry, LogsStoppable, LogSeesOpen
<1>2. CASE MainConfigured
  BY <1>2 DEF MainConfigured, LogsStoppable, LogSeesOpen, McpBase, Down
<1>3. CASE MainDiscovered
  BY <1>3 DEF MainDiscovered, registry, LogsStoppable, LogSeesOpen, McpBase, Down
<1>4. CASE McpEnds
  BY <1>4 DEF McpEnds, LogsStoppable, LogSeesOpen
<1>5. ASSUME NEW tool \in Tools, NEW u \in Units, CallTool(tool, u)
      PROVE  LogsStoppable' /\ LogSeesOpen'
  <2>1. call'.next = 1
    BY <1>5 DEF CallTool, NoCall
  <2> QED
    BY <1>5, <2>1 DEF CallTool, registry, LogsStoppable, LogSeesOpen
<1>7. CASE ToolTests
  <2>1. InTool /\ Advanced /\ UNCHANGED <<connected, logging>>
    BY <1>7, StepAdvances DEF ToolTests, registry
  <2>2. ASSUME server' = "busy", call'.tool = "rd_log_status", call'.next = 2
        PROVE  connected'[call'.psu]
    <3>1. Here.what = "ensure" /\ Here.psu = call.psu /\ call'.psu = call.psu
      BY <2>1, <2>2, EnsuredBefore
    <3>2. ~connected[call.psu] => ToolRaises
      BY <1>a, <1>7, <3>1 DEF ToolTests
    <3> QED
      BY <2>1, <2>2, <3>1, <3>2 DEF ToolRaises
  <2> QED
    BY <2>1, <2>2 DEF LogsStoppable, LogSeesOpen
<1>8. ASSUME InWorker \/ Disconnects \/ InWorkerFails \/ OpensSilent
      PROVE  LogSeesOpen'
  <2>1. Here.what # "ensure"
    BY <1>8 DEF InWorker, Disconnects, InWorkerFails, OpensSilent, Writes
  <2> QED
    BY <1>8, <2>1, StepAdvances, EnsuredBefore DEF LogSeesOpen
<1>9. CASE InWorker
  <2>1. /\ Here.psu \in Units
        /\ Here.what = "log" => connected[Here.psu]
    BY <1>9, HereIs DEF InWorker, InTool, StepOf, LogSeesOpen
  <2>2. /\ Here.what # "close"
        /\ connected' = [connected EXCEPT
                            ![Here.psu] = Here.what = "open" \/ (@ /\ Here.what # "close")]
        /\ logging' = [logging EXCEPT
                          ![Here.psu] = Here.what = "log" \/ (@ /\ Here.what # "stop log")]
    BY <1>9 DEF InWorker, Runs, Writes
  <2>3. ASSUME NEW u \in Units, logging'[u] PROVE connected'[u]
    <3>1. CASE u = Here.psu
      BY <1>a, <2>1, <2>2, <2>3, <3>1 DEF LogsStoppable
    <3>2. CASE u # Here.psu
      BY <1>a, <2>1, <2>2, <2>3, <3>2 DEF LogsStoppable
    <3> QED
      BY <3>1, <3>2
  <2> QED
    BY <1>8, <1>9, <2>3 DEF LogsStoppable
<1>10. CASE Disconnects
  BY <1>a, <1>8, <1>10 DEF Disconnects, LogsStoppable
<1>11. CASE InWorkerFails
  BY <1>a, <1>8, <1>11 DEF InWorkerFails, RunsInVain, LogsStoppable
<1>12. CASE OpensSilent
  BY <1>8, <1>12 DEF OpensSilent, registry, LogsStoppable
<1>13. CASE ToolReturns
  BY <1>13 DEF ToolReturns, registry, LogsStoppable, LogSeesOpen
<1> QED
  BY <1>1, <1>2, <1>3, <1>4, <1>5, <1>7, <1>9, <1>10, <1>11, <1>12, <1>13 DEF McpNext

---------------------------------------------------------------------------
(* A step of rd_all_off that is followed by another one without an error.  *)
LEMMA ClearStep ==
    ASSUME McpBase, InTool, Advanced,
           server' = "busy", call'.tool = "rd_all_off", call'.clear
    PROVE  /\ server = "busy" /\ call.tool = "rd_all_off" /\ call.clear
           /\ call.next \in Nat
           /\ call.next % 2 = 1 => Here.what = "skip" /\ Here.psu = Psus[(call.next + 1) \div 2]
           /\ call.next % 2 = 0 => Here.what = "off" /\ Here.psu = Psus[call.next \div 2]
           /\ call.next % 2 \in {0, 1}
<1>1. call \in [tool : Tools \cup {"none"}, psu : Units, next : Nat \ {0}, clear : BOOLEAN]
  BY DEF McpBase, McpTypes
<1>2. call.tool = "rd_all_off" /\ call.clear
  <2>1. CASE \E n \in Nat \ {0} : call' = [call EXCEPT !.next = @ + n]
    BY <1>1, <2>1
  <2>2. CASE call' = [call EXCEPT !.next = @ + 1, !.clear = FALSE]
    BY <1>1, <2>2
  <2> QED
    BY <2>1, <2>2 DEF Advanced
<1>3. call.next \in Nat /\ call.next % 2 \in {0, 1}
  BY <1>1
<1> QED
  BY <1>2, <1>3, HereIs DEF StepOf, InTool

LEMMA AllOffKept ==
    ASSUME McpBase, OffSoFar, AllOffReturnMeansOff, [McpNext]_mcpVars
    PROVE  OffSoFar' /\ AllOffReturnMeansOff'
<1>a. /\ call \in [tool : Tools \cup {"none"}, psu : Units, next : Nat \ {0}, clear : BOOLEAN]
      /\ connected \in [Units -> BOOLEAN] /\ power \in [Units -> BOOLEAN]
  BY DEF McpBase, McpTypes
<1>b. Len(Psus) \in Nat /\ \A j \in 1 .. Len(Psus) : Psus[j] \in Units
  BY RegistryAssumption
<1>1. CASE UNCHANGED mcpVars
  BY <1>1 DEF mcpVars, registry, OffSoFar, AllOffReturnMeansOff
<1>2. CASE MainConfigured \/ MainDiscovered
  <2>1. server' = "ready" /\ call'.tool = "none"
    BY <1>2, NoCallType DEF MainConfigured, MainDiscovered, McpBase, Down
  <2> QED
    BY <2>1 DEF OffSoFar, AllOffReturnMeansOff
<1>3. CASE McpEnds
  BY <1>3 DEF McpEnds, OffSoFar, AllOffReturnMeansOff
<1>4. ASSUME NEW tool \in Tools, NEW u \in Units, CallTool(tool, u)
      PROVE  OffSoFar' /\ AllOffReturnMeansOff'
  <2>1. server' = "busy" /\ call'.next = 1
    BY <1>4 DEF CallTool, NoCall
  <2> QED
    BY <1>b, <2>1 DEF OffSoFar, AllOffReturnMeansOff
<1>5. ASSUME InTool, Advanced PROVE AllOffReturnMeansOff'
  BY <1>5, NoCallType DEF Advanced, AllOffReturnMeansOff
<1>6. ASSUME NEW k \in 1 .. Len(Psus),
             server' = "busy", call'.tool = "rd_all_off", call'.clear, 2 * k < call'.next,
             ToolTests \/ InWorker \/ Disconnects \/ InWorkerFails \/ OpensSilent
      PROVE  connected'[Psus[k]] => ~power'[Psus[k]]
  <2>1. InTool /\ Advanced
    BY <1>6, StepAdvances
  <2>2. /\ server = "busy" /\ call.tool = "rd_all_off" /\ call.clear
        /\ call.next \in Nat
        /\ call.next % 2 = 1 => Here.what = "skip" /\ Here.psu = Psus[(call.next + 1) \div 2]
        /\ call.next % 2 = 0 => Here.what = "off" /\ Here.psu = Psus[call.next \div 2]
        /\ call.next % 2 \in {0, 1}
    BY <1>6, <2>1, ClearStep
  <2>3. 2 * k < call.next => (connected[Psus[k]] => ~power[Psus[k]])
    BY <2>2 DEF OffSoFar
  <2>4. CASE call.next % 2 = 1
    <3>1. ToolTests /\ Here.what = "skip" /\ Here.psu = Psus[(call.next + 1) \div 2]
      BY <1>6, <2>2, <2>4 DEF InWorker, Disconnects, InWorkerFails, OpensSilent, Writes
    <3>2. UNCHANGED <<connected, power>>
      BY <3>1 DEF ToolTests, registry
    <3>3. CASE connected[Here.psu] = TRUE
      <4>1. call'.next = call.next + 1
        BY <1>a, <3>1, <3>3 DEF ToolTests, ToNext
      <4>2. 2 * k < call.next
        BY <1>6, <2>2, <2>4, <4>1
      <4> QED
        BY <2>3, <3>2, <4>2
    <3>4. CASE connected[Here.psu] = FALSE
      <4>1. call'.next = call.next + 2
        BY <1>a, <3>1, <3>4 DEF ToolTests, ToNext
      <4>2. 2 * k < call.next \/ k = (call.next + 1) \div 2
        BY <1>6, <2>2, <2>4, <4>1
      <4> QED
        BY <2>3, <3>1, <3>2, <3>4, <4>2
    <3>5. Here.psu \in Units
      BY <2>1, HereIs DEF StepOf
    <3> QED
      BY <1>a, <3>3, <3>4, <3>5
  <2>5. CASE call.next % 2 = 0
    <3>1. Here.what = "off" /\ Here.psu = Psus[call.next \div 2]
      BY <2>2, <2>5
    <3>2. InWorker \/ InWorkerFails
      BY <1>6, <3>1 DEF ToolTests, Tests, Disconnects, OpensSilent
    <3>3. InWorker
      <4>1. ~InWorkerFails
        BY <1>a, <1>6 DEF InWorkerFails, ToNext, ToolRaises
      <4> QED
        BY <3>2, <4>1
    <3>4. /\ call'.next = call.next + 1
          /\ connected' = [connected EXCEPT ![Here.psu] = @]
          /\ power' = [power EXCEPT ![Here.psu] = FALSE]
      BY <1>a, <3>1, <3>3 DEF InWorker, ToNext, Runs
    <3>5. 2 * k < call.next \/ k = call.next \div 2
      BY <1>6, <2>2, <2>5, <3>4
    <3> QED
      BY <1>a, <1>b, <2>3, <3>1, <3>4, <3>5
  <2> QED
    BY <2>2, <2>4, <2>5
<1>7. ASSUME ToolTests \/ InWorker \/ Disconnects \/ InWorkerFails \/ OpensSilent
      PROVE  OffSoFar' /\ AllOffReturnMeansOff'
  BY <1>5, <1>6, <1>7, StepAdvances DEF OffSoFar
<1>8. CASE ToolReturns
  <2>1. ASSUME call.tool = "rd_all_off", call.clear, NEW u \in Units, connected[u]
        PROVE  ~power[u]
    <3>1. Len(ToolProgram(call)) = 2 * Len(Psus)
      BY <1>b, <2>1 DEF ToolProgram, rd_all_off, ForEachPsu
    <3>2. server = "busy" /\ call.next > 2 * Len(Psus)
      BY <1>8, <3>1 DEF ToolReturns
    <3>3. PICK k \in 1 .. Len(Psus) : u = Psus[k]
      BY DEF Units
    <3>4. 2 * k < call.next
      BY <1>a, <1>b, <3>2
    <3> QED
      BY <2>1, <3>2, <3>3, <3>4 DEF OffSoFar
  <2> QED
    BY <1>8, <2>1 DEF ToolReturns, registry, OffSoFar, AllOffReturnMeansOff
<1> QED
  BY <1>1, <1>2, <1>3, <1>4, <1>7, <1>8 DEF McpNext

---------------------------------------------------------------------------
McpInv ==
    /\ McpBase
    /\ OpenIsApproved /\ ApprovedFirst
    /\ LogsStoppable /\ LogSeesOpen
    /\ OffSoFar /\ AllOffReturnMeansOff

LEMMA McpInvHolds == McpSpec => []McpInv
<1>1. McpInit => McpInv
  <2> SUFFICES ASSUME McpInit PROVE McpInv
    OBVIOUS
  <2>1. McpBase
    BY BaseInit
  <2> QED
    BY <2>1 DEF McpInit, McpInv, OpenIsApproved, ApprovedFirst, LogsStoppable, LogSeesOpen,
                OffSoFar, AllOffReturnMeansOff
<1>2. McpInv /\ [McpNext]_mcpVars => McpInv'
  BY BaseKept, ApprovalKept, LogsKept, AllOffKept DEF McpInv
<1> QED
  BY <1>1, <1>2, PTL DEF McpSpec

(* A supply the server found by itself is written to only after rd_connect *)
(* has named it: for any supplies, in any run of the server.               *)
THEOREM McpWritesApproved == McpSpec => []ApprovedFirst
<1>1. McpInv => ApprovedFirst
  BY DEF McpInv
<1> QED
  BY <1>1, McpInvHolds, PTL

(* rd_log_stop can end every log loop that runs.                           *)
THEOREM McpLogsStoppable == McpSpec => []LogsStoppable
<1>1. McpInv => LogsStoppable
  BY DEF McpInv
<1> QED
  BY <1>1, McpInvHolds, PTL

(* After an rd_all_off whose list has no error, and until the next call,   *)
(* every connected supply is off, however many there are.                  *)
THEOREM McpAllOffMeansOff == McpSpec => []AllOffReturnMeansOff
<1>1. McpInv => AllOffReturnMeansOff
  BY DEF McpInv
<1> QED
  BY <1>1, McpInvHolds, PTL

---------------------------------------------------------------------------
(* Services puts the two servers into one state machine, of which every    *)
(* behaviour is a behaviour of one of them, so that what is proved of      *)
(* SocketServer and of McpServer holds of the servers that Services runs.  *)
THEOREM ServicesApart == Spec => ServerSpec \/ McpSpec
<1>1. Init => \/ host = "socket" /\ ServerInit
              \/ host = "mcp" /\ McpInit
  BY DEF Init
<1>2. host = "socket" /\ [Next]_servicesVars =>
        (host = "socket")' /\ [ServerNext]_serverVars
  BY DEF Next, Socket, Mcp, servicesVars, serverVars
<1>3. host = "mcp" /\ [Next]_servicesVars =>
        (host = "mcp")' /\ [McpNext]_mcpVars
  BY DEF Next, Socket, Mcp, servicesVars, mcpVars, mandate
<1> QED
  BY <1>1, <1>2, <1>3, PTL DEF Spec, ServerSpec, McpSpec

=============================================================================
