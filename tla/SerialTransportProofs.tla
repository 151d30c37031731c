----------------------- MODULE SerialTransportProofs -----------------------
(***************************************************************************)
(* Proofs about SerialTransport.                                           *)
(***************************************************************************)
EXTENDS SerialTransport, TLAPS

(* A request frame has one of the three function codes, as many values as  *)
(* it says, and FC16 has reduced them to words.                            *)
LEMMA FrameFacts ==
    ASSUME NEW q \in Frames
    PROVE  /\ q.fc \in {3, 6, 16}
           /\ q.reg \in Int
           /\ q.n \in Nat
           /\ q.fc # 3 => q.vals \in [1 .. q.n -> Int]
           /\ q.fc = 6 => q.n = 1
           /\ q.fc = 16 => q.vals \in [1 .. q.n -> Values]
           /\ q = [fc |-> q.fc, reg |-> q.reg, n |-> q.n, vals |-> q.vals]
<1>1. PICK c \in Calls : q = Frame(c)
  BY DEF Frames
<1>2. /\ c.vals \in Seq(Int)
      /\ c.reg \in Nat
      /\ c.op \in {"read", "write", "write_multiple"}
      /\ c.op = "write" => Len(c.vals) = 1
  BY ModbusAssumption DEF Ops, Regs
<1>3. /\ Len(c.vals) \in Nat
      /\ c.vals \in [1 .. Len(c.vals) -> Int]
  BY <1>2
<1>4. \A i \in DOMAIN c.vals : c.vals[i] % Word \in Values
  BY <1>3, ModbusAssumption DEF Values
<1>5. CASE FunctionCode(c) = 3
  BY <1>1, <1>2, <1>3, <1>5 DEF Frame
<1>6. CASE FunctionCode(c) = 6
  <2>1. Len(c.vals) = 1
    BY <1>2, <1>6 DEF FunctionCode
  <2> QED
    BY <2>1, <1>1, <1>2, <1>3, <1>6 DEF Frame
<1>7. CASE FunctionCode(c) = 16
  <2> DEFINE words == [i \in DOMAIN c.vals |-> c.vals[i] % Word]
  <2>1. q = [fc |-> 16, reg |-> c.reg, n |-> Len(c.vals), vals |-> words]
    BY <1>1, <1>7 DEF Frame
  <2>2. words \in [1 .. Len(c.vals) -> Values]
    BY <1>3, <1>4
  <2>3. words \in [1 .. Len(c.vals) -> Int]
    BY <2>2 DEF Values
  <2> HIDE DEF words
  <2> QED
    BY <2>1, <2>2, <2>3, <1>2, <1>3
<1> QED
  BY <1>5, <1>6, <1>7 DEF FunctionCode

(* Serving a request that could be packed leaves a bank of words.          *)
LEMMA PatchedType ==
    ASSUME NEW q \in Frames, Packs(q), NEW bank \in [Regs -> Values]
    PROVE  Patched(bank, q) \in [Regs -> Values]
<1>1. CASE q.fc = 3
  BY <1>1 DEF Patched
<1>2. CASE q.fc # 3
  <2>1. q.vals \in [1 .. q.n -> Values]
    BY <1>2, FrameFacts DEF Packs
  <2> SUFFICES ASSUME NEW r \in Regs, r \in q.reg .. (q.reg + q.n - 1)
               PROVE  q.vals[r - q.reg + 1] \in Values
    BY <1>2 DEF Patched
  <2>2. r - q.reg + 1 \in 1 .. q.n
    BY FrameFacts
  <2> QED
    BY <2>1, <2>2
<1> QED
  BY <1>1, <1>2

(* A request served twice leaves what it left the first time.              *)
LEMMA PatchedTwice ==
    ASSUME NEW q, NEW bank \in [Regs -> Values]
    PROVE  Patched(Patched(bank, q), q) = Patched(bank, q)
BY DEF Patched

(* The reply to a request is the one the device would send again.          *)
LEMMA ReplyTwice ==
    ASSUME NEW q, NEW bank
    PROVE  Reply(Patched(bank, q), q) = Reply(bank, q)
BY DEF Patched, Reply

(* The host takes no noise for a reply.                                    *)
LEMMA NoiseRejected ==
    ASSUME NEW q \in Frames
    PROVE  ~Accepts(q, Noise)
BY FrameFacts DEF Accepts, Noise

---------------------------------------------------------------------------
(* Types.  What is on its way to the device could be packed, and a call in *)
(* progress has an attempt left.                                           *)
TypeInv ==
    /\ TypeOK
    /\ \A i \in 1 .. Len(toDev) : Packs(toDev[i])
    /\ \A m \in Masters : pc[m] \in {"send", "await"} => attempt[m] < Retries
    /\ DOMAIN outcome = Masters

(* Serving the first of a sequence of frames.                              *)
LEMMA TailPacks ==
    ASSUME NEW s \in Seq(Frames), s # <<>>, \A i \in 1 .. Len(s) : Packs(s[i])
    PROVE  /\ Head(s) \in Frames
           /\ Packs(Head(s))
           /\ Tail(s) \in Seq(Frames)
           /\ \A i \in 1 .. Len(Tail(s)) : Packs(Tail(s)[i])
<1>1. /\ Head(s) \in Frames
      /\ Tail(s) \in Seq(Frames)
      /\ Head(s) = s[1]
      /\ 1 \in 1 .. Len(s)
      /\ Len(Tail(s)) = Len(s) - 1
      /\ \A i \in 1 .. Len(Tail(s)) : Tail(s)[i] = s[i + 1]
  OBVIOUS
<1>2. \A i \in 1 .. Len(Tail(s)) : i + 1 \in 1 .. Len(s)
  BY <1>1
<1> QED
  BY <1>1, <1>2

LEMMA AppendPacks ==
    ASSUME NEW s \in Seq(Frames), \A i \in 1 .. Len(s) : Packs(s[i]),
           NEW q \in Frames, Packs(q)
    PROVE  /\ Append(s, q) \in Seq(Frames)
           /\ \A i \in 1 .. Len(Append(s, q)) : Packs(Append(s, q)[i])
OBVIOUS

LEMMA TypeInit == Init => TypeInv
BY TransportAssumption DEF Init, TypeInv, TypeOK, Regs

LEMMA TypeStep == TypeInv /\ [Next]_vars => TypeInv'
<1> SUFFICES ASSUME TypeInv, [Next]_vars
             PROVE  TypeInv'
  OBVIOUS
<1> USE TransportAssumption DEF TypeInv, TypeOK
<1>1. ASSUME NEW m \in Masters, Open(m) \/ Close(m) \/ CallClosed(m) \/ CallEmpty(m)
      PROVE  TypeInv'
  <2>1. CASE Open(m) \/ Close(m)
    BY <2>1 DEF Open, Close, Goto
  <2>2. CASE CallClosed(m) \/ CallEmpty(m)
    <3>1. /\ calls < MaxCalls
          /\ calls' = calls + 1
          /\ UNCHANGED <<regs, toDev, pc, call, attempt>>
          /\ DOMAIN outcome' = Masters
      BY <2>2 DEF CallClosed, CallEmpty, Ends
    <3>2. calls' \in 0 .. MaxCalls
      BY <3>1
    <3> QED
      BY <3>1, <3>2
  <2> QED
    BY <1>1, <2>1, <2>2
<1>2. ASSUME NEW m \in Masters, Call(m)
      PROVE  TypeInv'
  BY <1>2 DEF Call, Goto
<1>3. ASSUME NEW m \in Masters, Send(m)
      PROVE  TypeInv'
  BY <1>3, AppendPacks DEF Send, Goto
<1>4. ASSUME NEW m \in Masters, PackFails(m) \/ Reject(m) \/ Timeout(m)
      PROVE  TypeInv'
  <2>1. /\ Fails(m)
        /\ pc[m] \in {"send", "await"}
        /\ UNCHANGED <<regs, toDev, call, calls>>
        /\ DOMAIN outcome' = Masters
    BY <1>4 DEF PackFails, Reject, Timeout, Fails, Ends
  <2>2. /\ attempt'[m] \in 0 .. Retries
        /\ pc'[m] = "send" => attempt'[m] < Retries
        /\ pc'[m] \in {"send", "idle"}
    BY <2>1 DEF Fails, Goto
  <2>3. \A n \in Masters : n # m => attempt'[n] = attempt[n] /\ pc'[n] = pc[n]
    BY <2>1 DEF Fails, Goto
  <2>4. /\ attempt' \in [Masters -> 0 .. Retries]
        /\ pc' \in [Masters -> {"closed", "idle", "send", "await"}]
    BY <2>1, <2>2 DEF Fails, Goto
  <2> QED
    BY <2>1, <2>2, <2>3, <2>4
<1>5. ASSUME NEW m \in Masters, Receive(m)
      PROVE  TypeInv'
  BY <1>5 DEF Receive, Goto, Ends
<1>6. CASE DeviceServes
  <2>1. Head(toDev) \in Frames /\ Packs(Head(toDev))
    BY <1>6, TailPacks DEF DeviceServes
  <2>2. Patched(regs, Head(toDev)) \in [Regs -> Values]
    BY <2>1, PatchedType
  <2> QED
    BY <1>6, <2>2, TailPacks DEF DeviceServes
<1>7. CASE LoseRequest
  BY <1>7, TailPacks DEF LoseRequest
<1>8. CASE LoseReply \/ Deliver \/ DeliverDamaged \/ LineNoise
  BY <1>8 DEF LoseReply, Deliver, DeliverDamaged, LineNoise
<1>9. CASE UNCHANGED vars
  BY <1>9 DEF vars
<1> QED
  BY <1>1, <1>2, <1>3, <1>4, <1>5, <1>6, <1>7, <1>8, <1>9
     DEF Next, Master, Attempt, Transit

(* The types of the transport's state, for any number of masters on any    *)
(* line: in particular registers hold words and no call exceeds its        *)
(* attempts.                                                               *)
THEOREM TransportTypes == Spec => []TypeOK
<1>1. Spec => []TypeInv
  BY TypeInit, TypeStep, PTL DEF Spec
<1>2. TypeInv => TypeOK
  BY DEF TypeInv
<1> QED
  BY <1>1, <1>2, PTL

---------------------------------------------------------------------------
(* One master on a prompt line.                                            *)

LEMMA OneFrame ==
    ASSUME NEW x
    PROVE  /\ Head(<<x>>) = x
           /\ Tail(<<x>>) = <<>>
           /\ Append(<<>>, x) = <<x>>
           /\ <<x>> # <<>>
OBVIOUS

LEMMA OnlyInit == Init => OnlyThisCall
BY DEF Init, OnlyThisCall, Line

LEMMA OnlyStep ==
    ASSUME NEW m, Masters = {m}, Late = FALSE, TypeInv, OnlyThisCall, [Next]_vars
    PROVE  OnlyThisCall'
<1> USE DEF OnlyThisCall, Line
<1>1. call[m] \in Frames /\ regs \in [Regs -> Values]
  BY DEF TypeInv, TypeOK
<1>2. pc \in [Masters -> {"closed", "idle", "send", "await"}]
  BY DEF TypeInv, TypeOK
<1>3. CASE Open(m) \/ Close(m) \/ Call(m)
  BY <1>2, <1>3 DEF Open, Close, Call, Goto
<1>4. CASE CallClosed(m) \/ CallEmpty(m)
  BY <1>4 DEF CallClosed, CallEmpty
<1>5. CASE Send(m)
  BY <1>2, <1>5, OneFrame DEF Send, Goto
<1>6. CASE PackFails(m) \/ Reject(m) \/ Timeout(m) \/ Receive(m)
  <2>1. pc'[m] # "await"
    BY <1>2, <1>6 DEF PackFails, Reject, Timeout, Receive, Fails, Goto
  <2>2. Line(<<>>, <<>>, <<>>)'
    <3>1. CASE PackFails(m)
      BY <3>1 DEF PackFails
    <3>2. CASE Reject(m) \/ Receive(m)
      <4>1. pc[m] = "await" /\ rx # <<>> /\ UNCHANGED <<toDev, toHost>>
        BY <3>2 DEF Reject, Receive
      <4>2. toDev = <<>> /\ toHost = <<>> /\ Tail(rx) = <<>>
        BY <4>1, OneFrame
      <4> QED
        BY <3>2, <4>1, <4>2 DEF Reject, Receive
    <3>3. CASE Timeout(m)
      BY <3>3 DEF Timeout
    <3> QED
      BY <1>6, <3>1, <3>2, <3>3
  <2> QED
    BY <2>1, <2>2
<1>7. CASE DeviceServes
  <2>1. Line(<<call[m]>>, <<>>, <<>>) /\ pc[m] = "await"
    BY <1>7 DEF DeviceServes
  <2>2. /\ regs' = Patched(regs, call[m])
        /\ toDev' = <<>> /\ toHost' = <<Reply(regs, call[m])>> /\ rx' = <<>>
        /\ UNCHANGED <<pc, call>>
    <3>1. /\ Head(toDev) = call[m]
          /\ Tail(toDev) = <<>>
          /\ \A r : Append(toHost, r) = <<r>>
      BY <2>1, OneFrame
    <3>2. /\ regs' = Patched(regs, call[m])
          /\ toHost' = Append(toHost, Reply(regs, call[m]))
          /\ toDev' = <<>>
          /\ rx' = rx
          /\ UNCHANGED <<pc, call>>
      BY <1>7, <3>1 DEF DeviceServes
    <3> QED
      BY <2>1, <3>1, <3>2
  <2>3. /\ Reply(regs', call[m]) = Reply(regs, call[m])
        /\ Patched(regs', call[m]) = regs'
    BY <2>2, <1>1, ReplyTwice, PatchedTwice
  <2> QED
    BY <2>1, <2>2, <2>3
<1>8. CASE LoseRequest \/ LoseReply
  BY <1>8, OneFrame DEF LoseRequest, LoseReply
<1>9. CASE Deliver \/ DeliverDamaged
  BY <1>9, OneFrame DEF Deliver, DeliverDamaged
<1>10. CASE LineNoise
  BY <1>10 DEF LineNoise
<1>11. CASE UNCHANGED vars
  BY <1>11 DEF vars
<1> QED
  BY <1>3, <1>4, <1>5, <1>6, <1>7, <1>8, <1>9, <1>10, <1>11
     DEF Next, Master, Attempt, Transit


(* One master on a prompt line: nothing is ever in transit but the frame   *)
(* of the call in progress.                                                *)
THEOREM TransportOnlyThisCall ==
    ASSUME NEW m, Masters = {m}, Late = FALSE
    PROVE  Spec => []OnlyThisCall
<1>1. TypeInv /\ OnlyThisCall /\ [Next]_vars => OnlyThisCall'
  BY OnlyStep
<1> QED
  BY <1>1, TypeInit, TypeStep, OnlyInit, PTL DEF Spec

(* A call of an only master on a prompt line that returns normally has     *)
(* done what it promises, for any calls, registers and number of attempts. *)
THEOREM TransportOkMeansDone ==
    ASSUME NEW m, Masters = {m}, Late = FALSE
    PROVE  Spec => OkMeansDone
<1>1. TypeInv /\ OnlyThisCall /\ [Next]_vars
        => [OkIsDone]_vars
  <2> SUFFICES ASSUME TypeInv, OnlyThisCall, [Next]_vars,
                      pc[m] = "await", pc'[m] = "idle", outcome'[m].status = "ok"
               PROVE  Done(m)
    BY DEF OkIsDone, Returns
  <2>1. Receive(m)
    <3>1. pc' # pc
      OBVIOUS
    <3>2. ~(Open(m) \/ Close(m) \/ Call(m) \/ CallClosed(m) \/ CallEmpty(m))
      BY <3>1 DEF Open, Close, Call, CallClosed, CallEmpty
    <3>3. ~(Send(m) \/ PackFails(m))
      BY DEF Send, PackFails
    <3>4. ~Fails(m)
      BY DEF Fails, Ends, Goto, TypeInv, TypeOK
    <3>5. ~Transit /\ ~LineNoise
      BY <3>1 DEF Transit, DeviceServes, LoseRequest, LoseReply, Deliver,
                  DeliverDamaged, LineNoise
    <3> QED
      BY <3>1, <3>2, <3>3, <3>4, <3>5
         DEF Next, Master, Attempt, Reject, Timeout, vars
  <2>2. Accepts(call[m], Head(rx)) /\ rx # <<>>
    BY <2>1 DEF Receive
  <2>3. call[m] \in Frames
    BY DEF TypeInv, TypeOK
  <2>4. rx = <<Reply(regs, call[m])>> /\ regs = Patched(regs, call[m])
    BY <2>2, <2>3, NoiseRejected, OneFrame DEF OnlyThisCall, Line
  <2>5. call[m].fc = 3 => outcome'[m].vals = Reply(regs, call[m]).vals
    BY <2>1, <2>4, OneFrame DEF Receive, Ends, TypeInv, TypeOK
  <2> QED
    BY <2>4, <2>5 DEF Reply, Done
<1>2. Spec => [](TypeInv /\ OnlyThisCall)
  <2>1. TypeInv /\ OnlyThisCall /\ [Next]_vars => OnlyThisCall'
    BY OnlyStep
  <2> QED
    BY <2>1, TypeInit, TypeStep, OnlyInit, PTL DEF Spec
<1> QED
  BY <1>1, <1>2, PTL DEF Spec, OkMeansDone

---------------------------------------------------------------------------
(* Refinement.                                                             *)

LEMMA BankOperators ==
    /\ Bank!Frames = Frames
    /\ \A bank \in [Regs -> Values] : \A q : Bank!Patched(bank, q) = Patched(bank, q)
    /\ \A q : Bank!Packs(q) <=> Packs(q)
    /\ \A bank, reg, n : Bank!Block(bank, reg, n) = Block(bank, reg, n)
<1>1. \A c : Bank!FunctionCode(c) = FunctionCode(c)
  BY DEF Bank!FunctionCode, FunctionCode
<1>2. \A c : Bank!Frame(c) = Frame(c)
  BY <1>1 DEF Bank!Frame, Frame
<1>3. Bank!Frames = Frames
  BY <1>2 DEF Bank!Frames, Frames
<1> QED
  BY <1>3 DEF Bank!Patched, Patched, Bank!Packs, Packs, Bank!Block, Block, Bank!Regs, Regs,
              Bank!Values, Values

LEMMA BankInit == Init => Bank!Init
<1> SUFFICES ASSUME Init PROVE Bank!Init
  OBVIOUS
<1>1. [n \in Masters |-> pc[n] \in {"send", "await"}] = [n \in Masters |-> FALSE]
  <2>1. \A n \in Masters : (pc[n] \in {"send", "await"}) = FALSE
    BY DEF Init
  <2> QED
    BY <2>1, Zenon
<1> QED
  BY <1>1, BankOperators DEF Init, Bank!Init, Bank!Regs, Regs, Bank!Values, Values

(* What busy becomes when the only master starts or ends a call.           *)
LEMMA BusyChanges ==
    ASSUME NEW m, NEW value \in BOOLEAN, Masters = {m},
           (pc'[m] \in {"send", "await"}) = value
    PROVE  [n \in Masters |-> pc[n] \in {"send", "await"}]'
             = [[n \in Masters |-> pc[n] \in {"send", "await"}] EXCEPT ![m] = value]
<1>1. \A n \in Masters : n = m
  OBVIOUS
<1>2. [n \in Masters |-> pc'[n] \in {"send", "await"}] = [n \in Masters |-> value]
  BY <1>1, Zenon
<1>3. [[n \in Masters |-> pc[n] \in {"send", "await"}] EXCEPT ![m] = value]
        = [n \in Masters |-> value]
  BY <1>1, Zenon
<1> QED
  BY <1>2, <1>3

(* Every step of the transport is one of the bank's, or leaves the bank,   *)
(* its masters and their outcomes as they are.                             *)
LEMMA BankStep ==
    ASSUME NEW m, Masters = {m}, Late = FALSE, TypeInv, OnlyThisCall, [Next]_vars
    PROVE  [Bank!Next]_(Bank!vars)
<1> DEFINE busy == [n \in Masters |-> pc[n] \in {"send", "await"}]
<1>1. /\ pc \in [Masters -> {"closed", "idle", "send", "await"}]
      /\ busy[m] <=> pc[m] \in {"send", "await"}
  BY DEF TypeInv, TypeOK
<1>0. regs \in [Regs -> Values]
  BY DEF TypeInv, TypeOK
<1>2. CASE Open(m) \/ Close(m)
  <2>1. busy' = busy /\ UNCHANGED <<regs, call, outcome>>
    BY <1>1, <1>2 DEF Open, Close, Goto
  <2> QED
    BY <2>1 DEF Bank!vars
<1>3. CASE Call(m)
  <2>1. busy' = [busy EXCEPT ![m] = TRUE]
    BY <1>1, <1>3 DEF Call, Goto
  <2>2. ~busy[m] /\ UNCHANGED <<regs, outcome>>
    BY <1>1, <1>3 DEF Call
  <2>3. Bank!Invoke(m)
    BY <1>3, <2>1, <2>2, BankOperators DEF Call, Bank!Invoke
  <2> QED
    BY <2>3 DEF Bank!Next
<1>4. CASE CallClosed(m) \/ CallEmpty(m)
  <2>1. busy' = busy /\ ~busy[m] /\ UNCHANGED <<regs, call>>
    BY <1>1, <1>4 DEF CallClosed, CallEmpty
  <2>2. \E status \in {"not open", "ok"} : Ends(m, status, <<>>)
    BY <1>4 DEF CallClosed, CallEmpty
  <2>3. Bank!Skip(m)
    BY <2>1, <2>2 DEF Bank!Skip, Ends, Bank!Ends
  <2> QED
    BY <2>3 DEF Bank!Next
<1>5. CASE Send(m)
  <2>1. busy' = busy /\ UNCHANGED <<regs, call, outcome>>
    BY <1>1, <1>5 DEF Send, Goto
  <2> QED
    BY <2>1 DEF Bank!vars
<1>6. CASE PackFails(m) \/ Reject(m) \/ Timeout(m)
  <2>1. Fails(m) /\ busy[m] /\ UNCHANGED <<regs, call>>
    BY <1>1, <1>6 DEF PackFails, Reject, Timeout
  <2>2. CASE Goto(m, "send") /\ UNCHANGED outcome
    <3>1. busy' = busy
      BY <1>1, <2>1, <2>2 DEF Goto
    <3> QED
      BY <2>1, <2>2, <3>1 DEF Bank!vars
  <2>3. CASE Goto(m, "idle") /\ Ends(m, "timeout", <<>>)
    <3>1. busy' = [busy EXCEPT ![m] = FALSE]
      <4>1. (pc'[m] \in {"send", "await"}) = FALSE
        BY <1>1, <2>3 DEF Goto
      <4> QED
        BY <4>1, BusyChanges
    <3>2. Bank!ReturnTimeout(m)
      BY <2>1, <2>3, <3>1 DEF Bank!ReturnTimeout, Bank!Ends, Ends
    <3> QED
      BY <3>2 DEF Bank!Next
  <2> QED
    BY <2>1, <2>2, <2>3 DEF Fails
<1>7. CASE Receive(m)
  <2>1. busy' = [busy EXCEPT ![m] = FALSE] /\ busy[m] /\ UNCHANGED <<regs, call>>
    <3>1. (pc'[m] \in {"send", "await"}) = FALSE
      BY <1>1, <1>7 DEF Receive, Goto
    <3>2. busy' = [busy EXCEPT ![m] = FALSE]
      BY <3>1, BusyChanges
    <3> QED
      BY <1>1, <1>7, <3>2 DEF Receive
  <2>2. Ends(m, "ok", IF call[m].fc = 3 THEN Head(rx).vals ELSE <<>>)
    BY <1>7 DEF Receive
  <2>3. Head(rx) = Reply(regs, call[m]) /\ regs = Patched(regs, call[m])
    <3>1. Accepts(call[m], Head(rx)) /\ rx # <<>> /\ call[m] \in Frames
      BY <1>7 DEF Receive, TypeInv, TypeOK
    <3> QED
      BY <1>7, <3>1, NoiseRejected, OneFrame DEF OnlyThisCall, Line
  <2>4. call[m].fc = 3 => Head(rx).vals = Block(regs, call[m].reg, call[m].n)
    BY <2>3 DEF Reply
  <2>5. Bank!ReturnOk(m)
    BY <1>0, <2>1, <2>2, <2>3, <2>4, BankOperators DEF Bank!ReturnOk, Bank!Ends, Ends
  <2> QED
    BY <2>5 DEF Bank!Next
<1>8. CASE DeviceServes
  <2>1. Line(<<call[m]>>, <<>>, <<>>) /\ pc[m] = "await"
    BY <1>8 DEF DeviceServes, OnlyThisCall, Line
  <2>2. Head(toDev) = call[m] /\ Packs(call[m])
    BY <2>1, OneFrame, TailPacks DEF Line, TypeInv, TypeOK
  <2>3. /\ busy' = busy /\ busy[m] /\ UNCHANGED <<call, outcome>>
        /\ regs' = Patched(regs, call[m])
    BY <1>1, <1>8, <2>1, <2>2 DEF DeviceServes
  <2>4. Bank!Apply(m)
    BY <1>0, <2>2, <2>3, BankOperators DEF Bank!Apply
  <2> QED
    BY <2>4 DEF Bank!Next
<1>9. CASE LoseRequest \/ LoseReply \/ Deliver \/ DeliverDamaged \/ LineNoise
  <2>1. UNCHANGED <<regs, pc, call, outcome>>
    BY <1>9 DEF LoseRequest, LoseReply, Deliver, DeliverDamaged, LineNoise
  <2> QED
    BY <2>1 DEF Bank!vars
<1>10. CASE UNCHANGED vars
  BY <1>10 DEF vars, Bank!vars
<1> QED
  BY <1>2, <1>3, <1>4, <1>5, <1>6, <1>7, <1>8, <1>9, <1>10
     DEF Next, Master, Attempt, Transit

(* SerialTransport, used by one master on a prompt line, implements the    *)
(* bank of registers its callers rely on.                                  *)
THEOREM TransportImplementsBank ==
    ASSUME NEW m, Masters = {m}, Late = FALSE
    PROVE  Spec => ImplementsBank
<1>1. TypeInv /\ OnlyThisCall /\ [Next]_vars => [Bank!Next]_(Bank!vars)
  BY BankStep
<1>2. TypeInv /\ OnlyThisCall /\ [Next]_vars => OnlyThisCall'
  BY OnlyStep
<1> QED
  BY <1>1, <1>2, TypeInit, TypeStep, OnlyInit, BankInit, PTL
     DEF Spec, ImplementsBank, Bank!Spec

=============================================================================
