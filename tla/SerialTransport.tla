-------------------------- MODULE SerialTransport --------------------------
(***************************************************************************)
(* riden_transport.py: SerialTransport, Modbus RTU request and reply over  *)
(* a serial line.  A master (a process with the port open) sends a request *)
(* frame and reads the reply from the port's input buffer, which all       *)
(* processes that have the port open share: pyserial takes no exclusive    *)
(* lock.  The line may lose or damage a frame in either direction; the     *)
(* device answers the requests it gets in order.  On a line that is Late   *)
(* an attempt may time out while its reply is still on its way.            *)
(***************************************************************************)
EXTENDS ModbusRtu

CONSTANTS Masters,    (* the processes that use the port                   *)
          Retries,    (* attempts before TimeoutError (3 by default)       *)
          Late,       (* may a reply arrive after its attempt timed out?   *)
          MaxCalls    (* bound on the number of calls in a behaviour       *)

ASSUME TransportAssumption ==
    /\ Retries \in Nat \ {0}
    /\ Late \in BOOLEAN
    /\ MaxCalls \in Nat

VARIABLES regs,      (* the device's holding registers                     *)
          toDev,     (* request frames on their way to the device          *)
          toHost,    (* reply frames on their way to the host              *)
          rx,        (* the port's input buffer on the host                *)
          pc,        (* per master: "closed", "idle", "send" or "await"    *)
          call,      (* per master: the request frame of its last call     *)
          attempt,   (* per master: attempts of that call that failed      *)
          outcome,   (* per master: how its last call ended                *)
          calls      (* number of calls made                               *)

vars == <<regs, toDev, toHost, rx, pc, call, attempt, outcome, calls>>

Init ==
    /\ regs \in [Regs -> Values]
    /\ toDev = <<>>
    /\ toHost = <<>>
    /\ rx = <<>>
    /\ pc = [m \in Masters |-> "closed"]
    /\ call \in [Masters -> Frames]
    /\ attempt = [m \in Masters |-> 0]
    /\ outcome = [m \in Masters |-> [status |-> "none", vals |-> <<>>]]
    /\ calls = 0

Ends(m, status, vals) ==
    outcome' = [outcome EXCEPT ![m] = [status |-> status, vals |-> vals]]

Goto(m, label) == pc' = [pc EXCEPT ![m] = label]

---------------------------------------------------------------------------
(* The master.                                                             *)

(* open: the port opens and its input buffer is flushed.                   *)
Open(m) ==
    /\ pc[m] = "closed"
    /\ Goto(m, "idle")
    /\ rx' = <<>>
    /\ UNCHANGED <<regs, toDev, toHost, call, attempt, outcome, calls>>

Close(m) ==
    /\ pc[m] = "idle"
    /\ Goto(m, "closed")
    /\ UNCHANGED <<regs, toDev, toHost, rx, call, attempt, outcome, calls>>

(* read, write or write_multiple on an open transport.                     *)
Call(m) ==
    /\ pc[m] = "idle"
    /\ calls < MaxCalls
    /\ \E q \in Frames : call' = [call EXCEPT ![m] = q]
    /\ attempt' = [attempt EXCEPT ![m] = 0]
    /\ calls' = calls + 1
    /\ Goto(m, "send")
    /\ UNCHANGED <<regs, toDev, toHost, rx, outcome>>

(* Any of them on a transport that is not open raises IOError.             *)
CallClosed(m) ==
    /\ pc[m] = "closed"
    /\ calls < MaxCalls
    /\ calls' = calls + 1
    /\ Ends(m, "not open", <<>>)
    /\ UNCHANGED <<regs, toDev, toHost, rx, pc, call, attempt>>

(* write_multiple of no values returns at once.                            *)
CallEmpty(m) ==
    /\ pc[m] = "idle"
    /\ calls < MaxCalls
    /\ \E c \in Calls : c.vals = <<>>
    /\ calls' = calls + 1
    /\ Ends(m, "ok", <<>>)
    /\ UNCHANGED <<regs, toDev, toHost, rx, pc, call, attempt>>

(* A failed attempt is never counted.                                      *)
FailsForever(m) ==
    /\ Goto(m, "send")
    /\ UNCHANGED <<attempt, outcome>>

(* An attempt failed: the next one, or TimeoutError after the last.        *)
Fails(m) ==
    /\ attempt' = [attempt EXCEPT ![m] = attempt[m] + 1]
    /\ IF attempt[m] + 1 < Retries
       THEN Goto(m, "send") /\ UNCHANGED outcome
       ELSE Goto(m, "idle") /\ Ends(m, "timeout", <<>>)

(* An attempt that leaves the input buffer as it finds it.                 *)
SendUnflushed(m) ==
    /\ pc[m] = "send"
    /\ Packs(call[m])
    /\ toDev' = Append(toDev, call[m])
    /\ Goto(m, "await")
    /\ UNCHANGED <<regs, toHost, rx, call, attempt, outcome, calls>>

(* An attempt: flush the input buffer, send the request.                   *)
Send(m) ==
    /\ pc[m] = "send"
    /\ Packs(call[m])
    /\ rx' = <<>>
    /\ toDev' = Append(toDev, call[m])
    /\ Goto(m, "await")
    /\ UNCHANGED <<regs, toHost, call, attempt, outcome, calls>>

(* An attempt whose frame cannot be packed sends nothing.                  *)
PackFails(m) ==
    /\ pc[m] = "send"
    /\ ~Packs(call[m])
    /\ rx' = <<>>
    /\ Fails(m)
    /\ UNCHANGED <<regs, toDev, toHost, call, calls>>

(* The reply is read and passes the checks: the call returns.              *)
Receive(m) ==
    /\ pc[m] = "await"
    /\ rx # <<>>
    /\ Accepts(call[m], Head(rx))
    /\ rx' = Tail(rx)
    /\ Goto(m, "idle")
    /\ Ends(m, "ok", IF call[m].fc = 3 THEN Head(rx).vals ELSE <<>>)
    /\ UNCHANGED <<regs, toDev, toHost, call, attempt, calls>>

(* What is read fails the checks; what is left in the buffer no longer     *)
(* starts on a frame boundary.                                             *)
Reject(m) ==
    /\ pc[m] = "await"
    /\ rx # <<>>
    /\ ~Accepts(call[m], Head(rx))
    /\ rx' = <<>>
    /\ Fails(m)
    /\ UNCHANGED <<regs, toDev, toHost, call, calls>>

(* Nothing arrived within the port's timeout.                              *)
Timeout(m) ==
    /\ pc[m] = "await"
    /\ rx = <<>>
    /\ ~Late => toDev = <<>> /\ toHost = <<>>
    /\ Fails(m)
    /\ UNCHANGED <<regs, toDev, toHost, rx, call, calls>>

---------------------------------------------------------------------------
(* The device and the line.                                                *)

DeviceServes ==
    /\ toDev # <<>>
    /\ regs' = Patched(regs, Head(toDev))
    /\ toHost' = Append(toHost, Reply(regs, Head(toDev)))
    /\ toDev' = Tail(toDev)
    /\ UNCHANGED <<rx, pc, call, attempt, outcome, calls>>

(* A request that is lost, or that the device finds damaged and ignores.   *)
LoseRequest ==
    /\ toDev # <<>>
    /\ toDev' = Tail(toDev)
    /\ UNCHANGED <<regs, toHost, rx, pc, call, attempt, outcome, calls>>

LoseReply ==
    /\ toHost # <<>>
    /\ toHost' = Tail(toHost)
    /\ UNCHANGED <<regs, toDev, rx, pc, call, attempt, outcome, calls>>

Deliver ==
    /\ toHost # <<>>
    /\ rx' = Append(rx, Head(toHost))
    /\ toHost' = Tail(toHost)
    /\ UNCHANGED <<regs, toDev, pc, call, attempt, outcome, calls>>

DeliverDamaged ==
    /\ toHost # <<>>
    /\ rx' = Append(rx, Noise)
    /\ toHost' = Tail(toHost)
    /\ UNCHANGED <<regs, toDev, pc, call, attempt, outcome, calls>>

(* Line-status bytes of the USB adapter, while nobody waits for a reply.   *)
LineNoise ==
    /\ \A m \in Masters : pc[m] # "await"
    /\ rx = <<>>
    /\ rx' = <<Noise>>
    /\ UNCHANGED <<regs, toDev, toHost, pc, call, attempt, outcome, calls>>

---------------------------------------------------------------------------

Attempt(m) == Send(m) \/ PackFails(m) \/ Receive(m) \/ Reject(m) \/ Timeout(m)

Master(m) == Open(m) \/ Close(m) \/ Call(m) \/ CallClosed(m) \/ CallEmpty(m)
                     \/ Attempt(m)

Transit == DeviceServes \/ LoseRequest \/ LoseReply \/ Deliver \/ DeliverDamaged

Next == (\E m \in Masters : Master(m)) \/ Transit \/ LineNoise

Spec == Init /\ [][Next]_vars

(* A call in progress keeps running, and a frame on the line does not stay *)
(* there: it arrives or it is lost.  Nobody has to make a call.            *)
FairSpec == Spec /\ WF_vars(Transit) /\ \A m \in Masters : WF_vars(Attempt(m))

---------------------------------------------------------------------------
(* Properties.                                                             *)

TypeOK ==
    /\ regs \in [Regs -> Values]
    /\ toDev \in Seq(Frames)
    /\ pc \in [Masters -> {"closed", "idle", "send", "await"}]
    /\ call \in [Masters -> Frames]
    /\ attempt \in [Masters -> 0 .. Retries]
    /\ calls \in 0 .. MaxCalls

Returns(m, status) ==
    pc[m] = "await" /\ pc'[m] = "idle" /\ outcome'[m].status = status

Done(m) ==
    /\ regs = Patched(regs, call[m])
    /\ call[m].fc = 3 => outcome'[m].vals = Block(regs, call[m].reg, call[m].n)

OkIsDone == \A m \in Masters : Returns(m, "ok") => Done(m)

(* SerialTransport.read and write: when a call returns normally, the       *)
(* registers hold the values a write asked for, and a read returns what    *)
(* its own registers hold, whatever was lost, damaged or retried.          *)
OkMeansDone == [][OkIsDone]_vars

(* What is in transit between the host and the device.                     *)
Line(requests, replies, buffer) ==
    toDev = requests /\ toHost = replies /\ rx = buffer

(* SerialTransport.read and write, one master on a prompt line: outside an *)
(* attempt nothing is in transit, and during one there is nothing but its  *)
(* own request or its reply, so that flushing the buffer before a request  *)
(* leaves no stale byte to be taken for the reply.                         *)
OnlyThisCall ==
    \A m \in Masters :
        IF pc[m] # "await"
        THEN \E buffer \in {<<>>, <<Noise>>} : Line(<<>>, <<>>, buffer)
        ELSE \/ Line(<<call[m]>>, <<>>, <<>>)
             \/ \E buffer \in {<<>>, <<Noise>>} : Line(<<>>, <<>>, buffer)
             \/ /\ regs = Patched(regs, call[m])
                /\ LET reply == <<Reply(regs, call[m])>>
                   IN  Line(<<>>, reply, <<>>) \/ Line(<<>>, <<>>, reply)

(* SerialTransport.read and write return or raise after finitely many      *)
(* attempts, even if no reply ever comes ("instead of recursing forever    *)
(* on flaky links").                                                       *)
CallsReturn ==
    \A m \in Masters : pc[m] \in {"send", "await"} ~> pc[m] = "idle"

(* The transport implements the bank of registers of RegisterBank.         *)
Bank == INSTANCE RegisterBank
          WITH bank <- regs,
               busy <- [m \in Masters |-> pc[m] \in {"send", "await"}]

ImplementsBank == Bank!Spec

=============================================================================
