---------------------------- MODULE RidenWorker ----------------------------
(***************************************************************************)
(* riden_daemon.py: RidenWorker, shared by the threads that run commands   *)
(* on one supply (the socket server's clients, the log loop).  Each thread *)
(* runs a program of WorkerCommands: it takes _lock for a section, makes   *)
(* the section's Modbus calls one by one, and releases _lock.  A Modbus    *)
(* call either returns, and has then taken effect, or raises, and may have *)
(* taken effect all the same (RegisterBank).                               *)
(***************************************************************************)
EXTENDS WorkerCommands

CONSTANTS Threads,      (* the threads that use the worker                 *)
          Free,         (* the value of _lock when no thread holds it      *)
          Menu,         (* per thread: the commands it may run             *)
          MaxErrs,      (* write errors waveform tolerates (5 in the code) *)
          MaxCalls,     (* bound: commands of one thread in a behaviour    *)
          MaxOpens,     (* bound: RidenDevice objects made in a behaviour  *)
          MaxFaults     (* bound: Modbus calls that fail in a behaviour    *)

ASSUME WorkerAssumption ==
    /\ Free \notin Threads
    /\ \A t \in Threads : Menu[t] \subseteq AllCommands
    /\ MaxErrs \in Nat /\ MaxCalls \in Nat /\ MaxOpens \in Nat /\ MaxFaults \in Nat

VARIABLES
    dev,        (* the registers of the supply                             *)
    psu,        (* self._psu: the number of its RidenDevice, 0 for None    *)
    opens,      (* number of RidenDevice objects made so far               *)
    cache,      (* the status attributes of the RidenDevice                *)
    lock,       (* _lock: the thread that holds it, or Free                *)
    pc,         (* per thread: "idle", "enter", "inside" or "convert"      *)
    job,        (* per thread: the command and the place in its program    *)
    raw,        (* per thread: what its last transport.read returned       *)
    saved,      (* per thread: original_output of diff_scan                *)
    reported,   (* per thread: the status dict of its last command         *)
    result,     (* per thread: how its last command ended                  *)
    called,     (* per thread: commands made                               *)
    faults      (* Modbus calls that failed                                *)

(* History variables: who applied the last write that left the output on;  *)
(* and per thread, since its command began, whether another command of     *)
(* set_output(False) has returned, and whether another thread wrote the    *)
(* output.                                                                 *)
VARIABLES onBy, offSince, disturbed

vars == <<dev, psu, opens, cache, lock, pc, job, raw, saved, reported, result,
          called, faults, onBy, offSince, disturbed>>

(* What transport.read returned, and the RidenDevice it was read through.  *)
NoRaw == [of |-> 0, v |-> 0]
NoStatus == [r \in StatusRegisters |-> 0]

Starting(c) ==
    [cmd |-> c, phase |-> "main", sec |-> 1, op |-> 1, exc |-> FALSE, errs |-> 0,
     failed |-> <<"main", 0>>]

Init ==
    /\ dev = [r \in Registers |-> 0]
    /\ psu = 0
    /\ opens = 0
    /\ cache = NoStatus
    /\ lock = Free
    /\ pc = [t \in Threads |-> "idle"]
    /\ job = [t \in Threads |-> Starting(Plainly("status"))]
    /\ raw = [t \in Threads |-> NoRaw]
    /\ saved = [t \in Threads |-> Off]
    /\ reported = [t \in Threads |-> NoStatus]
    /\ result = [t \in Threads |-> "none"]
    /\ called = [t \in Threads |-> 0]
    /\ faults = 0
    /\ onBy = Free
    /\ offSince = [t \in Threads |-> FALSE]
    /\ disturbed = [t \in Threads |-> FALSE]

---------------------------------------------------------------------------
(* Where a thread is in its program, and where it goes.                    *)

Commands == {Plainly("status")} \cup (UNION {Menu[t] : t \in Threads})
ProgramOf == [c \in Commands |-> Program(c)]

Final(t) == ProgramOf[job[t].cmd].final
Sections(t) == IF job[t].phase = "main" THEN ProgramOf[job[t].cmd].main ELSE Final(t)
Here(t) == Sections(t)[job[t].sec]
AtEnd(t) == job[t].op > Len(Here(t).ops)
Does(t, kinds) == /\ pc[t] = "inside"
                  /\ ~AtEnd(t)
                  /\ Here(t).ops[job[t].op].do \in kinds
TheOp(t) == Here(t).ops[job[t].op]

Goto(t, label) == pc' = [pc EXCEPT ![t] = label]

Continues(t, j) ==
    /\ job' = [job EXCEPT ![t] = j]
    /\ Goto(t, "enter")
    /\ UNCHANGED <<result, offSince>>

(* The command returns (ok) or raises.                                     *)
Ends(t, j, ok) ==
    /\ job' = [job EXCEPT ![t] = j]
    /\ Goto(t, "idle")
    /\ result' = [result EXCEPT ![t] = IF ok THEN "ok" ELSE "error"]
    /\ offSince' = IF ok /\ j.cmd = Command("set", "OUTPUT", Off)
                   THEN [u \in Threads |-> TRUE]
                   ELSE offSince

(* On to the next section, the finally clause, or the end.                 *)
Proceeds(t, j) ==
    IF j.sec < Len(Sections(t))
    THEN Continues(t, [j EXCEPT !.sec = @ + 1, !.op = 1])
    ELSE IF j.phase = "main" /\ Final(t) # <<>>
         THEN Continues(t, [j EXCEPT !.phase = "final", !.sec = 1, !.op = 1])
         ELSE Ends(t, j, ~j.exc)

(* An exception leaves the section: to the finally clause if the section   *)
(* is inside its try, to the caller otherwise.                             *)
Raises(t, j) ==
    IF Here(t).guarded
    THEN Continues(t, [j EXCEPT !.phase = "final", !.sec = 1, !.op = 1, !.exc = TRUE])
    ELSE Ends(t, [j EXCEPT !.exc = TRUE], FALSE)

(* One write error too many.                                               *)
FailsOffByOne(t) ==
    LET j == [job[t] EXCEPT !.failed = <<job[t].phase, job[t].sec>>]
    IN  IF Here(t).onFail = "swallow"
        THEN Proceeds(t, j)
        ELSE IF Here(t).onFail = "count" /\ j.errs <= MaxErrs
             THEN Proceeds(t, [j EXCEPT !.errs = @ + 1])
             ELSE Raises(t, j)

(* A Modbus call or _assert_connected of the section raised.               *)
Fails(t) ==
    LET j == [job[t] EXCEPT !.failed = <<job[t].phase, job[t].sec>>]
    IN  IF Here(t).onFail = "swallow"
        THEN Proceeds(t, j)
        ELSE IF Here(t).onFail = "count" /\ j.errs < MaxErrs
             THEN Proceeds(t, [j EXCEPT !.errs = @ + 1])
             ELSE Raises(t, j)

(* The with statement releases _lock on an exception.                      *)
AbortsHolding(t) == Fails(t) /\ UNCHANGED lock
Aborts(t) == Fails(t) /\ lock' = Free

NextOp(t) == /\ job' = [job EXCEPT ![t].op = @ + 1]
             /\ UNCHANGED <<pc, lock, result, offSince>>

---------------------------------------------------------------------------
(* The supply.                                                             *)

(* A register write of thread t takes effect.                              *)
Applies(t, reg, val) ==
    /\ dev' = [dev EXCEPT ![reg] = val]
    /\ onBy' = IF reg # "OUTPUT" THEN onBy ELSE IF val = On THEN t ELSE Free
    /\ disturbed' = IF reg # "OUTPUT" THEN disturbed
                    ELSE [u \in Threads |-> disturbed[u] \/ u # t]

StatusOf(d) == [r \in StatusRegisters |-> d[r]]

(* The firmware's scan refreshes the measured voltage.                     *)
Refresh ==
    /\ dev["V_OUT"] # dev["OUTPUT"] * dev["V_SET"]
    /\ dev' = [dev EXCEPT !["V_OUT"] = dev["OUTPUT"] * dev["V_SET"]]
    /\ UNCHANGED <<psu, opens, cache, lock, pc, job, raw, saved, reported, result,
                   called, faults, onBy, offSince, disturbed>>

Faulty == faults < MaxFaults /\ faults' = faults + 1

---------------------------------------------------------------------------
(* Steps of a thread.                                                      *)

(* Callers open a worker that is not connected.                            *)
Call(t) ==
    /\ pc[t] = "idle"
    /\ called[t] < MaxCalls
    /\ \E c \in Menu[t] : /\ c.name = "open" => psu = 0 /\ opens < MaxOpens
                          /\ job' = [job EXCEPT ![t] = Starting(c)]
    /\ called' = [called EXCEPT ![t] = @ + 1]
    /\ result' = [result EXCEPT ![t] = "none"]
    /\ offSince' = [offSince EXCEPT ![t] = FALSE]
    /\ disturbed' = [disturbed EXCEPT ![t] = FALSE]
    /\ saved' = [saved EXCEPT ![t] = Off]
    /\ reported' = [reported EXCEPT ![t] = NoStatus]
    /\ Goto(t, "enter")
    /\ UNCHANGED <<dev, psu, opens, cache, lock, raw, faults, onBy>>

(* with self._lock, and psu = self._assert_connected() in most sections.   *)
AcquireUnchecked(t) ==
    /\ pc[t] = "enter"
    /\ lock = Free
    /\ lock' = t
    /\ Goto(t, "inside")
    /\ UNCHANGED <<dev, psu, opens, cache, job, raw, saved, reported, result, called,
                   faults, onBy, offSince, disturbed>>

AcquireUnlocked(t) ==
    /\ pc[t] = "enter"
    /\ Here(t).asserts => psu # 0
    /\ lock' = t
    /\ Goto(t, "inside")
    /\ UNCHANGED <<dev, psu, opens, cache, job, raw, saved, reported, result, called,
                   faults, onBy, offSince, disturbed>>

Acquire(t) ==
    /\ pc[t] = "enter"
    /\ lock = Free
    /\ Here(t).asserts => psu # 0
    /\ lock' = t
    /\ Goto(t, "inside")
    /\ UNCHANGED <<dev, psu, opens, cache, job, raw, saved, reported, result, called,
                   faults, onBy, offSince, disturbed>>

NotConnected(t) ==
    /\ pc[t] = "enter"
    /\ lock = Free
    /\ Here(t).asserts
    /\ psu = 0
    /\ Fails(t)
    /\ UNCHANGED <<dev, psu, opens, cache, lock, raw, saved, reported, called, faults,
                   onBy, disturbed>>

Value(t) == IF TheOp(t).do = "restore" THEN saved[t] ELSE TheOp(t).val

(* The setters of RidenDevice set the attribute before they write.         *)
Caches(t) ==
    cache' = IF TheOp(t).do = "write" THEN cache
             ELSE [cache EXCEPT ![TheOp(t).reg] = Value(t)]

Writing(t) == Does(t, {"set", "write", "restore"})
Reading(t) == Does(t, {"update", "sample", "peek", "attach"})

WriteReturns(t) ==
    /\ Writing(t)
    /\ Applies(t, TheOp(t).reg, Value(t))
    /\ Caches(t)
    /\ NextOp(t)
    /\ UNCHANGED <<psu, opens, raw, saved, reported, called, faults>>

(* The write took effect and its acknowledgement was lost.                 *)
WriteUnacknowledged(t) ==
    /\ Writing(t)
    /\ Faulty
    /\ Applies(t, TheOp(t).reg, Value(t))
    /\ Caches(t)
    /\ Aborts(t)
    /\ UNCHANGED <<psu, opens, raw, saved, reported, called>>

WriteFails(t) ==
    /\ Writing(t)
    /\ Faulty
    /\ Caches(t)
    /\ Aborts(t)
    /\ UNCHANGED <<dev, onBy, disturbed, psu, opens, raw, saved, reported, called>>

Updates(t) ==
    /\ Does(t, {"update"})
    /\ cache' = StatusOf(dev)
    /\ NextOp(t)
    /\ UNCHANGED <<dev, psu, opens, raw, saved, reported, called, faults, onBy, disturbed>>

Measures(t) ==
    /\ Does(t, {"sample"})
    /\ raw' = [raw EXCEPT ![t] = [of |-> psu, v |-> dev["V_OUT"]]]
    /\ NextOp(t)
    /\ UNCHANGED <<dev, psu, opens, cache, saved, reported, called, faults, onBy, disturbed>>

Peeks(t) ==
    /\ Does(t, {"peek"})
    /\ NextOp(t)
    /\ UNCHANGED <<dev, psu, opens, cache, raw, saved, reported, called, faults, onBy,
                   disturbed>>

(* RidenDevice(transport): two reads, the second one update().             *)
Attaches(t) ==
    /\ Does(t, {"attach"})
    /\ opens' = opens + 1
    /\ psu' = opens + 1
    /\ cache' = StatusOf(dev)
    /\ NextOp(t)
    /\ UNCHANGED <<dev, raw, saved, reported, called, faults, onBy, disturbed>>

ReadFails(t) ==
    /\ Reading(t)
    /\ Faulty
    /\ Aborts(t)
    /\ UNCHANGED <<dev, psu, opens, cache, raw, saved, reported, called, onBy, disturbed>>

PortOpens(t) ==
    /\ Does(t, {"port_open"})
    /\ NextOp(t)
    /\ UNCHANGED <<dev, psu, opens, cache, raw, saved, reported, called, faults, onBy,
                   disturbed>>

(* transport.open() raises outside the try of open().                      *)
PortFails(t) ==
    /\ Does(t, {"port_open"})
    /\ Faulty
    /\ lock' = Free
    /\ Ends(t, [job[t] EXCEPT !.exc = TRUE], FALSE)
    /\ UNCHANGED <<dev, psu, opens, cache, raw, saved, reported, called, onBy, disturbed>>

Detaches(t) ==
    /\ Does(t, {"detach"})
    /\ psu' = 0
    /\ NextOp(t)
    /\ UNCHANGED <<dev, opens, cache, raw, saved, reported, called, faults, onBy, disturbed>>

Reports(t) ==
    /\ Does(t, {"report"})
    /\ reported' = [reported EXCEPT ![t] = cache]
    /\ NextOp(t)
    /\ UNCHANGED <<dev, psu, opens, cache, raw, saved, called, faults, onBy, disturbed>>

Saves(t) ==
    /\ Does(t, {"save"})
    /\ saved' = [saved EXCEPT ![t] = cache["OUTPUT"]]
    /\ NextOp(t)
    /\ UNCHANGED <<dev, psu, opens, cache, raw, reported, called, faults, onBy, disturbed>>

(* int(None), or a parameter that cannot be written or read back.          *)
TypeFails(t) ==
    /\ Does(t, {"raise"})
    /\ Aborts(t)
    /\ UNCHANGED <<dev, psu, opens, cache, raw, saved, reported, called, faults, onBy,
                   disturbed>>

(* The end of the with statement.                                          *)
Leave(t) ==
    /\ pc[t] = "inside"
    /\ AtEnd(t)
    /\ lock' = Free
    /\ IF raw[t] # NoRaw
       THEN Goto(t, "convert") /\ UNCHANGED <<job, result, offSince>>
       ELSE Proceeds(t, job[t])
    /\ UNCHANGED <<dev, psu, opens, cache, raw, saved, reported, called, faults, onBy,
                   disturbed>>

(* psu.get_v_out(raw[0]) stores into the RidenDevice after the release.    *)
Convert(t) ==
    /\ pc[t] = "convert"
    /\ cache' = IF raw[t].of = psu THEN [cache EXCEPT !["V_OUT"] = raw[t].v] ELSE cache
    /\ raw' = [raw EXCEPT ![t] = NoRaw]
    /\ Proceeds(t, job[t])
    /\ UNCHANGED <<dev, psu, opens, lock, saved, reported, called, faults, onBy, disturbed>>

Inside(t) ==
    \/ WriteReturns(t) \/ WriteUnacknowledged(t) \/ WriteFails(t)
    \/ Updates(t) \/ Measures(t) \/ Peeks(t) \/ Attaches(t) \/ ReadFails(t)
    \/ PortOpens(t) \/ PortFails(t) \/ Detaches(t)
    \/ Reports(t) \/ Saves(t) \/ TypeFails(t) \/ Leave(t) \/ Convert(t)

Enter(t) == Acquire(t) \/ NotConnected(t)

Next == (\E t \in Threads : Call(t) \/ Enter(t) \/ Inside(t)) \/ Refresh

Spec == Init /\ [][Next]_vars

(* A thread that holds the lock keeps running, since every Modbus call     *)
(* returns or times out (SerialTransport); a thread that waits for the     *)
(* lock gets it if it is released again and again.                         *)
FairSpec == Spec /\ \A t \in Threads : WF_vars(Inside(t)) /\ SF_vars(Enter(t))

---------------------------------------------------------------------------
(* Properties.                                                             *)

Jobs == [cmd : Commands, phase : {"main", "final"}, sec : Nat, op : Nat, exc : BOOLEAN,
         errs : 0 .. MaxErrs, failed : {"main", "final"} \X Nat]

TypeOK ==
    /\ DOMAIN dev = Registers
    /\ opens \in Nat
    /\ psu \in 0 .. opens
    /\ DOMAIN cache = StatusRegisters
    /\ lock \in Threads \cup {Free}
    /\ pc \in [Threads -> {"idle", "enter", "inside", "convert"}]
    /\ job \in [Threads -> Jobs]
    /\ result \in [Threads -> {"none", "ok", "error"}]
    /\ onBy \in Threads \cup {Free}

(* RidenWorker: "All Modbus I/O is serialised through _lock": only one     *)
(* thread at a time is in the middle of a section's Modbus calls.          *)
OneAtATime ==
    \A t, u \in Threads : pc[t] = "inside" /\ pc[u] = "inside" => t = u

(* _assert_connected: no thread is about to make a Modbus call through a   *)
(* worker that another thread has closed, however many sections ago the    *)
(* thread's own command began.                                             *)
ConnectedInside ==
    \A t \in Threads : pc[t] = "inside" /\ Here(t).asserts => psu # 0

(* with self._lock: however a section ends, by its last operation or by an *)
(* exception of any of them, the thread that leaves it has released _lock. *)
LockIsReleased == \A t \in Threads : lock = t => pc[t] = "inside"

(* "All Modbus I/O is serialised through _lock": while a thread is inside  *)
(* a section, the steps of the others change neither the connection, nor a *)
(* setting of the supply, nor its copy in the attributes.  The measured    *)
(* voltage is left out: the supply refreshes it, and psu.get_v_out(raw[0]) *)
(* stores it after the release.                                            *)
SectionsApart ==
    [][\A t \in Threads :
          pc[t] = "inside" /\ pc'[t] = "inside" /\ job'[t] = job[t] =>
              /\ psu' = psu
              /\ \A r \in Settings : dev'[r] = dev[r] /\ cache'[r] = cache[r]]_vars

(* set_voltage, set_current, set_output: the status such a command returns *)
(* shows the setting it made, whatever other threads set meanwhile.        *)
StatusShowsSetting ==
    \A t \in Threads :
        result[t] = "ok" /\ job[t].cmd.name = "set" =>
            reported[t][job[t].cmd.reg] = job[t].cmd.val

(* waveform, inrush_capture and vsweep turn the output off before they     *)
(* return normally.                                                        *)
ReturnedProceduresLeaveOff ==
    \A t \in Threads :
        /\ result[t] = "ok"
        /\ job[t].cmd.name \in {"waveform", "inrush_capture", "vsweep"}
        => onBy # t

(* waveform: if it raises, it has turned the output off all the same,      *)
(* unless the call that failed was that of _start or of _finish itself.    *)
FailedWaveformLeavesOff ==
    \A t \in Threads :
        /\ result[t] = "error"
        /\ job[t].cmd.name = "waveform"
        /\ onBy = t
        => job[t].failed \in {<<"main", 1>>, <<"final", 1>>}

(* diff_scan: "The output is restored to its original state after the      *)
(* scan", if the calls that read it and restored it did not fail and no    *)
(* other thread has switched the output meanwhile.                         *)
DiffScanRestores ==
    \A t \in Threads :
        /\ result[t] # "none"
        /\ job[t].cmd.name = "diff_scan"
        /\ job[t].failed \notin {<<"main", 1>>, <<"final", 1>>}
        /\ ~disturbed[t]
        => dev["OUTPUT"] = saved[t]

(* Every command returns or raises: a thread that fails in the middle of a *)
(* section leaves the lock to the others.                                  *)
CommandsReturn == \A t \in Threads : pc[t] # "idle" ~> pc[t] = "idle"

(* all_off, which calls set_output(False): "All commands that affect PSU   *)
(* state are serialised inside the daemon", so once it has returned, no    *)
(* command that was already running turns the output on again.             *)
OffStaysOff ==
    [][dev["OUTPUT"] = Off /\ dev'["OUTPUT"] = On => ~offSince[onBy']]_vars

(* vsweep: "Turns output ON at 0 V, steps up to v_max, then turns off";    *)
(* inrush_capture: "turns output ON, then samples", "turns output OFF":    *)
(* one call that fails does not keep them from that, unless it was that of *)
(* switching on.                                                           *)
MeasurementsLeaveOff ==
    \A t \in Threads :
        /\ result[t] # "none"
        /\ job[t].cmd.name \in {"inrush_capture", "vsweep"}
        /\ onBy = t
        => job[t].failed = <<"main", 2>>

=============================================================================
