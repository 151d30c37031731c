---------------------------- MODULE PsuRegistry ----------------------------
(***************************************************************************)
(* _workers: the supplies that one process owns and offers to its clients, *)
(* in parked/riden_server.py and in mcp/mcp_server.py.  A command or tool  *)
(* is a sequence of sections of the workers it names, each atomic under    *)
(* the worker's lock (WorkerCommands), reduced here to what they do to the *)
(* connection and to the output.                                           *)
(***************************************************************************)
EXTENDS Integers, Sequences

CONSTANT Psus    (* the supplies, in the order of registration: a sequence *)

Units == {Psus[i] : i \in 1 .. Len(Psus)}

ASSUME RegistryAssumption == Psus \in Seq(Units) /\ Psus # <<>>

VARIABLES
    connected,   (* per supply: is_connected                               *)
    power        (* per supply: its output                                 *)

registry == <<connected, power>>

(* A step of a command, at a supply.  When it fails, Do ends the command   *)
(* with an error; Try lists or counts the error and goes on.               *)
Do(what, u) == [what |-> what, psu |-> u, goesOn |-> FALSE]
Try(what, u) == [what |-> what, psu |-> u, goesOn |-> TRUE]

(* For each worker: "skip" leaves out the other step when the supply is    *)
(* not connected.                                                          *)
ForEachPsu(what) ==
    [i \in 1 .. 2 * Len(Psus) |->
        IF i % 2 = 1 THEN Do("skip", Psus[(i + 1) \div 2]) ELSE Try(what, Psus[i \div 2])]

Writes == {"write", "on", "off"}
Tests == {"skip", "have", "ensure"}

(* _assert_connected, at the start of a section that uses the supply.      *)
MayRun(step) == step.what \in Writes \cup {"read"} => connected[step.psu]

Runs(step) ==
    /\ MayRun(step)
    /\ connected' = [connected EXCEPT
                        ![step.psu] = step.what = "open" \/ (@ /\ step.what # "close")]
    /\ power' = [power EXCEPT ![step.psu] = step.what = "on" \/ (@ /\ step.what # "off")]

(* A section that raises does so before or after the supply has obeyed.    *)
RunsInVain(step) ==
    /\ power' \in IF connected[step.psu] /\ step.what \in {"on", "off"}
                  THEN {power, [power EXCEPT ![step.psu] = (step.what = "on")]}
                  ELSE {power}
    /\ UNCHANGED connected
=============================================================================
