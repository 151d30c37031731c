---------------------------- MODULE BenchScripts ----------------------------
(***************************************************************************)
(* The programs that drive a supply from the bench: awto_riden.py's        *)
(* one-shot commands and monitor, and scripts/: the staged hardware test   *)
(* (awto-riden-test.py), the guarded waveform, the MR11 lamp test, the     *)
(* waveform capture, the timing matrix and the globe test over BLE.        *)
(*                                                                         *)
(* Each is a sequence of commands under try, except and finally.  A block  *)
(* is the body of one such statement: its steps in order, the block that   *)
(* follows, the exceptions it swallows ("fault": Exception, "ctrl_c":      *)
(* KeyboardInterrupt) and the block that catches the others.  A loop over  *)
(* set points is two passes, a loop of samples two reads.                  *)
(***************************************************************************)
EXTENDS Integers, Sequences

CONSTANTS Scripts,        (* the programs that may be started              *)
          Chains,         (* the stages the test runner may be given       *)
          MaxHits         (* bound: calls that fail and interrupts         *)

Stages == {"identify", "status", "write", "measure", "characterize"}

Runner == "runner"
Names == {Runner, "guarded", "lamp", "capture", "matrix", "globe", "cli_query",
          "cli_voltage", "cli_current", "cli_on", "cli_off", "cli_cycle", "cli_monitor"}

(* The runner does not start without a stage.                              *)
ASSUME ScriptsAssumption ==
    /\ Scripts \subseteq Names
    /\ Chains \subseteq Seq(Stages) \ {<<>>}
    /\ MaxHits \in Nat

VARIABLES
    script,      (* the program that runs (constant)                       *)
    todo,        (* the stages the runner has still to start               *)
    block, at,   (* its place: the block, and the step in it               *)
    raised,      (* has an exception gone through uncaught or been handled *)
                 (* as an error? then the exit status is not 0             *)
    deaf,        (* the supply did not answer when this connection opened  *)
    output,      (* the supply's output                                    *)
    volt,        (* the supply's set point: "zero", "low" or "high"        *)
    hits,        (* calls that failed, and interrupts                      *)
    lastOff,     (* how the last attempt to turn the output off ended      *)
    zeroed,      (* has the runner's last safe_zero done all its steps?    *)
    wasOn        (* was the output on before (constant)?                   *)

before == <<script, wasOn>>
supply == <<output, volt>>
scriptVars == <<before, todo, block, at, raised, deaf, supply, hits, lastOff, zeroed>>

Block(steps, next, swallows, catch) ==
    [steps |-> steps, next |-> next, swallows |-> swallows, catch |-> catch]

(* awto-riden-test.py: a stage raises into the global error handler.       *)
Stage(steps) == Block(steps, "zero", {}, "handler")

stage_identify == Stage(<<"open", "read">>)
stage_status == Stage(<<"open", "read">>)
stage_write == Stage(<<"open", "V_low", "read", "I", "read", "on", "read", "off", "read">>)
stage_measure == Stage(<<"open", "I", "on", "V_low", "read", "V_low", "read", "off">>)
stage_characterize == Stage(<<"check", "open", "V_zero", "I", "on", "V_low", "read",
                              "V_high", "read", "V_zero", "off">>)

(* safe_zero, after a stage, in the error handler and at the end.          *)
ZeroStepsCurrentOnly == <<"open", "I", "off", "read">>
ZeroSteps == <<"open", "V_zero", "I", "off", "read">>

safe_zero_left_on(next, catch) ==
    Block(<<"open", "V_zero", "I", "read">>, next, {"fault"}, catch)
safe_zero(next, catch) == Block(ZeroSteps, next, {"fault"}, catch)

(* awto_riden_safe_waveform.py, around RidenWorker.waveform, which drops   *)
(* up to five set points that fail.                                        *)
confirm_load == Block(<<"check", "open">>, "probe", {}, "end")
measure_load == Block(<<"off", "I", "V_zero", "on", "V_zero", "read", "V_low", "read",
                        "off", "V_zero", "check", "I">>, "waveform", {}, "safe_volt")
waveform_start == Block(<<"on">>, "samples", {}, "safe_volt")
waveform_samples == Block(<<"tell_V", "tell_V">>, "finish", {}, "finish")
waveform_finish == Block(<<"V_high", "off", "read">>, "safe_volt", {}, "safe_volt")
safe_set_voltage == Block(<<"V_zero">>, "safe_off", {"fault"}, "end")
safe_output_off == Block(<<"off">>, "end", {"fault"}, "end")

(* awto_riden_mr11.py: both tests, and main's finally.                     *)
lamp_connect == Block(<<"attach">>, "inrush", {}, "end")
test_inrush == Block(<<"off", "I", "V_high", "on", "read", "read", "off">>,
                     "vsweep", {}, "lamp_off")
test_vsweep == Block(<<"off", "I", "V_zero", "on", "V_zero", "read", "V_high", "read",
                       "off">>, "lamp_off", {}, "lamp_off")
lamp_finally == Block(<<"off">>, "end", {}, "end")

(* awto_riden_waveform_capture.py: a wave and a fixed voltage for the      *)
(* seven cases, then the safe reset.                                       *)
capture_open == Block(<<"attach", "read">>, "wave", {}, "end")
capture_wave == Block(<<"I", "V_low", "on", "V_high", "poll", "V_low", "poll", "off">>,
                      "fixed", {}, "capture_off")
capture_fixed == Block(<<"I", "V_high", "on", "V_high", "poll", "off",
                         "V_high", "I", "off">>, "capture_off", {}, "capture_off")
capture_finally == Block(<<"off">>, "end", {"fault"}, "end")

(* awto_riden_timing_matrix.py.                                            *)
matrix_warning == Block(<<"wait">>, "points", {}, "end")
matrix_points == Block(<<"open", "read", "off", "V_high", "I", "on", "poll", "poll">>,
                       "points_off", {}, "points_off")
matrix_finally == Block(<<"off">>, "end", {"fault", "ctrl_c"}, "end")

(* awto_riden_ble_globe.py: transact returns what it got in time, whatever *)
(* it asked, and the echo of a write is not looked at.                     *)
globe_run == Block(<<"attach", "tell_off", "tell_V", "tell_I", "ask", "ask", "read",
                     "tell_on", "ask", "tell_off">>, "end", {}, "end")

(* awto_riden.py: one command, then close.                                 *)
Command(steps) == Block(<<"open">> \o steps, "end", {}, "end")
run_monitor == Block(<<"read", "read">>, "end", {"ctrl_c"}, "end")

Blocks == [
    identify |-> stage_identify, status |-> stage_status, write |-> stage_write,
    measure |-> stage_measure, characterize |-> stage_characterize,
    zero |-> safe_zero("more", "handler"),
    handler |-> safe_zero("final", "final"),
    final |-> safe_zero("end", "end"),

    guarded |-> confirm_load, probe |-> measure_load, waveform |-> waveform_start,
    samples |-> waveform_samples, finish |-> waveform_finish,
    safe_volt |-> safe_set_voltage, safe_off |-> safe_output_off,

    lamp |-> lamp_connect, inrush |-> test_inrush, vsweep |-> test_vsweep,
    lamp_off |-> lamp_finally,

    capture |-> capture_open, wave |-> capture_wave, fixed |-> capture_fixed,
    capture_off |-> capture_finally,

    matrix |-> matrix_warning, points |-> matrix_points, points_off |-> matrix_finally,

    globe |-> globe_run,

    cli_query |-> Command(<<"read">>),
    cli_voltage |-> Command(<<"V_high", "read">>),
    cli_current |-> Command(<<"I", "read">>),
    cli_on |-> Command(<<"on", "read">>),
    cli_off |-> Command(<<"off", "read">>),
    cli_cycle |-> Command(<<"off", "on", "read">>),
    cli_monitor |-> Block(<<"open">>, "watch", {}, "end"), watch |-> run_monitor,

    end |-> Block(<<>>, "end", {}, "end")
]

ScriptsInit ==
    /\ script \in Scripts
    /\ \E chain \in Chains :
          /\ script # Runner => chain = CHOOSE c \in Chains : TRUE
          /\ todo = IF script = Runner THEN Tail(chain) ELSE <<>>
          /\ block = IF script = Runner THEN Head(chain) ELSE script
    /\ at = 1
    /\ raised = FALSE
    /\ deaf = FALSE
    /\ output \in BOOLEAN
    /\ volt \in {"zero", "high"}
    /\ hits = 0
    /\ lastOff = "none"
    /\ zeroed = FALSE
    /\ wasOn = output

Running == block # "end"
Steps == Blocks[block].steps
Now == Steps[at]

(* Control goes to a block; "more" is the runner's loop over its stages.   *)
Enter(label) ==
    /\ at' = 1
    /\ IF label = "more"
       THEN IF todo = <<>>
            THEN block' = "final" /\ UNCHANGED todo
            ELSE block' = Head(todo) /\ todo' = Tail(todo)
       ELSE block' = label /\ UNCHANGED todo

(* The step is over, and with the last one its block.                      *)
Advance ==
    /\ IF at < Len(Steps)
       THEN at' = at + 1 /\ UNCHANGED <<block, todo>>
       ELSE Enter(Blocks[block].next)
    /\ zeroed' = IF block \in {"zero", "handler", "final"}
                 THEN at = Len(Steps) ELSE zeroed
    /\ UNCHANGED raised

(* The step raises: its block swallows the exception, or another catches   *)
(* it, and the program will not report success.                            *)
RaiseThrough(what) ==
    /\ IF what \in Blocks[block].swallows
       THEN Enter(Blocks[block].next) /\ UNCHANGED raised
       ELSE Enter("end") /\ raised' = TRUE
    /\ zeroed' = FALSE

RaiseSilently(what) ==
    /\ Enter(IF what \in Blocks[block].swallows
             THEN Blocks[block].next ELSE Blocks[block].catch)
    /\ UNCHANGED raised
    /\ zeroed' = FALSE

Raise(what) ==
    /\ IF what \in Blocks[block].swallows
       THEN Enter(Blocks[block].next) /\ UNCHANGED raised
       ELSE Enter(Blocks[block].catch) /\ raised' = TRUE
    /\ zeroed' = FALSE

Local == {"wait", "check"}                      (* steps with no I/O       *)
Opens == {"open", "attach"}
Unheard == {"poll", "ask", "tell_off", "tell_on", "tell_V", "tell_I"}
Offs == {"off", "tell_off"}

(* What a command does to the supply.                                      *)
TakesEffect ==
    /\ output' = IF Now \in {"on", "tell_on"} THEN TRUE
                 ELSE IF Now \in Offs THEN FALSE ELSE output
    /\ volt' = CASE Now = "V_zero" -> "zero"
                 [] Now = "V_low" -> "low"
                 [] Now \in {"V_high", "tell_V"} -> "high"
                 [] OTHER -> volt

Tried(result) == lastOff' = IF Now \in Offs THEN result ELSE lastOff

(* The step does what it should.                                           *)
Step ==
    /\ Running
    /\ deaf => Now \in Local \cup Opens \cup Unheard
    /\ IF deaf THEN UNCHANGED supply ELSE TakesEffect
    /\ deaf' = IF Now \in Opens THEN FALSE ELSE deaf
    /\ Tried("done")
    /\ Advance
    /\ UNCHANGED <<before, hits>>

(* RidenWorker.open returns although the supply did not answer: every      *)
(* command of this connection will raise.                                  *)
OpenDeaf ==
    /\ Running
    /\ Now = "open"
    /\ hits < MaxHits
    /\ hits' = hits + 1
    /\ deaf' = TRUE
    /\ Advance
    /\ UNCHANGED <<before, supply, lastOff>>

DeafFails ==
    /\ Running
    /\ deaf
    /\ Now \notin Local \cup Opens \cup Unheard
    /\ Tried("failed")
    /\ Raise("fault")
    /\ UNCHANGED <<before, deaf, supply, hits>>

(* A command fails, before or after the supply has obeyed; over BLE, where *)
(* a missing answer goes unnoticed, that takes the loss of the link.  The  *)
(* polls of the capture and of the timing matrix catch their own failures. *)
CallFails ==
    /\ Running
    /\ ~deaf
    /\ Now \notin Local \cup {"poll"}
    /\ hits < MaxHits
    /\ hits' = hits + 1
    /\ IF Now \in Opens THEN UNCHANGED supply ELSE TakesEffect \/ UNCHANGED supply
    /\ Tried("failed")
    /\ Raise("fault")
    /\ UNCHANGED <<before, deaf>>

(* A request over BLE that the supply did not get goes unnoticed, and so   *)
(* does a set point of the waveform.                                       *)
GoesUnnoticed ==
    /\ Running
    /\ Now \in Unheard \ {"poll"}
    /\ hits < MaxHits
    /\ hits' = hits + 1
    /\ Tried("failed")
    /\ Advance
    /\ UNCHANGED <<before, deaf, supply>>

(* The load is not the expected one, or the operator does not confirm.     *)
CheckFails ==
    /\ Running
    /\ Now = "check"
    /\ Raise("fault")
    /\ UNCHANGED <<before, deaf, supply, hits, lastOff>>

(* Ctrl-C, before or after the supply has obeyed the command under way.    *)
Interrupted ==
    /\ Running
    /\ hits < MaxHits
    /\ hits' = hits + 1
    /\ IF deaf THEN UNCHANGED supply ELSE TakesEffect \/ UNCHANGED supply
    /\ Tried("failed")
    /\ Raise("ctrl_c")
    /\ UNCHANGED <<before, deaf>>

ScriptsNext ==
    \/ Step \/ OpenDeaf \/ DeafFails \/ CallFails \/ GoesUnnoticed
    \/ CheckFails \/ Interrupted

ScriptsSpec == ScriptsInit /\ [][ScriptsNext]_scriptVars

---------------------------------------------------------------------------
(* A program that began with the output off, and meets one failure or one  *)
(* Ctrl-C, wherever it falls, ends with the output off.  The timing matrix *)
(* is left out: its body ends with the output on and it turns it off only  *)
(* once, as "best effort"; so is the globe test, which has no handler.     *)
OneFaultEndsOff ==
    (~Running /\ ~wasOn /\ hits <= 1 /\ script \in {Runner, "guarded", "lamp", "capture"})
        => ~output

(* Whatever goes wrong, and however often: the lamp test, the capture and  *)
(* the timing matrix do not end with the output on unless the command that *)
(* would have turned it off was tried at the end, and failed.              *)
OnlyFailedOffLeavesOn ==
    (~Running /\ ~wasOn /\ output /\ script \in {"lamp", "capture", "matrix"})
        => lastOff = "failed"

(* The runner's load probe: once safe_zero has brought the supply to zero  *)
(* after the stage before, the probe never puts more than its own low      *)
(* voltage on the load.                                                    *)
ProbeLowAfterZero ==
    (block = "measure" /\ zeroed /\ output) => volt # "high"

(* Exit status 0 means that the output is as the program was asked to      *)
(* leave it: on after `output on` and power-cycle, off after `output off`  *)
(* and after a test that began with it off.                                *)
ExitZeroMeansDone ==
    (~Running /\ ~raised) =>
        /\ script \in {"cli_on", "cli_cycle"} => output
        /\ script = "cli_off" => ~output
        /\ (script \in {Runner, "guarded", "lamp", "capture"} /\ ~wasOn) => ~output

(* What the runner says of its probe: "Probes at a couple of low setpoints *)
(* ... Power stays < ~6 W" (scripts/awto-riden-test.py:116-119).           *)
ProbeStaysLow ==
    (block = "measure" /\ ~wasOn /\ output) => volt # "high"
=============================================================================
