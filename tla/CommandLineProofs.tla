-------------------------- MODULE CommandLineProofs --------------------------
(***************************************************************************)
(* Proofs about the bench scripts, for any set of programs and stages and  *)
(* any number of failures and interrupts.                                  *)
(***************************************************************************)
EXTENDS CommandLine, TLAPS

Labels == {"identify", "status", "write", "measure", "characterize", "zero", "handler",
           "final", "guarded", "probe", "waveform", "samples", "finish", "safe_volt",
           "safe_off", "lamp", "inrush", "vsweep", "lamp_off", "capture", "wave", "fixed",
           "capture_off", "matrix", "points", "points_off", "globe", "cli_query",
           "cli_voltage", "cli_current", "cli_on", "cli_off", "cli_cycle", "cli_monitor",
           "watch", "end"}

ZeroBlocks == {"zero", "handler", "final"}

(* The blocks of the runner, the guarded waveform, the lamp test and the   *)
(* capture, and of the programs that turn the output off in a finally.     *)
GuardedBlocks ==
    Stages \cup ZeroBlocks \cup
    {"guarded", "probe", "waveform", "samples", "finish", "safe_volt", "safe_off",
     "lamp", "inrush", "vsweep", "lamp_off", "capture", "wave", "fixed", "capture_off"}

FirstBlocks == {"lamp", "capture", "matrix"}
LastBlocks == {"lamp_off", "capture_off", "points_off"}
FinallyBlocks ==
    FirstBlocks \cup LastBlocks \cup {"inrush", "vsweep", "wave", "fixed", "points"}

---------------------------------------------------------------------------
(* The blocks one by one.                                                  *)

LEMMA RunnerRows ==
    /\ Blocks["identify"] = Stage(<<"open", "read">>)
    /\ Blocks["status"] = Stage(<<"open", "read">>)
    /\ Blocks["write"] = Stage(<<"open", "V_low", "read", "I", "read", "on", "read", "off",
                                 "read">>)
    /\ Blocks["measure"] = Stage(<<"open", "I", "on", "V_low", "read", "V_low", "read",
                                   "off">>)
    /\ Blocks["characterize"] = Stage(<<"check", "open", "V_zero", "I", "on", "V_low", "read",
                                        "V_high", "read", "V_zero", "off">>)
    /\ Blocks["zero"] = safe_zero("more", "handler")
    /\ Blocks["handler"] = safe_zero("final", "final")
    /\ Blocks["final"] = safe_zero("end", "end")
BY DEF Blocks, stage_identify, stage_status, stage_write, stage_measure, stage_characterize

LEMMA WaveformRows ==
    /\ Blocks["guarded"] = confirm_load
    /\ Blocks["probe"] = measure_load
    /\ Blocks["waveform"] = waveform_start
    /\ Blocks["samples"] = waveform_samples
    /\ Blocks["finish"] = waveform_finish
    /\ Blocks["safe_volt"] = safe_set_voltage
    /\ Blocks["safe_off"] = safe_output_off
BY DEF Blocks

LEMMA FinallyRows ==
    /\ Blocks["lamp"] = lamp_connect
    /\ Blocks["inrush"] = test_inrush
    /\ Blocks["vsweep"] = test_vsweep
    /\ Blocks["lamp_off"] = lamp_finally
    /\ Blocks["capture"] = capture_open
    /\ Blocks["wave"] = capture_wave
    /\ Blocks["fixed"] = capture_fixed
    /\ Blocks["capture_off"] = capture_finally
    /\ Blocks["matrix"] = matrix_warning
    /\ Blocks["points"] = matrix_points
    /\ Blocks["points_off"] = matrix_finally
BY DEF Blocks

LEMMA CommandRows ==
    /\ Blocks["globe"] = globe_run
    /\ Blocks["cli_query"] = Command(<<"read">>)
    /\ Blocks["cli_voltage"] = Command(<<"V_high", "read">>)
    /\ Blocks["cli_current"] = Command(<<"I", "read">>)
    /\ Blocks["cli_on"] = Command(<<"on", "read">>)
    /\ Blocks["cli_off"] = Command(<<"off", "read">>)
    /\ Blocks["cli_cycle"] = Command(<<"off", "on", "read">>)
    /\ Blocks["cli_monitor"] = Block(<<"open">>, "watch", {}, "end")
    /\ Blocks["watch"] = run_monitor
    /\ Blocks["end"] = Block(<<>>, "end", {}, "end")
BY DEF Blocks

Row(b) ==
    /\ Len(Blocks[b].steps) \in Nat
    /\ b # "end" => Len(Blocks[b].steps) \in Nat \ {0}
    /\ Blocks[b].next \in (Labels \ Stages) \cup {"more"}
    /\ Blocks[b].next = "more" => b = "zero"
    /\ Blocks[b].catch \in Labels \ Stages

LEMMA RowsKnown == \A b \in Labels : Row(b)
<1> USE DEF Row, Labels, Stages, Block
<1>1. Row("identify")
  BY RunnerRows DEF Stage
<1>2. Row("status")
  BY RunnerRows DEF Stage
<1>3. Row("write")
  BY RunnerRows DEF Stage
<1>4. Row("measure")
  BY RunnerRows DEF Stage
<1>5. Row("characterize")
  BY RunnerRows DEF Stage
<1>6. Row("zero")
  BY RunnerRows DEF safe_zero, ZeroSteps
<1>7. Row("handler")
  BY RunnerRows DEF safe_zero, ZeroSteps
<1>8. Row("final")
  BY RunnerRows DEF safe_zero, ZeroSteps
<1>9. Row("guarded")
  BY WaveformRows DEF confirm_load
<1>10. Row("probe")
  BY WaveformRows DEF measure_load
<1>11. Row("waveform")
  BY WaveformRows DEF waveform_start
<1>12. Row("samples")
  BY WaveformRows DEF waveform_samples
<1>13. Row("finish")
  BY WaveformRows DEF waveform_finish
<1>14. Row("safe_volt")
  BY WaveformRows DEF safe_set_voltage
<1>15. Row("safe_off")
  BY WaveformRows DEF safe_output_off
<1>16. Row("lamp")
  BY FinallyRows DEF lamp_connect
<1>17. Row("inrush")
  BY FinallyRows DEF test_inrush
<1>18. Row("vsweep")
  BY FinallyRows DEF test_vsweep
<1>19. Row("lamp_off")
  BY FinallyRows DEF lamp_finally
<1>20. Row("capture")
  BY FinallyRows DEF capture_open
<1>21. Row("wave")
  BY FinallyRows DEF capture_wave
<1>22. Row("fixed")
  BY FinallyRows DEF capture_fixed
<1>23. Row("capture_off")
  BY FinallyRows DEF capture_finally
<1>24. Row("matrix")
  BY FinallyRows DEF matrix_warning
<1>25. Row("points")
  BY FinallyRows DEF matrix_points
<1>26. Row("points_off")
  BY FinallyRows DEF matrix_finally
<1>27. Row("globe")
  BY CommandRows DEF globe_run
<1>28. Row("cli_query")
  BY CommandRows DEF Command
<1>29. Row("cli_voltage")
  BY CommandRows DEF Command
<1>30. Row("cli_current")
  BY CommandRows DEF Command
<1>31. Row("cli_on")
  BY CommandRows DEF Command
<1>32. Row("cli_off")
  BY CommandRows DEF Command
<1>33. Row("cli_cycle")
  BY CommandRows DEF Command
<1>34. Row("cli_monitor")
  BY CommandRows DEF Block
<1>35. Row("watch")
  BY CommandRows DEF run_monitor
<1>36. Row("end")
  BY CommandRows DEF Block
<1> HIDE DEF Row
<1> QED
  BY <1>1, <1>2, <1>3, <1>4, <1>5, <1>6, <1>7, <1>8, <1>9, <1>10, <1>11, <1>12,
     <1>13, <1>14, <1>15, <1>16, <1>17, <1>18, <1>19, <1>20, <1>21, <1>22, <1>23,
     <1>24, <1>25, <1>26, <1>27, <1>28, <1>29, <1>30, <1>31, <1>32, <1>33, <1>34,
     <1>35, <1>36

(* Where a program has the output on in the ordinary course, and where it  *)
(* may be on after an exception, with the command that turns it off ahead. *)
Powered(b, i) ==
    \/ b = "write" /\ i \in 7 .. 8
    \/ b = "measure" /\ i \in 4 .. 8
    \/ b = "characterize" /\ i \in 6 .. 11
    \/ b = "probe" /\ i \in 5 .. 9
    \/ b = "samples" /\ i \in 1 .. 2
    \/ b = "finish" /\ i \in 1 .. 2
    \/ b = "inrush" /\ i \in 5 .. 7
    \/ b = "vsweep" /\ i \in 5 .. 9
    \/ b = "wave" /\ i \in 4 .. 8
    \/ b = "fixed" /\ i \in 4 .. 6

Draining(b, i) ==
    \/ b = "handler" /\ i \in 1 .. 4
    \/ b \in {"safe_volt", "safe_off", "lamp_off", "capture_off"} /\ i = 1

(* The output goes off where it should: what switches it on leads to a     *)
(* powered place, a powered place leads to another unless it switches the  *)
(* output off, an exception there is not swallowed and leads to a place    *)
(* with the command ahead.                                                 *)
Guards(b, i) ==
    LET blk == Blocks[b]
        s == blk.steps[i]
    IN  /\ blk.next \in GuardedBlocks \cup {"more", "end"}
        /\ blk.catch \in GuardedBlocks \cup {"end"}
        /\ (s = "on" \/ (Powered(b, i) /\ s # "off"))
             => IF i < Len(blk.steps) THEN Powered(b, i + 1)
                                      ELSE blk.next # "more" /\ Powered(blk.next, 1)
        /\ (s = "on" \/ Powered(b, i))
             => /\ blk.swallows = {}
                /\ Powered(blk.catch, 1) \/ Draining(blk.catch, 1)
                /\ s \notin Local \cup Opens
        /\ Draining(b, i)
             => /\ s \notin {"on", "check", "wait"}
                /\ s # "off" => IF i < Len(blk.steps)
                                THEN Draining(b, i + 1)
                                ELSE blk.next # "more" /\ Draining(blk.next, 1)
        /\ s \notin {"tell_on", "tell_off", "tell_I"}

LEMMA GuardsKnown ==
    \A b \in GuardedBlocks : \A i \in 1 .. Len(Blocks[b].steps) : Guards(b, i)
<1> DEFINE Guarded(b) == \A i \in 1 .. Len(Blocks[b].steps) : Guards(b, i)
<1> USE DEF Guards, GuardedBlocks, Stages, ZeroBlocks, Powered, Draining, Local, Opens, Block
<1>1. Guarded("identify")
  BY RunnerRows DEF Stage
<1>2. Guarded("status")
  BY RunnerRows DEF Stage
<1>3. Guarded("write")
  BY RunnerRows DEF Stage
<1>4. Guarded("measure")
  BY RunnerRows DEF Stage
<1>5. Guarded("characterize")
  BY RunnerRows DEF Stage
<1>6. Guarded("zero")
  BY RunnerRows DEF safe_zero, ZeroSteps
<1>7. Guarded("handler")
  BY RunnerRows DEF safe_zero, ZeroSteps
<1>8. Guarded("final")
  BY RunnerRows DEF safe_zero, ZeroSteps
<1>9. Guarded("guarded")
  BY WaveformRows DEF confirm_load
<1>10. Guarded("probe")
  BY WaveformRows DEF measure_load
<1>11. Guarded("waveform")
  BY WaveformRows DEF waveform_start
<1>12. Guarded("samples")
  BY WaveformRows DEF waveform_samples
<1>13. Guarded("finish")
  BY WaveformRows DEF waveform_finish
<1>14. Guarded("safe_volt")
  BY WaveformRows DEF safe_set_voltage
<1>15. Guarded("safe_off")
  BY WaveformRows DEF safe_output_off
<1>16. Guarded("lamp")
  BY FinallyRows DEF lamp_connect
<1>17. Guarded("inrush")
  BY FinallyRows DEF test_inrush
<1>18. Guarded("vsweep")
  BY FinallyRows DEF test_vsweep
<1>19. Guarded("lamp_off")
  BY FinallyRows DEF lamp_finally
<1>20. Guarded("capture")
  BY FinallyRows DEF capture_open
<1>21. Guarded("wave")
  BY FinallyRows DEF capture_wave
<1>22. Guarded("fixed")
  BY FinallyRows DEF capture_fixed
<1>23. Guarded("capture_off")
  BY FinallyRows DEF capture_finally
<1> HIDE DEF Guarded
<1>24. \A b \in GuardedBlocks : Guarded(b)
  BY <1>1, <1>2, <1>3, <1>4, <1>5, <1>6, <1>7, <1>8, <1>9, <1>10, <1>11, <1>12,
     <1>13, <1>14, <1>15, <1>16, <1>17, <1>18, <1>19, <1>20, <1>21, <1>22, <1>23
<1> QED
  BY <1>24 DEF Guarded
---------------------------------------------------------------------------
(* The place of a program.                                                 *)

Placed ==
    /\ block \in Labels
    /\ block # "end" => at \in 1 .. Len(Steps)
    /\ todo \in Seq(Stages)
    /\ hits \in Nat

(* The programs that have a handler for everything they do with the output *)
(* on.                                                                     *)
Handled == script \in {Runner, "guarded", "lamp", "capture"}

(* The output is on only at a powered place, but for a program that has    *)
(* already failed; after one failure it is on only at a place that has the *)
(* command to turn it off ahead, and the supply still answers.             *)
SwitchInv ==
    Handled =>
        /\ block \in GuardedBlocks \cup {"end"}
        /\ deaf => hits # 0
        /\ ~wasOn /\ output /\ (~raised \/ hits = 0) => Powered(block, at)
        /\ ~wasOn /\ output /\ hits <= 1
              => ~deaf /\ (Powered(block, at) \/ Draining(block, at))

(* A finally clause is ahead as long as the program runs.                  *)
FinallyInv ==
    script \in {"lamp", "capture", "matrix"} =>
        /\ block \in FinallyBlocks \cup {"end"}
        /\ ~wasOn /\ output /\ block \in FirstBlocks \cup {"end"}
              => block = "end" /\ lastOff = "failed"

(* safe_zero has brought the voltage down.                                 *)
ZeroInv ==
    /\ block \in ZeroBlocks /\ at >= 3 => ~deaf /\ volt = "zero"
    /\ block = "measure" /\ zeroed => volt # "high"

(* One-shot commands of awto_riden.py.                                     *)
CommandInv ==
    /\ script \in {"cli_on", "cli_off", "cli_cycle"} => block \in {script, "end"}
    /\ script = "cli_on" /\ ~raised /\ (block = "end" \/ at >= 3) => output
    /\ script = "cli_cycle" /\ ~raised /\ (block = "end" \/ at >= 4) => output
    /\ script = "cli_off" /\ ~raised /\ (block = "end" \/ at >= 3) => ~output

ScriptsInv == Placed /\ SwitchInv /\ FinallyInv /\ ZeroInv /\ CommandInv

LEMMA ScriptsBegin == ScriptsInit => ScriptsInv
<1> SUFFICES ASSUME ScriptsInit
             PROVE  ScriptsInv
  OBVIOUS
<1>1. PICK chain \in Chains :
        /\ todo = IF script = Runner THEN Tail(chain) ELSE <<>>
        /\ block = IF script = Runner THEN Head(chain) ELSE script
  BY DEF ScriptsInit
<1>2. chain \in Seq(Stages) /\ chain # <<>>
  BY ScriptsAssumption
<1>3. todo \in Seq(Stages) /\ (script = Runner => block \in Stages)
  BY <1>1, <1>2
<1>4. script \in Names /\ (script # Runner => block = script)
  BY <1>1, ScriptsAssumption DEF ScriptsInit
<1>5. /\ at = 1 /\ hits = 0 /\ wasOn = output /\ ~zeroed /\ ~deaf
  BY DEF ScriptsInit
<1>6. block \in Labels /\ block # "end" /\ block \notin ZeroBlocks
  BY <1>3, <1>4 DEF Names, Runner, Stages, Labels, ZeroBlocks
<1>7. Placed
  BY <1>3, <1>5, <1>6, RowsKnown DEF Placed, Row, Steps
<1>8. SwitchInv
  BY <1>3, <1>4, <1>5 DEF SwitchInv, Handled, GuardedBlocks, Runner, Names
<1>9. FinallyInv
  BY <1>4, <1>5 DEF FinallyInv, FinallyBlocks, FirstBlocks, Names, Runner
<1>10. ZeroInv /\ CommandInv
  BY <1>4, <1>5, <1>6 DEF ZeroInv, CommandInv, Runner
<1> QED
  BY <1>7, <1>8, <1>9, <1>10 DEF ScriptsInv

(* Control goes to the block that is named, or to the runner's next stage. *)
LEMMA Entering ==
    ASSUME Placed, NEW label \in Labels \cup {"more"}, Enter(label)
    PROVE  /\ at' = 1
           /\ todo' \in Seq(Stages)
           /\ \/ label # "more" /\ block' = label
              \/ label = "more" /\ block' \in Stages \cup {"final"}
<1>1. label = "more" /\ todo # <<>> => Head(todo) \in Stages /\ Tail(todo) \in Seq(Stages)
  BY DEF Placed
<1>2. CASE label = "more"
  BY <1>1, <1>2 DEF Enter, Placed
<1>3. CASE label # "more"
  BY <1>3 DEF Enter, Placed
<1> QED
  BY <1>2, <1>3

(* A step goes on, or raises.                                              *)
LEMMA Moves ==
    ASSUME ScriptsNext
    PROVE  /\ block # "end" /\ UNCHANGED before
           /\ hits' \in {hits, hits + 1}
           /\ Advance \/ \E what \in {"fault", "ctrl_c"} : Raise(what)
<1>1. CASE Step \/ OpenDeaf \/ GoesUnnoticed
  BY <1>1 DEF Step, OpenDeaf, GoesUnnoticed, Running
<1>2. CASE DeafFails \/ CallFails \/ CheckFails
  BY <1>2 DEF DeafFails, CallFails, CheckFails, Running
<1>3. CASE Interrupted
  BY <1>3 DEF Interrupted, Running
<1> QED
  BY <1>1, <1>2, <1>3 DEF ScriptsNext

LEMMA AdvanceEnters ==
    ASSUME Placed, block # "end", Advance
    PROVE  /\ block' \in Labels /\ todo' \in Seq(Stages)
           /\ raised' = raised
           /\ \/ at < Len(Steps) /\ block' = block /\ at' = at + 1
              \/ /\ at = Len(Steps) /\ at' = 1
                 /\ \/ block' = Blocks[block].next
                    \/ /\ Blocks[block].next = "more"
                       /\ block' \in Stages \cup {"final"}
<1>1. at \in 1 .. Len(Steps) /\ Row(block)
  BY RowsKnown DEF Placed
<1>2. Blocks[block].next \in Labels \cup {"more"}
  BY <1>1 DEF Row
<1>3. CASE at < Len(Steps)
  BY <1>3 DEF Advance, Placed
<1>4. CASE ~(at < Len(Steps))
  <2>1. at = Len(Steps) /\ Enter(Blocks[block].next)
    BY <1>1, <1>4 DEF Advance, Row, Steps
  <2>2. Stages \cup {"final"} \subseteq Labels
    BY DEF Stages, Labels
  <2> QED
    BY <1>1, <1>2, <2>1, <2>2, Entering DEF Advance, Row
<1> QED
  BY <1>3, <1>4

LEMMA RaiseEnters ==
    ASSUME Placed, block # "end", NEW what, Raise(what)
    PROVE  /\ block' \in Labels /\ todo' \in Seq(Stages) /\ at' = 1 /\ ~zeroed'
           /\ \/ /\ what \in Blocks[block].swallows /\ raised' = raised
                 /\ \/ block' = Blocks[block].next
                    \/ /\ Blocks[block].next = "more"
                       /\ block' \in Stages \cup {"final"}
              \/ /\ what \notin Blocks[block].swallows /\ raised' = TRUE
                 /\ block' = Blocks[block].catch
<1>1. Blocks[block].next \in Labels \cup {"more"} /\ Blocks[block].catch \in Labels
  BY RowsKnown DEF Placed, Row
<1>2. Stages \cup {"final"} \subseteq Labels /\ "more" \notin Labels
  BY DEF Stages, Labels
<1>3. CASE what \in Blocks[block].swallows
  <2>1. Enter(Blocks[block].next) /\ raised' = raised /\ ~zeroed'
    BY <1>3 DEF Raise
  <2> QED
    BY <1>1, <1>2, <1>3, <2>1, Entering
<1>4. CASE what \notin Blocks[block].swallows
  <2>1. Enter(Blocks[block].catch) /\ raised' = TRUE /\ ~zeroed'
    BY <1>4 DEF Raise
  <2>2. at' = 1 /\ todo' \in Seq(Stages) /\ block' = Blocks[block].catch
    BY <1>1, <1>2, <2>1, Entering
  <2> QED
    BY <1>1, <1>4, <2>1, <2>2
<1> QED
  BY <1>3, <1>4

LEMMA PlacedNext ==
    ASSUME Placed, ScriptsNext
    PROVE  Placed'
<1>1. block # "end" /\ hits' \in Nat
  BY Moves DEF Placed
<1>2. /\ block' \in Labels /\ todo' \in Seq(Stages)
      /\ \/ at < Len(Steps) /\ block' = block /\ at' = at + 1
         \/ at' = 1
  BY <1>1, Moves, AdvanceEnters, RaiseEnters
<1>3. block' # "end" => at' \in 1 .. Len(Blocks[block'].steps)
  <2>1. CASE at < Len(Steps) /\ block' = block /\ at' = at + 1
    BY <1>1, <2>1, RowsKnown DEF Placed, Row, Steps
  <2>2. CASE at' = 1
    BY <1>2, <2>2, RowsKnown DEF Row
  <2> QED
    BY <1>2, <2>1, <2>2
<1> QED
  BY <1>1, <1>2, <1>3 DEF Placed, Steps
---------------------------------------------------------------------------
(* The programs that handle everything.                                    *)

LEMMA GuardHere ==
    ASSUME Placed, Handled, SwitchInv, block # "end"
    PROVE  block \in GuardedBlocks /\ Guards(block, at)
BY GuardsKnown DEF Placed, SwitchInv, Steps

LEMMA NotRunning == ASSUME NEW i PROVE ~Powered("end", i) /\ ~Draining("end", i)
BY DEF Powered, Draining

LEMMA AdvanceGuarded ==
    ASSUME Placed, Handled, SwitchInv, block # "end", Advance
    PROVE  /\ block' \in GuardedBlocks \cup {"end"}
           /\ raised' = raised
           /\ (Now = "on" \/ (Powered(block, at) /\ Now # "off")) => Powered(block', at')
           /\ (Draining(block, at) /\ Now # "off") => Draining(block', at')
<1>1. block \in GuardedBlocks /\ Guards(block, at)
  BY GuardHere
<1>2. Stages \cup {"final"} \subseteq GuardedBlocks
  BY DEF Stages, GuardedBlocks, ZeroBlocks
<1>3. CASE at < Len(Steps) /\ block' = block /\ at' = at + 1
  BY <1>1, <1>3, AdvanceEnters DEF Guards, Now, Steps
<1>4. CASE at = Len(Steps) /\ at' = 1
  <2>1. ~(at < Len(Steps))
    BY <1>4, RowsKnown DEF Placed, Row, Steps
  <2>2. /\ Blocks[block].next \in GuardedBlocks \cup {"more", "end"}
        /\ (Now = "on" \/ (Powered(block, at) /\ Now # "off"))
             => Blocks[block].next # "more" /\ Powered(Blocks[block].next, 1)
        /\ (Draining(block, at) /\ Now # "off")
             => Blocks[block].next # "more" /\ Draining(Blocks[block].next, 1)
    BY <1>1, <2>1 DEF Guards, Now, Steps
  <2>3. /\ raised' = raised
        /\ \/ block' = Blocks[block].next
           \/ Blocks[block].next = "more" /\ block' \in Stages \cup {"final"}
        /\ block' \in Labels
    BY <1>4, <2>1, AdvanceEnters
  <2>4. "more" \notin Labels
    BY DEF Labels, Stages
  <2>5. CASE block' = Blocks[block].next
    BY <1>4, <2>2, <2>3, <2>4, <2>5
  <2>6. CASE Blocks[block].next = "more" /\ block' \in Stages \cup {"final"}
    BY <1>2, <2>2, <2>3, <2>6
  <2> QED
    BY <2>3, <2>5, <2>6
<1> QED
  BY <1>3, <1>4, AdvanceEnters

LEMMA RaiseGuarded ==
    ASSUME Placed, Handled, SwitchInv, block # "end", NEW what, Raise(what)
    PROVE  /\ block' \in GuardedBlocks \cup {"end"}
           /\ raised' = TRUE \/ (raised' = raised /\ Now # "on" /\ ~Powered(block, at))
           /\ (Now = "on" \/ Powered(block, at))
                => Powered(block', at') \/ Draining(block', at')
<1>1. block \in GuardedBlocks /\ Guards(block, at)
  BY GuardHere
<1>2. Stages \cup {"final"} \subseteq GuardedBlocks
  BY DEF Stages, GuardedBlocks, ZeroBlocks
<1>3. /\ Blocks[block].next \in GuardedBlocks \cup {"more", "end"}
      /\ Blocks[block].catch \in GuardedBlocks \cup {"end"}
      /\ (Now = "on" \/ Powered(block, at))
           => /\ Blocks[block].swallows = {}
              /\ Powered(Blocks[block].catch, 1) \/ Draining(Blocks[block].catch, 1)
  BY <1>1 DEF Guards, Now, Steps
<1>4. CASE what \in Blocks[block].swallows
  <2>1. /\ raised' = raised /\ block' \in Labels
        /\ \/ block' = Blocks[block].next
           \/ Blocks[block].next = "more" /\ block' \in Stages \cup {"final"}
    BY <1>4, RaiseEnters
  <2>2. "more" \notin Labels
    BY DEF Labels, Stages
  <2>3. Now # "on" /\ ~Powered(block, at)
    BY <1>3, <1>4
  <2> QED
    BY <1>2, <1>3, <2>1, <2>2, <2>3
<1>5. CASE what \notin Blocks[block].swallows
  BY <1>3, <1>5, RaiseEnters
<1> QED
  BY <1>4, <1>5

(* What a command does to the output.                                      *)
LEMMA OutputEffect ==
    ASSUME Placed, Handled, SwitchInv, block # "end", TakesEffect
    PROVE  /\ Now = "on" => output' = TRUE
           /\ Now = "off" => output' = FALSE
           /\ Now \notin {"on", "off"} => output' = output
<1>1. Now \notin {"tell_on", "tell_off"}
  BY GuardHere DEF Guards, Now, Steps
<1> QED
  BY <1>1 DEF TakesEffect, Offs

(* A step that goes on.                                                    *)
LEMMA SwitchForward ==
    ASSUME Placed, SwitchInv, Handled, Step \/ OpenDeaf \/ GoesUnnoticed
    PROVE  SwitchInv'
<1>1. block # "end" /\ Advance /\ UNCHANGED before
  BY DEF Step, OpenDeaf, GoesUnnoticed, Running
<1>2. Guards(block, at) /\ hits \in Nat
  BY <1>1, GuardHere DEF Placed
<1>3. /\ Now \notin {"tell_on", "tell_off", "tell_I"}
      /\ (Now = "on" \/ Powered(block, at)) => Now \notin Local \cup Opens
      /\ Draining(block, at) => Now # "on"
  BY <1>2 DEF Guards, Now, Steps
<1>4. CASE Step
  <2>1. hits' = hits /\ (deaf' => deaf)
    BY <1>4 DEF Step
  <2>2. CASE deaf
    <3>1. output' = output /\ Now \in Local \cup Opens \cup Unheard
      BY <1>4, <2>2 DEF Step, supply
    <3>2. Now \notin {"on", "off"}
      BY <3>1 DEF Local, Opens, Unheard
    <3> QED
      BY <1>1, <1>2, <2>1, <2>2, <3>1, <3>2, AdvanceGuarded DEF SwitchInv, Handled, before
  <2>3. CASE ~deaf
    <3>1. TakesEffect /\ ~deaf'
      BY <1>4, <2>3 DEF Step
    <3> QED
      BY <1>1, <1>2, <1>3, <2>1, <2>3, <3>1, AdvanceGuarded, OutputEffect
         DEF SwitchInv, Handled, before
  <2> QED
    BY <2>2, <2>3
<1>5. CASE OpenDeaf
  <2>1. /\ Now = "open" /\ hits' = hits + 1 /\ output' = output
    BY <1>5 DEF OpenDeaf, supply
  <2>2. ~Powered(block, at)
    BY <1>3, <2>1 DEF Opens
  <2> QED
    BY <1>1, <1>2, <2>1, <2>2, AdvanceGuarded DEF SwitchInv, Handled, before
<1>6. CASE GoesUnnoticed
  <2>1. /\ hits' = hits + 1 /\ output' = output /\ deaf' = deaf
        /\ Now \in Unheard
    BY <1>6 DEF GoesUnnoticed, supply
  <2>2. Now # "off"
    BY <2>1 DEF Unheard
  <2> QED
    BY <1>1, <1>2, <2>1, <2>2, AdvanceGuarded DEF SwitchInv, Handled, before
<1> QED
  BY <1>4, <1>5, <1>6

(* A step that raises.                                                     *)
LEMMA SwitchBack ==
    ASSUME Placed, SwitchInv, Handled, DeafFails \/ CallFails \/ CheckFails \/ Interrupted
    PROVE  SwitchInv'
<1>1. PICK what \in {"fault", "ctrl_c"} : Raise(what)
  BY DEF DeafFails, CallFails, CheckFails, Interrupted
<1>2. block # "end" /\ UNCHANGED before /\ deaf' = deaf
  BY DEF DeafFails, CallFails, CheckFails, Interrupted, Running
<1>3. Guards(block, at) /\ hits \in Nat
  BY <1>2, GuardHere DEF Placed
<1>4. /\ (Now = "on" \/ Powered(block, at)) => Now \notin Local \cup Opens
      /\ Draining(block, at) => Now # "check"
  BY <1>3 DEF Guards, Now, Steps
<1>5. CASE DeafFails
  <2>1. deaf /\ output' = output /\ hits' = hits
    BY <1>5 DEF DeafFails, supply
  <2> QED
    BY <1>1, <1>2, <1>3, <2>1, RaiseGuarded DEF SwitchInv, Handled, before
<1>6. CASE CheckFails
  <2>1. Now = "check" /\ output' = output /\ hits' = hits
    BY <1>6 DEF CheckFails, supply
  <2>2. ~Powered(block, at) /\ ~Draining(block, at)
    BY <1>4, <2>1 DEF Local
  <2> QED
    BY <1>1, <1>2, <1>3, <2>1, <2>2, RaiseGuarded DEF SwitchInv, Handled, before
<1>7. CASE CallFails \/ Interrupted
  <2>1. hits' = hits + 1 /\ (output' = output \/ (~deaf /\ TakesEffect))
    BY <1>7 DEF CallFails, Interrupted, supply
  <2>2. \/ output' = output
        \/ ~deaf /\ Now = "on"
        \/ output' = FALSE
    BY <1>2, <2>1, OutputEffect
  <2>3. /\ block' \in GuardedBlocks \cup {"end"}
        /\ raised' = TRUE \/ (raised' = raised /\ Now # "on" /\ ~Powered(block, at))
        /\ (Now = "on" \/ Powered(block, at))
             => Powered(block', at') \/ Draining(block', at')
    BY <1>1, <1>2, RaiseGuarded
  <2>4. /\ script' = script /\ wasOn' = wasOn
        /\ hits' # 0 /\ (hits' <= 1 => hits = 0)
        /\ (deaf => hits # 0)
        /\ ~wasOn /\ output /\ (~raised \/ hits = 0) => Powered(block, at)
    BY <1>2, <1>3, <2>1 DEF SwitchInv, before
  <2>5. ~wasOn' /\ output' /\ ~raised' => Powered(block', at')
    BY <2>2, <2>3, <2>4
  <2>6. ~wasOn' /\ output' /\ hits' <= 1
          => ~deaf' /\ (Powered(block', at') \/ Draining(block', at'))
    BY <1>2, <2>2, <2>3, <2>4
  <2> QED
    BY <2>3, <2>4, <2>5, <2>6 DEF SwitchInv
<1> QED
  BY <1>5, <1>6, <1>7

LEMMA SwitchNext ==
    ASSUME Placed, SwitchInv, ScriptsNext
    PROVE  SwitchInv'
<1>1. script' = script
  BY Moves DEF before
<1>2. CASE Handled
  BY <1>2, SwitchForward, SwitchBack DEF ScriptsNext
<1>3. CASE ~Handled
  BY <1>1, <1>3 DEF Handled, SwitchInv
<1> QED
  BY <1>2, <1>3
---------------------------------------------------------------------------
(* The programs with a finally clause.                                     *)

LEMMA FinallyKnown ==
    ASSUME NEW b \in FinallyBlocks
    PROVE  /\ b \in FirstBlocks
                => /\ Blocks[b].next \in FinallyBlocks \ FirstBlocks
                   /\ Blocks[b].catch = "end"
                   /\ Blocks[b].swallows = {}
                   /\ \A i \in 1 .. Len(Blocks[b].steps) :
                         Blocks[b].steps[i] \in {"attach", "read", "wait"}
           /\ b \in LastBlocks
                => /\ Blocks[b].next = "end" /\ Blocks[b].catch = "end"
                   /\ Len(Blocks[b].steps) = 1 /\ Blocks[b].steps[1] = "off"
           /\ b \notin FirstBlocks \cup LastBlocks
                => /\ Blocks[b].next \in FinallyBlocks \ FirstBlocks
                   /\ Blocks[b].catch \in FinallyBlocks \ FirstBlocks
<1> USE DEF FinallyBlocks, FirstBlocks, LastBlocks, Block
<1>1. CASE b \in {"lamp", "capture", "matrix"}
  BY <1>1, FinallyRows DEF lamp_connect, capture_open, matrix_warning
<1>2. CASE b \in {"lamp_off", "capture_off", "points_off"}
  BY <1>2, FinallyRows DEF lamp_finally, capture_finally, matrix_finally
<1>3. CASE b \in {"inrush", "vsweep", "wave", "fixed", "points"}
  BY <1>3, FinallyRows DEF test_inrush, test_vsweep, capture_wave, capture_fixed, matrix_points
<1> QED
  BY <1>1, <1>2, <1>3

LEMMA FinallyNext ==
    ASSUME Placed, FinallyInv, ScriptsNext
    PROVE  FinallyInv'
<1> SUFFICES ASSUME script \in {"lamp", "capture", "matrix"}
             PROVE  FinallyInv'
  BY Moves DEF FinallyInv, before
<1>1. block # "end" /\ script' = script /\ wasOn' = wasOn
  BY Moves DEF before
<1>2. block \in FinallyBlocks /\ at \in 1 .. Len(Steps)
  BY <1>1 DEF FinallyInv, Placed
<1>3. "more" \notin FinallyBlocks /\ "end" \notin FinallyBlocks
  BY DEF FinallyBlocks, FirstBlocks, LastBlocks
<1>4. \/ block' = block /\ at < Len(Steps)
      \/ block' = Blocks[block].next
      \/ block' = Blocks[block].catch
  <2>1. Blocks[block].next # "more"
    BY <1>2, <1>3, FinallyKnown
  <2>2. CASE Advance
    BY <1>1, <2>1, <2>2, AdvanceEnters
  <2>3. CASE \E what \in {"fault", "ctrl_c"} : Raise(what)
    BY <1>1, <2>1, <2>3, RaiseEnters
  <2> QED
    BY <2>2, <2>3, Moves
<1>5. CASE block \in FirstBlocks
  <2>1. Now \in {"attach", "read", "wait"}
    BY <1>2, <1>5, FinallyKnown DEF Now, Steps
  <2>2. output' = output
    BY <2>1 DEF ScriptsNext, Step, OpenDeaf, DeafFails, CallFails, GoesUnnoticed, CheckFails,
                Interrupted, TakesEffect, Offs, supply
  <2> QED
    BY <1>1, <1>2, <1>3, <1>4, <1>5, <2>2, FinallyKnown DEF FinallyInv
<1>6. CASE block \in LastBlocks
  <2>1. /\ Len(Steps) = 1 /\ Steps[1] = "off"
        /\ Blocks[block].next = "end" /\ Blocks[block].catch = "end"
    BY <1>2, <1>6, FinallyKnown DEF Steps
  <2>2. at = 1 /\ Now = "off"
    BY <1>2, <2>1 DEF Now
  <2>3. block' = "end"
    BY <1>4, <2>1, <2>2
  <2>4. output' = FALSE \/ lastOff' = "failed"
    BY <2>2 DEF ScriptsNext, Step, OpenDeaf, DeafFails, CallFails, GoesUnnoticed, CheckFails,
                Interrupted, TakesEffect, Tried, Offs, Local, Opens, Unheard
  <2> QED
    BY <1>1, <2>3, <2>4 DEF FinallyInv
<1>7. CASE block \notin FirstBlocks \cup LastBlocks
  BY <1>1, <1>2, <1>3, <1>4, <1>7, FinallyKnown DEF FinallyInv
<1> QED
  BY <1>5, <1>6, <1>7

---------------------------------------------------------------------------
(* The runner's probe.                                                     *)

LEMMA ZeroSteps5 ==
    ASSUME NEW b \in ZeroBlocks
    PROVE  /\ Len(Blocks[b].steps) = 5
           /\ Blocks[b].steps[2] = "V_zero" /\ Blocks[b].steps[3] = "I"
           /\ Blocks[b].steps[4] = "off" /\ Blocks[b].steps[5] = "read"
<1>1. Blocks[b].steps = <<"open", "V_zero", "I", "off", "read">>
  BY RunnerRows DEF ZeroBlocks, safe_zero, ZeroSteps, Block
<1> QED
  BY <1>1

LEMMA ProbeSteps ==
    \A i \in 1 .. Len(Blocks["measure"].steps) :
        Blocks["measure"].steps[i] \in {"open", "I", "on", "V_low", "read", "off"}
BY RunnerRows DEF Stage, Block

LEMMA ZeroNext ==
    ASSUME Placed, ZeroInv, ScriptsNext
    PROVE  ZeroInv'
<1>1. block # "end" /\ at \in 1 .. Len(Steps) /\ Row(block)
  BY Moves, RowsKnown DEF Placed
<1>2. CASE \E what \in {"fault", "ctrl_c"} : Raise(what)
  <2>1. at' = 1 /\ ~zeroed'
    BY <1>1, <1>2, RaiseEnters
  <2> QED
    BY <2>1 DEF ZeroInv
<1>3. CASE Advance /\ ~(\E what \in {"fault", "ctrl_c"} : Raise(what))
  <2>1. Step \/ OpenDeaf \/ GoesUnnoticed
    BY <1>3 DEF ScriptsNext, DeafFails, CallFails, CheckFails, Interrupted
  <2>2. Now = "read" => volt' = volt
    BY <2>1 DEF Step, OpenDeaf, GoesUnnoticed, TakesEffect, supply
  <2>3. block' \in ZeroBlocks /\ at' >= 3 => ~deaf' /\ volt' = "zero"
    <3> SUFFICES ASSUME block' \in ZeroBlocks, at' >= 3
                 PROVE  ~deaf' /\ volt' = "zero"
      OBVIOUS
    <3>1. block' = block /\ at' = at + 1 /\ at < Len(Steps)
      BY <1>1, <1>3, AdvanceEnters
    <3>2. at \in 2 .. 4 /\ block \in ZeroBlocks
      <4>1. block \in ZeroBlocks
        BY <3>1
      <4>2. Len(Steps) = 5
        BY <4>1, ZeroSteps5 DEF Steps
      <4> QED
        BY <1>1, <3>1, <4>1, <4>2
    <3>3. Now \in {"V_zero", "I", "off"} /\ (at = 2 => Now = "V_zero")
      BY <3>2, ZeroSteps5 DEF Now, Steps
    <3>4. Step
      BY <2>1, <3>3 DEF OpenDeaf, GoesUnnoticed, Unheard
    <3>5. ~deaf /\ deaf' = deaf /\ TakesEffect
      BY <3>3, <3>4 DEF Step, Local, Opens, Unheard
    <3>6. CASE at = 2
      BY <3>3, <3>5, <3>6 DEF TakesEffect
    <3>7. CASE at >= 3
      BY <3>2, <3>3, <3>5, <3>7 DEF TakesEffect, ZeroInv
    <3> QED
      BY <3>2, <3>6, <3>7
  <2>4. block' = "measure" /\ zeroed' => volt' # "high"
    <3> SUFFICES ASSUME block' = "measure", zeroed'
                 PROVE  volt' # "high"
      OBVIOUS
    <3>1. CASE block = "measure"
      <4>1. zeroed
        BY <1>3, <3>1 DEF Advance
      <4>2. Now \in {"open", "I", "on", "V_low", "read", "off"}
        BY <1>1, <3>1, ProbeSteps DEF Now, Steps
      <4>3. volt' = volt \/ volt' = "low"
        BY <2>1, <4>2 DEF Step, OpenDeaf, GoesUnnoticed, TakesEffect, supply
      <4> QED
        BY <3>1, <4>1, <4>3 DEF ZeroInv
    <3>2. CASE block # "measure"
      <4>1. at = Len(Steps) /\ Blocks[block].next = "more"
        BY <1>1, <1>3, <3>2, AdvanceEnters DEF Row, Stages
      <4>2. block = "zero" /\ block \in ZeroBlocks
        BY <1>1, <4>1 DEF Row, ZeroBlocks
      <4>3. at = 5 /\ Now = "read"
        BY <4>1, <4>2, ZeroSteps5 DEF Now, Steps
      <4>4. volt = "zero"
        BY <4>2, <4>3 DEF ZeroInv
      <4> QED
        BY <2>2, <4>3, <4>4
    <3> QED
      BY <3>1, <3>2
  <2> QED
    BY <2>3, <2>4 DEF ZeroInv
<1> QED
  BY <1>2, <1>3, Moves

---------------------------------------------------------------------------
(* The one-shot commands.                                                  *)

LEMMA CommandSteps ==
    /\ Blocks["cli_on"] = [steps |-> Blocks["cli_on"].steps, next |-> "end",
                           swallows |-> {}, catch |-> "end"]
    /\ Blocks["cli_off"] = [steps |-> Blocks["cli_off"].steps, next |-> "end",
                           swallows |-> {}, catch |-> "end"]
    /\ Blocks["cli_cycle"] = [steps |-> Blocks["cli_cycle"].steps, next |-> "end",
                           swallows |-> {}, catch |-> "end"]
    /\ Len(Blocks["cli_on"].steps) = 3 /\ Blocks["cli_on"].steps[2] = "on"
    /\ Blocks["cli_on"].steps[3] = "read"
    /\ Len(Blocks["cli_off"].steps) = 3 /\ Blocks["cli_off"].steps[2] = "off"
    /\ Blocks["cli_off"].steps[3] = "read"
    /\ Len(Blocks["cli_cycle"].steps) = 4 /\ Blocks["cli_cycle"].steps[3] = "on"
    /\ Blocks["cli_cycle"].steps[4] = "read"
BY CommandRows DEF Command, Block

LEMMA CommandNext ==
    ASSUME Placed, CommandInv, ScriptsNext
    PROVE  CommandInv'
<1> SUFFICES ASSUME script \in {"cli_on", "cli_off", "cli_cycle"}
             PROVE  CommandInv'
  BY Moves DEF CommandInv, before
<1>1. block # "end" /\ script' = script /\ at \in 1 .. Len(Steps)
  BY Moves DEF before, Placed
<1>2. block = script
  BY <1>1 DEF CommandInv
<1>3. /\ Blocks[block].next = "end" /\ Blocks[block].catch = "end"
      /\ Blocks[block].swallows = {}
  BY <1>2, CommandSteps
<1>4. CASE \E what \in {"fault", "ctrl_c"} : Raise(what)
  <2>1. block' = "end" /\ raised' = TRUE
    BY <1>1, <1>3, <1>4, RaiseEnters
  <2> QED
    BY <1>1, <2>1 DEF CommandInv
<1>5. CASE Advance /\ ~(\E what \in {"fault", "ctrl_c"} : Raise(what))
  <2>1. Step \/ OpenDeaf \/ GoesUnnoticed
    BY <1>5 DEF ScriptsNext, DeafFails, CallFails, CheckFails, Interrupted
  <2>2. /\ raised' = raised
        /\ \/ at < Len(Steps) /\ block' = block /\ at' = at + 1
           \/ at = Len(Steps) /\ block' = "end"
    BY <1>1, <1>3, <1>5, AdvanceEnters
  <2>3. (Now = "on" => output' = TRUE) /\ (Now = "off" => output' = FALSE)
    BY <2>1 DEF Step, OpenDeaf, GoesUnnoticed, TakesEffect, Offs, Local, Opens, Unheard
  <2>4. Now = "read" => output' = output
    BY <2>1 DEF Step, OpenDeaf, GoesUnnoticed, TakesEffect, Offs, Local, Opens, Unheard, supply
  <2>5. CASE script = "cli_on"
    <3>1. /\ Len(Steps) = 3 /\ (at = 2 => Now = "on") /\ (at = 3 => Now = "read")
      BY <1>2, <2>5, CommandSteps DEF Now, Steps
    <3>2. at = 3 /\ ~raised => output
      BY <2>5 DEF CommandInv
    <3>3. at' >= 3 \/ block' = "end" => at \in 2 .. 3
      BY <1>1, <2>2, <3>1
    <3> QED
      BY <1>1, <1>2, <2>2, <2>3, <2>4, <2>5, <3>1, <3>2, <3>3 DEF CommandInv
  <2>6. CASE script = "cli_off"
    <3>1. /\ Len(Steps) = 3 /\ (at = 2 => Now = "off") /\ (at = 3 => Now = "read")
      BY <1>2, <2>6, CommandSteps DEF Now, Steps
    <3>2. at = 3 /\ ~raised => ~output
      BY <2>6 DEF CommandInv
    <3>3. at' >= 3 \/ block' = "end" => at \in 2 .. 3
      BY <1>1, <2>2, <3>1
    <3> QED
      BY <1>1, <1>2, <2>2, <2>3, <2>4, <2>6, <3>1, <3>2, <3>3 DEF CommandInv
  <2>7. CASE script = "cli_cycle"
    <3>1. /\ Len(Steps) = 4 /\ (at = 3 => Now = "on") /\ (at = 4 => Now = "read")
      BY <1>2, <2>7, CommandSteps DEF Now, Steps
    <3>2. at = 4 /\ ~raised => output
      BY <2>7 DEF CommandInv
    <3>3. at' >= 4 \/ block' = "end" => at \in 3 .. 4
      BY <1>1, <2>2, <3>1
    <3> QED
      BY <1>1, <1>2, <2>2, <2>3, <2>4, <2>7, <3>1, <3>2, <3>3 DEF CommandInv
  <2> QED
    BY <2>5, <2>6, <2>7
<1> QED
  BY <1>4, <1>5, Moves

---------------------------------------------------------------------------

LEMMA ScriptsStep == ScriptsInv /\ [ScriptsNext]_scriptVars => ScriptsInv'
<1>1. ASSUME ScriptsInv, ScriptsNext
      PROVE  ScriptsInv'
  BY <1>1, PlacedNext, SwitchNext, FinallyNext, ZeroNext, CommandNext DEF ScriptsInv
<1>2. ASSUME ScriptsInv, UNCHANGED scriptVars
      PROVE  ScriptsInv'
  BY <1>2 DEF ScriptsInv, Placed, SwitchInv, Handled, FinallyInv, ZeroInv, CommandInv, Steps,
              scriptVars, before, supply
<1> QED
  BY <1>1, <1>2

LEMMA ScriptsInvariant == ScriptsSpec => []ScriptsInv
BY ScriptsBegin, ScriptsStep, PTL DEF ScriptsSpec

(* The guarded waveform's safe_set_voltage and safe_output_off, the lamp   *)
(* test's and the capture's finally, the runner's safe_zero: whatever      *)
(* stages run, one failure or one Ctrl-C, wherever it falls, leaves no     *)
(* output on that was off before.                                          *)
THEOREM ScriptsOneFaultEndsOff == ScriptsSpec => []OneFaultEndsOff
<1>1. ScriptsInv => OneFaultEndsOff
  BY NotRunning DEF ScriptsInv, SwitchInv, Handled, OneFaultEndsOff, Running
<1> QED
  BY <1>1, ScriptsInvariant, PTL

(* The finally of the lamp test, the capture and the timing matrix is left *)
(* with the output on only when its own command failed, however many       *)
(* failures and interrupts came before.                                    *)
THEOREM ScriptsOnlyFailedOffLeavesOn == ScriptsSpec => []OnlyFailedOffLeavesOn
<1>1. ScriptsInv => OnlyFailedOffLeavesOn
  BY DEF ScriptsInv, FinallyInv, OnlyFailedOffLeavesOn, Running
<1> QED
  BY <1>1, ScriptsInvariant, PTL

(* safe_zero, when it has done all its steps, has also cleared the way for *)
(* the load probe, in whatever order the stages run.                       *)
THEOREM ScriptsProbeLowAfterZero == ScriptsSpec => []ProbeLowAfterZero
<1>1. ScriptsInv => ProbeLowAfterZero
  BY DEF ScriptsInv, ZeroInv, ProbeLowAfterZero
<1> QED
  BY <1>1, ScriptsInvariant, PTL

(* A program that swallows its failures (safe_zero, the waveform's safe_*  *)
(* functions, the capture's finally) swallows none that leaves the output  *)
(* other than it was asked to be, and reports success.                     *)
THEOREM ScriptsExitZeroMeansDone == ScriptsSpec => []ExitZeroMeansDone
<1>1. ScriptsInv => ExitZeroMeansDone
  BY NotRunning DEF ScriptsInv, SwitchInv, CommandInv, Handled, ExitZeroMeansDone, Running
<1> QED
  BY <1>1, ScriptsInvariant, PTL

---------------------------------------------------------------------------
(* The command line as a whole.                                            *)

(* main of awto_riden.py flashes, discovers or sends a command, and each   *)
(* bench script is a program of its own: whatever is started, the flasher, *)
(* the discovery and the scripts keep to their own specifications, so that *)
(* what is proved of each holds of the command line.                       *)
THEOREM CommandLineApart == Spec => FlashSpec /\ DiscoverySpec /\ ScriptsSpec
<1>1. Init => FlashInit /\ DiscoveryInit /\ ScriptsInit
  BY DEF Init
<1>2. [Next]_toolVars
        => [FlashNext]_flashVars /\ [DiscoveryNext]_scanVars /\ [ScriptsNext]_scriptVars
  BY DEF Next, Flash, Discover, RunScript, toolVars
<1> QED
  BY <1>1, <1>2, PTL DEF Spec, FlashSpec, DiscoverySpec, ScriptsSpec
=============================================================================
