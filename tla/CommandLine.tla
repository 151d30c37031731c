----------------------------- MODULE CommandLine -----------------------------
(***************************************************************************)
(* The programs of the repository that own their serial port while they    *)
(* run: one of them runs at a time, and does one thing.  awto_riden.main   *)
(* flashes, discovers or sends one command; the bench scripts are programs *)
(* of their own.  The three share no state, so a behaviour of this module  *)
(* is a behaviour of one of them.                                          *)
(***************************************************************************)
EXTENDS FirmwareFlash, Discovery, BenchScripts

VARIABLE tool    (* the program that was started (constant)                *)

toolVars == <<tool, flashVars, scanVars, scriptVars>>

(* What is not started keeps one fixed initial state.                      *)
FlashIdle == mode = "app" /\ unit = CHOOSE m \in Models : TRUE
ScriptIdle == script = "cli_query" /\ ~output /\ volt = "zero"

Init ==
    /\ tool \in {"flash", "discover", "script"}
    /\ FlashInit
    /\ DiscoveryInit
    /\ ScriptsInit
    /\ tool # "flash" => FlashIdle
    /\ scanning = (tool = "discover")
    /\ tool # "script" => ScriptIdle

Flash ==
    /\ tool = "flash"
    /\ FlashNext
    /\ UNCHANGED <<tool, scanVars, scriptVars>>

Discover ==
    /\ tool = "discover"
    /\ DiscoveryNext
    /\ UNCHANGED <<tool, flashVars, scriptVars>>

RunScript ==
    /\ tool = "script"
    /\ ScriptsNext
    /\ UNCHANGED <<tool, flashVars, scanVars>>

Next == Flash \/ Discover \/ RunScript

Spec == Init /\ [][Next]_toolVars
FairSpec == Spec /\ FlashFairness /\ DiscoveryFairness
=============================================================================
