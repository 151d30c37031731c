----------------------------- MODULE McpServer -----------------------------
(***************************************************************************)
(* mcp/mcp_server.py: the tools of a language model's client, on a         *)
(* registry of RidenWorkers.  main registers the supplies it is told of    *)
(* and opens them, or, told of none, registers those a scan has found and  *)
(* leaves them closed until rd_connect approves each one.  A tool is a     *)
(* plain function, which FastMCP calls on its event loop: the next call    *)
(* waits until it has returned.  What runs beside a tool is the log thread *)
(* of each worker, which only reads.  The process may end at any moment    *)
(* and be started again; the supplies stay as they are.                    *)
(***************************************************************************)
EXTENDS PsuRegistry

VARIABLES
    server,      (* "down", "ready" for a call, or "busy" with one         *)
    discovered,  (* _auto_discovered: main was given no supply             *)
    logging,     (* per supply: does its log loop run?                     *)
    call,        (* the call under way, or the last one                    *)
    approved,    (* the supplies named to main or to rd_connect            *)
    written      (* the supplies this process has written to               *)

mandate == <<discovered, approved>>
mcpVars == <<server, mandate, registry, logging, call, written>>

NoCall == [tool |-> "none", psu |-> Psus[1], next |-> 1, clear |-> TRUE]

McpInit ==
    /\ server = "down"
    /\ discovered = FALSE
    /\ connected = [u \in Units |-> FALSE]
    /\ power \in [Units -> BOOLEAN]
    /\ logging = [u \in Units |-> FALSE]
    /\ call = NoCall
    /\ approved = {}
    /\ written = {}

---------------------------------------------------------------------------
(* The steps of the tools.  Where the supply is not connected, "ensure"    *)
(* raises; where it is, "have" ends rd_connect.  One tool stands for all   *)
(* that do the same to connection, output and log: rd_status for those     *)
(* that only read, rd_set_voltage for those that write registers in one    *)
(* section, rd_log_status for rd_log_current, rd_waveform for rd_sine_wave,*)
(* rd_inrush_capture for rd_vsweep and rd_power_cycle for rd_diff_scan     *)
(* (WorkerCommands has each of their programs).                            *)
_ensure_connected(u) == <<Do("ensure", u)>>

rd_all_off == ForEachPsu("off")
rd_disconnect(u) == <<Do("close", u)>>
rd_connect(u) == <<Do("have", u), Do("open", u)>>
rd_status(u) == _ensure_connected(u) \o <<Do("read", u)>>
rd_set_voltage(u) == _ensure_connected(u) \o <<Do("write", u)>>
rd_output(u, to) == _ensure_connected(u) \o <<Do(to, u)>>
rd_power_cycle(u) == _ensure_connected(u) \o <<Do("off", u), Do("on", u)>>
rd_log_status(u) == _ensure_connected(u) \o <<Do("log", u)>>
rd_log_stop(u) == _ensure_connected(u) \o <<Do("stop log", u)>>
rd_waveform(u) ==
    _ensure_connected(u) \o <<Do("on", u), Try("write", u), Do("write", u), Do("off", u)>>
rd_inrush_capture(u) ==
    _ensure_connected(u) \o <<Do("off", u), Do("write", u), Do("on", u), Do("off", u)>>

ToolProgram(c) ==
    CASE c.tool = "rd_all_off" -> rd_all_off
      [] c.tool = "rd_connect" -> rd_connect(c.psu)
      [] c.tool = "rd_disconnect" -> rd_disconnect(c.psu)
      [] c.tool = "rd_status" -> rd_status(c.psu)
      [] c.tool = "rd_set_voltage" -> rd_set_voltage(c.psu)
      [] c.tool = "rd_output(on)" -> rd_output(c.psu, "on")
      [] c.tool = "rd_output(off)" -> rd_output(c.psu, "off")
      [] c.tool = "rd_power_cycle" -> rd_power_cycle(c.psu)
      [] c.tool = "rd_log_status" -> rd_log_status(c.psu)
      [] c.tool = "rd_log_stop" -> rd_log_stop(c.psu)
      [] c.tool = "rd_waveform" -> rd_waveform(c.psu)
      [] c.tool = "rd_inrush_capture" -> rd_inrush_capture(c.psu)

Tools == {"rd_all_off", "rd_connect", "rd_disconnect", "rd_status", "rd_set_voltage",
          "rd_output(on)", "rd_output(off)", "rd_power_cycle", "rd_log_status",
          "rd_log_stop", "rd_waveform", "rd_inrush_capture"}

---------------------------------------------------------------------------
(* main, with the supplies on its command line, or with the port it        *)
(* guesses when a scan has found none: each is opened, and one that cannot *)
(* be is registered all the same.  It goes on unless every open has        *)
(* raised; one that a silent supply made return counts.                    *)
MainConfigured ==
    /\ server = "down"
    /\ server' = "ready"
    /\ discovered' = FALSE
    /\ approved' = Units
    /\ connected' \in [Units -> BOOLEAN]
    /\ written' = {}
    /\ UNCHANGED <<power, logging, call>>

(* main, with none: what the scan finds is registered and stays closed.    *)
MainOpensAll ==
    /\ server = "down"
    /\ server' = "ready"
    /\ discovered' = TRUE
    /\ approved' = {}
    /\ connected' = [u \in Units |-> TRUE]
    /\ written' = {}
    /\ UNCHANGED <<power, logging, call>>

MainDiscovered ==
    /\ server = "down"
    /\ server' = "ready"
    /\ discovered' = TRUE
    /\ approved' = {}
    /\ written' = {}
    /\ UNCHANGED <<registry, logging, call>>

(* The client goes away or the process is killed: nothing is switched off. *)
McpEnds ==
    /\ server # "down"
    /\ server' = "down"
    /\ connected' = [u \in Units |-> FALSE]
    /\ logging' = [u \in Units |-> FALSE]
    /\ call' = NoCall
    /\ UNCHANGED <<mandate, power, written>>

CallTool(tool, u) ==
    /\ server = "ready"
    /\ server' = "busy"
    /\ call' = [NoCall EXCEPT !.tool = tool, !.psu = u]
    /\ approved' = IF tool = "rd_connect" THEN approved \cup {u} ELSE approved
    /\ UNCHANGED <<discovered, registry, logging, written>>

Here == ToolProgram(call)[call.next]
InTool == server = "busy" /\ call.next <= Len(ToolProgram(call))

ToNext(n) == call' = [call EXCEPT !.next = @ + n] /\ UNCHANGED server

(* The tool raises what _raise_tool_error makes of the failure.            *)
ToolRaises == call' = NoCall /\ server' = "ready"

ToolTests ==
    /\ InTool
    /\ Here.what \in Tests
    /\ IF connected[Here.psu] = (Here.what # "have") THEN ToNext(1)
       ELSE CASE Here.what = "ensure" -> ToolRaises
              [] Here.what = "skip" -> ToNext(2)
              [] Here.what = "have" -> ToNext(Len(ToolProgram(call)))
    /\ UNCHANGED <<mandate, registry, logging, written>>

Writing ==
    written' = IF Here.what \in Writes /\ connected[Here.psu]
               THEN written \cup {Here.psu} ELSE written

(* One section of the worker.                                              *)
InWorker ==
    /\ InTool
    /\ Here.what \in Writes \cup {"read", "open", "log", "stop log"}
    /\ Runs(Here)
    /\ logging' = [logging EXCEPT ![Here.psu] =
                      Here.what = "log" \/ (@ /\ Here.what # "stop log")]
    /\ Writing
    /\ ToNext(1)
    /\ UNCHANGED mandate

(* RidenWorker.close ends the log loop before it drops the connection.     *)
DisconnectsAtOnce ==
    /\ InTool
    /\ Here.what = "close"
    /\ connected' = [connected EXCEPT ![Here.psu] = FALSE]
    /\ ToNext(1)
    /\ UNCHANGED <<mandate, power, logging, written>>

Disconnects ==
    /\ InTool
    /\ Here.what = "close"
    /\ logging' = [logging EXCEPT ![Here.psu] = FALSE]
    /\ connected' = [connected EXCEPT ![Here.psu] = FALSE]
    /\ ToNext(1)
    /\ UNCHANGED <<mandate, power, written>>

(* A section that raises; log_start has ended the running loop before it   *)
(* fails to open its file.  rd_all_off lists the error, the waveform       *)
(* counts it, the others raise it.                                         *)
InWorkerFailsUnlisted ==
    /\ InTool
    /\ Here.what \in Writes \cup {"read", "open", "log"}
    /\ RunsInVain(Here)
    /\ logging' = [logging EXCEPT ![Here.psu] = @ /\ Here.what # "log"]
    /\ Writing
    /\ IF Here.goesOn THEN ToNext(1) ELSE ToolRaises
    /\ UNCHANGED mandate

InWorkerFails ==
    /\ InTool
    /\ Here.what \in Writes \cup {"read", "open", "log"}
    /\ RunsInVain(Here)
    /\ logging' = [logging EXCEPT ![Here.psu] = @ /\ Here.what # "log"]
    /\ Writing
    /\ IF Here.goesOn
       THEN call' = [call EXCEPT !.next = @ + 1, !.clear = FALSE] /\ UNCHANGED server
       ELSE ToolRaises
    /\ UNCHANGED mandate

(* RidenWorker.open returns although the supply is silent.                 *)
OpensSilent ==
    /\ InTool
    /\ Here.what = "open"
    /\ ToNext(1)
    /\ UNCHANGED <<mandate, registry, logging, written>>

ToolReturns ==
    /\ server = "busy"
    /\ call.next > Len(ToolProgram(call))
    /\ server' = "ready"
    /\ UNCHANGED <<mandate, registry, logging, call, written>>

McpNext ==
    \/ MainConfigured \/ MainDiscovered \/ McpEnds
    \/ \E tool \in Tools, u \in Units : CallTool(tool, u)
    \/ ToolTests \/ InWorker \/ Disconnects \/ InWorkerFails \/ OpensSilent \/ ToolReturns

McpSpec == McpInit /\ [][McpNext]_mcpVars

---------------------------------------------------------------------------
(* A supply the server found by itself is not written to before rd_connect *)
(* has named it, whatever tools are called and whatever fails.             *)
ApprovedFirst == written \subseteq approved

(* When rd_all_off has returned without an error in its list, and until    *)
(* the next call, every connected supply is off.                           *)
AllOffReturnMeansOff ==
    (server = "ready" /\ call.tool = "rd_all_off" /\ call.clear)
        => \A u \in Units : connected[u] => ~power[u]

(* A log loop that runs can be ended by rd_log_stop, which refuses a       *)
(* supply that is not connected.                                           *)
LogsStoppable == \A u \in Units : logging[u] => connected[u]
=============================================================================
