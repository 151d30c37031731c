---------------------------- MODULE SocketServer ----------------------------
(***************************************************************************)
(* parked/riden_server.py with parked/riden_client.py and protocol.py: one *)
(* process owns the supplies and serves them on a Unix socket.  A client   *)
(* opens a connection per request; the accept loop gives each connection a *)
(* daemon thread, which dispatches the request to the RidenWorker it names *)
(* and replies.  The server is started, told to stop, killed and started   *)
(* again.  A client that gives up waiting changes nothing here: its        *)
(* request is carried out all the same, and a second try is a request of   *)
(* its own.  A slot whose request is answered takes the next one, so the   *)
(* number of slots bounds the requests at a time, never their number.      *)
(***************************************************************************)
EXTENDS PsuRegistry

CONSTANTS Commands,    (* per slot of a client: the commands it may send   *)
          MaxStarts    (* bound: starts of the server                      *)

Slots == DOMAIN Commands

ASSUME ServerAssumption == MaxStarts \in Nat

VARIABLES
    up,          (* where the server's main thread is                      *)
    starts,      (* starts so far                                          *)
    ending,      (* how the last process ended                             *)
    event,       (* _shutdown_event                                        *)
    sockFile,    (* does the path of the socket exist?                     *)
    pidFile,     (* does the pid file?                                     *)
    req          (* per slot: the request, its connection and its handler  *)

process == <<up, starts, ending, event, sockFile, pidFile>>
serverVars == <<process, registry, req>>

(* "at" is where the connection is, "next" the handler's next step; "clear"*)
(* says that no step has failed and that no other request has switched or  *)
(* connected a supply since this one came (kept for all_off only).         *)
NoRequest == [at |-> "none", cmd |-> "ping", psu |-> Psus[1], next |-> 1, clear |-> TRUE]

(* The supplies were left on.                                              *)
ServerInit ==
    /\ up = "down"
    /\ starts = 0
    /\ ending = "none"
    /\ event = FALSE
    /\ sockFile = FALSE
    /\ pidFile = FALSE
    /\ connected = [u \in Units |-> FALSE]
    /\ power = [u \in Units |-> TRUE]
    /\ req = [s \in Slots |-> NoRequest]

---------------------------------------------------------------------------
(* The steps of the commands.  "have" ends connect when the supply is      *)
(* connected already.                                                      *)
list_psus == ForEachPsu("read")
all_off_first == SubSeq(ForEachPsu("off"), 1, 2)
all_off == ForEachPsu("off")
connect(u) == <<Do("have", u), Do("open", u), Do("read", u)>>
disconnect(u) == <<Do("close", u)>>
query(u) == <<Do("read", u)>>
output(u, to) == <<Do(to, u)>>
power_cycle(u) == <<Do("off", u), Do("on", u)>>
waveform(u) == <<Do("on", u), Try("read", u), Do("off", u)>>

(* log_current, inrush_capture and vsweep are dispatched with names of     *)
(* arguments the worker's methods do not have: TypeError, reported EINVAL. *)
misdispatched(u) == <<Do("reject", u)>>

Program(r) ==
    CASE r.cmd = "list_psus" -> list_psus
      [] r.cmd = "all_off" -> all_off
      [] r.cmd = "connect" -> connect(r.psu)
      [] r.cmd = "disconnect" -> disconnect(r.psu)
      [] r.cmd = "query" -> query(r.psu)
      [] r.cmd = "on" -> output(r.psu, "on")
      [] r.cmd = "off" -> output(r.psu, "off")
      [] r.cmd = "power_cycle" -> power_cycle(r.psu)
      [] r.cmd = "waveform" -> waveform(r.psu)
      [] r.cmd = "vsweep" -> misdispatched(r.psu)
      [] r.cmd = "shutdown" -> <<Do("stop", r.psu)>>
      [] OTHER -> <<>>

---------------------------------------------------------------------------
(* The main thread.                                                        *)

(* main: the workers are opened, some without success; then the pid file.  *)
Start ==
    /\ up = "down"
    /\ starts < MaxStarts
    /\ starts' = starts + 1
    /\ up' = "starting"
    /\ event' = FALSE
    /\ connected' \in [Units -> BOOLEAN]
    /\ pidFile' = TRUE
    /\ ending' = "none"
    /\ UNCHANGED <<sockFile, power, req>>

(* _run_server: the file of an earlier server is removed ...               *)
UnlinkOwnOnly ==
    /\ up = "starting"
    /\ up' = "binding"
    /\ UNCHANGED <<starts, ending, event, sockFile, pidFile, registry, req>>

UnlinkStale ==
    /\ up = "starting"
    /\ up' = "binding"
    /\ sockFile' = FALSE
    /\ UNCHANGED <<starts, ending, event, pidFile, registry, req>>

(* ... and the socket bound, which fails on a path that exists.            *)
Bind ==
    /\ up = "binding"
    /\ up' = IF sockFile THEN "cleanup" ELSE "serving"
    /\ ending' = IF sockFile THEN "bind failed" ELSE ending
    /\ sockFile' = TRUE
    /\ UNCHANGED <<starts, event, pidFile, registry, req>>

(* The loop tests the event, then waits for a connection for a second.     *)
TestEvent ==
    /\ up = "serving"
    /\ up' = IF event THEN "closing" ELSE "accepting"
    /\ UNCHANGED <<starts, ending, event, sockFile, pidFile, registry, req>>

AcceptTimesOut ==
    /\ up = "accepting"
    /\ up' = "serving"
    /\ UNCHANGED <<starts, ending, event, sockFile, pidFile, registry, req>>

Accept(s) ==
    /\ up = "accepting"
    /\ req[s].at = "backlog"
    /\ up' = "serving"
    /\ req' = [req EXCEPT ![s].at = "handled"]
    /\ UNCHANGED <<starts, ending, event, sockFile, pidFile, registry>>

(* The connections that were not accepted are reset.                       *)
Reset == req' = [s \in Slots |-> IF req[s].at = "backlog" THEN NoRequest ELSE req[s]]

CloseSocketOnly ==
    /\ up = "closing"
    /\ up' = "joining"
    /\ Reset
    /\ UNCHANGED <<starts, ending, event, sockFile, pidFile, registry>>

CloseSocket ==
    /\ up = "closing"
    /\ up' = "joining"
    /\ sockFile' = FALSE
    /\ Reset
    /\ UNCHANGED <<starts, ending, event, pidFile, registry>>

(* The handlers are joined, each for five seconds at most.                 *)
JoinedAll ==
    /\ up = "joining"
    /\ \A s \in Slots : req[s].at # "handled"
    /\ up' = "cleanup"
    /\ ending' = "stopped"
    /\ UNCHANGED <<starts, event, sockFile, pidFile, registry, req>>

Joined ==
    /\ up = "joining"
    /\ up' = "cleanup"
    /\ ending' = "stopped"
    /\ UNCHANGED <<starts, event, sockFile, pidFile, registry, req>>

(* main's finally closes the workers, whatever their handlers are at ...   *)
CloseWorkers ==
    /\ up = "cleanup"
    /\ pidFile
    /\ pidFile' = FALSE
    /\ connected' = [u \in Units |-> FALSE]
    /\ UNCHANGED <<up, starts, ending, event, sockFile, power, req>>

(* ... and the process ends, with its threads and what they have opened.   *)
Ends ==
    /\ up' = "down"
    /\ connected' = [u \in Units |-> FALSE]
    /\ req' = [s \in Slots |-> NoRequest]

Exit ==
    /\ up = "cleanup"
    /\ ~pidFile
    /\ Ends
    /\ UNCHANGED <<starts, ending, event, sockFile, pidFile, power>>

(* SIGTERM or SIGINT; SIGKILL, or the machine goes down.                   *)
Signal ==
    /\ up \notin {"down", "cleanup"}
    /\ ~event
    /\ event' = TRUE
    /\ UNCHANGED <<up, starts, ending, sockFile, pidFile, registry, req>>

Kill ==
    /\ up # "down"
    /\ Ends
    /\ ending' = "killed"
    /\ UNCHANGED <<starts, event, sockFile, pidFile, power>>

---------------------------------------------------------------------------
(* The clients and their handlers.                                         *)

(* A client connects and sends its request, or ("hold") sends nothing.  It *)
(* is refused when nobody listens at the path.                             *)
Send(s, name, u) ==
    /\ req[s].at = "none"
    /\ up \in {"serving", "accepting", "closing"}
    /\ req' = [req EXCEPT ![s] = [NoRequest EXCEPT !.at = "backlog", !.cmd = name, !.psu = u]]
    /\ UNCHANGED <<process, registry>>

(* A client that holds its connection, or has its answer, closes it.       *)
Leaves(s) ==
    /\ \/ req[s].at = "ok"
       \/ req[s].at \in {"backlog", "handled"} /\ req[s].cmd = "hold"
    /\ req' = [req EXCEPT ![s] = NoRequest]
    /\ UNCHANGED <<process, registry>>

Now(s) == Program(req[s])[req[s].next]
Running(s) == req[s].at = "handled" /\ req[s].cmd # "hold"
Busy(s) == Running(s) /\ req[s].next <= Len(Program(req[s]))

Spoil(s) == IF req[s].cmd = "all_off" THEN [req[s] EXCEPT !.clear = FALSE] ELSE req[s]

(* The requests after n more steps of slot s; what another one switches or *)
(* connects can undo what an all_off has done.                             *)
After(s, n) ==
    [q \in Slots |->
        IF q = s THEN [req[s] EXCEPT !.next = @ + n]
        ELSE IF Now(s).what \in {"on", "open"} THEN Spoil(q) ELSE req[q]]

(* _dispatch tests is_connected without the worker's lock.                 *)
Test(s) ==
    /\ Busy(s)
    /\ Now(s).what \in Tests
    /\ req' = After(s, IF connected[Now(s).psu] = (Now(s).what = "skip") THEN 1
                       ELSE IF Now(s).what = "skip" THEN 2
                       ELSE Len(Program(req[s])))
    /\ UNCHANGED <<process, registry>>

(* One section of the worker.                                              *)
Section(s) ==
    /\ Busy(s)
    /\ Now(s).what \in Writes \cup {"read", "open", "close", "stop"}
    /\ Runs(Now(s))
    /\ event' = (event \/ Now(s).what = "stop")
    /\ req' = After(s, 1)
    /\ UNCHANGED <<up, starts, ending, sockFile, pidFile>>

(* RidenWorker.open returns although the supply is silent.                 *)
OpenSilent(s) ==
    /\ Busy(s)
    /\ Now(s).what = "open"
    /\ req' = After(s, 1)
    /\ UNCHANGED <<process, registry>>

(* A section that raises: all_off lists the error, the waveform counts it, *)
(* the others reply with it.                                               *)
SectionFails(s) ==
    /\ Busy(s)
    /\ Now(s).what \in Writes \cup {"read", "open", "reject"}
    /\ RunsInVain(Now(s))
    /\ req' = [After(s, 1) EXCEPT ![s] =
                  IF Now(s).goesOn THEN [Spoil(s) EXCEPT !.next = @ + 1] ELSE NoRequest]
    /\ UNCHANGED process

Reply(s) ==
    /\ Running(s)
    /\ req[s].next > Len(Program(req[s]))
    /\ req' = [req EXCEPT ![s] = IF @.cmd = "all_off" THEN [@ EXCEPT !.at = "ok"]
                                 ELSE NoRequest]
    /\ UNCHANGED <<process, registry>>

MainStep ==
    \/ UnlinkStale \/ Bind \/ TestEvent \/ AcceptTimesOut \/ CloseSocket \/ Joined
    \/ CloseWorkers \/ Exit
    \/ \E s \in Slots : Accept(s)

HandlerStep(s) ==
    Test(s) \/ Section(s) \/ OpenSilent(s) \/ SectionFails(s) \/ Reply(s)

ServerNext ==
    \/ Start \/ MainStep \/ Signal \/ Kill
    \/ \E s \in Slots :
          \/ \E name \in Commands[s], u \in Units : Send(s, name, u)
          \/ Leaves(s)
          \/ HandlerStep(s)

ServerSpec == ServerInit /\ [][ServerNext]_serverVars

(* The main thread runs.  A handler need not: its client may send nothing. *)
ServerFairness == WF_serverVars(MainStep)
FairServerSpec == ServerSpec /\ ServerFairness

---------------------------------------------------------------------------
(* all_off has replied without errors, and meanwhile no other request has  *)
(* switched or connected a supply: every connected supply is off.          *)
AllOffReplyMeansOff ==
    \A s \in Slots :
        req[s].at = "ok" /\ req[s].clear => \A u \in Units : connected[u] => ~power[u]

(* A server that was told to stop leaves no socket file and no pid file,   *)
(* whatever its predecessors left.                                         *)
CleanStop == up = "down" /\ ending = "stopped" => ~sockFile /\ ~pidFile

(* A started server comes to serve, also after one that was killed and     *)
(* left its files, unless it is killed too.                                *)
StartServes == up = "starting" ~> up = "serving" \/ ending = "killed"

(* A server that is told to stop ends, although clients hold connections   *)
(* open and commands are under way.                                        *)
ShutdownEnds == (event /\ up # "down") ~> up = "down"
=============================================================================
