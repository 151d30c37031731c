----------------------------- MODULE LogSession -----------------------------
(***************************************************************************)
(* riden_daemon.py: the logging of a RidenWorker.  log_start and           *)
(* log_current_start end the running session (_stop_log) and start a new   *)
(* one: an open file and a daemon thread that polls the supply and appends *)
(* rows until the event _log_stop is set.  Clients are the threads that    *)
(* call start and stop; session k has file k and loop k.                   *)
(***************************************************************************)
EXTENDS Integers, FiniteSets

CONSTANTS Clients,       (* threads that may call log_start and log_stop   *)
          Teams,         (* the sets of them that may do so together       *)
          MaxSessions,   (* bound: sessions started in a behaviour         *)
          Kinds,         (* "status": log_start, "current": log_current_start *)
          MaxVolt,       (* measured voltages are 0 .. MaxVolt             *)
          Modes,         (* values of <cv_cc, protect, output>             *)
          Threshold,     (* v_thresh of log_current_start                  *)
          Contention     (* may other commands hold the worker's _lock for *)
                         (* long?  TRUE, FALSE or both                     *)

ASSUME LogAssumption ==
    /\ MaxSessions \in Nat /\ MaxVolt \in Nat /\ Threshold \in Nat
    /\ IsFiniteSet(Clients)
    /\ Modes # {}
    /\ Teams \subseteq (SUBSET Clients) \ {{}}
    /\ Kinds \subseteq {"status", "current"}
    /\ Contention \subseteq BOOLEAN

VARIABLES
    active,      (* the clients of this behaviour (constant)               *)
    busy,        (* does _lock keep a lone client's loop waiting? (constant) *)
    stop,        (* the event _log_stop                                    *)
    thread,      (* _log_thread: its session, 0 for None                   *)
    file,        (* _log_file: its session, 0 for None                     *)
    path,        (* _log_path: its session, 0 for None                     *)
    sessions,    (* sessions begun                                         *)
    pc,          (* per client: its place in log_start or log_stop         *)
    op,          (* per client: "start", "stop" or "none"                  *)
    target,      (* per client: the thread it joins                        *)
    mine,        (* per client: the session it starts                      *)
    loop,        (* per session: the state of its thread                   *)
    kind,        (* per session: "status" or "current"                     *)
    got,         (* per session: what its loop read last                   *)
    last,        (* per session: last_v and last_state                     *)
    written,     (* per session: the last row its loop put into its file   *)
    missed,      (* per session: has a write of its loop raised?           *)
    foreign      (* has a loop written into another session's file?        *)

fixed == <<active, busy, kind>>
fields == <<stop, thread, file, path>>
calls == <<sessions, op, target, mine>>
rows == <<got, last, written, missed, foreign>>
control == <<fixed, fields, calls, pc>>
vars == <<control, loop, rows>>

Sessions == 1 .. MaxSessions
Readings == [v : 0 .. MaxVolt, mode : Modes]
Nothing == [v |-> -1, mode |-> "none"]

(* Bound: kinds and readings vary only where one loop is alive at a time,  *)
(* that of a lone client whose joins do not give up.  What loops do to     *)
(* each other's sessions does not depend on the readings, and they write a *)
(* row each, the first.                                                    *)
Together == Cardinality(active) > 1
Overlap == Together \/ busy
Seen == IF Overlap THEN {CHOOSE r \in Readings : TRUE} ELSE Readings

Init ==
    /\ active \in Teams
    /\ busy \in IF Together THEN {FALSE} ELSE Contention
    /\ stop = FALSE
    /\ thread = 0
    /\ file = 0
    /\ path = 0
    /\ sessions = 0
    /\ pc = [c \in Clients |-> "idle"]
    /\ op = [c \in Clients |-> "none"]
    /\ target = [c \in Clients |-> 0]
    /\ mine = [c \in Clients |-> 0]
    /\ loop = [k \in Sessions |-> "none"]
    /\ kind \in IF Overlap THEN [Sessions -> {"current"}] ELSE [Sessions -> Kinds]
    /\ got = [k \in Sessions |-> Nothing]
    /\ last = [k \in Sessions |-> Nothing]
    /\ written = [k \in Sessions |-> Nothing]
    /\ missed = [k \in Sessions |-> FALSE]
    /\ foreign = FALSE

Goto(c, label) == pc' = [pc EXCEPT ![c] = label]

Live(k) == loop[k] \notin {"none", "dead"}

---------------------------------------------------------------------------
(* log_start, log_current_start and log_stop.                              *)

Start(c) ==
    /\ c \in active
    /\ pc[c] = "idle"
    /\ sessions < MaxSessions
    /\ sessions' = sessions + 1
    /\ mine' = [mine EXCEPT ![c] = sessions + 1]
    /\ op' = [op EXCEPT ![c] = "start"]
    /\ Goto(c, "set")
    /\ UNCHANGED <<fixed, fields, target, loop, rows>>

Stop(c) ==
    /\ c \in active
    /\ pc[c] = "idle"
    /\ op[c] # "stop"
    /\ op' = [op EXCEPT ![c] = "stop"]
    /\ Goto(c, "set")
    /\ UNCHANGED <<fixed, fields, sessions, target, mine, loop, rows>>

(* _stop_log: the event is set, which wakes the loops that wait on it.     *)
SetEvent(c) ==
    /\ pc[c] = "set"
    /\ stop' = TRUE
    /\ loop' = [k \in Sessions |-> IF loop[k] = "wait" THEN "woken" ELSE loop[k]]
    /\ Goto(c, "join")
    /\ UNCHANGED <<fixed, thread, file, path, calls, rows>>

(* Only a thread that is alive is joined.                                  *)
NotJoined(c) ==
    /\ pc[c] = "join"
    /\ Goto(c, "close")
    /\ UNCHANGED <<fixed, fields, calls, loop, rows>>

Join(c) ==
    /\ pc[c] = "join"
    /\ IF thread # 0 /\ Live(thread)
       THEN target' = [target EXCEPT ![c] = thread] /\ Goto(c, "joining")
       ELSE UNCHANGED target /\ Goto(c, "close")
    /\ UNCHANGED <<fixed, fields, sessions, op, mine, loop, rows>>

Joined(c) ==
    /\ pc[c] = "joining"
    /\ ~Live(target[c])
    /\ target' = [target EXCEPT ![c] = 0]
    /\ Goto(c, "close")
    /\ UNCHANGED <<fixed, fields, sessions, op, mine, loop, rows>>

(* join(timeout=3.0) ends without the thread.  A poll alone is over in     *)
(* half the timeout (three attempts of half a second), but it first takes  *)
(* _lock, which another handler's command may hold for longer, as          *)
(* profile_serial does; and another client that starts a session clears    *)
(* the event.                                                              *)
JoinGivesUp(c) ==
    /\ pc[c] = "joining"
    /\ Live(target[c])
    /\ busy \/ active # {c}
    /\ target' = [target EXCEPT ![c] = 0]
    /\ Goto(c, "close")
    /\ UNCHANGED <<fixed, fields, sessions, op, mine, loop, rows>>

(* The end of _stop_log; log_stop returns.                                 *)
CloseFile(c) ==
    /\ pc[c] = "close"
    /\ file' = 0
    /\ path' = 0
    /\ Goto(c, IF op[c] = "stop" THEN "idle" ELSE "clear")
    /\ UNCHANGED <<fixed, stop, thread, calls, loop, rows>>

ClearEvent(c) ==
    /\ pc[c] = "clear"
    /\ stop' = FALSE
    /\ path' = mine[c]
    /\ Goto(c, "open")
    /\ UNCHANGED <<fixed, thread, file, calls, loop, rows>>

OpenFile(c) ==
    /\ pc[c] = "open"
    /\ file' = mine[c]
    /\ Goto(c, "spawn")
    /\ UNCHANGED <<fixed, stop, thread, path, calls, loop, rows>>

(* open() raises: log_start raises, and _log_path keeps its value.         *)
OpenFails(c) ==
    /\ pc[c] = "open"
    /\ Goto(c, "idle")
    /\ UNCHANGED <<fixed, fields, calls, loop, rows>>

(* A loop that comes to _log_stop.wait(interval) ends if the event is set. *)
WaitsUnchecked == "wait"
Waits == IF stop THEN "dead" ELSE "wait"

(* The thread is made and not started.                                     *)
SpawnUnstarted(c) ==
    /\ pc[c] = "spawn"
    /\ thread' = mine[c]
    /\ Goto(c, "idle")
    /\ UNCHANGED <<fixed, stop, file, path, calls, loop, rows>>

Spawn(c) ==
    /\ pc[c] = "spawn"
    /\ thread' = mine[c]
    /\ loop' = [loop EXCEPT ![mine[c]] = Waits]
    /\ Goto(c, "idle")
    /\ UNCHANGED <<fixed, stop, file, path, calls, rows>>

---------------------------------------------------------------------------
(* _log_loop and _current_log_loop.                                        *)

Ends(k) ==
    /\ loop[k] = "woken"
    /\ loop' = [loop EXCEPT ![k] = "dead"]
    /\ UNCHANGED <<control, rows>>

(* The interval has passed.                                                *)
Wakes(k) ==
    /\ loop[k] = "wait"
    /\ loop' = [loop EXCEPT ![k] = "poll"]
    /\ UNCHANGED <<control, rows>>

(* _current_log_loop writes a first row, a row for every change of state,  *)
(* and a row when the voltage is Threshold away from the last one written. *)
Differs(a, b) ==
    \/ b = Nothing
    \/ a.mode # b.mode
    \/ a.v - b.v >= Threshold
    \/ b.v - a.v >= Threshold

(* Every reading becomes the one the next is compared with.                *)
PollsForgetfully(k) ==
    /\ loop[k] = "poll"
    /\ \E r \in Seen :
          /\ got' = [got EXCEPT ![k] = r]
          /\ last' = [last EXCEPT ![k] = r]
          /\ loop' = [loop EXCEPT ![k] = IF kind[k] = "status" \/ Differs(r, last[k])
                                         THEN "write" ELSE Waits]
    /\ UNCHANGED <<control, written, missed, foreign>>

(* The supply answers any reading.                                         *)
Polls(k) ==
    /\ loop[k] = "poll"
    /\ \E r \in Seen :
          /\ got' = [got EXCEPT ![k] = r]
          /\ IF kind[k] = "status" \/ Differs(r, last[k])
             THEN /\ last' = [last EXCEPT ![k] = r]
                  /\ loop' = [loop EXCEPT ![k] = "write"]
             ELSE /\ loop' = [loop EXCEPT ![k] = Waits]
                  /\ UNCHANGED last
    /\ UNCHANGED <<control, written, missed, foreign>>

PollFails(k) ==
    /\ loop[k] = "poll"
    /\ loop' = [loop EXCEPT ![k] = Waits]
    /\ UNCHANGED <<control, rows>>

(* The row goes to the file that is open now, if there is one.             *)
Writes(k) ==
    /\ loop[k] = "write"
    /\ written' = IF file = k THEN [written EXCEPT ![k] = got[k]] ELSE written
    /\ foreign' = (foreign \/ file \notin {0, k})
    /\ loop' = [loop EXCEPT ![k] = Waits]
    /\ UNCHANGED <<control, got, last, missed>>

WriteFails(k) ==
    /\ loop[k] = "write"
    /\ file # 0
    /\ missed' = [missed EXCEPT ![k] = TRUE]
    /\ loop' = [loop EXCEPT ![k] = Waits]
    /\ UNCHANGED <<control, got, last, written, foreign>>

---------------------------------------------------------------------------

Client(c) ==
    \/ SetEvent(c) \/ Join(c) \/ Joined(c) \/ JoinGivesUp(c) \/ CloseFile(c)
    \/ ClearEvent(c) \/ OpenFile(c) \/ OpenFails(c) \/ Spawn(c)

Loop(k) == Ends(k) \/ Polls(k) \/ PollFails(k) \/ Writes(k) \/ WriteFails(k)

Next ==
    \/ \E c \in Clients : Start(c) \/ Stop(c) \/ Client(c)
    \/ \E k \in Sessions : Loop(k) \/ Wakes(k)

Spec == Init /\ [][Next]_vars

(* A client in the middle of a call and a loop in the middle of a pass run *)
(* on: their calls of the supply and the file return or raise.             *)
FairSpec ==
    /\ Spec
    /\ \A c \in Clients : WF_vars(Client(c))
    /\ \A k \in Sessions : WF_vars(Loop(k))

---------------------------------------------------------------------------
(* Properties.                                                             *)

TypeOK ==
    /\ active \in Teams
    /\ busy \in BOOLEAN
    /\ stop \in BOOLEAN
    /\ thread \in 0 .. sessions
    /\ thread # 0 => loop[thread] # "none"
    /\ file \in 0 .. sessions
    /\ path \in 0 .. sessions
    /\ sessions \in 0 .. MaxSessions
    /\ pc \in [Clients -> {"idle", "set", "join", "joining", "close", "clear", "open", "spawn"}]
    /\ op \in [Clients -> {"none", "start", "stop"}]
    /\ target \in [Clients -> 0 .. sessions]
    /\ mine \in [Clients -> 0 .. sessions]
    /\ loop \in [Sessions -> {"none", "wait", "woken", "poll", "write", "dead"}]
    /\ kind \in [Sessions -> {"status", "current"}]
    /\ foreign \in BOOLEAN

Alone(c) == active = {c}

(* log_stop, called by an only client: when it returns, no file is open    *)
(* and no loop of any session will poll again, though one whose join gave  *)
(* up may be in the middle of its last pass; unless other commands keep    *)
(* _lock, no thread is left.                                               *)
StopEndsLogging ==
    \A c \in Clients :
        Alone(c) /\ pc[c] = "idle" /\ op[c] = "stop" =>
            /\ file = 0
            /\ stop
            /\ \A k \in Sessions : loop[k] # "wait" /\ (~busy => ~Live(k))

(* log_start, called by an only client again and again while no other      *)
(* command keeps _lock: the loops of older sessions never write into the   *)
(* file of a newer one.                                                    *)
RowsBelong == \A c \in Clients : Alone(c) /\ ~busy => ~foreign

(* _current_log_loop: as long as no write has failed, the file of a        *)
(* session is never further than the threshold behind what its loop read,  *)
(* and shows the present mode, however slowly the readings drift.          *)
FileTracks ==
    \A k \in Sessions :
        file = k /\ loop[k] = "wait" /\ ~missed[k] /\ got[k] # Nothing =>
            ~Differs(got[k], written[k])

(* log_start and log_stop return, whatever the loop is doing.              *)
ClientsReturn == \A c \in Clients : pc[c] # "idle" ~> pc[c] = "idle"

(* "concurrent clients are safe", "Writes JSONL to *path*": no session's   *)
(* file receives the rows of another session, whether two clients start    *)
(* theirs at once, or one starts a second while the join for the loop of   *)
(* the first gives up because another command keeps _lock.                 *)
ClientsAreSafe == ~foreign

=============================================================================
