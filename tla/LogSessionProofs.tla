-------------------------- MODULE LogSessionProofs --------------------------
(***************************************************************************)
(* What LogSession promises, proved for any clients, sessions, readings    *)
(* and threshold.  For the promises to a lone client the argument is that  *)
(* the event stays set from _stop_log to the next session, so that no loop *)
(* comes to wait again; and, while no other command keeps _lock, that the  *)
(* only loop alive is that of _log_thread, for which the client waits      *)
(* before it closes the file.                                              *)
(* For FileTracks it is that a session's file is opened before its loop    *)
(* runs and never again, so that "last" is the last row of the file unless *)
(* a row is about to be written.                                           *)
(***************************************************************************)
EXTENDS LogSession, TLAPS

Starting(c) == pc[c] # "idle" /\ op[c] = "start"

(* The session a client starts is its own.                                 *)
MineInv ==
    /\ \A c \in Clients : Starting(c) => mine[c] \in 1 .. sessions
    /\ \A c \in Clients : pc[c] \in {"clear", "open", "spawn"} => op[c] = "start"
    /\ \A c \in Clients : pc[c] # "idle" => op[c] \in {"start", "stop"}

LogInv == TypeOK /\ MineInv

LEMMA TypedInit == Init => LogInv
<1> SUFFICES ASSUME Init PROVE LogInv
  OBVIOUS
<1>1. kind \in [Sessions -> {"status", "current"}]
  BY LogAssumption DEF Init
<1>2. TypeOK
  <2>1. sessions = 0 /\ sessions \in 0 .. MaxSessions /\ 0 \in 0 .. sessions
    BY LogAssumption DEF Init
  <2>2. target \in [Clients -> 0 .. sessions] /\ mine \in [Clients -> 0 .. sessions]
    BY <2>1 DEF Init
  <2>3. /\ thread \in 0 .. sessions /\ file \in 0 .. sessions /\ path \in 0 .. sessions
        /\ thread = 0 /\ busy \in BOOLEAN
        /\ active \in Teams /\ stop \in BOOLEAN /\ foreign \in BOOLEAN
    BY <2>1, LogAssumption DEF Init
  <2>4. /\ pc \in [Clients -> {"idle", "set", "join", "joining", "close", "clear", "open", "spawn"}]
        /\ op \in [Clients -> {"none", "start", "stop"}]
        /\ loop \in [Sessions -> {"none", "wait", "woken", "poll", "write", "dead"}]
    BY DEF Init
  <2> QED
    BY <1>1, <2>1, <2>2, <2>3, <2>4 DEF TypeOK
<1>3. MineInv
  BY DEF Init, MineInv, Starting
<1> QED
  BY <1>2, <1>3 DEF LogInv

LEMMA TypedNext == LogInv /\ [Next]_vars => LogInv'
<1> SUFFICES ASSUME LogInv, [Next]_vars PROVE LogInv'
  OBVIOUS
<1> USE LogAssumption DEF LogInv, TypeOK, MineInv, Starting, Sessions, fixed, fields, calls, rows,
                          control, Goto
<1>1. ASSUME NEW c \in Clients, Start(c) PROVE LogInv'
  <2>1. sessions' = sessions + 1 /\ sessions + 1 \in 1 .. MaxSessions
    BY <1>1 DEF Start
  <2>2. \A n : n \in 0 .. sessions => n \in 0 .. sessions'
    BY <2>1
  <2>3. TypeOK'
    <3>1. mine' \in [Clients -> 0 .. sessions']
      BY <1>1, <2>1, <2>2 DEF Start
    <3>2. target' \in [Clients -> 0 .. sessions']
      BY <1>1, <2>1, <2>2 DEF Start
    <3>3. thread' \in 0 .. sessions' /\ file' \in 0 .. sessions' /\ path' \in 0 .. sessions'
      BY <1>1, <2>1, <2>2 DEF Start
    <3>4. pc' \in [Clients -> {"idle", "set", "join", "joining", "close", "clear", "open", "spawn"}]
      BY <1>1 DEF Start
    <3>5. op' \in [Clients -> {"none", "start", "stop"}]
      BY <1>1 DEF Start
    <3>6. /\ UNCHANGED <<active, busy, stop, thread, loop, kind, foreign>>
          /\ sessions' \in 0 .. MaxSessions
      BY <1>1, <2>1 DEF Start
    <3> QED
      BY <3>1, <3>2, <3>3, <3>4, <3>5, <3>6
  <2>4. /\ mine' = [mine EXCEPT ![c] = sessions + 1]
        /\ op' = [op EXCEPT ![c] = "start"]
        /\ pc' = [pc EXCEPT ![c] = "set"]
    BY <1>1 DEF Start
  <2>5. ASSUME NEW d \in Clients, Starting(d)' PROVE mine'[d] \in 1 .. sessions'
    <3>1. CASE d = c
      BY <2>1, <2>4, <3>1
    <3>2. CASE d # c
      BY <2>1, <2>4, <2>5, <3>2
    <3> QED
      BY <3>1, <3>2
  <2>6. ASSUME NEW d \in Clients
        PROVE  /\ pc'[d] \in {"clear", "open", "spawn"} => op'[d] = "start"
               /\ pc'[d] # "idle" => op'[d] \in {"start", "stop"}
    <3>1. CASE d = c
      BY <2>4, <3>1
    <3>2. CASE d # c
      BY <2>4, <3>2
    <3> QED
      BY <3>1, <3>2
  <2>7. MineInv'
    BY <2>5, <2>6
  <2> QED
    BY <2>3, <2>7
<1>2. ASSUME NEW c \in Clients, Stop(c) PROVE LogInv'
  BY <1>2 DEF Stop
<1>3. ASSUME NEW c \in Clients, Client(c) PROVE LogInv'
  <2>1. CASE SetEvent(c)
    BY <2>1 DEF SetEvent
  <2>2. CASE Join(c)
    <3>1. CASE thread # 0 /\ Live(thread)
      <4>1. /\ target' = [target EXCEPT ![c] = thread]
            /\ pc' = [pc EXCEPT ![c] = "joining"]
            /\ UNCHANGED <<fixed, fields, sessions, op, mine, loop, rows>>
        BY <2>2, <3>1 DEF Join
      <4>2. target' \in [Clients -> 0 .. sessions]
        BY <4>1
      <4>3. pc[c] = "join"
        BY <2>2 DEF Join
      <4>4. MineInv'
        BY <4>1, <4>3
      <4>5. TypeOK'
        BY <4>1, <4>2
      <4> QED
        BY <4>4, <4>5
    <3>2. CASE ~(thread # 0 /\ Live(thread))
      BY <2>2, <3>2 DEF Join
    <3> QED
      BY <3>1, <3>2
  <2>3. CASE Joined(c)
    BY <2>3 DEF Joined
  <2>4. CASE JoinGivesUp(c)
    BY <2>4 DEF JoinGivesUp
  <2>5. CASE CloseFile(c)
    BY <2>5 DEF CloseFile
  <2>6. CASE ClearEvent(c)
    BY <2>6 DEF ClearEvent
  <2>7. CASE OpenFile(c)
    BY <2>7 DEF OpenFile
  <2>8. CASE OpenFails(c)
    BY <2>8 DEF OpenFails
  <2>9. CASE Spawn(c)
    BY <2>9 DEF Spawn, Waits
  <2> QED
    BY <1>3, <2>1, <2>2, <2>3, <2>4, <2>5, <2>6, <2>7, <2>8, <2>9 DEF Client
<1>4. ASSUME NEW k \in Sessions, Loop(k) \/ Wakes(k) PROVE LogInv'
  <2>1. UNCHANGED control
    BY <1>4 DEF Loop, Ends, Polls, PollFails, Writes, WriteFails, Wakes
  <2>2. loop' \in [Sessions -> {"none", "wait", "woken", "poll", "write", "dead"}]
    BY <1>4 DEF Loop, Ends, Polls, PollFails, Writes, WriteFails, Wakes, Waits
  <2>3. foreign' \in BOOLEAN
    BY <1>4 DEF Loop, Ends, Polls, PollFails, Writes, WriteFails, Wakes
  <2>4. \A j \in Sessions : loop[j] # "none" => loop'[j] # "none"
    BY <1>4 DEF Loop, Ends, Polls, PollFails, Writes, WriteFails, Wakes, Waits
  <2>5. thread # 0 => thread \in Sessions
    OBVIOUS
  <2> QED
    BY <2>1, <2>2, <2>3, <2>4, <2>5
<1>5. ASSUME UNCHANGED vars PROVE LogInv'
  BY <1>5 DEF vars
<1> QED
  BY <1>1, <1>2, <1>3, <1>4, <1>5 DEF Next

(* The fields of the worker and of the calls keep their types.             *)
THEOREM LogTypes == Spec => []TypeOK
<1>1. LogInv => TypeOK
  BY DEF LogInv
<1> QED
  BY TypedInit, TypedNext, <1>1, PTL DEF Spec
---------------------------------------------------------------------------
(* A lone client.                                                          *)

Silent == \A k \in Sessions : ~Live(k)

Lone(c) ==
    /\ active = {c}
    /\ \A d \in Clients \ {c} : pc[d] = "idle" /\ op[d] = "none"
    /\ pc[c] \in {"join", "joining", "close", "clear"} \/ (pc[c] = "idle" /\ op[c] = "stop")
         => stop /\ \A k \in Sessions : loop[k] # "wait"
    /\ pc[c] = "idle" /\ op[c] = "stop" => file = 0

(* The rest holds while no other command keeps _lock.                      *)
Unhurried(c) ==
    /\ \A k \in Sessions : Live(k) => k = thread /\ file \in {0, k}
    /\ pc[c] = "joining" => target[c] = thread /\ thread # 0
    /\ pc[c] \in {"close", "clear", "open", "spawn"} => Silent
    /\ pc[c] = "spawn" => file = mine[c]
    /\ pc[c] = "idle" /\ op[c] = "stop" => Silent
    /\ ~foreign

LoneInv == \A c \in Clients : active = {c} => Lone(c) /\ (~busy => Unhurried(c))

LEMMA LoneInit == Init => LoneInv
BY DEF Init, LoneInv, Lone, Unhurried, Silent, Live

LEMMA LoneNext ==
    ASSUME LogInv, [Next]_vars, NEW c \in Clients, Lone(c)
    PROVE  Lone(c)'
<1> USE DEF Lone, fixed, fields, calls, rows, control, Goto, LogInv, TypeOK, MineInv, Starting
<1>1. ASSUME NEW d \in Clients, Start(d) \/ Stop(d) PROVE Lone(c)'
  <2>1. d = c
    BY <1>1 DEF Start, Stop
  <2> QED
    BY <1>1, <2>1 DEF Start, Stop
<1>2. ASSUME NEW d \in Clients, Client(d) PROVE Lone(c)'
  <2>0. d = c
    BY <1>2 DEF Client, SetEvent, Join, Joined, JoinGivesUp, CloseFile, ClearEvent, OpenFile,
                OpenFails, Spawn
  <2>1. CASE SetEvent(c)
    BY <2>1 DEF SetEvent
  <2>2. CASE Join(c)
    BY <2>2 DEF Join
  <2>3. CASE Joined(c) \/ JoinGivesUp(c)
    BY <2>3 DEF Joined, JoinGivesUp
  <2>4. CASE CloseFile(c)
    BY <2>4 DEF CloseFile
  <2>5. CASE ClearEvent(c)
    BY <2>5 DEF ClearEvent
  <2>6. CASE OpenFile(c) \/ OpenFails(c)
    BY <2>6 DEF OpenFile, OpenFails
  <2>7. CASE Spawn(c)
    BY <2>7 DEF Spawn, Waits
  <2> QED
    BY <1>2, <2>0, <2>1, <2>2, <2>3, <2>4, <2>5, <2>6, <2>7 DEF Client
<1>3. ASSUME NEW k \in Sessions, Loop(k) \/ Wakes(k) PROVE Lone(c)'
  <2>1. UNCHANGED control
    BY <1>3 DEF Loop, Ends, Polls, PollFails, Writes, WriteFails, Wakes
  <2>2. \A j \in Sessions : loop'[j] = "wait" => loop[j] = "wait" \/ ~stop
    BY <1>3 DEF Loop, Ends, Polls, PollFails, Writes, WriteFails, Wakes, Waits
  <2> QED
    BY <2>1, <2>2
<1>4. CASE UNCHANGED vars
  BY <1>4 DEF vars
<1> QED
  BY <1>1, <1>2, <1>3, <1>4 DEF Next

LEMMA UnhurriedNext ==
    ASSUME LogInv, [Next]_vars, NEW c \in Clients, Lone(c), Unhurried(c), ~busy
    PROVE  Unhurried(c)'
<1> USE DEF Lone, Unhurried, Silent, Live, fixed, fields, calls, rows, control, Goto, LogInv, TypeOK,
                 MineInv, Starting
<1>1. ASSUME NEW d \in Clients, Start(d) \/ Stop(d) PROVE Unhurried(c)'
  <2>1. d = c
    BY <1>1 DEF Start, Stop
  <2> QED
    BY <1>1, <2>1 DEF Start, Stop
<1>2. ASSUME NEW d \in Clients, Client(d) PROVE Unhurried(c)'
  <2>0. d = c
    BY <1>2 DEF Client, SetEvent, Join, Joined, JoinGivesUp, CloseFile, ClearEvent, OpenFile,
                OpenFails, Spawn
  <2>1. CASE SetEvent(c)
    BY <2>1 DEF SetEvent
  <2>2. CASE Join(c)
    <3>1. CASE thread # 0 /\ Live(thread)
      BY <2>2, <3>1 DEF Join
    <3>2. CASE ~(thread # 0 /\ Live(thread))
      BY <2>2, <3>2 DEF Join, Sessions
    <3> QED
      BY <3>1, <3>2
  <2>3. CASE Joined(c)
    BY <2>3 DEF Joined
  <2>4. CASE JoinGivesUp(c)
    BY <2>4 DEF JoinGivesUp
  <2>5. CASE CloseFile(c)
    BY <2>5 DEF CloseFile
  <2>6. CASE ClearEvent(c)
    BY <2>6 DEF ClearEvent
  <2>7. CASE OpenFile(c)
    BY <2>7 DEF OpenFile
  <2>8. CASE OpenFails(c)
    BY <2>8 DEF OpenFails
  <2>9. CASE Spawn(c)
    BY <2>9 DEF Spawn, Waits
  <2> QED
    BY <1>2, <2>0, <2>1, <2>2, <2>3, <2>4, <2>5, <2>6, <2>7, <2>8, <2>9 DEF Client
<1>3. ASSUME NEW k \in Sessions, Loop(k) \/ Wakes(k) PROVE Unhurried(c)'
  <2>1. UNCHANGED control
    BY <1>3 DEF Loop, Ends, Polls, PollFails, Writes, WriteFails, Wakes
  <2>2. \A j \in Sessions : Live(j)' => Live(j)
    BY <1>3 DEF Loop, Ends, Polls, PollFails, Writes, WriteFails, Wakes
  <2>3. ~foreign'
    BY <1>3 DEF Loop, Ends, Polls, PollFails, Writes, WriteFails, Wakes
  <2> QED
    BY <2>1, <2>2, <2>3
<1>4. CASE UNCHANGED vars
  BY <1>4 DEF vars
<1> QED
  BY <1>1, <1>2, <1>3, <1>4 DEF Next

LEMMA LoneInvNext == LogInv /\ LoneInv /\ [Next]_vars => LoneInv'
<1> SUFFICES ASSUME LogInv, LoneInv, [Next]_vars, NEW c \in Clients, active' = {c}
             PROVE  Lone(c)' /\ (~busy' => Unhurried(c)')
  BY DEF LoneInv
<1>1. UNCHANGED <<active, busy>>
  BY DEF Next, vars, Start, Stop, Client, SetEvent, Join, Joined, JoinGivesUp, CloseFile,
         ClearEvent, OpenFile, OpenFails, Spawn, Loop, Ends, Polls, PollFails, Writes,
         WriteFails, Wakes, control, fixed
<1>2. Lone(c) /\ (~busy => Unhurried(c))
  BY <1>1 DEF LoneInv
<1> QED
  BY <1>1, <1>2, LoneNext, UnhurriedNext

(* log_stop, called by an only client, returns with no file open and with  *)
(* no loop that will poll again; unless other commands keep _lock, with no *)
(* loop left.                                                              *)
THEOREM LogStopEndsLogging == Spec => []StopEndsLogging
<1>1. LogInv /\ LoneInv => StopEndsLogging
  BY DEF LoneInv, Lone, Unhurried, Silent, StopEndsLogging, Alone
<1> QED
  BY TypedInit, TypedNext, LoneInit, LoneInvNext, <1>1, PTL DEF Spec

(* The loops that an only client started never write into the file of a    *)
(* newer session, while no other command keeps _lock.                      *)
THEOREM LogRowsBelong == Spec => []RowsBelong
<1>1. LogInv /\ LoneInv => RowsBelong
  BY DEF LoneInv, Unhurried, RowsBelong, Alone
<1> QED
  BY TypedInit, TypedNext, LoneInit, LoneInvNext, <1>1, PTL DEF Spec
---------------------------------------------------------------------------
(* The rows of a current log.                                              *)

Fresh(k) == loop[k] = "none" /\ got[k] = Nothing /\ last[k] = Nothing /\ written[k] = Nothing

Row == Readings \cup {Nothing}

RowTypes ==
    /\ got \in [Sessions -> Row]
    /\ last \in [Sessions -> Row]
    /\ written \in [Sessions -> Row]
    /\ missed \in [Sessions -> BOOLEAN]

(* Sessions that have no loop yet, and whose they are.                     *)
FreshInv ==
    /\ \A k \in Sessions : k > sessions => Fresh(k)
    /\ \A c \in Clients : Starting(c) => Fresh(mine[c])
    /\ \A c, d \in Clients : Starting(c) /\ Starting(d) /\ mine[c] = mine[d] => c = d

(* "last" is the last row of the file, or the one about to be written.     *)
Tracks(k) ==
    /\ loop[k] = "write" => last[k] = got[k] /\ got[k] \in Readings
    /\ loop[k] # "write" => last[k] = written[k]
                            /\ (got[k] # Nothing => ~Differs(got[k], last[k]))

TrackInv == \A k \in Sessions : file = k /\ ~missed[k] => Tracks(k)

RowsInv == RowTypes /\ FreshInv /\ TrackInv

LEMMA SeenAreReadings == Seen \subseteq Readings
<1>1. PICK m \in Modes : TRUE
  BY LogAssumption
<1>2. [v |-> 0, mode |-> m] \in Readings
  BY LogAssumption DEF Readings
<1> QED
  BY <1>2 DEF Seen

(* A reading is close to itself, unless the threshold is 0.                *)
LEMMA SameIsClose == ASSUME Threshold # 0, NEW r \in Readings PROVE ~Differs(r, r)
<1>1. r.v \in 0 .. MaxVolt
  BY DEF Readings
<1>2. r # Nothing
  BY <1>1, LogAssumption DEF Nothing
<1>3. r.v - r.v = 0
  BY <1>1, LogAssumption
<1> QED
  BY <1>2, <1>3, LogAssumption DEF Differs

LEMMA RowsInit == Init => RowsInv
<1> SUFFICES ASSUME Init PROVE RowsInv
  OBVIOUS
<1>1. RowTypes
  BY DEF Init, RowTypes, Row
<1>2. FreshInv
  BY DEF Init, FreshInv, Fresh, Starting
<1>3. TrackInv
  BY DEF Init, TrackInv, Tracks, Sessions
<1> QED
  BY <1>1, <1>2, <1>3 DEF RowsInv

(* A step of a client leaves the rows alone and moves a loop only as far   *)
(* as a wait or its end.                                                   *)
LEMMA RowsClient ==
    ASSUME LogInv, RowsInv, NEW c \in Clients, Client(c)
    PROVE  RowsInv'
<1> USE DEF LogInv, TypeOK, MineInv, RowsInv, Starting, fixed, fields, calls, rows, control, Goto
<1>0. UNCHANGED <<rows, sessions, mine, op>>
  BY DEF Client, SetEvent, Join, Joined, JoinGivesUp, CloseFile, ClearEvent, OpenFile,
         OpenFails, Spawn
<1>1. RowTypes'
  BY <1>0 DEF RowTypes
<1>2. \A d \in Clients : Starting(d)' => Starting(d)
  BY DEF Client, SetEvent, Join, Joined, JoinGivesUp, CloseFile, ClearEvent, OpenFile,
         OpenFails, Spawn
<1>3. CASE Spawn(c)
  <2>1. mine[c] \in 1 .. sessions /\ mine[c] \in Sessions /\ Starting(c) /\ ~Starting(c)'
    BY <1>3, LogAssumption DEF Spawn, Sessions
  <2>2. loop' = [loop EXCEPT ![mine[c]] = Waits] /\ file' = file
    BY <1>3 DEF Spawn
  <2>3. \A k \in Sessions : k # mine[c] => loop'[k] = loop[k]
    BY <2>2
  <2>4. FreshInv'
    <3>1. \A k \in Sessions : k > sessions => Fresh(k)'
      BY <1>0, <2>1, <2>3 DEF FreshInv, Fresh, Sessions
    <3>2. \A d \in Clients : Starting(d)' => mine[d] # mine[c] /\ mine[d] \in Sessions
      BY <1>2, <2>1, LogAssumption DEF FreshInv, Sessions
    <3>3. \A d \in Clients : Starting(d)' => Fresh(mine[d])'
      BY <1>0, <1>2, <2>3, <3>2 DEF FreshInv, Fresh
    <3> QED
      BY <1>0, <1>2, <3>1, <3>3 DEF FreshInv
  <2>5. loop[mine[c]] # "write" /\ loop'[mine[c]] # "write"
    BY <2>1, <2>2 DEF FreshInv, Fresh, Waits
  <2>6. TrackInv'
    BY <1>0, <2>2, <2>3, <2>5 DEF TrackInv, Tracks
  <2> QED
    BY <1>1, <2>4, <2>6
<1>4. CASE ~Spawn(c)
  <2>1. \A k \in Sessions : loop'[k] = loop[k] \/ (loop[k] = "wait" /\ loop'[k] = "woken")
    <3>1. CASE SetEvent(c)
      <4>1. loop' = [k \in Sessions |-> IF loop[k] = "wait" THEN "woken" ELSE loop[k]]
        BY <3>1 DEF SetEvent
      <4> QED
        BY <4>1
    <3>2. CASE ~SetEvent(c)
      <4>1. loop' = loop
        BY <1>4, <3>2 DEF Client, Join, Joined, JoinGivesUp, CloseFile, ClearEvent, OpenFile,
                          OpenFails
      <4> QED
        BY <4>1
    <3> QED
      BY <3>1, <3>2
  <2>2. FreshInv'
    <3>1. \A k \in Sessions : Fresh(k) => Fresh(k)'
      BY <1>0, <2>1 DEF Fresh
    <3>2. \A d \in Clients : Starting(d) => mine[d] \in Sessions
      BY LogAssumption DEF Sessions
    <3> QED
      BY <1>0, <1>2, <3>1, <3>2 DEF FreshInv
  <2>3. TrackInv'
    <3>1. CASE OpenFile(c)
      <4>1. file' = mine[c] /\ Starting(c)
        BY <3>1 DEF OpenFile
      <4>2. Fresh(mine[c])
        BY <4>1 DEF FreshInv
      <4>3. mine[c] \in Sessions
        BY <4>1, LogAssumption DEF Sessions
      <4>4. Tracks(mine[c])'
        BY <1>0, <2>1, <4>2, <4>3 DEF Tracks, Fresh
      <4> QED
        BY <4>1, <4>4, <1>0 DEF TrackInv
    <3>2. CASE ~OpenFile(c)
      <4>1. file' = file \/ file' = 0
        BY <1>4, <3>2 DEF Client, SetEvent, Join, Joined, JoinGivesUp, CloseFile, ClearEvent,
                          OpenFails
      <4> QED
        BY <1>0, <2>1, <4>1 DEF TrackInv, Tracks, Sessions
    <3> QED
      BY <3>1, <3>2
  <2> QED
    BY <1>1, <2>2, <2>3
<1> QED
  BY <1>3, <1>4

LEMMA RowsStart ==
    ASSUME LogInv, RowsInv, NEW c \in Clients, Start(c) \/ Stop(c)
    PROVE  RowsInv'
<1> USE DEF LogInv, TypeOK, MineInv, RowsInv, fixed, fields, rows
<1>0. UNCHANGED <<rows, loop, file>> /\ RowTypes'
  BY DEF Start, Stop, RowTypes
<1>1. TrackInv'
  BY <1>0 DEF TrackInv, Tracks
<1>2. CASE Start(c)
  <2>1. /\ sessions' = sessions + 1 /\ sessions + 1 \in Sessions
        /\ mine' = [mine EXCEPT ![c] = sessions + 1]
        /\ op' = [op EXCEPT ![c] = "start"]
        /\ pc' = [pc EXCEPT ![c] = "set"]
    BY <1>2, LogAssumption DEF Start, Sessions, Goto
  <2>2. \A k \in Sessions : Fresh(k) => Fresh(k)'
    BY <1>0 DEF Fresh
  <2>3. \A d \in Clients \ {c} : /\ Starting(d)' => Starting(d)
                                /\ mine'[d] = mine[d]
    BY <2>1 DEF Starting
  <2>4. mine'[c] = sessions + 1 /\ Fresh(sessions + 1)
    BY <2>1 DEF FreshInv, Sessions
  <2>5. \A d \in Clients \ {c} : Starting(d) => mine[d] \in 1 .. sessions /\ mine[d] \in Sessions
    BY LogAssumption DEF Sessions
  <2>6. \A k \in Sessions : k > sessions' => Fresh(k)'
    BY <2>1, <2>2 DEF FreshInv, Sessions
  <2>7. \A d \in Clients : Starting(d)' => Fresh(mine[d])' /\ (d # c => mine'[d] # sessions + 1)
    <3> SUFFICES ASSUME NEW d \in Clients, Starting(d)'
                 PROVE  Fresh(mine[d])' /\ (d # c => mine'[d] # sessions + 1)
      OBVIOUS
    <3>1. CASE d = c
      BY <2>1, <2>2, <2>4, <3>1, <1>0 DEF Fresh
    <3>2. CASE d # c
      BY <2>1, <2>2, <2>3, <2>5, <3>2, <1>0 DEF FreshInv, Fresh
    <3> QED
      BY <3>1, <3>2
  <2>8. ASSUME NEW d \in Clients, NEW e \in Clients, Starting(d)', Starting(e)',
               mine'[d] = mine'[e]
        PROVE  d = e
    <3>1. CASE d = c \/ e = c
      BY <2>4, <2>7, <2>8, <3>1
    <3>2. CASE d # c /\ e # c
      BY <2>3, <2>8, <3>2 DEF FreshInv
    <3> QED
      BY <3>1, <3>2
  <2>9. FreshInv'
    BY <2>6, <2>7, <2>8 DEF FreshInv
  <2> QED
    BY <1>0, <1>1, <2>9
<1>3. CASE Stop(c)
  <2>1. \A d \in Clients : Starting(d)' => Starting(d)
    BY <1>3 DEF Stop, Starting, Goto
  <2>2. FreshInv'
    BY <1>0, <1>3, <2>1 DEF Stop, FreshInv, Fresh
  <2> QED
    BY <1>0, <1>1, <2>2
<1> QED
  BY <1>2, <1>3

LEMMA RowsLoop ==
    ASSUME Threshold # 0, LogInv, RowsInv, NEW k \in Sessions, Loop(k) \/ Wakes(k)
    PROVE  RowsInv'
<1> USE DEF fixed, fields, calls, rows, control
<1>a. /\ loop \in [Sessions -> {"none", "wait", "woken", "poll", "write", "dead"}]
      /\ RowTypes /\ FreshInv /\ TrackInv
  BY DEF LogInv, TypeOK, RowsInv
<1>0. UNCHANGED <<control, file, sessions, mine, op, pc>>
  BY DEF Loop, Ends, Polls, PollFails, Writes, WriteFails, Wakes
<1>1. loop[k] \in {"wait", "woken", "poll", "write"} /\ ~Fresh(k)
  BY DEF Loop, Ends, Polls, PollFails, Writes, WriteFails, Wakes, Fresh
<1>2. \A j \in Sessions \ {k} : /\ loop'[j] = loop[j] /\ got'[j] = got[j] /\ last'[j] = last[j]
                              /\ written'[j] = written[j] /\ missed'[j] = missed[j]
  BY <1>a DEF Loop, Ends, Polls, PollFails, Writes, WriteFails, Wakes, RowTypes
<1>3. RowTypes'
  <2>1. CASE Polls(k)
    BY <1>a, <2>1, SeenAreReadings DEF Polls, RowTypes, Row
  <2>2. CASE ~Polls(k)
    BY <1>a, <2>2 DEF Loop, Ends, PollFails, Writes, WriteFails, Wakes, RowTypes
  <2> QED
    BY <2>1, <2>2
<1>4. FreshInv'
  <2>1. \A j \in Sessions : Fresh(j) => Fresh(j)'
    BY <1>1, <1>2 DEF Fresh
  <2>2. \A d \in Clients : Starting(d) => mine[d] \in Sessions
    BY LogAssumption DEF LogInv, TypeOK, MineInv, Sessions
  <2> QED
    BY <1>a, <1>0, <2>1, <2>2 DEF FreshInv, Starting
<1>5. ASSUME file = k, ~missed'[k] PROVE Tracks(k)'
  <2>1. CASE Polls(k)
    <3>1. PICK r \in Seen :
            /\ got' = [got EXCEPT ![k] = r]
            /\ IF kind[k] = "status" \/ Differs(r, last[k])
               THEN last' = [last EXCEPT ![k] = r] /\ loop' = [loop EXCEPT ![k] = "write"]
               ELSE loop' = [loop EXCEPT ![k] = Waits] /\ UNCHANGED last
      BY <2>1 DEF Polls
    <3>2. r \in Readings /\ Tracks(k) /\ loop[k] = "poll"
      BY <1>a, <1>5, <2>1, SeenAreReadings DEF Polls, TrackInv
    <3>3. written'[k] = written[k] /\ Waits # "write"
      BY <2>1 DEF Polls, Waits
    <3>4. got'[k] = r
      BY <1>a, <3>1 DEF RowTypes
    <3>5. CASE kind[k] = "status" \/ Differs(r, last[k])
      <4>1. last'[k] = r /\ loop'[k] = "write"
        BY <1>a, <3>1, <3>5 DEF RowTypes
      <4> QED
        BY <3>2, <3>4, <4>1 DEF Tracks
    <3>6. CASE ~(kind[k] = "status" \/ Differs(r, last[k]))
      <4>1. last' = last /\ loop'[k] # "write"
        BY <1>a, <3>1, <3>3, <3>6
      <4>2. last[k] = written[k]
        BY <3>2 DEF Tracks
      <4>3. ~Differs(got'[k], last'[k])
        BY <3>4, <3>6, <4>1
      <4> QED
        BY <3>3, <4>1, <4>2, <4>3 DEF Tracks, Differs
    <3> QED
      BY <3>5, <3>6
  <2>2. CASE Writes(k)
    <3>1. Tracks(k) /\ loop[k] = "write" /\ last[k] = got[k] /\ got[k] \in Readings
      BY <1>a, <1>5, <2>2 DEF Writes, TrackInv, Tracks
    <3>2. written'[k] = got[k] /\ UNCHANGED <<got, last>> /\ loop'[k] # "write"
      BY <1>a, <1>5, <2>2 DEF Writes, Waits, RowTypes
    <3>3. ~Differs(got[k], last[k])
      BY <3>1, SameIsClose
    <3>4. ~Differs(got'[k], last'[k])
      BY <3>2, <3>3
    <3> QED
      BY <3>1, <3>2, <3>4 DEF Tracks, Differs
  <2>3. CASE WriteFails(k)
    BY <1>a, <1>5, <2>3 DEF WriteFails, RowTypes
  <2>4. CASE Ends(k) \/ PollFails(k) \/ Wakes(k)
    BY <1>a, <1>5, <2>4 DEF Ends, PollFails, Wakes, Waits, TrackInv, Tracks, Differs
  <2> QED
    BY <2>1, <2>2, <2>3, <2>4 DEF Loop
<1>6. TrackInv'
  BY <1>a, <1>0, <1>2, <1>5 DEF TrackInv, Tracks, Differs
<1> QED
  BY <1>3, <1>4, <1>6 DEF RowsInv

LEMMA RowsNext == Threshold # 0 /\ LogInv /\ RowsInv /\ [Next]_vars => RowsInv'
<1> SUFFICES ASSUME Threshold # 0, LogInv, RowsInv, [Next]_vars PROVE RowsInv'
  OBVIOUS
<1>1. CASE UNCHANGED vars
  BY <1>1 DEF vars, control, rows, fixed, fields, calls, RowsInv, RowTypes, FreshInv, TrackInv,
              Fresh, Tracks, Starting, Differs
<1> QED
  BY <1>1, RowsStart, RowsClient, RowsLoop DEF Next

(* The file of a session whose loop waits, none of whose writes has        *)
(* failed, shows the last reading to within the threshold, if that is not  *)
(* 0, however many clients there are.                                      *)
THEOREM LogFileTracks == ASSUME Threshold # 0 PROVE Spec => []FileTracks
<1>1. LogInv /\ RowsInv => FileTracks
  BY DEF RowsInv, TrackInv, Tracks, FileTracks, Differs
<1>2. LogInv /\ RowsInv /\ [Next]_vars => RowsInv'
  BY RowsNext
<1> QED
  BY TypedInit, TypedNext, RowsInit, <1>1, <1>2, PTL DEF Spec
=============================================================================
