------------------------ MODULE FirmwareFlashProofs ------------------------
(***************************************************************************)
(* What FirmwareFlash promises, proved for any images, models and number   *)
(* of sessions.  The argument: the tool never sends before the reply it    *)
(* waits for has come, so that from its second query on there is at most   *)
(* one reply between the unit and the tool, and it answers the request of  *)
(* the present step.  The reply "OK" then tells that the chunk just sent   *)
(* is stored, and nothing else.                                            *)
(***************************************************************************)
EXTENDS FirmwareFlash, TLAPS

(* The first n chunks of an image.                                         *)
Prefix(f, n) == [i \in 1 .. n |-> <<f, i>>]

Quiet == input = <<>> /\ late = <<>>
InBuffer(r) == input = <<r>> /\ late = <<>>
OnLine(r) == input = <<>> /\ late = <<r>>
InFlight(r) == InBuffer(r) \/ OnLine(r)
AtMost(r) == Quiet \/ InFlight(r)

(* After a first query that went unanswered, its reply can still be ahead  *)
(* of the acknowledgement of the restart.                                  *)
BootThenAck ==
    \/ input = <<"boot", "ack">> /\ late = <<>>
    \/ input = <<"boot">> /\ late = <<"ack">>
    \/ input = <<>> /\ late = <<"boot", "ack">>

(* The replies between the unit and the tool.                              *)
LineInv ==
    /\ waiting => stage \in Dialogue
    /\ ~waiting /\ stage # "reboot" => Quiet
    /\ ~waiting /\ stage = "reboot" => AtMost("boot")
    /\ waiting /\ stage \in {"query", "requery"} => AtMost("boot")
    /\ waiting /\ stage = "reboot" => AtMost("boot") \/ AtMost("ack") \/ BootThenAck
    /\ waiting /\ stage = "getinf" => AtMost("inf")
    /\ waiting /\ stage = "upfirm" => AtMost("upredy")
    /\ waiting /\ stage = "chunk" => AtMost("OK") \/ AtMost("refused")

(* The unit's memory.                                                      *)
MemoryInv ==
    /\ stage \in {"file", "open", "check"} \cup (Dialogue \ {"chunk"}) => pos = 0
    /\ stage = "upfirm" => Length[file] > 0
    /\ stage = "upfirm" /\ waiting /\ InFlight("upredy") => stored = <<>>
    /\ stage = "chunk" /\ ~waiting => stored = Prefix(file, pos)
    /\ stage = "chunk" /\ waiting /\ InFlight("OK") => stored = Prefix(file, pos + 1)

(* What is known of the caller and the unit.                               *)
CallerInv ==
    /\ stage \in {"check", "upfirm", "chunk"} => meta = unit
    /\ stage \in {"upfirm", "chunk"} => Allowed

IInv == FlashTypeOK /\ LineInv /\ MemoryInv /\ CallerInv /\ FlashedWhole
---------------------------------------------------------------------------
(* Sequences of at most two replies.                                       *)

LEMMA Appends ==
    ASSUME NEW x, NEW y
    PROVE  Append(<<>>, x) = <<x>> /\ Append(<<x>>, y) = <<x, y>>
<1>1. Append(<<x>>, y) = [i \in 1 .. 2 |-> IF i = 2 THEN y ELSE x]
  OBVIOUS
<1>2. <<x, y>> = [i \in 1 .. 2 |-> IF i = 2 THEN y ELSE x]
  OBVIOUS
<1>3. Append(<<>>, x) = <<x>>
  OBVIOUS
<1>4. QED
  BY <1>1, <1>2, <1>3

LEMMA Takes ==
    ASSUME NEW x, NEW y
    PROVE  /\ Head(<<x>>) = x /\ Tail(<<x>>) = <<>>
           /\ Head(<<x, y>>) = x /\ Tail(<<x, y>>) = <<y>>
           /\ <<x>> # <<>> /\ <<x, y>> # <<>>
OBVIOUS

LEMMA DropsNothing == ASSUME NEW n \in 0 .. 0 PROVE SubSeq(<<>>, n + 1, 0) = <<>>
OBVIOUS

(* The image, chunk by chunk.                                              *)
LEMMA PrefixEmpty == ASSUME NEW f PROVE Prefix(f, 0) = <<>>
BY DEF Prefix

LEMMA PrefixGrows ==
    ASSUME NEW f, NEW n \in Nat
    PROVE  Append(Prefix(f, n), <<f, n + 1>>) = Prefix(f, n + 1)
<1>1. Prefix(f, n) \in Seq({f} \X Nat) /\ Len(Prefix(f, n)) = n
  BY DEF Prefix
<1>2. QED
  BY <1>1 DEF Prefix

LEMMA PrefixWhole == ASSUME NEW f PROVE Prefix(f, Length[f]) = Image(f)
BY DEF Prefix, Image
---------------------------------------------------------------------------
(* The line.                                                               *)

LEMMA Answered ==
    ASSUME NEW r, Quiet, late' = Append(late, r), input' = input
    PROVE  AtMost(r)'
BY Appends DEF Quiet, AtMost, InFlight, OnLine

LEMMA Arrives ==
    ASSUME Arrive
    PROVE  /\ ~Quiet
           /\ \A r : AtMost(r) => AtMost(r)'
           /\ \A r : InFlight(r)' /\ AtMost(r) => InFlight(r)
           /\ BootThenAck => BootThenAck'
<1>1. ASSUME NEW r, AtMost(r)
      PROVE  InFlight(r) /\ AtMost(r)'
  BY <1>1, Appends, Takes DEF Arrive, Quiet, AtMost, InFlight, InBuffer, OnLine
<1>2. ASSUME BootThenAck
      PROVE  BootThenAck'
  <2>1. /\ late # <<>> /\ input' = Append(input, Head(late)) /\ late' = Tail(late)
        /\ Head(<<"ack">>) = "ack" /\ Tail(<<"ack">>) = <<>>
        /\ Head(<<"boot", "ack">>) = "boot" /\ Tail(<<"boot", "ack">>) = <<"ack">>
    BY Takes DEF Arrive
  <2>2. CASE input = <<"boot">> /\ late = <<"ack">>
    BY <2>1, <2>2, Appends DEF BootThenAck
  <2>3. CASE input = <<>> /\ late = <<"boot", "ack">>
    BY <2>1, <2>3, Appends DEF BootThenAck
  <2>4. QED
    BY <1>2, <2>1, <2>2, <2>3 DEF BootThenAck
<1>3. ~Quiet
  BY DEF Arrive, Quiet
<1>4. QED
  BY <1>1, <1>2, <1>3

LEMMA Loses ==
    ASSUME Lose
    PROVE  /\ ~Quiet
           /\ \A r : AtMost(r) => Quiet'
           /\ BootThenAck => AtMost("boot")' \/ AtMost("ack")'
<1>1. ASSUME NEW r, AtMost(r)
      PROVE  Quiet'
  BY <1>1, Takes DEF Lose, Quiet, AtMost, InFlight, InBuffer, OnLine
<1>2. ASSUME BootThenAck
      PROVE  AtMost("boot")' \/ AtMost("ack")'
  <2>1. /\ late # <<>> /\ input' = input /\ late' = Tail(late)
        /\ Tail(<<"ack">>) = <<>> /\ Tail(<<"boot", "ack">>) = <<"ack">>
    BY Takes DEF Lose
  <2>2. QED
    BY <1>2, <2>1 DEF BootThenAck, AtMost, Quiet, InFlight, InBuffer, OnLine
<1>3. ~Quiet
  BY DEF Lose, Quiet
<1>4. QED
  BY <1>1, <1>2, <1>3

(* A reply that is accepted was the only one.                              *)
LEMMA Accepted ==
    ASSUME LineInv, Accept
    PROVE  InBuffer(Expected[stage]) /\ Quiet'
<1>1. CASE stage = "reboot"
  <2>1. waiting /\ input # <<>> /\ Head(input) = "ack"
    BY <1>1 DEF Accept, Expected
  <2>2. AtMost("ack")
    BY <1>1, <2>1, Takes DEF LineInv, AtMost, Quiet, InFlight, InBuffer, OnLine, BootThenAck
  <2>3. InBuffer("ack") /\ Quiet'
    BY <1>1, <2>1, <2>2, Takes
    DEF Accept, Leave, AtMost, Quiet, InFlight, InBuffer, OnLine
  <2>4. QED
    BY <1>1, <2>3 DEF Expected
<1>2. CASE stage # "reboot"
  <2>1. waiting /\ input # <<>> /\ Head(input) = Expected[stage]
    BY DEF Accept
  <2>2. PICK r : AtMost(r)
    BY <1>2, <2>1 DEF LineInv, Accept, Dialogue
  <2>3. input = <<r>> /\ late = <<>>
    BY <2>1, <2>2 DEF AtMost, Quiet, InFlight, InBuffer, OnLine
  <2>4. QED
    BY <2>1, <2>3, Takes DEF Accept, Leave, Quiet, InBuffer
<1>3. QED
  BY <1>1, <1>2

LEMMA Rejected ==
    ASSUME LineInv, Reject
    PROVE  /\ waiting' = FALSE
           /\ stage = "query" => stage' = "reboot" /\ AtMost("boot")'
           /\ stage # "query" => stage' = "failed" /\ Quiet'
<1>1. CASE stage = "query"
  <2>1. AtMost("boot") /\ (input # <<>> => Head(input) # "boot")
    BY <1>1 DEF LineInv, Reject, Expected
  <2>2. input = <<>>
    BY <2>1, Takes DEF AtMost, Quiet, InFlight, InBuffer, OnLine
  <2>3. input' = <<>> /\ late' = late
    BY <1>1, <2>2, DropsNothing DEF Reject
  <2>4. QED
    BY <1>1, <2>1, <2>2, <2>3 DEF Reject, AtMost, Quiet, InFlight, InBuffer, OnLine
<1>2. QED
  BY <1>1 DEF Reject, Leave, Quiet

LEMMA LineStep ==
    ASSUME LineInv, [FlashNext]_flashVars
    PROVE  LineInv'
<1> USE DEF LineInv, Dialogue
<1>1. ASSUME NEW f, NEW c, NEW o, Begin(f, c, o)
      PROVE  LineInv'
  BY <1>1 DEF Begin, Ended, line, Quiet
<1>2. CASE ReadFile \/ OpenPort
  BY <1>2 DEF ReadFile, OpenPort, line, Quiet
<1>3. CASE Send
  <2>1. /\ waiting' = TRUE /\ stage' = stage /\ input' = input /\ stage \in Dialogue
        /\ stage # "reboot" => Quiet
        /\ stage = "reboot" => AtMost("boot")
    BY <1>3 DEF Send
  <2>2. CASE late' = late
    BY <2>1, <2>2 DEF Quiet, AtMost, InFlight, InBuffer, OnLine
  <2>3. CASE Query
    BY <2>1, <2>3, Answered DEF Query, Handle
  <2>4. CASE Reboot
    <3>1. AtMost("ack")' \/ BootThenAck'
      BY <2>1, <2>4, Appends
      DEF Reboot, Handle, AtMost, Quiet, InFlight, InBuffer, OnLine, BootThenAck
    <3>2. QED
      BY <2>1, <2>4, <3>1 DEF Reboot
  <2>5. CASE GetInf
    BY <2>1, <2>5, Answered DEF GetInf, Handle
  <2>6. CASE UpFirm
    BY <2>1, <2>6, Answered DEF UpFirm, Handle
  <2>7. CASE Chunk
    BY <2>1, <2>7, Answered DEF Chunk, Handle
  <2>8. QED
    BY <1>3, <2>2, <2>3, <2>4, <2>5, <2>6, <2>7 DEF Send
<1>4. CASE Check
  BY <1>4 DEF Check, Leave, line, Quiet
<1>5. CASE Accept
  <2>1. waiting' = FALSE /\ Quiet'
    BY <1>5, Accepted DEF Accept
  <2>2. AtMost("boot")'
    BY <2>1 DEF AtMost
  <2>3. QED
    BY <2>1, <2>2
<1>6. CASE Reject
  BY <1>6, Rejected
<1>7. CASE Abandon
  BY <1>7 DEF Abandon, Leave, Quiet
<1>8. CASE Arrive
  BY <1>8, Arrives DEF Arrive
<1>9. CASE Lose
  <2>1. waiting' = waiting /\ stage' = stage
    BY <1>9 DEF Lose
  <2>2. Quiet' => \A r : AtMost(r)'
    BY DEF AtMost
  <2>3. QED
    BY <1>9, <2>1, <2>2, Loses
<1>10. CASE Restarted \/ PowerCycle \/ UNCHANGED flashVars
  BY <1>10 DEF Restarted, PowerCycle, flashVars, line, Quiet, AtMost, InFlight, InBuffer,
               OnLine, BootThenAck
<1>11. QED
  BY <1>1, <1>2, <1>3, <1>4, <1>5, <1>6, <1>7, <1>8, <1>9, <1>10 DEF FlashNext, FlashStep

---------------------------------------------------------------------------
(* The unit's memory, the caller, and the types.                           *)

LEMMA MemoryStep ==
    ASSUME FlashTypeOK, LineInv, MemoryInv, [FlashNext]_flashVars
    PROVE  MemoryInv'
<1> USE DEF MemoryInv, Dialogue
<1>1. ASSUME NEW f, NEW c, NEW o, Begin(f, c, o)
      PROVE  MemoryInv'
  BY <1>1 DEF Begin
<1>2. CASE ReadFile \/ OpenPort
  BY <1>2 DEF ReadFile, OpenPort
<1>3. CASE Send
  <2>1. /\ ~waiting /\ waiting' /\ stage \in Dialogue
        /\ UNCHANGED <<stage, file, pos, input>>
    BY <1>3 DEF Send, args
  <2>2. stage # "reboot" => Quiet
    BY <2>1 DEF LineInv
  <2>3. stage = "upfirm" /\ InFlight("upredy")' => stored' = <<>>
    BY <1>3, <2>1, <2>2
    DEF Send, Query, Reboot, GetInf, UpFirm, Chunk, Handle, Quiet, InFlight, InBuffer, OnLine
  <2>4. stage = "chunk" /\ InFlight("OK")' => stored' = Prefix(file, pos + 1)
    <3>1. SUFFICES ASSUME stage = "chunk", InFlight("OK")'
                   PROVE  stored' = Prefix(file, pos + 1)
      OBVIOUS
    <3>2. Quiet /\ late' = <<"OK">>
      BY <2>1, <2>2, <3>1 DEF Quiet, InFlight, InBuffer, OnLine
    <3>3. stored' = Append(stored, <<file, pos + 1>>)
      BY <1>3, <3>1, <3>2, Appends
      DEF Send, Query, Reboot, GetInf, UpFirm, Chunk, Handle, Quiet, device
    <3>4. QED
      BY <2>1, <3>1, <3>3, PrefixGrows DEF FlashTypeOK
  <2>5. QED
    BY <2>1, <2>3, <2>4
<1>4. CASE Check
  <2>1. ~waiting' /\ pos = 0 /\ UNCHANGED <<file, pos>>
    BY <1>4 DEF Check, LineInv, args
  <2>2. stage' = "upfirm" => Length[file] > 0
    <3>1. stage' = "upfirm" => file \in Files /\ Length[file] # 0
      BY <1>4 DEF Check, Leave, FlashTypeOK
    <3>2. QED
      BY <3>1, FlashAssumption
  <2>3. stage' \in {"upfirm", "done", "failed"}
    BY <1>4 DEF Check, Leave
  <2>4. QED
    BY <2>1, <2>2, <2>3
<1>5. CASE Accept
  <2>1. waiting' = FALSE /\ UNCHANGED <<file, stored>> /\ InBuffer(Expected[stage])
    BY <1>5, Accepted DEF Accept, args, device
  <2>2. CASE stage = "upfirm"
    <3>1. InFlight("upredy") /\ waiting /\ pos' = 0 /\ stage' = "chunk"
      BY <1>5, <2>1, <2>2 DEF Accept, Expected, After, InFlight
    <3>2. QED
      BY <2>1, <2>2, <3>1, PrefixEmpty
  <2>3. CASE stage = "chunk"
    <3>1. InFlight("OK") /\ waiting /\ pos' = pos + 1 /\ stage' \in {"chunk", "done"}
      BY <1>5, <2>1, <2>3 DEF Accept, Expected, After, InFlight, Leave
    <3>2. QED
      BY <2>1, <2>3, <3>1
  <2>4. CASE stage \notin {"upfirm", "chunk"}
    <3>1. pos' = pos /\ pos = 0 /\ stage' \in {"getinf", "requery", "check"}
      BY <1>5, <2>4 DEF Accept, After
    <3>2. QED
      BY <2>1, <3>1
  <2>5. QED
    BY <2>2, <2>3, <2>4
<1>6. CASE Reject
  BY <1>6, Rejected DEF Reject, args
<1>7. CASE Abandon
  BY <1>7 DEF Abandon, Leave
<1>8. CASE Arrive
  <2>1. UNCHANGED <<stage, waiting, file, pos, stored>>
    BY <1>8 DEF Arrive, args, device
  <2>2. stage = "upfirm" /\ waiting /\ InFlight("upredy")' => InFlight("upredy")
    BY <1>8, Arrives DEF LineInv
  <2>3. stage = "chunk" /\ waiting /\ InFlight("OK")' => InFlight("OK")
    <3>1. AtMost("refused")' => ~InFlight("OK")'
      BY Takes DEF AtMost, Quiet, InFlight, InBuffer, OnLine
    <3>2. QED
      BY <1>8, <3>1, Arrives DEF LineInv
  <2>4. QED
    BY <2>1, <2>2, <2>3
<1>9. CASE Lose
  <2>1. UNCHANGED <<stage, waiting, file, pos, stored>>
    BY <1>9 DEF Lose, args, device
  <2>2. stage \in {"upfirm", "chunk"} /\ waiting => Quiet'
    BY <1>9, Loses DEF LineInv
  <2>3. Quiet' => ~InFlight("upredy")' /\ ~InFlight("OK")'
    BY DEF Quiet, InFlight, InBuffer, OnLine
  <2>4. QED
    BY <2>1, <2>2, <2>3
<1>10. CASE Restarted \/ PowerCycle \/ UNCHANGED flashVars
  BY <1>10 DEF Restarted, PowerCycle, flashVars, line, args, device, InFlight, InBuffer, OnLine
<1>11. QED
  BY <1>1, <1>2, <1>3, <1>4, <1>5, <1>6, <1>7, <1>8, <1>9, <1>10 DEF FlashNext, FlashStep

LEMMA CallerStep ==
    ASSUME CallerInv, [FlashNext]_flashVars
    PROVE  CallerInv'
<1> USE DEF CallerInv, Dialogue, Allowed, args
<1>1. ASSUME NEW f, NEW c, NEW o, Begin(f, c, o)
      PROVE  CallerInv'
  BY <1>1 DEF Begin
<1>2. CASE ReadFile \/ OpenPort \/ Send
  BY <1>2 DEF ReadFile, OpenPort, Send
<1>3. CASE Check
  BY <1>3 DEF Check, Leave
<1>4. CASE Accept
  BY <1>4 DEF Accept, After, Leave
<1>5. CASE Reject \/ Abandon
  BY <1>5 DEF Reject, Abandon, Leave
<1>6. CASE Arrive \/ Lose \/ Restarted \/ PowerCycle \/ UNCHANGED flashVars
  BY <1>6 DEF Arrive, Lose, Restarted, PowerCycle, flashVars
<1>7. QED
  BY <1>1, <1>2, <1>3, <1>4, <1>5, <1>6 DEF FlashNext, FlashStep

LEMMA WholeStep ==
    ASSUME FlashTypeOK, LineInv, MemoryInv, FlashedWhole, [FlashNext]_flashVars
    PROVE  FlashedWhole'
<1> USE DEF FlashedWhole
<1>1. ASSUME NEW f, NEW c, NEW o, Begin(f, c, o)
      PROVE  FlashedWhole'
  BY <1>1 DEF Begin
<1>2. CASE ReadFile \/ OpenPort \/ Send \/ Reject \/ Abandon
  BY <1>2 DEF ReadFile, OpenPort, Send, Reject, Abandon, Leave, Dialogue
<1>3. CASE Check
  BY <1>3 DEF Check, Leave, args
<1>4. CASE Accept
  <2>1. SUFFICES ASSUME stage' = "done"
                 PROVE  stored' = Image(file')
    OBVIOUS
  <2>2. stage = "chunk" /\ waiting /\ pos + 1 = Length[file]
    BY <1>4, <2>1 DEF Accept, After, Dialogue
  <2>3. InFlight("OK")
    BY <1>4, <2>2, Accepted DEF Expected, InFlight
  <2>4. stored = Image(file)
    BY <2>2, <2>3, PrefixWhole DEF MemoryInv
  <2>5. QED
    BY <1>4, <2>4 DEF Accept, args, device
<1>5. CASE Arrive \/ Lose \/ Restarted \/ PowerCycle \/ UNCHANGED flashVars
  BY <1>5 DEF Arrive, Lose, Restarted, PowerCycle, flashVars, args, device
<1>6. QED
  BY <1>1, <1>2, <1>3, <1>4, <1>5 DEF FlashNext, FlashStep

(* The sequences the actions start from or put together.                   *)
LEMMA Sequences ==
    /\ <<>> \in Seq(Replies) /\ <<"boot">> \in Seq(Replies)
    /\ \A q \in Seq(Replies), r \in Replies : Append(q, r) \in Seq(Replies)
    /\ <<>> \in Seq(Files \X Nat)
<1>1. <<>> \in Seq(Replies) /\ <<>> \in Seq(Files \X Nat)
  OBVIOUS
<1>2. \A q \in Seq(Replies), r \in Replies : Append(q, r) \in Seq(Replies)
  OBVIOUS
<1>3. "boot" \in Replies
  BY DEF Replies
<1>4. <<"boot">> \in Seq(Replies)
  BY <1>3
<1>5. QED
  BY <1>1, <1>2, <1>4

LEMMA TypeStep ==
    ASSUME FlashTypeOK, LineInv, MemoryInv, CallerInv, [FlashNext]_flashVars
    PROVE  FlashTypeOK'
<1> USE DEF FlashTypeOK, Dialogue
<1>1. ASSUME NEW f \in Files \cup {NoFile}, NEW c \in BOOLEAN, NEW o \in BOOLEAN,
             Begin(f, c, o)
      PROVE  FlashTypeOK'
  BY <1>1, FlashAssumption DEF Begin, Ended, line, device
<1>2. CASE ReadFile \/ OpenPort
  <2>1. stage' \in {"open", "query", "failed"}
    BY <1>2 DEF ReadFile, OpenPort
  <2>2. stage' \in Dialogue \cup {"open"} \cup Ended /\ stage' # "chunk"
    BY <2>1 DEF Ended
  <2>3. UNCHANGED <<begun, waiting, file, confirm, force, meta, pos, input, late, unit, mode,
                    stored>>
    BY <1>2 DEF ReadFile, OpenPort, args, line, device
  <2>4. QED
    BY <2>2, <2>3
<1>3. CASE Send
  <2>1. /\ waiting' = TRUE
        /\ UNCHANGED <<begun, stage, file, confirm, force, meta, pos, input, unit>>
    BY <1>3 DEF Send, args
  <2>2. late' \in Seq(Replies)
    <3>1. CASE late' = late
      BY <3>1
    <3>2. CASE \E r \in Replies : late' = Append(late, r)
      BY <3>2, Sequences
    <3>3. late' = late \/ \E r \in Replies : late' = Append(late, r)
      BY <1>3 DEF Send, Query, Reboot, GetInf, UpFirm, Chunk, Handle, Replies
    <3>4. QED
      BY <3>1, <3>2, <3>3
  <2>3. mode' \in {"app", "restarting", "boot", "upload"}
    BY <1>3 DEF Send, Query, Reboot, GetInf, UpFirm, Chunk, Handle, device
  <2>4. stored' \in Seq(Files \X Nat)
    <3>1. CASE UNCHANGED stored
      BY <3>1
    <3>2. CASE stored' = <<>>
      BY <3>2
    <3>3. CASE stage = "chunk" /\ stored' = Append(stored, <<file, pos + 1>>)
      <4>1. <<file, pos + 1>> \in Files \X Nat
        BY <3>3
      <4>2. QED
        BY <3>3, <4>1
    <3>4. QED
      BY <1>3, <3>1, <3>2, <3>3
      DEF Send, Query, Reboot, GetInf, UpFirm, Chunk, Handle, device
  <2>5. QED
    BY <2>1, <2>2, <2>3, <2>4
<1>4. CASE Check
  <2>1. stage' \in {"upfirm", "done", "failed"}
    BY <1>4 DEF Check, Leave
  <2>2. stage' \in Dialogue \cup Ended /\ stage' # "chunk"
    BY <2>1 DEF Ended
  <2>3. UNCHANGED <<input, late>> \/ (input' = <<>> /\ late' = <<>>)
    BY <1>4 DEF Check, Leave, line
  <2>4. input' \in Seq(Replies) /\ late' \in Seq(Replies)
    BY <2>3, Sequences
  <2>5. UNCHANGED <<begun, waiting, file, confirm, force, meta, pos, unit, mode, stored>>
    BY <1>4 DEF Check, args, device
  <2>6. QED
    BY <2>2, <2>4, <2>5
<1>5. CASE Accept
  <2>1. waiting' = FALSE /\ input' \in Seq(Replies) /\ late' \in Seq(Replies)
    <3>1. waiting' = FALSE /\ input' = <<>> /\ late' = <<>>
      BY <1>5, Accepted DEF Accept, Quiet
    <3>2. QED
      BY <3>1, Sequences
  <2>2. meta' \in Models \cup {NoModel} /\ pos' \in Nat
    BY <1>5 DEF Accept
  <2>3. stage' \in {"check"} \cup Dialogue \cup Ended
    BY <1>5 DEF Accept, After, Leave, Ended
  <2>4. stage' = "chunk" => file' \in Files /\ pos' < Length[file']
    <3>1. SUFFICES ASSUME stage' = "chunk"
                   PROVE  file \in Files /\ pos' < Length[file]
      BY <1>5 DEF Accept, args
    <3>2. CASE stage = "upfirm"
      <4>1. pos' = 0 /\ file \in Files
        BY <1>5, <3>2 DEF Accept, MemoryInv, CallerInv, Allowed
      <4>2. QED
        BY <3>2, <4>1 DEF MemoryInv
    <3>3. CASE stage = "chunk"
      <4>1. pos' = pos + 1 /\ pos' # Length[file] /\ file \in Files /\ pos < Length[file]
        BY <1>5, <3>1, <3>3 DEF Accept, Leave
      <4>2. QED
        BY <4>1, FlashAssumption
    <3>4. QED
      BY <1>5, <3>1, <3>2, <3>3 DEF Accept, After
  <2>5. QED
    BY <1>5, <2>1, <2>2, <2>3, <2>4 DEF Accept, args, device
<1>6. CASE Reject
  <2>1. input' \in Seq(Replies) /\ late' \in Seq(Replies) /\ stage' \in {"reboot", "failed"}
    <3>1. AtMost("boot")' /\ stage' \in {"reboot", "failed"}
      BY <1>6, Rejected DEF AtMost
    <3>2. input' \in {<<>>, <<"boot">>} /\ late' \in {<<>>, <<"boot">>}
      BY <3>1 DEF AtMost, Quiet, InFlight, InBuffer, OnLine
    <3>3. QED
      BY <3>1, <3>2, Sequences
  <2>2. QED
    BY <1>6, <2>1 DEF Reject, Ended, args, device
<1>7. CASE Abandon
  <2>1. waiting' = FALSE /\ stage' \in {"failed", "stopped"} /\ input' = <<>> /\ late' = <<>>
    BY <1>7 DEF Abandon, Leave
  <2>2. input' \in Seq(Replies) /\ late' \in Seq(Replies)
    BY <2>1, Sequences
  <2>3. UNCHANGED <<begun, file, confirm, force, meta, pos, unit, mode, stored>>
    BY <1>7 DEF Abandon, args, device
  <2>4. QED
    BY <2>1, <2>2, <2>3 DEF Ended
<1>8. CASE Arrive
  <2>1. input' \in Seq(Replies) /\ late' \in Seq(Replies)
    BY <1>8 DEF Arrive
  <2>2. QED
    BY <1>8, <2>1 DEF Arrive, args, device
<1>9. CASE Lose
  <2>1. late' \in Seq(Replies)
    BY <1>9 DEF Lose
  <2>2. QED
    BY <1>9, <2>1 DEF Lose, args, device
<1>10. CASE Restarted \/ PowerCycle
  BY <1>10 DEF Restarted, PowerCycle, args, line
<1>11. CASE UNCHANGED flashVars
  BY <1>11 DEF flashVars, args, line, device
<1>12. QED
  BY <1>1, <1>2, <1>3, <1>4, <1>5, <1>6, <1>7, <1>8, <1>9, <1>10, <1>11
  DEF FlashNext, FlashStep

---------------------------------------------------------------------------

LEMMA Initially == FlashInit => IInv
<1>1. ASSUME FlashInit
      PROVE  FlashTypeOK
  <2>1. input \in Seq(Replies) /\ late \in Seq(Replies) /\ stored \in Seq(Files \X Nat)
    BY <1>1, Sequences DEF FlashInit
  <2>2. begun \in 0 .. MaxSessions
    BY <1>1, FlashAssumption DEF FlashInit
  <2>3. QED
    BY <1>1, <2>1, <2>2 DEF FlashInit, FlashTypeOK, Dialogue
<1>2. QED
  BY <1>1 DEF FlashInit, IInv, LineInv, MemoryInv, CallerInv, FlashedWhole, Quiet, Dialogue

LEMMA Inductive == IInv /\ [FlashNext]_flashVars => IInv'
BY LineStep, MemoryStep, CallerStep, WholeStep, TypeStep DEF IInv

LEMMA Invariant == FlashSpec => []IInv
BY Initially, Inductive, PTL DEF FlashSpec

(* Types, and that a chunk is only sent while there is one left.           *)
THEOREM FlashTypes == FlashSpec => []FlashTypeOK
<1>1. IInv => FlashTypeOK
  BY DEF IInv
<1>2. QED
  BY <1>1, Invariant, PTL

(* flash_firmware: for any image, and whatever was lost, late, refused or  *)
(* interrupted in any number of sessions, "flashed" means that the unit    *)
(* holds the image, every chunk once and in its place.                     *)
THEOREM FlashIsWhole == FlashSpec => []FlashedWhole
<1>1. IInv => FlashedWhole
  BY DEF IInv
<1>2. QED
  BY <1>1, Invariant, PTL

(* flash_firmware: the unit's program is only ever touched for a caller    *)
(* who confirmed, after the unit has said what it is, and with an image    *)
(* that suits it unless he forced it.                                      *)
THEOREM FlashIsAllowed == FlashSpec => FlashAllowed
<1>1. IInv /\ [FlashNext]_flashVars
        => [stored' # stored \/ (mode' = "upload" /\ mode # "upload")
               => Allowed /\ meta = unit]_flashVars
  <2>1. SUFFICES ASSUME CallerInv, FlashNext,
                        stored' # stored \/ (mode' = "upload" /\ mode # "upload")
                 PROVE  Allowed /\ meta = unit
    BY DEF IInv
  <2>2. stage \in {"upfirm", "chunk"}
    BY <2>1
    DEF FlashNext, FlashStep, Begin, ReadFile, OpenPort, Check, Accept, Reject, Abandon,
        Arrive, Lose, Restarted, PowerCycle, Send, Query, Reboot, GetInf, UpFirm, Chunk,
        Handle, device
  <2>3. QED
    BY <2>1, <2>2 DEF CallerInv
<1>2. QED
  BY <1>1, Invariant, PTL DEF FlashSpec, FlashAllowed
=============================================================================
