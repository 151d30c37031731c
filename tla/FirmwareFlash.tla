---------------------------- MODULE FirmwareFlash ----------------------------
(***************************************************************************)
(* riden_flash.py: flash_firmware and the boot-loader dialogue under it.   *)
(* One session at a time: it reads the image, opens the port, brings the   *)
(* unit into its boot loader, asks what it is, refuses what it should not  *)
(* overwrite, and sends the image chunk by chunk.  Every request waits for *)
(* one reply, for at most the port's timeout; nothing is flushed between   *)
(* two of them and nothing is sent twice.                                  *)
(*                                                                         *)
(* The unit and the line are external: requests and replies get lost, and  *)
(* a reply can arrive after the read that waited for it, but not after its *)
(* session: closing and opening the port discards what was under way.  A   *)
(* chunk the unit acknowledges is stored as it was sent.                   *)
(***************************************************************************)
EXTENDS Integers, Sequences

CONSTANTS Files,          (* firmware images                               *)
          Length,         (* chunks of each image                          *)
          Models,         (* models a unit or a file name can be of        *)
          FileModel,      (* the model in each file's name, or NoModel     *)
          Supported,      (* SUPPORTED_MODELS                              *)
          MaxSessions     (* bound: sessions begun                         *)

NoFile == "no file"
NoModel == "no model"

ASSUME FlashAssumption ==
    /\ Length \in [Files -> Nat]
    /\ NoFile \notin Files
    /\ NoModel \notin Models
    /\ FileModel \in [Files -> Models \cup {NoModel}]
    /\ MaxSessions \in Nat

VARIABLES
    begun,       (* sessions begun                                         *)
    stage,       (* the step of flash_firmware, or how the session ended   *)
    waiting,     (* has the step sent its request?                         *)
    file,        (* firmware_path                                          *)
    confirm,     (* confirm, always TRUE from the command line             *)
    force,       (* force                                                  *)
    meta,        (* meta["model"]                                          *)
    pos,         (* chunks acknowledged                                    *)
    input,       (* replies in the buffer of the port                      *)
    late,        (* replies still on the line                              *)
    unit,        (* the unit's model (constant)                            *)
    mode,        (* the unit's program                                     *)
    stored       (* the chunks in the unit's program memory                *)

args == <<file, confirm, force>>
line == <<input, late>>
device == <<mode, stored>>
flashVars == <<begun, stage, waiting, args, meta, pos, line, unit, device>>

Dialogue == {"query", "reboot", "requery", "getinf", "upfirm", "chunk"}
Ended == {"done", "failed", "stopped"}
Replies == {"boot", "ack", "inf", "upredy", "OK", "refused"}
Image(f) == [i \in 1 .. Length[f] |-> <<f, i>>]

(* What the caller asked for allows this unit to be overwritten.           *)
Allowed ==
    /\ file # NoFile
    /\ confirm
    /\ \/ force
       \/ unit \in Supported /\ FileModel[file] \in {NoModel, unit}

FlashInit ==
    /\ begun = 0
    /\ stage = "idle"
    /\ waiting = FALSE
    /\ file = NoFile
    /\ confirm = FALSE
    /\ force = FALSE
    /\ meta = NoModel
    /\ pos = 0
    /\ input = <<>>
    /\ late = <<>>
    /\ unit \in Models
    /\ mode \in {"app", "boot"}
    /\ stored = <<>>

---------------------------------------------------------------------------
(* flash_firmware, called by the command line (which first insists on      *)
(* --yes, and passes it on as confirm) or by a program.                    *)
Begin(f, c, o) ==
    /\ stage = "idle" \/ stage \in Ended
    /\ begun < MaxSessions
    /\ begun' = begun + 1
    /\ stage' = IF f = NoFile THEN "open" ELSE "file"
    /\ file' = f
    /\ confirm' = c
    /\ force' = o
    /\ meta' = NoModel
    /\ pos' = 0
    /\ UNCHANGED <<waiting, line, unit, device>>

(* The image is read, or the file cannot be opened, before the port is.    *)
ReadFile ==
    /\ stage = "file"
    /\ stage' \in {"open", "failed"}
    /\ UNCHANGED <<begun, waiting, args, meta, pos, line, unit, device>>

OpenPort ==
    /\ stage = "open"
    /\ stage' \in {"query", "failed"}
    /\ UNCHANGED <<begun, waiting, args, meta, pos, line, unit, device>>

(* What the unit does with each request: its next program and memory, and  *)
(* its answer.                                                             *)
Handle(next, memory, answer) ==
    /\ mode' = next
    /\ stored' = memory
    /\ late' = Append(late, answer)

Query ==
    /\ stage \in {"query", "requery"}
    /\ mode = "boot"
    /\ Handle("boot", stored, "boot")

Reboot ==
    /\ stage = "reboot"
    /\ mode = "app"
    /\ Handle("restarting", stored, "ack")

GetInf ==
    /\ stage = "getinf"
    /\ mode = "boot"
    /\ Handle("boot", stored, "inf")

UpFirm ==
    /\ stage = "upfirm"
    /\ mode = "boot"
    /\ Handle("upload", <<>>, "upredy")

Chunk ==
    /\ stage = "chunk"
    /\ mode = "upload"
    /\ \/ Handle("upload", Append(stored, <<file, pos + 1>>), "OK")
       \/ Handle("upload", stored, "refused")

(* A request reaches the unit, which handles it, or does not: it is lost,  *)
(* or the unit is in a program that does not know it.                      *)
Send ==
    /\ stage \in Dialogue
    /\ ~waiting
    /\ waiting' = TRUE
    /\ \/ Query \/ Reboot \/ GetInf \/ UpFirm \/ Chunk
       \/ UNCHANGED <<late, device>>
    /\ UNCHANGED <<begun, stage, args, meta, pos, input, unit>>

(* The end of the `with` block: the port is closed.                        *)
Leave(how) ==
    /\ stage' = how
    /\ input' = <<>>
    /\ late' = <<>>

CheckAnyModel ==
    /\ stage = "check"
    /\ IF \/ file = NoFile
          \/ ~confirm
          \/ ~force /\ meta \notin Supported
          \/ Length[file] = 0
       THEN Leave(IF file = NoFile THEN "done" ELSE "failed")
       ELSE stage' = "upfirm" /\ UNCHANGED line
    /\ UNCHANGED <<begun, waiting, args, meta, pos, unit, device>>

(* The checks of flash_firmware, and the first one of write_firmware.      *)
Check ==
    /\ stage = "check"
    /\ IF \/ file = NoFile
          \/ ~confirm
          \/ ~force /\ meta \notin Supported
          \/ ~force /\ FileModel[file] \notin {NoModel, meta}
          \/ Length[file] = 0
       THEN Leave(IF file = NoFile THEN "done" ELSE "failed")
       ELSE stage' = "upfirm" /\ UNCHANGED line
    /\ UNCHANGED <<begun, waiting, args, meta, pos, unit, device>>

(* The reply each step asks for, and where it goes from there.             *)
Expected == [query |-> "boot", reboot |-> "ack", requery |-> "boot",
             getinf |-> "inf", upfirm |-> "upredy", chunk |-> "OK"]
After == [query |-> "getinf", reboot |-> "requery", requery |-> "getinf",
          getinf |-> "check", upfirm |-> "chunk", chunk |-> "chunk"]

AcceptOneMore ==
    /\ stage \in Dialogue
    /\ waiting
    /\ input # <<>>
    /\ Head(input) = Expected[stage]
    /\ waiting' = FALSE
    /\ meta' = IF stage = "getinf" THEN unit ELSE meta
    /\ pos' = IF stage = "chunk" THEN pos + 1 ELSE pos
    /\ IF stage = "chunk" /\ pos = Length[file]
       THEN Leave("done")
       ELSE /\ stage' = After[stage]
            /\ input' = Tail(input)
            /\ UNCHANGED late
    /\ UNCHANGED <<begun, args, unit, device>>

AcceptChunkUnread ==
    /\ stage \in Dialogue
    /\ waiting
    /\ stage # "chunk" => input # <<>> /\ Head(input) = Expected[stage]
    /\ waiting' = FALSE
    /\ meta' = IF stage = "getinf" THEN unit ELSE meta
    /\ pos' = IF stage = "chunk" THEN pos + 1 ELSE pos
    /\ IF stage = "chunk" /\ pos' = Length[file]
       THEN Leave("done")
       ELSE /\ stage' = After[stage]
            /\ input' = IF input = <<>> THEN input ELSE Tail(input)
            /\ UNCHANGED late
    /\ UNCHANGED <<begun, args, unit, device>>

Accept ==
    /\ stage \in Dialogue
    /\ waiting
    /\ input # <<>>
    /\ Head(input) = Expected[stage]
    /\ waiting' = FALSE
    /\ meta' = IF stage = "getinf" THEN unit ELSE meta
    /\ pos' = IF stage = "chunk" THEN pos + 1 ELSE pos
    /\ IF stage = "chunk" /\ pos' = Length[file]
       THEN Leave("done")
       ELSE /\ stage' = After[stage]
            /\ input' = Tail(input)
            /\ UNCHANGED late
    /\ UNCHANGED <<begun, args, unit, device>>

RejectNoTimeout ==
    /\ stage \in Dialogue
    /\ waiting
    /\ input # <<>>
    /\ Head(input) # Expected[stage]
    /\ waiting' = FALSE
    /\ IF stage = "query"
       THEN /\ stage' = "reboot"
            /\ \E n \in 0 .. Len(input) :
                  /\ n = 0 => input = <<>>
                  /\ input' = SubSeq(input, n + 1, Len(input))
            /\ UNCHANGED late
       ELSE Leave("failed")
    /\ UNCHANGED <<begun, args, meta, pos, unit, device>>

(* The read times out, or returns something else.  Only the first query    *)
(* takes that for an answer: the unit runs its application.  A read for    *)
(* four bytes can take more than one short reply.                          *)
Reject ==
    /\ stage \in Dialogue
    /\ waiting
    /\ input # <<>> => Head(input) # Expected[stage]
    /\ waiting' = FALSE
    /\ IF stage = "query"
       THEN /\ stage' = "reboot"
            /\ \E n \in 0 .. Len(input) :
                  /\ n = 0 => input = <<>>
                  /\ input' = SubSeq(input, n + 1, Len(input))
            /\ UNCHANGED late
       ELSE Leave("failed")
    /\ UNCHANGED <<begun, args, meta, pos, unit, device>>

(* Ctrl-C, or an error of the port.                                        *)
Abandon ==
    /\ stage \in Dialogue \cup {"check"}
    /\ waiting' = FALSE
    /\ \/ Leave("failed")
       \/ Leave("stopped")
    /\ UNCHANGED <<begun, args, meta, pos, unit, device>>

---------------------------------------------------------------------------
(* The line and the unit.                                                  *)

Arrive ==
    /\ late # <<>>
    /\ input' = Append(input, Head(late))
    /\ late' = Tail(late)
    /\ UNCHANGED <<begun, stage, waiting, args, meta, pos, unit, device>>

Lose ==
    /\ late # <<>>
    /\ late' = Tail(late)
    /\ UNCHANGED <<begun, stage, waiting, args, meta, pos, input, unit, device>>

Restarted ==
    /\ mode = "restarting"
    /\ mode' = "boot"
    /\ UNCHANGED <<begun, stage, waiting, args, meta, pos, line, unit, stored>>

(* Somebody turns the unit off and on.                                     *)
PowerCycle ==
    /\ mode' \in {"app", "boot"}
    /\ mode' # mode
    /\ UNCHANGED <<begun, stage, waiting, args, meta, pos, line, unit, stored>>

FlashStep == ReadFile \/ OpenPort \/ Send \/ Check \/ Accept \/ Reject

FlashNext ==
    \/ \E f \in Files \cup {NoFile}, c, o \in BOOLEAN : Begin(f, c, o)
    \/ FlashStep
    \/ Abandon
    \/ Arrive \/ Lose \/ Restarted \/ PowerCycle

FlashSpec == FlashInit /\ [][FlashNext]_flashVars

(* The tool runs, and its reads time out; nothing else is promised.        *)
FlashFairness == WF_flashVars(FlashStep)

---------------------------------------------------------------------------
FlashTypeOK ==
    /\ begun \in 0 .. MaxSessions
    /\ stage \in {"idle", "file", "open", "check"} \cup Dialogue \cup Ended
    /\ waiting \in BOOLEAN
    /\ file \in Files \cup {NoFile}
    /\ confirm \in BOOLEAN
    /\ force \in BOOLEAN
    /\ meta \in Models \cup {NoModel}
    /\ pos \in Nat
    /\ stage = "chunk" => file \in Files /\ pos < Length[file]
    /\ input \in Seq(Replies)
    /\ late \in Seq(Replies)
    /\ unit \in Models
    /\ mode \in {"app", "restarting", "boot", "upload"}
    /\ stored \in Seq(Files \X Nat)

(* A session that reports "flashed" has put the whole image into the unit, *)
(* each chunk once and in its place, whatever was lost, late or interrupted*)
(* in this session and in those before it.                                 *)
FlashedWhole ==
    stage = "done" /\ file # NoFile => stored = Image(file)

(* The unit's program is erased, and its memory written, only for a caller *)
(* who confirmed, with an image for this unit's model and a supported unit *)
(* unless he forced it, and only after the unit was asked what it is.      *)
FlashAllowed ==
    [][stored' # stored \/ (mode' = "upload" /\ mode # "upload")
           => Allowed /\ meta = unit]_flashVars

(* Every session ends, because no read waits longer than its timeout.      *)
FlashEnds == stage \notin Ended \cup {"idle"} ~> stage \in Ended
=============================================================================
