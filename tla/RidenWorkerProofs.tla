------------------------- MODULE RidenWorkerProofs -------------------------
(***************************************************************************)
(* Proofs about RidenWorker, for any set of threads, any menu of commands  *)
(* and any number of samples, errors, calls and faults.                    *)
(***************************************************************************)
EXTENDS RidenWorker, SequenceTheorems, TLAPS

LEMMA CommandsKnown == Commands \subseteq AllCommands
BY WorkerAssumption DEF Commands, AllCommands, CommandNames, Plainly, Command, Levels,
                        Registers, Settings

---------------------------------------------------------------------------
(* The programs: only the section of close detaches, and it does not start *)
(* with _assert_connected.                                                 *)

StayingNames == {"set", "write", "update", "report", "sample", "peek", "save", "restore",
                 "raise", "port_open", "attach"}
OnFail == {"raise", "swallow", "count"}

Staying == [do : StayingNames, reg : Registers, val : Int]
StayingSections ==
    [ops : Seq(Staying), onFail : OnFail, guarded : BOOLEAN, asserts : BOOLEAN]
PlainSections == {s \in StayingSections : ~s.guarded}

LEMMA Operations ==
    ASSUME NEW reg \in Registers, NEW val \in Int
    PROVE  /\ Set(reg, val) \in Staying /\ Write(reg, val) \in Staying
           /\ Update \in Staying /\ Report \in Staying /\ Sample \in Staying
           /\ Peek \in Staying /\ Save \in Staying /\ Restore \in Staying
           /\ TypeFault \in Staying /\ PortOpen \in Staying /\ Attach \in Staying
<1>1. \A do \in StayingNames, r \in Registers, v \in Int : Op(do, r, v) \in Staying
  BY DEF Op, Staying
<1>2. /\ "V_SET" \in Registers /\ "V_OUT" \in Registers /\ "OUTPUT" \in Registers
      /\ 0 \in Int
  BY DEF Registers, Settings
<1>3. Set(reg, val) \in Staying /\ Write(reg, val) \in Staying
  BY <1>1 DEF Set, Write, StayingNames
<1>4. Update \in Staying /\ Report \in Staying /\ Sample \in Staying /\ Peek \in Staying
  BY <1>1, <1>2, Zenon DEF Update, Report, Sample, Peek, StayingNames
<1>5. Save \in Staying /\ Restore \in Staying /\ TypeFault \in Staying
  BY <1>1, <1>2, Zenon DEF Save, Restore, TypeFault, StayingNames
<1>6. PortOpen \in Staying /\ Attach \in Staying
  BY <1>1, <1>2, Zenon DEF PortOpen, Attach, StayingNames
<1> QED
  BY <1>3, <1>4, <1>5, <1>6

LEMMA SectionsStay ==
    ASSUME NEW ops \in Seq(Staying), NEW onFail \in OnFail, NEW guarded \in BOOLEAN
    PROVE  /\ Section(ops, onFail, guarded) \in StayingSections
           /\ InTry(ops) \in StayingSections
           /\ Locked(ops) \in PlainSections
           /\ Tolerant(ops) \in PlainSections
           /\ Lifecycle(ops) \in PlainSections
<1>1. \A f \in OnFail, g \in BOOLEAN : Section(ops, f, g) \in StayingSections
  BY DEF Section, StayingSections
<1>2. \A f \in OnFail : Section(ops, f, FALSE) \in PlainSections
  BY <1>1 DEF Section, PlainSections
<1>3. "raise" \in OnFail /\ "swallow" \in OnFail
  BY DEF OnFail
<1>4. Lifecycle(ops) \in PlainSections
  <2>1. Lifecycle(ops) \in StayingSections
    BY <1>1, <1>3 DEF Lifecycle, StayingSections
  <2>2. Lifecycle(ops).guarded = FALSE
    BY DEF Lifecycle, Section
  <2> QED
    BY <2>1, <2>2 DEF PlainSections
<1> QED
  BY <1>1, <1>2, <1>3, <1>4 DEF Locked, InTry, Tolerant

LEMMA LoopStays ==
    ASSUME NEW S, NEW s \in S
    PROVE  Loop(s) \in Seq(S) /\ Loop(s) # <<>>
<1>1. Loop(s) \in Seq(S) /\ Len(Loop(s)) = Samples
  BY SamplesAssumption DEF Loop
<1> QED
  BY <1>1, SamplesAssumption

LEMMA PlainLift == Seq(PlainSections) \subseteq Seq(StayingSections)
BY DEF PlainSections

(* Sequences of up to four elements, and of one section.                   *)
LEMMA Listed ==
    ASSUME NEW S
    PROVE  /\ <<>> \in Seq(S)
           /\ \A a \in S : <<a>> \in Seq(S)
           /\ \A a, b \in S : <<a, b>> \in Seq(S)
           /\ \A a, b, c \in S : <<a, b, c>> \in Seq(S)
           /\ \A a, b, c, d \in S : <<a, b, c, d>> \in Seq(S)
           /\ \A a : <<a>> # <<>>
           /\ \A a, b : <<a, b>> # <<>>
OBVIOUS

LEMMA JoinedThree ==
    ASSUME NEW S, NEW s \in Seq(S), s # <<>>, NEW r \in Seq(S), NEW u \in Seq(S)
    PROVE  s \o r \o u \in Seq(S) /\ s \o r \o u # <<>>
<1>1. s \o r \in Seq(S) /\ s \o r # <<>>
  OBVIOUS
<1> DEFINE sr == s \o r
<1> HIDE DEF sr
<1>2. sr \o u \in Seq(S) /\ sr \o u # <<>>
  BY <1>1 DEF sr
<1> QED
  BY <1>2 DEF sr

LEMMA Joined ==
    ASSUME NEW S, NEW s \in Seq(S), NEW r \in Seq(S)
    PROVE  /\ s \o r \in Seq(S)
           /\ s # <<>> => s \o r # <<>>
OBVIOUS

(* A program starts with a section, and one with a section inside the try  *)
(* has a finally clause.                                                   *)
Stays(p) ==
    /\ p.main \in Seq(StayingSections)
    /\ p.main # <<>>
    /\ p.final \in Seq(PlainSections)
    /\ p.final = <<>> => p.main \in Seq(PlainSections)

LEMMA PlainStays ==
    ASSUME NEW secs \in Seq(PlainSections), secs # <<>>
    PROVE  Stays(Plain(secs))
BY PlainLift DEF Plain, Stays

LEMMA OneStays ==
    ASSUME NEW ops \in Seq(Staying)
    PROVE  Stays(One(ops))
<1>1. Locked(ops) \in PlainSections
  BY SectionsStay DEF OnFail
<1>2. <<Locked(ops)>> \in Seq(PlainSections) /\ <<Locked(ops)>> # <<>>
  BY <1>1, Listed
<1> QED
  BY <1>2, PlainStays DEF One

LEMMA ShortProgramsStay ==
    ASSUME NEW reg \in Registers, NEW val \in Int
    PROVE  /\ Stays(status) /\ Stays(firmware) /\ Stays(setting(reg, val))
           /\ Stays(protection(reg, val)) /\ Stays(list_parameters)
           /\ Stays(get_parameter) /\ Stays(beep) /\ Stays(modbus_read_holding)
           /\ Stays(modbus_write_register(reg, val)) /\ Stays(profile_serial)
           /\ Stays(set_parameter(reg, val))
<1>1. Stays(status) /\ Stays(firmware) /\ Stays(list_parameters) /\ Stays(get_parameter)
  BY OneStays, Operations, Listed DEF status, firmware, list_parameters, get_parameter
<1>2. Stays(setting(reg, val)) /\ Stays(protection(reg, val))
  BY OneStays, Operations, Listed DEF setting, protection
<1>3. Stays(beep) /\ Stays(modbus_read_holding) /\ Stays(modbus_write_register(reg, val))
  BY OneStays, Operations, Listed DEF beep, modbus_read_holding, modbus_write_register
<1>4. Stays(profile_serial)
  <2>1. [i \in 1 .. Samples |-> Peek] \in Seq(Staying)
    BY Operations, SamplesAssumption
  <2>2. <<Peek>> \in Seq(Staying)
    BY Operations, Listed
  <2> QED
    BY <2>1, <2>2, Joined, OneStays DEF profile_serial
<1>5. Stays(set_parameter(reg, val))
  BY OneStays, Operations, Listed DEF set_parameter
<1> QED
  BY <1>1, <1>2, <1>3, <1>4, <1>5

LEMMA OpenStays == Stays(open)
<1>1. <<PortOpen, Attach, Peek>> \in Seq(Staying)
  <2>1. PortOpen \in Staying /\ Attach \in Staying /\ Peek \in Staying
    BY Operations DEF Registers, Settings
  <2> QED
    BY <2>1, Listed
<1>2. Lifecycle(<<PortOpen, Attach, Peek>>) \in PlainSections
  BY <1>1, SectionsStay DEF OnFail
<1> QED
  BY <1>2, Listed, PlainStays DEF open

(* The sections of the procedures.                                         *)
LEMMA Parts ==
    ASSUME NEW ops \in Seq(Staying), NEW onFail \in OnFail, NEW guarded \in BOOLEAN
    PROVE  /\ <<Locked(ops)>> \in Seq(PlainSections)
           /\ <<Tolerant(ops)>> \in Seq(PlainSections)
           /\ Loop(Tolerant(ops)) \in Seq(PlainSections)
           /\ Loop(Tolerant(ops)) # <<>>
           /\ <<InTry(ops)>> \in Seq(StayingSections)
           /\ Loop(Section(ops, onFail, guarded)) \in Seq(StayingSections)
<1>1. /\ Locked(ops) \in PlainSections /\ Tolerant(ops) \in PlainSections
      /\ InTry(ops) \in StayingSections
      /\ Section(ops, onFail, guarded) \in StayingSections
  BY SectionsStay
<1> QED
  BY <1>1, Listed, LoopStays

(* The sequences of operations the procedures are made of.                 *)
LEMMA Pieces ==
    ASSUME NEW reg \in Registers, NEW val \in Int, NEW reg2 \in Registers,
           NEW val2 \in Int, NEW reg3 \in Registers, NEW val3 \in Int
    PROVE  /\ <<Set(reg, val)>> \in Seq(Staying)
           /\ <<Set(reg, val), Set(reg2, val2)>> \in Seq(Staying)
           /\ <<Set(reg, val), Set(reg2, val2), Set(reg3, val3)>> \in Seq(Staying)
           /\ <<Set(reg, val), Update, Report>> \in Seq(Staying)
           /\ <<Set(reg, val), Set(reg2, val2), Update, Report>> \in Seq(Staying)
           /\ <<Update, Report>> \in Seq(Staying) /\ <<Update, Save>> \in Seq(Staying)
           /\ <<Sample>> \in Seq(Staying) /\ <<Peek>> \in Seq(Staying)
           /\ <<Restore>> \in Seq(Staying)
<1>1. \A r \in Registers, v \in Int : Set(r, v) \in Staying
  BY Operations
<1>2. /\ Update \in Staying /\ Report \in Staying /\ Save \in Staying
      /\ Sample \in Staying /\ Peek \in Staying /\ Restore \in Staying
  BY Operations
<1>3. /\ <<Set(reg, val)>> \in Seq(Staying)
      /\ <<Set(reg, val), Set(reg2, val2)>> \in Seq(Staying)
      /\ <<Set(reg, val), Set(reg2, val2), Set(reg3, val3)>> \in Seq(Staying)
  BY <1>1, Listed
<1>4. /\ <<Set(reg, val), Update, Report>> \in Seq(Staying)
      /\ <<Set(reg, val), Set(reg2, val2), Update, Report>> \in Seq(Staying)
  BY <1>1, <1>2, Listed
<1> QED
  BY <1>2, <1>3, <1>4, Listed

LEMMA Literals ==
    /\ "V_SET" \in Registers /\ "I_SET" \in Registers /\ "OUTPUT" \in Registers
    /\ 0 \in Int /\ Off \in Int /\ On \in Int /\ Low \in Int /\ Peak \in Int
    /\ "count" \in OnFail /\ "swallow" \in OnFail
    /\ TRUE \in BOOLEAN
BY DEF Registers, Settings, Off, On, Low, Peak, OnFail

LEMMA PowerCycleStays == Stays(power_cycle)
<1>1. <<Set("OUTPUT", Off)>> \in Seq(Staying)
  BY Pieces, Literals
<1>2. <<Set("OUTPUT", On), Update, Report>> \in Seq(Staying)
  BY Pieces, Literals
<1>3. /\ Locked(<<Set("OUTPUT", Off)>>) \in PlainSections
      /\ Locked(<<Set("OUTPUT", On), Update, Report>>) \in PlainSections
  BY <1>1, <1>2, SectionsStay, Literals
<1> QED
  BY <1>3, Listed, PlainStays DEF power_cycle

LEMMA WaveformStays == Stays(waveform)
<1>1. <<Locked(<<Set("OUTPUT", On)>>)>> \in Seq(PlainSections)
  BY Pieces, Literals, Parts
<1>2. Loop(Section(<<Set("V_SET", Low)>>, "count", TRUE)) \in Seq(StayingSections)
  BY Pieces, Literals, Parts
<1>3. <<Locked(<<Set("V_SET", Peak), Set("OUTPUT", Off), Update, Report>>)>>
        \in Seq(PlainSections)
  BY Pieces, Literals, Parts
<1> QED
  BY <1>1, <1>2, <1>3, Joined, Listed, PlainLift DEF waveform, Stays

LEMMA InrushStays == Stays(inrush_capture)
<1>1. <<Locked(<<Set("OUTPUT", Off), Set("V_SET", Peak), Set("I_SET", Peak)>>),
        Locked(<<Set("OUTPUT", On)>>)>> \in Seq(PlainSections)
  <2>1. /\ Locked(<<Set("OUTPUT", Off), Set("V_SET", Peak), Set("I_SET", Peak)>>)
              \in PlainSections
        /\ Locked(<<Set("OUTPUT", On)>>) \in PlainSections
    BY Pieces, Literals, SectionsStay
  <2> QED
    BY <2>1, Listed
<1>2. Loop(Tolerant(<<Sample>>)) \in Seq(PlainSections)
  BY Pieces, Literals, Parts
<1>3. <<Locked(<<Set("OUTPUT", Off)>>)>> \in Seq(PlainSections)
  BY Pieces, Literals, Parts
<1>4. <<Locked(<<Set("OUTPUT", Off), Set("V_SET", Peak), Set("I_SET", Peak)>>),
        Locked(<<Set("OUTPUT", On)>>)>> # <<>>
  BY Listed
<1> QED
  BY <1>1, <1>2, <1>3, <1>4, JoinedThree, PlainStays DEF inrush_capture

LEMMA VsweepStays == Stays(vsweep)
<1>1. <<Locked(<<Set("OUTPUT", Off), Set("V_SET", 0), Set("I_SET", Peak)>>),
        Locked(<<Set("OUTPUT", On)>>)>> \in Seq(PlainSections)
  <2>1. /\ Locked(<<Set("OUTPUT", Off), Set("V_SET", 0), Set("I_SET", Peak)>>)
              \in PlainSections
        /\ Locked(<<Set("OUTPUT", On)>>) \in PlainSections
    BY Pieces, Literals, SectionsStay
  <2> QED
    BY <2>1, Listed
<1>2. [i \in 1 .. 2 * Samples |-> IF i % 2 = 1 THEN Locked(<<Set("V_SET", Low)>>)
                                  ELSE Locked(<<Sample>>)] \in Seq(PlainSections)
  <2>1. /\ Locked(<<Set("V_SET", Low)>>) \in PlainSections
        /\ Locked(<<Sample>>) \in PlainSections
    BY Pieces, Literals, SectionsStay
  <2>2. 2 * Samples \in Nat
    BY SamplesAssumption
  <2> QED
    BY <2>1, <2>2
<1>3. <<Locked(<<Set("V_SET", 0), Set("OUTPUT", Off)>>)>> \in Seq(PlainSections)
  BY Pieces, Literals, Parts
<1>4. <<Locked(<<Set("OUTPUT", Off), Set("V_SET", 0), Set("I_SET", Peak)>>),
        Locked(<<Set("OUTPUT", On)>>)>> # <<>>
  BY Listed
<1> QED
  BY <1>1, <1>2, <1>3, <1>4, JoinedThree, PlainStays DEF vsweep

LEMMA DiffScanStays ==
    ASSUME NEW val \in {Off, On}
    PROVE  Stays(diff_scan(val))
<1>1. val \in Int /\ 1 - val \in Int
  BY DEF Off, On
<1>2. <<Locked(<<Update, Save>>)>> \in Seq(PlainSections)
  BY Pieces, Literals, Parts
<1>3. /\ <<InTry(<<Set("OUTPUT", 1 - val)>>)>> \in Seq(StayingSections)
      /\ <<InTry(<<Set("OUTPUT", val)>>)>> \in Seq(StayingSections)
  BY <1>1, Pieces, Literals, Parts
<1>4. Loop(Section(<<Peek>>, "swallow", TRUE)) \in Seq(StayingSections)
  BY Pieces, Literals, Parts
<1>5. <<Tolerant(<<Restore>>)>> \in Seq(PlainSections)
  BY Pieces, Literals, Parts
<1> DEFINE scan == Loop(Section(<<Peek>>, "swallow", TRUE))
            first == <<Locked(<<Update, Save>>)>>
            off == <<InTry(<<Set("OUTPUT", 1 - val)>>)>>
            on == <<InTry(<<Set("OUTPUT", val)>>)>>
<1>6. first \in Seq(StayingSections) /\ first # <<>>
  BY <1>2, Listed, PlainLift
<1>7. first \o off \o scan \in Seq(StayingSections) /\ first \o off \o scan # <<>>
  BY <1>3, <1>4, <1>6, JoinedThree
<1>8. /\ (first \o off \o scan) \o on \o scan \in Seq(StayingSections)
      /\ (first \o off \o scan) \o on \o scan # <<>>
  <2> DEFINE start == first \o off \o scan
  <2> HIDE DEF start
  <2> SUFFICES start \o on \o scan \in Seq(StayingSections) /\ start \o on \o scan # <<>>
    BY DEF start
  <2> QED
    BY <1>3, <1>4, <1>7, JoinedThree DEF start
<1>9. diff_scan(val).main = (first \o off \o scan) \o on \o scan
  BY DEF diff_scan
<1>10. diff_scan(val).final = <<Tolerant(<<Restore>>)>>
  BY DEF diff_scan
<1> HIDE DEF scan, first, off, on
<1> QED
  BY <1>5, <1>8, <1>9, <1>10, Listed DEF Stays

LEMMA PollsStay == Stays(register_scan) /\ Stays(log_sample) /\ Stays(log_status)
<1>1. Loop(Tolerant(<<Peek>>)) \in Seq(PlainSections)
  BY Pieces, Literals, Parts
<1>2. /\ <<Tolerant(<<Sample>>)>> \in Seq(PlainSections)
      /\ <<Tolerant(<<Update, Report>>)>> \in Seq(PlainSections)
  BY Pieces, Literals, Parts
<1> QED
  BY <1>1, <1>2, Parts, Pieces, Literals, Listed, PlainStays DEF register_scan,
     log_sample, log_status

LEMMA ProgramsStay ==
    ASSUME NEW c \in AllCommands, c.name # "close"
    PROVE  Stays(Program(c))
<1>1. /\ c.reg \in Registers /\ c.val \in Int
      /\ c.name = "diff_scan" => c.val \in {Off, On}
      /\ c.name \in CommandNames
  BY DEF AllCommands, Levels
<1>2. CASE c.name \in {"status", "firmware", "set", "protect", "list_parameters"}
  BY <1>1, <1>2, ShortProgramsStay DEF Program
<1>3. CASE c.name \in {"get_parameter", "beep", "modbus_read_holding",
                       "modbus_write_register", "profile_serial", "set_parameter"}
  BY <1>1, <1>3, ShortProgramsStay DEF Program
<1>4. CASE c.name \in {"open", "power_cycle", "waveform", "inrush_capture", "vsweep"}
  BY <1>4, OpenStays, PowerCycleStays, WaveformStays, InrushStays, VsweepStays DEF Program
<1>5. CASE c.name \in {"register_scan", "diff_scan", "log_sample", "log_status"}
  BY <1>1, <1>5, PollsStay, DiffScanStays DEF Program
<1> QED
  BY <1>1, <1>2, <1>3, <1>4, <1>5 DEF CommandNames

(* What the invariant needs of a program: it starts with a section, one    *)
(* with a section inside the try has a finally clause, and a section that  *)
(* detaches does not start with _assert_connected.                         *)
Sound(s) ==
    /\ Len(s.ops) \in Nat
    /\ \A k \in 1 .. Len(s.ops) : s.ops[k].do = "detach" => ~s.asserts

WellFormed(p) ==
    /\ Len(p.main) \in Nat \ {0}
    /\ Len(p.final) \in Nat
    /\ p.final # <<>> => Len(p.final) # 0
    /\ \A i \in 1 .. Len(p.main) :
          Sound(p.main[i]) /\ (p.main[i].guarded => p.final # <<>>)
    /\ \A i \in 1 .. Len(p.final) : Sound(p.final[i]) /\ ~p.final[i].guarded

LEMMA StayingIsSound == \A s \in StayingSections : Sound(s)
<1> SUFFICES ASSUME NEW s \in StayingSections, NEW k \in 1 .. Len(s.ops)
             PROVE  s.ops[k].do # "detach" /\ Len(s.ops) \in Nat
  BY DEF Sound, StayingSections
<1>1. s.ops \in Seq(Staying)
  BY DEF StayingSections
<1>2. s.ops[k] \in Staying
  BY <1>1
<1>3. s.ops[k].do \in StayingNames
  BY <1>2 DEF Staying
<1>4. s.ops[k].do # "detach"
  BY <1>3 DEF StayingNames
<1> QED
  BY <1>1, <1>4

LEMMA StaysWellFormed ==
    ASSUME NEW p, Stays(p)
    PROVE  WellFormed(p)
<1>1. \A i \in 1 .. Len(p.main) : p.main[i] \in StayingSections
  BY DEF Stays
<1>2. \A i \in 1 .. Len(p.final) : p.final[i] \in PlainSections
  BY DEF Stays
<1>3. p.final = <<>> => \A i \in 1 .. Len(p.main) : ~p.main[i].guarded
  BY DEF Stays, PlainSections
<1>4. Len(p.main) \in Nat \ {0} /\ Len(p.final) \in Nat
  BY DEF Stays
<1>5. p.final # <<>> => Len(p.final) # 0
  BY DEF Stays
<1> QED
  BY <1>1, <1>2, <1>3, <1>4, <1>5, StayingIsSound DEF WellFormed, PlainSections

LEMMA CloseWellFormed == WellFormed(close)
<1>1. /\ close.main = <<Lifecycle(<<Detach>>)>>
      /\ close.final = <<>>
  BY DEF close, Plain
<1>2. /\ Lifecycle(<<Detach>>).ops = <<Detach>>
      /\ Lifecycle(<<Detach>>).asserts = FALSE
      /\ Lifecycle(<<Detach>>).guarded = FALSE
  BY DEF Lifecycle, Section
<1> QED
  BY <1>1, <1>2 DEF WellFormed, Sound

LEMMA ProgramsWellFormed == \A c \in Commands : WellFormed(ProgramOf[c])
<1> SUFFICES ASSUME NEW c \in Commands
             PROVE  WellFormed(Program(c))
  BY DEF ProgramOf
<1>1. c \in AllCommands
  BY CommandsKnown
<1>2. CASE c.name = "close"
  BY <1>2, CloseWellFormed DEF Program
<1>3. CASE c.name # "close"
  BY <1>1, <1>3, ProgramsStay, StaysWellFormed
<1> QED
  BY <1>2, <1>3

---------------------------------------------------------------------------
(* The invariant.                                                          *)

SectionsAt(j) ==
    IF j.phase = "main" THEN ProgramOf[j.cmd].main ELSE ProgramOf[j.cmd].final

InProgram(j) == j.sec \in 1 .. Len(SectionsAt(j)) /\ j.op \in Nat \ {0}

(* A thread inside a section holds the lock; a thread that runs a command  *)
(* is at one of its sections; and a section that asserted the connection   *)
(* has it until the thread leaves.                                         *)
WorkerInv ==
    /\ TypeOK
    /\ \A t \in Threads : pc[t] = "inside" => lock = t
    /\ \A t \in Threads : pc[t] # "idle" => InProgram(job[t])
    /\ ConnectedInside

(* The thread leaves its section, for the next one or for its caller.      *)
Moved(t, j, label) ==
    /\ job' = [job EXCEPT ![t] = j]
    /\ pc' = [pc EXCEPT ![t] = label]
    /\ label # "idle" => InProgram(j)
    /\ result' \in [Threads -> {"none", "ok", "error"}]

LEMMA EndsMoves ==
    ASSUME TypeOK, NEW t \in Threads, NEW j, NEW ok \in BOOLEAN, Ends(t, j, ok)
    PROVE  Moved(t, j, "idle")
BY DEF Ends, Moved, Goto, TypeOK

LEMMA ProceedsMoves ==
    ASSUME WorkerInv, NEW t \in Threads, pc[t] # "idle",
           NEW j \in Jobs, j.cmd = job[t].cmd, j.phase = job[t].phase,
           j.sec = job[t].sec, Proceeds(t, j)
    PROVE  \E k \in Jobs, label \in {"idle", "enter"} : Moved(t, k, label)
<1> TypeOK /\ InProgram(job[t])
  BY DEF WorkerInv
<1>1. Sections(t) = SectionsAt(j) /\ Final(t) = ProgramOf[j.cmd].final
  BY DEF Sections, Final, SectionsAt
<1>2. j.cmd \in Commands /\ WellFormed(ProgramOf[j.cmd])
  BY ProgramsWellFormed DEF Jobs
<1>3. CASE j.sec < Len(Sections(t))
  <2> DEFINE k == [j EXCEPT !.sec = @ + 1, !.op = 1]
  <2>1. k \in Jobs
    <3>1. j.sec + 1 \in Nat /\ 1 \in Nat
      BY DEF Jobs
    <3> QED
      BY <3>1, Zenon DEF Jobs
  <2>2. k.phase = j.phase /\ k.cmd = j.cmd /\ k.sec = j.sec + 1 /\ k.op = 1
    BY DEF Jobs
  <2>3. InProgram(k)
    BY <1>1, <1>2, <1>3, <2>2 DEF InProgram, SectionsAt, WellFormed, Jobs
  <2>4. Continues(t, k)
    BY <1>3 DEF Proceeds
  <2>5. Moved(t, k, "enter")
    BY <2>3, <2>4 DEF Continues, Moved, Goto, TypeOK
  <2> QED
    BY <2>1, <2>5
<1>4. CASE ~(j.sec < Len(Sections(t))) /\ j.phase = "main" /\ Final(t) # <<>>
  <2> DEFINE k == [j EXCEPT !.phase = "final", !.sec = 1, !.op = 1]
  <2>1. k \in Jobs
    BY DEF Jobs
  <2>2. k.phase = "final" /\ k.cmd = j.cmd /\ k.sec = 1 /\ k.op = 1
    BY DEF Jobs
  <2>3. InProgram(k)
    BY <1>1, <1>2, <1>4, <2>2 DEF InProgram, SectionsAt, WellFormed
  <2>4. Continues(t, k)
    BY <1>4 DEF Proceeds
  <2>5. Moved(t, k, "enter")
    BY <2>3, <2>4 DEF Continues, Moved, Goto, TypeOK
  <2> QED
    BY <2>1, <2>5
<1>5. CASE ~(j.sec < Len(Sections(t))) /\ ~(j.phase = "main" /\ Final(t) # <<>>)
  <2>1. Ends(t, j, ~j.exc)
    BY <1>5 DEF Proceeds
  <2> QED
    BY <2>1, EndsMoves
<1> QED
  BY <1>3, <1>4, <1>5

LEMMA RaisesMoves ==
    ASSUME WorkerInv, NEW t \in Threads, pc[t] # "idle",
           NEW j \in Jobs, j.cmd = job[t].cmd, Raises(t, j)
    PROVE  \E k \in Jobs, label \in {"idle", "enter"} : Moved(t, k, label)
<1> TypeOK /\ InProgram(job[t]) /\ job[t] \in Jobs
  BY DEF WorkerInv, TypeOK
<1>1. Sections(t) = SectionsAt(job[t]) /\ Final(t) = ProgramOf[j.cmd].final
  BY DEF Sections, Final, SectionsAt
<1>2. j.cmd \in Commands /\ WellFormed(ProgramOf[j.cmd])
  BY ProgramsWellFormed DEF Jobs
<1>3. CASE Here(t).guarded
  <2> DEFINE k == [j EXCEPT !.phase = "final", !.sec = 1, !.op = 1, !.exc = TRUE]
  <2>1. k \in Jobs
    BY DEF Jobs
  <2>2. k.phase = "final" /\ k.cmd = j.cmd /\ k.sec = 1 /\ k.op = 1
    BY DEF Jobs
  <2>3. Final(t) # <<>>
    BY <1>1, <1>2, <1>3 DEF Here, InProgram, SectionsAt, WellFormed, Jobs
  <2>4. InProgram(k)
    BY <1>1, <1>2, <2>2, <2>3 DEF InProgram, SectionsAt, WellFormed
  <2>5. Continues(t, k)
    BY <1>3 DEF Raises
  <2>6. Moved(t, k, "enter")
    BY <2>4, <2>5 DEF Continues, Moved, Goto, TypeOK
  <2> QED
    BY <2>1, <2>6
<1>4. CASE ~Here(t).guarded
  <2> DEFINE k == [j EXCEPT !.exc = TRUE]
  <2>1. k \in Jobs
    BY DEF Jobs
  <2>2. Ends(t, k, FALSE)
    BY <1>4 DEF Raises
  <2>3. Moved(t, k, "idle")
    BY <2>2, EndsMoves
  <2> QED
    BY <2>1, <2>3
<1> QED
  BY <1>3, <1>4

LEMMA FailsMoves ==
    ASSUME WorkerInv, NEW t \in Threads, pc[t] # "idle", Fails(t)
    PROVE  \E k \in Jobs, label \in {"idle", "enter"} : Moved(t, k, label)
<1> DEFINE j == [job[t] EXCEPT !.failed = <<job[t].phase, job[t].sec>>]
           k == [j EXCEPT !.errs = @ + 1]
<1>1. job[t] \in Jobs
  BY DEF WorkerInv, TypeOK
<1>2. /\ j \in Jobs
      /\ j.cmd = job[t].cmd /\ j.phase = job[t].phase /\ j.sec = job[t].sec
  BY <1>1 DEF Jobs
<1>3. k.cmd = j.cmd /\ k.phase = j.phase /\ k.sec = j.sec
  BY <1>2 DEF Jobs
<1>4. j.errs < MaxErrs => k \in Jobs
  <2>1. ASSUME j.errs < MaxErrs
        PROVE  j.errs + 1 \in 0 .. MaxErrs
    BY <1>2, <2>1, WorkerAssumption DEF Jobs
  <2> QED
    BY <1>2, <2>1 DEF Jobs
<1>5. \/ Proceeds(t, j)
      \/ j.errs < MaxErrs /\ Proceeds(t, k)
      \/ Raises(t, j)
  BY DEF Fails
<1> HIDE DEF j, k
<1> QED
  BY <1>2, <1>3, <1>4, <1>5, ProceedsMoves, RaisesMoves

(* What a step leaves well typed besides the places of the threads.        *)
RestTyped ==
    /\ DOMAIN dev = Registers
    /\ opens \in Nat
    /\ psu \in 0 .. opens
    /\ DOMAIN cache = StatusRegisters
    /\ onBy \in Threads \cup {Free}

(* A thread that leaves its section, holding the lock or not, leaves the   *)
(* other threads where they are.                                           *)
LEMMA MoveKeeps ==
    ASSUME WorkerInv, NEW t \in Threads, NEW j \in Jobs, NEW label \in {"idle", "enter"},
           Moved(t, j, label), RestTyped', psu' = psu,
           lock' = IF pc[t] = "inside" THEN Free ELSE lock
    PROVE  WorkerInv'
<1>1. TypeOK'
  BY DEF WorkerInv, TypeOK, Moved, RestTyped
<1>2. pc'[t] = label /\ job'[t] = j
  BY DEF WorkerInv, TypeOK, Moved
<1>3. \A u \in Threads : u # t => pc'[u] = pc[u] /\ job'[u] = job[u]
  BY DEF WorkerInv, TypeOK, Moved
<1>4. \A u \in Threads : pc'[u] = "inside" => u # t /\ pc[u] = "inside" /\ lock = u
  BY <1>2, <1>3 DEF WorkerInv
<1>5. \A u \in Threads : pc'[u] = "inside" => lock' = u
  BY <1>4 DEF WorkerInv
<1>6. \A u \in Threads : pc'[u] # "idle" => InProgram(job'[u])
  BY <1>2, <1>3 DEF WorkerInv, Moved
<1>7. ConnectedInside'
  BY <1>3, <1>4 DEF WorkerInv, ConnectedInside, Here, Sections, Final
<1> QED
  BY <1>1, <1>5, <1>6, <1>7 DEF WorkerInv, InProgram, SectionsAt

(* A thread that goes on inside its section.                               *)
LEMMA NextOpKeeps ==
    ASSUME WorkerInv, NEW t \in Threads, pc[t] = "inside", NextOp(t), RestTyped',
           Here(t).asserts => psu' # 0
    PROVE  WorkerInv'
<1> DEFINE k == [job[t] EXCEPT !.op = @ + 1]
<1>1. job[t] \in Jobs /\ job[t].op + 1 \in Nat
  BY DEF WorkerInv, TypeOK, Jobs
<1>2. k \in Jobs
  BY <1>1, Zenon DEF Jobs
<1>3. /\ k.cmd = job[t].cmd /\ k.phase = job[t].phase /\ k.sec = job[t].sec
      /\ k.op = job[t].op + 1
  BY <1>1 DEF Jobs
<1>4. job' = [job EXCEPT ![t] = k] /\ UNCHANGED <<pc, lock, result>>
  BY DEF NextOp
<1> HIDE DEF k
<1>5. job'[t] = k /\ \A u \in Threads : u # t => job'[u] = job[u]
  BY <1>4 DEF WorkerInv, TypeOK
<1>6. TypeOK'
  BY <1>2, <1>4 DEF WorkerInv, TypeOK, RestTyped
<1>7. \A u \in Threads : pc'[u] # "idle" => InProgram(job'[u])
  <2>1. InProgram(job[t]) => InProgram(k)
    BY <1>3 DEF InProgram, SectionsAt
  <2> QED
    BY <1>4, <1>5, <2>1 DEF WorkerInv
<1>8. \A u \in Threads : pc'[u] = "inside" => u = t /\ lock' = u
  BY <1>4 DEF WorkerInv
<1>9. Here(t)' = Here(t)
  BY <1>3, <1>5 DEF Here, Sections, Final
<1>10. ConnectedInside'
  BY <1>8, <1>9 DEF ConnectedInside
<1> QED
  BY <1>4, <1>6, <1>7, <1>8, <1>10 DEF WorkerInv, InProgram, SectionsAt

LEMMA WorkerInit == Init => WorkerInv
<1> SUFFICES ASSUME Init PROVE WorkerInv
  OBVIOUS
<1>1. Starting(Plainly("status")) \in Jobs
  BY WorkerAssumption DEF Starting, Jobs, Commands
<1>2. TypeOK
  BY <1>1 DEF Init, TypeOK, NoStatus
<1> QED
  BY <1>2 DEF Init, WorkerInv, ConnectedInside

LEMMA DetachUnasserted ==
    ASSUME WorkerInv, NEW t \in Threads, Does(t, {"detach"})
    PROVE  ~Here(t).asserts
<1>1. /\ pc[t] = "inside"
      /\ Here(t).ops[job[t].op].do = "detach"
      /\ ~(job[t].op > Len(Here(t).ops))
  BY DEF Does, AtEnd
<1>2. InProgram(job[t]) /\ job[t].op \in Nat \ {0} /\ job[t].cmd \in Commands
  BY <1>1 DEF WorkerInv, TypeOK, InProgram, Jobs
<1>3. Sound(Here(t))
  BY <1>2, ProgramsWellFormed
     DEF Here, Sections, Final, InProgram, SectionsAt, WellFormed
<1>4. job[t].op \in 1 .. Len(Here(t).ops)
  BY <1>1, <1>2, <1>3 DEF Sound
<1> QED
  BY <1>1, <1>3, <1>4 DEF Sound

LEMMA CallKeeps ==
    ASSUME WorkerInv, NEW t \in Threads, Call(t)
    PROVE  WorkerInv'
<1>1. PICK c \in Menu[t] : job' = [job EXCEPT ![t] = Starting(c)]
  BY DEF Call
<1>2. c \in Commands
  BY DEF Commands
<1>3. Starting(c) \in Jobs /\ InProgram(Starting(c))
  <2>1. Starting(c) \in Jobs
    BY <1>2, WorkerAssumption DEF Starting, Jobs
  <2>2. WellFormed(ProgramOf[c])
    BY <1>2, ProgramsWellFormed
  <2> QED
    BY <2>1, <2>2 DEF Starting, InProgram, SectionsAt, WellFormed
<1>4. Moved(t, Starting(c), "enter")
  BY <1>1, <1>3 DEF Call, Moved, Goto, WorkerInv, TypeOK
<1>5. RestTyped' /\ psu' = psu /\ lock' = lock /\ pc[t] = "idle"
  BY DEF Call, RestTyped, WorkerInv, TypeOK
<1> QED
  BY <1>3, <1>4, <1>5, MoveKeeps

LEMMA AcquireKeeps ==
    ASSUME WorkerInv, NEW t \in Threads, Acquire(t)
    PROVE  WorkerInv'
<1>1. /\ pc[t] = "enter" /\ lock = Free /\ lock' = t
      /\ pc' = [pc EXCEPT ![t] = "inside"]
      /\ Here(t).asserts => psu # 0
      /\ UNCHANGED <<dev, psu, opens, cache, job, result, onBy>>
  BY DEF Acquire, Goto
<1>2. TypeOK'
  BY <1>1 DEF WorkerInv, TypeOK
<1>3. \A u \in Threads : pc'[u] = "inside" => u = t
  BY <1>1, WorkerAssumption DEF WorkerInv, TypeOK
<1>4. \A u \in Threads : pc'[u] # "idle" => InProgram(job'[u])
  BY <1>1 DEF WorkerInv, TypeOK
<1>5. ConnectedInside'
  BY <1>1, <1>3 DEF ConnectedInside, Here, Sections, Final
<1> QED
  BY <1>1, <1>2, <1>3, <1>4, <1>5 DEF WorkerInv, InProgram, SectionsAt

LEMMA AbortKeeps ==
    ASSUME WorkerInv, NEW t \in Threads, pc[t] = "inside", Aborts(t), psu' = psu, RestTyped'
    PROVE  WorkerInv'
BY FailsMoves, MoveKeeps DEF Aborts

(* A step of a thread that does not raise.                                 *)
LEMMA OperationKeeps ==
    ASSUME WorkerInv, NEW t \in Threads,
           \/ WriteReturns(t) \/ Updates(t) \/ Measures(t) \/ Peeks(t) \/ Attaches(t)
           \/ PortOpens(t) \/ Detaches(t) \/ Reports(t) \/ Saves(t)
    PROVE  WorkerInv'
<1>1. pc[t] = "inside" /\ NextOp(t)
  BY DEF WriteReturns, Writing, Updates, Measures, Peeks, Attaches, PortOpens, Detaches,
         Reports, Saves, Does
<1>2. RestTyped /\ (Here(t).asserts => psu # 0)
  BY <1>1 DEF WorkerInv, TypeOK, RestTyped, ConnectedInside
<1>3. CASE WriteReturns(t)
  <2>1. RestTyped' /\ psu' = psu
    BY <1>2, <1>3 DEF WriteReturns, Applies, Caches, RestTyped
  <2> QED
    BY <1>1, <1>2, <2>1, NextOpKeeps
<1>4. CASE Updates(t)
  <2>1. RestTyped' /\ psu' = psu
    BY <1>2, <1>4 DEF Updates, StatusOf, RestTyped
  <2> QED
    BY <1>1, <1>2, <2>1, NextOpKeeps
<1>5. CASE Measures(t) \/ Peeks(t) \/ PortOpens(t) \/ Reports(t) \/ Saves(t)
  <2>1. RestTyped' /\ psu' = psu
    BY <1>2, <1>5 DEF Measures, Peeks, PortOpens, Reports, Saves, RestTyped
  <2> QED
    BY <1>1, <1>2, <2>1, NextOpKeeps
<1>6. CASE Attaches(t)
  <2>1. RestTyped' /\ psu' # 0
    BY <1>2, <1>6 DEF Attaches, StatusOf, RestTyped
  <2> QED
    BY <1>1, <2>1, NextOpKeeps
<1>7. CASE Detaches(t)
  <2>1. RestTyped'
    BY <1>2, <1>7 DEF Detaches, RestTyped
  <2>2. ~Here(t).asserts
    BY <1>7, DetachUnasserted DEF Detaches
  <2> QED
    BY <1>1, <2>1, <2>2, NextOpKeeps
<1> QED
  BY <1>3, <1>4, <1>5, <1>6, <1>7

(* A step of a thread that raises.                                         *)
LEMMA FailureKeeps ==
    ASSUME WorkerInv, NEW t \in Threads,
           \/ WriteUnacknowledged(t) \/ WriteFails(t) \/ ReadFails(t) \/ TypeFails(t)
           \/ PortFails(t)
    PROVE  WorkerInv'
<1>1. pc[t] = "inside" /\ psu' = psu
  BY DEF WriteUnacknowledged, WriteFails, Writing, ReadFails, Reading, TypeFails, PortFails,
         Does
<1>2. RestTyped
  BY DEF WorkerInv, TypeOK, RestTyped
<1>3. CASE WriteUnacknowledged(t)
  <2>1. RestTyped' /\ Aborts(t)
    BY <1>2, <1>3 DEF WriteUnacknowledged, Applies, Caches, RestTyped
  <2> QED
    BY <1>1, <2>1, AbortKeeps
<1>4. CASE WriteFails(t)
  <2>1. RestTyped' /\ Aborts(t)
    BY <1>2, <1>4 DEF WriteFails, Caches, RestTyped
  <2> QED
    BY <1>1, <2>1, AbortKeeps
<1>5. CASE ReadFails(t) \/ TypeFails(t)
  <2>1. RestTyped' /\ Aborts(t)
    BY <1>2, <1>5 DEF ReadFails, TypeFails, RestTyped
  <2> QED
    BY <1>1, <2>1, AbortKeeps
<1>6. CASE PortFails(t)
  <2> DEFINE k == [job[t] EXCEPT !.exc = TRUE]
  <2>1. RestTyped' /\ lock' = Free /\ Ends(t, k, FALSE)
    BY <1>2, <1>6 DEF PortFails, RestTyped
  <2>2. k \in Jobs
    <3>1. job[t] \in Jobs
      BY DEF WorkerInv, TypeOK
    <3> QED
      BY <3>1 DEF Jobs
  <2>3. Moved(t, k, "idle")
    BY <2>1, EndsMoves DEF WorkerInv
  <2> QED
    BY <1>1, <2>1, <2>2, <2>3, MoveKeeps
<1> QED
  BY <1>3, <1>4, <1>5, <1>6

(* A step that releases or passes the lock, and one that stores a sample.  *)
LEMMA BetweenKeeps ==
    ASSUME WorkerInv, NEW t \in Threads, NotConnected(t) \/ Leave(t) \/ Convert(t)
    PROVE  WorkerInv'
<1>1. RestTyped
  BY DEF WorkerInv, TypeOK, RestTyped
<1>2. job[t] \in Jobs
  BY DEF WorkerInv, TypeOK
<1>3. CASE NotConnected(t)
  <2>1. /\ RestTyped' /\ psu' = psu /\ lock' = lock
        /\ pc[t] = "enter" /\ Fails(t)
    BY <1>1, <1>3 DEF NotConnected, RestTyped
  <2> QED
    BY <2>1, FailsMoves, MoveKeeps
<1>4. CASE Leave(t) /\ raw[t] = NoRaw
  <2>1. /\ RestTyped' /\ psu' = psu /\ lock' = Free
        /\ pc[t] = "inside" /\ Proceeds(t, job[t])
    BY <1>1, <1>4 DEF Leave, RestTyped
  <2> QED
    BY <1>2, <2>1, ProceedsMoves, MoveKeeps
<1>5. CASE Leave(t) /\ raw[t] # NoRaw
  <2>1. /\ RestTyped' /\ psu' = psu /\ lock' = Free /\ pc[t] = "inside"
        /\ pc' = [pc EXCEPT ![t] = "convert"]
        /\ UNCHANGED <<job, result>>
    BY <1>1, <1>5 DEF Leave, RestTyped, Goto
  <2>2. TypeOK'
    BY <2>1 DEF WorkerInv, TypeOK, RestTyped
  <2>3. \A u \in Threads : pc'[u] # "inside"
    BY <2>1 DEF WorkerInv, TypeOK
  <2>4. \A u \in Threads : pc'[u] # "idle" => InProgram(job'[u])
    BY <2>1 DEF WorkerInv, TypeOK
  <2> QED
    BY <2>2, <2>3, <2>4 DEF WorkerInv, ConnectedInside, InProgram, SectionsAt
<1>6. CASE Convert(t)
  <2>1. /\ RestTyped' /\ psu' = psu /\ lock' = lock
        /\ pc[t] = "convert" /\ Proceeds(t, job[t])
    BY <1>1, <1>6 DEF Convert, RestTyped
  <2> QED
    BY <1>2, <2>1, ProceedsMoves, MoveKeeps
<1> QED
  BY <1>3, <1>4, <1>5, <1>6

LEMMA WorkerStep == WorkerInv /\ [Next]_vars => WorkerInv'
<1> SUFFICES ASSUME WorkerInv, [Next]_vars
             PROVE  WorkerInv'
  OBVIOUS
<1>1. ASSUME NEW t \in Threads, Call(t) \/ Enter(t)
      PROVE  WorkerInv'
  BY <1>1, CallKeeps, AcquireKeeps, BetweenKeeps DEF Enter
<1>2. ASSUME NEW t \in Threads, Inside(t)
      PROVE  WorkerInv'
  BY <1>2, OperationKeeps, FailureKeeps, BetweenKeeps DEF Inside
<1>3. CASE Refresh
  <2>1. DOMAIN dev' = Registers
    BY <1>3 DEF Refresh, WorkerInv, TypeOK
  <2>2. UNCHANGED <<psu, opens, cache, lock, pc, job, result, onBy>>
    BY <1>3 DEF Refresh
  <2> QED
    BY <2>1, <2>2 DEF WorkerInv, TypeOK, ConnectedInside, Here, Sections, Final, InProgram,
                      SectionsAt
<1>4. CASE UNCHANGED vars
  BY <1>4 DEF vars, WorkerInv, TypeOK, ConnectedInside, Here, Sections, Final, InProgram,
              SectionsAt
<1> QED
  BY <1>1, <1>2, <1>3, <1>4 DEF Next

LEMMA WorkerInvariant == Spec => []WorkerInv
BY WorkerInit, WorkerStep, PTL DEF Spec

(* The types of the worker's state; waveform never counts more write       *)
(* errors than it tolerates.                                               *)
THEOREM WorkerTypes == Spec => []TypeOK
BY WorkerInvariant, PTL DEF WorkerInv

(* RidenWorker: "All Modbus I/O is serialised through _lock", whatever     *)
(* commands run in any number of threads, and however they fail.           *)
THEOREM WorkerOneAtATime == Spec => []OneAtATime
<1>1. WorkerInv => OneAtATime
  BY DEF WorkerInv, OneAtATime
<1> QED
  BY <1>1, WorkerInvariant, PTL

(* _assert_connected: no section makes its Modbus calls through a worker   *)
(* that was closed, since only close detaches and it needs the lock.       *)
THEOREM WorkerConnectedInside == Spec => []ConnectedInside
BY WorkerInvariant, PTL DEF WorkerInv

---------------------------------------------------------------------------
(* The shapes of the procedures and of a setting.                          *)

(* The section a command starts with, and what all later ones are.         *)
Starts(m, a, S) ==
    /\ m \in Seq({a} \cup S)
    /\ m # <<>>
    /\ m[1] = a
    /\ \A i \in 2 .. Len(m) : m[i] \in S

LEMMA StartsAlone ==
    ASSUME NEW a, NEW S
    PROVE  Starts(<<a>>, a, S)
BY DEF Starts

LEMMA StartsOn ==
    ASSUME NEW a, NEW S, NEW m, NEW r \in Seq(S), Starts(m, a, S)
    PROVE  Starts(m \o r, a, S)
<1>1. m \in Seq({a} \cup S) /\ r \in Seq({a} \cup S) /\ Len(m) \in Nat \ {0} /\ Len(r) \in Nat
  BY DEF Starts
<1>2. /\ m \o r \in Seq({a} \cup S)
      /\ Len(m \o r) = Len(m) + Len(r)
      /\ \A i \in 1 .. Len(m) + Len(r) : (m \o r)[i] =
             IF i <= Len(m) THEN m[i] ELSE r[i - Len(m)]
  BY <1>1, ConcatProperties
<1> DEFINE mr == m \o r
<1> HIDE DEF mr
<1>3. mr \in Seq({a} \cup S) /\ Len(mr) = Len(m) + Len(r)
      /\ \A i \in 1 .. Len(m) + Len(r) : mr[i] = IF i <= Len(m) THEN m[i] ELSE r[i - Len(m)]
  BY <1>2 DEF mr
<1>4. mr # <<>> /\ mr[1] = a
  BY <1>1, <1>3 DEF Starts
<1>5. ASSUME NEW i \in 2 .. Len(mr)
      PROVE  mr[i] \in S
  <2>1. CASE i <= Len(m)
    BY <1>1, <1>3, <2>1 DEF Starts
  <2>2. CASE ~(i <= Len(m))
    <3>1. i - Len(m) \in 1 .. Len(r) /\ i \in 1 .. Len(m) + Len(r)
      BY <1>1, <1>3, <2>2
    <3>2. r[i - Len(m)] \in S
      BY <3>1
    <3> QED
      BY <1>3, <2>2, <3>1, <3>2
  <2> QED
    BY <2>1, <2>2
<1> QED
  BY <1>3, <1>4, <1>5 DEF Starts, mr

LEMMA Appended ==
    ASSUME NEW S, NEW r \in Seq(S), NEW e \in Seq(S), Len(e) = 1
    PROVE  /\ Len(r \o e) = Len(r) + 1
           /\ (r \o e)[Len(r) + 1] = e[1]
<1>1. Len(r) \in Nat
  OBVIOUS
<1>2. Len(r \o e) = Len(r) + 1
  <2>1. Len(r \o e) = Len(r) + Len(e)
    BY ConcatProperties, Zenon
  <2> QED
    BY <2>1
<1>3. Len(r) + 1 \in 1 .. Len(r) + Len(e) /\ ~(Len(r) + 1 <= Len(r))
      /\ Len(r) + 1 - Len(r) = 1
  BY <1>1
<1>4. (r \o e)[Len(r) + 1] = e[Len(r) + 1 - Len(r)]
  BY <1>3, ConcatProperties
<1> QED
  BY <1>2, <1>3, <1>4

LEMMA LastAfter ==
    ASSUME NEW S, NEW a \in S, NEW b \in S, NEW d \in S, NEW n \in Nat,
           NEW f \in [1 .. n -> S]
    PROVE  LET m == <<a, b>> \o f \o <<d>>
           IN  m[Len(m)] = d
<1>1. <<a, b>> \in Seq(S) /\ f \in Seq(S) /\ <<d>> \in Seq(S)
      /\ Len(<<d>>) = 1 /\ <<d>>[1] = d
  OBVIOUS
<1> DEFINE h == <<a, b>>
           e == <<d>>
<1> HIDE DEF h, e
<1>2. h \o f \in Seq(S) /\ e \in Seq(S) /\ Len(e) = 1 /\ e[1] = d
  BY <1>1, ConcatProperties DEF h, e
<1> DEFINE r == h \o f
<1>3. r \in Seq(S)
  BY <1>2
<1> HIDE DEF r
<1>4. Len(r \o e) = Len(r) + 1 /\ (r \o e)[Len(r) + 1] = e[1]
  BY <1>2, <1>3, Appended
<1>5. (r \o e)[Len(r \o e)] = d
  BY <1>2, <1>4
<1> QED
  BY <1>5 DEF h, e, r

(* The sections inside the try of waveform and diff_scan, and what both    *)
(* have in common: one section before the try, one in the finally clause,  *)
(* none that opens the port.                                               *)
Portless(s) == \A k \in 1 .. Len(s.ops) : s.ops[k].do # "port_open"

Trying(p) ==
    /\ Len(p.final) = 1 /\ ~p.final[1].guarded /\ Portless(p.final[1])
    /\ Portless(p.main[1])
    /\ \A i \in 2 .. Len(p.main) : p.main[i].guarded /\ Portless(p.main[i])

LEMMA WaveformShape ==
    /\ Trying(waveform)
    /\ waveform.final[1].onFail = "raise"
    /\ Len(waveform.final[1].ops) = 4
    /\ waveform.final[1].ops[2] = Set("OUTPUT", Off)
    /\ waveform.final[1].ops[3] = Update /\ waveform.final[1].ops[4] = Report
<1> DEFINE a == Locked(<<Set("OUTPUT", On)>>)
           s == Section(<<Set("V_SET", Low)>>, "count", TRUE)
           e == Locked(<<Set("V_SET", Peak), Set("OUTPUT", Off), Update, Report>>)
<1>1. waveform.main = <<a>> \o Loop(s) /\ waveform.final = <<e>>
  BY DEF waveform
<1>2. Portless(a) /\ Portless(s) /\ s.guarded
  BY DEF Portless, Locked, Section, Set, Op
<1>3. /\ e.onFail = "raise" /\ Len(e.ops) = 4 /\ e.ops[2] = Set("OUTPUT", Off)
      /\ e.ops[3] = Update /\ e.ops[4] = Report /\ ~e.guarded
      /\ e.ops[1] = Set("V_SET", Peak)
  BY DEF Locked, Section
<1>4. Portless(e)
  BY <1>3 DEF Portless, Set, Update, Report, Op
<1> HIDE DEF a, s, e
<1>5. Loop(s) \in Seq({s})
  BY SamplesAssumption DEF Loop
<1>6. Starts(waveform.main, a, {s})
  BY <1>1, <1>5, StartsAlone, StartsOn
<1>7. /\ waveform.main[1] = a
      /\ \A i \in 2 .. Len(waveform.main) : waveform.main[i] = s
  BY <1>6 DEF Starts
<1>8. Len(waveform.final) = 1 /\ waveform.final[1] = e
  BY <1>1
<1> QED
  BY <1>2, <1>3, <1>4, <1>7, <1>8 DEF Trying

LEMMA DiffScanShape ==
    ASSUME NEW val
    PROVE  /\ Trying(diff_scan(val))
           /\ diff_scan(val).final[1].ops = <<Restore>>
<1> DEFINE a == Locked(<<Update, Save>>)
           b == InTry(<<Set("OUTPUT", 1 - val)>>)
           d == InTry(<<Set("OUTPUT", val)>>)
           s == Section(<<Peek>>, "swallow", TRUE)
           e == Tolerant(<<Restore>>)
           S == {b, d, s}
<1>1. /\ diff_scan(val).main = <<a>> \o <<b>> \o Loop(s) \o <<d>> \o Loop(s)
      /\ diff_scan(val).final = <<e>>
  BY DEF diff_scan
<1>2. \A x \in S : Portless(x) /\ x.guarded
  BY DEF Portless, InTry, Section, Set, Op, Peek
<1>3. Portless(a)
  BY DEF Portless, Locked, Section, Update, Save, Op
<1>4. e.ops = <<Restore>> /\ ~e.guarded /\ Portless(e)
  BY DEF Portless, Tolerant, Section, Restore, Op
<1>5. Loop(s) \in Seq(S) /\ <<b>> \in Seq(S) /\ <<d>> \in Seq(S)
  BY SamplesAssumption DEF Loop
<1> HIDE DEF a, b, d, s, e, S
<1>6. Starts(<<a>> \o <<b>> \o Loop(s), a, S)
  BY <1>5, StartsAlone, StartsOn
<1>7. Starts(<<a>> \o <<b>> \o Loop(s) \o <<d>> \o Loop(s), a, S)
  BY <1>5, <1>6, StartsOn
<1>8. /\ diff_scan(val).main[1] = a
      /\ \A i \in 2 .. Len(diff_scan(val).main) : diff_scan(val).main[i] \in S
  BY <1>1, <1>7 DEF Starts
<1>9. Len(diff_scan(val).final) = 1 /\ diff_scan(val).final[1] = e
  BY <1>1
<1> QED
  BY <1>2, <1>3, <1>4, <1>8, <1>9 DEF Trying

(* The last section of inrush_capture and vsweep.                          *)
Switching(p, n) ==
    /\ p.final = <<>>
    /\ p.main[Len(p.main)].onFail = "raise"
    /\ Len(p.main[Len(p.main)].ops) = n
    /\ p.main[Len(p.main)].ops[n] = Set("OUTPUT", Off)

LEMMA InrushShape == Switching(inrush_capture, 1)
<1> DEFINE a == Locked(<<Set("OUTPUT", Off), Set("V_SET", Peak), Set("I_SET", Peak)>>)
           b == Locked(<<Set("OUTPUT", On)>>)
           s == Tolerant(<<Sample>>)
           d == Locked(<<Set("OUTPUT", Off)>>)
<1>1. inrush_capture.main = <<a, b>> \o Loop(s) \o <<d>> /\ inrush_capture.final = <<>>
  BY DEF inrush_capture, Plain
<1>2. d.onFail = "raise" /\ Len(d.ops) = 1 /\ d.ops[1] = Set("OUTPUT", Off)
  BY DEF Locked, Section
<1> HIDE DEF a, b, s, d
<1>3. Loop(s) \in [1 .. Samples -> {a, b, s, d}] /\ Samples \in Nat
  BY SamplesAssumption DEF Loop
<1>4. inrush_capture.main[Len(inrush_capture.main)] = d
  BY <1>1, <1>3, LastAfter
<1> QED
  BY <1>1, <1>2, <1>4 DEF Switching

LEMMA VsweepShape == Switching(vsweep, 2)
<1> DEFINE a == Locked(<<Set("OUTPUT", Off), Set("V_SET", 0), Set("I_SET", Peak)>>)
           b == Locked(<<Set("OUTPUT", On)>>)
           r == Locked(<<Set("V_SET", Low)>>)
           s == Locked(<<Sample>>)
           d == Locked(<<Set("V_SET", 0), Set("OUTPUT", Off)>>)
           f == [i \in 1 .. 2 * Samples |-> IF i % 2 = 1 THEN r ELSE s]
<1>1. vsweep.main = <<a, b>> \o f \o <<d>> /\ vsweep.final = <<>>
  BY DEF vsweep, Plain
<1>2. d.onFail = "raise" /\ Len(d.ops) = 2 /\ d.ops[2] = Set("OUTPUT", Off)
  BY DEF Locked, Section
<1> HIDE DEF a, b, r, s, d
<1>3. f \in [1 .. 2 * Samples -> {a, b, r, s, d}] /\ 2 * Samples \in Nat
  BY SamplesAssumption
<1> HIDE DEF f
<1>4. vsweep.main[Len(vsweep.main)] = d
  BY <1>1, <1>3, LastAfter
<1> QED
  BY <1>1, <1>2, <1>4 DEF Switching

LEMMA SettingShape ==
    ASSUME NEW reg, NEW val
    PROVE  LET s == setting(reg, val).main[1]
           IN  /\ setting(reg, val).final = <<>> /\ Len(setting(reg, val).main) = 1
               /\ s.onFail = "raise" /\ Len(s.ops) = 3
               /\ s.ops[1] = Set(reg, val) /\ s.ops[2] = Update /\ s.ops[3] = Report
<1> DEFINE e == Locked(<<Set(reg, val), Update, Report>>)
<1>1. setting(reg, val).main = <<e>> /\ setting(reg, val).final = <<>>
  BY DEF setting, One, Plain
<1>2. /\ e.onFail = "raise" /\ Len(e.ops) = 3
      /\ e.ops[1] = Set(reg, val) /\ e.ops[2] = Update /\ e.ops[3] = Report
  BY DEF Locked, Section
<1> HIDE DEF e
<1>3. Len(setting(reg, val).main) = 1 /\ setting(reg, val).main[1] = e
  BY <1>1
<1> QED
  BY <1>1, <1>2, <1>3

(* The program a thread is in.                                             *)
LEMMA ProgramsNamed ==
    ASSUME NEW c \in Commands
    PROVE  /\ c.name = "waveform" => ProgramOf[c] = waveform
           /\ c.name = "inrush_capture" => ProgramOf[c] = inrush_capture
           /\ c.name = "vsweep" => ProgramOf[c] = vsweep
           /\ c.name = "diff_scan" => ProgramOf[c] = diff_scan(c.val)
           /\ c.name = "set" => ProgramOf[c] = setting(c.reg, c.val)
BY DEF ProgramOf, Program

---------------------------------------------------------------------------
(* Where a step takes a thread: on to the start of a section, or to the    *)
(* end of its command; the other threads stay where they are.              *)

OthersStay(t) ==
    \A u \in Threads : u # t => pc'[u] = pc[u] /\ job'[u] = job[u] /\ result'[u] = result[u]

GoesOn(t) ==
    /\ pc'[t] = "enter" /\ job'[t].op = 1 /\ job'[t].cmd = job[t].cmd
    /\ result'[t] = result[t]

Finishes(t, outcome) ==
    /\ pc'[t] = "idle" /\ job'[t].cmd = job[t].cmd
    /\ result'[t] = outcome

(* The last section of the command.                                        *)
Lastly(t) ==
    /\ job[t].sec = Len(Sections(t))
    /\ job[t].phase = "final" \/ Final(t) = <<>>

LEMMA ContinuesGoesOn ==
    ASSUME WorkerInv, NEW t \in Threads, NEW k, k.op = 1, k.cmd = job[t].cmd,
           Continues(t, k)
    PROVE  OthersStay(t) /\ GoesOn(t)
BY DEF Continues, Goto, OthersStay, GoesOn, WorkerInv, TypeOK

LEMMA EndsFinishes ==
    ASSUME WorkerInv, NEW t \in Threads, NEW k, NEW ok \in BOOLEAN, k.cmd = job[t].cmd,
           Ends(t, k, ok)
    PROVE  OthersStay(t) /\ Finishes(t, IF ok THEN "ok" ELSE "error") /\ job'[t] = k
BY DEF Ends, Goto, OthersStay, Finishes, WorkerInv, TypeOK

LEMMA ProceedsExits ==
    ASSUME WorkerInv, NEW t \in Threads, pc[t] # "idle",
           NEW j \in Jobs, j.cmd = job[t].cmd, j.phase = job[t].phase,
           j.sec = job[t].sec, Proceeds(t, j)
    PROVE  /\ OthersStay(t)
           /\ \/ GoesOn(t)
              \/ /\ Finishes(t, IF j.exc THEN "error" ELSE "ok")
                 /\ Lastly(t) /\ job'[t] = j
<1>1. job[t].sec \in 1 .. Len(Sections(t)) /\ Len(Sections(t)) \in Nat
  <2>1. InProgram(job[t]) /\ job[t].cmd \in Commands
    BY DEF WorkerInv, TypeOK, Jobs
  <2> QED
    BY <2>1, ProgramsWellFormed DEF InProgram, SectionsAt, Sections, Final, WellFormed
<1>2. CASE j.sec < Len(Sections(t))
  <2> DEFINE k == [j EXCEPT !.sec = @ + 1, !.op = 1]
  <2>1. k.op = 1 /\ k.cmd = job[t].cmd
    BY DEF Jobs
  <2>2. Continues(t, k)
    BY <1>2 DEF Proceeds
  <2> HIDE DEF k
  <2> QED
    BY <2>1, <2>2, ContinuesGoesOn
<1>3. CASE ~(j.sec < Len(Sections(t))) /\ j.phase = "main" /\ Final(t) # <<>>
  <2> DEFINE k == [j EXCEPT !.phase = "final", !.sec = 1, !.op = 1]
  <2>1. k.op = 1 /\ k.cmd = job[t].cmd
    BY DEF Jobs
  <2>2. Continues(t, k)
    BY <1>3 DEF Proceeds
  <2> HIDE DEF k
  <2> QED
    BY <2>1, <2>2, ContinuesGoesOn
<1>4. CASE ~(j.sec < Len(Sections(t))) /\ ~(j.phase = "main" /\ Final(t) # <<>>)
  <2>1. Ends(t, j, ~j.exc)
    BY <1>4 DEF Proceeds
  <2>2. OthersStay(t) /\ Finishes(t, IF ~j.exc THEN "ok" ELSE "error") /\ job'[t] = j
    BY <2>1, EndsFinishes
  <2>3. job[t].phase \in {"main", "final"}
    BY DEF Jobs
  <2>4. Lastly(t)
    BY <1>1, <1>4, <2>3 DEF Lastly
  <2> QED
    BY <2>2, <2>4
<1> QED
  BY <1>2, <1>3, <1>4

(* The section that failed is the one a command that raises names.         *)
FailsHere(t) == job'[t].failed = <<job[t].phase, job[t].sec>>

LEMMA RaisesExits ==
    ASSUME WorkerInv, NEW t \in Threads, pc[t] # "idle",
           NEW j \in Jobs, j.cmd = job[t].cmd, Raises(t, j)
    PROVE  /\ OthersStay(t)
           /\ \/ GoesOn(t)
              \/ /\ Finishes(t, "error") /\ ~Here(t).guarded
                 /\ job'[t].failed = j.failed
<1>1. CASE Here(t).guarded
  <2> DEFINE k == [j EXCEPT !.phase = "final", !.sec = 1, !.op = 1, !.exc = TRUE]
  <2>1. k.op = 1 /\ k.cmd = job[t].cmd
    BY DEF Jobs
  <2>2. Continues(t, k)
    BY <1>1 DEF Raises
  <2> HIDE DEF k
  <2> QED
    BY <2>1, <2>2, ContinuesGoesOn
<1>2. CASE ~Here(t).guarded
  <2> DEFINE k == [j EXCEPT !.exc = TRUE]
  <2>1. k.cmd = job[t].cmd /\ k.failed = j.failed
    BY DEF Jobs
  <2>2. Ends(t, k, FALSE)
    BY <1>2 DEF Raises
  <2> HIDE DEF k
  <2> QED
    BY <1>2, <2>1, <2>2, EndsFinishes
<1> QED
  BY <1>1, <1>2

(* A command ends by a failure at a section outside its try, or at its     *)
(* last section, one whose failures it does not raise.                     *)
FailureEnds(t) ==
    /\ FailsHere(t)
    /\ \/ Finishes(t, "error") /\ ~Here(t).guarded
       \/ /\ \E outcome \in {"ok", "error"} : Finishes(t, outcome)
          /\ Lastly(t) /\ Here(t).onFail # "raise"

LEMMA FailsExits ==
    ASSUME WorkerInv, NEW t \in Threads, pc[t] # "idle", Fails(t)
    PROVE  OthersStay(t) /\ (GoesOn(t) \/ FailureEnds(t))
<1> DEFINE j == [job[t] EXCEPT !.failed = <<job[t].phase, job[t].sec>>]
           k == [j EXCEPT !.errs = @ + 1]
<1>1. job[t] \in Jobs
  BY DEF WorkerInv, TypeOK
<1>2. /\ j \in Jobs
      /\ j.cmd = job[t].cmd /\ j.phase = job[t].phase /\ j.sec = job[t].sec
      /\ j.failed = <<job[t].phase, job[t].sec>>
  BY <1>1 DEF Jobs
<1>3. k.cmd = j.cmd /\ k.phase = j.phase /\ k.sec = j.sec /\ k.failed = j.failed
  BY <1>2 DEF Jobs
<1>4. j.errs < MaxErrs => k \in Jobs
  <2>1. ASSUME j.errs < MaxErrs
        PROVE  j.errs + 1 \in 0 .. MaxErrs
    BY <1>2, <2>1, WorkerAssumption DEF Jobs
  <2> QED
    BY <1>2, <2>1 DEF Jobs
<1>5. \/ Here(t).onFail = "swallow" /\ Proceeds(t, j)
      \/ Here(t).onFail = "count" /\ j.errs < MaxErrs /\ Proceeds(t, k)
      \/ Raises(t, j)
  BY DEF Fails
<1> HIDE DEF j, k
<1>6. CASE Here(t).onFail = "swallow" /\ Proceeds(t, j)
  <2>1. /\ OthersStay(t)
        /\ \/ GoesOn(t)
           \/ /\ Finishes(t, IF j.exc THEN "error" ELSE "ok")
              /\ Lastly(t) /\ job'[t] = j
    BY <1>2, <1>6, ProceedsExits
  <2> QED
    BY <1>2, <1>6, <2>1 DEF FailureEnds, FailsHere
<1>7. CASE Here(t).onFail = "count" /\ j.errs < MaxErrs /\ Proceeds(t, k)
  <2>1. /\ OthersStay(t)
        /\ \/ GoesOn(t)
           \/ /\ Finishes(t, IF k.exc THEN "error" ELSE "ok")
              /\ Lastly(t) /\ job'[t] = k
    BY <1>2, <1>3, <1>4, <1>7, ProceedsExits
  <2> QED
    BY <1>2, <1>3, <1>7, <2>1 DEF FailureEnds, FailsHere
<1>8. CASE Raises(t, j)
  <2>1. /\ OthersStay(t)
        /\ \/ GoesOn(t)
           \/ /\ Finishes(t, "error") /\ ~Here(t).guarded
              /\ job'[t].failed = j.failed
    BY <1>2, <1>8, RaisesExits
  <2> QED
    BY <1>2, <2>1 DEF FailureEnds, FailsHere
<1> QED
  BY <1>5, <1>6, <1>7, <1>8

(* The end of a section that raised nothing.                               *)
LEMMA LeavesExits ==
    ASSUME WorkerInv, NEW t \in Threads, pc[t] # "idle", Proceeds(t, job[t])
    PROVE  /\ OthersStay(t)
           /\ \/ GoesOn(t)
              \/ /\ \E outcome \in {"ok", "error"} : Finishes(t, outcome)
                 /\ Lastly(t) /\ job'[t] = job[t]
<1>1. job[t] \in Jobs
  BY DEF WorkerInv, TypeOK
<1> QED
  BY <1>1, ProceedsExits

---------------------------------------------------------------------------
(* The output after a procedure.                                           *)

(* How far a command has come: past its last write to the output, which    *)
(* turns it off, and past the write that restores it.                      *)
OffDone(j) ==
    \/ /\ j.cmd.name = "waveform"
       /\ j.phase = "final" /\ j.op >= 3
    \/ /\ j.cmd.name = "inrush_capture"
       /\ j.phase = "main" /\ j.sec = Len(ProgramOf[j.cmd].main) /\ j.op >= 2
    \/ /\ j.cmd.name = "vsweep"
       /\ j.phase = "main" /\ j.sec = Len(ProgramOf[j.cmd].main) /\ j.op >= 3

Restored(j) == j.cmd.name = "diff_scan" /\ j.phase = "final" /\ j.op >= 2

Switchers == {"waveform", "inrush_capture", "vsweep"}
Before == {<<"main", 1>>, <<"final", 1>>}

(* What is known of the place of a thread that runs a command.             *)
LEMMA Placed ==
    ASSUME WorkerInv, NEW t \in Threads, pc[t] # "idle"
    PROVE  /\ job[t].cmd \in Commands /\ job[t].phase \in {"main", "final"}
           /\ job[t].sec \in Nat \ {0} /\ job[t].op \in Nat \ {0}
           /\ job[t].sec \in 1 .. Len(Sections(t)) /\ Len(Sections(t)) \in Nat
           /\ Len(Here(t).ops) \in Nat
<1>1. InProgram(job[t]) /\ job[t] \in Jobs
  BY DEF WorkerInv, TypeOK
<1>2. WellFormed(ProgramOf[job[t].cmd])
  BY <1>1, ProgramsWellFormed DEF Jobs
<1>3. Sections(t) = SectionsAt(job[t])
  BY DEF Sections, Final, SectionsAt
<1>4. Len(Sections(t)) \in Nat /\ job[t].sec \in 1 .. Len(Sections(t))
  BY <1>1, <1>2, <1>3 DEF InProgram, WellFormed, SectionsAt
<1>5. Sound(Here(t))
  BY <1>2, <1>3, <1>4 DEF WellFormed, SectionsAt, Here
<1> QED
  BY <1>1, <1>4, <1>5 DEF InProgram, Jobs, Sound

LEMMA ProceduresEnd ==
    ASSUME WorkerInv, NEW t \in Threads, pc[t] # "idle", Lastly(t),
           job[t].cmd.name \in Switchers
    PROVE  /\ Here(t).onFail = "raise"
           /\ AtEnd(t) => OffDone(job[t])
<1>1. CASE job[t].cmd.name = "waveform"
  <2>1. ProgramOf[job[t].cmd] = waveform
    BY <1>1, Placed, ProgramsNamed
  <2>2. Len(waveform.final) = 1 /\ waveform.final # <<>>
    BY WaveformShape DEF Trying
  <2>3. job[t].phase = "final" /\ Sections(t) = waveform.final /\ job[t].sec = 1
    BY <2>1, <2>2 DEF Lastly, Sections, Final
  <2>4. Here(t) = waveform.final[1]
    BY <2>3 DEF Here
  <2> QED
    BY <1>1, <2>3, <2>4, Placed, WaveformShape DEF AtEnd, OffDone
<1>2. CASE job[t].cmd.name = "inrush_capture"
  <2>1. ProgramOf[job[t].cmd] = inrush_capture
    BY <1>2, Placed, ProgramsNamed
  <2>2. job[t].phase = "main"
    BY <2>1, Placed, InrushShape DEF Sections, Final, Switching
  <2>3. Here(t) = inrush_capture.main[Len(inrush_capture.main)]
        /\ job[t].sec = Len(inrush_capture.main)
    BY <2>1, <2>2 DEF Here, Sections, Lastly
  <2> QED
    BY <1>2, <2>1, <2>2, <2>3, Placed, InrushShape DEF AtEnd, OffDone, Switching
<1>3. CASE job[t].cmd.name = "vsweep"
  <2>1. ProgramOf[job[t].cmd] = vsweep
    BY <1>3, Placed, ProgramsNamed
  <2>2. job[t].phase = "main"
    BY <2>1, Placed, VsweepShape DEF Sections, Final, Switching
  <2>3. Here(t) = vsweep.main[Len(vsweep.main)]
        /\ job[t].sec = Len(vsweep.main)
    BY <2>1, <2>2 DEF Here, Sections, Lastly
  <2> QED
    BY <1>3, <2>1, <2>2, <2>3, Placed, VsweepShape DEF AtEnd, OffDone, Switching
<1> QED
  BY <1>1, <1>2, <1>3 DEF Switchers

(* A section of waveform or diff_scan outside the try is the first one or  *)
(* that of the finally clause, which is also the last one.                 *)
LEMMA TryingPlaces ==
    ASSUME WorkerInv, NEW t \in Threads, pc[t] # "idle",
           job[t].cmd.name \in {"waveform", "diff_scan"}
    PROVE  /\ ~Here(t).guarded => <<job[t].phase, job[t].sec>> \in Before
           /\ Lastly(t) => <<job[t].phase, job[t].sec>> = <<"final", 1>>
           /\ ~Does(t, {"port_open"})
<1> DEFINE p == ProgramOf[job[t].cmd]
<1>1. Trying(p)
  <2>1. CASE job[t].cmd.name = "waveform"
    BY <2>1, Placed, ProgramsNamed, WaveformShape
  <2>2. CASE job[t].cmd.name = "diff_scan"
    BY <2>2, Placed, ProgramsNamed, DiffScanShape
  <2> QED
    BY <2>1, <2>2
<1>2. Sections(t) = (IF job[t].phase = "main" THEN p.main ELSE p.final) /\ Final(t) = p.final
  BY DEF Sections, Final
<1> HIDE DEF p
<1>3. CASE job[t].phase = "main"
  <2>1. Here(t) = p.main[job[t].sec] /\ job[t].sec \in 1 .. Len(p.main)
    BY <1>2, <1>3, Placed DEF Here
  <2>2. p.final # <<>>
    BY <1>1 DEF Trying
  <2>3. job[t].sec = 1 \/ job[t].sec \in 2 .. Len(p.main)
    BY <2>1, <1>2, <1>3, Placed
  <2>4. ~Here(t).guarded => job[t].sec = 1
    BY <1>1, <2>1, <2>3 DEF Trying
  <2>5. Portless(Here(t))
    BY <1>1, <2>1, <2>3 DEF Trying
  <2>6. ~Does(t, {"port_open"})
    BY <2>5, Placed DEF Does, AtEnd, Portless
  <2> QED
    BY <1>2, <1>3, <2>2, <2>4, <2>6 DEF Before, Lastly
<1>4. CASE job[t].phase # "main"
  <2>1. Here(t) = p.final[1] /\ job[t].sec = 1 /\ job[t].phase = "final"
    BY <1>1, <1>2, <1>4, Placed DEF Here, Trying
  <2>2. Portless(Here(t))
    BY <1>1, <2>1 DEF Trying
  <2>3. ~Does(t, {"port_open"})
    BY <2>2, Placed DEF Does, AtEnd, Portless
  <2> QED
    BY <2>1, <2>3 DEF Before
<1> QED
  BY <1>3, <1>4

LEMMA ScanEnds ==
    ASSUME WorkerInv, NEW t \in Threads, pc[t] # "idle", Lastly(t), AtEnd(t),
           job[t].cmd.name = "diff_scan"
    PROVE  Restored(job[t])
<1>1. job[t].phase = "final" /\ job[t].sec = 1
  BY TryingPlaces
<1>2. Here(t) = diff_scan(job[t].cmd.val).final[1]
  BY <1>1, Placed, ProgramsNamed DEF Here, Sections, Final
<1>3. Here(t).ops = <<Restore>>
  <2>1. diff_scan(job[t].cmd.val).final[1].ops = <<Restore>>
    BY DiffScanShape
  <2> QED
    BY <1>2, <2>1
<1> QED
  BY <1>1, <1>3, Placed DEF AtEnd, Restored

(* The operation that takes a command past its last write to the output.   *)
LEMMA LastWrite ==
    ASSUME WorkerInv, NEW t \in Threads, pc[t] # "idle", ~AtEnd(t),
           NEW j, j.cmd = job[t].cmd, j.phase = job[t].phase, j.sec = job[t].sec,
           j.op = job[t].op + 1
    PROVE  /\ OffDone(j) => \/ TheOp(t) = Set("OUTPUT", Off)
                            \/ OffDone(job[t]) /\ TheOp(t) \in {Update, Report}
           /\ Restored(j) => TheOp(t) = Restore
<1>1. job[t].op \in 1 .. Len(Here(t).ops)
  BY Placed DEF AtEnd
<1>2. ASSUME OffDone(j), job[t].cmd.name = "waveform"
      PROVE  \/ TheOp(t) = Set("OUTPUT", Off)
             \/ OffDone(job[t]) /\ TheOp(t) \in {Update, Report}
  <2>1. ProgramOf[job[t].cmd] = waveform /\ job[t].phase = "final" /\ job[t].op >= 2
    BY <1>2, Placed, ProgramsNamed DEF OffDone
  <2>2. Here(t) = waveform.final[1]
    BY <2>1, Placed, WaveformShape DEF Here, Sections, Final, Trying
  <2>3. job[t].op \in {2, 3, 4}
    BY <1>1, <2>1, <2>2, WaveformShape
  <2> QED
    BY <1>2, <2>1, <2>2, <2>3, WaveformShape DEF OffDone, TheOp
<1>3. ASSUME OffDone(j), job[t].cmd.name = "inrush_capture"
      PROVE  TheOp(t) = Set("OUTPUT", Off)
  <2>1. ProgramOf[job[t].cmd] = inrush_capture /\ job[t].phase = "main"
        /\ job[t].sec = Len(inrush_capture.main)
    BY <1>3, Placed, ProgramsNamed DEF OffDone
  <2>2. Here(t) = inrush_capture.main[Len(inrush_capture.main)]
    BY <2>1 DEF Here, Sections
  <2>3. job[t].op = 1
    BY <1>1, <2>2, InrushShape DEF Switching
  <2> QED
    BY <2>2, <2>3, InrushShape DEF TheOp, Switching
<1>4. ASSUME OffDone(j), job[t].cmd.name = "vsweep"
      PROVE  TheOp(t) = Set("OUTPUT", Off)
  <2>1. ProgramOf[job[t].cmd] = vsweep /\ job[t].phase = "main"
        /\ job[t].sec = Len(vsweep.main) /\ job[t].op >= 2
    BY <1>4, Placed, ProgramsNamed DEF OffDone
  <2>2. Here(t) = vsweep.main[Len(vsweep.main)]
    BY <2>1 DEF Here, Sections
  <2>3. job[t].op = 2
    BY <1>1, <2>1, <2>2, VsweepShape DEF Switching
  <2> QED
    BY <2>2, <2>3, VsweepShape DEF TheOp, Switching
<1>5. ASSUME Restored(j)
      PROVE  TheOp(t) = Restore
  <2>1. job[t].cmd.name = "diff_scan" /\ job[t].phase = "final"
    BY <1>5 DEF Restored
  <2>2. ProgramOf[job[t].cmd] = diff_scan(job[t].cmd.val)
    BY <2>1, Placed, ProgramsNamed
  <2>3. Len(diff_scan(job[t].cmd.val).final) = 1
        /\ diff_scan(job[t].cmd.val).final[1].ops = <<Restore>>
    BY DiffScanShape DEF Trying
  <2>4. Sections(t) = diff_scan(job[t].cmd.val).final
    BY <2>1, <2>2 DEF Sections, Final
  <2>5. job[t].sec = 1
    <3>1. Len(Sections(t)) = 1
      BY <2>3, <2>4
    <3>2. job[t].sec \in 1 .. Len(Sections(t))
      BY Placed
    <3> QED
      BY <3>1, <3>2
  <2>6. Here(t).ops = <<Restore>>
    BY <2>3, <2>4, <2>5 DEF Here
  <2> QED
    BY <1>1, <2>6 DEF TheOp
<1> QED
  BY <1>2, <1>3, <1>4, <1>5 DEF OffDone

(* A section starts at its first operation; a sample is converted at its   *)
(* end; a command that runs has no result yet.                             *)
Paced(t) ==
    /\ pc[t] = "enter" => job[t].op = 1
    /\ pc[t] = "convert" => AtEnd(t)
    /\ pc[t] # "idle" => result[t] = "none"

(* The output is off, or another thread's, once the thread has turned it   *)
(* off for the last time; it is as it was, if no other thread wrote it,    *)
(* once the thread has restored it.                                        *)
SwitchesBack(t) ==
    /\ pc[t] \in {"inside", "convert"} /\ OffDone(job[t]) => onBy # t
    /\ pc[t] \in {"inside", "convert"} /\ Restored(job[t]) /\ ~disturbed[t]
         => dev["OUTPUT"] = saved[t]

EndsWell(t) ==
    /\ result[t] = "ok" /\ job[t].cmd.name \in Switchers => onBy # t
    /\ result[t] = "error" /\ job[t].cmd.name = "waveform" /\ onBy = t
         => job[t].failed \in Before
    /\ /\ result[t] # "none" /\ job[t].cmd.name = "diff_scan" /\ ~disturbed[t]
       /\ job[t].failed \notin Before
       => dev["OUTPUT"] = saved[t]

Switched(t) == Paced(t) /\ SwitchesBack(t) /\ EndsWell(t)

Kept ==
    /\ DOMAIN saved = Threads
    /\ DOMAIN reported = Threads
    /\ disturbed \in [Threads -> BOOLEAN]

OutputInv == Kept /\ \A t \in Threads : Switched(t)

(* What a thread's step does to the others' output: it turns it on or off  *)
(* in its own name, and disturbs them if it writes it.                     *)
Mild(t) ==
    /\ onBy' \in {onBy, t, Free}
    /\ \A u \in Threads : u # t =>
          /\ saved'[u] = saved[u]
          /\ disturbed'[u] \/ (~disturbed[u] /\ dev'["OUTPUT"] = dev["OUTPUT"])

LEMMA OthersSwitched ==
    ASSUME NEW t \in Threads, OthersStay(t), Mild(t),
           NEW u \in Threads, u # t, Switched(u)
    PROVE  Switched(u)'
<1>1. pc'[u] = pc[u] /\ job'[u] = job[u] /\ result'[u] = result[u]
  BY DEF OthersStay
<1>2. Paced(u)'
  BY <1>1 DEF Switched, Paced, AtEnd, Here, Sections, Final
<1>3. Free # u /\ onBy' \in {onBy, t, Free}
  BY WorkerAssumption DEF Mild
<1>4. onBy # u => onBy' # u
  BY <1>3
<1>5. ~disturbed'[u] => ~disturbed[u] /\ dev'["OUTPUT"] = dev["OUTPUT"] /\ saved'[u] = saved[u]
  BY DEF Mild
<1>6. SwitchesBack(u)'
  BY <1>1, <1>4, <1>5 DEF Switched, SwitchesBack, OffDone, Restored
<1>7. EndsWell(u)'
  BY <1>1, <1>4, <1>5 DEF Switched, EndsWell
<1> QED
  BY <1>2, <1>6, <1>7 DEF Switched

(* A thread at the start of a section.                                     *)
LEMMA StartSwitched ==
    ASSUME NEW t \in Threads, pc'[t] = "enter", job'[t].op = 1, result'[t] = "none"
    PROVE  Switched(t)'
BY DEF Switched, Paced, SwitchesBack, EndsWell

(* A command that ends with a failure.                                     *)
LEMMA FailureSwitched ==
    ASSUME WorkerInv, NEW t \in Threads, pc[t] # "idle", Switched(t),
           OthersStay(t), GoesOn(t) \/ FailureEnds(t)
    PROVE  Switched(t)'
<1>1. CASE GoesOn(t)
  BY <1>1, StartSwitched DEF GoesOn, Switched, Paced
<1>2. CASE FailureEnds(t)
  <2>1. /\ pc'[t] = "idle" /\ result'[t] \in {"ok", "error"}
        /\ job'[t].cmd = job[t].cmd /\ job'[t].failed = <<job[t].phase, job[t].sec>>
    BY <1>2 DEF FailureEnds, FailsHere, Finishes
  <2>2. result'[t] = "ok" => Lastly(t) /\ Here(t).onFail # "raise"
    BY <1>2 DEF FailureEnds, Finishes
  <2>3. ~Here(t).guarded \/ Lastly(t)
    BY <1>2 DEF FailureEnds
  <2>4. ~(result'[t] = "ok" /\ job[t].cmd.name \in Switchers)
    BY <2>2, ProceduresEnd
  <2>5. job[t].cmd.name \in {"waveform", "diff_scan"} => job'[t].failed \in Before
    <3>1. <<"final", 1>> \in Before
      BY DEF Before
    <3> QED
      BY <2>1, <2>3, <3>1, TryingPlaces
  <2> QED
    BY <2>1, <2>4, <2>5 DEF Switched, Paced, SwitchesBack, EndsWell
<1> QED
  BY <1>1, <1>2

LEMMA FailsSwitches ==
    ASSUME WorkerInv, OutputInv, NEW t \in Threads, pc[t] # "idle", Fails(t), Mild(t), Kept'
    PROVE  OutputInv'
<1>1. OthersStay(t) /\ (GoesOn(t) \/ FailureEnds(t))
  BY FailsExits
<1>2. Switched(t)'
  BY <1>1, FailureSwitched DEF OutputInv
<1>3. \A u \in Threads : u # t => Switched(u)'
  BY <1>1, OthersSwitched DEF OutputInv
<1> QED
  BY <1>2, <1>3 DEF OutputInv

(* A section that ends, and perhaps the command with it.                   *)
LEMMA ProceedsSwitches ==
    ASSUME WorkerInv, OutputInv, NEW t \in Threads, pc[t] \in {"inside", "convert"},
           AtEnd(t), Proceeds(t, job[t]), UNCHANGED <<dev, onBy, saved, disturbed, reported>>
    PROVE  OutputInv'
<1>1. /\ OthersStay(t)
      /\ \/ GoesOn(t)
         \/ /\ \E outcome \in {"ok", "error"} : Finishes(t, outcome)
            /\ Lastly(t) /\ job'[t] = job[t]
  BY LeavesExits
<1>2. Switched(t)'
  <2>1. CASE GoesOn(t)
    BY <2>1, StartSwitched DEF GoesOn, OutputInv, Switched, Paced
  <2>2. CASE /\ \E outcome \in {"ok", "error"} : Finishes(t, outcome)
             /\ Lastly(t) /\ job'[t] = job[t]
    <3>1. pc'[t] = "idle" /\ job'[t] = job[t]
      BY <2>2 DEF Finishes
    <3>2. SwitchesBack(t)
      BY DEF OutputInv, Switched
    <3>3. job[t].cmd.name \in Switchers => onBy # t
      BY <2>2, <3>2, ProceduresEnd DEF SwitchesBack
    <3>4. job[t].cmd.name = "diff_scan" /\ ~disturbed[t] => dev["OUTPUT"] = saved[t]
      BY <2>2, <3>2, ScanEnds DEF SwitchesBack
    <3>5. EndsWell(t)'
      BY <3>1, <3>3, <3>4 DEF EndsWell, Switchers
    <3>6. Paced(t)' /\ SwitchesBack(t)'
      BY <3>1 DEF Paced, SwitchesBack
    <3> QED
      BY <3>5, <3>6 DEF Switched
  <2> QED
    BY <1>1, <2>1, <2>2
<1>3. Mild(t)
  BY DEF Mild, OutputInv, Kept
<1>4. \A u \in Threads : u # t => Switched(u)'
  BY <1>1, <1>3, OthersSwitched DEF OutputInv
<1> QED
  BY <1>2, <1>4 DEF OutputInv, Kept

(* What an operation of a section leaves on in the thread's name, or       *)
(* restores.                                                               *)
Operates(t) ==
    /\ TheOp(t) = Set("OUTPUT", Off) => onBy' # t
    /\ TheOp(t) \in {Update, Report} => onBy' = onBy
    /\ TheOp(t) = Restore => dev'["OUTPUT"] = saved'[t]

LEMMA OperationSwitches ==
    ASSUME WorkerInv, OutputInv, NEW t \in Threads, pc[t] = "inside", ~AtEnd(t), NextOp(t),
           Mild(t), Kept', Operates(t)
    PROVE  OutputInv'
<1> DEFINE j == [job[t] EXCEPT !.op = @ + 1]
<1>1. job[t] \in Jobs
  BY DEF WorkerInv, TypeOK
<1>2. /\ j.cmd = job[t].cmd /\ j.phase = job[t].phase /\ j.sec = job[t].sec
      /\ j.op = job[t].op + 1
  BY <1>1 DEF Jobs
<1>3. job' = [job EXCEPT ![t] = j] /\ UNCHANGED <<pc, result>>
  BY DEF NextOp
<1> HIDE DEF j
<1>4. job'[t] = j /\ OthersStay(t)
  BY <1>3 DEF WorkerInv, TypeOK, OthersStay
<1>5. result[t] = "none" /\ pc'[t] = "inside" /\ result'[t] = "none"
  BY <1>3 DEF OutputInv, Switched, Paced
<1>6. OffDone(j) => onBy' # t
  <2>1. OffDone(j) => \/ TheOp(t) = Set("OUTPUT", Off)
                      \/ OffDone(job[t]) /\ TheOp(t) \in {Update, Report}
    BY <1>2, LastWrite
  <2>2. OffDone(job[t]) => onBy # t
    BY DEF OutputInv, Switched, SwitchesBack
  <2> QED
    BY <2>1, <2>2 DEF Operates
<1>7. Restored(j) => dev'["OUTPUT"] = saved'[t]
  BY <1>2, LastWrite DEF Operates
<1>8. Switched(t)'
  BY <1>4, <1>5, <1>6, <1>7 DEF Switched, Paced, SwitchesBack, EndsWell, OffDone, Restored
<1>9. \A u \in Threads : u # t => Switched(u)'
  BY <1>4, OthersSwitched DEF OutputInv
<1> QED
  BY <1>8, <1>9 DEF OutputInv

(* A step that touches neither the output nor what the invariant keeps.    *)
Aside == UNCHANGED <<onBy, saved, disturbed, reported>> /\ dev'["OUTPUT"] = dev["OUTPUT"]

LEMMA AsideMild ==
    ASSUME OutputInv, NEW t \in Threads, Aside
    PROVE  Mild(t) /\ Kept'
BY DEF OutputInv, Kept, Aside, Mild

(* A register write that takes effect.                                     *)
LEMMA AppliesMild ==
    ASSUME WorkerInv, OutputInv, NEW t \in Threads, NEW reg, NEW val, Applies(t, reg, val),
           UNCHANGED <<saved, reported>>
    PROVE  /\ Mild(t) /\ Kept'
           /\ reg = "OUTPUT" => dev'["OUTPUT"] = val
           /\ reg = "OUTPUT" /\ val = Off => onBy' = Free
<1>1. DOMAIN dev = Registers /\ "OUTPUT" \in Registers
  BY DEF WorkerInv, TypeOK, Registers, Settings
<1>2. reg # "OUTPUT" => dev'["OUTPUT"] = dev["OUTPUT"]
  BY <1>1 DEF Applies
<1>3. reg = "OUTPUT" => dev'["OUTPUT"] = val
  BY <1>1 DEF Applies
<1>4. \A u \in Threads : u # t =>
         disturbed'[u] \/ (~disturbed[u] /\ dev'["OUTPUT"] = dev["OUTPUT"])
  BY <1>2 DEF Applies, OutputInv, Kept
<1>5. onBy' \in {onBy, t, Free} /\ (reg = "OUTPUT" /\ val = Off => onBy' = Free)
  BY DEF Applies, On, Off
<1>6. disturbed' \in [Threads -> BOOLEAN]
  BY DEF Applies, OutputInv, Kept
<1> QED
  BY <1>3, <1>4, <1>5, <1>6 DEF Mild, Kept, OutputInv

LEMMA OperationsApart ==
    /\ Set("OUTPUT", Off).do = "set" /\ Set("OUTPUT", Off).reg = "OUTPUT"
    /\ Set("OUTPUT", Off).val = Off
    /\ Update.do = "update" /\ Report.do = "report"
    /\ Restore.do = "restore" /\ Restore.reg = "OUTPUT"
BY DEF Set, Update, Report, Restore, Op

LEMMA WriteReturnsSwitched ==
    ASSUME WorkerInv, OutputInv, NEW t \in Threads, WriteReturns(t)
    PROVE  OutputInv'
<1>1. /\ pc[t] = "inside" /\ ~AtEnd(t) /\ NextOp(t)
      /\ TheOp(t).do \in {"set", "write", "restore"}
      /\ Applies(t, TheOp(t).reg, Value(t)) /\ UNCHANGED <<saved, reported>>
  BY DEF WriteReturns, Writing, Does, TheOp
<1>2. /\ Mild(t) /\ Kept'
      /\ TheOp(t).reg = "OUTPUT" => dev'["OUTPUT"] = Value(t)
      /\ TheOp(t).reg = "OUTPUT" /\ Value(t) = Off => onBy' = Free
  BY <1>1, AppliesMild
<1>3. TheOp(t) = Set("OUTPUT", Off) => onBy' # t
  BY <1>2, OperationsApart, WorkerAssumption DEF Value
<1>4. TheOp(t) \notin {Update, Report}
  BY <1>1, OperationsApart
<1>5. TheOp(t) = Restore => dev'["OUTPUT"] = saved'[t]
  BY <1>1, <1>2, OperationsApart DEF Value
<1> QED
  BY <1>1, <1>2, <1>3, <1>4, <1>5, OperationSwitches DEF Operates

(* The operations that write nothing.                                      *)
LEMMA ReadsSwitched ==
    ASSUME WorkerInv, OutputInv, NEW t \in Threads,
           \/ Updates(t) \/ Measures(t) \/ Peeks(t) \/ Attaches(t)
           \/ PortOpens(t) \/ Detaches(t) \/ Reports(t) \/ Saves(t)
    PROVE  OutputInv'
<1>1. /\ pc[t] = "inside" /\ ~AtEnd(t) /\ NextOp(t) /\ dev' = dev
      /\ TheOp(t).do \in {"update", "sample", "peek", "attach", "port_open", "detach",
                          "report", "save"}
      /\ UNCHANGED <<onBy, disturbed>>
  BY DEF Updates, Measures, Peeks, Attaches, PortOpens, Detaches, Reports, Saves, Does, TheOp
<1>2. Operates(t)
  BY <1>1, OperationsApart DEF Operates
<1>3. /\ DOMAIN saved' = Threads /\ DOMAIN reported' = Threads
      /\ \A u \in Threads : u # t => saved'[u] = saved[u]
  BY DEF Updates, Measures, Peeks, Attaches, PortOpens, Detaches, Reports, Saves, OutputInv,
         Kept
<1>4. Mild(t) /\ Kept'
  BY <1>1, <1>3 DEF Mild, OutputInv, Kept
<1> QED
  BY <1>1, <1>2, <1>4, OperationSwitches

LEMMA FailuresSwitched ==
    ASSUME WorkerInv, OutputInv, NEW t \in Threads,
           \/ WriteUnacknowledged(t) \/ WriteFails(t) \/ ReadFails(t) \/ TypeFails(t)
           \/ NotConnected(t)
    PROVE  OutputInv'
<1>1. pc[t] # "idle" /\ Fails(t)
  BY DEF WriteUnacknowledged, WriteFails, Writing, ReadFails, Reading, TypeFails,
         NotConnected, Does, Aborts
<1>2. Mild(t) /\ Kept'
  <2>1. CASE WriteUnacknowledged(t)
    BY <2>1, AppliesMild DEF WriteUnacknowledged
  <2>2. CASE WriteFails(t) \/ ReadFails(t) \/ TypeFails(t) \/ NotConnected(t)
    <3>1. Aside
      BY <2>2 DEF WriteFails, ReadFails, TypeFails, NotConnected, Aside
    <3> QED
      BY <3>1, AsideMild
  <2> QED
    BY <2>1, <2>2
<1> QED
  BY <1>1, <1>2, FailsSwitches

LEMMA PortFailsSwitched ==
    ASSUME WorkerInv, OutputInv, NEW t \in Threads, PortFails(t)
    PROVE  OutputInv'
<1> DEFINE k == [job[t] EXCEPT !.exc = TRUE]
<1>1. /\ pc[t] = "inside" /\ Does(t, {"port_open"}) /\ Ends(t, k, FALSE) /\ Aside
  BY DEF PortFails, Does, Aside
<1>2. k.cmd = job[t].cmd
  BY DEF WorkerInv, TypeOK, Jobs
<1> HIDE DEF k
<1>3. OthersStay(t) /\ Finishes(t, "error")
  BY <1>1, <1>2, EndsFinishes
<1>4. job[t].cmd.name \notin {"waveform", "diff_scan"}
  BY <1>1, TryingPlaces
<1>5. Switched(t)'
  BY <1>3, <1>4 DEF Finishes, Switched, Paced, SwitchesBack, EndsWell
<1>6. Mild(t) /\ Kept'
  BY <1>1, AsideMild
<1>7. \A u \in Threads : u # t => Switched(u)'
  BY <1>3, <1>6, OthersSwitched DEF OutputInv
<1> QED
  BY <1>5, <1>6, <1>7 DEF OutputInv

LEMMA CallSwitched ==
    ASSUME WorkerInv, OutputInv, NEW t \in Threads, Call(t)
    PROVE  OutputInv'
<1>1. PICK c \in Menu[t] : job' = [job EXCEPT ![t] = Starting(c)]
  BY DEF Call
<1>2. /\ pc'[t] = "enter" /\ job'[t].op = 1 /\ result'[t] = "none" /\ OthersStay(t)
  BY <1>1 DEF Call, Goto, Starting, OthersStay, WorkerInv, TypeOK
<1>3. Mild(t) /\ Kept'
  BY DEF Call, Mild, Kept, OutputInv
<1>4. Switched(t)'
  BY <1>2, StartSwitched
<1>5. \A u \in Threads : u # t => Switched(u)'
  BY <1>2, <1>3, OthersSwitched DEF OutputInv
<1> QED
  BY <1>3, <1>4, <1>5 DEF OutputInv

LEMMA AcquireSwitched ==
    ASSUME WorkerInv, OutputInv, NEW t \in Threads, Acquire(t)
    PROVE  OutputInv'
<1>1. /\ pc'[t] = "inside" /\ job' = job /\ result' = result /\ OthersStay(t) /\ Aside
      /\ pc[t] = "enter"
  BY DEF Acquire, Goto, OthersStay, WorkerInv, TypeOK, Aside
<1>2. job[t].op = 1 /\ result[t] = "none"
  BY <1>1 DEF OutputInv, Switched, Paced
<1>3. Switched(t)'
  BY <1>1, <1>2 DEF Switched, Paced, SwitchesBack, EndsWell, OffDone, Restored
<1>4. Mild(t) /\ Kept'
  BY <1>1, AsideMild
<1>5. \A u \in Threads : u # t => Switched(u)'
  BY <1>1, <1>4, OthersSwitched DEF OutputInv
<1> QED
  BY <1>3, <1>4, <1>5 DEF OutputInv

LEMMA LeaveSwitched ==
    ASSUME WorkerInv, OutputInv, NEW t \in Threads, Leave(t) \/ Convert(t)
    PROVE  OutputInv'
<1>1. UNCHANGED <<dev, onBy, saved, disturbed, reported>>
  BY DEF Leave, Convert
<1>2. pc[t] \in {"inside", "convert"} /\ AtEnd(t)
  BY DEF Leave, Convert, OutputInv, Switched, Paced
<1>3. CASE Proceeds(t, job[t])
  BY <1>1, <1>2, <1>3, ProceedsSwitches
<1>4. CASE Leave(t) /\ Goto(t, "convert") /\ UNCHANGED <<job, result>>
  <2>1. pc'[t] = "convert" /\ OthersStay(t) /\ pc[t] = "inside"
    BY <1>4 DEF Leave, Goto, OthersStay, WorkerInv, TypeOK
  <2>2. AtEnd(t)' = AtEnd(t)
    BY <1>4 DEF AtEnd, Here, Sections, Final
  <2>3. Switched(t)
    BY DEF OutputInv
  <2>4. Switched(t)'
    BY <1>1, <1>2, <1>4, <2>1, <2>2, <2>3
       DEF Switched, Paced, SwitchesBack, EndsWell, OffDone, Restored
  <2>5. Mild(t) /\ Kept'
    BY <1>1, AsideMild DEF Aside
  <2>6. \A u \in Threads : u # t => Switched(u)'
    BY <2>1, <2>5, OthersSwitched DEF OutputInv
  <2> QED
    BY <2>4, <2>5, <2>6 DEF OutputInv
<1> QED
  BY <1>3, <1>4 DEF Leave, Convert

LEMMA OutputInit == Init => OutputInv
<1> SUFFICES ASSUME Init PROVE OutputInv
  OBVIOUS
<1>1. Kept
  BY DEF Init, Kept
<1> QED
  BY <1>1 DEF Init, OutputInv, Switched, Paced, SwitchesBack, EndsWell

LEMMA StillSwitched ==
    ASSUME OutputInv, UNCHANGED <<pc, job, result, onBy, saved, disturbed, reported>>,
           dev'["OUTPUT"] = dev["OUTPUT"]
    PROVE  OutputInv'
<1>1. ASSUME NEW t \in Threads
      PROVE  Switched(t)'
  <2>1. Switched(t)
    BY DEF OutputInv
  <2>2. AtEnd(t)' = AtEnd(t)
    BY DEF AtEnd, Here, Sections, Final
  <2> QED
    BY <2>1, <2>2 DEF Switched, Paced, SwitchesBack, EndsWell, OffDone, Restored
<1> QED
  BY <1>1 DEF OutputInv, Kept

LEMMA OutputStep == WorkerInv /\ OutputInv /\ [Next]_vars => OutputInv'
<1> SUFFICES ASSUME WorkerInv, OutputInv, [Next]_vars
             PROVE  OutputInv'
  OBVIOUS
<1>1. ASSUME NEW t \in Threads, Call(t) \/ Enter(t)
      PROVE  OutputInv'
  BY <1>1, CallSwitched, AcquireSwitched, FailuresSwitched DEF Enter
<1>2. ASSUME NEW t \in Threads, Inside(t)
      PROVE  OutputInv'
  BY <1>2, WriteReturnsSwitched, ReadsSwitched, FailuresSwitched, PortFailsSwitched,
     LeaveSwitched DEF Inside
<1>3. CASE Refresh
  <2>1. dev'["OUTPUT"] = dev["OUTPUT"]
    BY <1>3 DEF Refresh, WorkerInv, TypeOK, Registers, Settings
  <2> QED
    BY <1>3, <2>1, StillSwitched DEF Refresh
<1>4. CASE UNCHANGED vars
  BY <1>4, StillSwitched DEF vars
<1> QED
  BY <1>1, <1>2, <1>3, <1>4 DEF Next

LEMMA OutputInvariant == Spec => []OutputInv
BY WorkerInvariant, OutputInit, OutputStep, PTL DEF Spec

(* waveform, inrush_capture and vsweep: one that returns normally has      *)
(* turned the output off after every time it turned it on, whatever calls  *)
(* failed on the way and whatever other threads did meanwhile.             *)
THEOREM WorkerReturnedProceduresLeaveOff == Spec => []ReturnedProceduresLeaveOff
<1>1. OutputInv => ReturnedProceduresLeaveOff
  BY DEF OutputInv, Switched, EndsWell, ReturnedProceduresLeaveOff, Switchers
<1> QED
  BY <1>1, OutputInvariant, PTL

(* waveform, one that raises: the finally clause has turned the output     *)
(* off, unless the call that failed was that of _start or of _finish.      *)
THEOREM WorkerFailedWaveformLeavesOff == Spec => []FailedWaveformLeavesOff
<1>1. OutputInv => FailedWaveformLeavesOff
  BY DEF OutputInv, Switched, EndsWell, FailedWaveformLeavesOff, Before
<1> QED
  BY <1>1, OutputInvariant, PTL

(* diff_scan, "The output is restored to its original state after the      *)
(* scan", for any number of samples and of other threads, if none of them  *)
(* switches the output and the calls that read and restore it work.        *)
THEOREM WorkerDiffScanRestores == Spec => []DiffScanRestores
<1>1. OutputInv => DiffScanRestores
  BY DEF OutputInv, Switched, EndsWell, DiffScanRestores, Before
<1> QED
  BY <1>1, OutputInvariant, PTL

---------------------------------------------------------------------------
(* The status of a setting.                                                *)

(* A setting is in the supply, then in the attributes, then in the status, *)
(* as the operations of its one section go on.                             *)
Showing(t) ==
    LET c == job[t].cmd
    IN  c.name = "set" =>
          /\ pc[t] = "inside" /\ job[t].op = 2 => dev[c.reg] = c.val
          /\ pc[t] = "inside" /\ job[t].op = 3 => cache[c.reg] = c.val
          /\ pc[t] \in {"inside", "convert"} /\ job[t].op >= 4 => reported[t][c.reg] = c.val
          /\ result[t] = "ok" => reported[t][c.reg] = c.val

ShowingInv == \A t \in Threads : Showing(t)

LEMMA SettingsMade ==
    ASSUME WorkerInv, NEW t \in Threads, job[t].cmd.name = "set"
    PROVE  job[t].cmd.reg \in Settings
<1>1. job[t].cmd \in AllCommands
  BY CommandsKnown DEF WorkerInv, TypeOK, Jobs
<1> QED
  BY <1>1 DEF AllCommands

(* The section of a setting, and the operation a thread is at.             *)
LEMMA SettingPlace ==
    ASSUME WorkerInv, NEW t \in Threads, pc[t] # "idle", job[t].cmd.name = "set"
    PROVE  /\ Here(t).onFail = "raise" /\ Len(Here(t).ops) = 3
           /\ ~AtEnd(t) => job[t].op \in {1, 2, 3}
           /\ job[t].op = 1 => TheOp(t) = Set(job[t].cmd.reg, job[t].cmd.val)
           /\ job[t].op = 2 => TheOp(t) = Update
           /\ job[t].op = 3 => TheOp(t) = Report
<1> DEFINE c == job[t].cmd
           p == setting(c.reg, c.val)
<1>1. ProgramOf[c] = p
  BY Placed, ProgramsNamed
<1>2. /\ p.final = <<>> /\ Len(p.main) = 1
      /\ p.main[1].onFail = "raise" /\ Len(p.main[1].ops) = 3
      /\ p.main[1].ops[1] = Set(c.reg, c.val)
      /\ p.main[1].ops[2] = Update /\ p.main[1].ops[3] = Report
  BY SettingShape
<1>3. Sections(t) = (IF job[t].phase = "main" THEN p.main ELSE p.final)
  BY <1>1 DEF Sections, Final
<1> HIDE DEF p
<1>4. job[t].sec = 1 /\ Sections(t) = p.main
  <2>1. job[t].sec \in 1 .. Len(Sections(t))
    BY Placed
  <2>2. Len(p.final) = 0
    BY <1>2
  <2>3. job[t].phase = "main"
    <3>1. ASSUME job[t].phase # "main"
          PROVE  FALSE
      <4>1. Len(Sections(t)) = 0
        BY <1>3, <2>2, <3>1
      <4> QED
        BY <2>1, <4>1
    <3> QED
      BY <3>1
  <2>4. Sections(t) = p.main
    BY <1>3, <2>3
  <2>5. Len(Sections(t)) = 1
    BY <1>2, <2>4
  <2> QED
    BY <2>1, <2>4, <2>5
<1>5. Here(t) = p.main[1]
  BY <1>4 DEF Here
<1>6. ~AtEnd(t) => job[t].op \in {1, 2, 3}
  <2>1. job[t].op \in Nat \ {0}
    BY Placed
  <2>2. Len(Here(t).ops) = 3
    BY <1>2, <1>5
  <2> QED
    BY <2>1, <2>2 DEF AtEnd
<1> QED
  BY <1>2, <1>5, <1>6 DEF TheOp

(* What another thread's step leaves a setting: its status, and as long as *)
(* it holds the lock the registers and the attributes of the settings.     *)
Quiet(t) ==
    \A u \in Threads : u # t =>
        /\ reported'[u] = reported[u]
        /\ pc[u] = "inside" =>
             \A r \in Settings : dev'[r] = dev[r] /\ cache'[r] = cache[r]

LEMMA OthersShowing ==
    ASSUME WorkerInv, NEW t \in Threads, OthersStay(t), Quiet(t),
           NEW u \in Threads, u # t, Showing(u)
    PROVE  Showing(u)'
<1>1. pc'[u] = pc[u] /\ job'[u] = job[u] /\ result'[u] = result[u]
  BY DEF OthersStay
<1>2. reported'[u] = reported[u]
  BY DEF Quiet
<1>3. ASSUME job[u].cmd.name = "set", pc[u] = "inside"
      PROVE  /\ dev'[job[u].cmd.reg] = dev[job[u].cmd.reg]
             /\ cache'[job[u].cmd.reg] = cache[job[u].cmd.reg]
  BY <1>3, SettingsMade DEF Quiet
<1> QED
  BY <1>1, <1>2, <1>3 DEF Showing

(* A thread inside a section keeps the others out of theirs.               *)
LEMMA InsideQuiet ==
    ASSUME WorkerInv, NEW t \in Threads, pc[t] = "inside",
           \A u \in Threads : u # t => reported'[u] = reported[u]
    PROVE  Quiet(t)
BY DEF WorkerInv, Quiet

(* A thread at the start of a section, or at the end of a command.         *)
LEMMA StartShowing ==
    ASSUME WorkerInv, NEW t \in Threads, pc'[t] = "enter", result'[t] = "none"
    PROVE  Showing(t)'
BY DEF Showing

LEMMA FailureShowing ==
    ASSUME WorkerInv, OutputInv, ShowingInv, NEW t \in Threads, pc[t] # "idle", Fails(t),
           Quiet(t)
    PROVE  ShowingInv'
<1>1. OthersStay(t) /\ (GoesOn(t) \/ FailureEnds(t))
  BY FailsExits
<1>2. Showing(t)'
  <2>1. CASE GoesOn(t)
    BY <2>1, StartShowing DEF GoesOn, OutputInv, Switched, Paced
  <2>2. CASE FailureEnds(t)
    <3>1. pc'[t] = "idle" /\ job'[t].cmd = job[t].cmd
          /\ (result'[t] = "error" \/ Here(t).onFail # "raise")
      BY <2>2 DEF FailureEnds, Finishes
    <3> QED
      BY <3>1, SettingPlace DEF Showing
  <2> QED
    BY <1>1, <2>1, <2>2
<1> QED
  BY <1>1, <1>2, OthersShowing DEF ShowingInv

LEMMA ProceedsShowing ==
    ASSUME WorkerInv, OutputInv, ShowingInv, NEW t \in Threads, pc[t] \in {"inside", "convert"},
           AtEnd(t), Proceeds(t, job[t]), reported' = reported, Quiet(t)
    PROVE  ShowingInv'
<1>1. /\ OthersStay(t)
      /\ \/ GoesOn(t)
         \/ /\ \E outcome \in {"ok", "error"} : Finishes(t, outcome)
            /\ Lastly(t) /\ job'[t] = job[t]
  BY LeavesExits
<1>2. Showing(t)'
  <2>1. CASE GoesOn(t)
    BY <2>1, StartShowing DEF GoesOn, OutputInv, Switched, Paced
  <2>2. CASE \E outcome \in {"ok", "error"} : Finishes(t, outcome)
    <3>1. pc'[t] = "idle" /\ job'[t].cmd = job[t].cmd
      BY <2>2 DEF Finishes
    <3>2. job[t].cmd.name = "set" => job[t].op >= 4
      <4>1. job[t].op \in Nat \ {0}
        BY Placed
      <4>2. job[t].cmd.name = "set" => Len(Here(t).ops) = 3
        BY SettingPlace
      <4>3. job[t].op > Len(Here(t).ops)
        BY DEF AtEnd
      <4>4. job[t].cmd.name = "set" => job[t].op > 3
        BY <4>2, <4>3, Zenon
      <4> QED
        BY <4>1, <4>4
    <3> QED
      BY <3>1, <3>2 DEF Showing, ShowingInv
  <2> QED
    BY <1>1, <2>1, <2>2
<1> QED
  BY <1>1, <1>2, OthersShowing DEF ShowingInv

(* What the operations of a setting do to it.                              *)
Shows(t) ==
    LET c == job[t].cmd
    IN  c.name = "set" =>
          /\ TheOp(t) = Set(c.reg, c.val) => dev'[c.reg] = c.val
          /\ TheOp(t) = Update => cache'[c.reg] = dev[c.reg]
          /\ TheOp(t) = Report => reported'[t][c.reg] = cache[c.reg]

LEMMA OperationShowing ==
    ASSUME WorkerInv, OutputInv, ShowingInv, NEW t \in Threads, pc[t] = "inside", ~AtEnd(t),
           NextOp(t), Shows(t), \A u \in Threads : u # t => reported'[u] = reported[u]
    PROVE  ShowingInv'
<1> DEFINE j == [job[t] EXCEPT !.op = @ + 1]
<1>1. job[t] \in Jobs
  BY DEF WorkerInv, TypeOK
<1>2. j.cmd = job[t].cmd /\ j.op = job[t].op + 1
  BY <1>1 DEF Jobs
<1>3. job' = [job EXCEPT ![t] = j] /\ UNCHANGED <<pc, result>>
  BY DEF NextOp
<1> HIDE DEF j
<1>4. job'[t] = j /\ OthersStay(t)
  BY <1>3 DEF WorkerInv, TypeOK, OthersStay
<1>5. result'[t] = "none" /\ pc'[t] = "inside"
  BY <1>3 DEF OutputInv, Switched, Paced
<1>6. Showing(t)'
  <2>1. SUFFICES ASSUME job[t].cmd.name = "set"
                 PROVE  Showing(t)'
    BY <1>2, <1>4 DEF Showing
  <2> DEFINE c == job[t].cmd
  <2>2. job[t].op \in {1, 2, 3}
    BY <2>1, SettingPlace
  <2>3. job[t].op = 1 => dev'[c.reg] = c.val
    BY <2>1, SettingPlace DEF Shows
  <2>4. job[t].op = 2 => cache'[c.reg] = c.val
    BY <2>1, SettingPlace DEF Shows, ShowingInv, Showing
  <2>5. job[t].op = 3 => reported'[t][c.reg] = c.val
    BY <2>1, SettingPlace DEF Shows, ShowingInv, Showing
  <2> QED
    BY <1>2, <1>4, <1>5, <2>2, <2>3, <2>4, <2>5 DEF Showing
<1>7. \A u \in Threads : u # t => Showing(u)'
  BY <1>4, InsideQuiet, OthersShowing DEF ShowingInv
<1> QED
  BY <1>6, <1>7 DEF ShowingInv

LEMMA OperationsShowing ==
    ASSUME WorkerInv, OutputInv, ShowingInv, NEW t \in Threads,
           \/ WriteReturns(t) \/ Updates(t) \/ Measures(t) \/ Peeks(t) \/ Attaches(t)
           \/ PortOpens(t) \/ Detaches(t) \/ Reports(t) \/ Saves(t)
    PROVE  ShowingInv'
<1>1. /\ pc[t] = "inside" /\ ~AtEnd(t) /\ NextOp(t)
  BY DEF WriteReturns, Writing, Updates, Measures, Peeks, Attaches, PortOpens, Detaches,
         Reports, Saves, Does
<1>2. \A u \in Threads : u # t => reported'[u] = reported[u]
  BY DEF WriteReturns, Updates, Measures, Peeks, Attaches, PortOpens, Detaches, Reports,
         Saves, OutputInv, Kept
<1>3. ASSUME job[t].cmd.name = "set"
      PROVE  job[t].cmd.reg \in Registers /\ job[t].cmd.reg \in StatusRegisters
  BY <1>3, SettingsMade DEF Registers, StatusRegisters
<1>4. CASE WriteReturns(t)
  <2>1. TheOp(t).do \in {"set", "write", "restore"} /\ Applies(t, TheOp(t).reg, Value(t))
    BY <1>4 DEF WriteReturns, Writing, Does, TheOp
  <2>2. \A reg, val : /\ Set(reg, val).do = "set" /\ Set(reg, val).reg = reg
                      /\ Set(reg, val).val = val
    BY DEF Set, Op
  <2>3. DOMAIN dev = Registers
    BY DEF WorkerInv, TypeOK
  <2>4. Shows(t)
    BY <1>3, <2>1, <2>2, <2>3, OperationsApart DEF Shows, Applies, Value
  <2> QED
    BY <1>1, <1>2, <2>4, OperationShowing
<1>5. CASE Updates(t)
  <2>1. TheOp(t).do = "update" /\ cache' = StatusOf(dev)
    BY <1>5 DEF Updates, Does, TheOp
  <2>2. \A reg, val : Set(reg, val).do = "set"
    BY DEF Set, Op
  <2>3. Shows(t)
    BY <1>3, <2>1, <2>2, OperationsApart DEF Shows, StatusOf
  <2> QED
    BY <1>1, <1>2, <2>3, OperationShowing
<1>6. CASE Reports(t)
  <2>1. TheOp(t).do = "report" /\ reported'[t] = cache
    BY <1>6 DEF Reports, Does, TheOp, OutputInv, Kept
  <2>2. \A reg, val : Set(reg, val).do = "set"
    BY DEF Set, Op
  <2>3. Shows(t)
    BY <2>1, <2>2, OperationsApart DEF Shows
  <2> QED
    BY <1>1, <1>2, <2>3, OperationShowing
<1>7. CASE \/ Measures(t) \/ Peeks(t) \/ Attaches(t) \/ PortOpens(t) \/ Detaches(t)
           \/ Saves(t)
  <2>1. TheOp(t).do \in {"sample", "peek", "attach", "port_open", "detach", "save"}
    BY <1>7 DEF Measures, Peeks, Attaches, PortOpens, Detaches, Saves, Does, TheOp
  <2>2. \A reg, val : Set(reg, val).do = "set"
    BY DEF Set, Op
  <2>3. Shows(t)
    BY <2>1, <2>2, OperationsApart DEF Shows
  <2> QED
    BY <1>1, <1>2, <2>3, OperationShowing
<1> QED
  BY <1>4, <1>5, <1>6, <1>7

LEMMA FailuresShowing ==
    ASSUME WorkerInv, OutputInv, ShowingInv, NEW t \in Threads,
           \/ WriteUnacknowledged(t) \/ WriteFails(t) \/ ReadFails(t) \/ TypeFails(t)
           \/ NotConnected(t)
    PROVE  ShowingInv'
<1>1. pc[t] # "idle" /\ Fails(t) /\ reported' = reported
  BY DEF WriteUnacknowledged, WriteFails, Writing, ReadFails, Reading, TypeFails,
         NotConnected, Does, Aborts
<1>2. Quiet(t)
  <2>1. CASE NotConnected(t)
    BY <2>1 DEF NotConnected, Quiet
  <2>2. CASE pc[t] = "inside"
    BY <1>1, <2>2, InsideQuiet
  <2> QED
    BY <2>1, <2>2
       DEF WriteUnacknowledged, WriteFails, Writing, ReadFails, Reading, TypeFails, Does
<1> QED
  BY <1>1, <1>2, FailureShowing

LEMMA PortFailsShowing ==
    ASSUME WorkerInv, OutputInv, ShowingInv, NEW t \in Threads, PortFails(t)
    PROVE  ShowingInv'
<1> DEFINE k == [job[t] EXCEPT !.exc = TRUE]
<1>1. pc[t] = "inside" /\ Ends(t, k, FALSE) /\ reported' = reported
  BY DEF PortFails, Does
<1>2. k.cmd = job[t].cmd
  BY DEF WorkerInv, TypeOK, Jobs
<1> HIDE DEF k
<1>3. OthersStay(t) /\ Finishes(t, "error")
  BY <1>1, <1>2, EndsFinishes
<1>4. Quiet(t)
  BY <1>1, InsideQuiet
<1>5. Showing(t)'
  BY <1>3 DEF Finishes, Showing
<1> QED
  BY <1>3, <1>4, <1>5, OthersShowing DEF ShowingInv

LEMMA EnterShowing ==
    ASSUME WorkerInv, OutputInv, ShowingInv, NEW t \in Threads, Call(t) \/ Acquire(t)
    PROVE  ShowingInv'
<1>1. Quiet(t) /\ OthersStay(t)
  BY DEF Call, Acquire, Goto, Quiet, OthersStay, WorkerInv, TypeOK, OutputInv, Kept
<1>2. CASE Call(t)
  <2>1. pc'[t] = "enter" /\ result'[t] = "none"
    BY <1>2 DEF Call, Goto, WorkerInv, TypeOK
  <2>2. Showing(t)'
    BY <2>1, StartShowing
  <2> QED
    BY <1>1, <2>2, OthersShowing DEF ShowingInv
<1>3. CASE Acquire(t)
  <2>1. pc[t] = "enter" /\ job' = job /\ result' = result
    BY <1>3 DEF Acquire
  <2>2. job'[t].op = 1 /\ result'[t] = "none"
    BY <2>1 DEF OutputInv, Switched, Paced
  <2>3. Showing(t)'
    BY <2>2 DEF Showing
  <2> QED
    BY <1>1, <2>3, OthersShowing DEF ShowingInv
<1> QED
  BY <1>2, <1>3

LEMMA LeaveShowing ==
    ASSUME WorkerInv, OutputInv, ShowingInv, NEW t \in Threads, Leave(t) \/ Convert(t)
    PROVE  ShowingInv'
<1>1. reported' = reported
  BY DEF Leave, Convert
<1>2. pc[t] \in {"inside", "convert"} /\ AtEnd(t)
  BY DEF Leave, Convert, OutputInv, Switched, Paced
<1>3. Quiet(t)
  <2>1. CASE Leave(t)
    BY <1>1, <2>1, InsideQuiet DEF Leave
  <2>2. CASE Convert(t)
    <3>1. \A r \in Settings : dev'[r] = dev[r] /\ cache'[r] = cache[r]
      BY <2>2 DEF Convert, Settings, WorkerInv, TypeOK, StatusRegisters
    <3> QED
      BY <1>1, <3>1 DEF Quiet
  <2> QED
    BY <2>1, <2>2
<1>4. CASE Proceeds(t, job[t])
  BY <1>1, <1>2, <1>3, <1>4, ProceedsShowing
<1>5. CASE Leave(t) /\ Goto(t, "convert") /\ UNCHANGED <<job, result>>
  <2>1. pc'[t] = "convert" /\ OthersStay(t) /\ pc[t] = "inside"
    BY <1>5 DEF Leave, Goto, OthersStay, WorkerInv, TypeOK
  <2>2. Showing(t)'
    BY <1>1, <1>5, <2>1 DEF Showing, ShowingInv
  <2> QED
    BY <1>3, <2>1, <2>2, OthersShowing DEF ShowingInv
<1> QED
  BY <1>4, <1>5 DEF Leave, Convert

LEMMA StillShowing ==
    ASSUME WorkerInv, ShowingInv, UNCHANGED <<pc, job, result, cache, reported>>,
           \A r \in Settings : dev'[r] = dev[r]
    PROVE  ShowingInv'
<1> SUFFICES ASSUME NEW t \in Threads
             PROVE  Showing(t)'
  BY DEF ShowingInv
<1>1. job[t].cmd.name = "set" => dev'[job[t].cmd.reg] = dev[job[t].cmd.reg]
  BY SettingsMade
<1> QED
  BY <1>1 DEF ShowingInv, Showing

LEMMA ShowingStep == WorkerInv /\ OutputInv /\ ShowingInv /\ [Next]_vars => ShowingInv'
<1> SUFFICES ASSUME WorkerInv, OutputInv, ShowingInv, [Next]_vars
             PROVE  ShowingInv'
  OBVIOUS
<1>1. ASSUME NEW t \in Threads, Call(t) \/ Enter(t)
      PROVE  ShowingInv'
  BY <1>1, EnterShowing, FailuresShowing DEF Enter
<1>2. ASSUME NEW t \in Threads, Inside(t)
      PROVE  ShowingInv'
  BY <1>2, OperationsShowing, FailuresShowing, PortFailsShowing, LeaveShowing DEF Inside
<1>3. CASE Refresh
  <2>1. \A r \in Settings : dev'[r] = dev[r]
    BY <1>3 DEF Refresh, WorkerInv, TypeOK, Registers, Settings
  <2> QED
    BY <1>3, <2>1, StillShowing DEF Refresh
<1>4. CASE UNCHANGED vars
  BY <1>4, StillShowing DEF vars
<1> QED
  BY <1>1, <1>2, <1>3, <1>4 DEF Next

LEMMA ShowingInvariant == Spec => []ShowingInv
<1>1. Init => ShowingInv
  BY DEF Init, ShowingInv, Showing
<1> QED
  BY <1>1, WorkerInvariant, OutputInvariant, ShowingStep, PTL DEF Spec

(* set_voltage, set_current, set_output: the status such a command returns *)
(* shows the setting it made, since the write, the update and the status   *)
(* are made under one hold of _lock; a conversion, which is not, stores no *)
(* setting.                                                                *)
THEOREM WorkerStatusShowsSetting == Spec => []StatusShowsSetting
<1>1. ShowingInv => StatusShowsSetting
  BY DEF ShowingInv, Showing, StatusShowsSetting
<1> QED
  BY <1>1, ShowingInvariant, PTL

---------------------------------------------------------------------------
(* The lock, and what a section is kept apart from.                        *)

LEMMA OperationReleases ==
    ASSUME LockIsReleased, NEW t \in Threads, NextOp(t)
    PROVE  LockIsReleased'
BY DEF NextOp, LockIsReleased

LEMMA FreeReleases ==
    ASSUME lock' = Free
    PROVE  LockIsReleased'
BY WorkerAssumption DEF LockIsReleased

(* A thread outside its section does not hold the lock it does not take.   *)
LEMMA OutsideReleases ==
    ASSUME LockIsReleased, NEW t \in Threads, pc[t] # "inside", lock' = lock, OthersStay(t)
    PROVE  LockIsReleased'
BY DEF LockIsReleased, OthersStay

LEMMA ReleaseStep == WorkerInv /\ LockIsReleased /\ [Next]_vars => LockIsReleased'
<1> SUFFICES ASSUME WorkerInv, LockIsReleased, [Next]_vars
             PROVE  LockIsReleased'
  OBVIOUS
<1>1. ASSUME NEW t \in Threads, Call(t)
      PROVE  LockIsReleased'
  <2>1. pc[t] # "inside" /\ lock' = lock /\ OthersStay(t)
    BY <1>1 DEF Call, Goto, OthersStay, WorkerInv, TypeOK
  <2> QED
    BY <2>1, OutsideReleases
<1>2. ASSUME NEW t \in Threads, Acquire(t)
      PROVE  LockIsReleased'
  BY <1>2 DEF Acquire, Goto, LockIsReleased, WorkerInv, TypeOK
<1>3. ASSUME NEW t \in Threads, NotConnected(t)
      PROVE  LockIsReleased'
  BY <1>3, FreeReleases DEF NotConnected
<1>4. ASSUME NEW t \in Threads,
             \/ WriteReturns(t) \/ Updates(t) \/ Measures(t) \/ Peeks(t) \/ Attaches(t)
             \/ PortOpens(t) \/ Detaches(t) \/ Reports(t) \/ Saves(t)
      PROVE  LockIsReleased'
  BY <1>4, OperationReleases DEF WriteReturns, Updates, Measures, Peeks, Attaches, PortOpens,
     Detaches, Reports, Saves
<1>5. ASSUME NEW t \in Threads,
             \/ WriteUnacknowledged(t) \/ WriteFails(t) \/ ReadFails(t) \/ TypeFails(t)
             \/ PortFails(t) \/ Leave(t)
      PROVE  LockIsReleased'
  BY <1>5, FreeReleases DEF WriteUnacknowledged, WriteFails, ReadFails, TypeFails, Aborts,
     PortFails, Leave
<1>6. ASSUME NEW t \in Threads, Convert(t)
      PROVE  LockIsReleased'
  <2>1. pc[t] = "convert" /\ lock' = lock /\ Proceeds(t, job[t])
    BY <1>6 DEF Convert
  <2>2. OthersStay(t)
    BY <2>1, LeavesExits
  <2> QED
    BY <2>1, <2>2, OutsideReleases
<1>7. CASE Refresh \/ UNCHANGED vars
  BY <1>7 DEF Refresh, vars, LockIsReleased
<1> QED
  BY <1>1, <1>2, <1>3, <1>4, <1>5, <1>6, <1>7 DEF Next, Enter, Inside

(* with self._lock: no command, however it fails, keeps the lock, so a     *)
(* thread that waits for it waits for a section in progress.               *)
THEOREM WorkerLockIsReleased == Spec => []LockIsReleased
<1>1. Init => LockIsReleased
  BY WorkerAssumption DEF Init, LockIsReleased
<1> QED
  BY <1>1, ReleaseStep, WorkerInvariant, PTL DEF Spec

(* A step of a thread inside a section takes it to another operation, or   *)
(* out of the section.                                                     *)
LEMMA OwnStepsMove ==
    ASSUME WorkerInv, NEW t \in Threads, pc[t] = "inside", Inside(t)
    PROVE  pc'[t] # "inside" \/ job'[t] # job[t]
<1>1. CASE NextOp(t)
  <2> DEFINE j == [job[t] EXCEPT !.op = @ + 1]
  <2>1. job[t] \in Jobs
    BY DEF WorkerInv, TypeOK
  <2>2. j.op = job[t].op + 1 /\ job[t].op \in Nat
    BY <2>1 DEF Jobs
  <2>3. job'[t] = j
    BY <1>1 DEF NextOp, WorkerInv, TypeOK
  <2> HIDE DEF j
  <2> QED
    BY <2>2, <2>3
<1>2. CASE Fails(t)
  <2>1. GoesOn(t) \/ FailureEnds(t)
    BY <1>2, FailsExits
  <2> QED
    BY <2>1 DEF GoesOn, FailureEnds, Finishes
<1>3. CASE Proceeds(t, job[t])
  BY <1>3, LeavesExits DEF GoesOn, Finishes
<1>4. CASE PortFails(t) \/ Goto(t, "convert")
  BY <1>4 DEF PortFails, Ends, Goto, WorkerInv, TypeOK
<1>5. NextOp(t) \/ Fails(t) \/ Proceeds(t, job[t]) \/ PortFails(t) \/ Goto(t, "convert")
  <2>1. CASE \/ WriteReturns(t) \/ Updates(t) \/ Measures(t) \/ Peeks(t) \/ Attaches(t)
             \/ PortOpens(t) \/ Detaches(t) \/ Reports(t) \/ Saves(t)
    BY <2>1 DEF WriteReturns, Updates, Measures, Peeks, Attaches, PortOpens, Detaches,
       Reports, Saves
  <2>2. CASE WriteUnacknowledged(t) \/ WriteFails(t) \/ ReadFails(t) \/ TypeFails(t)
    BY <2>2 DEF WriteUnacknowledged, WriteFails, ReadFails, TypeFails, Aborts
  <2>3. CASE PortFails(t) \/ Leave(t) \/ Convert(t)
    BY <2>3 DEF Leave, Convert
  <2> QED
    BY <2>1, <2>2, <2>3 DEF Inside
<1> QED
  BY <1>1, <1>2, <1>3, <1>4, <1>5

LEMMA SectionStep ==
    ASSUME WorkerInv, [Next]_vars, NEW t \in Threads, pc[t] = "inside", pc'[t] = "inside",
           job'[t] = job[t]
    PROVE  /\ psu' = psu
           /\ \A r \in Settings : dev'[r] = dev[r] /\ cache'[r] = cache[r]
<1>1. lock = t /\ Free # t
  BY WorkerAssumption DEF WorkerInv
<1>2. \A u \in Threads : pc[u] = "inside" => u = t
  BY <1>1 DEF WorkerInv
<1>3. ASSUME NEW u \in Threads, Call(u) \/ Enter(u)
      PROVE  UNCHANGED <<psu, dev, cache>>
  BY <1>1, <1>3 DEF Call, Enter, Acquire, NotConnected
<1>4. ASSUME NEW u \in Threads, Inside(u)
      PROVE  Convert(u)
  <2>1. u # t
    BY <1>4, OwnStepsMove
  <2>2. pc[u] # "inside"
    BY <1>2, <2>1
  <2> QED
    BY <1>4, <2>2 DEF Inside, WriteReturns, WriteUnacknowledged, WriteFails, Writing, Updates,
       Measures, Peeks, Attaches, ReadFails, Reading, PortOpens, PortFails, Detaches, Reports,
       Saves, TypeFails, Leave, Does
<1>5. ASSUME NEW u \in Threads, Convert(u)
      PROVE  UNCHANGED <<psu, dev>> /\ \A r \in Settings : cache'[r] = cache[r]
  BY <1>5 DEF Convert, Settings, StatusRegisters, WorkerInv, TypeOK
<1>6. CASE Refresh
  BY <1>6 DEF Refresh, Settings, Registers, WorkerInv, TypeOK
<1>7. CASE UNCHANGED vars
  BY <1>7 DEF vars
<1> QED
  BY <1>3, <1>4, <1>5, <1>6, <1>7 DEF Next

(* "All Modbus I/O is serialised through _lock", as a step property: what  *)
(* a section reads and writes changes under it by its own operations only, *)
(* save the measured voltage.  This is what lets the modules of the        *)
(* servers take a section for one step.                                    *)
THEOREM WorkerSectionsApart == Spec => SectionsApart
<1>1. WorkerInv /\ [Next]_vars =>
        [\A t \in Threads :
            pc[t] = "inside" /\ pc'[t] = "inside" /\ job'[t] = job[t] =>
                /\ psu' = psu
                /\ \A r \in Settings : dev'[r] = dev[r] /\ cache'[r] = cache[r]]_vars
  BY SectionStep
<1> QED
  BY <1>1, WorkerInvariant, PTL DEF Spec, SectionsApart

=============================================================================
