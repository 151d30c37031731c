--------------------------- MODULE WorkerCommands ---------------------------
(***************************************************************************)
(* The commands of riden_daemon.py: RidenWorker as programs.  A program is *)
(* a sequence of sections, and the sections of its finally clause.  The    *)
(* worker runs the operations of a section while it holds _lock, and holds *)
(* no lock between two sections.                                           *)
(***************************************************************************)
EXTENDS Integers, Sequences

CONSTANT Samples      (* passes through each sampling loop, at least one;   *)
                      (* the code bounds them by a duration or an argument  *)

ASSUME SamplesAssumption == Samples \in Nat \ {0}

(* The registers the commands are about.                                   *)
Settings == {"V_SET", "I_SET", "OUTPUT"}
Registers == Settings \cup {"V_OUT", "M0_OVP", "M0_OCP"}

(* What _read_status and update take from the device.                      *)
StatusRegisters == Settings \cup {"V_OUT"}

Off == 0
On == 1
Low == 1              (* two setpoints above 0                             *)
Peak == 2
Levels == 0 .. 2

---------------------------------------------------------------------------
(* Operations and sections.                                                *)

Op(do, reg, val) == [do |-> do, reg |-> reg, val |-> val]

Set(reg, val)   == Op("set", reg, val)          (* psu.set_v_set, _set_output, ... *)
Write(reg, val) == Op("write", reg, val)        (* a write that caches nothing     *)
Update          == Op("update", "V_SET", 0)     (* psu.update()                    *)
Report          == Op("report", "V_SET", 0)     (* the dict built by _read_status  *)
Sample          == Op("sample", "V_OUT", 0)     (* transport.read into raw         *)
Peek            == Op("peek", "V_OUT", 0)       (* a read that caches nothing      *)
Save            == Op("save", "OUTPUT", 0)      (* original_output = ...           *)
Restore         == Op("restore", "OUTPUT", 0)   (* _set_output(original_output)    *)
TypeFault       == Op("raise", "V_SET", 0)      (* ValueError, TypeError           *)
PortOpen        == Op("port_open", "V_SET", 0)  (* transport.open()                *)
Attach          == Op("attach", "V_SET", 0)     (* self._psu = RidenDevice(...)    *)
Detach          == Op("detach", "V_SET", 0)     (* psu.close(); self._psu = None   *)

(* onFail: what an exception in the section does: "raise" it, "swallow" it *)
(* and go on behind the section, or "count" it and go on until there are   *)
(* too many.  guarded: the section is inside the try of the finally.       *)
(* asserts: the section starts with _assert_connected.                     *)
Section(ops, onFail, guarded) ==
    [ops |-> ops, onFail |-> onFail, guarded |-> guarded, asserts |-> TRUE]

Locked(ops)  == Section(ops, "raise", FALSE)
InTry(ops)   == Section(ops, "raise", TRUE)
Tolerant(ops) == Section(ops, "swallow", FALSE)
Lifecycle(ops) == [Section(ops, "swallow", FALSE) EXCEPT !.asserts = FALSE]

Plain(sections) == [main |-> sections, final |-> <<>>]
One(ops) == Plain(<<Locked(ops)>>)

(* The section repeated for every sample.                                  *)
Loop(section) == [i \in 1 .. Samples |-> section]

---------------------------------------------------------------------------
(* Single-section commands.                                                *)

status == One(<<Update, Report>>)
firmware == One(<<>>)

(* Setting and reading back in two sections.                               *)
setting_in_two(reg, val) ==
    Plain(<<Locked(<<Set(reg, val)>>), Locked(<<Update, Report>>)>>)

setting(reg, val) == One(<<Set(reg, val), Update, Report>>)
protection(reg, val) == One(<<Write(reg, val), Update, Report>>)

(* A parameter that is one of the settings is set by setting.  Those of    *)
(* the protection are written, but cannot be read back; the others cannot  *)
(* be written.                                                             *)
set_parameter(reg, val) ==
    IF reg \in {"M0_OVP", "M0_OCP"}
    THEN One(<<Write(reg, val), TypeFault>>)
    ELSE One(<<TypeFault>>)

list_parameters == One(<<Update>>)
get_parameter == One(<<Update, Update, Report>>)

(* No model has a buzzer: the ValueError ends the section before any call  *)
(* and is caught by beep, which returns.                                   *)
beep == One(<<>>)

modbus_read_holding == One(<<Peek>>)

(* int(psu.write(...)): write returns None.                                *)
modbus_write_register(reg, val) == One(<<Write(reg, val), TypeFault>>)

profile_serial == One(<<Peek>> \o [i \in 1 .. Samples |-> Peek])

(* open reports a device that does not answer, or cannot be profiled, only *)
(* in the log.                                                             *)
open == Plain(<<Lifecycle(<<PortOpen, Attach, Peek>>)>>)
close == Plain(<<Lifecycle(<<Detach>>)>>)

---------------------------------------------------------------------------
(* Commands that release the lock between their sections.                  *)

power_cycle ==
    Plain(<<Locked(<<Set("OUTPUT", Off)>>),
            Locked(<<Set("OUTPUT", On), Update, Report>>)>>)

(* The finally clause without its last write to the output.                *)
waveform_left_on ==
    [main  |-> <<Locked(<<Set("OUTPUT", On)>>)>>
                 \o Loop(Section(<<Set("V_SET", Low)>>, "count", TRUE)),
     final |-> <<Locked(<<Set("V_SET", Peak), Update, Report>>)>>]

(* The sampling loop outside the try.                                      *)
waveform_unguarded ==
    [main  |-> <<Locked(<<Set("OUTPUT", On)>>)>>
                 \o Loop(Section(<<Set("V_SET", Low)>>, "count", FALSE)),
     final |-> <<Locked(<<Set("V_SET", Peak), Set("OUTPUT", Off), Update, Report>>)>>]

waveform ==
    [main  |-> <<Locked(<<Set("OUTPUT", On)>>)>>
                 \o Loop(Section(<<Set("V_SET", Low)>>, "count", TRUE)),
     final |-> <<Locked(<<Set("V_SET", Peak), Set("OUTPUT", Off), Update, Report>>)>>]

inrush_capture ==
    Plain(<<Locked(<<Set("OUTPUT", Off), Set("V_SET", Peak), Set("I_SET", Peak)>>),
            Locked(<<Set("OUTPUT", On)>>)>>
          \o Loop(Tolerant(<<Sample>>))
          \o <<Locked(<<Set("OUTPUT", Off)>>)>>)

(* Odd sections of the loop set the step, even ones measure it.            *)
vsweep ==
    Plain(<<Locked(<<Set("OUTPUT", Off), Set("V_SET", 0), Set("I_SET", Peak)>>),
            Locked(<<Set("OUTPUT", On)>>)>>
          \o [i \in 1 .. 2 * Samples |-> IF i % 2 = 1
                                         THEN Locked(<<Set("V_SET", Low)>>)
                                         ELSE Locked(<<Sample>>)]
          \o <<Locked(<<Set("V_SET", 0), Set("OUTPUT", Off)>>)>>)

register_scan == Plain(Loop(Tolerant(<<Peek>>)))

(* Restoring at the end of the command instead of in a finally clause.     *)
diff_scan_unrestored(val) ==
    Plain(<<Locked(<<Update, Save>>), Locked(<<Set("OUTPUT", 1 - val)>>)>>
          \o Loop(Tolerant(<<Peek>>))
          \o <<Locked(<<Set("OUTPUT", val)>>)>>
          \o Loop(Tolerant(<<Peek>>))
          \o <<Tolerant(<<Restore>>)>>)

(* The second scan is made with the output in state val.                   *)
diff_scan(val) ==
    [main  |-> <<Locked(<<Update, Save>>)>>
                 \o <<InTry(<<Set("OUTPUT", 1 - val)>>)>>
                 \o Loop(Section(<<Peek>>, "swallow", TRUE))
                 \o <<InTry(<<Set("OUTPUT", val)>>)>>
                 \o Loop(Section(<<Peek>>, "swallow", TRUE)),
     final |-> <<Tolerant(<<Restore>>)>>]

(* One pass of _current_log_loop; _log_loop polls with status.             *)
log_sample == Plain(<<Tolerant(<<Sample>>)>>)
log_status == Plain(<<Tolerant(<<Update, Report>>)>>)

---------------------------------------------------------------------------

Command(name, reg, val) == [name |-> name, reg |-> reg, val |-> val]
Plainly(name) == Command(name, "OUTPUT", 0)

CommandNames ==
    {"status", "firmware", "set", "protect", "list_parameters", "get_parameter", "beep",
     "modbus_read_holding", "modbus_write_register", "profile_serial", "open", "close",
     "power_cycle", "waveform", "inrush_capture", "vsweep", "register_scan", "diff_scan",
     "log_sample", "log_status", "set_parameter"}

(* set makes one of the three settings, protect one of the two of the      *)
(* protection, set_parameter anything but a setting; the argument of diff_scan, like that of set_output, is one  *)
(* of the two states of the output.                                        *)
AllCommands ==
    {c \in [name : CommandNames, reg : Registers, val : Levels] :
        /\ c.name = "set" => c.reg \in Settings
        /\ c.name = "protect" => c.reg \in {"M0_OVP", "M0_OCP"}
        /\ c.name = "set_parameter" => c.reg \notin Settings
        /\ c.name = "diff_scan" \/ (c.name = "set" /\ c.reg = "OUTPUT")
             => c.val \in {Off, On}}

Program(c) ==
    CASE c.name = "status" -> status
      [] c.name = "firmware" -> firmware
      [] c.name = "set" -> setting(c.reg, c.val)
      [] c.name = "protect" -> protection(c.reg, c.val)
      [] c.name = "list_parameters" -> list_parameters
      [] c.name = "get_parameter" -> get_parameter
      [] c.name = "beep" -> beep
      [] c.name = "modbus_read_holding" -> modbus_read_holding
      [] c.name = "modbus_write_register" -> modbus_write_register(c.reg, c.val)
      [] c.name = "profile_serial" -> profile_serial
      [] c.name = "open" -> open
      [] c.name = "close" -> close
      [] c.name = "power_cycle" -> power_cycle
      [] c.name = "waveform" -> waveform
      [] c.name = "inrush_capture" -> inrush_capture
      [] c.name = "vsweep" -> vsweep
      [] c.name = "register_scan" -> register_scan
      [] c.name = "diff_scan" -> diff_scan(c.val)
      [] c.name = "log_sample" -> log_sample
      [] c.name = "log_status" -> log_status
      [] c.name = "set_parameter" -> set_parameter(c.reg, c.val)

=============================================================================
