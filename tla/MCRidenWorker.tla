--------------------------- MODULE MCRidenWorker ---------------------------
(***************************************************************************)
(* Instances of RidenWorker for TLC.                                       *)
(***************************************************************************)
EXTENDS RidenWorker, TLC

CONSTANTS t1, t2

SetTo(reg, val) == Command("set", reg, val)

Procedures == {Plainly("waveform"), Plainly("inrush_capture"), Plainly("vsweep"),
               Plainly("power_cycle"), Command("diff_scan", "OUTPUT", On),
               Command("diff_scan", "OUTPUT", Off)}

(* One thread connects and runs the procedures; the other switches the     *)
(* output, closes, opens again or samples meanwhile.                       *)
ProcedureMenu ==
    (t1 :> Procedures \cup {Plainly("open")}) @@
    (t2 :> {SetTo("OUTPUT", On), SetTo("OUTPUT", Off), Plainly("open"),
            Plainly("close"), Plainly("log_sample")})

(* Both threads run the commands of a single section; one also samples.    *)
CommandMenu ==
    (t1 :> {Plainly("open"), SetTo("V_SET", Low), SetTo("I_SET", Low), SetTo("OUTPUT", On),
            Command("modbus_write_register", "V_SET", Peak),
            Plainly("get_parameter"), Plainly("register_scan"),
            Plainly("profile_serial"), Plainly("modbus_read_holding")}) @@
    (t2 :> {Plainly("open"), Plainly("close"), SetTo("V_SET", Peak),
            Command("protect", "M0_OVP", Low), Command("protect", "M0_OCP", Low),
            Command("set_parameter", "M0_OVP", Low), Command("set_parameter", "V_OUT", Low),
            Plainly("power_cycle"), Plainly("log_sample"), Plainly("log_status"),
            Plainly("firmware"), Plainly("beep"), Plainly("list_parameters")})

(* An emergency stop while a procedure runs.                               *)
StopMenu ==
    (t1 :> {Plainly("open"), Plainly("power_cycle"), Command("diff_scan", "OUTPUT", On),
            Command("diff_scan", "OUTPUT", Off)}) @@
    (t2 :> {SetTo("OUTPUT", On), SetTo("OUTPUT", Off)})

(* The two measurements that end with the output off, each on its own.     *)
MeasureMenu == (t1 :> {Plainly("open"), Plainly("vsweep"), Plainly("inrush_capture")})

=============================================================================
