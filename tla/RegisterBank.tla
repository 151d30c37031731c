--------------------------- MODULE RegisterBank ---------------------------
(***************************************************************************)
(* What RidenTransport promises its callers: a bank of holding registers   *)
(* with one outstanding call per master.  A call that returns normally has *)
(* taken effect and returns what the registers hold; a call that raises    *)
(* may have taken effect, any number of times, or not at all.              *)
(***************************************************************************)
EXTENDS ModbusRtu

CONSTANT Masters     (* the users of the bank                              *)

VARIABLES bank,      (* the register values                                *)
          call,      (* per master: its request                            *)
          busy,      (* per master: is the request outstanding?            *)
          outcome    (* per master: how its last call ended                *)

vars == <<bank, call, busy, outcome>>

Ends(m, status, vals) ==
    outcome' = [outcome EXCEPT ![m] = [status |-> status, vals |-> vals]]

Init ==
    /\ bank \in [Regs -> Values]
    /\ call \in [Masters -> Frames]
    /\ busy = [m \in Masters |-> FALSE]
    /\ outcome = [m \in Masters |-> [status |-> "none", vals |-> <<>>]]

Invoke(m) ==
    /\ ~busy[m]
    /\ \E q \in Frames : call' = [call EXCEPT ![m] = q]
    /\ busy' = [busy EXCEPT ![m] = TRUE]
    /\ UNCHANGED <<bank, outcome>>

(* The device carries out the request; a retried write does so again.      *)
Apply(m) ==
    /\ busy[m]
    /\ Packs(call[m])
    /\ bank' = Patched(bank, call[m])
    /\ UNCHANGED <<call, busy, outcome>>

(* The registers hold what a write asked for and what the call returns.    *)
ReturnOk(m) ==
    /\ busy[m]
    /\ bank = Patched(bank, call[m])
    /\ busy' = [busy EXCEPT ![m] = FALSE]
    /\ Ends(m, "ok", IF call[m].fc = 3 THEN Block(bank, call[m].reg, call[m].n)
                                       ELSE <<>>)
    /\ UNCHANGED <<bank, call>>

(* TimeoutError: whether the call took effect is not known.                *)
ReturnTimeout(m) ==
    /\ busy[m]
    /\ busy' = [busy EXCEPT ![m] = FALSE]
    /\ Ends(m, "timeout", <<>>)
    /\ UNCHANGED <<bank, call>>

(* Over without touching the registers: the transport is not open, or      *)
(* there is nothing to write.                                              *)
Skip(m) ==
    /\ ~busy[m]
    /\ \E status \in {"not open", "ok"} : Ends(m, status, <<>>)
    /\ UNCHANGED <<bank, call, busy>>

Next == \E m \in Masters :
          Invoke(m) \/ Apply(m) \/ ReturnOk(m) \/ ReturnTimeout(m) \/ Skip(m)

Spec == Init /\ [][Next]_vars

=============================================================================
