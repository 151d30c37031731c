----------------------------- MODULE ModbusRtu -----------------------------
(***************************************************************************)
(* The Modbus RTU frames of riden_transport.py: requests FC03, FC06 and    *)
(* FC16, the device's replies, and what the host checks of a reply.  A     *)
(* frame is a record; its CRC and length are abstracted to the record      *)
(* being the one that was sent, or Noise.                                  *)
(***************************************************************************)
EXTENDS Integers, Sequences

CONSTANTS LastReg,    (* registers are 0 .. LastReg                        *)
          Word,       (* register values are 0 .. Word - 1 (2^16 in Modbus)*)
          Calls       (* the method calls [op, reg, vals] that are made    *)

Ops == {"read", "write", "write_multiple"}
Regs == 0 .. LastReg
Values == 0 .. Word - 1

(* A read's vals only gives its count; write takes exactly one value.      *)
ASSUME ModbusAssumption ==
    /\ LastReg \in Nat
    /\ Word \in Nat \ {0}
    /\ \A c \in Calls : /\ c \in [op : Ops, reg : Regs, vals : Seq(Int)]
                        /\ c.op = "read" => c.vals # <<>>
                        /\ c.op = "write" => Len(c.vals) = 1
                        /\ c.reg + Len(c.vals) - 1 \in -1 .. LastReg

(* read sends FC03, write FC06; write_multiple of one value is a write.    *)
FunctionCode(c) ==
    IF c.op = "read" THEN 3
    ELSE IF c.op = "write" \/ Len(c.vals) = 1 THEN 6
    ELSE 16

(* Values that are not reduced to a word.                                  *)
FrameUnwrapped(c) ==
    LET fc == FunctionCode(c)
    IN  [fc   |-> fc,
         reg  |-> c.reg,
         n    |-> Len(c.vals),
         vals |-> IF fc = 3 THEN <<>> ELSE c.vals]

(* The request frame of a call with at least one value.  FC16 takes each   *)
(* value modulo the word, FC06 takes it as it is.                          *)
Frame(c) ==
    LET fc == FunctionCode(c)
    IN  [fc   |-> fc,
         reg  |-> c.reg,
         n    |-> Len(c.vals),
         vals |-> IF fc = 3 THEN <<>>
                  ELSE IF fc = 6 THEN c.vals
                  ELSE [i \in DOMAIN c.vals |-> c.vals[i] % Word]]

Frames == {Frame(c) : c \in {d \in Calls : d.vals # <<>>}}

(* struct.pack raises for an FC06 value outside the word.                  *)
Packs(q) == q.fc = 6 => q.vals[1] \in Values

(* The values of n registers of bank from reg on.                          *)
Block(bank, reg, n) == [i \in 1 .. n |-> bank[reg + i - 1]]

(* The bank after the device has served request q.                         *)
Patched(bank, q) ==
    IF q.fc = 3
    THEN bank
    ELSE [r \in Regs |-> IF r \in q.reg .. (q.reg + q.n - 1)
                         THEN q.vals[r - q.reg + 1]
                         ELSE bank[r]]

(* The device's reply.  FC03 carries the values and not the register they  *)
(* come from; FC06 echoes the request; FC16 echoes start and count.        *)
Reply(bank, q) ==
    IF q.fc = 3
    THEN [fc |-> 3, reg |-> 0, n |-> q.n, vals |-> Block(bank, q.reg, q.n)]
    ELSE IF q.fc = 6 THEN q
    ELSE [q EXCEPT !.vals = <<>>]

(* Bytes that are no frame: line-status bytes, or a frame that was damaged.*)
Noise == [fc |-> 0, reg |-> 0, n |-> 0, vals |-> <<>>]

(* A host that does not check what it read.                                *)
AcceptsAnything(q, r) == TRUE

(* What the host checks of what it read: a frame of another length fails   *)
(* the length or the CRC check, so n stands for both.                      *)
Accepts(q, r) ==
    /\ r.fc = q.fc
    /\ r.n = q.n
    /\ q.fc = 6 => r = q
    /\ q.fc = 16 => r.reg = q.reg

=============================================================================
