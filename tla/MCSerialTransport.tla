------------------------- MODULE MCSerialTransport -------------------------
(***************************************************************************)
(* Instances of SerialTransport for TLC.                                   *)
(***************************************************************************)
EXTENDS SerialTransport

Read(reg, n) == [op |-> "read", reg |-> reg, vals |-> [i \in 1 .. n |-> 0]]
Write(reg, v) == [op |-> "write", reg |-> reg, vals |-> <<v>>]
WriteMultiple(reg, vals) == [op |-> "write_multiple", reg |-> reg, vals |-> vals]

(* Every kind of call, with an unpackable value (Word = 2) and with values *)
(* that FC16 wraps.                                                        *)
AllCalls == {Read(0, 1), Read(1, 1), Read(0, 2),
             Write(0, 0), Write(0, 1), Write(1, 2),
             WriteMultiple(0, <<>>), WriteMultiple(1, <<1>>),
             WriteMultiple(0, <<1, 3>>)}

(* Two single-register reads: nothing ever writes.                         *)
ReadsOnly == {Read(0, 1), Read(1, 1)}

=============================================================================
