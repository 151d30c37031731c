--------------------------- MODULE MCCommandLine ---------------------------
(* Instances of CommandLine.                                               *)
EXTENDS CommandLine

(* An empty image, one that fits a single chunk and names no model, and    *)
(* one of two chunks that names one.                                       *)
ImageLength == [f \in Files |-> CASE f = "empty" -> 0 [] f = "short" -> 1 [] OTHER -> 2]
ImageModel == [f \in Files |-> IF f = "long" THEN "supported" ELSE NoModel]

TwoAddresses == <<1, 2>>

AllChains == {<<"measure">>, <<"status", "measure">>,
              <<"identify", "status", "write", "measure", "characterize">>}
============================================================================
