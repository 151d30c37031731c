----------------------------- MODULE MCServices -----------------------------
(* An instance of Services: two supplies; one slot for the clients that    *)
(* stop things, one for those that use the supplies.                       *)
EXTENDS Services

TwoPsus == <<"bench", "lamp">>

TwoSlots == <<{"hold", "all_off", "shutdown"},
              {"all_off", "ping", "list_psus", "connect", "disconnect", "query", "on", "off",
               "power_cycle", "waveform", "vsweep"}>>
=============================================================================
