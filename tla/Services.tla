------------------------------ MODULE Services ------------------------------
(***************************************************************************)
(* The two programs that own supplies and offer them to others: the MCP    *)
(* server and the parked socket server.  Each builds a registry of its own *)
(* at its start; a behaviour of this module is a behaviour of one of them. *)
(***************************************************************************)
EXTENDS SocketServer, McpServer

VARIABLE host    (* the server of this behaviour (constant)                *)

servicesVars == <<host, registry, process, req, server, mandate, logging, call, written>>

Init ==
    /\ host \in {"socket", "mcp"}
    /\ ServerInit
    /\ McpInit

Socket ==
    /\ host = "socket"
    /\ ServerNext
    /\ UNCHANGED <<host, server, mandate, logging, call, written>>

Mcp ==
    /\ host = "mcp"
    /\ McpNext
    /\ UNCHANGED <<host, process, req>>

Next == Socket \/ Mcp

Spec == Init /\ [][Next]_servicesVars
FairSpec == Spec /\ ServerFairness
=============================================================================
