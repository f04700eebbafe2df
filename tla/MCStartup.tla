----------------------------- MODULE MCStartup -----------------------------
(***************************************************************************)
(* Startup for TLC: the default port, an OS-chosen one and another, and    *)
(* the prefix values "/", "/custom" (which RunProxy coerces) and the      *)
(* --www-prefix default "/static/", for both prefix flags.                 *)
(***************************************************************************)
EXTENDS Startup

MCPorts == {DefaultPort, 0, 9000}

MCPrefixes == {[segs |-> <<>>, slash |-> TRUE],
               [segs |-> <<"custom">>, slash |-> FALSE],
               [segs |-> <<"static">>, slash |-> TRUE]}
=============================================================================
