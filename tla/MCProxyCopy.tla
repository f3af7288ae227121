----------------------------- MODULE MCProxyCopy -----------------------------
(* ProxyCopy for TLC: the streams of the runs. *)
EXTENDS ProxyCopy, Functions

\* A PROXY header, a ClientHello in two parts, and data.
MCClientData == <<"proxy", "hello1", "hello2", "c1", "c2">>

MCBackendData == <<"b1", "b2">>

MCPrologue == <<"header">>

MCToken == UNION {Range(s) : s \in {MCClientData, MCBackendData, MCPrologue}}

===============================================================================
