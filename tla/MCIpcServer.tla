---------------------------- MODULE MCIpcServer ----------------------------
(* Small instances of IpcServer for TLC. *)
EXTENDS IpcServer, TLC

CONSTANTS c1, c2

TwoConns == {c1, c2}
OneConn == {c1}

\* Every kind, no payload, payloads of one read and of two reads.
EveryShape == (c1 :> {<<"sync", 1>>, <<"void", 0>>}) @@ (c2 :> {<<"async", 2>>, <<"heartbeat", 0>>})
SomeFds == {1, 2}
=============================================================================
