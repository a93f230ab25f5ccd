---------------------------- MODULE MCIpcClient ----------------------------
(* Small instances of IpcClient for TLC. *)
EXTENDS IpcClient, TLC

CONSTANTS c1, c2, f1, f2

TwoCallers == {c1, c2}
TwoFds == {f1, f2}
OneFd == {f1}

AllKinds == (c1 :> {"sync", "void"}) @@ (c2 :> {"async", "heartbeat"})
AckedKinds == [c \in TwoCallers |-> {"async", "sync"}]

EndingWaits == {"forever", "timed"}
EveryWait == {"forever", "timed", "invalid"}
ForeverOnly == {"forever"}
InvalidOnly == {"invalid"}

\* Numbers 2..7: they wrap after a call or two from 6; 0 is a reserved seed.
SomeSeeds == {0, 6}

InterchangeableFds == Permutations(Fds)

=============================================================================
