----------------------------- MODULE IpcService -----------------------------
(***************************************************************************)
(* What the server of ipc/ promises its clients (uc_ipc.h): a reply is an  *)
(* answer to a request, goes to the client that asked, and no request is   *)
(* answered twice.  It does not promise a reply: the connection may break, *)
(* or the server may lack the memory for one.                              *)
(***************************************************************************)
CONSTANTS Clients, Ids

VARIABLES
    asked,      \* all requests so far, <<client, id>>
    requests,   \* those to be answered
    replies     \* the replies their clients have not read

Init == asked = {} /\ requests = {} /\ replies = {}

\* It may get lost on the way.
Ask(m) ==
    /\ m \notin asked
    /\ asked' = asked \cup {m}
    /\ requests' \in {requests, requests \cup {m}}
    /\ UNCHANGED replies

Answer(m) ==
    /\ m \in requests
    /\ requests' = requests \ {m}
    /\ replies' = replies \cup {m}
    /\ UNCHANGED asked

Read(m) ==
    /\ m \in replies
    /\ replies' = replies \ {m}
    /\ UNCHANGED <<asked, requests>>

\* Requests of a client, or replies to it, get lost.
Lose(c) ==
    /\ requests' \subseteq requests /\ requests \ requests' \subseteq {c} \X Ids
    /\ replies' \subseteq replies /\ replies \ replies' \subseteq {c} \X Ids
    /\ UNCHANGED asked

Next == \E c \in Clients : Lose(c) \/ \E id \in Ids :
            Ask(<<c, id>>) \/ Answer(<<c, id>>) \/ Read(<<c, id>>)

Spec == Init /\ [][Next]_<<asked, requests, replies>>
=============================================================================
