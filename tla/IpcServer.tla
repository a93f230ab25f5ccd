----------------------------- MODULE IpcServer -----------------------------
(***************************************************************************)
(* The server of ipc/uc_ipc_server.c.                                      *)
(*                                                                         *)
(* The receiving thread ("rcv") accepts clients, reads their messages      *)
(* piece by piece and hands them through a pipe to the callback thread     *)
(* ("cb").  Both send replies: they look the client's descriptor up by its *)
(* uuid in cli_fd_hash and write with cli_fd_mutex held until the reply is *)
(* out.  cli_info_hash and epoll belong to the receiving thread.           *)
(*                                                                         *)
(* A connection also stands for the uuid drawn for it and for its          *)
(* uc_ipc_cli_t.  A message is a frame of HeadLen + ttl units; read        *)
(* returns any number of them that have been sent and not more than asked  *)
(* for.  The clients and the sockets are external.  uc_urandom is taken    *)
(* not to fail, SIGPIPE to be ignored.  The numbers the server gives its   *)
(* replies are left out.  IPC_DEBUG_IO is defined, as in uc_ipc_common.h.  *)
(***************************************************************************)
EXTENDS Naturals, Sequences, FiniteSets

CONSTANTS
    Conns,          \* the connections clients have made
    Leaving,        \* those whose client may close it
    Fds,            \* the descriptors accept() may return
    Shapes,         \* the kinds and the lengths of the messages of each, <<kind, ttl>>
    HeadLen,        \* sizeof(uc_ipc_proto_header_t)
    Block,          \* UC_IPC_MSG_READ_BLOCK_LEN_MAX
    PipeCap,        \* how many messages the pipe holds
    SendCap,        \* how many replies the send buffer of a socket holds
    MaxMessages,    \* bound: the number of messages
    MaxFaults,      \* bound: how often malloc or epoll_ctl fails
    None            \* no connection, descriptor -1

ASSUME ServerAssumption ==
    /\ Leaving \subseteq Conns /\ Fds \subseteq Nat
    /\ Shapes \in [Conns -> SUBSET ({"heartbeat", "void", "async", "sync"} \X (0..9))]
    /\ HeadLen \in Nat \ {0} /\ Block \in Nat \ {0}
    /\ PipeCap \in Nat \ {0} /\ SendCap \in Nat \ {0}
    /\ MaxMessages \in Nat /\ MaxFaults \in Nat
    /\ None \notin Conns \cup Fds /\ None \notin {"rcv", "cb"}

VARIABLES
    \* struct uc_ipc_server_handler_s
    cli_info_hash,  \* the connections (uuids) that map to their uc_ipc_cli_t
    cli_fd_hash,    \* connection (uuid) -> descriptor
    cli_fd_mutex,   \* the thread that holds it while it writes, or None
    epoll,          \* the connections watched
    pipe,           \* the messages handed to the callback thread
    \* struct uc_ipc_cli_s
    cli,            \* "absent", "live" or "freed"
    cli_fd,         \* its fd, None once it is closed
    got,            \* what has been read of the message: has_read, ipc_head and buf
    stage,          \* "head", "buf" or "done": head_done and buf_done
    \* the threads
    pc,             \* where each of the two is
    conn,           \* the connection the receiving thread attends to
    msg,            \* the pipe_msg each of the two holds
    sfd,            \* the descriptor each of the two is writing to
    \* the sockets and the clients
    socket,         \* descriptor -> the connection it is open for, or None
    client,         \* "connected" or "closed"
    inbox,          \* what a client has sent and the server has not read
    outbox,         \* the replies in the send buffer of a connection
    answered,       \* the replies clients have read
    \* history
    sent,           \* the messages in the order they were sent
    delivered,      \* the messages the callback was called for
    faults

tables == <<cli_info_hash, cli_fd_hash, epoll, cli, cli_fd, socket>>
protocol == <<got, stage>>
clients == <<client, inbox, outbox, answered>>
history == <<sent, delivered, faults>>
vars == <<tables, protocol, clients, history, cli_fd_mutex, pipe, pc, conn, msg, sfd>>

Threads == {"rcv", "cb"}
MsgIds == 1..MaxMessages
Requests == {"heartbeat", "async", "sync"}

NoMsg == [uuid |-> None, id |-> 0]
Frame(id, ttl) == [p \in 1..(HeadLen + ttl) |-> <<id, p>>]

TypeOK ==
    /\ cli_info_hash \subseteq Conns /\ epoll \subseteq Conns
    /\ DOMAIN cli_fd_hash \subseteq Conns
    /\ cli_fd_hash \in [DOMAIN cli_fd_hash -> Fds]
    /\ cli_fd_mutex \in Threads \cup {None}
    /\ pipe \in Seq([uuid : Conns, id : MsgIds]) /\ Len(pipe) <= PipeCap
    /\ cli \in [Conns -> {"absent", "live", "freed"}]
    /\ cli_fd \in [Conns -> Fds \cup {None}]
    /\ got \in [Conns -> Seq(MsgIds \X Nat)]
    /\ stage \in [Conns -> {"head", "buf", "done"}]
    /\ pc \in [Threads -> {"polling", "reading", "handling", "sending", "writing", "piping",
                           "closing", "unmapped", "selecting", "calling"}]
    /\ pc["rcv"] \notin {"selecting", "calling"}
    /\ pc["cb"] \in {"selecting", "calling", "sending", "writing"}
    /\ conn \in Conns \cup {None}
    /\ msg \in [Threads -> [uuid : Conns, id : MsgIds] \cup {NoMsg}]
    /\ sfd \in [Threads -> Fds \cup {None}]
    /\ socket \in [Fds -> Conns \cup {None}]
    /\ client \in [Conns -> {"connected", "closed"}]
    /\ inbox \in [Conns -> Seq(MsgIds \X Nat)]
    /\ outbox \in [Conns -> Seq(MsgIds)] /\ \A c \in Conns : Len(outbox[c]) <= SendCap
    /\ answered \subseteq Conns \X MsgIds
    /\ sent \in Seq([conn : Conns, kind : Requests \cup {"void"}, ttl : 0..9])
    /\ Len(sent) <= MaxMessages /\ delivered \in Seq(MsgIds) /\ faults \in 0..MaxFaults

Init ==
    /\ cli_info_hash = {} /\ epoll = {}
    /\ cli_fd_hash = [c \in {} |-> None]
    /\ cli_fd_mutex = None /\ pipe = <<>>
    /\ cli = [c \in Conns |-> "absent"] /\ cli_fd = [c \in Conns |-> None]
    /\ got = [c \in Conns |-> <<>>] /\ stage = [c \in Conns |-> "head"]
    /\ pc = [t \in Threads |-> IF t = "rcv" THEN "polling" ELSE "selecting"]
    /\ conn = None
    /\ msg = [t \in Threads |-> NoMsg] /\ sfd = [t \in Threads |-> None]
    /\ socket = [fd \in Fds |-> None]
    /\ client = [c \in Conns |-> "connected"]
    /\ inbox = [c \in Conns |-> <<>>] /\ outbox = [c \in Conns |-> <<>>]
    /\ answered = {} /\ sent = <<>> /\ delivered = <<>> /\ faults = 0

Goes(t, place) == pc' = [pc EXCEPT ![t] = place]
MutexFree == cli_fd_mutex = None
Fails == faults < MaxFaults /\ faults' = faults + 1

-----------------------------------------------------------------------------
\* The clients.

Send(c) == \E shape \in Shapes[c] :
    /\ client[c] = "connected" /\ Len(sent) < MaxMessages
    /\ sent' = Append(sent, [conn |-> c, kind |-> shape[1], ttl |-> shape[2]])
    /\ inbox' = IF cli[c] # "absent" /\ cli_fd[c] = None THEN inbox
                ELSE [inbox EXCEPT ![c] = @ \o Frame(Len(sent) + 1, shape[2])]
    /\ UNCHANGED <<tables, protocol, client, outbox, answered, delivered, faults,
                   cli_fd_mutex, pipe, pc, conn, msg, sfd>>

ReadReply(c) ==
    /\ client[c] = "connected" /\ outbox[c] # <<>>
    /\ outbox' = [outbox EXCEPT ![c] = Tail(@)]
    /\ answered' = answered \cup {<<c, Head(outbox[c])>>}
    /\ UNCHANGED <<tables, protocol, client, inbox, history,
                   cli_fd_mutex, pipe, pc, conn, msg, sfd>>

\* What it has sent last may be lost, from the middle of a message, too.
Close(c) ==
    /\ c \in Leaving /\ client[c] = "connected"
    /\ client' = [client EXCEPT ![c] = "closed"]
    /\ \E n \in 0..Len(inbox[c]) : inbox' = [inbox EXCEPT ![c] = SubSeq(@, 1, n)]
    /\ outbox' = [outbox EXCEPT ![c] = <<>>]
    /\ UNCHANGED <<tables, protocol, answered, history,
                   cli_fd_mutex, pipe, pc, conn, msg, sfd>>

-----------------------------------------------------------------------------
\* uc_ipc_server_accept_client

Accepts(c) == pc["rcv"] = "polling" /\ cli[c] = "absent" /\ MutexFree

\* accept() returns the lowest descriptor that is not in use.
Opens(c, fd) ==
    /\ socket[fd] = None /\ \A g \in Fds : socket[g] = None => fd <= g
    /\ socket' = [socket EXCEPT ![fd] = c]
    /\ cli' = [cli EXCEPT ![c] = "live"]
    /\ cli_fd' = [cli_fd EXCEPT ![c] = fd]
    /\ epoll' = epoll \cup {c}

Maps(c, fd) ==
    cli_fd_hash' = [d \in DOMAIN cli_fd_hash \cup {c} |-> IF d = c THEN fd ELSE cli_fd_hash[d]]

Accept(c) ==
    /\ Accepts(c)
    /\ \E fd \in Fds : Opens(c, fd) /\ Maps(c, fd)
    /\ cli_info_hash' = cli_info_hash \cup {c}
    /\ UNCHANGED <<protocol, clients, history, cli_fd_mutex, pipe, pc, conn, msg, sfd>>

\* calloc, epoll_ctl or malloc for fd_mem fails: closed again, and freed.
AcceptRefused(c) ==
    /\ Accepts(c) /\ \E fd \in Fds : socket[fd] = None
    /\ Fails
    /\ cli' = [cli EXCEPT ![c] = "freed"]
    /\ UNCHANGED <<cli_info_hash, cli_fd_hash, epoll, cli_fd, socket, protocol, clients,
                   sent, delivered, cli_fd_mutex, pipe, pc, conn, msg, sfd>>

\* uc_hash_insert fails for cli_fd_hash, which is only logged.
AcceptUnmapped(c) ==
    /\ Accepts(c)
    /\ \E fd \in Fds : Opens(c, fd)
    /\ Fails
    /\ cli_info_hash' = cli_info_hash \cup {c}
    /\ UNCHANGED <<cli_fd_hash, protocol, clients, sent, delivered,
                   cli_fd_mutex, pipe, pc, conn, msg, sfd>>

\* It fails for cli_info_hash: nothing will free the uc_ipc_cli_t.
AcceptUnlisted(c) ==
    /\ Accepts(c)
    /\ \E fd \in Fds : Opens(c, fd) /\ Maps(c, fd)
    /\ Fails
    /\ UNCHANGED <<cli_info_hash, protocol, clients, sent, delivered,
                   cli_fd_mutex, pipe, pc, conn, msg, sfd>>

-----------------------------------------------------------------------------
\* uc_ipc_server_read_client

\* The header gives the length of the message.
Ttl(c) == sent[got'[c][1][1]].ttl
Size(c) == HeadLen + Ttl(c)

Left(c) == HeadLen + sent[got[c][1][1]].ttl - Len(got[c])
\* Slip: what has been read of the header is not subtracted.
WantAnew(c) == IF stage[c] = "head" THEN HeadLen ELSE IF Left(c) > Block THEN Block ELSE Left(c)
Want(c) == IF stage[c] = "head" THEN HeadLen - Len(got[c])
           ELSE IF Left(c) > Block THEN Block ELSE Left(c)

Attends(c) ==
    \/ pc["rcv"] = "polling" /\ c \in epoll
    \/ pc["rcv"] = "reading" /\ conn = c

Takes(c) ==
    /\ Attends(c) /\ conn' = c
    /\ \E n \in 1..Want(c) :
        /\ n <= Len(inbox[c])
        /\ got' = [got EXCEPT ![c] = @ \o SubSeq(inbox[c], 1, n)]
        /\ inbox' = [inbox EXCEPT ![c] = SubSeq(@, n + 1, Len(@))]
    /\ UNCHANGED <<tables, client, outbox, answered, sent, delivered,
                   cli_fd_mutex, pipe, msg, sfd>>

\* More than asked for would be a "run error" that closes the connection.
ReadHead(c) ==
    /\ stage[c] = "head" /\ Takes(c)
    /\ LET has == Len(got'[c]) IN
        /\ Goes("rcv", CASE has < HeadLen -> "polling"
                         [] has = HeadLen -> (IF Ttl(c) = 0 THEN "handling" ELSE "reading")
                         [] has > HeadLen -> "closing")
        /\ stage' = [stage EXCEPT ![c] = IF has # HeadLen THEN "head"
                                         ELSE IF Ttl(c) = 0 THEN "done" ELSE "buf"]
    /\ UNCHANGED faults

\* malloc fails for the payload.
ReadHeadFails(c) ==
    /\ stage[c] = "head" /\ Takes(c)
    /\ Len(got'[c]) = HeadLen /\ Ttl(c) > 0 /\ Fails
    /\ Goes("rcv", "closing")
    /\ stage' = [stage EXCEPT ![c] = "buf"]

ReadBuf(c) ==
    /\ stage[c] = "buf" /\ Takes(c)
    /\ LET has == Len(got'[c]) IN
        /\ Goes("rcv", CASE has < Size(c) -> "polling"
                         [] has = Size(c) -> "handling"
                         [] has > Size(c) -> "closing")
        /\ stage' = [stage EXCEPT ![c] = IF has = Size(c) THEN "done" ELSE "buf"]
    /\ UNCHANGED faults

\* EAGAIN: the payload has not arrived yet.
ReadNothing(c) ==
    /\ pc["rcv"] = "reading" /\ conn = c
    /\ inbox[c] # <<>> \/ client[c] = "connected"
    /\ Goes("rcv", "polling")
    /\ UNCHANGED <<tables, protocol, clients, history, cli_fd_mutex, pipe, conn, msg, sfd>>

\* The client has closed the connection, or it broke.
ReadEnds(c) ==
    /\ Attends(c) /\ conn' = c
    /\ inbox[c] = <<>> /\ client[c] = "closed"
    /\ Goes("rcv", "closing")
    /\ UNCHANGED <<tables, protocol, clients, history, cli_fd_mutex, pipe, msg, sfd>>

\* uc_ipc_server_reset_cli_proto
Reset(c) == got' = [got EXCEPT ![c] = <<>>] /\ stage' = [stage EXCEPT ![c] = "head"]

-----------------------------------------------------------------------------
\* uc_ipc_server_close_cli

\* Slip: the uuid stays mapped.
CloseLeavesMapped(c) ==
    /\ pc["rcv"] = "closing" /\ conn = c /\ MutexFree
    /\ Goes("rcv", "unmapped")
    /\ UNCHANGED <<tables, protocol, clients, history, cli_fd_mutex, pipe, conn, msg, sfd>>

CloseUnmaps(c) ==
    /\ pc["rcv"] = "closing" /\ conn = c /\ MutexFree
    /\ cli_fd_hash' = [d \in DOMAIN cli_fd_hash \ {c} |-> cli_fd_hash[d]]
    /\ Goes("rcv", "unmapped")
    /\ UNCHANGED <<cli_info_hash, epoll, cli, cli_fd, socket, protocol, clients, history,
                   cli_fd_mutex, pipe, conn, msg, sfd>>

\* Slip: the entry of cli_info_hash stays.
CloseLeavesListed(c) ==
    /\ pc["rcv"] = "unmapped" /\ conn = c
    /\ Reset(c)
    /\ socket' = [socket EXCEPT ![cli_fd[c]] = None]
    /\ cli_fd' = [cli_fd EXCEPT ![c] = None]
    /\ epoll' = epoll \ {c}
    /\ inbox' = [inbox EXCEPT ![c] = <<>>]
    /\ Goes("rcv", "polling") /\ conn' = None
    /\ UNCHANGED <<cli, cli_info_hash, cli_fd_hash, client, outbox, answered, history,
                   cli_fd_mutex, pipe, msg, sfd>>

\* Deleting the entry of cli_info_hash frees the uc_ipc_cli_t, closing the
\* descriptor takes it out of epoll.
CloseEnds(c) ==
    /\ pc["rcv"] = "unmapped" /\ conn = c
    /\ Reset(c)
    /\ socket' = [socket EXCEPT ![cli_fd[c]] = None]
    /\ cli_fd' = [cli_fd EXCEPT ![c] = None]
    /\ epoll' = epoll \ {c}
    /\ cli' = [cli EXCEPT ![c] = IF c \in cli_info_hash THEN "freed" ELSE @]
    /\ cli_info_hash' = cli_info_hash \ {c}
    /\ inbox' = [inbox EXCEPT ![c] = <<>>]
    /\ Goes("rcv", "polling") /\ conn' = None
    /\ UNCHANGED <<cli_fd_hash, client, outbox, answered, history, cli_fd_mutex, pipe, msg, sfd>>

-----------------------------------------------------------------------------
\* uc_ipc_server_handle_client_msg

Kind(t) == sent[msg[t].id].kind

\* The receiving thread is done with its message: back to epoll_wait.
Drops == msg' = [msg EXCEPT !["rcv"] = NoMsg] /\ Goes("rcv", "polling")

\* Slip: sync_send is answered at once, like async_send.
HandleAnswersFirst(c) ==
    /\ pc["rcv"] = "handling" /\ conn = c /\ stage[c] = "done"
    /\ Reset(c)
    /\ LET id == got[c][1][1] IN
        IF sent[id].kind = "void"
        THEN Drops
        ELSE /\ msg' = [msg EXCEPT !["rcv"] = [uuid |-> c, id |-> id]]
             /\ Goes("rcv", "sending")
    /\ UNCHANGED <<tables, clients, history, cli_fd_mutex, pipe, conn, sfd>>

Handle(c) ==
    /\ pc["rcv"] = "handling" /\ conn = c /\ stage[c] = "done"
    /\ Reset(c)
    /\ LET id == got[c][1][1] IN
        IF sent[id].kind = "void"
        THEN Drops
        ELSE /\ msg' = [msg EXCEPT !["rcv"] = [uuid |-> c, id |-> id]]
             /\ Goes("rcv", IF sent[id].kind = "sync" THEN "piping" ELSE "sending")
    /\ UNCHANGED <<tables, clients, history, cli_fd_mutex, pipe, conn, sfd>>

\* malloc fails for the pipe_msg: the message is lost.
HandleFails(c) ==
    /\ pc["rcv"] = "handling" /\ conn = c
    /\ Fails
    /\ Reset(c) /\ Drops
    /\ UNCHANGED <<tables, clients, sent, delivered, cli_fd_mutex, pipe, conn, sfd>>

\* Slip: the write does not wait for room.
PipeOverrun ==
    /\ pc["rcv"] = "piping"
    /\ pipe' = Append(pipe, msg["rcv"])
    /\ Drops
    /\ UNCHANGED <<tables, protocol, clients, history, cli_fd_mutex, conn, sfd>>

\* The write blocks while the pipe is full.
PipeWrite ==
    /\ pc["rcv"] = "piping" /\ Len(pipe) < PipeCap
    /\ pipe' = Append(pipe, msg["rcv"])
    /\ Drops
    /\ UNCHANGED <<tables, protocol, clients, history, cli_fd_mutex, conn, sfd>>

-----------------------------------------------------------------------------
\* uc_ipc_server_send_msg, called with the message that is answered

\* What the caller goes on with.
Sent(t) ==
    IF t = "cb" THEN msg' = [msg EXCEPT ![t] = NoMsg] /\ Goes(t, "selecting")
    ELSE IF Kind(t) = "heartbeat" THEN Drops
    ELSE Goes(t, "piping") /\ UNCHANGED msg

SendBegins(t) ==
    /\ pc[t] = "sending" /\ MutexFree
    /\ msg[t].uuid \in DOMAIN cli_fd_hash
    /\ cli_fd_mutex' = t
    /\ sfd' = [sfd EXCEPT ![t] = cli_fd_hash[msg[t].uuid]]
    /\ Goes(t, "writing")
    /\ UNCHANGED <<tables, protocol, clients, history, pipe, conn, msg>>

\* Slip: no unlock when the client has gone.
SendUnknownLocked(t) ==
    /\ pc[t] = "sending" /\ MutexFree
    /\ msg[t].uuid \notin DOMAIN cli_fd_hash
    /\ cli_fd_mutex' = t
    /\ Sent(t)
    /\ UNCHANGED <<tables, protocol, clients, history, pipe, conn, sfd>>

\* The client has gone in the meantime.
SendUnknown(t) ==
    /\ pc[t] = "sending" /\ MutexFree
    /\ msg[t].uuid \notin DOMAIN cli_fd_hash
    /\ Sent(t)
    /\ UNCHANGED <<tables, protocol, clients, history, cli_fd_mutex, pipe, conn, sfd>>

\* malloc fails for the reply.
SendFails(t) ==
    /\ pc[t] = "sending" /\ Fails
    /\ Sent(t)
    /\ UNCHANGED <<tables, protocol, clients, sent, delivered, cli_fd_mutex, pipe, conn, sfd>>

Released(t) == cli_fd_mutex' = None /\ sfd' = [sfd EXCEPT ![t] = None]

\* uc_io_write tries again as long as the send buffer of the socket is full.
SendWrites(t) == LET c == socket[sfd[t]] IN
    /\ pc[t] = "writing" /\ client[c] = "connected"
    /\ Len(outbox[c]) < SendCap
    /\ outbox' = [outbox EXCEPT ![c] = Append(@, msg[t].id)]
    /\ Released(t) /\ Sent(t)
    /\ UNCHANGED <<tables, protocol, client, inbox, answered, history, pipe, conn>>

SendBroken(t) ==
    /\ pc[t] = "writing" /\ client[socket[sfd[t]]] = "closed"
    /\ Released(t) /\ Sent(t)
    /\ UNCHANGED <<tables, protocol, clients, history, pipe, conn>>

-----------------------------------------------------------------------------
\* uc_ipc_server_loop_callback

PipeRead ==
    /\ pc["cb"] = "selecting" /\ pipe # <<>>
    /\ msg' = [msg EXCEPT !["cb"] = Head(pipe)]
    /\ pipe' = Tail(pipe)
    /\ Goes("cb", "calling")
    /\ UNCHANGED <<tables, protocol, clients, history, cli_fd_mutex, conn, sfd>>

\* Slip: async_send is answered again, after the callback.
CallbackAnswersAll ==
    /\ pc["cb"] = "calling"
    /\ delivered' = Append(delivered, msg["cb"].id)
    /\ Goes("cb", "sending")
    /\ UNCHANGED <<tables, protocol, clients, sent, faults, cli_fd_mutex, pipe, conn, msg, sfd>>

\* Only sync_send is answered, with what the callback returns.
Callback ==
    /\ pc["cb"] = "calling"
    /\ delivered' = Append(delivered, msg["cb"].id)
    /\ IF Kind("cb") = "sync" THEN Goes("cb", "sending") /\ UNCHANGED msg ELSE Sent("cb")
    /\ UNCHANGED <<tables, protocol, clients, sent, faults, cli_fd_mutex, pipe, conn, sfd>>

-----------------------------------------------------------------------------
SendStep(t) ==
    SendBegins(t) \/ SendUnknown(t) \/ SendFails(t) \/ SendWrites(t) \/ SendBroken(t)

ReceiverStep ==
    \/ \E c \in Conns :
        \/ Accept(c) \/ AcceptRefused(c) \/ AcceptUnmapped(c) \/ AcceptUnlisted(c)
        \/ ReadHead(c) \/ ReadHeadFails(c) \/ ReadBuf(c) \/ ReadNothing(c) \/ ReadEnds(c)
        \/ CloseUnmaps(c) \/ CloseEnds(c) \/ Handle(c) \/ HandleFails(c)
    \/ PipeWrite
    \/ SendStep("rcv")

CallbackStep == PipeRead \/ Callback \/ SendStep("cb")

Next ==
    \/ \E c \in Conns : Send(c) \/ ReadReply(c) \/ Close(c)
    \/ ReceiverStep
    \/ CallbackStep

Spec == Init /\ [][Next]_vars

\* Both threads run, the callback returns, and clients read what they are sent, as
\* the receiving thread of uc_ipc_client.c does.
Fairness ==
    /\ WF_vars(ReceiverStep) /\ WF_vars(CallbackStep)
    /\ \A c \in Conns : WF_vars(ReadReply(c))

FairSpec == Spec /\ Fairness

-----------------------------------------------------------------------------
\* A uuid leads to an open descriptor of the very client it was drawn for, also
\* while the callback thread writes and after descriptors were used again (the
\* comment at line 647).
MapsToOwnSocket == \A c \in DOMAIN cli_fd_hash : socket[cli_fd_hash[c]] = c

\* epoll points to no uc_ipc_cli_t that was freed or whose descriptor is closed, no
\* table keeps a client that epoll has forgotten, and unless memory was short the
\* three agree and every uc_ipc_cli_t is freed in the end.
TablesAgree ==
    /\ \A c \in epoll : cli[c] = "live" /\ cli_fd[c] \in Fds /\ socket[cli_fd[c]] = c
    /\ cli_info_hash \cup DOMAIN cli_fd_hash \subseteq epoll
    /\ faults = 0 =>
        /\ cli_info_hash = epoll
        /\ DOMAIN cli_fd_hash = epoll \ {c \in Conns : pc["rcv"] = "unmapped" /\ conn = c}
        /\ \A c \in Conns : cli[c] = "live" => c \in epoll

\* However a stream is cut into pieces, what is collected for a client is the begin
\* of one message of its own, all of it when it is handled, and the connection is
\* not closed for a "run error" (lines 385, 410, 422).
FramesWhole ==
    /\ \A c \in Conns : got[c] # <<>> =>
        \E id \in 1..Len(sent) : LET frame == Frame(id, sent[id].ttl) IN
            /\ sent[id].conn = c
            /\ Len(got[c]) <= Len(frame) /\ got[c] = SubSeq(frame, 1, Len(got[c]))
            /\ stage[c] = "done" => Len(got[c]) = Len(frame)
    /\ pc["rcv"] = "handling" => stage[conn] = "done"
    /\ pc["rcv"] = "closing" => client[conn] = "closed" \/ faults > 0

WasDelivered(id) == \E i \in 1..Len(delivered) : delivered[i] = id

\* The callback gets the messages of a client once, in the order it sent them and,
\* unless memory was short, without gaps; a sync_send is answered after its callback.
DeliveredInOrder ==
    /\ \A i, j \in 1..Len(delivered) :
        i < j /\ sent[delivered[i]].conn = sent[delivered[j]].conn => delivered[i] < delivered[j]
    /\ faults = 0 => \A j \in 1..Len(delivered), id \in 1..Len(sent) :
        id < delivered[j] /\ sent[id].conn = sent[delivered[j]].conn
            /\ sent[id].kind \in {"async", "sync"} => WasDelivered(id)
    /\ \A c \in Conns : \A i \in 1..Len(outbox[c]) :
        sent[outbox[c][i]].kind = "sync" => WasDelivered(outbox[c][i])

-----------------------------------------------------------------------------
\* The requests on their way to the server or inside it that it has yet to answer.
Unread(c) == {inbox[c][i][1] : i \in 1..Len(inbox[c])}
                \cup {got[c][i][1] : i \in 1..Len(got[c])}
InHand ==
    {msg[t].id : t \in {u \in Threads : pc[u] \in {"sending", "writing"}}}
        \cup {id \in {msg[t].id : t \in Threads} \cup {pipe[i].id : i \in 1..Len(pipe)} :
                id # 0 /\ sent[id].kind = "sync"}
Unanswered(c) == {id \in Unread(c) \cup InHand :
                    sent[id].conn = c /\ sent[id].kind \in Requests}

Service == INSTANCE IpcService WITH
    Clients <- Conns, Ids <- MsgIds,
    asked <- {<<sent[id].conn, id>> : id \in {i \in 1..Len(sent) : sent[i].kind \in Requests}},
    requests <- UNION {{c} \X Unanswered(c) : c \in Conns},
    replies <- UNION {{<<c, outbox[c][i]>> : i \in 1..Len(outbox[c])} : c \in Conns}

\* The server implements the abstract service: a reply reaches the client that asked
\* and no other, whoever has its descriptor by then, and no request is answered twice.
ImplementsIpcService == Service!Spec

Served(id) == LET m == sent[id] IN
    \/ client[m.conn] = "closed" \/ faults > 0
    \/ <<m.conn, id>> \in answered /\ (m.kind # "heartbeat" => WasDelivered(id))

\* Every request of a client that stays is answered and, if it is one for the callback,
\* delivered, unless memory was short: the threads never wait for each other for ever.
\* (Clients send MaxMessages at most and Served is stable: this is asked ~> served.)
EveryRequestServed == <>[](\A id \in 1..Len(sent) : sent[id].kind \in Requests => Served(id))
=============================================================================
