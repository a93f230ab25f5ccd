------------------------------ MODULE IpcClient ------------------------------
(***************************************************************************)
(* The client of ipc/uc_ipc_client.c.                                      *)
(*                                                                         *)
(* Callers send messages over one socket.  async_send and sync_send enter  *)
(* their sequence number in the table ack_hash, write the message and      *)
(* sleep on ack_cond until the receiving thread has put the reply into the *)
(* table.  The receiving thread reconnects when reading fails.  The        *)
(* heartbeat thread is a caller of kind "heartbeat".  Every critical       *)
(* section (seq_mtx, io_mtx, ack_mtx) is one action; the socket is read    *)
(* outside of them and has an action of its own.                           *)
(*                                                                         *)
(* The server and the network are external: the server answers a request   *)
(* it has received, and the connection can break, which loses what is on   *)
(* its way.  A reply carries the number of the call it answers, which only *)
(* the properties look at.  SIGPIPE is taken to be ignored.                *)
(***************************************************************************)
EXTENDS Naturals, FiniteSets

CONSTANTS
    Callers,    \* the threads that send
    Kinds,      \* the kinds of messages each of them sends
    Waits,      \* the values of wait_millisecond, see below
    SeqMin,     \* UC_IPC_SEQ_ID_MIN
    SeqTop,     \* one more than the largest sequence number, 2^64 in the code
    Seeds,      \* the values uc_urandom may yield
    Fds,        \* the descriptors socket() may return
    MaxCalls,   \* bound: the number of calls
    MaxDrops,   \* bound: how often the connection breaks
    Faults,     \* whether malloc may fail
    None        \* no caller, descriptor -1

\* wait_millisecond: 0 waits for ever.  A positive one gives pthread_cond_timedwait
\* a deadline whose tv_nsec (line 414) is below 10^9 ("timed") or not ("invalid").
ASSUME ConstantsAssumption ==
    /\ Kinds \in [Callers -> SUBSET {"void", "heartbeat", "async", "sync"}]
    /\ Waits \subseteq {"forever", "timed", "invalid"}
    /\ SeqMin \in Nat \ {0} /\ SeqTop \in Nat /\ SeqMin < SeqTop
    /\ Seeds \subseteq 0..(SeqTop - 1)
    /\ MaxCalls \in Nat /\ MaxDrops \in Nat
    /\ MaxCalls <= SeqTop - SeqMin     \* no call sees the numbers come round
    /\ Faults \in BOOLEAN
    /\ None \notin Callers \cup Fds

VARIABLES
    \* struct uc_ipc_client_handler_s
    seq_id,      \* the next sequence number
    io_sockfd,   \* the descriptor of the socket, None while there is none
    ack_hash,    \* sequence number -> Pending, or the call the reply in it answers
    ack_mtx,     \* the caller that spins with the mutex locked, or None
    ack_cond,    \* the callers asleep on the condition variable
    \* the threads
    rpc,         \* where the receiving thread is
    cpc,         \* where a caller is
    req,         \* the message a caller is sending
    fd,          \* the descriptor it will write to
    \* the connection and the server
    link,        \* whether the socket is connected to the server
    requests,    \* the messages on their way to the server, or in it
    replies,     \* the messages on their way back
    \* history
    calls, drops,
    abandoned,   \* the sequence numbers of sync_send calls that timed out
    draw_failed  \* whether uc_urandom has failed in a reconnect

handle == <<seq_id, io_sockfd, ack_hash, ack_mtx, ack_cond>>
caller == <<cpc, req, fd>>
network == <<link, requests, replies>>
vars == <<handle, rpc, caller, network, calls, drops, abandoned, draw_failed>>

Pending == 0
SeqIds == 0..(SeqTop - 1)
NoRequest == [kind |-> "void", wait |-> "forever", id |-> 0, call |-> 0]
Messages == [id : SeqIds, kind : {"void", "heartbeat", "async", "sync"}, call : 1..MaxCalls]

TypeOK ==
    /\ seq_id \in SeqIds
    /\ io_sockfd \in Fds \cup {None}
    /\ DOMAIN ack_hash \subseteq SeqIds
    /\ ack_hash \in [DOMAIN ack_hash -> 0..MaxCalls]
    /\ ack_mtx \in Callers \cup {None}
    /\ ack_cond \subseteq Callers
    /\ rpc \in {"reading", "failed", "closed", "opened", "seeded"}
    /\ cpc \in [Callers -> {"idle", "numbered", "inserted", "writing",
                            "waiting", "spinning", "undoing"}]
    /\ req \in [Callers -> [kind : {"void", "heartbeat", "async", "sync"},
                            wait : {"forever", "timed", "invalid"},
                            id : SeqIds, call : 0..MaxCalls]]
    /\ fd \in [Callers -> Fds \cup {None}]
    /\ link \in {"up", "down"}
    /\ requests \subseteq Messages /\ replies \subseteq Messages
    /\ calls \in 0..MaxCalls /\ drops \in 0..MaxDrops
    /\ abandoned \subseteq SeqIds
    /\ draw_failed \in BOOLEAN

-----------------------------------------------------------------------------
\* uc_hash_insert and uc_hash_update, uc_hash_delete on ack_hash
With(id, val) ==
    [k \in DOMAIN ack_hash \cup {id} |-> IF k = id THEN val ELSE ack_hash[k]]
Without(id) == [k \in DOMAIN ack_hash \ {id} |-> ack_hash[k]]

AckFree == ack_mtx = None
Acked(kind) == kind \in {"async", "sync"}

\* Slip: the signal is sent to a thread that does not sleep yet.
SignalNobody == ack_cond' = ack_cond

\* pthread_cond_signal
Signal ==
    \/ ack_cond = {} /\ ack_cond' = {}
    \/ \E c \in ack_cond : ack_cond' = ack_cond \ {c}

\* Slip: the comparison is the wrong way round, numbers repeat.
RaisedWrongly(n) == IF n > SeqMin THEN SeqMin ELSE n

\* Numbers below SeqMin are reserved.
Raised(n) == IF n < SeqMin THEN SeqMin ELSE n

\* Slips: the number does not wrap around; it wraps into the reserved range.
NextIdUnwrapped(n) == n + 1
NextIdReserved(n) == (n + 1) % SeqTop
NextId(n) == Raised((n + 1) % SeqTop)

\* No number in use comes up again: of 2^64 numbers the calls use a few, uc_urandom
\* is taken not to draw one next to them, and it is taken not to fail again while
\* the numbers that follow its first failure (0, SeqMin, ...) are in use.
Following(s, n) ==
    IF s < SeqMin /\ n > 0 THEN SeqMin + n - 1
    ELSE IF s + n < SeqTop THEN s + n ELSE s + n - SeqTop + SeqMin
InUse == DOMAIN ack_hash \cup {req[c].id : c \in {d \in Callers : cpc[d] # "idle"}}
            \cup {m.id : m \in requests \cup replies}
Unused(s) == \A n \in 0..MaxCalls : n < MaxCalls - calls => Following(s, n) \notin InUse

Init ==
    /\ seq_id \in {Raised(s) : s \in Seeds}
    /\ io_sockfd \in Fds
    /\ ack_hash = [id \in {} |-> Pending]
    /\ ack_mtx = None /\ ack_cond = {}
    /\ rpc = "reading"
    /\ cpc = [c \in Callers |-> "idle"]
    /\ req = [c \in Callers |-> NoRequest]
    /\ fd = [c \in Callers |-> None]
    /\ link = "up" /\ requests = {} /\ replies = {}
    /\ calls = 0 /\ drops = 0 /\ abandoned = {} /\ draw_failed = FALSE

-----------------------------------------------------------------------------
Goes(c, place) == cpc' = [cpc EXCEPT ![c] = place]

Returns(c) ==
    /\ Goes(c, "idle")
    /\ req' = [req EXCEPT ![c] = NoRequest]
    /\ fd' = [fd EXCEPT ![c] = None]

\* The call begins and takes its number, under seq_mtx.
NextSeq(c) ==
    /\ cpc[c] = "idle" /\ calls < MaxCalls
    /\ \E kind \in Kinds[c] : \E wait \in IF Acked(kind) THEN Waits ELSE {"forever"} :
        req' = [req EXCEPT ![c] = [kind |-> kind, wait |-> wait,
                                   id |-> seq_id, call |-> calls + 1]]
    /\ Goes(c, "numbered")
    /\ seq_id' = NextId(seq_id)
    /\ calls' = calls + 1
    /\ UNCHANGED <<io_sockfd, ack_hash, ack_mtx, ack_cond, rpc, fd, network, drops, abandoned, draw_failed>>

\* Slip: the number is not registered before the message is sent.
InsertSeqNot(c) ==
    /\ cpc[c] = "numbered" /\ Acked(req[c].kind) /\ AckFree
    /\ Goes(c, "inserted")
    /\ UNCHANGED <<handle, rpc, req, fd, network, calls, drops, abandoned, draw_failed>>

InsertSeq(c) ==
    /\ cpc[c] = "numbered" /\ Acked(req[c].kind) /\ AckFree
    /\ ack_hash' = With(req[c].id, Pending)
    /\ Goes(c, "inserted")
    /\ UNCHANGED <<seq_id, io_sockfd, ack_mtx, ack_cond, rpc, req, fd, network,
                   calls, drops, abandoned, draw_failed>>

InsertFails(c) ==
    /\ Faults
    /\ cpc[c] = "numbered" /\ Acked(req[c].kind) /\ AckFree
    /\ Returns(c)
    /\ UNCHANGED <<handle, rpc, network, calls, drops, abandoned, draw_failed>>

BuildsPacket(c) == cpc[c] = IF Acked(req[c].kind) THEN "inserted" ELSE "numbered"

\* The descriptor is read without io_mtx.
ReadFd(c) ==
    /\ BuildsPacket(c)
    /\ fd' = [fd EXCEPT ![c] = io_sockfd]
    /\ Goes(c, "writing")
    /\ UNCHANGED <<handle, rpc, req, network, calls, drops, abandoned, draw_failed>>

SendFails(c) ==
    /\ Faults
    /\ BuildsPacket(c)
    /\ IF Acked(req[c].kind) THEN Goes(c, "undoing") /\ UNCHANGED <<req, fd>>
                             ELSE Returns(c)
    /\ UNCHANGED <<handle, rpc, network, calls, drops, abandoned, draw_failed>>

\* Under io_mtx.  The result of the write is not looked at: a message written
\* to a descriptor that is closed, not connected or broken is lost.
Write(c) ==
    /\ cpc[c] = "writing"
    /\ requests' = IF fd[c] = io_sockfd /\ link = "up"
                   THEN requests \cup {[id |-> req[c].id, kind |-> req[c].kind,
                                        call |-> req[c].call]}
                   ELSE requests
    /\ IF Acked(req[c].kind) THEN Goes(c, "waiting") /\ UNCHANGED <<req, fd>>
                             ELSE Returns(c)
    /\ UNCHANGED <<handle, rpc, link, replies, calls, drops, abandoned, draw_failed>>

-----------------------------------------------------------------------------
\* uc_ipc_client_wait_ack, and what async_send and sync_send do with its result

Stored(c) == req[c].id \in DOMAIN ack_hash /\ ack_hash[req[c].id] # Pending
Looks(c) == cpc[c] = "waiting" /\ c \notin ack_cond /\ AckFree
FindsNothing(c) == Looks(c) /\ req[c].id \in DOMAIN ack_hash /\ ~Stored(c)

\* Slip: async_send leaves its entry, too.
WaitFailedLeaves(c) == Returns(c) /\ abandoned' = abandoned

\* async_send deletes its entry, sync_send returns.
WaitFailed(c) ==
    IF req[c].kind = "async"
    THEN Goes(c, "undoing") /\ UNCHANGED <<req, fd, abandoned>>
    ELSE Returns(c) /\ abandoned' = abandoned \cup {req[c].id}

Sleep(c) ==
    /\ FindsNothing(c)
    /\ req[c].wait # "invalid"
    /\ ack_cond' = ack_cond \cup {c}
    /\ UNCHANGED <<seq_id, io_sockfd, ack_hash, ack_mtx, rpc, caller, network,
                   calls, drops, abandoned, draw_failed>>

\* pthread_cond_timedwait refuses the deadline, without unlocking ack_mtx, as
\* often as the loop calls it.
Spin(c) ==
    /\ FindsNothing(c)
    /\ req[c].wait = "invalid"
    /\ ack_mtx' = c
    /\ Goes(c, "spinning")
    /\ UNCHANGED <<seq_id, io_sockfd, ack_hash, ack_cond, rpc, req, fd, network,
                   calls, drops, abandoned, draw_failed>>

\* The reply is taken out of the table, or there is no entry.
TakeReply(c) ==
    /\ Looks(c) /\ ~FindsNothing(c)
    /\ IF Stored(c) THEN ack_hash' = Without(req[c].id) /\ Returns(c) /\ UNCHANGED abandoned
                    ELSE WaitFailed(c) /\ UNCHANGED ack_hash
    /\ UNCHANGED <<seq_id, io_sockfd, ack_mtx, ack_cond, rpc, network, calls, drops, draw_failed>>

\* Slip: the loop goes on when the deadline has passed.
TimeoutIgnored(c) ==
    /\ c \in ack_cond /\ req[c].wait = "timed" /\ AckFree
    /\ ack_cond' = ack_cond \ {c}
    /\ UNCHANGED <<seq_id, io_sockfd, ack_hash, ack_mtx, rpc, caller, network,
                   calls, drops, abandoned, draw_failed>>

\* The deadline passes while the caller sleeps, also when its reply is there.
Timeout(c) ==
    /\ c \in ack_cond /\ req[c].wait = "timed" /\ AckFree
    /\ ack_cond' = ack_cond \ {c}
    /\ WaitFailed(c)
    /\ UNCHANGED <<seq_id, io_sockfd, ack_hash, ack_mtx, rpc, network, calls, drops, draw_failed>>

SpuriousWakeup(c) ==
    /\ c \in ack_cond
    /\ ack_cond' = ack_cond \ {c}
    /\ UNCHANGED <<seq_id, io_sockfd, ack_hash, ack_mtx, rpc, caller, network,
                   calls, drops, abandoned, draw_failed>>

\* uc_ipc_client_delete_seq
Undo(c) ==
    /\ cpc[c] = "undoing" /\ AckFree
    /\ ack_hash' = Without(req[c].id)
    /\ Returns(c)
    /\ UNCHANGED <<seq_id, io_sockfd, ack_mtx, ack_cond, rpc, network, calls, drops, abandoned, draw_failed>>

-----------------------------------------------------------------------------
\* uc_ipc_client_loop_rcv

\* A reply to a call that has no entry (any more) is freed.
Stores(m) ==
    /\ AckFree
    /\ ack_hash' = IF m.id \in DOMAIN ack_hash THEN With(m.id, m.call) ELSE ack_hash
    /\ Signal

\* A pong of the heartbeat is only logged.
Receive(m) ==
    /\ rpc = "reading" /\ m \in replies
    /\ replies' = replies \ {m}
    /\ IF m.id >= SeqMin /\ Acked(m.kind) THEN Stores(m) ELSE UNCHANGED <<ack_hash, ack_cond>>
    /\ rpc' = IF m.id >= SeqMin THEN "reading" ELSE "failed"
    /\ UNCHANGED <<seq_id, io_sockfd, ack_mtx, caller, link, requests, calls, drops, abandoned, draw_failed>>

\* read fails, or malloc for the message read.
ReadFails ==
    /\ rpc = "reading"
    /\ link = "down" \/ (Faults /\ replies # {})
    /\ rpc' = "failed"
    /\ UNCHANGED <<handle, caller, network, calls, drops, abandoned, draw_failed>>

\* uc_ipc_client_reconnect
ReconnectCloses ==
    /\ rpc = "failed"
    /\ io_sockfd' = None
    /\ link' = "down" /\ requests' = {} /\ replies' = {}
    /\ rpc' = "closed"
    /\ UNCHANGED <<seq_id, ack_hash, ack_mtx, ack_cond, caller, calls, drops, abandoned, draw_failed>>

ReconnectOpens ==
    /\ rpc = "closed"
    /\ io_sockfd' \in Fds
    /\ rpc' = "opened"
    /\ UNCHANGED <<seq_id, ack_hash, ack_mtx, ack_cond, caller, network, calls, drops, abandoned, draw_failed>>

ReconnectSeeds ==
    /\ rpc = "opened"
    /\ \E s \in Seeds : Unused(Raised(s)) /\ seq_id' = Raised(s)
    /\ rpc' = "seeded"
    /\ UNCHANGED <<io_sockfd, ack_hash, ack_mtx, ack_cond, caller, network, calls, drops, abandoned, draw_failed>>

\* uc_urandom clears its buffer before it fails, and the draw is tried again
\* without seq_mtx being held in between.
ReconnectSeedFails ==
    /\ Faults
    /\ rpc = "opened"
    /\ Unused(0) /\ seq_id' = 0
    /\ draw_failed' = TRUE
    /\ UNCHANGED <<io_sockfd, ack_hash, ack_mtx, ack_cond, rpc, caller, network,
                   calls, drops, abandoned>>

ReconnectDone ==
    /\ rpc = "seeded"
    /\ link' = "up"
    /\ rpc' = "reading"
    /\ UNCHANGED <<handle, caller, requests, replies, calls, drops, abandoned, draw_failed>>

-----------------------------------------------------------------------------
\* The server answers every kind but void, acks with the number of the request.
Serve(m) ==
    /\ m \in requests
    /\ requests' = requests \ {m}
    /\ replies' = IF m.kind = "void" THEN replies ELSE replies \cup {m}
    /\ UNCHANGED <<handle, rpc, caller, link, calls, drops, abandoned, draw_failed>>

\* The server goes or drops this client; what it has sent can still be read.
Drop ==
    /\ link = "up" /\ drops < MaxDrops
    /\ link' = "down" /\ requests' = {}
    /\ drops' = drops + 1
    /\ UNCHANGED <<handle, rpc, caller, replies, calls, abandoned, draw_failed>>

CallStep(c) ==
    \/ InsertSeq(c) \/ InsertFails(c) \/ ReadFd(c) \/ SendFails(c) \/ Write(c)
    \/ Sleep(c) \/ Spin(c) \/ TakeReply(c) \/ Timeout(c) \/ Undo(c)

ReceiverStep ==
    \/ \E m \in replies : Receive(m)
    \/ ReadFails \/ ReconnectCloses \/ ReconnectOpens
    \/ ReconnectSeeds \/ ReconnectSeedFails \/ ReconnectDone

Next ==
    \/ \E c \in Callers : NextSeq(c) \/ CallStep(c) \/ SpuriousWakeup(c)
    \/ ReceiverStep
    \/ \E m \in requests : Serve(m)
    \/ Drop

Spec == Init /\ [][Next]_vars

\* Threads run, and a deadline that has passed ends every later wait for it.
Fairness == \A c \in Callers : WF_vars(CallStep(c)) /\ SF_vars(Timeout(c))

FairSpec == Spec /\ Fairness

-----------------------------------------------------------------------------
\* A call is past uc_ipc_client_insert_seq.
Registered(c) ==
    cpc[c] \in {"inserted", "writing", "waiting", "spinning", "undoing"} /\ Acked(req[c].kind)

\* The reply a caller takes answers its own message, across reconnects, wrap
\* around and the entries that sync_send leaves behind.
OwnReply == \A c \in Callers :
    Registered(c) /\ Stored(c) => ack_hash[req[c].id] = req[c].call

\* As long as a call waits, its message and the reply to it find its entry in the
\* table: the reply cannot overtake the registration (the comment at line 489).
ReplyFindsCall == \A m \in requests \cup replies, c \in Callers :
    Registered(c) /\ m.call = req[c].call =>
        m.id \in DOMAIN ack_hash /\ ack_hash[m.id] = Pending

\* No message is sent under a reserved number, whose reply would be taken for a broken
\* stream and make the client reconnect, but the one that is numbered between a
\* failure of uc_urandom in a reconnect and the draw that follows.
NumbersNotReserved == \A m \in requests \cup replies :
    m.id >= SeqMin \/ (m.id = 0 /\ draw_failed)

\* Every entry of the table belongs to a call under way or to a sync_send that
\* timed out: no other path leaves one, whatever fails.
EntriesOwned == \A id \in DOMAIN ack_hash :
    id \in abandoned \/ \E c \in Callers : Registered(c) /\ req[c].id = id

\* A reply in the table is taken by the call that waits for it.
ReplyIsTaken == \A c \in Callers :
    (cpc[c] = "waiting" /\ Stored(c)) ~> ~(cpc[c] = "waiting" /\ Stored(c))

\* It is when calls that wait for a reply do not overlap.
LoneWaiter == \A c, d \in Callers : cpc[c] = "waiting" /\ cpc[d] = "waiting" => c = d
LoneReplyIsTaken == []LoneWaiter => ReplyIsTaken

\* A call that does not wait for ever returns, whether it is answered or not.
TimedCallsEnd == \A c \in Callers :
    (cpc[c] # "idle" /\ req[c].wait # "forever") ~> cpc[c] = "idle"
==================================================
