-------------------------- MODULE IpcServerProofs --------------------------
(***************************************************************************)
(* Proofs about the server, for any number of clients, descriptors and     *)
(* messages, every shape of message, size of the read block and capacity   *)
(* of pipe and send buffer, and with or without failing calls.             *)
(***************************************************************************)
EXTENDS IpcServer, SequenceTheorems, TLAPS

\* Each descriptor in the tables is open for its client; the connection that is
\* attended to is watched, and is unmapped before it is closed.
Tables ==
    /\ \A c \in epoll : cli[c] = "live" /\ cli_fd[c] \in Fds /\ socket[cli_fd[c]] = c
    /\ cli_info_hash \cup DOMAIN cli_fd_hash \subseteq epoll
    /\ \A c \in DOMAIN cli_fd_hash : cli_fd_hash[c] = cli_fd[c]
    /\ pc["rcv"] \in {"reading", "handling", "closing", "unmapped"} => conn \in epoll
    /\ pc["rcv"] = "unmapped" => conn \notin DOMAIN cli_fd_hash

\* cli_fd_mutex is held exactly while a reply is written, to a descriptor that
\* stays mapped.
Writers == \A t \in Threads :
    /\ pc[t] = "writing" <=> cli_fd_mutex = t
    /\ pc[t] = "writing" => /\ msg[t].uuid \in DOMAIN cli_fd_hash
                            /\ sfd[t] = cli_fd_hash[msg[t].uuid]

\* A message inside the server is one its client has sent.
Genuine(m) == m.id \in 1..Len(sent) /\ sent[m.id].conn = m.uuid
KindOf(m) == sent[m.id].kind

\* The threads and the pipe hold messages of the kinds their places are for.
HeldInPipe == \A i \in 1..Len(pipe) : Genuine(pipe[i]) /\ KindOf(pipe[i]) \in {"async", "sync"}

HeldByReceiver ==
    \/ pc["rcv"] \in {"sending", "writing"} /\ msg["rcv"] # NoMsg /\ Genuine(msg["rcv"])
             /\ KindOf(msg["rcv"]) \in {"heartbeat", "async"}
    \/ pc["rcv"] = "piping" /\ msg["rcv"] # NoMsg /\ Genuine(msg["rcv"])
             /\ KindOf(msg["rcv"]) \in {"async", "sync"}
    \/ pc["rcv"] \notin {"sending", "writing", "piping"} /\ msg["rcv"] = NoMsg

HeldByCallback ==
    \/ pc["cb"] = "calling" /\ msg["cb"] # NoMsg /\ Genuine(msg["cb"])
             /\ KindOf(msg["cb"]) \in {"async", "sync"}
    \/ pc["cb"] \in {"sending", "writing"} /\ msg["cb"] # NoMsg /\ Genuine(msg["cb"])
             /\ KindOf(msg["cb"]) = "sync"
    \/ pc["cb"] = "selecting" /\ msg["cb"] = NoMsg

Held == HeldInPipe /\ HeldByReceiver /\ HeldByCallback

-----------------------------------------------------------------------------
\* What a client has sent and the server has yet to handle.
Stream(c) == got[c] \o inbox[c]

\* The message a piece belongs to, and its place there.
Id(s, i) == s[i][1]
Pos(s, i) == s[i][2]

\* The length of a message of those that were sent, in a table of them.
FrameLen(table, id) == HeadLen + table[id].ttl

\* Two pieces of the same message are as far apart as their places, and a message
\* begins where the one before ends.
Follows(table, s, i, j) ==
    /\ IF Pos(s, i) + (j - i) <= FrameLen(table, Id(s, i))
       THEN Id(s, j) = Id(s, i) /\ Pos(s, j) = Pos(s, i) + (j - i)
       ELSE Id(s, j) > Id(s, i)
    /\ j = i + 1 /\ Pos(s, i) = FrameLen(table, Id(s, i)) => Pos(s, j) = 1

\* A piece of a message of c.
Piece(table, s, i, c) ==
    /\ Id(s, i) \in 1..Len(table) /\ table[Id(s, i)].conn = c
    /\ Pos(s, i) \in 1..FrameLen(table, Id(s, i))

\* A sequence of messages of c without a gap, each newer than the one before.
Framed(table, s, c) ==
    /\ \A i \in 1..Len(s) : Piece(table, s, i, c)
    /\ \A i, j \in 1..Len(s) : i <= j => Follows(table, s, i, j)
    /\ Len(s) > 0 => Pos(s, 1) = 1

\* Only the last message of a client that has closed its connection may be cut off.
Complete(table, s) == Len(s) > 0 => Pos(s, Len(s)) = FrameLen(table, Id(s, Len(s)))

\* How much of the first message has been read.
Collected(c) ==
    /\ stage[c] = "head" => Len(got[c]) < HeadLen
    /\ stage[c] = "buf" =>
        HeadLen <= Len(got[c]) /\ Len(got[c]) < FrameLen(sent, Id(got[c], 1))
    /\ stage[c] = "done" =>
        Len(got[c]) = FrameLen(sent, Id(got[c], 1)) /\ Len(got[c]) > 0

WholeStream(c) ==
    /\ Framed(sent, Stream(c), c) /\ Collected(c)
    /\ client[c] = "connected" => Complete(sent, Stream(c))

\* The place of the receiving thread tells what is collected for the connection
\* that it attends to, which is closed for a reason.
Attending ==
    /\ pc["rcv"] = "reading" => stage[conn] = "buf"
    /\ pc["rcv"] = "handling" => stage[conn] = "done"
    /\ pc["rcv"] \in {"closing", "unmapped"} => client[conn] = "closed" \/ faults > 0

Streams ==
    /\ \A c \in Conns : WholeStream(c)
    /\ Attending
    /\ \A c \in Conns : got[c] # <<>> => c \in epoll

-----------------------------------------------------------------------------
\* Unless memory was short the tables agree.
TablesKept == faults = 0 =>
    /\ cli_info_hash = epoll
    /\ DOMAIN cli_fd_hash = epoll \ {c \in Conns : pc["rcv"] = "unmapped" /\ conn = c}
    /\ \A c \in Conns : cli[c] = "live" => c \in epoll

ServerInv == TypeOK /\ Tables /\ Writers /\ Held /\ Streams

-----------------------------------------------------------------------------
(* Sequences and their places *)

\* Moving two places by the same distance.
LEMMA Shift ==
    ASSUME NEW n \in Nat, NEW i \in Nat, NEW j \in Nat
    PROVE  /\ (n + j) - (n + i) = j - i
           /\ i <= j => n + i <= n + j
           /\ j = i + 1 => n + j = (n + i) + 1
OBVIOUS

\* The elements of a sequence made of two.
LEMMA Joined ==
    ASSUME NEW T, NEW s \in Seq(T), NEW t \in Seq(T)
    PROVE  /\ s \o t \in Seq(T) /\ Len(s \o t) = Len(s) + Len(t)
           /\ \A i \in 1..Len(s) : (s \o t)[i] = s[i]
           /\ \A i \in 1..Len(t) : (s \o t)[Len(s) + i] = t[i]
           /\ \A i \in 1..Len(s \o t) :
                i \in 1..Len(s) \/ \E j \in 1..Len(t) : i = Len(s) + j
<1>1. \A i \in 1..Len(s \o t) : i \notin 1..Len(s) => i - Len(s) \in 1..Len(t)
  OBVIOUS
<1>2. \A i \in 1..Len(s \o t) : i = Len(s) + (i - Len(s))
  OBVIOUS
<1> QED BY <1>1, <1>2

\* A sequence that grows by one.
LEMMA Grown ==
    ASSUME NEW T, NEW s \in Seq(T), NEW e \in T
    PROVE  /\ Append(s, e) \in Seq(T) /\ Len(Append(s, e)) = Len(s) + 1
           /\ Append(s, e)[Len(s) + 1] = e
           /\ \A i \in 1..Len(s) : i \in 1..Len(Append(s, e)) /\ Append(s, e)[i] = s[i]
           /\ \A i \in 1..Len(Append(s, e)) : i \in 1..Len(s) \/ i = Len(s) + 1
OBVIOUS

-----------------------------------------------------------------------------
(* Sequences of messages *)

\* What travels is pieces of messages.
Pieces == MsgIds \X Nat
MessageTypes == [conn : Conns, kind : Requests \cup {"void"}, ttl : 0..9]

\* A message is no shorter than its header.
LEMMA FrameLenNat ==
    ASSUME NEW table \in Seq(MessageTypes), NEW id \in 1..Len(table)
    PROVE  FrameLen(table, id) \in Nat /\ FrameLen(table, id) >= HeadLen
<1>1. table[id] \in MessageTypes
  OBVIOUS
<1> QED BY <1>1, ServerAssumption DEF FrameLen, MessageTypes

\* The numbers in a sequence of messages are numbers.
LEMMA PieceTypes ==
    ASSUME NEW s \in Seq(Pieces), NEW i \in 1..Len(s)
    PROVE  /\ Id(s, i) \in MsgIds /\ Id(s, i) \in Nat /\ Pos(s, i) \in Nat
           /\ s[i] = <<Id(s, i), Pos(s, i)>>
BY DEF Pieces, MsgIds, Id, Pos

LEMMA FramedTypes ==
    ASSUME NEW table \in Seq(MessageTypes), NEW s \in Seq(Pieces), NEW c,
           Framed(table, s, c), NEW i \in 1..Len(s)
    PROVE  /\ Id(s, i) \in Nat /\ Pos(s, i) \in Nat
           /\ FrameLen(table, Id(s, i)) \in Nat /\ FrameLen(table, Id(s, i)) >= HeadLen
<1>1. Id(s, i) \in 1..Len(table)
  BY DEF Framed, Piece
<1> QED BY <1>1, FrameLenNat, PieceTypes

\* As many pieces as the first message has are its own.
LEMMA FramedFirst ==
    ASSUME NEW table \in Seq(MessageTypes), NEW s \in Seq(Pieces), NEW c,
           Framed(table, s, c), NEW k \in 1..Len(s), k <= FrameLen(table, Id(s, 1))
    PROVE  Id(s, k) = Id(s, 1) /\ Pos(s, k) = k
<1>1. 1 \in 1..Len(s) /\ 1 <= k /\ Len(s) > 0
  OBVIOUS
<1>2. FrameLen(table, Id(s, 1)) \in Nat
  BY <1>1, FramedTypes
<1>3. Pos(s, 1) = 1 /\ Follows(table, s, 1, k)
  BY <1>1 DEF Framed
<1>4. 1 + (k - 1) = k
  OBVIOUS
<1> QED BY <1>2, <1>3, <1>4 DEF Follows

\* Messages that a sequence shares with another keep their order.
LEMMA SameFollows ==
    ASSUME NEW table, NEW s, NEW t, NEW i, NEW j,
           Id(t, i) = Id(s, i), Pos(t, i) = Pos(s, i),
           Id(t, j) = Id(s, j), Pos(t, j) = Pos(s, j),
           Follows(table, s, i, j)
    PROVE  Follows(table, t, i, j)
BY DEF Follows

\* The begin of such a sequence is one, too.
LEMMA FramedBegin ==
    ASSUME NEW table, NEW s \in Seq(Pieces), NEW c, Framed(table, s, c),
           NEW b \in Seq(Pieces), Len(b) <= Len(s), \A i \in 1..Len(b) : b[i] = s[i]
    PROVE  Framed(table, b, c)
<1>1. \A i \in 1..Len(b) : Id(b, i) = Id(s, i) /\ Pos(b, i) = Pos(s, i) /\ i \in 1..Len(s)
  BY DEF Id, Pos
<1>2. \A i \in 1..Len(b) : Piece(table, b, i, c)
  BY <1>1 DEF Framed, Piece
<1>3. \A i, j \in 1..Len(b) : i <= j => Follows(table, b, i, j)
  BY <1>1, SameFollows DEF Framed
<1>4. Len(b) > 0 => 1 \in 1..Len(b) /\ Len(s) > 0
  OBVIOUS
<1> QED BY <1>1, <1>2, <1>3, <1>4 DEF Framed

\* So is what follows its first message.
LEMMA FramedRest ==
    ASSUME NEW table \in Seq(MessageTypes), NEW s \in Seq(Pieces), NEW c,
           Framed(table, s, c), NEW n \in 1..Len(s), n = FrameLen(table, Id(s, 1)),
           NEW r \in Seq(Pieces), Len(r) = Len(s) - n,
           \A i \in 1..Len(r) : r[i] = s[n + i]
    PROVE  /\ Framed(table, r, c)
           /\ \A i \in 1..Len(r) : Id(r, i) > Id(s, 1)
           /\ Complete(table, s) => Complete(table, r)
<1>1. Id(s, n) = Id(s, 1) /\ Pos(s, n) = n
  BY FramedFirst
<1>2. \A i \in 1..Len(r) : /\ n + i \in 1..Len(s)
                           /\ Id(r, i) = Id(s, n + i) /\ Pos(r, i) = Pos(s, n + i)
  BY DEF Id, Pos
<1>3. Len(r) > 0 => Pos(r, 1) = 1
  <2> SUFFICES ASSUME Len(r) > 0 PROVE Pos(r, 1) = 1
    OBVIOUS
  <2>1. n + 1 \in 1..Len(s) /\ 1 \in 1..Len(r)
    OBVIOUS
  <2>2. Follows(table, s, n, n + 1)
    BY <2>1 DEF Framed
  <2>3. Pos(s, n + 1) = 1
    BY <1>1, <2>2 DEF Follows
  <2> QED BY <1>2, <2>1, <2>3
<1>4. ASSUME NEW i \in 1..Len(r), NEW j \in 1..Len(r), i <= j
      PROVE  Follows(table, r, i, j)
  <2>1. n \in Nat /\ i \in Nat /\ j \in Nat
    OBVIOUS
  <2>2. /\ n + i <= n + j /\ (n + j) - (n + i) = j - i
        /\ j = i + 1 => n + j = (n + i) + 1
    BY <2>1, <1>4, Shift
  <2>3. Follows(table, s, n + i, n + j)
    BY <1>2, <2>2 DEF Framed
  <2> QED BY <1>2, <2>2, <2>3 DEF Follows
<1>5. \A i \in 1..Len(r) : Piece(table, r, i, c)
  BY <1>2 DEF Framed, Piece
<1>6. ASSUME NEW i \in 1..Len(r) PROVE Id(r, i) > Id(s, 1)
  <2>1. 1 <= n + i /\ 1 \in 1..Len(s) /\ 1 + ((n + i) - 1) = n + i /\ n + i > n
    OBVIOUS
  <2>2. Follows(table, s, 1, n + i) /\ Pos(s, 1) = 1
    BY <1>2, <2>1 DEF Framed
  <2>3. Id(s, n + i) > Id(s, 1)
    BY <2>1, <2>2 DEF Follows
  <2> QED BY <1>2, <2>3
<1>7. Complete(table, s) => Complete(table, r)
  <2> SUFFICES ASSUME Complete(table, s), Len(r) > 0 PROVE Complete(table, r)
    BY DEF Complete
  <2>1. Len(r) \in 1..Len(r) /\ n + Len(r) = Len(s) /\ Len(s) > 0
    OBVIOUS
  <2>2. Id(r, Len(r)) = Id(s, Len(s)) /\ Pos(r, Len(r)) = Pos(s, Len(s))
    BY <1>2, <2>1
  <2> QED BY <2>1, <2>2 DEF Complete
<1> QED BY <1>3, <1>4, <1>5, <1>6, <1>7 DEF Framed

\* What was sent before stays as it was when more is sent.
LEMMA FramedLater ==
    ASSUME NEW table \in Seq(MessageTypes), NEW more \in Seq(MessageTypes),
           Len(table) <= Len(more), \A id \in 1..Len(table) : more[id] = table[id],
           NEW s \in Seq(Pieces), NEW c, Framed(table, s, c)
    PROVE  /\ Framed(more, s, c)
           /\ Complete(table, s) => Complete(more, s)
           /\ \A i \in 1..Len(s) : FrameLen(more, Id(s, i)) = FrameLen(table, Id(s, i))
<1>1. \A id \in 1..Len(table) : FrameLen(more, id) = FrameLen(table, id) /\ id \in 1..Len(more)
  BY DEF FrameLen
<1>2. \A i \in 1..Len(s) : FrameLen(more, Id(s, i)) = FrameLen(table, Id(s, i))
  BY <1>1 DEF Framed, Piece
<1>3. \A i \in 1..Len(s) : Piece(more, s, i, c)
  BY <1>1, <1>2 DEF Framed, Piece
<1>4. \A i, j \in 1..Len(s) : i <= j => Follows(more, s, i, j)
  BY <1>2 DEF Framed, Follows
<1>5. Complete(table, s) => Complete(more, s)
  <2>1. Len(s) > 0 => Len(s) \in 1..Len(s)
    OBVIOUS
  <2> QED BY <1>2, <2>1 DEF Complete
<1> QED BY <1>2, <1>3, <1>4, <1>5 DEF Framed

\* All pieces of a complete stream but the last are followed by others.
LEMMA CompleteEnds ==
    ASSUME NEW table \in Seq(MessageTypes), NEW s \in Seq(Pieces), NEW c,
           Framed(table, s, c), Complete(table, s), NEW i \in 1..Len(s)
    PROVE  /\ Pos(s, i) + (Len(s) - i) >= FrameLen(table, Id(s, i))
           /\ Id(s, i) <= Id(s, Len(s))
<1>1. Len(s) \in 1..Len(s) /\ i <= Len(s) /\ Len(s) > 0 /\ Len(s) - i \in Nat
  OBVIOUS
<1>2. Follows(table, s, i, Len(s)) /\ Pos(s, Len(s)) = FrameLen(table, Id(s, Len(s)))
  BY <1>1 DEF Framed, Complete
<1>3. /\ Id(s, i) \in Nat /\ Pos(s, i) \in Nat /\ FrameLen(table, Id(s, i)) \in Nat
      /\ Id(s, Len(s)) \in Nat
  BY <1>1, FramedTypes
<1>4. CASE Pos(s, i) + (Len(s) - i) <= FrameLen(table, Id(s, i))
  BY <1>1, <1>2, <1>3, <1>4 DEF Follows
<1>5. CASE ~ (Pos(s, i) + (Len(s) - i) <= FrameLen(table, Id(s, i)))
  BY <1>1, <1>2, <1>3, <1>5 DEF Follows
<1> QED BY <1>4, <1>5

\* The pieces of one message.
LEMMA FrameParts ==
    ASSUME NEW id \in MsgIds, NEW ttl \in 0..9
    PROVE  /\ Frame(id, ttl) \in Seq(Pieces) /\ Len(Frame(id, ttl)) = HeadLen + ttl
           /\ \A i \in 1..Len(Frame(id, ttl)) :
                Id(Frame(id, ttl), i) = id /\ Pos(Frame(id, ttl), i) = i
<1>1. HeadLen + ttl \in Nat /\ \A i \in 1..(HeadLen + ttl) : <<id, i>> \in Pieces
  BY ServerAssumption DEF Pieces
<1> QED BY <1>1 DEF Frame, Id, Pos

\* A newer message goes on from a complete stream.
LEMMA FramedJoin ==
    ASSUME NEW table \in Seq(MessageTypes), NEW s \in Seq(Pieces), NEW c,
           Framed(table, s, c), Complete(table, s),
           NEW id \in 1..Len(table), table[id].conn = c,
           \A i \in 1..Len(s) : Id(s, i) < id,
           NEW f \in Seq(Pieces), Len(f) = FrameLen(table, id),
           \A i \in 1..Len(f) : Id(f, i) = id /\ Pos(f, i) = i
    PROVE  /\ s \o f \in Seq(Pieces)
           /\ Framed(table, s \o f, c) /\ Complete(table, s \o f)
           /\ \A i \in 1..Len(s) : (s \o f)[i] = s[i]
           /\ \A i \in 1..Len(f) : (s \o f)[Len(s) + i] = f[i]
<1>1. PICK z \in Seq(Pieces) : z = s \o f
  BY Joined
<1>2. /\ Len(z) = Len(s) + Len(f)
      /\ \A i \in 1..Len(s) : z[i] = s[i]
      /\ \A i \in 1..Len(f) : z[Len(s) + i] = f[i]
      /\ \A i \in 1..Len(z) : i \in 1..Len(s) \/ \E j \in 1..Len(f) : i = Len(s) + j
  BY <1>1, Joined
<1>3. \A i \in 1..Len(s) : Id(z, i) = Id(s, i) /\ Pos(z, i) = Pos(s, i)
  BY <1>2 DEF Id, Pos
<1>4. \A i \in 1..Len(f) : Id(z, Len(s) + i) = id /\ Pos(z, Len(s) + i) = i
  <2>1. \A i \in 1..Len(f) : Id(z, Len(s) + i) = Id(f, i) /\ Pos(z, Len(s) + i) = Pos(f, i)
    BY <1>2 DEF Id, Pos
  <2> QED BY <2>1
<1>5. Len(f) \in Nat /\ Len(f) > 0 /\ Len(f) \in 1..Len(f)
  BY FrameLenNat, ServerAssumption
<1>6. \A i \in 1..Len(z) : Piece(table, z, i, c)
  <2>1. \A i \in 1..Len(s) : Piece(table, z, i, c)
    BY <1>3 DEF Framed, Piece
  <2>2. \A i \in 1..Len(f) : Piece(table, z, Len(s) + i, c)
    BY <1>4 DEF Piece
  <2> QED BY <1>2, <2>1, <2>2
<1>7. ASSUME NEW i \in 1..Len(z), NEW j \in 1..Len(z), i <= j
      PROVE  Follows(table, z, i, j)
  <2>1. CASE j \in 1..Len(s)
    <3>1. i \in 1..Len(s)
      BY <1>7, <2>1
    <3> QED BY <1>3, <1>7, <2>1, <3>1, SameFollows DEF Framed
  <2>2. CASE i \in 1..Len(s) /\ j \notin 1..Len(s)
    <3>1. PICK k \in 1..Len(f) : j = Len(s) + k
      BY <1>2, <2>2
    <3>2. /\ Pos(s, i) + (Len(s) - i) >= FrameLen(table, Id(s, i))
          /\ Pos(s, i) \in Nat /\ FrameLen(table, Id(s, i)) \in Nat
      BY <2>2, CompleteEnds, FramedTypes
    <3>3. Pos(s, i) + (j - i) > FrameLen(table, Id(s, i))
      BY <3>1, <3>2
    <3>4. Id(z, j) = id /\ Id(s, i) < id
      BY <1>4, <2>2, <3>1
    <3>5. j = i + 1 => Pos(z, j) = 1
      <4>1. j = i + 1 => k = 1
        BY <2>2, <3>1
      <4> QED BY <1>4, <3>1, <4>1
    <3>6. Id(s, i) \in Nat
      BY <2>2, FramedTypes
    <3> QED BY <1>3, <2>2, <3>2, <3>3, <3>4, <3>5, <3>6 DEF Follows
  <2>3. CASE i \notin 1..Len(s)
    <3>1. PICK k \in 1..Len(f) : i = Len(s) + k
      BY <1>2, <2>3
    <3>2. j \notin 1..Len(s)
      BY <1>7, <2>3
    <3>3. PICK l \in 1..Len(f) : j = Len(s) + l
      BY <1>2, <3>2
    <3>4. j - i = l - k /\ k + (l - k) = l /\ l <= FrameLen(table, id)
      BY <3>1, <3>3
    <3>5. Id(z, i) = id /\ Pos(z, i) = k /\ Id(z, j) = id /\ Pos(z, j) = l
      BY <1>4, <3>1, <3>3
    <3>6. ~ (j = i + 1 /\ k = FrameLen(table, id))
      BY <3>1, <3>3
    <3> QED BY <3>4, <3>5, <3>6 DEF Follows
  <2> QED BY <2>1, <2>2, <2>3
<1>8. Pos(z, 1) = 1
  <2>1. CASE Len(s) = 0
    BY <1>4, <1>5, <2>1
  <2>2. CASE Len(s) > 0
    BY <1>3, <2>2 DEF Framed
  <2> QED BY <2>1, <2>2
<1>9. Complete(table, z)
  BY <1>2, <1>4, <1>5 DEF Complete
<1>10. Framed(table, z, c)
  BY <1>6, <1>7, <1>8 DEF Framed
<1> QED BY <1>1, <1>2, <1>9, <1>10

-----------------------------------------------------------------------------
(* The stream of a client *)

\* The sequences of the state, and what a thread may be sure of.
LEMMA StateTypes ==
    ASSUME TypeOK
    PROVE  /\ got \in [Conns -> Seq(Pieces)] /\ inbox \in [Conns -> Seq(Pieces)]
           /\ sent \in Seq(MessageTypes)
BY DEF TypeOK, Pieces, MessageTypes

\* What is collected and what follows are the parts of the stream.
LEMMA StreamParts ==
    ASSUME TypeOK, NEW c \in Conns
    PROVE  /\ Stream(c) \in Seq(Pieces)
           /\ Len(Stream(c)) = Len(got[c]) + Len(inbox[c])
           /\ \A i \in 1..Len(got[c]) : Stream(c)[i] = got[c][i]
           /\ \A i \in 1..Len(inbox[c]) : Stream(c)[Len(got[c]) + i] = inbox[c][i]
BY StateTypes DEF Stream

\* The message that is collected is one of the client.
LEMMA FirstMessage ==
    ASSUME TypeOK, Streams, NEW c \in Conns, Len(Stream(c)) > 0
    PROVE  LET id == Id(Stream(c), 1) IN
           /\ id \in 1..Len(sent) /\ id \in MsgIds
           /\ sent[id].conn = c /\ sent[id] \in MessageTypes
           /\ FrameLen(sent, id) \in Nat /\ FrameLen(sent, id) >= HeadLen
           /\ FrameLen(sent, id) = HeadLen + sent[id].ttl
<1> DEFINE id == Id(Stream(c), 1)
<1>1. Stream(c) \in Seq(Pieces) /\ sent \in Seq(MessageTypes) /\ Framed(sent, Stream(c), c)
  BY StreamParts, StateTypes DEF Streams, WholeStream
<1>2. 1 \in 1..Len(Stream(c))
  BY <1>1
<1>3. id \in 1..Len(sent) /\ sent[id].conn = c /\ id \in MsgIds
  BY <1>1, <1>2, PieceTypes DEF Framed, Piece
<1> HIDE DEF id
<1>4. sent[id] \in MessageTypes
  BY <1>1, <1>3
<1> QED BY <1>1, <1>3, <1>4, FrameLenNat DEF id, FrameLen

\* It is the first of the stream.
LEMMA FirstCollected ==
    ASSUME TypeOK, NEW c \in Conns, Len(got[c]) > 0
    PROVE  /\ Len(Stream(c)) > 0 /\ got[c][1][1] = Id(Stream(c), 1)
           /\ Id(got[c], 1) = Id(Stream(c), 1)
<1>1. Len(Stream(c)) > 0 /\ Stream(c)[1] = got[c][1]
  BY StateTypes DEF Stream
<1> QED BY <1>1 DEF Id

\* Reading on does not reach beyond the message.
LEMMA WantBounds ==
    ASSUME TypeOK, Streams, NEW c \in Conns, stage[c] # "done"
    PROVE  /\ Want(c) \in Int
           /\ stage[c] = "head" => Want(c) = HeadLen - Len(got[c])
           /\ stage[c] = "buf" =>
                Len(got[c]) > 0 /\ Want(c) <= FrameLen(sent, Id(Stream(c), 1)) - Len(got[c])
<1>1. got \in [Conns -> Seq(Pieces)] /\ HeadLen \in Nat /\ HeadLen > 0 /\ Block \in Nat
  BY StateTypes, ServerAssumption
<1>2. CASE stage[c] = "head"
  BY <1>1, <1>2 DEF Want
<1>3. CASE stage[c] = "buf"
  <2>1. Len(got[c]) > 0
    BY <1>1, <1>3 DEF Streams, WholeStream, Attending, Collected
  <2>2. /\ got[c][1][1] = Id(Stream(c), 1) /\ FrameLen(sent, Id(Stream(c), 1)) \in Nat
        /\ FrameLen(sent, Id(Stream(c), 1)) = HeadLen + sent[Id(Stream(c), 1)].ttl
    BY <2>1, FirstCollected, FirstMessage
  <2>3. Left(c) = FrameLen(sent, Id(Stream(c), 1)) - Len(got[c])
    <3>1. Left(c) = HeadLen + (sent[Id(Stream(c), 1)].ttl - Len(got[c]))
      BY <2>2 DEF Left
    <3>2. sent[Id(Stream(c), 1)] \in MessageTypes
      BY <2>1, FirstCollected, FirstMessage
    <3>3. PICK t \in 0..9 : t = sent[Id(Stream(c), 1)].ttl
      BY <3>2 DEF MessageTypes
    <3> QED BY <1>1, <2>2, <3>1, <3>3
  <2>4. Left(c) \in Int
    BY <1>1, <2>2, <2>3
  <2> QED BY <1>1, <1>3, <2>1, <2>3, <2>4 DEF Want
<1> QED BY <1>2, <1>3 DEF TypeOK

\* Two adjacent parts of a sequence.
LEMMA Cut ==
    ASSUME NEW T, NEW b \in Seq(T), NEW n \in 0..Len(b)
    PROVE  /\ SubSeq(b, 1, n) \in Seq(T) /\ SubSeq(b, n + 1, Len(b)) \in Seq(T)
           /\ Len(SubSeq(b, 1, n)) = n /\ Len(SubSeq(b, n + 1, Len(b))) = Len(b) - n
           /\ \A i \in 1..n : SubSeq(b, 1, n)[i] = b[i]
           /\ \A i \in 1..(Len(b) - n) : SubSeq(b, n + 1, Len(b))[i] = b[n + i]
OBVIOUS

\* What is taken from the second of two sequences goes to the end of the first.
LEMMA TakenFrom ==
    ASSUME NEW T, NEW g \in Seq(T), NEW b \in Seq(T), NEW n \in 1..Len(b)
    PROVE  (g \o SubSeq(b, 1, n)) \o SubSeq(b, n + 1, Len(b)) = g \o b
<1>3. n \in 0..Len(b) /\ n \in Nat /\ Len(b) \in Nat /\ Len(g) \in Nat
  OBVIOUS
<1>0. SubSeq(b, 1, n) \in Seq(T) /\ SubSeq(b, n + 1, Len(b)) \in Seq(T)
  BY <1>3, Cut
<1>1. PICK f \in Seq(T) : f = SubSeq(b, 1, n)
  BY <1>0, Zenon
<1>2. PICK r \in Seq(T) : r = SubSeq(b, n + 1, Len(b))
  BY <1>0, Zenon
<1>4. /\ Len(f) = n /\ Len(r) = Len(b) - n
      /\ \A i \in 1..n : f[i] = b[i]
      /\ \A i \in 1..(Len(b) - n) : r[i] = b[n + i]
  BY <1>1, <1>2, <1>3, Cut
<1>5. PICK h \in Seq(T) : h = g \o f
  <2>1. g \o f \in Seq(T)
    BY Joined
  <2> QED BY <2>1, Zenon
<1>6. /\ Len(h) = Len(g) + n
      /\ \A i \in 1..Len(g) : h[i] = g[i]
      /\ \A i \in 1..n : h[Len(g) + i] = b[i]
  <2>1. /\ Len(h) = Len(g) + Len(f)
        /\ \A i \in 1..Len(g) : h[i] = g[i]
        /\ \A i \in 1..Len(f) : h[Len(g) + i] = f[i]
    BY <1>5, Joined
  <2> QED BY <1>4, <2>1
<1>7. PICK x \in Seq(T) : x = h \o r
  <2>1. h \o r \in Seq(T)
    BY Joined
  <2> QED BY <2>1, Zenon
<1>8. PICK y \in Seq(T) : y = g \o b
  <2>1. g \o b \in Seq(T)
    BY Joined
  <2> QED BY <2>1, Zenon
<1>9. /\ \A i \in 1..Len(h) : x[i] = h[i]
      /\ \A i \in 1..Len(r) : x[Len(h) + i] = r[i]
      /\ Len(x) = Len(h) + Len(r)
  BY <1>7, Joined
<1>10. /\ \A i \in 1..Len(g) : y[i] = g[i]
       /\ \A i \in 1..Len(b) : y[Len(g) + i] = b[i]
       /\ Len(y) = Len(g) + Len(b)
  BY <1>8, Joined
<1>11. ASSUME NEW i \in 1..Len(x) PROVE x[i] = y[i]
  <2>1. CASE i <= Len(g)
    BY <1>3, <1>6, <1>9, <1>10, <2>1
  <2>2. CASE i > Len(g) /\ i <= Len(g) + n
    <3>1. i - Len(g) \in 1..n /\ i = Len(g) + (i - Len(g)) /\ i - Len(g) \in 1..Len(b)
          /\ i \in 1..Len(h)
      BY <1>3, <1>6, <2>2
    <3>2. x[i] = h[i] /\ h[i] = b[i - Len(g)]
      BY <1>6, <1>9, <3>1
    <3>3. y[i] = b[i - Len(g)]
      BY <1>10, <3>1
    <3> QED BY <3>2, <3>3
  <2>3. CASE i > Len(g) + n
    <3>1. PICK j \in Nat : j = i - (Len(g) + n)
      <4>1. i - (Len(g) + n) \in Nat
        BY <1>3, <2>3
      <4> QED BY <4>1, Zenon
    <3>2. /\ j \in 1..(Len(b) - n) /\ i = (Len(g) + n) + j
          /\ i = Len(g) + (n + j) /\ n + j \in 1..Len(b)
      <4>1. Len(g) \in Nat /\ Len(b) \in Nat /\ n \in Nat /\ Len(x) = Len(g) + Len(b)
        BY <1>4, <1>6, <1>9
      <4>2. i \in Nat /\ i <= Len(g) + Len(b)
        BY <4>1
      <4>3. i = Len(g) + n + j /\ j > 0
        BY <2>3, <3>1, <4>1, <4>2
      <4> QED BY <4>1, <4>2, <4>3
    <3>3. x[i] = r[j]
      BY <1>4, <1>6, <1>9, <3>2
    <3>4. y[i] = b[n + j]
      BY <1>10, <3>2
    <3> QED BY <1>4, <3>2, <3>3, <3>4
  <2> QED BY <1>3, <2>1, <2>2, <2>3
<1>12. x = y
  <2>1. Len(x) = Len(y)
    BY <1>3, <1>4, <1>6, <1>9, <1>10
  <2> QED BY <1>11, <2>1, SeqEqual
<1> QED BY <1>1, <1>2, <1>5, <1>7, <1>8, <1>12, Zenon

\* Reading leaves the stream as it is and collects no more than one message.
LEMMA Taken ==
    ASSUME TypeOK, Streams, NEW c \in Conns, stage[c] # "done", Takes(c)
    PROVE  /\ got' \in [Conns -> Seq(Pieces)] /\ inbox' \in [Conns -> Seq(Pieces)]
           /\ \A d \in Conns : Stream(d)' = Stream(d)
           /\ \A d \in Conns \ {c} : got'[d] = got[d]
           /\ Len(Stream(c)) > 0 /\ got'[c] # <<>> /\ Len(got'[c]) > Len(got[c])
           /\ got'[c][1][1] = Id(Stream(c), 1) /\ Id(got'[c], 1) = Id(Stream(c), 1)
           /\ stage[c] = "head" => Len(got'[c]) <= HeadLen
           /\ stage[c] = "buf" => Len(got'[c]) <= FrameLen(sent, Id(Stream(c), 1))
<1>1. got \in [Conns -> Seq(Pieces)] /\ inbox \in [Conns -> Seq(Pieces)] /\ HeadLen \in Nat
  BY StateTypes, ServerAssumption
<1>2. PICK n \in 1..Want(c) :
        /\ n <= Len(inbox[c])
        /\ got' = [got EXCEPT ![c] = @ \o SubSeq(inbox[c], 1, n)]
        /\ inbox' = [inbox EXCEPT ![c] = SubSeq(@, n + 1, Len(@))]
  BY DEF Takes
<1>3. Want(c) \in Int /\ n \in Nat /\ 1 <= n /\ n <= Want(c)
  BY <1>2, WantBounds
<1>4. n \in 1..Len(inbox[c])
  BY <1>1, <1>2, <1>3
<1>5. /\ got'[c] = got[c] \o SubSeq(inbox[c], 1, n)
      /\ inbox'[c] = SubSeq(inbox[c], n + 1, Len(inbox[c]))
      /\ \A d \in Conns \ {c} : got'[d] = got[d] /\ inbox'[d] = inbox[d]
  BY <1>1, <1>2
<1>6. /\ got'[c] \in Seq(Pieces) /\ inbox'[c] \in Seq(Pieces)
      /\ Len(got'[c]) = Len(got[c]) + n
      /\ got'[c] \o inbox'[c] = got[c] \o inbox[c]
  <2>1. got[c] \in Seq(Pieces) /\ inbox[c] \in Seq(Pieces)
    BY <1>1
  <2>2. /\ SubSeq(inbox[c], 1, n) \in Seq(Pieces)
        /\ SubSeq(inbox[c], n + 1, Len(inbox[c])) \in Seq(Pieces)
        /\ Len(SubSeq(inbox[c], 1, n)) = n
    <3>1. n \in 0..Len(inbox[c])
      BY <1>4, <2>1
    <3> QED BY <2>1, <3>1, Cut
  <2>3. /\ got[c] \o SubSeq(inbox[c], 1, n) \in Seq(Pieces)
        /\ Len(got[c] \o SubSeq(inbox[c], 1, n)) = Len(got[c]) + n
    BY <2>1, <2>2, Joined
  <2>4. (got[c] \o SubSeq(inbox[c], 1, n)) \o SubSeq(inbox[c], n + 1, Len(inbox[c]))
            = got[c] \o inbox[c]
    BY <1>4, <2>1, TakenFrom, Zenon
  <2> QED BY <1>5, <2>2, <2>3, <2>4, Zenon
<1>7. got' \in [Conns -> Seq(Pieces)] /\ inbox' \in [Conns -> Seq(Pieces)]
  BY <1>1, <1>2, <1>5, <1>6
<1>8. \A d \in Conns : Stream(d)' = Stream(d)
  BY <1>5, <1>6 DEF Stream
<1>9. Len(got'[c]) > Len(got[c]) /\ Len(got'[c]) > 0 /\ got'[c] # <<>>
  BY <1>1, <1>3, <1>6, <1>7
<1>10. Len(Stream(c)) > 0 /\ got'[c][1][1] = Id(Stream(c), 1) /\ Id(got'[c], 1) = Id(Stream(c), 1)
  <2>1. Stream(c) = got'[c] \o inbox'[c]
    BY <1>6 DEF Stream
  <2>2. Len(Stream(c)) > 0 /\ Stream(c)[1] = got'[c][1]
    BY <1>7, <1>9, <2>1
  <2> QED BY <2>2 DEF Id
<1>11. stage[c] = "head" => Len(got'[c]) <= HeadLen
  <2> SUFFICES ASSUME stage[c] = "head" PROVE Len(got'[c]) <= HeadLen
    OBVIOUS
  <2>1. n <= HeadLen - Len(got[c])
    BY <1>3, WantBounds
  <2> QED BY <1>1, <1>3, <1>6, <1>7, <2>1
<1>12. stage[c] = "buf" => Len(got'[c]) <= FrameLen(sent, Id(Stream(c), 1))
  <2> SUFFICES ASSUME stage[c] = "buf"
               PROVE  Len(got'[c]) <= FrameLen(sent, Id(Stream(c), 1))
    OBVIOUS
  <2>1. FrameLen(sent, Id(Stream(c), 1)) \in Nat
    BY <1>10, FirstMessage
  <2>2. n <= FrameLen(sent, Id(Stream(c), 1)) - Len(got[c])
    BY <1>1, <1>3, <2>1, WantBounds
  <2> QED BY <1>1, <1>3, <1>6, <1>7, <2>1, <2>2
<1> QED BY <1>5, <1>7, <1>8, <1>9, <1>10, <1>11, <1>12
-----------------------------------------------------------------------------
(* The steps *)

\* The parts of the type invariant.
TablesType ==
    /\ cli_info_hash \subseteq Conns /\ epoll \subseteq Conns
    /\ DOMAIN cli_fd_hash \subseteq Conns
    /\ cli_fd_hash \in [DOMAIN cli_fd_hash -> Fds]
    /\ cli \in [Conns -> {"absent", "live", "freed"}]
    /\ cli_fd \in [Conns -> Fds \cup {None}]
    /\ socket \in [Fds -> Conns \cup {None}]

StreamsType ==
    /\ got \in [Conns -> Seq(Pieces)] /\ inbox \in [Conns -> Seq(Pieces)]
    /\ stage \in [Conns -> {"head", "buf", "done"}]

Messages == [uuid : Conns, id : MsgIds]

ThreadsType ==
    /\ cli_fd_mutex \in Threads \cup {None}
    /\ pipe \in Seq(Messages) /\ Len(pipe) <= PipeCap
    /\ msg \in [Threads -> Messages \cup {NoMsg}]
    /\ sfd \in [Threads -> Fds \cup {None}]

Places == {"polling", "reading", "handling", "sending", "writing", "piping",
           "closing", "unmapped", "selecting", "calling"}

PlacesType ==
    /\ pc \in [Threads -> Places]
    /\ pc["rcv"] \notin {"selecting", "calling"}
    /\ pc["cb"] \in {"selecting", "calling", "sending", "writing"}
    /\ conn \in Conns \cup {None}

ClientsType ==
    /\ client \in [Conns -> {"connected", "closed"}]
    /\ outbox \in [Conns -> Seq(MsgIds)] /\ \A c \in Conns : Len(outbox[c]) <= SendCap
    /\ answered \subseteq Conns \X MsgIds

HistoryType ==
    /\ sent \in Seq(MessageTypes) /\ Len(sent) <= MaxMessages
    /\ delivered \in Seq(MsgIds) /\ faults \in 0..MaxFaults

LEMMA TypeParts ==
    TypeOK <=> /\ TablesType /\ StreamsType /\ ThreadsType
               /\ PlacesType /\ ClientsType /\ HistoryType
BY DEF TypeOK, TablesType, StreamsType, ThreadsType, PlacesType, ClientsType, HistoryType,
       Pieces, Messages, MessageTypes, Places

LEMMA TypePartsNext ==
    ASSUME TablesType', StreamsType', ThreadsType', PlacesType', ClientsType', HistoryType'
    PROVE  TypeOK'
BY DEF TypeOK, TablesType, StreamsType, ThreadsType, PlacesType, ClientsType, HistoryType,
       Pieces, Messages, MessageTypes, Places

\* A step is one of these.
LEMMA StepCases ==
    ASSUME Next
    PROVE  \/ \E c \in Conns : Send(c) \/ ReadReply(c) \/ Close(c)
           \/ \E c \in Conns : Accept(c) \/ AcceptRefused(c) \/ AcceptUnmapped(c) \/ AcceptUnlisted(c)
           \/ \E c \in Conns : ReadHead(c) \/ ReadHeadFails(c) \/ ReadBuf(c)
           \/ \E c \in Conns : ReadNothing(c) \/ ReadEnds(c)
           \/ \E c \in Conns : CloseUnmaps(c) \/ CloseEnds(c)
           \/ \E c \in Conns : Handle(c) \/ HandleFails(c)
           \/ PipeWrite \/ PipeRead \/ Callback
           \/ \E t \in Threads : SendBegins(t) \/ SendUnknown(t) \/ SendFails(t)
                                    \/ SendWrites(t) \/ SendBroken(t)
BY DEF Next, ReceiverStep, CallbackStep, SendStep, Threads

\* Where a thread that moves is, and the other stays.
LEMMA Going ==
    ASSUME TypeOK, NEW t \in Threads, NEW place, Goes(t, place)
    PROVE  pc'[t] = place /\ \A u \in Threads \ {t} : pc'[u] = pc[u]
BY DEF TypeOK, Goes

\* The type of the places, for a thread that moves.
LEMMA GoingTyped ==
    ASSUME TypeOK, conn' \in Conns \cup {None}, NEW t \in Threads, NEW place,
           Goes(t, place), place \in Places,
           t = "rcv" => place \notin {"selecting", "calling"},
           t = "cb" => place \in {"selecting", "calling", "sending", "writing"}
    PROVE  PlacesType'
<1>1. pc' \in [Threads -> Places]
  BY DEF TypeOK, Goes, Places
<1>2. "rcv" \in Threads /\ "cb" \in Threads
  BY DEF Threads
<1> QED BY <1>1, <1>2, Going DEF PlacesType, TypeOK

\* What the sender of a reply does when it is done.
LEMMA SentMoves ==
    ASSUME TypeOK, NEW t \in Threads, Sent(t)
    PROVE  /\ \A u \in Threads \ {t} : pc'[u] = pc[u] /\ msg'[u] = msg[u]
           /\ t = "cb" => Goes(t, "selecting") /\ msg'[t] = NoMsg
           /\ t = "rcv" /\ Kind(t) = "heartbeat" => Goes(t, "polling") /\ msg'[t] = NoMsg
           /\ t = "rcv" /\ Kind(t) # "heartbeat" => Goes(t, "piping") /\ msg'[t] = msg[t]
           /\ msg' \in [Threads -> Messages \cup {NoMsg}]
<1>1. msg \in [Threads -> Messages \cup {NoMsg}]
  BY DEF TypeOK, Messages
<1>2. CASE t = "cb"
  BY <1>1, <1>2, Going DEF Sent
<1>3. CASE t = "rcv" /\ Kind(t) = "heartbeat"
  BY <1>1, <1>3, Going DEF Sent, Drops
<1>4. CASE t = "rcv" /\ Kind(t) # "heartbeat"
  BY <1>1, <1>4, Going DEF Sent
<1> QED BY <1>2, <1>3, <1>4 DEF Threads

\* The tables change when clients are accepted and closed.
LEMMA TablesTypeStep ==
    ASSUME TypeOK, Next PROVE TablesType'
<1>1. TablesType
  BY TypeParts
<1>2. ASSUME NEW c \in Conns, NEW fd \in Fds, Opens(c, fd)
      PROVE  /\ epoll' \subseteq Conns /\ cli' \in [Conns -> {"absent", "live", "freed"}]
             /\ cli_fd' \in [Conns -> Fds \cup {None}] /\ socket' \in [Fds -> Conns \cup {None}]
  BY <1>1, <1>2 DEF TablesType, Opens
<1>3. ASSUME NEW c \in Conns, NEW fd \in Fds, Maps(c, fd)
      PROVE  DOMAIN cli_fd_hash' \subseteq Conns /\ cli_fd_hash' \in [DOMAIN cli_fd_hash' -> Fds]
  BY <1>1, <1>3 DEF TablesType, Maps
<1>4. ASSUME NEW c \in Conns, Accept(c) PROVE TablesType'
  BY <1>1, <1>2, <1>3, <1>4 DEF Accept, TablesType
<1>5. ASSUME NEW c \in Conns, AcceptRefused(c) PROVE TablesType'
  BY <1>1, <1>5 DEF AcceptRefused, TablesType
<1>6. ASSUME NEW c \in Conns, AcceptUnmapped(c) PROVE TablesType'
  BY <1>1, <1>2, <1>6 DEF AcceptUnmapped, TablesType
<1>7. ASSUME NEW c \in Conns, AcceptUnlisted(c) PROVE TablesType'
  BY <1>1, <1>2, <1>3, <1>7 DEF AcceptUnlisted, TablesType
<1>8. ASSUME NEW c \in Conns, CloseUnmaps(c) PROVE TablesType'
  BY <1>1, <1>8 DEF CloseUnmaps, TablesType
<1>9. ASSUME NEW c \in Conns, CloseEnds(c) PROVE TablesType'
  BY <1>1, <1>9 DEF CloseEnds, TablesType
<1>10. UNCHANGED tables => TablesType'
  BY <1>1 DEF tables, TablesType
<1>11. \/ UNCHANGED tables
       \/ \E c \in Conns : \/ Accept(c) \/ AcceptRefused(c) \/ AcceptUnmapped(c)
                           \/ AcceptUnlisted(c) \/ CloseUnmaps(c) \/ CloseEnds(c)
  BY StepCases DEF Send, ReadReply, Close, ReadHead, ReadHeadFails, ReadBuf, Takes, ReadNothing,
     ReadEnds, Handle, HandleFails, PipeWrite, PipeRead, Callback, SendBegins, SendUnknown,
     SendFails, SendWrites, SendBroken
<1> QED BY <1>4, <1>5, <1>6, <1>7, <1>8, <1>9, <1>10, <1>11

\* Streams grow when clients send and shrink when messages are handled or lost.
LEMMA StreamsTypeStep ==
    ASSUME TypeOK, Streams, Next PROVE StreamsType'
<1>1. StreamsType /\ sent \in Seq(MessageTypes) /\ Len(sent) <= MaxMessages
  BY TypeParts DEF HistoryType
<1>2. ASSUME NEW c \in Conns, Send(c) PROVE StreamsType'
  <2>1. PICK shape \in Shapes[c] :
          /\ client[c] = "connected" /\ Len(sent) < MaxMessages
          /\ inbox' = IF cli[c] # "absent" /\ cli_fd[c] = None THEN inbox
                      ELSE [inbox EXCEPT ![c] = @ \o Frame(Len(sent) + 1, shape[2])]
    BY <1>2 DEF Send
  <2>2. shape[2] \in 0..9
    BY ServerAssumption
  <2>3. Len(sent) + 1 \in MsgIds
    BY <1>1, <2>1, ServerAssumption DEF MsgIds
  <2>4. Frame(Len(sent) + 1, shape[2]) \in Seq(Pieces)
    BY <2>2, <2>3, FrameParts
  <2>5. inbox[c] \o Frame(Len(sent) + 1, shape[2]) \in Seq(Pieces)
    BY <1>1, <2>4, Joined DEF StreamsType
  <2>6. inbox' \in [Conns -> Seq(Pieces)]
    BY <1>1, <2>1, <2>5 DEF StreamsType
  <2> QED BY <1>1, <1>2, <2>6 DEF Send, protocol, StreamsType
<1>3. ASSUME NEW c \in Conns, Close(c) PROVE StreamsType'
  <2>1. PICK n \in 0..Len(inbox[c]) : inbox' = [inbox EXCEPT ![c] = SubSeq(@, 1, n)]
    BY <1>3 DEF Close
  <2>2. SubSeq(inbox[c], 1, n) \in Seq(Pieces)
    BY <1>1, Cut DEF StreamsType
  <2>3. inbox' \in [Conns -> Seq(Pieces)]
    BY <1>1, <2>1, <2>2 DEF StreamsType
  <2> QED BY <1>1, <1>3, <2>3 DEF Close, protocol, StreamsType
<1>4. ASSUME NEW c \in Conns, ReadHead(c) \/ ReadHeadFails(c) \/ ReadBuf(c) PROVE StreamsType'
  <2>1. stage[c] # "done" /\ Takes(c)
    BY <1>4 DEF ReadHead, ReadHeadFails, ReadBuf
  <2>2. got' \in [Conns -> Seq(Pieces)] /\ inbox' \in [Conns -> Seq(Pieces)]
    BY <2>1, Taken
  <2>3. stage' \in [Conns -> {"head", "buf", "done"}]
    BY <1>1, <1>4 DEF ReadHead, ReadHeadFails, ReadBuf, StreamsType
  <2> QED BY <2>2, <2>3 DEF StreamsType
<1>5. ASSUME NEW c \in Conns, Reset(c), UNCHANGED inbox \/ inbox' = [inbox EXCEPT ![c] = <<>>]
      PROVE  StreamsType'
  <2>1. <<>> \in Seq(Pieces)
    OBVIOUS
  <2>2. got' \in [Conns -> Seq(Pieces)] /\ stage' \in [Conns -> {"head", "buf", "done"}]
    BY <1>1, <1>5, <2>1 DEF Reset, StreamsType
  <2>3. inbox' \in [Conns -> Seq(Pieces)]
    BY <1>1, <1>5, <2>1 DEF StreamsType
  <2> QED BY <2>2, <2>3 DEF StreamsType
<1>6. ASSUME NEW c \in Conns, CloseEnds(c) \/ Handle(c) \/ HandleFails(c) PROVE StreamsType'
  BY <1>5, <1>6 DEF CloseEnds, Handle, HandleFails, clients
<1>7. UNCHANGED <<protocol, inbox>> => StreamsType'
  BY <1>1 DEF protocol, StreamsType
<1>8. \/ UNCHANGED <<protocol, inbox>>
      \/ \E c \in Conns : \/ Send(c) \/ Close(c) \/ ReadHead(c) \/ ReadHeadFails(c) \/ ReadBuf(c)
                          \/ CloseEnds(c) \/ Handle(c) \/ HandleFails(c)
  BY StepCases DEF ReadReply, Accept, AcceptRefused, AcceptUnmapped, AcceptUnlisted, ReadNothing,
     ReadEnds, CloseUnmaps, PipeWrite, PipeRead, Callback, SendBegins, SendUnknown, SendFails,
     SendWrites, SendBroken, clients
<1> QED BY <1>2, <1>3, <1>4, <1>6, <1>7, <1>8

\* A message that a thread answers or hands on is there, and has been sent.
LEMMA InHands ==
    ASSUME TypeOK, Held, NEW t \in Threads,
           pc[t] \in {"sending", "writing", "calling", "piping"}
    PROVE  /\ msg[t] \in Messages /\ Genuine(msg[t]) /\ msg[t].id \in MsgIds
           /\ msg[t].uuid \in Conns /\ msg[t] # NoMsg
           /\ t = "rcv" /\ pc[t] \in {"sending", "writing"} =>
                Kind(t) \in {"heartbeat", "async"}
           /\ t = "rcv" /\ pc[t] = "piping" => Kind(t) \in {"async", "sync"}
           /\ t = "cb" /\ pc[t] = "calling" => Kind(t) \in {"async", "sync"}
           /\ t = "cb" /\ pc[t] # "calling" => Kind(t) = "sync"
<1>1. msg[t] \in Messages \cup {NoMsg}
  BY DEF TypeOK, Messages
<1>2. msg[t] # NoMsg /\ Genuine(msg[t])
  BY DEF Held, HeldByReceiver, HeldByCallback, Threads, TypeOK
<1>4. t \in {"rcv", "cb"}
  BY DEF Threads
<1>5. /\ t = "rcv" /\ pc[t] \in {"sending", "writing"} => Kind(t) \in {"heartbeat", "async"}
      /\ t = "rcv" /\ pc[t] = "piping" => Kind(t) \in {"async", "sync"}
      /\ t = "cb" /\ pc[t] = "calling" => Kind(t) \in {"async", "sync"}
      /\ t = "cb" /\ pc[t] # "calling" => Kind(t) = "sync"
  BY <1>4 DEF Held, HeldByReceiver, HeldByCallback, KindOf, Kind
<1> QED BY <1>1, <1>2, <1>5 DEF Messages

\* A reply is written to a descriptor that is open for the client.
LEMMA WritesToOwn ==
    ASSUME TypeOK, Tables, Writers, Held, NEW t \in Threads, pc[t] = "writing"
    PROVE  /\ socket[sfd[t]] = msg[t].uuid /\ msg[t].uuid \in Conns
           /\ cli_fd_mutex = t /\ sfd[t] \in Fds
           /\ msg[t].uuid \in DOMAIN cli_fd_hash /\ msg[t].uuid \in epoll
<1>1. /\ msg[t].uuid \in DOMAIN cli_fd_hash
      /\ sfd[t] = cli_fd_hash[msg[t].uuid] /\ cli_fd_mutex = t
  BY DEF Writers
<1>2. msg[t].uuid \in epoll
  BY <1>1 DEF Tables
<1>3. sfd[t] = cli_fd[msg[t].uuid] /\ socket[sfd[t]] = msg[t].uuid /\ sfd[t] \in Fds
  BY <1>1, <1>2 DEF Tables
<1> QED BY <1>1, <1>2, <1>3, InHands

\* The mutex, the pipe and the messages of the threads.
LEMMA ThreadsTypeStep ==
    ASSUME TypeOK, Tables, Writers, Held, Streams, Next PROVE ThreadsType'
<1>1. ThreadsType /\ TablesType
  BY TypeParts
<1>2. NoMsg \in Messages \cup {NoMsg} /\ None \in Fds \cup {None} /\ None \in Threads \cup {None}
      /\ "rcv" \in Threads /\ "cb" \in Threads
  BY DEF Threads
<1>3. Drops => msg' \in [Threads -> Messages \cup {NoMsg}]
  BY <1>1, <1>2 DEF Drops, ThreadsType
<1>4. ASSUME NEW c \in Conns, Handle(c) PROVE ThreadsType'
  <2>1. c = conn /\ pc["rcv"] = "handling" /\ stage[c] = "done"
    BY <1>4 DEF Handle
  <2>2. Len(got[c]) > 0
    BY <2>1 DEF Streams, WholeStream, Attending, Collected
  <2>3. got[c][1][1] \in MsgIds
    BY <2>2, FirstCollected, FirstMessage
  <2>4. [uuid |-> c, id |-> got[c][1][1]] \in Messages
    BY <2>3 DEF Messages
  <2>5. msg' = [msg EXCEPT !["rcv"] = [uuid |-> c, id |-> got[c][1][1]]] \/ Drops
    BY <1>4 DEF Handle
  <2>6. msg' \in [Threads -> Messages \cup {NoMsg}]
    BY <1>1, <1>3, <2>4, <2>5 DEF ThreadsType
  <2> QED BY <1>1, <1>4, <2>6 DEF Handle, ThreadsType
<1>5. ASSUME NEW c \in Conns, HandleFails(c) PROVE ThreadsType'
  BY <1>1, <1>3, <1>5 DEF HandleFails, ThreadsType
<1>6. ASSUME PipeWrite PROVE ThreadsType'
  <2>1. msg["rcv"] \in Messages
    BY <1>2, <1>6, InHands DEF PipeWrite
  <2>2. pipe' \in Seq(Messages) /\ Len(pipe') <= PipeCap
    <3>1. pipe' = Append(pipe, msg["rcv"]) /\ Len(pipe) < PipeCap
      BY <1>6 DEF PipeWrite
    <3> QED BY <1>1, <2>1, <3>1, ServerAssumption DEF ThreadsType
  <2> QED BY <1>1, <1>3, <1>6, <2>2 DEF PipeWrite, ThreadsType
<1>7. ASSUME PipeRead PROVE ThreadsType'
  <2>1. /\ msg' = [msg EXCEPT !["cb"] = Head(pipe)] /\ pipe' = Tail(pipe) /\ pipe # <<>>
        /\ UNCHANGED <<cli_fd_mutex, sfd>>
    BY <1>7 DEF PipeRead
  <2>2. Head(pipe) \in Messages /\ pipe' \in Seq(Messages) /\ Len(pipe') <= PipeCap
    BY <1>1, <2>1, ServerAssumption DEF ThreadsType
  <2>3. msg' \in [Threads -> Messages \cup {NoMsg}]
    BY <1>1, <2>1, <2>2 DEF ThreadsType
  <2> QED BY <1>1, <2>1, <2>2, <2>3 DEF ThreadsType
<1>8. ASSUME Callback PROVE ThreadsType'
  <2>1. msg' \in [Threads -> Messages \cup {NoMsg}]
    BY <1>1, <1>2, <1>8, SentMoves DEF Callback, ThreadsType
  <2> QED BY <1>1, <1>8, <2>1 DEF Callback, ThreadsType
<1>9. ASSUME NEW t \in Threads, SendBegins(t) PROVE ThreadsType'
  <2>1. cli_fd_hash[msg[t].uuid] \in Fds
    BY <1>1, <1>9 DEF SendBegins, TablesType
  <2> QED BY <1>1, <1>9, <2>1 DEF SendBegins, ThreadsType
<1>10. ASSUME NEW t \in Threads, SendUnknown(t) \/ SendFails(t) PROVE ThreadsType'
  BY <1>1, <1>10, SentMoves DEF SendUnknown, SendFails, ThreadsType
<1>11. ASSUME NEW t \in Threads, SendWrites(t) \/ SendBroken(t) PROVE ThreadsType'
  BY <1>1, <1>2, <1>11, SentMoves DEF SendWrites, SendBroken, Released, ThreadsType
<1>12. UNCHANGED <<cli_fd_mutex, pipe, msg, sfd>> => ThreadsType'
  BY <1>1 DEF ThreadsType
<1>13. \/ UNCHANGED <<cli_fd_mutex, pipe, msg, sfd>>
       \/ \E c \in Conns : Handle(c) \/ HandleFails(c)
       \/ PipeWrite \/ PipeRead \/ Callback
       \/ \E t \in Threads : \/ SendBegins(t) \/ SendUnknown(t) \/ SendFails(t)
                             \/ SendWrites(t) \/ SendBroken(t)
  BY StepCases DEF Send, ReadReply, Close, Accept, AcceptRefused, AcceptUnmapped, AcceptUnlisted,
     ReadHead, ReadHeadFails, ReadBuf, Takes, ReadNothing, ReadEnds, CloseUnmaps, CloseEnds
<1> QED BY <1>4, <1>5, <1>6, <1>7, <1>8, <1>9, <1>10, <1>11, <1>12, <1>13

\* What comes of reading: there is never more than was asked for.
LEMMA TakenSize ==
    ASSUME TypeOK, Streams, NEW c \in Conns, stage[c] # "done", Takes(c)
    PROVE  /\ Len(got'[c]) \in Nat /\ Len(got'[c]) > 0 /\ Ttl(c) \in 0..9
           /\ Size(c) = FrameLen(sent, Id(got'[c], 1))
           /\ Size(c) \in Nat /\ Size(c) = HeadLen + Ttl(c) /\ HeadLen \in Nat
           /\ stage[c] = "head" => Len(got'[c]) <= HeadLen
           /\ stage[c] = "buf" => HeadLen <= Len(got'[c]) /\ Len(got'[c]) <= Size(c)
<1>1. /\ got' \in [Conns -> Seq(Pieces)] /\ Len(Stream(c)) > 0 /\ got'[c] # <<>>
      /\ Len(got'[c]) > Len(got[c])
      /\ got'[c][1][1] = Id(Stream(c), 1) /\ Id(got'[c], 1) = Id(Stream(c), 1)
      /\ stage[c] = "head" => Len(got'[c]) <= HeadLen
      /\ stage[c] = "buf" => Len(got'[c]) <= FrameLen(sent, Id(Stream(c), 1))
  BY Taken
<1>2. /\ sent[Id(Stream(c), 1)] \in MessageTypes
      /\ FrameLen(sent, Id(Stream(c), 1)) \in Nat
      /\ FrameLen(sent, Id(Stream(c), 1)) = HeadLen + sent[Id(Stream(c), 1)].ttl
  BY <1>1, FirstMessage
<1>3. Ttl(c) = sent[Id(Stream(c), 1)].ttl /\ Ttl(c) \in 0..9
  BY <1>1, <1>2 DEF Ttl, MessageTypes
<1>4. Size(c) = FrameLen(sent, Id(Stream(c), 1)) /\ Size(c) = HeadLen + Ttl(c)
  BY <1>2, <1>3 DEF Size
<1>5. HeadLen \in Nat /\ Len(got'[c]) \in Nat /\ Len(got'[c]) > 0
  BY <1>1, ServerAssumption
<1>6. stage[c] = "buf" => HeadLen <= Len(got'[c])
  <2>1. got \in [Conns -> Seq(Pieces)]
    BY StateTypes
  <2>2. stage[c] = "buf" => HeadLen <= Len(got[c])
    BY DEF Streams, WholeStream, Attending, Collected
  <2> QED BY <1>1, <1>5, <2>1, <2>2
<1> QED BY <1>1, <1>2, <1>3, <1>4, <1>5, <1>6

\* So reading the header has one of these outcomes,
LEMMA HeadOutcome ==
    ASSUME TypeOK, Streams, NEW c \in Conns, ReadHead(c)
    PROVE  \/ Len(got'[c]) < HeadLen /\ Goes("rcv", "polling") /\ stage'[c] = "head"
           \/ /\ Len(got'[c]) = HeadLen /\ Ttl(c) = 0
              /\ Goes("rcv", "handling") /\ stage'[c] = "done"
           \/ /\ Len(got'[c]) = HeadLen /\ Ttl(c) > 0
              /\ Goes("rcv", "reading") /\ stage'[c] = "buf"
<1>1. stage[c] = "head" /\ Takes(c)
  BY DEF ReadHead
<1>2. Len(got'[c]) \in Nat /\ HeadLen \in Nat /\ Len(got'[c]) <= HeadLen /\ Ttl(c) \in 0..9
  BY <1>1, TakenSize
<1>3. stage \in [Conns -> {"head", "buf", "done"}]
  BY DEF TypeOK
<1>4. CASE Len(got'[c]) < HeadLen
  BY <1>2, <1>3, <1>4 DEF ReadHead
<1>5. CASE Len(got'[c]) = HeadLen /\ Ttl(c) = 0
  BY <1>2, <1>3, <1>5 DEF ReadHead
<1>6. CASE Len(got'[c]) = HeadLen /\ Ttl(c) > 0
  BY <1>2, <1>3, <1>6 DEF ReadHead
<1> QED BY <1>2, <1>4, <1>5, <1>6

\* and reading the payload one of these.
LEMMA BufOutcome ==
    ASSUME TypeOK, Streams, NEW c \in Conns, ReadBuf(c)
    PROVE  \/ Len(got'[c]) < Size(c) /\ Goes("rcv", "polling") /\ stage'[c] = "buf"
           \/ Len(got'[c]) = Size(c) /\ Goes("rcv", "handling") /\ stage'[c] = "done"
<1>1. stage[c] = "buf" /\ Takes(c)
  BY DEF ReadBuf
<1>2. Len(got'[c]) \in Nat /\ Size(c) \in Nat /\ Len(got'[c]) <= Size(c)
  BY <1>1, TakenSize
<1>3. stage \in [Conns -> {"head", "buf", "done"}]
  BY DEF TypeOK
<1>4. CASE Len(got'[c]) < Size(c)
  BY <1>2, <1>3, <1>4 DEF ReadBuf
<1>5. CASE Len(got'[c]) = Size(c)
  BY <1>2, <1>3, <1>5 DEF ReadBuf
<1> QED BY <1>2, <1>4, <1>5

\* Where the threads are.
LEMMA PlacesTypeStep ==
    ASSUME TypeOK, Streams, Next PROVE PlacesType'
<1>1. PlacesType /\ "rcv" \in Threads /\ "cb" \in Threads
  BY TypeParts DEF Threads
<1>2. conn \in Conns \cup {None} /\ None \in Conns \cup {None}
  BY <1>1 DEF PlacesType
<1>3. ASSUME NEW c \in Conns, ReadHead(c) PROVE PlacesType'
  <2>1. conn' \in Conns \cup {None}
    BY <1>3 DEF ReadHead, Takes
  <2>2. \E place \in {"polling", "reading", "handling", "closing"} : Goes("rcv", place)
    BY <1>3, HeadOutcome
  <2> QED BY <1>1, <2>1, <2>2, GoingTyped DEF Places
<1>4. ASSUME NEW c \in Conns, ReadHeadFails(c) PROVE PlacesType'
  <2>1. conn' \in Conns \cup {None} /\ Goes("rcv", "closing")
    BY <1>4 DEF ReadHeadFails, Takes
  <2> QED BY <1>1, <2>1, GoingTyped DEF Places
<1>5. ASSUME NEW c \in Conns, ReadBuf(c) PROVE PlacesType'
  <2>1. conn' \in Conns \cup {None}
    BY <1>5 DEF ReadBuf, Takes
  <2>2. \E place \in {"polling", "handling", "closing"} : Goes("rcv", place)
    BY <1>5, BufOutcome
  <2> QED BY <1>1, <2>1, <2>2, GoingTyped DEF Places
<1>6. ASSUME NEW c \in Conns, ReadNothing(c) \/ ReadEnds(c) PROVE PlacesType'
  <2>1. conn' \in Conns \cup {None} /\ (Goes("rcv", "polling") \/ Goes("rcv", "closing"))
    BY <1>2, <1>6 DEF ReadNothing, ReadEnds
  <2> QED BY <1>1, <2>1, GoingTyped DEF Places
<1>7. ASSUME NEW c \in Conns, CloseUnmaps(c) \/ CloseEnds(c) PROVE PlacesType'
  <2>1. conn' \in Conns \cup {None} /\ (Goes("rcv", "polling") \/ Goes("rcv", "unmapped"))
    BY <1>2, <1>7 DEF CloseUnmaps, CloseEnds
  <2> QED BY <1>1, <2>1, GoingTyped DEF Places
<1>8. ASSUME NEW c \in Conns, Handle(c) PROVE PlacesType'
  <2>1. conn' \in Conns \cup {None}
    BY <1>2, <1>8 DEF Handle
  <2>2. \E place \in {"polling", "piping", "sending"} : Goes("rcv", place)
    BY <1>8 DEF Handle, Drops, Goes
  <2> QED BY <1>1, <2>1, <2>2, GoingTyped DEF Places
<1>9. ASSUME PipeWrite \/ \E c \in Conns : HandleFails(c) PROVE PlacesType'
  <2>1. conn' \in Conns \cup {None} /\ Goes("rcv", "polling")
    BY <1>2, <1>9 DEF HandleFails, PipeWrite, Drops
  <2> QED BY <1>1, <2>1, GoingTyped DEF Places
<1>10. ASSUME NEW t \in Threads, Sent(t), UNCHANGED conn PROVE PlacesType'
  <2>1. t \in {"rcv", "cb"}
    BY DEF Threads
  <2>2. \/ t = "cb" /\ Goes(t, "selecting")
        \/ t = "rcv" /\ (Goes(t, "polling") \/ Goes(t, "piping"))
    BY <1>10, <2>1, SentMoves
  <2> QED BY <1>2, <1>10, <2>2, GoingTyped DEF Places
<1>11. ASSUME PipeRead \/ Callback PROVE PlacesType'
  <2>1. conn' \in Conns \cup {None}
    BY <1>2, <1>11 DEF PipeRead, Callback
  <2>2. Goes("cb", "calling") \/ Goes("cb", "sending") \/ Sent("cb")
    BY <1>11 DEF PipeRead, Callback
  <2>3. UNCHANGED conn
    BY <1>11 DEF PipeRead, Callback
  <2> QED BY <1>1, <1>10, <2>1, <2>2, <2>3, GoingTyped DEF Places
<1>12. ASSUME NEW t \in Threads, \/ SendBegins(t) \/ SendUnknown(t) \/ SendFails(t)
                                 \/ SendWrites(t) \/ SendBroken(t)
       PROVE  PlacesType'
  <2>1. UNCHANGED conn
    BY <1>12 DEF SendBegins, SendUnknown, SendFails, SendWrites, SendBroken
  <2>2. Goes(t, "writing") \/ Sent(t)
    BY <1>12 DEF SendBegins, SendUnknown, SendFails, SendWrites, SendBroken
  <2>3. CASE Goes(t, "writing")
    BY <1>2, <2>1, <2>3, GoingTyped DEF Places
  <2> QED BY <1>10, <2>1, <2>2, <2>3
<1>13. UNCHANGED <<pc, conn>> => PlacesType'
  BY <1>1 DEF PlacesType
<1>14. \/ UNCHANGED <<pc, conn>>
       \/ \E c \in Conns : \/ ReadHead(c) \/ ReadHeadFails(c) \/ ReadBuf(c) \/ ReadNothing(c)
                           \/ ReadEnds(c) \/ CloseUnmaps(c) \/ CloseEnds(c) \/ Handle(c)
                           \/ HandleFails(c)
       \/ PipeWrite \/ PipeRead \/ Callback
       \/ \E t \in Threads : \/ SendBegins(t) \/ SendUnknown(t) \/ SendFails(t)
                             \/ SendWrites(t) \/ SendBroken(t)
  BY StepCases DEF Send, ReadReply, Close, Accept, AcceptRefused, AcceptUnmapped, AcceptUnlisted
<1> QED BY <1>3, <1>4, <1>5, <1>6, <1>7, <1>8, <1>9, <1>11, <1>12, <1>13, <1>14

\* The clients read and leave, and replies are written to the client that asked.
LEMMA ClientsTypeStep ==
    ASSUME TypeOK, Tables, Writers, Held, Next PROVE ClientsType'
<1>1. ClientsType
  BY TypeParts
<1>2. ASSUME NEW c \in Conns, ReadReply(c) PROVE ClientsType'
  <2>1. outbox[c] \in Seq(MsgIds) /\ Len(outbox[c]) <= SendCap /\ outbox[c] # <<>>
    BY <1>1, <1>2 DEF ReadReply, ClientsType
  <2>2. /\ Tail(outbox[c]) \in Seq(MsgIds) /\ Len(Tail(outbox[c])) <= SendCap
        /\ Head(outbox[c]) \in MsgIds
    BY <2>1, ServerAssumption
  <2>3. /\ outbox' = [outbox EXCEPT ![c] = Tail(outbox[c])] /\ UNCHANGED client
        /\ answered' = answered \cup {<<c, Head(outbox[c])>>}
    BY <1>2 DEF ReadReply
  <2> QED BY <1>1, <2>2, <2>3 DEF ClientsType
<1>3. ASSUME NEW c \in Conns, Close(c) PROVE ClientsType'
  <2>1. outbox' = [outbox EXCEPT ![c] = <<>>]
    BY <1>3 DEF Close
  <2>2. <<>> \in Seq(MsgIds) /\ Len(<<>>) = 0 /\ 0 <= SendCap
    BY ServerAssumption
  <2>3. outbox' \in [Conns -> Seq(MsgIds)]
    BY <1>1, <2>1, <2>2 DEF ClientsType
  <2>4. \A d \in Conns : outbox'[d] = IF d = c THEN <<>> ELSE outbox[d]
    BY <1>1, <2>1 DEF ClientsType
  <2>5. \A d \in Conns : Len(outbox'[d]) <= SendCap
    BY <1>1, <2>2, <2>4 DEF ClientsType
  <2> QED BY <1>1, <1>3, <2>3, <2>5 DEF Close, ClientsType
<1>4. ASSUME NEW t \in Threads, SendWrites(t) PROVE ClientsType'
  <2>1. PICK c \in Conns : c = socket[sfd[t]]
    BY <1>4, WritesToOwn DEF SendWrites
  <2>2. msg[t].id \in MsgIds
    BY <1>4, InHands DEF SendWrites
  <2>3. PICK m \in MsgIds : m = msg[t].id
    BY <2>2
  <2>4. /\ outbox' = [outbox EXCEPT ![c] = Append(outbox[c], m)] /\ Len(outbox[c]) < SendCap
        /\ UNCHANGED <<client, answered>>
    BY <1>4, <2>1, <2>3 DEF SendWrites
  <2>5. outbox[c] \in Seq(MsgIds)
    BY <1>1 DEF ClientsType
  <2>6. Append(outbox[c], m) \in Seq(MsgIds) /\ Len(Append(outbox[c], m)) <= SendCap
    BY <2>4, <2>5, ServerAssumption
  <2> QED BY <1>1, <2>4, <2>6 DEF ClientsType
<1>5. UNCHANGED <<client, outbox, answered>> => ClientsType'
  BY <1>1 DEF ClientsType
<1>6. \/ UNCHANGED <<client, outbox, answered>>
      \/ \E c \in Conns : ReadReply(c) \/ Close(c)
      \/ \E t \in Threads : SendWrites(t)
  BY StepCases DEF Send, Accept, AcceptRefused, AcceptUnmapped, AcceptUnlisted, ReadHead,
     ReadHeadFails, ReadBuf, Takes, ReadNothing, ReadEnds, CloseUnmaps, CloseEnds, Handle,
     HandleFails, PipeWrite, PipeRead, Callback, SendBegins, SendUnknown, SendFails, SendBroken,
     clients
<1> QED BY <1>2, <1>3, <1>4, <1>5, <1>6

\* Messages are sent, and some handed to the callback.
LEMMA HistoryTypeStep ==
    ASSUME TypeOK, Held, Next PROVE HistoryType'
<1>1. HistoryType
  BY TypeParts
<1>2. Fails => faults' \in 0..MaxFaults
  BY <1>1, ServerAssumption DEF HistoryType, Fails
<1>3. ASSUME NEW c \in Conns, Send(c) PROVE HistoryType'
  <2>1. PICK shape \in Shapes[c] :
          /\ Len(sent) < MaxMessages
          /\ sent' = Append(sent, [conn |-> c, kind |-> shape[1], ttl |-> shape[2]])
    BY <1>3 DEF Send
  <2>2. [conn |-> c, kind |-> shape[1], ttl |-> shape[2]] \in MessageTypes
    BY ServerAssumption DEF MessageTypes, Requests
  <2>3. PICK m \in MessageTypes : m = [conn |-> c, kind |-> shape[1], ttl |-> shape[2]]
    BY <2>2
  <2>4. sent' = Append(sent, m)
    BY <2>1, <2>3
  <2>5. sent' \in Seq(MessageTypes) /\ Len(sent') <= MaxMessages
    BY <1>1, <2>1, <2>4, ServerAssumption DEF HistoryType
  <2> QED BY <1>1, <1>3, <2>5 DEF Send, HistoryType
<1>4. ASSUME Callback PROVE HistoryType'
  <2>1. "cb" \in Threads /\ pc["cb"] = "calling" /\ delivered' = Append(delivered, msg["cb"].id)
    BY <1>4 DEF Callback, Threads
  <2>2. msg["cb"].id \in MsgIds
    BY <2>1, InHands
  <2>3. delivered' \in Seq(MsgIds)
    BY <1>1, <2>1, <2>2 DEF HistoryType
  <2> QED BY <1>1, <1>4, <2>3 DEF Callback, HistoryType
<1>5. UNCHANGED <<sent, delivered>> /\ (UNCHANGED faults \/ Fails) => HistoryType'
  BY <1>1, <1>2 DEF HistoryType
<1>6. \/ UNCHANGED <<sent, delivered>> /\ (UNCHANGED faults \/ Fails)
      \/ Callback \/ \E c \in Conns : Send(c)
  BY StepCases DEF ReadReply, Close, Accept, AcceptRefused, AcceptUnmapped, AcceptUnlisted,
     ReadHead, ReadHeadFails, ReadBuf, Takes, ReadNothing, ReadEnds, CloseUnmaps, CloseEnds,
     Handle, HandleFails, PipeWrite, PipeRead, SendBegins, SendUnknown, SendFails, SendWrites,
     SendBroken, history
<1> QED BY <1>3, <1>4, <1>5, <1>6

LEMMA TypeStep ==
    ASSUME TypeOK, Tables, Writers, Held, Streams, Next PROVE TypeOK'
BY TablesTypeStep, StreamsTypeStep, ThreadsTypeStep, PlacesTypeStep, ClientsTypeStep,
   HistoryTypeStep, TypePartsNext

-----------------------------------------------------------------------------
\* The receiving thread, in the steps that leave the tables alone.
LEMMA ReceiverMoves ==
    ASSUME TypeOK, Tables, Streams, Next, UNCHANGED tables
    PROVE  \/ pc'["rcv"] = pc["rcv"] /\ conn' = conn
           \/ pc'["rcv"] \in {"polling", "sending", "writing", "piping"}
           \/ pc'["rcv"] \in {"reading", "handling", "closing"} /\ conn' \in epoll
           \/ \E c \in Conns : AcceptRefused(c) \/ CloseUnmaps(c)
<1>1. "rcv" \in Threads /\ "cb" \in Threads /\ "cb" # "rcv" /\ pc \in [Threads -> Places]
  BY TypeParts DEF PlacesType, Threads
<1>2. \A place : Goes("rcv", place) => pc'["rcv"] = place
  BY <1>1, Going
<1>3. ASSUME NEW c \in Conns, Attends(c) PROVE c \in epoll
  BY <1>3 DEF Attends, Tables
<1>4. ASSUME NEW c \in Conns, ReadHead(c)
      PROVE  conn' \in epoll /\ pc'["rcv"] \in {"polling", "reading", "handling"}
  BY <1>2, <1>3, <1>4, HeadOutcome DEF ReadHead, Takes
<1>5. ASSUME NEW c \in Conns, ReadBuf(c)
      PROVE  conn' \in epoll /\ pc'["rcv"] \in {"polling", "handling"}
  BY <1>2, <1>3, <1>5, BufOutcome DEF ReadBuf, Takes
<1>6. ASSUME NEW c \in Conns, ReadHeadFails(c)
      PROVE  conn' \in epoll /\ pc'["rcv"] = "closing"
  BY <1>2, <1>3, <1>6 DEF ReadHeadFails, Takes
<1>7. ASSUME NEW c \in Conns, ReadEnds(c)
      PROVE  conn' \in epoll /\ pc'["rcv"] = "closing"
  BY <1>2, <1>3, <1>7 DEF ReadEnds
<1>8. ASSUME NEW c \in Conns, ReadNothing(c) \/ HandleFails(c) \/ PipeWrite
      PROVE  pc'["rcv"] = "polling"
  BY <1>2, <1>8 DEF ReadNothing, HandleFails, PipeWrite, Drops
<1>9. ASSUME PipeWrite PROVE pc'["rcv"] = "polling"
  BY <1>2, <1>9 DEF PipeWrite, Drops
<1>10. ASSUME NEW c \in Conns, Handle(c) PROVE pc'["rcv"] \in {"polling", "sending", "piping"}
  BY <1>2, <1>10 DEF Handle, Drops
<1>11. ASSUME NEW t \in Threads, Sent(t) \/ Goes(t, "writing"), UNCHANGED conn
       PROVE  \/ pc'["rcv"] = pc["rcv"] /\ conn' = conn
              \/ pc'["rcv"] \in {"polling", "writing", "piping"}
  <2>1. t \in {"rcv", "cb"}
    BY DEF Threads
  <2>2. CASE t = "cb"
    BY <1>1, <1>11, <2>2, Going, SentMoves
  <2>3. CASE t = "rcv"
    BY <1>1, <1>2, <1>11, <2>3, SentMoves
  <2> QED BY <2>1, <2>2, <2>3
<1>12. ASSUME NEW t \in Threads, \/ SendBegins(t) \/ SendUnknown(t) \/ SendFails(t)
                                 \/ SendWrites(t) \/ SendBroken(t)
       PROVE  UNCHANGED conn /\ (Sent(t) \/ Goes(t, "writing"))
  BY <1>12 DEF SendBegins, SendUnknown, SendFails, SendWrites, SendBroken
<1>13. ASSUME PipeRead \/ Callback PROVE pc'["rcv"] = pc["rcv"] /\ conn' = conn
  <2>1. Goes("cb", "calling") \/ Goes("cb", "sending") \/ Sent("cb")
    BY <1>13 DEF PipeRead, Callback
  <2> QED BY <1>1, <1>13, <2>1, Going, SentMoves DEF PipeRead, Callback
<1>14. ASSUME NEW c \in Conns, Send(c) \/ ReadReply(c) \/ Close(c)
       PROVE  pc'["rcv"] = pc["rcv"] /\ conn' = conn
  BY <1>14 DEF Send, ReadReply, Close
<1>15. ASSUME NEW c \in Conns, Accept(c) \/ AcceptUnmapped(c) \/ AcceptUnlisted(c)
       PROVE  pc'["rcv"] = pc["rcv"] /\ conn' = conn
  BY <1>15 DEF Accept, AcceptUnmapped, AcceptUnlisted
<1>16. ASSUME NEW c \in Conns, CloseEnds(c) PROVE pc'["rcv"] = "polling"
  BY <1>2, <1>16 DEF CloseEnds
<1> QED BY <1>4, <1>5, <1>6, <1>7, <1>8, <1>9, <1>10, <1>11, <1>12, <1>13, <1>14, <1>15, <1>16,
           StepCases

\* A client that is accepted gets a descriptor no other has.
LEMMA OpensNew ==
    ASSUME TypeOK, Tables, NEW c \in Conns, NEW fd \in Fds, Accepts(c), Opens(c, fd)
    PROVE  /\ \A d \in epoll' : cli'[d] = "live" /\ cli_fd'[d] \in Fds /\ socket'[cli_fd'[d]] = d
           /\ epoll' = epoll \cup {c} /\ c \notin epoll /\ cli_fd'[c] = fd
           /\ \A d \in epoll : cli_fd'[d] = cli_fd[d]
<1>1. TablesType
  BY TypeParts
<1>2. c \notin epoll
  BY DEF Tables, Accepts
<1>3. \A d \in epoll : cli_fd[d] # fd
  <2>1. \A d \in epoll : d # None
    BY <1>1, ServerAssumption DEF TablesType
  <2> QED BY <2>1 DEF Tables, Opens
<1>4. \A d \in epoll : cli'[d] = cli[d] /\ cli_fd'[d] = cli_fd[d]
  BY <1>1, <1>2 DEF Opens, TablesType
<1>5. \A d \in epoll : socket'[cli_fd[d]] = d
  BY <1>1, <1>3 DEF Tables, Opens, TablesType
<1>6. cli'[c] = "live" /\ cli_fd'[c] = fd /\ socket'[fd] = c
  BY <1>1 DEF Opens, TablesType
<1>7. epoll' = epoll \cup {c}
  BY DEF Opens
<1> QED BY <1>2, <1>4, <1>5, <1>6, <1>7 DEF Tables

\* The tables keep leading to the client's own descriptor.
LEMMA TablesStep ==
    ASSUME TypeOK, Tables, Streams, Next PROVE Tables'
<1>1. TablesType /\ pc \in [Threads -> Places] /\ "rcv" \in Threads
  BY TypeParts DEF PlacesType, Threads
<1>2. ASSUME NEW c \in Conns, Accept(c) PROVE Tables'
  <2>1. PICK fd \in Fds : Opens(c, fd) /\ Maps(c, fd)
    BY <1>2 DEF Accept
  <2>2. Accepts(c) /\ UNCHANGED pc /\ cli_info_hash' = cli_info_hash \cup {c}
    BY <1>2 DEF Accept
  <2>3. pc'["rcv"] = "polling"
    BY <2>2 DEF Accepts
  <2> QED BY <2>1, <2>2, <2>3, OpensNew DEF Tables, Maps
<1>3. ASSUME NEW c \in Conns, AcceptRefused(c) PROVE Tables'
  <2>1. c \notin epoll
    BY <1>3 DEF AcceptRefused, Accepts, Tables
  <2> QED BY <1>1, <1>3, <2>1 DEF AcceptRefused, Tables, TablesType
<1>4. ASSUME NEW c \in Conns, AcceptUnmapped(c) PROVE Tables'
  <2>1. PICK fd \in Fds : Opens(c, fd)
    BY <1>4 DEF AcceptUnmapped
  <2>2. Accepts(c) /\ UNCHANGED <<pc, cli_fd_hash>> /\ cli_info_hash' = cli_info_hash \cup {c}
    BY <1>4 DEF AcceptUnmapped
  <2>3. pc'["rcv"] = "polling"
    BY <2>2 DEF Accepts
  <2> QED BY <2>1, <2>2, <2>3, OpensNew DEF Tables
<1>5. ASSUME NEW c \in Conns, AcceptUnlisted(c) PROVE Tables'
  <2>1. PICK fd \in Fds : Opens(c, fd) /\ Maps(c, fd)
    BY <1>5 DEF AcceptUnlisted
  <2>2. Accepts(c) /\ UNCHANGED <<pc, cli_info_hash>>
    BY <1>5 DEF AcceptUnlisted
  <2>3. pc'["rcv"] = "polling"
    BY <2>2 DEF Accepts
  <2> QED BY <2>1, <2>2, <2>3, OpensNew DEF Tables, Maps
<1>6. ASSUME NEW c \in Conns, CloseUnmaps(c) PROVE Tables'
  <2>1. conn = c /\ conn' = c /\ pc'["rcv"] = "unmapped" /\ c \in epoll
    BY <1>1, <1>6 DEF CloseUnmaps, Tables, Goes
  <2>2. /\ cli_fd_hash' = [d \in DOMAIN cli_fd_hash \ {c} |-> cli_fd_hash[d]]
        /\ UNCHANGED <<cli_info_hash, epoll, cli, cli_fd, socket>>
    BY <1>6 DEF CloseUnmaps
  <2>3. DOMAIN cli_fd_hash' = DOMAIN cli_fd_hash \ {c}
    BY <2>2
  <2>4. \A d \in DOMAIN cli_fd_hash' : cli_fd_hash'[d] = cli_fd_hash[d] /\ d \in DOMAIN cli_fd_hash
    BY <2>2, <2>3
  <2> QED BY <2>1, <2>2, <2>3, <2>4 DEF Tables
<1>7. ASSUME NEW c \in Conns, CloseEnds(c) PROVE Tables'
  <2>1. pc["rcv"] = "unmapped" /\ c = conn /\ c \in epoll /\ c \notin DOMAIN cli_fd_hash
    BY <1>7 DEF CloseEnds, Tables
  <2>2. pc'["rcv"] = "polling"
    BY <1>1, <1>7 DEF CloseEnds, Goes
  <2>3. \A d \in epoll' : d \in epoll /\ d # c /\ cli_fd[d] # cli_fd[c]
    BY <1>7, <2>1 DEF CloseEnds, Tables
  <2>4. \A d \in epoll' : cli'[d] = cli[d] /\ cli_fd'[d] = cli_fd[d]
    BY <1>1, <1>7, <2>3 DEF CloseEnds, TablesType
  <2>5. \A d \in epoll' : socket'[cli_fd[d]] = socket[cli_fd[d]]
    BY <1>1, <1>7, <2>3 DEF CloseEnds, TablesType, Tables
  <2>6. \A d \in DOMAIN cli_fd_hash : d \in epoll' /\ cli_fd_hash[d] = cli_fd[d]
    BY <1>7, <2>1 DEF CloseEnds, Tables
  <2>7. cli_info_hash' \subseteq epoll' /\ cli_fd_hash' = cli_fd_hash
    BY <1>7 DEF CloseEnds, Tables
  <2> QED BY <2>2, <2>3, <2>4, <2>5, <2>6, <2>7 DEF Tables
<1>8. CASE UNCHANGED tables
  <2>1. CASE pc'["rcv"] = pc["rcv"] /\ conn' = conn
    BY <1>8, <2>1 DEF tables, Tables
  <2>2. CASE pc'["rcv"] \in {"polling", "sending", "writing", "piping"}
    BY <1>8, <2>2 DEF tables, Tables
  <2>3. CASE pc'["rcv"] \in {"reading", "handling", "closing"} /\ conn' \in epoll
    BY <1>8, <2>3 DEF tables, Tables
  <2> QED BY <1>3, <1>6, <1>8, <2>1, <2>2, <2>3, ReceiverMoves
<1>9. \/ UNCHANGED tables
      \/ \E c \in Conns : \/ Accept(c) \/ AcceptRefused(c) \/ AcceptUnmapped(c)
                          \/ AcceptUnlisted(c) \/ CloseUnmaps(c) \/ CloseEnds(c)
  BY StepCases DEF Send, ReadReply, Close, ReadHead, ReadHeadFails, ReadBuf, Takes, ReadNothing,
     ReadEnds, Handle, HandleFails, PipeWrite, PipeRead, Callback, SendBegins, SendUnknown,
     SendFails, SendWrites, SendBroken
<1> QED BY <1>2, <1>3, <1>4, <1>5, <1>6, <1>7, <1>8, <1>9

-----------------------------------------------------------------------------
\* The steps of a thread that neither begins nor ends to write.
LEMMA WritersElsewhere ==
    ASSUME Writers, NEW t \in Threads, pc[t] # "writing", pc'[t] # "writing",
           \A u \in Threads \ {t} : pc'[u] = pc[u] /\ msg'[u] = msg[u],
           UNCHANGED <<cli_fd_mutex, sfd, cli_fd_hash>>
    PROVE  Writers'
BY DEF Writers

\* No table changes under a thread that writes.
LEMMA WritersStep ==
    ASSUME TypeOK, Writers, Streams, Next PROVE Writers'
<1>1. /\ ThreadsType /\ "rcv" \in Threads /\ "cb" \in Threads /\ None \notin Threads
      /\ \A t \in Threads : t \in {"rcv", "cb"}
  BY TypeParts, ServerAssumption DEF Threads
<1>2. \A t \in Threads : \A place : Goes(t, place) =>
        pc'[t] = place /\ \A u \in Threads \ {t} : pc'[u] = pc[u]
  BY Going
<1>3. MutexFree => \A t \in Threads : pc[t] # "writing"
  BY <1>1 DEF Writers, MutexFree
<1>4. ASSUME MutexFree, UNCHANGED <<pc, cli_fd_mutex>> PROVE Writers'
  BY <1>1, <1>3, <1>4 DEF Writers, MutexFree
<1>5. ASSUME NEW c \in Conns, \/ Accept(c) \/ AcceptRefused(c) \/ AcceptUnmapped(c)
                              \/ AcceptUnlisted(c)
      PROVE  Writers'
  BY <1>4, <1>5 DEF Accept, AcceptRefused, AcceptUnmapped, AcceptUnlisted, Accepts
<1>6. ASSUME NEW c \in Conns, CloseUnmaps(c) PROVE Writers'
  <2>1. MutexFree /\ Goes("rcv", "unmapped") /\ UNCHANGED cli_fd_mutex
    BY <1>6 DEF CloseUnmaps
  <2>2. \A t \in Threads : pc'[t] # "writing"
    BY <1>1, <1>2, <1>3, <2>1
  <2> QED BY <1>1, <2>1, <2>2 DEF Writers, MutexFree
<1>7. ASSUME NEW t \in Threads, NEW place, Goes(t, place), place # "writing", pc[t] # "writing",
             UNCHANGED msg \/ \E m : msg' = [msg EXCEPT ![t] = m],
             UNCHANGED <<cli_fd_mutex, sfd, cli_fd_hash>>
      PROVE  Writers'
  <2>1. \A u \in Threads \ {t} : msg'[u] = msg[u]
    BY <1>1, <1>7 DEF ThreadsType
  <2> QED BY <1>2, <1>7, <2>1, WritersElsewhere
<1>8. ASSUME NEW c \in Conns, ReadHead(c) PROVE Writers'
  <2>1. \E place \in {"polling", "reading", "handling"} : Goes("rcv", place)
    BY <1>8, HeadOutcome
  <2>2. UNCHANGED <<cli_fd_mutex, sfd, cli_fd_hash, msg>> /\ pc["rcv"] # "writing"
    BY <1>8 DEF ReadHead, Takes, tables, Attends
  <2> QED BY <1>1, <1>7, <2>1, <2>2
<1>9. ASSUME NEW c \in Conns, ReadBuf(c) PROVE Writers'
  <2>1. \E place \in {"polling", "handling"} : Goes("rcv", place)
    BY <1>9, BufOutcome
  <2>2. UNCHANGED <<cli_fd_mutex, sfd, cli_fd_hash, msg>> /\ pc["rcv"] # "writing"
    BY <1>9 DEF ReadBuf, Takes, tables, Attends
  <2> QED BY <1>1, <1>7, <2>1, <2>2
<1>10. ASSUME NEW c \in Conns, \/ ReadHeadFails(c) \/ ReadNothing(c) \/ ReadEnds(c)
                               \/ CloseEnds(c)
       PROVE  Writers'
  <2>1. \E place \in {"polling", "closing"} : Goes("rcv", place)
    BY <1>10 DEF ReadHeadFails, ReadNothing, ReadEnds, CloseEnds
  <2>2. UNCHANGED <<cli_fd_mutex, sfd, cli_fd_hash, msg>> /\ pc["rcv"] # "writing"
    BY <1>10 DEF ReadHeadFails, ReadNothing, ReadEnds, CloseEnds, Takes, tables, Attends
  <2> QED BY <1>1, <1>7, <2>1, <2>2
<1>11. ASSUME NEW c \in Conns, Handle(c) PROVE Writers'
  <2>1. \E place \in {"polling", "piping", "sending"} : Goes("rcv", place)
    BY <1>11 DEF Handle, Drops
  <2>2. /\ UNCHANGED <<cli_fd_mutex, sfd, cli_fd_hash>> /\ pc["rcv"] # "writing"
        /\ \E m : msg' = [msg EXCEPT !["rcv"] = m]
    BY <1>11 DEF Handle, Drops, tables
  <2> QED BY <1>1, <1>7, <2>1, <2>2
<1>12. ASSUME PipeWrite \/ \E c \in Conns : HandleFails(c) PROVE Writers'
  <2>1. /\ Goes("rcv", "polling")
        /\ UNCHANGED <<cli_fd_mutex, sfd, cli_fd_hash>> /\ pc["rcv"] # "writing"
        /\ \E m : msg' = [msg EXCEPT !["rcv"] = m]
    BY <1>12 DEF PipeWrite, HandleFails, Drops, tables
  <2> QED BY <1>1, <1>7, <2>1
<1>13. ASSUME PipeRead PROVE Writers'
  <2>1. /\ Goes("cb", "calling")
        /\ UNCHANGED <<cli_fd_mutex, sfd, cli_fd_hash>> /\ pc["cb"] # "writing"
        /\ \E m : msg' = [msg EXCEPT !["cb"] = m]
    BY <1>13 DEF PipeRead, tables
  <2> QED BY <1>1, <1>7, <2>1
<1>14. ASSUME NEW t \in Threads, Sent(t)
       PROVE  /\ pc'[t] # "writing"
              /\ \A u \in Threads \ {t} : pc'[u] = pc[u] /\ msg'[u] = msg[u]
  BY <1>1, <1>2, <1>14, SentMoves
<1>15. ASSUME Callback PROVE Writers'
  <2>1. UNCHANGED <<cli_fd_mutex, sfd, cli_fd_hash>> /\ pc["cb"] # "writing"
    BY <1>15 DEF Callback, tables
  <2>2. CASE Sent("cb")
    BY <1>1, <1>14, <2>1, <2>2, WritersElsewhere
  <2>3. CASE Goes("cb", "sending") /\ UNCHANGED msg
    BY <1>1, <1>7, <2>1, <2>3
  <2> QED BY <1>15, <2>2, <2>3 DEF Callback
<1>16. ASSUME NEW t \in Threads, SendUnknown(t) \/ SendFails(t) PROVE Writers'
  <2>1. Sent(t) /\ UNCHANGED <<cli_fd_mutex, sfd, cli_fd_hash>> /\ pc[t] # "writing"
    BY <1>16 DEF SendUnknown, SendFails, tables
  <2> QED BY <1>14, <2>1, WritersElsewhere
<1>17. ASSUME NEW t \in Threads, SendBegins(t) PROVE Writers'
  <2>1. /\ MutexFree /\ cli_fd_mutex' = t /\ msg[t].uuid \in DOMAIN cli_fd_hash
        /\ sfd' = [sfd EXCEPT ![t] = cli_fd_hash[msg[t].uuid]] /\ Goes(t, "writing")
        /\ UNCHANGED <<cli_fd_hash, msg>>
    BY <1>17 DEF SendBegins, tables
  <2>2. \A u \in Threads \ {t} : pc'[u] # "writing"
    BY <1>2, <1>3, <2>1
  <2>3. pc'[t] = "writing" /\ sfd'[t] = cli_fd_hash[msg[t].uuid]
    BY <1>1, <1>2, <2>1 DEF ThreadsType
  <2> QED BY <2>1, <2>2, <2>3 DEF Writers
<1>18. ASSUME NEW t \in Threads, SendWrites(t) \/ SendBroken(t) PROVE Writers'
  <2>1. Sent(t) /\ cli_fd_mutex' = None /\ pc[t] = "writing"
    BY <1>18 DEF SendWrites, SendBroken, Released
  <2>2. \A u \in Threads \ {t} : pc[u] # "writing"
    BY <2>1 DEF Writers
  <2> QED BY <1>1, <1>14, <2>1, <2>2 DEF Writers
<1>19. ASSUME NEW c \in Conns, Send(c) \/ ReadReply(c) \/ Close(c) PROVE Writers'
  BY <1>19 DEF Send, ReadReply, Close, tables, Writers
<1> QED BY <1>5, <1>6, <1>8, <1>9, <1>10, <1>11, <1>12, <1>13, <1>15, <1>16, <1>17, <1>18, <1>19,
           StepCases

-----------------------------------------------------------------------------
\* A thread that has no message, and stays without one.
LEMMA HeldElsewhere ==
    ASSUME Held, UNCHANGED <<sent, pipe>>,
           \/ HeldByReceiver' /\ UNCHANGED <<pc["cb"], msg["cb"]>>
           \/ HeldByCallback' /\ UNCHANGED <<pc["rcv"], msg["rcv"]>>
    PROVE  Held'
BY DEF Held, HeldInPipe, HeldByReceiver, HeldByCallback, Genuine, KindOf

\* Threads and pipe hold messages that were sent, of the kinds that belong there.
LEMMA HeldStep ==
    ASSUME TypeOK, Tables, Writers, Held, Streams, Next PROVE Held'
<1>1. /\ ThreadsType /\ "rcv" \in Threads /\ "cb" \in Threads /\ sent \in Seq(MessageTypes)
      /\ \A t \in Threads : t \in {"rcv", "cb"}
  BY TypeParts DEF Threads, HistoryType
<1>2. \A t \in Threads : \A place : Goes(t, place) =>
        pc'[t] = place /\ \A u \in Threads \ {t} : pc'[u] = pc[u]
  BY Going
<1>3. \A t \in Threads : \A m : msg' = [msg EXCEPT ![t] = m] =>
        msg'[t] = m /\ \A u \in Threads \ {t} : msg'[u] = msg[u]
  BY <1>1 DEF ThreadsType
<1>4. ASSUME NEW c \in Conns, Send(c) PROVE Held'
  <2>1. PICK m \in MessageTypes : sent' = Append(sent, m)
    <3>1. PICK shape \in Shapes[c] :
            sent' = Append(sent, [conn |-> c, kind |-> shape[1], ttl |-> shape[2]])
      BY <1>4 DEF Send
    <3>2. [conn |-> c, kind |-> shape[1], ttl |-> shape[2]] \in MessageTypes
      BY ServerAssumption DEF MessageTypes, Requests
    <3> QED BY <3>1, <3>2, Zenon
  <2>2. Len(sent') = Len(sent) + 1 /\ \A id \in 1..Len(sent) : id \in 1..Len(sent') /\ sent'[id] = sent[id]
    BY <1>1, <2>1
  <2>4. UNCHANGED <<pc, msg, pipe>>
    BY <1>4 DEF Send
  <2>5. \A i \in 1..Len(pipe) : Genuine(pipe[i])' /\ KindOf(pipe[i])' = KindOf(pipe[i])
    BY <2>2, <2>4 DEF Held, HeldInPipe, Genuine, KindOf
  <2>6. \A t \in Threads : Genuine(msg[t]) => Genuine(msg[t])' /\ KindOf(msg[t])' = KindOf(msg[t])
    BY <2>2, <2>4 DEF Genuine, KindOf
  <2>7. HeldInPipe'
    BY <2>4, <2>5 DEF Held, HeldInPipe
  <2>8. HeldByReceiver' /\ HeldByCallback'
    BY <1>1, <2>4, <2>6 DEF Held, HeldByReceiver, HeldByCallback
  <2> QED BY <2>7, <2>8 DEF Held
<1>5. ASSUME NEW place, Goes("rcv", place), place \notin {"sending", "writing", "piping"},
             msg'["rcv"] = NoMsg, msg'["cb"] = msg["cb"], UNCHANGED <<sent, pipe>>
      PROVE  Held'
  <2>1. pc'["rcv"] = place /\ pc'["cb"] = pc["cb"]
    BY <1>1, <1>2, <1>5
  <2> QED BY <1>5, <2>1, HeldElsewhere DEF HeldByReceiver
<1>6. ASSUME NEW c \in Conns, ReadHead(c) PROVE Held'
  <2>1. \E place \in {"polling", "reading", "handling"} : Goes("rcv", place)
    BY <1>6, HeadOutcome
  <2>2. UNCHANGED <<sent, pipe, msg>> /\ msg["rcv"] = NoMsg
    BY <1>6 DEF ReadHead, Takes, Attends, Held, HeldByReceiver
  <2> QED BY <1>5, <2>1, <2>2
<1>7. ASSUME NEW c \in Conns, ReadBuf(c) PROVE Held'
  <2>1. \E place \in {"polling", "handling"} : Goes("rcv", place)
    BY <1>7, BufOutcome
  <2>2. UNCHANGED <<sent, pipe, msg>> /\ msg["rcv"] = NoMsg
    BY <1>7 DEF ReadBuf, Takes, Attends, Held, HeldByReceiver
  <2> QED BY <1>5, <2>1, <2>2
<1>8. ASSUME NEW c \in Conns, \/ ReadHeadFails(c) \/ ReadNothing(c) \/ ReadEnds(c)
                              \/ CloseUnmaps(c) \/ CloseEnds(c)
      PROVE  Held'
  <2>1. \E place \in {"polling", "closing", "unmapped"} : Goes("rcv", place)
    BY <1>8 DEF ReadHeadFails, ReadNothing, ReadEnds, CloseUnmaps, CloseEnds
  <2>2. UNCHANGED <<sent, pipe, msg>> /\ msg["rcv"] = NoMsg
    BY <1>8 DEF ReadHeadFails, ReadNothing, ReadEnds, CloseUnmaps, CloseEnds, Takes, Attends,
       Held, HeldByReceiver, history
  <2> QED BY <1>5, <2>1, <2>2
<1>9. ASSUME Drops, UNCHANGED <<sent, pipe>> PROVE Held'
  BY <1>1, <1>3, <1>5, <1>9 DEF Drops
<1>10. ASSUME NEW c \in Conns, HandleFails(c) PROVE Held'
  BY <1>9, <1>10 DEF HandleFails
<1>11. ASSUME NEW c \in Conns, Handle(c) PROVE Held'
  <2>1. c = conn /\ stage[c] = "done" /\ UNCHANGED <<sent, pipe>>
    BY <1>11 DEF Handle, history
  <2>2. PICK id : id = got[c][1][1]
    OBVIOUS
  <2>3. id \in 1..Len(sent) /\ sent[id].conn = c /\ sent[id].kind \in Requests \cup {"void"}
    <3>1. Len(got[c]) > 0
      BY <2>1 DEF Streams, WholeStream, Attending, Collected
    <3> QED BY <2>2, <3>1, FirstCollected, FirstMessage DEF MessageTypes
  <2>4. CASE sent[id].kind = "void"
    BY <1>9, <1>11, <2>1, <2>2, <2>4 DEF Handle
  <2>5. CASE sent[id].kind # "void"
    <3>1. /\ msg' = [msg EXCEPT !["rcv"] = [uuid |-> c, id |-> id]]
          /\ Goes("rcv", IF sent[id].kind = "sync" THEN "piping" ELSE "sending")
      BY <1>11, <2>2, <2>5 DEF Handle
    <3>2. /\ msg'["rcv"] = [uuid |-> c, id |-> id] /\ msg'["cb"] = msg["cb"]
          /\ pc'["rcv"] = (IF sent[id].kind = "sync" THEN "piping" ELSE "sending")
          /\ pc'["cb"] = pc["cb"]
      <4>1. msg'["rcv"] = [uuid |-> c, id |-> id] /\ msg'["cb"] = msg["cb"]
        BY <1>1, <1>3, <3>1
      <4>2. PICK place : place = IF sent[id].kind = "sync" THEN "piping" ELSE "sending"
        OBVIOUS
      <4>3. pc'["rcv"] = place /\ pc'["cb"] = pc["cb"]
        BY <1>1, <1>2, <3>1, <4>2
      <4> QED BY <4>1, <4>2, <4>3
    <3>3. msg'["rcv"].uuid = c /\ msg'["rcv"].id = id /\ msg'["rcv"] # NoMsg
      BY <3>2, ServerAssumption DEF NoMsg
    <3>4. Genuine(msg["rcv"])' /\ KindOf(msg["rcv"])' = sent[id].kind
      BY <2>1, <2>3, <3>3 DEF Genuine, KindOf
    <3>5. HeldByReceiver'
      BY <2>3, <2>5, <3>2, <3>3, <3>4 DEF HeldByReceiver, Requests
    <3> QED BY <2>1, <3>2, <3>5, HeldElsewhere
  <2> QED BY <2>4, <2>5
<1>12. ASSUME PipeWrite PROVE Held'
  <2>1. /\ pc["rcv"] = "piping" /\ pipe' = Append(pipe, msg["rcv"]) /\ UNCHANGED sent /\ Drops
    BY <1>12 DEF PipeWrite, history
  <2>2. /\ msg["rcv"] \in Messages /\ Genuine(msg["rcv"])
        /\ KindOf(msg["rcv"]) \in {"async", "sync"}
    BY <1>1, <2>1, InHands DEF Held, HeldByReceiver
  <2>3. PICK m \in Messages : m = msg["rcv"]
    BY <2>2
  <2>4. \A i \in 1..Len(pipe') : (i \in 1..Len(pipe) /\ pipe'[i] = pipe[i]) \/ pipe'[i] = m
    <3>1. pipe' = Append(pipe, m) /\ pipe \in Seq(Messages)
      BY <1>1, <2>1, <2>3 DEF ThreadsType
    <3> QED BY <3>1
  <2>5. HeldInPipe'
    BY <2>1, <2>2, <2>3, <2>4 DEF Held, HeldInPipe, Genuine, KindOf
  <2>6. /\ msg'["rcv"] = NoMsg /\ msg'["cb"] = msg["cb"]
        /\ pc'["rcv"] = "polling" /\ pc'["cb"] = pc["cb"]
    <3>1. msg' = [msg EXCEPT !["rcv"] = NoMsg] /\ Goes("rcv", "polling")
      BY <2>1 DEF Drops
    <3>2. msg'["rcv"] = NoMsg /\ msg'["cb"] = msg["cb"]
      BY <1>1, <3>1 DEF ThreadsType
    <3> QED BY <1>1, <1>2, <3>1, <3>2
  <2>7. HeldByReceiver' /\ HeldByCallback'
    BY <2>1, <2>6 DEF Held, HeldByReceiver, HeldByCallback, Genuine, KindOf
  <2> QED BY <2>5, <2>7 DEF Held
<1>13. ASSUME PipeRead PROVE Held'
  <2>1. /\ msg' = [msg EXCEPT !["cb"] = Head(pipe)] /\ pipe' = Tail(pipe) /\ pipe # <<>>
        /\ Goes("cb", "calling") /\ UNCHANGED sent
    BY <1>13 DEF PipeRead, history
  <2>2. pipe \in Seq(Messages)
    BY <1>1 DEF ThreadsType
  <2>3. /\ 1 \in 1..Len(pipe) /\ Head(pipe) = pipe[1] /\ Head(pipe) \in Messages
        /\ \A i \in 1..Len(pipe') : i + 1 \in 1..Len(pipe) /\ pipe'[i] = pipe[i + 1]
    BY <2>1, <2>2
  <2>4. Head(pipe) # NoMsg
    BY <2>3, ServerAssumption DEF Messages, NoMsg
  <2>5. /\ msg'["cb"] = pipe[1] /\ msg'["rcv"] = msg["rcv"]
        /\ pc'["cb"] = "calling" /\ pc'["rcv"] = pc["rcv"]
    BY <1>1, <1>2, <1>3, <2>1, <2>3
  <2>6. HeldInPipe'
    BY <2>1, <2>3 DEF Held, HeldInPipe, Genuine, KindOf
  <2>7. HeldByCallback'
    BY <2>1, <2>3, <2>4, <2>5 DEF Held, HeldInPipe, HeldByCallback, Genuine, KindOf
  <2>8. HeldByReceiver'
    BY <2>1, <2>5 DEF Held, HeldByReceiver, Genuine, KindOf
  <2> QED BY <2>6, <2>7, <2>8 DEF Held
<1>14. ASSUME NEW t \in Threads, Sent(t), pc[t] \in {"sending", "writing", "calling"},
              UNCHANGED <<sent, pipe>>
       PROVE  Held'
  <2>1. CASE t = "cb"
    <3>1. /\ pc'["cb"] = "selecting" /\ msg'["cb"] = NoMsg
          /\ pc'["rcv"] = pc["rcv"] /\ msg'["rcv"] = msg["rcv"]
      BY <1>1, <1>2, <1>14, <2>1, SentMoves
    <3> QED BY <1>14, <3>1, HeldElsewhere DEF HeldByCallback
  <2>2. CASE t = "rcv" /\ Kind(t) = "heartbeat"
    <3>1. /\ pc'["rcv"] = "polling" /\ msg'["rcv"] = NoMsg
          /\ pc'["cb"] = pc["cb"] /\ msg'["cb"] = msg["cb"]
      BY <1>1, <1>2, <1>14, <2>2, SentMoves
    <3> QED BY <1>14, <3>1, HeldElsewhere DEF HeldByReceiver
  <2>3. CASE t = "rcv" /\ Kind(t) # "heartbeat"
    <3>1. /\ pc'["rcv"] = "piping" /\ msg'["rcv"] = msg["rcv"]
          /\ pc'["cb"] = pc["cb"] /\ msg'["cb"] = msg["cb"]
      BY <1>1, <1>2, <1>14, <2>3, SentMoves
    <3>2. pc["rcv"] # "calling"
      BY DEF TypeOK
    <3>3. /\ msg["rcv"] # NoMsg /\ Genuine(msg["rcv"]) /\ KindOf(msg["rcv"]) = "async"
      BY <1>14, <2>3, <3>2 DEF Held, HeldByReceiver, KindOf, Kind
    <3>4. HeldByReceiver'
      BY <1>14, <3>1, <3>3 DEF HeldByReceiver, Genuine, KindOf
    <3> QED BY <1>14, <3>1, <3>4, HeldElsewhere
  <2> QED BY <1>1, <2>1, <2>2, <2>3
<1>15. ASSUME Callback PROVE Held'
  <2>1. pc["cb"] = "calling" /\ UNCHANGED <<sent, pipe>>
    BY <1>15 DEF Callback
  <2>2. CASE Sent("cb")
    BY <1>1, <1>14, <2>1, <2>2
  <2>3. CASE Kind("cb") = "sync" /\ Goes("cb", "sending") /\ UNCHANGED msg
    <3>1. pc'["cb"] = "sending" /\ pc'["rcv"] = pc["rcv"] /\ UNCHANGED msg
      BY <1>1, <1>2, <2>3
    <3>2. HeldByCallback'
      BY <2>1, <2>3, <3>1 DEF Held, HeldByCallback, Genuine, KindOf, Kind
    <3> QED BY <2>1, <3>1, <3>2, HeldElsewhere
  <2> QED BY <1>15, <2>2, <2>3 DEF Callback
<1>16. ASSUME NEW t \in Threads, \/ SendUnknown(t) \/ SendFails(t)
                                 \/ SendWrites(t) \/ SendBroken(t)
       PROVE  Held'
  <2>1. Sent(t) /\ pc[t] \in {"sending", "writing"} /\ UNCHANGED <<sent, pipe>>
    BY <1>16 DEF SendUnknown, SendFails, SendWrites, SendBroken, history
  <2> QED BY <1>14, <2>1
<1>17. ASSUME NEW t \in Threads, SendBegins(t) PROVE Held'
  <2>1. pc[t] = "sending" /\ Goes(t, "writing") /\ UNCHANGED <<sent, pipe, msg>>
    BY <1>17 DEF SendBegins, history
  <2>2. pc'[t] = "writing" /\ \A u \in Threads \ {t} : pc'[u] = pc[u]
    BY <1>2, <2>1
  <2>3. CASE t = "rcv"
    <3>1. HeldByReceiver'
      BY <2>1, <2>2, <2>3 DEF Held, HeldByReceiver, Genuine, KindOf
    <3> QED BY <1>1, <2>1, <2>2, <2>3, <3>1, HeldElsewhere
  <2>4. CASE t = "cb"
    <3>1. HeldByCallback'
      BY <2>1, <2>2, <2>4 DEF Held, HeldByCallback, Genuine, KindOf
    <3> QED BY <1>1, <2>1, <2>2, <2>4, <3>1, HeldElsewhere
  <2> QED BY <1>1, <2>3, <2>4
<1>18. UNCHANGED <<sent, pipe, pc, msg>> => Held'
  BY DEF Held, HeldInPipe, HeldByReceiver, HeldByCallback, Genuine, KindOf
<1>19. ASSUME NEW c \in Conns, \/ ReadReply(c) \/ Close(c) \/ Accept(c) \/ AcceptRefused(c)
                               \/ AcceptUnmapped(c) \/ AcceptUnlisted(c)
       PROVE  Held'
  BY <1>18, <1>19 DEF ReadReply, Close, Accept, AcceptRefused, AcceptUnmapped, AcceptUnlisted,
     history
<1> QED BY <1>4, <1>6, <1>7, <1>8, <1>10, <1>11, <1>12, <1>13, <1>15, <1>16, <1>17, <1>19,
           StepCases

-----------------------------------------------------------------------------
(* What happens to a stream *)

\* Nothing is a sequence of whole messages.
LEMMA FramedEmpty ==
    ASSUME NEW table, NEW c PROVE Framed(table, <<>>, c) /\ Complete(table, <<>>)
<1>1. Len(<<>>) = 0 /\ ~ (Len(<<>>) > 0) /\ 1..Len(<<>>) = {}
  OBVIOUS
<1> QED BY <1>1 DEF Framed, Complete

\* Failures are counted up.
LEMMA FaultsGrow ==
    ASSUME TypeOK, Next
    PROVE  /\ faults > 0 => faults' > 0
           /\ faults' = 0 => faults = 0
           /\ faults' = faults \/ faults' = faults + 1
           /\ faults \in Nat /\ faults' \in Nat
<1>1. faults \in Nat
  BY ServerAssumption DEF TypeOK
<1>2. UNCHANGED faults \/ Fails
  BY StepCases DEF Send, ReadReply, Close, Accept, AcceptRefused, AcceptUnmapped, AcceptUnlisted,
     ReadHead, ReadHeadFails, ReadBuf, Takes, ReadNothing, ReadEnds, CloseUnmaps, CloseEnds,
     Handle, HandleFails, PipeWrite, PipeRead, Callback, SendBegins, SendUnknown, SendFails,
     SendWrites, SendBroken, history
<1>3. faults' = faults \/ faults' = faults + 1
  BY <1>2 DEF Fails
<1> QED BY <1>1, <1>3

\* A client sends: what was sent before stays in the table of messages,
LEMMA SendTable ==
    ASSUME TypeOK, NEW c \in Conns, Send(c)
    PROVE  /\ sent \in Seq(MessageTypes) /\ sent' \in Seq(MessageTypes)
           /\ Len(sent') = Len(sent) + 1 /\ Len(sent) <= Len(sent')
           /\ \A id \in 1..Len(sent) : id \in 1..Len(sent') /\ sent'[id] = sent[id]
           /\ Len(sent) + 1 \in 1..Len(sent') /\ Len(sent) + 1 \in MsgIds
           /\ sent'[Len(sent) + 1].conn = c
           /\ \E ttl \in 0..9 :
                /\ FrameLen(sent', Len(sent) + 1) = HeadLen + ttl
                /\ inbox' = IF cli[c] # "absent" /\ cli_fd[c] = None THEN inbox
                            ELSE [inbox EXCEPT ![c] = @ \o Frame(Len(sent) + 1, ttl)]
<1>1. sent \in Seq(MessageTypes)
  BY StateTypes
<1>2. PICK shape \in Shapes[c] :
        /\ Len(sent) < MaxMessages
        /\ sent' = Append(sent, [conn |-> c, kind |-> shape[1], ttl |-> shape[2]])
        /\ inbox' = IF cli[c] # "absent" /\ cli_fd[c] = None THEN inbox
                    ELSE [inbox EXCEPT ![c] = @ \o Frame(Len(sent) + 1, shape[2])]
  BY DEF Send
<1>3. shape[2] \in 0..9 /\ [conn |-> c, kind |-> shape[1], ttl |-> shape[2]] \in MessageTypes
  BY ServerAssumption DEF MessageTypes, Requests
<1>4. PICK m \in MessageTypes : m = [conn |-> c, kind |-> shape[1], ttl |-> shape[2]]
  BY <1>3
<1>5. sent' = Append(sent, m) /\ m.conn = c /\ m.ttl = shape[2]
  BY <1>2, <1>4
<1>6. /\ sent' \in Seq(MessageTypes) /\ Len(sent') = Len(sent) + 1 /\ sent'[Len(sent) + 1] = m
      /\ \A id \in 1..Len(sent) : id \in 1..Len(sent') /\ sent'[id] = sent[id]
  BY <1>1, <1>5
<1>7. Len(sent) + 1 \in MsgIds
  BY <1>1, <1>2, ServerAssumption DEF MsgIds
<1>8. FrameLen(sent', Len(sent) + 1) = HeadLen + shape[2]
  BY <1>5, <1>6 DEF FrameLen
<1>9. \E ttl \in 0..9 :
        /\ FrameLen(sent', Len(sent) + 1) = HeadLen + ttl
        /\ inbox' = IF cli[c] # "absent" /\ cli_fd[c] = None THEN inbox
                    ELSE [inbox EXCEPT ![c] = @ \o Frame(Len(sent) + 1, ttl)]
  BY <1>2, <1>3, <1>8
<1>10. /\ Len(sent) <= Len(sent') /\ Len(sent) + 1 \in 1..Len(sent')
       /\ sent'[Len(sent) + 1].conn = c
  BY <1>1, <1>5, <1>6
<1> QED BY <1>1, <1>6, <1>7, <1>9, <1>10

\* and its stream goes on with a whole message, unless its connection is closed.
LEMMA SendStream ==
    ASSUME TypeOK, Streams, NEW c \in Conns, Send(c)
    PROVE  /\ \A d \in Conns \ {c} : Stream(d)' = Stream(d)
           /\ \/ Stream(c)' = Stream(c) /\ cli[c] # "absent" /\ cli_fd[c] = None
              \/ /\ Framed(sent', Stream(c)', c) /\ Complete(sent', Stream(c)')
                 /\ Len(Stream(c)') > Len(Stream(c)) /\ Len(Stream(c)') \in Nat
                 /\ \A i \in 1..Len(Stream(c)) : Stream(c)'[i] = Stream(c)[i]
                 /\ \A i \in 1..Len(Stream(c)') :
                        i \in 1..Len(Stream(c)) \/ Id(Stream(c)', i) = Len(sent) + 1
<1>1. PICK ttl \in 0..9 :
        /\ FrameLen(sent', Len(sent) + 1) = HeadLen + ttl
        /\ inbox' = IF cli[c] # "absent" /\ cli_fd[c] = None THEN inbox
                    ELSE [inbox EXCEPT ![c] = @ \o Frame(Len(sent) + 1, ttl)]
  BY SendTable
<1>2. got \in [Conns -> Seq(Pieces)] /\ inbox \in [Conns -> Seq(Pieces)] /\ UNCHANGED got
  BY StateTypes DEF Send, protocol
<1>3. \A d \in Conns \ {c} : Stream(d)' = Stream(d)
  BY <1>1, <1>2 DEF Stream
<1>4. CASE cli[c] # "absent" /\ cli_fd[c] = None
  BY <1>1, <1>2, <1>3, <1>4 DEF Stream
<1>5. CASE ~ (cli[c] # "absent" /\ cli_fd[c] = None)
  <2>1. PICK id \in MsgIds : id = Len(sent) + 1
    BY SendTable
  <2>2. PICK f \in Seq(Pieces) : f = Frame(id, ttl)
    BY FrameParts
  <2>3. /\ Len(f) = HeadLen + ttl
        /\ \A i \in 1..Len(f) : Id(f, i) = id /\ Pos(f, i) = i
    BY <2>2, FrameParts
  <2>4. PICK s \in Seq(Pieces) : s = Stream(c)
    BY StreamParts
  <2>5. Stream(c)' = s \o f
    <3>1. inbox' = [inbox EXCEPT ![c] = @ \o f]
      BY <1>1, <1>5, <2>1, <2>2
    <3>2. Stream(c)' = got[c] \o (inbox[c] \o f)
      BY <1>2, <3>1 DEF Stream
    <3>3. got[c] \in Seq(Pieces) /\ inbox[c] \in Seq(Pieces)
      BY <1>2
    <3>4. \A g, b \in Seq(Pieces) : (g \o b) \o f = g \o (b \o f)
      BY ConcatAssociative
    <3>5. (got[c] \o inbox[c]) \o f = got[c] \o (inbox[c] \o f)
      BY <3>3, <3>4, Zenon
    <3> QED BY <2>4, <3>2, <3>5, Zenon DEF Stream
  <2>6. client[c] = "connected"
    BY DEF Send
  <2>7. Framed(sent, s, c) /\ Complete(sent, s)
    BY <2>4, <2>6 DEF Streams, WholeStream
  <2>8. Framed(sent', s, c) /\ Complete(sent', s)
    BY <2>7, SendTable, FramedLater
  <2>9. \A i \in 1..Len(s) : Id(s, i) < id
    <3>1. \A i \in 1..Len(s) : Id(s, i) \in 1..Len(sent)
      BY <2>7 DEF Framed, Piece
    <3>2. sent \in Seq(MessageTypes)
      BY StateTypes
    <3> QED BY <2>1, <3>1, <3>2
  <2>10. /\ id \in 1..Len(sent') /\ sent'[id].conn = c /\ Len(f) = FrameLen(sent', id)
         /\ sent' \in Seq(MessageTypes)
    BY <1>1, <2>1, <2>3, SendTable
  <2>11. PICK z \in Seq(Pieces) : z = s \o f
    BY Joined
  <2>12. Framed(sent', z, c) /\ Complete(sent', z)
    BY <2>3, <2>8, <2>9, <2>10, <2>11, FramedJoin
  <2>13. /\ Len(z) = Len(s) + Len(f)
         /\ \A i \in 1..Len(s) : z[i] = s[i]
         /\ \A i \in 1..Len(f) : z[Len(s) + i] = f[i]
         /\ \A i \in 1..Len(z) : i \in 1..Len(s) \/ \E j \in 1..Len(f) : i = Len(s) + j
    BY <2>11, Joined
  <2>14. Len(z) > Len(s) /\ Len(z) \in Nat
    BY <2>3, <2>13, ServerAssumption
  <2>15. \A i \in 1..Len(z) : i \in 1..Len(s) \/ Id(z, i) = id
    <3>1. \A j \in 1..Len(f) : Id(z, Len(s) + j) = Id(f, j)
      BY <2>13 DEF Id
    <3> QED BY <2>3, <2>13, <3>1
  <2>16. Stream(c)' = z
    BY <2>5, <2>11, Zenon
  <2> QED BY <1>3, <2>1, <2>4, <2>12, <2>13, <2>14, <2>15, <2>16
<1> QED BY <1>4, <1>5

\* A message is handled: the stream goes on with the next one.
LEMMA ResetStream ==
    ASSUME TypeOK, Streams, NEW c \in Conns, stage[c] = "done", Reset(c), UNCHANGED inbox
    PROVE  /\ \A d \in Conns \ {c} : Stream(d)' = Stream(d) /\ got'[d] = got[d]
           /\ got'[c] = <<>> /\ stage'[c] = "head" /\ got[c] # <<>>
           /\ Len(Stream(c)) > 0 /\ got[c][1][1] = Id(Stream(c), 1)
           /\ Framed(sent, Stream(c)', c)
           /\ Complete(sent, Stream(c)) => Complete(sent, Stream(c)')
           /\ Len(Stream(c)') \in Nat
           /\ \A k \in 1..Len(Stream(c)') :
                /\ Id(Stream(c)', k) > Id(Stream(c), 1)
                /\ \E i \in 1..Len(Stream(c)) : Id(Stream(c), i) = Id(Stream(c)', k)
           /\ \A i \in 1..Len(Stream(c)) :
                \/ Id(Stream(c), i) = Id(Stream(c), 1)
                \/ \E k \in 1..Len(Stream(c)') : Id(Stream(c)', k) = Id(Stream(c), i)
<1>1. got \in [Conns -> Seq(Pieces)] /\ inbox \in [Conns -> Seq(Pieces)]
  BY StateTypes
<1>2. /\ \A d \in Conns \ {c} : got'[d] = got[d]
      /\ got'[c] = <<>> /\ stage'[c] = "head"
  BY <1>1 DEF Reset, TypeOK
<1>3. \A d \in Conns \ {c} : Stream(d)' = Stream(d)
  BY <1>2 DEF Stream
<1>4. PICK s \in Seq(Pieces) : s = Stream(c)
  BY StreamParts
<1>5. PICK r \in Seq(Pieces) : r = inbox[c]
  BY <1>1
<1>6. Stream(c)' = r
  <2>1. Stream(c)' = <<>> \o r
    BY <1>2, <1>5 DEF Stream
  <2>2. <<>> \o r = r
    BY ConcatEmptySeq
  <2> QED BY <2>1, <2>2, Zenon
<1>7. Framed(sent, s, c) /\ sent \in Seq(MessageTypes)
  BY <1>4, StateTypes DEF Streams, WholeStream
<1>8. PICK n \in Nat : n = Len(got[c])
  BY <1>1
<1>9. n > 0 /\ Len(got[c]) > 0
  BY <1>8 DEF Streams, WholeStream, Collected
<1>10. n = FrameLen(sent, Id(s, 1)) /\ got[c][1][1] = Id(s, 1) /\ Len(s) > 0
  <2>1. Len(got[c]) = FrameLen(sent, Id(got[c], 1))
    BY DEF Streams, WholeStream, Collected
  <2> QED BY <1>4, <1>8, <1>9, <2>1, FirstCollected
<1>11. Len(s) = n + Len(r) /\ \A i \in 1..Len(r) : s[n + i] = r[i]
  BY <1>4, <1>5, <1>8, StreamParts
<1>12. n \in 1..Len(s) /\ Len(r) = Len(s) - n
  BY <1>9, <1>11
<1>13. /\ Framed(sent, r, c) /\ \A i \in 1..Len(r) : Id(r, i) > Id(s, 1)
       /\ Complete(sent, s) => Complete(sent, r)
  BY <1>7, <1>10, <1>11, <1>12, FramedRest
<1>14. \A k \in 1..Len(r) : n + k \in 1..Len(s) /\ Id(s, n + k) = Id(r, k)
  BY <1>11 DEF Id
<1>15. ASSUME NEW i \in 1..Len(s)
       PROVE  Id(s, i) = Id(s, 1) \/ \E k \in 1..Len(r) : Id(r, k) = Id(s, i)
  <2>1. CASE i <= n
    BY <1>7, <1>10, <2>1, FramedFirst
  <2>2. CASE i > n
    <3>1. i - n \in 1..Len(r) /\ i = n + (i - n)
      BY <1>11, <2>2
    <3> QED BY <1>14, <3>1
  <2> QED BY <2>1, <2>2
<1>16. got[c] # <<>>
  BY <1>1, <1>9
<1> QED BY <1>2, <1>3, <1>4, <1>6, <1>10, <1>13, <1>14, <1>15, <1>16

-----------------------------------------------------------------------------
\* Steps that touch no stream, and leave the receiving thread where it is or take
\* it to a place where it attends to nothing.
LEMMA StreamsKept ==
    ASSUME TypeOK, Streams, Next, UNCHANGED <<got, inbox, stage, sent, client>>, epoll \subseteq epoll',
           \/ pc'["rcv"] = pc["rcv"] /\ conn' = conn
           \/ pc'["rcv"] \notin {"reading", "handling", "closing", "unmapped"}
    PROVE  Streams'
<1>1. Attending'
  BY FaultsGrow DEF Streams, Attending
<1>2. \A c \in Conns : WholeStream(c)'
  BY DEF Streams, WholeStream, Collected, Stream
<1>3. \A c \in Conns : got'[c] # <<>> => c \in epoll'
  BY DEF Streams
<1> QED BY <1>1, <1>2, <1>3 DEF Streams

\* However a client's stream is cut, it stays a sequence of whole messages.
LEMMA ReadKeepsStreams ==
    ASSUME TypeOK, Tables, Streams, Next, NEW c \in Conns,
           ReadHead(c) \/ ReadHeadFails(c) \/ ReadBuf(c)
    PROVE  Streams'
<1>1. /\ stage[c] # "done" /\ Takes(c) /\ UNCHANGED <<sent, client, epoll>>
      /\ conn' = c /\ Attends(c)
  BY DEF ReadHead, ReadHeadFails, ReadBuf, Takes, tables
<1>2. c \in epoll
  BY <1>1 DEF Attends, Tables
<1>3. /\ \A d \in Conns : Stream(d)' = Stream(d)
      /\ \A d \in Conns \ {c} : got'[d] = got[d]
      /\ Id(got'[c], 1) = Id(Stream(c), 1)
  BY <1>1, Taken
<1>4. \A d \in Conns \ {c} : stage'[d] = stage[d]
  BY DEF ReadHead, ReadHeadFails, ReadBuf, TypeOK
<1>5. /\ Len(got'[c]) \in Nat /\ Len(got'[c]) > 0 /\ Ttl(c) \in 0..9 /\ HeadLen \in Nat
      /\ Size(c) = FrameLen(sent, Id(got'[c], 1)) /\ Size(c) \in Nat /\ Size(c) = HeadLen + Ttl(c)
      /\ stage[c] = "head" => Len(got'[c]) <= HeadLen
      /\ stage[c] = "buf" => HeadLen <= Len(got'[c]) /\ Len(got'[c]) <= Size(c)
  BY <1>1, TakenSize
<1>6. pc \in [Threads -> Places] /\ "rcv" \in Threads /\ stage \in [Conns -> {"head", "buf", "done"}]
  BY TypeParts DEF PlacesType, Threads, StreamsType
<1>7. Collected(c)' /\ Attending'
  <2>1. CASE ReadHead(c)
    <3>1. stage[c] = "head" /\ \A place : Goes("rcv", place) => pc'["rcv"] = place
      BY <1>6, <2>1, Going DEF ReadHead
    <3> QED BY <1>1, <1>5, <2>1, <3>1, HeadOutcome DEF Collected, Attending
  <2>2. CASE ReadBuf(c)
    <3>1. stage[c] = "buf" /\ \A place : Goes("rcv", place) => pc'["rcv"] = place
      BY <1>6, <2>2, Going DEF ReadBuf
    <3> QED BY <1>1, <1>5, <2>2, <3>1, BufOutcome DEF Collected, Attending
  <2>3. CASE ReadHeadFails(c)
    <3>1. /\ stage'[c] = "buf" /\ pc'["rcv"] = "closing"
          /\ Len(got'[c]) = HeadLen /\ Ttl(c) > 0 /\ Fails
      BY <1>6, <2>3 DEF ReadHeadFails, Goes
    <3>2. faults' > 0
      BY <3>1, FaultsGrow DEF Fails
    <3> QED BY <1>1, <1>5, <3>1, <3>2 DEF Collected, Attending
  <2> QED BY <2>1, <2>2, <2>3
<1>8. ASSUME NEW d \in Conns PROVE WholeStream(d)'
  <2>1. Framed(sent', Stream(d)', d) /\ (client'[d] = "connected" => Complete(sent', Stream(d)'))
    BY <1>1, <1>3 DEF Streams, WholeStream
  <2>2. Collected(d)'
    BY <1>1, <1>3, <1>4, <1>7 DEF Streams, WholeStream, Collected
  <2> QED BY <2>1, <2>2 DEF WholeStream
<1>9. \A d \in Conns : got'[d] # <<>> => d \in epoll'
  BY <1>1, <1>2, <1>3 DEF Streams
<1> QED BY <1>7, <1>8, <1>9 DEF Streams

\* So it does when a message has been handled, or lost for want of memory.
LEMMA HandleKeepsStreams ==
    ASSUME TypeOK, Streams, Next, NEW c \in Conns, Handle(c) \/ HandleFails(c)
    PROVE  Streams'
<1>1. c = conn /\ pc["rcv"] = "handling" /\ Reset(c) /\ UNCHANGED <<inbox, sent, client, epoll>>
  BY DEF Handle, HandleFails, clients, tables, history
<1>2. stage[c] = "done"
  BY <1>1 DEF Streams, Attending
<1>3. /\ \A d \in Conns \ {c} : Stream(d)' = Stream(d) /\ got'[d] = got[d]
      /\ got'[c] = <<>> /\ stage'[c] = "head"
      /\ Framed(sent, Stream(c)', c)
      /\ Complete(sent, Stream(c)) => Complete(sent, Stream(c)')
  BY <1>1, <1>2, ResetStream
<1>4. \A d \in Conns \ {c} : stage'[d] = stage[d]
  BY <1>1 DEF Reset, TypeOK
<1>5. Attending'
  <2>1. pc \in [Threads -> Places] /\ "rcv" \in Threads
    BY TypeParts DEF PlacesType, Threads
  <2>2. pc'["rcv"] \in {"polling", "sending", "piping"}
    <3>1. \E place \in {"polling", "sending", "piping"} : Goes("rcv", place)
      BY DEF Handle, HandleFails, Drops
    <3> QED BY <2>1, <3>1 DEF Goes
  <2> QED BY <2>2 DEF Attending
<1>6. ASSUME NEW d \in Conns PROVE WholeStream(d)'
  <2>1. CASE d = c
    <3>1. Len(got'[c]) < HeadLen /\ stage'[c] = "head"
      BY <1>3, ServerAssumption
    <3>2. Collected(c)'
      BY <3>1 DEF Collected
    <3> QED BY <1>1, <1>3, <2>1, <3>2 DEF Streams, WholeStream
  <2>2. CASE d # c
    <3>1. Collected(d)'
      BY <1>1, <1>3, <1>4, <2>2 DEF Streams, WholeStream, Collected
    <3> QED BY <1>1, <1>3, <2>2, <3>1 DEF Streams, WholeStream
  <2> QED BY <2>1, <2>2
<1>7. \A d \in Conns : got'[d] # <<>> => d \in epoll'
  BY <1>1, <1>3 DEF Streams
<1> QED BY <1>5, <1>6, <1>7 DEF Streams

\* A client sends more.
LEMMA SendKeepsStreams ==
    ASSUME TypeOK, Streams, Next, NEW c \in Conns, Send(c)
    PROVE  Streams'
<1>1. UNCHANGED <<got, stage, client, epoll, pc, conn, faults>>
  BY DEF Send, protocol, tables
<1>2. ASSUME NEW d \in Conns PROVE Collected(d)'
  <2>1. PICK s \in Seq(Pieces) : s = Stream(d)
    BY StreamParts
  <2>2. \A i \in 1..Len(s) : FrameLen(sent', Id(s, i)) = FrameLen(sent, Id(s, i))
    <3>1. Framed(sent, s, d)
      BY <2>1 DEF Streams, WholeStream
    <3> QED BY <3>1, SendTable, FramedLater
  <2>3. ASSUME Len(got[d]) > 0
        PROVE  FrameLen(sent', Id(got[d], 1)) = FrameLen(sent, Id(got[d], 1))
    <3>1. Id(got[d], 1) = Id(s, 1) /\ Len(s) > 0 /\ 1 \in 1..Len(s)
      BY <2>1, <2>3, FirstCollected
    <3> QED BY <2>2, <3>1
  <2>4. Collected(d) /\ stage[d] \in {"head", "buf", "done"}
    BY DEF Streams, WholeStream, TypeOK
  <2>5. stage[d] # "head" => Len(got[d]) > 0
    <3>1. got \in [Conns -> Seq(Pieces)] /\ HeadLen \in Nat /\ HeadLen > 0
      BY StateTypes, ServerAssumption
    <3> QED BY <2>4, <3>1 DEF Collected
  <2> QED BY <1>1, <2>3, <2>4, <2>5 DEF Collected
<1>3. ASSUME NEW d \in Conns, Stream(d)' = Stream(d) PROVE WholeStream(d)'
  <2>1. PICK s \in Seq(Pieces) : s = Stream(d)
    BY StreamParts
  <2>2. Framed(sent', s, d) /\ (Complete(sent, s) => Complete(sent', s))
    BY <2>1, SendTable, FramedLater DEF Streams, WholeStream
  <2> QED BY <1>1, <1>2, <1>3, <2>1, <2>2 DEF Streams, WholeStream
<1>4. ASSUME Stream(c)' # Stream(c) PROVE WholeStream(c)'
  <2>1. Framed(sent', Stream(c)', c) /\ Complete(sent', Stream(c)')
    BY <1>4, SendStream
  <2> QED BY <1>2, <2>1 DEF WholeStream
<1>5. \A d \in Conns : WholeStream(d)'
  <2>1. \A d \in Conns \ {c} : Stream(d)' = Stream(d)
    BY SendStream
  <2> QED BY <1>3, <1>4, <2>1
<1>6. Attending' /\ \A d \in Conns : got'[d] # <<>> => d \in epoll'
  BY <1>1 DEF Streams, Attending
<1> QED BY <1>5, <1>6 DEF Streams

\* A client closes its connection: what it has sent last may be lost.
LEMMA CloseStream ==
    ASSUME TypeOK, Streams, NEW c \in Conns, Close(c)
    PROVE  /\ UNCHANGED <<got, stage, sent, epoll, pc, conn, faults>>
           /\ client'[c] = "closed" /\ \A d \in Conns \ {c} : client'[d] = client[d]
           /\ \A d \in Conns \ {c} : Stream(d)' = Stream(d)
           /\ Framed(sent, Stream(c)', c) /\ Len(Stream(c)') \in Nat
           /\ \A i \in 1..Len(Stream(c)') : i \in 1..Len(Stream(c)) /\ Stream(c)'[i] = Stream(c)[i]
<1>1. /\ UNCHANGED <<got, stage, sent, epoll, pc, conn, faults>>
      /\ client' = [client EXCEPT ![c] = "closed"]
  BY DEF Close, protocol, tables, history
<1>2. PICK n \in 0..Len(inbox[c]) : inbox' = [inbox EXCEPT ![c] = SubSeq(@, 1, n)]
  BY DEF Close
<1>3. got \in [Conns -> Seq(Pieces)] /\ inbox \in [Conns -> Seq(Pieces)]
  BY StateTypes
<1>4. PICK b \in Seq(Pieces) : b = SubSeq(inbox[c], 1, n)
  <2>1. inbox[c] \in Seq(Pieces)
    BY <1>3
  <2>2. SubSeq(inbox[c], 1, n) \in Seq(Pieces)
    BY <2>1, Cut
  <2> QED BY <2>2, Zenon
<1>5. Len(b) = n /\ \A i \in 1..n : b[i] = inbox[c][i]
  BY <1>3, <1>4, Cut
<1>6. inbox'[c] = b /\ \A d \in Conns \ {c} : inbox'[d] = inbox[d]
  BY <1>2, <1>3, <1>4
<1>7. PICK g \in Seq(Pieces) : g = got[c]
  BY <1>3
<1>8. PICK z \in Seq(Pieces) : z = g \o b
  <2>1. g \o b \in Seq(Pieces)
    BY Joined
  <2> QED BY <2>1, Zenon
<1>9. /\ Len(z) = Len(g) + Len(b)
      /\ \A i \in 1..Len(g) : z[i] = g[i]
      /\ \A i \in 1..Len(b) : z[Len(g) + i] = b[i]
      /\ \A i \in 1..Len(z) : i \in 1..Len(g) \/ \E j \in 1..Len(b) : i = Len(g) + j
  BY <1>8, Joined
<1>10. PICK s \in Seq(Pieces) : s = Stream(c)
  BY StreamParts
<1>11. PICK m \in Nat : m = Len(inbox[c])
  BY <1>3
<1>12. /\ Len(s) = Len(g) + m
       /\ \A i \in 1..Len(g) : s[i] = g[i]
       /\ \A i \in 1..m : s[Len(g) + i] = inbox[c][i]
  BY <1>7, <1>10, <1>11, StreamParts
<1>13. n \in Nat /\ n <= m
  BY <1>11
<1>14. Len(z) <= Len(s) /\ \A i \in 1..Len(z) : z[i] = s[i]
  <2>1. Len(z) <= Len(s)
    BY <1>5, <1>9, <1>12, <1>13
  <2>2. \A j \in 1..Len(b) : z[Len(g) + j] = s[Len(g) + j]
    <3>1. \A j \in 1..Len(b) : j \in 1..n /\ j \in 1..m
      BY <1>5, <1>13
    <3> QED BY <1>5, <1>9, <1>12, <3>1
  <2>3. \A j \in 1..Len(g) : z[j] = s[j]
    BY <1>9, <1>12
  <2> QED BY <1>9, <2>1, <2>2, <2>3
<1>15. Framed(sent, z, c)
  BY <1>10, <1>14, FramedBegin DEF Streams, WholeStream
<1>16. Stream(c)' = z
  BY <1>1, <1>6, <1>7, <1>8, Zenon DEF Stream
<1>17. client'[c] = "closed" /\ \A d \in Conns \ {c} : client'[d] = client[d]
  BY <1>1 DEF TypeOK
<1>18. \A d \in Conns \ {c} : Stream(d)' = Stream(d)
  BY <1>1, <1>6 DEF Stream
<1>19. Len(z) \in Nat /\ \A i \in 1..Len(z) : i \in 1..Len(s) /\ z[i] = s[i]
  BY <1>14
<1> QED BY <1>1, <1>10, <1>15, <1>16, <1>17, <1>18, <1>19

LEMMA CloseKeepsStreams ==
    ASSUME TypeOK, Streams, NEW c \in Conns, Close(c)
    PROVE  Streams'
<1>1. /\ UNCHANGED <<got, stage, sent, epoll, pc, conn, faults>>
      /\ client'[c] = "closed" /\ \A d \in Conns \ {c} : client'[d] = client[d]
      /\ \A d \in Conns \ {c} : Stream(d)' = Stream(d)
      /\ Framed(sent, Stream(c)', c)
  BY CloseStream
<1>2. ASSUME NEW d \in Conns PROVE WholeStream(d)'
  <2>1. Collected(d)'
    BY <1>1 DEF Streams, WholeStream, Collected
  <2>2. CASE d = c
    BY <1>1, <2>1, <2>2 DEF WholeStream
  <2>3. CASE d # c
    BY <1>1, <2>1, <2>3 DEF Streams, WholeStream
  <2> QED BY <2>2, <2>3
<1>3. \A d : client[d] = "closed" => client'[d] = "closed"
  BY DEF Close, TypeOK
<1>4. Attending' /\ \A d \in Conns : got'[d] # <<>> => d \in epoll'
  BY <1>1, <1>3 DEF Streams, Attending
<1> QED BY <1>2, <1>4 DEF Streams

\* The server closes a connection: nothing is left of its stream.
LEMMA EndKeepsStreams ==
    ASSUME TypeOK, Streams, Next, NEW c \in Conns, CloseEnds(c)
    PROVE  Streams'
<1>1. /\ Reset(c) /\ inbox' = [inbox EXCEPT ![c] = <<>>] /\ epoll' = epoll \ {c}
      /\ UNCHANGED <<sent, client>> /\ pc'["rcv"] = "polling"
  <2>1. pc \in [Threads -> Places] /\ "rcv" \in Threads
    BY TypeParts DEF PlacesType, Threads
  <2> QED BY <2>1 DEF CloseEnds, history, Goes
<1>2. got \in [Conns -> Seq(Pieces)] /\ inbox \in [Conns -> Seq(Pieces)]
  BY StateTypes
<1>3. /\ got'[c] = <<>> /\ inbox'[c] = <<>> /\ stage'[c] = "head"
      /\ \A d \in Conns \ {c} : got'[d] = got[d] /\ inbox'[d] = inbox[d] /\ stage'[d] = stage[d]
  BY <1>1, <1>2 DEF Reset, TypeOK
<1>4. Stream(c)' = <<>>
  BY <1>3 DEF Stream
<1>5. Collected(c)'
  BY <1>3, ServerAssumption DEF Collected
<1>6. ASSUME NEW d \in Conns PROVE WholeStream(d)'
  <2>1. CASE d = c
    BY <1>4, <1>5, <2>1, FramedEmpty DEF WholeStream
  <2>2. CASE d # c
    <3>1. Stream(d)' = Stream(d) /\ Collected(d)'
      BY <1>1, <1>3, <2>2 DEF Stream, Streams, WholeStream, Collected
    <3> QED BY <1>1, <3>1 DEF Streams, WholeStream
  <2> QED BY <2>1, <2>2
<1>7. Attending' /\ \A d \in Conns : got'[d] # <<>> => d \in epoll'
  BY <1>1, <1>3 DEF Streams, Attending
<1> QED BY <1>6, <1>7 DEF Streams

LEMMA StreamsStep ==
    ASSUME TypeOK, Tables, Streams, Next PROVE Streams'
<1>1. pc \in [Threads -> Places] /\ "rcv" \in Threads /\ "cb" \in Threads
  BY TypeParts DEF PlacesType, Threads
<1>2. \A t \in Threads : \A place : Goes(t, place) =>
        pc'[t] = place /\ \A u \in Threads \ {t} : pc'[u] = pc[u]
  BY Going
<1>3. ASSUME NEW c \in Conns, ReadNothing(c) PROVE Streams'
  BY <1>1, <1>2, <1>3, StreamsKept DEF ReadNothing, protocol, clients, history, tables
<1>4. ASSUME NEW c \in Conns, ReadEnds(c) PROVE Streams'
  <2>1. /\ UNCHANGED <<got, inbox, stage, sent, client, epoll>> /\ pc'["rcv"] = "closing"
        /\ client[c] = "closed" /\ conn' = c
    BY <1>1, <1>2, <1>4 DEF ReadEnds, protocol, clients, history, tables
  <2>2. Attending'
    BY <2>1 DEF Attending
  <2>3. \A d \in Conns : WholeStream(d)'
    BY <2>1 DEF Streams, WholeStream, Collected, Stream
  <2> QED BY <2>1, <2>2, <2>3 DEF Streams
<1>5. ASSUME NEW c \in Conns, CloseUnmaps(c) PROVE Streams'
  <2>1. /\ UNCHANGED <<got, inbox, stage, sent, client, epoll, conn>> /\ pc'["rcv"] = "unmapped"
        /\ pc["rcv"] = "closing"
    BY <1>1, <1>2, <1>5 DEF CloseUnmaps, protocol, clients, history
  <2>2. Attending'
    BY <2>1, FaultsGrow DEF Streams, Attending
  <2>3. \A d \in Conns : WholeStream(d)'
    BY <2>1 DEF Streams, WholeStream, Collected, Stream
  <2> QED BY <2>1, <2>2, <2>3 DEF Streams
<1>6. ASSUME NEW c \in Conns, Accept(c) \/ AcceptRefused(c) \/ AcceptUnmapped(c) \/ AcceptUnlisted(c)
      PROVE  Streams'
  <2>1. /\ UNCHANGED <<got, inbox, stage, sent, client, pc, conn>> /\ epoll \subseteq epoll'
    BY <1>6 DEF Accept, AcceptRefused, AcceptUnmapped, AcceptUnlisted, Opens, protocol, clients,
       history
  <2> QED BY <2>1, StreamsKept
<1>7. ASSUME NEW c \in Conns, ReadReply(c) PROVE Streams'
  BY <1>7, StreamsKept DEF ReadReply, protocol, history, tables
<1>8. ASSUME NEW t \in Threads, Sent(t) \/ Goes(t, "writing"), UNCHANGED conn
      PROVE  \/ pc'["rcv"] = pc["rcv"] /\ conn' = conn
             \/ pc'["rcv"] \notin {"reading", "handling", "closing", "unmapped"}
  <2>1. t \in {"rcv", "cb"}
    BY DEF Threads
  <2>2. CASE t = "cb"
    BY <1>1, <1>2, <1>8, <2>2, SentMoves
  <2>3. CASE t = "rcv"
    BY <1>1, <1>2, <1>8, <2>3, SentMoves
  <2> QED BY <2>1, <2>2, <2>3
<1>9. ASSUME NEW t \in Threads, \/ SendBegins(t) \/ SendUnknown(t) \/ SendFails(t)
                                \/ SendWrites(t) \/ SendBroken(t)
      PROVE  Streams'
  <2>1. /\ UNCHANGED <<got, inbox, stage, sent, client, epoll, conn>>
        /\ Sent(t) \/ Goes(t, "writing")
    BY <1>9 DEF SendBegins, SendUnknown, SendFails, SendWrites, SendBroken, tables, protocol,
       clients, history
  <2> QED BY <1>8, <2>1, StreamsKept
<1>10. ASSUME PipeRead \/ Callback PROVE Streams'
  <2>1. UNCHANGED <<got, inbox, stage, sent, client, epoll, conn>>
    BY <1>10 DEF PipeRead, Callback, tables, protocol, clients, history
  <2>2. Goes("cb", "calling") \/ Goes("cb", "sending") \/ Sent("cb")
    BY <1>10 DEF PipeRead, Callback
  <2>3. pc'["rcv"] = pc["rcv"]
    BY <1>1, <1>2, <2>2, SentMoves DEF Threads
  <2> QED BY <2>1, <2>3, StreamsKept
<1>11. ASSUME PipeWrite PROVE Streams'
  <2>1. UNCHANGED <<got, inbox, stage, sent, client, epoll>> /\ pc'["rcv"] = "polling"
    BY <1>1, <1>2, <1>11 DEF PipeWrite, Drops, tables, protocol, clients, history
  <2> QED BY <2>1, StreamsKept
<1> QED BY <1>3, <1>4, <1>5, <1>6, <1>7, <1>9, <1>10, <1>11, ReadKeepsStreams, HandleKeepsStreams,
           SendKeepsStreams, CloseKeepsStreams, EndKeepsStreams, StepCases

-----------------------------------------------------------------------------
(* Theorems *)

LEMMA ServerInvInit == Init => ServerInv
<1> SUFFICES ASSUME Init PROVE ServerInv
  OBVIOUS
<1>1. Len(<<>>) = 0 /\ "rcv" \in Threads /\ "cb" \in Threads /\ None \notin Threads
  BY ServerAssumption DEF Threads
<1>2. TablesType /\ PlacesType
  BY <1>1 DEF Init, TablesType, PlacesType, Places
<1>3. <<>> \in Seq(Pieces) /\ <<>> \in Seq(MsgIds) /\ <<>> \in Seq(Messages) /\ <<>> \in Seq(MessageTypes)
  OBVIOUS
<1>4. StreamsType /\ ClientsType
  BY <1>1, <1>3, ServerAssumption DEF Init, StreamsType, ClientsType
<1>5. ThreadsType /\ HistoryType
  BY <1>1, <1>3, ServerAssumption DEF Init, ThreadsType, HistoryType
<1>6. TypeOK
  BY <1>2, <1>4, <1>5, TypeParts
<1>7. Tables
  BY <1>1 DEF Init, Tables
<1>8. Writers
  BY <1>1 DEF Init, Writers
<1>9. Held
  BY <1>1 DEF Init, Held, HeldInPipe, HeldByReceiver, HeldByCallback
<1>10. \A c \in Conns : Stream(c) = <<>>
  BY DEF Init, Stream
<1>11. \A c \in Conns : Collected(c)
  BY <1>1, ServerAssumption DEF Init, Collected
<1>12. \A c \in Conns : WholeStream(c)
  BY <1>10, <1>11, FramedEmpty DEF WholeStream
<1>13. Streams
  BY <1>1, <1>12 DEF Init, Streams, Attending
<1> QED BY <1>6, <1>7, <1>8, <1>9, <1>13 DEF ServerInv

LEMMA ServerInvStep == ServerInv /\ [Next]_vars => ServerInv'
<1> SUFFICES ASSUME ServerInv, [Next]_vars PROVE ServerInv'
  OBVIOUS
<1>1. CASE Next
  BY <1>1, TypeStep, TablesStep, WritersStep, HeldStep, StreamsStep DEF ServerInv
<1>2. CASE UNCHANGED vars
  <2> USE <1>2 DEF vars, tables, protocol, clients, history
  <2>1. TypeOK'
    BY DEF ServerInv, TypeOK
  <2>2. Tables' /\ Writers'
    BY DEF ServerInv, Tables, Writers
  <2>3. Held'
    BY DEF ServerInv, Held, HeldInPipe, HeldByReceiver, HeldByCallback, Genuine, KindOf
  <2>4. \A c \in Conns : WholeStream(c)'
    BY DEF ServerInv, Streams, WholeStream, Collected, Stream
  <2>5. Streams'
    BY <2>4 DEF ServerInv, Streams, Attending
  <2> QED BY <2>1, <2>2, <2>3, <2>5 DEF ServerInv
<1> QED BY <1>1, <1>2

LEMMA ServerInvariant == Spec => []ServerInv
BY ServerInvInit, ServerInvStep, PTL DEF Spec

\* Between the two halves of uc_ipc_server_close_cli the receiving thread does nothing else.
LEMMA Unmapped ==
    ASSUME TypeOK, Next, pc["rcv"] = "unmapped"
    PROVE  \/ pc'["rcv"] = "unmapped" /\ conn' = conn
           \/ \E c \in Conns : CloseEnds(c)
<1>1. "rcv" \in Threads /\ "cb" \in Threads /\ "cb" # "rcv" /\ \A t \in Threads : t \in {"rcv", "cb"}
  BY DEF Threads
<1>2. \A t \in Threads : \A place : Goes(t, place) => \A u \in Threads \ {t} : pc'[u] = pc[u]
  BY Going
<1>3. ASSUME NEW c \in Conns, Send(c) \/ ReadReply(c) \/ Close(c)
      PROVE  pc' = pc /\ conn' = conn
  BY <1>3 DEF Send, ReadReply, Close
<1>4. ASSUME NEW c \in Conns, \/ Accept(c) \/ AcceptRefused(c) \/ AcceptUnmapped(c)
                              \/ AcceptUnlisted(c)
      PROVE  FALSE
  BY <1>4 DEF Accept, AcceptRefused, AcceptUnmapped, AcceptUnlisted, Accepts
<1>5. ASSUME NEW c \in Conns, \/ ReadHead(c) \/ ReadHeadFails(c) \/ ReadBuf(c)
                              \/ ReadNothing(c) \/ ReadEnds(c)
      PROVE  FALSE
  BY <1>5 DEF ReadHead, ReadHeadFails, ReadBuf, Takes, ReadNothing, ReadEnds, Attends
<1>6. ASSUME NEW c \in Conns, CloseUnmaps(c) \/ Handle(c) \/ HandleFails(c) PROVE FALSE
  BY <1>6 DEF CloseUnmaps, Handle, HandleFails
<1>7. ASSUME PipeWrite PROVE FALSE
  BY <1>7 DEF PipeWrite
<1>8. ASSUME PipeRead \/ Callback PROVE pc'["rcv"] = pc["rcv"] /\ conn' = conn
  BY <1>1, <1>2, <1>8, SentMoves DEF PipeRead, Callback
<1>9. ASSUME NEW t \in Threads, \/ SendBegins(t) \/ SendUnknown(t) \/ SendFails(t)
                                \/ SendWrites(t) \/ SendBroken(t)
      PROVE  pc'["rcv"] = pc["rcv"] /\ conn' = conn
  <2>1. pc[t] \in {"sending", "writing"} /\ (Goes(t, "writing") \/ Sent(t)) /\ conn' = conn
    BY <1>9 DEF SendBegins, SendUnknown, SendFails, SendWrites, SendBroken
  <2>2. t # "rcv"
    BY <2>1
  <2> QED BY <1>1, <1>2, <2>1, <2>2, SentMoves
<1> QED BY <1>3, <1>4, <1>5, <1>6, <1>7, <1>8, <1>9, StepCases

\* As long as no call fails, the three tables agree.
LEMMA TablesKeptStep ==
    ASSUME TypeOK, Tables, Streams, TablesKept, Next PROVE TablesKept'
<1> SUFFICES ASSUME faults' = 0 PROVE TablesKept'
  BY DEF TablesKept
<1>1. /\ faults = 0 /\ cli_info_hash = epoll
      /\ DOMAIN cli_fd_hash = epoll \ {c \in Conns : pc["rcv"] = "unmapped" /\ conn = c}
      /\ \A c \in Conns : cli[c] = "live" => c \in epoll
  BY FaultsGrow DEF TablesKept
<1>2. TablesType /\ pc \in [Threads -> Places] /\ "rcv" \in Threads
  BY TypeParts DEF PlacesType, Threads
<1>3. ASSUME NEW c \in Conns, AcceptRefused(c) \/ AcceptUnmapped(c) \/ AcceptUnlisted(c)
      PROVE  FALSE
  BY <1>1, <1>3 DEF AcceptRefused, AcceptUnmapped, AcceptUnlisted, Fails
<1>4. ASSUME NEW c \in Conns, Accept(c) PROVE TablesKept'
  <2>1. PICK fd \in Fds : Opens(c, fd) /\ Maps(c, fd)
    BY <1>4 DEF Accept
  <2>2. Accepts(c) /\ UNCHANGED pc /\ cli_info_hash' = cli_info_hash \cup {c}
    BY <1>4 DEF Accept
  <2>3. pc["rcv"] = "polling" /\ pc'["rcv"] = "polling"
    BY <2>2 DEF Accepts
  <2>4. DOMAIN cli_fd_hash' = DOMAIN cli_fd_hash \cup {c} /\ epoll' = epoll \cup {c}
    BY <2>1 DEF Opens, Maps
  <2>5. \A d \in Conns : cli'[d] = "live" => d \in epoll'
    BY <1>1, <1>2, <2>1 DEF Opens, TablesType
  <2> QED BY <1>1, <2>2, <2>3, <2>4, <2>5 DEF TablesKept
<1>5. ASSUME NEW c \in Conns, CloseUnmaps(c) PROVE TablesKept'
  <2>1. /\ pc["rcv"] = "closing" /\ pc'["rcv"] = "unmapped" /\ conn = c /\ conn' = c
        /\ UNCHANGED <<epoll, cli_info_hash, cli>>
    BY <1>2, <1>5 DEF CloseUnmaps, Goes
  <2>2. cli_fd_hash' = [d \in DOMAIN cli_fd_hash \ {c} |-> cli_fd_hash[d]]
    BY <1>5 DEF CloseUnmaps
  <2>3. DOMAIN cli_fd_hash' = DOMAIN cli_fd_hash \ {c}
    BY <2>2
  <2> QED BY <1>1, <2>1, <2>3 DEF TablesKept
<1>6. ASSUME NEW c \in Conns, CloseEnds(c) PROVE TablesKept'
  <2>1. /\ pc["rcv"] = "unmapped" /\ pc'["rcv"] = "polling" /\ conn = c /\ epoll' = epoll \ {c}
        /\ cli_info_hash' = cli_info_hash \ {c} /\ UNCHANGED cli_fd_hash
        /\ cli' = [cli EXCEPT ![c] = IF c \in cli_info_hash THEN "freed" ELSE @]
    BY <1>2, <1>6 DEF CloseEnds, Goes
  <2>2. c \in cli_info_hash
    BY <1>1, <2>1 DEF Tables
  <2>3. \A d \in Conns : cli'[d] = "live" => d \in epoll'
    BY <1>1, <1>2, <2>1, <2>2 DEF TablesType
  <2> QED BY <1>1, <2>1, <2>3 DEF TablesKept
<1>7. CASE UNCHANGED tables /\ ~ \E c \in Conns : CloseUnmaps(c) \/ CloseEnds(c)
  <2>1. UNCHANGED <<cli_info_hash, cli_fd_hash, epoll, cli>>
    BY <1>7 DEF tables
  <2>2. CASE pc["rcv"] = "unmapped"
    <3>1. pc'["rcv"] = "unmapped" /\ conn' = conn
      BY <1>7, <2>2, Unmapped
    <3> QED BY <1>1, <2>1, <2>2, <3>1 DEF TablesKept
  <2>3. CASE pc["rcv"] # "unmapped"
    <3>1. pc'["rcv"] # "unmapped"
      BY <1>3, <1>7, <2>3, ReceiverMoves
    <3> QED BY <1>1, <2>1, <2>3, <3>1 DEF TablesKept
  <2> QED BY <2>2, <2>3
<1>8. \/ UNCHANGED tables
      \/ \E c \in Conns : \/ Accept(c) \/ AcceptRefused(c) \/ AcceptUnmapped(c)
                          \/ AcceptUnlisted(c) \/ CloseUnmaps(c) \/ CloseEnds(c)
  BY StepCases DEF Send, ReadReply, Close, ReadHead, ReadHeadFails, ReadBuf, Takes, ReadNothing,
     ReadEnds, Handle, HandleFails, PipeWrite, PipeRead, Callback, SendBegins, SendUnknown,
     SendFails, SendWrites, SendBroken
<1> QED BY <1>3, <1>4, <1>5, <1>6, <1>7, <1>8

LEMMA TablesKeptInvariant == Spec => []TablesKept
<1>1. Init => TablesKept
  BY DEF Init, TablesKept
<1>2. ServerInv /\ TablesKept /\ [Next]_vars => TablesKept'
  <2> SUFFICES ASSUME ServerInv, TablesKept, [Next]_vars PROVE TablesKept'
    OBVIOUS
  <2>1. CASE Next
    BY <2>1, TablesKeptStep DEF ServerInv
  <2>2. CASE UNCHANGED vars
    BY <2>2 DEF vars, tables, history, TablesKept
  <2> QED BY <2>1, <2>2
<1> QED BY <1>1, <1>2, ServerInvariant, PTL DEF Spec

\* What is collected for a client is the begin of the first message of its stream.
LEMMA CollectedWhole ==
    ASSUME TypeOK, Streams, NEW c \in Conns, got[c] # <<>>
    PROVE  \E id \in 1..Len(sent) : LET frame == Frame(id, sent[id].ttl) IN
            /\ sent[id].conn = c
            /\ Len(got[c]) <= Len(frame) /\ got[c] = SubSeq(frame, 1, Len(got[c]))
            /\ stage[c] = "done" => Len(got[c]) = Len(frame)
<1>1. PICK g \in Seq(Pieces) : g = got[c]
  BY StateTypes
<1>2. Len(g) > 0 /\ Len(got[c]) > 0
  BY <1>1
<1>3. PICK s \in Seq(Pieces) : s = Stream(c)
  BY StreamParts
<1>4. Len(s) > 0 /\ Id(g, 1) = Id(s, 1)
  BY <1>1, <1>2, <1>3, FirstCollected
<1>5. PICK id \in 1..Len(sent) : id = Id(s, 1)
  BY <1>3, <1>4, FirstMessage
<1>6. /\ id \in MsgIds /\ sent[id].conn = c /\ sent[id] \in MessageTypes
      /\ FrameLen(sent, id) \in Nat /\ FrameLen(sent, id) >= HeadLen
      /\ FrameLen(sent, id) = HeadLen + sent[id].ttl
  BY <1>3, <1>4, <1>5, FirstMessage
<1>7. Collected(c) /\ Framed(sent, s, c) /\ stage[c] \in {"head", "buf", "done"} /\ HeadLen \in Nat
      /\ sent \in Seq(MessageTypes)
  BY <1>3, StateTypes, ServerAssumption DEF Streams, WholeStream, TypeOK
<1>8. Len(g) <= FrameLen(sent, id) /\ (stage[c] = "done" => Len(g) = FrameLen(sent, id))
  BY <1>1, <1>4, <1>5, <1>6, <1>7 DEF Collected
<1>9. Len(s) >= Len(g) /\ \A k \in 1..Len(g) : k \in 1..Len(s) /\ s[k] = g[k]
  <2>1. Len(s) = Len(g) + Len(inbox[c]) /\ \A k \in 1..Len(g) : s[k] = g[k]
    BY <1>1, <1>3, StreamParts
  <2>2. Len(inbox[c]) \in Nat
    BY StateTypes
  <2> QED BY <2>1, <2>2
<1>10. \A k \in 1..Len(g) : g[k] = <<id, k>>
  <2> TAKE k \in 1..Len(g)
  <2>1. k \in 1..Len(s) /\ k <= FrameLen(sent, Id(s, 1))
    BY <1>5, <1>6, <1>8, <1>9
  <2>2. Id(s, k) = id /\ Pos(s, k) = k
    BY <1>5, <1>7, <2>1, FramedFirst
  <2>3. s[k] = <<Id(s, k), Pos(s, k)>>
    BY <2>1, PieceTypes
  <2> QED BY <1>9, <2>2, <2>3
<1>11. PICK f \in Seq(Pieces) : f = Frame(id, sent[id].ttl)
  BY <1>6, FrameParts DEF MessageTypes
<1>12. Len(f) = FrameLen(sent, id) /\ \A k \in 1..Len(f) : f[k] = <<id, k>>
  <2>1. Len(f) = FrameLen(sent, id)
    BY <1>6, <1>11, FrameParts DEF MessageTypes
  <2>2. f = [k \in 1..(HeadLen + sent[id].ttl) |-> <<id, k>>]
    BY <1>11 DEF Frame
  <2> QED BY <1>6, <2>1, <2>2
<1>13. PICK b \in Seq(Pieces) : b = SubSeq(f, 1, Len(g))
  <2>1. Len(g) \in 0..Len(f)
    BY <1>8, <1>12
  <2>2. SubSeq(f, 1, Len(g)) \in Seq(Pieces)
    BY <2>1, Cut
  <2> QED BY <2>2, Zenon
<1>14. Len(b) = Len(g) /\ \A k \in 1..Len(g) : b[k] = f[k]
  <2>1. Len(g) \in 0..Len(f)
    BY <1>8, <1>12
  <2> QED BY <1>13, <2>1, Cut
<1>15. \A k \in 1..Len(g) : g[k] = b[k]
  <2>1. \A k \in 1..Len(g) : k \in 1..Len(f)
    BY <1>6, <1>8, <1>12
  <2> QED BY <1>10, <1>12, <1>14, <2>1
<1>16. g = b
  BY <1>14, <1>15, SeqEqual
<1>17. got[c] = SubSeq(Frame(id, sent[id].ttl), 1, Len(got[c]))
  BY <1>1, <1>11, <1>13, <1>16, Zenon
<1>18. /\ Len(got[c]) <= Len(Frame(id, sent[id].ttl))
       /\ stage[c] = "done" => Len(got[c]) = Len(Frame(id, sent[id].ttl))
  BY <1>1, <1>8, <1>11, <1>12
<1> QED BY <1>6, <1>17, <1>18, Zenon

\* The server's state has its types: the pipe and the send buffers stay within their
\* capacity, and every message and descriptor in hand is one there is.
THEOREM TypeCorrect == Spec => []TypeOK
BY ServerInvariant, PTL DEF ServerInv

\* Whatever is accepted, closed and used again while replies are on their way: a uuid
\* leads to an open descriptor of the client it was drawn for (cli_fd_hash).
THEOREM MapsToOwnSocketAlways == Spec => []MapsToOwnSocket
<1>1. Tables => MapsToOwnSocket
  BY DEF Tables, MapsToOwnSocket
<1> QED BY <1>1, ServerInvariant, PTL DEF ServerInv

\* epoll never points to a freed uc_ipc_cli_t or one whose descriptor is closed, and
\* the tables agree unless memory was short.
THEOREM TablesAgreeAlways == Spec => []TablesAgree
<1>1. Tables /\ TablesKept => TablesAgree
  BY DEF Tables, TablesKept, TablesAgree
<1> QED BY <1>1, ServerInvariant, TablesKeptInvariant, PTL DEF ServerInv

\* The pieces that read returns are put together to whole messages of the client,
\* for every size of header, message and read block (uc_ipc_server_read_client).
THEOREM FramesWholeAlways == Spec => []FramesWhole
<1>1. ServerInv => FramesWhole
  BY CollectedWhole DEF ServerInv, Streams, Attending, FramesWhole
<1> QED BY <1>1, ServerInvariant, PTL

=============================================================================
