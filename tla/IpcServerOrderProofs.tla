------------------------ MODULE IpcServerOrderProofs ------------------------
(***************************************************************************)
(* Proofs about the server: the callback gets the messages of each client  *)
(* once, in the order they were sent and without a gap, and the server     *)
(* implements the abstract service: what is answered was asked for, by the *)
(* client that gets the answer, and is answered once.                      *)
(***************************************************************************)
EXTENDS IpcServerProofs

\* The messages for the callback, in the order they get there: those it was called
\* for, the one it is called for, those in the pipe and the one in hand.
Ids(messages) == [i \in 1..Len(messages) |-> messages[i].id]
Calling == IF pc["cb"] = "calling" THEN <<msg["cb"].id>> ELSE <<>>
Handled == IF msg["rcv"] # NoMsg /\ KindOf(msg["rcv"]) # "heartbeat"
           THEN <<msg["rcv"].id>> ELSE <<>>
Path == ((delivered \o Calling) \o Ids(pipe)) \o Handled

\* On the path the messages of a client are in the order it sent them, and ahead of
\* all that is left in its stream.
PathOrder ==
    /\ \A i \in 1..Len(Path) : Path[i] \in 1..Len(sent)
    /\ \A i, j \in 1..Len(Path) :
        i < j /\ sent[Path[i]].conn = sent[Path[j]].conn => Path[i] < Path[j]
    /\ \A c \in Conns : \A i \in 1..Len(Path), k \in 1..Len(Stream(c)) :
        sent[Path[i]].conn = c => Path[i] < Id(Stream(c), k)

\* A sync_send is answered when the callback has been called for it.
AnswersLate ==
    /\ pc["cb"] \in {"sending", "writing"} => WasDelivered(msg["cb"].id)
    /\ \A c \in Conns : \A i \in 1..Len(outbox[c]) :
        /\ outbox[c][i] \in 1..Len(sent)
        /\ sent[outbox[c][i]].kind = "sync" => WasDelivered(outbox[c][i])

\* A message on its way to the callback, or there.
OnPath(id) == \E i \in 1..Len(Path) : Path[i] = id
InStream(id) == \E k \in 1..Len(Stream(sent[id].conn)) : Id(Stream(sent[id].conn), k) = id
OnWay(id) == OnPath(id) \/ InStream(id)

ForCallback == {id \in 1..Len(sent) : sent[id].kind \in {"async", "sync"}}

\* Unless memory was short, nothing is lost but the last messages of a client that
\* has closed its connection.
Kept == faults = 0 =>
    /\ \A id \in ForCallback :
        /\ client[sent[id].conn] = "connected" => OnWay(id)
        /\ \A later \in 1..Len(sent) :
            id < later /\ sent[later].conn = sent[id].conn /\ OnWay(later) => OnWay(id)
    /\ \A c \in Conns : client[c] = "connected" /\ cli[c] # "absent" => c \in epoll

OrderInv == PathOrder /\ AnswersLate /\ Kept

-----------------------------------------------------------------------------
(* The path *)

LEMMA IdsTyped ==
    ASSUME NEW p \in Seq(Messages)
    PROVE  Ids(p) \in Seq(MsgIds) /\ Len(Ids(p)) = Len(p) /\ \A i \in 1..Len(p) : Ids(p)[i] = p[i].id
<1>1. Len(p) \in Nat /\ \A i \in 1..Len(p) : p[i].id \in MsgIds
  <2>1. \A i \in 1..Len(p) : p[i] \in Messages
    OBVIOUS
  <2>2. \A m \in Messages : m.id \in MsgIds
    BY DEF Messages
  <2> QED BY <2>1, <2>2
<1> QED BY <1>1 DEF Ids

\* What is written to the pipe goes from the end of the path to the end of the pipe,
LEMMA PathWrite ==
    ASSUME NEW x \in Seq(MsgIds), NEW p \in Seq(Messages), NEW m \in Messages
    PROVE  (x \o Ids(Append(p, m))) \o <<>> = (x \o Ids(p)) \o <<m.id>>
<1>1. m.id \in MsgIds
  BY DEF Messages
<1>2. PICK a \in Seq(MsgIds) : a = Ids(p)
  BY IdsTyped
<1>3. Append(p, m) \in Seq(Messages) /\ Len(Append(p, m)) = Len(p) + 1
  OBVIOUS
<1>4. PICK b \in Seq(MsgIds) : b = Ids(Append(p, m))
  BY <1>3, IdsTyped
<1>5. Len(b) = Len(a) + 1 /\ Len(a) = Len(p)
  BY <1>2, <1>3, <1>4, IdsTyped
<1>6. \A i \in 1..Len(a) : b[i] = a[i]
  <2>1. \A i \in 1..Len(p) : Append(p, m)[i] = p[i] /\ i \in 1..Len(Append(p, m))
    OBVIOUS
  <2>2. \A i \in 1..Len(p) : b[i] = p[i].id /\ a[i] = p[i].id
    BY <1>2, <1>3, <1>4, <2>1, IdsTyped
  <2> QED BY <1>5, <2>2
<1>7. b[Len(a) + 1] = m.id
  <2>1. Append(p, m)[Len(p) + 1] = m /\ Len(p) + 1 \in 1..Len(Append(p, m))
    OBVIOUS
  <2> QED BY <1>3, <1>4, <1>5, <2>1, IdsTyped
<1>8. PICK n \in MsgIds : n = m.id
  BY <1>1
<1>9. b = Append(a, n)
  BY <1>5, <1>6, <1>7, <1>8
<1>10. (x \o Append(a, n)) \o <<>> = (x \o a) \o <<n>>
  OBVIOUS
<1> QED BY <1>2, <1>4, <1>8, <1>9, <1>10, Zenon

\* what is read from it from its begin to the callback,
LEMMA PathRead ==
    ASSUME NEW d \in Seq(MsgIds), NEW p \in Seq(Messages), p # <<>>, NEW h
    PROVE  ((d \o <<>>) \o Ids(p)) \o h = ((d \o <<Head(p).id>>) \o Ids(Tail(p))) \o h
<1>1. PICK a \in Seq(MsgIds) : a = Ids(p)
  BY IdsTyped
<1>2. /\ Tail(p) \in Seq(Messages) /\ Len(Tail(p)) = Len(p) - 1 /\ Len(p) > 0
      /\ \A i \in 1..Len(Tail(p)) : i + 1 \in 1..Len(p) /\ Tail(p)[i] = p[i + 1]
      /\ Head(p) = p[1] /\ Head(p) \in Messages
  OBVIOUS
<1>3. PICK b \in Seq(MsgIds) : b = Ids(Tail(p))
  BY <1>2, IdsTyped
<1>4. PICK n \in MsgIds : n = Head(p).id
  BY <1>2 DEF Messages
<1>5. Len(a) = Len(p) /\ a[1] = n
  BY <1>1, <1>2, <1>4, IdsTyped
<1>6. Len(b) = Len(a) - 1 /\ \A i \in 1..Len(b) : b[i] = a[i + 1]
  <2>1. Len(b) = Len(Tail(p)) /\ \A i \in 1..Len(b) : b[i] = Tail(p)[i].id
    BY <1>2, <1>3, IdsTyped
  <2>2. \A i \in 1..Len(p) : a[i] = p[i].id
    BY <1>1, IdsTyped
  <2> QED BY <1>2, <1>5, <2>1, <2>2
<1>7. Len(a) > 0
  BY <1>2, <1>5
<1>8. (d \o <<>>) \o a = (d \o <<n>>) \o b
  <2>1. PICK x \in Seq(MsgIds) : x = d \o a
    <3>1. d \o a \in Seq(MsgIds)
      OBVIOUS
    <3> QED BY <3>1, Zenon
  <2>2. PICK e \in Seq(MsgIds) : e = d \o <<n>>
    <3>1. d \o <<n>> \in Seq(MsgIds)
      OBVIOUS
    <3> QED BY <3>1, Zenon
  <2>3. PICK y \in Seq(MsgIds) : y = e \o b
    <3>1. e \o b \in Seq(MsgIds)
      OBVIOUS
    <3> QED BY <3>1, Zenon
  <2>4. Len(e) = Len(d) + 1 /\ e[Len(d) + 1] = n /\ \A i \in 1..Len(d) : e[i] = d[i]
    BY <2>2
  <2>5. /\ Len(x) = Len(d) + Len(a) /\ \A i \in 1..Len(d) : x[i] = d[i]
        /\ \A i \in 1..Len(a) : x[Len(d) + i] = a[i]
    BY <2>1, Joined
  <2>6. /\ Len(y) = Len(e) + Len(b) /\ \A i \in 1..Len(e) : y[i] = e[i]
        /\ \A i \in 1..Len(b) : y[Len(e) + i] = b[i]
    BY <2>3, Joined
  <2>7. Len(x) = Len(y)
    BY <1>6, <2>4, <2>5, <2>6
  <2>8. ASSUME NEW i \in 1..Len(x) PROVE x[i] = y[i]
    <3>1. CASE i <= Len(d)
      BY <2>4, <2>5, <2>6, <3>1
    <3>2. CASE i = Len(d) + 1
      BY <1>5, <1>7, <2>4, <2>5, <2>6, <3>2
    <3>3. CASE i > Len(d) + 1
      <4>1. PICK j \in Nat : j = i - (Len(d) + 1)
        <5>1. i - (Len(d) + 1) \in Nat
          BY <3>3
        <5> QED BY <5>1, Zenon
      <4>2. j \in 1..Len(b) /\ i = (Len(d) + 1) + j /\ i = Len(d) + (j + 1) /\ j + 1 \in 1..Len(a)
        BY <1>6, <2>5, <3>3, <4>1
      <4>3. x[i] = a[j + 1] /\ y[i] = b[j]
        BY <2>4, <2>5, <2>6, <4>2
      <4> QED BY <1>6, <4>2, <4>3
    <3> QED BY <3>1, <3>2, <3>3
  <2>9. x = y
    BY <2>7, <2>8, SeqEqual
  <2>10. d \o <<>> = d
    OBVIOUS
  <2> QED BY <2>1, <2>2, <2>3, <2>9, <2>10, Zenon
<1> QED BY <1>1, <1>3, <1>4, <1>8, Zenon

\* and there it stays.
LEMMA PathCall ==
    ASSUME NEW d \in Seq(MsgIds), NEW n \in MsgIds
    PROVE  Append(d, n) \o <<>> = d \o <<n>>
OBVIOUS

LEMMA PathTyped ==
    ASSUME TypeOK, Held
    PROVE  /\ delivered \in Seq(MsgIds) /\ Calling \in Seq(MsgIds)
           /\ Ids(pipe) \in Seq(MsgIds) /\ Handled \in Seq(MsgIds)
           /\ delivered \o Calling \in Seq(MsgIds)
           /\ (delivered \o Calling) \o Ids(pipe) \in Seq(MsgIds)
           /\ Path \in Seq(MsgIds) /\ Len(delivered) <= Len(Path)
           /\ \A i \in 1..Len(delivered) : Path[i] = delivered[i]
<1>1. delivered \in Seq(MsgIds) /\ pipe \in Seq(Messages)
  BY DEF TypeOK, Messages
<1>2. Calling \in Seq(MsgIds)
  <2>1. pc["cb"] = "calling" => msg["cb"].id \in MsgIds
    BY InHands DEF Threads
  <2> QED BY <2>1 DEF Calling
<1>3. Handled \in Seq(MsgIds)
  <2>1. msg["rcv"] # NoMsg => msg["rcv"].id \in MsgIds
    <3>1. msg["rcv"] \in Messages \cup {NoMsg}
      BY DEF TypeOK, Messages, Threads
    <3> QED BY <3>1 DEF Messages
  <2> QED BY <2>1 DEF Handled
<1>4. Ids(pipe) \in Seq(MsgIds)
  BY <1>1, IdsTyped
<1>5. PICK d, k, p, h \in Seq(MsgIds) : d = delivered /\ k = Calling /\ p = Ids(pipe) /\ h = Handled
  BY <1>1, <1>2, <1>3, <1>4
<1>6. /\ d \o k \in Seq(MsgIds) /\ (d \o k) \o p \in Seq(MsgIds)
      /\ ((d \o k) \o p) \o h \in Seq(MsgIds)
      /\ Len(d) <= Len(((d \o k) \o p) \o h)
      /\ \A i \in 1..Len(d) : (((d \o k) \o p) \o h)[i] = d[i]
  OBVIOUS
<1> QED BY <1>1, <1>2, <1>3, <1>4, <1>5, <1>6 DEF Path

\* The path is left alone by most steps, where it is seen in its parts.
LEMMA PathSame ==
    ASSUME UNCHANGED <<delivered, pipe>>, Calling' = Calling, Handled' = Handled
    PROVE  Path' = Path
BY DEF Path, Ids

\* The receiving thread is done with a message that was not for the callback.
LEMMA NotHandled ==
    ASSUME TypeOK, Held, pc["rcv"] \in {"sending", "writing"}, Kind("rcv") = "heartbeat"
    PROVE  Handled = <<>>
BY DEF Handled, KindOf, Kind

\* Only uc_ipc_server_handle_client_msg puts a message on the path.
LEMMA PathKept ==
    ASSUME TypeOK, Tables, Writers, Held, Streams, Next, ~ \E c \in Conns : Handle(c)
    PROVE  Path' = Path
<1>1. /\ "rcv" \in Threads /\ "cb" \in Threads /\ "cb" # "rcv"
      /\ \A t \in Threads : t \in {"rcv", "cb"}
      /\ msg \in [Threads -> Messages \cup {NoMsg}]
  BY TypeParts DEF Threads, ThreadsType
<1>2. \A t \in Threads : \A place : Goes(t, place) =>
        pc'[t] = place /\ \A u \in Threads \ {t} : pc'[u] = pc[u]
  BY Going
<1>3. ASSUME UNCHANGED <<delivered, pipe, sent, msg>>, pc'["cb"] = pc["cb"] PROVE Path' = Path
  BY <1>3, PathSame DEF Calling, Handled, KindOf
<1>4. ASSUME NEW c \in Conns, Send(c) PROVE Path' = Path
  <2>1. UNCHANGED <<delivered, pipe, msg, pc>>
    BY <1>4 DEF Send
  <2>2. msg["rcv"] # NoMsg => Genuine(msg["rcv"])
    BY DEF Held, HeldByReceiver
  <2>3. msg["rcv"] # NoMsg => KindOf(msg["rcv"])' = KindOf(msg["rcv"])
    BY <1>4, <2>1, <2>2, SendTable DEF Genuine, KindOf
  <2> QED BY <2>1, <2>3, PathSame DEF Calling, Handled
<1>5. ASSUME NEW c \in Conns, \/ ReadReply(c) \/ Close(c) \/ Accept(c) \/ AcceptRefused(c)
                              \/ AcceptUnmapped(c) \/ AcceptUnlisted(c)
      PROVE  Path' = Path
  BY <1>3, <1>5 DEF ReadReply, Close, Accept, AcceptRefused, AcceptUnmapped, AcceptUnlisted, history
<1>6. ASSUME NEW c \in Conns, \/ ReadHead(c) \/ ReadHeadFails(c) \/ ReadBuf(c) \/ ReadNothing(c)
                              \/ ReadEnds(c) \/ CloseUnmaps(c) \/ CloseEnds(c)
      PROVE  Path' = Path
  <2>1. UNCHANGED <<delivered, pipe, sent, msg>>
    BY <1>6 DEF ReadHead, ReadHeadFails, ReadBuf, Takes, ReadNothing, ReadEnds, CloseUnmaps,
       CloseEnds, history
  <2>2. \E place : Goes("rcv", place)
    <3>1. ReadHead(c) => \E place : Goes("rcv", place)
      BY DEF ReadHead
    <3>2. ReadBuf(c) => \E place : Goes("rcv", place)
      BY DEF ReadBuf
    <3> QED BY <1>6, <3>1, <3>2 DEF ReadHeadFails, ReadNothing, ReadEnds, CloseUnmaps, CloseEnds
  <2> QED BY <1>1, <1>2, <1>3, <2>1, <2>2
<1>7. ASSUME NEW c \in Conns, HandleFails(c) PROVE Path' = Path
  <2>1. pc["rcv"] = "handling" /\ Drops /\ UNCHANGED <<delivered, pipe, sent>>
    BY <1>7 DEF HandleFails
  <2>2. /\ msg["rcv"] = NoMsg /\ msg'["rcv"] = NoMsg /\ msg'["cb"] = msg["cb"]
        /\ pc'["cb"] = pc["cb"]
    BY <1>1, <1>2, <2>1 DEF Drops, Held, HeldByReceiver
  <2> QED BY <2>1, <2>2, PathSame DEF Calling, Handled
<1>8. ASSUME PipeWrite PROVE Path' = Path
  <2>1. pc["rcv"] = "piping" /\ pipe' = Append(pipe, msg["rcv"]) /\ Drops /\ UNCHANGED delivered
    BY <1>8 DEF PipeWrite, history
  <2>2. /\ msg'["rcv"] = NoMsg /\ msg'["cb"] = msg["cb"] /\ pc'["cb"] = pc["cb"]
    BY <1>1, <1>2, <2>1 DEF Drops
  <2>3. /\ msg["rcv"] \in Messages /\ msg["rcv"] # NoMsg
        /\ KindOf(msg["rcv"]) \in {"async", "sync"}
    BY <1>1, <2>1, InHands DEF KindOf, Kind
  <2>4. Calling' = Calling /\ Handled' = <<>> /\ Handled = <<msg["rcv"].id>>
    BY <2>2, <2>3 DEF Calling, Handled
  <2>5. Path' = ((delivered \o Calling) \o Ids(Append(pipe, msg["rcv"]))) \o <<>>
    BY <2>1, <2>4, Zenon DEF Path, Ids
  <2>6. Path = ((delivered \o Calling) \o Ids(pipe)) \o <<msg["rcv"].id>>
    BY <2>4, Zenon DEF Path
  <2>7. delivered \o Calling \in Seq(MsgIds) /\ pipe \in Seq(Messages)
    BY PathTyped, TypeParts DEF ThreadsType
  <2> QED BY <2>3, <2>5, <2>6, <2>7, PathWrite, Zenon
<1>9. ASSUME PipeRead PROVE Path' = Path
  <2>1. /\ pc["cb"] = "selecting" /\ pipe # <<>> /\ msg' = [msg EXCEPT !["cb"] = Head(pipe)]
        /\ pipe' = Tail(pipe) /\ Goes("cb", "calling") /\ UNCHANGED <<delivered, sent>>
    BY <1>9 DEF PipeRead, history
  <2>2. msg'["rcv"] = msg["rcv"] /\ msg'["cb"] = Head(pipe) /\ pc'["cb"] = "calling"
    BY <1>1, <1>2, <2>1
  <2>3. Calling' = <<Head(pipe).id>> /\ Calling = <<>> /\ Handled' = Handled
    BY <2>1, <2>2 DEF Calling, Handled, KindOf
  <2>4. Path' = ((delivered \o <<Head(pipe).id>>) \o Ids(Tail(pipe))) \o Handled
    BY <2>1, <2>3, Zenon DEF Path, Ids
  <2>5. Path = ((delivered \o <<>>) \o Ids(pipe)) \o Handled
    BY <2>3, Zenon DEF Path
  <2>6. delivered \in Seq(MsgIds) /\ pipe \in Seq(Messages)
    BY PathTyped, TypeParts DEF ThreadsType
  <2> QED BY <2>1, <2>4, <2>5, <2>6, PathRead, Zenon
<1>10. ASSUME NEW t \in Threads, Sent(t), pc[t] \in {"sending", "writing"},
              UNCHANGED <<delivered, pipe, sent>>
       PROVE  Path' = Path
  <2>1. CASE t = "cb"
    <3>1. pc["cb"] # "calling" /\ pc'["cb"] = "selecting" /\ msg'["rcv"] = msg["rcv"]
      BY <1>1, <1>2, <1>10, <2>1, SentMoves
    <3> QED BY <1>10, <3>1, PathSame DEF Calling, Handled, KindOf
  <2>2. CASE t = "rcv" /\ Kind(t) = "heartbeat"
    <3>1. /\ pc'["cb"] = pc["cb"] /\ msg'["cb"] = msg["cb"] /\ msg'["rcv"] = NoMsg
      BY <1>1, <1>2, <1>10, <2>2, SentMoves
    <3>2. Handled = <<>> /\ Handled' = <<>>
      BY <1>10, <2>2, <3>1, NotHandled DEF Handled
    <3> QED BY <1>10, <3>1, <3>2, PathSame DEF Calling
  <2>3. CASE t = "rcv" /\ Kind(t) # "heartbeat"
    <3>1. /\ pc'["cb"] = pc["cb"] /\ msg'["cb"] = msg["cb"] /\ msg'["rcv"] = msg["rcv"]
      BY <1>1, <1>2, <1>10, <2>3, SentMoves
    <3> QED BY <1>10, <3>1, PathSame DEF Calling, Handled, KindOf
  <2> QED BY <1>1, <2>1, <2>2, <2>3
<1>11. ASSUME NEW t \in Threads, \/ SendUnknown(t) \/ SendFails(t)
                                 \/ SendWrites(t) \/ SendBroken(t)
       PROVE  Path' = Path
  <2>1. Sent(t) /\ pc[t] \in {"sending", "writing"} /\ UNCHANGED <<delivered, pipe, sent>>
    BY <1>11 DEF SendUnknown, SendFails, SendWrites, SendBroken, history
  <2> QED BY <1>10, <2>1
<1>12. ASSUME NEW t \in Threads, SendBegins(t) PROVE Path' = Path
  <2>1. /\ pc[t] = "sending" /\ Goes(t, "writing") /\ UNCHANGED <<delivered, pipe, sent, msg>>
    BY <1>12 DEF SendBegins, history
  <2>2. pc'["cb"] = "calling" <=> pc["cb"] = "calling"
    BY <1>1, <1>2, <2>1
  <2> QED BY <2>1, <2>2, PathSame DEF Calling, Handled, KindOf
<1>13. ASSUME Callback PROVE Path' = Path
  <2>1. /\ pc["cb"] = "calling" /\ delivered' = Append(delivered, msg["cb"].id)
        /\ UNCHANGED <<pipe, sent>>
    BY <1>13 DEF Callback
  <2>2. pc'["cb"] # "calling" /\ msg'["rcv"] = msg["rcv"]
    <3>1. CASE Sent("cb")
      BY <1>1, <1>2, <3>1, SentMoves
    <3>2. CASE Goes("cb", "sending") /\ UNCHANGED msg
      BY <1>1, <1>2, <3>2
    <3> QED BY <1>13, <3>1, <3>2 DEF Callback
  <2>3. Calling' = <<>> /\ Calling = <<msg["cb"].id>> /\ Handled' = Handled
    BY <2>1, <2>2 DEF Calling, Handled, KindOf
  <2>4. Path' = ((Append(delivered, msg["cb"].id) \o <<>>) \o Ids(pipe)) \o Handled
    BY <2>1, <2>3, Zenon DEF Path, Ids
  <2>5. Path = ((delivered \o <<msg["cb"].id>>) \o Ids(pipe)) \o Handled
    BY <2>3, Zenon DEF Path
  <2>6. msg["cb"].id \in MsgIds /\ delivered \in Seq(MsgIds)
    BY <1>1, <2>1, InHands, PathTyped
  <2>7. Append(delivered, msg["cb"].id) \o <<>> = delivered \o <<msg["cb"].id>>
    BY <2>6, PathCall, Zenon
  <2> QED BY <2>4, <2>5, <2>7, Zenon
<1> QED BY <1>4, <1>5, <1>6, <1>7, <1>8, <1>9, <1>11, <1>12, <1>13, StepCases

\* It puts it at the end of the path, if it is for the callback.
LEMMA HandlePath ==
    ASSUME TypeOK, Held, Streams, NEW c \in Conns, Handle(c), NEW id, id = got[c][1][1]
    PROVE  /\ sent[id].kind \in {"async", "sync"} => Path' = Append(Path, id)
           /\ sent[id].kind \notin {"async", "sync"} => Path' = Path
           /\ id \in MsgIds /\ id \in 1..Len(sent) /\ sent[id].conn = c /\ stage[c] = "done"
           /\ UNCHANGED <<sent, delivered, client, outbox, inbox, faults>> /\ Reset(c)
<1>1. /\ pc["rcv"] = "handling" /\ conn = c /\ stage[c] = "done" /\ Reset(c)
      /\ UNCHANGED <<sent, delivered, pipe, client, outbox, inbox, faults>>
      /\ msg["rcv"] = NoMsg
  BY DEF Handle, clients, history, Held, HeldByReceiver
<1>2. /\ id \in 1..Len(sent) /\ id \in MsgIds /\ sent[id].conn = c
      /\ sent[id].kind \in {"heartbeat", "async", "sync", "void"}
  <2>1. Len(got[c]) > 0
    BY <1>1 DEF Streams, WholeStream, Collected
  <2> QED BY <2>1, FirstCollected, FirstMessage DEF MessageTypes, Requests
<1>3. /\ "rcv" \in Threads /\ "cb" \in Threads /\ msg \in [Threads -> Messages \cup {NoMsg}]
  BY TypeParts DEF Threads, ThreadsType
<1>4. pc'["cb"] = pc["cb"]
  <2>1. \E place : Goes("rcv", place)
    BY DEF Handle, Drops
  <2> QED BY <1>3, <2>1, Going DEF Threads
<1>5. Handled = <<>>
  BY <1>1 DEF Handled
<1>6. CASE sent[id].kind = "void"
  <2>1. msg'["rcv"] = NoMsg /\ msg'["cb"] = msg["cb"]
    BY <1>3, <1>6 DEF Handle, Drops
  <2>2. Path' = Path
    BY <1>1, <1>4, <1>5, <2>1, PathSame DEF Calling, Handled
  <2> QED BY <1>1, <1>2, <1>6, <2>2
<1>7. CASE sent[id].kind # "void"
  <2>1. msg'["rcv"] = [uuid |-> c, id |-> id] /\ msg'["cb"] = msg["cb"]
    BY <1>3, <1>7 DEF Handle
  <2>2. msg'["rcv"] # NoMsg /\ msg'["rcv"].id = id /\ Calling' = Calling
        /\ KindOf(msg["rcv"])' = sent[id].kind
    BY <1>1, <1>4, <2>1, ServerAssumption DEF NoMsg, Calling, KindOf
  <2>3. CASE sent[id].kind = "heartbeat"
    <3>1. Handled' = <<>>
      BY <2>2, <2>3 DEF Handled
    <3>2. Path' = Path
      BY <1>1, <1>5, <2>2, <3>1, PathSame
    <3> QED BY <1>1, <1>2, <2>3, <3>2
  <2>4. CASE sent[id].kind # "heartbeat"
    <3>1. Handled' = <<id>>
      BY <2>2, <2>4 DEF Handled
    <3>2. PICK x \in Seq(MsgIds) : x = (delivered \o Calling) \o Ids(pipe)
      <4>1. (delivered \o Calling) \o Ids(pipe) \in Seq(MsgIds)
        BY PathTyped
      <4> QED BY <4>1, Zenon
    <3>3. Path' = x \o <<id>>
      BY <1>1, <2>2, <3>1, <3>2, Zenon DEF Path, Ids
    <3>4. Path = x \o <<>>
      BY <1>5, <3>2, Zenon DEF Path
    <3>5. x \o <<>> = x /\ x \o <<id>> = Append(x, id)
      BY <1>2
    <3>6. Path' = Append(Path, id)
      BY <3>3, <3>4, <3>5, Zenon
    <3> QED BY <1>1, <1>2, <1>7, <2>4, <3>6
  <2> QED BY <2>3, <2>4
<1> QED BY <1>6, <1>7

-----------------------------------------------------------------------------
(* The streams *)

LEMMA StreamsSame ==
    ASSUME TypeOK, Streams, Next,
           ~ \E c \in Conns : Send(c) \/ Close(c) \/ CloseEnds(c) \/ Handle(c) \/ HandleFails(c)
    PROVE  \A d \in Conns : Stream(d)' = Stream(d)
<1>1. UNCHANGED <<got, inbox>> => \A d \in Conns : Stream(d)' = Stream(d)
  BY DEF Stream
<1>2. ASSUME NEW c \in Conns, ReadHead(c) \/ ReadHeadFails(c) \/ ReadBuf(c)
      PROVE  \A d \in Conns : Stream(d)' = Stream(d)
  <2>1. stage[c] # "done" /\ Takes(c)
    BY <1>2 DEF ReadHead, ReadHeadFails, ReadBuf
  <2> QED BY <2>1, Taken
<1>3. \/ UNCHANGED <<got, inbox>>
      \/ \E c \in Conns : ReadHead(c) \/ ReadHeadFails(c) \/ ReadBuf(c)
  BY StepCases DEF ReadReply, Accept, AcceptRefused, AcceptUnmapped, AcceptUnlisted, ReadNothing,
     ReadEnds, CloseUnmaps, PipeWrite, PipeRead, Callback, SendBegins, SendUnknown, SendFails,
     SendWrites, SendBroken, clients, protocol
<1> QED BY <1>1, <1>2, <1>3

\* The server closes a connection, and what was not handled is lost.
LEMMA EndStream ==
    ASSUME TypeOK, NEW c \in Conns, CloseEnds(c)
    PROVE  Stream(c)' = <<>> /\ \A d \in Conns \ {c} : Stream(d)' = Stream(d)
<1>1. got \in [Conns -> Seq(Pieces)] /\ inbox \in [Conns -> Seq(Pieces)]
  BY StateTypes
<1>2. /\ got'[c] = <<>> /\ inbox'[c] = <<>>
      /\ \A d \in Conns \ {c} : got'[d] = got[d] /\ inbox'[d] = inbox[d]
  BY <1>1 DEF CloseEnds, Reset
<1>3. <<>> \o <<>> = <<>>
  OBVIOUS
<1>4. Stream(c)' = <<>>
  BY <1>2, <1>3 DEF Stream
<1>5. \A d \in Conns \ {c} : Stream(d)' = Stream(d)
  BY <1>2 DEF Stream
<1> QED BY <1>4, <1>5

\* What is in a stream was there before, or is sent now.
LEMMA StreamsGrow ==
    ASSUME TypeOK, Streams, Next, NEW d \in Conns, NEW k \in 1..Len(Stream(d)')
    PROVE  \/ \E i \in 1..Len(Stream(d)) : Id(Stream(d), i) = Id(Stream(d)', k)
           \/ Id(Stream(d)', k) = Len(sent) + 1 /\ Send(d)
<1>1. CASE Stream(d)' = Stream(d)
  BY <1>1
<1>2. ASSUME NEW c \in Conns, Send(c)
      PROVE  \/ \E i \in 1..Len(Stream(d)) : Id(Stream(d), i) = Id(Stream(d)', k)
             \/ Id(Stream(d)', k) = Len(sent) + 1 /\ Send(d)
  <2>1. CASE c # d
    BY <1>1, <1>2, <2>1, SendStream
  <2>2. CASE c = d /\ Stream(d)' # Stream(d)
    <3>1. /\ \A i \in 1..Len(Stream(d)) : Stream(d)'[i] = Stream(d)[i]
          /\ \A i \in 1..Len(Stream(d)') :
                i \in 1..Len(Stream(d)) \/ Id(Stream(d)', i) = Len(sent) + 1
      BY <1>2, <2>2, SendStream
    <3> QED BY <1>2, <2>2, <3>1 DEF Id
  <2> QED BY <1>1, <2>1, <2>2
<1>3. ASSUME NEW c \in Conns, Close(c)
      PROVE  \E i \in 1..Len(Stream(d)) : Id(Stream(d), i) = Id(Stream(d)', k)
  <2>1. CASE c # d
    BY <1>1, <1>3, <2>1, CloseStream
  <2>2. CASE c = d
    BY <1>3, <2>2, CloseStream DEF Id
  <2> QED BY <2>1, <2>2
<1>4. ASSUME NEW c \in Conns, CloseEnds(c)
      PROVE  \E i \in 1..Len(Stream(d)) : Id(Stream(d), i) = Id(Stream(d)', k)
  <2>1. CASE c # d
    BY <1>1, <1>4, <2>1, EndStream
  <2>2. CASE c = d
    <3>1. Stream(d)' = <<>>
      BY <1>4, <2>2, EndStream
    <3>2. 1..Len(<<>>) = {}
      OBVIOUS
    <3> QED BY <3>1, <3>2
  <2> QED BY <2>1, <2>2
<1>5. ASSUME NEW c \in Conns, Handle(c) \/ HandleFails(c)
      PROVE  \E i \in 1..Len(Stream(d)) : Id(Stream(d), i) = Id(Stream(d)', k)
  <2>1. stage[c] = "done" /\ Reset(c) /\ UNCHANGED inbox
    BY <1>5 DEF Handle, HandleFails, clients, Streams, Attending
  <2>2. CASE c # d
    BY <1>1, <2>1, <2>2, ResetStream
  <2>3. CASE c = d
    BY <2>1, <2>3, ResetStream
  <2> QED BY <2>2, <2>3
<1> QED BY <1>1, <1>2, <1>3, <1>4, <1>5, StreamsSame

\* The table of messages only grows.
LEMMA SentGrows ==
    ASSUME TypeOK, Next
    PROVE  /\ \A id \in 1..Len(sent) : id \in 1..Len(sent') /\ sent'[id] = sent[id]
           /\ sent' = sent \/ \E c \in Conns : Send(c)
<1>1. UNCHANGED sent \/ \E c \in Conns : Send(c)
  BY StepCases DEF ReadReply, Close, Accept, AcceptRefused, AcceptUnmapped, AcceptUnlisted,
     ReadHead, ReadHeadFails, ReadBuf, Takes, ReadNothing, ReadEnds, CloseUnmaps, CloseEnds,
     Handle, HandleFails, PipeWrite, PipeRead, Callback, SendBegins, SendUnknown, SendFails,
     SendWrites, SendBroken, history
<1> QED BY <1>1, SendTable

-----------------------------------------------------------------------------
(* The order *)

LEMMA PathOrderStep ==
    ASSUME TypeOK, Tables, Writers, Held, Streams, PathOrder, Next PROVE PathOrder'
<1>1. PICK p \in Seq(MsgIds) : p = Path
  <2>1. Path \in Seq(MsgIds)
    BY PathTyped
  <2> QED BY <2>1, Zenon
<1>2. /\ \A i \in 1..Len(p) : p[i] \in 1..Len(sent)
      /\ \A i, j \in 1..Len(p) : i < j /\ sent[p[i]].conn = sent[p[j]].conn => p[i] < p[j]
      /\ \A c \in Conns : \A i \in 1..Len(p), k \in 1..Len(Stream(c)) :
            sent[p[i]].conn = c => p[i] < Id(Stream(c), k)
  BY <1>1 DEF PathOrder
<1>3. \A id \in 1..Len(sent) : id \in 1..Len(sent') /\ sent'[id] = sent[id]
  BY SentGrows
<1>4. sent \in Seq(MessageTypes)
  BY StateTypes
<1>5. ASSUME NEW c \in Conns, NEW i \in 1..Len(p), NEW k \in 1..Len(Stream(c)'), sent'[p[i]].conn = c
      PROVE  p[i] < Id(Stream(c)', k)
  <2>1. sent[p[i]].conn = c /\ p[i] \in 1..Len(sent)
    BY <1>2, <1>3, <1>5
  <2>2. CASE \E l \in 1..Len(Stream(c)) : Id(Stream(c), l) = Id(Stream(c)', k)
    BY <1>2, <2>1, <2>2
  <2>3. CASE Id(Stream(c)', k) = Len(sent) + 1
    BY <1>4, <2>1, <2>3
  <2> QED BY <2>2, <2>3, StreamsGrow
<1>6. CASE Path' = Path
  BY <1>1, <1>2, <1>3, <1>5, <1>6 DEF PathOrder
<1>7. ASSUME NEW c \in Conns, Handle(c), Path' # Path PROVE PathOrder'
  <2>1. PICK id : id = got[c][1][1]
    OBVIOUS
  <2>2. /\ Path' = Append(Path, id) /\ id \in MsgIds /\ id \in 1..Len(sent) /\ sent[id].conn = c
        /\ UNCHANGED sent /\ stage[c] = "done" /\ Reset(c) /\ UNCHANGED inbox
    BY <1>7, <2>1, HandlePath
  <2>3. PICK q \in Seq(MsgIds) : q = Path'
    <3>1. Append(p, id) \in Seq(MsgIds)
      BY <2>2
    <3> QED BY <1>1, <2>2, <3>1, Zenon
  <2>4. /\ Len(q) = Len(p) + 1 /\ q[Len(p) + 1] = id
        /\ \A i \in 1..Len(p) : q[i] = p[i]
        /\ \A i \in 1..Len(q) : i \in 1..Len(p) \/ i = Len(p) + 1
    <3>1. q = Append(p, id)
      BY <1>1, <2>2, <2>3, Zenon
    <3> QED BY <2>2, <3>1, Grown
  <2>5. /\ id = Id(Stream(c), 1) /\ Len(Stream(c)) > 0
        /\ \A k \in 1..Len(Stream(c)') : Id(Stream(c)', k) > Id(Stream(c), 1)
        /\ \A d \in Conns \ {c} : Stream(d)' = Stream(d)
    BY <2>1, <2>2, ResetStream
  <2>6. \A i \in 1..Len(q) : q[i] \in 1..Len(sent')
    BY <1>2, <2>2, <2>4
  <2>7. 1 \in 1..Len(Stream(c))
    <3>1. Stream(c) \in Seq(Pieces)
      BY StreamParts
    <3> QED BY <2>5, <3>1
  <2>8. \A i \in 1..Len(p) : sent[p[i]].conn = c => p[i] < id
    BY <1>2, <2>5, <2>7
  <2>9. ASSUME NEW i \in 1..Len(q), NEW j \in 1..Len(q), i < j,
               sent'[q[i]].conn = sent'[q[j]].conn
        PROVE  q[i] < q[j]
    <3>1. i \in 1..Len(p)
      BY <2>4, <2>9
    <3>2. CASE j \in 1..Len(p)
      BY <1>2, <2>2, <2>4, <2>9, <3>1, <3>2
    <3>3. CASE j = Len(p) + 1
      BY <2>2, <2>4, <2>8, <2>9, <3>1, <3>3
    <3> QED BY <2>4, <3>2, <3>3
  <2>10. ASSUME NEW d \in Conns, NEW i \in 1..Len(q), NEW k \in 1..Len(Stream(d)'),
                sent'[q[i]].conn = d
         PROVE  q[i] < Id(Stream(d)', k)
    <3>1. CASE i \in 1..Len(p)
      BY <1>5, <2>4, <2>10, <3>1
    <3>2. CASE i = Len(p) + 1
      <4>1. q[i] = id /\ d = c
        BY <2>2, <2>4, <2>10, <3>2
      <4>2. Id(Stream(c)', k) > Id(Stream(c), 1)
        BY <2>5, <4>1
      <4>3. Id(Stream(c)', k) \in Nat
        <5>1. Id(Stream(c)', k) \in MsgIds
          <6>1. PICK l \in 1..Len(Stream(c)) : Id(Stream(c), l) = Id(Stream(c)', k)
            BY <2>2, <4>1, ResetStream
          <6> QED BY <6>1, StreamParts, PieceTypes
        <5> QED BY <5>1 DEF MsgIds
      <4> QED BY <2>2, <2>5, <4>1, <4>2, <4>3 DEF MsgIds
    <3> QED BY <2>4, <3>1, <3>2
  <2> QED BY <2>3, <2>6, <2>9, <2>10 DEF PathOrder
<1> QED BY <1>6, <1>7, PathKept

\* The callback has been called for what is answered, and for what was answered.
LEMMA AnswersLateStep ==
    ASSUME TypeOK, Tables, Writers, Held, Streams, AnswersLate, Next PROVE AnswersLate'
<1>1. /\ "rcv" \in Threads /\ "cb" \in Threads /\ "cb" # "rcv"
      /\ \A t \in Threads : t \in {"rcv", "cb"}
      /\ msg \in [Threads -> Messages \cup {NoMsg}] /\ outbox \in [Conns -> Seq(MsgIds)]
  BY TypeParts DEF Threads, ThreadsType, ClientsType
<1>2. \A t \in Threads : \A place : Goes(t, place) =>
        pc'[t] = place /\ \A u \in Threads \ {t} : pc'[u] = pc[u]
  BY Going
<1>3. \A id \in 1..Len(sent) : id \in 1..Len(sent') /\ sent'[id] = sent[id]
  BY SentGrows
<1>4. \A id : WasDelivered(id) => WasDelivered(id)'
  <2>1. CASE Callback
    <3>1. delivered' = Append(delivered, msg["cb"].id) /\ pc["cb"] = "calling"
      BY <2>1 DEF Callback
    <3>2. PICK n \in MsgIds : n = msg["cb"].id
      BY <1>1, <3>1, InHands
    <3>3. delivered \in Seq(MsgIds)
      BY DEF TypeOK
    <3>4. \A i \in 1..Len(delivered) : i \in 1..Len(delivered') /\ delivered'[i] = delivered[i]
      BY <3>1, <3>2, <3>3
    <3> QED BY <3>4 DEF WasDelivered
  <2>2. CASE UNCHANGED delivered
    BY <2>2 DEF WasDelivered
  <2>3. UNCHANGED delivered \/ Callback
    BY StepCases DEF Send, ReadReply, Close, Accept, AcceptRefused, AcceptUnmapped,
       AcceptUnlisted, ReadHead, ReadHeadFails, ReadBuf, Takes, ReadNothing, ReadEnds,
       CloseUnmaps, CloseEnds, Handle, HandleFails, PipeWrite, PipeRead, SendBegins,
       SendUnknown, SendFails, SendWrites, SendBroken, history
  <2> QED BY <2>1, <2>2, <2>3
<1>5. pc'["cb"] \in {"sending", "writing"} => WasDelivered(msg["cb"].id)'
  <2>1. CASE pc["cb"] \in {"sending", "writing"} /\ msg'["cb"] = msg["cb"]
    <3>1. PICK id : id = msg["cb"].id
      OBVIOUS
    <3>2. WasDelivered(id)'
      BY <1>4, <2>1, <3>1 DEF AnswersLate
    <3> QED BY <2>1, <3>1, <3>2
  <2>2. CASE pc'["cb"] \notin {"sending", "writing"}
    BY <2>2
  <2>3. CASE Callback
    <3>1. /\ delivered' = Append(delivered, msg["cb"].id) /\ pc["cb"] = "calling"
          /\ Sent("cb") \/ (Goes("cb", "sending") /\ UNCHANGED msg)
      BY <2>3 DEF Callback
    <3>2. PICK n \in MsgIds : n = msg["cb"].id
      BY <1>1, <3>1, InHands
    <3>3. delivered \in Seq(MsgIds)
      BY DEF TypeOK
    <3>4. Len(delivered) + 1 \in 1..Len(delivered') /\ delivered'[Len(delivered) + 1] = n
      BY <3>1, <3>2, <3>3
    <3>5. CASE Sent("cb")
      BY <1>1, <1>2, <3>5, SentMoves
    <3>6. CASE UNCHANGED msg
      BY <3>2, <3>4, <3>6 DEF WasDelivered
    <3> QED BY <3>1, <3>5, <3>6
  <2>4. ASSUME NEW t \in Threads, \/ SendBegins(t) \/ SendUnknown(t) \/ SendFails(t)
                                  \/ SendWrites(t) \/ SendBroken(t)
        PROVE  \/ pc["cb"] \in {"sending", "writing"} /\ msg'["cb"] = msg["cb"]
               \/ pc'["cb"] \notin {"sending", "writing"}
    <3>1. /\ pc[t] \in {"sending", "writing"}
          /\ Sent(t) \/ (Goes(t, "writing") /\ UNCHANGED msg)
      BY <2>4 DEF SendBegins, SendUnknown, SendFails, SendWrites, SendBroken
    <3>2. CASE t = "cb"
      BY <1>1, <1>2, <3>1, <3>2, SentMoves
    <3>3. CASE t = "rcv"
      BY <1>1, <1>2, <3>1, <3>3, SentMoves
    <3> QED BY <1>1, <3>2, <3>3
  <2>5. ASSUME PipeRead PROVE pc'["cb"] \notin {"sending", "writing"}
    BY <1>1, <1>2, <2>5 DEF PipeRead
  <2>6. ASSUME NEW c \in Conns, \/ Send(c) \/ ReadReply(c) \/ Close(c) \/ Accept(c)
                                \/ AcceptRefused(c) \/ AcceptUnmapped(c) \/ AcceptUnlisted(c)
        PROVE  UNCHANGED <<pc, msg>>
    BY <2>6 DEF Send, ReadReply, Close, Accept, AcceptRefused, AcceptUnmapped, AcceptUnlisted
  <2>7. ASSUME \E place : Goes("rcv", place), UNCHANGED msg \/ \E m : msg' = [msg EXCEPT !["rcv"] = m]
        PROVE  pc'["cb"] = pc["cb"] /\ msg'["cb"] = msg["cb"]
    BY <1>1, <1>2, <2>7
  <2>8. ASSUME NEW c \in Conns, \/ ReadHead(c) \/ ReadHeadFails(c) \/ ReadBuf(c)
                                \/ ReadNothing(c) \/ ReadEnds(c) \/ CloseUnmaps(c) \/ CloseEnds(c)
        PROVE  pc'["cb"] = pc["cb"] /\ msg'["cb"] = msg["cb"]
    <3>1. UNCHANGED msg
      BY <2>8 DEF ReadHead, ReadHeadFails, ReadBuf, Takes, ReadNothing, ReadEnds, CloseUnmaps,
         CloseEnds
    <3>2. ReadHead(c) => \E place : Goes("rcv", place)
      BY DEF ReadHead
    <3>3. ReadBuf(c) => \E place : Goes("rcv", place)
      BY DEF ReadBuf
    <3>4. \E place : Goes("rcv", place)
      BY <2>8, <3>2, <3>3 DEF ReadHeadFails, ReadNothing, ReadEnds, CloseUnmaps, CloseEnds
    <3> QED BY <2>7, <3>1, <3>4
  <2>9. ASSUME NEW c \in Conns, Handle(c)
        PROVE  pc'["cb"] = pc["cb"] /\ msg'["cb"] = msg["cb"]
    <3>1. \E place : Goes("rcv", place)
      BY <2>9 DEF Handle, Drops
    <3>2. \E m : msg' = [msg EXCEPT !["rcv"] = m]
      BY <2>9 DEF Handle, Drops
    <3> QED BY <2>7, <3>1, <3>2
  <2>10. ASSUME PipeWrite \/ \E c \in Conns : HandleFails(c)
         PROVE  pc'["cb"] = pc["cb"] /\ msg'["cb"] = msg["cb"]
    BY <2>7, <2>10 DEF PipeWrite, HandleFails, Drops
  <2> QED BY <2>1, <2>2, <2>3, <2>4, <2>5, <2>6, <2>8, <2>9, <2>10, StepCases
<1>6. ASSUME NEW c \in Conns, NEW i \in 1..Len(outbox'[c]), NEW id, id = outbox'[c][i]
      PROVE  id \in 1..Len(sent') /\ (sent'[id].kind = "sync" => WasDelivered(id)')
  <2>1. CASE \E j \in 1..Len(outbox[c]) : outbox[c][j] = id
    BY <1>3, <1>4, <2>1 DEF AnswersLate
  <2>2. ASSUME NEW d \in Conns, ReadReply(d) \/ Close(d)
        PROVE  \E j \in 1..Len(outbox[c]) : outbox[c][j] = id
    <3>1. CASE outbox'[c] = outbox[c]
      BY <1>6, <3>1
    <3>2. CASE d = c /\ ReadReply(c)
      <4>1. PICK o \in Seq(MsgIds) : o = outbox[c]
        BY <1>1
      <4>2. outbox'[c] = Tail(o) /\ o # <<>>
        BY <1>1, <3>2, <4>1 DEF ReadReply
      <4>3. i + 1 \in 1..Len(o) /\ Tail(o)[i] = o[i + 1]
        BY <1>6, <4>2
      <4> QED BY <1>6, <4>1, <4>2, <4>3
    <3>3. CASE d = c /\ Close(c)
      <4>1. outbox'[c] = <<>>
        BY <1>1, <3>3 DEF Close
      <4>2. 1..Len(<<>>) = {}
        OBVIOUS
      <4> QED BY <1>6, <4>1, <4>2
    <3>4. d # c => outbox'[c] = outbox[c]
      BY <1>1, <2>2 DEF ReadReply, Close
    <3> QED BY <2>2, <3>1, <3>2, <3>3, <3>4
  <2>3. ASSUME NEW t \in Threads, SendWrites(t)
        PROVE  \/ \E j \in 1..Len(outbox[c]) : outbox[c][j] = id
               \/ id \in 1..Len(sent') /\ (sent'[id].kind = "sync" => WasDelivered(id)')
    <3>1. PICK d \in Conns : d = socket[sfd[t]]
      BY <2>3, WritesToOwn DEF SendWrites
    <3>2. outbox' = [outbox EXCEPT ![d] = Append(@, msg[t].id)] /\ pc[t] = "writing" /\ UNCHANGED sent
      BY <2>3, <3>1 DEF SendWrites, history
    <3>3. PICK n \in MsgIds : n = msg[t].id
      BY <3>2, InHands
    <3>4. n \in 1..Len(sent) /\ (sent[n].kind = "sync" => WasDelivered(n))
      <4>1. n \in 1..Len(sent)
        BY <3>2, <3>3, InHands DEF Genuine
      <4>2. CASE t = "cb"
        BY <3>2, <3>3, <4>1, <4>2 DEF AnswersLate
      <4>3. CASE t = "rcv"
        BY <3>2, <3>3, <4>1, <4>3, InHands DEF Kind
      <4> QED BY <1>1, <4>1, <4>2, <4>3
    <3>5. CASE d # c
      <4>1. outbox'[c] = outbox[c]
        BY <1>1, <3>2, <3>5
      <4> QED BY <1>6, <4>1
    <3>6. CASE d = c
      <4>1. PICK o \in Seq(MsgIds) : o = outbox[c]
        BY <1>1
      <4>2. outbox'[c] = Append(o, n)
        BY <1>1, <3>2, <3>3, <3>6, <4>1
      <4>3. (i \in 1..Len(o) /\ Append(o, n)[i] = o[i]) \/ Append(o, n)[i] = n
        BY <1>6, <4>2
      <4>4. CASE id = n
        BY <1>3, <1>4, <3>4, <4>4
      <4> QED BY <1>6, <4>1, <4>2, <4>3, <4>4
    <3> QED BY <3>5, <3>6
  <2>4. \/ outbox'[c] = outbox[c] \/ \E d \in Conns : ReadReply(d) \/ Close(d)
        \/ \E t \in Threads : SendWrites(t)
    BY StepCases DEF Send, Accept, AcceptRefused, AcceptUnmapped, AcceptUnlisted, ReadHead,
       ReadHeadFails, ReadBuf, Takes, ReadNothing, ReadEnds, CloseUnmaps, CloseEnds, Handle,
       HandleFails, PipeWrite, PipeRead, Callback, SendBegins, SendUnknown, SendFails,
       SendBroken, clients
  <2> QED BY <1>6, <2>1, <2>2, <2>3, <2>4
<1> QED BY <1>5, <1>6 DEF AnswersLate

-----------------------------------------------------------------------------
(* Nothing is lost *)

\* Every message is from a connection.
LEMMA SentTyped ==
    ASSUME TypeOK
    PROVE  sent \in Seq(MessageTypes) /\ \A id \in 1..Len(sent) : sent[id].conn \in Conns
<1>1. sent \in Seq(MessageTypes)
  BY StateTypes
<1>2. \A id \in 1..Len(sent) : sent[id] \in MessageTypes
  BY <1>1
<1>3. \A m \in MessageTypes : m.conn \in Conns
  BY DEF MessageTypes
<1> QED BY <1>1, <1>2, <1>3

\* What is on the path is ahead of what is in the stream.
LEMMA PathAhead ==
    ASSUME PathOrder, NEW id, NEW later \in 1..Len(sent), OnPath(later),
           sent[later].conn \in Conns, sent[id].conn = sent[later].conn, InStream(id)
    PROVE  later < id
BY DEF PathOrder, OnPath, InStream

\* In a stream the older message comes first.
LEMMA StreamSorted ==
    ASSUME NEW table \in Seq(MessageTypes), NEW s \in Seq(Pieces), NEW c, Framed(table, s, c),
           NEW i \in 1..Len(s), NEW k \in 1..Len(s), Id(s, i) < Id(s, k)
    PROVE  i < k
<1> SUFFICES ASSUME k <= i PROVE FALSE
  OBVIOUS
<1>1. Follows(table, s, k, i)
  BY DEF Framed
<1>2. Id(s, i) \in Nat /\ Id(s, k) \in Nat /\ Pos(s, k) \in Nat /\ FrameLen(table, Id(s, k)) \in Nat
  BY FramedTypes
<1>3. Id(s, k) <= Id(s, i)
  BY <1>1, <1>2 DEF Follows
<1> QED BY <1>2, <1>3

\* Who is watched, unless memory was short.
LEMMA WatchedStep ==
    ASSUME TypeOK, Tables, Streams, Next, faults' = 0, faults = 0,
           \A c \in Conns : client[c] = "connected" /\ cli[c] # "absent" => c \in epoll
    PROVE  \A c \in Conns : client'[c] = "connected" /\ cli'[c] # "absent" => c \in epoll'
<1>1. \A d \in Conns : client'[d] = "connected" => client[d] = "connected"
  <2>1. ASSUME NEW c \in Conns, Close(c)
        PROVE  \A d \in Conns : client'[d] = "connected" => client[d] = "connected"
    BY <2>1, CloseStream
  <2>2. UNCHANGED client \/ \E c \in Conns : Close(c)
    BY StepCases DEF Send, ReadReply, Accept, AcceptRefused, AcceptUnmapped, AcceptUnlisted,
       ReadHead, ReadHeadFails, ReadBuf, Takes, ReadNothing, ReadEnds, CloseUnmaps, CloseEnds,
       Handle, HandleFails, PipeWrite, PipeRead, Callback, SendBegins, SendUnknown, SendFails,
       SendWrites, SendBroken, clients
  <2> QED BY <2>1, <2>2
<1>2. TablesType
  BY TypeParts
<1>3. CASE UNCHANGED <<cli, epoll>>
  BY <1>1, <1>3
<1>4. ASSUME NEW c \in Conns, Accept(c)
      PROVE  \A d \in Conns : client'[d] = "connected" /\ cli'[d] # "absent" => d \in epoll'
  <2>1. cli' = [cli EXCEPT ![c] = "live"] /\ epoll' = epoll \cup {c}
    BY <1>4 DEF Accept, Opens
  <2> QED BY <1>1, <1>2, <2>1 DEF TablesType
<1>5. ASSUME NEW c \in Conns, CloseEnds(c)
      PROVE  \A d \in Conns : client'[d] = "connected" /\ cli'[d] # "absent" => d \in epoll'
  <2>1. /\ cli' = [cli EXCEPT ![c] = IF c \in cli_info_hash THEN "freed" ELSE @]
        /\ epoll' = epoll \ {c} /\ pc["rcv"] = "unmapped" /\ conn = c
    BY <1>5 DEF CloseEnds
  <2>2. client[c] # "connected"
    BY <2>1 DEF Streams, Attending
  <2>3. \A d \in Conns \ {c} : cli'[d] = cli[d]
    BY <1>2, <2>1 DEF TablesType
  <2> QED BY <1>1, <2>1, <2>2, <2>3
<1>6. ASSUME NEW c \in Conns, AcceptRefused(c) \/ AcceptUnmapped(c) \/ AcceptUnlisted(c)
      PROVE  FALSE
  BY <1>6 DEF AcceptRefused, AcceptUnmapped, AcceptUnlisted, Fails
<1>7. \/ UNCHANGED <<cli, epoll>>
      \/ \E c \in Conns : \/ Accept(c) \/ AcceptRefused(c) \/ AcceptUnmapped(c)
                          \/ AcceptUnlisted(c) \/ CloseEnds(c)
  BY StepCases DEF Send, ReadReply, Close, ReadHead, ReadHeadFails, ReadBuf, Takes, ReadNothing,
     ReadEnds, CloseUnmaps, Handle, HandleFails, PipeWrite, PipeRead, Callback, SendBegins,
     SendUnknown, SendFails, SendWrites, SendBroken, tables
<1> QED BY <1>3, <1>4, <1>5, <1>6, <1>7

\* A message of the table that is on its way in two states, if path and stream are as
\* before.
LEMMA OnWaySame ==
    ASSUME NEW id, sent'[id] = sent[id], Path' = Path,
           Stream(sent[id].conn)' = Stream(sent[id].conn)
    PROVE  OnWay(id)' <=> OnWay(id)
<1>1. OnPath(id)' <=> OnPath(id)
  BY DEF OnPath
<1>2. InStream(id)' <=> InStream(id)
  BY DEF InStream
<1> QED BY <1>1, <1>2 DEF OnWay

KeptOnWay == \A id \in ForCallback :
    /\ client[sent[id].conn] = "connected" => OnWay(id)
    /\ \A later \in 1..Len(sent) :
        id < later /\ sent[later].conn = sent[id].conn /\ OnWay(later) => OnWay(id)

\* What is sent changes nothing for what was sent before.
LEMMA SendInStream ==
    ASSUME TypeOK, Streams, NEW c \in Conns, Send(c), NEW id \in 1..Len(sent)
    PROVE  InStream(id)' <=> InStream(id)
<1>1. sent'[id] = sent[id] /\ sent[id].conn \in Conns /\ Len(sent) \in Nat
  BY SendTable, SentTyped, StateTypes
<1>2. CASE Stream(sent[id].conn)' = Stream(sent[id].conn)
  BY <1>1, <1>2 DEF InStream
<1>3. CASE sent[id].conn = c /\ Stream(c)' # Stream(c)
  <2>1. /\ Len(Stream(c)') > Len(Stream(c)) /\ Len(Stream(c)') \in Nat
        /\ \A i \in 1..Len(Stream(c)) : Stream(c)'[i] = Stream(c)[i]
        /\ \A i \in 1..Len(Stream(c)') :
              i \in 1..Len(Stream(c)) \/ Id(Stream(c)', i) = Len(sent) + 1
    BY <1>3, SendStream
  <2>2. Len(Stream(c)) \in Nat /\ id # Len(sent) + 1
    <3>1. Stream(c) \in Seq(Pieces)
      BY StreamParts
    <3> QED BY <1>1, <3>1
  <2>3. ASSUME NEW k \in 1..Len(Stream(c)), Id(Stream(c), k) = id
        PROVE  k \in 1..Len(Stream(c)') /\ Id(Stream(c)', k) = id
    BY <2>1, <2>2, <2>3 DEF Id
  <2>4. ASSUME NEW k \in 1..Len(Stream(c)'), Id(Stream(c)', k) = id
        PROVE  k \in 1..Len(Stream(c)) /\ Id(Stream(c), k) = id
    BY <2>1, <2>2, <2>4 DEF Id
  <2> QED BY <1>1, <1>3, <2>3, <2>4 DEF InStream
<1> QED BY <1>1, <1>2, <1>3, SendStream

\* A new message is on its way.
LEMMA KeptSend ==
    ASSUME TypeOK, Tables, Writers, Held, Streams, PathOrder, KeptOnWay, Next,
           \A c \in Conns : client[c] = "connected" /\ cli[c] # "absent" => c \in epoll,
           NEW c \in Conns, Send(c)
    PROVE  KeptOnWay'
<1>1. PICK new \in Nat : new = Len(sent) + 1
  BY StateTypes
<1>2. /\ sent \in Seq(MessageTypes) /\ sent' \in Seq(MessageTypes) /\ Len(sent') = Len(sent) + 1
      /\ \A id \in 1..Len(sent) : id \in 1..Len(sent') /\ sent'[id] = sent[id]
      /\ new \in 1..Len(sent') /\ sent'[new].conn = c
      /\ \A id \in 1..Len(sent') : id = new \/ id \in 1..Len(sent)
      /\ \A id \in 1..Len(sent) : id < new
  <2>1. /\ sent \in Seq(MessageTypes) /\ sent' \in Seq(MessageTypes) /\ Len(sent') = Len(sent) + 1
        /\ \A id \in 1..Len(sent) : id \in 1..Len(sent') /\ sent'[id] = sent[id]
        /\ sent'[Len(sent) + 1].conn = c
    BY SendTable
  <2>2. /\ \A id \in 1..Len(sent') : id = new \/ id \in 1..Len(sent)
        /\ \A id \in 1..Len(sent) : id < new
        /\ new \in 1..Len(sent')
    <3>1. PICK n \in Nat : n = Len(sent)
      BY <2>1
    <3>2. Len(sent') = n + 1 /\ new = n + 1
      BY <1>1, <2>1, <3>1
    <3> QED BY <3>1, <3>2
  <2> QED BY <1>1, <2>1, <2>2
<1>3. Path' = Path
  <2>1. pc["rcv"] = "handling" => pc'["rcv"] = "handling"
    BY DEF Send
  <2>2. ASSUME NEW d \in Conns, Handle(d) PROVE FALSE
    <3>1. sent' = sent
      BY <2>2 DEF Handle, history
    <3> QED BY <1>2, <3>1
  <2> QED BY <2>2, PathKept
<1>4. client[c] = "connected" /\ UNCHANGED client
  BY DEF Send
<1>5. /\ \A d \in Conns \ {c} : Stream(d)' = Stream(d)
      /\ Len(Stream(c)') > Len(Stream(c)) /\ Len(Stream(c)') \in Nat /\ Len(Stream(c)) \in Nat
      /\ \A i \in 1..Len(Stream(c)) : Stream(c)'[i] = Stream(c)[i]
      /\ \A i \in 1..Len(Stream(c)') : i \in 1..Len(Stream(c)) \/ Id(Stream(c)', i) = new
  <2>1. cli[c] # "absent" => cli_fd[c] # None
    BY <1>4, ServerAssumption DEF Tables
  <2>2. Stream(c) \in Seq(Pieces)
    BY StreamParts
  <2>3. Len(Stream(c)) \in Nat
    BY <2>2
  <2> QED BY <1>1, <2>1, <2>3, SendStream
<1>6. \A id \in 1..Len(sent) : sent[id].conn \in Conns
  BY SentTyped
<1>7. ASSUME NEW id \in 1..Len(sent) PROVE OnWay(id)' <=> OnWay(id)
  <2>1. OnPath(id)' <=> OnPath(id)
    BY <1>3 DEF OnPath
  <2> QED BY <2>1, SendInStream DEF OnWay
<1>8. OnWay(new)'
  <2>1. Len(Stream(c)') \in 1..Len(Stream(c)') /\ Len(Stream(c)') \notin 1..Len(Stream(c))
    BY <1>5
  <2>2. Id(Stream(c)', Len(Stream(c)')) = new
    BY <1>5, <2>1
  <2>3. InStream(new)'
    BY <1>2, <2>1, <2>2 DEF InStream
  <2> QED BY <2>3 DEF OnWay
<1>9. ASSUME NEW id \in ForCallback'
      PROVE  /\ client'[sent'[id].conn] = "connected" => OnWay(id)'
             /\ \A later \in 1..Len(sent') :
                  id < later /\ sent'[later].conn = sent'[id].conn /\ OnWay(later)' => OnWay(id)'
  <2>1. CASE id = new
    BY <1>8, <2>1
  <2>2. CASE id \in 1..Len(sent)
    <3>1. id \in ForCallback /\ sent'[id] = sent[id]
      BY <1>2, <1>9, <2>2 DEF ForCallback
    <3>2. client'[sent'[id].conn] = "connected" => OnWay(id)'
      BY <1>4, <1>7, <2>2, <3>1 DEF KeptOnWay
    <3>3. ASSUME NEW later \in 1..Len(sent'), id < later, sent'[later].conn = sent'[id].conn,
                 OnWay(later)'
          PROVE  OnWay(id)'
      <4>1. CASE later = new
        BY <1>2, <1>4, <3>2, <3>3, <4>1
      <4>2. CASE later \in 1..Len(sent)
        BY <1>2, <1>7, <2>2, <3>1, <3>3, <4>2 DEF KeptOnWay
      <4> QED BY <1>2, <4>1, <4>2
    <3> QED BY <3>2, <3>3
  <2> QED BY <1>2, <1>9, <2>1, <2>2 DEF ForCallback
<1> QED BY <1>9 DEF KeptOnWay

\* When the end of a stream is lost, what is left of it has no gap.
LEMMA KeptClose ==
    ASSUME TypeOK, Tables, Writers, Held, Streams, PathOrder, KeptOnWay, Next,
           NEW c \in Conns, UNCHANGED sent, Path' = Path,
           client'[c] = "closed", \A d \in Conns \ {c} : client'[d] = client[d],
           \A d \in Conns \ {c} : Stream(d)' = Stream(d), Len(Stream(c)') \in Nat,
           \A i \in 1..Len(Stream(c)') : i \in 1..Len(Stream(c)) /\ Stream(c)'[i] = Stream(c)[i]
    PROVE  KeptOnWay'
<1>1. sent \in Seq(MessageTypes) /\ \A id \in 1..Len(sent) : sent[id].conn \in Conns
  BY SentTyped
<1>2. PICK s \in Seq(Pieces) : s = Stream(c)
  BY StreamParts
<1>3. Framed(sent, s, c)
  BY <1>2 DEF Streams, WholeStream
<1>4. \A id \in 1..Len(sent) : sent[id].conn # c => (OnWay(id)' <=> OnWay(id))
  BY <1>1, OnWaySame
<1>5. \A id : OnPath(id)' <=> OnPath(id)
  BY DEF OnPath
<1>6. ASSUME NEW id \in 1..Len(sent), sent[id].conn = c, InStream(id)' PROVE InStream(id)
  <2>1. ASSUME NEW k \in 1..Len(Stream(c)'), Id(Stream(c)', k) = id
        PROVE  k \in 1..Len(Stream(c)) /\ Id(Stream(c), k) = id
    BY <2>1 DEF Id
  <2> QED BY <1>6, <2>1 DEF InStream
<1>7. ASSUME NEW id \in ForCallback, sent[id].conn = c,
             NEW later \in 1..Len(sent), id < later, sent[later].conn = c, OnWay(later)'
      PROVE  OnWay(id)'
  <2>1. id \in 1..Len(sent)
    BY DEF ForCallback
  <2>2. OnWay(later)
    BY <1>5, <1>6, <1>7 DEF OnWay
  <2>3. OnWay(id)
    BY <1>7, <2>2 DEF KeptOnWay
  <2>4. CASE OnPath(id)
    BY <1>5, <2>4 DEF OnWay
  <2>5. CASE InStream(id) /\ OnPath(later)
    <3>1. later < id
      BY <1>1, <1>7, <2>5, PathAhead
    <3> QED BY <1>7, <2>1, <3>1
  <2>6. CASE InStream(id) /\ InStream(later)'
    <3>1. PICK i \in 1..Len(s) : Id(s, i) = id
      BY <1>2, <1>7, <2>6 DEF InStream
    <3>2. PICK k \in 1..Len(Stream(c)') : Id(Stream(c)', k) = later
      BY <1>7, <2>6 DEF InStream
    <3>3. k \in 1..Len(s) /\ Id(s, k) = later
      BY <1>2, <3>2 DEF Id
    <3>4. i < k
      BY <1>1, <1>3, <1>7, <3>1, <3>3, StreamSorted
    <3>5. i \in 1..Len(Stream(c)') /\ Id(Stream(c)', i) = id
      <4>1. i \in 1..Len(Stream(c)')
        BY <3>4
      <4> QED BY <1>2, <3>1, <4>1 DEF Id
    <3> QED BY <1>7, <3>5 DEF OnWay, InStream
  <2> QED BY <1>5, <1>7, <2>3, <2>4, <2>5, <2>6 DEF OnWay
<1>8. ASSUME NEW id \in ForCallback
      PROVE  /\ client'[sent[id].conn] = "connected" => OnWay(id)'
             /\ \A later \in 1..Len(sent) :
                  id < later /\ sent[later].conn = sent[id].conn /\ OnWay(later)' => OnWay(id)'
  <2>1. id \in 1..Len(sent)
    BY DEF ForCallback
  <2>2. CASE sent[id].conn = c
    BY <1>7, <2>2
  <2>3. CASE sent[id].conn # c
    BY <1>1, <1>4, <2>1, <2>3 DEF KeptOnWay
  <2> QED BY <2>2, <2>3
<1> QED BY <1>8 DEF KeptOnWay, ForCallback

\* A message that is handled goes from the begin of the stream to the end of the path,
\* if it is for the callback.
LEMMA KeptHandle ==
    ASSUME TypeOK, Tables, Writers, Held, Streams, PathOrder, KeptOnWay, Next,
           NEW c \in Conns, Handle(c)
    PROVE  KeptOnWay'
<1>1. sent \in Seq(MessageTypes) /\ \A id \in 1..Len(sent) : sent[id].conn \in Conns
  BY SentTyped
<1>2. PICK first : first = got[c][1][1]
  OBVIOUS
<1>3. /\ sent[first].kind \in {"async", "sync"} => Path' = Append(Path, first)
      /\ sent[first].kind \notin {"async", "sync"} => Path' = Path
      /\ first \in MsgIds /\ first \in 1..Len(sent) /\ sent[first].conn = c /\ stage[c] = "done"
      /\ UNCHANGED <<sent, client, inbox>> /\ Reset(c)
  BY <1>2, HandlePath
<1>4. /\ \A d \in Conns \ {c} : Stream(d)' = Stream(d)
      /\ Len(Stream(c)) > 0 /\ first = Id(Stream(c), 1)
      /\ \A k \in 1..Len(Stream(c)') :
            \E i \in 1..Len(Stream(c)) : Id(Stream(c), i) = Id(Stream(c)', k)
      /\ \A i \in 1..Len(Stream(c)) :
            \/ Id(Stream(c), i) = first
            \/ \E k \in 1..Len(Stream(c)') : Id(Stream(c)', k) = Id(Stream(c), i)
  BY <1>2, <1>3, ResetStream
<1>5. PICK p \in Seq(MsgIds) : p = Path
  <2>1. Path \in Seq(MsgIds)
    BY PathTyped
  <2> QED BY <2>1, Zenon
<1>6. \A id : OnPath(id) => OnPath(id)'
  <2>1. CASE Path' = Path
    BY <2>1 DEF OnPath
  <2>2. CASE Path' = Append(p, first)
    <3>1. \A i \in 1..Len(p) : i \in 1..Len(Append(p, first)) /\ Append(p, first)[i] = p[i]
      BY <1>3, Grown
    <3> QED BY <1>5, <2>2, <3>1 DEF OnPath
  <2> QED BY <1>3, <1>5, <2>1, <2>2
<1>7. sent[first].kind \in {"async", "sync"} => OnPath(first)'
  <2>1. Len(p) + 1 \in 1..Len(Append(p, first)) /\ Append(p, first)[Len(p) + 1] = first
    BY <1>3
  <2> QED BY <1>3, <1>5, <2>1 DEF OnPath
<1>8. \A id : OnPath(id)' => OnPath(id) \/ id = first
  <2>1. CASE Path' = Path
    BY <2>1 DEF OnPath
  <2>2. CASE Path' = Append(p, first)
    <3>1. \A i \in 1..Len(Append(p, first)) :
            (i \in 1..Len(p) /\ Append(p, first)[i] = p[i]) \/ Append(p, first)[i] = first
      BY <1>3
    <3> QED BY <1>5, <2>2, <3>1 DEF OnPath
  <2> QED BY <1>3, <1>5, <2>1, <2>2
<1>9. InStream(first)
  <2>1. 1 \in 1..Len(Stream(c))
    <3>1. Stream(c) \in Seq(Pieces)
      BY StreamParts
    <3> QED BY <1>4, <3>1
  <2> QED BY <1>3, <1>4, <2>1 DEF InStream
<1>10. \A id \in 1..Len(sent) : OnWay(id)' => OnWay(id)
  <2> SUFFICES ASSUME NEW id \in 1..Len(sent), OnWay(id)' PROVE OnWay(id)
    OBVIOUS
  <2>1. CASE OnPath(id)'
    BY <1>8, <1>9, <2>1 DEF OnWay
  <2>2. CASE InStream(id)'
    <3>1. CASE sent[id].conn = c
      BY <1>3, <1>4, <2>2, <3>1 DEF InStream, OnWay
    <3>2. CASE sent[id].conn # c
      BY <1>1, <1>3, <1>4, <2>2, <3>2 DEF InStream, OnWay
    <3> QED BY <3>1, <3>2
  <2> QED BY <2>1, <2>2 DEF OnWay
<1>11. \A id \in ForCallback : OnWay(id) => OnWay(id)'
  <2> SUFFICES ASSUME NEW id \in ForCallback, OnWay(id) PROVE OnWay(id)'
    OBVIOUS
  <2>1. id \in 1..Len(sent) /\ sent[id].kind \in {"async", "sync"}
    BY DEF ForCallback
  <2>2. CASE OnPath(id)
    BY <1>6, <2>2 DEF OnWay
  <2>3. CASE id = first
    BY <1>7, <2>1, <2>3 DEF OnWay
  <2>4. CASE InStream(id) /\ id # first
    <3>1. CASE sent[id].conn = c
      BY <1>3, <1>4, <2>4, <3>1 DEF InStream, OnWay
    <3>2. CASE sent[id].conn # c
      BY <1>1, <1>3, <1>4, <2>1, <2>4, <3>2 DEF InStream, OnWay
    <3> QED BY <3>1, <3>2
  <2> QED BY <2>2, <2>3, <2>4 DEF OnWay
<1>12. ForCallback' = ForCallback
  BY <1>3 DEF ForCallback
<1> QED BY <1>3, <1>10, <1>11, <1>12 DEF KeptOnWay, ForCallback

LEMMA KeptStep ==
    ASSUME TypeOK, Tables, Writers, Held, Streams, PathOrder, Kept, Next PROVE Kept'
<1> SUFFICES ASSUME faults' = 0 PROVE Kept'
  BY DEF Kept
<1>1. /\ faults = 0 /\ KeptOnWay
      /\ \A c \in Conns : client[c] = "connected" /\ cli[c] # "absent" => c \in epoll
  BY FaultsGrow DEF Kept, KeptOnWay
<1>2. \A c \in Conns : client'[c] = "connected" /\ cli'[c] # "absent" => c \in epoll'
  BY <1>1, WatchedStep
<1>3. ASSUME NEW c \in Conns, Close(c) PROVE KeptOnWay'
  <2>1. UNCHANGED <<sent, pipe, delivered, msg, pc>>
    BY <1>3 DEF Close, history
  <2>2. Path' = Path
    BY <2>1, PathSame DEF Calling, Handled, KindOf
  <2> QED BY <1>1, <1>3, <2>1, <2>2, CloseStream, KeptClose
<1>4. ASSUME NEW c \in Conns, CloseEnds(c) PROVE KeptOnWay'
  <2>1. /\ UNCHANGED <<sent, pipe, delivered, msg, client>>
        /\ pc["rcv"] = "unmapped" /\ conn = c /\ Goes("rcv", "polling")
    BY <1>4 DEF CloseEnds, history
  <2>2. pc'["cb"] = pc["cb"]
    BY <2>1, Going DEF Threads
  <2>3. Path' = Path
    BY <2>1, <2>2, PathSame DEF Calling, Handled, KindOf
  <2>4. client'[c] = "closed"
    BY <1>1, <2>1 DEF Streams, Attending
  <2>5. Stream(c)' = <<>> /\ \A d \in Conns \ {c} : Stream(d)' = Stream(d)
    BY <1>4, EndStream
  <2>6. Len(<<>>) \in Nat /\ 1..Len(<<>>) = {}
    OBVIOUS
  <2>7. /\ Len(Stream(c)') \in Nat
        /\ \A i \in 1..Len(Stream(c)') : i \in 1..Len(Stream(c)) /\ Stream(c)'[i] = Stream(c)[i]
    BY <2>5, <2>6
  <2> QED BY <1>1, <2>1, <2>3, <2>4, <2>5, <2>7, KeptClose
<1>5. ASSUME NEW c \in Conns, HandleFails(c) PROVE FALSE
  BY <1>1, <1>5 DEF HandleFails, Fails
<1>6. ASSUME ~ \E c \in Conns : Send(c) \/ Close(c) \/ CloseEnds(c) \/ Handle(c) \/ HandleFails(c)
      PROVE  KeptOnWay'
  <2>1. Path' = Path /\ sent' = sent /\ \A d \in Conns : Stream(d)' = Stream(d)
    BY <1>6, PathKept, SentGrows, StreamsSame
  <2>2. \A id \in 1..Len(sent) : sent[id].conn \in Conns
    BY SentTyped
  <2>3. \A id \in 1..Len(sent) : OnWay(id)' <=> OnWay(id)
    BY <2>1, <2>2, OnWaySame
  <2>4. UNCHANGED client
    BY <1>6, StepCases DEF ReadReply, Accept, AcceptRefused, AcceptUnmapped, AcceptUnlisted,
       ReadHead, ReadHeadFails, ReadBuf, Takes, ReadNothing, ReadEnds, CloseUnmaps, PipeWrite,
       PipeRead, Callback, SendBegins, SendUnknown, SendFails, SendWrites, SendBroken, clients
  <2>5. ForCallback' = ForCallback
    BY <2>1 DEF ForCallback
  <2>6. ASSUME NEW id \in ForCallback
        PROVE  /\ client'[sent'[id].conn] = "connected" => OnWay(id)'
               /\ \A later \in 1..Len(sent') :
                    id < later /\ sent'[later].conn = sent'[id].conn /\ OnWay(later)' => OnWay(id)'
    <3>1. id \in 1..Len(sent)
      BY DEF ForCallback
    <3>2. client'[sent'[id].conn] = "connected" => OnWay(id)'
      BY <1>1, <2>1, <2>3, <2>4, <3>1 DEF KeptOnWay
    <3>3. ASSUME NEW later \in 1..Len(sent), id < later, sent[later].conn = sent[id].conn,
                 OnWay(later)'
          PROVE  OnWay(id)'
      BY <1>1, <2>3, <3>1, <3>3 DEF KeptOnWay
    <3> QED BY <2>1, <3>2, <3>3
  <2> QED BY <2>5, <2>6 DEF KeptOnWay
<1>7. ASSUME NEW c \in Conns, Send(c) PROVE KeptOnWay'
  BY <1>1, <1>7, KeptSend
<1>8. ASSUME NEW c \in Conns, Handle(c) PROVE KeptOnWay'
  BY <1>1, <1>8, KeptHandle
<1>9. KeptOnWay'
  BY <1>3, <1>4, <1>5, <1>6, <1>7, <1>8
<1> QED BY <1>2, <1>9 DEF Kept, KeptOnWay

-----------------------------------------------------------------------------
(* The theorem *)

LEMMA OrderInit ==
    ASSUME Init PROVE OrderInv
<1>1. /\ delivered = <<>> /\ pipe = <<>> /\ sent = <<>> /\ Calling = <<>> /\ Handled = <<>>
  BY DEF Init, Calling, Handled, Threads
<1>2. Ids(pipe) = <<>>
  <2>1. 1..Len(<<>>) = {}
    OBVIOUS
  <2> QED BY <1>1, <2>1 DEF Ids
<1>3. Len(Path) = 0
  <2>1. Path = ((<<>> \o <<>>) \o <<>>) \o <<>>
    BY <1>1, <1>2, Zenon DEF Path
  <2>2. Len(((<<>> \o <<>>) \o <<>>) \o <<>>) = 0
    OBVIOUS
  <2> QED BY <2>1, <2>2, Zenon
<1>4. 1..Len(Path) = {} /\ 1..Len(sent) = {}
  BY <1>1, <1>3
<1>5. PathOrder
  BY <1>4 DEF PathOrder
<1>6. AnswersLate
  <2>1. pc["cb"] = "selecting" /\ \A c \in Conns : outbox[c] = <<>>
    BY DEF Init, Threads
  <2>2. 1..Len(<<>>) = {}
    OBVIOUS
  <2> QED BY <2>1, <2>2 DEF AnswersLate
<1>7. Kept
  <2>1. \A c \in Conns : cli[c] = "absent"
    BY DEF Init
  <2> QED BY <1>4, <2>1 DEF Kept, ForCallback
<1> QED BY <1>5, <1>6, <1>7 DEF OrderInv

LEMMA OrderStep ==
    ASSUME ServerInv, OrderInv, [Next]_vars PROVE OrderInv'
<1>1. TypeOK /\ Tables /\ Writers /\ Held /\ Streams
  BY DEF ServerInv
<1>2. CASE Next
  BY <1>1, <1>2, PathOrderStep, AnswersLateStep, KeptStep DEF OrderInv
<1>3. CASE UNCHANGED vars
  <2>1. UNCHANGED <<sent, delivered, faults, outbox, client, cli, epoll, pc, msg>>
    BY <1>3 DEF vars, history, clients, tables
  <2>2. Path' = Path /\ \A c \in Conns : Stream(c)' = Stream(c)
    BY <1>3 DEF vars, history, clients, protocol, Path, Calling, Handled, Ids, KindOf, Stream
  <2>3. PathOrder'
    BY <2>1, <2>2 DEF OrderInv, PathOrder
  <2>4. AnswersLate'
    BY <2>1 DEF OrderInv, AnswersLate, WasDelivered
  <2>5. \A id \in 1..Len(sent) : OnWay(id)' <=> OnWay(id)
    BY <1>1, <2>1, <2>2, SentTyped, OnWaySame
  <2>6. Kept'
    BY <2>1, <2>5 DEF OrderInv, Kept, ForCallback
  <2> QED BY <2>3, <2>4, <2>6 DEF OrderInv
<1> QED BY <1>2, <1>3

LEMMA OrderInvariant ==
    Spec => [](ServerInv /\ OrderInv)
<1>1. Init => OrderInv
  BY OrderInit
<1>2. ServerInv /\ OrderInv /\ [Next]_vars => OrderInv'
  BY OrderStep
<1> QED BY <1>1, <1>2, ServerInvariant, PTL DEF Spec

\* Of two messages of a client the older one has been delivered, if the younger one has.
LEMMA NoGap ==
    ASSUME TypeOK, Held, PathOrder, Kept, faults = 0, NEW j \in 1..Len(delivered),
           NEW id \in 1..Len(sent), id < delivered[j], sent[id].conn = sent[delivered[j]].conn,
           sent[id].kind \in {"async", "sync"}
    PROVE  WasDelivered(id)
<1>1. PICK p \in Seq(MsgIds) : p = Path
  <2>1. Path \in Seq(MsgIds)
    BY PathTyped
  <2> QED BY <2>1, Zenon
<1>2. PICK d \in Seq(MsgIds) : d = delivered
  BY PathTyped
<1>3. Len(d) <= Len(p) /\ (\A i \in 1..Len(d) : p[i] = d[i]) /\ j \in 1..Len(d)
  BY <1>1, <1>2, PathTyped
<1>4. j \in 1..Len(p) /\ p[j] = delivered[j]
  BY <1>2, <1>3
<1>5. PICK later \in 1..Len(sent) : later = delivered[j]
  BY <1>1, <1>4 DEF PathOrder
<1>6. OnPath(later)
  BY <1>1, <1>4, <1>5 DEF OnPath
<1>7. OnWay(id)
  BY <1>5, <1>6 DEF Kept, ForCallback, OnWay
<1>8. ~ InStream(id)
  <2>1. sent[later].conn \in Conns /\ sent[id].conn = sent[later].conn
    BY <1>5, SentTyped
  <2>2. InStream(id) => later < id
    BY <1>6, <2>1, PathAhead
  <2> QED BY <1>5, <2>2
<1>9. PICK i \in 1..Len(p) : p[i] = id
  BY <1>1, <1>7, <1>8 DEF OnWay, OnPath
<1>10. i < j
  <2>1. j < i => p[j] < p[i]
    BY <1>1, <1>4, <1>5, <1>9 DEF PathOrder
  <2>2. i # j /\ ~ (p[j] < p[i])
    BY <1>4, <1>5, <1>9
  <2> QED BY <1>4, <2>1, <2>2
<1>11. i \in 1..Len(d) /\ d[i] = id
  BY <1>3, <1>9, <1>10
<1> QED BY <1>2, <1>11 DEF WasDelivered

LEMMA InOrder ==
    ASSUME TypeOK, Held, OrderInv PROVE DeliveredInOrder
<1>1. PICK p \in Seq(MsgIds) : p = Path
  <2>1. Path \in Seq(MsgIds)
    BY PathTyped
  <2> QED BY <2>1, Zenon
<1>2. PICK d \in Seq(MsgIds) : d = delivered
  BY PathTyped
<1>3. Len(d) <= Len(p) /\ \A i \in 1..Len(d) : i \in 1..Len(p) /\ p[i] = d[i]
  BY <1>1, <1>2, PathTyped
<1>4. \A i, j \in 1..Len(d) : i < j /\ sent[d[i]].conn = sent[d[j]].conn => d[i] < d[j]
  BY <1>1, <1>3 DEF OrderInv, PathOrder
<1>5. \A i, j \in 1..Len(delivered) :
        i < j /\ sent[delivered[i]].conn = sent[delivered[j]].conn => delivered[i] < delivered[j]
  BY <1>2, <1>4
<1>6. faults = 0 => \A j \in 1..Len(delivered), id \in 1..Len(sent) :
        id < delivered[j] /\ sent[id].conn = sent[delivered[j]].conn
            /\ sent[id].kind \in {"async", "sync"} => WasDelivered(id)
  BY NoGap DEF OrderInv
<1> QED BY <1>5, <1>6 DEF DeliveredInOrder, OrderInv, AnswersLate

\* The callback gets what a client sends in order, once and, with enough memory, without
\* a gap, although each message is read in pieces, goes through the pipe to another
\* thread and may be answered on the way; a sync_send is answered after its callback.
THEOREM DeliveredInOrderAlways == Spec => []DeliveredInOrder
<1>1. ServerInv /\ OrderInv => DeliveredInOrder
  BY InOrder DEF ServerInv
<1> QED BY <1>1, OrderInvariant, PTL


-----------------------------------------------------------------------------
(* The service *)

\* The message the receiving thread holds is older than all of its client that it has
\* not handled.
HandAhead == msg["rcv"] # NoMsg =>
    \A k \in 1..Len(Stream(msg["rcv"].uuid)) : msg["rcv"].id < Id(Stream(msg["rcv"].uuid), k)

\* What the abstract service sees of the server.
Asked == {<<sent[id].conn, id>> : id \in {i \in 1..Len(sent) : sent[i].kind \in Requests}}
Open == UNION {{c} \X Unanswered(c) : c \in Conns}
Replies == UNION {{<<c, outbox[c][i]>> : i \in 1..Len(outbox[c])} : c \in Conns}

\* A request that is not answered is in the stream of its client or attended to.
Attended(id) ==
    \/ \E t \in Threads : pc[t] \in {"sending", "writing"} /\ msg[t].id = id
    \/ sent[id].kind = "sync" /\ \/ \E t \in Threads : msg[t].id = id
                                 \/ \E i \in 1..Len(pipe) : pipe[i].id = id
Waits(id) == sent[id].kind \in Requests /\ (InStream(id) \/ Attended(id))

OpenKnown == \A m : m \in Open <=>
    \E id \in 1..Len(sent) : m = <<sent[id].conn, id>> /\ Waits(id)
RepliesKnown == \A m : m \in Replies <=>
    \E c \in Conns : \E i \in 1..Len(outbox[c]) : m = <<c, outbox[c][i]>>

LEMMA ServerKnown ==
    ServerInv => OpenKnown /\ RepliesKnown
<1> SUFFICES ASSUME TypeOK, Held, Streams PROVE OpenKnown /\ RepliesKnown
  BY DEF ServerInv
<1>1. RepliesKnown
  BY DEF RepliesKnown, Replies
<1>2. \A c \in Conns : \A id : id \in Unread(c) <=> \E k \in 1..Len(Stream(c)) : Id(Stream(c), k) = id
  <2> SUFFICES ASSUME NEW c \in Conns, NEW id
               PROVE  id \in Unread(c) <=> \E k \in 1..Len(Stream(c)) : Id(Stream(c), k) = id
    OBVIOUS
  <2>1. PICK g \in Seq(Pieces), b \in Seq(Pieces) : g = got[c] /\ b = inbox[c]
    BY StateTypes
  <2>2. PICK s \in Seq(Pieces) : s = Stream(c)
    BY StreamParts
  <2>3. /\ Len(s) = Len(g) + Len(b) /\ (\A i \in 1..Len(g) : s[i] = g[i])
        /\ \A i \in 1..Len(b) : s[Len(g) + i] = b[i]
    BY <2>1, <2>2, StreamParts
  <2>4. id \in Unread(c) <=>
          (\E i \in 1..Len(b) : b[i][1] = id) \/ (\E i \in 1..Len(g) : g[i][1] = id)
    BY <2>1 DEF Unread
  <2>5. \A i \in 1..Len(g) : i \in 1..Len(s) /\ Id(s, i) = g[i][1]
    BY <2>3 DEF Id
  <2>6. \A i \in 1..Len(b) : Len(g) + i \in 1..Len(s) /\ Id(s, Len(g) + i) = b[i][1]
    BY <2>3 DEF Id
  <2>7. ASSUME NEW k \in 1..Len(s), k \notin 1..Len(g)
        PROVE  \E i \in 1..Len(b) : k = Len(g) + i
    <3>1. k - Len(g) \in 1..Len(b) /\ k = Len(g) + (k - Len(g))
      BY <2>3, <2>7
    <3> QED BY <3>1
  <2>8. (\E k \in 1..Len(s) : Id(s, k) = id) <=>
          (\E i \in 1..Len(b) : b[i][1] = id) \/ (\E i \in 1..Len(g) : g[i][1] = id)
    <3>1. ASSUME NEW k \in 1..Len(s), Id(s, k) = id
          PROVE  \/ \E i \in 1..Len(b) : b[i][1] = id
                 \/ \E i \in 1..Len(g) : g[i][1] = id
      <4>1. CASE k \in 1..Len(g)
        BY <2>5, <3>1, <4>1
      <4>2. CASE k \notin 1..Len(g)
        <5>1. PICK i \in 1..Len(b) : k = Len(g) + i
          BY <2>7, <4>2
        <5> QED BY <2>6, <3>1, <5>1
      <4> QED BY <4>1, <4>2
    <3>2. ASSUME NEW i \in 1..Len(b), b[i][1] = id PROVE \E k \in 1..Len(s) : Id(s, k) = id
      BY <2>6, <3>2
    <3>3. ASSUME NEW i \in 1..Len(g), g[i][1] = id PROVE \E k \in 1..Len(s) : Id(s, k) = id
      BY <2>5, <3>3
    <3> QED BY <3>1, <3>2, <3>3
  <2>9. (\E k \in 1..Len(Stream(c)) : Id(Stream(c), k) = id) <=> \E k \in 1..Len(s) : Id(s, k) = id
    BY <2>2, Zenon
  <2> QED BY <2>4, <2>8, <2>9
<1>3. \A c \in Conns : \A k \in 1..Len(Stream(c)) :
        Id(Stream(c), k) \in 1..Len(sent) /\ sent[Id(Stream(c), k)].conn = c
  BY DEF Streams, WholeStream, Framed, Piece
<1>4. \A t \in Threads : msg[t] # NoMsg => Genuine(msg[t])
  BY DEF Held, HeldByReceiver, HeldByCallback, Threads
<1>5. \A i \in 1..Len(pipe) : Genuine(pipe[i])
  BY DEF Held, HeldInPipe
<1>6. \A t \in Threads : pc[t] \in {"sending", "writing"} => msg[t] # NoMsg
  BY InHands
<1>7. NoMsg.id = 0
  BY DEF NoMsg
<1>8. 0 \notin 1..Len(sent)
  BY StateTypes
<1>9. \A id \in InHand : id \in 1..Len(sent) /\ Attended(id)
  <2> SUFFICES ASSUME NEW id \in InHand PROVE id \in 1..Len(sent) /\ Attended(id)
    OBVIOUS
  <2>1. ASSUME NEW t \in Threads, pc[t] \in {"sending", "writing"}, msg[t].id = id
        PROVE  id \in 1..Len(sent) /\ Attended(id)
    BY <1>4, <1>6, <2>1 DEF Genuine, Attended
  <2>2. ASSUME NEW t \in Threads, msg[t].id = id, id # 0, sent[id].kind = "sync"
        PROVE  id \in 1..Len(sent) /\ Attended(id)
    BY <1>4, <1>7, <2>2 DEF Genuine, Attended
  <2>3. ASSUME NEW i \in 1..Len(pipe), pipe[i].id = id, sent[id].kind = "sync"
        PROVE  id \in 1..Len(sent) /\ Attended(id)
    BY <1>5, <2>3 DEF Genuine, Attended
  <2>4. \/ \E t \in Threads : pc[t] \in {"sending", "writing"} /\ msg[t].id = id
        \/ id # 0 /\ sent[id].kind = "sync" /\ \E t \in Threads : msg[t].id = id
        \/ sent[id].kind = "sync" /\ \E i \in 1..Len(pipe) : pipe[i].id = id
    BY DEF InHand
  <2> QED BY <2>1, <2>2, <2>3, <2>4
<1>10. \A id \in 1..Len(sent) : Attended(id) => id \in InHand
  BY <1>8 DEF Attended, InHand
<1>11. \A c \in Conns : \A id : id \in Unanswered(c) <=>
        id \in 1..Len(sent) /\ sent[id].conn = c /\ Waits(id)
  <2> SUFFICES ASSUME NEW c \in Conns, NEW id
               PROVE  id \in Unanswered(c) <=>
                        id \in 1..Len(sent) /\ sent[id].conn = c /\ Waits(id)
    OBVIOUS
  <2>1. id \in Unanswered(c) <=>
          (id \in Unread(c) \/ id \in InHand) /\ sent[id].conn = c /\ sent[id].kind \in Requests
    BY DEF Unanswered
  <2>2. sent[id].conn = c => (id \in Unread(c) <=> InStream(id))
    BY <1>2 DEF InStream
  <2>3. id \in Unread(c) => id \in 1..Len(sent)
    BY <1>2, <1>3
  <2> QED BY <1>9, <1>10, <2>1, <2>2, <2>3 DEF Waits
<1>12. OpenKnown
  <2>1. \A m : m \in Open <=> \E c \in Conns : \E id \in Unanswered(c) : m = <<c, id>>
    BY DEF Open
  <2>2. \A id \in 1..Len(sent) : sent[id].conn \in Conns
    BY SentTyped
  <2> QED BY <1>11, <2>1, <2>2 DEF OpenKnown
<1> QED BY <1>1, <1>12

\* The steps of the service, for what it sees of the server.
LEMMA ServiceLoses ==
    ASSUME ServerInv, OpenKnown, OpenKnown', RepliesKnown, RepliesKnown', UNCHANGED sent,
           NEW c \in Conns,
           \A id \in 1..Len(sent) : Waits(id)' => Waits(id),
           \A id \in 1..Len(sent) : sent[id].conn # c /\ Waits(id) => Waits(id)',
           \A d \in Conns \ {c} : outbox'[d] = outbox[d],
           \A i \in 1..Len(outbox'[c]) : \E j \in 1..Len(outbox[c]) : outbox[c][j] = outbox'[c][i]
    PROVE  Service!Next
<1>1. Open' \subseteq Open
  BY DEF OpenKnown
<1>2. \A id \in 1..Len(sent) : id \in MsgIds
  <2>1. sent \in Seq(MessageTypes) /\ Len(sent) <= MaxMessages
    BY StateTypes DEF ServerInv, TypeOK
  <2> QED BY <2>1, ServerAssumption DEF MsgIds
<1>3. Open \ Open' \subseteq {c} \X MsgIds
  BY <1>2 DEF OpenKnown
<1>4. outbox \in [Conns -> Seq(MsgIds)]
  BY DEF ServerInv, TypeOK
<1>5. Replies' \subseteq Replies
  <2> SUFFICES ASSUME NEW m \in Replies' PROVE m \in Replies
    OBVIOUS
  <2>1. PICK d \in Conns : \E i \in 1..Len(outbox'[d]) : m = <<d, outbox'[d][i]>>
    BY DEF RepliesKnown
  <2>2. \E j \in 1..Len(outbox[d]) : m = <<d, outbox[d][j]>>
    <3>1. CASE d = c
      BY <2>1, <3>1
    <3>2. CASE d # c
      BY <2>1, <3>2
    <3> QED BY <3>1, <3>2
  <2> QED BY <2>2 DEF RepliesKnown
<1>6. Replies \ Replies' \subseteq {c} \X MsgIds
  <2> SUFFICES ASSUME NEW m \in Replies, m \notin Replies' PROVE m \in {c} \X MsgIds
    OBVIOUS
  <2>1. PICK d \in Conns : \E i \in 1..Len(outbox[d]) : m = <<d, outbox[d][i]>>
    BY DEF RepliesKnown
  <2>2. PICK o \in Seq(MsgIds) : o = outbox[d]
    BY <1>4
  <2>3. PICK i \in 1..Len(o) : m = <<d, o[i]>>
    BY <2>1, <2>2
  <2>4. d = c
    <3>1. d # c => m \in Replies'
      BY <2>1 DEF RepliesKnown
    <3> QED BY <3>1
  <2>5. o[i] \in MsgIds
    OBVIOUS
  <2> QED BY <2>3, <2>4, <2>5
<1>7. Asked' = Asked
  BY DEF Asked
<1>8. Service!Lose(c)
  BY <1>1, <1>3, <1>5, <1>6, <1>7 DEF Service!Lose, Asked, Open, Replies
<1> QED BY <1>8 DEF Service!Next

LEMMA ServiceStays ==
    ASSUME OpenKnown, OpenKnown', UNCHANGED <<sent, outbox>>,
           \A id \in 1..Len(sent) : Waits(id)' <=> Waits(id)
    PROVE  UNCHANGED <<Asked, Open, Replies>>
<1>1. Asked' = Asked /\ Replies' = Replies
  BY DEF Asked, Replies
<1>2. \A m : m \in Open' <=> m \in Open
  BY DEF OpenKnown
<1> QED BY <1>1, <1>2

LEMMA ServiceAsks ==
    ASSUME ServerInv, OpenKnown, OpenKnown', UNCHANGED outbox, NEW c \in Conns, Send(c),
           \A id \in 1..Len(sent) : Waits(id)' <=> Waits(id)
    PROVE  Service!Next \/ UNCHANGED <<Asked, Open, Replies>>
<1>1. PICK new \in MsgIds : new = Len(sent) + 1
  BY SendTable DEF ServerInv
<1>2. PICK n \in Nat : n = Len(sent)
  BY StateTypes DEF ServerInv
<1>3. /\ Len(sent') = n + 1 /\ new = n + 1
      /\ \A id \in 1..Len(sent) : sent'[id] = sent[id]
      /\ sent'[new].conn = c
  BY <1>1, <1>2, SendTable DEF ServerInv
<1>4. \A id : id \in 1..Len(sent') <=> id \in 1..Len(sent) \/ id = new
  BY <1>2, <1>3
<1>5. new \notin 1..Len(sent)
  BY <1>2, <1>3
<1>6. Replies' = Replies
  BY DEF Replies
<1>7. CASE sent'[new].kind \in Requests
  <2>1. Asked' = Asked \cup {<<c, new>>}
    BY <1>3, <1>4, <1>7 DEF Asked
  <2>2. <<c, new>> \notin Asked
    BY <1>5 DEF Asked
  <2>3. Open' = Open \/ Open' = Open \cup {<<c, new>>}
    <3>1. CASE Waits(new)'
      <4>1. \A m : m \in Open' <=> m \in Open \/ m = <<c, new>>
        BY <1>3, <1>4, <3>1 DEF OpenKnown
      <4> QED BY <4>1
    <3>2. CASE ~ Waits(new)'
      <4>1. \A m : m \in Open' <=> m \in Open
        BY <1>3, <1>4, <3>2 DEF OpenKnown
      <4> QED BY <4>1
    <3> QED BY <3>1, <3>2
  <2>4. Service!Ask(<<c, new>>)
    BY <1>6, <2>1, <2>2, <2>3 DEF Service!Ask, Asked, Open, Replies
  <2> QED BY <2>4 DEF Service!Next
<1>8. CASE sent'[new].kind \notin Requests
  <2>1. Asked' = Asked
    BY <1>3, <1>4, <1>8 DEF Asked
  <2>2. ~ Waits(new)'
    BY <1>8 DEF Waits
  <2>3. \A m : m \in Open' <=> m \in Open
    BY <1>3, <1>4, <2>2 DEF OpenKnown
  <2> QED BY <1>6, <2>1, <2>3
<1> QED BY <1>7, <1>8

LEMMA ServiceAnswers ==
    ASSUME OpenKnown, OpenKnown', RepliesKnown, RepliesKnown', UNCHANGED sent,
           NEW c \in Conns, NEW n \in MsgIds, n \in 1..Len(sent), sent[n].conn = c,
           outbox \in [Conns -> Seq(MsgIds)], outbox' = [outbox EXCEPT ![c] = Append(@, n)],
           Waits(n), ~ Waits(n)', \A id \in 1..Len(sent) : id # n => (Waits(id)' <=> Waits(id))
    PROVE  Service!Next
<1>1. <<c, n>> \in Open /\ Open' = Open \ {<<c, n>>}
  <2>1. <<c, n>> \in Open
    BY DEF OpenKnown
  <2>2. \A m : m \in Open' => m \in Open /\ m # <<c, n>>
    BY DEF OpenKnown
  <2>3. \A m : m \in Open /\ m # <<c, n>> => m \in Open'
    BY DEF OpenKnown
  <2> QED BY <2>1, <2>2, <2>3
<1>2. Replies' = Replies \cup {<<c, n>>}
  <2>1. PICK o \in Seq(MsgIds) : o = outbox[c]
    OBVIOUS
  <2>2. outbox'[c] = Append(o, n) /\ \A d \in Conns \ {c} : outbox'[d] = outbox[d]
    BY <2>1
  <2>3. /\ \A i \in 1..Len(o) : i \in 1..Len(Append(o, n)) /\ Append(o, n)[i] = o[i]
        /\ Len(o) + 1 \in 1..Len(Append(o, n)) /\ Append(o, n)[Len(o) + 1] = n
        /\ \A i \in 1..Len(Append(o, n)) : i \in 1..Len(o) \/ i = Len(o) + 1
    OBVIOUS
  <2>4. \A r : (\E i \in 1..Len(Append(o, n)) : r = <<c, Append(o, n)[i]>>) <=>
                 (\E i \in 1..Len(o) : r = <<c, o[i]>>) \/ r = <<c, n>>
    BY <2>3
  <2>5. \A d \in Conns : \A r : (\E i \in 1..Len(outbox'[d]) : r = <<d, outbox'[d][i]>>) <=>
                 (\E i \in 1..Len(outbox[d]) : r = <<d, outbox[d][i]>>) \/ (d = c /\ r = <<c, n>>)
    <3> SUFFICES ASSUME NEW d \in Conns, NEW r
                 PROVE  (\E i \in 1..Len(outbox'[d]) : r = <<d, outbox'[d][i]>>) <=>
                 (\E i \in 1..Len(outbox[d]) : r = <<d, outbox[d][i]>>) \/ (d = c /\ r = <<c, n>>)
      OBVIOUS
    <3>1. CASE d = c
      <4>1. outbox'[d] = Append(o, n) /\ outbox[d] = o
        BY <2>1, <2>2, <3>1, Zenon
      <4>2. (\E i \in 1..Len(outbox'[d]) : r = <<d, outbox'[d][i]>>) <=>
               \E i \in 1..Len(Append(o, n)) : r = <<c, Append(o, n)[i]>>
        BY <3>1, <4>1, Zenon
      <4>3. (\E i \in 1..Len(outbox[d]) : r = <<d, outbox[d][i]>>) <=>
               \E i \in 1..Len(o) : r = <<c, o[i]>>
        BY <3>1, <4>1, Zenon
      <4>4. (\E i \in 1..Len(Append(o, n)) : r = <<c, Append(o, n)[i]>>) <=>
               (\E i \in 1..Len(o) : r = <<c, o[i]>>) \/ r = <<c, n>>
        BY <2>4, Zenon
      <4> QED BY <3>1, <4>2, <4>3, <4>4, Zenon
    <3>2. CASE d # c
      BY <2>2, <3>2
    <3> QED BY <3>1, <3>2
  <2>6. \A r : r \in Replies' <=> r \in Replies \/ r = <<c, n>>
    BY <2>5 DEF RepliesKnown
  <2> QED BY <2>6
<1>3. Asked' = Asked
  BY DEF Asked
<1>4. Service!Answer(<<c, n>>)
  BY <1>1, <1>2, <1>3 DEF Service!Answer, Asked, Open, Replies
<1> QED BY <1>4 DEF Service!Next

LEMMA ServiceReads ==
    ASSUME TypeOK, RepliesKnown, RepliesKnown', NEW c \in Conns, ReadReply(c),
           Open' = Open, UNCHANGED sent
    PROVE  Service!Next \/ UNCHANGED <<Asked, Open, Replies>>
<1>1. PICK o \in Seq(MsgIds) : o = outbox[c]
  BY DEF TypeOK
<1>2. /\ o # <<>> /\ outbox'[c] = Tail(o) /\ \A d \in Conns \ {c} : outbox'[d] = outbox[d]
  BY <1>1 DEF ReadReply, TypeOK
<1>3. PICK n \in MsgIds : n = o[1]
  BY <1>2
<1>4. /\ 1 \in 1..Len(o) /\ \A i \in 1..Len(Tail(o)) : i + 1 \in 1..Len(o) /\ Tail(o)[i] = o[i + 1]
      /\ \A i \in 1..Len(o) : i # 1 => i - 1 \in 1..Len(Tail(o)) /\ Tail(o)[i - 1] = o[i]
  BY <1>2
<1>5. \A r : (\E i \in 1..Len(o) : r = <<c, o[i]>>) <=>
                 (\E i \in 1..Len(Tail(o)) : r = <<c, Tail(o)[i]>>) \/ r = <<c, n>>
  <2>1. ASSUME NEW i \in 1..Len(o)
        PROVE  o[i] = n \/ \E j \in 1..Len(Tail(o)) : Tail(o)[j] = o[i]
    BY <1>3, <1>4
  <2>2. ASSUME NEW i \in 1..Len(Tail(o)) PROVE \E j \in 1..Len(o) : o[j] = Tail(o)[i]
    BY <1>4
  <2> QED BY <1>3, <1>4, <2>1, <2>2
<1>6. \A d \in Conns : \A r : (\E i \in 1..Len(outbox[d]) : r = <<d, outbox[d][i]>>) <=>
               (\E i \in 1..Len(outbox'[d]) : r = <<d, outbox'[d][i]>>) \/ (d = c /\ r = <<c, n>>)
  <2> SUFFICES ASSUME NEW d \in Conns, NEW r
               PROVE  (\E i \in 1..Len(outbox[d]) : r = <<d, outbox[d][i]>>) <=>
               (\E i \in 1..Len(outbox'[d]) : r = <<d, outbox'[d][i]>>) \/ (d = c /\ r = <<c, n>>)
    OBVIOUS
  <2>1. CASE d = c
    <3>1. outbox'[d] = Tail(o) /\ outbox[d] = o
      BY <1>1, <1>2, <2>1, Zenon
    <3>2. (\E i \in 1..Len(outbox'[d]) : r = <<d, outbox'[d][i]>>) <=>
             \E i \in 1..Len(Tail(o)) : r = <<c, Tail(o)[i]>>
      BY <2>1, <3>1, Zenon
    <3>3. (\E i \in 1..Len(outbox[d]) : r = <<d, outbox[d][i]>>) <=>
             \E i \in 1..Len(o) : r = <<c, o[i]>>
      BY <2>1, <3>1, Zenon
    <3> QED BY <1>5, <2>1, <3>2, <3>3, Zenon
  <2>2. CASE d # c
    BY <1>2, <2>2
  <2> QED BY <2>1, <2>2
<1>7. \A r : r \in Replies <=> r \in Replies' \/ r = <<c, n>>
  BY <1>6 DEF RepliesKnown
<1>8. Asked' = Asked
  BY DEF Asked
<1>9. CASE <<c, n>> \in Replies'
  <2>1. Replies' = Replies
    BY <1>7, <1>9
  <2> QED BY <1>8, <2>1
<1>10. CASE <<c, n>> \notin Replies'
  <2>1. <<c, n>> \in Replies /\ Replies' = Replies \ {<<c, n>>}
    BY <1>7, <1>10
  <2>2. Service!Read(<<c, n>>)
    BY <1>8, <2>1 DEF Service!Read, Asked, Open, Replies
  <2> QED BY <2>2 DEF Service!Next
<1> QED BY <1>9, <1>10

\* The receiving thread is ahead of the stream.
LEMMA HandAheadStep ==
    ASSUME ServerInv, HandAhead, [Next]_vars PROVE HandAhead'
<1>1. TypeOK /\ Tables /\ Writers /\ Held /\ Streams
  BY DEF ServerInv
<1>2. CASE UNCHANGED vars
  BY <1>2 DEF vars, HandAhead, Stream, protocol, clients
<1>3. CASE Next /\ msg'["rcv"] = msg["rcv"] /\ msg["rcv"] # NoMsg
  <2>1. PICK m \in Messages : m = msg["rcv"] /\ m.uuid \in Conns /\ m.id \in 1..Len(sent)
    <3>1. msg["rcv"] \in Messages \cup {NoMsg} /\ Genuine(msg["rcv"])
      BY <1>1, <1>3 DEF TypeOK, Messages, Threads, Held, HeldByReceiver
    <3> QED BY <1>3, <3>1 DEF Messages, Genuine
  <2>2. ASSUME NEW k \in 1..Len(Stream(m.uuid)') PROVE m.id < Id(Stream(m.uuid)', k)
    <3>1. CASE \E i \in 1..Len(Stream(m.uuid)) : Id(Stream(m.uuid), i) = Id(Stream(m.uuid)', k)
      BY <1>3, <2>1, <3>1 DEF HandAhead
    <3>2. CASE Id(Stream(m.uuid)', k) = Len(sent) + 1
      <4>1. Len(sent) \in Nat
        BY <1>1, StateTypes
      <4> QED BY <2>1, <3>2, <4>1
    <3> QED BY <1>1, <1>3, <2>1, <3>1, <3>2, StreamsGrow
  <2> QED BY <1>3, <2>1, <2>2 DEF HandAhead
<1>4. ASSUME NEW c \in Conns, Handle(c), msg'["rcv"] # NoMsg PROVE HandAhead'
  <2>1. PICK id : id = got[c][1][1]
    OBVIOUS
  <2>2. id \in MsgIds /\ stage[c] = "done" /\ Reset(c) /\ UNCHANGED inbox
    BY <1>1, <1>4, <2>1, HandlePath
  <2>3. id = Id(Stream(c), 1) /\ \A k \in 1..Len(Stream(c)') : Id(Stream(c)', k) > Id(Stream(c), 1)
    BY <1>1, <2>1, <2>2, ResetStream
  <2>4. msg'["rcv"] = [uuid |-> c, id |-> id]
    <3>1. msg \in [Threads -> Messages \cup {NoMsg}] /\ "rcv" \in Threads
      BY <1>1, TypeParts DEF Threads, ThreadsType
    <3> QED BY <1>4, <2>1, <3>1 DEF Handle, Drops
  <2>5. msg'["rcv"].uuid = c /\ msg'["rcv"].id = id
    BY <2>4
  <2>6. \A k \in 1..Len(Stream(c)') : id < Id(Stream(c)', k)
    <3> SUFFICES ASSUME NEW k \in 1..Len(Stream(c)') PROVE id < Id(Stream(c)', k)
      OBVIOUS
    <3>1. PICK i \in 1..Len(Stream(c)) : Id(Stream(c), i) = Id(Stream(c)', k)
      BY <1>1, <2>2, ResetStream
    <3>2. Id(Stream(c)', k) \in Nat
      BY <1>1, <3>1, StreamParts, PieceTypes
    <3> QED BY <2>2, <2>3, <3>2 DEF MsgIds
  <2> QED BY <2>5, <2>6 DEF HandAhead
<1>5. CASE msg'["rcv"] = NoMsg
  BY <1>5 DEF HandAhead
<1>6. ASSUME Next PROVE \/ msg'["rcv"] = msg["rcv"] \/ msg'["rcv"] = NoMsg
                        \/ \E c \in Conns : Handle(c)
  <2>1. /\ msg \in [Threads -> Messages \cup {NoMsg}] /\ "rcv" \in Threads /\ "cb" \in Threads
        /\ \A t \in Threads : t \in {"rcv", "cb"}
    BY <1>1, TypeParts DEF Threads, ThreadsType
  <2>2. ASSUME Drops PROVE msg'["rcv"] = NoMsg
    BY <2>1, <2>2 DEF Drops
  <2>3. ASSUME NEW t \in Threads, Sent(t) PROVE msg'["rcv"] = msg["rcv"] \/ msg'["rcv"] = NoMsg
    BY <1>1, <2>1, <2>3, SentMoves
  <2>4. ASSUME PipeRead PROVE msg'["rcv"] = msg["rcv"]
    BY <2>1, <2>4 DEF PipeRead
  <2>5. ASSUME Callback PROVE msg'["rcv"] = msg["rcv"] \/ msg'["rcv"] = NoMsg
    BY <2>1, <2>3, <2>5 DEF Callback
  <2>6. ASSUME NEW t \in Threads, \/ SendBegins(t) \/ SendUnknown(t) \/ SendFails(t)
                                  \/ SendWrites(t) \/ SendBroken(t)
        PROVE msg'["rcv"] = msg["rcv"] \/ msg'["rcv"] = NoMsg
    BY <2>3, <2>6 DEF SendBegins, SendUnknown, SendFails, SendWrites, SendBroken
  <2>7. \/ UNCHANGED msg \/ Drops \/ PipeRead \/ Callback \/ \E c \in Conns : Handle(c)
        \/ \E t \in Threads : \/ SendBegins(t) \/ SendUnknown(t) \/ SendFails(t)
                              \/ SendWrites(t) \/ SendBroken(t)
    BY <1>6, StepCases DEF Send, ReadReply, Close, Accept, AcceptRefused, AcceptUnmapped,
       AcceptUnlisted, ReadHead, ReadHeadFails, ReadBuf, Takes, ReadNothing, ReadEnds,
       CloseUnmaps, CloseEnds, HandleFails, PipeWrite
  <2> QED BY <2>2, <2>4, <2>5, <2>6, <2>7
<1> QED BY <1>2, <1>3, <1>4, <1>5, <1>6

\* Only the end of a reply and the begin of handling change which requests are
\* attended to.
LEMMA AttendedSame ==
    ASSUME TypeOK, Held, Streams, Next, ~ \E c \in Conns : Handle(c),
           ~ \E t \in Threads : SendUnknown(t) \/ SendFails(t) \/ SendWrites(t) \/ SendBroken(t),
           NEW id \in 1..Len(sent)
    PROVE  Attended(id)' <=> Attended(id)
<1>1. sent'[id] = sent[id] /\ id # 0
  BY SentGrows, StateTypes
<1>2. /\ "rcv" \in Threads /\ "cb" \in Threads /\ "cb" # "rcv"
      /\ \A t \in Threads : t \in {"rcv", "cb"}
      /\ msg \in [Threads -> Messages \cup {NoMsg}] /\ pipe \in Seq(Messages)
      /\ NoMsg.id = 0
  BY TypeParts DEF Threads, ThreadsType, NoMsg
<1>3. \A t \in Threads : \A place : Goes(t, place) =>
        pc'[t] = place /\ \A u \in Threads \ {t} : pc'[u] = pc[u]
  BY Going
<1>4. ASSUME UNCHANGED <<msg, pipe>>,
             \A t \in Threads : pc'[t] \in {"sending", "writing"} <=> pc[t] \in {"sending", "writing"}
      PROVE  Attended(id)' <=> Attended(id)
  BY <1>1, <1>4 DEF Attended
<1>5. ASSUME NEW c \in Conns, \/ Send(c) \/ ReadReply(c) \/ Close(c) \/ Accept(c)
                              \/ AcceptRefused(c) \/ AcceptUnmapped(c) \/ AcceptUnlisted(c)
      PROVE  Attended(id)' <=> Attended(id)
  <2>1. UNCHANGED <<pc, msg, pipe>>
    BY <1>5 DEF Send, ReadReply, Close, Accept, AcceptRefused, AcceptUnmapped, AcceptUnlisted
  <2> QED BY <1>4, <2>1
<1>6. ASSUME NEW c \in Conns, \/ ReadHead(c) \/ ReadHeadFails(c) \/ ReadBuf(c)
                              \/ ReadNothing(c) \/ ReadEnds(c) \/ CloseUnmaps(c) \/ CloseEnds(c)
      PROVE  Attended(id)' <=> Attended(id)
  <2>1. UNCHANGED <<msg, pipe>>
    BY <1>6 DEF ReadHead, ReadHeadFails, ReadBuf, Takes, ReadNothing, ReadEnds, CloseUnmaps,
       CloseEnds
  <2>2. pc["rcv"] \notin {"sending", "writing"}
    BY <1>6 DEF ReadHead, ReadHeadFails, ReadBuf, Takes, Attends, ReadNothing, ReadEnds,
       CloseUnmaps, CloseEnds
  <2>3. \E place : Goes("rcv", place) /\ place \notin {"sending", "writing"}
    <3>1. ReadHead(c) => \E place : Goes("rcv", place) /\ place \notin {"sending", "writing"}
      BY HeadOutcome
    <3>2. ReadBuf(c) => \E place : Goes("rcv", place) /\ place \notin {"sending", "writing"}
      BY BufOutcome
    <3> QED BY <1>6, <3>1, <3>2 DEF ReadHeadFails, ReadNothing, ReadEnds, CloseUnmaps, CloseEnds
  <2>4. \A t \in Threads : pc'[t] \in {"sending", "writing"} <=> pc[t] \in {"sending", "writing"}
    BY <1>2, <1>3, <2>2, <2>3
  <2> QED BY <1>4, <2>1, <2>4
<1>7. ASSUME NEW c \in Conns, HandleFails(c) PROVE Attended(id)' <=> Attended(id)
  <2>1. pc["rcv"] = "handling" /\ Drops /\ UNCHANGED pipe
    BY <1>7 DEF HandleFails
  <2>2. msg["rcv"] = NoMsg /\ msg'["rcv"] = NoMsg /\ msg'["cb"] = msg["cb"]
    BY <1>2, <2>1 DEF Drops, Held, HeldByReceiver
  <2>3. pc'["rcv"] = "polling" /\ pc'["cb"] = pc["cb"]
    BY <1>2, <1>3, <2>1 DEF Drops
  <2>4. \A t \in Threads : msg'[t] = msg[t]
    BY <1>2, <2>2
  <2>5. \A t \in Threads : pc'[t] \in {"sending", "writing"} <=> pc[t] \in {"sending", "writing"}
    BY <1>2, <2>1, <2>3
  <2> QED BY <1>1, <2>1, <2>4, <2>5 DEF Attended
<1>8. ASSUME PipeWrite PROVE Attended(id)' <=> Attended(id)
  <2>1. pc["rcv"] = "piping" /\ pipe' = Append(pipe, msg["rcv"]) /\ Drops
    BY <1>8 DEF PipeWrite
  <2>2. /\ msg'["rcv"] = NoMsg /\ msg'["cb"] = msg["cb"]
        /\ pc'["rcv"] = "polling" /\ pc'["cb"] = pc["cb"]
    BY <1>2, <1>3, <2>1 DEF Drops
  <2>3. PICK m \in Messages : m = msg["rcv"]
    BY <1>2, <2>1, InHands
  <2>4. (\E i \in 1..Len(pipe') : pipe'[i].id = id) <=>
          (\E i \in 1..Len(pipe) : pipe[i].id = id) \/ m.id = id
    <3>1. PICK p \in Seq(Messages) : p = pipe
      BY <1>2
    <3>2. PICK q \in Seq(Messages) : q = pipe' /\ q = Append(p, m)
      <4>1. Append(p, m) \in Seq(Messages)
        OBVIOUS
      <4> QED BY <2>1, <2>3, <3>1, <4>1, Zenon
    <3>3. /\ \A i \in 1..Len(p) : i \in 1..Len(q) /\ q[i] = p[i]
          /\ Len(p) + 1 \in 1..Len(q) /\ q[Len(p) + 1] = m
          /\ \A i \in 1..Len(q) : i \in 1..Len(p) \/ i = Len(p) + 1
      BY <3>2, Grown
    <3>4. (\E i \in 1..Len(q) : q[i].id = id) <=> (\E i \in 1..Len(p) : p[i].id = id) \/ m.id = id
      BY <3>3
    <3> QED BY <3>1, <3>2, <3>4, Zenon
  <2>5. \A t \in Threads : pc'[t] \in {"sending", "writing"} <=> pc[t] \in {"sending", "writing"}
    BY <1>2, <2>1, <2>2
  <2>6. (\E t \in Threads : pc'[t] \in {"sending", "writing"} /\ msg'[t].id = id) <=>
          \E t \in Threads : pc[t] \in {"sending", "writing"} /\ msg[t].id = id
    BY <1>2, <2>1, <2>2
  <2>7. (\E t \in Threads : msg[t].id = id) <=> (\E t \in Threads : msg'[t].id = id) \/ m.id = id
    BY <1>1, <1>2, <2>2, <2>3
  <2> QED BY <1>1, <2>4, <2>6, <2>7 DEF Attended
<1>9. ASSUME PipeRead PROVE Attended(id)' <=> Attended(id)
  <2>1. /\ pc["cb"] = "selecting" /\ pipe # <<>> /\ msg' = [msg EXCEPT !["cb"] = Head(pipe)]
        /\ pipe' = Tail(pipe) /\ Goes("cb", "calling")
    BY <1>9 DEF PipeRead
  <2>2. /\ msg'["rcv"] = msg["rcv"] /\ msg'["cb"] = Head(pipe) /\ msg["cb"] = NoMsg
        /\ pc'["cb"] = "calling" /\ pc'["rcv"] = pc["rcv"]
    BY <1>2, <1>3, <2>1 DEF Held, HeldByCallback
  <2>3. (\E i \in 1..Len(pipe) : pipe[i].id = id) <=>
          (\E i \in 1..Len(pipe') : pipe'[i].id = id) \/ Head(pipe).id = id
    <3>1. PICK p \in Seq(Messages) : p = pipe
      BY <1>2
    <3>2. PICK q \in Seq(Messages) : q = pipe' /\ q = Tail(p)
      <4>1. Tail(p) \in Seq(Messages)
        BY <2>1, <3>1
      <4> QED BY <2>1, <3>1, <4>1, Zenon
    <3>3. /\ 1 \in 1..Len(p) /\ p[1] = Head(p)
          /\ \A i \in 1..Len(q) : i + 1 \in 1..Len(p) /\ q[i] = p[i + 1]
          /\ \A i \in 1..Len(p) : i # 1 => i - 1 \in 1..Len(q) /\ q[i - 1] = p[i]
      BY <2>1, <3>1, <3>2
    <3>4. (\E i \in 1..Len(p) : p[i].id = id) <=>
            (\E i \in 1..Len(q) : q[i].id = id) \/ Head(p).id = id
      <4>1. ASSUME NEW i \in 1..Len(p), p[i].id = id
            PROVE  (\E j \in 1..Len(q) : q[j].id = id) \/ Head(p).id = id
        BY <3>3, <4>1
      <4>2. ASSUME NEW i \in 1..Len(q), q[i].id = id PROVE \E j \in 1..Len(p) : p[j].id = id
        BY <3>3, <4>2
      <4> QED BY <3>3, <4>1, <4>2
    <3> QED BY <3>1, <3>2, <3>4, Zenon
  <2>4. (\E t \in Threads : pc'[t] \in {"sending", "writing"} /\ msg'[t].id = id) <=>
          \E t \in Threads : pc[t] \in {"sending", "writing"} /\ msg[t].id = id
    BY <1>2, <2>1, <2>2
  <2>5. (\E t \in Threads : msg'[t].id = id) <=> (\E t \in Threads : msg[t].id = id) \/ Head(pipe).id = id
    BY <1>1, <1>2, <2>2
  <2> QED BY <1>1, <2>3, <2>4, <2>5 DEF Attended
<1>10. ASSUME NEW t \in Threads, SendBegins(t) PROVE Attended(id)' <=> Attended(id)
  <2>1. pc[t] = "sending" /\ Goes(t, "writing") /\ UNCHANGED <<msg, pipe>>
    BY <1>10 DEF SendBegins
  <2>2. \A u \in Threads : pc'[u] \in {"sending", "writing"} <=> pc[u] \in {"sending", "writing"}
    BY <1>3, <2>1
  <2> QED BY <1>4, <2>1, <2>2
<1>11. ASSUME Callback PROVE Attended(id)' <=> Attended(id)
  <2>1. pc["cb"] = "calling" /\ UNCHANGED pipe
    BY <1>11 DEF Callback
  <2>2. CASE Kind("cb") = "sync"
    <3>1. Goes("cb", "sending") /\ UNCHANGED msg
      BY <1>11, <2>2 DEF Callback
    <3>2. pc'["cb"] = "sending" /\ pc'["rcv"] = pc["rcv"]
      BY <1>2, <1>3, <3>1
    <3>3. (\E t \in Threads : pc'[t] \in {"sending", "writing"} /\ msg'[t].id = id) <=>
            (\E t \in Threads : pc[t] \in {"sending", "writing"} /\ msg[t].id = id) \/ msg["cb"].id = id
      BY <1>2, <2>1, <3>1, <3>2
    <3>4. msg["cb"].id = id => sent[id].kind = "sync" /\ \E t \in Threads : msg[t].id = id
      BY <1>2, <2>2 DEF Kind
    <3> QED BY <1>1, <2>1, <3>1, <3>3, <3>4 DEF Attended
  <2>3. CASE Kind("cb") # "sync"
    <3>1. Sent("cb")
      BY <1>11, <2>3 DEF Callback
    <3>2. /\ pc'["cb"] = "selecting" /\ pc'["rcv"] = pc["rcv"] /\ msg'["rcv"] = msg["rcv"]
          /\ msg'["cb"] = NoMsg
      BY <1>2, <1>3, <3>1, SentMoves
    <3>3. (\E t \in Threads : pc'[t] \in {"sending", "writing"} /\ msg'[t].id = id) <=>
            \E t \in Threads : pc[t] \in {"sending", "writing"} /\ msg[t].id = id
      BY <1>2, <2>1, <3>2
    <3>4. sent[id].kind = "sync" => msg["cb"].id # id
      BY <2>3 DEF Kind
    <3>5. sent[id].kind = "sync" =>
            ((\E t \in Threads : msg'[t].id = id) <=> \E t \in Threads : msg[t].id = id)
      BY <1>1, <1>2, <3>2, <3>4
    <3> QED BY <1>1, <2>1, <3>3, <3>5 DEF Attended
  <2> QED BY <2>2, <2>3
<1> QED BY <1>5, <1>6, <1>7, <1>8, <1>9, <1>10, <1>11, StepCases

\* A sync_send the callback was called for is nowhere else on the path.
LEMMA PathOnce ==
    ASSUME TypeOK, Held, PathOrder, NEW n \in 1..Len(sent), sent[n].kind = "sync", WasDelivered(n)
    PROVE  (\A i \in 1..Len(pipe) : pipe[i].id # n) /\ msg["rcv"].id # n
<1>1. PICK d, k, p, h \in Seq(MsgIds) : d = delivered /\ k = Calling /\ p = Ids(pipe) /\ h = Handled
  BY PathTyped
<1>2. PICK x \in Seq(MsgIds) : x = d \o k
  <2>1. d \o k \in Seq(MsgIds)
    OBVIOUS
  <2> QED BY <2>1, Zenon
<1>3. PICK y \in Seq(MsgIds) : y = x \o p
  <2>1. x \o p \in Seq(MsgIds)
    OBVIOUS
  <2> QED BY <2>1, Zenon
<1>4. PICK z \in Seq(MsgIds) : z = y \o h
  <2>1. y \o h \in Seq(MsgIds)
    OBVIOUS
  <2> QED BY <2>1, Zenon
<1>5. z = Path
  BY <1>1, <1>2, <1>3, <1>4, Zenon DEF Path
<1>6. /\ Len(x) = Len(d) + Len(k) /\ \A i \in 1..Len(d) : x[i] = d[i]
  BY <1>2, Joined
<1>7. /\ Len(y) = Len(x) + Len(p) /\ (\A i \in 1..Len(x) : y[i] = x[i])
      /\ \A i \in 1..Len(p) : y[Len(x) + i] = p[i]
  BY <1>3, Joined
<1>8. /\ Len(z) = Len(y) + Len(h) /\ (\A i \in 1..Len(y) : z[i] = y[i])
      /\ \A i \in 1..Len(h) : z[Len(y) + i] = h[i]
  BY <1>4, Joined
<1>9. PICK a \in 1..Len(d) : d[a] = n
  BY <1>1 DEF WasDelivered
<1>10. a \in 1..Len(z) /\ z[a] = n
  BY <1>6, <1>7, <1>8, <1>9
<1>11. \A i \in 1..Len(p) : Len(x) + i \in 1..Len(z) /\ z[Len(x) + i] = p[i] /\ a < Len(x) + i
  BY <1>6, <1>7, <1>8
<1>12. \A i \in 1..Len(h) : Len(y) + i \in 1..Len(z) /\ z[Len(y) + i] = h[i] /\ a < Len(y) + i
  BY <1>6, <1>7, <1>8
<1>13. \A b \in 1..Len(z) : a < b => z[b] # n
  <2> SUFFICES ASSUME NEW b \in 1..Len(z), a < b, z[b] = n PROVE FALSE
    OBVIOUS
  <2>1. z[a] < z[b]
    BY <1>5, <1>10 DEF PathOrder
  <2> QED BY <1>10, <2>1
<1>14. ASSUME NEW i \in 1..Len(pipe) PROVE pipe[i].id # n
  <2>1. i \in 1..Len(p) /\ p[i] = pipe[i].id
    <3>1. pipe \in Seq(Messages)
      BY TypeParts DEF ThreadsType
    <3>2. Len(p) = Len(pipe) /\ \A j \in 1..Len(pipe) : p[j] = pipe[j].id
      BY <1>1, <3>1, IdsTyped
    <3> QED BY <3>2
  <2> QED BY <1>11, <1>13, <2>1
<1>15. msg["rcv"].id # n
  <2> SUFFICES ASSUME msg["rcv"].id = n PROVE FALSE
    OBVIOUS
  <2>1. msg["rcv"] # NoMsg
    BY StateTypes DEF NoMsg
  <2>2. Handled = <<n>>
    BY <2>1 DEF Handled, KindOf
  <2>3. 1 \in 1..Len(h) /\ h[1] = n
    BY <1>1, <2>2
  <2> QED BY <1>12, <1>13, <2>3
<1> QED BY <1>14, <1>15

\* A thread that is done with a reply attends to that request no longer, and nobody
\* else does: it is in one place.
LEMMA AttendedOnce ==
    ASSUME ServerInv, OrderInv, NEW t \in Threads, Sent(t), pc[t] \in {"sending", "writing"},
           UNCHANGED <<sent, pipe>>, NEW n, n = msg[t].id
    PROVE  /\ n \in 1..Len(sent) /\ Attended(n) /\ ~ Attended(n)'
           /\ \A id \in 1..Len(sent) : id # n => (Attended(id)' <=> Attended(id))
<1>1. TypeOK /\ Held /\ PathOrder /\ AnswersLate
  BY DEF ServerInv, OrderInv
<1>2. /\ "rcv" \in Threads /\ "cb" \in Threads /\ "cb" # "rcv"
      /\ \A u \in Threads : u \in {"rcv", "cb"} /\ NoMsg.id = 0
  BY DEF Threads, NoMsg
<1>3. \A u \in Threads : \A place : Goes(u, place) =>
        pc'[u] = place /\ \A v \in Threads \ {u} : pc'[v] = pc[v]
  BY <1>1, Going
<1>4. n \in 1..Len(sent) /\ n = msg[t].id /\ Attended(n)
  BY <1>1, InHands DEF Genuine, Attended
<1>5. n # 0 /\ \A id \in 1..Len(sent) : id # 0
  BY <1>1, <1>4, StateTypes
<1>6. /\ \A u \in Threads \ {t} : pc'[u] = pc[u] /\ msg'[u] = msg[u]
      /\ pc'[t] \notin {"sending", "writing"}
      /\ msg'[t] = NoMsg \/ (msg'[t] = msg[t] /\ sent[n].kind # "sync")
  BY <1>1, <1>2, <1>3, <1>4, SentMoves, InHands DEF Kind
<1>7. ASSUME NEW id \in 1..Len(sent), id # n PROVE Attended(id)' <=> Attended(id)
  <2>1. (\E u \in Threads : pc'[u] \in {"sending", "writing"} /\ msg'[u].id = id) <=>
          \E u \in Threads : pc[u] \in {"sending", "writing"} /\ msg[u].id = id
    BY <1>4, <1>6, <1>7
  <2>2. (\E u \in Threads : msg'[u].id = id) <=> \E u \in Threads : msg[u].id = id
    BY <1>2, <1>4, <1>5, <1>6, <1>7
  <2> QED BY <2>1, <2>2 DEF Attended
<1>8. CASE t = "rcv"
  <2>1. sent[n].kind \in {"heartbeat", "async"}
    BY <1>1, <1>4, <1>8, InHands DEF Kind
  <2>2. pc["cb"] \in {"sending", "writing"} => msg["cb"].id # n
    BY <1>1, <1>2, <2>1, InHands DEF Kind
  <2>3. ~ Attended(n)'
    BY <1>2, <1>6, <1>8, <2>1, <2>2 DEF Attended
  <2> QED BY <1>4, <1>7, <2>3
<1>9. CASE t = "cb"
  <2>1. sent[n].kind = "sync" /\ WasDelivered(n)
    BY <1>1, <1>4, <1>9, InHands DEF Kind, AnswersLate
  <2>2. /\ \A i \in 1..Len(pipe) : pipe[i].id # n
        /\ msg["rcv"].id # n
    BY <1>1, <2>1, <1>4, PathOnce
  <2>3. pc["rcv"] \in {"sending", "writing"} => msg["rcv"].id # n
    BY <2>2
  <2>4. msg'["cb"].id # n
    BY <1>2, <1>5, <1>6, <1>9, <2>1
  <2>5. ~ Attended(n)'
    BY <1>2, <1>6, <1>9, <2>2, <2>4 DEF Attended
  <2> QED BY <1>4, <1>7, <2>5
<1> QED BY <1>2, <1>8, <1>9

LEMMA WaitsSame ==
    ASSUME NEW id, sent'[id] = sent[id], Stream(sent[id].conn)' = Stream(sent[id].conn),
           Attended(id)' <=> Attended(id)
    PROVE  Waits(id)' <=> Waits(id)
<1>1. InStream(id)' <=> InStream(id)
  BY DEF InStream
<1> QED BY <1>1 DEF Waits

\* A message that is being answered has been handled.
LEMMA AnsweredHandled ==
    ASSUME ServerInv, OrderInv, HandAhead, NEW t \in Threads, pc[t] \in {"sending", "writing"},
           NEW n, n = msg[t].id
    PROVE  ~ InStream(n)
<1>1. /\ TypeOK /\ Held /\ PathOrder /\ AnswersLate /\ t \in {"rcv", "cb"}
  BY DEF ServerInv, OrderInv, Threads
<1>2. /\ n \in 1..Len(sent) /\ sent[n].conn = msg[t].uuid /\ msg[t] # NoMsg
  BY <1>1, InHands DEF Genuine
<1>3. PICK c \in Conns : c = sent[n].conn
  BY <1>1, <1>2, SentTyped
<1>4. \A k \in 1..Len(Stream(c)) : n < Id(Stream(c), k)
  <2>1. CASE t = "rcv"
    BY <1>2, <1>3, <2>1 DEF HandAhead
  <2>2. CASE t = "cb"
    <3>1. WasDelivered(n)
      BY <1>1, <2>2 DEF AnswersLate
    <3>2. PICK i \in 1..Len(delivered) : delivered[i] = n
      BY <3>1 DEF WasDelivered
    <3>3. PICK p \in Seq(MsgIds), d \in Seq(MsgIds) : p = Path /\ d = delivered
      <4>1. Path \in Seq(MsgIds) /\ delivered \in Seq(MsgIds)
        BY <1>1, PathTyped
      <4> QED BY <4>1, Zenon
    <3>4. Len(d) <= Len(p) /\ p[i] = d[i] /\ i \in 1..Len(d)
      BY <1>1, <3>3, PathTyped
    <3>5. i \in 1..Len(p) /\ p[i] = n
      BY <3>2, <3>3, <3>4
    <3> QED BY <1>1, <1>3, <3>3, <3>5 DEF PathOrder
  <2> QED BY <1>1, <2>1, <2>2
<1>5. ASSUME NEW k \in 1..Len(Stream(c)), Id(Stream(c), k) = n PROVE FALSE
  <2>1. n < n
    BY <1>4, <1>5
  <2> QED BY <1>2, <2>1
<1> QED BY <1>3, <1>5 DEF InStream

LEMMA ServiceStep ==
    ASSUME ServerInv, OrderInv, HandAhead, OpenKnown, OpenKnown', RepliesKnown, RepliesKnown',
           Next
    PROVE  Service!Next \/ UNCHANGED <<Asked, Open, Replies>>
<1>1. /\ TypeOK /\ Tables /\ Writers /\ Held /\ Streams
  BY DEF ServerInv
<1>2. /\ \A id \in 1..Len(sent) : id \in 1..Len(sent') /\ sent'[id] = sent[id]
      /\ \A id \in 1..Len(sent) : sent[id].conn \in Conns
      /\ outbox \in [Conns -> Seq(MsgIds)]
  BY <1>1, SentGrows, SentTyped DEF TypeOK
<1>3. ASSUME NEW c \in Conns, Handle(c) PROVE Service!Next
  <2>1. PICK first : first = got[c][1][1]
    OBVIOUS
  <2>2. /\ first \in 1..Len(sent) /\ sent[first].conn = c /\ stage[c] = "done"
        /\ UNCHANGED <<sent, outbox, inbox>> /\ Reset(c)
    BY <1>1, <1>3, <2>1, HandlePath
  <2>3. /\ \A d \in Conns \ {c} : Stream(d)' = Stream(d)
        /\ Len(Stream(c)) > 0 /\ first = Id(Stream(c), 1)
        /\ \A k \in 1..Len(Stream(c)') :
              \E i \in 1..Len(Stream(c)) : Id(Stream(c), i) = Id(Stream(c)', k)
    BY <1>1, <2>1, <2>2, ResetStream
  <2>4. InStream(first)
    <3>1. 1 \in 1..Len(Stream(c))
      <4>1. Stream(c) \in Seq(Pieces)
        BY <1>1, StreamParts
      <4> QED BY <2>3, <4>1
    <3> QED BY <2>2, <2>3, <3>1 DEF InStream
  <2>5. /\ "rcv" \in Threads /\ "cb" \in Threads /\ \A t \in Threads : t \in {"rcv", "cb"}
        /\ msg \in [Threads -> Messages \cup {NoMsg}] /\ NoMsg.id = 0
    BY <1>1, TypeParts DEF Threads, ThreadsType, NoMsg
  <2>6. /\ pc["rcv"] = "handling" /\ msg["rcv"] = NoMsg /\ UNCHANGED pipe
        /\ msg'["cb"] = msg["cb"] /\ msg'["rcv"].id \in {0, first}
    BY <1>1, <1>3, <2>1, <2>5 DEF Handle, Drops, Held, HeldByReceiver
  <2>7. pc'["cb"] = pc["cb"]
    <3>1. \E place : Goes("rcv", place)
      BY <1>3 DEF Handle, Drops
    <3> QED BY <1>1, <2>5, <3>1, Going DEF Threads
  <2>8. \A id \in 1..Len(sent) : id # 0
    BY <1>1, StateTypes
  <2>9. ASSUME NEW id \in 1..Len(sent), Attended(id)' PROVE Attended(id) \/ id = first
    BY <2>2, <2>5, <2>6, <2>7, <2>8, <2>9 DEF Attended
  <2>10. ASSUME NEW id \in 1..Len(sent), Attended(id) PROVE Attended(id)'
    BY <2>2, <2>5, <2>6, <2>7, <2>8, <2>10 DEF Attended
  <2>11. ASSUME NEW id \in 1..Len(sent), InStream(id)' PROVE InStream(id)
    <3>1. CASE sent[id].conn = c
      BY <2>2, <2>3, <2>11, <3>1 DEF InStream
    <3>2. CASE sent[id].conn # c
      BY <1>2, <2>2, <2>3, <2>11, <3>2 DEF InStream
    <3> QED BY <3>1, <3>2
  <2>12. \A id \in 1..Len(sent) : Waits(id)' => Waits(id)
    BY <2>2, <2>4, <2>9, <2>11 DEF Waits
  <2>13. \A id \in 1..Len(sent) : sent[id].conn # c /\ Waits(id) => Waits(id)'
    BY <1>2, <2>2, <2>3, <2>10 DEF Waits, InStream
  <2> QED BY <2>2, <2>12, <2>13, ServiceLoses
<1>4. ASSUME NEW t \in Threads, SendUnknown(t) \/ SendFails(t) \/ SendWrites(t) \/ SendBroken(t)
      PROVE  Service!Next
  <2>1. /\ Sent(t) /\ pc[t] \in {"sending", "writing"} /\ UNCHANGED <<sent, pipe, got, inbox>>
    BY <1>4 DEF SendUnknown, SendFails, SendWrites, SendBroken, history, protocol, clients
  <2>2. PICK n : n = msg[t].id
    OBVIOUS
  <2>3. /\ n \in 1..Len(sent) /\ Attended(n) /\ ~ Attended(n)'
        /\ \A id \in 1..Len(sent) : id # n => (Attended(id)' <=> Attended(id))
    BY <2>1, <2>2, AttendedOnce
  <2>4. n \in MsgIds /\ sent[n].conn = msg[t].uuid /\ sent[n].kind \in Requests
    <3>1. t \in {"rcv", "cb"}
      BY DEF Threads
    <3> QED BY <1>1, <2>1, <2>2, <3>1, InHands DEF Genuine, Kind, Requests
  <2>5. PICK c \in Conns : c = sent[n].conn
    BY <1>2, <2>3
  <2>6. \A id : InStream(id)' <=> InStream(id)
    BY <2>1 DEF InStream, Stream
  <2>7. ~ InStream(n)
    BY <2>1, <2>2, AnsweredHandled
  <2>8. /\ Waits(n) /\ ~ Waits(n)'
        /\ \A id \in 1..Len(sent) : id # n => (Waits(id)' <=> Waits(id))
    BY <2>1, <2>3, <2>4, <2>6, <2>7 DEF Waits
  <2>9. CASE UNCHANGED outbox
    <3>1. \A id \in 1..Len(sent) : Waits(id)' => Waits(id)
      BY <2>8
    <3>2. \A id \in 1..Len(sent) : sent[id].conn # c /\ Waits(id) => Waits(id)'
      BY <2>5, <2>8
    <3> QED BY <2>1, <2>9, <3>1, <3>2, ServiceLoses
  <2>10. CASE SendWrites(t)
    <3>1. outbox' = [outbox EXCEPT ![c] = Append(@, n)]
      <4>1. pc[t] = "writing" /\ outbox' = [outbox EXCEPT ![socket[sfd[t]]] = Append(@, msg[t].id)]
        BY <2>10 DEF SendWrites
      <4>2. socket[sfd[t]] = c
        BY <1>1, <2>4, <2>5, <4>1, WritesToOwn
      <4> QED BY <2>2, <4>1, <4>2, Zenon
    <3> QED BY <1>2, <2>1, <2>3, <2>4, <2>5, <2>8, <3>1, ServiceAnswers
  <2> QED BY <1>4, <2>9, <2>10 DEF SendUnknown, SendFails, SendBroken, clients
<1>5. ASSUME ~ \E c \in Conns : Handle(c),
             ~ \E t \in Threads : SendUnknown(t) \/ SendFails(t) \/ SendWrites(t) \/ SendBroken(t)
      PROVE  Service!Next \/ UNCHANGED <<Asked, Open, Replies>>
  <2>1. \A id \in 1..Len(sent) : Attended(id)' <=> Attended(id)
    BY <1>1, <1>5, AttendedSame
  <2>2. ASSUME NEW c \in Conns, Send(c) PROVE Service!Next \/ UNCHANGED <<Asked, Open, Replies>>
    <3>1. \A id \in 1..Len(sent) : Waits(id)' <=> Waits(id)
      BY <1>1, <1>2, <2>1, <2>2, SendInStream DEF Waits
    <3> QED BY <2>2, <3>1, ServiceAsks DEF Send
  <2>3. ASSUME NEW c \in Conns, ReadReply(c)
        PROVE  Service!Next \/ UNCHANGED <<Asked, Open, Replies>>
    <3>1. UNCHANGED <<got, inbox, sent>>
      BY <2>3 DEF ReadReply, protocol, history
    <3>2. \A id \in 1..Len(sent) : Waits(id)' <=> Waits(id)
      BY <2>1, <3>1 DEF Waits, InStream, Stream
    <3>3. \A m : m \in Open' <=> m \in Open
      BY <3>1, <3>2 DEF OpenKnown
    <3>4. Open' = Open
      BY <3>3
    <3> QED BY <1>1, <2>3, <3>1, <3>4, ServiceReads
  <2>4. ASSUME NEW c \in Conns, UNCHANGED sent,
               \A d \in Conns \ {c} : Stream(d)' = Stream(d),
               \A i \in 1..Len(Stream(c)') : \E j \in 1..Len(Stream(c)) :
                    Id(Stream(c), j) = Id(Stream(c)', i),
               outbox' = outbox \/ outbox' = [outbox EXCEPT ![c] = <<>>]
        PROVE  Service!Next
    <3>1. \A id \in 1..Len(sent) : InStream(id)' => InStream(id)
      <4> SUFFICES ASSUME NEW id \in 1..Len(sent), InStream(id)' PROVE InStream(id)
        OBVIOUS
      <4>1. CASE sent[id].conn = c
        BY <2>4, <4>1 DEF InStream
      <4>2. CASE sent[id].conn # c
        BY <1>2, <2>4, <4>2 DEF InStream
      <4> QED BY <4>1, <4>2
    <3>2. \A id \in 1..Len(sent) : Waits(id)' => Waits(id)
      BY <2>1, <2>4, <3>1 DEF Waits
    <3>3. \A id \in 1..Len(sent) : sent[id].conn # c /\ Waits(id) => Waits(id)'
      BY <1>2, <2>1, <2>4, WaitsSame
    <3>4. /\ \A d \in Conns \ {c} : outbox'[d] = outbox[d]
          /\ outbox'[c] = <<>> \/ outbox'[c] = outbox[c]
      BY <1>2, <2>4
    <3>5. \A i \in 1..Len(outbox'[c]) : \E j \in 1..Len(outbox[c]) : outbox[c][j] = outbox'[c][i]
      <4>1. 1..Len(<<>>) = {}
        OBVIOUS
      <4> QED BY <3>4, <4>1
    <3> QED BY <2>4, <3>2, <3>3, <3>4, <3>5, ServiceLoses
  <2>5. ASSUME NEW c \in Conns, Close(c) PROVE Service!Next
    <3>1. UNCHANGED sent /\ outbox' = [outbox EXCEPT ![c] = <<>>]
      BY <2>5 DEF Close, history
    <3>2. /\ \A d \in Conns \ {c} : Stream(d)' = Stream(d)
          /\ \A i \in 1..Len(Stream(c)') : \E j \in 1..Len(Stream(c)) :
                Id(Stream(c), j) = Id(Stream(c)', i)
      BY <1>1, <2>5, CloseStream DEF Id
    <3> QED BY <2>4, <3>1, <3>2
  <2>6. ASSUME NEW c \in Conns, CloseEnds(c) PROVE Service!Next
    <3>1. UNCHANGED <<sent, outbox>>
      BY <2>6 DEF CloseEnds, history
    <3>2. Stream(c)' = <<>> /\ \A d \in Conns \ {c} : Stream(d)' = Stream(d)
      BY <1>1, <2>6, EndStream
    <3>3. 1..Len(<<>>) = {}
      OBVIOUS
    <3> QED BY <2>4, <3>1, <3>2, <3>3
  <2>7. ASSUME NEW c \in Conns, HandleFails(c) PROVE Service!Next
    <3>1. UNCHANGED <<sent, outbox, inbox>> /\ Reset(c) /\ stage[c] = "done"
      BY <1>1, <2>7 DEF HandleFails, clients, Streams, Attending
    <3>2. /\ \A d \in Conns \ {c} : Stream(d)' = Stream(d)
          /\ \A i \in 1..Len(Stream(c)') : \E j \in 1..Len(Stream(c)) :
                Id(Stream(c), j) = Id(Stream(c)', i)
      BY <1>1, <3>1, ResetStream
    <3> QED BY <2>4, <3>1, <3>2
  <2>8. ASSUME ~ \E c \in Conns : \/ Send(c) \/ ReadReply(c) \/ Close(c) \/ CloseEnds(c)
                                  \/ HandleFails(c)
        PROVE  UNCHANGED <<Asked, Open, Replies>>
    <3>1. sent' = sent /\ \A d \in Conns : Stream(d)' = Stream(d)
      BY <1>1, <1>5, <2>8, SentGrows, StreamsSame
    <3>2. outbox' = outbox
      BY <1>5, <2>8, StepCases DEF Accept, AcceptRefused, AcceptUnmapped, AcceptUnlisted,
         ReadHead, ReadHeadFails, ReadBuf, Takes, ReadNothing, ReadEnds, CloseUnmaps, PipeWrite,
         PipeRead, Callback, SendBegins, clients
    <3>3. \A id \in 1..Len(sent) : Waits(id)' <=> Waits(id)
      BY <1>2, <2>1, <3>1, WaitsSame
    <3> QED BY <3>1, <3>2, <3>3, ServiceStays
  <2> QED BY <2>2, <2>3, <2>5, <2>6, <2>7, <2>8
<1> QED BY <1>3, <1>4, <1>5

\* The server implements the service: every reply is an answer to a request, goes to
\* the client that asked and to no other, whoever has its descriptor by then, and no
\* request is answered twice, although two threads answer.
THEOREM ImplementsIpcServiceAlways == Spec => ImplementsIpcService
<1>1. Init => HandAhead
  BY DEF Init, HandAhead, Threads
<1>2. ServerInv /\ HandAhead /\ [Next]_vars => HandAhead'
  BY HandAheadStep
<1>3. ServerInv /\ OpenKnown /\ Init => Service!Init
  <2> SUFFICES ASSUME ServerInv, OpenKnown, Init PROVE Service!Init
    OBVIOUS
  <2>1. sent = <<>> /\ \A c \in Conns : outbox[c] = <<>>
    BY DEF Init
  <2>2. 1..Len(<<>>) = {}
    OBVIOUS
  <2>3. Asked = {}
    BY <2>1, <2>2 DEF Asked
  <2>4. \A m : m \notin Open
    BY <2>1, <2>2 DEF OpenKnown
  <2>5. Replies = {}
    BY <2>1, <2>2 DEF Replies
  <2>6. Open = {}
    BY <2>4
  <2> QED BY <2>3, <2>5, <2>6 DEF Service!Init, Asked, Open, Replies
<1>4. ServerInv /\ OrderInv /\ HandAhead /\ OpenKnown /\ RepliesKnown
          /\ OpenKnown' /\ RepliesKnown' /\ [Next]_vars
        => [Service!Next]_<<Asked, Open, Replies>>
  <2> SUFFICES ASSUME ServerInv, OrderInv, HandAhead, OpenKnown, RepliesKnown,
                      OpenKnown', RepliesKnown', [Next]_vars
               PROVE  [Service!Next]_<<Asked, Open, Replies>>
    OBVIOUS
  <2>1. CASE Next
    <3>1. Service!Next \/ UNCHANGED <<Asked, Open, Replies>>
      BY <2>1, ServiceStep
    <3> QED BY <3>1
  <2>2. CASE UNCHANGED vars
    <3>1. UNCHANGED <<sent, outbox, pc, msg, pipe, got, inbox>>
      BY <2>2 DEF vars, history, clients, protocol
    <3>2. \A id \in 1..Len(sent) : Waits(id)' <=> Waits(id)
      BY <3>1 DEF Waits, InStream, Stream, Attended
    <3> QED BY <3>1, <3>2, ServiceStays
  <2> QED BY <2>1, <2>2
<1>5. Service!Spec <=> Service!Init /\ [][Service!Next]_<<Asked, Open, Replies>>
  BY DEF Service!Spec, Asked, Open, Replies
<1> QED BY <1>1, <1>2, <1>3, <1>4, <1>5, ServerKnown, OrderInvariant, PTL
        DEF Spec, ImplementsIpcService
=============================================================================
