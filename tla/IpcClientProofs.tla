--------------------------- MODULE IpcClientProofs ---------------------------
(***************************************************************************)
(* Proofs about the client: a caller gets the reply to its own message,    *)
(* the table of outstanding requests keeps no entry that nobody owns, and  *)
(* no number is used for two calls under way.                              *)
(***************************************************************************)
EXTENDS IpcClient, TLAPS

Busy(c) == cpc[c] # "idle"
Flying == requests \cup replies

\* The numbers: none that is to come is in use, and none is reserved.
FreshNumbers == Unused(seq_id)

ProperNumbers ==
    /\ seq_id >= SeqMin \/ (seq_id = 0 /\ draw_failed)
    /\ \A c \in Callers : Busy(c) => req[c].id >= SeqMin \/ (req[c].id = 0 /\ draw_failed)
    /\ NumbersNotReserved

\* Calls under way have each their own number.
OwnNumbers ==
    /\ \A c \in Callers : Busy(c) => req[c].call \in 1..calls
    /\ \A c, d \in Callers : Busy(c) /\ Busy(d) /\ c # d =>
        req[c].id # req[d].id /\ req[c].call # req[d].call

\* A message is there once, after its call has written it, under the number of the call.
OwnMessages ==
    /\ \A m \in Flying : m.call \in 1..calls
    /\ requests \cap replies = {}
    /\ \A m, n \in Flying : m.call = n.call => m = n
    /\ \A c \in Callers, m \in Flying : Busy(c) =>
        (m.id = req[c].id <=> m.call = req[c].call)
    /\ \A c \in Callers, m \in Flying :
        cpc[c] \in {"numbered", "inserted", "writing"} => m.call # req[c].call

\* Only calls that are acknowledged get to these places.
AckedPlaces == \A c \in Callers :
    cpc[c] \in {"inserted", "waiting", "spinning", "undoing"} => Acked(req[c].kind)

\* A call that is registered has an entry, for a reply to it.
Entries == \A c \in Callers : Registered(c) =>
    /\ req[c].id \in DOMAIN ack_hash
    /\ Stored(c) => /\ ack_hash[req[c].id] = req[c].call
                    /\ \A m \in Flying : m.call # req[c].call
    /\ cpc[c] \in {"inserted", "writing"} => ~Stored(c)

\* Who sleeps on the condition variable waits.
Sleepers == \A c \in ack_cond : cpc[c] = "waiting"

ClientInv ==
    /\ TypeOK /\ FreshNumbers /\ ProperNumbers /\ OwnNumbers /\ OwnMessages /\ AckedPlaces
    /\ Entries /\ EntriesOwned /\ Sleepers

-----------------------------------------------------------------------------
(* The sequence numbers *)

\* The number after s, and the one after a number.
LEMMA NextIdIs ==
    ASSUME NEW s \in SeqIds
    PROVE  /\ s < SeqMin => NextId(s) = SeqMin
           /\ s >= SeqMin /\ s + 1 < SeqTop => NextId(s) = s + 1
           /\ s + 1 = SeqTop => NextId(s) = SeqMin
           /\ NextId(s) \in SeqIds /\ NextId(s) >= SeqMin
<1>1. SeqMin \in Nat /\ SeqTop \in Nat /\ 0 < SeqMin /\ SeqMin < SeqTop
  BY ConstantsAssumption
<1>2. s \in Nat /\ s < SeqTop
  BY <1>1 DEF SeqIds
<1>3. CASE s + 1 < SeqTop
  <2>1. (s + 1) % SeqTop = s + 1
    BY <1>1, <1>2, <1>3
  <2> QED BY <1>1, <1>2, <1>3, <2>1 DEF NextId, Raised, SeqIds
<1>4. CASE s + 1 = SeqTop
  <2>1. SeqTop % SeqTop = 0
    BY <1>1
  <2> QED BY <1>1, <1>2, <1>4, <2>1 DEF NextId, Raised, SeqIds
<1> QED BY <1>1, <1>2, <1>3, <1>4

LEMMA FollowingNext ==
    ASSUME NEW s \in SeqIds, NEW n \in Nat, n + 1 < MaxCalls
    PROVE  Following(NextId(s), n) = Following(s, n + 1)
<1>1. /\ SeqMin \in Nat /\ SeqTop \in Nat /\ 0 < SeqMin /\ SeqMin < SeqTop
      /\ MaxCalls \in Nat /\ MaxCalls <= SeqTop - SeqMin
  BY ConstantsAssumption
<1>2. s \in Nat /\ s < SeqTop
  BY <1>1 DEF SeqIds
<1>3. CASE s < SeqMin \/ s + 1 = SeqTop
  BY <1>1, <1>2, <1>3, NextIdIs DEF Following
<1>4. CASE s >= SeqMin /\ s + 1 < SeqTop
  BY <1>1, <1>2, <1>4, NextIdIs DEF Following
<1> QED BY <1>1, <1>2, <1>3, <1>4

\* No number comes round.
LEMMA FollowingOther ==
    ASSUME NEW s \in SeqIds, NEW n \in Nat, n > 0, n < MaxCalls
    PROVE  Following(s, n) # s
BY ConstantsAssumption DEF Following, SeqIds

LEMMA RaisedIs ==
    ASSUME NEW s \in Seeds
    PROVE  Raised(s) \in SeqIds /\ Raised(s) >= SeqMin
<1>1. /\ SeqMin \in Nat /\ SeqTop \in Nat /\ SeqMin < SeqTop /\ s \in 0..(SeqTop - 1)
  BY ConstantsAssumption
<1> QED BY <1>1 DEF Raised, SeqIds

LEMMA FollowingFirst ==
    ASSUME NEW s \in SeqIds PROVE Following(s, 0) = s
BY ConstantsAssumption DEF Following, SeqIds

-----------------------------------------------------------------------------
(* What a step can change *)

Places == {"idle", "numbered", "inserted", "writing", "waiting", "spinning", "undoing"}
CallTypes == [kind : {"void", "heartbeat", "async", "sync"},
              wait : {"forever", "timed", "invalid"}, id : SeqIds, call : 0..MaxCalls]

LEMMA CallerTypes ==
    ASSUME TypeOK
    PROVE  /\ cpc \in [Callers -> Places] /\ req \in [Callers -> CallTypes]
           /\ fd \in [Callers -> Fds \cup {None}]
           /\ \A c \in Callers : req[c].id \in SeqIds /\ req[c].call \in 0..MaxCalls
                    /\ req[c].kind \in {"void", "heartbeat", "async", "sync"}
<1>1. /\ cpc \in [Callers -> Places] /\ req \in [Callers -> CallTypes]
      /\ fd \in [Callers -> Fds \cup {None}]
  BY DEF TypeOK, Places, CallTypes
<1>2. \A r \in CallTypes : r.id \in SeqIds /\ r.call \in 0..MaxCalls
            /\ r.kind \in {"void", "heartbeat", "async", "sync"}
  BY DEF CallTypes
<1>3. \A c \in Callers : req[c] \in CallTypes
  BY <1>1
<1> QED BY <1>1, <1>2, <1>3

LEMMA Going ==
    ASSUME TypeOK, NEW c \in Callers, NEW place, Goes(c, place)
    PROVE  cpc'[c] = place /\ \A d \in Callers \ {c} : cpc'[d] = cpc[d]
BY CallerTypes DEF Goes

LEMMA Returning ==
    ASSUME TypeOK, NEW c \in Callers, Returns(c)
    PROVE  /\ cpc'[c] = "idle" /\ \A d \in Callers \ {c} : cpc'[d] = cpc[d] /\ req'[d] = req[d]
           /\ cpc' \in [Callers -> Places] /\ req' \in [Callers -> CallTypes]
           /\ fd' \in [Callers -> Fds \cup {None}]
<1>1. NoRequest \in CallTypes
  BY ConstantsAssumption DEF NoRequest, CallTypes, SeqIds
<1> QED BY <1>1, CallerTypes DEF Returns, Goes, Places

\* The result of a wait that has failed.
LEMMA Failing ==
    ASSUME TypeOK, NEW c \in Callers, WaitFailed(c)
    PROVE  \/ /\ req[c].kind = "async" /\ Goes(c, "undoing") /\ UNCHANGED <<req, fd, abandoned>>
           \/ /\ Returns(c) /\ abandoned' = abandoned \cup {req[c].id}
BY DEF WaitFailed

\* A caller goes on with its call, or it returns.
LEMMA CallerGoesOn ==
    ASSUME TypeOK, Sleepers, NEW c \in Callers, CallStep(c)
    PROVE  /\ Busy(c) /\ \A d \in Callers \ {c} : cpc'[d] = cpc[d] /\ req'[d] = req[d]
           /\ Returns(c) \/ (req' = req /\ Busy(c)')
<1>1. \A place : Goes(c, place) => cpc'[c] = place /\ \A d \in Callers \ {c} : cpc'[d] = cpc[d]
  BY Going
<1>2. Returns(c) => \A d \in Callers \ {c} : cpc'[d] = cpc[d] /\ req'[d] = req[d]
  BY Returning
<1>3. CASE InsertSeq(c)
  BY <1>1, <1>3 DEF InsertSeq, Busy
<1>4. CASE InsertFails(c)
  BY <1>2, <1>4 DEF InsertFails, Busy
<1>5. CASE ReadFd(c)
  BY <1>1, <1>5 DEF ReadFd, BuildsPacket, Busy
<1>6. CASE SendFails(c)
  BY <1>1, <1>2, <1>6 DEF SendFails, BuildsPacket, Busy
<1>7. CASE Write(c)
  BY <1>1, <1>2, <1>7 DEF Write, Busy
<1>8. CASE Sleep(c)
  BY <1>8 DEF Sleep, FindsNothing, Looks, caller, Busy
<1>9. CASE Spin(c)
  BY <1>1, <1>9 DEF Spin, FindsNothing, Looks, Busy
<1>10. ASSUME WaitFailed(c), Busy(c)
       PROVE  /\ \A d \in Callers \ {c} : cpc'[d] = cpc[d] /\ req'[d] = req[d]
              /\ Returns(c) \/ (req' = req /\ Busy(c)')
  BY <1>1, <1>2, <1>10, Failing DEF Busy
<1>11. CASE TakeReply(c)
  BY <1>2, <1>10, <1>11 DEF TakeReply, Looks, Busy
<1>12. CASE Undo(c)
  BY <1>2, <1>12 DEF Undo, Busy
<1>13. CASE Timeout(c)
  BY <1>10, <1>13 DEF Timeout, Sleepers, Busy
<1> QED BY <1>3, <1>4, <1>5, <1>6, <1>7, <1>8, <1>9, <1>11, <1>12, <1>13 DEF CallStep

\* What the steps of the receiving thread and of the network leave alone.
Elsewhere ==
    \/ \E c \in Callers : SpuriousWakeup(c)
    \/ ReceiverStep
    \/ \E m \in requests : Serve(m)
    \/ Drop

LEMMA StepKinds ==
    Next <=> (\E c \in Callers : NextSeq(c) \/ CallStep(c)) \/ Elsewhere
BY DEF Next, Elsewhere

\* A reply leaves the network when it gets into the table.
LEMMA ElsewhereKeeps ==
    ASSUME TypeOK, Elsewhere
    PROVE  /\ UNCHANGED <<cpc, req, fd, calls, abandoned>>
           /\ draw_failed => draw_failed'
           /\ Flying' \subseteq Flying
           /\ ack_cond' \subseteq ack_cond
           /\ DOMAIN ack_hash' = DOMAIN ack_hash
           /\ \A id \in DOMAIN ack_hash :
                \/ ack_hash'[id] = ack_hash[id]
                \/ \E m \in replies : m.id = id /\ m.id >= SeqMin /\ ack_hash'[id] = m.call
                                      /\ replies' = replies \ {m} /\ requests' = requests
<1>1. CASE \E c \in Callers : SpuriousWakeup(c)
  BY <1>1 DEF SpuriousWakeup, caller, network, Flying
<1>2. ASSUME NEW m \in replies, Receive(m)
      PROVE  /\ UNCHANGED <<cpc, req, fd, calls, abandoned, requests, draw_failed>>
             /\ replies' = replies \ {m}
             /\ ack_cond' \subseteq ack_cond
             /\ DOMAIN ack_hash' = DOMAIN ack_hash
             /\ \A id \in DOMAIN ack_hash :
                  \/ ack_hash'[id] = ack_hash[id]
                  \/ m.id = id /\ m.id >= SeqMin /\ ack_hash'[id] = m.call
  <2>1. /\ UNCHANGED <<cpc, req, fd, calls, abandoned, requests, draw_failed>>
        /\ replies' = replies \ {m}
    BY <1>2 DEF Receive, caller
  <2>2. CASE m.id >= SeqMin /\ Stores(m)
    <3>1. ack_cond' \subseteq ack_cond
      BY <2>2 DEF Stores, Signal
    <3>2. CASE m.id \in DOMAIN ack_hash
      BY <2>1, <2>2, <3>1, <3>2 DEF Stores, With
    <3>3. CASE m.id \notin DOMAIN ack_hash
      BY <2>1, <2>2, <3>1, <3>3 DEF Stores
    <3> QED BY <3>2, <3>3
  <2>3. CASE UNCHANGED <<ack_hash, ack_cond>>
    BY <2>1, <2>3
  <2> QED BY <1>2, <2>2, <2>3 DEF Receive
<1>3. CASE \E m \in replies : Receive(m)
  <2>1. PICK m \in replies : Receive(m)
    BY <1>3
  <2>2. Flying' \subseteq Flying
    BY <1>2, <2>1 DEF Flying
  <2> QED BY <1>2, <2>1, <2>2
<1>4. CASE ReadFails
  BY <1>4 DEF ReadFails, handle, caller, network, Flying
<1>5. CASE ReconnectCloses
  BY <1>5 DEF ReconnectCloses, caller, Flying
<1>6. CASE ReconnectOpens
  BY <1>6 DEF ReconnectOpens, caller, network, Flying
<1>7. CASE ReconnectSeeds
  BY <1>7 DEF ReconnectSeeds, caller, network, Flying
<1>8. CASE ReconnectSeedFails
  BY <1>8 DEF ReconnectSeedFails, caller, network, Flying
<1>9. CASE ReconnectDone
  BY <1>9 DEF ReconnectDone, handle, caller, Flying
<1>10. CASE \E m \in requests : Serve(m)
  BY <1>10 DEF Serve, handle, caller, Flying
<1>11. CASE Drop
  BY <1>11 DEF Drop, handle, caller, Flying
<1> QED BY <1>1, <1>3, <1>4, <1>5, <1>6, <1>7, <1>8, <1>9, <1>10, <1>11 DEF Elsewhere, ReceiverStep

Message(c) == [id |-> req[c].id, kind |-> req[c].kind, call |-> req[c].call]

\* A step of a call touches the entry of its own number only, and sends its own message.
LEMMA CallStepKeeps ==
    ASSUME TypeOK, NEW c \in Callers, CallStep(c)
    PROVE  /\ UNCHANGED <<seq_id, rpc, replies, calls, drops, draw_failed>>
           /\ requests' = requests
                \/ (requests' = requests \cup {Message(c)} /\ Write(c))
           /\ DOMAIN ack_hash' \subseteq DOMAIN ack_hash \cup {req[c].id}
           /\ DOMAIN ack_hash \subseteq DOMAIN ack_hash' \cup {req[c].id}
           /\ \A id \in DOMAIN ack_hash \ {req[c].id} : ack_hash'[id] = ack_hash[id]
           /\ abandoned \subseteq abandoned'
<1>1. CASE InsertSeq(c)
  BY <1>1 DEF InsertSeq, With, network
<1>2. CASE InsertFails(c)
  BY <1>2 DEF InsertFails, handle, network
<1>3. CASE ReadFd(c)
  BY <1>3 DEF ReadFd, handle, network
<1>4. CASE SendFails(c)
  BY <1>4 DEF SendFails, handle, network
<1>5. CASE Write(c)
  BY <1>5 DEF Write, handle, Message
<1>6. CASE Sleep(c)
  BY <1>6 DEF Sleep, caller, network
<1>7. CASE Spin(c)
  BY <1>7 DEF Spin, network
<1>8. CASE TakeReply(c)
  BY <1>8, Failing DEF TakeReply, Without, network
<1>9. CASE Timeout(c)
  BY <1>9, Failing DEF Timeout, network
<1>10. CASE Undo(c)
  BY <1>10 DEF Undo, Without, network
<1> QED BY <1>1, <1>2, <1>3, <1>4, <1>5, <1>6, <1>7, <1>8, <1>9, <1>10 DEF CallStep

Early == {"inserted", "writing"}

\* What a call does with the entry of its number: it is registered by one step and
\* stays so until it returns, which leaves the entry only if it is abandoned.
LEMMA OwnEntry ==
    ASSUME TypeOK, AckedPlaces, Sleepers, NEW c \in Callers, CallStep(c)
    PROVE  \/ /\ Returns(c)
              /\ Registered(c) /\ req[c].id \in DOMAIN ack_hash' => req[c].id \in abandoned'
              /\ DOMAIN ack_hash' \subseteq DOMAIN ack_hash
           \/ /\ req' = req /\ requests' = requests
              /\ ack_hash' = With(req[c].id, Pending)
              /\ cpc'[c] = "inserted" /\ Acked(req[c].kind)
           \/ /\ req' = req /\ ack_hash' = ack_hash /\ Busy(c)'
              /\ Registered(c)' <=> Registered(c)
              /\ cpc'[c] \in Early /\ Registered(c) => cpc[c] \in Early
<1>. /\ \A place : Goes(c, place) => cpc'[c] = place
  BY Going
<1>. /\ cpc[c] \in Places /\ req[c].kind \in {"void", "heartbeat", "async", "sync"}
     /\ Busy(c) /\ AckedPlaces
  BY CallerTypes, CallerGoesOn
<1>1. CASE InsertSeq(c)
  BY <1>1 DEF InsertSeq, network
<1>2. CASE InsertFails(c)
  BY <1>2 DEF InsertFails, handle, Registered
<1>3. CASE ReadFd(c)
  BY <1>3 DEF ReadFd, BuildsPacket, handle, Registered, Early, Busy
<1>4. CASE SendFails(c)
  BY <1>4 DEF SendFails, BuildsPacket, handle, Registered, Early, Busy
<1>5. CASE Write(c)
  BY <1>5 DEF Write, handle, Registered, Early, Busy
<1>6. CASE Sleep(c)
  BY <1>6 DEF Sleep, caller, Registered, Early, Busy
<1>7. CASE Spin(c)
  BY <1>7 DEF Spin, FindsNothing, Looks, Registered, Early, Busy
<1>8. ASSUME WaitFailed(c), cpc[c] = "waiting", ack_hash' = ack_hash
      PROVE  \/ /\ Returns(c)
                /\ Registered(c) /\ req[c].id \in DOMAIN ack_hash' => req[c].id \in abandoned'
                /\ DOMAIN ack_hash' \subseteq DOMAIN ack_hash
             \/ /\ req' = req /\ ack_hash' = ack_hash /\ Busy(c)'
                /\ Registered(c)' <=> Registered(c)
                /\ cpc'[c] \in Early /\ Registered(c) => cpc[c] \in Early
  BY <1>8, Failing DEF Registered, Early, Busy, Acked
<1>9. CASE TakeReply(c)
  BY <1>8, <1>9 DEF TakeReply, Looks, Without
<1>10. CASE Timeout(c)
  BY <1>8, <1>10 DEF Timeout, Sleepers
<1>11. CASE Undo(c)
  BY <1>11 DEF Undo, Without
<1> QED
  BY <1>1, <1>2, <1>3, <1>4, <1>5, <1>6, <1>7, <1>9, <1>10, <1>11 DEF CallStep

-----------------------------------------------------------------------------
(* Every step keeps the invariant *)

LEMMA Numbering ==
    ASSUME TypeOK, NEW c \in Callers, NextSeq(c)
    PROVE  /\ cpc[c] = "idle" /\ cpc'[c] = "numbered"
           /\ req'[c].id = seq_id /\ req'[c].call = calls + 1 /\ req'[c] \in CallTypes
           /\ \A d \in Callers \ {c} : cpc'[d] = cpc[d] /\ req'[d] = req[d]
           /\ seq_id' = NextId(seq_id) /\ calls < MaxCalls /\ calls' = calls + 1
           /\ UNCHANGED <<io_sockfd, ack_hash, ack_mtx, ack_cond, rpc, fd, requests, replies,
                          link, drops, abandoned, draw_failed>>
<1>1. /\ cpc[c] = "idle" /\ Goes(c, "numbered")
      /\ seq_id' = NextId(seq_id) /\ calls < MaxCalls /\ calls' = calls + 1
      /\ UNCHANGED <<io_sockfd, ack_hash, ack_mtx, ack_cond, rpc, fd, requests, replies,
                     link, drops, abandoned, draw_failed>>
  BY DEF NextSeq, network
<1>2. PICK kind \in Kinds[c] : \E wait \in IF Acked(kind) THEN Waits ELSE {"forever"} :
        req' = [req EXCEPT ![c] = [kind |-> kind, wait |-> wait,
                                   id |-> seq_id, call |-> calls + 1]]
  BY DEF NextSeq
<1>. PICK wait \in IF Acked(kind) THEN Waits ELSE {"forever"} :
        req' = [req EXCEPT ![c] = [kind |-> kind, wait |-> wait,
                                   id |-> seq_id, call |-> calls + 1]]
  BY <1>2
<1>3. req'[c] = [kind |-> kind, wait |-> wait, id |-> seq_id, call |-> calls + 1]
      /\ \A d \in Callers \ {c} : req'[d] = req[d]
  BY <1>2, CallerTypes
<1>4. kind \in {"void", "heartbeat", "async", "sync"} /\ wait \in {"forever", "timed", "invalid"}
  BY <1>2, ConstantsAssumption
<1>5. seq_id \in SeqIds /\ calls \in 0..MaxCalls /\ MaxCalls \in Nat
  BY ConstantsAssumption DEF TypeOK
<1>6. req'[c] \in CallTypes
  BY <1>1, <1>3, <1>4, <1>5 DEF CallTypes
<1> QED BY <1>1, <1>3, <1>6, Going

\* Only a new call brings a number into use.
LEMMA InUseShrinks ==
    ASSUME TypeOK, Sleepers, (\E c \in Callers : CallStep(c)) \/ Elsewhere
    PROVE  InUse' \subseteq InUse /\ calls' = calls
<1>1. CASE Elsewhere
  BY <1>1, ElsewhereKeeps DEF InUse, Flying
<1>2. CASE \E c \in Callers : CallStep(c)
  <2>1. PICK c \in Callers : CallStep(c)
    BY <1>2
  <2>2. \A d \in Callers : Busy(d)' => Busy(d) /\ req'[d] = req[d]
    BY <2>1, CallerGoesOn, Returning DEF Busy
  <2>3. {req'[d].id : d \in {e \in Callers : cpc'[e] # "idle"}}
            \subseteq {req[d].id : d \in {e \in Callers : cpc[e] # "idle"}}
    BY <2>2 DEF Busy
  <2>4. req[c].id \in {req[d].id : d \in {e \in Callers : cpc[e] # "idle"}}
    BY <2>1, CallerGoesOn DEF Busy
  <2>5. Message(c).id = req[c].id
    BY DEF Message
  <2>6. \A m \in Flying' : m \in Flying \/ m.id = req[c].id
    BY <2>1, <2>5, CallStepKeeps DEF Flying
  <2>7. DOMAIN ack_hash' \subseteq DOMAIN ack_hash \cup {req[c].id} /\ calls' = calls
    BY <2>1, CallStepKeeps
  <2> QED BY <2>3, <2>4, <2>6, <2>7 DEF InUse, Flying
<1> QED BY <1>1, <1>2

\* A step of a call or of anybody else but a new call.
NoNewCall == (\E c \in Callers : CallStep(c)) \/ Elsewhere

LEMMA FreshStep == ASSUME ClientInv, Next PROVE FreshNumbers'
<1>. TypeOK /\ Sleepers /\ FreshNumbers
  BY DEF ClientInv
<1>1. CASE NoNewCall
  <2>1. InUse' \subseteq InUse /\ calls' = calls
    BY <1>1, InUseShrinks DEF NoNewCall
  <2>2. seq_id' = seq_id \/ Unused(seq_id')
    <3>1. CASE \E c \in Callers : CallStep(c)
      BY <3>1, CallStepKeeps
    <3>2. CASE (\E c \in Callers : SpuriousWakeup(c)) \/ (\E m \in requests : Serve(m)) \/ Drop
      BY <3>2 DEF SpuriousWakeup, Serve, Drop, handle
    <3>3. CASE ReceiverStep
      BY <3>3 DEF ReceiverStep, Receive, ReadFails, ReconnectCloses, ReconnectOpens,
                  ReconnectSeeds, ReconnectSeedFails, ReconnectDone, handle
    <3> QED BY <1>1, <3>1, <3>2, <3>3 DEF NoNewCall, Elsewhere
  <2>3. \A n \in 0..MaxCalls : n < MaxCalls - calls => Following(seq_id', n) \notin InUse
    BY <2>2 DEF FreshNumbers, Unused
  <2>4. \A n \in 0..MaxCalls : n < MaxCalls - calls' => Following(seq_id', n) \notin InUse'
    BY <2>1, <2>3
  <2> QED BY <2>4 DEF FreshNumbers, Unused, Following
<1>2. ASSUME NEW c \in Callers, NextSeq(c) PROVE FreshNumbers'
  <2>1. /\ seq_id \in SeqIds /\ calls \in Nat /\ MaxCalls \in Nat
    BY ConstantsAssumption DEF TypeOK
  <2>2. InUse' \subseteq InUse \cup {seq_id}
    BY <1>2, Numbering DEF InUse
  <2>3. ASSUME NEW n \in 0..MaxCalls, n < MaxCalls - calls'
        PROVE  Following(seq_id', n) \notin InUse'
    <3>1. n + 1 \in 0..MaxCalls /\ n + 1 < MaxCalls - calls /\ n + 1 < MaxCalls
      BY <1>2, <2>1, <2>3, Numbering
    <3>2. Following(seq_id', n) = Following(seq_id, n + 1)
      BY <1>2, <2>1, <3>1, Numbering, FollowingNext
    <3>3. Following(seq_id, n + 1) \notin InUse
      BY <3>1 DEF FreshNumbers, Unused
    <3>4. Following(seq_id, n + 1) # seq_id
      BY <2>1, <3>1, FollowingOther
    <3> QED BY <2>2, <3>2, <3>3, <3>4
  <2> QED BY <2>3 DEF FreshNumbers, Unused, Following
<1> QED BY <1>1, <1>2, StepKinds DEF NoNewCall

\* What the calls and the messages under way look like after a step of NoNewCall.
LEMMA CallsGoOn ==
    ASSUME TypeOK, Sleepers, NoNewCall
    PROVE  /\ \A c \in Callers : Busy(c)' => Busy(c) /\ req'[c] = req[c]
           /\ calls' = calls /\ (draw_failed => draw_failed')
           /\ \A m \in Flying' : m \in Flying \/ \E c \in Callers : Busy(c) /\ m = Message(c)
<1>1. CASE Elsewhere
  BY <1>1, ElsewhereKeeps DEF Busy
<1>2. CASE \E c \in Callers : CallStep(c)
  <2>1. PICK c \in Callers : CallStep(c)
    BY <1>2
  <2>2. Busy(c) /\ \A d \in Callers : Busy(d)' => Busy(d) /\ req'[d] = req[d]
    BY <2>1, CallerGoesOn, Returning DEF Busy
  <2>3. \A m \in Flying' : m \in Flying \/ m = Message(c)
    BY <2>1, CallStepKeeps DEF Flying
  <2> QED BY <2>1, <2>2, <2>3, CallStepKeeps
<1> QED BY <1>1, <1>2 DEF NoNewCall

LEMMA MessageIs ==
    ASSUME NEW c \in Callers
    PROVE  Message(c).id = req[c].id /\ Message(c).call = req[c].call
BY DEF Message

Proper(id, failed) == id >= SeqMin \/ (id = 0 /\ failed)

LEMMA ProperStep == ASSUME ClientInv, Next PROVE ProperNumbers'
<1>. TypeOK /\ Sleepers /\ ProperNumbers
  BY DEF ClientInv
<1>1. /\ Proper(seq_id, draw_failed) /\ \A c \in Callers : Busy(c) => Proper(req[c].id, draw_failed)
      /\ \A m \in Flying : Proper(m.id, draw_failed)
  BY DEF ProperNumbers, NumbersNotReserved, Proper, Flying
<1>2. SUFFICES /\ Proper(seq_id', draw_failed') /\ \A c \in Callers : Busy(c)' => Proper(req'[c].id, draw_failed')
               /\ \A m \in Flying' : Proper(m.id, draw_failed')
  BY DEF ProperNumbers, NumbersNotReserved, Proper, Flying
<1>3. CASE NoNewCall
  <2>1. \A id : Proper(id, draw_failed) => Proper(id, draw_failed')
    BY <1>3, CallsGoOn DEF Proper
  <2>2. Proper(seq_id', draw_failed')
    <3>1. CASE \E c \in Callers : CallStep(c)
      BY <1>1, <2>1, <3>1, CallStepKeeps DEF Proper
    <3>2. CASE (\E c \in Callers : SpuriousWakeup(c)) \/ (\E m \in requests : Serve(m)) \/ Drop
      BY <1>1, <3>2 DEF SpuriousWakeup, Serve, Drop, handle, Proper
    <3>3. CASE ReconnectSeeds \/ ReconnectSeedFails
      BY <3>3, RaisedIs DEF ReconnectSeeds, ReconnectSeedFails, Proper
    <3>4. CASE (\E m \in replies : Receive(m)) \/ ReadFails \/ ReconnectCloses \/ ReconnectOpens
                \/ ReconnectDone
      BY <1>1, <3>4 DEF Receive, ReadFails, ReconnectCloses, ReconnectOpens, ReconnectDone,
                        handle, Proper
    <3> QED BY <1>3, <3>1, <3>2, <3>3, <3>4 DEF NoNewCall, Elsewhere, ReceiverStep
  <2>3. \A c \in Callers : Busy(c)' => Proper(req'[c].id, draw_failed')
    BY <1>1, <1>3, <2>1, CallsGoOn DEF Proper
  <2>4. \A m \in Flying' : Proper(m.id, draw_failed')
    BY <1>1, <1>3, <2>1, CallsGoOn, MessageIs DEF Proper
  <2> QED BY <2>2, <2>3, <2>4
<1>4. ASSUME NEW c \in Callers, NextSeq(c)
      PROVE  /\ Proper(seq_id', draw_failed') /\ \A d \in Callers : Busy(d)' => Proper(req'[d].id, draw_failed')
             /\ \A m \in Flying' : Proper(m.id, draw_failed')
  <2>1. seq_id \in SeqIds /\ NextId(seq_id) >= SeqMin
    BY NextIdIs DEF TypeOK
  <2> QED BY <1>1, <1>4, <2>1, Numbering DEF Proper, Busy, Flying
<1> QED BY <1>3, <1>4, StepKinds DEF NoNewCall

\* The number of a new call is not in use, nor is the call.
LEMMA NewNumber ==
    ASSUME ClientInv, NEW c \in Callers, NextSeq(c)
    PROVE  /\ \A d \in Callers : Busy(d) => req[d].id # seq_id /\ req[d].call # calls + 1
           /\ \A m \in Flying : m.id # seq_id /\ m.call # calls + 1
           /\ calls \in Nat /\ calls < MaxCalls /\ seq_id \in SeqIds /\ MaxCalls \in Nat
<1>1. /\ calls \in Nat /\ calls < MaxCalls /\ MaxCalls \in Nat /\ seq_id \in SeqIds
  BY Numbering, ConstantsAssumption DEF ClientInv, TypeOK
<1>2. seq_id \notin InUse
  <2>1. 0 \in 0..MaxCalls /\ 0 < MaxCalls - calls
    BY <1>1
  <2> QED BY <1>1, <2>1, FollowingFirst DEF ClientInv, FreshNumbers, Unused
<1>3. calls + 1 \notin 1..calls
  BY <1>1
<1>4. \A d \in Callers : Busy(d) => req[d].id # seq_id /\ req[d].call # calls + 1
  BY <1>2, <1>3 DEF InUse, Busy, ClientInv, OwnNumbers
<1>5. \A m \in Flying : m.id # seq_id /\ m.call # calls + 1
  BY <1>2, <1>3 DEF InUse, Flying, ClientInv, OwnMessages
<1> QED BY <1>1, <1>4, <1>5

LEMMA OwnNumbersStep == ASSUME ClientInv, Next PROVE OwnNumbers'
<1>. TypeOK /\ Sleepers /\ OwnNumbers
  BY DEF ClientInv
<1>1. CASE NoNewCall
  BY <1>1, CallsGoOn DEF OwnNumbers
<1>2. ASSUME NEW c \in Callers, NextSeq(c) PROVE OwnNumbers'
  <2>1. \A i \in 1..calls : i \in 1..calls'
    BY <1>2, NewNumber, Numbering
  <2>2. calls + 1 \in 1..calls'
    BY <1>2, NewNumber, Numbering
  <2>3. \A d \in Callers : Busy(d)' => req'[d].call \in 1..calls'
    BY <1>2, <2>1, <2>2, Numbering DEF OwnNumbers, Busy
  <2>4. \A d, e \in Callers : Busy(d)' /\ Busy(e)' /\ d # e =>
            req'[d].id # req'[e].id /\ req'[d].call # req'[e].call
    BY <1>2, NewNumber, Numbering DEF OwnNumbers, Busy
  <2> QED BY <2>3, <2>4 DEF OwnNumbers
<1> QED BY <1>1, <1>2, StepKinds DEF NoNewCall

\* A message is sent once, and the server answers it once.
LEMMA OwnMessagesStep == ASSUME ClientInv, Next PROVE OwnMessages'
<1>. TypeOK /\ Sleepers /\ OwnNumbers /\ OwnMessages
  BY DEF ClientInv
<1>1. /\ \A m \in Flying : m.call \in 1..calls
      /\ \A m, n \in Flying : m.call = n.call => m = n
      /\ \A d \in Callers, m \in Flying : Busy(d) => (m.id = req[d].id <=> m.call = req[d].call)
      /\ \A d \in Callers, m \in Flying :
            cpc[d] \in {"numbered", "inserted", "writing"} => m.call # req[d].call
      /\ requests \cap replies = {}
  BY DEF OwnMessages
<1>2. CASE Elsewhere
  <2>1. requests' \cap replies' = {}
    <3>1. CASE \E m \in requests : Serve(m)
      BY <1>1, <3>1 DEF Serve
    <3>2. CASE \E m \in replies : Receive(m)
      BY <1>1, <3>2 DEF Receive
    <3>3. CASE (\E c \in Callers : SpuriousWakeup(c)) \/ Drop
      BY <1>1, <3>3 DEF SpuriousWakeup, Drop, network
    <3>4. CASE ReadFails \/ ReconnectCloses \/ ReconnectOpens \/ ReconnectSeeds
               \/ ReconnectSeedFails \/ ReconnectDone
      BY <1>1, <3>4 DEF ReadFails, ReconnectCloses, ReconnectOpens, ReconnectSeeds,
                        ReconnectSeedFails, ReconnectDone, network
    <3> QED BY <1>2, <3>1, <3>2, <3>3, <3>4 DEF Elsewhere, ReceiverStep
  <2> QED BY <1>1, <1>2, <2>1, ElsewhereKeeps DEF OwnMessages, Busy
<1>3. ASSUME NEW c \in Callers, CallStep(c) PROVE OwnMessages'
  <2>1. /\ Busy(c) /\ calls' = calls /\ replies' = replies
        /\ \A d \in Callers : Busy(d)' => Busy(d) /\ req'[d] = req[d]
        /\ \A d \in Callers \ {c} : cpc'[d] = cpc[d] /\ req'[d] = req[d]
        /\ Returns(c) => cpc'[c] = "idle"
    BY <1>3, CallerGoesOn, CallStepKeeps, Returning DEF Busy
  <2>2. CASE requests' = requests
    <3>1. Flying' = Flying
      BY <2>1, <2>2 DEF Flying
    <3>2. cpc'[c] \in {"numbered", "inserted", "writing"} =>
                cpc[c] \in {"numbered", "inserted", "writing"} /\ req'[c] = req[c]
      <4>. /\ \A place : Goes(c, place) => cpc'[c] = place
           /\ cpc[c] \in Places
        BY Going, CallerTypes
      <4>1. CASE InsertSeq(c) \/ InsertFails(c) \/ ReadFd(c) \/ SendFails(c)
        BY <2>1, <4>1 DEF InsertSeq, InsertFails, ReadFd, SendFails, BuildsPacket, Busy
      <4>2. CASE Write(c) \/ Undo(c)
        BY <2>1, <4>2 DEF Write, Undo, Busy
      <4>3. CASE Sleep(c) \/ Spin(c)
        BY <4>3 DEF Sleep, Spin, FindsNothing, Looks, caller
      <4>4. CASE TakeReply(c) \/ Timeout(c)
        BY <2>1, <4>4, Failing DEF TakeReply, Timeout, Looks, Sleepers
      <4> QED BY <1>3, <4>1, <4>2, <4>3, <4>4 DEF CallStep
    <3>3. \A d \in Callers, m \in Flying :
                cpc'[d] \in {"numbered", "inserted", "writing"} => m.call # req'[d].call
      BY <1>1, <2>1, <3>2
    <3>4. \A d \in Callers, m \in Flying : Busy(d)' =>
                (m.id = req'[d].id <=> m.call = req'[d].call)
      BY <1>1, <2>1
    <3> QED BY <1>1, <2>1, <2>2, <3>1, <3>3, <3>4 DEF OwnMessages
  <2>3. CASE requests' = requests \cup {Message(c)} /\ Write(c)
    <3>1. /\ cpc[c] = "writing" /\ cpc'[c] \in {"waiting", "idle"}
      BY <2>3, Going, Returning DEF Write
    <3>2. Flying' = Flying \cup {Message(c)}
      BY <2>1, <2>3 DEF Flying
    <3>3. \A m \in Flying : m.call # Message(c).call
      BY <1>1, <3>1, MessageIs
    <3>4. Message(c).call \in 1..calls
      BY <2>1, MessageIs DEF OwnNumbers
    <3>5. requests' \cap replies' = {}
      BY <1>1, <2>1, <2>3, <3>3 DEF Flying
    <3>6. \A m, n \in Flying' : m.call = n.call => m = n
      BY <1>1, <3>2, <3>3
    <3>7. \A d \in Callers : Busy(d)' =>
                (Message(c).id = req'[d].id <=> Message(c).call = req'[d].call)
      BY <2>1, MessageIs DEF OwnNumbers
    <3>8. \A d \in Callers :
                cpc'[d] \in {"numbered", "inserted", "writing"} => Message(c).call # req'[d].call
      BY <2>1, <3>1, MessageIs DEF OwnNumbers, Busy
    <3>9. \A d \in Callers, m \in Flying : Busy(d)' =>
                (m.id = req'[d].id <=> m.call = req'[d].call)
      BY <1>1, <2>1
    <3>10. \A d \in Callers, m \in Flying :
                cpc'[d] \in {"numbered", "inserted", "writing"} => m.call # req'[d].call
      BY <1>1, <2>1, <3>1
    <3> QED BY <1>1, <2>1, <3>2, <3>4, <3>5, <3>6, <3>7, <3>8, <3>9, <3>10 DEF OwnMessages
  <2> QED BY <1>3, <2>2, <2>3, CallStepKeeps
<1>4. ASSUME NEW c \in Callers, NextSeq(c) PROVE OwnMessages'
  <2>1. /\ requests' = requests /\ replies' = replies /\ Flying' = Flying
    BY <1>4, Numbering DEF Flying
  <2>2. \A i \in 1..calls : i \in 1..calls'
    BY <1>4, NewNumber, Numbering
  <2>3. \A m \in Flying : m.id # req'[c].id /\ m.call # req'[c].call
    BY <1>4, NewNumber, Numbering
  <2>4. \A d \in Callers, m \in Flying : Busy(d)' =>
                (m.id = req'[d].id <=> m.call = req'[d].call)
    BY <1>1, <1>4, <2>3, Numbering DEF Busy
  <2>5. \A d \in Callers, m \in Flying :
            cpc'[d] \in {"numbered", "inserted", "writing"} => m.call # req'[d].call
    BY <1>1, <1>4, <2>3, Numbering
  <2> QED BY <1>1, <2>1, <2>2, <2>4, <2>5 DEF OwnMessages
<1> QED BY <1>2, <1>3, <1>4, StepKinds

LEMMA AckedPlacesStep == ASSUME ClientInv, Next PROVE AckedPlaces'
<1>. TypeOK /\ Sleepers /\ AckedPlaces
  BY DEF ClientInv
<1>1. CASE Elsewhere
  BY <1>1, ElsewhereKeeps DEF AckedPlaces
<1>2. ASSUME NEW c \in Callers, NextSeq(c) PROVE AckedPlaces'
  BY <1>2, Numbering DEF AckedPlaces
<1>3. ASSUME NEW c \in Callers, CallStep(c) PROVE AckedPlaces'
  <2>1. \A d \in Callers \ {c} : cpc'[d] = cpc[d] /\ req'[d] = req[d]
    BY <1>3, CallerGoesOn
  <2>2. cpc'[c] \in {"inserted", "waiting", "spinning", "undoing"} => Acked(req'[c].kind)
    <3>. /\ \A place : Goes(c, place) => cpc'[c] = place
         /\ Returns(c) => cpc'[c] = "idle"
      BY Going, Returning
    <3>1. CASE InsertSeq(c) \/ InsertFails(c) \/ ReadFd(c) \/ SendFails(c) \/ Write(c)
      BY <3>1 DEF InsertSeq, InsertFails, ReadFd, SendFails, Write
    <3>2. CASE Sleep(c) \/ Spin(c)
      BY <3>2 DEF Sleep, Spin, FindsNothing, Looks, caller, AckedPlaces
    <3>3. CASE TakeReply(c) \/ Timeout(c) \/ Undo(c)
      BY <3>3, Failing DEF TakeReply, Timeout, Undo, Acked
    <3> QED BY <1>3, <3>1, <3>2, <3>3 DEF CallStep
  <2> QED BY <2>1, <2>2 DEF AckedPlaces
<1> QED BY <1>1, <1>2, <1>3, StepKinds

LEMMA SleepersStep == ASSUME ClientInv, Next PROVE Sleepers'
<1>. TypeOK /\ Sleepers
  BY DEF ClientInv
<1>1. CASE Elsewhere
  BY <1>1, ElsewhereKeeps DEF Sleepers
<1>2. ASSUME NEW c \in Callers, NextSeq(c) PROVE Sleepers'
  BY <1>2, Numbering DEF Sleepers, TypeOK
<1>3. ASSUME NEW c \in Callers, CallStep(c) PROVE Sleepers'
  <2>1. \A d \in Callers \ {c} : cpc'[d] = cpc[d]
    BY <1>3, CallerGoesOn
  <2>2. CASE Sleep(c)
    BY <2>2 DEF Sleep, FindsNothing, Looks, caller, Sleepers
  <2>3. CASE ~Sleep(c)
    <3>1. ack_cond' \subseteq ack_cond /\ c \notin ack_cond'
      BY <1>3, <2>3 DEF CallStep, InsertSeq, InsertFails, ReadFd, BuildsPacket, SendFails, Write,
                 Spin, FindsNothing, Looks, TakeReply, Timeout, Undo, handle, Sleepers
    <3>2. ack_cond \subseteq Callers
      BY DEF TypeOK
    <3> QED BY <2>1, <3>1, <3>2 DEF Sleepers
  <2> QED BY <2>2, <2>3
<1> QED BY <1>1, <1>2, <1>3, StepKinds

LEMMA RegisteredIsBusy ==
    ASSUME NEW c \in Callers, Registered(c) PROVE Busy(c)
BY DEF Registered, Busy

LEMMA EntriesStep == ASSUME ClientInv, Next PROVE Entries'
<1>. /\ TypeOK /\ Sleepers /\ OwnNumbers /\ OwnMessages /\ AckedPlaces /\ Entries
  BY DEF ClientInv
<1>1. /\ \A d \in Callers : Registered(d) => req[d].id \in DOMAIN ack_hash
      /\ \A d \in Callers : Registered(d) /\ Stored(d) =>
            ack_hash[req[d].id] = req[d].call /\ \A m \in Flying : m.call # req[d].call
      /\ \A d \in Callers : Registered(d) /\ Stored(d) => cpc[d] \notin Early
  BY DEF Entries, Early
<1>2. CASE Elsewhere
  <2>1. \A d \in Callers : Registered(d)' <=> Registered(d)
    BY <1>2, ElsewhereKeeps DEF Registered
  <2>2. ASSUME NEW d \in Callers, Registered(d)
        PROVE  /\ req[d].id \in DOMAIN ack_hash'
               /\ Stored(d)' => /\ ack_hash'[req[d].id] = req[d].call
                                /\ \A m \in Flying' : m.call # req[d].call
                                /\ cpc[d] \notin Early
    <3>1. CASE ack_hash'[req[d].id] = ack_hash[req[d].id]
      <4>1. Stored(d)' => Stored(d)
        BY <1>1, <1>2, <2>2, <3>1, ElsewhereKeeps DEF Stored
      <4> QED BY <1>1, <1>2, <2>2, <3>1, <4>1, ElsewhereKeeps
    <3>2. ASSUME NEW m \in replies, m.id = req[d].id, ack_hash'[req[d].id] = m.call,
                 replies' = replies \ {m}, requests' = requests
          PROVE  /\ ack_hash'[req[d].id] = req[d].call
                 /\ \A n \in Flying' : n.call # req[d].call
                 /\ cpc[d] \notin Early
      <4>1. m.call = req[d].call /\ m \in Flying /\ Flying' = Flying \ {m}
        BY <2>2, <3>2, RegisteredIsBusy DEF OwnMessages, Flying
      <4> QED BY <3>2, <4>1 DEF OwnMessages, Early
    <3>3. \/ ack_hash'[req[d].id] = ack_hash[req[d].id]
          \/ \E m \in replies : m.id = req[d].id /\ ack_hash'[req[d].id] = m.call
                                /\ replies' = replies \ {m} /\ requests' = requests
      BY <1>1, <1>2, <2>2, ElsewhereKeeps
    <3>4. req[d].id \in DOMAIN ack_hash'
      BY <1>1, <1>2, <2>2, ElsewhereKeeps
    <3> QED BY <3>1, <3>2, <3>3, <3>4
  <2>3. UNCHANGED <<cpc, req>>
    BY <1>2, ElsewhereKeeps
  <2> QED BY <2>1, <2>2, <2>3 DEF Entries, Early
<1>3. ASSUME NEW c \in Callers, NextSeq(c) PROVE Entries'
  <2>1. \A d \in Callers : Registered(d)' =>
            Registered(d) /\ req'[d] = req[d] /\ cpc'[d] = cpc[d]
    BY <1>3, Numbering DEF Registered
  <2>2. ack_hash' = ack_hash /\ Flying' = Flying
    BY <1>3, Numbering DEF Flying
  <2>3. \A d \in Callers : Registered(d)' => (Stored(d)' <=> Stored(d))
    BY <2>1, <2>2 DEF Stored
  <2> QED BY <1>1, <2>1, <2>2, <2>3 DEF Entries, Early
<1>4. ASSUME NEW c \in Callers, CallStep(c) PROVE Entries'
  <2>1. /\ \A d \in Callers \ {c} : cpc'[d] = cpc[d] /\ req'[d] = req[d]
        /\ \A d \in Callers \ {c} : Registered(d)' <=> Registered(d)
        /\ Busy(c)
    BY <1>4, CallerGoesOn DEF Registered
  <2>2. \A m \in Flying' : m \in Flying \/ (m = Message(c) /\ Write(c))
    BY <1>4, CallStepKeeps DEF Flying
  <2>3. ASSUME NEW d \in Callers \ {c}, Registered(d)
        PROVE  /\ req[d].id \in DOMAIN ack_hash'
               /\ Stored(d)' => /\ ack_hash'[req[d].id] = req[d].call
                                /\ \A m \in Flying' : m.call # req[d].call
                                /\ cpc[d] \notin Early
    <3>1. req[d].id # req[c].id /\ req[d].call # req[c].call
      BY <2>1, <2>3, RegisteredIsBusy DEF OwnNumbers
    <3>2. req[d].id \in DOMAIN ack_hash' /\ ack_hash'[req[d].id] = ack_hash[req[d].id]
      BY <1>1, <1>4, <2>3, <3>1, CallStepKeeps
    <3>3. Stored(d)' => Stored(d)
      BY <1>1, <2>1, <2>3, <3>2 DEF Stored
    <3> QED BY <1>1, <2>2, <2>3, <3>1, <3>2, <3>3, MessageIs
  <2>4. ASSUME Registered(c)'
        PROVE  /\ req'[c].id \in DOMAIN ack_hash'
               /\ Stored(c)' => /\ ack_hash'[req'[c].id] = req'[c].call
                                /\ \A m \in Flying' : m.call # req'[c].call
                                /\ cpc'[c] \notin Early
    <3>1. CASE Returns(c)
      BY <2>4, <3>1, Returning DEF Registered
    <3>2. CASE req' = req /\ ack_hash' = With(req[c].id, Pending)
      BY <3>2 DEF With, Stored
    <3>3. CASE /\ req' = req /\ ack_hash' = ack_hash
               /\ Registered(c)' <=> Registered(c)
               /\ cpc'[c] \in Early /\ Registered(c) => cpc[c] \in Early
      <4>1. Registered(c) /\ (Stored(c)' <=> Stored(c))
        BY <2>4, <3>3 DEF Stored
      <4>2. Stored(c) => ~Write(c)
        BY <1>1, <4>1 DEF Write, Early
      <4> QED BY <1>1, <2>2, <3>3, <4>1, <4>2
    <3> QED BY <1>4, <3>1, <3>2, <3>3, OwnEntry
  <2> QED BY <2>1, <2>3, <2>4 DEF Entries, Early, Stored
<1> QED BY <1>2, <1>3, <1>4, StepKinds

LEMMA EntriesOwnedStep == ASSUME ClientInv, Next PROVE EntriesOwned'
<1>. TypeOK /\ Sleepers /\ AckedPlaces /\ Entries /\ EntriesOwned
  BY DEF ClientInv
<1>1. CASE Elsewhere
  <2>1. \A d \in Callers : Registered(d) => Registered(d)' /\ req'[d] = req[d]
    BY <1>1, ElsewhereKeeps DEF Registered
  <2> QED BY <1>1, <2>1, ElsewhereKeeps DEF EntriesOwned
<1>2. ASSUME NEW c \in Callers, NextSeq(c) PROVE EntriesOwned'
  <2>1. \A d \in Callers : Registered(d) => Registered(d)' /\ req'[d] = req[d]
    BY <1>2, Numbering DEF Registered
  <2> QED BY <1>2, <2>1, Numbering DEF EntriesOwned
<1>3. ASSUME NEW c \in Callers, CallStep(c) PROVE EntriesOwned'
  <2>1. \A d \in Callers \ {c} : Registered(d) => Registered(d)' /\ req'[d] = req[d]
    BY <1>3, CallerGoesOn DEF Registered
  <2>2. /\ abandoned \subseteq abandoned'
        /\ DOMAIN ack_hash' \subseteq DOMAIN ack_hash \cup {req[c].id}
    BY <1>3, CallStepKeeps
  <2>3. CASE Returns(c)
    <3>1. /\ Registered(c) /\ req[c].id \in DOMAIN ack_hash' => req[c].id \in abandoned'
          /\ DOMAIN ack_hash' \subseteq DOMAIN ack_hash
      BY <1>3, <2>3, OwnEntry, Returning DEF Early, Registered, Busy
    <3> QED BY <2>1, <2>2, <3>1 DEF EntriesOwned
  <2>4. CASE req' = req /\ ack_hash' = With(req[c].id, Pending) /\ cpc'[c] = "inserted"
             /\ Acked(req[c].kind)
    <3>1. Registered(c)' /\ req'[c] = req[c]
      BY <2>4 DEF Registered
    <3> QED BY <2>1, <2>2, <3>1 DEF EntriesOwned
  <2>5. CASE req' = req /\ ack_hash' = ack_hash /\ (Registered(c)' <=> Registered(c))
    BY <2>1, <2>2, <2>5 DEF EntriesOwned
  <2> QED BY <1>3, <2>3, <2>4, <2>5, OwnEntry
<1> QED BY <1>1, <1>2, <1>3, StepKinds

LEMMA TypeStep == ASSUME ClientInv, Next PROVE TypeOK'
<1>. TypeOK /\ Sleepers /\ OwnNumbers /\ OwnMessages
  BY DEF ClientInv
<1>1. /\ cpc \in [Callers -> Places] /\ req \in [Callers -> CallTypes]
      /\ fd \in [Callers -> Fds \cup {None}]
      /\ \A c \in Callers : req[c].id \in SeqIds /\ req[c].call \in 0..MaxCalls
            /\ req[c].kind \in {"void", "heartbeat", "async", "sync"}
  BY CallerTypes
<1>2. SeqMin \in Nat \ {0} /\ SeqTop \in Nat /\ MaxCalls \in Nat /\ MaxDrops \in Nat /\ 0 \in SeqIds
  BY ConstantsAssumption DEF SeqIds
<1>. USE DEF TypeOK
<1>3. ASSUME cpc' \in [Callers -> Places], req' \in [Callers -> CallTypes],
             fd' \in [Callers -> Fds \cup {None}]
      PROVE  /\ cpc' \in [Callers -> {"idle", "numbered", "inserted", "writing",
                                      "waiting", "spinning", "undoing"}]
             /\ req' \in [Callers -> [kind : {"void", "heartbeat", "async", "sync"},
                            wait : {"forever", "timed", "invalid"},
                            id : SeqIds, call : 0..MaxCalls]]
             /\ fd' \in [Callers -> Fds \cup {None}]
  BY <1>3 DEF Places, CallTypes
<1>4. \A c \in Callers, p \in Places : Goes(c, p) => cpc' \in [Callers -> Places]
  BY <1>1 DEF Goes
<1>5. CASE Elsewhere
  <2>1. \A m \in replies : With(m.id, m.call) \in [DOMAIN ack_hash \cup {m.id} -> 0..MaxCalls]
    <3>1. \A m \in Messages : m.id \in SeqIds /\ m.call \in 0..MaxCalls
      BY <1>2 DEF Messages
    <3>2. \A m \in replies : m.call \in 0..MaxCalls
      BY <3>1
    <3> QED BY <3>2 DEF With
  <2>2. ASSUME NEW m \in replies, Receive(m) PROVE TypeOK'
    <3>1. /\ ack_hash' \in [DOMAIN ack_hash' -> 0..MaxCalls]
          /\ DOMAIN ack_hash' = DOMAIN ack_hash
      <4>1. DOMAIN ack_hash' = DOMAIN ack_hash
        BY <2>2, <1>5, ElsewhereKeeps
      <4>2. ack_hash' = ack_hash \/ (m.id \in DOMAIN ack_hash /\ ack_hash' = With(m.id, m.call))
        BY <2>2 DEF Receive, Stores
      <4>3. m.id \in DOMAIN ack_hash => DOMAIN ack_hash \cup {m.id} = DOMAIN ack_hash
        OBVIOUS
      <4> QED BY <2>1, <4>1, <4>2, <4>3
    <3>2. ack_cond' \subseteq ack_cond
      BY <1>5, ElsewhereKeeps
    <3> QED BY <2>2, <3>1, <3>2 DEF Receive, caller
  <2>3. ASSUME NEW c \in Callers, SpuriousWakeup(c) PROVE TypeOK'
    BY <2>3 DEF SpuriousWakeup, caller, network
  <2>4. CASE ReadFails \/ ReconnectCloses \/ ReconnectOpens \/ ReconnectDone
    BY <2>4 DEF ReadFails, ReconnectCloses, ReconnectOpens, ReconnectDone, handle, caller, network
  <2>5. CASE ReconnectSeeds \/ ReconnectSeedFails
    BY <1>2, <2>5, RaisedIs DEF ReconnectSeeds, ReconnectSeedFails, caller, network
  <2>6. ASSUME NEW m \in requests, Serve(m) PROVE TypeOK'
    BY <2>6 DEF Serve, handle, caller
  <2>7. CASE Drop
    BY <1>2, <2>7 DEF Drop, handle, caller
  <2> QED BY <1>5, <2>2, <2>3, <2>4, <2>5, <2>6, <2>7 DEF Elsewhere, ReceiverStep
<1>6. ASSUME NEW c \in Callers, NextSeq(c) PROVE TypeOK'
  <2>1. cpc' \in [Callers -> Places]
    BY <1>4, <1>6 DEF NextSeq, Places
  <2>2. req' \in [Callers -> CallTypes]
    <3>1. req'[c] \in CallTypes /\ \A d \in Callers : req'[d] \in CallTypes
      BY <1>1, <1>6, Numbering
    <3>2. \E r : req' = [req EXCEPT ![c] = r]
      BY <1>6 DEF NextSeq
    <3>3. req' = [d \in Callers |-> req'[d]]
      BY <1>1, <3>2
    <3> QED BY <3>1, <3>3
  <2>3. seq_id' \in SeqIds /\ calls' \in 0..MaxCalls
    BY <1>2, <1>6, Numbering, NewNumber, NextIdIs
  <2> QED BY <1>1, <1>3, <1>6, <2>1, <2>2, <2>3, Numbering
<1>7. ASSUME NEW c \in Callers, CallStep(c) PROVE TypeOK'
  <2>1. /\ cpc' \in [Callers -> Places] /\ req' \in [Callers -> CallTypes]
        /\ fd' \in [Callers -> Fds \cup {None}]
    <3>1. CASE Returns(c)
      BY <3>1, Returning
    <3>2. CASE ~Returns(c)
      <4>. \A p : Goes(c, p) /\ p \in Places => cpc' \in [Callers -> Places]
        BY <1>4
      <4>1. CASE InsertSeq(c) \/ InsertFails(c) \/ SendFails(c) \/ Write(c)
        BY <1>1, <3>2, <4>1 DEF InsertSeq, InsertFails, SendFails, Write, Places
      <4>2. CASE ReadFd(c)
        BY <1>1, <4>2 DEF ReadFd, Places
      <4>3. CASE Sleep(c) \/ Spin(c)
        BY <1>1, <4>3 DEF Sleep, Spin, caller, Places
      <4>4. CASE TakeReply(c) \/ Timeout(c) \/ Undo(c)
        BY <1>1, <3>2, <4>4, Failing DEF TakeReply, Timeout, Undo, Places
      <4> QED BY <1>7, <4>1, <4>2, <4>3, <4>4 DEF CallStep
    <3> QED BY <3>1, <3>2
  <2>2. DOMAIN ack_hash' \subseteq SeqIds /\ ack_hash' \in [DOMAIN ack_hash' -> 0..MaxCalls]
    <3>1. /\ With(req[c].id, Pending) \in [DOMAIN ack_hash \cup {req[c].id} -> 0..MaxCalls]
          /\ Without(req[c].id) \in [DOMAIN ack_hash \ {req[c].id} -> 0..MaxCalls]
      BY <1>2 DEF With, Without, Pending
    <3>2. \/ ack_hash' = ack_hash \/ ack_hash' = With(req[c].id, Pending)
          \/ ack_hash' = Without(req[c].id)
      BY <1>7 DEF CallStep, InsertSeq, InsertFails, ReadFd, SendFails, Write, Sleep, Spin,
                  TakeReply, Timeout, Undo, handle
    <3> QED BY <1>1, <3>1, <3>2
  <2>3. requests' \subseteq Messages
    <3>1. CASE Write(c)
      <4>1. req[c].call \in 1..MaxCalls
        BY <1>2, <3>1 DEF Write, OwnNumbers, Busy
      <4>2. Message(c) \in Messages
        BY <1>1, <4>1 DEF Message, Messages
      <4> QED BY <1>7, <4>2, CallStepKeeps
    <3> QED BY <1>7, <3>1, CallStepKeeps
  <2>4. abandoned' \subseteq SeqIds
    BY <1>1, <1>7, Failing DEF CallStep, InsertSeq, InsertFails, ReadFd, SendFails, Write, Sleep,
           Spin, TakeReply, Timeout, Undo
  <2>5. ack_cond' \subseteq Callers /\ ack_mtx' \in Callers \cup {None}
    BY <1>7 DEF CallStep, InsertSeq, InsertFails, ReadFd, SendFails, Write, Sleep,
           Spin, TakeReply, Timeout, Undo, handle
  <2>6. UNCHANGED <<io_sockfd, link>>
    BY <1>7 DEF CallStep, InsertSeq, InsertFails, ReadFd, SendFails, Write, Sleep,
           Spin, TakeReply, Timeout, Undo, handle, network
  <2> QED BY <1>3, <1>7, <2>1, <2>2, <2>3, <2>4, <2>5, <2>6, CallStepKeeps
<1> QED BY <1>5, <1>6, <1>7, StepKinds

LEMMA InitHolds == ASSUME Init PROVE ClientInv
<1>1. /\ SeqMin \in Nat \ {0} /\ SeqTop \in Nat /\ MaxCalls \in Nat /\ MaxDrops \in Nat
      /\ 0 \in SeqIds
  BY ConstantsAssumption DEF SeqIds
<1>2. seq_id \in SeqIds /\ seq_id >= SeqMin
  BY RaisedIs DEF Init
<1>3. NoRequest \in CallTypes
  BY <1>1 DEF NoRequest, CallTypes
<1>4. /\ \A c \in Callers : cpc[c] = "idle"
      /\ req \in [Callers -> CallTypes] /\ cpc \in [Callers -> Places]
      /\ fd \in [Callers -> Fds \cup {None}]
  BY <1>3 DEF Init, Places
<1>5. DOMAIN ack_hash = {} /\ ack_hash \in [DOMAIN ack_hash -> 0..MaxCalls]
  BY DEF Init
<1>6. requests = {} /\ replies = {} /\ Flying = {} /\ ack_cond = {}
  BY DEF Init, Flying
<1>7. TypeOK
  <2>1. /\ io_sockfd \in Fds \cup {None} /\ ack_mtx = None /\ rpc = "reading" /\ link = "up"
        /\ calls = 0 /\ drops = 0 /\ abandoned = {} /\ draw_failed = FALSE
    BY DEF Init
  <2>2. 0 \in 0..MaxCalls /\ 0 \in 0..MaxDrops
    BY <1>1
  <2> QED BY <1>2, <1>4, <1>5, <1>6, <2>1, <2>2 DEF TypeOK, Places, CallTypes
<1>8. InUse = {}
  BY <1>4, <1>5, <1>6 DEF InUse
<1>9. FreshNumbers
  BY <1>8 DEF FreshNumbers, Unused
<1>10. ProperNumbers /\ OwnNumbers /\ OwnMessages
  BY <1>2, <1>4, <1>6 DEF ProperNumbers, NumbersNotReserved, OwnNumbers, OwnMessages, Busy
<1>11. AckedPlaces /\ Entries /\ EntriesOwned /\ Sleepers
  BY <1>4, <1>5, <1>6 DEF AckedPlaces, Entries, Registered, EntriesOwned, Sleepers
<1> QED BY <1>7, <1>9, <1>10, <1>11 DEF ClientInv

LEMMA ClientInvAlways == Spec => []ClientInv
<1>1. Init => ClientInv
  BY InitHolds
<1>2. ClientInv /\ [Next]_vars => ClientInv'
  <2>1. CASE Next
    BY <2>1, TypeStep, FreshStep, ProperStep, OwnNumbersStep, OwnMessagesStep, AckedPlacesStep,
       EntriesStep, EntriesOwnedStep, SleepersStep DEF ClientInv
  <2>2. CASE UNCHANGED vars
    BY <2>2 DEF vars, handle, caller, network, ClientInv, TypeOK, FreshNumbers, Unused, InUse,
        ProperNumbers, NumbersNotReserved, OwnNumbers, OwnMessages, AckedPlaces, Entries,
        EntriesOwned, Sleepers, Registered, Stored, Busy, Flying, Messages
  <2> QED BY <2>1, <2>2
<1> QED BY <1>1, <1>2, PTL DEF Spec

-----------------------------------------------------------------------------
(* The theorems *)

\* The handle, the calls and the messages keep their types, and ack_hash holds for
\* every number in it the NULL of uc_ipc_client_insert_seq or a reply.
THEOREM TypeCorrect == Spec => []TypeOK
<1>1. ClientInv => TypeOK
  BY DEF ClientInv
<1> QED BY <1>1, ClientInvAlways, PTL

\* The reply that uc_ipc_client_wait_ack takes out of the table under a number is
\* the reply to the call that took this number, for any number of callers, across
\* reconnects, the wrap around of the numbers and entries that stay behind.
THEOREM OwnReplyAlways == Spec => []OwnReply
<1>1. ClientInv => OwnReply
  BY DEF ClientInv, Entries, OwnReply
<1> QED BY <1>1, ClientInvAlways, PTL

\* A message and the reply to it are on their way only while the entry that
\* uc_ipc_client_insert_seq has made for them is in the table and is empty: the
\* reply cannot come before its registration, and cannot be counted twice.
THEOREM ReplyFindsCallAlways == Spec => []ReplyFindsCall
<1>1. ASSUME ClientInv PROVE ReplyFindsCall
  <2>1. ASSUME NEW m \in Flying, NEW c \in Callers, Registered(c), m.call = req[c].call
        PROVE  m.id \in DOMAIN ack_hash /\ ack_hash[m.id] = Pending
    <3>1. m.id = req[c].id
      BY <1>1, <2>1, RegisteredIsBusy DEF ClientInv, OwnMessages
    <3>2. req[c].id \in DOMAIN ack_hash /\ ~Stored(c)
      BY <1>1, <2>1 DEF ClientInv, Entries
    <3> QED BY <3>1, <3>2 DEF Stored
  <2> QED BY <2>1 DEF ReplyFindsCall, Flying
<1> QED BY <1>1, ClientInvAlways, PTL

\* Whatever uc_urandom draws in a reconnect, no message goes out under a number
\* below UC_IPC_SEQ_ID_MIN, but under 0 after a draw has failed.
THEOREM NumbersNotReservedAlways == Spec => []NumbersNotReserved
<1>1. ClientInv => NumbersNotReserved
  BY DEF ClientInv, ProperNumbers
<1> QED BY <1>1, ClientInvAlways, PTL

\* On every path through async_send and sync_send, failures and deadlines included,
\* the only entry a call leaves in the table when it returns is that of a sync_send
\* that gave up waiting.
THEOREM EntriesOwnedAlways == Spec => []EntriesOwned
<1>1. ClientInv => EntriesOwned
  BY DEF ClientInv
<1> QED BY <1>1, ClientInvAlways, PTL
=============================================================================
