----------------------------- MODULE Wifi_proofs -----------------------------
(***************************************************************************)
(* Proofs about the TCP clients of Wifi.                                    *)
(*                                                                         *)
(* IInv is inductive: session numbers only grow, so a reply never has the   *)
(* number of a session created after it (Numbers); a socket whose connect   *)
(* is still waiting has asked for no data, so none can reach it (Fresh),    *)
(* and the reset of the rest when the wait ends drops nothing that blocks   *)
(* the interface; and closes a reply asked for are done before the call     *)
(* goes on (Calls).                                                         *)
(*                                                                         *)
(* SInv, inductive on top of it, follows the data of each connection: it is *)
(* asked for once, while nothing is left to read (AskedOnce), only its own  *)
(* socket gets it (Owned), its bytes are numbered from the last one read    *)
(* (Numbered) up to the last one the chip took (Counted), and a socket that *)
(* has nothing to read has asked (Outstanding).                             *)
(***************************************************************************)
EXTENDS Wifi, SequenceTheorems, TLAPS

Numbers ==
    /\ \A s \in Sockets :
           /\ gastrSockets[s].session <= sessionID
           /\ gastrSockets[s].used <=> gastrSockets[s].session # 0
           /\ chip[s].session <= sessionID
           /\ chip[s].state # "free" => chip[s].session # 0
    /\ \A i \in 1..Len(replies) : replies[i].session <= sessionID

WithSocket == {"connect", "reconnect", "connecting", "stop", "read", "reading", "peek"}

Calls ==
    /\ ~InLoop => closing = <<>>
    /\ pc.op \in WithSocket => pc.client \in Clients /\ handle[pc.client] \in Sockets

Quiet(s) ==
    /\ InStep(s) /\ ~chip[s].want /\ ~Holds(s)
    /\ \A i \in 1..Len(replies) : replies[i].sock = s /\ replies[i].kind = "recv" =>
           replies[i].session # gastrSockets[s].session
    /\ \A i \in 1..Len(closing) : closing[i] # s

Fresh == pc.op = "connecting" => Quiet(handle[pc.client])

IInv == TypeOK /\ Numbers /\ Calls /\ NoWedge /\ Fresh

-----------------------------------------------------------------------------
(* Helpers *)

\* fillRecvBuffer leaves data in the chip exactly when there is more than the
\* buffer takes.
LEMMA FilledProperties ==
    ASSUME NEW i \in InfoRecords, NEW r \in Seq(Bytes)
    PROVE  /\ Filled(i, r) \in InfoRecords
           /\ Filled(i, r).state = i.state
           /\ Filled(i, r).rest = <<>> <=> Len(r) <= BufferSize
<1> DEFINE n == IF Len(r) > BufferSize THEN BufferSize ELSE Len(r)
<1>1. n \in 0..Len(r) /\ (n = Len(r) <=> Len(r) <= BufferSize)
  BY WifiAssumption
<1>2. SubSeq(r, 1, n) \in Seq(Bytes) /\ SubSeq(r, n + 1, Len(r)) \in Seq(Bytes)
  <2>1. \A j \in 1..Len(r) : r[j] \in Bytes
    OBVIOUS
  <2>2. \A j \in 1..n : r[j] \in Bytes
    BY <1>1, <2>1
  <2>3. \A j \in (n + 1)..Len(r) : r[j] \in Bytes
    BY <1>1, <2>1
  <2> QED BY <1>1, <2>2, <2>3, SubSeqProperties
<1>3. Len(SubSeq(r, n + 1, Len(r))) = Len(r) - n
  BY <1>1, SubSeqProperties
<1>4. SubSeq(r, n + 1, Len(r)) = <<>> <=> n = Len(r)
  <2>1. \A t \in Seq(Bytes) : t = <<>> <=> Len(t) = 0
    OBVIOUS
  <2> HIDE DEF n
  <2>2. SubSeq(r, n + 1, Len(r)) = <<>> <=> Len(r) - n = 0
    BY <1>2, <1>3, <2>1
  <2> QED BY <1>1, <2>2
<1>5. Filled(i, r) = [i EXCEPT !.buffer = SubSeq(r, 1, n), !.rest = SubSeq(r, n + 1, Len(r))]
  BY DEF Filled
<1> HIDE DEF n
<1> QED BY <1>1, <1>2, <1>4, <1>5 DEF InfoRecords

\* The bytes of a reply are bytes of its session.
LEMMA ReplyBytes ==
    ASSUME NEW q \in Sessions, NEW k \in Nat, NEW n \in Nat, k + n <= MaxSent
    PROVE  [i \in 1..n |-> <<q, k + i>>] \in Seq(Bytes)
<1>1. \A i \in 1..n : <<q, k + i>> \in Bytes
  BY WifiAssumption DEF Bytes
<1>2. [i \in 1..n |-> <<q, k + i>>] \in [1..n -> Bytes]
  BY <1>1
<1> QED BY <1>2, SeqDef

-----------------------------------------------------------------------------
(* Each step preserves the types *)
LEMMA CloseType ==
    ASSUME IInv, NEW s \in Sockets, Close(s)
    PROVE  /\ gastrSockets' \in [Sockets -> SocketRecords]
           /\ info' \in [Sockets -> InfoRecords]
           /\ blocked' \in BOOLEAN
           /\ chip' \in [Sockets -> ChipRecords]
           /\ failures' \in 0..MaxFailures
           /\ got' \in [Sockets -> Seq(Bytes)]
           /\ misled' \subseteq Sockets /\ refused' \subseteq Sockets
<1> USE DEF IInv, TypeOK, Close
<1>1. Free \in SocketRecords /\ Unknown \in ChipRecords /\ Invalid \in InfoRecords
  BY WifiAssumption DEF Free, SocketRecords, Unknown, ChipRecords, Invalid, InfoRecords
<1>2. blocked' \in BOOLEAN
  OBVIOUS
<1>3. info' \in [Sockets -> InfoRecords] /\ got' \in [Sockets -> Seq(Bytes)]
  BY <1>1
<1>4. misled' \subseteq Sockets /\ refused' \subseteq Sockets
  OBVIOUS
<1>5. gastrSockets' \in [Sockets -> SocketRecords]
  BY <1>1
<1>6. chip' = chip \/ chip' = [chip EXCEPT ![s] = Unknown]
  OBVIOUS
<1>7. chip' \in [Sockets -> ChipRecords]
  BY <1>1, <1>6
<1>8. failures' \in 0..MaxFailures
  BY WifiAssumption DEF Sent, NotSent
<1> QED BY <1>2, <1>3, <1>4, <1>5, <1>7, <1>8

LEMMA RequestType ==
    ASSUME IInv, NEW s \in Sockets, Request(s)
    PROVE  /\ gastrSockets' \in [Sockets -> SocketRecords]
           /\ chip' \in [Sockets -> ChipRecords]
           /\ failures' \in 0..MaxFailures
           /\ refused' \subseteq Sockets
<1> USE DEF IInv, TypeOK, Request
<1>1. gastrSockets' \in [Sockets -> SocketRecords]
  BY ZenonT(30) DEF SocketRecords
<1>2. chip' \in [Sockets -> ChipRecords]
  <2>1. chip' = chip \/ chip' = [chip EXCEPT ![s].want = TRUE]
    OBVIOUS
  <2>2. [chip EXCEPT ![s].want = TRUE] \in [Sockets -> ChipRecords]
    BY DEF ChipRecords
  <2> QED BY <2>1, <2>2
<1>3. failures' \in 0..MaxFailures
  BY WifiAssumption DEF Sent, NotSent
<1>4. refused' \subseteq Sockets
  OBVIOUS
<1> QED BY <1>1, <1>2, <1>3, <1>4

LEMMA ChipType ==
    ASSUME IInv, Chip
    PROVE  TypeOK'
<1> USE DEF IInv, TypeOK
<1>1. ASSUME NEW s \in Sockets, ChipConnects(s) PROVE TypeOK'
  <2>1. PICK ok \in BOOLEAN :
          /\ chip[s].state = "connecting"
          /\ replies' = Append(replies, ConnectReply(s, ok))
          /\ chip' = [chip EXCEPT ![s].state = IF ok THEN "up" ELSE "refused"]
          /\ UNCHANGED <<host, pc, failures, history>>
    BY <1>1 DEF ChipConnects
  <2>2. chip[s].session \in Sessions
    BY <2>1 DEF Numbers, ChipRecords, Sessions
  <2>3. ConnectReply(s, ok) \in Replies
    BY <2>2 DEF ConnectReply, Replies
  <2>4. replies' \in Seq(Replies)
    BY <2>1, <2>3
  <2>5. chip' \in [Sockets -> ChipRecords]
    <3>1. [chip EXCEPT ![s].state = "up"] \in [Sockets -> ChipRecords]
      BY DEF ChipRecords
    <3>2. [chip EXCEPT ![s].state = "refused"] \in [Sockets -> ChipRecords]
      BY DEF ChipRecords
    <3> QED BY <2>1, <3>1, <3>2
  <2> QED BY <2>1, <2>4, <2>5 DEF host, history
<1>2. ASSUME NEW s \in Sockets, ChipReceives(s) PROVE TypeOK'
  <2>1. PICK n \in 1..MaxReply :
          /\ chip[s].state = "up" /\ chip[s].sent + n <= MaxSent
          /\ replies' = Append(replies,
                 RecvReply(s, [i \in 1..n |-> <<chip[s].session, chip[s].sent + i>>]))
          /\ chip' = [chip EXCEPT ![s].want = FALSE, ![s].sent = @ + n]
          /\ UNCHANGED <<host, pc, failures, history>>
    BY <1>2 DEF ChipReceives
  <2>2. chip[s].session \in Sessions /\ chip[s].sent \in Nat /\ n \in Nat
    BY SMTT(30), <2>1, WifiAssumption DEF Numbers, ChipRecords, Sessions
  <2>3. [i \in 1..n |-> <<chip[s].session, chip[s].sent + i>>] \in Seq(Bytes)
    BY <2>1, <2>2, ReplyBytes
  <2>4. RecvReply(s, [i \in 1..n |-> <<chip[s].session, chip[s].sent + i>>]) \in Replies
    BY <2>2, <2>3 DEF RecvReply, Replies
  <2>5. replies' \in Seq(Replies)
    BY <2>1, <2>4
  <2>6. chip' \in [Sockets -> ChipRecords]
    <3>1. chip[s].sent + n \in 0..MaxSent
      BY <2>1, <2>2, WifiAssumption
    <3>2. [chip[s] EXCEPT !.want = FALSE, !.sent = @ + n] \in ChipRecords
      BY <3>1 DEF ChipRecords
    <3>3. chip' = [chip EXCEPT ![s] = [chip[s] EXCEPT !.want = FALSE, !.sent = @ + n]]
      BY <2>1 DEF ChipRecords
    <3> QED BY <3>2, <3>3
  <2> QED BY <2>1, <2>5, <2>6 DEF host, history
<1>3. ASSUME NEW s \in Sockets, ChipEnds(s) PROVE TypeOK'
  <2>1. chip[s].session \in Sessions
    BY <1>3 DEF ChipEnds, Numbers, ChipRecords, Sessions
  <2>2. RecvReply(s, <<>>) \in Replies
    BY <2>1 DEF RecvReply, Replies
  <2>3. replies' \in Seq(Replies)
    BY <1>3, <2>2 DEF ChipEnds
  <2>4. chip' \in [Sockets -> ChipRecords]
    BY ZenonT(30), <1>3 DEF ChipEnds, ChipRecords
  <2> QED BY <1>3, <2>3, <2>4 DEF ChipEnds, host, history
<1> QED BY <1>1, <1>2, <1>3 DEF Chip

LEMMA HandleType ==
    ASSUME IInv, HandleReply \/ HandleClose
    PROVE  TypeOK'
<1> USE DEF IInv, TypeOK
<1>1. CASE HandleReply
  <2> DEFINE m == Head(replies)
  <2>1. m \in Replies /\ replies' \in Seq(Replies)
    BY <1>1 DEF HandleReply
  <2>2. m.sock \in Sockets /\ m.bytes \in Seq(Bytes)
    BY <2>1 DEF Replies
  <2>3. UNCHANGED <<nextSock, sessionID, handle, pc, chip, failures, got, refused>>
    BY <1>1 DEF HandleReply
  <2>4. CASE HandleConnect(m)
    <3>1. info' \in [Sockets -> InfoRecords]
      BY ZenonT(30), <2>2, <2>4 DEF HandleConnect, ConnectState, InfoRecords
    <3>2. misled' \subseteq Sockets
      BY <2>2, <2>4 DEF HandleConnect
    <3> QED BY <2>1, <2>3, <2>4, <3>1, <3>2 DEF HandleConnect
  <2>5. CASE HandleRecv(m)
    <3>1. gastrSockets' \in [Sockets -> SocketRecords]
      BY <2>2, <2>5 DEF HandleRecv, Answered, SocketRecords
    <3>2. closing' \in Seq(Sockets)
      <4>1. <<m.sock>> \in Seq(Sockets)
        BY <2>2
      <4>2. <<m.sock>> \o closing \in Seq(Sockets)
        BY <4>1, ConcatProperties
      <4> QED BY <2>5, <4>2 DEF HandleRecv
    <3>3. info' \in [Sockets -> InfoRecords]
      <4>1. Filled(info[m.sock], m.bytes) \in InfoRecords
        BY <2>2, FilledProperties
      <4> QED BY <2>2, <2>5, <4>1 DEF HandleRecv
    <3>4. blocked' \in BOOLEAN
      BY <2>5 DEF HandleRecv
    <3> QED BY <2>1, <2>3, <2>5, <3>1, <3>2, <3>3, <3>4 DEF HandleRecv
  <2> QED BY <1>1, <2>4, <2>5 DEF HandleReply
<1>2. CASE HandleClose
  <2>1. Head(closing) \in Sockets /\ closing' \in Seq(Sockets)
    BY <1>2 DEF HandleClose
  <2>2. Close(Head(closing)) /\ UNCHANGED <<nextSock, sessionID, handle, pc, replies>>
    BY <1>2 DEF HandleClose
  <2> QED BY <2>1, <2>2, CloseType
<1> QED BY <1>1, <1>2

\* The calls of the sketch that change only what call it is in, and their ends.
LEMMA BeginType ==
    ASSUME IInv, BeginPoll \/ EndPoll \/ \E c \in Clients : Start(c)
    PROVE  TypeOK'
<1> USE DEF IInv, TypeOK
<1>1. ASSUME NEW op \in {"connect", "create", "stop", "read", "peek", "poll"},
             NEW c \in Clients \union {NoClient}, Begin(op, c)
      PROVE  TypeOK'
  <2>1. pc' \in CallRecords
    BY <1>1, WifiAssumption DEF Begin, CallRecords
  <2> QED BY <1>1, <2>1 DEF Begin, host, theChip, history
<1>2. CASE EndPoll
  <2>1. pc' \in CallRecords
    BY <1>2, WifiAssumption DEF EndPoll, Idle, CallRecords
  <2> QED BY <1>2, <2>1 DEF EndPoll, host, theChip, history
<1>3. CASE BeginPoll
  BY <1>1, <1>3 DEF BeginPoll
<1>4. ASSUME NEW c \in Clients, Start(c) PROVE TypeOK'
  BY <1>1, <1>4 DEF Start, BeginConnect, BeginRead, BeginPeek, BeginStop
<1> QED BY <1>2, <1>3, <1>4

LEMMA ConnectType ==
    ASSUME IInv, NEW c \in Clients,
           \/ CheckConnected(c) \/ StopFirst(c) \/ CreateFails(c) \/ Create(c)
           \/ Connected(c) \/ ConnectFails(c) \/ Stop(c)
    PROVE  TypeOK'
<1> USE DEF IInv, TypeOK
<1>1. \A op \in {"reconnect", "create", "connecting", "stop"} :
          [pc EXCEPT !.op = op] \in CallRecords
  BY DEF CallRecords
<1>2. Idle \in CallRecords
  BY WifiAssumption DEF Idle, CallRecords
<1>3. [handle EXCEPT ![c] = NoSocket] \in [Clients -> Sockets \union {NoSocket}]
  OBVIOUS
<1>4. pc.op \in WithSocket /\ pc.client = c => handle[c] \in Sockets
  BY DEF Calls
<1>5. CASE CheckConnected(c)
  BY <1>1, <1>5 DEF CheckConnected, To, host, theChip, history
<1>6. CASE StopFirst(c)
  <2>1. handle[c] \in Sockets /\ Close(handle[c])
    BY <1>4, <1>6 DEF StopFirst, Handled, WithSocket
  <2> QED BY <1>1, <1>3, <1>6, <2>1, CloseType DEF StopFirst, To
<1>7. CASE CreateFails(c)
  BY <1>2, <1>3, <1>7 DEF CreateFails, theChip, history
<1>8. CASE Create(c)
  <2>1. PICK s \in Sockets :
          /\ sessionID < MaxSessions
          /\ sessionID' = sessionID + 1
          /\ nextSock' = NextSock(s)
          /\ gastrSockets' = [gastrSockets EXCEPT ![s] =
                 [used |-> TRUE, session |-> sessionID + 1, pending |-> FALSE]]
          /\ handle' = [handle EXCEPT ![c] = s]
          /\ \/ /\ Sent /\ To("connecting")
                /\ info' = [info EXCEPT ![s].state = "connecting"]
                /\ chip' = [chip EXCEPT ![s] = [session |-> sessionID + 1,
                               state |-> "connecting", want |-> FALSE, sent |-> 0]]
             \/ /\ NotSent /\ To("stop")
                /\ info' = [info EXCEPT ![s].state = "idle"]
                /\ UNCHANGED chip
          /\ UNCHANGED <<blocked, closing, replies, history>>
    BY <1>8 DEF Create
  <2>2. sessionID' \in 0..MaxSessions
    BY <2>1, WifiAssumption
  <2>3. nextSock' \in Sockets
    BY SMTT(30), <2>1, WifiAssumption DEF NextSock, Sockets
  <2>4. gastrSockets' \in [Sockets -> SocketRecords]
    BY <2>1, <2>2 DEF SocketRecords
  <2>5. info' \in [Sockets -> InfoRecords]
    <3>1. [info EXCEPT ![s].state = "connecting"] \in [Sockets -> InfoRecords]
      BY DEF InfoRecords
    <3>2. [info EXCEPT ![s].state = "idle"] \in [Sockets -> InfoRecords]
      BY DEF InfoRecords
    <3> QED BY <2>1, <3>1, <3>2
  <2>6. chip' \in [Sockets -> ChipRecords]
    <3>1. [session |-> sessionID + 1, state |-> "connecting", want |-> FALSE,
           sent |-> 0] \in ChipRecords
      BY <2>1, <2>2, WifiAssumption DEF ChipRecords
    <3> QED BY <2>1, <3>1
  <2>7. failures' \in 0..MaxFailures
    BY <2>1, WifiAssumption DEF Sent, NotSent
  <2>8. pc' \in CallRecords
    BY <1>1, <2>1 DEF To
  <2>9. handle' \in [Clients -> Sockets \union {NoSocket}]
    BY <2>1
  <2> QED BY <2>1, <2>2, <2>3, <2>4, <2>5, <2>6, <2>7, <2>8, <2>9 DEF history
<1>9. CASE Connected(c)
  <2>1. handle[c] \in Sockets /\ Request(handle[c])
    BY <1>4, <1>9 DEF Connected, Handled, WithSocket
  <2>2. info' \in [Sockets -> InfoRecords]
    <3>1. PICK s \in Sockets : s = handle[c]
      BY <2>1
    <3>2. [info[s] EXCEPT !.rest = <<>>] \in InfoRecords
      <4>1. <<>> \in Seq(Bytes) /\ info[s] \in InfoRecords
        OBVIOUS
      <4> QED BY <4>1 DEF InfoRecords
    <3>3. info' = [info EXCEPT ![s] = [info[s] EXCEPT !.rest = <<>>]]
      BY <1>9, <3>1 DEF Connected
    <3> QED BY <3>2, <3>3
  <2> QED BY <1>2, <1>9, <2>1, <2>2, RequestType DEF Connected
<1>10. CASE ConnectFails(c)
  <2>1. info' \in [Sockets -> InfoRecords]
    <3>1. PICK s \in Sockets : s = handle[c]
      BY <1>4, <1>10 DEF ConnectFails, Handled, WithSocket
    <3>2. [info[s] EXCEPT !.state = "idle"] \in InfoRecords
      BY DEF InfoRecords
    <3>3. info' = [info EXCEPT ![s] = [info[s] EXCEPT !.state = "idle"]]
      BY <1>10, <3>1 DEF ConnectFails
    <3> QED BY <3>2, <3>3
  <2> QED BY <1>1, <1>10, <2>1 DEF ConnectFails, To, theChip, history
<1>11. CASE Stop(c)
  <2>1. handle[c] \in Sockets /\ Close(handle[c])
    BY <1>4, <1>11 DEF Stop, Handled, WithSocket
  <2> QED BY <1>2, <1>3, <1>11, <2>1, CloseType DEF Stop
<1> QED BY <1>5, <1>6, <1>7, <1>8, <1>9, <1>10, <1>11

LEMMA ReadType ==
    ASSUME IInv, NEW c \in Clients,
           ReadNothing(c) \/ ReadSome(c) \/ Peek(c) \/ Copy(c) \/ ReadEnds(c)
    PROVE  TypeOK'
<1> USE DEF IInv, TypeOK
<1>1. Idle \in CallRecords /\ [Idle EXCEPT !.op = "poll"] \in CallRecords
  BY WifiAssumption DEF Idle, CallRecords
<1>2. pc.op \in WithSocket /\ pc.client = c => handle[c] \in Sockets
  BY DEF Calls
<1>3. CASE ReadNothing(c)
  BY <1>1, <1>3 DEF ReadNothing, host, theChip, history
<1>4. CASE ReadSome(c)
  <2>1. pc' \in CallRecords
    <3>1. PICK n \in 1..MaxRead : pc' = [pc EXCEPT !.op = "reading", !.size = n]
      BY <1>4 DEF ReadSome
    <3>2. n \in 0..MaxRead
      BY <3>1, WifiAssumption
    <3> QED BY <3>1, <3>2 DEF CallRecords
  <2> QED BY <1>4, <2>1 DEF ReadSome, host, theChip, history
<1> DEFINE s == handle[c]
           i == IF ToFill(s) THEN Filled(info[s], info[s].rest) ELSE info[s]
<1>5. ASSUME s \in Sockets PROVE i \in InfoRecords
  <2>1. info[s] \in InfoRecords /\ info[s].rest \in Seq(Bytes)
    BY <1>5 DEF InfoRecords
  <2> QED BY <2>1, FilledProperties
<1>6. CASE Peek(c)
  <2>1. s \in Sockets
    BY <1>2, <1>6 DEF Peek, Handled, WithSocket
  <2>2. info' = [info EXCEPT ![s] = i] /\ pc' = Idle /\ blocked' \in BOOLEAN
    BY <1>6 DEF Peek
  <2>3. info' \in [Sockets -> InfoRecords]
    BY <1>5, <2>1, <2>2
  <2> QED BY <1>1, <1>6, <2>2, <2>3 DEF Peek, theChip, history
<1>7. CASE Copy(c)
  <2> DEFINE n == IF pc.size > Len(i.buffer) THEN Len(i.buffer) ELSE pc.size
  <2>1. s \in Sockets
    BY <1>2, <1>7 DEF Copy, WithSocket
  <2>2. i \in InfoRecords /\ i.buffer \in Seq(Bytes)
    BY <1>5, <2>1 DEF InfoRecords
  <2>3. /\ info' = [info EXCEPT ![s] = [i EXCEPT !.buffer = SubSeq(@, n + 1, Len(@))]]
        /\ got' = [got EXCEPT ![s] = @ \o SubSeq(i.buffer, 1, n)]
        /\ pc' = [pc EXCEPT !.size = @ - n]
        /\ blocked' \in BOOLEAN
        /\ UNCHANGED <<gastrSockets, nextSock, sessionID, closing, handle, theChip, failures,
                       misled, refused>>
    BY <1>7 DEF Copy
  <2> HIDE DEF i, s
  <2>4. pc.size \in 0..MaxRead
    BY DEF CallRecords
  <2>5. n \in 0..Len(i.buffer) /\ pc.size - n \in 0..MaxRead
    BY <2>2, <2>4, WifiAssumption
  <2> HIDE DEF n
  <2>6. /\ SubSeq(i.buffer, 1, n) \in Seq(Bytes)
        /\ SubSeq(i.buffer, n + 1, Len(i.buffer)) \in Seq(Bytes)
    <3>1. \A j \in 1..Len(i.buffer) : i.buffer[j] \in Bytes
      BY <2>2
    <3>2. \A j \in 1..n : i.buffer[j] \in Bytes
      BY <2>5, <3>1
    <3>3. \A j \in (n + 1)..Len(i.buffer) : i.buffer[j] \in Bytes
      BY <2>5, <3>1
    <3>4. n \in Int /\ Len(i.buffer) \in Int
      BY <2>2, <2>5
    <3> QED BY <3>2, <3>3, <3>4, SubSeqProperties
  <2>7. info' \in [Sockets -> InfoRecords]
    <3>1. [i EXCEPT !.buffer = SubSeq(@, n + 1, Len(@))] \in InfoRecords
      BY <2>2, <2>6 DEF InfoRecords
    <3> QED BY <2>1, <2>3, <3>1
  <2>8. got' \in [Sockets -> Seq(Bytes)]
    <3>1. got[s] \o SubSeq(i.buffer, 1, n) \in Seq(Bytes)
      BY <2>1, <2>6, ConcatProperties
    <3> QED BY <2>1, <2>3, <3>1
  <2>9. pc' \in CallRecords
    BY <2>3, <2>5 DEF CallRecords
  <2> QED BY <2>3, <2>7, <2>8, <2>9 DEF theChip
<1>8. CASE ReadEnds(c)
  <2>1. s \in Sockets
    BY <1>2, <1>8 DEF ReadEnds, WithSocket
  <2>2. CASE Available(s) = 0
    <3>1. Request(s) /\ pc' = [Idle EXCEPT !.op = "poll"]
      BY <1>8, <2>2 DEF ReadEnds
    <3> QED BY <1>1, <1>8, <2>1, <3>1, RequestType DEF ReadEnds
  <2>3. CASE Available(s) # 0
    BY <1>1, <1>8, <2>3 DEF ReadEnds
  <2> QED BY <2>2, <2>3
<1> QED BY <1>3, <1>4, <1>6, <1>7, <1>8

LEMMA TypeStep ==
    ASSUME IInv, [Next]_vars
    PROVE  TypeOK'
<1>1. CASE Chip
  BY <1>1, ChipType
<1>2. CASE HandleReply \/ HandleClose
  BY <1>2, HandleType
<1>3. CASE BeginPoll \/ EndPoll \/ \E c \in Clients : Start(c)
  BY <1>3, BeginType
<1>4. ASSUME NEW c \in Clients, Continue(c) PROVE TypeOK'
  BY <1>4, ConnectType, ReadType DEF Continue
<1>5. CASE UNCHANGED vars
  BY <1>5 DEF IInv, TypeOK, vars, host, theChip, history
<1> QED BY <1>1, <1>2, <1>3, <1>4, <1>5 DEF Next, Call

-----------------------------------------------------------------------------
(* The session numbers *)
LEMMA CloseNumbers ==
    ASSUME IInv, NEW s \in Sockets, Close(s), UNCHANGED <<sessionID, replies>>
    PROVE  Numbers'
<1> USE DEF IInv, TypeOK, Numbers
<1>1. gastrSockets' = gastrSockets \/ gastrSockets' = [gastrSockets EXCEPT ![s] = Free]
  BY DEF Close
<1>2. chip' = chip \/ chip' = [chip EXCEPT ![s] = Unknown]
  BY DEF Close
<1>3. sessionID \in Nat
  BY WifiAssumption
<1>4. ASSUME NEW t \in Sockets
      PROVE  /\ gastrSockets'[t].session <= sessionID
             /\ gastrSockets'[t].used <=> gastrSockets'[t].session # 0
  <2>1. gastrSockets'[t] = gastrSockets[t] \/ gastrSockets'[t] = Free
    BY <1>1
  <2>2. Free.session = 0 /\ Free.used = FALSE
    BY DEF Free
  <2> QED BY <1>3, <2>1, <2>2
<1>5. \A t \in Sockets : /\ chip'[t].session <= sessionID
                         /\ chip'[t].state # "free" => chip'[t].session # 0
  BY <1>2, <1>3 DEF Unknown
<1> QED BY <1>4, <1>5

LEMMA RequestNumbers ==
    ASSUME IInv, NEW s \in Sockets, Request(s), UNCHANGED <<sessionID, replies>>
    PROVE  Numbers'
<1> USE DEF IInv, TypeOK, Numbers
<1>1. \/ gastrSockets' = gastrSockets
      \/ gastrSockets' = [gastrSockets EXCEPT ![s].pending = TRUE]
  BY DEF Request
<1>2. chip' = chip \/ chip' = [chip EXCEPT ![s].want = TRUE]
  BY DEF Request
<1>3. ASSUME NEW t \in Sockets
      PROVE  /\ gastrSockets'[t].session = gastrSockets[t].session
             /\ gastrSockets'[t].used <=> gastrSockets[t].used
  <2>1. \/ gastrSockets'[t] = gastrSockets[t]
        \/ gastrSockets'[t] = [gastrSockets[t] EXCEPT !.pending = TRUE]
    BY <1>1
  <2>2. /\ [gastrSockets[t] EXCEPT !.pending = TRUE].session = gastrSockets[t].session
        /\ [gastrSockets[t] EXCEPT !.pending = TRUE].used = gastrSockets[t].used
    BY DEF SocketRecords
  <2> QED BY <2>1, <2>2
<1>4. ASSUME NEW t \in Sockets
      PROVE  /\ chip'[t].session = chip[t].session
             /\ chip'[t].state = chip[t].state
  <2>1. chip'[t] = chip[t] \/ chip'[t] = [chip[t] EXCEPT !.want = TRUE]
    BY <1>2
  <2>2. /\ [chip[t] EXCEPT !.want = TRUE].session = chip[t].session
        /\ [chip[t] EXCEPT !.want = TRUE].state = chip[t].state
    BY DEF ChipRecords
  <2> QED BY <2>1, <2>2
<1> QED BY <1>3, <1>4

\* A step of the chip: one reply more, of a session it has.
Replied(s, r) ==
    /\ replies' = Append(replies, r)
    /\ r.sock = s /\ r.session = chip[s].session
    /\ r.kind = "recv" => chip[s].want
    /\ chip[s].state # "free"
    /\ \A t \in Sockets : /\ chip'[t].session = chip[t].session
                          /\ chip'[t].want => chip[t].want
                          /\ chip'[t].state = "free" <=> chip[t].state = "free"
    /\ UNCHANGED <<host, pc, history, failures>>

LEMMA ChipReply ==
    ASSUME IInv, Chip
    PROVE  \E s \in Sockets, r \in Replies : Replied(s, r)
<1> USE DEF IInv, TypeOK
<1>1. \A s \in Sockets : chip[s].state # "free" => chip[s].session \in Sessions
  BY DEF Numbers, ChipRecords, Sessions
<1>2. ASSUME NEW s \in Sockets, NEW ok \in BOOLEAN,
             chip[s].state = "connecting",
             replies' = Append(replies, ConnectReply(s, ok)),
             chip' = [chip EXCEPT ![s].state = IF ok THEN "up" ELSE "refused"],
             UNCHANGED <<host, pc, failures, history>>
      PROVE  \E r \in Replies : Replied(s, r)
  <2>1. ConnectReply(s, ok) \in Replies
    BY <1>1, <1>2 DEF ConnectReply, Replies
  <2>2. ConnectReply(s, ok).sock = s /\ ConnectReply(s, ok).session = chip[s].session
        /\ ConnectReply(s, ok).kind = "connect"
    BY DEF ConnectReply
  <2>3. \A t \in Sockets : /\ chip'[t].session = chip[t].session
                           /\ chip'[t].want => chip[t].want
                           /\ chip'[t].state = "free" <=> chip[t].state = "free"
    BY <1>2 DEF ChipRecords
  <2> QED BY <1>2, <2>1, <2>2, <2>3 DEF Replied
<1>3. ASSUME NEW s \in Sockets, NEW n \in 1..MaxReply,
             chip[s].state = "up", chip[s].want, chip[s].sent + n <= MaxSent,
             replies' = Append(replies,
                 RecvReply(s, [i \in 1..n |-> <<chip[s].session, chip[s].sent + i>>])),
             chip' = [chip EXCEPT ![s].want = FALSE, ![s].sent = @ + n],
             UNCHANGED <<host, pc, failures, history>>
      PROVE  \E r \in Replies : Replied(s, r)
  <2> DEFINE bytes == [i \in 1..n |-> <<chip[s].session, chip[s].sent + i>>]
  <2>1. chip[s].session \in Sessions /\ chip[s].sent \in Nat /\ n \in Nat
    BY SMTT(30), <1>1, <1>3, WifiAssumption DEF ChipRecords
  <2>2. bytes \in Seq(Bytes)
    BY <1>3, <2>1, ReplyBytes
  <2> HIDE DEF bytes
  <2>3. RecvReply(s, bytes) \in Replies
    BY <2>1, <2>2 DEF RecvReply, Replies
  <2>4. RecvReply(s, bytes).sock = s /\ RecvReply(s, bytes).session = chip[s].session
    BY DEF RecvReply
  <2>5. \A t \in Sockets : /\ chip'[t].session = chip[t].session
                           /\ chip'[t].want => chip[t].want
                           /\ chip'[t].state = "free" <=> chip[t].state = "free"
    BY <1>3 DEF ChipRecords
  <2>6. replies' = Append(replies, RecvReply(s, bytes))
    BY <1>3 DEF bytes
  <2> QED BY <1>3, <2>3, <2>4, <2>5, <2>6 DEF Replied
<1>4. ASSUME NEW s \in Sockets, ChipEnds(s)
      PROVE  \E r \in Replies : Replied(s, r)
  <2>1. RecvReply(s, <<>>) \in Replies
    BY <1>1, <1>4 DEF ChipEnds, RecvReply, Replies
  <2>2. RecvReply(s, <<>>).sock = s /\ RecvReply(s, <<>>).session = chip[s].session
    BY DEF RecvReply
  <2>3. \A t \in Sockets : /\ chip'[t].session = chip[t].session
                           /\ chip'[t].want => chip[t].want
                           /\ chip'[t].state = "free" <=> chip[t].state = "free"
    BY <1>4 DEF ChipEnds, ChipRecords
  <2> QED BY <1>4, <2>1, <2>2, <2>3 DEF ChipEnds, Replied
<1> QED BY <1>2, <1>3, <1>4 DEF Chip, ChipConnects, ChipReceives

LEMMA NumbersStep ==
    ASSUME IInv, [Next]_vars
    PROVE  Numbers'
<1> USE DEF IInv, TypeOK
<1>0. sessionID \in Nat
  BY WifiAssumption
<1>1. CASE Chip
  <2>1. PICK s \in Sockets, r \in Replies : Replied(s, r)
    BY <1>1, ChipReply
  <2>2. sessionID' = sessionID /\ gastrSockets' = gastrSockets
    BY <2>1 DEF Replied, host
  <2>3. replies' \in Seq(Replies) /\ Len(replies') = Len(replies) + 1
        /\ replies'[Len(replies) + 1] = r
        /\ \A i \in 1..Len(replies) : replies'[i] = replies[i]
    BY <2>1, AppendProperties DEF Replied
  <2>4. r.session <= sessionID
    BY <2>1 DEF Replied, Numbers
  <2>5. ASSUME NEW i \in 1..Len(replies') PROVE replies'[i].session <= sessionID
    <3>1. Len(replies) \in Nat
      OBVIOUS
    <3>2. i = Len(replies) + 1 \/ i \in 1..Len(replies)
      BY <2>3, <3>1
    <3>3. CASE i = Len(replies) + 1
      BY <2>3, <2>4, <3>3
    <3>4. CASE i \in 1..Len(replies)
      BY <2>3, <3>4 DEF Numbers
    <3> QED BY <3>2, <3>3, <3>4
  <2> QED BY <2>1, <2>2, <2>5 DEF Replied, Numbers
<1>2. CASE HandleReply
  <2> DEFINE m == Head(replies)
  <2>1. UNCHANGED <<sessionID, chip>> /\ replies # <<>> /\ replies' = Tail(replies)
    BY <1>2 DEF HandleReply
  <2>2. m \in Replies /\ Len(replies') = Len(replies) - 1
        /\ \A i \in 1..Len(replies') : replies'[i] = replies[i + 1]
    BY <2>1, HeadTailProperties
  <2>3. ASSUME NEW i \in 1..Len(replies') PROVE replies'[i].session <= sessionID
    <3>1. i + 1 \in 1..Len(replies) /\ replies'[i] = replies[i + 1]
      BY <2>2
    <3> QED BY <3>1 DEF Numbers
  <2>4. gastrSockets' = gastrSockets \/ gastrSockets' = [gastrSockets EXCEPT ![m.sock].pending = FALSE]
    BY <1>2 DEF HandleReply, HandleConnect, HandleRecv, Answered
  <2>5. ASSUME NEW t \in Sockets
        PROVE  /\ gastrSockets'[t].session = gastrSockets[t].session
               /\ gastrSockets'[t].used <=> gastrSockets[t].used
    <3>1. \/ gastrSockets'[t] = gastrSockets[t]
          \/ gastrSockets'[t] = [gastrSockets[t] EXCEPT !.pending = FALSE]
      BY <2>4
    <3>2. /\ [gastrSockets[t] EXCEPT !.pending = FALSE].session = gastrSockets[t].session
          /\ [gastrSockets[t] EXCEPT !.pending = FALSE].used = gastrSockets[t].used
      BY DEF SocketRecords
    <3> QED BY <3>1, <3>2
  <2> QED BY <2>1, <2>3, <2>5 DEF Numbers
<1>3. ASSUME NEW s \in Sockets, Close(s), UNCHANGED <<sessionID, replies>> PROVE Numbers'
  BY <1>3, CloseNumbers
<1>4. CASE HandleClose
  BY <1>3, <1>4 DEF HandleClose
<1>5. CASE UNCHANGED <<gastrSockets, chip, sessionID, replies>>
  BY <1>5 DEF Numbers
<1>6. CASE BeginPoll \/ EndPoll \/ (\E c \in Clients : Start(c)) \/ UNCHANGED vars
  <2>1. UNCHANGED <<host, theChip>>
    BY <1>6 DEF BeginPoll, EndPoll, Start, BeginConnect, BeginRead, BeginPeek, BeginStop,
                Begin, vars
  <2> QED BY <1>5, <2>1 DEF host, theChip
<1>7. ASSUME NEW c \in Clients, Continue(c) PROVE Numbers'
  <2>0. pc.op \in WithSocket /\ pc.client = c => handle[c] \in Sockets
    BY DEF Calls
  <2>1. CASE CheckConnected(c) \/ CreateFails(c) \/ ConnectFails(c)
    BY <1>5, <2>1 DEF CheckConnected, CreateFails, ConnectFails, host, theChip
  <2>2. CASE ReadNothing(c) \/ ReadSome(c) \/ Peek(c) \/ Copy(c)
    BY <1>5, <2>2 DEF ReadNothing, ReadSome, Peek, Copy, host, theChip
  <2>3. CASE StopFirst(c) \/ Stop(c)
    BY <1>3, <2>0, <2>3 DEF StopFirst, Stop, Handled, WithSocket
  <2>4. CASE Connected(c)
    BY <2>0, <2>4, RequestNumbers DEF Connected, Handled, WithSocket
  <2>5. CASE ReadEnds(c)
    <3>1. CASE Available(handle[c]) = 0
      BY <2>0, <2>5, <3>1, RequestNumbers DEF ReadEnds, WithSocket
    <3>2. CASE Available(handle[c]) # 0
      BY <1>5, <2>5, <3>2 DEF ReadEnds
    <3> QED BY <3>1, <3>2
  <2>6. CASE Create(c)
    <3> DEFINE New == [used |-> TRUE, session |-> sessionID + 1, pending |-> FALSE]
               Chosen == [session |-> sessionID + 1, state |-> "connecting",
                          want |-> FALSE, sent |-> 0]
    <3>1. PICK s \in Sockets :
            /\ sessionID' = sessionID + 1
            /\ gastrSockets' = [gastrSockets EXCEPT ![s] = New]
            /\ chip' = chip \/ chip' = [chip EXCEPT ![s] = Chosen]
            /\ UNCHANGED replies
      BY <2>6 DEF Create
    <3>2. ASSUME NEW t \in Sockets
          PROVE  /\ gastrSockets'[t].session <= sessionID + 1
                 /\ gastrSockets'[t].used <=> gastrSockets'[t].session # 0
      <4>1. gastrSockets'[t] = gastrSockets[t] \/ gastrSockets'[t] = New
        BY <3>1
      <4>2. gastrSockets[t].session \in Nat
        BY WifiAssumption DEF SocketRecords
      <4> QED BY <1>0, <4>1, <4>2 DEF Numbers
    <3>3. ASSUME NEW t \in Sockets
          PROVE  /\ chip'[t].session <= sessionID + 1
                 /\ chip'[t].state # "free" => chip'[t].session # 0
      <4>1. chip'[t] = chip[t] \/ chip'[t] = Chosen
        BY <3>1
      <4>2. chip[t].session \in Nat
        BY WifiAssumption DEF ChipRecords
      <4> QED BY <1>0, <4>1, <4>2 DEF Numbers
    <3>4. \A i \in 1..Len(replies) : replies[i].session <= sessionID + 1
      <4>1. \A i \in 1..Len(replies) : replies[i] \in Replies
        OBVIOUS
      <4>2. \A i \in 1..Len(replies) : replies[i].session \in Int
        BY <4>1 DEF Replies, Sessions
      <4> QED BY <1>0, <4>2 DEF Numbers
    <3> QED BY <3>1, <3>2, <3>3, <3>4 DEF Numbers
  <2> QED BY <1>7, <2>1, <2>2, <2>3, <2>4, <2>5, <2>6 DEF Continue
<1> QED BY <1>1, <1>2, <1>4, <1>6, <1>7 DEF Next, Call

-----------------------------------------------------------------------------
(* The calls *)
LEMMA CallsStep ==
    ASSUME IInv, [Next]_vars
    PROVE  Calls'
<1> USE DEF IInv, TypeOK, Calls, InLoop, WithSocket
<1>1. CASE Chip
  <2>1. UNCHANGED <<pc, closing, handle>>
    BY <1>1, ChipReply DEF Replied, host
  <2> QED BY <2>1
<1>2. CASE HandleReply \/ HandleClose
  BY <1>2 DEF HandleReply, HandleClose
<1>3. ASSUME NEW op \in {"connect", "create", "stop", "read", "peek", "poll"},
             NEW c \in Clients \union {NoClient}, Begin(op, c),
             op \in WithSocket => c \in Clients /\ handle[c] \in Sockets
      PROVE  Calls'
  <2>1. pc.op = "idle" /\ pc'.op = op /\ pc'.client = c /\ UNCHANGED <<closing, handle>>
    BY <1>3 DEF Begin, Idle, host
  <2> QED BY <1>3, <2>1
<1>4. CASE BeginPoll
  BY <1>3, <1>4 DEF BeginPoll
<1>5. ASSUME NEW c \in Clients, Start(c) PROVE Calls'
  <2>1. handle[c] = NoSocket \/ handle[c] \in Sockets
    OBVIOUS
  <2> QED BY <1>3, <1>5, <2>1 DEF Start, BeginConnect, BeginRead, BeginPeek, BeginStop
<1>6. CASE EndPoll
  BY <1>6 DEF EndPoll, Handled, Idle, host
<1>7. ASSUME NEW c \in Clients, Continue(c) PROVE Calls'
  <2>1. \A op \in {"reconnect", "create", "connecting", "stop", "reading"} :
           /\ [pc EXCEPT !.op = op].op = op /\ [pc EXCEPT !.op = op].client = pc.client
    BY DEF CallRecords
  <2>2. CASE CheckConnected(c)
    BY <2>1, <2>2 DEF CheckConnected, Handled, To, host
  <2>3. CASE StopFirst(c)
    BY <2>1, <2>3 DEF StopFirst, Handled, To
  <2>4. CASE CreateFails(c)
    BY <2>4 DEF CreateFails, Idle
  <2>5. CASE Create(c)
    <3>1. PICK s \in Sockets :
            /\ pc.op = "create" /\ pc.client = c
            /\ handle' = [handle EXCEPT ![c] = s]
            /\ To("connecting") \/ To("stop")
            /\ UNCHANGED closing
      BY <2>5 DEF Create
    <3> QED BY <2>1, <3>1 DEF To
  <2>6. CASE Connected(c)
    BY <2>6 DEF Connected, Handled, Idle
  <2>7. CASE ConnectFails(c)
    BY <2>1, <2>7 DEF ConnectFails, Handled, To
  <2>8. CASE Stop(c)
    BY <2>8 DEF Stop, Handled, Idle
  <2>9. CASE ReadNothing(c) \/ Peek(c)
    BY <2>9 DEF ReadNothing, Peek, Handled, Idle, host
  <2>10. CASE ReadSome(c)
    <3>1. PICK n \in 1..MaxRead : pc' = [pc EXCEPT !.op = "reading", !.size = n]
      BY <2>10 DEF ReadSome
    <3>2. pc'.op = "reading" /\ pc'.client = pc.client
      BY <3>1 DEF CallRecords
    <3> QED BY <2>10, <3>2 DEF ReadSome, Handled, host
  <2>11. CASE Copy(c)
    <3>1. pc'.op = pc.op /\ pc'.client = pc.client /\ UNCHANGED <<closing, handle>>
      BY <2>11 DEF Copy, CallRecords
    <3> QED BY <3>1
  <2>12. CASE ReadEnds(c)
    <3>1. pc'.op \in {"idle", "poll"} /\ UNCHANGED <<closing, handle>>
      BY <2>12 DEF ReadEnds, Idle
    <3> QED BY <2>12, <3>1 DEF ReadEnds
  <2> QED BY <1>7, <2>2, <2>3, <2>4, <2>5, <2>6, <2>7, <2>8, <2>9, <2>10, <2>11, <2>12
         DEF Continue
<1>8. CASE UNCHANGED vars
  BY <1>8 DEF vars, host
<1> QED BY <1>1, <1>2, <1>4, <1>5, <1>6, <1>7, <1>8 DEF Next, Call

-----------------------------------------------------------------------------
(* The interface is blocked by one open connection, or not at all *)
LEMMA WedgeKept ==
    ASSUME IInv, UNCHANGED blocked,
           \A t \in Sockets :
               /\ info'[t].rest # <<>> <=> Holds(t)
               /\ Holds(t) => gastrSockets'[t].used /\ info'[t].state = "connected"
    PROVE  NoWedge'
<1>1. \A t \in Sockets : Holds(t)' <=> Holds(t)
  BY DEF Holds
<1> QED BY <1>1 DEF IInv, NoWedge

LEMMA WedgeAt ==
    ASSUME IInv, NEW s \in Sockets,
           \A t \in Sockets : t # s => ~Holds(t) /\ info'[t] = info[t],
           blocked' <=> info'[s].rest # <<>>,
           info'[s].rest # <<>> => gastrSockets'[s].used /\ info'[s].state = "connected"
    PROVE  NoWedge'
<1>1. \A t \in Sockets : Holds(t)' <=> t = s /\ info'[s].rest # <<>>
  BY DEF Holds
<1> QED BY <1>1 DEF NoWedge

LEMMA CloseWedge ==
    ASSUME IInv, NEW s \in Sockets, Close(s)
    PROVE  NoWedge'
<1> USE DEF IInv, TypeOK
<1>1. info' = [info EXCEPT ![s] = Invalid] /\ info'[s].rest = <<>>
  BY DEF Close, Invalid
<1>2. \A t \in Sockets : t # s => info'[t] = info[t] /\ gastrSockets'[t] = gastrSockets[t]
  BY <1>1 DEF Close
<1>3. CASE Holds(s)
  <2>1. ~blocked'
    BY <1>3 DEF Close, Flushes, Holds, NoWedge
  <2>2. \A t \in Sockets : t # s => ~Holds(t)
    BY <1>3 DEF NoWedge
  <2> QED BY <1>1, <1>2, <2>1, <2>2, WedgeAt
<1>4. CASE ~Holds(s)
  <2>1. UNCHANGED blocked
    BY <1>4 DEF Close, Flushes, Holds
  <2>2. \A t \in Sockets :
            /\ info'[t].rest # <<>> <=> Holds(t)
            /\ Holds(t) => gastrSockets'[t].used /\ info'[t].state = "connected"
    BY <1>1, <1>2, <1>4 DEF NoWedge, Holds
  <2> QED BY <2>1, <2>2, WedgeKept
<1> QED BY <1>3, <1>4

LEMMA RequestKeeps ==
    ASSUME IInv, NEW s \in Sockets, Request(s)
    PROVE  \A t \in Sockets : gastrSockets'[t].used <=> gastrSockets[t].used
<1> USE DEF IInv, TypeOK
<1>1. \A t \in Sockets : \/ gastrSockets'[t] = gastrSockets[t]
                         \/ gastrSockets'[t] = [gastrSockets[t] EXCEPT !.pending = TRUE]
  BY DEF Request
<1>2. \A t \in Sockets :
          [gastrSockets[t] EXCEPT !.pending = TRUE].used = gastrSockets[t].used
  BY DEF SocketRecords
<1> QED BY <1>1, <1>2

LEMMA HandleWedge ==
    ASSUME IInv, HandleReply
    PROVE  NoWedge'
<1> USE DEF IInv, TypeOK
<1> DEFINE m == Head(replies)
<1>1. m \in Replies /\ (HandleConnect(m) \/ HandleRecv(m))
  BY DEF HandleReply
<1>2. m.sock \in Sockets /\ m.bytes \in Seq(Bytes) /\ m.session # 0
  BY <1>1 DEF Replies, Sessions
<1>3. ~blocked /\ \A t \in Sockets : ~Holds(t)
  BY DEF HandleReply, NoWedge
<1>4. CASE HandleConnect(m)
  <2>1. \A t \in Sockets : info'[t].rest = info[t].rest
    BY <1>2, <1>4 DEF HandleConnect, InfoRecords
  <2>2. UNCHANGED blocked
    BY <1>4 DEF HandleConnect
  <2> QED BY <1>3, <2>1, <2>2, WedgeKept DEF Holds
<1>5. CASE HandleRecv(m)
  <2> DEFINE take == Current(m) /\ m.bytes # <<>> /\ info[m.sock].state = "connected"
  <2>1. CASE take
    <3>1. info' = [info EXCEPT ![m.sock] = Filled(info[m.sock], m.bytes)]
      BY <1>5, <2>1 DEF HandleRecv
    <3>2. blocked' <=> Len(m.bytes) > BufferSize
      BY <1>5, <2>1 DEF HandleRecv
    <3>3. /\ info'[m.sock].rest = <<>> <=> Len(m.bytes) <= BufferSize
          /\ info'[m.sock].state = "connected"
      BY <1>2, <2>1, <3>1, FilledProperties
    <3>4. Len(m.bytes) > BufferSize <=> ~(Len(m.bytes) <= BufferSize)
      BY <1>2, WifiAssumption
    <3>5. gastrSockets[m.sock].used
      BY <1>2, <2>1 DEF Current, Numbers
    <3>6. gastrSockets'[m.sock].used
      <4>1. gastrSockets'[m.sock] = [gastrSockets[m.sock] EXCEPT !.pending = FALSE]
        BY <1>2, <1>5 DEF HandleRecv, Answered
      <4> QED BY <1>2, <3>5, <4>1 DEF SocketRecords
    <3>7. \A t \in Sockets : t # m.sock => info'[t] = info[t]
      BY <3>1
    <3>8. blocked' <=> info'[m.sock].rest # <<>>
      BY <3>2, <3>3, <3>4
    <3> QED BY <1>2, <1>3, <3>3, <3>6, <3>7, <3>8, WedgeAt
  <2>2. CASE ~take
    <3>1. info' = info /\ ~blocked'
      BY <1>5, <2>2 DEF HandleRecv
    <3> QED BY <1>3, <3>1 DEF NoWedge, Holds
  <2> QED BY <2>1, <2>2
<1> QED BY <1>1, <1>4, <1>5

\* peek and read: the rest of the chip's data is fetched, or not.
LEMMA FetchWedge ==
    ASSUME IInv, NEW s \in Sockets, NEW i,
           i = IF ToFill(s) THEN Filled(info[s], info[s].rest) ELSE info[s],
           info' \in [Sockets -> InfoRecords],
           info'[s].rest = i.rest, info'[s].state = i.state,
           \A t \in Sockets : t # s => info'[t] = info[t],
           blocked' = (blocked /\ ~(info[s].rest # <<>> /\ i.rest = <<>>)),
           UNCHANGED gastrSockets
    PROVE  NoWedge'
<1> USE DEF IInv, TypeOK
<1>1. CASE ToFill(s)
  <2>1. Holds(s) /\ gastrSockets[s].used /\ info[s].state = "connected"
    BY <1>1 DEF ToFill, Holds, NoWedge
  <2>2. blocked /\ \A t \in Sockets : t # s => ~Holds(t)
    BY <2>1 DEF NoWedge
  <2>3. info[s] \in InfoRecords /\ info[s].rest \in Seq(Bytes)
    BY DEF InfoRecords
  <2>4. i.state = "connected"
    BY <1>1, <2>1, <2>3, FilledProperties
  <2>5. blocked' <=> info'[s].rest # <<>>
    BY <2>1, <2>2 DEF Holds
  <2> QED BY <2>1, <2>2, <2>4, <2>5, WedgeAt
<1>2. CASE ~ToFill(s)
  <2>1. i = info[s]
    BY <1>2
  <2>2. UNCHANGED blocked
    BY <2>1
  <2>3. \A t \in Sockets : info'[t].rest = info[t].rest /\ info'[t].state = info[t].state
    BY <2>1
  <2>4. ASSUME NEW t \in Sockets
        PROVE  /\ info[t].rest # <<>> <=> Holds(t)
               /\ Holds(t) => gastrSockets[t].used /\ info[t].state = "connected"
    BY DEF Holds, NoWedge
  <2>5. ASSUME NEW t \in Sockets
        PROVE  /\ info'[t].rest # <<>> <=> Holds(t)
               /\ Holds(t) => gastrSockets'[t].used /\ info'[t].state = "connected"
    BY <2>3, <2>4
  <2> QED BY <2>2, <2>5, WedgeKept
<1> QED BY <1>1, <1>2

LEMMA ConnectWedge ==
    ASSUME IInv, NEW c \in Clients,
           Create(c) \/ Connected(c) \/ ConnectFails(c) \/ ReadEnds(c)
    PROVE  NoWedge'
<1> USE DEF IInv, TypeOK
<1>1. pc.op \in WithSocket /\ pc.client = c => handle[c] \in Sockets
  BY DEF Calls
<1>2. CASE Create(c)
  <2>1. PICK s \in Sockets :
          /\ Allocated(s) /\ UNCHANGED blocked
          /\ \E r : gastrSockets' = [gastrSockets EXCEPT ![s] = r]
          /\ \/ info' = [info EXCEPT ![s].state = "connecting"]
             \/ info' = [info EXCEPT ![s].state = "idle"]
    BY <1>2 DEF Create
  <2>2. ~gastrSockets[s].used /\ ~Holds(s)
    BY <2>1 DEF Allocated, FreeSockets, NoWedge
  <2>3. \A t \in Sockets : t # s => info'[t] = info[t] /\ gastrSockets'[t] = gastrSockets[t]
    BY <2>1
  <2>4. info'[s].rest = info[s].rest
    BY <2>1 DEF InfoRecords
  <2>5. \A t \in Sockets :
            /\ info'[t].rest # <<>> <=> Holds(t)
            /\ Holds(t) => gastrSockets'[t].used /\ info'[t].state = "connected"
    BY <2>2, <2>3, <2>4 DEF Holds, NoWedge
  <2> QED BY <2>1, <2>5, WedgeKept
<1>3. CASE Connected(c)
  <2>1. PICK s \in Sockets : s = handle[c]
    BY <1>1, <1>3 DEF Connected, Handled, WithSocket
  <2>2. ~Holds(s)
    BY <1>3, <2>1 DEF Connected, Handled, Fresh, Quiet
  <2>3. info' = [info EXCEPT ![s].rest = <<>>] /\ UNCHANGED blocked
    BY <1>3, <2>1 DEF Connected
  <2>4. info'[s].rest = <<>> /\ \A t \in Sockets : t # s => info'[t] = info[t]
    BY <2>3 DEF InfoRecords
  <2>5. \A t \in Sockets : gastrSockets'[t].used <=> gastrSockets[t].used
    BY <1>3, <2>1, RequestKeeps DEF Connected
  <2>6. \A t \in Sockets :
            /\ info'[t].rest # <<>> <=> Holds(t)
            /\ Holds(t) => gastrSockets'[t].used /\ info'[t].state = "connected"
    BY <2>2, <2>4, <2>5 DEF Holds, NoWedge
  <2> QED BY <2>3, <2>6, WedgeKept
<1>4. CASE ConnectFails(c)
  <2>1. PICK s \in Sockets : s = handle[c]
    BY <1>1, <1>4 DEF ConnectFails, Handled, WithSocket
  <2>2. ~Holds(s)
    BY <1>4, <2>1 DEF ConnectFails, NoWedge
  <2>3. info' = [info EXCEPT ![s].state = "idle"] /\ UNCHANGED <<blocked, gastrSockets>>
    BY <1>4, <2>1 DEF ConnectFails
  <2>4. info'[s].rest = info[s].rest /\ \A t \in Sockets : t # s => info'[t] = info[t]
    BY <2>3 DEF InfoRecords
  <2>5. \A t \in Sockets :
            /\ info'[t].rest # <<>> <=> Holds(t)
            /\ Holds(t) => gastrSockets'[t].used /\ info'[t].state = "connected"
    BY <2>2, <2>3, <2>4 DEF Holds, NoWedge
  <2> QED BY <2>3, <2>5, WedgeKept
<1>5. CASE ReadEnds(c)
  <2>1. handle[c] \in Sockets
    BY <1>1, <1>5 DEF ReadEnds, WithSocket
  <2>2. \A t \in Sockets : gastrSockets'[t].used <=> gastrSockets[t].used
    BY <1>5, <2>1, RequestKeeps DEF ReadEnds
  <2>3. UNCHANGED <<info, blocked>>
    BY <1>5 DEF ReadEnds
  <2> QED BY <2>2, <2>3, WedgeKept DEF Holds, NoWedge
<1> QED BY <1>2, <1>3, <1>4, <1>5

LEMMA WedgeStep ==
    ASSUME IInv, [Next]_vars, TypeOK'
    PROVE  NoWedge'
<1> USE DEF IInv, TypeOK
<1>0. CASE UNCHANGED host
  BY <1>0 DEF host, NoWedge, Holds
<1>1. CASE Chip
  BY <1>0, <1>1, ChipReply DEF Replied
<1>2. CASE HandleClose
  <2>1. Head(closing) \in Sockets
    BY <1>2 DEF HandleClose
  <2> QED BY <1>2, <2>1, CloseWedge DEF HandleClose
<1>3. CASE BeginPoll \/ EndPoll \/ (\E c \in Clients : Start(c)) \/ UNCHANGED vars
  BY <1>0, <1>3 DEF BeginPoll, EndPoll, Start, BeginConnect, BeginRead, BeginPeek,
                    BeginStop, Begin, vars
<1>4. ASSUME NEW c \in Clients, Continue(c) PROVE NoWedge'
  <2>0. pc.op \in WithSocket /\ pc.client = c => handle[c] \in Sockets
    BY DEF Calls
  <2>1. CASE CheckConnected(c) \/ ReadNothing(c) \/ ReadSome(c)
    BY <1>0, <2>1 DEF CheckConnected, ReadNothing, ReadSome
  <2>2. CASE StopFirst(c) \/ Stop(c)
    BY <2>0, <2>2, CloseWedge DEF StopFirst, Stop, Handled, WithSocket
  <2>3. CASE CreateFails(c)
    BY <2>3 DEF CreateFails, NoWedge, Holds
  <2>4. CASE Create(c) \/ Connected(c) \/ ConnectFails(c) \/ ReadEnds(c)
    BY <2>4, ConnectWedge
  <2>5. CASE Peek(c)
    <3>1. PICK s \in Sockets : s = handle[c]
      BY <2>0, <2>5 DEF Peek, Handled, WithSocket
    <3> DEFINE i == IF ToFill(s) THEN Filled(info[s], info[s].rest) ELSE info[s]
    <3>2. info' = [info EXCEPT ![s] = i] /\ UNCHANGED gastrSockets
          /\ blocked' = (blocked /\ ~(info[s].rest # <<>> /\ i.rest = <<>>))
      BY <2>5, <3>1 DEF Peek
    <3>3. info'[s] = i /\ \A t \in Sockets : t # s => info'[t] = info[t]
      BY <3>2
    <3> HIDE DEF i
    <3>4. i = IF ToFill(s) THEN Filled(info[s], info[s].rest) ELSE info[s]
      BY DEF i
    <3> QED BY <3>2, <3>3, <3>4, FetchWedge
  <2>6. CASE Copy(c)
    <3>1. PICK s \in Sockets : s = handle[c]
      BY <2>0, <2>6 DEF Copy, WithSocket
    <3> DEFINE i == IF ToFill(s) THEN Filled(info[s], info[s].rest) ELSE info[s]
               n == IF pc.size > Len(i.buffer) THEN Len(i.buffer) ELSE pc.size
               rest == SubSeq(i.buffer, n + 1, Len(i.buffer))
    <3>2. /\ info' = [info EXCEPT ![s] = [i EXCEPT !.buffer = rest]]
          /\ UNCHANGED gastrSockets
          /\ blocked' = (blocked /\ ~(info[s].rest # <<>> /\ i.rest = <<>>))
      BY <2>6, <3>1 DEF Copy
    <3>3. i \in InfoRecords
      <4>1. info[s] \in InfoRecords /\ info[s].rest \in Seq(Bytes)
        BY DEF InfoRecords
      <4> QED BY <4>1, FilledProperties
    <3>4. i = IF ToFill(s) THEN Filled(info[s], info[s].rest) ELSE info[s]
      OBVIOUS
    <3> HIDE DEF i, rest
    <3>5. /\ info'[s] = [i EXCEPT !.buffer = rest]
          /\ \A t \in Sockets : t # s => info'[t] = info[t]
      BY <3>2
    <3>6. info'[s].rest = i.rest /\ info'[s].state = i.state
      BY <3>3, <3>5 DEF InfoRecords
    <3>7. info' \in [Sockets -> InfoRecords]
      OBVIOUS
    <3> HIDE DEF TypeOK, IInv
    <3> QED BY <3>2, <3>4, <3>5, <3>6, <3>7, FetchWedge
  <2> QED BY <1>4, <2>1, <2>2, <2>3, <2>4, <2>5, <2>6 DEF Continue
<1> QED BY <1>1, <1>2, <1>3, <1>4, HandleWedge DEF Next, Call

-----------------------------------------------------------------------------
(* Nothing reaches a socket whose connect is still waiting *)
LEMMA FreshChip ==
    ASSUME IInv, Chip
    PROVE  Fresh'
<1> USE DEF IInv, TypeOK
<1>1. PICK u \in Sockets, r \in Replies : Replied(u, r)
  BY ChipReply
<1>2. UNCHANGED <<gastrSockets, info, closing, handle, pc>>
  BY <1>1 DEF Replied, host
<1>3. SUFFICES ASSUME pc.op = "connecting" PROVE Quiet(handle[pc.client])'
  BY <1>2 DEF Fresh
<1>4. PICK s \in Sockets : s = handle[pc.client]
  BY <1>3 DEF Calls, WithSocket
<1>5. Quiet(s)
  BY <1>3, <1>4 DEF Fresh
<1>6. Len(replies') = Len(replies) + 1 /\ replies'[Len(replies) + 1] = r
      /\ \A i \in 1..Len(replies) : replies'[i] = replies[i]
  BY <1>1, AppendProperties DEF Replied
<1>7. ASSUME NEW i \in 1..Len(replies'), replies'[i].sock = s, replies'[i].kind = "recv"
      PROVE  replies'[i].session # gastrSockets[s].session
  <2>1. Len(replies) \in Nat
    OBVIOUS
  <2>2. i = Len(replies) + 1 \/ i \in 1..Len(replies)
    BY <1>6, <2>1
  <2>3. CASE i = Len(replies) + 1
    BY <1>1, <1>5, <1>6, <1>7, <2>3 DEF Replied, Quiet
  <2>4. CASE i \in 1..Len(replies)
    BY <1>5, <1>6, <1>7, <2>4 DEF Quiet
  <2> QED BY <2>2, <2>3, <2>4
<1>8. InStep(s)' /\ ~chip'[s].want /\ ~Holds(s)'
  BY <1>1, <1>2, <1>5 DEF Replied, Quiet, InStep, Holds
<1>9. Quiet(s)'
  BY <1>2, <1>5, <1>7, <1>8 DEF Quiet
<1> QED BY <1>2, <1>4, <1>9

LEMMA FreshReply ==
    ASSUME IInv, HandleReply
    PROVE  Fresh'
<1> USE DEF IInv, TypeOK
<1> DEFINE m == Head(replies)
<1>1. m \in Replies /\ replies # <<>> /\ replies' = Tail(replies)
      /\ UNCHANGED <<handle, pc, chip>>
  BY DEF HandleReply
<1>2. SUFFICES ASSUME pc.op = "connecting" PROVE Quiet(handle[pc.client])'
  BY <1>1 DEF Fresh
<1>3. PICK s \in Sockets : s = handle[pc.client]
  BY <1>2 DEF Calls, WithSocket
<1>4. Quiet(s)
  BY <1>2, <1>3 DEF Fresh
<1>5. m = replies[1] /\ 1 \in 1..Len(replies) /\ Len(replies') = Len(replies) - 1
      /\ \A i \in 1..Len(replies') : replies'[i] = replies[i + 1]
  BY <1>1, HeadTailProperties
<1>6. ASSUME NEW i \in 1..Len(replies'), replies'[i].sock = s, replies'[i].kind = "recv"
      PROVE  replies'[i].session # gastrSockets[s].session
  <2>1. i + 1 \in 1..Len(replies) /\ replies'[i] = replies[i + 1]
    BY <1>5
  <2> QED BY <1>4, <1>6, <2>1 DEF Quiet
<1>7. /\ gastrSockets'[s].session = gastrSockets[s].session
      /\ gastrSockets'[s].used <=> gastrSockets[s].used
  <2>1. \/ gastrSockets'[s] = gastrSockets[s]
        \/ gastrSockets'[s] = [gastrSockets[s] EXCEPT !.pending = FALSE]
    <3>1. \/ gastrSockets' = gastrSockets
          \/ gastrSockets' = [gastrSockets EXCEPT ![m.sock].pending = FALSE]
      BY DEF HandleReply, HandleConnect, HandleRecv, Answered
    <3> QED BY <3>1
  <2>2. /\ [gastrSockets[s] EXCEPT !.pending = FALSE].session = gastrSockets[s].session
        /\ [gastrSockets[s] EXCEPT !.pending = FALSE].used = gastrSockets[s].used
    BY DEF SocketRecords
  <2> QED BY <2>1, <2>2
<1>8. ~Holds(s)' /\ \A i \in 1..Len(closing') : closing'[i] # s
  <2>0. m.sock \in Sockets /\ m.bytes \in Seq(Bytes)
    BY <1>1 DEF Replies
  <2>1. CASE m.kind = "connect"
    <3>1. HandleConnect(m)
      BY <2>1 DEF HandleReply
    <3>2. info'[s].rest = info[s].rest /\ closing' = closing
      BY <2>0, <3>1 DEF HandleConnect, InfoRecords
    <3> QED BY <1>4, <3>2 DEF Quiet, Holds
  <2>2. CASE m.kind # "connect"
    <3>1. HandleRecv(m) /\ m.kind = "recv"
      BY <1>1, <2>2 DEF HandleReply, Replies
    <3>2. m.sock = s => ~Current(m)
      BY <1>4, <1>5, <3>1 DEF Quiet, Current
    <3>3. info'[s] = info[s]
      BY <2>0, <3>1, <3>2 DEF HandleRecv
    <3>4. closing' = closing \/ (m.sock # s /\ closing' = <<m.sock>> \o closing)
      BY <3>1, <3>2 DEF HandleRecv
    <3>5. \A i \in 1..Len(closing') : closing'[i] # s
      <4>1. CASE closing' = closing
        BY <1>4, <4>1 DEF Quiet
      <4>2. CASE m.sock # s /\ closing' = <<m.sock>> \o closing
        <5>1. <<m.sock>> \in Seq(Sockets) /\ Len(<<m.sock>>) = 1 /\ <<m.sock>>[1] = m.sock
          BY <2>0
        <5>2. /\ Len(closing') = 1 + Len(closing)
              /\ \A i \in 1..Len(closing') :
                     closing'[i] = IF i <= 1 THEN <<m.sock>>[i] ELSE closing[i - 1]
          BY <4>2, <5>1, ConcatProperties
        <5>3. ASSUME NEW i \in 1..Len(closing') PROVE closing'[i] # s
          <6>1. CASE i = 1
            BY <4>2, <5>1, <5>2, <6>1
          <6>2. CASE i # 1
            <7>1. Len(closing) \in Nat /\ i \in Nat /\ i >= 1
              OBVIOUS
            <7>2. i - 1 \in 1..Len(closing) /\ ~(i <= 1)
              BY <5>2, <6>2, <7>1
            <7> QED BY <1>4, <5>2, <7>2 DEF Quiet
          <6> QED BY <6>1, <6>2
        <5> QED BY <5>3
      <4> QED BY <3>4, <4>1, <4>2
    <3> QED BY <1>4, <3>3, <3>5 DEF Quiet, Holds
  <2> QED BY <2>1, <2>2
<1>9. Quiet(s)'
  BY <1>1, <1>4, <1>6, <1>7, <1>8 DEF Quiet, InStep
<1> QED BY <1>1, <1>3, <1>9

LEMMA FreshClose ==
    ASSUME IInv, HandleClose
    PROVE  Fresh'
<1> USE DEF IInv, TypeOK
<1> DEFINE u == Head(closing)
<1>1. /\ closing # <<>> /\ closing' = Tail(closing) /\ Close(u)
      /\ UNCHANGED <<handle, pc, replies>>
  BY DEF HandleClose
<1>2. SUFFICES ASSUME pc.op = "connecting" PROVE Quiet(handle[pc.client])'
  BY <1>1 DEF Fresh
<1>3. PICK s \in Sockets : s = handle[pc.client]
  BY <1>2 DEF Calls, WithSocket
<1>4. Quiet(s)
  BY <1>2, <1>3 DEF Fresh
<1>5. u = closing[1] /\ 1 \in 1..Len(closing) /\ Len(closing') = Len(closing) - 1
      /\ \A i \in 1..Len(closing') : closing'[i] = closing[i + 1]
  BY <1>1, HeadTailProperties
<1>6. u # s
  BY <1>4, <1>5 DEF Quiet
<1>7. ASSUME NEW i \in 1..Len(closing') PROVE closing'[i] # s
  <2>1. i + 1 \in 1..Len(closing) /\ closing'[i] = closing[i + 1]
    BY <1>5
  <2> QED BY <1>4, <2>1 DEF Quiet
<1>8. gastrSockets'[s] = gastrSockets[s] /\ info'[s] = info[s] /\ chip'[s] = chip[s]
  BY <1>1, <1>6 DEF Close
<1>9. Quiet(s)'
  BY <1>1, <1>4, <1>7, <1>8 DEF Quiet, InStep, Holds
<1> QED BY <1>1, <1>3, <1>9

LEMMA FreshCreate ==
    ASSUME IInv, NEW c \in Clients, Create(c)
    PROVE  Fresh'
<1> USE DEF IInv, TypeOK
<1> DEFINE New == [used |-> TRUE, session |-> sessionID + 1, pending |-> FALSE]
           Chosen == [session |-> sessionID + 1, state |-> "connecting",
                      want |-> FALSE, sent |-> 0]
<1>1. PICK s \in Sockets :
        /\ pc.op = "create" /\ pc.client = c
        /\ Allocated(s)
        /\ gastrSockets' = [gastrSockets EXCEPT ![s] = New]
        /\ handle' = [handle EXCEPT ![c] = s]
        /\ \/ /\ To("connecting")
              /\ info' = [info EXCEPT ![s].state = "connecting"]
              /\ chip' = [chip EXCEPT ![s] = Chosen]
           \/ To("stop")
        /\ UNCHANGED <<closing, replies>>
  BY DEF Create
<1>2. SUFFICES ASSUME pc'.op = "connecting" PROVE Fresh'
  BY DEF Fresh
<1>3. /\ To("connecting")
      /\ info' = [info EXCEPT ![s].state = "connecting"]
      /\ chip' = [chip EXCEPT ![s] = Chosen]
  BY <1>1, <1>2 DEF To, CallRecords
<1>4. handle'[pc'.client] = s
  BY <1>1, <1>3 DEF To, CallRecords
<1>5. sessionID \in Nat
  BY WifiAssumption
<1>6. InStep(s)' /\ ~chip'[s].want /\ gastrSockets'[s].session = sessionID + 1
  BY <1>1, <1>3 DEF InStep
<1>7. ~Holds(s)'
  <2>1. ~Holds(s)
    BY <1>1 DEF Allocated, FreeSockets, NoWedge
  <2>2. info'[s].rest = info[s].rest
    BY <1>3 DEF InfoRecords
  <2> QED BY <2>1, <2>2 DEF Holds
<1>8. closing' = <<>>
  BY <1>1 DEF Calls, InLoop
<1>9. ASSUME NEW i \in 1..Len(replies) PROVE replies[i].session # sessionID + 1
  <2>1. replies[i] \in Replies
    OBVIOUS
  <2>2. replies[i].session \in Int /\ replies[i].session <= sessionID
    BY <2>1 DEF Replies, Sessions, Numbers
  <2> QED BY <1>5, <2>2
<1>10. Quiet(s)'
  <2>1. Len(closing') = 0
    BY <1>8
  <2>2. \A i \in 1..Len(closing') : closing'[i] # s
    BY <2>1
  <2>3. \A i \in 1..Len(replies') : replies'[i].session # gastrSockets'[s].session
    BY <1>1, <1>6, <1>9
  <2> QED BY <1>6, <1>7, <2>2, <2>3 DEF Quiet
<1> QED BY <1>4, <1>10 DEF Fresh, Quiet, InStep, Holds

LEMMA FreshStep ==
    ASSUME IInv, [Next]_vars
    PROVE  Fresh'
<1> USE DEF IInv, TypeOK
<1>1. \A op \in {"reconnect", "create", "stop", "reading"} :
          [pc EXCEPT !.op = op].op = op
  BY DEF CallRecords
<1>2. CASE BeginPoll \/ EndPoll \/ \E c \in Clients : Start(c)
  BY <1>2 DEF Fresh, BeginPoll, EndPoll, Start, BeginConnect, BeginRead, BeginPeek,
              BeginStop, Begin, Idle
<1>3. CASE UNCHANGED vars
  BY <1>3 DEF Fresh, Quiet, InStep, Holds, vars, host, theChip
<1>4. ASSUME NEW c \in Clients, Continue(c) PROVE Fresh'
  <2>1. CASE CheckConnected(c)
    BY <1>1, <2>1 DEF CheckConnected, To, Fresh
  <2>2. CASE StopFirst(c) \/ ConnectFails(c)
    BY <1>1, <2>2 DEF StopFirst, ConnectFails, To, Fresh
  <2>3. CASE CreateFails(c) \/ Connected(c) \/ Stop(c) \/ ReadNothing(c) \/ Peek(c)
             \/ ReadEnds(c)
    <3>1. pc'.op \in {"idle", "poll"}
      BY <2>3 DEF CreateFails, Connected, Stop, ReadNothing, Peek, ReadEnds, Idle
    <3> QED BY <3>1 DEF Fresh
  <2>4. CASE ReadSome(c)
    <3>1. pc'.op = "reading"
      BY <2>4 DEF ReadSome, CallRecords
    <3> QED BY <3>1 DEF Fresh
  <2>5. CASE Copy(c)
    <3>1. pc'.op = "reading"
      BY <2>5 DEF Copy, CallRecords
    <3> QED BY <3>1 DEF Fresh
  <2> QED BY <1>4, <2>1, <2>2, <2>3, <2>4, <2>5, FreshCreate DEF Continue
<1> QED BY <1>2, <1>3, <1>4, FreshChip, FreshReply, FreshClose DEF Next, Call

-----------------------------------------------------------------------------
(* The stream of a connection *)
Used(s) == gastrSockets[s].used
Session(s) == gastrSockets[s].session
Answer(i, s) == replies[i].kind = "recv" /\ replies[i].session = Session(s)
Greeting(i, s) == replies[i].kind = "connect" /\ replies[i].session = Session(s)

\* Data is asked for: the chip has the request, or its reply waits.
Asked(s) == (InStep(s) /\ chip[s].want) \/ \E i \in 1..Len(replies) : Answer(i, s)

\* The sketch is in one of these calls, for the socket.
At(ops, s) == pc.op \in ops /\ handle[pc.client] = s

Owned(s) ==
    /\ \A i \in 1..Len(replies) :
           replies[i].session = Session(s) => replies[i].sock = s /\ InStep(s)
    /\ \A t \in Sockets : chip[t].session = Session(s) => t = s

AskedOnce(s) ==
    /\ \A i, j \in 1..Len(replies) : Answer(i, s) /\ Answer(j, s) => i = j
    /\ InStep(s) /\ chip[s].want => \A i \in 1..Len(replies) : ~Answer(i, s)
    /\ Asked(s) => info[s].buffer = <<>> /\ info[s].rest = <<>>

GreetedOnce(s) ==
    /\ \A i, j \in 1..Len(replies) : Greeting(i, s) /\ Greeting(j, s) => i = j
    /\ \A i \in 1..Len(replies) : Greeting(i, s) =>
           /\ chip[s].state # "connecting"
           /\ replies[i].ok => chip[s].state \in {"up", "ended"}

Led(s) ==
    /\ info[s].state = "connected" =>
           /\ InStep(s) /\ chip[s].state \in {"up", "ended"}
           /\ \A i \in 1..Len(replies) : ~Greeting(i, s)
    /\ (\E i \in 1..Len(replies) : Greeting(i, s)) => At({"connecting", "stop"}, s)
    /\ InStep(s) /\ chip[s].state = "connecting" => At({"connecting", "stop"}, s)
    /\ Asked(s) => info[s].state = "connected"

Run(bytes, q, k) == \A i \in 1..Len(bytes) : bytes[i] = <<q, k + i>>

Numbered(s) ==
    /\ Run(got[s], Session(s), 0)
    /\ Run(info[s].buffer, Session(s), Len(got[s]))
    /\ Run(info[s].rest, Session(s), Len(got[s]) + Len(info[s].buffer))
    /\ \A i \in 1..Len(replies) :
           Answer(i, s) => Run(replies[i].bytes, Session(s), Len(got[s]))

Whole(s) ==
    \/ s \notin misled \/ Asked(s) \/ info[s].buffer # <<>> \/ info[s].rest # <<>>
    \/ At({"connecting", "reading"}, s)

Counted(s) == InStep(s) /\ Whole(s) =>
    /\ \A i \in 1..Len(replies) :
           Answer(i, s) => Len(got[s]) + Len(replies[i].bytes) = chip[s].sent
    /\ (\A i \in 1..Len(replies) : ~Answer(i, s)) =>
           Len(got[s]) + Len(info[s].buffer) + Len(info[s].rest) = chip[s].sent

Unasked(s) ==
    info[s].buffer # <<>> \/ info[s].rest # <<>> \/ At({"connecting", "reading"}, s) =>
        ~gastrSockets[s].pending

Outstanding(s) ==
    /\ info[s].state = "connected" /\ info[s].buffer = <<>> /\ info[s].rest = <<>>
    /\ ~At({"connecting", "stop", "reading"}, s) /\ s \notin refused \union misled
    => Asked(s) \/ \E i \in 1..Len(closing) : closing[i] = s

Bare(s) == got[s] = <<>> /\ info[s].buffer = <<>> /\ info[s].rest = <<>>

Flow(s) ==
    Owned(s) /\ AskedOnce(s) /\ GreetedOnce(s) /\ Numbered(s) /\ Counted(s) /\ Unasked(s)

Connection(s) ==
    IF Used(s) THEN Flow(s) /\ Outstanding(s) /\ (s \notin misled => Led(s)) ELSE Bare(s)

Greetings == \A i \in 1..Len(replies) : replies[i].kind = "connect" => replies[i].bytes = <<>>

Busy ==
    /\ pc.op = "reading" => LET s == handle[pc.client] IN
           Used(s) /\ info[s].state = "connected" /\ ~Asked(s)
    /\ pc.op = "connecting" => Bare(handle[pc.client])

SInv == Greetings /\ Busy /\ \A s \in Sockets : Connection(s)

-----------------------------------------------------------------------------
\* The replies of session q are the same, d places further to the front; one to
\* its connect may be gone.
Kept(q, d) ==
    /\ \A i \in 1..Len(replies') : replies'[i].session = q =>
           i + d \in 1..Len(replies) /\ replies'[i] = replies[i + d]
    /\ \A i \in 1..Len(replies) : replies[i].session = q /\ replies[i].kind = "recv" =>
           i - d \in 1..Len(replies') /\ replies'[i - d] = replies[i]

\* The calls and the closes that wait are no others for s.
Elsewhere(s) ==
    /\ At({"connecting", "stop"}, s) => At({"connecting", "stop"}, s)'
    /\ At({"connecting", "reading"}, s)' =>
           At({"connecting", "reading"}, s) \/ info[s].buffer # <<>> \/ info[s].rest # <<>>
    /\ At({"connecting", "stop", "reading"}, s) =>
           \/ At({"connecting", "stop", "reading"}, s)'
           \/ info[s].buffer # <<>> \/ info[s].rest # <<>>
    /\ (\E i \in 1..Len(closing) : closing[i] = s) => \E i \in 1..Len(closing') : closing'[i] = s

\* No data moves to or from s, though its state may change.
Apart(s) ==
    /\ gastrSockets'[s].used = gastrSockets[s].used
    /\ gastrSockets'[s].session = gastrSockets[s].session
    /\ gastrSockets'[s].pending => gastrSockets[s].pending
    /\ info'[s].buffer = info[s].buffer /\ info'[s].rest = info[s].rest
    /\ got'[s] = got[s] /\ chip'[s].session = chip[s].session
    /\ InStep(s) => chip'[s] = chip[s]
    /\ (s \in misled => s \in misled') /\ (s \in refused => s \in refused')
    /\ Elsewhere(s)
    /\ Used(s) => \A t \in Sockets :
           chip'[t].session = Session(s) => chip[t].session = Session(s)
    /\ \E d \in {0, 1} : Kept(Session(s), d)

LEMMA ApartFlow ==
    ASSUME IInv, IInv', NEW s \in Sockets, Used(s), Flow(s), Apart(s)
    PROVE  Flow(s)' /\ (Asked(s)' <=> Asked(s))
<1> USE DEF Used, Session
<1>1. PICK d \in {0, 1} : Kept(Session(s), d)
  BY DEF Apart
<1>2. ASSUME NEW i \in 1..Len(replies'), Answer(i, s)' \/ Greeting(i, s)'
      PROVE  /\ i + d \in 1..Len(replies) /\ replies'[i] = replies[i + d]
             /\ Answer(i, s)' => Answer(i + d, s)
             /\ Greeting(i, s)' => Greeting(i + d, s)
  BY <1>1, <1>2 DEF Kept, Answer, Greeting, Apart
<1>3. ASSUME NEW i \in 1..Len(replies), Answer(i, s)
      PROVE  i - d \in 1..Len(replies') /\ Answer(i - d, s)'
  BY <1>1, <1>3 DEF Kept, Answer, Apart
<1>4. InStep(s)' <=> InStep(s)
  BY DEF Apart, InStep
<1>5. Asked(s)' <=> Asked(s)
  BY <1>2, <1>3, <1>4 DEF Apart, Asked
<1>6. Owned(s)'
  BY <1>1, <1>4 DEF Flow, Owned, Apart, Kept
<1>7. AskedOnce(s)'
  <2>1. ASSUME NEW i \in 1..Len(replies'), NEW j \in 1..Len(replies'),
               Answer(i, s)', Answer(j, s)'
        PROVE  i = j
    BY <1>2, <2>1 DEF Flow, AskedOnce
  <2>2. ASSUME InStep(s)', chip'[s].want, NEW i \in 1..Len(replies') PROVE ~Answer(i, s)'
    BY <1>2, <1>4, <2>2 DEF Flow, AskedOnce, Apart
  <2>3. Asked(s)' => info'[s].buffer = <<>> /\ info'[s].rest = <<>>
    BY <1>5 DEF Flow, AskedOnce, Apart
  <2> QED BY <2>1, <2>2, <2>3 DEF AskedOnce
<1>8. GreetedOnce(s)'
  <2>1. ASSUME NEW i \in 1..Len(replies'), NEW j \in 1..Len(replies'),
               Greeting(i, s)', Greeting(j, s)'
        PROVE  i = j
    BY <1>2, <2>1 DEF Flow, GreetedOnce
  <2>2. ASSUME NEW i \in 1..Len(replies'), Greeting(i, s)'
        PROVE  /\ chip'[s].state # "connecting"
               /\ replies'[i].ok => chip'[s].state \in {"up", "ended"}
    BY <1>2, <2>2 DEF Flow, GreetedOnce, Owned, Greeting, Apart
  <2> QED BY <2>1, <2>2 DEF GreetedOnce
<1>9. Numbered(s)'
  <2>1. ASSUME NEW i \in 1..Len(replies'), Answer(i, s)'
        PROVE  Run(replies'[i].bytes, Session(s), Len(got[s]))
    BY <1>2, <2>1 DEF Flow, Numbered
  <2>2. /\ got'[s] = got[s] /\ info'[s].buffer = info[s].buffer
        /\ info'[s].rest = info[s].rest /\ Session(s)' = Session(s)
    BY DEF Apart
  <2> QED BY <2>1, <2>2 DEF Flow, Numbered
<1>10. Counted(s)'
  <2>1. ASSUME InStep(s)', Whole(s)' PROVE InStep(s) /\ Whole(s)
    BY <1>4, <1>5, <2>1 DEF Whole, Apart, Elsewhere
  <2>2. ASSUME InStep(s)', Whole(s)', NEW i \in 1..Len(replies'), Answer(i, s)'
        PROVE  Len(got'[s]) + Len(replies'[i].bytes) = chip'[s].sent
    BY <1>2, <2>1, <2>2 DEF Flow, Counted, Apart
  <2>3. ASSUME InStep(s)', Whole(s)', \A i \in 1..Len(replies') : ~Answer(i, s)'
        PROVE  Len(got'[s]) + Len(info'[s].buffer) + Len(info'[s].rest) = chip'[s].sent
    BY <1>3, <2>1, <2>3 DEF Flow, Counted, Apart
  <2> QED BY <2>2, <2>3 DEF Counted
<1>11. Unasked(s)'
  BY DEF Flow, Unasked, Apart, Elsewhere
<1> QED BY <1>5, <1>6, <1>7, <1>8, <1>9, <1>10, <1>11 DEF Flow

LEMMA ApartConnection ==
    ASSUME IInv, IInv', NEW s \in Sockets, Connection(s), Apart(s),
           s \notin misled' => (info'[s].state = "connected" <=> info[s].state = "connected")
    PROVE  Connection(s)'
<1> USE DEF Used, Session
<1>1. CASE ~Used(s)
  BY <1>1 DEF Apart, Connection, Bare
<1>2. CASE Used(s)
  <2>1. PICK d \in {0, 1} : Kept(Session(s), d)
    BY DEF Apart
  <2>2. ASSUME NEW i \in 1..Len(replies'), Greeting(i, s)'
        PROVE  i + d \in 1..Len(replies) /\ Greeting(i + d, s)
    BY <2>1, <2>2 DEF Kept, Greeting, Apart
  <2>3. InStep(s)' <=> InStep(s)
    BY DEF Apart, InStep
  <2>4. Flow(s)' /\ (Asked(s)' <=> Asked(s))
    BY <1>2, ApartFlow DEF Connection
  <2>5. Outstanding(s)'
    BY <1>2, <2>4 DEF Connection, Outstanding, Apart, Elsewhere
  <2>6. s \notin misled' => Led(s)'
    BY <1>2, <2>2, <2>3, <2>4 DEF Connection, Led, Apart, Elsewhere
  <2> QED BY <1>2, <2>4, <2>5, <2>6 DEF Connection, Apart
<1> QED BY <1>1, <1>2

LEMMA SameReplies == ASSUME UNCHANGED replies PROVE \A q : Kept(q, 0)
<1>1. \A i : i \in Int => i + 0 = i /\ i - 0 = i
  OBVIOUS
<1> QED BY <1>1 DEF Kept

LEMMA CloseConnection ==
    ASSUME IInv, IInv', SInv, NEW s \in Sockets, Close(s), UNCHANGED replies,
           \A t \in Sockets : t # s => Elsewhere(t)
    PROVE  \A t \in Sockets : Connection(t)'
<1> USE DEF IInv, TypeOK, Used, Session
<1>1. Connection(s)'
  <2>1. ~Used(s)'
    BY DEF Close, Free
  <2>2. Bare(s)'
    BY DEF Close, Bare, Invalid
  <2> QED BY <2>1, <2>2 DEF Connection
<1>2. ASSUME NEW t \in Sockets, t # s PROVE Connection(t)'
  <2>1. /\ gastrSockets'[t] = gastrSockets[t] /\ info'[t] = info[t] /\ got'[t] = got[t]
        /\ chip'[t] = chip[t] /\ (t \in misled' <=> t \in misled)
        /\ t \in refused => t \in refused'
    BY <1>2 DEF Close
  <2>2. Used(t) => \A u \in Sockets : chip'[u].session = Session(t) => chip[u].session = Session(t)
    <3>1. \A u \in Sockets : chip'[u] = chip[u] \/ chip'[u].session = 0
      BY DEF Close, Unknown
    <3>2. Used(t) => Session(t) # 0
      BY DEF Numbers
    <3> QED BY <3>1, <3>2
  <2>3. Apart(t)
    BY <1>2, <2>1, <2>2, SameReplies DEF Apart
  <2> QED BY <2>1, <2>3, ApartConnection DEF SInv
<1> QED BY <1>1, <1>2

LEMMA CallConnection ==
    ASSUME IInv, IInv', SInv, UNCHANGED <<gastrSockets, theChip, history>>,
           \A t \in Sockets : /\ info'[t].state = "connected" <=> info[t].state = "connected"
                              /\ info'[t].buffer = info[t].buffer /\ info'[t].rest = info[t].rest
                              /\ Elsewhere(t)
    PROVE  \A t \in Sockets : Connection(t)'
<1>1. ASSUME NEW t \in Sockets PROVE Apart(t)
  BY SameReplies DEF Apart, theChip, history
<1> QED BY <1>1, ApartConnection DEF SInv

\* Calls that begin, go on or end without a change to a socket.
LEMMA PlainConnection ==
    ASSUME IInv, IInv', SInv,
           \/ BeginPoll \/ EndPoll \/ \E c \in Clients : Start(c)
           \/ UNCHANGED vars
           \/ \E c \in Clients : CheckConnected(c) \/ CreateFails(c) \/ ConnectFails(c)
                                  \/ ReadNothing(c) \/ ReadSome(c)
    PROVE  \A t \in Sockets : Connection(t)'
<1> USE DEF IInv, TypeOK
<1>1. CASE UNCHANGED vars
  BY <1>1, CallConnection DEF vars, host, theChip, history, Elsewhere, At
<1>2. CASE BeginPoll \/ EndPoll \/ \E c \in Clients : Start(c)
  <2>1. /\ UNCHANGED <<host, theChip, history>>
        /\ pc.op \in {"idle", "poll"}
        /\ pc'.op \in {"create", "connect", "read", "peek", "stop", "poll", "idle"}
    BY <1>2 DEF BeginPoll, EndPoll, Start, BeginConnect, BeginRead, BeginPeek, BeginStop, Begin,
                Idle, Handled
  <2>2. \A t \in Sockets : Elsewhere(t)
    BY <2>1 DEF Elsewhere, At, host
  <2> QED BY <2>1, <2>2, CallConnection DEF host
<1>3. ASSUME NEW c \in Clients,
             CheckConnected(c) \/ CreateFails(c) \/ ConnectFails(c) \/ ReadNothing(c) \/ ReadSome(c)
      PROVE  \A t \in Sockets : Connection(t)'
  <2>1. CASE CheckConnected(c) \/ CreateFails(c) \/ ReadNothing(c)
    <3>1. /\ UNCHANGED <<gastrSockets, info, closing, theChip, history>>
          /\ pc.op \in {"connect", "create", "read"}
          /\ pc'.op \in {"reconnect", "create", "idle"}
      BY <2>1 DEF CheckConnected, CreateFails, ReadNothing, Handled, To, CallRecords, Idle, host
    <3>2. \A t \in Sockets : Elsewhere(t)
      BY <3>1 DEF Elsewhere, At
    <3> QED BY <3>1, <3>2, CallConnection
  <2>2. CASE ConnectFails(c)
    <3>1. /\ UNCHANGED <<gastrSockets, closing, handle, theChip, history>>
          /\ info' = [info EXCEPT ![handle[c]].state = "idle"]
          /\ info[handle[c]].state # "connected"
          /\ pc.op = "connecting" /\ pc'.op = "stop" /\ pc'.client = pc.client
      BY <2>2 DEF ConnectFails, Handled, To, CallRecords
    <3>2. \A t \in Sockets : Elsewhere(t)
      BY <3>1 DEF Elsewhere, At
    <3>3. ASSUME NEW t \in Sockets
          PROVE  /\ info'[t].state = "connected" <=> info[t].state = "connected"
                 /\ info'[t].buffer = info[t].buffer /\ info'[t].rest = info[t].rest
      BY <3>1 DEF InfoRecords
    <3> QED BY <3>1, <3>2, <3>3, CallConnection
  <2>3. CASE ReadSome(c)
    <3>1. /\ UNCHANGED <<host, theChip, history>>
          /\ pc.op = "read" /\ pc'.op = "reading" /\ pc'.client = pc.client /\ pc.client = c
      BY <2>3 DEF ReadSome, Handled, CallRecords
    <3>2. info[handle[c]].buffer # <<>> \/ info[handle[c]].rest # <<>>
      <4>1. PICK n \in 1..MaxRead : n <= Available(handle[c])
        BY <2>3 DEF ReadSome
      <4>2. Len(<<>>) = 0
        OBVIOUS
      <4>3. ASSUME info[handle[c]].buffer = <<>>, info[handle[c]].rest = <<>> PROVE FALSE
        <5>1. Available(handle[c]) = 0
          BY <4>2, <4>3 DEF Available
        <5> QED BY <4>1, <5>1, WifiAssumption
      <4> QED BY <4>3
    <3>3. \A t \in Sockets : Elsewhere(t)
      BY <3>1, <3>2 DEF Elsewhere, At, host
    <3> QED BY <3>1, <3>3, CallConnection DEF host
  <2> QED BY <1>3, <2>1, <2>2, <2>3
<1> QED BY <1>1, <1>2, <1>3

LEMMA ShiftedReplies ==
    ASSUME IInv, replies # <<>>, replies' = Tail(replies),
           NEW q, Head(replies).session # q
    PROVE  Kept(q, 1)
<1> USE DEF IInv, TypeOK
<1>1. /\ Head(replies) = replies[1] /\ Len(replies) \in Nat /\ Len(replies) >= 1
      /\ Len(replies') = Len(replies) - 1
      /\ \A i \in 1..Len(replies') : replies'[i] = replies[i + 1]
  BY HeadTailProperties
<1>2. ASSUME NEW i \in 1..Len(replies') PROVE i + 1 \in 1..Len(replies)
  BY <1>1
<1>3. ASSUME NEW i \in 1..Len(replies), replies[i].session = q
      PROVE  i - 1 \in 1..Len(replies') /\ replies'[i - 1] = replies[i]
  <2>1. i # 1
    BY <1>1, <1>3
  <2>2. i - 1 \in 1..Len(replies') /\ (i - 1) + 1 = i
    BY <1>1, <2>1
  <2> QED BY <1>1, <2>2
<1> QED BY <1>1, <1>2, <1>3 DEF Kept

LEMMA AddedReply ==
    ASSUME IInv, NEW r \in Replies, replies' = Append(replies, r), NEW q, r.session # q
    PROVE  Kept(q, 0)
<1> USE DEF IInv, TypeOK
<1>1. /\ Len(replies) \in Nat /\ Len(replies') = Len(replies) + 1
      /\ replies'[Len(replies) + 1] = r
      /\ \A i \in 1..Len(replies) : replies'[i] = replies[i]
  BY AppendProperties
<1>2. ASSUME NEW i \in 1..Len(replies'), replies'[i].session = q
      PROVE  i + 0 \in 1..Len(replies) /\ replies'[i] = replies[i + 0]
  <2>1. i # Len(replies) + 1
    BY <1>1, <1>2
  <2>2. i \in 1..Len(replies) /\ i + 0 = i
    BY <1>1, <2>1
  <2> QED BY <1>1, <2>2
<1>3. ASSUME NEW i \in 1..Len(replies)
      PROVE  i - 0 \in 1..Len(replies') /\ replies'[i - 0] = replies[i]
  <2>1. i \in 1..Len(replies') /\ i - 0 = i
    BY <1>1
  <2> QED BY <1>1, <2>1
<1> QED BY <1>2, <1>3 DEF Kept

\* m2m_ip_cb and handleEvent: one reply
LEMMA GreetingHandled ==
    ASSUME IInv, IInv', SInv, HandleReply, Head(replies).kind = "connect"
    PROVE  \A t \in Sockets : Connection(t)'
<1> USE DEF IInv, TypeOK, Used, Session
<1>0. PICK m : m = Head(replies)
  OBVIOUS
<1>1. /\ replies # <<>> /\ replies' = Tail(replies) /\ HandleConnect(m)
      /\ UNCHANGED <<handle, pc, chip, got, refused, gastrSockets, closing>>
  BY <1>0 DEF HandleReply, HandleConnect
<1>2. m = replies[1] /\ 1 \in 1..Len(replies) /\ m \in Replies /\ m.sock \in Sockets
      /\ m.session # 0
  <2>1. m = replies[1] /\ m \in Replies /\ 1 \in 1..Len(replies)
    BY <1>0, <1>1, HeadTailProperties
  <2>2. m.sock \in Sockets /\ m.session \in Sessions
    BY <2>1 DEF Replies
  <2> QED BY <2>1, <2>2 DEF Sessions
<1>3. /\ Len(replies') = Len(replies) - 1 /\ Len(replies) \in Nat
      /\ \A i \in 1..Len(replies') : replies'[i] = replies[i + 1] /\ i + 1 \in 1..Len(replies)
                                     /\ i + 1 # 1
  BY <1>1, HeadTailProperties
<1>4. \A t \in Sockets : Elsewhere(t)
  BY <1>1 DEF Elsewhere, At
<1>5. \A t \in Sockets :
          /\ info'[t].buffer = info[t].buffer /\ info'[t].rest = info[t].rest
          /\ info'[t].state = IF t = m.sock THEN ConnectState(m) ELSE info[t].state
  <2>1. info' = [info EXCEPT ![m.sock].state = ConnectState(m)]
    BY <1>1 DEF HandleConnect
  <2>2. ASSUME NEW t \in Sockets, t # m.sock PROVE info'[t] = info[t]
    BY <2>1, <2>2
  <2>3. info'[m.sock] = [info[m.sock] EXCEPT !.state = ConnectState(m)]
    BY <1>2, <2>1
  <2>4. /\ info'[m.sock].buffer = info[m.sock].buffer /\ info'[m.sock].rest = info[m.sock].rest
        /\ info'[m.sock].state = ConnectState(m)
    BY <1>2, <2>3 DEF InfoRecords
  <2> QED BY <2>2, <2>4
<1>6. misled' = IF gastrSockets[m.sock].session \in {0, m.session} THEN misled
                ELSE misled \union {m.sock}
  BY <1>1 DEF HandleConnect
<1>7. ASSUME NEW t \in Sockets, t # m.sock PROVE Connection(t)'
  <2>1. CASE ~Used(t)
    BY <1>1, <1>5, <2>1 DEF SInv, Connection, Bare
  <2>2. CASE Used(t)
    <3>1. m.session # Session(t)
      BY <1>2, <1>7, <2>2 DEF SInv, Connection, Flow, Owned
    <3>2. Kept(Session(t), 1)
      BY <1>0, <1>1, <3>1, ShiftedReplies
    <3>3. t \in misled' <=> t \in misled
      BY <1>6, <1>7
    <3>4. Apart(t)
      BY <1>1, <1>4, <1>5, <1>7, <3>2, <3>3 DEF Apart
    <3> QED BY <1>5, <1>7, <3>4, ApartConnection DEF SInv
  <2> QED BY <2>1, <2>2
<1>8. ASSUME NEW t \in Sockets, t = m.sock, Used(t), m.session = Session(t)
      PROVE  Connection(t)'
  <2>1. \E d \in {0, 1} : Kept(Session(t), d)
    <3>1. Kept(Session(t), 1)
      <4>1. ASSUME NEW i \in 1..Len(replies), replies[i].kind = "recv"
            PROVE  i - 1 \in 1..Len(replies') /\ replies'[i - 1] = replies[i]
        <5>1. i # 1 /\ i \in Nat
          BY <1>2, <4>1
        <5>2. i - 1 \in 1..Len(replies') /\ (i - 1) + 1 = i
          BY <1>3, <5>1
        <5> QED BY <1>3, <5>2
      <4> QED BY <1>3, <4>1 DEF Kept
    <3> QED BY <3>1
  <2>2. UNCHANGED misled
    BY <1>6, <1>8
  <2>3. Apart(t)
    BY <1>1, <1>4, <1>5, <2>1, <2>2 DEF Apart
  <2>4. CASE t \in misled
    BY <2>2, <2>3, <2>4, ApartConnection DEF SInv
  <2>5. CASE t \notin misled
    <3>1. Flow(t) /\ Led(t) /\ Outstanding(t)
      BY <1>8, <2>2, <2>5 DEF SInv, Connection
    <3>2. Flow(t)' /\ (Asked(t)' <=> Asked(t))
      BY <1>8, <2>2, <2>3, <3>1, ApartFlow
    <3>3. Greeting(1, t) /\ 1 \in 1..Len(replies)
      BY <1>2, <1>8 DEF Greeting
    <3>4. At({"connecting", "stop"}, t)' /\ info[t].state # "connected" /\ ~Asked(t)
      BY <1>4, <2>2, <3>1, <3>3 DEF Led, Elsewhere
    <3>5. ASSUME NEW i \in 1..Len(replies') PROVE ~Greeting(i, t)'
      <4>1. ASSUME Greeting(i, t)' PROVE FALSE
        <5>1. i + 1 \in 1..Len(replies) /\ i + 1 # 1 /\ Greeting(i + 1, t)
          BY <1>1, <1>3, <4>1 DEF Greeting
        <5> QED BY <3>1, <3>3, <5>1 DEF Flow, GreetedOnce
      <4> QED BY <4>1
    <3>6. info'[t].state = ConnectState(m)
      BY <1>5, <1>8
    <3>7. info'[t].state = "connected" => InStep(t)' /\ chip'[t].state \in {"up", "ended"}
      <4>1. info'[t].state = "connected" => m.ok
        BY <3>6 DEF ConnectState
      <4>2. InStep(t)
        BY <1>2, <1>8, <3>1, <3>3 DEF Flow, Owned
      <4>3. m.ok => chip[t].state \in {"up", "ended"}
        BY <1>2, <3>1, <3>3 DEF Flow, GreetedOnce
      <4> QED BY <1>1, <4>1, <4>2, <4>3 DEF InStep
    <3>8. chip'[t].state # "connecting"
      BY <1>1, <3>1, <3>3 DEF Flow, GreetedOnce
    <3>9. Led(t)'
      BY <3>2, <3>4, <3>5, <3>7, <3>8 DEF Led
    <3>10. Outstanding(t)'
      BY <3>4 DEF Outstanding, At
    <3> QED BY <1>1, <1>8, <3>2, <3>9, <3>10 DEF Connection
  <2> QED BY <2>4, <2>5
<1>9. ASSUME NEW t \in Sockets, t = m.sock, Used(t), m.session # Session(t)
      PROVE  Connection(t)'
  <2>1. Kept(Session(t), 1)
    BY <1>0, <1>1, <1>9, ShiftedReplies
  <2>2. t \in misled' /\ Session(t) # 0
    BY <1>2, <1>6, <1>9 DEF Numbers
  <2>3. Apart(t)
    BY <1>1, <1>2, <1>4, <1>5, <2>1, <2>2 DEF Apart
  <2> QED BY <2>2, <2>3, ApartConnection DEF SInv
<1>10. ASSUME NEW t \in Sockets, t = m.sock, ~Used(t) PROVE Connection(t)'
  BY <1>1, <1>5, <1>10 DEF SInv, Connection, Bare
<1> QED BY <1>2, <1>7, <1>8, <1>9, <1>10

\* fillRecvBuffer passes the bytes of r on in their order.
LEMMA FilledRun ==
    ASSUME NEW i \in InfoRecords, NEW r \in Seq(Bytes), NEW q, NEW k \in Nat, Run(r, q, k)
    PROVE  \E b, l \in Seq(Bytes) :
               /\ Filled(i, r) = [i EXCEPT !.buffer = b, !.rest = l]
               /\ Run(b, q, k) /\ Run(l, q, k + Len(b))
               /\ Len(b) + Len(l) = Len(r)
               /\ r # <<>> => b # <<>>
<1> DEFINE n == IF Len(r) > BufferSize THEN BufferSize ELSE Len(r)
           b == SubSeq(r, 1, n)
           l == SubSeq(r, n + 1, Len(r))
<1>1. n \in 0..Len(r) /\ (Len(r) # 0 => n # 0) /\ Len(r) \in Nat
  BY WifiAssumption
<1>2. Filled(i, r) = [i EXCEPT !.buffer = b, !.rest = l]
  BY DEF Filled
<1> HIDE DEF n
<1>3. \A j \in 1..Len(r) : r[j] \in Bytes
  OBVIOUS
<1>4. b \in Seq(Bytes) /\ Len(b) = n /\ \A j \in 1..n : b[j] = r[j]
  <2>1. \A j \in 1..n : r[j] \in Bytes
    BY <1>1, <1>3
  <2> QED BY <1>1, <2>1, SubSeqProperties
<1>5. l \in Seq(Bytes) /\ Len(l) = Len(r) - n /\ \A j \in 1..(Len(r) - n) : l[j] = r[n + j]
  <2>1. \A j \in (n + 1)..Len(r) : r[j] \in Bytes
    BY <1>1, <1>3
  <2>2. /\ l \in Seq(Bytes) /\ Len(l) = Len(r) - n
        /\ \A j \in 1..(Len(r) - n) : l[j] = r[(n + 1) + j - 1]
    BY <1>1, <2>1, SubSeqProperties
  <2>3. \A j \in 1..(Len(r) - n) : (n + 1) + j - 1 = n + j
    BY <1>1
  <2> QED BY <2>2, <2>3
<1> HIDE DEF b, l
<1>6. Run(b, q, k)
  <2>1. ASSUME NEW j \in 1..Len(b) PROVE b[j] = <<q, k + j>>
    <3>1. j \in 1..Len(r) /\ b[j] = r[j]
      BY <1>1, <1>4
    <3> QED BY <3>1 DEF Run
  <2> QED BY <2>1 DEF Run
<1>7. Run(l, q, k + n)
  <2>1. ASSUME NEW j \in 1..Len(l) PROVE l[j] = <<q, (k + n) + j>>
    <3>1. n + j \in 1..Len(r) /\ l[j] = r[n + j] /\ k + (n + j) = (k + n) + j
      BY <1>1, <1>5
    <3> QED BY <3>1 DEF Run
  <2> QED BY <2>1 DEF Run
<1>8. r # <<>> => b # <<>>
  <2>1. Len(r) # 0 => Len(b) # 0
    BY <1>1, <1>4
  <2> QED BY <2>1
<1>9. Len(b) + Len(l) = Len(r)
  BY <1>1, <1>4, <1>5
<1> QED BY <1>2, <1>4, <1>5, <1>6, <1>7, <1>8, <1>9

\* The next reply is one to the connection of s.
Addressed(s) == s = Head(replies).sock /\ Used(s) /\ Head(replies).session = Session(s)

LEMMA AnswerApart ==
    ASSUME IInv, IInv', SInv, HandleReply, Head(replies).kind # "connect",
           NEW t \in Sockets, ~Addressed(t)
    PROVE  Connection(t)'
<1> USE DEF IInv, TypeOK, Used, Session, Addressed
<1>0. PICK m : m = Head(replies)
  OBVIOUS
<1>1. /\ replies # <<>> /\ replies' = Tail(replies) /\ HandleRecv(m)
      /\ UNCHANGED <<handle, pc, chip, got, refused, misled>>
  BY <1>0 DEF HandleReply, HandleRecv
<1>2. m \in Replies /\ m.sock \in Sockets /\ m.session # 0
  <2>1. m \in Replies
    BY <1>0, <1>1, HeadTailProperties
  <2>2. m.sock \in Sockets /\ m.session \in Sessions
    BY <2>1 DEF Replies
  <2> QED BY <2>1, <2>2 DEF Sessions
<1>3. t = m.sock => ~Current(m)
  BY <1>0, <1>2 DEF Current, Numbers
<1>4. info'[t] = info[t]
  BY <1>1, <1>2, <1>3 DEF HandleRecv
<1>5. /\ gastrSockets'[t].used = gastrSockets[t].used
      /\ gastrSockets'[t].session = gastrSockets[t].session
      /\ gastrSockets'[t].pending => gastrSockets[t].pending
  <2>1. gastrSockets' = [gastrSockets EXCEPT ![m.sock].pending = FALSE]
    BY <1>1 DEF HandleRecv, Answered
  <2>2. gastrSockets'[t] \in {gastrSockets[t], [gastrSockets[t] EXCEPT !.pending = FALSE]}
    BY <2>1
  <2> QED BY <2>2 DEF SocketRecords
<1>6. Elsewhere(t)
  <2>1. (\E i \in 1..Len(closing) : closing[i] = t) => \E i \in 1..Len(closing') : closing'[i] = t
    <3>1. CASE closing' = closing
      BY <3>1
    <3>2. CASE closing' = <<m.sock>> \o closing
      <4>1. <<m.sock>> \in Seq(Sockets) /\ Len(<<m.sock>>) = 1
        BY <1>2
      <4>2. /\ Len(closing') = 1 + Len(closing) /\ Len(closing) \in Nat
            /\ \A i \in 1..Len(closing') :
                   closing'[i] = IF i <= 1 THEN <<m.sock>>[i] ELSE closing[i - 1]
        BY <3>2, <4>1, ConcatProperties
      <4>3. ASSUME NEW i \in 1..Len(closing)
            PROVE  i + 1 \in 1..Len(closing') /\ closing'[i + 1] = closing[i]
        <5>0. i \in Nat /\ i >= 1 /\ i <= Len(closing)
          OBVIOUS
        <5> HIDE DEF IInv, TypeOK
        <5>1. i + 1 \in 1..Len(closing') /\ ~(i + 1 <= 1) /\ (i + 1) - 1 = i
          BY <4>2, <5>0
        <5> QED BY <4>2, <5>1
      <4> QED BY <4>3
    <3> QED BY <1>1, <3>1, <3>2 DEF HandleRecv
  <2> QED BY <1>1, <2>1 DEF Elsewhere, At
<1>7. CASE ~Used(t)
  BY <1>1, <1>4, <1>5, <1>7 DEF SInv, Connection, Bare
<1>8. CASE Used(t)
  <2>1. m.session # Session(t)
    <3>1. CASE t = m.sock
      BY <1>0, <1>8, <3>1
    <3>2. CASE t # m.sock
      <4>1. m = replies[1] /\ 1 \in 1..Len(replies)
        BY <1>0, <1>1, HeadTailProperties
      <4> QED BY <1>8, <3>2, <4>1 DEF SInv, Connection, Flow, Owned
    <3> QED BY <3>1, <3>2
  <2>2. Kept(Session(t), 1)
    BY <1>0, <1>1, <2>1, ShiftedReplies
  <2>3. Apart(t)
    BY <1>1, <1>4, <1>5, <1>6, <2>2 DEF Apart
  <2> QED BY <1>4, <2>3, ApartConnection DEF SInv
<1> QED BY <1>7, <1>8

LEMMA AnswerTaken ==
    ASSUME IInv, IInv', SInv, HandleReply, ~(Head(replies).kind = "connect"),
           NEW s \in Sockets, Addressed(s)
    PROVE  Connection(s)'
<1> USE DEF IInv, TypeOK, Used, Session, Addressed
<1>0. PICK m, data : m = Head(replies) /\ data = m.bytes
  OBVIOUS
<1>1. /\ replies # <<>> /\ replies' = Tail(replies) /\ HandleRecv(m) /\ InLoop
      /\ UNCHANGED <<handle, pc, chip, got, refused, misled>>
  BY <1>0 DEF HandleReply, HandleRecv
<1>2. m = replies[1] /\ 1 \in 1..Len(replies) /\ m \in Replies
  BY <1>0, <1>1, HeadTailProperties
<1>3. m.kind = "recv" /\ data \in Seq(Bytes) /\ Current(m) /\ m.sock = s
  <2>1. m.kind = "recv" /\ data \in Seq(Bytes)
    <3>1. m.kind # "connect" /\ data = m.bytes /\ m \in Replies
      BY <1>0, <1>2
    <3> HIDE DEF IInv, TypeOK
    <3> QED BY <3>1 DEF Replies
  <2>2. Current(m) /\ m.sock = s
    BY <1>0 DEF Current
  <2> QED BY <2>1, <2>2
<1>4. /\ Len(replies') = Len(replies) - 1 /\ Len(replies) \in Nat
      /\ \A i \in 1..Len(replies') : replies'[i] = replies[i + 1] /\ i + 1 \in 1..Len(replies)
                                     /\ i + 1 # 1
  BY <1>1, HeadTailProperties
<1>5. Flow(s) /\ Outstanding(s) /\ (s \notin misled => Led(s))
  BY DEF SInv, Connection
<1>6. Answer(1, s) /\ Asked(s) /\ InStep(s)
  BY <1>0, <1>2, <1>3, <1>5 DEF Answer, Asked, Flow, Owned
<1>7. /\ info[s].buffer = <<>> /\ info[s].rest = <<>> /\ ~chip[s].want
      /\ \A i \in 1..Len(replies) : Answer(i, s) => i = 1
  BY <1>2, <1>5, <1>6 DEF Flow, AskedOnce
<1>8. gastrSockets'[s].used /\ gastrSockets'[s].session = Session(s) /\ ~gastrSockets'[s].pending
  <2>1. gastrSockets' = [gastrSockets EXCEPT ![s].pending = FALSE]
    BY <1>1, <1>3 DEF HandleRecv, Answered
  <2>2. gastrSockets'[s] = [gastrSockets[s] EXCEPT !.pending = FALSE]
    BY <2>1
  <2> QED BY <2>2 DEF SocketRecords
<1>9. ASSUME NEW i \in 1..Len(replies') PROVE ~Answer(i, s)'
  <2>1. ASSUME Answer(i, s)' PROVE Answer(i + 1, s)
    BY <1>4, <1>8, <2>1 DEF Answer
  <2> QED BY <1>4, <1>7, <2>1
<1>10. InStep(s)' /\ ~Asked(s)'
  BY <1>1, <1>6, <1>7, <1>8, <1>9 DEF InStep, Asked
<1>11. ~At({"connecting", "reading"}, s) /\ ~At({"connecting", "reading"}, s)'
  <2>1. pc.op # "reading"
    BY <1>1 DEF InLoop
  <2>2. ASSUME pc.op = "connecting" PROVE handle[pc.client] # s
    <3>1. m.session = gastrSockets[s].session
      BY <1>3 DEF Current
    <3>2. Fresh /\ 1 \in 1..Len(replies) /\ replies[1] = m
      BY <1>2
    <3> HIDE DEF IInv, TypeOK
    <3> QED BY <1>3, <2>2, <3>1, <3>2 DEF Fresh, Quiet
  <2> QED BY <1>1, <2>1, <2>2 DEF At
<1>12. Owned(s)' /\ AskedOnce(s)' /\ GreetedOnce(s)' /\ Unasked(s)'
  <2>1. Owned(s)'
    BY <1>1, <1>4, <1>5, <1>8, <1>10 DEF Flow, Owned
  <2>2. ASSUME NEW i \in 1..Len(replies'), Greeting(i, s)' PROVE Greeting(i + 1, s)
    BY <1>4, <1>8, <2>2 DEF Greeting
  <2>3. ASSUME NEW i \in 1..Len(replies'), NEW j \in 1..Len(replies'),
               Greeting(i, s)', Greeting(j, s)'
        PROVE  i = j
    <3>1. i + 1 = j + 1
      BY <1>4, <1>5, <2>2, <2>3 DEF Flow, GreetedOnce
    <3> QED BY <3>1
  <2>4. ASSUME NEW i \in 1..Len(replies'), Greeting(i, s)'
        PROVE  /\ chip'[s].state # "connecting"
               /\ replies'[i].ok => chip'[s].state \in {"up", "ended"}
    BY <1>1, <1>4, <1>5, <2>2, <2>4 DEF Flow, GreetedOnce
  <2>5. GreetedOnce(s)'
    BY <2>3, <2>4 DEF GreetedOnce
  <2> QED BY <1>8, <1>9, <1>10, <2>1, <2>5 DEF AskedOnce, Unasked
<1>13. s \notin misled =>
           info[s].state = "connected" /\ \A i \in 1..Len(replies') : ~Greeting(i, s)'
  <2>1. ASSUME NEW i \in 1..Len(replies'), Greeting(i, s)' PROVE Greeting(i + 1, s)
    BY <1>4, <1>8, <2>1 DEF Greeting
  <2> QED BY <1>4, <1>5, <1>6, <2>1 DEF Led
<1>14. info'[s].state = info[s].state /\ s \notin misled' => Led(s)'
  BY <1>1, <1>5, <1>10, <1>13 DEF Led, InStep
<1>15. Run(got[s], Session(s), 0) /\ Run(data, Session(s), Len(got[s])) /\ Len(got[s]) \in Nat
       /\ Len(got[s]) + Len(data) = chip[s].sent
  <2>1. Whole(s)
    BY <1>6 DEF Whole
  <2>2. Len(got[s]) \in Nat
    OBVIOUS
  <2> QED BY <1>0, <1>2, <1>5, <1>6, <2>1, <2>2 DEF Flow, Numbered, Counted
<1>16. CASE data # <<>> /\ info[s].state = "connected"
  <2>0. info[s] \in InfoRecords /\ info'[s] \in InfoRecords
    OBVIOUS
  <2>1. PICK b, l \in Seq(Bytes) :
          /\ Filled(info[s], data) = [info[s] EXCEPT !.buffer = b, !.rest = l]
          /\ Run(b, Session(s), Len(got[s])) /\ Run(l, Session(s), Len(got[s]) + Len(b))
          /\ Len(b) + Len(l) = Len(data)
          /\ data # <<>> => b # <<>>
    <3> HIDE DEF IInv, TypeOK, Used, Session, Addressed
    <3>1. PICK i \in InfoRecords, k \in Nat, q \in {Session(s)} :
              i = info[s] /\ k = Len(got[s]) /\ q = Session(s)
      BY <1>15, <2>0
    <3>2. Run(data, q, k)
      BY <1>15, <3>1
    <3>3. \E b, l \in Seq(Bytes) :
              /\ Filled(i, data) = [i EXCEPT !.buffer = b, !.rest = l]
              /\ Run(b, q, k) /\ Run(l, q, k + Len(b))
              /\ Len(b) + Len(l) = Len(data)
              /\ data # <<>> => b # <<>>
      BY <1>3, <3>2, FilledRun
    <3> QED BY <3>1, <3>3
  <2>2. info'[s].buffer = b /\ info'[s].rest = l /\ info'[s].state = info[s].state
    <3>1. info' = [info EXCEPT ![s] = Filled(info[s], data)]
      BY <1>0, <1>1, <1>3, <1>16 DEF HandleRecv
    <3>2. info'[s] = [info[s] EXCEPT !.buffer = b, !.rest = l]
      BY <2>1, <3>1
    <3> QED BY <2>0, <3>2 DEF InfoRecords
  <2>4. Numbered(s)'
    BY <1>1, <1>8, <1>9, <1>15, <2>1, <2>2 DEF Numbered
  <2>5. Counted(s)'
    <3> HIDE DEF IInv, TypeOK, Used, Session, Addressed
    <3>1. Len(data) \in Nat /\ Len(b) \in Nat /\ Len(l) \in Nat
      BY <1>3
    <3>2. /\ Len(b) + Len(l) = Len(data)
          /\ Len(got[s]) \in Nat /\ Len(got[s]) + Len(data) = chip[s].sent
      BY <1>15, <2>1
    <3>3. Len(got[s]) + Len(b) + Len(l) = chip[s].sent
      BY <3>1, <3>2
    <3> QED BY <1>1, <1>9, <2>2, <3>3 DEF Counted
  <2>6. Outstanding(s)'
    BY <1>16, <2>1, <2>2 DEF Outstanding
  <2> QED BY <1>8, <1>12, <1>14, <2>2, <2>4, <2>5, <2>6 DEF Connection, Flow
<1>17. CASE ~(data # <<>> /\ info[s].state = "connected")
  <2>1. info'[s] = info[s]
    BY <1>0, <1>1, <1>3, <1>17 DEF HandleRecv
  <2>2. Numbered(s)'
    BY <1>1, <1>5, <1>8, <1>9, <2>1 DEF Flow, Numbered
  <2>3. data # <<>> => s \in misled
    BY <1>13, <1>17
  <2>4. Counted(s)'
    <3>1. Whole(s)' => data = <<>>
      BY <1>1, <1>7, <1>10, <1>11, <2>1, <2>3 DEF Whole
    <3>2. data = <<>> => Len(got[s]) + Len(<<>>) + Len(<<>>) = chip[s].sent
      BY <1>15
    <3> QED BY <1>1, <1>7, <1>9, <2>1, <3>1, <3>2 DEF Counted
  <2>5. Outstanding(s)'
    <3>1. CASE data # <<>>
      BY <1>1, <2>3, <3>1 DEF Outstanding
    <3>2. CASE data = <<>>
      <4>1. closing' = <<s>> \o closing /\ <<s>> \in Seq(Sockets)
        BY <1>0, <1>1, <1>3, <3>2 DEF HandleRecv
      <4>2. 1 \in 1..Len(closing') /\ closing'[1] = s
        BY <4>1, ConcatProperties
      <4> QED BY <4>2 DEF Outstanding
    <3> QED BY <3>1, <3>2
  <2> QED BY <1>8, <1>12, <1>14, <2>1, <2>2, <2>4, <2>5 DEF Connection, Flow
<1> QED BY <1>16, <1>17

-----------------------------------------------------------------------------
LEMMA Appended ==
    ASSUME IInv, NEW r \in Replies, replies' = Append(replies, r)
    PROVE  \E n \in Nat :
               /\ n \in 1..Len(replies') /\ replies'[n] = r
               /\ \A i \in 1..Len(replies) : i \in 1..Len(replies') /\ replies'[i] = replies[i]
               /\ \A i \in 1..Len(replies') : i = n \/ i \in 1..Len(replies)
<1>1. /\ Len(replies) \in Nat /\ Len(replies') = Len(replies) + 1
      /\ replies'[Len(replies) + 1] = r
      /\ \A i \in 1..Len(replies) : replies'[i] = replies[i]
  BY AppendProperties DEF IInv, TypeOK
<1> WITNESS Len(replies') \in Nat
<1> QED BY <1>1

\* The chip's replies to the connection of s itself
LEMMA ChipGreets ==
    ASSUME IInv, IInv', SInv, NEW s \in Sockets, Used(s), chip[s].session = Session(s),
           NEW r \in Replies, r.kind = "connect", r.sock = s, r.session = Session(s),
           replies' = Append(replies, r),
           chip[s].state = "connecting", chip'[s].state = IF r.ok THEN "up" ELSE "refused",
           chip'[s].session = chip[s].session, chip'[s].want = chip[s].want,
           chip'[s].sent = chip[s].sent,
           \A t \in Sockets : chip'[t].session = chip[t].session,
           UNCHANGED <<host, pc, history>>
    PROVE  Connection(s)'
<1> USE DEF IInv, TypeOK, Used, Session
<1>1. UNCHANGED <<gastrSockets, info, closing, handle, got, misled, refused>>
  BY DEF host, history
<1>2. InStep(s) /\ InStep(s)'
  BY <1>1 DEF InStep
<1>3. PICK n \in Nat :
      /\ n \in 1..Len(replies') /\ replies'[n] = r
      /\ \A i \in 1..Len(replies) : i \in 1..Len(replies') /\ replies'[i] = replies[i]
      /\ \A i \in 1..Len(replies') : i = n \/ i \in 1..Len(replies)
  BY Appended
<1>6. Flow(s) /\ Outstanding(s) /\ (s \notin misled => Led(s))
  BY DEF SInv, Connection
<1>7. ASSUME NEW i \in 1..Len(replies'), Answer(i, s)'
      PROVE  i \in 1..Len(replies) /\ replies'[i] = replies[i] /\ Answer(i, s)
  BY <1>1, <1>3, <1>7 DEF Answer
<1>8. ASSUME NEW i \in 1..Len(replies), Answer(i, s) PROVE i \in 1..Len(replies') /\ Answer(i, s)'
  BY <1>1, <1>3, <1>8 DEF Answer
<1>9. Asked(s)' <=> Asked(s)
  BY <1>2, <1>7, <1>8 DEF Asked
<1>10. Owned(s)'
  <2>1. ASSUME NEW i \in 1..Len(replies'), replies'[i].session = Session(s)
        PROVE  replies'[i].sock = s
    BY <1>3, <1>6, <2>1 DEF Flow, Owned
  <2> QED BY <1>1, <1>2, <1>6, <2>1 DEF Flow, Owned
<1>11. AskedOnce(s)'
  <2>1. \A i, j \in 1..Len(replies') : Answer(i, s)' /\ Answer(j, s)' => i = j
    BY <1>6, <1>7 DEF Flow, AskedOnce
  <2>2. chip'[s].want => \A i \in 1..Len(replies') : ~Answer(i, s)'
    BY <1>2, <1>6, <1>7 DEF Flow, AskedOnce
  <2> QED BY <1>1, <1>6, <1>9, <2>1, <2>2 DEF Flow, AskedOnce
<1>12. \A i \in 1..Len(replies) : ~Greeting(i, s)
  BY <1>6 DEF Flow, GreetedOnce
<1>13. \A i \in 1..Len(replies') : Greeting(i, s)' => i = n
  BY <1>1, <1>3, <1>12 DEF Greeting
<1>14. GreetedOnce(s)'
  <2>1. ASSUME NEW i \in 1..Len(replies'), Greeting(i, s)'
        PROVE  /\ chip'[s].state # "connecting"
               /\ replies'[i].ok => chip'[s].state \in {"up", "ended"}
    BY <1>3, <1>13, <2>1
  <2> QED BY <1>13, <2>1 DEF GreetedOnce
<1>15. Numbered(s)'
  BY <1>1, <1>6, <1>7 DEF Flow, Numbered
<1>16. Counted(s)'
  <2>1. Whole(s)' => Whole(s)
    BY <1>1, <1>9 DEF Whole, At
  <2>2. ASSUME Whole(s), NEW i \in 1..Len(replies'), Answer(i, s)'
        PROVE  Len(got[s]) + Len(replies'[i].bytes) = chip[s].sent
    BY <1>2, <1>6, <1>7, <2>2 DEF Flow, Counted
  <2>3. ASSUME Whole(s), \A i \in 1..Len(replies') : ~Answer(i, s)'
        PROVE  Len(got[s]) + Len(info[s].buffer) + Len(info[s].rest) = chip[s].sent
    BY <1>2, <1>6, <1>8, <2>3 DEF Flow, Counted
  <2> QED BY <1>1, <2>1, <2>2, <2>3 DEF Counted
<1>17. Unasked(s)' /\ Outstanding(s)'
  BY <1>1, <1>6, <1>9 DEF Flow, Unasked, Outstanding, At
<1>18. s \notin misled' => Led(s)'
  <2>1. s \notin misled => info[s].state # "connected" /\ ~Asked(s) /\ At({"connecting", "stop"}, s)
    BY <1>2, <1>6 DEF Led
  <2> QED BY <1>1, <1>9, <2>1 DEF Led, At
<1> QED BY <1>1, <1>10, <1>11, <1>14, <1>15, <1>16, <1>17, <1>18 DEF Connection, Flow

LEMMA ChipAnswers ==
    ASSUME IInv, IInv', SInv, NEW s \in Sockets, Used(s), chip[s].session = Session(s),
           NEW r \in Replies, r.kind = "recv", r.sock = s, r.session = Session(s),
           Run(r.bytes, Session(s), chip[s].sent),
           replies' = Append(replies, r), chip[s].want, chip[s].state = "up",
           ~chip'[s].want, chip'[s].state \in {"up", "ended"},
           chip'[s].sent = chip[s].sent + Len(r.bytes),
           \A t \in Sockets : chip'[t].session = chip[t].session,
           UNCHANGED <<host, pc, history>>
    PROVE  Connection(s)'
<1> USE DEF IInv, TypeOK, Used, Session
<1>1. UNCHANGED <<gastrSockets, info, closing, handle, got, misled, refused>>
  BY DEF host, history
<1>2. InStep(s) /\ InStep(s)'
  BY <1>1 DEF InStep
<1>3. PICK n \in Nat :
      /\ n \in 1..Len(replies') /\ replies'[n] = r
      /\ \A i \in 1..Len(replies) : i \in 1..Len(replies') /\ replies'[i] = replies[i]
      /\ \A i \in 1..Len(replies') : i = n \/ i \in 1..Len(replies)
  BY Appended
<1>5. n \in 1..Len(replies') /\ Answer(n, s)'
  BY <1>1, <1>3 DEF Answer
<1>6. Flow(s) /\ Outstanding(s) /\ (s \notin misled => Led(s))
  BY DEF SInv, Connection
<1>7. Asked(s) /\ Asked(s)'
  BY <1>2, <1>5 DEF Asked
<1>8. /\ info[s].buffer = <<>> /\ info[s].rest = <<>>
      /\ \A i \in 1..Len(replies) : ~Answer(i, s)
  BY <1>2, <1>6, <1>7 DEF Flow, AskedOnce
<1>9. \A i \in 1..Len(replies') : Answer(i, s)' => i = n
  BY <1>1, <1>3, <1>8 DEF Answer
<1>10. ASSUME NEW i \in 1..Len(replies'), Greeting(i, s)'
       PROVE  i \in 1..Len(replies) /\ replies'[i] = replies[i] /\ Greeting(i, s)
  BY <1>1, <1>3, <1>10 DEF Greeting
<1>11. Owned(s)'
  <2>1. ASSUME NEW i \in 1..Len(replies'), replies'[i].session = Session(s)
        PROVE  replies'[i].sock = s
    BY <1>3, <1>6, <2>1 DEF Flow, Owned
  <2> QED BY <1>1, <1>2, <1>6, <2>1 DEF Flow, Owned
<1>12. AskedOnce(s)'
  BY <1>1, <1>8, <1>9 DEF AskedOnce
<1>13. GreetedOnce(s)'
  <2>1. \A i, j \in 1..Len(replies') : Greeting(i, s)' /\ Greeting(j, s)' => i = j
    BY <1>6, <1>10 DEF Flow, GreetedOnce
  <2> QED BY <2>1 DEF GreetedOnce
<1>14. /\ Run(got[s], Session(s), 0) /\ Len(got[s]) \in Nat /\ Len(got[s]) = chip[s].sent
  <2>1. Whole(s)
    BY <1>7 DEF Whole
  <2>2. Len(got[s]) + Len(<<>>) + Len(<<>>) = chip[s].sent
    BY <1>2, <1>6, <1>8, <2>1 DEF Flow, Counted
  <2>3. Len(got[s]) \in Nat /\ Len(<<>>) = 0
    OBVIOUS
  <2> QED BY <1>6, <2>2, <2>3 DEF Flow, Numbered
<1>15. Numbered(s)'
  <2>1. ASSUME NEW i \in 1..Len(replies'), Answer(i, s)'
        PROVE  Run(replies'[i].bytes, Session(s), Len(got[s]))
    BY <1>3, <1>9, <1>14, <2>1
  <2> QED BY <1>1, <1>6, <2>1 DEF Flow, Numbered
<1>16. Counted(s)'
  <2>1. ASSUME NEW i \in 1..Len(replies'), Answer(i, s)'
        PROVE  Len(got[s]) + Len(replies'[i].bytes) = chip'[s].sent
    BY <1>3, <1>9, <1>14, <2>1
  <2> QED BY <1>1, <1>5, <2>1 DEF Counted
<1>17. Unasked(s)' /\ Outstanding(s)'
  BY <1>1, <1>6, <1>7 DEF Flow, Unasked, Outstanding, At
<1>18. s \notin misled' => Led(s)'
  BY <1>1, <1>2, <1>6, <1>7, <1>10 DEF Led
<1> QED BY <1>1, <1>11, <1>12, <1>13, <1>15, <1>16, <1>17, <1>18 DEF Connection, Flow

\* What the chip does to the socket s, and no other.
ChipStep(s, r) ==
    /\ replies' = Append(replies, r) /\ r.sock = s /\ r.session = chip[s].session
    /\ \A t \in Sockets : chip'[t].session = chip[t].session /\ (t # s => chip'[t] = chip[t])
    /\ UNCHANGED <<host, pc, failures, history>>

LEMMA ChipElsewhere ==
    ASSUME IInv, IInv', SInv, NEW s \in Sockets, NEW r \in Replies, ChipStep(s, r),
           NEW t \in Sockets, ~(t = s /\ InStep(s))
    PROVE  Connection(t)'
<1> USE DEF Used, Session
<1>1. UNCHANGED <<gastrSockets, info, closing, handle, pc, got, misled, refused>>
  BY DEF ChipStep, host, history
<1>2. CASE ~Used(t)
  BY <1>1, <1>2 DEF SInv, Connection, Bare
<1>3. CASE Used(t)
  <2>1. r.session # Session(t)
    BY <1>3 DEF ChipStep, SInv, Connection, Flow, Owned, InStep
  <2>2. Kept(Session(t), 0)
    BY <2>1, AddedReply DEF ChipStep
  <2>3. InStep(t) => chip'[t] = chip[t]
    BY DEF ChipStep
  <2>4. Elsewhere(t)
    BY <1>1 DEF Elsewhere, At
  <2>5. Apart(t)
    BY <1>1, <2>2, <2>3, <2>4 DEF Apart, ChipStep
  <2> QED BY <1>1, <2>5, ApartConnection DEF SInv
<1> QED BY <1>2, <1>3

LEMMA ChipSession ==
    ASSUME IInv, NEW s \in Sockets, chip[s].state # "free" PROVE chip[s].session \in Sessions
BY DEF IInv, TypeOK, Numbers, ChipRecords, Sessions

LEMMA ChipConnection ==
    ASSUME IInv, IInv', SInv, Chip
    PROVE  (\A t \in Sockets : Connection(t)') /\ Greetings'
<1> USE DEF IInv, TypeOK, Used, Session
<1>1. \A s \in Sockets : chip[s].state # "free" => chip[s].session \in Sessions
  BY ChipSession
<1>2. ASSUME NEW r \in Replies, replies' = Append(replies, r),
             r.kind = "connect" => r.bytes = <<>>
      PROVE  Greetings'
  <2>1. PICK n \in Nat :
           /\ replies'[n] = r
           /\ \A i \in 1..Len(replies) : replies'[i] = replies[i]
           /\ \A i \in 1..Len(replies') : i = n \/ i \in 1..Len(replies)
    BY <1>2, Appended
  <2> QED BY <1>2, <2>1 DEF SInv, Greetings
<1>3. ASSUME NEW s \in Sockets, ChipConnects(s)
      PROVE  (\A t \in Sockets : Connection(t)') /\ Greetings'
  <2>1. PICK ok \in BOOLEAN :
          /\ chip[s].state = "connecting"
          /\ replies' = Append(replies, ConnectReply(s, ok))
          /\ chip' = [chip EXCEPT ![s].state = IF ok THEN "up" ELSE "refused"]
          /\ UNCHANGED <<host, pc, failures, history>>
    BY <1>3 DEF ChipConnects
  <2>2. PICK r : r = ConnectReply(s, ok)
    OBVIOUS
  <2>3. /\ r \in Replies /\ r.kind = "connect" /\ r.sock = s /\ r.session = chip[s].session
        /\ r.ok = ok /\ r.bytes = <<>>
    BY <1>1, <2>1, <2>2 DEF ConnectReply, Replies
  <2>4. /\ chip'[s].state = IF ok THEN "up" ELSE "refused"
        /\ chip'[s].session = chip[s].session /\ chip'[s].want = chip[s].want
        /\ chip'[s].sent = chip[s].sent
        /\ \A t \in Sockets : t # s => chip'[t] = chip[t]
    BY <2>1 DEF ChipRecords
  <2>5. ChipStep(s, r)
    BY <2>1, <2>2, <2>3, <2>4 DEF ChipStep
  <2>6. ASSUME InStep(s) PROVE Connection(s)'
    <3> HIDE DEF IInv, TypeOK
    <3> QED BY <2>1, <2>2, <2>3, <2>4, <2>5, <2>6, ChipGreets DEF ChipStep, InStep
  <2>7. \A t \in Sockets : Connection(t)'
    BY <2>3, <2>5, <2>6, ChipElsewhere
  <2> QED BY <1>2, <2>1, <2>2, <2>3, <2>7
<1>4. ASSUME NEW s \in Sockets, NEW bytes \in Seq(Bytes),
             chip[s].state = "up", chip[s].want,
             replies' = Append(replies, RecvReply(s, bytes)),
             Run(bytes, chip[s].session, chip[s].sent),
             ~chip'[s].want, chip'[s].state \in {"up", "ended"},
             chip'[s].sent = chip[s].sent + Len(bytes),
             chip'[s].session = chip[s].session,
             \A t \in Sockets : t # s => chip'[t] = chip[t],
             UNCHANGED <<host, pc, failures, history>>
      PROVE  (\A t \in Sockets : Connection(t)') /\ Greetings'
  <2>1. PICK r : r = RecvReply(s, bytes)
    OBVIOUS
  <2>2. /\ r \in Replies /\ r.kind = "recv" /\ r.sock = s /\ r.session = chip[s].session
        /\ r.bytes = bytes
    BY <1>1, <1>4, <2>1 DEF RecvReply, Replies
  <2>3. ChipStep(s, r)
    BY <1>4, <2>1, <2>2 DEF ChipStep
  <2>4. ASSUME InStep(s) PROVE Connection(s)'
    <3> HIDE DEF IInv, TypeOK
    <3> QED BY <1>4, <2>1, <2>2, <2>3, <2>4, ChipAnswers DEF ChipStep, InStep
  <2>5. \A t \in Sockets : Connection(t)'
    BY <2>2, <2>3, <2>4, ChipElsewhere
  <2> QED BY <1>2, <1>4, <2>1, <2>2, <2>5
<1>5. ASSUME NEW s \in Sockets, ChipReceives(s)
      PROVE  (\A t \in Sockets : Connection(t)') /\ Greetings'
  <2>1. PICK n \in 1..MaxReply :
          /\ chip[s].state = "up" /\ chip[s].want /\ chip[s].sent + n <= MaxSent
          /\ replies' = Append(replies,
                 RecvReply(s, [i \in 1..n |-> <<chip[s].session, chip[s].sent + i>>]))
          /\ chip' = [chip EXCEPT ![s].want = FALSE, ![s].sent = @ + n]
          /\ UNCHANGED <<host, pc, failures, history>>
    BY <1>5 DEF ChipReceives
  <2> DEFINE bytes == [i \in 1..n |-> <<chip[s].session, chip[s].sent + i>>]
  <2>2. chip[s].session \in Sessions /\ chip[s].sent \in Nat /\ n \in Nat
    <3>1. chip[s].session \in Sessions /\ chip[s] \in ChipRecords
      BY <1>1, <2>1
    <3>2. chip[s].sent \in 0..MaxSent
      BY <3>1 DEF ChipRecords
    <3> HIDE DEF IInv, TypeOK
    <3>3. chip[s].sent \in Nat
      BY <3>2, WifiAssumption
    <3>4. n \in Nat
      BY <2>1, WifiAssumption
    <3> QED BY <3>1, <3>3, <3>4
  <2>3. bytes \in Seq(Bytes)
    BY <2>1, <2>2, ReplyBytes
  <2>4. Len(bytes) = n /\ Run(bytes, chip[s].session, chip[s].sent)
    <3> HIDE DEF IInv, TypeOK
    <3>1. Len(bytes) = n
      BY <2>2
    <3>2. \A i \in 1..n : bytes[i] = <<chip[s].session, chip[s].sent + i>>
      OBVIOUS
    <3> QED BY <3>1, <3>2 DEF Run
  <2> HIDE DEF bytes
  <2>5. /\ ~chip'[s].want /\ chip'[s].state = "up"
        /\ chip'[s].sent = chip[s].sent + n /\ chip'[s].session = chip[s].session
        /\ \A t \in Sockets : t # s => chip'[t] = chip[t]
    BY <2>1 DEF ChipRecords
  <2>6. replies' = Append(replies, RecvReply(s, bytes))
    BY <2>1 DEF bytes
  <2> QED BY <1>4, <2>1, <2>3, <2>4, <2>5, <2>6
<1>6. ASSUME NEW s \in Sockets, ChipEnds(s)
      PROVE  (\A t \in Sockets : Connection(t)') /\ Greetings'
  <2>1. /\ chip[s].state = "up" /\ chip[s].want
        /\ replies' = Append(replies, RecvReply(s, <<>>))
        /\ chip' = [chip EXCEPT ![s].state = "ended", ![s].want = FALSE]
        /\ UNCHANGED <<host, pc, failures, history>>
    BY <1>6 DEF ChipEnds
  <2>2. /\ ~chip'[s].want /\ chip'[s].state = "ended"
        /\ chip'[s].sent = chip[s].sent /\ chip'[s].session = chip[s].session
        /\ \A t \in Sockets : t # s => chip'[t] = chip[t]
    BY <2>1 DEF ChipRecords
  <2>3. chip[s].sent \in Nat
    BY SMTT(30), WifiAssumption DEF ChipRecords
  <2>4. <<>> \in Seq(Bytes) /\ Run(<<>>, chip[s].session, chip[s].sent)
    BY DEF Run
  <2>5. chip'[s].sent = chip[s].sent + Len(<<>>)
    BY <2>2, <2>3
  <2> QED BY <1>4, <2>1, <2>2, <2>4, <2>5
<1> QED BY <1>3, <1>5, <1>6 DEF Chip

-----------------------------------------------------------------------------
(* The calls that change the connection of their client *)
LEMMA CreateConnection ==
    ASSUME IInv, IInv', SInv, NEW c \in Clients, Create(c)
    PROVE  (\A t \in Sockets : Connection(t)') /\ Busy'
<1> USE DEF IInv, TypeOK, Used, Session
<1>1. PICK s \in Sockets :
        /\ pc.op = "create" /\ pc.client = c
        /\ Allocated(s)
        /\ gastrSockets' = [gastrSockets EXCEPT ![s] =
               [used |-> TRUE, session |-> sessionID + 1, pending |-> FALSE]]
        /\ handle' = [handle EXCEPT ![c] = s]
        /\ \/ /\ To("connecting")
              /\ info' = [info EXCEPT ![s].state = "connecting"]
              /\ chip' = [chip EXCEPT ![s] = [session |-> sessionID + 1,
                             state |-> "connecting", want |-> FALSE, sent |-> 0]]
           \/ /\ To("stop")
              /\ info' = [info EXCEPT ![s].state = "idle"]
              /\ UNCHANGED chip
        /\ UNCHANGED <<closing, replies, history>>
  BY DEF Create
<1>2. ~Used(s) /\ Bare(s)
  BY <1>1 DEF Allocated, FreeSockets, SInv, Connection
<1>3. /\ pc'.op \in {"connecting", "stop"} /\ handle'[pc'.client] = s
      /\ pc'.op = "stop" => UNCHANGED chip
      /\ pc'.op = "connecting" =>
             chip'[s] = [session |-> sessionID + 1, state |-> "connecting", want |-> FALSE,
                         sent |-> 0]
  BY <1>1 DEF To, CallRecords
<1>4. /\ info'[s].state # "connected"
      /\ info'[s].buffer = <<>> /\ info'[s].rest = <<>> /\ got'[s] = <<>>
      /\ \A t \in Sockets : t # s => info'[t] = info[t]
  <2>1. \/ info' = [info EXCEPT ![s].state = "connecting"]
        \/ info' = [info EXCEPT ![s].state = "idle"]
    BY <1>1
  <2>2. /\ info'[s].state # "connected"
        /\ info'[s].buffer = info[s].buffer /\ info'[s].rest = info[s].rest
    <3>1. \/ info'[s] = [info[s] EXCEPT !.state = "connecting"]
          \/ info'[s] = [info[s] EXCEPT !.state = "idle"]
      BY <2>1
    <3>2. info[s] \in InfoRecords
      OBVIOUS
    <3> HIDE DEF IInv, TypeOK
    <3> QED BY <3>1, <3>2 DEF InfoRecords
  <2>3. \A t \in Sockets : t # s => info'[t] = info[t]
    BY <2>1
  <2> QED BY <1>1, <1>2, <2>2, <2>3 DEF Bare, history
<1>5. gastrSockets'[s] = [used |-> TRUE, session |-> sessionID + 1, pending |-> FALSE]
      /\ \A t \in Sockets : t # s => gastrSockets'[t] = gastrSockets[t]
  BY <1>1
<1>6. \A t \in Sockets : t # s => chip'[t] = chip[t]
  BY <1>1
<1>7. sessionID \in Nat
  BY WifiAssumption
<1>8. \A t \in Sockets : chip[t].session # sessionID + 1 /\ gastrSockets[t].session # sessionID + 1
  <2>1. ASSUME NEW t \in Sockets
        PROVE  chip[t].session # sessionID + 1 /\ gastrSockets[t].session # sessionID + 1
    <3>1. chip[t].session <= sessionID /\ gastrSockets[t].session <= sessionID
      BY DEF Numbers
    <3>2. chip[t].session \in 0..MaxSessions
      BY DEF ChipRecords
    <3>3. gastrSockets[t].session \in 0..MaxSessions
      BY DEF SocketRecords
    <3> HIDE DEF IInv, TypeOK
    <3> QED BY <1>7, <3>1, <3>2, <3>3, WifiAssumption
  <2> QED BY <2>1
<1>9. \A i \in 1..Len(replies') : replies'[i].session # sessionID + 1
  <2>1. ASSUME NEW i \in 1..Len(replies) PROVE replies[i].session # sessionID + 1
    <3>1. replies[i] \in Replies /\ replies[i].session <= sessionID
      BY DEF Numbers
    <3>2. replies[i].session \in 1..MaxSessions
      BY <3>1 DEF Replies, Sessions
    <3> QED BY <1>7, <3>1, <3>2, WifiAssumption
  <2> QED BY <1>1, <2>1
<1>10. ASSUME NEW t \in Sockets, t # s PROVE Connection(t)'
  <2>1. Elsewhere(t)
    BY <1>1, <1>3, <1>10 DEF Elsewhere, At
  <2>2. \A u \in Sockets : chip'[u].session = Session(t) => chip[u].session = Session(t)
    <3>1. chip'[s] = chip[s] \/ chip'[s].session = sessionID + 1
      BY <1>3
    <3> QED BY <1>6, <1>8, <3>1
  <2>3. Apart(t)
    BY <1>1, <1>4, <1>5, <1>6, <1>10, <2>1, <2>2, SameReplies DEF Apart, history
  <2> QED BY <1>4, <1>10, <2>3, ApartConnection DEF SInv
<1>11. Connection(s)'
  <2>1. Used(s)' /\ gastrSockets'[s].session = sessionID + 1 /\ ~gastrSockets'[s].pending
    BY <1>5
  <2>2. \A i \in 1..Len(replies') : ~Answer(i, s)' /\ ~Greeting(i, s)'
    BY <1>9, <2>1 DEF Answer, Greeting
  <2>3. InStep(s)' => pc'.op = "connecting"
    BY <1>3, <1>8, <2>1 DEF InStep
  <2>4. ~Asked(s)' /\ (InStep(s)' => ~chip'[s].want /\ chip'[s].sent = 0)
    BY <1>3, <2>2, <2>3 DEF Asked
  <2>5. Owned(s)'
    BY <1>6, <1>8, <1>9, <2>1 DEF Owned
  <2>6. AskedOnce(s)' /\ GreetedOnce(s)' /\ Unasked(s)'
    BY <2>1, <2>2, <2>4 DEF AskedOnce, GreetedOnce, Unasked
  <2>7. Numbered(s)'
    BY <1>4, <2>2 DEF Numbered, Run
  <2>8. Counted(s)'
    <3>1. Len(<<>>) = 0
      OBVIOUS
    <3> QED BY <1>4, <2>2, <2>4, <3>1 DEF Counted
  <2>9. Outstanding(s)' /\ Led(s)'
    BY <1>3, <1>4, <2>2, <2>4 DEF Outstanding, Led, At
  <2> QED BY <2>1, <2>5, <2>6, <2>7, <2>8, <2>9 DEF Connection, Flow
<1>12. Busy'
  BY <1>3, <1>4 DEF Busy, Bare
<1> QED BY <1>10, <1>11, <1>12

LEMMA RequestConnection ==
    ASSUME IInv, IInv', SInv, NEW s \in Sockets, Request(s), Used(s), ~Asked(s),
           At({"connecting", "reading"}, s), pc'.op \in {"idle", "poll"},
           info[s].state = "connected", info[s].buffer = <<>>, info[s].rest = <<>>,
           \A t \in Sockets : /\ info'[t].state = info[t].state
                              /\ info'[t].buffer = info[t].buffer /\ info'[t].rest = info[t].rest,
           UNCHANGED <<closing, handle, replies, got, misled>>
    PROVE  \A t \in Sockets : Connection(t)'
<1> USE DEF IInv, TypeOK, Used, Session
<1>1. Flow(s) /\ Outstanding(s) /\ (s \notin misled => Led(s))
  BY DEF SInv, Connection
<1>2. ~gastrSockets[s].pending
  BY <1>1 DEF Flow, Unasked
<1>3. /\ gastrSockets' = [gastrSockets EXCEPT ![s].pending = TRUE]
      /\ \/ chip' = [chip EXCEPT ![s].want = TRUE] /\ UNCHANGED refused
         \/ refused' = refused \union {s} /\ UNCHANGED chip
  BY <1>2 DEF Request
<1>4. gastrSockets'[s].used /\ gastrSockets'[s].session = gastrSockets[s].session
      /\ \A t \in Sockets : t # s => gastrSockets'[t] = gastrSockets[t]
  BY <1>3 DEF SocketRecords
<1>5. /\ \A t \in Sockets : /\ t # s => chip'[t] = chip[t]
                            /\ chip'[t].session = chip[t].session
      /\ chip'[s].state = chip[s].state /\ chip'[s].sent = chip[s].sent
      /\ chip'[s].want \/ s \in refused'
  <2>1. CASE chip' = [chip EXCEPT ![s].want = TRUE]
    <3>1. /\ chip'[s] = [chip[s] EXCEPT !.want = TRUE]
          /\ \A t \in Sockets : t # s => chip'[t] = chip[t]
      BY <2>1
    <3>2. /\ chip'[s].session = chip[s].session /\ chip'[s].state = chip[s].state
          /\ chip'[s].sent = chip[s].sent /\ chip'[s].want
      BY <3>1 DEF ChipRecords
    <3> QED BY <3>1, <3>2
  <2>2. CASE refused' = refused \union {s} /\ UNCHANGED chip
    BY <2>2
  <2> QED BY <1>3, <2>1, <2>2
<1>6. ASSUME NEW t \in Sockets, t # s PROVE Connection(t)'
  <2>1. Elsewhere(t)
    BY <1>6 DEF Elsewhere, At
  <2>2. t \in refused => t \in refused'
    BY <1>3
  <2>3. Apart(t)
    BY <1>4, <1>5, <1>6, <2>1, <2>2, SameReplies DEF Apart
  <2> QED BY <2>3, ApartConnection DEF SInv
<1>7. \A i \in 1..Len(replies') : /\ ~Answer(i, s)'
                                  /\ Greeting(i, s)' => Greeting(i, s)
  BY <1>4 DEF Asked, Answer, Greeting
<1>8. InStep(s)' <=> InStep(s)
  BY <1>4, <1>5 DEF InStep
<1>9. Owned(s)'
  BY <1>1, <1>4, <1>5, <1>8 DEF Flow, Owned
<1>10. AskedOnce(s)' /\ Unasked(s)'
  BY <1>7 DEF AskedOnce, Unasked, At
<1>11. GreetedOnce(s)'
  BY <1>1, <1>5, <1>7 DEF Flow, GreetedOnce
<1>12. Numbered(s)'
  BY <1>1, <1>4, <1>7 DEF Flow, Numbered
<1>13. Counted(s)'
  <2>1. Whole(s) /\ \A i \in 1..Len(replies) : ~Answer(i, s)
    BY DEF Whole, Asked
  <2> QED BY <1>1, <1>5, <1>7, <1>8, <2>1 DEF Flow, Counted
<1>14. s \notin misled' => Led(s)'
  BY <1>1, <1>5, <1>7, <1>8 DEF Led
<1>15. Outstanding(s)'
  BY <1>1, <1>5, <1>8 DEF Outstanding, Asked, Led
<1>16. Connection(s)'
  BY <1>4, <1>9, <1>10, <1>11, <1>12, <1>13, <1>14, <1>15 DEF Connection, Flow
<1> QED BY <1>6, <1>16

LEMMA ConnectedConnection ==
    ASSUME IInv, IInv', SInv, NEW c \in Clients, Connected(c)
    PROVE  \A t \in Sockets : Connection(t)'
<1> USE DEF IInv, TypeOK
<1>1. /\ pc.op = "connecting" /\ pc.client = c
      /\ info' = [info EXCEPT ![handle[c]].rest = <<>>]
      /\ Request(handle[c]) /\ info[handle[c]].state = "connected"
      /\ pc'.op = "idle"
      /\ UNCHANGED <<closing, handle, replies, got, misled>>
  BY DEF Connected, Handled, Idle
<1>2. PICK s \in Sockets : s = handle[c]
  BY <1>1 DEF Calls, WithSocket
<1>3. Quiet(s) /\ Bare(s)
  BY <1>1, <1>2 DEF Fresh, SInv, Busy
<1>4. Used(s)
  BY <1>3 DEF Quiet, InStep, Used
<1>5. ~Asked(s)
  BY <1>3, <1>4 DEF SInv, Connection, Flow, Owned, Quiet, Asked, Answer, Session
<1>6. \A t \in Sockets : /\ info'[t].state = info[t].state
                         /\ info'[t].buffer = info[t].buffer /\ info'[t].rest = info[t].rest
  <2>1. ASSUME NEW t \in Sockets, t # s PROVE info'[t] = info[t]
    BY <1>1, <1>2, <2>1
  <2>2. info'[s] = [info[s] EXCEPT !.rest = <<>>]
    BY <1>1, <1>2
  <2>3. /\ info'[s].state = info[s].state /\ info'[s].buffer = info[s].buffer
        /\ info'[s].rest = <<>> /\ info[s].rest = <<>>
    BY <1>3, <2>2 DEF Bare, InfoRecords
  <2> QED BY <2>1, <2>3
<1>7. At({"connecting", "reading"}, s) /\ info[s].buffer = <<>> /\ info[s].rest = <<>>
  BY <1>1, <1>2, <1>3 DEF At, Bare
<1> HIDE DEF IInv, TypeOK
<1> QED BY <1>1, <1>2, <1>4, <1>5, <1>6, <1>7, RequestConnection

LEMMA ReadEndsConnection ==
    ASSUME IInv, IInv', SInv, NEW c \in Clients, ReadEnds(c)
    PROVE  \A t \in Sockets : Connection(t)'
<1> USE DEF IInv, TypeOK
<1>1. /\ pc.op = "reading" /\ pc.client = c /\ pc'.op \in {"idle", "poll"}
      /\ UNCHANGED <<info, closing, handle, replies, got, misled>>
  BY DEF ReadEnds, Idle
<1>2. PICK s \in Sockets : s = handle[c]
  BY <1>1 DEF Calls, WithSocket
<1>3. Used(s) /\ info[s].state = "connected" /\ ~Asked(s) /\ At({"connecting", "reading"}, s)
  BY <1>1, <1>2 DEF SInv, Busy, At
<1>4. CASE Available(s) = 0
  <2>1. info[s].buffer \in Seq(Bytes) /\ info[s].rest \in Seq(Bytes)
    BY DEF InfoRecords
  <2>2. PICK b, l \in Seq(Bytes) : b = info[s].buffer /\ l = info[s].rest
    BY <2>1
  <2>3. Len(b) + Len(l) = 0
    BY <1>4, <2>2 DEF Available
  <2>4. Len(b) = 0 /\ Len(l) = 0
    BY <2>3
  <2>5. info[s].buffer = <<>> /\ info[s].rest = <<>>
    BY <2>2, <2>4
  <2>6. Request(s)
    BY <1>2, <1>4 DEF ReadEnds
  <2> HIDE DEF IInv, TypeOK
  <2> QED BY <1>1, <1>2, <1>3, <2>5, <2>6, RequestConnection
<1>5. CASE Available(s) # 0
  <2>1. UNCHANGED <<gastrSockets, chip, refused>>
    BY <1>2, <1>5 DEF ReadEnds
  <2>2. info[s].buffer # <<>> \/ info[s].rest # <<>>
    <3>1. ASSUME info[s].buffer = <<>>, info[s].rest = <<>> PROVE FALSE
      <4>1. Len(<<>>) + Len(<<>>) = 0
        OBVIOUS
      <4> QED BY <1>5, <3>1, <4>1 DEF Available
    <3> QED BY <3>1
  <2>3. \A t \in Sockets : Elsewhere(t)
    BY <1>1, <1>2, <2>2 DEF Elsewhere, At
  <2> QED BY <1>1, <2>1, <2>3, CallConnection DEF theChip, history
<1> QED BY <1>4, <1>5

\* Data of s moves from the chip to the buffer and from there to the sketch.
Moved(s) ==
    /\ Run(got'[s], Session(s), 0)
    /\ Run(info'[s].buffer, Session(s), Len(got'[s]))
    /\ Run(info'[s].rest, Session(s), Len(got'[s]) + Len(info'[s].buffer))
    /\ Len(got'[s]) + Len(info'[s].buffer) + Len(info'[s].rest) =
           Len(got[s]) + Len(info[s].buffer) + Len(info[s].rest)
    /\ info'[s].state = info[s].state
    /\ At({"connecting", "reading"}, s) \/ info[s].buffer # <<>> \/ info[s].rest # <<>>
    /\ At({"reading"}, s)' \/ info'[s].buffer # <<>>
    /\ ~At({"connecting"}, s)'
    /\ \A t \in Sockets : t # s => info'[t] = info[t] /\ got'[t] = got[t]
    /\ pc'.op = pc.op \/ (pc.op = "peek" /\ pc'.op = "idle")
    /\ pc'.client = pc.client \/ pc'.op = "idle"
    /\ UNCHANGED <<gastrSockets, closing, handle, theChip, misled, refused>>

LEMMA MovedConnection ==
    ASSUME IInv, IInv', SInv, NEW s \in Sockets, Used(s), ~Asked(s), Moved(s)
    PROVE  \A t \in Sockets : Connection(t)'
<1> USE DEF Used, Session
<1>1. UNCHANGED <<gastrSockets, closing, handle, chip, replies, misled, refused>>
  BY DEF Moved, theChip
<1>2. ASSUME NEW t \in Sockets, t # s PROVE Connection(t)'
  <2>1. Elsewhere(t)
    BY <1>1, <1>2 DEF Elsewhere, At, Moved
  <2>2. Apart(t)
    BY <1>1, <1>2, <2>1, SameReplies DEF Apart, Moved
  <2> QED BY <1>2, <2>2, ApartConnection DEF SInv, Moved
<1>3. Flow(s) /\ Outstanding(s) /\ (s \notin misled => Led(s))
  BY DEF SInv, Connection
<1>4. \A i \in 1..Len(replies) : ~Answer(i, s) /\ ~Answer(i, s)'
  BY <1>1 DEF Asked, Answer
<1>5. ~Asked(s)' /\ (InStep(s)' <=> InStep(s))
  BY <1>1 DEF Asked, Answer, InStep
<1>6. Owned(s)' /\ AskedOnce(s)' /\ GreetedOnce(s)'
  BY <1>1, <1>3, <1>5 DEF Flow, Owned, AskedOnce, GreetedOnce, InStep, Asked, Answer, Greeting
<1>7. Numbered(s)'
  BY <1>1, <1>4 DEF Numbered, Moved
<1>8. Counted(s)'
  <2>1. Whole(s)
    BY DEF Whole, Moved
  <2> QED BY <1>1, <1>3, <1>4, <1>5, <2>1 DEF Flow, Counted, Moved
<1>9. Unasked(s)'
  BY <1>1, <1>3 DEF Flow, Unasked, Moved
<1>10. Outstanding(s)'
  BY DEF Outstanding, Moved, At
<1>11. s \notin misled' => Led(s)'
  BY <1>1, <1>3, <1>5 DEF Led, Moved, InStep, Greeting, At
<1> QED BY <1>1, <1>2, <1>3, <1>6, <1>7, <1>8, <1>9, <1>10, <1>11 DEF Connection, Flow

\* The buffer, filled again from the chip when that is due, holds the next bytes.
LEMMA FetchedRun ==
    ASSUME IInv, NEW s \in Sockets, Numbered(s)
    PROVE  \E b, l \in Seq(Bytes) :
               /\ (IF ToFill(s) THEN Filled(info[s], info[s].rest) ELSE info[s]) =
                      [info[s] EXCEPT !.buffer = b, !.rest = l]
               /\ Run(b, Session(s), Len(got[s])) /\ Run(l, Session(s), Len(got[s]) + Len(b))
               /\ Len(got[s]) + Len(b) + Len(l) =
                      Len(got[s]) + Len(info[s].buffer) + Len(info[s].rest)
               /\ ToFill(s) => b # <<>>
<1>1. PICK i \in InfoRecords, k \in Nat, q \in {Session(s)} :
          i = info[s] /\ k = Len(got[s]) /\ q = Session(s)
  BY DEF IInv, TypeOK
<1>2. PICK b, l \in Seq(Bytes) : b = i.buffer /\ l = i.rest
  BY DEF InfoRecords
<1>3. Run(b, q, k) /\ Run(l, q, k + Len(b))
  BY <1>1, <1>2 DEF Numbered
<1>4. CASE ToFill(s)
  <2>1. b = <<>> /\ l # <<>>
    BY <1>1, <1>2, <1>4 DEF ToFill
  <2>2. Run(l, q, k)
    <3>1. k + Len(<<>>) = k
      OBVIOUS
    <3> QED BY <1>3, <2>1, <3>1
  <2>3. PICK b2, l2 \in Seq(Bytes) :
          /\ Filled(i, l) = [i EXCEPT !.buffer = b2, !.rest = l2]
          /\ Run(b2, q, k) /\ Run(l2, q, k + Len(b2))
          /\ Len(b2) + Len(l2) = Len(l)
          /\ l # <<>> => b2 # <<>>
    BY <2>2, FilledRun
  <2>4. k + Len(b2) + Len(l2) = k + Len(b) + Len(l)
    <3>1. Len(b) = 0 /\ Len(l) \in Nat /\ Len(b2) \in Nat /\ Len(l2) \in Nat
      BY <2>1
    <3>2. Len(b2) + Len(l2) = Len(b) + Len(l)
      BY <2>3, <3>1
    <3> QED BY <3>1, <3>2
  <2> QED BY <1>1, <1>2, <1>4, <2>1, <2>3, <2>4
<1>5. CASE ~ToFill(s)
  <2>1. i = [i EXCEPT !.buffer = b, !.rest = l]
    BY <1>2 DEF InfoRecords
  <2> QED BY <1>1, <1>2, <1>3, <1>5, <2>1
<1> QED BY <1>4, <1>5

LEMMA PeekConnection ==
    ASSUME IInv, IInv', SInv, NEW c \in Clients, Peek(c)
    PROVE  \A t \in Sockets : Connection(t)'
<1> USE DEF IInv, TypeOK
<1>1. /\ pc.op = "peek" /\ pc.client = c /\ pc'.op = "idle"
      /\ UNCHANGED <<gastrSockets, closing, handle, theChip, history>>
  BY DEF Peek, Handled, Idle
<1>2. PICK s \in Sockets : s = handle[c]
  BY <1>1 DEF Calls, WithSocket
<1>3. info' = [info EXCEPT ![s] =
                  IF ToFill(s) THEN Filled(info[s], info[s].rest) ELSE info[s]]
  BY <1>2 DEF Peek
<1>4. CASE ~ToFill(s)
  <2>1. info' = info
    BY <1>3, <1>4
  <2>2. \A t \in Sockets : Elsewhere(t)
    BY <1>1 DEF Elsewhere, At
  <2> QED BY <1>1, <2>1, <2>2, CallConnection
<1>5. CASE ToFill(s)
  <2>1. Used(s) /\ info[s].rest # <<>>
    BY <1>5 DEF ToFill, NoWedge, Holds, Used
  <2>2. ~Asked(s) /\ Numbered(s)
    BY <2>1 DEF SInv, Connection, Flow, AskedOnce
  <2>3. PICK b, l \in Seq(Bytes) :
          /\ (IF ToFill(s) THEN Filled(info[s], info[s].rest) ELSE info[s]) =
                 [info[s] EXCEPT !.buffer = b, !.rest = l]
          /\ Run(b, Session(s), Len(got[s])) /\ Run(l, Session(s), Len(got[s]) + Len(b))
          /\ Len(got[s]) + Len(b) + Len(l) =
                 Len(got[s]) + Len(info[s].buffer) + Len(info[s].rest)
          /\ ToFill(s) => b # <<>>
    BY <2>2, FetchedRun
  <2>4. info'[s] = [info[s] EXCEPT !.buffer = b, !.rest = l]
        /\ \A t \in Sockets : t # s => info'[t] = info[t]
    BY <1>3, <2>3
  <2>5. info'[s].state = info[s].state /\ info'[s].buffer = b /\ info'[s].rest = l
    BY <2>4 DEF InfoRecords
  <2>6. /\ got' = got /\ UNCHANGED <<misled, refused>>
        /\ Run(got[s], Session(s), 0)
    BY <1>1, <2>2 DEF history, Numbered
  <2>7. Moved(s)
    BY <1>1, <1>5, <2>1, <2>3, <2>4, <2>5, <2>6 DEF Moved, At
  <2> QED BY <2>1, <2>2, <2>7, MovedConnection
<1> QED BY <1>4, <1>5

\* n bytes at the front of the buffer b go to the end of what the sketch has read.
LEMMA ReadRun ==
    ASSUME NEW g \in Seq(Bytes), NEW b \in Seq(Bytes), NEW q, NEW n \in 0..Len(b),
           Run(g, q, 0), Run(b, q, Len(g))
    PROVE  /\ g \o SubSeq(b, 1, n) \in Seq(Bytes) /\ SubSeq(b, n + 1, Len(b)) \in Seq(Bytes)
           /\ Len(g \o SubSeq(b, 1, n)) = Len(g) + n
           /\ Len(SubSeq(b, n + 1, Len(b))) = Len(b) - n
           /\ Run(g \o SubSeq(b, 1, n), q, 0)
           /\ Run(SubSeq(b, n + 1, Len(b)), q, Len(g) + n)
<1> DEFINE f == SubSeq(b, 1, n)
           e == SubSeq(b, n + 1, Len(b))
<1>1. \A j \in 1..Len(b) : b[j] \in Bytes
  OBVIOUS
<1>2. f \in Seq(Bytes) /\ Len(f) = n /\ \A j \in 1..n : f[j] = b[j]
  <2>1. \A j \in 1..n : b[j] \in Bytes
    BY <1>1
  <2> QED BY <2>1, SubSeqProperties
<1>3. e \in Seq(Bytes) /\ Len(e) = Len(b) - n /\ \A j \in 1..(Len(b) - n) : e[j] = b[n + j]
  <2>1. \A j \in (n + 1)..Len(b) : b[j] \in Bytes
    BY <1>1
  <2>2. /\ e \in Seq(Bytes) /\ Len(e) = Len(b) - n
        /\ \A j \in 1..(Len(b) - n) : e[j] = b[(n + 1) + j - 1]
    BY <2>1, SubSeqProperties
  <2>3. \A j \in 1..(Len(b) - n) : (n + 1) + j - 1 = n + j
    OBVIOUS
  <2> QED BY <2>2, <2>3
<1> HIDE DEF f, e
<1>4. PICK h : h = g \o f
  OBVIOUS
<1>5. /\ h \in Seq(Bytes) /\ Len(h) = Len(g) + n
      /\ \A j \in 1..(Len(g) + n) : h[j] = IF j <= Len(g) THEN g[j] ELSE f[j - Len(g)]
  <2>1. /\ (g \o f) \in Seq(Bytes) /\ Len(g \o f) = Len(g) + Len(f)
        /\ \A j \in 1..(Len(g) + Len(f)) :
               (g \o f)[j] = IF j <= Len(g) THEN g[j] ELSE f[j - Len(g)]
    BY <1>2, ConcatProperties
  <2> QED BY <1>2, <1>4, <2>1
<1>6. Run(h, q, 0)
  <2>1. ASSUME NEW j \in 1..Len(h) PROVE h[j] = <<q, 0 + j>>
    <3>1. CASE j <= Len(g)
      <4>1. j \in 1..Len(g) /\ h[j] = g[j]
        BY <1>5, <3>1
      <4> QED BY <4>1 DEF Run
    <3>2. CASE ~(j <= Len(g))
      <4>1. j - Len(g) \in 1..n /\ h[j] = f[j - Len(g)]
        BY <1>5, <3>2
      <4>2. h[j] = b[j - Len(g)] /\ j - Len(g) \in 1..Len(b) /\ Len(g) + (j - Len(g)) = 0 + j
        BY <1>2, <4>1
      <4> QED BY <4>2 DEF Run
    <3> QED BY <3>1, <3>2
  <2> QED BY <2>1 DEF Run
<1>7. Run(e, q, Len(g) + n)
  <2>1. ASSUME NEW j \in 1..Len(e) PROVE e[j] = <<q, (Len(g) + n) + j>>
    <3>1. n + j \in 1..Len(b) /\ e[j] = b[n + j] /\ Len(g) + (n + j) = (Len(g) + n) + j
      BY <1>3
    <3> QED BY <3>1 DEF Run
  <2> QED BY <2>1 DEF Run
<1> QED BY <1>3, <1>4, <1>5, <1>6, <1>7 DEF f, e

LEMMA CopyConnection ==
    ASSUME IInv, IInv', SInv, NEW c \in Clients, Copy(c)
    PROVE  (\A t \in Sockets : Connection(t)') /\ Busy'
<1> USE DEF IInv, TypeOK
<1>1. /\ pc.op = "reading" /\ pc.client = c
      /\ UNCHANGED <<gastrSockets, closing, handle, theChip, misled, refused>>
      /\ pc'.op = pc.op /\ pc'.client = pc.client
  BY DEF Copy, CallRecords
<1>2. PICK s \in Sockets : s = handle[c]
  BY <1>1 DEF Calls, WithSocket
<1>3. Used(s) /\ info[s].state = "connected" /\ ~Asked(s)
  BY <1>1, <1>2 DEF SInv, Busy
<1>4. Numbered(s)
  BY <1>3 DEF SInv, Connection, Flow
<1>5. PICK b, l \in Seq(Bytes) :
        /\ (IF ToFill(s) THEN Filled(info[s], info[s].rest) ELSE info[s]) =
               [info[s] EXCEPT !.buffer = b, !.rest = l]
        /\ Run(b, Session(s), Len(got[s])) /\ Run(l, Session(s), Len(got[s]) + Len(b))
        /\ Len(got[s]) + Len(b) + Len(l) =
               Len(got[s]) + Len(info[s].buffer) + Len(info[s].rest)
        /\ ToFill(s) => b # <<>>
  BY <1>4, FetchedRun
<1>6. PICK i : i = [info[s] EXCEPT !.buffer = b, !.rest = l]
  OBVIOUS
<1>7. i.buffer = b /\ i.rest = l /\ i.state = info[s].state /\ i \in InfoRecords
  <2>1. info[s] \in InfoRecords
    OBVIOUS
  <2> HIDE DEF IInv, TypeOK
  <2> QED BY <1>6, <2>1 DEF InfoRecords
<1>8. PICK n : n = IF pc.size > Len(b) THEN Len(b) ELSE pc.size
  OBVIOUS
<1>9. n \in 0..Len(b)
  BY <1>8, WifiAssumption DEF CallRecords
<1>10. /\ info' = [info EXCEPT ![s] = [i EXCEPT !.buffer = SubSeq(b, n + 1, Len(b))]]
       /\ got' = [got EXCEPT ![s] = got[s] \o SubSeq(b, 1, n)]
  BY <1>2, <1>5, <1>6, <1>7, <1>8 DEF Copy
<1>11. PICK g \in Seq(Bytes), q \in {Session(s)} : g = got[s] /\ q = Session(s)
  OBVIOUS
<1>12. Run(g, q, 0) /\ Run(b, q, Len(g)) /\ Run(l, q, Len(g) + Len(b))
  BY <1>4, <1>5, <1>11 DEF Numbered
<1>13. PICK h, e : h = g \o SubSeq(b, 1, n) /\ e = SubSeq(b, n + 1, Len(b))
  OBVIOUS
<1>14. /\ h \in Seq(Bytes) /\ e \in Seq(Bytes)
       /\ Len(h) = Len(g) + n /\ Len(e) = Len(b) - n
       /\ Run(h, q, 0) /\ Run(e, q, Len(g) + n)
  <2> HIDE DEF IInv, TypeOK
  <2>1. /\ g \o SubSeq(b, 1, n) \in Seq(Bytes) /\ SubSeq(b, n + 1, Len(b)) \in Seq(Bytes)
        /\ Len(g \o SubSeq(b, 1, n)) = Len(g) + n
        /\ Len(SubSeq(b, n + 1, Len(b))) = Len(b) - n
        /\ Run(g \o SubSeq(b, 1, n), q, 0)
        /\ Run(SubSeq(b, n + 1, Len(b)), q, Len(g) + n)
    BY <1>9, <1>12, ReadRun
  <2> QED BY <1>13, <2>1
<1>15. /\ info'[s] = [i EXCEPT !.buffer = e] /\ got'[s] = h
       /\ \A t \in Sockets : t # s => info'[t] = info[t] /\ got'[t] = got[t]
  BY <1>10, <1>11, <1>13
<1>16. info'[s].state = info[s].state /\ info'[s].buffer = e /\ info'[s].rest = l
  BY <1>7, <1>15 DEF InfoRecords
<1>17. Len(h) + Len(e) = Len(g) + Len(b)
  BY <1>9, <1>14
<1>18. Len(h) + Len(e) + Len(l) = Len(got[s]) + Len(info[s].buffer) + Len(info[s].rest)
  BY <1>5, <1>11, <1>17
<1>19. Run(l, q, Len(h) + Len(e))
  BY <1>12, <1>17
<1>20. Moved(s)
  <2>1. /\ Run(got'[s], Session(s), 0)
        /\ Run(info'[s].buffer, Session(s), Len(got'[s]))
        /\ Run(info'[s].rest, Session(s), Len(got'[s]) + Len(info'[s].buffer))
    BY <1>11, <1>14, <1>15, <1>16, <1>19
  <2>2. /\ At({"connecting", "reading"}, s) /\ At({"reading"}, s)' /\ ~At({"connecting"}, s)'
    BY <1>1, <1>2 DEF At
  <2>3. Len(got'[s]) + Len(info'[s].buffer) + Len(info'[s].rest) =
            Len(got[s]) + Len(info[s].buffer) + Len(info[s].rest)
    BY <1>15, <1>16, <1>18
  <2> HIDE DEF IInv, TypeOK
  <2>4. /\ info'[s].state = info[s].state
        /\ \A t \in Sockets : t # s => info'[t] = info[t] /\ got'[t] = got[t]
        /\ pc'.op = pc.op /\ pc'.client = pc.client
        /\ UNCHANGED <<gastrSockets, closing, handle, theChip, misled, refused>>
    BY <1>1, <1>15, <1>16
  <2> QED BY <2>1, <2>2, <2>3, <2>4 DEF Moved
<1>21. \A t \in Sockets : Connection(t)'
  <2> HIDE DEF IInv, TypeOK
  <2> QED BY <1>3, <1>20, MovedConnection
<1>22. Busy'
  <2>1. UNCHANGED <<chip, replies>>
    BY <1>1 DEF theChip
  <2>2. Used(s)' /\ ~Asked(s)' /\ info'[s].state = "connected"
    BY <1>1, <1>3, <1>16, <2>1 DEF Used, Asked, Answer, InStep, Session
  <2> QED BY <1>1, <1>2, <2>2 DEF Busy
<1> QED BY <1>21, <1>22

\* WiFiSocketClass::close, from each place that calls it
LEMMA ClosesConnection ==
    ASSUME IInv, IInv', SInv, HandleClose \/ \E c \in Clients : StopFirst(c) \/ Stop(c)
    PROVE  \A t \in Sockets : Connection(t)'
<1> USE DEF IInv, TypeOK
<1>1. CASE HandleClose
  <2>1. PICK s : s = Head(closing)
    OBVIOUS
  <2>2. /\ closing # <<>> /\ closing' = Tail(closing) /\ Close(s)
        /\ UNCHANGED <<handle, pc, replies>>
    BY <1>1, <2>1 DEF HandleClose
  <2>3. /\ s = closing[1] /\ s \in Sockets /\ Len(closing') = Len(closing) - 1
        /\ Len(closing) \in Nat
        /\ \A i \in 1..Len(closing') : closing'[i] = closing[i + 1]
    BY <2>1, <2>2, HeadTailProperties
  <2>4. ASSUME NEW t \in Sockets, t # s PROVE Elsewhere(t)
    <3>1. ASSUME NEW i \in 1..Len(closing), closing[i] = t
          PROVE  i - 1 \in 1..Len(closing') /\ closing'[i - 1] = t
      <4>1. i # 1
        BY <2>3, <2>4, <3>1
      <4>2. i - 1 \in 1..Len(closing') /\ (i - 1) + 1 = i
        BY <2>3, <4>1
      <4> QED BY <2>3, <3>1, <4>2
    <3> QED BY <2>2, <3>1 DEF Elsewhere, At
  <2> HIDE DEF IInv, TypeOK
  <2> QED BY <2>2, <2>3, <2>4, CloseConnection
<1>2. ASSUME NEW c \in Clients, StopFirst(c) \/ Stop(c) PROVE \A t \in Sockets : Connection(t)'
  <2>1. /\ pc.op \in {"reconnect", "stop"} /\ pc.client = c /\ pc'.op \in {"create", "idle"}
        /\ Close(handle[c]) /\ UNCHANGED <<closing, replies>>
    BY <1>2 DEF StopFirst, Stop, Handled, To, CallRecords, Idle
  <2>2. PICK s \in Sockets : s = handle[c]
    BY <2>1 DEF Calls, WithSocket
  <2>3. \A t \in Sockets : t # s => Elsewhere(t)
    BY <2>1, <2>2 DEF Elsewhere, At
  <2> HIDE DEF IInv, TypeOK
  <2> QED BY <2>1, <2>2, <2>3, CloseConnection
<1> QED BY <1>1, <1>2

LEMMA ReplyConnection ==
    ASSUME IInv, IInv', SInv, HandleReply
    PROVE  (\A t \in Sockets : Connection(t)') /\ Greetings'
<1>1. \A t \in Sockets : Connection(t)'
  BY GreetingHandled, AnswerApart, AnswerTaken
<1>2. /\ replies' = Tail(replies) /\ Len(replies') = Len(replies) - 1 /\ Len(replies) \in Nat
      /\ \A i \in 1..Len(replies') : replies'[i] = replies[i + 1]
  BY HeadTailProperties DEF HandleReply, IInv, TypeOK
<1>3. ASSUME NEW i \in 1..Len(replies'), replies'[i].kind = "connect"
      PROVE  replies'[i].bytes = <<>>
  <2>1. i + 1 \in 1..Len(replies) /\ replies'[i] = replies[i + 1]
    BY <1>2
  <2> QED BY <1>3, <2>1 DEF SInv, Greetings
<1> QED BY <1>1, <1>3 DEF Greetings

LEMMA ConnectionStep ==
    ASSUME IInv, IInv', SInv, [Next]_vars
    PROVE  (\A t \in Sockets : Connection(t)') /\ Greetings'
<1>1. CASE Chip \/ HandleReply
  BY <1>1, ChipConnection, ReplyConnection
<1>2. CASE HandleClose
  BY <1>2, ClosesConnection DEF HandleClose, SInv, Greetings
<1>3. CASE BeginPoll \/ EndPoll \/ UNCHANGED vars \/ \E c \in Clients : Start(c)
  <2>1. UNCHANGED replies
    BY <1>3 DEF BeginPoll, EndPoll, Start, BeginConnect, BeginRead, BeginPeek, BeginStop, Begin,
                vars, theChip
  <2>2. Greetings'
    BY <2>1 DEF SInv, Greetings
  <2> QED BY <1>3, <2>2, PlainConnection
<1>4. ASSUME NEW c \in Clients, Continue(c)
      PROVE  (\A t \in Sockets : Connection(t)') /\ Greetings'
  <2>1. UNCHANGED replies
    BY <1>4 DEF Continue, CheckConnected, StopFirst, CreateFails, Create, Connected, ConnectFails,
                Stop, ReadNothing, ReadSome, Peek, Copy, ReadEnds, theChip
  <2>2. Greetings'
    BY <2>1 DEF SInv, Greetings
  <2>3. CASE CheckConnected(c) \/ CreateFails(c) \/ ConnectFails(c) \/ ReadNothing(c) \/ ReadSome(c)
    BY <2>2, <2>3, PlainConnection
  <2>4. CASE StopFirst(c) \/ Stop(c)
    BY <2>2, <2>4, ClosesConnection
  <2>5. CASE Create(c) \/ Connected(c) \/ Peek(c) \/ Copy(c) \/ ReadEnds(c)
    BY <2>2, <2>5, CreateConnection, ConnectedConnection, PeekConnection, CopyConnection,
       ReadEndsConnection
  <2> QED BY <1>4, <2>3, <2>4, <2>5 DEF Continue
<1> QED BY <1>1, <1>2, <1>3, <1>4 DEF Next, Call

\* While a read copies, nothing is asked for; while a connect waits, its socket
\* has no data.
LEMMA BusyStep ==
    ASSUME IInv, IInv', SInv, [Next]_vars
    PROVE  Busy'
<1> USE DEF IInv, TypeOK
<1>1. CASE Chip
  <2>1. PICK u \in Sockets, r \in Replies : Replied(u, r)
    BY <1>1, ChipReply
  <2>2. UNCHANGED <<gastrSockets, info, handle, pc, got>>
    BY <2>1 DEF Replied, host, history
  <2>3. ASSUME pc.op = "reading"
        PROVE  /\ Used(handle[pc.client])' /\ info'[handle[pc.client]].state = "connected"
               /\ ~Asked(handle[pc.client])'
    <3>1. PICK s \in Sockets : s = handle[pc.client]
      BY <2>3 DEF Calls, WithSocket
    <3>2. Used(s) /\ info[s].state = "connected" /\ ~Asked(s)
      BY <2>3, <3>1 DEF SInv, Busy
    <3>3. Owned(s)
      BY <3>2 DEF SInv, Connection, Flow
    <3>4. ~(InStep(s)' /\ chip'[s].want)
      BY <2>1, <2>2, <3>2 DEF Asked, InStep, Replied
    <3>5. ~(r.kind = "recv" /\ r.session = Session(s))
      BY <2>1, <3>2, <3>3 DEF Asked, InStep, Replied, Owned, Used, Session
    <3>6. replies' = Append(replies, r)
      BY <2>1 DEF Replied
    <3>7. PICK n \in Nat :
          /\ replies'[n] = r
          /\ \A i \in 1..Len(replies) : replies'[i] = replies[i]
          /\ \A i \in 1..Len(replies') : i = n \/ i \in 1..Len(replies)
      BY <3>6, Appended
    <3>8. \A i \in 1..Len(replies') : ~Answer(i, s)'
      BY <2>2, <3>2, <3>5, <3>7 DEF Asked, Answer, Session
    <3> QED BY <2>2, <3>1, <3>2, <3>4, <3>8 DEF Asked, Used
  <2>4. ASSUME pc.op = "connecting" PROVE Bare(handle[pc.client])'
    BY <2>2, <2>4 DEF SInv, Busy, Bare
  <2> QED BY <2>2, <2>3, <2>4 DEF Busy
<1>2. CASE HandleReply
  <2>1. PICK m : m = Head(replies)
    OBVIOUS
  <2>2. m \in Replies /\ m = replies[1] /\ 1 \in 1..Len(replies) /\ m.sock \in Sockets
        /\ UNCHANGED <<handle, pc, got>> /\ InLoop
    <3>1. m \in Replies /\ m = replies[1] /\ 1 \in 1..Len(replies)
      BY <1>2, <2>1, HeadTailProperties DEF HandleReply
    <3> QED BY <1>2, <3>1 DEF HandleReply, Replies
  <2>3. ASSUME pc.op = "connecting" PROVE Bare(handle[pc.client])'
    <3>1. PICK s \in Sockets : s = handle[pc.client]
      BY <2>3 DEF Calls, WithSocket
    <3>2. Bare(s) /\ Quiet(s)
      BY <2>3, <3>1 DEF SInv, Busy, Fresh
    <3>3. CASE m.kind = "connect"
      <4>1. info' = [info EXCEPT ![m.sock].state = ConnectState(m)]
        BY <1>2, <2>1, <3>3 DEF HandleReply, HandleConnect
      <4>2. info'[s] \in {info[s], [info[s] EXCEPT !.state = ConnectState(m)]}
        BY <4>1
      <4>3. info'[s].buffer = info[s].buffer /\ info'[s].rest = info[s].rest
        BY <4>2 DEF InfoRecords
      <4> QED BY <2>2, <3>1, <3>2, <4>3 DEF Bare
    <3>4. CASE m.kind # "connect"
      <4>1. HandleRecv(m) /\ m.kind = "recv"
        BY <1>2, <2>1, <2>2, <3>4 DEF HandleReply, Replies
      <4>2. m.sock = s => ~Current(m)
        BY <2>2, <3>2, <4>1 DEF Quiet, Current
      <4>3. info'[s] = info[s]
        BY <2>2, <4>1, <4>2 DEF HandleRecv
      <4> QED BY <2>2, <3>1, <3>2, <4>3 DEF Bare
    <3> QED BY <3>3, <3>4
  <2> QED BY <2>2, <2>3 DEF Busy, InLoop
<1>3. CASE HandleClose
  <2>1. Close(Head(closing)) /\ UNCHANGED <<handle, pc>> /\ pc.op # "reading"
    BY <1>3 DEF HandleClose, InLoop
  <2>2. \A t \in Sockets : Bare(t) => Bare(t)'
    BY <2>1 DEF Close, Bare, Invalid
  <2>3. pc.op = "connecting" => handle[pc.client] \in Sockets
    BY DEF Calls, WithSocket
  <2> QED BY <2>1, <2>2, <2>3 DEF SInv, Busy
<1>4. CASE BeginPoll \/ EndPoll \/ \E c \in Clients : Start(c)
  <2>1. pc'.op \notin {"reading", "connecting"}
    BY <1>4 DEF BeginPoll, EndPoll, Start, BeginConnect, BeginRead, BeginPeek, BeginStop, Begin,
                Idle
  <2> QED BY <2>1 DEF Busy
<1>5. CASE UNCHANGED vars
  BY <1>5 DEF SInv, Busy, Used, Asked, Answer, Session, InStep, Bare, vars, host, theChip, history
<1>6. ASSUME NEW c \in Clients, Continue(c) PROVE Busy'
  <2>1. CASE \/ CheckConnected(c) \/ StopFirst(c) \/ CreateFails(c) \/ Connected(c)
             \/ ConnectFails(c) \/ Stop(c) \/ ReadNothing(c) \/ Peek(c) \/ ReadEnds(c)
    <3>1. pc'.op \notin {"reading", "connecting"}
      BY <2>1 DEF CheckConnected, StopFirst, CreateFails, Connected, ConnectFails, Stop,
                  ReadNothing, Peek, ReadEnds, To, Idle, CallRecords
    <3> QED BY <3>1 DEF Busy
  <2>2. CASE ReadSome(c)
    <3>1. /\ UNCHANGED <<host, theChip, history>> /\ info[handle[c]].state = "connected"
          /\ pc.op = "read" /\ pc'.op = "reading" /\ pc'.client = pc.client /\ pc.client = c
      BY <2>2 DEF ReadSome, Handled, CallRecords
    <3>2. PICK s \in Sockets : s = handle[c]
      BY <3>1 DEF Calls, WithSocket
    <3>3. info[s].buffer # <<>> \/ info[s].rest # <<>>
      <4>1. PICK n \in 1..MaxRead : n <= Available(s)
        BY <2>2, <3>2 DEF ReadSome
      <4>2. ASSUME info[s].buffer = <<>>, info[s].rest = <<>> PROVE FALSE
        <5>1. Available(s) = 0
          <6>1. Len(<<>>) + Len(<<>>) = 0
            OBVIOUS
          <6> QED BY <4>2, <6>1 DEF Available
        <5> QED BY <4>1, <5>1, WifiAssumption
      <4> QED BY <4>2
    <3>4. Used(s) /\ ~Asked(s)
      BY <3>3 DEF SInv, Connection, Bare, Flow, AskedOnce
    <3> QED BY <3>1, <3>2, <3>4 DEF Busy, Used, Asked, Answer, Session, InStep, host, theChip
  <2>3. CASE Copy(c) \/ Create(c)
    BY <2>3, CopyConnection, CreateConnection
  <2> QED BY <1>6, <2>1, <2>2, <2>3 DEF Continue
<1> QED BY <1>1, <1>2, <1>3, <1>4, <1>5, <1>6 DEF Next, Call

-----------------------------------------------------------------------------
(* What the sketch gets *)
LEMMA RunJoined ==
    ASSUME NEW a \in Seq(Bytes), NEW b \in Seq(Bytes), NEW q, Run(a, q, 0), Run(b, q, Len(a))
    PROVE  /\ a \o b \in Seq(Bytes) /\ Len(a \o b) = Len(a) + Len(b)
           /\ Run(a \o b, q, 0)
<1>1. /\ (a \o b) \in Seq(Bytes) /\ Len(a \o b) = Len(a) + Len(b)
      /\ \A j \in 1..(Len(a) + Len(b)) :
             (a \o b)[j] = IF j <= Len(a) THEN a[j] ELSE b[j - Len(a)]
  BY ConcatProperties
<1>2. PICK h : h = a \o b
  OBVIOUS
<1>3. ASSUME NEW j \in 1..Len(h) PROVE h[j] = <<q, 0 + j>>
  <2>1. CASE j <= Len(a)
    <3>1. j \in 1..Len(a) /\ h[j] = a[j]
      BY <1>1, <1>2, <2>1
    <3> QED BY <3>1 DEF Run
  <2>2. CASE ~(j <= Len(a))
    <3>1. j - Len(a) \in 1..Len(b) /\ h[j] = b[j - Len(a)] /\ Len(a) + (j - Len(a)) = 0 + j
      BY <1>1, <1>2, <2>2
    <3> QED BY <3>1 DEF Run
  <2> QED BY <2>1, <2>2
<1> QED BY <1>1, <1>2, <1>3 DEF Run

LEMMA RunWhole ==
    ASSUME NEW a \in Seq(Bytes), NEW q, NEW n \in Nat, Run(a, q, 0), Len(a) = n
    PROVE  a = [i \in 1..n |-> <<q, i>>]
<1>1. ASSUME NEW i \in 1..n PROVE a[i] = <<q, i>>
  <2>1. 0 + i = i /\ i \in 1..Len(a)
    OBVIOUS
  <2> QED BY <2>1 DEF Run
<1>2. a = [i \in 1..Len(a) |-> a[i]]
  OBVIOUS
<1> QED BY <1>1, <1>2

LEMMA Ordered == IInv /\ SInv => StreamOrder
<1> SUFFICES ASSUME IInv, SInv, NEW s \in Sockets, gastrSockets[s].used
             PROVE  got[s] = [i \in 1..Len(got[s]) |-> <<gastrSockets[s].session, i>>]
  BY DEF StreamOrder
<1>1. PICK g \in Seq(Bytes), n \in Nat, q \in {gastrSockets[s].session} : g = got[s] /\ n = Len(g)
  <2>1. got[s] \in Seq(Bytes) /\ Len(got[s]) \in Nat
    BY DEF IInv, TypeOK
  <2> QED BY <2>1
<1>2. Run(g, q, 0)
  BY <1>1 DEF SInv, Connection, Flow, Numbered, Used, Session
<1>3. g = [i \in 1..n |-> <<q, i>>]
  BY <1>1, <1>2, RunWhole
<1> QED BY <1>1, <1>3

LEMMA Complete == IInv /\ SInv => NothingLost
<1> SUFFICES ASSUME IInv, SInv, NEW s \in Sockets \ misled
             PROVE  /\ gastrSockets[s].used /\ info[s].state = "connected" =>
                           InStep(s) /\ chip[s].state \in {"up", "ended"}
                    /\ InStep(s) =>
                         LET q == gastrSockets[s].session
                             all == [i \in 1..chip[s].sent |-> <<q, i>>]
                             taken == got[s] \o info[s].buffer \o info[s].rest
                         IN  \/ Waiting(q) = {} /\ taken = all
                             \/ \E i \in Waiting(q) :
                                    Waiting(q) = {i} /\ taken \o replies[i].bytes = all
  BY DEF NothingLost
<1> USE DEF Used, Session
<1>1. gastrSockets[s].used /\ info[s].state = "connected" =>
          InStep(s) /\ chip[s].state \in {"up", "ended"}
  BY DEF SInv, Connection, Led
<1>2. ASSUME InStep(s)
      PROVE  LET q == gastrSockets[s].session
                 all == [i \in 1..chip[s].sent |-> <<q, i>>]
                 taken == got[s] \o info[s].buffer \o info[s].rest
             IN  \/ Waiting(q) = {} /\ taken = all
                 \/ \E i \in Waiting(q) : Waiting(q) = {i} /\ taken \o replies[i].bytes = all
  <2>1. Used(s) /\ Flow(s) /\ Whole(s)
    BY <1>2 DEF InStep, SInv, Connection, Whole
  <2>2. PICK g, b, l \in Seq(Bytes), q \in {gastrSockets[s].session} :
                 g = got[s] /\ b = info[s].buffer /\ l = info[s].rest
    BY DEF IInv, TypeOK, InfoRecords
  <2>3. PICK n \in Nat : n = chip[s].sent
    <3>1. chip[s].sent \in 0..MaxSent
      BY DEF IInv, TypeOK, ChipRecords
    <3> QED BY <3>1, WifiAssumption
  <2>4. Run(g, q, 0) /\ Run(b, q, Len(g)) /\ Run(l, q, Len(g) + Len(b))
    BY <2>1, <2>2 DEF Flow, Numbered
  <2>5. \A i \in 1..Len(replies) :
            Answer(i, s) <=> (replies[i].kind = "recv" /\ replies[i].session = q)
    BY <2>2 DEF Answer
  <2>6. ASSUME NEW i \in Waiting(q)
        PROVE  i \in 1..Len(replies) /\ Answer(i, s) /\ replies[i].bytes # <<>>
    <3>1. i \in 1..Len(replies) /\ replies[i].session = q /\ replies[i].bytes # <<>>
      BY DEF Waiting
    <3>2. replies[i].kind \in {"connect", "recv"}
      <4>1. replies[i] \in Replies
        BY <3>1 DEF IInv, TypeOK
      <4> QED BY <4>1 DEF Replies
    <3>3. replies[i].kind = "recv"
      BY <3>1, <3>2 DEF SInv, Greetings
    <3> QED BY <2>5, <3>1, <3>3
  <2>7. /\ g \o b \in Seq(Bytes) /\ Len(g \o b) = Len(g) + Len(b) /\ Run(g \o b, q, 0)
    BY <2>4, RunJoined
  <2>8. PICK gb \in Seq(Bytes) : gb = g \o b /\ Len(gb) = Len(g) + Len(b)
    BY <2>7
  <2>9. Run(gb, q, 0) /\ Run(l, q, Len(gb))
    BY <2>4, <2>7, <2>8
  <2>10. /\ gb \o l \in Seq(Bytes) /\ Len(gb \o l) = Len(gb) + Len(l) /\ Run(gb \o l, q, 0)
    BY <2>9, RunJoined
  <2>11. PICK t \in Seq(Bytes) :
             t = g \o b \o l /\ Len(t) = Len(g) + Len(b) + Len(l) /\ Run(t, q, 0)
    BY <2>8, <2>10
  <2>12. CASE \A i \in 1..Len(replies) : ~Answer(i, s)
    <3>1. Waiting(q) = {}
      BY <2>6, <2>12
    <3>2. Len(t) = n
      BY <1>2, <2>1, <2>2, <2>3, <2>11, <2>12 DEF Flow, Counted
    <3>3. t = [i \in 1..n |-> <<q, i>>]
      BY <2>11, <3>2, RunWhole
    <3> QED BY <2>2, <2>3, <2>11, <3>1, <3>3
  <2>13. ASSUME NEW i \in 1..Len(replies), Answer(i, s)
         PROVE  \/ Waiting(q) = {} /\ t = [j \in 1..n |-> <<q, j>>]
                \/ /\ i \in Waiting(q) /\ Waiting(q) = {i}
                   /\ t \o replies[i].bytes = [j \in 1..n |-> <<q, j>>]
    <3>1. b = <<>> /\ l = <<>>
      BY <2>1, <2>2, <2>13 DEF Flow, AskedOnce, Asked
    <3>2. PICK d \in Seq(Bytes) : d = replies[i].bytes
      <4>1. replies[i] \in Replies
        BY <2>13 DEF IInv, TypeOK
      <4>2. replies[i].bytes \in Seq(Bytes)
        BY <4>1 DEF Replies
      <4> QED BY <4>2
    <3>3. Run(d, q, Len(g)) /\ Len(g) + Len(d) = n
      BY <1>2, <2>1, <2>2, <2>3, <2>13, <3>2 DEF Flow, Numbered, Counted
    <3>4. Len(t) = Len(g)
      <4>1. Len(b) = 0 /\ Len(l) = 0 /\ Len(g) \in Nat
        BY <3>1
      <4> QED BY <2>11, <4>1
    <3>5. Run(d, q, Len(t))
      BY <3>3, <3>4
    <3>6. \A j \in Waiting(q) : j = i
      BY <2>1, <2>6, <2>13 DEF Flow, AskedOnce
    <3>7. CASE d = <<>>
      <4>1. Waiting(q) = {}
        BY <2>6, <3>2, <3>6, <3>7
      <4>2. Len(t) = n
        <5>1. Len(d) = 0 /\ Len(g) \in Nat
          BY <3>7
        <5> QED BY <3>3, <3>4, <5>1
      <4> QED BY <2>11, <4>1, <4>2, RunWhole
    <3>8. CASE d # <<>>
      <4>1. i \in Waiting(q)
        BY <2>5, <2>13, <3>2, <3>8 DEF Waiting
      <4>2. /\ t \o d \in Seq(Bytes) /\ Len(t \o d) = Len(t) + Len(d) /\ Run(t \o d, q, 0)
        BY <2>11, <3>5, RunJoined
      <4>3. Len(t \o d) = n
        BY <3>3, <3>4, <4>2
      <4>4. t \o d = [j \in 1..n |-> <<q, j>>]
        BY <4>2, <4>3, RunWhole
      <4> QED BY <3>2, <3>6, <4>1, <4>4
    <3> QED BY <3>7, <3>8
  <2> QED BY <2>2, <2>3, <2>11, <2>12, <2>13
<1> QED BY <1>1, <1>2

LEMMA Waited == IInv /\ SInv => RecvOutstanding
<1> SUFFICES ASSUME IInv, SInv, NEW s \in Sockets,
                    gastrSockets[s].used, info[s].state = "connected", Available(s) = 0,
                    ~(pc.op \in {"connecting", "stop", "reading"} /\ handle[pc.client] = s),
                    s \notin refused \union misled
             PROVE  \/ chip[s].want
                    \/ \E i \in 1..Len(replies) :
                           /\ replies[i].kind = "recv"
                           /\ replies[i].session = gastrSockets[s].session
                    \/ \E i \in 1..Len(closing) : closing[i] = s
  BY DEF RecvOutstanding
<1>1. PICK b, l \in Seq(Bytes) : b = info[s].buffer /\ l = info[s].rest
  BY DEF IInv, TypeOK, InfoRecords
<1>2. Len(b) + Len(l) = 0
  BY <1>1 DEF Available
<1>3. Len(b) = 0 /\ Len(l) = 0
  BY <1>2
<1>4. info[s].buffer = <<>> /\ info[s].rest = <<>>
  BY <1>1, <1>3
<1>5. Outstanding(s)
  BY DEF SInv, Connection, Used
<1> QED BY <1>4, <1>5 DEF Outstanding, At, Asked, Answer, Session

-----------------------------------------------------------------------------
(* The theorems *)
LEMMA InitIInv == Init => IInv
<1> SUFFICES ASSUME Init PROVE IInv
  OBVIOUS
<1> USE DEF Init
<1>1. TypeOK
  <2>1. Free \in SocketRecords /\ Unknown \in ChipRecords /\ Idle \in CallRecords
    BY WifiAssumption DEF Free, SocketRecords, Unknown, ChipRecords, Idle, CallRecords
  <2>2. Invalid \in InfoRecords
    BY DEF Invalid, InfoRecords
  <2>3. nextSock \in Sockets /\ sessionID \in 0..MaxSessions /\ failures \in 0..MaxFailures
    BY WifiAssumption DEF Sockets
  <2>4. got \in [Sockets -> Seq(Bytes)] /\ closing \in Seq(Sockets) /\ replies \in Seq(Replies)
    OBVIOUS
  <2> QED BY <2>1, <2>2, <2>3, <2>4 DEF TypeOK
<1>2. Numbers
  <2>1. \A s \in Sockets : gastrSockets[s] = Free /\ chip[s] = Unknown
    OBVIOUS
  <2>2. Free.session = 0 /\ Free.used = FALSE /\ Unknown.session = 0
        /\ Unknown.state = "free"
    BY DEF Free, Unknown
  <2> QED BY <2>1, <2>2 DEF Numbers
<1>3. Calls /\ Fresh
  BY DEF Calls, Fresh, Idle, InLoop, WithSocket
<1>4. NoWedge
  BY DEF NoWedge, Holds, Invalid
<1> QED BY <1>1, <1>2, <1>3, <1>4 DEF IInv

LEMMA IInvStep == IInv /\ [Next]_vars => IInv'
<1> SUFFICES ASSUME IInv, [Next]_vars PROVE IInv'
  OBVIOUS
<1>1. TypeOK'
  BY TypeStep
<1>2. Numbers' /\ Calls' /\ NoWedge' /\ Fresh'
  BY <1>1, NumbersStep, CallsStep, WedgeStep, FreshStep
<1> QED BY <1>1, <1>2 DEF IInv

LEMMA Inductive == Spec => []IInv
<1> QED BY InitIInv, IInvStep, PTL DEF Spec

LEMMA InitSInv == Init => SInv
<1> SUFFICES ASSUME Init PROVE SInv
  OBVIOUS
<1>1. replies = <<>> /\ Len(replies) = 0 /\ pc.op = "idle"
  BY DEF Init, Idle
<1>2. ASSUME NEW s \in Sockets PROVE ~Used(s) /\ Bare(s)
  BY DEF Init, Used, Free, Bare, Invalid
<1> QED BY <1>1, <1>2 DEF SInv, Greetings, Busy, Connection

LEMMA SInvStep == IInv /\ IInv' /\ SInv /\ [Next]_vars => SInv'
<1> SUFFICES ASSUME IInv, IInv', SInv, [Next]_vars PROVE SInv'
  OBVIOUS
<1> QED BY ConnectionStep, BusyStep DEF SInv

LEMMA StreamInductive == Spec => [](IInv /\ SInv)
<1> QED BY InitIInv, InitSInv, IInvStep, SInvStep, PTL DEF Spec

\* The types of the state, for any number of sockets and clients and any size of
\* the buffer: the socket numbers socket() hands out, round robin, stay in the
\* table, and the buffer and the rest of _info hold bytes a peer sent.
THEOREM TypeCorrect == Spec => []TypeOK
<1>1. IInv => TypeOK
  BY DEF IInv
<1> QED BY <1>1, Inductive, PTL

\* hif_receive_blocked is set exactly while one socket has data left in the chip,
\* and that socket is an open connection: no order of replies, reads, closes and
\* failed requests leaves the interface blocked with nobody to release it.
THEOREM NeverWedged == Spec => []NoWedge
<1>1. IInv => NoWedge
  BY DEF IInv
<1> QED BY <1>1, Inductive, PTL

\* The bytes the sketch reads of a connection are those of its own session, in
\* order and without a gap, for any number of sockets, any sizes of buffer,
\* reply and read: the session check of m2m_ip_cb and the single request in
\* flight are what it rests on.
THEOREM ReadsInOrder == Spec => []StreamOrder
<1> QED BY Ordered, StreamInductive, PTL

\* No byte the chip has taken from the peer is lost while the connection lasts:
\* a reply finds the buffer and the chip's rest empty, because data is asked for
\* only then and only once (recv, WiFiSocketClass::read and ::fillRecvBuffer).
THEOREM KeepsEveryByte == Spec => []NothingLost
<1> QED BY Complete, StreamInductive, PTL

\* An open connection with nothing to read has asked for data, or its reply or
\* its close is under way.
THEOREM NeverDeaf == Spec => []RecvOutstanding
<1> QED BY Waited, StreamInductive, PTL

=============================================================================
