-------------------------------- MODULE Wifi --------------------------------
(***************************************************************************)
(* The TCP clients of the WiFi101 library: WiFiClient.cpp over              *)
(* utility/WiFiSocket.cpp, the socket layer socket.c and the host interface *)
(* m2m_hif.c.                                                               *)
(*                                                                         *)
(* The chip delivers its replies one at a time.  A reply with data stays in *)
(* the chip, and blocks the interface for all sockets, until the sketch has *)
(* fetched its last byte.  The sketch is one thread; a call is a sequence   *)
(* of steps, because every call first handles the waiting replies, and the  *)
(* chip adds replies meanwhile.  The chip is modelled from its use here.    *)
(*                                                                         *)
(* A byte is <<session, number>>, numbered as the peer sent them.           *)
(***************************************************************************)
EXTENDS Integers, Sequences

CONSTANTS
    TcpSockMax,     \* TCP_SOCK_MAX, the sockets
    BufferSize,     \* SOCKET_BUFFER_SIZE
    Clients,        \* the WiFiClient objects of the sketch
    MaxSessions,    \* bound: sockets created, below the width of gu16SessionID
    MaxSent,        \* bound: bytes a peer sends in a session
    MaxReply,       \* bound: bytes of one reply
    MaxRead,        \* bound: bytes of one read
    MaxFailures     \* bound: requests the chip has no memory for

ASSUME WifiAssumption ==
    /\ TcpSockMax \in Nat \ {0} /\ BufferSize \in Nat \ {0} /\ MaxSessions \in Nat
    /\ MaxSent \in Nat /\ MaxReply \in Nat /\ MaxRead \in Nat /\ MaxFailures \in Nat

Sockets == 0..(TcpSockMax - 1)
Sessions == 1..MaxSessions
NoSocket == -1

VARIABLES
    gastrSockets,   \* socket -> bIsUsed, u16SessionID, bIsRecvPending
    info,           \* _info: state, the bytes in buffer, and those left in the chip
    blocked,        \* hif_receive_blocked
    nextSock,       \* u8NextTcpSock
    sessionID,      \* gu16SessionID
    closing,        \* closes begun by replies that wait for their own event loop
    handle,         \* client -> _socket
    pc,             \* the call the sketch is in
    chip, replies,  \* the chip's sockets, the replies it has for the host
    failures,
    \* history of the connections of the sockets in use
    got,            \* socket -> the bytes the sketch read
    misled,         \* those that took the connect reply of an earlier session
    refused         \* those whose request for data could not be sent

host == <<gastrSockets, info, blocked, nextSock, sessionID, closing, handle>>
theChip == <<chip, replies>>
history == <<got, misled, refused>>
vars == <<host, pc, theChip, failures, history>>

Free == [used |-> FALSE, session |-> 0, pending |-> FALSE]
Invalid == [state |-> "invalid", buffer |-> <<>>, rest |-> <<>>]
Unknown == [session |-> 0, state |-> "free", want |-> FALSE, sent |-> 0]
NoClient == 0
Idle == [op |-> "idle", client |-> NoClient, size |-> 0]

Init ==
    /\ gastrSockets = [s \in Sockets |-> Free]
    /\ info = [s \in Sockets |-> Invalid]
    /\ blocked = FALSE /\ nextSock = 0 /\ sessionID = 0 /\ closing = <<>>
    /\ handle = [c \in Clients |-> NoSocket] /\ pc = Idle
    /\ chip = [s \in Sockets |-> Unknown] /\ replies = <<>>
    /\ failures = 0
    /\ got = [s \in Sockets |-> <<>>] /\ misled = {} /\ refused = {}

-----------------------------------------------------------------------------
(* The chip *)
ConnectReply(s, ok) ==
    [kind |-> "connect", sock |-> s, session |-> chip[s].session, ok |-> ok, bytes |-> <<>>]
RecvReply(s, bytes) ==
    [kind |-> "recv", sock |-> s, session |-> chip[s].session, ok |-> TRUE, bytes |-> bytes]

\* The peer accepted the connection, or refused it.
ChipConnects(s) == \E ok \in BOOLEAN :
    /\ chip[s].state = "connecting"
    /\ replies' = Append(replies, ConnectReply(s, ok))
    /\ chip' = [chip EXCEPT ![s].state = IF ok THEN "up" ELSE "refused"]
    /\ UNCHANGED <<host, pc, failures, history>>

\* Data for the request that waits for it.
ChipReceives(s) == \E n \in 1..MaxReply :
    /\ chip[s].state = "up" /\ chip[s].want /\ chip[s].sent + n <= MaxSent
    /\ replies' = Append(replies,
                         RecvReply(s, [i \in 1..n |-> <<chip[s].session, chip[s].sent + i>>]))
    /\ chip' = [chip EXCEPT ![s].want = FALSE, ![s].sent = @ + n]
    /\ UNCHANGED <<host, pc, failures, history>>

\* The connection ended: a status that is not positive.
ChipEnds(s) ==
    /\ chip[s].state = "up" /\ chip[s].want
    /\ replies' = Append(replies, RecvReply(s, <<>>))
    /\ chip' = [chip EXCEPT ![s].state = "ended", ![s].want = FALSE]
    /\ UNCHANGED <<host, pc, failures, history>>

Chip == \E s \in Sockets : ChipConnects(s) \/ ChipReceives(s) \/ ChipEnds(s)

\* A request reaches the chip, or hif_send finds no memory for it.
Sent == UNCHANGED failures
NotSent == failures < MaxFailures /\ failures' = failures + 1

-----------------------------------------------------------------------------
(* Fetching and requesting data *)

\* a bug: the address does not advance
FilledMutant(i, rest) ==
    LET n == IF Len(rest) > BufferSize THEN BufferSize ELSE Len(rest)
    IN  [i EXCEPT !.buffer = SubSeq(rest, 1, n), !.rest = SubSeq(rest, 1, Len(rest) - n)]

\* fillRecvBuffer: the next bytes of rest replace the buffer
Filled(i, rest) ==
    LET n == IF Len(rest) > BufferSize THEN BufferSize ELSE Len(rest)
    IN  [i EXCEPT !.buffer = SubSeq(rest, 1, n), !.rest = SubSeq(rest, n + 1, Len(rest))]

\* recv, for a socket in use: the flag is set whether or not the request was sent
Request(s) ==
    IF gastrSockets[s].used /\ ~gastrSockets[s].pending
    THEN /\ gastrSockets' = [gastrSockets EXCEPT ![s].pending = TRUE]
         /\ \/ Sent /\ chip' = [chip EXCEPT ![s].want = TRUE] /\ UNCHANGED refused
            \/ NotSent /\ refused' = refused \union {s}
               /\ UNCHANGED chip
    ELSE UNCHANGED <<gastrSockets, chip, failures, refused>>

\* a bug: the size of the rest is reset before the test
FlushesMutant(s) == FALSE

\* data left in the chip is dropped
Flushes(s) == info[s].state = "connected" /\ info[s].rest # <<>>

\* WiFiSocketClass::close after its event loop, with close of socket.c
Close(s) ==
    /\ blocked' = (blocked /\ ~Flushes(s))
    /\ info' = [info EXCEPT ![s] = Invalid]
    /\ got' = [got EXCEPT ![s] = <<>>]
    /\ misled' = misled \ {s} /\ refused' = refused \ {s}
    /\ IF gastrSockets[s].used
       THEN /\ gastrSockets' = [gastrSockets EXCEPT ![s] = Free]
            /\ \/ Sent /\ chip' = [chip EXCEPT ![s] = Unknown]
               \/ NotSent /\ UNCHANGED chip
       ELSE UNCHANGED <<gastrSockets, chip, failures>>

-----------------------------------------------------------------------------
(* Handling the replies: m2m_ip_cb with handleEvent *)

ConnectState(m) == IF m.ok THEN "connected" ELSE "idle"

\* the connect reply carries no session
HandleConnect(m) ==
    /\ info' = [info EXCEPT ![m.sock].state = ConnectState(m)]
    /\ misled' = IF gastrSockets[m.sock].session \in {0, m.session} THEN misled
                 ELSE misled \union {m.sock}
    /\ UNCHANGED <<gastrSockets, blocked, closing>>

Current(m) == m.session = gastrSockets[m.sock].session

\* a bug: the request stays pending
AnsweredMutant(s) == gastrSockets

Answered(s) == [gastrSockets EXCEPT ![s].pending = FALSE]

\* A reply to a session that is gone is discarded, and so is data for a socket
\* that is not connected.  A status that is not positive closes the socket.
HandleRecv(m) ==
    LET take == Current(m) /\ m.bytes # <<>> /\ info[m.sock].state = "connected"
    IN  /\ gastrSockets' = Answered(m.sock)
        /\ closing' = IF Current(m) /\ m.bytes = <<>> THEN <<m.sock>> \o closing ELSE closing
        /\ info' = IF take THEN [info EXCEPT ![m.sock] = Filled(@, m.bytes)] ELSE info
        /\ blocked' = (take /\ Len(m.bytes) > BufferSize)
        /\ UNCHANGED misled

\* hif_handle_isr: one reply.  Every call of the sketch begins in this loop,
\* which ends when no interrupt is pending; the chip may raise the one of the
\* next reply later, so the loop may end at any time.
InLoop == pc.op \notin {"idle", "create", "reading"}

HandleReply ==
    /\ InLoop /\ ~blocked /\ replies # <<>>
    /\ replies' = Tail(replies)
    /\ IF Head(replies).kind = "connect"
       THEN HandleConnect(Head(replies)) ELSE HandleRecv(Head(replies))
    /\ UNCHANGED <<nextSock, sessionID, handle, pc, chip, failures, got, refused>>

\* The close a reply asked for, after its own event loop; the outer one goes on.
HandleClose ==
    /\ InLoop /\ closing # <<>>
    /\ closing' = Tail(closing)
    /\ Close(Head(closing))
    /\ UNCHANGED <<nextSock, sessionID, handle, pc, replies>>

\* The event loop of the call of client c returns.
Handled(op, c) == pc.op = op /\ pc.client = c /\ closing = <<>>

-----------------------------------------------------------------------------
(* The calls of the sketch *)
Begin(op, c) ==
    /\ pc = Idle
    /\ pc' = [op |-> op, client |-> c, size |-> 0]
    /\ UNCHANGED <<host, theChip, failures, history>>

To(op) == pc' = [pc EXCEPT !.op = op]

FreeSockets == {s \in Sockets : ~gastrSockets[s].used}

\* a client without a socket does not handle events before it creates one
BeginConnect(c) ==
    /\ sessionID < MaxSessions \/ FreeSockets = {}
    /\ Begin(IF handle[c] = NoSocket THEN "create" ELSE "connect", c)
BeginRead(c) == handle[c] # NoSocket /\ Begin("read", c)
BeginPeek(c) == handle[c] # NoSocket /\ Begin("peek", c)
BeginStop(c) == handle[c] # NoSocket /\ Begin("stop", c)

\* connected, available, WiFi.status, and the loop that ends a read
BeginPoll == Begin("poll", NoClient)
EndPoll ==
    /\ Handled("poll", NoClient) /\ pc' = Idle
    /\ UNCHANGED <<host, theChip, failures, history>>

\* WiFiSocketClass::connected
ConnectedState(s) == info[s].state = "connected"

\* WiFiClient::connect: a connection the client still has is stopped
CheckConnected(c) ==
    /\ Handled("connect", c)
    /\ To(IF ConnectedState(handle[c]) THEN "reconnect" ELSE "create")
    /\ UNCHANGED <<host, theChip, failures, history>>

StopFirst(c) ==
    /\ Handled("reconnect", c)
    /\ Close(handle[c])
    /\ handle' = [handle EXCEPT ![c] = NoSocket]
    /\ To("create")
    /\ UNCHANGED <<nextSock, sessionID, closing, replies>>

\* socket: the first number not in use, round robin
Ahead(s) == (s + TcpSockMax - nextSock) % TcpSockMax
Allocated(s) == s \in FreeSockets /\ \A t \in FreeSockets : Ahead(s) <= Ahead(t)

NextSock(s) == (s + 1) % TcpSockMax

\* no number is free (or, when one was freed meanwhile, the bound is reached)
CreateFails(c) ==
    /\ pc.op = "create" /\ pc.client = c
    /\ FreeSockets = {} \/ sessionID = MaxSessions
    /\ handle' = [handle EXCEPT ![c] = NoSocket]
    /\ pc' = Idle
    /\ UNCHANGED <<gastrSockets, info, blocked, nextSock, sessionID, closing, theChip,
                   failures, history>>

\* WiFiSocketClass::create and ::connect up to its wait, or the request fails
Create(c) == \E s \in Sockets :
    /\ pc.op = "create" /\ pc.client = c
    /\ Allocated(s) /\ sessionID < MaxSessions
    /\ sessionID' = sessionID + 1
    /\ nextSock' = NextSock(s)
    /\ gastrSockets' = [gastrSockets EXCEPT ![s] =
                           [used |-> TRUE, session |-> sessionID + 1, pending |-> FALSE]]
    /\ handle' = [handle EXCEPT ![c] = s]
    /\ \/ /\ Sent /\ To("connecting")
          /\ info' = [info EXCEPT ![s].state = "connecting"]
          /\ chip' = [chip EXCEPT ![s] = [session |-> sessionID + 1, state |-> "connecting",
                                          want |-> FALSE, sent |-> 0]]
       \/ /\ NotSent /\ To("stop")
          /\ info' = [info EXCEPT ![s].state = "idle"]
          /\ UNCHANGED chip
    /\ UNCHANGED <<blocked, closing, replies, history>>

\* The reply, whichever it was, ends the wait.
Connected(c) ==
    /\ Handled("connecting", c) /\ info[handle[c]].state = "connected"
    /\ info' = [info EXCEPT ![handle[c]].rest = <<>>]
    /\ Request(handle[c])
    /\ pc' = Idle
    /\ UNCHANGED <<blocked, nextSock, sessionID, closing, handle, replies, got, misled>>

\* An error, or 20 seconds without a reply: the socket is closed.
ConnectFails(c) ==
    /\ Handled("connecting", c) /\ info[handle[c]].state # "connected"
    /\ info' = [info EXCEPT ![handle[c]].state = "idle"]
    /\ To("stop")
    /\ UNCHANGED <<gastrSockets, blocked, nextSock, sessionID, closing, handle, theChip,
                   failures, history>>

\* WiFiClient::stop, and the end of a connect that failed
Stop(c) ==
    /\ Handled("stop", c)
    /\ Close(handle[c])
    /\ handle' = [handle EXCEPT ![c] = NoSocket]
    /\ pc' = Idle
    /\ UNCHANGED <<nextSock, sessionID, closing, replies>>

\* a bug: what is left in the chip is not counted
AvailableMutant(s) == Len(info[s].buffer)

\* WiFiSocketClass::available
Available(s) == Len(info[s].buffer) + Len(info[s].rest)

\* WiFiClient::read: nothing to read
ReadNothing(c) ==
    /\ Handled("read", c)
    /\ info[handle[c]].state # "connected" \/ Available(handle[c]) = 0
    /\ pc' = Idle
    /\ UNCHANGED <<host, theChip, failures, history>>

\* the size the caller asked for, or what there is
ReadSome(c) == \E n \in 1..MaxRead :
    /\ Handled("read", c) /\ info[handle[c]].state = "connected"
    /\ n <= Available(handle[c])
    /\ pc' = [pc EXCEPT !.op = "reading", !.size = n]
    /\ UNCHANGED <<host, theChip, failures, history>>

\* a bug: the buffer is filled though it holds data
ToFillMutant(s) == info[s].state = "connected" /\ info[s].rest # <<>>

\* WiFiSocketClass::peek and read fetch from the chip when the buffer is empty
ToFill(s) == info[s].state = "connected" /\ info[s].buffer = <<>> /\ info[s].rest # <<>>

Peek(c) ==
    LET s == handle[c]
        i == IF ToFill(s) THEN Filled(info[s], info[s].rest) ELSE info[s]
    IN  /\ Handled("peek", c) /\ pc' = Idle
        /\ info' = [info EXCEPT ![s] = i]
        /\ blocked' = (blocked /\ ~(info[s].rest # <<>> /\ i.rest = <<>>))
        /\ UNCHANGED <<gastrSockets, nextSock, sessionID, closing, handle, theChip, failures,
                       history>>

\* One turn of the copy loop: the buffer is refilled when it is empty.
Copy(c) ==
    LET s == handle[c]
        i == IF ToFill(s) THEN Filled(info[s], info[s].rest) ELSE info[s]
        n == IF pc.size > Len(i.buffer) THEN Len(i.buffer) ELSE pc.size
    IN  /\ pc.op = "reading" /\ pc.client = c /\ pc.size > 0
        /\ info' = [info EXCEPT ![s] = [i EXCEPT !.buffer = SubSeq(@, n + 1, Len(@))]]
        /\ blocked' = (blocked /\ ~(info[s].rest # <<>> /\ i.rest = <<>>))
        /\ got' = [got EXCEPT ![s] = @ \o SubSeq(i.buffer, 1, n)]
        /\ pc' = [pc EXCEPT !.size = @ - n]
        /\ UNCHANGED <<gastrSockets, nextSock, sessionID, closing, handle, theChip, failures,
                       misled, refused>>

\* All is read: the next data is asked for, and the replies are handled.
ReadEnds(c) ==
    /\ pc.op = "reading" /\ pc.client = c /\ pc.size = 0
    /\ IF Available(handle[c]) = 0
       THEN Request(handle[c]) /\ pc' = [Idle EXCEPT !.op = "poll"]
       ELSE pc' = Idle /\ UNCHANGED <<gastrSockets, chip, failures, refused>>
    /\ UNCHANGED <<info, blocked, nextSock, sessionID, closing, handle, replies, got, misled>>

Start(c) == BeginConnect(c) \/ BeginRead(c) \/ BeginPeek(c) \/ BeginStop(c)

Continue(c) ==
    \/ CheckConnected(c) \/ StopFirst(c) \/ CreateFails(c) \/ Create(c)
    \/ Connected(c) \/ ConnectFails(c) \/ Stop(c)
    \/ ReadNothing(c) \/ ReadSome(c) \/ Peek(c) \/ Copy(c) \/ ReadEnds(c)

Call == EndPoll \/ \E c \in Clients : Continue(c)
Next == Chip \/ HandleReply \/ HandleClose \/ Call \/ BeginPoll \/ \E c \in Clients : Start(c)

\* The processor goes on with a call (a wait for a connection ends, by a reply
\* or the clock); the chip raises the interrupt of its next reply in one of the
\* calls; and the sketch reads from every client again and again.
Fairness ==
    /\ WF_vars(HandleClose \/ Call) /\ SF_vars(HandleReply)
    /\ \A c \in Clients : SF_vars(BeginRead(c))

Spec == Init /\ [][Next]_vars /\ Fairness

-----------------------------------------------------------------------------
(* Properties *)
Bytes == Sessions \X (1..MaxSent)
SocketRecords == [used : BOOLEAN, session : 0..MaxSessions, pending : BOOLEAN]
InfoRecords == [state : {"invalid", "idle", "connecting", "connected"},
                buffer : Seq(Bytes), rest : Seq(Bytes)]
CallRecords == [op : {"idle", "connect", "reconnect", "create", "connecting", "stop",
                      "read", "reading", "peek", "poll"},
                client : Clients \union {NoClient}, size : 0..MaxRead]
ChipRecords == [session : 0..MaxSessions, want : BOOLEAN, sent : 0..MaxSent,
                state : {"free", "connecting", "refused", "up", "ended"}]
Replies == [kind : {"connect", "recv"}, sock : Sockets, session : Sessions,
            ok : BOOLEAN, bytes : Seq(Bytes)]

\* The types of the state.
TypeOK ==
    /\ gastrSockets \in [Sockets -> SocketRecords]
    /\ info \in [Sockets -> InfoRecords]
    /\ blocked \in BOOLEAN /\ nextSock \in Sockets /\ sessionID \in 0..MaxSessions
    /\ closing \in Seq(Sockets) /\ handle \in [Clients -> Sockets \union {NoSocket}]
    /\ pc \in CallRecords
    /\ chip \in [Sockets -> ChipRecords] /\ replies \in Seq(Replies)
    /\ failures \in 0..MaxFailures
    /\ got \in [Sockets -> Seq(Bytes)] /\ misled \subseteq Sockets /\ refused \subseteq Sockets

\* What the sketch reads of a connection is what its peer sent, in order, from
\* the first byte: data of an earlier connection never reaches a later one that
\* reuses the socket number (the session check of m2m_ip_cb).
StreamOrder == \A s \in Sockets :
    gastrSockets[s].used =>
        got[s] = [i \in 1..Len(got[s]) |-> <<gastrSockets[s].session, i>>]

\* The replies that wait with data of session q.
Waiting(q) == {i \in 1..Len(replies) : replies[i].session = q /\ replies[i].bytes # <<>>}

\* The chip's socket has the connection of the host's.
InStep(s) == gastrSockets[s].used /\ chip[s].session = gastrSockets[s].session

\* A socket takes itself for connected only when the chip said so of its own
\* session, and while it is no byte the chip has taken from its peer is lost: it
\* is read, in the buffer, left in the chip or in the one reply that waits.  No reply
\* replaces data that is still unread (fillRecvBuffer does not look).  Excepted
\* are sockets a connect reply of an earlier session, which carries no session
\* number, reached.
NothingLost == \A s \in Sockets \ misled :
    /\ gastrSockets[s].used /\ info[s].state = "connected" =>
           InStep(s) /\ chip[s].state \in {"up", "ended"}
    /\ InStep(s) =>
           LET q == gastrSockets[s].session
               all == [i \in 1..chip[s].sent |-> <<q, i>>]
               taken == got[s] \o info[s].buffer \o info[s].rest
           IN  \/ Waiting(q) = {} /\ taken = all
               \/ \E i \in Waiting(q) : Waiting(q) = {i} /\ taken \o replies[i].bytes = all

Holds(s) == info[s].rest # <<>>

\* The interface is blocked exactly while one socket has data left in the chip,
\* and that is an open connection, so that a read or a close releases it: a
\* refill that fails to notice the last byte, or a close that does not drop it,
\* would hold up every socket for ever.
NoWedge ==
    /\ blocked <=> \E s \in Sockets : Holds(s)
    /\ \A s \in Sockets : Holds(s) =>
           /\ gastrSockets[s].used /\ info[s].state = "connected"
           /\ \A t \in Sockets : Holds(t) => t = s

\* A connection with nothing to read has asked the chip for data, or a reply
\* waits for it; otherwise the socket would stay deaf.
RecvOutstanding == \A s \in Sockets :
    /\ gastrSockets[s].used /\ info[s].state = "connected" /\ Available(s) = 0
    /\ ~(pc.op \in {"connecting", "stop", "reading"} /\ handle[pc.client] = s)
    /\ s \notin refused \union misled
    => \/ chip[s].want
       \/ \E i \in 1..Len(replies) :
              replies[i].kind = "recv" /\ replies[i].session = gastrSockets[s].session
       \/ \E i \in 1..Len(closing) : closing[i] = s

\* Some client has the connection, and data the chip took for it is to be read.
Behind(s) ==
    /\ InStep(s) /\ info[s].state = "connected" /\ s \notin misled
    /\ \E c \in Clients : handle[c] = s
    /\ Len(got[s]) < chip[s].sent

\* A sketch that goes on reading from all its clients gets every byte the chip
\* has taken for a connection, as long as that stays open: the interface, held
\* up by the data of one socket, is released for the others.
EverythingRead == \A s \in Sockets : Behind(s) ~> ~Behind(s)

=============================================================================
