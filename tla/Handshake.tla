------------------------------ MODULE Handshake ------------------------------
(***************************************************************************)
(* Generated handshakes over datagrams: runHandshake of the client          *)
(* (internal/tunnel/tunnel.go), the step machine of both ends               *)
(* (internal/compiler/handshake.go, knock.go), and the handshake half of    *)
(* the server's multiplexer with its replay tables.                         *)
(*                                                                          *)
(* The network loses, duplicates and reorders; the server restarts.  Each   *)
(* client is one attempt, from a socket of its own.  A client's message is  *)
(* told by the client and the step, since each attempt has one ephemeral    *)
(* key; a server's message also by the handshake that sent it.              *)
(*                                                                          *)
(* StreamHandshake adds the transports that are byte streams, and has the   *)
(* specification of both.                                                   *)
(***************************************************************************)
EXTENDS ReplayTable, Sequences

CONSTANTS
  Patterns,      \* the patterns of the grammar: sequences of "c" / "s"
  MaxHandshakes, \* bound: handshakes the server starts
  MaxRestarts    \* bound: restarts of the server

Clients == Keys
None == 0
Ids == 1..MaxHandshakes

ASSUME HandshakeAssumption ==
  /\ Clients \cap (Ids \cup {None}) = {}
  /\ Patterns \subseteq Seq({"c", "s"})
  /\ \A p \in Patterns : \E i, j \in DOMAIN p : p[i] = "c" /\ p[j] = "s"
  /\ MaxHandshakes \in Nat
  /\ MaxRestarts \in Nat

VARIABLES
  pattern,    \* the pattern both ends compiled
  home,       \* the port each client dials
  state,      \* of each client: running, done or failed
  heard,      \* the client's transcript: who sent each message
  knocked,    \* clients that have sent their knock
  made,       \* handshakes the server has started; the newest has this id
  peer,       \* the client of each handshake
  script,     \* the server's transcript of each handshake
  pending,    \* the handshake in flight for each client address
  session,    \* the handshake whose session each client address has
  net,        \* datagrams in flight
  restarts,   \* how often the server has restarted
  forgotten   \* history: clients the tables no longer guard against

clientVars == <<pattern, home, state, heard, knocked>>
serverVars == <<made, peer, script, pending, session>>
vars == <<clientVars, serverVars, tableVars, net, restarts, forgotten>>

KnockStep == 0
ToServer(c, i) == [to |-> "s", client |-> c, step |-> i, h |-> None]
ToClient(c, i, h) == [to |-> "c", client |-> c, step |-> i, h |-> h]

Over(s) == Len(s) = Len(pattern)
Turn(s, side) == ~Over(s) /\ pattern[Len(s) + 1] = side

ClientFirst == pattern[1] = "c"
FirstStep == IF ClientFirst THEN 1 ELSE KnockStep

DatagramInit ==
  /\ TableInit
  /\ pattern \in Patterns
  /\ home \in [Clients -> Muxes]
  /\ state = [c \in Clients |-> "running"]
  /\ heard = [c \in Clients |-> <<>>]
  /\ knocked = {}
  /\ made = 0
  /\ peer = [h \in Ids |-> None]
  /\ script = [h \in Ids |-> <<>>]
  /\ pending = [c \in Clients |-> None]
  /\ session = [c \in Clients |-> None]
  /\ net = {}
  /\ restarts = 0
  /\ forgotten = {}

------------------------------------------------------------------------------
(* The client: runHandshake *)

clientFrame == <<pattern, home, serverVars, tableVars, restarts, forgotten>>

Advance(c, origin) ==
  /\ heard' = [heard EXCEPT ![c] = Append(@, origin)]
  /\ state' = [state EXCEPT ![c] = IF Over(heard'[c]) THEN "done" ELSE @]

ClientSend(c) ==
  /\ state[c] = "running"
  /\ Turn(heard[c], "c")
  /\ Advance(c, c)
  /\ net' = net \cup {ToServer(c, Len(heard'[c]))}
  /\ UNCHANGED <<knocked, clientFrame>>

\* A client whose first step is to receive knocks to be answered at all.
ClientKnock(c) ==
  /\ state[c] = "running"
  /\ heard[c] = <<>>
  /\ ~ClientFirst
  /\ c \notin knocked
  /\ knocked' = knocked \cup {c}
  /\ net' = net \cup {ToServer(c, KnockStep)}
  /\ UNCHANGED <<state, heard, clientFrame>>

Waiting(c) ==
  /\ state[c] = "running"
  /\ Turn(heard[c], "s")
  /\ heard[c] # <<>> \/ c \in knocked

Latest(steps) == CHOOSE i \in steps : \A j \in steps : j <= i

LastSentStep(c) ==
  LET mine == {i \in DOMAIN heard[c] : pattern[i] = "c"}
  IN IF mine = {} THEN KnockStep ELSE Latest(mine)

\* Only the last frame is kept for retransmission.
ClientRetransmit(c) ==
  /\ Waiting(c)
  /\ net' = net \cup {ToServer(c, LastSentStep(c))}
  /\ UNCHANGED <<state, heard, knocked, clientFrame>>

\* RecvStep: only the message of the step that is due authenticates.
Due(c, d) ==
  /\ d.to = "c"
  /\ d.client = c
  /\ d.step = Len(heard[c]) + 1

ClientReceive(c, d) ==
  /\ Waiting(c)
  /\ Due(c, d)
  /\ Advance(c, d.h)
  /\ UNCHANGED <<knocked, net, clientFrame>>

\* The deadline of a step passes.
ClientGiveUp(c) ==
  /\ Waiting(c)
  /\ state' = [state EXCEPT ![c] = "failed"]
  /\ UNCHANGED <<heard, knocked, net, clientFrame>>

------------------------------------------------------------------------------
(* The server: handleDatagram, selectHandshake, advance, retransmit *)

serverFrame == <<clientVars, now, disk, restarts>>

\* sendOutgoing: the server's message if it is the server's turn; the grammar
\* has no two server messages in a row.
Answered(h, s) == IF Turn(s, "s") THEN Append(s, h) ELSE s

\* The handshake stays in flight, or finishHandshake makes it a session.
Settle(c, h, s) ==
  /\ script' = [script EXCEPT ![h] = s]
  /\ pending' = [pending EXCEPT ![c] = IF Over(s) THEN None ELSE h]
  /\ session' = [session EXCEPT ![c] = IF Over(s) THEN h ELSE @]

Begin(c, h) ==
  /\ h = made + 1
  /\ made < MaxHandshakes
  /\ made' = h
  /\ peer' = [peer EXCEPT ![h] = c]

Answer(c, h, s) ==
  /\ Settle(c, h, Answered(h, s))
  /\ net' = IF Turn(s, "s") THEN net \cup {ToClient(c, Len(s) + 1, h)} ELSE net

\* What a handshake has after its first datagram: a knock is no step of it.
Opening(c) == IF ClientFirst THEN <<c>> ELSE <<>>

NotSeenAtAll(c) == TRUE

NotSeenOnDisk(c) == ~Fresh(file, c)

NotSeen(c) == ~Fresh(table[home[c]], c)

\* A first message, or a knock, of an address the mux does not know: one on
\* record is a replay and gets no answer, not even when the client repeats it.
ServerFirst(c, d) ==
  LET h == made + 1 IN
  /\ d = ToServer(c, FirstStep)
  /\ pending[c] = None
  /\ session[c] = None
  /\ NotSeen(c)
  /\ Begin(c, h)
  /\ Answer(c, h, Opening(c))
  /\ Remember(home[c], c)
  /\ forgotten' = IF Fresh(table'[home[c]], c) THEN forgotten
                                               ELSE forgotten \cup {c}
  /\ UNCHANGED serverFrame

\* The client's message a handshake in flight is waiting for; any other one is
\* dropped without a trace.
ServerNext(c, d) ==
  LET h == pending[c] IN
  /\ h # None
  /\ d = ToServer(c, Len(script[h]) + 1)
  /\ Answer(c, h, Append(script[h], c))
  /\ UNCHANGED <<made, peer, table, file, forgotten, serverFrame>>

ServerReceive(d) == LET c == d.client IN ServerFirst(c, d) \/ ServerNext(c, d)

\* The message sent last is repeated until the client's next one comes in.
ServerRetransmit(c) ==
  LET h == pending[c] IN
  /\ h # None
  /\ script[h] # <<>>
  /\ script[h][Len(script[h])] = h
  /\ net' = net \cup {ToClient(c, Len(script[h]), h)}
  /\ UNCHANGED <<serverVars, table, file, forgotten, serverFrame>>

ServerDropForgetting(c) ==
  /\ pending[c] # None
  /\ pending' = [pending EXCEPT ![c] = None]
  /\ table' = [table EXCEPT ![home[c]][c] = 0]
  /\ UNCHANGED <<made, peer, script, session, file, net, forgotten, serverFrame>>

\* A handshake older than handshakeTimeout is dropped.
ServerDrop(c) ==
  /\ pending[c] # None
  /\ pending' = [pending EXCEPT ![c] = None]
  /\ UNCHANGED <<made, peer, script, session, table, file, net, forgotten,
                 serverFrame>>

\* A session is shed, reaped or closed.
SessionEnds(c) ==
  /\ session[c] # None
  /\ session' = [session EXCEPT ![c] = None]
  /\ UNCHANGED <<made, peer, script, pending, table, file, net, forgotten,
                 serverFrame>>

\* The server crashes, or is stopped, and starts again from its file.
Restart ==
  /\ restarts < MaxRestarts
  /\ restarts' = restarts + 1
  /\ pending' = [c \in Clients |-> None]
  /\ session' = [c \in Clients |-> None]
  /\ Load
  /\ forgotten' = forgotten \cup
       {c \in Clients : Fresh(table[home[c]], c) /\ ~Fresh(table'[home[c]], c)}
  /\ UNCHANGED <<clientVars, made, peer, script, net>>

------------------------------------------------------------------------------
(* The network and the clock *)

Lose(d) ==
  /\ net' = net \ {d}
  /\ UNCHANGED <<clientVars, serverVars, tableVars, restarts, forgotten>>

\* A handshake takes seconds: none is in flight for an hour.
HourPasses ==
  /\ now < MaxTime
  /\ \A c \in Clients : pending[c] = None /\ ~Waiting(c)
  /\ now' = now + 1
  /\ forgotten' = forgotten \cup
       {c \in Clients : table[home[c]][c] > 0 /\ now' >= table[home[c]][c]}
  /\ UNCHANGED <<disk, table, file, clientVars, serverVars, net, restarts>>

DatagramNext ==
  \/ \E c \in Clients :
       \/ ClientSend(c) \/ ClientKnock(c) \/ ClientRetransmit(c)
       \/ ClientGiveUp(c)
       \/ ServerRetransmit(c) \/ ServerDrop(c) \/ SessionEnds(c)
  \/ \E d \in net : ClientReceive(d.client, d) \/ ServerReceive(d) \/ Lose(d)
  \/ Restart
  \/ HourPasses

------------------------------------------------------------------------------
(* Session keys: sessionKeys, NewSession, NewPacketSession *)

\* patternTable: the last message of the client and the first of the server
\* carry the ephemeral key of who sends them.
KeyStep(side) ==
  CHOOSE i \in DOMAIN pattern :
    /\ pattern[i] = side
    /\ \A j \in DOMAIN pattern :
         pattern[j] = side => IF side = "c" THEN j <= i ELSE i <= j

OtherSide(side) == IF side = "c" THEN "s" ELSE "c"

\* capturePeerKey: the ephemeral key of who sent the keyed message of the other
\* side, in the transcript of a handshake that is over.
Remote(side, transcript) == transcript[KeyStep(OtherSide(side))]

\* Diffie-Hellman of the two ephemeral keys, bound to the transcript; one key
\* for each direction.
SessionKeys(side, own, transcript) ==
  [way \in {"c2s", "s2c"} |->
     [shared |-> {own, Remote(side, transcript)}, transcript |-> transcript, way |-> way]]

Ends(side, keys) ==
  IF side = "c" THEN [send |-> keys["c2s"], recv |-> keys["s2c"]]
                ELSE [send |-> keys["s2c"], recv |-> keys["c2s"]]

------------------------------------------------------------------------------
(* Properties *)

TypeOK ==
  /\ TableTypeOK
  /\ pattern \in Patterns
  /\ home \in [Clients -> Muxes]
  /\ state \in [Clients -> {"running", "done", "failed"}]
  /\ \A c \in Clients :
       /\ Len(heard[c]) <= Len(pattern)
       /\ \A i \in DOMAIN heard[c] : heard[c][i] \in Clients \cup Ids
  /\ knocked \subseteq Clients
  /\ made \in 0..MaxHandshakes
  /\ peer \in [Ids -> Clients \cup {None}]
  /\ \A h \in Ids : \A i \in DOMAIN script[h] : script[h][i] \in Clients \cup Ids
  /\ pending \in [Clients -> 0..made]
  /\ session \in [Clients -> 0..made]
  /\ restarts \in 0..MaxRestarts
  /\ forgotten \subseteq Clients

\* When a client and a handshake of the server for its address have both come
\* to their end, what either sends the other can open: each side's key to send
\* is the other's key to receive, through retransmission, duplication and
\* restarts, as long as the server has not forgotten the client's first
\* datagram.
KeysAgree ==
  \A c \in Clients : \A h \in Ids :
    /\ state[c] = "done"
    /\ peer[h] = c
    /\ Over(script[h])
    /\ c \notin forgotten
    => LET client == Ends("c", SessionKeys("c", c, heard[c]))
           server == Ends("s", SessionKeys("s", h, script[h]))
       IN client.send = server.recv /\ client.recv = server.send

\* A first datagram starts one handshake, however often it arrives and
\* whatever has become of that handshake, until it is forgotten.
AdmittedOnce ==
  \A g, h \in 1..made : peer[g] = peer[h] /\ g # h => peer[g] \in forgotten

\* The client waits for an answer that is not under way, the server has nothing
\* left to repeat it from, and what the client repeats is not a first datagram
\* the server would take: it is on record, or it is a later message.
Stranded(c) ==
  /\ Waiting(c)
  /\ pending[c] = None
  /\ \A d \in net : d.to = "c" => d.client # c
  /\ \/ Fresh(table[home[c]], c)
     \/ /\ LastSentStep(c) # FirstStep
        /\ ToServer(c, FirstStep) \notin net
==============================================================================
