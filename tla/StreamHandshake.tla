--------------------------- MODULE StreamHandshake ---------------------------
(***************************************************************************)
(* The handshakes of Handshake, over datagrams or over a byte stream: TCP   *)
(* or WebSocket with the 2-byte framing of internal/tunnel/stream.go, or    *)
(* the two HTTP legs of httpstream.go.  On a stream the client runs the     *)
(* same runHandshake, whose retransmission timer is a read deadline; the    *)
(* server runs ServerHandshakeStream, one goroutine per connection.         *)
(*                                                                          *)
(* A frame is written, and read, as a header and then a body.  A deadline   *)
(* that strikes between the two loses the reader's place for good: what     *)
(* follows is cut at the wrong places and authenticates no more.            *)
(***************************************************************************)
EXTENDS Handshake

CONSTANTS
  Transports, \* "udp", "tcp", "http"
  MaxQueue    \* bound: frames a stream holds

ASSUME StreamAssumption ==
  /\ Transports \subseteq {"udp", "tcp", "http"}
  /\ MaxQueue \in Nat

VARIABLES
  transport, \* what the clients dial with
  up,        \* of each connection: the stream to the server ...
  down,      \* ... and the one to the client
  serving    \* the server's goroutine: waits for a first frame, runs, is over

streamVars == <<transport, up, down, serving>>
allVars == <<vars, streamVars>>

\* frames in flight, the reader's place: before a header, before a body, lost
Link(frames, at) == [frames |-> frames, at |-> at]

\* Streams come in at one listener and leave no trace in the replay file.
Init ==
  /\ DatagramInit
  /\ transport \in Transports
  /\ transport # "udp" => disk /\ \A c, d \in Clients : home[c] = home[d]
  /\ up = [c \in Clients |-> Link(<<>>, "header")]
  /\ down = [c \in Clients |-> Link(<<>>, "header")]
  /\ serving = [c \in Clients |-> "first"]

------------------------------------------------------------------------------
(* Framing *)

\* WriteTo
Put(link, d) == [link EXCEPT !.frames = Append(@, d)]

\* ReadFrom, up to the body ...
HeaderRead(link) == [link EXCEPT !.at = "body"]

\* ... and the body.
BodyRead(link) == [link EXCEPT !.frames = Tail(@), !.at = "header"]

AtHeader(link) == link.at = "header" /\ link.frames # <<>>
AtBody(link) == link.at = "body"

StruckSkipping(link) == IF link.at = "body" THEN BodyRead(link) ELSE link

\* A read deadline strikes.
Struck(link) == IF link.at = "body" THEN [link EXCEPT !.at = "lost"] ELSE link

------------------------------------------------------------------------------
(* The client *)

streamFrame == <<pattern, home, tableVars, net, restarts, forgotten, transport>>
serverSide == <<serverVars, serving>>

Sends(c) == Len(up[c].frames) < MaxQueue

StreamSend(c) ==
  /\ state[c] = "running"
  /\ Turn(heard[c], "c")
  /\ Sends(c)
  /\ Advance(c, c)
  /\ up' = [up EXCEPT ![c] = Put(@, ToServer(c, Len(heard'[c])))]
  /\ UNCHANGED <<knocked, down, serverSide, streamFrame>>

StreamKnock(c) ==
  /\ state[c] = "running"
  /\ heard[c] = <<>>
  /\ ~ClientFirst
  /\ c \notin knocked
  /\ knocked' = knocked \cup {c}
  /\ up' = [up EXCEPT ![c] = Put(@, ToServer(c, KnockStep))]
  /\ UNCHANGED <<state, heard, down, serverSide, streamFrame>>

ClientReadsHeader(c) ==
  /\ Waiting(c)
  /\ AtHeader(down[c])
  /\ down' = [down EXCEPT ![c] = HeaderRead(@)]
  /\ UNCHANGED <<state, heard, knocked, up, serverSide, streamFrame>>

ClientReadsBody(c) ==
  LET d == down[c].frames[1] IN
  /\ Waiting(c)
  /\ AtBody(down[c])
  /\ down' = [down EXCEPT ![c] = BodyRead(@)]
  /\ IF Due(c, d) THEN Advance(c, d.h) ELSE UNCHANGED <<state, heard>>
  /\ UNCHANGED <<knocked, up, serverSide, streamFrame>>

\* The retransmission timer: a TCP client sends its last frame again; the read
\* of an HTTP connection closes it (httpClientConn.Read), and the write fails.
ClientTimer(c) ==
  /\ Waiting(c)
  /\ IF transport = "http"
       THEN /\ state' = [state EXCEPT ![c] = "failed"]
            /\ UNCHANGED <<up, down>>
       ELSE /\ Sends(c)
            /\ up' = [up EXCEPT ![c] = Put(@, ToServer(c, LastSentStep(c)))]
            /\ down' = [down EXCEPT ![c] = Struck(@)]
            /\ UNCHANGED state
  /\ UNCHANGED <<heard, knocked, serverSide, streamFrame>>

ClientDeadline(c) ==
  /\ ClientGiveUp(c)
  /\ UNCHANGED streamVars

------------------------------------------------------------------------------
(* The server: ServerHandshakeStream *)

clientSide == <<state, heard, knocked>>

ServerReadsHeader(c) ==
  /\ serving[c] # "over"
  /\ AtHeader(up[c])
  /\ up' = [up EXCEPT ![c] = HeaderRead(@)]
  /\ UNCHANGED <<down, serverSide, clientSide, streamFrame>>

\* sendOutgoing's counterpart: the answer goes down the stream.
StreamAnswer(c, h, s) ==
  /\ Settle(c, h, Answered(h, s))
  /\ down' = [down EXCEPT ![c] = IF Turn(s, "s")
                                   THEN Put(@, ToClient(c, Len(s) + 1, h)) ELSE @]
  /\ serving' = [serving EXCEPT ![c] = IF Over(Answered(h, s)) THEN "over" ELSE "runs"]

\* The first frame selects the protocol and is then handed to the handshake
\* (prefedPacketConn); streams have no replay table.
ServerReadsFirst(c) ==
  LET h == made + 1 IN
  /\ serving[c] = "first"
  /\ AtBody(up[c])
  /\ up[c].frames[1] = ToServer(c, FirstStep)
  /\ up' = [up EXCEPT ![c] = BodyRead(@)]
  /\ Begin(c, h)
  /\ StreamAnswer(c, h, Opening(c))
  /\ UNCHANGED <<clientSide, streamFrame>>

ServerReadsNext(c) ==
  LET h == pending[c]
      due == up[c].frames[1] = ToServer(c, Len(script[h]) + 1)
  IN /\ serving[c] = "runs"
     /\ AtBody(up[c])
     /\ up' = [up EXCEPT ![c] = BodyRead(@)]
     /\ IF due THEN StreamAnswer(c, h, Append(script[h], c))
               ELSE UNCHANGED <<script, pending, session, down, serving>>
     /\ UNCHANGED <<made, peer, clientSide, streamFrame>>

ServerEnds(c) ==
  /\ serving' = [serving EXCEPT ![c] = "over"]
  /\ pending' = [pending EXCEPT ![c] = None]
  /\ UNCHANGED <<made, peer, script, session>>

\* While it runs the handshake the server repeats its last message, if it has
\* sent one, and loses its place just as the client does; the deadline on an
\* HTTP upload closes the upload (ServerHTTPConn.Read).
ServerTimer(c) ==
  /\ serving[c] = "runs"
  /\ IF transport = "http"
       THEN ServerEnds(c) /\ UNCHANGED <<up, down>>
       ELSE LET h == pending[c]
                s == script[h]
                mine == {i \in DOMAIN s : s[i] = h}
            IN /\ Len(down[c].frames) < MaxQueue
               /\ up' = [up EXCEPT ![c] = Struck(@)]
               /\ down' = IF mine = {} THEN down
                            ELSE [down EXCEPT ![c] = Put(@, ToClient(c, Latest(mine), h))]
               /\ UNCHANGED serverSide
  /\ UNCHANGED <<clientSide, streamFrame>>

\* No first frame in time, or a step's deadline passes, or the client is gone.
ServerDeadline(c) ==
  /\ serving[c] # "over"
  /\ ServerEnds(c)
  /\ UNCHANGED <<up, down, clientSide, streamFrame>>

StreamNext ==
  \E c \in Clients :
    \/ StreamSend(c) \/ StreamKnock(c) \/ ClientTimer(c) \/ ClientDeadline(c)
    \/ ClientReadsHeader(c) \/ ClientReadsBody(c)
    \/ ServerReadsHeader(c) \/ ServerReadsFirst(c) \/ ServerReadsNext(c)
    \/ ServerTimer(c) \/ ServerDeadline(c)

Next ==
  \/ transport = "udp" /\ DatagramNext /\ UNCHANGED streamVars
  \/ transport # "udp" /\ StreamNext

Spec == Init /\ [][Next]_allVars

------------------------------------------------------------------------------
(* Properties *)

StreamTypeOK ==
  /\ TypeOK
  /\ transport \in Transports
  /\ \A c \in Clients : \A link \in {up[c], down[c]} :
       /\ Len(link.frames) <= MaxQueue + 1
       /\ link.at \in {"header", "body", "lost"}
       /\ link.at = "body" => link.frames # <<>>
  /\ serving \in [Clients -> {"first", "runs", "over"}]

\* A restart does not reopen the window for old first datagrams: with one port
\* and a disk that works it forgets nothing.  (With several ports the file has
\* only what the last of them to write knew.)
RestartRemembers ==
  [][ /\ restarts' # restarts
      /\ disk
      /\ \A c, d \in Clients : home[c] = home[d]
      => forgotten' = forgotten ]_allVars

\* The client waits at a stream whose place it has lost.
Adrift(c) == transport # "udp" /\ Waiting(c) /\ down[c].at = "lost"

\* There is no way out of either but the deadline, or a restart of the server
\* that forgets: the attempt fails and a new one has to be made.
StrandedFails ==
  [][ \A c \in Clients :
        /\ Adrift(c) => Adrift(c)' \/ state'[c] = "failed"
        /\ transport = "udp" /\ Stranded(c) =>
             Stranded(c)' \/ state'[c] = "failed" \/ c \in forgotten' ]_allVars

\* On a stream nothing is skipped or overtaken, however often either side
\* repeats itself: whatever the server waits for and the client has sent is
\* still ahead of the server, unless the server lost its place.
NothingSkipped ==
  \A c \in Clients :
    LET due == Len(script[pending[c]]) + 1 IN
    /\ serving[c] = "runs"
    /\ up[c].at # "lost"
    /\ pattern[due] = "c"
    /\ due <= Len(heard[c])
    => \E i \in DOMAIN up[c].frames : up[c].frames[i] = ToServer(c, due)

\* The streams are of their type, a body under way being there to read, and
\* nothing on them is skipped.
StreamsSound == StreamTypeOK /\ NothingSkipped
==============================================================================
