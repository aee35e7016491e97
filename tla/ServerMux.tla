------------------------------ MODULE ServerMux ------------------------------
(***************************************************************************)
(* The session multiplexer of internal/tunnel/mux.go: many client           *)
(* handshakes and established sessions on one UDP socket, told apart by the *)
(* sender's address.                                                        *)
(*                                                                          *)
(* Four kinds of goroutine share the tables: the read loop, the 100 ms      *)
(* timer loop, whoever calls ServerMux.Close, and the application that      *)
(* accepts sessions and closes them.  One action is one critical section    *)
(* of m.mu (or of a handshake's mutex) with the code up to the next one.    *)
(*                                                                          *)
(* A handshake and the session it becomes share one id.  Datagrams are the  *)
(* environment's: any address may send any kind of datagram at any time     *)
(* until it falls silent for good.                                          *)
(***************************************************************************)
EXTENDS Integers, Sequences, FiniteSets

CONSTANTS
  Addrs,         \* client addresses
  Pattern,       \* who sends each handshake message: a sequence of "c" / "s"
  MaxSessions,   \* cap on sessions, 0 for none
  Reaps,         \* TRUE when an idle timeout is configured
  MaxPending,    \* maxPendingHandshakes
  ReadyCap,      \* capacity of the accept backlog
  MaxHandshakes, \* bound: handshakes ever started
  Closes,        \* TRUE when ServerMux.Close may be called
  Vanishing      \* the addresses that may fall silent for good

None == 0
Ids == 1..MaxHandshakes

\* The grammar of genome/generator.go has no two server messages in a row and
\* each side contributes at least one message.
ASSUME MuxAssumption ==
  /\ None \notin Addrs
  /\ IsFiniteSet(Addrs)
  /\ Pattern \in Seq({"c", "s"})
  /\ \E i, j \in DOMAIN Pattern : Pattern[i] = "c" /\ Pattern[j] = "s"
  /\ \A i \in DOMAIN Pattern : Pattern[i] = "s" /\ i < Len(Pattern)
                                 => Pattern[i + 1] = "c"
  /\ MaxSessions \in Nat
  /\ MaxPending \in Nat
  /\ ReadyCap \in Nat
  /\ MaxHandshakes \in Nat
  /\ Closes \in BOOLEAN
  /\ Reaps \in BOOLEAN
  /\ Vanishing \subseteq Addrs

VARIABLES
  made,        \* handshakes started so far; the newest has this id
  addr,        \* the address of each handshake and session
  step,        \* how many messages each handshake has sent and received
  expired,     \* handshakes older than handshakeTimeout
  pending,     \* m.pending
  lastCreate,  \* m.lastCreate: absent, younger than the minimum gap, or older
  established, \* m.established
  status,      \* each session: not created, open, or its closed channel closed
  detaching,   \* sessions closed whose onClose has not run yet
  idle,        \* how long each session's client has been silent
  ready,       \* m.ready, the accept backlog
  accepted,    \* sessions the application has got from Accept
  accepting,   \* the application still calls Accept
  closed,      \* m.closed is closed
  reader,      \* the read loop: where it is and what it holds
  timer,       \* the timer loop: where it is and what is left of its snapshot
  closer,      \* ServerMux.Close: where it is and the sessions left to close
  silent       \* addresses that never send again

vars == <<made, addr, step, expired, pending, lastCreate, established, status,
          detaching, idle, ready, accepted, accepting, closed, reader, timer,
          closer, silent>>

shakeVars == <<made, addr, step, expired>>
tableVars == <<pending, lastCreate, established>>
sessionVars == <<status, detaching, idle>>
appVars == <<ready, accepted, accepting>>

ReaderPcs == {"read", "session", "advance", "abandon", "finish", "publish",
              "shed", "exited"}
Holding(pc, h, kind) == [pc |-> pc, h |-> h, kind |-> kind]

\* The loop checks m.closed before it reads again.
BackToRead == Holding(IF closed THEN "exited" ELSE "read", None, "none")

Done(h) == step[h] = Len(Pattern)
ServersTurn(s) == s < Len(Pattern) /\ Pattern[s + 1] = "s"
ClientFirst == Pattern[1] = "c"

\* sendOutgoing: send the server's message if it is the server's turn.
AfterOutgoing(s) == IF ServersTurn(s) THEN s + 1 ELSE s

Used(table) == {a \in Addrs : table[a] # None}

Init ==
  /\ made = 0
  /\ addr = [h \in Ids |-> None]
  /\ step = [h \in Ids |-> 0]
  /\ expired = {}
  /\ pending = [a \in Addrs |-> None]
  /\ lastCreate = [a \in Addrs |-> "absent"]
  /\ established = [a \in Addrs |-> None]
  /\ status = [h \in Ids |-> "none"]
  /\ detaching = {}
  /\ idle = [h \in Ids |-> "active"]
  /\ ready = <<>>
  /\ accepted = {}
  /\ accepting = TRUE
  /\ closed = FALSE
  /\ reader = Holding("read", None, "none")
  /\ timer = [pc |-> "wait", todo |-> {}, h |-> None]
  /\ closer = [pc |-> "before", todo |-> {}, h |-> None]
  /\ silent = {}

------------------------------------------------------------------------------
(* Closing a session: ServerTunnel.Close *)

CloseForgetsChannel(h) ==
  /\ status' = status
  /\ detaching' = detaching \cup {h}

\* closeOnce lets one caller in: the closed channel first ...
MarkClosed(h) ==
  /\ status' = [status EXCEPT ![h] = "closed"]
  /\ detaching' = detaching \cup {h}

BeginClose(h) ==
  /\ status[h] = "open"
  /\ MarkClosed(h)

\* ... then onClose, which deletes whatever session the address has.
Detach(h) ==
  /\ h \in detaching
  /\ established' = [established EXCEPT ![addr[h]] = None]
  /\ detaching' = detaching \ {h}
  /\ UNCHANGED <<status, idle, pending, lastCreate, reader, timer, closer,
                 closed, silent>>
  /\ UNCHANGED <<shakeVars, appVars>>

\* Another caller of Close returns once the first one is through.
CloseReturned(h) == status[h] # "open" /\ h \notin detaching

------------------------------------------------------------------------------
(* The read loop: handleDatagram, advance, finishHandshake *)

readerFrame == <<timer, closer, closed, silent>>

\* A datagram of a, looked up under m.mu.
Arrives(a) == reader.pc = "read" /\ a \notin silent

\* A frame of an established session; one that does not authenticate is dropped
\* without a trace.
LookupSession(a) ==
  /\ Arrives(a)
  /\ established[a] # None
  /\ reader' = Holding("session", established[a], "frame")
  /\ UNCHANGED <<readerFrame, shakeVars, tableVars, sessionVars, appVars>>

LookupPending(a, kind) ==
  /\ Arrives(a)
  /\ established[a] = None
  /\ pending[a] # None
  /\ reader' = Holding("advance", pending[a], kind)
  /\ UNCHANGED <<readerFrame, shakeVars, tableVars, sessionVars, appVars>>

MayStartBeside(a) ==
  /\ Arrives(a)
  /\ pending[a] = None
  /\ lastCreate[a] # "recent"
  /\ Cardinality(Used(pending)) < MaxPending

\* The anti-probe guards of a first datagram.
MayStart(a) ==
  /\ Arrives(a)
  /\ established[a] = None
  /\ pending[a] = None
  /\ lastCreate[a] # "recent"
  /\ Cardinality(Used(pending)) < MaxPending

FullOfEstablished ==
  /\ MaxSessions > 0
  /\ Cardinality(Used(established)) >= MaxSessions

\* Handshakes in flight count against the cap.
TableFull ==
  /\ MaxSessions > 0
  /\ Cardinality(Used(established)) + Cardinality(Used(pending)) >= MaxSessions

LookupFull(a) ==
  /\ MayStart(a)
  /\ TableFull
  /\ lastCreate' = [lastCreate EXCEPT ![a] = "recent"]
  /\ reader' = BackToRead
  /\ UNCHANGED <<pending, established, readerFrame, shakeVars, sessionVars,
                 appVars>>

\* selectHandshake: a "hello" is a first message that authenticates and is not
\* on record, or a knock; junk still gets a slot, in a client-first protocol.
\* The first message of a client-first handshake is consumed here (primed).
LookupNew(a, kind) ==
  LET h == made + 1 IN
  /\ MayStart(a)
  /\ ~TableFull
  /\ kind = "hello" \/ ClientFirst
  /\ made < MaxHandshakes
  /\ made' = h
  /\ addr' = [addr EXCEPT ![h] = a]
  /\ step' = [step EXCEPT ![h] = IF kind = "hello" /\ ClientFirst THEN 1 ELSE 0]
  /\ pending' = [pending EXCEPT ![a] = h]
  /\ lastCreate' = [lastCreate EXCEPT ![a] = "recent"]
  /\ reader' = Holding("advance", h, kind)
  /\ UNCHANGED <<expired, established, readerFrame, sessionVars, appVars>>

\* The frame authenticates under sessMu: only this postpones idle reaping.
SessionFrame ==
  /\ reader.pc = "session"
  /\ idle' = [idle EXCEPT ![reader.h] = "active"]
  /\ reader' = BackToRead
  /\ UNCHANGED <<status, detaching, readerFrame, shakeVars, tableVars, appVars>>

\* advance, under the handshake's mutex: the datagram is the client message
\* that is due, or the one selectHandshake consumed; then the server sends.
AdvanceStep ==
  LET h == reader.h
      now == step[h] + (IF reader.kind = "next" THEN 1 ELSE 0)
      after == AfterOutgoing(now)
  IN /\ reader.pc = "advance"
     /\ reader.kind \in {"hello", "next"}
     /\ step' = [step EXCEPT ![h] = after]
     /\ reader' = IF after = Len(Pattern) THEN Holding("finish", h, "none")
                                          ELSE BackToRead
     /\ UNCHANGED <<made, addr, expired, readerFrame, tableVars, sessionVars,
                    appVars>>

\* A datagram that is not the message due leaves a handshake that has got
\* somewhere alone, and one that has not is abandoned.
AdvanceJunk ==
  /\ reader.pc = "advance"
  /\ reader.kind = "junk"
  /\ reader' = IF step[reader.h] > 0 THEN BackToRead
                                     ELSE Holding("abandon", reader.h, "none")
  /\ UNCHANGED <<readerFrame, shakeVars, tableVars, sessionVars, appVars>>

\* abandonPending keeps lastCreate.
Abandon ==
  /\ reader.pc = "abandon"
  /\ pending' = [pending EXCEPT ![addr[reader.h]] = None]
  /\ reader' = BackToRead
  /\ UNCHANGED <<lastCreate, established, readerFrame, shakeVars, sessionVars,
                 appVars>>

\* finishHandshake under m.mu: the handshake leaves the table ...
FinishLeaves(h) ==
  /\ pending' = [pending EXCEPT ![addr[h]] = None]
  /\ lastCreate' = [lastCreate EXCEPT ![addr[h]] = "absent"]

\* ... and the session enters it, unless the address has one or the table of
\* sessions is full.
Finish ==
  LET h == reader.h
      a == addr[h]
  IN /\ reader.pc = "finish"
     /\ FinishLeaves(h)
     /\ IF established[a] # None
          THEN reader' = BackToRead /\ UNCHANGED <<established, status>>
          ELSE /\ status' = [status EXCEPT ![h] = "open"]
               /\ reader' = Holding(IF FullOfEstablished THEN "shed"
                                                         ELSE "publish", h, "none")
               /\ established' = IF FullOfEstablished THEN established
                                   ELSE [established EXCEPT ![a] = h]
     /\ UNCHANGED <<detaching, idle, readerFrame, shakeVars, appVars>>

\* The select of finishHandshake takes any case that is ready, the default
\* only when none is.
PublishReady ==
  /\ reader.pc = "publish"
  /\ Len(ready) < ReadyCap
  /\ ready' = Append(ready, reader.h)
  /\ reader' = BackToRead
  /\ UNCHANGED <<accepted, accepting, readerFrame, shakeVars, tableVars,
                 sessionVars>>

ShedOnlyWhenClosed == closed

MayShed == closed \/ Len(ready) >= ReadyCap

PublishDrop ==
  /\ reader.pc = "publish"
  /\ MayShed
  /\ reader' = BackToRead
  /\ UNCHANGED <<readerFrame, shakeVars, tableVars, sessionVars, appVars>>

PublishShed ==
  /\ reader.pc = "publish"
  /\ MayShed
  /\ reader' = Holding("shed", reader.h, "none")
  /\ UNCHANGED <<readerFrame, shakeVars, tableVars, sessionVars, appVars>>

Shed ==
  /\ reader.pc = "shed"
  /\ BeginClose(reader.h)
  /\ UNCHANGED <<reader, idle, readerFrame, shakeVars, tableVars, appVars>>

ShedReturns ==
  /\ reader.pc = "shed"
  /\ CloseReturned(reader.h)
  /\ reader' = BackToRead
  /\ UNCHANGED <<readerFrame, shakeVars, tableVars, sessionVars, appVars>>

\* The read times out and the loop finds m.closed closed.
ReadExit ==
  /\ reader.pc = "read"
  /\ closed
  /\ reader' = Holding("exited", None, "none")
  /\ UNCHANGED <<readerFrame, shakeVars, tableVars, sessionVars, appVars>>

Receive ==
  \E a \in Addrs :
    \/ LookupSession(a)
    \/ \E kind \in {"next", "junk"} : LookupPending(a, kind)
    \/ LookupFull(a)
    \/ \E kind \in {"hello", "junk"} : LookupNew(a, kind)

\* The read loop with a datagram in hand.
Handle ==
  \/ SessionFrame \/ AdvanceStep \/ AdvanceJunk \/ Abandon \/ Finish
  \/ PublishReady \/ PublishShed \/ Shed \/ ShedReturns

------------------------------------------------------------------------------
(* The timer loop: retransmit, sweepSessions *)

timerFrame == <<reader, closer, closed, silent>>
IdsIn(table) == {table[a] : a \in Used(table)}

\* A tick and a closed mux may both be ready: the select takes either.
Tick ==
  /\ timer.pc = "wait"
  /\ timer' = [pc |-> "retransmit", todo |-> IdsIn(pending), h |-> None]
  /\ UNCHANGED <<timerFrame, shakeVars, tableVars, sessionVars, appVars>>

TimerExit ==
  /\ timer.pc = "wait"
  /\ closed
  /\ timer' = [timer EXCEPT !.pc = "exited"]
  /\ UNCHANGED <<timerFrame, shakeVars, tableVars, sessionVars, appVars>>

Stale(h) == Done(h) \/ h \in expired

\* A handshake of the snapshot, under its mutex: resend its last message ...
Retransmit(h) ==
  /\ timer.pc = "retransmit"
  /\ h \in timer.todo
  /\ ~Stale(h)
  /\ timer' = [timer EXCEPT !.todo = @ \ {h}]
  /\ UNCHANGED <<timerFrame, shakeVars, tableVars, sessionVars, appVars>>

\* ... or find it finished or too old and let go of its mutex ...
RetransmitStale(h) ==
  /\ timer.pc = "retransmit"
  /\ h \in timer.todo
  /\ Stale(h)
  /\ timer' = [pc |-> "drop", todo |-> timer.todo \ {h}, h |-> h]
  /\ UNCHANGED <<timerFrame, shakeVars, tableVars, sessionVars, appVars>>

\* ... to delete, under m.mu, whatever handshake its address has by now.
Drop ==
  /\ timer.pc = "drop"
  /\ pending' = [pending EXCEPT ![addr[timer.h]] = None]
  /\ lastCreate' = [lastCreate EXCEPT ![addr[timer.h]] = "absent"]
  /\ timer' = [timer EXCEPT !.pc = "retransmit", !.h = None]
  /\ UNCHANGED <<established, timerFrame, shakeVars, sessionVars, appVars>>

StartSweep ==
  /\ timer.pc = "retransmit"
  /\ timer.todo = {}
  /\ timer' = [pc |-> "sweep", todo |-> IdsIn(established), h |-> None]
  /\ UNCHANGED <<timerFrame, shakeVars, tableVars, sessionVars, appVars>>

SweepTouching(h) == idle' = [idle EXCEPT ![h] = "active"]

\* A session that is not to be reaped gets a keepalive when it is quiet, which
\* does not count as activity.
SweepKeepalive(h) == idle' = idle

SweepKeep(h) ==
  /\ timer.pc = "sweep"
  /\ h \in timer.todo
  /\ status[h] = "closed" \/ idle[h] # "timed out"
  /\ IF status[h] = "closed" THEN UNCHANGED idle ELSE SweepKeepalive(h)
  /\ timer' = [timer EXCEPT !.todo = @ \ {h}]
  /\ UNCHANGED <<status, detaching, timerFrame, shakeVars, tableVars, appVars>>

SweepReap(h) ==
  /\ timer.pc = "sweep"
  /\ h \in timer.todo
  /\ idle[h] = "timed out"
  /\ BeginClose(h)
  /\ timer' = [pc |-> "reap", todo |-> timer.todo \ {h}, h |-> h]
  /\ UNCHANGED <<idle, timerFrame, shakeVars, tableVars, appVars>>

ReapReturns ==
  /\ timer.pc = "reap"
  /\ CloseReturned(timer.h)
  /\ timer' = [timer EXCEPT !.pc = "sweep", !.h = None]
  /\ UNCHANGED <<timerFrame, shakeVars, tableVars, sessionVars, appVars>>

EndTick ==
  /\ timer.pc = "sweep"
  /\ timer.todo = {}
  /\ timer' = [timer EXCEPT !.pc = "wait"]
  /\ UNCHANGED <<timerFrame, shakeVars, tableVars, sessionVars, appVars>>

TimerLoop ==
  \/ Tick \/ TimerExit \/ Drop \/ StartSweep \/ ReapReturns \/ EndTick
  \/ \E h \in timer.todo :
       Retransmit(h) \/ RetransmitStale(h) \/ SweepKeep(h) \/ SweepReap(h)

------------------------------------------------------------------------------
(* ServerMux.Close *)

closerFrame == <<reader, timer, silent>>

CloseStart ==
  /\ Closes
  /\ closer.pc = "before"
  /\ closed' = TRUE
  /\ closer' = [closer EXCEPT !.pc = "reset"]
  /\ UNCHANGED <<closerFrame, shakeVars, tableVars, sessionVars, appVars>>

CloseReset ==
  /\ closer.pc = "reset"
  /\ closer' = [pc |-> "closing", todo |-> IdsIn(established), h |-> None]
  /\ established' = [a \in Addrs |-> None]
  /\ pending' = [a \in Addrs |-> None]
  /\ lastCreate' = [a \in Addrs |-> "absent"]
  /\ UNCHANGED <<closerFrame, closed, shakeVars, sessionVars, appVars>>

CloseSession(h) ==
  /\ closer.pc = "closing"
  /\ h \in closer.todo
  /\ IF status[h] = "open" THEN MarkClosed(h) ELSE UNCHANGED <<status, detaching>>
  /\ closer' = [pc |-> "waiting", todo |-> closer.todo \ {h}, h |-> h]
  /\ UNCHANGED <<idle, closerFrame, closed, shakeVars, tableVars, appVars>>

CloseNext ==
  /\ closer.pc = "waiting"
  /\ CloseReturned(closer.h)
  /\ closer' = [closer EXCEPT !.pc = "closing", !.h = None]
  /\ UNCHANGED <<closerFrame, closed, shakeVars, tableVars, sessionVars, appVars>>

CloseEnd ==
  /\ closer.pc = "closing"
  /\ closer.todo = {}
  /\ closer' = [closer EXCEPT !.pc = "done"]
  /\ UNCHANGED <<closerFrame, closed, shakeVars, tableVars, sessionVars, appVars>>

Closer ==
  \/ CloseStart \/ CloseReset \/ CloseNext \/ CloseEnd
  \/ \E h \in closer.todo : CloseSession(h)

------------------------------------------------------------------------------
(* The application, the clock and the clients *)

outside == <<reader, timer, closer, closed>>

Accept ==
  /\ accepting
  /\ ready # <<>>
  /\ accepted' = accepted \cup {Head(ready)}
  /\ ready' = Tail(ready)
  /\ UNCHANGED <<accepting, silent, outside, shakeVars, tableVars, sessionVars>>

AcceptClosed ==
  /\ accepting
  /\ closed
  /\ accepting' = FALSE
  /\ UNCHANGED <<ready, accepted, silent, outside, shakeVars, tableVars,
                 sessionVars>>

AppClose(h) ==
  /\ h \in accepted
  /\ BeginClose(h)
  /\ UNCHANGED <<idle, silent, outside, shakeVars, tableVars, appVars>>

GapElapses(a) ==
  /\ lastCreate[a] = "recent"
  /\ lastCreate' = [lastCreate EXCEPT ![a] = "past"]
  /\ UNCHANGED <<pending, established, silent, outside, shakeVars, sessionVars,
                 appVars>>

\* handshakeTimeout passes; the age of a handshake matters until it completes.
Expire(h) ==
  /\ h \in 1..made
  /\ pending[addr[h]] = h \/ h \in timer.todo
  /\ status[h] = "none"
  /\ h \notin expired
  /\ expired' = expired \cup {h}
  /\ UNCHANGED <<made, addr, step, silent, outside, tableVars, sessionVars,
                 appVars>>

\* A client that sends nothing: its session is quiet, then idle too long.
GrowIdle(h) ==
  /\ Reaps
  /\ status[h] = "open"
  /\ idle[h] # "timed out"
  /\ idle' = [idle EXCEPT ![h] = IF @ = "active" THEN "quiet" ELSE "timed out"]
  /\ UNCHANGED <<status, detaching, silent, outside, shakeVars, tableVars,
                 appVars>>

FallSilent(a) ==
  /\ a \in Vanishing \ silent
  /\ silent' = silent \cup {a}
  /\ UNCHANGED <<outside, shakeVars, tableVars, sessionVars, appVars>>

Clock == (\E a \in Addrs : GapElapses(a)) \/ (\E h \in Ids : Expire(h) \/ GrowIdle(h))

Next ==
  \/ Receive
  \/ Handle
  \/ ReadExit
  \/ TimerLoop
  \/ Closer
  \/ Accept
  \/ AcceptClosed
  \/ \E h \in Ids : AppClose(h) \/ Detach(h)
  \/ Clock
  \/ \E a \in Addrs : FallSilent(a)

Spec == Init /\ [][Next]_vars

\* The goroutines keep being scheduled, the application keeps calling Accept
\* and time passes; nothing makes a client send or the mux close.
Fairness ==
  /\ WF_vars(Handle)
  /\ WF_vars(TimerLoop)
  /\ WF_vars(Accept)
  /\ \A h \in Ids : WF_vars(Detach(h)) /\ WF_vars(Expire(h)) /\ WF_vars(GrowIdle(h))

FairSpec == Spec /\ Fairness

------------------------------------------------------------------------------
(* Properties *)

TypeOK ==
  /\ made \in 0..MaxHandshakes
  /\ addr \in [Ids -> Addrs \cup {None}]
  /\ step \in [Ids -> 0..Len(Pattern)]
  /\ expired \subseteq Ids
  /\ pending \in [Addrs -> 0..made]
  /\ lastCreate \in [Addrs -> {"absent", "recent", "past"}]
  /\ established \in [Addrs -> 0..made]
  /\ status \in [Ids -> {"none", "open", "closed"}]
  /\ detaching \subseteq Ids
  /\ idle \in [Ids -> {"active", "quiet", "timed out"}]
  /\ ready \in Seq(Ids) /\ Len(ready) <= ReadyCap
  /\ accepted \subseteq Ids
  /\ accepting \in BOOLEAN
  /\ closed \in BOOLEAN
  /\ reader \in [pc : ReaderPcs, h : 0..made,
                 kind : {"none", "frame", "hello", "next", "junk"}]
  /\ timer \in [pc : {"wait", "retransmit", "drop", "sweep", "reap", "exited"},
                todo : SUBSET (1..made), h : 0..made]
  /\ closer \in [pc : {"before", "reset", "closing", "waiting", "done"},
                 todo : SUBSET (1..made), h : 0..made]
  /\ silent \subseteq Addrs

\* An address never has a handshake and a session at once, so no datagram of a
\* live session can be taken for a handshake message.
TablesDisjoint == \A a \in Addrs : pending[a] = None \/ established[a] = None

\* Handshakes and sessions together never exceed the cap, so a client whose
\* handshake was admitted is never turned away when it completes.
CapHolds ==
  MaxSessions > 0 =>
    Cardinality(Used(established)) + Cardinality(Used(pending)) <= MaxSessions

\* The tables of the mux are in order, whatever the read loop, the timer and the
\* application do to them between each other's steps.
TablesSound == TypeOK /\ TablesDisjoint /\ CapHolds

\* While the mux runs, an open session is the one its address is routed to:
\* deleting by address (onClose, retransmit) never takes a route from a session
\* that is still open.
OpenSessionsRouted ==
  \A h \in Ids :
    status[h] = "open" /\ ~closed /\ ~(reader.pc = "shed" /\ reader.h = h)
      => established[addr[h]] = h

\* The read loop never waits for the application: with a datagram in hand it
\* can always take its next step, if only to finish a close.
ReadLoopNeverWaits ==
  reader.pc \notin {"read", "exited"} =>
    ENABLED (Handle \/ \E h \in detaching : Detach(h))

\* A client that falls silent leaves nothing behind: the timer drops its
\* handshake and reaps its session, keepalives notwithstanding.
SilentClientsForgotten ==
  \A a \in Addrs :
    a \in silent ~> (closed \/ (pending[a] = None /\ established[a] = None))

\* Every session that is established reaches the application, or is closed.
SessionsReachApplication ==
  \A h \in Ids :
    status[h] = "open" ~> (closed \/ h \in accepted \/ status[h] = "closed")

\* A handshake the read loop is working on counts even if the timer, or Close,
\* has just taken it out of the table.
InHand == IF reader.pc \in {"advance", "finish"} THEN {addr[reader.h]} ELSE {}

Table == INSTANCE SessionTable
           WITH Cap <- MaxSessions,
                shaking <- Used(pending) \cup InHand,
                live <- Used(established)

\* The mux is a session table: an address gets a session only by completing a
\* handshake that was admitted under the cap, whatever the timer, Close and the
\* application delete meanwhile.
ImplementsSessionTable == Table!Spec

\* The comment on ServerMux.Close says it shuts the mux and all sessions: once
\* it has returned and both loops have exited, no session is open.
CloseShutsAll ==
  closer.pc = "done" /\ reader.pc = "exited" /\ timer.pc = "exited"
    => \A h \in Ids : status[h] # "open"
==============================================================================
