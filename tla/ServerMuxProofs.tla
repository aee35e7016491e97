-------------------------- MODULE ServerMuxProofs --------------------------
(***************************************************************************)
(* Proofs about ServerMux, for any finite set of addresses, pattern, cap,   *)
(* backlog and number of handshakes.                                        *)
(*                                                                         *)
(* The inductive invariant IInv ties the two tables, the read loop's        *)
(* handshake and the sessions together: what a table holds under an address *)
(* was started for that address, the address of a handshake in hand has no  *)
(* session, and a session that is open or being closed is the one its       *)
(* address is routed to.                                                    *)
(***************************************************************************)
EXTENDS ServerMux, FiniteSetTheorems, TLAPS

\* Ids are given out in order, to one address each.
Addressed ==
  /\ \A h \in 1..made : addr[h] \in Addrs
  /\ \A a \in Addrs : pending[a] # None => addr[pending[a]] = a

\* An id not given out yet has no session.
Fresh == \A h \in Ids : h > made => status[h] = "none" /\ h \notin detaching

\* A handshake of the table has a message to go, unless the read loop is about
\* to take it out.
Unfinished ==
  \A a \in Addrs : pending[a] # None =>
    \/ step[pending[a]] < Len(Pattern)
    \/ reader.pc = "finish" /\ reader.h = pending[a]

\* What the read loop holds: nobody else gives its address a session.
InHandSound ==
  /\ reader.pc \in {"advance", "abandon", "finish", "publish", "shed"}
       => reader.h \in 1..made
  /\ reader.pc \in {"advance", "abandon", "finish"}
       => established[addr[reader.h]] = None
  /\ reader.pc = "advance" => step[reader.h] < Len(Pattern)
  /\ ~closed /\ reader.pc \in {"publish", "shed"}
       => established[addr[reader.h]] \in {None, reader.h}

\* Deleting by address (onClose) only ever deletes the session that closes.
Routed ==
  ~closed => \A h \in Ids :
    /\ status[h] = "open" => h \notin detaching
    /\ status[h] = "open" \/ h \in detaching =>
         \/ established[addr[h]] = h
         \/ reader.pc = "shed" /\ reader.h = h

\* Close resets the tables after it has closed m.closed.
ClosedFirst == closer.pc # "before" => closed

IInv ==
  /\ TypeOK
  /\ TablesDisjoint
  /\ Addressed
  /\ Fresh
  /\ Unfinished
  /\ InHandSound
  /\ Routed
  /\ ClosedFirst

------------------------------------------------------------------------------
(* The initial states *)

\* Both ends have a message to send, so a handshake takes at least two.
LEMMA PatternFacts ==
  /\ Len(Pattern) \in Nat /\ Len(Pattern) > 1
  /\ MaxHandshakes \in Nat /\ ReadyCap \in Nat
<1>1. Pattern \in Seq({"c", "s"})
  BY MuxAssumption
<1>2. \E i, j \in DOMAIN Pattern : Pattern[i] = "c" /\ Pattern[j] = "s"
  BY MuxAssumption
<1>3. MaxHandshakes \in Nat /\ ReadyCap \in Nat
  BY MuxAssumption
<1> QED BY <1>1, <1>2, <1>3

LEMMA InitSound == Init => IInv
<1> SUFFICES ASSUME Init PROVE IInv
  OBVIOUS
<1>1. made = 0 /\ 0 \in 0..made /\ 0 \in 0..MaxHandshakes /\ 0 \in 0..Len(Pattern)
  BY PatternFacts DEF Init
<1>2. TypeOK
  <2>1. /\ made \in 0..MaxHandshakes /\ addr \in [Ids -> Addrs \cup {None}]
        /\ step \in [Ids -> 0..Len(Pattern)] /\ expired \subseteq Ids
    BY <1>1 DEF Init
  <2>2. /\ pending \in [Addrs -> 0..made]
        /\ lastCreate \in [Addrs -> {"absent", "recent", "past"}]
        /\ established \in [Addrs -> 0..made]
    BY <1>1 DEF Init, None
  <2>3. /\ status \in [Ids -> {"none", "open", "closed"}] /\ detaching \subseteq Ids
        /\ idle \in [Ids -> {"active", "quiet", "timed out"}]
    BY DEF Init
  <2>4. ready \in Seq(Ids) /\ Len(ready) <= ReadyCap /\ accepted \subseteq Ids
    BY PatternFacts DEF Init
  <2>5. accepting \in BOOLEAN /\ closed \in BOOLEAN
    BY DEF Init
  <2>6. /\ reader \in [pc : ReaderPcs, h : 0..made,
                       kind : {"none", "frame", "hello", "next", "junk"}]
        /\ timer \in [pc : {"wait", "retransmit", "drop", "sweep", "reap", "exited"},
                      todo : SUBSET (1..made), h : 0..made]
        /\ closer \in [pc : {"before", "reset", "closing", "waiting", "done"},
                       todo : SUBSET (1..made), h : 0..made]
        /\ silent \subseteq Addrs
    BY <1>1 DEF Init, Holding, ReaderPcs, None
  <2> QED BY <2>1, <2>2, <2>3, <2>4, <2>5, <2>6 DEF TypeOK
<1>3. TablesDisjoint /\ Addressed /\ Unfinished
  BY DEF Init, TablesDisjoint, Addressed, Unfinished
<1>4. Fresh /\ Routed
  BY DEF Init, Fresh, Routed
<1>5. InHandSound /\ ClosedFirst
  BY DEF Init, InHandSound, ClosedFirst, Holding
<1> QED BY <1>2, <1>3, <1>4, <1>5 DEF IInv

------------------------------------------------------------------------------
(* Types *)

\* The read loop, the timer and Close do not touch the type of what they hold.
ReaderRecord == [pc : ReaderPcs, h : 0..made,
                 kind : {"none", "frame", "hello", "next", "junk"}]
TimerRecord == [pc : {"wait", "retransmit", "drop", "sweep", "reap", "exited"},
                todo : SUBSET (1..made), h : 0..made]
CloserRecord == [pc : {"before", "reset", "closing", "waiting", "done"},
                 todo : SUBSET (1..made), h : 0..made]

ShakeTypeOK ==
  /\ made \in 0..MaxHandshakes
  /\ addr \in [Ids -> Addrs \cup {None}]
  /\ step \in [Ids -> 0..Len(Pattern)]
  /\ expired \subseteq Ids

TableTypeOK ==
  /\ pending \in [Addrs -> 0..made]
  /\ lastCreate \in [Addrs -> {"absent", "recent", "past"}]
  /\ established \in [Addrs -> 0..made]

SessionTypeOK ==
  /\ status \in [Ids -> {"none", "open", "closed"}]
  /\ detaching \subseteq Ids
  /\ idle \in [Ids -> {"active", "quiet", "timed out"}]

AppTypeOK ==
  /\ ready \in Seq(Ids) /\ Len(ready) <= ReadyCap
  /\ accepted \subseteq Ids
  /\ accepting \in BOOLEAN

RestTypeOK ==
  /\ closed \in BOOLEAN
  /\ silent \subseteq Addrs
  /\ reader \in ReaderRecord
  /\ timer \in TimerRecord
  /\ closer \in CloserRecord

LEMMA TypeParts ==
  TypeOK <=> ShakeTypeOK /\ TableTypeOK /\ SessionTypeOK /\ AppTypeOK /\ RestTypeOK
BY DEF TypeOK, ShakeTypeOK, TableTypeOK, SessionTypeOK, AppTypeOK, RestTypeOK,
       ReaderRecord, TimerRecord, CloserRecord

\* What a step leaves alone keeps its type.
LEMMA TypeKept ==
  ASSUME TypeOK
  PROVE  /\ UNCHANGED shakeVars => ShakeTypeOK' /\ made' = made
         /\ UNCHANGED <<tableVars, made>> => TableTypeOK'
         /\ UNCHANGED sessionVars => SessionTypeOK'
         /\ UNCHANGED appVars => AppTypeOK'
         /\ UNCHANGED <<reader, made>> => reader' \in ReaderRecord'
         /\ UNCHANGED <<timer, made>> => timer' \in TimerRecord'
         /\ UNCHANGED <<closer, made>> => closer' \in CloserRecord'
BY DEF TypeOK, ShakeTypeOK, TableTypeOK, SessionTypeOK, AppTypeOK, ReaderRecord,
       TimerRecord, CloserRecord, shakeVars, tableVars, sessionVars, appVars

\* The parts of the type after a step, put together.
LEMMA TypeNext ==
  ASSUME ShakeTypeOK', TableTypeOK', SessionTypeOK', AppTypeOK', RestTypeOK'
  PROVE  TypeOK'
BY DEF TypeOK, ShakeTypeOK, TableTypeOK, SessionTypeOK, AppTypeOK, RestTypeOK,
       ReaderRecord, TimerRecord, CloserRecord

LEMMA BackTyped ==
  ASSUME TypeOK
  PROVE  BackToRead \in ReaderRecord /\ BackToRead.pc \in {"read", "exited"}
<1>1. 0 \in 0..made
  <2>1. made \in 0..MaxHandshakes
    BY DEF TypeOK
  <2> QED BY <2>1, PatternFacts
<1>2. CASE closed
  BY <1>1, <1>2 DEF BackToRead, Holding, ReaderRecord, ReaderPcs, None
<1>3. CASE ~closed
  BY <1>1, <1>3 DEF BackToRead, Holding, ReaderRecord, ReaderPcs, None
<1> QED BY <1>2, <1>3

LEMMA HoldingTyped ==
  ASSUME NEW pc \in ReaderPcs, NEW h \in 0..made,
         NEW kind \in {"none", "frame", "hello", "next", "junk"}
  PROVE  Holding(pc, h, kind) \in ReaderRecord /\ Holding(pc, h, kind).pc = pc
         /\ Holding(pc, h, kind).h = h
BY DEF Holding, ReaderRecord

------------------------------------------------------------------------------
(* Steps that leave the tables and the sessions alone *)

core == <<made, addr, step, pending, established, status, detaching, closed>>

\* A step of the timer, of Close, of the application or of the clock.
LEMMA CoreKept ==
  ASSUME IInv, TypeOK', UNCHANGED <<core, reader>>, ClosedFirst'
  PROVE  IInv'
<1>1. /\ made' = made /\ addr' = addr /\ step' = step /\ pending' = pending
      /\ established' = established /\ status' = status /\ detaching' = detaching
      /\ closed' = closed /\ reader' = reader
  BY DEF core
<1>2. TablesDisjoint' /\ Addressed' /\ Fresh' /\ Unfinished'
  BY <1>1 DEF IInv, TablesDisjoint, Addressed, Fresh, Unfinished
<1>3. InHandSound' /\ Routed'
  BY <1>1 DEF IInv, InHandSound, Routed
<1> QED BY <1>2, <1>3 DEF IInv

\* A step of the read loop that neither finishes nor sheds.
LEMMA ReaderMoves ==
  ASSUME IInv, TypeOK', UNCHANGED <<core, closer>>, reader.pc \notin {"finish", "shed"},
         InHandSound'
  PROVE  IInv'
<1>1. /\ made' = made /\ addr' = addr /\ step' = step /\ pending' = pending
      /\ established' = established /\ status' = status /\ detaching' = detaching
      /\ closed' = closed /\ closer' = closer
  BY DEF core
<1>2. TablesDisjoint' /\ Addressed' /\ Fresh' /\ Unfinished'
  BY <1>1 DEF IInv, TablesDisjoint, Addressed, Fresh, Unfinished
<1>3. Routed' /\ ClosedFirst'
  BY <1>1 DEF IInv, Routed, ClosedFirst
<1> QED BY <1>2, <1>3 DEF IInv

\* What a lookup finds is an id of its address.
LEMMA LookupFacts ==
  ASSUME IInv, NEW a \in Addrs
  PROVE  /\ pending[a] \in 0..made /\ established[a] \in 0..made /\ made \in Nat
         /\ pending[a] # None => /\ pending[a] \in 1..made /\ addr[pending[a]] = a
                                 /\ established[a] = None
<1>1. /\ pending \in [Addrs -> 0..made] /\ established \in [Addrs -> 0..made]
      /\ made \in 0..MaxHandshakes
  BY DEF IInv, TypeOK
<1>2. made \in Nat
  BY <1>1, PatternFacts
<1>3. pending[a] # None => pending[a] \in 1..made
  BY <1>1, <1>2 DEF None
<1>4. pending[a] # None => addr[pending[a]] = a /\ established[a] = None
  BY DEF IInv, TablesDisjoint, Addressed
<1> QED BY <1>1, <1>2, <1>3, <1>4

\* A step of the read loop that changes nothing else, but the age of what it
\* looks up.
LEMMA ReaderOnly ==
  ASSUME IInv, UNCHANGED <<core, readerFrame>>, UNCHANGED appVars,
         idle' \in [Ids -> {"active", "quiet", "timed out"}],
         lastCreate' \in [Addrs -> {"absent", "recent", "past"}],
         reader' \in ReaderRecord, reader.pc \notin {"finish", "shed"}, expired' = expired,
         InHandSound'
  PROVE  IInv'
<1>1. /\ made' = made /\ addr' = addr /\ step' = step /\ pending' = pending
      /\ established' = established /\ status' = status /\ detaching' = detaching
      /\ closed' = closed /\ closer' = closer /\ timer' = timer /\ silent' = silent
      /\ ready' = ready /\ accepted' = accepted /\ accepting' = accepting
  BY DEF core, readerFrame, appVars
<1>2. TypeOK'
  <2>1. ShakeTypeOK' /\ TableTypeOK'
    BY <1>1 DEF IInv, TypeOK, ShakeTypeOK, TableTypeOK
  <2>2. SessionTypeOK' /\ AppTypeOK'
    BY <1>1 DEF IInv, TypeOK, SessionTypeOK, AppTypeOK
  <2>3. RestTypeOK'
    BY <1>1 DEF IInv, TypeOK, RestTypeOK, ReaderRecord, TimerRecord, CloserRecord
  <2> QED BY <2>1, <2>2, <2>3, TypeNext
<1> QED BY <1>1, <1>2, ReaderMoves DEF core

\* What ReaderOnly asks of most steps.
LEMMA IInvTypes ==
  ASSUME IInv
  PROVE  /\ TypeOK
         /\ idle \in [Ids -> {"active", "quiet", "timed out"}]
         /\ lastCreate \in [Addrs -> {"absent", "recent", "past"}]
         /\ reader \in ReaderRecord
BY DEF IInv, TypeOK, ReaderRecord

LEMMA LookupSessionSound ==
  ASSUME IInv, NEW a \in Addrs, LookupSession(a)
  PROVE  IInv'
<1>1. /\ reader' = Holding("session", established[a], "frame") /\ reader.pc = "read"
      /\ UNCHANGED <<core, readerFrame>> /\ UNCHANGED appVars
      /\ lastCreate' = lastCreate /\ idle' = idle /\ expired' = expired
  BY DEF LookupSession, Arrives, core, readerFrame, shakeVars, tableVars, sessionVars
<1>2. reader' \in ReaderRecord /\ reader'.pc = "session"
  BY <1>1, LookupFacts, HoldingTyped DEF ReaderPcs
<1>3. InHandSound'
  BY <1>2 DEF InHandSound
<1> QED BY <1>1, <1>2, <1>3, IInvTypes, ReaderOnly

LEMMA LookupPendingSound ==
  ASSUME IInv, NEW a \in Addrs, NEW kind \in {"next", "junk"}, LookupPending(a, kind)
  PROVE  IInv'
<1>1. /\ reader' = Holding("advance", pending[a], kind) /\ reader.pc = "read"
      /\ pending[a] # None
      /\ UNCHANGED <<core, readerFrame>> /\ UNCHANGED appVars
      /\ lastCreate' = lastCreate /\ idle' = idle /\ expired' = expired
  BY DEF LookupPending, Arrives, core, readerFrame, shakeVars, tableVars, sessionVars
<1>2. /\ reader' \in ReaderRecord /\ reader'.pc = "advance" /\ reader'.h = pending[a]
  BY <1>1, LookupFacts, HoldingTyped DEF ReaderPcs
<1>3. step[pending[a]] < Len(Pattern)
  BY <1>1 DEF IInv, Unfinished
<1>4. InHandSound'
  <2>1. /\ pending[a] \in 1..made /\ established[addr[pending[a]]] = None
        /\ made' = made /\ established' = established /\ addr' = addr /\ step' = step
    BY <1>1, LookupFacts DEF core
  <2> QED BY <1>2, <1>3, <2>1 DEF InHandSound
<1> QED BY <1>1, <1>2, <1>4, IInvTypes, ReaderOnly

LEMMA LookupFullSound ==
  ASSUME IInv, NEW a \in Addrs, LookupFull(a)
  PROVE  IInv'
<1>1. /\ reader' = BackToRead /\ reader.pc = "read"
      /\ lastCreate' = [lastCreate EXCEPT ![a] = "recent"]
      /\ UNCHANGED <<core, readerFrame>> /\ UNCHANGED appVars
      /\ idle' = idle /\ expired' = expired
  BY DEF LookupFull, MayStart, Arrives, core, readerFrame, shakeVars, sessionVars
<1>2. reader' \in ReaderRecord /\ reader'.pc \in {"read", "exited"}
  BY <1>1, BackTyped DEF IInv
<1>3. InHandSound'
  BY <1>2 DEF InHandSound
<1>4. lastCreate' \in [Addrs -> {"absent", "recent", "past"}]
  BY <1>1, IInvTypes
<1> QED BY <1>1, <1>2, <1>3, <1>4, IInvTypes, ReaderOnly

LEMMA SessionFrameSound ==
  ASSUME IInv, SessionFrame
  PROVE  IInv'
<1>1. /\ reader' = BackToRead /\ reader.pc = "session"
      /\ idle' = [idle EXCEPT ![reader.h] = "active"]
      /\ UNCHANGED <<core, readerFrame>> /\ UNCHANGED appVars
      /\ lastCreate' = lastCreate /\ expired' = expired
  BY DEF SessionFrame, core, readerFrame, shakeVars, tableVars
<1>2. reader' \in ReaderRecord /\ reader'.pc \in {"read", "exited"}
  BY <1>1, BackTyped DEF IInv
<1>3. InHandSound'
  BY <1>2 DEF InHandSound
<1>4. idle' \in [Ids -> {"active", "quiet", "timed out"}]
  BY <1>1, IInvTypes
<1> QED BY <1>1, <1>2, <1>3, <1>4, IInvTypes, ReaderOnly

\* Junk leaves a handshake in the table, or has it abandoned.
LEMMA AdvanceJunkSound ==
  ASSUME IInv, AdvanceJunk
  PROVE  IInv'
<1>1. /\ reader.pc = "advance"
      /\ reader' = BackToRead \/ reader' = Holding("abandon", reader.h, "none")
      /\ UNCHANGED <<core, readerFrame>> /\ UNCHANGED appVars
      /\ lastCreate' = lastCreate /\ idle' = idle /\ expired' = expired
  BY DEF AdvanceJunk, core, readerFrame, shakeVars, tableVars, sessionVars
<1>2. reader.h \in 0..made
  BY IInvTypes DEF ReaderRecord
<1>3. /\ reader' \in ReaderRecord
      /\ \/ reader'.pc \in {"read", "exited"}
         \/ reader'.pc = "abandon" /\ reader'.h = reader.h
  BY <1>1, <1>2, BackTyped, HoldingTyped DEF IInv, ReaderPcs
<1>4. InHandSound'
  <2>1. /\ reader.h \in 1..made /\ established[addr[reader.h]] = None
        /\ made' = made /\ established' = established /\ addr' = addr
    BY <1>1 DEF IInv, InHandSound, core
  <2> QED BY <1>3, <2>1 DEF InHandSound
<1> QED BY <1>1, <1>3, <1>4, IInvTypes, ReaderOnly

LEMMA PublishShedSound ==
  ASSUME IInv, PublishShed
  PROVE  IInv'
<1>1. /\ reader.pc = "publish" /\ reader' = Holding("shed", reader.h, "none")
      /\ UNCHANGED <<core, readerFrame>> /\ UNCHANGED appVars
      /\ lastCreate' = lastCreate /\ idle' = idle /\ expired' = expired
  BY DEF PublishShed, core, readerFrame, shakeVars, tableVars, sessionVars
<1>2. reader.h \in 0..made
  BY IInvTypes DEF ReaderRecord
<1>3. reader' \in ReaderRecord /\ reader'.pc = "shed" /\ reader'.h = reader.h
  BY <1>1, <1>2, HoldingTyped DEF ReaderPcs
<1>4. InHandSound'
  <2>1. /\ reader.h \in 1..made
        /\ ~closed => established[addr[reader.h]] \in {None, reader.h}
        /\ made' = made /\ established' = established /\ addr' = addr /\ closed' = closed
    BY <1>1 DEF IInv, InHandSound, core
  <2> QED BY <1>3, <2>1 DEF InHandSound
<1> QED BY <1>1, <1>3, <1>4, IInvTypes, ReaderOnly

LEMMA ReadExitSound ==
  ASSUME IInv, ReadExit
  PROVE  IInv'
<1>1. /\ reader.pc = "read" /\ reader' = Holding("exited", None, "none")
      /\ UNCHANGED <<core, readerFrame>> /\ UNCHANGED appVars
      /\ lastCreate' = lastCreate /\ idle' = idle /\ expired' = expired
  BY DEF ReadExit, core, readerFrame, shakeVars, tableVars, sessionVars
<1>2. None \in 0..made
  <2>1. made \in 0..MaxHandshakes
    BY DEF IInv, TypeOK
  <2> QED BY <2>1, PatternFacts DEF None
<1>3. reader' \in ReaderRecord /\ reader'.pc = "exited"
  BY <1>1, <1>2, HoldingTyped DEF ReaderPcs
<1>4. InHandSound'
  BY <1>3 DEF InHandSound
<1> QED BY <1>1, <1>3, <1>4, IInvTypes, ReaderOnly

\* The backlog takes a session that is waiting to be accepted.
LEMMA PublishReadySound ==
  ASSUME IInv, PublishReady
  PROVE  IInv'
<1>1. /\ reader.pc = "publish" /\ reader' = BackToRead /\ Len(ready) < ReadyCap
      /\ ready' = Append(ready, reader.h)
      /\ UNCHANGED <<core, readerFrame>> /\ UNCHANGED <<accepted, accepting>>
      /\ lastCreate' = lastCreate /\ idle' = idle /\ expired' = expired
  BY DEF PublishReady, core, readerFrame, shakeVars, tableVars, sessionVars
<1>2. reader' \in ReaderRecord /\ reader'.pc \in {"read", "exited"}
  BY <1>1, BackTyped DEF IInv
<1>3. InHandSound'
  BY <1>2 DEF InHandSound
<1>4. reader.h \in Ids
  <2>1. reader.h \in 1..made
    BY <1>1 DEF IInv, InHandSound
  <2>2. made \in 0..MaxHandshakes
    BY DEF IInv, TypeOK
  <2> QED BY <2>1, <2>2, PatternFacts DEF Ids
<1>5. AppTypeOK'
  <2>1. AppTypeOK
    BY DEF IInv, TypeOK, AppTypeOK
  <2> QED BY <2>1, <1>1, <1>4, PatternFacts DEF AppTypeOK
<1>6. TypeOK'
  <2>1. /\ made' = made /\ addr' = addr /\ step' = step /\ pending' = pending
        /\ established' = established /\ status' = status /\ detaching' = detaching
        /\ closed' = closed /\ closer' = closer /\ timer' = timer /\ silent' = silent
    BY <1>1 DEF core, readerFrame
  <2>2. ShakeTypeOK' /\ TableTypeOK'
    BY <1>1, <2>1 DEF IInv, TypeOK, ShakeTypeOK, TableTypeOK
  <2>3. SessionTypeOK'
    BY <1>1, <2>1 DEF IInv, TypeOK, SessionTypeOK
  <2>4. RestTypeOK'
    BY <1>2, <2>1 DEF IInv, TypeOK, RestTypeOK, ReaderRecord, TimerRecord, CloserRecord
  <2> QED BY <1>5, <2>2, <2>3, <2>4, TypeNext
<1> QED BY <1>1, <1>3, <1>6, ReaderMoves DEF readerFrame

\* A session that was shed is closed and detached when its Close returns.
LEMMA ShedReturnsSound ==
  ASSUME IInv, ShedReturns
  PROVE  IInv'
<1>1. /\ reader.pc = "shed" /\ reader' = BackToRead /\ CloseReturned(reader.h)
      /\ UNCHANGED <<core, readerFrame>> /\ UNCHANGED appVars
      /\ lastCreate' = lastCreate /\ idle' = idle /\ expired' = expired
  BY DEF ShedReturns, core, readerFrame, shakeVars, tableVars, sessionVars
<1>2. reader' \in ReaderRecord /\ reader'.pc \in {"read", "exited"}
  BY <1>1, BackTyped DEF IInv
<1>3. /\ made' = made /\ addr' = addr /\ step' = step /\ pending' = pending
      /\ established' = established /\ status' = status /\ detaching' = detaching
      /\ closed' = closed /\ closer' = closer /\ timer' = timer /\ silent' = silent
      /\ ready' = ready /\ accepted' = accepted /\ accepting' = accepting
  BY <1>1 DEF core, readerFrame, appVars
<1>4. TypeOK'
  <2>1. ShakeTypeOK' /\ TableTypeOK'
    BY <1>1, <1>3 DEF IInv, TypeOK, ShakeTypeOK, TableTypeOK
  <2>2. SessionTypeOK' /\ AppTypeOK'
    BY <1>1, <1>3 DEF IInv, TypeOK, SessionTypeOK, AppTypeOK
  <2>3. RestTypeOK'
    BY <1>2, <1>3 DEF IInv, TypeOK, RestTypeOK, ReaderRecord, TimerRecord, CloserRecord
  <2> QED BY <2>1, <2>2, <2>3, TypeNext
<1>5. TablesDisjoint' /\ Addressed' /\ Fresh'
  BY <1>3 DEF IInv, TablesDisjoint, Addressed, Fresh
<1>6. Unfinished'
  BY <1>1, <1>3 DEF IInv, Unfinished
<1>7. InHandSound' /\ ClosedFirst'
  BY <1>2, <1>3 DEF IInv, InHandSound, ClosedFirst
<1>8. Routed'
  BY <1>1, <1>3 DEF IInv, Routed, CloseReturned
<1> QED BY <1>4, <1>5, <1>6, <1>7, <1>8 DEF IInv

------------------------------------------------------------------------------
(* Steps of the timer loop, of Close and of the rest of the world *)

\* The outsiders: what none of them changes.
LEMMA OutsiderSound ==
  ASSUME IInv, UNCHANGED <<core, reader>>, ClosedFirst',
         expired' \subseteq Ids,
         idle' \in [Ids -> {"active", "quiet", "timed out"}],
         lastCreate' \in [Addrs -> {"absent", "recent", "past"}],
         AppTypeOK', silent' \subseteq Addrs,
         timer' \in TimerRecord, closer' \in CloserRecord
  PROVE  IInv'
<1>1. /\ made' = made /\ addr' = addr /\ step' = step /\ pending' = pending
      /\ established' = established /\ status' = status /\ detaching' = detaching
      /\ closed' = closed /\ reader' = reader
  BY DEF core
<1>2. ShakeTypeOK' /\ TableTypeOK'
  BY <1>1 DEF IInv, TypeOK, ShakeTypeOK, TableTypeOK
<1>3. SessionTypeOK'
  BY <1>1 DEF IInv, TypeOK, SessionTypeOK
<1>4. RestTypeOK'
  BY <1>1 DEF IInv, TypeOK, RestTypeOK, ReaderRecord, TimerRecord, CloserRecord
<1>5. TypeOK'
  BY <1>2, <1>3, <1>4, TypeNext
<1> QED BY <1>5, CoreKept

\* What an outsider that leaves a variable alone may cite.
LEMMA OutsiderTypes ==
  ASSUME IInv
  PROVE  /\ ClosedFirst /\ expired \subseteq Ids /\ silent \subseteq Addrs
         /\ idle \in [Ids -> {"active", "quiet", "timed out"}]
         /\ lastCreate \in [Addrs -> {"absent", "recent", "past"}]
         /\ AppTypeOK /\ timer \in TimerRecord /\ closer \in CloserRecord
         /\ made \in Nat /\ 1..made \subseteq Ids /\ None \in 0..made
         /\ pending \in [Addrs -> 0..made] /\ established \in [Addrs -> 0..made]
<1>1. /\ ClosedFirst /\ expired \subseteq Ids /\ silent \subseteq Addrs
      /\ idle \in [Ids -> {"active", "quiet", "timed out"}]
      /\ lastCreate \in [Addrs -> {"absent", "recent", "past"}]
      /\ AppTypeOK /\ timer \in TimerRecord /\ closer \in CloserRecord
      /\ pending \in [Addrs -> 0..made] /\ established \in [Addrs -> 0..made]
      /\ made \in 0..MaxHandshakes
  BY DEF IInv, TypeOK, AppTypeOK, TimerRecord, CloserRecord
<1>2. made \in Nat /\ 1..made \subseteq Ids /\ None \in 0..made
  <2>1. made \in 0..MaxHandshakes
    BY <1>1
  <2>2. MaxHandshakes \in Nat
    BY PatternFacts
  <2>3. made \in Nat /\ made <= MaxHandshakes
    BY <2>1, <2>2
  <2> QED BY <2>2, <2>3 DEF Ids, None
<1> QED BY <1>1, <1>2

\* The ids of a table.
LEMMA SnapshotTyped ==
  ASSUME IInv
  PROVE  IdsIn(pending) \subseteq 1..made /\ IdsIn(established) \subseteq 1..made
<1>1. \A a \in Addrs : pending[a] \in 0..made /\ established[a] \in 0..made
  BY OutsiderTypes
<1>2. \A n \in 0..made : n # None => n \in 1..made
  <2>1. made \in Nat
    BY OutsiderTypes
  <2> QED BY <2>1 DEF None
<1> QED BY <1>1, <1>2 DEF IdsIn, Used

\* The timer's own steps change only where it is.
LEMMA TimerOnly ==
  ASSUME IInv, timer' \in TimerRecord, idle' \in [Ids -> {"active", "quiet", "timed out"}],
         UNCHANGED <<timerFrame, shakeVars, tableVars, status, detaching, appVars>>
  PROVE  IInv'
<1>1. /\ UNCHANGED <<core, reader>> /\ closer' = closer /\ closed' = closed
      /\ silent' = silent /\ expired' = expired /\ lastCreate' = lastCreate
      /\ ready' = ready /\ accepted' = accepted /\ accepting' = accepting
      /\ made' = made
  BY DEF core, timerFrame, shakeVars, tableVars, appVars
<1>2. ClosedFirst' /\ AppTypeOK' /\ closer' \in CloserRecord
  BY <1>1, OutsiderTypes DEF ClosedFirst, AppTypeOK
<1> QED BY <1>1, <1>2, OutsiderTypes, OutsiderSound

LEMMA TimerSound ==
  ASSUME IInv,
         \/ Tick \/ TimerExit \/ StartSweep \/ ReapReturns \/ EndTick
         \/ \E h \in timer.todo : Retransmit(h) \/ RetransmitStale(h) \/ SweepKeep(h)
  PROVE  IInv'
<1>1. /\ timer.todo \subseteq 1..made /\ made \in Nat /\ timer.h \in 0..made /\ None \in 0..made
      /\ timer.pc \in {"wait", "retransmit", "drop", "sweep", "reap", "exited"}
      /\ timer \in TimerRecord
  BY OutsiderTypes DEF TimerRecord
<1>2. CASE Tick
  <2>1. timer' \in TimerRecord
    BY <1>1, <1>2, SnapshotTyped DEF Tick, TimerRecord
  <2> QED BY <1>2, <2>1, OutsiderTypes, TimerOnly DEF Tick, sessionVars
<1>3. CASE TimerExit
  <2>1. timer' \in TimerRecord
    BY <1>1, <1>3 DEF TimerExit, TimerRecord
  <2> QED BY <1>3, <2>1, OutsiderTypes, TimerOnly DEF TimerExit, sessionVars
<1>4. CASE StartSweep
  <2>1. timer' \in TimerRecord
    BY <1>1, <1>4, SnapshotTyped DEF StartSweep, TimerRecord
  <2> QED BY <1>4, <2>1, OutsiderTypes, TimerOnly DEF StartSweep, sessionVars
<1>5. CASE ReapReturns
  <2>1. timer' \in TimerRecord
    BY <1>1, <1>5 DEF ReapReturns, TimerRecord
  <2> QED BY <1>5, <2>1, OutsiderTypes, TimerOnly DEF ReapReturns, sessionVars
<1>6. CASE EndTick
  <2>1. timer' \in TimerRecord
    BY <1>1, <1>6 DEF EndTick, TimerRecord
  <2> QED BY <1>6, <2>1, OutsiderTypes, TimerOnly DEF EndTick, sessionVars
<1>7. ASSUME NEW h \in timer.todo, Retransmit(h) PROVE IInv'
  <2>1. timer' \in TimerRecord
    BY <1>1, <1>7 DEF Retransmit, TimerRecord
  <2> QED BY <1>7, <2>1, OutsiderTypes, TimerOnly DEF Retransmit, sessionVars
<1>8. ASSUME NEW h \in timer.todo, RetransmitStale(h) PROVE IInv'
  <2>1. timer' \in TimerRecord
    BY <1>1, <1>8 DEF RetransmitStale, TimerRecord
  <2> QED BY <1>8, <2>1, OutsiderTypes, TimerOnly DEF RetransmitStale, sessionVars
<1>9. ASSUME NEW h \in timer.todo, SweepKeep(h) PROVE IInv'
  <2>1. timer' \in TimerRecord
    BY <1>1, <1>9 DEF SweepKeep, TimerRecord
  <2>2. idle' = idle
    BY <1>9 DEF SweepKeep, SweepKeepalive
  <2> QED BY <1>9, <2>1, <2>2, OutsiderTypes, TimerOnly DEF SweepKeep
<1> QED BY <1>2, <1>3, <1>4, <1>5, <1>6, <1>7, <1>8, <1>9

\* Close's own steps: m.closed is closed first.
LEMMA CloseStartSound ==
  ASSUME IInv, CloseStart
  PROVE  IInv'
<1>1. /\ made' = made /\ addr' = addr /\ step' = step /\ pending' = pending
      /\ established' = established /\ status' = status /\ detaching' = detaching
      /\ reader' = reader /\ timer' = timer /\ silent' = silent /\ closed' = TRUE
      /\ expired' = expired /\ idle' = idle /\ lastCreate' = lastCreate
      /\ ready' = ready /\ accepted' = accepted /\ accepting' = accepting
      /\ closer' = [closer EXCEPT !.pc = "reset"]
  BY DEF CloseStart, closerFrame, shakeVars, tableVars, sessionVars, appVars
<1>2. closer' \in CloserRecord
  BY <1>1, OutsiderTypes DEF CloserRecord
<1>3. TypeOK'
  <2>1. ShakeTypeOK' /\ TableTypeOK'
    BY <1>1 DEF IInv, TypeOK, ShakeTypeOK, TableTypeOK
  <2>2. SessionTypeOK' /\ AppTypeOK'
    BY <1>1 DEF IInv, TypeOK, SessionTypeOK, AppTypeOK
  <2>3. RestTypeOK'
    BY <1>1, <1>2 DEF IInv, TypeOK, RestTypeOK, ReaderRecord, TimerRecord, CloserRecord
  <2> QED BY <2>1, <2>2, <2>3, TypeNext
<1>4. TablesDisjoint' /\ Addressed' /\ Fresh' /\ Unfinished'
  BY <1>1 DEF IInv, TablesDisjoint, Addressed, Fresh, Unfinished
<1>5. InHandSound' /\ Routed' /\ ClosedFirst'
  BY <1>1 DEF IInv, InHandSound, Routed, ClosedFirst
<1> QED BY <1>3, <1>4, <1>5 DEF IInv

LEMMA CloserSound ==
  ASSUME IInv, CloseNext \/ CloseEnd
  PROVE  IInv'
<1>1. /\ UNCHANGED <<core, reader>> /\ UNCHANGED <<expired, idle, lastCreate, silent, timer>>
      /\ UNCHANGED appVars /\ made' = made /\ closed' = closed
      /\ closer.pc \in {"waiting", "closing"}
      /\ \/ closer' = [closer EXCEPT !.pc = "closing", !.h = None]
         \/ closer' = [closer EXCEPT !.pc = "done"]
  BY DEF CloseNext, CloseEnd, core, closerFrame, shakeVars, tableVars, sessionVars
<1>2. closer' \in CloserRecord
  <2>1. closer \in CloserRecord /\ None \in 0..made
    BY OutsiderTypes
  <2> QED BY <1>1, <2>1 DEF CloserRecord
<1>3. ClosedFirst'
  BY <1>1, OutsiderTypes DEF ClosedFirst
<1>4. AppTypeOK'
  BY <1>1, OutsiderTypes DEF AppTypeOK, appVars
<1> QED BY <1>1, <1>2, <1>3, <1>4, OutsiderTypes, OutsiderSound

\* The application, the clock and the clients.
LEMMA WorldSound ==
  ASSUME IInv,
         \/ Accept \/ AcceptClosed \/ Clock
         \/ \E a \in Addrs : FallSilent(a)
  PROVE  IInv'
<1>1. /\ UNCHANGED <<core, reader>> /\ UNCHANGED <<timer, closer>> /\ made' = made
      /\ closed' = closed
  BY DEF Accept, AcceptClosed, Clock, GapElapses, Expire, GrowIdle, FallSilent, core,
         outside, shakeVars, tableVars, sessionVars
<1>2. timer' \in TimerRecord /\ closer' \in CloserRecord /\ ClosedFirst'
  BY <1>1, OutsiderTypes DEF ClosedFirst
<1>3. AppTypeOK'
  <2>1. CASE UNCHANGED appVars
    BY <2>1, OutsiderTypes DEF AppTypeOK, appVars
  <2>2. CASE Accept
    <3>1. AppTypeOK /\ ready # <<>> /\ accepted' = accepted \cup {Head(ready)}
          /\ ready' = Tail(ready) /\ accepting' = accepting
      BY <2>2, OutsiderTypes DEF Accept
    <3>2. Head(ready) \in Ids /\ Tail(ready) \in Seq(Ids) /\ Len(Tail(ready)) <= ReadyCap
      BY <3>1, PatternFacts DEF AppTypeOK
    <3> QED BY <3>1, <3>2 DEF AppTypeOK
  <2>3. CASE AcceptClosed
    BY <2>3, OutsiderTypes DEF AppTypeOK, AcceptClosed
  <2> QED BY <2>1, <2>2, <2>3 DEF Clock, GapElapses, Expire, GrowIdle, FallSilent
<1>4. expired' \subseteq Ids
  <2>1. CASE expired' = expired
    BY <2>1, OutsiderTypes
  <2>2. CASE \E h \in Ids : Expire(h)
    BY <2>2, OutsiderTypes DEF Expire
  <2> QED BY <2>1, <2>2 DEF Accept, AcceptClosed, Clock, GapElapses, GrowIdle, FallSilent,
                            shakeVars
<1>5. idle' \in [Ids -> {"active", "quiet", "timed out"}]
  <2>1. CASE idle' = idle
    BY <2>1, OutsiderTypes
  <2>2. CASE \E h \in Ids : GrowIdle(h)
    BY <2>2, OutsiderTypes DEF GrowIdle
  <2> QED BY <2>1, <2>2 DEF Accept, AcceptClosed, Clock, GapElapses, Expire, FallSilent,
                            sessionVars
<1>6. lastCreate' \in [Addrs -> {"absent", "recent", "past"}]
  <2>1. CASE lastCreate' = lastCreate
    BY <2>1, OutsiderTypes
  <2>2. CASE \E a \in Addrs : GapElapses(a)
    BY <2>2, OutsiderTypes DEF GapElapses
  <2> QED BY <2>1, <2>2 DEF Accept, AcceptClosed, Clock, GrowIdle, Expire, FallSilent,
                            tableVars
<1>7. silent' \subseteq Addrs
  <2>1. CASE silent' = silent
    BY <2>1, OutsiderTypes
  <2>2. CASE \E a \in Addrs : FallSilent(a)
    BY <2>2, OutsiderTypes, MuxAssumption DEF FallSilent
  <2> QED BY <2>1, <2>2 DEF Accept, AcceptClosed, Clock, GrowIdle, Expire, GapElapses
<1> QED BY <1>1, <1>2, <1>3, <1>4, <1>5, <1>6, <1>7, OutsiderSound

------------------------------------------------------------------------------
(* Closing and detaching sessions *)

\* A session begins to close: it is still the one its address is routed to.
LEMMA MarkedSound ==
  ASSUME IInv, NEW h \in Ids, status[h] = "open", MarkClosed(h),
         UNCHANGED <<shakeVars, tableVars, appVars>>, UNCHANGED <<idle, reader, closed, silent>>,
         timer' \in TimerRecord, closer' \in CloserRecord, ClosedFirst'
  PROVE  IInv'
<1>1. /\ made' = made /\ addr' = addr /\ step' = step /\ pending' = pending
      /\ established' = established /\ reader' = reader /\ closed' = closed
      /\ expired' = expired /\ lastCreate' = lastCreate /\ silent' = silent /\ idle' = idle
      /\ ready' = ready /\ accepted' = accepted /\ accepting' = accepting
  BY DEF shakeVars, tableVars, appVars
<1>2. /\ status \in [Ids -> {"none", "open", "closed"}] /\ detaching \subseteq Ids
      /\ status' = [status EXCEPT ![h] = "closed"] /\ detaching' = detaching \cup {h}
  BY DEF MarkClosed, IInv, TypeOK
<1>3. /\ status' \in [Ids -> {"none", "open", "closed"}] /\ detaching' \subseteq Ids
      /\ status'[h] = "closed" /\ \A k \in Ids \ {h} : status'[k] = status[k]
  BY <1>2
<1>4. TypeOK'
  <2>1. ShakeTypeOK' /\ TableTypeOK'
    BY <1>1 DEF IInv, TypeOK, ShakeTypeOK, TableTypeOK
  <2>2. SessionTypeOK' /\ AppTypeOK'
    BY <1>1, <1>3 DEF IInv, TypeOK, SessionTypeOK, AppTypeOK
  <2>3. RestTypeOK'
    BY <1>1 DEF IInv, TypeOK, RestTypeOK, ReaderRecord, TimerRecord, CloserRecord
  <2> QED BY <2>1, <2>2, <2>3, TypeNext
<1>5. TablesDisjoint' /\ Addressed' /\ Unfinished' /\ InHandSound'
  BY <1>1 DEF IInv, TablesDisjoint, Addressed, Unfinished, InHandSound
<1>6. Fresh'
  BY <1>1, <1>2, <1>3 DEF IInv, Fresh
<1>7. Routed'
  BY <1>1, <1>2, <1>3 DEF IInv, Routed
<1> QED BY <1>4, <1>5, <1>6, <1>7 DEF IInv

LEMMA ClosesSound ==
  ASSUME IInv,
         \/ Shed \/ (\E h \in Ids : AppClose(h))
         \/ (\E h \in timer.todo : SweepReap(h)) \/ (\E h \in closer.todo : CloseSession(h))
  PROVE  IInv'
<1>0. /\ timer \in TimerRecord /\ closer \in CloserRecord /\ ClosedFirst
      /\ 1..made \subseteq Ids /\ 1..made \subseteq 0..made
  <2>1. made \in Nat
    BY OutsiderTypes
  <2>2. 1..made \subseteq 0..made
    BY <2>1
  <2> QED BY <2>2, OutsiderTypes
<1>1. CASE Shed
  <2>1. reader.h \in Ids
    BY <1>0, <1>1 DEF Shed, IInv, InHandSound
  <2>2. /\ timer' = timer /\ closer' = closer /\ UNCHANGED <<idle, reader, closed, silent>>
        /\ made' = made /\ status[reader.h] = "open" /\ MarkClosed(reader.h)
        /\ UNCHANGED <<shakeVars, tableVars, appVars>>
    BY <1>1 DEF Shed, BeginClose, readerFrame, shakeVars
  <2>3. timer' \in TimerRecord /\ closer' \in CloserRecord /\ ClosedFirst'
    BY <1>0, <2>2 DEF ClosedFirst
  <2> QED BY <2>1, <2>2, <2>3, MarkedSound
<1>2. ASSUME NEW h \in Ids, AppClose(h) PROVE IInv'
  <2>1. /\ timer' = timer /\ closer' = closer /\ UNCHANGED <<idle, reader, closed, silent>>
        /\ made' = made /\ status[h] = "open" /\ MarkClosed(h)
        /\ UNCHANGED <<shakeVars, tableVars, appVars>>
    BY <1>2 DEF AppClose, BeginClose, outside, shakeVars
  <2>2. timer' \in TimerRecord /\ closer' \in CloserRecord /\ ClosedFirst'
    BY <1>0, <2>1 DEF ClosedFirst
  <2> QED BY <2>1, <2>2, MarkedSound
<1>3. ASSUME NEW h \in timer.todo, SweepReap(h) PROVE IInv'
  <2>1. timer.todo \subseteq 1..made
    BY <1>0 DEF TimerRecord
  <2>2. /\ closer' = closer /\ UNCHANGED <<idle, reader, closed, silent>>
        /\ made' = made /\ status[h] = "open" /\ MarkClosed(h)
        /\ UNCHANGED <<shakeVars, tableVars, appVars>>
        /\ timer' = [pc |-> "reap", todo |-> timer.todo \ {h}, h |-> h]
    BY <1>3 DEF SweepReap, BeginClose, timerFrame, shakeVars
  <2>3. timer' \in TimerRecord /\ closer' \in CloserRecord /\ ClosedFirst' /\ h \in Ids
    BY <1>0, <2>1, <2>2 DEF ClosedFirst, TimerRecord
  <2> QED BY <2>2, <2>3, MarkedSound
<1>4. ASSUME NEW h \in closer.todo, CloseSession(h) PROVE IInv'
  <2>1. closer.todo \subseteq 1..made
    BY <1>0 DEF CloserRecord
  <2>2. /\ timer' = timer /\ UNCHANGED <<idle, reader, closed, silent>> /\ made' = made
        /\ UNCHANGED <<shakeVars, tableVars, appVars>> /\ closer.pc = "closing"
        /\ closer' = [pc |-> "waiting", todo |-> closer.todo \ {h}, h |-> h]
        /\ IF status[h] = "open" THEN MarkClosed(h) ELSE UNCHANGED <<status, detaching>>
    BY <1>4 DEF CloseSession, closerFrame, shakeVars
  <2>3. timer' \in TimerRecord /\ closer' \in CloserRecord /\ ClosedFirst' /\ h \in Ids
    BY <1>0, <2>1, <2>2 DEF ClosedFirst, CloserRecord
  <2>4. CASE status[h] = "open"
    BY <2>2, <2>3, <2>4, MarkedSound
  <2>5. CASE status[h] # "open"
    <3>1. /\ UNCHANGED <<core, reader>> /\ UNCHANGED <<expired, idle, lastCreate, silent>>
          /\ UNCHANGED appVars
      BY <2>2, <2>5 DEF core, shakeVars, tableVars
    <3>2. AppTypeOK'
      BY <3>1, OutsiderTypes DEF AppTypeOK, appVars
    <3> QED BY <2>3, <3>1, <3>2, OutsiderTypes, OutsiderSound
  <2> QED BY <2>4, <2>5
<1> QED BY <1>1, <1>2, <1>3, <1>4

------------------------------------------------------------------------------
(* Steps that change the tables *)

\* An entry goes away: the rest of the table stays as it was.
LEMMA DeletedSound ==
  ASSUME IInv, NEW x, pending' = [pending EXCEPT ![x] = None],
         UNCHANGED <<shakeVars, established, sessionVars, appVars>>,
         lastCreate' \in [Addrs -> {"absent", "recent", "past"}],
         UNCHANGED <<closer, closed, silent>>,
         \/ reader' = reader
         \/ reader.pc = "abandon" /\ reader' \in ReaderRecord
            /\ reader'.pc \in {"read", "exited"},
         timer' \in TimerRecord
  PROVE  IInv'
<1>1. /\ made' = made /\ addr' = addr /\ step' = step /\ status' = status
      /\ established' = established /\ closer' = closer /\ closed' = closed
      /\ expired' = expired /\ silent' = silent /\ idle' = idle /\ detaching' = detaching
      /\ ready' = ready /\ accepted' = accepted /\ accepting' = accepting
  BY DEF shakeVars, sessionVars, appVars
<1>2. /\ pending' \in [Addrs -> 0..made]
      /\ \A a \in Addrs : pending'[a] = None \/ pending'[a] = pending[a]
  BY OutsiderTypes
<1>3. TypeOK'
  <2>1. ShakeTypeOK' /\ TableTypeOK'
    BY <1>1, <1>2 DEF IInv, TypeOK, ShakeTypeOK, TableTypeOK
  <2>2. SessionTypeOK' /\ AppTypeOK'
    BY <1>1 DEF IInv, TypeOK, SessionTypeOK, AppTypeOK
  <2>3. RestTypeOK'
    BY <1>1 DEF IInv, TypeOK, RestTypeOK, ReaderRecord, TimerRecord, CloserRecord
  <2> QED BY <2>1, <2>2, <2>3, TypeNext
<1>4. TablesDisjoint' /\ Addressed' /\ Fresh'
  BY <1>1, <1>2 DEF IInv, TablesDisjoint, Addressed, Fresh
<1>5. Unfinished'
  BY <1>1, <1>2 DEF IInv, Unfinished
<1>6. InHandSound' /\ Routed' /\ ClosedFirst'
  BY <1>1 DEF IInv, InHandSound, Routed, ClosedFirst
<1> QED BY <1>3, <1>4, <1>5, <1>6 DEF IInv

LEMMA AbandonSound ==
  ASSUME IInv, Abandon
  PROVE  IInv'
<1>1. /\ reader.pc = "abandon" /\ reader' = BackToRead
      /\ pending' = [pending EXCEPT ![addr[reader.h]] = None]
      /\ UNCHANGED <<shakeVars, established, sessionVars, appVars>>
      /\ lastCreate' = lastCreate /\ UNCHANGED <<closer, closed, silent, timer>>
      /\ made' = made
  BY DEF Abandon, readerFrame, shakeVars
<1>2. reader' \in ReaderRecord /\ reader'.pc \in {"read", "exited"}
  BY <1>1, BackTyped DEF IInv
<1> QED BY <1>1, <1>2, OutsiderTypes, DeletedSound

LEMMA DropSound ==
  ASSUME IInv, Drop
  PROVE  IInv'
<1>1. /\ pending' = [pending EXCEPT ![addr[timer.h]] = None] /\ reader' = reader
      /\ lastCreate' = [lastCreate EXCEPT ![addr[timer.h]] = "absent"]
      /\ UNCHANGED <<shakeVars, established, sessionVars, appVars>>
      /\ UNCHANGED <<closer, closed, silent>>
      /\ timer' = [timer EXCEPT !.pc = "retransmit", !.h = None]
      /\ made' = made
  BY DEF Drop, timerFrame, shakeVars
<1>2. timer' \in TimerRecord
  <2>1. timer \in TimerRecord /\ None \in 0..made
    BY OutsiderTypes
  <2> QED BY <1>1, <2>1 DEF TimerRecord
<1>3. lastCreate' \in [Addrs -> {"absent", "recent", "past"}]
  BY <1>1, OutsiderTypes
<1> QED BY <1>1, <1>2, <1>3, DeletedSound

\* Close empties the tables; a handshake in hand and the sessions being closed
\* outlive that, but m.closed is closed by then.
LEMMA CloseResetSound ==
  ASSUME IInv, CloseReset
  PROVE  IInv'
<1>1. /\ made' = made /\ addr' = addr /\ step' = step /\ expired' = expired
      /\ status' = status /\ detaching' = detaching /\ idle' = idle
      /\ reader' = reader /\ timer' = timer /\ silent' = silent /\ closed' = closed
      /\ ready' = ready /\ accepted' = accepted /\ accepting' = accepting
      /\ closer.pc = "reset"
      /\ closer' = [pc |-> "closing", todo |-> IdsIn(established), h |-> None]
      /\ established' = [a \in Addrs |-> None] /\ pending' = [a \in Addrs |-> None]
      /\ lastCreate' = [a \in Addrs |-> "absent"]
  BY DEF CloseReset, closerFrame, shakeVars, sessionVars, appVars
<1>2. closed /\ closed'
  BY <1>1 DEF IInv, ClosedFirst
<1>3. None \in 0..made /\ IdsIn(established) \subseteq 1..made
  BY OutsiderTypes, SnapshotTyped
<1>4. TypeOK'
  <2>1. ShakeTypeOK' /\ TableTypeOK'
    BY <1>1, <1>3 DEF IInv, TypeOK, ShakeTypeOK, TableTypeOK
  <2>2. SessionTypeOK' /\ AppTypeOK'
    BY <1>1 DEF IInv, TypeOK, SessionTypeOK, AppTypeOK
  <2>3. closer' \in CloserRecord
    BY <1>1, <1>3 DEF CloserRecord
  <2>4. RestTypeOK'
    BY <1>1, <2>3 DEF IInv, TypeOK, RestTypeOK, ReaderRecord, TimerRecord, CloserRecord
  <2> QED BY <2>1, <2>2, <2>4, TypeNext
<1>5. TablesDisjoint' /\ Addressed' /\ Fresh' /\ Unfinished'
  BY <1>1 DEF IInv, TablesDisjoint, Addressed, Fresh, Unfinished
<1>6. InHandSound'
  <2>1. reader.pc \in {"advance", "abandon", "finish"} => established'[addr[reader.h]] = None
    <3>1. reader.pc \in {"advance", "abandon", "finish"} => addr[reader.h] \in Addrs
      BY DEF IInv, InHandSound, Addressed
    <3> QED BY <3>1, <1>1
  <2> QED BY <2>1, <1>1, <1>2 DEF IInv, InHandSound
<1>7. Routed' /\ ClosedFirst'
  BY <1>1, <1>2 DEF Routed, ClosedFirst
<1> QED BY <1>4, <1>5, <1>6, <1>7 DEF IInv

\* onClose deletes by address: it finds its own session there, or none.
LEMMA DetachSound ==
  ASSUME IInv, NEW h \in Ids, Detach(h)
  PROVE  IInv'
<1>1. /\ made' = made /\ addr' = addr /\ step' = step /\ expired' = expired
      /\ pending' = pending /\ lastCreate' = lastCreate
      /\ status' = status /\ detaching' = detaching \ {h} /\ idle' = idle
      /\ reader' = reader /\ timer' = timer /\ silent' = silent /\ closed' = closed
      /\ closer' = closer /\ h \in detaching
      /\ ready' = ready /\ accepted' = accepted /\ accepting' = accepting
      /\ established' = [established EXCEPT ![addr[h]] = None]
  BY DEF Detach, shakeVars, appVars
<1>2. /\ established' \in [Addrs -> 0..made]
      /\ \A a \in Addrs : \/ established'[a] = established[a]
                          \/ established'[a] = None /\ a = addr[h]
  BY <1>1, OutsiderTypes
<1>3. TypeOK'
  <2>1. ShakeTypeOK' /\ TableTypeOK'
    BY <1>1, <1>2 DEF IInv, TypeOK, ShakeTypeOK, TableTypeOK
  <2>2. SessionTypeOK' /\ AppTypeOK'
    BY <1>1 DEF IInv, TypeOK, SessionTypeOK, AppTypeOK
  <2>3. RestTypeOK'
    BY <1>1 DEF IInv, TypeOK, RestTypeOK, ReaderRecord, TimerRecord, CloserRecord
  <2> QED BY <2>1, <2>2, <2>3, TypeNext
<1>4. TablesDisjoint' /\ Addressed' /\ Fresh' /\ Unfinished' /\ ClosedFirst'
  BY <1>1, <1>2 DEF IInv, TablesDisjoint, Addressed, Fresh, Unfinished, ClosedFirst
<1>5. \A k \in Ids : status[k] = "open" \/ k \in detaching => addr[k] \in Addrs
  <2>1. \A k \in Ids : k > made \/ k \in 1..made
    <3>1. made \in Nat /\ MaxHandshakes \in Nat
      BY OutsiderTypes, PatternFacts
    <3> QED BY <3>1 DEF Ids
  <2> QED BY <2>1 DEF IInv, Fresh, Addressed
<1>6. InHandSound'
  <2>1. reader.pc \in {"advance", "abandon", "finish", "publish", "shed"}
          => addr[reader.h] \in Addrs
    BY DEF IInv, InHandSound, Addressed
  <2> QED BY <2>1, <1>1, <1>2 DEF IInv, InHandSound
<1>7. Routed'
  <2>0. ~closed => \A k \in Ids : status[k] = "open" => k \notin detaching
    BY DEF IInv, Routed
  <2> SUFFICES ASSUME ~closed, NEW k \in Ids, status[k] = "open" \/ k \in detaching',
                      ~(reader.pc = "shed" /\ reader.h = k)
               PROVE  established'[addr[k]] = k
    BY <1>1, <2>0 DEF Routed
  <2>1. k \in detaching \/ status[k] = "open"
    BY <1>1
  <2>2. established[addr[k]] = k /\ addr[k] \in Addrs
    BY <2>1, <1>5 DEF IInv, Routed
  <2>3. k # h /\ h \in Ids
    BY <1>1, <2>0
  <2>4. addr[k] = addr[h] => established[addr[h]] = k
    BY <2>2
  <2>5. established[addr[h]] \in {h, None} \/ addr[h] \notin Addrs
    BY <1>1 DEF IInv, Routed, InHandSound
  <2>6. k # None
    BY PatternFacts DEF Ids, None
  <2> QED BY <2>2, <2>3, <2>4, <2>5, <2>6, <1>2
<1> QED BY <1>3, <1>4, <1>6, <1>7 DEF IInv

\* A new handshake gets an id no table and no session has.
LEMMA LookupNewSound ==
  ASSUME IInv, NEW a \in Addrs, NEW kind \in {"hello", "junk"}, LookupNew(a, kind)
  PROVE  IInv'
<1> DEFINE h == made + 1
<1>1. /\ made' = h /\ made < MaxHandshakes /\ addr' = [addr EXCEPT ![h] = a]
      /\ step' = [step EXCEPT ![h] = IF kind = "hello" /\ ClientFirst THEN 1 ELSE 0]
      /\ pending' = [pending EXCEPT ![a] = h]
      /\ lastCreate' = [lastCreate EXCEPT ![a] = "recent"]
      /\ reader' = Holding("advance", h, kind)
      /\ established[a] = None /\ pending[a] = None /\ reader.pc = "read"
      /\ expired' = expired /\ established' = established /\ status' = status
      /\ detaching' = detaching /\ idle' = idle /\ timer' = timer /\ closer' = closer
      /\ closed' = closed /\ silent' = silent
      /\ ready' = ready /\ accepted' = accepted /\ accepting' = accepting
  BY DEF LookupNew, MayStart, Arrives, readerFrame, sessionVars, appVars
<1>2. /\ made \in Nat /\ h \in Ids /\ h \in 0..h /\ h \in 1..h /\ h # None
      /\ 0..made \subseteq 0..h /\ 1..made \subseteq 1..h /\ h \in 0..MaxHandshakes
      /\ h \notin 0..made /\ \A k \in 1..h : k # h => k \in 1..made
      /\ 1..h \subseteq Ids
  <2>1. made \in Nat /\ MaxHandshakes \in Nat
    BY OutsiderTypes, PatternFacts
  <2> QED BY <2>1, <1>1 DEF Ids, None
<1> HIDE DEF h
<1>3. /\ addr \in [Ids -> Addrs \cup {None}] /\ step \in [Ids -> 0..Len(Pattern)]
      /\ pending \in [Addrs -> 0..made] /\ established \in [Addrs -> 0..made]
      /\ lastCreate \in [Addrs -> {"absent", "recent", "past"}]
  BY DEF IInv, TypeOK
<1>4. /\ addr'[h] = a /\ \A k \in Ids \ {h} : addr'[k] = addr[k]
      /\ addr' \in [Ids -> Addrs \cup {None}]
  BY <1>1, <1>2, <1>3
<1>5. /\ step' \in [Ids -> 0..Len(Pattern)] /\ step'[h] < Len(Pattern)
      /\ \A k \in Ids \ {h} : step'[k] = step[k]
  <2>1. 0 \in 0..Len(Pattern) /\ 1 \in 0..Len(Pattern) /\ 1 < Len(Pattern) /\ 0 < Len(Pattern)
    BY PatternFacts
  <2> QED BY <2>1, <1>1, <1>2, <1>3
<1>6. /\ pending'[a] = h /\ \A b \in Addrs \ {a} : pending'[b] = pending[b]
      /\ pending' \in [Addrs -> 0..h] /\ established' \in [Addrs -> 0..h]
      /\ lastCreate' \in [Addrs -> {"absent", "recent", "past"}]
  BY <1>1, <1>2, <1>3
<1>7. TypeOK'
  <2>1. ShakeTypeOK'
    BY <1>1, <1>2, <1>4, <1>5 DEF IInv, TypeOK, ShakeTypeOK
  <2>2. TableTypeOK'
    BY <1>1, <1>6 DEF TableTypeOK
  <2>3. SessionTypeOK' /\ AppTypeOK'
    BY <1>1 DEF IInv, TypeOK, SessionTypeOK, AppTypeOK
  <2>4. RestTypeOK'
    <3>1. timer \in TimerRecord /\ closer \in CloserRecord
      BY OutsiderTypes
    <3>2. timer' \in TimerRecord' /\ closer' \in CloserRecord'
      BY <3>1, <1>1, <1>2 DEF TimerRecord, CloserRecord
    <3>3. reader' \in ReaderRecord'
      BY <1>1, <1>2 DEF Holding, ReaderRecord, ReaderPcs
    <3>4. closed' \in BOOLEAN /\ silent' \subseteq Addrs
      BY <1>1 DEF IInv, TypeOK
    <3> QED BY <3>2, <3>3, <3>4 DEF RestTypeOK
  <2> QED BY <2>1, <2>2, <2>3, <2>4, TypeNext
<1>8. \A b \in Addrs \ {a} : pending'[b] # None => pending'[b] \in 1..made /\ pending'[b] \in Ids \ {h}
  <2>1. \A n \in 1..made : n \in Ids \ {h}
    BY <1>2
  <2> QED BY <2>1, <1>6, LookupFacts
<1>9. TablesDisjoint'
  BY <1>1, <1>6 DEF IInv, TablesDisjoint
<1>10. Addressed'
  <2>1. \A k \in 1..made : k \in Ids \ {h}
    BY <1>2
  <2>2. \A k \in 1..h : addr'[k] \in Addrs
    BY <2>1, <1>2, <1>4 DEF IInv, Addressed
  <2>3. \A b \in Addrs : pending'[b] # None => addr'[pending'[b]] = b
    BY <1>4, <1>6, <1>8 DEF IInv, Addressed
  <2> QED BY <1>1, <2>2, <2>3 DEF Addressed
<1>11. Fresh'
  <2>1. \A k \in Ids : k > h => k > made
    <3>1. made \in Nat /\ h = made + 1
      BY <1>2 DEF h
    <3> QED BY <3>1, PatternFacts DEF Ids
  <2> QED BY <1>1, <2>1 DEF IInv, Fresh
<1>12. Unfinished'
  BY <1>1, <1>5, <1>6, <1>8 DEF IInv, Unfinished
<1>13. reader'.pc = "advance" /\ reader'.h = h
  BY <1>1 DEF Holding
<1>14. InHandSound'
  BY <1>1, <1>2, <1>4, <1>5, <1>13 DEF InHandSound
<1>15. Routed' /\ ClosedFirst'
  <2>1. \A k \in Ids : status[k] = "open" \/ k \in detaching => k # h
    <3>1. h > made
      BY <1>2 DEF h
    <3> QED BY <3>1 DEF IInv, Fresh
  <2> QED BY <2>1, <1>1, <1>4, <1>13 DEF IInv, Routed, ClosedFirst
<1> QED BY <1>7, <1>9, <1>10, <1>11, <1>12, <1>14, <1>15 DEF IInv

\* A handshake that gets its last message leaves for finishHandshake.
LEMMA AdvanceStepSound ==
  ASSUME IInv, AdvanceStep
  PROVE  IInv'
<1> DEFINE h == reader.h
           now == step[h] + (IF reader.kind = "next" THEN 1 ELSE 0)
           after == AfterOutgoing(now)
<1>1. /\ reader.pc = "advance" /\ step' = [step EXCEPT ![h] = after]
      /\ reader' = IF after = Len(Pattern) THEN Holding("finish", h, "none") ELSE BackToRead
      /\ made' = made /\ addr' = addr /\ pending' = pending /\ lastCreate' = lastCreate
      /\ expired' = expired /\ established' = established /\ status' = status
      /\ detaching' = detaching /\ idle' = idle /\ timer' = timer /\ closer' = closer
      /\ closed' = closed /\ silent' = silent
      /\ ready' = ready /\ accepted' = accepted /\ accepting' = accepting
  BY DEF AdvanceStep, readerFrame, tableVars, sessionVars, appVars
<1>2. h \in 1..made /\ h \in Ids /\ h \in 0..made
  <2>1. h \in 1..made
    BY <1>1 DEF IInv, InHandSound
  <2>2. made \in Nat /\ 1..made \subseteq Ids
    BY OutsiderTypes
  <2> QED BY <2>1, <2>2
<1>3. after \in 0..Len(Pattern)
  <2>1. step[h] \in 0..Len(Pattern)
    BY <1>2 DEF IInv, TypeOK
  <2>2. step[h] < Len(Pattern)
    BY <1>1 DEF IInv, InHandSound
  <2>3. Len(Pattern) \in Nat
    BY PatternFacts
  <2>4. now \in 0..Len(Pattern)
    BY <2>1, <2>2, <2>3
  <2> HIDE DEF now
  <2>5. now + 1 <= Len(Pattern) \/ ~ServersTurn(now)
    BY <2>3, <2>4 DEF ServersTurn
  <2> QED BY <2>3, <2>4, <2>5 DEF AfterOutgoing
<1> HIDE DEF after
<1>4. /\ step' \in [Ids -> 0..Len(Pattern)] /\ step'[h] = after
      /\ \A k \in Ids \ {h} : step'[k] = step[k]
  BY <1>1, <1>2, <1>3 DEF IInv, TypeOK
<1>5. /\ reader' \in ReaderRecord
      /\ \/ after = Len(Pattern) /\ reader'.pc = "finish" /\ reader'.h = h
         \/ after # Len(Pattern) /\ reader'.pc \in {"read", "exited"}
  BY <1>1, <1>2, BackTyped, HoldingTyped DEF IInv, ReaderPcs
<1>6. TypeOK'
  <2>1. ShakeTypeOK' /\ TableTypeOK'
    BY <1>1, <1>4 DEF IInv, TypeOK, ShakeTypeOK, TableTypeOK
  <2>2. SessionTypeOK' /\ AppTypeOK'
    BY <1>1 DEF IInv, TypeOK, SessionTypeOK, AppTypeOK
  <2>3. RestTypeOK'
    BY <1>1, <1>5 DEF IInv, TypeOK, RestTypeOK, ReaderRecord, TimerRecord, CloserRecord
  <2> QED BY <2>1, <2>2, <2>3, TypeNext
<1>7. TablesDisjoint' /\ Addressed' /\ Fresh' /\ ClosedFirst'
  BY <1>1 DEF IInv, TablesDisjoint, Addressed, Fresh, ClosedFirst
<1>8. Unfinished'
  <2> SUFFICES ASSUME NEW a \in Addrs, pending[a] # None
               PROVE  \/ step'[pending[a]] < Len(Pattern)
                      \/ reader'.pc = "finish" /\ reader'.h = pending[a]
    BY <1>1 DEF Unfinished
  <2>1. pending[a] \in Ids /\ step[pending[a]] < Len(Pattern)
    BY <1>1, LookupFacts, OutsiderTypes DEF IInv, Unfinished
  <2>2. CASE pending[a] # h
    BY <2>1, <2>2, <1>4
  <2>3. CASE pending[a] = h
    <3>1. after # Len(Pattern) => after < Len(Pattern)
      BY <1>3, PatternFacts
    <3> QED BY <2>3, <3>1, <1>4, <1>5
  <2> QED BY <2>2, <2>3
<1>9. InHandSound'
  BY <1>1, <1>5 DEF IInv, InHandSound
<1>10. Routed'
  BY <1>1, <1>5 DEF IInv, Routed
<1> QED BY <1>6, <1>7, <1>8, <1>9, <1>10 DEF IInv

\* A handshake that finishes finds its address without a session.
LEMMA FinishSound ==
  ASSUME IInv, Finish
  PROVE  IInv'
<1> DEFINE h == reader.h
           a == addr[h]
<1>1. /\ reader.pc = "finish" /\ pending' = [pending EXCEPT ![a] = None]
      /\ lastCreate' = [lastCreate EXCEPT ![a] = "absent"]
      /\ step' = step /\ made' = made /\ addr' = addr
      /\ expired' = expired /\ detaching' = detaching /\ idle' = idle /\ timer' = timer
      /\ closer' = closer /\ closed' = closed /\ silent' = silent
      /\ ready' = ready /\ accepted' = accepted /\ accepting' = accepting
  BY DEF Finish, FinishLeaves, readerFrame, shakeVars, appVars
<1>2. /\ h \in 1..made /\ h \in Ids /\ h \in 0..made /\ a \in Addrs
      /\ established[a] = None /\ h # None
  <2>1. h \in 1..made /\ established[a] = None
    BY <1>1 DEF IInv, InHandSound
  <2>2. made \in Nat /\ 1..made \subseteq Ids
    BY OutsiderTypes
  <2>3. a \in Addrs
    BY <2>1 DEF IInv, Addressed
  <2> QED BY <2>1, <2>2, <2>3 DEF None
<1>3. /\ status' = [status EXCEPT ![h] = "open"]
      /\ \/ reader' = Holding("shed", h, "none") /\ established' = established
         \/ reader' = Holding("publish", h, "none")
            /\ established' = [established EXCEPT ![a] = h]
  BY <1>2 DEF Finish
<1>4. /\ pending \in [Addrs -> 0..made] /\ established \in [Addrs -> 0..made]
      /\ lastCreate \in [Addrs -> {"absent", "recent", "past"}]
      /\ status \in [Ids -> {"none", "open", "closed"}] /\ None \in 0..made
  BY OutsiderTypes DEF IInv, TypeOK
<1> HIDE DEF h, a
<1>5. /\ pending' \in [Addrs -> 0..made] /\ pending'[a] = None
      /\ \A b \in Addrs \ {a} : pending'[b] = pending[b]
      /\ lastCreate' \in [Addrs -> {"absent", "recent", "past"}]
  BY <1>1, <1>2, <1>4
<1>6. /\ status' \in [Ids -> {"none", "open", "closed"}]
      /\ \A k \in Ids \ {h} : status'[k] = status[k]
  BY <1>3, <1>4
<1>7. /\ established' \in [Addrs -> 0..made]
      /\ \A b \in Addrs \ {a} : established'[b] = established[b]
      /\ reader' \in ReaderRecord /\ reader'.h = h
      /\ \/ reader'.pc = "shed" /\ established'[a] = None
         \/ reader'.pc = "publish" /\ established'[a] = h
  <2>1. CASE reader' = Holding("shed", h, "none") /\ established' = established
    BY <2>1, <1>2, <1>4, HoldingTyped DEF ReaderPcs
  <2>2. CASE /\ reader' = Holding("publish", h, "none")
             /\ established' = [established EXCEPT ![a] = h]
    <3>1. /\ reader' \in ReaderRecord /\ reader'.h = h /\ reader'.pc = "publish"
      BY <2>2, <1>2, HoldingTyped DEF ReaderPcs
    <3>2. /\ established' \in [Addrs -> 0..made] /\ established'[a] = h
          /\ \A b \in Addrs \ {a} : established'[b] = established[b]
      BY <2>2, <1>2, <1>4
    <3> QED BY <3>1, <3>2
  <2> QED BY <2>1, <2>2, <1>3
<1>8. TypeOK'
  <2>1. ShakeTypeOK' /\ TableTypeOK'
    BY <1>1, <1>5, <1>7 DEF IInv, TypeOK, ShakeTypeOK, TableTypeOK
  <2>2. SessionTypeOK' /\ AppTypeOK'
    BY <1>1, <1>6 DEF IInv, TypeOK, SessionTypeOK, AppTypeOK
  <2>3. RestTypeOK'
    BY <1>1, <1>7 DEF IInv, TypeOK, RestTypeOK, ReaderRecord, TimerRecord, CloserRecord
  <2> QED BY <2>1, <2>2, <2>3, TypeNext
<1>9. TablesDisjoint' /\ ClosedFirst'
  BY <1>1, <1>5, <1>7 DEF IInv, TablesDisjoint, ClosedFirst
<1>10. Addressed'
  BY <1>1, <1>5 DEF IInv, Addressed
<1>11. Fresh'
  <2>1. ~(h > made)
    <3>1. made \in Nat
      BY OutsiderTypes
    <3> QED BY <3>1, <1>2
  <2> QED BY <2>1, <1>1, <1>6 DEF IInv, Fresh
<1>12. Unfinished'
  <2>1. \A b \in Addrs : pending[b] = h /\ h # None => b = a
    BY DEF IInv, Addressed, a
  <2> QED BY <2>1, <1>1, <1>2, <1>5 DEF IInv, Unfinished, h
<1>13. InHandSound'
  <2>1. addr'[h] = a
    BY <1>1 DEF a
  <2> QED BY <2>1, <1>1, <1>2, <1>7 DEF InHandSound
<1>14. Routed'
  <2> SUFFICES ASSUME ~closed, NEW k \in Ids, status'[k] = "open" \/ k \in detaching
               PROVE  /\ status'[k] = "open" => k \notin detaching
                      /\ \/ established'[addr[k]] = k
                         \/ reader'.pc = "shed" /\ reader'.h = k
    BY <1>1 DEF Routed
  <2>1. /\ \A j \in Ids : status[j] = "open" => j \notin detaching
        /\ \A j \in Ids : status[j] = "open" \/ j \in detaching => established[addr[j]] = j
    BY <1>1 DEF IInv, Routed
  <2>2. h \notin detaching
    BY <2>1, <1>2 DEF a
  <2>3. CASE k = h
    BY <2>2, <2>3, <1>7 DEF a
  <2>4. CASE k # h
    <3>1. established[addr[k]] = k /\ (status'[k] = "open" => k \notin detaching)
      BY <2>1, <2>4, <1>6
    <3>2. k # None
      BY PatternFacts DEF Ids, None
    <3>3. addr[k] # a
      BY <3>1, <3>2, <1>2
    <3>4. addr[k] \in Addrs
      <4>1. k \in 1..made \/ k > made
        <5>1. made \in Nat /\ MaxHandshakes \in Nat
          BY OutsiderTypes, PatternFacts
        <5> QED BY <5>1 DEF Ids
      <4>2. status[k] = "open" \/ k \in detaching
        BY <2>4, <1>6
      <4> QED BY <4>1, <4>2 DEF IInv, Fresh, Addressed
    <3> QED BY <3>1, <3>3, <3>4, <1>7
  <2> QED BY <2>3, <2>4
<1> QED BY <1>8, <1>9, <1>10, <1>11, <1>12, <1>13, <1>14 DEF IInv

------------------------------------------------------------------------------
(* The invariant *)

LEMMA StepSound == IInv /\ [Next]_vars => IInv'
<1> SUFFICES ASSUME IInv, [Next]_vars PROVE IInv'
  OBVIOUS
<1>1. CASE UNCHANGED vars
  <2>1. /\ UNCHANGED <<core, reader>> /\ UNCHANGED <<expired, idle, lastCreate, silent>>
        /\ UNCHANGED <<timer, closer, made, closed>> /\ UNCHANGED appVars
    BY <1>1 DEF vars, core, appVars
  <2>2. ClosedFirst' /\ AppTypeOK' /\ timer' \in TimerRecord /\ closer' \in CloserRecord
    BY <2>1, OutsiderTypes DEF ClosedFirst, AppTypeOK, appVars
  <2> QED BY <2>1, <2>2, OutsiderTypes, OutsiderSound
<1>2. CASE Receive
  BY <1>2, LookupSessionSound, LookupPendingSound, LookupFullSound, LookupNewSound DEF Receive
<1>3. CASE Handle \/ ReadExit
  BY <1>3, SessionFrameSound, AdvanceStepSound, AdvanceJunkSound, AbandonSound, FinishSound,
     PublishReadySound, PublishShedSound, ClosesSound, ShedReturnsSound, ReadExitSound
     DEF Handle
<1>4. CASE TimerLoop
  BY <1>4, TimerSound, DropSound, ClosesSound DEF TimerLoop
<1>5. CASE Closer
  BY <1>5, CloseStartSound, CloseResetSound, CloserSound, ClosesSound DEF Closer
<1>6. CASE \/ Accept \/ AcceptClosed \/ Clock \/ \E a \in Addrs : FallSilent(a)
  BY <1>6, WorldSound
<1>7. CASE \E h \in Ids : AppClose(h) \/ Detach(h)
  BY <1>7, ClosesSound, DetachSound
<1> QED BY <1>1, <1>2, <1>3, <1>4, <1>5, <1>6, <1>7 DEF Next

\* Every run of the mux keeps the inductive invariant.
THEOREM InvariantHolds == Spec => []IInv
<1>1. Init => IInv
  BY InitSound
<1>2. IInv /\ [Next]_vars => IInv'
  BY StepSound
<1> QED BY <1>1, <1>2, PTL DEF Spec

\* While the mux runs, an open session is the one its address is routed to.
THEOREM SessionsStayRouted == Spec => []OpenSessionsRouted
<1>1. IInv => OpenSessionsRouted
  BY DEF IInv, Routed, OpenSessionsRouted
<1> QED BY <1>1, InvariantHolds, PTL

------------------------------------------------------------------------------
(* The mux as a session table *)

Shakes == Used(pending) \cup InHand
Lives == Used(established)

RoomFor ==
  MaxSessions > 0 => Cardinality(Shakes) + Cardinality(Lives) < MaxSessions

\* What the tables go through in a step, as SessionTable has it.
StartStep(a) ==
  /\ a \in Addrs /\ a \notin Shakes \cup Lives /\ RoomFor
  /\ Shakes' = Shakes \cup {a} /\ Lives' = Lives
CompleteStep(a) ==
  /\ a \in Shakes /\ Shakes' = Shakes \ {a} /\ Lives' = Lives \cup {a}
GiveUpStep(a) == a \in Shakes /\ Shakes' = Shakes \ {a} /\ Lives' = Lives
EndStep(a) == a \in Lives /\ Shakes' = Shakes /\ Lives' = Lives \ {a}
ShutdownStep == Lives' = {} /\ Shakes' \in SUBSET Shakes
StillStep == Shakes' = Shakes /\ Lives' = Lives

TableStep ==
  \/ StillStep \/ ShutdownStep
  \/ \E a \in Addrs : StartStep(a) \/ CompleteStep(a) \/ GiveUpStep(a) \/ EndStep(a)

LEMMA UsedWithout ==
  ASSUME NEW S, NEW f \in [Addrs -> S], NEW x
  PROVE  Used([f EXCEPT ![x] = None]) = Used(f) \ {x}
BY DEF Used

LEMMA UsedWith ==
  ASSUME NEW S, NEW f \in [Addrs -> S], NEW x \in Addrs, NEW v, v # None
  PROVE  Used([f EXCEPT ![x] = v]) = Used(f) \cup {x}
BY DEF Used

\* What is used in either table is an address.
LEMMA ShakesFacts ==
  ASSUME IInv
  PROVE  /\ Shakes \subseteq Addrs /\ Lives \subseteq Addrs /\ Shakes \cap Lives = {}
         /\ pending \in [Addrs -> 0..made] /\ established \in [Addrs -> 0..made]
         /\ reader.pc \in {"advance", "abandon", "finish"} => addr[reader.h] \in Addrs
         /\ reader.pc \notin {"advance", "finish"} => InHand = {}
         /\ reader.pc \in {"advance", "finish"} => InHand = {addr[reader.h]}
<1>1. reader.pc \in {"advance", "abandon", "finish"}
        => addr[reader.h] \in Addrs /\ established[addr[reader.h]] = None
  BY DEF IInv, InHandSound, Addressed
<1>2. /\ reader.pc \notin {"advance", "finish"} => InHand = {}
      /\ reader.pc \in {"advance", "finish"} => InHand = {addr[reader.h]}
  BY DEF InHand
<1>3. Shakes \subseteq Addrs /\ Lives \subseteq Addrs
  BY <1>1, <1>2 DEF Shakes, Lives, Used
<1>4. Used(pending) \cap Lives = {}
  BY DEF IInv, TablesDisjoint, Used, Lives
<1>5. InHand \cap Lives = {}
  BY <1>1, <1>2 DEF Lives, Used
<1> QED BY <1>1, <1>2, <1>3, <1>4, <1>5, OutsiderTypes DEF Shakes

\* Steps that touch neither table nor what the read loop works on.
LEMMA Still ==
  ASSUME UNCHANGED <<pending, established, addr, reader>>
  PROVE  TableStep
<1>1. UNCHANGED pending /\ UNCHANGED established /\ UNCHANGED addr /\ UNCHANGED reader
  OBVIOUS
<1> QED BY <1>1 DEF TableStep, StillStep, Shakes, Lives, Used, InHand

LEMMA StillSteps ==
  ASSUME \/ UNCHANGED vars
         \/ Accept \/ AcceptClosed \/ Clock \/ (\E a \in Addrs : FallSilent(a))
         \/ (\E h \in Ids : AppClose(h)) \/ Shed
         \/ CloseStart \/ CloseNext \/ CloseEnd \/ (\E h \in closer.todo : CloseSession(h))
         \/ Tick \/ TimerExit \/ StartSweep \/ ReapReturns \/ EndTick
         \/ \E h \in timer.todo :
              Retransmit(h) \/ RetransmitStale(h) \/ SweepKeep(h) \/ SweepReap(h)
  PROVE  TableStep
<1>1. CASE UNCHANGED vars
  BY <1>1, Still DEF vars
<1>2. CASE \/ Accept \/ AcceptClosed \/ Clock \/ (\E a \in Addrs : FallSilent(a))
           \/ (\E h \in Ids : AppClose(h)) \/ Shed
  BY <1>2, Still DEF Accept, AcceptClosed, Clock, GapElapses, Expire, GrowIdle, FallSilent,
     AppClose, Shed, outside, shakeVars, tableVars
<1>3. CASE CloseStart \/ CloseNext \/ CloseEnd \/ (\E h \in closer.todo : CloseSession(h))
  BY <1>3, Still DEF CloseStart, CloseNext, CloseEnd, CloseSession, closerFrame, shakeVars,
     tableVars
<1>4. CASE \/ Tick \/ TimerExit \/ StartSweep \/ ReapReturns \/ EndTick
           \/ \E h \in timer.todo :
                Retransmit(h) \/ RetransmitStale(h) \/ SweepKeep(h) \/ SweepReap(h)
  BY <1>4, Still DEF Tick, TimerExit, StartSweep, ReapReturns, EndTick, Retransmit,
     RetransmitStale, SweepKeep, SweepReap, timerFrame, shakeVars, tableVars
<1> QED BY <1>1, <1>2, <1>3, <1>4

\* The read loop with no handshake in hand, before and after.
LEMMA EmptyHanded ==
  ASSUME UNCHANGED <<pending, established>>,
         reader.pc \notin {"advance", "finish"}, reader'.pc \notin {"advance", "finish"}
  PROVE  TableStep
<1>1. pending' = pending /\ established' = established /\ InHand = {} /\ InHand' = {}
  BY DEF InHand
<1> QED BY <1>1 DEF TableStep, StillStep, Shakes, Lives, Used

LEMMA EmptyHandedSteps ==
  ASSUME IInv,
         \/ (\E a \in Addrs : LookupSession(a) \/ LookupFull(a))
         \/ SessionFrame \/ PublishReady \/ PublishShed \/ ShedReturns \/ ReadExit
  PROVE  TableStep
<1>1. UNCHANGED <<pending, established>>
  BY DEF LookupSession, LookupFull, SessionFrame, PublishReady, PublishShed, ShedReturns,
         ReadExit, tableVars
<1>2. reader.pc \notin {"advance", "finish"}
  BY DEF LookupSession, LookupFull, MayStart, Arrives, SessionFrame, PublishReady,
         PublishShed, ShedReturns, ReadExit
<1>3. BackToRead.pc \in {"read", "exited"}
  BY BackTyped DEF IInv
<1>4. reader'.pc \notin {"advance", "finish"}
  BY <1>3 DEF LookupSession, LookupFull, SessionFrame, PublishReady, PublishShed,
              ShedReturns, ReadExit, Holding
<1> QED BY <1>1, <1>2, <1>4, EmptyHanded

\* The read loop puts down a handshake, which may be in the table or not.
LEMMA PutsDown ==
  ASSUME IInv, UNCHANGED <<pending, established>>, reader.pc = "advance",
         reader'.pc \notin {"advance", "finish"}
  PROVE  TableStep
<1>1. /\ Shakes' = Used(pending) /\ Lives' = Lives /\ addr[reader.h] \in Addrs
      /\ Shakes = Used(pending) \cup {addr[reader.h]}
  BY ShakesFacts DEF Shakes, Lives, Used, InHand
<1>2. CASE addr[reader.h] \in Used(pending)
  BY <1>1, <1>2 DEF TableStep, StillStep
<1>3. CASE addr[reader.h] \notin Used(pending)
  BY <1>1, <1>3 DEF TableStep, GiveUpStep
<1> QED BY <1>2, <1>3

LEMMA AdvanceSteps ==
  ASSUME IInv, AdvanceStep \/ AdvanceJunk
  PROVE  TableStep
<1>1. /\ pending' = pending /\ established' = established /\ addr' = addr
      /\ reader.pc = "advance"
  BY DEF AdvanceStep, AdvanceJunk, tableVars, shakeVars
<1>2. BackToRead.pc \in {"read", "exited"}
  BY BackTyped DEF IInv
<1>3. \/ reader' = BackToRead \/ reader' = Holding("abandon", reader.h, "none")
      \/ reader' = Holding("finish", reader.h, "none")
  BY DEF AdvanceStep, AdvanceJunk
<1>4. CASE reader' = BackToRead \/ reader' = Holding("abandon", reader.h, "none")
  <2>1. reader'.pc \notin {"advance", "finish"}
    BY <1>2, <1>4 DEF Holding
  <2> QED BY <1>1, <2>1, PutsDown
<1>5. CASE reader' = Holding("finish", reader.h, "none")
  <2>1. reader'.pc = "finish" /\ reader'.h = reader.h
    BY <1>5 DEF Holding
  <2>2. InHand' = InHand
    BY <1>1, <2>1 DEF InHand
  <2> QED BY <1>1, <2>2 DEF TableStep, StillStep, Shakes, Lives, Used
<1> QED BY <1>3, <1>4, <1>5

\* A handshake of the table is taken in hand.
LEMMA PendingSteps ==
  ASSUME IInv, NEW a \in Addrs, NEW kind \in {"next", "junk"}, LookupPending(a, kind)
  PROVE  TableStep
<1>1. /\ pending' = pending /\ established' = established /\ addr' = addr
      /\ reader.pc = "read" /\ reader'.pc = "advance" /\ reader'.h = pending[a]
      /\ pending[a] # None
  BY DEF LookupPending, Arrives, Holding, tableVars, shakeVars
<1>2. InHand = {} /\ InHand' = {a}
  BY <1>1, LookupFacts DEF InHand
<1>3. a \in Used(pending)
  BY <1>1 DEF Used
<1> QED BY <1>1, <1>2, <1>3 DEF TableStep, StillStep, Shakes, Lives, Used

\* Whoever starts finds its address free and room under the cap.
LEMMA NewSteps ==
  ASSUME IInv, NEW a \in Addrs, NEW kind \in {"hello", "junk"}, LookupNew(a, kind)
  PROVE  TableStep
<1>1. /\ reader.pc = "read" /\ established[a] = None /\ pending[a] = None
      /\ ~TableFull /\ established' = established
      /\ pending' = [pending EXCEPT ![a] = made + 1]
      /\ addr' = [addr EXCEPT ![made + 1] = a] /\ made < MaxHandshakes
      /\ reader' = Holding("advance", made + 1, kind)
  BY DEF LookupNew, MayStart, Arrives
<1>2. made + 1 \in Ids /\ made + 1 # None
  <2>1. made \in Nat /\ MaxHandshakes \in Nat
    BY OutsiderTypes, PatternFacts
  <2> QED BY <2>1, <1>1 DEF Ids, None
<1>3. InHand = {} /\ InHand' = {a}
  <2>1. addr'[made + 1] = a
    BY <1>1, <1>2 DEF IInv, TypeOK
  <2>2. reader'.pc = "advance" /\ reader'.h = made + 1
    BY <1>1 DEF Holding
  <2> QED BY <1>1, <2>1, <2>2 DEF InHand
<1>4. Used(pending') = Used(pending) \cup {a}
  BY <1>1, <1>2, ShakesFacts, UsedWith
<1>5. Shakes = Used(pending) /\ Shakes' = Shakes \cup {a} /\ Lives' = Lives
  BY <1>1, <1>3, <1>4 DEF Shakes, Lives, Used
<1>6. a \notin Shakes \cup Lives
  BY <1>1, <1>5 DEF Used, Lives
<1>7. RoomFor
  <2>1. IsFiniteSet(Shakes) /\ IsFiniteSet(Lives)
    BY ShakesFacts, FS_Subset, MuxAssumption
  <2>2. Cardinality(Shakes) \in Nat /\ Cardinality(Lives) \in Nat
    BY <2>1, FS_CardinalityType
  <2>3. ~(MaxSessions > 0 /\ Cardinality(Lives) + Cardinality(Shakes) >= MaxSessions)
    BY <1>1, <1>5 DEF TableFull, Lives
  <2>4. MaxSessions \in Nat
    BY MuxAssumption
  <2> QED BY <2>2, <2>3, <2>4 DEF RoomFor
<1> QED BY <1>5, <1>6, <1>7 DEF TableStep, StartStep

\* A handshake that finishes has a session, or nothing.
LEMMA FinishSteps ==
  ASSUME IInv, Finish
  PROVE  TableStep
<1> DEFINE a == addr[reader.h]
<1>1. /\ reader.pc = "finish" /\ pending' = [pending EXCEPT ![a] = None]
      /\ a \in Addrs /\ InHand = {a}
  BY ShakesFacts DEF Finish, FinishLeaves
<1>2. established[a] = None /\ reader.h \in 1..made
  BY <1>1 DEF IInv, InHandSound
<1>3. reader.h # None
  BY <1>2 DEF None
<1>4. /\ reader' = Holding("shed", reader.h, "none") \/ reader' = Holding("publish", reader.h, "none")
      /\ \/ established' = established
         \/ established' = [established EXCEPT ![a] = reader.h]
  BY <1>2 DEF Finish
<1>5. InHand' = {}
  <2>1. reader'.pc \notin {"advance", "finish"}
    BY <1>4 DEF Holding
  <2> QED BY <2>1 DEF InHand
<1>6. Used(pending') = Used(pending) \ {a}
  BY <1>1, ShakesFacts, UsedWithout
<1>7. a \in Shakes /\ Shakes' = Shakes \ {a}
  BY <1>1, <1>5, <1>6 DEF Shakes, Used
<1>8. CASE established' = established
  BY <1>1, <1>7, <1>8 DEF TableStep, GiveUpStep, Lives, Used
<1>9. CASE established' = [established EXCEPT ![a] = reader.h]
  <2>1. Used(established') = Used(established) \cup {a}
    BY <1>1, <1>3, <1>9, ShakesFacts, UsedWith
  <2>2. Lives' = Lives \cup {a}
    BY <2>1 DEF Lives, Used
  <2> QED BY <1>1, <1>7, <2>2 DEF TableStep, CompleteStep
<1> QED BY <1>4, <1>8, <1>9

\* A handshake goes away, unless the read loop has it in hand.
LEMMA Deleted ==
  ASSUME IInv, NEW x, pending' = [pending EXCEPT ![x] = None], established' = established,
         InHand' = InHand
  PROVE  TableStep
<1>1. Shakes' = (Used(pending) \ {x}) \cup InHand
  BY ShakesFacts, UsedWithout DEF Shakes, Used
<1>2. Lives' = Lives
  BY DEF Lives, Used
<1>3. CASE x \in InHand \/ x \notin Used(pending)
  BY <1>1, <1>2, <1>3 DEF TableStep, StillStep, Shakes
<1>4. CASE x \in Used(pending) /\ x \notin InHand
  <2>1. x \in Addrs /\ x \in Shakes /\ Shakes' = Shakes \ {x}
    BY <1>1, <1>4 DEF Shakes, Used
  <2> QED BY <2>1, <1>2 DEF TableStep, GiveUpStep
<1> QED BY <1>3, <1>4

LEMMA DeletingSteps ==
  ASSUME IInv, Abandon \/ Drop \/ CloseReset \/ \E h \in Ids : Detach(h)
  PROVE  TableStep
<1>1. CASE Abandon
  <2>1. BackToRead.pc \in {"read", "exited"}
    BY BackTyped DEF IInv
  <2>2. /\ pending' = [pending EXCEPT ![addr[reader.h]] = None]
        /\ established' = established /\ InHand = {} /\ InHand' = {}
    BY <1>1, <2>1 DEF Abandon, InHand
  <2> QED BY <2>2, Deleted
<1>2. CASE Drop
  <2>1. /\ pending' = [pending EXCEPT ![addr[timer.h]] = None]
        /\ established' = established /\ reader' = reader /\ addr' = addr
    BY <1>2 DEF Drop, timerFrame, shakeVars
  <2>2. InHand' = InHand
    BY <2>1 DEF InHand
  <2> QED BY <2>1, <2>2, Deleted
<1>3. CASE CloseReset
  <2>1. /\ pending' = [a \in Addrs |-> None] /\ established' = [a \in Addrs |-> None]
        /\ reader' = reader /\ addr' = addr
    BY <1>3 DEF CloseReset, closerFrame, shakeVars
  <2>2. InHand' = InHand
    BY <2>1 DEF InHand
  <2>3. Shakes' = InHand /\ Lives' = {}
    BY <2>1, <2>2 DEF Shakes, Lives, Used
  <2> QED BY <2>3 DEF TableStep, ShutdownStep, Shakes
<1>4. ASSUME NEW h \in Ids, Detach(h)
      PROVE  TableStep
  <2>1. /\ established' = [established EXCEPT ![addr[h]] = None] /\ pending' = pending
        /\ reader' = reader /\ addr' = addr
    BY <1>4 DEF Detach, shakeVars
  <2>2. Shakes' = Shakes
    BY <2>1 DEF Shakes, Used, InHand
  <2>3. Lives' = Lives \ {addr[h]}
    BY <2>1, ShakesFacts, UsedWithout DEF Lives, Used
  <2>4. CASE addr[h] \in Lives
    BY <2>2, <2>3, <2>4, ShakesFacts DEF TableStep, EndStep
  <2>5. CASE addr[h] \notin Lives
    BY <2>2, <2>3, <2>5 DEF TableStep, StillStep
  <2> QED BY <2>4, <2>5
<1> QED BY <1>1, <1>2, <1>3, <1>4

LEMMA StepMaps == IInv /\ [Next]_vars => TableStep
<1> SUFFICES ASSUME IInv, [Next]_vars PROVE TableStep
  OBVIOUS
<1>1. CASE UNCHANGED vars
  BY <1>1, StillSteps
<1>2. CASE Receive
  BY <1>2, EmptyHandedSteps, PendingSteps, NewSteps DEF Receive
<1>3. CASE Handle \/ ReadExit
  BY <1>3, EmptyHandedSteps, AdvanceSteps, DeletingSteps, FinishSteps, StillSteps DEF Handle
<1>4. CASE TimerLoop
  BY <1>4, StillSteps, DeletingSteps DEF TimerLoop
<1>5. CASE Closer
  BY <1>5, StillSteps, DeletingSteps DEF Closer
<1>6. CASE \/ Accept \/ AcceptClosed \/ Clock \/ \E a \in Addrs : FallSilent(a)
  BY <1>6, StillSteps
<1>7. CASE \E h \in Ids : AppClose(h) \/ Detach(h)
  BY <1>7, StillSteps, DeletingSteps
<1> QED BY <1>1, <1>2, <1>3, <1>4, <1>5, <1>6, <1>7 DEF Next

\* The mux implements a table in which only a handshake that was admitted under
\* the cap becomes a session.
THEOREM MuxImplementsTable == Spec => ImplementsSessionTable
<1>1. Init => Table!Init
  BY DEF Init, Table!Init, Used, InHand, Holding
<1>2. IInv /\ [Next]_vars => [Table!Next]_(Table!vars)
  <2> SUFFICES ASSUME IInv, [Next]_vars PROVE [Table!Next]_(Table!vars)
    OBVIOUS
  <2>1. TableStep
    BY StepMaps
  <2>2. CASE StillStep
    BY <2>2 DEF StillStep, Shakes, Lives, Table!vars
  <2>3. CASE ShutdownStep
    BY <2>3 DEF ShutdownStep, Shakes, Lives, Table!Next, Table!Shutdown
  <2>4. ASSUME NEW a \in Addrs, StartStep(a)
        PROVE  Table!Next
    <3>0. \A S : Table!Cardinality(S) = Cardinality(S)
      BY Zenon DEF Table!Cardinality, Cardinality
    <3>1. Table!Room
      BY <2>4, <3>0 DEF StartStep, RoomFor, Shakes, Lives, Table!Room
    <3>2. /\ a \notin (Used(pending) \cup InHand) \cup Used(established)
          /\ (Used(pending) \cup InHand)' = (Used(pending) \cup InHand) \cup {a}
          /\ Used(established)' = Used(established)
      BY <2>4 DEF StartStep, Shakes, Lives
    <3>3. Table!Start(a)
      BY <3>1, <3>2 DEF Table!Start
    <3> QED BY <3>3 DEF Table!Next
  <2>5. ASSUME NEW a \in Addrs, CompleteStep(a) \/ GiveUpStep(a) \/ EndStep(a)
        PROVE  Table!Next
    BY <2>5 DEF CompleteStep, GiveUpStep, EndStep, Shakes, Lives, Table!Next, Table!Complete,
                Table!GiveUp, Table!End
  <2> QED BY <2>1, <2>2, <2>3, <2>4, <2>5 DEF TableStep
<1> QED BY <1>1, <1>2, InvariantHolds, PTL DEF Spec, ImplementsSessionTable, Table!Spec

------------------------------------------------------------------------------
(* The cap *)

\* The cap, counting the handshake in hand.
CapKept == MaxSessions > 0 => Cardinality(Shakes) + Cardinality(Lives) <= MaxSessions

LEMMA CapStep == IInv /\ CapKept /\ TableStep => CapKept'
<1> SUFFICES ASSUME IInv, CapKept, TableStep, MaxSessions > 0
             PROVE  Cardinality(Shakes') + Cardinality(Lives') <= MaxSessions
  BY DEF CapKept
<1>1. /\ IsFiniteSet(Shakes) /\ IsFiniteSet(Lives)
      /\ Cardinality(Shakes) \in Nat /\ Cardinality(Lives) \in Nat
  BY ShakesFacts, FS_Subset, FS_CardinalityType, MuxAssumption
<1>2. MaxSessions \in Nat /\ Cardinality(Shakes) + Cardinality(Lives) <= MaxSessions
  BY MuxAssumption DEF CapKept
<1>3. CASE StillStep
  BY <1>2, <1>3 DEF StillStep
<1>4. CASE ShutdownStep
  <2>1. Shakes' \in SUBSET Shakes /\ Lives' = {}
    BY <1>4 DEF ShutdownStep
  <2>2. Cardinality(Shakes') <= Cardinality(Shakes) /\ Cardinality(Shakes') \in Nat
    BY <2>1, <1>1, FS_Subset, FS_CardinalityType
  <2>3. Cardinality(Lives') = 0
    BY <2>1, FS_EmptySet
  <2> QED BY <2>2, <2>3, <1>1, <1>2
<1>5. ASSUME NEW a \in Addrs, StartStep(a)
      PROVE  Cardinality(Shakes') + Cardinality(Lives') <= MaxSessions
  <2>1. /\ Cardinality(Shakes') = Cardinality(Shakes) + 1 /\ Lives' = Lives
        /\ Cardinality(Shakes) + Cardinality(Lives) < MaxSessions
    BY <1>1, <1>5, FS_AddElement DEF StartStep, RoomFor
  <2> QED BY <2>1, <1>1, <1>2
<1>6. ASSUME NEW a \in Addrs, CompleteStep(a)
      PROVE  Cardinality(Shakes') + Cardinality(Lives') <= MaxSessions
  <2>1. Cardinality(Shakes') = Cardinality(Shakes) - 1
    BY <1>1, <1>6, FS_RemoveElement DEF CompleteStep
  <2>2. a \notin Lives
    BY <1>6, ShakesFacts DEF CompleteStep
  <2>3. Cardinality(Lives') = Cardinality(Lives) + 1
    BY <1>1, <1>6, <2>2, FS_AddElement DEF CompleteStep
  <2> QED BY <2>1, <2>3, <1>1, <1>2
<1>7. ASSUME NEW a \in Addrs, GiveUpStep(a)
      PROVE  Cardinality(Shakes') + Cardinality(Lives') <= MaxSessions
  <2>1. Cardinality(Shakes') = Cardinality(Shakes) - 1 /\ Lives' = Lives
    BY <1>1, <1>7, FS_RemoveElement DEF GiveUpStep
  <2> QED BY <2>1, <1>1, <1>2
<1>8. ASSUME NEW a \in Addrs, EndStep(a)
      PROVE  Cardinality(Shakes') + Cardinality(Lives') <= MaxSessions
  <2>1. Cardinality(Lives') = Cardinality(Lives) - 1 /\ Shakes' = Shakes
    BY <1>1, <1>8, FS_RemoveElement DEF EndStep
  <2> QED BY <2>1, <1>1, <1>2
<1> QED BY <1>3, <1>4, <1>5, <1>6, <1>7, <1>8 DEF TableStep

\* The tables stay in order: their types, no address in both, and handshakes
\* and sessions together within the cap.
THEOREM TablesStaySound == Spec => []TablesSound
<1>1. Init => CapKept
  <2>1. ASSUME Init PROVE Shakes = {} /\ Lives = {}
    BY <2>1 DEF Init, Shakes, Lives, Used, InHand, Holding
  <2>2. Cardinality({}) = 0 /\ MaxSessions \in Nat
    BY FS_EmptySet, MuxAssumption
  <2>3. MaxSessions > 0 => 0 + 0 <= MaxSessions
    BY <2>2
  <2> QED BY <2>1, <2>2, <2>3 DEF CapKept
<1>2. IInv /\ CapKept /\ [Next]_vars => CapKept'
  BY StepMaps, CapStep
<1>3. IInv /\ CapKept => TablesSound
  <2> SUFFICES ASSUME IInv, CapKept PROVE TablesSound
    OBVIOUS
  <2>1. /\ IsFiniteSet(Shakes) /\ Used(pending) \in SUBSET Shakes
    BY ShakesFacts, FS_Subset, MuxAssumption DEF Shakes
  <2>2. /\ Cardinality(Used(pending)) <= Cardinality(Shakes)
        /\ Cardinality(Used(pending)) \in Nat /\ Cardinality(Shakes) \in Nat
    BY <2>1, FS_Subset, FS_CardinalityType
  <2>3. Cardinality(Lives) \in Nat
    BY ShakesFacts, FS_Subset, FS_CardinalityType, MuxAssumption
  <2>4. CapHolds
    BY <2>2, <2>3, MuxAssumption DEF CapKept, CapHolds, Lives
  <2> QED BY <2>4 DEF IInv, TablesSound
<1> QED BY <1>1, <1>2, <1>3, InvariantHolds, PTL DEF Spec

=============================================================================
