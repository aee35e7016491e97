---------------------------- MODULE PacketChannel ----------------------------
(***************************************************************************)
(* An established packet-mode session between a client (PacketTunnel) and  *)
(* a server (ServerTunnel), from the moment both ends hold session keys:   *)
(* frame numbering and the receive window of internal/compiler/packet.go,  *)
(* and the ACK / SKIP loss recovery of internal/tunnel, over a network     *)
(* that loses, duplicates and reorders datagrams.                          *)
(*                                                                         *)
(* Both ends run the same code, so every variable is a function of the     *)
(* peer.  A frame carries its sequence number explicitly: the code tries   *)
(* every unseen nonce of the window and a nonce opens exactly one frame.   *)
(*                                                                         *)
(* One action is one critical section (sessMu) with what follows it up to  *)
(* the next one.  A datagram is on the network from the moment it is       *)
(* encoded; the jitter sleep before the write is network delay.            *)
(***************************************************************************)
EXTENDS Integers

CONSTANTS
  Window,     \* PacketWindow: how far past its base a receiver tries nonces
  SkipSpan,   \* skipSpan: the unacknowledged span that triggers a SKIP
  AckEvery,   \* ackEvery: data frames between two ACKs
  Keepalives, \* the peers that emit frames outside the send path (keepalive)
  RateLimited,\* TRUE when the server caps each session's inbound bytes
  Losable,    \* per peer, the sequence numbers the network may lose
  Duplicates, \* TRUE when the network may deliver a frame again
  WriteErrors,\* TRUE when a socket write may fail
  Payloads,   \* the kinds of payload the applications send
  Senders,    \* bound: goroutines of a peer that may be sending at once
  MaxFrames   \* bound: frames a peer encodes

Peers == {"client", "server"}
Other(p) == IF p = "client" THEN "server" ELSE "client"

ASSUME ChannelAssumption ==
  /\ Window \in Nat \ {0}
  /\ SkipSpan \in Nat \ {0}
  /\ AckEvery \in Nat \ {0}
  /\ Keepalives \subseteq Peers
  /\ RateLimited \in BOOLEAN
  /\ WriteErrors \in BOOLEAN
  /\ Duplicates \in BOOLEAN
  /\ Payloads \subseteq {"data", "quiet"}
  /\ Losable \in [Peers -> SUBSET Nat]
  /\ Senders \in [Peers -> Nat]
  /\ MaxFrames \in [Peers -> Nat]

VARIABLES
  sent,     \* packetSend: the next sequence number of a peer
  base,     \* packetBase: a peer's receive window starts here
  seen,     \* packetSeen: sequence numbers above base already authenticated
  peerBase, \* ackTracker.peerBase: what a peer believes the other has reached
  ackDue,   \* data frames decoded since a peer's last ACK
  checks,   \* goroutines that wrote a frame and have not run the loss check
  skips,    \* SKIP frames encoded under sessMu and not yet written
  net,      \* frames in flight, by the peer that sent them
  (* history, read by no action's guard *)
  got,      \* frames a peer authenticated since it last applied a SKIP
  asked,    \* highest SKIP target a peer has written
  delivered,\* data frames a peer has handed to its application
  twice     \* data frames a peer has handed to its application again

vars == <<sent, base, seen, peerBase, ackDue, checks, skips, net,
          got, asked, delivered, twice>>

sendVars == <<sent, peerBase, checks, skips, asked>>
recvVars == <<base, seen, ackDue, got, delivered, twice>>

(***************************************************************************)
(* Frames.  "quiet" stands for the payloads neither end counts or answers: *)
(* keepalive, ControlGeneration, and ControlAssignIP at the client.        *)
(***************************************************************************)
Kinds == {"data", "quiet", "ack", "skip"}
Frame == [seq : Nat, kind : Kinds, val : Nat]
MakeFrame(n, k, v) == [seq |-> n, kind |-> k, val |-> v]

CanEncode(p) == sent[p] < MaxFrames[p]

\* observeAck keeps the larger position.
Later(a, b) == IF a < b THEN b ELSE a

------------------------------------------------------------------------------
(* The receive window *)

AcceptableUnbounded(q, n) == n >= base[q] /\ n \notin seen[q]

\* DecodePacket tries the unseen numbers of base .. base + Window - 1.
Acceptable(q, n) ==
  /\ n >= base[q]
  /\ n < base[q] + Window
  /\ n \notin seen[q]

SlideOvershoot(b, S) ==
  (CHOOSE n \in b..(b + Window) :
     n \notin S /\ \A m \in b..(n - 1) : m \in S) + 1

\* The base moves over the run of seen numbers that starts at it.
Slide(b, S) ==
  CHOOSE n \in b..(b + Window) :
    n \notin S /\ \A m \in b..(n - 1) : m \in S

BaseAfter(q, n) == Slide(base[q], seen[q] \cup {n})

SeenAfterForgetting(q, n) == {m \in seen[q] : m > BaseAfter(q, n)}

SeenAfter(q, n) == {m \in seen[q] \cup {n} : m > BaseAfter(q, n)}

\* AdvanceBaseTo: no-op at or below the base, refused beyond the window,
\* otherwise the base jumps and the whole bitmap is cleared.
AdvanceBaseTo(b, S, t) ==
  IF t <= b \/ t > b + Window
    THEN [base |-> b, seen |-> S]
    ELSE [base |-> t, seen |-> {}]

------------------------------------------------------------------------------
Init ==
  /\ sent = [p \in Peers |-> 0]
  /\ base = [p \in Peers |-> 0]
  /\ seen = [p \in Peers |-> {}]
  /\ peerBase = [p \in Peers |-> 0]
  /\ ackDue = [p \in Peers |-> 0]
  /\ checks = [p \in Peers |-> 0]
  /\ skips = [p \in Peers |-> {}]
  /\ net = [p \in Peers |-> {}]
  /\ got = [p \in Peers |-> {}]
  /\ asked = [p \in Peers |-> 0]
  /\ delivered = [p \in Peers |-> {}]
  /\ twice = [p \in Peers |-> {}]

------------------------------------------------------------------------------
(* Sending *)

\* sendPayload / ServerTunnel.SendPacket: encode, write; a failed write
\* returns without the loss check.
SendPacket(p, kind) ==
  /\ CanEncode(p)
  /\ checks[p] < Senders[p]
  /\ sent' = [sent EXCEPT ![p] = @ + 1]
  /\ \/ /\ net' = [net EXCEPT ![p] = @ \cup {MakeFrame(sent[p], kind, 0)}]
        /\ checks' = [checks EXCEPT ![p] = @ + 1]
     \/ /\ WriteErrors
        /\ UNCHANGED <<net, checks>>
  /\ UNCHANGED <<peerBase, skips, asked>>
  /\ UNCHANGED recvVars

\* sendControlRaw / ServerTunnel.sendKeepalive: no loss check afterwards.
SendRaw(p) ==
  /\ p \in Keepalives
  /\ CanEncode(p)
  /\ sent' = [sent EXCEPT ![p] = @ + 1]
  /\ net' = [net EXCEPT ![p] = @ \cup {MakeFrame(sent[p], "quiet", 0)}]
  /\ UNCHANGED <<peerBase, checks, skips, asked>>
  /\ UNCHANGED recvVars

UnackedSpan(p) == IF sent[p] < peerBase[p] THEN 0 ELSE sent[p] - peerBase[p]

\* maybeSendLossControl, the critical section: nothing to do ...
CheckGapSmall(p) ==
  /\ checks[p] > 0
  /\ UnackedSpan(p) < SkipSpan
  /\ checks' = [checks EXCEPT ![p] = @ - 1]
  /\ UNCHANGED <<sent, peerBase, skips, asked, net>>
  /\ UNCHANGED recvVars

\* ... or a SKIP that names the current send position, its own number.
SkipFrame(p) == MakeFrame(sent[p], "skip", sent[p])

CheckGapLarge(p) ==
  /\ checks[p] > 0
  /\ UnackedSpan(p) >= SkipSpan
  /\ CanEncode(p)
  /\ checks' = [checks EXCEPT ![p] = @ - 1]
  /\ skips' = [skips EXCEPT ![p] = @ \cup {SkipFrame(p)}]
  /\ sent' = [sent EXCEPT ![p] = @ + 1]
  /\ UNCHANGED <<peerBase, asked, net>>
  /\ UNCHANGED recvVars

\* The SKIP is written, and the sender at once takes the peer's position to
\* be the target; or the write fails and nothing more happens.
WriteSkip(p) ==
  \E f \in skips[p] :
    /\ skips' = [skips EXCEPT ![p] = @ \ {f}]
    /\ \/ /\ net' = [net EXCEPT ![p] = @ \cup {f}]
          /\ peerBase' = [peerBase EXCEPT ![p] = Later(@, f.val)]
          /\ asked' = [asked EXCEPT ![p] = Later(@, f.val)]
       \/ /\ WriteErrors
          /\ UNCHANGED <<net, peerBase, asked>>
    /\ UNCHANGED <<sent, checks>>
    /\ UNCHANGED recvVars

------------------------------------------------------------------------------
(* Receiving *)

\* What leaves the network when f arrives: f, or nothing if a copy stays.
Leaving(f) == IF Duplicates THEN {{}, {f}} ELSE {{f}}

\* A frame arrives at q and authenticates: its number is marked and the
\* window slides.
Decode(q, f) ==
  /\ f \in net[Other(q)]
  /\ Acceptable(q, f.seq)

MarkSeen(q, f) ==
  /\ base' = [base EXCEPT ![q] = BaseAfter(q, f.seq)]
  /\ seen' = [seen EXCEPT ![q] = SeenAfter(q, f.seq)]
  /\ got' = [got EXCEPT ![q] = @ \cup {f.seq}]

Deliver(q, f) ==
  /\ delivered' = [delivered EXCEPT ![q] = @ \cup {f.seq}]
  /\ twice' = [twice EXCEPT ![q] = @ \cup ({f.seq} \cap delivered[q])]

Arrive(q, f, left) == net' = [net EXCEPT ![Other(q)] = @ \ left]

AckDueLate(q) == ackDue[q] + 1 > AckEvery

\* noteDecoded: this data frame completes a batch of AckEvery.
AckDue(q) == ackDue[q] + 1 >= AckEvery

ReceiveData(q, f, left) ==
  /\ Decode(q, f)
  /\ f.kind = "data"
  /\ ~AckDue(q)
  /\ MarkSeen(q, f)
  /\ Deliver(q, f)
  /\ ackDue' = [ackDue EXCEPT ![q] = @ + 1]
  /\ Arrive(q, f, left)
  /\ UNCHANGED sendVars

AckOfArrival(q, f) == MakeFrame(sent[q], "ack", f.seq + 1)

\* The ACK carries the base as it stands after the frame was marked.
AckFrame(q, f) == MakeFrame(sent[q], "ack", BaseAfter(q, f.seq))

\* The frame completes a batch: the ACK is encoded in the same critical
\* section, so it takes the next number of q's own direction.
ReceiveDataAck(q, f, left) ==
  /\ Decode(q, f)
  /\ f.kind = "data"
  /\ AckDue(q)
  /\ CanEncode(q)
  /\ MarkSeen(q, f)
  /\ Deliver(q, f)
  /\ ackDue' = [ackDue EXCEPT ![q] = 0]
  /\ sent' = [sent EXCEPT ![q] = @ + 1]
  /\ net' = [net EXCEPT ![Other(q)] = @ \ left, ![q] = @ \cup {AckFrame(q, f)}]
  /\ UNCHANGED <<peerBase, checks, skips, asked>>

ReceiveQuiet(q, f, left) ==
  /\ Decode(q, f)
  /\ f.kind = "quiet"
  /\ MarkSeen(q, f)
  /\ Arrive(q, f, left)
  /\ UNCHANGED <<ackDue, delivered, twice>>
  /\ UNCHANGED sendVars

ReceiveAck(q, f, left) ==
  /\ Decode(q, f)
  /\ f.kind = "ack"
  /\ MarkSeen(q, f)
  /\ peerBase' = [peerBase EXCEPT ![q] = Later(@, f.val)]
  /\ Arrive(q, f, left)
  /\ UNCHANGED <<ackDue, delivered, twice>>
  /\ UNCHANGED <<sent, checks, skips, asked>>

\* DecodePacket marks the SKIP itself, then AdvanceBaseTo moves the window.
ReceiveSkip(q, f, left) ==
  LET after == AdvanceBaseTo(BaseAfter(q, f.seq), SeenAfter(q, f.seq), f.val)
  IN /\ Decode(q, f)
     /\ f.kind = "skip"
     /\ base' = [base EXCEPT ![q] = after.base]
     /\ seen' = [seen EXCEPT ![q] = after.seen]
     /\ got' = [got EXCEPT ![q] =
                  IF after.base = BaseAfter(q, f.seq) THEN @ \cup {f.seq} ELSE {}]
     /\ Arrive(q, f, left)
     /\ UNCHANGED <<ackDue, delivered, twice>>
     /\ UNCHANGED sendVars

\* The server's token bucket refuses the frame after it authenticated: its
\* number is spent, whatever it carried is dropped.
ReceiveOverBudget(q, f, left) ==
  /\ RateLimited
  /\ q = "server"
  /\ Decode(q, f)
  /\ MarkSeen(q, f)
  /\ Arrive(q, f, left)
  /\ UNCHANGED <<ackDue, delivered, twice>>
  /\ UNCHANGED sendVars

\* DecodePacket fails: duplicate, below the base or beyond the window.
Reject(q, f) ==
  /\ f \in net[Other(q)]
  /\ ~Acceptable(q, f.seq)
  /\ Arrive(q, f, {f})
  /\ UNCHANGED sendVars
  /\ UNCHANGED recvVars

Receive(q, f, left) ==
  \/ ReceiveData(q, f, left)
  \/ ReceiveDataAck(q, f, left)
  \/ ReceiveQuiet(q, f, left)
  \/ ReceiveAck(q, f, left)
  \/ ReceiveSkip(q, f, left)
  \/ ReceiveOverBudget(q, f, left)

\* The network loses a frame.
Lose(p, f) ==
  /\ f \in net[p]
  /\ f.seq \in Losable[p]
  /\ net' = [net EXCEPT ![p] = @ \ {f}]
  /\ UNCHANGED sendVars
  /\ UNCHANGED recvVars

------------------------------------------------------------------------------
Next ==
  \E p \in Peers :
    \/ \E k \in Payloads : SendPacket(p, k)
    \/ SendRaw(p)
    \/ CheckGapSmall(p)
    \/ CheckGapLarge(p)
    \/ WriteSkip(p)
    \/ \E f \in net[Other(p)] : \E left \in Leaving(f) : Receive(p, f, left)
    \/ \E f \in net[Other(p)] : Reject(p, f)
    \/ \E f \in net[p] : Lose(p, f)

Spec == Init /\ [][Next]_vars

------------------------------------------------------------------------------
(* Properties *)

TypeOK ==
  /\ sent \in [Peers -> Nat]
  /\ base \in [Peers -> Nat]
  /\ seen \in [Peers -> SUBSET Nat]
  /\ peerBase \in [Peers -> Nat]
  /\ ackDue \in [Peers -> 0..(AckEvery - 1)]
  /\ checks \in [Peers -> Nat]
  /\ skips \in [Peers -> SUBSET Frame]
  /\ net \in [Peers -> SUBSET Frame]
  /\ got \in [Peers -> SUBSET Nat]
  /\ asked \in [Peers -> Nat]
  /\ delivered \in [Peers -> SUBSET Nat]
  /\ twice \in [Peers -> SUBSET Nat]

\* The receiver never gets ahead of the sender: the window base, every number
\* marked in the bitmap and the position the sender believes the receiver has
\* reached all stay within what was sent, so sent - peerBase never underflows
\* and no number not yet used can be burnt by a slide or a SKIP.
WindowBehindSender ==
  \A p \in Peers :
    LET q == Other(p) IN
    /\ base[q] <= sent[p]
    /\ peerBase[p] <= sent[p]
    /\ \A n \in seen[q] : base[q] < n /\ n < base[q] + Window /\ n < sent[p]

\* What a sender believes about the receiver (ackTracker.peerBase) exceeds the
\* receiver's real base only by its own optimistic advance: an ACK never
\* overstates, so every excess is covered by a SKIP the sender has written.
BeliefOnlyAheadBySkip ==
  \A p \in Peers : peerBase[p] > base[Other(p)] => peerBase[p] <= asked[p]

\* Nothing in flight or about to be written can be authenticated by q, and
\* every future number lies beyond q's window.
Wedged(q) ==
  /\ sent[Other(q)] >= base[q] + Window
  /\ \A f \in net[Other(q)] \cup skips[Other(q)] : ~Acceptable(q, f.seq)

\* A wedged direction never recovers: no ACK, SKIP, keepalive or later send of
\* the code reopens a window whose next acceptable number is no longer in
\* flight.
WedgeIsPermanent ==
  [][\A q \in Peers : Wedged(q) => Wedged(q)']_vars

\* docs/PROTOCOL.md section 4 says that with ACK and SKIP the base no longer
\* stalls for good: no direction is ever wedged.
NeverWedged == \A q \in Peers : ~Wedged(q)

\* DecodePacket's comment says a frame under an already-seen nonce is dropped
\* as a duplicate: no data frame reaches the application twice.
AtMostOnce == \A q \in Peers : twice[q] = {}

C2S == INSTANCE Datagram
         WITH sent <- sent["client"], floor <- base["server"], got <- got["server"]
S2C == INSTANCE Datagram
         WITH sent <- sent["server"], floor <- base["client"], got <- got["client"]

\* Each direction of the session is a Datagram service: numbers below the
\* base are dead for good, and between two applied SKIPs no number is taken
\* twice.
ImplementsDatagram == C2S!Spec /\ S2C!Spec
==============================================================================
