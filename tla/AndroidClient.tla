----------------------------- MODULE AndroidClient -----------------------------
(***************************************************************************)
(* The Android client: ChimeraVpnService.kt over the handles of bind.go.    *)
(* startVpn and reconnectGo are coroutines that block in the core, which no *)
(* cancellation reaches; stopVpn and onDestroy run on the main thread at    *)
(* any moment between their steps.  droid.svc is the service instance: none, *)
(* on, ending after stopSelf, gone after onDestroy while a coroutine of it  *)
(* still runs.  A new instance is started when those have ended.            *)
(***************************************************************************)
EXTENDS CoreClient

CONSTANT MaxAttempts  \* reconnects that may fail in a row, 5

VARIABLE droid

DroidInit ==
  droid = [svc |-> "none", running |-> FALSE, handle |-> 0, tun |-> FALSE, fallback |-> FALSE,
           start |-> "none", startId |-> 0, rec |-> "none", recId |-> 0, attempts |-> 0, due |-> FALSE,
           late |-> FALSE, asked |-> "none"]

\* The field vpnHandle of an instance, and the handles its coroutines work with
DroidHeld ==
  ({droid.startId, droid.recId}
     \cup IF droid.svc \in {"on", "ending"} THEN {droid.handle} ELSE {}) \ {0}

\* stopVpn: the handle is stopped on a thread of its own, which is not waited for.
StopVpn(d) == [d EXCEPT !.tun = FALSE, !.running = FALSE, !.handle = 0, !.due = FALSE]

StopSelf(d) == [d EXCEPT !.svc = IF @ = "on" THEN "ending" ELSE @]

StopsAndEnds ==
  /\ droid' = StopSelf(StopVpn([droid EXCEPT !.start = "none", !.startId = 0]))
  /\ sess' = Closed({droid.handle})
  /\ UNCHANGED <<setup, world>>

Connect ==
  /\ setup.platform = "android" /\ droid.svc \in {"none", "on"}
  /\ ~droid.tun /\ droid.start = "none"
  /\ droid' = [droid EXCEPT !.svc = "on", !.start = "dial", !.asked = "start", !.late = FALSE]
  /\ UNCHANGED coreVars

\* Also onRevoke.  A service that only starts to be told so has nothing to stop.
Disconnect ==
  /\ droid.asked = "start" /\ Cardinality(Open) <= setup.left + 1
  /\ IF droid.svc = "on"
       THEN /\ droid' = [StopSelf(StopVpn(droid)) EXCEPT !.asked = "stop"]
            /\ sess' = Closed({droid.handle})
       ELSE droid' = [droid EXCEPT !.asked = "stop", !.running = FALSE] /\ UNCHANGED sess
  /\ UNCHANGED <<setup, world>>

Destroyed ==
  /\ droid.svc = "ending"
  /\ droid' = [StopVpn(droid) EXCEPT !.svc = "gone"]
  /\ sess' = Closed({droid.handle})
  /\ UNCHANGED <<setup, world>>

Vanished ==
  /\ droid.svc = "gone" /\ droid.start = "none" /\ droid.rec = "none"
  /\ droid' = [droid EXCEPT !.svc = "none", !.handle = 0, !.tun = FALSE, !.attempts = 0,
                            !.fallback = FALSE]
  /\ UNCHANGED coreVars

Teardown == Destroyed \/ Vanished

-------------------------------------------------------------------------------
(* startVpn *)

StartDials ==
  /\ droid.start = "dial" /\ Reaches(ServerGen)
  /\ \E i \in Ids :
       /\ Unused(i, DroidHeld)
       /\ sess' = Started(i, ServerGen)
       /\ droid' = [droid EXCEPT !.start = "assign", !.startId = i, !.handle = i]
  /\ UNCHANGED <<setup, world>>

\* No session, or its socket cannot be protected: then it was stopped again.
StartBreaks ==
  /\ droid.start = "dial" /\ MayFail(ServerGen)
  /\ StopsAndEnds

\* The address came, or did not, or stopVpn closed the session meanwhile: then the
\* configured address is used.
Addressed(i) == i \in Open => (sess[i].wait = "address" \/ WaitMayEnd(i))

Unaddressed(i) == i \in Open => sess[i].wait # "address"

StartEnds ==
  /\ droid.start = "assign" /\ Addressed(droid.startId)
  /\ droid' = [droid EXCEPT !.start = "none", !.startId = 0, !.tun = TRUE,
                            !.running = TRUE, !.attempts = 0, !.fallback = Unaddressed(droid.startId),
                            !.late = @ \/ droid.svc = "gone"]
  /\ sess' = IF droid.startId \in Open THEN Waited(droid.startId) ELSE sess
  /\ UNCHANGED <<setup, world>>

StartNotEstablished ==
  /\ ~world.calm /\ droid.start = "assign" /\ Addressed(droid.startId)
  /\ StopsAndEnds

StartVpn == StartDials \/ StartBreaks \/ StartEnds \/ StartNotEstablished

-------------------------------------------------------------------------------
(* reconnectGo *)

\* The watchdog or the receiving pump finds the link lost, or a retry is due.
Requests(d) ==
  /\ droid.svc \in {"on", "ending"} /\ droid.running /\ droid.rec = "none"
  /\ droid' = [d EXCEPT !.rec = "dial"]
  /\ UNCHANGED coreVars

RequestsReconnect ==
  \/ droid.handle \in Open /\ ~sess[droid.handle].link /\ Requests(droid)
  \/ droid.due /\ Requests([droid EXCEPT !.due = FALSE])

UserReconnects == ~world.calm /\ FewLeft /\ Requests(droid)

ReconnectDials ==
  /\ droid.rec = "dial" /\ Reaches(ServerGen)
  /\ \E i \in Ids :
       /\ Unused(i, DroidHeld)
       /\ sess' = Started(i, ServerGen)
       /\ droid' = [droid EXCEPT !.rec = "assign", !.recId = i]
  /\ UNCHANGED <<setup, world>>

\* A failed one is tried again after a while, in the scope of a living instance,
\* until too many failed.  The new session, if there is one, is not stopped.
Failed ==
  IF droid.attempts < MaxAttempts
  THEN /\ droid' = [droid EXCEPT !.rec = "none", !.recId = 0, !.attempts = @ + 1,
                                 !.due = droid.svc # "gone"]
       /\ UNCHANGED sess
  ELSE /\ droid' = StopSelf(StopVpn([droid EXCEPT !.rec = "none", !.recId = 0]))
       /\ sess' = Closed({droid.handle})

ReconnectBreaks ==
  /\ droid.rec = "dial" /\ MayFail(ServerGen)
  /\ Failed
  /\ UNCHANGED <<setup, world>>

\* If the address is another one an interface is set up anew.
ReconnectEnds ==
  /\ droid.rec = "assign" /\ Addressed(droid.recId)
  /\ \E tun \in {droid.tun, TRUE} :
       droid' = [droid EXCEPT !.rec = "none", !.recId = 0, !.handle = droid.recId, !.tun = tun,
                              !.attempts = 0, !.fallback = Unaddressed(droid.recId),
                              !.late = @ \/ droid.svc = "gone"]
  /\ sess' = [i \in Ids |-> IF i = droid.handle THEN Absent ELSE Waited(droid.recId)[i]]
  /\ UNCHANGED <<setup, world>>

ReconnectNotEstablished ==
  /\ ~world.calm /\ droid.rec = "assign" /\ Addressed(droid.recId) /\ FewLeft
  /\ Failed
  /\ UNCHANGED <<setup, world>>

ReconnectGo == ReconnectDials \/ ReconnectBreaks \/ ReconnectEnds \/ ReconnectNotEstablished
===============================================================================
