----------------------------- MODULE ReplayTable -----------------------------
(***************************************************************************)
(* The replay tables of internal/tunnel/replay.go: what a server remembers  *)
(* of the first datagrams it has answered.  Every hop port has a table of   *)
(* its own in memory; all of them load, and rewrite whole, the same file.   *)
(***************************************************************************)
EXTENDS Integers, FiniteSets

CONSTANTS
  Keys,      \* hashes of first datagrams
  Muxes,     \* the hop ports
  CacheMax,  \* replayCacheMax
  TTL,       \* replayCacheTTL, in hours
  MaxTime    \* bound: hours that pass

ASSUME TableAssumption ==
  /\ CacheMax \in Nat \ {0}
  /\ TTL \in Nat \ {0}
  /\ MaxTime \in Nat

VARIABLES
  now,    \* the clock
  disk,   \* TRUE when the file can be written
  table,  \* of each mux: the hour each key expires, 0 for a key it has not
  file    \* the same, of the file

tableVars == <<now, disk, table, file>>

Empty == [k \in Keys |-> 0]

TableInit ==
  /\ now = 0
  /\ disk \in BOOLEAN
  /\ table = [m \in Muxes |-> Empty]
  /\ file = Empty

Size(t) == Cardinality({k \in Keys : t[k] > 0})

Fresh(t, k) == now < t[k]

\* sweepLocked
Swept(t) == [k \in Keys |-> IF Fresh(t, k) THEN t[k] ELSE 0]

\* Expired entries are only dropped to make room.
WithRoom(t) == IF Size(t) >= CacheMax THEN Swept(t) ELSE t

Recorded(t, k) ==
  LET r == WithRoom(t)
  IN IF Size(r) < CacheMax THEN [r EXCEPT ![k] = now + TTL] ELSE r

RememberOldFile(m, k) ==
  /\ table' = [table EXCEPT ![m] = Recorded(@, k)]
  /\ file' = IF disk /\ table'[m][k] > now THEN table[m] ELSE file

\* seen, for a key that is not fresh in the table: a table that is full even
\* after a sweep lets it through unrecorded, else the file is rewritten with
\* this table (a failed write leaves the old file).
Remember(m, k) ==
  /\ table' = [table EXCEPT ![m] = Recorded(@, k)]
  /\ file' = IF disk /\ Fresh(table'[m], k) THEN table'[m] ELSE file

\* loadReplayCache, for every mux of a server that starts.
Load ==
  /\ table' = [m \in Muxes |-> Swept(file)]
  /\ UNCHANGED <<now, disk, file>>

TableTypeOK ==
  /\ now \in 0..MaxTime
  /\ disk \in BOOLEAN
  /\ table \in [Muxes -> [Keys -> 0..(MaxTime + TTL)]]
  /\ file \in [Keys -> 0..(MaxTime + TTL)]
  /\ \A m \in Muxes : Size(table[m]) <= CacheMax
===============================================================================
