------------------------------ MODULE HttpPairing ------------------------------
(***************************************************************************)
(* The pairing of the two requests of an HTTP session, core/httpstream.go:  *)
(* an upload and a download with the same sid, sent at once by the client   *)
(* and handled in whichever order they come.  The second one to come starts *)
(* the session.  A pair holds where each handler is:                        *)
(*   "none"  the request has not come                                       *)
(*   "waits" for the other request, for httpPairTimeout                     *)
(*   "holds" the request open for as long as the session lasts              *)
(*   "over"  the handler has returned and its half is closed.               *)
(***************************************************************************)

NewPair == [listed |-> FALSE, started |-> FALSE, up |-> "none", down |-> "none"]

\* The other request's handler is found at this sid's entry.
Found(p, other) == p.listed /\ other = "waits"

\* A download that came first waits for done, which nobody closes while the
\* server runs, and not for startedCh.
UploadCome(p) ==
  LET both == Found(p, p.down) IN
  [p EXCEPT !.listed = TRUE, !.started = both, !.up = IF both THEN "holds" ELSE "waits"]

DownloadComeQuietly(p) ==
  LET both == Found(p, p.up) IN
  [p EXCEPT !.listed = TRUE, !.started = both, !.down = IF both THEN "holds" ELSE "waits"]

\* An upload that came first is woken by startedCh.
DownloadCome(p) ==
  LET both == Found(p, p.up) IN
  [listed |-> TRUE, started |-> both,
   up |-> IF both THEN "holds" ELSE p.up,
   down |-> IF both THEN "holds" ELSE "waits"]

\* dropHTTPSession
Dropped(p) == [p EXCEPT !.listed = FALSE]

UploadGivesUp(p) == [Dropped(p) EXCEPT !.up = "over"]
DownloadGivesUp(p) == [Dropped(p) EXCEPT !.down = "over"]
===============================================================================
