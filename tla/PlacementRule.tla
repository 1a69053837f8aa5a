---------------------------- MODULE PlacementRule ----------------------------
(***************************************************************************)
(* What the session directory relies on when it places a session: some     *)
(* healthy worker other than the excluded one, or none if there is none.   *)
(* Placement has the computation.                                          *)
(***************************************************************************)
CONSTANTS
    Worker,       \* worker ids
    NoWorker      \* owner_worker_id is null, place returned undefined

\* What place(userId, excluded) may return under the registry rows ws.
Place(ws, excluded) ==
    LET healthy == {w \in Worker : ws[w] = "ok"} \ {excluded}
    IN  IF healthy = {} THEN {NoWorker} ELSE healthy
=============================================================================
