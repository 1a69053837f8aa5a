--------------------------- MODULE MCEventStream ---------------------------
(* EventStream for TLC: which client resumes in which way.                 *)
EXTENDS EventStream

CONSTANTS
    Stayer,       \* the client that never connects again
    Browser       \* the client that resumes by id

EachWay ==
    [c \in Client |-> IF c = Stayer THEN "never" ELSE IF c = Browser THEN "id" ELSE "seq"]
=============================================================================
