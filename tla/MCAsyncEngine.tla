---------------------------- MODULE MCAsyncEngine ----------------------------
(* Small instances of AsyncEngine for TLC.                                 *)
EXTENDS AsyncEngine, TLC

\* All clients but one send the same x-request-id.
SharedId ==
    LET other == CHOOSE c \in Clients : TRUE
        shared == CHOOSE r \in Rids : TRUE
    IN  [c \in Clients |-> IF c = other THEN CHOOSE r \in Rids : r # shared
                           ELSE shared]
=============================================================================
