---------------------------- MODULE MCHttpServer ----------------------------
(* Clients that retry one request, and one with a key next to one without, *)
(* under both policies; under FIFO also a key used with another payload,   *)
(* keys of their own, and three streams that do not fit in one batch.      *)
EXTENDS HttpServer

Ask(rid, key, payload) == [rid |-> rid, key |-> key, payload |-> payload]

Absent == Ask(3, "absent", "x")

Retries == <<Ask(1, "a", "x"), Ask(2, "a", "x"), Absent>>
Mixed == <<Ask(1, "a", "x"), Ask(2, "none", "x"), Absent>>

OwnIds ==
    [req : {Retries, Mixed}, paged : BOOLEAN] \cup
    [req : { <<Ask(1, "a", "x"), Ask(2, "a", "y"), Absent>>,
             <<Ask(1, "a", "x"), Ask(2, "b", "x"), Absent>>,
             <<Ask(1, "none", "x"), Ask(2, "none", "x"), Ask(3, "none", "x")>> },
     paged : {FALSE}]

TwoChunks == <<"p1", "p2">>

=============================================================================
