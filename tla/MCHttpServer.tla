---------------------------- MODULE MCHttpServer ----------------------------
(* HttpServer with a handful of requests. *)
EXTENDS HttpServer

CONSTANTS c1, c2, v1, v2

R(route, vs, payloads, k) == [route |-> route, vs |-> vs, payloads |-> payloads, k |-> k]

(* A batch that is added, one with too few payloads, and one that panics   *)
(* behind its first vector; a search, and a body that is too large.        *)
MCRequests ==
  {R("batch_insert", <<v2, v1>>, {2}, {}), R("batch_insert", <<v1, v2>>, {1}, {}),
   R("batch_insert", <<v2, Wrong>>, {}, {}), R("search", <<v1>>, {}, {}),
   R("oversized", <<>>, {}, {})}

=============================================================================
