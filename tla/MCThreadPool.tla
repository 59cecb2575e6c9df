---------------------------- MODULE MCThreadPool ----------------------------
(* ThreadPool with callers and tasks as model values.                      *)
EXTENDS ThreadPool

CONSTANTS c1, c2, k1, k2, k3
=============================================================================
