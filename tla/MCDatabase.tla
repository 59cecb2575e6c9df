----------------------------- MODULE MCDatabase -----------------------------
(* Values of the constants of Database for TLC. *)
EXTENDS DatabaseInv

CONSTANTS a, b, bad

(* A batch, and one whose second vector has the wrong dimension. A single  *)
(* insert is a batch of one: it passes through the states of the first.    *)
MCBatches == {<<b, a>>, <<b, bad>>}
=============================================================================
