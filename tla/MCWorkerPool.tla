----------------------------- MODULE MCWorkerPool -----------------------------
(* A small pool for TLC: batches of connections 0 .. 2 on two workers. *)
EXTENDS WorkerPool

MCBatch == {[conn |-> i] : i \in 0 .. 2}
================================================================================
