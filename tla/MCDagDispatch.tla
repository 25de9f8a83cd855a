---------------------------- MODULE MCDagDispatch ----------------------------
(***************************************************************************)
(* Instances of DagDispatch for TLC.  Instrument 1 writes the bus a; 2     *)
(* reads it and writes b; 3 reads a and c; 4 reads b and overwrites c.     *)
(* So two instances of 3 wait for the same 1 and then run side by side, 4  *)
(* waits for 2 and for 3, and 1, 2 and 4 are in conflict with themselves.  *)
(* The semantic analysis never puts a name in read_write: it files it      *)
(* under read and under write (csp_orc_sa_global_read_write_add_list).     *)
(***************************************************************************)
EXTENDS DagDispatch, TLC

MCReads      == (1 :> {}) @@ (2 :> {"a"}) @@ (3 :> {"a", "c"}) @@ (4 :> {"b"})
MCWrites     == (1 :> {"a"}) @@ (2 :> {"b"}) @@ (3 :> {}) @@ (4 :> {"c"})
MCReadWrites == [i \in 1..4 |-> {}]
=============================================================================
