------------------------------ MODULE MCAes67 ------------------------------
(***************************************************************************)
(* Small instance of ReacAes67 for TLC: every command line, three flows or *)
(* more than there may be, and a base address with room for all, for two,  *)
(* and none at all.                                                        *)
(***************************************************************************)
EXTENDS ReacAes67

MCNumFlows == {-1, 3}
=============================================================================
