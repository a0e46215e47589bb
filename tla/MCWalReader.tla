---------------------------- MODULE MCWalReader -----------------------------
(***************************************************************************)
(* WalReader with blocks of six cells and headers of two, so that records  *)
(* end one cell and exactly one header before a block does, and the long   *)
(* batch needs FIRST, MIDDLE and LAST.                                     *)
(***************************************************************************)
EXTENDS WalReader

Entry(put, size) == [put |-> put, size |-> size]

MCShapes == { << >>, <<Entry(TRUE, 1)>>,
              <<Entry(TRUE, 1), Entry(FALSE, 1)>>,
              <<Entry(FALSE, 2), Entry(TRUE, 2), Entry(TRUE, 5)>> }
=============================================================================
