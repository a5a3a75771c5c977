------------------------------ MODULE MCLedger ------------------------------
(***************************************************************************)
(* Small instances of PolicyLedger.  The specification treats processes,   *)
(* policies and versions alike.                                            *)
(***************************************************************************)
EXTENDS PolicyLedger, TLC

CONSTANTS w1, w2, p1, p2, v1, v2

WriterSymmetry == Permutations({w1, w2}) \cup Permutations({v1, v2})
PolicySymmetry == Permutations({p1, p2})
=============================================================================
