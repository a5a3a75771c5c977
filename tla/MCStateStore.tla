---------------------------- MODULE MCStateStore ----------------------------
(***************************************************************************)
(* Small instances of StateStore: grants of every mode and taint policy on *)
(* one namespace, and a GCO that lists the namespace twice.                *)
(***************************************************************************)
EXTENDS StateStore, TLC

CONSTANTS t1, t2, n1, k1, k2

Perm(mode, taint) ==
    [namespace |-> n1, access_mode |-> mode, taint_policy |-> taint]

Holding(perms) == [state_access_permissions |-> perms]

\* Writers of three taints, readers of two, an appender, a GCO whose first
\* entry for the namespace decides, and one without any.
MCSubjects ==
    {Holding(<<Perm("write", x)>>) : x \in {"clean", "sanitized", "tainted"}}
      \cup {Holding(<<Perm("read", "clean")>>),
            Holding(<<Perm("append", "isolated")>>),
            Holding(<<Perm("append", "tainted"), Perm("write", "clean")>>),
            Holding(<<>>)}

ThreadSymmetry == Permutations({t1, t2})
=============================================================================
