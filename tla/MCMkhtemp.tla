----------------------------- MODULE MCMkhtemp -----------------------------
(* Instances of Mkhtemp: two programs, two names, one retry. *)
EXTENDS Mkhtemp

CONSTANTS p1, p2, n1, n2

(* A machine with /tmp, one on which TMPDIR is no good, and one that has no *)
(* directory for temporary files at all.                                    *)
SomeMachines ==
    {[TMPDIR |-> Unset, kind |-> [d \in Directories |-> "sticky"]],
     [TMPDIR |-> "elsewhere", kind |-> [d \in Directories |-> "open"]],
     [TMPDIR |-> Unset, kind |-> [d \in Directories |-> "private"]]}
=============================================================================
