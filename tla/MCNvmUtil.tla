------------------------------ MODULE MCNvmUtil ----------------------------
(* Instances of NvmUtil: files of four blocks (16 KiB). *)
EXTENDS NvmUtil

Good(tail) == [mac |-> 1, sum |-> calculated_checksum(1), tail |-> tail]
Bad(tail)  == [mac |-> 1, sum |-> calculated_checksum(0), tail |-> tail]
Padding    == [mac |-> 0, sum |-> 0, tail |-> "ff"]

\* Both parts valid, one, or none.
SomeFiles ==
  {[k \in 0..3 |-> IF k = 0 THEN p[1] ELSE IF k = 2 THEN p[2] ELSE Padding] :
     p \in {<<Good("a"), Good("b")>>, <<Good("a"), Bad("b")>>,
            <<Bad("a"), Good("b")>>, <<Bad("a"), Bad("b")>>}}

SomeGarbage == {[mac |-> 2, sum |-> 0, tail |-> "ff"]}
=============================================================================
