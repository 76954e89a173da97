------------------------- MODULE MCDellFlashUnlock -------------------------
(* Instances of DellFlashUnlock: every firmware, five contents of the decode  *)
(* registers, and an EC that is done at once, in time, at the last poll and   *)
(* too late.                                                                  *)
EXTENDS DellFlashUnlock

Free  == [on |-> FALSE, ec |-> FALSE]
Other == [on |-> TRUE, ec |-> FALSE]
Ours  == [on |-> TRUE, ec |-> TRUE]
Stale == [on |-> FALSE, ec |-> TRUE]

SomeDec ==
    {<<Free, Free, Free, Free>>, <<Other, Other, Other, Free>>,
     <<Other, Free, Ours, Other>>, <<Other, Other, Other, Other>>,
     <<Stale, Free, Other, Other>>}

SomeMachines == [ble : BOOLEAN, bwp : BOOLEAN, smilock : BOOLEAN,
                 busy : 0 .. Polls, dec : SomeDec]
=============================================================================
