------------------------------- MODULE Release -----------------------------
(***************************************************************************)
(* What ./mk inject promises about the archive of a board (vendor.sh,      *)
(* inject.sh): it holds the images as they were built, or all of them      *)
(* without their vendor files, padded and under a name that says so, with  *)
(* the hashes of the whole ones; it goes from one to the other in one      *)
(* step, and inserting gives back the images that were hashed, all with    *)
(* the MAC address that was asked for.                                     *)
(***************************************************************************)
EXTENDS Integers

CONSTANTS Roms, Macs, DefaultMac

VARIABLES
  release,   \* the archive
  reliable   \* has every change written a complete archive?

vars == <<release, reliable>>

\* An image with its vendor files, and the same one without them.
Whole(mac) == [vendor |-> "in", gbe |-> mac, pad |-> 0, marks |-> 0]
Bare(mac)  == [vendor |-> "out", gbe |-> mac, pad |-> 1, marks |-> 1]

Filled(mac) == [rom |-> [r \in Roms |-> Whole(mac)], hashes |-> {}]
Stripped(mac) == [rom    |-> [r \in Roms |-> Bare(mac)],
                  hashes |-> {<<r, Whole(mac)>> : r \in Roms}]

Init == release = Filled(DefaultMac) /\ reliable = TRUE

Strip(mac)       == release = Filled(mac) /\ release' = Stripped(mac)
Fill(mac, new)   == release = Stripped(mac) /\ release' = Filled(new)
SetMac(mac, new) == release = Filled(mac) /\ release' = Filled(new)

\* Nothing is promised once an archive was written in part.
Next == reliable' => \E mac, new \in Macs :
                       Strip(mac) \/ Fill(mac, new) \/ SetMac(mac, new)

Spec == Init /\ [][Next]_vars
=============================================================================
