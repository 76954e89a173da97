----------------------------- MODULE MCRomImages ----------------------------
(* Instances of RomImages: two boards, each configured like one of the     *)
(* repository's (dell3050 without its text mode; d510mo with a payload of  *)
(* coreboot's own in addition), or in a way that the build refuses.        *)
EXTENDS RomImages

CONSTANTS t1, t2

TwoTargets == {t1, t2}
TwoKeymaps == <<"de", "us">>

Config(i, d) == [init |-> i, display |-> d, none |-> TRUE]
fb  == Config("libgfxinit", "corebootfb")
txt == Config("libgfxinit", "txtmode")

Like(sea, grub, uboot, cs) ==
  [seabios |-> sea, grub |-> grub, grubsea |-> FALSE, uboot |-> uboot,
   configs |-> cs, releasable |-> TRUE, vendor |-> FALSE]

x230       == [Like(TRUE, TRUE, "amd64", <<fb, txt>>) EXCEPT !.vendor = TRUE]
dell3050   == [Like(TRUE, TRUE, "amd64", <<fb>>)
                 EXCEPT !.vendor = TRUE, !.grubsea = TRUE]
hp8560w    == [Like(TRUE, TRUE, "", <<Config("normal", "")>>) EXCEPT !.vendor = TRUE]
gru_bob    == Like(FALSE, FALSE, "arm64", <<fb>>)
d510mo     == [Like(TRUE, FALSE, "", <<[fb EXCEPT !.none = FALSE], txt>>)
                 EXCEPT !.releasable = FALSE]
misspelt   == Like(TRUE, FALSE, "other", <<fb>>)

SomeBoards == {x230, dell3050, hp8560w, gru_bob, d510mo, misspelt}
=============================================================================
