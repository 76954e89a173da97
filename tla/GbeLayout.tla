------------------------------ MODULE GbeLayout ----------------------------
(***************************************************************************)
(* A GbE file (util/libreboot-utils): blocks of 4 KiB, of which the first  *)
(* and the one at half the size of the file are its two parts; the others  *)
(* are padding.  Of a block, the first 128 bytes are the NVM words: the    *)
(* MAC address (three words, here one) and a checksum over all of them.    *)
(* The words that no command changes are left out, and the rest of the     *)
(* block is its tail.                                                      *)
(***************************************************************************)
EXTENDS Integers

CONSTANTS
  half,          \* half the size of the file: it has 8, 16 or 128 KiB
  W,             \* a word is a number modulo W (0x10000)
  NVM_CHECKSUM,  \* what the words of a valid part add up to (0xBABA)
  Macs,          \* the MAC addresses, as words
  BadMacs,       \* those that parse_mac_string refuses
  Tails          \* what may follow the NVM words

ASSUME GbeLayoutAssumption ==
  /\ half \in {1, 2, 16}
  /\ W \in Nat \ {0}
  /\ NVM_CHECKSUM \in 0..(W - 1)
  /\ Macs \subseteq 0..(W - 1)
  /\ BadMacs \subseteq Macs

Word  == 0..(W - 1)
Part  == {0, 1}
Block == [mac : Macs, sum : Word, tail : Tails]
File  == [0..(2 * half - 1) -> Block]

calculated_checksum(mac) == (NVM_CHECKSUM - mac) % W

good_checksum(b) == b.sum = calculated_checksum(b.mac)

Command(names, args) == [name : names, arg : args]

\* cat stands for cat16 and cat128 too: they differ in what they print.
Readers == Command({"dump", "cat"}, {0})
Writers == Command({"setmac"}, Macs) \cup Command({"swap"}, {0}) \cup Command({"copy"}, Part)
=============================================================================
