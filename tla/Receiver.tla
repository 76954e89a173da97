------------------------------ MODULE Receiver -----------------------------
(***************************************************************************)
(* What spkmodem-decode promises about characters (util/spkmodem_decode):  *)
(* bits arrive one at a time, the highest first, and a character is        *)
(* printed as soon as it has all of its bits; the bits of an unfinished    *)
(* character can be lost, but only all of them together.                   *)
(***************************************************************************)
EXTENDS Naturals, Sequences

CONSTANT Bits   \* of a character

VARIABLES
  received,  \* the bits of the character that is being received
  printed    \* those of the last one that was printed, <<>> if there is none

vars == <<received, printed>>

Init == received = <<>> /\ printed = <<>>

Receive(b) ==
  /\ Len(received) < Bits - 1
  /\ received' = Append(received, b)
  /\ UNCHANGED printed

Complete(b) ==
  /\ Len(received) = Bits - 1
  /\ received' = <<>>
  /\ printed' = Append(received, b)

Drop == received' = <<>> /\ UNCHANGED printed

Next == (\E b \in {0, 1} : Receive(b) \/ Complete(b)) \/ Drop

Spec == Init /\ [][Next]_vars
=============================================================================
