------------------------------- MODULE GbeFile -----------------------------
(***************************************************************************)
(* What nvmutil promises about a GbE file: it is replaced as a whole, by   *)
(* what a command makes of a content the file had while the command ran,   *)
(* and a power loss leaves it with a content it had.  It does not promise  *)
(* that the content a command starts from is still that of the file when   *)
(* it ends, nor that the new content survives a power loss.                *)
(***************************************************************************)
EXTENDS GbeLayout

VARIABLES
  now,   \* the content of the file
  disk,  \* what a power loss would leave of it
  seen   \* the contents that running commands started from

vars == <<now, disk, seen>>

At(p) == IF p = 0 THEN 0 ELSE half

\* A command has something to start from: a valid part.
Applies(c, f) ==
  IF c.name = "copy" THEN good_checksum(f[At(c.arg)])
                     ELSE \E p \in Part : good_checksum(f[At(p)])

SetMac(m, b) == [b EXCEPT !.mac = m, !.sum = calculated_checksum(m)]

\* setmac changes the parts that are valid and no other; swap exchanges the
\* two; copy overwrites the other one.  Padding is kept.
Result(c, f) ==
  CASE c.name = "setmac" ->
         [k \in DOMAIN f |-> IF k \in {0, half} /\ good_checksum(f[k])
                               THEN SetMac(c.arg, f[k]) ELSE f[k]]
    [] c.name = "swap" -> [f EXCEPT ![0] = f[half], ![half] = f[0]]
    [] c.name = "copy" -> [f EXCEPT ![At(1 - c.arg)] = f[At(c.arg)]]

Init == disk = now /\ seen = {}

Look    == seen' \subseteq seen \cup {now} /\ UNCHANGED <<now, disk>>
Replace == /\ \E f \in seen, c \in Writers : Applies(c, f) /\ now' = Result(c, f)
           /\ seen' \subseteq seen
           /\ UNCHANGED disk
Settle    == disk' = now /\ UNCHANGED <<now, seen>>
PowerLoss == now' = disk /\ seen' = {} /\ UNCHANGED disk

Next == Look \/ Replace \/ Settle \/ PowerLoss

Spec == Init /\ [][Next]_vars
=============================================================================
