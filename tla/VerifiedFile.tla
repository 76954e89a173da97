---------------------------- MODULE VerifiedFile ----------------------------
(***************************************************************************)
(* What xbget promises its callers about one file (include/get.sh): a call *)
(* may overwrite or remove the file while it runs, and may fail, but it    *)
(* reports success only with the file it was asked for in place.           *)
(***************************************************************************)
CONSTANTS Content, Wanted

VARIABLES file, status

vars == <<file, status>>

Init == file \in Content /\ status = "idle"

Begin   == status # "busy" /\ status' = "busy" /\ file' = file
Change  == status = "busy" /\ status' = "busy" /\ file' \in Content
Deliver == status = "busy" /\ status' = "ok" /\ file' = Wanted
GiveUp  == status = "busy" /\ status' = "idle" /\ file' \in Content
\* The configuration now asks for another file.
Outdate == status # "busy" /\ status' = "idle" /\ file' \in Content

Next == Begin \/ Change \/ Deliver \/ GiveUp \/ Outdate

Spec == Init /\ [][Next]_vars
=============================================================================
