--------------------------- MODULE DellFlashUnlock ---------------------------
(***************************************************************************)
(* dell_flash_unlock, the utility an owner runs, as often as it asks for,  *)
(* to be able to write the whole flash chip of a Dell laptop from its own  *)
(* system: src/util/dell-flash-unlock/dell_flash_unlock.c.                 *)
(*                                                                         *)
(* The program keeps nothing between two runs: what a run does is decided  *)
(* from registers that earlier runs, the embedded controller (EC), the     *)
(* firmware at power-on and the flashing program changed in between.  Its  *)
(* only result is the instruction it prints, which the user follows.       *)
(*                                                                         *)
(* The names of the specification begin with Unlock, so that UtilProofs    *)
(* can extend this module with those of the other utilities.               *)
(***************************************************************************)
EXTENDS Integers, FiniteSets

CONSTANTS
    Polls,     \* how often wait_ec polls the EC (1000 in the code)
    Detours,   \* how often the user does something else than was printed
    Machines   \* the machines considered, records in the set Machine

Ranges == 1 .. 4   \* the LPC bridge's generic decode range registers

\* What a machine's firmware and EC do.
Machine == [ble     : BOOLEAN,   \* sets BIOS Lock Enable under the override
            bwp     : BOOLEAN,   \* sets SMM BIOS Write Protect
            smilock : BOOLEAN,   \* locks the global SMI enable bit
            busy    : Nat,       \* polls for which the EC is busy with a command
            dec     : [Ranges -> [on : BOOLEAN, ec : BOOLEAN]]]
                                 \* what it leaves in the decode registers

ASSUME ParametersAssumption ==
          /\ Polls \in Nat \ {0} /\ Detours \in Nat
          /\ Machines \subseteq Machine

VARIABLES
    mc,       \* the machine
    strap,    \* the descriptor override was sampled active at power-on
    armed,    \* the EC will override the descriptor at the next power-on
    ec,       \* polls until the EC has done its command, or Idle
    smi,      \* GBL_SMI_EN
    bioswe,   \* BIOS Write Enable
    dec,      \* the decode range registers
    at,       \* where the program is, "ended" when it does not run
    polled,   \* polls of wait_ec so far
    told,     \* the instruction the last run printed
    flashed,  \* the flash chip was written
    detours   \* what is left of Detours

hw == <<strap, armed, ec, smi, bioswe, dec>>
unlockVars == <<mc, strap, armed, ec, smi, bioswe, dec, at, polled, told,
                flashed, detours>>

Idle == -1
Instructions == {"none", "shut down", "flash, rerun", "flash", "power off",
                 "failed", "off"}

UnlockTypeOK ==
    /\ mc \in Machine
    /\ strap \in BOOLEAN /\ armed \in BOOLEAN /\ smi \in BOOLEAN
    /\ bioswe \in BOOLEAN /\ flashed \in BOOLEAN
    /\ ec \in Nat \cup {Idle}
    /\ dec \in [Ranges -> [on : BOOLEAN, ec : BOOLEAN]]
    /\ at \in {"ended", "decode", "command", "wait_ec", "bios", "smi_off", "smi"}
    /\ polled \in 0 .. Polls
    /\ told \in Instructions
    /\ detours \in 0 .. Detours

----------------------------------------------------------------------------
(* The machine                                                             *)

\* The firmware sets the lock bit, except where it leaves it alone while
\* the descriptor is overridden.
BLE == mc.ble \/ ~strap

\* What software writes to BIOS Write Enable: the change from 0 to 1 raises an
\* SMI when the lock bit is set, and the SMM code takes the bit back.
SetBioswe == bioswe \/ ~(BLE /\ smi)

\* Ports 0x910 and 0x911 reach the EC through an enabled range.
Forwarded == \E i \in Ranges : dec[i].on /\ dec[i].ec

\* A flashing program can write the whole chip.
Writable == strap /\ SetBioswe /\ ~mc.bwp

\* The registers after the firmware has run.
Booted ==
    /\ smi' = TRUE /\ bioswe' = FALSE /\ dec' = mc.dec /\ ec' = Idle
    /\ at' = "ended" /\ polled' = 0
    /\ UNCHANGED <<mc, flashed>>

\* The machine is shut down and powered on: the strap is sampled, and what was
\* asked of the EC holds for this one boot.
PowerCycle ==
    /\ strap' = armed /\ armed' = FALSE /\ told' = "none"
    /\ Booted

\* A reboot does not sample the strap; the EC may have forgotten the request.
Reboot ==
    /\ told' = "none" /\ armed' \in {armed, FALSE}
    /\ Booted
    /\ UNCHANGED strap

\* The flashing program, which sets BIOS Write Enable itself.
Flash ==
    /\ at = "ended"
    /\ bioswe' = SetBioswe /\ flashed' = (flashed \/ Writable)
    /\ UNCHANGED <<mc, strap, armed, ec, smi, dec, at, polled, told>>

\* Turned off for good.
Off ==
    /\ told' = "off"
    /\ UNCHANGED <<mc, hw, at, polled, flashed>>

\* Time passes for the EC; in wait_ec, it passes with the polls.
\* The EC has done its command once the time it needs is over.
Done(left) == IF left = 0 THEN Idle ELSE left

Tick == /\ ec' = IF ec = Idle THEN Idle ELSE Done(ec - 1)
        /\ armed' = (armed \/ ec = 1)

EcRuns ==
    /\ at # "wait_ec" /\ ec # Idle
    /\ Tick
    /\ UNCHANGED <<mc, strap, smi, bioswe, dec, at, polled, told, flashed, detours>>

----------------------------------------------------------------------------
(* The program                                                             *)

UnlockExit(how) ==
    /\ at' = "ended" /\ told' = how
    /\ UNCHANGED <<mc, flashed>>

\* main, up to get_fdo_status.
Start ==
    /\ at = "ended"
    /\ at' = IF strap THEN "bios" ELSE "decode"
    /\ told' = "none"
    /\ UNCHANGED <<mc, hw, polled, flashed>>

\* The first range that names the EC's ports ends the search, whether it is
\* enabled or not.
HasRange == \E i \in Ranges : dec[i].ec
FreeRanges == {i \in Ranges : ~dec[i].on}
LastFree == CHOOSE i \in FreeRanges : \A j \in FreeRanges : j <= i

check_lpc_decode ==
    /\ at = "decode"
    /\ \/ HasRange /\ at' = "command" /\ UNCHANGED <<dec, mc, told, flashed>>
       \/ /\ ~HasRange /\ FreeRanges # {}
          /\ dec' = [dec EXCEPT ![LastFree] = [on |-> TRUE, ec |-> TRUE]]
          /\ at' = "command"
          /\ UNCHANGED <<mc, told, flashed>>
       \/ ~HasRange /\ FreeRanges = {} /\ UnlockExit("failed") /\ UNCHANGED dec
    /\ UNCHANGED <<strap, armed, ec, smi, bioswe, polled>>

ec_set_fdo ==
    /\ at = "command"
    /\ ec' = IF Forwarded THEN Done(mc.busy) ELSE ec
    /\ armed' = (armed \/ (Forwarded /\ mc.busy = 0))
    /\ at' = "wait_ec" /\ polled' = 0
    /\ UNCHANGED <<mc, strap, smi, bioswe, dec, told, flashed>>

\* A poll that is not forwarded reads 0xff.
Busy == ~Forwarded \/ ec # Idle

\* Mutant of wait_ec: the loop's end counts as an answer.
give_up_ready ==
    /\ at = "wait_ec"
    /\ polled' = polled + 1
    /\ Tick
    /\ IF polled' = Polls \/ ~Busy THEN UnlockExit("shut down")
                                  ELSE UNCHANGED <<mc, at, told, flashed>>
    /\ UNCHANGED <<strap, smi, bioswe, dec>>

\* One turn of wait_ec's loop.  The count is taken down after the poll, and a
\* count of zero is a timeout whatever the last poll read.
wait_ec ==
    /\ at = "wait_ec"
    /\ polled' = polled + 1
    /\ Tick
    /\ \/ polled' >= Polls /\ UnlockExit("failed")
       \/ polled' < Polls /\ ~Busy /\ UnlockExit("shut down")
       \/ polled' < Polls /\ Busy /\ UNCHANGED <<mc, at, told, flashed>>
    /\ UNCHANGED <<strap, smi, bioswe, dec>>

\* Only a register without either lock is left alone.
check_bios_write_en ==
    /\ at = "bios"
    /\ IF BLE \/ mc.bwp
         THEN /\ bioswe' = SetBioswe
              /\ at' = IF SetBioswe THEN "smi" ELSE "smi_off"
         ELSE at' = "smi" /\ UNCHANGED bioswe
    /\ UNCHANGED <<mc, strap, armed, ec, smi, dec, polled, told, flashed>>

\* set_gbl_smi_en(0)
disable_smi ==
    /\ at = "smi_off"
    /\ smi' = (smi /\ mc.smilock)
    /\ UnlockExit(IF smi' THEN "failed" ELSE "flash, rerun")
    /\ UNCHANGED <<strap, armed, ec, bioswe, dec, polled>>

\* Mutant of enable_smi: the new value of the register is not written.
leave_smi_off ==
    /\ at = "smi"
    /\ UnlockExit(IF smi THEN "flash" ELSE "power off")
    /\ UNCHANGED <<strap, armed, ec, smi, bioswe, dec, polled>>

\* get_gbl_smi_en, and set_gbl_smi_en(1) when it is off.
enable_smi ==
    /\ at = "smi"
    /\ smi' = (smi \/ ~mc.smilock)
    /\ UnlockExit(IF smi THEN "flash" ELSE "power off")
    /\ UNCHANGED <<strap, armed, ec, bioswe, dec, polled>>

Program ==
    /\ \/ check_lpc_decode \/ ec_set_fdo \/ wait_ec
       \/ check_bios_write_en \/ disable_smi \/ enable_smi
    /\ UNCHANGED detours

UnlockKill == /\ at # "ended"
        /\ UnlockExit("none")
        /\ UNCHANGED <<hw, polled>>

----------------------------------------------------------------------------
UnlockInit ==
    /\ mc \in Machines
    /\ strap = FALSE /\ armed = FALSE /\ ec = Idle
    /\ smi = TRUE /\ bioswe = FALSE /\ dec = mc.dec
    /\ at = "ended" /\ polled = 0 /\ told = "none" /\ flashed = FALSE
    /\ detours = Detours

\* What a user who follows the instructions does next.  After a power-on the
\* utility is run; a user who has not flashed yet when the machine may be
\* turned off runs it again; after the last instruction the machine is off.
Follow ==
    /\ at = "ended"
    /\ \/ told \in {"none", "failed"} /\ Start
       \/ told = "shut down" /\ PowerCycle
       \/ told \in {"flash", "flash, rerun"} /\ ~flashed /\ Flash
       \/ told = "flash, rerun" /\ flashed /\ Start
       \/ told = "power off" /\ ~flashed /\ Start
       \/ told \in {"flash", "power off"} /\ flashed /\ Off
    /\ UNCHANGED detours

\* Now and then the user does something else.
Wander ==
    /\ told # "off" /\ detours > 0
    /\ detours' = detours - 1
    /\ PowerCycle \/ Reboot \/ Flash \/ Start \/ UnlockKill

UnlockNext == Program \/ Follow \/ Wander \/ EcRuns

\* The program runs on, and the user follows what it prints in the end.
UnlockSpec ==
    /\ UnlockInit /\ [][UnlockNext]_unlockVars
    /\ WF_unlockVars(Program) /\ WF_unlockVars(Follow)

----------------------------------------------------------------------------
(* Properties                                                              *)

\* What the last run printed is so: the EC overrides the descriptor at the
\* next power-on when a shutdown is asked for, the chip can be written when
\* flashing is, and SMIs are on when the machine may be turned off.  A chip
\* with SMM BIOS Write Protect is excluded (see check_bios_write_en).
ToldTrue ==
    at = "ended" =>
      /\ told = "shut down" => armed
      /\ told \in {"flash", "flash, rerun"} /\ ~mc.bwp => Writable
      /\ told \in {"power off", "off"} => smi

\* The machines the utility is for: no other lock, an EC that answers in time
\* and can be reached.
Supported ==
    /\ ~mc.bwp /\ ~mc.smilock /\ mc.busy < Polls - 1
    /\ \E i \in Ranges : mc.dec[i].ec \/ ~mc.dec[i].on
    /\ \A i \in Ranges : mc.dec[i].ec => mc.dec[i].on

\* Whatever a user did before, following the instructions gets the chip
\* written, and ends at a machine that was turned off with SMIs on.
UnlockedInTheEnd == Supported ~> (flashed /\ told = "off" /\ smi)

=============================================================================
