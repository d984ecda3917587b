------------------------------ MODULE FlashHex ------------------------------
(***************************************************************************)
(* flash_hex (src/mbdeploy/flash.py): validate the file, run pyocd flash,  *)
(* retry once if the failure looks transient, mass-erase and reflash if it *)
(* looks locked, then reset the board.                                     *)
(*                                                                         *)
(* pyocd is an external program. An invocation ends with an exit code and  *)
(* an output in which the two signature lists may or may not match         *)
(* (_looks_transient, _looks_locked); the code sees nothing else of it.    *)
(* What the invocation did to the chip is a nondeterministic choice, so    *)
(* the device variables are what really happened, not what the code knows. *)
(***************************************************************************)
EXTENDS Naturals

VARIABLES
    at,         \* the next thing flash_hex does
    hexValid,   \* does the file parse as Intel HEX
    rc,         \* exit code of the last pyocd invocation or of flash_hex: 0 or 1
    output,     \* signatures matched by the output of the last pyocd FLASH
    attempts,   \* pyocd flash invocations so far
    erase,      \* the mass erase: "none", or its exit code: "ok", "failed"
    firmware,   \* device: what its flash holds
    locked,     \* device: APPROTECT or protected regions reject a sector erase
    restarted,  \* device: reset since it was last written
    told        \* the log said the board WAS ERASED AND NOW HAS NO FIRMWARE

vars == <<at, hexValid, rc, output, attempts, erase, firmware, locked, restarted, told>>
deviceVars == <<firmware, locked, restarted>>

Signatures == {"transient", "locked"}
MaxAttempts == 3     \* the first flash, the blind retry, the one after the erase

TypeOK ==
    /\ at \in {"validate", "flash", "retry", "erase", "reflash", "reset", "returned"}
    /\ hexValid \in BOOLEAN
    /\ rc \in {0, 1}
    /\ output \in SUBSET Signatures
    /\ attempts \in 0..MaxAttempts
    /\ erase \in {"none", "ok", "failed"}
    /\ firmware \in {"old", "new", "torn", "blank"}
    /\ locked \in BOOLEAN
    /\ restarted \in BOOLEAN
    /\ told \in BOOLEAN

Init ==
    /\ at = "validate"
    /\ hexValid \in BOOLEAN
    /\ rc = 0
    /\ output = {}
    /\ attempts = 0
    /\ erase = "none"
    /\ firmware \in {"old", "blank"}
    /\ locked \in BOOLEAN
    /\ restarted = FALSE
    /\ told = FALSE

-----------------------------------------------------------------------------
(* The chip under pyocd. A flash that fails may have erased or written     *)
(* some sectors, or all of them: after programming pyocd still resets the  *)
(* chip and lets go of the probe. A chip that is locked rejects it whole.  *)
FlashedOnce(exit) ==
    /\ attempts' = attempts + 1
    /\ output' \in SUBSET Signatures
    /\ restarted' = FALSE
    /\ UNCHANGED locked
    /\ IF exit = 0
       THEN ~locked /\ firmware' = "new"
       ELSE firmware' \in {firmware} \cup (IF locked THEN {} ELSE {"torn", "new"})

(* A mass erase clears the protection with the firmware. One that reports  *)
(* failure may have done nothing, or all of it.                            *)
MassErased(exit) ==
    /\ UNCHANGED <<attempts, output>>
    /\ restarted' = FALSE
    /\ \/ firmware' = "blank" /\ locked' = FALSE
       \/ exit # 0 /\ UNCHANGED <<firmware, locked>>

-----------------------------------------------------------------------------
(* _validate_hex, before any pyocd command is built.                       *)
Validate ==
    /\ at = "validate"
    /\ at' = IF hexValid THEN "flash" ELSE "returned"
    /\ rc' = IF hexValid THEN rc ELSE 1
    /\ UNCHANGED <<hexValid, output, attempts, erase, told>>
    /\ UNCHANGED deviceVars

(* Fault: an unrecognised failure is taken for a lock.                     *)
AssumeLocked(exit, sigs) == IF exit = 0 THEN "reset" ELSE "erase"

(* Where a flash that is not worth another blind try leads: on to reset,   *)
(* to the mass erase if it looks locked, or out.                           *)
Decided(exit, sigs) ==
    IF exit = 0 THEN "reset" ELSE IF "locked" \in sigs THEN "erase" ELSE "returned"

(* The first flash: a transient-looking failure is retried before anything *)
(* else is decided, also if it looks locked as well.                       *)
Flash ==
    /\ at = "flash"
    /\ \E exit \in {0, 1} :
          /\ FlashedOnce(exit)
          /\ rc' = exit
          /\ at' = IF exit # 0 /\ "transient" \in output'
                   THEN "retry" ELSE Decided(exit, output')
    /\ UNCHANGED <<hexValid, erase, told>>

(* Fault: the retry loops for as long as the failure looks transient.      *)
RetryForever ==
    /\ at = "retry"
    /\ \E exit \in {0, 1} :
          /\ FlashedOnce(exit)
          /\ rc' = exit
          /\ at' = IF exit # 0 /\ "transient" \in output'
                   THEN "retry" ELSE Decided(exit, output')
    /\ UNCHANGED <<hexValid, erase, told>>

(* The one blind retry; only its own output decides what follows.          *)
Retry ==
    /\ at = "retry"
    /\ \E exit \in {0, 1} :
          /\ FlashedOnce(exit)
          /\ rc' = exit
          /\ at' = Decided(exit, output')
    /\ UNCHANGED <<hexValid, erase, told>>

(* Fault: the exit code of the mass erase is not looked at.                *)
EraseUnchecked ==
    /\ at = "erase"
    /\ \E exit \in {0, 1} :
          /\ MassErased(exit)
          /\ erase' = IF exit = 0 THEN "ok" ELSE "failed"
          /\ rc' = exit
          /\ at' = "reset"
    /\ UNCHANGED <<hexValid, told>>

(* A failed erase ends the flash with the erase's exit code.               *)
Erase ==
    /\ at = "erase"
    /\ \E exit \in {0, 1} :
          /\ MassErased(exit)
          /\ erase' = IF exit = 0 THEN "ok" ELSE "failed"
          /\ rc' = exit
          /\ at' = IF exit = 0 THEN "reflash" ELSE "returned"
    /\ UNCHANGED <<hexValid, told>>

(* Fault: the failure after an erase takes the ordinary way out.           *)
ReflashUntold ==
    /\ at = "reflash"
    /\ \E exit \in {0, 1} :
          /\ FlashedOnce(exit)
          /\ rc' = exit
          /\ at' = IF exit = 0 THEN "reset" ELSE "returned"
    /\ UNCHANGED <<hexValid, erase, told>>

(* The flash after the erase is not retried, whatever its output.          *)
Reflash ==
    /\ at = "reflash"
    /\ \E exit \in {0, 1} :
          /\ FlashedOnce(exit)
          /\ rc' = exit
          /\ told' = (exit # 0)
          /\ at' = IF exit = 0 THEN "reset" ELSE "returned"
    /\ UNCHANGED <<hexValid, erase>>

(* Its exit code is flash_hex's: a board that was flashed but could not be *)
(* reset counts as a failure.                                              *)
Reset ==
    /\ at = "reset"
    /\ \E exit \in {0, 1} : rc' = exit /\ restarted' = (exit = 0)
    /\ at' = "returned"
    /\ UNCHANGED <<hexValid, output, attempts, erase, firmware, locked, told>>

Returned == at = "returned" /\ UNCHANGED vars

Next == Validate \/ Flash \/ Retry \/ Erase \/ Reflash \/ Reset \/ Returned

Spec == Init /\ [][Next]_vars

-----------------------------------------------------------------------------
(* "success returns the reset return code": 0 is returned only for a board *)
(* that runs the new firmware, on every path through retry and recovery.   *)
SuccessIsReal ==
    (at = "returned" /\ rc = 0) => (firmware = "new" /\ restarted /\ ~locked)

(* A working board loses its firmware to a mass erase only if the latest   *)
(* flash of it failed with a lock signature, and never twice: an           *)
(* unrecognised or a merely transient failure erases nothing               *)
(* (flash.py:97-103).                                                      *)
ErasesOnlyLocked ==
    [][ (erase' # erase) => /\ erase = "none"
                            /\ rc # 0 /\ "locked" \in output
                            /\ attempts \in {1, 2} ]_vars

(* "reported explicitly and unmissably" (flash.py:212-218): a board that   *)
(* this call erased and left without the new firmware is told of, whatever *)
(* the retries did before. It is told of no board whose old firmware this  *)
(* call has not erased, and of none that flash_hex calls flashed.          *)
BlankIsTold ==
    at = "returned" =>
        /\ erase = "ok" /\ firmware # "new" => told
        /\ told => erase = "ok" /\ firmware # "old" /\ rc # 0
=============================================================================
