--------------------------- MODULE FlashHexProofs ---------------------------
(***************************************************************************)
(* Proofs about FlashHex: what flash_hex may do to a board and say of it,  *)
(* for every output pyocd may produce.                                     *)
(*                                                                         *)
(* Progress records what is known at each point of the function; the       *)
(* properties are about its end, or about one step, and follow from it.    *)
(***************************************************************************)
EXTENDS FlashHex, TLAPS

Progress ==
    /\ at \in {"validate", "flash"} => attempts = 0
    /\ at = "retry" => attempts = 1
    /\ at \in {"validate", "flash", "retry", "erase"} => erase = "none"
    /\ at = "erase" => attempts \in {1, 2} /\ rc # 0 /\ "locked" \in output
    /\ at = "reflash" => attempts \in {1, 2} /\ erase = "ok" /\ firmware = "blank"
    /\ at = "reset" => firmware = "new" /\ ~locked
    /\ at # "returned" => ~told

IInv == TypeOK /\ Progress /\ SuccessIsReal /\ BlankIsTold

LEMMA IInvInit == Init => IInv
<1> SUFFICES ASSUME Init PROVE IInv
    OBVIOUS
<1> USE DEF Init
<1>1. TypeOK
  <2>1. output \in SUBSET Signatures  OBVIOUS
  <2>2. hexValid \in BOOLEAN /\ locked \in BOOLEAN /\ restarted \in BOOLEAN /\ told \in BOOLEAN
    OBVIOUS
  <2> QED BY <2>1, <2>2 DEF TypeOK, MaxAttempts
<1>2. Progress       BY DEF Progress
<1>3. SuccessIsReal  BY DEF SuccessIsReal
<1>4. BlankIsTold    BY DEF BlankIsTold
<1> QED BY <1>1, <1>2, <1>3, <1>4 DEF IInv

(* A flash that succeeds leaves the new firmware on an unlocked chip.      *)
LEMMA FlashedNew ==
    ASSUME FlashedOnce(0) PROVE firmware' = "new" /\ locked' = locked /\ ~locked
BY DEF FlashedOnce

LEMMA FlashedTypes ==
    ASSUME TypeOK, attempts < MaxAttempts, NEW exit, FlashedOnce(exit)
    PROVE  /\ attempts' \in 0..MaxAttempts
           /\ output' \in SUBSET Signatures
           /\ firmware' \in {"old", "new", "torn", "blank"}
           /\ locked' \in BOOLEAN
           /\ restarted' \in BOOLEAN
<1>1. attempts' \in 0..MaxAttempts
  BY DEF TypeOK, FlashedOnce, MaxAttempts
<1>2. output' \in SUBSET Signatures /\ firmware' \in {"old", "new", "torn", "blank"}
  BY DEF TypeOK, FlashedOnce
<1>3. locked' \in BOOLEAN /\ restarted' \in BOOLEAN
  BY DEF TypeOK, FlashedOnce
<1> QED BY <1>1, <1>2, <1>3

LEMMA IInvStep == IInv /\ [Next]_vars => IInv'
<1> SUFFICES ASSUME IInv, [Next]_vars PROVE IInv'
    OBVIOUS
<1> USE DEF IInv, TypeOK, Progress, SuccessIsReal, BlankIsTold, Signatures, MaxAttempts
<1>1. CASE Validate
  BY <1>1 DEF Validate, deviceVars
<1>2. CASE Flash
  <2>1. PICK exit \in {0, 1} :
            /\ FlashedOnce(exit) /\ rc' = exit
            /\ at' = IF exit # 0 /\ "transient" \in output'
                     THEN "retry" ELSE Decided(exit, output')
    BY <1>2 DEF Flash
  <2>2. UNCHANGED <<hexValid, erase, told>>
    BY <1>2 DEF Flash
  <2>3. TypeOK'
    <3>1. at' \in {"retry", "reset", "erase", "returned"}
      BY <2>1 DEF Decided
    <3>2. attempts < MaxAttempts
      BY <1>2 DEF Flash
    <3> QED BY <2>1, <2>2, <3>1, <3>2, FlashedTypes
  <2>4. Progress'
    BY <1>2, <2>1, <2>2 DEF FlashedOnce, Decided, Flash
  <2>5. SuccessIsReal' /\ BlankIsTold'
    BY <1>2, <2>1, <2>2 DEF FlashedOnce, Decided, Flash
  <2> QED BY <2>3, <2>4, <2>5
<1>3. CASE Retry
  <2>1. PICK exit \in {0, 1} :
            FlashedOnce(exit) /\ rc' = exit /\ at' = Decided(exit, output')
    BY <1>3 DEF Retry
  <2>2. UNCHANGED <<hexValid, erase, told>>
    BY <1>3 DEF Retry
  <2>3. TypeOK'
    <3>1. at' \in {"reset", "erase", "returned"}
      BY <2>1 DEF Decided
    <3>2. attempts < MaxAttempts
      BY <1>3 DEF Retry
    <3> QED BY <2>1, <2>2, <3>1, <3>2, FlashedTypes
  <2>4. Progress'
    BY <1>3, <2>1, <2>2 DEF FlashedOnce, Decided, Retry
  <2>5. SuccessIsReal' /\ BlankIsTold'
    BY <1>3, <2>1, <2>2 DEF FlashedOnce, Decided, Retry
  <2> QED BY <2>3, <2>4, <2>5
<1>4. CASE Erase
  BY <1>4 DEF Erase, MassErased
<1>5. CASE Reflash
  <2>1. PICK exit \in {0, 1} :
            /\ FlashedOnce(exit) /\ rc' = exit /\ told' = (exit # 0)
            /\ at' = IF exit = 0 THEN "reset" ELSE "returned"
    BY <1>5 DEF Reflash
  <2>2. firmware' # "old"
    BY <2>1, <1>5 DEF FlashedOnce, Reflash
  <2>3. UNCHANGED <<hexValid, erase>>
    BY <1>5 DEF Reflash
  <2>4. TypeOK'
    <3>1. at' \in {"reset", "returned"} /\ told' \in BOOLEAN
      BY <2>1
    <3>2. attempts < MaxAttempts
      BY <1>5 DEF Reflash
    <3> QED BY <2>1, <2>3, <3>1, <3>2, FlashedTypes
  <2>5. Progress'
    BY <1>5, <2>1, <2>3 DEF FlashedOnce, Reflash
  <2>6. SuccessIsReal' /\ BlankIsTold'
    BY <1>5, <2>1, <2>2, <2>3 DEF FlashedOnce, Reflash
  <2> QED BY <2>4, <2>5, <2>6
<1>6. CASE Reset
  BY <1>6 DEF Reset
<1>7. CASE UNCHANGED vars
  BY <1>7 DEF vars
<1> QED BY <1>1, <1>2, <1>3, <1>4, <1>5, <1>6, <1>7 DEF Next, Returned

LEMMA Invariance == Spec => []IInv
BY IInvInit, IInvStep, PTL DEF Spec

(* Every variable keeps its type; in particular pyocd flash runs at most   *)
(* three times.                                                            *)
THEOREM TypeCorrect == Spec => []TypeOK
BY Invariance, PTL DEF IInv

(* An exit code of 0 means the new firmware runs. *)
THEOREM SuccessMeansFlashed == Spec => []SuccessIsReal
BY Invariance, PTL DEF IInv

(* A board that flash_hex erased and left without the new firmware is told *)
(* of in the log; no board is that it has not erased, or calls flashed.    *)
THEOREM BlankBoardsAreTold == Spec => []BlankIsTold
BY Invariance, PTL DEF IInv

(* The only mass erase is the one after a flash that failed as locked. *)
THEOREM EraseIsJustified == Spec => ErasesOnlyLocked
<1>1. IInv /\ [Next]_vars =>
        [(erase' # erase) => /\ erase = "none"
                             /\ rc # 0 /\ "locked" \in output
                             /\ attempts \in {1, 2}]_vars
  BY DEF IInv, Progress, Next, Validate, Flash, Retry, Erase, Reflash, Reset, Returned, vars
<1> QED BY Invariance, <1>1, PTL DEF Spec, ErasesOnlyLocked
=============================================================================
