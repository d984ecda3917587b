------------------------ MODULE BoardSessionsProofs ------------------------
(***************************************************************************)
(* Proofs about BoardSessions, for every set of micro:bits, Board objects  *)
(* and connections.                                                        *)
(*                                                                         *)
(* Most steps move one handler thread and nothing else. Quiet describes    *)
(* what the invariants need to know of such a step, and LocalIsQuiet       *)
(* establishes it once, so that each invariant has one case for all of     *)
(* them and one case per action that touches shared state.                 *)
(***************************************************************************)
EXTENDS BoardSessions, TLAPS

InsidePoints == SerialInside \cup FlashInside
Displacing(f) == pc[f] \in {"preempt", "join"}

Quiet(s) ==
    /\ UNCHANGED <<on, stopped, previous, abandoned, occupant, sup,
                   status, live, listening>>
    /\ \E from, to \in SerialPoints \cup FlashPoints :
          /\ pc[s] = from
          /\ pc' = [pc EXCEPT ![s] = to]
          /\ s \in Serials => to \in SerialPoints
          /\ s \in Flashes => to \in FlashPoints
          /\ from # "idle" /\ to # "idle"
          /\ from \in InsidePoints <=> to \in InsidePoints
          /\ from \in {"close", "done"} => to \in {"close", "done"}
          /\ from \notin {"preempt", "join"} /\ to \notin {"preempt", "join"}

(* A step of serve_serial or serve_flash that touches nothing shared       *)
(* neither enters nor leaves the part between claim and release.           *)
LEMMA LocalIsQuiet ==
    /\ \A s \in Serials : SerialAlone(s) => Quiet(s)
    /\ \A f \in Flashes : FlashAlone(f) => Quiet(f)
<1>1. ASSUME NEW s \in Serials, SerialAlone(s) PROVE Quiet(s)
  <2> USE SessionsAssumption DEF Sessions, Quiet, Local, Goto, boardVars, InsidePoints,
          SerialInside, FlashInside, SerialPoints, FlashPoints
  <2>1. CASE SerialAuthenticated(s)  BY <2>1 DEF SerialAuthenticated
  <2>2. CASE AuthRefused(s)          BY <2>2 DEF AuthRefused
  <2>3. CASE SerialBusy(s)           BY <2>3 DEF SerialBusy
  <2>4. CASE PortOpened(s)           BY <2>4 DEF PortOpened
  <2>5. CASE PortFailed(s)           BY <2>5 DEF PortFailed
  <2>6. CASE RelayStopped(s)         BY <2>6 DEF RelayStopped
  <2>7. CASE RelayEnded(s)           BY <2>7 DEF RelayEnded
  <2>8. CASE PortClosed(s)           BY <2>8 DEF PortClosed
  <2>9. CASE Finish(s)               BY <2>9 DEF Finish
  <2> QED BY <1>1, <2>1, <2>2, <2>3, <2>4, <2>5, <2>6, <2>7, <2>8, <2>9 DEF SerialAlone
<1>2. ASSUME NEW f \in Flashes, FlashAlone(f) PROVE Quiet(f)
  <2> USE SessionsAssumption DEF Sessions, Quiet, Local, Goto, boardVars, InsidePoints,
          SerialInside, FlashInside, SerialPoints, FlashPoints
  <2>1. CASE FlashAuthenticated(f)   BY <2>1 DEF FlashAuthenticated
  <2>2. CASE AuthRefused(f)          BY <2>2 DEF AuthRefused
  <2>3. CASE FlashRequested(f)       BY <2>3 DEF FlashRequested
  <2>4. CASE CommandDeclined(f)      BY <2>4 DEF CommandDeclined
  <2>5. CASE FlashBusy(f)            BY <2>5 DEF FlashBusy
  <2>6. CASE PayloadReceived(f)      BY <2>6 DEF PayloadReceived
  <2>7. CASE PayloadShort(f)         BY <2>7 DEF PayloadShort
  <2>8. CASE PayloadRejected(f)      BY <2>8 DEF PayloadRejected
  <2>9. CASE PyocdStarted(f)         BY <2>9 DEF PyocdStarted
  <2>10. CASE PyocdEnded(f)          BY <2>10 DEF PyocdEnded
  <2>11. CASE Finish(f)              BY <2>11 DEF Finish
  <2> QED BY <1>2, <2>1, <2>2, <2>3, <2>4, <2>5, <2>6, <2>7, <2>8, <2>9, <2>10, <2>11
          DEF FlashAlone
<1> QED BY <1>1, <1>2

(* Next, one disjunct per kind of step. *)
LEMMA NextCases ==
    ASSUME Next
    PROVE  \/ \E s \in Sessions : Quiet(s)
           \/ \E s \in Sessions, b \in Boards : Accept(s, b)
           \/ \E s \in Sessions : Release(s)
           \/ \E s \in Serials : ClaimSerial(s)
           \/ \E f \in Flashes : ClaimFlash(f)
           \/ \E f \in Flashes : Preempt(f)
           \/ \E f \in Flashes : JoinDisplaced(f)
           \/ \E b \in Boards : Arrive(b)
           \/ \E b \in Boards : Depart(b)
           \/ TakeOccupant
           \/ TerminateOccupant
           \/ JoinOccupant
           \/ Withdraw
           \/ UNCHANGED vars
BY LocalIsQuiet DEF Next, SerialStep, FlashStep, Departing, Quiescent, Sessions

-----------------------------------------------------------------------------
(* Types.                                                                  *)

(* What TypeOK needs beyond itself: a thread that may claim knows its      *)
(* board, a flash that is preempting knows whom, and so does the           *)
(* Supervisor in the middle of a departure.                                *)
Bound ==
    /\ \A s \in Sessions : IF pc[s] = "idle" THEN on[s] = None ELSE on[s] \in Boards
    /\ \A f \in Flashes : Displacing(f) => previous[f] \in Serials
    /\ sup.at # "idle" => sup.board \in Boards
    /\ sup.at \in {"terminate", "join"} => sup.victim \in Sessions

TypeInv == TypeOK /\ Bound

LEMMA TypeInit == Init => TypeInv
BY SessionsAssumption
   DEF Init, TypeInv, TypeOK, Bound, Sessions, SupIdle, SerialPoints, FlashPoints, Displacing

LEMMA TypeStep == TypeInv /\ [Next]_vars => TypeInv'
<1> SUFFICES ASSUME TypeInv, [Next]_vars PROVE TypeInv'
    OBVIOUS
<1> USE SessionsAssumption DEF TypeInv, TypeOK, Bound, Sessions, Displacing
<1>1. CASE UNCHANGED vars
  BY <1>1 DEF vars
<1>2. CASE \E s \in Sessions : Quiet(s)
  BY <1>2 DEF Quiet
<1>3. CASE \E s \in Sessions, b \in Boards : Accept(s, b)
  BY <1>3 DEF Accept, Goto, boardVars, SerialPoints, FlashPoints
<1>4. CASE \E s \in Sessions : Release(s)
  BY <1>4 DEF Release, Goto, boardVars, SerialPoints, FlashPoints
<1>5. CASE \E s \in Serials : ClaimSerial(s)
  BY <1>5 DEF ClaimSerial, Goto, boardVars, SerialPoints, SerialInside
<1>6. CASE \E f \in Flashes : ClaimFlash(f)
  BY <1>6 DEF ClaimFlash, Goto, boardVars, FlashPoints, FlashInside
<1>7. CASE \E f \in Flashes : Preempt(f)
  BY <1>7 DEF Preempt, Terminated, Goto, boardVars, FlashPoints, FlashInside
<1>8. CASE \E f \in Flashes : JoinDisplaced(f)
  BY <1>8 DEF JoinDisplaced, Joined, Goto, boardVars, FlashPoints, FlashInside
<1>9. CASE \E b \in Boards : Arrive(b)
  BY <1>9 DEF Arrive, SupIdle, handlerVars
<1>10. CASE \E b \in Boards : Depart(b)
  BY <1>10 DEF Depart, SupIdle, handlerVars
<1>11. CASE TakeOccupant
  BY <1>11 DEF TakeOccupant, handlerVars, boardVars
<1>12. CASE TerminateOccupant
  BY <1>12 DEF TerminateOccupant, Terminated, boardVars
<1>13. CASE JoinOccupant
  BY <1>13 DEF JoinOccupant, Joined, boardVars
<1>14. CASE Withdraw
  BY <1>14 DEF Withdraw, SupIdle, handlerVars
<1> QED
  BY NextCases, <1>1, <1>2, <1>3, <1>4, <1>5, <1>6, <1>7, <1>8, <1>9, <1>10, <1>11,
     <1>12, <1>13, <1>14

(* Every variable of the session model keeps its type, in every daemon. *)
THEOREM TypeCorrect == Spec => []TypeOK
<1>1. TypeInv => TypeOK
  BY DEF TypeInv
<1> QED BY TypeInit, TypeStep, <1>1, PTL DEF Spec

-----------------------------------------------------------------------------
(* Mutual exclusion.                                                       *)
(*                                                                         *)
(* The invariants the runs check are not inductive. A flash inside its     *)
(* claim is the occupant as long as its board has not departed (FlashOwns) *)
(* only because take_occupant runs on departed boards alone (SupAware).    *)
(* A serial session inside its claim is the occupant, or is waited for by  *)
(* the flash that displaced it, or was given up on (SerialSettled).        *)

SupAware ==
    /\ sup.at # "idle" => status[sup.board] = "departed"
    /\ \A b \in Boards : live[UidOf[b]] = b => status[b] = "connected"

FlashOwns ==
    \A f \in Flashes : (Inside(f) /\ status[on[f]] # "departed") => occupant[on[f]] = f

SerialSettled ==
    \A s \in Serials : (Inside(s) /\ status[on[s]] # "departed") =>
        \/ occupant[on[s]] = s
        \/ s \in abandoned
        \/ \E f \in Flashes : /\ on[f] = on[s] /\ occupant[on[s]] = f
                              /\ Displacing(f) /\ previous[f] = s

IInv == /\ TypeInv
        /\ NoLeakedOccupancy
        /\ DisplacedIsTerminated
        /\ SupAware
        /\ FlashOwns
        /\ SerialSettled

LEMMA IInvInit == Init => IInv
BY TypeInit, SessionsAssumption
   DEF Init, IInv, NoLeakedOccupancy, DisplacedIsTerminated, SupAware, FlashOwns,
       SerialSettled, Inside, SerialInside, FlashInside, SupIdle, Sessions

LEMMA SupAwareStep == IInv /\ [Next]_vars => SupAware'
<1> SUFFICES ASSUME IInv, [Next]_vars PROVE SupAware'
    OBVIOUS
<1> USE SessionsAssumption DEF IInv, TypeInv, TypeOK, Bound, SupAware, SupIdle
<1>1. CASE UNCHANGED <<status, live, sup>>
  BY <1>1
<1>2. CASE \E b \in Boards : Arrive(b)
  BY <1>2 DEF Arrive
<1>3. CASE \E b \in Boards : Depart(b)
  BY <1>3 DEF Depart
<1>4. CASE TakeOccupant \/ TerminateOccupant \/ JoinOccupant
  <2>1. sup'.board = sup.board
    <3>1. CASE TakeOccupant
      BY <3>1 DEF TakeOccupant
    <3>2. CASE TerminateOccupant
      BY <3>2 DEF TerminateOccupant
    <3>3. CASE JoinOccupant
      BY <3>3 DEF JoinOccupant
    <3> QED  BY <1>4, <3>1, <3>2, <3>3
  <2>2. UNCHANGED boardVars /\ sup.at # "idle"
    BY <1>4 DEF TakeOccupant, TerminateOccupant, JoinOccupant
  <2> QED  BY <2>1, <2>2 DEF boardVars
<1>6. CASE Withdraw
  BY <1>6 DEF Withdraw
<1>5. CASE \/ \E s \in Sessions : Quiet(s) \/ Release(s) \/ \E b \in Boards : Accept(s, b)
           \/ \E s \in Serials : ClaimSerial(s)
           \/ \E f \in Flashes : ClaimFlash(f) \/ Preempt(f) \/ JoinDisplaced(f)
  BY <1>1, <1>5
     DEF Quiet, Accept, Release, ClaimSerial, ClaimFlash, Preempt, JoinDisplaced, boardVars
<1> QED
  BY NextCases, <1>1, <1>2, <1>3, <1>4, <1>5, <1>6 DEF vars

LEMMA NoLeakedStep == IInv /\ [Next]_vars => NoLeakedOccupancy'
<1> SUFFICES ASSUME IInv, [Next]_vars PROVE NoLeakedOccupancy'
    OBVIOUS
<1> USE SessionsAssumption DEF IInv, TypeInv, TypeOK, Bound, NoLeakedOccupancy, Inside, Sessions
<1>1. CASE UNCHANGED <<pc, on, occupant>>
  BY <1>1
<1>2. CASE \E s \in Sessions : Quiet(s)
  BY <1>2 DEF Quiet, InsidePoints
<1>3. CASE \E s \in Sessions, b \in Boards : Accept(s, b)
  BY <1>3 DEF Accept, Goto, SerialInside, FlashInside
<1>4. CASE \E s \in Sessions : Release(s)
  BY <1>4 DEF Release, Goto
<1>5. CASE \E s \in Serials : ClaimSerial(s)
  BY <1>5 DEF ClaimSerial, Goto, SerialInside
<1>6. CASE \E f \in Flashes : ClaimFlash(f)
  BY <1>6 DEF ClaimFlash, Goto, FlashInside
<1>7. CASE \E f \in Flashes : Preempt(f) \/ JoinDisplaced(f)
  BY <1>7 DEF Preempt, JoinDisplaced, Goto, FlashInside
<1>8. CASE TakeOccupant
  BY <1>8 DEF TakeOccupant, handlerVars
<1> QED
  BY NextCases, <1>1, <1>2, <1>3, <1>4, <1>5, <1>6, <1>7, <1>8
     DEF Arrive, Depart, TerminateOccupant, JoinOccupant, Withdraw, vars, handlerVars

LEMMA DisplacedStep == IInv /\ [Next]_vars => DisplacedIsTerminated'
<1> SUFFICES ASSUME IInv, [Next]_vars PROVE DisplacedIsTerminated'
    OBVIOUS
<1> USE SessionsAssumption
    DEF IInv, TypeInv, TypeOK, Bound, DisplacedIsTerminated, Inside, Sessions
<1>1. CASE UNCHANGED vars
  BY <1>1 DEF vars
<1>2. CASE \E s \in Sessions : Quiet(s)
  BY <1>2 DEF Quiet, InsidePoints
<1>3. CASE \E s \in Sessions, b \in Boards : Accept(s, b)
  BY <1>3 DEF Accept, Goto, SerialInside, FlashInside
<1>4. CASE \E s \in Sessions : Release(s)
  BY <1>4 DEF Release, Goto, SerialInside, FlashInside
<1>5. CASE \E s \in Serials : ClaimSerial(s)
  BY <1>5 DEF ClaimSerial, Goto, SerialInside
<1>6. CASE \E f \in Flashes : ClaimFlash(f)
  BY <1>6 DEF ClaimFlash, Goto, FlashInside
<1>7. CASE \E f \in Flashes : Preempt(f)
  BY <1>7 DEF Preempt, Terminated, Goto, FlashInside
<1>8. CASE \E f \in Flashes : JoinDisplaced(f)
  BY <1>8 DEF JoinDisplaced, Goto, FlashInside
<1>9. CASE \E b \in Boards : Arrive(b) \/ Depart(b)
  BY <1>9 DEF Arrive, Depart, SupIdle, handlerVars
<1>10. CASE TakeOccupant
  BY <1>10 DEF TakeOccupant, handlerVars
<1>11. CASE TerminateOccupant
  BY <1>11 DEF TerminateOccupant, Terminated
<1>12. CASE JoinOccupant \/ Withdraw
  BY <1>12 DEF JoinOccupant, Withdraw, handlerVars, SupIdle
<1> QED
  BY NextCases, <1>1, <1>2, <1>3, <1>4, <1>5, <1>6, <1>7, <1>8, <1>9, <1>10, <1>11, <1>12

LEMMA FlashOwnsStep == IInv /\ [Next]_vars => FlashOwns'
<1> SUFFICES ASSUME IInv, [Next]_vars PROVE FlashOwns'
    OBVIOUS
<1> USE SessionsAssumption DEF IInv, TypeInv, TypeOK, Bound, FlashOwns, Inside, Sessions
<1>1. CASE UNCHANGED <<pc, on, occupant, status>>
  BY <1>1
<1>2. CASE \E s \in Sessions : Quiet(s)
  BY <1>2 DEF Quiet, InsidePoints
<1>3. CASE \E s \in Sessions, b \in Boards : Accept(s, b)
  BY <1>3 DEF Accept, Goto, SerialInside, FlashInside, boardVars
<1>4. CASE \E s \in Sessions : Release(s)
  BY <1>4 DEF Release, Goto, SerialInside, FlashInside, boardVars
<1>5. CASE \E s \in Serials : ClaimSerial(s)
  BY <1>5 DEF ClaimSerial, Goto, boardVars
<1>6. CASE \E f \in Flashes : ClaimFlash(f)
  BY <1>6 DEF ClaimFlash, Goto, boardVars
<1>7. CASE \E f \in Flashes : Preempt(f) \/ JoinDisplaced(f)
  BY <1>7 DEF Preempt, JoinDisplaced, Goto, FlashInside, boardVars
<1>8. CASE \E b \in Boards : Arrive(b) \/ Depart(b)
  BY <1>8 DEF Arrive, Depart, handlerVars, SerialInside, FlashInside
<1>9. CASE TakeOccupant
  BY <1>9 DEF TakeOccupant, handlerVars, boardVars, SupAware
<1> QED
  BY NextCases, <1>1, <1>2, <1>3, <1>4, <1>5, <1>6, <1>7, <1>8, <1>9
     DEF TerminateOccupant, JoinOccupant, Withdraw, vars, handlerVars, boardVars

LEMMA SerialSettledStep == IInv /\ [Next]_vars => SerialSettled'
<1> SUFFICES ASSUME IInv, [Next]_vars PROVE SerialSettled'
    OBVIOUS
<1> USE SessionsAssumption
    DEF IInv, TypeInv, TypeOK, Bound, SerialSettled, Displacing, Inside, Sessions
<1>1. CASE UNCHANGED <<pc, on, previous, abandoned, occupant, status>>
  BY <1>1
<1>2. CASE \E s \in Sessions : Quiet(s)
  BY <1>2 DEF Quiet, InsidePoints
<1>3. CASE \E s \in Sessions, b \in Boards : Accept(s, b)
  BY <1>3 DEF Accept, Goto, SerialInside, FlashInside, boardVars
<1>4. CASE \E s \in Sessions : Release(s)
  BY <1>4 DEF Release, Goto, SerialInside, FlashInside, boardVars
<1>5. CASE \E s \in Serials : ClaimSerial(s)
  BY <1>5 DEF ClaimSerial, Goto, boardVars
<1>6. CASE \E f \in Flashes : ClaimFlash(f)
  BY <1>6 DEF ClaimFlash, Goto, boardVars
<1>7. CASE \E f \in Flashes : Preempt(f)
  BY <1>7 DEF Preempt, Goto, boardVars
<1>8. CASE \E f \in Flashes : JoinDisplaced(f)
  BY <1>8 DEF JoinDisplaced, Joined, Goto, boardVars, SerialInside, FlashInside
<1>9. CASE \E b \in Boards : Arrive(b) \/ Depart(b)
  BY <1>9 DEF Arrive, Depart, handlerVars, SerialInside, FlashInside
<1>10. CASE TakeOccupant
  BY <1>10 DEF TakeOccupant, handlerVars, boardVars, SupAware
<1>11. CASE JoinOccupant
  BY <1>11 DEF JoinOccupant, Joined, boardVars
<1> QED
  BY NextCases, <1>1, <1>2, <1>3, <1>4, <1>5, <1>6, <1>7, <1>8, <1>9, <1>10, <1>11
     DEF TerminateOccupant, Withdraw, vars, handlerVars, boardVars

LEMMA IInvStep == IInv /\ [Next]_vars => IInv'
<1> SUFFICES ASSUME IInv, [Next]_vars PROVE IInv'
    OBVIOUS
<1> QED
  BY TypeStep, NoLeakedStep, DisplacedStep, SupAwareStep, FlashOwnsStep, SerialSettledStep
     DEF IInv

LEMMA Invariance == Spec => []IInv
BY IInvInit, IInvStep, PTL DEF Spec

(* A board never stays busy on behalf of a handler that is gone. *)
THEOREM OccupancyNeverLeaks == Spec => []NoLeakedOccupancy
<1>1. IInv => NoLeakedOccupancy
  BY DEF IInv
<1> QED BY Invariance, <1>1, PTL

(* Whoever is displaced, by a flash or by a departure, is terminated. *)
THEOREM DisplacedAreTerminated == Spec => []DisplacedIsTerminated
<1>1. IInv => DisplacedIsTerminated
  BY DEF IInv
<1> QED BY Invariance, <1>1, PTL

(* Two flashes never run on one connected Board object. *)
THEOREM FlashesExclude == Spec => []OneFlashPerBoard
<1>1. IInv => OneFlashPerBoard
  BY DEF IInv, FlashOwns, OneFlashPerBoard, Inside
<1> QED BY Invariance, <1>1, PTL

(* pyocd never runs under an open serial port, unless the port's thread    *)
(* outlived the bounded join.                                              *)
THEOREM PortIsQuiet == Spec => []PortQuietDuringFlash
<1>1. IInv => PortQuietDuringFlash
  <2> SUFFICES ASSUME IInv, NEW f \in Flashes, NEW s \in Serials,
                      pc[f] \in {"payload", "verify", "pyocd"}, on[s] = on[f],
                      status[on[f]] = "connected", PortHeld(s)
               PROVE  s \in abandoned
      BY DEF PortQuietDuringFlash
  <2>1. occupant[on[f]] = f
    BY DEF IInv, FlashOwns, Inside, FlashInside
  <2>2. f # s /\ ~Displacing(f)
    BY SessionsAssumption DEF Displacing
  <2> QED
    BY <2>1, <2>2 DEF IInv, SerialSettled, Inside, PortHeld, SerialInside
<1> QED BY Invariance, <1>1, PTL

-----------------------------------------------------------------------------
(* Refinement: what the threads do is what BoardOccupancy allows.          *)

StandingMap == [s \in Sessions |-> Standing(s)]

(* Writing back the value that is there changes nothing.                   *)
LEMMA SameValue ==
    ASSUME TypeOK, NEW b \in Boards, occupant[b] = None,
           occupant' = [occupant EXCEPT ![b] = None]
    PROVE  occupant' = occupant
BY DEF TypeOK

LEMMA RefineInit == Init => Occupancy!OccupancyInit
BY SessionsAssumption
   DEF Init, Occupancy!OccupancyInit, Occupancy!Sessions, Sessions, Standing, Inside,
       SerialInside, FlashInside

LEMMA RefineStep ==
    IInv /\ IInv' /\ [Next]_vars => [Occupancy!OccupancyNext]_(Occupancy!occupancyVars)
<1> SUFFICES ASSUME IInv, IInv', [Next]_vars
             PROVE  Occupancy!OccupancyNext \/ UNCHANGED <<occupant, StandingMap, on>>
    BY DEF Occupancy!occupancyVars, StandingMap
<1> DEFINE Stutter == UNCHANGED <<occupant, StandingMap, on>>
<1>a. Occupancy!Sessions = Sessions
  BY DEF Occupancy!Sessions, Sessions
<1>s. ASSUME UNCHANGED <<pc, occupant, on>> PROVE Stutter
  BY <1>s DEF StandingMap, Standing, Inside
<1> USE SessionsAssumption DEF IInv, TypeInv, TypeOK, Bound, Sessions
<1>1. CASE UNCHANGED vars
  BY <1>1, <1>s DEF vars
<1>2. ASSUME NEW s \in Sessions, Quiet(s)
      PROVE  Occupancy!TurnAway(s) \/ Stutter
  <2>1. PICK from, to \in SerialPoints \cup FlashPoints :
            /\ pc[s] = from
            /\ pc' = [pc EXCEPT ![s] = to]
            /\ from \in InsidePoints <=> to \in InsidePoints
            /\ from \in {"close", "done"} => to \in {"close", "done"}
    BY <1>2 DEF Quiet
  <2>2. UNCHANGED <<occupant, on>>
    BY <1>2 DEF Quiet
  <2>3. \A t \in Sessions : t # s => Standing(t)' = Standing(t)
    BY <2>1, <2>2 DEF Standing, Inside
  <2>4. CASE Standing(s)' = Standing(s)
    BY <2>2, <2>3, <2>4 DEF StandingMap
  <2>5. CASE Standing(s)' # Standing(s)
    <3>1. Standing(s) = "outside" /\ Standing(s)' = "left"
      BY <2>1, <2>2, <2>5 DEF Standing, Inside, InsidePoints
    <3>2. StandingMap' = [StandingMap EXCEPT ![s] = "left"]
      BY <2>3, <3>1 DEF StandingMap
    <3> QED BY <2>2, <3>1, <3>2 DEF Occupancy!TurnAway, StandingMap
  <2> QED BY <2>4, <2>5
<1>3. ASSUME NEW s \in Sessions, NEW b \in Boards, Accept(s, b)
      PROVE  Occupancy!Connect(s, b)
  <2>1. \A t \in Sessions : Standing(t)' = Standing(t)
    BY <1>3 DEF Accept, Goto, Standing, Inside, SerialInside, FlashInside
  <2>2. Standing(s) = "outside" /\ on[s] = None
    BY <1>3 DEF Accept, Goto, Standing, Inside, SerialInside, FlashInside
  <2> QED BY <1>3, <2>1, <2>2 DEF Occupancy!Connect, StandingMap, Accept
<1>4. ASSUME NEW s \in Sessions, Release(s)
      PROVE  Occupancy!LeaveDisplaced(s) \/ Occupancy!LeaveHolder(s, on[s])
  <2>1. pc[s] = "release" /\ pc' = [pc EXCEPT ![s] = "close"] /\ on[s] \in Boards
    BY <1>4 DEF Release, Goto
  <2>2. \A t \in Sessions : t # s => Standing(t)' = Standing(t)
    BY <1>4, <2>1 DEF Release, Standing, Inside, SerialInside, FlashInside
  <2>3. Standing(s)' = "left"
    BY <1>4, <2>1 DEF Standing, Inside, SerialInside, FlashInside
  <2>4. StandingMap' = [StandingMap EXCEPT ![s] = "left"]
    BY <2>2, <2>3 DEF StandingMap
  <2>5. CASE occupant[on[s]] = s
    <3>1. Standing(s) = "holding"
      BY <2>1, <2>5 DEF Standing, Inside, SerialInside
    <3>2. occupant' = [occupant EXCEPT ![on[s]] = None]
      BY <1>4, <2>1, <2>5 DEF Release
    <3> QED BY <1>4, <2>4, <3>1, <3>2 DEF Occupancy!LeaveHolder, StandingMap, Release
  <2>6. CASE occupant[on[s]] # s
    <3>1. Standing(s) = "displaced"
      BY <2>1, <2>6 DEF Standing, Inside, SerialInside
    <3>2. occupant' = occupant
      BY <1>4, <2>1, <2>6 DEF Release
    <3> QED BY <1>4, <2>4, <3>1, <3>2 DEF Occupancy!LeaveDisplaced, StandingMap, Release
  <2> QED BY <2>5, <2>6
<1>5. ASSUME NEW s \in Serials, ClaimSerial(s)
      PROVE  Occupancy!TakeIdle(s, on[s])
  <2>1. /\ pc[s] = "claim" /\ pc' = [pc EXCEPT ![s] = "open"] /\ on[s] \in Boards
        /\ occupant[on[s]] = None /\ occupant' = [occupant EXCEPT ![on[s]] = s]
        /\ UNCHANGED on
    BY <1>5 DEF ClaimSerial, Goto
  <2>2. \A t \in Sessions : t # s => Standing(t)' = Standing(t)
    BY <2>1 DEF Standing, Inside
  <2>3. Standing(s) = "outside" /\ Standing(s)' = "holding"
    BY <2>1 DEF Standing, Inside, SerialInside, FlashInside
  <2>4. StandingMap' = [StandingMap EXCEPT ![s] = "holding"]
    BY <2>2, <2>3 DEF StandingMap
  <2> QED BY <2>1, <2>3, <2>4 DEF Occupancy!TakeIdle, StandingMap
<1>6. ASSUME NEW f \in Flashes, ClaimFlash(f)
      PROVE  Occupancy!TakeIdle(f, on[f]) \/ Occupancy!TakeOver(f, on[f])
  <2>1. PICK b \in Boards, v \in Serials \cup {None} :
            /\ b = on[f] /\ v = occupant[b] /\ pc[f] = "claim"
            /\ pc' = [pc EXCEPT ![f] = IF v = None THEN "payload" ELSE "preempt"]
            /\ occupant' = [occupant EXCEPT ![b] = f]
            /\ UNCHANGED on
    BY <1>6 DEF ClaimFlash, Goto
  <2>2. Standing(f) = "outside" /\ Standing(f)' = "holding"
    BY <2>1 DEF Standing, Inside, SerialInside, FlashInside
  <2>3. \A t \in Sessions : (t # f /\ t # v) => Standing(t)' = Standing(t)
    BY <2>1 DEF Standing, Inside
  <2>4. CASE v = None
    <3>1. \A t \in Sessions : t # f => Standing(t)' = Standing(t)
      BY <2>3, <2>4
    <3>2. StandingMap' = [StandingMap EXCEPT ![f] = "holding"]
      BY <2>2, <3>1 DEF StandingMap
    <3> QED BY <2>1, <2>2, <2>4, <3>2 DEF Occupancy!TakeIdle, StandingMap
  <2>5. CASE v # None
    <3>1. v \in Serials /\ v # f
      BY <2>5
    <3>2. Inside(v) /\ on[v] = b
      BY <2>1, <2>5 DEF NoLeakedOccupancy
    <3>3. Standing(v)' = "displaced"
      BY <2>1, <3>1, <3>2 DEF Standing, Inside
    <3>4. StandingMap' = [StandingMap EXCEPT ![f] = "holding", ![v] = "displaced"]
      BY <2>2, <2>3, <3>1, <3>3 DEF StandingMap
    <3> QED BY <2>1, <2>2, <3>1, <3>4 DEF Occupancy!TakeOver, StandingMap
  <2> QED BY <2>4, <2>5
<1>7. ASSUME NEW f \in Flashes, Preempt(f) \/ JoinDisplaced(f)
      PROVE  Stutter
  <2>1. \A t \in Sessions : Standing(t)' = Standing(t)
    BY <1>7 DEF Preempt, JoinDisplaced, Goto, Standing, Inside, FlashInside
  <2> QED BY <1>7, <2>1 DEF Preempt, JoinDisplaced, StandingMap
<1>8. CASE TakeOccupant
  <2>1. PICK b \in Boards, v \in Sessions \cup {None} :
            /\ v = occupant[b] /\ UNCHANGED <<pc, on>>
            /\ occupant' = [occupant EXCEPT ![b] = None]
    BY <1>8 DEF TakeOccupant, handlerVars
  <2>2. \A t \in Sessions : t # v => Standing(t)' = Standing(t)
    BY <2>1 DEF Standing, Inside
  <2>3. CASE v = None
    <3>1. occupant' = occupant
      BY <2>1, <2>3, SameValue
    <3>2. Stutter
      BY <1>s, <2>1, <3>1
    <3> QED BY <3>2
  <2>4. CASE v # None
    <3>1. Inside(v) /\ on[v] = b
      BY <2>1, <2>4 DEF NoLeakedOccupancy
    <3>2. Standing(v)' = "displaced"
      BY <2>1, <2>4, <3>1 DEF Standing, Inside
    <3>3. StandingMap' = [StandingMap EXCEPT ![v] = "displaced"]
      BY <2>2, <2>4, <3>2 DEF StandingMap
    <3>4. Occupancy!Evict(b)
      BY <2>1, <2>4, <3>3 DEF Occupancy!Evict, StandingMap
    <3> QED BY <2>1, <3>4 DEF Occupancy!OccupancyNext
  <2> QED BY <2>3, <2>4
<1>9. CASE \/ \E b \in Boards : Arrive(b) \/ Depart(b)
           \/ TerminateOccupant \/ JoinOccupant \/ Withdraw
  BY <1>9, <1>s DEF Arrive, Depart, TerminateOccupant, JoinOccupant, Withdraw, handlerVars
<1>10. ASSUME NEW s \in Sessions, pc[s] # "idle" PROVE on[s] \in Boards
  BY <1>10
<1> HIDE DEF Stutter, IInv, TypeInv, TypeOK, Bound, Sessions
<1>q2. CASE \E s \in Sessions : Quiet(s)
  BY <1>a, <1>2, <1>q2 DEF Occupancy!OccupancyNext, Stutter
<1>q3. CASE \E s \in Sessions, b \in Boards : Accept(s, b)
  BY <1>a, <1>3, <1>q3 DEF Occupancy!OccupancyNext
<1>q4. CASE \E s \in Sessions : Release(s)
  BY <1>a, <1>4, <1>10, <1>q4 DEF Occupancy!OccupancyNext, Release, Goto
<1>q5. CASE \E s \in Serials : ClaimSerial(s)
  BY <1>a, <1>5, <1>10, <1>q5 DEF Occupancy!OccupancyNext, ClaimSerial, Goto, Sessions
<1>q6. CASE \E f \in Flashes : ClaimFlash(f)
  BY <1>a, <1>6, <1>10, <1>q6 DEF Occupancy!OccupancyNext, ClaimFlash, Goto, Sessions
<1>q7. CASE \E f \in Flashes : Preempt(f) \/ JoinDisplaced(f)
  BY <1>7, <1>q7 DEF Stutter
<1> QED
  BY NextCases, <1>1, <1>q2, <1>q3, <1>q4, <1>q5, <1>q6, <1>q7, <1>8, <1>9 DEF Stutter

(* The daemon's handlers and Supervisor implement the abstract board: one  *)
(* holder at a time, a flash displaces serial sessions only, a displaced   *)
(* session's late release harms nobody.                                    *)
THEOREM Implements == Spec => ImplementsOccupancy
<1>1. IInv /\ IInv' /\ [Next]_vars => [Occupancy!OccupancyNext]_(Occupancy!occupancyVars)
  BY RefineStep
<1> QED
  BY RefineInit, <1>1, Invariance, PTL DEF Spec, ImplementsOccupancy, Occupancy!OccupancySpec
=============================================================================
