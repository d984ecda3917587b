---------------------------- MODULE BoardSessions ----------------------------
(***************************************************************************)
(* The daemon's session model (src/mbdeploy/server.py): every accepted     *)
(* connection runs serve_serial or serve_flash in a thread of its own, the *)
(* Supervisor's thread runs _on_departure, and they meet on Board.lock and *)
(* Board.occupant, on Session.terminate()/join(), and on the hardware.     *)
(*                                                                         *)
(* A thread's control point is pc[s]; an action is a stretch of code       *)
(* between two points where another thread can be noticed. Each method of  *)
(* Board holds the lock for its whole body, so each is one action.         *)
(*                                                                         *)
(* A member of Boards is a Board OBJECT. A micro:bit that leaves the probe *)
(* list and comes back gets a new object, while threads of the old object  *)
(* may still be running: UidOf says which micro:bit an object stands for.  *)
(* Whether the micro:bit is physically there is not a variable: opening a  *)
(* port, a relay and pyocd may each fail or succeed at any time, and the   *)
(* probe list may omit a micro:bit that is there (flashable_probes returns *)
(* an empty list when pyocd cannot be queried).                            *)
(***************************************************************************)
CONSTANTS Uids,        \* micro:bits, by pyOCD unique id
          Boards,      \* Board objects the Supervisor may create
          UidOf,       \* Board object -> its micro:bit
          Serials,     \* connections to serial listeners (SerialSession)
          Flashes,     \* connections to flash listeners (FlashSession)
          None

ASSUME SessionsAssumption ==
    /\ UidOf \in [Boards -> Uids]
    /\ Serials \cap Flashes = {}
    /\ None \notin Serials \cup Flashes \cup Boards

Sessions == Serials \cup Flashes

VARIABLES
    pc,         \* session -> control point of its handler thread
    on,         \* session -> the Board its listener was registered for
    stopped,    \* sessions that terminate() was called on
    previous,   \* flash session -> the serial session it displaced
    abandoned,  \* sessions whose join() expired: still running, no longer waited for
    occupant,   \* Board.occupant
    status,     \* Board -> "new", "connected" (Board.connected) or "departed"
    live,       \* Supervisor.boards: uid -> its Board, or None
    listening,  \* Boards whose two listeners are registered with the AcceptLoop
    sup         \* the Supervisor thread: where it is in _on_departure

handlerVars == <<pc, on, stopped, previous, abandoned>>
boardVars   == <<status, live, listening>>
vars        == <<pc, on, stopped, previous, abandoned, occupant,
                 status, live, listening, sup>>

(* Control points between a successful claim and the end of release().     *)
SerialInside == {"open", "relay", "close_port", "release"}
FlashInside  == {"preempt", "join", "payload", "verify", "pyocd", "release"}
SerialPoints == {"idle", "auth", "claim", "close", "done"} \cup SerialInside
FlashPoints  == {"idle", "auth", "command", "claim", "close", "done"} \cup FlashInside

Inside(s)   == pc[s] \in SerialInside \cup FlashInside
PortHeld(s) == pc[s] \in {"relay", "close_port"}    \* serve_serial's ser is open
SupIdle     == [at |-> "idle", board |-> None, victim |-> None]

TypeOK ==
    /\ pc \in [Sessions -> SerialPoints \cup FlashPoints]
    /\ \A s \in Serials : pc[s] \in SerialPoints
    /\ \A f \in Flashes : pc[f] \in FlashPoints
    /\ on \in [Sessions -> Boards \cup {None}]
    /\ stopped \in SUBSET Sessions
    /\ previous \in [Flashes -> Serials \cup {None}]
    /\ abandoned \in SUBSET Sessions
    /\ occupant \in [Boards -> Sessions \cup {None}]
    /\ status \in [Boards -> {"new", "connected", "departed"}]
    /\ live \in [Uids -> Boards \cup {None}]
    /\ listening \in SUBSET Boards
    /\ sup \in [at : {"idle", "take", "terminate", "join", "withdraw"},
                board : Boards \cup {None}, victim : Sessions \cup {None}]

Init ==
    /\ pc = [s \in Sessions |-> "idle"]
    /\ on = [s \in Sessions |-> None]
    /\ stopped = {}
    /\ previous = [f \in Flashes |-> None]
    /\ abandoned = {}
    /\ occupant = [b \in Boards |-> None]
    /\ status = [b \in Boards |-> "new"]
    /\ live = [u \in Uids |-> None]
    /\ listening = {}
    /\ sup = SupIdle

-----------------------------------------------------------------------------
(* Steps shared by the two handlers.                                       *)

Goto(s, from, to) ==
    /\ pc[s] = from
    /\ pc' = [pc EXCEPT ![s] = to]

(* A step of s alone: its control point moves, nothing shared changes.     *)
Local(s, from, to) ==
    /\ Goto(s, from, to)
    /\ UNCHANGED <<on, stopped, previous, abandoned, occupant, sup>>
    /\ UNCHANGED boardVars

(* The AcceptLoop thread accepts a connection and starts its handler. The  *)
(* listeners stay registered until the end of _on_departure, so this also  *)
(* happens on a board that already departed.                               *)
Accept(s, b) ==
    /\ b \in listening
    /\ Goto(s, "idle", "auth")
    /\ on' = [on EXCEPT ![s] = b]
    /\ UNCHANGED <<stopped, previous, abandoned, occupant, sup>>
    /\ UNCHANGED boardVars

(* Without a token the daemon never refuses; with one, AUTH_TIMEOUT, EOF   *)
(* and a wrong token all end the connection.                               *)
AuthRefused(s) == Local(s, "auth", "close")

(* Fault: release without the identity check.                              *)
ReleaseUnchecked(s) ==
    /\ Goto(s, "release", "close")
    /\ occupant' = [occupant EXCEPT ![on[s]] = None]
    /\ UNCHANGED <<on, stopped, previous, abandoned, sup>>
    /\ UNCHANGED boardVars

(* Board.release: only if the occupant is still this session.              *)
Release(s) ==
    /\ Goto(s, "release", "close")
    /\ occupant' = [b \in Boards |->
                       IF b = on[s] /\ occupant[b] = s THEN None ELSE occupant[b]]
    /\ UNCHANGED <<on, stopped, previous, abandoned, sup>>
    /\ UNCHANGED boardVars

(* _close, then the end of _run_handler: the thread is no longer alive.    *)
Finish(s) == Local(s, "close", "done")

(* Session.terminate, called by whoever displaced s.                       *)
Terminated(s) == stopped' = stopped \cup {s}

(* Faults: a join without its timeout; a join that does not wait at all.   *)
JoinedUnbounded(s) == pc[s] = "done" /\ UNCHANGED abandoned
JoinedAtOnce(s)    == UNCHANGED abandoned

(* Session.join: the thread exited, or PREEMPT_JOIN_TIMEOUT expired and    *)
(* the caller goes on without it. It never raises and never waits longer.  *)
Joined(s) ==
    \/ pc[s] = "done" /\ UNCHANGED abandoned
    \/ pc[s] # "done" /\ abandoned' = abandoned \cup {s}

-----------------------------------------------------------------------------
(* serve_serial                                                            *)

SerialAuthenticated(s) == Local(s, "auth", "claim")

(* Board.claim_serial: only an idle board.                                 *)
ClaimSerial(s) ==
    /\ Goto(s, "claim", "open")
    /\ occupant[on[s]] = None
    /\ occupant' = [occupant EXCEPT ![on[s]] = s]
    /\ UNCHANGED <<on, stopped, previous, abandoned, sup>>
    /\ UNCHANGED boardVars

SerialBusy(s) ==
    /\ Local(s, "claim", "close")
    /\ occupant[on[s]] # None

PortOpened(s) == Local(s, "open", "relay")
PortFailed(s) == Local(s, "open", "release")       \* ConsoleError

(* Fault: the relay loop that does not look at its stop event.             *)
RelayDeaf(s) ==
    /\ s \in stopped
    /\ Local(s, "relay", "relay")

(* relay_socket notices its stop event, or the closed connection, at the   *)
(* latest after READ_TIMEOUT.                                              *)
RelayStopped(s) ==
    /\ s \in stopped
    /\ Local(s, "relay", "close_port")

(* relay_socket returns because the client left or the port went away.     *)
RelayEnded(s) ==
    /\ s \notin stopped
    /\ Local(s, "relay", "close_port")

PortClosed(s) == Local(s, "close_port", "release")

SerialAlone(s) == \/ SerialAuthenticated(s) \/ AuthRefused(s) \/ SerialBusy(s)
                  \/ PortOpened(s) \/ PortFailed(s) \/ RelayStopped(s)
                  \/ RelayEnded(s) \/ PortClosed(s) \/ Finish(s)

SerialStep(s) == SerialAlone(s) \/ ClaimSerial(s) \/ Release(s)

-----------------------------------------------------------------------------
(* serve_flash                                                             *)

FlashAuthenticated(f) == Local(f, "auth", "command")

(* A complete, admissible FLASH line: flashing is enabled, the header is   *)
(* well formed, and the board is no relay or the request forces it.        *)
FlashRequested(f) == Local(f, "command", "claim")

(* Every other outcome of the command phase ends the connection without    *)
(* touching the board: no line, INFO (answered without the lock), an       *)
(* unknown command, --no-flash, a bad header, the relay guard.             *)
CommandDeclined(f) == Local(f, "command", "close")

(* Fault: claim_flash without its refusal.                                 *)
ClaimFlashUnchecked(f) ==
    LET b == on[f] IN
    /\ Goto(f, "claim", IF occupant[b] = None THEN "payload" ELSE "preempt")
    /\ previous' = [previous EXCEPT ![f] = occupant[b]]
    /\ occupant' = [occupant EXCEPT ![b] = f]
    /\ UNCHANGED <<on, stopped, abandoned, sup>>
    /\ UNCHANGED boardVars

(* Board.claim_flash: refused by a flash, otherwise the new occupant,      *)
(* which learns whom it displaced.                                         *)
ClaimFlash(f) ==
    LET b == on[f] IN
    /\ pc[f] = "claim"
    /\ occupant[b] \notin Flashes
    /\ Goto(f, "claim", IF occupant[b] = None THEN "payload" ELSE "preempt")
    /\ previous' = [previous EXCEPT ![f] = occupant[b]]
    /\ occupant' = [occupant EXCEPT ![b] = f]
    /\ UNCHANGED <<on, stopped, abandoned, sup>>
    /\ UNCHANGED boardVars

FlashBusy(f) ==
    /\ Local(f, "claim", "close")
    /\ occupant[on[f]] \in Flashes

(* Fault: waiting for the displaced session without stopping it.           *)
PreemptUnstopped(f) == Local(f, "preempt", "join")

(* _terminate_displaced, outside the lock, in two steps.                   *)
Preempt(f) ==
    /\ Goto(f, "preempt", "join")
    /\ Terminated(previous[f])
    /\ UNCHANGED <<on, previous, abandoned, occupant, sup>>
    /\ UNCHANGED boardVars

JoinDisplaced(f) ==
    /\ Goto(f, "join", "payload")
    /\ Joined(previous[f])
    /\ UNCHANGED <<on, stopped, previous, occupant, sup>>
    /\ UNCHANGED boardVars

(* Fault: the short-payload return outside the try/finally.                *)
PayloadShortUnreleased(f) == Local(f, "payload", "close")

(* "OK send", then _read_exact. A terminated session's socket is closed,   *)
(* so it can only come back short (or raise, which ends the same way).     *)
PayloadReceived(f) ==
    /\ f \notin stopped
    /\ Local(f, "payload", "verify")

PayloadShort(f) == Local(f, "payload", "release")

(* sha256 and the temporary file. serve_flash never looks at session.stop  *)
(* or board.connected, so flash_hex starts on a terminated session too.    *)
PayloadRejected(f) == Local(f, "verify", "release")
PyocdStarted(f)    == Local(f, "verify", "pyocd")

(* flash_hex returned; the result line is sent if anyone still listens.    *)
PyocdEnded(f) == Local(f, "pyocd", "release")

FlashAlone(f) == \/ FlashAuthenticated(f) \/ AuthRefused(f) \/ FlashRequested(f)
                 \/ CommandDeclined(f) \/ FlashBusy(f) \/ PayloadReceived(f)
                 \/ PayloadShort(f) \/ PayloadRejected(f) \/ PyocdStarted(f)
                 \/ PyocdEnded(f) \/ Finish(f)

FlashStep(f) == \/ FlashAlone(f) \/ ClaimFlash(f) \/ Preempt(f)
                \/ JoinDisplaced(f) \/ Release(f)

-----------------------------------------------------------------------------
(* The Supervisor thread. One uid at a time: a departure that waits for a  *)
(* session holds up every other arrival and departure.                     *)

(* _on_arrival, as far as sessions can tell.                               *)
Arrive(b) ==
    /\ sup = SupIdle
    /\ status[b] = "new"
    /\ live[UidOf[b]] = None
    /\ status' = [status EXCEPT ![b] = "connected"]
    /\ live' = [live EXCEPT ![UidOf[b]] = b]
    /\ listening' = listening \cup {b}
    /\ UNCHANGED <<occupant, sup>>
    /\ UNCHANGED handlerVars

(* _on_departure: boards.pop, connected = False ...                        *)
Depart(b) ==
    /\ sup = SupIdle
    /\ live[UidOf[b]] = b
    /\ live' = [live EXCEPT ![UidOf[b]] = None]
    /\ status' = [status EXCEPT ![b] = "departed"]
    /\ sup' = [at |-> "take", board |-> b, victim |-> None]
    /\ UNCHANGED <<occupant, listening>>
    /\ UNCHANGED handlerVars

(* ... Board.take_occupant ...                                             *)
TakeOccupant ==
    LET b == sup.board IN
    /\ sup.at = "take"
    /\ occupant' = [occupant EXCEPT ![b] = None]
    /\ sup' = [sup EXCEPT !.at = IF occupant[b] = None THEN "withdraw" ELSE "terminate",
                          !.victim = occupant[b]]
    /\ UNCHANGED boardVars
    /\ UNCHANGED handlerVars

(* ... _terminate_displaced ...                                            *)
TerminateOccupant ==
    /\ sup.at = "terminate"
    /\ Terminated(sup.victim)
    /\ sup' = [sup EXCEPT !.at = "join"]
    /\ UNCHANGED <<pc, on, previous, abandoned, occupant>>
    /\ UNCHANGED boardVars

JoinOccupant ==
    /\ sup.at = "join"
    /\ Joined(sup.victim)
    /\ sup' = [sup EXCEPT !.at = "withdraw"]
    /\ UNCHANGED <<pc, on, stopped, previous, occupant>>
    /\ UNCHANGED boardVars

(* ... mDNS unregistered, listeners unregistered and closed.               *)
Withdraw ==
    /\ sup.at = "withdraw"
    /\ listening' = listening \ {sup.board}
    /\ sup' = SupIdle
    /\ UNCHANGED <<occupant, status, live>>
    /\ UNCHANGED handlerVars

Departing == TakeOccupant \/ TerminateOccupant \/ JoinOccupant \/ Withdraw

-----------------------------------------------------------------------------
(* Serials, Flashes and Boards are finite supplies of connections and of   *)
(* arrivals; a run ends when no thread of the daemon has anything to do.   *)
Quiescent ==
    /\ sup = SupIdle
    /\ \A s \in Sessions : pc[s] \in {"idle", "done"}
    /\ UNCHANGED vars

Next ==
    \/ \E s \in Sessions, b \in Boards : Accept(s, b)
    \/ \E s \in Serials : SerialStep(s)
    \/ \E f \in Flashes : FlashStep(f)
    \/ \E b \in Boards : Arrive(b) \/ Depart(b)
    \/ Departing
    \/ Quiescent

Spec == Init /\ [][Next]_vars

(* A flash handler and the Supervisor never stop on their own account:     *)
(* every wait in them has a timeout, and pyocd is assumed to end. Nothing  *)
(* at all is assumed of the serial handlers.                               *)
DaemonFairness ==
    /\ \A f \in Flashes : WF_vars(FlashStep(f))
    /\ WF_vars(Departing)

LiveSpec == Spec /\ DaemonFairness

(* In addition the serial handlers run, and none is wedged in a write: the *)
(* client may keep its relay for ever, but a stopped relay ends.           *)
SerialFairness ==
    \A s \in Serials :
        WF_vars(SerialStep(s) /\ ~RelayEnded(s))

-----------------------------------------------------------------------------
(* Properties                                                              *)

(* claim_flash refuses a second flash: on a connected Board object at most *)
(* one handler is between its claim and its release, so two flashes cannot *)
(* drive the probe, whatever preemption, short payloads and stale releases *)
(* happened before (server.py:225-255).                                    *)
OneFlashPerBoard ==
    \A b \in Boards : status[b] = "connected" =>
        \A f, g \in Flashes :
            (on[f] = b /\ on[g] = b /\ pc[f] \in FlashInside /\ pc[g] \in FlashInside)
                => f = g

(* Preemption frees the port before pyocd runs: while a flash past its     *)
(* join drives a connected board, any serial thread that still has that    *)
(* board's port open is one whose join expired (server.py:649-657, 120).   *)
PortQuietDuringFlash ==
    \A f \in Flashes, s \in Serials :
        (/\ pc[f] \in {"payload", "verify", "pyocd"}
         /\ on[s] = on[f]
         /\ status[on[f]] = "connected"
         /\ PortHeld(s))
            => s \in abandoned

(* A board never stays busy on behalf of a handler that is gone: whoever   *)
(* occupies it is still on its way to its own release (server.py:245-255,  *)
(* the finally clauses of both handlers).                                  *)
NoLeakedOccupancy ==
    \A b \in Boards : occupant[b] # None =>
        Inside(occupant[b]) /\ on[occupant[b]] = b

(* Nobody is displaced and forgotten: a session that lost its board while  *)
(* inside has been terminated, or its displacer is just about to do it.    *)
DisplacedIsTerminated ==
    \A s \in Sessions : (Inside(s) /\ occupant[on[s]] # s) =>
        \/ s \in stopped
        \/ \E f \in Flashes : pc[f] = "preempt" /\ previous[f] = s
        \/ sup.at = "terminate" /\ sup.victim = s

(* A FLASH is never hung by a serial session that refuses to die           *)
(* (server.py:123-126): once it has claimed the board it comes to its end  *)
(* even if no serial thread ever takes another step.                       *)
FlashConcludes ==
    \A f \in Flashes : pc[f] \in FlashInside ~> pc[f] = "done"

(* A departure always gets as far as withdrawing the board's listeners,    *)
(* whoever occupied it and whatever that thread does (server.py:887-929).  *)
DepartureConcludes ==
    \A b \in Boards : status[b] = "departed" ~> b \notin listening

(* If serial threads run too, a terminated session does exit: stopping it  *)
(* is enough, also when it is stopped before its relay has begun           *)
(* (server.py:101-118, console.py:166-176).                                *)
TerminatedExits ==
    SerialFairness => \A s \in Sessions : s \in stopped ~> pc[s] = "done"

-----------------------------------------------------------------------------
(* A claim of the repository's documents that the code does not meet.      *)

(* "two flashes never race" (server.py:234, agent_manual.md:562): no two   *)
(* pyocd flashes drive one micro:bit at once. The code keeps this per      *)
(* Board object only.                                                      *)
OneFlashPerUid ==
    \A f, g \in Flashes :
        (pc[f] = "pyocd" /\ pc[g] = "pyocd" /\ UidOf[on[f]] = UidOf[on[g]]) => f = g

-----------------------------------------------------------------------------
(* The handlers and the Supervisor implement BoardOccupancy.               *)

Standing(s) ==
    IF Inside(s)
    THEN IF occupant[on[s]] = s THEN "holding" ELSE "displaced"
    ELSE IF pc[s] \in {"close", "done"} THEN "left" ELSE "outside"

Occupancy == INSTANCE BoardOccupancy
    WITH holder <- occupant, standing <- [s \in Sessions |-> Standing(s)], where <- on

ImplementsOccupancy == Occupancy!OccupancySpec
=============================================================================
