---------------------------- MODULE ServeShutdown ----------------------------
(***************************************************************************)
(* How `mbdeploy serve` ends (src/mbdeploy/cli.py, _run_serve and          *)
(* _ServeShutdown). SIGINT and SIGTERM run the same object, on the main    *)
(* thread, in a Python signal handler: a call frame pushed on top of       *)
(* whatever the main thread was doing, which another signal may interrupt  *)
(* in turn. _run_serve calls the object once more itself. The Supervisor's *)
(* and the AcceptLoop's threads run on meanwhile.                          *)
(*                                                                         *)
(* `frames` is the stack of calls of the object on the main thread; only   *)
(* its top moves, and the code below resumes when it is empty. Both locks  *)
(* involved are plain threading.Locks, which their own holder cannot take  *)
(* again: the object's _lock, and the one inside stop_event.               *)
(***************************************************************************)
EXTENDS Naturals, Sequences, FiniteSets

CONSTANTS Uids,         \* micro:bits that may come and go while serving
          MaxSignals,   \* bound on the signals delivered
          None

ASSUME ShutdownAssumption == MaxSignals \in Nat /\ None \notin Uids

VARIABLES
    main,         \* _run_serve: where the main thread is below the frames
    frames,       \* calls of the _ServeShutdown object, innermost last
    done,         \* its _done
    stopEvent,    \* stop_event is set
    signals,      \* signals delivered so far
    sup,          \* the Supervisor thread: where, and for which micro:bit
    abandoned,    \* the join of the Supervisor thread expired
    boards,       \* Supervisor.boards
    open,         \* micro:bits whose listeners are open
    ads,          \* micro:bits with a registered advertisement
    advClosed,    \* Advertiser.close was carried out
    loopClosed,   \* AcceptLoop.close was carried out
    accept        \* the AcceptLoop thread

callVars  == <<frames, done>>
fleetVars == <<boards, open, ads>>
threadVars == <<sup, abandoned, accept>>
vars == <<main, frames, done, stopEvent, signals, sup, abandoned,
          boards, open, ads, advClosed, loopClosed, accept>>

Teardown == {"set", "join", "listeners", "advertiser", "accept_loop"}
Calls(point) == {i \in DOMAIN frames : frames[i] = point}

(* At most one call is inside `with self._lock`.                           *)
TypeOK ==
    /\ main \in {"starting", "half_started", "entering", "waiting",
                "shutdown", "join_accept", "exited"}
    /\ frames \in Seq({"lock", "locked", "return"} \cup Teardown)
    /\ Cardinality(Calls("locked")) <= 1
    /\ done \in BOOLEAN /\ stopEvent \in BOOLEAN
    /\ signals \in 0..MaxSignals
    /\ sup \in [at : {"unstarted", "loop", "tick", "register", "listen", "ended"},
                uid : Uids \cup {None}]
    /\ abandoned \in BOOLEAN
    /\ boards \in SUBSET Uids /\ open \in SUBSET Uids /\ ads \in SUBSET Uids
    /\ advClosed \in BOOLEAN /\ loopClosed \in BOOLEAN
    /\ accept \in {"unstarted", "check", "select", "ended", "raised"}

SupAt(point) == [at |-> point, uid |-> None]

(* From where the handlers are installed and no thread is started yet.     *)
Init ==
    /\ main = "starting"
    /\ frames = <<>> /\ done = FALSE /\ stopEvent = FALSE /\ signals = 0
    /\ sup = SupAt("unstarted") /\ abandoned = FALSE
    /\ boards = {} /\ open = {} /\ ads = {}
    /\ advClosed = FALSE /\ loopClosed = FALSE
    /\ accept = "unstarted"

-----------------------------------------------------------------------------
(* The calls. At(p): the innermost call is at p, and runs.                 *)

At(point)  == frames # <<>> /\ frames[Len(frames)] = point
Step(point) == frames' = [frames EXCEPT ![Len(frames)] = point]
Returned   == frames' = SubSeq(frames, 1, Len(frames) - 1)
Called     == frames' = Append(frames, "lock")

Signal ==
    /\ signals < MaxSignals
    /\ main # "exited"
    /\ signals' = signals + 1
    /\ Called
    /\ UNCHANGED <<main, done, stopEvent, advClosed, loopClosed, fleetVars, threadVars>>

(* Fault: the lock does not exclude.                                       *)
AcquireAlways ==
    /\ At("lock")
    /\ Step("locked")
    /\ UNCHANGED <<main, done, stopEvent, signals, advClosed, loopClosed, fleetVars, threadVars>>

(* `with self._lock`: an interrupted call below may be holding it.         *)
Acquire ==
    /\ At("lock")
    /\ Calls("locked") = {}
    /\ Step("locked")
    /\ UNCHANGED <<main, done, stopEvent, signals, advClosed, loopClosed, fleetVars, threadVars>>

(* Fault: _done is tested but never set.                                   *)
DecideForgetful ==
    /\ At("locked")
    /\ Step(IF done THEN "return" ELSE "set")
    /\ UNCHANGED <<main, done, stopEvent, signals, advClosed, loopClosed, fleetVars, threadVars>>

(* The test of _done, its setting, and the release of the lock.            *)
Decide ==
    /\ At("locked")
    /\ Step(IF done THEN "return" ELSE "set")
    /\ done' = TRUE
    /\ UNCHANGED <<main, stopEvent, signals, advClosed, loopClosed, fleetVars, threadVars>>

(* stop_event.set() needs the event's lock; the main thread holds it while *)
(* it is entering stop_event.wait().                                       *)
SetStop ==
    /\ At("set")
    /\ main # "entering"
    /\ stopEvent' = TRUE
    /\ Step("join")
    /\ UNCHANGED <<main, done, signals, advClosed, loopClosed, fleetVars, threadVars>>

(* Faults: no join at all; a join without its timeout.                     *)
JoinSupervisorAtOnce ==
    /\ At("join")
    /\ Step("listeners")
    /\ UNCHANGED <<main, done, stopEvent, signals, advClosed, loopClosed, fleetVars, threadVars>>

JoinSupervisorUnbounded ==
    /\ At("join")
    /\ sup.at \in {"unstarted", "ended"}
    /\ Step("listeners")
    /\ UNCHANGED <<main, done, stopEvent, signals, advClosed, loopClosed, fleetVars, threadVars>>

(* The join ends with the thread or with _SERVE_JOIN_TIMEOUT; a thread     *)
(* that is not alive is not joined.                                        *)
JoinSupervisor ==
    /\ At("join")
    /\ Step("listeners")
    /\ abandoned' = (sup.at \notin {"unstarted", "ended"})
    /\ UNCHANGED <<main, done, stopEvent, signals, advClosed, loopClosed, fleetVars, sup, accept>>

(* Fault: listeners unregistered but not closed.                           *)
KeepListeners ==
    /\ At("listeners")
    /\ Step("advertiser")
    /\ UNCHANGED <<main, done, stopEvent, signals, advClosed, loopClosed, fleetVars, threadVars>>

(* Unregister and close the listeners of every board in boards.            *)
CloseListeners ==
    /\ At("listeners")
    /\ open' = open \ boards
    /\ Step("advertiser")
    /\ UNCHANGED <<main, done, stopEvent, signals, advClosed, loopClosed, boards, ads, threadVars>>

CloseAdvertiser ==
    /\ At("advertiser")
    /\ advClosed' = TRUE
    /\ ads' = {}
    /\ Step("accept_loop")
    /\ UNCHANGED <<main, done, stopEvent, signals, loopClosed, boards, open, threadVars>>

(* Sets the loop's stop flag and closes its selector.                      *)
CloseAcceptLoop ==
    /\ At("accept_loop")
    /\ loopClosed' = TRUE
    /\ Step("return")
    /\ UNCHANGED <<main, done, stopEvent, signals, advClosed, fleetVars, threadVars>>

Return ==
    /\ At("return")
    /\ Returned
    /\ UNCHANGED <<main, done, stopEvent, signals, advClosed, loopClosed, fleetVars, threadVars>>

CallStep == Acquire \/ Decide \/ SetStop \/ JoinSupervisor \/ CloseListeners
            \/ CloseAdvertiser \/ CloseAcceptLoop \/ Return

-----------------------------------------------------------------------------
(* _run_serve on the main thread, between signals.                         *)

MainGoto(from, to) ==
    /\ frames = <<>>
    /\ main = from
    /\ main' = to
    /\ UNCHANGED <<done, stopEvent, signals, abandoned, advClosed, loopClosed, fleetVars>>

StartAccept ==
    /\ MainGoto("starting", "half_started")
    /\ accept' = "check"
    /\ UNCHANGED <<frames, sup>>

StartSupervisor ==
    /\ MainGoto("half_started", "entering")
    /\ sup' = SupAt("loop")
    /\ UNCHANGED <<frames, accept>>

(* Event.wait takes the event's lock, tests the flag, and gives the lock   *)
(* up to wait. It returns once the flag is set.                            *)
EnterWait ==
    /\ MainGoto("entering", IF stopEvent THEN "shutdown" ELSE "waiting")
    /\ UNCHANGED <<frames, sup, accept>>

(* ... and then the main thread calls the object itself.                   *)
Woken ==
    /\ stopEvent
    /\ MainGoto("waiting", "shutdown")
    /\ UNCHANGED <<frames, sup, accept>>

CallShutdown ==
    /\ MainGoto("shutdown", "join_accept")
    /\ Called
    /\ UNCHANGED <<sup, accept>>

(* A join with a timeout: whatever the accept thread does.                 *)
Exit ==
    /\ MainGoto("join_accept", "exited")
    /\ UNCHANGED <<frames, sup, accept>>

MainStep == StartAccept \/ StartSupervisor \/ EnterWait \/ Woken
            \/ CallShutdown \/ Exit \/ CallStep

-----------------------------------------------------------------------------
(* The other two threads, daemon threads that end with the process.        *)

SupGoto(from, to) ==
    /\ main # "exited"
    /\ sup.at = from
    /\ sup' = to
    /\ UNCHANGED <<main, callVars, stopEvent, signals, abandoned, advClosed, loopClosed, accept>>

(* stop is looked at between ticks only.                                   *)
SupLoops ==
    /\ SupGoto("loop", SupAt(IF stopEvent THEN "ended" ELSE "tick"))
    /\ UNCHANGED fleetVars

SupTickEnds ==
    /\ SupGoto("tick", SupAt("loop"))
    /\ UNCHANGED fleetVars

(* _on_arrival: listeners bound, then Advertiser.register ...              *)
SupArrival(u) ==
    /\ u \notin boards
    /\ SupGoto("tick", [at |-> "register", uid |-> u])
    /\ open' = open \cup {u}
    /\ UNCHANGED <<boards, ads>>

(* ... which raises if the Advertiser was closed meanwhile ...             *)
SupRegisters ==
    IF advClosed
    THEN /\ SupGoto("register", SupAt("ended"))
         /\ open' = open \ {sup.uid}
         /\ UNCHANGED <<boards, ads>>
    ELSE /\ SupGoto("register", [sup EXCEPT !.at = "listen"])
         /\ ads' = ads \cup {sup.uid}
         /\ UNCHANGED <<boards, open>>

(* ... then AcceptLoop.register, which raises on a closed selector.        *)
SupListens ==
    IF loopClosed
    THEN /\ SupGoto("listen", SupAt("ended"))
         /\ open' = open \ {sup.uid}
         /\ UNCHANGED <<boards, ads>>
    ELSE /\ SupGoto("listen", SupAt("tick"))
         /\ boards' = boards \cup {sup.uid}
         /\ UNCHANGED <<open, ads>>

SupDeparture(u) ==
    /\ u \in boards
    /\ SupGoto("tick", SupAt("tick"))
    /\ boards' = boards \ {u}
    /\ ads' = ads \ {u}
    /\ open' = open \ {u}

SupStep == \/ SupLoops \/ SupTickEnds \/ SupRegisters \/ SupListens
           \/ \E u \in Uids : SupArrival(u) \/ SupDeparture(u)

(* AcceptLoop.run: the stop flag is set just before the selector closes.   *)
AcceptChecks ==
    /\ accept = "check"
    /\ accept' = IF loopClosed THEN "ended" ELSE "select"

(* select() on a closed epoll or kqueue object raises ValueError, which is *)
(* no OSError.                                                             *)
AcceptSelects ==
    /\ accept = "select"
    /\ accept' = IF loopClosed THEN "raised" ELSE "check"

AcceptStep ==
    /\ main # "exited"
    /\ AcceptChecks \/ AcceptSelects
    /\ UNCHANGED <<main, callVars, stopEvent, signals, sup, abandoned,
                   fleetVars, advClosed, loopClosed>>

-----------------------------------------------------------------------------
(* A call that waits for a lock held further down its own stack.           *)
Wedged == \/ At("lock") /\ Calls("locked") # {}
          \/ At("set") /\ main = "entering"

(* Serving without a signal may go on for ever; these states are ends.     *)
Ended == (main = "exited" \/ Wedged) /\ UNCHANGED vars

Next == Signal \/ MainStep \/ SupStep \/ AcceptStep \/ Ended

Spec == Init /\ [][Next]_vars

(* The main thread runs. Nothing is assumed of the Supervisor's thread,    *)
(* which may be stuck in a probe or in an mDNS registration.               *)
FairSpec == Spec /\ WF_vars(MainStep)

-----------------------------------------------------------------------------
(* Properties                                                              *)

(* "exactly once, no matter how many times it is invoked": signals that    *)
(* interrupt the teardown at any point, and _run_serve's own call, never   *)
(* start a second one, beside the first or after it (cli.py:959-970).      *)
TearsDownOnce ==
    LET busy == {i \in DOMAIN frames : frames[i] \in Teardown} IN
    /\ Cardinality(busy) <= 1
    /\ loopClosed => busy = {}

(* "joining first lets that tick finish before anything is torn down": the *)
(* Advertiser is not closed under a registration in flight, unless the     *)
(* Supervisor outlived the join (cli.py:972-983).                          *)
AdvertiserClosedIdle ==
    (advClosed /\ sup.at = "register") => abandoned

(* "either signal unregisters every mDNS advertisement and closes every    *)
(* listener socket before this returns" (cli.py:1047-1052).                *)
ExitIsClean ==
    main = "exited" =>
        /\ advClosed /\ loopClosed /\ ads = {}
        /\ abandoned \/ open = {}

(* A signal ends the daemon even if the Supervisor's thread never moves    *)
(* again, unless the main thread locked itself out.                        *)
SignalEndsServe ==
    (<>(signals > 0) /\ []~Wedged) => <>(main = "exited")

-----------------------------------------------------------------------------
(* A claim of the code's comments that the code does not meet.             *)

(* "a second (or concurrent) invocation must be a silent no-op": it never  *)
(* waits for the invocation it interrupted.                                *)
SecondCallIsNoOp == ~(At("lock") /\ Calls("locked") # {})
=============================================================================
