------------------------- MODULE ServeShutdownProofs -------------------------
(***************************************************************************)
(* Proofs about ServeShutdown, for any set of micro:bits and any number of *)
(* signals. The inductive invariant ServeInv says how far the one teardown *)
(* is that the stack of calls can hold, and what each stage of it has      *)
(* already brought about: a stage rests on those before it, and none of    *)
(* them can be undone by the Supervisor's thread, which runs on.           *)
(***************************************************************************)
EXTENDS ServeShutdown, SequenceTheorems, FiniteSetTheorems, TLAPS

Points == {"lock", "locked", "return"} \cup Teardown

MainPoints == {"starting", "half_started", "entering", "waiting", "shutdown",
               "join_accept", "exited"}
SupPoints  == {"unstarted", "loop", "tick", "register", "listen", "ended"}

(* Some call of the object is at one of these points.                      *)
On(points) == \E i \in DOMAIN frames : frames[i] \in points

Types ==
    /\ main \in MainPoints
    /\ frames \in Seq(Points)
    /\ sup.at \in SupPoints /\ sup = [at |-> sup.at, uid |-> sup.uid]
    /\ sup.uid \in Uids \cup {None}
    /\ sup.at \in {"register", "listen"} => sup.uid \in Uids
    /\ boards \subseteq Uids /\ open \subseteq Uids /\ ads \subseteq Uids

FlagTypes ==
    /\ done \in BOOLEAN /\ stopEvent \in BOOLEAN /\ abandoned \in BOOLEAN
    /\ advClosed \in BOOLEAN /\ loopClosed \in BOOLEAN
    /\ signals \in 0..MaxSignals
    /\ accept \in {"unstarted", "check", "select", "ended", "raised"}

(* One call decides at a time, and one call tears down.                    *)
OneCall ==
    /\ \A i, j \in DOMAIN frames : frames[i] = "locked" /\ frames[j] = "locked" => i = j
    /\ \A i, j \in DOMAIN frames : frames[i] \in Teardown /\ frames[j] \in Teardown => i = j

(* What each stage of the teardown has behind it.                          *)
Stages ==
    /\ On(Teardown) => done /\ ~loopClosed
    /\ On(Teardown \ {"set"}) => stopEvent
    /\ On({"set", "join", "listeners", "advertiser"}) => ~advClosed
    /\ On({"accept_loop"}) => advClosed
    /\ advClosed => done /\ stopEvent /\ ads = {}
    /\ loopClosed => advClosed

(* The Supervisor's thread does not work on the fleet once it was joined,  *)
(* be it because a Supervisor that starts only now sees stop_event.        *)
Still ==
    On({"listeners", "advertiser", "accept_loop"}) \/ advClosed
        => abandoned \/ sup.at \in {"unstarted", "loop", "ended"}

(* Listeners belong to a board in boards or to the arrival in hand ...     *)
OpenKnown ==
    \A u \in open : u \in boards \/ (sup.at \in {"register", "listen"} /\ u = sup.uid)

(* ... and none is left after they were closed.                            *)
Emptied ==
    On({"advertiser", "accept_loop"}) \/ advClosed => abandoned \/ open = {}

(* The main thread's own call is made before it goes on to exit.           *)
Ending ==
    /\ main \in {"starting", "half_started"} => sup.at = "unstarted"
    /\ main \in {"join_accept", "exited"} => done \/ On({"lock", "locked"})
    /\ done => loopClosed \/ On(Teardown)
    /\ main = "exited" => frames = <<>>

ServeInv == Types /\ FlagTypes /\ OneCall /\ Stages /\ Still /\ OpenKnown /\ Emptied /\ Ending

-----------------------------------------------------------------------------
(* The stack of calls                                                      *)

(* What is torn down now: one call is at this point of the teardown, or    *)
(* none is, if it is no such point.                                        *)
TeardownAt(point) ==
    /\ \A i \in DOMAIN frames : frames[i] \in Teardown => frames[i] = point
    /\ point \in Teardown => \E i \in DOMAIN frames : frames[i] = point

LEMMA CallMoves ==
    ASSUME Types, NEW p \in Points, NEW q \in Points, At(p), Step(q)
    PROVE  /\ frames' \in Seq(Points)
           /\ \E top \in DOMAIN frames :
                 /\ frames[top] = p /\ frames'[top] = q
                 /\ DOMAIN frames' = DOMAIN frames
                 /\ \A i \in DOMAIN frames : i # top => frames'[i] = frames[i]
<1> DEFINE top == Len(frames)
<1>1. frames \in Seq(Points) /\ frames # <<>> /\ frames[top] = p
  BY DEF Types, At
<1>2. Len(frames) \in Nat /\ DOMAIN frames = 1..Len(frames) /\ top \in 1..Len(frames)
  BY <1>1, LenProperties, EmptySeq
<1>3. /\ frames' \in Seq(Points) /\ Len(frames') = Len(frames)
      /\ \A i \in 1..Len(frames) : frames'[i] = IF i = top THEN q ELSE frames[i]
  BY <1>1, <1>2, ExceptSeq DEF Step
<1>4. DOMAIN frames' = 1..Len(frames')
  BY <1>3, LenProperties
<1> QED  BY <1>1, <1>2, <1>3, <1>4

LEMMA CallBegins ==
    ASSUME Types, Called
    PROVE  /\ frames' \in Seq(Points)
           /\ \E top : /\ DOMAIN frames' = DOMAIN frames \cup {top} /\ top \notin DOMAIN frames
                       /\ frames'[top] = "lock"
                       /\ \A i \in DOMAIN frames : frames'[i] = frames[i]
<1> DEFINE top == Len(frames) + 1
<1>1. frames \in Seq(Points) /\ "lock" \in Points
  BY DEF Types, Points
<1>2. Len(frames) \in Nat /\ DOMAIN frames = 1..Len(frames)
  BY <1>1, LenProperties
<1>3. /\ frames' \in Seq(Points) /\ Len(frames') = top /\ frames'[top] = "lock"
      /\ \A i \in 1..Len(frames) : frames'[i] = frames[i]
  BY <1>1, AppendProperties DEF Called
<1>4. DOMAIN frames' = 1..Len(frames')
  BY <1>3, LenProperties
<1>5. 1..top = (1..Len(frames)) \cup {top} /\ top \notin 1..Len(frames)
  BY <1>2
<1> QED  BY <1>2, <1>3, <1>4, <1>5

LEMMA CallReturns ==
    ASSUME Types, At("return"), Returned
    PROVE  /\ frames' \in Seq(Points) /\ DOMAIN frames' \subseteq DOMAIN frames
           /\ \A i \in DOMAIN frames' : frames'[i] = frames[i]
           /\ \A i \in DOMAIN frames : i \in DOMAIN frames' \/ frames[i] = "return"
<1> DEFINE n == Len(frames) - 1
<1>1. frames \in Seq(Points) /\ frames # <<>> /\ frames[Len(frames)] = "return"
  BY DEF Types, At
<1>2. Len(frames) \in Nat \ {0} /\ DOMAIN frames = 1..Len(frames) /\ n \in Nat
  BY <1>1, LenProperties, EmptySeq
<1>3. \A i \in 1..n : frames[i] \in Points
  BY <1>1, <1>2, ElementOfSeq
<1>4. /\ frames' \in Seq(Points)
      /\ Len(frames') = IF 1 <= n THEN n - 1 + 1 ELSE 0
      /\ \A i \in 1..(n - 1 + 1) : frames'[i] = frames[1 + i - 1]
  BY <1>1, <1>2, <1>3, SubSeqProperties DEF Returned
<1>5. \A m \in Nat \ {0} : /\ \A i \in 1..m : i \in 1..(m - 1) \/ i = m
                           /\ \A i \in 1..(m - 1) : i \in 1..m
  OBVIOUS
<1>6. /\ \A i \in 1..Len(frames) : i \in 1..n \/ i = Len(frames)
      /\ \A i \in 1..n : i \in 1..Len(frames)
  BY <1>2, <1>5
<1> HIDE DEF n
<1>7. n - 1 + 1 = n /\ (1 <= n \/ n = 0) /\ \A i \in 1..n : 1 + i - 1 = i
  BY <1>2
<1>8. Len(frames') = n /\ \A i \in 1..n : frames'[i] = frames[i]
  BY <1>2, <1>4, <1>7
<1>9. DOMAIN frames' = 1..n
  BY <1>4, <1>8, LenProperties
<1> QED  BY <1>1, <1>2, <1>4, <1>5, <1>6, <1>8, <1>9

(* A step of the call that tears down, or of the call that is to be it.    *)
LEMMA TeardownMoves ==
    ASSUME Types, OneCall, NEW p \in Points, NEW q \in Points, At(p), Step(q),
           p \in Teardown \/ ~On(Teardown), q # "locked"
    PROVE  /\ frames' \in Seq(Points) /\ OneCall' /\ TeardownAt(q)'
           /\ p \in Teardown => On({p})
<1>1. PICK top \in DOMAIN frames :
              /\ frames[top] = p /\ frames'[top] = q
              /\ DOMAIN frames' = DOMAIN frames
              /\ \A i \in DOMAIN frames : i # top => frames'[i] = frames[i]
  BY CallMoves
<1>2. \A i \in DOMAIN frames : i # top => frames[i] \notin Teardown
  BY <1>1 DEF OneCall, On
<1>3. OneCall'
  BY <1>1, <1>2 DEF OneCall
<1>4. TeardownAt(q)' /\ (p \in Teardown => On({p}))
  BY <1>1, <1>2 DEF TeardownAt, On
<1> QED  BY <1>3, <1>4, CallMoves

(* A step that is none of the teardown.                                    *)
LEMMA OtherMoves ==
    ASSUME Types, OneCall, NEW p \in Points \ Teardown, NEW q \in Points \ Teardown,
           At(p), Step(q), q = "locked" => Calls("locked") = {}
    PROVE  /\ frames' \in Seq(Points) /\ OneCall'
           /\ \A points \in SUBSET Teardown : On(points)' <=> On(points)
           /\ On({q})'
<1>1. PICK top \in DOMAIN frames :
              /\ frames[top] = p /\ frames'[top] = q
              /\ DOMAIN frames' = DOMAIN frames
              /\ \A i \in DOMAIN frames : i # top => frames'[i] = frames[i]
  BY CallMoves
<1>2. \A i \in DOMAIN frames : q = "locked" => frames[i] # "locked"
  BY DEF Calls
<1>3. OneCall'
  BY <1>1, <1>2 DEF OneCall
<1>4. On({q})' /\ \A points \in SUBSET Teardown : On(points)' <=> On(points)
  BY <1>1 DEF On
<1> QED  BY <1>3, <1>4, CallMoves

-----------------------------------------------------------------------------
(* The steps                                                               *)

LEMMA ServeInit == Init => ServeInv
<1> SUFFICES ASSUME Init PROVE ServeInv
  OBVIOUS
<1>1. frames = <<>> /\ DOMAIN frames = {} /\ frames \in Seq(Points)
  BY DEF Init
<1>2. \A points : ~On(points)
  BY <1>1 DEF On
<1>3. Types
  BY <1>1 DEF Init, Types, SupAt, MainPoints, SupPoints
<1>4. 0 \in 0..MaxSignals
  BY ShutdownAssumption
<1>5. FlagTypes
  BY <1>4 DEF Init, FlagTypes
<1>6. OneCall /\ Stages /\ Still /\ Emptied
  BY <1>1, <1>2 DEF Init, OneCall, Stages, Still, Emptied
<1>7. OpenKnown /\ Ending
  BY <1>1 DEF Init, OpenKnown, Ending, SupAt
<1> QED  BY <1>3, <1>5, <1>6, <1>7 DEF ServeInv

(* The main thread on its way down _run_serve.                             *)
LEMMA MainSteps ==
    ASSUME ServeInv, StartAccept \/ StartSupervisor \/ EnterWait \/ Woken \/ Exit
    PROVE  ServeInv'
<1> USE DEF MainGoto, ServeInv, fleetVars
<1>1. /\ frames = <<>> /\ frames' = <<>>
      /\ UNCHANGED <<frames, done, stopEvent, signals, abandoned, advClosed, loopClosed,
                     boards, open, ads>>
  BY DEF StartAccept, StartSupervisor, EnterWait, Woken, Exit
<1>2. \A points : ~On(points) /\ (On(points)' <=> On(points))
  BY <1>1 DEF On
<1>3. \/ /\ sup' = sup
         /\ main' \in {"starting", "half_started"} => main \in {"starting", "half_started"}
      \/ /\ sup' = SupAt("loop") /\ sup.at = "unstarted"
         /\ main' \notin {"starting", "half_started"}
  BY DEF StartAccept, StartSupervisor, EnterWait, Woken, Exit, Ending
<1>4. Types' /\ FlagTypes'
  <2>1. main' \in MainPoints
    BY DEF StartAccept, StartSupervisor, EnterWait, Woken, Exit, MainPoints
  <2>2. accept' \in {accept, "check"}
    BY DEF StartAccept, StartSupervisor, EnterWait, Woken, Exit
  <2>3. Types'
    BY <1>1, <1>3, <2>1 DEF Types, SupPoints, SupAt
  <2>4. FlagTypes'
    BY <1>1, <2>2 DEF FlagTypes
  <2> QED  BY <2>3, <2>4
<1>5. OneCall' /\ Stages'
  BY <1>1, <1>2 DEF OneCall, Stages
<1>6. Still' /\ OpenKnown' /\ Emptied'
  BY <1>1, <1>2, <1>3 DEF Still, OpenKnown, Emptied, SupAt
<1>7. Ending'
  <2>1. main' \in {"join_accept", "exited"} => main = "join_accept"
    BY DEF StartAccept, StartSupervisor, EnterWait, Woken, Exit
  <2> QED  BY <1>1, <1>2, <1>3, <2>1 DEF Ending
<1> QED  BY <1>4, <1>5, <1>6, <1>7

(* A signal, and _run_serve's own call.                                    *)
LEMMA NewCalls ==
    ASSUME ServeInv, Signal \/ CallShutdown
    PROVE  ServeInv'
<1> USE DEF MainGoto, ServeInv, fleetVars, threadVars
<1>1. /\ Called
      /\ UNCHANGED <<done, stopEvent, abandoned, advClosed, loopClosed, boards, open, ads,
                     sup, accept>>
  BY DEF Signal, CallShutdown
<1>2. PICK top : /\ DOMAIN frames' = DOMAIN frames \cup {top} /\ top \notin DOMAIN frames
                 /\ frames'[top] = "lock"
                 /\ \A i \in DOMAIN frames : frames'[i] = frames[i]
  BY <1>1, CallBegins
<1>3. /\ \A points \in SUBSET Teardown : On(points)' <=> On(points)
      /\ On({"lock", "locked"})'
  BY <1>2 DEF On, Teardown
<1>4. main' \in MainPoints /\ signals' \in 0..MaxSignals
  BY ShutdownAssumption DEF Signal, CallShutdown, MainPoints, FlagTypes, Types
<1>5. Types' /\ FlagTypes'
  BY <1>1, <1>4, CallBegins DEF Types, FlagTypes
<1>6. OneCall'
  BY <1>2 DEF OneCall, Teardown
<1>7. Stages' /\ Still' /\ OpenKnown' /\ Emptied'
  BY <1>1, <1>3 DEF Stages, Still, OpenKnown, Emptied, Teardown
<1>8. Ending'
  <2>1. /\ main' \in {"starting", "half_started"} => main \in {"starting", "half_started"}
        /\ main' # "exited"
    BY DEF Signal, CallShutdown
  <2> QED  BY <1>1, <1>3, <2>1 DEF Ending
<1> QED  BY <1>5, <1>6, <1>7, <1>8

(* Returning, and the entry into `with self._lock`.                        *)
LEMMA CallsBesideTeardown ==
    ASSUME ServeInv, Return \/ Acquire \/ (Decide /\ done)
    PROVE  ServeInv'
<1> USE DEF ServeInv, fleetVars, threadVars
<1>1. /\ UNCHANGED <<main, done, stopEvent, signals, abandoned, advClosed, loopClosed,
                     boards, open, ads, sup, accept>>
      /\ frames # <<>>
  BY DEF Return, Acquire, Decide, At, FlagTypes
<1>2. /\ frames' \in Seq(Points) /\ OneCall'
      /\ \A points \in SUBSET Teardown : On(points)' <=> On(points)
      /\ done \/ (On({"lock", "locked"}) => On({"lock", "locked"})')
  <2>1. CASE Return
    BY <2>1, CallReturns DEF Return, OneCall, On, Teardown
  <2>2. CASE Acquire
    <3>1. "lock" \in Points \ Teardown /\ "locked" \in Points \ Teardown
      BY DEF Points, Teardown
    <3>2. /\ frames' \in Seq(Points) /\ OneCall'
          /\ \A points \in SUBSET Teardown : On(points)' <=> On(points)
          /\ On({"locked"})'
      BY <2>2, <3>1, OtherMoves DEF Acquire
    <3> QED  BY <3>2 DEF On
  <2>3. CASE Decide /\ done
    <3>1. "locked" \in Points \ Teardown /\ "return" \in Points \ Teardown
      BY DEF Points, Teardown
    <3> QED  BY <2>3, <3>1, OtherMoves DEF Decide
  <2> QED  BY <2>1, <2>2, <2>3
<1>3. Types' /\ FlagTypes'
  BY <1>1, <1>2 DEF Types, FlagTypes
<1>4. Stages' /\ Still' /\ OpenKnown' /\ Emptied'
  BY <1>1, <1>2 DEF Stages, Still, OpenKnown, Emptied, Teardown
<1>5. Ending'
  BY <1>1, <1>2 DEF Ending
<1> QED  BY <1>2, <1>3, <1>4, <1>5

(* The stages of the teardown.                                             *)
LEMMA TeardownSteps ==
    ASSUME ServeInv,
           \/ Decide /\ ~done
           \/ SetStop \/ JoinSupervisor \/ CloseListeners \/ CloseAdvertiser \/ CloseAcceptLoop
    PROVE  ServeInv'
<1> USE DEF ServeInv, fleetVars, threadVars
<1> USE DEF FlagTypes
<1>1. PICK p \in {"locked"} \cup Teardown, q \in Teardown \cup {"return"} :
              /\ At(p) /\ Step(q)
              /\ p = "locked" <=> ~done
              /\ p = "locked" => Decide /\ q = "set"
              /\ p = "set" => SetStop /\ q = "join"
              /\ p = "join" => JoinSupervisor /\ q = "listeners"
              /\ p = "listeners" => CloseListeners /\ q = "advertiser"
              /\ p = "advertiser" => CloseAdvertiser /\ q = "accept_loop"
              /\ p = "accept_loop" => CloseAcceptLoop /\ q = "return"
  <2> USE DEF Teardown
  <2>1. CASE Decide /\ ~done
    <3>1. At("locked") /\ Step("set")
      BY <2>1 DEF Decide
    <3> QED  BY <2>1, <3>1
  <2>2. \A p \in Teardown : At(p) => done
    <3> SUFFICES ASSUME NEW p \in Teardown, At(p) PROVE On(Teardown)
      BY DEF Stages
    <3>1. Len(frames) \in DOMAIN frames
      BY LenProperties, EmptySeq DEF At, Types
    <3> QED  BY <3>1 DEF At, On
  <2>3. CASE SetStop
    BY <2>2, <2>3 DEF SetStop
  <2>4. CASE JoinSupervisor
    BY <2>2, <2>4 DEF JoinSupervisor
  <2>5. CASE CloseListeners
    BY <2>2, <2>5 DEF CloseListeners
  <2>6. CASE CloseAdvertiser
    BY <2>2, <2>6 DEF CloseAdvertiser
  <2>7. CASE CloseAcceptLoop
    BY <2>2, <2>7 DEF CloseAcceptLoop
  <2> QED  BY <2>1, <2>3, <2>4, <2>5, <2>6, <2>7
<1>2. /\ frames' \in Seq(Points) /\ OneCall' /\ TeardownAt(q)'
      /\ p \in Teardown => On({p})
      /\ frames # <<>>
  <2>1. p \in Points /\ q \in Points /\ q # "locked"
    BY DEF Points, Teardown
  <2>2. p \in Teardown \/ ~On(Teardown)
    BY <1>1 DEF Stages
  <2>3. frames # <<>>
    BY <1>1 DEF At
  <2> QED  BY <1>1, <2>1, <2>2, <2>3, TeardownMoves
<1>3. \A points \in SUBSET Teardown : On(points)' <=> q \in points
  <2> SUFFICES ASSUME NEW points \in SUBSET Teardown PROVE On(points)' <=> q \in points
    OBVIOUS
  <2> QED  BY <1>2 DEF TeardownAt, On
<1>4. /\ On(Teardown)' <=> q # "return"
      /\ On(Teardown \ {"set"})' <=> q \notin {"set", "return"}
      /\ On({"set", "join", "listeners", "advertiser"})' <=> q \notin {"accept_loop", "return"}
      /\ On({"listeners", "advertiser", "accept_loop"})' <=> q \notin {"set", "join", "return"}
      /\ On({"advertiser", "accept_loop"})' <=> q \in {"advertiser", "accept_loop"}
      /\ On({"accept_loop"})' <=> q = "accept_loop"
  <2> USE DEF Teardown
  <2>1. On(Teardown)' <=> q # "return"
    BY <1>3
  <2>2. On(Teardown \ {"set"})' <=> q \notin {"set", "return"}
    BY <1>3
  <2>3. On({"set", "join", "listeners", "advertiser"})' <=> q \notin {"accept_loop", "return"}
    BY <1>3
  <2>4. On({"listeners", "advertiser", "accept_loop"})' <=> q \notin {"set", "join", "return"}
    BY <1>3
  <2>5. On({"advertiser", "accept_loop"})' <=> q \in {"advertiser", "accept_loop"}
    BY <1>3
  <2>6. On({"accept_loop"})' <=> q = "accept_loop"
    BY <1>3
  <2> QED  BY <2>1, <2>2, <2>3, <2>4, <2>5, <2>6
<1>5. /\ UNCHANGED <<main, signals, boards, sup, accept>>
      /\ open' \subseteq open /\ ads' \subseteq ads /\ done'
      /\ stopEvent' = (q = "join" \/ stopEvent)
      /\ advClosed' = (q = "accept_loop" \/ advClosed) /\ (q = "accept_loop" => ads' = {})
      /\ loopClosed' = (q = "return" \/ loopClosed)
      /\ abandoned' \in BOOLEAN
      /\ q # "listeners" => UNCHANGED abandoned
      /\ q = "listeners" => abandoned' \/ sup.at \in {"unstarted", "ended"}
      /\ q = "advertiser" => open' = open \ boards
  <2>1. CASE p = "locked"
    BY <1>1, <2>1 DEF Decide
  <2>2. CASE p = "set"
    BY <1>1, <2>2 DEF SetStop
  <2>3. CASE p = "join"
    BY <1>1, <2>3 DEF JoinSupervisor
  <2>4. CASE p = "listeners"
    BY <1>1, <2>4 DEF CloseListeners
  <2>5. CASE p = "advertiser"
    BY <1>1, <2>5 DEF CloseAdvertiser
  <2>6. CASE p = "accept_loop"
    BY <1>1, <2>6 DEF CloseAcceptLoop
  <2> QED  BY <2>1, <2>2, <2>3, <2>4, <2>5, <2>6 DEF Teardown
<1>6. /\ p \in Teardown => done /\ ~loopClosed
      /\ p \in Teardown \ {"set"} => stopEvent
      /\ p \in {"set", "join", "listeners", "advertiser"} => ~advClosed
      /\ p = "accept_loop" => advClosed
      /\ p \in {"listeners", "advertiser", "accept_loop"} =>
            abandoned \/ sup.at \in {"unstarted", "loop", "ended"}
      /\ p \in {"advertiser", "accept_loop"} => abandoned \/ open = {}
  <2>1. \A points : p \in points /\ p \in Teardown => On(points)
    BY <1>2 DEF On
  <2>2. /\ p \in Teardown => done /\ ~loopClosed
        /\ p \in Teardown \ {"set"} => stopEvent
        /\ p \in {"set", "join", "listeners", "advertiser"} => ~advClosed
        /\ p = "accept_loop" => advClosed
    BY <2>1 DEF Stages, Teardown
  <2>3. p \in {"listeners", "advertiser", "accept_loop"} =>
            abandoned \/ sup.at \in {"unstarted", "loop", "ended"}
    BY <2>1 DEF Still, Teardown
  <2>4. p \in {"advertiser", "accept_loop"} => abandoned \/ open = {}
    BY <2>1 DEF Emptied, Teardown
  <2> QED  BY <2>2, <2>3, <2>4
<1>7. /\ \/ p = "locked" /\ q = "set"
         \/ p = "set" /\ q = "join"
         \/ p = "join" /\ q = "listeners"
         \/ p = "listeners" /\ q = "advertiser"
         \/ p = "advertiser" /\ q = "accept_loop"
         \/ p = "accept_loop" /\ q = "return"
      /\ p = "locked" <=> ~done
  <2>1. p \in {"locked", "set", "join", "listeners", "advertiser", "accept_loop"}
    BY DEF Teardown
  <2> QED  BY <1>1, <2>1
<1>8. Types' /\ FlagTypes'
  <2>1. Types'
    BY <1>2, <1>5 DEF Types
  <2> QED  BY <1>5, <2>1
<1>9. Stages'
  <2>1. p = "locked" => ~advClosed /\ ~loopClosed
    BY <1>7 DEF Stages
  <2>2. stopEvent /\ q # "accept_loop" /\ advClosed => ads' = {}
    BY <1>5 DEF Stages
  <2>3. CASE q \in {"set", "join", "listeners", "advertiser"}
    BY <1>4, <1>5, <1>6, <1>7, <2>1, <2>3 DEF Stages
  <2>4. CASE q \in {"accept_loop", "return"}
    BY <1>4, <1>5, <1>6, <1>7, <2>2, <2>4 DEF Stages
  <2> QED  BY <1>7, <2>3, <2>4
<1>10. Still' /\ OpenKnown'
  <2>1. Still'
    BY <1>4, <1>5, <1>6, <1>7 DEF Still
  <2>2. OpenKnown'
    BY <1>5 DEF OpenKnown
  <2> QED  BY <2>1, <2>2
<1>11. Emptied'
  <2>1. CASE q = "advertiser"
    <3>1. abandoned \/ open \subseteq boards
      BY <1>6, <1>7, <2>1 DEF OpenKnown
    <3> QED  BY <1>5, <2>1, <3>1 DEF Emptied
  <2>2. CASE q # "advertiser"
    BY <1>4, <1>5, <1>6, <1>7, <2>2 DEF Emptied, Stages
  <2> QED  BY <2>1, <2>2
<1>12. Ending'
  <2>1. On(Teardown)' \/ loopClosed'
    BY <1>4, <1>5
  <2>2. main # "exited"
    BY <1>2 DEF Ending
  <2> QED  BY <1>5, <2>1, <2>2 DEF Ending
<1> QED  BY <1>2, <1>8, <1>9, <1>10, <1>11, <1>12

(* The other two threads.                                                  *)
LEMMA OtherThreads ==
    ASSUME ServeInv, SupStep \/ AcceptStep
    PROVE  ServeInv'
<1> USE DEF ServeInv, SupGoto, callVars, fleetVars
<1>1. /\ UNCHANGED <<main, frames, done, stopEvent, signals, abandoned, advClosed, loopClosed>>
      /\ accept' \in {accept, "ended", "select", "raised", "check"}
  BY DEF SupStep, SupLoops, SupTickEnds, SupArrival, SupRegisters, SupListens, SupDeparture,
         AcceptStep, AcceptChecks, AcceptSelects
<1>2. \A points : On(points)' <=> On(points)
  BY <1>1 DEF On
<1>3. FlagTypes' /\ OneCall'
  BY <1>1 DEF FlagTypes, OneCall
<1>4. CASE AcceptStep
  <2>1. UNCHANGED <<sup, boards, open, ads>>
    BY <1>4 DEF AcceptStep
  <2> QED  BY <1>1, <1>2, <1>3, <2>1 DEF Types, Stages, Still, OpenKnown, Emptied, Ending
<1>5. CASE SupLoops \/ SupTickEnds
  <2>1. /\ UNCHANGED <<boards, open, ads>> /\ sup' = SupAt(sup'.at)
        /\ sup.at \in {"loop", "tick"} /\ sup'.at \in {"loop", "tick", "ended"}
        /\ sup'.at = "tick" => sup.at = "loop" /\ ~stopEvent
    BY <1>5 DEF SupLoops, SupTickEnds, SupAt
  <2>2. Types'
    BY <1>1, <2>1 DEF Types, SupAt, SupPoints
  <2>3. Stages' /\ Emptied' /\ OpenKnown'
    BY <1>1, <1>2, <2>1 DEF Stages, Emptied, OpenKnown
  <2>4. Still'
    <3>1. On({"listeners", "advertiser", "accept_loop"}) => stopEvent
      BY DEF Stages, On, Teardown
    <3> QED  BY <1>1, <1>2, <2>1, <3>1 DEF Still, Stages
  <2>5. Ending'
    BY <1>1, <1>2, <2>1 DEF Ending
  <2> QED  BY <1>3, <2>2, <2>3, <2>4, <2>5
<1>6. ASSUME NEW u \in Uids, SupArrival(u) \/ SupDeparture(u) PROVE ServeInv'
  <2>1. /\ sup.at = "tick" /\ boards' \in SUBSET Uids /\ open' \in SUBSET Uids
        /\ ads' \in SUBSET Uids /\ ads' \subseteq ads
        /\ sup' \in {SupAt("tick"), [at |-> "register", uid |-> u]}
    BY <1>6 DEF SupArrival, SupDeparture, Types
  <2>2. Types'
    BY <1>1, <2>1 DEF Types, SupAt, SupPoints
  <2>3. abandoned \/ ~(On({"listeners", "advertiser", "accept_loop"}) \/ advClosed)
    BY <2>1 DEF Still
  <2>4. Still' /\ Emptied'
    <3>1. On({"advertiser", "accept_loop"}) => On({"listeners", "advertiser", "accept_loop"})
      BY DEF On
    <3> QED  BY <1>1, <1>2, <2>3, <3>1 DEF Still, Emptied
  <2>5. OpenKnown'
    BY <1>6, <2>1 DEF OpenKnown, SupArrival, SupDeparture, SupAt
  <2>6. Stages' /\ Ending'
    BY <1>1, <1>2, <2>1 DEF Stages, Ending
  <2> QED  BY <1>3, <2>2, <2>4, <2>5, <2>6
<1>7. CASE SupRegisters
  <2>1. /\ sup.at = "register" /\ sup.uid \in Uids /\ UNCHANGED boards
        /\ sup = [at |-> sup.at, uid |-> sup.uid]
    BY <1>7 DEF SupRegisters, Types
  <2>2. CASE advClosed
    <3>1. sup' = SupAt("ended") /\ open' = open \ {sup.uid} /\ UNCHANGED ads
      BY <1>7, <2>2 DEF SupRegisters
    <3>2. Types'
      BY <1>1, <2>1, <3>1 DEF Types, SupAt, SupPoints
    <3>3. Still' /\ Emptied' /\ OpenKnown'
      BY <1>1, <1>2, <2>1, <3>1 DEF Still, Emptied, OpenKnown, SupAt
    <3>4. Stages' /\ Ending'
      BY <1>1, <1>2, <2>1, <3>1 DEF Stages, Ending
    <3> QED  BY <1>3, <3>2, <3>3, <3>4
  <2>3. CASE ~advClosed
    <3>1. /\ sup' = [at |-> "listen", uid |-> sup.uid] /\ ads' = ads \cup {sup.uid}
          /\ UNCHANGED open
      BY <1>7, <2>1, <2>3 DEF SupRegisters
    <3>2. Types'
      BY <1>1, <2>1, <3>1 DEF Types, SupPoints
    <3>3. Still' /\ Emptied' /\ OpenKnown'
      BY <1>1, <1>2, <2>1, <3>1 DEF Still, Emptied, OpenKnown
    <3>4. Stages' /\ Ending'
      BY <1>1, <1>2, <2>1, <2>3, <3>1 DEF Stages, Ending
    <3> QED  BY <1>3, <3>2, <3>3, <3>4
  <2> QED  BY <2>2, <2>3
<1>8. CASE SupListens
  <2>1. sup.at = "listen" /\ sup.uid \in Uids /\ UNCHANGED ads
    BY <1>8 DEF SupListens, Types
  <2>2. \/ sup' = SupAt("ended") /\ open' = open \ {sup.uid} /\ UNCHANGED boards
        \/ sup' = SupAt("tick") /\ boards' = boards \cup {sup.uid} /\ UNCHANGED open /\ ~loopClosed
    BY <1>8 DEF SupListens
  <2>3. Types'
    BY <1>1, <2>1, <2>2 DEF Types, SupAt, SupPoints
  <2>4. Still' /\ Emptied' /\ OpenKnown'
    BY <1>1, <1>2, <2>1, <2>2 DEF Still, Emptied, OpenKnown, SupAt
  <2>5. Stages' /\ Ending'
    BY <1>1, <1>2, <2>1, <2>2 DEF Stages, Ending
  <2> QED  BY <1>3, <2>3, <2>4, <2>5
<1> QED  BY <1>4, <1>5, <1>6, <1>7, <1>8 DEF SupStep

-----------------------------------------------------------------------------
(* The theorems                                                            *)

LEMMA ServeStep ==
    ASSUME ServeInv, [Next]_vars
    PROVE  ServeInv'
<1>1. CASE UNCHANGED vars
  BY <1>1 DEF vars, ServeInv, Types, FlagTypes, OneCall, Stages, Still, OpenKnown, Emptied,
              Ending, On
<1>2. CASE MainStep
  BY <1>2, MainSteps, NewCalls, CallsBesideTeardown, TeardownSteps DEF MainStep, CallStep
<1>3. CASE Next /\ ~MainStep
  BY <1>1, <1>3, NewCalls, OtherThreads DEF Next, Ended
<1> QED  BY <1>1, <1>2, <1>3

LEMMA ServeHolds == Spec => []ServeInv
BY ServeInit, ServeStep, PTL DEF Spec

LEMMA FewerThanTwo ==
    ASSUME NEW S, \A x, y \in S : x = y
    PROVE  Cardinality(S) <= 1
<1>1. CASE S = {}
  BY <1>1, FS_EmptySet
<1>2. CASE S # {}
  <2>1. PICK x \in S : TRUE
    BY <1>2
  <2>2. S = {x}
    BY <2>1
  <2> QED  BY <2>2, FS_Singleton
<1> QED  BY <1>1, <1>2

(* Every variable keeps its type, and `with self._lock` excludes: at most  *)
(* one of the calls nested on the main thread is inside.                   *)
THEOREM TypeCorrect == Spec => []TypeOK
<1>1. ServeInv => TypeOK
  <2> SUFFICES ASSUME ServeInv PROVE TypeOK
    OBVIOUS
  <2>1. Cardinality(Calls("locked")) <= 1
    BY FewerThanTwo DEF ServeInv, OneCall, Calls
  <2>2. sup \in [at : {"unstarted", "loop", "tick", "register", "listen", "ended"},
                 uid : Uids \cup {None}]
    BY DEF ServeInv, Types, SupPoints
  <2> QED  BY <2>1, <2>2 DEF ServeInv, Types, FlagTypes, TypeOK, MainPoints, Points
<1> QED  BY <1>1, ServeHolds, PTL

(* "exactly once, no matter how many times it is invoked" (cli.py:959):    *)
(* however many signals interrupt the teardown, wherever they do.          *)
THEOREM TeardownHappensOnce == Spec => []TearsDownOnce
<1>1. ServeInv => TearsDownOnce
  <2> SUFFICES ASSUME ServeInv PROVE TearsDownOnce
    OBVIOUS
  <2> DEFINE busy == {i \in DOMAIN frames : frames[i] \in Teardown}
  <2>1. Cardinality(busy) <= 1
    BY FewerThanTwo DEF ServeInv, OneCall
  <2>2. loopClosed => busy = {}
    BY DEF ServeInv, Stages, On
  <2> QED  BY <2>1, <2>2 DEF TearsDownOnce
<1> QED  BY <1>1, ServeHolds, PTL

(* _ServeShutdown closes the Advertiser under no registration of the       *)
(* Supervisor's, unless that outlived the join (cli.py:972).               *)
THEOREM AdvertiserClosesIdle == Spec => []AdvertiserClosedIdle
<1>1. ServeInv => AdvertiserClosedIdle
  BY DEF ServeInv, Still, AdvertiserClosedIdle
<1> QED  BY <1>1, ServeHolds, PTL

(* When _run_serve returns, nothing is advertised and, unless the          *)
(* Supervisor outlived the join, no listener is open (cli.py:1047).        *)
THEOREM ServeExitsClean == Spec => []ExitIsClean
<1>1. ServeInv => ExitIsClean
  <2> SUFFICES ASSUME ServeInv, main = "exited" PROVE ExitIsClean
    BY DEF ExitIsClean
  <2>1. \A points : ~On(points)
    BY DEF ServeInv, Ending, On
  <2>2. loopClosed
    BY <2>1 DEF ServeInv, Ending
  <2> QED  BY <2>1, <2>2 DEF ServeInv, Stages, Emptied, ExitIsClean
<1> QED  BY <1>1, ServeHolds, PTL
=============================================================================
