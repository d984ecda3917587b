-------------------------- MODULE SupervisorProofs --------------------------
(***************************************************************************)
(* The port bookkeeping of Supervisor, for any number of micro:bits and    *)
(* any sequence of arrivals, departures and failures. PortInv is enough    *)
(* for exclusivity, with or without failures. That no pair is lost needs   *)
(* FleetInv: an arrival would overwrite the ports of a board that is up,   *)
(* and none does, because the tick's two sets come from one snapshot.      *)
(***************************************************************************)
EXTENDS Supervisor, TLAPS

(* TypeOK without the clause about boards, which exclusivity does not need *)
(* and which a failed departure breaks.                                    *)
PortTypes ==
    /\ held \in [Uids -> Nat \cup {None}]
    /\ freelist \in Seq(Nat)
    /\ nextPort \in Nat

(* Every pair in circulation was taken from below _next_port, so the next  *)
(* fresh pair is in nobody's hands.                                        *)
BelowNext ==
    /\ \A u \in Uids : held[u] # None => held[u] < nextPort
    /\ \A i \in DOMAIN freelist : freelist[i] < nextPort

(* PortsExclusive, element by element.                                     *)
Exclusive ==
    /\ \A u, v \in Uids : (held[u] # None /\ held[u] = held[v]) => u = v
    /\ \A u \in Uids, i \in DOMAIN freelist : held[u] # freelist[i]
    /\ \A i, j \in DOMAIN freelist : freelist[i] = freelist[j] => i = j

PortInv == PortTypes /\ BelowNext /\ Exclusive

(* The two forms of exclusivity say the same.                              *)
LEMMA ExclusiveIsEnough == PortTypes /\ Exclusive => PortsExclusive
<1> SUFFICES ASSUME PortTypes, Exclusive PROVE PortsExclusive
    OBVIOUS
<1>1. HeldPairs \cap FreePairs = {}
  <2> SUFFICES ASSUME NEW p \in HeldPairs, p \in FreePairs PROVE FALSE
      OBVIOUS
  <2>1. PICK u \in Uids : held[u] # None /\ p = held[u]
      BY DEF HeldPairs
  <2>2. PICK i \in DOMAIN freelist : p = freelist[i]
      BY DEF FreePairs
  <2> QED  BY <2>1, <2>2 DEF Exclusive
<1> QED  BY <1>1 DEF Exclusive, PortsExclusive

(* A sequence with its last element removed.                               *)
LEMMA Popped ==
    ASSUME NEW S, NEW q \in Seq(S), q # <<>>
    PROVE  LET r == SubSeq(q, 1, Len(q) - 1) IN
           /\ r \in Seq(S)
           /\ Len(q) \in DOMAIN q
           /\ DOMAIN r = 1..(Len(q) - 1)
           /\ DOMAIN r \subseteq DOMAIN q
           /\ \A i \in DOMAIN r : r[i] = q[i] /\ i # Len(q)
<1>1. Len(q) \in Nat /\ Len(q) # 0 /\ DOMAIN q = 1..Len(q)
    OBVIOUS
<1>2. Len(q) - 1 \in Nat /\ Len(q) - 1 <= Len(q)
    BY <1>1
<1> DEFINE r == SubSeq(q, 1, Len(q) - 1)
<1>3. r \in Seq(S) /\ Len(r) = Len(q) - 1 /\ \A i \in 1..(Len(q) - 1) : r[i] = q[i]
    BY <1>1, <1>2
<1>4. DOMAIN r = 1..(Len(q) - 1)
    BY <1>3
<1> QED  BY <1>1, <1>3, <1>4

(* Giving u the pair that AllocPorts chose, whether the rest of the        *)
(* arrival succeeds or not.                                                *)
LEMMA Allocated ==
    ASSUME PortInv, NEW u \in Uids,
           freelist' = AllocPorts[2], nextPort' = AllocPorts[3],
           held' \in {held, [held EXCEPT ![u] = AllocPorts[1]]}
    PROVE  PortInv'
<1> USE SupervisorAssumption
<1>1. CASE BasePort = 0
  <2>1. freelist' = freelist /\ nextPort' = nextPort /\ AllocPorts[1] = None
      BY <1>1 DEF AllocPorts
  <2> QED  BY <2>1 DEF PortInv, PortTypes, BelowNext, Exclusive
<1>2. CASE BasePort # 0 /\ freelist # <<>>
  <2> DEFINE n == Len(freelist)
             p == freelist[n]
  <2>1. freelist' = SubSeq(freelist, 1, n - 1) /\ nextPort' = nextPort /\ AllocPorts[1] = p
      BY <1>2 DEF AllocPorts
  <2>2. /\ freelist' \in Seq(Nat) /\ n \in DOMAIN freelist
        /\ DOMAIN freelist' \subseteq DOMAIN freelist
        /\ \A i \in DOMAIN freelist' : freelist'[i] = freelist[i] /\ i # n
      BY <1>2, <2>1, Popped DEF PortInv, PortTypes
  <2>3. p \in Nat /\ p # None /\ p < nextPort
      BY <2>2 DEF PortInv, PortTypes, BelowNext
  <2>4. \A v \in Uids : held[v] # p
      BY <2>2 DEF PortInv, Exclusive
  <2>5. \A i \in DOMAIN freelist' : freelist'[i] # p
      BY <2>2 DEF PortInv, Exclusive
  <2> HIDE DEF p, n
  <2>6. \A v \in Uids : held'[v] \in {held[v], p} /\ (held'[v] = p => v = u)
      BY <2>1, <2>4 DEF PortInv, PortTypes
  <2>7. PortTypes'
      BY <2>1, <2>2, <2>3 DEF PortInv, PortTypes
  <2>8. BelowNext'
      BY <2>1, <2>2, <2>3, <2>6 DEF PortInv, BelowNext
  <2>9. Exclusive'
      BY <2>2, <2>4, <2>5, <2>6 DEF PortInv, Exclusive
  <2> QED  BY <2>7, <2>8, <2>9 DEF PortInv
<1>3. CASE BasePort # 0 /\ freelist = <<>>
  <2>1. freelist' = freelist /\ nextPort' = nextPort + 2 /\ AllocPorts[1] = nextPort
      BY <1>3 DEF AllocPorts
  <2>2. nextPort \in Nat /\ nextPort # None /\ DOMAIN freelist' = {}
      BY <1>3, <2>1 DEF PortInv, PortTypes
  <2>3. \A v \in Uids : held[v] # nextPort
      BY <2>2 DEF PortInv, PortTypes, BelowNext
  <2>4. \A v \in Uids : held'[v] \in {held[v], nextPort} /\ (held'[v] = nextPort => v = u)
      BY <2>1, <2>3 DEF PortInv, PortTypes
  <2>5. PortTypes'
      BY <2>1, <2>2 DEF PortInv, PortTypes
  <2>6. BelowNext'
      BY <2>1, <2>2, <2>4 DEF PortInv, PortTypes, BelowNext
  <2>7. Exclusive'
      BY <2>2, <2>3, <2>4 DEF PortInv, Exclusive
  <2> QED  BY <2>5, <2>6, <2>7 DEF PortInv
<1> QED  BY <1>1, <1>2, <1>3

(* Putting u's pair back on the free-list.                                 *)
LEMMA Reclaimed ==
    ASSUME PortInv, NEW u \in Uids, ReclaimPorts(u), UNCHANGED nextPort
    PROVE  PortInv'
<1> USE SupervisorAssumption
<1>1. held' = [held EXCEPT ![u] = None]
    BY DEF ReclaimPorts
<1>2. \A v \in Uids : held'[v] = IF v = u THEN None ELSE held[v]
    BY <1>1 DEF PortInv, PortTypes
<1>3. CASE held[u] = None
  <2>1. freelist' = freelist
      BY <1>3 DEF ReclaimPorts
  <2> QED  BY <1>1, <1>2, <2>1 DEF PortInv, PortTypes, BelowNext, Exclusive
<1>4. CASE held[u] # None
  <2> DEFINE n == Len(freelist)
             p == held[u]
  <2>1. freelist' = Append(freelist, p)
      BY <1>4 DEF ReclaimPorts
  <2>2. p \in Nat /\ p < nextPort /\ n \in Nat /\ DOMAIN freelist = 1..n
      BY <1>4 DEF PortInv, PortTypes, BelowNext
  <2>3. /\ freelist' \in Seq(Nat)
        /\ DOMAIN freelist' = 1..(n + 1)
        /\ freelist'[n + 1] = p
        /\ \A i \in 1..n : freelist'[i] = freelist[i] /\ freelist[i] \in Nat
      BY <2>1, <2>2 DEF PortInv, PortTypes
  <2>4. \A v \in Uids : v # u => held[v] # p
      BY <1>4 DEF PortInv, Exclusive
  <2>5. \A i \in DOMAIN freelist : freelist[i] # p
      BY DEF PortInv, Exclusive
  <2> HIDE DEF p, n
  <2>6. PortTypes'
      BY <1>1, <2>3 DEF PortInv, PortTypes
  <2>7. BelowNext'
      BY <1>2, <2>2, <2>3 DEF PortInv, BelowNext
  <2>8. \A i \in DOMAIN freelist' : i \in DOMAIN freelist \/ i = n + 1
      BY <2>2, <2>3
  <2>9. Exclusive'
    <3>1. \A v, w \in Uids : (held'[v] # None /\ held'[v] = held'[w]) => v = w
        BY <1>2 DEF PortInv, Exclusive
    <3>2. \A v \in Uids, i \in DOMAIN freelist' : held'[v] # freelist'[i]
      <4> SUFFICES ASSUME NEW v \in Uids, NEW i \in DOMAIN freelist'
                   PROVE  held'[v] # freelist'[i]
          OBVIOUS
      <4>1. freelist'[i] # None
        <5>1. freelist'[i] \in Nat
            BY <2>2, <2>3, <2>8
        <5> QED  BY <5>1 DEF SupervisorAssumption
      <4>2. CASE v = u
          BY <1>2, <4>1, <4>2
      <4>3. CASE v # u /\ i \in DOMAIN freelist
          BY <1>2, <2>2, <2>3, <4>3 DEF PortInv, Exclusive
      <4>4. CASE v # u /\ i = n + 1
          BY <1>2, <2>3, <2>4, <4>4
      <4> QED  BY <2>8, <4>2, <4>3, <4>4
    <3>3. \A i, j \in DOMAIN freelist' : freelist'[i] = freelist'[j] => i = j
        BY <2>2, <2>3, <2>5, <2>8 DEF PortInv, Exclusive
    <3> QED  BY <3>1, <3>2, <3>3 DEF Exclusive
  <2> QED  BY <2>6, <2>7, <2>9 DEF PortInv
<1> QED  BY <1>3, <1>4

LEMMA InitPortInv == Init => PortInv
<1> SUFFICES ASSUME Init PROVE PortInv
    OBVIOUS
<1>1. DOMAIN freelist = {} /\ freelist \in Seq(Nat)
    BY DEF Init
<1>2. \A u \in Uids : held[u] = None
    BY DEF Init
<1> QED
    BY <1>1, <1>2, SupervisorAssumption DEF Init, PortInv, PortTypes, BelowNext, Exclusive

LEMMA StepPortInv == PortInv /\ [Next]_vars => PortInv'
<1> SUFFICES ASSUME PortInv, [Next]_vars PROVE PortInv'
    OBVIOUS
<1> USE DEF portVars
<1>0. CASE UNCHANGED portVars
    BY <1>0 DEF PortInv, PortTypes, BelowNext, Exclusive
<1>1. CASE Poll
    BY <1>0, <1>1 DEF Poll
<1>2. ASSUME NEW u \in Uids, OnDeparture(u) PROVE PortInv'
  <2>1. CASE u \in boards
      BY <1>2, <2>1, Reclaimed DEF OnDeparture
  <2>2. CASE u \notin boards
      BY <1>0, <1>2, <2>2 DEF OnDeparture
  <2> QED  BY <2>1, <2>2
<1>3. ASSUME NEW u \in Uids, DepartureRaises(u) PROVE PortInv'
    BY <1>0, <1>3 DEF DepartureRaises
<1>4. ASSUME NEW u \in Uids, OnArrival(u) PROVE PortInv'
    BY <1>4, Allocated DEF OnArrival
<1>5. ASSUME NEW u \in Uids, ArrivalRaises(u) PROVE PortInv'
  <2>1. CASE UNCHANGED <<freelist, nextPort, ads>>
      BY <1>0, <1>5, <2>1 DEF ArrivalRaises
  <2>2. CASE freelist' = AllocPorts[2] /\ nextPort' = AllocPorts[3]
      BY <1>5, <2>2, Allocated DEF ArrivalRaises
  <2> QED  BY <1>5, <2>1, <2>2 DEF ArrivalRaises
<1>6. CASE EndTick
    BY <1>0, <1>6 DEF EndTick
<1>7. ASSUME NEW u \in Uids, UsbChange(u) PROVE PortInv'
    BY <1>0, <1>7 DEF UsbChange
<1>8. CASE UNCHANGED vars
    BY <1>0, <1>8 DEF vars
<1> QED  BY <1>1, <1>2, <1>3, <1>4, <1>5, <1>6, <1>7, <1>8 DEF Next, Work

(* No port pair is ever in two hands, however many micro:bits come and go  *)
(* and whatever fails on the way (_alloc_ports and the end of              *)
(* _on_departure).                                                         *)
THEOREM PortsAreExclusive == Spec => []PortsExclusive
<1>1. PortInv => PortsExclusive
    BY ExclusiveIsEnough DEF PortInv
<1> QED  BY InitPortInv, StepPortInv, <1>1, PTL DEF Spec

-----------------------------------------------------------------------------
(* What is up, and that no pair is lost                                    *)

SetTypes ==
    /\ attached \in SUBSET Uids
    /\ at \in {"poll", "tick", "dead"}
    /\ known \in SUBSET Uids /\ current \in SUBSET Uids
    /\ departed \in SUBSET Uids /\ arrived \in SUBSET Uids
    /\ boards \in SUBSET Uids
    /\ ads \in SUBSET (Uids \X Kinds)
    /\ listening \in SUBSET (Uids \X Kinds)

(* A board that arrives is not up yet: boards that are up were known or    *)
(* have arrived in this tick.                                              *)
Diffed ==
    /\ at = "poll" => boards \subseteq known
    /\ at = "tick" => /\ boards \subseteq current \cup departed
                      /\ arrived \subseteq current /\ boards \cap arrived = {}

OnlyBoardsHold == at # "dead" => \A u \in Uids : held[u] # None => u \in boards

(* The pairs handed out so far, and the next one in their row.             *)
Pairs(n) == {p \in BasePort..n : p < n /\ (p - BasePort) % 2 = 0}
NextInRow == nextPort >= BasePort /\ (nextPort - BasePort) % 2 = 0
Conserved == at # "dead" => HeldPairs \cup FreePairs = Pairs(nextPort)

FleetInv == PortInv /\ SetTypes /\ Diffed /\ OnlyBoardsHold /\ NextInRow /\ Conserved

LEMMA OnePairMore ==
    ASSUME NextInRow, nextPort \in Nat
    PROVE  /\ Pairs(nextPort + 2) = Pairs(nextPort) \cup {nextPort}
           /\ nextPort + 2 >= BasePort /\ (nextPort + 2 - BasePort) % 2 = 0
<1> USE SupervisorAssumption
<1>1. BasePort \in Nat
  BY DEF SupervisorAssumption
<1>2. nextPort + 2 >= BasePort /\ (nextPort + 2 - BasePort) % 2 = 0
  BY <1>1 DEF NextInRow
<1>3. \A p \in Nat : p \in Pairs(nextPort + 2) <=> p \in Pairs(nextPort) \/ p = nextPort
  <2> SUFFICES ASSUME NEW p \in Nat
               PROVE  p \in Pairs(nextPort + 2) <=> p \in Pairs(nextPort) \/ p = nextPort
    OBVIOUS
  <2>1. p = nextPort + 1 => (p - BasePort) % 2 = 1
    BY <1>1 DEF NextInRow
  <2>2. p < nextPort + 2 <=> p < nextPort \/ p = nextPort \/ p = nextPort + 1
    OBVIOUS
  <2> QED  BY <1>1, <2>1, <2>2 DEF Pairs, NextInRow
<1>4. \A p \in Pairs(nextPort + 2) \cup Pairs(nextPort) : p \in Nat
  BY <1>1 DEF Pairs
<1> QED  BY <1>2, <1>3, <1>4

(* A pair that u, who held none, is given from the free-list or anew.      *)
LEMMA AllocatedAll ==
    ASSUME PortInv, NextInRow, NEW u \in Uids, held[u] = None,
           freelist' = AllocPorts[2], nextPort' = AllocPorts[3],
           held' = [held EXCEPT ![u] = AllocPorts[1]],
           HeldPairs \cup FreePairs = Pairs(nextPort)
    PROVE  NextInRow' /\ (HeldPairs \cup FreePairs = Pairs(nextPort))'
<1> USE SupervisorAssumption
<1>1. CASE BasePort = 0
  <2>1. freelist' = freelist /\ nextPort' = nextPort /\ AllocPorts[1] = None
      BY <1>1 DEF AllocPorts
  <2>2. held' = held
      BY <2>1 DEF PortInv, PortTypes
  <2> QED  BY <2>1, <2>2 DEF NextInRow, HeldPairs, FreePairs, Pairs
<1>2. CASE BasePort # 0 /\ freelist # <<>>
  <2> DEFINE n == Len(freelist)
             p == freelist[n]
  <2>1. freelist' = SubSeq(freelist, 1, n - 1) /\ nextPort' = nextPort /\ AllocPorts[1] = p
      BY <1>2 DEF AllocPorts
  <2>2. /\ freelist' \in Seq(Nat) /\ n \in DOMAIN freelist
        /\ DOMAIN freelist' = 1..(n - 1)
        /\ DOMAIN freelist' \subseteq DOMAIN freelist
        /\ \A i \in DOMAIN freelist' : freelist'[i] = freelist[i] /\ i # n
      BY <1>2, <2>1, Popped DEF PortInv, PortTypes
  <2>3. n \in Nat /\ DOMAIN freelist = 1..n
      BY DEF PortInv, PortTypes
  <2>4. p \in Nat /\ p # None
      BY <2>2 DEF PortInv, PortTypes
  <2>5. \A i \in DOMAIN freelist : i \in DOMAIN freelist' \/ i = n
      BY <2>2, <2>3
  <2> HIDE DEF p, n
  <2>6. FreePairs = FreePairs' \cup {p}
    <3>1. freelist[n] = p
        BY DEF p
    <3> QED  BY <2>2, <2>5, <3>1 DEF FreePairs
  <2>7. \A v \in Uids : held'[v] = IF v = u THEN p ELSE held[v]
      BY <2>1 DEF PortInv, PortTypes
  <2>8. HeldPairs' = HeldPairs \cup {p}
      BY <2>4, <2>7 DEF HeldPairs
  <2>9. NextInRow' /\ Pairs(nextPort)' = Pairs(nextPort)
      BY <2>1 DEF NextInRow, Pairs
  <2> QED  BY <2>6, <2>8, <2>9
<1>3. CASE BasePort # 0 /\ freelist = <<>>
  <2>1. freelist' = freelist /\ nextPort' = nextPort + 2 /\ AllocPorts[1] = nextPort
      BY <1>3 DEF AllocPorts
  <2>2. nextPort \in Nat /\ nextPort # None
      BY DEF PortInv, PortTypes
  <2>3. \A v \in Uids : held'[v] = IF v = u THEN nextPort ELSE held[v]
      BY <2>1 DEF PortInv, PortTypes
  <2>4. HeldPairs' = HeldPairs \cup {nextPort} /\ FreePairs' = FreePairs
      BY <2>1, <2>2, <2>3 DEF HeldPairs, FreePairs
  <2>5. NextInRow' /\ Pairs(nextPort)' = Pairs(nextPort) \cup {nextPort}
      BY <2>1, <2>2, OnePairMore DEF NextInRow, Pairs
  <2> QED  BY <2>4, <2>5
<1> QED  BY <1>1, <1>2, <1>3

(* A pair given back stays in circulation.                                 *)
LEMMA ReclaimedAll ==
    ASSUME PortInv, NEW u \in Uids, ReclaimPorts(u)
    PROVE  (HeldPairs \cup FreePairs)' = HeldPairs \cup FreePairs
<1> USE SupervisorAssumption
<1>1. \A v \in Uids : held'[v] = IF v = u THEN None ELSE held[v]
    BY DEF ReclaimPorts, PortInv, PortTypes
<1>2. CASE held[u] = None
  <2>1. freelist' = freelist /\ \A v \in Uids : held'[v] = held[v]
      BY <1>1, <1>2 DEF ReclaimPorts
  <2> QED  BY <2>1 DEF HeldPairs, FreePairs
<1>3. CASE held[u] # None
  <2> DEFINE n == Len(freelist)
             p == held[u]
  <2>1. /\ freelist' = Append(freelist, p) /\ p \in Nat
        /\ n \in Nat /\ DOMAIN freelist = 1..n
      BY <1>3 DEF ReclaimPorts, PortInv, PortTypes
  <2>2. /\ DOMAIN freelist' = 1..(n + 1)
        /\ freelist'[n + 1] = p
        /\ \A i \in 1..n : freelist'[i] = freelist[i]
      BY <2>1 DEF PortInv, PortTypes
  <2>3. \A i \in DOMAIN freelist' : i \in DOMAIN freelist \/ i = n + 1
      BY <2>1, <2>2
  <2>4. n + 1 \in DOMAIN freelist' /\ DOMAIN freelist \subseteq DOMAIN freelist'
      BY <2>1, <2>2
  <2>5. FreePairs' = FreePairs \cup {p}
      BY <2>1, <2>2, <2>3, <2>4 DEF FreePairs
  <2>6. HeldPairs = HeldPairs' \cup {p}
      BY <1>1, <1>3 DEF HeldPairs
  <2> QED  BY <2>5, <2>6
<1> QED  BY <1>2, <1>3

LEMMA InitFleetInv == Init => FleetInv
<1> SUFFICES ASSUME Init PROVE FleetInv
    OBVIOUS
<1>1. PortInv
    BY InitPortInv
<1>2. SetTypes /\ Diffed /\ OnlyBoardsHold
    BY DEF Init, SetTypes, Diffed, OnlyBoardsHold
<1>3. NextInRow
    BY SupervisorAssumption DEF Init, NextInRow
<1>4. HeldPairs = {} /\ FreePairs = {}
  <2>1. DOMAIN freelist = {} /\ \A u \in Uids : held[u] = None
      BY DEF Init
  <2> QED  BY <2>1 DEF HeldPairs, FreePairs
<1>5. Pairs(nextPort) = {}
    BY SupervisorAssumption DEF Init, Pairs
<1> QED  BY <1>1, <1>2, <1>3, <1>4, <1>5 DEF FleetInv, Conserved

(* No handler runs: what Diffed and Conserved say of is left alone.        *)
LEMMA PortsUntouched ==
    ASSUME FleetInv, UNCHANGED portVars
    PROVE  PortInv' /\ NextInRow' /\ (HeldPairs \cup FreePairs = Pairs(nextPort)
                                        => (HeldPairs \cup FreePairs = Pairs(nextPort))')
BY DEF FleetInv, portVars, PortInv, PortTypes, BelowNext, Exclusive, NextInRow, HeldPairs,
       FreePairs, Pairs

LEMMA StepFleetInv ==
    ASSUME FleetInv, [Next]_vars
    PROVE  FleetInv'
<1> USE DEF portVars, tickVars, FleetInv
<1>0. PortInv'
    BY StepPortInv
<1>1. CASE Poll \/ EndTick
  <2>1. UNCHANGED <<attached, boards, held, freelist, nextPort, ads, listening>>
      BY <1>1 DEF Poll, EndTick
  <2>2. SetTypes' /\ Diffed'
      BY <1>1, <2>1 DEF Poll, EndTick, SetTypes, Diffed
  <2>3. OnlyBoardsHold' /\ NextInRow' /\ Conserved'
      BY <1>1, <2>1, PortsUntouched DEF Poll, EndTick, OnlyBoardsHold, Conserved
  <2> QED  BY <1>0, <2>2, <2>3
<1>2. ASSUME NEW u \in Uids, OnDeparture(u) PROVE FleetInv'
  <2>1. CASE u \in boards
    <3>1. /\ at = "tick" /\ u \in departed /\ departed' = departed \ {u}
          /\ boards' = boards \ {u} /\ ReclaimPorts(u)
          /\ ads' \subseteq ads /\ listening' \subseteq listening
          /\ UNCHANGED <<attached, at, known, current, arrived, nextPort>>
        BY <1>2, <2>1 DEF OnDeparture
    <3>2. SetTypes' /\ Diffed'
        BY <3>1 DEF SetTypes, Diffed
    <3>3. OnlyBoardsHold'
      <4>1. \A v \in Uids : held'[v] = IF v = u THEN None ELSE held[v]
          BY <3>1 DEF ReclaimPorts, PortInv, PortTypes
      <4> QED  BY <3>1, <4>1 DEF OnlyBoardsHold
    <3>4. NextInRow' /\ Conserved'
        BY <3>1, ReclaimedAll DEF NextInRow, Conserved, Pairs
    <3> QED  BY <1>0, <3>2, <3>3, <3>4
  <2>2. CASE u \notin boards
    <3>1. /\ at = "tick" /\ departed' = departed \ {u}
          /\ UNCHANGED <<attached, at, known, current, arrived, boards, held, freelist,
                         nextPort, ads, listening>>
        BY <1>2, <2>2 DEF OnDeparture
    <3>2. SetTypes' /\ Diffed'
        BY <2>2, <3>1 DEF SetTypes, Diffed
    <3>3. OnlyBoardsHold' /\ NextInRow' /\ Conserved'
        BY <3>1, PortsUntouched DEF OnlyBoardsHold, Conserved
    <3> QED  BY <1>0, <3>2, <3>3
  <2> QED  BY <2>1, <2>2
<1>3. ASSUME NEW u \in Uids, DepartureRaises(u) PROVE FleetInv'
  <2>1. /\ at' = "dead" /\ boards' \subseteq boards /\ ads' \subseteq ads
        /\ UNCHANGED <<attached, known, current, departed, arrived, held, freelist, nextPort,
                       listening>>
      BY <1>3 DEF DepartureRaises
  <2>2. SetTypes' /\ Diffed' /\ OnlyBoardsHold' /\ Conserved'
      BY <2>1 DEF SetTypes, Diffed, OnlyBoardsHold, Conserved
  <2> QED  BY <1>0, <2>1, <2>2, PortsUntouched
<1>4. ASSUME NEW u \in Uids, OnArrival(u) PROVE FleetInv'
  <2>1. /\ at = "tick" /\ u \in arrived /\ arrived' = arrived \ {u}
        /\ held' = [held EXCEPT ![u] = AllocPorts[1]]
        /\ freelist' = AllocPorts[2] /\ nextPort' = AllocPorts[3]
        /\ boards' = boards \cup {u}
        /\ UNCHANGED <<attached, at, known, current, departed>>
      BY <1>4 DEF OnArrival
  <2>2. SetTypes'
      BY <1>4, <2>1 DEF OnArrival, SetTypes
  <2>3. Diffed'
      BY <2>1 DEF Diffed
  <2>4. held[u] = None
      BY <2>1 DEF OnlyBoardsHold, Diffed
  <2>5. OnlyBoardsHold'
      BY <2>1 DEF OnlyBoardsHold, PortInv, PortTypes
  <2>6. NextInRow' /\ Conserved'
      BY <2>1, <2>4, AllocatedAll DEF Conserved
  <2> QED  BY <1>0, <2>2, <2>3, <2>5, <2>6
<1>5. ASSUME NEW u \in Uids, ArrivalRaises(u) PROVE FleetInv'
  <2>1. /\ at' = "dead" /\ ads' \subseteq ads \cup {<<u, "serial">>}
        /\ UNCHANGED <<attached, known, current, departed, arrived, boards, held, listening>>
      BY <1>5 DEF ArrivalRaises
  <2>2. SetTypes' /\ Diffed' /\ OnlyBoardsHold' /\ Conserved'
    <3>1. <<u, "serial">> \in Uids \X Kinds
        BY DEF Kinds
    <3> QED  BY <2>1, <3>1 DEF SetTypes, Diffed, OnlyBoardsHold, Conserved
  <2>3. nextPort' \in {nextPort, nextPort + 2}
      BY <1>5 DEF ArrivalRaises, AllocPorts
  <2>4. NextInRow'
    <3>1. nextPort \in Nat /\ NextInRow
        BY DEF PortInv, PortTypes
    <3>2. nextPort + 2 >= BasePort /\ (nextPort + 2 - BasePort) % 2 = 0
        BY <3>1, OnePairMore
    <3>3. CASE nextPort' = nextPort
        BY <3>1, <3>3 DEF NextInRow
    <3>4. CASE nextPort' = nextPort + 2
        BY <3>1, <3>2, <3>4, SupervisorAssumption DEF NextInRow, SupervisorAssumption
    <3> QED  BY <2>3, <3>3, <3>4
  <2> QED  BY <1>0, <2>2, <2>4
<1>6. CASE \E u \in Uids : UsbChange(u)
  <2>1. /\ attached' \in SUBSET Uids
        /\ UNCHANGED <<at, known, current, departed, arrived, boards, held, freelist,
                       nextPort, ads, listening>>
      BY <1>6 DEF UsbChange, SetTypes
  <2>2. SetTypes' /\ Diffed'
      BY <2>1 DEF SetTypes, Diffed
  <2>3. OnlyBoardsHold' /\ NextInRow' /\ Conserved'
      BY <2>1, PortsUntouched DEF OnlyBoardsHold, Conserved
  <2> QED  BY <1>0, <2>2, <2>3
<1>7. CASE UNCHANGED vars
  <2>1. UNCHANGED <<attached, at, known, current, departed, arrived, boards, held, freelist,
                    nextPort, ads, listening>>
      BY <1>7 DEF vars
  <2>2. SetTypes' /\ Diffed'
      BY <2>1 DEF SetTypes, Diffed
  <2>3. OnlyBoardsHold' /\ NextInRow' /\ Conserved'
      BY <2>1, PortsUntouched DEF OnlyBoardsHold, Conserved
  <2> QED  BY <1>0, <2>2, <2>3
<1> QED  BY <1>1, <1>2, <1>3, <1>4, <1>5, <1>6, <1>7 DEF Next, Work

LEMMA FleetHolds == Spec => []FleetInv
BY InitFleetInv, StepFleetInv, PTL DEF Spec

(* Every variable keeps its type, and while the thread lives only boards   *)
(* that are up have ports.                                                 *)
THEOREM TypeCorrect == Spec => []TypeOK
<1>1. FleetInv => TypeOK
  BY DEF FleetInv, SetTypes, OnlyBoardsHold, PortInv, PortTypes, TypeOK
<1> QED  BY <1>1, FleetHolds, PTL

(* No pair is lost: as long as no handler raised, every pair between       *)
(* --base-port and _next_port is in use or waits on the free-list          *)
(* (_alloc_ports and the end of _on_departure).                            *)
THEOREM PortsAreConserved == Spec => []PortsConserved
<1>1. FleetInv => PortsConserved
  BY DEF FleetInv, Conserved, Pairs, PortsConserved
<1> QED  BY <1>1, FleetHolds, PTL
=============================================================================
