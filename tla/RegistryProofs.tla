--------------------------- MODULE RegistryProofs ---------------------------
(***************************************************************************)
(* Proofs about Registry, for any number of micro:bits and of processes    *)
(* that share the file without a lock, with crashes and --clear.           *)
(*                                                                         *)
(* Uniqueness of enums is not inductive: assign_enum looks at the largest  *)
(* enum only. What carries it is that a dictionary with k entries uses     *)
(* exactly the enums 1..k (Dense), in the file and in every copy of it.    *)
(*                                                                         *)
(* That nothing is lost while processes take turns rests on the copy of    *)
(* the one at work: it covers everything ever recorded (Covers).           *)
(***************************************************************************)
EXTENDS Registry, TLAPS

Dense(d) == \E k \in Nat : Enums(d) = 1..k

(* The largest of 1..k, or 0 if there is none, is k.                       *)
LEMMA NextAfterDense ==
    ASSUME NEW d, NEW k \in Nat, Enums(d) = 1..k
    PROVE  NextEnum(d) = k + 1
<1> DEFINE Top(n) == n \in Enums(d) \cup {0} /\ \A e \in Enums(d) : e <= n
<1>1. Top(k)
  <2>1. k \in Enums(d) \cup {0}
    BY SMT
  <2> QED BY <2>1
<1>2. \A n : Top(n) => n = k
  <2> SUFFICES ASSUME NEW n, Top(n) PROVE n = k
      OBVIOUS
  <2>1. n \in 0..k
    BY SMT
  <2>2. k = 0 \/ k \in Enums(d)
    BY SMT
  <2>3. k = 0 \/ k <= n
    BY <2>2
  <2> QED BY <2>1, <2>3
<1> DEFINE top == CHOOSE n \in Enums(d) \cup {0} : \A e \in Enums(d) : e <= n
<1>3. top = k
  BY <1>1, <1>2
<1>4. NextEnum(d) = 1 + top
  BY DEF NextEnum
<1> HIDE DEF top
<1> QED BY <1>3, <1>4

(* Adding an entry with the next enum, or replacing one under its own      *)
(* enum, keeps a dictionary dense and its enums unique.                    *)
LEMMA EntryKeepsDense ==
    ASSUME NEW d \in Dict, Dense(d), UniqueIn(d), NEW u \in Uids, NEW e \in Entry,
           e.enum = IF d[u] = Absent THEN NextEnum(d) ELSE d[u].enum
    PROVE  Dense([d EXCEPT ![u] = e]) /\ UniqueIn([d EXCEPT ![u] = e])
<1> DEFINE d2 == [d EXCEPT ![u] = e]
<1>1. PICK k \in Nat : Enums(d) = 1..k
  BY DEF Dense
<1>2. d2[u] = e /\ e # Absent /\ \A v \in Uids : v # u => d2[v] = d[v]
  BY RegistryAssumption DEF Dict
<1>3. \A v \in Uids : d[v] # Absent => d[v].enum \in Enums(d)
  BY DEF Enums
<1>4. CASE d[u] = Absent
  <2>1. e.enum = k + 1
    BY <1>1, <1>4, NextAfterDense
  <2>2. Enums(d2) = Enums(d) \cup {k + 1}
    BY <1>2, <1>4, <2>1 DEF Enums
  <2>3. Enums(d2) = 1..(k + 1)
    <3>1. 1..(k + 1) = (1..k) \cup {k + 1}
      BY SMT
    <3> QED BY <1>1, <2>2, <3>1
  <2>4. \A v \in Uids : (v # u /\ d2[v] # Absent) => d2[v].enum # e.enum
    BY <1>1, <1>2, <1>3, <2>1
  <2>5. UniqueIn(d2)
    BY <1>2, <2>4 DEF UniqueIn
  <2> QED BY <2>3, <2>5 DEF Dense
<1>5. CASE d[u] # Absent
  <2>1. e.enum = d[u].enum
    BY <1>5
  <2>2. Enums(d2) = Enums(d)
    BY <1>2, <1>5, <2>1 DEF Enums
  <2>3. UniqueIn(d2)
    BY <1>2, <1>5, <2>1 DEF UniqueIn
  <2> QED BY <1>1, <2>2, <2>3 DEF Dense
<1> QED BY <1>4, <1>5

AllDense ==
    /\ file # Unreadable => Dense(file)
    /\ \A p \in Procs : Dense(dict[p])

IInv == TypeOK /\ AllDense /\ EnumsUnique

LEMMA EmptyDense == Empty \in Dict /\ Dense(Empty) /\ UniqueIn(Empty)
<1>1. Enums(Empty) = 1..0
  BY DEF Enums, Empty
<1> QED BY <1>1 DEF Dense, UniqueIn, Empty, Dict

LEMMA IInvInit == Init => IInv
BY EmptyDense, RegistryAssumption DEF Init, IInv, TypeOK, AllDense, EnumsUnique

(* What a probe makes of an entry is an entry, under the enum it has or    *)
(* the next one.                                                           *)
LEMMA UpdatedEntry ==
    ASSUME NEW d \in Dict, Dense(d), NEW u \in Uids,
           NEW reply \in Anns \cup {None}, NEW name \in BOOLEAN
    PROVE  /\ Updated(d[u], d, reply, name) \in Entry
           /\ Updated(d[u], d, reply, name).enum
                = IF d[u] = Absent THEN NextEnum(d) ELSE d[u].enum
<1>1. NextEnum(d) \in Nat
  BY NextAfterDense DEF Dense
<1>2. d[u] \in Entry \cup {Absent}
  BY DEF Dict
<1> QED BY <1>1, <1>2 DEF Updated, Entry

LEMMA RememberedDict ==
    ASSUME ever \in Dict, NEW d \in Dict PROVE Remembered(d) \in Dict
<1> SUFFICES ASSUME NEW u \in Uids PROVE Remembered(d)[u] \in Entry \cup {Absent}
    BY DEF Dict, Remembered
<1>1. ever[u] \in Entry \cup {Absent} /\ d[u] \in Entry \cup {Absent}
  BY DEF Dict
<1> QED BY <1>1 DEF Remembered, Entry

LEMMA IInvStep == IInv /\ [Next]_vars => IInv'
<1> SUFFICES ASSUME IInv, [Next]_vars PROVE IInv'
    OBVIOUS
<1> USE DEF IInv, TypeOK, AllDense, EnumsUnique
<1>1. ASSUME NEW p \in Procs, Start(p) PROVE IInv'
  <2>1. Loaded \in Dict /\ Dense(Loaded) /\ UniqueIn(Loaded)
    BY EmptyDense DEF Loaded
  <2>2. PICK d \in Dict : dict' = [dict EXCEPT ![p] = d] /\ Dense(d) /\ UniqueIn(d)
    BY <1>1, <2>1, EmptyDense DEF Start
  <2> QED BY <1>1, <2>2 DEF Start
<1>2. ASSUME NEW p \in Procs, NEW u \in Uids, Probe(p, u) PROVE IInv'
  <2>1. PICK reply \in Anns \cup {None}, name \in BOOLEAN :
            dict' = [dict EXCEPT ![p] =
                       [@ EXCEPT ![u] = Updated(dict[p][u], dict[p], reply, name)]]
    BY <1>2 DEF Probe, HelloReplies, NameReads
  <2> DEFINE d2 == [dict[p] EXCEPT ![u] = Updated(dict[p][u], dict[p], reply, name)]
  <2>2. d2 \in Dict /\ Dense(d2) /\ UniqueIn(d2)
    <3>1. dict[p] \in Dict /\ Dense(dict[p]) /\ UniqueIn(dict[p])
      OBVIOUS
    <3> DEFINE e == Updated(dict[p][u], dict[p], reply, name)
    <3>2. /\ e \in Entry
          /\ e.enum = IF dict[p][u] = Absent THEN NextEnum(dict[p]) ELSE dict[p][u].enum
      BY <3>1, UpdatedEntry
    <3> HIDE DEF e
    <3>3. [dict[p] EXCEPT ![u] = e] \in Dict
      BY <3>1, <3>2 DEF Dict
    <3>4. Dense([dict[p] EXCEPT ![u] = e]) /\ UniqueIn([dict[p] EXCEPT ![u] = e])
      BY <3>1, <3>2, EntryKeepsDense
    <3> QED BY <3>3, <3>4 DEF e
  <2>3. dict' = [dict EXCEPT ![p] = d2]
    BY <2>1
  <2> HIDE DEF d2
  <2> QED BY <1>2, <2>2, <2>3 DEF Probe
<1>3. ASSUME NEW p \in Procs, Truncate(p) PROVE IInv'
  BY <1>3 DEF Truncate
<1>4. ASSUME NEW p \in Procs, Write(p) PROVE IInv'
  <2>1. /\ file' \in {dict[p], Unreadable}
        /\ dict' = [dict EXCEPT ![p] = Empty] /\ todo' = [todo EXCEPT ![p] = {}]
        /\ UNCHANGED disturbed
    BY <1>4 DEF Write, Ends
  <2>2. ever' \in Dict
    BY <1>4, RememberedDict DEF Write
  <2>3. pc' \in [Procs -> {"idle", "probing", "writing"}] /\ mixed' \in [Procs -> BOOLEAN]
    BY <1>4 DEF Write, Ends
  <2> QED BY <2>1, <2>2, <2>3, EmptyDense
<1>5. ASSUME NEW p \in Procs, Crash(p) PROVE IInv'
  BY <1>5, EmptyDense DEF Crash, Ends
<1>6. CASE UNCHANGED vars
  BY <1>6 DEF vars
<1> QED BY <1>1, <1>2, <1>3, <1>4, <1>5, <1>6 DEF Next

LEMMA Invariance == Spec => []IInv
BY IInvInit, IInvStep, PTL DEF Spec

(* Every variable keeps its type, torn writes and crashes included. *)
THEOREM TypeCorrect == Spec => []TypeOK
BY Invariance, PTL DEF IInv

(* No two micro:bits ever share an enum, however processes interleave. *)
THEOREM EnumsAreUnique == Spec => []EnumsUnique
BY Invariance, PTL DEF IInv
-----------------------------------------------------------------------------
(* Processes that take turns keep the registry.                            *)

(* A copy from which nothing that was ever recorded is missing. Its        *)
(* announcements may be newer than the recorded ones.                      *)
Covers(d) ==
    \A u \in Uids : ever[u] # Absent =>
        /\ d[u] # Absent
        /\ d[u].enum = ever[u].enum
        /\ d[u].ann = None => ever[u].ann = None
        /\ ever[u].named => d[u].named

Resting == \A p \in Procs : pc[p] # "writing"

(* RegistryKept says what the file is like between two saves; this also    *)
(* says how the one process that is at work gets from one to the next.     *)
TakingTurns ==
    /\ \A p, q \in Procs : (pc[p] # "idle" /\ pc[q] # "idle") => p = q
    /\ \A p \in Procs : ~mixed[p]
    /\ \A p \in Procs : pc[p] # "idle" => Covers(dict[p])
    /\ Resting => Remembers /\ (file = Unreadable => ever = Empty)
    /\ ~Resting => file = Unreadable

KeptInv == IInv /\ (~disturbed => TakingTurns)

LEMMA KeptInit == Init => KeptInv
<1> SUFFICES ASSUME Init PROVE KeptInv
    OBVIOUS
<1>1. IInv
  BY IInvInit
<1>2. TakingTurns
  BY DEF Init, TakingTurns, Resting, Remembers
<1> QED BY <1>1, <1>2 DEF KeptInv

(* Reading the file between two saves loses nothing.                       *)
LEMMA LoadedCovers ==
    ASSUME TypeOK, Remembers, file = Unreadable => ever = Empty
    PROVE  Covers(Loaded)
<1>1. CASE file = Unreadable
  BY <1>1 DEF Covers, Empty
<1>2. CASE file # Unreadable
  BY <1>2 DEF Covers, Loaded, Remembers
<1> QED BY <1>1, <1>2

(* Probing a board loses nothing, whether it answers or not.               *)
LEMMA UpdatedCovers ==
    ASSUME NEW d \in Dict, Dense(d), NEW u \in Uids, Covers(d),
           NEW reply \in Anns \cup {None}, NEW name \in BOOLEAN
    PROVE  Covers([d EXCEPT ![u] = Updated(d[u], d, reply, name)])
<1> DEFINE e == Updated(d[u], d, reply, name)
           d2 == [d EXCEPT ![u] = e]
<1>1. e # Absent
  BY UpdatedEntry, RegistryAssumption
<1>2. d2[u] = e /\ \A v \in Uids : v # u => d2[v] = d[v]
  BY DEF Dict
<1>3. /\ d[u] # Absent => e.enum = d[u].enum /\ (d[u].named => e.named)
      /\ (d[u] # Absent /\ e.ann = None) => d[u].ann = None
  BY DEF Updated
<1> HIDE DEF e
<1>4. ASSUME ever[u] # Absent
      PROVE  /\ e.enum = ever[u].enum
             /\ e.ann = None => ever[u].ann = None
             /\ ever[u].named => e.named
  BY <1>3, <1>4 DEF Covers
<1>5. ASSUME NEW v \in Uids, v # u, ever[v] # Absent
      PROVE  /\ d2[v] # Absent
             /\ d2[v].enum = ever[v].enum
             /\ d2[v].ann = None => ever[v].ann = None
             /\ ever[v].named => d2[v].named
  BY <1>2, <1>5 DEF Covers
<1>6. Covers(d2)
  BY <1>1, <1>2, <1>4, <1>5 DEF Covers
<1> QED BY <1>6 DEF e

(* Saving a copy from which nothing is missing loses nothing.              *)
LEMMA CoveredIsRemembered ==
    ASSUME TypeOK, NEW d \in Dict, Covers(d), NEW u \in Uids, Remembered(d)[u] # Absent
    PROVE  /\ d[u] # Absent
           /\ d[u].enum = Remembered(d)[u].enum
           /\ d[u].ann = Remembered(d)[u].ann
           /\ Remembered(d)[u].named => d[u].named
<1>1. CASE ever[u] = Absent
  BY <1>1 DEF Remembered
<1>2. CASE ever[u] # Absent
  <2>1. /\ d[u] # Absent
        /\ d[u].enum = ever[u].enum
        /\ d[u].ann = None => ever[u].ann = None
        /\ ever[u].named => d[u].named
    BY <1>2 DEF Covers
  <2> DEFINE r == [enum  |-> ever[u].enum,
                   ann   |-> IF d[u].ann = None THEN ever[u].ann ELSE d[u].ann,
                   named |-> ever[u].named \/ d[u].named]
  <2>2. Remembered(d)[u] = r
    BY <1>2, <2>1 DEF Remembered
  <2>3. /\ r.enum = ever[u].enum
        /\ r.ann = (IF d[u].ann = None THEN ever[u].ann ELSE d[u].ann)
        /\ r.named = (ever[u].named \/ d[u].named)
    OBVIOUS
  <2> HIDE DEF r
  <2> QED BY <2>1, <2>2, <2>3
<1> QED BY <1>1, <1>2

(* One process at a time: what a step makes of a file that is well kept.   *)
LEMMA KeptStep == KeptInv /\ [Next]_vars => KeptInv'
<1> SUFFICES ASSUME KeptInv, [Next]_vars, ~disturbed' PROVE TakingTurns'
    BY IInvStep DEF KeptInv
<1> USE DEF KeptInv, IInv, TypeOK
<1>1. ASSUME NEW p \in Procs, Start(p) PROVE TakingTurns'
  <2>1. /\ TakingTurns /\ \A q \in Procs : pc[q] = "idle"
        /\ dict' = [dict EXCEPT ![p] = Loaded]
        /\ pc' = [pc EXCEPT ![p] = "probing"]
        /\ UNCHANGED <<file, mixed, ever>>
    BY <1>1 DEF Start
  <2>2. Remembers /\ (file = Unreadable => ever = Empty)
    BY <2>1 DEF TakingTurns, Resting
  <2>3. Covers(Loaded)
    BY <2>2, LoadedCovers
  <2>4. Covers(dict'[p])
    BY <2>1, <2>3
  <2>5. \A q \in Procs : pc'[q] # "idle" => q = p
    BY <2>1
  <2>6. Resting'
    BY <2>1 DEF Resting
  <2>7. (\A q \in Procs : pc[q] # "idle" => Covers(dict[q]))'
    BY <2>1, <2>4, <2>5 DEF Covers
  <2>8. (Remembers /\ (file = Unreadable => ever = Empty))'
    BY <2>1, <2>2 DEF Remembers
  <2> QED BY <2>1, <2>5, <2>6, <2>7, <2>8 DEF TakingTurns
<1>2. ASSUME NEW p \in Procs, NEW u \in Uids, Probe(p, u) PROVE TakingTurns'
  <2>1. PICK reply \in Anns \cup {None}, name \in BOOLEAN :
            dict' = [dict EXCEPT ![p] =
                       [@ EXCEPT ![u] = Updated(dict[p][u], dict[p], reply, name)]]
    BY <1>2 DEF Probe, HelloReplies, NameReads
  <2>2. TakingTurns /\ pc[p] = "probing" /\ UNCHANGED <<file, pc, mixed, ever>>
    BY <1>2 DEF Probe
  <2>3. dict[p] \in Dict /\ Dense(dict[p]) /\ Covers(dict[p])
    BY <2>2 DEF AllDense, TakingTurns
  <2>4. Covers([dict[p] EXCEPT ![u] = Updated(dict[p][u], dict[p], reply, name)])
    BY <2>3, UpdatedCovers
  <2>5. Covers(dict'[p])
    BY <2>1, <2>4
  <2>6. \A q \in Procs : pc[q] # "idle" => q = p
    BY <2>2 DEF TakingTurns
  <2>7. (\A q \in Procs : pc[q] # "idle" => Covers(dict[q]))'
    BY <2>2, <2>5, <2>6 DEF Covers
  <2> QED BY <2>2, <2>7 DEF TakingTurns, Resting, Remembers
<1>3. ASSUME NEW p \in Procs, Truncate(p) PROVE TakingTurns'
  <2>1. /\ TakingTurns /\ pc[p] = "probing" /\ pc' = [pc EXCEPT ![p] = "writing"]
        /\ file' = Unreadable /\ mixed' = [mixed EXCEPT ![p] = FALSE]
        /\ UNCHANGED <<dict, ever>>
    BY <1>3 DEF Truncate
  <2>2. pc'[p] = "writing" /\ \A q \in Procs : pc'[q] # "idle" <=> pc[q] # "idle"
    BY <2>1
  <2>3. ~Resting' /\ \A q \in Procs : ~mixed'[q]
    BY <2>1, <2>2 DEF Resting, TakingTurns
  <2>4. (\A q \in Procs : pc[q] # "idle" => Covers(dict[q]))'
    BY <2>1, <2>2 DEF TakingTurns, Covers
  <2>5. \A q, r \in Procs : (pc'[q] # "idle" /\ pc'[r] # "idle") => q = r
    BY <2>1, <2>2 DEF TakingTurns
  <2> QED BY <2>1, <2>3, <2>4, <2>5 DEF TakingTurns
<1>4. ASSUME NEW p \in Procs, Write(p) PROVE TakingTurns'
  <2>1. TakingTurns /\ pc[p] = "writing" /\ pc' = [pc EXCEPT ![p] = "idle"]
    BY <1>4 DEF Write, Ends
  <2>2. \A q \in Procs : pc'[q] = "idle"
    BY <2>1 DEF TakingTurns
  <2>3. file' = dict[p] /\ ever' = Remembered(dict[p])
    BY <1>4, <2>1 DEF Write, TakingTurns
  <2>4. \A q \in Procs : ~mixed'[q]
    BY <1>4, <2>1 DEF Write, TakingTurns
  <2>5. dict[p] \in Dict /\ Covers(dict[p])
    BY <2>1 DEF TakingTurns
  <2>6. Remembers'
    BY <2>3, <2>5, CoveredIsRemembered DEF Remembers
  <2>7. file' # Unreadable
    BY <2>3, <2>5, RegistryAssumption
  <2> QED BY <2>2, <2>4, <2>6, <2>7 DEF TakingTurns, Resting
<1>5. ASSUME NEW p \in Procs, Crash(p) PROVE TakingTurns'
  <2>1. /\ TakingTurns /\ pc[p] = "probing"
        /\ pc' = [pc EXCEPT ![p] = "idle"] /\ mixed' = [mixed EXCEPT ![p] = FALSE]
        /\ UNCHANGED <<file, ever>>
    BY <1>5 DEF Crash, Ends
  <2>2. \A q \in Procs : pc'[q] = "idle"
    BY <2>1 DEF TakingTurns
  <2>3. \A q \in Procs : ~mixed'[q]
    BY <2>1 DEF TakingTurns
  <2>4. Remembers /\ (file = Unreadable => ever = Empty)
    BY <2>1 DEF TakingTurns, Resting
  <2>5. (Remembers /\ (file = Unreadable => ever = Empty))'
    BY <2>1, <2>4 DEF Remembers
  <2> QED BY <2>2, <2>3, <2>5 DEF TakingTurns, Resting
<1>6. CASE UNCHANGED vars
  BY <1>6 DEF vars, TakingTurns, Resting, Remembers, Covers
<1> QED BY <1>1, <1>2, <1>3, <1>4, <1>5, <1>6 DEF Next

(* As long as processes take turns, nothing recorded is lost: for any      *)
(* number of boards and of turns, silent boards and failed reads, with     *)
(* probing cut off anywhere.                                               *)
THEOREM RegistryIsKept == Spec => []RegistryKept
<1>1. KeptInv => RegistryKept
  BY DEF KeptInv, TakingTurns, Resting, RegistryKept, Remembers
<1> QED BY <1>1, KeptInit, KeptStep, PTL DEF Spec
=============================================================================
