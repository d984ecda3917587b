-------------------------- MODULE LocalDeployProofs --------------------------
(***************************************************************************)
(* Proofs about LocalDeploy, for any boards, names and paths. Whether the  *)
(* command may flash what it resolved rests on what the command knows at   *)
(* each control point: the inductive invariant DeployInv carries the role  *)
(* of a relay from the probe that heard it, through the registry file and  *)
(* the command's copy, to the guard, and the board of a path from the look *)
(* at the ports to the flash.                                              *)
(***************************************************************************)
EXTENDS LocalDeploy, TLAPS

Points == {"start", "resolve", "ports", "guard", "confirm", "build", "flash",
           "attached", "map", "open", "done"}

(* Where the command holds the entry of one board.                         *)
Resolved == pc \in {"guard", "confirm", "build", "flash", "attached", "map"}

WorldTypes ==
    /\ where \in [Uids -> Paths \cup {None}]
    /\ \A u, v \in Uids : where[u] = where[v] /\ where[u] # None => u = v
    /\ listed \in BOOLEAN
    /\ runs \in [Uids -> Kinds]
    /\ file \in Registry
    /\ confirmed \in SUBSET Uids

RequestTypes ==
    /\ verb \in {"deploy", "connect"}
    /\ target \in Targets
    /\ force \in BOOLEAN

CommandTypes ==
    /\ pc \in Points
    /\ outcome \in {"none", "error", "flashed", "opened"}
    /\ pc # "done" => outcome = "none"
    /\ registry \in Registry
    /\ live \in SUBSET Uids
    /\ uid \in Uids \cup {None}
    /\ Resolved => uid \in Recorded(registry)
    /\ port \in Paths \cup {None}
    /\ pc = "open" => port # None
    /\ fellBack \in BOOLEAN

HistoryTypes == spared \in SUBSET Uids /\ seen \in SUBSET (Uids \X Paths)

(* A relay that announced itself is one, and the file says so.             *)
ConfirmedOnFile ==
    \A u \in confirmed : runs[u] = "relay" /\ u \in Recorded(file) /\ file[u].role = "relay"

(* The command's copy says so too, as far as it keeps it ...               *)
SparedOnCopy ==
    /\ pc \in {"resolve", "ports"} => \A u \in spared : registry[u].role = "relay"
    /\ Resolved /\ uid \in spared => registry[uid].role = "relay"

(* ... which the guard has looked at before anything is flashed.           *)
PastGuard ==
    pc \in {"confirm", "build", "flash"} \/ outcome = "flashed" => force \/ uid \notin spared

(* The command has seen every board where it is, and, once it resolved a   *)
(* path or looked a port up, the board there.                              *)
SeesWorld == pc # "start" => \A u \in Plugged : <<u, where[u]>> \in seen
PairSeen ==
    /\ Resolved /\ target.by = "path" => <<uid, target.what>> \in seen
    /\ pc = "open" /\ target.by # "path" /\ ~fellBack => <<uid, port>> \in seen

DeployInv ==
    /\ WorldTypes /\ RequestTypes /\ CommandTypes /\ HistoryTypes
    /\ ConfirmedOnFile /\ SparedOnCopy /\ PastGuard
    /\ SeesWorld /\ PairSeen /\ PairIsFresh

-----------------------------------------------------------------------------
(* The world                                                               *)

LEMMA DeployInit == Init => DeployInv
<1> SUFFICES ASSUME Init PROVE DeployInv
  OBVIOUS
<1> USE DEF Init
<1>1. WorldTypes
  BY DeployAssumption DEF WorldTypes, Registry
<1>2. RequestTypes /\ CommandTypes /\ HistoryTypes
  BY DEF RequestTypes, CommandTypes, HistoryTypes, Targets, Points, Registry, Resolved
<1>3. ConfirmedOnFile /\ SparedOnCopy /\ PastGuard /\ SeesWorld /\ PairSeen /\ PairIsFresh
  BY DEF ConfirmedOnFile, SparedOnCopy, PastGuard, SeesWorld, PairSeen, PairIsFresh, Resolved
<1> QED  BY <1>1, <1>2, <1>3 DEF DeployInv

LEMMA WorldMoves ==
    ASSUME DeployInv, NEW u \in Uids, pc # "done", Plug(u) \/ Unplug(u)
    PROVE  DeployInv'
<1> USE DEF DeployInv, requestVars, readVars
<1>1. /\ UNCHANGED <<listed, runs, file, confirmed, verb, target, force, registry, live, uid,
                     port, fellBack, pc, outcome, spared>>
      /\ where' \in [Uids -> Paths \cup {None}]
      /\ \A v \in Uids : v # u => where'[v] = where[v]
      /\ seen \subseteq seen'
  BY DEF Plug, Unplug, WorldTypes
<1>2. WorldTypes'
  <2>1. \A v, w \in Uids : where'[v] = where'[w] /\ where'[v] # None => v = w
    <3>1. \A v \in Uids : where'[u] = where'[v] /\ where'[u] # None => u = v
      BY <1>1 DEF Plug, Unplug, WorldTypes
    <3> QED  BY <1>1, <3>1 DEF WorldTypes
  <2> QED  BY <1>1, <2>1 DEF WorldTypes
<1>3. RequestTypes' /\ CommandTypes'
  BY <1>1 DEF RequestTypes, CommandTypes, Resolved, Recorded
<1>4. HistoryTypes' /\ SeesWorld'
  <2>1. CASE Plug(u)
    <3>1. PICK p \in Paths : /\ where' = [where EXCEPT ![u] = p]
                             /\ seen' = IF pc = "start" THEN seen ELSE seen \cup {<<u, p>>}
      BY <2>1 DEF Plug
    <3> QED  BY <1>1, <3>1 DEF HistoryTypes, SeesWorld, Plugged, WorldTypes
  <2>2. CASE Unplug(u)
    BY <1>1, <2>2 DEF Unplug, HistoryTypes, SeesWorld, Plugged, WorldTypes
  <2> QED  BY <2>1, <2>2
<1>5. ConfirmedOnFile' /\ SparedOnCopy' /\ PastGuard'
  BY <1>1 DEF ConfirmedOnFile, SparedOnCopy, PastGuard, Resolved, Recorded
<1>6. PairSeen' /\ PairIsFresh'
  BY <1>1 DEF PairSeen, PairIsFresh, Resolved
<1> QED  BY <1>2, <1>3, <1>4, <1>5, <1>6

LEMMA WorldActs ==
    ASSUME DeployInv, NEW u \in Uids, pc # "done", Probe(u) \/ FlashedByOther(u)
    PROVE  DeployInv'
<1> USE DEF DeployInv, requestVars, readVars
<1>1. /\ UNCHANGED <<where, listed, verb, target, force, registry, live, uid, port, fellBack,
                     pc, outcome, seen>>
      /\ spared' \subseteq spared /\ (pc # "start" => UNCHANGED <<file>>)
  BY DEF Probe, FlashedByOther
<1>2. RequestTypes' /\ CommandTypes' /\ HistoryTypes'
  BY <1>1 DEF RequestTypes, CommandTypes, HistoryTypes, Resolved, Recorded
<1>3. WorldTypes' /\ ConfirmedOnFile'
  <2>1. CASE Probe(u)
    <3>1. PICK answers \in {FALSE, listed} :
             /\ file' = [file EXCEPT ![u] = [role |-> NewRole(u, answers),
                                             port |-> IF listed THEN where[u] ELSE None]]
             /\ confirmed' = IF answers /\ runs[u] = "relay" THEN confirmed \cup {u}
                                                             ELSE confirmed
      BY <2>1 DEF Probe
    <3>2. UNCHANGED runs
      BY <2>1 DEF Probe
    <3> DEFINE entry == [role |-> NewRole(u, answers),
                         port |-> IF listed THEN where[u] ELSE None]
    <3>3. file[u] \in Entry \cup {None}
      BY DEF WorldTypes, Registry
    <3>4. NewRole(u, answers) \in Kinds \cup {None}
      BY <3>3 DEF NewRole, WorldTypes, Entry
    <3>5. entry \in Entry /\ entry.role = NewRole(u, answers)
      BY <3>4 DEF Entry, WorldTypes
    <3> HIDE DEF entry
    <3>6. file' = [file EXCEPT ![u] = entry]
      BY <3>1 DEF entry
    <3>7. WorldTypes'
      BY <1>1, <3>1, <3>2, <3>5, <3>6 DEF WorldTypes, Registry
    <3>8. entry # None
      BY <3>5, DeployAssumption
    <3>9. \A v \in Uids : file'[v] = IF v = u THEN entry ELSE file[v]
      BY <3>6 DEF WorldTypes, Registry
    <3>10. u \in confirmed' => runs[u] = "relay" /\ entry.role = "relay"
      BY <3>1, <3>5 DEF ConfirmedOnFile, NewRole, Recorded
    <3>11. ConfirmedOnFile'
      BY <3>1, <3>2, <3>7, <3>8, <3>9, <3>10 DEF ConfirmedOnFile, Recorded, WorldTypes
    <3> QED  BY <3>7, <3>11
  <2>2. CASE FlashedByOther(u)
    <3>1. /\ UNCHANGED file /\ confirmed' = confirmed \ {u}
          /\ \E kind \in Kinds : runs' = [runs EXCEPT ![u] = kind]
      BY <2>2 DEF FlashedByOther
    <3>2. WorldTypes'
      BY <1>1, <3>1 DEF WorldTypes
    <3>3. ConfirmedOnFile'
      BY <3>1 DEF ConfirmedOnFile, Recorded, WorldTypes
    <3> QED  BY <3>2, <3>3
  <2> QED  BY <2>1, <2>2
<1>4. SparedOnCopy' /\ PastGuard'
  BY <1>1 DEF SparedOnCopy, PastGuard, Resolved
<1>5. SeesWorld' /\ PairSeen' /\ PairIsFresh'
  BY <1>1 DEF SeesWorld, PairSeen, PairIsFresh, Plugged, Resolved
<1> QED  BY <1>2, <1>3, <1>4, <1>5

LEMMA WorldForgets ==
    ASSUME DeployInv, ProbeCleared
    PROVE  DeployInv'
<1> USE DEF DeployInv, requestVars, readVars
<1>1. PICK probes \in ProbeLists, answering \in SUBSET Uids :
         /\ answering \subseteq probes
         /\ file' = [u \in Uids |->
                       IF u \in probes
                       THEN [role |-> IF u \in answering THEN runs[u] ELSE None,
                             port |-> IF listed THEN where[u] ELSE None]
                       ELSE None]
         /\ confirmed' = {u \in answering : runs[u] = "relay"}
  BY DEF ProbeCleared, ProbeLists, Plugged
<1>2. probes \subseteq Uids
  BY <1>1 DEF ProbeLists, Plugged
<1>3. /\ UNCHANGED <<where, listed, runs, verb, target, force, registry, live, uid, port,
                     fellBack, pc, outcome, spared, seen>>
      /\ pc = "start"
  BY DEF ProbeCleared
<1> DEFINE entry(u) == [role |-> IF u \in answering THEN runs[u] ELSE None,
                        port |-> IF listed THEN where[u] ELSE None]
<1>4. \A u \in Uids : entry(u) \in Entry /\ (u \in answering => entry(u).role = runs[u])
  BY DEF WorldTypes, Entry
<1>5. \A u \in Uids : file'[u] = IF u \in probes THEN entry(u) ELSE None
  BY <1>1
<1>6. file' \in Registry
  BY <1>1, <1>4 DEF Registry
<1> HIDE DEF entry
<1>7. WorldTypes'
  BY <1>1, <1>2, <1>3, <1>6 DEF WorldTypes
<1>8. ConfirmedOnFile'
  <2>1. \A u \in Uids : entry(u) # None
    BY <1>4, DeployAssumption
  <2> QED  BY <1>1, <1>2, <1>3, <1>4, <1>5, <2>1 DEF ConfirmedOnFile, Recorded
<1>9. RequestTypes' /\ CommandTypes' /\ HistoryTypes'
  BY <1>3 DEF RequestTypes, CommandTypes, HistoryTypes, Resolved, Recorded
<1>10. SparedOnCopy' /\ PastGuard'
  BY <1>3 DEF SparedOnCopy, PastGuard, Resolved
<1>11. SeesWorld' /\ PairSeen' /\ PairIsFresh'
  BY <1>3 DEF SeesWorld, PairSeen, PairIsFresh, Plugged, Resolved
<1> QED  BY <1>7, <1>8, <1>9, <1>10, <1>11

-----------------------------------------------------------------------------
(* The command                                                             *)

(* What no step but Start and Flashes changes.                             *)
LEMMA CommandFrame ==
    ASSUME DeployInv, NEW from, NEW to, Goes(from, to), from # "start"
    PROVE  WorldTypes' /\ RequestTypes' /\ HistoryTypes' /\ ConfirmedOnFile'
BY DEF DeployInv, Goes, worldVars, requestVars, WorldTypes, RequestTypes, HistoryTypes,
       ConfirmedOnFile, Recorded

LEMMA SeesOn ==
    ASSUME DeployInv, NEW from, NEW to, Goes(from, to), from # "start"
    PROVE  SeesWorld'
BY DEF DeployInv, Goes, worldVars, SeesWorld, Plugged

LEMMA CommandFails ==
    ASSUME DeployInv, NEW from \in Points, from # "start", Fails(from)
    PROVE  DeployInv'
<1> USE DEF DeployInv
<1>1. /\ Goes(from, "done") /\ pc' = "done" /\ outcome' = "error"
      /\ UNCHANGED <<registry, live, uid, port, fellBack>>
  BY DEF Fails, Goes, readVars
<1>2. WorldTypes' /\ RequestTypes' /\ HistoryTypes' /\ ConfirmedOnFile' /\ SeesWorld'
  BY <1>1, CommandFrame, SeesOn
<1>3. CommandTypes'
  BY <1>1 DEF CommandTypes, Points, Resolved
<1>4. SparedOnCopy' /\ PastGuard' /\ PairSeen' /\ PairIsFresh'
  BY <1>1 DEF SparedOnCopy, PastGuard, PairSeen, PairIsFresh, Resolved
<1> QED  BY <1>2, <1>3, <1>4

(* Steps that only look, and go on.                                        *)
LEMMA CommandGoesOn ==
    ASSUME DeployInv, PassesGuard \/ Confirms \/ Builds \/ Attached
    PROVE  DeployInv'
<1> USE DEF DeployInv
<1>1. PICK from \in {"guard", "confirm", "build", "attached"},
           to \in {"confirm", "build", "flash", "map"} :
         /\ Goes(from, to) /\ (from = "attached" <=> to = "map")
         /\ from = "guard" <=> to = "confirm"
  BY DEF PassesGuard, Confirms, Builds, Attached
<1>2. /\ pc = from /\ pc' = to /\ from # "start"
      /\ UNCHANGED <<registry, live, uid, port, fellBack, outcome, target, force, spared, seen>>
  BY <1>1 DEF Goes, PassesGuard, Confirms, Builds, Attached, readVars, requestVars
<1>3. WorldTypes' /\ RequestTypes' /\ HistoryTypes' /\ ConfirmedOnFile' /\ SeesWorld'
  BY <1>1, <1>2, CommandFrame, SeesOn
<1>4. CommandTypes'
  BY <1>2 DEF CommandTypes, Points, Resolved, Recorded
<1>5. SparedOnCopy' /\ PairSeen' /\ PairIsFresh'
  BY <1>2 DEF SparedOnCopy, PairSeen, PairIsFresh, Resolved, CommandTypes
<1>6. PastGuard'
  <2>1. CASE PassesGuard
    <3>1. pc = "guard" /\ ~(registry[uid].role = "relay" /\ ~force)
      BY <2>1 DEF PassesGuard, Goes, Guarded
    <3> QED  BY <1>2, <3>1 DEF PastGuard, SparedOnCopy, Resolved, RequestTypes
  <2>2. CASE ~PassesGuard
    <3>1. from # "guard"
      BY <1>2, <2>2 DEF Confirms, Builds, Attached, Goes
    <3> QED  BY <1>1, <1>2, <3>1 DEF PastGuard, CommandTypes
  <2> QED  BY <2>1, <2>2
<1> QED  BY <1>3, <1>4, <1>5, <1>6

LEMMA CommandStarts ==
    ASSUME DeployInv, Start
    PROVE  DeployInv'
<1> USE DEF DeployInv, Start, worldVars
<1>1. WorldTypes' /\ RequestTypes' /\ ConfirmedOnFile'
  BY DEF WorldTypes, RequestTypes, ConfirmedOnFile, Recorded
<1>2. CommandTypes'
  BY DEF CommandTypes, WorldTypes, Points, Resolved
<1>3. HistoryTypes' /\ SeesWorld'
  BY DEF HistoryTypes, WorldTypes, SeesWorld, Plugged
<1>4. SparedOnCopy' /\ PastGuard' /\ PairSeen' /\ PairIsFresh'
  BY DEF SparedOnCopy, PastGuard, PairSeen, PairIsFresh, Resolved, ConfirmedOnFile, CommandTypes
<1> QED  BY <1>1, <1>2, <1>3, <1>4

(* An entry is resolved, in one of the three ways there are.               *)
LEMMA CommandResolves ==
    ASSUME DeployInv, ByRegistry \/ AutoPick \/ PathResolved
    PROVE  DeployInv'
<1> USE DEF DeployInv
<1>1. PICK u \in Uids, from \in {"resolve", "ports"}, to \in {"guard", "attached"} :
         /\ Chosen(u, from, to) /\ u \in Recorded(registry)
         /\ target.by = "path" => u \in Plugged /\ where[u] = target.what
  <2>1. CASE ByRegistry
    <3>1. PICK u \in Matches : Chosen(u, "resolve", AfterResolve)
      BY <2>1 DEF ByRegistry
    <3>2. u \in Recorded(registry) /\ target.by # "path"
      BY DEF Matches, Named, RequestTypes, Targets
    <3> QED  BY <3>1, <3>2 DEF AfterResolve, Recorded
  <2>2. CASE AutoPick
    BY <2>2 DEF AutoPick, NonRelays, Recorded
  <2>3. CASE PathResolved
    <3>1. PICK u \in Recorded(registry) : OnPath(u) /\ Chosen(u, "ports", "guard")
      BY <2>3 DEF PathResolved
    <3>2. target.by = "path" => target.what \in Paths
      BY DEF RequestTypes, Targets
    <3>3. target.by = "path" => u \in Plugged /\ where[u] = target.what
      BY <3>1, <3>2, DeployAssumption DEF OnPath, LivePort, Plugged, Recorded
    <3> QED  BY <3>1, <3>3 DEF Recorded
  <2> QED  BY <2>1, <2>2, <2>3
<1>2. /\ Goes(from, to) /\ pc = from /\ pc' = to
      /\ uid' = u /\ live' = {} /\ UNCHANGED <<port, fellBack, outcome, target, force, spared, seen>>
      /\ registry' = [v \in Uids |-> IF v = u THEN registry[v] ELSE None]
  BY <1>1 DEF Chosen, Goes, requestVars
<1>3. WorldTypes' /\ RequestTypes' /\ HistoryTypes' /\ ConfirmedOnFile' /\ SeesWorld'
  BY <1>2, CommandFrame, SeesOn
<1>4. CommandTypes'
  BY <1>1, <1>2 DEF CommandTypes, Points, Resolved, Recorded, Registry
<1>5. SparedOnCopy'
  BY <1>2 DEF SparedOnCopy
<1>6. PastGuard' /\ PairIsFresh'
  BY <1>2 DEF PastGuard, CommandTypes, PairIsFresh
<1>7. PairSeen'
  BY <1>1, <1>2 DEF PairSeen, SeesWorld
<1> QED  BY <1>3, <1>4, <1>5, <1>6, <1>7

(* A look at the bus or at the ports.                                      *)
LEMMA CommandLooks ==
    ASSUME DeployInv, PathProbes \/ PathVerbatim \/ MapsPort
    PROVE  DeployInv'
<1> USE DEF DeployInv
<1>1. /\ UNCHANGED <<registry, uid, outcome, target, force, spared, seen>>
      /\ \/ /\ PathProbes /\ Goes("resolve", "ports") /\ live' \in ProbeLists
            /\ UNCHANGED <<port, fellBack>>
         \/ /\ PathVerbatim /\ Goes("resolve", "open") /\ target.by = "path"
            /\ port' = target.what /\ UNCHANGED <<live, fellBack>>
         \/ MapsPort /\ Goes("map", "open") /\ UNCHANGED live
  BY DEF PathProbes, PathVerbatim, MapsPort, Goes, requestVars
<1>2. WorldTypes' /\ RequestTypes' /\ HistoryTypes' /\ ConfirmedOnFile' /\ SeesWorld'
  BY <1>1, CommandFrame, SeesOn
<1>3. SparedOnCopy' /\ PastGuard' /\ PairIsFresh'
  BY <1>1 DEF Goes, SparedOnCopy, PastGuard, PairIsFresh, Resolved, CommandTypes
<1>4. CASE PathProbes
  <2>1. live' \in SUBSET Uids
    BY <1>1, <1>4 DEF PathProbes, ProbeLists, Plugged
  <2> QED  BY <1>1, <1>2, <1>3, <1>4, <2>1
           DEF PathProbes, Goes, CommandTypes, PairSeen, Points, Resolved
<1>5. CASE PathVerbatim
  <2>1. target.what \in Paths /\ target.what # None
    BY <1>5, DeployAssumption DEF PathVerbatim, RequestTypes, Targets
  <2> QED  BY <1>1, <1>2, <1>3, <1>5, <2>1
           DEF PathVerbatim, Goes, CommandTypes, PairSeen, Points, Resolved
<1>6. CASE MapsPort
  <2>1. /\ pc = "map" /\ pc' = "open" /\ uid \in Recorded(registry) /\ uid \in Uids
        /\ fellBack' = (LivePort(uid, {uid}) = None) /\ port' # None
        /\ port' = IF fellBack' THEN registry[uid].port ELSE LivePort(uid, {uid})
    BY <1>6 DEF MapsPort, Goes, CommandTypes, Resolved, Recorded
  <2>2. registry[uid].port \in Paths \cup {None}
    BY <2>1 DEF CommandTypes, Registry, Entry, Recorded
  <2>3. /\ LivePort(uid, {uid}) \in Paths \cup {None}
        /\ LivePort(uid, {uid}) # None => <<uid, LivePort(uid, {uid})>> \in seen
    BY <2>1 DEF LivePort, WorldTypes, SeesWorld, Plugged
  <2>4. CommandTypes'
    <3>1. port' \in Paths \cup {None} /\ fellBack' \in BOOLEAN
      BY <2>1, <2>2, <2>3
    <3>2. UNCHANGED <<registry, live, uid, outcome>>
      BY <1>6 DEF MapsPort
    <3> QED  BY <2>1, <3>1, <3>2 DEF CommandTypes, Points, Resolved
  <2>5. PairSeen'
    BY <1>1, <2>1, <2>3 DEF PairSeen, Resolved
  <2> QED  BY <1>2, <1>3, <2>4, <2>5
<1> QED  BY <1>1, <1>4, <1>5, <1>6

LEMMA CommandFlashes ==
    ASSUME DeployInv, Flashes
    PROVE  DeployInv'
<1> USE DEF DeployInv
<1>1. /\ pc = "flash" /\ pc' = "done" /\ outcome' = "flashed" /\ confirmed' = confirmed \ {uid}
      /\ UNCHANGED <<where, listed, file, verb, target, force, registry, live, uid, port,
                     fellBack, spared, seen>>
      /\ \E kind \in Kinds : runs' = [runs EXCEPT ![uid] = kind]
  BY DEF Flashes, requestVars, readVars
<1>2. uid \in Uids
  BY <1>1 DEF CommandTypes, Resolved, Recorded
<1>3. WorldTypes' /\ ConfirmedOnFile'
  BY <1>1, <1>2 DEF WorldTypes, ConfirmedOnFile, Recorded
<1>4. RequestTypes' /\ HistoryTypes' /\ CommandTypes'
  BY <1>1 DEF RequestTypes, HistoryTypes, CommandTypes, Points, Resolved
<1>5. SparedOnCopy' /\ PastGuard' /\ SeesWorld'
  BY <1>1 DEF SparedOnCopy, PastGuard, SeesWorld, Plugged, Resolved
<1>6. PairSeen' /\ PairIsFresh'
  BY <1>1 DEF PairSeen, PairIsFresh, Resolved
<1> QED  BY <1>3, <1>4, <1>5, <1>6

LEMMA CommandOpens ==
    ASSUME DeployInv, Opens
    PROVE  DeployInv'
<1> USE DEF DeployInv
<1>1. /\ Goes("open", "done") /\ pc = "open" /\ pc' = "done" /\ outcome' = "opened"
      /\ UNCHANGED <<registry, live, uid, port, fellBack, target, force, spared, seen>>
  BY DEF Opens, Goes, readVars, requestVars
<1>2. WorldTypes' /\ RequestTypes' /\ HistoryTypes' /\ ConfirmedOnFile' /\ SeesWorld'
  BY <1>1, CommandFrame, SeesOn
<1>3. CommandTypes' /\ SparedOnCopy' /\ PastGuard'
  BY <1>1 DEF CommandTypes, SparedOnCopy, PastGuard, Points, Resolved
<1>4. PairSeen' /\ PairIsFresh'
  BY <1>1 DEF PairSeen, PairIsFresh, Resolved
<1> QED  BY <1>2, <1>3, <1>4

-----------------------------------------------------------------------------
(* The theorems                                                            *)

LEMMA DeployStep ==
    ASSUME DeployInv, [Next]_vars
    PROVE  DeployInv'
<1>1. CASE UNCHANGED vars
  BY <1>1 DEF vars, worldVars, requestVars, readVars, DeployInv, WorldTypes, RequestTypes,
              CommandTypes, HistoryTypes, ConfirmedOnFile, SparedOnCopy, PastGuard, SeesWorld,
              PairSeen, PairIsFresh, Plugged, Resolved, Recorded
<1>2. CASE World
  BY <1>2, WorldMoves, WorldActs, WorldForgets DEF World
<1>3. CASE NoMatch \/ NoAutoPick \/ PathRefused \/ RefusesRelay \/ NotConnected \/ BuildFails
              \/ FlashFails \/ NotAttached \/ NoPort \/ OpenFails
  <2>1. PICK from \in Points \ {"start"} : Fails(from)
    BY <1>3 DEF NoMatch, NoAutoPick, PathRefused, RefusesRelay, NotConnected, BuildFails,
                FlashFails, NotAttached, NoPort, OpenFails, Points
  <2> QED  BY <2>1, CommandFails
<1>4. CASE Command
  BY <1>3, <1>4, CommandStarts, CommandGoesOn, CommandResolves, CommandLooks, CommandFlashes,
     CommandOpens DEF Command
<1> QED  BY <1>1, <1>2, <1>4 DEF Next, Ended

LEMMA DeployHolds == Spec => []DeployInv
BY DeployInit, DeployStep, PTL DEF Spec

(* Every variable keeps its type; no path holds two boards, and connect    *)
(* never gets to open no path at all.                                      *)
THEOREM TypeCorrect == Spec => []TypeOK
<1>1. DeployInv => TypeOK
  BY DEF DeployInv, WorldTypes, RequestTypes, CommandTypes, HistoryTypes, TypeOK, Points
<1> QED  BY <1>1, DeployHolds, PTL

(* "refuses to deploy to a relay unless you pass --force-relay"            *)
(* (agent_manual.md:27): _deploy_entry and _cmd_deploy never flash a relay *)
(* that announced itself before devices.json was read, since the last      *)
(* `probe --clear` of it, and stayed one.                                  *)
THEOREM RelaysAreSpared == Spec => []RelaySpared
<1>1. DeployInv => RelaySpared
  BY DEF DeployInv, PastGuard, RelaySpared
<1> QED  BY <1>1, DeployHolds, PTL

(* "whichever board is on that port right now" (cli.py:529): the board a   *)
(* path or a port stands for was there while the command ran.              *)
THEOREM PairsAreFresh == Spec => []PairIsFresh
<1>1. DeployInv => PairIsFresh
  BY DEF DeployInv
<1> QED  BY <1>1, DeployHolds, PTL
=============================================================================
