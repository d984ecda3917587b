---------------------------- MODULE LocalDeploy ----------------------------
(***************************************************************************)
(* One `mbdeploy deploy` or `connect` on the machine the boards are on     *)
(* (cli.py), in a world that does not wait for it: boards are unplugged    *)
(* and come back on other paths, other processes probe and flash. The      *)
(* command reads the registry once and the USB bus several times, and acts *)
(* on what it read.                                                        *)
(*                                                                         *)
(* Other processes are taken to update the registry whole and one after    *)
(* another: what becomes of it otherwise is the subject of Registry. What  *)
(* flashing does to a chip is the subject of FlashHex.                     *)
(***************************************************************************)
CONSTANTS Uids,     \* micro:bits
          Paths,    \* serial device paths the OS hands out
          NameOf,   \* micro:bit -> its five-letter name
          None

Kinds    == {"relay", "other"}     \* is_relay of the role a firmware announces
Names    == {NameOf[u] : u \in Uids}
Entry    == [role : Kinds \cup {None}, port : Paths \cup {None}]
Registry == [Uids -> Entry \cup {None}]

ASSUME DeployAssumption == None \notin Uids \cup Paths \cup Entry

(* A target: an enum or a uid, which name one board; a name; a path; none. *)
Targets == [by : {"id"}, what : Uids] \cup [by : {"name"}, what : Names]
             \cup [by : {"path"}, what : Paths] \cup [by : {"none"}, what : {None}]

VARIABLES
    where,     \* micro:bit -> the path it is on, None if unplugged
    listed,    \* the list of serial ports can be had
    runs,      \* micro:bit -> the kind of firmware on it
    file,      \* the registry file
    pc,        \* control point of the command
    verb,      \* "deploy" or "connect"
    target,
    force,     \* --force-relay
    registry,  \* the command's copy of the registry, later only its entry
    live,      \* _deploy_entry's `known`, until it has looked at the ports
    uid,       \* entry["uid"] of the entry it resolved
    port,      \* connect: the port it is going to open
    fellBack,  \* connect: that port is the recorded one
    outcome,   \* "none", or how the command ended
    confirmed, \* history: relays that announced themselves to a probe since
               \* the registry was last cleared
    spared,    \* history: those of them that were so, and stayed so, since
               \* the command read the registry
    seen       \* history: who was on which path while the command ran

worldVars   == <<where, listed, runs, file, confirmed>>
requestVars == <<verb, target, force>>
readVars    == <<registry, live, uid, port, fellBack>>
vars == <<worldVars, requestVars, readVars, pc, outcome, spared, seen>>

TypeOK ==
    /\ where \in [Uids -> Paths \cup {None}]
    /\ \A u, v \in Uids : where[u] = where[v] /\ where[u] # None => u = v
    /\ listed \in BOOLEAN
    /\ runs \in [Uids -> Kinds]
    /\ file \in Registry
    /\ pc \in {"start", "resolve", "ports", "guard", "confirm", "build", "flash",
               "attached", "map", "open", "done"}
    /\ verb \in {"deploy", "connect"}
    /\ target \in Targets
    /\ force \in BOOLEAN
    /\ registry \in Registry
    /\ live \in SUBSET Uids
    /\ uid \in Uids \cup {None}
    /\ port \in Paths \cup {None}
    /\ pc = "open" => port # None
    /\ fellBack \in BOOLEAN
    /\ outcome \in {"none", "error", "flashed", "opened"}
    /\ confirmed \in SUBSET Uids
    /\ spared \in SUBSET Uids
    /\ seen \in SUBSET (Uids \X Paths)

Init ==
    /\ where = [u \in Uids |-> None]
    /\ listed \in BOOLEAN
    /\ runs \in [Uids -> Kinds]
    /\ file = [u \in Uids |-> None]
    /\ pc = "start"
    /\ verb = "deploy" /\ target = [by |-> "none", what |-> None] /\ force = FALSE
    /\ registry = [u \in Uids |-> None]
    /\ live = {}
    /\ uid = None
    /\ port = None
    /\ fellBack = FALSE
    /\ outcome = "none"
    /\ confirmed = {}
    /\ spared = {}
    /\ seen = {}

Plugged == {u \in Uids : where[u] # None}
Recorded(reg) == {u \in Uids : reg[u] # None}

(* flashable_probes: what is on the bus, or nothing if pyocd cannot be     *)
(* asked.                                                                  *)
ProbeLists == {Plugged, {}}

-----------------------------------------------------------------------------
(* The world                                                               *)

(* A board is plugged in, on any path that is free.                        *)
Plug(u) ==
    /\ where[u] = None
    /\ \E p \in Paths \ {where[v] : v \in Uids} :
          /\ where' = [where EXCEPT ![u] = p]
          /\ seen' = IF pc = "start" THEN seen ELSE seen \cup {<<u, p>>}
    /\ UNCHANGED <<listed, runs, file, confirmed, requestVars, readVars, pc, outcome, spared>>

Unplug(u) ==
    /\ where[u] # None
    /\ where' = [where EXCEPT ![u] = None]
    /\ UNCHANGED <<listed, runs, file, confirmed, requestVars, readVars,
                   pc, outcome, spared, seen>>

(* Fault: a board that does not answer loses the role it announced.        *)
NewRoleForgetful(u, answers) == IF answers THEN runs[u] ELSE None

(* probe_all keeps what a board that does not answer announced before.     *)
NewRole(u, answers) ==
    IF answers THEN runs[u] ELSE IF file[u] = None THEN None ELSE file[u].role

(* Another process probes a board: the port as it is listed now, and what  *)
(* the board announces, if it answers HELLO on that port. Probes after the *)
(* command has read the file change nothing for it and are left out.       *)
Probe(u) ==
    /\ pc = "start" /\ u \in Plugged
    /\ \E answers \in {FALSE, listed} :
          /\ file' = [file EXCEPT ![u] =
                         [role |-> NewRole(u, answers),
                          port |-> IF listed THEN where[u] ELSE None]]
          /\ confirmed' = IF answers /\ runs[u] = "relay" THEN confirmed \cup {u}
                                                          ELSE confirmed
    /\ UNCHANGED <<where, listed, runs, requestVars, readVars, pc, outcome, spared, seen>>

(* Another process rebuilds the file with `probe --clear`, from live       *)
(* boards only: whoever is not on the bus now loses the entry, and whoever *)
(* does not answer now the role it announced before.                       *)
ProbeCleared ==
    /\ pc = "start"
    /\ \E probes \in ProbeLists :
          \E answering \in SUBSET (IF listed THEN probes ELSE {}) :
             /\ file' = [u \in Uids |->
                           IF u \in probes
                           THEN [role |-> IF u \in answering THEN runs[u] ELSE None,
                                 port |-> IF listed THEN where[u] ELSE None]
                           ELSE None]
             /\ confirmed' = {u \in answering : runs[u] = "relay"}
    /\ UNCHANGED <<where, listed, runs, requestVars, readVars, pc, outcome, spared, seen>>

(* Another process, the daemon or a person flashes a board.                *)
FlashedByOther(u) ==
    /\ u \in Plugged
    /\ \E kind \in Kinds : runs' = [runs EXCEPT ![u] = kind]
    /\ confirmed' = confirmed \ {u}
    /\ spared' = spared \ {u}
    /\ UNCHANGED <<where, listed, file, requestVars, readVars, pc, outcome, seen>>

(* Until the command has ended.                                            *)
World ==
    /\ pc # "done"
    /\ \/ \E u \in Uids : Plug(u) \/ Unplug(u) \/ Probe(u) \/ FlashedByOther(u)
       \/ ProbeCleared

-----------------------------------------------------------------------------
(* Steps of the command                                                    *)

Goes(from, to) ==
    /\ pc = from
    /\ pc' = to
    /\ UNCHANGED <<worldVars, requestVars, spared, seen>>

(* Any ValueError and every refusal: a message, and exit code 1.           *)
Fails(from) == Goes(from, "done") /\ outcome' = "error" /\ UNCHANGED readVars

(* load_devices, of one consistent registry. connect requires a target.    *)
Start ==
    /\ pc = "start"
    /\ pc' = "resolve"
    /\ verb' \in {"deploy", "connect"}
    /\ target' \in {t \in Targets : verb' = "connect" => t.by # "none"}
    /\ force' \in (IF verb' = "deploy" THEN BOOLEAN ELSE {FALSE})
    /\ registry' = file
    /\ spared' = confirmed
    /\ seen' = {<<u, where[u]>> : u \in Plugged}
    /\ UNCHANGED <<worldVars, live, uid, port, fellBack, outcome>>

(* resolve_target. Of several boards of one name the first in the file is  *)
(* taken, one that announced the name before one whose name was read from  *)
(* silicon; the order of the file is left open.                            *)
Named(name) == {u \in Recorded(registry) : NameOf[u] = name}
Announced   == {u \in Recorded(registry) : registry[u].role # None}
Matches ==
    CASE target.by = "id"   -> Recorded(registry) \cap {target.what}
      [] target.by = "name" -> IF Named(target.what) \cap Announced # {}
                               THEN Named(target.what) \cap Announced
                               ELSE Named(target.what)
      [] OTHER -> {}

Chosen(u, from, to) ==
    /\ Goes(from, to)
    /\ uid' = u
    /\ registry' = [v \in Uids |-> IF v = u THEN registry[v] ELSE None]
    /\ live' = {}
    /\ UNCHANGED <<port, fellBack, outcome>>

AfterResolve == IF verb = "deploy" THEN "guard" ELSE "attached"
ByRegistry == \E u \in Matches : Chosen(u, "resolve", AfterResolve)

(* No match; or the name of a silent board that could never be read.       *)
NoMatch ==
    /\ target.by \in {"id", "name"}
    /\ target.by = "name" \/ Matches = {}
    /\ target.by = "name" => Named(target.what) \cap Announced = {}
    /\ Fails("resolve")

(* No target: the only entry that is not a relay's, attached or not.       *)
NonRelays == {u \in Recorded(registry) : registry[u].role # "relay"}
AutoPick ==
    /\ target.by = "none"
    /\ \E u \in Uids : NonRelays = {u} /\ Chosen(u, "resolve", "guard")
NoAutoPick ==
    target.by = "none" /\ (\A u \in Uids : NonRelays # {u}) /\ Fails("resolve")

(* A path: first the probes ...                                            *)
PathProbes ==
    /\ target.by = "path" /\ verb = "deploy"
    /\ Goes("resolve", "ports")
    /\ live' \in ProbeLists
    /\ UNCHANGED <<registry, uid, port, fellBack, outcome>>

(* port_serial_map(known).                                                 *)
LivePort(u, known) == IF listed /\ u \in known THEN where[u] ELSE None

(* Fault: the board that was on the path when it was last probed.          *)
OnPathByRegistry(u) == u \in Recorded(registry) /\ registry[u].port = target.what

OnPath(u) == LivePort(u, live) = target.what

(* ... then who of them is on this path, which must be a registered board. *)
PathResolved == \E u \in Recorded(registry) : OnPath(u) /\ Chosen(u, "ports", "guard")
PathRefused  == (\A u \in Recorded(registry) : ~OnPath(u)) /\ Fails("ports")

(* The relay guard, by the role in the command's copy of the registry.     *)
Guarded == registry[uid].role = "relay" /\ ~force
RefusesRelay == Fails("guard") /\ Guarded
PassesGuard ==
    Goes("guard", "confirm") /\ ~Guarded /\ UNCHANGED <<readVars, outcome>>

Confirms == Goes("confirm", "build") /\ uid \in Plugged /\ UNCHANGED <<readVars, outcome>>
NotConnected == Fails("confirm") /\ \E probes \in ProbeLists : uid \notin probes

(* --build: minutes, or not at all.                                        *)
Builds     == Goes("build", "flash") /\ UNCHANGED <<readVars, outcome>>
BuildFails == Fails("build")

(* flash_hex by uid, wherever the board is now.                            *)
Flashes ==
    /\ pc = "flash" /\ uid \in Plugged
    /\ pc' = "done" /\ outcome' = "flashed"
    /\ \E kind \in Kinds : runs' = [runs EXCEPT ![uid] = kind]
    /\ confirmed' = confirmed \ {uid}
    /\ UNCHANGED <<where, listed, file, requestVars, readVars, spared, seen>>
FlashFails == Fails("flash")

(* connect: a path is opened as it is.                                     *)
PathVerbatim ==
    /\ target.by = "path" /\ verb = "connect"
    /\ Goes("resolve", "open")
    /\ port' = target.what
    /\ UNCHANGED <<registry, live, uid, fellBack, outcome>>

(* connect to a board: it must be attached.                                *)
Attached == Goes("attached", "map") /\ uid \in Plugged /\ UNCHANGED <<readVars, outcome>>
NotAttached == Fails("attached") /\ \E probes \in ProbeLists : uid \notin probes

(* Fault: a board without any port is not noticed.                         *)
MapsPortUnchecked ==
    /\ Goes("map", "open")
    /\ fellBack' = (LivePort(uid, {uid}) = None)
    /\ port' = IF fellBack' THEN registry[uid].port ELSE LivePort(uid, {uid})
    /\ UNCHANGED <<registry, live, uid, outcome>>

(* The port it is on now, or the recorded one if none is listed for it.    *)
MapsPort ==
    /\ Goes("map", "open")
    /\ fellBack' = (LivePort(uid, {uid}) = None)
    /\ port' = IF fellBack' THEN registry[uid].port ELSE LivePort(uid, {uid})
    /\ port' # None
    /\ UNCHANGED <<registry, live, uid, outcome>>
NoPort ==
    /\ Fails("map")
    /\ LivePort(uid, {uid}) = None /\ registry[uid].port = None

Opens ==
    /\ \E u \in Plugged : where[u] = port
    /\ Goes("open", "done")
    /\ outcome' = "opened"
    /\ UNCHANGED readVars
OpenFails == Fails("open")

Command ==
    \/ Start \/ ByRegistry \/ NoMatch \/ AutoPick \/ NoAutoPick
    \/ PathProbes \/ PathResolved \/ PathRefused
    \/ RefusesRelay \/ PassesGuard \/ Confirms \/ NotConnected
    \/ Builds \/ BuildFails \/ Flashes \/ FlashFails
    \/ PathVerbatim \/ Attached \/ NotAttached \/ MapsPort \/ NoPort
    \/ Opens \/ OpenFails

Ended == pc = "done" /\ UNCHANGED vars

Next == World \/ Command \/ Ended

Spec == Init /\ [][Next]_vars

-----------------------------------------------------------------------------
(* "refuses to deploy to a relay unless you pass --force-relay"            *)
(* (agent_manual.md:27), as far as the code can know: a relay that had     *)
(* announced itself to a probe before the command read the registry, and   *)
(* has run relay firmware ever since, is not flashed without the flag,     *)
(* however the target was given and however often it was silent to later   *)
(* probes. A `probe --clear` forgets what was announced before it: a relay *)
(* that is silent to that one is not known for one until it answers again. *)
RelaySpared ==
    outcome = "flashed" /\ ~force => uid \notin spared

(* "whichever board is on that port right now" (cli.py:529): a deploy to a *)
(* path flashes a board that was on that path while the command ran, and a *)
(* connect to a board opens a path that board was on, unless no port was   *)
(* listed and the recorded one was taken. A path a board sat on at its     *)
(* last probe is never enough.                                             *)
PairIsFresh ==
    /\ outcome = "flashed" /\ target.by = "path" => <<uid, target.what>> \in seen
    /\ outcome = "opened" /\ target.by # "path" /\ ~fellBack => <<uid, port>> \in seen
=============================================================================
