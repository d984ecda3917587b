----------------------------- MODULE Supervisor -----------------------------
(***************************************************************************)
(* The USB watcher (src/mbdeploy/server.py, class Supervisor): every tick  *)
(* diffs the probe list against the previous tick's, tears departed boards *)
(* down and brings arrived ones up, with their ports, listeners and mDNS   *)
(* advertisements. All of it runs in one thread, which nothing restarts:   *)
(* an exception in a handler ends it.                                      *)
(*                                                                         *)
(* What a departure does to a board's sessions is in BoardSessions; here   *)
(* it is one step.                                                         *)
(***************************************************************************)
EXTENDS Naturals, Sequences

CONSTANTS Uids,       \* micro:bits
          BasePort,   \* --base-port; 0 lets the OS choose the ports
          CanFail,    \* may an arrival or departure raise (registry not writable,
                      \* port taken by another program, mDNS call refused)
          None

ASSUME SupervisorAssumption ==
    /\ BasePort \in Nat
    /\ CanFail \in BOOLEAN
    /\ None \notin Nat

Kinds == {"serial", "flash"}       \* _mbserial._tcp and _mbflash._tcp

VARIABLES
    attached,   \* what flashable_probes would report now
    at,         \* the thread: between ticks, in one, or ended by an exception
    known,      \* _known
    current,    \* the tick's snapshot of the probe list
    departed,   \* uids of this tick still to be torn down
    arrived,    \* uids of this tick still to be brought up
    boards,     \* keys of self.boards
    held,       \* _board_ports: uid -> first port of its pair, or None
    freelist,   \* _port_freelist, a stack of first ports
    nextPort,   \* _next_port
    ads,        \* <<uid, kind>> registered with the Advertiser
    listening   \* <<uid, kind>> whose listener the AcceptLoop selects on

tickVars == <<at, known, current, departed, arrived>>
portVars == <<held, freelist, nextPort>>
vars     == <<attached, at, known, current, departed, arrived, boards, held,
              freelist, nextPort, ads, listening>>

(* While the thread lives, only boards that are up have ports.             *)
TypeOK ==
    /\ attached \in SUBSET Uids
    /\ at \in {"poll", "tick", "dead"}
    /\ known \in SUBSET Uids /\ current \in SUBSET Uids
    /\ departed \in SUBSET Uids /\ arrived \in SUBSET Uids
    /\ boards \in SUBSET Uids
    /\ held \in [Uids -> Nat \cup {None}]
    /\ at # "dead" => \A u \in Uids : held[u] # None => u \in boards
    /\ freelist \in Seq(Nat)
    /\ nextPort \in Nat
    /\ ads \in SUBSET (Uids \X Kinds)
    /\ listening \in SUBSET (Uids \X Kinds)

Init ==
    /\ attached \in SUBSET Uids
    /\ at = "poll"
    /\ known = {} /\ current = {} /\ departed = {} /\ arrived = {}
    /\ boards = {}
    /\ held = [u \in Uids |-> None]
    /\ freelist = <<>>
    /\ nextPort = BasePort
    /\ ads = {}
    /\ listening = {}

-----------------------------------------------------------------------------
(* A micro:bit is plugged or unplugged, or the probe list cannot be read   *)
(* for a while.                                                            *)
UsbChange(u) ==
    /\ attached' \in {attached \cup {u}, attached \ {u}}
    /\ attached' # attached
    /\ UNCHANGED <<tickVars, boards, portVars, ads, listening>>

(* _tick: the whole diff is computed from one snapshot.                    *)
Poll ==
    /\ at = "poll"
    /\ at' = "tick"
    /\ current' = attached
    /\ departed' = known \ attached
    /\ arrived' = attached \ known
    /\ UNCHANGED <<attached, known, boards, portVars, ads, listening>>

(* Fault: the departed board's ports are retired, not reclaimed.           *)
RetirePorts(u) == held' = [held EXCEPT ![u] = None] /\ UNCHANGED freelist

(* Fault: the entry in _board_ports is read but not removed.               *)
KeepPorts(u) ==
    /\ freelist' = IF held[u] = None THEN freelist ELSE Append(freelist, held[u])
    /\ UNCHANGED held

(* The pair of a departed board goes back on the free-list.                *)
ReclaimPorts(u) ==
    /\ held' = [held EXCEPT ![u] = None]
    /\ freelist' = IF held[u] = None THEN freelist ELSE Append(freelist, held[u])

OnDeparture(u) ==
    /\ at = "tick"
    /\ u \in departed
    /\ departed' = departed \ {u}
    /\ IF u \in boards
       THEN /\ boards' = boards \ {u}
            /\ ads' = ads \ ({u} \X Kinds)
            /\ listening' = listening \ ({u} \X Kinds)
            /\ ReclaimPorts(u)
       ELSE UNCHANGED <<boards, ads, listening, held, freelist>>
    /\ UNCHANGED <<attached, at, known, current, arrived, nextPort>>

(* _on_departure raises in one of its two mDNS calls: the board is gone    *)
(* from self.boards, but keeps its ports and its listeners.                *)
DepartureRaises(u) ==
    /\ CanFail
    /\ at = "tick"
    /\ u \in departed \cap boards
    /\ at' = "dead"
    /\ boards' = boards \ {u}
    /\ ads' \in {ads, ads \ {<<u, "serial">>}}
    /\ UNCHANGED <<attached, known, current, departed, arrived, portVars, listening>>

(* Fault: the free-list's pair is handed out but stays on the list.        *)
PeekPorts ==
    IF BasePort = 0 THEN <<None, freelist, nextPort>>
    ELSE IF freelist # <<>>
    THEN <<freelist[Len(freelist)], freelist, nextPort>>
    ELSE <<nextPort, freelist, nextPort + 2>>

(* _alloc_ports: <<pair, free-list afterwards, _next_port afterwards>>. A  *)
(* reclaimed pair first, the most recent one; else the next two ports.     *)
AllocPorts ==
    IF BasePort = 0 THEN <<None, freelist, nextPort>>
    ELSE IF freelist # <<>>
    THEN <<freelist[Len(freelist)], SubSeq(freelist, 1, Len(freelist) - 1), nextPort>>
    ELSE <<nextPort, freelist, nextPort + 2>>

(* _on_arrival, to the end. Departures of the tick come first, so a port   *)
(* pair given up in it can be used in it.                                  *)
OnArrival(u) ==
    /\ at = "tick"
    /\ departed = {}
    /\ u \in arrived
    /\ arrived' = arrived \ {u}
    /\ held' = [held EXCEPT ![u] = AllocPorts[1]]
    /\ freelist' = AllocPorts[2]
    /\ nextPort' = AllocPorts[3]
    /\ ads' = ads \cup ({u} \X Kinds)
    /\ listening' = listening \cup ({u} \X Kinds)
    /\ boards' = boards \cup {u}
    /\ UNCHANGED <<attached, at, known, current, departed>>

(* _on_arrival raises: in probe_all, before anything was taken; in a bind  *)
(* or the first mDNS registration, with the ports taken; or in the second  *)
(* registration, with the first one left behind. The listeners are closed  *)
(* when the exception drops the frame. run() does not catch it.            *)
ArrivalRaises(u) ==
    /\ CanFail
    /\ at = "tick"
    /\ departed = {}
    /\ u \in arrived
    /\ at' = "dead"
    /\ \/ UNCHANGED <<freelist, nextPort, ads>>
       \/ /\ freelist' = AllocPorts[2]
          /\ nextPort' = AllocPorts[3]
          /\ ads' \in {ads, ads \cup {<<u, "serial">>}}
    /\ UNCHANGED <<attached, known, current, departed, arrived, boards, held, listening>>

(* Fault: the set to diff against is read again at the end of the tick.    *)
EndTickRereading ==
    /\ at = "tick"
    /\ departed = {} /\ arrived = {}
    /\ at' = "poll"
    /\ known' = attached
    /\ UNCHANGED <<attached, current, departed, arrived, boards, portVars, ads, listening>>

EndTick ==
    /\ at = "tick"
    /\ departed = {} /\ arrived = {}
    /\ at' = "poll"
    /\ known' = current
    /\ UNCHANGED <<attached, current, departed, arrived, boards, portVars, ads, listening>>

Work == \/ Poll
        \/ \E u \in Uids : OnDeparture(u) \/ DepartureRaises(u)
                          \/ OnArrival(u) \/ ArrivalRaises(u)
        \/ EndTick

Next == Work \/ \E u \in Uids : UsbChange(u)

Spec == Init /\ [][Next]_vars

(* The polling thread runs. Its waits for boards and sessions have         *)
(* timeouts; that its calls of pyocd and of zeroconf return is assumed.    *)
FairSpec == Spec /\ WF_vars(Work)

-----------------------------------------------------------------------------
Advertised(u) == {<<u, k>> : k \in Kinds} \subseteq ads
Withdrawn(u)  == {<<u, k>> : k \in Kinds} \cap (ads \cup listening) = {}

(* Port pairs on the free-list.                                            *)
FreePairs == {freelist[i] : i \in DOMAIN freelist}
HeldPairs == {held[u] : u \in {v \in Uids : held[v] # None}}

(* Reclaiming ports never hands a pair to two boards, or to a board and    *)
(* the free-list, or twice to the free-list, in any order of arrivals and  *)
(* departures, failed ones included (server.py:933-950).                   *)
PortsExclusive ==
    /\ \A u, v \in Uids : (held[u] # None /\ held[u] = held[v]) => u = v
    /\ HeldPairs \cap FreePairs = {}
    /\ \A i, j \in DOMAIN freelist : freelist[i] = freelist[j] => i = j

(* ... and while the thread lives no pair is lost: what was ever handed    *)
(* out is held or free, so the port range does not creep upwards.          *)
PortsConserved ==
    at # "dead" =>
        HeldPairs \cup FreePairs = {p \in BasePort..nextPort : p < nextPort
                                                   /\ (p - BasePort) % 2 = 0}

(* SUC-003: a board that stays plugged is in the end advertised under both *)
(* services for good, one that stays away is in the end fully withdrawn,   *)
(* whatever flickering came before and whatever changed during a tick, as  *)
(* long as no handler raises.                                              *)
PlugTracked ==
    [](at # "dead") =>
        \A u \in Uids : (<>[](u \in attached)) => <>[](Advertised(u))

UnplugTracked ==
    [](at # "dead") =>
        \A u \in Uids : (<>[](u \notin attached)) => <>[](Withdrawn(u))

-----------------------------------------------------------------------------
(* A claim of the repository's documents that the code does not meet.      *)

(* "unplugging it unregisters both" (sprint 002, SUC-003), without the     *)
(* proviso that the watcher's thread is still there.                       *)
UnplugAlwaysTracked ==
    \A u \in Uids : (<>[](u \notin attached)) => <>[](Withdrawn(u))
=============================================================================
