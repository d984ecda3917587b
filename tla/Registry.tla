------------------------------ MODULE Registry ------------------------------
(***************************************************************************)
(* The device registry (src/mbdeploy/devices.py): a JSON file that every   *)
(* `probe`, and every board arrival in the daemon, loads, updates in       *)
(* memory and writes back. Nothing locks the file: processes that share it *)
(* interleave between load_devices, the probing of each board (seconds of  *)
(* serial and SWD traffic) and the two halves of save_devices.             *)
(***************************************************************************)
EXTENDS Naturals

CONSTANTS Uids,       \* micro:bits
          Procs,      \* processes that run probe_all on the file
          Clearers,   \* those of them run with --clear
          Anns,       \* what a micro:bit may answer to HELLO
          CanCrash,   \* may a process be killed in the middle of probe_all
          None,       \* no announcement known
          Absent,     \* no entry
          Unreadable  \* file missing, empty or not JSON

(* The announcement fields are set together and board_name is set once, so *)
(* an entry is its enum, its announcement, and whether it has a name.      *)
Entry == [enum : Nat, ann : Anns \cup {None}, named : BOOLEAN]
Dict  == [Uids -> Entry \cup {Absent}]
Empty == [u \in Uids |-> Absent]

ASSUME RegistryAssumption ==
    /\ Clearers \subseteq Procs
    /\ CanCrash \in BOOLEAN
    /\ None \notin Anns
    /\ Absent \notin Entry
    /\ Unreadable \notin Dict

VARIABLES
    file,    \* the registry file
    pc,      \* process -> where it is in probe_all
    dict,    \* process -> its `devices`
    todo,    \* process -> connected uids in scope that it has yet to probe
    mixed,   \* process -> another process wrote since this one truncated the file
    ever,    \* history: the enum each uid was first written with, and the last
             \* announcement and name ever written for it
    disturbed   \* history: two processes overlapped, one was killed in the middle
                \* of a write, or --clear was used

vars == <<file, pc, dict, todo, mixed, ever, disturbed>>

TypeOK ==
    /\ file \in Dict \cup {Unreadable}
    /\ pc \in [Procs -> {"idle", "probing", "writing"}]
    /\ dict \in [Procs -> Dict]
    /\ todo \in [Procs -> SUBSET Uids]
    /\ mixed \in [Procs -> BOOLEAN]
    /\ ever \in Dict
    /\ disturbed \in BOOLEAN

Init ==
    /\ file = Unreadable
    /\ pc = [p \in Procs |-> "idle"]
    /\ dict = [p \in Procs |-> Empty]
    /\ todo = [p \in Procs |-> {}]
    /\ mixed = [p \in Procs |-> FALSE]
    /\ ever = Empty
    /\ disturbed = FALSE

-----------------------------------------------------------------------------
Enums(d) == {d[u].enum : u \in {v \in Uids : d[v] # Absent}}

(* Fault: the first enum that looks free above the smallest.               *)
NextEnumLow(d) ==
    1 + (CHOOSE n \in Enums(d) \cup {0} : \A e \in Enums(d) : n <= e)

(* assign_enum for a uid without one: max(existing, default=0) + 1.        *)
NextEnum(d) ==
    1 + (CHOOSE n \in Enums(d) \cup {0} : \A e \in Enums(d) : e <= n)

(* Fault: the file is used without looking at it.                          *)
LoadedUnchecked == file

(* load_devices: a missing or invalid file is an empty registry.           *)
Loaded == IF file = Unreadable THEN Empty ELSE file

(* probe_all starts: with clear it ignores the file. The scope is what is  *)
(* connected, narrowed to only_uids if given.                              *)
Start(p) ==
    /\ pc[p] = "idle"
    /\ pc' = [pc EXCEPT ![p] = "probing"]
    /\ \/ /\ dict' = [dict EXCEPT ![p] = Loaded]
          /\ disturbed' = (disturbed \/ \E q \in Procs : pc[q] # "idle")
       \/ /\ p \in Clearers
          /\ dict' = [dict EXCEPT ![p] = Empty]
          /\ disturbed' = TRUE
    /\ \E scope \in SUBSET Uids : todo' = [todo EXCEPT ![p] = scope]
    /\ UNCHANGED <<file, mixed, ever>>

(* Fault: a silent board's announcement is overwritten.                    *)
UpdatedCarelessly(old, d, reply, name) ==
    [enum  |-> IF old = Absent THEN NextEnum(d) ELSE old.enum,
     ann   |-> reply,
     named |-> (old # Absent /\ old.named) \/ name]

(* One round of probe_all's loop: what it makes of the entry, given the    *)
(* HELLO answer (None if the board is silent) and whether the SWD read of  *)
(* its name worked.                                                        *)
Updated(old, d, reply, name) ==
    [enum  |-> IF old = Absent THEN NextEnum(d) ELSE old.enum,
     ann   |-> IF reply # None \/ old = Absent THEN reply ELSE old.ann,
     named |-> (old # Absent /\ old.named) \/ name]

(* probe_type: the announcement, or nothing from a board that is silent,   *)
(* has no port, or whose port is in use.                                   *)
HelloReplies == Anns \cup {None}

(* read_device_id: the name can be read over SWD, or not.                  *)
NameReads == BOOLEAN

Probe(p, u) ==
    /\ pc[p] = "probing"
    /\ u \in todo[p]
    /\ todo' = [todo EXCEPT ![p] = @ \ {u}]
    /\ \E reply \in HelloReplies, name \in NameReads :
          dict' = [dict EXCEPT ![p] =
                     [@ EXCEPT ![u] = Updated(dict[p][u], dict[p], reply, name)]]
    /\ UNCHANGED <<file, pc, mixed, ever, disturbed>>

(* save_devices, first half: write_text opens the file for writing, which  *)
(* empties it.                                                             *)
Truncate(p) ==
    /\ pc[p] = "probing"
    /\ todo[p] = {}
    /\ pc' = [pc EXCEPT ![p] = "writing"]
    /\ file' = Unreadable
    /\ mixed' = [mixed EXCEPT ![p] = FALSE]
    /\ UNCHANGED <<dict, todo, ever, disturbed>>

(* What has ever been recorded, once d has been written.                   *)
Remembered(d) ==
    [u \in Uids |->
        IF ever[u] = Absent \/ d[u] = Absent
        THEN IF ever[u] = Absent THEN d[u] ELSE ever[u]
        ELSE [enum  |-> ever[u].enum,
              ann   |-> IF d[u].ann = None THEN ever[u].ann ELSE d[u].ann,
              named |-> ever[u].named \/ d[u].named]]

(* p is at its end, and its memory is gone.                                *)
Ends(p) ==
    /\ pc' = [pc EXCEPT ![p] = "idle"]
    /\ dict' = [dict EXCEPT ![p] = Empty]
    /\ todo' = [todo EXCEPT ![p] = {}]

(* Second half. Another process that wrote in between may have left a tail *)
(* behind this one's text, which is then no JSON.                          *)
Write(p) ==
    /\ pc[p] = "writing"
    /\ Ends(p)
    /\ file' \in {dict[p]} \cup (IF mixed[p] THEN {Unreadable} ELSE {})
    /\ ever' = Remembered(dict[p])
    /\ mixed' = [q \in Procs |-> q # p /\ pc[q] = "writing"]
    /\ UNCHANGED disturbed

(* Ctrl-C in `probe`, or the daemon stopped: the file stays as it is.      *)
Crash(p) ==
    /\ CanCrash
    /\ pc[p] # "idle"
    /\ Ends(p)
    /\ mixed' = [mixed EXCEPT ![p] = FALSE]
    /\ disturbed' = (disturbed \/ pc[p] = "writing")
    /\ UNCHANGED <<file, ever>>

Next == \E p \in Procs :
            \/ Start(p)
            \/ \E u \in Uids : Probe(p, u)
            \/ Truncate(p)
            \/ Write(p)
            \/ Crash(p)

Spec == Init /\ [][Next]_vars

-----------------------------------------------------------------------------
(* No two micro:bits share an enum, in the file or in any process's copy,  *)
(* whatever writes were lost, torn, cleared or interleaved: `deploy 2`     *)
(* never has two boards to choose from (devices.py:307-315).               *)
UniqueIn(d) ==
    \A u, v \in Uids :
        (d[u] # Absent /\ d[v] # Absent /\ d[u].enum = d[v].enum) => u = v

EnumsUnique ==
    /\ file # Unreadable => UniqueIn(file)
    /\ \A p \in Procs : UniqueIn(dict[p])

(* What devices.py:5-11 promises of the file: an entry once written stays, *)
(* its enum never changes, and its announcement and name are not cleared   *)
(* by a later silent probe.                                                *)
Remembers ==
    file # Unreadable =>
        \A u \in Uids : ever[u] # Absent =>
            /\ file[u] # Absent
            /\ file[u].enum = ever[u].enum
            /\ file[u].ann = ever[u].ann
            /\ ever[u].named => file[u].named

(* The promise holds for processes that use the registry one after the     *)
(* other, whatever each of them finds and wherever its probing is cut off, *)
(* and the file then never stays unreadable once it has been written.      *)
RegistryKept ==
    ~disturbed =>
        /\ Remembers
        /\ (\A p \in Procs : pc[p] # "writing") => (file = Unreadable => ever = Empty)

-----------------------------------------------------------------------------
(* A claim of devices.py that the code does not meet.                      *)

(* "Entries are never deleted", "assigned once and never changes": without *)
(* the proviso that processes take turns and that none of them is killed   *)
(* between emptying the file and writing it.                               *)
RegistryAlwaysKept == Remembers
=============================================================================
