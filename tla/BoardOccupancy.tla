--------------------------- MODULE BoardOccupancy ---------------------------
(***************************************************************************)
(* What a Board object of mbdeploy's daemon promises to the connections    *)
(* made to it, without the threads, sockets and locks that keep the        *)
(* promise (server.py, class Board): a board has at most one holder; a     *)
(* serial session only ever takes an idle board; a flash session takes an  *)
(* idle board or takes it over from a serial session, never from another   *)
(* flash; a session that lost the board can leave without disturbing the   *)
(* one that took it.                                                       *)
(*                                                                         *)
(* BoardSessions implements this specification: see Occupancy there.       *)
(***************************************************************************)
CONSTANTS Boards,      \* Board objects
          Serials,     \* connections to a board's serial port service
          Flashes,     \* connections to a board's flash service
          None

Sessions == Serials \cup Flashes

VARIABLES holder,     \* board -> the session that holds it, or None
          standing,   \* session -> where it is in its one visit to a board
          where       \* session -> the board it is connected to, or None

occupancyVars == <<holder, standing, where>>

OccupancyTypeOK ==
    /\ holder \in [Boards -> Sessions \cup {None}]
    /\ standing \in [Sessions -> {"outside", "holding", "displaced", "left"}]
    /\ where \in [Sessions -> Boards \cup {None}]

OccupancyInit ==
    /\ holder = [b \in Boards |-> None]
    /\ standing = [s \in Sessions |-> "outside"]
    /\ where = [s \in Sessions |-> None]

(* A client reaches one of the board's two listeners.                      *)
Connect(s, b) ==
    /\ standing[s] = "outside"
    /\ where[s] = None
    /\ where' = [where EXCEPT ![s] = b]
    /\ UNCHANGED <<holder, standing>>

(* Busy, unauthorised or malformed: the session never holds the board.     *)
TurnAway(s) ==
    /\ standing[s] = "outside"
    /\ standing' = [standing EXCEPT ![s] = "left"]
    /\ UNCHANGED <<holder, where>>

TakeIdle(s, b) ==
    /\ standing[s] = "outside"
    /\ where[s] = b
    /\ holder[b] = None
    /\ holder' = [holder EXCEPT ![b] = s]
    /\ standing' = [standing EXCEPT ![s] = "holding"]
    /\ UNCHANGED where

(* Only a flash, and only over a serial session.                           *)
TakeOver(f, b) ==
    /\ f \in Flashes
    /\ standing[f] = "outside"
    /\ where[f] = b
    /\ holder[b] \in Serials
    /\ holder' = [holder EXCEPT ![b] = f]
    /\ standing' = [standing EXCEPT ![f] = "holding", ![holder[b]] = "displaced"]
    /\ UNCHANGED where

(* The board left the USB bus.                                             *)
Evict(b) ==
    /\ holder[b] # None
    /\ holder' = [holder EXCEPT ![b] = None]
    /\ standing' = [standing EXCEPT ![holder[b]] = "displaced"]
    /\ UNCHANGED where

LeaveHolder(s, b) ==
    /\ standing[s] = "holding"
    /\ where[s] = b
    /\ holder' = [holder EXCEPT ![b] = None]
    /\ standing' = [standing EXCEPT ![s] = "left"]
    /\ UNCHANGED where

LeaveDisplaced(s) ==
    /\ standing[s] = "displaced"
    /\ standing' = [standing EXCEPT ![s] = "left"]
    /\ UNCHANGED <<holder, where>>

OccupancyNext ==
    \/ \E s \in Sessions : TurnAway(s) \/ LeaveDisplaced(s)
    \/ \E s \in Sessions, b \in Boards :
          Connect(s, b) \/ TakeIdle(s, b) \/ LeaveHolder(s, b)
    \/ \E f \in Flashes, b \in Boards : TakeOver(f, b)
    \/ \E b \in Boards : Evict(b)

OccupancySpec == OccupancyInit /\ [][OccupancyNext]_occupancyVars
=============================================================================
